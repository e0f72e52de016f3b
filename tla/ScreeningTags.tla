--------------------------- MODULE ScreeningTags ---------------------------
(* screening_center_service: the strengths of a candidate that the list of the    *)
(* screening centre names, taken from a stored report.                             *)
EXTENDS Naturals, Sequences, FiniteSets, SequencesExt

CONSTANT MaxTags  \* 4; bound: fewer in the runs

ASSUME TagsAssumption == MaxTags \in Nat

(***************************************************************************)
(* A report: criteria, a sequence of [label, importance, hidden, score,    *)
(* evidence], importance being 0 for required to 2 for general, and hidden *)
(* a label that the patterns keep out; and strengths, a sequence of        *)
(* sequences of places in criteria.                                        *)
(***************************************************************************)
IsStored(report) ==
  /\ report.criteria \in Seq([label : Nat, importance : 0..2, hidden : BOOLEAN, score : 0..100, evidence : Nat])
  /\ report.strengths \in Seq(Seq(Nat))

Named(report) ==
  {<<i, c>> : i \in 1..Len(report.strengths), c \in 1..Len(report.criteria)}

Candidates(report) ==
  {n \in Named(report) :
     LET criterion == report.criteria[n[2]]
     IN /\ n[2] \in Range(report.strengths[n[1]])
        /\ criterion.score > 0 /\ criterion.evidence > 0
        /\ ~criterion.hidden}

SmallerKey(a, b) == \E i \in 1..Len(a) : a[i] < b[i] /\ \A j \in 1..i - 1 : a[j] = b[j]

\* The better score, the more important, the earlier strength, the earlier criterion.
TagBefore(report, m, n) ==
  LET Key(k) == <<100 - report.criteria[k[2]].score, report.criteria[k[2]].importance, k[1], k[2]>>
  IN SmallerKey(Key(m), Key(n))

\* The one of some candidates that is sorted behind the others.
LastTag(report, S) == CHOOSE n \in S : \A m \in S : m = n \/ TagBefore(report, m, n)

\* One candidate more: listed, unless the list is full or has its label.
Take(report, n, tags) ==
  LET Label(c) == report.criteria[c].label
  IN IF Len(tags) = MaxTags \/ \E t \in Range(tags) : Label(t) = Label(n[2]) THEN tags
     ELSE Append(tags, n[2])

\* extract_screening_ability_tags: the criteria named, the first of each label in sorted order
Tags(report) ==
  MapThenFoldSet(LAMBDA n, tags : Take(report, n, tags), <<>>,
                 LAMBDA n : n, LAMBDA S : LastTag(report, S), Candidates(report))

-----------------------------------------------------------------------------
\* The list never hides a better strength behind a worse one: a label that a strength
\* supports is named with its best score, unless as many others are that score no less, and
\* no label is named twice or without support.
BestNamed(report) ==
  LET tags == Tags(report)
      supported == {n[2] : n \in Candidates(report)}
      Label(c) == report.criteria[c].label
      Score(c) == report.criteria[c].score
  IN /\ Len(tags) <= MaxTags /\ Range(tags) \subseteq supported
     /\ IsInjective([i \in 1..Len(tags) |-> Label(tags[i])])
     /\ \A c \in supported :
          \/ \E t \in Range(tags) : Label(t) = Label(c) /\ Score(t) >= Score(c)
          \/ Len(tags) = MaxTags /\ \A t \in Range(tags) : Score(t) >= Score(c)
=============================================================================
