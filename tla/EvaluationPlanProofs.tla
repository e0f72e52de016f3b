------------------------ MODULE EvaluationPlanProofs ------------------------
(***************************************************************************)
(* Theorems about EvaluationPlan, for every set of texts and sessions and   *)
(* for every bound.  The inductive invariant says what the rows of a job's  *)
(* plans have in common: the order of their ids, the current one ahead of   *)
(* the others of its text, and the criteria that versions share.            *)
(***************************************************************************)
EXTENDS EvaluationPlan, FiniteSetTheorems, WellFoundedInduction, TLAPS

PlanRow ==
  [status : Statuses \cup {"absent"}, v5 : BOOLEAN, input : Texts, current : BOOLEAN,
   version : Nat, criteria : SUBSET Criterion, confirmed : BOOLEAN, root : 0..MaxPlans]
SessionState ==
  [pc : {"idle", "called", "job", "model", "plan"}, call : Calls \cup {"none"},
   row : 0..MaxPlans, input : Texts]
Page == [row : 0..MaxPlans, version : Nat, criteria : SUBSET Criterion]

Types ==
  /\ job \in [status : {"draft", "open", "closed", "deleted"}, text : Texts]
  /\ session \in [Sessions -> SessionState]
  /\ stamp \in Nat /\ lost \in BOOLEAN /\ strayed \in BOOLEAN
  /\ hrLeft \in Nat /\ faultsLeft \in Nat

\* Each request that is under way may write one criterion.
Busy == {s \in Sessions : session[s].pc # "idle"}
WithinBudget == IsFiniteSet(Busy) /\ stamp + Cardinality(Busy) + hrLeft <= HrBudget

\* Criteria as written so far, each under an id of its own.
Sound(criteria) ==
  /\ \A c \in criteria : c.stamp < stamp /\ c.id <= MaxCriteria + stamp
  /\ \A c, d \in criteria : c.id = d.id => c = d

PageFits == page \in Page /\ Sound(page.criteria)

\* Rows are written one after the other, and a version stays in the line of its root.
RowsInOrder ==
  /\ \E n \in 0..MaxPlans : Rows = 1..n
  /\ \A p \in Ids \ Rows : plan[p] = AbsentPlan
  /\ \A p \in Rows : plan[p].root \in Rows

OneCurrent == \A p, q \in CurrentRows : p = q

\* Rows as JobEvaluationPlanRead shows them; those of older schemas are never confirmed here.
Shown(row) ==
  /\ row.status = "outdated" => ~row.current
  /\ row.v5 =>
       /\ row.version >= 1
       /\ row.status \in Complete => row.criteria # {}
       /\ row.status \in {"generating", "failed"} => row.criteria = {}
       /\ row.confirmed <=> row.status = "ready"
  /\ ~row.v5 => row.status \in {"ready", "outdated"} /\ ~row.confirmed

\* The versions of one text differ, and the current plan has the latest.
Alike(p, q) == plan[p].v5 /\ plan[q].v5 /\ plan[p].input = plan[q].input
VersionsDiffer ==
  /\ \A p, q \in Rows : Alike(p, q) /\ plan[p].version = plan[q].version => p = q
  /\ \A p \in CurrentRows, q \in Rows : Alike(p, q) => plan[q].version <= plan[p].version
VersionsBounded == \E n \in Nat : \A p \in Ids : plan[p].version <= n

PlanFits ==
  /\ plan \in [Ids -> PlanRow]
  /\ \A p \in Ids : Sound(plan[p].criteria)
  /\ RowsInOrder /\ OneCurrent
  /\ \A p \in Rows : Shown(plan[p])
  /\ VersionsDiffer /\ VersionsBounded

\* A request that waits for its answer has written the row it asks about.
SessionsFit ==
  \A s \in Sessions :
    /\ session[s].row \in Rows \cup {0}
    /\ session[s].pc \in {"model", "plan"} => session[s].row \in Rows

\* The versions of one root agree on what their ids name; a plan without criteria yet is
\* the only one of its root, and so is one whose regeneration has been asked for.
Agree(p, q) == \A c \in plan[p].criteria, d \in plan[q].criteria : c.id = d.id => c = d
Alone(p) == \A q \in Rows : plan[q].root = plan[p].root => q = p
Regenerates(s) == session[s].pc \in {"called", "job"} /\ session[s].call = "regenerate"
VersionsAgree == \A p, q \in Rows : plan[p].root = plan[q].root => Agree(p, q)
EmptyAlone == \A p \in CurrentRows : plan[p].status \in {"generating", "failed"} => Alone(p)
AskedAlone == \A s \in Sessions : Regenerates(s) /\ session[s].row \in CurrentRows => Alone(session[s].row)
LinesAgree == ~strayed => VersionsAgree /\ EmptyAlone /\ AskedAlone

\* A draft of an old text is there only as long as somebody is about to replace it.
Stale ==
  /\ job.status = "open" /\ ~lost
  /\ \E p \in CurrentRows : ~plan[p].confirmed /\ plan[p].input # job.text
DraftFits == Stale => Pending({"outdate", "generate"})

IInv ==
  /\ Types /\ WithinBudget
  /\ PlanFits /\ PageFits /\ SessionsFit
  /\ LinesAgree /\ DraftFits

-----------------------------------------------------------------------------
(* Numbers and constants *)

LEMMA MaxOf ==
  ASSUME NEW S \in SUBSET Nat, S # {}, NEW n \in Nat, \A x \in S : x <= n
  PROVE  Max(S) \in S /\ \A x \in S : x <= Max(S)
  <1> DEFINE T == {k \in 0..n : n - k \in S}
  <1>1. T \subseteq Nat /\ T # {}
    <2>1. PICK x \in S : TRUE
      OBVIOUS
    <2>2. n - x \in T
      BY <2>1
    <2> QED
      BY <2>2
  <1>2. \E k \in T : \A l \in T : ~(<<l, k>> \in OpToRel(<, Nat))
    BY <1>1, NatLessThanWellFounded, WFMin
  <1>3. PICK k \in T : \A l \in T : ~(l < k)
    BY <1>1, <1>2 DEF OpToRel
  <1>4. n - k \in S /\ \A x \in S : x <= n - k
    <2>1. ASSUME NEW x \in S PROVE x <= n - k
      <3>1. n - x \in T
        OBVIOUS
      <3>2. ~(n - x < k) /\ x \in Nat /\ k \in Nat
        BY <1>3, <3>1
      <3> QED
        BY <3>2
    <2> QED
      BY <2>1
  <1>5. \A x \in S : x >= x
    OBVIOUS
  <1> QED
    BY <1>4 DEF Max

LEMMA CriteriaCounted ==
  ASSUME NEW C \in SUBSET Criterion, \A c, d \in C : c.id = d.id => c = d
  PROVE  Cardinality(IdsOf(C)) = Cardinality(C)
  <1> DEFINE f == [c \in C |-> c.id]
  <1>1. f \in Bijection(C, IdsOf(C))
    BY DEF Bijection, Injection, Surjection, IsInjective, IdsOf
  <1>2. f \in Injection(C, 1..MaxCriteria + HrBudget)
    BY DEF Injection, IsInjective, Criterion
  <1>3. IsFiniteSet(C)
    <2>1. IsFiniteSet(1..MaxCriteria + HrBudget)
      BY FS_Interval, ConstantsOK
    <2> QED
      BY <1>2, <2>1, FS_Injection
  <1> QED
    BY <1>1, <1>3, FS_Bijection DEF ExistsBijection

LEMMA AText == (CHOOSE t \in Texts : TRUE) \in Texts
  BY ConstantsOK

LEMMA AbsentTyped ==
  /\ AbsentPlan \in PlanRow
  /\ AbsentPlan.status = "absent" /\ AbsentPlan.v5 = TRUE /\ AbsentPlan.current = FALSE
  /\ AbsentPlan.confirmed = FALSE /\ AbsentPlan.criteria = {} /\ AbsentPlan.version = 0
  BY AText, ConstantsOK DEF AbsentPlan, PlanRow

LEMMA IdleTyped == Idle \in SessionState /\ Idle.pc = "idle" /\ Idle.row = 0
  BY AText, ConstantsOK DEF Idle, SessionState

\* Where the current plan and the next id are.
LEMMA RowFacts ==
  ASSUME PlanFits
  PROVE  /\ Rows \subseteq Ids /\ CurrentRows \subseteq Rows /\ 0 \notin Rows
         /\ \A p \in Ids : plan[p] \in PlanRow
         /\ HasCurrent => Current \in CurrentRows /\ \A p \in CurrentRows : p = Current
         /\ NextId \in Nat /\ NextId \notin Rows /\ NextId # 0
         /\ NextId \in Ids => Rows \cup {NextId} = 1..NextId
  <1>1. PICK n \in 0..MaxPlans : Rows = 1..n
    BY DEF PlanFits, RowsInOrder
  <1>2. n \in Nat /\ Cardinality(Rows) = n
    BY <1>1, FS_Interval, ConstantsOK
  <1>3. NextId = n + 1
    BY <1>2 DEF NextId
  <1>4. HasCurrent => Current \in CurrentRows
    BY DEF HasCurrent, Current
  <1>5. \A p, q \in CurrentRows : p = q
    BY DEF PlanFits, OneCurrent
  <1> QED
    BY <1>1, <1>2, <1>3, <1>4, <1>5 DEF PlanFits, Rows, CurrentRows

-----------------------------------------------------------------------------
(* Changes of the rows *)

LEMMA OlderSound ==
  ASSUME NEW C, C \subseteq Criterion, Sound(C), stamp \in Nat, stamp' \in Nat, stamp <= stamp'
  PROVE  Sound(C)'
  <1>1. \A c \in C : c.stamp \in Nat /\ c.id \in Nat
    BY ConstantsOK DEF Criterion, Stamps
  <1> QED
    BY <1>1, ConstantsOK DEF Sound

\* Rows that stay as they are fit whatever else happens.
LEMMA RowsStay ==
  ASSUME PlanFits, UNCHANGED plan, stamp \in Nat, stamp' \in Nat, stamp <= stamp'
  PROVE  PlanFits' /\ Rows' = Rows /\ CurrentRows' = CurrentRows
  <1>1. Rows' = Rows /\ CurrentRows' = CurrentRows
    BY DEF Rows, CurrentRows
  <1>2. \A p \in Ids : Sound(plan[p].criteria)'
    <2>1. \A p \in Ids : plan[p].criteria \subseteq Criterion /\ Sound(plan[p].criteria)
      BY DEF PlanFits, PlanRow
    <2> QED
      BY <2>1, OlderSound
  <1>3. RowsInOrder' /\ OneCurrent' /\ VersionsDiffer' /\ VersionsBounded'
    BY <1>1 DEF PlanFits, RowsInOrder, OneCurrent, VersionsDiffer, VersionsBounded, Alike
  <1>4. \A p \in Rows' : Shown(plan[p])'
    BY <1>1 DEF PlanFits, Shown
  <1> QED
    BY <1>1, <1>2, <1>3, <1>4 DEF PlanFits

\* One row changes: neither its text nor its root, and its version only while it is current.
LEMMA RowChanges ==
  ASSUME PlanFits, stamp \in Nat, stamp' \in Nat, stamp <= stamp',
         NEW c \in Rows, NEW new \in PlanRow, plan' = [plan EXCEPT ![c] = new],
         new.status # "absent", new.v5 = plan[c].v5, new.input = plan[c].input, new.root = plan[c].root,
         new.current => plan[c].current,
         new.version = plan[c].version \/ (c \in CurrentRows /\ new.version = plan[c].version + 1),
         Sound(new.criteria)', Shown(new)
  PROVE  PlanFits' /\ Rows' = Rows /\ CurrentRows' \subseteq CurrentRows
  <1>1. /\ c \in Ids /\ Rows \subseteq Ids /\ \A p \in Ids : plan[p] \in PlanRow
        /\ \A p \in Ids : plan'[p] = IF p = c THEN new ELSE plan[p]
        /\ \A p \in CurrentRows : p \in Rows /\ plan[p].current
    BY RowFacts DEF PlanFits, CurrentRows
  <1>2. Rows' = Rows
    BY <1>1 DEF Rows
  <1>3. CurrentRows' \subseteq CurrentRows
    BY <1>1, <1>2 DEF CurrentRows
  <1>4. plan' \in [Ids -> PlanRow]
    BY DEF PlanFits
  <1>5. \A p \in Ids : Sound(plan[p].criteria)'
    <2>1. \A p \in Ids : plan[p].criteria \subseteq Criterion /\ Sound(plan[p].criteria)
      BY DEF PlanFits, PlanRow
    <2> QED
      BY <1>1, <2>1, OlderSound
  <1>6. RowsInOrder' /\ OneCurrent'
    BY <1>1, <1>2, <1>3 DEF PlanFits, RowsInOrder, OneCurrent
  <1>7. \A p \in Rows' : Shown(plan[p])'
    BY <1>1, <1>2 DEF PlanFits, Shown
  <1>8. VersionsDiffer'
    <2>1. VersionsDiffer /\ OneCurrent /\ \A p \in Rows : plan[p].version \in Nat
      BY <1>1 DEF PlanFits, PlanRow
    <2>2. \A p, q \in Rows : Alike(p, q)' <=> Alike(p, q)
      BY <1>1 DEF Alike
    <2>3. ASSUME NEW p \in Rows, NEW q \in Rows, Alike(p, q), p # q PROVE plan'[p].version # plan'[q].version
      <3>1. Alike(q, p)
        BY <2>3 DEF Alike
      <3>2. CASE p = c
        BY <1>1, <2>1, <2>3, <3>2 DEF VersionsDiffer
      <3>3. CASE q = c
        BY <1>1, <2>1, <2>3, <3>1, <3>3 DEF VersionsDiffer
      <3>4. CASE p # c /\ q # c
        BY <1>1, <2>1, <2>3, <3>4 DEF VersionsDiffer
      <3> QED
        BY <3>2, <3>3, <3>4
    <2>4. ASSUME NEW p \in CurrentRows', NEW q \in Rows, Alike(p, q)
          PROVE  plan'[q].version <= plan'[p].version
      <3>1. p \in CurrentRows /\ plan[q].version <= plan[p].version
        BY <1>3, <2>1, <2>4 DEF VersionsDiffer
      <3>2. plan'[p].version >= plan[p].version
        BY <1>1, <2>1, <3>1
      <3>3. q # p => plan'[q].version = plan[q].version
        BY <1>1, <2>1, <3>1 DEF OneCurrent
      <3> QED
        BY <1>1, <2>1, <3>1, <3>2, <3>3
    <2> QED
      BY <1>2, <1>3, <2>2, <2>3, <2>4 DEF VersionsDiffer, CurrentRows
  <1>9. VersionsBounded'
    <2>1. PICK n \in Nat : \A p \in Ids : plan[p].version <= n
      BY DEF PlanFits, VersionsBounded
    <2>2. \A p \in Ids : plan[p].version \in Nat
      BY <1>1 DEF PlanRow
    <2>3. \A p \in Ids : plan'[p].version <= n + 1
      BY <1>1, <2>1, <2>2
    <2>4. n + 1 \in Nat
      OBVIOUS
    <2> QED
      BY <2>3, <2>4 DEF VersionsBounded
  <1> QED
    BY <1>2, <1>3, <1>4, <1>5, <1>6, <1>7, <1>8, <1>9 DEF PlanFits

\* The next row is written and is current; the one that was current no longer is.
LEMMA RowAdded ==
  ASSUME PlanFits, UNCHANGED stamp, stamp \in Nat, NEW new \in PlanRow, NEW next \in Ids, next = NextId,
         plan' = [p \in Ids |-> plan'[p]], plan'[next] = new,
         \A p \in Ids \ (CurrentRows \cup {next}) : plan'[p] = plan[p],
         \A p \in CurrentRows :
           \E old \in PlanRow :
             /\ plan'[p] = old /\ ~old.current /\ old.status # "absent" /\ Shown(old)
             /\ old.v5 = plan[p].v5 /\ old.input = plan[p].input /\ old.root = plan[p].root
             /\ old.version = plan[p].version /\ old.criteria = plan[p].criteria,
         new.status # "absent", new.current, Sound(new.criteria), Shown(new),
         new.root \in Rows \cup {next},
         \A q \in Rows : new.v5 /\ plan[q].v5 /\ plan[q].input = new.input => plan[q].version < new.version
  PROVE  PlanFits' /\ Rows' = Rows \cup {next} /\ CurrentRows' = {next}
  <1>1. /\ Rows \subseteq Ids /\ CurrentRows \subseteq Rows /\ next \notin Rows
        /\ Rows \cup {next} = 1..next /\ next \in Nat /\ next # 0
        /\ \A p \in Ids : plan[p] \in PlanRow
        /\ \A p \in Ids : p \in CurrentRows <=> (plan[p].status # "absent" /\ plan[p].current)
    BY RowFacts DEF CurrentRows, Rows
  <1>2. \A p \in Rows :
          /\ plan'[p] \in PlanRow /\ ~plan'[p].current /\ plan'[p].status # "absent" /\ Shown(plan[p])'
          /\ plan'[p].v5 = plan[p].v5 /\ plan'[p].input = plan[p].input /\ plan'[p].root = plan[p].root
          /\ plan'[p].version = plan[p].version /\ plan'[p].criteria = plan[p].criteria
    <2> TAKE p \in Rows
    <2>1. CASE p \in CurrentRows
      <3>1. PICK old \in PlanRow :
             /\ plan'[p] = old /\ ~old.current /\ old.status # "absent" /\ Shown(old)
             /\ old.v5 = plan[p].v5 /\ old.input = plan[p].input /\ old.root = plan[p].root
             /\ old.version = plan[p].version /\ old.criteria = plan[p].criteria
        BY <2>1
      <3> QED
        BY <3>1 DEF Shown
    <2>2. CASE p \notin CurrentRows
      <3>1. plan'[p] = plan[p] /\ ~plan[p].current /\ plan[p].status # "absent"
        BY <1>1, <2>2 DEF Rows
      <3>2. Shown(plan[p])
        BY DEF PlanFits
      <3> QED
        BY <1>1, <3>1, <3>2 DEF Shown
    <2> QED
      BY <2>1, <2>2
  <1>3. \A p \in Ids \ (Rows \cup {next}) : plan'[p] = plan[p] /\ plan[p] = AbsentPlan
    BY <1>1 DEF PlanFits, RowsInOrder
  <1>4. Rows' = Rows \cup {next}
    BY <1>1, <1>2, <1>3, AbsentTyped DEF Rows
  <1>5. CurrentRows' = {next}
    BY <1>1, <1>2, <1>4 DEF CurrentRows
  <1>6. plan' \in [Ids -> PlanRow]
    <2>1. \A p \in Ids : plan'[p] \in PlanRow
      BY <1>1, <1>2, <1>3
    <2> QED
      BY <2>1
  <1>7. \A p \in Ids : Sound(plan[p].criteria)'
    <2>1. \A p \in Ids : plan'[p].criteria \in {plan[p].criteria, new.criteria}
      BY <1>1, <1>2, <1>3
    <2>2. \A p \in Ids : Sound(plan[p].criteria)
      BY DEF PlanFits
    <2> QED
      BY <2>1, <2>2 DEF Sound
  <1>8. RowsInOrder'
    <2>1. \A p \in Ids \ Rows' : plan'[p] = AbsentPlan
      BY <1>3, <1>4
    <2>2. \A p \in Rows' : plan'[p].root \in Rows'
      BY <1>1, <1>2, <1>4 DEF PlanFits, RowsInOrder
    <2>3. next \in 0..MaxPlans /\ Rows' = 1..next
      BY <1>1, <1>4 DEF Ids
    <2>4. \E n \in 0..MaxPlans : Rows' = 1..n
      BY <2>3
    <2> QED
      BY <2>1, <2>2, <2>4 DEF RowsInOrder
  <1>9. OneCurrent'
    BY <1>5 DEF OneCurrent
  <1>10. \A p \in Rows' : Shown(plan[p])'
    BY <1>2, <1>4 DEF Shown
  <1>11. VersionsDiffer'
    <2>1. VersionsDiffer /\ \A p \in Rows : plan[p].version \in Nat
      BY <1>1 DEF PlanFits, PlanRow
    <2>2. \A p, q \in Rows : Alike(p, q)' <=> Alike(p, q)
      BY <1>2 DEF Alike
    <2>3. \A q \in Rows : Alike(next, q)' \/ Alike(q, next)' => plan'[q].version < new.version
      <3>1. \A q \in Rows : plan'[next].v5 /\ plan'[q].v5 /\ plan'[q].input = plan'[next].input
                            => plan'[q].version < new.version
        BY <1>2
      <3> QED
        BY <3>1 DEF Alike
    <2>4. new.version \in Nat
      BY DEF PlanRow
    <2> QED
      BY <1>1, <1>2, <1>4, <1>5, <2>1, <2>2, <2>3, <2>4 DEF VersionsDiffer
  <1>12. VersionsBounded'
    <2>1. PICK n \in Nat : \A p \in Ids : plan[p].version <= n
      BY DEF PlanFits, VersionsBounded
    <2>2. new.version \in Nat /\ \A p \in Ids : plan[p].version \in Nat
      BY <1>1 DEF PlanRow
    <2>3. \A p \in Ids : plan'[p].version \in {plan[p].version, new.version}
      BY <1>1, <1>2, <1>3
    <2>4. \A p \in Ids : plan'[p].version <= n + new.version
      BY <2>1, <2>2, <2>3
    <2>5. n + new.version \in Nat
      BY <2>2
    <2> QED
      BY <2>4, <2>5 DEF VersionsBounded
  <1> QED
    BY <1>4, <1>5, <1>6, <1>7, <1>8, <1>9, <1>10, <1>11, <1>12 DEF PlanFits

-----------------------------------------------------------------------------
(* Lines of versions, and drafts of an old text *)

LEMMA LinesWhenSame ==
  ASSUME LinesAgree, UNCHANGED <<plan, strayed>>,
         \A t \in Sessions :
           Regenerates(t)' => /\ Regenerates(t) \/ (~strayed => Alone(session'[t].row))
                              /\ Regenerates(t) => session'[t].row = session[t].row
  PROVE  LinesAgree'
  <1>1. Rows' = Rows /\ CurrentRows' = CurrentRows
    BY DEF Rows, CurrentRows
  <1>2. \A p, q : Agree(p, q)' <=> Agree(p, q)
    BY DEF Agree
  <1>3. \A p : (\A q \in Rows' : plan'[q].root = plan'[p].root => q = p) <=> Alone(p)
    BY <1>1 DEF Alone
  <1>4. \A s \in Sessions : Alone(session[s].row)' <=> Alone(session'[s].row)
    BY <1>3 DEF Alone
  <1>5. \A p : Alone(p)' <=> Alone(p)
    BY <1>3 DEF Alone
  <1> QED
    BY <1>1, <1>2, <1>4, <1>5 DEF LinesAgree, VersionsAgree, EmptyAlone, AskedAlone

\* One plan changes; what is new about it is new to its whole line.
LEMMA LinesKept ==
  ASSUME PlanFits, PlanFits', LinesAgree, strayed => strayed', Rows' = Rows, CurrentRows' \subseteq CurrentRows,
         NEW c \in Rows, \A p \in Rows : plan'[p].root = plan[p].root,
         \A p \in Rows \ {c} : plan'[p].criteria = plan[p].criteria /\ plan'[p].status = plan[p].status,
         ~strayed' => \/ Alone(c)
                      \/ \A x \in plan'[c].criteria :
                           x \in plan[c].criteria \/ \A q \in Rows : \A y \in plan[q].criteria : y.id # x.id,
         c \in CurrentRows' /\ plan'[c].status \in {"generating", "failed"} =>
           plan[c].status \in {"generating", "failed"} \/ (~strayed' => Alone(c)),
         \A t \in Sessions : Regenerates(t)' => Regenerates(t) /\ session'[t].row = session[t].row
  PROVE  LinesAgree'
  <1> SUFFICES ASSUME ~strayed' PROVE VersionsAgree' /\ EmptyAlone' /\ AskedAlone'
    BY DEF LinesAgree
  <1>1. /\ ~strayed /\ \A p, q \in Rows : plan[p].root = plan[q].root => Agree(p, q)
        /\ \A p \in CurrentRows : plan[p].status \in {"generating", "failed"} => Alone(p)
        /\ \A s \in Sessions : Regenerates(s) /\ session[s].row \in CurrentRows => Alone(session[s].row)
    BY DEF LinesAgree, VersionsAgree, EmptyAlone, AskedAlone
  <1>2. \A p \in Rows : (\A q \in Rows' : plan'[q].root = plan'[p].root => q = p) <=> Alone(p)
    BY DEF Alone
  <1>3. \A p \in Rows : Alone(p)' <=> Alone(p)
    BY <1>2 DEF Alone
  <1>4. \A s \in Sessions : session'[s].row \in Rows => (Alone(session[s].row)' <=> Alone(session'[s].row))
    BY <1>2 DEF Alone
  <1>5. \A p \in Rows : \A x, y \in plan'[p].criteria : x.id = y.id => x = y
    BY RowFacts DEF PlanFits, Sound
  <1>6. ASSUME NEW p \in Rows, NEW q \in Rows, plan'[p].root = plan'[q].root PROVE Agree(p, q)'
    <2>1. Agree(p, q) /\ plan[p].root = plan[q].root
      BY <1>1, <1>6
    <2>2. CASE Alone(c)
      <3>1. p = q \/ (p # c /\ q # c)
        BY <2>1, <2>2 DEF Alone
      <3>2. CASE p = q
        BY <1>5, <3>2 DEF Agree
      <3>3. CASE p # c /\ q # c
        BY <2>1, <3>3 DEF Agree
      <3> QED
        BY <3>1, <3>2, <3>3
    <2>3. CASE \A x \in plan'[c].criteria :
                 x \in plan[c].criteria \/ \A r \in Rows : \A y \in plan[r].criteria : y.id # x.id
      <3>1. CASE p = q
        BY <1>5, <3>1 DEF Agree
      <3>2. CASE p # q
        BY <2>1, <2>3, <3>2 DEF Agree
      <3> QED
        BY <3>1, <3>2
    <2> QED
      BY <2>2, <2>3
  <1>7. CurrentRows \subseteq Rows
    BY RowFacts
  <1>8. VersionsAgree'
    BY <1>6 DEF VersionsAgree
  <1>9. EmptyAlone'
    BY <1>1, <1>3, <1>7 DEF EmptyAlone
  <1>10. AskedAlone'
    BY <1>1, <1>4, <1>7 DEF AskedAlone
  <1> QED
    BY <1>8, <1>9, <1>10

\* A new row that either starts a line or continues the current plan's, whose criteria it has.
LEMMA LineGrows ==
  ASSUME PlanFits, LinesAgree, strayed => strayed', NEW next, next \notin Rows, next # 0, SessionsFit,
         Rows' = Rows \cup {next}, CurrentRows' = {next},
         \A p \in Rows : plan'[p].root = plan[p].root /\ plan'[p].criteria = plan[p].criteria,
         \/ plan'[next].root = next /\ plan'[next].criteria = {}
         \/ /\ plan'[next].status \notin {"generating", "failed"}
            /\ \E p \in Rows : plan'[next].root = plan[p].root /\ plan'[next].criteria = plan[p].criteria,
         \A t \in Sessions : Regenerates(t)' => Regenerates(t) /\ session'[t].row = session[t].row
  PROVE  LinesAgree'
  <1> SUFFICES ASSUME ~strayed' PROVE VersionsAgree' /\ EmptyAlone' /\ AskedAlone'
    BY DEF LinesAgree
  <1>1. ~strayed /\ \A p, q \in Rows : plan[p].root = plan[q].root => Agree(p, q)
    BY DEF LinesAgree, VersionsAgree
  <1>2. \A p \in Rows : plan[p].root \in Rows /\ Agree(p, p)
    BY <1>1 DEF PlanFits, RowsInOrder
  <1>3. AskedAlone'
    BY DEF SessionsFit, AskedAlone
  <1>4. CASE plan'[next].root = next /\ plan'[next].criteria = {}
    <2>1. VersionsAgree'
      BY <1>1, <1>2, <1>4 DEF VersionsAgree, Agree
    <2>2. EmptyAlone'
      BY <1>2, <1>4 DEF EmptyAlone, Alone
    <2> QED
      BY <1>3, <2>1, <2>2
  <1>5. CASE /\ plan'[next].status \notin {"generating", "failed"}
             /\ \E p \in Rows : plan'[next].root = plan[p].root /\ plan'[next].criteria = plan[p].criteria
    <2>1. PICK c \in Rows : plan'[next].root = plan[c].root /\ plan'[next].criteria = plan[c].criteria
      BY <1>5
    <2>2. \A p \in Rows' : \E r \in Rows : plan'[p].root = plan[r].root /\ plan'[p].criteria = plan[r].criteria
      BY <2>1
    <2>3. VersionsAgree'
      BY <1>1, <2>2 DEF VersionsAgree, Agree
    <2>4. EmptyAlone'
      BY <1>5 DEF EmptyAlone
    <2> QED
      BY <1>3, <2>3, <2>4
  <1> QED
    BY <1>4, <1>5

\* Nobody who was about to replace a draft of an old text goes away without doing so.
LEMMA DraftStays ==
  ASSUME DraftFits, UNCHANGED job, lost => lost',
         \A p \in CurrentRows' : /\ p \in CurrentRows /\ plan'[p].input = plan[p].input
                                 /\ plan[p].confirmed => plan'[p].confirmed,
         \A t \in Sessions : session[t].pc \in {"called", "job"} /\ session[t].call \in {"outdate", "generate"} =>
           lost' \/ (session'[t].pc \in {"called", "job"} /\ session'[t].call = session[t].call)
  PROVE  DraftFits'
  <1> SUFFICES ASSUME Stale' PROVE Pending({"outdate", "generate"})'
    BY DEF DraftFits
  <1>1. Stale /\ ~lost'
    BY DEF Stale
  <1>2. PICK t \in Sessions : session[t].pc \in {"called", "job"} /\ session[t].call \in {"outdate", "generate"}
    BY <1>1 DEF DraftFits, Pending
  <1> QED
    BY <1>1, <1>2 DEF Pending

-----------------------------------------------------------------------------
(* Sessions *)

LEMMA BusyStarts ==
  ASSUME Types, WithinBudget, NEW s \in Sessions, session[s].pc = "idle", NEW to, to.pc # "idle",
         session' = [session EXCEPT ![s] = to], Request, UNCHANGED stamp
  PROVE  WithinBudget' /\ hrLeft' \in Nat
  <1>1. Busy' = Busy \cup {s} /\ s \notin Busy
    BY DEF Busy, Types
  <1>2. IsFiniteSet(Busy') /\ Cardinality(Busy') = Cardinality(Busy) + 1
    BY <1>1, FS_AddElement DEF WithinBudget
  <1>3. Cardinality(Busy) \in Nat /\ hrLeft \in Nat /\ stamp \in Nat
    BY FS_CardinalityType DEF WithinBudget, Types
  <1> QED
    BY <1>2, <1>3, ConstantsOK DEF WithinBudget, Request

LEMMA BusyStays ==
  ASSUME WithinBudget, UNCHANGED <<stamp, hrLeft>>,
         \A s \in Sessions : session'[s].pc = "idle" <=> session[s].pc = "idle"
  PROVE  WithinBudget'
  <1>1. Busy' = Busy
    BY DEF Busy
  <1> QED
    BY <1>1 DEF WithinBudget

\* A request that uses up a unit of the budget, and leaves nothing under way.
LEMMA BusySpends ==
  ASSUME Types, WithinBudget, UNCHANGED <<stamp, session>>, Request
  PROVE  WithinBudget' /\ hrLeft' \in Nat
  <1>1. Busy' = Busy
    BY DEF Busy
  <1>2. Cardinality(Busy) \in Nat /\ hrLeft \in Nat /\ stamp \in Nat
    BY FS_CardinalityType DEF WithinBudget, Types
  <1> QED
    BY <1>1, <1>2, ConstantsOK DEF WithinBudget, Request

LEMMA RoomLeft ==
  ASSUME Types, WithinBudget, NEW s \in Sessions, session[s].pc # "idle"
  PROVE  stamp + 1 <= HrBudget
  <1>1. s \in Busy
    BY DEF Busy
  <1>2. Cardinality(Busy) \in Nat \ {0}
    BY <1>1, FS_CardinalityType, FS_EmptySet DEF WithinBudget
  <1> QED
    BY <1>2, ConstantsOK DEF WithinBudget, Types

LEMMA BusyEnds ==
  ASSUME Types, WithinBudget, NEW s \in Sessions, session[s].pc # "idle", Ends(s), UNCHANGED hrLeft,
         stamp' \in {stamp, stamp + 1}
  PROVE  WithinBudget'
  <1>1. Busy' = Busy \ {s} /\ s \in Busy
    BY IdleTyped DEF Busy, Ends, Types
  <1>2. IsFiniteSet(Busy') /\ Cardinality(Busy') = Cardinality(Busy) - 1
    BY <1>1, FS_RemoveElement DEF WithinBudget
  <1>3. Cardinality(Busy) \in Nat /\ hrLeft \in Nat /\ stamp \in Nat
    BY FS_CardinalityType DEF WithinBudget, Types
  <1> QED
    BY <1>2, <1>3, ConstantsOK DEF WithinBudget

LEMMA PageStays ==
  ASSUME PageFits, UNCHANGED page, stamp \in Nat, stamp' \in Nat, stamp <= stamp'
  PROVE  PageFits'
  <1>1. page.criteria \subseteq Criterion
    BY DEF PageFits, Page
  <1> QED
    BY <1>1, OlderSound DEF PageFits

\* What a session leaves behind when it ends, whatever it has written.
LEMMA Ended ==
  ASSUME IInv, NEW s \in Sessions, session[s].pc # "idle", Ends(s), UNCHANGED <<job, page, hrLeft>>,
         faultsLeft' \in Nat, stamp' \in {stamp, stamp + 1}, lost' \in BOOLEAN, strayed' \in BOOLEAN,
         Rows \subseteq Rows'
  PROVE  /\ Types' /\ WithinBudget' /\ PageFits' /\ SessionsFit'
         /\ stamp \in Nat /\ stamp' \in Nat /\ stamp <= stamp'
         /\ \A t \in Sessions : Regenerates(t)' => Regenerates(t) /\ session'[t].row = session[t].row
         /\ \A t \in Sessions : t # s => session'[t] = session[t]
  <1>1. /\ session'[s] = Idle /\ \A t \in Sessions : t # s => session'[t] = session[t]
        /\ session' \in [Sessions -> SessionState]
        /\ stamp \in Nat /\ stamp' \in Nat /\ stamp <= stamp'
    BY IdleTyped DEF Ends, IInv, Types
  <1>2. Types'
    BY <1>1 DEF IInv, Types
  <1>3. WithinBudget' /\ PageFits'
    BY <1>1, BusyEnds, PageStays DEF IInv
  <1>4. SessionsFit'
    BY <1>1, IdleTyped DEF IInv, SessionsFit
  <1>5. \A t \in Sessions : Regenerates(t)' => Regenerates(t) /\ session'[t].row = session[t].row
    BY <1>1, IdleTyped DEF Regenerates
  <1> QED
    BY <1>1, <1>2, <1>3, <1>4, <1>5

\* A session that ends and has written nothing.
LEMMA EndedWithNothing ==
  ASSUME IInv, NEW s \in Sessions, session[s].pc # "idle", Ends(s), UNCHANGED <<plan, job, page, strayed, hrLeft>>,
         faultsLeft' \in Nat, stamp' \in {stamp, stamp + 1}, lost' \in BOOLEAN, DraftFits'
  PROVE  IInv'
  <1>1. Rows' = Rows /\ strayed' \in BOOLEAN
    BY DEF Rows, IInv, Types
  <1>2. /\ Types' /\ WithinBudget' /\ PageFits' /\ SessionsFit'
        /\ stamp \in Nat /\ stamp' \in Nat /\ stamp <= stamp'
        /\ \A t \in Sessions : Regenerates(t)' => Regenerates(t) /\ session'[t].row = session[t].row
    BY <1>1, Ended
  <1>3. PlanFits'
    BY <1>2, RowsStay DEF IInv
  <1>4. LinesAgree'
    BY <1>2, LinesWhenSame DEF IInv
  <1> QED
    BY <1>2, <1>3, <1>4 DEF IInv

-----------------------------------------------------------------------------
(* Steps that write no plan *)

\* A session that goes on, or a request that starts, as long as no row is written.
LEMMA NothingWritten ==
  ASSUME IInv, UNCHANGED <<plan, page, stamp, lost, strayed, faultsLeft>>, Types', WithinBudget',
         SessionsFit', DraftFits',
         \A t \in Sessions :
           Regenerates(t)' => /\ Regenerates(t) \/ (~strayed => Alone(session'[t].row))
                              /\ Regenerates(t) => session'[t].row = session[t].row
  PROVE  IInv'
  <1>1. stamp \in Nat /\ stamp' \in Nat /\ stamp <= stamp'
    BY DEF IInv, Types
  <1>2. PlanFits' /\ PageFits'
    BY <1>1, RowsStay, PageStays DEF IInv
  <1>3. LinesAgree'
    BY LinesWhenSame DEF IInv
  <1> QED
    BY <1>2, <1>3 DEF IInv

LEMMA SameRows ==
  ASSUME UNCHANGED plan
  PROVE  Rows' = Rows /\ CurrentRows' = CurrentRows
  BY DEF Rows, CurrentRows

LEMMA RequestStarts ==
  ASSUME IInv, NEW s \in Sessions, Request, At(s, "idle"), NEW call \in Calls, NEW row \in Rows \cup {0},
         session' = [session EXCEPT ![s].pc = "called", ![s].call = call, ![s].row = row],
         UNCHANGED <<plan, stamp, lost, strayed, faultsLeft>>,
         job' \in [status : {"draft", "open", "closed", "deleted"}, text : Texts]
  PROVE  /\ Types' /\ WithinBudget' /\ SessionsFit'
         /\ session'[s].pc = "called" /\ session'[s].call = call /\ session'[s].row = row
         /\ \A t \in Sessions : t # s => session'[t] = session[t]
  <1>1. Rows' = Rows /\ Rows \subseteq 0..MaxPlans
    BY SameRows, ConstantsOK DEF Rows, Ids
  <1>2. /\ session[s] \in SessionState /\ session[s].pc = "idle"
        /\ session \in [Sessions -> SessionState]
    BY DEF IInv, Types, At
  <1> DEFINE to == [session[s] EXCEPT !.pc = "called", !.call = call, !.row = row]
  <1>3. to \in SessionState
    <2>1. row \in 0..MaxPlans
      BY <1>1, ConstantsOK
    <2> QED
      BY <1>2, <2>1 DEF SessionState
  <1>4. to.pc = "called" /\ to.call = call /\ to.row = row
    BY <1>2 DEF SessionState
  <1>5. session' = [session EXCEPT ![s] = to]
    BY <1>2
  <1> HIDE DEF to
  <1>6. WithinBudget' /\ hrLeft' \in Nat
    <2>1. to.pc # "idle"
      BY <1>4
    <2> QED
      BY <1>2, <1>5, <2>1, BusyStarts DEF IInv
  <1>7. Types'
    BY <1>2, <1>3, <1>5, <1>6, ZenonT(60) DEF IInv, Types
  <1>8. SessionsFit'
    BY <1>1, <1>2, <1>4, <1>5 DEF IInv, SessionsFit
  <1> QED
    BY <1>2, <1>4, <1>5, <1>6, <1>7, <1>8

LEMMA OpenJobKeeps ==
  ASSUME IInv, NEW s \in Sessions, OpenJob(s)
  PROVE  IInv'
  <1>1. /\ session[s] \in SessionState /\ session[s].pc = "idle" /\ session[s].row \in Rows \cup {0}
        /\ job \in [status : {"draft", "open", "closed", "deleted"}, text : Texts]
        /\ session \in [Sessions -> SessionState]
    BY DEF IInv, Types, SessionsFit, OpenJob, At
  <1>2. job' \in [status : {"draft", "open", "closed", "deleted"}, text : Texts]
    BY <1>1 DEF OpenJob
  <1>3. session' = [session EXCEPT ![s].pc = "called", ![s].call = "generate", ![s].row = session[s].row]
    BY <1>1 DEF OpenJob, SessionState
  <1>4. /\ Types' /\ WithinBudget' /\ SessionsFit'
        /\ session'[s].pc = "called" /\ session'[s].call = "generate"
        /\ \A t \in Sessions : t # s => session'[t] = session[t]
    <2>1. "generate" \in Calls
      BY DEF Calls
    <2>2. Request /\ At(s, "idle") /\ UNCHANGED <<plan, stamp, lost, strayed, faultsLeft>>
      BY DEF OpenJob
    <2> QED
      BY <1>1, <1>2, <1>3, <2>1, <2>2, RequestStarts
  <1>5. DraftFits'
    BY <1>4 DEF DraftFits, Pending
  <1>6. \A t \in Sessions : Regenerates(t)' => Regenerates(t) /\ session'[t].row = session[t].row
    BY <1>4 DEF Regenerates
  <1> QED
    BY <1>4, <1>5, <1>6, NothingWritten DEF OpenJob

LEMMA UpdateJobKeeps ==
  ASSUME IInv, NEW s \in Sessions, UpdateJob(s)
  PROVE  IInv'
  <1>1. /\ session[s] \in SessionState /\ session[s].pc = "idle" /\ session[s].row \in Rows \cup {0}
        /\ job \in [status : {"draft", "open", "closed", "deleted"}, text : Texts]
        /\ session \in [Sessions -> SessionState]
    BY DEF IInv, Types, SessionsFit, UpdateJob, At
  <1>2. job' \in [status : {"draft", "open", "closed", "deleted"}, text : Texts] /\ job'.status = job.status
    BY <1>1 DEF UpdateJob
  <1>3. CASE job.status = "open"
    <2>1. session' = [session EXCEPT ![s].pc = "called", ![s].call = "outdate", ![s].row = session[s].row]
      BY <1>1, <1>3 DEF UpdateJob, SessionState
    <2>2. /\ Types' /\ WithinBudget' /\ SessionsFit'
          /\ session'[s].pc = "called" /\ session'[s].call = "outdate"
          /\ \A t \in Sessions : t # s => session'[t] = session[t]
      <3>1. "outdate" \in Calls
        BY DEF Calls
      <3>2. Request /\ At(s, "idle") /\ UNCHANGED <<plan, stamp, lost, strayed, faultsLeft>>
        BY DEF UpdateJob
      <3> QED
        BY <1>1, <1>2, <2>1, <3>1, <3>2, RequestStarts
    <2>3. DraftFits'
      BY <2>2 DEF DraftFits, Pending
    <2>4. \A t \in Sessions : Regenerates(t)' => Regenerates(t) /\ session'[t].row = session[t].row
      BY <2>2 DEF Regenerates
    <2> QED
      BY <2>2, <2>3, <2>4, NothingWritten DEF UpdateJob
  <1>4. CASE job.status # "open"
    <2>1. UNCHANGED session
      BY <1>4 DEF UpdateJob
    <2>2. WithinBudget' /\ hrLeft' \in Nat
      BY <2>1, BusySpends DEF IInv, UpdateJob
    <2>3. Types'
      BY <1>2, <2>1, <2>2 DEF IInv, Types, UpdateJob
    <2>4. SessionsFit'
      BY <2>1, SameRows DEF IInv, SessionsFit, UpdateJob
    <2>5. DraftFits'
      BY <1>2, <1>4 DEF DraftFits, Stale
    <2>6. \A t \in Sessions : Regenerates(t)' => Regenerates(t) /\ session'[t].row = session[t].row
      BY <2>1 DEF Regenerates
    <2> QED
      BY <2>2, <2>3, <2>4, <2>5, <2>6, NothingWritten DEF UpdateJob
  <1> QED
    BY <1>3, <1>4

LEMMA CloseJobKeeps ==
  ASSUME IInv, NEW s \in Sessions, CloseJob(s) \/ DeleteJob(s)
  PROVE  IInv'
  <1>1. UNCHANGED <<plan, session, page, stamp, lost, strayed, faultsLeft>> /\ Request
    BY DEF CloseJob, DeleteJob
  <1>2. job' \in [status : {"draft", "open", "closed", "deleted"}, text : Texts] /\ job'.status # "open"
    BY DEF CloseJob, DeleteJob, IInv, Types
  <1>3. WithinBudget' /\ hrLeft' \in Nat
    BY <1>1, BusySpends DEF IInv
  <1>4. Types'
    BY <1>1, <1>2, <1>3 DEF IInv, Types
  <1>5. SessionsFit'
    BY <1>1, SameRows DEF IInv, SessionsFit
  <1>6. DraftFits'
    BY <1>2 DEF DraftFits, Stale
  <1>7. \A t \in Sessions : Regenerates(t)' => Regenerates(t) /\ session'[t].row = session[t].row
    BY <1>1 DEF Regenerates
  <1> QED
    BY <1>1, <1>3, <1>4, <1>5, <1>6, <1>7, NothingWritten

LEMMA LoadPageKeeps ==
  ASSUME IInv, LoadPage
  PROVE  IInv'
  <1>1. /\ UNCHANGED <<job, plan, session, stamp, lost, strayed, hrLeft, faultsLeft>>
        /\ stamp \in Nat /\ stamp' \in Nat /\ stamp <= stamp' /\ Rows' = Rows
    BY SameRows DEF LoadPage, IInv, Types
  <1>2. Types' /\ SessionsFit'
    BY <1>1 DEF IInv, Types, SessionsFit
  <1>3. WithinBudget'
    BY <1>1, BusyStays DEF IInv
  <1>4. PlanFits'
    BY <1>1, RowsStay DEF IInv
  <1>5. PageFits'
    <2>1. Current \in Ids /\ plan[Current] \in PlanRow /\ Sound(plan[Current].criteria)
      BY RowFacts DEF LoadPage, IInv, PlanFits
    <2>2. page' = [row |-> Current, version |-> plan[Current].version, criteria |-> plan[Current].criteria]
      BY DEF LoadPage
    <2>3. page' \in Page /\ page'.criteria = plan[Current].criteria
      BY <2>1, <2>2, ConstantsOK DEF Page, PlanRow, Ids
    <2> QED
      BY <1>1, <2>1, <2>3 DEF PageFits, Sound
  <1>6. LinesAgree'
    <2>1. \A t \in Sessions : Regenerates(t)' => Regenerates(t) /\ session'[t].row = session[t].row
      BY <1>1 DEF Regenerates
    <2> QED
      BY <1>1, <2>1, LinesWhenSame DEF IInv
  <1>7. DraftFits'
    <2>1. CurrentRows' = CurrentRows
      BY <1>1, SameRows
    <2> QED
      BY <1>1, <2>1, DraftStays DEF IInv
  <1> QED
    BY <1>2, <1>3, <1>4, <1>5, <1>6, <1>7 DEF IInv

\* Requests that are not about the text leave whoever is to replace a draft.
LEMMA OthersGoOn ==
  ASSUME IInv, NEW s \in Sessions, UNCHANGED <<job, plan>>, lost => lost',
         ~(session[s].pc \in {"called", "job"} /\ session[s].call \in {"outdate", "generate"})
           \/ (session'[s].pc \in {"called", "job"} /\ session'[s].call = session[s].call) \/ lost',
         \A t \in Sessions : t # s => session'[t] = session[t]
  PROVE  DraftFits'
  <1>1. CurrentRows' = CurrentRows
    BY SameRows
  <1> QED
    BY <1>1, DraftStays DEF IInv

LEMMA AskKeeps ==
  ASSUME IInv, NEW s \in Sessions, Ask(s)
  PROVE  IInv'
  <1>1. PICK call \in {"generate", "save", "confirm", "fork"} :
          session' = [session EXCEPT ![s].pc = "called", ![s].call = call]
    BY DEF Ask
  <1>2. /\ session[s] \in SessionState /\ session[s].pc = "idle" /\ session[s].row \in Rows \cup {0}
        /\ job' \in [status : {"draft", "open", "closed", "deleted"}, text : Texts]
        /\ session \in [Sessions -> SessionState]
    BY DEF IInv, Types, SessionsFit, Ask, At
  <1>3. session' = [session EXCEPT ![s].pc = "called", ![s].call = call, ![s].row = session[s].row]
    BY <1>1, <1>2 DEF SessionState
  <1>4. /\ Types' /\ WithinBudget' /\ SessionsFit'
        /\ session'[s].pc = "called" /\ session'[s].call = call
        /\ \A t \in Sessions : t # s => session'[t] = session[t]
    <2>1. call \in Calls
      BY DEF Calls
    <2> QED
      BY <1>2, <1>3, <2>1, RequestStarts, ZenonT(60) DEF Ask
  <1>5. DraftFits'
    BY <1>2, <1>4, OthersGoOn DEF Ask
  <1>6. \A t \in Sessions : Regenerates(t)' => Regenerates(t) /\ session'[t].row = session[t].row
    BY <1>1, <1>4 DEF Regenerates
  <1> QED
    BY <1>4, <1>5, <1>6, NothingWritten DEF Ask

LEMMA AskToRegenerateKeeps ==
  ASSUME IInv, NEW s \in Sessions, AskToRegenerate(s)
  PROVE  IInv'
  <1>1. /\ session[s].pc = "idle" /\ Current \in CurrentRows /\ Current \in Rows
        /\ job' \in [status : {"draft", "open", "closed", "deleted"}, text : Texts]
    BY RowFacts DEF IInv, Types, AskToRegenerate, At
  <1>2. /\ Types' /\ WithinBudget' /\ SessionsFit'
        /\ session'[s].pc = "called" /\ session'[s].row = Current
        /\ \A t \in Sessions : t # s => session'[t] = session[t]
    <2>1. "regenerate" \in Calls
      BY DEF Calls
    <2>2. Request /\ At(s, "idle") /\ UNCHANGED <<plan, stamp, lost, strayed, faultsLeft>>
      BY DEF AskToRegenerate
    <2>3. session' = [session EXCEPT ![s].pc = "called", ![s].call = "regenerate", ![s].row = Current]
      BY DEF AskToRegenerate
    <2> QED
      BY <1>1, <2>1, <2>2, <2>3, RequestStarts
  <1>3. DraftFits'
    BY <1>1, <1>2, OthersGoOn DEF AskToRegenerate
  <1>4. ~strayed => Alone(Current)
    BY <1>1 DEF AskToRegenerate, IInv, LinesAgree, EmptyAlone
  <1>5. ~Regenerates(s)
    BY <1>1 DEF Regenerates
  <1>6. \A t \in Sessions :
          Regenerates(t)' => /\ Regenerates(t) \/ (~strayed => Alone(session'[t].row))
                             /\ Regenerates(t) => session'[t].row = session[t].row
    BY <1>2, <1>4, <1>5 DEF Regenerates
  <1> QED
    BY <1>2, <1>3, <1>6, NothingWritten DEF AskToRegenerate

LEMMA SessionGoesOn ==
  ASSUME IInv, NEW s \in Sessions, TakeJob(s) \/ ModelAnswers(s)
  PROVE  IInv'
  <1>1. /\ UNCHANGED <<job, plan, page, stamp, lost, strayed, hrLeft, faultsLeft>>
        /\ session \in [Sessions -> SessionState] /\ session[s] \in SessionState
        /\ \/ session[s].pc = "called" /\ session' = [session EXCEPT ![s].pc = "job"]
           \/ session[s].pc = "model" /\ session' = [session EXCEPT ![s].pc = "plan"]
    BY DEF TakeJob, ModelAnswers, At, Goes, IInv, Types
  <1>2. /\ session' \in [Sessions -> SessionState]
        /\ session'[s].call = session[s].call /\ session'[s].row = session[s].row
        /\ session'[s].pc = IF session[s].pc = "called" THEN "job" ELSE "plan"
        /\ \A t \in Sessions : t # s => session'[t] = session[t]
    BY <1>1 DEF SessionState
  <1>3. Types'
    BY <1>1, <1>2 DEF IInv, Types
  <1>4. WithinBudget'
    BY <1>1, <1>2, BusyStays DEF IInv
  <1>5. SessionsFit'
    BY <1>1, <1>2, SameRows DEF IInv, SessionsFit
  <1>6. DraftFits'
    BY <1>1, <1>2, OthersGoOn
  <1>7. \A t \in Sessions : Regenerates(t)' => Regenerates(t) /\ session'[t].row = session[t].row
    BY <1>1, <1>2 DEF Regenerates
  <1> QED
    BY <1>1, <1>3, <1>4, <1>5, <1>6, <1>7, NothingWritten

LEMMA SessionIsLost ==
  ASSUME IInv, NEW s \in Sessions, DeadlockVictim(s) \/ Crash(s)
  PROVE  IInv'
  <1>1. /\ UNCHANGED <<job, plan, page, stamp, strayed, hrLeft>>
        /\ Ends(s) /\ session[s].pc # "idle" /\ faultsLeft' \in Nat
    BY DEF DeadlockVictim, Deadlocked, HoldsPlan, HoldsJob, Crash, IInv, Types
  <1>2. lost' \in BOOLEAN /\ (lost => lost')
        /\ (session[s].pc \in {"called", "job"} /\ session[s].call \in {"outdate", "generate"} => lost')
    BY DEF DeadlockVictim, Crash, IInv, Types
  <1>3. \A t \in Sessions : t # s => session'[t] = session[t]
    BY <1>1 DEF Ends, IInv, Types
  <1>4. DraftFits'
    BY <1>1, <1>2, <1>3, OthersGoOn
  <1> QED
    BY <1>1, <1>2, <1>4, EndedWithNothing

-----------------------------------------------------------------------------
(* Handlers that end with a row written, or refused *)

LEMMA Acting ==
  ASSUME IInv, NEW s \in Sessions
  PROVE  /\ stamp \in Nat /\ strayed \in BOOLEAN /\ lost \in BOOLEAN /\ faultsLeft \in Nat
         /\ \A p \in Rows : /\ p \in Ids /\ plan[p] \in PlanRow /\ plan[p].status # "absent"
                            /\ Shown(plan[p]) /\ Sound(plan[p].criteria) /\ plan[p].root \in Rows
         /\ HasCurrent => /\ Current \in CurrentRows /\ Current \in Rows /\ plan[Current].current
                          /\ \A p \in CurrentRows : p = Current
         /\ MayGoOn(s) => session[s].pc = "job"
  <1>1. \A p \in Rows : p \in Ids /\ plan[p].status # "absent"
    BY DEF Rows
  <1>2. \A p \in CurrentRows : p \in Rows /\ plan[p].current
    BY DEF CurrentRows
  <1> QED
    BY <1>1, <1>2, RowFacts DEF IInv, Types, PlanFits, RowsInOrder, MayGoOn, HoldsJob

\* A handler that ends with nothing written.
LEMMA Refused ==
  ASSUME IInv, NEW s \in Sessions, session[s].pc # "idle", Ends(s), UNCHANGED <<plan, job, page, strayed, hrLeft, faultsLeft, lost>>,
         stamp' \in {stamp, stamp + 1},
         Stale => ~(session[s].pc \in {"called", "job"} /\ session[s].call \in {"outdate", "generate"})
  PROVE  IInv'
  <1>1. \A t \in Sessions : t # s => session'[t] = session[t]
    BY DEF Ends, IInv, Types
  <1>2. DraftFits'
    <2>1. CASE Stale
      BY <1>1, <2>1, OthersGoOn
    <2>2. CASE ~Stale
      BY <2>2, SameRows DEF DraftFits, Stale
    <2> QED
      BY <2>1, <2>2
  <1> QED
    BY <1>2, EndedWithNothing, Acting

LEMMA RowWritten ==
  ASSUME IInv, NEW s \in Sessions, session[s].pc # "idle", Ends(s), UNCHANGED <<job, page, hrLeft, faultsLeft, lost>>,
         stamp' \in {stamp, stamp + 1}, strayed' \in BOOLEAN, strayed => strayed',
         NEW c \in Rows, NEW new \in PlanRow, plan' = [plan EXCEPT ![c] = new],
         new.status # "absent", new.v5 = plan[c].v5, new.input = plan[c].input, new.root = plan[c].root,
         new.current => plan[c].current, plan[c].confirmed /\ new.current => new.confirmed,
         new.version = plan[c].version \/ (c \in CurrentRows /\ new.version = plan[c].version + 1),
         Sound(new.criteria)', Shown(new),
         ~strayed' => \/ Alone(c)
                      \/ \A x \in new.criteria :
                           x \in plan[c].criteria \/ \A q \in Rows : \A y \in plan[q].criteria : y.id # x.id,
         new.current /\ new.status \in {"generating", "failed"} => plan[c].status \in {"generating", "failed"},
         (session[s].pc \in {"called", "job"} /\ session[s].call \in {"outdate", "generate"})
           => (new.current => job.text = new.input) /\ c \in CurrentRows
  PROVE  IInv'
  <1>1. stamp \in Nat /\ stamp' \in Nat /\ stamp <= stamp'
    BY DEF IInv, Types
  <1>2. PlanFits' /\ Rows' = Rows /\ CurrentRows' \subseteq CurrentRows
    BY <1>1, RowChanges DEF IInv
  <1>3. /\ Types' /\ WithinBudget' /\ PageFits' /\ SessionsFit'
        /\ \A t \in Sessions : Regenerates(t)' => Regenerates(t) /\ session'[t].row = session[t].row
        /\ \A t \in Sessions : t # s => session'[t] = session[t]
    <2>1. lost' \in BOOLEAN /\ faultsLeft' \in Nat
      BY DEF IInv, Types
    <2> QED
      BY <1>2, <2>1, Ended
  <1>4. \A p \in Ids : plan'[p] = IF p = c THEN new ELSE plan[p]
    BY DEF IInv, PlanFits
  <1>5. Rows \subseteq Ids /\ CurrentRows \subseteq Rows /\ (c \in CurrentRows' => new.current)
    BY <1>4, RowFacts DEF IInv, CurrentRows
  <1>6. LinesAgree'
    <2>1. \A p \in Rows : plan'[p].root = plan[p].root
      BY <1>4, <1>5
    <2>2. \A p \in Rows \ {c} : plan'[p].criteria = plan[p].criteria /\ plan'[p].status = plan[p].status
      BY <1>4, <1>5
    <2>3. plan'[c] = new
      BY <1>4, <1>5
    <2> QED
      BY <1>2, <1>3, <1>5, <2>1, <2>2, <2>3, LinesKept DEF IInv
  <1>7. DraftFits'
    <2>1. CASE session[s].pc \in {"called", "job"} /\ session[s].call \in {"outdate", "generate"}
      <3>1. \A p \in CurrentRows' : p = c /\ plan'[p].input = job.text
        BY <1>2, <1>4, <1>5, <2>1 DEF IInv, PlanFits, OneCurrent
      <3> QED
        BY <3>1 DEF DraftFits, Stale
    <2>2. CASE ~(session[s].pc \in {"called", "job"} /\ session[s].call \in {"outdate", "generate"})
      <3>1. \A p \in CurrentRows' : p \in Ids /\ p \in CurrentRows /\ (p = c => new.current)
        BY <1>2, <1>5
      <3>2. \A p \in CurrentRows' : /\ p \in CurrentRows /\ plan'[p].input = plan[p].input
                                    /\ plan[p].confirmed => plan'[p].confirmed
        BY <1>4, <3>1
      <3>3. DraftFits
        BY DEF IInv
      <3> QED
        BY <1>3, <2>2, <3>2, <3>3, DraftStays
    <2> QED
      BY <2>1, <2>2
  <1> QED
    BY <1>2, <1>3, <1>6, <1>7 DEF IInv

\* The current plan leaves, if it may.
LEMMA GivenUp ==
  ASSUME IInv, NEW s \in Sessions, session[s].pc = "job", HasCurrent, GivesUp(s),
         UNCHANGED <<job, page, hrLeft, faultsLeft, lost, strayed>>, stamp' \in {stamp, stamp + 1}
  PROVE  IInv'
  <1>1. /\ Current \in Rows /\ Current \in CurrentRows /\ Current \in Ids /\ plan[Current] \in PlanRow
        /\ \A p \in CurrentRows : p = Current
        /\ Shown(plan[Current]) /\ Sound(plan[Current].criteria) /\ plan[Current].current
        /\ stamp \in Nat /\ strayed \in BOOLEAN
    BY Acting
  <1>2. PICK new \in PlanRow : new = Outdated(Current)
    BY <1>1 DEF Outdated, PlanRow, Statuses
  <1>3. /\ new.status = "outdated" /\ new.current = FALSE /\ new.v5 = plan[Current].v5
        /\ new.input = plan[Current].input /\ new.root = plan[Current].root
        /\ new.version = plan[Current].version /\ new.criteria = plan[Current].criteria
        /\ new.confirmed = plan[Current].confirmed
    BY <1>1, <1>2 DEF Outdated, PlanRow
  <1>4. Ends(s)
    BY DEF GivesUp, Commit
  <1>5. CASE plan' = [plan EXCEPT ![Current] = new] /\ Admitted(new)
    <2>1. Shown(new)
      BY <1>1, <1>3, <1>5 DEF Shown, Admitted, Complete
    <2>2. Sound(new.criteria)'
      <3>1. new.criteria \subseteq Criterion /\ Sound(new.criteria)
        BY <1>1, <1>3 DEF PlanRow
      <3> QED
        BY <1>1, <3>1, OlderSound
    <2>3. \A x \in new.criteria : x \in plan[Current].criteria
      BY <1>3
    <2> HIDE DEF Outdated
    <2> QED
      BY <1>1, <1>3, <1>4, <1>5, <2>1, <2>2, <2>3, RowWritten
  <1>6. CASE plan' = plan /\ ~Admitted(new)
    <2>1. plan[Current].confirmed
      BY <1>1, <1>3, <1>6 DEF Admitted, Shown, PlanRow
    <2>2. ~Stale
      BY <1>1, <2>1 DEF Stale
    <2> QED
      BY <1>4, <1>6, <2>2, Refused
  <1>7. \/ plan' = [plan EXCEPT ![Current] = new] /\ Admitted(new)
        \/ plan' = plan /\ ~Admitted(new)
    <2>1. plan = [plan EXCEPT ![Current] = plan[Current]]
      BY DEF IInv, PlanFits
    <2>2. new # plan[Current]
      BY <1>1, <1>3
    <2>3. \A p \in Ids : [plan EXCEPT ![Current] = new][p] = IF p = Current THEN new ELSE plan[p]
      BY DEF IInv, PlanFits
    <2>4. (\A p \in Ids : [plan EXCEPT ![Current] = new][p] # plan[p] => Admitted([plan EXCEPT ![Current] = new][p]))
            <=> Admitted(new)
      BY <1>1, <2>2, <2>3
    <2> QED
      BY <1>2, <2>4 DEF GivesUp, Commit
  <1> QED
    BY <1>5, <1>6, <1>7

\* What is committed: the row, or nothing if it is not admitted.
LEMMA CommitOfRow ==
  ASSUME IInv, NEW s, NEW c \in Rows, NEW new \in PlanRow, Commit(s, [plan EXCEPT ![c] = new])
  PROVE  /\ Ends(s)
         /\ \/ plan' = [plan EXCEPT ![c] = new]
            \/ plan' = plan
  BY DEF Commit

LEMMA AnswerKept ==
  ASSUME IInv, NEW s \in Sessions, SaveResult(s)
  PROVE  IInv'
  <1> DEFINE c == session[s].row
  <1>1. /\ session[s].pc = "plan" /\ c \in Rows /\ c \in Ids
        /\ UNCHANGED <<job, page, lost, strayed, hrLeft, faultsLeft>> /\ stamp' = stamp + 1
        /\ plan[c] \in PlanRow /\ Shown(plan[c]) /\ Sound(plan[c].criteria)
        /\ stamp \in Nat /\ strayed \in BOOLEAN
    BY Acting DEF SaveResult, HoldsPlan, IInv, SessionsFit
  <1>2. PICK result \in {"pending_confirmation", "failed"} : StoreResult(s, result)
    BY DEF SaveResult
  <1>3. CASE plan' = plan /\ Ends(s)
    BY <1>1, <1>3, Refused
  <1>4. ASSUME plan[c].status = "generating", NEW new \in PlanRow, Ends(s), plan' = [plan EXCEPT ![c] = new],
               new.status # "absent", new.v5 = plan[c].v5, new.input = plan[c].input, new.root = plan[c].root,
               new.current => plan[c].current, new.version = plan[c].version, ~new.confirmed, Shown(new),
               Sound(new.criteria)', new.criteria = {} \/ c \in CurrentRows
        PROVE  IInv'
    <2>1. ~plan[c].confirmed /\ plan[c].v5
      BY <1>1, <1>4 DEF Shown
    <2>2. ~strayed' => \/ Alone(c)
                       \/ \A x \in new.criteria :
                            x \in plan[c].criteria \/ \A q \in Rows : \A y \in plan[q].criteria : y.id # x.id
      <3>1. CASE new.criteria = {}
        BY <3>1
      <3>2. CASE c \in CurrentRows
        BY <1>1, <1>4, <3>2 DEF IInv, LinesAgree, EmptyAlone
      <3> QED
        BY <1>4, <3>1, <3>2
    <2> HIDE DEF c
    <2> QED
      BY <1>1, <1>4, <2>1, <2>2, RowWritten
  <1>5. CASE plan[c].status = "generating" /\ Superseded(s)
    <2>1. PICK new \in PlanRow : new = Outdated(c)
      BY <1>1 DEF Outdated, PlanRow, Statuses
    <2>2. /\ new.status = "outdated" /\ new.current = FALSE /\ new.v5 = plan[c].v5
          /\ new.input = plan[c].input /\ new.root = plan[c].root
          /\ new.version = plan[c].version /\ new.criteria = plan[c].criteria
          /\ new.confirmed = plan[c].confirmed
      BY <1>1, <2>1 DEF Outdated, PlanRow
    <2>3. Commit(s, [plan EXCEPT ![c] = new])
      BY <1>2, <1>5, <2>1 DEF StoreResult
    <2>4. Ends(s) /\ (plan' = [plan EXCEPT ![c] = new] \/ plan' = plan)
      BY <1>1, <2>3, CommitOfRow
    <2>5. Shown(new) /\ ~new.confirmed /\ new.criteria = {}
      BY <1>1, <1>5, <2>2 DEF Shown, Complete
    <2>6. Sound(new.criteria)'
      BY <2>5 DEF Sound
    <2> QED
      BY <1>3, <1>4, <1>5, <2>2, <2>4, <2>5, <2>6
  <1>6. CASE plan[c].status = "generating" /\ ~Superseded(s) /\ result = "failed"
    <2>1. PICK new \in PlanRow : new = [plan[c] EXCEPT !.status = "failed"]
      BY <1>1 DEF PlanRow, Statuses
    <2>2. /\ new.status = "failed" /\ new.current = plan[c].current /\ new.v5 = plan[c].v5
          /\ new.input = plan[c].input /\ new.root = plan[c].root
          /\ new.version = plan[c].version /\ new.criteria = plan[c].criteria
          /\ new.confirmed = plan[c].confirmed
      BY <1>1, <2>1 DEF PlanRow
    <2>3. Commit(s, [plan EXCEPT ![c] = new])
      BY <1>1, <1>2, <1>6, <2>1 DEF StoreResult, IInv, PlanFits
    <2>4. Ends(s) /\ (plan' = [plan EXCEPT ![c] = new] \/ plan' = plan)
      BY <1>1, <2>3, CommitOfRow
    <2>5. Shown(new) /\ ~new.confirmed /\ new.criteria = {}
      BY <1>1, <1>6, <2>2 DEF Shown, Complete
    <2>6. Sound(new.criteria)'
      BY <2>5 DEF Sound
    <2> QED
      BY <1>3, <1>4, <1>6, <2>2, <2>4, <2>5, <2>6
  <1>7. CASE plan[c].status = "generating" /\ ~Superseded(s) /\ result # "failed"
    <2>1. PICK made \in SUBSET Criterion : made = Generated /\ made # {} /\ Sound(made)'
      <3>1. stamp + 1 <= HrBudget
        BY <1>1, RoomLeft DEF IInv
      <3>2. stamp \in Stamps
        BY <1>1, <3>1, ConstantsOK DEF Stamps
      <3>3. PICK made \in SUBSET Criterion : made = Generated
        <4>1. \A i \in 1..MaxCriteria : i \in 1..MaxCriteria + HrBudget
          BY ConstantsOK
        <4>2. \A i \in 1..MaxCriteria : [id |-> i, stamp |-> stamp] \in Criterion
          BY <3>2, <4>1 DEF Criterion
        <4>3. Generated \subseteq Criterion
          BY <4>2 DEF Generated
        <4> QED
          BY <4>3
      <3>4. [id |-> 1, stamp |-> stamp] \in made
        BY <3>3, ConstantsOK DEF Generated
      <3>5. \A x \in made : x.stamp = stamp /\ x.id \in 1..MaxCriteria
        BY <3>3 DEF Generated
      <3>6. \A x, y \in made : x.id = y.id => x = y
        BY <3>3 DEF Generated
      <3>7. \A x \in made : x.stamp < stamp' /\ x.id <= MaxCriteria + stamp'
        BY <1>1, <3>5, ConstantsOK
      <3>8. Sound(made)'
        BY <3>6, <3>7 DEF Sound
      <3> QED
        BY <3>3, <3>4, <3>8
    <2>2. PICK new \in PlanRow :
            new = [plan[c] EXCEPT !.status = "pending_confirmation", !.criteria = made]
      BY <1>1, <2>1 DEF PlanRow, Statuses
    <2>3. /\ new.status = "pending_confirmation" /\ new.current = plan[c].current /\ new.v5 = plan[c].v5
          /\ new.input = plan[c].input /\ new.root = plan[c].root
          /\ new.version = plan[c].version /\ new.criteria = made
          /\ new.confirmed = plan[c].confirmed
      BY <1>1, <2>2 DEF PlanRow
    <2>4. Commit(s, [plan EXCEPT ![c] = new])
      BY <1>1, <1>2, <1>7, <2>1, <2>2 DEF StoreResult, IInv, PlanFits
    <2>5. Ends(s) /\ (plan' = [plan EXCEPT ![c] = new] \/ plan' = plan)
      BY <1>1, <2>4, CommitOfRow
    <2>6. Shown(new) /\ ~new.confirmed
      BY <1>1, <1>7, <2>1, <2>3 DEF Shown, Complete
    <2>7. c \in CurrentRows
      BY <1>1, <1>7 DEF Superseded, CurrentRows
    <2> QED
      BY <1>3, <1>4, <1>7, <2>1, <2>3, <2>5, <2>6, <2>7
  <1>8. CASE plan[c].status # "generating"
    BY <1>2, <1>3, <1>8 DEF StoreResult, Refuse
  <1> QED
    BY <1>5, <1>6, <1>7, <1>8

LEMMA MarkOutdatedKeeps ==
  ASSUME IInv, NEW s \in Sessions, MarkOutdated(s)
  PROVE  IInv'
  <1>1. /\ session[s].pc = "job" /\ stamp \in Nat
        /\ UNCHANGED <<job, page, stamp, lost, strayed, hrLeft, faultsLeft>>
        /\ HasCurrent => \A p \in CurrentRows : p = Current
    BY Acting DEF MarkOutdated
  <1>2. CASE ~HasCurrent \/ plan[Current].input = job.text
    <2>1. Refuse(s)
      BY <1>2 DEF MarkOutdated
    <2>2. ~Stale
      BY <1>1, <1>2 DEF Stale, HasCurrent
    <2> QED
      BY <1>1, <2>1, <2>2, Refused DEF Refuse
  <1>3. CASE HasCurrent /\ plan[Current].input # job.text
    BY <1>1, <1>3, GivenUp DEF MarkOutdated
  <1> QED
    BY <1>2, <1>3

LEMMA ConfirmPlanKeeps ==
  ASSUME IInv, NEW s \in Sessions, ConfirmPlan(s)
  PROVE  IInv'
  <1>1. /\ session[s].pc = "job" /\ stamp \in Nat /\ strayed \in BOOLEAN /\ session[s].call = "confirm"
        /\ UNCHANGED <<job, page, stamp, lost, strayed, hrLeft, faultsLeft>>
    BY Acting DEF ConfirmPlan
  <1>2. CASE Refuse(s)
    BY <1>1, <1>2, Refused DEF Refuse
  <1>3. CASE HasCurrent /\ GivesUp(s)
    BY <1>1, <1>3, GivenUp
  <1>4. CASE /\ HasCurrent /\ plan[Current].v5 /\ plan[Current].status = "pending_confirmation"
             /\ Commit(s, [plan EXCEPT ![Current].status = "ready", ![Current].confirmed = TRUE])
    <2>1. /\ Current \in Rows /\ Current \in Ids /\ plan[Current] \in PlanRow /\ Shown(plan[Current])
          /\ Sound(plan[Current].criteria) /\ plan[Current].current
      BY <1>4, Acting
    <2>2. PICK new \in PlanRow : new = [plan[Current] EXCEPT !.status = "ready", !.confirmed = TRUE]
      BY <2>1 DEF PlanRow, Statuses
    <2>3. /\ new.status = "ready" /\ new.confirmed = TRUE /\ new.current = plan[Current].current
          /\ new.v5 = plan[Current].v5 /\ new.input = plan[Current].input /\ new.root = plan[Current].root
          /\ new.version = plan[Current].version /\ new.criteria = plan[Current].criteria
      BY <2>1, <2>2 DEF PlanRow
    <2>4. Ends(s) /\ (plan' = [plan EXCEPT ![Current] = new] \/ plan' = plan)
      <3>1. [plan EXCEPT ![Current].status = "ready", ![Current].confirmed = TRUE] = [plan EXCEPT ![Current] = new]
        BY <2>1, <2>2 DEF IInv, PlanFits
      <3> QED
        BY <1>4, <2>1, <3>1, CommitOfRow
    <2>5. Shown(new)
      BY <1>4, <2>1, <2>3 DEF Shown, Complete
    <2>6. Sound(new.criteria)'
      <3>1. new.criteria \subseteq Criterion /\ Sound(new.criteria)
        BY <2>1, <2>3 DEF PlanRow
      <3> QED
        BY <1>1, <3>1, OlderSound
    <2>7. CASE plan' = plan
      BY <1>1, <2>4, <2>7, Refused
    <2>8. CASE plan' = [plan EXCEPT ![Current] = new]
      BY <1>1, <2>1, <2>3, <2>4, <2>5, <2>6, <2>8, RowWritten
    <2> QED
      BY <2>4, <2>7, <2>8
  <1> QED
    BY <1>2, <1>3, <1>4 DEF ConfirmPlan

\* The number of a criterion that HR adds.
LEMMA NumberIsNew ==
  ASSUME IInv, NEW s \in Sessions
  PROVE  /\ NextCriterion \in Nat \ {0} /\ NextCriterion <= MaxCriteria + stamp + 1
         /\ \A q \in Rows : \A c \in plan[q].criteria : c.id < NextCriterion
  <1> DEFINE used == {0} \cup {c.id : c \in UNION {plan[q].criteria : q \in Rows}}
  <1>1. \A q \in Rows : \A c \in plan[q].criteria : c.id \in Nat /\ c.id <= MaxCriteria + stamp
    BY Acting, ConstantsOK DEF Sound, PlanRow, Criterion
  <1>2. used \in SUBSET Nat /\ used # {} /\ (\A n \in used : n <= MaxCriteria + stamp)
    BY <1>1, Acting, ConstantsOK
  <1>3. MaxCriteria + stamp \in Nat
    BY Acting, ConstantsOK
  <1>4. Max(used) \in used /\ \A n \in used : n <= Max(used)
    <2> HIDE DEF used
    <2> QED
      BY <1>2, <1>3, MaxOf
  <1>5. NextCriterion = Max(used) + 1
    BY DEF NextCriterion
  <1>6. \A q \in Rows : \A c \in plan[q].criteria : c.id \in used
    OBVIOUS
  <1> HIDE DEF used
  <1>7. Max(used) \in Nat /\ Max(used) <= MaxCriteria + stamp
    BY <1>2, <1>4
  <1>8. \A q \in Rows : \A c \in plan[q].criteria : c.id <= Max(used)
    BY <1>4, <1>6
  <1> QED
    BY <1>1, <1>3, <1>5, <1>7, <1>8, ConstantsOK, Acting

\* Drafts: criteria of the page, and perhaps one with a new number.
LEMMA DraftIsSound ==
  ASSUME IInv, NEW s \in Sessions, session[s].pc # "idle", stamp' = stamp + 1, NEW p \in Rows,
         NEW pg \in Pages, NEW draft \in Edited(p, pg)
  PROVE  /\ draft \in SUBSET Criterion /\ draft # {} /\ Sound(draft)'
         /\ \A x \in draft : x.stamp = stamp => \A q \in Rows : \A y \in plan[q].criteria : y.id # x.id
  <1>1. /\ stamp \in Nat /\ stamp + 1 <= HrBudget /\ plan[p] \in PlanRow
        /\ \A q \in CurrentRows : q \in Rows /\ q \in Ids /\ plan[q] \in PlanRow /\ Sound(plan[q].criteria)
    BY Acting, RoomLeft, RowFacts DEF IInv
  <1>2. pg.criteria \subseteq Criterion /\ Sound(pg.criteria)
    <2>1. page.criteria \subseteq Criterion /\ Sound(page.criteria)
      BY DEF IInv, PageFits, Page
    <2>2. \A q \in CurrentRows : plan[q].criteria \subseteq Criterion
      BY <1>1 DEF PlanRow
    <2>3. pg = page \/ \E q \in CurrentRows : pg.criteria = plan[q].criteria
      BY DEF Pages
    <2> QED
      BY <1>1, <2>1, <2>2, <2>3
  <1>3. PICK next : next = NextCriterion
    OBVIOUS
  <1>4. /\ next \in Nat \ {0} /\ next <= MaxCriteria + stamp + 1
        /\ \A q \in Rows : \A c \in plan[q].criteria : c.id < next
    BY <1>3, NumberIsNew
  <1> DEFINE added == [id |-> next, stamp |-> stamp]
  <1>5. added \in Criterion /\ added.id = next /\ added.stamp = stamp
    <2>1. stamp \in Stamps /\ next \in 1..MaxCriteria + HrBudget
      BY <1>1, <1>4, ConstantsOK DEF Stamps
    <2> QED
      BY <2>1 DEF Criterion
  <1>6. PICK kept \in SUBSET pg.criteria : draft = kept \/ draft = kept \cup {added}
    BY <1>3 DEF Edited
  <1>7. draft # {} /\ IdsOf(draft \cap pg.criteria) \subseteq IdsOf(plan[p].criteria)
    BY DEF Edited
  <1>8. \A x \in kept : \E y \in plan[p].criteria : y.id = x.id
    BY <1>6, <1>7 DEF IdsOf
  <1> HIDE DEF added
  <1>9. \A x \in kept : x \in Criterion /\ x.id \in Nat /\ x.stamp \in Nat
    BY <1>2, ConstantsOK DEF Criterion, Stamps
  <1>10. \A x \in kept : x.id < next /\ x.stamp < stamp /\ x.id <= MaxCriteria + stamp
    BY <1>2, <1>4, <1>8 DEF Sound
  <1>11. \A x, y \in kept : x.id = y.id => x = y
    BY <1>2 DEF Sound
  <1>12. \A x \in draft : x \in kept \/ x = added
    BY <1>6
  <1>13. \A x, y \in draft : x.id = y.id => x = y
    BY <1>4, <1>5, <1>9, <1>10, <1>11, <1>12
  <1>14. \A x \in draft : x.stamp < stamp' /\ x.id <= MaxCriteria + stamp'
    BY <1>1, <1>4, <1>5, <1>9, <1>10, <1>12, ConstantsOK
  <1>15. \A x \in draft : x.stamp = stamp => x = added
    BY <1>1, <1>9, <1>10, <1>12
  <1>16. \A q \in Rows : \A y \in plan[q].criteria : y.id # added.id
    <2>1. \A q \in Rows : \A y \in plan[q].criteria : y.id \in Nat
      BY Acting, ConstantsOK DEF PlanRow, Criterion
    <2> QED
      BY <1>4, <1>5, <2>1
  <1>17. draft \in SUBSET Criterion
    BY <1>5, <1>9, <1>12
  <1>18. Sound(draft)'
    BY <1>13, <1>14 DEF Sound
  <1> QED
    BY <1>7, <1>15, <1>16, <1>17, <1>18

LEMMA SaveDraftKeeps ==
  ASSUME IInv, NEW s \in Sessions, SaveDraft(s)
  PROVE  IInv'
  <1>1. /\ session[s].pc = "job" /\ stamp \in Nat /\ strayed \in BOOLEAN /\ session[s].call = "save"
        /\ UNCHANGED <<job, page, lost, hrLeft, faultsLeft>>
        /\ stamp' = stamp + 1 /\ strayed' = (strayed \/ TakesAnothers)
        /\ \A p \in CurrentRows : p \in Ids
        /\ plan \in [Ids -> PlanRow]
    BY Acting, RowFacts DEF SaveDraft, IInv, PlanFits
  <1>2. ASSUME \A p \in Ids : plan'[p].criteria = plan[p].criteria PROVE strayed' = strayed
    <2>1. ~TakesAnothers
      BY <1>1, <1>2 DEF TakesAnothers
    <2> QED
      BY <1>1, <2>1
  <1>3. CASE plan' = plan /\ Ends(s)
    BY <1>1, <1>2, <1>3, Refused
  <1>4. CASE HasCurrent /\ GivesUp(s)
    <2>1. Current \in Ids /\ plan[Current] \in PlanRow
      BY <1>1, <1>4, Acting
    <2>2. Outdated(Current).criteria = plan[Current].criteria
      BY <2>1 DEF Outdated, PlanRow
    <2>3. \A p \in Ids : plan'[p].criteria = plan[p].criteria
      BY <1>1, <1>4, <2>1, <2>2 DEF GivesUp, Commit
    <2> QED
      BY <1>1, <1>2, <1>4, <2>3, GivenUp
  <1>5. ASSUME HasCurrent, plan[Current].v5, plan[Current].status = "pending_confirmation",
               NEW pg \in Pages, NEW draft \in Edited(Current, pg),
               Commit(s, [plan EXCEPT ![Current] = DraftSaved(Current, draft)])
        PROVE  IInv'
    <2>1. /\ Current \in Rows /\ Current \in Ids /\ plan[Current] \in PlanRow /\ Shown(plan[Current])
          /\ Current \in CurrentRows /\ plan[Current].current
      BY <1>5, Acting
    <2>2. /\ draft \in SUBSET Criterion /\ draft # {} /\ Sound(draft)'
          /\ \A x \in draft : x.stamp = stamp => \A q \in Rows : \A y \in plan[q].criteria : y.id # x.id
      BY <1>1, <2>1, DraftIsSound
    <2>3. PICK new \in PlanRow : new = DraftSaved(Current, draft)
      <3>1. plan[Current].version + 1 \in Nat
        BY <2>1 DEF PlanRow
      <3> QED
        BY <2>1, <2>2, <3>1 DEF DraftSaved, PlanRow
    <2>4. /\ new.status = "pending_confirmation" /\ new.current = plan[Current].current
          /\ new.v5 = plan[Current].v5 /\ new.input = plan[Current].input /\ new.root = plan[Current].root
          /\ new.version = plan[Current].version + 1 /\ new.criteria = draft
          /\ new.confirmed = plan[Current].confirmed
      BY <1>5, <2>1, <2>3 DEF DraftSaved, PlanRow
    <2>5. Ends(s) /\ (plan' = [plan EXCEPT ![Current] = new] \/ plan' = plan)
      BY <1>5, <2>1, <2>3, CommitOfRow
    <2>6. CASE plan' = plan
      BY <1>3, <2>5, <2>6
    <2>7. CASE plan' = [plan EXCEPT ![Current] = new]
      <3>1. Shown(new)
        <4>1. plan[Current].version \in Nat
          BY <2>1 DEF PlanRow
        <4> QED
          BY <1>5, <2>1, <2>2, <2>4, <4>1 DEF Shown, Complete
      <3>2. plan'[Current].criteria = draft
        BY <1>1, <2>1, <2>4, <2>7
      <3>3. ~strayed' => \A x \in draft : x \in plan[Current].criteria \/ x.stamp = stamp
        BY <1>1, <2>1, <3>2 DEF TakesAnothers
      <3>4. strayed' \in BOOLEAN /\ (strayed => strayed')
        BY <1>1 DEF TakesAnothers
      <3> QED
        BY <1>1, <1>5, <2>1, <2>2, <2>4, <2>5, <2>7, <3>1, <3>3, <3>4, RowWritten
    <2> QED
      BY <2>5, <2>6, <2>7
  <1> QED
    BY <1>3, <1>4, <1>5 DEF SaveDraft, Refuse

-----------------------------------------------------------------------------
(* Handlers that write a new row *)

LEMMA ForkConfirmedKeeps ==
  ASSUME IInv, NEW s \in Sessions, ForkConfirmed(s)
  PROVE  IInv'
  <1>1. /\ session[s].pc = "job" /\ stamp \in Nat /\ strayed \in BOOLEAN /\ session[s].call = "fork"
        /\ UNCHANGED <<job, page, stamp, lost, strayed, hrLeft, faultsLeft>>
        /\ plan \in [Ids -> PlanRow]
    BY Acting DEF ForkConfirmed, IInv, PlanFits
  <1>2. CASE plan' = plan /\ Ends(s)
    BY <1>1, <1>2, Refused
  <1>3. CASE HasCurrent /\ GivesUp(s)
    BY <1>1, <1>3, GivenUp
  <1>4. ASSUME HasCurrent, plan[Current].v5, plan[Current].status = "ready", SameInput(Current), NextId \in Ids,
               Ends(s), plan' = [plan EXCEPT ![Current].current = FALSE, ![NextId] = ForkOf(Current)]
        PROVE  IInv'
    <2>1. PICK next \in Ids : next = NextId
      BY <1>4
    <2>2. /\ Current \in Rows /\ Current \in Ids /\ plan[Current] \in PlanRow /\ Shown(plan[Current])
          /\ Sound(plan[Current].criteria) /\ plan[Current].root \in Rows
          /\ Current \in CurrentRows /\ \A p \in CurrentRows : p = Current
          /\ next \notin Rows /\ next # 0 /\ plan[Current].version \in Nat
      BY <1>4, <2>1, Acting, RowFacts DEF IInv, PlanRow
    <2>3. PICK new \in PlanRow : new = ForkOf(Current)
      <3>1. plan[Current].version + 1 \in Nat
        BY <2>2
      <3> QED
        BY <2>2, <3>1 DEF ForkOf, PlanRow, Statuses
    <2>4. /\ new.status = "pending_confirmation" /\ new.confirmed = FALSE /\ new.current = plan[Current].current
          /\ new.v5 = plan[Current].v5 /\ new.input = plan[Current].input /\ new.root = plan[Current].root
          /\ new.version = plan[Current].version + 1 /\ new.criteria = plan[Current].criteria
      BY <2>2, <2>3 DEF ForkOf, PlanRow
    <2>5. PICK old \in PlanRow : old = [plan[Current] EXCEPT !.current = FALSE]
      BY <2>2 DEF PlanRow
    <2>6. /\ ~old.current /\ old.status = plan[Current].status /\ old.confirmed = plan[Current].confirmed
          /\ old.v5 = plan[Current].v5 /\ old.input = plan[Current].input /\ old.root = plan[Current].root
          /\ old.version = plan[Current].version /\ old.criteria = plan[Current].criteria
      BY <2>2, <2>5 DEF PlanRow
    <2>7. /\ plan' = [p \in Ids |-> plan'[p]] /\ plan'[next] = new /\ plan'[Current] = old
          /\ \A p \in Ids \ {Current, next} : plan'[p] = plan[p]
      BY <1>1, <1>4, <2>1, <2>2, <2>3, <2>5
    <2>8. new.current /\ plan[Current].status = "ready" /\ plan[Current].v5 /\ plan[Current].input = job.text
      BY <1>4, <2>2, <2>4 DEF SameInput, CurrentRows
    <2>9. Shown(old) /\ Shown(new)
      BY <2>2, <2>4, <2>6, <2>8 DEF Shown, Complete
    <2>10. \A q \in Rows : new.v5 /\ plan[q].v5 /\ plan[q].input = new.input => plan[q].version < new.version
      <3>1. \A q \in Rows : plan[q].version \in Nat
        BY Acting DEF PlanRow
      <3>2. \A q \in Rows : Alike(Current, q) => plan[q].version <= plan[Current].version
        BY <2>2 DEF IInv, PlanFits, VersionsDiffer
      <3> QED
        BY <2>2, <2>4, <3>1, <3>2 DEF Alike
    <2>11. PlanFits' /\ Rows' = Rows \cup {next} /\ CurrentRows' = {next}
      <3>1. \A p \in CurrentRows :
             /\ plan'[p] = old /\ ~old.current /\ old.status # "absent" /\ Shown(old)
             /\ old.v5 = plan[p].v5 /\ old.input = plan[p].input /\ old.root = plan[p].root
             /\ old.version = plan[p].version /\ old.criteria = plan[p].criteria
        BY <2>2, <2>6, <2>7, <2>8, <2>9
      <3>2. \A p \in Ids \ (CurrentRows \cup {next}) : plan'[p] = plan[p]
        BY <2>2, <2>7
      <3>3. new.status # "absent" /\ Sound(new.criteria) /\ new.root \in Rows \cup {next}
        BY <2>2, <2>4
      <3> QED
        BY <1>1, <2>1, <2>5, <2>7, <2>8, <2>9, <2>10, <3>1, <3>2, <3>3, RowAdded, ZenonT(60) DEF IInv
    <2>12. /\ Types' /\ WithinBudget' /\ PageFits' /\ SessionsFit'
           /\ \A t \in Sessions : Regenerates(t)' => Regenerates(t) /\ session'[t].row = session[t].row
      <3>1. lost' \in BOOLEAN /\ strayed' \in BOOLEAN /\ faultsLeft' \in Nat /\ stamp' = stamp
        BY <1>1, Acting
      <3> QED
        BY <1>1, <1>4, <2>11, <3>1, Ended
    <2>13. LinesAgree'
      <3>1. \A p \in Rows : p \in Ids /\ p # next
        BY <2>2, Acting
      <3>2. \A p \in Rows : plan'[p].root = plan[p].root /\ plan'[p].criteria = plan[p].criteria
        BY <2>2, <2>6, <2>7, <3>1
      <3>3. /\ plan'[next].status \notin {"generating", "failed"}
            /\ plan'[next].root = plan[Current].root /\ plan'[next].criteria = plan[Current].criteria
        BY <2>4, <2>7
      <3> QED
        BY <1>1, <2>2, <2>11, <2>12, <3>2, <3>3, LineGrows DEF IInv
    <2>14. DraftFits'
      BY <1>1, <2>4, <2>7, <2>8, <2>11 DEF DraftFits, Stale
    <2> QED
      BY <2>11, <2>12, <2>13, <2>14 DEF IInv
  <1> QED
    BY <1>2, <1>3, <1>4 DEF ForkConfirmed, Refuse, Commit

\* edit_version of a new generation is behind those of all the plans of its text.
LEMMA VersionIsNew ==
  ASSUME IInv, NEW s \in Sessions
  PROVE  NextVersion \in Nat \ {0} /\ \A q \in Rows : SameInput(q) => plan[q].version < NextVersion
  <1> DEFINE used == {0} \cup {plan[p].version : p \in {q \in Rows : SameInput(q)}}
  <1>1. PICK n \in Nat : \A p \in Ids : plan[p].version <= n
    BY DEF IInv, PlanFits, VersionsBounded
  <1>2. \A p \in Rows : p \in Ids /\ plan[p].version \in Nat
    BY Acting DEF PlanRow
  <1>3. used \in SUBSET Nat /\ used # {} /\ (\A v \in used : v <= n)
    BY <1>1, <1>2
  <1>4. Max(used) \in used /\ \A v \in used : v <= Max(used)
    <2> HIDE DEF used
    <2> QED
      BY <1>3, MaxOf
  <1>5. NextVersion = Max(used) + 1
    BY DEF NextVersion
  <1>6. \A q \in Rows : SameInput(q) => plan[q].version \in used
    OBVIOUS
  <1> HIDE DEF used
  <1>7. Max(used) \in Nat
    BY <1>3, <1>4
  <1> QED
    BY <1>2, <1>4, <1>5, <1>6, <1>7

\* The session that has asked the model, whatever it has written.
LEMMA ModelCalled ==
  ASSUME IInv, NEW s \in Sessions, session[s].pc = "job", NEW p \in Rows', Rows \subseteq Rows', Rows' \subseteq Ids,
         session' = [session EXCEPT ![s] = [pc |-> "model", call |-> "none", row |-> p, input |-> job.text]],
         UNCHANGED <<job, page, stamp, lost, hrLeft, faultsLeft>>, strayed' \in BOOLEAN
  PROVE  /\ Types' /\ WithinBudget' /\ PageFits' /\ SessionsFit'
         /\ \A t \in Sessions : Regenerates(t)' => Regenerates(t) /\ session'[t].row = session[t].row
  <1> DEFINE to == [pc |-> "model", call |-> "none", row |-> p, input |-> job.text]
  <1>1. /\ session \in [Sessions -> SessionState] /\ stamp \in Nat /\ stamp' \in Nat /\ stamp <= stamp'
        /\ job.text \in Texts /\ p \in 0..MaxPlans
    BY ConstantsOK DEF IInv, Types, Ids
  <1>2. to \in SessionState /\ to.pc = "model" /\ to.row = p /\ to.call = "none"
    BY <1>1 DEF SessionState
  <1> HIDE DEF to
  <1>3. session' = [session EXCEPT ![s] = to]
    BY DEF to
  <1>4. session'[s] = to /\ \A t \in Sessions : t # s => session'[t] = session[t]
    BY <1>1, <1>3
  <1>5. Types'
    BY <1>1, <1>2, <1>3 DEF IInv, Types
  <1>6. WithinBudget'
    <2>1. \A t \in Sessions : session'[t].pc = "idle" <=> session[t].pc = "idle"
      BY <1>2, <1>4
    <2> QED
      BY <2>1, BusyStays DEF IInv
  <1>7. PageFits'
    BY <1>1, PageStays DEF IInv
  <1>8. SessionsFit'
    BY <1>2, <1>4 DEF IInv, SessionsFit
  <1>9. \A t \in Sessions : Regenerates(t)' => Regenerates(t) /\ session'[t].row = session[t].row
    BY <1>2, <1>4 DEF Regenerates
  <1> QED
    BY <1>5, <1>6, <1>7, <1>8, <1>9

LEMMA ResetKeeps ==
  ASSUME IInv, NEW s \in Sessions, session[s].pc = "job", session[s].call = "regenerate",
         HasCurrent, SameInput(Current), CallModel(s, Current, [plan EXCEPT ![Current] = Reset(s)]),
         strayed' = (strayed \/ ResetsAnother(s)), UNCHANGED <<job, page, stamp, lost, hrLeft, faultsLeft>>
  PROVE  IInv'
  <1>1. /\ Current \in Rows /\ Current \in Ids /\ plan[Current] \in PlanRow /\ Shown(plan[Current])
        /\ Current \in CurrentRows /\ \A p \in CurrentRows : p = Current
        /\ stamp \in Nat /\ strayed \in BOOLEAN /\ plan \in [Ids -> PlanRow] /\ plan[Current].current
        /\ plan[Current].v5 /\ plan[Current].input = job.text
    BY Acting DEF IInv, PlanFits, SameInput
  <1>2. strayed' \in BOOLEAN /\ (strayed => strayed')
    BY <1>1 DEF ResetsAnother
  <1>3. CASE plan' = plan /\ Ends(s)
    <2>1. ~ResetsAnother(s)
      BY <1>3 DEF ResetsAnother
    <2> QED
      BY <1>1, <1>3, <2>1, Refused
  <1>4. PICK new \in PlanRow : new = Reset(s)
    BY <1>1 DEF Reset, PlanRow, Statuses
  <1>5. /\ new.status = "generating" /\ new.criteria = {} /\ new.current = plan[Current].current
        /\ new.v5 = plan[Current].v5 /\ new.input = plan[Current].input /\ new.root = plan[Current].root
        /\ new.version = plan[Current].version
    BY <1>1, <1>4 DEF Reset, PlanRow
  <1>6. CASE /\ plan' = [plan EXCEPT ![Current] = new] /\ (new # plan[Current] => Admitted(new))
             /\ session' = [session EXCEPT ![s] = [pc |-> "model", call |-> "none", row |-> Current, input |-> job.text]]
    <2>1. ~new.confirmed
      BY <1>1, <1>5, <1>6 DEF Admitted, Shown, PlanRow
    <2>2. Shown(new) /\ Sound(new.criteria)'
      BY <1>1, <1>5, <2>1 DEF Shown, Sound, Complete
    <2>3. PlanFits' /\ Rows' = Rows /\ CurrentRows' \subseteq CurrentRows
      <3>1. stamp' \in Nat /\ stamp <= stamp' /\ PlanFits /\ new.status # "absent"
        BY <1>1, <1>5 DEF IInv
      <3>2. PICK c \in Rows : c = Current
        BY <1>1
      <3> QED
        BY <1>1, <1>5, <1>6, <2>2, <3>1, <3>2, RowChanges
    <2>4. \A p \in Ids : plan'[p] = IF p = Current THEN new ELSE plan[p]
      BY <1>1, <1>6
    <2>5. /\ Types' /\ WithinBudget' /\ PageFits' /\ SessionsFit'
          /\ \A t \in Sessions : Regenerates(t)' => Regenerates(t) /\ session'[t].row = session[t].row
      <3>1. Rows \subseteq Ids
        BY Acting
      <3>2. PICK c \in Rows : c = Current
        BY <1>1
      <3> QED
        BY <1>2, <1>6, <2>3, <3>1, <3>2, ModelCalled
    <2>6. plan[Current].status \in {"generating", "failed"} \/ (~strayed' => Alone(Current))
      <3>1. ~strayed' => session[s].row = Current \/ plan'[Current] = plan[Current]
        BY <1>1, <1>5, <2>4 DEF ResetsAnother
      <3>2. plan'[Current] = plan[Current] => plan[Current].status = "generating"
        BY <1>1, <1>5, <2>4
      <3>3. ~strayed /\ session[s].row = Current => Alone(Current)
        BY <1>1 DEF IInv, LinesAgree, AskedAlone, Regenerates
      <3> QED
        BY <1>2, <3>1, <3>2, <3>3
    <2>7. LinesAgree'
      <3>1. Rows \subseteq Ids
        BY Acting
      <3>2. \A p \in Rows : plan'[p].root = plan[p].root
        BY <1>5, <2>4, <3>1
      <3>3. \A p \in Rows \ {Current} : plan'[p].criteria = plan[p].criteria /\ plan'[p].status = plan[p].status
        BY <2>4, <3>1
      <3>4. plan'[Current].criteria = {}
        BY <1>1, <1>5, <2>4
      <3>5. PICK c \in Rows : c = Current
        BY <1>1
      <3> QED
        BY <1>2, <2>3, <2>5, <2>6, <3>2, <3>3, <3>4, <3>5, LinesKept DEF IInv
    <2>8. DraftFits'
      <3>1. \A p \in CurrentRows' : p = Current
        BY <1>1, <2>3
      <3>2. \A p \in CurrentRows' : plan'[p].input = job.text
        BY <1>1, <1>5, <2>4, <3>1
      <3> QED
        BY <3>2 DEF DraftFits, Stale
    <2> QED
      BY <2>3, <2>5, <2>7, <2>8 DEF IInv
  <1>7. \/ plan' = plan /\ Ends(s)
        \/ /\ plan' = [plan EXCEPT ![Current] = new] /\ (new # plan[Current] => Admitted(new))
           /\ session' = [session EXCEPT ![s] = [pc |-> "model", call |-> "none", row |-> Current, input |-> job.text]]
    <2>1. [plan EXCEPT ![Current] = new][Current] = new
      BY <1>1
    <2> QED
      BY <1>1, <1>4, <2>1 DEF CallModel, Refuse
  <1> QED
    BY <1>3, <1>6, <1>7

LEMMA GenerationKeeps ==
  ASSUME IInv, NEW s \in Sessions, session[s].pc = "job",
         ~(HasCurrent /\ SameInput(Current)), NextId \in Ids,
         CallModel(s, NextId, NewGeneration(NextId)),
         strayed' = (strayed \/ ResetsAnother(s)), UNCHANGED <<job, page, stamp, lost, hrLeft, faultsLeft>>
  PROVE  IInv'
  <1>1. PICK next \in Ids : next = NextId
    OBVIOUS
  <1>2. PICK version \in Nat \ {0} : version = NextVersion
    BY VersionIsNew
  <1>3. /\ next \in 0..MaxPlans /\ next \notin Rows /\ next # 0 /\ CurrentRows \subseteq Rows /\ Rows \subseteq Ids
        /\ \A p \in CurrentRows : plan[p] \in PlanRow /\ Shown(plan[p]) /\ Sound(plan[p].criteria) /\ plan[p].root \in Rows
        /\ \A p \in CurrentRows : plan[p].current
        /\ stamp \in Nat /\ strayed \in BOOLEAN /\ plan \in [Ids -> PlanRow] /\ job.text \in Texts
    <2>1. next \in 0..MaxPlans /\ next \notin Rows /\ next # 0 /\ CurrentRows \subseteq Rows /\ Rows \subseteq Ids
      BY <1>1, RowFacts, ConstantsOK DEF IInv, Ids
    <2>2. \A p \in CurrentRows : plan[p].current
      BY DEF CurrentRows
    <2>3. plan \in [Ids -> PlanRow] /\ job.text \in Texts
      BY DEF IInv, PlanFits, Types
    <2> QED
      BY <2>1, <2>2, <2>3, Acting
  <1>4. PICK new : new = [AbsentPlan EXCEPT !.status = "generating", !.input = job.text, !.current = TRUE,
                                            !.version = version, !.root = next]
    OBVIOUS
  <1>5. /\ new \in PlanRow /\ new.status = "generating" /\ new.input = job.text /\ new.current = TRUE
        /\ new.version = version /\ new.root = next /\ new.v5 = TRUE /\ new.criteria = {} /\ new.confirmed = FALSE
    <2>1. PICK r \in PlanRow : r = AbsentPlan
      BY AbsentTyped
    <2>2. new = [r EXCEPT !.status = "generating", !.input = job.text, !.current = TRUE, !.version = version, !.root = next]
      BY <1>4, <2>1
    <2>3. r.v5 = TRUE /\ r.criteria = {} /\ r.confirmed = FALSE
      BY <2>1, AbsentTyped
    <2> QED
      BY <1>3, <2>2, <2>3 DEF PlanRow, Statuses
  <1> DEFINE rows == [p \in Ids |-> IF p = next THEN new
                                    ELSE IF HasCurrent /\ p = Current THEN Outdated(p) ELSE plan[p]]
  <1>6. CallModel(s, next, rows)
    <2>1. NewGeneration(next) = rows
      BY <1>2, <1>4 DEF NewGeneration
    <2> QED
      BY <1>1, <2>1
  <1>7. /\ rows = [p \in Ids |-> rows[p]] /\ rows[next] = new
        /\ \A p \in Ids \ (CurrentRows \cup {next}) : rows[p] = plan[p]
        /\ \A p \in CurrentRows : rows[p] = Outdated(p)
    <2>1. \A p \in CurrentRows : p = Current /\ HasCurrent /\ p \in Ids /\ p # next
      BY <1>3, Acting DEF HasCurrent
    <2>2. HasCurrent => Current \in CurrentRows
      BY Acting
    <2> QED
      BY <2>1, <2>2
  <1> HIDE DEF rows
  <1>8. \A p \in CurrentRows : \E old \in PlanRow :
          /\ Outdated(p) = old /\ ~old.current /\ old.status = "outdated" /\ old.confirmed = plan[p].confirmed
          /\ old.v5 = plan[p].v5 /\ old.input = plan[p].input /\ old.root = plan[p].root
          /\ old.version = plan[p].version /\ old.criteria = plan[p].criteria
    <2> TAKE p \in CurrentRows
    <2>1. PICK old \in PlanRow : old = Outdated(p)
      BY <1>3 DEF Outdated, PlanRow, Statuses
    <2>2. /\ ~old.current /\ old.status = "outdated" /\ old.confirmed = plan[p].confirmed
          /\ old.v5 = plan[p].v5 /\ old.input = plan[p].input /\ old.root = plan[p].root
          /\ old.version = plan[p].version /\ old.criteria = plan[p].criteria
      BY <1>3, <2>1 DEF Outdated, PlanRow
    <2> QED
      BY <2>1, <2>2
  <1>9. CASE Refuse(s)
    <2>1. ~ResetsAnother(s)
      BY <1>9 DEF ResetsAnother, Refuse
    <2>2. ~Stale \/ \A q \in Ids : rows[q] # plan[q] => Admitted(rows[q])
      <3>1. ASSUME Stale PROVE \A q \in Ids : rows[q] # plan[q] => Admitted(rows[q])
        <4>1. \A p \in CurrentRows : ~plan[p].confirmed
          BY <3>1 DEF Stale, IInv, PlanFits, OneCurrent
        <4>2. \A p \in CurrentRows : Admitted(Outdated(p))
          BY <1>8, <4>1 DEF Admitted
        <4>3. Admitted(new)
          BY <1>5 DEF Admitted
        <4> QED
          BY <1>7, <4>2, <4>3
      <3> QED
        BY <3>1
    <2>3. CASE ~Stale
      BY <1>3, <1>9, <2>1, <2>3, Refused DEF Refuse
    <2>4. CASE \A q \in Ids : rows[q] # plan[q] => Admitted(rows[q])
      <3>1. plan' = rows /\ plan' = plan
        BY <1>6, <1>9, <2>4 DEF CallModel, Refuse
      <3> QED
        BY <1>3, <1>5, <1>7, <3>1 DEF Rows
    <2> QED
      BY <2>2, <2>3, <2>4
  <1>10. CASE /\ \A q \in Ids : rows[q] # plan[q] => Admitted(rows[q])
              /\ plan' = rows
              /\ session' = [session EXCEPT ![s] = [pc |-> "model", call |-> "none", row |-> next, input |-> job.text]]
    <2>1. \A p \in CurrentRows : \E old \in PlanRow :
             /\ plan'[p] = old /\ ~old.current /\ old.status # "absent" /\ Shown(old)
             /\ old.v5 = plan[p].v5 /\ old.input = plan[p].input /\ old.root = plan[p].root
             /\ old.version = plan[p].version /\ old.criteria = plan[p].criteria
      <3> TAKE p \in CurrentRows
      <3>1. PICK old \in PlanRow :
              /\ Outdated(p) = old /\ ~old.current /\ old.status = "outdated" /\ old.confirmed = plan[p].confirmed
              /\ old.v5 = plan[p].v5 /\ old.input = plan[p].input /\ old.root = plan[p].root
              /\ old.version = plan[p].version /\ old.criteria = plan[p].criteria
        BY <1>8
      <3>2. plan'[p] = old
        BY <1>7, <1>10, <3>1
      <3>3. Admitted(old)
        <4>1. p \in Ids /\ old # plan[p]
          BY <1>3, <3>1
        <4> QED
          BY <1>10, <3>2, <4>1
      <3>4. Shown(old)
        BY <1>3, <3>1, <3>3 DEF Shown, Admitted, Complete
      <3> QED
        BY <3>1, <3>2, <3>4
    <2>2. Shown(new) /\ Sound(new.criteria)
      BY <1>2, <1>5 DEF Shown, Sound, Complete
    <2>3. \A q \in Rows : new.v5 /\ plan[q].v5 /\ plan[q].input = new.input => plan[q].version < new.version
      BY <1>2, <1>5, VersionIsNew DEF SameInput
    <2>4. PlanFits' /\ Rows' = Rows \cup {next} /\ CurrentRows' = {next}
      <3>1. plan' = [p \in Ids |-> plan'[p]] /\ plan'[next] = new
            /\ \A p \in Ids \ (CurrentRows \cup {next}) : plan'[p] = plan[p]
        BY <1>7, <1>10
      <3>2. new.status # "absent" /\ new.current /\ new.root \in Rows \cup {next}
        BY <1>5
      <3> QED
        BY <1>1, <1>3, <1>5, <2>1, <2>2, <2>3, <3>1, <3>2, RowAdded DEF IInv
    <2>5. strayed' \in BOOLEAN /\ (strayed => strayed')
      BY <1>3 DEF ResetsAnother
    <2>6. /\ Types' /\ WithinBudget' /\ PageFits' /\ SessionsFit'
          /\ \A t \in Sessions : Regenerates(t)' => Regenerates(t) /\ session'[t].row = session[t].row
      <3>1. next \in Rows' /\ Rows \subseteq Rows' /\ Rows' \subseteq Ids
        BY <1>3, <2>4
      <3> QED
        BY <1>10, <2>5, <3>1, ModelCalled
    <2>7. LinesAgree'
      <3>1. \A p \in Rows : plan'[p].root = plan[p].root /\ plan'[p].criteria = plan[p].criteria
        <4> TAKE p \in Rows
        <4>1. CASE p \in CurrentRows
          BY <2>1, <4>1
        <4>2. CASE p \notin CurrentRows
          BY <1>3, <1>7, <1>10, <4>2
        <4> QED
          BY <4>1, <4>2
      <3>2. plan'[next].root = next /\ plan'[next].criteria = {}
        BY <1>5, <1>7, <1>10
      <3> QED
        BY <1>3, <2>4, <2>5, <2>6, <3>1, <3>2, LineGrows DEF IInv
    <2>8. DraftFits'
      BY <1>5, <1>7, <1>10, <2>4 DEF DraftFits, Stale
    <2> QED
      BY <2>4, <2>6, <2>7, <2>8 DEF IInv
  <1> QED
    BY <1>6, <1>9, <1>10 DEF CallModel

LEMMA GenerateKeeps ==
  ASSUME IInv, NEW s \in Sessions, Generate(s)
  PROVE  IInv'
  <1>1. /\ session[s].pc = "job" /\ stamp \in Nat /\ strayed \in BOOLEAN
        /\ session[s].call \in {"generate", "regenerate"}
        /\ strayed' = (strayed \/ ResetsAnother(s))
        /\ UNCHANGED <<job, page, stamp, lost, hrLeft, faultsLeft>>
        /\ HasCurrent => \A p \in CurrentRows : p = Current
    BY Acting DEF Generate
  <1>2. ASSUME Refuse(s), ~Stale PROVE IInv'
    <2>1. ~ResetsAnother(s)
      BY <1>2 DEF ResetsAnother, Refuse
    <2> QED
      BY <1>1, <1>2, <2>1, Refused DEF Refuse
  <1>3. CASE job.status # "open"
    BY <1>2, <1>3 DEF Generate, Stale
  <1>4. CASE job.status = "open" /\ HasCurrent /\ SameInput(Current)
    <2>1. ~Stale
      BY <1>1, <1>4 DEF Stale, SameInput
    <2>2. CASE ~Forced(s) \/ StatusAsSeen(s) = "generating"
      BY <1>2, <1>4, <2>1, <2>2 DEF Generate, Prepare
    <2>3. CASE ~(~Forced(s) \/ StatusAsSeen(s) = "generating")
      <3>1. session[s].call = "regenerate"
        BY <2>3 DEF Forced
      <3>2. CallModel(s, Current, [plan EXCEPT ![Current] = Reset(s)])
        BY <1>4, <2>3 DEF Generate, Prepare
      <3> QED
        BY <1>1, <1>4, <3>1, <3>2, ResetKeeps
    <2> QED
      BY <2>2, <2>3
  <1>5. CASE job.status = "open" /\ ~(HasCurrent /\ SameInput(Current))
    BY <1>1, <1>5, GenerationKeeps DEF Generate, Prepare
  <1> QED
    BY <1>3, <1>4, <1>5

-----------------------------------------------------------------------------
(* The invariant *)

LEMMA InitHolds ==
  ASSUME Init
  PROVE  IInv
  <1>1. /\ session = [s \in Sessions |-> Idle] /\ page = NoPage /\ stamp = 0 /\ lost = FALSE /\ strayed = FALSE
        /\ hrLeft = HrBudget /\ faultsLeft = FaultBudget
    BY DEF Init
  <1>2. PICK first \in PlanRow :
          /\ plan = [p \in Ids |-> IF p = 1 THEN first ELSE AbsentPlan]
          /\ first.criteria = {} /\ first.version = 0 /\ first.confirmed = FALSE
          /\ \/ first = AbsentPlan
             \/ first.status = "ready" /\ ~first.v5 /\ first.root = 1 /\ first.input = job.text
    <2>1. PICK r \in PlanRow : r = AbsentPlan
      BY AbsentTyped
    <2>2. CASE plan = [p \in Ids |-> AbsentPlan]
      BY <2>1, <2>2, AbsentTyped
    <2>3. ASSUME NEW t \in Texts, job.text = t,
                 plan = [p \in Ids |-> IF p = 1 THEN
                      [AbsentPlan EXCEPT !.status = "ready", !.v5 = FALSE, !.input = t,
                                         !.current = TRUE, !.root = 1] ELSE AbsentPlan]
          PROVE \E first \in PlanRow :
                  /\ plan = [p \in Ids |-> IF p = 1 THEN first ELSE AbsentPlan]
                  /\ first.criteria = {} /\ first.version = 0 /\ first.confirmed = FALSE
                  /\ \/ first = AbsentPlan
                     \/ first.status = "ready" /\ ~first.v5 /\ first.root = 1 /\ first.input = job.text
      <3>1. PICK first : first = [r EXCEPT !.status = "ready", !.v5 = FALSE, !.input = t, !.current = TRUE, !.root = 1]
        OBVIOUS
      <3>2. 1 \in 0..MaxPlans
        BY ConstantsOK
      <3>3. /\ first \in PlanRow /\ first.status = "ready" /\ ~first.v5 /\ first.root = 1 /\ first.input = t
            /\ first.criteria = r.criteria /\ first.version = r.version /\ first.confirmed = r.confirmed
        BY <3>1, <3>2 DEF PlanRow, Statuses
      <3>4. r.criteria = {} /\ r.version = 0 /\ r.confirmed = FALSE
        BY <2>1, AbsentTyped
      <3>5. plan = [p \in Ids |-> IF p = 1 THEN first ELSE AbsentPlan]
        BY <2>1, <2>3, <3>1
      <3> QED
        BY <2>3, <3>3, <3>4, <3>5
    <2>4. \/ plan = [p \in Ids |-> AbsentPlan]
          \/ \E t \in Texts :
               /\ job = [status |-> "open", text |-> t]
               /\ plan = [p \in Ids |-> IF p = 1 THEN
                      [AbsentPlan EXCEPT !.status = "ready", !.v5 = FALSE, !.input = t,
                                         !.current = TRUE, !.root = 1] ELSE AbsentPlan]
      BY DEF Init
    <2>5. ASSUME NEW t \in Texts, job = [status |-> "open", text |-> t] PROVE job.text = t
      BY <2>5
    <2> HIDE DEF AbsentPlan
    <2> QED
      BY <2>2, <2>3, <2>4, <2>5
  <1>3. job \in [status : {"draft", "open", "closed", "deleted"}, text : Texts]
    BY DEF Init
  <1>4. 1 \in Ids /\ \A p \in Ids : plan[p] = IF p = 1 THEN first ELSE AbsentPlan
    BY <1>2, ConstantsOK DEF Ids
  <1>5. Rows = {} \/ (Rows = {1} /\ first.status = "ready" /\ ~first.v5 /\ first.root = 1 /\ first.input = job.text)
    <2>1. CASE first = AbsentPlan
      BY <1>4, <2>1, AbsentTyped DEF Rows
    <2>2. CASE first.status = "ready" /\ ~first.v5 /\ first.root = 1 /\ first.input = job.text
      BY <1>4, <2>2, AbsentTyped DEF Rows
    <2> QED
      BY <1>2, <2>1, <2>2
  <1>6. \A s \in Sessions : session[s].pc = "idle" /\ session[s].row = 0
    BY <1>1, IdleTyped
  <1>7. Types
    BY <1>1, <1>3, IdleTyped, ConstantsOK DEF Types
  <1>8. WithinBudget
    <2>1. Busy = {}
      BY <1>6 DEF Busy
    <2>2. IsFiniteSet(Busy) /\ Cardinality(Busy) = 0
      BY <2>1, FS_EmptySet
    <2> QED
      BY <1>1, <2>2, ConstantsOK DEF WithinBudget
  <1>9. PlanFits
    <2>1. plan \in [Ids -> PlanRow] /\ \A p \in Ids : plan[p].criteria = {} /\ plan[p].version = 0
      BY <1>2, <1>4, AbsentTyped
    <2>2. \A p \in Ids : Sound(plan[p].criteria)
      BY <2>1 DEF Sound
    <2>3. RowsInOrder
      <3>1. \E n \in 0..MaxPlans : Rows = 1..n
        <4>1. CASE Rows = {}
          <5>1. 0 \in 0..MaxPlans /\ 1..0 = {}
            BY ConstantsOK
          <5> QED
            BY <4>1, <5>1
        <4>2. CASE Rows = {1}
          <5>1. 1 \in 0..MaxPlans /\ 1..1 = {1}
            BY ConstantsOK
          <5> QED
            BY <4>2, <5>1
        <4> QED
          BY <1>5, <4>1, <4>2
      <3>2. \A p \in Ids \ Rows : plan[p] = AbsentPlan
        <4>1. CASE first = AbsentPlan
          BY <1>4, <4>1
        <4>2. CASE Rows = {1}
          BY <1>4, <4>2
        <4>3. CASE Rows = {} /\ first.status = "ready"
          BY <1>4, <4>3 DEF Rows
        <4> QED
          BY <1>2, <1>5, <4>1, <4>2, <4>3
      <3>3. \A p \in Rows : plan[p].root \in Rows
        BY <1>4, <1>5
      <3> QED
        BY <3>1, <3>2, <3>3 DEF RowsInOrder
    <2>4. OneCurrent
      BY <1>5 DEF OneCurrent, CurrentRows
    <2>5. \A p \in Rows : Shown(plan[p])
      BY <1>2, <1>4, <1>5 DEF Shown
    <2>6. VersionsDiffer
      BY <1>4, <1>5 DEF VersionsDiffer, Alike, CurrentRows
    <2>7. VersionsBounded
      BY <2>1 DEF VersionsBounded
    <2> QED
      BY <2>1, <2>2, <2>3, <2>4, <2>5, <2>6, <2>7 DEF PlanFits
  <1>10. PageFits
    BY <1>1, ConstantsOK DEF PageFits, Page, NoPage, Sound
  <1>11. SessionsFit
    BY <1>6 DEF SessionsFit
  <1>12. LinesAgree
    <2>1. \A p \in Rows : plan[p].criteria = {}
      BY <1>2, <1>4, <1>5
    <2>2. VersionsAgree
      BY <2>1 DEF VersionsAgree, Agree
    <2>3. EmptyAlone
      BY <1>5 DEF EmptyAlone, Alone, CurrentRows
    <2>4. AskedAlone
      BY <1>6 DEF AskedAlone, Regenerates
    <2> QED
      BY <2>2, <2>3, <2>4 DEF LinesAgree
  <1>13. DraftFits
    BY <1>4, <1>5 DEF DraftFits, Stale, CurrentRows
  <1> QED
    BY <1>7, <1>8, <1>9, <1>10, <1>11, <1>12, <1>13 DEF IInv

LEMMA StepKeeps ==
  ASSUME IInv, [Next]_vars
  PROVE  IInv'
  <1>1. CASE Next
    BY <1>1, OpenJobKeeps, UpdateJobKeeps, CloseJobKeeps, AskKeeps, AskToRegenerateKeeps, LoadPageKeeps,
       SessionGoesOn, SessionIsLost, GenerateKeeps, SaveDraftKeeps, ForkConfirmedKeeps, ConfirmPlanKeeps,
       MarkOutdatedKeeps, AnswerKept DEF Next, Handle
  <1>2. CASE UNCHANGED vars
    <2>1. /\ UNCHANGED <<job, plan, session, page, stamp, lost, strayed, hrLeft, faultsLeft>>
      BY <1>2 DEF vars
    <2>2. Types' /\ WithinBudget' /\ Rows' = Rows /\ CurrentRows' = CurrentRows
      BY <2>1, SameRows DEF IInv, Types, WithinBudget, Busy
    <2>3. SessionsFit'
      BY <2>1, <2>2 DEF IInv, SessionsFit
    <2>4. DraftFits'
      BY <2>1, <2>2, DraftStays DEF IInv
    <2>5. \A t \in Sessions : Regenerates(t)' => Regenerates(t) /\ session'[t].row = session[t].row
      BY <2>1 DEF Regenerates
    <2> QED
      BY <2>1, <2>2, <2>3, <2>4, <2>5, NothingWritten
  <1> QED
    BY <1>1, <1>2

\* The inductive invariant holds in every reachable state, for any texts, sessions and bounds.
THEOREM Invariant == Spec => []IInv
  <1>1. Init => IInv
    BY InitHolds
  <1>2. IInv /\ [Next]_vars => IInv'
    BY StepKeeps
  <1> QED
    BY <1>1, <1>2, PTL DEF Spec

-----------------------------------------------------------------------------
(* What it says *)

LEMMA ConstraintsHold ==
  ASSUME IInv
  PROVE  RowConstraints
  <1>1. plan \in [Ids -> PlanRow] /\ \A p \in Rows : p \in Ids /\ Shown(plan[p]) /\ plan[p] \in PlanRow
    BY DEF IInv, PlanFits, Rows
  <1>2. TypeOK
    <2>1. job \in [status : {"draft", "open", "closed", "deleted"}, text : Texts]
      BY DEF IInv, Types
    <2>2. ASSUME NEW p \in Ids
          PROVE  /\ DOMAIN plan[p] = DOMAIN AbsentPlan
                 /\ plan[p].status \in Statuses \cup {"absent"} /\ plan[p].input \in Texts
                 /\ {plan[p].v5, plan[p].current, plan[p].confirmed} \subseteq BOOLEAN
                 /\ plan[p].version \in Nat
                 /\ plan[p].v5 /\ plan[p].status # "absent" => plan[p].version > 0
                 /\ plan[p].root \in 0..MaxPlans
                 /\ plan[p].criteria \subseteq Criterion
      <3>1. plan[p] \in PlanRow
        BY <1>1
      <3>2. DOMAIN plan[p] = DOMAIN AbsentPlan
        BY <3>1, AbsentTyped DEF PlanRow
      <3>3. plan[p].v5 /\ plan[p].status # "absent" => plan[p].version > 0
        BY <1>1, <3>1 DEF Rows, Shown, PlanRow
      <3> QED
        BY <3>1, <3>2, <3>3 DEF PlanRow
    <2>3. ASSUME NEW s \in Sessions
          PROVE  /\ session[s].pc \in {"idle", "called", "job", "model", "plan"}
                 /\ session[s].call \in Calls \cup {"none"}
                 /\ session[s].row \in 0..MaxPlans /\ session[s].input \in Texts
      BY DEF IInv, Types, SessionState
    <2>4. /\ page.row \in 0..MaxPlans /\ stamp \in Nat /\ {lost, strayed} \subseteq BOOLEAN
          /\ hrLeft \in Nat /\ faultsLeft \in Nat
      BY DEF IInv, Types, PageFits, Page
    <2> QED
      BY <2>1, <2>2, <2>3, <2>4 DEF TypeOK
  <1>3. PlansReadable
    <2>1. ASSUME NEW p \in Rows PROVE Readable(p)
      <3>1. Cardinality(IdsOf(plan[p].criteria)) = Cardinality(plan[p].criteria)
        <4>1. plan[p].criteria \in SUBSET Criterion /\ Sound(plan[p].criteria)
          BY <1>1 DEF IInv, PlanFits, PlanRow
        <4> QED
          BY <4>1, CriteriaCounted DEF Sound
      <3> QED
        BY <1>1, <3>1 DEF Readable, Shown
    <2> QED
      BY <2>1 DEF PlansReadable
  <1>4. Cardinality(CurrentRows) <= 1
    <2>1. CASE CurrentRows = {}
      BY <2>1, FS_EmptySet
    <2>2. CASE CurrentRows # {}
      <3>1. PICK p \in CurrentRows : TRUE
        BY <2>2
      <3>2. CurrentRows = {p}
        BY <3>1 DEF IInv, PlanFits, OneCurrent
      <3> QED
        BY <3>2, FS_Singleton
    <2> QED
      BY <2>1, <2>2
  <1>5. \A p, q \in Rows :
          plan[p].v5 /\ plan[q].v5 /\ plan[p].input = plan[q].input
            /\ plan[p].version = plan[q].version => p = q
    BY DEF IInv, PlanFits, VersionsDiffer, Alike
  <1> QED
    BY <1>2, <1>3, <1>4, <1>5 DEF RowConstraints

\* No handler's commit meets a unique index, and every row of a job's history can be shown,
\* however many sessions generate, edit, fork and confirm its plans at once.
THEOREM RowConstraintsKept == Spec => []RowConstraints
  <1>1. IInv => RowConstraints
    BY ConstraintsHold
  <1> QED
    BY <1>1, Invariant, PTL

\* An id names one criterion in all the confirmed versions of a generation, as long as no
\* request has changed a plan it was not about.
THEOREM StableIdsAlways == Spec => []StableIds
  <1>1. IInv => StableIds
    BY DEF IInv, LinesAgree, VersionsAgree, Agree, StableIds
  <1> QED
    BY <1>1, Invariant, PTL

\* A plan HR has not confirmed is one of the open job's present text, once the calls that
\* follow an edit or an opening are done.
THEOREM DraftFitsJobAlways == Spec => []DraftFitsJob
  <1>1. ASSUME IInv PROVE DraftFitsJob
    <2>1. HasCurrent => Current \in CurrentRows
      BY <1>1, RowFacts DEF IInv
    <2> QED
      BY <1>1, <2>1 DEF IInv, DraftFits, Stale, DraftFitsJob
  <1> QED
    BY <1>1, Invariant, PTL

-----------------------------------------------------------------------------
(* Confirmed plans *)

LEMMA ConfirmedKept ==
  ASSUME IInv, [Next]_vars, NEW p \in Ids, plan[p].confirmed,
         ~(\E s \in Sessions : At(s, "job") /\ session[s].call = "regenerate" /\ session[s].row # p)
  PROVE  plan'[p].confirmed /\ plan'[p].criteria = plan[p].criteria
  <1>1. /\ plan \in [Ids -> PlanRow] /\ p \in Rows /\ Shown(plan[p]) /\ plan[p] \in PlanRow
        /\ plan[p].v5 /\ plan[p].status = "ready"
    <2>1. p \in Rows
      BY AbsentTyped DEF IInv, PlanFits, RowsInOrder
    <2> QED
      BY <2>1 DEF IInv, PlanFits, Shown
  <1>2. HasCurrent => Current \in Rows /\ Current \in Ids /\ plan[Current] \in PlanRow
    BY RowFacts DEF IInv
  <1> DEFINE Kept == plan'[p].confirmed /\ plan'[p].criteria = plan[p].criteria
  <1>3. CASE UNCHANGED plan
    BY <1>3
  <1>4. ASSUME NEW s, HasCurrent, GivesUp(s) PROVE Kept
    <2>1. PICK new \in PlanRow : new = Outdated(Current)
      BY <1>2, <1>4 DEF Outdated, PlanRow, Statuses
    <2>2. new.confirmed = plan[Current].confirmed /\ new.criteria = plan[Current].criteria
      BY <1>2, <1>4, <2>1 DEF Outdated, PlanRow
    <2> QED
      BY <1>1, <1>2, <1>4, <2>1, <2>2 DEF GivesUp, Commit
  <1>5. ASSUME NEW s, NEW c \in Ids, c # p, NEW new, Commit(s, [plan EXCEPT ![c] = new]) PROVE Kept
    BY <1>1, <1>5 DEF Commit
  <1>6. ASSUME NEW s \in Sessions, SaveResult(s) PROVE Kept
    <2> DEFINE c == session[s].row
    <2>1. c \in Ids
      BY <1>6 DEF SaveResult, HoldsPlan, IInv, SessionsFit, Rows
    <2>2. PICK result \in {"pending_confirmation", "failed"} : StoreResult(s, result)
      BY <1>6 DEF SaveResult
    <2>3. CASE plan[c].status # "generating"
      BY <1>3, <2>2, <2>3 DEF StoreResult, Refuse
    <2>4. CASE plan[c].status = "generating"
      <3>1. c # p
        BY <1>1, <2>4
      <3>2. \E new : Commit(s, [plan EXCEPT ![c] = new])
        BY <1>1, <2>1, <2>2, <2>4 DEF StoreResult
      <3> HIDE DEF c
      <3> QED
        BY <1>5, <2>1, <3>1, <3>2
    <2> QED
      BY <2>3, <2>4
  <1>7. ASSUME NEW s \in Sessions, SaveDraft(s) PROVE Kept
    <2>1. CASE Refuse(s)
      BY <1>3, <2>1 DEF Refuse
    <2>2. CASE HasCurrent /\ GivesUp(s)
      BY <1>4, <2>2
    <2>3. ASSUME HasCurrent, plan[Current].status = "pending_confirmation", NEW draft,
                 Commit(s, [plan EXCEPT ![Current] = DraftSaved(Current, draft)])
          PROVE Kept
      <3>1. Current # p
        BY <1>1, <2>3
      <3> QED
        BY <1>2, <1>5, <2>3, <3>1
    <2> QED
      BY <1>7, <2>1, <2>2, <2>3 DEF SaveDraft
  <1>8. ASSUME NEW s \in Sessions, ForkConfirmed(s) PROVE Kept
    <2>1. CASE Refuse(s)
      BY <1>3, <2>1 DEF Refuse
    <2>2. CASE HasCurrent /\ GivesUp(s)
      BY <1>4, <2>2
    <2>3. ASSUME HasCurrent, NextId \in Ids,
                 Commit(s, [plan EXCEPT ![Current].current = FALSE, ![NextId] = ForkOf(Current)])
          PROVE Kept
      <3>1. NextId # p
        BY <1>1, RowFacts DEF IInv
      <3>2. PICK old \in PlanRow : old = [plan[Current] EXCEPT !.current = FALSE]
        BY <1>2, <2>3 DEF PlanRow
      <3>3. old.confirmed = plan[Current].confirmed /\ old.criteria = plan[Current].criteria
        BY <1>2, <2>3, <3>2 DEF PlanRow
      <3> QED
        BY <1>1, <1>2, <2>3, <3>1, <3>2, <3>3 DEF Commit
    <2> QED
      BY <1>8, <2>1, <2>2, <2>3 DEF ForkConfirmed
  <1>9. ASSUME NEW s \in Sessions, ConfirmPlan(s) PROVE Kept
    <2>1. CASE Refuse(s)
      BY <1>3, <2>1 DEF Refuse
    <2>2. CASE HasCurrent /\ GivesUp(s)
      BY <1>4, <2>2
    <2>3. ASSUME HasCurrent, plan[Current].status = "pending_confirmation",
                 Commit(s, [plan EXCEPT ![Current].status = "ready", ![Current].confirmed = TRUE])
          PROVE Kept
      <3>1. Current # p
        BY <1>1, <2>3
      <3> QED
        BY <1>1, <1>2, <2>3, <3>1 DEF Commit
    <2> QED
      BY <1>9, <2>1, <2>2, <2>3 DEF ConfirmPlan
  <1>10. ASSUME NEW s \in Sessions, MarkOutdated(s) PROVE Kept
    BY <1>3, <1>4, <1>10 DEF MarkOutdated, Refuse
  <1>11. ASSUME NEW s \in Sessions, Generate(s) PROVE Kept
    <2>1. CASE Refuse(s)
      BY <1>3, <2>1 DEF Refuse
    <2>2. ASSUME NEW c, NEW rows, CallModel(s, c, rows)
          PROVE  plan' = plan \/ (plan' = rows /\ \A q \in Ids : rows[q] # plan[q] => Admitted(rows[q]))
      BY <2>2 DEF CallModel, Refuse
    <2>3. ASSUME HasCurrent, Forced(s), CallModel(s, Current, [plan EXCEPT ![Current] = Reset(s)]) PROVE Kept
      <3>1. CASE plan' = plan
        BY <1>3, <3>1
      <3>2. CASE plan' = [plan EXCEPT ![Current] = Reset(s)] /\ Current # p
        BY <1>1, <1>2, <3>2
      <3>3. CASE /\ plan' = [plan EXCEPT ![Current] = Reset(s)] /\ Current = p
                 /\ \A q \in Ids : plan'[q] # plan[q] => Admitted(plan'[q])
        <4>1. At(s, "job") /\ session[s].call = "regenerate"
          BY <1>11, <2>3, Acting DEF Generate, Forced, At
        <4>2. session[s].row = p
          BY <4>1
        <4>3. PICK new : new = Reset(s)
          OBVIOUS
        <4>4. new.status = "generating" /\ new.v5 = plan[p].v5 /\ new.confirmed = plan[p].confirmed
          BY <1>1, <3>3, <4>2, <4>3 DEF Reset, PlanRow
        <4>5. plan'[p] = new
          BY <1>1, <3>3, <4>3
        <4>6. ~Admitted(new)
          BY <1>1, <4>4 DEF Admitted
        <4> QED
          BY <1>1, <3>3, <4>4, <4>5, <4>6
      <3> QED
        BY <2>2, <2>3, <3>1, <3>2, <3>3
    <2>4. ASSUME CallModel(s, NextId, NewGeneration(NextId)) PROVE Kept
      <3>1. CASE plan' = plan
        BY <1>3, <3>1
      <3>2. CASE plan' = NewGeneration(NextId)
        <4>1. NextId # p
          BY <1>1, RowFacts DEF IInv
        <4>2. plan'[p] = IF HasCurrent /\ p = Current THEN Outdated(p) ELSE plan[p]
          BY <1>1, <3>2, <4>1 DEF NewGeneration
        <4>3. Outdated(p).confirmed = plan[p].confirmed /\ Outdated(p).criteria = plan[p].criteria
          BY <1>1 DEF Outdated, PlanRow
        <4> QED
          BY <4>2, <4>3
      <3> QED
        BY <2>2, <2>4, <3>1, <3>2
    <2> QED
      BY <1>11, <2>1, <2>3, <2>4 DEF Generate, Prepare
  <1>12. CASE UNCHANGED vars
    BY <1>3, <1>12 DEF vars
  <1>13. CASE \E s \in Sessions : OpenJob(s) \/ CloseJob(s) \/ UpdateJob(s) \/ DeleteJob(s) \/ Ask(s)
                \/ AskToRegenerate(s) \/ TakeJob(s) \/ ModelAnswers(s) \/ DeadlockVictim(s) \/ Crash(s)
    BY <1>3, <1>13 DEF OpenJob, CloseJob, UpdateJob, DeleteJob, Ask, AskToRegenerate, TakeJob, ModelAnswers,
                       DeadlockVictim, Crash
  <1>14. CASE LoadPage
    BY <1>3, <1>14 DEF LoadPage
  <1> QED
    BY <1>6, <1>7, <1>8, <1>9, <1>10, <1>11, <1>12, <1>13, <1>14 DEF Next, Handle

\* What HR has confirmed stays confirmed with the criteria it had; the reset of a regeneration
\* that read this plan as failed is refused by the CHECK on confirmed_at.
THEOREM ConfirmedStaysAlways == Spec => ConfirmedStays
  <1>1. ASSUME IInv, [Next]_vars
        PROVE  [\A p \in Ids :
                  plan[p].confirmed
                    /\ ~(\E s \in Sessions : At(s, "job") /\ session[s].call = "regenerate" /\ session[s].row # p)
                  => plan'[p].confirmed /\ plan'[p].criteria = plan[p].criteria]_vars
    BY <1>1, ConfirmedKept
  <1> QED
    BY <1>1, Invariant, PTL DEF Spec, ConfirmedStays
=============================================================================
