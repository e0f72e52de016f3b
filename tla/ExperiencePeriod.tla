-------------------------- MODULE ExperiencePeriod --------------------------
(* experience_period_service: the date ranges of a resume, and the bounds on the  *)
(* number of months that some of them cover.  A range is what the expressions     *)
(* found in one line; an endpoint is a year with a month, or a year alone.        *)
EXTENDS Integers, Sequences, FiniteSets, SequencesExt, FiniteSetsExt

CONSTANTS
  Years,
  MonthsPerYear,  \* 12; bound: fewer in the runs
  Cutoff          \* the month of the application, counted as Index counts

ASSUME PeriodAssumption == Years \subseteq Nat /\ MonthsPerYear \in Nat \ {0} /\ Cutoff \in Nat

Index(year, month) == year * MonthsPerYear + month - 1
Larger(m, n) == IF m > n THEN m ELSE n
Smaller(m, n) == IF m < n THEN m ELSE n

YearOnly == 0
Endpoint == [year : Years, month : 0..MonthsPerYear + 1]  \* the last is no month
Range_ == [start : Endpoint, present : BOOLEAN, end : Endpoint]

Parses(point) == point.month <= MonthsPerYear
Earliest(point) == Index(point.year, IF point.month = YearOnly THEN 1 ELSE point.month)
Latest(point) == Index(point.year, IF point.month = YearOnly THEN MonthsPerYear ELSE point.month)

\* The months between which a range starts and ends, an end after the cutoff being cut.
StartMin(r) == Earliest(r.start)
StartMax(r) == Latest(r.start)
EndMin(r) == IF r.present THEN Cutoff ELSE Smaller(Earliest(r.end), Cutoff)
EndMax(r) == IF r.present THEN Cutoff ELSE Smaller(Latest(r.end), Cutoff)

Usable(r) ==
  /\ Parses(r.start) /\ (r.present \/ Parses(r.end))
  /\ StartMin(r) <= Cutoff /\ EndMax(r) >= StartMin(r)
Exact(r) == r.start.month # YearOnly /\ (r.present \/ r.end.month # YearOnly)

\* _build_fact: duration_months twice, or its lower and upper bound
FactBounds(r) == <<Larger(0, EndMin(r) - StartMax(r)), Larger(0, EndMax(r) - StartMin(r))>>

Earlier(i, j) == i[1] < j[1] \/ (i[1] = j[1] /\ i[2] < j[2])

\* What a bug would do: taking the end of the interval that starts last.
BugMerged(acc, i) ==
  IF i[1] <= acc.end THEN [acc EXCEPT !.end = i[2]]
  ELSE [total |-> acc.total + acc.end - acc.start, start |-> i[1], end |-> i[2]]

Merged(acc, i) ==
  IF i[1] <= acc.end THEN [acc EXCEPT !.end = Larger(@, i[2])]
  ELSE [total |-> acc.total + acc.end - acc.start, start |-> i[1], end |-> i[2]]

FirstInterval(S) == CHOOSE i \in S : \A j \in S : i = j \/ Earlier(i, j)
LastInterval(S) == CHOOSE i \in S : \A j \in S : i = j \/ Earlier(j, i)

\* The intervals in order, those that touch merged into one.
UnionDuration(intervals) ==
  LET ordered == {i \in intervals : i[2] >= i[1]}
      first == FirstInterval(ordered)
      last == MapThenFoldSet(LAMBDA i, acc : Merged(acc, i), [total |-> 0, start |-> first[1], end |-> first[2]],
                             LAMBDA i : i, LastInterval, ordered \ {first})
  IN IF ordered = {} THEN 0 ELSE last.total + last.end - last.start

LowerInterval(r) == <<StartMax(r), Larger(StartMax(r), EndMin(r))>>
UpperInterval(r) == <<StartMin(r), Larger(StartMin(r), EndMax(r))>>

\* For ranges that are all usable.
DurationBounds(ranges) ==
  IF \A r \in ranges : Exact(r)
  THEN LET months == UnionDuration({<<StartMin(r), EndMin(r)>> : r \in ranges}) IN <<months, months>>
  ELSE <<UnionDuration({LowerInterval(r) : r \in ranges}),
         UnionDuration({UpperInterval(r) : r \in ranges})>>

-----------------------------------------------------------------------------
\* The months a set of intervals covers, one by one.
Covered(intervals) == UNION {i[1]..i[2] - 1 : i \in intervals}

\* The intervals a range may stand for.
Meanings(r) == {i \in (StartMin(r)..StartMax(r)) \X (EndMin(r)..EndMax(r)) : i[1] <= i[2]}

\* The bounds of _build_fact for one range are those of duration_bounds_for_keys, which
\* reads the endpoints again from what was stored.
BoundsAgree(ranges) == \A r \in ranges : FactBounds(r) = DurationBounds({r})

\* The merge counts every covered month once: ranges that overlap, touch or contain one
\* another included.
UnionCountsMonths(ranges) ==
  LET all == {UpperInterval(r) : r \in ranges} IN UnionDuration(all) = Cardinality(Covered(all))

\* Whatever months the years alone stand for, the covered months are within the bounds.
DurationBounded(ranges) ==
  LET bounds == DurationBounds(ranges)
  IN \A meant \in [ranges -> UNION {Meanings(r) : r \in ranges}] :
       (\A r \in ranges : meant[r] \in Meanings(r))
         => Cardinality(Covered({meant[r] : r \in ranges})) \in bounds[1]..bounds[2]
=============================================================================
