------------------------------ MODULE FactPlan ------------------------------
(* job_evaluation_plan_service, 4.0: the plan that four requests to the model make  *)
(* of a job's source units: facts are extracted, their coverage is reviewed, what   *)
(* the review finds is repaired once, and the facts are grouped in criteria.        *)
EXTENDS Naturals, Sequences, FiniteSets, SequencesExt, FiniteSetsExt, ModelCalls

CONSTANTS
  Units,      \* the source units in order: [field, quotes, signal]; a quote is a number
  MaxFacts,   \* the limit on facts; bound: small in the runs
  FewFacts, ManyFacts,  \* 4 and 30; bounds of the runs
  OutputTooLarge(_, _)  \* facts and criteria that are too long, written as JSON

UnitIds == 1..Len(Units)

ASSUME PlanAssumption == MaxFacts \in Nat

(***************************************************************************)
(* Facts: [category, priority, sources], a source being a <<unit, quote>>. *)
(***************************************************************************)
UnitsOf(sources) == {s[1] : s \in sources}
QuotesOf(sources) == {s[2] : s \in sources}
Found(s) == s[1] \in UnitIds /\ s[2] \in Units[s[1]].quotes

FieldPriority == [responsibilities |-> 0, preferred |-> 1, requirements |-> 2]
Priority(sources) == Max({FieldPriority[Units[u].field] : u \in UnitsOf(sources)})

\* A group joins the first one of its category that shares a quote with it.
MergedGroups(groups, g) ==
  LET at == SelectInSeq(groups, LAMBDA m : m.category = g.category /\ QuotesOf(m.sources) \cap QuotesOf(g.sources) # {})
  IN IF at = 0 THEN Append(groups, g) ELSE [groups EXCEPT ![at].sources = @ \cup g.sources]

FactKey(g) == <<Min(UnitsOf(g.sources)), Min(QuotesOf(g.sources)), g.category>>
FactBefore(g, h) ==
  \E i \in 1..3 : FactKey(g)[i] < FactKey(h)[i] /\ \A j \in 1..i - 1 : FactKey(g)[j] = FactKey(h)[j]

\* One more fact, behind those that do not come after it.
Placed(sorted, g) ==
  InsertAt(sorted, 1 + Cardinality({i \in 1..Len(sorted) : ~FactBefore(g, sorted[i])}), g)

\* _stable_v4_facts_from_groups: merged, stably sorted, numbered
Facts(groups) ==
  LET sorted == FoldLeft(Placed, <<>>, FoldLeft(MergedGroups, <<>>, groups))
  IN [i \in 1..Len(sorted) |->
        [category |-> sorted[i].category, priority |-> Priority(sorted[i].sources), sources |-> sorted[i].sources]]

FactsIn(facts, u) == {i \in 1..Len(facts) : u \in UnitsOf(facts[i].sources)}
Pairs(facts) == UNION {facts[i].sources : i \in 1..Len(facts)}

(***************************************************************************)
(* An answer: [large, first, second, valid], that is whether the request   *)
(* is over its limit, the replies to it and whether the content has its    *)
(* schema, with what the content says.  A review of a unit is              *)
(* [candidates, reason, codes].                                            *)
(***************************************************************************)
Source == Nat \X Nat
Candidate == [category : Nat, sources : SUBSET Source]
Review == [candidates : SUBSET Nat, reason : BOOLEAN, codes : SUBSET STRING]
Finding == [units : SUBSET Nat, facts : SUBSET Nat]

\* A run: the answers to the requests, whatever their content says.
IsRun(run) ==
  /\ run.extraction.candidates \in Seq(Candidate)
  /\ run.extraction.reviews \in [DOMAIN run.extraction.reviews -> Review]
  /\ run.coverage.findings \in Seq(Finding)
  /\ run.repair.candidates \in Seq([category : Nat, sources : SUBSET Source, into : Nat])
  /\ run.repair.reviews \in [DOMAIN run.repair.reviews -> Review]

\* A review either names candidates or gives a reason, and its codes agree.
ReviewFormed(review) ==
  /\ review.candidates = {} <=> review.reason
  /\ (IF review.reason THEN "ambiguous_requirement" ELSE "non_evaluation_content") \notin review.codes

\* AIRequirementFactExtractionOutput and AIRequirementLocalRepairOutput, identifiers aside
OutputFormed(out) ==
  /\ out.reviews # <<>> /\ \A u \in DOMAIN out.reviews : ReviewFormed(out.reviews[u])
  /\ \A i \in 1..Len(out.candidates) : out.candidates[i].sources # {}

\* AIRequirementCoverageReviewOutput: a status that agrees with the findings is left out
CoverageFormed(findings) == \A f \in Range(findings) : f.units # {}

\* AIEvaluationCriterionGroupingOutput
GroupingFormed(criteria) == criteria # <<>> /\ \A c \in Range(criteria) : c # <<>> /\ IsInjective(c)

\* The candidates are those that the reviews name, each one quoting the units that name it.
Cites(out) ==
  /\ UNION {out.reviews[u].candidates : u \in DOMAIN out.reviews} = 1..Len(out.candidates)
  /\ \A i \in 1..Len(out.candidates) :
       /\ \A s \in out.candidates[i].sources : Found(s)
       /\ UnitsOf(out.candidates[i].sources) = {u \in DOMAIN out.reviews : i \in out.reviews[u].candidates}

CountFault(facts) ==
  IF facts = <<>> THEN "NO_FACTS" ELSE IF Len(facts) > MaxFacts THEN "FACT_LIMIT_EXCEEDED" ELSE "none"

\* _rebuild_v4_source_review: a unit without facts and without a reason is refused
ReviewFault(facts, reviews) ==
  IF \E u \in UnitIds : FactsIn(facts, u) = {} /\ ~reviews[u].reason THEN "REVIEW_LOST" ELSE "none"

FirstFault(faults) == LET at == SelectInSeq(faults, LAMBDA f : f # "none") IN IF at = 0 THEN "none" ELSE faults[at]

\* _build_v4_extracted_facts
ExtractionFault(out) ==
  IF ~OutputFormed(out) THEN "INVALID_MODEL_OUTPUT"
  ELSE IF DOMAIN out.reviews # UnitIds THEN "SOURCE_REVIEW_INCOMPLETE"
  ELSE IF ~Cites(out) THEN "FACT_REFERENCE_INVALID"
  ELSE FirstFault(<<ReviewFault(Facts(out.candidates), out.reviews), CountFault(Facts(out.candidates))>>)

\* _validate_v4_coverage_findings; a finding is [units, facts]
CoverageFault(facts, findings) ==
  IF ~CoverageFormed(findings) THEN "INVALID_MODEL_OUTPUT"
  ELSE IF \E f \in Range(findings) : ~(f.units \subseteq UnitIds /\ f.facts \subseteq 1..Len(facts))
  THEN "COVERAGE_INVALID" ELSE "none"

FailedUnits(findings) == UNION {f.units : f \in Range(findings)}
Related(facts, findings) ==
  (UNION {f.facts : f \in Range(findings)})
  \cup {i \in 1..Len(facts) : UnitsOf(facts[i].sources) \cap FailedUnits(findings) # {}}

Retained(sources, failed) == {s \in sources : s[1] \notin failed}

\* An old fact that has sources left, and a candidate that is merged into none.
WithOld(groups, g) == IF g.sources = {} THEN groups ELSE Append(groups, g)
WithNew(groups, c) ==
  IF c.into # 0 THEN groups ELSE Append(groups, [category |-> c.category, sources |-> c.sources])

\* The old facts without what they quote of the failed units, the candidates that merge
\* into one added to it, the category of the last one taken; then the other candidates.
RepairedGroups(facts, findings, out) ==
  LET failed == FailedUnits(findings)
      Into(i) == {k \in 1..Len(out.candidates) : out.candidates[k].into = i}
      old == [i \in 1..Len(facts) |->
                [category |-> IF Into(i) = {} THEN facts[i].category ELSE out.candidates[Max(Into(i))].category,
                 sources |-> Retained(facts[i].sources, failed) \cup UNION {out.candidates[k].sources : k \in Into(i)}]]
  IN FoldLeft(WithNew, FoldLeft(WithOld, <<>>, old), out.candidates)

RepairedReviews(reviews, out) == [u \in UnitIds |-> IF u \in DOMAIN out.reviews THEN out.reviews[u] ELSE reviews[u]]

\* repair_v4_source_units
RepairFault(facts, reviews, findings, out) ==
  IF ~OutputFormed(out) THEN "INVALID_MODEL_OUTPUT"
  ELSE IF out.unresolved # {} \/ out.resolved # 1..Len(findings) THEN "REPAIR_UNRESOLVED"
  ELSE IF \/ DOMAIN out.reviews # FailedUnits(findings)
          \/ \E c \in Range(out.candidates) : \/ c.into \notin Related(facts, findings) \cup {0}
                                               \/ ~(UnitsOf(c.sources) \subseteq FailedUnits(findings))
       THEN "REPAIR_SCOPE_INVALID"
  ELSE IF ~Cites(out) THEN "REPAIR_INVALID"
  ELSE LET repaired == Facts(RepairedGroups(facts, findings, out))
       IN FirstFault(<<CountFault(repaired), ReviewFault(repaired, RepairedReviews(reviews, out))>>)

\* _build_v4_criteria; a criterion is a sequence of facts
GroupingFault(facts, criteria) ==
  LET grouped == FlattenSeq(criteria)
  IN IF ~GroupingFormed(criteria) THEN "INVALID_MODEL_OUTPUT"
     ELSE IF ~IsInjective(grouped) \/ Range(grouped) # 1..Len(facts) THEN "GROUPING_INVALID" ELSE "none"

(***************************************************************************)
(* The generation: the error, the calls recorded, and what is made so far. *)
(***************************************************************************)
Start == [error |-> "none", calls |-> <<>>, facts |-> <<>>, reviews |-> <<>>, signals |-> <<>>, criteria |-> <<>>]
Recorded(s, role, result, retries) ==
  [s EXCEPT !.calls = Append(@, [role |-> role, result |-> result, retries |-> retries])]

\* A fault that the service finds marks the last call recorded.
Checked(s, fault) ==
  IF fault = "none" THEN s
  ELSE [s EXCEPT !.error = fault, !.calls = [i \in DOMAIN @ |-> IF i = Len(@) THEN [@[i] EXCEPT !.result = "failed"] ELSE @[i]]]

\* _invoke_v4_role: one record for both requests; a request that is too large makes none
Invoked(s, role, out) ==
  LET retried == Retryable(ErrorOf(out.first))
      error == ErrorOf(IF retried THEN out.second ELSE out.first)
      code == IF error = "none" /\ ~out.valid THEN "INVALID_MODEL_OUTPUT" ELSE error
  IN IF out.large THEN Checked(s, "INPUT_TOO_LARGE")
     ELSE [Recorded(s, role, IF code = "none" THEN "succeeded" ELSE "failed", IF retried THEN 1 ELSE 0)
             EXCEPT !.error = code]

\* _ensure_v4_input_current: the job changed meanwhile; no call is to blame
Current(s, changed) == IF changed THEN [s EXCEPT !.error = "OUTDATED"] ELSE s

Codes(reviews) == [u \in DOMAIN reviews |-> reviews[u].codes]

\* What a bug would do: the signals of the first review kept for a repaired unit.
BugResigned(signals, out) == signals

\* warning_signals.update
Resigned(signals, out) ==
  [u \in DOMAIN signals \cup DOMAIN out.reviews |-> IF u \in DOMAIN out.reviews THEN out.reviews[u].codes ELSE signals[u]]

\* Each of the four steps asks for one answer and checks it; the job may have changed meanwhile.
Extracted(s, run) ==
  LET asked == Invoked(s, "fact_extraction", run.extraction)
      checked == IF asked.error = "none" THEN Checked(asked, ExtractionFault(run.extraction)) ELSE asked
  IN IF checked.error # "none" THEN checked
     ELSE Current([checked EXCEPT !.facts = Facts(run.extraction.candidates), !.reviews = run.extraction.reviews,
                                  !.signals = Codes(run.extraction.reviews)], run.changed = 1)

\* The check that the job is current comes after the repair, when there is one.
Reviewed(s, run) ==
  LET asked == Invoked(s, "coverage_review", run.coverage)
      checked == IF asked.error = "none" THEN Checked(asked, CoverageFault(s.facts, run.coverage.findings)) ELSE asked
  IN IF checked.error = "none" /\ run.coverage.findings = <<>> THEN Current(checked, run.changed = 2) ELSE checked

Repaired4(s, run) ==
  LET findings == run.coverage.findings
      asked == Invoked(s, "local_repair", run.repair)
      checked == IF asked.error = "none"
                 THEN Checked(asked, RepairFault(s.facts, s.reviews, findings, run.repair)) ELSE asked
  IN IF checked.error # "none" THEN checked
     ELSE Current([checked EXCEPT !.facts = Facts(RepairedGroups(s.facts, findings, run.repair)),
                                  !.reviews = RepairedReviews(@, run.repair),
                                  !.signals = Resigned(@, run.repair)], run.changed = 2)

\* The plan is measured last of all (_validate_v4_output_sizes).
Grouped(s, run, criteria) ==
  LET asked == Invoked(s, "criterion_grouping", run.grouping)
      checked == IF asked.error = "none" THEN Checked(asked, GroupingFault(s.facts, criteria)) ELSE asked
      current == Current([checked EXCEPT !.criteria = criteria], run.changed = 3)
  IN IF checked.error # "none" THEN checked
     ELSE IF current.error = "none" THEN Checked(current, IF OutputTooLarge(s.facts, criteria) THEN "OUTPUT_TOO_LARGE" ELSE "none")
     ELSE current

\* The role of the last call, and whether all that the review asks for has been asked.
Asked(s) == IF s.calls = <<>> THEN "none" ELSE Last(s.calls).role
Made(s) == s.error = "none" /\ Asked(s) = "criterion_grouping"

\* _build_v4_warnings: [code, units, facts]
Warning(code, units, facts) == [code |-> code, units |-> units, facts |-> facts]
AgainstField(u) == <<Units[u].field, Units[u].signal>> \in {<<"requirements", "weak">>, <<"preferred", "strong">>}
PlanWarnings(s) ==
  LET used == {u \in UnitIds : FactsIn(s.facts, u) # {}}
      mixed == {i \in 1..Len(s.facts) : Cardinality({Units[u].field : u \in UnitsOf(s.facts[i].sources)}) > 1}
      against == {u \in used : AgainstField(u)}
  IN {Warning(code, used, 1..Len(s.facts)) : code \in
        (IF Len(s.facts) <= FewFacts THEN {"limited_basis"} ELSE IF Len(s.facts) > ManyFacts THEN {"overly_broad_jd"} ELSE {})}
     \cup (UNION {{Warning(code, {u}, FactsIn(s.facts, u)) : code \in s.signals[u]} : u \in DOMAIN s.signals})
     \cup (IF mixed \cup against = {} THEN {}
           ELSE {Warning("conflicting_requirements",
                         against \cup UNION {UnitsOf(s.facts[i].sources) : i \in mixed},
                         mixed \cup UNION {FactsIn(s.facts, u) : u \in against})})

(***************************************************************************)
(* What the plan meets next.                                               *)
(***************************************************************************)
Assigned(s, i) ==
  Cardinality({at \in (1..Len(s.criteria)) \X (1..Len(s.facts)) :
                 at[2] <= Len(s.criteria[at[1]]) /\ s.criteria[at[1]][at[2]] = i})

\* JobEvaluationPlanSourceReviewUnitV4: the rebuilt review of a unit
ReviewAccepted(s, u) == IF s.reviews[u].reason THEN FactsIn(s.facts, u) = {} ELSE FactsIn(s.facts, u) # {}

\* _validate_v4_fact_graph
GraphAccepted(s) ==
  /\ s.facts # <<>> /\ s.criteria # <<>> /\ DOMAIN s.reviews = UnitIds
  /\ UNION {Range(c) : c \in Range(s.criteria)} = 1..Len(s.facts)
  /\ \A u \in UnitIds : ReviewAccepted(s, u)

\* A 4.0 screening's _prepare_inputs and _validate_fact_sources
ScreeningTakesFacts(s) ==
  \A i \in 1..Len(s.facts) :
    /\ Assigned(s, i) = 1
    /\ s.facts[i].sources # {} /\ \A x \in s.facts[i].sources : Found(x)
    /\ s.facts[i].priority = Priority(s.facts[i].sources)

-----------------------------------------------------------------------------
\* A plan that is made is accepted by the plan's own validator and by a 4.0 screening:
\* every fact is in one criterion, quotes its units, and has the priority of its fields;
\* every unit is used or excluded, not both.
FactPlanUsable(s) == Made(s) => GraphAccepted(s) /\ ScreeningTakesFacts(s)

\* A repair replaces what is said of the units that failed, and nothing said of another.
RepairLocal(s, run) ==
  LET failed == FailedUnits(run.coverage.findings)
  IN Made(s) /\ run.coverage.findings # <<>> =>
       Pairs(s.facts) = {x \in Pairs(Facts(run.extraction.candidates)) : x[1] \notin failed}
                        \cup UNION {c.sources : c \in Range(run.repair.candidates)}

\* The record of the calls names the roles in order, and none but the last one failed: it
\* did when the generation ended in an error, except that no call is blamed for a job that
\* changed, nor when the first request was too large to make.
CallsRecorded(s, run) ==
  LET Failures == {i \in 1..Len(s.calls) : s.calls[i].result = "failed"}
      roles == [i \in 1..Len(s.calls) |-> s.calls[i].role]
      full == IF run.coverage.findings = <<>> THEN <<"fact_extraction", "coverage_review", "criterion_grouping">>
              ELSE <<"fact_extraction", "coverage_review", "local_repair", "criterion_grouping">>
  IN /\ IsPrefix(roles, full)
     /\ Made(s) => roles = full
     /\ Failures = IF s.error \in {"none", "OUTDATED"} \/ s.calls = <<>> THEN {} ELSE {Len(s.calls)}

\* What the warnings say of a unit is true of the plan that carries them: an ambiguous unit
\* has facts, a unit that holds nothing to evaluate has none.
WarningsTrue(s) ==
  Made(s) => \A w \in PlanWarnings(s) :
    /\ w.units \subseteq UnitIds /\ w.facts \subseteq 1..Len(s.facts)
    /\ w.code = "ambiguous_requirement" => w.facts # {}
    /\ w.code = "non_evaluation_content" => w.facts = {}

\* No unit is left without facts and without a reason: merging facts, within an answer or
\* after a repair, never takes the last fact of a unit.
ReviewKept(s) == s.error # "REVIEW_LOST"
=============================================================================
