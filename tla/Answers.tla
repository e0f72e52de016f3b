------------------------------ MODULE Answers -------------------------------
(* The pure parts of the program, each applied to every input of a bounded set:   *)
(* what is read from a resume, and what is made of a model's answer.  A step      *)
(* chooses the input; an invariant says what the algorithm makes of it.  The four *)
(* calls that make a 4.0 plan are steps of their own.                             *)
EXTENDS ExperiencePeriod, ReportEvaluation, PlanContent, FactPlan, ScreeningTags

CONSTANTS
  Resumes, RangeSets, Reports, ReportAnswers,  \* the inputs: bounds of the runs
  JobTexts, JobPhrases, PlanAnswers, FactRuns,
  Drafts, EditedLists, StoredReports,
  Groupings(_)                            \* the criteria a model may make of n facts

ASSUME ResumesAssumption ==
  /\ \A ranges \in RangeSets : IsFiniteSet(ranges) /\ ranges \subseteq Range_
  /\ \A lines \in Resumes : lines \in Seq(LineKinds)

ASSUME ReportsAssumption ==
  /\ \A report \in Reports : IsReport(report)
  /\ \A answer \in ReportAnswers : IsReport(answer.report)
  /\ \A report \in StoredReports : IsStored(report)

ASSUME PlansAssumption ==
  /\ \A job \in JobTexts : IsText(job)
  /\ \A jd \in JobPhrases : IsJob(jd)
  /\ \A answer \in PlanAnswers : answer \in Seq(Criteria) /\ Comparable(Range(answer))
  /\ \A d \in Drafts :
       /\ d.draft \in Seq(Items) /\ d.current \in Seq(Items)
       /\ d.used \subseteq 1..MaxNumber /\ ItemIds(d.current) \subseteq d.used
  /\ \A e \in EditedLists :
       /\ e.items \in Seq(Items) /\ Cardinality(ItemIds(e.items)) = Cardinality(Old(e.items))
       /\ e.first \in Items /\ e.second \in Items

ASSUME RunsAssumption ==
  /\ \A run \in FactRuns : IsRun(run)
  /\ \A n \in 0..MaxFacts : Groupings(n) \subseteq Seq(Seq(Nat))

VARIABLES
  input,
  made       \* what build_v4_plan_content holds: the calls, the facts, the error

Init == input = [kind |-> "none"] /\ made = Start

Waits == input.kind = "none"
Chosen(kind, value) == input' = [kind |-> kind, value |-> value] /\ UNCHANGED made

ReadDates == Waits /\ \E ranges \in RangeSets : Chosen("dates", ranges)
ReadResume == Waits /\ \E lines \in Resumes : Chosen("resume", lines)
CheckReport == Waits /\ \E report \in Reports : Chosen("report", report)
Evaluate == Waits /\ \E first, second \in ReportAnswers : Chosen("evaluation", <<first, second>>)
CutJob == Waits /\ \E job \in JobTexts : Chosen("job", job)
MakePlan == Waits /\ \E answer \in PlanAnswers, jd \in JobPhrases : Chosen("plan", <<answer, jd>>)
Request == Waits /\ \E first, second \in Replies : Chosen("replies", <<first, second>>)
SaveDraft == Waits /\ \E draft \in Drafts, jd \in JobPhrases : Chosen("draft", <<draft, jd>>)
EditList == Waits /\ \E edits \in EditedLists : Chosen("edits", edits)
ListTags == Waits /\ \E report \in StoredReports : Chosen("tags", report)
GenerateFacts == Waits /\ \E run \in FactRuns : Chosen("facts", run)

\* build_v4_plan_content goes on when the last call and the checks of its answer succeeded.
Asks(role) == input.kind = "facts" /\ made.error = "none" /\ Asked(made) = role /\ UNCHANGED input
AskExtraction == Asks("none") /\ made' = Extracted(made, input.value)
AskCoverage == Asks("fact_extraction") /\ made' = Reviewed(made, input.value)
AskRepair ==
  Asks("coverage_review") /\ input.value.coverage.findings # <<>> /\ made' = Repaired4(made, input.value)
AskGrouping ==
  /\ Asks(IF input.value.coverage.findings = <<>> THEN "coverage_review" ELSE "local_repair")
  /\ \E criteria \in Groupings(Len(made.facts)) : made' = Grouped(made, input.value, criteria)

Next ==
  \/ ReadDates \/ ReadResume \/ CheckReport \/ Evaluate \/ CutJob \/ MakePlan
  \/ SaveDraft \/ EditList \/ ListTags \/ Request \/ GenerateFacts
  \/ AskExtraction \/ AskCoverage \/ AskRepair \/ AskGrouping

AnswersSpec == Init /\ [][Next]_<<input, made>>

-----------------------------------------------------------------------------
Each(kind, Holds(_)) == input.kind = kind => Holds(input.value)

\* What is read from a resume: every month of its ranges is counted once and within the
\* bounds that are read again from what was stored, and contact data with the name above
\* it is taken out, and nothing else.
ResumeRead ==
  /\ Each("dates", LAMBDA ranges : UnionCountsMonths(ranges) /\ DurationBounded(ranges) /\ BoundsAgree(ranges))
  /\ Each("resume", RedactionExact)

\* The checks that collect faults refuse the reports that the strict ones, which only tests
\* call, refuse; a report that is stored is complete for the plan; a risky answer is never
\* stored, and sent back for a fault of form only; the audit counts requests and answers,
\* and HR's list names the best strengths.
ReportsSound ==
  /\ Each("report", ChecksAgree)
  /\ Each("evaluation", LAMBDA a :
       ReportComplete(a[1], a[2]) /\ EvaluationAudited(a[1], a[2]) /\ RiskyNeverStored(a[1], a[2]))
  /\ Each("tags", BestNamed)

\* From a job's text to the criteria HR saves: the source units hold the text; the order and
\* the repetitions of the model's answer leave no trace in the plan; a criterion that needs
\* no review is as important as its sources say; what is generated can be used by a screening
\* and saved by HR, and so can what HR saves; edits keep the identifiers of other criteria.
PlansSound ==
  /\ Each("job", SplitKeepsText)
  /\ Each("plan", LAMBDA a : PlanIgnoresOrder(a[1], a[2]) /\ UnreviewedAgrees(a[1], a[2])
                               /\ PlanUsable(a[1], a[2]) /\ PlanEditable(a[1], a[2]))
  /\ Each("draft", LAMBDA a : DraftUsable(a[1].draft, a[1].current, a[1].used, a[2]))
  /\ Each("edits", LAMBDA e : EditsKeepIds(e.items, e.first, e.second))

\* A request that was answered is not made again.
NotAskedTwice == Each("replies", LAMBDA r : RepeatedUnanswered(r[1], r[2]))

\* Through the four calls about a job's facts: what is stored is accepted by its validator
\* and by a screening, a repair changes only what is said of the units that failed, merging
\* takes no unit its last fact, the warnings are true of the facts they are stored with, and
\* the record of the calls says which one failed.
FactsSound ==
  Each("facts", LAMBDA run :
    /\ FactPlanUsable(made) /\ RepairLocal(made, run) /\ ReviewKept(made)
    /\ WarningsTrue(made) /\ CallsRecorded(made, run))
=============================================================================
