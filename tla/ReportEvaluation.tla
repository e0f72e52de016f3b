-------------------------- MODULE ReportEvaluation --------------------------
(* screening_evaluation_service, 5.0: what is taken out of a resume before the    *)
(* model sees it, the checks of the report it answers with, and the one repair.   *)
EXTENDS Naturals, Sequences, FiniteSets, SequencesExt, ModelCalls

CONSTANTS
  PlanIds,        \* the criteria of the confirmed plan
  MaxAssessments, \* 30; bound: fewer in the runs
  HeadLines       \* 8; the first lines searched for contact data

ASSUME HeadAssumption == HeadLines \in Nat

(***************************************************************************)
(* The resume: lines of these kinds.                                       *)
(***************************************************************************)
LineKinds == {"blank", "labelled", "photo", "name", "latin", "heading", "contact", "text"}

Only(lines, kinds) == FoldLeft(LAMBDA out, l : IF l \in kinds THEN Append(out, l) ELSE out, <<>>, lines)

Kept(lines) == Only(lines, LineKinds \ {"labelled", "photo"})

ContactSignal(lines) == \E i \in 1..Len(lines) : i <= HeadLines /\ lines[i] \in {"labelled", "contact"}

\* sanitize_resume_text; a contact found inside a line is replaced, runs of blank lines aside
Sanitized(lines) ==
  LET first == SelectInSeq(Kept(lines), LAMBDA l : l # "blank")
      isName == /\ first # 0
                /\ Kept(lines)[first] \in {"name"} \cup (IF ContactSignal(lines) THEN {"latin"} ELSE {})
      named == IF isName THEN RemoveAt(Kept(lines), first) ELSE Kept(lines)
  IN [i \in 1..Len(named) |-> IF named[i] = "contact" THEN "replaced" ELSE named[i]]

\* A Latin name above the contact data is taken out whatever separates the two; no contact
\* data is left, and nothing but at most one name and the lines about the person is lost.
RedactionExact(lines) ==
  LET out == Sanitized(lines)
      names == {"name", "latin"}
      content == Only(lines, LineKinds \ {"blank", "labelled", "photo"})
  IN /\ Range(out) \cap {"labelled", "photo", "contact"} = {}
     /\ Only(out, {"text", "heading"}) = Only(lines, {"text", "heading"})
     /\ Len(Only(lines, names)) - Len(Only(out, names)) \in 0..1
     /\ (content # <<>> /\ content[1] = "latin" /\ Range(lines) \cap {"labelled", "contact"} # {}
         /\ Len(lines) <= HeadLines) => Only(out, names) = Tail(Only(lines, names))

(***************************************************************************)
(* The report: assessments [id, score, evidence, time], findings           *)
(* [ids, evidence] and the text that HR would read.                        *)
(***************************************************************************)
IsReport(report) ==
  /\ report.assessed \in Seq([id : STRING, score : Nat, evidence : BOOLEAN, time : BOOLEAN])
  /\ report.findings \in Seq([ids : Seq(STRING), evidence : BOOLEAN])
  /\ report.text \in {"plain", "unknown", "risky"}

Ids(report) == {report.assessed[i].id : i \in 1..Len(report.assessed)}
Findings(report) == {report.findings[i] : i \in 1..Len(report.findings)}

\* What the schema asks of an assessment, of a finding and of the whole report.
Scored(assessment) == assessment.score > 0 => assessment.evidence
Distinct(finding) == IsInjective(finding.ids)
Sized(report) == Len(report.assessed) \in 1..MaxAssessments

\* _v5_schema_validation_errors; shape is any other fault
SchemaErrors(report) ==
  (IF report.shape = "ok" THEN {} ELSE {report.shape})
  \cup (IF Sized(report) THEN {} ELSE {"SCHEMA_LENGTH_INVALID"})
  \cup (IF \A a \in Range(report.assessed) : Scored(a) THEN {} ELSE {"SCORE_EVIDENCE_CONFLICT"})
  \cup (IF \A f \in Findings(report) : Distinct(f) THEN {} ELSE {"SCHEMA_VALUE_INVALID"})

HighRisk(report) == report.text = "risky"

IdErrors(report) ==
  (IF Len(report.assessed) = Cardinality(Ids(report)) THEN {} ELSE {"CRITERION_ASSESSMENT_DUPLICATE"})
  \cup (IF PlanIds \subseteq Ids(report) THEN {} ELSE {"CRITERION_ASSESSMENT_MISSING"})
  \cup (IF Ids(report) \subseteq PlanIds THEN {} ELSE {"CRITERION_ASSESSMENT_UNKNOWN"})

\* _collect_v5_service_validation_errors
ServiceErrors(report) ==
  IdErrors(report)
  \cup (IF \A f \in Findings(report) : Range(f.ids) \subseteq PlanIds
        THEN {} ELSE {"FINDING_CRITERION_UNKNOWN"})
  \cup (IF \A f \in Findings(report) : f.evidence \/ f.ids # <<>> THEN {} ELSE {"FINDING_REFERENCE_REQUIRED"})
  \cup (IF \A a \in Range(report.assessed) : ~a.time THEN {} ELSE {"TIME_COMPATIBILITY_FIELDS_NONEMPTY"})
  \cup (IF report.text = "unknown" THEN {"UNKNOWN_SEMANTIC_FORBIDDEN"} ELSE {})

\* The checks that refuse a report at the first fault: validate_v5_criterion_cross_reference,
\* _validate_v5_findings, _validate_v5_safety, _validate_v5_compatibility_time_fields.  The
\* tests call them; parse_and_validate_v5_output does not.
Strict(report) ==
  /\ Len(report.assessed) = Cardinality(PlanIds) /\ Ids(report) = PlanIds
  /\ \A i, j \in 1..Len(report.assessed) : report.assessed[i].id = report.assessed[j].id => i = j
  /\ \A f \in Findings(report) : Range(f.ids) \subseteq PlanIds /\ (f.evidence \/ f.ids # <<>>)
  /\ report.text = "plain"
  /\ \A a \in Range(report.assessed) : ~a.time

\* No report can be read out of such an answer: its text is not looked at.
Malformed(answer) == answer.reply \in {"no JSON", "duplicate key"} \/ SchemaErrors(answer.report) # {}

\* parse_and_validate_v5_output; a blank answer is an error of the adapter already
Parsed(answer) ==
  IF Malformed(answer) THEN "repairable"
  ELSE IF HighRisk(answer.report) THEN "invalid"
  ELSE IF ServiceErrors(answer.report) # {} THEN "repairable" ELSE "valid"

(***************************************************************************)
(* evaluate_v5: what becomes of a first and a second answer.  An answer    *)
(* whose reply is an error, or a crash of the adapter, has no content.     *)
(***************************************************************************)
Failed(answer) == answer.reply \notin {"answer", "no JSON", "duplicate key"}
Errored(answer) == IF answer.reply = "crash" THEN "UNEXPECTED" ELSE ErrorOf(answer.reply)

\* _build_v5_audit: the requests counted, and the answers kept
Audit(attempts, answers) ==
  [attempts |-> attempts, repairs |-> IF attempts > 1 THEN 1 ELSE 0, answers |-> answers]
Outcome(result, from, audit) == [result |-> result, from |-> from, audit |-> audit]

Repaired(second) ==
  IF Failed(second) THEN Outcome(Errored(second), 0, Audit(2, 1))
  ELSE Outcome(IF Parsed(second) = "valid" THEN "report" ELSE "INVALID", 2, Audit(2, 2))

\* What a bug would do: a repair whatever is wrong with the first answer.
BugEvaluateV5(first, second) ==
  IF Failed(first) THEN Outcome(Errored(first), 0, Audit(0, 0))
  ELSE IF Parsed(first) = "valid" THEN Outcome("report", 1, Audit(1, 1)) ELSE Repaired(second)

\* An error before any answer carries no audit.
EvaluateV5(first, second) ==
  IF Failed(first) THEN Outcome(Errored(first), 0, Audit(0, 0))
  ELSE CASE Parsed(first) = "valid" -> Outcome("report", 1, Audit(1, 1))
         [] Parsed(first) = "invalid" -> Outcome("INVALID", 1, Audit(1, 1))
         [] OTHER -> Repaired(second)

-----------------------------------------------------------------------------
\* A report of the right form passes parse_and_validate_v5_output (the patterns that refuse
\* outright, then the faults collected for a repair) exactly when it passes the strict checks
\* the tests hold up as the contract of 5.0: what is collected leaves out none of them.
ChecksAgree(report) ==
  SchemaErrors(report) = {} => (Strict(report) <=> ServiceErrors(report) = {} /\ ~HighRisk(report))

\* A report that is stored assesses each criterion of the plan exactly once, no positive
\* score is without evidence, and nothing risky or unknown is in its text.
ReportComplete(first, second) ==
  LET outcome == EvaluateV5(first, second)
      stored == IF outcome.from = 1 THEN first.report ELSE second.report
      Times(id) == Cardinality({i \in 1..Len(stored.assessed) : stored.assessed[i].id = id})
  IN outcome.result = "report" =>
       /\ \A id \in PlanIds : Times(id) = 1
       /\ Ids(stored) = PlanIds
       /\ \A a \in Range(stored.assessed) : a.score > 0 => a.evidence
       /\ stored.text = "plain"

\* What is raised or returned after an answer carries the number of requests made and of
\* answers received: a repair that fails is counted although it brought no answer.
EvaluationAudited(first, second) ==
  LET audit == EvaluateV5(first, second).audit
      asked == IF ~Failed(first) /\ Parsed(first) = "repairable" THEN 1 ELSE 0
  IN ~Failed(first) =>
       /\ audit.attempts = 1 + asked /\ audit.repairs = asked
       /\ audit.answers = 1 + (IF Failed(second) THEN 0 ELSE asked)

\* An answer whose text holds a decision, private data or an injected instruction becomes no
\* report, be it the first one or the repaired one.  Of the right form it ends the evaluation
\* with one request, whatever it gets wrong about the criteria.  It is sent back to the model
\* for a fault of form only: JSON and schema are judged before the text is.
RiskyNeverStored(first, second) ==
  LET outcome == EvaluateV5(first, second)
      Risky(answer) == answer.reply = "answer" /\ HighRisk(answer.report)
  IN /\ Risky(first) => outcome.from # 1 \/ outcome.result # "report"
     /\ Risky(second) => outcome.from # 2 \/ outcome.result # "report"
     /\ Risky(first) => (outcome.audit.attempts = 2 <=> Malformed(first))
     /\ Risky(first) /\ ~Malformed(first) => outcome.result = "INVALID"
=============================================================================
