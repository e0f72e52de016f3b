----------------------------- MODULE Screening -----------------------------
(***************************************************************************)
(* AI screening (services/screening_service.py): the durable runs of        *)
(* screening_runs, the leased workers that execute them, the reports they  *)
(* store, and the hooks other services call after their own commits.       *)
(*                                                                         *)
(* A committed transaction is a step.  What a handler keeps in memory from *)
(* one transaction to the next (a worker's input, a batch's view of its    *)
(* job, a hook still to be called) is part of the state.                   *)
(***************************************************************************)
EXTENDS Integers, FiniteSets

CONSTANTS
  Apps,         \* applications, each with two resumes of its candidate
  Jobs,         \* jobs
  JobOf,        \* the job of each application
  Workers,      \* screening workers
  NoWorker,     \* lease_owner IS NULL
  NoApp,        \* the application of a row that does not exist yet
  CallsCovered, \* model calls that end within SCREENING_WORKER_LEASE_SECONDS
  HooksFail,    \* may a hook's exception be swallowed?
  MaxRuns,      \* bound: rows that may ever exist
  HrBudget,     \* bound: HR actions on jobs, plans, resumes and applications
  FaultBudget   \* bound: crashes, stalls, refused commits, hooks that fail

ASSUME ConstantsOK ==
  /\ JobOf \in [Apps -> Jobs]
  /\ NoWorker \notin Workers /\ NoApp \notin Apps
  /\ HooksFail \in BOOLEAN
  /\ {CallsCovered, MaxRuns, HrBudget, FaultBudget} \subseteq Nat

VARIABLES
  job,      \* open, and the version of the text the plan is made from
  plan,     \* the job's latest plan
  text,     \* resumes whose raw_text is stored
  app,      \* the application rows
  run,      \* screening_runs, by id
  created,  \* ids 1..created exist
  report,   \* the current report of each application
  wk,       \* what each worker is doing
  todo,     \* calls promised to run after somebody's commit
  batch,    \* a batch reassessment under way: the job as its session holds it
  hrLeft, faultsLeft

vars == <<job, plan, text, app, run, created, report, wk, todo, batch, hrLeft, faultsLeft>>
inputs == <<job, plan, text>>

RunIds == 1..MaxRuns
Resumes == {1, 2}
Waiting == {"waiting_resume", "waiting_plan", "paused"}
NotStarted == Waiting \cup {"queued"}
Open == NotStarted \cup {"running"}
Ended == {"succeeded", "failed"}
Versions == 0..HrBudget + 1

Job == [open : BOOLEAN, jd : Versions]
\* "draft" stands for generating, failed and pending_confirmation.
Plan == [id : Versions, jd : Versions, status : {"none", "draft", "ready", "outdated"}]
Fingerprint == [jd : Versions, plan : Versions, state : {"none", "draft", "ready", "outdated"},
                resume : Resumes, text : BOOLEAN]
NoInput == [jd |-> 0, plan |-> 0, state |-> "none", resume |-> 1, text |-> FALSE]

Application == [active : BOOLEAN, decision : {"pending", "passed", "rejected"},
                stage : {"applied", "hr_review", "screening_passed", "rejected"},
                resume : Resumes]

\* over: lease_expires_at lies in the past.
Row == [app : Apps \cup {NoApp}, status : Open \cup Ended \cup {"absent"},
        reason : {"none", "plan", "job_closed"}, auto : BOOLEAN, input : Fingerprint,
        owner : Workers \cup {NoWorker}, over : BOOLEAN, superseded : BOOLEAN]
AbsentRow == [app |-> NoApp, status |-> "absent", reason |-> "none", auto |-> TRUE,
              input |-> NoInput, owner |-> NoWorker, over |-> FALSE, superseded |-> FALSE]

Report == [exists : BOOLEAN, outdated : BOOLEAN, input : Fingerprint]
NoReport == [exists |-> FALSE, outdated |-> FALSE, input |-> NoInput]

Worker == [pc : {"idle", "read", "refuse", "call", "repair", "save", "fail"},
           run : RunIds \cup {0}, input : Fingerprint, seen : Application,
           calls : 0..3, retried : BOOLEAN]
NewApplication == [active |-> TRUE, decision |-> "pending", stage |-> "applied", resume |-> 1]
Idle == [pc |-> "idle", run |-> 0, input |-> NoInput, seen |-> NewApplication,
         calls |-> 0, retried |-> FALSE]

AppCalls == {"commit", "extract", "process", "plan", "text", "reconcile"}
JobCalls == {"generate", "outdate", "closed", "reopened"}
NoBatch == [left |-> {}, view |-> [open |-> FALSE, jd |-> 0], fresh |-> FALSE]

\* HR entered the application with a resume, or the candidate did and a processing
\* worker will extract it.
Init ==
  /\ job = [j \in Jobs |-> [open |-> TRUE, jd |-> 1]]
  /\ plan = [j \in Jobs |-> [id |-> 0, jd |-> 0, status |-> "none"]]
  /\ \E entered \in SUBSET Apps :
       /\ todo = {<<"commit", a>> : a \in entered} \cup {<<"extract", a>> : a \in Apps \ entered}
                   \cup {<<"generate", j>> : j \in Jobs}
       /\ \E parsed \in SUBSET entered : text = [a \in Apps |-> IF a \in parsed THEN {1} ELSE {}]
  /\ app = [a \in Apps |-> NewApplication]
  /\ run = [r \in RunIds |-> AbsentRow]
  /\ created = 0
  /\ report = [a \in Apps |-> NoReport]
  /\ wk = [w \in Workers |-> Idle]
  /\ batch = NoBatch
  /\ hrLeft = HrBudget
  /\ faultsLeft = FaultBudget

-----------------------------------------------------------------------------
(* The input of a screening *)

\* _classify_v5_plan
PlanReady(jb, j) == plan[j].status = "ready" /\ plan[j].jd = jb.jd

\* _build_context: the fingerprint, ...
InputOf(jb, a) ==
  LET j == JobOf[a]
  IN  [jd |-> jb.jd, plan |-> plan[j].id, state |-> plan[j].status,
       resume |-> app[a].resume, text |-> app[a].resume \in text[a]]

\* ... and the status a run with this input starts in.
Desired(jb, a) ==
  IF ~jb.open THEN "paused"
  ELSE IF app[a].resume \notin text[a] THEN "waiting_resume"
  ELSE IF PlanReady(jb, JobOf[a]) THEN "queued" ELSE "waiting_plan"

ReasonFor(status) == CASE status = "paused" -> "job_closed"
                       [] status = "waiting_plan" -> "plan"
                       [] OTHER -> "none"

\* _reconcile_report_outdated: the resume, the id of the current plan, and the job text.
ReportFits(jb, a) ==
  LET j == JobOf[a]
  IN  /\ report[a].input.resume = app[a].resume
      /\ plan[j].status \in {"draft", "ready"}
      /\ report[a].input.plan = plan[j].id /\ report[a].input.jd = jb.jd

Reconciled(jb, a) ==
  IF report[a].exists /\ ~ReportFits(jb, a)
  THEN [report[a] EXCEPT !.outdated = TRUE] ELSE report[a]

RunsOf(a, statuses) == {r \in RunIds : run[r].app = a /\ run[r].status \in statuses}

BugFindsByInput(a, input) == {r \in RunsOf(a, Open) : run[r].input = input}
\* _find_nonterminal_run
Existing(a, input) == RunsOf(a, Open)

WithInput(row, status, input) ==
  [row EXCEPT !.status = status, !.reason = ReasonFor(status), !.input = input]

Failed(row, superseded) ==
  [row EXCEPT !.status = "failed", !.reason = "none", !.owner = NoWorker, !.over = FALSE,
              !.superseded = superseded]

-----------------------------------------------------------------------------
(* trigger *)

Reusable(jb, a, input) ==
  report[a].exists /\ ~Reconciled(jb, a).outdated /\ report[a].input = input

\* The transaction under the application's lock; jb is the job as the session has it.
Trigger(a, jb, force, auto, closedToo) ==
  LET input == InputOf(jb, a)
      status == Desired(jb, a)
  IN  IF ~app[a].active \/ (status = "paused" /\ ~closedToo)
      THEN UNCHANGED <<run, created, report>>
      ELSE /\ report' = [report EXCEPT ![a] = Reconciled(jb, a)]
           /\ IF (~force /\ Reusable(jb, a, input)) \/ Existing(a, input) # {}
              THEN UNCHANGED <<run, created>>
              ELSE /\ created < MaxRuns
                   /\ created' = created + 1
                   /\ run' = [run EXCEPT ![created + 1] =
                                WithInput([AbsentRow EXCEPT !.app = a, !.auto = auto],
                                          status, input)]

\* after_application_commit, and the processing worker's trigger after its extraction
TriggerAfterCommit(a) ==
  /\ \E call \in {"commit", "process"} :
       /\ <<call, a>> \in todo
       /\ todo' = todo \ {<<call, a>>}
       /\ Trigger(a, job[JobOf[a]], FALSE, TRUE, call = "commit")
  /\ UNCHANGED <<inputs, app, wk, batch, hrLeft, faultsLeft>>

\* get_state: whoever looks at the screening of an application marks its report.
GetState(a) ==
  /\ report' = [report EXCEPT ![a] = Reconciled(job[JobOf[a]], a)]
  /\ UNCHANGED <<inputs, app, run, created, wk, todo, batch, hrLeft, faultsLeft>>

HrAction == hrLeft > 0 /\ hrLeft' = hrLeft - 1

\* The two endpoints of one application: without and with force.
HrTrigger(a) ==
  /\ HrAction
  /\ \E force \in BOOLEAN : Trigger(a, job[JobOf[a]], force, ~force, FALSE)
  /\ UNCHANGED <<inputs, app, wk, todo, batch, faultsLeft>>

\* trigger_batch_reassessment: checked once, then one transaction per application.
StartBatch(j) ==
  /\ HrAction
  /\ batch.left = {} /\ job[j].open
  /\ \E chosen \in (SUBSET {a \in Apps : JobOf[a] = j}) \ {{}} :
       /\ Cardinality(chosen) <= 5
       /\ batch' = [left |-> chosen, view |-> job[j], fresh |-> FALSE]
  /\ UNCHANGED <<inputs, app, run, created, report, wk, todo, faultsLeft>>

\* The rollback before the first item expires the job; after that the session keeps the
\* one it read until an item fails.
BatchItem(a) ==
  LET jb == IF batch.fresh THEN batch.view ELSE job[JobOf[a]]
      refused == ~app[a].active \/ ~jb.open
  IN  /\ a \in batch.left
      /\ Trigger(a, jb, TRUE, FALSE, FALSE)
      /\ batch' = [left |-> batch.left \ {a}, view |-> jb,
                   fresh |-> ~refused /\ batch.left # {a}]
      /\ UNCHANGED <<inputs, app, wk, todo, hrLeft, faultsLeft>>

\* switch_current_resume
SwitchResume(a) ==
  /\ HrAction
  /\ app' = [app EXCEPT ![a].resume = 3 - @]
  /\ report' = [report EXCEPT ![a].outdated = report[a].exists]
  /\ run' = [r \in RunIds |->
               IF r \in RunsOf(a, NotStarted) THEN Failed(run[r], TRUE) ELSE run[r]]
  /\ UNCHANGED <<inputs, created, wk, todo, batch, faultsLeft>>

-----------------------------------------------------------------------------
(* Calls after a commit *)

\* An automatic run waits on while the application has a report.
LeftWaiting(a, r) == report[a].exists /\ run[r].auto

\* _reconcile_waiting_run
ReconcileWaiting(a) ==
  LET waiting == RunsOf(a, Waiting)
      jb == job[JobOf[a]]
  IN  IF ~app[a].active \/ waiting = {}
      THEN UNCHANGED run
      ELSE LET r == CHOOSE q \in waiting : \A p \in waiting : p <= q
           IN  IF LeftWaiting(a, r)
               THEN UNCHANGED run
               ELSE run' = [run EXCEPT ![r] =
                      IF RunsOf(a, Open) # {r} THEN Failed(@, TRUE)
                      ELSE WithInput(@, Desired(jb, a), InputOf(jb, a))]

\* after_plan_changed, for one application of its loop
AfterPlanChanged(a) ==
  /\ <<"plan", a>> \in todo
  /\ todo' = todo \ {<<"plan", a>>}
  /\ report' = [report EXCEPT ![a] = Reconciled(job[JobOf[a]], a)]
  /\ IF report[a].exists THEN UNCHANGED run ELSE ReconcileWaiting(a)
  /\ UNCHANGED <<inputs, app, created, wk, batch, hrLeft, faultsLeft>>

\* after_resume_ready, and the loop of after_job_reopened
AfterReady(a) ==
  /\ \E call \in {"text", "reconcile"} :
       <<call, a>> \in todo /\ todo' = todo \ {<<call, a>>}
  /\ ReconcileWaiting(a)
  /\ UNCHANGED <<inputs, app, created, report, wk, batch, hrLeft, faultsLeft>>

AppsOf(j) == {a \in Apps : JobOf[a] = j}

AfterJobClosed(j) ==
  /\ <<"closed", j>> \in todo
  /\ todo' = todo \ {<<"closed", j>>}
  /\ run' = [r \in RunIds |->
               IF run[r].app \in AppsOf(j) /\ run[r].status \in NotStarted \ {"paused"}
               THEN [run[r] EXCEPT !.status = "paused", !.reason = "job_closed"] ELSE run[r]]
  /\ UNCHANGED <<inputs, app, created, report, wk, batch, hrLeft, faultsLeft>>

PausedApps(j) == {a \in AppsOf(j) : RunsOf(a, {"paused"}) # {}}

\* after_job_reopened: the applications are listed first, then reconciled one by one.
AfterJobReopened(j) ==
  /\ <<"reopened", j>> \in todo
  /\ todo' = (todo \ {<<"reopened", j>>}) \cup {<<"reconcile", a>> : a \in PausedApps(j)}
  /\ UNCHANGED <<inputs, app, run, created, report, wk, batch, hrLeft, faultsLeft>>

PlanHooks(j) == {<<"plan", a>> : a \in AppsOf(j)}

\* A confirmed plan of an older text: the database refuses to mark it outdated.
Stuck(j) == plan[j].status = "ready" /\ plan[j].jd # job[j].jd

\* mark_current_plan_outdated_if_input_changed, after the job's edit has been committed; its
\* exception is swallowed, and the hooks with it.
OutdatePlan(j) ==
  /\ <<"outdate", j>> \in todo
  /\ todo' = (todo \ {<<"outdate", j>>}) \cup IF Stuck(j) THEN {} ELSE PlanHooks(j)
  /\ plan' = [plan EXCEPT ![j].status =
                IF @ # "none" /\ plan[j].jd # job[j].jd /\ ~Stuck(j) THEN "outdated" ELSE @]
  /\ UNCHANGED <<job, text, app, run, created, report, wk, batch, hrLeft, faultsLeft>>

HasPlan(j) == plan[j].status \in {"draft", "ready"} /\ plan[j].jd = job[j].jd
NewDraft(j) == [id |-> plan[j].id + 1, jd |-> job[j].jd, status |-> "draft"]

\* generate_evaluation_plan_after_job_commit, once a job has been opened or reopened
GenerateAfterCommit(j) ==
  /\ <<"generate", j>> \in todo
  /\ LET generates == job[j].open /\ ~Stuck(j)
     IN  /\ todo' = (todo \ {<<"generate", j>>}) \cup IF generates THEN PlanHooks(j) ELSE {}
         /\ plan' = IF generates /\ ~HasPlan(j) THEN [plan EXCEPT ![j] = NewDraft(j)] ELSE plan
  /\ UNCHANGED <<job, text, app, run, created, report, wk, batch, hrLeft, faultsLeft>>

\* A processing worker stores the text without telling the screening service.
WorkerExtracts(a) ==
  /\ <<"extract", a>> \in todo
  /\ todo' = (todo \ {<<"extract", a>>}) \cup {<<"process", a>>}
  /\ text' = [text EXCEPT ![a] = @ \cup {1}]
  /\ UNCHANGED <<job, plan, app, run, created, report, wk, batch, hrLeft, faultsLeft>>

-----------------------------------------------------------------------------
(* HR and the other services *)

CloseOrReopen(j) ==
  /\ HrAction
  /\ job' = [job EXCEPT ![j].open = ~@]
  /\ todo' = todo \cup IF job[j].open THEN {<<"closed", j>>}
                       ELSE {<<"reopened", j>>, <<"generate", j>>}
  /\ UNCHANGED <<plan, text, app, run, created, report, wk, batch, faultsLeft>>

\* An edit may leave the fields alone that plans are made from.
EditJob(j) ==
  /\ HrAction
  /\ job[j].open
  /\ job' \in {job, [job EXCEPT ![j].jd = @ + 1]}
  /\ todo' = todo \cup {<<"outdate", j>>}
  /\ UNCHANGED <<plan, text, app, run, created, report, wk, batch, faultsLeft>>

\* HR's requests about the plan do not call _notify_screening_plan_changed: a generation, or
\* a new version of the confirmed plan ...
NewPlan(j) ==
  /\ HrAction
  /\ job[j].open /\ ~Stuck(j) /\ ~(HasPlan(j) /\ plan[j].status = "draft")
  /\ plan' = [plan EXCEPT ![j] = NewDraft(j)]
  /\ UNCHANGED <<job, text, app, run, created, report, wk, todo, batch, faultsLeft>>

\* ... and confirm_current_plan.
ConfirmPlan(j) ==
  /\ job[j].open /\ plan[j].status = "draft"
  /\ plan' = [plan EXCEPT ![j].status = IF HasPlan(j) THEN "ready" ELSE "outdated"]
  /\ UNCHANGED <<job, text, app, run, created, report, wk, todo, batch, hrLeft, faultsLeft>>

\* POST /resumes/{id}/extract-text; the call finds the applications of that resume.
HrExtracts(a) ==
  /\ HrAction
  /\ \E r \in Resumes \ text[a] :
       /\ text' = [text EXCEPT ![a] = @ \cup {r}]
       /\ todo' = IF app[a].resume = r THEN todo \cup {<<"text", a>>} ELSE todo
  /\ UNCHANGED <<job, plan, app, run, created, report, wk, batch, faultsLeft>>

\* pass_screening, reject_screening and undo_rejection
HrDecides(a) ==
  /\ HrAction
  /\ \/ /\ app[a].active /\ app[a].decision = "pending"
        /\ app' = [app EXCEPT ![a].decision = "passed", ![a].stage = "screening_passed"]
     \/ /\ app[a].active
        /\ app' = [app EXCEPT ![a].decision = "rejected", ![a].stage = "rejected",
                              ![a].active = FALSE]
     \/ /\ ~app[a].active
        /\ app' = [app EXCEPT ![a].decision = "pending", ![a].stage = "hr_review",
                              ![a].active = TRUE]
  /\ UNCHANGED <<inputs, run, created, report, wk, todo, batch, faultsLeft>>

-----------------------------------------------------------------------------
(* The worker *)

BugNeverRequeues(row) == row
Requeued(row) ==
  IF row.status = "running" /\ row.over
  THEN [row EXCEPT !.status = "queued", !.owner = NoWorker, !.over = FALSE] ELSE row

\* claim_next_run: expired rows are queued again, then the oldest queued row is taken; the
\* row of a closed job is paused instead.
ClaimNextRun(w) ==
  LET rows == [r \in RunIds |-> Requeued(run[r])]
      queued == {r \in RunIds : rows[r].status = "queued"}
  IN  /\ wk[w].pc = "idle"
      /\ queued # {}
      /\ LET r == CHOOSE q \in queued : \A p \in queued : q <= p
         IN  IF job[JobOf[run[r].app]].open
             THEN /\ run' = [rows EXCEPT ![r].status = "running", ![r].owner = w]
                  /\ wk' = [wk EXCEPT ![w] = [Idle EXCEPT !.pc = "read", !.run = r]]
             ELSE /\ run' = [rows EXCEPT ![r].status = "paused", ![r].reason = "job_closed"]
                  /\ UNCHANGED wk
      /\ UNCHANGED <<inputs, app, created, report, todo, batch, hrLeft, faultsLeft>>

Goto(w, pc) == wk' = [wk EXCEPT ![w].pc = pc]
AppOf(w) == run[wk[w].run].app

\* execute_run up to the rollback before the model call: the session still holds the
\* claimed row, and the application read here when it refuses.
ReadInput(w) ==
  LET a == AppOf(w)
      jb == job[JobOf[a]]
      input == InputOf(jb, a)
      usable == input = run[wk[w].run].input /\ input.text /\ PlanReady(jb, JobOf[a])
  IN  /\ wk[w].pc = "read"
      /\ wk' = [wk EXCEPT ![w].pc = IF usable THEN "call" ELSE "refuse",
                          ![w].input = input, ![w].seen = IF usable THEN @ ELSE app[a]]
      /\ UNCHANGED <<inputs, app, run, created, report, todo, batch, hrLeft, faultsLeft>>

MayRetry(w) == wk[w].pc = "call" /\ ~wk[w].retried

\* evaluate_v5, tried twice: an infrastructure error before the repair is retried once, an
\* invalid output is repaired once, and an error of the repair ends the run.
CallModel(w) ==
  /\ wk[w].pc \in {"call", "repair"}
  /\ \E next \in {"save", "fail", "call", "repair"} :
       /\ next = "call" => MayRetry(w)
       /\ next = "repair" => wk[w].pc = "call"
       /\ wk' = [wk EXCEPT ![w].pc = next, ![w].calls = @ + 1, ![w].retried = @ \/ next = "call"]
  /\ UNCHANGED <<inputs, app, run, created, report, todo, batch, hrLeft, faultsLeft>>

BugNoHandoff(a, seen) == app
BugHandsOverPassed(a, seen) ==
  IF seen.active /\ seen.stage # "hr_review" THEN [app EXCEPT ![a].stage = "hr_review"] ELSE app
\* append_screening_handoff on the application as the session holds it
HandedOff(a, seen) ==
  IF seen.active /\ seen.decision = "pending" /\ seen.stage = "applied"
  THEN [app EXCEPT ![a].stage = "hr_review"] ELSE app

BugSavesUnchecked(w) == TRUE
InputUnchanged(w) == InputOf(job[JobOf[AppOf(w)]], AppOf(w)) = wk[w].input

\* _save_success; the run's own status and owner are not looked at.
SaveSuccess(w) ==
  LET a == AppOf(w)
      r == wk[w].run
  IN  /\ wk[w].pc = "save"
      /\ IF InputUnchanged(w)
         THEN /\ run' = [run EXCEPT ![r] = [Failed(@, FALSE) EXCEPT !.status = "succeeded"]]
              /\ report' = [report EXCEPT ![a] =
                              [exists |-> TRUE, outdated |-> FALSE, input |-> wk[w].input]]
         ELSE /\ run' = [run EXCEPT ![r] = Failed(@, FALSE)]
              /\ UNCHANGED report
      /\ app' = HandedOff(a, app[a])
      /\ wk' = [wk EXCEPT ![w] = Idle]
      /\ UNCHANGED <<inputs, created, todo, batch, hrLeft, faultsLeft>>

\* The application as _mark_failed sees it: locked and read again after a model call, but
\* the object ReadInput left in the session when the run was refused before one.
FailedApp(w) == HandedOff(AppOf(w), IF wk[w].pc = "refuse" THEN wk[w].seen ELSE app[AppOf(w)])

\* ck_applications_terminal_outcome_consistent: hr_review on a rejected application
RefusedByCheck(w) == ~app[AppOf(w)].active /\ FailedApp(w)[AppOf(w)].stage # app[AppOf(w)].stage

\* _mark_failed; when the database refuses, the worker loop forgets the run.
MarkFailed(w) ==
  /\ wk[w].pc \in {"refuse", "fail"}
  /\ IF RefusedByCheck(w) THEN UNCHANGED <<run, app>>
     ELSE run' = [run EXCEPT ![wk[w].run] = Failed(@, FALSE)] /\ app' = FailedApp(w)
  /\ wk' = [wk EXCEPT ![w] = Idle]
  /\ UNCHANGED <<inputs, created, report, todo, batch, hrLeft, faultsLeft>>

-----------------------------------------------------------------------------
(* Faults and time *)

Fault == faultsLeft > 0 /\ faultsLeft' = faultsLeft - 1

\* _save_success raises: rolled back, and the run is marked failed.
SaveRefused(w) ==
  /\ Fault
  /\ wk[w].pc = "save" /\ Goto(w, "fail")
  /\ UNCHANGED <<inputs, app, run, created, report, todo, batch, hrLeft>>

\* The process dies or is cancelled, or an exception reaches the worker loop.
Crash(w) ==
  /\ Fault
  /\ wk[w].pc # "idle"
  /\ wk' = [wk EXCEPT ![w] = Idle]
  /\ UNCHANGED <<inputs, app, run, created, report, todo, batch, hrLeft>>

\* The caller swallows the exception of a call after a commit.
HookFails ==
  /\ HooksFail /\ Fault
  /\ \E call \in todo :
       call[1] \notin {"extract", "process"} /\ todo' = todo \ {call}
  /\ UNCHANGED <<inputs, app, run, created, report, wk, batch, hrLeft>>

Executing(r) == \E w \in Workers : wk[w].run = r /\ wk[w].pc # "idle" /\ run[r].owner = w

\* The worker is in a model call that the lease no longer covers, or past it.
Overrunning(r) ==
  \E w \in Workers :
    /\ wk[w].run = r /\ run[r].owner = w
    /\ wk[w].calls + (IF wk[w].pc \in {"call", "repair"} THEN 1 ELSE 0) > CallsCovered

\* A lease runs out once its worker is gone or overruns it; sooner only by a stall.
LeaseRunsOut(r) ==
  /\ run[r].status = "running" /\ ~run[r].over
  /\ run' = [run EXCEPT ![r].over = TRUE]
  /\ IF Executing(r) /\ ~Overrunning(r) THEN Fault ELSE UNCHANGED faultsLeft
  /\ UNCHANGED <<inputs, app, created, report, wk, todo, batch, hrLeft>>

-----------------------------------------------------------------------------
WorkerStep(w) ==
  ClaimNextRun(w) \/ ReadInput(w) \/ CallModel(w) \/ SaveSuccess(w) \/ MarkFailed(w)

CallAfterCommit(a) == TriggerAfterCommit(a) \/ AfterPlanChanged(a) \/ AfterReady(a) \/ WorkerExtracts(a)
JobCallAfterCommit(j) == AfterJobClosed(j) \/ AfterJobReopened(j) \/ OutdatePlan(j) \/ GenerateAfterCommit(j)

Next ==
  \/ \E w \in Workers : WorkerStep(w) \/ SaveRefused(w) \/ Crash(w)
  \/ \E a \in Apps : CallAfterCommit(a) \/ BatchItem(a) \/ GetState(a)
  \/ \E a \in Apps : HrTrigger(a) \/ SwitchResume(a) \/ HrExtracts(a) \/ HrDecides(a)
  \/ \E j \in Jobs : JobCallAfterCommit(j) \/ StartBatch(j)
  \/ \E j \in Jobs : CloseOrReopen(j) \/ EditJob(j) \/ NewPlan(j) \/ ConfirmPlan(j)
  \/ \E r \in RunIds : LeaseRunsOut(r)
  \/ HookFails

Spec == Init /\ [][Next]_vars

\* Workers poll for ever, every model call ends (it has a timeout), a call promised after
\* a commit is made in the same request, and a lease nobody renews runs out.
FairSpec ==
  /\ Spec
  /\ \A w \in Workers : WF_vars(WorkerStep(w))
  /\ \A a \in Apps : WF_vars(CallAfterCommit(a)) /\ WF_vars(BatchItem(a))
  /\ \A j \in Jobs : WF_vars(JobCallAfterCommit(j))
  /\ \A r \in RunIds : WF_vars(~Executing(r) /\ LeaseRunsOut(r))
-----------------------------------------------------------------------------
(* Properties *)

TypeOK ==
  /\ job \in [Jobs -> Job] /\ plan \in [Jobs -> Plan]
  /\ text \in [Apps -> SUBSET Resumes]
  /\ app \in [Apps -> Application]
  /\ run \in [RunIds -> Row] /\ created \in 0..MaxRuns
  /\ report \in [Apps -> Report]
  /\ wk \in [Workers -> Worker]
  /\ todo \subseteq (AppCalls \X Apps) \cup (JobCalls \X Jobs)
  /\ batch.left \subseteq Apps /\ batch.view \in Job \cup {NoBatch.view} /\ batch.fresh \in BOOLEAN
  /\ hrLeft \in Nat /\ faultsLeft \in Nat

\* An application never has two runs that have not ended, whatever triggers, hooks, batches
\* and workers do at once: the lock on the application and the look at all its open runs
\* suffice, before uq_screening_runs_active_application has to refuse anything.
OneOpenRun ==
  \A q, r \in RunIds :
    run[q].app = run[r].app /\ {run[q].status, run[r].status} \subseteq Open => q = r

\* No order of pauses, reopenings, claims and late results builds a row that the CHECK on
\* waiting_reason refuses, counts a retry too many or leaves a lease on a row nobody runs,
\* and one run of an application is open at most.
RowConstraints ==
  /\ TypeOK
  /\ OneOpenRun
  /\ \A r \in RunIds :
       /\ run[r].reason = "plan" => run[r].status = "waiting_plan"
       /\ run[r].reason = "job_closed" => run[r].status = "paused"
       /\ run[r].owner # NoWorker <=> run[r].status = "running"

\* A result is only stored as current for the resume, the plan and the text the application
\* has at that moment: what changed during the model call is seen.
FitsWhenStored ==
  [][\A a \in Apps : report'[a] # report[a] /\ ~report'[a].outdated
        => ReportFits(job[JobOf[a]], a)']_vars

\* When a worker has ended a run, HR finds the application in review: no order of results,
\* failures and HR decisions leaves it with the untouched ones.
HandoffDone ==
  \A r \in RunIds :
    run[r].status \in Ended /\ ~run[r].superseded =>
      app[run[r].app].stage # "applied" \/ ~app[run[r].app].active

WaitsForPlan(r) ==
  /\ run[r].status = "waiting_plan"
  /\ PlanReady(job[JobOf[run[r].app]], JobOf[run[r].app])
  /\ app[run[r].app].resume \in text[run[r].app]
  /\ app[run[r].app].stage = "applied" /\ app[run[r].app].active

\* Every run that is queued or running stops being so, through crashed workers and leases
\* that run out, however often HR edits, closes or reopens the job.  And the first screening
\* of an application HR has not touched, waiting for a plan that is confirmed, goes on when
\* an edit, an opening or a reopening of the job looks at it again.
RunsEnd ==
  \A r \in RunIds :
    /\ run[r].status \in {"queued", "running"} ~> run[r].status \in Ended \cup {"paused"}
    /\ WaitsForPlan(r) /\ ~report[run[r].app].exists /\ <<"plan", run[r].app>> \in todo
         ~> ~WaitsForPlan(r)

\* A run that waits for the plan goes on once HR has confirmed it (screeningPresentation.ts:111).
WaitingForPlanWakes == \A r \in RunIds : WaitsForPlan(r) ~> ~WaitsForPlan(r)

LatestRow(a) ==
  LET rows == {r \in RunIds : run[r].app = a}
  IN  IF rows = {} THEN AbsentRow ELSE run[CHOOSE r \in rows : \A q \in rows : q <= r]

SeenStatus(row) ==
  CASE row.status = "absent" -> "none"
    [] row.status \in {"waiting_resume", "waiting_plan", "queued"} -> "waiting"
    [] OTHER -> row.status

\* The resume of a run that exists, or of a report that counts; 0 for none.
ResumeIf(exists, input) == IF exists THEN input.resume ELSE 0

\* A worker still executes a run of the application that its lease no longer gives it.
Replaced(a) ==
  \E w \in Workers : wk[w].pc # "idle" /\ AppOf(w) = a /\ run[wk[w].run].owner # w

Contract ==
  INSTANCE ScreeningContract WITH
    NoResume <- 0,
    jobOpen <- [a \in Apps |-> job[JobOf[a]].open],
    current <- [a \in Apps |-> app[a].resume],
    status <- [a \in Apps |-> SeenStatus(LatestRow(a))],
    of <- [a \in Apps |-> ResumeIf(LatestRow(a).app = a, LatestRow(a).input)],
    valid <- [a \in Apps |->
                ResumeIf(report[a].exists /\ ~report[a].outdated, report[a].input)],
    replaced <- [a \in Apps |-> Replaced(a)]

\* Whoever looks only at the applications' latest runs and reports sees the contract: a run
\* is added after the last one ended, it succeeds together with a valid report of the
\* current resume, and it ends for good, unless a worker that lost it comes late.
KeepsContract == Contract!Spec

\* A worker's hand-over never moves an application HR has decided upon, except that of a
\* run it refused before the model call, which trusts the application as it was read.
HrDecisionKept ==
  [][\A a \in Apps :
       app[a].decision # "pending" /\ app'[a].decision = app[a].decision
         /\ ~(\E w \in Workers : wk[w].pc = "refuse" /\ AppOf(w) = a)
       => app'[a].stage = app[a].stage]_vars
=============================================================================
