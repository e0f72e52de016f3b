------------------------ MODULE ApplicationProcessing ------------------------
(***************************************************************************)
(* The leased queue of application_processing_runs                         *)
(* (services/application_processing_service.py).  Workers claim a row with *)
(* FOR UPDATE SKIP LOCKED, take its resume through text extraction,        *)
(* structuring and AI screening, and write every result back under the     *)
(* lease.  A step of the model is one committed transaction, except that   *)
(* a claim is two: what its SELECT saw, and its COMMIT.                     *)
(*                                                                         *)
(* The screening service, the job's status and HR are the environment; an  *)
(* application has at most one public submission, so a submission stands   *)
(* for its application too.                                                *)
(***************************************************************************)
EXTENDS Integers, FiniteSets

CONSTANTS
  Submissions,   \* public_application_submissions
  Jobs,          \* jobs
  JobOf,         \* the job of each submission
  Unplanned,     \* jobs without a confirmed evaluation plan; the others always have one
  Entered,       \* submissions whose application HR may have entered before
  Workers,       \* worker ids (one uuid per worker process)
  NoWorker,      \* lease_owner IS NULL
  NoSubmission,  \* the submission of a row that does not exist yet
  MaxAttempts,   \* APPLICATION_PROCESSING_MAX_ATTEMPTS
  Retries,       \* APPLICATION_PROCESSING_STEP_INFRASTRUCTURE_RETRIES
  LeaseTerm,     \* APPLICATION_PROCESSING_WORKER_LEASE_SECONDS, in clock ticks
  MaxRuns,       \* bound: rows that may ever exist
  HrBudget,      \* bound: HR actions on jobs, resumes and screenings
  FaultBudget    \* bound: crashes, unexpected errors, leases that run out under a worker

ASSUME ConstantsOK ==
  /\ JobOf \in [Submissions -> Jobs] /\ Unplanned \subseteq Jobs /\ Entered \subseteq Submissions
  /\ NoWorker \notin Workers
  /\ NoSubmission \notin Submissions
  /\ MaxAttempts \in Nat \ {0}
  /\ {Retries, LeaseTerm, MaxRuns, HrBudget, FaultBudget} \subseteq Nat

VARIABLES
  run,      \* the rows, by id
  created,  \* ids 1..created exist
  wk,       \* what each worker process is doing
  tx,       \* the open claim transaction of each worker
  jobOpen,  \* jobs.status = 'open'
  current,  \* which resume applications.current_resume_id names
  resume,   \* what is stored for the submission's resume
  scr,      \* the application's latest screening run and its reports
  hrLeft, faultsLeft

vars == <<run, created, wk, tx, jobOpen, current, resume, scr, hrLeft, faultsLeft>>
env == <<jobOpen, current, scr, hrLeft>>

RunIds == 1..MaxRuns
Steps == {"extract_text", "structure_resume", "trigger_screening",
          "await_screening", "completed"}
Active == {"queued", "running", "waiting_screening"}
Success == {"succeeded", "succeeded_with_warnings"}
Terminal == Success \cup {"failed"}
Statuses == {"absent", "paused"} \cup Active \cup Terminal
Reasons == {"none", "job_closed", "existing_application_resume_choice"}

\* The submission's own resume, or any other resume of the same candidate.
Resumes == {"own", "other"}
\* A screening that no worker takes: its resume has no text, or its job no confirmed plan.
Unready == {"waiting_resume", "waiting_plan"}
ScreeningWaiting == Unready \cup {"queued", "running"}
ScreeningOpen == ScreeningWaiting \cup {"paused"}
NotStarted == ScreeningOpen \ {"running"}

\* A row keeps the lease as the time left: lease_expires_at - now, floored at -1.
Row == [sub : Submissions \cup {NoSubmission}, status : Statuses, step : Steps,
        attempts : 0..MaxAttempts, warned : BOOLEAN, reason : Reasons,
        owner : Workers \cup {NoWorker}, left : -1..LeaseTerm]
AbsentRow == [sub |-> NoSubmission, status |-> "absent", step |-> "extract_text",
              attempts |-> 0, warned |-> FALSE, reason |-> "none",
              owner |-> NoWorker, left |-> 0]

Outs == {"none", "advance", "advance_warned", "wait", "pause_job", "pause_resume",
         "succeed", "fail"}
Worker == [pc : {"idle", "claiming", "renew", "step", "called", "write", "release"},
           run : RunIds \cup {0}, step : Steps, tries : 0..Retries, out : Outs]
Idle == [pc |-> "idle", run |-> 0, step |-> "extract_text", tries |-> 0, out |-> "none"]

\* now is read before the claim's SELECT; age is the time since then.
Claim == [recovered : SUBSET RunIds, age : 0..LeaseTerm + 1]
NoClaim == [recovered |-> {}, age |-> 0]

Screening == [status : {"none", "succeeded", "failed"} \cup ScreeningOpen,
              of : Resumes, valid : Resumes \cup {"none"}, reports : SUBSET Resumes]

Init ==
  /\ run = [r \in RunIds |-> AbsentRow]
  /\ created = 0
  /\ wk = [w \in Workers |-> Idle]
  /\ tx = [w \in Workers |-> NoClaim]
  /\ jobOpen = [j \in Jobs |-> TRUE]
  /\ current = [s \in Submissions |-> "none"]
  /\ resume = [s \in Submissions |-> [text |-> FALSE, draft |-> FALSE]]
  /\ scr = [s \in Submissions |->
              [status |-> "none", of |-> "own", valid |-> "none", reports |-> {}]]
  /\ hrLeft = HrBudget
  /\ faultsLeft = FaultBudget

-----------------------------------------------------------------------------
(* Row updates *)

Unleased(row) == [row EXCEPT !.owner = NoWorker, !.left = 0]
Failed(row) == [Unleased(row) EXCEPT !.status = "failed", !.reason = "none"]

BugRetryForgetsWarning(s, step, warned) ==
  [AbsentRow EXCEPT !.sub = s, !.status = "queued", !.step = step]
NewRow(s, step, warned) ==
  [AbsentRow EXCEPT !.sub = s, !.status = "queued", !.step = step, !.warned = warned]

\* lease_expires_at < now, on a row some worker still holds.
BugExpiresEarly(row) == row.status = "running" /\ row.left <= 0
Expired(row) == row.status = "running" /\ row.left < 0

\* Rows another worker's open claim has locked.
Locked(w) ==
  UNION {tx[v].recovered \cup {wk[v].run} : v \in {u \in Workers \ {w} : wk[u].pc = "claiming"}}

HasActive(rows, s, except) ==
  \E r \in RunIds \ {except} : rows[r].sub = s /\ rows[r].status \in Active

PauseLifted(row) ==
  \/ row.reason = "job_closed" /\ jobOpen[JobOf[row.sub]]
  \/ row.reason = "existing_application_resume_choice" /\ current[row.sub] = "own"

-----------------------------------------------------------------------------
(* claim_next_run *)

NeedsRecovery(row) ==
  \/ Expired(row)
  \/ row.status = "queued" /\ row.attempts >= MaxAttempts

Recovered(row) ==
  IF Expired(row) /\ row.step = "await_screening"
  THEN [Unleased(row) EXCEPT !.status = "waiting_screening"]
  ELSE IF row.attempts >= MaxAttempts
       THEN Failed(row)
       ELSE [Unleased(row) EXCEPT !.status = "queued"]

AfterRecovery(recovered) ==
  [r \in RunIds |-> IF r \in recovered THEN Recovered(run[r]) ELSE run[r]]

Claimable(rows, r) ==
  \/ rows[r].status = "queued" /\ rows[r].attempts < MaxAttempts
  \/ rows[r].status = "waiting_screening"
  \/ /\ rows[r].status = "paused"
     /\ ~HasActive(rows, rows[r].sub, r)
     /\ PauseLifted(rows[r])

ClaimRank(row) == CASE row.status = "queued" -> 0
                    [] row.status = "paused" -> 1
                    [] OTHER -> 2

\* ORDER BY the status class, created_at, id.
Before(rows, q, r) ==
  \/ ClaimRank(rows[q]) < ClaimRank(rows[r])
  \/ ClaimRank(rows[q]) = ClaimRank(rows[r]) /\ q <= r

BugCountsEveryClaim(row, w, left) ==
  [row EXCEPT !.status = "running", !.reason = "none", !.owner = w, !.left = left,
              !.attempts = @ + 1]
Claimed(row, w, left) ==
  [row EXCEPT !.status = "running", !.reason = "none", !.owner = w, !.left = left,
              !.attempts = IF row.status = "queued" THEN @ + 1 ELSE @]

\* Recovery and SELECT ... FOR UPDATE SKIP LOCKED LIMIT 1: nothing is visible to
\* others before the commit, but the rows it touches are locked.  The UPDATEs wait
\* for rows another claim holds; the SELECT skips them.
ClaimSelect(w) ==
  LET recovered == {r \in RunIds : NeedsRecovery(run[r])}
      rows == AfterRecovery(recovered)
      ready == {r \in RunIds \ Locked(w) : Claimable(rows, r)}
  IN  /\ wk[w].pc = "idle"
      /\ recovered \cap Locked(w) = {}
      /\ \/ /\ \E r \in ready :
                 /\ \A q \in ready : Before(rows, r, q)
                 /\ wk' = [wk EXCEPT ![w] = [Idle EXCEPT !.pc = "claiming", !.run = r]]
            /\ tx' = [tx EXCEPT ![w] = [recovered |-> recovered, age |-> 0]]
            /\ UNCHANGED run
         \/ /\ ready = {} /\ recovered # {}
            /\ run' = rows
            /\ UNCHANGED <<wk, tx>>
      /\ UNCHANGED <<created, resume, env, faultsLeft>>

\* uq_application_processing_runs_active_submission refuses a second active row.
BugNoIndex(rows, r) == TRUE
UniqueIndexHolds(rows, r) == ~HasActive(rows, rows[r].sub, r)

ClaimCommit(w) ==
  LET r == wk[w].run
      rows == AfterRecovery(tx[w].recovered)
  IN  /\ wk[w].pc = "claiming"
      /\ \/ /\ UniqueIndexHolds(rows, r)
            /\ run' = [rows EXCEPT ![r] = Claimed(@, w, LeaseTerm - tx[w].age)]
            /\ wk' = [wk EXCEPT ![w].pc = "renew"]
         \/ /\ ~UniqueIndexHolds(rows, r)
            /\ wk' = [wk EXCEPT ![w] = Idle]
            /\ UNCHANGED run
      /\ tx' = [tx EXCEPT ![w] = NoClaim]
      /\ UNCHANGED <<created, resume, env, faultsLeft>>

-----------------------------------------------------------------------------
(* execute_run: what the worker believes is in wk[w]; the row may have moved on *)

\* _owned_run_for_update
Owned(w) ==
  LET row == run[wk[w].run]
  IN  row.status = "running" /\ row.owner = w /\ row.left >= 0

BugWritesUnchecked(w) == wk[w].pc = "write"

\* _advance_owned_run's second check
Writable(w) ==
  /\ Owned(w)
  /\ wk[w].out \in {"advance", "advance_warned"} => run[wk[w].run].step = wk[w].step

NextStep(step) ==
  IF step = "extract_text" THEN "structure_resume" ELSE "trigger_screening"

Advanced(row, warn) ==
  [row EXCEPT !.step = NextStep(@), !.warned = @ \/ warn, !.left = LeaseTerm]

BugPauseKeepsLease(row, reason) ==
  [row EXCEPT !.status = "paused", !.reason = reason]
Paused(row, reason) == [Unleased(row) EXCEPT !.status = "paused", !.reason = reason]

Succeeded(row) ==
  [Unleased(row) EXCEPT !.step = "completed", !.reason = "none",
     !.status = IF row.warned THEN "succeeded_with_warnings" ELSE "succeeded"]

WaitingScreening(row) ==
  [Unleased(row) EXCEPT !.step = "await_screening", !.status = "waiting_screening",
                        !.reason = "none"]

Written(row, out) ==
  CASE out = "advance" -> Advanced(row, FALSE)
    [] out = "advance_warned" -> Advanced(row, TRUE)
    [] out = "wait" -> WaitingScreening(row)
    [] out = "pause_job" -> Paused(row, "job_closed")
    [] out = "pause_resume" -> Paused(row, "existing_application_resume_choice")
    [] out = "succeed" -> Succeeded(row)
    [] OTHER -> Failed(row)

\* A row lock held by an open claim blocks the FOR UPDATE of everyone else.
Unblocked(w) == wk[w].run \notin Locked(w)

AtRenewal(w) ==
  wk[w].pc = "renew" \/ (wk[w].pc = "step" /\ wk[w].step = "structure_resume")

\* _renew_and_read, at the top of every iteration
RenewAndRead(w) ==
  /\ wk[w].pc = "renew" /\ Unblocked(w) /\ Owned(w)
  /\ run' = [run EXCEPT ![wk[w].run].left = LeaseTerm]
  /\ wk' = [wk EXCEPT ![w].pc = "step", ![w].step = run[wk[w].run].step,
                      ![w].tries = 0, ![w].out = "none"]
  /\ UNCHANGED <<created, tx, resume, env, faultsLeft>>

\* _renew_owned_run, before each structuring attempt
RenewBeforeStructure(w) ==
  /\ wk[w].pc = "step" /\ wk[w].step = "structure_resume" /\ Unblocked(w) /\ Owned(w)
  /\ run' = [run EXCEPT ![wk[w].run].left = LeaseTerm]
  /\ wk' = [wk EXCEPT ![w].pc = "called"]
  /\ UNCHANGED <<created, tx, resume, env, faultsLeft>>

\* The owned write that ends a step; advancing starts the next iteration.
WriteOutcome(w) ==
  /\ wk[w].pc = "write" /\ Unblocked(w) /\ Writable(w)
  /\ run' = [run EXCEPT ![wk[w].run] = Written(@, wk[w].out)]
  /\ wk' = [wk EXCEPT ![w] =
              IF wk[w].out \in {"advance", "advance_warned"}
              THEN [@ EXCEPT !.pc = "renew"] ELSE Idle]
  /\ UNCHANGED <<created, tx, resume, env, faultsLeft>>

\* ApplicationProcessingLeaseLostError, caught by the worker loop
LeaseLost(w) ==
  /\ Unblocked(w)
  /\ \/ AtRenewal(w) /\ ~Owned(w)
     \/ wk[w].pc = "write" /\ ~Writable(w)
  /\ wk' = [wk EXCEPT ![w].pc = "release"]
  /\ UNCHANGED <<run, created, tx, resume, env, faultsLeft>>

\* release_for_retry; it does not look at the lease's expiry.
ReleaseForRetry(w) ==
  LET r == wk[w].run
  IN  /\ wk[w].pc = "release" /\ Unblocked(w)
      /\ run' = IF run[r].status = "running" /\ run[r].owner = w
                THEN [run EXCEPT ![r] =
                        IF @.step = "await_screening"
                        THEN [Unleased(@) EXCEPT !.status = "waiting_screening"]
                        ELSE IF @.attempts < MaxAttempts
                             THEN [Unleased(@) EXCEPT !.status = "queued"]
                             ELSE Failed(@)]
                ELSE run
      /\ wk' = [wk EXCEPT ![w] = Idle]
      /\ UNCHANGED <<created, tx, resume, env, faultsLeft>>

-----------------------------------------------------------------------------
(* The steps *)

Decide(w, out) == wk' = [wk EXCEPT ![w].pc = "write", ![w].out = out]

At(w, pc, step) == wk[w].pc = pc /\ wk[w].step = step

\* resume_service.extract_text: a parsed resume is returned as it is, ...
ReadText(w) ==
  /\ At(w, "step", "extract_text")
  /\ IF resume[run[wk[w].run].sub].text
     THEN Decide(w, "advance")
     ELSE wk' = [wk EXCEPT ![w].pc = "called"]
  /\ UNCHANGED <<run, created, tx, resume, env, faultsLeft>>

\* ... otherwise the extractor's result replaces raw_text, a failure clears it.
ExtractText(w) ==
  /\ At(w, "called", "extract_text")
  /\ \E ok \in BOOLEAN :
       /\ resume' = [resume EXCEPT ![run[wk[w].run].sub].text = ok]
       /\ Decide(w, IF ok THEN "advance" ELSE "fail")
  /\ UNCHANGED <<run, created, tx, env, faultsLeft>>

\* resume_structure_service.structure_resume and the retries around it
StructureResume(w) ==
  LET s == run[wk[w].run].sub
  IN  /\ At(w, "called", "structure_resume")
      /\ \/ /\ resume[s].draft \/ resume[s].text
            /\ resume' = [resume EXCEPT ![s].draft = TRUE]
            /\ Decide(w, "advance")
         \/ /\ ~resume[s].draft /\ resume[s].text /\ wk[w].tries < Retries
            /\ wk' = [wk EXCEPT ![w].pc = "step", ![w].tries = @ + 1]
            /\ UNCHANGED resume
         \/ /\ ~resume[s].draft
            /\ Decide(w, "advance_warned")
            /\ UNCHANGED resume
      /\ UNCHANGED <<run, created, tx, env, faultsLeft>>

BugFailedIsDone(status) ==
  CASE status \in {"succeeded", "failed"} -> "succeed"
    [] status = "paused" -> "pause_job"
    [] status = "none" -> "advance"
    [] OTHER -> "wait"

\* _map_screening_run; a screening that does not exist sends the run back.
ScreeningOutcome(status) ==
  CASE status = "succeeded" -> "succeed"
    [] status = "failed" -> "fail"
    [] status = "paused" -> "pause_job"
    [] status = "none" -> "advance"
    [] OTHER -> "wait"

\* The application and the job are read, and the transaction is closed, before
\* screening_service.trigger runs in one of its own.
ReadBeforeTrigger(w) ==
  LET s == run[wk[w].run].sub
  IN  /\ At(w, "step", "trigger_screening")
      /\ IF current[s] # "own" THEN Decide(w, "pause_resume")
         ELSE IF ~jobOpen[JobOf[s]] THEN Decide(w, "pause_job")
         ELSE wk' = [wk EXCEPT ![w].pc = "called"]
      /\ UNCHANGED <<run, created, tx, resume, env, faultsLeft>>

\* _build_context, for an open job: a run is queued once its resume has a text and the job
\* a confirmed plan.  Whether the candidate's other resumes have texts is not known here.
StartsAs(s) ==
  LET ready == IF JobOf[s] \in Unplanned THEN "waiting_plan" ELSE "queued"
  IN  (IF current[s] = "own" /\ resume[s].text THEN {} ELSE {"waiting_resume"})
        \cup (IF current[s] = "own" /\ ~resume[s].text THEN {} ELSE {ready})

NewScreening(s, status, valid) ==
  [scr[s] EXCEPT !.status = status, !.of = current[s], !.valid = valid]

\* screening_service.trigger without force: a report of this very input is reused, then
\* whatever run is not terminal as it is, and only then a run is added.  A report of the
\* current resume may be of another plan or text, and is perhaps marked outdated for it.
TriggerScreening(w) ==
  LET s == run[wk[w].run].sub
  IN  /\ At(w, "called", "trigger_screening")
      /\ \/ /\ Decide(w, "fail")          \* ScreeningServiceError
            /\ UNCHANGED scr
         \/ /\ ~jobOpen[JobOf[s]]         \* ScreeningJobClosedError
            /\ Decide(w, "pause_job")
            /\ UNCHANGED scr
         \/ /\ jobOpen[JobOf[s]] /\ scr[s].valid = current[s]
            /\ Decide(w, "succeed")
            /\ UNCHANGED scr
         \/ /\ jobOpen[JobOf[s]] /\ scr[s].status \in ScreeningOpen
            /\ \E valid \in {scr[s].valid, "none"} : scr' = [scr EXCEPT ![s].valid = valid]
            /\ Decide(w, ScreeningOutcome(scr[s].status))
         \/ /\ jobOpen[JobOf[s]] /\ scr[s].status \notin ScreeningOpen
            /\ \E status \in StartsAs(s), valid \in {scr[s].valid, "none"} :
                 scr' = [scr EXCEPT ![s] = NewScreening(s, status, valid)]
            /\ Decide(w, "wait")
      /\ UNCHANGED <<run, created, tx, resume, jobOpen, current, hrLeft, faultsLeft>>

ReadBeforeAwait(w) ==
  /\ At(w, "step", "await_screening")
  /\ IF current[run[wk[w].run].sub] # "own"
     THEN Decide(w, "pause_resume")
     ELSE wk' = [wk EXCEPT ![w].pc = "called"]
  /\ UNCHANGED <<run, created, tx, resume, env, faultsLeft>>

\* screening_service.get_state: the latest screening run, whichever resume it is of.
AwaitScreening(w) ==
  LET s == run[wk[w].run].sub
  IN  /\ At(w, "called", "await_screening")
      /\ Decide(w, IF scr[s].status = "none" /\ scr[s].valid # "none"
                   THEN "succeed" ELSE ScreeningOutcome(scr[s].status))
      /\ UNCHANGED <<run, created, tx, resume, env, faultsLeft>>

-----------------------------------------------------------------------------
(* Faults and time *)

\* An exception nobody expects (the database, a conflicting extraction) ends in
\* release_for_retry.
StepError(w) ==
  /\ faultsLeft > 0 /\ wk[w].pc \in {"renew", "step", "called", "write"}
  /\ faultsLeft' = faultsLeft - 1
  /\ wk' = [wk EXCEPT ![w].pc = "release"]
  /\ UNCHANGED <<run, created, tx, resume, env>>

\* The process dies, is cancelled, or its recovery fails: an open claim is rolled
\* back, a lease stays behind.  A restarted worker has a new uuid and no memory.
Crash(w) ==
  /\ faultsLeft > 0 /\ wk[w].pc # "idle"
  /\ faultsLeft' = faultsLeft - 1
  /\ wk' = [wk EXCEPT ![w] = Idle]
  /\ tx' = [tx EXCEPT ![w] = NoClaim]
  /\ UNCHANGED <<run, created, resume, env>>

\* Worker w is about to lose its lease, or a claim's whole term, to slowness.
Stalling(w) ==
  \/ /\ wk[w].pc \in {"renew", "step", "called", "write", "release"}
     /\ LET row == run[wk[w].run]
        IN  row.status = "running" /\ row.owner = w /\ row.left = 0
  \/ wk[w].pc = "claiming" /\ tx[w].age = LeaseTerm

Tick ==
  /\ (\E w \in Workers : Stalling(w)) => faultsLeft > 0
  /\ faultsLeft' = IF \E w \in Workers : Stalling(w) THEN faultsLeft - 1 ELSE faultsLeft
  /\ run' = [r \in RunIds |->
               IF run[r].status = "running" /\ run[r].left >= 0
               THEN [run[r] EXCEPT !.left = @ - 1] ELSE run[r]]
  /\ tx' = [w \in Workers |->
              IF wk[w].pc = "claiming" /\ tx[w].age <= LeaseTerm
              THEN [tx[w] EXCEPT !.age = @ + 1] ELSE tx[w]]
  /\ UNCHANGED <<created, wk, resume, env>>
-----------------------------------------------------------------------------
(* Submissions and retries *)

\* public_application_service.accept: a new application takes the new resume, an
\* application HR already entered keeps its own.
Submit(s) ==
  /\ current[s] = "none" /\ jobOpen[JobOf[s]] /\ created < MaxRuns
  /\ \E which \in Resumes :
       /\ which = "own" \/ s \in Entered
       /\ current' = [current EXCEPT ![s] = which]
  /\ run' = [run EXCEPT ![created + 1] = NewRow(s, "extract_text", FALSE)]
  /\ created' = created + 1
  /\ UNCHANGED <<wk, tx, jobOpen, resume, scr, hrLeft, faultsLeft>>

RetryStep(row) ==
  IF row.status = "failed" /\ row.step = "await_screening"
  THEN "trigger_screening" ELSE row.step

\* create_manual_retry: the latest row is locked and stays as it is.
ManualRetry(s) ==
  /\ ~HasActive(run, s, 0) /\ created < MaxRuns
  /\ \E previous \in {r \in RunIds : run[r].sub = s} :
       /\ \A r \in RunIds : run[r].sub = s => r <= previous
       /\ \A w \in Workers : wk[w].pc = "claiming" =>
            previous \notin tx[w].recovered \cup {wk[w].run}
       /\ \/ run[previous].status = "failed"
          \/ run[previous].status = "paused" /\ PauseLifted(run[previous])
       /\ run' = [run EXCEPT ![created + 1] =
                    NewRow(s, RetryStep(run[previous]), run[previous].warned)]
  /\ created' = created + 1
  /\ UNCHANGED <<wk, tx, resume, env, faultsLeft>>

-----------------------------------------------------------------------------
(* HR *)

HrAction == hrLeft > 0 /\ hrLeft' = hrLeft - 1

\* job_service close and reopen; the screening runs follow in a later transaction.
ToggleJob(j) ==
  /\ HrAction
  /\ jobOpen' = [jobOpen EXCEPT ![j] = ~@]
  /\ UNCHANGED <<run, created, wk, tx, current, resume, scr, faultsLeft>>

\* screening_service.switch_current_resume: the current report is outdated and the
\* runs that have not started are superseded; a running one is left alone.
SwitchResume(s) ==
  /\ HrAction
  /\ current[s] # "none"
  /\ \E which \in Resumes \ {current[s]} : current' = [current EXCEPT ![s] = which]
  /\ scr' = [scr EXCEPT ![s].valid = "none",
               ![s].status = IF @ \in NotStarted THEN "failed" ELSE @]
  /\ UNCHANGED <<run, created, wk, tx, jobOpen, resume, faultsLeft>>

\* screening_service.trigger with force, from the workbench: it does not wait for the text.
Reassess(s) ==
  /\ HrAction
  /\ current[s] # "none" /\ jobOpen[JobOf[s]] /\ scr[s].status \notin ScreeningOpen
  /\ \E status \in StartsAs(s), valid \in {scr[s].valid, "none"} :
       scr' = [scr EXCEPT ![s] = NewScreening(s, status, valid)]
  /\ UNCHANGED <<run, created, wk, tx, jobOpen, current, resume, faultsLeft>>

\* POST /resumes/{id}/extract-text.  Its hook looks at the waiting run of the application
\* whose current resume that is, unless the hook fails or the run is left alone; nothing
\* else that stores a text does.
HrExtracts(s) ==
  /\ HrAction
  /\ current[s] # "none"
  /\ \E which \in Resumes :
       /\ resume' = IF which = "own" THEN [resume EXCEPT ![s].text = TRUE] ELSE resume
       /\ \/ UNCHANGED scr
          \/ /\ scr[s].status = "waiting_resume" /\ which = current[s]
             /\ scr' = [scr EXCEPT ![s].status =
                           IF ~jobOpen[JobOf[s]] THEN "paused"
                           ELSE IF JobOf[s] \in Unplanned THEN "waiting_plan" ELSE "queued"]
  /\ UNCHANGED <<run, created, wk, tx, jobOpen, current, faultsLeft>>

-----------------------------------------------------------------------------
(* What the queue sees of the screening service *)

\* screening claim_next_run takes queued runs only ...
ScreeningStarts(s) ==
  /\ scr[s].status = "queued" /\ jobOpen[JobOf[s]]
  /\ scr' = [scr EXCEPT ![s].status = "running"]
  /\ UNCHANGED <<run, created, wk, tx, resume, jobOpen, current, hrLeft, faultsLeft>>

\* ... and pauses the one it finds of a closed job.
ScreeningStopped(s) ==
  /\ scr[s].status = "queued" /\ ~jobOpen[JobOf[s]]
  /\ scr' = [scr EXCEPT ![s].status = "paused"]
  /\ UNCHANGED <<run, created, wk, tx, resume, jobOpen, current, hrLeft, faultsLeft>>

\* _save_success refuses the result of a resume that is no longer the current one.
ScreeningEnds(s) ==
  /\ scr[s].status = "running"
  /\ \/ scr' = [scr EXCEPT ![s].status = "failed"]
     \/ /\ scr[s].of = current[s]
        /\ scr' = [scr EXCEPT ![s].status = "succeeded", ![s].valid = current[s],
                              ![s].reports = @ \cup {current[s]}]
  /\ UNCHANGED <<run, created, wk, tx, resume, jobOpen, current, hrLeft, faultsLeft>>

\* after_job_closed, in a transaction after the closing one
ScreeningPauses(s) ==
  /\ scr[s].status \in NotStarted \ {"paused"} /\ ~jobOpen[JobOf[s]]
  /\ scr' = [scr EXCEPT ![s].status = "paused"]
  /\ UNCHANGED <<run, created, wk, tx, resume, jobOpen, current, hrLeft, faultsLeft>>

\* after_job_reopened: _reconcile_waiting_run takes the current resume.
ScreeningResumes(s) ==
  /\ scr[s].status = "paused" /\ jobOpen[JobOf[s]]
  /\ \E status \in StartsAs(s) :
       scr' = [scr EXCEPT ![s] = NewScreening(s, status, scr[s].valid)]
  /\ UNCHANGED <<run, created, wk, tx, resume, jobOpen, current, hrLeft, faultsLeft>>

\* A screening lease ran out: the run is queued again.
ScreeningRequeued(s) ==
  /\ scr[s].status = "running" /\ faultsLeft > 0
  /\ faultsLeft' = faultsLeft - 1
  /\ scr' = [scr EXCEPT ![s].status = "queued"]
  /\ UNCHANGED <<run, created, wk, tx, resume, jobOpen, current, hrLeft>>

-----------------------------------------------------------------------------
WorkerStep(w) ==
  \/ ClaimSelect(w) \/ ClaimCommit(w)
  \/ RenewAndRead(w) \/ RenewBeforeStructure(w)
  \/ ReadText(w) \/ ExtractText(w) \/ StructureResume(w)
  \/ ReadBeforeTrigger(w) \/ TriggerScreening(w)
  \/ ReadBeforeAwait(w) \/ AwaitScreening(w)
  \/ WriteOutcome(w) \/ LeaseLost(w) \/ ReleaseForRetry(w)

ScreeningWorkerStep(s) == ScreeningStarts(s) \/ ScreeningStopped(s) \/ ScreeningEnds(s)

ScreeningStep(s) == ScreeningWorkerStep(s) \/ ScreeningPauses(s) \/ ScreeningResumes(s)

Next ==
  \/ \E w \in Workers : WorkerStep(w) \/ StepError(w) \/ Crash(w)
  \/ Tick
  \/ \E s \in Submissions : Submit(s) \/ ManualRetry(s)
  \/ \E s \in Submissions : SwitchResume(s) \/ Reassess(s) \/ HrExtracts(s)
  \/ \E j \in Jobs : ToggleJob(j)
  \/ \E s \in Submissions : ScreeningStep(s) \/ ScreeningRequeued(s)

Spec == Init /\ [][Next]_vars

\* The worker loop polls for ever and every await in it ends; time passes (Tick stands
\* back from a worker it would stall, so that takes strong fairness); the screening workers
\* get to every queued run, to evaluate it or to pause it.  HR owes nothing, and nothing
\* makes a screening go on that is paused or waits for a text or a plan: only HR's requests
\* are followed by the hooks that look at it, and a hook leaves an automatic run alone once
\* the application has a report.
FairSpec ==
  /\ Spec
  /\ \A w \in Workers : WF_vars(WorkerStep(w))
  /\ SF_vars(Tick)
  /\ \A s \in Submissions : WF_vars(ScreeningWorkerStep(s))
-----------------------------------------------------------------------------
(***************************************************************************)
(* The queue beside any screening service that keeps ScreeningContract,    *)
(* which module Screening is shown to implement: the steps of screening,   *)
(* of HR and of the job are whatever the contract allows.                   *)
(***************************************************************************)

SeenStatus(status) == IF status \in Unready \cup {"queued"} THEN "waiting" ELSE status

\* An application that was not made yet has no resume; the contract gives it some one.
\* At any time a screening worker that lost its run may still be executing it.
Contract ==
  INSTANCE ScreeningContract WITH
    Apps <- Submissions, NoResume <- "none",
    jobOpen <- [s \in Submissions |-> jobOpen[JobOf[s]]],
    current <- [s \in Submissions |-> IF current[s] = "none" THEN "own" ELSE current[s]],
    status <- [s \in Submissions |-> SeenStatus(scr[s].status)],
    of <- [s \in Submissions |-> IF scr[s].status = "none" THEN "none" ELSE scr[s].of],
    valid <- [s \in Submissions |-> scr[s].valid],
    replaced <- [s \in Submissions |-> TRUE]

\* The contract does not remember the reports there were; a report is one from the step on
\* that makes it the valid one.
AsContracted ==
  /\ jobOpen' \in [Jobs -> BOOLEAN]
  /\ current' \in [Submissions -> Resumes \cup {"none"}]
  /\ scr' \in [Submissions -> Screening]
  /\ resume' \in [Submissions -> [text : BOOLEAN, draft : BOOLEAN]]
  /\ \A s \in Submissions :
       /\ resume'[s].draft = resume[s].draft
       /\ current'[s] = "none" <=> current[s] = "none"
       /\ current[s] = "none" => scr'[s] = scr[s]
       /\ scr'[s].reports = scr[s].reports \cup ({scr'[s].valid} \ {"none"})
  /\ Contract!Next
  /\ hrLeft' \in 0..hrLeft /\ faultsLeft' \in 0..faultsLeft
  /\ UNCHANGED <<run, created, wk, tx>>

QueueStep ==
  \/ \E w \in Workers : WorkerStep(w) \/ StepError(w) \/ Crash(w)
  \/ Tick
  \/ \E s \in Submissions : Submit(s) \/ ManualRetry(s)

ContractSpec == Init /\ [][QueueStep \/ AsContracted]_vars
-----------------------------------------------------------------------------
(* Properties *)

TypeOK ==
  /\ run \in [RunIds -> Row]
  /\ created \in 0..MaxRuns
  /\ wk \in [Workers -> Worker]
  /\ tx \in [Workers -> Claim]
  /\ jobOpen \in [Jobs -> BOOLEAN]
  /\ current \in [Submissions -> Resumes \cup {"none"}]
  /\ resume \in [Submissions -> [text : BOOLEAN, draft : BOOLEAN]]
  /\ scr \in [Submissions -> Screening]
  /\ hrLeft \in Nat /\ faultsLeft \in Nat

\* Claims of paused rows, manual retries and recoveries never leave a submission with
\* two rows that workers may pick up, whatever the order of their commits
\* (uq_application_processing_runs_active_submission).
OneActiveRun ==
  \A q, r \in RunIds :
    run[q].sub = run[r].sub /\ {run[q].status, run[r].status} \subseteq Active => q = r

RowAllowed(row) ==
  /\ row.status = "running" <=> row.owner # NoWorker
  /\ row.status = "paused" <=> row.reason # "none"
  /\ row.step = "completed" <=> row.status \in Success
  /\ row.status = "waiting_screening" => row.step = "await_screening"
  /\ row.status = "succeeded" => ~row.warned
  /\ row.status = "succeeded_with_warnings" => row.warned

\* No handler, in any order of claims, crashes and retries, builds a row that a CHECK
\* of application_processing_runs on status, step, waiting reason, warnings or lease would
\* refuse at commit.
RowConstraints == \A r \in RunIds : RowAllowed(run[r])

\* A row past structuring, in this run or the one it retries, either has a structured
\* draft stored for its resume or carries the RESUME_STRUCTURE_FAILED warning: no crash,
\* stale worker or manual retry skips the step or loses the warning.
StructureAccounted ==
  \A r \in RunIds :
    run[r].step \in {"trigger_screening", "await_screening", "completed"} =>
      run[r].warned \/ resume[run[r].sub].draft

\* A run succeeds only after some screening of its application produced a report.
SuccessHasReport ==
  \A r \in RunIds : run[r].status \in Success => scr[run[r].sub].reports # {}

\* Until its lease runs out, only the worker that holds it changes a running row; the
\* passing of time aside.
LiveLeaseRespected ==
  [][\A r \in RunIds :
       run[r].status = "running" /\ run[r].left >= 0
         /\ run'[r] # run[r] /\ run'[r] # [run[r] EXCEPT !.left = @ - 1]
       => wk'[run[r].owner] # wk[run[r].owner]]_vars

StepRank(step) == CASE step = "extract_text" -> 1
                    [] step = "structure_resume" -> 2
                    [] step = "trigger_screening" -> 3
                    [] step = "await_screening" -> 4
                    [] OTHER -> 5

\* Rows are a history: a finished row never changes again, no row is erased or moved to
\* another submission, and no row goes back a step, late writes of workers that lost
\* their lease included.
HistoryKept ==
  [][\A r \in RunIds :
       run[r].status # "absent" =>
         /\ run[r].status \in Terminal => run'[r] = run[r]
         /\ run'[r].sub = run[r].sub
         /\ StepRank(run'[r].step) >= StepRank(run[r].step)]_vars

\* A row whose screening waits for a text or a plan, which no worker brings.
HeldUp(r) ==
  run[r].step = "await_screening" /\ run[r].status \in Active
    /\ scr[run[r].sub].status \in Unready


\* A run waiting for a screening that has ended is told so.
ScreeningResultArrives ==
  \A r \in RunIds :
    run[r].status = "waiting_screening" /\ scr[run[r].sub].status \in {"succeeded", "failed"}
      ~> run[r].status # "waiting_screening"
=============================================================================
