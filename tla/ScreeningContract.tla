------------------------- MODULE ScreeningContract -------------------------
(***************************************************************************)
(* What screening promises to those who only look at an application's      *)
(* latest run and current report, as the application processing queue, the *)
(* workbench and the statistics do.  A step may move several applications: *)
(* closing a job pauses all of its runs.                                    *)
(***************************************************************************)

CONSTANTS Apps, Resumes, NoResume

VARIABLES
  jobOpen,  \* jobs.status = 'open', for the job of each application
  current,  \* applications.current_resume_id
  status,   \* of the latest run
  of,       \* the resume of that run
  valid,    \* the resume of the current report, unless it is marked outdated
  replaced  \* does a worker that lost a run of the application still execute it?

vars == <<jobOpen, current, status, of, valid, replaced>>

Pending == {"waiting", "paused"}

Init ==
  /\ jobOpen \in [Apps -> BOOLEAN]
  /\ current \in [Apps -> Resumes]
  /\ status = [a \in Apps |-> "none"]
  /\ of = [a \in Apps |-> NoResume]
  /\ valid = [a \in Apps |-> NoResume]
  /\ replaced \in [Apps -> BOOLEAN]

Same(f, a) == f'[a] = f[a]

\* A run is added only when the latest one has ended, for the current resume.
Begin(a) ==
  /\ status[a] \in {"none", "succeeded", "failed"}
  /\ status'[a] \in Pending /\ (status'[a] = "paused" => ~jobOpen[a])
  /\ of'[a] = current[a]
  /\ valid'[a] \in {valid[a], NoResume}
  /\ Same(jobOpen, a) /\ Same(current, a)

Start(a) ==
  /\ status[a] = "waiting" /\ jobOpen[a]
  /\ status'[a] = "running"
  /\ Same(jobOpen, a) /\ Same(current, a) /\ Same(of, a) /\ Same(valid, a)

\* Only a result for the current resume succeeds, and its report is the valid one.
Succeed(a) ==
  /\ status[a] = "running" /\ of[a] = current[a]
  /\ status'[a] = "succeeded" /\ valid'[a] = current[a]
  /\ Same(jobOpen, a) /\ Same(current, a) /\ Same(of, a)

Fail(a) ==
  /\ status[a] = "running" /\ status'[a] = "failed"
  /\ Same(jobOpen, a) /\ Same(current, a) /\ Same(of, a) /\ Same(valid, a)

Pause(a) ==
  /\ status[a] = "waiting" /\ status'[a] = "paused"
  /\ Same(jobOpen, a) /\ Same(current, a) /\ Same(of, a) /\ Same(valid, a)

\* A paused run takes the resume that is current, and comes back once the job is open.
Resume(a) ==
  /\ status[a] = "paused"
  /\ status'[a] = (IF jobOpen[a] THEN "waiting" ELSE "paused") /\ of'[a] = current[a]
  /\ Same(jobOpen, a) /\ Same(current, a) /\ Same(valid, a)

\* The worker was lost; another one may start the run, or find the job closed.
Requeue(a) ==
  /\ status[a] = "running" /\ status'[a] \in Pending
  /\ Same(jobOpen, a) /\ Same(current, a) /\ Same(of, a) /\ Same(valid, a)

\* _save_success and _mark_failed look neither at the run's status nor at its lease: a worker
\* that was replaced ends its run whatever has become of it, and leaves what came after it.
LateSuccess(a) ==
  /\ replaced[a] /\ status[a] # "none"
  /\ status'[a] \in {status[a], "succeeded"} /\ valid'[a] = current[a]
  /\ Same(jobOpen, a) /\ Same(current, a) /\ Same(of, a)

LateFailure(a) ==
  /\ replaced[a] /\ status[a] # "none"
  /\ status'[a] = "failed"
  /\ Same(jobOpen, a) /\ Same(current, a) /\ Same(of, a) /\ Same(valid, a)

Outdate(a) ==
  /\ valid'[a] = NoResume
  /\ Same(jobOpen, a) /\ Same(current, a) /\ Same(status, a) /\ Same(of, a)

\* Switching the resume ends what has not started, and outdates the report.
Switch(a) ==
  /\ current'[a] \in Resumes \ {current[a]}
  /\ valid'[a] = NoResume
  /\ status'[a] = IF status[a] \in Pending THEN "failed" ELSE status[a]
  /\ Same(jobOpen, a) /\ Same(of, a)

ToggleJob(a) ==
  /\ jobOpen'[a] = ~jobOpen[a]
  /\ Same(current, a) /\ Same(status, a) /\ Same(of, a) /\ Same(valid, a)

Rest(a) ==
  Same(jobOpen, a) /\ Same(current, a) /\ Same(status, a) /\ Same(of, a) /\ Same(valid, a)

\* Only a run that is under way is lost by its worker.
Lose(a) == replaced'[a] => replaced[a] \/ status[a] = "running"

Next ==
  \A a \in Apps :
    /\ Lose(a)
    /\ \/ Rest(a)
       \/ Begin(a) \/ Start(a) \/ Succeed(a) \/ Fail(a) \/ Pause(a) \/ Resume(a)
       \/ Requeue(a) \/ LateSuccess(a) \/ LateFailure(a)
       \/ Outdate(a) \/ Switch(a) \/ ToggleJob(a)

Spec == Init /\ [][Next]_vars
=============================================================================
