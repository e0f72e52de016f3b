--------------------------- MODULE ScreeningProofs ---------------------------
(***************************************************************************)
(* Theorems about Screening, for all values of its constants: one run of an *)
(* application is open at most, the columns of a run agree, an application  *)
(* whose run has ended is in review, a report fits what it was made from    *)
(* when it is stored, the hand-over keeps HR's decisions, and the module     *)
(* implements its contract.                                                 *)
(***************************************************************************)
EXTENDS Screening, WellFoundedInduction, TLAPS

\* What the columns of a run say together.
RowFits(row) ==
  /\ row.reason = "plan" => row.status = "waiting_plan"
  /\ row.reason = "job_closed" => row.status = "paused"
  /\ row.owner # NoWorker <=> row.status = "running"
  /\ row.status # "absent" => row.app \in Apps
RowsFit ==
  \A r \in RunIds : RowFits(run[r]) /\ (r > created => run[r].status = "absent")

\* An application is untouched only while HR has not decided upon it.
DecisionFits(application) ==
  /\ application.stage = "applied" => application.active /\ application.decision = "pending"
  /\ application.decision = "rejected" => ~application.active
  /\ ~application.active => application.stage = "rejected"
AppsFit == \A a \in Apps : DecisionFits(app[a])

\* A worker has a row that exists, and calls the model for a ready plan only; what it saw of
\* an application when it refused the run was no further than the application is now.
WorkerFits(w) ==
  /\ wk[w].pc # "idle" => wk[w].run \in RunIds /\ run[wk[w].run].status # "absent"
  /\ wk[w].pc \in {"call", "repair", "save"} => wk[w].input.state = "ready"
  /\ wk[w].pc = "refuse" =>
       /\ DecisionFits(wk[w].seen)
       /\ wk[w].seen.stage # "applied" => app[AppOf(w)].stage # "applied"
  /\ wk[w].pc = "read" => wk[w].calls = 0 /\ ~wk[w].retried
  /\ wk[w].pc = "call" => wk[w].calls = IF wk[w].retried THEN 1 ELSE 0
  /\ wk[w].pc = "repair" => wk[w].calls \in 1..2
WorkersFit == \A w \in Workers : WorkerFits(w)

ReportsFit == \A a \in Apps : report[a].outdated => report[a].exists

\* New versions come from HR's actions and from the generation a job's opening promised.
Promised(j) == IF <<"generate", j>> \in todo THEN 1 ELSE 0
WithinBudget ==
  /\ hrLeft <= HrBudget
  /\ \A j \in Jobs :
       /\ job[j].jd + hrLeft <= HrBudget + 1
       /\ plan[j].id + Promised(j) + hrLeft <= HrBudget + 1

IInv ==
  /\ TypeOK /\ RowsFit /\ OneOpenRun /\ HandoffDone
  /\ AppsFit /\ WorkersFit /\ ReportsFit /\ WithinBudget

Calls == (AppCalls \X Apps) \cup (JobCalls \X Jobs)

-----------------------------------------------------------------------------
(* The constants and the operators *)

LEMMA Constants ==
  /\ \A a \in Apps : JobOf[a] \in Jobs
  /\ NoWorker \notin Workers /\ NoApp \notin Apps
  /\ CallsCovered \in Nat /\ MaxRuns \in Nat /\ HrBudget \in Nat /\ FaultBudget \in Nat
BY ConstantsOK

\* The first of the queued runs is one of them.
LEMMA OldestExists ==
  ASSUME NEW S \in SUBSET RunIds, S # {}
  PROVE  (CHOOSE q \in S : \A p \in S : q <= p) \in S
<1>1. S \subseteq Nat
  BY DEF RunIds
<1>2. IsWellFoundedOn(OpToRel(<, Nat), Nat)
  BY NatLessThanWellFounded
<1>3. PICK x \in S : \A y \in S : ~ (<<y, x>> \in OpToRel(<, Nat))
  <2> HIDE DEF IsWellFoundedOn, OpToRel
  <2> QED BY <1>1, <1>2, WFMin
<1>4. \A y \in S : ~ (y < x)
  BY <1>1, <1>3 DEF OpToRel
<1>5. \A y \in S : x <= y
  BY <1>1, <1>4
<1> QED BY <1>5

LEMMA InputTyped ==
  ASSUME IInv, NEW a \in Apps, NEW jb \in Job
  PROVE  InputOf(jb, a) \in Fingerprint /\ Desired(jb, a) \in NotStarted
<1>1. JobOf[a] \in Jobs
  BY Constants
<1>2. InputOf(jb, a) \in Fingerprint
  BY <1>1 DEF IInv, TypeOK, InputOf, Fingerprint, Job, Plan, Application
<1>3. Desired(jb, a) \in NotStarted
  BY DEF Desired, NotStarted, Waiting
<1> QED BY <1>2, <1>3

\* A run that has not started is written with the input it waits for ...
LEMMA WithInputFits ==
  ASSUME NEW row \in Row, row.owner = NoWorker, row.app \in Apps,
         NEW status \in NotStarted, NEW input \in Fingerprint
  PROVE  LET written == WithInput(row, status, input)
         IN  /\ written \in Row /\ RowFits(written)
             /\ written.app = row.app /\ written.status = status
             /\ written.auto = row.auto /\ written.superseded = row.superseded
<1>1. ReasonFor(status) \in {"none", "plan", "job_closed"}
  BY DEF ReasonFor
<1>2. WithInput(row, status, input) \in Row
  BY <1>1 DEF WithInput, Row, NotStarted, Waiting, Open
<1>3. RowFits(WithInput(row, status, input))
  BY DEF WithInput, RowFits, ReasonFor, NotStarted, Waiting, Row
<1> QED BY <1>2, <1>3 DEF WithInput, Row

\* ... and one that failed is nobody's.
LEMMA FailedFits ==
  ASSUME NEW row \in Row, row.app \in Apps, NEW superseded \in BOOLEAN
  PROVE  LET written == Failed(row, superseded)
         IN  /\ written \in Row /\ RowFits(written)
             /\ written.app = row.app /\ written.status = "failed"
             /\ written.superseded = superseded
<1>1. Failed(row, superseded) \in Row
  BY DEF Failed, Row, Open, Ended
<1>2. RowFits(Failed(row, superseded))
  BY DEF Failed, RowFits, Row
<1> QED BY <1>1, <1>2 DEF Failed, Row

\* Looking at a report only ever marks it.
LEMMA ReconciledFits ==
  ASSUME IInv, NEW a \in Apps, NEW jb
  PROVE  /\ Reconciled(jb, a) \in Report
         /\ Reconciled(jb, a).outdated => Reconciled(jb, a).exists
         /\ Reconciled(jb, a) = report[a] \/ Reconciled(jb, a).outdated
BY DEF IInv, TypeOK, ReportsFit, Reconciled, Report

\* A step that adds no row and opens none again.
LEMMA RowsStay ==
  ASSUME IInv, run' \in [RunIds -> Row], UNCHANGED created,
         \A r \in RunIds :
           /\ RowFits(run'[r]) /\ run'[r].app = run[r].app
           /\ run'[r].status \in Open => run[r].status \in Open
           /\ run[r].status = "absent" => run'[r].status = "absent"
  PROVE  RowsFit' /\ OneOpenRun'
<1>1. RowsFit'
  BY DEF IInv, RowsFit
<1>2. OneOpenRun'
  BY DEF IInv, OneOpenRun
<1> QED BY <1>1, <1>2

\* A step after which no application is untouched that was not before, and that ends the
\* runs of applications in review only.
LEMMA HandoffStays ==
  ASSUME IInv,
         \A a \in Apps : app[a].stage # "applied" => app'[a].stage # "applied",
         \A r \in RunIds :
           run'[r].status \in Ended /\ ~run'[r].superseded =>
             /\ run'[r].app = run[r].app /\ run'[r].app \in Apps
             /\ \/ run[r].status \in Ended /\ ~run[r].superseded
                \/ app'[run[r].app].stage # "applied"
  PROVE  HandoffDone'
<1> SUFFICES ASSUME NEW r \in RunIds, run'[r].status \in Ended, ~run'[r].superseded
             PROVE  app'[run'[r].app].stage # "applied"
  BY DEF HandoffDone
<1>1. run'[r].app = run[r].app /\ run[r].app \in Apps
  OBVIOUS
<1>2. CASE run[r].status \in Ended /\ ~run[r].superseded
  <2>1. app[run[r].app].stage # "applied" \/ ~app[run[r].app].active
    BY <1>2 DEF IInv, HandoffDone
  <2>2. app[run[r].app].stage # "applied"
    BY <1>1, <2>1 DEF IInv, AppsFit, DecisionFits
  <2> QED BY <1>1, <2>2
<1> QED BY <1>1, <1>2

-----------------------------------------------------------------------------
(* Steps that leave the applications, their runs and reports, and the workers alone *)

\* Only the types and the number of versions are left to show of such a step.
LEMMA OnlyInputsChange ==
  ASSUME IInv, TypeOK', WithinBudget', UNCHANGED <<app, run, created, report, wk>>
  PROVE  IInv'
BY DEF IInv, RowsFit, RowFits, OneOpenRun, HandoffDone, AppsFit, DecisionFits, WorkersFit, WorkerFits, AppOf, ReportsFit

\* A version is a number, and so is what is left for new ones.
LEMMA Budgets ==
  ASSUME IInv, NEW j \in Jobs
  PROVE  /\ HrBudget \in Nat /\ hrLeft \in Nat /\ job[j].jd \in Nat /\ plan[j].id \in Nat
         /\ Promised(j) \in 0..1
         /\ job[j].jd + hrLeft <= HrBudget + 1
         /\ plan[j].id + Promised(j) + hrLeft <= HrBudget + 1
<1>1. job[j] \in Job /\ plan[j] \in Plan /\ hrLeft \in Nat
  BY DEF IInv, TypeOK
<1>2. job[j].jd \in Nat /\ plan[j].id \in Nat
  BY <1>1, Constants DEF Job, Plan, Versions
<1>3. Promised(j) \in 0..1
  BY DEF Promised
<1> QED BY <1>1, <1>2, <1>3, Constants DEF IInv, WithinBudget

LEMMA BudgetStays ==
  ASSUME IInv, hrLeft' \in Nat, hrLeft' <= hrLeft,
         \A j \in Jobs :
           /\ job'[j].jd \in Nat /\ job'[j].jd + hrLeft' <= job[j].jd + hrLeft
           /\ plan'[j].id \in Nat /\ Promised(j)' \in 0..1
           /\ plan'[j].id + Promised(j)' + hrLeft' <= plan[j].id + Promised(j) + hrLeft
  PROVE  WithinBudget'
<1>1. hrLeft' <= HrBudget
  BY Constants DEF IInv, TypeOK, WithinBudget
<1>2. ASSUME NEW j \in Jobs
      PROVE  /\ job'[j].jd + hrLeft' <= HrBudget + 1
             /\ plan'[j].id + Promised(j)' + hrLeft' <= HrBudget + 1
  <2>1. PICK n \in Nat : n = job[j].jd + hrLeft /\ n <= HrBudget + 1
    BY Budgets
  <2>2. PICK m \in Nat : m = plan[j].id + Promised(j) + hrLeft /\ m <= HrBudget + 1
    BY Budgets
  <2>3. job'[j].jd + hrLeft' <= n /\ plan'[j].id + Promised(j)' + hrLeft' <= m
    BY <2>1, <2>2
  <2> QED BY <2>1, <2>2, <2>3, Constants
<1> QED BY <1>1, <1>2 DEF WithinBudget

LEMMA CloseOrReopenKeeps ==
  ASSUME NEW j \in Jobs, IInv, CloseOrReopen(j)
  PROVE  IInv'
<1>1. TypeOK'
  <2>1. job' \in [Jobs -> Job]
    BY DEF CloseOrReopen, IInv, TypeOK, Job
  <2>2. todo' \subseteq Calls
    BY DEF CloseOrReopen, IInv, TypeOK, Calls, JobCalls
  <2>3. hrLeft' \in Nat
    BY DEF CloseOrReopen, HrAction, IInv, TypeOK
  <2> QED BY <2>1, <2>2, <2>3 DEF CloseOrReopen, IInv, TypeOK, Calls
<1>2. WithinBudget'
  <2>1. hrLeft' \in Nat /\ hrLeft' = hrLeft - 1 /\ hrLeft \in Nat /\ UNCHANGED plan
    BY DEF CloseOrReopen, HrAction, IInv, TypeOK
  <2>2. \A i \in Jobs : job'[i].jd = job[i].jd /\ Promised(i)' \in 0..1
    BY DEF CloseOrReopen, IInv, TypeOK, Job, Promised
  <2> QED BY <2>1, <2>2, Budgets, BudgetStays
<1> QED BY <1>1, <1>2, OnlyInputsChange DEF CloseOrReopen

LEMMA EditJobKeeps ==
  ASSUME NEW j \in Jobs, IInv, EditJob(j)
  PROVE  IInv'
<1> USE DEF IInv, EditJob, HrAction
<1>1. TypeOK'
  <2>1. job' \in [Jobs -> Job]
    BY Constants DEF TypeOK, Job, Versions, WithinBudget
  <2> QED BY <2>1 DEF TypeOK, AppCalls, JobCalls
<1>2. WithinBudget'
  <2>1. hrLeft' \in Nat /\ hrLeft' = hrLeft - 1 /\ hrLeft \in Nat /\ UNCHANGED plan
    BY DEF TypeOK
  <2>2. \A i \in Jobs : job'[i].jd \in {job[i].jd, job[i].jd + 1} /\ Promised(i)' = Promised(i)
    BY DEF TypeOK, Job, Promised
  <2> HIDE DEF IInv
  <2> QED BY <2>1, <2>2, Budgets, BudgetStays
<1> QED BY <1>1, <1>2, OnlyInputsChange

LEMMA NewDraftTyped ==
  ASSUME IInv, NEW j \in Jobs, plan[j].id <= HrBudget
  PROVE  NewDraft(j) \in Plan /\ NewDraft(j).id = plan[j].id + 1
BY Constants DEF IInv, TypeOK, Plan, Job, Versions, NewDraft

LEMMA NewPlanKeeps ==
  ASSUME NEW j \in Jobs, IInv, NewPlan(j)
  PROVE  IInv'
<1> USE DEF IInv, NewPlan, HrAction
<1>1. plan[j].id <= HrBudget /\ hrLeft > 0
  <2> HIDE DEF IInv
  <2> QED BY Budgets
<1>2. TypeOK'
  BY <1>1, NewDraftTyped DEF TypeOK
<1>3. WithinBudget'
  <2>1. hrLeft' \in Nat /\ hrLeft' = hrLeft - 1 /\ hrLeft \in Nat /\ UNCHANGED job
    BY DEF TypeOK
  <2>2. \A i \in Jobs : plan'[i].id \in {plan[i].id, plan[i].id + 1} /\ Promised(i)' = Promised(i)
    BY <1>1, NewDraftTyped DEF TypeOK, Promised
  <2> HIDE DEF IInv
  <2> QED BY <2>1, <2>2, Budgets, BudgetStays
<1> QED BY <1>2, <1>3, OnlyInputsChange

LEMMA ConfirmPlanKeeps ==
  ASSUME NEW j \in Jobs, IInv, ConfirmPlan(j)
  PROVE  IInv'
<1> USE DEF IInv, ConfirmPlan
<1>1. TypeOK'
  BY DEF TypeOK, Plan
<1>2. WithinBudget'
  BY DEF TypeOK, Plan, WithinBudget, Promised
<1> QED BY <1>1, <1>2, OnlyInputsChange

LEMMA HrExtractsKeeps ==
  ASSUME NEW a \in Apps, IInv, HrExtracts(a)
  PROVE  IInv'
<1> USE DEF IInv, HrExtracts, HrAction
<1>1. TypeOK'
  BY DEF TypeOK, AppCalls, JobCalls
<1>2. \A j \in Jobs : Promised(j)' = Promised(j)
  BY DEF Promised
<1>3. WithinBudget'
  <2>1. hrLeft' \in Nat /\ hrLeft' = hrLeft - 1 /\ hrLeft \in Nat /\ UNCHANGED <<job, plan>>
    BY DEF TypeOK
  <2> HIDE DEF IInv, HrExtracts
  <2> QED BY <1>2, <2>1, Budgets, BudgetStays
<1> QED BY <1>1, <1>3, OnlyInputsChange

LEMMA OutdatePlanKeeps ==
  ASSUME NEW j \in Jobs, IInv, OutdatePlan(j)
  PROVE  IInv'
<1> USE DEF IInv, OutdatePlan
<1>1. PlanHooks(j) \subseteq Calls
  BY DEF PlanHooks, AppsOf, Calls, AppCalls
<1>2. TypeOK'
  BY <1>1 DEF TypeOK, Plan, Calls
<1>3. \A i \in Jobs : Promised(i)' = Promised(i)
  BY DEF Promised, PlanHooks
<1>4. WithinBudget'
  BY <1>3 DEF TypeOK, Plan, WithinBudget
<1> QED BY <1>2, <1>4, OnlyInputsChange

LEMMA GenerateAfterCommitKeeps ==
  ASSUME NEW j \in Jobs, IInv, GenerateAfterCommit(j)
  PROVE  IInv'
<1> USE DEF IInv, GenerateAfterCommit
<1>1. PlanHooks(j) \subseteq Calls
  BY DEF PlanHooks, AppsOf, Calls, AppCalls
<1>2. plan[j].id <= HrBudget
  BY Constants DEF TypeOK, Plan, Versions, WithinBudget, Promised
<1>3. plan' \in [Jobs -> Plan]
  BY <1>2, NewDraftTyped DEF TypeOK
<1>4. TypeOK'
  BY <1>1, <1>3 DEF TypeOK, Calls
<1>5. Promised(j) = 1 /\ Promised(j)' = 0
  BY DEF Promised, PlanHooks
<1>6. \A i \in Jobs \ {j} : Promised(i)' = Promised(i) /\ plan'[i] = plan[i]
  BY DEF TypeOK, Promised, PlanHooks
<1>7. plan'[j].id <= plan[j].id + 1
  BY <1>2, NewDraftTyped DEF TypeOK, Plan, Versions
<1>8. WithinBudget'
  <2>1. hrLeft' \in Nat /\ hrLeft' = hrLeft /\ hrLeft \in Nat /\ UNCHANGED job
    BY DEF TypeOK
  <2>2. \A i \in Jobs : plan'[i].id \in Nat
    BY <1>3, Constants DEF Plan, Versions
  <2> HIDE DEF IInv, GenerateAfterCommit
  <2> QED BY <1>5, <1>6, <1>7, <2>1, <2>2, Budgets, BudgetStays
<1> QED BY <1>4, <1>8, OnlyInputsChange

LEMMA WorkerExtractsKeeps ==
  ASSUME NEW a \in Apps, IInv, WorkerExtracts(a)
  PROVE  IInv'
<1> USE DEF IInv, WorkerExtracts
<1>1. TypeOK'
  BY DEF TypeOK, AppCalls, JobCalls, Resumes
<1>2. \A j \in Jobs : Promised(j)' = Promised(j)
  BY DEF Promised
<1>3. WithinBudget'
  BY <1>2 DEF WithinBudget
<1> QED BY <1>1, <1>3, OnlyInputsChange

LEMMA AfterJobReopenedKeeps ==
  ASSUME NEW j \in Jobs, IInv, AfterJobReopened(j)
  PROVE  IInv'
<1> USE DEF IInv, AfterJobReopened, inputs
<1>1. TypeOK'
  <2>1. todo' \subseteq Calls
    BY DEF TypeOK, PausedApps, AppsOf, Calls, AppCalls
  <2> QED BY <2>1 DEF TypeOK, Calls
<1>2. \A i \in Jobs : Promised(i)' = Promised(i)
  BY DEF Promised
<1>3. WithinBudget'
  <2>1. UNCHANGED <<job, plan, hrLeft>>
    OBVIOUS
  <2> HIDE DEF AfterJobReopened
  <2> QED BY <1>2, <2>1 DEF WithinBudget
<1> QED BY <1>1, <1>3, OnlyInputsChange

LEMMA StartBatchKeeps ==
  ASSUME NEW j \in Jobs, IInv, StartBatch(j)
  PROVE  IInv'
<1> USE DEF StartBatch, HrAction, inputs
<1>1. TypeOK'
  <2>1. PICK chosen \in SUBSET {a \in Apps : JobOf[a] = j} :
          batch' = [left |-> chosen, view |-> job[j], fresh |-> FALSE]
    OBVIOUS
  <2>2. batch'.left \subseteq Apps /\ batch'.view \in Job /\ batch'.fresh \in BOOLEAN
    BY <2>1 DEF IInv, TypeOK
  <2> QED BY <2>2 DEF IInv, TypeOK
<1>2. WithinBudget'
  <2>1. hrLeft' \in Nat /\ hrLeft' = hrLeft - 1 /\ hrLeft \in Nat /\ UNCHANGED <<job, plan>>
    BY DEF IInv, TypeOK
  <2>2. \A i \in Jobs : Promised(i)' = Promised(i)
    BY DEF Promised
  <2> HIDE DEF StartBatch
  <2> QED BY <2>1, <2>2, Budgets, BudgetStays
<1> QED BY <1>1, <1>2, OnlyInputsChange

LEMMA HookFailsKeeps ==
  ASSUME IInv, HookFails
  PROVE  IInv'
<1>1. PICK call \in todo : todo' = todo \ {call}
  BY DEF HookFails
<1>2. /\ UNCHANGED <<inputs, app, run, created, report, wk, batch, hrLeft>>
      /\ faultsLeft > 0 /\ faultsLeft' = faultsLeft - 1
  BY DEF HookFails, Fault
<1>3. TypeOK'
  BY <1>1, <1>2 DEF IInv, TypeOK, inputs
<1>4. WithinBudget'
  <2>1. hrLeft' \in Nat /\ hrLeft' = hrLeft /\ hrLeft \in Nat /\ UNCHANGED <<job, plan>>
    BY <1>2 DEF IInv, TypeOK, inputs
  <2>2. \A j \in Jobs : Promised(j)' \in {0, Promised(j)}
    BY <1>1 DEF Promised
  <2> QED BY <2>1, <2>2, Budgets, BudgetStays
<1> QED BY <1>2, <1>3, <1>4, OnlyInputsChange

-----------------------------------------------------------------------------
(* Triggers *)

\* A trigger may mark the application's report, and adds a run only if none is open.
LEMMA TriggerFits ==
  ASSUME IInv, NEW a \in Apps, NEW jb \in Job, NEW force \in BOOLEAN, NEW auto \in BOOLEAN,
         NEW closedToo \in BOOLEAN, Trigger(a, jb, force, auto, closedToo)
  PROVE  /\ report' \in [Apps -> Report]
         /\ \A b \in Apps : \/ report'[b] = report[b]
                            \/ report'[b].outdated /\ report'[b].exists
         /\ \/ UNCHANGED <<run, created>>
            \/ /\ RunsOf(a, Open) = {} /\ created < MaxRuns /\ created' = created + 1
               /\ \E row \in Row : /\ RowFits(row) /\ row.app = a /\ row.status \in NotStarted
                                   /\ run' = [run EXCEPT ![created + 1] = row]
<1> DEFINE input == InputOf(jb, a)
           status == Desired(jb, a)
           first == [AbsentRow EXCEPT !.app = a, !.auto = auto]
<1>1. input \in Fingerprint /\ status \in NotStarted
  BY InputTyped
<1>2. first \in Row /\ first.owner = NoWorker /\ first.app = a
  <2>1. NoInput \in Fingerprint
    BY Constants DEF NoInput, Fingerprint, Versions, Resumes
  <2> QED BY <2>1 DEF AbsentRow, Row
<1>3. \/ UNCHANGED <<run, created, report>>
      \/ /\ report' = [report EXCEPT ![a] = Reconciled(jb, a)]
         /\ \/ UNCHANGED <<run, created>>
            \/ /\ Existing(a, input) = {} /\ created < MaxRuns /\ created' = created + 1
               /\ run' = [run EXCEPT ![created + 1] = WithInput(first, status, input)]
  BY DEF Trigger
<1> HIDE DEF input, status, first
<1>4. /\ WithInput(first, status, input) \in Row /\ RowFits(WithInput(first, status, input))
      /\ WithInput(first, status, input).app = a /\ WithInput(first, status, input).status = status
  BY <1>1, <1>2, WithInputFits
<1>5. /\ report' \in [Apps -> Report]
      /\ \A b \in Apps : \/ report'[b] = report[b]
                         \/ report'[b].outdated /\ report'[b].exists
  <2>1. /\ Reconciled(jb, a) \in Report
        /\ Reconciled(jb, a) = report[a] \/ Reconciled(jb, a).outdated
        /\ Reconciled(jb, a).outdated => Reconciled(jb, a).exists
    BY ReconciledFits
  <2>2. report \in [Apps -> Report]
    BY DEF IInv, TypeOK
  <2> QED BY <1>3, <2>1, <2>2
<1> QED BY <1>1, <1>3, <1>4, <1>5 DEF Existing

\* What a trigger leaves behind, whoever made it.
LEMMA TriggerKeeps ==
  ASSUME IInv, NEW a \in Apps, NEW jb \in Job, NEW force \in BOOLEAN, NEW auto \in BOOLEAN,
         NEW closedToo \in BOOLEAN, Trigger(a, jb, force, auto, closedToo),
         UNCHANGED <<job, plan, text, app, wk, faultsLeft>>,
         todo' \subseteq Calls, hrLeft' \in Nat, WithinBudget',
         batch'.left \subseteq Apps, batch'.view \in Job, batch'.fresh \in BOOLEAN
  PROVE  IInv'
<1>1. /\ report' \in [Apps -> Report]
      /\ \A b \in Apps : \/ report'[b] = report[b]
                         \/ report'[b].outdated /\ report'[b].exists
  BY TriggerFits
<1>2. ReportsFit'
  BY <1>1 DEF IInv, ReportsFit
<1>3. AppsFit'
  BY DEF IInv, AppsFit
<1>4. \/ UNCHANGED <<run, created>>
      \/ /\ RunsOf(a, Open) = {} /\ created < MaxRuns /\ created' = created + 1
         /\ \E row \in Row : /\ RowFits(row) /\ row.app = a /\ row.status \in NotStarted
                             /\ run' = [run EXCEPT ![created + 1] = row]
  BY TriggerFits
<1>5. CASE UNCHANGED <<run, created>>
  <2>1. TypeOK'
    BY <1>1, <1>5 DEF IInv, TypeOK, Calls
  <2>2. RowsFit' /\ OneOpenRun' /\ HandoffDone' /\ WorkersFit'
    BY <1>5 DEF IInv, RowsFit, OneOpenRun, HandoffDone, WorkersFit, WorkerFits, AppOf
  <2> QED BY <1>2, <1>3, <2>1, <2>2 DEF IInv
<1>6. CASE /\ RunsOf(a, Open) = {} /\ created < MaxRuns /\ created' = created + 1
           /\ \E row \in Row : /\ RowFits(row) /\ row.app = a /\ row.status \in NotStarted
                               /\ run' = [run EXCEPT ![created + 1] = row]
  <2>1. PICK row \in Row : /\ RowFits(row) /\ row.app = a /\ row.status \in NotStarted
                           /\ run' = [run EXCEPT ![created + 1] = row]
    BY <1>6
  <2>2. created \in Nat /\ created + 1 \in RunIds /\ created' \in 0..MaxRuns /\ RunIds \subseteq Nat
    BY <1>6, Constants DEF IInv, TypeOK, RunIds
  <2>3. run' \in [RunIds -> Row] /\ run[created + 1].status = "absent"
    BY <2>1, <2>2 DEF IInv, TypeOK, RowsFit
  <2>4. row.status \in Open /\ row.status \notin Ended /\ row.status # "absent"
    BY <2>1 DEF NotStarted, Waiting, Open, Ended
  <2>5. \A r \in RunIds : IF r = created + 1 THEN run'[r] = row ELSE run'[r] = run[r]
    BY <2>1, <2>3 DEF IInv, TypeOK
  <2>6. TypeOK'
    BY <1>1, <1>6, <2>2, <2>3 DEF IInv, TypeOK, Calls
  <2>7. RowsFit'
    BY <1>6, <2>1, <2>2, <2>5 DEF IInv, RowsFit
  <2>8. OneOpenRun'
    <3>1. \A r \in RunIds : run[r].app = a => run[r].status \notin Open
      BY <1>6 DEF RunsOf
    <3> QED BY <2>1, <2>5, <3>1 DEF IInv, OneOpenRun
  <2>9. HandoffDone'
    BY <2>4, <2>5 DEF IInv, HandoffDone
  <2>10. WorkersFit'
    <3> SUFFICES ASSUME NEW w \in Workers PROVE WorkerFits(w)'
      BY DEF WorkersFit
    <3>1. WorkerFits(w) /\ wk' = wk /\ app' = app
      BY DEF IInv, WorkersFit
    <3>2. wk[w].pc # "idle" => run'[wk[w].run] = run[wk[w].run]
      BY <2>3, <2>5, <3>1 DEF WorkerFits
    <3> QED BY <3>1, <3>2 DEF WorkerFits, AppOf
  <2> QED BY <1>2, <1>3, <2>6, <2>7, <2>8, <2>9, <2>10 DEF IInv
<1> QED BY <1>4, <1>5, <1>6

LEMMA JobsTyped ==
  ASSUME IInv
  PROVE  batch.view \in Job /\ \A a \in Apps : job[JobOf[a]] \in Job
<1>1. NoBatch.view \in Job
  BY Constants DEF NoBatch, Job, Versions
<1> QED BY <1>1, Constants DEF IInv, TypeOK

LEMMA TriggerAfterCommitKeeps ==
  ASSUME NEW a \in Apps, IInv, TriggerAfterCommit(a)
  PROVE  IInv'
<1>1. PICK call \in {"commit", "process"} :
        /\ todo' = todo \ {<<call, a>>}
        /\ Trigger(a, job[JobOf[a]], FALSE, TRUE, call = "commit")
  BY DEF TriggerAfterCommit
<1>2. UNCHANGED <<job, plan, text, app, wk, faultsLeft, hrLeft, batch>>
  BY DEF TriggerAfterCommit, inputs
<1>3. todo' \subseteq Calls /\ hrLeft' \in Nat /\ hrLeft \in Nat
  BY <1>1, <1>2 DEF IInv, TypeOK, Calls
<1>4. \A j \in Jobs : Promised(j)' = Promised(j)
  BY <1>1 DEF Promised
<1>5. WithinBudget'
  BY <1>2, <1>4 DEF IInv, WithinBudget
<1>6. batch'.left \subseteq Apps /\ batch'.view \in Job /\ batch'.fresh \in BOOLEAN
  BY <1>2, JobsTyped DEF IInv, TypeOK
<1> QED BY <1>1, <1>2, <1>3, <1>5, <1>6, JobsTyped, TriggerKeeps

LEMMA HrTriggerKeeps ==
  ASSUME NEW a \in Apps, IInv, HrTrigger(a)
  PROVE  IInv'
<1>1. PICK force \in BOOLEAN : Trigger(a, job[JobOf[a]], force, ~force, FALSE)
  BY DEF HrTrigger
<1>2. /\ UNCHANGED <<job, plan, text, app, wk, faultsLeft, todo, batch>>
      /\ hrLeft > 0 /\ hrLeft' = hrLeft - 1
  BY DEF HrTrigger, HrAction, inputs
<1>3. todo' \subseteq Calls /\ hrLeft' \in Nat /\ hrLeft \in Nat
  BY <1>2 DEF IInv, TypeOK, Calls
<1>4. \A j \in Jobs : Promised(j)' = Promised(j)
  BY <1>2 DEF Promised
<1>5. WithinBudget'
  BY <1>2, <1>3, <1>4, Budgets, BudgetStays
<1>6. batch'.left \subseteq Apps /\ batch'.view \in Job /\ batch'.fresh \in BOOLEAN
  BY <1>2, JobsTyped DEF IInv, TypeOK
<1> QED BY <1>1, <1>2, <1>3, <1>5, <1>6, JobsTyped, TriggerKeeps

LEMMA BatchItemKeeps ==
  ASSUME NEW a \in Apps, IInv, BatchItem(a)
  PROVE  IInv'
<1> DEFINE jb == IF batch.fresh THEN batch.view ELSE job[JobOf[a]]
           refused == ~app[a].active \/ ~jb.open
<1>1. jb \in Job
  BY JobsTyped
<1>2. /\ Trigger(a, jb, TRUE, FALSE, FALSE)
      /\ batch' = [left |-> batch.left \ {a}, view |-> jb, fresh |-> ~refused /\ batch.left # {a}]
  BY DEF BatchItem
<1>3. UNCHANGED <<job, plan, text, app, wk, faultsLeft, todo, hrLeft>>
  BY DEF BatchItem, inputs
<1>4. todo' \subseteq Calls /\ hrLeft' \in Nat /\ batch.left \subseteq Apps
  BY <1>3 DEF IInv, TypeOK, Calls
<1>5. WithinBudget'
  BY <1>3 DEF IInv, WithinBudget, Promised
<1>6. batch'.left \subseteq Apps /\ batch'.view \in Job /\ batch'.fresh \in BOOLEAN
  BY <1>1, <1>2, <1>4
<1> HIDE DEF jb, refused
<1> QED BY <1>1, <1>2, <1>3, <1>4, <1>5, <1>6, TriggerKeeps

-----------------------------------------------------------------------------
(* Steps that write runs or reports, or the application, and leave the workers alone *)

\* A step that adds no row, and neither makes an application untouched again nor moves a
\* worker.
LEMMA RowStepKeeps ==
  ASSUME IInv, UNCHANGED <<created, wk>>, TypeOK', WithinBudget', AppsFit', ReportsFit',
         \A a \in Apps : app[a].stage # "applied" => app'[a].stage # "applied",
         \A r \in RunIds :
           \/ run'[r] = run[r]
           \/ /\ RowFits(run'[r]) /\ run'[r].app = run[r].app
              /\ run[r].status \in Open
              /\ run'[r].status # "absent"
              /\ run'[r].status \in Ended => run'[r].superseded
  PROVE  IInv'
<1>1. \A r \in RunIds : /\ RowFits(run'[r]) /\ run'[r].app = run[r].app
                        /\ run'[r].status \in Open => run[r].status \in Open
                        /\ run[r].status = "absent" <=> run'[r].status = "absent"
                        /\ run'[r].status # "absent" => run'[r].app \in Apps
  BY DEF IInv, RowsFit, RowFits, Open, Waiting, NotStarted
<1>2. RowsFit' /\ OneOpenRun'
  BY <1>1, RowsStay DEF TypeOK
<1>3. HandoffDone'
  BY <1>1, HandoffStays DEF Ended
<1>4. WorkersFit'
  <2> SUFFICES ASSUME NEW w \in Workers PROVE WorkerFits(w)'
    BY DEF WorkersFit
  <2>1. WorkerFits(w) /\ wk' = wk
    BY DEF IInv, WorkersFit
  <2>2. wk[w].pc # "idle" => /\ wk[w].run \in RunIds /\ run'[wk[w].run].status # "absent"
                             /\ run'[wk[w].run].app = run[wk[w].run].app
                             /\ run'[wk[w].run].app \in Apps
    BY <1>1, <2>1 DEF WorkerFits
  <2> QED BY <2>1, <2>2 DEF WorkerFits, AppOf
<1> QED BY <1>2, <1>3, <1>4 DEF IInv

LEMMA SameBudget ==
  ASSUME IInv, UNCHANGED <<job, plan, hrLeft>>, \A j \in Jobs : Promised(j)' = Promised(j)
  PROVE  WithinBudget'
BY DEF IInv, WithinBudget

LEMMA HrSpends ==
  ASSUME IInv, UNCHANGED <<job, plan, todo>>, HrAction
  PROVE  hrLeft' \in Nat /\ WithinBudget'
<1>1. hrLeft' \in Nat /\ hrLeft' = hrLeft - 1 /\ hrLeft \in Nat
  BY DEF IInv, TypeOK, HrAction
<1>2. \A j \in Jobs : Promised(j)' = Promised(j)
  BY DEF Promised
<1> QED BY <1>1, <1>2, Budgets, BudgetStays

LEMMA GetStateKeeps ==
  ASSUME NEW a \in Apps, IInv, GetState(a)
  PROVE  IInv'
<1>1. /\ report' = [report EXCEPT ![a] = Reconciled(job[JobOf[a]], a)]
      /\ UNCHANGED <<job, plan, text, app, run, created, wk, todo, batch, hrLeft, faultsLeft>>
  BY DEF GetState, inputs
<1>2. report' \in [Apps -> Report] /\ ReportsFit'
  BY <1>1, ReconciledFits DEF IInv, TypeOK, ReportsFit
<1>3. TypeOK' /\ AppsFit' /\ WithinBudget'
  BY <1>1, <1>2 DEF IInv, TypeOK, AppsFit, WithinBudget, Promised
<1> QED BY <1>1, <1>2, <1>3, RowStepKeeps

LEMMA RunsOfFits ==
  ASSUME NEW a, NEW statuses, NEW r
  PROVE  r \in RunsOf(a, statuses) <=> r \in RunIds /\ run[r].app = a /\ run[r].status \in statuses
BY DEF RunsOf

LEMMA SwitchResumeKeeps ==
  ASSUME NEW a \in Apps, IInv, SwitchResume(a)
  PROVE  IInv'
<1>1. /\ app' = [app EXCEPT ![a].resume = 3 - @]
      /\ report' = [report EXCEPT ![a].outdated = report[a].exists]
      /\ run' = [r \in RunIds |-> IF r \in RunsOf(a, NotStarted) THEN Failed(run[r], TRUE) ELSE run[r]]
      /\ UNCHANGED <<job, plan, text, created, wk, todo, batch, faultsLeft>> /\ HrAction
  BY DEF SwitchResume, inputs
<1>2. app' \in [Apps -> Application] /\ AppsFit' /\ \A b \in Apps : app'[b].stage = app[b].stage
  BY <1>1 DEF IInv, TypeOK, Application, Resumes, AppsFit, DecisionFits
<1>3. report' \in [Apps -> Report] /\ ReportsFit'
  BY <1>1 DEF IInv, TypeOK, Report, ReportsFit
<1>4. \A r \in RunIds :
        /\ run'[r] \in Row
        /\ \/ run'[r] = run[r]
           \/ /\ RowFits(run'[r]) /\ run'[r].app = run[r].app
              /\ run[r].status \in Open /\ run'[r].status = "failed" /\ run'[r].superseded
  <2> SUFFICES ASSUME NEW r \in RunIds
               PROVE  /\ run'[r] \in Row
                      /\ \/ run'[r] = run[r]
                         \/ /\ RowFits(run'[r]) /\ run'[r].app = run[r].app
                            /\ run[r].status \in Open /\ run'[r].status = "failed" /\ run'[r].superseded
    OBVIOUS
  <2>1. run[r] \in Row
    BY DEF IInv, TypeOK
  <2>2. CASE r \in RunsOf(a, NotStarted)
    <3>1. run'[r] = Failed(run[r], TRUE) /\ run[r].app \in Apps /\ run[r].status \in Open
      BY <1>1, <2>2 DEF RunsOf, Open
    <3> QED BY <2>1, <3>1, FailedFits
  <2> QED BY <1>1, <2>1, <2>2
<1>5. WithinBudget' /\ hrLeft' \in Nat
  BY <1>1, HrSpends
<1>6. run' \in [RunIds -> Row]
  BY <1>1, <1>4
<1>7. TypeOK'
  BY <1>1, <1>2, <1>3, <1>5, <1>6 DEF IInv, TypeOK
<1> QED BY <1>1, <1>2, <1>3, <1>4, <1>5, <1>7, RowStepKeeps

LEMMA HrDecidesKeeps ==
  ASSUME NEW a \in Apps, IInv, HrDecides(a)
  PROVE  IInv'
<1>1. /\ \/ /\ app[a].active /\ app[a].decision = "pending"
            /\ app' = [app EXCEPT ![a].decision = "passed", ![a].stage = "screening_passed"]
         \/ /\ app[a].active
            /\ app' = [app EXCEPT ![a].decision = "rejected", ![a].stage = "rejected",
                                  ![a].active = FALSE]
         \/ /\ ~app[a].active
            /\ app' = [app EXCEPT ![a].decision = "pending", ![a].stage = "hr_review",
                                  ![a].active = TRUE]
      /\ UNCHANGED <<job, plan, text, run, created, report, wk, todo, batch, faultsLeft>> /\ HrAction
  BY DEF HrDecides, inputs
<1>2. /\ app' \in [Apps -> Application] /\ AppsFit'
      /\ \A b \in Apps : app[b].stage # "applied" => app'[b].stage # "applied"
  <2>1. PICK next : app' = [app EXCEPT ![a] = next]
                    /\ next \in Application /\ DecisionFits(next) /\ next.stage # "applied"
    <3>1. app[a] \in Application /\ DecisionFits(app[a])
      BY DEF IInv, TypeOK, AppsFit
    <3>2. CASE app' = [app EXCEPT ![a].decision = "passed", ![a].stage = "screening_passed"]
      <4>1. app[a].active
        BY <1>1, <3>1, <3>2 DEF IInv, TypeOK, Application
      <4> DEFINE next == [app[a] EXCEPT !.decision = "passed", !.stage = "screening_passed"]
      <4>2. next \in Application /\ DecisionFits(next) /\ next.stage # "applied"
        BY <3>1, <4>1 DEF Application, DecisionFits
      <4>3. app' = [app EXCEPT ![a] = next]
        BY <3>2
      <4> QED BY <4>2, <4>3
    <3>3. CASE app' = [app EXCEPT ![a].decision = "rejected", ![a].stage = "rejected", ![a].active = FALSE]
      <4> DEFINE next == [app[a] EXCEPT !.decision = "rejected", !.stage = "rejected", !.active = FALSE]
      <4>1. next \in Application /\ DecisionFits(next) /\ next.stage # "applied"
        BY <3>1 DEF Application, DecisionFits
      <4>2. app' = [app EXCEPT ![a] = next]
        BY <3>3
      <4> QED BY <4>1, <4>2
    <3>4. CASE app' = [app EXCEPT ![a].decision = "pending", ![a].stage = "hr_review", ![a].active = TRUE]
      <4> DEFINE next == [app[a] EXCEPT !.decision = "pending", !.stage = "hr_review", !.active = TRUE]
      <4>1. next \in Application /\ DecisionFits(next) /\ next.stage # "applied"
        BY <3>1 DEF Application, DecisionFits
      <4>2. app' = [app EXCEPT ![a] = next]
        BY <3>4
      <4> QED BY <4>1, <4>2
    <3> QED BY <1>1, <3>2, <3>3, <3>4
  <2> QED BY <2>1 DEF IInv, TypeOK, AppsFit
<1>3. WithinBudget' /\ hrLeft' \in Nat
  BY <1>1, HrSpends
<1>4. TypeOK' /\ ReportsFit'
  BY <1>1, <1>2, <1>3 DEF IInv, TypeOK, ReportsFit
<1> QED BY <1>1, <1>2, <1>3, <1>4, RowStepKeeps

\* A run that waits takes the present input, or gives way to another one that is open.
LEMMA ReconcileWaitingFits ==
  ASSUME IInv, NEW a \in Apps, ReconcileWaiting(a)
  PROVE  /\ run' \in [RunIds -> Row]
         /\ \A r \in RunIds :
              \/ run'[r] = run[r]
              \/ /\ RowFits(run'[r]) /\ run'[r].app = run[r].app
                 /\ run[r].status \in Open /\ run'[r].status \in NotStarted
<1> DEFINE jb == job[JobOf[a]]
           waiting == RunsOf(a, Waiting)
           last == CHOOSE q \in waiting : \A p \in waiting : p <= q
<1>1. CASE UNCHANGED run
  BY <1>1 DEF IInv, TypeOK
<1>2. CASE ~UNCHANGED run
  <2>1. /\ waiting # {}
        /\ run' = [run EXCEPT ![last] = IF RunsOf(a, Open) # {last} THEN Failed(@, TRUE)
                                        ELSE WithInput(@, Desired(jb, a), InputOf(jb, a))]
    BY <1>2 DEF ReconcileWaiting
  <2>2. PICK r \in RunIds : run[r].app = a /\ run[r].status \in Waiting
    BY <2>1 DEF RunsOf
  <2>3. \A q \in RunIds : run[q].app = a /\ run[q].status \in Open => q = r
    BY <2>2 DEF IInv, OneOpenRun, Open, NotStarted
  <2>4. waiting = {r} /\ RunsOf(a, Open) = {r}
    BY <2>2, <2>3 DEF RunsOf, Open, NotStarted
  <2>5. last = r
    BY <2>4, Constants DEF RunIds
  <2>6. run[r] \in Row /\ run[r].owner = NoWorker
    BY <2>2 DEF IInv, TypeOK, Row, RowsFit, RowFits, Waiting
  <2>7. InputOf(jb, a) \in Fingerprint /\ Desired(jb, a) \in NotStarted
    BY JobsTyped, InputTyped
  <2> DEFINE written == WithInput(run[r], Desired(jb, a), InputOf(jb, a))
  <2>8. run' = [run EXCEPT ![r] = written]
    BY <2>1, <2>4, <2>5
  <2>9. /\ written \in Row /\ RowFits(written) /\ written.app = a
        /\ written.status \in NotStarted
    BY <2>2, <2>6, <2>7, WithInputFits
  <2> HIDE DEF written
  <2> QED BY <2>2, <2>8, <2>9 DEF IInv, TypeOK, Open, NotStarted
<1> QED BY <1>1, <1>2

LEMMA NotStartedIsOpen ==
  ASSUME NEW status \in NotStarted
  PROVE  status # "absent" /\ status \notin Ended
BY DEF NotStarted, Waiting, Ended

LEMMA AfterReadyKeeps ==
  ASSUME NEW a \in Apps, IInv, AfterReady(a)
  PROVE  IInv'
<1>1. PICK call \in {"text", "reconcile"} : todo' = todo \ {<<call, a>>}
  BY DEF AfterReady
<1>2. /\ ReconcileWaiting(a)
      /\ UNCHANGED <<job, plan, text, app, created, report, wk, batch, hrLeft, faultsLeft>>
  BY DEF AfterReady, inputs
<1>3. \A j \in Jobs : Promised(j)' = Promised(j)
  BY <1>1 DEF Promised
<1>4. WithinBudget'
  BY <1>2, <1>3, SameBudget
<1>5. TypeOK' /\ AppsFit' /\ ReportsFit'
  BY <1>1, <1>2, ReconcileWaitingFits DEF IInv, TypeOK, AppsFit, ReportsFit
<1> QED BY <1>2, <1>4, <1>5, ReconcileWaitingFits, NotStartedIsOpen, RowStepKeeps

LEMMA AfterPlanChangedKeeps ==
  ASSUME NEW a \in Apps, IInv, AfterPlanChanged(a)
  PROVE  IInv'
<1>1. /\ todo' = todo \ {<<"plan", a>>}
      /\ report' = [report EXCEPT ![a] = Reconciled(job[JobOf[a]], a)]
      /\ UNCHANGED run \/ ReconcileWaiting(a)
      /\ UNCHANGED <<job, plan, text, app, created, wk, batch, hrLeft, faultsLeft>>
  BY DEF AfterPlanChanged, inputs
<1>2. \A j \in Jobs : Promised(j)' = Promised(j)
  BY <1>1 DEF Promised
<1>3. WithinBudget'
  BY <1>1, <1>2, SameBudget
<1>4. report' \in [Apps -> Report] /\ ReportsFit'
  BY <1>1, ReconciledFits DEF IInv, TypeOK, ReportsFit
<1>5. /\ run' \in [RunIds -> Row]
      /\ \A r \in RunIds :
           \/ run'[r] = run[r]
           \/ /\ RowFits(run'[r]) /\ run'[r].app = run[r].app
              /\ run[r].status \in Open /\ run'[r].status \in NotStarted
  BY <1>1, ReconcileWaitingFits DEF IInv, TypeOK
<1>6. TypeOK' /\ AppsFit'
  BY <1>1, <1>4, <1>5 DEF IInv, TypeOK, AppsFit
<1> QED BY <1>1, <1>3, <1>4, <1>5, <1>6, NotStartedIsOpen, RowStepKeeps

LEMMA AfterJobClosedKeeps ==
  ASSUME NEW j \in Jobs, IInv, AfterJobClosed(j)
  PROVE  IInv'
<1>1. /\ todo' = todo \ {<<"closed", j>>}
      /\ run' = [r \in RunIds |->
                   IF run[r].app \in AppsOf(j) /\ run[r].status \in NotStarted \ {"paused"}
                   THEN [run[r] EXCEPT !.status = "paused", !.reason = "job_closed"] ELSE run[r]]
      /\ UNCHANGED <<job, plan, text, app, created, report, wk, batch, hrLeft, faultsLeft>>
  BY DEF AfterJobClosed, inputs
<1>2. \A i \in Jobs : Promised(i)' = Promised(i)
  BY <1>1 DEF Promised
<1>3. WithinBudget'
  BY <1>1, <1>2, SameBudget
<1>4. \A r \in RunIds :
        /\ run'[r] \in Row
        /\ \/ run'[r] = run[r]
           \/ /\ RowFits(run'[r]) /\ run'[r].app = run[r].app
              /\ run[r].status \in Open /\ run'[r].status \in NotStarted
  <2> SUFFICES ASSUME NEW r \in RunIds, run'[r] # run[r]
               PROVE  /\ run'[r] \in Row /\ RowFits(run'[r]) /\ run'[r].app = run[r].app
                      /\ run[r].status \in Open /\ run'[r].status \in NotStarted
    BY DEF IInv, TypeOK
  <2>1. run[r] \in Row /\ RowFits(run[r])
    BY DEF IInv, TypeOK, RowsFit
  <2>2. /\ run[r].status \in NotStarted
        /\ run'[r] = [run[r] EXCEPT !.status = "paused", !.reason = "job_closed"]
    BY <1>1
  <2> QED BY <2>1, <2>2 DEF Row, RowFits, Open, NotStarted, Waiting
<1>5. run' \in [RunIds -> Row]
  BY <1>1, <1>4
<1>6. TypeOK' /\ AppsFit' /\ ReportsFit'
  BY <1>1, <1>5 DEF IInv, TypeOK, AppsFit, ReportsFit
<1> QED BY <1>1, <1>3, <1>4, <1>6, NotStartedIsOpen, RowStepKeeps

LEMMA LeaseRunsOutKeeps ==
  ASSUME NEW r \in RunIds, IInv, LeaseRunsOut(r)
  PROVE  IInv'
<1>1. /\ run[r].status = "running" /\ run' = [run EXCEPT ![r].over = TRUE]
      /\ UNCHANGED <<job, plan, text, app, created, report, wk, todo, batch, hrLeft>>
  BY DEF LeaseRunsOut, inputs
<1>2. faultsLeft' \in Nat
  BY DEF LeaseRunsOut, Fault, IInv, TypeOK
<1>3. WithinBudget'
  BY <1>1, SameBudget DEF Promised
<1>4. /\ run' \in [RunIds -> Row]
      /\ \A q \in RunIds :
           \/ run'[q] = run[q]
           \/ /\ RowFits(run'[q]) /\ run'[q].app = run[q].app
              /\ run[q].status = "running" /\ run'[q].status = "running"
  <2>1. run[r] \in Row /\ RowFits(run[r])
    BY DEF IInv, TypeOK, RowsFit
  <2>2. [run[r] EXCEPT !.over = TRUE] \in Row /\ RowFits([run[r] EXCEPT !.over = TRUE])
    BY <2>1 DEF Row, RowFits
  <2> QED BY <1>1, <2>1, <2>2 DEF IInv, TypeOK, Row
<1>5. TypeOK' /\ AppsFit' /\ ReportsFit'
  BY <1>1, <1>2, <1>4 DEF IInv, TypeOK, AppsFit, ReportsFit
<1> QED BY <1>1, <1>3, <1>4, <1>5, RowStepKeeps DEF Open, Ended

-----------------------------------------------------------------------------
(* The worker *)

\* A worker's step leaves the other workers with rows that exist, and ends a run only when
\* its application is in review.
LEMMA WorkerStepKeeps ==
  ASSUME IInv, NEW w \in Workers, NEW next, wk' = [wk EXCEPT ![w] = next],
         UNCHANGED created, TypeOK', WithinBudget', AppsFit', ReportsFit', WorkerFits(w)',
         \A a \in Apps : app[a].stage # "applied" => app'[a].stage # "applied",
         \A r \in RunIds :
           \/ run'[r] = run[r]
           \/ /\ RowFits(run'[r]) /\ run'[r].app = run[r].app
              /\ run[r].status # "absent" /\ run'[r].status # "absent"
              /\ run'[r].status \in Open => run[r].status \in Open
              /\ run'[r].status \in Ended => app'[run[r].app].stage # "applied"
  PROVE  IInv'
<1>1. \A r \in RunIds : /\ RowFits(run'[r]) /\ run'[r].app = run[r].app
                        /\ run'[r].status \in Open => run[r].status \in Open
                        /\ run[r].status = "absent" <=> run'[r].status = "absent"
                        /\ run'[r].status # "absent" => run'[r].app \in Apps
  BY DEF IInv, RowsFit, RowFits
<1>2. RowsFit' /\ OneOpenRun'
  BY <1>1, RowsStay DEF TypeOK
<1>3. HandoffDone'
  BY <1>1, HandoffStays DEF Ended
<1>4. WorkersFit'
  <2> SUFFICES ASSUME NEW v \in Workers, v # w PROVE WorkerFits(v)'
    BY DEF WorkersFit
  <2>1. WorkerFits(v) /\ wk'[v] = wk[v]
    BY DEF IInv, TypeOK, WorkersFit
  <2>2. wk[v].pc # "idle" => /\ wk[v].run \in RunIds /\ run'[wk[v].run].status # "absent"
                             /\ run'[wk[v].run].app = run[wk[v].run].app
                             /\ run'[wk[v].run].app \in Apps
    BY <1>1, <2>1 DEF WorkerFits
  <2> QED BY <2>1, <2>2 DEF WorkerFits, AppOf
<1> QED BY <1>2, <1>3, <1>4 DEF IInv

\* The row and the application of a worker that is not idle.
LEMMA WorkerHasRun ==
  ASSUME IInv, NEW w \in Workers, wk[w].pc # "idle"
  PROVE  /\ wk[w].run \in RunIds /\ run[wk[w].run] \in Row
         /\ run[wk[w].run].status # "absent" /\ AppOf(w) \in Apps
         /\ wk[w] \in Worker
BY DEF IInv, TypeOK, WorkersFit, WorkerFits, RowsFit, RowFits, AppOf

LEMMA IdleTyped == Idle \in Worker /\ Idle.pc = "idle"
<1>1. NoInput \in Fingerprint
  BY Constants DEF NoInput, Fingerprint, Versions, Resumes
<1>2. NewApplication \in Application
  BY DEF NewApplication, Application, Resumes
<1> QED BY <1>1, <1>2 DEF Idle, Worker

\* A step that writes no row, report or application: only the worker itself moves.
LEMMA WorkerMovesOnly ==
  ASSUME IInv, NEW w \in Workers, NEW next \in Worker, wk' = [wk EXCEPT ![w] = next],
         UNCHANGED <<job, plan, text, app, run, created, report, todo, batch, hrLeft>>,
         faultsLeft' \in Nat, WorkerFits(w)'
  PROVE  IInv'
<1>1. TypeOK'
  BY DEF IInv, TypeOK
<1>2. WithinBudget' /\ AppsFit' /\ ReportsFit'
  BY DEF IInv, WithinBudget, Promised, AppsFit, ReportsFit
<1> QED BY <1>1, <1>2, WorkerStepKeeps

LEMMA ClaimNextRunKeeps ==
  ASSUME NEW w \in Workers, IInv, ClaimNextRun(w)
  PROVE  IInv'
<1> DEFINE rows == [r \in RunIds |-> Requeued(run[r])]
           queued == {r \in RunIds : rows[r].status = "queued"}
           first == CHOOSE q \in queued : \A p \in queued : q <= p
<1>1. /\ queued # {} /\ UNCHANGED <<job, plan, text, app, created, report, todo, batch, hrLeft, faultsLeft>>
      /\ \/ /\ run' = [rows EXCEPT ![first].status = "running", ![first].owner = w]
            /\ wk' = [wk EXCEPT ![w] = [Idle EXCEPT !.pc = "read", !.run = first]]
         \/ /\ run' = [rows EXCEPT ![first].status = "paused", ![first].reason = "job_closed"]
            /\ UNCHANGED wk
  BY DEF ClaimNextRun, inputs
<1>2. first \in queued
  BY <1>1, OldestExists
<1>3. PICK r \in RunIds : r = first /\ rows[r].status = "queued"
  BY <1>2
<1> HIDE DEF first
<1>4. \A q \in RunIds :
        /\ rows[q] \in Row /\ RowFits(rows[q]) /\ rows[q].app = run[q].app
        /\ \/ rows[q] = run[q]
           \/ run[q].status = "running" /\ rows[q].status = "queued"
  <2> SUFFICES ASSUME NEW q \in RunIds
               PROVE  /\ Requeued(run[q]) \in Row /\ RowFits(Requeued(run[q]))
                      /\ Requeued(run[q]).app = run[q].app
                      /\ \/ Requeued(run[q]) = run[q]
                         \/ run[q].status = "running" /\ Requeued(run[q]).status = "queued"
    OBVIOUS
  <2>1. run[q] \in Row /\ RowFits(run[q])
    BY DEF IInv, TypeOK, RowsFit
  <2>2. NoWorker \in Workers \cup {NoWorker} /\ "queued" \in Open
    BY DEF Open, NotStarted
  <2>3. CASE run[q].status = "running" /\ run[q].over
    <3>1. Requeued(run[q]) = [run[q] EXCEPT !.status = "queued", !.owner = NoWorker, !.over = FALSE]
      BY <2>3 DEF Requeued
    <3> QED BY <2>1, <2>2, <2>3, <3>1 DEF Row, RowFits
  <2> QED BY <2>1, <2>3 DEF Requeued
<1>5. rows[r] \in Row /\ RowFits(rows[r]) /\ rows[r].app = run[r].app /\ run[r].status \in {"queued", "running"}
  BY <1>3, <1>4
<1>6. rows \in [RunIds -> Row]
  BY <1>4
<1> HIDE DEF rows, queued
<1>7. AppsFit' /\ ReportsFit' /\ WithinBudget'
  BY <1>1 DEF IInv, AppsFit, ReportsFit, WithinBudget, Promised
<1>8. CASE /\ run' = [rows EXCEPT ![first].status = "running", ![first].owner = w]
           /\ wk' = [wk EXCEPT ![w] = [Idle EXCEPT !.pc = "read", !.run = first]]
  <2> DEFINE claimed == [rows[r] EXCEPT !.status = "running", !.owner = w]
             next == [Idle EXCEPT !.pc = "read", !.run = r]
  <2>1. /\ claimed \in Row /\ RowFits(claimed) /\ claimed.app = run[r].app
        /\ claimed.status = "running"
    BY <1>3, <1>5, Constants DEF Row, RowFits, Open
  <2>2. next \in Worker /\ next.pc = "read" /\ next.run = r /\ next.calls = 0 /\ ~next.retried
    BY IdleTyped DEF Idle, Worker
  <2>3. run' = [rows EXCEPT ![r] = claimed] /\ wk' = [wk EXCEPT ![w] = next]
    BY <1>3, <1>8
  <2> HIDE DEF claimed, next
  <2>4. run' \in [RunIds -> Row] /\ wk' \in [Workers -> Worker]
    BY <1>6, <2>1, <2>2, <2>3 DEF IInv, TypeOK
  <2>5. \A q \in RunIds : run'[q] = IF q = r THEN claimed ELSE rows[q]
    BY <1>6, <2>3
  <2>6. \A q \in RunIds :
           \/ run'[q] = run[q]
           \/ /\ RowFits(run'[q]) /\ run'[q].app = run[q].app
              /\ run[q].status \in {"queued", "running"} /\ run'[q].status \in {"queued", "running"}
    BY <1>4, <1>5, <2>1, <2>5
  <2>7. TypeOK'
    BY <1>1, <2>4 DEF IInv, TypeOK
  <2>8. WorkerFits(w)'
    BY <2>1, <2>2, <2>3, <2>5 DEF IInv, TypeOK, WorkerFits
  <2> QED BY <1>1, <1>7, <2>3, <2>6, <2>7, <2>8, WorkerStepKeeps DEF Open, NotStarted, Ended
<1>9. CASE /\ run' = [rows EXCEPT ![first].status = "paused", ![first].reason = "job_closed"]
           /\ UNCHANGED wk
  <2> DEFINE paused == [rows[r] EXCEPT !.status = "paused", !.reason = "job_closed"]
  <2>1. /\ paused \in Row /\ RowFits(paused) /\ paused.app = run[r].app
        /\ paused.status = "paused"
    BY <1>3, <1>5 DEF Row, RowFits, Open, NotStarted, Waiting
  <2>2. run' = [rows EXCEPT ![r] = paused]
    BY <1>3, <1>9
  <2> HIDE DEF paused
  <2>3. run' \in [RunIds -> Row]
    BY <1>6, <2>1, <2>2
  <2>4. \A q \in RunIds : run'[q] = IF q = r THEN paused ELSE rows[q]
    BY <1>6, <2>2
  <2>5. \A q \in RunIds :
           \/ run'[q] = run[q]
           \/ /\ RowFits(run'[q]) /\ run'[q].app = run[q].app
              /\ run[q].status \in {"queued", "running"} /\ run'[q].status \in {"queued", "paused"}
    BY <1>4, <1>5, <2>1, <2>4
  <2>6. TypeOK'
    BY <1>1, <1>9, <2>3 DEF IInv, TypeOK
  <2> QED BY <1>1, <1>7, <1>9, <2>5, <2>6, RowStepKeeps DEF Open, NotStarted, Waiting, Ended
<1> QED BY <1>1, <1>8, <1>9

LEMMA ReadInputKeeps ==
  ASSUME NEW w \in Workers, IInv, ReadInput(w)
  PROVE  IInv'
<1> DEFINE a == AppOf(w)
           jb == job[JobOf[a]]
           input == InputOf(jb, a)
           usable == input = run[wk[w].run].input /\ input.text /\ PlanReady(jb, JobOf[a])
           next == [wk[w] EXCEPT !.pc = IF usable THEN "call" ELSE "refuse",
                                 !.input = input, !.seen = IF usable THEN @ ELSE app[a]]
<1>1. /\ wk[w].pc = "read" /\ wk' = [wk EXCEPT ![w] = next]
      /\ UNCHANGED <<job, plan, text, app, run, created, report, todo, batch, hrLeft, faultsLeft>>
  BY DEF ReadInput, inputs
<1>2. /\ a \in Apps /\ wk[w] \in Worker /\ wk[w].run \in RunIds /\ run[wk[w].run].status # "absent"
      /\ wk[w].calls = 0 /\ ~wk[w].retried
  BY <1>1, WorkerHasRun DEF IInv, WorkersFit, WorkerFits
<1>3. input \in Fingerprint /\ app[a] \in Application /\ DecisionFits(app[a])
  BY <1>2, JobsTyped, InputTyped DEF IInv, TypeOK, AppsFit
<1>4. usable => input.state = "ready"
  BY DEF PlanReady, InputOf
<1> HIDE DEF a, input, usable
<1>5. /\ next \in Worker /\ next.run = wk[w].run /\ next.calls = 0 /\ ~next.retried
      /\ next.input = input
      /\ \/ usable /\ next.pc = "call"
         \/ next.pc = "refuse" /\ next.seen = app[a]
  BY <1>2, <1>3 DEF Worker
<1>6. wk'[w] = next /\ run' = run /\ app' = app
  BY <1>1 DEF IInv, TypeOK
<1> HIDE DEF next
<1>7. WorkerFits(w)'
  BY <1>2, <1>3, <1>4, <1>5, <1>6 DEF WorkerFits, AppOf, a
<1>8. faultsLeft' \in Nat
  BY <1>1 DEF IInv, TypeOK
<1> QED BY <1>1, <1>5, <1>7, <1>8, WorkerMovesOnly

LEMMA CallModelKeeps ==
  ASSUME NEW w \in Workers, IInv, CallModel(w)
  PROVE  IInv'
<1>1. PICK pc \in {"save", "fail", "call", "repair"} :
        /\ wk[w].pc \in {"call", "repair"}
        /\ pc = "call" => wk[w].pc = "call" /\ ~wk[w].retried
        /\ pc = "repair" => wk[w].pc = "call"
        /\ wk' = [wk EXCEPT ![w].pc = pc, ![w].calls = @ + 1, ![w].retried = @ \/ pc = "call"]
  BY DEF CallModel, MayRetry
<1>2. UNCHANGED <<job, plan, text, app, run, created, report, todo, batch, hrLeft, faultsLeft>>
  BY DEF CallModel, inputs
<1>3. wk[w] \in Worker /\ WorkerFits(w) /\ faultsLeft' \in Nat
  BY <1>2 DEF IInv, TypeOK, WorkersFit
<1> DEFINE next == [wk[w] EXCEPT !.pc = pc, !.calls = @ + 1, !.retried = @ \/ pc = "call"]
<1>4. wk' = [wk EXCEPT ![w] = next]
  BY <1>1
<1>5. wk[w].calls \in 0..2 /\ (wk[w].pc = "call" => wk[w].calls = IF wk[w].retried THEN 1 ELSE 0)
  BY <1>1, <1>3 DEF WorkerFits
<1>6. /\ next \in Worker /\ next.run = wk[w].run /\ next.pc = pc /\ next.input = wk[w].input
      /\ next.calls = wk[w].calls + 1 /\ next.retried = (wk[w].retried \/ pc = "call")
  <2>1. PICK n \in 0..2 : n = wk[w].calls
    BY <1>5
  <2>2. n + 1 \in 0..3
    OBVIOUS
  <2>3. PICK retried \in BOOLEAN : retried = (wk[w].retried \/ pc = "call")
    BY Zenon
  <2>4. next = [wk[w] EXCEPT !.pc = pc, !.calls = n + 1, !.retried = retried]
    BY <1>3, <2>1, <2>3 DEF Worker
  <2> HIDE DEF next
  <2> QED BY <1>3, <2>1, <2>2, <2>3, <2>4 DEF Worker
<1>7. wk'[w] = next /\ run' = run
  BY <1>2, <1>4 DEF IInv, TypeOK
<1> HIDE DEF next
<1>8. /\ pc = "call" => next.calls = 1 /\ next.retried
      /\ pc = "repair" => next.calls \in 1..2
  <2>1. pc \in {"call", "repair"} => wk[w].pc = "call" /\ wk[w].calls \in 0..1
    BY <1>1, <1>5
  <2>2. pc = "call" => wk[w].calls = 0
    BY <1>1, <1>5
  <2>3. pc = "call" => next.retried
    BY <1>6, Zenon
  <2> QED BY <1>6, <2>1, <2>2, <2>3
<1>9. WorkerFits(w)'
  <2>1. wk[w].run \in RunIds /\ run[wk[w].run].status # "absent" /\ wk[w].input.state = "ready"
    BY <1>1, <1>3 DEF WorkerFits
  <2> QED BY <1>6, <1>7, <1>8, <2>1 DEF WorkerFits
<1> QED BY <1>2, <1>3, <1>4, <1>6, <1>9, WorkerMovesOnly

LEMMA SaveRefusedKeeps ==
  ASSUME NEW w \in Workers, IInv, SaveRefused(w)
  PROVE  IInv'
<1> DEFINE next == [wk[w] EXCEPT !.pc = "fail"]
<1>1. /\ wk[w].pc = "save" /\ wk' = [wk EXCEPT ![w] = next] /\ faultsLeft' \in Nat
      /\ UNCHANGED <<job, plan, text, app, run, created, report, todo, batch, hrLeft>>
  BY DEF SaveRefused, Goto, Fault, inputs, IInv, TypeOK
<1>2. wk[w] \in Worker /\ WorkerFits(w)
  BY DEF IInv, TypeOK, WorkersFit
<1>3. next \in Worker /\ next.pc = "fail" /\ next.run = wk[w].run
  BY <1>2 DEF Worker
<1>4. wk'[w] = next /\ run' = run
  BY <1>1 DEF IInv, TypeOK
<1> HIDE DEF next
<1>5. WorkerFits(w)'
  BY <1>1, <1>2, <1>3, <1>4 DEF WorkerFits
<1> QED BY <1>1, <1>3, <1>5, WorkerMovesOnly

LEMMA CrashKeeps ==
  ASSUME NEW w \in Workers, IInv, Crash(w)
  PROVE  IInv'
<1>1. /\ wk' = [wk EXCEPT ![w] = Idle] /\ faultsLeft' \in Nat
      /\ UNCHANGED <<job, plan, text, app, run, created, report, todo, batch, hrLeft>>
  BY DEF Crash, Fault, inputs, IInv, TypeOK
<1>2. wk'[w] = Idle
  BY <1>1 DEF IInv, TypeOK
<1>3. WorkerFits(w)'
  BY <1>2, IdleTyped DEF WorkerFits
<1> QED BY <1>1, <1>3, IdleTyped, WorkerMovesOnly

\* The hand-over looks at the application as the session holds it; that is no further than
\* the application is, and an inactive one is left to the database's check.
LEMMA HandedOffFits ==
  ASSUME IInv, NEW a \in Apps, NEW seen, DecisionFits(seen),
         seen.stage # "applied" => app[a].stage # "applied",
         seen.stage = "applied" => app[a].active
  PROVE  /\ HandedOff(a, seen) \in [Apps -> Application]
         /\ \A b \in Apps : DecisionFits(HandedOff(a, seen)[b])
         /\ HandedOff(a, seen)[a].stage # "applied"
         /\ \A b \in Apps : app[b].stage # "applied" => HandedOff(a, seen)[b].stage # "applied"
<1>1. app \in [Apps -> Application] /\ \A b \in Apps : DecisionFits(app[b])
  BY DEF IInv, TypeOK, AppsFit
<1>2. CASE seen.stage = "applied"
  <2> DEFINE next == [app[a] EXCEPT !.stage = "hr_review"]
  <2>1. HandedOff(a, seen) = [app EXCEPT ![a] = next]
    BY <1>2 DEF HandedOff, DecisionFits
  <2>2. next \in Application /\ DecisionFits(next) /\ next.stage = "hr_review"
    BY <1>1, <1>2 DEF Application, DecisionFits
  <2> HIDE DEF next
  <2> QED BY <1>1, <2>1, <2>2
<1>3. CASE seen.stage # "applied"
  BY <1>1, <1>3 DEF HandedOff
<1> QED BY <1>2, <1>3

LEMMA SaveSuccessKeeps ==
  ASSUME NEW w \in Workers, IInv, SaveSuccess(w)
  PROVE  IInv'
<1> DEFINE a == AppOf(w)
           r == wk[w].run
           saved == [exists |-> TRUE, outdated |-> FALSE, input |-> wk[w].input]
<1>1. /\ wk[w].pc = "save" /\ app' = HandedOff(a, app[a]) /\ wk' = [wk EXCEPT ![w] = Idle]
      /\ UNCHANGED <<job, plan, text, created, todo, batch, hrLeft, faultsLeft>>
      /\ \/ /\ run' = [run EXCEPT ![r] = [Failed(@, FALSE) EXCEPT !.status = "succeeded"]]
            /\ report' = [report EXCEPT ![a] = saved]
         \/ run' = [run EXCEPT ![r] = Failed(@, FALSE)] /\ UNCHANGED report
  BY DEF SaveSuccess, inputs
<1>2. a \in Apps /\ r \in RunIds /\ run[r] \in Row /\ run[r].status # "absent" /\ wk[w] \in Worker
      /\ run[r].app = a
  BY <1>1, WorkerHasRun DEF AppOf
<1>3. DecisionFits(app[a])
  BY <1>2 DEF IInv, AppsFit
<1>4. app[a].stage = "applied" => app[a].active
  BY <1>3 DEF DecisionFits
<1>5. /\ app' \in [Apps -> Application] /\ AppsFit' /\ app'[a].stage # "applied"
      /\ \A b \in Apps : app[b].stage # "applied" => app'[b].stage # "applied"
  BY <1>1, <1>2, <1>3, <1>4, HandedOffFits DEF AppsFit
<1>6. saved \in Report /\ saved.exists /\ ~saved.outdated
  BY <1>2 DEF Worker, Report
<1>7. report' \in [Apps -> Report] /\ ReportsFit'
  <2> HIDE DEF saved, a
  <2> QED BY <1>1, <1>2, <1>6, ZenonT(60) DEF IInv, TypeOK, ReportsFit
<1>8. PICK ended \in Row : /\ run' = [run EXCEPT ![r] = ended]
                           /\ RowFits(ended) /\ ended.app = a /\ ended.status \in Ended
  <2> DEFINE failed == Failed(run[r], FALSE)
             succeeded == [failed EXCEPT !.status = "succeeded"]
  <2>1. failed \in Row /\ RowFits(failed) /\ failed.app = a /\ failed.status = "failed"
    BY <1>2, FailedFits
  <2>2. failed.owner = NoWorker /\ failed.reason = "none"
    BY <1>2 DEF Failed, Row
  <2>3. run' = [run EXCEPT ![r] = succeeded] \/ run' = [run EXCEPT ![r] = failed]
    BY <1>1
  <2> HIDE DEF failed
  <2>4. succeeded \in Row /\ RowFits(succeeded) /\ succeeded.app = a /\ succeeded.status = "succeeded"
    BY <1>2, <2>1, <2>2 DEF Row, RowFits, Ended
  <2> HIDE DEF succeeded
  <2> QED BY <2>1, <2>3, <2>4 DEF Ended
<1>9. TypeOK'
  BY <1>1, <1>5, <1>7, <1>8, IdleTyped DEF IInv, TypeOK
<1>10. WithinBudget'
  BY <1>1, SameBudget DEF Promised
<1>11. WorkerFits(w)'
  BY <1>1, IdleTyped DEF IInv, TypeOK, WorkerFits
<1>12. \A q \in RunIds :
         \/ run'[q] = run[q]
         \/ /\ RowFits(run'[q]) /\ run'[q].app = run[q].app
            /\ run[q].status # "absent" /\ run'[q].status \in Ended
            /\ app'[run[q].app].stage # "applied"
  BY <1>2, <1>5, <1>8 DEF IInv, TypeOK
<1> QED BY <1>1, <1>5, <1>7, <1>9, <1>10, <1>11, <1>12, WorkerStepKeeps DEF Ended, Open, NotStarted, Waiting

LEMMA MarkFailedKeeps ==
  ASSUME NEW w \in Workers, IInv, MarkFailed(w)
  PROVE  IInv'
<1> DEFINE a == AppOf(w)
           r == wk[w].run
           seen == IF wk[w].pc = "refuse" THEN wk[w].seen ELSE app[a]
<1>1. /\ wk[w].pc \in {"refuse", "fail"} /\ wk' = [wk EXCEPT ![w] = Idle]
      /\ UNCHANGED <<job, plan, text, created, report, todo, batch, hrLeft, faultsLeft>>
      /\ \/ RefusedByCheck(w) /\ UNCHANGED <<run, app>>
         \/ /\ ~RefusedByCheck(w) /\ run' = [run EXCEPT ![r] = Failed(@, FALSE)]
            /\ app' = HandedOff(a, seen)
  BY DEF MarkFailed, FailedApp, inputs
<1>2. a \in Apps /\ r \in RunIds /\ run[r] \in Row /\ run[r].status # "absent" /\ run[r].app = a
  BY <1>1, WorkerHasRun DEF AppOf
<1>3. DecisionFits(app[a]) /\ app[a] \in Application
  BY <1>2 DEF IInv, AppsFit, TypeOK
<1>4. DecisionFits(seen) /\ (seen.stage # "applied" => app[a].stage # "applied")
  BY <1>1, <1>3 DEF IInv, WorkersFit, WorkerFits
<1>5. ReportsFit' /\ WithinBudget'
  BY <1>1, SameBudget DEF Promised, IInv, ReportsFit
<1>6. WorkerFits(w)'
  BY <1>1, IdleTyped DEF IInv, TypeOK, WorkerFits
<1>7. CASE UNCHANGED <<run, app>>
  <2>1. TypeOK' /\ AppsFit'
    BY <1>1, <1>7, IdleTyped DEF IInv, TypeOK, AppsFit
  <2> QED BY <1>1, <1>5, <1>6, <1>7, <2>1, WorkerStepKeeps
<1>8. CASE /\ ~RefusedByCheck(w) /\ run' = [run EXCEPT ![r] = Failed(@, FALSE)]
           /\ app' = HandedOff(a, seen)
  <2>1. seen.stage = "applied" => app[a].active
    <3> SUFFICES ASSUME seen.stage = "applied", ~app[a].active PROVE FALSE
      OBVIOUS
    <3>1. HandedOff(a, seen) = [app EXCEPT ![a].stage = "hr_review"]
      BY <1>4 DEF HandedOff, DecisionFits
    <3>2. app[a].stage = "rejected"
      BY <1>3 DEF DecisionFits
    <3>4. [app EXCEPT ![a].stage = "hr_review"][a].stage = "hr_review"
      <4> HIDE DEF a
      <4> QED BY <1>2, <1>3 DEF IInv, TypeOK, Application
    <3>3. FailedApp(w) = HandedOff(a, seen)
      BY DEF FailedApp
    <3> QED BY <1>8, <3>1, <3>2, <3>3, <3>4 DEF RefusedByCheck
  <2>2. /\ app' \in [Apps -> Application] /\ AppsFit' /\ app'[a].stage # "applied"
        /\ \A b \in Apps : app[b].stage # "applied" => app'[b].stage # "applied"
    <3> HIDE DEF seen, a
    <3> QED BY <1>2, <1>4, <1>8, <2>1, HandedOffFits DEF AppsFit
  <2> DEFINE failed == Failed(run[r], FALSE)
  <2>3. failed \in Row /\ RowFits(failed) /\ failed.app = a /\ failed.status = "failed"
    BY <1>2, FailedFits
  <2>4. run' = [run EXCEPT ![r] = failed]
    BY <1>8
  <2> HIDE DEF failed
  <2>5. TypeOK'
    BY <1>1, <1>2, <2>2, <2>3, <2>4, IdleTyped DEF IInv, TypeOK
  <2>6. \A q \in RunIds :
          \/ run'[q] = run[q]
          \/ /\ RowFits(run'[q]) /\ run'[q].app = run[q].app
             /\ run[q].status # "absent" /\ run'[q].status = "failed"
             /\ app'[run[q].app].stage # "applied"
    BY <1>2, <2>2, <2>3, <2>4 DEF IInv, TypeOK
  <2> QED BY <1>1, <1>5, <1>6, <2>2, <2>5, <2>6, WorkerStepKeeps DEF Ended, Open, NotStarted, Waiting
<1> QED BY <1>1, <1>7, <1>8

-----------------------------------------------------------------------------
(* The invariant *)

LEMMA InitHolds == Init => IInv
<1> SUFFICES ASSUME Init PROVE IInv
  OBVIOUS
<1>1. PICK entered \in SUBSET Apps :
        /\ todo = {<<"commit", a>> : a \in entered} \cup {<<"extract", a>> : a \in Apps \ entered}
                    \cup {<<"generate", j>> : j \in Jobs}
        /\ \E parsed \in SUBSET entered : text = [a \in Apps |-> IF a \in parsed THEN {1} ELSE {}]
  BY DEF Init
<1>2. job \in [Jobs -> Job] /\ plan \in [Jobs -> Plan]
  BY Constants DEF Init, Job, Plan, Versions
<1>3. text \in [Apps -> SUBSET Resumes] /\ app \in [Apps -> Application]
  BY <1>1 DEF Init, Resumes, NewApplication, Application
<1>4. NoInput \in Fingerprint
  BY Constants DEF NoInput, Fingerprint, Versions, Resumes
<1>5. run \in [RunIds -> Row] /\ report \in [Apps -> Report] /\ created \in 0..MaxRuns
  BY <1>4, Constants DEF Init, AbsentRow, Row, NoReport, Report
<1>6. wk \in [Workers -> Worker]
  BY IdleTyped DEF Init
<1>7. todo \subseteq Calls
  BY <1>1 DEF Calls, AppCalls, JobCalls
<1>8. /\ batch.left \subseteq Apps /\ batch.view \in Job \cup {NoBatch.view} /\ batch.fresh \in BOOLEAN
      /\ hrLeft \in Nat /\ faultsLeft \in Nat
  BY Constants DEF Init, NoBatch
<1>9. TypeOK
  BY <1>2, <1>3, <1>5, <1>6, <1>7, <1>8 DEF TypeOK, Calls
<1>10. RowsFit /\ OneOpenRun /\ HandoffDone
  BY Constants DEF Init, RowsFit, RowFits, OneOpenRun, HandoffDone, AbsentRow, RunIds, Open, NotStarted, Waiting, Ended
<1>11. AppsFit /\ ReportsFit /\ WorkersFit
  BY DEF Init, AppsFit, DecisionFits, NewApplication, ReportsFit, NoReport, WorkersFit, WorkerFits, Idle
<1>12. WithinBudget
  <2>1. \A j \in Jobs : job[j].jd = 1 /\ plan[j].id = 0 /\ Promised(j) \in 0..1
    BY DEF Init, Promised
  <2> QED BY <2>1, Constants DEF Init, WithinBudget
<1> QED BY <1>9, <1>10, <1>11, <1>12 DEF IInv

LEMMA NextKeeps == IInv /\ [Next]_vars => IInv'
<1> SUFFICES ASSUME IInv, [Next]_vars PROVE IInv'
  OBVIOUS
<1>1. ASSUME NEW w \in Workers, WorkerStep(w) \/ SaveRefused(w) \/ Crash(w) PROVE IInv'
  BY <1>1, ClaimNextRunKeeps, ReadInputKeeps, CallModelKeeps, SaveSuccessKeeps, MarkFailedKeeps,
     SaveRefusedKeeps, CrashKeeps DEF WorkerStep
<1>2. ASSUME NEW a \in Apps, CallAfterCommit(a) \/ BatchItem(a) \/ GetState(a) PROVE IInv'
  BY <1>2, TriggerAfterCommitKeeps, AfterPlanChangedKeeps, AfterReadyKeeps, WorkerExtractsKeeps,
     BatchItemKeeps, GetStateKeeps DEF CallAfterCommit
<1>3. ASSUME NEW a \in Apps, HrTrigger(a) \/ SwitchResume(a) \/ HrExtracts(a) \/ HrDecides(a) PROVE IInv'
  BY <1>3, HrTriggerKeeps, SwitchResumeKeeps, HrExtractsKeeps, HrDecidesKeeps
<1>4. ASSUME NEW j \in Jobs, JobCallAfterCommit(j) \/ StartBatch(j) PROVE IInv'
  BY <1>4, AfterJobClosedKeeps, AfterJobReopenedKeeps, OutdatePlanKeeps, GenerateAfterCommitKeeps,
     StartBatchKeeps DEF JobCallAfterCommit
<1>5. ASSUME NEW j \in Jobs, CloseOrReopen(j) \/ EditJob(j) \/ NewPlan(j) \/ ConfirmPlan(j) PROVE IInv'
  BY <1>5, CloseOrReopenKeeps, EditJobKeeps, NewPlanKeeps, ConfirmPlanKeeps
<1>6. ASSUME NEW r \in RunIds, LeaseRunsOut(r) PROVE IInv'
  BY <1>6, LeaseRunsOutKeeps
<1>7. CASE HookFails
  BY <1>7, HookFailsKeeps
<1>8. CASE UNCHANGED vars
  <2>1. TypeOK' /\ WithinBudget'
    BY <1>8 DEF vars, IInv, TypeOK, WithinBudget, Promised
  <2> QED BY <1>8, <2>1, OnlyInputsChange DEF vars
<1> QED BY <1>1, <1>2, <1>3, <1>4, <1>5, <1>6, <1>7, <1>8 DEF Next

\* The invariant holds in every state the services, their hooks and the workers reach.
THEOREM Invariant == Spec => []IInv
<1>1. IInv /\ [Next]_vars => IInv'
  BY NextKeeps
<1> QED BY InitHolds, <1>1, PTL DEF Spec

\* No order of triggers, hooks, batches, claims and late results opens a second run of an
\* application or writes a row the CHECKs of screening_runs refuse.
THEOREM RowConstraintsKept == Spec => []RowConstraints
<1>1. IInv => RowConstraints
  BY DEF IInv, RowConstraints, RowsFit, RowFits
<1> QED BY Invariant, <1>1, PTL

\* An application whose run a worker has ended is no longer with the untouched ones
\* (append_screening_handoff).
THEOREM HandoffDoneAlways == Spec => []HandoffDone
<1>1. IInv => HandoffDone
  BY DEF IInv
<1> QED BY Invariant, <1>1, PTL

-----------------------------------------------------------------------------
(* What a step may never do *)

\* Only the worker's save stores a report; every other step leaves it or marks it.
LEMMA ReportsOnlyMarked ==
  ASSUME IInv, [Next]_vars, ~(\E w \in Workers : SaveSuccess(w)), NEW a \in Apps
  PROVE  report'[a] = report[a] \/ report'[a].outdated
<1>1. ASSUME NEW w \in Workers, WorkerStep(w) \/ SaveRefused(w) \/ Crash(w) PROVE report' = report
  BY <1>1 DEF WorkerStep, ClaimNextRun, ReadInput, CallModel, MarkFailed, SaveRefused, Crash
<1>2. ASSUME NEW b \in Apps, CallAfterCommit(b) \/ BatchItem(b) \/ GetState(b) PROVE report'[a] = report[a] \/ report'[a].outdated
  <2>1. CASE TriggerAfterCommit(b)
    <3>1. PICK call \in {"commit", "process"} : Trigger(b, job[JobOf[b]], FALSE, TRUE, call = "commit")
      BY <2>1 DEF TriggerAfterCommit
    <3> QED BY <3>1, JobsTyped, TriggerFits
  <2>2. CASE BatchItem(b)
    <3> DEFINE jb == IF batch.fresh THEN batch.view ELSE job[JobOf[b]]
    <3>1. jb \in Job /\ Trigger(b, jb, TRUE, FALSE, FALSE)
      BY <2>2, JobsTyped DEF BatchItem
    <3> HIDE DEF jb
    <3> QED BY <3>1, TriggerFits
  <2>3. CASE AfterPlanChanged(b) \/ GetState(b)
    <3>1. report' = [report EXCEPT ![b] = Reconciled(job[JobOf[b]], b)]
      BY <2>3 DEF AfterPlanChanged, GetState
    <3> QED BY <3>1, ReconciledFits DEF IInv, TypeOK
  <2>4. CASE AfterReady(b) \/ WorkerExtracts(b)
    BY <2>4 DEF AfterReady, WorkerExtracts
  <2> QED BY <1>2, <2>1, <2>2, <2>3, <2>4 DEF CallAfterCommit
<1>3. ASSUME NEW b \in Apps, HrTrigger(b) \/ SwitchResume(b) \/ HrExtracts(b) \/ HrDecides(b)
      PROVE  report'[a] = report[a] \/ report'[a].outdated
  <2>1. CASE HrTrigger(b)
    <3>1. PICK force \in BOOLEAN : Trigger(b, job[JobOf[b]], force, ~force, FALSE)
      BY <2>1 DEF HrTrigger
    <3> QED BY <3>1, JobsTyped, TriggerFits
  <2>2. CASE SwitchResume(b)
    <3>1. report' = [report EXCEPT ![b].outdated = report[b].exists]
      BY <2>2 DEF SwitchResume
    <3>2. report[b] \in Report /\ (report[b].outdated => report[b].exists)
      BY DEF IInv, TypeOK, ReportsFit
    <3>3. [report[b] EXCEPT !.outdated = report[b].exists] = report[b] \/ report[b].exists
      BY <3>2 DEF Report
    <3> QED BY <3>1, <3>2, <3>3 DEF IInv, TypeOK, Report
  <2>3. CASE HrExtracts(b) \/ HrDecides(b)
    BY <2>3 DEF HrExtracts, HrDecides
  <2> QED BY <1>3, <2>1, <2>2, <2>3
<1>4. ASSUME NEW j \in Jobs, JobCallAfterCommit(j) \/ StartBatch(j) PROVE report' = report
  BY <1>4 DEF JobCallAfterCommit, AfterJobClosed, AfterJobReopened, OutdatePlan, GenerateAfterCommit, StartBatch
<1>5. ASSUME NEW j \in Jobs, CloseOrReopen(j) \/ EditJob(j) \/ NewPlan(j) \/ ConfirmPlan(j) PROVE report' = report
  BY <1>5 DEF CloseOrReopen, EditJob, NewPlan, ConfirmPlan
<1>6. ASSUME NEW r \in RunIds, LeaseRunsOut(r) PROVE report' = report
  BY <1>6 DEF LeaseRunsOut
<1>7. CASE HookFails \/ UNCHANGED vars
  BY <1>7 DEF HookFails, vars
<1> QED BY <1>1, <1>2, <1>3, <1>4, <1>5, <1>6, <1>7 DEF Next

\* What a worker saves fits the application as it is at that moment.
LEMMA SavedFits ==
  ASSUME IInv, NEW w \in Workers, SaveSuccess(w), NEW a \in Apps, report'[a] # report[a]
  PROVE  ReportFits(job[JobOf[a]], a)'
<1>1. /\ a = AppOf(w) /\ InputUnchanged(w) /\ wk[w].pc = "save"
      /\ report'[a] = [exists |-> TRUE, outdated |-> FALSE, input |-> wk[w].input]
      /\ app' = HandedOff(a, app[a]) /\ UNCHANGED <<job, plan, text>>
  BY DEF SaveSuccess, inputs, IInv, TypeOK
<1>2. wk[w].input = InputOf(job[JobOf[a]], a) /\ wk[w].input.state = "ready"
  BY <1>1 DEF InputUnchanged, IInv, WorkersFit, WorkerFits
<1>3. app'[a].resume = app[a].resume
  BY <1>1 DEF HandedOff, IInv, TypeOK, Application
<1> QED BY <1>1, <1>2, <1>3 DEF ReportFits, InputOf

\* A report is stored as current only for the resume, the plan and the text of that moment
\* (_save_success against _build_context).
THEOREM FitsWhenStoredAlways == Spec => FitsWhenStored
<1>1. IInv /\ [Next]_vars =>
        [\A a \in Apps : report'[a] # report[a] /\ ~report'[a].outdated
           => ReportFits(job[JobOf[a]], a)']_vars
  BY ReportsOnlyMarked, SavedFits
<1> QED BY Invariant, <1>1, PTL DEF Spec, FitsWhenStored

\* A step that leaves HR's decision leaves the stage, but for a hand-over of a refused run.
LEMMA StageKept ==
  ASSUME IInv, [Next]_vars, NEW a \in Apps,
         app[a].decision # "pending", app'[a].decision = app[a].decision,
         ~(\E w \in Workers : wk[w].pc = "refuse" /\ AppOf(w) = a)
  PROVE  app'[a].stage = app[a].stage
<1>0. app[a] \in Application /\ DecisionFits(app[a]) /\ app \in [Apps -> Application]
  BY DEF IInv, TypeOK, AppsFit
<1>1. ASSUME NEW w \in Workers, WorkerStep(w) \/ SaveRefused(w) \/ Crash(w) PROVE app'[a].stage = app[a].stage
  <2>1. CASE ClaimNextRun(w) \/ ReadInput(w) \/ CallModel(w) \/ SaveRefused(w) \/ Crash(w)
    BY <2>1 DEF ClaimNextRun, ReadInput, CallModel, SaveRefused, Crash
  <2>2. CASE SaveSuccess(w)
    BY <1>0, <2>2 DEF SaveSuccess, HandedOff
  <2>3. CASE MarkFailed(w)
    <3>1. \/ UNCHANGED app
          \/ /\ wk[w].pc = "refuse" /\ AppOf(w) # a
             /\ app' = HandedOff(AppOf(w), wk[w].seen)
          \/ app' = HandedOff(AppOf(w), app[AppOf(w)])
      BY <2>3 DEF MarkFailed, FailedApp
    <3> QED BY <1>0, <3>1 DEF HandedOff
  <2> QED BY <1>1, <2>1, <2>2, <2>3 DEF WorkerStep
<1>2. ASSUME NEW b \in Apps, CallAfterCommit(b) \/ BatchItem(b) \/ GetState(b) PROVE app' = app
  BY <1>2 DEF CallAfterCommit, TriggerAfterCommit, AfterPlanChanged, AfterReady, WorkerExtracts, BatchItem, GetState
<1>3. ASSUME NEW b \in Apps, HrTrigger(b) \/ HrExtracts(b) PROVE app' = app
  BY <1>3 DEF HrTrigger, HrExtracts
<1>4. ASSUME NEW b \in Apps, SwitchResume(b) PROVE app'[a].stage = app[a].stage
  BY <1>0, <1>4 DEF SwitchResume
<1>5. ASSUME NEW b \in Apps, HrDecides(b) PROVE app'[a].stage = app[a].stage
  <2>1. CASE b # a
    BY <1>0, <1>5, <2>1 DEF HrDecides
  <2>2. CASE b = a
    BY <1>0, <1>5, <2>2 DEF HrDecides, DecisionFits, Application
  <2> QED BY <2>1, <2>2
<1>6. ASSUME NEW j \in Jobs, JobCallAfterCommit(j) \/ StartBatch(j) PROVE app' = app
  BY <1>6 DEF JobCallAfterCommit, AfterJobClosed, AfterJobReopened, OutdatePlan, GenerateAfterCommit, StartBatch
<1>7. ASSUME NEW j \in Jobs, CloseOrReopen(j) \/ EditJob(j) \/ NewPlan(j) \/ ConfirmPlan(j) PROVE app' = app
  BY <1>7 DEF CloseOrReopen, EditJob, NewPlan, ConfirmPlan
<1>8. ASSUME NEW r \in RunIds, LeaseRunsOut(r) PROVE app' = app
  BY <1>8 DEF LeaseRunsOut
<1>9. CASE HookFails \/ UNCHANGED vars
  BY <1>9 DEF HookFails, vars
<1> QED BY <1>1, <1>2, <1>3, <1>4, <1>5, <1>6, <1>7, <1>8, <1>9 DEF Next

\* A hand-over never takes an application back from HR's decision, unless it is that of a
\* run refused before the model call (_mark_failed on the object execute_run had read).
THEOREM HrDecisionKeptAlways == Spec => HrDecisionKept
<1>1. IInv /\ [Next]_vars =>
        [\A a \in Apps :
           app[a].decision # "pending" /\ app'[a].decision = app[a].decision
             /\ ~(\E w \in Workers : wk[w].pc = "refuse" /\ AppOf(w) = a)
           => app'[a].stage = app[a].stage]_vars
  BY StageKept
<1> QED BY Invariant, <1>1, PTL DEF Spec, HrDecisionKept

-----------------------------------------------------------------------------
(***************************************************************************)
(* Screening implements ScreeningContract: whoever looks only at the latest *)
(* run and the report of an application sees a step of the contract, or     *)
(* none, whatever the services, hooks and workers do: a worker that lost    *)
(* its run makes the contract's late steps, and no other.                   *)
(***************************************************************************)

\* The worker executes a run, and its lease still says so.
Holds(w) == wk[w].pc # "idle" /\ run[wk[w].run].owner = w

\* No worker executes a run that is not its own.
NotTakenOver == \A w \in Workers : wk[w].pc # "idle" => Holds(w)

\* The rows of an application before its latest one have ended.
OlderEnded ==
  \A q, r \in RunIds :
    run[q].app \in Apps /\ run[r].app = run[q].app /\ q < r => run[q].status \in Ended
NoAppWithoutRow == \A r \in RunIds : run[r].status = "absent" => run[r] = AbsentRow

\* A run that waits for a text or a plan was last looked at with the current resume: a
\* switch ends it.
WaitingFits ==
  \A r \in RunIds :
    run[r].status \in {"waiting_resume", "waiting_plan"} =>
      run[r].input.resume = app[run[r].app].resume

\* A worker that holds its run calls the model for what the run says.
InputsHeld ==
  \A w \in Workers :
    Holds(w) /\ wk[w].pc \in {"call", "repair", "save"} => wk[w].input = run[wk[w].run].input

ContractInv == OlderEnded /\ NoAppWithoutRow /\ WaitingFits /\ InputsHeld

-----------------------------------------------------------------------------
(* What the contract sees of an application *)

OpenOf(a) == job[JobOf[a]].open
CurrentOf(a) == app[a].resume
StatusOf(a) == SeenStatus(LatestRow(a))
ResumeOf(a) == ResumeIf(LatestRow(a).app = a, LatestRow(a).input)
ValidOf(a) == ResumeIf(report[a].exists /\ ~report[a].outdated, report[a].input)

Seen(a) == <<OpenOf(a), CurrentOf(a), StatusOf(a), ResumeOf(a), ValidOf(a)>>

\* The contract's step of one application.
ContractStep(a) ==
  \/ Contract!Begin(a) \/ Contract!Start(a) \/ Contract!Succeed(a) \/ Contract!Fail(a)
  \/ Contract!Pause(a) \/ Contract!Resume(a) \/ Contract!Requeue(a) \/ Contract!Outdate(a)
  \/ Contract!LateSuccess(a) \/ Contract!LateFailure(a)
  \/ Contract!Switch(a) \/ Contract!ToggleJob(a) \/ Contract!Rest(a)

LEMMA StepsMakeNext ==
  ASSUME \A a \in Apps : ContractStep(a) /\ Contract!Lose(a)
  PROVE  Contract!Next
BY DEF Contract!Next, ContractStep

\* The contract's steps in the columns an application is seen by: the row stays, ...
LEMMA SeenRests ==
  ASSUME NEW a \in Apps, OpenOf(a)' = OpenOf(a), CurrentOf(a)' = CurrentOf(a),
         StatusOf(a)' = StatusOf(a), ResumeOf(a)' = ResumeOf(a), ValidOf(a)' = ValidOf(a)
  PROVE  ContractStep(a)
BY DEF ContractStep, Contract!Rest, Contract!Same, OpenOf, CurrentOf, StatusOf, ResumeOf, ValidOf

\* ... or the report is marked, ...
LEMMA SeenOutdates ==
  ASSUME NEW a \in Apps, OpenOf(a)' = OpenOf(a), CurrentOf(a)' = CurrentOf(a),
         StatusOf(a)' = StatusOf(a), ResumeOf(a)' = ResumeOf(a), ValidOf(a)' = 0
  PROVE  ContractStep(a)
BY DEF ContractStep, Contract!Outdate, Contract!Same, OpenOf, CurrentOf, StatusOf, ResumeOf, ValidOf

\* ... or a run is added, ...
LEMMA SeenBegins ==
  ASSUME NEW a \in Apps, OpenOf(a)' = OpenOf(a), CurrentOf(a)' = CurrentOf(a),
         StatusOf(a) \in {"none", "succeeded", "failed"}, StatusOf(a)' \in {"waiting", "paused"},
         StatusOf(a)' = "paused" => ~OpenOf(a), ResumeOf(a)' = CurrentOf(a),
         ValidOf(a)' \in {ValidOf(a), 0}
  PROVE  ContractStep(a)
BY DEF ContractStep, Contract!Begin, Contract!Pending, Contract!Same,
       OpenOf, CurrentOf, StatusOf, ResumeOf, ValidOf

\* ... or moves without its report: to a worker, to its end, or back to those that wait.
LEMMA SeenMoves ==
  ASSUME NEW a \in Apps, OpenOf(a)' = OpenOf(a), CurrentOf(a)' = CurrentOf(a),
         ValidOf(a)' = ValidOf(a),
         \/ /\ ResumeOf(a)' = ResumeOf(a)
            /\ \/ StatusOf(a) = "waiting" /\ StatusOf(a)' = "running" /\ OpenOf(a)
               \/ StatusOf(a) = "running" /\ StatusOf(a)' \in {"failed", "waiting", "paused"}
               \/ StatusOf(a) = "waiting" /\ StatusOf(a)' = "paused"
         \/ /\ ResumeOf(a)' = CurrentOf(a) /\ StatusOf(a) = "paused"
            /\ StatusOf(a)' = IF OpenOf(a) THEN "waiting" ELSE "paused"
  PROVE  ContractStep(a)
BY DEF ContractStep, Contract!Start, Contract!Fail, Contract!Pause, Contract!Resume, Contract!Requeue,
       Contract!Pending, Contract!Same, OpenOf, CurrentOf, StatusOf, ResumeOf, ValidOf

LEMMA SeenSucceeds ==
  ASSUME NEW a \in Apps, OpenOf(a)' = OpenOf(a), CurrentOf(a)' = CurrentOf(a),
         StatusOf(a) = "running", StatusOf(a)' = "succeeded", ResumeOf(a)' = ResumeOf(a),
         ResumeOf(a) = CurrentOf(a), ValidOf(a)' = CurrentOf(a)
  PROVE  ContractStep(a)
BY DEF ContractStep, Contract!Succeed, Contract!Same, OpenOf, CurrentOf, StatusOf, ResumeOf, ValidOf

\* ... or is ended by a worker that lost it, ...
LEMMA SeenLate ==
  ASSUME NEW a \in Apps, OpenOf(a)' = OpenOf(a), CurrentOf(a)' = CurrentOf(a),
         Replaced(a), StatusOf(a) # "none", ResumeOf(a)' = ResumeOf(a),
         \/ StatusOf(a)' \in {StatusOf(a), "succeeded"} /\ ValidOf(a)' = CurrentOf(a)
         \/ StatusOf(a)' = "failed" /\ ValidOf(a)' = ValidOf(a)
  PROVE  ContractStep(a)
BY DEF ContractStep, Contract!LateSuccess, Contract!LateFailure, Contract!Same,
       OpenOf, CurrentOf, StatusOf, ResumeOf, ValidOf

LEMMA SeenSwitches ==
  ASSUME NEW a \in Apps, OpenOf(a)' = OpenOf(a), CurrentOf(a)' \in Resumes \ {CurrentOf(a)},
         StatusOf(a)' = IF StatusOf(a) \in {"waiting", "paused"} THEN "failed" ELSE StatusOf(a),
         ResumeOf(a)' = ResumeOf(a), ValidOf(a)' = 0
  PROVE  ContractStep(a)
BY DEF ContractStep, Contract!Switch, Contract!Pending, Contract!Same,
       OpenOf, CurrentOf, StatusOf, ResumeOf, ValidOf

LEMMA SeenToggles ==
  ASSUME NEW a \in Apps, OpenOf(a)' = ~OpenOf(a), CurrentOf(a)' = CurrentOf(a),
         StatusOf(a)' = StatusOf(a), ResumeOf(a)' = ResumeOf(a), ValidOf(a)' = ValidOf(a)
  PROVE  ContractStep(a)
BY DEF ContractStep, Contract!ToggleJob, Contract!Same, OpenOf, CurrentOf, StatusOf, ResumeOf, ValidOf

-----------------------------------------------------------------------------
(* The latest row of an application *)

\* The greatest of some runs is the one that none exceeds ...
LEMMA GreatestIs ==
  ASSUME NEW S \in SUBSET RunIds, NEW r \in S, \A q \in S : q <= r
  PROVE  (CHOOSE x \in S : \A q \in S : q <= x) = r
<1>1. S \subseteq Nat
  BY DEF RunIds
<1>2. \A x \in S : (\A q \in S : q <= x) => x = r
  BY <1>1
<1> QED BY <1>2

\* ... and there is one.
LEMMA GreatestExists ==
  ASSUME NEW S \in SUBSET RunIds, S # {}
  PROVE  \E r \in S : \A q \in S : q <= r
<1> DEFINE below == {MaxRuns - r : r \in S}
<1>1. S \subseteq Nat /\ \A r \in S : r <= MaxRuns /\ MaxRuns - r \in Nat
  BY Constants DEF RunIds
<1>2. below \in SUBSET Nat /\ below # {}
  BY <1>1
<1>3. IsWellFoundedOn(OpToRel(<, Nat), Nat)
  BY NatLessThanWellFounded
<1>4. PICK x \in below : \A y \in below : ~ (<<y, x>> \in OpToRel(<, Nat))
  <2> HIDE DEF IsWellFoundedOn, OpToRel, below
  <2> QED BY <1>2, <1>3, WFMin
<1>5. \A y \in below : ~ (y < x)
  BY <1>2, <1>4 DEF OpToRel
<1>6. PICK r \in S : x = MaxRuns - r
  OBVIOUS
<1>7. ASSUME NEW q \in S PROVE q <= r
  <2>1. MaxRuns - q \in below
    OBVIOUS
  <2>2. ~ (MaxRuns - q < MaxRuns - r)
    BY <1>5, <1>6, <2>1
  <2> QED BY <1>1, <2>2, Constants
<1> QED BY <1>7

IsLatest(a, r) == run[r].app = a /\ \A q \in RunIds : run[q].app = a => q <= r
HasNoRow(a) == \A r \in RunIds : run[r].app # a

LEMMA LatestSeen ==
  ASSUME NEW a \in Apps, NEW r \in RunIds, IsLatest(a, r)
  PROVE  StatusOf(a) = SeenStatus(run[r]) /\ ResumeOf(a) = run[r].input.resume
<1>1. LatestRow(a) = run[r]
  BY GreatestIs DEF IsLatest, LatestRow
<1> QED BY <1>1 DEF StatusOf, ResumeOf, ResumeIf, IsLatest

LEMMA LatestSeenNext ==
  ASSUME NEW a \in Apps, NEW r \in RunIds, IsLatest(a, r)'
  PROVE  StatusOf(a)' = SeenStatus(run'[r]) /\ ResumeOf(a)' = run'[r].input.resume
<1>1. LatestRow(a)' = run'[r]
  BY GreatestIs DEF IsLatest, LatestRow
<1> QED BY <1>1 DEF StatusOf, ResumeOf, ResumeIf, IsLatest

LEMMA NoneSeen ==
  ASSUME NEW a \in Apps
  PROVE  /\ HasNoRow(a) => StatusOf(a) = "none" /\ ResumeOf(a) = 0
         /\ HasNoRow(a)' => StatusOf(a)' = "none" /\ ResumeOf(a)' = 0
<1>1. HasNoRow(a) => LatestRow(a) = AbsentRow
  BY DEF HasNoRow, LatestRow
<1>2. HasNoRow(a)' => LatestRow(a)' = AbsentRow
  BY DEF HasNoRow, LatestRow
<1> QED BY <1>1, <1>2, Constants DEF StatusOf, ResumeOf, ResumeIf, SeenStatus, AbsentRow

LEMMA HasLatest ==
  ASSUME NEW a \in Apps
  PROVE  HasNoRow(a) \/ \E r \in RunIds : IsLatest(a, r)
<1> DEFINE rows == {r \in RunIds : run[r].app = a}
<1>1. rows \in SUBSET RunIds
  OBVIOUS
<1>2. CASE rows # {}
  <2> HIDE DEF rows
  <2>1. PICK r \in rows : \A q \in rows : q <= r
    BY <1>1, <1>2, GreatestExists
  <2> QED BY <2>1 DEF rows, IsLatest
<1> QED BY <1>2 DEF HasNoRow

-----------------------------------------------------------------------------
(* Steps by what they do to the rows *)

\* A step that leaves the runs shows its effect on the job, the resume and the report only.
LEMMA SameRuns ==
  ASSUME NEW a \in Apps, run' = run
  PROVE  StatusOf(a)' = StatusOf(a) /\ ResumeOf(a)' = ResumeOf(a)
BY DEF StatusOf, ResumeOf, LatestRow

\* One that adds no row shows what it does to the latest one.
LEMMA RowsStayLatest ==
  ASSUME NEW a \in Apps, \A r \in RunIds : run'[r].app = run[r].app
  PROVE  \/ StatusOf(a)' = StatusOf(a) /\ ResumeOf(a)' = ResumeOf(a) /\ HasNoRow(a)
         \/ \E r \in RunIds :
              /\ IsLatest(a, r)
              /\ StatusOf(a) = SeenStatus(run[r]) /\ ResumeOf(a) = run[r].input.resume
              /\ StatusOf(a)' = SeenStatus(run'[r]) /\ ResumeOf(a)' = run'[r].input.resume
<1>1. CASE HasNoRow(a)
  <2>1. HasNoRow(a)'
    BY <1>1 DEF HasNoRow
  <2> QED BY <1>1, <2>1, NoneSeen
<1>2. CASE ~HasNoRow(a)
  <2>1. PICK r \in RunIds : IsLatest(a, r)
    BY <1>2, HasLatest
  <2>2. IsLatest(a, r)'
    BY <2>1 DEF IsLatest
  <2> QED BY <2>1, <2>2, LatestSeen, LatestSeenNext
<1> QED BY <1>1, <1>2

\* A run that is open is the latest one of its application.
LEMMA OpenIsLatest ==
  ASSUME IInv, ContractInv, NEW a \in Apps, NEW r \in RunIds, run[r].app = a, run[r].status \in Open
  PROVE  IsLatest(a, r)
<1> SUFFICES ASSUME NEW q \in RunIds, run[q].app = a, ~ (q <= r) PROVE FALSE
  BY DEF IsLatest
<1>1. r < q
  BY DEF RunIds
<1>2. run[r].status \in Ended
  BY <1>1 DEF ContractInv, OlderEnded
<1> QED BY <1>2 DEF Open, NotStarted, Waiting, Ended

\* What a step may do to a row while its application, job and report stay.
RowMove(r) ==
  \/ SeenStatus(run'[r]) = SeenStatus(run[r]) /\ run'[r].input.resume = run[r].input.resume
  \/ /\ run'[r].input.resume = run[r].input.resume
     /\ \/ run[r].status = "queued" /\ run'[r].status = "running" /\ OpenOf(run[r].app)
        \/ run[r].status = "running" /\ run'[r].status \in {"failed", "queued", "paused"}
        \/ SeenStatus(run[r]) = "waiting" /\ run'[r].status = "paused"
  \/ /\ run[r].status = "paused" /\ run'[r].input.resume = CurrentOf(run[r].app)
     /\ SeenStatus(run'[r]) = IF OpenOf(run[r].app) THEN "waiting" ELSE "paused"

LEMMA RowMovesSeen ==
  ASSUME NEW a \in Apps,
         OpenOf(a)' = OpenOf(a), CurrentOf(a)' = CurrentOf(a), ValidOf(a)' = ValidOf(a),
         \A r \in RunIds : run'[r].app = run[r].app /\ RowMove(r)
  PROVE  ContractStep(a)
<1>1. CASE StatusOf(a)' = StatusOf(a) /\ ResumeOf(a)' = ResumeOf(a)
  BY <1>1, SeenRests
<1>2. CASE \E r \in RunIds :
             /\ IsLatest(a, r)
             /\ StatusOf(a) = SeenStatus(run[r]) /\ ResumeOf(a) = run[r].input.resume
             /\ StatusOf(a)' = SeenStatus(run'[r]) /\ ResumeOf(a)' = run'[r].input.resume
  <2>1. PICK r \in RunIds :
          /\ run[r].app = a
          /\ StatusOf(a) = SeenStatus(run[r]) /\ ResumeOf(a) = run[r].input.resume
          /\ StatusOf(a)' = SeenStatus(run'[r]) /\ ResumeOf(a)' = run'[r].input.resume
    BY <1>2 DEF IsLatest
  <2>2. CASE SeenStatus(run'[r]) = SeenStatus(run[r]) /\ run'[r].input.resume = run[r].input.resume
    BY <2>1, <2>2, SeenRests
  <2>3. CASE /\ run'[r].input.resume = run[r].input.resume
             /\ \/ run[r].status = "queued" /\ run'[r].status = "running" /\ OpenOf(run[r].app)
                \/ run[r].status = "running" /\ run'[r].status \in {"failed", "queued", "paused"}
                \/ SeenStatus(run[r]) = "waiting" /\ run'[r].status = "paused"
    <3>1. \/ StatusOf(a) = "waiting" /\ StatusOf(a)' = "running" /\ OpenOf(a)
          \/ StatusOf(a) = "running" /\ StatusOf(a)' \in {"failed", "waiting", "paused"}
          \/ StatusOf(a) = "waiting" /\ StatusOf(a)' = "paused"
      BY <2>1, <2>3 DEF SeenStatus
    <3> QED BY <2>1, <2>3, <3>1, SeenMoves
  <2>4. CASE /\ run[r].status = "paused" /\ run'[r].input.resume = CurrentOf(run[r].app)
             /\ SeenStatus(run'[r]) = IF OpenOf(run[r].app) THEN "waiting" ELSE "paused"
    <3>1. StatusOf(a) = "paused"
      BY <2>1, <2>4 DEF SeenStatus
    <3> QED BY <2>1, <2>4, <3>1, SeenMoves
  <2> QED BY <2>2, <2>3, <2>4 DEF RowMove
<1> QED BY <1>1, <1>2, RowsStayLatest

\* A step that adds no row keeps the invariant if it opens none again, rewrites no input of
\* a run that is executed, and looks at the current resume for what it lets wait.
LEMMA RowsKeepContractInv ==
  ASSUME IInv, ContractInv,
         \A r \in RunIds :
           \/ run'[r] = run[r] /\ (run[r].status \in Open =>
                                     app'[run[r].app].resume = app[run[r].app].resume)
           \/ /\ run'[r].app = run[r].app /\ run[r].status # "absent"
              /\ run[r].status \in Open \/ run'[r].status \in Ended
              /\ run'[r].status # "absent"
              /\ run[r].status = "running" => run'[r].input = run[r].input
              /\ run'[r].status \in {"waiting_resume", "waiting_plan"} =>
                   run'[r].input.resume = app'[run[r].app].resume,
         \A w \in Workers :
           Holds(w)' /\ wk'[w].pc \in {"call", "repair", "save"} =>
             /\ Holds(w) /\ wk[w].pc \in {"call", "repair", "save"}
             /\ wk'[w].run = wk[w].run /\ wk'[w].input = wk[w].input
  PROVE  ContractInv'
<1>1. OlderEnded'
  BY DEF ContractInv, OlderEnded, Open, NotStarted, Waiting, Ended
<1>2. NoAppWithoutRow'
  BY DEF ContractInv, NoAppWithoutRow
<1>3. WaitingFits'
  BY DEF ContractInv, WaitingFits, Open, NotStarted, Waiting
<1>4. InputsHeld'
  <2> SUFFICES ASSUME NEW w \in Workers, Holds(w)', wk'[w].pc \in {"call", "repair", "save"}
               PROVE  wk'[w].input = run'[wk'[w].run].input
    BY DEF InputsHeld
  <2>1. /\ wk[w].pc # "idle" /\ wk'[w].run = wk[w].run /\ wk'[w].input = wk[w].input
        /\ wk[w].input = run[wk[w].run].input
    BY DEF ContractInv, InputsHeld
  <2>2. wk[w].run \in RunIds /\ run[wk[w].run].owner = w
    BY <2>1, WorkerHasRun DEF Holds
  <2>3. run[wk[w].run].status = "running"
    BY <2>2, Constants DEF IInv, RowsFit, RowFits
  <2> QED BY <2>1, <2>2, <2>3
<1> QED BY <1>1, <1>2, <1>3, <1>4 DEF ContractInv

\* A step keeps the invariant, and each application sees a step of the contract.
Implements == ContractInv' /\ \A a \in Apps : ContractStep(a)

\* A step that leaves the runs and the resumes.
LEMMA QuietStep ==
  ASSUME IInv, ContractInv, run' = run,
         \A a \in Apps : /\ OpenOf(a)' = OpenOf(a) /\ CurrentOf(a)' = CurrentOf(a)
                         /\ report'[a] = report[a] \/ report'[a].outdated,
         InputsHeld'
  PROVE  Implements
<1>1. ContractInv'
  <2>1. \A r \in RunIds : run[r].status \in {"waiting_resume", "waiting_plan"} => run[r].app \in Apps
    BY DEF IInv, RowsFit, RowFits
  <2> QED BY <2>1 DEF ContractInv, OlderEnded, NoAppWithoutRow, WaitingFits, CurrentOf
<1>2. ASSUME NEW a \in Apps PROVE ContractStep(a)
  <2>1. ValidOf(a)' = ValidOf(a) \/ ValidOf(a)' = 0
    BY DEF ValidOf, ResumeIf
  <2> QED BY <2>1, SameRuns, SeenRests, SeenOutdates
<1> QED BY <1>1, <1>2 DEF Implements

-----------------------------------------------------------------------------
(* The actions that leave the runs *)

LEMMA ReportMarked ==
  ASSUME IInv, NEW a \in Apps, report' = [report EXCEPT ![a] = Reconciled(job[JobOf[a]], a)]
  PROVE  \A b \in Apps : report'[b] = report[b] \/ report'[b].outdated
BY ReconciledFits DEF IInv, TypeOK

LEMMA JobStepsImplement ==
  ASSUME IInv, ContractInv, NEW j \in Jobs,
         EditJob(j) \/ NewPlan(j) \/ ConfirmPlan(j) \/ OutdatePlan(j) \/ GenerateAfterCommit(j)
           \/ AfterJobReopened(j) \/ StartBatch(j)
  PROVE  Implements
<1>1. UNCHANGED <<app, run, report, wk>>
  BY DEF EditJob, NewPlan, ConfirmPlan, OutdatePlan, GenerateAfterCommit, AfterJobReopened, StartBatch
<1>2. \A i \in Jobs : job'[i].open = job[i].open
  <2>1. job' = job \/ job' = [job EXCEPT ![j].jd = @ + 1]
    BY DEF EditJob, NewPlan, ConfirmPlan, OutdatePlan, GenerateAfterCommit, AfterJobReopened, StartBatch,
           inputs
  <2> QED BY <2>1 DEF IInv, TypeOK, Job
<1>3. \A a \in Apps : OpenOf(a)' = OpenOf(a) /\ CurrentOf(a)' = CurrentOf(a)
  BY <1>1, <1>2, Constants DEF OpenOf, CurrentOf
<1> QED BY <1>1, <1>3, QuietStep DEF ContractInv, InputsHeld, Holds

LEMMA AppStepsImplement ==
  ASSUME IInv, ContractInv, NEW a \in Apps,
         WorkerExtracts(a) \/ HrExtracts(a) \/ GetState(a)
  PROVE  Implements
<1>1. UNCHANGED <<job, app, run, wk>>
  BY DEF WorkerExtracts, HrExtracts, GetState, inputs
<1>2. \A b \in Apps : report'[b] = report[b] \/ report'[b].outdated
  BY ReportMarked DEF WorkerExtracts, HrExtracts, GetState
<1>3. \A b \in Apps : OpenOf(b)' = OpenOf(b) /\ CurrentOf(b)' = CurrentOf(b)
  BY <1>1 DEF OpenOf, CurrentOf
<1> QED BY <1>1, <1>2, <1>3, QuietStep DEF ContractInv, InputsHeld, Holds

LEMMA HrDecidesImplements ==
  ASSUME IInv, ContractInv, NEW a \in Apps, HrDecides(a)
  PROVE  Implements
<1>1. UNCHANGED <<job, run, report, wk>>
  BY DEF HrDecides, inputs
<1>2. \A b \in Apps : app'[b].resume = app[b].resume
  <2>1. app \in [Apps -> Application]
    BY DEF IInv, TypeOK
  <2>2. \/ app' = [app EXCEPT ![a].decision = "passed", ![a].stage = "screening_passed"]
        \/ app' = [app EXCEPT ![a].decision = "rejected", ![a].stage = "rejected", ![a].active = FALSE]
        \/ app' = [app EXCEPT ![a].decision = "pending", ![a].stage = "hr_review", ![a].active = TRUE]
    BY DEF HrDecides
  <2> QED BY <2>1, <2>2 DEF Application
<1>3. \A b \in Apps : OpenOf(b)' = OpenOf(b) /\ CurrentOf(b)' = CurrentOf(b)
  BY <1>1, <1>2 DEF OpenOf, CurrentOf
<1> QED BY <1>1, <1>3, QuietStep DEF ContractInv, InputsHeld, Holds

LEMMA StutterImplements ==
  ASSUME IInv, ContractInv, HookFails \/ UNCHANGED vars
  PROVE  Implements
<1>1. UNCHANGED <<job, app, run, report, wk>>
  BY DEF HookFails, vars, inputs
<1>2. \A b \in Apps : OpenOf(b)' = OpenOf(b) /\ CurrentOf(b)' = CurrentOf(b)
  BY <1>1 DEF OpenOf, CurrentOf
<1> QED BY <1>1, <1>2, QuietStep DEF ContractInv, InputsHeld, Holds

\* A worker that reads or calls the model works on the input of its run.
LEMMA WorkerStepsImplement ==
  ASSUME IInv, ContractInv, NEW w \in Workers,
         ReadInput(w) \/ CallModel(w) \/ SaveRefused(w) \/ Crash(w)
  PROVE  Implements
<1>1. UNCHANGED <<job, app, run, report>>
  BY DEF ReadInput, CallModel, SaveRefused, Crash, inputs
<1>2. \A b \in Apps : OpenOf(b)' = OpenOf(b) /\ CurrentOf(b)' = CurrentOf(b)
  BY <1>1 DEF OpenOf, CurrentOf
<1>3. ASSUME NEW v \in Workers, Holds(v)', wk'[v].pc \in {"call", "repair", "save"}
      PROVE  wk'[v].input = run'[wk'[v].run].input
  <2>1. /\ wk \in [Workers -> Worker]
        /\ run[wk[v].run].owner = v /\ wk[v].pc \in {"call", "repair", "save"}
             => wk[v].input = run[wk[v].run].input
        /\ run'[wk'[v].run].owner = v
    BY <1>3 DEF IInv, TypeOK, ContractInv, InputsHeld, Holds
  <2>2. CASE v # w
    <3>1. wk'[v] = wk[v]
      BY <2>1, <2>2 DEF ReadInput, CallModel, SaveRefused, Crash, Goto
    <3> QED BY <1>1, <1>3, <2>1, <3>1
  <2>3. CASE v = w /\ ReadInput(w)
    <3> DEFINE input == InputOf(job[JobOf[AppOf(w)]], AppOf(w))
               usable == input = run[wk[w].run].input /\ input.text
                           /\ PlanReady(job[JobOf[AppOf(w)]], JobOf[AppOf(w)])
    <3>1. wk' = [wk EXCEPT ![w].pc = IF usable THEN "call" ELSE "refuse",
                           ![w].input = input, ![w].seen = IF usable THEN @ ELSE app[AppOf(w)]]
      BY <2>3 DEF ReadInput
    <3>2. usable => input = run[wk[w].run].input
      OBVIOUS
    <3> HIDE DEF input, usable
    <3>3. wk'[w].pc = (IF usable THEN "call" ELSE "refuse") /\ wk'[w].input = input /\ wk'[w].run = wk[w].run
      BY <2>1, <3>1 DEF Worker
    <3> QED BY <1>1, <1>3, <2>3, <3>2, <3>3
  <2>4. CASE v = w /\ CallModel(w)
    <3>1. /\ wk[w].pc \in {"call", "repair"}
          /\ \E next \in {"save", "fail", "call", "repair"} :
               wk' = [wk EXCEPT ![w].pc = next, ![w].calls = @ + 1, ![w].retried = @ \/ next = "call"]
      BY <2>4 DEF CallModel
    <3>2. wk'[w].run = wk[w].run /\ wk'[w].input = wk[w].input
      BY <2>1, <3>1 DEF Worker
    <3> QED BY <1>1, <2>1, <2>4, <3>1, <3>2
  <2>5. CASE v = w /\ (SaveRefused(w) \/ Crash(w))
    BY <1>3, <2>1, <2>5, IdleTyped DEF SaveRefused, Crash, Goto, Worker
  <2> QED BY <2>2, <2>3, <2>4, <2>5
<1> QED BY <1>1, <1>2, <1>3, QuietStep DEF InputsHeld

LEMMA CloseOrReopenImplements ==
  ASSUME IInv, ContractInv, NEW j \in Jobs, CloseOrReopen(j)
  PROVE  Implements
<1>1. job' = [job EXCEPT ![j].open = ~@] /\ UNCHANGED <<app, run, report, wk>>
  BY DEF CloseOrReopen
<1>2. ContractInv'
  BY <1>1 DEF ContractInv, OlderEnded, NoAppWithoutRow, WaitingFits, InputsHeld, Holds
<1>3. ASSUME NEW a \in Apps PROVE ContractStep(a)
  <2>1. CurrentOf(a)' = CurrentOf(a) /\ ValidOf(a)' = ValidOf(a)
    BY <1>1 DEF CurrentOf, ValidOf
  <2>2. OpenOf(a)' = OpenOf(a) \/ OpenOf(a)' = ~OpenOf(a)
    BY <1>1, Constants DEF OpenOf, IInv, TypeOK, Job
  <2> QED BY <1>1, <2>1, <2>2, SameRuns, SeenRests, SeenToggles
<1> QED BY <1>2, <1>3 DEF Implements

-----------------------------------------------------------------------------
(* The actions that write runs *)

\* A step that writes rows but no report, and leaves the jobs open and the resumes as they are.
LEMMA RowsStep ==
  ASSUME IInv, ContractInv,
         UNCHANGED <<job, report>>, \A a \in Apps : CurrentOf(a)' = CurrentOf(a),
         \A r \in RunIds :
           \/ run'[r] = run[r]
           \/ /\ run'[r].app = run[r].app /\ run[r].status \in Open
              /\ run'[r].status # "absent"
              /\ run[r].status = "running" => run'[r].input = run[r].input
              /\ run'[r].status \in {"waiting_resume", "waiting_plan"} =>
                   run'[r].input.resume = CurrentOf(run[r].app)
              /\ RowMove(r),
         \A w \in Workers :
           Holds(w)' /\ wk'[w].pc \in {"call", "repair", "save"} =>
             /\ Holds(w) /\ wk[w].pc \in {"call", "repair", "save"}
             /\ wk'[w].run = wk[w].run /\ wk'[w].input = wk[w].input
  PROVE  Implements
<1>1. \A r \in RunIds : run[r].status \in Open => run[r].app \in Apps
  BY DEF IInv, RowsFit, RowFits, Open, NotStarted, Waiting
<1>2. ContractInv'
  BY <1>1, RowsKeepContractInv DEF CurrentOf, Open, NotStarted, Waiting
<1>3. ASSUME NEW a \in Apps PROVE ContractStep(a)
  <2>1. OpenOf(a)' = OpenOf(a) /\ ValidOf(a)' = ValidOf(a)
    BY DEF OpenOf, ValidOf
  <2>2. \A r \in RunIds : run'[r].app = run[r].app /\ RowMove(r)
    BY DEF RowMove
  <2> QED BY <2>1, <2>2, RowMovesSeen
<1> QED BY <1>2, <1>3 DEF Implements

\* A step in which runs lose their leases at most gives no worker one.
LEMMA HoldersStay ==
  ASSUME IInv, NEW w \in Workers, wk'[w] = wk[w] \/ wk'[w].pc = "idle",
         \A r \in RunIds : run'[r].owner \in {run[r].owner, NoWorker},
         Holds(w)'
  PROVE  Holds(w) /\ wk'[w] = wk[w]
<1>1. wk'[w] = wk[w] /\ wk[w].pc # "idle" /\ run'[wk[w].run].owner = w
  BY DEF Holds
<1>2. wk[w].run \in RunIds
  BY <1>1, WorkerHasRun
<1> QED BY <1>1, <1>2, Constants DEF Holds

\* A run that waits is given the current resume and the status it needs.
LEMMA ReconcileWaitingMoves ==
  ASSUME IInv, ContractInv, NEW a \in Apps, ReconcileWaiting(a)
  PROVE  \A r \in RunIds :
           \/ run'[r] = run[r]
           \/ /\ run'[r].app = run[r].app /\ run[r].status \in Waiting
              /\ run'[r].status \in NotStarted
              /\ run'[r].input.resume = CurrentOf(run[r].app)
              /\ run'[r].owner = run[r].owner
              /\ RowMove(r)
<1> DEFINE jb == job[JobOf[a]]
           waiting == RunsOf(a, Waiting)
           last == CHOOSE q \in waiting : \A p \in waiting : p <= q
<1>1. CASE ~UNCHANGED run
  <2>1. /\ waiting # {}
        /\ run' = [run EXCEPT ![last] = IF RunsOf(a, Open) # {last} THEN Failed(@, TRUE)
                                        ELSE WithInput(@, Desired(jb, a), InputOf(jb, a))]
    BY <1>1 DEF ReconcileWaiting
  <2>2. PICK r \in RunIds : run[r].app = a /\ run[r].status \in Waiting
    BY <2>1 DEF RunsOf
  <2>3. \A q \in RunIds : run[q].app = a /\ run[q].status \in Open => q = r
    BY <2>2 DEF IInv, OneOpenRun, Open, NotStarted
  <2>4. waiting = {r} /\ RunsOf(a, Open) = {r}
    BY <2>2, <2>3 DEF RunsOf, Open, NotStarted
  <2>5. last = r
    BY <2>4, Constants DEF RunIds
  <2>6. run \in [RunIds -> Row] /\ run[r] \in Row
    BY DEF IInv, TypeOK
  <2>7. run' = [run EXCEPT ![r] = WithInput(run[r], Desired(jb, a), InputOf(jb, a))]
    BY <2>1, <2>4, <2>5
  <2>8. /\ run'[r].app = a /\ run'[r].status = Desired(jb, a) /\ run'[r].input = InputOf(jb, a)
        /\ run'[r].owner = run[r].owner
        /\ \A q \in RunIds : q # r => run'[q] = run[q]
    BY <2>2, <2>6, <2>7 DEF WithInput, Row
  <2>9. run'[r].input.resume = CurrentOf(a)
    BY <2>8 DEF InputOf, CurrentOf
  <2>10. /\ Desired(jb, a) \in NotStarted
         /\ SeenStatus(run'[r]) = IF OpenOf(a) THEN "waiting" ELSE "paused"
         /\ ~OpenOf(a) => run'[r].status = "paused"
    <3>1. jb.open = OpenOf(a) /\ jb.open \in BOOLEAN
      BY JobsTyped DEF OpenOf, Job
    <3> HIDE DEF jb
    <3>2. CASE jb.open
      <4>1. Desired(jb, a) \in {"waiting_resume", "waiting_plan", "queued"}
        BY <3>1, <3>2 DEF Desired
      <4> QED BY <2>8, <3>1, <3>2, <4>1 DEF SeenStatus, NotStarted, Waiting
    <3>3. CASE ~jb.open
      <4>1. Desired(jb, a) = "paused"
        BY <3>1, <3>3 DEF Desired
      <4> QED BY <2>8, <3>1, <3>3, <4>1 DEF SeenStatus, NotStarted, Waiting
    <3> QED BY <3>1, <3>2, <3>3
  <2>11. RowMove(r)
    <3>1. CASE run[r].status = "paused"
      BY <2>2, <2>9, <2>10, <3>1 DEF RowMove
    <3>2. CASE run[r].status # "paused"
      <4>1. run[r].input.resume = CurrentOf(a) /\ SeenStatus(run[r]) = "waiting"
        BY <2>2, <3>2 DEF ContractInv, WaitingFits, CurrentOf, Waiting, SeenStatus
      <4> QED BY <2>9, <2>10, <4>1 DEF RowMove
    <3> QED BY <3>1, <3>2
  <2> QED BY <2>2, <2>8, <2>9, <2>10, <2>11
<1> QED BY <1>1

LEMMA HooksImplement ==
  ASSUME IInv, ContractInv, NEW a \in Apps, AfterReady(a) \/ AfterPlanChanged(a)
  PROVE  Implements
<1>1. UNCHANGED <<job, app, wk>>
  BY DEF AfterReady, AfterPlanChanged, inputs
<1>2. \A b \in Apps : CurrentOf(b)' = CurrentOf(b) /\ OpenOf(b)' = OpenOf(b)
  BY <1>1 DEF CurrentOf, OpenOf
<1>3. CASE UNCHANGED report /\ ReconcileWaiting(a)
  <2>1. \A r \in RunIds : run'[r].owner \in {run[r].owner, NoWorker}
    BY <1>3, ReconcileWaitingMoves
  <2>2. \A w \in Workers : Holds(w)' => Holds(w) /\ wk'[w] = wk[w]
    BY <1>1, <2>1, HoldersStay
  <2> QED BY <1>1, <1>2, <1>3, <2>2, ReconcileWaitingMoves, RowsStep DEF Open, NotStarted, Waiting
<1>4. CASE AfterPlanChanged(a) /\ run' = run
  <2>1. \A b \in Apps : report'[b] = report[b] \/ report'[b].outdated
    BY <1>4, ReportMarked DEF AfterPlanChanged
  <2> QED BY <1>1, <1>2, <1>4, <2>1, QuietStep DEF ContractInv, InputsHeld, Holds
<1>5. CASE AfterPlanChanged(a) /\ ~report[a].exists /\ ReconcileWaiting(a)
  <2>1. UNCHANGED report
    BY <1>5 DEF AfterPlanChanged, Reconciled, IInv, TypeOK
  <2> QED BY <1>3, <1>5, <2>1
<1> QED BY <1>3, <1>4, <1>5 DEF AfterReady, AfterPlanChanged

LEMMA AfterJobClosedImplements ==
  ASSUME IInv, ContractInv, NEW j \in Jobs, AfterJobClosed(j)
  PROVE  Implements
<1>1. /\ UNCHANGED <<job, app, report, wk>>
      /\ run' = [r \in RunIds |->
                   IF run[r].app \in AppsOf(j) /\ run[r].status \in NotStarted \ {"paused"}
                   THEN [run[r] EXCEPT !.status = "paused", !.reason = "job_closed"] ELSE run[r]]
  BY DEF AfterJobClosed, inputs
<1>2. \A b \in Apps : CurrentOf(b)' = CurrentOf(b)
  BY <1>1 DEF CurrentOf
<1>3. ASSUME NEW r \in RunIds, run'[r] # run[r]
      PROVE  /\ run'[r].app = run[r].app /\ run[r].status \in NotStarted
             /\ run'[r].status = "paused" /\ RowMove(r) /\ run'[r].owner = run[r].owner
  <2>1. /\ run[r].status \in NotStarted \ {"paused"} /\ run[r] \in Row
        /\ run'[r] = [run[r] EXCEPT !.status = "paused", !.reason = "job_closed"]
    BY <1>1, <1>3 DEF IInv, TypeOK
  <2>2. SeenStatus(run[r]) = "waiting" /\ run'[r].status = "paused" /\ run'[r].input = run[r].input
    BY <2>1 DEF SeenStatus, NotStarted, Waiting, Row
  <2> QED BY <2>1, <2>2 DEF RowMove, Row
<1>4. \A w \in Workers : Holds(w)' => Holds(w) /\ wk'[w] = wk[w]
  BY <1>1, <1>3, HoldersStay
<1> QED BY <1>1, <1>2, <1>3, <1>4, RowsStep DEF Open, NotStarted, Waiting

LEMMA LeaseRunsOutImplements ==
  ASSUME IInv, ContractInv, NEW r \in RunIds, LeaseRunsOut(r)
  PROVE  Implements
<1>1. /\ UNCHANGED <<job, app, report, wk>>
      /\ run[r].status = "running" /\ run' = [run EXCEPT ![r].over = TRUE]
  BY DEF LeaseRunsOut, inputs
<1>2. \A b \in Apps : CurrentOf(b)' = CurrentOf(b)
  BY <1>1 DEF CurrentOf
<1>3. \A q \in RunIds : \/ run'[q] = run[q]
                        \/ /\ run[q].status = "running" /\ run'[q].status = "running"
                           /\ run'[q].app = run[q].app /\ run'[q].input = run[q].input
                           /\ run'[q].owner = run[q].owner
  BY <1>1 DEF IInv, TypeOK, Row
<1>4. \A w \in Workers : Holds(w)' => Holds(w) /\ wk'[w] = wk[w]
  BY <1>1, <1>3, HoldersStay
<1> QED BY <1>1, <1>2, <1>3, <1>4, RowsStep DEF Open, RowMove, SeenStatus

LEMMA ClaimNextRunImplements ==
  ASSUME IInv, ContractInv, NEW w \in Workers, ClaimNextRun(w)
  PROVE  Implements
<1> DEFINE rows == [r \in RunIds |-> Requeued(run[r])]
           queued == {r \in RunIds : rows[r].status = "queued"}
           first == CHOOSE q \in queued : \A p \in queued : q <= p
<1>1. /\ queued # {} /\ UNCHANGED <<job, app, report>>
      /\ \/ /\ OpenOf(run[first].app)
            /\ run' = [rows EXCEPT ![first].status = "running", ![first].owner = w]
            /\ wk' = [wk EXCEPT ![w] = [Idle EXCEPT !.pc = "read", !.run = first]]
         \/ /\ run' = [rows EXCEPT ![first].status = "paused", ![first].reason = "job_closed"]
            /\ UNCHANGED wk
  BY DEF ClaimNextRun, OpenOf, inputs
<1>2. first \in queued
  BY <1>1, OldestExists
<1>3. PICK r \in RunIds : r = first /\ rows[r].status = "queued"
  BY <1>2
<1> HIDE DEF first
<1>4. \A q \in RunIds :
        /\ run[q] \in Row
        /\ \/ rows[q] = run[q]
           \/ /\ run[q].status = "running" /\ run[q].over
              /\ rows[q] = [run[q] EXCEPT !.status = "queued", !.owner = NoWorker, !.over = FALSE]
  BY DEF Requeued, IInv, TypeOK
<1>5. rows = [q \in RunIds |-> rows[q]]
  OBVIOUS
<1> HIDE DEF rows, queued
<1>6. \A q \in RunIds :
        /\ rows[q].app = run[q].app /\ rows[q].input = run[q].input
        /\ rows[q].owner \in {run[q].owner, NoWorker}
        /\ rows[q] = run[q] \/ (run[q].status = "running" /\ rows[q].status = "queued")
        /\ DOMAIN rows[q] = DOMAIN run[q]
  BY <1>4 DEF Row
<1>7. /\ run'[r].app = run[r].app /\ run'[r].input = run[r].input
      /\ run'[r].owner \in {w, rows[r].owner}
      /\ \/ run'[r].status = "running" /\ OpenOf(run[r].app)
         \/ run'[r].status = "paused"
  <2>1. rows[r] \in [app : {rows[r].app}, status : {rows[r].status}, reason : {rows[r].reason},
                     auto : {rows[r].auto}, input : {rows[r].input}, owner : {rows[r].owner},
                     over : {rows[r].over}, superseded : {rows[r].superseded}]
    BY <1>4 DEF Row
  <2>2. \/ run'[r] = [rows[r] EXCEPT !.status = "running", !.owner = w] /\ OpenOf(run[r].app)
        \/ run'[r] = [rows[r] EXCEPT !.status = "paused", !.reason = "job_closed"]
    BY <1>1, <1>3, <1>5
  <2> QED BY <1>6, <2>1, <2>2, ZenonT(60)
<1>8. \A q \in RunIds : q # r => run'[q] = rows[q]
  BY <1>1, <1>3, <1>5
<1>9. ASSUME NEW q \in RunIds
      PROVE  \/ run'[q] = run[q]
             \/ /\ run'[q].app = run[q].app /\ run[q].status \in {"queued", "running"}
                /\ run'[q].status \in {"queued", "running", "paused"}
                /\ run'[q].input = run[q].input /\ RowMove(q)
  <2>1. CASE q # r
    BY <1>6, <1>8, <2>1 DEF RowMove
  <2>2. CASE q = r
    <3>1. run[r].status \in {"queued", "running"}
      BY <1>3, <1>6
    <3>2. RowMove(r)
      BY <1>7, <3>1 DEF RowMove, SeenStatus
    <3> QED BY <1>7, <2>2, <3>1, <3>2
  <2> QED BY <2>1, <2>2
<1>10. ASSUME NEW v \in Workers, Holds(v)', wk'[v].pc \in {"call", "repair", "save"}
       PROVE  Holds(v) /\ wk'[v] = wk[v]
  <2>1. wk'[v] = wk[v]
    BY <1>1, <1>10, IdleTyped, ZenonT(60) DEF IInv, TypeOK, Idle
  <2>2. wk[v].run \in RunIds /\ run'[wk[v].run].owner = v /\ wk[v].pc # "idle" /\ v # w
    BY <1>10, <2>1, WorkerHasRun DEF Holds, ClaimNextRun
  <2>3. run[wk[v].run].owner = v
    BY <1>6, <1>7, <1>8, <2>2, Constants
  <2> QED BY <2>1, <2>2, <2>3 DEF Holds
<1>11. \A b \in Apps : CurrentOf(b)' = CurrentOf(b)
  BY <1>1 DEF CurrentOf
<1> QED BY <1>1, <1>9, <1>10, <1>11, RowsStep DEF Open, NotStarted, Waiting

\* A hand-over leaves the resume.
LEMMA HandedOffResume ==
  ASSUME IInv, NEW a \in Apps, NEW seen, app' = app \/ app' = HandedOff(a, seen)
  PROVE  \A b \in Apps : CurrentOf(b)' = CurrentOf(b)
BY DEF IInv, TypeOK, Application, HandedOff, CurrentOf

\* A worker that holds its run has the one that is under way.
LEMMA WorkerRuns ==
  ASSUME IInv, NEW w \in Workers, Holds(w)
  PROVE  /\ AppOf(w) \in Apps /\ wk[w].run \in RunIds /\ run[wk[w].run] \in Row
         /\ run[wk[w].run].status = "running" /\ run[wk[w].run].app = AppOf(w)
<1>1. wk[w].pc # "idle" /\ run[wk[w].run].owner = w /\ wk[w].run \in RunIds
  BY WorkerHasRun DEF Holds
<1> QED BY <1>1, WorkerHasRun, Constants DEF IInv, RowsFit, RowFits, AppOf

\* What _save_success and _mark_failed make of a row.
LEMMA DoneFits ==
  ASSUME NEW row \in Row
  PROVE  LET failed == Failed(row, FALSE)
             done == [Failed(row, FALSE) EXCEPT !.status = "succeeded"]
         IN  /\ failed.status = "failed" /\ done.status = "succeeded"
             /\ failed.app = row.app /\ done.app = row.app
             /\ failed.input = row.input /\ done.input = row.input
             /\ failed.owner = NoWorker /\ done.owner = NoWorker
BY DEF Failed, Row

\* A worker ends its run; the report of the application is stored, or all reports stay.
EndsRun(w, a, row) ==
  /\ wk' = [wk EXCEPT ![w] = Idle] /\ UNCHANGED job /\ a = AppOf(w)
  /\ \A b \in Apps : CurrentOf(b)' = CurrentOf(b)
  /\ run' = [run EXCEPT ![wk[w].run] = row]
  /\ row.app = a /\ row.input = run[wk[w].run].input /\ row.owner = NoWorker
  /\ \A b \in Apps \ {a} : ValidOf(b)' = ValidOf(b)
  /\ \/ row.status = "succeeded" /\ ValidOf(a)' = CurrentOf(a)
     \/ row.status = "failed" /\ ValidOf(a)' = ValidOf(a)

\* Whether the run is its own or not, the worker leaves the other applications alone, ...
LEMMA EndsAlone ==
  ASSUME IInv, ContractInv, NEW w \in Workers, wk[w].pc # "idle",
         NEW a \in Apps, NEW row, EndsRun(w, a, row)
  PROVE  /\ ContractInv' /\ \A b \in Apps \ {a} : ContractStep(b)
         /\ \A q \in RunIds : run'[q].app = run[q].app
         /\ wk[w].run \in RunIds /\ run[wk[w].run].app = a
         /\ run'[wk[w].run] = row
         /\ \A q \in RunIds \ {wk[w].run} : run'[q] = run[q]
<1>1. PICK r \in RunIds : r = wk[w].run /\ run[r].app = a /\ run[r].status # "absent"
  BY WorkerHasRun DEF AppOf, EndsRun
<1>2. /\ run \in [RunIds -> Row] /\ row.app = a /\ row.input = run[r].input
      /\ row.owner = NoWorker /\ row.status \in Ended /\ run' = [run EXCEPT ![r] = row]
  BY <1>1 DEF EndsRun, Ended, IInv, TypeOK
<1>3. run'[r] = row /\ \A q \in RunIds \ {r} : run'[q] = run[q]
  BY <1>2
<1>4. \A q \in RunIds : run'[q].app = run[q].app /\ run'[q].owner \in {run[q].owner, NoWorker}
  BY <1>1, <1>2, <1>3
<1>5. \A v \in Workers : wk'[v] = wk[v] \/ wk'[v].pc = "idle"
  BY IdleTyped DEF EndsRun, IInv, TypeOK
<1>6. \A v \in Workers : Holds(v)' => Holds(v) /\ wk'[v] = wk[v]
  BY <1>4, <1>5, HoldersStay
<1>7. \A q \in RunIds :
        \/ run'[q] = run[q] /\ (run[q].status \in Open =>
                                  app'[run[q].app].resume = app[run[q].app].resume)
        \/ /\ run'[q].app = run[q].app /\ run[q].status # "absent"
           /\ run'[q].status \in Ended /\ run'[q].input = run[q].input
  <2>1. \A q \in RunIds : run[q].status \in Open => run[q].app \in Apps
    BY DEF IInv, RowsFit, RowFits, Open, NotStarted, Waiting
  <2> QED BY <1>1, <1>2, <1>3, <2>1 DEF EndsRun, CurrentOf
<1>8. ContractInv'
  BY <1>6, <1>7, RowsKeepContractInv DEF Ended
<1>9. ASSUME NEW b \in Apps \ {a} PROVE ContractStep(b)
  <2>1. \A q \in RunIds : run[q].app = b => run'[q] = run[q]
    BY <1>1, <1>3
  <2>2. StatusOf(b)' = StatusOf(b) /\ ResumeOf(b)' = ResumeOf(b)
    BY <1>4, <2>1, RowsStayLatest DEF IsLatest
  <2>3. OpenOf(b)' = OpenOf(b) /\ CurrentOf(b)' = CurrentOf(b) /\ ValidOf(b)' = ValidOf(b)
    BY <1>1 DEF EndsRun, OpenOf
  <2> QED BY <2>2, <2>3, SeenRests
<1> QED BY <1>1, <1>3, <1>4, <1>8, <1>9

\* ... one that holds its run ends the latest of its application, ...
LEMMA HolderEnds ==
  ASSUME IInv, ContractInv, NEW w \in Workers, Holds(w),
         NEW a \in Apps, NEW row, EndsRun(w, a, row),
         row.status = "succeeded" => run[wk[w].run].input.resume = CurrentOf(a)
  PROVE  Implements
<1>1. PICK r \in RunIds : r = wk[w].run /\ run[r].app = a /\ run[r].status = "running"
  BY WorkerRuns DEF EndsRun
<1>2. /\ ContractInv' /\ \A b \in Apps \ {a} : ContractStep(b)
      /\ \A q \in RunIds : run'[q].app = run[q].app
      /\ run'[r] = row
  BY <1>1, EndsAlone DEF Holds
<1>3. IsLatest(a, r)
  BY <1>1, OpenIsLatest DEF Open
<1>4. IsLatest(a, r)'
  BY <1>2, <1>3 DEF IsLatest
<1>5. /\ StatusOf(a) = "running" /\ ResumeOf(a) = run[r].input.resume
      /\ StatusOf(a)' = SeenStatus(row) /\ ResumeOf(a)' = run[r].input.resume
  BY <1>1, <1>2, <1>3, <1>4, LatestSeen, LatestSeenNext DEF SeenStatus, EndsRun
<1>6. OpenOf(a)' = OpenOf(a) /\ CurrentOf(a)' = CurrentOf(a)
  BY DEF EndsRun, OpenOf
<1>7. CASE row.status = "succeeded" /\ ValidOf(a)' = CurrentOf(a)
  <2>1. StatusOf(a)' = "succeeded"
    BY <1>5, <1>7 DEF SeenStatus
  <2> QED BY <1>1, <1>2, <1>5, <1>6, <1>7, <2>1, SeenSucceeds DEF Implements
<1>8. CASE row.status = "failed" /\ ValidOf(a)' = ValidOf(a)
  <2>1. StatusOf(a)' = "failed"
    BY <1>5, <1>8 DEF SeenStatus
  <2> QED BY <1>2, <1>5, <1>6, <1>8, <2>1, SeenMoves DEF Implements
<1> QED BY <1>1, <1>7, <1>8 DEF EndsRun

\* ... and one that lost it comes late, for the latest run or for one before it.
LEMMA LostEnds ==
  ASSUME IInv, ContractInv, NEW w \in Workers, wk[w].pc # "idle", ~Holds(w),
         NEW a \in Apps, NEW row, EndsRun(w, a, row)
  PROVE  Implements
<1>1. PICK r \in RunIds : a = AppOf(w) /\ r = wk[w].run /\ run[r].app = a
  BY WorkerHasRun DEF AppOf, EndsRun
<1>2. /\ ContractInv' /\ \A b \in Apps \ {a} : ContractStep(b)
      /\ \A q \in RunIds : run'[q].app = run[q].app
      /\ run'[r] = row /\ \A q \in RunIds \ {r} : run'[q] = run[q]
  BY <1>1, EndsAlone
<1>3. PICK last \in RunIds : IsLatest(a, last)
  BY <1>1, HasLatest DEF HasNoRow
<1>4. IsLatest(a, last)'
  BY <1>2, <1>3 DEF IsLatest
<1>5. run'[last] = run[last] \/ (run'[last] = row /\ row.input = run[last].input)
  <2>1. row.input = run[r].input
    BY <1>1 DEF EndsRun
  <2> QED BY <1>2, <2>1
<1>6. /\ StatusOf(a) = SeenStatus(run[last]) /\ ResumeOf(a)' = ResumeOf(a)
      /\ StatusOf(a)' = StatusOf(a) \/ StatusOf(a)' = SeenStatus(row)
  BY <1>3, <1>4, <1>5, LatestSeen, LatestSeenNext
<1>7. StatusOf(a) # "none"
  <2>1. run[last].status # "absent" /\ run[last] \in Row
    BY <1>3, Constants DEF IsLatest, ContractInv, NoAppWithoutRow, AbsentRow, IInv, TypeOK
  <2> QED BY <1>6, <2>1 DEF SeenStatus, Row, Open, NotStarted, Waiting, Ended
<1>8. OpenOf(a)' = OpenOf(a) /\ CurrentOf(a)' = CurrentOf(a) /\ Replaced(a)
  BY <1>1 DEF EndsRun, OpenOf, Replaced, Holds
<1>9. CASE row.status = "succeeded" /\ ValidOf(a)' = CurrentOf(a)
  <2>1. StatusOf(a)' \in {StatusOf(a), "succeeded"}
    BY <1>6, <1>9 DEF SeenStatus
  <2> QED BY <1>2, <1>6, <1>7, <1>8, <1>9, <2>1, SeenLate DEF Implements
<1>10. CASE row.status = "failed" /\ ValidOf(a)' = ValidOf(a)
  <2>1. StatusOf(a)' = StatusOf(a) \/ StatusOf(a)' = "failed"
    BY <1>6, <1>10 DEF SeenStatus
  <2> QED BY <1>2, <1>6, <1>7, <1>8, <1>10, <2>1, SeenLate, SeenRests DEF Implements
<1> QED BY <1>1, <1>9, <1>10 DEF EndsRun

\* The run of a worker fails, or the database refuses and nothing is written.
LEMMA FailingImplements ==
  ASSUME IInv, ContractInv, NEW w \in Workers, wk[w].pc # "idle",
         wk' = [wk EXCEPT ![w] = Idle], UNCHANGED <<job, report>>,
         run' = run \/ run' = [run EXCEPT ![wk[w].run] = Failed(@, FALSE)],
         \A b \in Apps : CurrentOf(b)' = CurrentOf(b)
  PROVE  Implements
<1>1. wk[w].run \in RunIds /\ run[wk[w].run] \in Row /\ run \in [RunIds -> Row]
  BY WorkerHasRun DEF IInv, TypeOK
<1>2. CASE run' = run
  <2>1. \A v \in Workers : wk'[v] = wk[v] \/ wk'[v].pc = "idle"
    BY IdleTyped DEF IInv, TypeOK
  <2>2. InputsHeld'
    BY <1>2, <2>1 DEF ContractInv, InputsHeld, Holds
  <2> QED BY <1>2, <2>2, QuietStep DEF OpenOf
<1>3. CASE run' = [run EXCEPT ![wk[w].run] = Failed(@, FALSE)]
  <2> DEFINE row == Failed(run[wk[w].run], FALSE)
  <2>1. run' = [run EXCEPT ![wk[w].run] = row]
    BY <1>1, <1>3
  <2>2. /\ row.status = "failed" /\ row.app = run[wk[w].run].app
        /\ row.input = run[wk[w].run].input /\ row.owner = NoWorker
    BY <1>1, DoneFits
  <2> HIDE DEF row
  <2>3. \A b \in Apps : ValidOf(b)' = ValidOf(b)
    BY DEF ValidOf
  <2>4. PICK a \in Apps : a = AppOf(w) /\ a = run[wk[w].run].app
    BY WorkerHasRun DEF AppOf
  <2>5. EndsRun(w, a, row)
    BY <2>1, <2>2, <2>3, <2>4 DEF EndsRun
  <2> QED BY <2>2, <2>5, HolderEnds, LostEnds
<1> QED BY <1>2, <1>3

LEMMA MarkFailedImplements ==
  ASSUME IInv, ContractInv, NEW w \in Workers, MarkFailed(w)
  PROVE  Implements
<1>1. /\ wk[w].pc # "idle" /\ wk' = [wk EXCEPT ![w] = Idle] /\ UNCHANGED <<job, report>>
      /\ run' = run \/ run' = [run EXCEPT ![wk[w].run] = Failed(@, FALSE)]
      /\ \E seen : app' = app \/ app' = HandedOff(AppOf(w), seen)
  BY DEF MarkFailed, FailedApp, inputs
<1>2. \A b \in Apps : CurrentOf(b)' = CurrentOf(b)
  BY <1>1, WorkerHasRun, HandedOffResume
<1> QED BY <1>1, <1>2, FailingImplements

LEMMA SwitchResumeImplements ==
  ASSUME IInv, ContractInv, NEW a \in Apps, SwitchResume(a)
  PROVE  Implements
<1>1. /\ app' = [app EXCEPT ![a].resume = 3 - @]
      /\ report' = [report EXCEPT ![a].outdated = report[a].exists]
      /\ run' = [r \in RunIds |->
                   IF r \in RunsOf(a, NotStarted) THEN Failed(run[r], TRUE) ELSE run[r]]
      /\ UNCHANGED <<job, wk>>
  BY DEF SwitchResume, inputs
<1>2. /\ CurrentOf(a) \in Resumes /\ CurrentOf(a)' = 3 - CurrentOf(a)
      /\ \A b \in Apps \ {a} : CurrentOf(b)' = CurrentOf(b)
  BY <1>1 DEF IInv, TypeOK, Application, CurrentOf
<1>3. \A row \in Row : LET failed == Failed(row, TRUE)
                       IN  /\ failed.status = "failed" /\ failed.app = row.app
                           /\ failed.input = row.input /\ failed.owner = NoWorker
  BY DEF Failed, Row
<1>4. ASSUME NEW r \in RunIds
      PROVE  IF run[r].app = a /\ run[r].status \in NotStarted
             THEN /\ run'[r].status = "failed" /\ run'[r].app = run[r].app
                  /\ run'[r].input = run[r].input /\ run'[r].owner = NoWorker
             ELSE run'[r] = run[r]
  <2>1. run[r] \in Row
    BY DEF IInv, TypeOK
  <2>2. run'[r] = IF r \in RunsOf(a, NotStarted) THEN Failed(run[r], TRUE) ELSE run[r]
    BY <1>1
  <2>3. r \in RunsOf(a, NotStarted) <=> run[r].app = a /\ run[r].status \in NotStarted
    BY RunsOfFits
  <2> QED BY <1>3, <2>1, <2>2, <2>3
<1>5. \A r \in RunIds : run[r].status \in Open => run[r].app \in Apps
  BY DEF IInv, RowsFit, RowFits, Open, NotStarted, Waiting
<1>6. ContractInv'
  <2>1. \A r \in RunIds :
          \/ run'[r] = run[r] /\ (run[r].status \in Open =>
                                    app'[run[r].app].resume = app[run[r].app].resume)
          \/ /\ run'[r].app = run[r].app /\ run[r].status \in Open
             /\ run[r].status # "absent" /\ run'[r].status # "absent"
             /\ run[r].status = "running" => run'[r].input = run[r].input
             /\ run'[r].status \in {"waiting_resume", "waiting_plan"} =>
                  run'[r].input.resume = app'[run[r].app].resume
    BY <1>2, <1>4, <1>5 DEF CurrentOf, Open, NotStarted, Waiting
  <2>2. \A r \in RunIds : run'[r].owner \in {run[r].owner, NoWorker}
    BY <1>4
  <2>3. \A w \in Workers : Holds(w)' => Holds(w) /\ wk'[w] = wk[w]
    BY <1>1, <2>2, HoldersStay
  <2> QED BY <1>1, <2>1, <2>3, RowsKeepContractInv
<1>7. \A b \in Apps : OpenOf(b)' = OpenOf(b)
  BY <1>1 DEF OpenOf
<1>8. \A r \in RunIds : run'[r].app = run[r].app
  BY <1>4
<1>9. ASSUME NEW b \in Apps, b # a PROVE ContractStep(b)
  <2>1. ValidOf(b)' = ValidOf(b)
    BY <1>1, <1>9 DEF ValidOf, IInv, TypeOK
  <2>2. \A r \in RunIds : run[r].app = b => run'[r] = run[r]
    BY <1>4, <1>9
  <2>3. StatusOf(b)' = StatusOf(b) /\ ResumeOf(b)' = ResumeOf(b)
    BY <1>8, <2>2, RowsStayLatest DEF IsLatest
  <2> QED BY <1>2, <1>7, <1>9, <2>1, <2>3, SeenRests
<1>10. ContractStep(a)
  <2>1. ValidOf(a)' = 0
    <3>1. report'[a].exists = report[a].exists /\ report'[a].outdated = report[a].exists
      BY <1>1 DEF IInv, TypeOK, Report
    <3> QED BY <3>1 DEF ValidOf, ResumeIf
  <2>2. CurrentOf(a)' \in Resumes \ {CurrentOf(a)}
    BY <1>2 DEF Resumes
  <2>3. /\ StatusOf(a)' = IF StatusOf(a) \in {"waiting", "paused"} THEN "failed" ELSE StatusOf(a)
        /\ ResumeOf(a)' = ResumeOf(a)
    <3>1. CASE HasNoRow(a)
      BY <1>8, <3>1, NoneSeen DEF HasNoRow
    <3>2. CASE ~HasNoRow(a)
      <4>1. PICK r \in RunIds :
              /\ run[r].app = a
              /\ StatusOf(a) = SeenStatus(run[r]) /\ ResumeOf(a) = run[r].input.resume
              /\ StatusOf(a)' = SeenStatus(run'[r]) /\ ResumeOf(a)' = run'[r].input.resume
        BY <1>8, <3>2, RowsStayLatest DEF IsLatest
      <4>2. run[r].status \in NotStarted <=> SeenStatus(run[r]) \in {"waiting", "paused"}
        <5>1. run[r] \in Row
          BY DEF IInv, TypeOK
        <5> QED BY <5>1 DEF Row, SeenStatus, Open, NotStarted, Waiting, Ended
      <4> QED BY <1>4, <4>1, <4>2 DEF SeenStatus
    <3> QED BY <3>1, <3>2
  <2> QED BY <1>7, <2>1, <2>2, <2>3, SeenSwitches
<1> QED BY <1>6, <1>9, <1>10 DEF Implements

LEMMA SaveSuccessImplements ==
  ASSUME IInv, ContractInv, NEW w \in Workers, SaveSuccess(w)
  PROVE  Implements
<1>0. PICK a \in Apps, r \in RunIds : a = AppOf(w) /\ r = wk[w].run /\ run[r] \in Row /\ run[r].app = a
  BY WorkerHasRun DEF SaveSuccess, AppOf
<1>1. /\ wk[w].pc = "save" /\ wk' = [wk EXCEPT ![w] = Idle] /\ UNCHANGED <<job, plan, text>>
      /\ app' = HandedOff(a, app[a])
      /\ \/ /\ InputUnchanged(w)
            /\ run' = [run EXCEPT ![r] = [Failed(@, FALSE) EXCEPT !.status = "succeeded"]]
            /\ report' = [report EXCEPT ![a] =
                            [exists |-> TRUE, outdated |-> FALSE, input |-> wk[w].input]]
         \/ run' = [run EXCEPT ![r] = Failed(@, FALSE)] /\ UNCHANGED report
  BY <1>0 DEF SaveSuccess, inputs
<1>2. run \in [RunIds -> Row]
  BY DEF IInv, TypeOK
<1>3. \A b \in Apps : CurrentOf(b)' = CurrentOf(b)
  BY <1>1, HandedOffResume
<1>4. CASE run' = [run EXCEPT ![r] = Failed(@, FALSE)] /\ UNCHANGED report
  BY <1>0, <1>1, <1>3, <1>4, FailingImplements
<1>5. CASE /\ InputUnchanged(w)
           /\ run' = [run EXCEPT ![r] = [Failed(@, FALSE) EXCEPT !.status = "succeeded"]]
           /\ report' = [report EXCEPT ![a] =
                           [exists |-> TRUE, outdated |-> FALSE, input |-> wk[w].input]]
  <2> DEFINE row == [Failed(run[r], FALSE) EXCEPT !.status = "succeeded"]
  <2>1. /\ row.status = "succeeded" /\ row.app = a /\ row.input = run[r].input
        /\ row.owner = NoWorker
    BY <1>0, DoneFits
  <2>2. run' = [run EXCEPT ![r] = row]
    BY <1>2, <1>5
  <2> HIDE DEF row
  <2>3. wk[w].input.resume = CurrentOf(a)
    BY <1>0, <1>5 DEF InputUnchanged, InputOf, CurrentOf
  <2>4. ValidOf(a)' = CurrentOf(a) /\ \A b \in Apps \ {a} : ValidOf(b)' = ValidOf(b)
    BY <1>5, <2>3 DEF ValidOf, ResumeIf, IInv, TypeOK
  <2>5. EndsRun(w, a, row)
    BY <1>0, <1>1, <1>3, <2>1, <2>2, <2>4 DEF EndsRun
  <2>6. Holds(w) => wk[w].input = run[r].input
    BY <1>0, <1>1 DEF ContractInv, InputsHeld
  <2> QED BY <1>0, <1>1, <2>3, <2>5, <2>6, HolderEnds, LostEnds
<1> QED BY <1>1, <1>4, <1>5

\* What a trigger adds is a run for the present input.
LEMMA TriggerAdds ==
  ASSUME IInv, NEW a \in Apps, NEW jb \in Job, NEW force, NEW auto \in BOOLEAN, NEW closedToo \in BOOLEAN,
         Trigger(a, jb, force, auto, closedToo)
  PROVE  \/ UNCHANGED <<run, created>>
         \/ /\ RunsOf(a, Open) = {} /\ created + 1 \in RunIds
            /\ Desired(jb, a) = "paused" => closedToo
            /\ \E row : /\ run' = [run EXCEPT ![created + 1] = row]
                        /\ row.app = a /\ row.status = Desired(jb, a) /\ row.input = InputOf(jb, a)
<1> DEFINE first == [AbsentRow EXCEPT !.app = a, !.auto = auto]
           row == WithInput(first, Desired(jb, a), InputOf(jb, a))
<1>1. \/ UNCHANGED <<run, created>>
      \/ /\ Existing(a, InputOf(jb, a)) = {} /\ created < MaxRuns
         /\ Desired(jb, a) = "paused" => closedToo
         /\ run' = [run EXCEPT ![created + 1] = row]
  BY DEF Trigger
<1>2. row.app = a /\ row.status = Desired(jb, a) /\ row.input = InputOf(jb, a)
  BY DEF WithInput, AbsentRow
<1>3. created < MaxRuns => created + 1 \in RunIds
  BY Constants DEF IInv, TypeOK, RunIds
<1> HIDE DEF row
<1> QED BY <1>1, <1>2, <1>3 DEF Existing

\* A trigger adds a run when the latest one has ended, for the current resume, paused only
\* when the job is closed; otherwise it does no more than mark the report.
LEMMA TriggerImplements ==
  ASSUME IInv, ContractInv, NEW a \in Apps, NEW jb \in Job,
         NEW force \in BOOLEAN, NEW auto \in BOOLEAN, NEW closedToo \in BOOLEAN,
         closedToo => jb = job[JobOf[a]],
         Trigger(a, jb, force, auto, closedToo), UNCHANGED <<job, app, wk>>
  PROVE  Implements
<1>1. \A b \in Apps : report'[b] = report[b] \/ report'[b].outdated
  BY TriggerFits
<1>2. \A b \in Apps : /\ OpenOf(b)' = OpenOf(b) /\ CurrentOf(b)' = CurrentOf(b)
                      /\ ValidOf(b)' \in {ValidOf(b), 0}
  BY <1>1 DEF OpenOf, CurrentOf, ValidOf, ResumeIf
<1>3. CASE UNCHANGED run
  BY <1>1, <1>2, <1>3, QuietStep DEF ContractInv, InputsHeld, Holds
<1>4. CASE /\ RunsOf(a, Open) = {} /\ created + 1 \in RunIds
           /\ Desired(jb, a) = "paused" => closedToo
           /\ \E row : /\ run' = [run EXCEPT ![created + 1] = row]
                       /\ row.app = a /\ row.status = Desired(jb, a) /\ row.input = InputOf(jb, a)
  <2>1. PICK new \in RunIds : new = created + 1
    BY <1>4
  <2>2. PICK row : /\ run' = [run EXCEPT ![new] = row]
                   /\ row.app = a /\ row.status = Desired(jb, a) /\ row.input = InputOf(jb, a)
    BY <1>4, <2>1
  <2>3. run'[new] = row /\ \A r \in RunIds : r # new => run'[r] = run[r]
    BY <2>2 DEF IInv, TypeOK
  <2>4. /\ row.status \in NotStarted /\ row.input.resume = CurrentOf(a)
        /\ row.status = "paused" => ~OpenOf(a)
    <3>1. row.input.resume = CurrentOf(a)
      BY <2>2 DEF InputOf, CurrentOf
    <3>2. row.status = "paused" => jb = job[JobOf[a]]
      BY <1>4, <2>2
    <3>3. Desired(jb, a) = "paused" => ~jb.open
      BY DEF Desired
    <3> QED BY <2>2, <3>1, <3>2, <3>3, InputTyped DEF OpenOf
  <2>5. ASSUME NEW r \in RunIds, r > created PROVE run[r].status = "absent" /\ run[r].app = NoApp
    BY <2>5 DEF IInv, RowsFit, ContractInv, NoAppWithoutRow, AbsentRow
  <2>6. \A r \in RunIds : run[r].app = a => run[r].status \in Ended /\ r < new
    <3> SUFFICES ASSUME NEW r \in RunIds, run[r].app = a PROVE run[r].status \in Ended /\ r < new
      OBVIOUS
    <3>1. run[r].app # NoApp /\ created \in Nat /\ r \in Nat
      BY Constants DEF IInv, TypeOK, RunIds
    <3>2. r < new
      BY <2>1, <2>5, <3>1
    <3>3. run[r].status \notin Open
      BY <1>4 DEF RunsOf
    <3>4. run[r].status # "absent"
      BY <3>1 DEF ContractInv, NoAppWithoutRow, AbsentRow
    <3> QED BY <3>2, <3>3, <3>4 DEF IInv, TypeOK, Row
  <2>7. created \in Nat /\ run[new].status = "absent" /\ run[new].app = NoApp
    BY <2>1, <2>5 DEF IInv, TypeOK
  <2>8. ContractInv'
    <3>1. OlderEnded'
      <4> SUFFICES ASSUME NEW q \in RunIds, NEW r \in RunIds,
                          run'[q].app \in Apps, run'[r].app = run'[q].app, q < r
                   PROVE  run'[q].status \in Ended
        BY DEF OlderEnded
      <4>1. CASE q = new
        <5>1. r > created /\ r # new
          BY <2>1, <2>7, <4>1 DEF RunIds
        <5>2. run'[r].app = NoApp
          BY <2>3, <2>5, <5>1
        <5> QED BY <5>2, Constants
      <4>2. CASE q # new /\ r = new
        BY <2>2, <2>3, <2>6, <4>2
      <4>3. CASE q # new /\ r # new
        BY <2>3, <4>3 DEF ContractInv, OlderEnded
      <4> QED BY <4>1, <4>2, <4>3
    <3>2. NoAppWithoutRow'
      BY <2>3, <2>4, NotStartedIsOpen DEF ContractInv, NoAppWithoutRow
    <3>3. WaitingFits'
      BY <2>2, <2>3, <2>4 DEF ContractInv, WaitingFits, CurrentOf
    <3>4. InputsHeld'
      <4> SUFFICES ASSUME NEW w \in Workers, Holds(w)', wk[w].pc \in {"call", "repair", "save"}
                   PROVE  wk[w].input = run'[wk[w].run].input
        BY DEF InputsHeld
      <4>1. wk[w].run \in RunIds /\ wk[w].run # new
        BY <2>7, WorkerHasRun
      <4>2. Holds(w)
        BY <2>3, <4>1 DEF Holds
      <4> QED BY <2>3, <4>1, <4>2 DEF ContractInv, InputsHeld
    <3> QED BY <3>1, <3>2, <3>3, <3>4 DEF ContractInv
  <2>9. ASSUME NEW b \in Apps, b # a PROVE ContractStep(b)
    <3>1. \A r \in RunIds : (run'[r].app = b <=> run[r].app = b) /\ (run[r].app = b => run'[r] = run[r])
      BY <2>2, <2>3, <2>7, <2>9, Constants
    <3>2. CASE HasNoRow(b)
      <4>1. HasNoRow(b)'
        BY <3>1, <3>2 DEF HasNoRow
      <4> QED BY <1>2, <3>2, <4>1, NoneSeen, SeenRests, SeenOutdates
    <3>3. CASE ~HasNoRow(b)
      <4>1. PICK r \in RunIds : IsLatest(b, r)
        BY <3>3, HasLatest
      <4>2. IsLatest(b, r)' /\ run'[r] = run[r]
        BY <3>1, <4>1 DEF IsLatest
      <4>3. StatusOf(b)' = StatusOf(b) /\ ResumeOf(b)' = ResumeOf(b)
        BY <4>1, <4>2, LatestSeen, LatestSeenNext
      <4> QED BY <1>2, <4>3, SeenRests, SeenOutdates
    <3> QED BY <3>2, <3>3
  <2>10. ContractStep(a)
    <3>1. StatusOf(a) \in {"none", "succeeded", "failed"}
      <4>1. CASE HasNoRow(a)
        BY <4>1, NoneSeen
      <4>2. CASE ~HasNoRow(a)
        <5>1. PICK r \in RunIds : IsLatest(a, r)
          BY <4>2, HasLatest
        <5>2. run[r].status \in Ended
          BY <2>6, <5>1 DEF IsLatest
        <5> QED BY <5>1, <5>2, LatestSeen DEF SeenStatus, Ended
      <4> QED BY <4>1, <4>2
    <3>2. IsLatest(a, new)'
      <4>1. \A r \in RunIds : run'[r].app = a => r = new \/ r < new
        BY <2>3, <2>6
      <4>2. \A r \in RunIds : r < new \/ r = new => r <= new
        BY DEF RunIds
      <4> QED BY <2>2, <2>3, <4>1, <4>2 DEF IsLatest
    <3>3. StatusOf(a)' = SeenStatus(row) /\ ResumeOf(a)' = CurrentOf(a)
      BY <2>3, <2>4, <3>2, LatestSeenNext
    <3>4. StatusOf(a)' \in {"waiting", "paused"} /\ (StatusOf(a)' = "paused" => ~OpenOf(a))
      BY <2>4, <3>3 DEF SeenStatus, NotStarted, Waiting
    <3> QED BY <1>2, <3>1, <3>3, <3>4, SeenBegins
  <2> QED BY <2>8, <2>9, <2>10 DEF Implements
<1> QED BY <1>3, <1>4, TriggerAdds

LEMMA TriggersImplement ==
  ASSUME IInv, ContractInv, NEW a \in Apps,
         TriggerAfterCommit(a) \/ HrTrigger(a) \/ BatchItem(a)
  PROVE  Implements
<1>1. UNCHANGED <<job, app, wk>>
  BY DEF TriggerAfterCommit, HrTrigger, BatchItem, inputs
<1>2. CASE TriggerAfterCommit(a)
  <2>1. PICK call \in {"commit", "process"} : Trigger(a, job[JobOf[a]], FALSE, TRUE, call = "commit")
    BY <1>2 DEF TriggerAfterCommit
  <2> QED BY <1>1, <2>1, JobsTyped, TriggerImplements
<1>3. CASE HrTrigger(a)
  <2>1. PICK force \in BOOLEAN : Trigger(a, job[JobOf[a]], force, ~force, FALSE)
    BY <1>3 DEF HrTrigger
  <2> QED BY <1>1, <2>1, JobsTyped, TriggerImplements
<1>4. CASE BatchItem(a)
  <2> DEFINE jb == IF batch.fresh THEN batch.view ELSE job[JobOf[a]]
  <2>1. jb \in Job /\ Trigger(a, jb, TRUE, FALSE, FALSE)
    BY <1>4, JobsTyped DEF BatchItem
  <2> HIDE DEF jb
  <2> QED BY <1>1, <2>1, TriggerImplements
<1> QED BY <1>2, <1>3, <1>4

-----------------------------------------------------------------------------
(* The refinement *)

LEMMA ContractStarts == Init => ContractInv /\ Contract!Init
<1> SUFFICES ASSUME Init PROVE ContractInv /\ Contract!Init
  OBVIOUS
<1>1. ContractInv
  BY Constants DEF Init, ContractInv, OlderEnded, NoAppWithoutRow, WaitingFits, InputsHeld, Holds, AbsentRow, Idle
<1>2. ASSUME NEW a \in Apps
      PROVE  StatusOf(a) = "none" /\ ResumeOf(a) = 0 /\ ValidOf(a) = 0
  <2>1. HasNoRow(a)
    BY Constants DEF Init, HasNoRow, AbsentRow
  <2> QED BY <2>1, NoneSeen DEF Init, ValidOf, ResumeIf, NoReport
<1>3. \A a \in Apps : job[JobOf[a]].open \in BOOLEAN /\ app[a].resume \in Resumes
  BY Constants DEF Init, NewApplication, Resumes
<1>4. [a \in Apps |-> Replaced(a)] \in [Apps -> BOOLEAN]
  BY DEF Replaced
<1>5. Contract!Init
  BY <1>2, <1>3, <1>4 DEF Contract!Init, StatusOf, ResumeOf, ValidOf
<1> QED BY <1>1, <1>5

LEMMA NextImplements ==
  ASSUME IInv, ContractInv, [Next]_vars
  PROVE  Implements
<1>1. ASSUME NEW w \in Workers, WorkerStep(w) \/ SaveRefused(w) \/ Crash(w) PROVE Implements
  BY <1>1, ClaimNextRunImplements, WorkerStepsImplement, SaveSuccessImplements, MarkFailedImplements
     DEF WorkerStep
<1>2. ASSUME NEW a \in Apps, CallAfterCommit(a) \/ BatchItem(a) \/ GetState(a) PROVE Implements
  BY <1>2, TriggersImplement, HooksImplement, AppStepsImplement DEF CallAfterCommit
<1>3. ASSUME NEW a \in Apps, HrTrigger(a) \/ SwitchResume(a) \/ HrExtracts(a) \/ HrDecides(a)
      PROVE  Implements
  BY <1>3, TriggersImplement, SwitchResumeImplements, AppStepsImplement, HrDecidesImplements
<1>4. ASSUME NEW j \in Jobs, JobCallAfterCommit(j) \/ StartBatch(j) PROVE Implements
  BY <1>4, AfterJobClosedImplements, JobStepsImplement DEF JobCallAfterCommit
<1>5. ASSUME NEW j \in Jobs, CloseOrReopen(j) \/ EditJob(j) \/ NewPlan(j) \/ ConfirmPlan(j)
      PROVE  Implements
  BY <1>5, CloseOrReopenImplements, JobStepsImplement
<1>6. ASSUME NEW r \in RunIds, LeaseRunsOut(r) PROVE Implements
  BY <1>6, LeaseRunsOutImplements
<1> QED BY <1>1, <1>2, <1>3, <1>4, <1>5, <1>6, StutterImplements DEF Next

-----------------------------------------------------------------------------
(* Who loses a run *)

\* A row stays with its application, and only workers take or end one that is under way.
OwnersKept ==
  \A r \in RunIds :
    /\ run[r].status # "absent" => run'[r].app = run[r].app
    /\ run[r].status = "running" => run'[r].owner = run[r].owner

LEMMA HooksKeepOwners ==
  ASSUME IInv, ContractInv, NEW a \in Apps, CallAfterCommit(a) \/ BatchItem(a) \/ HrTrigger(a)
  PROVE  OwnersKept /\ UNCHANGED wk
<1>1. UNCHANGED wk
  BY DEF CallAfterCommit, TriggerAfterCommit, AfterPlanChanged, AfterReady, WorkerExtracts, BatchItem,
         HrTrigger
<1>2. CASE UNCHANGED run
  BY <1>1, <1>2 DEF OwnersKept
<1>3. CASE ReconcileWaiting(a)
  BY <1>1, <1>3, ReconcileWaitingMoves DEF OwnersKept
<1>4. ASSUME NEW jb \in Job, NEW force \in BOOLEAN, NEW auto \in BOOLEAN, NEW closedToo \in BOOLEAN,
             Trigger(a, jb, force, auto, closedToo)
      PROVE  OwnersKept
  <2>1. \/ UNCHANGED run
        \/ /\ created + 1 \in RunIds /\ run[created + 1].status = "absent"
           /\ \A r \in RunIds : r # created + 1 => run'[r] = run[r]
    <3>1. created \in Nat /\ (created + 1 \in RunIds => run[created + 1].status = "absent")
      BY DEF IInv, TypeOK, RowsFit
    <3>2. run \in [RunIds -> Row]
      BY DEF IInv, TypeOK
    <3> QED BY <1>4, <3>1, <3>2, TriggerAdds
  <2> QED BY <2>1 DEF OwnersKept
<1>5. CASE TriggerAfterCommit(a)
  <2>1. PICK call \in {"commit", "process"} : Trigger(a, job[JobOf[a]], FALSE, TRUE, call = "commit")
    BY <1>5 DEF TriggerAfterCommit
  <2> QED BY <1>1, <1>4, <2>1, JobsTyped
<1>6. CASE HrTrigger(a)
  <2>1. PICK force \in BOOLEAN : Trigger(a, job[JobOf[a]], force, ~force, FALSE)
    BY <1>6 DEF HrTrigger
  <2> QED BY <1>1, <1>4, <2>1, JobsTyped
<1>7. CASE BatchItem(a)
  <2> DEFINE jb == IF batch.fresh THEN batch.view ELSE job[JobOf[a]]
  <2>1. jb \in Job /\ Trigger(a, jb, TRUE, FALSE, FALSE)
    BY <1>7, JobsTyped DEF BatchItem
  <2> HIDE DEF jb
  <2> QED BY <1>1, <1>4, <2>1
<1> QED BY <1>2, <1>3, <1>5, <1>6, <1>7 DEF CallAfterCommit, AfterPlanChanged, AfterReady, WorkerExtracts

LEMMA OthersKeepOwners ==
  ASSUME IInv,
         \/ \E a \in Apps : GetState(a) \/ SwitchResume(a) \/ HrExtracts(a) \/ HrDecides(a)
         \/ \E j \in Jobs : JobCallAfterCommit(j) \/ StartBatch(j)
         \/ \E j \in Jobs : CloseOrReopen(j) \/ EditJob(j) \/ NewPlan(j) \/ ConfirmPlan(j)
         \/ \E r \in RunIds : LeaseRunsOut(r)
         \/ HookFails \/ UNCHANGED vars
  PROVE  OwnersKept /\ UNCHANGED wk
<1>1. ASSUME NEW a \in Apps, GetState(a) \/ HrExtracts(a) \/ HrDecides(a) PROVE UNCHANGED <<run, wk>>
  BY <1>1 DEF GetState, HrExtracts, HrDecides
<1>2. ASSUME NEW a \in Apps, SwitchResume(a) PROVE OwnersKept /\ UNCHANGED wk
  <2>1. /\ UNCHANGED wk
        /\ run' = [r \in RunIds |->
                     IF r \in RunsOf(a, NotStarted) THEN Failed(run[r], TRUE) ELSE run[r]]
    BY <1>2 DEF SwitchResume
  <2>2. \A r \in RunIds : r \in RunsOf(a, NotStarted) => run[r].status # "running"
    BY DEF RunsOf, NotStarted, Waiting
  <2>3. \A r \in RunIds : Failed(run[r], TRUE).app = run[r].app
    BY DEF Failed, IInv, TypeOK, Row
  <2> QED BY <2>1, <2>2, <2>3 DEF OwnersKept
<1>3. ASSUME NEW j \in Jobs, JobCallAfterCommit(j) \/ StartBatch(j) PROVE OwnersKept /\ UNCHANGED wk
  <2>1. CASE AfterJobClosed(j)
    BY <2>1 DEF AfterJobClosed, OwnersKept, NotStarted, Waiting, IInv, TypeOK, Row
  <2>2. CASE ~AfterJobClosed(j)
    BY <1>3, <2>2 DEF JobCallAfterCommit, AfterJobReopened, OutdatePlan, GenerateAfterCommit, StartBatch,
                      OwnersKept
  <2> QED BY <2>1, <2>2
<1>4. ASSUME NEW j \in Jobs, CloseOrReopen(j) \/ EditJob(j) \/ NewPlan(j) \/ ConfirmPlan(j)
      PROVE  UNCHANGED <<run, wk>>
  BY <1>4 DEF CloseOrReopen, EditJob, NewPlan, ConfirmPlan
<1>5. ASSUME NEW r \in RunIds, LeaseRunsOut(r) PROVE OwnersKept /\ UNCHANGED wk
  BY <1>5 DEF LeaseRunsOut, OwnersKept, IInv, TypeOK, Row
<1>6. CASE HookFails \/ UNCHANGED vars
  BY <1>6 DEF HookFails, vars, OwnersKept
<1>7. UNCHANGED <<run, wk>> => OwnersKept /\ UNCHANGED wk
  BY DEF OwnersKept
<1> QED BY <1>1, <1>2, <1>3, <1>4, <1>5, <1>6, <1>7

\* A claim takes a run for an idle worker.
LEMMA ClaimTakes ==
  ASSUME IInv, NEW w \in Workers, ClaimNextRun(w)
  PROVE  /\ wk[w].pc = "idle"
         /\ \A r \in RunIds : run'[r].app = run[r].app
         /\ \A v \in Workers : v # w => wk'[v] = wk[v]
         /\ wk'[w].pc # "idle" => run'[wk'[w].run].owner = w
<1> DEFINE rows == [r \in RunIds |-> Requeued(run[r])]
           queued == {r \in RunIds : rows[r].status = "queued"}
           first == CHOOSE q \in queued : \A p \in queued : q <= p
<1>1. /\ queued # {} /\ wk[w].pc = "idle"
      /\ \/ /\ run' = [rows EXCEPT ![first].status = "running", ![first].owner = w]
            /\ wk' = [wk EXCEPT ![w] = [Idle EXCEPT !.pc = "read", !.run = first]]
         \/ /\ run' = [rows EXCEPT ![first].status = "paused", ![first].reason = "job_closed"]
            /\ UNCHANGED wk
  BY DEF ClaimNextRun
<1>2. PICK r \in RunIds : r = first
  <2>1. queued \in SUBSET RunIds
    OBVIOUS
  <2> HIDE DEF queued
  <2> QED BY <1>1, <2>1, OldestExists
<1>3. wk \in [Workers -> Worker] /\ run \in [RunIds -> Row]
  BY DEF IInv, TypeOK
<1>4. \A q \in RunIds : rows[q] \in Row /\ rows[q].app = run[q].app
  <2> SUFFICES ASSUME NEW q \in RunIds PROVE rows[q] \in Row /\ rows[q].app = run[q].app
    OBVIOUS
  <2>1. \/ rows[q] = run[q]
        \/ rows[q] = [run[q] EXCEPT !.status = "queued", !.owner = NoWorker, !.over = FALSE]
    BY DEF Requeued
  <2> QED BY <1>3, <2>1 DEF Row, Open, NotStarted
<1>5. rows = [q \in RunIds |-> rows[q]]
  OBVIOUS
<1> HIDE DEF rows, queued, first
<1>6. CASE /\ run' = [rows EXCEPT ![r].status = "running", ![r].owner = w]
           /\ wk' = [wk EXCEPT ![w] = [Idle EXCEPT !.pc = "read", !.run = r]]
  <2>1. run'[r] = [rows[r] EXCEPT !.status = "running", !.owner = w]
    BY <1>5, <1>6
  <2>2. run'[r].owner = w /\ run'[r].app = rows[r].app
    BY <1>4, <2>1 DEF Row
  <2>3. \A q \in RunIds : q # r => run'[q] = rows[q]
    BY <1>5, <1>6
  <2>4. wk'[w].run = r /\ \A v \in Workers : v # w => wk'[v] = wk[v]
    BY <1>3, <1>6 DEF Idle
  <2> QED BY <1>1, <1>4, <2>2, <2>3, <2>4
<1>7. CASE /\ run' = [rows EXCEPT ![r].status = "paused", ![r].reason = "job_closed"]
           /\ UNCHANGED wk
  <2>1. run'[r] = [rows[r] EXCEPT !.status = "paused", !.reason = "job_closed"]
    BY <1>5, <1>7
  <2>2. run'[r].app = rows[r].app
    BY <1>4, <2>1 DEF Row
  <2>3. \A q \in RunIds : q # r => run'[q] = rows[q]
    BY <1>5, <1>7
  <2> QED BY <1>1, <1>4, <1>7, <2>2, <2>3
<1> QED BY <1>1, <1>2, <1>6, <1>7

\* A worker that ends its run writes neither the application of a row nor another worker.
LEMMA EndKeeps ==
  ASSUME IInv, NEW w \in Workers, SaveSuccess(w) \/ MarkFailed(w)
  PROVE  /\ \A r \in RunIds : run'[r].app = run[r].app
         /\ \A v \in Workers : wk'[v] = wk[v] \/ wk'[v].pc = "idle"
<1>1. /\ wk[w].pc # "idle" /\ wk' = [wk EXCEPT ![w] = Idle]
      /\ \/ UNCHANGED run
         \/ run' = [run EXCEPT ![wk[w].run] = Failed(@, FALSE)]
         \/ run' = [run EXCEPT ![wk[w].run] = [Failed(@, FALSE) EXCEPT !.status = "succeeded"]]
  BY DEF SaveSuccess, MarkFailed
<1>2. /\ wk[w].run \in RunIds /\ run[wk[w].run] \in Row /\ run \in [RunIds -> Row]
      /\ wk \in [Workers -> Worker]
  BY <1>1, WorkerHasRun DEF IInv, TypeOK
<1>3. PICK row : /\ run' = run \/ run' = [run EXCEPT ![wk[w].run] = row]
                 /\ row.app = run[wk[w].run].app
  BY <1>1, <1>2, DoneFits
<1> QED BY <1>1, <1>2, <1>3, IdleTyped

\* A worker that executes a run it does not hold had it before, for the same application.
LEMMA LostBefore ==
  ASSUME IInv, ContractInv, [Next]_vars, NEW w \in Workers,
         wk'[w].pc # "idle", run'[wk'[w].run].owner # w
  PROVE  /\ wk[w].pc # "idle" /\ wk'[w].run = wk[w].run
         /\ run'[wk[w].run].app = run[wk[w].run].app
<1>1. CASE OwnersKept /\ UNCHANGED wk
  BY <1>1, WorkerHasRun DEF OwnersKept
<1>2. ASSUME NEW v \in Workers, ClaimNextRun(v)
      PROVE  /\ wk[w].pc # "idle" /\ wk'[w].run = wk[w].run
             /\ run'[wk[w].run].app = run[wk[w].run].app
  <2>1. w # v /\ wk'[w] = wk[w] /\ \A r \in RunIds : run'[r].app = run[r].app
    BY <1>2, ClaimTakes
  <2> QED BY <2>1, WorkerHasRun
<1>3. ASSUME NEW v \in Workers, SaveSuccess(v) \/ MarkFailed(v)
      PROVE  /\ wk[w].pc # "idle" /\ wk'[w].run = wk[w].run
             /\ run'[wk[w].run].app = run[wk[w].run].app
  <2>1. wk'[w] = wk[w] /\ \A r \in RunIds : run'[r].app = run[r].app
    BY <1>3, EndKeeps
  <2> QED BY <2>1, WorkerHasRun
<1>4. ASSUME NEW v \in Workers, ReadInput(v) \/ CallModel(v) \/ SaveRefused(v) \/ Crash(v)
      PROVE  /\ wk[w].pc # "idle" /\ wk'[w].run = wk[w].run
             /\ run'[wk[w].run].app = run[wk[w].run].app
  <2>1. wk \in [Workers -> Worker] /\ UNCHANGED run /\ wk[v].pc # "idle"
    BY <1>4 DEF IInv, TypeOK, ReadInput, CallModel, SaveRefused, Crash
  <2>2. CASE w # v
    BY <1>4, <2>1, <2>2 DEF ReadInput, CallModel, SaveRefused, Crash, Goto
  <2>3. CASE w = v
    <3>1. wk'[v].run = wk[v].run
      BY <1>4, <2>1, <2>3, IdleTyped DEF ReadInput, CallModel, SaveRefused, Crash, Goto, Worker
    <3> QED BY <2>1, <2>3, <3>1
  <2> QED BY <2>2, <2>3
<1> QED BY <1>1, <1>2, <1>3, <1>4, HooksKeepOwners, OthersKeepOwners DEF Next, WorkerStep

\* An application's run is lost by its worker while it is under way: it is the worker's own
\* until then, and the latest of the application.
LEMMA LostRunning ==
  ASSUME IInv, ContractInv, [Next]_vars, NEW a \in Apps
  PROVE  Contract!Lose(a)
<1> SUFFICES ASSUME Replaced(a)', ~Replaced(a)
             PROVE  StatusOf(a) = "running"
  BY DEF Contract!Lose, StatusOf
<1>1. PICK w \in Workers :
        wk'[w].pc # "idle" /\ AppOf(w)' = a /\ run'[wk'[w].run].owner # w
  BY DEF Replaced
<1>2. /\ wk[w].pc # "idle" /\ wk'[w].run = wk[w].run
      /\ run'[wk[w].run].app = run[wk[w].run].app
  BY <1>1, LostBefore
<1>3. PICK r \in RunIds : r = wk[w].run /\ run[r].app = a
  BY <1>1, <1>2, WorkerHasRun DEF AppOf
<1>4. Holds(w)
  BY <1>1, <1>2, <1>3 DEF Replaced, AppOf, Holds
<1> QED BY <1>3, <1>4, WorkerRuns, OpenIsLatest, LatestSeen DEF Open, SeenStatus

\* Those who look at the latest run and the report of an application see the contract,
\* whatever leases run out and whoever ends a run that is no longer his
\* (_find_nonterminal_run, claim_next_run, _save_success and _mark_failed under the
\* application's lock).
THEOREM ContractKept == Spec => KeepsContract
<1>1. IInv /\ ContractInv /\ [Next]_vars => ContractInv' /\ [Contract!Next]_(Contract!vars)
  BY NextImplements, LostRunning, StepsMakeNext DEF Implements
<1> QED BY Invariant, ContractStarts, <1>1, PTL DEF Spec, KeepsContract, Contract!Spec

-----------------------------------------------------------------------------
(* A single worker *)

\* One worker claims only when it is idle, and nobody else takes or ends its run.
LEMMA AloneKeepsRun ==
  ASSUME IInv, ContractInv, NotTakenOver, [Next]_vars, NEW w \in Workers, Workers = {w}
  PROVE  NotTakenOver'
<1>1. CASE OwnersKept /\ UNCHANGED wk
  <2> SUFFICES ASSUME wk[w].pc # "idle" PROVE run'[wk[w].run].owner = w
    BY <1>1 DEF NotTakenOver, Holds
  <2>1. Holds(w)
    BY DEF NotTakenOver
  <2> QED BY <1>1, <2>1, WorkerRuns DEF OwnersKept, Holds
<1>2. CASE wk'[w].pc = "idle"
  BY <1>2 DEF NotTakenOver
<1>3. CASE ReadInput(w) \/ CallModel(w) \/ SaveRefused(w)
  <2>1. wk[w].pc # "idle" /\ UNCHANGED run
    BY <1>3 DEF ReadInput, CallModel, SaveRefused
  <2>2. wk'[w].run = wk[w].run
    BY <1>3 DEF ReadInput, CallModel, SaveRefused, Goto, IInv, TypeOK, Worker
  <2> QED BY <2>1, <2>2 DEF NotTakenOver, Holds
<1>4. CASE ClaimNextRun(w)
  BY <1>4, ClaimTakes DEF NotTakenOver, Holds
<1>5. CASE SaveSuccess(w) \/ MarkFailed(w) \/ Crash(w)
  BY <1>2, <1>5, IdleTyped DEF SaveSuccess, MarkFailed, Crash, IInv, TypeOK
<1> QED BY <1>1, <1>3, <1>4, <1>5, HooksKeepOwners, OthersKeepOwners DEF Next, WorkerStep

\* In a deployment with one screening worker nobody comes late, through crashes, stalls and
\* leases that run out early: the worker that would take a run over is the one it belongs
\* to, and the contract is kept by its prompt steps alone.
THEOREM ContractKeptAlone ==
  ASSUME NEW w \in Workers, Workers = {w}
  PROVE  Spec => KeepsContract /\ [](\A a \in Apps : ~Replaced(a))
<1>1. Init => NotTakenOver
  BY DEF Init, NotTakenOver, Idle
<1>2. IInv /\ ContractInv /\ NotTakenOver /\ [Next]_vars => ContractInv' /\ NotTakenOver'
  BY NextImplements, AloneKeepsRun DEF Implements
<1>3. NotTakenOver => \A a \in Apps : ~Replaced(a)
  BY DEF NotTakenOver, Holds, Replaced
<1> QED BY Invariant, ContractStarts, ContractKept, <1>1, <1>2, <1>3, PTL DEF Spec
=============================================================================
