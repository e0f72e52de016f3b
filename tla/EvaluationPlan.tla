--------------------------- MODULE EvaluationPlan ---------------------------
(***************************************************************************)
(* The evaluation plans of one job (services/job_evaluation_plan_service,  *)
(* services/job_service): plans are generated by a model call between two  *)
(* transactions, edited and confirmed by HR, forked, and marked outdated   *)
(* when the job's text changes.                                            *)
(*                                                                         *)
(* Every handler takes the job's row lock first and the plan's second; the *)
(* two that store a model's answer take them the other way round.  So a    *)
(* handler is two steps: its first lock, then all the rest.                *)
(***************************************************************************)
EXTENDS Integers, FiniteSets, FiniteSetsExt

CONSTANTS
  Texts,        \* contents of the job's fields that plans are made from
  Sessions,     \* database sessions: requests and background tasks
  MaxPlans,     \* bound: rows of job_evaluation_plans
  MaxCriteria,  \* bound: criteria of a plan
  HrBudget,     \* bound: requests of HR
  FaultBudget   \* bound: crashes between the two transactions of a generation

ASSUME ConstantsOK ==
  /\ IsFiniteSet(Texts) /\ Texts # {}
  /\ MaxPlans \in Nat \ {0} /\ MaxCriteria \in Nat \ {0}
  /\ HrBudget \in Nat /\ FaultBudget \in Nat

VARIABLES
  job,      \* jobs.status and the text
  plan,     \* job_evaluation_plans, by id
  session,  \* what each session is doing
  page,     \* the plan an HR page shows since it was loaded
  stamp,    \* criteria ever written: tells apart criteria that share an id
  lost,     \* a call after a commit or a result was lost with its transaction
  strayed,  \* a plan was changed by a request that was about another one
  hrLeft, faultsLeft

vars == <<job, plan, session, page, stamp, lost, strayed, hrLeft, faultsLeft>>

Ids == 1..MaxPlans
Statuses == {"generating", "pending_confirmation", "ready", "failed", "outdated"}
Complete == {"pending_confirmation", "ready"}
Stamps == 0..2 * HrBudget + 2
Criterion == [id : 1..MaxCriteria + HrBudget, stamp : Stamps]

\* root: the row of the generation a version was forked from.
AbsentPlan == [status |-> "absent", v5 |-> TRUE, input |-> CHOOSE t \in Texts : TRUE,
               current |-> FALSE, version |-> 0, criteria |-> {}, confirmed |-> FALSE,
               root |-> 0]
NoPage == [row |-> 0, version |-> 0, criteria |-> {}]
Idle == [pc |-> "idle", call |-> "none", row |-> 0, input |-> CHOOSE t \in Texts : TRUE]

Calls == {"generate", "regenerate", "save", "confirm", "fork", "outdate"}

\* A job that HR has just drafted, or one with a plan of an older schema.
Init ==
  /\ \E t \in Texts :
       \/ job = [status |-> "draft", text |-> t] /\ plan = [p \in Ids |-> AbsentPlan]
       \/ /\ job = [status |-> "open", text |-> t]
          /\ plan = [p \in Ids |-> IF p = 1 THEN
                      [AbsentPlan EXCEPT !.status = "ready", !.v5 = FALSE, !.input = t,
                                         !.current = TRUE, !.root = 1] ELSE AbsentPlan]
  /\ session = [s \in Sessions |-> Idle]
  /\ page = NoPage
  /\ stamp = 0
  /\ lost = FALSE /\ strayed = FALSE
  /\ hrLeft = HrBudget
  /\ faultsLeft = FaultBudget

-----------------------------------------------------------------------------
(* Rows *)

Rows == {p \in Ids : plan[p].status # "absent"}
CurrentRows == {p \in Rows : plan[p].current}
HasCurrent == CurrentRows # {}
Current == CHOOSE p \in CurrentRows : TRUE
\* Postgres hands out the next id; a history with all its rows in use is the bound.
NextId == Cardinality(Rows) + 1

\* is the row a 5.0 plan of the job's present text?
BugSameInput(p) == plan[p].v5
SameInput(p) == plan[p].v5 /\ plan[p].input = job.text

BugNextVersion == 1
\* edit_version of a new generation: behind every plan of the same text
NextVersion == Max({0} \cup {plan[p].version : p \in {q \in Rows : SameInput(q)}}) + 1

\* The number of a criterion HR adds: behind those of every plan of the job.
NextCriterion == Max({0} \cup {c.id : c \in UNION {plan[q].criteria : q \in Rows}}) + 1

\* The handlers' invalidation leaves confirmed_at as it is.
Outdated(p) == [plan[p] EXCEPT !.status = "outdated", !.current = FALSE]

\* ck_job_evaluation_plans_v5_confirmation_timestamp
Admitted(row) == row.v5 => (row.confirmed <=> row.status = "ready")

-----------------------------------------------------------------------------
(* Locks *)

HoldsJob(s) == session[s].pc = "job"
JobFree == \A s \in Sessions : ~HoldsJob(s)
HoldsPlan(s) == session[s].pc = "plan"
PlanFree(p) == \A s \in Sessions : HoldsPlan(s) => session[s].row # p
\* What a handler that has the job's lock waits for next: the row of the current plan.
MayGoOn(s) == HoldsJob(s) /\ (HasCurrent => PlanFree(Current))

Request == hrLeft > 0 /\ hrLeft' = hrLeft - 1
At(s, pc) == session[s].pc = pc
Goes(s, pc) == session' = [session EXCEPT ![s].pc = pc]
Ends(s) == session' = [session EXCEPT ![s] = Idle]

-----------------------------------------------------------------------------
(* The job *)

\* open_job and reopen_job; a generation is a background task of the request.
OpenJob(s) ==
  /\ Request /\ At(s, "idle") /\ JobFree
  /\ job.status \in {"draft", "closed"}
  /\ job' = [job EXCEPT !.status = "open"]
  /\ session' = [session EXCEPT ![s].pc = "called", ![s].call = "generate"]
  /\ UNCHANGED <<plan, page, stamp, lost, strayed, faultsLeft>>

CloseJob(s) ==
  /\ Request /\ At(s, "idle") /\ JobFree
  /\ job.status = "open"
  /\ job' = [job EXCEPT !.status = "closed"]
  /\ UNCHANGED <<plan, session, page, stamp, lost, strayed, faultsLeft>>

\* update_job; of an open job the request goes on to the plan.
UpdateJob(s) ==
  /\ Request /\ At(s, "idle") /\ JobFree
  /\ job.status # "deleted"
  /\ \E t \in Texts \ {job.text} : job' = [job EXCEPT !.text = t]
  /\ session' = IF job.status = "open"
                THEN [session EXCEPT ![s].pc = "called", ![s].call = "outdate"] ELSE session
  /\ UNCHANGED <<plan, page, stamp, lost, strayed, faultsLeft>>

\* delete_job: only a job without plans (get_reference_counts)
DeleteJob(s) ==
  /\ Request /\ At(s, "idle") /\ JobFree
  /\ job.status \in {"draft", "closed"} /\ Rows = {}
  /\ job' = [job EXCEPT !.status = "deleted"]
  /\ UNCHANGED <<plan, session, page, stamp, lost, strayed, faultsLeft>>

-----------------------------------------------------------------------------
(* Requests about the plan *)

\* get_current_evaluation_plan, of a plan the page has buttons for
LoadPage ==
  /\ HasCurrent /\ plan[Current].v5 /\ plan[Current].status \in Complete
  /\ page' = [row |-> Current, version |-> plan[Current].version,
              criteria |-> plan[Current].criteria]
  /\ page' # page
  /\ UNCHANGED <<job, plan, session, stamp, lost, strayed, hrLeft, faultsLeft>>

\* generate, draft, confirm, versions: the request reaches its handler.
Ask(s) ==
  /\ Request /\ At(s, "idle")
  /\ \E call \in {"generate", "save", "confirm", "fork"} :
       session' = [session EXCEPT ![s].pc = "called", ![s].call = call]
  /\ UNCHANGED <<job, plan, page, stamp, lost, strayed, faultsLeft>>

\* regenerate_failed_v5_plan reads the current plan without a lock; the session keeps it.
AskToRegenerate(s) ==
  /\ Request /\ At(s, "idle")
  /\ HasCurrent /\ plan[Current].v5 /\ plan[Current].status = "failed"
  /\ session' = [session EXCEPT ![s].pc = "called", ![s].call = "regenerate", ![s].row = Current]
  /\ UNCHANGED <<job, plan, page, stamp, lost, strayed, faultsLeft>>

\* _get_locked_job
TakeJob(s) ==
  /\ At(s, "called") /\ JobFree
  /\ Goes(s, "job")
  /\ UNCHANGED <<job, plan, page, stamp, lost, strayed, hrLeft, faultsLeft>>

\* A commit: the rows a handler changed, unless the CHECK refuses one and all is rolled back.
Commit(s, rows) ==
  /\ plan' = IF \A p \in Ids : rows[p] # plan[p] => Admitted(rows[p]) THEN rows ELSE plan
  /\ Ends(s)

\* A handler that raises, or finds nothing to do.
Refuse(s) == Ends(s) /\ UNCHANGED plan

GivesUp(s) == Commit(s, [plan EXCEPT ![Current] = Outdated(Current)])

-----------------------------------------------------------------------------
(* generate_v5_for_job *)

\* What the session thinks the plan's status is: the row it has read before is not read
\* again, also not under the lock.
StatusAsSeen(s) ==
  IF session[s].call = "regenerate" /\ session[s].row = Current THEN "failed"
  ELSE plan[Current].status

Forced(s) == session[s].call = "regenerate"

BugReset(s) ==
  [plan[Current] EXCEPT !.status = "generating", !.criteria = {}, !.confirmed = FALSE]

\* _reset_v5_generating_plan; a column that the session believes to be as it sets it is
\* not written: confirmed_at of a plan it saw failed.
Reset(s) ==
  [plan[Current] EXCEPT !.status = "generating", !.criteria = {},
     !.confirmed = IF session[s].row = Current THEN @ ELSE FALSE]

\* The model call of the rows that have been committed.
CallModel(s, p, rows) ==
  IF \A q \in Ids : rows[q] # plan[q] => Admitted(rows[q])
  THEN /\ plan' = rows
       /\ session' = [session EXCEPT ![s] = [pc |-> "model", call |-> "none", row |-> p,
                                             input |-> job.text]]
  ELSE Refuse(s)

\* A new generation, in place of the plan that was current
NewGeneration(next) ==
  [p \in Ids |->
     IF p = next THEN [AbsentPlan EXCEPT !.status = "generating", !.input = job.text,
                         !.current = TRUE, !.version = NextVersion, !.root = p]
     ELSE IF HasCurrent /\ p = Current THEN Outdated(p) ELSE plan[p]]

\* _prepare_v5_plan: returned as it is, reset, or replaced by a new generation
Prepare(s) ==
  IF HasCurrent /\ SameInput(Current)
  THEN IF ~Forced(s) \/ StatusAsSeen(s) = "generating"
       THEN Refuse(s)
       ELSE CallModel(s, Current, [plan EXCEPT ![Current] = Reset(s)])
  ELSE NextId \in Ids /\ CallModel(s, NextId, NewGeneration(NextId))

\* A regeneration resets another plan than the failed one that it was asked for.
ResetsAnother(s) ==
  \E p \in CurrentRows : p # session[s].row /\ plan'[p] # plan[p] /\ plan'[p].current

Generate(s) ==
  /\ MayGoOn(s) /\ session[s].call \in {"generate", "regenerate"}
  /\ IF job.status = "open" THEN Prepare(s) ELSE Refuse(s)
  /\ strayed' = (strayed \/ ResetsAnother(s))
  /\ UNCHANGED <<job, page, stamp, lost, hrLeft, faultsLeft>>

\* build_v5_plan_content has returned or raised: the plan's row is locked first, ...
ModelAnswers(s) ==
  /\ At(s, "model") /\ PlanFree(session[s].row)
  /\ Goes(s, "plan")
  /\ UNCHANGED <<job, plan, page, stamp, lost, strayed, hrLeft, faultsLeft>>

Generated == {[id |-> i, stamp |-> stamp] : i \in 1..MaxCriteria}

Superseded(s) ==
  LET p == session[s].row
  IN  \/ job.text # session[s].input \/ plan[p].input # session[s].input
      \/ ~plan[p].current

BugStoreResult(s, result) ==
  LET p == session[s].row
  IN  IF plan[p].status # "generating" \/ Superseded(s) THEN Refuse(s)
      ELSE Commit(s, [plan EXCEPT ![p] =
             IF result = "failed" THEN [@ EXCEPT !.status = "failed"]
             ELSE [@ EXCEPT !.status = "pending_confirmation", !.criteria = Generated]])

\* ... then the job's, and the answer is stored: _save_v5_success and _save_failure
StoreResult(s, result) ==
  LET p == session[s].row
  IN  IF plan[p].status # "generating" THEN Refuse(s)
      ELSE Commit(s, [plan EXCEPT ![p] =
             IF Superseded(s) THEN Outdated(p)
             ELSE IF result = "failed" THEN [@ EXCEPT !.status = "failed"]
             ELSE [@ EXCEPT !.status = "pending_confirmation", !.criteria = Generated]])

SaveResult(s) ==
  /\ HoldsPlan(s) /\ JobFree
  /\ \E result \in {"pending_confirmation", "failed"} : StoreResult(s, result)
  /\ stamp' = stamp + 1
  /\ UNCHANGED <<job, page, lost, strayed, hrLeft, faultsLeft>>

-----------------------------------------------------------------------------
(* HR's handlers *)

\* The page a request was sent from: loaded just before, or long ago.
Pages == {page} \cup {[row |-> p, version |-> plan[p].version, criteria |-> plan[p].criteria] :
                        p \in CurrentRows}

\* check_edit_version_conflict
EditsFit(p, version) == plan[p].version = version

IdsOf(criteria) == {c.id : c \in criteria}

BugEdited(p, pg) ==
  {draft \in
     {kept \cup more : kept \in SUBSET pg.criteria,
                       more \in {{}} \cup {{[id |-> Max({0} \cup IdsOf(k)) + 1, stamp |-> stamp]} :
                                             k \in SUBSET pg.criteria}} :
   draft # {} /\ IdsOf(draft \cap pg.criteria) \subseteq IdsOf(plan[p].criteria)
     /\ Cardinality(IdsOf(draft)) = Cardinality(draft)}

\* edit_plan_criteria and _materialize_v5_draft: some of the page's criteria, perhaps one more.
Edited(p, pg) ==
  {draft \in
     {kept \cup more : kept \in SUBSET pg.criteria,
                       more \in {{}, {[id |-> NextCriterion, stamp |-> stamp]}}} :
   draft # {} /\ IdsOf(draft \cap pg.criteria) \subseteq IdsOf(plan[p].criteria)}

DraftSaved(p, draft) == [plan[p] EXCEPT !.criteria = draft, !.version = @ + 1]

\* A draft has the number of the plan's version, which is told by nothing else, and the
\* criteria of another plan.
TakesAnothers ==
  \E p \in CurrentRows : \E c \in plan'[p].criteria \ plan[p].criteria : c.stamp # stamp

\* save_draft
SaveDraft(s) ==
  /\ MayGoOn(s) /\ session[s].call = "save"
  /\ IF job.status # "open" \/ ~HasCurrent THEN Refuse(s)
     ELSE IF ~plan[Current].v5 \/ plan[Current].status # "pending_confirmation" THEN Refuse(s)
     ELSE IF ~SameInput(Current) THEN GivesUp(s)
     ELSE \E pg \in Pages :
            IF ~EditsFit(Current, pg.version) THEN Refuse(s)
            ELSE \E draft \in Edited(Current, pg) :
                   Commit(s, [plan EXCEPT ![Current] = DraftSaved(Current, draft)])
  /\ strayed' = (strayed \/ TakesAnothers)
  /\ stamp' = stamp + 1
  /\ UNCHANGED <<job, page, lost, hrLeft, faultsLeft>>

ForkOf(p) == [plan[p] EXCEPT !.status = "pending_confirmation", !.confirmed = FALSE,
                             !.version = @ + 1]

\* create_new_version_from_confirmed
ForkConfirmed(s) ==
  /\ MayGoOn(s) /\ session[s].call = "fork"
  /\ IF job.status # "open" \/ ~HasCurrent THEN Refuse(s)
     ELSE IF ~plan[Current].v5 \/ plan[Current].status # "ready" THEN Refuse(s)
     ELSE \E pg \in Pages :
            IF ~EditsFit(Current, pg.version) THEN Refuse(s)
            ELSE IF ~SameInput(Current) THEN GivesUp(s)
            ELSE /\ NextId \in Ids
                 /\ Commit(s, [plan EXCEPT ![Current].current = FALSE,
                                           ![NextId] = ForkOf(Current)])
  /\ UNCHANGED <<job, page, stamp, lost, strayed, hrLeft, faultsLeft>>

\* confirm_current_plan, as the API calls it (with an edit_version)
ConfirmPlan(s) ==
  /\ MayGoOn(s) /\ session[s].call = "confirm"
  /\ IF job.status # "open" \/ ~HasCurrent THEN Refuse(s)
     ELSE IF ~plan[Current].v5 THEN Refuse(s)
     ELSE IF ~SameInput(Current) THEN GivesUp(s)
     ELSE \E pg \in Pages :
            IF ~EditsFit(Current, pg.version) \/ plan[Current].status # "pending_confirmation"
            THEN Refuse(s)
            ELSE Commit(s, [plan EXCEPT ![Current].status = "ready", ![Current].confirmed = TRUE])
  /\ UNCHANGED <<job, page, stamp, lost, strayed, hrLeft, faultsLeft>>

\* mark_current_plan_outdated_if_input_changed
MarkOutdated(s) ==
  /\ MayGoOn(s) /\ session[s].call = "outdate"
  /\ IF ~HasCurrent \/ plan[Current].input = job.text THEN Refuse(s) ELSE GivesUp(s)
  /\ UNCHANGED <<job, page, stamp, lost, strayed, hrLeft, faultsLeft>>

-----------------------------------------------------------------------------
(* What goes wrong *)

\* One session has the plan's lock and waits for the job's, the other the other way round:
\* Postgres ends the transaction of one of them.
Deadlocked(s, t) == HoldsPlan(s) /\ HoldsJob(t) /\ ~MayGoOn(t) /\ session[s].row = Current

DeadlockVictim(s) ==
  /\ \E t \in Sessions : Deadlocked(s, t) \/ Deadlocked(t, s)
  /\ Ends(s)
  /\ lost' = (lost \/ HoldsPlan(s) \/ session[s].call \in {"outdate", "generate"})
  /\ UNCHANGED <<job, plan, page, stamp, strayed, hrLeft, faultsLeft>>

\* The process ends between two transactions: a call after a commit, or a model's answer.
Crash(s) ==
  /\ faultsLeft > 0 /\ faultsLeft' = faultsLeft - 1
  /\ session[s].pc \in {"called", "model"}
  /\ Ends(s)
  /\ lost' = (lost \/ At(s, "model") \/ session[s].call \in {"outdate", "generate"})
  /\ UNCHANGED <<job, plan, page, stamp, strayed, hrLeft>>

-----------------------------------------------------------------------------
Handle(s) ==
  \/ TakeJob(s) \/ Generate(s) \/ SaveDraft(s) \/ ForkConfirmed(s) \/ ConfirmPlan(s)
  \/ MarkOutdated(s) \/ ModelAnswers(s) \/ SaveResult(s) \/ DeadlockVictim(s)

Next ==
  \/ \E s \in Sessions : OpenJob(s) \/ CloseJob(s) \/ UpdateJob(s) \/ DeleteJob(s)
  \/ \E s \in Sessions : Ask(s) \/ AskToRegenerate(s)
  \/ \E s \in Sessions : Handle(s) \/ Crash(s)
  \/ LoadPage

Spec == Init /\ [][Next]_vars

\* A handler that has started goes on: a model call ends (it has a timeout), Postgres serves
\* lock waiters in their order and ends a deadlock.
Fairness == \A s \in Sessions : SF_vars(Handle(s))
-----------------------------------------------------------------------------
(* Properties *)

TypeOK ==
  /\ job \in [status : {"draft", "open", "closed", "deleted"}, text : Texts]
  /\ \A p \in Ids : /\ DOMAIN plan[p] = DOMAIN AbsentPlan
                    /\ plan[p].status \in Statuses \cup {"absent"} /\ plan[p].input \in Texts
                    /\ {plan[p].v5, plan[p].current, plan[p].confirmed} \subseteq BOOLEAN
                    /\ plan[p].version \in Nat
                    /\ plan[p].v5 /\ plan[p].status # "absent" => plan[p].version > 0
                    /\ plan[p].root \in 0..MaxPlans
                    /\ plan[p].criteria \subseteq Criterion
  /\ \A s \in Sessions :
       /\ session[s].pc \in {"idle", "called", "job", "model", "plan"}
       /\ session[s].call \in Calls \cup {"none"}
       /\ session[s].row \in 0..MaxPlans /\ session[s].input \in Texts
  /\ page.row \in 0..MaxPlans /\ stamp \in Nat /\ {lost, strayed} \subseteq BOOLEAN
  /\ hrLeft \in Nat /\ faultsLeft \in Nat

\* JobEvaluationPlanRead.validate_status_payload and _validate_v5_contract: what the API can
\* show of a row; it cannot be built from any other.
Readable(p) ==
  /\ plan[p].status = "outdated" => ~plan[p].current
  /\ plan[p].v5 =>
       /\ plan[p].version >= 1
       /\ plan[p].status \in Complete => plan[p].criteria # {}
       /\ plan[p].status \in {"generating", "failed"} => plan[p].criteria = {}
       /\ plan[p].confirmed <=> plan[p].status = "ready"
       /\ Cardinality(IdsOf(plan[p].criteria)) = Cardinality(plan[p].criteria)

\* The history of a job can always be shown, which one row that is not readable would
\* prevent: no late answer, draft or fork leaves a plan half written or with two criteria
\* under one identifier.
PlansReadable == \A p \in Rows : Readable(p)

\* The unique indexes never refuse a handler's commit: one current plan, and an edit_version
\* used once for a text, through forks, edits, failed and repeated generations and a text
\* that returns.  And every row can be shown.
RowConstraints ==
  /\ TypeOK
  /\ PlansReadable
  /\ Cardinality(CurrentRows) <= 1
  /\ \A p, q \in Rows :
       plan[p].v5 /\ plan[q].v5 /\ plan[p].input = plan[q].input
         /\ plan[p].version = plan[q].version => p = q

\* In the confirmed versions of one generation an id names one criterion, so reports made
\* under either version speak of the same one: the number of a deleted criterion that an
\* older version still has is never given to another.
StableIds ==
  ~strayed => \A p, q \in Rows : plan[p].confirmed /\ plan[q].confirmed /\ plan[p].root = plan[q].root =>
    \A c \in plan[p].criteria, d \in plan[q].criteria : c.id = d.id => c = d

Pending(calls) == \E s \in Sessions : session[s].pc \in {"called", "job"} /\ session[s].call \in calls

\* While the job is open, a plan HR has not confirmed is one of the job's present text, as
\* soon as the calls after the edit and the reopening are done: no late answer and no draft
\* saved in between survives.
DraftFitsJob ==
  job.status = "open" /\ HasCurrent /\ ~lost /\ ~Pending({"outdate", "generate"}) =>
    plan[Current].confirmed \/ plan[Current].input = job.text

\* "After an open Job edit, invalidate stale plan data" (job_evaluation_plan_service.py:1219):
\* the same of every 5.0 plan, the confirmed ones included.
EditInvalidates ==
  job.status = "open" /\ HasCurrent /\ ~lost /\ ~Pending({"outdate", "generate"}) =>
    plan[Current].input = job.text

\* A plan in generation gets its result: no order of answers, edits, closings and other
\* requests leaves it generating, unless a crash or a deadlock took the answer away.
GenerationEnds ==
  \A p \in Ids : plan[p].status = "generating" ~> plan[p].status # "generating" \/ lost

\* "A confirmed version stays read-only" (JobEvaluationPlanDrawer.tsx:523): what reports were
\* made with is not rewritten by drafts, forks, late answers or a regeneration of the same
\* plan, whose reset the CHECK refuses; only a regeneration that had read another plan can.
ConfirmedStays ==
  [][\A p \in Ids :
       plan[p].confirmed
         /\ ~(\E s \in Sessions : At(s, "job") /\ session[s].call = "regenerate" /\ session[s].row # p)
       => plan'[p].confirmed /\ plan'[p].criteria = plan[p].criteria]_vars
=============================================================================
