--------------------- MODULE ApplicationProcessingProofs ---------------------
(***************************************************************************)
(* Theorems about ApplicationProcessing, for all values of its constants.  *)
(* The inductive invariant adds to the properties what the workers' local  *)
(* state says about the rows, and what an open claim has locked.           *)
(***************************************************************************)
EXTENDS ApplicationProcessing, TLAPS

\* The rows a worker's open claim has locked.
Held(w) == tx[w].recovered \cup {wk[w].run}

\* A row exists from its insertion on, for a submission that was made.
RowsExist ==
  \A r \in RunIds :
    /\ run[r].status = "absent" <=> r > created
    /\ run[r].status = "absent" <=> run[r].sub = NoSubmission
    /\ run[r].status = "absent" => run[r].step = "extract_text"
    /\ run[r].status # "absent" => current[run[r].sub] # "none"

\* A worker that does something does it to a row that exists.
WorkersBusyWithRows ==
  \A w \in Workers :
    wk[w].pc # "idle" => wk[w].run \in RunIds /\ run[wk[w].run].status # "absent"

\* Row locks: open claims hold disjoint rows, and nobody else changed them.
ClaimsApart ==
  \A v, w \in Workers :
    v # w /\ wk[v].pc = "claiming" /\ wk[w].pc = "claiming" => Held(v) \cap Held(w) = {}

RowToClaim(w) == AfterRecovery(tx[w].recovered)[wk[w].run]

\* What a claim's SELECT saw still holds at its COMMIT.
ClaimSound(w) ==
  /\ \A r \in tx[w].recovered : NeedsRecovery(run[r])
  /\ RowToClaim(w).status \in {"queued", "waiting_screening", "paused"}
  /\ RowToClaim(w).status = "queued" => RowToClaim(w).attempts < MaxAttempts

ClaimsSound == \A w \in Workers : wk[w].pc = "claiming" => ClaimSound(w)

\* While a worker still owns its row, the row is at the step it read.
BeliefHolds ==
  \A w \in Workers :
    wk[w].pc \in {"step", "called", "write"} /\ run[wk[w].run].owner = w
      => run[wk[w].run].step = wk[w].step

\* What a worker is about to write was earned: the draft is stored, the screening was
\* triggered, the report exists.
OutEarned(w) ==
  LET s == run[wk[w].run].sub
  IN  /\ wk[w].out = "advance" =>
           \/ wk[w].step = "extract_text"
           \/ wk[w].step = "structure_resume" /\ resume[s].draft
      /\ wk[w].out = "advance_warned" => wk[w].step = "structure_resume"
      /\ wk[w].out \in {"wait", "succeed"} =>
           wk[w].step \in {"trigger_screening", "await_screening"}
      /\ wk[w].out = "wait" => scr[s].status # "none"
      /\ wk[w].out = "succeed" => scr[s].reports # {}

OutcomeEarned == \A w \in Workers : wk[w].pc = "write" => OutEarned(w)

\* A row that awaits its screening has one; so has every report.
ScreeningKnown ==
  /\ \A r \in RunIds :
       run[r].step = "await_screening" => scr[run[r].sub].status # "none"
  /\ \A w \in Workers :
       wk[w].pc \in {"step", "called"} /\ wk[w].step = "await_screening"
         => scr[run[wk[w].run].sub].status # "none"
  /\ \A s \in Submissions :
       /\ scr[s].status = "succeeded" => scr[s].reports # {}
       /\ scr[s].valid # "none" =>
            scr[s].status # "none" /\ scr[s].valid \in scr[s].reports

\* Only an application that was made is screened.
ScreenedApplications ==
  \A s \in Submissions : scr[s].status # "none" => current[s] # "none"

\* What every other invariant needs: rows, locks and claims fit each other.
Consistent ==
  /\ TypeOK
  /\ RowsExist
  /\ WorkersBusyWithRows
  /\ ClaimsApart
  /\ ClaimsSound
  /\ ScreenedApplications

\* What makes a success true.
Earned == BeliefHolds /\ OutcomeEarned /\ ScreeningKnown

\* The inductive invariant.
Founded == Consistent /\ RowConstraints /\ Earned
-----------------------------------------------------------------------------
(* What the row operators return *)

LEMMA Bounds ==
  /\ MaxAttempts \in Nat \ {0} /\ Retries \in Nat /\ LeaseTerm \in Nat
  /\ MaxRuns \in Nat /\ HrBudget \in Nat /\ FaultBudget \in Nat
BY ConstantsOK

\* One field at a time: the prover loses an update of several.
LEMMA SetSub ==
  \A row \in Row : \A x \in Submissions : [row EXCEPT !.sub = x] \in Row
BY DEF Row

LEMMA SetStatus ==
  \A row \in Row : \A x \in Statuses : [row EXCEPT !.status = x] \in Row
BY DEF Row

LEMMA SetStep ==
  \A row \in Row : \A x \in Steps : [row EXCEPT !.step = x] \in Row
BY DEF Row

LEMMA SetAttempts ==
  \A row \in Row : \A x \in 0..MaxAttempts : [row EXCEPT !.attempts = x] \in Row
BY DEF Row

LEMMA SetWarned ==
  \A row \in Row : \A x \in BOOLEAN : [row EXCEPT !.warned = x] \in Row
BY DEF Row

LEMMA SetReason ==
  \A row \in Row : \A x \in Reasons : [row EXCEPT !.reason = x] \in Row
BY DEF Row

LEMMA SetOwner ==
  \A row \in Row : \A x \in Workers \cup {NoWorker} : [row EXCEPT !.owner = x] \in Row
BY DEF Row

LEMMA SetLeft ==
  \A row \in Row : \A x \in -1..LeaseTerm : [row EXCEPT !.left = x] \in Row
BY DEF Row

LEMMA UnleasedRow ==
  ASSUME NEW row \in Row
  PROVE  /\ Unleased(row) \in Row
         /\ Unleased(row).sub = row.sub /\ Unleased(row).status = row.status
         /\ Unleased(row).step = row.step /\ Unleased(row).attempts = row.attempts
         /\ Unleased(row).warned = row.warned /\ Unleased(row).reason = row.reason
         /\ Unleased(row).owner = NoWorker /\ Unleased(row).left = 0
<1>1. Unleased(row) \in Row
  <2>1. Unleased(row) = [[row EXCEPT !.owner = NoWorker] EXCEPT !.left = 0]
    BY DEF Unleased
  <2>2. 0 \in -1..LeaseTerm
    BY Bounds
  <2>3. [row EXCEPT !.owner = NoWorker] \in Row
    BY SetOwner
  <2> QED BY <2>1, <2>2, <2>3, SetLeft
<1>2. /\ Unleased(row).sub = row.sub /\ Unleased(row).status = row.status
      /\ Unleased(row).step = row.step /\ Unleased(row).attempts = row.attempts
      /\ Unleased(row).warned = row.warned /\ Unleased(row).reason = row.reason
      /\ Unleased(row).owner = NoWorker /\ Unleased(row).left = 0
  BY DEF Unleased, Row
<1> QED BY <1>1, <1>2

LEMMA RequeuedRow ==
  ASSUME NEW row \in Row, NEW status \in Statuses
  PROVE  LET new == [Unleased(row) EXCEPT !.status = status]
         IN  /\ new \in Row
             /\ new.sub = row.sub /\ new.status = status
             /\ new.step = row.step /\ new.attempts = row.attempts
             /\ new.warned = row.warned /\ new.reason = row.reason
             /\ new.owner = NoWorker
<1>1. Unleased(row) \in Row
  BY UnleasedRow
<1>2. [Unleased(row) EXCEPT !.status = status] \in Row
  BY <1>1, SetStatus
<1> QED BY <1>1, <1>2, UnleasedRow DEF Row

LEMMA FailedRow ==
  ASSUME NEW row \in Row
  PROVE  /\ Failed(row) \in Row
         /\ Failed(row).sub = row.sub /\ Failed(row).status = "failed"
         /\ Failed(row).step = row.step /\ Failed(row).attempts = row.attempts
         /\ Failed(row).warned = row.warned /\ Failed(row).reason = "none"
         /\ Failed(row).owner = NoWorker
<1>1. Unleased(row) \in Row
  BY UnleasedRow
<1>2. Failed(row) \in Row
  <2>1. Failed(row) = [[Unleased(row) EXCEPT !.status = "failed"] EXCEPT !.reason = "none"]
    BY DEF Failed
  <2>2. [Unleased(row) EXCEPT !.status = "failed"] \in Row
    BY <1>1, SetStatus DEF Statuses, Terminal
  <2> QED BY <2>1, <2>2, SetReason DEF Reasons
<1> QED BY <1>1, <1>2, UnleasedRow DEF Failed, Row

LEMMA PausedRow ==
  ASSUME NEW row \in Row, NEW reason \in Reasons
  PROVE  /\ Paused(row, reason) \in Row
         /\ Paused(row, reason).sub = row.sub /\ Paused(row, reason).status = "paused"
         /\ Paused(row, reason).step = row.step
         /\ Paused(row, reason).warned = row.warned
         /\ Paused(row, reason).reason = reason
         /\ Paused(row, reason).owner = NoWorker
<1>1. Unleased(row) \in Row
  BY UnleasedRow
<1>2. Paused(row, reason) \in Row
  <2>1. Paused(row, reason)
          = [[Unleased(row) EXCEPT !.status = "paused"] EXCEPT !.reason = reason]
    BY DEF Paused
  <2>2. [Unleased(row) EXCEPT !.status = "paused"] \in Row
    BY <1>1, SetStatus DEF Statuses
  <2> QED BY <2>1, <2>2, SetReason
<1> QED BY <1>1, <1>2, UnleasedRow DEF Paused, Row

LEMMA SucceededRow ==
  ASSUME NEW row \in Row
  PROVE  /\ Succeeded(row) \in Row
         /\ Succeeded(row).sub = row.sub /\ Succeeded(row).step = "completed"
         /\ Succeeded(row).warned = row.warned /\ Succeeded(row).reason = "none"
         /\ Succeeded(row).owner = NoWorker
         /\ Succeeded(row).status
              = IF row.warned THEN "succeeded_with_warnings" ELSE "succeeded"
<1>1. Unleased(row) \in Row
  BY UnleasedRow
<1> DEFINE status == IF row.warned THEN "succeeded_with_warnings" ELSE "succeeded"
           one == [Unleased(row) EXCEPT !.step = "completed"]
           two == [one EXCEPT !.reason = "none"]
<1>2. Succeeded(row) = [two EXCEPT !.status = status]
  BY DEF Succeeded
<1>3. one \in Row
  BY <1>1, SetStep DEF Steps
<1>4. two \in Row
  <2> HIDE DEF one
  <2> QED BY <1>3, SetReason DEF Reasons
<1>5. [two EXCEPT !.status = status] \in Row
  <2> HIDE DEF two
  <2>1. status \in Statuses
    BY DEF Statuses, Terminal, Success
  <2> QED BY <1>4, <2>1, SetStatus
<1> QED BY <1>1, <1>2, <1>5, UnleasedRow DEF Row

LEMMA WaitingRow ==
  ASSUME NEW row \in Row
  PROVE  /\ WaitingScreening(row) \in Row
         /\ WaitingScreening(row).sub = row.sub
         /\ WaitingScreening(row).status = "waiting_screening"
         /\ WaitingScreening(row).step = "await_screening"
         /\ WaitingScreening(row).warned = row.warned
         /\ WaitingScreening(row).reason = "none"
         /\ WaitingScreening(row).owner = NoWorker
<1>1. Unleased(row) \in Row
  BY UnleasedRow
<1> DEFINE one == [Unleased(row) EXCEPT !.step = "await_screening"]
           two == [one EXCEPT !.status = "waiting_screening"]
<1>2. WaitingScreening(row) = [two EXCEPT !.reason = "none"]
  BY DEF WaitingScreening
<1>3. one \in Row
  BY <1>1, SetStep DEF Steps
<1>4. two \in Row
  <2> HIDE DEF one
  <2> QED BY <1>3, SetStatus DEF Statuses, Active
<1>5. [two EXCEPT !.reason = "none"] \in Row
  <2> HIDE DEF two
  <2> QED BY <1>4, SetReason DEF Reasons
<1> QED BY <1>1, <1>2, <1>5, UnleasedRow DEF WaitingScreening, Row

LEMMA AdvancedRow ==
  ASSUME NEW row \in Row, NEW warn \in BOOLEAN
  PROVE  /\ Advanced(row, warn) \in Row
         /\ Advanced(row, warn).sub = row.sub
         /\ Advanced(row, warn).status = row.status
         /\ Advanced(row, warn).step = NextStep(row.step)
         /\ row.warned \/ warn => Advanced(row, warn).warned
         /\ Advanced(row, warn).reason = row.reason
         /\ Advanced(row, warn).owner = row.owner
<1> DEFINE one == [row EXCEPT !.step = NextStep(@)]
           two == [one EXCEPT !.warned = row.warned \/ warn]
<1>1. Advanced(row, warn) = [two EXCEPT !.left = LeaseTerm]
  BY DEF Advanced, Row
<1>2. one \in Row
  BY SetStep DEF NextStep, Steps
<1>3. two \in Row
  <2> HIDE DEF one
  <2>1. (row.warned \/ warn) \in BOOLEAN
    BY Zenon
  <2> QED BY <1>2, <2>1, SetWarned
<1>4. [two EXCEPT !.left = LeaseTerm] \in Row
  <2> HIDE DEF two
  <2>1. LeaseTerm \in -1..LeaseTerm
    BY Bounds
  <2> QED BY <1>3, <2>1, SetLeft
<1> QED BY <1>1, <1>4 DEF Advanced, Row

LEMMA ClaimedRow ==
  ASSUME NEW row \in Row, NEW w \in Workers, NEW left \in -1..LeaseTerm,
         row.status = "queued" => row.attempts < MaxAttempts
  PROVE  /\ Claimed(row, w, left) \in Row
         /\ Claimed(row, w, left).sub = row.sub
         /\ Claimed(row, w, left).status = "running"
         /\ Claimed(row, w, left).step = row.step
         /\ Claimed(row, w, left).warned = row.warned
         /\ Claimed(row, w, left).reason = "none"
         /\ Claimed(row, w, left).owner = w
<1> DEFINE tries == IF row.status = "queued" THEN row.attempts + 1 ELSE row.attempts
           one == [row EXCEPT !.status = "running"]
           two == [one EXCEPT !.reason = "none"]
           three == [two EXCEPT !.owner = w]
           four == [three EXCEPT !.left = left]
<1>1. Claimed(row, w, left) = [four EXCEPT !.attempts = tries]
  BY DEF Claimed, Row
<1>2. one \in Row
  BY SetStatus DEF Statuses, Active
<1>3. two \in Row
  <2> HIDE DEF one
  <2> QED BY <1>2, SetReason DEF Reasons
<1>4. three \in Row
  <2> HIDE DEF two
  <2> QED BY <1>3, SetOwner
<1>5. four \in Row
  <2> HIDE DEF three
  <2> QED BY <1>4, SetLeft
<1>6. [four EXCEPT !.attempts = tries] \in Row
  <2> HIDE DEF four
  <2>1. tries \in 0..MaxAttempts
    BY Bounds DEF Row
  <2> QED BY <1>5, <2>1, SetAttempts
<1> QED BY <1>1, <1>6 DEF Claimed, Row

LEMMA AbsentIsRow == AbsentRow \in Row
BY Bounds DEF AbsentRow, Row, Statuses, Steps, Reasons

LEMMA NewRowIsRow ==
  ASSUME NEW s \in Submissions, NEW step \in Steps, NEW warned \in BOOLEAN
  PROVE  /\ NewRow(s, step, warned) \in Row
         /\ NewRow(s, step, warned).sub = s
         /\ NewRow(s, step, warned).status = "queued"
         /\ NewRow(s, step, warned).step = step
         /\ NewRow(s, step, warned).warned = warned
         /\ NewRow(s, step, warned).reason = "none"
         /\ NewRow(s, step, warned).owner = NoWorker
<1> DEFINE one == [AbsentRow EXCEPT !.sub = s]
           two == [one EXCEPT !.status = "queued"]
           three == [two EXCEPT !.step = step]
<1>1. NewRow(s, step, warned) = [three EXCEPT !.warned = warned]
  BY DEF NewRow
<1>2. one \in Row
  BY AbsentIsRow, SetSub
<1>3. two \in Row
  <2> HIDE DEF one
  <2> QED BY <1>2, SetStatus DEF Statuses, Active
<1>4. three \in Row
  <2> HIDE DEF two
  <2> QED BY <1>3, SetStep
<1>5. [three EXCEPT !.warned = warned] \in Row
  <2> HIDE DEF three
  <2> QED BY <1>4, SetWarned
<1> QED BY <1>1, <1>5 DEF NewRow, AbsentRow

LEMMA AgedRow ==
  ASSUME NEW row \in Row, row.left >= 0
  PROVE  LET new == [row EXCEPT !.left = @ - 1]
         IN  /\ new \in Row
             /\ new.sub = row.sub /\ new.status = row.status /\ new.step = row.step
             /\ new.attempts = row.attempts /\ new.warned = row.warned
             /\ new.reason = row.reason /\ new.owner = row.owner
<1>1. row.left - 1 \in -1..LeaseTerm
  BY Bounds DEF Row
<1>2. [row EXCEPT !.left = @ - 1] \in Row
  BY <1>1, SetLeft
<1> QED BY <1>2 DEF Row

LEMMA RenewedRow ==
  ASSUME NEW row \in Row
  PROVE  LET new == [row EXCEPT !.left = LeaseTerm]
         IN  /\ new \in Row
             /\ new.sub = row.sub /\ new.status = row.status /\ new.step = row.step
             /\ new.attempts = row.attempts /\ new.warned = row.warned
             /\ new.reason = row.reason /\ new.owner = row.owner
<1>1. LeaseTerm \in -1..LeaseTerm
  BY Bounds
<1>2. [row EXCEPT !.left = LeaseTerm] \in Row
  BY <1>1, SetLeft
<1> QED BY <1>2 DEF Row

\* Recovery only ever changes the status, the reason and the lease.
LEMMA RecoveredRow ==
  ASSUME NEW row \in Row
  PROVE  /\ Recovered(row) \in Row
         /\ Recovered(row).sub = row.sub /\ Recovered(row).step = row.step
         /\ Recovered(row).attempts = row.attempts
         /\ Recovered(row).warned = row.warned
         /\ Recovered(row).owner = NoWorker
         /\ Recovered(row).status \in {"queued", "waiting_screening", "failed"}
         /\ Recovered(row).status = "queued" => row.attempts < MaxAttempts
         /\ Recovered(row).status = "waiting_screening" => row.step = "await_screening"
         /\ Recovered(row).reason \in {row.reason, "none"}
<1>1. {"queued", "waiting_screening"} \subseteq Statuses
  BY DEF Statuses, Active
<1>2. CASE Expired(row) /\ row.step = "await_screening"
  BY <1>1, <1>2, RequeuedRow DEF Recovered
<1>3. CASE ~(Expired(row) /\ row.step = "await_screening") /\ row.attempts >= MaxAttempts
  BY <1>3, FailedRow DEF Recovered
<1>4. CASE ~(Expired(row) /\ row.step = "await_screening") /\ ~(row.attempts >= MaxAttempts)
  <2>1. row.attempts < MaxAttempts
    BY <1>4, Bounds DEF Row
  <2> QED BY <1>1, <1>4, <2>1, RequeuedRow DEF Recovered
<1> QED BY <1>2, <1>3, <1>4
-----------------------------------------------------------------------------
(* What a worker's own moves do to wk *)

\* Worker w's entry becomes new; the others keep theirs.
Becomes(w, new) ==
  /\ new \in Worker /\ wk' \in [Workers -> Worker]
  /\ wk'[w] = new
  /\ \A v \in Workers \ {w} : wk'[v] = wk[v]

LEMMA BecomesNew ==
  ASSUME wk \in [Workers -> Worker], NEW w \in Workers, NEW new \in Worker,
         wk' = [wk EXCEPT ![w] = new]
  PROVE  Becomes(w, new)
BY DEF Becomes

LEMMA IdleIsWorker == Idle \in Worker
BY Bounds DEF Idle, Worker, Steps, Outs

LEMMA SetPc ==
  \A me \in Worker :
    \A pc \in {"idle", "claiming", "renew", "step", "called", "write", "release"} :
      [me EXCEPT !.pc = pc] \in Worker
BY DEF Worker

LEMMA SetRun ==
  \A me \in Worker : \A r \in RunIds : [me EXCEPT !.run = r] \in Worker
BY DEF Worker

LEMMA SetOut ==
  \A me \in Worker : \A out \in Outs : [me EXCEPT !.out = out] \in Worker
BY DEF Worker

LEMMA SetTries ==
  \A me \in Worker : \A tries \in 0..Retries : [me EXCEPT !.tries = tries] \in Worker
BY DEF Worker

LEMMA SetWorkerStep ==
  \A me \in Worker : \A step \in Steps : [me EXCEPT !.step = step] \in Worker
BY DEF Worker

LEMMA PcMove ==
  ASSUME wk \in [Workers -> Worker], NEW w \in Workers,
         NEW pc \in {"idle", "claiming", "renew", "step", "called", "write", "release"},
         wk' = [wk EXCEPT ![w].pc = pc]
  PROVE  /\ Becomes(w, wk'[w])
         /\ wk'[w].pc = pc /\ wk'[w].run = wk[w].run /\ wk'[w].step = wk[w].step
         /\ wk'[w].out = wk[w].out
<1>1. [wk[w] EXCEPT !.pc = pc] \in Worker
  BY SetPc
<1>2. Becomes(w, [wk[w] EXCEPT !.pc = pc])
  BY <1>1, BecomesNew
<1> QED BY <1>1, <1>2 DEF Becomes, Worker

LEMMA DecideMove ==
  ASSUME wk \in [Workers -> Worker], NEW w \in Workers, NEW out \in Outs, Decide(w, out)
  PROVE  /\ Becomes(w, wk'[w])
         /\ wk'[w].pc = "write" /\ wk'[w].run = wk[w].run /\ wk'[w].step = wk[w].step
         /\ wk'[w].out = out
<1> DEFINE one == [wk[w] EXCEPT !.pc = "write"]
           new == [one EXCEPT !.out = out]
<1>1. wk' = [wk EXCEPT ![w] = new]
  BY DEF Decide
<1>2. one \in Worker
  BY SetPc
<1>3. new \in Worker
  <2> HIDE DEF one
  <2> QED BY <1>2, SetOut
<1>4. Becomes(w, new)
  <2> HIDE DEF new
  <2> QED BY <1>1, <1>3, BecomesNew
<1> QED BY <1>4 DEF Becomes, Worker

LEMMA RetryMove ==
  ASSUME wk \in [Workers -> Worker], NEW w \in Workers, wk[w].tries < Retries,
         wk' = [wk EXCEPT ![w].pc = "step", ![w].tries = @ + 1]
  PROVE  /\ Becomes(w, wk'[w])
         /\ wk'[w].pc = "step" /\ wk'[w].run = wk[w].run /\ wk'[w].step = wk[w].step
<1> DEFINE one == [wk[w] EXCEPT !.pc = "step"]
           tries == wk[w].tries + 1
           new == [one EXCEPT !.tries = tries]
<1>1. wk' = [wk EXCEPT ![w] = new]
  BY DEF Worker
<1>2. one \in Worker
  BY SetPc
<1>3. tries \in 0..Retries
  BY Bounds DEF Worker
<1>4. new \in Worker
  <2> HIDE DEF one, tries
  <2> QED BY <1>2, <1>3, SetTries
<1>5. Becomes(w, new)
  <2> HIDE DEF new
  <2> QED BY <1>1, <1>4, BecomesNew
<1> QED BY <1>5 DEF Becomes, Worker

LEMMA ReadMove ==
  ASSUME wk \in [Workers -> Worker], NEW w \in Workers, NEW step \in Steps,
         wk' = [wk EXCEPT ![w].pc = "step", ![w].step = step, ![w].tries = 0,
                          ![w].out = "none"]
  PROVE  /\ Becomes(w, wk'[w])
         /\ wk'[w].pc = "step" /\ wk'[w].run = wk[w].run /\ wk'[w].step = step
<1> DEFINE one == [wk[w] EXCEPT !.pc = "step"]
           two == [one EXCEPT !.step = step]
           three == [two EXCEPT !.tries = 0]
           new == [three EXCEPT !.out = "none"]
<1>1. wk' = [wk EXCEPT ![w] = new]
  OBVIOUS
<1>2. one \in Worker
  BY SetPc
<1>3. two \in Worker
  <2> HIDE DEF one
  <2> QED BY <1>2, SetWorkerStep
<1>4. three \in Worker
  <2> HIDE DEF two
  <2>1. 0 \in 0..Retries
    BY Bounds
  <2> QED BY <1>3, <2>1, SetTries
<1>5. new \in Worker
  <2> HIDE DEF three
  <2> QED BY <1>4, SetOut DEF Outs
<1>6. Becomes(w, new)
  <2> HIDE DEF new
  <2> QED BY <1>1, <1>5, BecomesNew
<1> QED BY <1>6 DEF Becomes, Worker

LEMMA ClaimMove ==
  ASSUME wk \in [Workers -> Worker], NEW w \in Workers, NEW r \in RunIds,
         wk' = [wk EXCEPT ![w] = [Idle EXCEPT !.pc = "claiming", !.run = r]]
  PROVE  /\ Becomes(w, wk'[w])
         /\ wk'[w].pc = "claiming" /\ wk'[w].run = r
<1> DEFINE one == [Idle EXCEPT !.pc = "claiming"]
           new == [one EXCEPT !.run = r]
<1>1. wk' = [wk EXCEPT ![w] = new]
  OBVIOUS
<1>2. one \in Worker
  BY IdleIsWorker, SetPc
<1>3. new \in Worker
  <2> HIDE DEF one
  <2> QED BY <1>2, SetRun
<1>4. Becomes(w, new)
  <2> HIDE DEF new
  <2> QED BY <1>1, <1>3, BecomesNew
<1> QED BY <1>4 DEF Becomes, Idle

LEMMA IdleMove ==
  ASSUME wk \in [Workers -> Worker], NEW w \in Workers, wk' = [wk EXCEPT ![w] = Idle]
  PROVE  Becomes(w, wk'[w]) /\ wk'[w].pc = "idle"
<1>1. Becomes(w, Idle)
  BY IdleIsWorker, BecomesNew
<1> QED BY <1>1 DEF Becomes, Idle
-----------------------------------------------------------------------------
(* What a step does to a row *)

LEMMA WrittenRow ==
  ASSUME NEW row \in Row, NEW out \in Outs
  PROVE  /\ Written(row, out) \in Row
         /\ Written(row, out).sub = row.sub
         /\ row.status # "absent" => Written(row, out).status # "absent"
<1>1. /\ out = "advance" => Written(row, out) = Advanced(row, FALSE)
      /\ out = "advance_warned" => Written(row, out) = Advanced(row, TRUE)
      /\ out = "wait" => Written(row, out) = WaitingScreening(row)
      /\ out = "pause_job" => Written(row, out) = Paused(row, "job_closed")
      /\ out = "pause_resume"
           => Written(row, out) = Paused(row, "existing_application_resume_choice")
      /\ out = "succeed" => Written(row, out) = Succeeded(row)
      /\ out \in {"none", "fail"} => Written(row, out) = Failed(row)
  BY DEF Written
<1>2. {"job_closed", "existing_application_resume_choice"} \subseteq Reasons
  BY DEF Reasons
<1>3. CASE out = "advance"
  <2>1. Written(row, out) = Advanced(row, FALSE)
    BY <1>1, <1>3
  <2>2. /\ Advanced(row, FALSE) \in Row
        /\ Advanced(row, FALSE).sub = row.sub
        /\ Advanced(row, FALSE).status = row.status
    BY AdvancedRow, Zenon
  <2> QED BY <2>1, <2>2
<1>4. CASE out = "advance_warned"
  <2>1. Written(row, out) = Advanced(row, TRUE)
    BY <1>1, <1>4
  <2>2. /\ Advanced(row, TRUE) \in Row
        /\ Advanced(row, TRUE).sub = row.sub
        /\ Advanced(row, TRUE).status = row.status
    BY AdvancedRow, Zenon
  <2> QED BY <2>1, <2>2
<1>5. CASE out = "wait"
  BY <1>1, <1>5, WaitingRow
<1>6. CASE out \in {"pause_job", "pause_resume"}
  BY <1>1, <1>2, <1>6, PausedRow
<1>7. CASE out = "succeed"
  BY <1>1, <1>7, SucceededRow
<1>8. CASE out \in {"none", "fail"}
  BY <1>1, <1>8, FailedRow
<1> QED BY <1>3, <1>4, <1>5, <1>6, <1>7, <1>8 DEF Outs

Released(row) ==
  IF row.step = "await_screening"
  THEN [Unleased(row) EXCEPT !.status = "waiting_screening"]
  ELSE IF row.attempts < MaxAttempts
       THEN [Unleased(row) EXCEPT !.status = "queued"]
       ELSE Failed(row)

LEMMA ReleasedRow ==
  ASSUME NEW row \in Row
  PROVE  /\ Released(row) \in Row
         /\ Released(row).sub = row.sub /\ Released(row).step = row.step
         /\ Released(row).warned = row.warned
         /\ Released(row).owner = NoWorker
         /\ Released(row).status \in {"queued", "waiting_screening", "failed"}
         /\ Released(row).status = "waiting_screening" => row.step = "await_screening"
         /\ Released(row).reason \in {row.reason, "none"}
<1>1. {"queued", "waiting_screening"} \subseteq Statuses
  BY DEF Statuses, Active
<1>2. CASE row.step = "await_screening"
  BY <1>1, <1>2, RequeuedRow DEF Released
<1>3. CASE row.step # "await_screening" /\ row.attempts < MaxAttempts
  BY <1>1, <1>3, RequeuedRow DEF Released
<1>4. CASE row.step # "await_screening" /\ ~(row.attempts < MaxAttempts)
  BY <1>4, FailedRow DEF Released
<1> QED BY <1>2, <1>3, <1>4

\* The ways a row changes.
Ticked(r) ==
  /\ run[r].status = "running" /\ run[r].left >= 0
  /\ run'[r] = [run[r] EXCEPT !.left = @ - 1]

Renewed(r) ==
  /\ \E w \in Workers : wk[w].run = r /\ wk[w].pc \in {"renew", "step"} /\ Owned(w)
                        /\ wk'[w] # wk[w]
  /\ run'[r] = [run[r] EXCEPT !.left = LeaseTerm]

RecoveredNow(r) ==
  /\ NeedsRecovery(run[r])
  /\ \E w \in Workers : r \notin Locked(w) /\ wk'[w].pc # "claiming"
                        /\ wk[w].pc \in {"idle", "claiming"}
  /\ run'[r] = Recovered(run[r])

ClaimedNow(r) ==
  \E w \in Workers :
    /\ wk[w].pc = "claiming" /\ wk[w].run = r /\ wk'[w].pc # "claiming"
    /\ UniqueIndexHolds(AfterRecovery(tx[w].recovered), r)
    /\ \A q \in RunIds \ {r} : run'[q] = AfterRecovery(tx[w].recovered)[q]
    /\ run'[r] = Claimed(AfterRecovery(tx[w].recovered)[r], w, LeaseTerm - tx[w].age)

WrittenNow(r) ==
  \E w \in Workers :
    /\ wk[w].pc = "write" /\ wk[w].run = r /\ Writable(w) /\ wk'[w] # wk[w]
    /\ run'[r] = Written(run[r], wk[w].out)

ReleasedNow(r) ==
  /\ \E w \in Workers : wk[w].pc = "release" /\ wk[w].run = r /\ Unblocked(w)
                        /\ run[r].owner = w /\ wk'[w] # wk[w]
  /\ run[r].status = "running"
  /\ run'[r] = Released(run[r])

Inserted(r) ==
  /\ r = created + 1 /\ created' = created + 1
  /\ \A q \in RunIds \ {r} : run'[q] = run[q]
  /\ \E s \in Submissions, step \in Steps, warned \in BOOLEAN :
       /\ ~HasActive(run, s, 0) /\ current'[s] # "none"
       /\ run'[r] = NewRow(s, step, warned)
       /\ \/ step = "extract_text" /\ ~warned
          \/ \E previous \in RunIds :
               /\ run[previous].sub = s /\ run[previous].status \in {"failed", "paused"}
               /\ step = RetryStep(run[previous]) /\ warned = run[previous].warned

RowStep(r) ==
  \/ run'[r] = run[r]
  \/ Ticked(r) \/ Renewed(r) \/ RecoveredNow(r) \/ ClaimedNow(r)
  \/ WrittenNow(r) \/ ReleasedNow(r) \/ Inserted(r)

LEMMA ClaimedRowNow ==
  ASSUME Consistent, NEW w \in Workers, wk[w].pc = "claiming"
  PROVE  LET r == wk[w].run
             old == AfterRecovery(tx[w].recovered)[r]
             new == Claimed(old, w, LeaseTerm - tx[w].age)
         IN  /\ r \in RunIds /\ run[r].status # "absent"
             /\ old \in Row /\ old.sub = run[r].sub /\ old.step = run[r].step
             /\ old.warned = run[r].warned
             /\ new \in Row /\ new.sub = run[r].sub /\ new.step = run[r].step
             /\ new.warned = run[r].warned
             /\ new.status = "running" /\ new.reason = "none" /\ new.owner = w
<1> DEFINE r == wk[w].run
           old == AfterRecovery(tx[w].recovered)[r]
<1>1. r \in RunIds /\ run[r].status # "absent" /\ run[r] \in Row
  BY DEF Consistent, WorkersBusyWithRows, TypeOK
<1>2. old = run[r] \/ old = Recovered(run[r])
  BY <1>1 DEF AfterRecovery
<1>3. /\ old \in Row /\ old.sub = run[r].sub /\ old.step = run[r].step
      /\ old.warned = run[r].warned
  BY <1>1, <1>2, RecoveredRow
<1>4. old.status = "queued" => old.attempts < MaxAttempts
  BY DEF Consistent, ClaimsSound, ClaimSound, RowToClaim
<1>5. LeaseTerm - tx[w].age \in -1..LeaseTerm
  BY Bounds DEF Consistent, TypeOK, Claim
<1> HIDE DEF old, r
<1>6. LET new == Claimed(old, w, LeaseTerm - tx[w].age)
      IN  /\ new \in Row /\ new.sub = old.sub /\ new.step = old.step
          /\ new.warned = old.warned
          /\ new.status = "running" /\ new.reason = "none" /\ new.owner = w
  BY <1>3, <1>4, <1>5, ClaimedRow
<1> QED BY <1>1, <1>3, <1>6 DEF old, r

\* The rows change as RowStep says, in every step of the system.
RowsChange ==
  /\ run' \in [RunIds -> Row]
  /\ \A r \in RunIds : RowStep(r)
  /\ created' = created \/ (created + 1 \in RunIds /\ Inserted(created + 1))

LEMMA RowsUnchanged ==
  ASSUME Consistent, UNCHANGED <<run, created>>
  PROVE  RowsChange
BY DEF RowsChange, RowStep, Consistent, TypeOK

LEMMA ClaimSelectRows ==
  ASSUME Consistent, NEW w \in Workers, ClaimSelect(w)
  PROVE  RowsChange
<1> DEFINE recovered == {r \in RunIds : NeedsRecovery(run[r])}
<1>1. CASE UNCHANGED run
  BY <1>1, RowsUnchanged DEF ClaimSelect
<1>2. CASE /\ run' = AfterRecovery(recovered) /\ wk' = wk
           /\ recovered \cap Locked(w) = {} /\ wk[w].pc = "idle"
  <2>1. ASSUME NEW r \in RunIds
        PROVE  /\ AfterRecovery(recovered)[r] \in Row
               /\ AfterRecovery(recovered)[r] = run[r] \/ RecoveredNow(r)
    <3>1. run[r] \in Row
      BY DEF Consistent, TypeOK
    <3>2. CASE r \in recovered
      <4>1. AfterRecovery(recovered)[r] = Recovered(run[r])
        BY <3>2 DEF AfterRecovery
      <4>2. CASE r \notin Locked(w) /\ wk'[w].pc # "claiming"
        BY <1>2, <3>1, <3>2, <4>1, <4>2, RecoveredRow DEF RecoveredNow, ClaimSelect
      <4> QED BY <1>2, <3>2, <4>2
    <3>3. CASE r \notin recovered
      BY <3>1, <3>3 DEF AfterRecovery
    <3> QED BY <3>2, <3>3
  <2>2. run' \in [RunIds -> Row]
    BY <1>2, <2>1 DEF AfterRecovery
  <2> QED BY <1>2, <2>1, <2>2 DEF RowsChange, RowStep, ClaimSelect
<1> QED BY <1>1, <1>2 DEF ClaimSelect

LEMMA LockedRows ==
  ASSUME NEW w \in Workers, NEW r
  PROVE  r \in Locked(w)
           <=> \E v \in Workers \ {w} : wk[v].pc = "claiming" /\ r \in Held(v)
BY DEF Locked, Held

LEMMA ClaimCommitRows ==
  ASSUME Consistent, NEW w \in Workers, ClaimCommit(w)
  PROVE  RowsChange
<1> DEFINE rows == AfterRecovery(tx[w].recovered)
           new == Claimed(rows[wk[w].run], w, LeaseTerm - tx[w].age)
<1>1. CASE UNCHANGED run
  BY <1>1, RowsUnchanged DEF ClaimCommit
<1>2. CASE run' # run
  <2>1. wk[w].pc = "claiming" /\ wk[w].run \in RunIds
    BY DEF ClaimCommit, Consistent, WorkersBusyWithRows
  <2>2. new \in Row
    BY <2>1, ClaimedRowNow
  <2>3. ASSUME NEW r \in RunIds
        PROVE  /\ rows[r] \in Row
               /\ \/ rows[r] = run[r]
                  \/ /\ NeedsRecovery(run[r]) /\ r \notin Locked(w)
                     /\ rows[r] = Recovered(run[r])
    <3>1. run[r] \in Row
      BY DEF Consistent, TypeOK
    <3>2. r \in tx[w].recovered => NeedsRecovery(run[r]) /\ r \notin Locked(w)
      BY <2>1, LockedRows DEF Consistent, ClaimsSound, ClaimSound, ClaimsApart, Held
    <3> QED BY <3>1, <3>2, RecoveredRow DEF AfterRecovery
  <2>4. rows \in [RunIds -> Row]
    BY <2>3 DEF AfterRecovery
  <2>5. run' = [rows EXCEPT ![wk[w].run] = new] /\ UniqueIndexHolds(rows, wk[w].run)
    <3> HIDE DEF rows
    <3> QED BY <1>2 DEF ClaimCommit, rows
  <2>6. wk'[w].pc = "renew"
    BY <1>2, PcMove DEF ClaimCommit, Consistent, TypeOK
  <2>7. run' \in [RunIds -> Row]
    <3> HIDE DEF rows, new
    <3> QED BY <2>2, <2>4, <2>5
  <2>8. ASSUME NEW r \in RunIds
        PROVE  RowStep(r)
    <3>1. CASE r = wk[w].run
      <4>1. run'[r] = new /\ \A q \in RunIds \ {r} : run'[q] = rows[q]
        <5> HIDE DEF rows, new
        <5> QED BY <2>4, <2>5, <3>1
      <4> QED BY <2>1, <2>5, <2>6, <3>1, <4>1 DEF RowStep, ClaimedNow
    <3>2. CASE r # wk[w].run
      <4>1. run'[r] = rows[r]
        <5> HIDE DEF rows, new
        <5> QED BY <2>4, <2>5, <3>2
      <4> QED BY <2>1, <2>3, <2>6, <4>1 DEF RowStep, RecoveredNow
    <3> QED BY <3>1, <3>2
  <2> QED BY <2>7, <2>8 DEF RowsChange, ClaimCommit
<1> QED BY <1>1, <1>2

\* A worker that does not claim changes at most the row it works on.
LEMMA OneRow ==
  ASSUME Consistent, NEW w \in Workers, wk[w].run \in RunIds, NEW new \in Row,
         run' = [run EXCEPT ![wk[w].run] = new], UNCHANGED created,
         run'[wk[w].run] = new => RowStep(wk[w].run)
  PROVE  RowsChange
BY DEF RowsChange, RowStep, Consistent, TypeOK

LEMMA RenewRows ==
  ASSUME Consistent, NEW w \in Workers, RenewAndRead(w) \/ RenewBeforeStructure(w)
  PROVE  RowsChange
<1> DEFINE r == wk[w].run
           new == [run[r] EXCEPT !.left = LeaseTerm]
<1>1. r \in RunIds /\ run[r] \in Row
  BY DEF RenewAndRead, RenewBeforeStructure, Consistent, WorkersBusyWithRows, TypeOK
<1>2. new \in Row
  BY <1>1, RenewedRow
<1>3. run' = [run EXCEPT ![r] = new]
  BY DEF RenewAndRead, RenewBeforeStructure
<1>4. wk'[w] # wk[w]
  <2>1. wk \in [Workers -> Worker] /\ wk[w].pc # wk'[w].pc
    <3>1. CASE RenewAndRead(w)
      <4>1. run[r].step \in Steps
        BY <1>1 DEF Row
      <4> QED BY <3>1, <4>1, ReadMove DEF RenewAndRead, Consistent, TypeOK
    <3>2. CASE RenewBeforeStructure(w)
      BY <3>2, PcMove DEF RenewBeforeStructure, Consistent, TypeOK
    <3> QED BY <3>1, <3>2
  <2> QED BY <2>1
<1>5. run'[r] = new => RowStep(r)
  BY <1>4 DEF RowStep, Renewed, RenewAndRead, RenewBeforeStructure
<1> HIDE DEF new
<1> QED BY <1>1, <1>2, <1>3, <1>5, OneRow DEF RenewAndRead, RenewBeforeStructure

LEMMA WriteRows ==
  ASSUME Consistent, NEW w \in Workers, WriteOutcome(w)
  PROVE  RowsChange
<1> DEFINE r == wk[w].run
           new == Written(run[r], wk[w].out)
<1>1. r \in RunIds /\ run[r] \in Row /\ wk[w].out \in Outs
  BY DEF WriteOutcome, Consistent, WorkersBusyWithRows, TypeOK, Worker
<1>2. new \in Row
  BY <1>1, WrittenRow
<1>3. run' = [run EXCEPT ![r] = new]
  BY DEF WriteOutcome
<1>4. wk'[w].pc # wk[w].pc
  BY DEF WriteOutcome, Consistent, TypeOK, Worker, Idle
<1>5. run'[r] = new => RowStep(r)
  BY <1>4 DEF RowStep, WrittenNow, WriteOutcome
<1> HIDE DEF new
<1> QED BY <1>1, <1>2, <1>3, <1>5, OneRow DEF WriteOutcome

LEMMA ReleaseRows ==
  ASSUME Consistent, NEW w \in Workers, ReleaseForRetry(w)
  PROVE  RowsChange
<1> DEFINE r == wk[w].run
           new == Released(run[r])
<1>1. r \in RunIds /\ run[r] \in Row
  BY DEF ReleaseForRetry, Consistent, WorkersBusyWithRows, TypeOK
<1>2. CASE run[r].status = "running" /\ run[r].owner = w
  <2>1. new \in Row
    BY <1>1, ReleasedRow
  <2>2. run' = [run EXCEPT ![r] = new]
    BY <1>2 DEF ReleaseForRetry, Released
  <2>3. wk'[w].pc # wk[w].pc
    BY DEF ReleaseForRetry, Consistent, TypeOK, Worker, Idle
  <2>4. run'[r] = new => RowStep(r)
    BY <1>2, <2>3 DEF RowStep, ReleasedNow, ReleaseForRetry
  <2> HIDE DEF new
  <2> QED BY <1>1, <2>1, <2>2, <2>4, OneRow DEF ReleaseForRetry
<1>3. CASE ~(run[r].status = "running" /\ run[r].owner = w)
  BY <1>3, RowsUnchanged DEF ReleaseForRetry
<1> QED BY <1>2, <1>3

LEMMA TickRows ==
  ASSUME Consistent, Tick
  PROVE  RowsChange
<1>1. ASSUME NEW r \in RunIds
      PROVE  run'[r] \in Row /\ RowStep(r)
  <2>1. run[r] \in Row
    BY DEF Consistent, TypeOK
  <2>2. CASE run[r].status = "running" /\ run[r].left >= 0
    <3>1. run'[r] = [run[r] EXCEPT !.left = @ - 1]
      BY <2>2 DEF Tick
    <3> QED BY <2>1, <2>2, <3>1, AgedRow DEF RowStep, Ticked
  <2>3. CASE ~(run[r].status = "running" /\ run[r].left >= 0)
    BY <2>1, <2>3 DEF Tick, RowStep
  <2> QED BY <2>2, <2>3
<1>2. run' \in [RunIds -> Row]
  BY <1>1 DEF Tick
<1> QED BY <1>1, <1>2 DEF RowsChange, Tick

LEMMA NewRowAdded ==
  ASSUME Consistent, NEW new \in Row, created < MaxRuns,
         run' = [run EXCEPT ![created + 1] = new], created' = created + 1,
         run'[created + 1] = new => Inserted(created + 1)
  PROVE  RowsChange
<1>1. created + 1 \in RunIds
  BY Bounds DEF Consistent, TypeOK, RunIds
<1> QED BY <1>1 DEF RowsChange, RowStep, Consistent, TypeOK

LEMMA SubmitRows ==
  ASSUME Consistent, NEW s \in Submissions, Submit(s)
  PROVE  RowsChange
<1> DEFINE new == NewRow(s, "extract_text", FALSE)
<1>1. new \in Row
  BY NewRowIsRow, Zenon DEF Steps
<1>2. ~HasActive(run, s, 0) /\ current'[s] # "none"
  BY DEF Submit, HasActive, Consistent, TypeOK, RowsExist, Active, Resumes
<1>3. \A q \in RunIds \ {created + 1} : run'[q] = run[q]
  <2> HIDE DEF new
  <2> QED BY DEF Submit, new, Consistent, TypeOK
<1>4. run'[created + 1] = new => Inserted(created + 1)
  <2>1. "extract_text" \in Steps /\ FALSE \in BOOLEAN
    BY DEF Steps
  <2> HIDE DEF new
  <2> QED BY <1>2, <1>3, <2>1, Zenon DEF Inserted, Submit, new
<1> HIDE DEF new
<1> QED BY <1>1, <1>4, NewRowAdded DEF Submit, new

LEMMA ManualRetryRows ==
  ASSUME Consistent, NEW s \in Submissions, ManualRetry(s)
  PROVE  RowsChange
<1>1. PICK previous \in RunIds :
        /\ run[previous].sub = s /\ run[previous].status \in {"failed", "paused"}
        /\ run' = [run EXCEPT ![created + 1] =
                     NewRow(s, RetryStep(run[previous]), run[previous].warned)]
  BY DEF ManualRetry
<1> DEFINE new == NewRow(s, RetryStep(run[previous]), run[previous].warned)
<1>2. RetryStep(run[previous]) \in Steps /\ run[previous].warned \in BOOLEAN
  BY DEF RetryStep, Steps, Consistent, TypeOK, Row
<1>3. new \in Row
  BY <1>2, NewRowIsRow
<1>4. current'[s] # "none"
  BY <1>1 DEF ManualRetry, env, Consistent, RowsExist
<1>5. \A q \in RunIds \ {created + 1} : run'[q] = run[q]
  <2> HIDE DEF new
  <2> QED BY <1>1 DEF new, Consistent, TypeOK
<1>6. run'[created + 1] = new => Inserted(created + 1)
  BY <1>1, <1>2, <1>4, <1>5 DEF Inserted, ManualRetry
<1> HIDE DEF new
<1> QED BY <1>1, <1>3, <1>6, NewRowAdded DEF ManualRetry, new

LEMMA RowSteps ==
  ASSUME Consistent, Next
  PROVE  RowsChange
<1>1. ASSUME NEW w \in Workers, WorkerStep(w)
      PROVE  RowsChange
  <2>1. CASE ClaimSelect(w)
    BY <2>1, ClaimSelectRows
  <2>2. CASE ClaimCommit(w)
    BY <2>2, ClaimCommitRows
  <2>3. CASE RenewAndRead(w) \/ RenewBeforeStructure(w)
    BY <2>3, RenewRows
  <2>4. CASE WriteOutcome(w)
    BY <2>4, WriteRows
  <2>5. CASE ReleaseForRetry(w)
    BY <2>5, ReleaseRows
  <2>6. CASE \/ ReadText(w) \/ ExtractText(w) \/ StructureResume(w)
             \/ ReadBeforeTrigger(w) \/ TriggerScreening(w)
             \/ ReadBeforeAwait(w) \/ AwaitScreening(w) \/ LeaseLost(w)
    BY <2>6, RowsUnchanged
       DEF ReadText, ExtractText, StructureResume, ReadBeforeTrigger, TriggerScreening,
           ReadBeforeAwait, AwaitScreening, LeaseLost
  <2> QED BY <1>1, <2>1, <2>2, <2>3, <2>4, <2>5, <2>6 DEF WorkerStep
<1>2. ASSUME NEW w \in Workers, StepError(w) \/ Crash(w)
      PROVE  RowsChange
  BY <1>2, RowsUnchanged DEF StepError, Crash
<1>3. CASE Tick
  BY <1>3, TickRows
<1>4. ASSUME NEW s \in Submissions, Submit(s)
      PROVE  RowsChange
  BY <1>4, SubmitRows
<1>5. ASSUME NEW s \in Submissions, ManualRetry(s)
      PROVE  RowsChange
  BY <1>5, ManualRetryRows
<1>6. ASSUME NEW s \in Submissions,
             \/ SwitchResume(s) \/ Reassess(s) \/ HrExtracts(s)
             \/ ScreeningStep(s) \/ ScreeningRequeued(s)
      PROVE  RowsChange
  BY <1>6, RowsUnchanged
     DEF SwitchResume, Reassess, HrExtracts, ScreeningStep, ScreeningWorkerStep,
         ScreeningStarts, ScreeningStopped, ScreeningEnds, ScreeningPauses,
         ScreeningResumes, ScreeningRequeued
<1>7. ASSUME NEW j \in Jobs, ToggleJob(j)
      PROVE  RowsChange
  BY <1>7, RowsUnchanged DEF ToggleJob
<1> QED BY <1>1, <1>2, <1>3, <1>4, <1>5, <1>6, <1>7 DEF Next
-----------------------------------------------------------------------------
(* What a step does to a worker *)

StepAction(w) ==
  \/ ReadText(w) \/ ExtractText(w) \/ StructureResume(w)
  \/ ReadBeforeTrigger(w) \/ TriggerScreening(w)
  \/ ReadBeforeAwait(w) \/ AwaitScreening(w)

InStep == {"step", "called"}
Working == InStep \cup {"renew", "write", "release"}

WorkerMove(w) ==
  \/ wk'[w] = wk[w]
  \/ wk'[w].pc = "idle"
  \/ ClaimSelect(w) /\ wk'[w].pc = "claiming" /\ wk'[w].run \in RunIds
  \/ /\ wk[w].pc = "claiming" /\ wk'[w].pc = "renew" /\ wk'[w].run = wk[w].run
  \/ /\ wk[w].pc = "renew" /\ wk'[w].pc = "step" /\ wk'[w].run = wk[w].run
     /\ Owned(w) /\ wk'[w].step = run[wk[w].run].step
  \/ /\ wk[w].pc \in InStep /\ wk'[w].pc \in InStep \cup {"write"}
     /\ wk'[w].run = wk[w].run /\ wk'[w].step = wk[w].step
     /\ wk'[w].pc = "write" => StepAction(w)
  \/ /\ wk[w].pc \in Working /\ wk'[w].pc = "release" /\ wk'[w].run = wk[w].run
  \/ /\ wk[w].pc = "write" /\ wk'[w].pc = "renew" /\ wk'[w].run = wk[w].run

WorkersChange ==
  /\ wk' \in [Workers -> Worker]
  /\ \A w \in Workers : WorkerMove(w)

LEMMA WorkersUnchanged ==
  ASSUME Consistent, UNCHANGED wk
  PROVE  WorkersChange
BY DEF WorkersChange, WorkerMove, Consistent, TypeOK

LEMMA OneWorker ==
  ASSUME NEW w \in Workers, NEW new, Becomes(w, new), WorkerMove(w)
  PROVE  WorkersChange
BY DEF Becomes, WorkersChange, WorkerMove

LEMMA StepMoves ==
  ASSUME Consistent, NEW w \in Workers,
         StepAction(w)
  PROVE  WorkersChange
<1>1. wk \in [Workers -> Worker] /\ wk[w].pc \in InStep
  BY DEF StepAction, Consistent, TypeOK, InStep, ReadText, ExtractText, StructureResume,
         ReadBeforeTrigger, TriggerScreening, ReadBeforeAwait, AwaitScreening, At
<1>2. CASE \E out \in Outs : Decide(w, out)
  BY <1>1, <1>2, DecideMove, OneWorker DEF WorkerMove, InStep
<1>3. CASE wk' = [wk EXCEPT ![w].pc = "called"]
  BY <1>1, <1>3, PcMove, OneWorker DEF WorkerMove, InStep
<1>4. CASE wk[w].tries < Retries /\ wk' = [wk EXCEPT ![w].pc = "step", ![w].tries = @ + 1]
  BY <1>1, <1>4, RetryMove, OneWorker DEF WorkerMove, InStep
<1>5. \A status : ScreeningOutcome(status) \in Outs
  BY DEF ScreeningOutcome, Outs
<1>6. {"advance", "advance_warned", "wait", "pause_job", "pause_resume", "succeed", "fail"}
        \subseteq Outs
  BY DEF Outs
<1>7. CASE ReadText(w)
  BY <1>2, <1>3, <1>6, <1>7 DEF ReadText
<1>8. CASE ExtractText(w)
  BY <1>2, <1>6, <1>8 DEF ExtractText
<1>9. CASE StructureResume(w)
  BY <1>2, <1>4, <1>6, <1>9 DEF StructureResume
<1>10. CASE ReadBeforeTrigger(w)
  BY <1>2, <1>3, <1>6, <1>10 DEF ReadBeforeTrigger
<1>11. CASE TriggerScreening(w)
  BY <1>2, <1>5, <1>6, <1>11 DEF TriggerScreening
<1>12. CASE ReadBeforeAwait(w)
  BY <1>2, <1>3, <1>6, <1>12 DEF ReadBeforeAwait
<1>13. CASE AwaitScreening(w)
  BY <1>2, <1>5, <1>6, <1>13 DEF AwaitScreening
<1> QED BY <1>7, <1>8, <1>9, <1>10, <1>11, <1>12, <1>13 DEF StepAction

LEMMA QueueMoves ==
  ASSUME Consistent, NEW w \in Workers,
         \/ ClaimSelect(w) \/ ClaimCommit(w) \/ RenewAndRead(w) \/ RenewBeforeStructure(w)
         \/ WriteOutcome(w) \/ LeaseLost(w) \/ ReleaseForRetry(w)
         \/ StepError(w) \/ Crash(w)
  PROVE  WorkersChange
<1>1. wk \in [Workers -> Worker]
  BY DEF Consistent, TypeOK
<1>2. CASE UNCHANGED wk
  BY <1>2, WorkersUnchanged
<1>3. CASE wk' = [wk EXCEPT ![w] = Idle]
  BY <1>1, <1>3, IdleMove, OneWorker DEF WorkerMove
<1>4. CASE wk[w].pc \in Working /\ wk' = [wk EXCEPT ![w].pc = "release"]
  BY <1>1, <1>4, PcMove, OneWorker DEF WorkerMove
<1>5. CASE ClaimSelect(w)
  <2>1. CASE \E r \in RunIds :
               wk' = [wk EXCEPT ![w] = [Idle EXCEPT !.pc = "claiming", !.run = r]]
    BY <1>1, <1>5, <2>1, ClaimMove, OneWorker DEF WorkerMove
  <2> QED BY <1>2, <1>5, <2>1 DEF ClaimSelect
<1>6. CASE ClaimCommit(w)
  <2>1. CASE wk' = [wk EXCEPT ![w].pc = "renew"]
    BY <1>1, <1>6, <2>1, PcMove, OneWorker DEF WorkerMove, ClaimCommit
  <2> QED BY <1>3, <1>6, <2>1 DEF ClaimCommit
<1>7. CASE RenewAndRead(w)
  <2>1. run[wk[w].run].step \in Steps
    BY <1>7 DEF RenewAndRead, Consistent, TypeOK, WorkersBusyWithRows, Row
  <2>2. /\ Becomes(w, wk'[w]) /\ wk'[w].pc = "step" /\ wk'[w].run = wk[w].run
        /\ wk'[w].step = run[wk[w].run].step
    BY <1>1, <1>7, <2>1, ReadMove DEF RenewAndRead
  <2> QED BY <1>7, <2>2, OneWorker DEF WorkerMove, RenewAndRead
<1>8. CASE RenewBeforeStructure(w)
  BY <1>1, <1>8, PcMove, OneWorker DEF WorkerMove, InStep, RenewBeforeStructure
<1>9. CASE WriteOutcome(w)
  <2>1. CASE wk[w].out \in {"advance", "advance_warned"}
    <3>1. wk' = [wk EXCEPT ![w].pc = "renew"]
      BY <1>9, <2>1 DEF WriteOutcome
    <3> QED BY <1>1, <1>9, <3>1, PcMove, OneWorker DEF WorkerMove, WriteOutcome
  <2>2. CASE wk[w].out \notin {"advance", "advance_warned"}
    BY <1>3, <1>9, <2>2 DEF WriteOutcome
  <2> QED BY <2>1, <2>2
<1>10. CASE LeaseLost(w)
  BY <1>4, <1>10 DEF LeaseLost, AtRenewal, Working, InStep
<1>11. CASE ReleaseForRetry(w)
  BY <1>3, <1>11 DEF ReleaseForRetry
<1>12. CASE StepError(w)
  BY <1>4, <1>12 DEF StepError, Working, InStep
<1>13. CASE Crash(w)
  BY <1>3, <1>13 DEF Crash
<1> QED BY <1>5, <1>6, <1>7, <1>8, <1>9, <1>10, <1>11, <1>12, <1>13

LEMMA WorkerSteps ==
  ASSUME Consistent, Next
  PROVE  WorkersChange
<1>1. ASSUME NEW w \in Workers, WorkerStep(w) \/ StepError(w) \/ Crash(w)
      PROVE  WorkersChange
  BY <1>1, StepMoves, QueueMoves DEF WorkerStep, StepAction
<1>2. CASE Tick
  BY <1>2, WorkersUnchanged DEF Tick
<1>3. ASSUME NEW s \in Submissions,
             \/ Submit(s) \/ ManualRetry(s) \/ SwitchResume(s) \/ Reassess(s)
             \/ HrExtracts(s) \/ ScreeningStep(s) \/ ScreeningRequeued(s)
      PROVE  WorkersChange
  BY <1>3, WorkersUnchanged
     DEF Submit, ManualRetry, SwitchResume, Reassess, HrExtracts, ScreeningStep,
         ScreeningWorkerStep, ScreeningStarts, ScreeningStopped, ScreeningEnds,
         ScreeningPauses, ScreeningResumes, ScreeningRequeued
<1>4. ASSUME NEW j \in Jobs, ToggleJob(j)
      PROVE  WorkersChange
  BY <1>4, WorkersUnchanged DEF ToggleJob
<1> QED BY <1>1, <1>2, <1>3, <1>4 DEF Next
-----------------------------------------------------------------------------
(* What a step does to the rest of the state *)

\* Which actions touch which variable.
LEMMA Frames ==
  ASSUME Next
  PROVE  /\ \/ UNCHANGED tx
            \/ Tick
            \/ \E w \in Workers : ClaimSelect(w) \/ ClaimCommit(w) \/ Crash(w)
         /\ \/ UNCHANGED resume
            \/ \E w \in Workers : ExtractText(w) \/ StructureResume(w)
            \/ \E s \in Submissions : HrExtracts(s)
         /\ UNCHANGED current \/ \E s \in Submissions : Submit(s) \/ SwitchResume(s)
         /\ UNCHANGED jobOpen \/ \E j \in Jobs : ToggleJob(j)
         /\ \/ UNCHANGED scr
            \/ \E w \in Workers : TriggerScreening(w)
            \/ \E s \in Submissions : \/ SwitchResume(s) \/ Reassess(s) \/ HrExtracts(s)
                                      \/ ScreeningStep(s) \/ ScreeningRequeued(s)
         /\ UNCHANGED hrLeft \/ HrAction
         /\ UNCHANGED faultsLeft \/ (faultsLeft > 0 /\ faultsLeft' = faultsLeft - 1)
<1>1. ASSUME NEW w \in Workers, WorkerStep(w) \/ StepError(w) \/ Crash(w)
      PROVE  /\ \/ UNCHANGED tx
                \/ \E v \in Workers : ClaimSelect(v) \/ ClaimCommit(v) \/ Crash(v)
             /\ \/ UNCHANGED resume
                \/ \E v \in Workers : ExtractText(v) \/ StructureResume(v)
             /\ UNCHANGED <<current, jobOpen, hrLeft>>
             /\ UNCHANGED scr \/ \E v \in Workers : TriggerScreening(v)
             /\ UNCHANGED faultsLeft \/ (faultsLeft > 0 /\ faultsLeft' = faultsLeft - 1)
  BY <1>1
  DEF WorkerStep, ClaimSelect, ClaimCommit, RenewAndRead, RenewBeforeStructure, ReadText,
      ExtractText, StructureResume, ReadBeforeTrigger, TriggerScreening,
      ReadBeforeAwait, AwaitScreening, WriteOutcome, LeaseLost, ReleaseForRetry,
      StepError, Crash, env
<1>2. CASE Tick
  BY <1>2 DEF Tick, env
<1>3. ASSUME NEW s \in Submissions, Submit(s) \/ ManualRetry(s)
      PROVE  /\ UNCHANGED <<tx, resume, jobOpen, scr, hrLeft, faultsLeft>>
             /\ UNCHANGED current \/ Submit(s)
  BY <1>3 DEF Submit, ManualRetry, env
<1>4. ASSUME NEW s \in Submissions, SwitchResume(s) \/ Reassess(s)
      PROVE  /\ UNCHANGED <<tx, resume, jobOpen, faultsLeft>> /\ HrAction
             /\ UNCHANGED current \/ SwitchResume(s)
  BY <1>4 DEF SwitchResume, Reassess
<1>5. ASSUME NEW s \in Submissions, ScreeningStep(s) \/ ScreeningRequeued(s)
      PROVE  /\ UNCHANGED <<tx, resume, jobOpen, current, hrLeft>>
             /\ UNCHANGED faultsLeft \/ (faultsLeft > 0 /\ faultsLeft' = faultsLeft - 1)
  BY <1>5 DEF ScreeningStep, ScreeningWorkerStep, ScreeningStarts, ScreeningStopped,
              ScreeningEnds, ScreeningPauses, ScreeningResumes, ScreeningRequeued
<1>6. ASSUME NEW j \in Jobs, ToggleJob(j)
      PROVE  UNCHANGED <<tx, resume, current, scr, faultsLeft>> /\ HrAction
  BY <1>6 DEF ToggleJob
<1>7. ASSUME NEW s \in Submissions, HrExtracts(s)
      PROVE  UNCHANGED <<tx, jobOpen, current, faultsLeft>> /\ HrAction
  BY <1>7 DEF HrExtracts
<1> QED BY <1>1, <1>2, <1>3, <1>4, <1>5, <1>6, <1>7 DEF Next

LEMMA WorkersSubmission ==
  ASSUME Consistent, NEW w \in Workers, wk[w].pc # "idle"
  PROVE  /\ wk[w].run \in RunIds /\ run[wk[w].run] \in Row
         /\ run[wk[w].run].status # "absent"
         /\ run[wk[w].run].sub \in Submissions
         /\ current[run[wk[w].run].sub] \in Resumes
<1>1. /\ wk[w].run \in RunIds /\ run[wk[w].run] \in Row
      /\ run[wk[w].run].status # "absent"
  BY DEF Consistent, TypeOK, WorkersBusyWithRows
<1>2. run[wk[w].run].sub \in Submissions
  BY <1>1 DEF Consistent, RowsExist, Row
<1>3. current[run[wk[w].run].sub] \in Resumes \cup {"none"}
  BY <1>2 DEF Consistent, TypeOK
<1>4. current[run[wk[w].run].sub] # "none"
  BY <1>1 DEF Consistent, RowsExist
<1> QED BY <1>1, <1>2, <1>3, <1>4

LEMMA TxSteps ==
  ASSUME Consistent, Next
  PROVE  /\ tx' \in [Workers -> Claim]
         /\ \A w \in Workers :
              wk[w].pc = "claiming" /\ wk'[w].pc = "claiming"
                => tx'[w].recovered = tx[w].recovered
<1>0. /\ tx \in [Workers -> Claim] /\ wk \in [Workers -> Worker]
      /\ NoClaim \in Claim
  BY Bounds DEF Consistent, TypeOK, NoClaim, Claim
<1>1. CASE UNCHANGED tx
  BY <1>0, <1>1
<1>2. CASE Tick
  <2>1. ASSUME NEW w \in Workers
        PROVE  tx'[w] \in Claim /\ tx'[w].recovered = tx[w].recovered
    <3>1. CASE wk[w].pc = "claiming" /\ tx[w].age <= LeaseTerm
      <4>1. tx'[w] = [tx[w] EXCEPT !.age = @ + 1]
        BY <1>2, <3>1 DEF Tick
      <4>2. tx[w] \in Claim /\ tx[w].age + 1 \in 0..LeaseTerm + 1
        BY <1>0, <3>1, Bounds DEF Claim
      <4> QED BY <4>1, <4>2 DEF Claim
    <3>2. CASE ~(wk[w].pc = "claiming" /\ tx[w].age <= LeaseTerm)
      BY <1>0, <1>2, <3>2 DEF Tick
    <3> QED BY <3>1, <3>2
  <2>2. tx' \in [Workers -> Claim]
    BY <1>2, <2>1 DEF Tick
  <2> QED BY <2>1, <2>2
<1>3. ASSUME NEW w \in Workers, ClaimSelect(w)
      PROVE  /\ tx' \in [Workers -> Claim]
             /\ wk[w].pc = "idle" /\ \A v \in Workers \ {w} : tx'[v] = tx[v]
  <2> DEFINE new == [recovered |-> {r \in RunIds : NeedsRecovery(run[r])}, age |-> 0]
  <2>1. new \in Claim
    BY Bounds DEF Claim
  <2>2. tx' = tx \/ tx' = [tx EXCEPT ![w] = new]
    BY <1>3 DEF ClaimSelect
  <2> HIDE DEF new
  <2>3. wk[w].pc = "idle"
    BY <1>3 DEF ClaimSelect
  <2> QED BY <1>0, <2>1, <2>2, <2>3
<1>4. ASSUME NEW w \in Workers, ClaimCommit(w) \/ Crash(w)
      PROVE  /\ tx' \in [Workers -> Claim] /\ wk'[w].pc # "claiming"
             /\ \A v \in Workers \ {w} : tx'[v] = tx[v]
  <2>1. tx' = [tx EXCEPT ![w] = NoClaim]
    BY <1>4 DEF ClaimCommit, Crash
  <2>2. \/ wk' = [wk EXCEPT ![w] = Idle]
        \/ wk' = [wk EXCEPT ![w].pc = "renew"]
    BY <1>4 DEF ClaimCommit, Crash
  <2>3. wk'[w].pc # "claiming"
    BY <1>0, <2>2, IdleMove, PcMove
  <2> QED BY <1>0, <2>1, <2>3
<1>5. (\E w \in Workers : ClaimSelect(w) \/ ClaimCommit(w) \/ Crash(w)) \/ Tick \/ UNCHANGED tx
  BY Frames
<1> QED BY <1>1, <1>2, <1>3, <1>4, <1>5

LEMMA ResumeSteps ==
  ASSUME Consistent, Next
  PROVE  /\ resume' \in [Submissions -> [text : BOOLEAN, draft : BOOLEAN]]
         /\ \A s \in Submissions : resume[s].draft => resume'[s].draft
<1>1. resume \in [Submissions -> [text : BOOLEAN, draft : BOOLEAN]]
  BY DEF Consistent, TypeOK
<1>2. CASE UNCHANGED resume
  BY <1>1, <1>2
<1>3. ASSUME NEW w \in Workers, ExtractText(w)
      PROVE  /\ resume' \in [Submissions -> [text : BOOLEAN, draft : BOOLEAN]]
             /\ \A s \in Submissions : resume[s].draft => resume'[s].draft
  <2> DEFINE s == run[wk[w].run].sub
  <2>1. PICK ok \in BOOLEAN : resume' = [resume EXCEPT ![s].text = ok]
    BY <1>3 DEF ExtractText
  <2>2. /\ \A t \in Submissions : [resume[t] EXCEPT !.text = ok]
                                  \in [text : BOOLEAN, draft : BOOLEAN]
        /\ \A t \in Submissions : [resume[t] EXCEPT !.text = ok].draft = resume[t].draft
    BY <1>1
  <2>3. /\ resume' \in [Submissions -> [text : BOOLEAN, draft : BOOLEAN]]
        /\ \A t \in Submissions : resume'[t].draft = resume[t].draft
    <3> HIDE DEF s
    <3> QED BY <1>1, <2>1, <2>2
  <2> QED BY <2>3
<1>4. ASSUME NEW w \in Workers, StructureResume(w)
      PROVE  /\ resume' \in [Submissions -> [text : BOOLEAN, draft : BOOLEAN]]
             /\ \A s \in Submissions : resume[s].draft => resume'[s].draft
  <2>1. \/ UNCHANGED resume
        \/ resume' = [resume EXCEPT ![run[wk[w].run].sub].draft = TRUE]
    BY <1>4 DEF StructureResume
  <2> QED BY <1>1, <2>1
<1>5. ASSUME NEW s \in Submissions, HrExtracts(s)
      PROVE  /\ resume' \in [Submissions -> [text : BOOLEAN, draft : BOOLEAN]]
             /\ \A t \in Submissions : resume[t].draft => resume'[t].draft
  <2>1. \/ UNCHANGED resume
        \/ resume' = [resume EXCEPT ![s].text = TRUE]
    BY <1>5 DEF HrExtracts
  <2> QED BY <1>1, <2>1
<1> QED BY <1>2, <1>3, <1>4, <1>5, Frames

LEMMA CurrentSteps ==
  ASSUME Consistent, Next
  PROVE  /\ current' \in [Submissions -> Resumes \cup {"none"}]
         /\ \A s \in Submissions : current[s] # "none" => current'[s] # "none"
<1>1. current \in [Submissions -> Resumes \cup {"none"}]
  BY DEF Consistent, TypeOK
<1>2. ASSUME NEW s \in Submissions, NEW which \in Resumes,
             current' = [current EXCEPT ![s] = which]
      PROVE  /\ current' \in [Submissions -> Resumes \cup {"none"}]
             /\ \A t \in Submissions : current[t] # "none" => current'[t] # "none"
  BY <1>1, <1>2 DEF Resumes
<1>3. \/ UNCHANGED current
      \/ \E s \in Submissions, which \in Resumes : current' = [current EXCEPT ![s] = which]
  BY Frames DEF Submit, SwitchResume
<1> QED BY <1>1, <1>2, <1>3

LEMMA SetScrStatus ==
  \A a \in Screening :
    \A x \in {"none", "succeeded", "failed"} \cup ScreeningOpen :
      [a EXCEPT !.status = x] \in Screening
BY DEF Screening

LEMMA SetScrOf == \A a \in Screening : \A x \in Resumes : [a EXCEPT !.of = x] \in Screening
BY DEF Screening

LEMMA SetScrValid ==
  \A a \in Screening : \A x \in Resumes \cup {"none"} : [a EXCEPT !.valid = x] \in Screening
BY DEF Screening

LEMMA SetScrReports ==
  \A a \in Screening : \A x \in SUBSET Resumes : [a EXCEPT !.reports = x] \in Screening
BY DEF Screening

\* The screening state of one application becomes new; nothing it had is forgotten,
\* but for the validity of its report.
ScrBecomes(s, new) ==
  /\ new \in Screening
  /\ scr' = [scr EXCEPT ![s] = new]
  /\ new.status # "none" \/ new.status = scr[s].status
  /\ scr[s].reports \subseteq new.reports
  /\ new.status # "none" => current[s] # "none"
  /\ new.status = "succeeded" => scr[s].status = "succeeded" \/ new.reports # {}
  /\ \/ new.valid = "none" \/ new.valid = scr[s].valid
     \/ new.status # "none" /\ new.valid \in new.reports

\* The statuses a run may start in, and what they are not.
LEMMA Startable ==
  ASSUME NEW s \in Submissions
  PROVE  /\ StartsAs(s) \subseteq Unready \cup {"queued"}
         /\ Unready \cup {"queued", "running", "paused"} \subseteq ScreeningOpen
         /\ \A status \in ScreeningOpen : status \notin {"none", "succeeded", "failed"}
BY DEF StartsAs, Unready, ScreeningOpen, ScreeningWaiting

LEMMA NewScreeningIs ==
  ASSUME Consistent, NEW s \in Submissions, current[s] # "none",
         NEW status \in ScreeningOpen, NEW valid \in {scr[s].valid, "none"}
  PROVE  /\ NewScreening(s, status, valid) \in Screening
         /\ NewScreening(s, status, valid).status = status
         /\ NewScreening(s, status, valid).of = current[s]
         /\ NewScreening(s, status, valid).valid = valid
         /\ NewScreening(s, status, valid).reports = scr[s].reports
<1> DEFINE one == [scr[s] EXCEPT !.status = status]
           two == [one EXCEPT !.of = current[s]]
           new == [two EXCEPT !.valid = valid]
<1>1. scr[s] \in Screening /\ current[s] \in Resumes
  BY DEF Consistent, TypeOK
<1>2. one \in Screening
  BY <1>1, SetScrStatus
<1>3. two \in Screening
  <2> HIDE DEF one
  <2> QED BY <1>1, <1>2, SetScrOf
<1>4. valid \in Resumes \cup {"none"}
  BY <1>1 DEF Screening
<1>5. new \in Screening
  <2> HIDE DEF two
  <2> QED BY <1>3, <1>4, SetScrValid
<1>6. NewScreening(s, status, valid) = new
  BY DEF NewScreening
<1>7. /\ new.status = status /\ new.of = current[s] /\ new.valid = valid
      /\ new.reports = scr[s].reports
  BY <1>1 DEF Screening
<1> QED BY <1>5, <1>6, <1>7

LEMMA QueuedScreening ==
  ASSUME Consistent, NEW s \in Submissions, current[s] # "none",
         NEW status \in ScreeningOpen, NEW valid \in {scr[s].valid, "none"},
         scr' = [scr EXCEPT ![s] = NewScreening(s, status, valid)]
  PROVE  ScrBecomes(s, scr'[s])
<1>1. scr \in [Submissions -> Screening]
  BY DEF Consistent, TypeOK
<1>2. scr'[s] = NewScreening(s, status, valid)
  BY <1>1
<1>3. status \notin {"none", "succeeded"}
  BY Startable
<1> DEFINE new == NewScreening(s, status, valid)
<1>4. /\ new \in Screening /\ new.status = status /\ new.valid = valid
      /\ new.reports = scr[s].reports
  BY NewScreeningIs
<1>5. scr' = [scr EXCEPT ![s] = new] /\ scr'[s] = new
  BY <1>2
<1> HIDE DEF new
<1> QED BY <1>3, <1>4, <1>5 DEF ScrBecomes

LEMMA ScrSteps ==
  ASSUME Consistent, Next
  PROVE  UNCHANGED scr \/ \E s \in Submissions : ScrBecomes(s, scr'[s])
<1>1. scr \in [Submissions -> Screening]
  BY DEF Consistent, TypeOK
<1>2. ASSUME NEW s \in Submissions, NEW status \in {"failed"} \cup ScreeningOpen,
             scr' = [scr EXCEPT ![s].status = status], scr[s].status # "none"
      PROVE  ScrBecomes(s, scr'[s])
  <2> DEFINE new == [scr[s] EXCEPT !.status = status]
  <2>1. new \in Screening
    BY <1>1, SetScrStatus
  <2>2. new.status = status /\ new.reports = scr[s].reports /\ new.valid = scr[s].valid
    BY <1>1 DEF Screening
  <2>3. scr' = [scr EXCEPT ![s] = new]
    BY <1>2
  <2>4. current[s] # "none"
    BY <1>2 DEF Consistent, ScreenedApplications
  <2>5. scr'[s] = new
    <3> HIDE DEF new
    <3> QED BY <1>1, <2>3
  <2>6. status \notin {"none", "succeeded"}
    BY Startable
  <2> HIDE DEF new
  <2> QED BY <2>1, <2>2, <2>3, <2>4, <2>5, <2>6 DEF ScrBecomes
<1>3. ASSUME NEW s \in Submissions, NEW valid \in {scr[s].valid, "none"},
             scr' = [scr EXCEPT ![s].valid = valid], current[s] # "none"
      PROVE  ScrBecomes(s, scr'[s])
  <2> DEFINE new == [scr[s] EXCEPT !.valid = valid]
  <2>1. valid \in Resumes \cup {"none"}
    BY <1>1 DEF Screening
  <2>2. new \in Screening
    BY <1>1, <2>1, SetScrValid
  <2>3. new.status = scr[s].status /\ new.reports = scr[s].reports /\ new.valid = valid
    BY <1>1 DEF Screening
  <2>4. scr' = [scr EXCEPT ![s] = new]
    BY <1>3
  <2>5. scr'[s] = new
    <3> HIDE DEF new
    <3> QED BY <1>1, <2>4
  <2> HIDE DEF new
  <2> QED BY <1>3, <2>2, <2>3, <2>4, <2>5 DEF ScrBecomes
<1>4. ASSUME NEW w \in Workers, TriggerScreening(w)
      PROVE  UNCHANGED scr \/ \E s \in Submissions : ScrBecomes(s, scr'[s])
  <2> DEFINE s == run[wk[w].run].sub
  <2>1. s \in Submissions /\ current[s] # "none"
    BY <1>4, WorkersSubmission DEF TriggerScreening, At, Resumes
  <2>2. \/ UNCHANGED scr
        \/ \E valid \in {scr[s].valid, "none"} : scr' = [scr EXCEPT ![s].valid = valid]
        \/ \E status \in StartsAs(s), valid \in {scr[s].valid, "none"} :
             scr' = [scr EXCEPT ![s] = NewScreening(s, status, valid)]
    BY <1>4 DEF TriggerScreening
  <2> HIDE DEF s
  <2> QED BY <1>3, <2>1, <2>2, QueuedScreening, Startable
<1>5. ASSUME NEW s \in Submissions, SwitchResume(s)
      PROVE  ScrBecomes(s, scr'[s])
  <2> DEFINE status == IF scr[s].status \in NotStarted THEN "failed" ELSE scr[s].status
             one == [scr[s] EXCEPT !.valid = "none"]
             new == [one EXCEPT !.status = status]
  <2>1. scr' = [scr EXCEPT ![s] = new]
    BY <1>1, <1>5 DEF SwitchResume, Screening
  <2>2. one \in Screening
    BY <1>1, SetScrValid
  <2>3. status \in {"none", "succeeded", "failed"} \cup ScreeningOpen
    BY <1>1 DEF Screening
  <2>4. new \in Screening
    <3> HIDE DEF one, status
    <3> QED BY <2>2, <2>3, SetScrStatus
  <2>5. /\ new.status = status /\ new.reports = scr[s].reports /\ new.valid = "none"
    BY <1>1 DEF Screening
  <2>6. scr'[s] = new
    <3> HIDE DEF new
    <3> QED BY <1>1, <2>1
  <2>7. /\ status # "none" \/ status = scr[s].status
        /\ status = "succeeded" => scr[s].status = "succeeded"
    OBVIOUS
  <2>8. current[s] # "none"
    BY <1>5 DEF SwitchResume
  <2> HIDE DEF new, status
  <2> QED BY <2>1, <2>4, <2>5, <2>6, <2>7, <2>8 DEF ScrBecomes
<1>6. ASSUME NEW s \in Submissions, Reassess(s) \/ ScreeningResumes(s)
      PROVE  ScrBecomes(s, scr'[s])
  <2>1. current[s] # "none"
    BY <1>6 DEF Reassess, ScreeningResumes, Consistent, ScreenedApplications
  <2>2. \E status \in StartsAs(s), valid \in {scr[s].valid, "none"} :
          scr' = [scr EXCEPT ![s] = NewScreening(s, status, valid)]
    BY <1>6 DEF Reassess, ScreeningResumes
  <2> QED BY <2>1, <2>2, QueuedScreening, Startable
<1>7. ASSUME NEW s \in Submissions, scr[s].status = "running",
             scr' = [scr EXCEPT ![s].status = "succeeded", ![s].valid = current[s],
                                ![s].reports = @ \cup {current[s]}]
      PROVE  ScrBecomes(s, scr'[s])
  <2> DEFINE reports == scr[s].reports \cup {current[s]}
             one == [scr[s] EXCEPT !.status = "succeeded"]
             two == [one EXCEPT !.valid = current[s]]
             new == [two EXCEPT !.reports = reports]
  <2>1. scr' = [scr EXCEPT ![s] = new]
    BY <1>1, <1>7 DEF Screening
  <2>2. current[s] \in Resumes /\ current[s] # "none"
    BY <1>7 DEF Consistent, TypeOK, ScreenedApplications
  <2>3. one \in Screening
    BY <1>1, SetScrStatus
  <2>4. two \in Screening
    <3> HIDE DEF one
    <3> QED BY <2>2, <2>3, SetScrValid
  <2>5. reports \in SUBSET Resumes
    BY <1>1, <2>2 DEF Screening
  <2>6. new \in Screening
    <3> HIDE DEF two, reports
    <3> QED BY <2>4, <2>5, SetScrReports
  <2>7. /\ new.status = "succeeded" /\ new.valid = current[s]
        /\ new.reports = reports
    BY <1>1 DEF Screening
  <2>8. scr'[s] = new
    <3> HIDE DEF new
    <3> QED BY <1>1, <2>1
  <2> HIDE DEF new
  <2> QED BY <2>1, <2>2, <2>6, <2>7, <2>8 DEF ScrBecomes
<1>8. ASSUME NEW s \in Submissions, ScreeningEnds(s)
      PROVE  ScrBecomes(s, scr'[s])
  BY <1>2, <1>7, <1>8 DEF ScreeningEnds
<1>9. ASSUME NEW s \in Submissions,
             \/ ScreeningStarts(s) \/ ScreeningStopped(s) \/ ScreeningPauses(s)
             \/ ScreeningRequeued(s)
      PROVE  ScrBecomes(s, scr'[s])
  <2>1. \E status \in {"queued", "running", "paused"} :
          scr' = [scr EXCEPT ![s].status = status]
    BY <1>9 DEF ScreeningStarts, ScreeningStopped, ScreeningPauses, ScreeningRequeued
  <2>2. scr[s].status \in ScreeningOpen
    BY <1>9, Startable DEF ScreeningStarts, ScreeningStopped, ScreeningPauses,
                           ScreeningRequeued, NotStarted
  <2> QED BY <1>2, <2>1, <2>2, Startable
<1>10. ASSUME NEW s \in Submissions, HrExtracts(s)
       PROVE  UNCHANGED scr \/ ScrBecomes(s, scr'[s])
  <2>1. \/ UNCHANGED scr
        \/ /\ scr[s].status = "waiting_resume"
           /\ \E status \in Unready \cup {"queued", "running", "paused"} :
                scr' = [scr EXCEPT ![s].status = status]
    BY <1>10 DEF HrExtracts, Unready
  <2> QED BY <1>2, <2>1, Startable
<1> QED BY <1>4, <1>5, <1>6, <1>8, <1>9, <1>10, Frames DEF ScreeningStep, ScreeningWorkerStep
-----------------------------------------------------------------------------
(* Consistent is inductive *)

\* A row that exists goes on existing, for the same submission.
LEMMA RowKept ==
  ASSUME Consistent, RowsChange, NEW r \in RunIds, run[r].status # "absent"
  PROVE  /\ run'[r] \in Row /\ run'[r].status # "absent" /\ run'[r].sub = run[r].sub
         /\ ~Inserted(r)
<1>1. run[r] \in Row /\ run'[r] \in Row
  BY DEF Consistent, TypeOK, RowsChange
<1>2. ~Inserted(r)
  BY DEF Inserted, Consistent, TypeOK, RowsExist, RunIds
<1> SUFFICES run'[r].status # "absent" /\ run'[r].sub = run[r].sub
  BY <1>1, <1>2
<1>3. CASE run'[r] = run[r]
  BY <1>1, <1>3
<1>4. CASE Ticked(r)
  BY <1>1, <1>4, AgedRow DEF Ticked
<1>5. CASE Renewed(r)
  BY <1>1, <1>5, RenewedRow DEF Renewed
<1>6. CASE RecoveredNow(r)
  BY <1>1, <1>6, RecoveredRow DEF RecoveredNow
<1>7. CASE ClaimedNow(r)
  BY <1>1, <1>7, ClaimedRowNow DEF ClaimedNow
<1>8. CASE WrittenNow(r)
  <2>1. PICK w \in Workers : run'[r] = Written(run[r], wk[w].out)
    BY <1>8 DEF WrittenNow
  <2>2. wk[w].out \in Outs
    BY DEF Consistent, TypeOK, Worker
  <2> QED BY <1>1, <2>1, <2>2, WrittenRow
<1>9. CASE ReleasedNow(r)
  BY <1>1, <1>9, ReleasedRow DEF ReleasedNow
<1> QED BY <1>1, <1>2, <1>3, <1>4, <1>5, <1>6, <1>7, <1>8, <1>9 DEF RowsChange, RowStep

\* A row that does not exist stays so or is inserted.
LEMMA RowAbsent ==
  ASSUME Consistent, RowsChange, NEW r \in RunIds, run[r].status = "absent"
  PROVE  run'[r] = run[r] \/ Inserted(r)
<1>1. ~Ticked(r) /\ ~ReleasedNow(r) /\ ~Renewed(r) /\ ~RecoveredNow(r)
  BY DEF Ticked, ReleasedNow, Renewed, Owned, RecoveredNow, NeedsRecovery, Expired
<1>2. ~ClaimedNow(r)
  BY DEF ClaimedNow, Consistent, WorkersBusyWithRows
<1>3. ~WrittenNow(r)
  BY DEF WrittenNow, Writable, Owned
<1> QED BY <1>1, <1>2, <1>3 DEF RowsChange, RowStep

LEMMA InsertedRow ==
  ASSUME Consistent, RowsChange, NEW r \in RunIds, Inserted(r)
  PROVE  /\ run[r].status = "absent"
         /\ run'[r] \in Row /\ run'[r].status = "queued" /\ run'[r].reason = "none"
         /\ run'[r].owner = NoWorker /\ (RowConstraints => run'[r].step # "completed")
         /\ run'[r].sub \in Submissions /\ current'[run'[r].sub] # "none"
<1>1. run[r].status = "absent"
  BY DEF Inserted, Consistent, TypeOK, RowsExist, RunIds
<1>2. PICK s \in Submissions, step \in Steps, warned \in BOOLEAN :
        /\ run'[r] = NewRow(s, step, warned) /\ current'[s] # "none"
        /\ \/ step = "extract_text"
           \/ \E previous \in RunIds :
                /\ run[previous].status \in {"failed", "paused"}
                /\ step = RetryStep(run[previous])
  BY DEF Inserted
<1>3. RowConstraints => step # "completed"
  BY <1>2 DEF RowConstraints, RowAllowed, RetryStep, Success
<1> QED BY <1>1, <1>2, <1>3, NewRowIsRow

\* Rows an open claim has locked exist, and nobody holds a live lease on them.
LEMMA HeldRows ==
  ASSUME Consistent, NEW w \in Workers, wk[w].pc = "claiming", NEW r \in Held(w)
  PROVE  /\ r \in RunIds /\ run[r].status # "absent"
         /\ ~(run[r].status = "running" /\ run[r].left >= 0)
<1>1. wk[w].run \in RunIds /\ run[wk[w].run].status # "absent"
  BY DEF Consistent, WorkersBusyWithRows
<1>2. tx[w].recovered \subseteq RunIds
  BY DEF Consistent, TypeOK, Claim
<1>3. CASE r \in tx[w].recovered
  <2>1. r \in RunIds /\ NeedsRecovery(run[r])
    BY <1>2, <1>3 DEF Consistent, ClaimsSound, ClaimSound
  <2>2. run[r].left \in -1..LeaseTerm
    BY <2>1 DEF Consistent, TypeOK, Row
  <2> QED BY <2>1, <2>2, Bounds DEF NeedsRecovery, Expired
<1>4. CASE r = wk[w].run /\ r \notin tx[w].recovered
  <2>1. RowToClaim(w) = run[r]
    BY <1>1, <1>4 DEF RowToClaim, AfterRecovery
  <2> QED BY <1>1, <1>4, <2>1 DEF Consistent, ClaimsSound, ClaimSound
<1> QED BY <1>3, <1>4 DEF Held

\* While a claim is open nobody else changes what it has locked.
LEMMA LocksHold ==
  ASSUME Consistent, RowsChange, NEW w \in Workers,
         wk[w].pc = "claiming", wk'[w].pc = "claiming", NEW r \in Held(w)
  PROVE  run'[r] = run[r]
<1>1. /\ r \in RunIds /\ run[r].status # "absent"
      /\ ~(run[r].status = "running" /\ run[r].left >= 0)
  BY HeldRows
<1>2. ~Ticked(r) /\ ~Renewed(r) /\ ~WrittenNow(r)
  BY <1>1 DEF Ticked, Renewed, WrittenNow, Writable, Owned
<1>3. ~RecoveredNow(r)
  BY LockedRows DEF RecoveredNow
<1>4. ~ClaimedNow(r)
  BY DEF ClaimedNow, Consistent, ClaimsApart, Held
<1>5. ~ReleasedNow(r)
  BY LockedRows DEF ReleasedNow, Unblocked
<1>6. ~Inserted(r)
  BY <1>1, RowKept
<1> QED BY <1>1, <1>2, <1>3, <1>4, <1>5, <1>6 DEF RowsChange, RowStep

LEMMA TypesKept ==
  ASSUME Consistent, Next, RowsChange, WorkersChange
  PROVE  TypeOK'
<1>1. created' \in 0..MaxRuns
  BY Bounds DEF RowsChange, Inserted, Consistent, TypeOK, RunIds
<1>2. jobOpen' \in [Jobs -> BOOLEAN]
  <2>1. UNCHANGED jobOpen \/ \E j \in Jobs : jobOpen' = [jobOpen EXCEPT ![j] = ~@]
    BY Frames DEF ToggleJob
  <2> QED BY <2>1, Zenon DEF Consistent, TypeOK
<1>3. scr' \in [Submissions -> Screening]
  BY ScrSteps DEF ScrBecomes, Consistent, TypeOK
<1>4. hrLeft' \in Nat /\ faultsLeft' \in Nat
  BY Frames DEF HrAction, Consistent, TypeOK
<1> QED BY <1>1, <1>2, <1>3, <1>4, TxSteps, CurrentSteps, ResumeSteps
        DEF TypeOK, RowsChange, WorkersChange

LEMMA RowsExistKept ==
  ASSUME Consistent, Next, RowsChange
  PROVE  RowsExist'
<1> SUFFICES ASSUME NEW r \in RunIds
             PROVE  /\ run'[r].status = "absent" <=> r > created'
                    /\ run'[r].status = "absent" <=> run'[r].sub = NoSubmission
                    /\ run'[r].status = "absent" => run'[r].step = "extract_text"
                    /\ run'[r].status # "absent" => current'[run'[r].sub] # "none"
  BY DEF RowsExist
<1>1. /\ run[r].status = "absent" <=> r > created
      /\ run[r].status = "absent" <=> run[r].sub = NoSubmission
      /\ run[r].status = "absent" => run[r].step = "extract_text"
      /\ run[r].status # "absent" => current[run[r].sub] # "none"
      /\ run[r] \in Row /\ created \in Nat /\ r \in Nat
  BY Bounds DEF Consistent, RowsExist, TypeOK, RunIds
<1>2. created' = created \/ created' = created + 1
  BY DEF RowsChange, Inserted
<1>3. CASE run[r].status # "absent"
  <2>1. run'[r].status # "absent" /\ run'[r].sub = run[r].sub
    BY <1>3, RowKept
  <2>2. run[r].sub \in Submissions
    BY <1>1, <1>3 DEF Row
  <2>3. current'[run'[r].sub] # "none"
    BY <1>1, <1>3, <2>1, <2>2, CurrentSteps
  <2> QED BY <1>1, <1>2, <1>3, <2>1, <2>3
<1>4. CASE Inserted(r)
  <2>1. /\ run'[r].status = "queued" /\ run'[r].sub \in Submissions
        /\ current'[run'[r].sub] # "none"
    BY <1>4, InsertedRow
  <2>2. ~(r > created')
    BY <1>1, <1>4 DEF Inserted
  <2> QED BY <2>1, <2>2, ConstantsOK
<1>5. CASE run[r].status = "absent" /\ ~Inserted(r)
  <2>1. run'[r] = run[r]
    BY <1>5, RowAbsent
  <2>2. created' = created \/ (created' = created + 1 /\ r # created + 1)
    BY <1>2, <1>5 DEF RowsChange
  <2>3. r > created'
    BY <1>1, <1>5, <2>2
  <2> QED BY <1>1, <1>5, <2>1, <2>3
<1> QED BY <1>3, <1>4, <1>5

\* What a claim's SELECT may return.
LEMMA Selected ==
  ASSUME Consistent, NEW w \in Workers, ClaimSelect(w), wk'[w].pc = "claiming"
  PROVE  /\ UNCHANGED run
         /\ \A v \in Workers \ {w} : wk'[v] = wk[v] /\ tx'[v] = tx[v]
         /\ \A r \in tx'[w].recovered : NeedsRecovery(run[r])
         /\ wk'[w].run \in RunIds
         /\ Claimable(AfterRecovery(tx[w].recovered)', wk'[w].run)
         /\ \A r \in Held(w)' : r \notin Locked(w)
<1>1. wk \in [Workers -> Worker] /\ tx \in [Workers -> Claim]
  BY DEF Consistent, TypeOK
<1> DEFINE recovered == {r \in RunIds : NeedsRecovery(run[r])}
<1>2. PICK r \in RunIds :
        /\ r \notin Locked(w) /\ Claimable(AfterRecovery(recovered), r)
        /\ wk' = [wk EXCEPT ![w] = [Idle EXCEPT !.pc = "claiming", !.run = r]]
        /\ tx' = [tx EXCEPT ![w] = [recovered |-> recovered, age |-> 0]]
        /\ UNCHANGED run
  <2> HIDE DEF recovered
  <2>1. wk' # wk
    BY DEF ClaimSelect
  <2> QED BY <2>1 DEF ClaimSelect, recovered
<1>3. Becomes(w, wk'[w]) /\ wk'[w].run = r
  BY <1>1, <1>2, ClaimMove
<1>4. tx'[w].recovered = recovered /\ \A v \in Workers \ {w} : tx'[v] = tx[v]
  <2> HIDE DEF recovered
  <2> QED BY <1>1, <1>2
<1>5. recovered \cap Locked(w) = {}
  BY DEF ClaimSelect
<1>6. \A q \in tx'[w].recovered : NeedsRecovery(run[q])
  BY <1>4
<1> HIDE DEF recovered
<1>7. \A q \in Held(w)' : q \notin Locked(w)
  BY <1>2, <1>3, <1>4, <1>5 DEF Held
<1>8. AfterRecovery(tx[w].recovered)' = AfterRecovery(recovered)
  BY <1>2, <1>4 DEF AfterRecovery
<1> QED BY <1>2, <1>3, <1>4, <1>6, <1>7, <1>8 DEF Becomes

LEMMA BusyKept ==
  ASSUME Consistent, Next, RowsChange, WorkersChange
  PROVE  WorkersBusyWithRows'
<1> SUFFICES ASSUME NEW w \in Workers, wk'[w].pc # "idle"
             PROVE  wk'[w].run \in RunIds /\ run'[wk'[w].run].status # "absent"
  BY DEF WorkersBusyWithRows
<1>1. CASE wk[w].pc # "idle" /\ wk'[w].run = wk[w].run
  BY <1>1, RowKept DEF Consistent, WorkersBusyWithRows
<1>2. CASE ClaimSelect(w) /\ wk'[w].pc = "claiming"
  <2> DEFINE r == wk'[w].run
             rows == AfterRecovery(tx[w].recovered)'
  <2>1. r \in RunIds /\ Claimable(rows, r) /\ UNCHANGED run
    BY <1>2, Selected
  <2>2. rows[r].status # "absent"
    BY <2>1 DEF Claimable
  <2>3. rows[r] = run[r] \/ (rows[r] = Recovered(run[r]) /\ NeedsRecovery(run[r]))
    BY <1>2, <2>1, Selected DEF AfterRecovery
  <2>4. run[r].status # "absent"
    BY <2>2, <2>3 DEF NeedsRecovery, Expired
  <2> QED BY <2>1, <2>4
<1>3. \/ wk'[w] = wk[w]
      \/ wk[w].pc # "idle" /\ wk'[w].run = wk[w].run
      \/ ClaimSelect(w) /\ wk'[w].pc = "claiming"
  BY DEF WorkersChange, WorkerMove, InStep, Working
<1> QED BY <1>1, <1>2, <1>3

LEMMA NewClaim ==
  ASSUME Consistent, NEW w \in Workers, ClaimSelect(w), wk'[w].pc = "claiming"
  PROVE  ClaimsApart' /\ ClaimsSound'
<1>1. ASSUME NEW x \in Workers \ {w}, wk'[x].pc = "claiming"
      PROVE  Held(x)' = Held(x) /\ wk[x].pc = "claiming" /\ Held(x)' \cap Held(w)' = {}
  <2>1. Held(x)' = Held(x) /\ wk[x].pc = "claiming"
    BY <1>1, Selected DEF Held
  <2>2. \A r \in Held(w)' : r \notin Held(x)
    BY <2>1, Selected, LockedRows
  <2> QED BY <2>1, <2>2
<1>2. ASSUME NEW u \in Workers, NEW v \in Workers, u # v,
             wk'[u].pc = "claiming", wk'[v].pc = "claiming"
      PROVE  Held(u)' \cap Held(v)' = {}
  <2>1. CASE u = w \/ v = w
    BY <1>1, <1>2, <2>1
  <2>2. CASE u # w /\ v # w
    BY <1>1, <1>2, <2>2 DEF Consistent, ClaimsApart
  <2> QED BY <2>1, <2>2
<1>3. ASSUME NEW v \in Workers, wk'[v].pc = "claiming"
      PROVE  ClaimSound(v)'
  <2>1. CASE v = w
    <3>1. \A r \in tx'[v].recovered : NeedsRecovery(run'[r])
      BY <2>1, Selected
    <3>2. Claimable(AfterRecovery(tx[v].recovered)', wk'[v].run)
      BY <2>1, Selected
    <3> QED BY <3>1, <3>2 DEF ClaimSound, RowToClaim, Claimable
  <2>2. CASE v # w
    <3>1. tx'[v] = tx[v] /\ wk'[v] = wk[v] /\ run' = run
      BY <2>2, Selected
    <3>2. RowToClaim(v)' = RowToClaim(v)
      BY <3>1 DEF RowToClaim, AfterRecovery
    <3> QED BY <1>3, <3>1, <3>2 DEF Consistent, ClaimsSound, ClaimSound
  <2> QED BY <2>1, <2>2
<1> QED BY <1>2, <1>3 DEF ClaimsApart, ClaimsSound

LEMMA OldClaims ==
  ASSUME Consistent, Next, RowsChange, WorkersChange,
         \A w \in Workers : wk'[w].pc = "claiming" => wk[w].pc = "claiming"
  PROVE  ClaimsApart' /\ ClaimsSound'
<1>1. ASSUME NEW w \in Workers, wk'[w].pc = "claiming"
      PROVE  /\ wk[w] = wk'[w] /\ tx'[w].recovered = tx[w].recovered
             /\ Held(w)' = Held(w)
             /\ \A r \in Held(w) : run'[r] = run[r]
  <2>1. wk[w].pc = "claiming"
    BY <1>1
  <2>2. wk[w] = wk'[w]
    BY <1>1, <2>1 DEF WorkersChange, WorkerMove, ClaimSelect, InStep
  <2>3. tx'[w].recovered = tx[w].recovered
    BY <1>1, <2>1, TxSteps
  <2> QED BY <1>1, <2>1, <2>2, <2>3, LocksHold DEF Held
<1>2. ClaimsApart'
  BY <1>1 DEF ClaimsApart, Consistent
<1>3. ASSUME NEW w \in Workers, wk'[w].pc = "claiming"
      PROVE  ClaimSound(w)'
  <2>1. wk[w].pc = "claiming" /\ wk[w].run \in Held(w) /\ wk[w].run \in RunIds
    BY <1>1, <1>3 DEF Held, Consistent, WorkersBusyWithRows
  <2>2. \A r \in tx'[w].recovered : NeedsRecovery(run'[r])
    BY <1>1, <1>3, <2>1 DEF Held, Consistent, ClaimsSound, ClaimSound
  <2>3. wk'[w].run = wk[w].run /\ run'[wk[w].run] = run[wk[w].run]
        /\ tx'[w].recovered = tx[w].recovered
    BY <1>1, <1>3, <2>1
  <2>4. RowToClaim(w)' = RowToClaim(w)
    BY <2>1, <2>3 DEF RowToClaim, AfterRecovery
  <2> QED BY <1>3, <2>1, <2>2, <2>4 DEF Consistent, ClaimsSound, ClaimSound
<1>4. ClaimsSound'
  BY <1>3 DEF ClaimsSound
<1> QED BY <1>2, <1>4

LEMMA ConsistentStep ==
  ASSUME Consistent, Next
  PROVE  Consistent'
<1>1. RowsChange /\ WorkersChange
  BY RowSteps, WorkerSteps
<1>2. ClaimsApart' /\ ClaimsSound'
  <2>1. CASE \E w \in Workers : ClaimSelect(w) /\ wk'[w].pc = "claiming"
    BY <2>1, NewClaim
  <2>2. CASE \A w \in Workers : wk'[w].pc = "claiming" => wk[w].pc = "claiming"
    BY <1>1, <2>2, OldClaims
  <2> QED BY <1>1, <2>1, <2>2 DEF WorkersChange, WorkerMove, InStep
<1>3. ScreenedApplications'
  BY ScrSteps, CurrentSteps DEF ScreenedApplications, ScrBecomes, Consistent, TypeOK
<1> QED BY <1>1, <1>2, <1>3, TypesKept, RowsExistKept, BusyKept DEF Consistent

LEMMA ConsistentInit == Init => Consistent
<1> SUFFICES ASSUME Init PROVE Consistent
  OBVIOUS
<1>1. TypeOK
  <2>1. NoClaim \in Claim
    BY Bounds DEF NoClaim, Claim
  <2>2. [status |-> "none", of |-> "own", valid |-> "none", reports |-> {}] \in Screening
    BY DEF Screening, Resumes
  <2> QED BY <2>1, <2>2, AbsentIsRow, IdleIsWorker, Bounds DEF Init, TypeOK
<1>2. RowsExist
  BY Bounds DEF Init, RowsExist, AbsentRow, RunIds
<1>3. \A w \in Workers : wk[w].pc = "idle"
  BY DEF Init, Idle
<1> QED BY <1>1, <1>2, <1>3
        DEF Consistent, WorkersBusyWithRows, ClaimsApart, ClaimsSound, ScreenedApplications,
            Init

LEMMA ConsistentAlways == Spec => []Consistent
<1>1. Consistent /\ UNCHANGED vars => Consistent'
  BY DEF vars, Consistent, TypeOK, RowsExist, WorkersBusyWithRows, ClaimsApart, ClaimsSound,
         ClaimSound, ScreenedApplications, Held, RowToClaim, AfterRecovery
<1> QED BY <1>1, ConsistentInit, ConsistentStep, PTL DEF Spec

\* Every variable keeps its type, for any number of submissions, jobs, workers, attempts
\* and retries and any lease term: the attempts never pass MaxAttempts, the lease never
\* exceeds its term.
THEOREM TypesAlways == Spec => []TypeOK
<1>1. Consistent => TypeOK
  BY DEF Consistent
<1> QED BY <1>1, ConsistentAlways, PTL
-----------------------------------------------------------------------------
(* The CHECKs of the table *)

LEMMA AllowedAfterRecovery ==
  ASSUME NEW row \in Row, RowAllowed(row), NeedsRecovery(row)
  PROVE  RowAllowed(Recovered(row))
<1>1. row.status \in {"running", "queued"} /\ row.reason = "none" /\ row.step # "completed"
  BY DEF NeedsRecovery, Expired, RowAllowed, Success
<1> QED BY <1>1, RecoveredRow DEF RowAllowed, Success

LEMMA AllowedAfterWrite ==
  ASSUME NEW row \in Row, RowAllowed(row), row.status = "running", NEW out \in Outs
  PROVE  RowAllowed(Written(row, out))
<1>1. row.reason = "none" /\ row.step # "completed" /\ row.owner # NoWorker
  BY DEF RowAllowed, Success
<1>2. CASE out \in {"advance", "advance_warned"}
  <2>1. ASSUME NEW warn \in BOOLEAN PROVE RowAllowed(Advanced(row, warn))
    <3>1. /\ Advanced(row, warn).status = "running" /\ Advanced(row, warn).reason = "none"
          /\ Advanced(row, warn).owner = row.owner
          /\ Advanced(row, warn).step = NextStep(row.step)
      BY <1>1, AdvancedRow
    <3>2. NextStep(row.step) # "completed"
      BY DEF NextStep
    <3> QED BY <1>1, <3>1, <3>2 DEF RowAllowed, Success
  <2>2. RowAllowed(Advanced(row, TRUE)) /\ RowAllowed(Advanced(row, FALSE))
    BY <2>1, Zenon
  <2>3. Written(row, out) \in {Advanced(row, TRUE), Advanced(row, FALSE)}
    BY <1>2 DEF Written
  <2> QED BY <2>2, <2>3
<1>3. CASE out = "wait"
  <2>1. Written(row, out) = WaitingScreening(row)
    BY <1>3 DEF Written
  <2> QED BY <2>1, WaitingRow DEF RowAllowed, Success
<1>4. CASE out \in {"pause_job", "pause_resume"}
  <2>1. PICK reason \in Reasons \ {"none"} : Written(row, out) = Paused(row, reason)
    BY <1>4 DEF Written, Reasons
  <2> QED BY <1>1, <2>1, PausedRow DEF RowAllowed, Success
<1>5. CASE out = "succeed"
  <2>1. Written(row, out) = Succeeded(row)
    BY <1>5 DEF Written
  <2> QED BY <2>1, SucceededRow DEF RowAllowed, Success
<1>6. CASE out \in {"none", "fail"}
  <2>1. Written(row, out) = Failed(row)
    BY <1>6 DEF Written
  <2> QED BY <1>1, <2>1, FailedRow DEF RowAllowed, Success
<1> QED BY <1>2, <1>3, <1>4, <1>5, <1>6 DEF Outs

LEMMA RowConstraintsStep ==
  ASSUME Consistent, RowConstraints, RowsChange
  PROVE  RowConstraints'
<1> SUFFICES ASSUME NEW r \in RunIds
             PROVE  RowAllowed(run'[r])
  BY DEF RowConstraints
<1>1. run[r] \in Row /\ RowAllowed(run[r])
  BY DEF Consistent, TypeOK, RowConstraints
<1>2. CASE run'[r] = run[r]
  BY <1>1, <1>2
<1>3. CASE Ticked(r)
  BY <1>1, <1>3, AgedRow DEF Ticked, RowAllowed
<1>4. CASE Renewed(r)
  BY <1>1, <1>4, RenewedRow DEF Renewed, RowAllowed
<1>5. CASE RecoveredNow(r)
  BY <1>1, <1>5, AllowedAfterRecovery DEF RecoveredNow
<1>6. CASE ClaimedNow(r)
  <2>1. PICK w \in Workers :
          /\ wk[w].pc = "claiming" /\ wk[w].run = r
          /\ run'[r] = Claimed(RowToClaim(w), w, LeaseTerm - tx[w].age)
    BY <1>6 DEF ClaimedNow, RowToClaim
  <2>2. /\ RowToClaim(w).status \in {"queued", "waiting_screening", "paused"}
        /\ \A q \in tx[w].recovered : NeedsRecovery(run[q])
    BY <2>1 DEF Consistent, ClaimsSound, ClaimSound
  <2>3. RowAllowed(RowToClaim(w))
    BY <1>1, <2>1, <2>2, AllowedAfterRecovery DEF RowToClaim, AfterRecovery
  <2>4. RowToClaim(w).step = run[r].step /\ run[r].step # "completed"
    <3>1. RowToClaim(w).step = run[r].step
      BY <2>1, ClaimedRowNow DEF RowToClaim
    <3> QED BY <2>2, <2>3, <3>1 DEF RowAllowed, Success
  <2>5. /\ run'[r].status = "running" /\ run'[r].reason = "none" /\ run'[r].owner = w
        /\ run'[r].step = run[r].step
    BY <2>1, ClaimedRowNow DEF RowToClaim
  <2> QED BY <2>4, <2>5, ConstantsOK DEF RowAllowed, Success
<1>7. CASE WrittenNow(r)
  <2>1. PICK w \in Workers : /\ run'[r] = Written(run[r], wk[w].out)
                             /\ run[r].status = "running"
    BY <1>7 DEF WrittenNow, Writable, Owned
  <2>2. wk[w].out \in Outs
    BY DEF Consistent, TypeOK, Worker
  <2> QED BY <1>1, <2>1, <2>2, AllowedAfterWrite
<1>8. CASE ReleasedNow(r)
  <2>1. run[r].reason = "none" /\ run[r].step # "completed"
    BY <1>1, <1>8 DEF ReleasedNow, RowAllowed, Success
  <2> QED BY <1>1, <1>8, <2>1, ReleasedRow DEF ReleasedNow, RowAllowed, Success
<1>9. CASE Inserted(r)
  BY <1>9, InsertedRow DEF RowAllowed, Success
<1> QED BY <1>2, <1>3, <1>4, <1>5, <1>6, <1>7, <1>8, <1>9 DEF RowsChange, RowStep

LEMMA RowConstraintsInit == Init => RowConstraints
BY DEF Init, RowConstraints, RowAllowed, AbsentRow, Success

\* Every row the service commits satisfies its table's CHECK constraints on status, step,
\* waiting reason, warnings and lease, so no handler is ever rolled back by them.
THEOREM RowConstraintsAlways == Spec => []RowConstraints
<1>1. Consistent /\ RowConstraints /\ Next => RowConstraints'
  BY RowConstraintsStep, RowSteps
<1>2. RowConstraints /\ UNCHANGED vars => RowConstraints'
  BY DEF RowConstraints, RowAllowed, vars
<1> QED BY <1>1, <1>2, RowConstraintsInit, ConsistentAlways, PTL DEF Spec

-----------------------------------------------------------------------------
(* One active row per submission *)

LEMMA ActiveRow ==
  ASSUME Consistent, RowsChange, NEW r \in RunIds, run'[r].status \in Active
  PROVE  \/ run[r].status \in Active /\ run'[r].sub = run[r].sub
         \/ Inserted(r)
         \/ ClaimedNow(r)
<1> SUFFICES ASSUME ~Inserted(r), ~ClaimedNow(r)
             PROVE  run[r].status \in Active /\ run'[r].sub = run[r].sub
  OBVIOUS
<1>1. run[r] \in Row
  BY DEF Consistent, TypeOK
<1>2. run[r].status # "absent" /\ run'[r].sub = run[r].sub
  BY RowAbsent, RowKept DEF Active
<1>3. Ticked(r) \/ RecoveredNow(r) \/ WrittenNow(r) \/ ReleasedNow(r) \/ Renewed(r)
        => run[r].status \in Active
  BY DEF Ticked, RecoveredNow, NeedsRecovery, Expired, WrittenNow, Writable, ReleasedNow,
         Renewed, Owned, Active
<1> QED BY <1>2, <1>3 DEF RowsChange, RowStep

LEMMA OneActiveRunStep ==
  ASSUME Consistent, OneActiveRun, RowsChange
  PROVE  OneActiveRun'
<1> SUFFICES ASSUME NEW q \in RunIds, NEW r \in RunIds, q # r,
                    run'[q].sub = run'[r].sub,
                    run'[q].status \in Active, run'[r].status \in Active
             PROVE  FALSE
  BY DEF OneActiveRun
<1>1. ASSUME NEW x \in RunIds, NEW y \in RunIds, x # y, Inserted(x),
             run'[x].sub = run'[y].sub, run'[y].status \in Active
      PROVE  FALSE
  <2>1. PICK s \in Submissions, step \in Steps, warned \in BOOLEAN :
          ~HasActive(run, s, 0) /\ run'[x] = NewRow(s, step, warned)
    BY <1>1 DEF Inserted
  <2>2. run'[x].sub = s /\ run'[y] = run[y]
    BY <1>1, <2>1, NewRowIsRow DEF Inserted
  <2>3. y # 0
    BY DEF RunIds
  <2> QED BY <1>1, <2>1, <2>2, <2>3 DEF HasActive
<1>2. ASSUME NEW x \in RunIds, NEW y \in RunIds, x # y, ClaimedNow(x),
             run'[x].sub = run'[y].sub, run'[y].status \in Active
      PROVE  FALSE
  <2>1. PICK w \in Workers :
          /\ wk[w].pc = "claiming" /\ wk[w].run = x
          /\ UniqueIndexHolds(AfterRecovery(tx[w].recovered), x)
          /\ \A z \in RunIds \ {x} : run'[z] = AfterRecovery(tx[w].recovered)[z]
          /\ run'[x] = Claimed(AfterRecovery(tx[w].recovered)[x], w, LeaseTerm - tx[w].age)
    BY <1>2 DEF ClaimedNow
  <2>2. AfterRecovery(tx[w].recovered)[x].sub = run'[x].sub
    BY <2>1, ClaimedRowNow
  <2> QED BY <1>2, <2>1, <2>2 DEF UniqueIndexHolds, HasActive
<1>3. CASE Inserted(q) \/ Inserted(r) \/ ClaimedNow(q) \/ ClaimedNow(r)
  BY <1>1, <1>2, <1>3
<1>4. CASE ~(Inserted(q) \/ Inserted(r) \/ ClaimedNow(q) \/ ClaimedNow(r))
  BY <1>4, ActiveRow DEF OneActiveRun
<1> QED BY <1>3, <1>4

LEMMA OneActiveRunInit == Init => OneActiveRun
BY DEF Init, OneActiveRun, AbsentRow, Active

\* A submission never has two rows that workers may pick up, however many workers claim,
\* recover and resume at once and whenever HR retries.
THEOREM OneActiveRunAlways == Spec => []OneActiveRun
<1>1. Consistent /\ OneActiveRun /\ Next => OneActiveRun'
  BY OneActiveRunStep, RowSteps
<1>2. OneActiveRun /\ UNCHANGED vars => OneActiveRun'
  BY DEF OneActiveRun, vars
<1> QED BY <1>1, <1>2, OneActiveRunInit, ConsistentAlways, PTL DEF Spec
-----------------------------------------------------------------------------
(* What workers believe about their rows, and what they write *)

\* Nothing stored or screened is forgotten.
LEMMA Monotone ==
  ASSUME Consistent, Next, NEW s \in Submissions
  PROVE  /\ resume[s].draft => resume'[s].draft
         /\ scr[s].status # "none" => scr'[s].status # "none"
         /\ scr[s].reports \subseteq scr'[s].reports
<1>1. scr \in [Submissions -> Screening]
  BY DEF Consistent, TypeOK
<1>2. scr[s].status # "none" => scr'[s].status # "none"
  BY <1>1, ScrSteps DEF ScrBecomes
<1>3. scr[s].reports \subseteq scr'[s].reports
  BY <1>1, ScrSteps DEF ScrBecomes
<1> QED BY <1>2, <1>3, ResumeSteps

\* A row that is w's after the step was w's before, at the same step, unless w has just
\* claimed or written it.
LEMMA OwnerKeepsStep ==
  ASSUME Consistent, RowsChange, NEW w \in Workers, NEW r \in RunIds, run'[r].owner = w
  PROVE  \/ run[r].owner = w /\ run'[r].step = run[r].step
         \/ wk[w].pc = "claiming" /\ wk'[w].pc # "claiming"
         \/ wk[w].pc = "write" /\ wk'[w] # wk[w]
<1>1. run[r] \in Row /\ w # NoWorker
  BY ConstantsOK DEF Consistent, TypeOK
<1>2. CASE run'[r] = run[r]
  BY <1>2
<1>3. CASE Ticked(r)
  BY <1>1, <1>3, AgedRow DEF Ticked
<1>4. CASE Renewed(r)
  BY <1>1, <1>4, RenewedRow DEF Renewed
<1>5. CASE RecoveredNow(r)
  BY <1>1, <1>5, RecoveredRow DEF RecoveredNow
<1>6. CASE ClaimedNow(r)
  BY <1>1, <1>6, ClaimedRowNow DEF ClaimedNow
<1>7. CASE WrittenNow(r)
  <2>1. PICK v \in Workers :
          /\ wk[v].pc = "write" /\ wk'[v] # wk[v] /\ run[r].owner = v
          /\ run'[r] = Written(run[r], wk[v].out)
    BY <1>7 DEF WrittenNow, Writable, Owned
  <2>2. /\ Failed(run[r]).owner = NoWorker
        /\ WaitingScreening(run[r]).owner = NoWorker
        /\ Succeeded(run[r]).owner = NoWorker
        /\ \A reason \in Reasons : Paused(run[r], reason).owner = NoWorker
    BY <1>1, FailedRow, WaitingRow, SucceededRow, PausedRow
  <2>3. Advanced(run[r], TRUE).owner = v /\ Advanced(run[r], FALSE).owner = v
    BY <1>1, <2>1, AdvancedRow, Zenon
  <2>4. {"job_closed", "existing_application_resume_choice"} \subseteq Reasons
    BY DEF Reasons
  <2>5. run'[r].owner \in {v, NoWorker}
    BY <2>1, <2>2, <2>3, <2>4 DEF Written
  <2> QED BY <1>1, <2>1, <2>5
<1>8. CASE ReleasedNow(r)
  BY <1>1, <1>8, ReleasedRow DEF ReleasedNow
<1>9. CASE Inserted(r)
  BY <1>1, <1>9, InsertedRow
<1> QED BY <1>2, <1>3, <1>4, <1>5, <1>6, <1>7, <1>8, <1>9 DEF RowsChange, RowStep

LEMMA BeliefStep ==
  ASSUME Consistent, BeliefHolds, Next, RowsChange, WorkersChange
  PROVE  BeliefHolds'
<1> SUFFICES ASSUME NEW w \in Workers, wk'[w].pc \in {"step", "called", "write"},
                    run'[wk'[w].run].owner = w
             PROVE  run'[wk'[w].run].step = wk'[w].step
  BY DEF BeliefHolds
<1>1. WorkerMove(w)
  BY DEF WorkersChange
<1>2. wk[w].pc \in {"renew", "step", "called", "write"} /\ wk'[w].run = wk[w].run
  BY <1>1 DEF WorkerMove, InStep, Working
<1>3. wk[w].pc = "write" => wk'[w] = wk[w]
  BY <1>1 DEF WorkerMove, InStep, Working, ClaimSelect
<1>4. wk[w].run \in RunIds
  BY <1>2, WorkersSubmission
<1>5. run[wk[w].run].owner = w /\ run'[wk[w].run].step = run[wk[w].run].step
  BY <1>2, <1>3, <1>4, OwnerKeepsStep
<1>6. CASE wk[w].pc = "renew"
  BY <1>1, <1>2, <1>5, <1>6 DEF WorkerMove, InStep, Working, ClaimSelect
<1>7. CASE wk[w].pc # "renew"
  <2>1. wk'[w].step = wk[w].step
    BY <1>1, <1>2, <1>7 DEF WorkerMove, InStep, Working, ClaimSelect
  <2> QED BY <1>2, <1>5, <1>7, <2>1 DEF BeliefHolds
<1> QED BY <1>6, <1>7

LEMMA DecisionEarned ==
  ASSUME Consistent, ScreeningKnown, Next, RowsChange, NEW w \in Workers,
         StepAction(w), wk'[w].pc = "write"
  PROVE  OutEarned(w)'
<1> DEFINE s == run[wk[w].run].sub
<1>1. wk \in [Workers -> Worker] /\ wk[w].pc \in InStep
  BY DEF StepAction, Consistent, TypeOK, InStep, ReadText, ExtractText, StructureResume,
         ReadBeforeTrigger, TriggerScreening, ReadBeforeAwait, AwaitScreening, At
<1>2. /\ s \in Submissions /\ current[s] \in Resumes
      /\ wk[w].run \in RunIds /\ run'[wk[w].run].sub = s
  BY <1>1, WorkersSubmission, RowKept DEF InStep
<1>3. ASSUME NEW out \in Outs, Decide(w, out),
             /\ out = "advance" =>
                  \/ wk[w].step = "extract_text"
                  \/ wk[w].step = "structure_resume" /\ resume'[s].draft
             /\ out = "advance_warned" => wk[w].step = "structure_resume"
             /\ out \in {"wait", "succeed"} =>
                  wk[w].step \in {"trigger_screening", "await_screening"}
             /\ out = "wait" => scr'[s].status # "none"
             /\ out = "succeed" => scr'[s].reports # {}
      PROVE  OutEarned(w)'
  BY <1>1, <1>2, <1>3, DecideMove DEF OutEarned
<1>4. {"advance", "advance_warned", "wait", "pause_job", "pause_resume", "succeed", "fail"}
        \subseteq Outs
  BY DEF Outs
<1>5. ASSUME wk' = [wk EXCEPT ![w].pc = "called"]
      PROVE  FALSE
  BY <1>1, <1>5, PcMove
<1>6. CASE ReadText(w)
  BY <1>3, <1>4, <1>5, <1>6 DEF ReadText, At
<1>7. CASE ExtractText(w)
  BY <1>3, <1>4, <1>7 DEF ExtractText, At
<1>8. CASE StructureResume(w)
  <2>1. CASE resume' = [resume EXCEPT ![s].draft = TRUE] /\ Decide(w, "advance")
    <3>1. resume'[s].draft
      BY <1>2, <2>1 DEF Consistent, TypeOK
    <3> HIDE DEF s
    <3> QED BY <1>3, <1>4, <1>8, <2>1, <3>1 DEF StructureResume, At
  <2>2. CASE Decide(w, "advance_warned")
    BY <1>3, <1>4, <1>8, <2>2 DEF StructureResume, At
  <2>3. CASE wk[w].tries < Retries /\ wk' = [wk EXCEPT ![w].pc = "step", ![w].tries = @ + 1]
    BY <1>1, <2>3, RetryMove
  <2> QED BY <1>8, <2>1, <2>2, <2>3 DEF StructureResume
<1>9. CASE ReadBeforeTrigger(w)
  BY <1>3, <1>4, <1>5, <1>9 DEF ReadBeforeTrigger, At
<1>10. CASE TriggerScreening(w)
  <2>1. wk[w].step = "trigger_screening"
    BY <1>10 DEF TriggerScreening, At
  <2>2. CASE Decide(w, "fail") \/ Decide(w, "pause_job")
    BY <1>3, <1>4, <2>2
  <2>3. CASE UNCHANGED scr /\ scr[s].valid = current[s] /\ Decide(w, "succeed")
    <3>1. scr[s].reports # {}
      BY <1>2, <2>3 DEF ScreeningKnown, Resumes
    <3> HIDE DEF s
    <3> QED BY <1>3, <1>4, <2>1, <2>3, <3>1
  <2>4. CASE /\ \E valid \in {scr[s].valid, "none"} : scr' = [scr EXCEPT ![s].valid = valid]
             /\ scr[s].status \in ScreeningOpen
             /\ Decide(w, ScreeningOutcome(scr[s].status))
    <3>1. ScreeningOutcome(scr[s].status) \in {"wait", "pause_job"} /\ scr[s].status # "none"
      BY <2>4 DEF ScreeningOutcome, ScreeningOpen, ScreeningWaiting, Unready
    <3>2. scr'[s].status = scr[s].status
      <4>1. scr \in [Submissions -> Screening]
        BY DEF Consistent, TypeOK
      <4> HIDE DEF s
      <4> QED BY <1>2, <2>4, <4>1 DEF Screening
    <3> HIDE DEF s
    <3> QED BY <1>3, <1>4, <2>1, <2>4, <3>1, <3>2
  <2>5. CASE /\ \E status \in StartsAs(s), valid \in {scr[s].valid, "none"} :
                   scr' = [scr EXCEPT ![s] = NewScreening(s, status, valid)]
             /\ Decide(w, "wait")
    <3>1. PICK status \in StartsAs(s), valid \in {scr[s].valid, "none"} :
            scr' = [scr EXCEPT ![s] = NewScreening(s, status, valid)]
      BY <2>5
    <3>2. status \in ScreeningOpen /\ status # "none"
      BY <1>2, Startable
    <3>3. scr \in [Submissions -> Screening] /\ current[s] # "none"
      BY <1>2 DEF Consistent, TypeOK, Resumes
    <3>4. scr'[s].status # "none"
      <4> HIDE DEF s
      <4> QED BY <1>2, <3>1, <3>2, <3>3, NewScreeningIs
    <3> HIDE DEF s
    <3> QED BY <1>3, <1>4, <2>1, <2>5, <3>4
  <2> QED BY <1>10, <2>2, <2>3, <2>4, <2>5 DEF TriggerScreening
<1>11. CASE ReadBeforeAwait(w)
  BY <1>3, <1>4, <1>5, <1>11 DEF ReadBeforeAwait, At
<1>12. CASE AwaitScreening(w)
  <2>1. wk[w].step = "await_screening" /\ scr' = scr
    BY <1>12 DEF AwaitScreening, At, env
  <2>2. scr[s].status # "none" /\ scr[s] \in Screening
    BY <1>2, <1>12 DEF AwaitScreening, At, ScreeningKnown, Consistent, TypeOK
  <2>3. Decide(w, ScreeningOutcome(scr[s].status))
    BY <1>12, <2>2 DEF AwaitScreening
  <2>4. /\ ScreeningOutcome(scr[s].status) \in {"wait", "pause_job", "succeed", "fail"}
        /\ ScreeningOutcome(scr[s].status) = "succeed" => scr[s].status = "succeeded"
    BY <2>2 DEF ScreeningOutcome
  <2>5. ScreeningOutcome(scr[s].status) = "succeed" => scr[s].reports # {}
    BY <1>2, <2>4 DEF ScreeningKnown
  <2> HIDE DEF s
  <2> QED BY <1>3, <1>4, <2>1, <2>2, <2>3, <2>4, <2>5
<1> QED BY <1>6, <1>7, <1>8, <1>9, <1>10, <1>11, <1>12 DEF StepAction

LEMMA OutcomeStep ==
  ASSUME Consistent, ScreeningKnown, OutcomeEarned, Next, RowsChange, WorkersChange
  PROVE  OutcomeEarned'
<1> SUFFICES ASSUME NEW w \in Workers, wk'[w].pc = "write"
             PROVE  OutEarned(w)'
  BY DEF OutcomeEarned
<1>1. WorkerMove(w)
  BY DEF WorkersChange
<1>2. CASE StepAction(w)
  BY <1>2, DecisionEarned
<1>3. CASE wk'[w] = wk[w]
  <2>1. OutEarned(w) /\ wk[w].pc = "write"
    BY <1>3 DEF OutcomeEarned
  <2>2. /\ run[wk[w].run].sub \in Submissions
        /\ run'[wk[w].run].sub = run[wk[w].run].sub
    BY <2>1, WorkersSubmission, RowKept
  <2> QED BY <1>3, <2>1, <2>2, Monotone DEF OutEarned
<1> QED BY <1>1, <1>2, <1>3 DEF WorkerMove, InStep, Working

\* A write never leaves its row at await_screening, past structuring or successful
\* without what that takes.
LEMMA WriteEarned ==
  ASSUME Consistent, BeliefHolds, OutcomeEarned, NEW r \in RunIds, WrittenNow(r)
  PROVE  LET s == run[r].sub
         IN  /\ run'[r].step = "await_screening" =>
                  run[r].step = "await_screening" \/ scr[s].status # "none"
             /\ run'[r].step \in {"trigger_screening", "await_screening", "completed"} =>
                  \/ run[r].step \in {"trigger_screening", "await_screening", "completed"}
                  \/ run'[r].warned \/ resume[s].draft
             /\ run[r].warned => run'[r].warned
             /\ run'[r].status \in Success => scr[s].reports # {}
             /\ StepRank(run'[r].step) >= StepRank(run[r].step)
<1>1. PICK w \in Workers :
        /\ wk[w].pc = "write" /\ wk[w].run = r /\ Writable(w)
        /\ run'[r] = Written(run[r], wk[w].out)
  BY DEF WrittenNow
<1>2. /\ run[r] \in Row /\ wk[w].out \in Outs
      /\ run[r].status = "running" /\ run[r].step = wk[w].step /\ OutEarned(w)
  BY <1>1 DEF Consistent, TypeOK, Worker, Writable, Owned, BeliefHolds, OutcomeEarned
<1>3. CASE wk[w].out = "advance"
  <2>1. run'[r] = Advanced(run[r], FALSE)
    BY <1>1, <1>3 DEF Written
  <2>2. /\ run'[r].step = NextStep(run[r].step) /\ run'[r].status = run[r].status
        /\ run[r].warned => run'[r].warned
    <3>1. /\ Advanced(run[r], FALSE).step = NextStep(run[r].step)
          /\ Advanced(run[r], FALSE).status = run[r].status
          /\ run[r].warned => Advanced(run[r], FALSE).warned
      BY <1>2, AdvancedRow, Zenon
    <3> QED BY <2>1, <3>1, Zenon
  <2>3. \/ run[r].step = "extract_text" /\ run'[r].step = "structure_resume"
        \/ /\ run[r].step = "structure_resume" /\ run'[r].step = "trigger_screening"
           /\ resume[run[r].sub].draft
    BY <1>1, <1>2, <1>3, <2>2 DEF OutEarned, NextStep
  <2> QED BY <1>2, <2>2, <2>3 DEF StepRank, Success
<1>4. CASE wk[w].out = "advance_warned"
  <2>1. run'[r] = Advanced(run[r], TRUE)
    BY <1>1, <1>4 DEF Written
  <2>2. /\ run'[r].step = NextStep(run[r].step) /\ run'[r].status = run[r].status
        /\ run'[r].warned
    <3>1. /\ Advanced(run[r], TRUE).step = NextStep(run[r].step)
          /\ Advanced(run[r], TRUE).status = run[r].status
          /\ Advanced(run[r], TRUE).warned
      BY <1>2, AdvancedRow, Zenon
    <3> QED BY <2>1, <3>1, Zenon
  <2>3. run[r].step = "structure_resume" /\ run'[r].step = "trigger_screening"
    BY <1>1, <1>2, <1>4, <2>2 DEF OutEarned, NextStep
  <2> QED BY <1>2, <2>2, <2>3 DEF StepRank, Success
<1>5. CASE wk[w].out = "wait"
  <2>1. run'[r] = WaitingScreening(run[r])
    BY <1>1, <1>5 DEF Written
  <2>2. /\ run'[r].step = "await_screening" /\ run'[r].warned = run[r].warned
        /\ run'[r].status = "waiting_screening"
    BY <1>2, <2>1, WaitingRow
  <2>3. /\ run[r].step \in {"trigger_screening", "await_screening"}
        /\ scr[run[r].sub].status # "none"
    BY <1>1, <1>2, <1>5 DEF OutEarned
  <2> QED BY <2>2, <2>3 DEF StepRank, Success
<1>6. CASE wk[w].out = "succeed"
  <2>1. run'[r] = Succeeded(run[r])
    BY <1>1, <1>6 DEF Written
  <2>2. run'[r].step = "completed" /\ run'[r].warned = run[r].warned
    BY <1>2, <2>1, SucceededRow
  <2>3. /\ run[r].step \in {"trigger_screening", "await_screening"}
        /\ scr[run[r].sub].reports # {}
    BY <1>1, <1>2, <1>6 DEF OutEarned
  <2> QED BY <2>2, <2>3 DEF StepRank
<1>7. CASE wk[w].out \in {"pause_job", "pause_resume", "none", "fail"}
  <2>1. /\ run'[r].step = run[r].step /\ run'[r].warned = run[r].warned
        /\ run'[r].status \in {"paused", "failed"}
    <3>1. \/ run'[r] = Failed(run[r])
          \/ \E reason \in Reasons : run'[r] = Paused(run[r], reason)
      BY <1>1, <1>7 DEF Written, Reasons
    <3> QED BY <1>2, <3>1, FailedRow, PausedRow
  <2> QED BY <2>1 DEF StepRank, Success
<1> QED BY <1>2, <1>3, <1>4, <1>5, <1>6, <1>7 DEF Outs

\* Every other change of a row keeps its step, its warning, and its lack of success.
LEMMA OtherSteps ==
  ASSUME Consistent, RowConstraints, RowsChange, NEW r \in RunIds,
         ~WrittenNow(r), ~Inserted(r)
  PROVE  /\ run'[r].step = run[r].step /\ run'[r].warned = run[r].warned
         /\ run'[r].status \in Success => run[r].status \in Success
<1>1. run[r] \in Row
  BY DEF Consistent, TypeOK
<1>2. CASE run'[r] = run[r]
  BY <1>2
<1>3. CASE Ticked(r)
  BY <1>1, <1>3, AgedRow DEF Ticked
<1>4. CASE Renewed(r)
  BY <1>1, <1>4, RenewedRow DEF Renewed
<1>5. CASE RecoveredNow(r)
  BY <1>1, <1>5, RecoveredRow DEF RecoveredNow, Success
<1>6. CASE ClaimedNow(r)
  BY <1>1, <1>6, ClaimedRowNow DEF ClaimedNow, Success
<1>7. CASE ReleasedNow(r)
  BY <1>1, <1>7, ReleasedRow DEF ReleasedNow, Success
<1> QED BY <1>2, <1>3, <1>4, <1>5, <1>6, <1>7 DEF RowsChange, RowStep

\* A retry starts where the failed or paused row stood, or one step before, and keeps
\* its warning.
LEMMA RetriedRow ==
  ASSUME Consistent, NEW r \in RunIds, Inserted(r)
  PROVE  /\ run'[r].status = "queued"
         /\ \/ run'[r].step = "extract_text"
            \/ \E previous \in RunIds :
                 /\ run[previous].status # "absent"
                 /\ run'[r].sub = run[previous].sub
                 /\ run'[r].step = RetryStep(run[previous])
                 /\ run'[r].warned = run[previous].warned
<1>1. PICK s \in Submissions, step \in Steps, warned \in BOOLEAN :
        /\ run'[r] = NewRow(s, step, warned)
        /\ \/ step = "extract_text"
           \/ \E previous \in RunIds :
                /\ run[previous].sub = s /\ run[previous].status \in {"failed", "paused"}
                /\ step = RetryStep(run[previous]) /\ warned = run[previous].warned
  BY DEF Inserted
<1>2. /\ run'[r].status = "queued" /\ run'[r].sub = s /\ run'[r].step = step
      /\ run'[r].warned = warned
  BY <1>1, NewRowIsRow
<1> QED BY <1>1, <1>2

LEMMA ScreeningKnownStep ==
  ASSUME Consistent, RowConstraints, Earned, Next, RowsChange, WorkersChange
  PROVE  ScreeningKnown'
<1>1. ASSUME NEW r \in RunIds, run'[r].step = "await_screening"
      PROVE  scr'[run'[r].sub].status # "none"
  <2>1. CASE Inserted(r)
    <3>1. PICK previous \in RunIds :
            /\ run[previous].status # "absent"
            /\ run'[r].sub = run[previous].sub
            /\ run'[r].step = RetryStep(run[previous])
      BY <1>1, <2>1, RetriedRow
    <3>2. run[previous].step = "await_screening" /\ run[previous].sub \in Submissions
      BY <1>1, <3>1 DEF RetryStep, Consistent, TypeOK, RowsExist, Row
    <3> QED BY <3>1, <3>2, Monotone DEF Earned, ScreeningKnown
  <2>2. CASE ~Inserted(r)
    <3>1. run[r].status # "absent"
      BY <1>1, <2>2, RowAbsent DEF Consistent, RowsExist
    <3>2. run'[r].sub = run[r].sub /\ run[r].sub \in Submissions
      BY <3>1, RowKept DEF Consistent, TypeOK, RowsExist, Row
    <3>3. scr[run[r].sub].status # "none"
      BY <1>1, <2>2, WriteEarned, OtherSteps DEF Earned, ScreeningKnown
    <3> QED BY <3>2, <3>3, Monotone
  <2> QED BY <2>1, <2>2
<1>2. ASSUME NEW w \in Workers, wk'[w].pc \in {"step", "called"},
             wk'[w].step = "await_screening"
      PROVE  scr'[run'[wk'[w].run].sub].status # "none"
  <2>1. /\ wk[w].pc \in {"renew", "step", "called"} /\ wk'[w].run = wk[w].run
        /\ wk[w].pc = "renew" => wk'[w].step = run[wk[w].run].step
        /\ wk[w].pc # "renew" => wk'[w].step = wk[w].step
    BY <1>2 DEF WorkersChange, WorkerMove, InStep, Working
  <2>2. /\ wk[w].run \in RunIds /\ run[wk[w].run].sub \in Submissions
        /\ run'[wk[w].run].sub = run[wk[w].run].sub
    BY <2>1, WorkersSubmission, RowKept
  <2>3. scr[run[wk[w].run].sub].status # "none"
    BY <1>2, <2>1, <2>2 DEF Earned, ScreeningKnown
  <2> QED BY <2>1, <2>2, <2>3, Monotone
<1>3. ASSUME NEW s \in Submissions
      PROVE  /\ scr'[s].status = "succeeded" => scr'[s].reports # {}
             /\ scr'[s].valid # "none" =>
                  scr'[s].status # "none" /\ scr'[s].valid \in scr'[s].reports
  <2>1. /\ scr[s].status = "succeeded" => scr[s].reports # {}
        /\ scr[s].valid # "none" =>
             scr[s].status # "none" /\ scr[s].valid \in scr[s].reports
    BY DEF Earned, ScreeningKnown
  <2>2. scr \in [Submissions -> Screening]
    BY DEF Consistent, TypeOK
  <2>3. CASE scr'[s] = scr[s]
    BY <2>1, <2>3
  <2>4. CASE ScrBecomes(s, scr'[s])
    BY <2>1, <2>4 DEF ScrBecomes
  <2>5. scr'[s] = scr[s] \/ ScrBecomes(s, scr'[s])
    BY <2>2, ScrSteps DEF ScrBecomes
  <2> QED BY <2>3, <2>4, <2>5
<1> QED BY <1>1, <1>2, <1>3 DEF ScreeningKnown

LEMMA FoundedStep == Founded /\ Next => Founded'
BY RowSteps, WorkerSteps, ConsistentStep, RowConstraintsStep, BeliefStep, OutcomeStep,
   ScreeningKnownStep DEF Founded, Earned

LEMMA FoundedRests == Founded /\ UNCHANGED vars => Founded'
BY DEF vars, Founded, Earned, Consistent, TypeOK, RowsExist, WorkersBusyWithRows,
       ClaimsApart, ClaimsSound, ClaimSound, ScreenedApplications, Held, RowToClaim,
       AfterRecovery, RowConstraints, RowAllowed, BeliefHolds, OutcomeEarned, OutEarned,
       ScreeningKnown

LEMMA FoundedStarts == Init => Founded
<1> SUFFICES ASSUME Init PROVE Founded
  OBVIOUS
<1>1. \A w \in Workers : wk[w].pc = "idle"
  BY DEF Init, Idle
<1>2. \A r \in RunIds : run[r].step = "extract_text"
  BY DEF Init, AbsentRow
<1>3. \A s \in Submissions : scr[s].status = "none" /\ scr[s].valid = "none"
  BY DEF Init
<1> QED BY <1>1, <1>2, <1>3, ConsistentInit, RowConstraintsInit
        DEF Founded, Earned, BeliefHolds, OutcomeEarned, ScreeningKnown

LEMMA FoundedAlways == Spec => []Founded
BY FoundedStarts, FoundedStep, FoundedRests, PTL DEF Spec
-----------------------------------------------------------------------------
(* What a finished run means *)

LEMMA StructureStep ==
  ASSUME Founded, StructureAccounted, Next, RowsChange
  PROVE  StructureAccounted'
<1> DEFINE late == {"trigger_screening", "await_screening", "completed"}
<1> SUFFICES ASSUME NEW r \in RunIds, run'[r].step \in late
             PROVE  run'[r].warned \/ resume'[run'[r].sub].draft
  BY DEF StructureAccounted
<1>1. ASSUME NEW q \in RunIds, run[q].status # "absent", run[q].step \in late
      PROVE  run[q].warned \/ resume'[run[q].sub].draft
  <2>1. run[q].sub \in Submissions
    BY <1>1 DEF Founded, Consistent, TypeOK, RowsExist, Row
  <2> QED BY <1>1, <2>1, Monotone DEF Founded, StructureAccounted
<1>2. CASE Inserted(r)
  <2>1. PICK previous \in RunIds :
          /\ run[previous].status # "absent"
          /\ run'[r].sub = run[previous].sub
          /\ run'[r].step = RetryStep(run[previous])
          /\ run'[r].warned = run[previous].warned
    BY <1>2, RetriedRow DEF Founded
  <2>2. run[previous].step \in late
    BY <2>1 DEF RetryStep
  <2> QED BY <1>1, <2>1, <2>2
<1>3. CASE ~Inserted(r)
  <2>1. run[r].status # "absent"
    BY <1>3, RowAbsent DEF Founded, Consistent, RowsExist
  <2>2. run'[r].sub = run[r].sub /\ run[r].sub \in Submissions
    BY <2>1, RowKept DEF Founded, Consistent, TypeOK, RowsExist, Row
  <2>3. CASE WrittenNow(r)
    <3>1. /\ run[r].step \in late \/ run'[r].warned \/ resume[run[r].sub].draft
          /\ run[r].warned => run'[r].warned
      BY <2>3, WriteEarned DEF Founded, Earned
    <3> QED BY <1>1, <2>1, <2>2, <3>1, Monotone DEF Founded
  <2>4. CASE ~WrittenNow(r)
    <3>1. run'[r].step = run[r].step /\ run'[r].warned = run[r].warned
      BY <1>3, <2>4, OtherSteps DEF Founded
    <3> QED BY <1>1, <2>1, <2>2, <3>1
  <2> QED BY <2>3, <2>4
<1> QED BY <1>2, <1>3

LEMMA ReportsStay ==
  ASSUME Founded, SuccessHasReport, Next
  PROVE  SuccessHasReport'
<1> SUFFICES ASSUME NEW r \in RunIds, run'[r].status \in Success
             PROVE  scr'[run'[r].sub].reports # {}
  BY DEF SuccessHasReport
<1>1. RowsChange
  BY RowSteps DEF Founded
<1>2. ~Inserted(r)
  BY <1>1, RetriedRow DEF Founded, Success
<1>3. run[r].status # "absent"
  BY <1>1, <1>2, RowAbsent DEF Founded, Success
<1>4. run'[r].sub = run[r].sub /\ run[r].sub \in Submissions
  BY <1>1, <1>3, RowKept DEF Founded, Consistent, TypeOK, RowsExist, Row
<1>5. scr[run[r].sub].reports # {}
  BY <1>1, <1>2, WriteEarned, OtherSteps DEF Founded, Earned, SuccessHasReport
<1> QED BY <1>4, <1>5, Monotone DEF Founded

\* The inductive invariant with what it is for.
Accounted == Founded /\ OneActiveRun /\ StructureAccounted /\ SuccessHasReport

LEMMA AccountedStarts == Init => Accounted
<1>1. Init => StructureAccounted /\ SuccessHasReport
  BY DEF Init, StructureAccounted, SuccessHasReport, AbsentRow, Success
<1> QED BY <1>1, FoundedStarts, OneActiveRunInit DEF Accounted

LEMMA AccountedStep == Accounted /\ Next => Accounted'
BY FoundedStep, OneActiveRunStep, StructureStep, ReportsStay, RowSteps DEF Accounted, Founded

LEMMA AccountedRests == Accounted /\ UNCHANGED vars => Accounted'
<1>1. OneActiveRun /\ StructureAccounted /\ SuccessHasReport /\ UNCHANGED vars
        => (OneActiveRun /\ StructureAccounted /\ SuccessHasReport)'
  BY DEF OneActiveRun, StructureAccounted, SuccessHasReport, vars
<1> QED BY <1>1, FoundedRests DEF Accounted

LEMMA AllAlways == Spec => []Accounted
BY AccountedStarts, AccountedStep, AccountedRests, PTL DEF Spec

\* Whatever crashes, stale workers and manual retries do, a row past structuring has a
\* draft stored for its resume or carries the warning that there is none.
THEOREM StructureAccountedAlways == Spec => []StructureAccounted
BY AllAlways, PTL DEF Accounted

\* No run succeeds for an application without a single screening report.
THEOREM SuccessHasReportAlways == Spec => []SuccessHasReport
BY AllAlways, PTL DEF Accounted

-----------------------------------------------------------------------------
(* What a step may never do to a row *)

\* A finished row never changes again, whichever worker wakes up late.
LEMMA TerminalStays ==
  ASSUME Consistent, RowsChange, NEW r \in RunIds, run[r].status \in Terminal
  PROVE  run'[r] = run[r]
<1>1. ~Inserted(r)
  BY RowKept DEF Terminal, Success
<1>2. ~Ticked(r) /\ ~Renewed(r) /\ ~WrittenNow(r) /\ ~ReleasedNow(r) /\ ~RecoveredNow(r)
  BY DEF Ticked, Renewed, WrittenNow, Writable, Owned, ReleasedNow, RecoveredNow,
         NeedsRecovery, Expired, Terminal, Success
<1>3. ASSUME ClaimedNow(r)
      PROVE  FALSE
  <2>1. PICK w \in Workers : wk[w].pc = "claiming" /\ wk[w].run = r
    BY <1>3 DEF ClaimedNow
  <2>2. ClaimSound(w)
    BY <2>1 DEF Consistent, ClaimsSound
  <2>3. r \notin tx[w].recovered
    BY <2>2 DEF ClaimSound, NeedsRecovery, Expired, Terminal, Success
  <2>4. RowToClaim(w) = run[r]
    BY <2>1, <2>3 DEF RowToClaim, AfterRecovery
  <2> QED BY <2>2, <2>4 DEF ClaimSound, Terminal, Success
<1> QED BY <1>1, <1>2, <1>3 DEF RowsChange, RowStep

\* What a step never does to a row, HistoryKept and LiveLeaseRespected being about every step.
KeepsHistory(r) ==
  run[r].status # "absent" =>
    /\ run[r].status \in Terminal => run'[r] = run[r]
    /\ run'[r].sub = run[r].sub
    /\ StepRank(run'[r].step) >= StepRank(run[r].step)

RespectsLease(r) ==
  run[r].status = "running" /\ run[r].left >= 0
    /\ run'[r] # run[r] /\ run'[r] # [run[r] EXCEPT !.left = @ - 1]
  => wk'[run[r].owner] # wk[run[r].owner]

LEMMA HistoryStep ==
  ASSUME Founded, Next, NEW r \in RunIds
  PROVE  KeepsHistory(r)
<1> SUFFICES ASSUME run[r].status # "absent"
             PROVE  /\ run[r].status \in Terminal => run'[r] = run[r]
                    /\ run'[r].sub = run[r].sub
                    /\ StepRank(run'[r].step) >= StepRank(run[r].step)
  BY DEF KeepsHistory
<1>1. RowsChange
  BY RowSteps DEF Founded
<1>2. run'[r].sub = run[r].sub /\ ~Inserted(r)
  BY <1>1, RowKept DEF Founded
<1>3. run[r].status \in Terminal => run'[r] = run[r]
  BY <1>1, TerminalStays DEF Founded
<1>4. CASE WrittenNow(r)
  BY <1>2, <1>3, <1>4, WriteEarned DEF Founded, Earned
<1>5. CASE ~WrittenNow(r)
  <2>1. run'[r].step = run[r].step
    BY <1>1, <1>2, <1>5, OtherSteps DEF Founded
  <2> QED BY <1>2, <1>3, <2>1 DEF StepRank
<1> QED BY <1>4, <1>5

\* Rows are a history: they are never erased, moved, reopened or sent back, for any
\* number of workers and however late their writes come.
THEOREM HistoryKeptAlways == Spec => HistoryKept
<1>1. Founded /\ [Next]_vars => [\A r \in RunIds : KeepsHistory(r)]_vars
  BY HistoryStep
<1>2. Founded /\ [Next]_vars
        => [\A r \in RunIds :
              run[r].status # "absent" =>
                /\ run[r].status \in Terminal => run'[r] = run[r]
                /\ run'[r].sub = run[r].sub
                /\ StepRank(run'[r].step) >= StepRank(run[r].step)]_vars
  BY <1>1 DEF KeepsHistory
<1> QED BY <1>2, FoundedAlways, PTL DEF Spec, HistoryKept

LEMMA LeaseStep ==
  ASSUME Consistent, Next, NEW r \in RunIds
  PROVE  RespectsLease(r)
<1> SUFFICES ASSUME run[r].status = "running", run[r].left >= 0,
                    run'[r] # run[r], run'[r] # [run[r] EXCEPT !.left = @ - 1]
             PROVE  wk'[run[r].owner] # wk[run[r].owner]
  BY DEF RespectsLease
<1>1. RowsChange
  BY RowSteps
<1>2. ~Inserted(r)
  BY <1>1, RowKept
<1>3. ~Ticked(r)
  BY DEF Ticked
<1>4. ~RecoveredNow(r)
  BY DEF RecoveredNow, NeedsRecovery, Expired, Consistent, TypeOK, Row
<1>5. ~ClaimedNow(r)
  BY HeldRows DEF ClaimedNow, Held
<1>6. Renewed(r) \/ WrittenNow(r) \/ ReleasedNow(r)
  BY <1>1, <1>2, <1>3, <1>4, <1>5 DEF RowsChange, RowStep
<1> QED BY <1>6 DEF Renewed, WrittenNow, ReleasedNow, Writable, Owned

\* While a lease runs, nobody but its holder changes the row: no recovery, claim, retry or
\* late release takes it away.
THEOREM LiveLeaseRespectedAlways == Spec => LiveLeaseRespected
<1>1. Consistent /\ [Next]_vars => [\A r \in RunIds : RespectsLease(r)]_vars
  BY LeaseStep
<1>2. Consistent /\ [Next]_vars
        => [\A r \in RunIds :
              run[r].status = "running" /\ run[r].left >= 0
                /\ run'[r] # run[r] /\ run'[r] # [run[r] EXCEPT !.left = @ - 1]
              => wk'[run[r].owner] # wk[run[r].owner]]_vars
  BY <1>1 DEF RespectsLease
<1> QED BY <1>2, ConsistentAlways, PTL DEF Spec, LiveLeaseRespected

-----------------------------------------------------------------------------
(***************************************************************************)
(* The queue beside any screening service that keeps ScreeningContract.    *)
(* What HR and screening do in Spec is what the contract allows, and what  *)
(* the queue promises it promises whatever else the contract allows: it    *)
(* relies on nothing of screening that module Screening does not keep.     *)
(***************************************************************************)

\* What the contract sees of a submission.
OpenOf(s) == jobOpen[JobOf[s]]
CurrentOf(s) == IF current[s] = "none" THEN "own" ELSE current[s]
ResumeOf(s) == IF scr[s].status = "none" THEN "none" ELSE scr[s].of

\* The contract's step of one submission.
ContractStep(s) ==
  \/ Contract!Begin(s) \/ Contract!Start(s) \/ Contract!Succeed(s) \/ Contract!Fail(s)
  \/ Contract!Pause(s) \/ Contract!Resume(s) \/ Contract!Requeue(s)
  \/ Contract!LateSuccess(s) \/ Contract!LateFailure(s)
  \/ Contract!Outdate(s) \/ Contract!Switch(s) \/ Contract!ToggleJob(s) \/ Contract!Rest(s)

LEMMA StepsMakeNext ==
  ASSUME \A s \in Submissions : ContractStep(s)
  PROVE  Contract!Next
BY DEF Contract!Next, Contract!Lose, ContractStep

\* The contract's steps in what it sees: nothing, or the job, ...
LEMMA SeenRests ==
  ASSUME NEW s \in Submissions, CurrentOf(s)' = CurrentOf(s), scr'[s] = scr[s],
         OpenOf(s)' = OpenOf(s) \/ OpenOf(s)' = ~OpenOf(s)
  PROVE  ContractStep(s)
<1>1. CASE OpenOf(s)' = OpenOf(s)
  BY <1>1 DEF ContractStep, Contract!Rest, Contract!Same, OpenOf, CurrentOf
<1>2. CASE OpenOf(s)' = ~OpenOf(s)
  BY <1>2 DEF ContractStep, Contract!ToggleJob, Contract!Same, OpenOf, CurrentOf
<1> QED BY <1>1, <1>2

\* ... or a run that is added, ...
LEMMA SeenBegins ==
  ASSUME NEW s \in Submissions, OpenOf(s)' = OpenOf(s), CurrentOf(s)' = CurrentOf(s),
         scr[s].status \in {"none", "succeeded", "failed"},
         scr'[s].status \in Unready \cup {"queued"},
         ResumeOf(s)' = CurrentOf(s), scr'[s].valid \in {scr[s].valid, "none"}
  PROVE  ContractStep(s)
<1>1. SeenStatus(scr[s].status) = scr[s].status /\ SeenStatus(scr'[s].status) = "waiting"
  BY DEF SeenStatus, Unready
<1> QED BY <1>1 DEF ContractStep, Contract!Begin, Contract!Pending, Contract!Same,
                    OpenOf, CurrentOf, ResumeOf

\* ... or one that moves without its report: to what it waits for next, to a worker, to
\* its end, or back, ...
LEMMA SeenMoves ==
  ASSUME NEW s \in Submissions, OpenOf(s)' = OpenOf(s), CurrentOf(s)' = CurrentOf(s),
         scr'[s].valid = scr[s].valid, ResumeOf(s)' = ResumeOf(s),
         \/ scr[s].status = "queued" /\ OpenOf(s) /\ scr'[s].status = "running"
         \/ scr[s].status = "running" /\ scr'[s].status \in {"failed", "queued"}
         \/ /\ scr[s].status \in Unready \cup {"queued"}
            /\ scr'[s].status \in Unready \cup {"queued", "paused"}
  PROVE  ContractStep(s)
<1>1. CASE scr[s].status = "queued" /\ OpenOf(s) /\ scr'[s].status = "running"
  <2>1. SeenStatus(scr[s].status) = "waiting" /\ SeenStatus(scr'[s].status) = "running"
    BY <1>1 DEF SeenStatus, Unready
  <2> QED BY <1>1, <2>1 DEF ContractStep, Contract!Start, Contract!Same,
                            OpenOf, CurrentOf, ResumeOf
<1>2. CASE scr[s].status = "running" /\ scr'[s].status \in {"failed", "queued"}
  <2>1. /\ SeenStatus(scr[s].status) = "running"
        /\ SeenStatus(scr'[s].status) \in {"failed", "waiting"}
    BY <1>2 DEF SeenStatus, Unready
  <2> QED BY <2>1 DEF ContractStep, Contract!Fail, Contract!Requeue, Contract!Pending,
                      Contract!Same, OpenOf, CurrentOf, ResumeOf
<1>3. CASE /\ scr[s].status \in Unready \cup {"queued"}
           /\ scr'[s].status \in Unready \cup {"queued", "paused"}
  <2>1. /\ SeenStatus(scr[s].status) = "waiting"
        /\ SeenStatus(scr'[s].status) \in {"waiting", "paused"}
    BY <1>3 DEF SeenStatus, Unready
  <2> QED BY <2>1 DEF ContractStep, Contract!Pause, Contract!Rest,
                      Contract!Same, OpenOf, CurrentOf, ResumeOf
<1> QED BY <1>1, <1>2, <1>3

\* ... or comes back, for the resume that is current, ...
LEMMA SeenResumes ==
  ASSUME NEW s \in Submissions, OpenOf(s)' = OpenOf(s), CurrentOf(s)' = CurrentOf(s),
         scr'[s].valid = scr[s].valid, ResumeOf(s)' = CurrentOf(s), OpenOf(s),
         scr[s].status = "paused", scr'[s].status \in Unready \cup {"queued"}
  PROVE  ContractStep(s)
<1>1. SeenStatus(scr[s].status) = "paused" /\ SeenStatus(scr'[s].status) = "waiting"
  BY DEF SeenStatus, Unready
<1> QED BY <1>1 DEF ContractStep, Contract!Resume, Contract!Same, OpenOf, CurrentOf, ResumeOf

\* ... or succeeds with its report, ...
LEMMA SeenSucceeds ==
  ASSUME NEW s \in Submissions, OpenOf(s)' = OpenOf(s), CurrentOf(s)' = CurrentOf(s),
         ResumeOf(s)' = ResumeOf(s), ResumeOf(s) = CurrentOf(s),
         scr[s].status = "running", scr'[s].status = "succeeded",
         scr'[s].valid = CurrentOf(s)
  PROVE  ContractStep(s)
<1>1. SeenStatus(scr[s].status) = "running" /\ SeenStatus(scr'[s].status) = "succeeded"
  BY DEF SeenStatus, Unready
<1> QED BY <1>1 DEF ContractStep, Contract!Succeed, Contract!Same, OpenOf, CurrentOf, ResumeOf

\* ... or a report that is marked outdated, ...
LEMMA SeenOutdates ==
  ASSUME NEW s \in Submissions, OpenOf(s)' = OpenOf(s), CurrentOf(s)' = CurrentOf(s),
         ResumeOf(s)' = ResumeOf(s), scr'[s].status = scr[s].status,
         scr'[s].valid \in {scr[s].valid, "none"}
  PROVE  ContractStep(s)
BY DEF ContractStep, Contract!Outdate, Contract!Rest, Contract!Same, OpenOf, CurrentOf, ResumeOf

\* ... or another resume.
LEMMA SeenSwitches ==
  ASSUME NEW s \in Submissions, OpenOf(s)' = OpenOf(s),
         CurrentOf(s)' \in Resumes \ {CurrentOf(s)}, ResumeOf(s)' = ResumeOf(s),
         scr'[s].valid = "none", scr[s] \in Screening,
         scr'[s].status = IF scr[s].status \in NotStarted THEN "failed" ELSE scr[s].status
  PROVE  ContractStep(s)
<1>0. scr[s].status # "waiting"
  BY DEF Screening, ScreeningOpen, ScreeningWaiting, Unready
<1>1. scr[s].status \in NotStarted <=> SeenStatus(scr[s].status) \in Contract!Pending
  BY <1>0 DEF SeenStatus, Contract!Pending, NotStarted, ScreeningOpen, ScreeningWaiting, Unready
<1>2. SeenStatus(scr'[s].status) = IF SeenStatus(scr[s].status) \in Contract!Pending
                                   THEN "failed" ELSE SeenStatus(scr[s].status)
  BY <1>1 DEF SeenStatus, Unready
<1> QED BY <1>2 DEF ContractStep, Contract!Switch, Contract!Same, OpenOf, CurrentOf, ResumeOf

\* All other applications rest while one moves.
LEMMA OneMoves ==
  ASSUME NEW s \in Submissions, UNCHANGED jobOpen, ContractStep(s),
         \A t \in Submissions \ {s} : current'[t] = current[t] /\ scr'[t] = scr[t]
  PROVE  Contract!Next
<1>1. ASSUME NEW t \in Submissions \ {s}
      PROVE  ContractStep(t)
  BY SeenRests DEF OpenOf, CurrentOf
<1> QED BY <1>1, StepsMakeNext

LEMMA NothingMoves ==
  ASSUME UNCHANGED <<jobOpen, current, scr>>
  PROVE  Contract!Next
BY SeenRests, StepsMakeNext DEF OpenOf, CurrentOf

\* A run that is added, or one that comes back, is new in the contract's eyes too.
LEMMA AskedScreening ==
  ASSUME Founded, NEW s \in Submissions, UNCHANGED <<jobOpen, current>>,
         current[s] # "none", scr[s].status \notin ScreeningOpen,
         NEW status \in StartsAs(s), NEW valid \in {scr[s].valid, "none"},
         scr' = [scr EXCEPT ![s] = NewScreening(s, status, valid)]
  PROVE  /\ ContractStep(s) /\ scr'[s].valid = valid /\ scr'[s].reports = scr[s].reports
         /\ \A t \in Submissions \ {s} : scr'[t] = scr[t]
<1>1. scr \in [Submissions -> Screening]
  BY DEF Founded, Consistent, TypeOK
<1>2. status \in Unready \cup {"queued"} /\ status \in ScreeningOpen /\ status # "none"
  BY Startable
<1>3. scr'[s] = NewScreening(s, status, valid) /\ \A t \in Submissions \ {s} : scr'[t] = scr[t]
  BY <1>1
<1>4. /\ scr'[s].status = status /\ scr'[s].of = current[s] /\ scr'[s].valid = valid
      /\ scr'[s].reports = scr[s].reports
  BY <1>2, <1>3, NewScreeningIs DEF Founded
<1>5. scr[s].status \in {"none", "succeeded", "failed"}
  BY <1>1 DEF Screening
<1>6. ContractStep(s)
  BY <1>2, <1>4, <1>5, SeenBegins DEF OpenOf, CurrentOf, ResumeOf
<1> QED BY <1>3, <1>4, <1>6

LEMMA OutdatedScreening ==
  ASSUME Founded, NEW s \in Submissions, UNCHANGED <<jobOpen, current>>,
         NEW valid \in {scr[s].valid, "none"}, scr' = [scr EXCEPT ![s].valid = valid]
  PROVE  ContractStep(s) /\ \A t \in Submissions \ {s} : scr'[t] = scr[t]
<1>1. scr \in [Submissions -> Screening]
  BY DEF Founded, Consistent, TypeOK
<1>2. /\ scr'[s].status = scr[s].status /\ scr'[s].of = scr[s].of
      /\ scr'[s].valid = valid /\ \A t \in Submissions \ {s} : scr'[t] = scr[t]
  BY <1>1 DEF Screening
<1> QED BY <1>2, SeenOutdates DEF OpenOf, CurrentOf, ResumeOf

\* An application that is made takes the new resume, or keeps the one it has.
LEMMA SubmitContracted ==
  ASSUME Founded, NEW s \in Submissions, Submit(s)
  PROVE  Contract!Next
<1>1. PICK which \in Resumes : current' = [current EXCEPT ![s] = which]
  BY DEF Submit
<1>2. /\ current \in [Submissions -> Resumes \cup {"none"}]
      /\ scr \in [Submissions -> Screening]
  BY DEF Founded, Consistent, TypeOK
<1>3. current[s] = "none" /\ UNCHANGED <<jobOpen, scr>>
  BY DEF Submit
<1>4. scr[s].status = "none"
  BY <1>3 DEF Founded, Consistent, ScreenedApplications
<1>5. scr[s].valid = "none"
  BY <1>4 DEF Founded, Earned, ScreeningKnown
<1>6. /\ CurrentOf(s)' = which /\ CurrentOf(s) = "own"
      /\ \A t \in Submissions \ {s} : current'[t] = current[t]
  BY <1>1, <1>2, <1>3 DEF CurrentOf, Resumes
<1>7. ContractStep(s)
  <2>1. CASE which = "own"
    BY <1>3, <1>6, <2>1, SeenRests DEF OpenOf
  <2>2. CASE which # "own"
    <3>1. OpenOf(s)' = OpenOf(s) /\ ResumeOf(s)' = ResumeOf(s)
      BY <1>3 DEF OpenOf, ResumeOf
    <3>2. scr[s].status \notin NotStarted
      BY <1>4 DEF NotStarted, ScreeningOpen, ScreeningWaiting, Unready
    <3>3. CurrentOf(s)' \in Resumes \ {CurrentOf(s)}
      BY <1>6, <2>2
    <3> QED BY <1>2, <1>3, <1>5, <3>1, <3>2, <3>3, SeenSwitches
  <2> QED BY <2>1, <2>2
<1> QED BY <1>3, <1>6, <1>7, OneMoves

\* The queue calls screening as the contract has it.
LEMMA QueueContracted ==
  ASSUME Founded, QueueStep
  PROVE  Contract!Next
<1>1. ASSUME NEW w \in Workers, WorkerStep(w) \/ StepError(w) \/ Crash(w)
      PROVE  UNCHANGED <<jobOpen, current>> /\ (UNCHANGED scr \/ TriggerScreening(w))
  BY <1>1
  DEF WorkerStep, ClaimSelect, ClaimCommit, RenewAndRead, RenewBeforeStructure, ReadText,
      ExtractText, StructureResume, ReadBeforeTrigger, TriggerScreening,
      ReadBeforeAwait, AwaitScreening, WriteOutcome, LeaseLost, ReleaseForRetry,
      StepError, Crash, env
<1>2. ASSUME NEW w \in Workers, TriggerScreening(w)
      PROVE  Contract!Next
  <2> DEFINE s == run[wk[w].run].sub
  <2>1. s \in Submissions /\ current[s] # "none"
    BY <1>2, WorkersSubmission DEF TriggerScreening, At, Resumes, Founded
  <2>2. UNCHANGED <<jobOpen, current>>
    BY <1>2 DEF TriggerScreening
  <2>3. \/ UNCHANGED scr
        \/ \E valid \in {scr[s].valid, "none"} : scr' = [scr EXCEPT ![s].valid = valid]
        \/ /\ scr[s].status \notin ScreeningOpen
           /\ \E status \in StartsAs(s), valid \in {scr[s].valid, "none"} :
                scr' = [scr EXCEPT ![s] = NewScreening(s, status, valid)]
    BY <1>2 DEF TriggerScreening
  <2> HIDE DEF s
  <2>4. CASE UNCHANGED scr
    BY <2>2, <2>4, NothingMoves
  <2>5. CASE ~UNCHANGED scr
    <3>1. PICK a \in Submissions :
            /\ current[a] # "none"
            /\ \/ \E valid \in {scr[a].valid, "none"} : scr' = [scr EXCEPT ![a].valid = valid]
               \/ /\ scr[a].status \notin ScreeningOpen
                  /\ \E status \in StartsAs(a), valid \in {scr[a].valid, "none"} :
                       scr' = [scr EXCEPT ![a] = NewScreening(a, status, valid)]
      BY <2>1, <2>3, <2>5
    <3>2. ContractStep(a) /\ \A t \in Submissions \ {a} : scr'[t] = scr[t]
      BY <2>2, <3>1, AskedScreening, OutdatedScreening
    <3> QED BY <2>2, <3>2, OneMoves
  <2> QED BY <2>4, <2>5
<1>3. CASE Tick
  BY <1>3, NothingMoves DEF Tick, env
<1>4. ASSUME NEW s \in Submissions, ManualRetry(s)
      PROVE  Contract!Next
  BY <1>4, NothingMoves DEF ManualRetry, env
<1> QED BY <1>1, <1>2, <1>3, <1>4, NothingMoves, SubmitContracted DEF QueueStep

\* What a step that leaves the queue alone must do to be one the contract allows.
LEMMA MoveContracted ==
  ASSUME Founded, Next, NEW s \in Submissions, ContractStep(s),
         UNCHANGED <<run, created, wk, tx, jobOpen>>,
         \A t \in Submissions : resume'[t].draft = resume[t].draft,
         current[s] # "none", current'[s] # "none",
         \A t \in Submissions \ {s} : current'[t] = current[t] /\ scr'[t] = scr[t],
         scr'[s].reports = scr[s].reports \cup ({scr'[s].valid} \ {"none"})
  PROVE  AsContracted
<1>1. TypeOK /\ TypeOK'
  BY FoundedStep DEF Founded, Consistent
<1>2. \A t \in Submissions : scr[t].valid # "none" => scr[t].valid \in scr[t].reports
  BY DEF Founded, Earned, ScreeningKnown
<1>3. ASSUME NEW t \in Submissions
      PROVE  /\ resume'[t].draft = resume[t].draft
             /\ current'[t] = "none" <=> current[t] = "none"
             /\ current[t] = "none" => scr'[t] = scr[t]
             /\ scr'[t].reports = scr[t].reports \cup ({scr'[t].valid} \ {"none"})
  <2>1. CASE t = s
    BY <2>1
  <2>2. CASE t # s
    BY <1>2, <2>2
  <2> QED BY <2>1, <2>2
<1>4. Contract!Next
  BY OneMoves
<1>5. hrLeft' \in 0..hrLeft /\ faultsLeft' \in 0..faultsLeft
  BY <1>1, Frames DEF TypeOK, HrAction
<1> QED BY <1>1, <1>3, <1>4, <1>5 DEF AsContracted, TypeOK

\* HR and screening do what the contract allows.
LEMMA HrContracted ==
  ASSUME Founded, Next, NEW s \in Submissions,
         SwitchResume(s) \/ Reassess(s) \/ HrExtracts(s)
  PROVE  AsContracted
<1>1. /\ scr \in [Submissions -> Screening]
      /\ current \in [Submissions -> Resumes \cup {"none"}]
      /\ resume \in [Submissions -> [text : BOOLEAN, draft : BOOLEAN]]
  BY DEF Founded, Consistent, TypeOK
<1>2. scr[s].valid # "none" => scr[s].valid \in scr[s].reports
  BY DEF Founded, Earned, ScreeningKnown
<1>3. CASE SwitchResume(s)
  <2>1. PICK which \in Resumes \ {current[s]} : current' = [current EXCEPT ![s] = which]
    BY <1>3 DEF SwitchResume
  <2>2. /\ scr'[s].valid = "none"
        /\ scr'[s].status = IF scr[s].status \in NotStarted THEN "failed" ELSE scr[s].status
        /\ scr'[s].of = scr[s].of /\ scr'[s].reports = scr[s].reports
        /\ \A t \in Submissions \ {s} : scr'[t] = scr[t]
    BY <1>1, <1>3 DEF SwitchResume, Screening
  <2>3. /\ current[s] # "none" /\ current'[s] = which /\ which # "none"
        /\ \A t \in Submissions \ {s} : current'[t] = current[t]
    BY <1>1, <1>3, <2>1 DEF SwitchResume, Resumes
  <2>4. UNCHANGED <<run, created, wk, tx, resume, jobOpen>>
    BY <1>3 DEF SwitchResume
  <2>5. "none" \notin NotStarted
    BY DEF NotStarted, ScreeningOpen, ScreeningWaiting, Unready
  <2>6. ContractStep(s)
    BY <1>1, <2>1, <2>2, <2>3, <2>4, <2>5, SeenSwitches DEF OpenOf, CurrentOf, ResumeOf
  <2> QED BY <2>2, <2>3, <2>4, <2>6, MoveContracted
<1>4. CASE Reassess(s)
  <2>1. /\ UNCHANGED <<run, created, wk, tx, resume, jobOpen, current>>
        /\ current[s] # "none" /\ scr[s].status \notin ScreeningOpen
    BY <1>4 DEF Reassess
  <2>2. PICK status \in StartsAs(s), valid \in {scr[s].valid, "none"} :
          scr' = [scr EXCEPT ![s] = NewScreening(s, status, valid)]
    BY <1>4 DEF Reassess
  <2>3. /\ ContractStep(s) /\ scr'[s].valid = valid /\ scr'[s].reports = scr[s].reports
        /\ \A t \in Submissions \ {s} : scr'[t] = scr[t]
    BY <2>1, <2>2, AskedScreening
  <2> QED BY <1>2, <2>1, <2>3, MoveContracted
<1>5. CASE HrExtracts(s)
  <2>1. UNCHANGED <<run, created, wk, tx, jobOpen, current>> /\ current[s] # "none"
    BY <1>5 DEF HrExtracts
  <2>2. \A t \in Submissions : resume'[t].draft = resume[t].draft
    BY <1>1, <1>5 DEF HrExtracts
  <2>3. CASE UNCHANGED scr
    <3>1. ContractStep(s)
      BY <2>1, <2>3, SeenRests DEF OpenOf, CurrentOf
    <3> QED BY <1>2, <2>1, <2>2, <2>3, <3>1, MoveContracted
  <2>4. ASSUME NEW status \in Unready \cup {"queued", "paused"},
               scr[s].status = "waiting_resume", scr' = [scr EXCEPT ![s].status = status]
        PROVE  AsContracted
    <3>1. /\ scr'[s].status = status /\ scr'[s].of = scr[s].of
          /\ scr'[s].valid = scr[s].valid /\ scr'[s].reports = scr[s].reports
          /\ \A t \in Submissions \ {s} : scr'[t] = scr[t]
      BY <1>1, <2>4 DEF Screening
    <3>2. ResumeOf(s)' = ResumeOf(s) /\ scr[s].status \in Unready
      BY <2>4, <3>1 DEF ResumeOf, Unready
    <3>3. ContractStep(s)
      BY <2>1, <3>1, <3>2, SeenMoves DEF OpenOf, CurrentOf
    <3> QED BY <1>2, <2>1, <2>2, <3>1, <3>3, MoveContracted
  <2>5. \/ UNCHANGED scr
        \/ /\ scr[s].status = "waiting_resume"
           /\ \E status \in Unready \cup {"queued", "paused"} :
                scr' = [scr EXCEPT ![s].status = status]
    BY <1>5 DEF HrExtracts, Unready
  <2> QED BY <2>3, <2>4, <2>5
<1> QED BY <1>3, <1>4, <1>5

LEMMA ScreeningContracted ==
  ASSUME Founded, Next, NEW s \in Submissions, ScreeningStep(s) \/ ScreeningRequeued(s)
  PROVE  AsContracted
<1>1. scr \in [Submissions -> Screening]
  BY DEF Founded, Consistent, TypeOK
<1>2. scr[s].valid # "none" => scr[s].valid \in scr[s].reports
  BY DEF Founded, Earned, ScreeningKnown
<1>3. /\ UNCHANGED <<run, created, wk, tx, resume, jobOpen, current>>
      /\ scr[s].status \in ScreeningOpen
  BY DEF ScreeningStep, ScreeningWorkerStep, ScreeningStarts, ScreeningStopped, ScreeningEnds,
         ScreeningPauses, ScreeningResumes, ScreeningRequeued, NotStarted, ScreeningOpen,
         ScreeningWaiting
<1>4. current[s] # "none" /\ current[s] = CurrentOf(s) /\ scr[s].of = ResumeOf(s)
  BY <1>3, Startable DEF Founded, Consistent, ScreenedApplications, CurrentOf, ResumeOf
<1>5. ASSUME NEW status \in {"running", "failed", "paused", "queued"},
             scr' = [scr EXCEPT ![s].status = status],
             \/ scr[s].status = "queued" /\ OpenOf(s) /\ status = "running"
             \/ scr[s].status = "running" /\ status \in {"failed", "queued"}
             \/ scr[s].status \in Unready \cup {"queued"} /\ status = "paused"
      PROVE  AsContracted
  <2>1. /\ scr'[s].status = status /\ scr'[s].of = scr[s].of
        /\ scr'[s].valid = scr[s].valid /\ scr'[s].reports = scr[s].reports
        /\ \A t \in Submissions \ {s} : scr'[t] = scr[t]
    BY <1>1, <1>5 DEF Screening
  <2>2. ResumeOf(s)' = ResumeOf(s)
    BY <1>3, <2>1, Startable DEF ResumeOf
  <2>3. ContractStep(s)
    BY <1>3, <1>5, <2>1, <2>2, SeenMoves DEF OpenOf, CurrentOf
  <2> QED BY <1>2, <1>3, <1>4, <2>1, <2>3, MoveContracted
<1>6. CASE \/ ScreeningStarts(s) \/ ScreeningStopped(s) \/ ScreeningPauses(s)
           \/ ScreeningRequeued(s)
  BY <1>5, <1>6 DEF ScreeningStarts, ScreeningStopped, ScreeningPauses, ScreeningRequeued,
                    NotStarted, ScreeningOpen, ScreeningWaiting, OpenOf
<1>7. CASE ScreeningEnds(s)
  <2>1. CASE scr' = [scr EXCEPT ![s].status = "failed"]
    BY <1>5, <1>7, <2>1 DEF ScreeningEnds
  <2>2. CASE /\ scr[s].of = current[s]
             /\ scr' = [scr EXCEPT ![s].status = "succeeded", ![s].valid = current[s],
                                   ![s].reports = @ \cup {current[s]}]
    <3>1. /\ scr'[s].status = "succeeded" /\ scr'[s].of = scr[s].of
          /\ scr'[s].valid = current[s]
          /\ scr'[s].reports = scr[s].reports \cup {current[s]}
          /\ \A t \in Submissions \ {s} : scr'[t] = scr[t]
      BY <1>1, <2>2 DEF Screening
    <3>2. ResumeOf(s)' = ResumeOf(s) /\ scr[s].status = "running"
      BY <1>3, <1>7, <3>1 DEF ResumeOf, ScreeningEnds
    <3>3. ContractStep(s)
      BY <1>3, <1>4, <2>2, <3>1, <3>2, SeenSucceeds DEF OpenOf, CurrentOf
    <3> QED BY <1>3, <1>4, <3>1, <3>3, MoveContracted
  <2> QED BY <1>7, <2>1, <2>2 DEF ScreeningEnds
<1>8. CASE ScreeningResumes(s)
  <2>1. PICK status \in StartsAs(s) :
          scr' = [scr EXCEPT ![s] = NewScreening(s, status, scr[s].valid)]
    BY <1>8 DEF ScreeningResumes
  <2>2. status \in Unready \cup {"queued"} /\ status \in ScreeningOpen /\ status # "none"
    BY Startable
  <2>3. /\ scr'[s] = NewScreening(s, status, scr[s].valid)
        /\ \A t \in Submissions \ {s} : scr'[t] = scr[t]
    BY <1>1, <2>1
  <2>4. /\ scr'[s].status = status /\ scr'[s].of = current[s]
        /\ scr'[s].valid = scr[s].valid /\ scr'[s].reports = scr[s].reports
    BY <1>4, <2>2, <2>3, NewScreeningIs DEF Founded
  <2>5. scr[s].status = "paused" /\ OpenOf(s)
    BY <1>8 DEF ScreeningResumes, OpenOf
  <2>6. ResumeOf(s)' = CurrentOf(s)
    BY <1>4, <2>2, <2>4 DEF ResumeOf
  <2>7. ContractStep(s)
    BY <1>3, <2>2, <2>4, <2>5, <2>6, SeenResumes DEF OpenOf, CurrentOf
  <2> QED BY <1>2, <1>3, <1>4, <2>3, <2>4, <2>7, MoveContracted
<1> QED BY <1>6, <1>7, <1>8 DEF ScreeningStep, ScreeningWorkerStep

LEMMA JobContracted ==
  ASSUME Founded, Next, NEW j \in Jobs, ToggleJob(j)
  PROVE  AsContracted
<1>1. TypeOK /\ TypeOK'
  BY FoundedStep DEF Founded, Consistent
<1>2. UNCHANGED <<run, created, wk, tx, resume, current, scr>>
  BY DEF ToggleJob
<1>3. ASSUME NEW s \in Submissions
      PROVE  ContractStep(s)
  <2>1. OpenOf(s)' = OpenOf(s) \/ OpenOf(s)' = ~OpenOf(s)
    BY <1>1 DEF ToggleJob, OpenOf, TypeOK
  <2> QED BY <1>2, <2>1, SeenRests DEF CurrentOf
<1>4. \A s \in Submissions : scr[s].valid # "none" => scr[s].valid \in scr[s].reports
  BY DEF Founded, Earned, ScreeningKnown
<1>5. hrLeft' \in 0..hrLeft /\ faultsLeft' \in 0..faultsLeft
  BY <1>1, Frames DEF TypeOK, HrAction
<1> QED BY <1>1, <1>2, <1>3, <1>4, <1>5, StepsMakeNext DEF AsContracted, TypeOK

\* Every step of the model is one of the queue or one that the contract allows: what the
\* queue's model supposes of HR and of screening is within what Screening is proved to keep.
THEOREM EnvironmentContracted == Spec => ContractSpec
<1>1. Founded /\ Next => QueueStep \/ AsContracted
  BY HrContracted, ScreeningContracted, JobContracted DEF Next, QueueStep
<1>2. Founded /\ [Next]_vars => [QueueStep \/ AsContracted]_vars
  BY <1>1
<1> QED BY <1>2, FoundedAlways, PTL DEF Spec, ContractSpec

\* What the contract tells the queue: a screening that was asked for is not forgotten, and
\* one that succeeds leaves a report.
LEMMA Told ==
  ASSUME Founded, AsContracted, NEW s \in Submissions
  PROVE  /\ scr[s].status # "none" => scr'[s].status # "none"
         /\ scr'[s].status = "succeeded" =>
              scr[s].status = "succeeded" \/ scr'[s].valid # "none"
         /\ scr'[s].status = "none" => scr'[s].valid \in {"none", scr[s].valid}
<1>1. ContractStep(s)
  BY DEF AsContracted, Contract!Next, ContractStep
<1>2. CurrentOf(s) # "none"
  BY DEF CurrentOf
<1> DEFINE seen(x) == /\ SeenStatus(x) = "none" <=> x = "none"
                      /\ SeenStatus(x) = "succeeded" <=> x = "succeeded"
<1>0. seen(scr[s].status) /\ seen(scr'[s].status)
  BY DEF SeenStatus, Unready
<1> HIDE DEF seen
<1> USE <1>0 DEF seen
<1>3. CASE Contract!Succeed(s) \/ Contract!LateSuccess(s)
  BY <1>2, <1>3 DEF Contract!Succeed, Contract!LateSuccess, CurrentOf
<1>4. CASE Contract!Begin(s) \/ Contract!Start(s) \/ Contract!Fail(s) \/ Contract!Pause(s)
           \/ Contract!Resume(s) \/ Contract!Requeue(s) \/ Contract!LateFailure(s)
  BY <1>4 DEF Contract!Begin, Contract!Start, Contract!Fail, Contract!Pause, Contract!Resume,
              Contract!Requeue, Contract!LateFailure, Contract!Pending
<1>5. CASE Contract!Outdate(s) \/ Contract!Switch(s) \/ Contract!ToggleJob(s)
           \/ Contract!Rest(s)
  BY <1>5 DEF Contract!Outdate, Contract!Switch, Contract!ToggleJob, Contract!Rest,
              Contract!Same, Contract!Pending
<1> QED BY <1>1, <1>3, <1>4, <1>5 DEF ContractStep

\* The invariant stands on no more than that.
LEMMA AccountedBeside ==
  ASSUME Accounted, AsContracted
  PROVE  Accounted'
<1>1. /\ UNCHANGED <<run, created, wk, tx>>
      /\ \A s \in Submissions : resume'[s].draft = resume[s].draft
  BY DEF AsContracted
<1>2. /\ \A s \in Submissions : scr[s].reports \subseteq scr'[s].reports
      /\ \A s \in Submissions : scr'[s].valid # "none" => scr'[s].valid \in scr'[s].reports
      /\ \A s \in Submissions : current'[s] = "none" <=> current[s] = "none"
      /\ \A s \in Submissions : current[s] = "none" => scr'[s] = scr[s]
  BY DEF AsContracted
<1>3. ASSUME NEW s \in Submissions
      PROVE  /\ scr[s].status # "none" => scr'[s].status # "none"
             /\ scr[s].reports # {} => scr'[s].reports # {}
             /\ scr'[s].status = "succeeded" => scr'[s].reports # {}
             /\ scr'[s].valid # "none" => scr'[s].status # "none"
  <2>1. /\ scr[s].status = "succeeded" => scr[s].reports # {}
        /\ scr[s].valid # "none" => scr[s].status # "none"
    BY DEF Accounted, Founded, Earned, ScreeningKnown
  <2> QED BY <1>2, <2>1, Told DEF Accounted
<1>4. /\ \A r \in RunIds : run[r].status # "absent" => run[r].sub \in Submissions
      /\ \A r \in RunIds : run[r].step = "await_screening" => run[r].sub \in Submissions
      /\ \A w \in Workers : wk[w].pc # "idle" =>
           wk[w].run \in RunIds /\ run[wk[w].run].sub \in Submissions
  BY WorkersSubmission
     DEF Accounted, Founded, Consistent, TypeOK, RowsExist, WorkersBusyWithRows, Row
<1>5. TypeOK'
  BY <1>1 DEF AsContracted, Accounted, Founded, Consistent, TypeOK
<1>6. RowsExist' /\ ScreenedApplications'
  BY <1>1, <1>2, <1>4 DEF Accounted, Founded, Consistent, RowsExist, ScreenedApplications
<1>7. WorkersBusyWithRows' /\ ClaimsApart' /\ ClaimsSound'
  BY <1>1 DEF Accounted, Founded, Consistent, WorkersBusyWithRows, ClaimsApart, ClaimsSound,
              ClaimSound, Held, RowToClaim, AfterRecovery
<1>8. RowConstraints' /\ BeliefHolds' /\ OneActiveRun' /\ StructureAccounted'
  <2>1. RowConstraints' /\ BeliefHolds' /\ OneActiveRun'
    BY <1>1 DEF Accounted, Founded, Earned, RowConstraints, RowAllowed, BeliefHolds, OneActiveRun
  <2>2. \A r \in RunIds :
          run[r].step \in {"trigger_screening", "await_screening", "completed"} =>
            run[r].sub \in Submissions
    BY <1>4 DEF Accounted, Founded, Consistent, RowsExist, AbsentRow
  <2>3. StructureAccounted'
    BY <1>1, <2>2 DEF Accounted, StructureAccounted
  <2> QED BY <2>1, <2>3
<1>9. OutcomeEarned'
  <2> SUFFICES ASSUME NEW w \in Workers, wk[w].pc = "write"
               PROVE  OutEarned(w)'
    BY <1>1 DEF OutcomeEarned
  <2>1. OutEarned(w) /\ run[wk[w].run].sub \in Submissions
    BY <1>4 DEF Accounted, Founded, Earned, OutcomeEarned
  <2> QED BY <1>1, <1>3, <2>1 DEF OutEarned
<1>10. ScreeningKnown'
  <2>1. /\ \A r \in RunIds :
             run'[r].step = "await_screening" => scr'[run'[r].sub].status # "none"
        /\ \A w \in Workers :
             wk'[w].pc \in {"step", "called"} /\ wk'[w].step = "await_screening"
               => scr'[run'[wk'[w].run].sub].status # "none"
    BY <1>1, <1>3, <1>4 DEF Accounted, Founded, Earned, ScreeningKnown
  <2> QED BY <1>2, <1>3, <2>1 DEF ScreeningKnown
<1>11. SuccessHasReport'
  BY <1>1, <1>3, <1>4 DEF Accounted, SuccessHasReport, Success
<1> QED BY <1>5, <1>6, <1>7, <1>8, <1>9, <1>10, <1>11
        DEF Accounted, Founded, Consistent, Earned

LEMMA QueueSteps == QueueStep => Next
BY DEF QueueStep, Next

LEMMA AccountedBesideAlways == ContractSpec => []Accounted
<1>1. Accounted /\ [QueueStep \/ AsContracted]_vars => Accounted'
  BY AccountedStep, AccountedRests, AccountedBeside, QueueSteps
<1> QED BY <1>1, AccountedStarts, PTL DEF ContractSpec

\* Beside any screening service that keeps the contract, whatever else it does and however
\* it interleaves with the workers: no submission gets two active rows, no row breaks a
\* CHECK, no structuring is skipped, no run succeeds without a report.
THEOREM SafeBesideContract ==
  ContractSpec => [](OneActiveRun /\ RowConstraints /\ StructureAccounted /\ SuccessHasReport)
BY AccountedBesideAlways, PTL DEF Accounted, Founded

\* There too rows are a history, and a lease that runs is respected.
THEOREM StepsBesideContract == ContractSpec => HistoryKept /\ LiveLeaseRespected
<1>1. ASSUME Accounted, [QueueStep \/ AsContracted]_vars, NEW r \in RunIds
      PROVE  run'[r] = run[r] \/ (KeepsHistory(r) /\ RespectsLease(r))
  <2>1. CASE QueueStep
    BY <1>1, <2>1, QueueSteps, HistoryStep, LeaseStep DEF Accounted, Founded
  <2>2. CASE AsContracted \/ UNCHANGED vars
    BY <2>2 DEF AsContracted, vars
  <2> QED BY <1>1, <2>1, <2>2
<1>2. Accounted /\ [QueueStep \/ AsContracted]_vars
        => [\A r \in RunIds :
              run[r].status # "absent" =>
                /\ run[r].status \in Terminal => run'[r] = run[r]
                /\ run'[r].sub = run[r].sub
                /\ StepRank(run'[r].step) >= StepRank(run[r].step)]_vars
  <2> SUFFICES ASSUME Accounted, [QueueStep \/ AsContracted]_vars, NEW r \in RunIds
               PROVE  KeepsHistory(r)
    BY DEF KeepsHistory
  <2> QED BY <1>1 DEF KeepsHistory, StepRank
<1>3. Accounted /\ [QueueStep \/ AsContracted]_vars
        => [\A r \in RunIds :
              run[r].status = "running" /\ run[r].left >= 0
                /\ run'[r] # run[r] /\ run'[r] # [run[r] EXCEPT !.left = @ - 1]
              => wk'[run[r].owner] # wk[run[r].owner]]_vars
  BY <1>1 DEF RespectsLease
<1> QED BY <1>2, <1>3, AccountedBesideAlways, PTL
        DEF ContractSpec, HistoryKept, LiveLeaseRespected

\* And what HR, screening and the queue do together is what the contract says.
THEOREM ContractSeen == ContractSpec => Contract!Spec
<1>1. Init => Contract!Init
  <2> SUFFICES ASSUME Init PROVE Contract!Init
    OBVIOUS
  <2>1. \A s \in Submissions : jobOpen[JobOf[s]] \in BOOLEAN
    BY ConstantsOK DEF Init
  <2>2. \A s \in Submissions :
          current[s] = "none" /\ scr[s].status = "none" /\ scr[s].valid = "none"
    BY DEF Init
  <2>3. "own" \in Resumes
    BY DEF Resumes
  <2>4. SeenStatus("none") = "none"
    BY DEF SeenStatus, Unready
  <2> QED BY <2>1, <2>2, <2>3, <2>4 DEF Contract!Init
<1>2. Accounted /\ (QueueStep \/ AsContracted) => Contract!Next
  BY QueueContracted DEF AsContracted, Accounted
<1>3. UNCHANGED vars => UNCHANGED Contract!vars
  BY DEF vars, Contract!vars
<1>4. Accounted /\ [QueueStep \/ AsContracted]_vars => [Contract!Next]_(Contract!vars)
  BY <1>2, <1>3
<1> QED BY <1>1, <1>4, AccountedBesideAlways, PTL DEF ContractSpec, Contract!Spec
=============================================================================
