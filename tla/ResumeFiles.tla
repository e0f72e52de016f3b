----------------------------- MODULE ResumeFiles -----------------------------
(* A resume is a row and a file, and no transaction spans both: resume_service,  *)
(* resume_structure_service, resume_storage, resume_file_cleanup and             *)
(* resume_retention_service, with the callers that bind a resume.                *)
(* Sessions are API requests and workers; Sweeper is the retention loop.  Rows   *)
(* are numbered in the order of their uploads.  A row that was inserted but not  *)
(* committed is not a row yet; what one transaction does while it holds a row's  *)
(* lock and touches no file is one step.                                         *)
EXTENDS Naturals, FiniteSets, FiniteSetsExt

CONSTANTS
  Resumes,       \* the ids uploads may get, a set of numbers
  Parsed,        \* those that are uploaded and parsed when the run begins
  Sessions,
  Sweeper,       \* one of Sessions
  MaxAttempts,   \* bound: structuring attempts of a row
  CallBudget,    \* bound: requests
  FaultBudget,   \* bound: crashes, failed commits and failed file operations
  BatchSize      \* retention_hours' rows, and trash files, per sweep

ASSUME SweeperIsASession == Sweeper \in Sessions
ASSUME ParsedAreResumes == Parsed \subseteq Resumes /\ Resumes \subseteq Nat \ {0}
ASSUME BoundsOK == {MaxAttempts, CallBudget, FaultBudget, BatchSize} \subseteq Nat

VARIABLES
  row,     \* resumes
  file,    \* where the file of a resume is
  sess,    \* what each session is doing
  sweep,   \* what is left of the sweep that is running
  broken,  \* resumes whose row and file a crash or a lost answer took apart
  callsLeft, faultsLeft

vars == <<row, file, sess, sweep, broken, callsLeft, faultsLeft>>

Owners == {"none", "candidate", "application"}  \* candidate_id, and whether an application uses it
Row == [life : {"none", "stored", "deleted"},
        owner : Owners,
        parse : {"uploaded", "parsed", "failed"}, text : BOOLEAN,
        status : {"not_started", "processing", "succeeded", "failed"},
        attempt : 0..MaxAttempts, fresh : BOOLEAN,     \* started_at > now - lease
        draft : 0..MaxAttempts, confirmed : BOOLEAN,   \* parsed_snapshot: whose draft, and a profile
        old : BOOLEAN]                                 \* uploaded_at <= now - retention
NewRow == [life |-> "none", owner |-> "none", parse |-> "uploaded", text |-> FALSE,
           status |-> "not_started", attempt |-> 0, fresh |-> FALSE,
           draft |-> 0, confirmed |-> FALSE, old |-> FALSE]
Session == [pc : {"idle", "staged", "promoted", "read", "extract", "model", "quarantined", "deleted"},
            row : Resumes \cup {0}, attempt : 0..MaxAttempts,
            had : BOOLEAN]  \* read: the row had a text; model: its snapshot had a profile
Idle == [pc |-> "idle", row |-> 0, attempt |-> 0, had |-> FALSE]

Init ==
  /\ row = [r \in Resumes |->
              IF r \in Parsed THEN [NewRow EXCEPT !.life = "stored", !.parse = "parsed", !.text = TRUE]
                              ELSE NewRow]
  /\ file = [r \in Resumes |-> IF r \in Parsed THEN "live" ELSE "none"]
  /\ sess = [s \in Sessions |-> Idle]
  /\ sweep = [phase |-> "sleep", todo |-> {}]
  /\ broken = {} /\ callsLeft = CallBudget /\ faultsLeft = FaultBudget

Stored(r) == row[r].life = "stored"
At(s, pc) == sess[s].pc = pc
Holder(r, pc) == \E s \in Sessions : sess[s].row = r /\ At(s, pc)
Locked(r) == Holder(r, "extract") \/ Holder(r, "quarantined")
Smallest(n, set) == {r \in set : Cardinality({q \in set : q < r}) < n}

Goes(s, to) == sess' = [sess EXCEPT ![s] = to]
Ends(s) == Goes(s, Idle)
Writes(r, to) == row' = [row EXCEPT ![r] = to]
Moves(r, to) == file' = [file EXCEPT ![r] = to]
Call(s) ==
  s # Sweeper /\ At(s, "idle") /\ callsLeft > 0 /\ callsLeft' = callsLeft - 1 /\ UNCHANGED faultsLeft
Fault == faultsLeft > 0 /\ faultsLeft' = faultsLeft - 1 /\ UNCHANGED callsLeft
NoFault == UNCHANGED <<callsLeft, faultsLeft>>

-----------------------------------------------------------------------------
(* Uploads: upload_resume, and accept of a public application. *)

StartUpload(s) ==
  /\ Call(s)
  /\ \E r \in Smallest(1, {q \in Resumes : row[q].life = "none" /\ file[q] = "none"}) :
       Moves(r, "staged") /\ Goes(s, [Idle EXCEPT !.pc = "staged", !.row = r])
  /\ UNCHANGED <<row, sweep, broken>>

Promote(s) ==
  /\ At(s, "staged") /\ NoFault
  /\ Moves(sess[s].row, "live") /\ Goes(s, [sess[s] EXCEPT !.pc = "promoted"])
  /\ UNCHANGED <<row, sweep, broken>>

CommitUpload(s) ==
  /\ At(s, "promoted") /\ NoFault
  /\ \E o \in Owners :
       Writes(sess[s].row, [NewRow EXCEPT !.life = "stored", !.owner = o])
  /\ Ends(s) /\ UNCHANGED <<file, sweep, broken>>

Discarded(s) == "none"

\* Rollback, then the file is discarded.
AbortUpload(s) ==
  /\ (At(s, "staged") \/ At(s, "promoted")) /\ Fault
  /\ Moves(sess[s].row, Discarded(s)) /\ Ends(s) /\ UNCHANGED <<row, sweep, broken>>

\* The same, but the commit that raised had been carried out.
UploadAnswerLost(s) ==
  /\ At(s, "promoted") /\ Fault
  /\ \E o \in Owners :
       Writes(sess[s].row, [NewRow EXCEPT !.life = "stored", !.owner = o])
  /\ Moves(sess[s].row, Discarded(s)) /\ Ends(s) /\ broken' = broken \cup {sess[s].row}
  /\ UNCHANGED sweep

-----------------------------------------------------------------------------
(* extract_text: an unlocked read, a flush that takes the row's lock, and the commit. *)

CallExtract(s) ==
  /\ Call(s)
  /\ \E r \in Resumes : /\ Stored(r) /\ ~(row[r].parse = "parsed" /\ row[r].text)
                        /\ Goes(s, [Idle EXCEPT !.pc = "read", !.row = r, !.had = row[r].text])
  /\ UNCHANGED <<row, file, sweep, broken>>

\* The UPDATE of a row that is gone raises StaleDataError.
LockExtract(s) ==
  /\ At(s, "read") /\ ~Locked(sess[s].row) /\ NoFault
  /\ IF Stored(sess[s].row) THEN Goes(s, [sess[s] EXCEPT !.pc = "extract"]) ELSE Ends(s)
  /\ UNCHANGED <<row, file, sweep, broken>>

\* Only what differs from the row as it was read is written: the text of a first
\* extraction, or its removal when there was one.
Extracted(s, ok) ==
  [row[sess[s].row] EXCEPT !.parse = IF ok THEN "parsed" ELSE "failed",
                           !.text = IF ok = sess[s].had THEN @ ELSE ok]

EndExtract(s) ==
  /\ At(s, "extract") /\ NoFault
  /\ \E ok \in {file[sess[s].row] = "live", FALSE} : Writes(sess[s].row, Extracted(s, ok))
  /\ Ends(s) /\ UNCHANGED <<file, sweep, broken>>

-----------------------------------------------------------------------------
(* structure_resume: the attempt is committed, the model answers, the answer is stored. *)

Processing(r) == row[r].status = "processing" /\ row[r].fresh
Cached(r) == row[r].draft > 0 /\ row[r].status \in {"succeeded", "failed"}

CallStructure(s, force) ==
  /\ Call(s)
  /\ \E r \in Resumes :
       /\ Stored(r) /\ ~Locked(r) /\ (force \/ ~Cached(r))
       /\ row[r].parse = "parsed" /\ row[r].text /\ ~Processing(r) /\ row[r].attempt < MaxAttempts
       /\ Writes(r, [row[r] EXCEPT !.status = "processing", !.attempt = @ + 1, !.fresh = TRUE])
       /\ Goes(s, [pc |-> "model", row |-> r, attempt |-> row[r].attempt + 1,
                   had |-> row[r].draft > 0 /\ row[r].confirmed])
  /\ UNCHANGED <<file, sweep, broken>>

\* What a bug would do: storing a late answer of an attempt that was given up.
BugCurrent(s) == Stored(sess[s].row)

Current(s) == Stored(sess[s].row) /\ row[sess[s].row].attempt = sess[s].attempt

Structured(s) == [row[sess[s].row] EXCEPT !.status = "succeeded", !.draft = sess[s].attempt, !.confirmed = sess[s].had]

EndStructure(s) ==
  /\ At(s, "model") /\ ~Locked(sess[s].row) /\ NoFault
  /\ \/ Current(s) /\ Writes(sess[s].row, Structured(s))
     \/ Current(s) /\ Writes(sess[s].row, [row[sess[s].row] EXCEPT !.status = "failed"])
     \/ ~Current(s) /\ UNCHANGED row
  /\ Ends(s) /\ UNCHANGED <<file, sweep, broken>>

\* A rollback of an extraction's or an attempt's last transaction.
CommitFails(s) ==
  /\ (At(s, "extract") \/ At(s, "model")) /\ Fault
  /\ Ends(s) /\ UNCHANGED <<row, file, sweep, broken>>

-----------------------------------------------------------------------------
(* _delete_locked_resume: quarantine, commit or restore, purge. *)

Quarantine(s, r) ==
  Moves(r, "trash") /\ Goes(s, [Idle EXCEPT !.pc = "quarantined", !.row = r])

CallDelete(s) ==
  /\ Call(s)
  /\ \E r \in Resumes : /\ Stored(r) /\ ~Locked(r) /\ row[r].owner = "none"
                        /\ file[r] = "live" /\ Quarantine(s, r)
  /\ UNCHANGED <<row, sweep, broken>>

CommitDelete(s) ==
  /\ At(s, "quarantined") /\ NoFault
  /\ Writes(sess[s].row, [NewRow EXCEPT !.life = "deleted"])
  /\ Goes(s, [sess[s] EXCEPT !.pc = "deleted"]) /\ UNCHANGED <<file, sweep, broken>>

\* What a bug would do: leaving the file in the trash when the row stays.
BugRestored == "trash"

Restored == "live"

\* restore after a commit that failed, or one whose answer was lost.
DeleteFails(s) ==
  /\ At(s, "quarantined") /\ Fault
  /\ Moves(sess[s].row, Restored) /\ Ends(s)
  /\ \/ UNCHANGED <<row, broken>>
     \/ Writes(sess[s].row, [NewRow EXCEPT !.life = "deleted"]) /\ broken' = broken \cup {sess[s].row}
  /\ UNCHANGED sweep

Purge(s) ==
  /\ At(s, "deleted") /\ Ends(s)
  /\ \/ Moves(sess[s].row, "none") /\ NoFault
     \/ UNCHANGED file /\ Fault
  /\ UNCHANGED <<row, sweep, broken>>

-----------------------------------------------------------------------------
(* intake, create_candidate_from_resume, delete_candidate *)

\* What a bug would do: reading the resume without FOR UPDATE.
BugMayBind(r) == Stored(r)

MayBind(r) == Stored(r) /\ ~Locked(r)

\* intake may store the profile HR confirmed; create_candidate_from_resume stores none.
Bind(r, owner, profile) ==
  /\ MayBind(r) /\ callsLeft > 0 /\ callsLeft' = callsLeft - 1
  /\ IF owner = "candidate" THEN row[r].owner = "none" /\ ~profile ELSE TRUE
  /\ Writes(r, [row[r] EXCEPT !.owner = owner, !.confirmed = @ \/ profile])
  /\ UNCHANGED <<file, sess, sweep, broken, faultsLeft>>

\* applications.candidate_id restricts: only a candidate without application goes.
Unbind(r) ==
  /\ Stored(r) /\ row[r].owner = "candidate" /\ ~Locked(r) /\ callsLeft > 0 /\ callsLeft' = callsLeft - 1
  /\ Writes(r, [row[r] EXCEPT !.owner = "none"])
  /\ UNCHANGED <<file, sess, sweep, broken, faultsLeft>>

-----------------------------------------------------------------------------
(* run_once of the retention service *)

Expired(r) == Stored(r) /\ row[r].owner = "none" /\ row[r].old /\ ~Processing(r)

Selected == Smallest(BatchSize, {r \in Resumes : Expired(r)})

StartSweep ==
  /\ sweep.phase = "sleep" /\ At(Sweeper, "idle") /\ NoFault
  /\ sweep' = [phase |-> "rows", todo |-> Selected]
  /\ UNCHANGED <<row, file, sess, broken>>

Rest == sweep' = [sweep EXCEPT !.todo = @ \ {Min(@)}]

\* What a bug would do: trusting the list.
BugStillExpired(r) == Stored(r) /\ ~Locked(r)

\* with_for_update(skip_locked=True) over the same conditions
StillExpired(r) == Expired(r) /\ ~Locked(r)

\* A row that changed is skipped, one whose file is missing fails and stays.
SweepRow ==
  /\ sweep.phase = "rows" /\ At(Sweeper, "idle") /\ sweep.todo # {} /\ Rest /\ NoFault
  /\ LET r == Min(sweep.todo) IN
     IF StillExpired(r) /\ file[r] = "live" THEN Quarantine(Sweeper, r) ELSE UNCHANGED <<file, sess>>
  /\ UNCHANGED <<row, broken>>

ListTrash ==
  /\ sweep.phase = "rows" /\ At(Sweeper, "idle") /\ sweep.todo = {} /\ NoFault
  /\ sweep' = [phase |-> "trash", todo |-> Smallest(BatchSize, {r \in Resumes : file[r] = "trash"})]
  /\ UNCHANGED <<row, file, sess, broken>>

\* What a bug would do: keeping what belonged to a row.
BugRetained(r) == row[r].life # "none"

Retained(r) == Stored(r)

PurgeTrash ==
  /\ sweep.phase = "trash" /\ sweep.todo # {} /\ Rest
  /\ LET r == Min(sweep.todo) IN
     \/ Retained(r) /\ UNCHANGED file /\ NoFault
     \/ ~Retained(r) /\ file' = [file EXCEPT ![r] = IF @ = "trash" THEN "none" ELSE @] /\ NoFault
     \/ ~Retained(r) /\ UNCHANGED file /\ Fault
  /\ UNCHANGED <<row, sess, broken>>

EndSweep ==
  /\ sweep.phase = "trash" /\ sweep.todo = {} /\ NoFault
  /\ sweep' = [phase |-> "sleep", todo |-> {}]
  /\ UNCHANGED <<row, file, sess, broken>>

-----------------------------------------------------------------------------
(* Time and crashes *)

Age(r) ==
  /\ Stored(r) /\ ~row[r].old /\ Writes(r, [row[r] EXCEPT !.old = TRUE])
  /\ UNCHANGED <<file, sess, sweep, broken>> /\ NoFault

LeaseEnds(r) ==
  /\ row[r].fresh /\ Writes(r, [row[r] EXCEPT !.fresh = FALSE])
  /\ UNCHANGED <<file, sess, sweep, broken>> /\ NoFault

\* A process ends: its transactions are rolled back, the files stay where they are.
Crash(dead) ==
  /\ \E s \in dead : ~At(s, "idle")
  /\ Fault
  /\ sess' = [s \in Sessions |-> IF s \in dead THEN Idle ELSE sess[s]]
  /\ sweep' = IF Sweeper \in dead THEN [phase |-> "sleep", todo |-> {}] ELSE sweep
  /\ broken' = broken \cup {sess[s].row : s \in {d \in dead : sess[d].pc \in {"staged", "promoted", "quarantined"}}}
  /\ UNCHANGED <<row, file>>

SessionStep(s) ==
  \/ Promote(s) \/ CommitUpload(s) \/ LockExtract(s) \/ EndExtract(s)
  \/ EndStructure(s) \/ CommitDelete(s) \/ Purge(s)
SweepStep == StartSweep \/ SweepRow \/ ListTrash \/ PurgeTrash \/ EndSweep
Request(s) ==
  \/ StartUpload(s) \/ CallExtract(s) \/ CallDelete(s)
  \/ \E force \in BOOLEAN : CallStructure(s, force)
Failure(s) == AbortUpload(s) \/ UploadAnswerLost(s) \/ CommitFails(s) \/ DeleteFails(s)
Elsewhere(r) ==
  \/ Unbind(r) \/ Age(r) \/ LeaseEnds(r)
  \/ \E o \in {"candidate", "application"}, profile \in BOOLEAN : Bind(r, o, profile)

Next ==
  \/ \E s \in Sessions : SessionStep(s) \/ Request(s) \/ Failure(s)
  \/ SweepStep
  \/ \E r \in Resumes : Elsewhere(r)
  \/ \E dead \in SUBSET Sessions : Crash(dead)

Spec == Init /\ [][Next]_vars

\* Requests that started go on, and the retention loop never stops (main.py starts it and
\* run_once catches what a row raises); requests, faults and the clock are not fair.
FairSpec == Spec /\ WF_vars(SweepStep) /\ \A s \in Sessions : WF_vars(SessionStep(s))

-----------------------------------------------------------------------------
TypeOK ==
  /\ row \in [Resumes -> Row] /\ sess \in [Sessions -> Session]
  /\ file \in [Resumes -> {"none", "staged", "live", "trash"}]
  /\ sweep \in [phase : {"sleep", "rows", "trash"}, todo : SUBSET Resumes]
  /\ broken \subseteq Resumes /\ callsLeft \in 0..CallBudget /\ faultsLeft \in 0..FaultBudget

\* A stored row has its file where file_path says, except while a deletion that holds the
\* row's lock has it in the trash: whatever fails in between puts it back.  Only a crash in
\* those steps, or a commit whose answer is lost, takes the two apart.
RowHasFile ==
  \A r \in Resumes \ broken :
    Stored(r) => file[r] = "live" \/ (file[r] = "trash" /\ Holder(r, "quarantined"))

\* And the reverse: a file belongs to a row, to an upload under way, or is in the trash
\* where the sweep finds it.
FileHasRow ==
  \A r \in Resumes \ broken :
    /\ file[r] = "live" => Stored(r) \/ Holder(r, "promoted")
    /\ file[r] = "staged" => Holder(r, "staged")
    /\ file[r] = "trash" => row[r].life = "deleted" \/ Holder(r, "quarantined")

\* Rows and files stay together.
FilesFitRows == TypeOK /\ RowHasFile /\ FileHasRow

\* The retention deletes nothing that was bound, or is being structured, since it was listed.
SweepsOnlyExpired == At(Sweeper, "quarantined") => Expired(sess[Sweeper].row)

\* The resume of an application is never deleted, nor its file moved, whatever deletions
\* and sweeps were under way when it was bound.
AppliedKept ==
  [][\A r \in Resumes : row[r].owner = "application" =>
       /\ row'[r].life = "stored" /\ row'[r].owner = "application"
       /\ file'[r] = file[r]]_vars

\* A stored draft gives way only to the answer of the row's latest attempt, and a profile
\* HR confirmed only to an attempt that began before the confirmation (or before there was
\* a draft), which stores the snapshot as it had read it.
DraftIsLatest ==
  [][\A r \in Resumes : row'[r].life # "deleted" =>
       /\ row'[r].draft # row[r].draft => row'[r].draft = row[r].attempt
       /\ row[r].confirmed /\ ~row'[r].confirmed =>
            \E s \in Sessions : At(s, "model") /\ sess[s].row = r /\ ~sess[s].had]_vars

\* A stored row whose file is missing: it fails in each sweep, and is listed again.
Missing(r) == Stored(r) /\ file[r] # "live"

\* An expired resume goes, unless rows before it whose file is missing fill every batch;
\* the file of a deleted row leaves the trash, unless files before it whose rows are still
\* there fill every batch.
SweepFinishes ==
  \A r \in Resumes :
    /\ Expired(r) ~> (~Expired(r) \/ \E q \in Resumes : q <= r /\ Missing(q))
    /\ row[r].life = "deleted" /\ file[r] = "trash"
         ~> (file[r] # "trash" \/ \E q \in Resumes : q < r /\ file[q] = "trash" /\ Stored(q))
=============================================================================
