-------------------------------- MODULE Intake --------------------------------
(* Two doors into an application: public_application_service.accept, for the     *)
(* candidates' page, and application_intake_service.intake, for HR.  Each is one *)
(* transaction that takes its locks one by one (advisory locks on the key, the   *)
(* contacts and the name; the rows of the job, of the resume, of the candidates  *)
(* with its contacts and of the one HR named), then decides under them, then     *)
(* commits.  What a transaction wrote is invisible until its commit.  A          *)
(* request's file is the subject of ResumeFiles.                                 *)
EXTENDS Naturals, Sequences, FiniteSets, SequencesExt

CONSTANTS
  Requests,      \* what is sent, and sent again: a set of Request records
  Jobs, HrResumes, Sessions,
  Entered,       \* candidates that HR had entered by hand
  None,          \* no candidate, application, submission or key
  CallBudget,    \* bound: requests
  EventBudget    \* bound: crashes, failed commits, lost answers, and what HR does elsewhere

ASSUME NoneIsNobody ==
  None \notin Jobs \cup HrResumes /\ None \notin 1..CallBudget + Len(Entered)
ASSUME RequestsOK ==
  \A q \in Requests :
    /\ q.kind \in {"public", "direct", "screening"} /\ q.job \in Jobs
    /\ q.kind # "public" => q.resume \in HrResumes
ASSUME BudgetsOK == CallBudget \in Nat /\ EventBudget \in Nat

VARIABLES
  cands,   \* candidates, in the order of their ids
  apps,    \* applications
  subs,    \* public_application_submissions
  owner,   \* resumes.candidate_id of the resumes HR uploaded
  open,    \* the jobs that are open
  sess,    \* the transaction of each session
  said,    \* the answer this step has sent, if it sent one
  callsLeft, eventsLeft

vars == <<cands, apps, subs, owner, open, sess, said, callsLeft, eventsLeft>>
rows == <<cands, apps, subs, owner>>
budgets == <<callsLeft, eventsLeft>>

Names == {q.name : q \in Requests}
Phones == {q.phone : q \in Requests}
Emails == {q.email : q \in Requests}
Ids == 1..CallBudget + Len(Entered)
\* edited: entered or changed by hand
Candidate == [name : Names, phone : Phones, email : Emails, edited : BOOLEAN]
ASSUME EnteredOK == Entered \in Seq(Candidate) /\ \A c \in DOMAIN Entered : Entered[c].edited
Application ==
  [cand : Ids, job : Jobs, life : {"active", "ended"},  \* ended: or voided
   resume : HrResumes \cup {None},   \* None: the file of its public submission
   decision : {"pending", "passed"}]
Submission == [req : Requests, app : Ids, reason : {"none", "contact", "name"}]
Transaction ==
  [pc : {"idle", "locking", "matching", "ready", "again"}, req : Requests \cup {None},
   held : 0..6,                      \* how many of Locks(req) it has
   cand : Ids \cup {None}, app : Ids \cup {None},  \* None: a new row
   reason : {"none", "contact", "name"},
   wanted : SUBSET Ids,              \* candidates it has yet to lock
   matched : SUBSET Ids]             \* candidates read FOR UPDATE
Idle == [pc |-> "idle", req |-> None, held |-> 0, cand |-> None, app |-> None,
         reason |-> "none", wanted |-> {}, matched |-> {}]

Init ==
  /\ cands \in {<<>>, Entered} /\ apps = <<>> /\ subs = <<>>
  /\ owner = [r \in HrResumes |-> None]
  /\ open = Jobs
  /\ sess = [s \in Sessions |-> Idle]
  /\ said = None
  /\ callsLeft \in 0..CallBudget /\ eventsLeft \in 0..EventBudget

Public(q) == q.kind = "public"
Req(s) == sess[s].req
At(s, pc) == sess[s].pc = pc

-----------------------------------------------------------------------------
(* Locks *)

Contacts(q) == <<<<"email", q.email>>, <<"phone", q.phone>>>>
Key(q) == <<<<"key", q.key>>>>
Name(q) == <<<<"name", q.name>>>>
Job(q) == <<<<"job", q.job>>>>

\* What bugs would do: no locks on the contacts; none on the key; the contacts as
\* they come.
BugNoContactLocks(q) ==
  IF Public(q) THEN Key(q) \o Name(q) \o Job(q) ELSE Job(q) \o <<<<"resume", q.resume>>>>
BugNoKeyLock(q) ==
  IF Public(q) THEN Name(q) \o Job(q) ELSE Contacts(q) \o Job(q) \o <<<<"resume", q.resume>>>>
BugUnsorted(q) ==
  IF Public(q) THEN Key(q) \o Contacts(q) \o Name(q) \o Job(q)
  ELSE Reverse(Contacts(q)) \o Job(q) \o <<<<"resume", q.resume>>>>

\* Every transaction takes them in this order: the contacts are sorted, and "email:"
\* comes before "phone:".
Locks(q) ==
  IF Public(q) THEN Key(q) \o Contacts(q) \o Name(q) \o Job(q)
  ELSE Contacts(q) \o Job(q) \o <<<<"resume", q.resume>>>>

Held(s) == IF At(s, "idle") \/ At(s, "again") THEN {}
           ELSE {Locks(Req(s))[i] : i \in 1..sess[s].held}
Free(lock) == \A s \in Sessions : lock \notin Held(s)

\* What a bug would do: reading the applications without FOR UPDATE.
BugHeldApps(s) == {}

\* The applications that a decided transaction has read FOR UPDATE.
HeldApps(s) ==
  IF ~At(s, "ready") THEN {}
  ELSE {a \in DOMAIN apps : /\ apps[a].cand = sess[s].cand /\ apps[a].job = Req(s).job
                            /\ Public(Req(s)) \/ apps[a].life = "active"}
AppFree(a) == \A s \in Sessions : a \notin HeldApps(s)
CandFree(c) == \A s \in Sessions : c \notin sess[s].matched

-----------------------------------------------------------------------------
(* Answers *)

Tell(s, what) == said' = [req |-> Req(s), told |-> what]
Quiet == said' = None
Goes(s, to) == sess' = [sess EXCEPT ![s] = to]
Ends(s, what) == Goes(s, Idle) /\ Tell(s, what) /\ UNCHANGED rows
\* What a request is told: the number of a submission, its reference, or a word.
Reference(k) == <<"accepted", k>>
Refused == <<"refused", 0>>
Done == <<"done", 0>>
Error == <<"error", 0>>

Ask(s) ==
  /\ At(s, "idle") /\ callsLeft > 0 /\ callsLeft' = callsLeft - 1
  /\ \E q \in Requests : Goes(s, [Idle EXCEPT !.pc = "locking", !.req = q])
  /\ Quiet /\ UNCHANGED <<rows, open, eventsLeft>>

SubsOf(key) == {k \in DOMAIN subs : subs[k].req.key = key}

\* Behind the lock of the key: a known key is answered at once, or refused when the
\* rest of the request differs (its fingerprint).
KnownKey(s) ==
  \E k \in SubsOf(Req(s).key) : Ends(s, IF subs[k].req = Req(s) THEN Reference(k) ELSE Refused)

TakeLock(s) ==
  /\ At(s, "locking") /\ sess[s].held < Len(Locks(Req(s)))
  /\ LET lock == Locks(Req(s))[sess[s].held + 1]
         known == lock[1] = "key" /\ SubsOf(Req(s).key) # {}
         closed == lock[1] = "job" /\ Req(s).job \notin open
     IN /\ Free(lock)
        /\ \/ known /\ KnownKey(s)
           \/ closed /\ Ends(s, Refused)
           \/ ~known /\ ~closed /\ Goes(s, [sess[s] EXCEPT !.held = @ + 1]) /\ Quiet /\ UNCHANGED rows
  /\ UNCHANGED <<open, budgets>>

-----------------------------------------------------------------------------
(* Rows *)

SamePhone(q) == {c \in DOMAIN cands : cands[c].phone = q.phone}
SameEmail(q) == {c \in DOMAIN cands : cands[c].email = q.email}
Matches(q) == SamePhone(q) \cup SameEmail(q)
SameName(q) == {c \in DOMAIN cands : cands[c].name = q.name}

AllLocked(s) == At(s, "locking") /\ sess[s].held = Len(Locks(Req(s)))

\* _find_contact_matches: the rows as the statement starts; those that match later are not
\* among them.
FindMatches(s) ==
  /\ AllLocked(s)
  /\ Goes(s, [sess[s] EXCEPT !.pc = "matching", !.wanted = Matches(Req(s))])
  /\ Quiet /\ UNCHANGED <<rows, open, budgets>>

\* The candidate whose row comes next: the matches in the order of their ids, and after
\* them, whatever its id, the candidate that HR named.
NextRows(s) ==
  IF ~At(s, "matching") THEN {}
  ELSE IF sess[s].wanted # {} THEN {c \in sess[s].wanted : \A d \in sess[s].wanted : c <= d}
  ELSE ({Req(s).cand} \cap DOMAIN cands) \ sess[s].matched

TakeRow(s) ==
  /\ \E c \in NextRows(s) :
       /\ CandFree(c)
       /\ Goes(s, [sess[s] EXCEPT !.wanted = @ \ {c}, !.matched = @ \cup {c}])
  /\ Quiet /\ UNCHANGED <<rows, open, budgets>>

HasRows(s) == At(s, "matching") /\ sess[s].wanted = {} /\ NextRows(s) = {}

\* Who waits for whom.  A row of an application is awaited only behind the lock of its job,
\* where nobody else holds it, or by a transaction that holds nothing (LookAgain).
WaitsFor(s, t) ==
  \/ /\ At(s, "locking") /\ sess[s].held < Len(Locks(Req(s)))
     /\ Locks(Req(s))[sess[s].held + 1] \in Held(t)
  \/ NextRows(s) \cap sess[t].matched # {}

Waiting == {s \in Sessions : At(s, "locking") \/ NextRows(s) # {}}

Deadlocked(ring) ==
  ring # {} /\ \A s \in ring : (\E t \in ring : WaitsFor(s, t)) /\ (\E t \in ring : WaitsFor(t, s))

\* Postgres ends the transaction of one of them; no service tries again.
DeadlockVictim(s) ==
  /\ s \in Waiting /\ \E ring \in SUBSET Waiting : s \in ring /\ Deadlocked(ring)
  /\ Ends(s, Error)
  /\ UNCHANGED <<open, budgets>>

-----------------------------------------------------------------------------
(* Decisions *)

\* The candidates that still have a contact of the request under their locks.
Found(s) == sess[s].matched \cap Matches(Req(s))

\* What a bug would do: an email that matches is enough.
BugExact(s) == Found(s) \cap SameEmail(Req(s))

Exact(s) == Found(s) \cap SamePhone(Req(s)) \cap SameEmail(Req(s))

AppsOf(c, j) == {a \in DOMAIN apps : apps[a].cand = c /\ apps[a].job = j}
ActiveOf(c, j) == {a \in AppsOf(c, j) : apps[a].life = "active"}
SubOf(a) == {k \in DOMAIN subs : subs[k].app = a}
Some(set) == IF set = {} THEN None ELSE CHOOSE x \in set : TRUE

\* _resolve_candidate of the page: one candidate with both contacts, or a new one that
\* HR has to look at when a contact or the name is known.
Resolved(s) ==
  IF Cardinality(Exact(s)) = 1 THEN [cand |-> Some(Exact(s)), reason |-> "none"]
  ELSE [cand |-> None, reason |-> IF Found(s) # {} THEN "contact"
                                  ELSE IF SameName(Req(s)) # {} THEN "name" ELSE "none"]

Ready(s, cand, app, reason) ==
  /\ Goes(s, [sess[s] EXCEPT !.pc = "ready", !.cand = cand, !.app = app, !.reason = reason])
  /\ Quiet /\ UNCHANGED rows

\* accept, after its locks.
DecidePublic(s) ==
  /\ HasRows(s) /\ Public(Req(s))
  /\ LET to == Resolved(s)
         history == AppsOf(to.cand, Req(s).job)
         active == ActiveOf(to.cand, Req(s).job)
         told == UNION {SubOf(a) : a \in active}
     IN /\ \A a \in history : AppFree(a)
        /\ \/ history # active /\ Ends(s, Refused)
           \/ history = active /\ told # {} /\ Ends(s, Reference(Some(told)))
           \/ history = active /\ told = {} /\ Ready(s, to.cand, Some(active), to.reason)
  /\ UNCHANGED <<open, budgets>>

OwnerFits(r, c) == owner[r] \in {None, c}

\* HR names a candidate, who must have both contacts and be the only one with either of
\* them, or leaves it to the contacts.
IntakeConflict(s) ==
  LET q == Req(s) IN
  IF q.cand # None THEN q.cand \notin Exact(s) \/ Found(s) # {q.cand}
  ELSE Found(s) # {} /\ ~(Found(s) = Exact(s) /\ Cardinality(Found(s)) = 1)

\* intake, after its locks.
DecideIntake(s) ==
  /\ HasRows(s) /\ ~Public(Req(s))
  /\ LET cand == Some(Found(s))
         active == ActiveOf(cand, Req(s).job)
         refused == IntakeConflict(s) \/ ~OwnerFits(Req(s).resume, cand)
     IN \/ refused /\ Ends(s, Refused)
        \/ /\ ~refused /\ \A a \in active : AppFree(a)
           /\ Ready(s, cand, Some(active), "none")
  /\ UNCHANGED <<open, budgets>>

-----------------------------------------------------------------------------
(* Commits *)

NewCandidate(q) == [name |-> q.name, phone |-> q.phone, email |-> q.email, edited |-> FALSE]

NewApplication(q, c) ==
  [cand |-> c, job |-> q.job, life |-> "active", resume |-> IF Public(q) THEN None ELSE q.resume,
   decision |-> IF q.kind = "direct" THEN "passed" ELSE "pending"]

CandId(s) == IF sess[s].cand = None THEN Len(cands) + 1 ELSE sess[s].cand
AppId(s) == IF sess[s].app = None THEN Len(apps) + 1 ELSE sess[s].app

\* HR taking a candidate on directly passes an application that is already there.
Confirmed(q, a) ==
  [apps EXCEPT ![a].decision = IF q.kind = "direct" THEN "passed" ELSE @]

WriteCandidate(s) ==
  cands' = IF sess[s].cand = None THEN Append(cands, NewCandidate(Req(s))) ELSE cands
WriteApplication(s) ==
  apps' = IF sess[s].app = None THEN Append(apps, NewApplication(Req(s), CandId(s)))
          ELSE Confirmed(Req(s), sess[s].app)

\* The partial unique index on the active application of a candidate and a job.
IndexRefuses(s) == sess[s].app = None /\ ActiveOf(sess[s].cand, Req(s).job) # {}

Written(s) ==
  /\ WriteCandidate(s) /\ WriteApplication(s)
  /\ IF Public(Req(s))
     THEN /\ subs' = Append(subs, [req |-> Req(s), app |-> AppId(s), reason |-> sess[s].reason])
          /\ UNCHANGED owner
     ELSE /\ owner' = IF sess[s].app = None THEN [owner EXCEPT ![Req(s).resume] = CandId(s)] ELSE owner
          /\ UNCHANGED subs

\* The unique indexes of public_application_submissions, and the one above.
Fits(s) ==
  /\ ~IndexRefuses(s)
  /\ Public(Req(s)) => SubsOf(Req(s).key) = {} /\ SubOf(AppId(s)) = {}

Commit(s) ==
  /\ At(s, "ready") /\ Fits(s) /\ Written(s)
  /\ Goes(s, Idle) /\ Tell(s, IF Public(Req(s)) THEN Reference(Len(subs) + 1) ELSE Done)
  /\ UNCHANGED <<open, budgets>>

\* HR's intake rolls back, which gives up every lock, and looks for the application that
\* was in its way; a public application that an index refuses ends with an error.
IndexError(s) ==
  /\ At(s, "ready") /\ ~Fits(s)
  /\ \/ ~Public(Req(s)) /\ Goes(s, [sess[s] EXCEPT !.pc = "again", !.matched = {}]) /\ Quiet /\ UNCHANGED rows
     \/ Public(Req(s)) /\ Ends(s, Error)
  /\ UNCHANGED <<open, budgets>>

LookAgain(s) ==
  /\ At(s, "again")
  /\ LET found == ActiveOf(sess[s].cand, Req(s).job) IN
     /\ \A a \in found : AppFree(a)
     /\ \/ found = {} /\ Ends(s, Error)
        \/ /\ found # {} /\ apps' = Confirmed(Req(s), Some(found))
           /\ Goes(s, Idle) /\ Tell(s, Done) /\ UNCHANGED <<cands, subs, owner>>
  /\ UNCHANGED <<open, budgets>>

Event == eventsLeft > 0 /\ eventsLeft' = eventsLeft - 1 /\ UNCHANGED callsLeft

\* A process ends or a statement fails: everything is rolled back.
Abort(s) == ~At(s, "idle") /\ Event /\ Ends(s, Error) /\ UNCHANGED open

\* The commit is carried out, and its answer does not arrive.
AnswerLost(s) ==
  /\ At(s, "ready") /\ Fits(s) /\ Event
  /\ Written(s) /\ Goes(s, Idle) /\ Tell(s, Error) /\ UNCHANGED open

-----------------------------------------------------------------------------
(* What HR does elsewhere, each in a transaction that waits for the rows. *)

Hr == Event /\ Quiet /\ UNCHANGED sess

ToggleJob(j) ==
  /\ Hr /\ Free(<<"job", j>>)
  /\ open' = IF j \in open THEN open \ {j} ELSE open \cup {j}
  /\ UNCHANGED rows

\* Voiding an application is an ending that nobody undoes.
EndOrReopen(a) ==
  /\ Hr /\ AppFree(a)
  /\ apps[a].life = "active" \/ ActiveOf(apps[a].cand, apps[a].job) = {}
  /\ apps' = [apps EXCEPT ![a].life = IF @ = "active" THEN "ended" ELSE "active"]
  /\ UNCHANGED <<cands, subs, owner, open>>

\* update_candidate takes no advisory lock, only the row's.
EditCandidate(c) ==
  /\ Hr /\ CandFree(c)
  /\ \E p \in Phones, e \in Emails :
       /\ <<p, e>> # <<cands[c].phone, cands[c].email>>
       /\ cands' = [cands EXCEPT ![c] = [@ EXCEPT !.phone = p, !.email = e, !.edited = TRUE]]
  /\ UNCHANGED <<apps, subs, owner, open>>

-----------------------------------------------------------------------------
Step(s) ==
  \/ TakeLock(s) \/ FindMatches(s) \/ TakeRow(s) \/ DeadlockVictim(s)
  \/ DecidePublic(s) \/ DecideIntake(s) \/ Commit(s) \/ IndexError(s) \/ LookAgain(s)

Elsewhere ==
  \/ \E j \in Jobs : ToggleJob(j)
  \/ \E a \in DOMAIN apps : EndOrReopen(a)
  \/ \E c \in DOMAIN cands : EditCandidate(c)

Next ==
  \/ \E s \in Sessions : Ask(s) \/ Step(s) \/ Abort(s) \/ AnswerLost(s)
  \/ Elsewhere

Spec == Init /\ [][Next]_vars

\* A request that was received goes on; requests, HR and faults are not fair.
Fairness == \A s \in Sessions : WF_vars(Step(s))

-----------------------------------------------------------------------------
TypeOK ==
  /\ cands \in Seq(Candidate) /\ apps \in Seq(Application) /\ subs \in Seq(Submission)
  /\ owner \in [HrResumes -> Ids \cup {None}] /\ open \subseteq Jobs
  /\ sess \in [Sessions -> Transaction]
  /\ said = None \/ said.req \in Requests
  /\ callsLeft \in 0..CallBudget /\ eventsLeft \in 0..EventBudget

Edited(c) == cands[c].edited
Made(c, reason) == \E k \in DOMAIN subs : apps[subs[k].app].cand = c /\ subs[k].reason = reason

\* Two candidates that share a phone or an email (or both), as they were taken in, whichever
\* of the two services took them in and however the transactions overlapped: the later one
\* came from the page and HR is asked to look at it.
OverlapFlagged ==
  \A c, d \in DOMAIN cands :
    c < d /\ ~Edited(c) /\ ~Edited(d)
      /\ (cands[c].phone = cands[d].phone \/ cands[c].email = cands[d].email)
    => Made(d, "contact")

\* What accept has decided still fits when it is written: none of the three unique
\* indexes ever turns a public application into an error.
AcceptFits == \A s \in Sessions : At(s, "ready") /\ Public(Req(s)) => Fits(s)

\* The resume HR chose for an application belongs to the candidate of the application,
\* so no two candidates are assessed by the same resume.
ResumeOwned ==
  \A a \in DOMAIN apps : apps[a].resume # None => owner[apps[a].resume] = apps[a].cand

\* No transaction writes what the tables, or the other service, would not accept.
WritesFit == TypeOK /\ AcceptFits /\ ResumeOwned

\* A public application is added only where the candidate has no ended one for the job
\* when it is committed: that needs HR.
NoReentry ==
  [][\A k \in DOMAIN subs' \ DOMAIN subs :
       LET a == apps'[subs'[k].app] IN
       \A b \in DOMAIN apps' : apps'[b].cand = a.cand /\ apps'[b].job = a.job
                                => apps'[b].life = "active"]_vars

Answered(q) == said # None /\ said.req = q /\ said.told # Error

\* A request that was accepted and is sent again gets its own reference, whatever was
\* closed, ended or edited in between.
Replayed ==
  \A k \in DOMAIN subs : Answered(subs[k].req) => said.told = Reference(k)

\* Nobody is told the reference of somebody else: it is of the same request, or of an
\* application for the same job by the candidate who has both contacts.
ReferenceOwn ==
  \A k \in DOMAIN subs :
    said # None /\ said.told = Reference(k) =>
      LET a == apps[subs[k].app] IN
      \/ subs[k].req = said.req
      \/ a.job = said.req.job /\ cands[a.cand].phone = said.req.phone
         /\ cands[a.cand].email = said.req.email

\* The reference a candidate is told is the candidate's own, and always the same.
ReferencesKept == Replayed /\ ReferenceOwn

\* Two transactions wait for each other only where an intake waits for the candidate that
\* HR named, whose row is out of the order in which all other locks are taken.
OnlyNamesDeadlock ==
  \A ring \in SUBSET Waiting :
    Deadlocked(ring) => \E s \in ring : At(s, "matching") /\ sess[s].wanted = {}

\* Every request is answered, and only a candidate that HR named makes Postgres choose
\* which of two it refuses.
RequestsEnd == (\A s \in Sessions : []<>At(s, "idle")) /\ [][OnlyNamesDeadlock']_vars
=============================================================================
