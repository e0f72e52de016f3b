---------------------------- MODULE IntakeProofs ----------------------------
(***************************************************************************)
(* Theorems about Intake, for every set of requests, jobs, resumes and      *)
(* sessions.  The inductive invariant says that no two transactions hold    *)
(* the same lock, and what a transaction has found out so far that nobody   *)
(* else can change while it holds its locks.                                *)
(***************************************************************************)
EXTENDS Intake, SequenceTheorems, FiniteSetTheorems, TLAPS

Busy == {s \in Sessions : ~At(s, "idle")}

\* A candidate as taken in, with a contact of the request.
Contacted(c, q) ==
  ~cands[c].edited /\ (cands[c].phone = q.phone \/ cands[c].email = q.email)

\* What a transaction knows behind the lock of its key, ...
KeyIsNew(s) == Public(Req(s)) => SubsOf(Req(s).key) = {}

LockingFits(s) == sess[s].held # 0 => KeyIsNew(s)

\* ... and what it has decided behind all its locks and the rows it has read.
CandidateFits(s) ==
  /\ sess[s].cand \in DOMAIN cands \cup {None}
  /\ sess[s].cand = None =>
       \A c \in DOMAIN cands :
         Contacted(c, Req(s)) => Public(Req(s)) /\ sess[s].reason = "contact"

ApplicationFits(s) ==
  /\ sess[s].app = None \/ sess[s].app \in ActiveOf(sess[s].cand, Req(s).job)
  /\ Public(Req(s)) =>
       /\ AppsOf(sess[s].cand, Req(s).job) = ActiveOf(sess[s].cand, Req(s).job)
       /\ IF sess[s].app = None THEN AppsOf(sess[s].cand, Req(s).job) = {}
          ELSE SubOf(sess[s].app) = {}

ReadyFits(s) ==
  /\ sess[s].held = Len(Locks(Req(s)))
  /\ KeyIsNew(s) /\ CandidateFits(s) /\ ApplicationFits(s)
  /\ ~Public(Req(s)) => OwnerFits(Req(s).resume, sess[s].cand)

\* Every candidate taken in with a contact of the request is locked, or is going to be.
MatchingFits(s) ==
  /\ sess[s].held = Len(Locks(Req(s))) /\ KeyIsNew(s)
  /\ \A c \in DOMAIN cands : Contacted(c, Req(s)) => c \in sess[s].wanted \cup sess[s].matched

SessionFits(s) ==
  /\ ~At(s, "idle") => Req(s) \in Requests /\ sess[s].held \in 0..Len(Locks(Req(s)))
  /\ At(s, "locking") => LockingFits(s)
  /\ At(s, "matching") => MatchingFits(s)
  /\ At(s, "ready") => ReadyFits(s)
  /\ At(s, "again") => ~Public(Req(s))

SessionsFit == \A s \in Sessions : SessionFits(s)

\* No two transactions hold the same lock.
LocksApart == \A s, t \in Sessions : s # t => Held(s) \cap Held(t) = {}

\* Every row refers to rows that exist; a key is used once; a resume has one candidate.
RowsFit ==
  /\ \A a \in DOMAIN apps : apps[a].cand \in DOMAIN cands
  /\ \A k \in DOMAIN subs : subs[k].app \in DOMAIN apps /\ Public(subs[k].req)
  /\ \A k, l \in DOMAIN subs : subs[k].req.key = subs[l].req.key => k = l
  /\ ResumeOwned

\* Each request that is still open may add one row of each kind.
WithinBudget ==
  /\ IsFiniteSet(Busy)
  /\ Len(cands) + Cardinality(Busy) + callsLeft <= CallBudget + Len(Entered)
  /\ Len(apps) + Cardinality(Busy) + callsLeft <= CallBudget

IInv ==
  /\ TypeOK
  /\ SessionsFit /\ LocksApart /\ RowsFit /\ WithinBudget
  /\ OverlapFlagged
  /\ ReferencesKept

-----------------------------------------------------------------------------
(* Constants and types *)

LEMMA NoneIsNoId == None \notin Ids /\ None \notin HrResumes
  BY NoneIsNobody DEF Ids

LEMMA EnteredTyped ==
  /\ Entered \in Seq(Candidate) /\ Len(Entered) \in Nat /\ DOMAIN Entered = 1..Len(Entered)
  /\ \A c \in DOMAIN Entered : Entered[c].edited
  BY EnteredOK, LenProperties

LEMMA RowTypes ==
  ASSUME TypeOK, WithinBudget
  PROVE  /\ Len(cands) \in Nat /\ DOMAIN cands = 1..Len(cands) /\ DOMAIN cands \subseteq Ids
         /\ \A c \in DOMAIN cands : cands[c] \in Candidate
         /\ Len(apps) \in Nat /\ DOMAIN apps = 1..Len(apps) /\ DOMAIN apps \subseteq Ids
         /\ \A a \in DOMAIN apps : apps[a] \in Application
         /\ Len(subs) \in Nat /\ DOMAIN subs = 1..Len(subs)
         /\ \A k \in DOMAIN subs : subs[k] \in Submission
  <1>1. cands \in Seq(Candidate) /\ apps \in Seq(Application) /\ subs \in Seq(Submission)
    BY DEF TypeOK
  <1>2. Cardinality(Busy) \in Nat /\ callsLeft \in Nat
    BY FS_CardinalityType, BudgetsOK DEF WithinBudget, TypeOK
  <1>3. /\ Len(cands) \in Nat /\ Len(apps) \in Nat /\ Len(subs) \in Nat
        /\ DOMAIN cands = 1..Len(cands) /\ DOMAIN apps = 1..Len(apps) /\ DOMAIN subs = 1..Len(subs)
    BY <1>1, LenProperties
  <1>4. Len(cands) <= CallBudget + Len(Entered) /\ Len(apps) <= CallBudget + Len(Entered)
    BY <1>2, <1>3, BudgetsOK, EnteredTyped DEF WithinBudget
  <1> QED
    BY <1>1, <1>3, <1>4, ElementOfSeq, BudgetsOK, EnteredTyped DEF Ids

LEMMA SomeIsMember ==
  ASSUME NEW S, S # {}
  PROVE  Some(S) \in S
  BY DEF Some

LEMMA IdleTyped ==
  /\ Idle \in Transaction
  /\ Idle.pc = "idle" /\ Idle.held = 0 /\ Idle.wanted = {} /\ Idle.matched = {} /\ Idle.cand = None /\ Idle.app = None
  BY DEF Idle, Transaction

LEMMA SessionTyped ==
  ASSUME TypeOK, NEW s \in Sessions
  PROVE  sess[s] \in Transaction
  BY DEF TypeOK

-----------------------------------------------------------------------------
(* Locks *)

LEMMA LocksOfPublic ==
  ASSUME NEW q, Public(q)
  PROVE  /\ Len(Locks(q)) = 5
         /\ Locks(q)[1] = <<"key", q.key>> /\ Locks(q)[2] = <<"email", q.email>>
         /\ Locks(q)[3] = <<"phone", q.phone>> /\ Locks(q)[4] = <<"name", q.name>>
         /\ Locks(q)[5] = <<"job", q.job>>
  BY DEF Locks, Key, Contacts, Name, Job

LEMMA LocksOfHr ==
  ASSUME NEW q, ~Public(q)
  PROVE  /\ Len(Locks(q)) = 4
         /\ Locks(q)[1] = <<"email", q.email>> /\ Locks(q)[2] = <<"phone", q.phone>>
         /\ Locks(q)[3] = <<"job", q.job>> /\ Locks(q)[4] = <<"resume", q.resume>>
  BY DEF Locks, Key, Contacts, Name, Job

\* A transaction that is behind its key, or has all its locks.
Deciding(s) == At(s, "matching") \/ At(s, "ready")
BehindKey(s) == Deciding(s) \/ (At(s, "locking") /\ sess[s].held # 0)
HasAllLocks(s) == Deciding(s) \/ AllLocked(s)

LEMMA KeyHeld ==
  ASSUME TypeOK, SessionsFit, NEW s \in Sessions, Public(Req(s)), BehindKey(s)
  PROVE  <<"key", Req(s).key>> \in Held(s)
  <1>1. sess[s].held \in 0..6 /\ Len(Locks(Req(s))) = 5 /\ Locks(Req(s))[1] = <<"key", Req(s).key>>
    BY SessionTyped, LocksOfPublic DEF Transaction
  <1>2. sess[s].held # 0 /\ ~At(s, "idle") /\ ~At(s, "again")
    <2>1. Deciding(s) => sess[s].held = Len(Locks(Req(s)))
      BY DEF Deciding, SessionsFit, SessionFits, ReadyFits, MatchingFits
    <2> QED
      BY <1>1, <2>1 DEF BehindKey, Deciding, At
  <1> QED
    BY <1>1, <1>2 DEF Held

LEMMA AllHeld ==
  ASSUME TypeOK, SessionsFit, NEW s \in Sessions, HasAllLocks(s)
  PROVE  /\ {<<"email", Req(s).email>>, <<"phone", Req(s).phone>>, <<"job", Req(s).job>>} \subseteq Held(s)
         /\ ~Public(Req(s)) => <<"resume", Req(s).resume>> \in Held(s)
         /\ BehindKey(s)
  <1>1. sess[s].held = Len(Locks(Req(s))) /\ ~At(s, "idle") /\ ~At(s, "again")
    BY DEF HasAllLocks, Deciding, AllLocked, SessionsFit, SessionFits, ReadyFits, MatchingFits, At
  <1>2. Held(s) = {Locks(Req(s))[i] : i \in 1..Len(Locks(Req(s)))}
    BY <1>1 DEF Held
  <1>3. CASE Public(Req(s))
    BY <1>1, <1>2, <1>3, LocksOfPublic DEF HasAllLocks, AllLocked, BehindKey
  <1>4. CASE ~Public(Req(s))
    BY <1>1, <1>2, <1>4, LocksOfHr DEF HasAllLocks, AllLocked, BehindKey
  <1> QED
    BY <1>3, <1>4

\* Two transactions that have their locks share neither key, nor contact, job or resume.
LEMMA KeysDiffer ==
  ASSUME TypeOK, SessionsFit, LocksApart, NEW s \in Sessions, NEW t \in Sessions \ {s},
         BehindKey(s), BehindKey(t), Public(Req(s)), Public(Req(t))
  PROVE  Req(s).key # Req(t).key
  <1>1. <<"key", Req(s).key>> \in Held(s) /\ <<"key", Req(t).key>> \in Held(t)
    BY KeyHeld
  <1> QED
    BY <1>1 DEF LocksApart

LEMMA LocksDiffer ==
  ASSUME TypeOK, SessionsFit, LocksApart, NEW s \in Sessions, NEW t \in Sessions \ {s},
         HasAllLocks(s), HasAllLocks(t)
  PROVE  /\ Req(s).email # Req(t).email /\ Req(s).phone # Req(t).phone /\ Req(s).job # Req(t).job
         /\ ~Public(Req(s)) /\ ~Public(Req(t)) => Req(s).resume # Req(t).resume
  <1>1. Held(s) \cap Held(t) = {}
    BY DEF LocksApart
  <1>2. /\ {<<"email", Req(s).email>>, <<"phone", Req(s).phone>>, <<"job", Req(s).job>>} \subseteq Held(s)
        /\ ~Public(Req(s)) => <<"resume", Req(s).resume>> \in Held(s)
    BY AllHeld
  <1>3. /\ {<<"email", Req(t).email>>, <<"phone", Req(t).phone>>, <<"job", Req(t).job>>} \subseteq Held(t)
        /\ ~Public(Req(t)) => <<"resume", Req(t).resume>> \in Held(t)
    BY AllHeld
  <1> QED
    BY <1>1, <1>2, <1>3

LEMMA LocksStayApart ==
  ASSUME TypeOK, LocksApart, NEW s \in Sessions, NEW to, Goes(s, to), NEW lock, Free(lock),
         Held(s)' \subseteq Held(s) \cup {lock}
  PROVE  LocksApart'
  <1>1. \A t \in Sessions \ {s} : Held(t)' = Held(t)
    BY DEF Goes, TypeOK, Held, At, Req
  <1> QED
    BY <1>1 DEF LocksApart, Free

LEMMA LocksGoApart ==
  ASSUME TypeOK, LocksApart, NEW s \in Sessions, NEW to, Goes(s, to), Held(s)' \subseteq Held(s)
  PROVE  LocksApart'
  <1>1. \A t \in Sessions \ {s} : Held(t)' = Held(t)
    BY DEF Goes, TypeOK, Held, At, Req
  <1> QED
    BY <1>1 DEF LocksApart

-----------------------------------------------------------------------------
(* The bounds *)

\* A session that starts takes one call; one that ends frees the rows it did not add.
LEMMA BusyStarts ==
  ASSUME TypeOK, WithinBudget, NEW s \in Sessions, At(s, "idle"), NEW to, to.pc # "idle",
         Goes(s, to), callsLeft > 0, callsLeft' = callsLeft - 1, UNCHANGED <<cands, apps>>
  PROVE  WithinBudget'
  <1>1. Busy' = Busy \cup {s} /\ s \notin Busy
    BY DEF Busy, At, Goes, TypeOK
  <1>2. IsFiniteSet(Busy') /\ Cardinality(Busy') = Cardinality(Busy) + 1
    BY <1>1, FS_AddElement DEF WithinBudget
  <1>3. Cardinality(Busy) \in Nat /\ callsLeft \in Nat /\ Len(cands) \in Nat /\ Len(apps) \in Nat
    BY RowTypes, FS_CardinalityType, BudgetsOK, EnteredTyped DEF WithinBudget, TypeOK
  <1> QED
    BY <1>2, <1>3, BudgetsOK, EnteredTyped DEF WithinBudget

LEMMA BusyStays ==
  ASSUME TypeOK, WithinBudget, UNCHANGED callsLeft, Len(cands') = Len(cands), Len(apps') = Len(apps),
         \A s \in Sessions : At(s, "idle")' <=> At(s, "idle")
  PROVE  WithinBudget'
  <1>1. Busy' = Busy
    BY DEF Busy
  <1> QED
    BY <1>1 DEF WithinBudget

LEMMA RoomLeft ==
  ASSUME TypeOK, WithinBudget, NEW s \in Sessions, ~At(s, "idle")
  PROVE  Len(cands) + 1 \in Ids /\ Len(apps) + 1 \in Ids
  <1>1. s \in Busy
    BY DEF Busy
  <1>2. Cardinality(Busy) \in Nat \ {0}
    BY <1>1, FS_CardinalityType, FS_EmptySet DEF WithinBudget
  <1>3. callsLeft \in Nat /\ Len(cands) \in Nat /\ Len(apps) \in Nat
    BY RowTypes, BudgetsOK DEF TypeOK
  <1> QED
    BY <1>2, <1>3, BudgetsOK, EnteredTyped DEF WithinBudget, Ids

LEMMA BusyEnds ==
  ASSUME TypeOK, WithinBudget, NEW s \in Sessions, ~At(s, "idle"), NEW to, to.pc = "idle",
         Goes(s, to), UNCHANGED callsLeft,
         Len(cands') \in {Len(cands), Len(cands) + 1}, Len(apps') \in {Len(apps), Len(apps) + 1}
  PROVE  WithinBudget'
  <1>1. Busy' = Busy \ {s} /\ s \in Busy
    BY DEF Busy, At, Goes, TypeOK
  <1>2. IsFiniteSet(Busy') /\ Cardinality(Busy') = Cardinality(Busy) - 1
    BY <1>1, FS_RemoveElement DEF WithinBudget
  <1>3. Cardinality(Busy) \in Nat /\ Cardinality(Busy') \in Nat /\ callsLeft \in Nat
        /\ Len(cands) \in Nat /\ Len(apps) \in Nat
    BY <1>2, RowTypes, FS_CardinalityType, BudgetsOK, EnteredTyped DEF WithinBudget, TypeOK
  <1>4. Len(cands') + Cardinality(Busy') + callsLeft <= CallBudget + Len(Entered)
    BY <1>2, <1>3, BudgetsOK, EnteredTyped, SMTT(30) DEF WithinBudget
  <1>5. Len(apps') + Cardinality(Busy') + callsLeft <= CallBudget
    BY <1>2, <1>3, BudgetsOK, EnteredTyped, SMTT(30) DEF WithinBudget
  <1> QED
    BY <1>2, <1>4, <1>5 DEF WithinBudget

-----------------------------------------------------------------------------
(* What a step leaves of the other transactions' findings *)

SessionStays(t) ==
  /\ sess'[t] = sess[t]
  /\ DOMAIN cands \subseteq DOMAIN cands'
  /\ Public(Req(t)) /\ BehindKey(t) => SubsOf(Req(t).key)' = SubsOf(Req(t).key)
  /\ Deciding(t) =>
       \A c \in DOMAIN cands' : Contacted(c, Req(t))' => c \in DOMAIN cands /\ Contacted(c, Req(t))
  /\ At(t, "ready") =>
       /\ ApplicationFits(t)'
       /\ ~Public(Req(t)) => owner'[Req(t).resume] = owner[Req(t).resume]

LEMMA StaysFit ==
  ASSUME NEW t \in Sessions, SessionFits(t), SessionStays(t)
  PROVE  SessionFits(t)'
  <1>1. /\ Req(t)' = Req(t) /\ sess'[t] = sess[t]
        /\ \A pc : At(t, pc)' <=> At(t, pc)
    BY DEF SessionStays, Req, At
  <1>2. ASSUME BehindKey(t), KeyIsNew(t) PROVE KeyIsNew(t)'
    BY <1>1, <1>2 DEF SessionStays, KeyIsNew
  <1>3. ASSUME At(t, "ready") PROVE ReadyFits(t)'
    <2>1. ReadyFits(t) /\ BehindKey(t) /\ Deciding(t)
      BY <1>3 DEF SessionFits, BehindKey, Deciding
    <2>2. CandidateFits(t)'
      BY <1>1, <1>3, <2>1 DEF SessionStays, ReadyFits, CandidateFits
    <2>3. ~Public(Req(t)) => OwnerFits(Req(t).resume, sess[t].cand)'
      BY <1>1, <1>3, <2>1 DEF SessionStays, ReadyFits, OwnerFits
    <2> QED
      BY <1>1, <1>2, <1>3, <2>1, <2>2, <2>3 DEF SessionStays, ReadyFits
  <1>4. At(t, "locking") => LockingFits(t)'
    BY <1>1, <1>2 DEF SessionFits, LockingFits, BehindKey
  <1>5. ASSUME At(t, "matching") PROVE MatchingFits(t)'
    <2>1. MatchingFits(t) /\ BehindKey(t) /\ Deciding(t)
      BY <1>5 DEF SessionFits, BehindKey, Deciding
    <2> QED
      BY <1>1, <1>2, <2>1 DEF SessionStays, MatchingFits
  <1> QED
    BY <1>1, <1>3, <1>4, <1>5 DEF SessionFits

\* The same applications of the same candidates, ...
SameLinks ==
  /\ DOMAIN apps' = DOMAIN apps
  /\ \A a \in DOMAIN apps :
       /\ apps'[a].cand = apps[a].cand /\ apps'[a].job = apps[a].job
       /\ apps'[a].resume = apps[a].resume

\* ... and but for HR's decision, which nobody's findings are about, the same in all.
SameApps == SameLinks /\ \A a \in DOMAIN apps : apps'[a].life = apps[a].life

LEMMA SameAppsFound ==
  ASSUME SameApps
  PROVE  \A c, j : AppsOf(c, j)' = AppsOf(c, j) /\ ActiveOf(c, j)' = ActiveOf(c, j)
  BY DEF SameApps, SameLinks, AppsOf, ActiveOf

LEMMA StaysWhenSame ==
  ASSUME NEW t \in Sessions, SessionFits(t), sess'[t] = sess[t], SameApps, UNCHANGED <<cands, subs, owner>>
  PROVE  SessionFits(t)'
  <1>1. Req(t)' = Req(t) /\ sess'[t] = sess[t]
    BY DEF Req
  <1>2. /\ \A key : SubsOf(key)' = SubsOf(key)
        /\ \A a : SubOf(a)' = SubOf(a)
        /\ \A c, q : Contacted(c, q)' <=> Contacted(c, q)
    BY DEF SubsOf, SubOf, Contacted
  <1>3. At(t, "ready") => ApplicationFits(t)'
    BY <1>1, <1>2, SameAppsFound DEF SessionFits, ReadyFits, ApplicationFits
  <1> QED
    BY <1>1, <1>2, <1>3, StaysFit DEF SessionStays

LEMMA RowsStayFit ==
  ASSUME RowsFit, SameLinks, UNCHANGED <<cands, subs, owner>>
  PROVE  RowsFit'
  BY DEF RowsFit, SameLinks, ResumeOwned

LEMMA OverlapStaysFlagged ==
  ASSUME RowsFit, OverlapFlagged, SameLinks, UNCHANGED <<cands, subs, owner>>
  PROVE  OverlapFlagged'
  <1>1. \A c : Made(c, "contact") => Made(c, "contact")'
    BY DEF Made, RowsFit, SameLinks
  <1> QED
    BY <1>1 DEF OverlapFlagged, Edited

\* A step that tells nobody anything, and adds no submission.
LEMMA QuietKeepsReferences ==
  ASSUME Quiet
  PROVE  ReferencesKept'
  BY DEF Quiet, ReferencesKept, Replayed, ReferenceOwn, Answered

\* A step of one session that leaves the rows as they are.
LEMMA OnlySessionMoves ==
  ASSUME IInv, NEW s \in Sessions, NEW to \in Transaction, Goes(s, to), UNCHANGED rows,
         SessionFits(s)', LocksApart', WithinBudget', ReferencesKept',
         said' = None \/ said'.req \in Requests,
         open' \subseteq Jobs, callsLeft' \in 0..CallBudget, eventsLeft' \in 0..EventBudget
  PROVE  IInv'
  <1>1. SameApps /\ SameLinks /\ UNCHANGED <<cands, apps, subs, owner>>
    BY DEF SameApps, SameLinks, rows
  <1>2. \A t \in Sessions \ {s} : SessionFits(t)'
    BY <1>1, StaysWhenSame DEF IInv, SessionsFit, Goes, TypeOK
  <1>3. TypeOK'
    BY <1>1 DEF IInv, TypeOK, Goes
  <1> QED
    BY <1>1, <1>2, <1>3, RowsStayFit, OverlapStaysFlagged DEF IInv, SessionsFit

-----------------------------------------------------------------------------
(* What a request is told *)

LEMMA NotSubmitted ==
  ASSUME RowsFit, NEW s, KeyIsNew(s), NEW k \in DOMAIN subs
  PROVE  subs[k].req # Req(s)
  BY DEF RowsFit, KeyIsNew, SubsOf

LEMMA AnswersDiffer ==
  /\ \A k : Reference(k) # Error /\ Reference(k) # Refused /\ Reference(k) # Done
  /\ \A k, l : Reference(k) = Reference(l) => k = l
  BY DEF Reference, Error, Refused, Done

LEMMA ErrorTold ==
  ASSUME NEW s, Tell(s, Error)
  PROVE  ReferencesKept'
  <1>1. said' = [req |-> Req(s), told |-> Error]
    BY DEF Tell
  <1> QED
    BY <1>1, AnswersDiffer DEF ReferencesKept, Replayed, ReferenceOwn, Answered

LEMMA WordTold ==
  ASSUME NEW s, NEW what \in {Refused, Done}, Tell(s, what), UNCHANGED subs,
         \A k \in DOMAIN subs : subs[k].req # Req(s)
  PROVE  ReferencesKept'
  <1>1. said' = [req |-> Req(s), told |-> what]
    BY DEF Tell
  <1> QED
    BY <1>1, AnswersDiffer DEF ReferencesKept, Replayed, ReferenceOwn, Answered

\* The reference of the request's own submission.
LEMMA OwnReferenceTold ==
  ASSUME NEW s, NEW k, Tell(s, Reference(k)), subs'[k].req = Req(s),
         \A l \in DOMAIN subs' : subs'[l].req = Req(s) => l = k
  PROVE  ReferencesKept'
  <1>1. said' = [req |-> Req(s), told |-> Reference(k)]
    BY DEF Tell
  <1> QED
    BY <1>1, AnswersDiffer DEF ReferencesKept, Replayed, ReferenceOwn, Answered

\* The reference of an application that the same candidate already has for the job.
LEMMA OlderReferenceTold ==
  ASSUME NEW s, NEW k \in DOMAIN subs, Tell(s, Reference(k)), UNCHANGED rows,
         \A l \in DOMAIN subs : subs[l].req # Req(s),
         apps[subs[k].app].job = Req(s).job,
         cands[apps[subs[k].app].cand].phone = Req(s).phone,
         cands[apps[subs[k].app].cand].email = Req(s).email
  PROVE  ReferencesKept'
  <1>1. said' = [req |-> Req(s), told |-> Reference(k)] /\ UNCHANGED <<cands, apps, subs>>
    BY DEF Tell, rows
  <1> QED
    BY <1>1, AnswersDiffer DEF ReferencesKept, Replayed, ReferenceOwn, Answered

-----------------------------------------------------------------------------
(* Steps of one session *)

LEMMA Budgets ==
  ASSUME TypeOK
  PROVE  callsLeft \in 0..CallBudget /\ eventsLeft \in 0..EventBudget /\ open \subseteq Jobs
  BY DEF TypeOK

LEMMA Asked ==
  ASSUME IInv, NEW s \in Sessions, ~At(s, "idle")
  PROVE  Req(s) \in Requests
  BY DEF IInv, SessionsFit, SessionFits

LEMMA AskKeeps ==
  ASSUME IInv, NEW s \in Sessions, Ask(s)
  PROVE  IInv'
  <1>1. PICK q \in Requests : Goes(s, [Idle EXCEPT !.pc = "locking", !.req = q])
    BY DEF Ask
  <1> DEFINE to == [Idle EXCEPT !.pc = "locking", !.req = q]
  <1>2. to \in Transaction /\ to.pc = "locking" /\ to.req = q /\ to.held = 0
    <2>1. PICK r \in Transaction : r = Idle /\ r.held = 0
      BY IdleTyped
    <2>2. to = [r EXCEPT !.pc = "locking", !.req = q]
      BY <2>1
    <2> HIDE DEF to
    <2> QED
      BY <2>1, <2>2 DEF Transaction
  <1> HIDE DEF to
  <1>3. Goes(s, to) /\ sess'[s] = to
    BY <1>1 DEF Goes, to, IInv, TypeOK
  <1>4. Len(Locks(q)) \in Nat
    BY LocksOfPublic, LocksOfHr
  <1>5. SessionFits(s)'
    BY <1>2, <1>3, <1>4 DEF SessionFits, At, Req, LockingFits
  <1>6. LocksApart'
    <2>1. Held(s)' = {}
      BY <1>2, <1>3 DEF Held, At, Req
    <2> QED
      BY <1>3, <2>1, LocksGoApart DEF IInv
  <1>7. WithinBudget'
    BY <1>2, <1>3, BusyStarts DEF Ask, rows, IInv
  <1>8. ReferencesKept' /\ said' = None
    BY QuietKeepsReferences DEF Ask, Quiet
  <1>9. callsLeft' \in 0..CallBudget /\ eventsLeft' \in 0..EventBudget /\ open' \subseteq Jobs
    BY Budgets, BudgetsOK DEF Ask, IInv
  <1> QED
    BY <1>2, <1>3, <1>5, <1>6, <1>7, <1>8, <1>9, OnlySessionMoves DEF Ask

\* A session that is done, and leaves the rows as they are.
LEMMA EndKeeps ==
  ASSUME IInv, NEW s \in Sessions, ~At(s, "idle"), Goes(s, Idle), UNCHANGED <<rows, open, callsLeft>>,
         eventsLeft' \in 0..EventBudget, NEW what, Tell(s, what), ReferencesKept'
  PROVE  IInv'
  <1>1. sess'[s] = Idle
    BY DEF Goes, IInv, TypeOK
  <1>2. SessionFits(s)'
    BY <1>1, IdleTyped DEF SessionFits, At
  <1>3. LocksApart'
    <2>1. Held(s)' = {}
      BY <1>1, IdleTyped DEF Held, At
    <2> QED
      BY <2>1, LocksGoApart DEF IInv
  <1>4. WithinBudget'
    BY IdleTyped, BusyEnds DEF IInv, rows
  <1>5. said'.req \in Requests
    BY Asked DEF Tell
  <1> QED
    BY <1>2, <1>3, <1>4, <1>5, IdleTyped, OnlySessionMoves, Budgets DEF IInv

\* A session that goes on, with the locks it has or one more that was free.
LEMMA GoesOnKeeps ==
  ASSUME IInv, NEW s \in Sessions, ~At(s, "idle"), NEW to \in Transaction, to.pc # "idle",
         Goes(s, to), Quiet, UNCHANGED <<rows, open, budgets>>, SessionFits(s)', LocksApart'
  PROVE  IInv'
  <1>1. sess'[s] = to /\ \A t \in Sessions \ {s} : sess'[t] = sess[t]
    BY DEF Goes, IInv, TypeOK
  <1>2. \A t \in Sessions : At(t, "idle")' <=> At(t, "idle")
    BY <1>1 DEF At
  <1>3. WithinBudget'
    BY <1>2, BusyStays DEF IInv, rows, budgets
  <1>4. ReferencesKept' /\ said' = None
    BY QuietKeepsReferences DEF Quiet
  <1>5. open' \subseteq Jobs /\ callsLeft' \in 0..CallBudget /\ eventsLeft' \in 0..EventBudget
    BY Budgets DEF IInv, budgets
  <1> QED
    BY <1>3, <1>4, <1>5, OnlySessionMoves

LEMMA TakeLockKeeps ==
  ASSUME IInv, NEW s \in Sessions, TakeLock(s)
  PROVE  IInv'
  <1> DEFINE lock == Locks(Req(s))[sess[s].held + 1]
             known == lock[1] = "key" /\ SubsOf(Req(s).key) # {}
  <1>1. /\ At(s, "locking") /\ ~At(s, "idle") /\ LockingFits(s) /\ Req(s) \in Requests
        /\ sess[s] \in Transaction /\ sess[s].held \in 0..5 /\ Len(Locks(Req(s))) \in {4, 5}
        /\ sess[s].held < Len(Locks(Req(s)))
    <2>1. Len(Locks(Req(s))) \in {4, 5}
      BY LocksOfPublic, LocksOfHr
    <2> QED
      BY <2>1, SessionTyped DEF TakeLock, IInv, SessionsFit, SessionFits, At, Transaction
  <1>2. Public(Req(s)) /\ sess[s].held = 0 => lock[1] = "key"
    BY LocksOfPublic
  <1>3. CASE known /\ KnownKey(s)
    <2>1. PICK k \in SubsOf(Req(s).key) : Ends(s, IF subs[k].req = Req(s) THEN Reference(k) ELSE Refused)
      BY <1>3 DEF KnownKey
    <2>2. k \in DOMAIN subs /\ \A l \in DOMAIN subs : subs[l].req = Req(s) => l = k
      BY <2>1 DEF SubsOf, IInv, RowsFit
    <2>3. UNCHANGED subs
      BY <2>1 DEF Ends, rows
    <2>4. ReferencesKept'
      <3>1. CASE subs[k].req = Req(s)
        BY <2>1, <2>2, <2>3, <3>1, OwnReferenceTold DEF Ends
      <3>2. CASE subs[k].req # Req(s)
        BY <2>1, <2>2, <2>3, <3>2, WordTold DEF Ends
      <3> QED
        BY <3>1, <3>2
    <2> QED
      BY <1>1, <2>1, <2>4, EndKeeps, Budgets DEF Ends, TakeLock, budgets, IInv
  <1>4. CASE Ends(s, Refused) /\ lock[1] = "job"
    <2>1. KeyIsNew(s)
      BY <1>1, <1>2, <1>4 DEF LockingFits, KeyIsNew
    <2>2. ReferencesKept'
      BY <1>4, <2>1, NotSubmitted, WordTold DEF Ends, rows, IInv
    <2> QED
      BY <1>1, <1>4, <2>2, EndKeeps, Budgets DEF Ends, TakeLock, budgets, IInv
  <1>5. CASE ~known /\ Goes(s, [sess[s] EXCEPT !.held = @ + 1]) /\ Quiet /\ UNCHANGED rows
    <2> DEFINE to == [sess[s] EXCEPT !.held = @ + 1]
    <2>1. to \in Transaction /\ to.pc = "locking" /\ to.req = Req(s) /\ to.held = sess[s].held + 1
      BY <1>1 DEF Transaction, At, Req
    <2> HIDE DEF to
    <2>3. Goes(s, to) /\ sess'[s] = to
      BY <1>5 DEF to, Goes, IInv, TypeOK
    <2>4. KeyIsNew(s)'
      BY <1>1, <1>2, <1>5, <2>1, <2>3 DEF LockingFits, KeyIsNew, SubsOf, rows, Req
    <2>5. SessionFits(s)'
      <3>1. Req(s)' = Req(s) /\ sess'[s].held = to.held /\ sess'[s].pc = "locking"
        BY <2>1, <2>3 DEF Req
      <3>2. LockingFits(s)'
        BY <2>4, <3>1 DEF LockingFits
      <3>3. to.held \in 0..Len(Locks(Req(s)))
        BY <1>1, <2>1
      <3> QED
        BY <1>1, <3>1, <3>2, <3>3 DEF SessionFits, At
    <2>6. LocksApart'
      <3>1. Held(s) = {Locks(Req(s))[i] : i \in 1..sess[s].held}
        BY <1>1 DEF Held, At
      <3>2. Held(s)' = {Locks(Req(s))[i] : i \in 1..(sess[s].held + 1)}
        BY <2>1, <2>3 DEF Held, At, Req
      <3>3. \A i \in 1..(sess[s].held + 1) : i \in 1..sess[s].held \/ i = sess[s].held + 1
        BY <1>1
      <3>4. Held(s)' \subseteq Held(s) \cup {lock}
        BY <3>1, <3>2, <3>3
      <3>5. Free(lock)
        BY DEF TakeLock
      <3> QED
        BY <2>3, <3>4, <3>5, LocksStayApart DEF IInv
    <2> QED
      BY <1>1, <1>5, <2>1, <2>3, <2>5, <2>6, GoesOnKeeps DEF TakeLock
  <1> QED
    BY <1>3, <1>4, <1>5 DEF TakeLock

LEMMA IndexErrorKeeps ==
  ASSUME IInv, NEW s \in Sessions, IndexError(s)
  PROVE  IInv'
  <1>1. At(s, "ready") /\ ~At(s, "idle") /\ Req(s) \in Requests
    BY DEF IndexError, At, IInv, SessionsFit, SessionFits
  <1>2. CASE ~Public(Req(s)) /\ Goes(s, [sess[s] EXCEPT !.pc = "again", !.matched = {}]) /\ Quiet /\ UNCHANGED rows
    <2> DEFINE to == [sess[s] EXCEPT !.pc = "again", !.matched = {}]
    <2>1. sess[s] \in Transaction
      BY SessionTyped DEF IInv
    <2>2. to \in Transaction /\ to.pc = "again" /\ to.req = Req(s) /\ to.held = sess[s].held
      BY <2>1 DEF Transaction, Req
    <2> HIDE DEF to
    <2>3. Goes(s, to) /\ sess'[s] = to
      BY <1>2 DEF to, Goes, IInv, TypeOK
    <2>4. SessionFits(s)'
      BY <1>1, <1>2, <2>2, <2>3 DEF SessionFits, At, Req, IInv, SessionsFit
    <2>5. LocksApart'
      <3>1. Held(s)' = {}
        BY <2>2, <2>3 DEF Held, At
      <3> QED
        BY <2>3, <3>1, LocksGoApart DEF IInv
    <2> QED
      BY <1>1, <1>2, <2>2, <2>3, <2>4, <2>5, GoesOnKeeps DEF IndexError
  <1>3. CASE Ends(s, Error)
    BY <1>1, <1>3, EndKeeps, ErrorTold, Budgets DEF Ends, IndexError, budgets, IInv
  <1> QED
    BY <1>2, <1>3 DEF IndexError

LEMMA FindMatchesKeeps ==
  ASSUME IInv, NEW s \in Sessions, FindMatches(s)
  PROVE  IInv'
  <1> DEFINE to == [sess[s] EXCEPT !.pc = "matching", !.wanted = Matches(Req(s))]
  <1>1. /\ At(s, "locking") /\ ~At(s, "idle") /\ Req(s) \in Requests /\ sess[s] \in Transaction
        /\ sess[s].held = Len(Locks(Req(s))) /\ LockingFits(s)
    BY SessionTyped DEF FindMatches, AllLocked, At, IInv, SessionsFit, SessionFits
  <1>2. Matches(Req(s)) \in SUBSET Ids
    BY RowTypes DEF IInv, Matches, SamePhone, SameEmail
  <1>3. /\ to \in Transaction /\ to.pc = "matching" /\ to.req = Req(s) /\ to.held = sess[s].held
        /\ to.wanted = Matches(Req(s))
    BY <1>1, <1>2 DEF Transaction, Req
  <1>4. Goes(s, to) /\ Quiet /\ UNCHANGED <<rows, open, budgets>>
    BY DEF FindMatches
  <1> HIDE DEF to
  <1>5. sess'[s] = to /\ Req(s)' = Req(s) /\ UNCHANGED <<cands, apps, subs, owner>>
    BY <1>3, <1>4 DEF Goes, IInv, TypeOK, Req, rows
  <1>6. KeyIsNew(s)'
    <2>1. sess[s].held # 0
      BY <1>1, LocksOfPublic, LocksOfHr
    <2> QED
      BY <1>1, <1>5, <2>1 DEF LockingFits, KeyIsNew, SubsOf
  <1>7. MatchingFits(s)'
    BY <1>1, <1>3, <1>5, <1>6 DEF MatchingFits, Contacted, Matches, SamePhone, SameEmail
  <1>8. SessionFits(s)'
    <2>1. sess[s].held \in 0..Len(Locks(Req(s)))
      BY <1>1 DEF IInv, SessionsFit, SessionFits
    <2> QED
      BY <1>1, <1>3, <1>5, <1>7, <2>1 DEF SessionFits, At
  <1>9. LocksApart'
    <2>1. Held(s)' = Held(s)
      BY <1>1, <1>3, <1>5 DEF Held, At
    <2> QED
      BY <1>4, <2>1, LocksGoApart DEF IInv
  <1> QED
    BY <1>1, <1>3, <1>4, <1>8, <1>9, GoesOnKeeps

LEMMA TakeRowKeeps ==
  ASSUME IInv, NEW s \in Sessions, TakeRow(s)
  PROVE  IInv'
  <1>1. PICK c \in NextRows(s) : Goes(s, [sess[s] EXCEPT !.wanted = @ \ {c}, !.matched = @ \cup {c}])
    BY DEF TakeRow
  <1> DEFINE to == [sess[s] EXCEPT !.wanted = @ \ {c}, !.matched = @ \cup {c}]
  <1>2. At(s, "matching")
    BY DEF TakeRow, NextRows
  <1>3. /\ ~At(s, "idle") /\ Req(s) \in Requests /\ sess[s] \in Transaction
        /\ MatchingFits(s) /\ sess[s].held \in 0..Len(Locks(Req(s)))
    BY <1>2, SessionTyped DEF At, IInv, SessionsFit, SessionFits
  <1>4. c \in Ids
    <2>1. sess[s].wanted \subseteq Ids /\ DOMAIN cands \subseteq Ids
      BY <1>3, RowTypes DEF Transaction, IInv
    <2> QED
      BY <2>1 DEF NextRows
  <1>5. /\ to \in Transaction /\ to.pc = "matching" /\ to.req = Req(s) /\ to.held = sess[s].held
        /\ to.wanted \cup to.matched = sess[s].wanted \cup sess[s].matched \cup {c}
    BY <1>2, <1>3, <1>4 DEF Transaction, Req, At
  <1>6. Goes(s, to) /\ Quiet /\ UNCHANGED <<rows, open, budgets>>
    BY <1>1 DEF TakeRow
  <1> HIDE DEF to
  <1>7. sess'[s] = to /\ Req(s)' = Req(s) /\ UNCHANGED <<cands, apps, subs, owner>>
    BY <1>5, <1>6 DEF Goes, IInv, TypeOK, Req, rows
  <1>8. SessionFits(s)'
    <2>1. KeyIsNew(s)'
      BY <1>3, <1>7 DEF MatchingFits, KeyIsNew, SubsOf
    <2>2. MatchingFits(s)'
      BY <1>3, <1>5, <1>7, <2>1 DEF MatchingFits, Contacted
    <2> QED
      BY <1>3, <1>5, <1>7, <2>2 DEF SessionFits, At
  <1>9. LocksApart'
    <2>1. Held(s)' = Held(s)
      BY <1>2, <1>5, <1>7 DEF Held, At
    <2> QED
      BY <1>6, <2>1, LocksGoApart DEF IInv
  <1> QED
    BY <1>3, <1>5, <1>6, <1>8, <1>9, GoesOnKeeps

LEMMA DeadlockVictimKeeps ==
  ASSUME IInv, NEW s \in Sessions, DeadlockVictim(s)
  PROVE  IInv'
  <1>1. ~At(s, "idle")
    BY DEF DeadlockVictim, Waiting, NextRows, At
  <1> QED
    BY <1>1, EndKeeps, ErrorTold, Budgets DEF Ends, DeadlockVictim, budgets, IInv

LEMMA AbortKeeps ==
  ASSUME IInv, NEW s \in Sessions, Abort(s)
  PROVE  IInv'
  <1>1. eventsLeft' \in 0..EventBudget
    BY Budgets, BudgetsOK DEF Abort, Event, IInv
  <1> QED
    BY <1>1, EndKeeps, ErrorTold DEF Ends, Abort, Event

-----------------------------------------------------------------------------
(* Decisions *)

LEMMA FoundApps ==
  ASSUME IInv, NEW c, NEW j
  PROVE  /\ ActiveOf(c, j) \subseteq AppsOf(c, j) /\ AppsOf(c, j) \subseteq DOMAIN apps
         /\ AppsOf(None, j) = {}
         /\ Some(ActiveOf(c, j)) = None => ActiveOf(c, j) = {}
  <1>1. DOMAIN apps \subseteq Ids /\ DOMAIN cands \subseteq Ids
    BY RowTypes DEF IInv
  <1>2. ActiveOf(c, j) \subseteq AppsOf(c, j) /\ AppsOf(c, j) \subseteq DOMAIN apps
    BY DEF ActiveOf, AppsOf
  <1>3. AppsOf(None, j) = {}
    BY <1>1, NoneIsNoId DEF AppsOf, IInv, RowsFit
  <1> QED
    BY <1>1, <1>2, <1>3, SomeIsMember, NoneIsNoId

\* A transaction that has decided: what it found holds.
LEMMA DecidedKeeps ==
  ASSUME IInv, NEW s \in Sessions, At(s, "matching"), NEW cand, NEW app, NEW reason \in {"none", "contact", "name"},
         Ready(s, cand, app, reason), UNCHANGED <<open, budgets>>,
         cand \in DOMAIN cands \cup {None},
         cand = None => \A c \in DOMAIN cands : Contacted(c, Req(s)) => Public(Req(s)) /\ reason = "contact",
         app = None \/ app \in ActiveOf(cand, Req(s).job),
         Public(Req(s)) =>
           /\ AppsOf(cand, Req(s).job) = ActiveOf(cand, Req(s).job)
           /\ IF app = None THEN AppsOf(cand, Req(s).job) = {} ELSE SubOf(app) = {},
         ~Public(Req(s)) => OwnerFits(Req(s).resume, cand)
  PROVE  IInv'
  <1> DEFINE to == [sess[s] EXCEPT !.pc = "ready", !.cand = cand, !.app = app, !.reason = reason]
  <1>1. /\ ~At(s, "idle") /\ Req(s) \in Requests /\ sess[s] \in Transaction /\ MatchingFits(s)
        /\ sess[s].held = Len(Locks(Req(s)))
    BY SessionTyped DEF At, IInv, SessionsFit, SessionFits, MatchingFits
  <1>2. cand \in Ids \cup {None} /\ app \in Ids \cup {None}
    BY RowTypes, FoundApps DEF IInv
  <1>3. /\ to \in Transaction /\ to.pc = "ready" /\ to.req = Req(s) /\ to.held = sess[s].held
        /\ to.cand = cand /\ to.app = app /\ to.reason = reason
    BY <1>1, <1>2 DEF Transaction, Req
  <1>4. Goes(s, to) /\ Quiet /\ UNCHANGED rows
    BY DEF Ready
  <1> HIDE DEF to
  <1>5. sess'[s] = to /\ Req(s)' = Req(s) /\ UNCHANGED <<cands, apps, subs, owner>>
    BY <1>3, <1>4 DEF Goes, IInv, TypeOK, Req, rows
  <1>6. KeyIsNew(s)'
    BY <1>1, <1>5 DEF MatchingFits, KeyIsNew, SubsOf
  <1>7. CandidateFits(s)'
    BY <1>3, <1>5 DEF CandidateFits, Contacted
  <1>8. ApplicationFits(s)'
    BY <1>3, <1>5 DEF ApplicationFits, AppsOf, ActiveOf, SubOf
  <1>9. ReadyFits(s)'
    BY <1>1, <1>3, <1>5, <1>6, <1>7, <1>8 DEF ReadyFits, OwnerFits
  <1>10. SessionFits(s)'
    <2>1. sess[s].held \in 0..Len(Locks(Req(s)))
      BY <1>1 DEF IInv, SessionsFit, SessionFits
    <2> QED
      BY <1>1, <1>3, <1>5, <1>9, <2>1 DEF SessionFits, At
  <1>11. LocksApart'
    <2>1. Held(s)' = Held(s)
      BY <1>1, <1>3, <1>5 DEF Held, At
    <2> QED
      BY <1>4, <2>1, LocksGoApart DEF IInv
  <1> QED
    BY <1>1, <1>3, <1>4, <1>10, <1>11, GoesOnKeeps

LEMMA NotSubmittedYet ==
  ASSUME IInv, NEW s \in Sessions, At(s, "matching")
  PROVE  \A k \in DOMAIN subs : subs[k].req # Req(s)
  <1>1. KeyIsNew(s)
    BY DEF IInv, SessionsFit, SessionFits, MatchingFits
  <1> QED
    BY <1>1, NotSubmitted DEF IInv

\* What is found under the locks is everybody who was taken in with a contact of the request.
LEMMA AllFound ==
  ASSUME IInv, NEW s \in Sessions, HasRows(s)
  PROVE  /\ Found(s) \subseteq DOMAIN cands /\ Exact(s) \subseteq Found(s)
         /\ \A c \in DOMAIN cands : Contacted(c, Req(s)) => c \in Found(s)
         /\ \A c \in Exact(s) : cands[c].phone = Req(s).phone /\ cands[c].email = Req(s).email
  <1>1. MatchingFits(s) /\ sess[s].wanted = {}
    BY DEF HasRows, IInv, SessionsFit, SessionFits
  <1> QED
    BY <1>1 DEF MatchingFits, Found, Exact, Contacted, Matches, SamePhone, SameEmail

LEMMA DecidePublicKeeps ==
  ASSUME IInv, NEW s \in Sessions, DecidePublic(s)
  PROVE  IInv'
  <1> DEFINE to == Resolved(s)
             history == AppsOf(to.cand, Req(s).job)
             active == ActiveOf(to.cand, Req(s).job)
             told == UNION {SubOf(a) : a \in active}
  <1>1. /\ HasRows(s) /\ At(s, "matching") /\ ~At(s, "idle") /\ Public(Req(s))
        /\ UNCHANGED <<open, budgets>>
        /\ \A k \in DOMAIN subs : subs[k].req # Req(s)
    BY NotSubmittedYet DEF DecidePublic, HasRows, At
  <1>2. /\ DOMAIN cands \subseteq Ids /\ Exact(s) \subseteq DOMAIN cands
        /\ to.reason \in {"none", "contact", "name"}
        /\ \/ to.cand \in Exact(s)
           \/ to.cand = None /\ (Found(s) # {} => to.reason = "contact")
    <2>1. DOMAIN cands \subseteq Ids /\ Exact(s) \subseteq DOMAIN cands
      BY <1>1, AllFound, RowTypes DEF IInv
    <2>2. Cardinality(Exact(s)) = 1 => Some(Exact(s)) \in Exact(s)
      BY FS_EmptySet, SomeIsMember
    <2> QED
      BY <2>1, <2>2 DEF Resolved
  <1>3. UNCHANGED callsLeft /\ eventsLeft' \in 0..EventBudget
    BY <1>1, Budgets DEF budgets, IInv
  <1>4. CASE Ends(s, Refused)
    <2>1. ReferencesKept'
      BY <1>1, <1>4, WordTold DEF Ends, rows
    <2> QED
      BY <1>1, <1>3, <1>4, <2>1, EndKeeps DEF Ends
  <1>5. CASE told # {} /\ Ends(s, Reference(Some(told)))
    <2>1. Some(told) \in told
      BY <1>5, SomeIsMember
    <2>2. PICK a \in active : Some(told) \in SubOf(a)
      BY <2>1
    <2> DEFINE k == Some(told)
    <2>3. k \in DOMAIN subs /\ subs[k].app = a
      BY <2>2 DEF SubOf
    <2>4. a \in DOMAIN apps /\ apps[a].cand = to.cand /\ apps[a].job = Req(s).job /\ to.cand # None
      <3>1. a \in AppsOf(to.cand, Req(s).job)
        BY <2>2 DEF ActiveOf
      <3>2. AppsOf(None, Req(s).job) = {}
        BY FoundApps
      <3> QED
        BY <3>1, <3>2 DEF AppsOf
    <2>5. cands[to.cand].phone = Req(s).phone /\ cands[to.cand].email = Req(s).email
      BY <1>1, <1>2, <2>4, AllFound
    <2>6. Tell(s, Reference(k)) /\ UNCHANGED rows /\ Goes(s, Idle)
      BY <1>5 DEF Ends
    <2> HIDE DEF k, to
    <2>7. ReferencesKept'
      BY <1>1, <2>3, <2>4, <2>5, <2>6, OlderReferenceTold
    <2> QED
      BY <1>1, <1>3, <2>6, <2>7, EndKeeps
  <1>6. CASE history = active /\ told = {} /\ Ready(s, to.cand, Some(active), to.reason)
    <2>1. \A a \in active : SubOf(a) = {}
      BY <1>6
    <2>2. Some(active) = None \/ Some(active) \in active
      BY SomeIsMember DEF Some
    <2>3. Some(active) = None => active = {}
      BY FoundApps
    <2>4. to.cand = None => \A c \in DOMAIN cands : Contacted(c, Req(s)) => to.reason = "contact"
      BY <1>1, <1>2, NoneIsNoId, AllFound
    <2> QED
      BY <1>1, <1>2, <1>6, <2>1, <2>2, <2>3, <2>4, DecidedKeeps
  <1> QED
    BY <1>4, <1>5, <1>6 DEF DecidePublic

LEMMA DecideIntakeKeeps ==
  ASSUME IInv, NEW s \in Sessions, DecideIntake(s)
  PROVE  IInv'
  <1> DEFINE cand == Some(Found(s))
  <1>1. /\ HasRows(s) /\ At(s, "matching") /\ ~At(s, "idle") /\ ~Public(Req(s))
        /\ UNCHANGED <<open, budgets>>
        /\ \A k \in DOMAIN subs : subs[k].req # Req(s)
    BY NotSubmittedYet DEF DecideIntake, HasRows, At
  <1>2. UNCHANGED callsLeft /\ eventsLeft' \in 0..EventBudget
    BY <1>1, Budgets DEF budgets, IInv
  <1>3. CASE Ends(s, Refused)
    <2>1. ReferencesKept'
      BY <1>1, <1>3, WordTold DEF Ends, rows
    <2> QED
      BY <1>1, <1>2, <1>3, <2>1, EndKeeps DEF Ends
  <1>4. CASE OwnerFits(Req(s).resume, cand) /\ Ready(s, cand, Some(ActiveOf(cand, Req(s).job)), "none")
    <2>1. DOMAIN cands \subseteq Ids /\ Found(s) \subseteq DOMAIN cands
      BY <1>1, AllFound, RowTypes DEF IInv
    <2>2. IF Found(s) = {} THEN TRUE ELSE cand \in DOMAIN cands /\ cand # None
      BY <2>1, SomeIsMember, NoneIsNoId
    <2>3. Found(s) = {} => cand = None
      BY DEF Some
    <2>4. cand = None => \A c \in DOMAIN cands : ~Contacted(c, Req(s))
      BY <1>1, <2>2, AllFound
    <2>5. \/ Some(ActiveOf(cand, Req(s).job)) = None
          \/ Some(ActiveOf(cand, Req(s).job)) \in ActiveOf(cand, Req(s).job)
      BY SomeIsMember DEF Some
    <2> HIDE DEF cand
    <2> QED
      BY <1>1, <1>4, <2>2, <2>3, <2>4, <2>5, DecidedKeeps
  <1> QED
    BY <1>3, <1>4 DEF DecideIntake

-----------------------------------------------------------------------------
(* What a commit writes *)

CandsWritten(s) ==
  /\ cands' \in Seq(Candidate) /\ Len(cands') \in {Len(cands), Len(cands) + 1}
  /\ DOMAIN cands \subseteq DOMAIN cands' /\ CandId(s) \in DOMAIN cands'
  /\ \A c \in DOMAIN cands : cands'[c] = cands[c]
  /\ \A c \in DOMAIN cands' :
       c \in DOMAIN cands \/
       (c = Len(cands) + 1 /\ sess[s].cand = None /\ cands'[c] = NewCandidate(Req(s)))

AppsWritten(s) ==
  /\ apps' \in Seq(Application) /\ Len(apps') \in {Len(apps), Len(apps) + 1}
  /\ DOMAIN apps \subseteq DOMAIN apps' /\ AppId(s) \in DOMAIN apps'
  /\ \A a \in DOMAIN apps :
       /\ apps'[a].cand = apps[a].cand /\ apps'[a].job = apps[a].job
       /\ apps'[a].life = apps[a].life /\ apps'[a].resume = apps[a].resume
  /\ \A a \in DOMAIN apps' :
       a \in DOMAIN apps \/
       (a = Len(apps) + 1 /\ sess[s].app = None /\ apps'[a] = NewApplication(Req(s), CandId(s)))
  /\ apps'[AppId(s)].cand = CandId(s) /\ apps'[AppId(s)].job = Req(s).job
  /\ AppId(s) \in DOMAIN apps => apps[AppId(s)].job = Req(s).job

SubsWritten(s) ==
  /\ subs' \in Seq(Submission) /\ DOMAIN subs \subseteq DOMAIN subs'
  /\ \A k \in DOMAIN subs : subs'[k] = subs[k]
  /\ \A k \in DOMAIN subs' :
       k \in DOMAIN subs \/
       (k = Len(subs) + 1 /\ Public(Req(s)) /\ subs'[k].req = Req(s) /\ subs'[k].app = AppId(s)
        /\ subs'[k].reason = sess[s].reason)
  /\ Public(Req(s)) => Len(subs) + 1 \in DOMAIN subs' \ DOMAIN subs
  /\ ~Public(Req(s)) => UNCHANGED subs

LEMMA ReadyFacts ==
  ASSUME IInv, NEW s \in Sessions, At(s, "ready")
  PROVE  /\ ~At(s, "idle") /\ Req(s) \in Requests /\ ReadyFits(s) /\ HasAllLocks(s) /\ BehindKey(s)
         /\ sess[s] \in Transaction /\ TypeOK /\ SessionsFit /\ LocksApart /\ WithinBudget /\ RowsFit
         /\ sess[s].cand = None => sess[s].app = None
  <1>1. ReadyFits(s)
    BY DEF IInv, SessionsFit, SessionFits
  <1>2. sess[s].app # None => AppsOf(sess[s].cand, Req(s).job) # {}
    BY <1>1, FoundApps DEF ReadyFits, ApplicationFits
  <1>3. AppsOf(None, Req(s).job) = {}
    BY FoundApps
  <1> QED
    BY <1>1, <1>2, <1>3, SessionTyped DEF IInv, SessionsFit, SessionFits, At, HasAllLocks, BehindKey, Deciding

\* HR's decision on an application is the only thing that changes.
LEMMA Confirming ==
  ASSUME IInv, NEW q \in Requests, NEW a \in DOMAIN apps, apps' = Confirmed(q, a)
  PROVE  SameApps /\ SameLinks /\ apps' \in Seq(Application) /\ Len(apps') = Len(apps)
  <1>1. apps \in Seq(Application) /\ DOMAIN apps = 1..Len(apps) /\ apps[a] \in Application
    BY RowTypes DEF IInv, TypeOK
  <1>2. PICK to \in Application :
          to = [apps[a] EXCEPT !.decision = IF q.kind = "direct" THEN "passed" ELSE apps[a].decision]
    BY <1>1 DEF Application
  <1>3. apps' = [apps EXCEPT ![a] = to]
    BY <1>1, <1>2 DEF Confirmed
  <1>4. to.cand = apps[a].cand /\ to.job = apps[a].job /\ to.life = apps[a].life /\ to.resume = apps[a].resume
    BY <1>1, <1>2 DEF Application
  <1>5. /\ apps' \in Seq(Application) /\ Len(apps') = Len(apps) /\ DOMAIN apps' = DOMAIN apps
        /\ \A b \in DOMAIN apps : apps'[b] = IF b = a THEN to ELSE apps[b]
    BY <1>1, <1>3, ExceptSeq, LenProperties
  <1> QED
    BY <1>4, <1>5 DEF SameApps, SameLinks

LEMMA CandidateWritten ==
  ASSUME IInv, NEW s \in Sessions, At(s, "ready"), Written(s)
  PROVE  CandsWritten(s)
  <1>1. cands \in Seq(Candidate) /\ DOMAIN cands = 1..Len(cands) /\ Len(cands) \in Nat
    BY RowTypes DEF IInv, TypeOK
  <1>2. WriteCandidate(s) /\ Req(s) \in Requests /\ sess[s].cand \in DOMAIN cands \cup {None}
    BY ReadyFacts DEF Written, ReadyFits, CandidateFits
  <1>3. CASE sess[s].cand = None
    <2>1. NewCandidate(Req(s)) \in Candidate
      BY <1>2 DEF NewCandidate, Candidate, Names, Phones, Emails
    <2>2. cands' = Append(cands, NewCandidate(Req(s))) /\ CandId(s) = Len(cands) + 1
      BY <1>2, <1>3 DEF WriteCandidate, CandId
    <2> DEFINE new == NewCandidate(Req(s))
    <2> HIDE DEF new
    <2>3. /\ cands' \in Seq(Candidate) /\ Len(cands') = Len(cands) + 1 /\ DOMAIN cands' = 1..Len(cands) + 1
          /\ cands'[Len(cands) + 1] = new
          /\ \A c \in DOMAIN cands : cands'[c] = cands[c]
      BY <1>1, <2>1, <2>2, AppendProperties, LenProperties DEF new
    <2> QED
      BY <1>1, <1>3, <2>2, <2>3 DEF CandsWritten, new
  <1>4. CASE sess[s].cand # None
    BY <1>1, <1>2, <1>4 DEF WriteCandidate, CandId, CandsWritten
  <1> QED
    BY <1>3, <1>4

LEMMA ApplicationWritten ==
  ASSUME IInv, NEW s \in Sessions, At(s, "ready"), Written(s)
  PROVE  AppsWritten(s)
  <1>1. apps \in Seq(Application) /\ DOMAIN apps = 1..Len(apps) /\ Len(apps) \in Nat
    BY RowTypes DEF IInv, TypeOK
  <1>2. /\ WriteApplication(s) /\ Req(s) \in Requests /\ ApplicationFits(s)
        /\ sess[s].cand = None => sess[s].app = None
    BY ReadyFacts DEF Written, ReadyFits
  <1>3. CASE sess[s].app = None
    <2> DEFINE new == NewApplication(Req(s), CandId(s))
    <2>1. CandId(s) \in Ids
      BY RoomLeft, ReadyFacts, RowTypes DEF CandId, ReadyFits, CandidateFits
    <2>2. new \in Application /\ new.cand = CandId(s) /\ new.job = Req(s).job
      BY <1>2, <2>1, RequestsOK DEF NewApplication, Application, Public
    <2>3. apps' = Append(apps, new) /\ AppId(s) = Len(apps) + 1
      BY <1>2, <1>3 DEF WriteApplication, AppId
    <2> HIDE DEF new
    <2>4. /\ apps' \in Seq(Application) /\ Len(apps') = Len(apps) + 1 /\ DOMAIN apps' = 1..Len(apps) + 1
          /\ apps'[Len(apps) + 1] = new
          /\ \A a \in DOMAIN apps : apps'[a] = apps[a]
      BY <1>1, <2>2, <2>3, AppendProperties, LenProperties
    <2> QED
      BY <1>1, <1>3, <2>2, <2>3, <2>4 DEF AppsWritten, new
  <1>4. CASE sess[s].app # None
    <2>1. /\ sess[s].app \in DOMAIN apps /\ sess[s].cand # None
          /\ apps[sess[s].app].cand = sess[s].cand /\ apps[sess[s].app].job = Req(s).job
      BY <1>2, <1>4 DEF ApplicationFits, ActiveOf, AppsOf
    <2>2. apps' = Confirmed(Req(s), sess[s].app) /\ AppId(s) = sess[s].app /\ CandId(s) = sess[s].cand
      BY <1>2, <1>4, <2>1 DEF WriteApplication, AppId, CandId
    <2>3. SameApps /\ SameLinks /\ apps' \in Seq(Application) /\ Len(apps') = Len(apps)
      BY <1>2, <2>1, <2>2, Confirming
    <2> QED
      BY <2>1, <2>2, <2>3 DEF AppsWritten, SameApps, SameLinks
  <1> QED
    BY <1>3, <1>4

LEMMA SubmissionWritten ==
  ASSUME IInv, NEW s \in Sessions, At(s, "ready"), Written(s)
  PROVE  SubsWritten(s)
  <1>1. subs \in Seq(Submission) /\ DOMAIN subs = 1..Len(subs) /\ Len(subs) \in Nat
    BY RowTypes DEF IInv, TypeOK
  <1>2. CASE Public(Req(s))
    <2> DEFINE new == [req |-> Req(s), app |-> AppId(s), reason |-> sess[s].reason]
    <2>1. AppId(s) \in Ids
      BY RoomLeft, ReadyFacts DEF AppId, Transaction
    <2>2. new \in Submission
      BY <2>1, ReadyFacts DEF Submission, Transaction
    <2>3. subs' = Append(subs, new) /\ new.req = Req(s) /\ new.app = AppId(s) /\ new.reason = sess[s].reason
      BY <1>2 DEF Written
    <2> HIDE DEF new
    <2>4. /\ subs' \in Seq(Submission) /\ DOMAIN subs' = 1..Len(subs) + 1
          /\ subs'[Len(subs) + 1] = new
          /\ \A k \in DOMAIN subs : subs'[k] = subs[k]
      BY <1>1, <2>2, <2>3, AppendProperties, LenProperties
    <2> QED
      BY <1>1, <1>2, <2>3, <2>4 DEF SubsWritten
  <1>3. CASE ~Public(Req(s))
    BY <1>1, <1>3 DEF Written, SubsWritten
  <1> QED
    BY <1>2, <1>3

-----------------------------------------------------------------------------
(* Commits keep the invariant *)

\* Whoever else is behind its locks works on another key, job, contact and resume.
LEMMA OtherStays ==
  ASSUME IInv, NEW s \in Sessions, At(s, "ready"), Written(s), NEW t \in Sessions \ {s}, sess'[t] = sess[t]
  PROVE  SessionFits(t)'
  <1>1. CandsWritten(s) /\ AppsWritten(s) /\ SubsWritten(s)
    BY CandidateWritten, ApplicationWritten, SubmissionWritten
  <1>2. /\ HasAllLocks(s) /\ BehindKey(s) /\ TypeOK /\ SessionsFit /\ LocksApart /\ RowsFit /\ SessionFits(t)
    BY ReadyFacts DEF SessionsFit
  <1>3. /\ DOMAIN cands = 1..Len(cands) /\ DOMAIN apps = 1..Len(apps) /\ Len(apps) \in Nat
        /\ Len(subs) \in Nat /\ DOMAIN subs = 1..Len(subs)
    BY RowTypes DEF IInv
  <1>4. Req(t)' = Req(t) /\ sess'[t] = sess[t]
    BY DEF Req
  <1>5. ASSUME Public(Req(t)), BehindKey(t) PROVE SubsOf(Req(t).key)' = SubsOf(Req(t).key)
    <2>1. Public(Req(s)) => Req(s).key # Req(t).key
      BY <1>2, <1>5, KeysDiffer
    <2> QED
      BY <1>1, <1>4, <2>1 DEF SubsWritten, SubsOf
  <1>8. ASSUME Deciding(t), NEW c \in DOMAIN cands', Contacted(c, Req(t))'
        PROVE  c \in DOMAIN cands /\ Contacted(c, Req(t))
    <2>1. Req(s).email # Req(t).email /\ Req(s).phone # Req(t).phone
      BY <1>2, <1>8, LocksDiffer DEF HasAllLocks
    <2> QED
      BY <1>1, <1>4, <1>8, <2>1 DEF CandsWritten, Contacted, NewCandidate
  <1>6. ASSUME At(t, "ready")
        PROVE  /\ ApplicationFits(t)'
               /\ ~Public(Req(t)) => owner'[Req(t).resume] = owner[Req(t).resume]
    <2>1. /\ Req(s).email # Req(t).email /\ Req(s).phone # Req(t).phone /\ Req(s).job # Req(t).job
          /\ ~Public(Req(s)) /\ ~Public(Req(t)) => Req(s).resume # Req(t).resume
      BY <1>2, <1>6, LocksDiffer DEF HasAllLocks, Deciding
    <2>3. \A c : AppsOf(c, Req(t).job)' = AppsOf(c, Req(t).job) /\ ActiveOf(c, Req(t).job)' = ActiveOf(c, Req(t).job)
      <3>1. \A a \in DOMAIN apps' \ DOMAIN apps : apps'[a].job # Req(t).job
        BY <1>1, <2>1 DEF AppsWritten, NewApplication
      <3> QED
        BY <1>1, <1>4, <3>1 DEF AppsWritten, AppsOf, ActiveOf
    <2>4. \A a \in DOMAIN apps : apps[a].job = Req(t).job => SubOf(a)' = SubOf(a)
      BY <1>1, <1>2, <2>1 DEF SubsWritten, AppsWritten, SubOf
    <2>5. ApplicationFits(t)
      BY <1>2, <1>6 DEF SessionFits, ReadyFits
    <2>6. sess[t].app # None => sess[t].app \in DOMAIN apps /\ apps[sess[t].app].job = Req(t).job
      BY <2>5 DEF ApplicationFits, ActiveOf, AppsOf
    <2>7. ApplicationFits(t)'
      BY <1>4, <2>3, <2>4, <2>5, <2>6 DEF ApplicationFits
    <2>8. ~Public(Req(t)) => owner'[Req(t).resume] = owner[Req(t).resume]
      <3>1. /\ owner \in [HrResumes -> Ids \cup {None}]
            /\ ~Public(Req(s)) => Req(s).resume \in HrResumes
            /\ ~Public(Req(t)) => Req(t).resume \in HrResumes
        BY <1>2, <1>6, ReadyFacts, RequestsOK DEF TypeOK, Public
      <3> QED
        BY <2>1, <3>1 DEF Written
    <2> QED
      BY <2>7, <2>8
  <1>7. SessionStays(t)
    BY <1>1, <1>4, <1>5, <1>6, <1>8 DEF SessionStays, CandsWritten
  <1> QED
    BY <1>2, <1>7, StaysFit

LEMMA OwnersFit ==
  ASSUME IInv, NEW s \in Sessions, At(s, "ready"), Written(s)
  PROVE  /\ owner' \in [HrResumes -> Ids \cup {None}]
         /\ ResumeOwned'
  <1>1. CandsWritten(s) /\ AppsWritten(s)
    BY CandidateWritten, ApplicationWritten
  <1>2. /\ Req(s) \in Requests /\ ReadyFits(s) /\ RowsFit /\ TypeOK
        /\ ~Public(Req(s)) => Req(s).resume \in HrResumes
        /\ owner \in [HrResumes -> Ids \cup {None}]
    BY ReadyFacts, RequestsOK DEF Public, TypeOK
  <1>3. CandId(s) \in Ids /\ DOMAIN cands \subseteq Ids /\ \A a \in DOMAIN apps : apps[a] \in Application
    BY RoomLeft, ReadyFacts, RowTypes DEF CandId, ReadyFits, CandidateFits, IInv
  <1>4. CASE ~Public(Req(s)) /\ sess[s].app = None /\ owner' = [owner EXCEPT ![Req(s).resume] = CandId(s)]
    <2>1. owner' \in [HrResumes -> Ids \cup {None}]
      BY <1>2, <1>3, <1>4
    <2>2. ASSUME NEW a \in DOMAIN apps', apps'[a].resume # None PROVE owner'[apps'[a].resume] = apps'[a].cand
      <3>1. CASE a \in DOMAIN apps
        <4>1. /\ apps'[a].resume = apps[a].resume /\ apps'[a].cand = apps[a].cand
              /\ owner[apps[a].resume] = apps[a].cand /\ apps[a].cand \in DOMAIN cands /\ apps[a].resume \in HrResumes
          BY <1>1, <1>2, <1>3, <2>2, <3>1 DEF AppsWritten, RowsFit, ResumeOwned, Application
        <4>2. CASE apps[a].resume = Req(s).resume
          <5>1. apps[a].cand = sess[s].cand /\ sess[s].cand # None
            BY <1>2, <1>3, <1>4, <4>1, <4>2, NoneIsNoId DEF ReadyFits, OwnerFits
          <5> QED
            BY <1>2, <1>4, <4>1, <4>2, <5>1 DEF CandId
        <4>3. CASE apps[a].resume # Req(s).resume
          BY <1>2, <1>4, <4>1, <4>3
        <4> QED
          BY <4>2, <4>3
      <3>2. CASE a \notin DOMAIN apps
        <4>1. apps'[a].cand = CandId(s) /\ apps'[a].resume = Req(s).resume
          BY <1>1, <1>4, <3>2 DEF AppsWritten, NewApplication
        <4> QED
          BY <1>2, <1>4, <4>1
      <3> QED
        BY <3>1, <3>2
    <2> QED
      BY <2>1, <2>2 DEF ResumeOwned
  <1>5. CASE UNCHANGED owner /\ (Public(Req(s)) \/ sess[s].app # None)
    <2>1. ASSUME NEW a \in DOMAIN apps', apps'[a].resume # None PROVE owner'[apps'[a].resume] = apps'[a].cand
      <3>1. a \in DOMAIN apps
        BY <1>1, <1>5, <2>1 DEF AppsWritten, NewApplication
      <3> QED
        BY <1>1, <1>2, <1>5, <2>1, <3>1 DEF AppsWritten, RowsFit, ResumeOwned
    <2> QED
      BY <1>2, <1>5, <2>1 DEF ResumeOwned
  <1> QED
    BY <1>4, <1>5 DEF Written

LEMMA WrittenRowsFit ==
  ASSUME IInv, NEW s \in Sessions, At(s, "ready"), Written(s)
  PROVE  RowsFit'
  <1>1. CandsWritten(s) /\ AppsWritten(s) /\ SubsWritten(s) /\ ResumeOwned'
    BY CandidateWritten, ApplicationWritten, SubmissionWritten, OwnersFit
  <1>2. RowsFit /\ KeyIsNew(s) /\ DOMAIN subs = 1..Len(subs) /\ Len(subs) \in Nat
    BY ReadyFacts, RowTypes DEF ReadyFits, IInv
  <1>3. \A a \in DOMAIN apps' : apps'[a].cand \in DOMAIN cands'
    BY <1>1, <1>2, SMTT(30) DEF AppsWritten, CandsWritten, RowsFit, NewApplication
  <1>4. \A k \in DOMAIN subs' : subs'[k].app \in DOMAIN apps' /\ Public(subs'[k].req)
    BY <1>1, <1>2 DEF SubsWritten, AppsWritten, RowsFit
  <1>5. \A k, l \in DOMAIN subs' : subs'[k].req.key = subs'[l].req.key => k = l
    <2>1. \A k \in DOMAIN subs : Public(Req(s)) => subs[k].req.key # Req(s).key
      BY <1>2 DEF KeyIsNew, SubsOf
    <2> QED
      BY <1>1, <1>2, <2>1 DEF SubsWritten, RowsFit
  <1> QED
    BY <1>1, <1>3, <1>4, <1>5 DEF RowsFit

\* A candidate who shares a contact is taken in only by the page, and marked.
LEMMA WrittenFlagged ==
  ASSUME IInv, NEW s \in Sessions, At(s, "ready"), Written(s)
  PROVE  OverlapFlagged'
  <1>1. CandsWritten(s) /\ AppsWritten(s) /\ SubsWritten(s)
    BY CandidateWritten, ApplicationWritten, SubmissionWritten
  <1>2. /\ RowsFit /\ OverlapFlagged /\ ReadyFits(s)
        /\ DOMAIN cands = 1..Len(cands) /\ Len(cands) \in Nat
    BY ReadyFacts, RowTypes DEF IInv
  <1>3. \A c : Made(c, "contact") => Made(c, "contact")'
    BY <1>1, <1>2 DEF Made, SubsWritten, AppsWritten, RowsFit
  <1> SUFFICES ASSUME NEW c \in DOMAIN cands', NEW d \in DOMAIN cands',
                      c < d, ~cands'[c].edited, ~cands'[d].edited,
                      cands'[c].phone = cands'[d].phone \/ cands'[c].email = cands'[d].email
               PROVE  Made(d, "contact")'
    BY DEF OverlapFlagged, Edited
  <1>4. c \in DOMAIN cands /\ cands'[c] = cands[c]
    BY <1>1, <1>2 DEF CandsWritten
  <1>5. CASE d \in DOMAIN cands
    BY <1>1, <1>2, <1>3, <1>4, <1>5 DEF CandsWritten, OverlapFlagged, Edited
  <1>6. CASE d \notin DOMAIN cands
    <2>1. d = CandId(s) /\ sess[s].cand = None /\ cands'[d] = NewCandidate(Req(s))
      BY <1>1, <1>6 DEF CandsWritten, CandId
    <2>2. Contacted(c, Req(s))
      BY <1>4, <2>1 DEF Contacted, NewCandidate
    <2>3. Public(Req(s)) /\ sess[s].reason = "contact"
      BY <1>2, <1>4, <2>1, <2>2 DEF ReadyFits, CandidateFits
    <2>4. /\ Len(subs) + 1 \in DOMAIN subs' \ DOMAIN subs /\ subs'[Len(subs) + 1].app = AppId(s)
          /\ subs'[Len(subs) + 1].reason = "contact"
      BY <1>1, <2>3 DEF SubsWritten
    <2> QED
      BY <1>1, <2>1, <2>4 DEF Made, AppsWritten
  <1> QED
    BY <1>5, <1>6

LEMMA WrittenKeeps ==
  ASSUME IInv, NEW s \in Sessions, At(s, "ready"), Written(s), Goes(s, Idle), NEW what, Tell(s, what),
         ReferencesKept', UNCHANGED <<open, callsLeft>>, eventsLeft' \in 0..EventBudget
  PROVE  IInv'
  <1>1. CandsWritten(s) /\ AppsWritten(s) /\ SubsWritten(s)
    BY CandidateWritten, ApplicationWritten, SubmissionWritten
  <1>2. ~At(s, "idle") /\ TypeOK /\ LocksApart /\ WithinBudget
    BY ReadyFacts
  <1>3. sess'[s] = Idle /\ \A t \in Sessions \ {s} : sess'[t] = sess[t]
    BY <1>2 DEF Goes, TypeOK
  <1>4. SessionsFit'
    <2>1. SessionFits(s)'
      BY <1>3, IdleTyped DEF SessionFits, At
    <2> QED
      BY <1>3, <2>1, OtherStays DEF SessionsFit
  <1>5. LocksApart'
    <2>1. Held(s)' = {}
      BY <1>3, IdleTyped DEF Held, At
    <2> QED
      BY <1>2, <2>1, LocksGoApart
  <1>6. WithinBudget'
    BY <1>1, <1>2, IdleTyped, BusyEnds DEF CandsWritten, AppsWritten
  <1>7. TypeOK'
    <2>1. sess' \in [Sessions -> Transaction]
      BY <1>2, IdleTyped DEF Goes, TypeOK
    <2>2. said'.req \in Requests
      BY <1>2, Asked DEF Tell
    <2> QED
      BY <1>1, <1>2, <2>1, <2>2, OwnersFit DEF TypeOK, CandsWritten, AppsWritten, SubsWritten
  <1> QED
    BY <1>4, <1>5, <1>6, <1>7, WrittenRowsFit, WrittenFlagged DEF IInv

LEMMA CommitKeeps ==
  ASSUME IInv, NEW s \in Sessions, Commit(s)
  PROVE  IInv'
  <1>1. At(s, "ready") /\ Written(s) /\ Goes(s, Idle) /\ UNCHANGED <<open, budgets>>
    BY DEF Commit
  <1>2. SubsWritten(s) /\ KeyIsNew(s) /\ RowsFit
    BY <1>1, SubmissionWritten, ReadyFacts DEF ReadyFits
  <1>3. \A k \in DOMAIN subs : subs[k].req # Req(s)
    BY <1>2, NotSubmitted
  <1>4. ReferencesKept'
    <2>1. CASE Public(Req(s))
      <3>1. Tell(s, Reference(Len(subs) + 1)) /\ subs'[Len(subs) + 1].req = Req(s)
        BY <1>2, <2>1 DEF Commit, SubsWritten
      <3>2. \A l \in DOMAIN subs' : subs'[l].req = Req(s) => l = Len(subs) + 1
        BY <1>2, <1>3 DEF SubsWritten
      <3> QED
        BY <3>1, <3>2, OwnReferenceTold
    <2>2. CASE ~Public(Req(s))
      BY <1>2, <1>3, <2>2, WordTold DEF Commit, SubsWritten
    <2> QED
      BY <2>1, <2>2
  <1>5. PICK what : Tell(s, what)
    BY DEF Commit
  <1> QED
    BY <1>1, <1>4, <1>5, WrittenKeeps, Budgets DEF budgets, IInv

LEMMA AnswerLostKeeps ==
  ASSUME IInv, NEW s \in Sessions, AnswerLost(s)
  PROVE  IInv'
  <1>1. eventsLeft' \in 0..EventBudget
    BY Budgets, BudgetsOK DEF AnswerLost, Event, IInv
  <1> QED
    BY <1>1, WrittenKeeps, ErrorTold DEF AnswerLost, Event

-----------------------------------------------------------------------------
(* Looking again, and what HR does elsewhere *)

LEMMA LookAgainKeeps ==
  ASSUME IInv, NEW s \in Sessions, LookAgain(s)
  PROVE  IInv'
  <1> DEFINE found == ActiveOf(sess[s].cand, Req(s).job)
  <1>1. /\ At(s, "again") /\ ~At(s, "idle") /\ ~Public(Req(s)) /\ Req(s) \in Requests
        /\ UNCHANGED <<open, budgets>> /\ TypeOK /\ RowsFit /\ WithinBudget /\ LocksApart
    BY DEF LookAgain, At, IInv, SessionsFit, SessionFits
  <1>2. callsLeft' \in 0..CallBudget /\ eventsLeft' \in 0..EventBudget /\ open' \subseteq Jobs
    BY <1>1, Budgets DEF budgets
  <1>3. CASE Ends(s, Error)
    BY <1>1, <1>2, <1>3, EndKeeps, ErrorTold DEF Ends, budgets
  <1>4. CASE /\ found # {} /\ apps' = Confirmed(Req(s), Some(found))
             /\ Goes(s, Idle) /\ Tell(s, Done) /\ UNCHANGED <<cands, subs, owner>>
    <2>1. Some(found) \in DOMAIN apps
      BY <1>4, SomeIsMember DEF ActiveOf, AppsOf
    <2> HIDE DEF found
    <2>2. SameApps /\ SameLinks /\ apps' \in Seq(Application) /\ Len(apps') = Len(apps)
      BY <1>1, <1>4, <2>1, Confirming
    <2>3. sess'[s] = Idle /\ \A t \in Sessions \ {s} : sess'[t] = sess[t]
      BY <1>1, <1>4 DEF Goes, TypeOK
    <2>4. SessionsFit'
      <3>1. SessionFits(s)'
        BY <2>3, IdleTyped DEF SessionFits, At
      <3> QED
        BY <1>4, <2>2, <2>3, <3>1, StaysWhenSame DEF SessionsFit, IInv
    <2>5. LocksApart'
      <3>1. Held(s)' = {}
        BY <2>3, IdleTyped DEF Held, At
      <3> QED
        BY <1>1, <1>4, <3>1, LocksGoApart
    <2>6. WithinBudget'
      BY <1>1, <1>4, <2>2, IdleTyped, BusyEnds DEF budgets
    <2>7. ReferencesKept'
      <3>1. \A k \in DOMAIN subs : subs[k].req # Req(s)
        BY <1>1 DEF RowsFit
      <3> QED
        BY <1>4, <3>1, WordTold
    <2>8. TypeOK'
      <3>1. sess' \in [Sessions -> Transaction]
        BY <1>1, <1>4, IdleTyped DEF Goes, TypeOK
      <3>2. said'.req \in Requests
        BY <1>1, <1>4 DEF Tell
      <3> QED
        BY <1>1, <1>2, <1>4, <2>2, <3>1, <3>2 DEF TypeOK
    <2> QED
      BY <1>1, <1>4, <2>2, <2>4, <2>5, <2>6, <2>7, <2>8, RowsStayFit, OverlapStaysFlagged DEF IInv
  <1> QED
    BY <1>3, <1>4 DEF LookAgain

\* What is the same after any step that HR takes elsewhere.
LEMMA HrFacts ==
  ASSUME IInv, Hr
  PROVE  /\ UNCHANGED <<sess, callsLeft>> /\ eventsLeft' \in 0..EventBudget /\ said' = None
         /\ LocksApart' /\ ReferencesKept'
         /\ Len(cands') = Len(cands) /\ Len(apps') = Len(apps) => WithinBudget'
  <1>1. UNCHANGED <<sess, callsLeft>> /\ said' = None
    BY DEF Hr, Quiet, Event
  <1>2. eventsLeft' \in 0..EventBudget
    BY Budgets, BudgetsOK DEF Hr, Event, IInv
  <1>3. LocksApart'
    BY <1>1 DEF IInv, LocksApart, Held, At, Req
  <1>4. ReferencesKept'
    BY QuietKeepsReferences DEF Hr
  <1>5. Len(cands') = Len(cands) /\ Len(apps') = Len(apps) => WithinBudget'
    BY <1>1, BusyStays DEF IInv, At
  <1> QED
    BY <1>1, <1>2, <1>3, <1>4, <1>5

LEMMA ToggleJobKeeps ==
  ASSUME IInv, NEW j \in Jobs, ToggleJob(j)
  PROVE  IInv'
  <1>1. /\ UNCHANGED <<sess, callsLeft>> /\ eventsLeft' \in 0..EventBudget /\ said' = None
        /\ LocksApart' /\ ReferencesKept' /\ WithinBudget'
    BY HrFacts DEF ToggleJob, rows
  <1>2. SameApps /\ SameLinks /\ UNCHANGED <<cands, apps, subs, owner>>
    BY DEF ToggleJob, SameApps, SameLinks, rows
  <1>3. SessionsFit'
    BY <1>1, <1>2, StaysWhenSame DEF SessionsFit, IInv
  <1>4. open' \subseteq Jobs
    BY Budgets DEF ToggleJob, IInv
  <1>5. TypeOK'
    BY <1>1, <1>2, <1>4 DEF IInv, TypeOK
  <1> QED
    BY <1>1, <1>2, <1>3, <1>5, RowsStayFit, OverlapStaysFlagged DEF IInv

\* An application that nobody has read FOR UPDATE ends, or is reopened.
LEMMA EndOrReopenKeeps ==
  ASSUME IInv, NEW a \in DOMAIN apps, EndOrReopen(a)
  PROVE  IInv'
  <1>1. apps \in Seq(Application) /\ DOMAIN apps = 1..Len(apps) /\ apps[a] \in Application
    BY RowTypes DEF IInv, TypeOK
  <1>2. PICK to \in Application :
          to = [apps[a] EXCEPT !.life = IF apps[a].life = "active" THEN "ended" ELSE "active"]
    BY <1>1 DEF Application
  <1>3. apps' = [apps EXCEPT ![a] = to]
    BY <1>1, <1>2 DEF EndOrReopen
  <1>4. to.cand = apps[a].cand /\ to.job = apps[a].job /\ to.resume = apps[a].resume
    BY <1>1, <1>2 DEF Application
  <1>5. /\ apps' \in Seq(Application) /\ Len(apps') = Len(apps) /\ DOMAIN apps' = DOMAIN apps
        /\ \A b \in DOMAIN apps : apps'[b] = IF b = a THEN to ELSE apps[b]
    BY <1>1, <1>3, ExceptSeq, LenProperties
  <1>6. SameLinks /\ UNCHANGED <<cands, subs, owner, open>>
    BY <1>4, <1>5 DEF SameLinks, EndOrReopen
  <1>7. /\ UNCHANGED <<sess, callsLeft>> /\ eventsLeft' \in 0..EventBudget /\ said' = None
        /\ LocksApart' /\ ReferencesKept' /\ WithinBudget'
    BY <1>5, <1>6, HrFacts DEF EndOrReopen
  <1>8. ASSUME NEW t \in Sessions PROVE SessionFits(t)'
    <2>1. SessionFits(t) /\ Req(t)' = Req(t) /\ sess'[t] = sess[t]
      BY <1>7 DEF IInv, SessionsFit, Req
    <2>2. /\ \A key : SubsOf(key)' = SubsOf(key)
          /\ \A b : SubOf(b)' = SubOf(b)
          /\ \A c, q : Contacted(c, q)' <=> Contacted(c, q)
      BY <1>6 DEF SubsOf, SubOf, Contacted
    <2>3. ASSUME At(t, "ready") PROVE ApplicationFits(t)'
      <3>1. ApplicationFits(t) /\ a \notin HeldApps(t)
        BY <2>1, <2>3 DEF SessionFits, ReadyFits, EndOrReopen, AppFree
      <3>2. \A c, j : AppsOf(c, j)' = AppsOf(c, j)
        BY <1>6 DEF SameLinks, AppsOf
      <3>3. a \notin AppsOf(sess[t].cand, Req(t).job) \/ (~Public(Req(t)) /\ apps[a].life # "active")
        BY <2>3, <3>1 DEF HeldApps, AppsOf
      <3>4. \A b \in ActiveOf(sess[t].cand, Req(t).job) : b # a
        BY <3>3 DEF ActiveOf
      <3>5. \A b \in ActiveOf(sess[t].cand, Req(t).job) : b \in ActiveOf(sess[t].cand, Req(t).job)'
        BY <1>5, <2>1, <3>2, <3>4 DEF ActiveOf, AppsOf
      <3>6. Public(Req(t)) => ActiveOf(sess[t].cand, Req(t).job)' = ActiveOf(sess[t].cand, Req(t).job)
        <4>1. Public(Req(t)) => \A b \in AppsOf(sess[t].cand, Req(t).job) : apps'[b] = apps[b]
          BY <1>5, <3>3 DEF AppsOf
        <4> QED
          BY <2>1, <3>2, <4>1 DEF ActiveOf
      <3> QED
        BY <2>1, <2>2, <3>1, <3>2, <3>5, <3>6 DEF ApplicationFits
    <2>4. SessionStays(t)
      BY <1>6, <2>1, <2>2, <2>3 DEF SessionStays
    <2> QED
      BY <2>1, <2>4, StaysFit
  <1>9. TypeOK'
    BY <1>5, <1>6, <1>7 DEF IInv, TypeOK
  <1> QED
    BY <1>6, <1>7, <1>8, <1>9, RowsStayFit, OverlapStaysFlagged DEF IInv, SessionsFit

\* An edited candidate is nobody's match any more, as far as the findings go.
LEMMA EditCandidateKeeps ==
  ASSUME IInv, NEW c \in DOMAIN cands, EditCandidate(c)
  PROVE  IInv'
  <1>1. cands \in Seq(Candidate) /\ DOMAIN cands = 1..Len(cands) /\ cands[c] \in Candidate
    BY RowTypes DEF IInv, TypeOK
  <1>2. PICK p \in Phones, e \in Emails :
          cands' = [cands EXCEPT ![c] = [@ EXCEPT !.phone = p, !.email = e, !.edited = TRUE]]
    BY DEF EditCandidate
  <1>3. PICK to \in Candidate :
          to = [cands[c] EXCEPT !.phone = p, !.email = e, !.edited = TRUE] /\ to.edited
    <2>1. p \in Phones /\ e \in Emails
      BY <1>2
    <2> DEFINE new == [cands[c] EXCEPT !.phone = p, !.email = e, !.edited = TRUE]
    <2>2. new \in Candidate
      BY <1>1, <2>1 DEF Candidate
    <2>3. new.edited = TRUE
      BY <1>1 DEF Candidate
    <2> QED
      BY <2>2, <2>3
  <1>4. cands' = [cands EXCEPT ![c] = to]
    BY <1>1, <1>2, <1>3
  <1>5. /\ cands' \in Seq(Candidate) /\ Len(cands') = Len(cands) /\ DOMAIN cands' = DOMAIN cands
        /\ \A d \in DOMAIN cands : cands'[d] = IF d = c THEN to ELSE cands[d]
    BY <1>1, <1>4, ExceptSeq, LenProperties
  <1>6. UNCHANGED <<apps, subs, owner, open>>
    BY DEF EditCandidate
  <1>7. /\ UNCHANGED <<sess, callsLeft>> /\ eventsLeft' \in 0..EventBudget /\ said' = None
        /\ LocksApart' /\ ReferencesKept' /\ WithinBudget'
    BY <1>5, <1>6, HrFacts DEF EditCandidate
  <1>8. ASSUME NEW t \in Sessions PROVE SessionFits(t)'
    <2>1. SessionFits(t) /\ Req(t)' = Req(t) /\ sess'[t] = sess[t]
      BY <1>7 DEF IInv, SessionsFit, Req
    <2>2. /\ \A key : SubsOf(key)' = SubsOf(key)
          /\ \A a : SubOf(a)' = SubOf(a)
          /\ \A d, j : AppsOf(d, j)' = AppsOf(d, j) /\ ActiveOf(d, j)' = ActiveOf(d, j)
      BY <1>6 DEF SubsOf, SubOf, AppsOf, ActiveOf
    <2>3. At(t, "ready") => ApplicationFits(t)'
      BY <2>1, <2>2 DEF SessionFits, ReadyFits, ApplicationFits
    <2>4. \A d \in DOMAIN cands' : Contacted(d, Req(t))' => d \in DOMAIN cands /\ Contacted(d, Req(t))
      BY <1>3, <1>5, <2>1 DEF Contacted
    <2>5. SessionStays(t)
      BY <1>5, <1>6, <2>1, <2>2, <2>3, <2>4 DEF SessionStays
    <2> QED
      BY <2>1, <2>5, StaysFit
  <1>9. RowsFit'
    BY <1>5, <1>6 DEF IInv, RowsFit, ResumeOwned
  <1>10. OverlapFlagged'
    <2>1. \A d : Made(d, "contact")' <=> Made(d, "contact")
      BY <1>6 DEF Made
    <2> QED
      BY <1>3, <1>5, <2>1 DEF IInv, OverlapFlagged, Edited
  <1>11. TypeOK'
    BY <1>5, <1>6, <1>7 DEF IInv, TypeOK
  <1> QED
    BY <1>7, <1>8, <1>9, <1>10, <1>11 DEF IInv, SessionsFit

-----------------------------------------------------------------------------
(* The inductive invariant *)

LEMMA InitHolds ==
  ASSUME Init
  PROVE  IInv
  <1>1. /\ DOMAIN apps = {} /\ DOMAIN subs = {}
        /\ Len(cands) \in Nat /\ Len(cands) <= Len(Entered) /\ Len(apps) = 0
        /\ cands \in Seq(Candidate) /\ apps \in Seq(Application) /\ subs \in Seq(Submission)
        /\ \A c \in DOMAIN cands : cands[c].edited
    <2>1. /\ cands = <<>> \/ cands = Entered
          /\ apps = <<>> /\ subs = <<>>
      BY DEF Init
    <2>2. cands = <<>> => /\ cands \in Seq(Candidate) /\ Len(cands) = 0 /\ DOMAIN cands = {}
      BY EmptySeq
    <2>3. cands = Entered => /\ cands \in Seq(Candidate) /\ Len(cands) = Len(Entered)
                             /\ \A c \in DOMAIN cands : cands[c].edited
      BY EnteredTyped
    <2>4. apps \in Seq(Application) /\ subs \in Seq(Submission) /\ Len(apps) = 0
      BY <2>1, EmptySeq
    <2> QED
      BY <2>1, <2>2, <2>3, <2>4, EnteredTyped
  <1>2. \A s \in Sessions : At(s, "idle")
    BY IdleTyped DEF Init, At
  <1>3. TypeOK
    BY <1>1, IdleTyped, BudgetsOK DEF Init, TypeOK
  <1>4. SessionsFit /\ LocksApart
    BY <1>2 DEF SessionsFit, SessionFits, LocksApart, Held, At
  <1>5. RowsFit
    BY <1>1 DEF RowsFit, ResumeOwned
  <1>6. WithinBudget
    <2>1. Busy = {}
      BY <1>2 DEF Busy
    <2> QED
      BY <1>1, <2>1, FS_EmptySet, BudgetsOK, EnteredTyped DEF WithinBudget, Init
  <1>7. OverlapFlagged
    BY <1>1 DEF OverlapFlagged, Edited
  <1>8. ReferencesKept
    BY DEF Init, ReferencesKept, Replayed, ReferenceOwn, Answered
  <1> QED
    BY <1>3, <1>4, <1>5, <1>6, <1>7, <1>8 DEF IInv

LEMMA StepKeeps ==
  ASSUME IInv, Next
  PROVE  IInv'
  <1>1. ASSUME NEW s \in Sessions, Step(s) PROVE IInv'
    BY <1>1, TakeLockKeeps, FindMatchesKeeps, TakeRowKeeps, DeadlockVictimKeeps, DecidePublicKeeps,
       DecideIntakeKeeps, CommitKeeps, IndexErrorKeeps, LookAgainKeeps DEF Step
  <1>2. ASSUME NEW s \in Sessions, Ask(s) \/ Abort(s) \/ AnswerLost(s) PROVE IInv'
    BY <1>2, AskKeeps, AbortKeeps, AnswerLostKeeps
  <1>3. ASSUME Elsewhere PROVE IInv'
    BY <1>3, ToggleJobKeeps, EndOrReopenKeeps, EditCandidateKeeps DEF Elsewhere
  <1> QED
    BY <1>1, <1>2, <1>3 DEF Next

\* Also a step that changes nothing, which has told nobody anything new.
LEMMA StutterKeeps ==
  ASSUME IInv, UNCHANGED vars
  PROVE  IInv'
  <1>1. UNCHANGED <<cands, apps, subs, owner, open, sess, said, callsLeft, eventsLeft>>
    BY DEF vars
  <1>2. TypeOK' /\ WithinBudget'
    BY <1>1 DEF IInv, TypeOK, WithinBudget, Busy, At
  <1>3. SameApps /\ SameLinks
    BY <1>1 DEF SameApps, SameLinks
  <1>4. SessionsFit'
    BY <1>1, <1>3, StaysWhenSame DEF IInv, SessionsFit
  <1>5. LocksApart'
    BY <1>1 DEF IInv, LocksApart, Held, At, Req
  <1>6. RowsFit' /\ OverlapFlagged'
    BY <1>1, <1>3, RowsStayFit, OverlapStaysFlagged DEF IInv
  <1>7. ReferencesKept'
    BY <1>1 DEF IInv, ReferencesKept, Replayed, ReferenceOwn, Answered
  <1> QED
    BY <1>2, <1>4, <1>5, <1>6, <1>7 DEF IInv

\* The invariant holds of every behaviour: of the locks of public_application_service
\* and application_intake_service, of what is known behind them, and of the rows.
THEOREM Invariant == Spec => []IInv
  <1>1. IInv /\ [Next]_vars => IInv'
    BY StepKeeps, StutterKeeps
  <1> QED
    BY <1>1, InitHolds, PTL DEF Spec

\* However the transactions of the page and of HR overlap, of two candidates that share
\* a contact as they were taken in, the later is one that HR is asked to look at.
THEOREM OverlapFlaggedAlways == Spec => []OverlapFlagged
  <1>1. IInv => OverlapFlagged
    BY DEF IInv
  <1> QED
    BY <1>1, Invariant, PTL

\* A public application that was decided never fails on a unique index, every row keeps
\* its type, and a resume has one candidate.
THEOREM WritesFitAlways == Spec => []WritesFit
  <1>1. ASSUME IInv PROVE WritesFit
    <2>1. ASSUME NEW s \in Sessions, At(s, "ready"), Public(Req(s)) PROVE Fits(s)
      <3>1. KeyIsNew(s) /\ ApplicationFits(s) /\ RowsFit
        BY <1>1, <2>1, ReadyFacts DEF ReadyFits
      <3>2. ~IndexRefuses(s)
        <4>1. sess[s].app = None => ActiveOf(sess[s].cand, Req(s).job) = {}
          BY <2>1, <3>1 DEF ApplicationFits
        <4> QED
          BY <4>1 DEF IndexRefuses
      <3>3. SubOf(AppId(s)) = {}
        <4>1. DOMAIN apps = 1..Len(apps) /\ Len(apps) \in Nat
          BY <1>1, RowTypes DEF IInv
        <4>2. SubOf(Len(apps) + 1) = {}
          BY <3>1, <4>1 DEF SubOf, RowsFit
        <4> QED
          BY <2>1, <3>1, <4>2 DEF AppId, ApplicationFits
      <3> QED
        BY <2>1, <3>1, <3>2, <3>3 DEF Fits, KeyIsNew
    <2> QED
      BY <1>1, <2>1 DEF WritesFit, AcceptFits, IInv, RowsFit
  <1> QED
    BY <1>1, Invariant, PTL

\* A request that is sent again is told its own reference, and nobody is told the
\* reference of somebody else.
THEOREM ReferencesKeptAlways == Spec => []ReferencesKept
  <1>1. IInv => ReferencesKept
    BY DEF IInv
  <1> QED
    BY <1>1, Invariant, PTL

\* Only the commit of a public application adds a submission.
LEMMA OthersSubmitNothing ==
  ASSUME IInv, Next, ~\E s \in Sessions : At(s, "ready") /\ Written(s) /\ Public(Req(s))
  PROVE  UNCHANGED subs
  <1>1. ASSUME NEW s \in Sessions, Step(s) PROVE UNCHANGED subs
    BY <1>1 DEF Step, TakeLock, FindMatches, TakeRow, DeadlockVictim, KnownKey, DecidePublic, DecideIntake, Ready, Commit, Written, IndexError,
       LookAgain, Ends, rows
  <1>2. ASSUME NEW s \in Sessions, Ask(s) \/ Abort(s) \/ AnswerLost(s) PROVE UNCHANGED subs
    BY <1>2 DEF Ask, Abort, AnswerLost, Written, Ends, rows
  <1>3. ASSUME Elsewhere PROVE UNCHANGED subs
    BY <1>3 DEF Elsewhere, ToggleJob, EndOrReopen, EditCandidate, rows
  <1> QED
    BY <1>1, <1>2, <1>3 DEF Next

\* A candidate whose application for the job has ended does not come back through the
\* page: accept refuses, and nobody ends an application under its lock.
THEOREM NoReentryAlways == Spec => NoReentry
  <1> DEFINE Fresh == \A k \in DOMAIN subs' \ DOMAIN subs :
                        LET a == apps'[subs'[k].app] IN
                        \A b \in DOMAIN apps' : apps'[b].cand = a.cand /\ apps'[b].job = a.job
                                                 => apps'[b].life = "active"
  <1>1. ASSUME IInv, [Next]_vars PROVE [Fresh]_vars
    <2> SUFFICES ASSUME Next PROVE Fresh
      BY <1>1
    <2>1. CASE ~\E s \in Sessions : At(s, "ready") /\ Written(s) /\ Public(Req(s))
      BY <1>1, <2>1, OthersSubmitNothing
    <2>2. ASSUME NEW s \in Sessions, At(s, "ready"), Written(s), Public(Req(s)) PROVE Fresh
      <3>1. AppsWritten(s) /\ SubsWritten(s) /\ CandsWritten(s)
        BY <1>1, <2>2, CandidateWritten, ApplicationWritten, SubmissionWritten
      <3>2. /\ ApplicationFits(s) /\ CandidateFits(s) /\ RowsFit
            /\ DOMAIN cands = 1..Len(cands) /\ Len(cands) \in Nat
        BY <1>1, <2>2, ReadyFacts, RowTypes DEF ReadyFits, IInv
      <3>3. \A b \in DOMAIN apps : apps[b].cand = CandId(s) /\ apps[b].job = Req(s).job => apps[b].life = "active"
        <4>1. CASE sess[s].cand = None
          BY <3>2, <4>1 DEF CandId, RowsFit
        <4>2. CASE sess[s].cand # None
          BY <2>2, <3>2, <4>2 DEF CandId, ApplicationFits, AppsOf, ActiveOf
        <4> QED
          BY <4>1, <4>2
      <3>4. ASSUME NEW b \in DOMAIN apps', apps'[b].cand = CandId(s), apps'[b].job = Req(s).job
            PROVE  apps'[b].life = "active"
        BY <3>1, <3>3, <3>4 DEF AppsWritten, NewApplication
      <3>5. \A k \in DOMAIN subs' \ DOMAIN subs :
              apps'[subs'[k].app].cand = CandId(s) /\ apps'[subs'[k].app].job = Req(s).job
        BY <3>1 DEF SubsWritten, AppsWritten
      <3> QED
        BY <3>4, <3>5
    <2> QED
      BY <2>1, <2>2
  <1>2. IInv /\ [Next]_vars => [Fresh]_vars
    BY <1>1
  <1> HIDE DEF Fresh
  <1>3. Spec => [][Fresh]_vars
    BY <1>2, Invariant, PTL DEF Spec
  <1> QED
    BY <1>3 DEF NoReentry, Fresh
=============================================================================
