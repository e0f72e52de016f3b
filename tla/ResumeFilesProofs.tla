-------------------------- MODULE ResumeFilesProofs --------------------------
(***************************************************************************)
(* Theorems about ResumeFiles, for all values of its constants: rows and     *)
(* files stay together, the retention deletes what is still expired, and     *)
(* what an application or a profile holds is kept.                           *)
(***************************************************************************)
EXTENDS ResumeFiles, WellFoundedInduction, TLAPS

\* The steps in which a session holds the row's lock, or a row or file of its own.
Exclusive == {"staged", "promoted", "extract", "quarantined"}

\* A row that is not there yet, or no longer, has nothing a request left in it.
Bare(r) ==
  /\ row[r].owner = "none" /\ row[r].draft = 0
  /\ ~row[r].confirmed /\ ~row[r].fresh
BareUnlessStored == \A r \in Resumes : ~Stored(r) => Bare(r)

\* What a session relies on is still so when it goes on.
Fits(s) ==
  LET r == sess[s].row IN
  /\ ~At(s, "idle") => r \in Resumes
  /\ At(s, "staged") => row[r].life = "none" /\ file[r] = "staged"
  /\ At(s, "promoted") => row[r].life = "none" /\ file[r] = "live"
  /\ At(s, "extract") => Stored(r)
  /\ At(s, "quarantined") => Stored(r) /\ row[r].owner = "none" /\ file[r] = "trash"
  /\ At(s, "deleted") => row[r].life = "deleted" /\ file[r] \in {"trash", "none"}
SessionsFit == \A s \in Sessions : Fits(s)

\* Two sessions never both hold a row, or the file of an upload.
Apart ==
  \A s, t \in Sessions :
    sess[s].pc \in Exclusive /\ sess[t].pc \in Exclusive /\ sess[s].row = sess[t].row => s = t

IInv ==
  /\ TypeOK /\ BareUnlessStored /\ SessionsFit /\ Apart
  /\ RowHasFile /\ FileHasRow /\ SweepsOnlyExpired

Phases == {"idle", "staged", "promoted", "read", "extract", "model", "quarantined", "deleted"}
Files == {"none", "staged", "live", "trash"}

-----------------------------------------------------------------------------
(* Lemmas about the operators *)

\* A set of row numbers that is not empty has a smallest one, which the sweep takes.
LEMMA MinIsAMember ==
  ASSUME NEW S \in SUBSET Nat, S # {}
  PROVE  Min(S) \in S
<1>1. IsWellFoundedOn(OpToRel(<, Nat), Nat)
  BY NatLessThanWellFounded
<1>2. PICK x \in S : \A y \in S : ~ (<<y, x>> \in OpToRel(<, Nat))
  <2> HIDE DEF IsWellFoundedOn, OpToRel
  <2> QED BY <1>1, WFMin
<1>3. \A y \in S : ~ (y < x)
  BY <1>2 DEF OpToRel
<1>4. \A y \in S : x =< y
  BY <1>3
<1> QED BY <1>4 DEF Min

\* The first rows of a set are rows of the set.
LEMMA SmallestOfSet ==
  ASSUME NEW n, NEW S
  PROVE  Smallest(n, S) \subseteq S
BY DEF Smallest

LEMMA NaturalBounds ==
  /\ MaxAttempts \in Nat /\ CallBudget \in Nat /\ FaultBudget \in Nat
  /\ \A r \in Resumes : r \in Nat \ {0}
BY BoundsOK, ParsedAreResumes

\* What an upload, an extraction and a deletion make of an idle session.
LEMMA SessionTyped ==
  ASSUME NEW pc \in Phases, NEW r \in Resumes, NEW had \in BOOLEAN
  PROVE  /\ Idle \in Session
         /\ [Idle EXCEPT !.pc = pc, !.row = r] \in Session
         /\ [Idle EXCEPT !.pc = pc, !.row = r, !.had = had] \in Session
<1>1. 0 \in 0..MaxAttempts
  BY NaturalBounds
<1> QED BY <1>1 DEF Session, Idle, Phases

\* What an upload and a deletion make of a row.
LEMMA RowTyped ==
  ASSUME NEW life \in {"none", "stored", "deleted"}, NEW owner \in Owners
  PROVE  /\ NewRow \in Row
         /\ [NewRow EXCEPT !.life = life] \in Row
         /\ [NewRow EXCEPT !.life = life, !.owner = owner] \in Row
<1>1. 0 \in 0..MaxAttempts
  BY NaturalBounds
<1> QED BY <1>1 DEF Row, NewRow, Owners

-----------------------------------------------------------------------------
(* The steps of a session: requests, their transactions, and failures *)

LEMMA StartUploadKeeps ==
  ASSUME NEW s \in Sessions, IInv, StartUpload(s)
  PROVE  IInv'
<1> USE DEF IInv, StartUpload, Stored, At, Holder, Call, Goes, Moves
<1>1. TypeOK'
  <2>1. row' \in [Resumes -> Row]
    BY DEF TypeOK, Row, NewRow, Owners, SessionsFit, Fits, Session, Smallest
  <2>2. sess' \in [Sessions -> Session]
    <3>1. PICK r \in Resumes : sess' = [sess EXCEPT ![s] = [Idle EXCEPT !.pc = "staged", !.row = r]]
      BY DEF Smallest
    <3>2. [Idle EXCEPT !.pc = "staged", !.row = r] \in Session
      BY SessionTyped DEF Phases
    <3> QED BY <3>1, <3>2 DEF TypeOK
  <2>3. file' \in [Resumes -> Files]
    BY DEF TypeOK, Files, SessionsFit, Fits, Smallest
  <2>4. /\ sweep' \in [phase : {"sleep", "rows", "trash"}, todo : SUBSET Resumes]
        /\ broken' \subseteq Resumes
    BY DEF TypeOK, SessionsFit, Fits, Smallest
  <2>5. callsLeft' \in 0..CallBudget /\ faultsLeft' \in 0..FaultBudget
    BY NaturalBounds DEF TypeOK, Smallest
  <2> QED BY <2>1, <2>2, <2>3, <2>4, <2>5 DEF TypeOK, Files
<1>2. BareUnlessStored'
  BY DEF TypeOK, Row, BareUnlessStored, Bare, SessionsFit, Fits, NewRow, Smallest
<1>3. SessionsFit'
  BY DEF TypeOK, Row, Session, SessionsFit, Fits, Apart, Exclusive, NewRow, Idle, Smallest
<1>4. Apart'
  BY DEF TypeOK, Session, SessionsFit, Fits, Apart, Exclusive, Idle, Smallest
<1>5. RowHasFile'
  BY DEF TypeOK, Row, Session, SessionsFit, Fits, Apart, Exclusive, RowHasFile, NewRow, Idle, Smallest
<1>6. FileHasRow'
  BY DEF TypeOK, Row, Session, SessionsFit, Fits, Apart, Exclusive, FileHasRow, NewRow, Idle, Smallest
<1>7. SweepsOnlyExpired'
  BY SweeperIsASession DEF TypeOK, Row, Session, SessionsFit, Fits, Apart, Exclusive,
     SweepsOnlyExpired, Expired, Processing, NewRow, Idle, Smallest
<1> QED BY <1>1, <1>2, <1>3, <1>4, <1>5, <1>6, <1>7 DEF IInv

LEMMA PromoteKeeps ==
  ASSUME NEW s \in Sessions, IInv, Promote(s)
  PROVE  IInv'
<1> USE DEF IInv, Promote, Stored, At, Holder, Goes, Moves, NoFault
<1>1. TypeOK'
  <2>1. row' \in [Resumes -> Row]
    BY DEF TypeOK, Row, NewRow, Owners, SessionsFit, Fits, Session
  <2>2. sess' \in [Sessions -> Session]
    BY NaturalBounds DEF TypeOK, Session, Idle, Row
  <2>3. file' \in [Resumes -> Files]
    BY DEF TypeOK, Files, SessionsFit, Fits
  <2>4. /\ sweep' \in [phase : {"sleep", "rows", "trash"}, todo : SUBSET Resumes]
        /\ broken' \subseteq Resumes
    BY DEF TypeOK, SessionsFit, Fits
  <2>5. callsLeft' \in 0..CallBudget /\ faultsLeft' \in 0..FaultBudget
    BY NaturalBounds DEF TypeOK
  <2> QED BY <2>1, <2>2, <2>3, <2>4, <2>5 DEF TypeOK, Files
<1>2. BareUnlessStored'
  BY DEF TypeOK, Row, BareUnlessStored, Bare, SessionsFit, Fits, NewRow
<1>3. SessionsFit'
  BY DEF TypeOK, Row, Session, SessionsFit, Fits, Apart, Exclusive, NewRow, Idle
<1>4. Apart'
  BY DEF TypeOK, Session, SessionsFit, Fits, Apart, Exclusive, Idle
<1>5. RowHasFile'
  BY DEF TypeOK, Row, Session, SessionsFit, Fits, Apart, Exclusive, RowHasFile, NewRow, Idle
<1>6. FileHasRow'
  BY DEF TypeOK, Row, Session, SessionsFit, Fits, Apart, Exclusive, FileHasRow, NewRow, Idle
<1>7. SweepsOnlyExpired'
  BY SweeperIsASession DEF TypeOK, Row, Session, SessionsFit, Fits, Apart, Exclusive,
     SweepsOnlyExpired, Expired, Processing, NewRow, Idle
<1> QED BY <1>1, <1>2, <1>3, <1>4, <1>5, <1>6, <1>7 DEF IInv

LEMMA CommitUploadKeeps ==
  ASSUME NEW s \in Sessions, IInv, CommitUpload(s)
  PROVE  IInv'
<1> USE DEF IInv, CommitUpload, Stored, At, Holder, Goes, Ends, Writes, NoFault
<1>1. TypeOK'
  <2>1. row' \in [Resumes -> Row]
    <3>1. sess[s].row \in Resumes
      BY DEF SessionsFit, Fits
    <3>2. PICK o \in Owners : row' = [row EXCEPT ![sess[s].row] = [NewRow EXCEPT !.life = "stored", !.owner = o]]
      OBVIOUS
    <3>3. [NewRow EXCEPT !.life = "stored", !.owner = o] \in Row
      BY RowTyped
    <3> QED BY <3>1, <3>2, <3>3 DEF TypeOK
  <2>2. sess' \in [Sessions -> Session]
    BY NaturalBounds DEF TypeOK, Session, Idle, Row
  <2>3. file' \in [Resumes -> Files]
    BY DEF TypeOK, Files, SessionsFit, Fits
  <2>4. /\ sweep' \in [phase : {"sleep", "rows", "trash"}, todo : SUBSET Resumes]
        /\ broken' \subseteq Resumes
    BY DEF TypeOK, SessionsFit, Fits
  <2>5. callsLeft' \in 0..CallBudget /\ faultsLeft' \in 0..FaultBudget
    BY NaturalBounds DEF TypeOK
  <2> QED BY <2>1, <2>2, <2>3, <2>4, <2>5 DEF TypeOK, Files
<1>2. BareUnlessStored'
  BY DEF TypeOK, Row, BareUnlessStored, Bare, SessionsFit, Fits, NewRow
<1>3. SessionsFit'
  BY DEF TypeOK, Row, Session, SessionsFit, Fits, Apart, Exclusive, NewRow, Idle
<1>4. Apart'
  BY DEF TypeOK, Session, SessionsFit, Fits, Apart, Exclusive, Idle
<1>5. RowHasFile'
  BY DEF TypeOK, Row, Session, SessionsFit, Fits, Apart, Exclusive, RowHasFile, NewRow, Idle
<1>6. FileHasRow'
  BY DEF TypeOK, Row, Session, SessionsFit, Fits, Apart, Exclusive, FileHasRow, NewRow, Idle
<1>7. SweepsOnlyExpired'
  BY SweeperIsASession DEF TypeOK, Row, Session, SessionsFit, Fits, Apart, Exclusive,
     SweepsOnlyExpired, Expired, Processing, NewRow, Idle
<1> QED BY <1>1, <1>2, <1>3, <1>4, <1>5, <1>6, <1>7 DEF IInv

LEMMA AbortUploadKeeps ==
  ASSUME NEW s \in Sessions, IInv, AbortUpload(s)
  PROVE  IInv'
<1> USE DEF IInv, AbortUpload, Stored, At, Holder, Goes, Ends, Moves, Fault
<1>1. TypeOK'
  <2>1. row' \in [Resumes -> Row]
    BY DEF TypeOK, Row, NewRow, Owners, SessionsFit, Fits, Session, Discarded
  <2>2. sess' \in [Sessions -> Session]
    BY NaturalBounds DEF TypeOK, Session, Idle, Row, Discarded
  <2>3. file' \in [Resumes -> Files]
    BY DEF TypeOK, Files, SessionsFit, Fits, Discarded
  <2>4. /\ sweep' \in [phase : {"sleep", "rows", "trash"}, todo : SUBSET Resumes]
        /\ broken' \subseteq Resumes
    BY DEF TypeOK, SessionsFit, Fits, Discarded
  <2>5. callsLeft' \in 0..CallBudget /\ faultsLeft' \in 0..FaultBudget
    BY NaturalBounds DEF TypeOK, Discarded
  <2> QED BY <2>1, <2>2, <2>3, <2>4, <2>5 DEF TypeOK, Files
<1>2. BareUnlessStored'
  BY DEF TypeOK, Row, BareUnlessStored, Bare, SessionsFit, Fits, NewRow, Discarded
<1>3. SessionsFit'
  BY DEF TypeOK, Row, Session, SessionsFit, Fits, Apart, Exclusive, NewRow, Idle, Discarded
<1>4. Apart'
  BY DEF TypeOK, Session, SessionsFit, Fits, Apart, Exclusive, Idle, Discarded
<1>5. RowHasFile'
  BY DEF TypeOK, Row, Session, SessionsFit, Fits, Apart, Exclusive, RowHasFile, NewRow, Idle, Discarded
<1>6. FileHasRow'
  BY DEF TypeOK, Row, Session, SessionsFit, Fits, Apart, Exclusive, FileHasRow, NewRow, Idle, Discarded
<1>7. SweepsOnlyExpired'
  BY SweeperIsASession DEF TypeOK, Row, Session, SessionsFit, Fits, Apart, Exclusive,
     SweepsOnlyExpired, Expired, Processing, NewRow, Idle, Discarded
<1> QED BY <1>1, <1>2, <1>3, <1>4, <1>5, <1>6, <1>7 DEF IInv

LEMMA UploadAnswerLostKeeps ==
  ASSUME NEW s \in Sessions, IInv, UploadAnswerLost(s)
  PROVE  IInv'
<1> USE DEF IInv, UploadAnswerLost, Stored, At, Holder, Goes, Ends, Writes, Moves, Fault
<1>1. TypeOK'
  <2>1. row' \in [Resumes -> Row]
    <3>1. sess[s].row \in Resumes
      BY DEF SessionsFit, Fits
    <3>2. PICK o \in Owners : row' = [row EXCEPT ![sess[s].row] = [NewRow EXCEPT !.life = "stored", !.owner = o]]
      OBVIOUS
    <3>3. [NewRow EXCEPT !.life = "stored", !.owner = o] \in Row
      BY RowTyped
    <3> QED BY <3>1, <3>2, <3>3 DEF TypeOK
  <2>2. sess' \in [Sessions -> Session]
    BY NaturalBounds DEF TypeOK, Session, Idle, Row, Discarded
  <2>3. file' \in [Resumes -> Files]
    BY DEF TypeOK, Files, SessionsFit, Fits, Discarded
  <2>4. /\ sweep' \in [phase : {"sleep", "rows", "trash"}, todo : SUBSET Resumes]
        /\ broken' \subseteq Resumes
    BY DEF TypeOK, SessionsFit, Fits, Discarded
  <2>5. callsLeft' \in 0..CallBudget /\ faultsLeft' \in 0..FaultBudget
    BY NaturalBounds DEF TypeOK, Discarded
  <2> QED BY <2>1, <2>2, <2>3, <2>4, <2>5 DEF TypeOK, Files
<1>2. BareUnlessStored'
  BY DEF TypeOK, Row, BareUnlessStored, Bare, SessionsFit, Fits, NewRow, Discarded
<1>3. SessionsFit'
  BY DEF TypeOK, Row, Session, SessionsFit, Fits, Apart, Exclusive, NewRow, Idle, Discarded
<1>4. Apart'
  BY DEF TypeOK, Session, SessionsFit, Fits, Apart, Exclusive, Idle, Discarded
<1>5. RowHasFile'
  BY DEF TypeOK, Row, Session, SessionsFit, Fits, Apart, Exclusive, RowHasFile, NewRow, Idle, Discarded
<1>6. FileHasRow'
  BY DEF TypeOK, Row, Session, SessionsFit, Fits, Apart, Exclusive, FileHasRow, NewRow, Idle, Discarded
<1>7. SweepsOnlyExpired'
  BY SweeperIsASession DEF TypeOK, Row, Session, SessionsFit, Fits, Apart, Exclusive,
     SweepsOnlyExpired, Expired, Processing, NewRow, Idle, Discarded
<1> QED BY <1>1, <1>2, <1>3, <1>4, <1>5, <1>6, <1>7 DEF IInv

LEMMA CallExtractKeeps ==
  ASSUME NEW s \in Sessions, IInv, CallExtract(s)
  PROVE  IInv'
<1> USE DEF IInv, CallExtract, Stored, At, Holder, Call, Goes
<1>1. TypeOK'
  <2>1. row' \in [Resumes -> Row]
    BY DEF TypeOK, Row, NewRow, Owners, SessionsFit, Fits, Session
  <2>2. sess' \in [Sessions -> Session]
    <3>1. PICK r \in Resumes :
             sess' = [sess EXCEPT ![s] = [Idle EXCEPT !.pc = "read", !.row = r, !.had = row[r].text]]
      OBVIOUS
    <3>2. row[r].text \in BOOLEAN
      BY DEF TypeOK, Row
    <3>3. [Idle EXCEPT !.pc = "read", !.row = r, !.had = row[r].text] \in Session
      BY <3>2, SessionTyped DEF Phases
    <3> QED BY <3>1, <3>3 DEF TypeOK
  <2>3. file' \in [Resumes -> Files]
    BY DEF TypeOK, Files, SessionsFit, Fits
  <2>4. /\ sweep' \in [phase : {"sleep", "rows", "trash"}, todo : SUBSET Resumes]
        /\ broken' \subseteq Resumes
    BY DEF TypeOK, SessionsFit, Fits
  <2>5. callsLeft' \in 0..CallBudget /\ faultsLeft' \in 0..FaultBudget
    BY NaturalBounds DEF TypeOK
  <2> QED BY <2>1, <2>2, <2>3, <2>4, <2>5 DEF TypeOK, Files
<1>2. BareUnlessStored'
  BY DEF TypeOK, Row, BareUnlessStored, Bare, SessionsFit, Fits, NewRow
<1>3. SessionsFit'
  BY DEF TypeOK, Row, Session, SessionsFit, Fits, Apart, Exclusive, NewRow, Idle
<1>4. Apart'
  BY DEF TypeOK, Session, SessionsFit, Fits, Apart, Exclusive, Idle
<1>5. RowHasFile'
  BY DEF TypeOK, Row, Session, SessionsFit, Fits, Apart, Exclusive, RowHasFile, NewRow, Idle
<1>6. FileHasRow'
  BY DEF TypeOK, Row, Session, SessionsFit, Fits, Apart, Exclusive, FileHasRow, NewRow, Idle
<1>7. SweepsOnlyExpired'
  BY SweeperIsASession DEF TypeOK, Row, Session, SessionsFit, Fits, Apart, Exclusive,
     SweepsOnlyExpired, Expired, Processing, NewRow, Idle
<1> QED BY <1>1, <1>2, <1>3, <1>4, <1>5, <1>6, <1>7 DEF IInv

LEMMA LockExtractKeeps ==
  ASSUME NEW s \in Sessions, IInv, LockExtract(s)
  PROVE  IInv'
<1> USE DEF IInv, LockExtract, Stored, At, Holder, Locked, Goes, Ends, NoFault
<1>1. TypeOK'
  <2>1. row' \in [Resumes -> Row]
    BY DEF TypeOK, Row, NewRow, Owners, SessionsFit, Fits, Session
  <2>2. sess' \in [Sessions -> Session]
    <3>1. Idle \in Session /\ sess[s] \in Session
      BY SessionTyped DEF TypeOK, SessionsFit, Fits, Phases
    <3>2. [sess[s] EXCEPT !.pc = "extract"] \in Session
      BY <3>1 DEF Session
    <3> QED BY <3>1, <3>2 DEF TypeOK
  <2>3. file' \in [Resumes -> Files]
    BY DEF TypeOK, Files, SessionsFit, Fits
  <2>4. /\ sweep' \in [phase : {"sleep", "rows", "trash"}, todo : SUBSET Resumes]
        /\ broken' \subseteq Resumes
    BY DEF TypeOK, SessionsFit, Fits
  <2>5. callsLeft' \in 0..CallBudget /\ faultsLeft' \in 0..FaultBudget
    BY NaturalBounds DEF TypeOK
  <2> QED BY <2>1, <2>2, <2>3, <2>4, <2>5 DEF TypeOK, Files
<1>2. BareUnlessStored'
  BY DEF TypeOK, Row, BareUnlessStored, Bare, SessionsFit, Fits, NewRow
<1>3. SessionsFit'
  BY DEF TypeOK, Row, Session, SessionsFit, Fits, Apart, Exclusive, NewRow, Idle
<1>4. Apart'
  BY DEF TypeOK, Session, SessionsFit, Fits, Apart, Exclusive, Idle
<1>5. RowHasFile'
  BY DEF TypeOK, Row, Session, SessionsFit, Fits, Apart, Exclusive, RowHasFile, NewRow, Idle
<1>b. \A r \in Resumes : \A pc \in {"staged", "promoted", "quarantined"} : Holder(r, pc) <=> Holder(r, pc)'
  BY SMT DEF TypeOK, Session, Idle
<1>6. FileHasRow'
  BY <1>b DEF FileHasRow
<1>7. SweepsOnlyExpired'
  BY SweeperIsASession DEF TypeOK, Row, Session, SessionsFit, Fits, Apart, Exclusive,
     SweepsOnlyExpired, Expired, Processing, NewRow, Idle
<1> QED BY <1>1, <1>2, <1>3, <1>4, <1>5, <1>6, <1>7 DEF IInv

LEMMA EndExtractKeeps ==
  ASSUME NEW s \in Sessions, IInv, EndExtract(s)
  PROVE  IInv'
<1> USE DEF IInv, EndExtract, Stored, At, Holder, Goes, Ends, Writes, NoFault
<1>1. TypeOK'
  <2>1. row' \in [Resumes -> Row]
    <3>1. sess[s].row \in Resumes /\ sess[s].had \in BOOLEAN
      BY DEF SessionsFit, Fits, TypeOK, Session
    <3>2. PICK ok \in BOOLEAN : row' = [row EXCEPT ![sess[s].row] = Extracted(s, ok)]
      OBVIOUS
    <3>3. row[sess[s].row] \in Row
      BY <3>1 DEF TypeOK
    <3>4. Extracted(s, ok) \in Row
      BY <3>1, <3>3 DEF Row, Extracted
    <3> QED BY <3>1, <3>2, <3>4 DEF TypeOK
  <2>2. sess' \in [Sessions -> Session]
    BY NaturalBounds DEF TypeOK, Session, Idle, Row, Extracted
  <2>3. file' \in [Resumes -> Files]
    BY DEF TypeOK, Files, SessionsFit, Fits, Extracted
  <2>4. /\ sweep' \in [phase : {"sleep", "rows", "trash"}, todo : SUBSET Resumes]
        /\ broken' \subseteq Resumes
    BY DEF TypeOK, SessionsFit, Fits, Extracted
  <2>5. callsLeft' \in 0..CallBudget /\ faultsLeft' \in 0..FaultBudget
    BY NaturalBounds DEF TypeOK, Extracted
  <2> QED BY <2>1, <2>2, <2>3, <2>4, <2>5 DEF TypeOK, Files
<1>2. BareUnlessStored'
  BY DEF TypeOK, Row, BareUnlessStored, Bare, SessionsFit, Fits, NewRow, Extracted
<1>3. SessionsFit'
  BY DEF TypeOK, Row, Session, SessionsFit, Fits, Apart, Exclusive, NewRow, Idle, Extracted
<1>4. Apart'
  BY DEF TypeOK, Session, SessionsFit, Fits, Apart, Exclusive, Idle, Extracted
<1>5. RowHasFile'
  BY DEF TypeOK, Row, Session, SessionsFit, Fits, Apart, Exclusive, RowHasFile, NewRow, Idle, Extracted
<1>6. FileHasRow'
  BY DEF TypeOK, Row, Session, SessionsFit, Fits, Apart, Exclusive, FileHasRow, NewRow, Idle, Extracted
<1>7. SweepsOnlyExpired'
  BY SweeperIsASession DEF TypeOK, Row, Session, SessionsFit, Fits, Apart, Exclusive,
     SweepsOnlyExpired, Expired, Processing, NewRow, Idle, Extracted
<1> QED BY <1>1, <1>2, <1>3, <1>4, <1>5, <1>6, <1>7 DEF IInv

LEMMA EndStructureKeeps ==
  ASSUME NEW s \in Sessions, IInv, EndStructure(s)
  PROVE  IInv'
<1> USE DEF IInv, EndStructure, Stored, At, Holder, Locked, Goes, Ends, Writes, NoFault
<1>0. /\ sess[s].row \in Resumes /\ UNCHANGED <<file, broken>>
      /\ sess' = [sess EXCEPT ![s] = Idle] /\ At(s, "model")
  BY DEF SessionsFit, Fits
<1>a. \A r \in Resumes :
        /\ row'[r].life = row[r].life /\ row'[r].owner = row[r].owner
        /\ row'[r].fresh = row[r].fresh /\ (~Stored(r) => row'[r] = row[r])
  <2>1. CASE Current(s) /\ row' = [row EXCEPT ![sess[s].row] = Structured(s)]
    <3>1. row[sess[s].row] \in Row
      BY <1>0 DEF TypeOK
    <3>2. /\ Structured(s).life = row[sess[s].row].life /\ Structured(s).owner = row[sess[s].row].owner
          /\ Structured(s).fresh = row[sess[s].row].fresh
      BY <3>1 DEF Row, Structured
    <3> QED BY <1>0, <2>1, <3>2 DEF TypeOK, Current
  <2>2. CASE Current(s) /\ row' = [row EXCEPT ![sess[s].row] = [row[sess[s].row] EXCEPT !.status = "failed"]]
    <3>1. row[sess[s].row] \in Row
      BY <1>0 DEF TypeOK
    <3> QED BY <1>0, <2>2, <3>1 DEF TypeOK, Current, Row
  <2>3. CASE UNCHANGED row
    BY <2>3
  <2> QED BY <2>1, <2>2, <2>3
<1>1. TypeOK'
  <2>1. row' \in [Resumes -> Row]
    <3>1. sess[s].row \in Resumes /\ sess[s] \in Session
      BY DEF SessionsFit, Fits, TypeOK
    <3>2. row[sess[s].row] \in Row
      BY <3>1 DEF TypeOK
    <3>3. Structured(s) \in Row /\ [row[sess[s].row] EXCEPT !.status = "failed"] \in Row
      BY <3>1, <3>2 DEF Row, Session, Structured
    <3>4. \/ UNCHANGED row
          \/ \E to \in Row : row' = [row EXCEPT ![sess[s].row] = to]
      BY <3>3
    <3> QED BY <3>1, <3>4 DEF TypeOK
  <2>2. sess' \in [Sessions -> Session]
    BY NaturalBounds DEF TypeOK, Session, Idle, Row, Current, Structured
  <2>3. file' \in [Resumes -> Files]
    BY DEF TypeOK, Files, SessionsFit, Fits, Current, Structured
  <2>4. /\ sweep' \in [phase : {"sleep", "rows", "trash"}, todo : SUBSET Resumes]
        /\ broken' \subseteq Resumes
    BY DEF TypeOK, SessionsFit, Fits, Current, Structured
  <2>5. callsLeft' \in 0..CallBudget /\ faultsLeft' \in 0..FaultBudget
    BY NaturalBounds DEF TypeOK, Current, Structured
  <2> QED BY <2>1, <2>2, <2>3, <2>4, <2>5 DEF TypeOK, Files
<1>2. BareUnlessStored'
  BY <1>a DEF BareUnlessStored, Bare
<1>3. SessionsFit'
  BY <1>0, <1>a DEF TypeOK, SessionsFit, Fits, Idle
<1>4. Apart'
  BY DEF TypeOK, Session, SessionsFit, Fits, Apart, Exclusive, Idle, Current, Structured
<1>b. \A r \in Resumes : \A pc \in {"staged", "promoted", "quarantined"} : Holder(r, pc) <=> Holder(r, pc)'
  BY <1>0 DEF TypeOK, Session, Idle
<1>5. RowHasFile'
  BY <1>0, <1>a, <1>b DEF RowHasFile
<1>6. FileHasRow'
  BY <1>0, <1>a, <1>b DEF FileHasRow
<1>7. SweepsOnlyExpired'
  BY SweeperIsASession DEF TypeOK, Row, Session, SessionsFit, Fits, Apart, Exclusive,
     SweepsOnlyExpired, Expired, Processing, NewRow, Idle, Current, Structured
<1> QED BY <1>1, <1>2, <1>3, <1>4, <1>5, <1>6, <1>7 DEF IInv

LEMMA CommitFailsKeeps ==
  ASSUME NEW s \in Sessions, IInv, CommitFails(s)
  PROVE  IInv'
<1> USE DEF IInv, CommitFails, Stored, At, Holder, Goes, Ends, Fault
<1>1. TypeOK'
  <2>1. row' \in [Resumes -> Row]
    BY DEF TypeOK, Row, NewRow, Owners, SessionsFit, Fits, Session
  <2>2. sess' \in [Sessions -> Session]
    BY NaturalBounds DEF TypeOK, Session, Idle, Row
  <2>3. file' \in [Resumes -> Files]
    BY DEF TypeOK, Files, SessionsFit, Fits
  <2>4. /\ sweep' \in [phase : {"sleep", "rows", "trash"}, todo : SUBSET Resumes]
        /\ broken' \subseteq Resumes
    BY DEF TypeOK, SessionsFit, Fits
  <2>5. callsLeft' \in 0..CallBudget /\ faultsLeft' \in 0..FaultBudget
    BY NaturalBounds DEF TypeOK
  <2> QED BY <2>1, <2>2, <2>3, <2>4, <2>5 DEF TypeOK, Files
<1>2. BareUnlessStored'
  BY DEF TypeOK, Row, BareUnlessStored, Bare, SessionsFit, Fits, NewRow
<1>3. SessionsFit'
  BY DEF TypeOK, Row, Session, SessionsFit, Fits, Apart, Exclusive, NewRow, Idle
<1>4. Apart'
  BY DEF TypeOK, Session, SessionsFit, Fits, Apart, Exclusive, Idle
<1>5. RowHasFile'
  BY DEF TypeOK, Row, Session, SessionsFit, Fits, Apart, Exclusive, RowHasFile, NewRow, Idle
<1>6. FileHasRow'
  BY DEF TypeOK, Row, Session, SessionsFit, Fits, Apart, Exclusive, FileHasRow, NewRow, Idle
<1>7. SweepsOnlyExpired'
  BY SweeperIsASession DEF TypeOK, Row, Session, SessionsFit, Fits, Apart, Exclusive,
     SweepsOnlyExpired, Expired, Processing, NewRow, Idle
<1> QED BY <1>1, <1>2, <1>3, <1>4, <1>5, <1>6, <1>7 DEF IInv

LEMMA CallDeleteKeeps ==
  ASSUME NEW s \in Sessions, IInv, CallDelete(s)
  PROVE  IInv'
<1> USE DEF IInv, CallDelete, Stored, At, Holder, Locked, Call, Goes, Moves
<1>1. TypeOK'
  <2>1. row' \in [Resumes -> Row]
    BY DEF TypeOK, Row, NewRow, Owners, SessionsFit, Fits, Session, Quarantine
  <2>2. sess' \in [Sessions -> Session]
    <3>1. PICK r \in Resumes : sess' = [sess EXCEPT ![s] = [Idle EXCEPT !.pc = "quarantined", !.row = r]]
      BY DEF Quarantine
    <3>2. [Idle EXCEPT !.pc = "quarantined", !.row = r] \in Session
      BY SessionTyped DEF Phases
    <3> QED BY <3>1, <3>2 DEF TypeOK
  <2>3. file' \in [Resumes -> Files]
    BY DEF TypeOK, Files, SessionsFit, Fits, Quarantine
  <2>4. /\ sweep' \in [phase : {"sleep", "rows", "trash"}, todo : SUBSET Resumes]
        /\ broken' \subseteq Resumes
    BY DEF TypeOK, SessionsFit, Fits, Quarantine
  <2>5. callsLeft' \in 0..CallBudget /\ faultsLeft' \in 0..FaultBudget
    BY NaturalBounds DEF TypeOK, Quarantine
  <2> QED BY <2>1, <2>2, <2>3, <2>4, <2>5 DEF TypeOK, Files
<1>2. BareUnlessStored'
  BY DEF TypeOK, Row, BareUnlessStored, Bare, SessionsFit, Fits, NewRow, Quarantine
<1>3. SessionsFit'
  BY DEF TypeOK, Row, Session, SessionsFit, Fits, Apart, Exclusive, NewRow, Idle, Quarantine
<1>4. Apart'
  BY DEF TypeOK, Session, SessionsFit, Fits, Apart, Exclusive, Idle, Quarantine
<1>5. RowHasFile'
  BY DEF TypeOK, Row, Session, SessionsFit, Fits, Apart, Exclusive, RowHasFile, NewRow, Idle, Quarantine
<1>6. FileHasRow'
  BY DEF TypeOK, Row, Session, SessionsFit, Fits, Apart, Exclusive, FileHasRow, NewRow, Idle, Quarantine
<1>7. SweepsOnlyExpired'
  BY SweeperIsASession DEF TypeOK, Row, Session, SessionsFit, Fits, Apart, Exclusive,
     SweepsOnlyExpired, Expired, Processing, NewRow, Idle, Quarantine
<1> QED BY <1>1, <1>2, <1>3, <1>4, <1>5, <1>6, <1>7 DEF IInv

LEMMA CommitDeleteKeeps ==
  ASSUME NEW s \in Sessions, IInv, CommitDelete(s)
  PROVE  IInv'
<1> USE DEF IInv, CommitDelete, Stored, At, Holder, Goes, Writes, NoFault
<1>1. TypeOK'
  <2>1. row' \in [Resumes -> Row]
    <3>1. sess[s].row \in Resumes
      BY DEF SessionsFit, Fits
    <3>2. [NewRow EXCEPT !.life = "deleted"] \in Row
      BY RowTyped DEF Owners
    <3> QED BY <3>1, <3>2 DEF TypeOK
  <2>2. sess' \in [Sessions -> Session]
    BY NaturalBounds DEF TypeOK, Session, Idle, Row
  <2>3. file' \in [Resumes -> Files]
    BY DEF TypeOK, Files, SessionsFit, Fits
  <2>4. /\ sweep' \in [phase : {"sleep", "rows", "trash"}, todo : SUBSET Resumes]
        /\ broken' \subseteq Resumes
    BY DEF TypeOK, SessionsFit, Fits
  <2>5. callsLeft' \in 0..CallBudget /\ faultsLeft' \in 0..FaultBudget
    BY NaturalBounds DEF TypeOK
  <2> QED BY <2>1, <2>2, <2>3, <2>4, <2>5 DEF TypeOK, Files
<1>2. BareUnlessStored'
  BY DEF TypeOK, Row, BareUnlessStored, Bare, SessionsFit, Fits, NewRow
<1>3. SessionsFit'
  BY DEF TypeOK, Row, Session, SessionsFit, Fits, Apart, Exclusive, NewRow, Idle
<1>4. Apart'
  BY DEF TypeOK, Session, SessionsFit, Fits, Apart, Exclusive, Idle
<1>5. RowHasFile'
  BY DEF TypeOK, Row, Session, SessionsFit, Fits, Apart, Exclusive, RowHasFile, NewRow, Idle
<1>6. FileHasRow'
  BY DEF TypeOK, Row, Session, SessionsFit, Fits, Apart, Exclusive, FileHasRow, NewRow, Idle
<1>7. SweepsOnlyExpired'
  BY SweeperIsASession DEF TypeOK, Row, Session, SessionsFit, Fits, Apart, Exclusive,
     SweepsOnlyExpired, Expired, Processing, NewRow, Idle
<1> QED BY <1>1, <1>2, <1>3, <1>4, <1>5, <1>6, <1>7 DEF IInv

LEMMA DeleteFailsKeeps ==
  ASSUME NEW s \in Sessions, IInv, DeleteFails(s)
  PROVE  IInv'
<1> USE DEF IInv, DeleteFails, Stored, At, Holder, Goes, Ends, Writes, Moves, Fault
<1>1. TypeOK'
  <2>1. row' \in [Resumes -> Row]
    <3>1. sess[s].row \in Resumes
      BY DEF SessionsFit, Fits
    <3>2. [NewRow EXCEPT !.life = "deleted"] \in Row
      BY RowTyped DEF Owners
    <3>3. CASE UNCHANGED row
      BY <3>3 DEF TypeOK
    <3>4. CASE row' = [row EXCEPT ![sess[s].row] = [NewRow EXCEPT !.life = "deleted"]]
      BY <3>1, <3>2, <3>4 DEF TypeOK
    <3> QED BY <3>3, <3>4
  <2>2. sess' \in [Sessions -> Session]
    BY NaturalBounds DEF TypeOK, Session, Idle, Row, Restored
  <2>3. file' \in [Resumes -> Files]
    BY DEF TypeOK, Files, SessionsFit, Fits, Restored
  <2>4. /\ sweep' \in [phase : {"sleep", "rows", "trash"}, todo : SUBSET Resumes]
        /\ broken' \subseteq Resumes
    BY DEF TypeOK, SessionsFit, Fits, Restored
  <2>5. callsLeft' \in 0..CallBudget /\ faultsLeft' \in 0..FaultBudget
    BY NaturalBounds DEF TypeOK, Restored
  <2> QED BY <2>1, <2>2, <2>3, <2>4, <2>5 DEF TypeOK, Files
<1>2. BareUnlessStored'
  <2>1. sess[s].row \in Resumes
    BY DEF SessionsFit, Fits
  <2>2. CASE UNCHANGED row
    BY <2>2 DEF BareUnlessStored, Bare
  <2>3. CASE row' = [row EXCEPT ![sess[s].row] = [NewRow EXCEPT !.life = "deleted"]]
    BY <2>1, <2>3 DEF TypeOK, Row, BareUnlessStored, Bare, NewRow
  <2> QED BY <2>2, <2>3
<1>3. SessionsFit'
  BY DEF TypeOK, Row, Session, SessionsFit, Fits, Apart, Exclusive, NewRow, Idle, Restored
<1>4. Apart'
  BY DEF TypeOK, Session, SessionsFit, Fits, Apart, Exclusive, Idle, Restored
<1>5. RowHasFile'
  BY DEF TypeOK, Row, Session, SessionsFit, Fits, Apart, Exclusive, RowHasFile, NewRow, Idle, Restored
<1>6. FileHasRow'
  BY DEF TypeOK, Row, Session, SessionsFit, Fits, Apart, Exclusive, FileHasRow, NewRow, Idle, Restored
<1>7. SweepsOnlyExpired'
  BY SweeperIsASession DEF TypeOK, Row, Session, SessionsFit, Fits, Apart, Exclusive,
     SweepsOnlyExpired, Expired, Processing, NewRow, Idle, Restored
<1> QED BY <1>1, <1>2, <1>3, <1>4, <1>5, <1>6, <1>7 DEF IInv

LEMMA PurgeKeeps ==
  ASSUME NEW s \in Sessions, IInv, Purge(s)
  PROVE  IInv'
<1> USE DEF IInv, Purge, Stored, At, Holder, Goes, Ends, Moves, Fault, NoFault
<1>1. TypeOK'
  <2>1. row' \in [Resumes -> Row]
    BY DEF TypeOK, Row, NewRow, Owners, SessionsFit, Fits, Session
  <2>2. sess' \in [Sessions -> Session]
    BY NaturalBounds DEF TypeOK, Session, Idle, Row
  <2>3. file' \in [Resumes -> Files]
    BY DEF TypeOK, Files, SessionsFit, Fits
  <2>4. /\ sweep' \in [phase : {"sleep", "rows", "trash"}, todo : SUBSET Resumes]
        /\ broken' \subseteq Resumes
    BY DEF TypeOK, SessionsFit, Fits
  <2>5. callsLeft' \in 0..CallBudget /\ faultsLeft' \in 0..FaultBudget
    BY NaturalBounds DEF TypeOK
  <2> QED BY <2>1, <2>2, <2>3, <2>4, <2>5 DEF TypeOK, Files
<1>2. BareUnlessStored'
  BY DEF TypeOK, Row, BareUnlessStored, Bare, SessionsFit, Fits, NewRow
<1>3. SessionsFit'
  <2>1. /\ sess[s].row \in Resumes /\ row[sess[s].row].life = "deleted"
        /\ sess' = [sess EXCEPT ![s] = Idle] /\ UNCHANGED row
        /\ file' = file \/ file' = [file EXCEPT ![sess[s].row] = "none"]
    BY DEF SessionsFit, Fits
  <2>2. Fits(s)'
    BY <2>1 DEF TypeOK, Fits, Idle
  <2>3. ASSUME NEW t \in Sessions, t # s
        PROVE  Fits(t)'
    <3>1. sess'[t] = sess[t] /\ Fits(t) /\ row' = row
      BY <2>1, <2>3 DEF TypeOK, SessionsFit
    <3>2. ~At(t, "idle") => /\ sess[t].row \in Resumes
                            /\ \/ file'[sess[t].row] = file[sess[t].row]
                               \/ row[sess[t].row].life = "deleted" /\ file'[sess[t].row] = "none"
      BY <2>1, <3>1 DEF TypeOK, Fits
    <3> QED BY <3>1, <3>2 DEF Fits
  <2> QED BY <2>2, <2>3 DEF SessionsFit
<1>4. Apart'
  BY DEF TypeOK, Session, SessionsFit, Fits, Apart, Exclusive, Idle
<1>5. RowHasFile'
  BY DEF TypeOK, Row, Session, SessionsFit, Fits, Apart, Exclusive, RowHasFile, NewRow, Idle
<1>6. FileHasRow'
  BY DEF TypeOK, Row, Session, SessionsFit, Fits, Apart, Exclusive, FileHasRow, NewRow, Idle
<1>7. SweepsOnlyExpired'
  BY SweeperIsASession DEF TypeOK, Row, Session, SessionsFit, Fits, Apart, Exclusive,
     SweepsOnlyExpired, Expired, Processing, NewRow, Idle
<1> QED BY <1>1, <1>2, <1>3, <1>4, <1>5, <1>6, <1>7 DEF IInv

-----------------------------------------------------------------------------
(* The retention's steps, the callers that bind a resume, the clock and crashes *)

\* Every row id a sweep holds is a row, and so is the next one.
LEMMA NextOfSweep ==
  ASSUME TypeOK, sweep.todo # {}
  PROVE  Min(sweep.todo) \in Resumes
BY MinIsAMember, ParsedAreResumes DEF TypeOK

LEMMA SweepRowKeeps ==
  ASSUME IInv, SweepRow
  PROVE  IInv'
<1> DEFINE r == Min(sweep.todo)
<1>1. r \in Resumes /\ sweep' = [sweep EXCEPT !.todo = @ \ {r}]
  BY NextOfSweep DEF IInv, SweepRow, Rest
<1>2. /\ At(Sweeper, "idle") /\ UNCHANGED <<row, broken, callsLeft, faultsLeft>>
      /\ \/ StillExpired(r) /\ file[r] = "live" /\ Quarantine(Sweeper, r)
         \/ UNCHANGED <<file, sess>>
  BY DEF SweepRow, NoFault
<1> HIDE DEF r
<1>3. sweep' \in [phase : {"sleep", "rows", "trash"}, todo : SUBSET Resumes]
  BY <1>1 DEF IInv, TypeOK
<1>4. CASE UNCHANGED <<file, sess>>
  BY <1>2, <1>3, <1>4 DEF IInv, TypeOK, BareUnlessStored, Bare, SessionsFit, Fits, Apart, RowHasFile, FileHasRow,
     SweepsOnlyExpired, At, Stored, Holder, Expired, Processing
<1>5. CASE StillExpired(r) /\ file[r] = "live" /\ Quarantine(Sweeper, r)
  <2> USE SweeperIsASession DEF IInv, Stored, At, Holder, Locked, StillExpired, Expired, Processing
  <2>1. /\ sess' = [sess EXCEPT ![Sweeper] = [Idle EXCEPT !.pc = "quarantined", !.row = r]]
        /\ file' = [file EXCEPT ![r] = "trash"]
    BY <1>5 DEF Quarantine, Goes, Moves
  <2>2. TypeOK'
    <3>1. [Idle EXCEPT !.pc = "quarantined", !.row = r] \in Session
      BY <1>1, SessionTyped DEF Phases
    <3> QED BY <1>1, <1>2, <1>3, <2>1, <3>1 DEF TypeOK
  <2>3. BareUnlessStored'
    BY <1>2 DEF BareUnlessStored, Bare
  <2>4. SessionsFit'
    BY <1>1, <1>2, <1>5, <2>1 DEF TypeOK, SessionsFit, Fits, Idle
  <2>5. Apart'
    BY <1>1, <1>2, <1>5, <2>1 DEF TypeOK, SessionsFit, Fits, Apart, Exclusive, Idle
  <2>6. RowHasFile'
    BY <1>1, <1>2, <1>5, <2>1 DEF TypeOK, RowHasFile, Idle
  <2>7. FileHasRow'
    BY <1>1, <1>2, <1>5, <2>1 DEF TypeOK, FileHasRow, Idle
  <2>8. SweepsOnlyExpired'
    BY <1>1, <1>2, <1>5, <2>1 DEF TypeOK, SweepsOnlyExpired, Idle
  <2> QED BY <2>2, <2>3, <2>4, <2>5, <2>6, <2>7, <2>8
<1> QED BY <1>2, <1>4, <1>5

LEMMA PurgeTrashKeeps ==
  ASSUME IInv, PurgeTrash
  PROVE  IInv'
<1> DEFINE r == Min(sweep.todo)
<1>1. r \in Resumes /\ sweep' = [sweep EXCEPT !.todo = @ \ {r}]
  BY NextOfSweep DEF IInv, PurgeTrash, Rest
<1>2. /\ UNCHANGED <<row, sess, broken>>
      /\ \/ UNCHANGED file
         \/ ~Stored(r) /\ file[r] = "trash" /\ file' = [file EXCEPT ![r] = "none"]
      /\ NoFault \/ Fault
  <2>1. r \in Resumes => file = [file EXCEPT ![r] = @]
    BY DEF IInv, TypeOK
  <2> HIDE DEF r
  <2> QED BY <1>1, <2>1 DEF PurgeTrash, Retained, r
<1> HIDE DEF r
<1>3. sweep' \in [phase : {"sleep", "rows", "trash"}, todo : SUBSET Resumes]
  BY <1>1 DEF IInv, TypeOK
<1>4. callsLeft' \in 0..CallBudget /\ faultsLeft' \in 0..FaultBudget
  BY <1>2, NaturalBounds DEF IInv, TypeOK, NoFault, Fault
<1> USE DEF IInv, Stored, At, Holder, Expired, Processing
<1>5. TypeOK'
  BY <1>1, <1>2, <1>3, <1>4 DEF TypeOK
<1>6. BareUnlessStored'
  BY <1>2 DEF BareUnlessStored, Bare
<1>7. SessionsFit'
  BY <1>1, <1>2 DEF TypeOK, SessionsFit, Fits
<1>8. Apart'
  BY <1>2 DEF Apart, Exclusive
<1>9. RowHasFile'
  BY <1>1, <1>2 DEF TypeOK, RowHasFile
<1>10. FileHasRow'
  BY <1>1, <1>2 DEF TypeOK, FileHasRow
<1>11. SweepsOnlyExpired'
  BY <1>2 DEF SweepsOnlyExpired
<1> QED BY <1>5, <1>6, <1>7, <1>8, <1>9, <1>10, <1>11

\* The steps that choose what to sweep change nothing else.
LEMMA SweepListsKeep ==
  ASSUME IInv, StartSweep \/ ListTrash \/ EndSweep \/ UNCHANGED vars
  PROVE  IInv'
<1>1. /\ UNCHANGED <<row, file, sess, broken, callsLeft, faultsLeft>>
      /\ sweep' \in [phase : {"sleep", "rows", "trash"}, todo : SUBSET Resumes]
  BY SmallestOfSet DEF StartSweep, ListTrash, EndSweep, NoFault, Selected, IInv, TypeOK, vars
<1> QED BY <1>1 DEF IInv, TypeOK, BareUnlessStored, Bare, SessionsFit, Fits, Apart, RowHasFile, FileHasRow,
     SweepsOnlyExpired, At, Stored, Holder, Expired, Processing

\* A step that writes a stored row whose lock is free, or only lets it grow older, and
\* neither stores nor deletes it.
LEMMA RowStepKeeps ==
  ASSUME NEW r \in Resumes, IInv, Stored(r), NEW to \in Row, to.life = "stored",
         row' = [row EXCEPT ![r] = to], UNCHANGED <<file, sess, sweep, broken, faultsLeft>>,
         callsLeft' \in 0..CallBudget,
         \/ ~Locked(r)
         \/ /\ to.owner = row[r].owner /\ to.status = row[r].status
            /\ row[r].old => to.old
            /\ to.fresh => row[r].fresh
  PROVE  IInv'
<1> USE DEF IInv, Stored, At, Holder
<1>1. TypeOK'
  BY DEF TypeOK
<1>2. \A q \in Resumes : row'[q].life = row[q].life /\ (~Stored(q) => row'[q] = row[q])
  BY DEF TypeOK
<1>3. BareUnlessStored'
  BY <1>2 DEF BareUnlessStored, Bare
<1>4. \A s \in Sessions : At(s, "quarantined") /\ sess[s].row = r => to.owner = row[r].owner
  BY DEF Locked
<1>5. SessionsFit'
  BY <1>2, <1>4 DEF TypeOK, SessionsFit, Fits
<1>6. Apart'
  BY DEF Apart, Exclusive
<1>7. RowHasFile' /\ FileHasRow'
  BY <1>2 DEF RowHasFile, FileHasRow
<1>8. SweepsOnlyExpired'
  BY SweeperIsASession DEF TypeOK, SweepsOnlyExpired, Expired, Processing, Locked
<1> QED BY <1>1, <1>3, <1>5, <1>6, <1>7, <1>8

LEMMA BindKeeps ==
  ASSUME NEW r \in Resumes, NEW o \in {"candidate", "application"}, NEW profile \in BOOLEAN, IInv,
         Bind(r, o, profile)
  PROVE  IInv'
<1> DEFINE to == [row[r] EXCEPT !.owner = o, !.confirmed = @ \/ profile]
<1>1. row[r] \in Row /\ Stored(r) /\ ~Locked(r) /\ row' = [row EXCEPT ![r] = to]
  BY DEF IInv, TypeOK, Bind, MayBind, Writes
<1>2. to \in Row /\ to.life = "stored"
  BY <1>1 DEF Row, Owners, Stored
<1>3. UNCHANGED <<file, sess, sweep, broken, faultsLeft>> /\ callsLeft' \in 0..CallBudget
  BY NaturalBounds DEF Bind, IInv, TypeOK
<1> HIDE DEF to
<1> QED BY <1>1, <1>2, <1>3, RowStepKeeps

LEMMA UnbindKeeps ==
  ASSUME NEW r \in Resumes, IInv, Unbind(r)
  PROVE  IInv'
<1> DEFINE to == [row[r] EXCEPT !.owner = "none"]
<1>1. row[r] \in Row /\ Stored(r) /\ ~Locked(r) /\ row' = [row EXCEPT ![r] = to]
  BY DEF IInv, TypeOK, Unbind, Writes
<1>2. to \in Row /\ to.life = "stored"
  BY <1>1 DEF Row, Owners, Stored
<1>3. UNCHANGED <<file, sess, sweep, broken, faultsLeft>> /\ callsLeft' \in 0..CallBudget
  BY NaturalBounds DEF Unbind, IInv, TypeOK
<1> HIDE DEF to
<1> QED BY <1>1, <1>2, <1>3, RowStepKeeps

LEMMA AgeKeeps ==
  ASSUME NEW r \in Resumes, IInv, Age(r)
  PROVE  IInv'
<1> DEFINE to == [row[r] EXCEPT !.old = TRUE]
<1>1. row[r] \in Row /\ Stored(r) /\ row' = [row EXCEPT ![r] = to]
  BY DEF IInv, TypeOK, Age, Writes
<1>2. /\ to \in Row /\ to.life = "stored" /\ to.old
      /\ to.owner = row[r].owner /\ to.status = row[r].status /\ to.fresh = row[r].fresh
  BY <1>1 DEF Row, Stored
<1>3. UNCHANGED <<file, sess, sweep, broken, faultsLeft>> /\ callsLeft' \in 0..CallBudget
  BY DEF Age, NoFault, IInv, TypeOK
<1> HIDE DEF to
<1> QED BY <1>1, <1>2, <1>3, RowStepKeeps

LEMMA LeaseEndsKeeps ==
  ASSUME NEW r \in Resumes, IInv, LeaseEnds(r)
  PROVE  IInv'
<1> DEFINE to == [row[r] EXCEPT !.fresh = FALSE]
<1>1. row[r] \in Row /\ Stored(r) /\ row' = [row EXCEPT ![r] = to]
  BY DEF IInv, TypeOK, BareUnlessStored, Bare, LeaseEnds, Writes
<1>2. /\ to \in Row /\ to.life = "stored" /\ ~to.fresh
      /\ to.owner = row[r].owner /\ to.status = row[r].status /\ to.old = row[r].old
  BY <1>1 DEF Row, Stored
<1>3. UNCHANGED <<file, sess, sweep, broken, faultsLeft>> /\ callsLeft' \in 0..CallBudget
  BY DEF LeaseEnds, NoFault, IInv, TypeOK
<1> HIDE DEF to
<1> QED BY <1>1, <1>2, <1>3, RowStepKeeps

\* An attempt begins on a row whose lock is free, and the session waits for the model.
LEMMA CallStructureKeeps ==
  ASSUME NEW s \in Sessions, NEW force \in BOOLEAN, IInv, CallStructure(s, force)
  PROVE  IInv'
<1>1. PICK r \in Resumes :
        /\ Stored(r) /\ ~Locked(r) /\ row[r].attempt < MaxAttempts
        /\ row' = [row EXCEPT ![r] = [row[r] EXCEPT !.status = "processing", !.attempt = @ + 1, !.fresh = TRUE]]
        /\ sess' = [sess EXCEPT ![s] = [pc |-> "model", row |-> r, attempt |-> row[r].attempt + 1,
                                        had |-> row[r].draft > 0 /\ row[r].confirmed]]
  BY DEF CallStructure, Writes, Goes
<1>2. /\ s # Sweeper /\ At(s, "idle") /\ UNCHANGED <<file, sweep, broken, faultsLeft>>
      /\ callsLeft > 0 /\ callsLeft' = callsLeft - 1
  BY DEF CallStructure, Call
<1> DEFINE to == [row[r] EXCEPT !.status = "processing", !.attempt = @ + 1, !.fresh = TRUE]
<1> DEFINE next == [pc |-> "model", row |-> r, attempt |-> row[r].attempt + 1,
                    had |-> row[r].draft > 0 /\ row[r].confirmed]
<1>3. row[r] \in Row
  BY DEF IInv, TypeOK
<1>4. row[r].attempt + 1 \in 0..MaxAttempts
  BY <1>1, <1>3, NaturalBounds DEF Row
<1>5. to \in Row /\ to.life = row[r].life /\ to.owner = row[r].owner
  BY <1>3, <1>4 DEF Row
<1>6. next \in Session /\ next.pc = "model" /\ next.row = r
  BY <1>3, <1>4 DEF Session, Row
<1>7. row' = [row EXCEPT ![r] = to] /\ sess' = [sess EXCEPT ![s] = next]
  BY <1>1
<1> HIDE DEF to, next
<1> USE DEF IInv, Stored, At, Holder
<1>8. TypeOK'
  BY <1>2, <1>5, <1>6, <1>7, NaturalBounds DEF TypeOK
<1>9. BareUnlessStored'
  BY <1>1, <1>5, <1>7 DEF TypeOK, BareUnlessStored, Bare
<1>10. SessionsFit'
  BY <1>2, <1>5, <1>6, <1>7 DEF TypeOK, SessionsFit, Fits
<1>11. Apart'
  BY <1>6, <1>7 DEF TypeOK, Apart, Exclusive
<1>12. RowHasFile' /\ FileHasRow'
  <2>1. \A q \in Resumes : row'[q].life = row[q].life
    BY <1>5, <1>7 DEF TypeOK
  <2>2. \A q \in Resumes : \A pc \in {"staged", "promoted", "quarantined"} : Holder(q, pc) <=> Holder(q, pc)'
    BY <1>2, <1>6, <1>7 DEF TypeOK
  <2> QED BY <1>2, <2>1, <2>2 DEF RowHasFile, FileHasRow
<1>13. SweepsOnlyExpired'
  BY <1>1, <1>2, <1>7, SweeperIsASession DEF TypeOK, SweepsOnlyExpired, Expired, Processing, Locked
<1> QED BY <1>8, <1>9, <1>10, <1>11, <1>12, <1>13

\* A crash takes sessions away and leaves rows and files; what they held is broken.
LEMMA CrashKeeps ==
  ASSUME NEW dead \in SUBSET Sessions, IInv, Crash(dead)
  PROVE  IInv'
<1> USE DEF IInv, Crash, Stored, At, Holder
<1>1. TypeOK'
  <2>1. sess' \in [Sessions -> Session]
    <3>1. Idle \in Session
      BY NaturalBounds DEF Session, Idle
    <3> QED BY <3>1 DEF TypeOK
  <2>2. broken' \subseteq Resumes
    BY DEF TypeOK, SessionsFit, Fits
  <2>3. callsLeft' \in 0..CallBudget /\ faultsLeft' \in 0..FaultBudget
    BY NaturalBounds DEF TypeOK, Fault
  <2>4. sweep' \in [phase : {"sleep", "rows", "trash"}, todo : SUBSET Resumes]
    BY DEF TypeOK
  <2> QED BY <2>1, <2>2, <2>3, <2>4 DEF TypeOK
<1>2. \A s \in Sessions : sess'[s].pc # "idle" => sess'[s] = sess[s]
  BY DEF Idle
<1>3. BareUnlessStored'
  BY DEF BareUnlessStored, Bare
<1>4. SessionsFit'
  BY <1>2 DEF SessionsFit, Fits
<1>5. Apart'
  BY <1>2 DEF Apart, Exclusive
<1>6. ASSUME NEW r \in Resumes \ broken', NEW pc \in {"staged", "promoted", "quarantined"}
      PROVE  r \notin broken /\ (Holder(r, pc) => Holder(r, pc)')
  BY <1>6
<1>7. RowHasFile'
  BY <1>6 DEF RowHasFile
<1>8. FileHasRow'
  BY <1>6 DEF FileHasRow
<1>9. SweepsOnlyExpired'
  BY <1>2, SweeperIsASession DEF SweepsOnlyExpired, Expired, Processing
<1> QED BY <1>1, <1>3, <1>4, <1>5, <1>7, <1>8, <1>9

-----------------------------------------------------------------------------
(* The invariant *)

LEMMA InitHolds == Init => IInv
<1> SUFFICES ASSUME Init PROVE IInv
  OBVIOUS
<1> USE DEF Init, Stored, At, Holder
<1>1. row \in [Resumes -> Row]
  <2>1. NewRow \in Row
    BY RowTyped DEF Owners
  <2>2. [NewRow EXCEPT !.life = "stored", !.parse = "parsed", !.text = TRUE] \in Row
    BY <2>1 DEF Row, NewRow
  <2> QED BY <2>1, <2>2
<1>2. sess \in [Sessions -> Session]
  <2>1. Idle \in Session
    BY NaturalBounds DEF Session, Idle
  <2> QED BY <2>1
<1>3. TypeOK
  BY <1>1, <1>2, NaturalBounds DEF TypeOK
<1>4. BareUnlessStored /\ SessionsFit /\ Apart
  BY ParsedAreResumes DEF BareUnlessStored, Bare, NewRow, SessionsFit, Fits, Apart, Exclusive, Idle
<1>5. RowHasFile /\ FileHasRow
  BY ParsedAreResumes DEF RowHasFile, FileHasRow, NewRow
<1>6. SweepsOnlyExpired
  BY SweeperIsASession DEF SweepsOnlyExpired, Idle
<1> QED BY <1>3, <1>4, <1>5, <1>6 DEF IInv

LEMMA NextKeeps == IInv /\ [Next]_vars => IInv'
<1> SUFFICES ASSUME IInv, [Next]_vars PROVE IInv'
  OBVIOUS
<1>1. ASSUME NEW s \in Sessions, SessionStep(s) PROVE IInv'
  BY <1>1, PromoteKeeps, CommitUploadKeeps, LockExtractKeeps, EndExtractKeeps, EndStructureKeeps,
     CommitDeleteKeeps, PurgeKeeps DEF SessionStep
<1>2. ASSUME NEW s \in Sessions, Request(s) PROVE IInv'
  BY <1>2, StartUploadKeeps, CallExtractKeeps, CallDeleteKeeps, CallStructureKeeps DEF Request
<1>3. ASSUME NEW s \in Sessions, Failure(s) PROVE IInv'
  BY <1>3, AbortUploadKeeps, UploadAnswerLostKeeps, CommitFailsKeeps, DeleteFailsKeeps DEF Failure
<1>4. ASSUME SweepStep PROVE IInv'
  BY <1>4, SweepListsKeep, SweepRowKeeps, PurgeTrashKeeps DEF SweepStep
<1>5. ASSUME NEW r \in Resumes, Elsewhere(r) PROVE IInv'
  BY <1>5, BindKeeps, UnbindKeeps, AgeKeeps, LeaseEndsKeeps DEF Elsewhere
<1>6. ASSUME NEW dead \in SUBSET Sessions, Crash(dead) PROVE IInv'
  BY <1>6, CrashKeeps
<1>7. CASE UNCHANGED vars
  BY <1>7, SweepListsKeep
<1> QED BY <1>1, <1>2, <1>3, <1>4, <1>5, <1>6, <1>7 DEF Next

\* The invariant holds in every state the services, the workers and the retention reach.
THEOREM Invariant == Spec => []IInv
<1>1. IInv /\ [Next]_vars => IInv'
  BY NextKeeps
<1> QED BY InitHolds, <1>1, PTL DEF Spec

\* A stored row has its file and a file its row, whatever fails, unless a crash or a lost
\* answer took them apart (resume_service, resume_file_cleanup).
THEOREM FilesFitRowsAlways == Spec => []FilesFitRows
<1>1. IInv => FilesFitRows
  BY DEF IInv, FilesFitRows
<1> QED BY Invariant, <1>1, PTL

\* The retention quarantines only what is expired when it deletes it (run_once and
\* _delete_locked_resume).
THEOREM SweepsOnlyExpiredAlways == Spec => []SweepsOnlyExpired
<1>1. IInv => SweepsOnlyExpired
  BY DEF IInv
<1> QED BY Invariant, <1>1, PTL

-----------------------------------------------------------------------------
(* What a step may never do to a row *)

\* The resume of an application stays stored, bound and where it is.
Applied(r) ==
  row[r].owner = "application" =>
    /\ row'[r].life = "stored" /\ row'[r].owner = "application"
    /\ file'[r] = file[r]

\* Its draft changes only to that of the latest attempt, its profile goes only with an
\* attempt that had not read it.
Drafted(r) ==
  row'[r].life # "deleted" =>
    /\ row'[r].draft # row[r].draft => row'[r].draft = row[r].attempt
    /\ row[r].confirmed /\ ~row'[r].confirmed =>
         \E s \in Sessions : At(s, "model") /\ sess[s].row = r /\ ~sess[s].had

LEMMA SessionStepsKeepRows ==
  ASSUME NEW s \in Sessions, NEW r \in Resumes, IInv, SessionStep(s) \/ Request(s) \/ Failure(s)
  PROVE  Applied(r) /\ Drafted(r)
<1> USE DEF IInv, TypeOK, Row, Session, Applied, Drafted, SessionsFit, Fits, BareUnlessStored, Bare, NewRow, Idle,
            Stored, At, Holder, Locked, Goes, Ends, Writes, Moves, Call, Fault, NoFault
<1>1. CASE StartUpload(s)
  BY <1>1 DEF StartUpload, Smallest
<1>2. CASE Promote(s)
  BY <1>2 DEF Promote
<1>3. CASE CommitUpload(s)
  BY <1>3 DEF CommitUpload
<1>4. CASE AbortUpload(s)
  BY <1>4 DEF AbortUpload, Discarded
<1>5. CASE UploadAnswerLost(s)
  BY <1>5 DEF UploadAnswerLost, Discarded
<1>6. CASE CallExtract(s)
  BY <1>6 DEF CallExtract
<1>7. CASE LockExtract(s)
  BY <1>7 DEF LockExtract
<1>8. CASE EndExtract(s)
  BY <1>8 DEF EndExtract, Extracted
<1>9. CASE EndStructure(s)
  <2>1. sess[s].row \in Resumes /\ row[sess[s].row] \in Row /\ At(s, "model") /\ UNCHANGED file
    BY <1>9 DEF EndStructure
  <2>2. CASE Current(s) /\ row' = [row EXCEPT ![sess[s].row] = Structured(s)]
    <3>1. Structured(s).life = row[sess[s].row].life /\ Structured(s).owner = row[sess[s].row].owner
      BY <2>1 DEF Structured
    <3>2. Structured(s).draft = row[sess[s].row].attempt /\ Structured(s).confirmed = sess[s].had
      BY <2>1, <2>2 DEF Structured, Current
    <3> QED BY <2>1, <2>2, <3>1, <3>2 DEF Current
  <2>3. CASE Current(s) /\ row' = [row EXCEPT ![sess[s].row] = [row[sess[s].row] EXCEPT !.status = "failed"]]
    BY <2>1, <2>3
  <2>4. CASE UNCHANGED row
    BY <2>1, <2>4
  <2> QED BY <1>9, <2>2, <2>3, <2>4 DEF EndStructure
<1>10. CASE CommitFails(s)
  BY <1>10 DEF CommitFails
<1>11. CASE CallDelete(s)
  BY <1>11 DEF CallDelete, Quarantine
<1>12. CASE CommitDelete(s)
  BY <1>12 DEF CommitDelete
<1>13. CASE DeleteFails(s)
  BY <1>13 DEF DeleteFails, Restored
<1>14. CASE Purge(s)
  BY <1>14 DEF Purge
<1>15. CASE \E force \in BOOLEAN : CallStructure(s, force)
  BY <1>15 DEF CallStructure
<1> QED
  BY <1>1, <1>2, <1>3, <1>4, <1>5, <1>6, <1>7, <1>8, <1>9, <1>10, <1>11, <1>12, <1>13,
     <1>14, <1>15 DEF SessionStep, Request, Failure

LEMMA OtherStepsKeepRows ==
  ASSUME NEW r \in Resumes, IInv,
         \/ SweepStep \/ UNCHANGED vars
         \/ \E q \in Resumes : Elsewhere(q)
         \/ \E dead \in SUBSET Sessions : Crash(dead)
  PROVE  Applied(r) /\ Drafted(r)
<1> USE DEF IInv, TypeOK, Row, Applied, Drafted, BareUnlessStored, Bare, Stored, Writes
<1>1. CASE StartSweep \/ ListTrash \/ EndSweep \/ UNCHANGED vars \/ \E dead \in SUBSET Sessions : Crash(dead)
  BY <1>1 DEF StartSweep, ListTrash, EndSweep, vars, Crash
<1>2. CASE SweepRow
  BY <1>2, NextOfSweep DEF SweepRow, StillExpired, Expired, Quarantine, Moves
<1>3. CASE PurgeTrash
  BY <1>3, NextOfSweep DEF PurgeTrash, Retained
<1>4. CASE \E q \in Resumes : Elsewhere(q)
  <2>1. PICK q \in Resumes : Elsewhere(q)
    BY <1>4
  <2>2. CASE Unbind(q) \/ Age(q) \/ LeaseEnds(q)
    BY <2>2 DEF Unbind, Age, LeaseEnds
  <2>3. CASE \E o \in {"candidate", "application"}, profile \in BOOLEAN : Bind(q, o, profile)
    BY <2>3 DEF Bind, MayBind
  <2> QED BY <2>1, <2>2, <2>3 DEF Elsewhere
<1> QED BY <1>1, <1>2, <1>3, <1>4 DEF SweepStep

LEMMA NextKeepsRows ==
  ASSUME IInv, [Next]_vars
  PROVE  \A r \in Resumes : Applied(r) /\ Drafted(r)
<1> SUFFICES ASSUME NEW r \in Resumes PROVE Applied(r) /\ Drafted(r)
  OBVIOUS
<1>1. CASE \E s \in Sessions : SessionStep(s) \/ Request(s) \/ Failure(s)
  BY <1>1, SessionStepsKeepRows
<1>2. CASE \/ SweepStep \/ UNCHANGED vars
           \/ \E q \in Resumes : Elsewhere(q)
           \/ \E dead \in SUBSET Sessions : Crash(dead)
  BY <1>2, OtherStepsKeepRows
<1> QED BY <1>1, <1>2 DEF Next

\* Whatever deletions and sweeps were under way when a resume was bound to an application,
\* its row and its file stay (intake and _delete_locked_resume lock the row).
THEOREM AppliedKeptAlways == Spec => AppliedKept
<1>1. IInv /\ [Next]_vars =>
        [\A r \in Resumes : row[r].owner = "application" =>
           /\ row'[r].life = "stored" /\ row'[r].owner = "application"
           /\ file'[r] = file[r]]_vars
  BY NextKeepsRows DEF Applied
<1> QED BY Invariant, <1>1, PTL DEF Spec, AppliedKept

\* A late answer never takes the place of a later attempt's draft, nor of a profile its
\* attempt had read (structure_resume).
THEOREM DraftIsLatestAlways == Spec => DraftIsLatest
<1>1. IInv /\ [Next]_vars =>
        [\A r \in Resumes : row'[r].life # "deleted" =>
           /\ row'[r].draft # row[r].draft => row'[r].draft = row[r].attempt
           /\ row[r].confirmed /\ ~row'[r].confirmed =>
                \E s \in Sessions : At(s, "model") /\ sess[s].row = r /\ ~sess[s].had]_vars
  BY NextKeepsRows DEF Drafted
<1> QED BY Invariant, <1>1, PTL DEF Spec, DraftIsLatest

=============================================================================
