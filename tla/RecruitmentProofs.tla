------------------------- MODULE RecruitmentProofs -------------------------
(***************************************************************************)
(* Theorems about RecruitmentPipeline and RecruitmentViews, for all values  *)
(* of their constants.  The inductive invariant of the pipeline says which  *)
(* states of the application exist, which rounds and offers it may have in  *)
(* each of them, and which history rows a later reopening will find.  That  *)
(* what is shown is accepted follows from it; that the funnel is nested     *)
(* needs to know besides which stages an application with given records     *)
(* has been in.                                                             *)
(***************************************************************************)
EXTENDS RecruitmentViews, SequenceTheorems, FiniteSetTheorems, TLAPS

AppType == [life : Lives, stage : Stages, decision : HrDecisions, outcome : Outcomes \cup {"none"}]
Withdrawals == {"candidate_withdrew", "company_canceled"}

\* The states an application can be in.
StateAllowed ==
  /\ app.life = "active" =>
       \/ \E stage \in {"applied", "hr_review"} : app = State("active", stage, "pending", "none")
       \/ app = State("active", "backup", "backup", "none")
       \/ \E stage \in Stage9 : app = Passed(stage)
  /\ app.life = "ended" =>
       \/ app = State("ended", "rejected", "rejected", "screening_rejected")
       \/ \E outcome \in {"interview_rejected", "interview_no_show"} : app = Ended("rejected", outcome)
       \/ \E s \in DOMAIN OfferOutcome : app = Ended("offer", OfferOutcome[s])
       \/ app = Ended("hired", "hired")
       \/ \E stage \in Stage9, outcome \in Withdrawals : app = Ended(stage, outcome)
  /\ app.life = "voided" => app.outcome = "none" /\ app.stage # "hired"

\* Every round but the latest one led to the next; only a completed one has a decision.
RoundsInOrder ==
  \A i \in DOMAIN ivs :
    /\ i < Len(ivs) => AllowsNextRound(ivs[i])
    /\ ivs[i].status # "completed" => ivs[i].decision = "pending"

\* Only the latest offer may be current.
LatestOfferOnly == \A o \in Current : o = Len(offers)

\* Where the application is before, in and after its interviews, whether it runs or ended.
Screened == app.stage \in ScreeningStages \/ app.outcome = "screening_rejected"
Interviewed == app.stage = "interview" \/ app.outcome \in {"interview_rejected", "interview_no_show"}
Offered == app.stage \in {"offer", "offer_accepted", "admitted", "hired"}
HasOffer == app.stage \in {"offer_accepted", "admitted", "hired"}

Open(r) == r.decision \in {"pending", "next_round"}

\* The latest round may have ended the application, by a rejection or a withdrawal.
LatestFits ==
  \/ Open(Latest(ivs)) /\ app.outcome # "interview_rejected"
  \/ /\ Latest(ivs).status = "completed" /\ Latest(ivs).decision = "rejected"
     /\ app.outcome = "interview_rejected"
  \/ /\ Latest(ivs).status = "completed" /\ Latest(ivs).decision = "candidate_withdrew"
     /\ app.outcome = "candidate_withdrew"
     /\ support["end"].iv = Len(ivs) /\ support["end"].offer = 0

RecordsFit ==
  app.life # "voided" =>
    /\ Screened => ivs = <<>> /\ offers = <<>>
    /\ Interviewed => ivs # <<>> /\ offers = <<>> /\ LatestFits
    /\ Offered => ivs # <<>> /\ Latest(ivs).decision = "proceed_offer"
    /\ HasOffer => \E o \in Current : offers[o].status = "accepted"
    /\ app.stage = "offer" => \A o \in Current : offers[o].status # "accepted"

\* The history row of the latest end names the record it ended with.
EndBacked ==
  app.life = "ended" /\ app.decision = "passed" =>
    LET h == support["end"] IN
    /\ h.life = "active" /\ h.outcome = app.outcome
    /\ h.iv \in 0..Len(ivs) /\ h.offer \in 0..Len(offers)
    /\ \A s \in DOMAIN OfferOutcome :
         app.outcome = OfferOutcome[s] => h.offer # 0 /\ offers[h.offer].status = s
    /\ app.outcome = "hired" => h.offer # 0 /\ offers[h.offer].status = "accepted"
    /\ app.outcome = "interview_rejected" => h.iv = Len(ivs)
    /\ app.outcome = "interview_no_show" => h.iv # 0 /\ ivs[h.iv].status = "no_show"
    /\ app.outcome \in Withdrawals => h.stage = app.stage

\* So do those of the acceptance and the admission while these stand.
NamesAccepted(kind) ==
  /\ support[kind].offer \in DOMAIN offers
  /\ offers[support[kind].offer].status = "accepted"
MilestonesBacked ==
  app.life # "voided" =>
    /\ HasOffer => NamesAccepted("offer_accepted")
    /\ app.stage \in {"admitted", "hired"} => NamesAccepted("application_admitted")

\* A call that took effect carries a version that its record has left behind.
RoundCalls == {"reschedule", "cancel", "no_show", "feedback", "correct_feedback"}
OfferCalls == {"update_offer"} \cup (OfferStatuses \ {"draft"})
CallsBehind ==
  /\ \A c \in done : c.op \in RoundCalls => c.on \in DOMAIN ivs /\ c.ver < ivs[c.on].version
  /\ \A c \in done : c.op \in OfferCalls => c.on \in DOMAIN offers /\ c.ver < offers[c.on].version
  /\ RecordCallsOnce

Meaning ==
  /\ StateAllowed /\ RoundsInOrder /\ LatestOfferOnly
  /\ RecordsFit /\ EndBacked /\ MilestonesBacked

IInv ==
  /\ TypeOK
  /\ Meaning
  /\ CallsBehind
  /\ ~(IsActive /\ twin)

-----------------------------------------------------------------------------
(* What the types say of the rows *)

LEMMA Rows ==
  ASSUME TypeOK
  PROVE  /\ Len(ivs) \in Nat /\ DOMAIN ivs = 1..Len(ivs)
         /\ \A i \in DOMAIN ivs : ivs[i] \in Round
         /\ ivs # <<>> <=> Len(ivs) # 0
         /\ Len(offers) \in Nat /\ DOMAIN offers = 1..Len(offers)
         /\ \A o \in DOMAIN offers : offers[o] \in Offer
         /\ offers # <<>> <=> Len(offers) # 0
  <1>1. ivs \in Seq(Round) /\ offers \in Seq(Offer)
    BY DEF TypeOK
  <1> QED
    BY <1>1, LenProperties, ElementOfSeq, EmptySeq

LEMMA AppFields ==
  ASSUME TypeOK, NEW life, NEW stage, NEW decision, NEW outcome
  PROVE  app = State(life, stage, decision, outcome) <=>
           /\ app.life = life /\ app.stage = stage
           /\ app.decision = decision /\ app.outcome = outcome
  BY DEF TypeOK, State

LEMMA RoundWritten ==
  ASSUME TypeOK, NEW i \in DOMAIN ivs, NEW status \in RoundStatuses,
         NEW decision \in FeedbackDecisions, WriteRound(i, status, decision)
  PROVE  /\ ivs' \in Seq(Round) /\ Len(ivs') = Len(ivs) /\ DOMAIN ivs' = DOMAIN ivs
         /\ ivs'[i] = [status |-> status, decision |-> decision, version |-> ivs[i].version + 1]
         /\ \A j \in DOMAIN ivs : j # i => ivs'[j] = ivs[j]
  <1> DEFINE to == [status |-> status, decision |-> decision, version |-> ivs[i].version + 1]
  <1>1. ivs \in Seq(Round) /\ i \in 1..Len(ivs) /\ ivs[i] \in Round
    BY Rows DEF TypeOK
  <1>2. to \in Round /\ ivs' = [ivs EXCEPT ![i] = to]
    BY <1>1, BoundsOK DEF WriteRound, Round
  <1>3. /\ ivs' \in Seq(Round) /\ Len(ivs') = Len(ivs)
        /\ \A j \in 1..Len(ivs) : ivs'[j] = IF j = i THEN to ELSE ivs[j]
    <2> HIDE DEF to
    <2> QED BY <1>1, <1>2, ExceptSeq
  <1> QED
    BY <1>1, <1>3, LenProperties

LEMMA OfferWritten ==
  ASSUME TypeOK, NEW o \in DOMAIN offers, NEW status \in OfferStatuses,
         NEW past \in BOOLEAN, WriteOffer(o, status, past)
  PROVE  /\ offers' \in Seq(Offer) /\ Len(offers') = Len(offers) /\ DOMAIN offers' = DOMAIN offers
         /\ offers'[o] = [status |-> status, version |-> offers[o].version + 1, past |-> past]
         /\ \A p \in DOMAIN offers : p # o => offers'[p] = offers[p]
  <1> DEFINE to == [status |-> status, version |-> offers[o].version + 1, past |-> past]
  <1>1. offers \in Seq(Offer) /\ o \in 1..Len(offers) /\ offers[o] \in Offer
    BY Rows DEF TypeOK
  <1>2. to \in Offer /\ offers' = [offers EXCEPT ![o] = to]
    BY <1>1, BoundsOK DEF WriteOffer, Offer
  <1>3. /\ offers' \in Seq(Offer) /\ Len(offers') = Len(offers)
        /\ \A p \in 1..Len(offers) : offers'[p] = IF p = o THEN to ELSE offers[p]
    <2> HIDE DEF to
    <2> QED BY <1>1, <1>2, ExceptSeq
  <1> QED
    BY <1>1, <1>3, LenProperties

LEMMA RoundAppended ==
  ASSUME TypeOK, ivs' = Append(ivs, NewRound)
  PROVE  /\ ivs' \in Seq(Round) /\ Len(ivs') = Len(ivs) + 1 /\ DOMAIN ivs' = 1..Len(ivs) + 1
         /\ ivs'[Len(ivs')] = NewRound
         /\ \A i \in DOMAIN ivs : ivs'[i] = ivs[i]
  <1>1. ivs \in Seq(Round) /\ NewRound \in Round
    BY BoundsOK DEF TypeOK, NewRound, Round, RoundStatuses, FeedbackDecisions
  <1> QED
    BY <1>1, AppendProperties, LenProperties, Rows

LEMMA OfferAppended ==
  ASSUME TypeOK, NEW past \in BOOLEAN,
         offers' = Append(offers, [status |-> "draft", version |-> 1, past |-> past])
  PROVE  /\ offers' \in Seq(Offer) /\ Len(offers') = Len(offers) + 1
         /\ DOMAIN offers' = 1..Len(offers) + 1
         /\ offers'[Len(offers')].status = "draft" /\ offers'[Len(offers')].version = 1
         /\ \A o \in DOMAIN offers : offers'[o] = offers[o]
  <1> DEFINE new == [status |-> "draft", version |-> 1, past |-> past]
  <1>1. offers \in Seq(Offer) /\ new \in Offer
    BY BoundsOK DEF TypeOK, Offer, OfferStatuses
  <1>2. new.status = "draft" /\ new.version = 1
    OBVIOUS
  <1> HIDE DEF new
  <1>3. offers' = Append(offers, new)
    BY DEF new
  <1> QED
    BY <1>1, <1>2, <1>3, AppendProperties, LenProperties, Rows

-----------------------------------------------------------------------------
(* Steps that leave the application and the meaning of its records alone *)

\* The same rounds and offers, but for versions and dates.
SameRounds ==
  /\ Len(ivs') = Len(ivs) /\ DOMAIN ivs' = DOMAIN ivs /\ (ivs' = <<>> <=> ivs = <<>>)
  /\ \A i \in DOMAIN ivs : ivs'[i].status = ivs[i].status /\ ivs'[i].decision = ivs[i].decision
SameOffers ==
  /\ Len(offers') = Len(offers) /\ DOMAIN offers' = DOMAIN offers /\ (offers' = <<>> <=> offers = <<>>)
  /\ \A o \in DOMAIN offers : offers'[o].status = offers[o].status

LEMMA SameCurrent ==
  ASSUME SameOffers
  PROVE  Current' = Current
  BY DEF SameOffers, Current

LEMMA SameMeaning ==
  ASSUME IInv, Keep, SameRounds, SameOffers
  PROVE  Meaning'
  <1> USE DEF IInv, Keep, Meaning
  <1>1. Current' = Current
    BY SameCurrent
  <1>2. \A o \in Current : o \in DOMAIN offers
    BY DEF Current
  <1>3. ivs # <<>> => Len(ivs) \in DOMAIN ivs
    BY Rows
  <1>4. StateAllowed'
    BY DEF StateAllowed
  <1>5. RoundsInOrder'
    BY DEF RoundsInOrder, SameRounds, AllowsNextRound
  <1>6. LatestOfferOnly'
    BY <1>1 DEF LatestOfferOnly, SameOffers
  <1>7. RecordsFit'
    BY <1>1, <1>2, <1>3 DEF RecordsFit, SameRounds, SameOffers, Screened, Interviewed, Offered, HasOffer,
       LatestFits, Latest, Open
  <1>8. EndBacked'
    BY Rows DEF EndBacked, SameRounds, SameOffers
  <1>9. MilestonesBacked'
    BY DEF MilestonesBacked, NamesAccepted, SameOffers, HasOffer
  <1> QED
    BY <1>4, <1>5, <1>6, <1>7, <1>8, <1>9

-----------------------------------------------------------------------------
(* The calls that took effect *)

RowsTyped == ivs \in Seq(Round) /\ offers \in Seq(Offer)

\* No record goes, and no version is taken back.
VersionsGrow ==
  /\ \A i \in DOMAIN ivs : i \in DOMAIN ivs' /\ ivs'[i].version >= ivs[i].version
  /\ \A o \in DOMAIN offers : o \in DOMAIN offers' /\ offers'[o].version >= offers[o].version

LEMMA RoundVersions ==
  ASSUME NEW s \in Seq(Round)
  PROVE  \A i \in DOMAIN s : i \in Nat /\ s[i].version \in Nat
  <1> SUFFICES ASSUME NEW i \in DOMAIN s PROVE i \in Nat /\ s[i].version \in Nat
    OBVIOUS
  <1>1. i \in 1..Len(s) /\ s[i] \in Round
    BY LenProperties, ElementOfSeq
  <1> QED
    BY <1>1, BoundsOK DEF Round

LEMMA OfferVersions ==
  ASSUME NEW s \in Seq(Offer)
  PROVE  \A o \in DOMAIN s : o \in Nat /\ s[o].version \in Nat
  <1> SUFFICES ASSUME NEW o \in DOMAIN s PROVE o \in Nat /\ s[o].version \in Nat
    OBVIOUS
  <1>1. o \in 1..Len(s) /\ s[o] \in Offer
    BY LenProperties, ElementOfSeq
  <1> QED
    BY <1>1, BoundsOK DEF Offer

LEMMA VersionsAreNumbers ==
  ASSUME RowsTyped
  PROVE  /\ \A i \in DOMAIN ivs : i \in Nat /\ ivs[i].version \in Nat
         /\ \A o \in DOMAIN offers : o \in Nat /\ offers[o].version \in Nat
  BY RoundVersions, OfferVersions DEF RowsTyped

LEMMA VersionsAreNumbersNext ==
  ASSUME RowsTyped'
  PROVE  /\ \A i \in DOMAIN ivs' : ivs'[i].version \in Nat
         /\ \A o \in DOMAIN offers' : offers'[o].version \in Nat
  BY RoundVersions, OfferVersions DEF RowsTyped

LEMMA NoCall ==
  ASSUME IInv, RowsTyped', VersionsGrow, UNCHANGED <<done, again>>
  PROVE  CallsBehind' /\ done' \subseteq Calls /\ again' \subseteq done'
  <1>1. RowsTyped /\ CallsBehind /\ TypeOK
    BY DEF IInv, TypeOK, RowsTyped
  <1>2. \A c \in done : c.ver \in Nat
    BY <1>1 DEF TypeOK, Calls
  <1>3. \A c \in done : c.op \in RoundCalls => c.on \in DOMAIN ivs' /\ c.ver < ivs'[c.on].version
    BY <1>1, <1>2, VersionsAreNumbers, VersionsAreNumbersNext DEF CallsBehind, VersionsGrow
  <1>4. \A c \in done : c.op \in OfferCalls => c.on \in DOMAIN offers' /\ c.ver < offers'[c.on].version
    BY <1>1, <1>2, VersionsAreNumbers, VersionsAreNumbersNext DEF CallsBehind, VersionsGrow
  <1> QED
    BY <1>1, <1>3, <1>4 DEF CallsBehind, RecordCallsOnce, TypeOK

\* A call about a record is made with the version the step leaves behind: it is a new one.
LEMMA CallMade ==
  ASSUME IInv, RowsTyped', VersionsGrow,
         NEW op \in RecordCalls \cup EndCalls, NEW on \in Nat, NEW ver \in Nat, NEW why \in Reasons \cup {"none"},
         TakesEffect(op, on, ver, why),
         op \in RoundCalls => on \in DOMAIN ivs /\ ver = ivs[on].version /\ ivs'[on].version = ver + 1,
         op \in OfferCalls =>
           on \in DOMAIN offers /\ ver = offers[on].version /\ offers'[on].version = ver + 1
  PROVE  CallsBehind' /\ done' \subseteq Calls /\ again' \subseteq done'
  <1> DEFINE call == [op |-> op, on |-> on, ver |-> ver, why |-> why]
  <1>1. RowsTyped /\ CallsBehind /\ TypeOK
    BY DEF IInv, TypeOK, RowsTyped
  <1>2. /\ done' \subseteq done \cup {call} /\ done \subseteq done'
        /\ again' \subseteq again \cup {call} /\ (call \notin done => again' = again)
    BY DEF TakesEffect
  <1>3. call \in Calls
    BY DEF Calls
  <1>4. \A c \in done : c.ver \in Nat
    BY <1>1 DEF TypeOK, Calls
  <1>5. op \in RoundCalls \cup OfferCalls => call \notin done
    BY <1>1, VersionsAreNumbers DEF CallsBehind
  <1>6. \A c \in done : c.op \in RoundCalls => c.on \in DOMAIN ivs' /\ c.ver < ivs'[c.on].version
    BY <1>1, <1>4, VersionsAreNumbers, VersionsAreNumbersNext DEF CallsBehind, VersionsGrow
  <1>7. \A c \in done : c.op \in OfferCalls => c.on \in DOMAIN offers' /\ c.ver < offers'[c.on].version
    BY <1>1, <1>4, VersionsAreNumbers, VersionsAreNumbersNext DEF CallsBehind, VersionsGrow
  <1>8. \A c \in done' : c.op \in RoundCalls => c.on \in DOMAIN ivs' /\ c.ver < ivs'[c.on].version
    BY <1>1, <1>2, <1>6, VersionsAreNumbers DEF VersionsGrow
  <1>9. \A c \in done' : c.op \in OfferCalls => c.on \in DOMAIN offers' /\ c.ver < offers'[c.on].version
    BY <1>1, <1>2, <1>7, VersionsAreNumbers DEF VersionsGrow
  <1>10. \A c \in again' : c.op \notin RecordCalls
    BY <1>1, <1>2, <1>5 DEF CallsBehind, RecordCallsOnce, RecordCalls, RoundCalls, OfferCalls
  <1>11. again' \subseteq done'
    BY <1>1, <1>2 DEF TypeOK, TakesEffect
  <1> QED
    BY <1>1, <1>2, <1>3, <1>8, <1>9, <1>10, <1>11 DEF CallsBehind, RecordCallsOnce, TypeOK

-----------------------------------------------------------------------------
(* A move of the application, with its history row *)

LEMMA Moved ==
  ASSUME TypeOK,
         NEW life \in Lives, NEW stage \in Stages, NEW decision \in HrDecisions,
         NEW outcome \in Outcomes \cup {"none"}, NEW kind,
         NEW iv \in 0..MaxRounds, NEW offer \in 0..MaxRecords,
         Move(State(life, stage, decision, outcome), kind, iv, offer)
  PROVE  /\ app' \in AppType
         /\ app' = State(life, stage, decision, outcome)
         /\ app'.life = life /\ app'.stage = stage /\ app'.decision = decision /\ app'.outcome = outcome
         /\ support' \in [Kinds -> History]
         /\ \A k \in Kinds :
              support'[k] = IF k = kind \/ (k = "end" /\ life = "ended")
                            THEN [life |-> app.life, stage |-> app.stage, outcome |-> outcome,
                                  iv |-> iv, offer |-> offer]
                            ELSE support[k]
  <1> DEFINE row == [life |-> app.life, stage |-> app.stage, outcome |-> outcome, iv |-> iv, offer |-> offer]
  <1>1. row \in History
    BY DEF TypeOK, History
  <1>2. /\ app' = State(life, stage, decision, outcome)
        /\ support' = [k \in Kinds |-> IF k = kind \/ (k = "end" /\ life = "ended") THEN row ELSE support[k]]
    BY DEF Move, State
  <1> HIDE DEF row
  <1>3. support' \in [Kinds -> History]
    BY <1>1, <1>2 DEF TypeOK
  <1> QED
    BY <1>2, <1>3 DEF State, row, AppType

-----------------------------------------------------------------------------
(* Rounds *)

\* An active application with a round that is scheduled or waits for its decision is at
\* the interview stage, the round is the latest one, and no other has ended anything.
LEMMA RoundInHand ==
  ASSUME IInv, IsActive, NEW i \in DOMAIN ivs,
         \/ ivs[i].status = "scheduled"
         \/ ivs[i].status = "completed" /\ ivs[i].decision = "pending"
  PROVE  i = Len(ivs) /\ AtInterview /\ ivs # <<>> /\ offers = <<>>
  <1>1. i \in Nat /\ i <= Len(ivs) /\ Len(ivs) \in Nat /\ ivs # <<>> /\ ivs[i].decision = "pending"
    BY Rows DEF IInv, Meaning, RoundsInOrder
  <1>2. i = Len(ivs)
    BY <1>1 DEF IInv, Meaning, RoundsInOrder, AllowsNextRound
  <1>3. app.life = "active" /\ ~Screened /\ ~Offered
    BY <1>1, <1>2 DEF IInv, Meaning, RecordsFit, IsActive, Latest
  <1>4. AtInterview
    BY <1>3, AppFields DEF IInv, Meaning, StateAllowed, Screened, Offered, AtInterview, Passed, State,
       ScreeningStages, Stage9
  <1> QED
    BY <1>1, <1>2, <1>4 DEF AtInterview, IInv, Meaning, RecordsFit, Interviewed, Passed, State

LEMMA LatestRoundWritten ==
  ASSUME IInv, ivs # <<>>, offers = <<>>, UNCHANGED offers,
         NEW i \in DOMAIN ivs, i = Len(ivs), NEW status \in RoundStatuses,
         NEW decision \in FeedbackDecisions, WriteRound(i, status, decision),
         status # "completed" => decision = "pending"
  PROVE  /\ RowsTyped' /\ VersionsGrow /\ RoundsInOrder' /\ LatestOfferOnly'
         /\ Len(ivs') = Len(ivs) /\ DOMAIN ivs' = DOMAIN ivs /\ ivs' # <<>>
         /\ Latest(ivs').status = status /\ Latest(ivs').decision = decision
         /\ ivs'[i].status = status /\ ivs'[i].version = ivs[i].version + 1
  <1> TypeOK /\ RowsTyped
    BY DEF IInv, TypeOK, RowsTyped
  <1>1. /\ ivs' \in Seq(Round) /\ Len(ivs') = Len(ivs) /\ DOMAIN ivs' = DOMAIN ivs
        /\ ivs'[i] = [status |-> status, decision |-> decision, version |-> ivs[i].version + 1]
        /\ \A j \in DOMAIN ivs : j # i => ivs'[j] = ivs[j]
    BY RoundWritten
  <1>2. RowsTyped' /\ ivs' # <<>>
    BY <1>1, Rows, EmptySeq DEF RowsTyped
  <1>3. VersionsGrow
    BY <1>1, VersionsAreNumbers DEF VersionsGrow
  <1>4. RoundsInOrder'
    BY <1>1, Rows DEF RoundsInOrder, IInv, Meaning, AllowsNextRound
  <1>5. LatestOfferOnly'
    BY DEF IInv, Meaning, LatestOfferOnly, Current
  <1> QED
    BY <1>1, <1>2, <1>3, <1>4, <1>5 DEF Latest

\* The application is at its interviews, with an open latest round.
LEMMA NowAtInterview ==
  ASSUME app' = Passed("interview"), ivs' # <<>>, offers' = <<>>,
         RoundsInOrder', LatestOfferOnly', Open(Latest(ivs'))
  PROVE  Meaning'
  <1>1. app'.life = "active" /\ app'.stage = "interview" /\ app'.decision = "passed" /\ app'.outcome = "none"
    BY DEF Passed, State
  <1>2. StateAllowed' /\ EndBacked' /\ MilestonesBacked'
    BY <1>1 DEF StateAllowed, EndBacked, MilestonesBacked, HasOffer, Stage9
  <1>3. RecordsFit'
    BY <1>1 DEF RecordsFit, Screened, Interviewed, Offered, HasOffer, LatestFits, Open, ScreeningStages
  <1> QED
    BY <1>2, <1>3 DEF Meaning

\* The latest round is written and ends the application, or takes it on to the offer.
LEMMA InterviewEnds ==
  ASSUME IInv, AtInterview, ivs # <<>>, offers = <<>>, UNCHANGED offers,
         NEW i \in DOMAIN ivs, RoundsInOrder', LatestOfferOnly',
         ivs' # <<>>, Len(ivs') = Len(ivs), DOMAIN ivs' = DOMAIN ivs,
         NEW outcome \in {"interview_rejected", "interview_no_show", "candidate_withdrew", "none"},
         Move(IF outcome = "none" THEN Passed("offer")
              ELSE Ended(IF outcome = "candidate_withdrew" THEN "interview" ELSE "rejected", outcome),
              "none", i, 0),
         outcome = "interview_no_show" => Open(Latest(ivs')) /\ ivs'[i].status = "no_show",
         outcome # "interview_no_show" =>
           /\ i = Len(ivs) /\ Latest(ivs').status = "completed"
           /\ Latest(ivs').decision =
                CASE outcome = "none" -> "proceed_offer" [] outcome = "interview_rejected" -> "rejected"
                  [] OTHER -> "candidate_withdrew"
  PROVE  /\ Meaning' /\ app' \in AppType
         /\ support' \in [Kinds -> History]
  <1> DEFINE life == IF outcome = "none" THEN "active" ELSE "ended"
             stage == CASE outcome = "none" -> "offer" [] outcome = "candidate_withdrew" -> "interview"
                        [] OTHER -> "rejected"
  <1>1. /\ TypeOK /\ app.life = "active" /\ app.stage = "interview"
        /\ i \in 0..MaxRounds /\ i \in 1..Len(ivs) /\ Len(ivs) \in Nat /\ MaxRecords \in Nat
    BY Rows, BoundsOK DEF IInv, TypeOK, AtInterview, Passed, State
  <1>2. /\ life \in Lives /\ stage \in Stages /\ "passed" \in HrDecisions
        /\ outcome \in Outcomes \cup {"none"} /\ 0 \in 0..MaxRecords
    <2>1. life \in Lives
      BY DEF Lives
    <2>2. stage \in Stages
      BY DEF Stages, Stage9
    <2>3. outcome \in Outcomes \cup {"none"}
      BY DEF Outcomes
    <2>4. 0 \in 0..MaxRecords
      BY <1>1
    <2>5. "passed" \in HrDecisions
      BY DEF HrDecisions
    <2> HIDE DEF life, stage
    <2> QED
      BY <2>1, <2>2, <2>3, <2>4, <2>5
  <1>3. Move(State(life, stage, "passed", outcome), "none", i, 0)
    BY DEF Passed, Ended
  <1> HIDE DEF life, stage
  <1>4. /\ app' \in AppType
        /\ app' = State(life, stage, "passed", outcome)
        /\ app'.life = life /\ app'.stage = stage /\ app'.decision = "passed" /\ app'.outcome = outcome
        /\ support' \in [Kinds -> History]
        /\ support'["end"] = IF life = "ended"
                             THEN [life |-> "active", stage |-> "interview", outcome |-> outcome,
                                   iv |-> i, offer |-> 0]
                             ELSE support["end"]
    BY <1>1, <1>2, <1>3, Moved DEF Kinds
  <1>5. StateAllowed'
    BY <1>4 DEF StateAllowed, life, stage, Passed, Ended, Stage9, Withdrawals
  <1>6. RecordsFit'
    BY <1>1, <1>4 DEF RecordsFit, life, stage, Screened, Interviewed, Offered, HasOffer, LatestFits, Open, ScreeningStages,
       Stage9, Current
  <1>7. EndBacked'
    BY <1>1, <1>4, Rows DEF EndBacked, life, stage, OfferOutcome, Withdrawals
  <1>8. MilestonesBacked'
    BY <1>4 DEF MilestonesBacked, HasOffer, life, stage
  <1> QED
    BY <1>4, <1>5, <1>6, <1>7, <1>8 DEF Meaning

\* What is left to say of a step that adds no record, once its meaning is shown.
LEMMA Assembled ==
  ASSUME IInv, Meaning', CallsBehind', done' \subseteq Calls, again' \subseteq done',
         app' \in AppType, support' \in [Kinds -> History], RowsTyped',
         Len(ivs') = Len(ivs), Len(offers') = Len(offers), UNCHANGED twin,
         app'.life = "active" => app.life = "active" \/ ~twin
  PROVE  IInv'
  <1>1. TypeOK'
    BY DEF IInv, TypeOK, AppType, RowsTyped
  <1> QED
    BY <1>1 DEF IInv, IsActive

\* The round in hand is written and the interviews go on.
LEMMA RoundGoesOn ==
  ASSUME IInv, IsActive, NEW i \in DOMAIN ivs,
         \/ ivs[i].status = "scheduled"
         \/ ivs[i].status = "completed" /\ ivs[i].decision = "pending",
         NEW status \in RoundStatuses, NEW decision \in {"pending", "next_round"},
         status # "completed" => decision = "pending",
         WriteRound(i, status, decision), Keep, UNCHANGED <<offers, twin>>,
         NEW op \in RoundCalls, NEW why \in Reasons \cup {"none"},
         TakesEffect(op, i, ivs[i].version, why)
  PROVE  IInv'
  <1>1. i = Len(ivs) /\ AtInterview /\ ivs # <<>> /\ offers = <<>>
    BY RoundInHand
  <1>2. decision \in FeedbackDecisions
    BY DEF FeedbackDecisions
  <1>3. /\ RowsTyped' /\ VersionsGrow /\ RoundsInOrder' /\ LatestOfferOnly'
        /\ Len(ivs') = Len(ivs) /\ ivs' # <<>> /\ Latest(ivs').decision = decision
        /\ ivs'[i].version = ivs[i].version + 1
    BY <1>1, <1>2, LatestRoundWritten
  <1>4. Meaning'
    BY <1>1, <1>3, NowAtInterview DEF Open, Keep, AtInterview
  <1>5. i \in Nat /\ ivs[i].version \in Nat /\ op \in RecordCalls \cup EndCalls /\ op \notin OfferCalls
    BY VersionsAreNumbers DEF IInv, TypeOK, RowsTyped, RoundCalls, OfferCalls, RecordCalls, OfferStatuses
  <1>6. CallsBehind' /\ done' \subseteq Calls /\ again' \subseteq done'
    BY <1>3, <1>5, CallMade
  <1> QED
    BY <1>3, <1>4, <1>6, Assembled DEF IInv, TypeOK, Keep, AppType, IsActive

\* The round in hand is written and ends the interviews.
LEMMA RoundEnds ==
  ASSUME IInv, IsActive, NEW i \in DOMAIN ivs,
         \/ ivs[i].status = "scheduled"
         \/ ivs[i].status = "completed" /\ ivs[i].decision = "pending",
         NEW outcome \in {"interview_rejected", "interview_no_show", "candidate_withdrew", "none"},
         NEW status, NEW decision,
         status = IF outcome = "interview_no_show" THEN "no_show" ELSE "completed",
         decision = CASE outcome = "none" -> "proceed_offer" [] outcome = "interview_rejected" -> "rejected"
                      [] outcome = "interview_no_show" -> "pending" [] OTHER -> "candidate_withdrew",
         WriteRound(i, status, decision),
         Move(IF outcome = "none" THEN Passed("offer")
              ELSE Ended(IF outcome = "candidate_withdrew" THEN "interview" ELSE "rejected", outcome),
              "none", i, 0),
         UNCHANGED <<offers, twin>>,
         NEW op \in {"no_show_end", "feedback", "correct_feedback"}, NEW why \in Reasons,
         TakesEffect(op, i, ivs[i].version, why)
  PROVE  IInv'
  <1>1. i = Len(ivs) /\ AtInterview /\ ivs # <<>> /\ offers = <<>>
    BY RoundInHand
  <1>2. /\ decision \in FeedbackDecisions /\ status \in RoundStatuses
        /\ status # "completed" => decision = "pending"
    BY DEF FeedbackDecisions, RoundStatuses
  <1>3. /\ RowsTyped' /\ VersionsGrow /\ RoundsInOrder' /\ LatestOfferOnly'
        /\ Len(ivs') = Len(ivs) /\ DOMAIN ivs' = DOMAIN ivs /\ ivs' # <<>>
        /\ Latest(ivs').status = status /\ Latest(ivs').decision = decision
        /\ ivs'[i].status = status /\ ivs'[i].version = ivs[i].version + 1
    BY <1>1, <1>2, LatestRoundWritten
  <1>4. outcome = "interview_no_show" => Open(Latest(ivs')) /\ ivs'[i].status = "no_show"
    BY <1>3 DEF Open
  <1>5. Meaning' /\ app' \in AppType /\ support' \in [Kinds -> History]
    BY <1>1, <1>3, <1>4, InterviewEnds DEF AppType
  <1>6. i \in Nat /\ ivs[i].version \in Nat /\ op \in RecordCalls \cup EndCalls /\ op \notin OfferCalls
    BY VersionsAreNumbers DEF IInv, TypeOK, RowsTyped, RoundCalls, OfferCalls, RecordCalls, EndCalls, OfferStatuses
  <1>7. CallsBehind' /\ done' \subseteq Calls /\ again' \subseteq done'
    BY <1>3, <1>6, CallMade
  <1> QED
    BY <1>3, <1>5, <1>7, Assembled DEF IsActive

LEMMA ScheduleKeeps ==
  ASSUME IInv, ScheduleInterview
  PROVE  IInv'
  <1>1. /\ TypeOK /\ IsActive /\ app.decision = "passed"
        /\ Len(ivs) < MaxRounds /\ Len(ivs) + Len(offers) < MaxRecords
        /\ ivs' = Append(ivs, NewRound) /\ UNCHANGED <<offers, twin, done, again>>
        /\ offers \in Seq(Offer) /\ MaxRounds \in Nat /\ MaxRecords \in Nat
    BY BoundsOK DEF IInv, ScheduleInterview, TypeOK
  <1>2. /\ ivs' \in Seq(Round) /\ Len(ivs') = Len(ivs) + 1 /\ DOMAIN ivs' = 1..Len(ivs) + 1
        /\ ivs'[Len(ivs')] = NewRound
        /\ \A i \in DOMAIN ivs : ivs'[i] = ivs[i]
    BY <1>1, RoundAppended
  <1>3. /\ RowsTyped' /\ RowsTyped /\ ivs' # <<>> /\ Len(ivs) \in Nat /\ DOMAIN ivs = 1..Len(ivs)
    BY <1>1, <1>2, Rows, EmptySeq, SMTT(30) DEF RowsTyped, TypeOK
  <1>4. VersionsGrow
    BY <1>1, <1>2, <1>3, VersionsAreNumbers DEF VersionsGrow
  <1>5. LatestOfferOnly' /\ Open(Latest(ivs'))
    BY <1>1, <1>2 DEF LatestOfferOnly, Current, Open, Latest, NewRound, IInv, Meaning
  <1>6. /\ offers = <<>> /\ app' = Passed("interview") /\ app' \in AppType
        /\ support' \in [Kinds -> History]
        /\ ivs # <<>> => AllowsNextRound(Latest(ivs))
    <2>1. CASE app.stage = "screening_passed" /\ ivs = <<>> /\ Move(Passed("interview"), "none", 1, 0)
      <3>1. offers = <<>>
        BY <1>1, <2>1 DEF IInv, Meaning, RecordsFit, Screened, ScreeningStages, IsActive
      <3>2. "active" \in Lives /\ "interview" \in Stages /\ "passed" \in HrDecisions
        BY DEF Lives, Stages, Stage9, HrDecisions
      <3>3. 1 \in 0..MaxRounds /\ 0 \in 0..MaxRecords
        BY <1>1, <1>3
      <3>4. app' = Passed("interview") /\ app' \in AppType /\ support' \in [Kinds -> History]
        BY <1>1, <2>1, <3>2, <3>3, Moved DEF AppType, Passed
      <3> QED
        BY <2>1, <3>1, <3>4
    <2>2. CASE app.stage = "interview" /\ ivs # <<>> /\ AllowsNextRound(Latest(ivs)) /\ Keep
      <3>1. app = Passed("interview")
        BY <1>1, <2>2, AppFields DEF IInv, Meaning, StateAllowed, IsActive, Passed, State, Stage9
      <3>2. offers = <<>>
        BY <1>1, <2>2 DEF IInv, Meaning, RecordsFit, Interviewed, IsActive
      <3> QED
        BY <1>1, <2>2, <3>1, <3>2 DEF Keep, TypeOK, AppType
    <2> QED
      BY <2>1, <2>2 DEF ScheduleInterview
  <1>7. RoundsInOrder'
    <2> SUFFICES ASSUME NEW i \in DOMAIN ivs'
                 PROVE  /\ i < Len(ivs') => AllowsNextRound(ivs'[i])
                        /\ ivs'[i].status # "completed" => ivs'[i].decision = "pending"
      BY DEF RoundsInOrder, AllowsNextRound
    <2>1. CASE i = Len(ivs')
      BY <1>2, <1>3, <2>1 DEF NewRound
    <2>2. CASE i # Len(ivs')
      <3>1. i \in DOMAIN ivs /\ ivs'[i] = ivs[i]
        BY <1>2, <1>3, <2>2
      <3>2. AllowsNextRound(ivs[i])
        BY <1>3, <1>6, <3>1 DEF IInv, Meaning, RoundsInOrder, Latest
      <3> QED
        BY <3>1, <3>2 DEF IInv, Meaning, RoundsInOrder
    <2> QED
      BY <2>1, <2>2
  <1>8. Meaning'
    BY <1>1, <1>3, <1>5, <1>6, <1>7, NowAtInterview
  <1>9. CallsBehind' /\ done' \subseteq Calls /\ again' \subseteq done'
    BY <1>1, <1>3, <1>4, NoCall
  <1>10. TypeOK'
    BY <1>1, <1>2, <1>3, <1>6, <1>9 DEF TypeOK, AppType
  <1> QED
    BY <1>1, <1>8, <1>9, <1>10 DEF IInv, IsActive

LEMMA RescheduleKeeps ==
  ASSUME IInv, NEW i \in DOMAIN ivs, RescheduleInterview(i)
  PROVE  IInv'
  <1>1. ivs[i].decision = "pending"
    BY DEF IInv, Meaning, RoundsInOrder, RescheduleInterview
  <1>2. "scheduled" \in RoundStatuses /\ "reschedule" \in RoundCalls
    BY DEF RoundStatuses, RoundCalls
  <1> QED
    BY <1>1, <1>2, RoundGoesOn DEF RescheduleInterview

LEMMA CancelKeeps ==
  ASSUME IInv, NEW i \in DOMAIN ivs, NEW why \in Reasons, CancelInterview(i, why)
  PROVE  IInv'
  <1>1. ivs[i].decision = "pending"
    BY DEF IInv, Meaning, RoundsInOrder, CancelInterview
  <1>2. "canceled" \in RoundStatuses /\ "cancel" \in RoundCalls
    BY DEF RoundStatuses, RoundCalls
  <1> QED
    BY <1>1, <1>2, RoundGoesOn DEF CancelInterview

LEMMA NoShowKeeps ==
  ASSUME IInv, NEW i \in DOMAIN ivs, NEW why \in Reasons, MarkNoShow(i, why)
  PROVE  IInv'
  <1>1. ivs[i].decision = "pending"
    BY DEF IInv, Meaning, RoundsInOrder, MarkNoShow
  <1>2. "no_show" \in RoundStatuses /\ "no_show" \in RoundCalls
    BY DEF RoundStatuses, RoundCalls
  <1>3. CASE Keep /\ TakesEffect("no_show", i, ivs[i].version, why)
    BY <1>1, <1>2, <1>3, RoundGoesOn DEF MarkNoShow
  <1>4. CASE NoShowEnds(i) /\ TakesEffect("no_show_end", i, ivs[i].version, why)
    BY <1>1, <1>4, RoundEnds DEF MarkNoShow, NoShowEnds
  <1> QED
    BY <1>3, <1>4 DEF MarkNoShow

LEMMA EndByNoShowKeeps ==
  ASSUME IInv, NEW i \in DOMAIN ivs, NEW why \in Reasons, EndByNoShow(i, why)
  PROVE  IInv'
  <1>1. /\ AtInterview /\ ivs[i].status = "no_show" /\ UNCHANGED <<ivs, offers, twin>>
        /\ Move(Ended("rejected", "interview_no_show"), "none", i, 0)
        /\ TakesEffect("no_show_end", i, ivs[i].version, why)
    BY DEF EndByNoShow, NoShowEnds
  <1>2. app.life = "active" /\ app.stage = "interview" /\ app.outcome = "none"
    BY <1>1 DEF AtInterview, Passed, State
  <1>3. ivs # <<>> /\ offers = <<>> /\ Open(Latest(ivs))
    BY <1>2 DEF IInv, Meaning, RecordsFit, Interviewed, LatestFits
  <1>4. RowsTyped' /\ RowsTyped /\ VersionsGrow
    BY <1>1, VersionsAreNumbers DEF RowsTyped, VersionsGrow, IInv, TypeOK
  <1>5. RoundsInOrder' /\ LatestOfferOnly'
    BY <1>1 DEF IInv, Meaning, RoundsInOrder, LatestOfferOnly, Current
  <1>6. Meaning' /\ app' \in AppType /\ support' \in [Kinds -> History]
    BY <1>1, <1>3, <1>5, InterviewEnds DEF AppType
  <1>7. /\ i \in Nat /\ ivs[i].version \in Nat /\ "no_show_end" \in RecordCalls \cup EndCalls
        /\ "no_show_end" \notin OfferCalls /\ "no_show_end" \notin RoundCalls
    BY <1>4, VersionsAreNumbers DEF RoundCalls, OfferCalls, EndCalls, OfferStatuses
  <1>8. CallsBehind' /\ done' \subseteq Calls /\ again' \subseteq done'
    BY <1>1, <1>4, <1>7, CallMade
  <1> QED
    BY <1>1, <1>2, <1>4, <1>6, <1>8, Assembled

\* What the decision on the round in hand does, taken for the first time.
LEMMA FeedbackApplied ==
  ASSUME IInv, IsActive, NEW i \in DOMAIN ivs, NEW decision \in FeedbackDecisions,
         \/ ivs[i].status = "scheduled"
         \/ ivs[i].status = "completed" /\ ivs[i].decision = "pending",
         WriteRound(i, "completed", decision), ApplyFeedback(i, decision),
         UNCHANGED <<offers, twin>>,
         NEW op \in {"feedback", "correct_feedback"}, NEW why \in Reasons,
         TakesEffect(op, i, ivs[i].version, why)
  PROVE  IInv'
  <1>1. "completed" \in RoundStatuses /\ op \in RoundCalls
    BY DEF RoundStatuses, RoundCalls
  <1>2. CASE decision \in {"pending", "next_round"}
    BY <1>1, <1>2, RoundGoesOn DEF ApplyFeedback
  <1>3. CASE decision = "proceed_offer"
    BY <1>3, RoundEnds DEF ApplyFeedback
  <1>4. CASE decision = "rejected"
    BY <1>4, RoundEnds DEF ApplyFeedback
  <1>5. CASE decision = "candidate_withdrew"
    <2>1. AtInterview /\ Move(Ended(app.stage, "candidate_withdrew"), "none", i, 0)
      BY <1>5 DEF ApplyFeedback
    <2>2. app.stage = "interview"
      BY <2>1 DEF AtInterview, Passed, State
    <2> QED
      BY <1>5, <2>1, <2>2, RoundEnds
  <1> QED
    BY <1>2, <1>3, <1>4, <1>5 DEF FeedbackDecisions

LEMMA SubmitKeeps ==
  ASSUME IInv, NEW i \in DOMAIN ivs, NEW why \in Reasons, NEW decision \in FeedbackDecisions,
         SubmitFeedback(i, decision, why)
  PROVE  IInv'
  BY FeedbackApplied DEF SubmitFeedback

LEMMA UpdateKeeps ==
  ASSUME IInv, NEW i \in DOMAIN ivs, NEW why \in Reasons, NEW decision \in FeedbackDecisions,
         UpdateFeedback(i, decision, why)
  PROVE  IInv'
  <1>1. /\ ivs[i].status = "completed" /\ ivs[i].decision \in {"pending", decision}
        /\ WriteRound(i, "completed", decision) /\ UNCHANGED <<offers, twin>>
        /\ TakesEffect("correct_feedback", i, ivs[i].version, why)
    BY DEF UpdateFeedback
  <1>2. CASE ivs[i].decision = "pending" /\ decision # "pending"
    BY <1>1, <1>2, FeedbackApplied DEF UpdateFeedback
  <1>3. CASE ~(ivs[i].decision = "pending" /\ decision # "pending")
    <2>1. Keep /\ ivs[i].decision = decision
      BY <1>1, <1>3 DEF UpdateFeedback
    <2>2. TypeOK /\ RowsTyped /\ "completed" \in RoundStatuses
      BY DEF IInv, TypeOK, RowsTyped, RoundStatuses
    <2>3. /\ ivs' \in Seq(Round) /\ Len(ivs') = Len(ivs) /\ DOMAIN ivs' = DOMAIN ivs
          /\ ivs'[i] = [status |-> "completed", decision |-> decision, version |-> ivs[i].version + 1]
          /\ \A j \in DOMAIN ivs : j # i => ivs'[j] = ivs[j]
      BY <1>1, <2>2, RoundWritten
    <2>4. SameRounds /\ SameOffers
      BY <1>1, <2>1, <2>2, <2>3, Rows, EmptySeq DEF SameRounds, SameOffers
    <2>5. Meaning'
      BY <2>1, <2>4, SameMeaning
    <2>6. RowsTyped' /\ VersionsGrow
      <3>1. RowsTyped'
        BY <1>1, <2>2, <2>3 DEF RowsTyped
      <3>2. \A j \in DOMAIN ivs : j \in DOMAIN ivs' /\ ivs'[j].version >= ivs[j].version
        BY <2>2, <2>3, VersionsAreNumbers
      <3> QED
        BY <1>1, <2>2, <3>1, <3>2, VersionsAreNumbers DEF VersionsGrow
    <2>7. /\ i \in Nat /\ ivs[i].version \in Nat /\ "correct_feedback" \in RecordCalls \cup EndCalls
          /\ "correct_feedback" \notin OfferCalls
      BY <2>2, VersionsAreNumbers DEF RecordCalls, OfferCalls, OfferStatuses
    <2>8. CallsBehind' /\ done' \subseteq Calls /\ again' \subseteq done'
      BY <1>1, <2>3, <2>6, <2>7, CallMade
    <2> QED
      BY <1>1, <2>1, <2>2, <2>3, <2>5, <2>6, <2>8, Assembled DEF Keep, TypeOK, AppType
  <1> QED
    BY <1>2, <1>3

LEMMA InterviewStepKeeps ==
  ASSUME IInv, InterviewStep
  PROVE  IInv'
  BY ScheduleKeeps, RescheduleKeeps, CancelKeeps, NoShowKeeps, EndByNoShowKeeps, SubmitKeeps, UpdateKeeps
     DEF InterviewStep

-----------------------------------------------------------------------------
(* Decisions before the first round *)

LEMMA RecordsKept ==
  ASSUME IInv, UNCHANGED <<ivs, offers>>
  PROVE  /\ RowsTyped' /\ RowsTyped /\ VersionsGrow /\ RoundsInOrder' /\ LatestOfferOnly'
         /\ Current' = Current /\ Len(ivs') = Len(ivs) /\ Len(offers') = Len(offers)
  <1>1. RowsTyped /\ RoundsInOrder /\ LatestOfferOnly /\ Current' = Current
    BY DEF IInv, TypeOK, RowsTyped, Meaning, Current
  <1>2. RowsTyped' /\ RoundsInOrder' /\ LatestOfferOnly'
    BY <1>1 DEF RowsTyped, RoundsInOrder, LatestOfferOnly
  <1>3. VersionsGrow
    BY <1>1, VersionsAreNumbers DEF VersionsGrow
  <1> QED
    BY <1>1, <1>2, <1>3

LEMMA ScreenedMove ==
  ASSUME IInv, app.life # "voided", Screened,
         NEW life \in Lives, NEW stage \in Stages, NEW decision \in HrDecisions,
         NEW outcome \in Outcomes \cup {"none"},
         \/ life = "active" /\ stage \in {"applied", "hr_review"} /\ decision = "pending" /\ outcome = "none"
         \/ life = "active" /\ stage = "backup" /\ decision = "backup" /\ outcome = "none"
         \/ life = "active" /\ stage = "screening_passed" /\ decision = "passed" /\ outcome = "none"
         \/ life = "ended" /\ stage = "rejected" /\ decision = "rejected" /\ outcome = "screening_rejected",
         Move(State(life, stage, decision, outcome), "none", 0, 0),
         life = "active" => IsActive \/ MayBeActive,
         UNCHANGED <<ivs, offers, twin, done, again>>
  PROVE  IInv'
  <1>1. TypeOK /\ 0 \in 0..MaxRounds /\ 0 \in 0..MaxRecords
    BY BoundsOK DEF IInv
  <1>2. ivs = <<>> /\ offers = <<>>
    BY DEF IInv, Meaning, RecordsFit
  <1>3. /\ app' \in AppType /\ app' = State(life, stage, decision, outcome)
        /\ app'.life = life /\ app'.stage = stage /\ app'.decision = decision /\ app'.outcome = outcome
        /\ support' \in [Kinds -> History]
    BY <1>1, Moved DEF AppType
  <1>4. /\ RowsTyped' /\ VersionsGrow /\ RoundsInOrder' /\ LatestOfferOnly'
        /\ Len(ivs') = Len(ivs) /\ Len(offers') = Len(offers)
    BY RecordsKept
  <1>5. StateAllowed'
    BY <1>3 DEF StateAllowed, Passed, Stage9
  <1>6. RecordsFit' /\ EndBacked' /\ MilestonesBacked'
    BY <1>2, <1>3 DEF RecordsFit, EndBacked, MilestonesBacked, Screened, Interviewed, Offered, HasOffer
  <1>7. Meaning' /\ CallsBehind' /\ done' \subseteq Calls /\ again' \subseteq done'
    BY <1>4, <1>5, <1>6, NoCall DEF Meaning
  <1> QED
    BY <1>3, <1>4, <1>7, Assembled DEF IsActive, MayBeActive

\* A call that is refused leaves everything as it is.
LEMMA Rests ==
  ASSUME IInv, UNCHANGED vars
  PROVE  IInv'
  BY DEF vars, IInv, TypeOK, Meaning, StateAllowed, RoundsInOrder, LatestOfferOnly, Current, RecordsFit,
       Screened, Interviewed, Offered, HasOffer, LatestFits, EndBacked, MilestonesBacked, NamesAccepted,
       CallsBehind, RecordCallsOnce, IsActive

LEMMA VoidKeeps ==
  ASSUME IInv, VoidApplication
  PROVE  IInv'
  <1>0. CASE ~RowAccepted(Voided)
    <2>1. UNCHANGED vars
      BY <1>0 DEF VoidApplication, Keep, vars
    <2> QED
      BY <2>1, Rests
  <1> SUFFICES ASSUME RowAccepted(Voided) PROVE IInv'
    BY <1>0
  <1>1. /\ TypeOK /\ 0 \in 0..MaxRounds /\ 0 \in 0..MaxRecords /\ app.stage # "hired"
        /\ app.stage \in Stages /\ app.decision \in HrDecisions
        /\ UNCHANGED <<ivs, offers, twin, done, again>>
        /\ Move(State("voided", app.stage, app.decision, "none"), "none", 0, 0)
    BY BoundsOK DEF IInv, VoidApplication, TypeOK, Voided, RowAccepted, State
  <1>2. "voided" \in Lives /\ "none" \in Outcomes \cup {"none"}
    BY DEF Lives
  <1>3. /\ app' \in AppType /\ app'.life = "voided" /\ app'.stage = app.stage /\ app'.outcome = "none"
        /\ support' \in [Kinds -> History]
    <2>1. PICK stage \in Stages, decision \in HrDecisions : stage = app.stage /\ decision = app.decision
      BY <1>1
    <2>2. Move(State("voided", stage, decision, "none"), "none", 0, 0)
      BY <1>1, <2>1
    <2> QED
      BY <1>1, <1>2, <2>1, <2>2, Moved DEF AppType
  <1>4. /\ RowsTyped' /\ VersionsGrow /\ RoundsInOrder' /\ LatestOfferOnly'
        /\ Len(ivs') = Len(ivs) /\ Len(offers') = Len(offers)
    BY <1>1, RecordsKept
  <1>5. Meaning'
    BY <1>1, <1>3, <1>4 DEF Meaning, StateAllowed, RecordsFit, EndBacked, MilestonesBacked
  <1>6. CallsBehind' /\ done' \subseteq Calls /\ again' \subseteq done'
    BY <1>1, <1>4, NoCall
  <1> QED
    BY <1>1, <1>3, <1>4, <1>5, <1>6, Assembled

LEMMA DecisionStepKeeps ==
  ASSUME IInv, DecisionStep
  PROVE  IInv'
  <1>1. "active" \in Lives /\ "ended" \in Lives /\ "none" \in Outcomes \cup {"none"}
    BY DEF Lives
  <1>2. "screening_rejected" \in Outcomes \cup {"none"}
    BY DEF Outcomes
  <1>3. {"hr_review", "backup", "screening_passed", "rejected"} \subseteq Stages
    BY DEF Stages, ScreeningStages
  <1>4. {"pending", "passed", "backup", "rejected"} \subseteq HrDecisions
    BY DEF HrDecisions
  <1>5. app.stage \in ScreeningStages => Screened
    BY DEF Screened
  <1>6. CASE PassApplication
    BY <1>1, <1>3, <1>4, <1>5, <1>6, ScreenedMove DEF PassApplication, Decide, Passed, IsActive
  <1>7. CASE BackupApplication
    BY <1>1, <1>3, <1>4, <1>5, <1>7, ScreenedMove DEF BackupApplication, Decide, IsActive
  <1>8. CASE RejectApplication
    BY <1>1, <1>2, <1>3, <1>4, <1>5, <1>8, ScreenedMove DEF RejectApplication, Decide, IsActive
  <1>9. CASE UndoRejection
    <2>1. app.life = "ended" /\ Screened
      BY <1>9 DEF UndoRejection, State, Screened
    <2> QED
      BY <1>1, <1>3, <1>4, <1>9, <2>1, ScreenedMove DEF UndoRejection
  <1>10. CASE ScreeningHandoff
    <2>1. IsActive /\ app.life = "active" /\ Screened
      BY <1>10 DEF ScreeningHandoff, State, Screened, ScreeningStages, IsActive
    <2> QED
      BY <1>1, <1>3, <1>4, <1>10, <2>1, ScreenedMove DEF ScreeningHandoff
  <1>11. CASE VoidApplication
    BY <1>11, VoidKeeps
  <1> QED
    BY <1>6, <1>7, <1>8, <1>9, <1>10, <1>11 DEF DecisionStep

-----------------------------------------------------------------------------
(* Offers *)

\* The application is at its offers, and none is accepted yet.
LEMMA NowAtOffer ==
  ASSUME app' = Passed("offer"), ivs' # <<>>, Latest(ivs').decision = "proceed_offer",
         \A o \in Current' : offers'[o].status # "accepted",
         RoundsInOrder', LatestOfferOnly'
  PROVE  Meaning'
  <1>1. app'.life = "active" /\ app'.stage = "offer" /\ app'.decision = "passed" /\ app'.outcome = "none"
    BY DEF Passed, State
  <1>2. StateAllowed' /\ EndBacked' /\ MilestonesBacked'
    BY <1>1 DEF StateAllowed, EndBacked, MilestonesBacked, HasOffer, Stage9
  <1>3. RecordsFit'
    BY <1>1 DEF RecordsFit, Screened, Interviewed, Offered, HasOffer, ScreeningStages
  <1> QED
    BY <1>2, <1>3 DEF Meaning

\* What holds of the records while the application is at its offers.
LEMMA OfferStage ==
  ASSUME IInv, AtOffer
  PROVE  /\ TypeOK /\ RowsTyped /\ app.life = "active" /\ app.stage = "offer" /\ app.outcome = "none"
         /\ ivs # <<>> /\ Latest(ivs).decision = "proceed_offer"
         /\ \A o \in Current : offers[o].status # "accepted" /\ o = Len(offers)
  <1>1. app.life = "active" /\ app.stage = "offer" /\ app.outcome = "none"
    BY DEF AtOffer, Passed, State
  <1> QED
    BY <1>1 DEF IInv, TypeOK, RowsTyped, Meaning, RecordsFit, Offered, LatestOfferOnly

LEMMA CreateKeeps ==
  ASSUME IInv, CreateOffer
  PROVE  IInv'
  <1>1. /\ AtOffer /\ Current = {} /\ Len(ivs) + Len(offers) < MaxRecords /\ MaxRecords \in Nat
        /\ Keep /\ UNCHANGED <<ivs, twin, done, again>>
    BY BoundsOK DEF CreateOffer
  <1>2. /\ TypeOK /\ RowsTyped /\ app.life = "active" /\ ivs # <<>> /\ Latest(ivs).decision = "proceed_offer"
    BY <1>1, OfferStage
  <1>3. /\ offers' \in Seq(Offer) /\ Len(offers') = Len(offers) + 1 /\ DOMAIN offers' = 1..Len(offers) + 1
        /\ offers'[Len(offers')].status = "draft"
        /\ \A o \in DOMAIN offers : offers'[o] = offers[o]
    BY <1>2, OfferAppended DEF CreateOffer
  <1>4. /\ Len(offers) \in Nat /\ DOMAIN offers = 1..Len(offers) /\ Len(ivs) \in Nat
    BY <1>2, Rows
  <1>5. \A o \in Current' : o = Len(offers')
    <2> SUFFICES ASSUME NEW o \in Current', o # Len(offers') PROVE FALSE
      OBVIOUS
    <2>1. o \in DOMAIN offers' /\ offers'[o].status \in ActiveOffers
      BY DEF Current
    <2>2. o \in DOMAIN offers /\ offers'[o] = offers[o]
      BY <1>3, <1>4, <2>1
    <2> QED
      BY <1>1, <2>1, <2>2 DEF Current
  <1>6. Meaning'
    BY <1>1, <1>2, <1>3, <1>5, NowAtOffer DEF Keep, AtOffer, RoundsInOrder, LatestOfferOnly, IInv, Meaning, Latest
  <1>7. RowsTyped' /\ VersionsGrow
    BY <1>1, <1>2, <1>3, <1>4, VersionsAreNumbers DEF RowsTyped, VersionsGrow
  <1>8. CallsBehind' /\ done' \subseteq Calls /\ again' \subseteq done'
    BY <1>1, <1>7, NoCall
  <1>9. TypeOK'
    BY <1>1, <1>2, <1>3, <1>4, <1>8 DEF TypeOK, Keep
  <1> QED
    BY <1>1, <1>6, <1>8, <1>9 DEF IInv, Keep, IsActive

\* An offer is written, or gets old, and keeps its status: nothing else changes.
LEMMA SameStatusKeeps ==
  ASSUME IInv, NEW o \in DOMAIN offers, NEW to \in Offer,
         to.status = offers[o].status, to.version >= offers[o].version,
         offers' = [offers EXCEPT ![o] = to], Keep, UNCHANGED <<ivs, twin>>
  PROVE  /\ Meaning' /\ RowsTyped' /\ VersionsGrow /\ offers'[o] = to
         /\ CallsBehind' /\ done' \subseteq Calls /\ again' \subseteq done' => IInv'
  <1>1. RowsTyped /\ TypeOK /\ Len(offers) \in Nat /\ DOMAIN offers = 1..Len(offers)
    BY Rows DEF IInv, TypeOK, RowsTyped
  <1>2. /\ offers' \in Seq(Offer) /\ Len(offers') = Len(offers)
        /\ \A p \in 1..Len(offers) : offers'[p] = IF p = o THEN to ELSE offers[p]
    BY <1>1, ExceptSeq DEF RowsTyped
  <1>3. DOMAIN offers' = DOMAIN offers
    BY <1>1, <1>2, LenProperties
  <1>4. SameRounds /\ SameOffers
    BY <1>1, <1>2, <1>3, EmptySeq DEF SameRounds, SameOffers, RowsTyped
  <1>5. Meaning'
    BY <1>4, SameMeaning
  <1>6. RowsTyped'
    BY <1>1, <1>2 DEF RowsTyped
  <1>7. VersionsGrow
    BY <1>1, <1>2, <1>3, VersionsAreNumbers DEF VersionsGrow
  <1>8. CallsBehind' /\ done' \subseteq Calls /\ again' \subseteq done' => IInv'
    BY <1>1, <1>2, <1>5, <1>6, Assembled DEF Keep, TypeOK, AppType
  <1> QED
    BY <1>1, <1>2, <1>5, <1>6, <1>7, <1>8

LEMMA DayPassesKeeps ==
  ASSUME IInv, NEW o \in DOMAIN offers, DayPasses(o)
  PROVE  IInv'
  <1>1. /\ TypeOK /\ RowsTyped /\ offers[o] \in Offer /\ offers[o].version \in Nat
        /\ Keep /\ UNCHANGED <<ivs, twin, done, again>> /\ offers' = [offers EXCEPT ![o].past = TRUE]
    BY Rows, VersionsAreNumbers DEF IInv, TypeOK, RowsTyped, DayPasses
  <1>2. PICK to \in Offer : to = [offers[o] EXCEPT !.past = TRUE]
    BY <1>1 DEF Offer
  <1>3. /\ offers' = [offers EXCEPT ![o] = to]
        /\ to.status = offers[o].status /\ to.version >= offers[o].version
    BY <1>1, <1>2 DEF Offer
  <1>4. RowsTyped' /\ VersionsGrow /\ (CallsBehind' /\ done' \subseteq Calls /\ again' \subseteq done' => IInv')
    BY <1>1, <1>3, SameStatusKeeps
  <1> QED
    BY <1>1, <1>4, NoCall

LEMMA UpdateOfferKeeps ==
  ASSUME IInv, NEW o \in DOMAIN offers, NEW why \in Reasons, UpdateOffer(o, why)
  PROVE  IInv'
  <1>1. PICK past \in BOOLEAN : WriteOffer(o, offers[o].status, past)
    BY DEF UpdateOffer
  <1>2. /\ TypeOK /\ RowsTyped /\ offers[o] \in Offer /\ offers[o].version \in Nat /\ o \in Nat
        /\ Keep /\ UNCHANGED <<ivs, twin>> /\ TakesEffect("update_offer", o, offers[o].version, why)
    BY Rows, VersionsAreNumbers DEF IInv, TypeOK, RowsTyped, UpdateOffer
  <1>3. PICK to \in Offer :
          to = [status |-> offers[o].status, version |-> offers[o].version + 1, past |-> past]
    BY <1>1, <1>2, BoundsOK DEF Offer, WriteOffer
  <1>4. /\ offers' = [offers EXCEPT ![o] = to]
        /\ to.status = offers[o].status /\ to.version = offers[o].version + 1
        /\ to.version >= offers[o].version
    BY <1>1, <1>2, <1>3 DEF WriteOffer
  <1>5. /\ RowsTyped' /\ VersionsGrow /\ offers'[o] = to
        /\ (CallsBehind' /\ done' \subseteq Calls /\ again' \subseteq done' => IInv')
    BY <1>2, <1>4, SameStatusKeeps
  <1>6. "update_offer" \in RecordCalls \cup EndCalls /\ "update_offer" \notin RoundCalls
    BY DEF RecordCalls, RoundCalls
  <1> QED
    BY <1>2, <1>4, <1>5, <1>6, CallMade

\* An offer in hand moves on; it is the latest one.
LEMMA OfferInHand ==
  ASSUME IInv, NEW o \in DOMAIN offers, NEW status \in OfferStatuses, offers[o].status \in ActiveOffers,
         WriteOffer(o, status, offers[o].past), UNCHANGED ivs
  PROVE  /\ RowsTyped' /\ VersionsGrow /\ RoundsInOrder' /\ LatestOfferOnly'
         /\ Len(offers') = Len(offers) /\ DOMAIN offers' = DOMAIN offers
         /\ offers'[o].status = status /\ offers'[o].version = offers[o].version + 1
         /\ \A p \in Current' : p = o
         /\ \A p \in DOMAIN offers : p # o => offers'[p] = offers[p]
         /\ o \in Nat \ {0} /\ o = Len(offers) /\ o \in 0..MaxRecords
  <1>1. /\ TypeOK /\ RowsTyped /\ offers[o].past \in BOOLEAN /\ Len(offers) \in Nat
        /\ DOMAIN offers = 1..Len(offers) /\ Len(ivs) \in Nat
    BY Rows DEF IInv, TypeOK, RowsTyped, Offer
  <1>2. /\ offers' \in Seq(Offer) /\ Len(offers') = Len(offers) /\ DOMAIN offers' = DOMAIN offers
        /\ offers'[o] = [status |-> status, version |-> offers[o].version + 1, past |-> offers[o].past]
        /\ \A p \in DOMAIN offers : p # o => offers'[p] = offers[p]
    BY <1>1, OfferWritten
  <1>3. o = Len(offers) /\ \A p \in Current : p = o
    BY DEF IInv, Meaning, LatestOfferOnly, Current
  <1>4. \A p \in Current' : p = o
    BY <1>2, <1>3 DEF Current
  <1>5. RowsTyped'
    BY <1>1, <1>2 DEF RowsTyped
  <1>6. VersionsGrow
    BY <1>1, <1>2, VersionsAreNumbers DEF VersionsGrow
  <1>7. RoundsInOrder' /\ LatestOfferOnly'
    BY <1>2, <1>3, <1>4 DEF IInv, Meaning, RoundsInOrder, LatestOfferOnly
  <1>8. o \in 0..MaxRecords
    BY <1>1, BoundsOK DEF TypeOK
  <1> QED
    BY <1>1, <1>2, <1>3, <1>4, <1>5, <1>6, <1>7, <1>8

LEMMA TransitionKeeps ==
  ASSUME IInv, NEW o \in DOMAIN offers, NEW why \in Reasons, NEW status \in OfferStatuses \ {"draft"},
         TransitionOffer(o, status, why)
  PROVE  IInv'
  <1>1. /\ AtOffer /\ offers[o].status \in ActiveOffers /\ WriteOffer(o, status, offers[o].past)
        /\ TakesEffect(status, o, offers[o].version, why) /\ UNCHANGED <<ivs, twin>>
    BY DEF TransitionOffer, ActiveOffers
  <1>2. /\ TypeOK /\ RowsTyped /\ app.life = "active" /\ app.stage = "offer" /\ ivs # <<>>
        /\ Latest(ivs).decision = "proceed_offer" /\ app \in AppType
    BY <1>1, OfferStage DEF TypeOK, AppType
  <1>3. /\ RowsTyped' /\ VersionsGrow /\ RoundsInOrder' /\ LatestOfferOnly'
        /\ Len(offers') = Len(offers) /\ DOMAIN offers' = DOMAIN offers
        /\ offers'[o].status = status /\ offers'[o].version = offers[o].version + 1
        /\ \A p \in Current' : p = o
        /\ o \in Nat \ {0} /\ o = Len(offers) /\ o \in 0..MaxRecords
    BY <1>1, OfferInHand
  <1>4. CallsBehind' /\ done' \subseteq Calls /\ again' \subseteq done'
    <2>1. status \in RecordCalls \cup EndCalls /\ status \notin RoundCalls /\ offers[o].version \in Nat
      BY <1>2, VersionsAreNumbers DEF RecordCalls, RoundCalls, OfferStatuses
    <2> QED
      BY <1>1, <1>3, <2>1, CallMade
  <1>5. 0 \in 0..MaxRounds /\ Len(ivs) \in Nat
    BY <1>2, BoundsOK, Rows
  <1>6. /\ "active" \in Lives /\ "ended" \in Lives /\ "offer_accepted" \in Stages /\ "offer" \in Stages
        /\ "passed" \in HrDecisions /\ "none" \in Outcomes \cup {"none"}
    BY DEF Lives, Stages, Stage9, HrDecisions
  <1>7. CASE status = "sent"
    <2>1. Keep /\ app' = Passed("offer")
      BY <1>1, <1>7 DEF TransitionOffer, Keep, AtOffer
    <2>2. Meaning'
      BY <1>1, <1>2, <1>3, <1>7, <2>1, NowAtOffer
    <2> QED
      BY <1>1, <1>2, <1>3, <1>4, <2>1, <2>2, Assembled DEF Keep, TypeOK
  <1>8. CASE status = "accepted"
    <2>1. Move(State("active", "offer_accepted", "passed", "none"), "offer_accepted", 0, o)
      BY <1>8 DEF TransitionOffer, Passed
    <2>2. /\ app' \in AppType /\ app' = Passed("offer_accepted")
          /\ app'.life = "active" /\ app'.stage = "offer_accepted" /\ app'.outcome = "none"
          /\ support' \in [Kinds -> History] /\ support'["offer_accepted"].offer = o
      <3>1. /\ app' \in AppType /\ app' = State("active", "offer_accepted", "passed", "none")
            /\ app'.life = "active" /\ app'.stage = "offer_accepted" /\ app'.outcome = "none"
            /\ support' \in [Kinds -> History]
        <4>1. TypeOK /\ o \in 0..MaxRecords
          BY <1>2, <1>3
        <4> QED
          BY <1>5, <1>6, <2>1, <4>1, Moved DEF AppType
      <3>2. "offer_accepted" \in Kinds
        BY DEF Kinds
      <3>3. support'["offer_accepted"].offer = o
        BY <2>1, <3>2 DEF Move
      <3> QED
        BY <3>1, <3>3 DEF Passed
    <2>3. StateAllowed' /\ EndBacked'
      BY <2>2 DEF StateAllowed, Stage9, EndBacked
    <2>4. o \in Current'
      BY <1>3, <1>8 DEF Current, ActiveOffers
    <2>5. RecordsFit'
      BY <1>1, <1>2, <1>3, <1>8, <2>2, <2>4 DEF RecordsFit, Screened, Interviewed, Offered, HasOffer, ScreeningStages
    <2>6. MilestonesBacked'
      BY <1>3, <1>8, <2>2 DEF MilestonesBacked, NamesAccepted
    <2>7. Meaning'
      BY <1>3, <2>3, <2>5, <2>6 DEF Meaning
    <2> QED
      BY <1>1, <1>2, <1>3, <1>4, <2>2, <2>7, Assembled
  <1>9. CASE status \in DOMAIN OfferOutcome
    <2> DEFINE outcome == OfferOutcome[status]
    <2>1. /\ outcome \in Outcomes \cup {"none"} /\ outcome \notin Withdrawals
          /\ outcome \notin {"none", "screening_rejected", "interview_rejected", "interview_no_show", "hired"}
          /\ \A s \in DOMAIN OfferOutcome : outcome = OfferOutcome[s] => s = status
      BY <1>9 DEF OfferOutcome, Outcomes, Withdrawals
    <2>2. Move(State("ended", "offer", "passed", outcome), "none", 0, o)
      BY <1>9 DEF TransitionOffer, Ended, OfferOutcome
    <2>3. Ended("offer", outcome) = State("ended", "offer", "passed", outcome) /\ outcome = OfferOutcome[status]
      BY DEF Ended
    <2> HIDE DEF outcome
    <2>4. /\ app' \in AppType /\ app' = Ended("offer", outcome)
          /\ app'.life = "ended" /\ app'.stage = "offer" /\ app'.outcome = outcome
          /\ support' \in [Kinds -> History]
          /\ support'["end"] = [life |-> "active", stage |-> "offer", outcome |-> outcome, iv |-> 0, offer |-> o]
      BY <1>2, <1>3, <1>5, <1>6, <2>1, <2>2, <2>3, Moved DEF AppType, Kinds
    <2>5. StateAllowed'
      BY <1>9, <2>3, <2>4 DEF StateAllowed
    <2>6. EndBacked'
      BY <1>1, <1>3, <1>5, <2>1, <2>4 DEF EndBacked
    <2>7. o \notin Current'
      BY <1>3, <1>9 DEF Current, ActiveOffers, OfferOutcome
    <2>8. RecordsFit'
      BY <1>1, <1>2, <1>3, <2>1, <2>4, <2>7 DEF RecordsFit, Screened, Interviewed, Offered, HasOffer, ScreeningStages
    <2>9. MilestonesBacked'
      BY <2>4 DEF MilestonesBacked, HasOffer
    <2>10. Meaning'
      BY <1>3, <2>5, <2>6, <2>8, <2>9 DEF Meaning
    <2> QED
      BY <1>1, <1>2, <1>3, <1>4, <2>4, <2>10, Assembled
  <1> QED
    BY <1>7, <1>8, <1>9 DEF OfferStatuses, OfferOutcome

LEMMA OfferStepKeeps ==
  ASSUME IInv, OfferStep
  PROVE  IInv'
  BY CreateKeeps, DayPassesKeeps, UpdateOfferKeeps, TransitionKeeps DEF OfferStep

-----------------------------------------------------------------------------
(* The accepted offer, and the ways out *)

LEMMA EndCallMade ==
  ASSUME IInv, RowsTyped', VersionsGrow,
         NEW op \in EndCalls, NEW on \in Nat, NEW ver \in Nat, NEW why \in Reasons,
         TakesEffect(op, on, ver, why)
  PROVE  CallsBehind' /\ done' \subseteq Calls /\ again' \subseteq done'
  <1>1. op \in RecordCalls \cup EndCalls /\ op \notin RoundCalls /\ op \notin OfferCalls
    BY DEF EndCalls, RoundCalls, OfferCalls, OfferStatuses
  <1> QED
    BY <1>1, CallMade

\* The application is where the accepted offer brought it, and the history names the offer.
LEMMA NowAccepted ==
  ASSUME NEW stage \in {"offer_accepted", "admitted"}, app' = Passed(stage),
         ivs' # <<>>, Latest(ivs').decision = "proceed_offer",
         \E o \in Current' : offers'[o].status = "accepted",
         RoundsInOrder', LatestOfferOnly',
         NamesAccepted("offer_accepted")',
         stage = "admitted" => NamesAccepted("application_admitted")'
  PROVE  Meaning'
  <1>1. app'.life = "active" /\ app'.stage = stage /\ app'.decision = "passed" /\ app'.outcome = "none"
    BY DEF Passed, State
  <1>2. StateAllowed' /\ EndBacked' /\ MilestonesBacked'
    BY <1>1 DEF StateAllowed, EndBacked, MilestonesBacked, HasOffer, Stage9
  <1>3. RecordsFit'
    BY <1>1 DEF RecordsFit, Screened, Interviewed, Offered, HasOffer, ScreeningStages
  <1> QED
    BY <1>2, <1>3 DEF Meaning

\* What holds of the records from the acceptance on.
LEMMA AcceptedStage ==
  ASSUME IInv, app.life # "voided", HasOffer
  PROVE  /\ TypeOK /\ ivs # <<>> /\ Latest(ivs).decision = "proceed_offer"
         /\ \E o \in Current : offers[o].status = "accepted"
         /\ NamesAccepted("offer_accepted")
         /\ app.stage \in {"admitted", "hired"} => NamesAccepted("application_admitted")
  BY DEF IInv, Meaning, RecordsFit, MilestonesBacked, HasOffer, Offered

LEMMA AdmissionKeeps ==
  ASSUME IInv, NEW why \in Reasons, ConfirmAdmission(why)
  PROVE  IInv'
  <1>1. PICK o \in Current :
          /\ offers[o].status = "accepted" /\ app = Passed("offer_accepted")
          /\ Move(Passed("admitted"), "application_admitted", 0, o)
          /\ TakesEffect("admit", o, offers[o].version, why)
          /\ UNCHANGED <<ivs, offers, twin>>
    BY DEF ConfirmAdmission, ConfirmMilestone
  <1>2. app.life = "active" /\ HasOffer
    BY <1>1 DEF Passed, State, HasOffer
  <1>3. /\ TypeOK /\ ivs # <<>> /\ Latest(ivs).decision = "proceed_offer"
        /\ NamesAccepted("offer_accepted")
    BY <1>2, AcceptedStage
  <1>4. /\ RowsTyped' /\ RowsTyped /\ VersionsGrow /\ RoundsInOrder' /\ LatestOfferOnly'
        /\ Current' = Current /\ Len(ivs') = Len(ivs) /\ Len(offers') = Len(offers)
    BY <1>1, RecordsKept
  <1>5. /\ o \in DOMAIN offers /\ o \in Nat /\ offers[o].version \in Nat /\ o \in 0..MaxRecords
        /\ 0 \in 0..MaxRounds
    BY <1>3, <1>4, BoundsOK, Rows, VersionsAreNumbers DEF Current, TypeOK
  <1>6. "active" \in Lives /\ "admitted" \in Stages /\ "passed" \in HrDecisions /\ "none" \in Outcomes \cup {"none"}
    BY DEF Lives, Stages, Stage9, HrDecisions
  <1>7. /\ app' \in AppType /\ app' = Passed("admitted") /\ support' \in [Kinds -> History]
        /\ support'["application_admitted"].offer = o
        /\ support'["offer_accepted"] = support["offer_accepted"]
    <2>1. Move(State("active", "admitted", "passed", "none"), "application_admitted", 0, o)
      BY <1>1 DEF Passed
    <2>2. app' \in AppType /\ support' \in [Kinds -> History]
      BY <1>3, <1>5, <1>6, <2>1, Moved DEF AppType
    <2>3. "application_admitted" \in Kinds /\ "offer_accepted" \in Kinds
      BY DEF Kinds
    <2> QED
      BY <2>1, <2>2, <2>3 DEF Move, Passed, State
  <1>8. NamesAccepted("application_admitted")' /\ NamesAccepted("offer_accepted")'
    BY <1>1, <1>3, <1>5, <1>7 DEF NamesAccepted
  <1>9. Meaning'
    BY <1>1, <1>3, <1>4, <1>7, <1>8, NowAccepted
  <1>10. CallsBehind' /\ done' \subseteq Calls /\ again' \subseteq done'
    BY <1>1, <1>4, <1>5, EndCallMade DEF EndCalls
  <1> QED
    BY <1>1, <1>2, <1>4, <1>7, <1>9, <1>10, Assembled

LEMMA HireKeeps ==
  ASSUME IInv, NEW why \in Reasons, ConfirmHire(why)
  PROVE  IInv'
  <1>1. PICK o \in Current :
          /\ offers[o].status = "accepted" /\ app = Passed("admitted")
          /\ Move(Ended("hired", "hired"), "none", 0, o)
          /\ TakesEffect("hire", o, offers[o].version, why)
          /\ UNCHANGED <<ivs, offers, twin>>
    BY DEF ConfirmHire, ConfirmMilestone
  <1>2. app.life = "active" /\ app.stage = "admitted" /\ HasOffer
    BY <1>1 DEF Passed, State, HasOffer
  <1>3. /\ TypeOK /\ ivs # <<>> /\ Latest(ivs).decision = "proceed_offer"
        /\ NamesAccepted("offer_accepted") /\ NamesAccepted("application_admitted")
    BY <1>2, AcceptedStage
  <1>4. /\ RowsTyped' /\ RowsTyped /\ VersionsGrow /\ RoundsInOrder' /\ LatestOfferOnly'
        /\ Current' = Current /\ Len(ivs') = Len(ivs) /\ Len(offers') = Len(offers)
    BY <1>1, RecordsKept
  <1>5. /\ o \in DOMAIN offers /\ o \in Nat \ {0} /\ offers[o].version \in Nat /\ o \in 0..MaxRecords
        /\ o \in 0..Len(offers) /\ 0 \in 0..MaxRounds /\ Len(ivs) \in Nat
    BY <1>3, <1>4, BoundsOK, Rows, VersionsAreNumbers DEF Current, TypeOK
  <1>6. "ended" \in Lives /\ "hired" \in Stages /\ "passed" \in HrDecisions /\ "hired" \in Outcomes \cup {"none"}
    BY DEF Lives, Stages, HrDecisions, Outcomes
  <1>7. /\ app' \in AppType /\ app' = Ended("hired", "hired")
        /\ app'.life = "ended" /\ app'.stage = "hired" /\ app'.outcome = "hired"
        /\ support' \in [Kinds -> History]
        /\ support'["end"] = [life |-> "active", stage |-> "admitted", outcome |-> "hired", iv |-> 0, offer |-> o]
        /\ support'["offer_accepted"] = support["offer_accepted"]
        /\ support'["application_admitted"] = support["application_admitted"]
    <2>1. Move(State("ended", "hired", "passed", "hired"), "none", 0, o)
      BY <1>1 DEF Ended
    <2>2. app' \in AppType /\ support' \in [Kinds -> History]
      BY <1>3, <1>5, <1>6, <2>1, Moved DEF AppType
    <2>3. "application_admitted" \in Kinds /\ "offer_accepted" \in Kinds /\ "end" \in Kinds
      BY DEF Kinds
    <2> QED
      BY <1>2, <2>1, <2>2, <2>3 DEF Move, Ended, State
  <1>8. StateAllowed'
    BY <1>7 DEF StateAllowed
  <1>9. RecordsFit'
    BY <1>1, <1>3, <1>4, <1>7 DEF RecordsFit, Screened, Interviewed, Offered, HasOffer, ScreeningStages
  <1>10. EndBacked'
    BY <1>1, <1>5, <1>7 DEF EndBacked, OfferOutcome, Withdrawals
  <1>11. MilestonesBacked'
    BY <1>1, <1>3, <1>7 DEF MilestonesBacked, NamesAccepted
  <1>12. Meaning'
    BY <1>4, <1>8, <1>9, <1>10, <1>11 DEF Meaning
  <1>13. CallsBehind' /\ done' \subseteq Calls /\ again' \subseteq done'
    BY <1>1, <1>4, <1>5, EndCallMade DEF EndCalls
  <1> QED
    BY <1>1, <1>2, <1>4, <1>7, <1>12, <1>13, Assembled

LEMMA EndKeeps ==
  ASSUME IInv, NEW why \in Reasons, NEW outcome \in Withdrawals, EndApplication(outcome, why)
  PROVE  IInv'
  <1> DEFINE offer == IF Current = {} THEN 0 ELSE CHOOSE o \in Current : TRUE
             iv == IF app.stage = "interview" THEN Len(ivs) ELSE 0
             ver == CASE offer # 0 -> offers[offer].version
                      [] offer = 0 /\ iv # 0 -> ivs[iv].version
                      [] OTHER -> 0
  <1>1. /\ app.life = "active" /\ app.decision = "passed" /\ app.stage \in Stage9
        /\ Move(Ended(app.stage, outcome), "none", iv, offer) /\ TakesEffect(outcome, 0, ver, why)
        /\ UNCHANGED <<ivs, offers, twin>> /\ TypeOK
    BY DEF EndApplication, IsActive, IInv
  <1>2. /\ RowsTyped' /\ RowsTyped /\ VersionsGrow /\ RoundsInOrder' /\ LatestOfferOnly'
        /\ Current' = Current /\ Len(ivs') = Len(ivs) /\ Len(offers') = Len(offers)
    BY <1>1, RecordsKept
  <1>3. Len(ivs) \in Nat /\ Len(offers) \in Nat /\ DOMAIN ivs = 1..Len(ivs) /\ DOMAIN offers = 1..Len(offers)
    BY <1>1, Rows
  <1>4. offer = 0 \/ offer \in DOMAIN offers
    BY DEF Current
  <1>5. iv \in 0..Len(ivs) /\ offer \in 0..Len(offers) /\ iv \in 0..MaxRounds /\ offer \in 0..MaxRecords
    <2> HIDE DEF offer
    <2> QED BY <1>1, <1>3, <1>4, BoundsOK DEF TypeOK
  <1>6. ver \in Nat
    <2> HIDE DEF offer, iv
    <2> QED BY <1>2, <1>3, <1>4, <1>5, VersionsAreNumbers
  <1> HIDE DEF offer, iv, ver
  <1>7. /\ "ended" \in Lives /\ "passed" \in HrDecisions /\ outcome \in Outcomes \cup {"none"}
        /\ app.stage \in Stages
    BY <1>1 DEF Lives, HrDecisions, Withdrawals, Outcomes, Stages
  <1>8. /\ app' \in AppType /\ app' = Ended(app.stage, outcome)
        /\ app'.life = "ended" /\ app'.stage = app.stage /\ app'.outcome = outcome
        /\ support' \in [Kinds -> History]
        /\ support'["end"] = [life |-> "active", stage |-> app.stage, outcome |-> outcome,
                              iv |-> iv, offer |-> offer]
        /\ \A k \in Kinds \ {"end"} : k # "none" => support'[k] = support[k]
    <2>1. PICK stage \in Stages : stage = app.stage
      BY <1>7
    <2>2. Move(State("ended", stage, "passed", outcome), "none", iv, offer)
      BY <1>1, <2>1 DEF Ended
    <2>3. app' \in AppType /\ support' \in [Kinds -> History]
      BY <1>1, <1>5, <1>7, <2>2, Moved DEF AppType
    <2>4. "end" \in Kinds
      BY DEF Kinds
    <2> QED
      BY <1>1, <2>1, <2>2, <2>3, <2>4 DEF Move, Ended, State
  <1>9. StateAllowed'
    BY <1>1, <1>8 DEF StateAllowed
  <1>10. RecordsFit'
    <2>1. outcome \notin {"screening_rejected", "interview_rejected", "interview_no_show"}
      BY DEF Withdrawals
    <2>2. app.outcome = "none"
      BY <1>1 DEF IInv, Meaning, StateAllowed, Passed, State
    <2>3. app.stage = "interview" => Open(Latest(ivs))
      BY <1>1, <2>2 DEF IInv, Meaning, RecordsFit, Interviewed, LatestFits
    <2> QED
      BY <1>1, <1>2, <1>8, <2>1, <2>2, <2>3
         DEF IInv, Meaning, RecordsFit, Screened, Interviewed, Offered, HasOffer, LatestFits
  <1>11. EndBacked'
    BY <1>1, <1>5, <1>8 DEF EndBacked, OfferOutcome, Withdrawals
  <1>12. MilestonesBacked'
    <2>1. {"offer_accepted", "application_admitted"} \subseteq Kinds \ {"end"}
      BY DEF Kinds
    <2>2. \A k \in {"offer_accepted", "application_admitted"} : NamesAccepted(k) => NamesAccepted(k)'
      BY <1>1, <1>8, <2>1 DEF NamesAccepted
    <2> QED
      BY <1>1, <1>8, <2>2 DEF IInv, Meaning, MilestonesBacked, HasOffer
  <1>13. Meaning'
    BY <1>2, <1>9, <1>10, <1>11, <1>12 DEF Meaning
  <1>14. outcome \in EndCalls /\ 0 \in Nat
    BY DEF EndCalls, Withdrawals
  <1>15. CallsBehind' /\ done' \subseteq Calls /\ again' \subseteq done'
    BY <1>1, <1>2, <1>6, <1>14, EndCallMade
  <1> QED
    BY <1>1, <1>2, <1>8, <1>13, <1>15, Assembled

-----------------------------------------------------------------------------
(* The controlled reopening *)

\* What every way of reopening leaves behind.
Reopened ==
  /\ Meaning' /\ RowsTyped' /\ VersionsGrow
  /\ Len(ivs') = Len(ivs) /\ Len(offers') = Len(offers)
  /\ app' \in AppType /\ support' \in [Kinds -> History]

LEMMA MovedBack ==
  ASSUME TypeOK, NEW stage \in Stage9, NEW iv \in 0..MaxRounds, NEW offer \in 0..MaxRecords,
         Move(Passed(stage), "none", iv, offer)
  PROVE  /\ app' \in AppType /\ app' = Passed(stage) /\ support' \in [Kinds -> History]
         /\ support'["offer_accepted"] = support["offer_accepted"]
         /\ support'["application_admitted"] = support["application_admitted"]
  <1>1. Move(State("active", stage, "passed", "none"), "none", iv, offer)
    BY DEF Passed
  <1>2. "active" \in Lives /\ stage \in Stages /\ "passed" \in HrDecisions /\ "none" \in Outcomes \cup {"none"}
    BY DEF Lives, Stages, HrDecisions
  <1>3. app' \in AppType /\ support' \in [Kinds -> History]
    BY <1>1, <1>2, Moved DEF AppType
  <1>4. "application_admitted" \in Kinds /\ "offer_accepted" \in Kinds
    BY DEF Kinds
  <1> QED
    BY <1>1, <1>3, <1>4 DEF Move, Passed, State

LEMMA SupportingEnd ==
  ASSUME app.life = "ended", support["end"].outcome = app.outcome
  PROVE  Supporting = support["end"]
  BY DEF Supporting, Passed, State

LEMMA AcceptanceReopened ==
  ASSUME IInv, NEW ver \in 0..MaxVersion, AcceptanceReopens(ver), UNCHANGED ivs,
         WriteOffer(Supporting.offer, "sent", offers[Supporting.offer].past),
         Move(Passed("offer"), "none", 0, Supporting.offer)
  PROVE  Reopened
  <1>1. /\ app = Passed("offer_accepted") /\ app.life = "active" /\ HasOffer
        /\ Supporting = support["offer_accepted"]
    BY DEF AcceptanceReopens, Passed, State, HasOffer, Supporting
  <1>2. /\ TypeOK /\ ivs # <<>> /\ Latest(ivs).decision = "proceed_offer" /\ NamesAccepted("offer_accepted")
    BY <1>1, AcceptedStage
  <1>3. PICK o \in DOMAIN offers : o = Supporting.offer /\ offers[o].status = "accepted"
    BY <1>1, <1>2 DEF NamesAccepted
  <1>4. /\ offers[o].status \in ActiveOffers /\ "sent" \in OfferStatuses
        /\ WriteOffer(o, "sent", offers[o].past)
    BY <1>3 DEF ActiveOffers, OfferStatuses
  <1>5. /\ RowsTyped' /\ VersionsGrow /\ RoundsInOrder' /\ LatestOfferOnly'
        /\ Len(offers') = Len(offers) /\ offers'[o].status = "sent"
        /\ \A p \in Current' : p = o
        /\ o \in 0..MaxRecords
    BY <1>4, OfferInHand
  <1>6. app' \in AppType /\ app' = Passed("offer") /\ support' \in [Kinds -> History]
    BY <1>2, <1>3, <1>5, BoundsOK, MovedBack DEF Stage9
  <1>7. Meaning'
    BY <1>2, <1>5, <1>6, NowAtOffer
  <1> QED
    BY <1>5, <1>6, <1>7 DEF Reopened

LEMMA AdmissionReopened ==
  ASSUME IInv, NEW ver \in 0..MaxVersion, AdmissionReopens(ver), UNCHANGED <<ivs, offers>>,
         Move(Passed("offer_accepted"), "none", 0, Supporting.offer)
  PROVE  Reopened
  <1>1. /\ app = Passed("admitted") /\ app.life = "active" /\ HasOffer /\ app.stage = "admitted"
        /\ Supporting = support["application_admitted"]
    BY DEF AdmissionReopens, Passed, State, HasOffer, Supporting
  <1>2. /\ TypeOK /\ ivs # <<>> /\ Latest(ivs).decision = "proceed_offer"
        /\ \E o \in Current : offers[o].status = "accepted"
        /\ NamesAccepted("offer_accepted") /\ NamesAccepted("application_admitted")
    BY <1>1, AcceptedStage
  <1>3. /\ RowsTyped' /\ RowsTyped /\ VersionsGrow /\ RoundsInOrder' /\ LatestOfferOnly'
        /\ Current' = Current /\ Len(ivs') = Len(ivs) /\ Len(offers') = Len(offers)
    BY RecordsKept
  <1>4. Supporting.offer \in 0..MaxRecords /\ 0 \in 0..MaxRounds
    BY <1>1, <1>2, BoundsOK DEF TypeOK, History, Kinds
  <1>5. /\ app' \in AppType /\ app' = Passed("offer_accepted") /\ support' \in [Kinds -> History]
        /\ support'["offer_accepted"] = support["offer_accepted"]
    BY <1>2, <1>4, MovedBack DEF Stage9
  <1>6. NamesAccepted("offer_accepted")'
    BY <1>2, <1>5 DEF NamesAccepted
  <1>7. Meaning'
    BY <1>2, <1>3, <1>5, <1>6, NowAccepted
  <1> QED
    BY <1>3, <1>5, <1>7 DEF Reopened

LEMMA HireReopened ==
  ASSUME IInv, NEW ver \in 0..MaxVersion, HireReopens(ver), UNCHANGED <<ivs, offers>>,
         Move(Passed("admitted"), "none", 0, Supporting.offer)
  PROVE  Reopened
  <1>1. /\ app = Ended("hired", "hired") /\ app.life = "ended" /\ HasOffer /\ app.stage = "hired"
        /\ app.decision = "passed"
    BY DEF HireReopens, Ended, State, HasOffer
  <1>2. /\ TypeOK /\ ivs # <<>> /\ Latest(ivs).decision = "proceed_offer"
        /\ \E o \in Current : offers[o].status = "accepted"
        /\ NamesAccepted("offer_accepted") /\ NamesAccepted("application_admitted")
    BY <1>1, AcceptedStage
  <1>3. /\ RowsTyped' /\ RowsTyped /\ VersionsGrow /\ RoundsInOrder' /\ LatestOfferOnly'
        /\ Current' = Current /\ Len(ivs') = Len(ivs) /\ Len(offers') = Len(offers)
    BY RecordsKept
  <1>4. Supporting = support["end"]
    BY <1>1, SupportingEnd DEF IInv, Meaning, EndBacked
  <1>5. Supporting.offer \in 0..MaxRecords /\ 0 \in 0..MaxRounds
    BY <1>2, <1>4, BoundsOK DEF TypeOK, History, Kinds
  <1>6. /\ app' \in AppType /\ app' = Passed("admitted") /\ support' \in [Kinds -> History]
        /\ support'["offer_accepted"] = support["offer_accepted"]
        /\ support'["application_admitted"] = support["application_admitted"]
    BY <1>2, <1>5, MovedBack DEF Stage9
  <1>7. NamesAccepted("offer_accepted")' /\ NamesAccepted("application_admitted")'
    BY <1>2, <1>6 DEF NamesAccepted
  <1>8. Meaning'
    BY <1>2, <1>3, <1>6, <1>7, NowAccepted
  <1> QED
    BY <1>3, <1>6, <1>8 DEF Reopened

LEMMA OfferEndReopened ==
  ASSUME IInv, NEW ver \in 0..MaxVersion, OfferEndReopens(ver), UNCHANGED <<ivs, offers>>,
         Move(Passed("offer"), "none", 0, Supporting.offer)
  PROVE  Reopened
  <1>1. PICK s \in DOMAIN OfferOutcome : app.life = "ended" /\ app.outcome = OfferOutcome[s]
    BY DEF OfferEndReopens
  <1>2. app.stage = "offer" /\ app.decision = "passed"
    BY <1>1 DEF IInv, Meaning, StateAllowed, Ended, State, OfferOutcome, Withdrawals
  <1>3. /\ TypeOK /\ ivs # <<>> /\ Latest(ivs).decision = "proceed_offer"
        /\ \A o \in Current : offers[o].status # "accepted"
    BY <1>1, <1>2 DEF IInv, Meaning, RecordsFit, Offered
  <1>4. /\ RowsTyped' /\ RowsTyped /\ VersionsGrow /\ RoundsInOrder' /\ LatestOfferOnly'
        /\ Current' = Current /\ Len(ivs') = Len(ivs) /\ Len(offers') = Len(offers)
    BY RecordsKept
  <1>5. Supporting = support["end"]
    BY <1>1, <1>2, SupportingEnd DEF IInv, Meaning, EndBacked
  <1>6. Supporting.offer \in 0..MaxRecords /\ 0 \in 0..MaxRounds
    BY <1>3, <1>5, BoundsOK DEF TypeOK, History, Kinds
  <1>7. app' \in AppType /\ app' = Passed("offer") /\ support' \in [Kinds -> History]
    BY <1>3, <1>6, MovedBack DEF Stage9
  <1>8. Meaning'
    BY <1>3, <1>4, <1>7, NowAtOffer
  <1> QED
    BY <1>4, <1>7, <1>8 DEF Reopened

\* The round behind the end is the latest one, and takes its decision back.
LEMMA RoundOpenAgain ==
  ASSUME IInv, ivs # <<>>, offers = <<>>, UNCHANGED offers, Supporting.iv = Len(ivs), RoundReopened
  PROVE  /\ RowsTyped' /\ VersionsGrow /\ RoundsInOrder' /\ LatestOfferOnly'
         /\ Len(ivs') = Len(ivs) /\ ivs' # <<>> /\ Open(Latest(ivs'))
         /\ \A i \in DOMAIN ivs : i # Len(ivs) => ivs'[i] = ivs[i]
  <1>1. TypeOK /\ Len(ivs) \in DOMAIN ivs
    BY Rows DEF IInv
  <1>2. "completed" \in RoundStatuses /\ "pending" \in FeedbackDecisions
    BY DEF RoundStatuses, FeedbackDecisions
  <1>3. PICK i \in DOMAIN ivs : i = Len(ivs) /\ WriteRound(i, "completed", "pending")
    BY <1>1 DEF RoundReopened
  <1>4. /\ RowsTyped' /\ VersionsGrow /\ RoundsInOrder' /\ LatestOfferOnly'
        /\ Len(ivs') = Len(ivs) /\ ivs' # <<>> /\ Latest(ivs').decision = "pending"
    BY <1>2, <1>3, LatestRoundWritten
  <1>5. \A j \in DOMAIN ivs : j # i => ivs'[j] = ivs[j]
    BY <1>1, <1>2, <1>3, RoundWritten
  <1> QED
    BY <1>3, <1>4, <1>5 DEF Open

LEMMA RejectionReopened ==
  ASSUME IInv, NEW ver \in 0..MaxVersion, RejectionReopens(ver), UNCHANGED offers, RoundReopened,
         Move(Passed("interview"), "none", Supporting.iv, 0)
  PROVE  Reopened
  <1>1. app.life = "ended" /\ app.outcome = "interview_rejected" /\ TypeOK
    BY DEF RejectionReopens, IInv
  <1>2. app.decision = "passed"
    BY <1>1 DEF IInv, Meaning, StateAllowed, Ended, State
  <1>3. ivs # <<>> /\ offers = <<>>
    BY <1>1 DEF IInv, Meaning, RecordsFit, Interviewed
  <1>4. Supporting = support["end"] /\ Supporting.iv = Len(ivs)
    BY <1>1, <1>2, SupportingEnd DEF IInv, Meaning, EndBacked
  <1>5. /\ RowsTyped' /\ VersionsGrow /\ RoundsInOrder' /\ LatestOfferOnly'
        /\ Len(ivs') = Len(ivs) /\ ivs' # <<>> /\ Open(Latest(ivs'))
    BY <1>3, <1>4, RoundOpenAgain
  <1>6. Supporting.iv \in 0..MaxRounds /\ 0 \in 0..MaxRecords
    BY <1>1, <1>4, BoundsOK DEF TypeOK, History, Kinds
  <1>7. app' \in AppType /\ app' = Passed("interview") /\ support' \in [Kinds -> History]
    BY <1>1, <1>6, MovedBack DEF Stage9
  <1>8. Meaning'
    BY <1>3, <1>5, <1>7, NowAtInterview
  <1> QED
    BY <1>5, <1>7, <1>8 DEF Reopened

LEMMA NoShowReopened ==
  ASSUME IInv, NEW ver \in 0..MaxVersion, NoShowReopens(ver), UNCHANGED <<ivs, offers>>,
         Move(Passed("interview"), "none", Supporting.iv, 0)
  PROVE  Reopened
  <1>1. app.life = "ended" /\ app.outcome = "interview_no_show" /\ TypeOK
    BY DEF NoShowReopens, IInv
  <1>2. app.decision = "passed"
    BY <1>1 DEF IInv, Meaning, StateAllowed, Ended, State
  <1>3. ivs # <<>> /\ offers = <<>> /\ Open(Latest(ivs))
    BY <1>1 DEF IInv, Meaning, RecordsFit, Interviewed, LatestFits
  <1>4. Supporting = support["end"]
    BY <1>1, <1>2, SupportingEnd DEF IInv, Meaning, EndBacked
  <1>5. /\ RowsTyped' /\ RowsTyped /\ VersionsGrow /\ RoundsInOrder' /\ LatestOfferOnly'
        /\ Len(ivs') = Len(ivs) /\ Len(offers') = Len(offers)
    BY RecordsKept
  <1>6. Supporting.iv \in 0..MaxRounds /\ 0 \in 0..MaxRecords
    BY <1>1, <1>4, BoundsOK DEF TypeOK, History, Kinds
  <1>7. app' \in AppType /\ app' = Passed("interview") /\ support' \in [Kinds -> History]
    BY <1>1, <1>6, MovedBack DEF Stage9
  <1>8. Meaning'
    BY <1>3, <1>5, <1>7, NowAtInterview
  <1> QED
    BY <1>5, <1>7, <1>8 DEF Reopened

\* The end at any stage of an application HR had passed: it goes back to that stage.
LEMMA EndReopened ==
  ASSUME IInv, NEW ver \in 0..MaxVersion, EndReopens(ver), UNCHANGED offers,
         Move(Passed(Supporting.stage), "none", Supporting.iv, Supporting.offer),
         IF /\ app.outcome = "candidate_withdrew" /\ Supporting.offer = 0 /\ Supporting.iv # 0
            /\ ivs[Supporting.iv].decision = "candidate_withdrew"
         THEN RoundReopened ELSE UNCHANGED ivs
  PROVE  Reopened
  <1>1. app.life = "ended" /\ app.outcome \in Withdrawals /\ TypeOK
    BY DEF EndReopens, IInv, Withdrawals
  <1>2. PICK stage \in Stage9 : app = Ended(stage, app.outcome)
    BY <1>1 DEF IInv, Meaning, StateAllowed, Withdrawals, OfferOutcome, Ended, State
  <1>3. /\ app.stage = stage /\ app.decision = "passed"
        /\ app.outcome \notin {"none", "screening_rejected", "interview_rejected", "interview_no_show", "hired"}
    BY <1>1, <1>2 DEF Ended, State, Withdrawals
  <1>4. /\ Supporting = support["end"] /\ Supporting.stage = stage
        /\ Supporting.iv \in 0..Len(ivs) /\ Supporting.offer \in 0..Len(offers)
    BY <1>1, <1>3, SupportingEnd DEF IInv, Meaning, EndBacked
  <1>5. Supporting.iv \in 0..MaxRounds /\ Supporting.offer \in 0..MaxRecords
    BY <1>1, <1>4, BoundsOK DEF TypeOK, History, Kinds
  <1>6. /\ app' \in AppType /\ app' = Passed(stage) /\ support' \in [Kinds -> History]
        /\ support'["offer_accepted"] = support["offer_accepted"]
        /\ support'["application_admitted"] = support["application_admitted"]
    BY <1>1, <1>4, <1>5, MovedBack
  <1>7. /\ app'.life = "active" /\ app'.stage = stage /\ app'.decision = "passed" /\ app'.outcome = "none"
    BY <1>6 DEF Passed, State
  <1>8. Len(ivs) \in Nat /\ DOMAIN ivs = 1..Len(ivs) /\ (ivs # <<>> <=> Len(ivs) # 0)
    BY <1>1, Rows
  <1> DEFINE ByFeedback ==
        /\ app.outcome = "candidate_withdrew" /\ Supporting.offer = 0 /\ Supporting.iv # 0
        /\ ivs[Supporting.iv].decision = "candidate_withdrew"
  <1>9. CASE ByFeedback /\ RoundReopened
    <2>1. Supporting.iv \in DOMAIN ivs /\ ivs # <<>>
      BY <1>4, <1>8, <1>9
    <2>2. Supporting.iv = Len(ivs)
      BY <1>8, <1>9, <2>1 DEF IInv, Meaning, RoundsInOrder, AllowsNextRound
    <2>3. Latest(ivs).decision = "candidate_withdrew"
      BY <1>9, <2>2 DEF Latest
    <2>4. stage = "interview" /\ offers = <<>>
      BY <1>1, <1>2, <1>3, <2>1, <2>3
         DEF IInv, Meaning, RecordsFit, Screened, Interviewed, Offered, Stage9, ScreeningStages
    <2>5. /\ RowsTyped' /\ VersionsGrow /\ RoundsInOrder' /\ LatestOfferOnly'
          /\ Len(ivs') = Len(ivs) /\ ivs' # <<>> /\ Open(Latest(ivs'))
      BY <1>9, <2>1, <2>2, <2>4, RoundOpenAgain
    <2>6. Meaning'
      BY <1>6, <2>4, <2>5, NowAtInterview
    <2> QED
      BY <1>6, <2>5, <2>6 DEF Reopened
  <1>10. CASE ~ByFeedback /\ UNCHANGED ivs
    <2>1. /\ RowsTyped' /\ RowsTyped /\ VersionsGrow /\ RoundsInOrder' /\ LatestOfferOnly'
          /\ Current' = Current /\ Len(ivs') = Len(ivs) /\ Len(offers') = Len(offers)
      BY <1>10, RecordsKept
    <2>2. CASE stage = "screening_passed"
      <3>1. ivs = <<>> /\ offers = <<>>
        BY <1>1, <1>3, <2>2 DEF IInv, Meaning, RecordsFit, Screened, ScreeningStages
      <3>2. StateAllowed' /\ RecordsFit' /\ EndBacked' /\ MilestonesBacked'
        BY <1>6, <1>7, <1>10, <2>2, <3>1
           DEF StateAllowed, RecordsFit, EndBacked, MilestonesBacked, Screened, Interviewed, Offered, HasOffer
      <3> QED
        BY <1>6, <2>1, <3>2 DEF Reopened, Meaning
    <2>3. CASE stage = "interview"
      <3>1. ivs # <<>> /\ offers = <<>> /\ LatestFits
        BY <1>1, <1>3, <2>3 DEF IInv, Meaning, RecordsFit, Interviewed
      <3>2. Open(Latest(ivs))
        <4>1. /\ Len(ivs) # 0 /\ ivs[Len(ivs)] = Latest(ivs)
              /\ ~(/\ Latest(ivs).decision = "candidate_withdrew" /\ app.outcome = "candidate_withdrew"
                   /\ support["end"].iv = Len(ivs) /\ support["end"].offer = 0)
          BY <1>4, <1>8, <1>10, <3>1 DEF Latest
        <4> QED
          BY <1>3, <3>1, <4>1 DEF LatestFits
      <3>3. Meaning'
        BY <1>6, <1>10, <2>1, <2>3, <3>1, <3>2, NowAtInterview
      <3> QED
        BY <1>6, <2>1, <3>3 DEF Reopened
    <2>4. CASE stage = "offer"
      <3>1. /\ ivs # <<>> /\ Latest(ivs).decision = "proceed_offer"
            /\ \A o \in Current : offers[o].status # "accepted"
        BY <1>1, <1>3, <2>4 DEF IInv, Meaning, RecordsFit, Offered
      <3>2. Meaning'
        BY <1>6, <1>10, <2>1, <2>4, <3>1, NowAtOffer
      <3> QED
        BY <1>6, <2>1, <3>2 DEF Reopened
    <2>5. CASE stage \in {"offer_accepted", "admitted"}
      <3>1. HasOffer /\ app.life # "voided"
        BY <1>1, <1>3, <2>5 DEF HasOffer
      <3>2. /\ ivs # <<>> /\ Latest(ivs).decision = "proceed_offer"
            /\ \E o \in Current : offers[o].status = "accepted"
            /\ NamesAccepted("offer_accepted")
            /\ stage = "admitted" => NamesAccepted("application_admitted")
        BY <1>3, <3>1, AcceptedStage
      <3>3. /\ NamesAccepted("offer_accepted")'
            /\ stage = "admitted" => NamesAccepted("application_admitted")'
        BY <1>6, <3>2 DEF NamesAccepted
      <3>4. Meaning'
        BY <1>6, <1>10, <2>1, <2>5, <3>2, <3>3, NowAccepted
      <3> QED
        BY <1>6, <2>1, <3>4 DEF Reopened
    <2> QED
      BY <2>2, <2>3, <2>4, <2>5 DEF Stage9
  <1> QED
    BY <1>9, <1>10

LEMMA ReopenWorks ==
  ASSUME IInv, NEW ver \in 0..MaxVersion, NEW why \in Reasons, ReopenStage9(ver, why)
  PROVE  Reopened
  BY AcceptanceReopened, AdmissionReopened, HireReopened, OfferEndReopened, RejectionReopened,
     NoShowReopened, EndReopened DEF ReopenStage9

LEMMA ReopenKeeps ==
  ASSUME IInv, NEW ver \in 0..MaxVersion, NEW why \in Reasons, ReopenStage9(ver, why)
  PROVE  IInv'
  <1>1. /\ app.life = "ended" => ~twin
        /\ TakesEffect("reopen", 0, ver, why) /\ UNCHANGED twin
    BY DEF ReopenStage9, MayBeActive
  <1>2. Reopened
    BY ReopenWorks
  <1>3. app.life # "voided"
    BY DEF ReopenStage9, AcceptanceReopens, AdmissionReopens, HireReopens, OfferEndReopens,
       RejectionReopens, NoShowReopens, EndReopens, Passed, Ended, State
  <1>4. ver \in Nat /\ 0 \in Nat /\ "reopen" \in EndCalls
    BY BoundsOK DEF EndCalls
  <1>5. CallsBehind' /\ done' \subseteq Calls /\ again' \subseteq done'
    BY <1>1, <1>2, <1>4, EndCallMade DEF Reopened
  <1>6. app.life = "active" \/ ~twin
    BY <1>1, <1>3 DEF IInv, TypeOK, Lives
  <1> QED
    BY <1>1, <1>2, <1>5, <1>6, Assembled DEF Reopened

LEMMA EndStepKeeps ==
  ASSUME IInv, EndStep
  PROVE  IInv'
  BY AdmissionKeeps, HireKeeps, EndKeeps, ReopenKeeps DEF EndStep, Withdrawals

LEMMA TwinKeeps ==
  ASSUME IInv, TwinChanges
  PROVE  IInv'
  <1>1. /\ app' = app /\ support' = support /\ UNCHANGED <<ivs, offers, done, again>>
        /\ twin' = ~twin /\ (~twin => app.life # "active")
    BY DEF TwinChanges, Keep, IsActive
  <1>2. /\ RowsTyped' /\ VersionsGrow /\ Current' = Current /\ RoundsInOrder' /\ LatestOfferOnly'
    BY <1>1, RecordsKept
  <1>3. StateAllowed' /\ RecordsFit' /\ EndBacked' /\ MilestonesBacked'
    BY <1>1, <1>2 DEF IInv, Meaning, StateAllowed, RecordsFit, Screened, Interviewed, Offered, HasOffer, LatestFits,
       EndBacked, MilestonesBacked, NamesAccepted
  <1>4. CallsBehind' /\ done' \subseteq Calls /\ again' \subseteq done'
    BY <1>1, <1>2, NoCall
  <1>5. TypeOK'
    BY <1>1, <1>4 DEF IInv, TypeOK
  <1> QED
    BY <1>1, <1>2, <1>3, <1>4, <1>5 DEF IInv, Meaning, IsActive

-----------------------------------------------------------------------------
(* The invariant *)

LEMMA InitHolds == Init => IInv
  <1> SUFFICES ASSUME Init PROVE IInv
    OBVIOUS
  <1>1. /\ app = State("active", "applied", "pending", "none") /\ ivs = <<>> /\ offers = <<>>
        /\ support = [k \in Kinds |-> NoHistory] /\ twin = FALSE /\ done = {} /\ again = {}
    BY DEF Init
  <1>2. app.life = "active" /\ app.stage = "applied" /\ app.decision = "pending" /\ app.outcome = "none"
    BY <1>1 DEF State
  <1>3. app \in AppType
    BY <1>1 DEF State, AppType, Lives, Stages, ScreeningStages, HrDecisions
  <1>4. NoHistory \in History
    BY BoundsOK DEF NoHistory, History
  <1>5. ivs \in Seq(Round) /\ offers \in Seq(Offer) /\ Len(ivs) = 0 /\ Len(offers) = 0
    BY <1>1, EmptySeq
  <1>6. DOMAIN ivs = {} /\ DOMAIN offers = {} /\ Current = {}
    BY <1>5, LenProperties DEF Current
  <1>7. TypeOK
    <2>1. support \in [Kinds -> History]
      BY <1>1, <1>4
    <2>2. Len(ivs) <= MaxRounds /\ Len(ivs) + Len(offers) <= MaxRecords
      BY <1>5, BoundsOK
    <2>3. twin \in BOOLEAN /\ done \subseteq Calls /\ again \subseteq done
      BY <1>1
    <2> QED
      BY <1>3, <1>5, <2>1, <2>2, <2>3 DEF TypeOK, AppType
  <1>8. StateAllowed /\ RoundsInOrder /\ LatestOfferOnly
    BY <1>1, <1>2, <1>6 DEF StateAllowed, RoundsInOrder, LatestOfferOnly
  <1>9. RecordsFit /\ EndBacked /\ MilestonesBacked
    BY <1>1, <1>2 DEF RecordsFit, EndBacked, MilestonesBacked, Screened, Interviewed, Offered, HasOffer
  <1>10. CallsBehind
    BY <1>1 DEF CallsBehind, RecordCallsOnce
  <1> QED
    BY <1>1, <1>7, <1>8, <1>9, <1>10 DEF IInv, Meaning, IsActive

LEMMA StepKeeps == IInv /\ [Next]_vars => IInv'
  BY Rests, DecisionStepKeeps, InterviewStepKeeps, OfferStepKeeps, EndStepKeeps, TwinKeeps DEF Next

\* Every reachable state of the application and its records meets the invariant.
THEOREM Invariant == Spec => []IInv
  BY InitHolds, StepKeeps, PTL DEF Spec

-----------------------------------------------------------------------------
(* What the invariant says of the tables *)

LEMMA AtMostOne ==
  ASSUME NEW S, NEW x, S \subseteq {x}
  PROVE  Cardinality(S) <= 1
  <1>1. IsFiniteSet({x}) /\ Cardinality({x}) = 1
    BY FS_Singleton
  <1> QED
    BY <1>1, FS_Subset

LEMMA RowsInvariant == IInv => RowConstraints
  <1> SUFFICES ASSUME IInv PROVE RowConstraints
    OBVIOUS
  <1>1. /\ app.life = "ended" <=> app.outcome # "none"
        /\ app.outcome = "screening_rejected" => app.stage = "rejected" /\ app.decision = "rejected"
        /\ app.stage = "hired" <=> app.outcome = "hired"
        /\ app.stage = "hired" => app = Ended("hired", "hired") /\ app.decision = "passed"
    <2>1. CASE app.life = "active"
      BY <2>1 DEF IInv, Meaning, StateAllowed, Passed, State, Stage9
    <2>2. CASE app.life = "ended"
      BY <2>2 DEF IInv, Meaning, StateAllowed, Ended, State, Stage9, OfferOutcome, Withdrawals
    <2>3. CASE app.life = "voided"
      BY <2>3 DEF IInv, Meaning, StateAllowed
    <2> QED
      BY <2>1, <2>2, <2>3 DEF IInv, TypeOK, Lives
  <1>2. Cardinality({i \in DOMAIN ivs : ivs[i].status = "scheduled"}) <= 1
    <2>1. {i \in DOMAIN ivs : ivs[i].status = "scheduled"} \subseteq {Len(ivs)}
      BY Rows DEF IInv, Meaning, RoundsInOrder, AllowsNextRound
    <2> QED
      BY <2>1, AtMostOne
  <1>3. Cardinality(Current) <= 1
    <2>1. Current \subseteq {Len(offers)}
      BY DEF IInv, Meaning, LatestOfferOnly
    <2> QED
      BY <2>1, AtMostOne
  <1>4. RowAccepted(app) /\ (RowAccepted(Voided) \/ app = Ended("hired", "hired"))
    BY <1>1 DEF RowAccepted, Voided, State
  <1> QED
    BY <1>1, <1>2, <1>3, <1>4 DEF IInv, Meaning, RoundsInOrder, RowConstraints

LEMMA StagesInvariant == IInv => StageBacked
  <1> SUFFICES ASSUME IInv, app.life # "voided" PROVE StageBacked
    BY DEF StageBacked
  <1>1. app.stage \in ScreeningStages => ivs = <<>> /\ offers = <<>>
    BY DEF IInv, Meaning, RecordsFit, Screened
  <1>2. ASSUME AtInterview
        PROVE  /\ ivs # <<>> /\ offers = <<>>
               /\ \A i \in DOMAIN ivs : ivs[i].decision \in {"pending", "next_round"}
    <2>1. ivs # <<>> /\ offers = <<>> /\ Open(Latest(ivs))
      BY <1>2 DEF IInv, Meaning, RecordsFit, Interviewed, LatestFits, AtInterview, Passed, State
    <2>2. ASSUME NEW i \in DOMAIN ivs PROVE ivs[i].decision \in {"pending", "next_round"}
      BY <2>1, Rows DEF IInv, Meaning, RoundsInOrder, AllowsNextRound, Open, Latest
    <2> QED
      BY <2>1, <2>2
  <1>3. /\ app.stage \in {"offer", "offer_accepted", "admitted", "hired"} =>
             Latest(ivs).decision = "proceed_offer"
        /\ app.stage = "offer" => \A o \in Current : offers[o].status # "accepted"
        /\ app.stage \in {"offer_accepted", "admitted", "hired"} =>
             \E o \in Current : offers[o].status = "accepted"
    BY DEF IInv, Meaning, RecordsFit, Offered, HasOffer
  <1> QED
    BY <1>1, <1>2, <1>3 DEF StageBacked

\* There is always a version with which the reopening finds what it needs.
LEMMA ReopenInvariant == IInv => ReopenSupported
  <1> SUFFICES ASSUME IInv, ReopenShown PROVE \E ver \in 0..MaxVersion : Reopens(ver)
    BY DEF ReopenSupported
  <1>1. TypeOK /\ MaxVersion \in Nat
    BY BoundsOK DEF IInv
  <1>2. /\ \A i \in DOMAIN ivs : ivs[i].version \in 0..MaxVersion
        /\ \A o \in DOMAIN offers : offers[o].version \in 0..MaxVersion
    BY <1>1, Rows DEF Round, Offer
  <1>3. ASSUME NEW kind,
               \/ app = Passed("offer_accepted") /\ kind = "offer_accepted"
               \/ app = Passed("admitted") /\ kind = "application_admitted"
        PROVE  \E ver \in 0..MaxVersion : Reopens(ver)
    <2>1. app.life = "active" /\ HasOffer /\ (app = Passed("admitted") => app.stage = "admitted")
      BY <1>3 DEF Passed, State, HasOffer
    <2>2. NamesAccepted(kind)
      BY <1>3, <2>1, AcceptedStage
    <2>3. Supporting = support[kind]
      BY <1>3, <2>1 DEF Supporting, Passed, State
    <2>4. PICK o \in DOMAIN offers : o = Supporting.offer /\ offers[o].status = "accepted" /\ o # 0
      BY <1>1, <2>2, <2>3, Rows DEF NamesAccepted
    <2>5. OfferBacks("accepted", offers[o].version)
      BY <2>4 DEF OfferBacks
    <2>6. Reopens(offers[o].version)
      BY <1>3, <2>5 DEF Reopens, AcceptanceReopens, AdmissionReopens
    <2> QED
      BY <1>2, <2>4, <2>6
  <1>4. ASSUME app.life = "ended", app.decision = "passed"
        PROVE  \E ver \in 0..MaxVersion : Reopens(ver)
    <2> DEFINE h == support["end"]
    <2>1. /\ Supporting = h /\ h.life = "active" /\ h.outcome = app.outcome
          /\ h.iv \in 0..Len(ivs) /\ h.offer \in 0..Len(offers)
      BY <1>4, SupportingEnd DEF IInv, Meaning, EndBacked
    <2>2. /\ h.offer # 0 => h.offer \in DOMAIN offers
          /\ h.iv # 0 => h.iv \in DOMAIN ivs
      <3> HIDE DEF h
      <3> QED BY <1>1, <2>1, Rows
    <2>3. ASSUME NEW s, h.offer # 0, offers[h.offer].status = s
          PROVE  offers[h.offer].version \in 0..MaxVersion /\ OfferBacks(s, offers[h.offer].version)
      BY <1>2, <2>1, <2>2, <2>3 DEF OfferBacks
    <2>4. ASSUME h.iv # 0
          PROVE  ivs[h.iv].version \in 0..MaxVersion /\ RoundBacks(ivs[h.iv].version)
      BY <1>2, <2>1, <2>2, <2>4 DEF RoundBacks
    <2>5. CASE app.outcome \in {"interview_rejected", "interview_no_show"}
      <3>1. ivs # <<>> /\ offers = <<>> /\ LatestFits
        BY <1>4, <2>5 DEF IInv, Meaning, RecordsFit, Interviewed
      <3>2. CASE app.outcome = "interview_rejected"
        <4>1. h.iv = Len(ivs) /\ h.iv # 0
          BY <1>1, <1>4, <3>1, <3>2, Rows DEF IInv, Meaning, EndBacked
        <4>2. ivs[h.iv].status = "completed" /\ ivs[h.iv].decision = "rejected"
          BY <3>1, <3>2, <4>1 DEF LatestFits, Latest
        <4>3. RejectionReopens(ivs[h.iv].version)
          BY <1>4, <2>1, <2>4, <3>2, <4>1, <4>2 DEF RejectionReopens
        <4> QED
          BY <2>4, <4>1, <4>3 DEF Reopens
      <3>3. CASE app.outcome = "interview_no_show"
        <4>1. h.iv # 0 /\ ivs[h.iv].status = "no_show"
          BY <1>4, <3>3 DEF IInv, Meaning, EndBacked
        <4>2. NoShowReopens(ivs[h.iv].version)
          BY <1>4, <2>1, <2>4, <3>3, <4>1 DEF NoShowReopens
        <4> QED
          BY <2>4, <4>1, <4>2 DEF Reopens
      <3> QED
        BY <2>5, <3>2, <3>3
    <2>6. ASSUME NEW s \in DOMAIN OfferOutcome, app.outcome = OfferOutcome[s]
          PROVE  \E ver \in 0..MaxVersion : Reopens(ver)
      <3>1. h.offer # 0 /\ offers[h.offer].status = s
        BY <1>4, <2>6 DEF IInv, Meaning, EndBacked
      <3>2. OfferEndReopens(offers[h.offer].version)
        BY <1>4, <2>3, <2>6, <3>1 DEF OfferEndReopens
      <3> QED
        BY <2>3, <3>1, <3>2 DEF Reopens
    <2>7. CASE app.outcome = "hired"
      <3>1. h.offer # 0 /\ offers[h.offer].status = "accepted"
        BY <1>4, <2>7 DEF IInv, Meaning, EndBacked
      <3>2. app = Ended("hired", "hired")
        BY <1>4, <2>7 DEF IInv, Meaning, StateAllowed, Ended, State, OfferOutcome, Withdrawals
      <3>3. HireReopens(offers[h.offer].version)
        BY <2>3, <3>1, <3>2 DEF HireReopens
      <3> QED
        BY <2>3, <3>1, <3>3 DEF Reopens
    <2>8. CASE app.outcome \in Withdrawals
      <3>1. h.stage = app.stage /\ app.stage \in Stage9
        BY <1>4, <2>8 DEF IInv, Meaning, EndBacked, StateAllowed, Ended, State, OfferOutcome, Withdrawals
      <3>2. ASSUME NEW ver,
                   CASE h.offer # 0 -> offers[h.offer].version = ver
                     [] h.offer = 0 /\ h.stage \in {"offer_accepted", "admitted"} ->
                          \E o \in Current : offers[o].status = "accepted" /\ offers[o].version = ver
                     [] h.offer = 0 /\ h.stage \in Stage9 \ {"offer_accepted", "admitted"} /\ h.iv # 0 ->
                          RoundBacks(ver)
                     [] OTHER -> ver = 0
            PROVE  Reopens(ver)
        BY <1>4, <2>1, <2>8, <3>1, <3>2 DEF Reopens, EndReopens, Withdrawals
      <3>3. CASE h.offer # 0
        BY <1>2, <2>2, <3>2, <3>3
      <3>4. CASE h.offer = 0 /\ h.stage \in {"offer_accepted", "admitted"}
        <4>1. \E o \in Current : offers[o].status = "accepted"
          BY <1>4, <3>1, <3>4 DEF IInv, Meaning, RecordsFit, HasOffer
        <4>2. PICK o \in DOMAIN offers : o \in Current /\ offers[o].status = "accepted"
          BY <4>1 DEF Current
        <4> QED
          BY <1>2, <3>2, <3>4, <4>2
      <3>5. CASE h.offer = 0 /\ h.stage \notin {"offer_accepted", "admitted"} /\ h.iv # 0
        BY <2>4, <3>1, <3>2, <3>5
      <3>6. CASE h.offer = 0 /\ h.stage \notin {"offer_accepted", "admitted"} /\ h.iv = 0
        BY <1>1, <3>2, <3>6
      <3> QED
        BY <3>3, <3>4, <3>5, <3>6
    <2>9. \/ app.outcome \in {"interview_rejected", "interview_no_show", "hired"} \cup Withdrawals
          \/ \E s \in DOMAIN OfferOutcome : app.outcome = OfferOutcome[s]
      BY <1>4 DEF IInv, Meaning, StateAllowed, Ended, State
    <2> QED
      BY <2>5, <2>6, <2>7, <2>8, <2>9
  <1>5. CASE app \in {Passed("offer_accepted"), Passed("admitted")}
    BY <1>3, <1>5
  <1> QED
    BY <1>4, <1>5 DEF ReopenShown

-----------------------------------------------------------------------------
(* What no step rewrites *)

LEMMA DecisionKept ==
  ASSUME IInv, Next, ivs # <<>>
  PROVE  app'.decision = app.decision
  <1>1. ~Screened \/ app.life = "voided"
    BY DEF IInv, Meaning, RecordsFit
  <1>2. CASE DecisionStep
    <2>1. CASE VoidApplication
      BY <2>1 DEF VoidApplication, Voided, Keep, Move, State
    <2> QED
      BY <1>1, <1>2, <2>1 DEF DecisionStep, PassApplication, BackupApplication, RejectApplication, Decide,
         UndoRejection, ScreeningHandoff, IsActive, Screened, State, ScreeningStages
  <1>3. CASE InterviewStep
    BY <1>3 DEF InterviewStep, ScheduleInterview, RescheduleInterview, CancelInterview, MarkNoShow, EndByNoShow,
       SubmitFeedback, UpdateFeedback, ApplyFeedback, NoShowEnds, AtInterview, Keep, Move, Passed, Ended, State
  <1>4. CASE OfferStep
    BY <1>4 DEF OfferStep, CreateOffer, DayPasses, UpdateOffer, TransitionOffer, AtOffer, Keep, Move, Passed,
       Ended, State
  <1>5. CASE EndStep
    <2>1. app'.decision = "passed"
      BY <1>5 DEF EndStep, ConfirmAdmission, ConfirmHire, ConfirmMilestone, EndApplication, ReopenStage9,
         Move, Passed, Ended, State
    <2>2. app.decision = "passed"
      <3>1. ASSUME NEW ver, Reopens(ver) PROVE app.decision = "passed"
        BY <3>1 DEF Reopens, AcceptanceReopens, AdmissionReopens, HireReopens, OfferEndReopens, RejectionReopens,
           NoShowReopens, EndReopens, Passed, Ended, State, IInv, Meaning, StateAllowed, OfferOutcome
      <3>2. ASSUME NEW why, ConfirmAdmission(why) \/ ConfirmHire(why) PROVE app.decision = "passed"
        BY <3>2 DEF ConfirmAdmission, ConfirmHire, ConfirmMilestone, Passed, State
      <3> QED
        BY <1>5, <3>1, <3>2 DEF EndStep, EndApplication, ReopenStage9, Reopens
    <2> QED
      BY <2>1, <2>2
  <1>6. CASE TwinChanges
    BY <1>6 DEF TwinChanges, Keep
  <1> QED
    BY <1>2, <1>3, <1>4, <1>5, <1>6 DEF Next

\* A round is written only while its decision is open, with the same decision, or by a reopening.
LEMMA RoundsKept ==
  ASSUME IInv, Next, NEW i \in DOMAIN ivs, ivs'[i] # ivs[i]
  PROVE  /\ i \in DOMAIN ivs'
         /\ \/ app.life = "active" /\ ivs[i].decision = "pending"
            \/ ivs'[i].status = ivs[i].status /\ ivs'[i].decision = ivs[i].decision
            \/ ivs'[i].status = ivs[i].status /\ app.life = "ended" /\ app'.life = "active"
  <1>1. TypeOK /\ RowsTyped
    BY DEF IInv, TypeOK, RowsTyped
  <1>2. ASSUME NEW j \in DOMAIN ivs, NEW status \in RoundStatuses, NEW decision \in FeedbackDecisions,
               WriteRound(j, status, decision)
        PROVE  i = j /\ i \in DOMAIN ivs' /\ ivs'[i].status = status /\ ivs'[i].decision = decision
    <2>1. /\ DOMAIN ivs' = DOMAIN ivs /\ \A k \in DOMAIN ivs : k # j => ivs'[k] = ivs[k]
          /\ ivs'[j] = [status |-> status, decision |-> decision, version |-> ivs[j].version + 1]
      BY <1>1, <1>2, RoundWritten
    <2>2. i = j
      BY <2>1
    <2> QED
      BY <2>1, <2>2
  <1>3. CASE InterviewStep
    <2>1. ASSUME ScheduleInterview PROVE FALSE
      BY <1>1, <2>1, RoundAppended DEF ScheduleInterview
    <2>2. {"scheduled", "canceled", "no_show", "completed"} \subseteq RoundStatuses
      BY DEF RoundStatuses
    <2>3. \A j \in DOMAIN ivs :
            /\ ivs[j].decision \in FeedbackDecisions
            /\ ivs[j].status = "scheduled" => ivs[j].decision = "pending"
      BY <1>1, Rows DEF Round, IInv, Meaning, RoundsInOrder
    <2>4. PICK j \in DOMAIN ivs :
            \/ RescheduleInterview(j)
            \/ \E why \in Reasons :
                 \/ CancelInterview(j, why) \/ MarkNoShow(j, why) \/ EndByNoShow(j, why)
                 \/ \E d \in FeedbackDecisions : SubmitFeedback(j, d, why) \/ UpdateFeedback(j, d, why)
      BY <1>3, <2>1 DEF InterviewStep
    <2>5. ASSUME RescheduleInterview(j) \/ \E why \in Reasons : CancelInterview(j, why) \/ MarkNoShow(j, why)
          PROVE  app.life = "active" /\ i = j /\ ivs[i].decision = "pending" /\ i \in DOMAIN ivs'
      BY <1>2, <2>2, <2>3, <2>5 DEF RescheduleInterview, CancelInterview, MarkNoShow, IsActive
    <2>6. ASSUME NEW why \in Reasons, EndByNoShow(j, why) PROVE FALSE
      BY <2>6 DEF EndByNoShow
    <2>7. ASSUME NEW why \in Reasons, NEW d \in FeedbackDecisions, SubmitFeedback(j, d, why)
          PROVE  app.life = "active" /\ i = j /\ ivs[i].decision = "pending" /\ i \in DOMAIN ivs'
      BY <1>2, <2>2, <2>3, <2>7 DEF SubmitFeedback, IsActive
    <2>8. ASSUME NEW why \in Reasons, NEW d \in FeedbackDecisions, UpdateFeedback(j, d, why)
          PROVE  /\ i \in DOMAIN ivs'
                 /\ \/ app.life = "active" /\ ivs[i].decision = "pending"
                    \/ ivs'[i].status = ivs[i].status /\ ivs'[i].decision = ivs[i].decision
      BY <1>2, <2>2, <2>8 DEF UpdateFeedback, IsActive
    <2> QED
      BY <2>4, <2>5, <2>6, <2>7, <2>8
  <1>4. CASE DecisionStep \/ OfferStep \/ TwinChanges
    BY <1>4 DEF DecisionStep, PassApplication, BackupApplication, RejectApplication, Decide, UndoRejection,
       VoidApplication, ScreeningHandoff, OfferStep, CreateOffer, DayPasses, UpdateOffer, TransitionOffer, TwinChanges
  <1>5. CASE EndStep
    <2>1. PICK why \in Reasons, ver \in 0..MaxVersion : ReopenStage9(ver, why)
      BY <1>5 DEF EndStep, ConfirmAdmission, ConfirmHire, ConfirmMilestone, EndApplication
    <2>2. /\ RoundReopened /\ app.life = "ended" /\ app'.life = "active" /\ Supporting.iv # 0
          /\ \/ ivs[Supporting.iv].status = "completed"
             \/ ivs[Supporting.iv].decision = "candidate_withdrew"
      BY <2>1 DEF ReopenStage9, RejectionReopens, RoundBacks, EndReopens, Move, Passed, State
    <2>3. app.decision = "passed"
      BY <2>1 DEF ReopenStage9, RejectionReopens, EndReopens, IInv, Meaning, StateAllowed, Ended, Passed, State,
         AcceptanceReopens, AdmissionReopens, HireReopens, OfferEndReopens, NoShowReopens, OfferOutcome
    <2>4. Supporting.iv \in 0..Len(ivs)
      BY <2>2, <2>3, SupportingEnd DEF IInv, Meaning, EndBacked
    <2>5. Supporting.iv \in DOMAIN ivs
      BY <1>1, <2>2, <2>4, Rows
    <2>6. ivs[Supporting.iv].status = "completed"
      BY <2>2, <2>5 DEF IInv, Meaning, RoundsInOrder
    <2>7. "completed" \in RoundStatuses /\ "pending" \in FeedbackDecisions
      BY DEF RoundStatuses, FeedbackDecisions
    <2>8. i = Supporting.iv /\ ivs'[i].status = "completed" /\ i \in DOMAIN ivs'
      BY <1>2, <2>2, <2>5, <2>7 DEF RoundReopened
    <2> QED
      BY <2>2, <2>6, <2>8
  <1> QED
    BY <1>3, <1>4, <1>5 DEF Next

\* An application that is not active keeps its rounds and its offers.
LEMMA RecordsStay ==
  ASSUME IInv, Next, app.life # "active"
  PROVE  /\ Len(ivs') = Len(ivs) /\ Len(offers') = Len(offers)
         /\ \A o \in DOMAIN offers : offers'[o].status = offers[o].status
  <1>1. TypeOK
    BY DEF IInv
  <1>2. CASE InterviewStep
    <2>1. UNCHANGED offers
      BY <1>2 DEF InterviewStep, ScheduleInterview, RescheduleInterview, CancelInterview, MarkNoShow,
         EndByNoShow, SubmitFeedback, UpdateFeedback
    <2>2. CASE UNCHANGED ivs
      BY <2>1, <2>2
    <2>3. ASSUME NEW i \in DOMAIN ivs, NEW why \in Reasons, NEW d \in FeedbackDecisions, UpdateFeedback(i, d, why)
          PROVE  Len(ivs') = Len(ivs)
      <3>1. "completed" \in RoundStatuses /\ WriteRound(i, "completed", d)
        BY <2>3 DEF UpdateFeedback, RoundStatuses
      <3> QED
        BY <1>1, <3>1, RoundWritten
    <2> QED
      BY <1>2, <2>1, <2>2, <2>3
         DEF InterviewStep, ScheduleInterview, RescheduleInterview, CancelInterview, MarkNoShow, EndByNoShow,
             SubmitFeedback, IsActive
  <1>3. CASE OfferStep
    <2>1. PICK o \in DOMAIN offers : DayPasses(o)
      BY <1>3 DEF OfferStep, CreateOffer, UpdateOffer, TransitionOffer, AtOffer, Passed, State
    <2>2. /\ Len(offers') = Len(offers)
          /\ \A p \in DOMAIN offers : offers'[p].status = offers[p].status
      <3>1. offers \in Seq(Offer) /\ offers[o] \in Offer /\ DOMAIN offers = 1..Len(offers)
        BY <1>1, Rows DEF TypeOK
      <3>2. PICK to \in Offer : to = [offers[o] EXCEPT !.past = TRUE]
        BY <3>1 DEF Offer
      <3>3. offers' = [offers EXCEPT ![o] = to] /\ to.status = offers[o].status
        BY <2>1, <3>1, <3>2 DEF DayPasses, Offer
      <3> QED
        BY <3>1, <3>3, ExceptSeq
    <2> QED
      BY <2>1, <2>2 DEF DayPasses
  <1>4. CASE EndStep
    <2>1. ASSUME NEW why \in Reasons, NEW ver \in 0..MaxVersion, ReopenStage9(ver, why)
          PROVE  UNCHANGED offers /\ Len(ivs') = Len(ivs)
      <3>1. Len(ivs') = Len(ivs)
        BY <2>1, ReopenWorks DEF Reopened
      <3> QED
        BY <2>1, <3>1 DEF ReopenStage9, AcceptanceReopens, Passed, State
    <2> QED
      BY <1>4, <2>1 DEF EndStep, ConfirmAdmission, ConfirmHire, ConfirmMilestone, EndApplication
  <1>5. CASE DecisionStep \/ TwinChanges
    BY <1>5 DEF DecisionStep, PassApplication, BackupApplication, RejectApplication, Decide, UndoRejection,
       VoidApplication, ScreeningHandoff, TwinChanges
  <1> QED
    BY <1>2, <1>3, <1>4, <1>5 DEF Next

LEMMA StepsStay ==
  ASSUME IInv, Next
  PROVE  DecidedStays /\ EndedStays
  <1>1. DecidedStays
    BY DecisionKept, RoundsKept DEF DecidedStays
  <1>2. EndedStays
    BY RecordsStay, RoundsKept DEF EndedStays
  <1> QED
    BY <1>1, <1>2

-----------------------------------------------------------------------------
(* The theorems *)

\* The rows of an application stay in their types, within the bounds.
THEOREM TypesKept == Spec => []TypeOK
  <1>1. IInv => TypeOK
    BY DEF IInv
  <1> QED
    BY <1>1, Invariant, PTL

\* No sequence of calls on an application runs into a CHECK or a partial unique
\* index of its tables (interview_service, offer_service, application_decision_service),
\* but the voiding of a hired one, which the CHECK on its outcome refuses.
THEOREM RowConstraintsKept == Spec => []RowConstraints
  BY RowsInvariant, Invariant, PTL

\* The stage HR sees has the records it stands for, and every application the
\* screening centre offers to reopen can be reopened (offer_service.reopen_stage9).
THEOREM RecordsBackedAlways == Spec => []RecordsBacked
  <1>1. IInv => RecordsBacked
    BY StagesInvariant, ReopenInvariant DEF RecordsBacked
  <1> QED
    BY <1>1, Invariant, PTL

\* A call about a round or an offer that is delivered again has no second effect,
\* because its version is behind that of the record.
THEOREM RecordCallsTakenOnce == Spec => []RecordCallsOnce
  <1>1. IInv => RecordCallsOnce
    BY DEF IInv, CallsBehind
  <1> QED
    BY <1>1, Invariant, PTL

\* No step rewrites HR's decision once there are rounds, a decision on a round,
\* or the records of an application that ended.
THEOREM DecisionsStayAlways == Spec => DecisionsStay
  <1>1. IInv /\ [Next]_vars => [DecidedStays /\ EndedStays]_vars
    BY StepsStay
  <1> QED
    BY <1>1, Invariant, PTL DEF Spec, DecisionsStay

-----------------------------------------------------------------------------
(* The views *)

Milestones == {"offer_accepted", "admitted", "hired"}

SomeCompleted == \E i \in DOMAIN ivs : ivs[i].status = "completed"
SomeSent == \E o \in DOMAIN offers : offers[o].status # "draft"
SomeAccepted == \E o \in DOMAIN offers : offers[o].status = "accepted"

\* What the stages an application has been in say of its records, and the other way round.
VisitsFit ==
  /\ app.stage # "applied" => app.stage \in visited
  /\ ivs # <<>> => "screening_passed" \in visited
  /\ offers # <<>> => SomeCompleted
  /\ visited \cap Milestones # {} => SomeSent
  /\ SomeAccepted => "offer_accepted" \in visited
  /\ app.outcome = "hired" => "admitted" \in visited

ViewInv == IInv /\ VisitsFit

-----------------------------------------------------------------------------
(* What a step does to the records and the stage *)

\* A completed round stays completed, and an offer that was sent does not become a draft.
ProgressKept ==
  /\ \A i \in DOMAIN ivs :
       i \in DOMAIN ivs' /\ (ivs[i].status = "completed" => ivs'[i].status = "completed")
  /\ \A o \in DOMAIN offers :
       o \in DOMAIN offers' /\ (offers[o].status # "draft" => offers'[o].status # "draft")

\* The first round follows the pass, the first offer a round that asked for one,
\* and an offer is accepted together with its application.
RecordsStart ==
  /\ ivs = <<>> /\ ivs' # <<>> => app.stage = "screening_passed"
  /\ offers = <<>> /\ offers' # <<>> => AtOffer
  /\ SomeAccepted' /\ ~SomeAccepted => app' # app /\ app'.stage = "offer_accepted"

\* Voiding leaves the stage as it was, and the records.
VoidingKeeps ==
  app' # app /\ app'.life = "voided" =>
    app.life # "voided" /\ app'.stage = app.stage /\ UNCHANGED <<ivs, offers>>

\* Only an admitted application is hired.
HireFollows == app'.outcome = "hired" => app.outcome = "hired" \/ app.stage = "admitted"

StateFacts == VoidingKeeps /\ HireFollows

StepFacts == ProgressKept /\ RecordsStart /\ StateFacts

LEMMA RecordsAlone ==
  ASSUME UNCHANGED <<ivs, offers>>
  PROVE  ProgressKept /\ RecordsStart
  BY DEF ProgressKept, RecordsStart, SomeAccepted

\* A round is written, the offers are not.
LEMMA RoundProgress ==
  ASSUME IInv, UNCHANGED offers, NEW i \in DOMAIN ivs, NEW status \in RoundStatuses,
         NEW decision \in FeedbackDecisions, WriteRound(i, status, decision),
         ivs[i].status = "completed" => status = "completed"
  PROVE  ProgressKept /\ RecordsStart
  <1>1. /\ ivs' \in Seq(Round) /\ DOMAIN ivs' = DOMAIN ivs
        /\ ivs'[i] = [status |-> status, decision |-> decision, version |-> ivs[i].version + 1]
        /\ \A j \in DOMAIN ivs : j # i => ivs'[j] = ivs[j]
    BY RoundWritten DEF IInv
  <1>2. ivs # <<>>
    BY Rows DEF IInv
  <1> QED
    BY <1>1, <1>2 DEF ProgressKept, RecordsStart, SomeAccepted

\* An offer is written, the rounds are not.
LEMMA OfferProgress ==
  ASSUME IInv, UNCHANGED ivs, NEW o \in DOMAIN offers, NEW status \in OfferStatuses,
         NEW past \in BOOLEAN, WriteOffer(o, status, past),
         offers[o].status # "draft" => status # "draft",
         status = "accepted" => app' # app /\ app'.stage = "offer_accepted"
  PROVE  ProgressKept /\ RecordsStart
  <1>1. /\ offers' \in Seq(Offer) /\ DOMAIN offers' = DOMAIN offers
        /\ offers'[o] = [status |-> status, version |-> offers[o].version + 1, past |-> past]
        /\ \A p \in DOMAIN offers : p # o => offers'[p] = offers[p]
    BY OfferWritten DEF IInv
  <1>2. offers # <<>>
    BY Rows DEF IInv
  <1>3. offers'[o].status = status
    BY <1>1
  <1> QED
    BY <1>1, <1>2, <1>3 DEF ProgressKept, RecordsStart, SomeAccepted

LEMMA DecisionFacts ==
  ASSUME IInv, DecisionStep
  PROVE  StepFacts
  <1>1. UNCHANGED <<ivs, offers>>
    BY DEF DecisionStep, PassApplication, BackupApplication, RejectApplication, Decide, UndoRejection,
       VoidApplication, ScreeningHandoff
  <1>2. StateFacts
    <2>1. CASE VoidApplication
      BY <1>1, <2>1 DEF VoidApplication, Voided, Keep, Move, State, StateFacts, VoidingKeeps, HireFollows
    <2>2. CASE ~VoidApplication
      BY <2>2 DEF DecisionStep, PassApplication, BackupApplication, RejectApplication, Decide, UndoRejection,
         ScreeningHandoff, Move, Passed, State, StateFacts, VoidingKeeps, HireFollows
    <2> QED
      BY <2>1, <2>2
  <1> QED
    BY <1>1, <1>2, RecordsAlone DEF StepFacts

LEMMA InterviewFacts ==
  ASSUME IInv, InterviewStep
  PROVE  StepFacts
  <1>1. TypeOK
    BY DEF IInv
  <1>2. UNCHANGED offers
    BY DEF InterviewStep, ScheduleInterview, RescheduleInterview, CancelInterview, MarkNoShow,
       EndByNoShow, SubmitFeedback, UpdateFeedback
  <1>3. StateFacts
    BY DEF InterviewStep, ScheduleInterview, RescheduleInterview, CancelInterview, MarkNoShow, EndByNoShow,
       SubmitFeedback, UpdateFeedback, ApplyFeedback, NoShowEnds, Keep, Move, Passed, Ended, State, StateFacts,
       VoidingKeeps, HireFollows
  <1>4. {"scheduled", "canceled", "no_show", "completed"} \subseteq RoundStatuses
    BY DEF RoundStatuses
  <1>5. \A i \in DOMAIN ivs : ivs[i].decision \in FeedbackDecisions
    BY <1>1, Rows DEF Round
  <1>6. CASE ScheduleInterview
    <2>1. ivs' = Append(ivs, NewRound)
      BY <1>6 DEF ScheduleInterview
    <2>2. \A i \in DOMAIN ivs : i \in DOMAIN ivs' /\ ivs'[i] = ivs[i]
      BY <1>1, <2>1, RoundAppended, Rows
    <2>3. ivs = <<>> => app.stage = "screening_passed"
      BY <1>6 DEF ScheduleInterview
    <2> QED
      BY <1>2, <1>3, <2>2, <2>3 DEF StepFacts, ProgressKept, RecordsStart, SomeAccepted
  <1>7. ASSUME NEW i \in DOMAIN ivs,
               \/ RescheduleInterview(i)
               \/ \E why \in Reasons :
                    \/ CancelInterview(i, why) \/ MarkNoShow(i, why)
                    \/ \E d \in FeedbackDecisions : SubmitFeedback(i, d, why) \/ UpdateFeedback(i, d, why)
        PROVE  ProgressKept /\ RecordsStart
    <2>1. PICK status \in RoundStatuses, decision \in FeedbackDecisions :
            WriteRound(i, status, decision) /\ (ivs[i].status = "completed" => status = "completed")
      BY <1>4, <1>5, <1>7 DEF RescheduleInterview, CancelInterview, MarkNoShow, SubmitFeedback, UpdateFeedback
    <2> QED
      BY <1>2, <2>1, RoundProgress
  <1>8. ASSUME NEW i \in DOMAIN ivs, NEW why \in Reasons, EndByNoShow(i, why)
        PROVE  ProgressKept /\ RecordsStart
    BY <1>2, <1>8, RecordsAlone DEF EndByNoShow
  <1> QED
    BY <1>3, <1>6, <1>7, <1>8 DEF InterviewStep, StepFacts

LEMMA OfferFacts ==
  ASSUME IInv, OfferStep
  PROVE  StepFacts
  <1>1. TypeOK
    BY DEF IInv
  <1>2. UNCHANGED ivs
    BY DEF OfferStep, CreateOffer, DayPasses, UpdateOffer, TransitionOffer
  <1>3. StateFacts
    BY DEF OfferStep, CreateOffer, DayPasses, UpdateOffer, TransitionOffer, AtOffer, Keep, Move, Passed,
       Ended, State, OfferOutcome, OfferStatuses, StateFacts, VoidingKeeps, HireFollows
  <1>4. CASE CreateOffer
    <2>1. PICK past \in BOOLEAN : offers' = Append(offers, [status |-> "draft", version |-> 1, past |-> past])
      BY <1>4 DEF CreateOffer
    <2>2. /\ DOMAIN offers' = 1..Len(offers) + 1 /\ Len(offers') = Len(offers) + 1
          /\ offers'[Len(offers')].status = "draft"
          /\ \A o \in DOMAIN offers : offers'[o] = offers[o]
      BY <1>1, <2>1, OfferAppended
    <2>3. \A o \in DOMAIN offers' : o \in DOMAIN offers \/ o = Len(offers')
      BY <1>1, <2>2, Rows
    <2>4. ProgressKept
      BY <1>1, <1>2, <2>2, Rows DEF ProgressKept
    <2>5. SomeAccepted' => SomeAccepted
      BY <2>2, <2>3 DEF SomeAccepted
    <2> QED
      BY <1>2, <1>3, <1>4, <2>4, <2>5 DEF StepFacts, RecordsStart, CreateOffer
  <1>5. ASSUME NEW o \in DOMAIN offers, DayPasses(o) PROVE ProgressKept /\ RecordsStart
    <2>1. offers \in Seq(Offer) /\ offers[o] \in Offer /\ DOMAIN offers = 1..Len(offers) /\ offers # <<>>
      BY <1>1, Rows DEF TypeOK
    <2>2. PICK to \in Offer : to = [offers[o] EXCEPT !.past = TRUE]
      BY <2>1 DEF Offer
    <2>3. offers' = [offers EXCEPT ![o] = to] /\ to.status = offers[o].status
      BY <1>5, <2>1, <2>2 DEF DayPasses, Offer
    <2>4. DOMAIN offers' = DOMAIN offers /\ \A p \in DOMAIN offers : offers'[p].status = offers[p].status
      BY <2>1, <2>3
    <2> QED
      BY <1>2, <2>1, <2>4 DEF ProgressKept, RecordsStart, SomeAccepted
  <1>6. ASSUME NEW o \in DOMAIN offers, NEW why \in Reasons, UpdateOffer(o, why)
        PROVE  ProgressKept /\ RecordsStart
    <2>1. PICK past \in BOOLEAN : WriteOffer(o, offers[o].status, past)
      BY <1>6 DEF UpdateOffer
    <2>2. offers[o].status \in OfferStatuses /\ offers[o].status # "accepted"
      BY <1>6 DEF UpdateOffer, OfferStatuses
    <2> QED
      BY <1>2, <2>1, <2>2, OfferProgress
  <1>7. ASSUME NEW o \in DOMAIN offers, NEW why \in Reasons, NEW s \in OfferStatuses \ {"draft"},
               TransitionOffer(o, s, why)
        PROVE  ProgressKept /\ RecordsStart
    <2>1. WriteOffer(o, s, offers[o].past) /\ offers[o].past \in BOOLEAN
      BY <1>1, <1>7, Rows DEF TransitionOffer, Offer
    <2>2. s = "accepted" => app' # app /\ app'.stage = "offer_accepted"
      BY <1>7 DEF TransitionOffer, AtOffer, Move, Passed, State
    <2> QED
      BY <1>2, <2>1, <2>2, OfferProgress
  <1> QED
    BY <1>3, <1>4, <1>5, <1>6, <1>7 DEF OfferStep, StepFacts

LEMMA EndFacts ==
  ASSUME IInv, EndStep
  PROVE  StepFacts
  <1>1. TypeOK
    BY DEF IInv
  <1>2. StateFacts
    BY DEF EndStep, ConfirmAdmission, ConfirmHire, ConfirmMilestone, EndApplication, ReopenStage9,
       Move, Passed, Ended, State, StateFacts, VoidingKeeps, HireFollows
  <1>3. ASSUME NEW why \in Reasons,
               \/ ConfirmAdmission(why) \/ ConfirmHire(why)
               \/ \E outcome \in {"candidate_withdrew", "company_canceled"} : EndApplication(outcome, why)
        PROVE  ProgressKept /\ RecordsStart
    BY <1>3, RecordsAlone DEF ConfirmAdmission, ConfirmHire, ConfirmMilestone, EndApplication
  <1>4. ASSUME NEW why \in Reasons, NEW ver \in 0..MaxVersion, ReopenStage9(ver, why)
        PROVE  ProgressKept /\ RecordsStart
    <2>1. CASE UNCHANGED <<ivs, offers>>
      BY <2>1, RecordsAlone
    <2>2. CASE AcceptanceReopens(ver) /\ WriteOffer(Supporting.offer, "sent", offers[Supporting.offer].past)
               /\ UNCHANGED ivs
      <3>1. app.life = "active" /\ HasOffer /\ app = Passed("offer_accepted")
        BY <2>2 DEF AcceptanceReopens, Passed, State, HasOffer
      <3>2. Supporting = support["offer_accepted"] /\ NamesAccepted("offer_accepted")
        BY <3>1, AcceptedStage DEF Supporting, Passed, State
      <3>3. Supporting.offer \in DOMAIN offers /\ offers[Supporting.offer].past \in BOOLEAN
        BY <1>1, <3>2, Rows DEF NamesAccepted, Offer
      <3>4. "sent" \in OfferStatuses
        BY DEF OfferStatuses
      <3> QED
        BY <2>2, <3>3, <3>4, OfferProgress
    <2>3. CASE RoundReopened /\ UNCHANGED offers /\ app.life = "ended" /\ app.decision = "passed"
               /\ Supporting.iv # 0
      <3>1. Supporting.iv \in DOMAIN ivs
        BY <1>1, <2>3, SupportingEnd, Rows DEF IInv, Meaning, EndBacked
      <3>2. "completed" \in RoundStatuses /\ "pending" \in FeedbackDecisions
        BY DEF RoundStatuses, FeedbackDecisions
      <3> QED
        BY <2>3, <3>1, <3>2, RoundProgress DEF RoundReopened
    <2>4. RejectionReopens(ver) \/ EndReopens(ver) => app.life = "ended" /\ app.decision = "passed"
      BY DEF RejectionReopens, EndReopens, IInv, Meaning, StateAllowed, Ended, State, OfferOutcome
    <2>5. RejectionReopens(ver) => Supporting.iv # 0
      BY DEF RejectionReopens, RoundBacks
    <2> QED
      BY <1>4, <2>1, <2>2, <2>3, <2>4, <2>5 DEF ReopenStage9
  <1> QED
    BY <1>2, <1>3, <1>4 DEF EndStep, StepFacts

LEMMA NextFacts ==
  ASSUME IInv, Next
  PROVE  StepFacts
  <1>1. ASSUME TwinChanges PROVE StepFacts
    BY <1>1, RecordsAlone DEF TwinChanges, Keep, StepFacts, StateFacts, VoidingKeeps, HireFollows
  <1> QED
    BY <1>1, DecisionFacts, InterviewFacts, OfferFacts, EndFacts DEF Next

-----------------------------------------------------------------------------
(* The invariant *)

LEMMA ViewInitHolds == ViewInit => ViewInv
  <1> SUFFICES ASSUME ViewInit PROVE ViewInv
    OBVIOUS
  <1>1. /\ IInv /\ ivs = <<>> /\ offers = <<>> /\ visited = {}
        /\ app.stage = "applied" /\ app.outcome = "none"
    BY InitHolds DEF ViewInit, Init, State
  <1>2. DOMAIN offers = {}
    BY <1>1, Rows DEF IInv
  <1> QED
    BY <1>1, <1>2 DEF ViewInv, VisitsFit, SomeAccepted

\* An application past the acceptance has an offer that was accepted.
LEMMA MilestoneAccepted ==
  ASSUME IInv, app.life # "voided", app.stage \in Milestones
  PROVE  SomeAccepted
  BY AcceptedStage DEF HasOffer, Milestones, Current, SomeAccepted

LEMMA MilestoneAcceptedNext ==
  ASSUME IInv', app'.life # "voided", app'.stage \in Milestones
  PROVE  SomeAccepted'
  BY DEF IInv, Meaning, RecordsFit, HasOffer, Milestones, Current, SomeAccepted

\* The round behind an offer is completed.
LEMMA OfferStageCompleted ==
  ASSUME IInv, AtOffer
  PROVE  SomeCompleted
  <1>1. ivs # <<>> /\ Latest(ivs).decision = "proceed_offer"
    BY DEF IInv, Meaning, RecordsFit, Offered, AtOffer, Passed, State
  <1>2. Len(ivs) \in DOMAIN ivs
    BY <1>1, Rows DEF IInv
  <1> QED
    BY <1>1, <1>2 DEF IInv, Meaning, RoundsInOrder, Latest, SomeCompleted

LEMMA VisitsStep ==
  ASSUME ViewInv, ViewNext
  PROVE  ViewInv'
  <1>1. IInv /\ VisitsFit /\ Next /\ TypeOK
    BY DEF ViewInv, ViewNext, IInv
  <1>2. IInv' /\ TypeOK'
    BY <1>1, StepKeeps DEF IInv
  <1>3. ProgressKept /\ RecordsStart /\ VoidingKeeps /\ HireFollows
    BY <1>1, NextFacts DEF StepFacts, StateFacts
  <1>4. /\ visited \subseteq visited'
        /\ app' = app => visited' = visited
        /\ app' # app => visited' = visited \cup {app'.stage}
    BY DEF ViewNext
  <1>5. (app.stage # "applied" => app.stage \in visited)'
    BY <1>1, <1>4 DEF VisitsFit
  <1>6. (ivs # <<>> => "screening_passed" \in visited)'
    BY <1>1, <1>3, <1>4 DEF VisitsFit, RecordsStart
  <1>7. (offers # <<>> => SomeCompleted)'
    <2>1. SomeCompleted => SomeCompleted'
      BY <1>3 DEF ProgressKept, SomeCompleted
    <2> QED
      BY <1>1, <1>3, <2>1, OfferStageCompleted DEF VisitsFit, RecordsStart
  <1>8. (visited \cap Milestones # {} => SomeSent)'
    <2>1. SomeSent => SomeSent'
      BY <1>3 DEF ProgressKept, SomeSent
    <2>2. (SomeAccepted => SomeSent) /\ (SomeAccepted' => SomeSent')
      BY DEF SomeAccepted, SomeSent
    <2>3. ASSUME app' # app, app'.stage \in Milestones PROVE SomeSent'
      <3>1. CASE app'.life # "voided"
        BY <1>2, <2>2, <2>3, <3>1, MilestoneAcceptedNext
      <3>2. CASE app'.life = "voided"
        BY <1>1, <1>3, <2>1, <2>2, <2>3, <3>2, MilestoneAccepted DEF VoidingKeeps
      <3> QED
        BY <3>1, <3>2
    <2> QED
      BY <1>1, <1>4, <2>1, <2>3 DEF VisitsFit, Milestones
  <1>9. (SomeAccepted => "offer_accepted" \in visited)'
    BY <1>1, <1>3, <1>4 DEF VisitsFit, RecordsStart
  <1>10. (app.outcome = "hired" => "admitted" \in visited)'
    BY <1>1, <1>3, <1>4 DEF VisitsFit, HireFollows
  <1> QED
    BY <1>2, <1>5, <1>6, <1>7, <1>8, <1>9, <1>10 DEF ViewInv, VisitsFit

LEMMA ViewStepKeeps == ViewInv /\ [ViewNext]_viewVars => ViewInv'
  <1>1. ASSUME ViewInv, UNCHANGED viewVars PROVE ViewInv'
    <2>1. IInv'
      BY <1>1, StepKeeps DEF ViewInv, viewVars
    <2> QED
      BY <1>1, <2>1 DEF ViewInv, VisitsFit, SomeAccepted, SomeCompleted, SomeSent, Milestones, viewVars, vars
  <1> QED
    BY <1>1, VisitsStep

\* Every reachable state of the application, its records and its history meets the invariant.
THEOREM ViewInvariant == ViewSpec => []ViewInv
  BY ViewInitHolds, ViewStepKeeps, PTL DEF ViewSpec

-----------------------------------------------------------------------------
(* What the screening centre shows *)

LEMMA ShownInvariant == IInv => ShownAccepted
  <1> SUFFICES ASSUME IInv, NEW a \in Shown PROVE Accepted(a)
    BY DEF ShownAccepted
  <1>1. TypeOK
    BY DEF IInv
  <1>2. CASE IsActive /\ app.stage \in ScreeningStages /\ a \in {"pass", "backup", "reject"}
             /\ CASE a = "pass" -> app.decision \in {"pending", "backup"}
                  [] a = "backup" -> app.decision \in {"pending", "passed"}
                  [] OTHER -> app.decision \in {"pending", "passed", "backup"}
    BY <1>2 DEF Accepted
  <1>3. CASE IsActive /\ a = "schedule_interview" /\ app.decision = "passed" /\ app.stage = "screening_passed"
    <2>1. app = Passed("screening_passed")
      BY <1>3 DEF IInv, Meaning, StateAllowed, IsActive, Passed, State
    <2>2. ivs = <<>>
      BY <1>3 DEF IInv, Meaning, RecordsFit, Screened, ScreeningStages, IsActive
    <2> QED
      BY <1>3, <2>1, <2>2 DEF Accepted
  <1>4. CASE IsActive /\ app.decision = "passed" /\ app.stage \in Stage9
             /\ a \in {"withdraw_application", "cancel_process"}
    BY <1>4 DEF Accepted
  <1>5. CASE IsActive /\ app.stage = "offer" /\ a \in OfferActions(LatestOfferStatus)
    <2>1. AtOffer
      BY <1>5 DEF IInv, Meaning, StateAllowed, IsActive, Passed, State, AtOffer, ScreeningStages
    <2>2. offers = <<>> => Current = {}
      BY <1>1, Rows DEF Current
    <2>3. offers # <<>> => Len(offers) \in DOMAIN offers
      BY <1>1, Rows
    <2>4. CASE LatestOfferStatus \notin ActiveOffers
      <3>1. Current = {}
        BY <2>2, <2>4 DEF IInv, Meaning, LatestOfferOnly, Current, LatestOfferStatus, Latest
      <3>2. a = "create_offer"
        BY <1>5, <2>4 DEF OfferActions, ActiveOffers
      <3> QED
        BY <2>1, <3>1, <3>2 DEF Accepted
    <2>5. CASE LatestOfferStatus \in {"draft", "sent"}
      <3>1. Len(offers) \in Current /\ offers[Len(offers)].status = LatestOfferStatus
        BY <2>3, <2>5 DEF LatestOfferStatus, Latest, Current, ActiveOffers
      <3> QED
        BY <1>5, <2>1, <2>5, <3>1 DEF OfferActions, ActiveOffers, Accepted, OfferIn
    <2> QED
      BY <1>5, <2>4, <2>5 DEF OfferActions, ActiveOffers
  <1>6. CASE IsActive /\ app.stage = "offer_accepted" /\ a = "confirm_admission"
    <2>1. app = Passed("offer_accepted")
      BY <1>6 DEF IInv, Meaning, StateAllowed, IsActive, Passed, State, ScreeningStages
    <2> QED
      BY <1>6, <2>1, AcceptedStage DEF Accepted, HasAccepted, HasOffer, IsActive
  <1>7. CASE IsActive /\ app.stage = "admitted" /\ a = "confirm_hire"
    <2>1. app = Passed("admitted")
      BY <1>7 DEF IInv, Meaning, StateAllowed, IsActive, Passed, State, ScreeningStages
    <2> QED
      BY <1>7, <2>1, AcceptedStage DEF Accepted, HasAccepted, HasOffer, IsActive
  <1>8. CASE app = State("ended", "rejected", "rejected", "screening_rejected") /\ a = "undo_rejection"
    BY <1>8 DEF Accepted
  <1>9. ASSUME a = "reopen_stage9",
               \/ IsActive /\ app.stage \in {"offer_accepted", "admitted"}
               \/ app.life = "ended" /\ app.decision = "passed"
        PROVE  Accepted(a)
    <2>1. ReopenShown
      BY <1>9 DEF ReopenShown, IInv, Meaning, StateAllowed, IsActive, Passed, State, ScreeningStages
    <2>2. \E ver \in 0..MaxVersion : Reopens(ver)
      BY <2>1, ReopenInvariant DEF ReopenSupported
    <2> QED
      BY <1>9, <2>2 DEF Accepted
  <1> QED
    BY <1>2, <1>3, <1>4, <1>5, <1>6, <1>7, <1>8, <1>9 DEF Shown

-----------------------------------------------------------------------------
(* What the statistics count *)

LEMMA FunnelInvariant == ViewInv => FunnelNested
  <1> SUFFICES ASSUME ViewInv, NEW n \in 1..7, Counted(Steps[n + 1]) PROVE Counted(Steps[n])
    BY DEF FunnelNested, Steps
  <1>1. IInv /\ VisitsFit /\ TypeOK
    BY DEF ViewInv, IInv
  <1>2. app.outcome = "hired" => SomeAccepted /\ HasAccepted
    <2>1. app.outcome = "hired" => app.stage = "hired" /\ app.life = "ended"
      BY <1>1, RowsInvariant DEF RowConstraints, RowAccepted, TypeOK, Lives, IInv, Meaning, StateAllowed
    <2> QED
      BY <1>1, <2>1, AcceptedStage DEF HasOffer, HasAccepted, SomeAccepted, Current
  <1>3. HasAccepted => SomeSent
    BY DEF HasAccepted, Current, SomeSent
  <1>4. CASE n = 1
    BY <1>4 DEF Steps, Counted
  <1>5. CASE n = 2
    <2>1. Entered
      BY <1>5 DEF Steps, Counted
    <2>2. ivs # <<>>
      BY <1>1, <2>1, Rows DEF Entered
    <2> QED
      BY <1>1, <1>5, <2>2 DEF Steps, Counted, VisitsFit
  <1>6. CASE n = 3
    BY <1>6 DEF Steps, Counted, Entered
  <1>7. CASE n = 4
    <2>1. offers # <<>>
      BY <1>1, <1>7, Rows DEF Steps, Counted
    <2> QED
      BY <1>1, <1>7, <2>1 DEF Steps, Counted, VisitsFit, SomeCompleted
  <1>8. CASE n = 5
    <2>1. AcceptedOnce
      BY <1>8 DEF Steps, Counted
    <2>2. SomeSent
      BY <1>1, <1>3, <2>1 DEF AcceptedOnce, VisitsFit, Milestones
    <2> QED
      BY <1>8, <2>2 DEF Steps, Counted, SomeSent
  <1>9. CASE n = 6
    BY <1>2, <1>9 DEF Steps, Counted, AdmittedOnce, AcceptedOnce
  <1>10. CASE n = 7
    BY <1>10 DEF Steps, Counted, AdmittedOnce
  <1> QED
    BY <1>4, <1>5, <1>6, <1>7, <1>8, <1>9, <1>10

LEMMA TodoInvariant == IInv => TodoOnce
  <1> SUFFICES ASSUME IInv PROVE \E x : Todos \subseteq {x}
    BY AtMostOne DEF TodoOnce
  <1>1. TypeOK
    BY DEF IInv
  <1>2. \A i \in DOMAIN ivs :
          \/ ivs[i].status = "scheduled"
          \/ ivs[i].status = "completed" /\ ivs[i].decision = "pending"
          \/ NextRoundMissing(i)
          => i = Len(ivs)
    BY <1>1, Rows DEF IInv, Meaning, RoundsInOrder, AllowsNextRound, NextRoundMissing
  <1>3. \A o \in DOMAIN offers : offers[o].status \in {"draft", "sent"} => o = Len(offers)
    BY DEF IInv, Meaning, LatestOfferOnly, Current, ActiveOffers
  <1>4. CASE app.stage = "interview"
    <2>1. Todos \subseteq {"scheduled", "pending", "next_round"}
      BY <1>4 DEF Todos, Waits
    <2>2. /\ "scheduled" \in Todos => ivs[Len(ivs)].status = "scheduled"
          /\ "pending" \in Todos => ivs[Len(ivs)].status = "completed" /\ ivs[Len(ivs)].decision = "pending"
          /\ "next_round" \in Todos => ivs[Len(ivs)].status = "completed" /\ ivs[Len(ivs)].decision = "next_round"
      BY <1>2 DEF Todos, Waits, NextRoundMissing
    <2> QED
      BY <2>1, <2>2
  <1>5. CASE app.stage = "offer"
    <2>1. Todos \subseteq {"draft", "sent"}
      BY <1>5 DEF Todos, Waits
    <2>2. /\ "draft" \in Todos => offers[Len(offers)].status = "draft"
          /\ "sent" \in Todos => offers[Len(offers)].status = "sent"
      BY <1>3 DEF Todos, Waits
    <2> QED
      BY <2>1, <2>2
  <1>6. CASE app.stage \notin {"interview", "offer"}
    BY <1>6 DEF Todos, Waits
  <1> QED
    BY <1>4, <1>5, <1>6

\* What was reached once stays counted.
LEMMA CountedKept ==
  ASSUME ViewInv, ViewNext,
         NEW step \in {"screening_passed", "interview_completed", "offer_sent", "offer_accepted", "admitted"},
         Counted(step)
  PROVE  Counted(step)'
  <1>1. IInv /\ VisitsFit /\ ProgressKept /\ visited \subseteq visited'
    BY NextFacts DEF ViewInv, ViewNext, StepFacts
  <1>2. CASE step = "screening_passed"
    BY <1>1, <1>2 DEF Counted
  <1>3. CASE step = "interview_completed"
    BY <1>1, <1>3 DEF Counted, ProgressKept
  <1>4. CASE step = "offer_sent"
    BY <1>1, <1>4 DEF Counted, ProgressKept
  <1>5. CASE step = "offer_accepted"
    BY <1>1, <1>5 DEF Counted, AcceptedOnce, HasAccepted, Current, VisitsFit, SomeAccepted
  <1>6. CASE step = "admitted"
    BY <1>1, <1>6 DEF Counted, AdmittedOnce, VisitsFit
  <1> QED
    BY <1>2, <1>3, <1>4, <1>5, <1>6

-----------------------------------------------------------------------------
(* The theorems *)

\* Every action the screening centre shows is one the service accepts, an application is
\* counted at every step of the funnel before its own, and once in the to-do list
\* (screening_center_service._allowed_actions, recruitment_statistics_service).
THEOREM ViewsAgreeAlways == ViewSpec => []ViewsAgree
  <1>1. ViewInv => ViewsAgree
    BY ShownInvariant, FunnelInvariant, TodoInvariant DEF ViewInv, ViewsAgree
  <1> QED
    BY <1>1, ViewInvariant, PTL

\* What the funnel counted once, it keeps counting, whatever is reopened or voided later.
THEOREM FunnelKeepsAlways == ViewSpec => FunnelKeeps
  <1> DEFINE Kept == \A step \in {"screening_passed", "interview_completed", "offer_sent", "offer_accepted",
                                  "admitted"} : Counted(step) => Counted(step)'
  <1>1. ViewInv /\ [ViewNext]_viewVars => [Kept]_viewVars
    BY CountedKept
  <1> QED
    BY <1>1, ViewInvariant, PTL DEF ViewSpec, FunnelKeeps
=============================================================================
