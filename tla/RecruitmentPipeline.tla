------------------------ MODULE RecruitmentPipeline ------------------------
(***************************************************************************)
(* What happens to one application after its submission: the HR decisions  *)
(* (application_decision_service), the interview rounds                     *)
(* (interview_service), the offers, the admission, the ways out and the     *)
(* controlled reopening (offer_service).                                    *)
(*                                                                         *)
(* Every handler takes the row lock of the application before it reads      *)
(* anything else and keeps it until its commit, so a handler is one step.   *)
(* What does interleave are the calls: a call carries the version of the    *)
(* record it is about as HR saw it, and may arrive late, or twice.          *)
(***************************************************************************)
EXTENDS Integers, Sequences, FiniteSets

CONSTANTS
  MaxRounds,             \* bound on interview rounds
  MaxRecords,            \* bound on rounds and offer versions together
  MaxVersion,            \* bound on the version of one record
  Reasons,               \* what HR types as the reason
  Tracked                \* the kinds of calls that "done" remembers

ASSUME BoundsOK == {MaxRounds, MaxRecords} \subseteq Nat /\ MaxVersion \in Nat \ {0}

VARIABLES
  app,       \* applications: lifecycle_status, recruitment_stage, hr_decision, final_outcome
  ivs,       \* interview_records in the order of round_number
  offers,    \* offer_records in the order of version_number
  support,   \* the latest stage_histories row of each kind a reopening looks for
  reopened,  \* the latest activity_logs row with action 'stage9_reopened'
  twin,      \* the candidate has another active application for the job
  done,      \* the calls that took effect
  again      \* the calls that took effect more than once

vars == <<app, ivs, offers, support, reopened, twin, done, again>>

Lives == {"active", "ended", "voided"}
ScreeningStages == {"applied", "hr_review", "screening_passed", "backup"}
Stage9 == {"screening_passed", "interview", "offer", "offer_accepted", "admitted"}
Stages == ScreeningStages \cup Stage9 \cup {"rejected", "hired"}
HrDecisions == {"pending", "passed", "backup", "rejected"}

OfferOutcome == [declined |-> "offer_declined", withdrawn |-> "offer_withdrawn",
                 expired |-> "offer_expired"]
Outcomes ==
  {"offer_declined", "offer_withdrawn", "offer_expired", "screening_rejected", "interview_rejected", "interview_no_show",
   "candidate_withdrew", "company_canceled", "hired"}

State(life, stage, decision, outcome) ==
  [life |-> life, stage |-> stage, decision |-> decision, outcome |-> outcome]
Passed(stage) == State("active", stage, "passed", "none")
Ended(stage, outcome) == State("ended", stage, "passed", outcome)

\* The CHECKs that bind an application's lifecycle, stage, decision and outcome together.
RowAccepted(a) ==
  /\ a.life = "ended" <=> a.outcome # "none"
  /\ a.outcome = "screening_rejected" => a.stage = "rejected" /\ a.decision = "rejected"
  /\ a.stage = "hired" <=> a.outcome = "hired"
  /\ a.stage = "hired" => a.decision = "passed"

RoundStatuses == {"scheduled", "completed", "canceled", "no_show"}
FeedbackDecisions ==
  {"pending", "next_round", "proceed_offer", "rejected", "candidate_withdrew"}
Round == [status : RoundStatuses, decision : FeedbackDecisions, version : 1..MaxVersion]
NewRound == [status |-> "scheduled", decision |-> "pending", version |-> 1]

OfferStatuses == {"draft", "sent", "accepted", "declined", "withdrawn", "expired"}
ActiveOffers == {"draft", "sent", "accepted"}
\* past: the offer's valid_until is over.
Offer == [status : OfferStatuses, version : 1..MaxVersion, past : BOOLEAN]

\* The rows a reopening looks for: the latest end (of those with the outcome
\* the application has, which the latest one is), the latest acceptance and the
\* latest admission; with the state they left, the outcome they brought and the
\* record they link (0: none).
Kinds == {"end", "offer_accepted", "application_admitted"}
History == [life : Lives \cup {"none"}, stage : Stages \cup {"none"},
            outcome : Outcomes \cup {"none"}, iv : 0..MaxRounds, offer : 0..MaxRecords]
NoHistory == [life |-> "none", stage |-> "none", outcome |-> "none", iv |-> 0, offer |-> 0]
NoReopening == [ver |-> 0, why |-> "none", to |-> "none"]

\* The calls about a round or an offer, and those about the application.
RecordCalls == {"reschedule", "cancel", "no_show", "feedback", "correct_feedback",
                "update_offer"} \cup (OfferStatuses \ {"draft"})
EndCalls == {"no_show_end", "admit", "hire", "candidate_withdrew", "company_canceled", "reopen"}
Calls == [op : RecordCalls \cup EndCalls, on : Nat, ver : Nat, why : Reasons \cup {"none"}]

Init ==
  /\ app = State("active", "applied", "pending", "none")
  /\ ivs = <<>> /\ offers = <<>>
  /\ support = [k \in Kinds |-> NoHistory]
  /\ reopened = NoReopening
  /\ twin = FALSE
  /\ done = {} /\ again = {}

-----------------------------------------------------------------------------
IsActive == app.life = "active"

\* The call takes effect; a call that was carried out before takes effect again.
TakesEffect(op, on, ver, why) ==
  LET call == [op |-> op, on |-> on, ver |-> ver, why |-> why] IN
  /\ done' = IF op \in Tracked THEN done \cup {call} ELSE done
  /\ again' = IF call \in done THEN again \cup {call} ELSE again

\* What a bug would do: the history row of the end does not link the offer or the round.
BugMove(to, kind, iv, offer) ==
  LET row == [life |-> app.life, stage |-> app.stage, outcome |-> to.outcome,
              iv |-> 0, offer |-> 0]
      kinds == {kind} \cup (IF to.life = "ended" THEN {"end"} ELSE {})
  IN /\ app' = to
     /\ support' = [k \in Kinds |-> IF k \in kinds THEN row ELSE support[k]]

\* A new state of the application, with the stage_histories row that records it.
Move(to, kind, iv, offer) ==
  LET row == [life |-> app.life, stage |-> app.stage, outcome |-> to.outcome,
              iv |-> iv, offer |-> offer]
      kinds == {kind} \cup (IF to.life = "ended" THEN {"end"} ELSE {})
  IN /\ app' = to
     /\ support' = [k \in Kinds |-> IF k \in kinds THEN row ELSE support[k]]

Keep == UNCHANGED <<app, support>>

\* Only one active application of a candidate for a job: the code looks for
\* another one, and the unique index settles a race.
MayBeActive == ~twin

-----------------------------------------------------------------------------
(* application_decision_service *)

Decide(to, allowed) ==
  /\ IsActive /\ app.stage \in ScreeningStages /\ app.decision \in allowed
  /\ Move(to, "none", 0, 0)
  /\ UNCHANGED <<ivs, offers, reopened, twin, done, again>>

PassApplication == Decide(Passed("screening_passed"), {"pending", "backup"})
BackupApplication ==
  Decide(State("active", "backup", "backup", "none"), {"pending", "passed"})
RejectApplication ==
  Decide(State("ended", "rejected", "rejected", "screening_rejected"),
         {"pending", "passed", "backup"})

UndoRejection ==
  /\ app = State("ended", "rejected", "rejected", "screening_rejected")
  /\ MayBeActive
  /\ Move(State("active", "hr_review", "pending", "none"), "none", 0, 0)
  /\ UNCHANGED <<ivs, offers, reopened, twin, done, again>>

Voided == State("voided", app.stage, app.decision, "none")

\* Any application that is not voided yet is voided, its stage and decision left as they
\* are; a write that a CHECK refuses is rolled back, and the call ends in an error 500.
VoidApplication ==
  /\ app.life # "voided"
  /\ IF RowAccepted(Voided) THEN Move(Voided, "none", 0, 0) ELSE Keep
  /\ UNCHANGED <<ivs, offers, reopened, twin, done, again>>

\* The hand-over of a screening, in the screening's own transaction.
ScreeningHandoff ==
  /\ app = State("active", "applied", "pending", "none")
  /\ Move(State("active", "hr_review", "pending", "none"), "none", 0, 0)
  /\ UNCHANGED <<ivs, offers, reopened, twin, done, again>>

-----------------------------------------------------------------------------
(* interview_service *)

Latest(s) == s[Len(s)]
AtInterview == app = Passed("interview")

\* A further round follows one that did not take place or asked for it.
AllowsNextRound(r) ==
  \/ r.status \in {"canceled", "no_show"}
  \/ r.status = "completed" /\ r.decision = "next_round"

\* What a bug would do: scheduling without looking for a scheduled round.
BugScheduleInterview ==
  /\ IsActive /\ app.decision = "passed"
  /\ Len(ivs) < MaxRounds /\ Len(ivs) + Len(offers) < MaxRecords
  /\ ivs' = Append(ivs, NewRound)
  /\ \/ app.stage = "screening_passed" /\ Move(Passed("interview"), "none", 1, 0)
     \/ app.stage = "interview" /\ Keep
  /\ UNCHANGED <<offers, reopened, twin, done, again>>

ScheduleInterview ==
  /\ IsActive /\ app.decision = "passed"
  /\ Len(ivs) < MaxRounds /\ Len(ivs) + Len(offers) < MaxRecords
  /\ \A i \in DOMAIN ivs : ivs[i].status # "scheduled"
  /\ ivs' = Append(ivs, NewRound)
  /\ \/ /\ app.stage = "screening_passed" /\ ivs = <<>>
        /\ Move(Passed("interview"), "none", 1, 0)
     \/ /\ app.stage = "interview" /\ ivs # <<>> /\ AllowsNextRound(Latest(ivs))
        /\ Keep
  /\ UNCHANGED <<offers, reopened, twin, done, again>>

\* A round is written with the next version.
WriteRound(i, status, decision) ==
  /\ ivs[i].version < MaxVersion
  /\ ivs' = [ivs EXCEPT ![i] = [status |-> status, decision |-> decision,
                                version |-> @.version + 1]]

RescheduleInterview(i) ==
  /\ IsActive /\ ivs[i].status = "scheduled"
  /\ WriteRound(i, "scheduled", ivs[i].decision)
  /\ Keep
  /\ TakesEffect("reschedule", i, ivs[i].version, "none")
  /\ UNCHANGED <<offers, reopened, twin>>

CancelInterview(i, why) ==
  /\ IsActive /\ ivs[i].status = "scheduled"
  /\ WriteRound(i, "canceled", ivs[i].decision)
  /\ Keep
  /\ TakesEffect("cancel", i, ivs[i].version, why)
  /\ UNCHANGED <<offers, reopened, twin>>

NoShowEnds(i) == Move(Ended("rejected", "interview_no_show"), "none", i, 0)

\* The no-show of a scheduled round, which may end the application.
MarkNoShow(i, why) ==
  /\ IsActive /\ ivs[i].status = "scheduled"
  /\ WriteRound(i, "no_show", ivs[i].decision)
  /\ \/ Keep /\ TakesEffect("no_show", i, ivs[i].version, why)
     \/ /\ AtInterview
        /\ NoShowEnds(i) /\ TakesEffect("no_show_end", i, ivs[i].version, why)
  /\ UNCHANGED <<offers, reopened, twin>>

\* Ending the application for a round that is marked already: its version stays.
EndByNoShow(i, why) ==
  /\ ivs[i].status = "no_show" /\ AtInterview
  /\ NoShowEnds(i)
  /\ TakesEffect("no_show_end", i, ivs[i].version, why)
  /\ UNCHANGED <<ivs, offers, reopened, twin>>

\* What a decision on a round does to the application.
ApplyFeedback(i, decision) ==
  CASE decision \in {"pending", "next_round"} -> Keep
    [] decision = "proceed_offer" -> AtInterview /\ Move(Passed("offer"), "none", i, 0)
    [] decision = "rejected" ->
         AtInterview /\ Move(Ended("rejected", "interview_rejected"), "none", i, 0)
    [] OTHER -> AtInterview /\ Move(Ended(app.stage, "candidate_withdrew"), "none", i, 0)

SubmitFeedback(i, decision, why) ==
  /\ IsActive /\ ivs[i].status = "scheduled"
  /\ WriteRound(i, "completed", decision)
  /\ ApplyFeedback(i, decision)
  /\ TakesEffect("feedback", i, ivs[i].version, why)
  /\ UNCHANGED <<offers, reopened, twin>>

\* What a bug would do: 'next_round' is not taken for a decision.
BugUpdateFeedback(i, decision, why) ==
  /\ ivs[i].status = "completed"
  /\ ivs[i].decision \in {"pending", "next_round", decision}
  /\ WriteRound(i, "completed", decision)
  /\ IF ivs[i].decision # decision THEN IsActive /\ ApplyFeedback(i, decision) ELSE Keep
  /\ TakesEffect("correct_feedback", i, ivs[i].version, why)
  /\ UNCHANGED <<offers, reopened, twin>>

\* Another text for any submitted feedback, a first decision for a pending one.
UpdateFeedback(i, decision, why) ==
  /\ ivs[i].status = "completed"
  /\ ivs[i].decision \in {"pending", decision}
  /\ WriteRound(i, "completed", decision)
  /\ IF ivs[i].decision = "pending" /\ decision # "pending"
     THEN IsActive /\ ApplyFeedback(i, decision)
     ELSE Keep
  /\ TakesEffect("correct_feedback", i, ivs[i].version, why)
  /\ UNCHANGED <<offers, reopened, twin>>

-----------------------------------------------------------------------------
(* offer_service: offers *)

AtOffer == app = Passed("offer")
Current == {o \in DOMAIN offers : offers[o].status \in ActiveOffers}

CreateOffer ==
  /\ AtOffer /\ Len(ivs) + Len(offers) < MaxRecords
  /\ Current = {}
  /\ \E past \in BOOLEAN :
       offers' = Append(offers, [status |-> "draft", version |-> 1, past |-> past])
  /\ Keep /\ UNCHANGED <<ivs, reopened, twin, done, again>>

\* What a bug would do: the version counts new details only, not new statuses.
BugWriteOffer(o, status, past) ==
  /\ offers[o].version < MaxVersion
  /\ offers' = [offers EXCEPT ![o] =
       [status |-> status, past |-> past,
        version |-> IF @.status = status THEN @.version + 1 ELSE @.version]]

WriteOffer(o, status, past) ==
  /\ offers[o].version < MaxVersion
  /\ offers' = [offers EXCEPT ![o] = [status |-> status, version |-> @.version + 1,
                                      past |-> past]]

\* New details, of a draft or, with a reason, of a sent offer.
UpdateOffer(o, why) ==
  /\ AtOffer /\ offers[o].status \in {"draft", "sent"}
  /\ \E past \in BOOLEAN : WriteOffer(o, offers[o].status, past)
  /\ Keep /\ TakesEffect("update_offer", o, offers[o].version, why)
  /\ UNCHANGED <<ivs, reopened, twin>>

\* An offer moves to a status, and takes the application with it.
TransitionOffer(o, status, why) ==
  /\ AtOffer
  /\ offers[o].status = IF status = "sent" THEN "draft" ELSE "sent"
  /\ status \in {"sent", "accepted"} => ~offers[o].past
  /\ status = "expired" => offers[o].past
  /\ WriteOffer(o, status, offers[o].past)
  /\ CASE status = "sent" -> Keep
       [] status = "accepted" -> Move(Passed("offer_accepted"), "offer_accepted", 0, o)
       [] OTHER -> Move(Ended("offer", OfferOutcome[status]), "none", 0, o)
  /\ TakesEffect(status, o, offers[o].version, why)
  /\ UNCHANGED <<ivs, reopened, twin>>

\* valid_until goes by.
DayPasses(o) ==
  /\ ~offers[o].past /\ o \in Current
  /\ offers' = [offers EXCEPT ![o].past = TRUE]
  /\ Keep /\ UNCHANGED <<ivs, reopened, twin, done, again>>

\* Admission and hire need the accepted offer, and leave its version alone.
ConfirmMilestone(op, from, to, kind, why) ==
  \E o \in Current :
    /\ offers[o].status = "accepted"
    /\ app = Passed(from)
    /\ Move(to, kind, 0, o)
    /\ TakesEffect(op, o, offers[o].version, why)
    /\ UNCHANGED <<ivs, offers, reopened, twin>>

ConfirmAdmission(why) ==
  ConfirmMilestone("admit", "offer_accepted", Passed("admitted"), "application_admitted", why)
ConfirmHire(why) ==
  ConfirmMilestone("hire", "admitted", Ended("hired", "hired"), "none", why)

\* The candidate withdraws or the company cancels: the stage stays, so do the records.
EndApplication(outcome, why) ==
  /\ IsActive /\ app.decision = "passed" /\ app.stage \in Stage9
  /\ LET offer == IF Current = {} THEN 0 ELSE CHOOSE o \in Current : TRUE
         iv == IF app.stage = "interview" THEN Len(ivs) ELSE 0
         ver == CASE offer # 0 -> offers[offer].version
                  [] offer = 0 /\ iv # 0 -> ivs[iv].version
                  [] OTHER -> 0
     IN /\ Move(Ended(app.stage, outcome), "none", iv, offer)
        /\ TakesEffect(outcome, 0, ver, why)
  /\ UNCHANGED <<ivs, offers, reopened, twin>>

-----------------------------------------------------------------------------
(* offer_service: reopen_stage9 *)

\* _supporting_history_for_reopen
Supporting ==
  CASE app.life = "ended" /\ support["end"].outcome = app.outcome -> support["end"]
    [] app = Passed("offer_accepted") -> support["offer_accepted"]
    [] app = Passed("admitted") -> support["application_admitted"]
    [] OTHER -> NoHistory

OfferBacks(status, ver) ==
  LET o == Supporting.offer IN
  o # 0 /\ offers[o].status = status /\ offers[o].version = ver
RoundBacks(ver) == Supporting.iv # 0 /\ ivs[Supporting.iv].version = ver

AcceptanceReopens(ver) == app = Passed("offer_accepted") /\ OfferBacks("accepted", ver)
AdmissionReopens(ver) == app = Passed("admitted") /\ OfferBacks("accepted", ver)
HireReopens(ver) == app = Ended("hired", "hired") /\ OfferBacks("accepted", ver)
OfferEndReopens(ver) ==
  \E s \in DOMAIN OfferOutcome :
    app.life = "ended" /\ app.outcome = OfferOutcome[s] /\ OfferBacks(s, ver)
RejectionReopens(ver) ==
  /\ app.life = "ended" /\ app.outcome = "interview_rejected" /\ RoundBacks(ver)
  /\ ivs[Supporting.iv].status = "completed" /\ ivs[Supporting.iv].decision = "rejected"
NoShowReopens(ver) ==
  /\ app.life = "ended" /\ app.outcome = "interview_no_show" /\ RoundBacks(ver)
  /\ ivs[Supporting.iv].status = "no_show"

\* _restore_pre_end_stage: which record's version the call must carry.
EndReopens(ver) ==
  LET h == Supporting IN
  /\ app.life = "ended" /\ app.outcome \in {"candidate_withdrew", "company_canceled"}
  /\ h.life = "active" /\ h.stage \in Stage9
  /\ CASE h.offer # 0 -> offers[h.offer].version = ver
       [] h.offer = 0 /\ h.stage \in {"offer_accepted", "admitted"} ->
            \E o \in Current : offers[o].status = "accepted" /\ offers[o].version = ver
       [] h.offer = 0 /\ h.stage \in Stage9 \ {"offer_accepted", "admitted"} /\ h.iv # 0 ->
            RoundBacks(ver)
       [] OTHER -> ver = 0

Reopens(ver) ==
  \/ AcceptanceReopens(ver) \/ AdmissionReopens(ver) \/ HireReopens(ver)
  \/ OfferEndReopens(ver) \/ RejectionReopens(ver) \/ NoShowReopens(ver) \/ EndReopens(ver)

\* _latest_application_activity_matches: taken for a repetition of the last reopening.
TakenForRepeat(ver, why) == reopened = [ver |-> ver, why |-> why, to |-> app]

\* The decision of the round behind a feedback that ended the application is open again.
RoundReopened == WriteRound(Supporting.iv, "completed", "pending")

ReopenStage9(ver, why) ==
  /\ ~TakenForRepeat(ver, why)
  /\ app.life = "ended" => MayBeActive
  /\ \/ /\ AcceptanceReopens(ver)
        /\ WriteOffer(Supporting.offer, "sent", offers[Supporting.offer].past)
        /\ Move(Passed("offer"), "none", 0, Supporting.offer) /\ UNCHANGED ivs
     \/ /\ AdmissionReopens(ver)
        /\ Move(Passed("offer_accepted"), "none", 0, Supporting.offer)
        /\ UNCHANGED <<ivs, offers>>
     \/ /\ HireReopens(ver)
        /\ Move(Passed("admitted"), "none", 0, Supporting.offer)
        /\ UNCHANGED <<ivs, offers>>
     \/ /\ OfferEndReopens(ver)
        /\ Move(Passed("offer"), "none", 0, Supporting.offer) /\ UNCHANGED <<ivs, offers>>
     \/ /\ RejectionReopens(ver) /\ RoundReopened
        /\ Move(Passed("interview"), "none", Supporting.iv, 0) /\ UNCHANGED offers
     \/ /\ NoShowReopens(ver)
        /\ Move(Passed("interview"), "none", Supporting.iv, 0) /\ UNCHANGED <<ivs, offers>>
     \/ /\ EndReopens(ver)
        /\ Move(Passed(Supporting.stage), "none", Supporting.iv, Supporting.offer)
        /\ IF /\ app.outcome = "candidate_withdrew" /\ Supporting.offer = 0
              /\ Supporting.iv # 0
              /\ ivs[Supporting.iv].decision = "candidate_withdrew"
           THEN RoundReopened ELSE UNCHANGED ivs
        /\ UNCHANGED offers
  /\ reopened' = [ver |-> ver, why |-> why, to |-> app']
  /\ TakesEffect("reopen", 0, ver, why)
  /\ UNCHANGED twin

\* Another application of the candidate for the job comes or goes.
TwinChanges ==
  /\ ~twin => ~IsActive
  /\ twin' = ~twin
  /\ Keep /\ UNCHANGED <<ivs, offers, reopened, done, again>>

-----------------------------------------------------------------------------
DecisionStep ==
  \/ PassApplication \/ BackupApplication \/ RejectApplication
  \/ UndoRejection \/ VoidApplication \/ ScreeningHandoff

InterviewStep ==
  \/ ScheduleInterview
  \/ \E i \in DOMAIN ivs :
       \/ RescheduleInterview(i)
       \/ \E why \in Reasons :
            \/ CancelInterview(i, why) \/ MarkNoShow(i, why) \/ EndByNoShow(i, why)
            \/ \E d \in FeedbackDecisions :
                 SubmitFeedback(i, d, why) \/ UpdateFeedback(i, d, why)

OfferStep ==
  \/ CreateOffer
  \/ \E o \in DOMAIN offers :
       \/ DayPasses(o)
       \/ \E why \in Reasons :
            \/ UpdateOffer(o, why)
            \/ \E s \in OfferStatuses \ {"draft"} : TransitionOffer(o, s, why)

EndStep ==
  \E why \in Reasons :
    \/ ConfirmAdmission(why) \/ ConfirmHire(why)
    \/ \E outcome \in {"candidate_withdrew", "company_canceled"} : EndApplication(outcome, why)
    \/ \E ver \in 0..MaxVersion : ReopenStage9(ver, why)

Next == DecisionStep \/ InterviewStep \/ OfferStep \/ EndStep \/ TwinChanges

Spec == Init /\ [][Next]_vars

-----------------------------------------------------------------------------
TypeOK ==
  /\ app \in [life : Lives, stage : Stages, decision : HrDecisions, outcome : Outcomes \cup {"none"}]
  /\ ivs \in Seq(Round) /\ Len(ivs) <= MaxRounds
  /\ offers \in Seq(Offer) /\ Len(ivs) + Len(offers) <= MaxRecords
  /\ support \in [Kinds -> History]
  /\ twin \in BOOLEAN
  /\ done \subseteq Calls /\ again \subseteq done

\* No sequence of calls runs into a CHECK or a partial unique index of the
\* three tables, whose violation the handlers answer with an error 500: the
\* outcome of an ended application, one scheduled round, one active offer, no
\* decision on a round that did not take place.  The one exception: to void an
\* application that was hired, which the code tries and the CHECK refuses.
RowConstraints ==
  /\ TypeOK
  /\ RowAccepted(app)
  /\ RowAccepted(Voided) \/ app = Ended("hired", "hired")
  /\ Cardinality({i \in DOMAIN ivs : ivs[i].status = "scheduled"}) <= 1
  /\ \A i \in DOMAIN ivs : ivs[i].status # "completed" => ivs[i].decision = "pending"
  /\ Cardinality(Current) <= 1
  /\ ~(IsActive /\ twin)

\* The stage HR sees is backed by the records below it, whatever was ended and
\* reopened before: no round before the pass, an undecided latest round at the
\* interview stage, a round that asked for an offer and no accepted offer at the
\* offer stage, exactly the accepted offer from there on.
StageBacked ==
  app.life # "voided" =>
    /\ app.stage \in ScreeningStages => ivs = <<>> /\ offers = <<>>
    /\ AtInterview =>
         /\ ivs # <<>> /\ offers = <<>>
         /\ \A i \in DOMAIN ivs : ivs[i].decision \in {"pending", "next_round"}
    /\ app.stage \in {"offer", "offer_accepted", "admitted", "hired"} =>
         Latest(ivs).decision = "proceed_offer"
    /\ app.stage = "offer" => \A o \in Current : offers[o].status # "accepted"
    /\ app.stage \in {"offer_accepted", "admitted", "hired"} =>
         \E o \in Current : offers[o].status = "accepted"

\* The screening centre shows the reopening for every application that ended
\* after the pass, and for an accepted or admitted one: there is always a
\* version with which the reopening finds what it needs.
ReopenShown ==
  \/ app \in {Passed("offer_accepted"), Passed("admitted")}
  \/ app.life = "ended" /\ app.decision = "passed"
ReopenSupported == ReopenShown => \E ver \in 0..MaxVersion : Reopens(ver)

\* What HR sees of an application has its records, while it runs and when it is reopened.
RecordsBacked == StageBacked /\ ReopenSupported

\* Calls about a round or an offer, delivered twice, take effect once, even
\* when the application was ended and reopened in between.
RecordCallsOnce == \A c \in again : c.op \notin RecordCalls

\* Once rounds exist, nothing but the voiding and the stage 9 outcomes touch
\* the application: HR's decision stays, and so do the decisions on rounds,
\* except where an application that ended with one is reopened.
DecidedStays ==
  /\ ivs # <<>> => app'.decision = app.decision
  /\ \A i \in DOMAIN ivs :
       ivs[i].decision \notin {"pending", ivs'[i].decision} =>
         app.life = "ended" /\ app'.life = "active"

\* What an ended or voided application left behind stays as it was: rounds and
\* offers change their status only while the application is active.
EndedStays ==
  app.life # "active" =>
    /\ \A i \in DOMAIN ivs : ivs'[i].status = ivs[i].status
    /\ \A o \in DOMAIN offers : offers'[o].status = offers[o].status
    /\ Len(ivs') = Len(ivs) /\ Len(offers') = Len(offers)

\* No call, late or in time, rewrites what was decided or what an end left behind.
DecisionsStay == [][DecidedStays /\ EndedStays]_vars
=============================================================================
