-------------------------- MODULE RecruitmentViews --------------------------
(***************************************************************************)
(* What HR is shown of the pipeline: the actions the screening centre       *)
(* offers for an application (screening_center_service), its place in the   *)
(* funnel and in the to-do list of the statistics                           *)
(* (recruitment_statistics_service).  Both read the rows; neither is told   *)
(* by the services what these accept, so they have to agree by themselves.  *)
(***************************************************************************)
EXTENDS RecruitmentPipeline

VARIABLE visited  \* the to_recruitment_stage of the application's stage_histories

viewVars == <<vars, visited>>

ViewInit == Init /\ visited = {}

\* Every change of the application comes with a history row.
ViewNext ==
  /\ Next
  /\ visited' = IF app' = app THEN visited ELSE visited \cup {app'.stage}

ViewSpec == ViewInit /\ [][ViewNext]_viewVars

-----------------------------------------------------------------------------
(* _allowed_actions *)

LatestOfferStatus == IF offers = <<>> THEN "none" ELSE Latest(offers).status

\* What a bug would do: the actions for a draft also for a sent offer.
BugOfferActions(status) ==
  CASE status \notin ActiveOffers -> {"create_offer"}
    [] status \in {"draft", "sent"} -> {"edit_offer", "send_offer"}
    [] OTHER -> {}

OfferActions(status) ==
  CASE status \notin ActiveOffers -> {"create_offer"}
    [] status = "draft" -> {"edit_offer", "send_offer"}
    [] status = "sent" ->
         {"edit_offer", "accept_offer", "decline_offer", "withdraw_offer", "expire_offer"}
    [] OTHER -> {}

Shown ==
  UNION {
    IF IsActive /\ app.stage \in ScreeningStages
    THEN {a \in {"pass", "backup", "reject", "schedule_interview"} :
            CASE a = "pass" -> app.decision \in {"pending", "backup"}
              [] a = "backup" -> app.decision \in {"pending", "passed"}
              [] a = "reject" -> app.decision \in {"pending", "passed", "backup"}
              [] OTHER -> app.decision = "passed" /\ app.stage = "screening_passed"}
    ELSE {},
    IF IsActive /\ app.decision = "passed" /\ app.stage \in Stage9
    THEN {"withdraw_application", "cancel_process"} ELSE {},
    IF IsActive /\ app.stage = "offer" THEN OfferActions(LatestOfferStatus) ELSE {},
    IF IsActive /\ app.stage = "offer_accepted"
    THEN {"confirm_admission", "reopen_stage9"} ELSE {},
    IF IsActive /\ app.stage = "admitted" THEN {"confirm_hire", "reopen_stage9"} ELSE {},
    IF app = State("ended", "rejected", "rejected", "screening_rejected")
    THEN {"undo_rejection"} ELSE {},
    IF app.life = "ended" /\ app.decision = "passed" THEN {"reopen_stage9"} ELSE {} }

\* The shown actions that the service would carry out now, with the versions
\* HR sees (the bounds of the model left aside): the guards of the pipeline.
OfferIn(statuses) == AtOffer /\ \E o \in Current : offers[o].status \in statuses
HasAccepted == \E o \in Current : offers[o].status = "accepted"
Accepted(a) ==
  CASE a = "pass" -> IsActive /\ app.stage \in ScreeningStages /\ app.decision \in {"pending", "backup"}
    [] a = "backup" -> IsActive /\ app.stage \in ScreeningStages /\ app.decision \in {"pending", "passed"}
    [] a = "reject" ->
         IsActive /\ app.stage \in ScreeningStages /\ app.decision \in {"pending", "passed", "backup"}
    [] a = "schedule_interview" -> app = Passed("screening_passed") /\ ivs = <<>>
    [] a \in {"withdraw_application", "cancel_process"} ->
         IsActive /\ app.decision = "passed" /\ app.stage \in Stage9
    [] a = "create_offer" -> AtOffer /\ Current = {}
    [] a = "edit_offer" -> OfferIn({"draft", "sent"})
    [] a = "send_offer" -> OfferIn({"draft"})
    [] a \in {"accept_offer", "decline_offer", "withdraw_offer", "expire_offer"} -> OfferIn({"sent"})
    [] a = "confirm_admission" -> app = Passed("offer_accepted") /\ HasAccepted
    [] a = "confirm_hire" -> app = Passed("admitted") /\ HasAccepted
    [] a = "undo_rejection" -> app = State("ended", "rejected", "rejected", "screening_rejected")
    [] OTHER -> \E ver \in 0..MaxVersion : Reopens(ver)

-----------------------------------------------------------------------------
(* _funnel_counts and _todo_snapshot, for one application *)

Steps == <<"applications", "screening_passed", "interview_entered", "interview_completed",
           "offer_sent", "offer_accepted", "admitted", "hired">>

AcceptedOnce == HasAccepted \/ visited \cap {"offer_accepted", "admitted", "hired"} # {}

\* What a bug would do: an admission counts only as long as it stands.
BugAdmittedOnce == app.stage = "admitted" \/ app.outcome = "hired"

AdmittedOnce == "admitted" \in visited \/ app.outcome = "hired"

Entered == \E i \in DOMAIN ivs : ivs[i].status # "canceled"

Counted(step) ==
  CASE step = "applications" -> TRUE
    [] step = "screening_passed" -> "screening_passed" \in visited
    [] step = "interview_entered" -> Entered
    [] step = "interview_completed" -> \E i \in DOMAIN ivs : ivs[i].status = "completed"
    [] step = "offer_sent" -> \E o \in DOMAIN offers : offers[o].status # "draft"
    [] step = "offer_accepted" -> AcceptedOnce
    [] step = "admitted" -> AdmittedOnce
    [] OTHER -> app.outcome = "hired"

NextRoundMissing(i) ==
  ivs[i].status = "completed" /\ ivs[i].decision = "next_round" /\ i + 1 \notin DOMAIN ivs

\* The application waits for its scheduled interview, for a decision, for the next
\* round, or with an offer or an admission.
Waits(todo) ==
  \/ /\ app.stage = "interview"
     /\ \E i \in DOMAIN ivs :
          \/ todo = "scheduled" /\ ivs[i].status = "scheduled"
          \/ todo = "pending" /\ ivs[i].status = "completed" /\ ivs[i].decision = "pending"
          \/ todo = "next_round" /\ NextRoundMissing(i)
  \/ /\ todo \in {"draft", "sent"} /\ app.stage = "offer"
     /\ \E o \in DOMAIN offers : offers[o].status = todo
  \/ /\ todo = "accepted" /\ app.stage = "offer_accepted"
     /\ \E o \in DOMAIN offers : offers[o].status = "accepted"
  \/ todo = "admitted" /\ app.stage = "admitted"

Todos ==
  IF IsActive
  THEN {todo \in {"scheduled", "pending", "next_round", "draft", "sent", "accepted", "admitted"} :
          Waits(todo)}
  ELSE {}

-----------------------------------------------------------------------------
\* Whatever way an application took, an action shown for it is one the
\* service accepts (except while another application of the candidate for the
\* job is active, and for what the offer's date forbids).
ShownAccepted == \A a \in Shown : Accepted(a)

\* The funnel is one: an application counted at a step is counted at each
\* step before, also after cancellations, reopenings and corrections.
FunnelNested ==
  \A n \in 1..(Len(Steps) - 1) : Counted(Steps[n + 1]) => Counted(Steps[n])

\* What was reached once stays counted, whatever is reopened later; only the
\* first interview (by its cancellation) and the hire can be undone.
FunnelKeeps ==
  [][\A step \in {"screening_passed", "interview_completed", "offer_sent", "offer_accepted",
                  "admitted"} : Counted(step) => Counted(step)']_viewVars

\* The total of the to-do list counts no application twice.
TodoOnce == Cardinality(Todos) <= 1

\* What the screening centre and the statistics show fits what the services do.
ViewsAgree == ShownAccepted /\ FunnelNested /\ TodoOnce
=============================================================================
