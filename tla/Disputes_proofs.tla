--------------------------- MODULE Disputes_proofs ---------------------------
(***************************************************************************)
(* Proofs about DisputeApi and DisputeSteps, for any set of payments and   *)
(* of case numbers, any limit on info requests and any number of handlers  *)
(* in the air.                                                             *)
(*                                                                         *)
(* DisputeApi: first, what the two state machines let each event do; then, *)
(* what each handler does to the payout and to the case, in those terms;   *)
(* then, that the invariant is preserved; last, what becomes of the anchor *)
(* queue.  DisputeSteps: the same of every step of a handler.              *)
(* DisputeStepsSerial: that handlers which do not overlap implement        *)
(* DisputeApi.                                                             *)
(***************************************************************************)
EXTENDS DisputeStepsSerial, SequenceTheorems, FiniteSetTheorems, TLAPS

-----------------------------------------------------------------------------
(***************************************************************************)
(* DisputeApi.                                                             *)
(***************************************************************************)

(* An event that a table accepts took one of its edges.                     *)
LEMMA TakesAnEdge ==
  ASSUME NEW edges, NEW from, NEW event, TakeEdge(edges, from, event) # Illegal
  PROVE  \E edge \in edges :
           edge[1] = from /\ edge[2] = event /\ edge[3] = TakeEdge(edges, from, event)
BY DEF TakeEdge

(* A payment event that is accepted took an edge of the payment machine.    *)
LEMMA EdgeTaken ==
  ASSUME NEW from, NEW event, ApplyPaymentEvent(from, event) # Illegal
  PROVE  \E edge \in PAYMENT_EDGES :
           edge[1] = from /\ edge[2] = event /\ edge[3] = ApplyPaymentEvent(from, event)
BY TakesAnEdge DEF ApplyPaymentEvent

(* Both tables are deterministic: an edge is what the event does.           *)
LEMMA EdgeIsTaken ==
  ASSUME NEW edge \in PAYMENT_EDGES
  PROVE  ApplyPaymentEvent(edge[1], edge[2]) = edge[3]
BY DEF ApplyPaymentEvent, TakeEdge, PAYMENT_EDGES

(* The same of the case machine.                                            *)
LEMMA CaseEdgeIsTaken ==
  ASSUME NEW edge \in CASE_EDGES
  PROVE  TakeEdge(CASE_EDGES, edge[1], edge[2]) = edge[3]
BY DEF TakeEdge, CASE_EDGES

(* A case event that is accepted took an edge of the case machine.          *)
LEMMA CaseEdgeTaken ==
  ASSUME NEW st, NEW n, NEW event, ApplyCaseEvent(st, n, event) # Illegal
  PROVE  /\ ~ (event = "request_info" /\ n >= MAX_INFO_REQUESTS)
         /\ \E edge \in CASE_EDGES :
              edge[1] = st /\ edge[2] = event /\ edge[3] = ApplyCaseEvent(st, n, event)
BY TakesAnEdge DEF ApplyCaseEvent

(* A dispute is opened on a payout that no dispute holds.                   *)
LEMMA DisputeOpens ==
  ASSUME NEW from, ApplyPaymentEvent(from, "dispute_opened") # Illegal
  PROVE  from \notin Held /\ ApplyPaymentEvent(from, "dispute_opened") = "DISPUTED"
BY EdgeTaken DEF PAYMENT_EDGES, Held

(* A decision against the refund releases a disputed payout.                *)
LEMMA ClearReleases ==
  ASSUME NEW from, NEW outcome, ClearedStatus(from, outcome) # Illegal
  PROVE  from = "DISPUTED" /\ ClearedStatus(from, outcome) = "WITHDRAWABLE"
<1> DEFINE event   == IF outcome = "release" THEN "decision_release" ELSE "decision_no_action"
           cleared == ApplyPaymentEvent(from, event)
<1>1. cleared # Illegal
  BY DEF ClearedStatus, Illegal
<1>2. from = "DISPUTED" /\ cleared = "CLEARED"
  BY <1>1, EdgeTaken DEF PAYMENT_EDGES
<1>3. ApplyPaymentEvent("CLEARED", "lockup_end_after_clear") = "WITHDRAWABLE"
  BY EdgeIsTaken DEF PAYMENT_EDGES
<1> QED BY <1>2, <1>3 DEF ClearedStatus

(* A refund seen on chain is recorded on a disputed payout only.            *)
LEMMA RefundConfirms ==
  ASSUME NEW from, NEW debt \in BOOLEAN, RefundedStatus(from, debt) # Illegal
  PROVE  from = "DISPUTED" /\ RefundedStatus(from, debt) \in {"REFUNDED", "DEBT_OUTSTANDING"}
<1> DEFINE refunded == ApplyPaymentEvent(from, "refund_confirmed")
<1>1. refunded # Illegal
  BY DEF RefundedStatus, Illegal
<1>2. from = "DISPUTED" /\ refunded = "REFUNDED"
  BY <1>1, EdgeTaken DEF PAYMENT_EDGES
<1>3. ApplyPaymentEvent("REFUNDED", "refund_short_balance") = "DEBT_OUTSTANDING"
  BY EdgeIsTaken DEF PAYMENT_EDGES
<1> QED BY <1>2, <1>3 DEF RefundedStatus

(* The stamp of the browser makes a disputed payout REFUNDED.               *)
LEMMA StampRefunds == ApplyPaymentEvent("DISPUTED", "refund_confirmed") = "REFUNDED"
BY EdgeIsTaken DEF PAYMENT_EDGES

(* The events of the clock and of a withdrawal move no held payout.         *)
LEMMA LockupEnds ==
  ASSUME NEW from, NEW event \in {"lockup_end_no_dispute", "lockup_end_after_clear", "withdraw"},
         ApplyPaymentEvent(from, event) # Illegal
  PROVE  /\ from \notin Held
         /\ ApplyPaymentEvent(from, event) \in {"WITHDRAWABLE", "WITHDRAWN"}
BY EdgeTaken DEF PAYMENT_EDGES, Held

(* A debt is settled once, from DEBT_OUTSTANDING.                           *)
LEMMA DebtSettles ==
  ASSUME NEW from, ApplyPaymentEvent(from, "next_payment_absorbs_debt") # Illegal
  PROVE  /\ from = "DEBT_OUTSTANDING"
         /\ ApplyPaymentEvent(from, "next_payment_absorbs_debt") = "DEBT_SETTLED"
BY EdgeTaken DEF PAYMENT_EDGES

-----------------------------------------------------------------------------
Undecided == {"AWAITING_RESPONSE", "UNDER_REVIEW"}

(* The notice of a new case is served in any case.                          *)
LEMMA NoticeServed == ApplyCaseEvent("OPEN", 0, "notice_served") = "AWAITING_RESPONSE"
<1>1. <<"OPEN", "notice_served", "AWAITING_RESPONSE">> \in CASE_EDGES
  BY DEF CASE_EDGES
<1> QED BY <1>1, CaseEdgeIsTaken DEF ApplyCaseEvent

(* A reply moves an undecided case only, and to UNDER_REVIEW.               *)
LEMMA ReplyReviews ==
  ASSUME NEW st, NEW n, ApplyCaseEvent(st, n, "reply_received") # Illegal
  PROVE  st \in Undecided /\ ApplyCaseEvent(st, n, "reply_received") = "UNDER_REVIEW"
BY CaseEdgeTaken DEF CASE_EDGES, Undecided

(* A deadline moves a case that awaits a reply only.                        *)
LEMMA DeadlineReviews ==
  ASSUME NEW st, NEW n, ApplyCaseEvent(st, n, "deadline_passed") # Illegal
  PROVE  st \in Undecided /\ ApplyCaseEvent(st, n, "deadline_passed") = "UNDER_REVIEW"
BY CaseEdgeTaken DEF CASE_EDGES, Undecided

(* What ReviewThen accepts, it accepts from an undecided case.              *)
LEMMA ReviewedFirst ==
  ASSUME NEW st, NEW n, NEW event \in {"request_info", "decision_recorded"},
         ReviewThen(st, n, event) # Illegal
  PROVE  /\ st \in Undecided
         /\ ~ (event = "request_info" /\ n >= MAX_INFO_REQUESTS)
         /\ ReviewThen(st, n, event) =
              IF event = "request_info" THEN "AWAITING_RESPONSE" ELSE "DECIDED"
<1> DEFINE reviewed == IF st = "AWAITING_RESPONSE"
                       THEN ApplyCaseEvent(st, n, "deadline_passed") ELSE st
<1>1. ReviewThen(st, n, event) = ApplyCaseEvent(reviewed, n, event)
  BY DEF ReviewThen
<1>2. /\ ~ (event = "request_info" /\ n >= MAX_INFO_REQUESTS)
      /\ \E edge \in CASE_EDGES :
           edge[1] = reviewed /\ edge[2] = event /\ edge[3] = ReviewThen(st, n, event)
  BY <1>1, CaseEdgeTaken
<1> HIDE DEF reviewed
<1>3. /\ reviewed = "UNDER_REVIEW"
      /\ ReviewThen(st, n, event) =
           IF event = "request_info" THEN "AWAITING_RESPONSE" ELSE "DECIDED"
  BY <1>2 DEF CASE_EDGES
<1> QED BY <1>2, <1>3 DEF reviewed, Undecided

(* A decided case closes, directly or through EXECUTED.                     *)
LEMMA DecidedCloses ==
  ASSUME NEW n
  PROVE  /\ ApplyCaseEvent("DECIDED", n, "close") = "CLOSED"
         /\ ApplyCaseEvent(ApplyCaseEvent("DECIDED", n, "refund_confirmed"), n, "close") = "CLOSED"
<1>1. /\ <<"DECIDED", "close", "CLOSED">> \in CASE_EDGES
      /\ <<"DECIDED", "refund_confirmed", "EXECUTED">> \in CASE_EDGES
      /\ <<"EXECUTED", "close", "CLOSED">> \in CASE_EDGES
  BY DEF CASE_EDGES
<1>2. /\ TakeEdge(CASE_EDGES, "DECIDED", "close") = "CLOSED"
      /\ TakeEdge(CASE_EDGES, "DECIDED", "refund_confirmed") = "EXECUTED"
      /\ TakeEdge(CASE_EDGES, "EXECUTED", "close") = "CLOSED"
  BY <1>1, CaseEdgeIsTaken
<1> QED BY <1>2 DEF ApplyCaseEvent

-----------------------------------------------------------------------------
(* What each handler does to the payout and the case.                       *)

(* openDispute: an unheld payout becomes DISPUTED, a new case is served.    *)
LEMMA OpenDisputeEffect ==
  ASSUME TypeOK, NEW p \in Payments, NEW c \in CaseIds, OpenDispute(p, c)
  PROVE  /\ OpenCasesOn(p) = {} /\ caseStatus[c] = NoCase
         /\ payoutStatus[p] \notin Held
         /\ payoutStatus' = [payoutStatus EXCEPT ![p] = "DISPUTED"]
         /\ caseStatus' = [caseStatus EXCEPT ![c] = "AWAITING_RESPONSE"]
BY DisputeOpens, NoticeServed DEF OpenDispute, MovePayout, MoveCase

(* submitResponse moves an undecided case to review, or no case.            *)
LEMMA SubmitResponseEffect ==
  ASSUME TypeOK, NEW c \in CaseIds, NEW author, NEW withEvidence,
         SubmitResponse(c, author, withEvidence)
  PROVE  \/ UNCHANGED caseStatus
         \/ /\ caseStatus[c] \in Undecided
            /\ caseStatus' = [caseStatus EXCEPT ![c] = "UNDER_REVIEW"]
BY ReplyReviews DEF SubmitResponse, TypeOK

(* requestInfo: an undecided case awaits a reply; the counter stays in its bound.*)
LEMMA RequestInfoEffect ==
  ASSUME TypeOK, NEW c \in CaseIds, NEW target, RequestInfo(c, target)
  PROVE  /\ caseStatus[c] \in Undecided
         /\ infoRequestCount[c] < MAX_INFO_REQUESTS
         /\ caseStatus' = [caseStatus EXCEPT ![c] = "AWAITING_RESPONSE"]
<1>1. ReviewThen(caseStatus[c], infoRequestCount[c], "request_info") # Illegal
  BY DEF RequestInfo, MoveCase
<1>2. infoRequestCount[c] \in Nat
  <2>1. infoRequestCount \in [CaseIds -> 0..MAX_INFO_REQUESTS]
    BY DEF TypeOK
  <2> QED BY <2>1, MaxInfoRequestsAssumption
<1>3. /\ caseStatus[c] \in Undecided
      /\ ~ (infoRequestCount[c] >= MAX_INFO_REQUESTS)
      /\ ReviewThen(caseStatus[c], infoRequestCount[c], "request_info") = "AWAITING_RESPONSE"
  BY <1>1, ReviewedFirst
<1>4. infoRequestCount[c] < MAX_INFO_REQUESTS
  BY <1>2, <1>3, MaxInfoRequestsAssumption
<1> QED BY <1>3, <1>4 DEF RequestInfo, MoveCase

(* A refund decision decides an undecided case.                             *)
LEMMA DecideRefundEffect ==
  ASSUME TypeOK, NEW c \in CaseIds, DecideRefund(c)
  PROVE  /\ caseStatus[c] \in Undecided
         /\ caseStatus' = [caseStatus EXCEPT ![c] = "DECIDED"]
<1>1. ReviewThen(caseStatus[c], infoRequestCount[c], "decision_recorded") # Illegal
  BY DEF DecideRefund, MoveCase
<1> QED BY <1>1, ReviewedFirst DEF DecideRefund, MoveCase

(* Any other decision closes an undecided case and releases its disputed payout.*)
LEMMA DecideClearEffect ==
  ASSUME TypeOK, NEW c \in CaseIds, NEW outcome \in {"release", "no_action"},
         DecideClear(c, outcome)
  PROVE  /\ caseStatus[c] \in Undecided
         /\ payoutStatus[payoutRef[c]] = "DISPUTED"
         /\ payoutStatus' = [payoutStatus EXCEPT ![payoutRef[c]] = "WITHDRAWABLE"]
         /\ caseStatus' = [caseStatus EXCEPT ![c] = "CLOSED"]
<1> DEFINE n == infoRequestCount[c]
           decided == ReviewThen(caseStatus[c], n, "decision_recorded")
<1>1. decided # Illegal
  BY DEF DecideClear
<1>2. caseStatus[c] \in Undecided /\ decided = "DECIDED"
  BY <1>1, ReviewedFirst
<1>3. caseStatus' = [caseStatus EXCEPT ![c] = "CLOSED"]
  BY <1>2, DecidedCloses DEF DecideClear, MoveCase
<1>4. /\ ClearedStatus(payoutStatus[payoutRef[c]], outcome) # Illegal
      /\ payoutStatus' = [payoutStatus EXCEPT ![payoutRef[c]] =
                            ClearedStatus(payoutStatus[payoutRef[c]], outcome)]
  BY DEF DecideClear, MovePayout
<1> QED BY <1>2, <1>3, <1>4, ClearReleases

(* The stamp of the browser closes the case and ends the dispute on the payout.*)
LEMMA StampRefundTxEffect ==
  ASSUME TypeOK, NEW c \in CaseIds, StampRefundTx(c)
  PROVE  /\ RefundDecided(c) \/ ReleaseDecided(c)
         /\ caseStatus[c] # NoCase
         /\ payoutStatus' = [payoutStatus EXCEPT ![payoutRef[c]] =
                               IF @ = "DISPUTED" THEN "REFUNDED" ELSE @]
         /\ caseStatus' = [caseStatus EXCEPT ![c] = "CLOSED"]
BY StampRefunds DEF StampRefundTx, HasHash

(* The indexer ends the dispute on the payout and closes its decided case if any.*)
LEMMA ConfirmRefundEffect ==
  ASSUME TypeOK, NEW p \in Payments, NEW debtRecorded \in BOOLEAN,
         ConfirmRefundExecuted(p, debtRecorded)
  PROVE  /\ payoutStatus[p] = "DISPUTED"
         /\ \E to \in {"REFUNDED", "DEBT_OUTSTANDING"} :
              payoutStatus' = [payoutStatus EXCEPT ![p] = to]
         /\ \/ \E c \in DecidedOn(p) : caseStatus' = [caseStatus EXCEPT ![c] = "CLOSED"]
            \/ UNCHANGED caseStatus
<1>1. /\ RefundedStatus(payoutStatus[p], debtRecorded) # Illegal
      /\ payoutStatus' = [payoutStatus EXCEPT ![p] =
                            RefundedStatus(payoutStatus[p], debtRecorded)]
  BY DEF ConfirmRefundExecuted, MovePayout
<1>2. ASSUME NEW c \in DecidedOn(p) PROVE ExecutedThenClosed(c) = "CLOSED"
  BY DecidedCloses DEF DecidedOn, ExecutedThenClosed
<1>3. \/ \E c \in DecidedOn(p) : caseStatus' = [caseStatus EXCEPT ![c] = "CLOSED"]
      \/ UNCHANGED caseStatus
  BY <1>2 DEF ConfirmRefundExecuted, MoveCase
<1> QED BY <1>1, <1>3, RefundConfirms

(* A withdrawal moves a payout that is not held, to one that is not.        *)
LEMMA ConfirmWithdrawnEffect ==
  ASSUME TypeOK, NEW p \in Payments, ConfirmWithdrawn(p)
  PROVE  /\ payoutStatus[p] \notin Held
         /\ \E to \in {"WITHDRAWABLE", "WITHDRAWN"} :
              payoutStatus' = [payoutStatus EXCEPT ![p] = to]
<1> DEFINE unlocked == IF payoutStatus[p] \in {"ESCROWED", "CLEARED"}
                       THEN ApplyPaymentEvent(payoutStatus[p], LockupEvent(payoutStatus[p]))
                       ELSE payoutStatus[p]
<1>1. /\ ApplyPaymentEvent(unlocked, "withdraw") # Illegal
      /\ payoutStatus' = [payoutStatus EXCEPT ![p] = ApplyPaymentEvent(unlocked, "withdraw")]
  BY DEF ConfirmWithdrawn, WithdrawnStatus, PayoutHook, MovePayout
<1> HIDE DEF unlocked
<1>2. /\ unlocked \notin Held
      /\ ApplyPaymentEvent(unlocked, "withdraw") \in {"WITHDRAWABLE", "WITHDRAWN"}
  BY <1>1, LockupEnds
<1>3. payoutStatus[p] \notin Held
  BY <1>2 DEF unlocked, Held
<1> QED BY <1>1, <1>2, <1>3

(* So does the end of a lockup.                                             *)
LEMMA LockupEndedEffect ==
  ASSUME TypeOK, NEW p \in Payments, LockupEnded(p)
  PROVE  /\ payoutStatus[p] \notin Held
         /\ \E to \in {"WITHDRAWABLE", "WITHDRAWN"} :
              payoutStatus' = [payoutStatus EXCEPT ![p] = to]
<1>1. LockupEvent(payoutStatus[p]) \in {"lockup_end_no_dispute", "lockup_end_after_clear"}
  BY DEF LockupEvent
<1> QED BY <1>1, LockupEnds DEF LockupEnded, PayoutHook, MovePayout

(* A settled debt keeps the payout held.                                    *)
LEMMA DebtSettledEffect ==
  ASSUME TypeOK, NEW p \in Payments, DebtSettled(p)
  PROVE  /\ payoutStatus[p] = "DEBT_OUTSTANDING"
         /\ payoutStatus' = [payoutStatus EXCEPT ![p] = "DEBT_SETTLED"]
BY DebtSettles DEF DebtSettled, PayoutHook, MovePayout

(* The scheduler and its hook move a case that awaits a reply to review.    *)
LEMMA DeadlinePassedEffect ==
  ASSUME TypeOK, NEW c \in CaseIds, DeadlinePassed(c)
  PROVE  /\ caseStatus[c] \in Undecided
         /\ caseStatus' = [caseStatus EXCEPT ![c] = "UNDER_REVIEW"]
BY DeadlineReviews DEF DeadlinePassed, MoveCase

-----------------------------------------------------------------------------
(* Types.                                                                   *)

(* The job kinds each handler enqueues.                                     *)
LEMMA Scripts ==
  /\ <<>> \in Seq(AnchorJobKind)
  /\ <<"case">> \in Seq(AnchorJobKind)
  /\ <<"response">> \in Seq(AnchorJobKind)
  /\ <<"under_review", "decision">> \in Seq(AnchorJobKind)
  /\ <<"under_review", "decision", "close_no_correction">> \in Seq(AnchorJobKind)
  /\ <<"correction_outstanding", "correction">> \in Seq(AnchorJobKind)
  /\ <<"under_review", "decision", "correction_outstanding", "correction">> \in Seq(AnchorJobKind)
BY DEF AnchorJobKind

LEMMA OpeningType == ASSUME NEW c \in CaseIds PROVE Opening(c) \in Seq(AnchorJobKind)
BY Scripts DEF Opening

(* Appending jobs keeps the queue well typed.                               *)
LEMMA EnqueueType ==
  ASSUME jobs \in [CaseIds -> Seq(AnchorJobKind)], NEW c \in CaseIds,
         NEW kinds \in Seq(AnchorJobKind), enqueueAnchor(c, kinds)
  PROVE  jobs' \in [CaseIds -> Seq(AnchorJobKind)]
<1>1. jobs[c] \o kinds \in Seq(AnchorJobKind)
  OBVIOUS
<1> QED BY <1>1 DEF enqueueAnchor

(* Appending a decision keeps the decisions well typed.                     *)
LEMMA DecisionsType ==
  ASSUME decisions \in [CaseIds -> Seq(DecisionOutcome)], NEW c \in CaseIds,
         NEW outcome \in DecisionOutcome
  PROVE  [decisions EXCEPT ![c] = Append(@, outcome)] \in [CaseIds -> Seq(DecisionOutcome)]
OBVIOUS

(* Every handler writes well-formed rows.                                   *)
LEMMA NextType == TypeOK /\ [Next]_vars => TypeOK'
<1> SUFFICES ASSUME TypeOK, [Next]_vars PROVE TypeOK'
  OBVIOUS
<1> USE DEF rowVars, chainVars
<1>1. ASSUME NEW p \in Payments, NEW c \in CaseIds, OpenDispute(p, c) PROVE TypeOK'
  <2>1. jobs' \in [CaseIds -> Seq(AnchorJobKind)]
    BY <1>1, EnqueueType, Scripts, OpeningType DEF OpenDispute, TypeOK
  <2>2. /\ caseStatus' \in [CaseIds -> CaseStatus \cup {NoCase}]
        /\ payoutRef' \in [CaseIds -> Payments \cup {NoPayout}]
        /\ \A d \in CaseIds : caseStatus'[d] = NoCase <=> payoutRef'[d] = NoPayout
    <3>1. /\ caseStatus \in [CaseIds -> CaseStatus \cup {NoCase}]
          /\ payoutRef \in [CaseIds -> Payments \cup {NoPayout}]
          /\ \A d \in CaseIds : caseStatus[d] = NoCase <=> payoutRef[d] = NoPayout
      BY DEF TypeOK
    <3>2. /\ caseStatus' = [caseStatus EXCEPT ![c] = "AWAITING_RESPONSE"]
          /\ payoutRef' = [payoutRef EXCEPT ![c] = p]
      BY <1>1, OpenDisputeEffect DEF OpenDispute
    <3>3. "AWAITING_RESPONSE" \in CaseStatus /\ "AWAITING_RESPONSE" # NoCase /\ p # NoPayout
      BY NoPayoutAssumption DEF CaseStatus, NoCase
    <3> QED BY <3>1, <3>2, <3>3
  <2>3. payoutStatus' \in [Payments -> PaymentStatus]
    BY <1>1, OpenDisputeEffect DEF TypeOK, PaymentStatus
  <2> QED BY <1>1, <2>1, <2>2, <2>3 DEF TypeOK, OpenDispute
<1>2. ASSUME NEW c \in CaseIds, NEW author \in Authors, NEW withEvidence \in BOOLEAN,
             SubmitResponse(c, author, withEvidence)
      PROVE  TypeOK'
  <2>1. jobs' \in [CaseIds -> Seq(AnchorJobKind)]
    BY <1>2, EnqueueType, Scripts DEF SubmitResponse, TypeOK
  <2>2. lateEvidence' \in SUBSET CaseIds
    BY <1>2 DEF SubmitResponse, FileEvidence, TypeOK
  <2>3. /\ caseStatus' \in [CaseIds -> CaseStatus \cup {NoCase}]
        /\ \A d \in CaseIds : caseStatus'[d] = NoCase <=> caseStatus[d] = NoCase
    BY <1>2, SubmitResponseEffect DEF TypeOK, CaseStatus, NoCase, Undecided
  <2>4. /\ unanswered' \in [CaseIds -> SUBSET Parties]
        /\ replied' \in [CaseIds -> BOOLEAN]
    BY <1>2 DEF SubmitResponse, TypeOK
  <2> QED BY <1>2, <2>1, <2>2, <2>3, <2>4 DEF TypeOK, SubmitResponse
<1>3. ASSUME NEW c \in CaseIds, SubmitResponseRefused(c) PROVE TypeOK'
  BY <1>3 DEF TypeOK, SubmitResponseRefused
<1>4. ASSUME NEW c \in CaseIds, AttachEvidence(c) PROVE TypeOK'
  BY <1>4 DEF TypeOK, AttachEvidence, FileEvidence
<1>5. ASSUME NEW c \in CaseIds, NEW target \in Parties, RequestInfo(c, target) PROVE TypeOK'
  <2>1. infoRequestCount' \in [CaseIds -> 0..MAX_INFO_REQUESTS]
    <3>1. infoRequestCount \in [CaseIds -> 0..MAX_INFO_REQUESTS]
      BY DEF TypeOK
    <3>2. infoRequestCount[c] + 1 \in 0..MAX_INFO_REQUESTS
      BY <1>5, <3>1, RequestInfoEffect, MaxInfoRequestsAssumption
    <3> QED BY <1>5, <3>1, <3>2 DEF RequestInfo
  <2> QED BY <1>5, <2>1, RequestInfoEffect DEF TypeOK, RequestInfo, CaseStatus, NoCase, Undecided
<1>6. ASSUME NEW c \in CaseIds, DecideRefund(c) PROVE TypeOK'
  <2>1. jobs' \in [CaseIds -> Seq(AnchorJobKind)]
    BY <1>6, EnqueueType, Scripts DEF DecideRefund, TypeOK
  <2>2. decisions' \in [CaseIds -> Seq(DecisionOutcome)]
    BY <1>6, DecisionsType DEF DecideRefund, TypeOK, DecisionOutcome
  <2> QED BY <1>6, <2>1, <2>2, DecideRefundEffect
             DEF TypeOK, DecideRefund, CaseStatus, NoCase, Undecided
<1>7. ASSUME NEW c \in CaseIds, NEW outcome \in {"release", "no_action"}, DecideClear(c, outcome)
      PROVE  TypeOK'
  <2>1. jobs' \in [CaseIds -> Seq(AnchorJobKind)]
    BY <1>7, EnqueueType, Scripts DEF DecideClear, TypeOK
  <2>2. decisions' \in [CaseIds -> Seq(DecisionOutcome)]
    BY <1>7, DecisionsType DEF DecideClear, TypeOK, DecisionOutcome
  <2> QED BY <1>7, <2>1, <2>2, DecideClearEffect, ZenonT(30)
             DEF TypeOK, DecideClear, PaymentStatus, CaseStatus, NoCase, Undecided
<1>8. ASSUME NEW c \in CaseIds, SendRefund(c) PROVE TypeOK'
  BY <1>8 DEF TypeOK, SendRefund, ChainStep, Refunds
<1>9. ASSUME NEW c \in CaseIds, StampRefundTx(c) PROVE TypeOK'
  <2>1. /\ caseStatus' \in [CaseIds -> CaseStatus \cup {NoCase}]
        /\ \A d \in CaseIds : caseStatus'[d] = NoCase <=> caseStatus[d] = NoCase
    BY <1>9, StampRefundTxEffect DEF TypeOK, CaseStatus, NoCase
  <2>2. payoutStatus' \in [Payments -> PaymentStatus]
    <3>1. payoutRef[c] \in Payments /\ payoutStatus \in [Payments -> PaymentStatus]
      BY <1>9, StampRefundTxEffect DEF TypeOK
    <3> QED BY <1>9, <3>1, StampRefundTxEffect DEF PaymentStatus
  <2>3. executed' \in [CaseIds -> BOOLEAN]
    BY <1>9 DEF TypeOK, StampRefundTx
  <2> QED BY <1>9, <2>1, <2>2, <2>3 DEF TypeOK, StampRefundTx
<1>10. ASSUME NEW c \in CaseIds, DeadlineElapses(c) PROVE TypeOK'
  BY <1>10 DEF TypeOK, DeadlineElapses
<1>11. ASSUME NEW c \in CaseIds, DeadlinePassed(c) PROVE TypeOK'
  BY <1>11, DeadlinePassedEffect DEF TypeOK, DeadlinePassed, CaseStatus, NoCase, Undecided
<1>12. ASSUME NEW p \in Payments, NEW result \in {"arbiter", "reverted"}, SettleRefund(p, result)
       PROVE  TypeOK'
  BY <1>12 DEF TypeOK, SettleRefund, ChainStep, Refunds
<1>13. ASSUME NEW p \in Payments, RefundByRecipient(p) \/ WithdrawOnChain(p) PROVE TypeOK'
  BY <1>13 DEF TypeOK, RefundByRecipient, WithdrawOnChain, ChainStep, Refunds
<1>14. ASSUME NEW p \in Payments, NEW debtRecorded \in BOOLEAN,
              ConfirmRefundExecuted(p, debtRecorded)
       PROVE  TypeOK'
  <2>1. jobs' \in [CaseIds -> Seq(AnchorJobKind)]
    <3>1. ASSUME NEW c \in DecidedOn(p),
                 enqueueAnchor(c, <<"correction_outstanding", "correction">>)
          PROVE  jobs' \in [CaseIds -> Seq(AnchorJobKind)]
      BY <3>1, EnqueueType, Scripts DEF DecidedOn, TypeOK
    <3> QED BY <1>14, <3>1 DEF ConfirmRefundExecuted, TypeOK
  <2>2. payoutStatus' \in [Payments -> PaymentStatus]
    BY <1>14, ConfirmRefundEffect DEF TypeOK, PaymentStatus
  <2>3. /\ caseStatus' \in [CaseIds -> CaseStatus \cup {NoCase}]
        /\ \A d \in CaseIds : caseStatus'[d] = NoCase <=> caseStatus[d] = NoCase
    <3>1. CASE UNCHANGED caseStatus
      BY <3>1 DEF TypeOK
    <3>2. CASE \E d \in DecidedOn(p) : caseStatus' = [caseStatus EXCEPT ![d] = "CLOSED"]
      BY <3>2 DEF TypeOK, CaseStatus, NoCase, DecidedOn
    <3> QED BY <1>14, <3>1, <3>2, ConfirmRefundEffect
  <2>4. executed' \in [CaseIds -> BOOLEAN]
    BY <1>14 DEF ConfirmRefundExecuted, DecidedOn, TypeOK
  <2> QED BY <1>14, <2>1, <2>2, <2>3, <2>4 DEF TypeOK, ConfirmRefundExecuted
<1>15. ASSUME NEW p \in Payments, ConfirmWithdrawn(p) \/ LockupEnded(p) \/ DebtSettled(p)
       PROVE  TypeOK'
  <2>1. payoutStatus' \in [Payments -> PaymentStatus]
    BY <1>15, ConfirmWithdrawnEffect, LockupEndedEffect, DebtSettledEffect
       DEF TypeOK, PaymentStatus
  <2> QED BY <1>15, <2>1 DEF TypeOK, ConfirmWithdrawn, LockupEnded, DebtSettled, PayoutHook
<1>16. CASE UNCHANGED vars
  BY <1>16 DEF TypeOK, vars
<1> QED BY <1>1, <1>2, <1>3, <1>4, <1>5, <1>6, <1>7, <1>8, <1>9, <1>10, <1>11, <1>12,
           <1>13, <1>14, <1>15, <1>16 DEF Next, SchedulerTick

(* The rows are well formed at first.                                       *)
LEMMA InitType == Init => TypeOK
BY NoPayoutAssumption, MaxInfoRequestsAssumption
   DEF Init, TypeOK, PaymentStatus, CaseStatus, Refunds

(* Every row the handlers write is well formed, whatever they are called with. *)
THEOREM TypeCorrect == Spec => []TypeOK
BY InitType, NextType, PTL DEF Spec

-----------------------------------------------------------------------------
(* The invariant.  None of its conjuncts is inductive alone: a verdict may   *)
(* release the payout because no second open case holds it, a dispute may be *)
(* opened because a payout outside Held has no open case, and so on.         *)

Safety ==
  /\ AtMostOneOpenCase
  /\ OpenCaseHoldsMoney
  /\ DisputedHasOpenCase
  /\ DecidedOnce
  /\ RefundNeverReleased
  /\ ClosedRefundIsRecorded

IInv == TypeOK /\ Safety

core == <<payoutStatus, caseStatus, payoutRef, decisions>>

(* A step that writes no status, payment or decision breaks nothing.        *)
LEMMA UntouchedSafe == Safety /\ UNCHANGED core => Safety'
BY DEF Safety, core, AtMostOneOpenCase, OpenCaseHoldsMoney, DisputedHasOpenCase,
       DecidedOnce, RefundNeverReleased, ClosedRefundIsRecorded, IsOpen, OpenCasesOn, RefundDecided

(* The case moves between AWAITING_RESPONSE and UNDER_REVIEW.               *)
LEMMA CaseWalksSafe ==
  ASSUME IInv, NEW c \in CaseIds, NEW to \in Undecided,
         caseStatus[c] \in Undecided,
         caseStatus' = [caseStatus EXCEPT ![c] = to],
         UNCHANGED <<payoutStatus, payoutRef, decisions>>
  PROVE  Safety'
<1>1. \A d \in CaseIds : /\ IsOpen(d)' <=> IsOpen(d)
                         /\ RefundDecided(d)' <=> RefundDecided(d)
  BY DEF IInv, TypeOK, Undecided, IsOpen, NoCase, RefundDecided
<1>2. AtMostOneOpenCase' /\ OpenCaseHoldsMoney' /\ DisputedHasOpenCase' /\ RefundNeverReleased'
  BY <1>1 DEF IInv, Safety, AtMostOneOpenCase, OpenCaseHoldsMoney, DisputedHasOpenCase,
              RefundNeverReleased, OpenCasesOn
<1>3. DecidedOnce'
  BY DEF IInv, TypeOK, Safety, DecidedOnce, Undecided, NoCase
<1>4. ClosedRefundIsRecorded'
  BY <1>1 DEF IInv, TypeOK, Safety, ClosedRefundIsRecorded, Undecided
<1> QED BY <1>2, <1>3, <1>4 DEF Safety

(* A payout that is not opened to a dispute does not leave Held.            *)
LEMMA PayoutMovesSafe ==
  ASSUME IInv, NEW p \in Payments, NEW to \in PaymentStatus,
         payoutStatus' = [payoutStatus EXCEPT ![p] = to],
         to # "DISPUTED",
         payoutStatus[p] \in Held => to \in Held,
         UNCHANGED <<caseStatus, payoutRef, decisions>>
  PROVE  Safety'
<1>1. \A d \in CaseIds : /\ IsOpen(d)' <=> IsOpen(d)
                         /\ RefundDecided(d)' <=> RefundDecided(d)
  BY DEF IsOpen, RefundDecided
<1>2. \A q \in Payments : payoutStatus[q] \in Held => payoutStatus'[q] \in Held
  BY DEF IInv, TypeOK
<1>3. \A q \in Payments : payoutStatus'[q] = "DISPUTED" => payoutStatus[q] = "DISPUTED"
  BY DEF IInv, TypeOK
<1>4. \A d \in CaseIds : IsOpen(d) \/ RefundDecided(d) => payoutRef[d] \in Payments
  BY DEF IInv, TypeOK, Safety, DecidedOnce, IsOpen, RefundDecided
<1>5. AtMostOneOpenCase' /\ DecidedOnce'
  BY <1>1 DEF IInv, Safety, AtMostOneOpenCase, DecidedOnce
<1>6. OpenCaseHoldsMoney' /\ RefundNeverReleased' /\ ClosedRefundIsRecorded'
  BY <1>1, <1>2, <1>3, <1>4
     DEF IInv, Safety, OpenCaseHoldsMoney, RefundNeverReleased, ClosedRefundIsRecorded
<1>7. DisputedHasOpenCase'
  BY <1>1, <1>3 DEF IInv, Safety, DisputedHasOpenCase, OpenCasesOn
<1> QED BY <1>5, <1>6, <1>7 DEF Safety

(* openDispute keeps the invariant: the new case is the only open one of its payment.*)
LEMMA OpenDisputeSafe ==
  ASSUME IInv, NEW p \in Payments, NEW c \in CaseIds, OpenDispute(p, c)
  PROVE  Safety'
<1>1. /\ OpenCasesOn(p) = {} /\ caseStatus[c] = NoCase
      /\ payoutStatus[p] \notin Held
      /\ payoutStatus' = [payoutStatus EXCEPT ![p] = "DISPUTED"]
      /\ caseStatus' = [caseStatus EXCEPT ![c] = "AWAITING_RESPONSE"]
      /\ payoutRef' = [payoutRef EXCEPT ![c] = p]
      /\ decisions' = decisions
  BY OpenDisputeEffect DEF IInv, OpenDispute
<1>2. /\ payoutStatus \in [Payments -> PaymentStatus]
      /\ caseStatus \in [CaseIds -> CaseStatus \cup {NoCase}]
      /\ payoutRef \in [CaseIds -> Payments \cup {NoPayout}]
  BY DEF IInv, TypeOK
<1>3. IsOpen(c)' /\ ~ IsOpen(c) /\ payoutRef'[c] = p
  BY <1>1, <1>2 DEF IsOpen, NoCase
<1>4. \A d \in CaseIds \ {c} : /\ IsOpen(d)' <=> IsOpen(d)
                               /\ payoutRef'[d] = payoutRef[d]
  BY <1>1, <1>2 DEF IsOpen
<1>5. \A d \in CaseIds : RefundDecided(d)' <=> RefundDecided(d)
  BY <1>1 DEF RefundDecided
<1>6. \A d \in CaseIds : IsOpen(d) => payoutRef[d] # p
  BY <1>1 DEF OpenCasesOn
<1>7. AtMostOneOpenCase'
  BY <1>3, <1>4, <1>6 DEF IInv, Safety, AtMostOneOpenCase
<1>8. OpenCaseHoldsMoney'
  BY <1>1, <1>2, <1>3, <1>4, <1>6 DEF IInv, Safety, OpenCaseHoldsMoney, Held
<1>9. DisputedHasOpenCase'
  BY <1>1, <1>2, <1>3, <1>4 DEF IInv, Safety, DisputedHasOpenCase, OpenCasesOn
<1>10. DecidedOnce'
  BY <1>1, <1>2 DEF IInv, Safety, DecidedOnce, NoCase
<1>11. decisions[c] = <<>>
  BY <1>1 DEF IInv, Safety, DecidedOnce
<1>12. RefundNeverReleased' /\ ClosedRefundIsRecorded'
  BY <1>1, <1>2, <1>4, <1>5, <1>11
     DEF IInv, Safety, RefundNeverReleased, ClosedRefundIsRecorded, RefundDecided, Held
<1> QED BY <1>7, <1>8, <1>9, <1>10, <1>12 DEF Safety

(* A verdict on an undecided case: a refund leaves the case DECIDED and the *)
(* payout held, any other outcome closes the one and releases the other.    *)
LEMMA VerdictSafe ==
  ASSUME IInv, NEW c \in CaseIds, NEW outcome \in DecisionOutcome,
         caseStatus[c] \in Undecided,
         decisions' = [decisions EXCEPT ![c] = Append(@, outcome)],
         payoutRef' = payoutRef,
         IF outcome = "refund"
         THEN /\ payoutStatus' = payoutStatus
              /\ caseStatus' = [caseStatus EXCEPT ![c] = "DECIDED"]
         ELSE /\ payoutStatus[payoutRef[c]] = "DISPUTED"
              /\ payoutStatus' = [payoutStatus EXCEPT ![payoutRef[c]] = "WITHDRAWABLE"]
              /\ caseStatus' = [caseStatus EXCEPT ![c] = "CLOSED"]
  PROVE  Safety'
<1> DEFINE p == payoutRef[c]
<1>1. /\ payoutStatus \in [Payments -> PaymentStatus]
      /\ caseStatus \in [CaseIds -> CaseStatus \cup {NoCase}]
      /\ payoutRef \in [CaseIds -> Payments \cup {NoPayout}]
      /\ decisions \in [CaseIds -> Seq(DecisionOutcome)]
      /\ p \in Payments
  BY DEF IInv, TypeOK, Undecided, NoCase
<1>2. IsOpen(c)
  BY DEF IsOpen, Undecided, NoCase
<1>3. decisions[c] = <<>> /\ decisions'[c] = <<outcome>>
  <2>1. decisions[c] = <<>>
    BY DEF IInv, Safety, DecidedOnce, Undecided
  <2> QED BY <1>1, <2>1
<1>4. \A d \in CaseIds \ {c} : /\ IsOpen(d)' <=> IsOpen(d)
                               /\ RefundDecided(d)' <=> RefundDecided(d)
                               /\ IsOpen(d) => payoutRef[d] # p
  BY <1>1, <1>2 DEF IsOpen, RefundDecided, IInv, Safety, AtMostOneOpenCase
<1>5. DecidedOnce'
  BY <1>1, <1>3 DEF IInv, Safety, DecidedOnce, NoCase
<1>6. CASE outcome = "refund"
  <2>1. /\ payoutStatus' = payoutStatus
        /\ caseStatus' = [caseStatus EXCEPT ![c] = "DECIDED"]
    BY <1>6
  <2>2. IsOpen(c)'
    BY <1>1, <2>1 DEF IsOpen, NoCase
  <2>3. payoutStatus[p] \in Held
    BY <1>2 DEF IInv, Safety, OpenCaseHoldsMoney
  <2>4. AtMostOneOpenCase' /\ OpenCaseHoldsMoney' /\ DisputedHasOpenCase'
    BY <1>2, <1>4, <2>1, <2>2
       DEF IInv, Safety, AtMostOneOpenCase, OpenCaseHoldsMoney, DisputedHasOpenCase, OpenCasesOn
  <2>5. RefundNeverReleased' /\ ClosedRefundIsRecorded'
    BY <1>1, <1>4, <2>1, <2>3 DEF IInv, Safety, RefundNeverReleased, ClosedRefundIsRecorded
  <2> QED BY <1>5, <2>4, <2>5 DEF Safety
<1>7. CASE outcome # "refund"
  <2>1. /\ payoutStatus[p] = "DISPUTED"
        /\ payoutStatus' = [payoutStatus EXCEPT ![p] = "WITHDRAWABLE"]
        /\ caseStatus' = [caseStatus EXCEPT ![c] = "CLOSED"]
    BY <1>7
  <2>2. ~ IsOpen(c)' /\ ~ RefundDecided(c)'
    BY <1>1, <1>3, <1>7, <2>1 DEF IsOpen, RefundDecided
  <2>3. AtMostOneOpenCase' /\ OpenCaseHoldsMoney'
    BY <1>1, <1>4, <2>1, <2>2 DEF IInv, Safety, AtMostOneOpenCase, OpenCaseHoldsMoney, IsOpen
  <2>4. DisputedHasOpenCase'
    BY <1>1, <1>4, <2>1 DEF IInv, Safety, DisputedHasOpenCase, OpenCasesOn
  <2>5. ASSUME NEW d \in CaseIds \ {c}, RefundDecided(d) PROVE payoutRef[d] # p
    <3>1. caseStatus[d] \in {"DECIDED", "CLOSED"}
      BY <1>1, <2>5 DEF IInv, Safety, DecidedOnce, RefundDecided, CaseStatus, NoCase
    <3>2. CASE caseStatus[d] = "DECIDED"
      BY <1>4, <3>2 DEF IsOpen, NoCase
    <3>3. CASE caseStatus[d] = "CLOSED"
      BY <2>1, <2>5, <3>3 DEF IInv, Safety, ClosedRefundIsRecorded
    <3> QED BY <3>1, <3>2, <3>3
  <2>6. RefundNeverReleased' /\ ClosedRefundIsRecorded'
    BY <1>1, <1>4, <2>1, <2>2, <2>5
       DEF IInv, Safety, RefundNeverReleased, ClosedRefundIsRecorded
  <2> QED BY <1>5, <2>3, <2>4, <2>6 DEF Safety
<1> QED BY <1>6, <1>7

(* A case decided for the refund closes, by whichever path, in the step that *)
(* takes its payout out of DISPUTED if it still is.                         *)
LEMMA RefundClosesSafe ==
  ASSUME IInv, NEW c \in CaseIds, NEW to \in Held \ {"DISPUTED"},
         caseStatus[c] # NoCase, RefundDecided(c),
         payoutStatus' = [payoutStatus EXCEPT ![payoutRef[c]] = to],
         caseStatus' = [caseStatus EXCEPT ![c] = "CLOSED"],
         UNCHANGED <<payoutRef, decisions>>
  PROVE  Safety'
<1> DEFINE p == payoutRef[c]
<1>1. /\ payoutStatus \in [Payments -> PaymentStatus]
      /\ caseStatus \in [CaseIds -> CaseStatus \cup {NoCase}]
      /\ p \in Payments
  BY DEF IInv, TypeOK
<1>2. ~ IsOpen(c)' /\ \A d \in CaseIds : RefundDecided(d)' <=> RefundDecided(d)
  BY <1>1 DEF IsOpen, RefundDecided
<1>3. \A d \in CaseIds \ {c} : IsOpen(d)' <=> IsOpen(d)
  BY <1>1 DEF IsOpen
<1>4. AtMostOneOpenCase' /\ OpenCaseHoldsMoney'
  BY <1>1, <1>2, <1>3 DEF IInv, Safety, AtMostOneOpenCase, OpenCaseHoldsMoney
<1>5. DisputedHasOpenCase'
  BY <1>1, <1>3 DEF IInv, Safety, DisputedHasOpenCase, OpenCasesOn
<1>6. Len(decisions[c]) = 1
  <2>1. caseStatus[c] \in {"DECIDED", "CLOSED"}
    BY <1>1 DEF IInv, Safety, DecidedOnce, RefundDecided, CaseStatus, NoCase
  <2>2. caseStatus[c] = "DECIDED" => decisions[c] = <<"refund">>
    BY DEF IInv, Safety, DecidedOnce
  <2>3. caseStatus[c] = "CLOSED" => Len(decisions[c]) = 1
    BY DEF IInv, Safety, DecidedOnce
  <2> QED BY <2>1, <2>2, <2>3
<1>7. DecidedOnce'
  BY <1>1, <1>6 DEF IInv, Safety, DecidedOnce, NoCase
<1>8. RefundNeverReleased' /\ ClosedRefundIsRecorded'
  BY <1>1, <1>2 DEF IInv, Safety, RefundNeverReleased, ClosedRefundIsRecorded
<1> QED BY <1>4, <1>5, <1>7, <1>8 DEF Safety

(* The stamp of the browser keeps the invariant.                            *)
LEMMA StampRefundTxSafe ==
  ASSUME IInv, NEW c \in CaseIds, StampRefundTx(c)
  PROVE  Safety'
<1> DEFINE p  == payoutRef[c]
           to == IF payoutStatus[p] = "DISPUTED" THEN "REFUNDED" ELSE payoutStatus[p]
<1>1. /\ RefundDecided(c) \/ ReleaseDecided(c)
      /\ caseStatus[c] # NoCase
      /\ payoutStatus' = [payoutStatus EXCEPT ![p] = to]
      /\ caseStatus' = [caseStatus EXCEPT ![c] = "CLOSED"]
      /\ UNCHANGED <<payoutRef, decisions>>
  BY StampRefundTxEffect DEF IInv, TypeOK, StampRefundTx, rowVars
<1>2. CASE RefundDecided(c)
  <2>1. to \in Held \ {"DISPUTED"}
    BY <1>2 DEF IInv, Safety, RefundNeverReleased, Held
  <2> HIDE DEF to
  <2> QED BY <1>1, <1>2, <2>1, RefundClosesSafe
<1>3. CASE ReleaseDecided(c)
  <2>1. caseStatus[c] = "CLOSED"
    <3>1. caseStatus[c] \in CaseStatus
      BY <1>1 DEF IInv, TypeOK
    <3> QED BY <1>3, <3>1 DEF IInv, Safety, DecidedOnce, ReleaseDecided, CaseStatus, NoCase
  <2>2. UNCHANGED caseStatus
    BY <1>1, <2>1 DEF IInv, TypeOK
  <2>3. p \in Payments
    BY <1>1 DEF IInv, TypeOK
  <2>4. CASE payoutStatus[p] = "DISPUTED"
    <3>1. to = "REFUNDED" /\ to \in Held \ {"DISPUTED"} /\ to \in PaymentStatus
      BY <2>4 DEF Held, PaymentStatus
    <3> HIDE DEF to
    <3> QED BY <1>1, <2>2, <2>3, <2>4, <3>1, PayoutMovesSafe
  <2>5. CASE payoutStatus[p] # "DISPUTED"
    <3>1. UNCHANGED payoutStatus
      BY <1>1, <2>3, <2>5 DEF IInv, TypeOK
    <3> QED BY <1>1, <2>2, <3>1, UntouchedSafe DEF IInv, core
  <2> QED BY <2>4, <2>5
<1> QED BY <1>1, <1>2, <1>3

(* The confirmation of the indexer keeps the invariant.                     *)
LEMMA ConfirmRefundSafe ==
  ASSUME IInv, NEW p \in Payments, NEW debtRecorded \in BOOLEAN,
         ConfirmRefundExecuted(p, debtRecorded)
  PROVE  Safety'
<1>1. UNCHANGED <<payoutRef, decisions>>
  BY DEF ConfirmRefundExecuted, rowVars
<1>2. PICK to \in Held \ {"DISPUTED"} : payoutStatus' = [payoutStatus EXCEPT ![p] = to]
  BY ConfirmRefundEffect DEF IInv, Held
<1>3. to \in PaymentStatus
  BY DEF Held, PaymentStatus
<1>4. CASE \E c \in DecidedOn(p) : caseStatus' = [caseStatus EXCEPT ![c] = "CLOSED"]
  <2>1. PICK c \in DecidedOn(p) : caseStatus' = [caseStatus EXCEPT ![c] = "CLOSED"]
    BY <1>4
  <2>2. c \in CaseIds /\ payoutRef[c] = p /\ caseStatus[c] = "DECIDED"
    BY DEF DecidedOn
  <2>3. caseStatus[c] # NoCase /\ RefundDecided(c)
    BY <2>2 DEF IInv, Safety, DecidedOnce, RefundDecided, NoCase
  <2> QED BY <1>1, <1>2, <2>1, <2>2, <2>3, RefundClosesSafe
<1>5. CASE UNCHANGED caseStatus
  BY <1>1, <1>2, <1>3, <1>5, PayoutMovesSafe
<1> QED BY <1>4, <1>5, ConfirmRefundEffect DEF IInv

-----------------------------------------------------------------------------
(* Every handler keeps the invariant.                                       *)
LEMMA NextSafe == IInv /\ [Next]_vars => Safety'
<1> SUFFICES ASSUME IInv, [Next]_vars PROVE Safety'
  OBVIOUS
<1> USE DEF rowVars, chainVars
<1>0. TypeOK /\ Safety
  BY DEF IInv
<1>1. ASSUME NEW p \in Payments, NEW c \in CaseIds, OpenDispute(p, c) PROVE Safety'
  BY <1>1, OpenDisputeSafe
<1>2. ASSUME NEW c \in CaseIds, NEW author \in Authors, NEW withEvidence \in BOOLEAN,
             SubmitResponse(c, author, withEvidence)
      PROVE  Safety'
  <2>1. UNCHANGED <<payoutStatus, payoutRef, decisions>>
    BY <1>2 DEF SubmitResponse
  <2>2. \/ UNCHANGED caseStatus
        \/ /\ caseStatus[c] \in Undecided
           /\ caseStatus' = [caseStatus EXCEPT ![c] = "UNDER_REVIEW"]
    BY <1>0, <1>2, SubmitResponseEffect
  <2>3. "UNDER_REVIEW" \in Undecided
    BY DEF Undecided
  <2> QED BY <1>0, <2>1, <2>2, <2>3, CaseWalksSafe, UntouchedSafe DEF core
<1>3. ASSUME NEW c \in CaseIds, SubmitResponseRefused(c) \/ AttachEvidence(c) \/ DeadlineElapses(c)
      PROVE  Safety'
  BY <1>0, <1>3, UntouchedSafe DEF SubmitResponseRefused, AttachEvidence, DeadlineElapses, core
<1>4. ASSUME NEW c \in CaseIds, NEW target \in Parties, RequestInfo(c, target) PROVE Safety'
  <2>1. "AWAITING_RESPONSE" \in Undecided
    BY DEF Undecided
  <2>2. UNCHANGED <<payoutStatus, payoutRef, decisions>>
    BY <1>4 DEF RequestInfo
  <2> QED BY <1>0, <1>4, <2>1, <2>2, RequestInfoEffect, CaseWalksSafe
<1>5. ASSUME NEW c \in CaseIds, DecideRefund(c) PROVE Safety'
  <2>1. /\ decisions' = [decisions EXCEPT ![c] = Append(@, "refund")]
        /\ payoutStatus' = payoutStatus /\ payoutRef' = payoutRef
    BY <1>5 DEF DecideRefund
  <2>2. /\ caseStatus[c] \in Undecided
        /\ caseStatus' = [caseStatus EXCEPT ![c] = "DECIDED"]
    BY <1>0, <1>5, DecideRefundEffect
  <2>3. "refund" \in DecisionOutcome
    BY DEF DecisionOutcome
  <2> QED BY <2>1, <2>2, <2>3, VerdictSafe
<1>6. ASSUME NEW c \in CaseIds, NEW outcome \in {"release", "no_action"}, DecideClear(c, outcome)
      PROVE  Safety'
  <2>1. /\ decisions' = [decisions EXCEPT ![c] = Append(@, outcome)]
        /\ payoutRef' = payoutRef
    BY <1>6 DEF DecideClear
  <2>2. /\ caseStatus[c] \in Undecided
        /\ payoutStatus[payoutRef[c]] = "DISPUTED"
        /\ payoutStatus' = [payoutStatus EXCEPT ![payoutRef[c]] = "WITHDRAWABLE"]
        /\ caseStatus' = [caseStatus EXCEPT ![c] = "CLOSED"]
    BY <1>0, <1>6, DecideClearEffect
  <2>3. outcome \in DecisionOutcome /\ outcome # "refund"
    BY DEF DecisionOutcome
  <2> QED BY <2>1, <2>2, <2>3, VerdictSafe
<1>7. ASSUME NEW c \in CaseIds, SendRefund(c) PROVE Safety'
  BY <1>0, <1>7, UntouchedSafe DEF SendRefund, ChainStep, core
<1>8. ASSUME NEW c \in CaseIds, StampRefundTx(c) PROVE Safety'
  BY <1>8, StampRefundTxSafe
<1>9. ASSUME NEW c \in CaseIds, DeadlinePassed(c) PROVE Safety'
  <2>1. "UNDER_REVIEW" \in Undecided
    BY DEF Undecided
  <2>2. UNCHANGED <<payoutStatus, payoutRef, decisions>>
    BY <1>9 DEF DeadlinePassed
  <2> QED BY <1>0, <1>9, <2>1, <2>2, DeadlinePassedEffect, CaseWalksSafe
<1>10. ASSUME NEW p \in Payments, NEW result \in {"arbiter", "reverted"}, SettleRefund(p, result)
       PROVE  Safety'
  BY <1>0, <1>10, UntouchedSafe DEF SettleRefund, ChainStep, core
<1>11. ASSUME NEW p \in Payments, RefundByRecipient(p) \/ WithdrawOnChain(p) PROVE Safety'
  BY <1>0, <1>11, UntouchedSafe DEF RefundByRecipient, WithdrawOnChain, ChainStep, core
<1>12. ASSUME NEW p \in Payments, NEW debtRecorded \in BOOLEAN,
              ConfirmRefundExecuted(p, debtRecorded)
       PROVE  Safety'
  BY <1>12, ConfirmRefundSafe
<1>13. ASSUME NEW p \in Payments, ConfirmWithdrawn(p) \/ LockupEnded(p) \/ DebtSettled(p)
       PROVE  Safety'
  <2>1. UNCHANGED <<caseStatus, payoutRef, decisions>>
    BY <1>13 DEF ConfirmWithdrawn, LockupEnded, DebtSettled, PayoutHook
  <2>2. CASE ConfirmWithdrawn(p) \/ LockupEnded(p)
    <3>1. PICK to \in {"WITHDRAWABLE", "WITHDRAWN"} :
            payoutStatus[p] \notin Held /\ payoutStatus' = [payoutStatus EXCEPT ![p] = to]
      BY <1>0, <2>2, ConfirmWithdrawnEffect, LockupEndedEffect
    <3>2. to \in PaymentStatus /\ to # "DISPUTED"
      BY DEF PaymentStatus
    <3> QED BY <2>1, <3>1, <3>2, PayoutMovesSafe
  <2>3. CASE DebtSettled(p)
    <3>1. /\ payoutStatus[p] = "DEBT_OUTSTANDING"
          /\ payoutStatus' = [payoutStatus EXCEPT ![p] = "DEBT_SETTLED"]
      BY <1>0, <2>3, DebtSettledEffect
    <3>2. "DEBT_SETTLED" \in PaymentStatus /\ "DEBT_SETTLED" \in Held
      BY DEF PaymentStatus, Held
    <3> QED BY <2>1, <3>1, <3>2, PayoutMovesSafe
  <2> QED BY <1>13, <2>2, <2>3
<1>14. CASE UNCHANGED vars
  BY <1>0, <1>14, UntouchedSafe DEF vars, core
<1> QED BY <1>1, <1>2, <1>3, <1>4, <1>5, <1>6, <1>7, <1>8, <1>9, <1>10, <1>11, <1>12,
           <1>13, <1>14 DEF Next, SchedulerTick

(* The invariant holds at first.                                            *)
LEMMA InitSafe == Init => Safety
BY DEF Init, Safety, AtMostOneOpenCase, OpenCaseHoldsMoney, DisputedHasOpenCase, DecidedOnce,
       RefundNeverReleased, ClosedRefundIsRecorded, IsOpen, RefundDecided, NoCase

(* The inductive invariant is an invariant.                                 *)
LEMMA Invariance == Spec => []IInv
<1>1. Init => IInv
  BY InitType, InitSafe DEF IInv
<1>2. IInv /\ [Next]_vars => IInv'
  BY NextType, NextSafe DEF IInv
<1> QED BY <1>1, <1>2, PTL DEF Spec

(* The arbiter always decides about money that is held: a payment has at     *)
(* most one open case, an open case has a held payment, and a disputed       *)
(* payment has a case somebody can still decide.                             *)
THEOREM MoneyIsHeld == Spec => []DisputesAndCasesAgree
<1>1. IInv => DisputesAndCasesAgree
  BY DEF IInv, Safety, DisputesAndCasesAgree
<1> QED BY <1>1, Invariance, PTL

(* A case is decided once, and with reasons, before it closes.              *)
THEOREM OneVerdict == Spec => []DecidedOnce
<1>1. IInv => DecidedOnce
  BY DEF IInv, Safety
<1> QED BY <1>1, Invariance, PTL

(* No handler releases a payment whose refund was decided.                  *)
THEOREM RefundStands == Spec => []RefundsAreFinal
<1>1. IInv => RefundsAreFinal
  BY DEF IInv, Safety, RefundsAreFinal
<1> QED BY <1>1, Invariance, PTL

-----------------------------------------------------------------------------
(* A step whose case status write is one of the effects above leaves closed  *)
(* cases closed.                                                            *)
LEMMA ClosedStaysClosed ==
  ASSUME TypeOK, NEW c \in CaseIds, NEW to,
         caseStatus[c] \in Undecided \cup {NoCase} \/ to = "CLOSED",
         caseStatus' = [caseStatus EXCEPT ![c] = to]
  PROVE  \A d \in CaseIds : caseStatus[d] = "CLOSED" => caseStatus'[d] = "CLOSED"
<1>1. caseStatus \in [CaseIds -> CaseStatus \cup {NoCase}]
  BY DEF TypeOK
<1> QED BY <1>1 DEF Undecided, NoCase

(* No handler reopens a closed case or changes a verdict.                   *)
LEMMA VerdictStep == IInv /\ [Next]_vars => [VerdictStands]_vars
<1> SUFFICES ASSUME IInv, Next PROVE VerdictStands
  OBVIOUS
<1> USE DEF rowVars, chainVars
<1>0. TypeOK
  BY DEF IInv
<1>1. ASSUME UNCHANGED <<caseStatus, decisions>> PROVE VerdictStands
  BY <1>1 DEF VerdictStands
<1>2. ASSUME UNCHANGED decisions, NEW c \in CaseIds, NEW to,
             caseStatus[c] \in Undecided \cup {NoCase} \/ to = "CLOSED",
             caseStatus' = [caseStatus EXCEPT ![c] = to]
      PROVE  VerdictStands
  BY <1>0, <1>2, ClosedStaysClosed DEF VerdictStands
<1>3. ASSUME NEW c \in CaseIds, NEW outcome, NEW to,
             caseStatus[c] \in Undecided,
             caseStatus' = [caseStatus EXCEPT ![c] = to],
             decisions' = [decisions EXCEPT ![c] = Append(@, outcome)]
      PROVE  VerdictStands
  <2>1. decisions[c] = <<>>
    BY <1>3 DEF IInv, Safety, DecidedOnce, Undecided
  <2>2. \A d \in CaseIds : decisions[d] # <<>> => decisions'[d] = decisions[d]
    BY <1>3, <2>1 DEF IInv, TypeOK
  <2> QED BY <1>0, <1>3, <2>2, ClosedStaysClosed DEF VerdictStands
<1>4. ASSUME NEW p \in Payments, NEW c \in CaseIds, OpenDispute(p, c) PROVE VerdictStands
  BY <1>0, <1>2, <1>4, OpenDisputeEffect DEF OpenDispute
<1>5. ASSUME NEW c \in CaseIds, NEW author \in Authors, NEW withEvidence \in BOOLEAN,
             SubmitResponse(c, author, withEvidence)
      PROVE  VerdictStands
  BY <1>0, <1>1, <1>2, <1>5, SubmitResponseEffect DEF SubmitResponse
<1>6. ASSUME NEW c \in CaseIds, NEW target \in Parties, RequestInfo(c, target)
      PROVE  VerdictStands
  BY <1>0, <1>2, <1>6, RequestInfoEffect DEF RequestInfo
<1>7. ASSUME NEW c \in CaseIds, DecideRefund(c) PROVE VerdictStands
  BY <1>0, <1>3, <1>7, DecideRefundEffect DEF DecideRefund
<1>8. ASSUME NEW c \in CaseIds, NEW outcome \in {"release", "no_action"}, DecideClear(c, outcome)
      PROVE  VerdictStands
  BY <1>0, <1>3, <1>8, DecideClearEffect DEF DecideClear
<1>9. ASSUME NEW c \in CaseIds, StampRefundTx(c) PROVE VerdictStands
  BY <1>2, <1>9, <1>0, StampRefundTxEffect DEF StampRefundTx
<1>10. ASSUME NEW c \in CaseIds, DeadlinePassed(c) PROVE VerdictStands
  BY <1>0, <1>2, <1>10, DeadlinePassedEffect DEF DeadlinePassed
<1>11. ASSUME NEW p \in Payments, NEW debtRecorded \in BOOLEAN,
              ConfirmRefundExecuted(p, debtRecorded)
       PROVE  VerdictStands
  <2>1. UNCHANGED decisions
    BY <1>11 DEF ConfirmRefundExecuted
  <2>2. \/ \E c \in DecidedOn(p) : caseStatus' = [caseStatus EXCEPT ![c] = "CLOSED"]
        \/ UNCHANGED caseStatus
    BY <1>0, <1>11, ConfirmRefundEffect
  <2> QED BY <1>1, <1>2, <2>1, <2>2 DEF DecidedOn
<1>12. ASSUME NEW c \in CaseIds,
              \/ SubmitResponseRefused(c) \/ AttachEvidence(c)
              \/ DeadlineElapses(c) \/ SendRefund(c)
       PROVE  VerdictStands
  BY <1>1, <1>12 DEF SubmitResponseRefused, AttachEvidence, DeadlineElapses, SendRefund, ChainStep
<1>13. ASSUME NEW p \in Payments,
              \/ \E result \in {"arbiter", "reverted"} : SettleRefund(p, result)
              \/ RefundByRecipient(p) \/ WithdrawOnChain(p)
              \/ ConfirmWithdrawn(p) \/ LockupEnded(p) \/ DebtSettled(p)
       PROVE  VerdictStands
  BY <1>1, <1>13 DEF SettleRefund, RefundByRecipient, WithdrawOnChain, ChainStep,
                     ConfirmWithdrawn, LockupEnded, DebtSettled, PayoutHook
<1> QED BY <1>4, <1>5, <1>6, <1>7, <1>8, <1>9, <1>10, <1>11, <1>12, <1>13
        DEF Next, SchedulerTick

(* A closed case is never reopened and a verdict never replaced.            *)
THEOREM VerdictFinal == Spec => VerdictIsFinal
BY Invariance, VerdictStep, PTL DEF Spec, VerdictIsFinal

-----------------------------------------------------------------------------
(* The queue of anchor jobs.                                                *)

(* The replies of a script are a sequence of jobs.                          *)
LEMMA RepliesAreJobs ==
  ASSUME NEW n \in Nat
  PROVE  /\ [i \in 1..n |-> "response"] \in Seq(AnchorJobKind)
         /\ Len([i \in 1..n |-> "response"]) = n
<1>1. \A i \in 1..n : "response" \in AnchorJobKind
  BY DEF AnchorJobKind
<1>2. [i \in 1..n |-> "response"] \in [1..n -> AnchorJobKind]
  BY <1>1
<1> QED BY <1>2, LenProperties

(* A script is a sequence of jobs.                                          *)
LEMMA ScriptType ==
  ASSUME NEW opening \in Seq(AnchorJobKind), NEW n \in Nat, NEW verdict \in Seq(AnchorJobKind)
  PROVE  /\ opening \o [i \in 1..n |-> "response"] \in Seq(AnchorJobKind)
         /\ AnchorScript(opening, n, verdict) \in Seq(AnchorJobKind)
<1>1. opening \in Seq(AnchorJobKind)
  OBVIOUS
<1>2. [i \in 1..n |-> "response"] \in Seq(AnchorJobKind)
  BY RepliesAreJobs
<1> QED BY <1>1, <1>2, ConcatProperties DEF AnchorScript

(* A verdict is appended to a script that has none.                         *)
LEMMA ScriptExtends ==
  ASSUME NEW opening \in Seq(AnchorJobKind), NEW n \in Nat, NEW verdict \in Seq(AnchorJobKind), NEW more \in Seq(AnchorJobKind)
  PROVE  AnchorScript(opening, n, verdict) \o more = AnchorScript(opening, n, verdict \o more)
BY ScriptType, ConcatAssociative DEF AnchorScript

(* So is one more reply.                                                    *)
LEMMA ScriptAnswered ==
  ASSUME NEW opening \in Seq(AnchorJobKind), NEW n \in Nat
  PROVE  AnchorScript(opening, n, <<>>) \o <<"response">> = AnchorScript(opening, n + 1, <<>>)
<1> DEFINE replies(k) == [i \in 1..k |-> "response"]
<1>1. /\ replies(n) \in Seq(AnchorJobKind) /\ Len(replies(n)) = n
      /\ replies(n+1) \in Seq(AnchorJobKind) /\ Len(replies(n+1)) = n + 1
  BY ONLY n \in Nat, n + 1 \in Nat, RepliesAreJobs
<1>2. replies(n) \o <<"response">> = replies(n + 1)
  <2>1. <<"response">> \in Seq(AnchorJobKind) /\ Len(<<"response">>) = 1
    BY Scripts
  <2>2. /\ replies(n) \o <<"response">> \in Seq(AnchorJobKind)
        /\ Len(replies(n) \o <<"response">>) = n + 1
        /\ \A i \in 1..(n + 1) : (replies(n) \o <<"response">>)[i] =
             IF i <= n THEN replies(n)[i] ELSE <<"response">>[i - n]
    <3> HIDE DEF replies
    <3> QED BY <1>1, <2>1, ConcatProperties
  <2>3. \A i \in 1..(n + 1) : (replies(n) \o <<"response">>)[i] = replies(n + 1)[i]
    <3> SUFFICES ASSUME NEW i \in 1..(n + 1)
                 PROVE  (replies(n) \o <<"response">>)[i] = replies(n + 1)[i]
      OBVIOUS
    <3>1. CASE i <= n
      <4>1. i \in 1..n /\ replies(n)[i] = "response" /\ replies(n + 1)[i] = "response"
        BY <3>1
      <4> QED BY <2>2, <3>1, <4>1
    <3>2. CASE ~ (i <= n)
      <4>1. i - n = 1 /\ <<"response">>[1] = "response" /\ replies(n + 1)[i] = "response"
        BY <3>2
      <4> QED BY <2>2, <3>2, <4>1
    <3> QED BY <3>1, <3>2
  <2> HIDE DEF replies
  <2> QED BY <1>1, <2>2, <2>3, SeqEqual
<1>3. /\ opening \in Seq(AnchorJobKind)
      /\ <<"response">> \in Seq(AnchorJobKind)
      /\ <<>> \in Seq(AnchorJobKind)
  BY Scripts
<1>4. \A k \in Nat : AnchorScript(opening, k, <<>>) = opening \o replies(k)
  <2> SUFFICES ASSUME NEW k \in Nat PROVE AnchorScript(opening, k, <<>>) = opening \o replies(k)
    OBVIOUS
  <2> QED BY ScriptType, <1>3, ConcatEmptySeq DEF AnchorScript
<1> HIDE DEF replies
<1>5. (opening \o replies(n)) \o <<"response">> = opening \o (replies(n) \o <<"response">>)
  BY <1>1, <1>3, ConcatAssociative
<1>6. /\ AnchorScript(opening, n, <<>>) = opening \o replies(n)
      /\ AnchorScript(opening, n + 1, <<>>) = opening \o replies(n + 1)
  <2>1. n + 1 \in Nat
    OBVIOUS
  <2> QED BY <2>1, <1>4
<1> QED BY <1>2, <1>5, <1>6

(* How many replies a case may have had: one more than it was asked for      *)
(* information, but for a case that still awaits the last of them.           *)
Replies(c) == 0..(infoRequestCount[c] + IF caseStatus[c] = "AWAITING_RESPONSE" THEN 0 ELSE 1)

(* The script of a case, with the replies counted.                          *)
ScriptMatches(c) ==
  IF caseStatus[c] = NoCase THEN jobs[c] = <<>>
  ELSE \E n \in Replies(c), verdict \in VerdictScripts(caseStatus[c]) :
         jobs[c] = AnchorScript(Opening(c), n, verdict)

ScriptsMatch == \A c \in CaseIds : ScriptMatches(c)

(* A step that touches one case keeps the scripts of the others.            *)
LEMMA OneScriptMoves ==
  ASSUME ScriptsMatch, NEW c \in CaseIds, ScriptMatches(c)',
         \A d \in CaseIds \ {c} : /\ caseStatus'[d] = caseStatus[d]
                                  /\ infoRequestCount'[d] = infoRequestCount[d]
                                  /\ jobs'[d] = jobs[d]
  PROVE  ScriptsMatch'
<1> SUFFICES ASSUME NEW d \in CaseIds PROVE ScriptMatches(d)'
  BY DEF ScriptsMatch
<1>1. CASE d = c
  BY <1>1
<1>2. CASE d # c
  BY <1>2 DEF ScriptsMatch, ScriptMatches, Replies
<1> QED BY <1>1, <1>2

(* The script of an undecided case has no verdict.                          *)
LEMMA UndecidedScript ==
  ASSUME TypeOK, ScriptsMatch, NEW c \in CaseIds, caseStatus[c] \in Undecided
  PROVE  \E n \in Replies(c) : n \in Nat /\ jobs[c] = AnchorScript(Opening(c), n, <<>>)
<1>1. infoRequestCount[c] \in Nat
  <2>1. infoRequestCount \in [CaseIds -> 0..MAX_INFO_REQUESTS]
    BY DEF TypeOK
  <2> QED BY <2>1, MaxInfoRequestsAssumption
<1>2. caseStatus[c] # NoCase /\ VerdictScripts(caseStatus[c]) = {<<>>}
  BY DEF Undecided, NoCase, VerdictScripts
<1>3. PICK n \in Replies(c) : jobs[c] = AnchorScript(Opening(c), n, <<>>)
  BY <1>2 DEF ScriptsMatch, ScriptMatches
<1>4. n \in Nat
  BY <1>1 DEF Replies
<1> QED BY <1>3, <1>4

(* A step that leaves status, counter and queue alone keeps the scripts.    *)
LEMMA ScriptsUntouched ==
  ASSUME ScriptsMatch, UNCHANGED <<caseStatus, infoRequestCount, jobs>>
  PROVE  ScriptsMatch'
BY DEF ScriptsMatch, ScriptMatches, Replies

(* openDispute starts the script of a case.                                 *)
LEMMA OpenDisputeScript ==
  ASSUME TypeOK, ScriptsMatch, NEW p \in Payments, NEW c \in CaseIds, OpenDispute(p, c)
  PROVE  ScriptsMatch'
<1>1. /\ caseStatus[c] = NoCase
      /\ caseStatus' = [caseStatus EXCEPT ![c] = "AWAITING_RESPONSE"]
      /\ jobs' = [jobs EXCEPT ![c] = @ \o Opening(c)]
      /\ infoRequestCount' = infoRequestCount
  BY OpenDisputeEffect DEF OpenDispute, enqueueAnchor
<1>2. caseStatus'[c] = "AWAITING_RESPONSE" /\ infoRequestCount'[c] \in Nat
  BY <1>1, MaxInfoRequestsAssumption DEF TypeOK
<1>3. jobs[c] = <<>>
  BY <1>1 DEF ScriptsMatch, ScriptMatches
<1>4. /\ Opening(c) \in Seq(AnchorJobKind)
      /\ [i \in 1..0 |-> "response"] \in Seq(AnchorJobKind)
      /\ Len([i \in 1..0 |-> "response"]) = 0
  BY OpeningType, RepliesAreJobs
<1>5. [i \in 1..0 |-> "response"] = <<>>
  BY <1>4, EmptySeq
<1>6. AnchorScript(Opening(c), 0, <<>>) = Opening(c)
  BY <1>4, <1>5, ConcatEmptySeq DEF AnchorScript
<1>7. jobs'[c] = AnchorScript(Opening(c), 0, <<>>)
  <2>1. jobs'[c] = jobs[c] \o Opening(c)
    BY <1>1 DEF TypeOK
  <2> QED BY <1>3, <1>4, <1>6, <2>1, ConcatEmptySeq
<1>8. 0 \in Replies(c)' /\ <<>> \in VerdictScripts(caseStatus'[c]) /\ caseStatus'[c] # NoCase
  BY <1>2 DEF Replies, VerdictScripts, NoCase
<1>9. ScriptMatches(c)'
  BY <1>7, <1>8 DEF ScriptMatches
<1> QED BY <1>1, <1>9, OneScriptMoves DEF TypeOK

(* submitResponse adds a reply when it takes the case to review.            *)
LEMMA SubmitResponseScript ==
  ASSUME TypeOK, ScriptsMatch, NEW c \in CaseIds, NEW author, NEW withEvidence,
         SubmitResponse(c, author, withEvidence)
  PROVE  ScriptsMatch'
<1> DEFINE kinds == IF caseStatus[c] = "AWAITING_RESPONSE" THEN <<"response">> ELSE <<>>
<1>1. /\ caseStatus[c] # NoCase
      /\ jobs' = [jobs EXCEPT ![c] = @ \o kinds]
      /\ infoRequestCount' = infoRequestCount
  BY DEF SubmitResponse, enqueueAnchor
<1>2. jobs \in [CaseIds -> Seq(AnchorJobKind)] /\ infoRequestCount[c] \in Nat
  BY MaxInfoRequestsAssumption DEF TypeOK
<1>3. CASE caseStatus[c] = "AWAITING_RESPONSE"
  <2>1. ApplyCaseEvent("AWAITING_RESPONSE", infoRequestCount[c], "reply_received") = "UNDER_REVIEW"
    <3>1. <<"AWAITING_RESPONSE", "reply_received", "UNDER_REVIEW">> \in CASE_EDGES
      BY DEF CASE_EDGES
    <3> QED BY <3>1, CaseEdgeIsTaken DEF ApplyCaseEvent
  <2>2. caseStatus' = [caseStatus EXCEPT ![c] = "UNDER_REVIEW"]
    BY <1>3, <2>1 DEF SubmitResponse, Illegal, TypeOK
  <2>3. PICK n \in Replies(c) : n \in Nat /\ jobs[c] = AnchorScript(Opening(c), n, <<>>)
    BY <1>3, UndecidedScript DEF Undecided
  <2>4. jobs'[c] = AnchorScript(Opening(c), n + 1, <<>>)
    BY <1>1, <1>2, <1>3, <2>3, ScriptAnswered, OpeningType
  <2>5. caseStatus'[c] = "UNDER_REVIEW" /\ n + 1 \in Replies(c)'
    <3>1. caseStatus'[c] = "UNDER_REVIEW"
      BY <2>2 DEF TypeOK
    <3>2. n <= infoRequestCount[c]
      BY <1>2, <1>3, <2>3 DEF Replies
    <3>3. infoRequestCount'[c] = infoRequestCount[c] /\ n + 1 \in 0..(infoRequestCount[c] + 1)
      BY <1>1, <1>2, <2>3, <3>2
    <3> QED BY <3>1, <3>3 DEF Replies
  <2>6. <<>> \in VerdictScripts(caseStatus'[c]) /\ caseStatus'[c] # NoCase
    BY <2>5 DEF VerdictScripts, NoCase
  <2>7. ScriptMatches(c)'
    BY <2>4, <2>5, <2>6 DEF ScriptMatches
  <2> QED BY <1>1, <1>2, <2>2, <2>7, OneScriptMoves DEF TypeOK
<1>4. CASE caseStatus[c] # "AWAITING_RESPONSE"
  <2>1. UNCHANGED jobs
    <3>1. jobs[c] \o kinds = jobs[c]
      BY <1>2, <1>4, ConcatEmptySeq
    <3> HIDE DEF kinds
    <3> QED BY <1>1, <1>2, <3>1
  <2>2. UNCHANGED caseStatus
    <3>1. CASE UNCHANGED caseStatus
      BY <3>1
    <3>2. CASE /\ caseStatus[c] \in Undecided
               /\ caseStatus' = [caseStatus EXCEPT ![c] = "UNDER_REVIEW"]
      BY <1>4, <3>2 DEF Undecided, TypeOK
    <3> QED BY <3>1, <3>2, SubmitResponseEffect
  <2> QED BY <1>1, <2>1, <2>2, ScriptsUntouched
<1> QED BY <1>3, <1>4

(* A case that is asked or moved on undecided keeps its script.             *)
LEMMA UndecidedMoves ==
  ASSUME TypeOK, ScriptsMatch, NEW c \in CaseIds, caseStatus[c] \in Undecided,
         NEW to \in Undecided, caseStatus' = [caseStatus EXCEPT ![c] = to],
         \/ to = "UNDER_REVIEW" /\ UNCHANGED infoRequestCount
         \/ infoRequestCount' = [infoRequestCount EXCEPT ![c] = @ + 1],
         UNCHANGED jobs
  PROVE  ScriptsMatch'
<1>1. infoRequestCount[c] \in Nat /\ infoRequestCount \in [CaseIds -> 0..MAX_INFO_REQUESTS]
  BY MaxInfoRequestsAssumption DEF TypeOK
<1>2. PICK n \in Replies(c) : n \in Nat /\ jobs[c] = AnchorScript(Opening(c), n, <<>>)
  BY UndecidedScript
<1>3. caseStatus'[c] = to
  BY DEF TypeOK
<1>4. n \in Replies(c)'
  <2>1. n <= infoRequestCount[c] + 1
    BY <1>1, <1>2 DEF Replies
  <2>2. CASE to = "UNDER_REVIEW" /\ UNCHANGED infoRequestCount
    BY <1>1, <1>2, <1>3, <2>1, <2>2 DEF Replies
  <2>3. CASE infoRequestCount' = [infoRequestCount EXCEPT ![c] = @ + 1]
    <3>1. infoRequestCount'[c] = infoRequestCount[c] + 1
      BY <1>1, <2>3
    <3>2. n \in 0..infoRequestCount'[c] /\ n \in 0..(infoRequestCount'[c] + 1)
      BY <1>1, <1>2, <2>1, <3>1
    <3> QED BY <1>1, <3>1, <3>2 DEF Replies
  <2> QED BY <2>2, <2>3
<1>5. <<>> \in VerdictScripts(to) /\ to # NoCase
  BY DEF VerdictScripts, Undecided, NoCase
<1>6. ScriptMatches(c)'
  BY <1>2, <1>3, <1>4, <1>5 DEF ScriptMatches
<1> QED BY <1>1, <1>6, OneScriptMoves DEF TypeOK

(* A verdict ends the script of an undecided case.                          *)
LEMMA VerdictScript ==
  ASSUME TypeOK, ScriptsMatch, NEW c \in CaseIds, caseStatus[c] \in Undecided,
         NEW to \in {"DECIDED", "CLOSED"}, NEW verdict \in VerdictScripts(to),
         caseStatus' = [caseStatus EXCEPT ![c] = to],
         enqueueAnchor(c, verdict), UNCHANGED infoRequestCount
  PROVE  ScriptsMatch'
<1>1. infoRequestCount[c] \in Nat /\ jobs \in [CaseIds -> Seq(AnchorJobKind)]
  BY MaxInfoRequestsAssumption DEF TypeOK
<1>2. PICK n \in Replies(c) : n \in Nat /\ jobs[c] = AnchorScript(Opening(c), n, <<>>)
  BY UndecidedScript
<1>3. caseStatus'[c] = to /\ n \in Replies(c)'
  BY <1>1, <1>2 DEF Replies, TypeOK
<1>4. verdict \in Seq(AnchorJobKind)
  BY Scripts DEF VerdictScripts
<1>5. jobs'[c] = AnchorScript(Opening(c), n, verdict)
  <2>1. <<>> \in Seq(AnchorJobKind) /\ <<>> \o verdict = verdict
    BY <1>4, EmptySeq, ConcatEmptySeq
  <2>2. jobs'[c] = jobs[c] \o verdict
    BY <1>1 DEF enqueueAnchor
  <2>3. Opening(c) \in Seq(AnchorJobKind)
    BY OpeningType
  <2>4. AnchorScript(Opening(c), n, <<>>) \o verdict = AnchorScript(Opening(c), n, <<>> \o verdict)
    BY <1>2, <1>4, <2>1, <2>3, ScriptExtends
  <2> QED BY <1>2, <2>1, <2>2, <2>4
<1>6. ScriptMatches(c)'
  BY <1>3, <1>5 DEF ScriptMatches, NoCase
<1> QED BY <1>1, <1>6, OneScriptMoves DEF TypeOK, enqueueAnchor

(* A decided case that closes keeps its script, or gets its corrections.    *)
LEMMA DecidedScript ==
  ASSUME TypeOK, ScriptsMatch, NEW c \in CaseIds, caseStatus[c] \in {"DECIDED", "CLOSED"},
         caseStatus' = [caseStatus EXCEPT ![c] = "CLOSED"],
         \/ UNCHANGED jobs
         \/ /\ caseStatus[c] = "DECIDED"
            /\ enqueueAnchor(c, <<"correction_outstanding", "correction">>),
         UNCHANGED infoRequestCount
  PROVE  ScriptsMatch'
<1> DEFINE verdict   == <<"under_review", "decision">>
           corrected == <<"under_review", "decision", "correction_outstanding", "correction">>
<1>1. infoRequestCount[c] \in Nat /\ jobs \in [CaseIds -> Seq(AnchorJobKind)]
  BY MaxInfoRequestsAssumption DEF TypeOK
<1>2. caseStatus[c] # NoCase /\ caseStatus'[c] = "CLOSED" /\ "CLOSED" # NoCase
  BY DEF NoCase, TypeOK
<1>3. PICK n \in Replies(c), tail \in VerdictScripts(caseStatus[c]) : jobs[c] = AnchorScript(Opening(c), n, tail)
  BY <1>2 DEF ScriptsMatch, ScriptMatches
<1>4. n \in Nat /\ n \in Replies(c)'
  BY <1>1, <1>2, <1>3 DEF Replies
<1>5. VerdictScripts(caseStatus[c]) \subseteq VerdictScripts("CLOSED")
  BY DEF VerdictScripts
<1>6. CASE UNCHANGED jobs
  BY <1>2, <1>3, <1>4, <1>5, <1>6, OneScriptMoves DEF ScriptMatches, TypeOK
<1>7. CASE /\ caseStatus[c] = "DECIDED"
           /\ enqueueAnchor(c, <<"correction_outstanding", "correction">>)
  <2>1. tail = verdict /\ corrected \in VerdictScripts("CLOSED")
    BY <1>3, <1>7 DEF VerdictScripts
  <2>2. /\ verdict \in Seq(AnchorJobKind)
        /\ <<"correction_outstanding", "correction">> \in Seq(AnchorJobKind)
    BY Scripts
  <2>3. verdict \o <<"correction_outstanding", "correction">> = corrected
    <3> DEFINE more  == <<"correction_outstanding", "correction">>
               whole == verdict \o more
    <3>1. corrected \in Seq(AnchorJobKind) /\ Len(corrected) = 4
      BY Scripts
    <3>2. Len(verdict) = 2 /\ Len(more) = 2 /\ more \in Seq(AnchorJobKind)
      BY Scripts
    <3>3. /\ whole \in Seq(AnchorJobKind) /\ Len(whole) = 4
          /\ \A i \in 1..4 : whole[i] = IF i <= 2 THEN verdict[i] ELSE more[i - 2]
      <4> HIDE DEF verdict, more
      <4> QED BY <2>2, <3>2, ConcatProperties
    <3>4. \A i \in 1..4 : whole[i] = corrected[i]
      <4>1. whole[1] = verdict[1] /\ whole[2] = verdict[2] /\ whole[3] = more[1] /\ whole[4] = more[2]
        <5> HIDE DEF whole, verdict, more
        <5> QED BY <3>3
      <4> HIDE DEF whole
      <4> QED BY <4>1
    <3> HIDE DEF whole, corrected
    <3> QED BY <3>1, <3>3, <3>4, SeqEqual DEF whole
  <2>4. jobs'[c] = AnchorScript(Opening(c), n, corrected)
    <3>1. jobs'[c] = jobs[c] \o <<"correction_outstanding", "correction">>
      BY <1>1, <1>7 DEF enqueueAnchor
    <3> HIDE DEF verdict, corrected
    <3>2. Opening(c) \in Seq(AnchorJobKind)
      BY OpeningType
    <3>3. AnchorScript(Opening(c), n, verdict) \o <<"correction_outstanding", "correction">>
            = AnchorScript(Opening(c), n, verdict \o <<"correction_outstanding", "correction">>)
      BY <1>4, <2>2, <3>2, ScriptExtends
    <3> QED BY <1>3, <2>1, <2>3, <3>1, <3>3
  <2>5. ScriptMatches(c)'
    <3> HIDE DEF verdict, corrected
    <3> QED BY <1>2, <1>4, <2>1, <2>4 DEF ScriptMatches
  <2> QED BY <1>1, <1>7, <2>5, OneScriptMoves DEF TypeOK, enqueueAnchor
<1> QED BY <1>6, <1>7

(* Every handler leaves each case with a script.                            *)
LEMMA NextScripts == IInv /\ ScriptsMatch /\ [Next]_vars => ScriptsMatch'
<1> SUFFICES ASSUME IInv, ScriptsMatch, [Next]_vars PROVE ScriptsMatch'
  OBVIOUS
<1> USE DEF rowVars, chainVars
<1>0. TypeOK /\ DecidedOnce
  BY DEF IInv, Safety
<1>1. ASSUME NEW p \in Payments, NEW c \in CaseIds, OpenDispute(p, c) PROVE ScriptsMatch'
  BY <1>0, <1>1, OpenDisputeScript
<1>2. ASSUME NEW c \in CaseIds, NEW author \in Authors, NEW withEvidence \in BOOLEAN,
             SubmitResponse(c, author, withEvidence)
      PROVE  ScriptsMatch'
  BY <1>0, <1>2, SubmitResponseScript
<1>3. ASSUME NEW c \in CaseIds,
             \/ SubmitResponseRefused(c) \/ AttachEvidence(c)
             \/ DeadlineElapses(c) \/ SendRefund(c)
      PROVE  ScriptsMatch'
  BY <1>3, ScriptsUntouched
     DEF SubmitResponseRefused, AttachEvidence, DeadlineElapses, SendRefund, ChainStep
<1>4. ASSUME NEW c \in CaseIds, NEW target \in Parties, RequestInfo(c, target)
      PROVE  ScriptsMatch'
  <2>1. /\ infoRequestCount' = [infoRequestCount EXCEPT ![c] = @ + 1]
        /\ UNCHANGED jobs
    BY <1>4 DEF RequestInfo
  <2>2. "AWAITING_RESPONSE" \in Undecided
    BY DEF Undecided
  <2> QED BY <1>0, <1>4, <2>1, <2>2, RequestInfoEffect, UndecidedMoves
<1>5. ASSUME NEW c \in CaseIds, DecideRefund(c) PROVE ScriptsMatch'
  <2>1. <<"under_review", "decision">> \in VerdictScripts("DECIDED")
    BY DEF VerdictScripts
  <2>2. enqueueAnchor(c, <<"under_review", "decision">>) /\ UNCHANGED infoRequestCount
    BY <1>5 DEF DecideRefund
  <2> QED BY <1>0, <1>5, <2>1, <2>2, DecideRefundEffect, VerdictScript
<1>6. ASSUME NEW c \in CaseIds, NEW outcome \in {"release", "no_action"}, DecideClear(c, outcome)
      PROVE  ScriptsMatch'
  <2>1. <<"under_review", "decision", "close_no_correction">> \in VerdictScripts("CLOSED")
    BY DEF VerdictScripts
  <2>2. /\ enqueueAnchor(c, <<"under_review", "decision", "close_no_correction">>)
        /\ UNCHANGED infoRequestCount
    BY <1>6 DEF DecideClear
  <2> QED BY <1>0, <1>6, <2>1, <2>2, DecideClearEffect, VerdictScript
<1>7. ASSUME NEW c \in CaseIds, StampRefundTx(c) PROVE ScriptsMatch'
  <2>1. caseStatus[c] \in {"DECIDED", "CLOSED"}
    <3>1. caseStatus[c] \in CaseStatus /\ decisions[c] # <<>>
      BY <1>0, <1>7, StampRefundTxEffect DEF TypeOK, RefundDecided, ReleaseDecided
    <3> QED BY <1>0, <3>1 DEF DecidedOnce, CaseStatus, NoCase
  <2>2. UNCHANGED <<jobs, infoRequestCount>>
    BY <1>7 DEF StampRefundTx
  <2> QED BY <1>0, <1>7, <2>1, <2>2, StampRefundTxEffect, DecidedScript
<1>8. ASSUME NEW c \in CaseIds, DeadlinePassed(c) PROVE ScriptsMatch'
  <2>1. "UNDER_REVIEW" \in Undecided
    BY DEF Undecided
  <2>2. UNCHANGED <<jobs, infoRequestCount>>
    BY <1>8 DEF DeadlinePassed
  <2> QED BY <1>0, <1>8, <2>1, <2>2, DeadlinePassedEffect, UndecidedMoves
<1>9. ASSUME NEW p \in Payments, NEW debtRecorded \in BOOLEAN,
             ConfirmRefundExecuted(p, debtRecorded)
      PROVE  ScriptsMatch'
  <2>1. UNCHANGED infoRequestCount
    BY <1>9 DEF ConfirmRefundExecuted
  <2>2. CASE DecidedOn(p) = {} /\ UNCHANGED <<caseStatus, executed, jobs>>
    BY <2>1, <2>2, ScriptsUntouched
  <2>3. ASSUME NEW c \in DecidedOn(p), MoveCase(c, ExecutedThenClosed(c)),
               enqueueAnchor(c, <<"correction_outstanding", "correction">>)
        PROVE  ScriptsMatch'
    <3>1. c \in CaseIds /\ caseStatus[c] = "DECIDED"
      BY DEF DecidedOn
    <3>2. caseStatus' = [caseStatus EXCEPT ![c] = "CLOSED"]
      BY <2>3, <3>1, DecidedCloses DEF MoveCase, ExecutedThenClosed
    <3> QED BY <1>0, <2>1, <2>3, <3>1, <3>2, DecidedScript
  <2> QED BY <1>9, <2>2, <2>3 DEF ConfirmRefundExecuted
<1>10. ASSUME NEW p \in Payments,
              \/ \E result \in {"arbiter", "reverted"} : SettleRefund(p, result)
              \/ RefundByRecipient(p) \/ WithdrawOnChain(p)
              \/ ConfirmWithdrawn(p) \/ LockupEnded(p) \/ DebtSettled(p)
       PROVE  ScriptsMatch'
  BY <1>10, ScriptsUntouched
     DEF SettleRefund, RefundByRecipient, WithdrawOnChain, ChainStep,
         ConfirmWithdrawn, LockupEnded, DebtSettled, PayoutHook
<1>11. CASE UNCHANGED vars
  BY <1>11, ScriptsUntouched DEF vars
<1> QED BY <1>1, <1>2, <1>3, <1>4, <1>5, <1>6, <1>7, <1>8, <1>9, <1>10, <1>11
        DEF Next, SchedulerTick

(* The jobs of a case are the script of what its handlers recorded, in the   *)
(* order in which they recorded it: its opening (none, if the amount of the  *)
(* case was not a number), a response for every reply that moved it to       *)
(* review, at most one more than there were requests for information, and    *)
(* the verdict its status has reached.  That the registry takes more than    *)
(* one of the responses is not claimed: services.ts:494-496 says it does not.*)
THEOREM ScriptsInOrder == Spec => []AnchorScriptInOrder
<1>1. Init => ScriptsMatch
  BY DEF Init, ScriptsMatch, ScriptMatches
<1>2. IInv /\ ScriptsMatch => AnchorScriptInOrder
  <2> SUFFICES ASSUME IInv, ScriptsMatch, NEW c \in CaseIds, caseStatus[c] # NoCase
               PROVE  \E n \in 0..(infoRequestCount[c] + 1),
                         verdict \in VerdictScripts(caseStatus[c]) :
                           jobs[c] = AnchorScript(Opening(c), n, verdict)
    BY DEF AnchorScriptInOrder, ScriptsMatch, ScriptMatches
  <2>1. infoRequestCount[c] \in Nat
    BY MaxInfoRequestsAssumption DEF IInv, TypeOK
  <2>2. Replies(c) \subseteq 0..(infoRequestCount[c] + 1)
    BY <2>1 DEF Replies
  <2> QED BY <2>2 DEF ScriptsMatch, ScriptMatches
<1> QED BY <1>1, <1>2, NextScripts, Invariance, PTL DEF Spec

-----------------------------------------------------------------------------
(***************************************************************************)
(* DisputeSteps: what the records keep to while handlers overlap and       *)
(* restarts cut them off.  The invariant relates what each handler has in  *)
(* its local variables to the rows, which others may have written since.   *)
(* What keeps it true is that rows only grow (RowsGrow), and that a handler *)
(* writes what others rely on after what it rests on.                      *)
(***************************************************************************)

(* A request that has loaded a case.                                        *)
Loaded(h) == h.c \in CaseIds /\ Exists(h.c)

OpenDisputeFits(h) ==
  /\ h.pc \in {"check", "savePayout", "number", "create", "serve", "enqueue"}
  /\ h.p \in Payments
  /\ h.pc = "savePayout" => h.pst = "DISPUTED"
  /\ h.pc = "create" => h.c \in CaseIds
  /\ h.pc \in {"serve", "enqueue"} => Loaded(h)
  /\ h.pc = "enqueue" =>
       /\ caseStatus[h.c] # "OPEN" /\ h.todo = <<"case">> /\ h.c \notin NotANumber

SubmitResponseFits(h) ==
  /\ h.pc \in {"create", "evidence", "file", "save", "enqueue"}
  /\ Loaded(h)
  /\ h.pc # "create" => replied[h.c]
  /\ h.pc = "enqueue" => h.todo = <<"response">>

AttachEvidenceFits(h) == h.pc = "file" /\ Loaded(h)

RequestInfoFits(h) ==
  /\ h.pc = "save" /\ Loaded(h)
  /\ h.arg \in Parties
  /\ ReviewThen(h.st, h.n, "request_info") # Illegal

RecordDecisionFits(h) ==
  /\ h.pc \in {"payout", "savePayout", "decide", "enqueue", "saveCase"}
  /\ Loaded(h)
  /\ h.p \in Payments /\ h.arg \in DecisionOutcome
  /\ h.pc = "savePayout" => h.pst = "WITHDRAWABLE"
  /\ h.pc \in {"enqueue", "saveCase"} => decisions[h.c] # <<>>
  /\ h.pc = "saveCase" => h.st = IF h.arg = "refund" THEN "DECIDED" ELSE "CLOSED"
  /\ h.pc = "enqueue" =>
       h.todo \in IF h.arg = "refund"
                  THEN {<<"under_review", "decision">>, <<"decision">>}
                  ELSE {<<"under_review", "decision", "close_no_correction">>,
                        <<"decision", "close_no_correction">>, <<"close_no_correction">>}

StampRefundTxFits(h) ==
  /\ h.pc \in {"stamp", "payout", "savePayout", "saveCase"}
  /\ Loaded(h) /\ HasHash(h.c)
  /\ h.p = payoutRef[h.c]
  /\ h.pc # "stamp" => executed[h.c]
  /\ h.pc = "savePayout" => h.pst = "REFUNDED"
  /\ h.pc \in {"savePayout", "saveCase"} => h.st = "CLOSED"

ConfirmRefundFits(h) ==
  /\ h.pc \in {"savePayout", "find", "saveCase", "execute", "enqueue"}
  /\ h.p \in Payments /\ RefundedOnChain(h.p)
  /\ h.pc = "savePayout" => h.pst \in {"REFUNDED", "DEBT_OUTSTANDING"}
  /\ h.pc \in {"saveCase", "execute", "enqueue"} =>
       Loaded(h) /\ payoutRef[h.c] = h.p /\ decisions[h.c] # <<>>
  /\ h.pc = "saveCase" => h.st = "CLOSED"
  /\ h.pc = "enqueue" =>
       /\ executed[h.c]
       /\ h.todo \in {<<"correction_outstanding", "correction">>, <<"correction">>}

PayoutHookFits(h) ==
  /\ h.pc = "savePayout"
  /\ h.p \in Payments
  /\ \/ h.pst = "WITHDRAWABLE"
     \/ h.pst = "WITHDRAWN" /\ chainWithdrawn[h.p]
     \/ h.pst = "DEBT_SETTLED" /\ chainRefund[h.p] # "no"

DeadlinePassedFits(h) == h.pc = "saveCase" /\ Loaded(h) /\ h.st = "UNDER_REVIEW"

TickFits(h) == h.pc = "tick" /\ h.due \subseteq Existing

(* What a handler holds in its local variables agrees with the rows it was   *)
(* read from and with the rows it has written, whatever others did since.    *)
Fits(h) ==
  /\ h.op = "idle" => h.pc = "idle"
  /\ h.op = "openDispute" => OpenDisputeFits(h)
  /\ h.op = "submitResponse" => SubmitResponseFits(h)
  /\ h.op = "attachEvidence" => AttachEvidenceFits(h)
  /\ h.op = "requestInfo" => RequestInfoFits(h)
  /\ h.op = "recordDecision" => RecordDecisionFits(h)
  /\ h.op = "stampRefundTx" => StampRefundTxFits(h)
  /\ h.op = "confirmRefund" => ConfirmRefundFits(h)
  /\ h.op = "payoutHook" => PayoutHookFits(h)
  /\ h.op = "deadlinePassed" => DeadlinePassedFits(h)
  /\ h.op = "tick" => TickFits(h)

HandlersFit == \A s \in Slots : Fits(handler[s])

(* A handler that will enqueue a job of this kind next (a verdict that needs *)
(* no refund is anchored after the case was saved).                          *)
Owes(h, c, kind) ==
  /\ h.c = c
  /\ \/ h.pc = "enqueue" /\ Head(h.todo) = kind
     \/ /\ h.op = "recordDecision" /\ h.pc = "saveCase" /\ h.arg # "refund"
        /\ kind = "under_review"

OwingIn(hs, c, kind) == {s \in Slots : Owes(hs[s], c, kind)}
Owing(c, kind) == OwingIn(handler, c, kind)

(* The jobs that are queued and those that are owed, put together, do not    *)
(* run ahead of what they build on.                                          *)
CountsMatch ==
  \A c \in CaseIds :
    /\ Queued(c, "under_review") + Cardinality(Owing(c, "under_review")) <= Len(decisions[c])
    /\ Queued(c, "decision") + Cardinality(Owing(c, "decision")) <= Queued(c, "under_review")
    /\ Queued(c, "correction") + Cardinality(Owing(c, "correction"))
         <= Queued(c, "correction_outstanding")

QueueHasRows ==
  \A c \in CaseIds :
    /\ Queued(c, "case") > 0 => Exists(c) /\ caseStatus[c] # "OPEN"
    /\ Queued(c, "response") > 0 => replied[c]
    /\ Queued(c, "correction_outstanding") > 0 =>
         Exists(c) /\ executed[c] /\ RefundedOnChain(payoutRef[c])

(* Every push to a case's info requests was a call of its own.              *)
Asking == {s \in Slots : handler[s].op = "requestInfo"}
VersionsMatch == \A c \in CaseIds : version[c] + Cardinality(Asking) <= calls

StepsInv ==
  /\ StepsTypeOK /\ HandlersFit
  /\ VerdictHasReasons /\ QueueHasRows /\ StatusFollowsChain
  /\ CountsMatch /\ VersionsMatch

-----------------------------------------------------------------------------
(* Rows only grow, and so whatever fits a handler goes on fitting it.        *)

CaseGrows(c) ==
  /\ Exists(c) => /\ caseStatus'[c] # NoCase /\ payoutRef'[c] = payoutRef[c]
                  /\ caseStatus[c] # "OPEN" => caseStatus'[c] # "OPEN"
  /\ replied[c] => replied'[c]
  /\ executed[c] => executed'[c]
  /\ decisions[c] # <<>> => decisions'[c] # <<>> /\ Head(decisions'[c]) = Head(decisions[c])

PaymentGrows(p) ==
  /\ chainWithdrawn[p] => chainWithdrawn'[p]
  /\ chainRefund[p] # "no" => chainRefund'[p] # "no"
  /\ RefundedOnChain(p) => RefundedOnChain(p)'

RowsGrow ==
  /\ \A c \in CaseIds : CaseGrows(c)
  /\ \A p \in Payments : PaymentGrows(p)

LEMMA RowsStay ==
  ASSUME UNCHANGED <<caseStatus, payoutRef, replied, executed, decisions, chainVars>>
  PROVE  RowsGrow
BY DEF RowsGrow, CaseGrows, PaymentGrows, RefundedOnChain, Exists, chainVars

(* A case that exists was opened on a payment.                              *)
LEMMA ExistingHasPayment ==
  ASSUME TypeOK, NEW c \in CaseIds
  PROVE  Exists(c) <=> payoutRef[c] \in Payments
BY NoPayoutAssumption DEF TypeOK, Exists

LEMMA LoadedStays ==
  ASSUME RowsGrow, NEW h, Loaded(h)
  PROVE  Loaded(h)' /\ payoutRef'[h.c] = payoutRef[h.c]
BY DEF RowsGrow, CaseGrows, Loaded, Exists

LEMMA HasHashStays ==
  ASSUME TypeOK, RowsGrow, NEW c \in CaseIds, Exists(c), HasHash(c)
  PROVE  HasHash(c)'
<1>1. payoutRef[c] \in Payments /\ payoutRef'[c] = payoutRef[c]
  BY ExistingHasPayment DEF RowsGrow, CaseGrows
<1>2. RefundDecided(c) => RefundDecided(c)'
  BY DEF RefundDecided, RowsGrow, CaseGrows
<1>3. ReleaseDecided(c) => ReleaseDecided(c)'
  BY DEF ReleaseDecided, RowsGrow, CaseGrows
<1>4. chainRefund[payoutRef[c]] # "no" => chainRefund'[payoutRef'[c]] # "no"
  BY <1>1 DEF RowsGrow, PaymentGrows
<1> QED BY <1>2, <1>3, <1>4 DEF HasHash

LEMMA FitsStays ==
  ASSUME TypeOK, RowsGrow, NEW h, Fits(h)
  PROVE  Fits(h)'
<1>1. h.op = "idle" => h.pc = "idle"
  BY DEF Fits
<1>2. ASSUME h.op = "openDispute" PROVE OpenDisputeFits(h)'
  <2>1. OpenDisputeFits(h)
    BY <1>2 DEF Fits
  <2>2. h.pc = "enqueue" => caseStatus'[h.c] # "OPEN"
    BY <2>1 DEF OpenDisputeFits, Loaded, RowsGrow, CaseGrows
  <2> QED BY <2>1, <2>2, LoadedStays DEF OpenDisputeFits
<1>3. ASSUME h.op = "submitResponse" PROVE SubmitResponseFits(h)'
  <2>1. SubmitResponseFits(h)
    BY <1>3 DEF Fits
  <2> QED BY <2>1, LoadedStays DEF SubmitResponseFits, Loaded, RowsGrow, CaseGrows
<1>4. ASSUME h.op = "attachEvidence" PROVE AttachEvidenceFits(h)'
  BY <1>4, LoadedStays DEF Fits, AttachEvidenceFits
<1>5. ASSUME h.op = "requestInfo" PROVE RequestInfoFits(h)'
  BY <1>5, LoadedStays DEF Fits, RequestInfoFits
<1>6. ASSUME h.op = "recordDecision" PROVE RecordDecisionFits(h)'
  <2>1. RecordDecisionFits(h)
    BY <1>6 DEF Fits
  <2>2. decisions[h.c] # <<>> => decisions'[h.c] # <<>>
    BY <2>1 DEF RecordDecisionFits, Loaded, RowsGrow, CaseGrows
  <2> QED BY <2>1, <2>2, LoadedStays DEF RecordDecisionFits
<1>7. ASSUME h.op = "stampRefundTx" PROVE StampRefundTxFits(h)'
  <2>1. StampRefundTxFits(h)
    BY <1>7 DEF Fits
  <2>2. HasHash(h.c)' /\ Loaded(h)' /\ payoutRef'[h.c] = payoutRef[h.c]
    BY <2>1, HasHashStays, LoadedStays DEF StampRefundTxFits, Loaded
  <2>3. executed[h.c] => executed'[h.c]
    BY <2>1 DEF StampRefundTxFits, Loaded, RowsGrow, CaseGrows
  <2> QED BY <2>1, <2>2, <2>3 DEF StampRefundTxFits
<1>8. ASSUME h.op = "confirmRefund" PROVE ConfirmRefundFits(h)'
  <2>1. ConfirmRefundFits(h)
    BY <1>8 DEF Fits
  <2>2. RefundedOnChain(h.p)'
    BY <2>1 DEF ConfirmRefundFits, RowsGrow, PaymentGrows
  <2>3. Loaded(h) => /\ Loaded(h)' /\ payoutRef'[h.c] = payoutRef[h.c]
                     /\ executed[h.c] => executed'[h.c]
                     /\ decisions[h.c] # <<>> => decisions'[h.c] # <<>>
    BY LoadedStays DEF Loaded, RowsGrow, CaseGrows
  <2> QED BY <2>1, <2>2, <2>3 DEF ConfirmRefundFits
<1>9. ASSUME h.op = "payoutHook" PROVE PayoutHookFits(h)'
  BY <1>9 DEF Fits, PayoutHookFits, RowsGrow, PaymentGrows
<1>10. ASSUME h.op = "deadlinePassed" PROVE DeadlinePassedFits(h)'
  BY <1>10, LoadedStays DEF Fits, DeadlinePassedFits
<1>11. ASSUME h.op = "tick" PROVE TickFits(h)'
  BY <1>11 DEF Fits, TickFits, Existing, Exists, RowsGrow, CaseGrows
<1> QED BY <1>1, <1>2, <1>3, <1>4, <1>5, <1>6, <1>7, <1>8, <1>9, <1>10, <1>11 DEF Fits

(* One handler moves, to where it fits; the others fit as before.           *)
LEMMA HandlersMove ==
  ASSUME TypeOK, RowsGrow, HandlersFit, handler \in [Slots -> Handlers],
         NEW s \in Slots, NEW h \in Handlers, Fits(h)', handler' = [handler EXCEPT ![s] = h]
  PROVE  HandlersFit' /\ handler' \in [Slots -> Handlers]
<1>1. handler' \in [Slots -> Handlers]
  OBVIOUS
<1>2. ASSUME NEW t \in Slots PROVE Fits(handler[t])'
  <2>1. CASE t = s
    <3>1. handler'[t] = h
      BY <2>1
    <3> QED BY <3>1 DEF Fits
  <2>2. CASE t # s
    <3>1. PICK k : k = handler[t]
      OBVIOUS
    <3>2. handler'[t] = k /\ Fits(k)
      BY <2>2, <3>1 DEF HandlersFit
    <3>3. Fits(k)'
      BY <3>2, FitsStays
    <3> QED BY <3>2, <3>3
  <2> QED BY <2>1, <2>2
<1> QED BY <1>1, <1>2 DEF HandlersFit

-----------------------------------------------------------------------------
(* Counting: queued jobs, and handlers that owe one.                        *)

LEMMA HowManyType ==
  ASSUME NEW q \in Seq(AnchorJobKind), NEW kind
  PROVE  HowMany(q, kind) \in Nat
<1>1. IsFiniteSet(1..Len(q))
  BY FS_Interval, LenProperties
<1>2. IsFiniteSet({i \in 1..Len(q) : q[i] = kind})
  BY <1>1, FS_Subset
<1> QED BY <1>2, FS_CardinalityType DEF HowMany

(* A job of this kind more is queued, or one of another kind.               *)
LEMMA HowManyGrows ==
  ASSUME NEW q \in Seq(AnchorJobKind), NEW k \in AnchorJobKind, NEW kind
  PROVE  HowMany(q \o <<k>>, kind) = IF kind = k THEN HowMany(q, kind) + 1 ELSE HowMany(q, kind)
<1> DEFINE at   == {i \in 1..Len(q) : q[i] = kind}
           more == q \o <<k>>
           now  == {i \in 1..Len(more) : more[i] = kind}
<1>1. Len(q) \in Nat
  BY LenProperties
<1>2. <<k>> \in Seq(AnchorJobKind) /\ Len(<<k>>) = 1 /\ <<k>>[1] = k
  OBVIOUS
<1>3. /\ Len(more) = Len(q) + 1
      /\ \A i \in 1..Len(q) : more[i] = q[i]
      /\ more[Len(q) + 1] = k
  <2>1. /\ Len(more) = Len(q) + 1
        /\ \A i \in 1..(Len(q) + 1) : more[i] = IF i <= Len(q) THEN q[i] ELSE <<k>>[i - Len(q)]
    BY <1>1, <1>2, ConcatProperties
  <2>2. Len(q) + 1 \in 1..(Len(q) + 1) /\ ~ (Len(q) + 1 <= Len(q)) /\ (Len(q) + 1) - Len(q) = 1
    BY <1>1
  <2>3. \A i \in 1..Len(q) : i \in 1..(Len(q) + 1) /\ i <= Len(q)
    BY <1>1
  <2> HIDE DEF more
  <2> QED BY <1>2, <2>1, <2>2, <2>3
<1>4. IsFiniteSet(at) /\ Cardinality(at) = HowMany(q, kind)
  <2>1. IsFiniteSet(1..Len(q))
    BY <1>1, FS_Interval
  <2> QED BY <2>1, FS_Subset DEF HowMany
<1>5. now = IF kind = k THEN at \cup {Len(q) + 1} ELSE at
  <2>1. 1..Len(more) = 1..Len(q) \cup {Len(q) + 1}
    <3>1. 1..(Len(q) + 1) = 1..Len(q) \cup {Len(q) + 1}
      BY <1>1
    <3> QED BY <1>3, <3>1
  <2> HIDE DEF more
  <2> QED BY <1>3, <2>1
<1>6. Len(q) + 1 \notin at
  BY <1>1
<1>7. Cardinality(now) = IF kind = k THEN Cardinality(at) + 1 ELSE Cardinality(at)
  <2> HIDE DEF at, now
  <2> QED BY <1>4, <1>5, <1>6, FS_AddElement
<1> QED BY <1>4, <1>7 DEF HowMany

LEMMA OwingType ==
  ASSUME NEW hs, NEW c, NEW kind
  PROVE  IsFiniteSet(OwingIn(hs, c, kind)) /\ Cardinality(OwingIn(hs, c, kind)) \in Nat
BY SlotsAssumption, FS_Subset, FS_CardinalityType DEF OwingIn

Moves(hs, now, s, h) == now = [hs EXCEPT ![s] = h]

(* When one handler moves, the handlers that owe a job change by that one.  *)
LEMMA OwingMoves ==
  ASSUME NEW hs \in [Slots -> Handlers], NEW s \in Slots, NEW h \in Handlers,
         NEW now, Moves(hs, now, s, h), NEW c, NEW kind
  PROVE  /\ Owes(hs[s], c, kind) /\ Owes(h, c, kind) =>
              Cardinality(OwingIn(now, c, kind)) = Cardinality(OwingIn(hs, c, kind))
         /\ Owes(hs[s], c, kind) /\ ~ Owes(h, c, kind) =>
              Cardinality(OwingIn(now, c, kind)) = Cardinality(OwingIn(hs, c, kind)) - 1
         /\ ~ Owes(hs[s], c, kind) /\ Owes(h, c, kind) =>
              Cardinality(OwingIn(now, c, kind)) = Cardinality(OwingIn(hs, c, kind)) + 1
         /\ ~ Owes(hs[s], c, kind) /\ ~ Owes(h, c, kind) =>
              Cardinality(OwingIn(now, c, kind)) = Cardinality(OwingIn(hs, c, kind))
<1> DEFINE owed == OwingIn(hs, c, kind)
           after  == OwingIn(now, c, kind)
           others == owed \ {s}
<1>1. \A t \in Slots : now[t] = IF t = s THEN h ELSE hs[t]
  BY DEF Moves
<1>3. s \in owed <=> Owes(hs[s], c, kind)
  BY DEF OwingIn
<1>4. after = IF Owes(h, c, kind) THEN others \cup {s} ELSE others
  BY <1>1 DEF OwingIn
<1>5. IsFiniteSet(owed) /\ Cardinality(owed) \in Nat
  BY OwingType
<1> HIDE DEF owed, after
<1>6. /\ IsFiniteSet(others) /\ s \notin others /\ Cardinality(others) \in Nat
      /\ Cardinality(others) = IF s \in owed THEN Cardinality(owed) - 1 ELSE Cardinality(owed)
  BY <1>5, FS_RemoveElement, FS_CardinalityType
<1> HIDE DEF others
<1>7. Cardinality(after) = Cardinality(others) + (IF Owes(h, c, kind) THEN 1 ELSE 0)
  <2>1. Cardinality(others \cup {s}) = Cardinality(others) + 1
    BY <1>6, FS_AddElement
  <2>2. CASE Owes(h, c, kind)
    BY <1>4, <2>1, <2>2
  <2>3. CASE ~ Owes(h, c, kind)
    BY <1>4, <1>6, <2>3
  <2> QED BY <2>2, <2>3
<1> QED BY <1>3, <1>5, <1>6, <1>7 DEF owed, after

CountedKinds == {"under_review", "decision", "correction"}

(* What a case's queue and the handlers in the air must keep to.            *)
CaseCounts(queue, hs, verdicts, c) ==
  /\ HowMany(queue, "under_review") + Cardinality(OwingIn(hs, c, "under_review")) <= Len(verdicts)
  /\ HowMany(queue, "decision") + Cardinality(OwingIn(hs, c, "decision"))
       <= HowMany(queue, "under_review")
  /\ HowMany(queue, "correction") + Cardinality(OwingIn(hs, c, "correction"))
       <= HowMany(queue, "correction_outstanding")

(* Nothing is queued or decided, and the handler that moves owes no more.   *)
LEMMA CaseCountsKept ==
  ASSUME NEW hs \in [Slots -> Handlers], NEW s \in Slots, NEW h \in Handlers,
         NEW now, Moves(hs, now, s, h), NEW c \in CaseIds,
         NEW queue \in Seq(AnchorJobKind), NEW verdicts \in Seq(DecisionOutcome),
         CaseCounts(queue, hs, verdicts, c),
         \A kind \in CountedKinds : Owes(h, c, kind) => Owes(hs[s], c, kind)
  PROVE  CaseCounts(queue, now, verdicts, c)
<1>1. ASSUME NEW kind \in CountedKinds, NEW bound \in Nat,
             HowMany(queue, kind) + Cardinality(OwingIn(hs, c, kind)) <= bound
      PROVE  HowMany(queue, kind) + Cardinality(OwingIn(now, c, kind)) <= bound
  <2> DEFINE a == Cardinality(OwingIn(hs, c, kind))
             b == Cardinality(OwingIn(now, c, kind))
  <2>1. a \in Nat /\ b \in Nat /\ HowMany(queue, kind) \in Nat
    BY OwingType, HowManyType
  <2>2. b = a \/ b = a - 1
    BY OwingMoves
  <2> HIDE DEF a, b
  <2>4. b <= a
    BY <2>1, <2>2
  <2>5. HowMany(queue, kind) + b <= bound
    BY <1>1, <2>1, <2>4 DEF a
  <2> QED BY <2>5 DEF b
<1>2. /\ Len(verdicts) \in Nat
      /\ HowMany(queue, "under_review") \in Nat
      /\ HowMany(queue, "correction_outstanding") \in Nat
  BY LenProperties, HowManyType
<1> QED BY <1>1, <1>2 DEF CaseCounts, CountedKinds

LEMMA CountsAreCaseCounts ==
  CountsMatch <=> \A c \in CaseIds : CaseCounts(jobs[c], handler, decisions[c], c)
BY DEF CountsMatch, CaseCounts, Queued, Owing

LEMMA CountsKept ==
  ASSUME TypeOK, CountsMatch, handler \in [Slots -> Handlers],
         NEW s \in Slots, NEW h \in Handlers, handler' = [handler EXCEPT ![s] = h],
         \A c \in CaseIds : \A kind \in CountedKinds :
           Owes(h, c, kind) => Owes(handler[s], c, kind),
         UNCHANGED <<jobs, decisions>>
  PROVE  CountsMatch'
<1> SUFFICES ASSUME NEW c \in CaseIds PROVE CaseCounts(jobs'[c], handler', decisions'[c], c)
  BY DEF CountsMatch, CaseCounts, Queued, Owing
<1>1. jobs[c] \in Seq(AnchorJobKind) /\ decisions[c] \in Seq(DecisionOutcome)
  BY DEF TypeOK
<1>2. CaseCounts(jobs[c], handler, decisions[c], c)
  BY CountsAreCaseCounts
<1>3. CaseCounts(jobs[c], handler', decisions[c], c)
  BY <1>1, <1>2, CaseCountsKept DEF Moves
<1> QED BY <1>3

(* A call that asks for information is counted, and so is one that is over. *)
LEMMA VersionsKept ==
  ASSUME StepsTypeOK, VersionsMatch, NEW s \in Slots, NEW h \in Handlers,
         handler' = [handler EXCEPT ![s] = h],
         version' = version, calls' \in 0..MaxCalls,
         \/ calls' = calls /\ (h.op = "requestInfo" => handler[s].op = "requestInfo")
         \/ calls' = calls + 1
  PROVE  VersionsMatch'
<1>1. /\ handler \in [Slots -> Handlers] /\ calls \in Nat /\ calls' \in Nat
      /\ \A c \in CaseIds : version[c] \in Nat
  BY StepBoundsAssumption DEF StepsTypeOK
<1>2. \A t \in Slots : handler'[t] = IF t = s THEN h ELSE handler[t]
  BY <1>1
<1>3. IsFiniteSet(Asking) /\ Cardinality(Asking) \in Nat
  BY SlotsAssumption, FS_Subset, FS_CardinalityType DEF Asking
<1>4. IsFiniteSet(Asking') /\ Cardinality(Asking') \in Nat
  <2>1. Asking' \subseteq Slots
    BY DEF Asking
  <2> QED BY <2>1, SlotsAssumption, FS_Subset, FS_CardinalityType
<1>5. Asking' \subseteq Asking \cup {s}
  BY <1>2 DEF Asking
<1>6. (h.op = "requestInfo" => handler[s].op = "requestInfo") => Asking' \subseteq Asking
  BY <1>2 DEF Asking
<1>7. Cardinality(Asking') <= Cardinality(Asking) + 1
  <2>1. /\ IsFiniteSet(Asking \cup {s})
        /\ Cardinality(Asking \cup {s}) <= Cardinality(Asking) + 1
    <3>1. /\ IsFiniteSet(Asking \cup {s})
          /\ Cardinality(Asking \cup {s}) =
               IF s \in Asking THEN Cardinality(Asking) ELSE Cardinality(Asking) + 1
      BY <1>3, FS_AddElement
    <3> QED BY <1>3, <3>1
  <2>2. Cardinality(Asking \cup {s}) \in Nat /\ Cardinality(Asking') <= Cardinality(Asking \cup {s})
    BY <1>5, <2>1, FS_Subset, FS_CardinalityType
  <2> QED BY <1>3, <1>4, <2>1, <2>2
<1>8. (h.op = "requestInfo" => handler[s].op = "requestInfo")
        => Cardinality(Asking') <= Cardinality(Asking)
  BY <1>3, <1>6, FS_Subset
<1>9. \A c \in CaseIds : version[c] + Cardinality(Asking) <= calls
  BY DEF VersionsMatch
<1>10. ASSUME NEW c \in CaseIds PROVE version'[c] + Cardinality(Asking') <= calls'
  <2>1. version[c] + Cardinality(Asking) <= calls /\ version[c] \in Nat
    BY <1>1, <1>9
  <2>2. CASE calls' = calls + 1
    BY <1>1, <1>3, <1>4, <1>7, <2>1, <2>2
  <2>3. CASE calls' = calls /\ (h.op = "requestInfo" => handler[s].op = "requestInfo")
    BY <1>1, <1>3, <1>4, <1>8, <2>1, <2>3
  <2> QED BY <2>2, <2>3
<1> QED BY <1>10 DEF VersionsMatch

-----------------------------------------------------------------------------
(* Steps of one handler that queue and decide nothing.                      *)

LEMMA PayoutsUntouched ==
  ASSUME TypeOK, RowsGrow, StatusFollowsChain, UNCHANGED payoutStatus
  PROVE  StatusFollowsChain'
<1> SUFFICES ASSUME NEW p \in Payments
             PROVE  /\ payoutStatus'[p] \in Held \ {"DISPUTED"}
                         => chainRefund'[p] # "no" \/ Misreported(p)'
                    /\ payoutStatus'[p] = "WITHDRAWN" => chainWithdrawn'[p]
  BY DEF StatusFollowsChain
<1>1. PaymentGrows(p) /\ payoutStatus'[p] = payoutStatus[p]
  BY DEF RowsGrow
<1>2. Misreported(p) => Misreported(p)'
  <2> SUFFICES ASSUME Misreported(p) PROVE Misreported(p)'
    OBVIOUS
  <2>1. PICK c \in CaseIds : payoutRef[c] = p /\ ReleaseDecided(c) /\ executed[c]
    BY DEF Misreported
  <2>2. payoutRef'[c] = p
    BY <2>1, ExistingHasPayment DEF RowsGrow, CaseGrows
  <2>3. ReleaseDecided(c)' /\ executed'[c]
    BY <2>1 DEF ReleaseDecided, RowsGrow, CaseGrows
  <2> QED BY <1>1, <2>2, <2>3 DEF Misreported
<1> QED BY <1>1, <1>2 DEF StatusFollowsChain, PaymentGrows

LEMMA ReasonsKept ==
  ASSUME VerdictHasReasons, RowsGrow,
         \A c \in CaseIds : caseStatus'[c] \in {"DECIDED", "CLOSED"} =>
           caseStatus[c] \in {"DECIDED", "CLOSED"} \/ decisions[c] # <<>>
  PROVE  VerdictHasReasons'
BY DEF VerdictHasReasons, RowsGrow, CaseGrows

LEMMA QueueRowsKept ==
  ASSUME TypeOK, QueueHasRows, RowsGrow, UNCHANGED jobs
  PROVE  QueueHasRows'
<1> SUFFICES ASSUME NEW c \in CaseIds
             PROVE  /\ Queued(c, "case")' > 0 => Exists(c)' /\ caseStatus'[c] # "OPEN"
                    /\ Queued(c, "response")' > 0 => replied'[c]
                    /\ Queued(c, "correction_outstanding")' > 0 =>
                         Exists(c)' /\ executed'[c] /\ RefundedOnChain(payoutRef[c])'
  BY DEF QueueHasRows
<1>1. /\ Queued(c, "case")' = Queued(c, "case")
      /\ Queued(c, "response")' = Queued(c, "response")
      /\ Queued(c, "correction_outstanding")' = Queued(c, "correction_outstanding")
  BY DEF Queued
<1>2. Exists(c) => Exists(c)' /\ payoutRef'[c] = payoutRef[c] /\ payoutRef[c] \in Payments
  BY ExistingHasPayment DEF RowsGrow, CaseGrows, Exists
<1>3. Exists(c) /\ RefundedOnChain(payoutRef[c]) => RefundedOnChain(payoutRef[c])'
  BY <1>2 DEF RowsGrow, PaymentGrows, RefundedOnChain
<1>4. CaseGrows(c)
  BY DEF RowsGrow
<1> QED BY <1>1, <1>2, <1>3, <1>4 DEF QueueHasRows, CaseGrows

(* The handler that moves owes no job it did not owe before.                *)
OwesNoMore(s, h) ==
  \A c \in CaseIds : \A kind \in CountedKinds : Owes(h, c, kind) => Owes(handler[s], c, kind)

LEMMA StepSettles ==
  ASSUME StepsInv, NEW s \in Slots, NEW h \in Handlers, handler' = [handler EXCEPT ![s] = h],
         Fits(h)', RowsGrow, TypeOK', StatusFollowsChain',
         UNCHANGED <<version, jobs, decisions>>, OwesNoMore(s, h),
         \A c \in CaseIds : caseStatus'[c] \in {"DECIDED", "CLOSED"} =>
           caseStatus[c] \in {"DECIDED", "CLOSED"} \/ decisions[c] # <<>>,
         calls' \in 0..MaxCalls,
         \/ calls' = calls /\ (h.op = "requestInfo" => handler[s].op = "requestInfo")
         \/ calls' = calls + 1
  PROVE  StepsInv'
<1>1. StepsTypeOK /\ TypeOK /\ handler \in [Slots -> Handlers]
  BY DEF StepsInv, StepsTypeOK
<1>2. HandlersFit' /\ handler' \in [Slots -> Handlers]
  BY <1>1, HandlersMove DEF StepsInv
<1>3. StepsTypeOK'
  BY <1>1, <1>2 DEF StepsTypeOK
<1>4. VerdictHasReasons' /\ QueueHasRows'
  BY <1>1, ReasonsKept, QueueRowsKept DEF StepsInv
<1>5. CountsMatch'
  BY <1>1, CountsKept DEF StepsInv, OwesNoMore
<1>6. VersionsMatch'
  BY <1>1, VersionsKept DEF StepsInv
<1> QED BY <1>2, <1>3, <1>4, <1>5, <1>6 DEF StepsInv

LEMMA OwesNothing ==
  ASSUME NEW s, NEW h, h.pc # "enqueue",
         ~ (h.op = "recordDecision" /\ h.pc = "saveCase" /\ h.arg # "refund")
  PROVE  OwesNoMore(s, h)
BY DEF OwesNoMore, Owes

(* The rows are only read.                                                  *)
LEMMA ReadSettles ==
  ASSUME StepsInv, NEW s \in Slots, NEW h \in Handlers, handler' = [handler EXCEPT ![s] = h],
         Fits(h), UNCHANGED <<dbVars, chainVars>>, OwesNoMore(s, h),
         calls' \in 0..MaxCalls,
         \/ calls' = calls /\ (h.op = "requestInfo" => handler[s].op = "requestInfo")
         \/ calls' = calls + 1
  PROVE  StepsInv'
<1> USE DEF dbVars, rowVars, chainVars
<1>1. TypeOK /\ StatusFollowsChain
  BY DEF StepsInv, StepsTypeOK
<1>2. TypeOK'
  BY <1>1 DEF TypeOK
<1>3. RowsGrow
  BY RowsStay
<1>4. Fits(h)' /\ StatusFollowsChain'
  BY <1>1, <1>3, FitsStays, PayoutsUntouched
<1> QED BY <1>2, <1>3, <1>4, StepSettles

(* A call begins.                                                           *)
LEMMA CallSettles ==
  ASSUME StepsInv, NEW s \in Slots, NEW h \in Handlers, Call(s, h), Fits(h), OwesNoMore(s, h)
  PROVE  StepsInv'
<1>1. calls' \in 0..MaxCalls /\ calls' = calls + 1
  BY StepBoundsAssumption DEF StepsInv, StepsTypeOK, Call
<1> QED BY <1>1, ReadSettles DEF Call

(* A handler returns.                                                       *)
LEMMA IdleFits == Idle \in Handlers /\ Fits(Idle) /\ \A s : OwesNoMore(s, Idle)
<1>1. Idle \in Handlers
  <2>1. <<>> \in Seq(AnchorJobKind)
    OBVIOUS
  <2> QED BY <2>1 DEF Idle, Handlers, Ops, Pcs
<1>2. Idle.op = "idle" /\ Idle.pc = "idle"
  BY DEF Idle
<1>3. \A s : OwesNoMore(s, Idle)
  BY <1>2, OwesNothing
<1> QED BY <1>1, <1>2, <1>3 DEF Fits

-----------------------------------------------------------------------------
(* Calls, each with what it reads first.                                    *)

(* What the first read of a call finds in a row is of its type.             *)
LEMMA RowTypes ==
  ASSUME StepsInv, NEW c \in CaseIds
  PROVE  /\ caseStatus[c] \in CaseStatus \cup {NoCase} /\ infoRequestCount[c] \in Nat
         /\ payoutRef[c] \in Payments \cup {NoPayout} /\ version[c] \in Nat
         /\ caseStatus[c] \in Undecided => Exists(c) /\ payoutRef[c] \in Payments
<1>1. TypeOK /\ version \in [CaseIds -> 0..MaxCalls]
  BY DEF StepsInv, StepsTypeOK
<1>2. infoRequestCount[c] \in 0..MAX_INFO_REQUESTS /\ version[c] \in 0..MaxCalls
  BY <1>1 DEF TypeOK
<1>3. infoRequestCount[c] \in Nat /\ version[c] \in Nat
  BY <1>2, MaxInfoRequestsAssumption, StepBoundsAssumption
<1>4. caseStatus[c] \in Undecided => Exists(c)
  BY DEF Undecided, Exists, NoCase
<1> QED BY <1>1, <1>3, <1>4, ExistingHasPayment DEF TypeOK

LEMMA OpenDisputeLoadSafe ==
  ASSUME StepsInv, NEW s \in Slots, NEW p \in Payments, OpenDisputeLoad(s, p)
  PROVE  StepsInv'
<1> DEFINE h == [Idle EXCEPT !.op = "openDispute", !.pc = "check", !.p = p,
                             !.pst = payoutStatus[p]]
<1>1. payoutStatus[p] \in PaymentStatus
  BY DEF StepsInv, StepsTypeOK, TypeOK
<1>2. h \in Handlers /\ h.op = "openDispute" /\ h.pc = "check" /\ h.p = p
  BY <1>1, IdleFits DEF Idle, Handlers, Ops, Pcs
<1>3. Call(s, h)
  BY DEF OpenDisputeLoad
<1> HIDE DEF h
<1>4. Fits(h) /\ OwesNoMore(s, h)
  BY <1>2, OwesNothing DEF Fits, OpenDisputeFits
<1> QED BY <1>2, <1>3, <1>4, CallSettles

(* What submitResponse keeps of the case it has loaded.                     *)
Replying(c, st, ver, yes, arg) ==
  [Idle EXCEPT !.op = "submitResponse", !.pc = "create", !.c = c,
               !.st = st, !.ver = ver, !.yes = yes, !.arg = arg]

LEMMA ReplyHandler ==
  ASSUME NEW c \in CaseIds, NEW st \in CaseStatus \cup {NoCase}, NEW ver \in Nat,
         NEW arg \in DecisionOutcome \cup Parties \cup {"none"}, NEW yes \in BOOLEAN
  PROVE  /\ Replying(c, st, ver, yes, arg) \in Handlers
         /\ Replying(c, st, ver, yes, arg).op = "submitResponse"
         /\ Replying(c, st, ver, yes, arg).pc = "create"
         /\ Replying(c, st, ver, yes, arg).c = c
<1> DEFINE k == Replying(c, st, ver, TRUE, arg)
           h == Replying(c, st, ver, yes, arg)
<1>1. Idle \in Handlers
  BY IdleFits
<1>2. ASSUME NEW g \in Handlers, NEW y \in BOOLEAN PROVE [g EXCEPT !.yes = y] \in Handlers
  BY <1>1 DEF Handlers, Ops, Pcs
<1>3. k \in Handlers
  <2>1. PICK g : g = [Idle EXCEPT !.op = "submitResponse", !.pc = "create", !.c = c]
    OBVIOUS
  <2>2. g \in Handlers
    BY <1>1, <2>1 DEF Handlers, Ops, Pcs
  <2>3. k = [g EXCEPT !.st = st, !.ver = ver, !.yes = TRUE, !.arg = arg]
    BY <1>1, <2>1 DEF Replying, Handlers
  <2> QED BY <2>2, <2>3 DEF Handlers
<1>4. h = [k EXCEPT !.yes = yes]
  BY <1>1 DEF Replying, Handlers
<1>5. h.op = "submitResponse" /\ h.pc = "create" /\ h.c = c
  BY <1>1 DEF Replying, Handlers
<1> HIDE DEF k, h
<1>6. h \in Handlers
  BY <1>2, <1>3, <1>4
<1> QED BY <1>5, <1>6 DEF h

LEMMA SubmitResponseLoadSafe ==
  ASSUME StepsInv, NEW s \in Slots, NEW c \in CaseIds, NEW author \in Authors,
         NEW withEvidence \in BOOLEAN, SubmitResponseLoad(s, c, author, withEvidence)
  PROVE  StepsInv'
<1> DEFINE arg == IF ResponderTarget(author) \in unanswered[c]
                  THEN ResponderTarget(author) ELSE "none"
           h == [Idle EXCEPT !.op = "submitResponse", !.pc = "create", !.c = c,
                   !.st = caseStatus[c], !.ver = version[c], !.yes = withEvidence, !.arg = arg]
<1>1. arg \in DecisionOutcome \cup Parties \cup {"none"}
  BY DEF ResponderTarget, Parties
<1>2. Call(s, h) /\ Exists(c)
  BY DEF SubmitResponseLoad
<1> HIDE DEF arg
<1>3. caseStatus[c] \in CaseStatus \cup {NoCase} /\ version[c] \in Nat
  BY RowTypes
<1>6. h \in Handlers /\ h.op = "submitResponse" /\ h.pc = "create" /\ h.c = c
  <2>1. h = Replying(c, caseStatus[c], version[c], withEvidence, arg)
    BY DEF Replying
  <2> HIDE DEF h
  <2> QED BY <1>1, <1>3, <2>1, ReplyHandler
<1> HIDE DEF h
<1>4. Fits(h) /\ OwesNoMore(s, h)
  BY <1>2, <1>6, OwesNothing DEF Fits, SubmitResponseFits, Loaded
<1> QED BY <1>2, <1>4, <1>6, CallSettles

LEMMA AttachEvidenceLoadSafe ==
  ASSUME StepsInv, NEW s \in Slots, NEW c \in CaseIds, AttachEvidenceLoad(s, c)
  PROVE  StepsInv'
<1> DEFINE h == [Idle EXCEPT !.op = "attachEvidence", !.pc = "file", !.c = c]
<1>1. Call(s, h) /\ Exists(c)
  BY DEF AttachEvidenceLoad, Exists
<1>2. h \in Handlers /\ h.op = "attachEvidence" /\ h.pc = "file" /\ h.c = c
  BY IdleFits DEF Idle, Handlers, Ops, Pcs
<1> HIDE DEF h
<1>3. Fits(h) /\ OwesNoMore(s, h)
  BY <1>1, <1>2, OwesNothing DEF Fits, AttachEvidenceFits, Loaded
<1> QED BY <1>1, <1>2, <1>3, CallSettles

LEMMA RequestInfoLoadSafe ==
  ASSUME StepsInv, NEW s \in Slots, NEW c \in CaseIds, NEW target \in Parties,
         RequestInfoLoad(s, c, target)
  PROVE  StepsInv'
<1> DEFINE h == [Idle EXCEPT !.op = "requestInfo", !.pc = "save", !.c = c, !.arg = target,
                             !.st = caseStatus[c], !.n = infoRequestCount[c]]
<1>1. Call(s, h) /\ ReviewThen(caseStatus[c], infoRequestCount[c], "request_info") # Illegal
  BY DEF RequestInfoLoad
<1>2. Exists(c)
  BY <1>1, ReviewedFirst, RowTypes
<1>3. /\ h \in Handlers /\ h.op = "requestInfo" /\ h.pc = "save" /\ h.c = c /\ h.arg = target
      /\ h.st = caseStatus[c] /\ h.n = infoRequestCount[c]
  BY RowTypes, IdleFits DEF Idle, Handlers, Ops, Pcs
<1> HIDE DEF h
<1>4. Fits(h) /\ OwesNoMore(s, h)
  BY <1>1, <1>2, <1>3, OwesNothing DEF Fits, RequestInfoFits, Loaded
<1> QED BY <1>1, <1>3, <1>4, CallSettles

LEMMA RecordDecisionLoadSafe ==
  ASSUME StepsInv, NEW s \in Slots, NEW c \in CaseIds, NEW outcome \in DecisionOutcome,
         RecordDecisionLoad(s, c, outcome)
  PROVE  StepsInv'
<1> DEFINE h == [Idle EXCEPT !.op = "recordDecision", !.pc = "payout", !.c = c, !.arg = outcome,
                             !.p = payoutRef[c]]
<1>1. Call(s, h) /\ ReviewThen(caseStatus[c], infoRequestCount[c], "decision_recorded") # Illegal
  BY DEF RecordDecisionLoad
<1>2. Exists(c) /\ payoutRef[c] \in Payments
  BY <1>1, ReviewedFirst, RowTypes
<1>3. /\ h \in Handlers /\ h.op = "recordDecision" /\ h.pc = "payout" /\ h.c = c
      /\ h.arg = outcome /\ h.p = payoutRef[c]
  BY <1>2, IdleFits DEF Idle, Handlers, Ops, Pcs
<1> HIDE DEF h
<1>4. Fits(h) /\ OwesNoMore(s, h)
  BY <1>2, <1>3, OwesNothing DEF Fits, RecordDecisionFits, Loaded
<1> QED BY <1>1, <1>3, <1>4, CallSettles

LEMMA StampRefundTxLoadSafe ==
  ASSUME StepsInv, NEW s \in Slots, NEW c \in CaseIds, StampRefundTxLoad(s, c)
  PROVE  StepsInv'
<1> DEFINE h == [Idle EXCEPT !.op = "stampRefundTx", !.pc = "stamp", !.c = c, !.p = payoutRef[c]]
<1>1. Call(s, h) /\ Exists(c) /\ HasHash(c)
  BY DEF StampRefundTxLoad
<1>2. /\ h \in Handlers /\ h.op = "stampRefundTx" /\ h.pc = "stamp" /\ h.c = c
      /\ h.p = payoutRef[c]
  BY RowTypes, IdleFits DEF Idle, Handlers, Ops, Pcs
<1> HIDE DEF h
<1>3. Fits(h) /\ OwesNoMore(s, h)
  BY <1>1, <1>2, OwesNothing DEF Fits, StampRefundTxFits, Loaded
<1> QED BY <1>1, <1>2, <1>3, CallSettles

LEMMA ConfirmRefundLoadSafe ==
  ASSUME StepsInv, NEW s \in Slots, NEW p \in Payments, NEW debtRecorded \in BOOLEAN,
         ConfirmRefundLoad(s, p, debtRecorded)
  PROVE  StepsInv'
<1> DEFINE to == RefundedStatus(payoutStatus[p], debtRecorded)
           h  == [Idle EXCEPT !.op = "confirmRefund", !.pc = "savePayout", !.p = p, !.pst = to]
<1>1. Call(s, h) /\ RefundedOnChain(p) /\ to # Illegal
  BY DEF ConfirmRefundLoad
<1>2. to \in {"REFUNDED", "DEBT_OUTSTANDING"}
  BY <1>1, RefundConfirms
<1> HIDE DEF to
<1>3. /\ h \in Handlers /\ h.op = "confirmRefund" /\ h.pc = "savePayout" /\ h.p = p
      /\ h.pst = to
  BY <1>2, IdleFits DEF Idle, Handlers, Ops, Pcs, PaymentStatus
<1> HIDE DEF h
<1>4. Fits(h) /\ OwesNoMore(s, h)
  BY <1>1, <1>2, <1>3, OwesNothing DEF Fits, ConfirmRefundFits
<1> QED BY <1>1, <1>3, <1>4, CallSettles

(* The status a payout hook is about to save is one the chain bears out.    *)
LEMMA PayoutHookLoadSafe ==
  ASSUME StepsInv, NEW s \in Slots, NEW p \in Payments, NEW to, PayoutHookLoad(s, p, to),
         \/ to = "WITHDRAWABLE"
         \/ to = "WITHDRAWN" /\ chainWithdrawn[p]
         \/ to = "DEBT_SETTLED" /\ chainRefund[p] # "no"
  PROVE  StepsInv'
<1> DEFINE h == [Idle EXCEPT !.op = "payoutHook", !.pc = "savePayout", !.p = p, !.pst = to]
<1>1. Call(s, h)
  BY DEF PayoutHookLoad
<1>2. h \in Handlers /\ h.op = "payoutHook" /\ h.pc = "savePayout" /\ h.p = p /\ h.pst = to
  BY IdleFits DEF Idle, Handlers, Ops, Pcs, PaymentStatus
<1> HIDE DEF h
<1>3. Fits(h) /\ OwesNoMore(s, h)
  BY <1>2, OwesNothing DEF Fits, PayoutHookFits
<1> QED BY <1>1, <1>2, <1>3, CallSettles

LEMMA ConfirmWithdrawnLoadSafe ==
  ASSUME StepsInv, NEW s \in Slots, NEW p \in Payments, ConfirmWithdrawnLoad(s, p)
  PROVE  StepsInv'
<1> DEFINE unlocked == IF payoutStatus[p] \in {"ESCROWED", "CLEARED"}
                       THEN ApplyPaymentEvent(payoutStatus[p], LockupEvent(payoutStatus[p]))
                       ELSE payoutStatus[p]
           to == ApplyPaymentEvent(unlocked, "withdraw")
<1>1. chainWithdrawn[p] /\ PayoutHookLoad(s, p, to) /\ to # Illegal
  BY DEF ConfirmWithdrawnLoad, PayoutHookLoad, WithdrawnStatus
<1> HIDE DEF unlocked
<1>2. to = "WITHDRAWN"
  BY <1>1, EdgeTaken DEF PAYMENT_EDGES
<1> HIDE DEF to
<1> QED BY <1>1, <1>2, PayoutHookLoadSafe

LEMMA LockupEndedLoadSafe ==
  ASSUME StepsInv, NEW s \in Slots, NEW p \in Payments, LockupEndedLoad(s, p)
  PROVE  StepsInv'
<1> DEFINE event == LockupEvent(payoutStatus[p])
           to == ApplyPaymentEvent(payoutStatus[p], event)
<1>1. PayoutHookLoad(s, p, to) /\ to # Illegal
  BY DEF LockupEndedLoad, PayoutHookLoad
<1>2. event \in {"lockup_end_no_dispute", "lockup_end_after_clear"}
  BY DEF LockupEvent
<1> HIDE DEF event
<1>3. to = "WITHDRAWABLE"
  BY <1>1, <1>2, EdgeTaken DEF PAYMENT_EDGES
<1> HIDE DEF to
<1> QED BY <1>1, <1>3, PayoutHookLoadSafe

LEMMA DebtSettledLoadSafe ==
  ASSUME StepsInv, NEW s \in Slots, NEW p \in Payments, DebtSettledLoad(s, p)
  PROVE  StepsInv'
<1> DEFINE to == ApplyPaymentEvent(payoutStatus[p], "next_payment_absorbs_debt")
<1>1. PayoutHookLoad(s, p, to) /\ to # Illegal
  BY DEF DebtSettledLoad, PayoutHookLoad
<1>2. payoutStatus[p] = "DEBT_OUTSTANDING" /\ to = "DEBT_SETTLED"
  BY <1>1, DebtSettles
<1>3. chainRefund[p] # "no"
  BY <1>2 DEF StepsInv, StatusFollowsChain, Held, Misreported
<1> HIDE DEF to
<1> QED BY <1>1, <1>2, <1>3, PayoutHookLoadSafe

LEMMA DeadlinePassedLoadSafe ==
  ASSUME StepsInv, NEW s \in Slots, NEW c \in CaseIds, DeadlinePassedLoad(s, c)
  PROVE  StepsInv'
<1> DEFINE to == ApplyCaseEvent(caseStatus[c], infoRequestCount[c], "deadline_passed")
           h  == [Idle EXCEPT !.op = "deadlinePassed", !.pc = "saveCase", !.c = c, !.st = to]
<1>1. Call(s, h) /\ to # Illegal
  BY DEF DeadlinePassedLoad
<1>2. Exists(c) /\ to = "UNDER_REVIEW"
  BY <1>1, DeadlineReviews, RowTypes
<1> HIDE DEF to
<1>3. /\ h \in Handlers /\ h.op = "deadlinePassed" /\ h.pc = "saveCase" /\ h.c = c
      /\ h.st = "UNDER_REVIEW"
  BY <1>2, IdleFits DEF Idle, Handlers, Ops, Pcs, CaseStatus
<1> HIDE DEF h
<1>4. Fits(h) /\ OwesNoMore(s, h)
  BY <1>2, <1>3, OwesNothing DEF Fits, DeadlinePassedFits, Loaded
<1> QED BY <1>1, <1>3, <1>4, CallSettles

LEMMA SchedulerFindSafe ==
  ASSUME StepsInv, NEW s \in Slots, SchedulerFind(s)
  PROVE  StepsInv'
<1> DEFINE due == {c \in overdue : caseStatus[c] = "AWAITING_RESPONSE"}
           h   == [Idle EXCEPT !.op = "tick", !.pc = "tick", !.due = due]
<1>1. Call(s, h)
  BY DEF SchedulerFind
<1>2. due \subseteq Existing /\ due \subseteq CaseIds
  BY DEF StepsInv, StepsTypeOK, TypeOK, Existing, Exists, NoCase
<1> HIDE DEF due
<1>3. h \in Handlers /\ h.op = "tick" /\ h.pc = "tick" /\ h.due = due
  BY <1>2, IdleFits DEF Idle, Handlers, Ops, Pcs
<1> HIDE DEF h
<1>4. Fits(h) /\ OwesNoMore(s, h)
  BY <1>2, <1>3, OwesNothing DEF Fits, TickFits
<1> QED BY <1>1, <1>3, <1>4, CallSettles

(* Every call begins where it fits.                                         *)
LEMMA StartSafe ==
  ASSUME StepsInv, NEW s \in Slots, Start(s)
  PROVE  StepsInv'
BY OpenDisputeLoadSafe, ConfirmRefundLoadSafe, ConfirmWithdrawnLoadSafe, LockupEndedLoadSafe,
   DebtSettledLoadSafe, SubmitResponseLoadSafe, AttachEvidenceLoadSafe, RequestInfoLoadSafe,
   RecordDecisionLoadSafe, StampRefundTxLoadSafe, DeadlinePassedLoadSafe, SchedulerFindSafe
   DEF Start

-----------------------------------------------------------------------------
(* Steps after an await that read the rows and write none.                  *)

LEMMA InTheAir ==
  ASSUME StepsInv, NEW s \in Slots
  PROVE  handler[s] \in Handlers /\ Fits(handler[s])
BY DEF StepsInv, StepsTypeOK, HandlersFit

LEMMA ReadStep ==
  ASSUME StepsInv, NEW s \in Slots, NEW h \in Handlers, Continue(s, h), UNCHANGED dbVars,
         Fits(h), OwesNoMore(s, h), h.op = "requestInfo" => handler[s].op = "requestInfo"
  PROVE  StepsInv'
<1>1. calls' \in 0..MaxCalls /\ calls' = calls
  BY DEF Continue, StepsInv, StepsTypeOK
<1> QED BY <1>1, ReadSettles DEF Continue

LEMMA ReturnStep ==
  ASSUME StepsInv, NEW s \in Slots, Return(s), UNCHANGED dbVars
  PROVE  StepsInv'
<1>1. Idle.op # "requestInfo"
  BY DEF Idle
<1> QED BY <1>1, IdleFits, ReadStep DEF Return

LEMMA OpenDisputeCheckSafe ==
  ASSUME StepsInv, NEW s \in Slots, OpenDisputeCheck(s)
  PROVE  StepsInv'
<1> DEFINE g  == handler[s]
           to == ApplyPaymentEvent(g.pst, "dispute_opened")
           h  == [g EXCEPT !.pst = to, !.pc = "savePayout"]
<1>1. /\ g.op = "openDispute" /\ g.pc = "check" /\ UNCHANGED dbVars
      /\ IF OpenCasesOn(g.p) = {} /\ to # Illegal THEN Continue(s, h) ELSE Return(s)
  BY DEF OpenDisputeCheck, Runs
<1>2. CASE OpenCasesOn(g.p) = {} /\ to # Illegal
  <2>1. to = "DISPUTED"
    BY <1>2, DisputeOpens
  <2>2. g \in Handlers /\ g.p \in Payments
    BY <1>1, InTheAir DEF Fits, OpenDisputeFits
  <2>3. Continue(s, h)
    BY <1>1, <1>2
  <2> HIDE DEF to, g
  <2>4. /\ h \in Handlers /\ h.op = "openDispute" /\ h.pc = "savePayout"
        /\ h.p \in Payments /\ h.pst = "DISPUTED"
    BY <1>1, <2>1, <2>2 DEF Handlers, Pcs, PaymentStatus
  <2> HIDE DEF h
  <2>5. Fits(h) /\ OwesNoMore(s, h)
    BY <2>4, OwesNothing DEF Fits, OpenDisputeFits
  <2> QED BY <1>1, <2>3, <2>4, <2>5, ReadStep
<1>3. CASE ~ (OpenCasesOn(g.p) = {} /\ to # Illegal)
  BY <1>1, <1>3, ReturnStep
<1> QED BY <1>2, <1>3

LEMMA NextCaseNumberSafe ==
  ASSUME StepsInv, NEW s \in Slots, NextCaseNumber(s)
  PROVE  StepsInv'
<1> DEFINE g == handler[s]
           n == Cardinality(Existing) + 1
           h == [g EXCEPT !.c = n, !.pc = "create"]
<1>1. /\ g.op = "openDispute" /\ g.pc = "number" /\ UNCHANGED dbVars /\ Continue(s, h)
      /\ Cardinality(Existing) < MaxCases
  BY DEF NextCaseNumber, Runs
<1>2. g \in Handlers /\ g.p \in Payments
  BY <1>1, InTheAir DEF Fits, OpenDisputeFits
<1>3. n \in CaseIds
  <2>1. IsFiniteSet(CaseIds)
    BY CaseIdsAssumption, FS_Interval
  <2>2. Cardinality(Existing) \in Nat
    BY <2>1, FS_Subset, FS_CardinalityType DEF Existing
  <2> QED BY <1>1, <2>2, CaseIdsAssumption
<1> HIDE DEF n, g
<1>4. h \in Handlers /\ h.op = "openDispute" /\ h.pc = "create" /\ h.p \in Payments /\ h.c = n
  BY <1>1, <1>2, <1>3 DEF Handlers, Pcs
<1> HIDE DEF h
<1>5. Fits(h) /\ OwesNoMore(s, h)
  BY <1>3, <1>4, OwesNothing DEF Fits, OpenDisputeFits
<1> QED BY <1>1, <1>4, <1>5, ReadStep

LEMMA AttachInResponseSafe ==
  ASSUME StepsInv, NEW s \in Slots, AttachInResponse(s)
  PROVE  StepsInv'
<1> DEFINE g == handler[s]
           h == [g EXCEPT !.pc = "file"]
<1>1. /\ g.op = "submitResponse" /\ g.pc = "evidence" /\ UNCHANGED dbVars
      /\ Return(s) \/ Continue(s, h)
  BY DEF AttachInResponse, Runs, ContinueAt
<1>2. g \in Handlers /\ Loaded(g) /\ replied[g.c]
  BY <1>1, InTheAir DEF Fits, SubmitResponseFits
<1> HIDE DEF g
<1>3. h \in Handlers /\ h.op = "submitResponse" /\ h.pc = "file" /\ h.c = g.c
  BY <1>1, <1>2 DEF Handlers, Pcs
<1> HIDE DEF h
<1>4. Fits(h) /\ OwesNoMore(s, h)
  BY <1>2, <1>3, OwesNothing DEF Fits, SubmitResponseFits, Loaded
<1> QED BY <1>1, <1>3, <1>4, ReadStep, ReturnStep

LEMMA RecordDecisionPayoutSafe ==
  ASSUME StepsInv, NEW s \in Slots, RecordDecisionPayout(s)
  PROVE  StepsInv'
<1> DEFINE g  == handler[s]
           to == ClearedStatus(payoutStatus[g.p], g.arg)
           h  == [g EXCEPT !.pc = "decide"]
           k  == [g EXCEPT !.pst = to, !.pc = "savePayout"]
<1>1. /\ g.op = "recordDecision" /\ g.pc = "payout" /\ UNCHANGED dbVars
      /\ IF g.arg = "refund" THEN Continue(s, h)
         ELSE IF to = Illegal THEN Return(s) ELSE Continue(s, k)
  BY DEF RecordDecisionPayout, Runs, ContinueAt
<1>2. g \in Handlers /\ Loaded(g) /\ g.p \in Payments /\ g.arg \in DecisionOutcome
  BY <1>1, InTheAir DEF Fits, RecordDecisionFits
<1>3. CASE g.arg = "refund"
  <2>1. Continue(s, h)
    BY <1>1, <1>3
  <2> HIDE DEF g
  <2>2. /\ h \in Handlers /\ h.op = "recordDecision" /\ h.pc = "decide"
        /\ h.c = g.c /\ h.p = g.p /\ h.arg = g.arg
    BY <1>1, <1>2 DEF Handlers, Pcs
  <2> HIDE DEF h
  <2>3. Fits(h) /\ OwesNoMore(s, h)
    BY <1>2, <2>2, OwesNothing DEF Fits, RecordDecisionFits, Loaded
  <2> QED BY <1>1, <2>1, <2>2, <2>3, ReadStep
<1>4. CASE g.arg # "refund" /\ to # Illegal
  <2>1. Continue(s, k)
    BY <1>1, <1>4
  <2>2. to = "WITHDRAWABLE"
    BY <1>4, ClearReleases
  <2> HIDE DEF g, to
  <2>3. /\ k \in Handlers /\ k.op = "recordDecision" /\ k.pc = "savePayout"
        /\ k.c = g.c /\ k.p = g.p /\ k.arg = g.arg /\ k.pst = "WITHDRAWABLE"
    BY <1>1, <1>2, <2>2 DEF Handlers, Pcs, PaymentStatus
  <2> HIDE DEF k
  <2>4. Fits(k) /\ OwesNoMore(s, k)
    BY <1>2, <2>3, OwesNothing DEF Fits, RecordDecisionFits, Loaded
  <2> QED BY <1>1, <2>1, <2>3, <2>4, ReadStep
<1>5. CASE g.arg # "refund" /\ to = Illegal
  BY <1>1, <1>5, ReturnStep
<1> QED BY <1>3, <1>4, <1>5

LEMMA StampPayoutSafe ==
  ASSUME StepsInv, NEW s \in Slots, StampPayout(s)
  PROVE  StepsInv'
<1> DEFINE g  == handler[s]
           to == ApplyPaymentEvent("DISPUTED", "refund_confirmed")
           h  == [g EXCEPT !.pc = "savePayout", !.st = "CLOSED", !.pst = to]
           k  == [g EXCEPT !.pc = "saveCase", !.st = "CLOSED"]
<1>1. /\ g.op = "stampRefundTx" /\ g.pc = "payout" /\ UNCHANGED dbVars
      /\ Continue(s, h) \/ Continue(s, k)
  BY DEF StampPayout, Runs
<1>2. /\ g \in Handlers /\ Loaded(g) /\ HasHash(g.c) /\ g.p = payoutRef[g.c] /\ executed[g.c]
  BY <1>1, InTheAir DEF Fits, StampRefundTxFits
<1>3. to = "REFUNDED"
  BY StampRefunds
<1> HIDE DEF g, to
<1>4. /\ h \in Handlers /\ h.op = "stampRefundTx" /\ h.pc = "savePayout"
      /\ h.c = g.c /\ h.p = g.p /\ h.pst = "REFUNDED" /\ h.st = "CLOSED"
  BY <1>1, <1>2, <1>3 DEF Handlers, Pcs, PaymentStatus, CaseStatus
<1>5. /\ k \in Handlers /\ k.op = "stampRefundTx" /\ k.pc = "saveCase"
      /\ k.c = g.c /\ k.p = g.p /\ k.st = "CLOSED"
  BY <1>1, <1>2 DEF Handlers, Pcs, CaseStatus
<1> HIDE DEF h, k
<1>6. Fits(h) /\ OwesNoMore(s, h) /\ Fits(k) /\ OwesNoMore(s, k)
  BY <1>2, <1>4, <1>5, OwesNothing DEF Fits, StampRefundTxFits, Loaded
<1> QED BY <1>1, <1>4, <1>5, <1>6, ReadStep

LEMMA FindDecidedCaseSafe ==
  ASSUME StepsInv, NEW s \in Slots, FindDecidedCase(s)
  PROVE  StepsInv'
<1> DEFINE g == handler[s]
<1>1. /\ g.op = "confirmRefund" /\ g.pc = "find" /\ UNCHANGED dbVars
  BY Zenon DEF FindDecidedCase, Runs
<1>2. g \in Handlers /\ g.p \in Payments /\ RefundedOnChain(g.p)
  BY <1>1, InTheAir DEF Fits, ConfirmRefundFits
<1>3. ASSUME NEW c \in DecidedOn(g.p),
             Continue(s, [g EXCEPT !.c = c, !.pc = "saveCase", !.st = ExecutedThenClosed(c)])
      PROVE  StepsInv'
  <2> DEFINE st == ExecutedThenClosed(c)
             h  == [g EXCEPT !.c = c, !.pc = "saveCase", !.st = st]
  <2>1. c \in CaseIds /\ payoutRef[c] = g.p /\ caseStatus[c] = "DECIDED"
    BY DEF DecidedOn
  <2>2. Exists(c) /\ decisions[c] # <<>>
    BY <2>1 DEF StepsInv, VerdictHasReasons, Exists, NoCase
  <2>3. st = "CLOSED"
    BY <2>1, DecidedCloses DEF ExecutedThenClosed
  <2>4. Continue(s, h)
    BY <1>3
  <2> HIDE DEF g, st
  <2>5. /\ h \in Handlers /\ h.op = "confirmRefund" /\ h.pc = "saveCase"
        /\ h.c = c /\ h.p = g.p /\ h.st = "CLOSED"
    BY <1>1, <1>2, <2>1, <2>3 DEF Handlers, Pcs, CaseStatus
  <2> HIDE DEF h
  <2>6. Fits(h) /\ OwesNoMore(s, h)
    BY <1>2, <2>1, <2>2, <2>5, OwesNothing DEF Fits, ConfirmRefundFits, Loaded
  <2> QED BY <1>1, <2>4, <2>5, <2>6, ReadStep
<1> QED BY <1>1, <1>3, ReturnStep, Zenon DEF FindDecidedCase

-----------------------------------------------------------------------------
(* Steps that write a row, and leave the queue and the decisions alone.     *)

LEMMA SaveStep ==
  ASSUME StepsInv, NEW s \in Slots, NEW h \in Handlers, Continue(s, h),
         Fits(h)', RowsGrow, TypeOK', StatusFollowsChain',
         UNCHANGED <<version, jobs, decisions>>, OwesNoMore(s, h),
         \A c \in CaseIds : caseStatus'[c] \in {"DECIDED", "CLOSED"} =>
           caseStatus[c] \in {"DECIDED", "CLOSED"} \/ decisions[c] # <<>>,
         h.op = "requestInfo" => handler[s].op = "requestInfo"
  PROVE  StepsInv'
<1>1. calls' \in 0..MaxCalls /\ calls' = calls
  BY DEF Continue, StepsInv, StepsTypeOK
<1>2. handler' = [handler EXCEPT ![s] = h]
  BY DEF Continue
<1> QED BY <1>1, <1>2, StepSettles

LEMMA DeadlineMoves == ApplyCaseEvent("AWAITING_RESPONSE", 0, "deadline_passed") = "UNDER_REVIEW"
<1>1. <<"AWAITING_RESPONSE", "deadline_passed", "UNDER_REVIEW">> \in CASE_EDGES
  BY DEF CASE_EDGES
<1> QED BY <1>1, CaseEdgeIsTaken DEF ApplyCaseEvent

(* The status of a case that exists is saved.                               *)
LEMMA CaseSaved ==
  ASSUME StepsInv, NEW c \in CaseIds, Exists(c), NEW to \in CaseStatus \ {"OPEN"},
         caseStatus' = [caseStatus EXCEPT ![c] = to],
         UNCHANGED <<payoutStatus, payoutRef, infoRequestCount, overdue, replied, lateEvidence,
                     decisions, executed, jobs, chainVars>>,
         unanswered' \in [CaseIds -> SUBSET Parties]
  PROVE  RowsGrow /\ TypeOK' /\ StatusFollowsChain'
<1> USE DEF chainVars
<1>1. TypeOK /\ StatusFollowsChain
  BY DEF StepsInv, StepsTypeOK
<1>2. caseStatus \in [CaseIds -> CaseStatus \cup {NoCase}] /\ to # NoCase
  BY <1>1 DEF TypeOK, CaseStatus, NoCase
<1>3. RowsGrow
  BY <1>2 DEF RowsGrow, CaseGrows, PaymentGrows, RefundedOnChain, Exists
<1>4. TypeOK'
  BY <1>1, <1>2 DEF TypeOK, Exists
<1> QED BY <1>1, <1>3, <1>4, PayoutsUntouched

LEMMA CaseSaveStep ==
  ASSUME StepsInv, NEW s \in Slots, NEW h \in Handlers, Continue(s, h),
         NEW c \in CaseIds, Exists(c), NEW to \in CaseStatus \ {"OPEN"},
         to \in {"DECIDED", "CLOSED"} => decisions[c] # <<>>,
         caseStatus' = [caseStatus EXCEPT ![c] = to],
         UNCHANGED <<payoutStatus, rowVars, version, decisions, executed, jobs>>,
         Fits(h), OwesNoMore(s, h), h.op # "requestInfo"
  PROVE  StepsInv'
<1>1. TypeOK /\ unanswered' \in [CaseIds -> SUBSET Parties]
  BY DEF StepsInv, StepsTypeOK, TypeOK, rowVars
<1>2. UNCHANGED <<payoutRef, infoRequestCount, overdue, replied, lateEvidence, chainVars>>
  BY DEF Continue, rowVars
<1>3. RowsGrow /\ TypeOK' /\ StatusFollowsChain'
  BY <1>1, <1>2, CaseSaved
<1>4. Fits(h)'
  BY <1>1, <1>3, FitsStays
<1>5. \A d \in CaseIds : caseStatus'[d] \in {"DECIDED", "CLOSED"} =>
        caseStatus[d] \in {"DECIDED", "CLOSED"} \/ decisions[d] # <<>>
  BY <1>1 DEF TypeOK
<1> QED BY <1>3, <1>4, <1>5, SaveStep

LEMMA SaveCaseSafe ==
  ASSUME StepsInv, NEW s \in Slots, SaveCase(s)
  PROVE  StepsInv'
<1> DEFINE g == handler[s]
           h == [g EXCEPT !.pc = "enqueue",
                          !.todo = <<"under_review", "decision", "close_no_correction">>]
           k == [g EXCEPT !.pc = "execute"]
<1>1. /\ g.pc = "saveCase" /\ caseStatus' = [caseStatus EXCEPT ![g.c] = g.st]
      /\ UNCHANGED <<payoutStatus, rowVars, version, decisions, executed, jobs>>
      /\ IF g.op = "recordDecision" /\ g.st = "CLOSED" THEN Continue(s, h)
         ELSE IF g.op = "confirmRefund" THEN Continue(s, k) ELSE Continue(s, Idle)
  BY DEF SaveCase, ContinueAt, Return
<1>2. g \in Handlers /\ Fits(g)
  BY InTheAir
<1>3. g.op \in {"recordDecision", "stampRefundTx", "confirmRefund", "deadlinePassed"}
  BY <1>1, <1>2 DEF Fits, Handlers, Ops, OpenDisputeFits, SubmitResponseFits, AttachEvidenceFits,
     RequestInfoFits, PayoutHookFits, TickFits
<1>4. /\ Loaded(g) /\ g.st \in {"DECIDED", "CLOSED", "UNDER_REVIEW"}
      /\ g.st \in {"DECIDED", "CLOSED"} => decisions[g.c] # <<>>
  BY <1>1, <1>2, <1>3 DEF Fits, RecordDecisionFits, StampRefundTxFits, ConfirmRefundFits,
     DeadlinePassedFits, HasHash, RefundDecided, ReleaseDecided
<1>5. /\ g.c \in CaseIds /\ Exists(g.c) /\ g.st \in CaseStatus \ {"OPEN"}
  BY <1>4 DEF Loaded, CaseStatus
<1>6. CASE g.op = "recordDecision" /\ g.st = "CLOSED"
  <2>1. /\ Loaded(g) /\ g.p \in Payments /\ g.arg \in DecisionOutcome /\ g.arg # "refund"
        /\ decisions[g.c] # <<>>
    BY <1>1, <1>2, <1>6 DEF Fits, RecordDecisionFits
  <2>2. Continue(s, h)
    BY <1>1, <1>6
  <2>3. <<"under_review", "decision", "close_no_correction">> \in Seq(AnchorJobKind)
    BY Scripts
  <2>4. Owes(g, g.c, "under_review")
    BY <1>1, <1>6, <2>1 DEF Owes
  <2> DEFINE todo == <<"under_review", "decision", "close_no_correction">>
  <2>5. Head(todo) = "under_review"
    OBVIOUS
  <2>6. /\ h \in Handlers /\ h.op = "recordDecision" /\ h.pc = "enqueue" /\ h.c = g.c
        /\ h.p = g.p /\ h.arg = g.arg /\ h.todo = todo
    <3> HIDE DEF g
    <3> QED BY <1>2, <1>6, <2>3 DEF Handlers, Pcs
  <2> HIDE DEF h, todo
  <2>7. OwesNoMore(s, h)
    BY <2>4, <2>5, <2>6 DEF OwesNoMore, Owes
  <2>8. Fits(h)
    BY <2>1, <2>6 DEF Fits, RecordDecisionFits, Loaded, todo
  <2> QED BY <1>1, <1>4, <1>5, <2>2, <2>6, <2>7, <2>8, CaseSaveStep
<1>7. CASE g.op = "confirmRefund"
  <2>1. /\ g.p \in Payments /\ RefundedOnChain(g.p)
        /\ Loaded(g) /\ payoutRef[g.c] = g.p /\ decisions[g.c] # <<>>
    BY <1>1, <1>2, <1>7 DEF Fits, ConfirmRefundFits
  <2>2. Continue(s, k)
    BY <1>1, <1>7
  <2>3. k \in Handlers /\ k.op = "confirmRefund" /\ k.pc = "execute" /\ k.c = g.c /\ k.p = g.p
    <3> HIDE DEF g
    <3> QED BY <1>2, <1>7 DEF Handlers, Pcs
  <2> HIDE DEF k
  <2>4. Fits(k) /\ OwesNoMore(s, k)
    BY <2>1, <2>3, OwesNothing DEF Fits, ConfirmRefundFits, Loaded
  <2> QED BY <1>1, <1>4, <1>5, <2>2, <2>3, <2>4, CaseSaveStep
<1>8. CASE ~ (g.op = "recordDecision" /\ g.st = "CLOSED") /\ g.op # "confirmRefund"
  <2>1. Continue(s, Idle) /\ Idle.op # "requestInfo"
    BY <1>1, <1>8 DEF Idle
  <2> QED BY <1>1, <1>4, <1>5, <2>1, IdleFits, CaseSaveStep
<1> QED BY <1>6, <1>7, <1>8

LEMMA ServeNoticeSafe ==
  ASSUME StepsInv, NEW s \in Slots, ServeNotice(s)
  PROVE  StepsInv'
<1>0. PICK g : g = handler[s]
  OBVIOUS
<1>1. /\ g.op = "openDispute" /\ g.pc = "serve"
      /\ IF g.c \in NotANumber THEN Return(s)
         ELSE Continue(s, [g EXCEPT !.todo = <<"case">>, !.pc = "enqueue"])
      /\ caseStatus' = [caseStatus EXCEPT ![g.c] = "AWAITING_RESPONSE"]
      /\ UNCHANGED <<payoutStatus, rowVars, version, decisions, executed, jobs>>
  BY <1>0, NoticeServed DEF ServeNotice, Runs, MoveCase, Opening
<1>2. g \in Handlers /\ g.p \in Payments /\ Loaded(g)
  BY <1>0, <1>1, InTheAir DEF Fits, OpenDisputeFits
<1>3. TypeOK /\ unanswered' \in [CaseIds -> SUBSET Parties]
  BY <1>1 DEF StepsInv, StepsTypeOK, TypeOK, rowVars
<1>4. UNCHANGED <<payoutRef, infoRequestCount, overdue, replied, lateEvidence, chainVars>>
  BY <1>1 DEF Return, Continue, rowVars
<1> DEFINE to == "AWAITING_RESPONSE"
<1>5. RowsGrow /\ TypeOK' /\ StatusFollowsChain'
  <2>1. to \in CaseStatus \ {"OPEN"} /\ caseStatus' = [caseStatus EXCEPT ![g.c] = to]
    BY <1>1 DEF CaseStatus
  <2> HIDE DEF to
  <2> QED BY <1>1, <1>2, <1>3, <1>4, <2>1, CaseSaved DEF Loaded
<1>6. caseStatus'[g.c] = "AWAITING_RESPONSE" /\ Loaded(g)'
  BY <1>1, <1>2, <1>3 DEF TypeOK, Loaded, Exists, NoCase
<1>7. <<"case">> \in Seq(AnchorJobKind) /\ Head(<<"case">>) = "case"
  BY Scripts
<1>8. PICK h \in Handlers :
        /\ h = [g EXCEPT !.todo = <<"case">>, !.pc = "enqueue"]
        /\ h.op = "openDispute" /\ h.pc = "enqueue" /\ h.c = g.c
        /\ h.p = g.p /\ h.todo = <<"case">>
  <2> DEFINE k == [g EXCEPT !.todo = <<"case">>, !.pc = "enqueue"]
  <2>1. /\ k \in Handlers /\ k.op = "openDispute" /\ k.pc = "enqueue" /\ k.c = g.c
        /\ k.p = g.p /\ k.todo = <<"case">>
    BY <1>1, <1>2, <1>7 DEF Handlers, Pcs
  <2>2. k = [g EXCEPT !.todo = <<"case">>, !.pc = "enqueue"]
    OBVIOUS
  <2> HIDE DEF k
  <2> QED BY <2>1, <2>2
<1>9. \A d \in CaseIds : caseStatus'[d] \in {"DECIDED", "CLOSED"} =>
        caseStatus[d] \in {"DECIDED", "CLOSED"} \/ decisions[d] # <<>>
  BY <1>1, <1>3 DEF TypeOK
<1>11. CASE g.c \notin NotANumber
  <2>1. Fits(h)'
    BY <1>2, <1>6, <1>8, <1>11 DEF Fits, OpenDisputeFits, Loaded
  <2>2. OwesNoMore(s, h)
    BY <1>7, <1>8 DEF OwesNoMore, Owes, CountedKinds
  <2> QED BY <1>1, <1>5, <1>8, <1>9, <1>11, <2>1, <2>2, SaveStep
<1>12. CASE g.c \in NotANumber
  <2>1. Continue(s, Idle) /\ Idle.op # "requestInfo"
    BY <1>1, <1>12 DEF Return, Idle
  <2>2. "AWAITING_RESPONSE" \in CaseStatus \ {"OPEN"}
    BY DEF CaseStatus
  <2> QED BY <1>1, <1>2, <2>1, <2>2, IdleFits, CaseSaveStep DEF Loaded
<1> QED BY <1>11, <1>12

LEMMA SchedulerSaveSafe ==
  ASSUME StepsInv, NEW s \in Slots, SchedulerSave(s)
  PROVE  StepsInv'
<1> DEFINE g == handler[s]
<1>1. /\ g.op = "tick" /\ g.pc = "tick"
      /\ UNCHANGED <<payoutStatus, rowVars, version, decisions, executed, jobs>>
  BY Zenon DEF SchedulerSave, Runs
<1>2. g \in Handlers /\ g.due \subseteq Existing
  BY <1>1, InTheAir DEF Fits, TickFits
<1>3. PICK c \in g.due :
        /\ caseStatus' = [caseStatus EXCEPT ![c] =
                            ApplyCaseEvent("AWAITING_RESPONSE", 0, "deadline_passed")]
        /\ IF g.due = {c} THEN Return(s) ELSE Continue(s, [g EXCEPT !.due = @ \ {c}])
  BY Zenon DEF SchedulerSave
<1> DEFINE h  == [g EXCEPT !.due = @ \ {c}]
           to == "UNDER_REVIEW"
<1>4. c \in CaseIds /\ Exists(c)
  BY <1>2 DEF Existing
<1>5. /\ caseStatus' = [caseStatus EXCEPT ![c] = to] /\ to \in CaseStatus \ {"OPEN"}
      /\ to \notin {"DECIDED", "CLOSED"}
  BY <1>3, DeadlineMoves DEF CaseStatus
<1>6. Continue(s, h) \/ Continue(s, Idle)
  BY <1>3 DEF Return
<1> HIDE DEF to, g
<1>7. h \in Handlers /\ h.op = "tick" /\ h.pc = "tick" /\ h.due \subseteq Existing
  BY <1>1, <1>2 DEF Handlers
<1> HIDE DEF h
<1>8. Fits(h) /\ OwesNoMore(s, h) /\ Idle.op # "requestInfo"
  BY <1>7, OwesNothing DEF Fits, TickFits, Idle
<1> QED BY <1>1, <1>4, <1>5, <1>6, <1>7, <1>8, IdleFits, CaseSaveStep

LEMMA CreateCaseSafe ==
  ASSUME StepsInv, NEW s \in Slots, CreateCase(s)
  PROVE  StepsInv'
<1>0. PICK g : g = handler[s]
  OBVIOUS
<1>1. g.op = "openDispute" /\ g.pc = "create"
  BY <1>0 DEF CreateCase, Runs
<1>2. g \in Handlers /\ g.p \in Payments /\ g.c \in CaseIds
  BY <1>0, <1>1, InTheAir DEF Fits, OpenDisputeFits
<1>3. CASE Exists(g.c)
  BY <1>0, <1>3, ReturnStep DEF CreateCase
<1>4. CASE ~ Exists(g.c)
  <2> USE DEF chainVars
  <2>1. PICK h : h = [g EXCEPT !.pc = "serve"]
    OBVIOUS
  <2>2. /\ caseStatus' = [caseStatus EXCEPT ![g.c] = "OPEN"]
        /\ payoutRef' = [payoutRef EXCEPT ![g.c] = g.p]
        /\ Continue(s, h)
        /\ UNCHANGED <<payoutStatus, infoRequestCount, unanswered, overdue, replied,
                       lateEvidence, version, decisions, executed, jobs>>
    BY <1>0, <1>4, <2>1 DEF CreateCase, ContinueAt
  <2>3. /\ h \in Handlers /\ h.op = "openDispute" /\ h.pc = "serve" /\ h.c = g.c /\ h.p = g.p
    BY <1>1, <1>2, <2>1 DEF Handlers, Pcs
  <2>4. TypeOK /\ StatusFollowsChain /\ UNCHANGED <<chainRefund, chainWithdrawn>>
    BY <2>2 DEF StepsInv, StepsTypeOK, Continue
  <2>5. RowsGrow
    BY <1>2, <1>4, <2>2, <2>4
       DEF RowsGrow, CaseGrows, PaymentGrows, RefundedOnChain, Exists, TypeOK
  <2>6. TypeOK'
    <3>1. "OPEN" \in CaseStatus /\ "OPEN" # NoCase /\ g.p # NoPayout
      BY <1>2, NoPayoutAssumption DEF CaseStatus, NoCase
    <3> QED BY <1>2, <2>2, <2>4, <3>1 DEF TypeOK
  <2>7. StatusFollowsChain'
    BY <2>2, <2>4, <2>5, PayoutsUntouched
  <2>8. Loaded(h)'
    BY <1>2, <2>2, <2>3, <2>4 DEF TypeOK, Loaded, Exists, NoCase
  <2>9. Fits(h)' /\ OwesNoMore(s, h)
    BY <1>2, <2>3, <2>8, OwesNothing DEF Fits, OpenDisputeFits
  <2>10. \A d \in CaseIds : caseStatus'[d] \in {"DECIDED", "CLOSED"} =>
           caseStatus[d] \in {"DECIDED", "CLOSED"} \/ decisions[d] # <<>>
    BY <2>2, <2>4 DEF TypeOK
  <2> QED BY <2>2, <2>3, <2>5, <2>6, <2>7, <2>9, <2>10, SaveStep
<1> QED BY <1>3, <1>4

LEMMA CreateResponseSafe ==
  ASSUME StepsInv, NEW s \in Slots, CreateResponse(s)
  PROVE  StepsInv'
<1> USE DEF chainVars
<1>0. PICK g : g = handler[s]
  OBVIOUS
<1>1. PICK pc \in {"evidence", "save"} : Continue(s, [g EXCEPT !.pc = pc])
  BY <1>0 DEF CreateResponse, ContinueAt
<1>2. PICK h : h = [g EXCEPT !.pc = pc]
  OBVIOUS
<1>3. /\ g.op = "submitResponse" /\ g.pc = "create" /\ Continue(s, h)
      /\ replied' = [replied EXCEPT ![g.c] = TRUE]
      /\ UNCHANGED <<payoutStatus, caseStatus, payoutRef, infoRequestCount, unanswered,
                     overdue, lateEvidence, version, decisions, executed, jobs>>
  BY <1>0, <1>1, <1>2 DEF CreateResponse, Runs
<1>4. g \in Handlers /\ Loaded(g)
  BY <1>0, <1>3, InTheAir DEF Fits, SubmitResponseFits
<1>5. h \in Handlers /\ h.op = "submitResponse" /\ h.pc = pc /\ h.c = g.c
  BY <1>2, <1>3, <1>4 DEF Handlers, Pcs
<1>6. TypeOK /\ StatusFollowsChain /\ UNCHANGED <<chainRefund, chainWithdrawn>>
  BY <1>3 DEF StepsInv, StepsTypeOK, Continue
<1>7. RowsGrow
  BY <1>3, <1>4, <1>6
     DEF RowsGrow, CaseGrows, PaymentGrows, RefundedOnChain, Exists, TypeOK
<1>8. TypeOK'
  BY <1>3, <1>6 DEF TypeOK
<1>9. StatusFollowsChain'
  BY <1>3, <1>6, <1>7, PayoutsUntouched
<1>10. Fits(h)' /\ OwesNoMore(s, h)
  <2>1. Loaded(h)' /\ replied'[h.c]
    BY <1>3, <1>4, <1>5, <1>6 DEF Loaded, Exists, TypeOK
  <2> QED BY <1>5, <2>1, OwesNothing DEF Fits, SubmitResponseFits
<1> QED BY <1>3, <1>5, <1>7, <1>8, <1>9, <1>10, SaveStep

LEMMA CreateEvidenceSafe ==
  ASSUME StepsInv, NEW s \in Slots, CreateEvidence(s)
  PROVE  StepsInv'
<1> USE DEF chainVars
<1>0. PICK g : g = handler[s]
  OBVIOUS
<1>1. PICK h : h = IF g.op = "submitResponse" THEN [g EXCEPT !.pc = "save"] ELSE Idle
  OBVIOUS
<1>2. /\ g.pc = "file" /\ Continue(s, h)
      /\ lateEvidence' = FileEvidence(g.c)
      /\ UNCHANGED <<payoutStatus, caseStatus, payoutRef, infoRequestCount, unanswered,
                     overdue, replied, version, decisions, executed, jobs>>
  BY <1>0, <1>1 DEF CreateEvidence, ContinueAt, Return
<1>3. g \in Handlers /\ Fits(g)
  BY <1>0, InTheAir
<1>4. g.op \in {"submitResponse", "attachEvidence"}
  BY <1>2, <1>3 DEF Fits, Handlers, Ops, OpenDisputeFits, RecordDecisionFits, StampRefundTxFits,
     ConfirmRefundFits, DeadlinePassedFits, RequestInfoFits, PayoutHookFits, TickFits
<1>5. Loaded(g) /\ (g.op = "submitResponse" => replied[g.c])
  BY <1>2, <1>3, <1>4 DEF Fits, SubmitResponseFits, AttachEvidenceFits
<1>6. TypeOK /\ StatusFollowsChain /\ UNCHANGED <<chainRefund, chainWithdrawn>>
  BY <1>2 DEF StepsInv, StepsTypeOK, Continue
<1>7. RowsGrow
  BY <1>2, <1>6, RowsStay
<1>8. TypeOK'
  BY <1>2, <1>5, <1>6 DEF TypeOK, FileEvidence, Loaded
<1>9. StatusFollowsChain'
  BY <1>2, <1>6, <1>7, PayoutsUntouched
<1>10. h \in Handlers /\ Fits(h) /\ OwesNoMore(s, h) /\ h.op # "requestInfo"
  <2>1. CASE g.op = "submitResponse"
    <3>1. h \in Handlers /\ h.op = "submitResponse" /\ h.pc = "save" /\ h.c = g.c
      BY <1>1, <1>3, <2>1 DEF Handlers, Pcs
    <3> QED BY <1>5, <2>1, <3>1, OwesNothing DEF Fits, SubmitResponseFits, Loaded
  <2>2. CASE g.op # "submitResponse"
    <3>1. h = Idle /\ Idle.op # "requestInfo"
      BY <1>1, <2>2 DEF Idle
    <3> QED BY <3>1, IdleFits
  <2> QED BY <2>1, <2>2
<1>11. Fits(h)'
  BY <1>6, <1>7, <1>10, FitsStays
<1> QED BY <1>2, <1>7, <1>8, <1>9, <1>10, <1>11, SaveStep

LEMMA SaveResponseSafe ==
  ASSUME StepsInv, NEW s \in Slots, SaveResponse(s)
  PROVE  StepsInv'
<1> USE DEF chainVars
<1>0. PICK g : g = handler[s]
  OBVIOUS
<1>1. PICK after : after = ApplyCaseEvent(g.st, g.n, "reply_received")
  OBVIOUS
<1>2. g.op = "submitResponse" /\ g.pc = "save"
  BY <1>0 DEF SaveResponse, Runs
<1>3. g \in Handlers /\ Loaded(g) /\ replied[g.c]
  BY <1>0, <1>2, InTheAir DEF Fits, SubmitResponseFits
<1>4. ASSUME Return(s), UNCHANGED dbVars PROVE StepsInv'
  BY <1>4, ReturnStep
<1>5. ASSUME caseStatus' = [caseStatus EXCEPT ![g.c] =
                              IF after \in {Illegal, g.st} THEN @ ELSE after],
             unanswered' = [unanswered EXCEPT ![g.c] = @ \ {g.arg}],
             IF g.st = "AWAITING_RESPONSE"
             THEN Continue(s, [g EXCEPT !.todo = <<"response">>, !.pc = "enqueue"])
             ELSE Return(s),
             UNCHANGED <<payoutStatus, payoutRef, infoRequestCount, overdue, replied,
                         lateEvidence, version, decisions, executed, jobs>>
      PROVE  StepsInv'
  <2>1. PICK h : h = IF g.st = "AWAITING_RESPONSE"
                     THEN [g EXCEPT !.todo = <<"response">>, !.pc = "enqueue"] ELSE Idle
    OBVIOUS
  <2>2. Continue(s, h)
    BY <1>5, <2>1 DEF Return
  <2>3. h \in Handlers /\ Fits(h) /\ OwesNoMore(s, h) /\ h.op # "requestInfo"
    <3>1. CASE g.st = "AWAITING_RESPONSE"
      <4>1. <<"response">> \in Seq(AnchorJobKind) /\ Head(<<"response">>) = "response"
        BY Scripts
      <4>2. /\ h \in Handlers /\ h.op = "submitResponse" /\ h.pc = "enqueue" /\ h.c = g.c
            /\ h.todo = <<"response">>
        BY <1>2, <1>3, <2>1, <3>1, <4>1 DEF Handlers, Pcs
      <4>3. OwesNoMore(s, h)
        BY <4>1, <4>2 DEF OwesNoMore, Owes, CountedKinds
      <4> QED BY <1>3, <4>2, <4>3 DEF Fits, SubmitResponseFits, Loaded
    <3>2. CASE g.st # "AWAITING_RESPONSE"
      <4>1. h = Idle /\ Idle.op # "requestInfo"
        BY <2>1, <3>2 DEF Idle
      <4> QED BY <4>1, IdleFits
    <3> QED BY <3>1, <3>2
  <2>4. TypeOK /\ StatusFollowsChain /\ UNCHANGED <<chainRefund, chainWithdrawn>>
    BY <2>2 DEF StepsInv, StepsTypeOK, Continue
  <2>5. unanswered' \in [CaseIds -> SUBSET Parties]
    BY <1>5, <2>4 DEF TypeOK
  <2>6. CASE after \in {Illegal, g.st}
    <3>1. UNCHANGED caseStatus
      BY <1>5, <2>4, <2>6 DEF TypeOK
    <3>2. RowsGrow
      BY <1>5, <2>4, <3>1, RowsStay
    <3>3. TypeOK'
      BY <1>5, <2>4, <2>5, <3>1 DEF TypeOK
    <3>4. StatusFollowsChain' /\ Fits(h)'
      BY <1>5, <2>3, <2>4, <3>2, FitsStays, PayoutsUntouched
    <3> QED BY <1>5, <2>2, <2>3, <3>1, <3>2, <3>3, <3>4, SaveStep
  <2>7. CASE after \notin {Illegal, g.st}
    <3>1. after \in CaseStatus \ {"OPEN"} /\ after \notin {"DECIDED", "CLOSED"}
      BY <1>1, <2>7, ReplyReviews DEF CaseStatus
    <3>2. caseStatus' = [caseStatus EXCEPT ![g.c] = after]
      BY <1>5, <2>7
    <3>3. RowsGrow /\ TypeOK' /\ StatusFollowsChain'
      BY <1>3, <1>5, <2>4, <2>5, <3>1, <3>2, CaseSaved DEF Loaded
    <3>4. Fits(h)'
      BY <2>3, <2>4, <3>3, FitsStays
    <3>5. \A d \in CaseIds : caseStatus'[d] \in {"DECIDED", "CLOSED"} =>
            caseStatus[d] \in {"DECIDED", "CLOSED"} \/ decisions[d] # <<>>
      BY <2>4, <3>1, <3>2 DEF TypeOK
    <3> QED BY <1>5, <2>2, <2>3, <3>3, <3>4, <3>5, SaveStep
  <2> QED BY <2>6, <2>7
<1> QED BY <1>0, <1>1, <1>4, <1>5 DEF SaveResponse

(* The oldest Decision row of a case is stamped with a transaction.         *)
LEMMA DecisionStamped ==
  ASSUME StepsInv, NEW c \in CaseIds, executed' = [executed EXCEPT ![c] = TRUE],
         UNCHANGED <<payoutStatus, caseStatus, rowVars, decisions, jobs, chainVars>>
  PROVE  RowsGrow /\ TypeOK' /\ StatusFollowsChain' /\ executed'[c]
<1> USE DEF rowVars, chainVars
<1>1. TypeOK /\ StatusFollowsChain
  BY DEF StepsInv, StepsTypeOK
<1>2. RowsGrow
  BY <1>1 DEF RowsGrow, CaseGrows, PaymentGrows, RefundedOnChain, Exists, TypeOK
<1>3. TypeOK' /\ executed'[c]
  BY <1>1 DEF TypeOK
<1> QED BY <1>1, <1>2, <1>3, PayoutsUntouched

LEMMA StampDecisionSafe ==
  ASSUME StepsInv, NEW s \in Slots, StampDecision(s)
  PROVE  StepsInv'
<1>0. PICK g : g = handler[s]
  OBVIOUS
<1>1. PICK h : h = [g EXCEPT !.pc = "payout"]
  OBVIOUS
<1>2. /\ g.op = "stampRefundTx" /\ g.pc = "stamp" /\ Continue(s, h)
      /\ executed' = [executed EXCEPT ![g.c] = TRUE]
      /\ UNCHANGED <<payoutStatus, caseStatus, rowVars, version, decisions, jobs>>
  BY <1>0, <1>1 DEF StampDecision, Runs, ContinueAt
<1>3. g \in Handlers /\ Fits(g) /\ Loaded(g)
  BY <1>0, <1>2, InTheAir DEF Fits, StampRefundTxFits
<1>4. /\ h \in Handlers /\ h.op = "stampRefundTx" /\ h.pc = "payout" /\ h.c = g.c /\ h.p = g.p
  BY <1>1, <1>2, <1>3 DEF Handlers, Pcs
<1>5. g.c \in CaseIds /\ UNCHANGED chainVars /\ TypeOK
  BY <1>2, <1>3 DEF Loaded, Continue, StepsInv, StepsTypeOK
<1>6. RowsGrow /\ TypeOK' /\ StatusFollowsChain' /\ executed'[g.c]
  BY <1>2, <1>5, DecisionStamped
<1>7. Fits(g)'
  BY <1>3, <1>5, <1>6, FitsStays
<1>8. Fits(h)'
  BY <1>2, <1>4, <1>6, <1>7 DEF Fits, StampRefundTxFits, Loaded
<1>9. OwesNoMore(s, h)
  BY <1>4, OwesNothing
<1> QED BY <1>2, <1>4, <1>6, <1>8, <1>9, SaveStep

LEMMA ExecuteDecisionSafe ==
  ASSUME StepsInv, NEW s \in Slots, ExecuteDecision(s)
  PROVE  StepsInv'
<1>1. PICK g : g = handler[s]
  OBVIOUS
<1>2. PICK todo : todo = <<"correction_outstanding", "correction">>
  OBVIOUS
<1>3. PICK h : h = [g EXCEPT !.pc = "enqueue", !.todo = todo]
  OBVIOUS
<1>4. /\ g.op = "confirmRefund" /\ g.pc = "execute" /\ Continue(s, h)
      /\ executed' = [executed EXCEPT ![g.c] = TRUE]
      /\ UNCHANGED <<payoutStatus, caseStatus, rowVars, version, decisions, jobs>>
  BY <1>1, <1>2, <1>3 DEF ExecuteDecision, Runs
<1>5. g \in Handlers /\ Fits(g) /\ Loaded(g)
  BY <1>1, <1>4, InTheAir DEF Fits, ConfirmRefundFits
<1>6. todo \in Seq(AnchorJobKind) /\ Head(todo) = "correction_outstanding"
  BY <1>2, Scripts
<1>7. /\ h \in Handlers /\ h.op = "confirmRefund" /\ h.pc = "enqueue" /\ h.c = g.c /\ h.p = g.p
      /\ h.todo = todo
  BY <1>3, <1>4, <1>5, <1>6 DEF Handlers, Pcs
<1>8. g.c \in CaseIds /\ UNCHANGED chainVars /\ TypeOK
  BY <1>4, <1>5 DEF Loaded, Continue, StepsInv, StepsTypeOK
<1>9. RowsGrow /\ TypeOK' /\ StatusFollowsChain' /\ executed'[g.c]
  BY <1>4, <1>8, DecisionStamped
<1>10. Fits(g)'
  BY <1>5, <1>8, <1>9, FitsStays
<1>11. Fits(h)'
  <2>1. ConfirmRefundFits(g)'
    BY <1>4, <1>10 DEF Fits
  <2>2. /\ g.p \in Payments /\ RefundedOnChain(g.p)' /\ Loaded(g)' /\ payoutRef'[g.c] = g.p
        /\ decisions'[g.c] # <<>>
    BY <1>4, <2>1 DEF ConfirmRefundFits
  <2>3. ConfirmRefundFits(h)'
    BY <1>7, <1>9, <1>2, <2>2 DEF ConfirmRefundFits, Loaded
  <2> QED BY <1>7, <2>3 DEF Fits
<1>12. OwesNoMore(s, h)
  BY <1>7, <1>6 DEF OwesNoMore, Owes, CountedKinds
<1> QED BY <1>4, <1>7, <1>9, <1>11, <1>12, SaveStep

(* Whatever status a handler saves, the chain bears it out.                 *)
LEMMA PayoutSaved ==
  ASSUME StepsInv, NEW p \in Payments, NEW to \in PaymentStatus,
         payoutStatus' = [payoutStatus EXCEPT ![p] = to],
         UNCHANGED <<caseStatus, rowVars, decisions, executed, jobs, chainVars>>,
         to \in Held \ {"DISPUTED"} =>
           \/ chainRefund[p] # "no"
           \/ to = "REFUNDED" /\ \E c \in CaseIds :
                                   payoutRef[c] = p /\ ReleaseDecided(c) /\ executed[c],
         to = "WITHDRAWN" => chainWithdrawn[p]
  PROVE  RowsGrow /\ TypeOK' /\ StatusFollowsChain'
<1> USE DEF rowVars, chainVars
<1>1. TypeOK /\ StatusFollowsChain
  BY DEF StepsInv, StepsTypeOK
<1>2. RowsGrow
  BY RowsStay
<1>3. TypeOK'
  BY <1>1 DEF TypeOK
<1>4. ASSUME NEW q \in Payments
      PROVE  /\ payoutStatus'[q] \in Held \ {"DISPUTED"}
                  => chainRefund'[q] # "no" \/ Misreported(q)'
             /\ payoutStatus'[q] = "WITHDRAWN" => chainWithdrawn'[q]
  <2>1. CASE q = p
    <3>1. payoutStatus'[q] = to
      BY <1>1, <2>1 DEF TypeOK
    <3>2. (\E c \in CaseIds : payoutRef[c] = p /\ ReleaseDecided(c) /\ executed[c])
            /\ to = "REFUNDED" => Misreported(q)'
      BY <2>1, <3>1 DEF Misreported, ReleaseDecided
    <3> QED BY <2>1, <3>1, <3>2
  <2>2. CASE q # p
    <3>1. payoutStatus'[q] = payoutStatus[q]
      BY <1>1, <2>2 DEF TypeOK
    <3>2. Misreported(q) => Misreported(q)'
      BY <3>1 DEF Misreported, ReleaseDecided
    <3> QED BY <1>1, <3>1, <3>2 DEF StatusFollowsChain
  <2> QED BY <2>1, <2>2
<1>5. StatusFollowsChain'
  BY <1>4 DEF StatusFollowsChain
<1> QED BY <1>2, <1>3, <1>5

LEMMA SavePayoutSafe ==
  ASSUME StepsInv, NEW s \in Slots, SavePayout(s)
  PROVE  StepsInv'
<1>0. PICK g : g = handler[s]
  OBVIOUS
<1>1. PICK h : h = IF g.op = "payoutHook" THEN Idle
                   ELSE [g EXCEPT !.pc = AfterPayoutSaved[g.op]]
  OBVIOUS
<1>2. /\ g.pc = "savePayout" /\ Continue(s, h)
      /\ payoutStatus' = [payoutStatus EXCEPT ![g.p] = g.pst]
      /\ UNCHANGED <<caseStatus, rowVars, version, decisions, executed, jobs>>
  BY <1>0, <1>1 DEF SavePayout, ContinueAt, Return
<1>3. g \in Handlers /\ Fits(g)
  BY <1>0, InTheAir
<1>4. g.op \in {"openDispute", "recordDecision", "stampRefundTx", "confirmRefund", "payoutHook"}
  BY <1>2, <1>3 DEF Fits, Handlers, Ops, SubmitResponseFits, AttachEvidenceFits,
     RequestInfoFits, DeadlinePassedFits, TickFits
<1>5. TypeOK /\ UNCHANGED <<caseStatus, chainVars>>
  BY <1>2 DEF Continue, StepsInv, StepsTypeOK
<1>6. /\ g.p \in Payments /\ g.pst \in PaymentStatus
      /\ g.pst \in Held \ {"DISPUTED"} =>
           \/ chainRefund[g.p] # "no"
           \/ g.pst = "REFUNDED" /\ \E c \in CaseIds :
                                      payoutRef[c] = g.p /\ ReleaseDecided(c) /\ executed[c]
      /\ g.pst = "WITHDRAWN" => chainWithdrawn[g.p]
  <2>1. CASE g.op = "openDispute"
    BY <1>2, <1>3, <2>1 DEF Fits, OpenDisputeFits, PaymentStatus
  <2>2. CASE g.op = "recordDecision"
    BY <1>2, <1>3, <2>2 DEF Fits, RecordDecisionFits, PaymentStatus, Held
  <2>3. CASE g.op = "stampRefundTx"
    <3>1. /\ Loaded(g) /\ HasHash(g.c) /\ g.p = payoutRef[g.c] /\ executed[g.c]
          /\ g.pst = "REFUNDED"
      BY <1>2, <1>3, <2>3 DEF Fits, StampRefundTxFits
    <3>2. g.p \in Payments
      BY <1>5, <3>1, ExistingHasPayment DEF Loaded
    <3>3. chainRefund[g.p] # "no" \/ ReleaseDecided(g.c)
      BY <3>1 DEF HasHash
    <3> QED BY <3>1, <3>2, <3>3 DEF Loaded, PaymentStatus
  <2>4. CASE g.op = "confirmRefund"
    BY <1>2, <1>3, <2>4 DEF Fits, ConfirmRefundFits, PaymentStatus, RefundedOnChain
  <2>5. CASE g.op = "payoutHook"
    BY <1>2, <1>3, <2>5 DEF Fits, PayoutHookFits, PaymentStatus, Held
  <2> QED BY <1>4, <2>1, <2>2, <2>3, <2>4, <2>5
<1>7. RowsGrow /\ TypeOK' /\ StatusFollowsChain'
  <2>1. UNCHANGED <<caseStatus, rowVars, decisions, executed, jobs, chainVars>>
    BY <1>2, <1>5
  <2> QED BY <1>2, <1>6, <2>1, PayoutSaved
<1>8. h \in Handlers /\ Fits(h) /\ OwesNoMore(s, h) /\ h.op # "requestInfo"
  <2>1. CASE g.op = "payoutHook"
    <3>1. h = Idle /\ Idle.op # "requestInfo"
      BY <1>1, <2>1 DEF Idle
    <3> QED BY <3>1, IdleFits
  <2>2. CASE g.op = "openDispute"
    <3>1. h = [g EXCEPT !.pc = "number"]
      BY <1>1, <2>2 DEF AfterPayoutSaved
    <3>2. h \in Handlers /\ h.op = "openDispute" /\ h.pc = "number" /\ h.p = g.p
      BY <1>3, <2>2, <3>1 DEF Handlers, Pcs
    <3> QED BY <1>6, <3>2, OwesNothing DEF Fits, OpenDisputeFits
  <2>3. CASE g.op = "recordDecision"
    <3>1. h = [g EXCEPT !.pc = "decide"]
      BY <1>1, <2>3 DEF AfterPayoutSaved
    <3>2. /\ h \in Handlers /\ h.op = "recordDecision" /\ h.pc = "decide" /\ h.p = g.p
          /\ h.c = g.c /\ h.arg = g.arg
      BY <1>3, <2>3, <3>1 DEF Handlers, Pcs
    <3>3. Loaded(g) /\ g.arg \in DecisionOutcome
      BY <1>3, <2>3 DEF Fits, RecordDecisionFits
    <3> QED BY <1>6, <3>2, <3>3, OwesNothing DEF Fits, RecordDecisionFits, Loaded
  <2>4. CASE g.op = "stampRefundTx"
    <3>1. h = [g EXCEPT !.pc = "saveCase"]
      BY <1>1, <2>4 DEF AfterPayoutSaved
    <3>2. /\ h \in Handlers /\ h.op = "stampRefundTx" /\ h.pc = "saveCase" /\ h.p = g.p
          /\ h.c = g.c /\ h.st = g.st
      BY <1>3, <2>4, <3>1 DEF Handlers, Pcs
    <3>3. /\ Loaded(g) /\ HasHash(g.c) /\ g.p = payoutRef[g.c] /\ executed[g.c]
          /\ g.st = "CLOSED"
      BY <1>2, <1>3, <2>4 DEF Fits, StampRefundTxFits
    <3> QED BY <3>2, <3>3, OwesNothing DEF Fits, StampRefundTxFits, Loaded
  <2>5. CASE g.op = "confirmRefund"
    <3>1. h = [g EXCEPT !.pc = "find"]
      BY <1>1, <2>5 DEF AfterPayoutSaved
    <3>2. h \in Handlers /\ h.op = "confirmRefund" /\ h.pc = "find" /\ h.p = g.p
      BY <1>3, <2>5, <3>1 DEF Handlers, Pcs
    <3>3. RefundedOnChain(g.p)
      BY <1>3, <2>5 DEF Fits, ConfirmRefundFits
    <3> QED BY <1>6, <3>2, <3>3, OwesNothing DEF Fits, ConfirmRefundFits
  <2> QED BY <1>4, <2>1, <2>2, <2>3, <2>4, <2>5
<1>9. Fits(h)'
  BY <1>5, <1>7, <1>8, FitsStays
<1> QED BY <1>2, <1>5, <1>7, <1>8, <1>9, SaveStep

-----------------------------------------------------------------------------
(* The three steps that touch what is counted: a Decision row is created, a *)
(* job is enqueued, an info request is pushed.                              *)

(* What any step must show: the parts that are not about one row.           *)
LEMMA PartsSettle ==
  ASSUME StepsInv, NEW s \in Slots, NEW h \in Handlers, Continue(s, h), Fits(h)', RowsGrow,
         TypeOK', version' \in [CaseIds -> 0..MaxCalls], VerdictHasReasons', QueueHasRows',
         StatusFollowsChain', CountsMatch', VersionsMatch'
  PROVE  StepsInv'
<1>1. /\ TypeOK /\ HandlersFit /\ handler \in [Slots -> Handlers] /\ calls \in 0..MaxCalls
  BY DEF StepsInv, StepsTypeOK
<1>2. handler' = [handler EXCEPT ![s] = h] /\ calls' = calls
  BY DEF Continue
<1>3. HandlersFit' /\ handler' \in [Slots -> Handlers]
  BY <1>1, <1>2, HandlersMove
<1>4. StepsTypeOK'
  BY <1>1, <1>2, <1>3 DEF StepsTypeOK
<1> QED BY <1>3, <1>4 DEF StepsInv

(* One move changes how many owe a job by one at most.                      *)
LEMMA OwingBounds ==
  ASSUME NEW hs \in [Slots -> Handlers], NEW s \in Slots, NEW h \in Handlers,
         NEW now, Moves(hs, now, s, h), NEW c, NEW kind
  PROVE  /\ Cardinality(OwingIn(hs, c, kind)) \in Nat
         /\ Cardinality(OwingIn(now, c, kind)) \in Nat
         /\ Cardinality(OwingIn(now, c, kind)) <= Cardinality(OwingIn(hs, c, kind)) + 1
         /\ ~ Owes(h, c, kind) =>
              Cardinality(OwingIn(now, c, kind)) <= Cardinality(OwingIn(hs, c, kind))
         /\ Owes(hs[s], c, kind) /\ ~ Owes(h, c, kind) =>
              Cardinality(OwingIn(now, c, kind)) + 1 = Cardinality(OwingIn(hs, c, kind))
<1> DEFINE a == Cardinality(OwingIn(hs, c, kind))
           b == Cardinality(OwingIn(now, c, kind))
<1>1. a \in Nat /\ b \in Nat
  BY OwingType
<1>2. /\ Owes(hs[s], c, kind) /\ Owes(h, c, kind) => b = a
      /\ Owes(hs[s], c, kind) /\ ~ Owes(h, c, kind) => b = a - 1
      /\ ~ Owes(hs[s], c, kind) /\ Owes(h, c, kind) => b = a + 1
      /\ ~ Owes(hs[s], c, kind) /\ ~ Owes(h, c, kind) => b = a
  BY OwingMoves
<1> HIDE DEF a, b
<1>3. /\ b <= a + 1 /\ (~ Owes(h, c, kind) => b <= a)
      /\ Owes(hs[s], c, kind) /\ ~ Owes(h, c, kind) => b + 1 = a
  BY <1>1, <1>2
<1> QED BY <1>1, <1>3 DEF a, b

(* A Decision row is there before anybody owes the job that anchors it.     *)
LEMMA CaseCountsDecide ==
  ASSUME NEW hs \in [Slots -> Handlers], NEW s \in Slots, NEW h \in Handlers,
         NEW now, Moves(hs, now, s, h), NEW c \in CaseIds,
         NEW queue \in Seq(AnchorJobKind), NEW verdicts \in Seq(DecisionOutcome),
         NEW more, Len(more) = Len(verdicts) + 1,
         CaseCounts(queue, hs, verdicts, c), ~ Owes(h, c, "decision"), ~ Owes(h, c, "correction")
  PROVE  CaseCounts(queue, now, more, c)
<1>1. Len(verdicts) \in Nat /\ \A kind : HowMany(queue, kind) \in Nat
  BY LenProperties, HowManyType
<1>2. HowMany(queue, "under_review") + Cardinality(OwingIn(now, c, "under_review")) <= Len(more)
  <2> DEFINE a == Cardinality(OwingIn(hs, c, "under_review"))
             b == Cardinality(OwingIn(now, c, "under_review"))
             n == HowMany(queue, "under_review")
  <2>1. a \in Nat /\ b \in Nat /\ b <= a + 1
    BY OwingBounds
  <2>2. n \in Nat /\ n + a <= Len(verdicts)
    BY <1>1 DEF CaseCounts
  <2> HIDE DEF a, b, n
  <2>3. n + b <= Len(verdicts) + 1
    BY <1>1, <2>1, <2>2
  <2> QED BY <2>3 DEF b, n
<1>3. ASSUME NEW kind \in {"decision", "correction"}, NEW bound \in Nat,
             HowMany(queue, kind) + Cardinality(OwingIn(hs, c, kind)) <= bound
      PROVE  HowMany(queue, kind) + Cardinality(OwingIn(now, c, kind)) <= bound
  <2> DEFINE a == Cardinality(OwingIn(hs, c, kind))
             b == Cardinality(OwingIn(now, c, kind))
             n == HowMany(queue, kind)
  <2>1. a \in Nat /\ b \in Nat /\ b <= a
    BY OwingBounds
  <2>2. n \in Nat /\ n + a <= bound
    BY <1>1, <1>3
  <2> HIDE DEF a, b, n
  <2>3. n + b <= bound
    BY <2>1, <2>2
  <2> QED BY <2>3 DEF b, n
<1> QED BY <1>1, <1>2, <1>3 DEF CaseCounts

(* What a handler owes once it has enqueued a job builds on that job.       *)
Builds(h, c, k) ==
  /\ ~ Owes(h, c, "under_review")
  /\ Owes(h, c, "decision") => k = "under_review"
  /\ Owes(h, c, "correction") => k = "correction_outstanding"

LEMMA CaseCountsEnqueue ==
  ASSUME NEW hs \in [Slots -> Handlers], NEW s \in Slots, NEW h \in Handlers,
         NEW now, Moves(hs, now, s, h), NEW c \in CaseIds, NEW k \in AnchorJobKind,
         NEW queue \in Seq(AnchorJobKind), NEW verdicts \in Seq(DecisionOutcome),
         CaseCounts(queue, hs, verdicts, c), Owes(hs[s], c, k), Builds(h, c, k)
  PROVE  CaseCounts(queue \o <<k>>, now, verdicts, c)
<1> DEFINE more == queue \o <<k>>
<1>1. /\ Len(verdicts) \in Nat /\ \A kind : HowMany(queue, kind) \in Nat
      /\ \A kind : HowMany(more, kind) =
           IF kind = k THEN HowMany(queue, kind) + 1 ELSE HowMany(queue, kind)
  BY LenProperties, HowManyType, HowManyGrows
<1> HIDE DEF more
(* A job that was owed is queued, and one that was not stays as it was.     *)
<1>2. ASSUME NEW kind, ~ Owes(h, c, kind)
      PROVE  HowMany(more, kind) + Cardinality(OwingIn(now, c, kind))
               <= HowMany(queue, kind) + Cardinality(OwingIn(hs, c, kind))
  <2> DEFINE a == Cardinality(OwingIn(hs, c, kind))
             b == Cardinality(OwingIn(now, c, kind))
             n == HowMany(queue, kind)
             m == HowMany(more, kind)
  <2>1. a \in Nat /\ b \in Nat /\ b <= a /\ (kind = k => b + 1 = a)
    BY <1>2, OwingBounds
  <2>2. n \in Nat /\ m = IF kind = k THEN n + 1 ELSE n
    BY <1>1
  <2> HIDE DEF a, b, n, m
  <2>3. m + b <= n + a
    BY <2>1, <2>2
  <2> QED BY <2>3 DEF a, b, n, m
(* A job that is owed now builds on the one that was queued.                *)
<1>3. ASSUME NEW kind, NEW base, kind # base,
             Owes(h, c, kind) => k = base,
             HowMany(queue, kind) + Cardinality(OwingIn(hs, c, kind)) <= HowMany(queue, base)
      PROVE  HowMany(more, kind) + Cardinality(OwingIn(now, c, kind)) <= HowMany(more, base)
  <2> DEFINE a == Cardinality(OwingIn(hs, c, kind))
             b == Cardinality(OwingIn(now, c, kind))
             n == HowMany(queue, kind)
             m == HowMany(more, kind)
             x == HowMany(queue, base)
             y == HowMany(more, base)
  <2>1. a \in Nat /\ b \in Nat /\ b <= a + 1
    BY OwingBounds
  <2>2. /\ n \in Nat /\ m = (IF kind = k THEN n + 1 ELSE n)
        /\ x \in Nat /\ y = (IF base = k THEN x + 1 ELSE x)
    BY <1>1
  <2>3. n + a <= x
    BY <1>3
  <2>4. ~ Owes(h, c, kind) => m + b <= n + a
    BY <1>2
  <2> HIDE DEF a, b, n, m, x, y
  <2>5. CASE Owes(h, c, kind)
    <3>1. m = n /\ y = x + 1
      BY <1>3, <2>2, <2>5
    <3>2. m + b <= y
      BY <2>1, <2>2, <2>3, <3>1
    <3> QED BY <3>2 DEF b, m, y
  <2>6. CASE ~ Owes(h, c, kind)
    <3>1. m + b <= y
      BY <2>1, <2>2, <2>3, <2>4, <2>6
    <3> QED BY <3>1 DEF b, m, y
  <2> QED BY <2>5, <2>6
<1>4. HowMany(more, "under_review") + Cardinality(OwingIn(now, c, "under_review"))
        <= Len(verdicts)
  <2> DEFINE a == HowMany(queue, "under_review") + Cardinality(OwingIn(hs, c, "under_review"))
             b == HowMany(more, "under_review") + Cardinality(OwingIn(now, c, "under_review"))
  <2>1. b <= a /\ a <= Len(verdicts)
    BY <1>2 DEF Builds, CaseCounts
  <2>2. a \in Nat /\ b \in Nat
    <3>1. /\ Cardinality(OwingIn(hs, c, "under_review")) \in Nat
          /\ Cardinality(OwingIn(now, c, "under_review")) \in Nat
          /\ HowMany(queue, "under_review") \in Nat /\ HowMany(more, "under_review") \in Nat
      BY <1>1, OwingType
    <3> QED BY <3>1
  <2> HIDE DEF a, b
  <2>3. b <= Len(verdicts)
    BY <1>1, <2>1, <2>2
  <2> QED BY <2>3 DEF b
<1>5. HowMany(more, "decision") + Cardinality(OwingIn(now, c, "decision"))
        <= HowMany(more, "under_review")
  BY <1>3 DEF Builds, CaseCounts
<1>6. HowMany(more, "correction") + Cardinality(OwingIn(now, c, "correction"))
        <= HowMany(more, "correction_outstanding")
  BY <1>3 DEF Builds, CaseCounts
<1> QED BY <1>4, <1>5, <1>6 DEF CaseCounts, more

LEMMA CreateDecisionSafe ==
  ASSUME StepsInv, NEW s \in Slots, CreateDecision(s)
  PROVE  StepsInv'
<1> USE DEF rowVars, chainVars
<1>0. PICK g : g = handler[s]
  OBVIOUS
<1>1. PICK todo : todo = <<"under_review", "decision">>
  OBVIOUS
<1>2. PICK h : h = IF g.arg = "refund" THEN [g EXCEPT !.pc = "enqueue", !.todo = todo]
                   ELSE [g EXCEPT !.pc = "saveCase", !.st = "CLOSED"]
  OBVIOUS
<1>3. /\ g.op = "recordDecision" /\ g.pc = "decide" /\ Continue(s, h)
      /\ decisions' = [decisions EXCEPT ![g.c] = Append(@, g.arg)]
      /\ UNCHANGED <<payoutStatus, caseStatus, rowVars, version, executed, jobs>>
  BY <1>0, <1>1, <1>2 DEF CreateDecision, Runs
<1>4. g \in Handlers /\ Loaded(g) /\ g.p \in Payments /\ g.arg \in DecisionOutcome
  BY <1>0, <1>3, InTheAir DEF Fits, RecordDecisionFits
<1>5. todo \in Seq(AnchorJobKind) /\ Head(todo) = "under_review"
  BY <1>1, Scripts
<1>6. /\ h \in Handlers /\ h.op = "recordDecision" /\ h.c = g.c /\ h.p = g.p /\ h.arg = g.arg
      /\ g.arg = "refund" => h.pc = "enqueue" /\ h.todo = todo
      /\ g.arg # "refund" => h.pc = "saveCase" /\ h.st = "CLOSED"
  <2>1. CASE g.arg = "refund"
    BY <1>2, <1>3, <1>4, <1>5, <2>1 DEF Handlers, Pcs
  <2>2. CASE g.arg # "refund"
    BY <1>2, <1>3, <1>4, <2>2 DEF Handlers, Pcs, CaseStatus
  <2> QED BY <2>1, <2>2
<1>7. /\ TypeOK /\ StatusFollowsChain /\ VerdictHasReasons /\ QueueHasRows /\ CountsMatch
      /\ StepsTypeOK /\ VersionsMatch /\ handler \in [Slots -> Handlers]
      /\ calls \in 0..MaxCalls /\ calls' = calls /\ version' = version
      /\ handler' = [handler EXCEPT ![s] = h] /\ UNCHANGED <<chainRefund, chainWithdrawn>>
  BY <1>3 DEF StepsInv, StepsTypeOK, Continue
<1>8. g.c \in CaseIds /\ Exists(g.c)
  BY <1>4 DEF Loaded
<1>9. ASSUME NEW d \in CaseIds
      PROVE  /\ decisions[d] \in Seq(DecisionOutcome)
             /\ d = g.c => /\ decisions'[d] # <<>>
                           /\ Len(decisions'[d]) = Len(decisions[d]) + 1
                           /\ decisions[d] # <<>> => Head(decisions'[d]) = Head(decisions[d])
             /\ d # g.c => decisions'[d] = decisions[d]
  <2>1. decisions[d] \in Seq(DecisionOutcome)
    BY <1>7 DEF TypeOK
  <2>2. d = g.c => decisions'[d] = Append(decisions[d], g.arg)
    BY <1>3, <1>7 DEF TypeOK
  <2>3. d # g.c => decisions'[d] = decisions[d]
    BY <1>3, <1>7 DEF TypeOK
  <2>4. PICK q : q = decisions[d]
    OBVIOUS
  <2>5. /\ Append(q, g.arg) # <<>> /\ Len(Append(q, g.arg)) = Len(q) + 1
        /\ q # <<>> => Head(Append(q, g.arg)) = Head(q)
    <3>1. q \in Seq(DecisionOutcome) /\ Len(q) \in Nat /\ Append(q, g.arg) # <<>>
      BY <1>4, <2>1, <2>4, AppendProperties, LenProperties
    <3>2. /\ Len(Append(q, g.arg)) = Len(q) + 1
          /\ \A i \in 1..Len(q) : Append(q, g.arg)[i] = q[i]
      BY <1>4, <3>1, AppendProperties
    <3>3. q # <<>> => 1 \in 1..Len(q)
      BY <3>1, EmptySeq
    <3>4. Head(q) = q[1] /\ Head(Append(q, g.arg)) = Append(q, g.arg)[1]
      OBVIOUS
    <3> QED BY <3>1, <3>2, <3>3, <3>4
  <2> QED BY <2>1, <2>2, <2>3, <2>4, <2>5
<1>10. RowsGrow
  BY <1>3, <1>7, <1>9 DEF RowsGrow, CaseGrows, PaymentGrows, RefundedOnChain, Exists
<1>11. TypeOK'
  <2>1. decisions' \in [CaseIds -> Seq(DecisionOutcome)]
    BY <1>3, <1>4, <1>7, <1>8, DecisionsType DEF TypeOK
  <2> QED BY <1>3, <1>7, <2>1 DEF TypeOK
<1>12. VerdictHasReasons' /\ QueueHasRows' /\ StatusFollowsChain'
  BY <1>3, <1>7, <1>10, ReasonsKept, QueueRowsKept, PayoutsUntouched
<1>13. Fits(h)'
  <2>1. Loaded(h)' /\ decisions'[h.c] # <<>>
    BY <1>3, <1>6, <1>8, <1>9 DEF Loaded, Exists
  <2> QED BY <1>1, <1>4, <1>6, <2>1 DEF Fits, RecordDecisionFits
<1>14. CountsMatch'
  <2>1. ASSUME NEW d \in CaseIds PROVE CaseCounts(jobs[d], handler', decisions'[d], d)
    <3>1. jobs[d] \in Seq(AnchorJobKind) /\ CaseCounts(jobs[d], handler, decisions[d], d)
      BY <1>7, CountsAreCaseCounts DEF TypeOK
    <3>2. Moves(handler, handler', s, h)
      BY <1>7 DEF Moves
    <3>3. CASE d = g.c
      <4>1. ~ Owes(h, d, "decision") /\ ~ Owes(h, d, "correction")
        BY <1>5, <1>6 DEF Owes
      <4> QED BY <1>6, <1>7, <1>9, <3>1, <3>2, <3>3, <4>1, CaseCountsDecide
    <3>4. CASE d # g.c
      <4>1. \A kind \in CountedKinds : ~ Owes(h, d, kind)
        BY <1>6, <3>4 DEF Owes
      <4> QED BY <1>6, <1>7, <1>9, <3>1, <3>2, <3>4, <4>1, CaseCountsKept
    <3> QED BY <3>3, <3>4
  <2> QED BY <1>3, <2>1 DEF CountsMatch, CaseCounts, Queued, Owing
<1>15. VersionsMatch'
  BY <1>6, <1>7, VersionsKept
<1> QED BY <1>3, <1>6, <1>7, <1>10, <1>11, <1>12, <1>13, <1>14, <1>15, PartsSettle DEF StepsTypeOK

LEMMA SaveInfoRequestSafe ==
  ASSUME StepsInv, NEW s \in Slots, SaveInfoRequest(s)
  PROVE  StepsInv'
<1> USE DEF rowVars, chainVars
<1>0. PICK g : g = handler[s]
  OBVIOUS
<1>1. PICK to : to = ReviewThen(g.st, g.n, "request_info")
  OBVIOUS
<1>2. /\ g.op = "requestInfo" /\ g.pc = "save" /\ Continue(s, Idle)
      /\ caseStatus' = [caseStatus EXCEPT ![g.c] = IF to = g.st THEN @ ELSE to]
      /\ infoRequestCount' = [infoRequestCount EXCEPT ![g.c] = g.n + 1]
      /\ overdue' = overdue \ {g.c}
      /\ unanswered' = [unanswered EXCEPT ![g.c] = @ \cup {g.arg}]
      /\ version' = [version EXCEPT ![g.c] = @ + 1]
      /\ UNCHANGED <<payoutStatus, payoutRef, replied, lateEvidence, decisions, executed, jobs>>
  BY <1>0, <1>1 DEF SaveInfoRequest, Runs, Return
<1>3. g \in Handlers /\ Loaded(g) /\ g.arg \in Parties /\ to # Illegal
  BY <1>0, <1>1, <1>2, InTheAir DEF Fits, RequestInfoFits
<1>4. to = "AWAITING_RESPONSE" /\ g.n + 1 \in 0..MAX_INFO_REQUESTS
  <2>1. to = "AWAITING_RESPONSE" /\ ~ (g.n >= MAX_INFO_REQUESTS) /\ g.n \in Nat
    BY <1>1, <1>3, ReviewedFirst DEF Handlers
  <2> QED BY <2>1, MaxInfoRequestsAssumption
<1>5. /\ TypeOK /\ StatusFollowsChain /\ VerdictHasReasons /\ QueueHasRows /\ CountsMatch
      /\ StepsTypeOK /\ VersionsMatch /\ handler \in [Slots -> Handlers]
      /\ calls \in 0..MaxCalls /\ calls' = calls
      /\ handler' = [handler EXCEPT ![s] = Idle] /\ UNCHANGED <<chainRefund, chainWithdrawn>>
  BY <1>2 DEF StepsInv, StepsTypeOK, Continue
<1>6. g.c \in CaseIds /\ Exists(g.c)
  BY <1>3 DEF Loaded
<1>7. \A d \in CaseIds : caseStatus'[d] \in {caseStatus[d], "AWAITING_RESPONSE"}
  BY <1>2, <1>4, <1>5 DEF TypeOK
<1>8. RowsGrow
  BY <1>2, <1>5, <1>7 DEF RowsGrow, CaseGrows, PaymentGrows, RefundedOnChain, Exists, NoCase
<1>9. TypeOK'
  <2>1. /\ caseStatus' \in [CaseIds -> CaseStatus \cup {NoCase}]
        /\ \A d \in CaseIds : caseStatus'[d] = NoCase <=> caseStatus[d] = NoCase
    <3>1. "AWAITING_RESPONSE" \in CaseStatus /\ "AWAITING_RESPONSE" # NoCase
      BY DEF CaseStatus, NoCase
    <3> QED BY <1>2, <1>4, <1>5, <1>6, <3>1 DEF TypeOK, Exists
  <2>2. infoRequestCount' \in [CaseIds -> 0..MAX_INFO_REQUESTS]
    BY <1>2, <1>4, <1>5 DEF TypeOK
  <2>3. unanswered' \in [CaseIds -> SUBSET Parties] /\ overdue' \in SUBSET CaseIds
    BY <1>2, <1>3, <1>5 DEF TypeOK
  <2> QED BY <1>2, <1>5, <2>1, <2>2, <2>3 DEF TypeOK
<1>10. VerdictHasReasons' /\ QueueHasRows' /\ StatusFollowsChain'
  BY <1>2, <1>5, <1>7, <1>8, ReasonsKept, QueueRowsKept, PayoutsUntouched
<1>11. Fits(Idle)'
  BY <1>5, <1>8, IdleFits, FitsStays
<1>12. CountsMatch'
  BY <1>2, <1>5, IdleFits, CountsKept DEF OwesNoMore
<1>13. IsFiniteSet(Asking) /\ Cardinality(Asking) \in Nat /\ s \in Asking
  BY <1>0, <1>2, SlotsAssumption, FS_Subset, FS_CardinalityType DEF Asking
<1>14. Asking' = Asking \ {s}
  BY <1>5 DEF Asking, Idle
<1>15. Cardinality(Asking') \in Nat /\ Cardinality(Asking') + 1 = Cardinality(Asking)
  <2>1. IsFiniteSet(Asking \ {s}) /\ Cardinality(Asking \ {s}) = Cardinality(Asking) - 1
    BY <1>13, FS_RemoveElement
  <2>2. Cardinality(Asking \ {s}) \in Nat
    BY <2>1, FS_CardinalityType
  <2> QED BY <1>13, <1>14, <2>1, <2>2
<1>16. ASSUME NEW d \in CaseIds
       PROVE  version'[d] \in 0..MaxCalls /\ version'[d] + Cardinality(Asking') <= calls'
  <2>1. version[d] \in Nat /\ version[d] + Cardinality(Asking) <= calls /\ calls \in Nat
    BY <1>5, StepBoundsAssumption DEF VersionsMatch, StepsTypeOK
  <2>2. version'[d] \in {version[d], version[d] + 1}
    BY <1>2, <1>5 DEF StepsTypeOK
  <2> QED BY <1>5, <1>15, <2>1, <2>2, StepBoundsAssumption
<1>17. VersionsMatch' /\ version' \in [CaseIds -> 0..MaxCalls]
  BY <1>2, <1>5, <1>16 DEF VersionsMatch, StepsTypeOK
<1> QED BY <1>2, <1>8, <1>9, <1>10, <1>11, <1>12, <1>17, IdleFits, PartsSettle

(* What is left of each list of jobs when its head is enqueued.             *)
LEMMA Todos ==
  /\ Head(<<"case">>) = "case" /\ Len(<<"case">>) = 1
  /\ Head(<<"response">>) = "response" /\ Len(<<"response">>) = 1
  /\ Head(<<"decision">>) = "decision" /\ Len(<<"decision">>) = 1
  /\ Head(<<"close_no_correction">>) = "close_no_correction" /\ Len(<<"close_no_correction">>) = 1
  /\ Head(<<"correction">>) = "correction" /\ Len(<<"correction">>) = 1
  /\ Head(<<"under_review", "decision">>) = "under_review"
  /\ Len(<<"under_review", "decision">>) = 2
  /\ Tail(<<"under_review", "decision">>) = <<"decision">>
  /\ Head(<<"under_review", "decision", "close_no_correction">>) = "under_review"
  /\ Len(<<"under_review", "decision", "close_no_correction">>) = 3
  /\ Tail(<<"under_review", "decision", "close_no_correction">>)
       = <<"decision", "close_no_correction">>
  /\ Head(<<"decision", "close_no_correction">>) = "decision"
  /\ Len(<<"decision", "close_no_correction">>) = 2
  /\ Tail(<<"decision", "close_no_correction">>) = <<"close_no_correction">>
  /\ Head(<<"correction_outstanding", "correction">>) = "correction_outstanding"
  /\ Len(<<"correction_outstanding", "correction">>) = 2
  /\ Tail(<<"correction_outstanding", "correction">>) = <<"correction">>
OBVIOUS

(* Where a handler goes from one enqueued job.                              *)
AfterEnqueue(g) ==
  IF Len(g.todo) > 1 THEN [g EXCEPT !.todo = Tail(@)]
  ELSE IF g.op = "recordDecision" /\ g.arg = "refund"
  THEN [g EXCEPT !.todo = <<>>, !.pc = "saveCase", !.st = "DECIDED"]
  ELSE Idle

(* What a handler is left with once the next job of its list is enqueued:   *)
(* the rows of the job are there, and what it owes now builds on that job.  *)
EnqueueLeaves(g, h) ==
  /\ g.todo # <<>> /\ Head(g.todo) \in AnchorJobKind /\ Loaded(g)
  /\ h \in Handlers /\ Fits(h) /\ h.op # "requestInfo"
  /\ Builds(h, g.c, Head(g.todo))
  /\ \A d \in CaseIds \ {g.c} : \A kind \in CountedKinds : ~ Owes(h, d, kind)
  /\ Head(g.todo) = "case" => caseStatus[g.c] # "OPEN"
  /\ Head(g.todo) = "response" => replied[g.c]
  /\ Head(g.todo) = "correction_outstanding" =>
       executed[g.c] /\ RefundedOnChain(payoutRef[g.c])

(* The last job of its list was enqueued and the handler returns.           *)
LEMMA IdleIsLeft ==
  ASSUME NEW c, NEW k
  PROVE  /\ Idle \in Handlers /\ Fits(Idle) /\ Idle.op # "requestInfo" /\ Builds(Idle, c, k)
         /\ \A d, kind : ~ Owes(Idle, d, kind)
<1>1. Idle.op = "idle" /\ Idle.pc = "idle"
  BY DEF Idle
<1> QED BY <1>1, IdleFits DEF Builds, Owes

LEMMA EnqueueAnchorLeaves ==
  ASSUME StepsInv, NEW s \in Slots, NEW g, g = handler[s], g.pc = "enqueue", NEW h, h = AfterEnqueue(g)
  PROVE  EnqueueLeaves(g, h)
<1>0. /\ Len(g.todo) > 1 => h = [g EXCEPT !.todo = Tail(@)]
      /\ ~ (Len(g.todo) > 1) /\ g.op = "recordDecision" /\ g.arg = "refund" =>
           h = [g EXCEPT !.todo = <<>>, !.pc = "saveCase", !.st = "DECIDED"]
      /\ ~ (Len(g.todo) > 1) /\ ~ (g.op = "recordDecision" /\ g.arg = "refund") => h = Idle
  BY DEF AfterEnqueue
<1>1. g \in Handlers /\ Fits(g)
  BY InTheAir
<1>2. g.op \in {"openDispute", "submitResponse", "recordDecision", "confirmRefund"}
  BY <1>1 DEF Fits, Handlers, Ops, AttachEvidenceFits, RequestInfoFits, StampRefundTxFits,
     PayoutHookFits, DeadlinePassedFits, TickFits
<1>3. CASE g.op = "openDispute"
  <2>1. Loaded(g) /\ caseStatus[g.c] # "OPEN" /\ g.todo = <<"case">>
    BY <1>1, <1>3 DEF Fits, OpenDisputeFits
  <2>2. Head(g.todo) = "case" /\ Len(g.todo) = 1 /\ g.todo # <<>>
    BY <2>1, Todos
  <2>3. h = Idle
    BY <1>0, <1>3, <2>2
  <2> QED BY <2>1, <2>2, <2>3, IdleIsLeft DEF EnqueueLeaves, AnchorJobKind
<1>4. CASE g.op = "submitResponse"
  <2>1. Loaded(g) /\ replied[g.c] /\ g.todo = <<"response">>
    BY <1>1, <1>4 DEF Fits, SubmitResponseFits
  <2>2. Head(g.todo) = "response" /\ Len(g.todo) = 1 /\ g.todo # <<>>
    BY <2>1, Todos
  <2>3. h = Idle
    BY <1>0, <1>4, <2>2
  <2> QED BY <2>1, <2>2, <2>3, IdleIsLeft DEF EnqueueLeaves, AnchorJobKind
<1>5. CASE g.op = "recordDecision"
  <2>1. /\ Loaded(g) /\ g.p \in Payments /\ g.arg \in DecisionOutcome /\ decisions[g.c] # <<>>
        /\ g.todo \in IF g.arg = "refund"
                      THEN {<<"under_review", "decision">>, <<"decision">>}
                      ELSE {<<"under_review", "decision", "close_no_correction">>,
                            <<"decision", "close_no_correction">>, <<"close_no_correction">>}
    BY <1>1, <1>5 DEF Fits, RecordDecisionFits
  <2>2. \/ g.arg = "refund" /\ g.todo = <<"under_review", "decision">>
        \/ g.arg = "refund" /\ g.todo = <<"decision">>
        \/ g.arg # "refund" /\ g.todo = <<"under_review", "decision", "close_no_correction">>
        \/ g.arg # "refund" /\ g.todo = <<"decision", "close_no_correction">>
        \/ g.arg # "refund" /\ g.todo = <<"close_no_correction">>
    BY <2>1
  (* There is a job more on its list.                                       *)
  <2>3. ASSUME NEW rest \in Seq(AnchorJobKind), Tail(g.todo) = rest, Len(g.todo) > 1,
               g.todo # <<>>,
               Head(rest) \in {"decision", "close_no_correction"},
               Head(g.todo) \in {"under_review", "decision"},
               Head(rest) = "decision" => Head(g.todo) = "under_review",
               rest \in IF g.arg = "refund" THEN {<<"decision">>}
                        ELSE {<<"decision", "close_no_correction">>, <<"close_no_correction">>}
        PROVE  EnqueueLeaves(g, h)
    <3>1. /\ h \in Handlers /\ h.op = "recordDecision" /\ h.pc = "enqueue" /\ h.c = g.c
          /\ h.p = g.p /\ h.arg = g.arg /\ h.todo = rest
      BY <1>0, <1>1, <1>5, <2>3 DEF Handlers
    <3>2. Fits(h)
      BY <2>1, <2>3, <3>1 DEF Fits, RecordDecisionFits, Loaded
    <3>3. /\ Builds(h, g.c, Head(g.todo))
          /\ \A d \in CaseIds \ {g.c} : \A kind \in CountedKinds : ~ Owes(h, d, kind)
      BY <2>3, <3>1 DEF Builds, Owes
    <3> QED BY <2>1, <2>3, <3>1, <3>2, <3>3 DEF EnqueueLeaves, AnchorJobKind
  <2>4. CASE g.arg = "refund" /\ g.todo = <<"under_review", "decision">>
    <3>1. /\ Head(g.todo) = "under_review" /\ Len(g.todo) = 2 /\ Tail(g.todo) = <<"decision">>
          /\ g.todo # <<>>
      BY <2>4, Todos
    <3>3. <<"decision">> \in Seq(AnchorJobKind) /\ Head(<<"decision">>) = "decision"
      BY Todos DEF AnchorJobKind
    <3> QED BY <2>3, <2>4, <3>1, <3>3
  <2>5. CASE g.arg # "refund" /\ g.todo = <<"under_review", "decision", "close_no_correction">>
    <3>1. PICK rest : rest = <<"decision", "close_no_correction">>
      OBVIOUS
    <3>2. /\ Head(g.todo) = "under_review" /\ Len(g.todo) = 3 /\ Tail(g.todo) = rest
          /\ g.todo # <<>>
      BY <2>5, <3>1, Todos
    <3>3. rest \in Seq(AnchorJobKind) /\ Head(rest) = "decision"
      BY <3>1, Todos DEF AnchorJobKind
    <3>4. rest \in IF g.arg = "refund" THEN {<<"decision">>}
                  ELSE {<<"decision", "close_no_correction">>, <<"close_no_correction">>}
      BY <2>5, <3>1
    <3>5. Len(g.todo) > 1
      BY <3>2
    <3> QED BY <2>3, <3>2, <3>3, <3>4, <3>5
  <2>6. CASE g.arg # "refund" /\ g.todo = <<"decision", "close_no_correction">>
    <3>1. /\ Head(g.todo) = "decision" /\ Len(g.todo) = 2
          /\ Tail(g.todo) = <<"close_no_correction">> /\ g.todo # <<>>
      BY <2>6, Todos
    <3>3. /\ <<"close_no_correction">> \in Seq(AnchorJobKind)
          /\ Head(<<"close_no_correction">>) = "close_no_correction"
      BY Todos DEF AnchorJobKind
    <3> QED BY <2>3, <2>6, <3>1, <3>3
  <2>7. CASE g.arg = "refund" /\ g.todo = <<"decision">>
    <3>1. Head(g.todo) = "decision" /\ Len(g.todo) = 1 /\ g.todo # <<>>
      BY <2>7, Todos
    <3>2. h = [g EXCEPT !.todo = <<>>, !.pc = "saveCase", !.st = "DECIDED"]
      BY <1>0, <1>5, <2>7, <3>1
    <3>3. /\ h \in Handlers /\ h.op = "recordDecision" /\ h.pc = "saveCase" /\ h.c = g.c
          /\ h.p = g.p /\ h.arg = g.arg /\ h.st = "DECIDED"
      <4>1. "saveCase" \in Pcs /\ "DECIDED" \in CaseStatus /\ <<>> \in Seq(AnchorJobKind)
        BY DEF Pcs, CaseStatus
      <4> QED BY <1>1, <1>5, <3>2, <4>1 DEF Handlers
    <3>4. Fits(h)
      BY <2>1, <2>7, <3>3 DEF Fits, RecordDecisionFits, Loaded
    <3>5. \A d, kind : ~ Owes(h, d, kind)
      BY <2>7, <3>3 DEF Owes
    <3> QED BY <2>1, <3>1, <3>3, <3>4, <3>5 DEF EnqueueLeaves, AnchorJobKind, Builds
  <2>8. CASE g.arg # "refund" /\ g.todo = <<"close_no_correction">>
    <3>1. /\ Head(g.todo) = "close_no_correction" /\ Len(g.todo) = 1
          /\ g.todo # <<>>
      BY <2>8, Todos
    <3>2. h = Idle
      BY <1>0, <2>8, <3>1
    <3> QED BY <2>1, <3>1, <3>2, IdleIsLeft DEF EnqueueLeaves, AnchorJobKind
  <2> QED BY <2>2, <2>4, <2>5, <2>6, <2>7, <2>8
<1>6. CASE g.op = "confirmRefund"
  <2>1. /\ g.p \in Payments /\ RefundedOnChain(g.p) /\ Loaded(g) /\ payoutRef[g.c] = g.p
        /\ decisions[g.c] # <<>> /\ executed[g.c]
        /\ g.todo \in {<<"correction_outstanding", "correction">>, <<"correction">>}
    BY <1>1, <1>6 DEF Fits, ConfirmRefundFits
  <2>2. CASE g.todo = <<"correction_outstanding", "correction">>
    <3>2. PICK rest : rest = <<"correction">>
      OBVIOUS
    <3>1. /\ Head(g.todo) = "correction_outstanding" /\ Len(g.todo) = 2
          /\ Tail(g.todo) = rest /\ g.todo # <<>>
      BY <2>2, <3>2, Todos
    <3>3. rest \in Seq(AnchorJobKind) /\ Head(rest) = "correction"
      BY <3>2, Todos DEF AnchorJobKind
    <3>4. /\ h \in Handlers /\ h.op = "confirmRefund" /\ h.pc = "enqueue" /\ h.c = g.c
          /\ h.p = g.p /\ h.todo = rest
      BY <1>0, <1>1, <1>6, <3>1, <3>3 DEF Handlers
    <3>5. Fits(h)
      BY <2>1, <3>2, <3>4 DEF Fits, ConfirmRefundFits, Loaded
    <3>6. /\ Builds(h, g.c, Head(g.todo))
          /\ \A d \in CaseIds \ {g.c} : \A kind \in CountedKinds : ~ Owes(h, d, kind)
      BY <3>1, <3>3, <3>4 DEF Builds, Owes
    <3> QED BY <2>1, <3>1, <3>4, <3>5, <3>6 DEF EnqueueLeaves, AnchorJobKind
  <2>3. CASE g.todo = <<"correction">>
    <3>1. Head(g.todo) = "correction" /\ Len(g.todo) = 1 /\ g.todo # <<>>
      BY <2>3, Todos
    <3>2. h = Idle
      BY <1>0, <1>6, <3>1
    <3> QED BY <2>1, <3>1, <3>2, IdleIsLeft DEF EnqueueLeaves, AnchorJobKind
  <2> QED BY <2>1, <2>2, <2>3
<1> QED BY <1>2, <1>3, <1>4, <1>5, <1>6

LEMMA EnqueueAnchorSafe ==
  ASSUME StepsInv, NEW s \in Slots, EnqueueAnchor(s)
  PROVE  StepsInv'
<1> USE DEF rowVars, chainVars
<1>0. PICK g : g = handler[s]
  OBVIOUS
<1>1. PICK h : h = AfterEnqueue(g)
  OBVIOUS
<1>2. PICK k : k = Head(g.todo)
  OBVIOUS
<1>3. /\ g.pc = "enqueue" /\ Continue(s, h)
      /\ jobs' = [jobs EXCEPT ![g.c] = @ \o <<k>>]
      /\ UNCHANGED <<payoutStatus, caseStatus, rowVars, version, decisions, executed>>
  BY <1>0, <1>1, <1>2 DEF EnqueueAnchor, enqueueAnchor, Return, AfterEnqueue
<1>4. EnqueueLeaves(g, h)
  BY <1>0, <1>1, <1>3, EnqueueAnchorLeaves
<1>5. /\ k \in AnchorJobKind /\ g.c \in CaseIds /\ Exists(g.c)
      /\ h \in Handlers /\ Fits(h) /\ h.op # "requestInfo" /\ Builds(h, g.c, k)
      /\ \A d \in CaseIds \ {g.c} : \A kind \in CountedKinds : ~ Owes(h, d, kind)
      /\ k = "case" => caseStatus[g.c] # "OPEN"
      /\ k = "response" => replied[g.c]
      /\ k = "correction_outstanding" => executed[g.c] /\ RefundedOnChain(payoutRef[g.c])
  BY <1>2, <1>4 DEF EnqueueLeaves, Loaded
<1>6. /\ TypeOK /\ StatusFollowsChain /\ VerdictHasReasons /\ QueueHasRows /\ CountsMatch
      /\ StepsTypeOK /\ VersionsMatch /\ handler \in [Slots -> Handlers]
      /\ calls \in 0..MaxCalls /\ calls' = calls /\ version' = version
      /\ handler' = [handler EXCEPT ![s] = h] /\ UNCHANGED <<chainRefund, chainWithdrawn>>
  BY <1>3 DEF StepsInv, StepsTypeOK, Continue
<1>7. RowsGrow
  BY <1>3, <1>6, RowsStay
<1>8. TypeOK'
  <2>1. <<k>> \in Seq(AnchorJobKind)
    BY <1>5
  <2>2. jobs' \in [CaseIds -> Seq(AnchorJobKind)]
    BY <1>3, <1>5, <1>6, <2>1, EnqueueType DEF TypeOK, enqueueAnchor
  <2> QED BY <1>3, <1>6, <2>2 DEF TypeOK
<1>9. VerdictHasReasons' /\ StatusFollowsChain'
  BY <1>3, <1>6, <1>7, ReasonsKept, PayoutsUntouched
<1>10. Fits(h)'
  BY <1>5, <1>6, <1>7, FitsStays
<1>11. ASSUME NEW d \in CaseIds
       PROVE  /\ jobs[d] \in Seq(AnchorJobKind)
              /\ d = g.c => jobs'[d] = jobs[d] \o <<k>>
              /\ d # g.c => jobs'[d] = jobs[d]
  BY <1>3, <1>5, <1>6 DEF TypeOK
<1>12. QueueHasRows'
  <2>1. ASSUME NEW d \in CaseIds, NEW kind
        PROVE  HowMany(jobs'[d], kind) > 0 =>
                 HowMany(jobs[d], kind) > 0 \/ (d = g.c /\ kind = k)
    <3>1. CASE d = g.c /\ kind # k
      <4>1. HowMany(jobs[d] \o <<k>>, kind) = HowMany(jobs[d], kind)
        BY <1>5, <1>11, <3>1, HowManyGrows
      <4> QED BY <1>11, <3>1, <4>1
    <3>2. CASE d # g.c
      BY <1>11, <3>2
    <3> QED BY <3>1, <3>2
  <2>2. ASSUME NEW d \in CaseIds
        PROVE  /\ Queued(d, "case")' > 0 => Exists(d)' /\ caseStatus'[d] # "OPEN"
               /\ Queued(d, "response")' > 0 => replied'[d]
               /\ Queued(d, "correction_outstanding")' > 0 =>
                    Exists(d)' /\ executed'[d] /\ RefundedOnChain(payoutRef[d])'
    <3>1. /\ HowMany(jobs[d], "case") > 0 => Exists(d) /\ caseStatus[d] # "OPEN"
          /\ HowMany(jobs[d], "response") > 0 => replied[d]
          /\ HowMany(jobs[d], "correction_outstanding") > 0 =>
               Exists(d) /\ executed[d] /\ RefundedOnChain(payoutRef[d])
      BY <1>6 DEF QueueHasRows, Queued
    <3>2. /\ HowMany(jobs'[d], "case") > 0 => Exists(d) /\ caseStatus[d] # "OPEN"
          /\ HowMany(jobs'[d], "response") > 0 => replied[d]
          /\ HowMany(jobs'[d], "correction_outstanding") > 0 =>
               Exists(d) /\ executed[d] /\ RefundedOnChain(payoutRef[d])
      BY <1>5, <2>1, <3>1
    <3> QED BY <1>3, <1>6, <3>2 DEF Queued, Exists, RefundedOnChain
  <2> QED BY <2>2 DEF QueueHasRows
<1>13. CountsMatch'
  <2>1. ASSUME NEW d \in CaseIds PROVE CaseCounts(jobs'[d], handler', decisions[d], d)
    <3>1. /\ decisions[d] \in Seq(DecisionOutcome)
          /\ CaseCounts(jobs[d], handler, decisions[d], d)
      BY <1>6, CountsAreCaseCounts DEF TypeOK
    <3>2. Moves(handler, handler', s, h)
      BY <1>6 DEF Moves
    <3>3. CASE d = g.c
      <4>1. Owes(handler[s], d, k)
        BY <1>0, <1>2, <1>3, <3>3 DEF Owes
      <4>2. CaseCounts(jobs[d] \o <<k>>, handler', decisions[d], d)
        BY <1>5, <1>6, <1>11, <3>1, <3>2, <3>3, <4>1, CaseCountsEnqueue
      <4> QED BY <1>11, <3>3, <4>2
    <3>4. CASE d # g.c
      <4>1. \A kind \in CountedKinds : ~ Owes(h, d, kind)
        BY <1>5, <3>4
      <4> QED BY <1>5, <1>6, <1>11, <3>1, <3>2, <3>4, <4>1, CaseCountsKept
    <3> QED BY <3>3, <3>4
  <2> QED BY <1>3, <2>1 DEF CountsMatch, CaseCounts, Queued, Owing
<1>14. VersionsMatch'
  BY <1>5, <1>6, VersionsKept
<1> QED BY <1>3, <1>5, <1>6, <1>7, <1>8, <1>9, <1>10, <1>12, <1>13, <1>14, PartsSettle DEF StepsTypeOK

(* Whichever await a handler resumes from.                                  *)
LEMMA ResumeSafe ==
  ASSUME StepsInv, NEW s \in Slots, Resume(s)
  PROVE  StepsInv'
BY OpenDisputeCheckSafe, NextCaseNumberSafe, CreateCaseSafe, ServeNoticeSafe, CreateResponseSafe,
   AttachInResponseSafe, CreateEvidenceSafe, SaveResponseSafe, SaveInfoRequestSafe,
   RecordDecisionPayoutSafe, CreateDecisionSafe, StampDecisionSafe, StampPayoutSafe,
   FindDecidedCaseSafe, ExecuteDecisionSafe, SchedulerSaveSafe, SavePayoutSafe, SaveCaseSafe,
   EnqueueAnchorSafe
   DEF Resume

-----------------------------------------------------------------------------
(* The chain, the clock and restarts.                                       *)

LEMMA OutsideSettles ==
  ASSUME StepsInv, RowsGrow, TypeOK',
         UNCHANGED <<payoutStatus, caseStatus, decisions, jobs, version, handler, calls>>
  PROVE  StepsInv'
<1>1. TypeOK /\ handler \in [Slots -> Handlers]
  BY DEF StepsInv, StepsTypeOK
<1>2. HandlersFit'
  <2>1. ASSUME NEW s \in Slots PROVE Fits(handler[s])'
    <3>1. PICK k : k = handler[s]
      OBVIOUS
    <3>2. Fits(k)'
      BY <1>1, <3>1, FitsStays DEF StepsInv, HandlersFit
    <3> QED BY <3>1, <3>2
  <2> QED BY <2>1 DEF HandlersFit
<1>3. StepsTypeOK'
  BY DEF StepsInv, StepsTypeOK
<1>4. VerdictHasReasons' /\ QueueHasRows' /\ StatusFollowsChain'
  BY <1>1, ReasonsKept, QueueRowsKept, PayoutsUntouched DEF StepsInv
<1>5. CountsMatch' /\ VersionsMatch'
  BY DEF StepsInv, CountsMatch, VersionsMatch, Queued, Owing, Asking
<1> QED BY <1>2, <1>3, <1>4, <1>5 DEF StepsInv

LEMMA OutsideSafe == ASSUME StepsInv, Outside PROVE StepsInv'
<1> USE DEF rowVars, chainVars
<1>1. TypeOK /\ UNCHANGED <<version, handler, calls>>
  BY DEF StepsInv, StepsTypeOK, Outside
<1>2. ASSUME NEW c \in CaseIds, SendRefund(c) PROVE StepsInv'
  <2>1. /\ chainRefund[payoutRef[c]] \in {"no", "reverted"}
        /\ chainRefund' = [chainRefund EXCEPT ![payoutRef[c]] = "sent"]
        /\ UNCHANGED <<chainWithdrawn, payoutStatus, caseStatus, rowVars, decisions, executed, jobs>>
    BY <1>2 DEF SendRefund, ChainStep
  <2>2. RowsGrow
    BY <1>1, <2>1 DEF RowsGrow, CaseGrows, PaymentGrows, RefundedOnChain, Exists, TypeOK
  <2>3. TypeOK'
    BY <1>1, <2>1 DEF TypeOK, Refunds
  <2> QED BY <1>1, <2>1, <2>2, <2>3, OutsideSettles
<1>3. ASSUME NEW p \in Payments, NEW result \in {"arbiter", "reverted"}, SettleRefund(p, result)
      PROVE  StepsInv'
  <2>1. /\ chainRefund[p] = "sent" /\ chainRefund' = [chainRefund EXCEPT ![p] = result]
        /\ UNCHANGED <<chainWithdrawn, payoutStatus, caseStatus, rowVars, decisions, executed, jobs>>
    BY <1>3 DEF SettleRefund, ChainStep
  <2>2. RowsGrow
    BY <1>1, <2>1 DEF RowsGrow, CaseGrows, PaymentGrows, RefundedOnChain, Exists, TypeOK
  <2>3. TypeOK'
    BY <1>1, <2>1 DEF TypeOK, Refunds
  <2> QED BY <1>1, <2>1, <2>2, <2>3, OutsideSettles
<1>4. ASSUME NEW p \in Payments, RefundByRecipient(p) PROVE StepsInv'
  <2>1. /\ chainRefund' = [chainRefund EXCEPT ![p] = "recipient"]
        /\ UNCHANGED <<chainWithdrawn, payoutStatus, caseStatus, rowVars, decisions, executed, jobs>>
    BY <1>4 DEF RefundByRecipient, ChainStep
  <2>2. RowsGrow
    BY <1>1, <2>1 DEF RowsGrow, CaseGrows, PaymentGrows, RefundedOnChain, Exists, TypeOK
  <2>3. TypeOK'
    BY <1>1, <2>1 DEF TypeOK, Refunds
  <2> QED BY <1>1, <2>1, <2>2, <2>3, OutsideSettles
<1>5. ASSUME NEW p \in Payments, WithdrawOnChain(p) PROVE StepsInv'
  <2>1. /\ chainWithdrawn' = [chainWithdrawn EXCEPT ![p] = TRUE]
        /\ UNCHANGED <<chainRefund, payoutStatus, caseStatus, rowVars, decisions, executed, jobs>>
    BY <1>5 DEF WithdrawOnChain, ChainStep
  <2>2. RowsGrow
    BY <1>1, <2>1 DEF RowsGrow, CaseGrows, PaymentGrows, RefundedOnChain, Exists, TypeOK
  <2>3. TypeOK'
    BY <1>1, <2>1 DEF TypeOK
  <2> QED BY <1>1, <2>1, <2>2, <2>3, OutsideSettles
<1>6. ASSUME NEW c \in CaseIds, DeadlineElapses(c) PROVE StepsInv'
  <2>1. /\ overdue' = overdue \cup {c}
        /\ UNCHANGED <<payoutStatus, caseStatus, payoutRef, infoRequestCount, unanswered,
                       replied, lateEvidence, decisions, executed, jobs, chainVars>>
    BY <1>6 DEF DeadlineElapses
  <2>2. RowsGrow
    BY <2>1, RowsStay
  <2>3. TypeOK'
    BY <1>1, <2>1 DEF TypeOK
  <2> QED BY <1>1, <2>1, <2>2, <2>3, OutsideSettles
<1> QED BY <1>2, <1>3, <1>4, <1>5, <1>6 DEF Outside

LEMMA CrashSafe == ASSUME StepsInv, Crash PROVE StepsInv'
<1> USE DEF dbVars, rowVars, chainVars
<1>1. /\ handler' = [s \in Slots |-> Idle]
      /\ UNCHANGED <<dbVars, chainVars, calls>>
  BY DEF Crash
<1>2. TypeOK /\ TypeOK'
  BY <1>1 DEF StepsInv, StepsTypeOK, TypeOK
<1>3. RowsGrow
  BY <1>1, RowsStay
<1>4. StepsTypeOK'
  BY <1>1, <1>2, IdleFits DEF StepsInv, StepsTypeOK
<1>5. HandlersFit'
  <2>1. Fits(Idle)'
    BY <1>2, <1>3, IdleFits, FitsStays
  <2> QED BY <1>1, <2>1 DEF HandlersFit
<1>6. VerdictHasReasons' /\ QueueHasRows' /\ StatusFollowsChain'
  BY <1>1, <1>2, <1>3, ReasonsKept, QueueRowsKept, PayoutsUntouched DEF StepsInv
<1>7. CountsMatch'
  <2>1. ASSUME NEW c \in CaseIds PROVE CaseCounts(jobs[c], handler', decisions[c], c)
    <3>1. /\ jobs[c] \in Seq(AnchorJobKind) /\ decisions[c] \in Seq(DecisionOutcome)
          /\ CaseCounts(jobs[c], handler, decisions[c], c)
      BY <1>2, CountsAreCaseCounts DEF StepsInv, TypeOK
    <3>2. \A kind : Cardinality(OwingIn(handler', c, kind)) = 0
      <4>1. \A kind : OwingIn(handler', c, kind) = {}
        BY <1>1, IdleIsLeft DEF OwingIn
      <4> QED BY <4>1, FS_EmptySet
    <3>3. ASSUME NEW kind, NEW bound \in Nat,
                 HowMany(jobs[c], kind) + Cardinality(OwingIn(handler, c, kind)) <= bound
          PROVE  HowMany(jobs[c], kind) + Cardinality(OwingIn(handler', c, kind)) <= bound
      <4>1. /\ HowMany(jobs[c], kind) \in Nat
            /\ Cardinality(OwingIn(handler, c, kind)) \in Nat
        BY <3>1, HowManyType, OwingType
      <4> QED BY <3>2, <3>3, <4>1
    <3>4. Len(decisions[c]) \in Nat /\ \A kind : HowMany(jobs[c], kind) \in Nat
      BY <3>1, LenProperties, HowManyType
    <3> QED BY <3>1, <3>3, <3>4 DEF CaseCounts
  <2> QED BY <1>1, <2>1 DEF CountsMatch, CaseCounts, Queued, Owing
<1>8. VersionsMatch'
  <2>1. Asking' = {}
    BY <1>1 DEF Asking, Idle
  <2>2. Cardinality(Asking') = 0
    BY <2>1, FS_EmptySet
  <2>3. ASSUME NEW c \in CaseIds PROVE version[c] + 0 <= calls
    <3>1. Cardinality(Asking) \in Nat
      BY SlotsAssumption, FS_Subset, FS_CardinalityType DEF Asking
    <3>2. version[c] \in Nat /\ calls \in Nat /\ version[c] + Cardinality(Asking) <= calls
      BY StepBoundsAssumption DEF StepsInv, StepsTypeOK, VersionsMatch
    <3> QED BY <3>1, <3>2
  <2> QED BY <1>1, <2>2, <2>3 DEF VersionsMatch
<1> QED BY <1>4, <1>5, <1>6, <1>7, <1>8 DEF StepsInv

LEMMA StepsInvInitially == InitSteps => StepsInv
<1> SUFFICES ASSUME InitSteps PROVE StepsInv
  OBVIOUS
<1>1. TypeOK
  BY InitType DEF InitSteps
<1>2. /\ Init /\ version = [c \in CaseIds |-> 0] /\ handler = [s \in Slots |-> Idle] /\ calls = 0
  BY DEF InitSteps
<1>3. StepsTypeOK /\ HandlersFit
  BY <1>1, <1>2, IdleFits, StepBoundsAssumption DEF StepsTypeOK, HandlersFit
<1>4. VerdictHasReasons /\ StatusFollowsChain
  BY <1>2 DEF Init, VerdictHasReasons, StatusFollowsChain, NoCase, Held
<1>5. \A kind : \A c \in CaseIds : HowMany(jobs[c], kind) = 0
  <2>1. \A kind : {i \in 1..Len(<<>>) : <<>>[i] = kind} = {}
    OBVIOUS
  <2>2. \A kind : HowMany(<<>>, kind) = 0
    BY <2>1, FS_EmptySet DEF HowMany
  <2> QED BY <1>2, <2>2 DEF Init
<1>6. \A kind : \A c \in CaseIds : Cardinality(OwingIn(handler, c, kind)) = 0
  <2>1. \A kind : \A c \in CaseIds : OwingIn(handler, c, kind) = {}
    BY <1>2, IdleIsLeft DEF OwingIn
  <2> QED BY <2>1, FS_EmptySet
<1>7. QueueHasRows
  BY <1>5 DEF QueueHasRows, Queued
<1>8. CountsMatch
  <2>1. \A c \in CaseIds : Len(decisions[c]) = 0
    BY <1>2 DEF Init
  <2>2. ASSUME NEW c \in CaseIds PROVE CaseCounts(jobs[c], handler, decisions[c], c)
    <3>1. Len(decisions[c]) = 0 /\ \A kind : HowMany(jobs[c], kind) = 0
      BY <1>5, <2>1
    <3>2. \A kind : Cardinality(OwingIn(handler, c, kind)) = 0
      BY <1>6
    <3>3. ASSUME NEW kind
          PROVE  HowMany(jobs[c], kind) + Cardinality(OwingIn(handler, c, kind)) = 0
      BY <3>1, <3>2
    <3> QED BY <3>1, <3>3 DEF CaseCounts
  <2> QED BY <2>2, CountsAreCaseCounts
<1>9. VersionsMatch
  <2>1. Asking = {}
    BY <1>2 DEF Asking, Idle
  <2>2. Cardinality(Asking) = 0
    BY <2>1, FS_EmptySet
  <2> QED BY <1>2, <2>2 DEF VersionsMatch
<1> QED BY <1>3, <1>4, <1>7, <1>8, <1>9 DEF StepsInv

LEMMA StepsInvInductive == StepsInv /\ [NextSteps]_stepVars => StepsInv'
<1> SUFFICES ASSUME StepsInv, [NextSteps]_stepVars PROVE StepsInv'
  OBVIOUS
<1>1. ASSUME NEW s \in Slots, Start(s) \/ Resume(s) PROVE StepsInv'
  BY <1>1, StartSafe, ResumeSafe
<1>2. CASE UNCHANGED stepVars
  <2> USE DEF stepVars, dbVars, rowVars, chainVars
  <2>1. TypeOK'
    BY <1>2 DEF StepsInv, StepsTypeOK, TypeOK
  <2>2. RowsGrow
    BY <1>2, RowsStay
  <2> QED BY <1>2, <2>1, <2>2, OutsideSettles
<1> QED BY <1>1, <1>2, OutsideSafe, CrashSafe DEF NextSteps

(* Whatever overlaps and wherever the process stops, every row and every    *)
(* local variable of a handler keeps to its type: no stale counter of info  *)
(* requests is saved past its limit.                                        *)
THEOREM StepsTypeCorrect == SpecSteps => []StepsTypeOK
<1>1. StepsInv => StepsTypeOK
  BY DEF StepsInv
<1> QED BY <1>1, StepsInvInitially, StepsInvInductive, PTL DEF SpecSteps

(* The queue never runs ahead of the records: with what is owed counted in, *)
(* a decision has its verdict's job before its own, and a correction its    *)
(* announcement.                                                            *)
LEMMA AnchorsFollow == StepsInv => AnchorsFollowRecords
<1> SUFFICES ASSUME StepsInv, NEW c \in CaseIds
             PROVE  /\ Queued(c, "case") > 0 => Exists(c) /\ caseStatus[c] # "OPEN"
                    /\ Queued(c, "response") > 0 => replied[c]
                    /\ Queued(c, "decision") <= Queued(c, "under_review")
                    /\ Queued(c, "under_review") <= Len(decisions[c])
                    /\ Queued(c, "correction") <= Queued(c, "correction_outstanding")
                    /\ Queued(c, "correction_outstanding") > 0 =>
                         executed[c] /\ RefundedOnChain(payoutRef[c])
  BY DEF AnchorsFollowRecords
<1>1. jobs[c] \in Seq(AnchorJobKind) /\ decisions[c] \in Seq(DecisionOutcome)
  BY DEF StepsInv, StepsTypeOK, TypeOK
<1>2. Len(decisions[c]) \in Nat /\ \A kind : HowMany(jobs[c], kind) \in Nat
  BY <1>1, LenProperties, HowManyType
<1>3. ASSUME NEW kind, NEW bound \in Nat,
             HowMany(jobs[c], kind) + Cardinality(OwingIn(handler, c, kind)) <= bound
      PROVE  HowMany(jobs[c], kind) <= bound
  <2>1. HowMany(jobs[c], kind) \in Nat /\ Cardinality(OwingIn(handler, c, kind)) \in Nat
    BY <1>2, OwingType
  <2> QED BY <1>3, <2>1
<1>4. CaseCounts(jobs[c], handler, decisions[c], c)
  BY CountsAreCaseCounts DEF StepsInv
<1>5. /\ HowMany(jobs[c], "under_review") <= Len(decisions[c])
      /\ HowMany(jobs[c], "decision") <= HowMany(jobs[c], "under_review")
      /\ HowMany(jobs[c], "correction") <= HowMany(jobs[c], "correction_outstanding")
  BY <1>2, <1>3, <1>4 DEF CaseCounts
<1> QED BY <1>5 DEF StepsInv, QueueHasRows, Queued

(* However handlers overlap, and wherever a restart cuts them off: a case   *)
(* that is decided or closed has a Decision row, no anchor job runs ahead   *)
(* of the rows it reports, and no payout is shown as refunded or withdrawn  *)
(* that the chain does not bear out, but for a misreported release.         *)
THEOREM RecordsAlwaysKeepUp == SpecSteps => []RecordsKeepUp
<1>1. StepsInv => RecordsKeepUp
  BY AnchorsFollow DEF StepsInv, RecordsKeepUp
<1> QED BY <1>1, StepsInvInitially, StepsInvInductive, PTL DEF SpecSteps

-----------------------------------------------------------------------------
(***************************************************************************)
(* DisputeStepsSerial.  The invariant says, of every handler and every     *)
(* point it may have got to, how the rows differ from those DisputeApi     *)
(* sees, which are the rows the handler started on: what it has loaded is  *)
(* still true, what it has saved is what the action of the API will save.  *)
(* The step that lands is then that action, and those before it are none.  *)
(***************************************************************************)

(* One handler at a time, and none cut off half-way.                         *)
OneAtATime == (\A s, t \in Slots : s = t) /\ ~ MayCrash

(* A handler that has not written a kind of row yet leaves it as it was.     *)
SamePayouts   == payoutStatus = before.payoutStatus
SameCases     == caseStatus = before.caseStatus
SameRefs      == payoutRef = before.payoutRef
SameCounts    == infoRequestCount = before.infoRequestCount
SameRequests  == unanswered = before.unanswered
SameReplies   == replied = before.replied
SameEvidence  == lateEvidence = before.lateEvidence
SameDecisions == decisions = before.decisions
SameStamps    == executed = before.executed
SameJobs      == jobs = before.jobs

Enqueued(c, kinds) == jobs = [before.jobs EXCEPT ![c] = @ \o kinds]

Untouched ==
  /\ SamePayouts /\ SameCases /\ SameRefs /\ SameCounts /\ SameRequests
  /\ SameReplies /\ SameEvidence /\ SameDecisions /\ SameStamps /\ SameJobs

OpenDisputeAt(h) ==
  LET opened == IF h.pc = "serve" THEN "OPEN" ELSE "AWAITING_RESPONSE"
  IN  /\ SameCounts /\ SameRequests /\ SameReplies /\ SameEvidence
      /\ SameDecisions /\ SameStamps /\ SameJobs
      /\ h.pc = "check" => h.pst = before.payoutStatus[h.p]
      /\ h.pc # "check" => /\ API!OpenCasesOn(h.p) = {} /\ h.pst # Illegal
                           /\ h.pst = ApplyPaymentEvent(before.payoutStatus[h.p], "dispute_opened")
      /\ IF h.pc \in {"check", "savePayout"} THEN SamePayouts
         ELSE payoutStatus = [before.payoutStatus EXCEPT ![h.p] = h.pst]
      /\ h.pc = "create" => Existing = 1..(h.c - 1)
      /\ IF h.pc \in {"serve", "enqueue"}
         THEN /\ before.caseStatus[h.c] = NoCase /\ decisions[h.c] = <<>>
              /\ caseStatus = [before.caseStatus EXCEPT ![h.c] = opened]
              /\ payoutRef = [before.payoutRef EXCEPT ![h.c] = h.p]
         ELSE SameCases /\ SameRefs

SubmitResponseAt(h) ==
  /\ SamePayouts /\ SameRefs /\ SameCounts /\ SameDecisions /\ SameStamps /\ SameJobs
  /\ h.st = before.caseStatus[h.c] /\ h.ver = version[h.c]
  /\ h.pc \in {"evidence", "file"} => h.yes
  /\ h.pc \in {"file", "save", "enqueue"} /\ h.yes => h.st # "CLOSED"
  /\ IF h.pc = "create" THEN SameReplies ELSE replied = [before.replied EXCEPT ![h.c] = TRUE]
  /\ lateEvidence = IF h.pc \in {"save", "enqueue"} /\ h.yes
                    THEN API!FileEvidence(h.c) ELSE before.lateEvidence
  /\ \E author \in Authors :
       LET target == ResponderTarget(author)
           after  == ApplyCaseEvent(h.st, 0, "reply_received")
       IN  /\ h.arg = IF target \in before.unanswered[h.c] THEN target ELSE "none"
           /\ IF h.pc # "enqueue" THEN SameCases /\ SameRequests
              ELSE /\ h.st = "AWAITING_RESPONSE"
                   /\ caseStatus = [before.caseStatus EXCEPT ![h.c] =
                                      IF after = Illegal THEN @ ELSE after]
                   /\ unanswered = [before.unanswered EXCEPT ![h.c] = @ \ {target}]

AttachEvidenceAt(h) == Untouched /\ caseStatus[h.c] # "CLOSED"

RequestInfoAt(h) ==
  Untouched /\ h.st = caseStatus[h.c] /\ h.n = infoRequestCount[h.c]

(* The jobs of a verdict that have been enqueued.                            *)
Enqueueing(h) == h.pc = "enqueue" \/ (h.pc = "saveCase" /\ h.arg = "refund")
EnqueuedBy(h) ==
  IF h.pc = "saveCase" THEN <<"under_review", "decision">>
  ELSE IF Len(h.todo) = IF h.arg = "refund" THEN 1 ELSE 2 THEN <<"under_review">>
  ELSE IF h.todo = <<"close_no_correction">> THEN <<"under_review", "decision">>
  ELSE <<>>

RecordDecisionAt(h) ==
  LET clears == h.arg # "refund"
  IN  /\ SameRefs /\ SameCounts /\ SameRequests /\ SameReplies /\ SameEvidence /\ SameStamps
      /\ h.p = before.payoutRef[h.c]
      /\ ReviewThen(before.caseStatus[h.c], before.infoRequestCount[h.c], "decision_recorded")
           # Illegal
      /\ h.pc = "savePayout" => clears
      /\ clears /\ h.pc # "payout" =>
           h.pst # Illegal /\ h.pst = ClearedStatus(before.payoutStatus[h.p], h.arg)
      /\ IF clears /\ h.pc \in {"decide", "saveCase", "enqueue"}
         THEN payoutStatus = [before.payoutStatus EXCEPT ![h.p] = h.pst] ELSE SamePayouts
      /\ IF h.pc \in {"saveCase", "enqueue"}
         THEN decisions = [before.decisions EXCEPT ![h.c] = Append(@, h.arg)]
         ELSE SameDecisions
      /\ IF clears /\ h.pc = "enqueue"
         THEN caseStatus = [before.caseStatus EXCEPT ![h.c] = "CLOSED"] ELSE SameCases
      /\ IF Enqueueing(h) THEN Enqueued(h.c, EnqueuedBy(h)) ELSE SameJobs

StampRefundTxAt(h) ==
  /\ SameCases /\ SameRefs /\ SameCounts /\ SameRequests /\ SameReplies /\ SameEvidence
  /\ SameDecisions /\ SameJobs
  /\ IF h.pc = "stamp" THEN SameStamps ELSE executed = [before.executed EXCEPT ![h.c] = TRUE]
  /\ h.pc = "savePayout" =>
       /\ before.payoutStatus[h.p] = "DISPUTED"
       /\ h.pst = ApplyPaymentEvent("DISPUTED", "refund_confirmed")
  /\ IF h.pc # "saveCase" THEN SamePayouts
     ELSE payoutStatus = [before.payoutStatus EXCEPT ![h.p] =
            IF @ = "DISPUTED" THEN ApplyPaymentEvent(@, "refund_confirmed") ELSE @]

ConfirmRefundAt(h) ==
  /\ SameRefs /\ SameCounts /\ SameRequests /\ SameReplies /\ SameEvidence /\ SameDecisions
  /\ h.pst # Illegal
  /\ \E debt \in BOOLEAN : h.pst = RefundedStatus(before.payoutStatus[h.p], debt)
  /\ IF h.pc = "savePayout" THEN SamePayouts
     ELSE payoutStatus = [before.payoutStatus EXCEPT ![h.p] = h.pst]
  /\ h.pc \in {"saveCase", "execute", "enqueue"} =>
       h.c \in API!DecidedOn(h.p) /\ h.st = API!ExecutedThenClosed(h.c)
  /\ IF h.pc \in {"execute", "enqueue"}
     THEN caseStatus = [before.caseStatus EXCEPT ![h.c] = h.st] ELSE SameCases
  /\ IF h.pc = "enqueue" THEN executed = [before.executed EXCEPT ![h.c] = TRUE] ELSE SameStamps
  /\ IF h.pc = "enqueue" /\ h.todo = <<"correction">>
     THEN Enqueued(h.c, <<"correction_outstanding">>) ELSE SameJobs

PayoutHookAt(h) ==
  LET from == payoutStatus[h.p]
  IN  /\ Untouched /\ h.pst # Illegal
      /\ \/ chainWithdrawn[h.p] /\ h.pst = WithdrawnStatus(from)
         \/ h.pst = ApplyPaymentEvent(from, LockupEvent(from))
         \/ h.pst = ApplyPaymentEvent(from, "next_payment_absorbs_debt")

DeadlinePassedAt(h) ==
  /\ Untouched /\ h.st # Illegal
  /\ h.st = ApplyCaseEvent(caseStatus[h.c], infoRequestCount[h.c], "deadline_passed")

TickAt(h) ==
  Untouched /\ \A c \in h.due : c \in overdue /\ caseStatus[c] = "AWAITING_RESPONSE"

(* How far a handler has got with what DisputeApi does in one step.          *)
At(h) ==
  /\ h.op = "idle" => Untouched
  /\ h.op = "openDispute" => OpenDisputeAt(h)
  /\ h.op = "submitResponse" => SubmitResponseAt(h)
  /\ h.op = "attachEvidence" => AttachEvidenceAt(h)
  /\ h.op = "requestInfo" => RequestInfoAt(h)
  /\ h.op = "recordDecision" => RecordDecisionAt(h)
  /\ h.op = "stampRefundTx" => StampRefundTxAt(h)
  /\ h.op = "confirmRefund" => ConfirmRefundAt(h)
  /\ h.op = "payoutHook" => PayoutHookAt(h)
  /\ h.op = "deadlinePassed" => DeadlinePassedAt(h)
  /\ h.op = "tick" => TickAt(h)

(* Cases are numbered without gaps, as long as handlers do not overlap.      *)
Numbered == \E n \in 0..MaxCases : Existing = 1..n

(* Nobody decides a case there is not.                                      *)
DecisionsHaveCases == \A c \in CaseIds : decisions[c] # <<>> => payoutRef[c] # NoPayout

ShadowFits ==
  /\ API!TypeOK /\ before.overdue = overdue /\ Numbered
  /\ \A s \in Slots : At(handler[s])
  /\ AtRest => Untouched
  /\ before = [payoutStatus |-> before.payoutStatus, caseStatus |-> before.caseStatus,
               payoutRef |-> before.payoutRef, infoRequestCount |-> before.infoRequestCount,
               unanswered |-> before.unanswered, overdue |-> before.overdue,
               replied |-> before.replied, lateEvidence |-> before.lateEvidence,
               decisions |-> before.decisions, executed |-> before.executed,
               jobs |-> before.jobs]

-----------------------------------------------------------------------------
(* The state machines are the same seen from either module.                 *)
LEMMA SameTables ==
  /\ API!Illegal = Illegal /\ API!NoCase = NoCase
  /\ \A from, event : API!ApplyPaymentEvent(from, event) = ApplyPaymentEvent(from, event)
  /\ \A st, n, event : API!ApplyCaseEvent(st, n, event) = ApplyCaseEvent(st, n, event)
<1>1. API!Illegal = Illegal /\ API!NoCase = NoCase
  BY DEF API!Illegal, Illegal, API!NoCase, NoCase
<1>2. \A edges, from, event : API!TakeEdge(edges, from, event) = TakeEdge(edges, from, event)
  BY <1>1 DEF API!TakeEdge, TakeEdge
<1>3. API!PAYMENT_EDGES = PAYMENT_EDGES /\ API!CASE_EDGES = CASE_EDGES
  BY DEF API!PAYMENT_EDGES, PAYMENT_EDGES, API!CASE_EDGES, CASE_EDGES
<1> QED BY <1>1, <1>2, <1>3 DEF API!ApplyPaymentEvent, ApplyPaymentEvent, API!ApplyCaseEvent,
     ApplyCaseEvent

LEMMA SameMoves ==
  /\ \A st, n, event : API!ReviewThen(st, n, event) = ReviewThen(st, n, event)
  /\ \A status, debt : API!RefundedStatus(status, debt) = RefundedStatus(status, debt)
  /\ \A status : API!LockupEvent(status) = LockupEvent(status)
  /\ \A status : API!WithdrawnStatus(status) = WithdrawnStatus(status)
  /\ \A status, outcome : API!ClearedStatus(status, outcome) = ClearedStatus(status, outcome)
  /\ \A author : API!ResponderTarget(author) = ResponderTarget(author)
<1>1. \A status : API!LockupEvent(status) = LockupEvent(status)
  BY DEF API!LockupEvent, LockupEvent
<1> QED BY <1>1, SameTables DEF API!ReviewThen, ReviewThen, API!RefundedStatus, RefundedStatus,
     API!WithdrawnStatus, WithdrawnStatus, API!ClearedStatus, ClearedStatus,
     API!ResponderTarget, ResponderTarget

-----------------------------------------------------------------------------
SerialStep ==
  OneAtATime /\ StepsInv /\ StepsInv' /\ DecisionsHaveCases /\ ShadowFits /\ SerialNext

(* What a step is to DisputeApi.                                             *)
Follows == ShadowFits' /\ [API!Next]_(API!vars)

BeforeStays ==
  /\ before'.payoutStatus = before.payoutStatus /\ before'.caseStatus = before.caseStatus
  /\ before'.payoutRef = before.payoutRef
  /\ before'.infoRequestCount = before.infoRequestCount
  /\ before'.unanswered = before.unanswered /\ before'.replied = before.replied
  /\ before'.lateEvidence = before.lateEvidence /\ before'.decisions = before.decisions
  /\ before'.executed = before.executed /\ before'.jobs = before.jobs

USE DEF SamePayouts, SameCases, SameRefs, SameCounts, SameRequests, SameReplies,
  SameEvidence, SameDecisions, SameStamps, SameJobs

LEMMA NumberedStays ==
  ASSUME TypeOK, TypeOK', Numbered, UNCHANGED payoutRef
  PROVE  Numbered'
<1>1. Existing' = Existing
  BY DEF TypeOK, Existing, Exists
<1> QED BY <1>1 DEF Numbered

LEMMA MidAir ==
  ASSUME SerialStep, NEW s \in Slots, NEW h, handler' = [handler EXCEPT ![s] = h],
         h.op \notin {"idle", "tick"}
  PROVE  /\ \A t \in Slots : t = s /\ handler'[t] = h
         /\ ~ AtRest' /\ BeforeStays /\ before'.overdue = overdue'
         /\ before' = [before EXCEPT !.overdue = overdue']
<1>1. \A t \in Slots : t = s /\ handler'[t] = h
  BY DEF SerialStep, OneAtATime, StepsInv, StepsTypeOK
<1>2. ~ AtRest'
  BY <1>1 DEF AtRest
<1>3. before' = [before EXCEPT !.overdue = overdue']
  BY <1>2 DEF SerialStep, SerialNext
<1>4. before'.overdue = overdue' /\ BeforeStays
  BY <1>3 DEF SerialStep, ShadowFits, BeforeStays
<1> QED BY <1>1, <1>2, <1>3, <1>4

LEMMA GoesOn ==
  ASSUME SerialStep, NEW s \in Slots, NEW h, handler' = [handler EXCEPT ![s] = h],
         h.op \notin {"idle", "tick"}, UNCHANGED <<chainVars, overdue>>, Numbered', At(h)'
  PROVE  Follows
<1>1. /\ \A t \in Slots : t = s /\ handler'[t] = h
      /\ ~ AtRest' /\ BeforeStays /\ before'.overdue = overdue'
      /\ before' = [before EXCEPT !.overdue = overdue']
  BY MidAir
<1>2. before.overdue = overdue /\ API!TypeOK
  BY DEF SerialStep, ShadowFits
<1>3. UNCHANGED API!vars
  BY <1>1, <1>2 DEF API!vars, API!rowVars, API!chainVars, chainVars, BeforeStays
<1>4. API!TypeOK'
  BY <1>2, <1>3 DEF API!TypeOK, API!vars, API!rowVars, API!chainVars
<1>5. \A t \in Slots : At(handler[t])'
  BY <1>1
<1>6. before' = [payoutStatus |-> before'.payoutStatus, caseStatus |-> before'.caseStatus,
               payoutRef |-> before'.payoutRef, infoRequestCount |-> before'.infoRequestCount,
               unanswered |-> before'.unanswered, overdue |-> before'.overdue,
               replied |-> before'.replied, lateEvidence |-> before'.lateEvidence,
               decisions |-> before'.decisions, executed |-> before'.executed,
               jobs |-> before'.jobs]
  BY <1>1 DEF SerialStep, ShadowFits
<1>7. ShadowFits'
  BY <1>1, <1>4, <1>5, <1>6 DEF ShadowFits
<1> QED BY <1>3, <1>7 DEF Follows

LEMMA Lands ==
  ASSUME SerialStep, NEW s \in Slots, NEW h, handler' = [handler EXCEPT ![s] = h],
         h.op \in {"idle", "tick"}
  PROVE  (\A t \in Slots : t = s /\ handler'[t] = h) /\ AtRest' /\ before' = Rows'
<1>1. \A t \in Slots : t = s /\ handler'[t] = h
  BY DEF SerialStep, OneAtATime, StepsInv, StepsTypeOK
<1>2. AtRest'
  BY <1>1 DEF AtRest
<1> QED BY <1>1, <1>2 DEF SerialStep, SerialNext

LEMMA RestsAgain ==
  ASSUME SerialStep, NEW s \in Slots, NEW h, handler' = [handler EXCEPT ![s] = h],
         h.op \in {"idle", "tick"}, h.op = "tick" => TickAt(h)', Numbered'
  PROVE  ShadowFits'
<1>1. (\A t \in Slots : t = s /\ handler'[t] = h) /\ AtRest' /\ before' = Rows'
  BY Lands
<1>2. TypeOK'
  BY DEF SerialStep, StepsInv, StepsTypeOK
<1>3. Untouched' /\ before'.overdue = overdue'
  BY <1>1 DEF Rows, Untouched
<1>4. API!TypeOK'
  <2>1. /\ API!CaseStatus = CaseStatus /\ API!PaymentStatus = PaymentStatus
        /\ API!NoCase = NoCase /\ API!Parties = Parties
        /\ API!AnchorJobKind = AnchorJobKind /\ API!Refunds = Refunds
        /\ API!DecisionOutcome = DecisionOutcome
    BY DEF API!CaseStatus, CaseStatus, API!PaymentStatus, PaymentStatus, API!NoCase, NoCase,
       API!Parties, Parties, API!AnchorJobKind, AnchorJobKind, API!Refunds, Refunds,
       API!DecisionOutcome, DecisionOutcome
  <2> QED BY <1>2, <1>3, <2>1 DEF Untouched, API!TypeOK, TypeOK
<1>5. Untouched'
  BY <1>3
<1>6. At(h)'
  BY <1>5 DEF At
<1>7. \A t \in Slots : At(handler[t])'
  BY <1>1, <1>6
<1> QED BY <1>1, <1>3, <1>4, <1>5, <1>7 DEF ShadowFits, Rows

-----------------------------------------------------------------------------
(* Calls: what a handler has loaded is what DisputeApi's rows say.           *)

LEMMA CallGoesOn ==
  ASSUME SerialStep, NEW s \in Slots, NEW h, Call(s, h), h.op \notin {"idle", "tick"},
         Untouched => (Untouched' => At(h)')
  PROVE  Follows
<1>1. /\ handler' = [handler EXCEPT ![s] = h] /\ handler[s] = Idle
      /\ UNCHANGED <<chainVars, dbVars, overdue>>
  BY DEF Call, dbVars, rowVars
<1>2. BeforeStays
  BY <1>1, MidAir
<1>3. Untouched
  <2>1. \A t \in Slots : t = s
    BY DEF SerialStep, OneAtATime
  <2>2. AtRest
    BY <1>1, <2>1 DEF AtRest, Idle
  <2> QED BY <2>2 DEF SerialStep, ShadowFits, Untouched
<1>4. Untouched'
  BY <1>1, <1>2, <1>3 DEF Untouched, BeforeStays, dbVars, rowVars
<1>5. Numbered'
  BY <1>1, NumberedStays DEF SerialStep, ShadowFits, StepsInv, StepsTypeOK, dbVars, rowVars
<1> QED BY <1>1, <1>3, <1>4, <1>5, GoesOn

LEMMA OpenDisputeLoadFollows ==
  ASSUME SerialStep, NEW s \in Slots, NEW p \in Payments, OpenDisputeLoad(s, p)
  PROVE  Follows
<1>1. PICK h : h = [Idle EXCEPT !.op = "openDispute", !.pc = "check", !.p = p,
                             !.pst = payoutStatus[p]]
  OBVIOUS
<1>2. Call(s, h) /\ h.op = "openDispute" /\ h.pc = "check" /\ h.p = p /\ h.pst = payoutStatus[p]
  BY <1>1, IdleFits DEF OpenDisputeLoad, Idle
<1>3. payoutStatus' = payoutStatus
  BY <1>2 DEF Call, dbVars
<1>4. ASSUME Untouched' PROVE At(h)'
  BY <1>2, <1>3, <1>4 DEF At, OpenDisputeAt, Untouched
<1> QED BY <1>2, <1>4, CallGoesOn

LEMMA SubmitResponseLoadFollows ==
  ASSUME SerialStep, NEW s \in Slots, NEW c \in CaseIds, NEW author \in Authors,
         NEW withEvidence \in BOOLEAN, SubmitResponseLoad(s, c, author, withEvidence)
  PROVE  Follows
<1> DEFINE target == ResponderTarget(author)
<1>1. PICK h : h = [Idle EXCEPT !.op = "submitResponse", !.pc = "create", !.c = c,
                !.st = caseStatus[c], !.ver = version[c], !.yes = withEvidence,
                !.arg = IF target \in unanswered[c] THEN target ELSE "none"]
  OBVIOUS
<1>2. /\ Call(s, h) /\ h.op = "submitResponse" /\ h.pc = "create" /\ h.c = c
      /\ h.st = caseStatus[c] /\ h.ver = version[c]
      /\ h.arg = IF target \in unanswered[c] THEN target ELSE "none"
  BY <1>1, IdleFits DEF SubmitResponseLoad, Idle
<1>3. UNCHANGED <<caseStatus, unanswered, version>>
  BY <1>2 DEF Call, dbVars, rowVars
<1>4. ASSUME Untouched' PROVE At(h)'
  BY <1>2, <1>3, <1>4 DEF At, SubmitResponseAt, Untouched
<1> QED BY <1>2, <1>4, CallGoesOn

LEMMA AttachEvidenceLoadFollows ==
  ASSUME SerialStep, NEW s \in Slots, NEW c \in CaseIds, AttachEvidenceLoad(s, c)
  PROVE  Follows
<1>1. PICK h : h = [Idle EXCEPT !.op = "attachEvidence", !.pc = "file", !.c = c]
  OBVIOUS
<1>2. Call(s, h) /\ h.op = "attachEvidence" /\ h.c = c /\ caseStatus[c] # "CLOSED"
  BY <1>1 DEF AttachEvidenceLoad, Idle
<1>3. UNCHANGED caseStatus
  BY <1>2 DEF Call, dbVars
<1>4. ASSUME Untouched' PROVE At(h)'
  BY <1>2, <1>3, <1>4 DEF At, AttachEvidenceAt
<1> QED BY <1>2, <1>4, CallGoesOn

LEMMA RequestInfoLoadFollows ==
  ASSUME SerialStep, NEW s \in Slots, NEW c \in CaseIds, NEW target \in Parties,
         RequestInfoLoad(s, c, target)
  PROVE  Follows
<1>1. PICK h : h = [Idle EXCEPT !.op = "requestInfo", !.pc = "save", !.c = c, !.arg = target,
                          !.st = caseStatus[c], !.n = infoRequestCount[c]]
  OBVIOUS
<1>2. /\ Call(s, h) /\ h.op = "requestInfo" /\ h.c = c
      /\ h.st = caseStatus[c] /\ h.n = infoRequestCount[c]
  BY <1>1 DEF RequestInfoLoad, Idle
<1>3. UNCHANGED <<caseStatus, infoRequestCount>>
  BY <1>2 DEF Call, dbVars, rowVars
<1>4. ASSUME Untouched' PROVE At(h)'
  BY <1>2, <1>3, <1>4 DEF At, RequestInfoAt
<1> QED BY <1>2, <1>4, CallGoesOn

LEMMA RecordDecisionLoadFollows ==
  ASSUME SerialStep, NEW s \in Slots, NEW c \in CaseIds, NEW outcome \in DecisionOutcome,
         RecordDecisionLoad(s, c, outcome)
  PROVE  Follows
<1>1. PICK h : h = [Idle EXCEPT !.op = "recordDecision", !.pc = "payout", !.c = c,
                                !.arg = outcome, !.p = payoutRef[c]]
  OBVIOUS
<1>2. /\ Call(s, h) /\ h.op = "recordDecision" /\ h.pc = "payout" /\ h.c = c
      /\ h.arg = outcome /\ h.p = payoutRef[c]
      /\ ReviewThen(caseStatus[c], infoRequestCount[c], "decision_recorded") # Illegal
  BY <1>1 DEF RecordDecisionLoad, Idle
<1>3. UNCHANGED <<caseStatus, infoRequestCount, payoutRef>>
  BY <1>2 DEF Call, dbVars, rowVars
<1>4. ASSUME Untouched' PROVE At(h)'
  BY <1>2, <1>3, <1>4 DEF At, RecordDecisionAt, Untouched, Enqueueing
<1> QED BY <1>2, <1>4, CallGoesOn

LEMMA StampRefundTxLoadFollows ==
  ASSUME SerialStep, NEW s \in Slots, NEW c \in CaseIds, StampRefundTxLoad(s, c)
  PROVE  Follows
<1>1. PICK h : h = [Idle EXCEPT !.op = "stampRefundTx", !.pc = "stamp", !.c = c,
                                !.p = payoutRef[c]]
  OBVIOUS
<1>2. Call(s, h) /\ h.op = "stampRefundTx" /\ h.pc = "stamp"
  BY <1>1 DEF StampRefundTxLoad, Idle
<1>4. ASSUME Untouched' PROVE At(h)'
  BY <1>2, <1>4 DEF At, StampRefundTxAt, Untouched
<1> QED BY <1>2, <1>4, CallGoesOn

LEMMA ConfirmRefundLoadFollows ==
  ASSUME SerialStep, NEW s \in Slots, NEW p \in Payments, NEW debtRecorded \in BOOLEAN,
         ConfirmRefundLoad(s, p, debtRecorded)
  PROVE  Follows
<1> DEFINE to == RefundedStatus(payoutStatus[p], debtRecorded)
<1>1. PICK h : h = [Idle EXCEPT !.op = "confirmRefund", !.pc = "savePayout", !.p = p, !.pst = to]
  OBVIOUS
<1>2. /\ Call(s, h) /\ h.op = "confirmRefund" /\ h.pc = "savePayout" /\ h.p = p
      /\ h.pst = to /\ to # Illegal
  BY <1>1 DEF ConfirmRefundLoad, Idle
<1>3. UNCHANGED payoutStatus
  BY <1>2 DEF Call, dbVars
<1>4. ASSUME Untouched' PROVE At(h)'
  BY <1>2, <1>3, <1>4 DEF At, ConfirmRefundAt, Untouched
<1> QED BY <1>2, <1>4, CallGoesOn

LEMMA PayoutHookLoadFollows ==
  ASSUME SerialStep, NEW s \in Slots, NEW p \in Payments, NEW to, PayoutHookLoad(s, p, to),
         \/ chainWithdrawn[p] /\ to = WithdrawnStatus(payoutStatus[p])
         \/ to = ApplyPaymentEvent(payoutStatus[p], LockupEvent(payoutStatus[p]))
         \/ to = ApplyPaymentEvent(payoutStatus[p], "next_payment_absorbs_debt")
  PROVE  Follows
<1>1. PICK h : h = [Idle EXCEPT !.op = "payoutHook", !.pc = "savePayout", !.p = p, !.pst = to]
  OBVIOUS
<1>2. Call(s, h) /\ h.op = "payoutHook" /\ h.p = p /\ h.pst = to /\ to # Illegal
  BY <1>1 DEF PayoutHookLoad, Idle
<1>3. UNCHANGED <<payoutStatus, chainWithdrawn>>
  BY <1>2 DEF Call, dbVars, chainVars
<1>4. ASSUME Untouched' PROVE At(h)'
  BY <1>2, <1>3, <1>4 DEF At, PayoutHookAt
<1> QED BY <1>2, <1>4, CallGoesOn

LEMMA DeadlinePassedLoadFollows ==
  ASSUME SerialStep, NEW s \in Slots, NEW c \in CaseIds, DeadlinePassedLoad(s, c)
  PROVE  Follows
<1> DEFINE to == ApplyCaseEvent(caseStatus[c], infoRequestCount[c], "deadline_passed")
<1>1. PICK h : h = [Idle EXCEPT !.op = "deadlinePassed", !.pc = "saveCase", !.c = c, !.st = to]
  OBVIOUS
<1>2. Call(s, h) /\ h.op = "deadlinePassed" /\ h.c = c /\ h.st = to /\ to # Illegal
  BY <1>1 DEF DeadlinePassedLoad, Idle
<1>3. UNCHANGED <<caseStatus, infoRequestCount>>
  BY <1>2 DEF Call, dbVars, rowVars
<1>4. ASSUME Untouched' PROVE At(h)'
  BY <1>2, <1>3, <1>4 DEF At, DeadlinePassedAt
<1> QED BY <1>2, <1>4, CallGoesOn

LEMMA SchedulerFindFollows ==
  ASSUME SerialStep, NEW s \in Slots, SchedulerFind(s)
  PROVE  Follows
<1> DEFINE due == {c \in overdue : caseStatus[c] = "AWAITING_RESPONSE"}
<1>1. PICK h : h = [Idle EXCEPT !.op = "tick", !.pc = "tick", !.due = due]
  OBVIOUS
<1>2. Call(s, h) /\ h.op = "tick" /\ h.due = due
  BY <1>1 DEF SchedulerFind, Idle
<1>3. /\ handler' = [handler EXCEPT ![s] = h] /\ handler[s] = Idle
      /\ UNCHANGED <<chainVars, dbVars>>
  BY <1>2 DEF Call
<1>4. before' = Rows' /\ (\A t \in Slots : t = s)
  BY <1>2, <1>3, Lands
<1>5. Untouched'
  BY <1>4 DEF Rows, Untouched
<1>6. TickAt(h)'
  BY <1>2, <1>3, <1>5 DEF TickAt, dbVars, rowVars
<1>7. Numbered'
  BY <1>3, NumberedStays DEF SerialStep, ShadowFits, StepsInv, StepsTypeOK, dbVars, rowVars
<1>8. ShadowFits'
  BY <1>2, <1>3, <1>6, <1>7, RestsAgain
<1>9. AtRest
  BY <1>3, <1>4 DEF AtRest, Idle
<1>10. Untouched /\ before.overdue = overdue
  BY <1>9 DEF SerialStep, ShadowFits
<1>11. UNCHANGED API!vars
  BY <1>3, <1>4, <1>10 DEF API!vars, API!rowVars, API!chainVars, chainVars, dbVars, rowVars, Rows,
     Untouched
<1> QED BY <1>8, <1>11 DEF Follows

LEMMA StartFollows == ASSUME SerialStep, NEW s \in Slots, Start(s) PROVE Follows
BY OpenDisputeLoadFollows, SubmitResponseLoadFollows, AttachEvidenceLoadFollows,
   RequestInfoLoadFollows, RecordDecisionLoadFollows, StampRefundTxLoadFollows,
   ConfirmRefundLoadFollows, PayoutHookLoadFollows, DeadlinePassedLoadFollows,
   SchedulerFindFollows DEF Start, ConfirmWithdrawnLoad, LockupEndedLoad, DebtSettledLoad

-----------------------------------------------------------------------------
(* Steps from await to await.                                                *)

LEMMA HandlerAt ==
  ASSUME SerialStep, NEW s \in Slots
  PROVE  /\ At(handler[s]) /\ Fits(handler[s]) /\ handler[s] \in Handlers
         /\ before.overdue = overdue /\ TypeOK /\ TypeOK' /\ API!TypeOK
BY InTheAir DEF SerialStep, ShadowFits, StepsInv, StepsTypeOK

LEMMA ResumeGoesOn ==
  ASSUME SerialStep, NEW s \in Slots, NEW h, Continue(s, h), h.op \notin {"idle", "tick"},
         UNCHANGED <<payoutRef, overdue>>, BeforeStays => At(h)'
  PROVE  Follows
<1>1. handler' = [handler EXCEPT ![s] = h] /\ UNCHANGED chainVars
  BY DEF Continue
<1>2. BeforeStays
  BY <1>1, MidAir
<1>3. Numbered'
  BY NumberedStays DEF SerialStep, ShadowFits, StepsInv, StepsTypeOK
<1> QED BY <1>1, <1>2, <1>3, GoesOn

LEMMA Returns ==
  ASSUME SerialStep, NEW s \in Slots, Return(s), UNCHANGED payoutRef
  PROVE  ShadowFits' /\ before' = Rows' /\ UNCHANGED chainVars
<1>1. handler' = [handler EXCEPT ![s] = Idle] /\ UNCHANGED chainVars
  BY DEF Return, Continue
<1>2. PICK h : h = Idle
  OBVIOUS
<1>3. h.op = "idle" /\ handler' = [handler EXCEPT ![s] = h]
  BY <1>1, <1>2 DEF Idle
<1>4. Numbered'
  BY NumberedStays DEF SerialStep, ShadowFits, StepsInv, StepsTypeOK
<1> QED BY <1>1, <1>3, <1>4, Lands, RestsAgain

(* A handler that refuses what it was asked has changed nothing.            *)
LEMMA ReturnsInVain ==
  ASSUME SerialStep, NEW s \in Slots, Return(s), Untouched, UNCHANGED dbVars
  PROVE  Follows
<1>1. ShadowFits' /\ before' = Rows' /\ UNCHANGED chainVars
  BY Returns DEF dbVars, rowVars
<1>2. before.overdue = overdue
  BY DEF SerialStep, ShadowFits
<1>3. UNCHANGED API!vars
  BY <1>1, <1>2 DEF API!vars, API!rowVars, API!chainVars, chainVars, dbVars, rowVars, Rows,
     Untouched
<1> QED BY <1>1, <1>3 DEF Follows

LEMMA OpenDisputeCheckFollows ==
  ASSUME SerialStep, NEW s \in Slots, OpenDisputeCheck(s)
  PROVE  Follows
<1> DEFINE g  == handler[s]
           to == ApplyPaymentEvent(g.pst, "dispute_opened")
<1>1. /\ g.op = "openDispute" /\ g.pc = "check" /\ UNCHANGED dbVars
      /\ IF OpenCasesOn(g.p) = {} /\ to # Illegal
         THEN Continue(s, [g EXCEPT !.pst = to, !.pc = "savePayout"]) ELSE Return(s)
  BY DEF OpenDisputeCheck, Runs
<1>2. Untouched /\ g.pst = before.payoutStatus[g.p] /\ g \in Handlers
  BY <1>1, HandlerAt DEF At, OpenDisputeAt, Untouched
<1>3. CASE OpenCasesOn(g.p) = {} /\ to # Illegal
  <2>1. PICK h : h = [g EXCEPT !.pst = to, !.pc = "savePayout"]
    OBVIOUS
  <2>2. /\ h.op = "openDispute" /\ h.pc = "savePayout" /\ h.p = g.p /\ h.pst = to
        /\ Continue(s, h)
    BY <1>1, <1>2, <1>3, <2>1 DEF Handlers
  <2>3. API!OpenCasesOn(g.p) = {}
    BY <1>2, <1>3 DEF Untouched, OpenCasesOn, API!OpenCasesOn, IsOpen, API!IsOpen, NoCase,
       API!NoCase
  <2>4. ASSUME BeforeStays PROVE At(h)'
    <3>1. (API!OpenCasesOn(h.p))' = {}
      BY <2>2, <2>3, <2>4 DEF BeforeStays, API!OpenCasesOn, API!IsOpen
    <3>2. Untouched'
      BY <1>1, <1>2, <2>4 DEF BeforeStays, Untouched, dbVars, rowVars
    <3> QED BY <1>2, <1>3, <2>2, <2>4, <3>1, <3>2 DEF At, OpenDisputeAt, Untouched, BeforeStays
  <2>5. UNCHANGED <<payoutRef, overdue>>
    BY <1>1 DEF dbVars, rowVars
  <2> QED BY <2>2, <2>4, <2>5, ResumeGoesOn
<1>4. CASE ~ (OpenCasesOn(g.p) = {} /\ to # Illegal)
  BY <1>1, <1>2, <1>4, ReturnsInVain
<1> QED BY <1>3, <1>4

(* What openDispute relies on once it has checked.                          *)
LEMMA OpenDisputeChecked ==
  ASSUME SerialStep, NEW s \in Slots, NEW g, g = handler[s], g.op = "openDispute", g.pc # "check"
  PROVE  /\ API!OpenCasesOn(g.p) = {} /\ g.pst # Illegal
         /\ g.pst = ApplyPaymentEvent(before.payoutStatus[g.p], "dispute_opened")
         /\ BeforeStays => (API!OpenCasesOn(g.p))' = {}
         /\ OpenDisputeAt(g)
<1>1. OpenDisputeAt(g)
  BY HandlerAt DEF At
<1> QED BY <1>1 DEF OpenDisputeAt, BeforeStays, API!OpenCasesOn, API!IsOpen

LEMMA OpenDisputeSavesPayout ==
  ASSUME SerialStep, NEW s \in Slots, SavePayout(s), handler[s].op = "openDispute"
  PROVE  Follows
<1>0. PICK g : g = handler[s]
  OBVIOUS
<1>1. PICK h : h = [g EXCEPT !.pc = "number"]
  OBVIOUS
<1>2. /\ g.op = "openDispute" /\ g.pc = "savePayout"
      /\ payoutStatus' = [payoutStatus EXCEPT ![g.p] = g.pst]
      /\ UNCHANGED <<caseStatus, rowVars, decisions, executed, jobs>>
      /\ Continue(s, h)
  BY <1>0, <1>1 DEF SavePayout, AfterPayoutSaved, ContinueAt
<1>3. /\ g \in Handlers /\ h.op = "openDispute" /\ h.pc = "number" /\ h.p = g.p /\ h.pst = g.pst
  BY <1>0, <1>1, <1>2, HandlerAt DEF Handlers
<1>4. ASSUME BeforeStays PROVE At(h)'
  <2>1. OpenDisputeAt(g) /\ (API!OpenCasesOn(g.p))' = {}
    BY <1>0, <1>2, <1>4, OpenDisputeChecked
  <2> QED BY <1>2, <1>3, <1>4, <2>1 DEF At, OpenDisputeAt, BeforeStays, rowVars
<1> QED BY <1>2, <1>3, <1>4, ResumeGoesOn DEF rowVars

LEMMA NextCaseNumberFollows ==
  ASSUME SerialStep, NEW s \in Slots, NextCaseNumber(s)
  PROVE  Follows
<1>0. PICK g : g = handler[s]
  OBVIOUS
<1>1. PICK h : h = [g EXCEPT !.c = Cardinality(Existing) + 1, !.pc = "create"]
  OBVIOUS
<1>2. g.op = "openDispute" /\ g.pc = "number" /\ UNCHANGED dbVars /\ Continue(s, h)
  BY <1>0, <1>1 DEF NextCaseNumber, Runs
<1>3. /\ g \in Handlers /\ h.op = "openDispute" /\ h.pc = "create" /\ h.p = g.p /\ h.pst = g.pst
      /\ h.c = Cardinality(Existing) + 1
  BY <1>0, <1>1, <1>2, HandlerAt DEF Handlers
<1>4. Existing = 1..(h.c - 1)
  <2>1. PICK n \in 0..MaxCases : Existing = 1..n
    BY DEF SerialStep, ShadowFits, Numbered
  <2>2. n \in Nat /\ Cardinality(Existing) = n
    <3>1. n \in Nat
      BY CaseIdsAssumption
    <3> QED BY <2>1, <3>1, FS_Interval
  <2> QED BY <1>3, <2>1, <2>2
<1>5. Existing' = Existing
  BY <1>2 DEF Existing, Exists, dbVars
<1>6. ASSUME BeforeStays PROVE At(h)'
  <2>1. OpenDisputeAt(g) /\ (API!OpenCasesOn(g.p))' = {}
    BY <1>0, <1>2, <1>6, OpenDisputeChecked
  <2> QED BY <1>2, <1>3, <1>4, <1>5, <1>6, <2>1 DEF At, OpenDisputeAt, BeforeStays, dbVars, rowVars
<1> QED BY <1>2, <1>3, <1>6, ResumeGoesOn DEF dbVars, rowVars

LEMMA CreateCaseFollows ==
  ASSUME SerialStep, NEW s \in Slots, CreateCase(s)
  PROVE  Follows
<1>0. PICK g : g = handler[s]
  OBVIOUS
<1>1. PICK h : h = [g EXCEPT !.pc = "serve"]
  OBVIOUS
<1>2. g.op = "openDispute" /\ g.pc = "create"
  BY <1>0 DEF CreateCase, Runs
<1>3. /\ g \in Handlers /\ h.op = "openDispute" /\ h.pc = "serve" /\ h.p = g.p /\ h.pst = g.pst
      /\ h.c = g.c /\ g.c \in CaseIds
  BY <1>0, <1>1, <1>2, HandlerAt DEF Handlers, Fits, OpenDisputeFits
<1>4. Existing = 1..(g.c - 1) /\ OpenDisputeAt(g)
  BY <1>0, <1>2, OpenDisputeChecked DEF OpenDisputeAt
<1>5. ~ Exists(g.c) /\ decisions[g.c] = <<>>
  <2>1. ~ Exists(g.c)
    BY <1>3, <1>4, CaseIdsAssumption DEF Existing
  <2>2. TypeOK /\ DecisionsHaveCases
    BY HandlerAt DEF SerialStep
  <2> QED BY <1>3, <2>1, <2>2 DEF TypeOK, Exists, DecisionsHaveCases
<1>6. /\ caseStatus' = [caseStatus EXCEPT ![g.c] = "OPEN"]
      /\ payoutRef' = [payoutRef EXCEPT ![g.c] = g.p]
      /\ Continue(s, h)
      /\ UNCHANGED <<payoutStatus, infoRequestCount, unanswered, overdue, replied,
                           lateEvidence, decisions, executed, jobs>>
  BY <1>0, <1>1, <1>5 DEF CreateCase, ContinueAt
<1>7. handler' = [handler EXCEPT ![s] = h] /\ UNCHANGED chainVars
  BY <1>6 DEF Continue
<1>8. BeforeStays
  BY <1>3, <1>7, MidAir
<1>9. At(h)'
  <2>1. (API!OpenCasesOn(g.p))' = {}
    BY <1>0, <1>2, <1>8, OpenDisputeChecked
  <2> QED BY <1>2, <1>3, <1>4, <1>5, <1>6, <1>8, <2>1
          DEF At, OpenDisputeAt, BeforeStays, Exists
<1>10. Numbered'
  <2>1. caseStatus \in [CaseIds -> CaseStatus \cup {NoCase}]
    BY HandlerAt DEF TypeOK
  <2>2. Existing' = Existing \cup {g.c}
    BY <1>3, <1>6, <2>1 DEF Existing, Exists, NoCase
  <2>3. g.c \in 1..MaxCases /\ MaxCases \in Nat
    BY <1>3, CaseIdsAssumption
  <2>4. Existing' = 1..g.c
    BY <1>4, <2>2, <2>3
  <2> QED BY <2>3, <2>4 DEF Numbered
<1> QED BY <1>3, <1>6, <1>7, <1>9, <1>10, GoesOn

(* The case was opened: with the job for the registry, or without it.        *)
LEMMA OpenDisputeIsDone ==
  ASSUME SerialStep, NEW g, g.p \in Payments, g.c \in CaseIds, OpenDisputeAt(g),
         g.pc \in {"serve", "enqueue"},
         caseStatus' = [before.caseStatus EXCEPT ![g.c] = "AWAITING_RESPONSE"],
         jobs' = [before.jobs EXCEPT ![g.c] = @ \o Opening(g.c)],
         UNCHANGED <<payoutStatus, rowVars, decisions, executed>>,
         ShadowFits', before' = Rows', UNCHANGED chainVars, before.overdue = overdue
  PROVE  Follows
<1>1. API!OpenCasesOn(g.p) = {} /\ before.caseStatus[g.c] = NoCase /\ g.pst # Illegal
      /\ g.pst = ApplyPaymentEvent(before.payoutStatus[g.p], "dispute_opened")
  BY DEF OpenDisputeAt
<1>2. API!Opening(g.c) = Opening(g.c)
  BY DEF API!Opening, Opening
<1>3. API!OpenDispute(g.p, g.c)
  BY <1>1, <1>2, SameTables, NoticeServed
  DEF OpenDisputeAt, Rows, rowVars, API!OpenDispute, API!MovePayout, API!MoveCase,
      API!enqueueAnchor, API!chainVars, chainVars, Illegal
<1> QED BY <1>3 DEF Follows, API!Next

LEMMA ServeNoticeFollows ==
  ASSUME SerialStep, NEW s \in Slots, ServeNotice(s)
  PROVE  Follows
<1>0. PICK g : g = handler[s]
  OBVIOUS
<1>1. PICK h : h = [g EXCEPT !.todo = <<"case">>, !.pc = "enqueue"]
  OBVIOUS
<1>2. /\ g.op = "openDispute" /\ g.pc = "serve"
      /\ IF g.c \in NotANumber THEN Return(s) ELSE Continue(s, h)
      /\ caseStatus' = [caseStatus EXCEPT ![g.c] = "AWAITING_RESPONSE"]
      /\ UNCHANGED <<payoutStatus, rowVars, decisions, executed, jobs>>
  BY <1>0, <1>1, NoticeServed DEF ServeNotice, Runs, MoveCase, Opening
<1>3. /\ g \in Handlers /\ h.op = "openDispute" /\ h.pc = "enqueue" /\ h.p = g.p /\ h.pst = g.pst
      /\ h.c = g.c
  BY <1>0, <1>1, <1>2, HandlerAt DEF Handlers
<1>4. OpenDisputeAt(g)
  BY <1>0, <1>2, OpenDisputeChecked
<1>5. caseStatus' = [before.caseStatus EXCEPT ![g.c] = "AWAITING_RESPONSE"]
  BY <1>2, <1>4 DEF OpenDisputeAt
<1>6. CASE g.c \notin NotANumber
  <2>1. ASSUME BeforeStays PROVE At(h)'
    <3>1. (API!OpenCasesOn(g.p))' = {}
      BY <1>0, <1>2, <2>1, OpenDisputeChecked
    <3> QED BY <1>2, <1>3, <1>4, <1>5, <2>1, <3>1 DEF At, OpenDisputeAt, BeforeStays, rowVars
  <2> QED BY <1>2, <1>3, <1>6, <2>1, ResumeGoesOn DEF rowVars
<1>7. CASE g.c \in NotANumber
  <2>1. ShadowFits' /\ before' = Rows' /\ UNCHANGED chainVars /\ before.overdue = overdue
    BY <1>2, <1>7, Returns, HandlerAt DEF rowVars
  <2>2. g.p \in Payments /\ g.c \in CaseIds
    BY <1>0, <1>2, HandlerAt DEF Fits, OpenDisputeFits, Loaded
  <2>3. jobs \in [CaseIds -> Seq(AnchorJobKind)]
    BY HandlerAt DEF TypeOK
  <2>4. Opening(g.c) = <<>> /\ jobs[g.c] \o <<>> = jobs[g.c]
    BY <1>7, <2>2, <2>3, ConcatEmptySeq DEF Opening
  <2>5. jobs' = [before.jobs EXCEPT ![g.c] = @ \o Opening(g.c)]
    BY <1>2, <1>4, <2>3, <2>4 DEF OpenDisputeAt, SameJobs
  <2> QED BY <1>2, <1>4, <1>5, <2>1, <2>2, <2>5, OpenDisputeIsDone
<1> QED BY <1>6, <1>7

LEMMA OpenDisputeLands ==
  ASSUME SerialStep, NEW s \in Slots, EnqueueAnchor(s), handler[s].op = "openDispute"
  PROVE  Follows
<1>0. PICK g : g = handler[s]
  OBVIOUS
<1>1. g.op = "openDispute" /\ g.pc = "enqueue" /\ g.todo = <<"case">> /\ OpenDisputeAt(g)
      /\ g.p \in Payments /\ g.c \in CaseIds /\ g.c \notin NotANumber
  BY <1>0, HandlerAt DEF EnqueueAnchor, Fits, OpenDisputeFits, At, Loaded
<1>2. /\ Return(s) /\ jobs' = [jobs EXCEPT ![g.c] = @ \o <<"case">>]
      /\ UNCHANGED <<payoutStatus, caseStatus, rowVars, version, decisions, executed>>
  BY <1>0, <1>1, Todos DEF EnqueueAnchor, enqueueAnchor
<1>3. ShadowFits' /\ before' = Rows' /\ UNCHANGED chainVars /\ before.overdue = overdue
  BY <1>2, Returns, HandlerAt DEF rowVars
<1>4. /\ caseStatus' = [before.caseStatus EXCEPT ![g.c] = "AWAITING_RESPONSE"]
      /\ jobs' = [before.jobs EXCEPT ![g.c] = @ \o Opening(g.c)]
  BY <1>1, <1>2 DEF OpenDisputeAt, SameJobs, Opening
<1> QED BY <1>1, <1>2, <1>3, <1>4, OpenDisputeIsDone

-----------------------------------------------------------------------------
(* submitResponse, attachEvidence and requestInfo.                           *)

LEMMA CreateResponseFollows ==
  ASSUME SerialStep, NEW s \in Slots, CreateResponse(s)
  PROVE  Follows
<1>0. PICK g : g = handler[s]
  OBVIOUS
<1>1. PICK h : h = [g EXCEPT !.pc = IF g.yes THEN "evidence" ELSE "save"]
  OBVIOUS
<1>2. /\ g.op = "submitResponse" /\ g.pc = "create" /\ Continue(s, h)
      /\ replied' = [replied EXCEPT ![g.c] = TRUE]
      /\ UNCHANGED <<payoutStatus, caseStatus, payoutRef, infoRequestCount, unanswered,
                     overdue, lateEvidence, version, decisions, executed, jobs>>
  BY <1>0, <1>1 DEF CreateResponse, Runs, ContinueAt
<1>3. /\ g \in Handlers /\ h.op = "submitResponse" /\ h.pc = IF g.yes THEN "evidence" ELSE "save"
      /\ h.c = g.c /\ h.st = g.st /\ h.ver = g.ver /\ h.yes = g.yes /\ h.arg = g.arg
  BY <1>0, <1>1, <1>2, HandlerAt DEF Handlers
<1>4. ASSUME BeforeStays PROVE At(h)'
  <2>1. SubmitResponseAt(g)
    BY <1>0, <1>2, HandlerAt DEF At
  <2> QED BY <1>2, <1>3, <1>4, <2>1, ZenonT(30) DEF At, SubmitResponseAt, BeforeStays, Handlers
<1> QED BY <1>2, <1>3, <1>4, ResumeGoesOn

(* The status a reply leaves.                                               *)
Replied(st) ==
  IF ApplyCaseEvent(st, 0, "reply_received") = Illegal
  THEN st ELSE ApplyCaseEvent(st, 0, "reply_received")

LEMMA RepliesCountNothing ==
  ASSUME NEW st, NEW n
  PROVE  ApplyCaseEvent(st, n, "reply_received") = ApplyCaseEvent(st, 0, "reply_received")
BY DEF ApplyCaseEvent

LEMMA AttachInResponseFollows ==
  ASSUME SerialStep, NEW s \in Slots, AttachInResponse(s)
  PROVE  Follows
<1>0. PICK g : g = handler[s]
  OBVIOUS
<1>1. /\ g.op = "submitResponse" /\ g.pc = "evidence" /\ UNCHANGED dbVars
      /\ SubmitResponseAt(g) /\ g \in Handlers /\ g.c \in CaseIds
  BY <1>0, HandlerAt DEF AttachInResponse, Runs, At, Fits, SubmitResponseFits, Loaded
<1>2. g.st = caseStatus[g.c] /\ caseStatus = before.caseStatus
  BY <1>1 DEF SubmitResponseAt
<1>3. CASE caseStatus[g.c] = "CLOSED"
  <2>1. Return(s)
    BY <1>0, <1>3 DEF AttachInResponse
  <2>2. ShadowFits' /\ before' = Rows' /\ UNCHANGED chainVars /\ before.overdue = overdue
    BY <1>1, <2>1, Returns, HandlerAt DEF dbVars, rowVars
  <2>3. API!SubmitResponseRefused(g.c)
    BY <1>1, <1>3, <2>2 DEF SubmitResponseAt, API!SubmitResponseRefused, Rows, dbVars, rowVars,
       API!chainVars, chainVars
  <2> QED BY <1>1, <2>2, <2>3 DEF Follows, API!Next
<1>4. CASE caseStatus[g.c] # "CLOSED"
  <2>1. PICK h : h = [g EXCEPT !.pc = "file"]
    OBVIOUS
  <2>2. /\ Continue(s, h) /\ h.op = "submitResponse" /\ h.pc = "file" /\ h.c = g.c /\ h.st = g.st
        /\ h.ver = g.ver /\ h.yes = g.yes /\ h.arg = g.arg
    BY <1>0, <1>1, <1>4, <2>1 DEF AttachInResponse, ContinueAt, Handlers
  <2>3. ASSUME BeforeStays PROVE At(h)'
    BY <1>1, <1>2, <1>4, <2>2, <2>3 DEF At, SubmitResponseAt, BeforeStays, dbVars, rowVars
  <2> QED BY <1>1, <2>2, <2>3, ResumeGoesOn DEF dbVars, rowVars
<1> QED BY <1>3, <1>4

LEMMA CreateEvidenceFollows ==
  ASSUME SerialStep, NEW s \in Slots, CreateEvidence(s)
  PROVE  Follows
<1>0. PICK g : g = handler[s]
  OBVIOUS
<1>1. /\ g.pc = "file" /\ lateEvidence' = FileEvidence(g.c)
      /\ UNCHANGED <<payoutStatus, caseStatus, payoutRef, infoRequestCount, unanswered,
                     overdue, replied, version, decisions, executed, jobs>>
      /\ At(g) /\ Fits(g) /\ g \in Handlers
  BY <1>0, HandlerAt DEF CreateEvidence
<1>2. CASE g.op = "submitResponse"
  <2>1. SubmitResponseAt(g)
    BY <1>1, <1>2 DEF At
  <2>2. PICK h : h = [g EXCEPT !.pc = "save"]
    OBVIOUS
  <2>3. /\ Continue(s, h) /\ h.op = "submitResponse" /\ h.pc = "save" /\ h.c = g.c /\ h.st = g.st
        /\ h.ver = g.ver /\ h.yes = g.yes /\ h.arg = g.arg
    BY <1>0, <1>1, <1>2, <2>2 DEF CreateEvidence, ContinueAt, Handlers
  <2>4. lateEvidence = before.lateEvidence /\ decisions = before.decisions
    BY <1>1, <2>1 DEF SubmitResponseAt
  <2>5. lateEvidence' = API!FileEvidence(g.c)
    BY <1>1, <2>4 DEF FileEvidence, API!FileEvidence
  <2>7. ASSUME BeforeStays PROVE At(h)'
    <3>1. (API!FileEvidence(h.c))' = API!FileEvidence(g.c)
      BY <2>3, <2>7 DEF BeforeStays, API!FileEvidence
    <3> QED BY <1>1, <2>1, <2>3, <2>5, <2>7, <3>1 DEF At, SubmitResponseAt, BeforeStays
  <2> QED BY <1>1, <2>3, <2>7, ResumeGoesOn
<1>3. CASE g.op # "submitResponse"
  <2>1. g.op = "attachEvidence"
    BY <1>1, <1>3 DEF Fits, Handlers, Ops, OpenDisputeFits, RequestInfoFits, RecordDecisionFits,
       StampRefundTxFits, ConfirmRefundFits, PayoutHookFits, DeadlinePassedFits, TickFits
  <2>2. Untouched /\ caseStatus[g.c] \notin {NoCase, "CLOSED"} /\ g.c \in CaseIds
    BY <1>1, <2>1 DEF At, AttachEvidenceAt, Fits, AttachEvidenceFits, Loaded, Exists
  <2>3. Return(s)
    BY <1>0, <1>3 DEF CreateEvidence
  <2>4. ShadowFits' /\ before' = Rows' /\ UNCHANGED chainVars /\ before.overdue = overdue
    BY <1>1, <2>3, Returns, HandlerAt
  <2>5. API!AttachEvidence(g.c)
    BY <1>1, <2>2, <2>4, SameTables DEF Untouched, API!AttachEvidence, Rows, API!FileEvidence,
       FileEvidence, API!chainVars, chainVars
  <2> QED BY <2>2, <2>4, <2>5 DEF Follows, API!Next
<1> QED BY <1>2, <1>3

(* The reply is what DisputeApi makes of the rows it was written to.        *)
LEMMA ReplyIsOne ==
  ASSUME SerialStep, NEW s \in Slots, NEW g, g = handler[s], g.op = "submitResponse",
         g.pc \in {"save", "enqueue"}, ShadowFits', before' = Rows', UNCHANGED chainVars,
         NEW author \in Authors,
         UNCHANGED <<payoutStatus, payoutRef, infoRequestCount, overdue, replied,
                     lateEvidence, decisions, executed>>,
         caseStatus' = [before.caseStatus EXCEPT ![g.c] = Replied(g.st)],
         unanswered' = [before.unanswered EXCEPT ![g.c] = @ \ {ResponderTarget(author)}],
         jobs' = [jobs EXCEPT ![g.c] =
                    @ \o (IF g.st = "AWAITING_RESPONSE" THEN <<"response">> ELSE <<>>)]
  PROVE  Follows
<1>1. /\ SubmitResponseAt(g) /\ g.c \in CaseIds /\ g.st = before.caseStatus[g.c] /\ g.yes \in BOOLEAN
      /\ before.overdue = overdue
  BY HandlerAt DEF At, Fits, SubmitResponseFits, Loaded, SubmitResponseAt, Handlers
<1>2. g.st # NoCase
  <2>1. caseStatus[g.c] # NoCase /\ TypeOK /\ payoutRef = before.payoutRef /\ API!TypeOK
    BY <1>1, HandlerAt DEF Fits, SubmitResponseFits, Loaded, Exists, SubmitResponseAt
  <2>2. payoutRef[g.c] # NoPayout
    BY <1>1, <2>1 DEF TypeOK
  <2> QED BY <1>1, <2>1, <2>2, SameTables DEF API!TypeOK
<1>3. ~ (g.yes /\ g.st = "CLOSED")
  BY <1>1 DEF SubmitResponseAt
<1>4. API!SubmitResponse(g.c, author, g.yes)
  <2>1. Replied(g.st) = LET after == API!ApplyCaseEvent(g.st, before.infoRequestCount[g.c], "reply_received")
                        IN  IF after = API!Illegal THEN g.st ELSE after
    BY SameTables, RepliesCountNothing DEF Replied
  <2>2. lateEvidence' = IF g.yes THEN API!FileEvidence(g.c) ELSE before.lateEvidence
    BY <1>1 DEF SubmitResponseAt
  <2>3. replied' = [before.replied EXCEPT ![g.c] = TRUE]
    BY <1>1 DEF SubmitResponseAt
  <2>4. /\ before'.payoutStatus = before.payoutStatus /\ before'.payoutRef = before.payoutRef
        /\ before'.infoRequestCount = before.infoRequestCount /\ before'.overdue = before.overdue
        /\ before'.decisions = before.decisions /\ before'.executed = before.executed
        /\ before'.replied = replied' /\ before'.caseStatus = caseStatus'
        /\ before'.lateEvidence = lateEvidence' /\ before'.unanswered = unanswered'
        /\ before'.jobs = jobs' /\ jobs = before.jobs
    BY <1>1 DEF SubmitResponseAt, Rows
  <2>5. before.caseStatus[g.c] # API!NoCase /\ ~ (g.yes /\ before.caseStatus[g.c] = "CLOSED")
    BY <1>1, <1>2, <1>3, SameTables
  <2>6. /\ before'.unanswered =
             [before.unanswered EXCEPT ![g.c] = @ \ {API!ResponderTarget(author)}]
        /\ before'.lateEvidence = IF g.yes THEN API!FileEvidence(g.c) ELSE before.lateEvidence
        /\ before'.jobs = [before.jobs EXCEPT ![g.c] =
             @ \o (IF before.caseStatus[g.c] = "AWAITING_RESPONSE" THEN <<"response">> ELSE <<>>)]
    BY <1>1, <2>2, <2>4, SameMoves
  <2>7. before'.caseStatus =
          [before.caseStatus EXCEPT ![g.c] =
             IF API!ApplyCaseEvent(before.caseStatus[g.c], before.infoRequestCount[g.c],
                                   "reply_received") = API!Illegal
             THEN @ ELSE API!ApplyCaseEvent(before.caseStatus[g.c],
                                            before.infoRequestCount[g.c], "reply_received")]
    BY <1>1, <2>1, <2>4, ZenonT(30)
  <2>8. UNCHANGED API!chainVars
    BY DEF API!chainVars, chainVars
  <2> QED BY <2>3, <2>4, <2>5, <2>6, <2>7, <2>8 DEF API!SubmitResponse, API!enqueueAnchor
<1>5. API!Authors = Authors
  BY DEF API!Authors, Authors, API!Parties, Parties
<1> QED BY <1>1, <1>4, <1>5 DEF Follows, API!Next

LEMMA SaveResponseFollows ==
  ASSUME SerialStep, NEW s \in Slots, SaveResponse(s)
  PROVE  Follows
<1>0. PICK g : g = handler[s]
  OBVIOUS
<1> DEFINE after == ApplyCaseEvent(g.st, g.n, "reply_received")
<1>1. /\ g.op = "submitResponse" /\ g.pc = "save" /\ SubmitResponseAt(g)
      /\ g \in Handlers /\ g.c \in CaseIds /\ g.ver = version[g.c]
  BY <1>0, HandlerAt DEF SaveResponse, Runs, At, Fits, SubmitResponseFits, Loaded, SubmitResponseAt
<1>2. /\ caseStatus' = [caseStatus EXCEPT ![g.c] = IF after \in {Illegal, g.st} THEN @ ELSE after]
      /\ unanswered' = [unanswered EXCEPT ![g.c] = @ \ {g.arg}]
      /\ IF g.st = "AWAITING_RESPONSE"
         THEN Continue(s, [g EXCEPT !.todo = <<"response">>, !.pc = "enqueue"])
         ELSE Return(s)
      /\ UNCHANGED <<payoutStatus, payoutRef, infoRequestCount, overdue, replied,
                     lateEvidence, version, decisions, executed, jobs>>
  BY <1>0, <1>1 DEF SaveResponse
<1>3. /\ caseStatus = before.caseStatus /\ unanswered = before.unanswered
      /\ g.st = before.caseStatus[g.c] /\ API!TypeOK
  BY <1>0, <1>1, HandlerAt DEF SubmitResponseAt
<1>4. caseStatus' = [before.caseStatus EXCEPT ![g.c] = Replied(g.st)]
  BY <1>2, <1>3, RepliesCountNothing DEF Replied
<1>5. PICK author \in Authors :
        g.arg = IF ResponderTarget(author) \in before.unanswered[g.c]
                THEN ResponderTarget(author) ELSE "none"
  BY <1>1 DEF SubmitResponseAt
<1>6. unanswered' = [before.unanswered EXCEPT ![g.c] = @ \ {ResponderTarget(author)}]
  <2>1. before.unanswered[g.c] \subseteq Parties
    BY <1>1, <1>3 DEF API!TypeOK, API!Parties, Parties
  <2>2. "none" \notin Parties
    BY DEF Parties
  <2>3. before.unanswered[g.c] \ {g.arg} = before.unanswered[g.c] \ {ResponderTarget(author)}
    BY <1>5, <2>1, <2>2
  <2> QED BY <1>2, <1>3, <2>3
<1>7. CASE g.st = "AWAITING_RESPONSE"
  <2>1. PICK h : h = [g EXCEPT !.todo = <<"response">>, !.pc = "enqueue"]
    OBVIOUS
  <2>2. /\ Continue(s, h) /\ h.op = "submitResponse" /\ h.pc = "enqueue" /\ h.c = g.c /\ h.st = g.st
        /\ h.ver = g.ver /\ h.yes = g.yes /\ h.arg = g.arg
    BY <1>1, <1>2, <1>7, <2>1 DEF Handlers
  <2>3. ASSUME BeforeStays PROVE At(h)'
    <3>1. (API!FileEvidence(h.c))' = API!FileEvidence(g.c)
      BY <2>2, <2>3 DEF BeforeStays, API!FileEvidence
    <3>2. caseStatus' = [before.caseStatus EXCEPT ![g.c] =
                          IF ApplyCaseEvent(g.st, 0, "reply_received") = Illegal THEN @
                          ELSE ApplyCaseEvent(g.st, 0, "reply_received")]
      BY <1>3, <1>4 DEF Replied
    <3>3. lateEvidence' = IF h.pc \in {"save", "enqueue"} /\ h.yes
                          THEN (API!FileEvidence(h.c))' ELSE before'.lateEvidence
      BY <1>1, <1>2, <2>2, <2>3, <3>1 DEF SubmitResponseAt, BeforeStays
    <3>4. /\ h.arg = IF ResponderTarget(author) \in before'.unanswered[h.c]
                     THEN ResponderTarget(author) ELSE "none"
          /\ caseStatus' = [before'.caseStatus EXCEPT ![h.c] =
                              IF ApplyCaseEvent(h.st, 0, "reply_received") = Illegal THEN @
                              ELSE ApplyCaseEvent(h.st, 0, "reply_received")]
          /\ unanswered' = [before'.unanswered EXCEPT ![h.c] = @ \ {ResponderTarget(author)}]
      BY <1>5, <1>6, <2>2, <2>3, <3>2 DEF BeforeStays
    <3>5. /\ payoutStatus' = before'.payoutStatus /\ payoutRef' = before'.payoutRef
          /\ infoRequestCount' = before'.infoRequestCount /\ decisions' = before'.decisions
          /\ executed' = before'.executed /\ jobs' = before'.jobs
          /\ h.st = before'.caseStatus[h.c] /\ h.ver = version'[h.c] /\ h.st # "CLOSED"
          /\ replied' = [before'.replied EXCEPT ![h.c] = TRUE]
      BY <1>1, <1>2, <1>7, <2>2, <2>3 DEF SubmitResponseAt, BeforeStays
    <3>6. SubmitResponseAt(h)'
      BY <1>7, <2>2, <3>3, <3>4, <3>5 DEF SubmitResponseAt
    <3> QED BY <2>2, <3>6 DEF At
  <2> QED BY <1>2, <2>2, <2>3, ResumeGoesOn
<1>8. CASE g.st # "AWAITING_RESPONSE"
  <2>1. Return(s)
    BY <1>2, <1>8
  <2>2. ShadowFits' /\ before' = Rows' /\ UNCHANGED chainVars
    BY <1>2, <2>1, Returns
  <2>3. jobs' = [jobs EXCEPT ![g.c] = @ \o <<>>]
    <3>1. jobs \in [CaseIds -> Seq(AnchorJobKind)]
      BY <1>0, HandlerAt DEF TypeOK
    <3>2. jobs[g.c] \o <<>> = jobs[g.c]
      BY <1>1, <3>1
    <3> QED BY <1>2, <3>1, <3>2
  <2>4. jobs' = [jobs EXCEPT ![g.c] =
                    @ \o (IF g.st = "AWAITING_RESPONSE" THEN <<"response">> ELSE <<>>)]
    BY <1>8, <2>3
  <2> QED BY <1>0, <1>1, <1>2, <1>4, <1>6, <2>2, <2>4, ReplyIsOne
<1> QED BY <1>7, <1>8

LEMMA SubmitResponseLands ==
  ASSUME SerialStep, NEW s \in Slots, EnqueueAnchor(s), handler[s].op = "submitResponse"
  PROVE  Follows
<1>0. PICK g : g = handler[s]
  OBVIOUS
<1>1. /\ g.op = "submitResponse" /\ g.pc = "enqueue" /\ g.todo = <<"response">>
      /\ SubmitResponseAt(g) /\ g.st = "AWAITING_RESPONSE"
  BY <1>0, HandlerAt DEF EnqueueAnchor, Fits, SubmitResponseFits, At, SubmitResponseAt
<1>2. /\ Return(s) /\ jobs' = [jobs EXCEPT ![g.c] = @ \o <<"response">>]
      /\ UNCHANGED <<payoutStatus, caseStatus, rowVars, version, decisions, executed>>
  BY <1>0, <1>1, Todos DEF EnqueueAnchor, enqueueAnchor
<1>3. ShadowFits' /\ before' = Rows' /\ UNCHANGED chainVars
  BY <1>2, Returns DEF rowVars
<1>4. PICK author \in Authors :
        /\ caseStatus = [before.caseStatus EXCEPT ![g.c] =
                          IF ApplyCaseEvent(g.st, 0, "reply_received") = Illegal THEN @
                          ELSE ApplyCaseEvent(g.st, 0, "reply_received")]
        /\ unanswered = [before.unanswered EXCEPT ![g.c] = @ \ {ResponderTarget(author)}]
  BY <1>1 DEF SubmitResponseAt
<1>5. caseStatus' = [before.caseStatus EXCEPT ![g.c] = Replied(g.st)]
  BY <1>1, <1>2, <1>4 DEF Replied, SubmitResponseAt
<1>6. jobs' = [jobs EXCEPT ![g.c] =
                 @ \o (IF g.st = "AWAITING_RESPONSE" THEN <<"response">> ELSE <<>>)]
  BY <1>1, <1>2
<1> QED BY <1>0, <1>1, <1>2, <1>3, <1>4, <1>5, <1>6, ReplyIsOne DEF rowVars

LEMMA SaveInfoRequestFollows ==
  ASSUME SerialStep, NEW s \in Slots, SaveInfoRequest(s)
  PROVE  Follows
<1>0. PICK g : g = handler[s]
  OBVIOUS
<1> DEFINE to == ReviewThen(g.st, g.n, "request_info")
<1>1. /\ g.op = "requestInfo" /\ RequestInfoAt(g) /\ g.c \in CaseIds
      /\ g.arg \in Parties /\ to # Illegal
  BY <1>0, HandlerAt DEF SaveInfoRequest, Runs, At, Fits, RequestInfoFits, Loaded
<1>2. /\ caseStatus' = [caseStatus EXCEPT ![g.c] = IF to = g.st THEN @ ELSE to]
      /\ infoRequestCount' = [infoRequestCount EXCEPT ![g.c] = g.n + 1]
      /\ overdue' = overdue \ {g.c}
      /\ unanswered' = [unanswered EXCEPT ![g.c] = @ \cup {g.arg}]
      /\ Return(s)
      /\ UNCHANGED <<payoutStatus, payoutRef, replied, lateEvidence, decisions, executed, jobs>>
  BY <1>0, <1>1 DEF SaveInfoRequest
<1>3. ShadowFits' /\ before' = Rows' /\ UNCHANGED chainVars /\ before.overdue = overdue
  BY <1>2, Returns, HandlerAt
<1>4. Untouched /\ g.st = before.caseStatus[g.c] /\ g.n = before.infoRequestCount[g.c]
  BY <1>1 DEF RequestInfoAt, Untouched
<1> HIDE DEF to
<1>5. /\ before'.caseStatus = [before.caseStatus EXCEPT ![g.c] = to]
      /\ before'.infoRequestCount = [before.infoRequestCount EXCEPT ![g.c] = @ + 1]
      /\ before'.overdue = before.overdue \ {g.c}
      /\ before'.unanswered = [before.unanswered EXCEPT ![g.c] = @ \cup {g.arg}]
  BY <1>2, <1>3, <1>4 DEF Rows, Untouched
<1>6. /\ before'.payoutStatus = before.payoutStatus /\ before'.payoutRef = before.payoutRef
      /\ before'.replied = before.replied /\ before'.lateEvidence = before.lateEvidence
      /\ before'.decisions = before.decisions /\ before'.executed = before.executed
      /\ before'.jobs = before.jobs
  BY <1>2, <1>3, <1>4 DEF Rows, Untouched
<1>7. to = API!ReviewThen(before.caseStatus[g.c], before.infoRequestCount[g.c], "request_info")
      /\ to # API!Illegal
  BY <1>1, <1>4, SameMoves, SameTables DEF to
<1>8. API!RequestInfo(g.c, g.arg)
  BY <1>3, <1>5, <1>6, <1>7 DEF API!RequestInfo, API!MoveCase, API!chainVars, chainVars
<1>9. API!Parties = Parties
  BY DEF API!Parties, Parties
<1> QED BY <1>1, <1>3, <1>8, <1>9 DEF Follows, API!Next

-----------------------------------------------------------------------------
(* Hooks and the scheduler.                                                  *)

LEMMA PayoutHookSaves ==
  ASSUME SerialStep, NEW s \in Slots, SavePayout(s), handler[s].op = "payoutHook"
  PROVE  Follows
<1>0. PICK g : g = handler[s]
  OBVIOUS
<1>1. /\ g.op = "payoutHook" /\ PayoutHookAt(g) /\ g.p \in Payments
  BY <1>0, HandlerAt DEF At, Fits, PayoutHookFits
<1>2. /\ payoutStatus' = [payoutStatus EXCEPT ![g.p] = g.pst]
      /\ Return(s)
      /\ UNCHANGED <<caseStatus, rowVars, decisions, executed, jobs>>
  BY <1>0, <1>1 DEF SavePayout
<1>3. ShadowFits' /\ before' = Rows' /\ UNCHANGED chainVars /\ before.overdue = overdue
  BY <1>2, Returns, HandlerAt DEF rowVars
<1>4. API!PayoutHook(g.p, g.pst)
  BY <1>1, <1>2, <1>3, SameTables DEF PayoutHookAt, Untouched, Rows, rowVars, API!PayoutHook,
     API!MovePayout, API!rowVars, API!chainVars, chainVars
<1>5. payoutStatus = before.payoutStatus
  BY <1>1 DEF PayoutHookAt, Untouched
<1>6. API!ConfirmWithdrawn(g.p) \/ API!LockupEnded(g.p) \/ API!DebtSettled(g.p)
  BY <1>1, <1>4, <1>5, SameTables, SameMoves DEF PayoutHookAt, API!ConfirmWithdrawn, API!LockupEnded,
     API!DebtSettled
<1> QED BY <1>1, <1>3, <1>6 DEF Follows, API!Next

LEMMA DeadlinePassedSaves ==
  ASSUME SerialStep, NEW s \in Slots, SaveCase(s), handler[s].op = "deadlinePassed"
  PROVE  Follows
<1>0. PICK g : g = handler[s]
  OBVIOUS
<1>1. g.op = "deadlinePassed" /\ DeadlinePassedAt(g) /\ g.c \in CaseIds
  BY <1>0, HandlerAt DEF At, Fits, DeadlinePassedFits, Loaded
<1>2. /\ caseStatus' = [caseStatus EXCEPT ![g.c] = g.st]
      /\ Return(s)
      /\ UNCHANGED <<payoutStatus, rowVars, decisions, executed, jobs>>
  BY <1>0, <1>1 DEF SaveCase
<1>3. ShadowFits' /\ before' = Rows' /\ UNCHANGED chainVars /\ before.overdue = overdue
  BY <1>2, Returns, HandlerAt DEF rowVars
<1>4. API!DeadlinePassed(g.c)
  BY <1>1, <1>2, <1>3, SameTables DEF DeadlinePassedAt, Untouched, Rows, rowVars,
     API!DeadlinePassed, API!MoveCase, API!rowVars, API!chainVars, chainVars
<1> QED BY <1>1, <1>3, <1>4 DEF Follows, API!Next

LEMMA SchedulerSaveFollows ==
  ASSUME SerialStep, NEW s \in Slots, SchedulerSave(s)
  PROVE  Follows
<1>0. PICK g : g = handler[s]
  OBVIOUS
<1>1. g.op = "tick" /\ TickAt(g) /\ g \in Handlers
  BY <1>0, HandlerAt DEF SchedulerSave, Runs, At
<1>2. PICK c \in g.due :
        /\ caseStatus' = [caseStatus EXCEPT ![c] = "UNDER_REVIEW"]
        /\ IF g.due = {c} THEN Return(s) ELSE Continue(s, [g EXCEPT !.due = @ \ {c}])
        /\ UNCHANGED <<payoutStatus, rowVars, version, decisions, executed, jobs>>
  BY <1>0, DeadlineMoves DEF SchedulerSave
<1>3. PICK h : h = IF g.due = {c} THEN Idle ELSE [g EXCEPT !.due = @ \ {c}]
  OBVIOUS
<1>4. /\ handler' = [handler EXCEPT ![s] = h] /\ UNCHANGED chainVars
      /\ h.op \in {"idle", "tick"}
      /\ h.op = "tick" => h.due = g.due \ {c}
  BY <1>1, <1>2, <1>3 DEF Return, Continue, Idle, Handlers
<1>5. c \in CaseIds /\ c \in overdue /\ caseStatus[c] = "AWAITING_RESPONSE"
  BY <1>1 DEF TickAt, Handlers
<1>6. before' = Rows' /\ Untouched /\ before.overdue = overdue
  BY <1>1, <1>4, Lands, HandlerAt DEF TickAt
<1>7. h.op = "tick" => TickAt(h)'
  BY <1>1, <1>2, <1>4, <1>6 DEF TickAt, Untouched, Rows, rowVars
<1>8. ShadowFits'
  <2>1. Numbered'
    BY <1>2, NumberedStays DEF SerialStep, ShadowFits, StepsInv, StepsTypeOK, rowVars
  <2> QED BY <1>4, <1>7, <2>1, RestsAgain
<1>9. ApplyCaseEvent(caseStatus[c], infoRequestCount[c], "deadline_passed") = "UNDER_REVIEW"
  BY <1>5, DeadlineMoves DEF ApplyCaseEvent
<1>10. API!SchedulerTick(c)
  BY <1>2, <1>4, <1>5, <1>6, <1>9, SameTables DEF Untouched, Rows, rowVars, API!SchedulerTick,
     API!DeadlinePassed, API!MoveCase, API!rowVars, API!chainVars, chainVars, Illegal
<1> QED BY <1>5, <1>8, <1>10 DEF Follows, API!Next

-----------------------------------------------------------------------------
(* The route that stamps a refund.                                           *)

LEMMA StampDecisionFollows ==
  ASSUME SerialStep, NEW s \in Slots, StampDecision(s)
  PROVE  Follows
<1>0. PICK g : g = handler[s]
  OBVIOUS
<1>1. PICK h : h = [g EXCEPT !.pc = "payout"]
  OBVIOUS
<1>2. /\ g.op = "stampRefundTx" /\ g.pc = "stamp" /\ StampRefundTxAt(g) /\ g \in Handlers
      /\ executed' = [executed EXCEPT ![g.c] = TRUE] /\ Continue(s, h)
      /\ UNCHANGED <<payoutStatus, caseStatus, rowVars, decisions, jobs>>
  BY <1>0, <1>1, HandlerAt DEF StampDecision, Runs, ContinueAt, At
<1>3. h.op = "stampRefundTx" /\ h.pc = "payout" /\ h.c = g.c /\ h.p = g.p
  BY <1>1, <1>2 DEF Handlers
<1>4. ASSUME BeforeStays PROVE At(h)'
  BY <1>2, <1>3, <1>4 DEF At, StampRefundTxAt, BeforeStays, rowVars
<1> QED BY <1>2, <1>3, <1>4, ResumeGoesOn DEF rowVars

LEMMA StampPayoutFollows ==
  ASSUME SerialStep, NEW s \in Slots, StampPayout(s)
  PROVE  Follows
<1>0. PICK g : g = handler[s]
  OBVIOUS
<1>1. PICK h : h = IF payoutStatus[g.p] = "DISPUTED"
                   THEN [g EXCEPT !.pc = "savePayout", !.st = "CLOSED",
                           !.pst = ApplyPaymentEvent("DISPUTED", "refund_confirmed")]
                   ELSE [g EXCEPT !.pc = "saveCase", !.st = "CLOSED"]
  OBVIOUS
<1>2. /\ g.op = "stampRefundTx" /\ g.pc = "payout" /\ StampRefundTxAt(g) /\ g \in Handlers
      /\ UNCHANGED dbVars /\ Continue(s, h)
  BY <1>0, <1>1, HandlerAt DEF StampPayout, Runs, At
<1>3. /\ h.op = "stampRefundTx" /\ h.c = g.c /\ h.p = g.p
      /\ IF payoutStatus[g.p] = "DISPUTED"
         THEN h.pc = "savePayout" /\ h.pst = ApplyPaymentEvent("DISPUTED", "refund_confirmed")
         ELSE h.pc = "saveCase"
  BY <1>1, <1>2 DEF Handlers
<1>4. payoutStatus = before.payoutStatus /\ API!TypeOK
  BY <1>0, <1>2, HandlerAt DEF StampRefundTxAt
<1>5. ASSUME BeforeStays PROVE At(h)'
  <2>1. payoutStatus[g.p] # "DISPUTED" =>
          before.payoutStatus = [before.payoutStatus EXCEPT ![g.p] =
            IF @ = "DISPUTED" THEN ApplyPaymentEvent(@, "refund_confirmed") ELSE @]
    BY <1>4 DEF API!TypeOK
  <2> QED BY <1>2, <1>3, <1>4, <1>5, <2>1 DEF At, StampRefundTxAt, BeforeStays, dbVars, rowVars
<1> QED BY <1>2, <1>3, <1>5, ResumeGoesOn DEF dbVars, rowVars

LEMMA StampRefundTxSavesPayout ==
  ASSUME SerialStep, NEW s \in Slots, SavePayout(s), handler[s].op = "stampRefundTx"
  PROVE  Follows
<1>0. PICK g : g = handler[s]
  OBVIOUS
<1>1. PICK h : h = [g EXCEPT !.pc = "saveCase"]
  OBVIOUS
<1>2. /\ g.op = "stampRefundTx" /\ g.pc = "savePayout" /\ StampRefundTxAt(g) /\ g \in Handlers
      /\ payoutStatus' = [payoutStatus EXCEPT ![g.p] = g.pst] /\ Continue(s, h)
      /\ UNCHANGED <<caseStatus, rowVars, decisions, executed, jobs>>
  BY <1>0, <1>1, HandlerAt DEF SavePayout, AfterPayoutSaved, ContinueAt, At
<1>3. h.op = "stampRefundTx" /\ h.pc = "saveCase" /\ h.c = g.c /\ h.p = g.p
  BY <1>1, <1>2 DEF Handlers
<1>4. ASSUME BeforeStays PROVE At(h)'
  BY <1>2, <1>3, <1>4 DEF At, StampRefundTxAt, BeforeStays, rowVars
<1> QED BY <1>2, <1>3, <1>4, ResumeGoesOn DEF rowVars

LEMMA StampRefundTxLands ==
  ASSUME SerialStep, NEW s \in Slots, SaveCase(s), handler[s].op = "stampRefundTx"
  PROVE  Follows
<1>0. PICK g : g = handler[s]
  OBVIOUS
<1>1. /\ g.op = "stampRefundTx" /\ g.pc = "saveCase" /\ StampRefundTxAt(g)
      /\ g.c \in CaseIds /\ Exists(g.c) /\ HasHash(g.c) /\ g.p = payoutRef[g.c] /\ g.st = "CLOSED"
  BY <1>0, HandlerAt DEF SaveCase, At, Fits, StampRefundTxFits, Loaded
<1>2. /\ caseStatus' = [caseStatus EXCEPT ![g.c] = "CLOSED"] /\ Return(s)
      /\ UNCHANGED <<payoutStatus, rowVars, decisions, executed, jobs>>
  BY <1>0, <1>1 DEF SaveCase
<1>3. ShadowFits' /\ before' = Rows' /\ UNCHANGED chainVars /\ before.overdue = overdue
  BY <1>2, Returns, HandlerAt DEF rowVars
<1>4. API!HasHash(g.c)
  BY <1>1 DEF StampRefundTxAt, HasHash, API!HasHash, RefundDecided, API!RefundDecided,
     ReleaseDecided, API!ReleaseDecided
<1>5. /\ before'.executed = [before.executed EXCEPT ![g.c] = TRUE]
      /\ before'.payoutStatus = [before.payoutStatus EXCEPT ![g.p] =
            IF @ = "DISPUTED" THEN ApplyPaymentEvent(@, "refund_confirmed") ELSE @]
      /\ before'.caseStatus = [before.caseStatus EXCEPT ![g.c] = "CLOSED"]
      /\ g.p = before.payoutRef[g.c] /\ before.caseStatus[g.c] # NoCase
  BY <1>1, <1>2, <1>3 DEF StampRefundTxAt, Rows, Exists
<1>6. UNCHANGED <<API!rowVars, before.decisions, before.jobs, API!chainVars>>
  BY <1>1, <1>2, <1>3 DEF StampRefundTxAt, Rows, rowVars, API!rowVars, API!chainVars, chainVars
<1>7. API!StampRefundTx(g.c)
  BY <1>4, <1>5, <1>6, SameTables DEF API!StampRefundTx
<1> QED BY <1>1, <1>3, <1>7 DEF Follows, API!Next

-----------------------------------------------------------------------------
(* confirmRefundExecuted.                                                    *)

LEMMA ConfirmRefundSavesPayout ==
  ASSUME SerialStep, NEW s \in Slots, SavePayout(s), handler[s].op = "confirmRefund"
  PROVE  Follows
<1>0. PICK g : g = handler[s]
  OBVIOUS
<1>1. PICK h : h = [g EXCEPT !.pc = "find"]
  OBVIOUS
<1>2. /\ g.op = "confirmRefund" /\ g.pc = "savePayout" /\ ConfirmRefundAt(g) /\ g \in Handlers
      /\ payoutStatus' = [payoutStatus EXCEPT ![g.p] = g.pst] /\ Continue(s, h)
      /\ UNCHANGED <<caseStatus, rowVars, decisions, executed, jobs>>
  BY <1>0, <1>1, HandlerAt DEF SavePayout, AfterPayoutSaved, ContinueAt, At
<1>3. h.op = "confirmRefund" /\ h.pc = "find" /\ h.c = g.c /\ h.p = g.p /\ h.pst = g.pst
  BY <1>1, <1>2 DEF Handlers
<1>4. ASSUME BeforeStays PROVE At(h)'
  BY <1>2, <1>3, <1>4 DEF At, ConfirmRefundAt, BeforeStays, rowVars
<1> QED BY <1>2, <1>3, <1>4, ResumeGoesOn DEF rowVars

(* What DisputeApi finds for the hook, the hook finds.                      *)
LEMMA SameDecided ==
  ASSUME SameCases, SameRefs, SameCounts, NEW p
  PROVE  /\ API!DecidedOn(p) = DecidedOn(p)
         /\ \A c : API!ExecutedThenClosed(c) = ExecutedThenClosed(c)
BY SameTables DEF API!DecidedOn, DecidedOn, API!ExecutedThenClosed, ExecutedThenClosed

(* The payout as DisputeApi moves it.                                       *)
LEMMA ConfirmedPayout ==
  ASSUME SerialStep, NEW s \in Slots, NEW g, g = handler[s], g.op = "confirmRefund",
         g.pc # "savePayout", before' = Rows', UNCHANGED payoutStatus
  PROVE  \E debt \in BOOLEAN :
           API!MovePayout(g.p, API!RefundedStatus(before.payoutStatus[g.p], debt))
<1>1. ConfirmRefundAt(g)
  BY HandlerAt DEF At
<1>2. before'.payoutStatus = [before.payoutStatus EXCEPT ![g.p] = g.pst]
  BY <1>1 DEF ConfirmRefundAt, Rows
<1> QED BY <1>1, <1>2, SameTables, SameMoves DEF ConfirmRefundAt, API!MovePayout

LEMMA FindDecidedCaseFollows ==
  ASSUME SerialStep, NEW s \in Slots, FindDecidedCase(s)
  PROVE  Follows
<1>0. PICK g : g = handler[s]
  OBVIOUS
<1>1. /\ g.op = "confirmRefund" /\ g.pc = "find" /\ ConfirmRefundAt(g) /\ g \in Handlers
      /\ UNCHANGED dbVars /\ g.p \in Payments /\ RefundedOnChain(g.p)
  BY <1>0, HandlerAt DEF FindDecidedCase, Runs, At, Fits, ConfirmRefundFits
<1>2. SameCases /\ SameRefs /\ SameCounts
  BY <1>1 DEF ConfirmRefundAt
<1>3. ASSUME NEW c \in DecidedOn(g.p),
             Continue(s, [g EXCEPT !.c = c, !.pc = "saveCase", !.st = ExecutedThenClosed(c)])
      PROVE  Follows
  <2>1. PICK h : h = [g EXCEPT !.c = c, !.pc = "saveCase", !.st = ExecutedThenClosed(c)]
    OBVIOUS
  <2>2. /\ h.op = "confirmRefund" /\ h.pc = "saveCase" /\ h.c = c /\ h.p = g.p /\ h.pst = g.pst
        /\ h.st = ExecutedThenClosed(c) /\ Continue(s, h)
    BY <1>1, <1>3, <2>1 DEF Handlers
  <2>3. h.c \in API!DecidedOn(h.p) /\ h.st = API!ExecutedThenClosed(h.c)
    BY <1>2, <2>2, SameDecided
  <2>4. ASSUME BeforeStays PROVE At(h)'
    <3>1. h.c \in (API!DecidedOn(h.p))' /\ h.st = (API!ExecutedThenClosed(h.c))'
      BY <2>3, <2>4 DEF BeforeStays, API!DecidedOn, API!ExecutedThenClosed
    <3> QED BY <1>1, <2>2, <2>4, <3>1 DEF At, ConfirmRefundAt, BeforeStays, dbVars, rowVars
  <2> QED BY <1>1, <2>2, <2>4, ResumeGoesOn DEF dbVars, rowVars
<1>4. CASE DecidedOn(g.p) = {} /\ Return(s)
  <2>1. ShadowFits' /\ before' = Rows' /\ UNCHANGED chainVars /\ before.overdue = overdue
    BY <1>1, <1>4, Returns, HandlerAt DEF dbVars, rowVars
  <2>2. API!DecidedOn(g.p) = {} /\ API!RefundedOnChain(g.p)
    BY <1>1, <1>2, <1>4, SameDecided DEF RefundedOnChain, API!RefundedOnChain
  <2>3. PICK debt \in BOOLEAN :
          API!MovePayout(g.p, API!RefundedStatus(before.payoutStatus[g.p], debt))
    BY <1>0, <1>1, <2>1, ConfirmedPayout DEF dbVars
  <2>4. UNCHANGED <<before.caseStatus, before.executed, before.jobs, API!rowVars,
                    before.decisions, API!chainVars>>
    BY <1>1, <2>1 DEF ConfirmRefundAt, Rows, dbVars, rowVars, API!rowVars, API!chainVars, chainVars
  <2>5. API!ConfirmRefundExecuted(g.p, debt)
    BY <2>2, <2>3, <2>4 DEF API!ConfirmRefundExecuted
  <2> QED BY <1>1, <2>1, <2>5 DEF Follows, API!Next
<1> QED BY <1>0, <1>3, <1>4 DEF FindDecidedCase

(* The case the hook has found is the one it closes.                        *)
LEMMA FoundStays ==
  ASSUME SerialStep, NEW s \in Slots, NEW g, g = handler[s], g.op = "confirmRefund",
         g.pc \in {"saveCase", "execute", "enqueue"}
  PROVE  /\ ConfirmRefundAt(g) /\ g.c \in CaseIds
         /\ g.c \in API!DecidedOn(g.p) /\ g.st = API!ExecutedThenClosed(g.c)
         /\ BeforeStays => /\ g.c \in (API!DecidedOn(g.p))'
                           /\ g.st = (API!ExecutedThenClosed(g.c))'
<1>1. ConfirmRefundAt(g) /\ g.c \in CaseIds
  BY HandlerAt DEF At, Fits, ConfirmRefundFits, Loaded
<1> QED BY <1>1 DEF ConfirmRefundAt, BeforeStays, API!DecidedOn, API!ExecutedThenClosed

LEMMA ConfirmRefundSavesCase ==
  ASSUME SerialStep, NEW s \in Slots, SaveCase(s), handler[s].op = "confirmRefund"
  PROVE  Follows
<1>0. PICK g : g = handler[s]
  OBVIOUS
<1>1. PICK h : h = [g EXCEPT !.pc = "execute"]
  OBVIOUS
<1>2. /\ g.op = "confirmRefund" /\ g.pc = "saveCase" /\ g \in Handlers
      /\ caseStatus' = [caseStatus EXCEPT ![g.c] = g.st] /\ Continue(s, h)
      /\ UNCHANGED <<payoutStatus, rowVars, decisions, executed, jobs>>
  BY <1>0, <1>1, HandlerAt DEF SaveCase, ContinueAt
<1>3. /\ h.op = "confirmRefund" /\ h.pc = "execute" /\ h.c = g.c /\ h.p = g.p /\ h.pst = g.pst
      /\ h.st = g.st
  BY <1>1, <1>2 DEF Handlers
<1>4. ASSUME BeforeStays PROVE At(h)'
  <2>1. /\ ConfirmRefundAt(g) /\ h.c \in (API!DecidedOn(h.p))'
        /\ h.st = (API!ExecutedThenClosed(h.c))'
    BY <1>0, <1>2, <1>3, <1>4, FoundStays
  <2>2. ConfirmRefundAt(h)'
    BY  <1>2, <1>3, <1>4, <2>1 DEF ConfirmRefundAt, BeforeStays, rowVars
  <2> QED BY <1>3, <2>2 DEF At
<1> QED BY <1>2, <1>3, <1>4, ResumeGoesOn DEF rowVars

LEMMA ExecuteDecisionFollows ==
  ASSUME SerialStep, NEW s \in Slots, ExecuteDecision(s)
  PROVE  Follows
<1>0. PICK g : g = handler[s]
  OBVIOUS
<1>1. PICK h : h = [g EXCEPT !.pc = "enqueue",
                             !.todo = <<"correction_outstanding", "correction">>]
  OBVIOUS
<1>2. /\ g.op = "confirmRefund" /\ g.pc = "execute" /\ g \in Handlers
      /\ executed' = [executed EXCEPT ![g.c] = TRUE] /\ Continue(s, h)
      /\ UNCHANGED <<payoutStatus, caseStatus, rowVars, decisions, jobs>>
  BY <1>0, <1>1, HandlerAt DEF ExecuteDecision, Runs
<1>3. /\ h.op = "confirmRefund" /\ h.pc = "enqueue" /\ h.c = g.c /\ h.p = g.p /\ h.pst = g.pst
      /\ h.st = g.st /\ h.todo = <<"correction_outstanding", "correction">>
  BY <1>1, <1>2 DEF Handlers
<1>4. h.todo # <<"correction">>
  BY <1>3, Todos
<1>5. ASSUME BeforeStays PROVE At(h)'
  <2>1. /\ ConfirmRefundAt(g) /\ h.c \in (API!DecidedOn(h.p))'
        /\ h.st = (API!ExecutedThenClosed(h.c))'
    BY <1>0, <1>2, <1>3, <1>5, FoundStays
  <2>2. ConfirmRefundAt(h)'
    BY  <1>2, <1>3, <1>4, <1>5, <2>1 DEF ConfirmRefundAt, BeforeStays, rowVars
  <2> QED BY <1>3, <2>2 DEF At
<1> QED BY <1>2, <1>3, <1>5, ResumeGoesOn DEF rowVars

-----------------------------------------------------------------------------
(* Jobs that are enqueued one by one are in the end enqueued together.      *)
LEMMA EnqueuedMore ==
  ASSUME API!TypeOK, NEW c \in CaseIds, NEW kinds \in Seq(AnchorJobKind), Enqueued(c, kinds),
         NEW k \in AnchorJobKind, jobs' = [jobs EXCEPT ![c] = @ \o <<k>>]
  PROVE  jobs' = [before.jobs EXCEPT ![c] = @ \o (kinds \o <<k>>)]
<1>1. before.jobs \in [CaseIds -> Seq(AnchorJobKind)]
  BY DEF API!TypeOK, API!AnchorJobKind, AnchorJobKind
<1>2. before.jobs[c] \in Seq(AnchorJobKind) /\ <<k>> \in Seq(AnchorJobKind)
  BY <1>1
<1>3. (before.jobs[c] \o kinds) \o <<k>> = before.jobs[c] \o (kinds \o <<k>>)
  <2>1. \A q, r, t \in Seq(AnchorJobKind) : (q \o r) \o t = q \o (r \o t)
    BY ConcatAssociative
  <2> QED BY <1>2, <2>1
<1>4. jobs = [before.jobs EXCEPT ![c] = before.jobs[c] \o kinds]
  BY DEF Enqueued
<1> QED BY <1>1, <1>3, <1>4

LEMMA EnqueuedFirst ==
  ASSUME SameJobs, NEW c \in CaseIds, NEW k, jobs' = [jobs EXCEPT ![c] = @ \o <<k>>]
  PROVE  jobs' = [before.jobs EXCEPT ![c] = @ \o <<k>>]
OBVIOUS

LEMMA JobPairs ==
  /\ <<"correction_outstanding">> \o <<"correction">> = <<"correction_outstanding", "correction">>
  /\ <<"under_review">> \o <<"decision">> = <<"under_review", "decision">>
  /\ <<"under_review", "decision">> \o <<"close_no_correction">>
       = <<"under_review", "decision", "close_no_correction">>
  /\ \A k \in AnchorJobKind : <<k>> \in Seq(AnchorJobKind)
  /\ \A k, l \in AnchorJobKind : <<k, l>> \in Seq(AnchorJobKind)
<1>0. \A q \in Seq(AnchorJobKind), k \in AnchorJobKind : q \o <<k>> = Append(q, k)
  BY AppendIsConcat
<1>1. ASSUME NEW k \in AnchorJobKind, NEW l \in AnchorJobKind PROVE Append(<<k>>, l) = <<k, l>>
  <2> DEFINE q == Append(<<k>>, l)
  <2>1. <<k>> \in Seq(AnchorJobKind) /\ <<k, l>> \in Seq(AnchorJobKind)
    OBVIOUS
  <2>2. q \in Seq(AnchorJobKind) /\ Len(q) = 2 /\ q[1] = k /\ q[2] = l
    BY <2>1, AppendProperties
  <2> HIDE DEF q
  <2>3. Len(<<k, l>>) = 2 /\ \A i \in 1..2 : q[i] = <<k, l>>[i]
    BY <2>2
  <2>4. q = <<k, l>>
    BY <2>1, <2>2, <2>3, SeqEqual
  <2> QED BY <2>4 DEF q
<1>2. ASSUME NEW k \in AnchorJobKind, NEW l \in AnchorJobKind, NEW m \in AnchorJobKind
      PROVE  Append(<<k, l>>, m) = <<k, l, m>>
  <2> DEFINE q == Append(<<k, l>>, m)
  <2>1. <<k, l>> \in Seq(AnchorJobKind) /\ <<k, l, m>> \in Seq(AnchorJobKind)
    OBVIOUS
  <2>2. q \in Seq(AnchorJobKind) /\ Len(q) = 3 /\ q[1] = k /\ q[2] = l /\ q[3] = m
    BY <2>1, AppendProperties
  <2> HIDE DEF q
  <2>3. Len(<<k, l, m>>) = 3 /\ \A i \in 1..3 : q[i] = <<k, l, m>>[i]
    BY <2>2
  <2>4. q = <<k, l, m>>
    BY <2>1, <2>2, <2>3, SeqEqual
  <2> QED BY <2>4 DEF q
<1>3. {"correction_outstanding", "correction", "under_review", "decision", "close_no_correction"}
        \subseteq AnchorJobKind
  BY DEF AnchorJobKind
<1>4. \A k \in AnchorJobKind : <<k>> \in Seq(AnchorJobKind)
  OBVIOUS
<1>5. \A k, l \in AnchorJobKind : <<k, l>> \in Seq(AnchorJobKind)
  OBVIOUS
<1>6. \A k, l \in AnchorJobKind : <<k>> \o <<l>> = <<k, l>>
  BY <1>0, <1>1, <1>4
<1>7. \A k, l, m \in AnchorJobKind : <<k, l>> \o <<m>> = <<k, l, m>>
  BY <1>0, <1>2, <1>5
<1> QED BY <1>3, <1>4, <1>5, <1>6, <1>7

LEMMA ConfirmRefundEnqueues ==
  ASSUME SerialStep, NEW s \in Slots, EnqueueAnchor(s), handler[s].op = "confirmRefund"
  PROVE  Follows
<1>0. PICK g : g = handler[s]
  OBVIOUS
<1>1. /\ g.op = "confirmRefund" /\ g.pc = "enqueue" /\ g \in Handlers
      /\ ConfirmRefundAt(g) /\ g.c \in CaseIds /\ g.p \in Payments /\ RefundedOnChain(g.p)
      /\ g.todo \in {<<"correction_outstanding", "correction">>, <<"correction">>}
      /\ jobs' = [jobs EXCEPT ![g.c] = @ \o <<Head(g.todo)>>]
      /\ UNCHANGED <<payoutStatus, caseStatus, rowVars, version, decisions, executed>>
  BY <1>0, HandlerAt, FoundStays DEF EnqueueAnchor, enqueueAnchor, Fits, ConfirmRefundFits
<1>2. CASE g.todo = <<"correction_outstanding", "correction">>
  <2>1. Head(g.todo) = "correction_outstanding" /\ Len(g.todo) = 2 /\ Tail(g.todo) = <<"correction">>
        /\ g.todo # <<"correction">>
    BY <1>2, Todos
  <2>2. PICK h : h = [g EXCEPT !.todo = Tail(@)]
    OBVIOUS
  <2>3. /\ Continue(s, h) /\ h.op = "confirmRefund" /\ h.pc = "enqueue" /\ h.c = g.c /\ h.p = g.p
        /\ h.pst = g.pst /\ h.st = g.st /\ h.todo = <<"correction">>
    BY <1>0, <1>1, <2>1, <2>2 DEF EnqueueAnchor, Handlers
  <2>4. jobs' = [before.jobs EXCEPT ![g.c] = @ \o <<"correction_outstanding">>]
    BY <1>1, <2>1, EnqueuedFirst DEF ConfirmRefundAt
  <2>5. ASSUME BeforeStays PROVE At(h)'
    <3>1. h.c \in (API!DecidedOn(h.p))' /\ h.st = (API!ExecutedThenClosed(h.c))'
      BY <1>0, <1>1, <2>3, <2>5, FoundStays
    <3>2. /\ h.pst # Illegal
          /\ \E debt \in BOOLEAN : h.pst = RefundedStatus(before'.payoutStatus[h.p], debt)
          /\ payoutStatus' = [before'.payoutStatus EXCEPT ![h.p] = h.pst]
          /\ caseStatus' = [before'.caseStatus EXCEPT ![h.c] = h.st]
          /\ executed' = [before'.executed EXCEPT ![h.c] = TRUE]
      BY <1>1, <2>3, <2>5 DEF ConfirmRefundAt, BeforeStays
    <3>3. /\ payoutRef' = before'.payoutRef /\ infoRequestCount' = before'.infoRequestCount
          /\ unanswered' = before'.unanswered /\ replied' = before'.replied
          /\ lateEvidence' = before'.lateEvidence /\ decisions' = before'.decisions
          /\ Enqueued(h.c, <<"correction_outstanding">>)'
      BY <1>1, <2>3, <2>4, <2>5 DEF ConfirmRefundAt, BeforeStays, rowVars, Enqueued
    <3> QED BY <2>3, <3>1, <3>2, <3>3 DEF At, ConfirmRefundAt
  <2> QED BY <1>1, <2>3, <2>5, ResumeGoesOn DEF rowVars
<1>3. CASE g.todo = <<"correction">>
  <2>1. Head(g.todo) = "correction" /\ Len(g.todo) = 1
    BY <1>3, Todos
  <2>2. Return(s)
    BY <1>0, <1>1, <2>1 DEF EnqueueAnchor
  <2>3. ShadowFits' /\ before' = Rows' /\ UNCHANGED chainVars /\ before.overdue = overdue
    BY <1>1, <2>2, Returns, HandlerAt DEF rowVars
  <2>4. jobs' = [before.jobs EXCEPT ![g.c] = @ \o <<"correction_outstanding", "correction">>]
    <3>1. Enqueued(g.c, <<"correction_outstanding">>) /\ API!TypeOK
      BY <1>1, <1>3, HandlerAt DEF ConfirmRefundAt
    <3>2. "correction_outstanding" \in AnchorJobKind /\ "correction" \in AnchorJobKind
      BY DEF AnchorJobKind
    <3>3. <<"correction_outstanding">> \in Seq(AnchorJobKind)
      BY <3>2, JobPairs
    <3>4. jobs' = [jobs EXCEPT ![g.c] = @ \o <<"correction">>]
      BY <1>1, <2>1
    <3>5. jobs' = [before.jobs EXCEPT ![g.c] =
                     @ \o (<<"correction_outstanding">> \o <<"correction">>)]
      <4>1. PICK kinds \in Seq(AnchorJobKind) : kinds = <<"correction_outstanding">>
        BY <3>3
      <4>2. PICK k \in AnchorJobKind : k = "correction"
        BY <3>2
      <4>3. PICK c \in CaseIds : c = g.c
        BY <1>1
      <4>4. API!TypeOK /\ Enqueued(c, kinds) /\ jobs' = [jobs EXCEPT ![c] = @ \o <<k>>]
        BY <3>1, <3>4, <4>1, <4>2, <4>3
      <4>5. jobs' = [before.jobs EXCEPT ![c] = @ \o (kinds \o <<k>>)]
        BY ONLY <4>4, EnqueuedMore
      <4> QED BY <4>1, <4>2, <4>3, <4>5
    <3> QED BY <3>5, JobPairs
  <2>5. PICK debt \in BOOLEAN :
          API!MovePayout(g.p, API!RefundedStatus(before.payoutStatus[g.p], debt))
    BY <1>0, <1>1, <2>3, ConfirmedPayout
  <2>6. /\ g.c \in API!DecidedOn(g.p) /\ g.st = API!ExecutedThenClosed(g.c)
        /\ g.st # API!Illegal
    <3>1. g.st # API!Illegal
      <4>1. caseStatus = [before.caseStatus EXCEPT ![g.c] = g.st]
        BY <1>1 DEF ConfirmRefundAt
      <4>2. caseStatus[g.c] = g.st
        BY <1>0, <1>1, <4>1, HandlerAt DEF API!TypeOK
      <4>3. caseStatus[g.c] \in CaseStatus \cup {NoCase}
        BY <1>0, <1>1, HandlerAt DEF TypeOK
      <4> QED BY <4>2, <4>3, SameTables DEF CaseStatus, NoCase, Illegal
    <3> QED BY <1>0, <1>1, <3>1, FoundStays
  <2>7. /\ before'.caseStatus = [before.caseStatus EXCEPT ![g.c] = g.st]
        /\ before'.executed = [before.executed EXCEPT ![g.c] = TRUE]
        /\ before'.jobs = [before.jobs EXCEPT ![g.c] =
                             @ \o <<"correction_outstanding", "correction">>]
    BY <1>1, <2>3, <2>4 DEF ConfirmRefundAt, Rows
  <2>8. UNCHANGED <<API!rowVars, before.decisions, API!chainVars>>
    BY <1>1, <2>3 DEF ConfirmRefundAt, Rows, rowVars, API!rowVars, API!chainVars, chainVars
  <2>9. API!RefundedOnChain(g.p)
    BY <1>1 DEF RefundedOnChain, API!RefundedOnChain
  <2>10. API!ConfirmRefundExecuted(g.p, debt)
    BY <2>5, <2>6, <2>7, <2>8, <2>9
    DEF API!ConfirmRefundExecuted, API!MoveCase, API!enqueueAnchor
  <2> QED BY <1>1, <2>3, <2>10 DEF Follows, API!Next
<1> QED BY <1>1, <1>2, <1>3

-----------------------------------------------------------------------------
(* recordDecision.                                                           *)

LEMMA WhatIsEnqueued ==
  ASSUME NEW h
  PROVE  /\ h.pc = "saveCase" => EnqueuedBy(h) = <<"under_review", "decision">>
         /\ h.pc = "enqueue" /\ h.arg = "refund" =>
              /\ h.todo = <<"under_review", "decision">> => EnqueuedBy(h) = <<>>
              /\ h.todo = <<"decision">> => EnqueuedBy(h) = <<"under_review">>
         /\ h.pc = "enqueue" /\ h.arg # "refund" =>
              /\ h.todo = <<"under_review", "decision", "close_no_correction">> =>
                   EnqueuedBy(h) = <<>>
              /\ h.todo = <<"decision", "close_no_correction">> =>
                   EnqueuedBy(h) = <<"under_review">>
              /\ h.todo = <<"close_no_correction">> =>
                   EnqueuedBy(h) = <<"under_review", "decision">>
<1>1. ASSUME h.pc = "enqueue", h.arg = "refund", h.todo = <<"under_review", "decision">>
      PROVE  EnqueuedBy(h) = <<>>
  <2>1. Len(h.todo) = 2 /\ h.todo # <<"close_no_correction">>
    BY <1>1, Todos
  <2> QED BY <1>1, <2>1 DEF EnqueuedBy
<1>2. ASSUME h.pc = "enqueue", h.arg = "refund", h.todo = <<"decision">>
      PROVE  EnqueuedBy(h) = <<"under_review">>
  <2>1. Len(h.todo) = 1
    BY <1>2, Todos
  <2> QED BY <1>2, <2>1 DEF EnqueuedBy
<1>3. ASSUME h.pc = "enqueue", h.arg # "refund",
             h.todo = <<"under_review", "decision", "close_no_correction">>
      PROVE  EnqueuedBy(h) = <<>>
  <2>1. Len(h.todo) = 3 /\ h.todo # <<"close_no_correction">>
    BY <1>3, Todos
  <2> QED BY <1>3, <2>1 DEF EnqueuedBy
<1>4. ASSUME h.pc = "enqueue", h.arg # "refund", h.todo = <<"decision", "close_no_correction">>
      PROVE  EnqueuedBy(h) = <<"under_review">>
  <2>1. Len(h.todo) = 2
    BY <1>4, Todos
  <2> QED BY <1>4, <2>1 DEF EnqueuedBy
<1>5. ASSUME h.pc = "enqueue", h.arg # "refund", h.todo = <<"close_no_correction">>
      PROVE  EnqueuedBy(h) = <<"under_review", "decision">>
  <2>1. Len(h.todo) = 1
    BY <1>5, Todos
  <2> QED BY <1>5, <2>1 DEF EnqueuedBy
<1>6. h.pc = "saveCase" => EnqueuedBy(h) = <<"under_review", "decision">>
  BY DEF EnqueuedBy
<1> QED BY <1>1, <1>2, <1>3, <1>4, <1>5, <1>6

LEMMA NothingEnqueued ==
  ASSUME API!TypeOK, SameJobs, NEW c \in CaseIds
  PROVE  Enqueued(c, <<>>)
<1>1. before.jobs \in [CaseIds -> Seq(AnchorJobKind)]
  BY DEF API!TypeOK, API!AnchorJobKind, AnchorJobKind
<1>2. before.jobs[c] \o <<>> = before.jobs[c]
  BY <1>1
<1> QED BY <1>1, <1>2 DEF Enqueued

(* What recordDecision relies on from its first await on.                   *)
LEMMA RecordDecisionStays ==
  ASSUME SerialStep, NEW s \in Slots, NEW g, g = handler[s], g.op = "recordDecision"
  PROVE  /\ RecordDecisionAt(g) /\ RecordDecisionFits(g) /\ g \in Handlers
         /\ g.c \in CaseIds /\ g.p \in Payments /\ g.arg \in DecisionOutcome
         /\ g.p = before.payoutRef[g.c] /\ before.overdue = overdue /\ API!TypeOK
         /\ SameRefs /\ SameCounts /\ SameRequests /\ SameReplies /\ SameEvidence /\ SameStamps
         /\ ReviewThen(before.caseStatus[g.c], before.infoRequestCount[g.c], "decision_recorded")
              = "DECIDED"
<1>1. RecordDecisionAt(g) /\ RecordDecisionFits(g) /\ g \in Handlers
  BY HandlerAt DEF At, Fits
<1>2. ReviewThen(before.caseStatus[g.c], before.infoRequestCount[g.c], "decision_recorded")
        # Illegal
  BY <1>1 DEF RecordDecisionAt
<1>3. ReviewThen(before.caseStatus[g.c], before.infoRequestCount[g.c], "decision_recorded")
        = "DECIDED"
  BY <1>2, ReviewedFirst
<1> QED BY <1>1, <1>3, HandlerAt DEF RecordDecisionAt, RecordDecisionFits, Loaded

(* What stays the same while recordDecision is on its way.                  *)
LEMMA RecordDecisionGoesOn ==
  ASSUME SerialStep, NEW s \in Slots, NEW g, g = handler[s], g.op = "recordDecision",
         NEW h, Continue(s, h), h.op = "recordDecision",
         h.p = g.p, h.c = g.c, h.arg = g.arg, UNCHANGED rowVars, UNCHANGED executed,
         h.pc = "savePayout" => h.arg # "refund",
         h.arg # "refund" /\ h.pc # "payout" =>
           h.pst # Illegal /\ h.pst = ClearedStatus(before.payoutStatus[h.p], h.arg),
         payoutStatus' = IF h.arg # "refund" /\ h.pc \in {"decide", "saveCase", "enqueue"}
                         THEN [before.payoutStatus EXCEPT ![h.p] = h.pst]
                         ELSE before.payoutStatus,
         decisions' = IF h.pc \in {"saveCase", "enqueue"}
                      THEN [before.decisions EXCEPT ![h.c] = Append(@, h.arg)]
                      ELSE before.decisions,
         caseStatus' = IF h.arg # "refund" /\ h.pc = "enqueue"
                       THEN [before.caseStatus EXCEPT ![h.c] = "CLOSED"] ELSE before.caseStatus,
         jobs' = IF Enqueueing(h)
                 THEN [before.jobs EXCEPT ![h.c] = @ \o EnqueuedBy(h)] ELSE before.jobs
  PROVE  Follows
<1>1. ASSUME BeforeStays PROVE At(h)'
  <2>1. RecordDecisionAt(g)
    BY RecordDecisionStays
  <2>2. /\ (SameRefs /\ SameCounts /\ SameRequests /\ SameReplies /\ SameEvidence /\ SameStamps)'
        /\ h.p = before'.payoutRef[h.c]
        /\ ReviewThen(before'.caseStatus[h.c], before'.infoRequestCount[h.c], "decision_recorded")
             # Illegal
    BY <1>1, <2>1 DEF RecordDecisionAt, BeforeStays, rowVars
  <2>3. /\ IF Enqueueing(h) THEN Enqueued(h.c, EnqueuedBy(h))' ELSE SameJobs'
    BY <1>1 DEF Enqueued, BeforeStays, EnqueuedBy
  <2>4. RecordDecisionAt(h)'
    BY <1>1, <2>2, <2>3 DEF RecordDecisionAt, BeforeStays, Enqueueing
  <2> QED BY <2>4 DEF At
<1> QED BY <1>1, ResumeGoesOn DEF rowVars

LEMMA RecordDecisionPayoutFollows ==
  ASSUME SerialStep, NEW s \in Slots, RecordDecisionPayout(s)
  PROVE  Follows
<1>0. PICK g : g = handler[s]
  OBVIOUS
<1> DEFINE to == ClearedStatus(payoutStatus[g.p], g.arg)
<1>1. /\ g.op = "recordDecision" /\ g.pc = "payout" /\ UNCHANGED dbVars
      /\ IF g.arg = "refund" THEN Continue(s, [g EXCEPT !.pc = "decide"])
         ELSE IF to = Illegal THEN Return(s)
         ELSE Continue(s, [g EXCEPT !.pst = to, !.pc = "savePayout"])
  BY <1>0 DEF RecordDecisionPayout, Runs, ContinueAt
<1>2. RecordDecisionAt(g) /\ g \in Handlers
  BY <1>0, <1>1, RecordDecisionStays
<1>3. Untouched
  BY <1>1, <1>2 DEF RecordDecisionAt, Untouched, Enqueueing
<1>4. CASE g.arg # "refund" /\ to = Illegal
  BY <1>1, <1>3, <1>4, ReturnsInVain
<1>5. CASE g.arg = "refund"
  <2>1. PICK h : h = [g EXCEPT !.pc = "decide"]
    OBVIOUS
  <2>2. /\ Continue(s, h) /\ h.op = "recordDecision" /\ h.pc = "decide"
        /\ h.p = g.p /\ h.c = g.c /\ h.arg = g.arg
    BY <1>1, <1>2, <1>5, <2>1 DEF Handlers
  <2> QED BY <1>0, <1>1, <1>3, <1>5, <2>2, RecordDecisionGoesOn
          DEF dbVars, Untouched, Enqueueing
<1>6. CASE g.arg # "refund" /\ to # Illegal
  <2>1. PICK h : h = [g EXCEPT !.pst = to, !.pc = "savePayout"]
    OBVIOUS
  <2>2. /\ Continue(s, h) /\ h.op = "recordDecision" /\ h.pc = "savePayout" /\ h.pst = to
        /\ h.p = g.p /\ h.c = g.c /\ h.arg = g.arg
    BY <1>1, <1>2, <1>6, <2>1 DEF Handlers
  <2>3. to = ClearedStatus(before.payoutStatus[h.p], h.arg)
    BY <1>3, <2>2 DEF Untouched
  <2> QED BY <1>0, <1>1, <1>3, <1>6, <2>2, <2>3, RecordDecisionGoesOn
          DEF dbVars, Untouched, Enqueueing
<1> QED BY <1>4, <1>5, <1>6

LEMMA RecordDecisionSavesPayout ==
  ASSUME SerialStep, NEW s \in Slots, SavePayout(s), handler[s].op = "recordDecision"
  PROVE  Follows
<1>0. PICK g : g = handler[s]
  OBVIOUS
<1>1. PICK h : h = [g EXCEPT !.pc = "decide"]
  OBVIOUS
<1>2. /\ g.op = "recordDecision" /\ g.pc = "savePayout" /\ RecordDecisionAt(g) /\ g \in Handlers
      /\ payoutStatus' = [payoutStatus EXCEPT ![g.p] = g.pst] /\ Continue(s, h)
      /\ UNCHANGED <<caseStatus, rowVars, decisions, executed, jobs>>
  BY <1>0, <1>1, RecordDecisionStays DEF SavePayout, AfterPayoutSaved, ContinueAt
<1>3. /\ h.op = "recordDecision" /\ h.pc = "decide" /\ h.p = g.p /\ h.c = g.c /\ h.arg = g.arg
      /\ h.pst = g.pst
  BY <1>1, <1>2 DEF Handlers
<1>4. /\ g.arg # "refund" /\ g.pst # Illegal /\ SamePayouts /\ SameCases /\ SameDecisions /\ SameJobs
      /\ g.pst = ClearedStatus(before.payoutStatus[g.p], g.arg)
  BY <1>2 DEF RecordDecisionAt, Enqueueing
<1> QED BY <1>0, <1>2, <1>3, <1>4, RecordDecisionGoesOn DEF Enqueueing

LEMMA CreateDecisionFollows ==
  ASSUME SerialStep, NEW s \in Slots, CreateDecision(s)
  PROVE  Follows
<1>0. PICK g : g = handler[s]
  OBVIOUS
<1>1. PICK h : h = IF g.arg = "refund"
                   THEN [g EXCEPT !.pc = "enqueue", !.todo = <<"under_review", "decision">>]
                   ELSE [g EXCEPT !.pc = "saveCase", !.st = "CLOSED"]
  OBVIOUS
<1>2. /\ g.op = "recordDecision" /\ g.pc = "decide" /\ Continue(s, h)
      /\ decisions' = [decisions EXCEPT ![g.c] = Append(@, g.arg)]
      /\ UNCHANGED <<payoutStatus, caseStatus, rowVars, executed, jobs>>
  BY <1>0, <1>1 DEF CreateDecision, Runs
<1>3. RecordDecisionAt(g) /\ g \in Handlers /\ g.c \in CaseIds /\ API!TypeOK
  BY <1>0, <1>2, RecordDecisionStays
<1>4. /\ SameCases /\ SameDecisions /\ SameJobs
      /\ g.arg # "refund" => /\ g.pst # Illegal
                             /\ g.pst = ClearedStatus(before.payoutStatus[g.p], g.arg)
      /\ payoutStatus = IF g.arg # "refund" THEN [before.payoutStatus EXCEPT ![g.p] = g.pst]
                        ELSE before.payoutStatus
  BY <1>2, <1>3 DEF RecordDecisionAt, Enqueueing
<1>5. CASE g.arg = "refund"
  <2>1. /\ h.op = "recordDecision" /\ h.pc = "enqueue" /\ h.p = g.p /\ h.c = g.c /\ h.arg = g.arg
        /\ h.todo = <<"under_review", "decision">>
    BY <1>1, <1>2, <1>3, <1>5 DEF Handlers
  <2>2. jobs = [before.jobs EXCEPT ![h.c] = @ \o EnqueuedBy(h)] /\ Enqueueing(h)
    <3>1. EnqueuedBy(h) = <<>>
      BY <1>5, <2>1, WhatIsEnqueued
    <3>2. Enqueued(h.c, <<>>)
      BY <1>3, <1>4, <2>1, NothingEnqueued
    <3> QED BY <2>1, <3>1, <3>2 DEF Enqueued, Enqueueing
  <2> QED BY <1>0, <1>2, <1>4, <1>5, <2>1, <2>2, RecordDecisionGoesOn
<1>6. CASE g.arg # "refund"
  <2>1. /\ h.op = "recordDecision" /\ h.pc = "saveCase" /\ h.p = g.p /\ h.c = g.c /\ h.arg = g.arg
        /\ h.pst = g.pst
    BY <1>1, <1>2, <1>3, <1>6 DEF Handlers
  <2>2. ~ Enqueueing(h)
    BY <1>6, <2>1 DEF Enqueueing
  <2> QED BY <1>0, <1>2, <1>4, <1>6, <2>1, <2>2, RecordDecisionGoesOn
<1> QED BY <1>5, <1>6

LEMMA RecordDecisionSavesCase ==
  ASSUME SerialStep, NEW s \in Slots, SaveCase(s), handler[s].op = "recordDecision"
  PROVE  Follows
<1>0. PICK g : g = handler[s]
  OBVIOUS
<1>1. /\ g.op = "recordDecision" /\ g.pc = "saveCase"
      /\ caseStatus' = [caseStatus EXCEPT ![g.c] = g.st]
      /\ UNCHANGED <<payoutStatus, rowVars, decisions, executed, jobs>>
      /\ IF g.st = "CLOSED"
         THEN Continue(s, [g EXCEPT !.pc = "enqueue",
                             !.todo = <<"under_review", "decision", "close_no_correction">>])
         ELSE Return(s)
  BY <1>0 DEF SaveCase
<1>2. /\ RecordDecisionAt(g) /\ RecordDecisionFits(g) /\ g \in Handlers /\ g.c \in CaseIds
      /\ API!TypeOK /\ before.overdue = overdue
  BY <1>0, <1>1, RecordDecisionStays
<1>3. /\ SameCases /\ decisions = [before.decisions EXCEPT ![g.c] = Append(@, g.arg)]
      /\ g.arg # "refund" => /\ g.pst # Illegal
                             /\ g.pst = ClearedStatus(before.payoutStatus[g.p], g.arg)
      /\ payoutStatus = IF g.arg # "refund" THEN [before.payoutStatus EXCEPT ![g.p] = g.pst]
                        ELSE before.payoutStatus
      /\ IF g.arg = "refund" THEN Enqueued(g.c, <<"under_review", "decision">>) ELSE SameJobs
      /\ g.st = IF g.arg = "refund" THEN "DECIDED" ELSE "CLOSED"
  BY <1>1, <1>2, WhatIsEnqueued DEF RecordDecisionAt, RecordDecisionFits, Enqueueing
<1>4. CASE g.arg # "refund"
  <2>1. PICK h : h = [g EXCEPT !.pc = "enqueue",
                        !.todo = <<"under_review", "decision", "close_no_correction">>]
    OBVIOUS
  <2>2. /\ h.op = "recordDecision" /\ h.pc = "enqueue" /\ h.p = g.p /\ h.c = g.c /\ h.arg = g.arg
        /\ h.pst = g.pst /\ h.todo = <<"under_review", "decision", "close_no_correction">>
        /\ Continue(s, h)
    BY <1>1, <1>2, <1>3, <1>4, <2>1 DEF Handlers
  <2>3. jobs = [before.jobs EXCEPT ![h.c] = @ \o EnqueuedBy(h)] /\ Enqueueing(h)
    <3>1. EnqueuedBy(h) = <<>>
      BY <1>4, <2>2, WhatIsEnqueued
    <3>2. Enqueued(h.c, <<>>)
      BY <1>2, <1>3, <1>4, <2>2, NothingEnqueued
    <3> QED BY <2>2, <3>1, <3>2 DEF Enqueued, Enqueueing
  <2>4. caseStatus' = [before.caseStatus EXCEPT ![h.c] = "CLOSED"]
    BY <1>1, <1>3, <1>4, <2>2
  <2> QED BY <1>0, <1>1, <1>3, <1>4, <2>2, <2>3, <2>4, RecordDecisionGoesOn, ZenonT(30)
<1>5. CASE g.arg = "refund"
  <2>1. Return(s)
    BY <1>1, <1>3, <1>5
  <2>2. ShadowFits' /\ before' = Rows' /\ UNCHANGED chainVars
    BY <1>1, <2>1, Returns DEF rowVars
  <2>3. /\ before'.caseStatus = [before.caseStatus EXCEPT ![g.c] = "DECIDED"]
        /\ before'.decisions = [before.decisions EXCEPT ![g.c] = Append(@, "refund")]
        /\ before'.jobs = [before.jobs EXCEPT ![g.c] = @ \o <<"under_review", "decision">>]
    BY <1>1, <1>3, <1>5, <2>2 DEF Rows, Enqueued
  <2>4. UNCHANGED <<before.payoutStatus, API!rowVars, before.executed, API!chainVars>>
    BY <1>1, <1>2, <1>3, <1>5, <2>2
    DEF RecordDecisionAt, Rows, rowVars, API!rowVars, API!chainVars, chainVars
  <2>5. API!ReviewThen(before.caseStatus[g.c], before.infoRequestCount[g.c],
                       "decision_recorded") = "DECIDED" /\ "DECIDED" # API!Illegal
    BY <1>0, <1>1, RecordDecisionStays, SameMoves, SameTables DEF Illegal
  <2>6. API!DecideRefund(g.c)
    BY <2>3, <2>4, <2>5 DEF API!DecideRefund, API!MoveCase, API!enqueueAnchor
  <2> QED BY <1>2, <2>2, <2>6 DEF Follows, API!Next
<1> QED BY <1>4, <1>5

LEMMA RecordDecisionEnqueues ==
  ASSUME SerialStep, NEW s \in Slots, EnqueueAnchor(s), handler[s].op = "recordDecision"
  PROVE  Follows
<1>0. PICK g : g = handler[s]
  OBVIOUS
<1>1. /\ g.op = "recordDecision" /\ g.pc = "enqueue"
      /\ jobs' = [jobs EXCEPT ![g.c] = @ \o <<Head(g.todo)>>]
      /\ UNCHANGED <<payoutStatus, caseStatus, rowVars, decisions, executed>>
      /\ IF Len(g.todo) > 1 THEN Continue(s, [g EXCEPT !.todo = Tail(@)])
         ELSE IF g.arg = "refund"
         THEN Continue(s, [g EXCEPT !.todo = <<>>, !.pc = "saveCase", !.st = "DECIDED"])
         ELSE Return(s)
  BY <1>0 DEF EnqueueAnchor, enqueueAnchor
<1>2. /\ RecordDecisionAt(g) /\ RecordDecisionFits(g) /\ g \in Handlers /\ g.c \in CaseIds
      /\ API!TypeOK /\ before.overdue = overdue /\ g.p \in Payments /\ g.p = before.payoutRef[g.c]
      /\ g.arg \in DecisionOutcome
  BY <1>0, <1>1, RecordDecisionStays
<1>3. /\ decisions = [before.decisions EXCEPT ![g.c] = Append(@, g.arg)]
      /\ g.arg # "refund" => /\ g.pst # Illegal
                             /\ g.pst = ClearedStatus(before.payoutStatus[g.p], g.arg)
      /\ payoutStatus = IF g.arg # "refund" THEN [before.payoutStatus EXCEPT ![g.p] = g.pst]
                        ELSE before.payoutStatus
      /\ caseStatus = IF g.arg # "refund" THEN [before.caseStatus EXCEPT ![g.c] = "CLOSED"]
                      ELSE before.caseStatus
      /\ Enqueued(g.c, EnqueuedBy(g))
  BY <1>1, <1>2 DEF RecordDecisionAt, Enqueueing
<1>4. ASSUME NEW kinds, NEW k, EnqueuedBy(g) = kinds, Head(g.todo) = k,
             kinds \in Seq(AnchorJobKind), k \in AnchorJobKind
      PROVE  jobs' = [before.jobs EXCEPT ![g.c] = @ \o (kinds \o <<k>>)]
  <2>1. Enqueued(g.c, kinds) /\ jobs' = [jobs EXCEPT ![g.c] = @ \o <<k>>]
    BY <1>1, <1>3, <1>4
  <2> QED BY <1>2, <1>4, <2>1, EnqueuedMore, ZenonT(30)
<1>5. /\ <<>> \in Seq(AnchorJobKind) /\ <<>> \o <<"under_review">> = <<"under_review">>
      /\ <<"under_review">> \in Seq(AnchorJobKind)
      /\ <<"under_review", "decision">> \in Seq(AnchorJobKind)
      /\ {"under_review", "decision", "close_no_correction"} \subseteq AnchorJobKind
  <2>1. {"under_review", "decision", "close_no_correction"} \subseteq AnchorJobKind
    BY DEF AnchorJobKind
  <2>2. <<>> \in Seq(AnchorJobKind) /\ <<"under_review">> \in Seq(AnchorJobKind)
    BY <2>1
  <2> QED BY <2>1, <2>2, JobPairs, ConcatEmptySeq
(* On the way: the next of several jobs.                                    *)
<1>6. ASSUME NEW kinds, NEW rest, Len(g.todo) > 1, Tail(g.todo) = rest,
             jobs' = [before.jobs EXCEPT ![g.c] = @ \o kinds],
             \A h : h.pc = "enqueue" /\ h.arg = g.arg /\ h.todo = rest => EnqueuedBy(h) = kinds
      PROVE  Follows
  <2>1. PICK h : h = [g EXCEPT !.todo = rest]
    OBVIOUS
  <2>2. /\ h.op = "recordDecision" /\ h.pc = "enqueue" /\ h.p = g.p /\ h.c = g.c /\ h.arg = g.arg
        /\ h.pst = g.pst /\ h.todo = rest /\ Continue(s, h)
    BY <1>1, <1>2, <1>6, <2>1 DEF Handlers
  <2>3. jobs' = [before.jobs EXCEPT ![h.c] = @ \o EnqueuedBy(h)] /\ Enqueueing(h)
    BY <1>6, <2>2 DEF Enqueueing
  <2> QED BY <1>0, <1>1, <1>3, <2>2, <2>3, RecordDecisionGoesOn, ZenonT(30)
<1>7. CASE g.arg = "refund" /\ g.todo = <<"under_review", "decision">>
  <2>1. Len(g.todo) > 1 /\ Tail(g.todo) = <<"decision">> /\ Head(g.todo) = "under_review"
    BY <1>7, Todos
  <2>2. jobs' = [before.jobs EXCEPT ![g.c] = @ \o <<"under_review">>]
    <3>1. EnqueuedBy(g) = <<>>
      BY <1>1, <1>7, WhatIsEnqueued
    <3>2. <<>> \in Seq(AnchorJobKind) /\ "under_review" \in AnchorJobKind
      BY <1>5
    <3>3. jobs' = [before.jobs EXCEPT ![g.c] = @ \o (<<>> \o <<"under_review">>)]
      BY <1>4, <2>1, <3>1, <3>2
    <3> QED BY <1>5, <3>3
  <2>3. \A h : h.pc = "enqueue" /\ h.arg = g.arg /\ h.todo = <<"decision">>
                => EnqueuedBy(h) = <<"under_review">>
    BY <1>7, WhatIsEnqueued
  <2> QED BY <1>6, <2>1, <2>2, <2>3
<1>8. CASE g.arg = "refund" /\ g.todo = <<"decision">>
  <2>1. Len(g.todo) = 1 /\ Head(g.todo) = "decision"
    BY <1>8, Todos
  <2>2. jobs' = [before.jobs EXCEPT ![g.c] = @ \o <<"under_review", "decision">>]
    <3>1. EnqueuedBy(g) = <<"under_review">>
      BY <1>1, <1>8, WhatIsEnqueued
    <3>2. <<"under_review">> \in Seq(AnchorJobKind) /\ "decision" \in AnchorJobKind
      BY <1>5
    <3>3. jobs' = [before.jobs EXCEPT ![g.c] = @ \o (<<"under_review">> \o <<"decision">>)]
      BY <1>4, <2>1, <3>1, <3>2
    <3> QED BY <1>5, <3>3, JobPairs
  <2>3. PICK h : h = [g EXCEPT !.todo = <<>>, !.pc = "saveCase", !.st = "DECIDED"]
    OBVIOUS
  <2>4. /\ h.op = "recordDecision" /\ h.pc = "saveCase" /\ h.p = g.p /\ h.c = g.c /\ h.arg = g.arg
        /\ h.pst = g.pst /\ Continue(s, h)
    BY <1>1, <1>2, <1>8, <2>1, <2>3 DEF Handlers
  <2>5. jobs' = [before.jobs EXCEPT ![h.c] = @ \o EnqueuedBy(h)] /\ Enqueueing(h)
    BY <1>8, <2>2, <2>4, WhatIsEnqueued DEF Enqueueing
  <2> QED BY <1>0, <1>1, <1>3, <1>8, <2>4, <2>5, RecordDecisionGoesOn, ZenonT(30)
<1>9. CASE g.arg # "refund" /\ g.todo = <<"under_review", "decision", "close_no_correction">>
  <2>1. Len(g.todo) > 1 /\ Tail(g.todo) = <<"decision", "close_no_correction">>
        /\ Head(g.todo) = "under_review"
    BY <1>9, Todos
  <2>2. jobs' = [before.jobs EXCEPT ![g.c] = @ \o <<"under_review">>]
    <3>1. EnqueuedBy(g) = <<>>
      BY <1>1, <1>9, WhatIsEnqueued
    <3>2. <<>> \in Seq(AnchorJobKind) /\ "under_review" \in AnchorJobKind
      BY <1>5
    <3>3. jobs' = [before.jobs EXCEPT ![g.c] = @ \o (<<>> \o <<"under_review">>)]
      BY <1>4, <2>1, <3>1, <3>2
    <3> QED BY <1>5, <3>3
  <2>3. \A h : h.pc = "enqueue" /\ h.arg = g.arg /\ h.todo = <<"decision", "close_no_correction">>
                => EnqueuedBy(h) = <<"under_review">>
    BY <1>9, WhatIsEnqueued
  <2> QED BY <1>6, <2>1, <2>2, <2>3
<1>10. CASE g.arg # "refund" /\ g.todo = <<"decision", "close_no_correction">>
  <2>1. Len(g.todo) > 1 /\ Tail(g.todo) = <<"close_no_correction">> /\ Head(g.todo) = "decision"
    BY <1>10, Todos
  <2>2. jobs' = [before.jobs EXCEPT ![g.c] = @ \o <<"under_review", "decision">>]
    <3>1. EnqueuedBy(g) = <<"under_review">>
      BY <1>1, <1>10, WhatIsEnqueued
    <3>2. <<"under_review">> \in Seq(AnchorJobKind) /\ "decision" \in AnchorJobKind
      BY <1>5
    <3>3. jobs' = [before.jobs EXCEPT ![g.c] = @ \o (<<"under_review">> \o <<"decision">>)]
      BY <1>4, <2>1, <3>1, <3>2
    <3> QED BY <1>5, <3>3, JobPairs
  <2>3. \A h : h.pc = "enqueue" /\ h.arg = g.arg /\ h.todo = <<"close_no_correction">>
                => EnqueuedBy(h) = <<"under_review", "decision">>
    BY <1>10, WhatIsEnqueued
  <2> QED BY <1>6, <2>1, <2>2, <2>3
<1>11. CASE g.arg # "refund" /\ g.todo = <<"close_no_correction">>
  <2>1. Len(g.todo) = 1 /\ Head(g.todo) = "close_no_correction"
    BY <1>11, Todos
  <2>2. Return(s)
    BY <1>1, <1>11, <2>1
  <2>3. ShadowFits' /\ before' = Rows' /\ UNCHANGED chainVars
    BY <1>1, <2>2, Returns DEF rowVars
  <2>4. jobs' = [before.jobs EXCEPT ![g.c] =
                   @ \o <<"under_review", "decision", "close_no_correction">>]
    <3>1. EnqueuedBy(g) = <<"under_review", "decision">>
      BY <1>1, <1>11, WhatIsEnqueued
    <3>2. <<"under_review", "decision">> \in Seq(AnchorJobKind) /\ "close_no_correction" \in AnchorJobKind
      BY <1>5
    <3>3. jobs' = [before.jobs EXCEPT ![g.c] = @ \o (<<"under_review", "decision">> \o <<"close_no_correction">>)]
      BY <1>4, <2>1, <3>1, <3>2
    <3> QED BY <1>5, <3>3, JobPairs
  <2>5. /\ before'.caseStatus = [before.caseStatus EXCEPT ![g.c] = "CLOSED"]
        /\ before'.payoutStatus = [before.payoutStatus EXCEPT ![g.p] = g.pst]
        /\ before'.decisions = [before.decisions EXCEPT ![g.c] = Append(@, g.arg)]
        /\ before'.jobs = [before.jobs EXCEPT ![g.c] =
                             @ \o <<"under_review", "decision", "close_no_correction">>]
    BY <1>1, <1>3, <1>11, <2>3, <2>4 DEF Rows
  <2>6. UNCHANGED <<API!rowVars, before.executed, API!chainVars>>
    BY <1>1, <1>2, <2>3
    DEF RecordDecisionAt, Rows, rowVars, API!rowVars, API!chainVars, chainVars
  <2>7. /\ API!ReviewThen(before.caseStatus[g.c], before.infoRequestCount[g.c],
                          "decision_recorded") = "DECIDED"
        /\ API!ApplyCaseEvent("DECIDED", before.infoRequestCount[g.c], "close") = "CLOSED"
        /\ "DECIDED" # API!Illegal /\ "CLOSED" # API!Illegal
    BY <1>0, <1>1, RecordDecisionStays, SameMoves, SameTables, DecidedCloses DEF Illegal
  <2>8. g.pst # API!Illegal /\ g.pst = API!ClearedStatus(before.payoutStatus[g.p], g.arg)
    BY <1>3, <1>11, SameMoves, SameTables
  <2>9. API!DecideClear(g.c, g.arg)
    BY <1>2, <2>5, <2>6, <2>7, <2>8
    DEF API!DecideClear, API!MoveCase, API!MovePayout, API!enqueueAnchor
  <2>10. g.arg \in {"release", "no_action"}
    BY <1>2, <1>11 DEF DecisionOutcome
  <2> QED BY <1>2, <2>3, <2>9, <2>10 DEF Follows, API!Next
<1> QED BY <1>1, <1>2, <1>7, <1>8, <1>9, <1>10, <1>11 DEF RecordDecisionFits

-----------------------------------------------------------------------------
LEMMA ResumeFollows == ASSUME SerialStep, NEW s \in Slots, Resume(s) PROVE Follows
<1>1. Fits(handler[s]) /\ handler[s] \in Handlers
  BY HandlerAt
<1>2. CASE SavePayout(s)
  <2>1. handler[s].op \in {"openDispute", "recordDecision", "stampRefundTx", "confirmRefund",
                           "payoutHook"}
    BY <1>1, <1>2 DEF SavePayout, Fits, Handlers, Ops, SubmitResponseFits, AttachEvidenceFits,
       RequestInfoFits, DeadlinePassedFits, TickFits
  <2> QED BY <1>2, <2>1, OpenDisputeSavesPayout, RecordDecisionSavesPayout,
             StampRefundTxSavesPayout, ConfirmRefundSavesPayout, PayoutHookSaves
<1>3. CASE SaveCase(s)
  <2>1. handler[s].op \in {"recordDecision", "stampRefundTx", "confirmRefund", "deadlinePassed"}
    BY <1>1, <1>3 DEF SaveCase, Fits, Handlers, Ops, OpenDisputeFits, SubmitResponseFits,
       AttachEvidenceFits, RequestInfoFits, PayoutHookFits, TickFits
  <2> QED BY <1>3, <2>1, RecordDecisionSavesCase, StampRefundTxLands, ConfirmRefundSavesCase,
             DeadlinePassedSaves
<1>4. CASE EnqueueAnchor(s)
  <2>1. handler[s].op \in {"openDispute", "submitResponse", "recordDecision", "confirmRefund"}
    BY <1>1, <1>4 DEF EnqueueAnchor, Fits, Handlers, Ops, AttachEvidenceFits, RequestInfoFits,
       StampRefundTxFits, PayoutHookFits, DeadlinePassedFits, TickFits
  <2> QED BY <1>4, <2>1, OpenDisputeLands, SubmitResponseLands, RecordDecisionEnqueues,
             ConfirmRefundEnqueues
<1> QED BY <1>2, <1>3, <1>4, OpenDisputeCheckFollows, NextCaseNumberFollows, CreateCaseFollows,
     ServeNoticeFollows, CreateResponseFollows, AttachInResponseFollows, CreateEvidenceFollows,
     SaveResponseFollows, SaveInfoRequestFollows, RecordDecisionPayoutFollows,
     CreateDecisionFollows, StampDecisionFollows, StampPayoutFollows, FindDecidedCaseFollows,
     ExecuteDecisionFollows, SchedulerSaveFollows DEF Resume

-----------------------------------------------------------------------------
(* The chain and the clock, whatever a handler is in the middle of.         *)

LEMMA AtStays ==
  ASSUME NEW h, At(h), Fits(h), BeforeStays, overdue \subseteq overdue',
         \A p \in Payments : chainWithdrawn[p] => chainWithdrawn'[p],
         UNCHANGED <<payoutStatus, caseStatus, payoutRef, infoRequestCount, unanswered, replied,
                     lateEvidence, version, decisions, executed, jobs>>
  PROVE  At(h)'
<1> USE DEF BeforeStays
<1>0. /\ \A p : (API!OpenCasesOn(p))' = API!OpenCasesOn(p)
      /\ \A p : (API!DecidedOn(p))' = API!DecidedOn(p)
      /\ \A c : (API!FileEvidence(c))' = API!FileEvidence(c)
      /\ \A c : (API!ExecutedThenClosed(c))' = API!ExecutedThenClosed(c)
  BY DEF API!OpenCasesOn, API!IsOpen, API!DecidedOn, API!FileEvidence, API!ExecutedThenClosed
<1>1. Untouched => Untouched'
  BY DEF Untouched
<1>2. h.op = "openDispute" => OpenDisputeAt(h)'
  <2>1. Existing' = Existing
    BY DEF Existing, Exists
  <2>2. (API!OpenCasesOn(h.p))' = API!OpenCasesOn(h.p)
    BY <1>0
  <2> QED BY <2>1, <2>2 DEF At, OpenDisputeAt
<1>3. h.op = "submitResponse" => SubmitResponseAt(h)'
  <2>1. (API!FileEvidence(h.c))' = API!FileEvidence(h.c)
    BY <1>0
  <2> QED BY <2>1 DEF At, SubmitResponseAt
<1>4. h.op = "attachEvidence" => AttachEvidenceAt(h)'
  BY <1>1 DEF At, AttachEvidenceAt
<1>5. h.op = "requestInfo" => RequestInfoAt(h)'
  BY <1>1 DEF At, RequestInfoAt
<1>6. h.op = "recordDecision" => RecordDecisionAt(h)'
  <2>1. Enqueued(h.c, EnqueuedBy(h)) => Enqueued(h.c, EnqueuedBy(h))'
    BY DEF Enqueued, EnqueuedBy
  <2> QED BY <2>1 DEF At, RecordDecisionAt, Enqueueing
<1>7. h.op = "stampRefundTx" => StampRefundTxAt(h)'
  BY DEF At, StampRefundTxAt
<1>8. h.op = "confirmRefund" => ConfirmRefundAt(h)'
  <2>1. /\ (API!DecidedOn(h.p))' = API!DecidedOn(h.p)
        /\ (API!ExecutedThenClosed(h.c))' = API!ExecutedThenClosed(h.c)
    BY <1>0
  <2> QED BY <2>1 DEF At, ConfirmRefundAt, Enqueued
<1>9. h.op = "payoutHook" => PayoutHookAt(h)'
  BY <1>1 DEF At, PayoutHookAt, Fits, PayoutHookFits
<1>10. h.op = "deadlinePassed" => DeadlinePassedAt(h)'
  BY <1>1 DEF At, DeadlinePassedAt
<1>11. h.op = "tick" => TickAt(h)'
  BY <1>1 DEF At, TickAt
<1>12. h.op = "idle" => Untouched'
  BY <1>1 DEF At
<1> QED BY <1>2, <1>3, <1>4, <1>5, <1>6, <1>7, <1>8, <1>9, <1>10, <1>11, <1>12 DEF At

(* What DisputeApi sees of a step that is none of a handler.                *)
LEMMA OutsideStays ==
  ASSUME StepsInv, StepsInv', ShadowFits,
         \/ before' = IF AtRest' THEN Rows' ELSE [before EXCEPT !.overdue = overdue']
         \/ before' = before /\ overdue' = overdue,
         overdue \subseteq overdue',
         \A p \in Payments : chainWithdrawn[p] => chainWithdrawn'[p],
         UNCHANGED <<payoutStatus, caseStatus, payoutRef, infoRequestCount, unanswered, replied,
                     lateEvidence, version, decisions, executed, jobs, handler>>
  PROVE  ShadowFits' /\ BeforeStays /\ before'.overdue = overdue'
<1>1. AtRest' = AtRest
  BY DEF AtRest
<1>2. /\ BeforeStays /\ before'.overdue = overdue'
      /\ before' = [payoutStatus |-> before'.payoutStatus, caseStatus |-> before'.caseStatus,
               payoutRef |-> before'.payoutRef, infoRequestCount |-> before'.infoRequestCount,
               unanswered |-> before'.unanswered, overdue |-> before'.overdue,
               replied |-> before'.replied, lateEvidence |-> before'.lateEvidence,
               decisions |-> before'.decisions, executed |-> before'.executed,
               jobs |-> before'.jobs]
  <2>1. CASE before' = Rows' /\ AtRest
    BY <2>1 DEF ShadowFits, Untouched, Rows, BeforeStays
  <2>2. CASE before' = [before EXCEPT !.overdue = overdue']
    BY <2>2 DEF ShadowFits, BeforeStays
  <2>3. CASE before' = before /\ overdue' = overdue
    BY <2>3 DEF ShadowFits, BeforeStays
  <2> QED BY <1>1, <2>1, <2>2, <2>3
<1>3. API!TypeOK'
  <2>1. /\ API!TypeOK /\ overdue' \in SUBSET CaseIds /\ chainRefund' \in [Payments -> API!Refunds]
        /\ chainWithdrawn' \in [Payments -> BOOLEAN]
    BY DEF ShadowFits, StepsInv, StepsTypeOK, TypeOK, Refunds, API!Refunds
  <2> QED BY <1>2, <2>1 DEF API!TypeOK, BeforeStays
<1>4. ASSUME NEW s \in Slots PROVE At(handler[s])'
  <2>1. PICK h : h = handler[s]
    OBVIOUS
  <2>2. At(h) /\ Fits(h)
    BY <2>1, InTheAir DEF ShadowFits
  <2>3. At(h)'
    BY <1>2, <2>2, AtStays
  <2>4. handler'[s] = h
    BY <2>1
  <2> QED BY <2>3, <2>4
<1>5. Numbered'
  BY DEF ShadowFits, Numbered, Existing, Exists
<1>6. AtRest' => Untouched'
  BY <1>1, <1>2 DEF ShadowFits, Untouched, BeforeStays
<1> QED BY <1>2, <1>3, <1>4, <1>5, <1>6 DEF ShadowFits

(* A case that nobody is opening is under its payment already.              *)
LEMMA RefsBefore ==
  ASSUME OneAtATime, StepsInv, ShadowFits, NEW c \in CaseIds,
         \A s \in Slots : ~ (handler[s].op = "openDispute" /\ handler[s].c = c
                             /\ handler[s].pc \in {"serve", "enqueue"})
  PROVE  before.payoutRef[c] = payoutRef[c]
<1>1. CASE AtRest
  BY <1>1 DEF ShadowFits, Untouched
<1>2. CASE ~ AtRest
  <2>1. PICK s \in Slots : handler[s].op \notin {"idle", "tick"}
    BY <1>2 DEF AtRest
  <2>2. PICK h : h = handler[s]
    OBVIOUS
  <2>3. At(h) /\ h \in Handlers /\ Fits(h)
    BY <2>2, InTheAir DEF ShadowFits
  <2>4. CASE h.op = "openDispute"
    <3>1. OpenDisputeAt(h) /\ ~ (h.c = c /\ h.pc \in {"serve", "enqueue"})
      BY <2>2, <2>3, <2>4 DEF At
    <3> QED BY <2>3, <3>1 DEF OpenDisputeAt, ShadowFits, API!TypeOK
  <2>5. CASE h.op # "openDispute"
    <3>1. SameRefs
      BY <2>1, <2>2, <2>3, <2>5 DEF At, Handlers, Ops, Untouched, SubmitResponseAt, AttachEvidenceAt,
         RequestInfoAt, RecordDecisionAt, StampRefundTxAt, ConfirmRefundAt, PayoutHookAt,
         DeadlinePassedAt
    <3> QED BY <3>1
  <2> QED BY <2>4, <2>5
<1> QED BY <1>1, <1>2

(* A refund is sent for a case that was decided when DisputeApi last looked. *)
LEMMA DecisionsBefore ==
  ASSUME OneAtATime, StepsInv, ShadowFits, NEW c \in CaseIds, Answered(c)
  PROVE  before.decisions[c] # <<>> /\ Head(before.decisions[c]) = Head(decisions[c])
<1>1. /\ decisions[c] \in Seq(DecisionOutcome) /\ before.decisions[c] \in Seq(DecisionOutcome)
      /\ before.decisions \in [CaseIds -> Seq(DecisionOutcome)]
  BY DEF StepsInv, StepsTypeOK, TypeOK, ShadowFits, API!TypeOK, API!DecisionOutcome, DecisionOutcome
<1>2. Len(decisions[c]) > Cardinality(Deciding(c)) /\ Cardinality(Deciding(c)) \in Nat
  BY SlotsAssumption, FS_Subset, FS_CardinalityType DEF Answered, Deciding
<1>3. CASE decisions[c] = before.decisions[c]
  BY <1>1, <1>2, <1>3
<1>4. CASE decisions[c] # before.decisions[c]
  <2>1. PICK s \in Slots : handler[s].op \notin {"idle", "tick"}
    BY <1>4 DEF ShadowFits, Untouched, AtRest
  <2>2. PICK h : h = handler[s]
    OBVIOUS
  <2>3. At(h) /\ h \in Handlers /\ Fits(h)
    BY <2>2, InTheAir DEF ShadowFits
  <2>4. h.op = "recordDecision"
    BY <1>4, <2>1, <2>2, <2>3 DEF At, Handlers, Ops, Untouched, OpenDisputeAt, SubmitResponseAt,
       AttachEvidenceAt, RequestInfoAt, StampRefundTxAt, ConfirmRefundAt, PayoutHookAt,
       DeadlinePassedAt
  <2>5. h.pc \in {"saveCase", "enqueue"} /\ h.arg \in DecisionOutcome
        /\ decisions = [before.decisions EXCEPT ![h.c] = Append(@, h.arg)]
    BY <1>4, <2>3, <2>4 DEF At, RecordDecisionAt, Fits, RecordDecisionFits
  <2>6. h.c = c /\ decisions[c] = Append(before.decisions[c], h.arg)
    BY <1>1, <1>4, <2>5
  <2>7. Deciding(c) = {s}
    BY <2>2, <2>4, <2>5, <2>6 DEF Deciding, OneAtATime
  <2>8. Cardinality(Deciding(c)) = 1
    BY <2>7, FS_Singleton
  <2>9. Len(decisions[c]) = Len(before.decisions[c]) + 1 /\ Len(before.decisions[c]) \in Nat
    BY <1>1, <2>5, <2>6, AppendProperties, LenProperties
  <2>10. Len(before.decisions[c]) > 0
    BY <1>2, <2>8, <2>9
  <2>11. Append(before.decisions[c], h.arg)[1] = before.decisions[c][1]
    BY <1>1, <2>5, <2>9, <2>10, AppendProperties
  <2> QED BY <1>1, <2>6, <2>10, <2>11
<1> QED BY <1>3, <1>4


(* A case whose refund is sent is not one that is being opened.             *)
LEMMA DecidedIsOpened ==
  ASSUME OneAtATime, StepsInv, ShadowFits, NEW c \in CaseIds, decisions[c] # <<>>
  PROVE  before.payoutRef[c] = payoutRef[c]
<1>1. ASSUME NEW s \in Slots
      PROVE  ~ (handler[s].op = "openDispute" /\ handler[s].c = c
                /\ handler[s].pc \in {"serve", "enqueue"})
  <2>1. At(handler[s])
    BY DEF ShadowFits
  <2> QED BY <2>1 DEF At, OpenDisputeAt
<1> QED BY <1>1, RefsBefore

LEMMA ChainFollows ==
  ASSUME SerialStep, UNCHANGED <<version, handler, calls>>,
         NEW refund, NEW withdrawn, ChainStep(refund, withdrawn),
         \A p \in Payments : chainWithdrawn[p] => chainWithdrawn'[p]
  PROVE  ShadowFits' /\ API!ChainStep(refund, withdrawn)
<1>1. /\ overdue' = overdue
      /\ UNCHANGED <<payoutStatus, caseStatus, payoutRef, infoRequestCount, unanswered, replied,
                     lateEvidence, version, decisions, executed, jobs, handler>>
  BY DEF ChainStep, rowVars
<1>2. ShadowFits' /\ BeforeStays /\ before'.overdue = overdue'
  BY <1>1, OutsideStays DEF SerialStep, SerialNext
<1>3. before.overdue = overdue
  BY DEF SerialStep, ShadowFits
<1> QED BY <1>1, <1>2, <1>3 DEF ChainStep, API!ChainStep, API!rowVars, BeforeStays

LEMMA SendRefundFollows ==
  ASSUME SerialStep, UNCHANGED <<version, handler, calls>>,
         NEW c \in CaseIds, Answered(c), SendRefund(c)
  PROVE  Follows
<1>1. /\ RefundDecided(c) /\ chainRefund[payoutRef[c]] \in {"no", "reverted"}
      /\ ChainStep([chainRefund EXCEPT ![payoutRef[c]] = "sent"], chainWithdrawn)
  BY DEF SendRefund
<1>2. before.payoutRef[c] = payoutRef[c]
  BY <1>1, DecidedIsOpened DEF SerialStep, RefundDecided
<1>3. API!RefundDecided(c)
  BY <1>1, DecisionsBefore DEF SerialStep, RefundDecided, API!RefundDecided
<1>4. chainWithdrawn' = chainWithdrawn
  BY <1>1 DEF ChainStep
<1>5. ShadowFits' /\ API!ChainStep([chainRefund EXCEPT ![payoutRef[c]] = "sent"], chainWithdrawn)
  BY <1>1, <1>4, ChainFollows
<1>6. API!SendRefund(c)
  BY <1>1, <1>2, <1>3, <1>5 DEF API!SendRefund
<1> QED BY <1>5, <1>6 DEF Follows, API!Next

LEMMA PaymentOnChainFollows ==
  ASSUME SerialStep, UNCHANGED <<version, handler, calls>>, NEW p \in Payments,
         \/ \E result \in {"arbiter", "reverted"} : SettleRefund(p, result)
         \/ RefundByRecipient(p)
         \/ WithdrawOnChain(p)
  PROVE  Follows
<1>1. ASSUME NEW result \in {"arbiter", "reverted"}, SettleRefund(p, result) PROVE Follows
  <2>1. chainRefund[p] = "sent" /\ ChainStep([chainRefund EXCEPT ![p] = result], chainWithdrawn)
    BY <1>1 DEF SettleRefund
  <2>2. chainWithdrawn' = chainWithdrawn
    BY <2>1 DEF ChainStep
  <2>3. ShadowFits' /\ API!ChainStep([chainRefund EXCEPT ![p] = result], chainWithdrawn)
    BY <2>1, <2>2, ChainFollows
  <2>4. API!SettleRefund(p, result)
    BY <2>1, <2>3 DEF API!SettleRefund
  <2> QED BY <2>3, <2>4 DEF Follows, API!Next
<1>2. CASE RefundByRecipient(p)
  <2>1. /\ ~ RefundedOnChain(p)
        /\ ChainStep([chainRefund EXCEPT ![p] = "recipient"], chainWithdrawn)
    BY <1>2 DEF RefundByRecipient
  <2>2. chainWithdrawn' = chainWithdrawn
    BY <2>1 DEF ChainStep
  <2>3. ShadowFits' /\ API!ChainStep([chainRefund EXCEPT ![p] = "recipient"], chainWithdrawn)
    BY <2>1, <2>2, ChainFollows
  <2>4. API!RefundByRecipient(p)
    BY <2>1, <2>3 DEF API!RefundByRecipient, API!RefundedOnChain, RefundedOnChain
  <2> QED BY <2>3, <2>4 DEF Follows, API!Next
<1>3. CASE WithdrawOnChain(p)
  <2>1. /\ ~ RefundedOnChain(p) /\ ~ chainWithdrawn[p]
        /\ ChainStep(chainRefund, [chainWithdrawn EXCEPT ![p] = TRUE])
    BY <1>3 DEF WithdrawOnChain
  <2>2. \A q \in Payments : chainWithdrawn[q] => chainWithdrawn'[q]
    BY <2>1 DEF ChainStep, SerialStep, StepsInv, StepsTypeOK, TypeOK
  <2>3. ShadowFits' /\ API!ChainStep(chainRefund, [chainWithdrawn EXCEPT ![p] = TRUE])
    BY <2>1, <2>2, ChainFollows
  <2>4. API!WithdrawOnChain(p)
    BY <2>1, <2>3 DEF API!WithdrawOnChain, API!RefundedOnChain, RefundedOnChain
  <2> QED BY <2>3, <2>4 DEF Follows, API!Next
<1> QED BY <1>1, <1>2, <1>3

LEMMA DeadlineElapsesFollows ==
  ASSUME SerialStep, UNCHANGED <<version, handler, calls>>, NEW c \in CaseIds,
         \A s \in Slots : ~ (handler[s].op = "openDispute" /\ handler[s].c = c),
         DeadlineElapses(c)
  PROVE  Follows
<1>1. /\ caseStatus[c] # NoCase /\ c \notin overdue /\ overdue' = overdue \cup {c}
      /\ UNCHANGED <<payoutStatus, caseStatus, payoutRef, infoRequestCount, unanswered, replied,
                     lateEvidence, version, decisions, executed, jobs, handler, chainVars>>
  BY DEF DeadlineElapses
<1>2. before.payoutRef[c] = payoutRef[c]
  BY RefsBefore DEF SerialStep
<1>3. before.overdue = overdue /\ API!TypeOK /\ TypeOK
  BY DEF SerialStep, ShadowFits, StepsInv, StepsTypeOK
<1>4. before.caseStatus[c] # API!NoCase
  BY <1>1, <1>2, <1>3 DEF API!TypeOK, TypeOK
<1>5. chainWithdrawn' = chainWithdrawn /\ chainRefund' = chainRefund
  BY <1>1 DEF chainVars
<1>6. ShadowFits' /\ BeforeStays /\ before'.overdue = overdue'
  BY <1>1, <1>5, OutsideStays DEF SerialStep, SerialNext
<1>7. API!DeadlineElapses(c)
  BY <1>1, <1>3, <1>4, <1>5, <1>6 DEF API!DeadlineElapses, API!chainVars, BeforeStays
<1> QED BY <1>6, <1>7 DEF Follows, API!Next

LEMMA OutsideFollows == ASSUME SerialStep, Outside PROVE Follows
BY SendRefundFollows, PaymentOnChainFollows, DeadlineElapsesFollows DEF Outside

-----------------------------------------------------------------------------
(* Decisions are about cases there are, at every step.                      *)
LEMMA DecisionsKeepCases ==
  ASSUME StepsInv, StepsInv', DecisionsHaveCases, [NextSteps]_stepVars
  PROVE  DecisionsHaveCases'
<1> USE DEF StepsInv, StepsTypeOK, TypeOK
<1>1. CASE UNCHANGED <<decisions, payoutRef>>
  BY <1>1 DEF DecisionsHaveCases
<1>2. ASSUME NEW s \in Slots, CreateCase(s) PROVE DecisionsHaveCases'
  <2>1. PICK h : h = handler[s]
    OBVIOUS
  <2>2. decisions' = decisions /\ Fits(h) /\ h.op = "openDispute" /\ h.pc = "create"
    BY <1>2, <2>1, InTheAir DEF CreateCase, Runs, dbVars
  <2>3. payoutRef' = payoutRef \/ payoutRef' = [payoutRef EXCEPT ![h.c] = h.p]
    BY <1>2, <2>1 DEF CreateCase, dbVars, rowVars
  <2>4. h.p \in Payments
    BY <2>2 DEF Fits, OpenDisputeFits
  <2> QED BY <2>2, <2>3, <2>4, NoPayoutAssumption DEF DecisionsHaveCases
<1>3. ASSUME NEW s \in Slots, CreateDecision(s) PROVE DecisionsHaveCases'
  <2>1. PICK h : h = handler[s]
    OBVIOUS
  <2>2. /\ payoutRef' = payoutRef /\ Fits(h) /\ h.op = "recordDecision"
        /\ decisions' = [decisions EXCEPT ![h.c] = Append(@, h.arg)]
    BY <1>3, <2>1, InTheAir DEF CreateDecision, Runs, rowVars
  <2>3. h.c \in CaseIds /\ payoutRef[h.c] # NoPayout
    BY <2>2, NoPayoutAssumption DEF Fits, RecordDecisionFits, Loaded, Exists
  <2> QED BY <2>2, <2>3 DEF DecisionsHaveCases
<1>4. ASSUME NEW s \in Slots, Start(s) PROVE UNCHANGED <<decisions, payoutRef>>
  BY <1>4 DEF Start, OpenDisputeLoad, ConfirmRefundLoad, ConfirmWithdrawnLoad, LockupEndedLoad,
     DebtSettledLoad, PayoutHookLoad, SubmitResponseLoad, AttachEvidenceLoad, RequestInfoLoad,
     RecordDecisionLoad, StampRefundTxLoad, DeadlinePassedLoad, SchedulerFind, Call, dbVars,
     rowVars
<1>5. ASSUME NEW s \in Slots, Resume(s) PROVE DecisionsHaveCases'
  <2>1. CreateCase(s) \/ CreateDecision(s) \/ UNCHANGED <<decisions, payoutRef>>
    BY <1>5 DEF Resume, OpenDisputeCheck, NextCaseNumber, ServeNotice, CreateResponse,
       AttachInResponse, CreateEvidence, SaveResponse, SaveInfoRequest, RecordDecisionPayout,
       StampDecision, StampPayout, FindDecidedCase, ExecuteDecision, SchedulerSave, SavePayout,
       SaveCase, EnqueueAnchor, dbVars, rowVars
  <2> QED BY <1>1, <1>2, <1>3, <2>1
<1>6. CASE Outside
  BY <1>1, <1>6 DEF Outside, SendRefund, SettleRefund, RefundByRecipient, WithdrawOnChain,
     ChainStep, DeadlineElapses, rowVars
<1>7. CASE Crash \/ UNCHANGED stepVars
  BY <1>1, <1>7 DEF Crash, stepVars, dbVars, rowVars
<1> QED BY <1>1, <1>4, <1>5, <1>6, <1>7 DEF NextSteps

LEMMA SerialInitially ==
  SerialInit => StepsInv /\ DecisionsHaveCases /\ ShadowFits /\ API!Init
<1> SUFFICES ASSUME SerialInit PROVE StepsInv /\ DecisionsHaveCases /\ ShadowFits /\ API!Init
  OBVIOUS
<1>1. InitSteps /\ Init /\ before = Rows /\ handler = [s \in Slots |-> Idle]
  BY DEF SerialInit, InitSteps
<1>2. StepsInv /\ TypeOK
  BY <1>1, StepsInvInitially DEF StepsInv, StepsTypeOK
<1>3. DecisionsHaveCases
  BY <1>1 DEF Init, DecisionsHaveCases
<1>4. Untouched /\ before.overdue = overdue
  BY <1>1 DEF Rows, Untouched
<1>5. API!Init
  BY <1>1, <1>4 DEF Init, API!Init, Untouched, NoCase, API!NoCase
<1>6. API!TypeOK
  <2>1. /\ API!CaseStatus = CaseStatus /\ API!PaymentStatus = PaymentStatus
        /\ API!NoCase = NoCase /\ API!Parties = Parties
        /\ API!AnchorJobKind = AnchorJobKind /\ API!Refunds = Refunds
        /\ API!DecisionOutcome = DecisionOutcome
    BY DEF API!CaseStatus, CaseStatus, API!PaymentStatus, PaymentStatus, API!NoCase, NoCase,
       API!Parties, Parties, API!AnchorJobKind, AnchorJobKind, API!Refunds, Refunds,
       API!DecisionOutcome, DecisionOutcome
  <2> QED BY <1>2, <1>4, <2>1 DEF Untouched, API!TypeOK, TypeOK
<1>7. Numbered
  <2>1. Existing = {}
    BY <1>1 DEF Init, Existing, Exists
  <2>2. 1..0 = {} /\ 0 \in 0..MaxCases
    BY CaseIdsAssumption
  <2> QED BY <2>1, <2>2 DEF Numbered
<1>8. ASSUME NEW s \in Slots PROVE At(handler[s])
  BY <1>1, <1>4 DEF At, Idle
<1> QED BY <1>1, <1>2, <1>3, <1>4, <1>5, <1>6, <1>7, <1>8 DEF ShadowFits, Rows

(* A step of one handler at a time is a step of DisputeApi, or none.        *)
LEMMA SerialInductive ==
  ASSUME OneAtATime, StepsInv, DecisionsHaveCases, ShadowFits,
         [SerialNext]_<<stepVars, before>>
  PROVE  StepsInv' /\ DecisionsHaveCases' /\ Follows
<1>1. [NextSteps]_stepVars
  BY DEF SerialNext
<1>2. StepsInv'
  BY <1>1, StepsInvInductive
<1>3. DecisionsHaveCases'
  BY <1>1, <1>2, DecisionsKeepCases
<1>4. CASE SerialNext
  <2>1. SerialStep
    BY <1>2, <1>4 DEF SerialStep
  <2>2. ~ Crash
    BY DEF Crash, OneAtATime
  <2> QED BY <1>2, <1>3, <1>4, <2>1, <2>2, StartFollows, ResumeFollows, OutsideFollows
          DEF SerialNext, NextSteps
<1>5. CASE UNCHANGED <<stepVars, before>>
  <2>1. /\ before' = before /\ overdue' = overdue /\ UNCHANGED chainVars
        /\ UNCHANGED <<payoutStatus, caseStatus, payoutRef, infoRequestCount, unanswered, replied,
                       lateEvidence, version, decisions, executed, jobs, handler>>
    BY <1>5 DEF stepVars, dbVars, rowVars
  <2>2. ShadowFits'
    BY <1>2, <2>1, OutsideStays DEF chainVars
  <2>3. UNCHANGED API!vars
    BY <2>1 DEF API!vars, API!rowVars, API!chainVars, chainVars
  <2> QED BY <1>2, <1>3, <2>2, <2>3 DEF Follows
<1> QED BY <1>4, <1>5

(* DisputeSteps implements DisputeApi: while one handler runs at a time, and *)
(* is not cut off, every call the backend answers has the effect of one      *)
(* action of the API on rows nobody sees half written, or none at all.       *)
THEOREM StepsImplementApi ==
  ASSUME OneAtATime
  PROVE  SerialSpec => ImplementsApi
<1> DEFINE Inv == StepsInv /\ DecisionsHaveCases /\ ShadowFits
<1>1. SerialInit => Inv /\ API!Init
  BY SerialInitially
<1>2. Inv /\ [SerialNext]_<<stepVars, before>> => Inv' /\ [API!Next]_(API!vars)
  BY SerialInductive DEF Follows
<1> QED BY <1>1, <1>2, PTL DEF SerialSpec, ImplementsApi, API!Spec

=============================================================================
