--------------------------- MODULE StateMachines ---------------------------
(***************************************************************************)
(* The two pure, table-driven state machines of the dispute-resolution     *)
(* backend (backend/src/stateMachines.ts).  An event that is not legal in  *)
(* the current status makes the code throw IllegalTransitionError; here    *)
(* the result is the value Illegal, and each caller says what it does with *)
(* the exception.                                                          *)
(***************************************************************************)
EXTENDS Naturals

CONSTANT MAX_INFO_REQUESTS   \* how often the arbiter may ask for information

ASSUME MaxInfoRequestsAssumption == MAX_INFO_REQUESTS \in Nat

Illegal == "IllegalTransition"

PaymentStatus ==
  {"ESCROWED", "DISPUTED", "CLEARED", "WITHDRAWABLE", "WITHDRAWN",
   "REFUNDED", "DEBT_OUTSTANDING", "DEBT_SETTLED"}

CaseStatus ==
  {"OPEN", "AWAITING_RESPONSE", "UNDER_REVIEW", "DECIDED", "EXECUTED", "CLOSED"}

DecisionOutcome == {"refund", "release", "no_action"}

----------------------------------------------------------------------------
(* The payment machine: <<from, event, to>>.                               *)

PAYMENT_EDGES ==
  { <<"ESCROWED",         "dispute_opened",            "DISPUTED">>,
    <<"ESCROWED",         "lockup_end_no_dispute",     "WITHDRAWABLE">>,
    <<"DISPUTED",         "refund_confirmed",          "REFUNDED">>,
    <<"DISPUTED",         "decision_release",          "CLEARED">>,
    <<"DISPUTED",         "decision_no_action",        "CLEARED">>,
    <<"CLEARED",          "lockup_end_after_clear",    "WITHDRAWABLE">>,
    <<"WITHDRAWABLE",     "withdraw",                  "WITHDRAWN">>,
    <<"WITHDRAWABLE",     "dispute_opened",            "DISPUTED">>,
    <<"WITHDRAWN",        "dispute_opened",            "DISPUTED">>,
    <<"WITHDRAWN",        "refund_short_balance",      "DEBT_OUTSTANDING">>,
    <<"REFUNDED",         "refund_short_balance",      "DEBT_OUTSTANDING">>,
    <<"DEBT_OUTSTANDING", "next_payment_absorbs_debt", "DEBT_SETTLED">> }

(* The edge a table takes from a status, or the exception if it has none.   *)
TakeEdge(edges, from, event) ==
  IF \E edge \in edges : edge[1] = from /\ edge[2] = event
  THEN (CHOOSE edge \in edges : edge[1] = from /\ edge[2] = event)[3]
  ELSE Illegal

ApplyPaymentEvent(from, event) == TakeEdge(PAYMENT_EDGES, from, event)

(* Where a refund seen on chain takes the payout; with a debt recorded it    *)
(* goes on to DEBT_OUTSTANDING in the same save.                             *)
RefundedStatus(status, debtRecorded) ==
  LET refunded == ApplyPaymentEvent(status, "refund_confirmed")
  IN  IF debtRecorded /\ refunded # Illegal
      THEN ApplyPaymentEvent(refunded, "refund_short_balance")
      ELSE refunded

(* Which of the two lockup_end_* events a hook picks.                        *)
LockupEvent(status) ==
  IF status = "CLEARED" THEN "lockup_end_after_clear" ELSE "lockup_end_no_dispute"

(* confirmWithdrawn: a lockup whose end was not reported is ended first.     *)
WithdrawnStatus(status) ==
  LET unlocked == IF status \in {"ESCROWED", "CLEARED"}
                  THEN ApplyPaymentEvent(status, LockupEvent(status))
                  ELSE status
  IN  ApplyPaymentEvent(unlocked, "withdraw")

----------------------------------------------------------------------------
(* The case machine: the branches of its switch.  The three events          *)
(* decision_recorded_* have the same edge; only request_info looks at (and  *)
(* raises) the counter.                                                     *)

CASE_EDGES ==
  { <<"OPEN",              "notice_served",     "AWAITING_RESPONSE">>,
    <<"AWAITING_RESPONSE", "reply_received",    "UNDER_REVIEW">>,
    <<"UNDER_REVIEW",      "reply_received",    "UNDER_REVIEW">>,
    <<"AWAITING_RESPONSE", "deadline_passed",   "UNDER_REVIEW">>,
    <<"UNDER_REVIEW",      "request_info",      "AWAITING_RESPONSE">>,
    <<"UNDER_REVIEW",      "decision_recorded", "DECIDED">>,
    <<"DECIDED",           "refund_confirmed",  "EXECUTED">>,
    <<"DECIDED",           "close",             "CLOSED">>,
    <<"EXECUTED",          "close",             "CLOSED">> }

ApplyCaseEvent(status, infoRequestCount, event) ==
  IF event = "request_info" /\ infoRequestCount >= MAX_INFO_REQUESTS
  THEN Illegal
  ELSE TakeEdge(CASE_EDGES, status, event)

(* A slip: the review step is taken from any status, a final one included.  *)
ReviewThen_Slip(status, infoRequestCount, event) ==
  ApplyCaseEvent(IF status \in CaseStatus THEN "UNDER_REVIEW" ELSE status,
                 infoRequestCount, event)

(* Before asking for information or deciding, the handlers move a case that *)
(* still awaits its reply to UNDER_REVIEW with deadline_passed, and apply   *)
(* their own event to the result.                                           *)
ReviewThen(status, infoRequestCount, event) ==
  LET reviewed == IF status = "AWAITING_RESPONSE"
                  THEN ApplyCaseEvent(status, infoRequestCount, "deadline_passed")
                  ELSE status
  IN  ApplyCaseEvent(reviewed, infoRequestCount, event)

=============================================================================
