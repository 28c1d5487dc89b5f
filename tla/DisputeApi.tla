----------------------------- MODULE DisputeApi -----------------------------
(***************************************************************************)
(* What the backend's dispute API promises when every handler runs on its  *)
(* own: payouts, cases, decisions and the anchor queue of services.ts, the *)
(* routes that call it and the deadline scheduler, with one atomic action  *)
(* per handler.  DisputeSteps takes the same handlers apart at every await *)
(* and is shown to implement this module while handlers do not overlap.    *)
(*                                                                         *)
(* The chain is external.  Of Circle's RefundProtocol the model keeps, per *)
(* payment, how far a refund of it got (an arbiter's transaction is sent   *)
(* and later mined or reverted, or the recipient refunds) and whether it   *)
(* was withdrawn; of FinneCaseRegistry it keeps the jobs queued for it,    *)
(* per case, in the order of their _id.                                    *)
(***************************************************************************)
EXTENDS StateMachines, Sequences

CONSTANTS Payments,   \* payments the backend has recorded a payout for
          CaseIds,    \* case numbers
          NotANumber, \* the cases opened with such an amountContested
          NoPayout    \* payoutRef of a number that names no case yet

ASSUME NoPayoutAssumption == NoPayout \notin Payments
ASSUME NotANumberAssumption == NotANumber \subseteq CaseIds

NoCase  == "none"
Parties == {"customer", "merchant"}
Authors == Parties \cup {"arbiter"}
Refunds == {"no", "sent", "reverted", "arbiter", "recipient"}

AnchorJobKind ==
  {"case", "response", "under_review", "decision", "close_no_correction",
   "correction_outstanding", "correction"}

VARIABLES
  payoutStatus,      \* Payout.status, per payment
  caseStatus,        \* Case.status, or NoCase
  payoutRef,         \* Case.payoutRef
  infoRequestCount,  \* Case.infoRequestCount
  unanswered,        \* targets of the case's info requests with answeredAt null
  overdue,           \* cases whose responseDeadline has passed
  replied,           \* whether a Response row is stored for the case
  lateEvidence,      \* cases with an Evidence row filed after their decision
  decisions,         \* outcomes of the case's Decision rows, oldest first
  executed,          \* whether the oldest Decision row carries a refund tx
  jobs,              \* kinds of the case's AnchorJobs, oldest first
  chainRefund,       \* RefundProtocol: the refund of the payment
  chainWithdrawn     \* RefundProtocol: whether the recipient withdrew it

rowVars   == <<payoutRef, infoRequestCount, unanswered, overdue, replied, lateEvidence>>
chainVars == <<chainRefund, chainWithdrawn>>
vars == <<payoutStatus, caseStatus, rowVars, decisions, executed, jobs, chainVars>>

TypeOK ==
  /\ payoutStatus \in [Payments -> PaymentStatus]
  /\ caseStatus \in [CaseIds -> CaseStatus \cup {NoCase}]
  /\ payoutRef \in [CaseIds -> Payments \cup {NoPayout}]
  /\ \A c \in CaseIds : caseStatus[c] = NoCase <=> payoutRef[c] = NoPayout
  /\ infoRequestCount \in [CaseIds -> 0..MAX_INFO_REQUESTS]
  /\ unanswered \in [CaseIds -> SUBSET Parties]
  /\ overdue \in SUBSET CaseIds
  /\ replied \in [CaseIds -> BOOLEAN]
  /\ lateEvidence \in SUBSET CaseIds
  /\ decisions \in [CaseIds -> Seq(DecisionOutcome)]
  /\ executed \in [CaseIds -> BOOLEAN]
  /\ jobs \in [CaseIds -> Seq(AnchorJobKind)]
  /\ chainRefund \in [Payments -> Refunds]
  /\ chainWithdrawn \in [Payments -> BOOLEAN]

(* Every payment has been detected and recorded; no dispute was opened yet. *)
Init ==
  /\ payoutStatus = [p \in Payments |-> "ESCROWED"]
  /\ caseStatus = [c \in CaseIds |-> NoCase]
  /\ payoutRef = [c \in CaseIds |-> NoPayout]
  /\ infoRequestCount = [c \in CaseIds |-> 0]
  /\ unanswered = [c \in CaseIds |-> {}]
  /\ overdue = {}
  /\ replied = [c \in CaseIds |-> FALSE]
  /\ lateEvidence = {}
  /\ decisions = [c \in CaseIds |-> <<>>]
  /\ executed = [c \in CaseIds |-> FALSE]
  /\ jobs = [c \in CaseIds |-> <<>>]
  /\ chainRefund = [p \in Payments |-> "no"]
  /\ chainWithdrawn = [p \in Payments |-> FALSE]

IsOpen(c) == caseStatus[c] \notin {NoCase, "CLOSED"}

OpenCasesOn(p) == {c \in CaseIds : payoutRef[c] = p /\ IsOpen(c)}

(* A slip: the exception is swallowed and the row saved all the same.        *)
MovePayout_Slip(p, to) == payoutStatus' = [payoutStatus EXCEPT ![p] = to]

(* asStateError: an illegal payment event ends the handler with a 409. *)
MovePayout(p, to) ==
  /\ to # Illegal
  /\ payoutStatus' = [payoutStatus EXCEPT ![p] = to]

MoveCase(c, to) ==
  /\ to # Illegal
  /\ caseStatus' = [caseStatus EXCEPT ![c] = to]

enqueueAnchor(c, kinds) == jobs' = [jobs EXCEPT ![c] = @ \o kinds]

-----------------------------------------------------------------------------
(* The job that has the registry open the case.  There is none if the amount *)
(* contested, which no route looks at, is not a number: BigInt throws, after *)
(* the case and its notice were saved.                                       *)
Opening(c) == IF c \in NotANumber THEN <<>> ELSE <<"case">>

(* openDispute: the payout becomes DISPUTED and a case is opened on it under *)
(* an unused number; its notice is served at once, so it is never seen OPEN. *)
OpenDispute(p, c) ==
  /\ OpenCasesOn(p) = {}
  /\ caseStatus[c] = NoCase
  /\ MovePayout(p, ApplyPaymentEvent(payoutStatus[p], "dispute_opened"))
  /\ MoveCase(c, ApplyCaseEvent("OPEN", 0, "notice_served"))
  /\ payoutRef' = [payoutRef EXCEPT ![c] = p]
  /\ enqueueAnchor(c, Opening(c))
  /\ UNCHANGED <<infoRequestCount, unanswered, overdue, replied, lateEvidence,
                 decisions, executed, chainVars>>

(* Evidence.create; the rows filed before the decision are not told apart.  *)
FileEvidence(c) == IF decisions[c] = <<>> THEN lateEvidence ELSE lateEvidence \cup {c}

(* Whose info requests a message answers: the arbiter writes for the payer. *)
ResponderTarget(author) == IF author = "merchant" THEN "merchant" ELSE "customer"

(* A slip: every reply is anchored, the ones after the first one too.        *)
SubmitResponse_Slip(c, author, withEvidence) ==
  /\ caseStatus[c] # NoCase
  /\ caseStatus' = [caseStatus EXCEPT ![c] = IF @ = "AWAITING_RESPONSE" THEN "UNDER_REVIEW" ELSE @]
  /\ enqueueAnchor(c, <<"response">>)
  /\ UNCHANGED <<payoutStatus, rowVars, decisions, executed, chainVars>>

(* submitResponse: the message is stored whatever the status of the case; a *)
(* status the event is illegal in is left alone.  Only a reply to a case    *)
(* that awaits one is anchored.                                             *)
SubmitResponse(c, author, withEvidence) ==
  LET after == ApplyCaseEvent(caseStatus[c], infoRequestCount[c], "reply_received")
  IN  /\ caseStatus[c] # NoCase
      /\ ~ (withEvidence /\ caseStatus[c] = "CLOSED")
      /\ replied' = [replied EXCEPT ![c] = TRUE]
      /\ caseStatus' = [caseStatus EXCEPT ![c] = IF after = Illegal THEN @ ELSE after]
      /\ unanswered' = [unanswered EXCEPT ![c] = @ \ {ResponderTarget(author)}]
      /\ lateEvidence' = IF withEvidence THEN FileEvidence(c) ELSE lateEvidence
      /\ enqueueAnchor(c, IF caseStatus[c] = "AWAITING_RESPONSE" THEN <<"response">> ELSE <<>>)
      /\ UNCHANGED <<payoutStatus, payoutRef, infoRequestCount, overdue,
                     decisions, executed, chainVars>>

(* The same call with evidence for a closed case: attachEvidence throws its *)
(* 409 after the Response row was created and before the case is saved.     *)
SubmitResponseRefused(c) ==
  /\ caseStatus[c] = "CLOSED"
  /\ replied' = [replied EXCEPT ![c] = TRUE]
  /\ UNCHANGED <<payoutStatus, caseStatus, payoutRef, infoRequestCount, unanswered,
                 overdue, lateEvidence, decisions, executed, jobs, chainVars>>

(* attachEvidence: refused only for a CLOSED case. *)
AttachEvidence(c) ==
  /\ caseStatus[c] \notin {NoCase, "CLOSED"}
  /\ lateEvidence' = FileEvidence(c)
  /\ UNCHANGED <<payoutStatus, caseStatus, payoutRef, infoRequestCount, unanswered,
                 overdue, replied, decisions, executed, jobs, chainVars>>

(* requestInfo: the case awaits a reply again, with a fresh deadline. *)
RequestInfo(c, target) ==
  /\ MoveCase(c, ReviewThen(caseStatus[c], infoRequestCount[c], "request_info"))
  /\ infoRequestCount' = [infoRequestCount EXCEPT ![c] = @ + 1]
  /\ overdue' = overdue \ {c}
  /\ unanswered' = [unanswered EXCEPT ![c] = @ \cup {target}]
  /\ UNCHANGED <<payoutStatus, payoutRef, replied, lateEvidence, decisions, executed,
                 jobs, chainVars>>

(* recordDecision, outcome refund: the case is DECIDED and the payout stays *)
(* as it is until the refund is seen on chain.                              *)
DecideRefund(c) ==
  /\ MoveCase(c, ReviewThen(caseStatus[c], infoRequestCount[c], "decision_recorded"))
  /\ decisions' = [decisions EXCEPT ![c] = Append(@, "refund")]
  /\ enqueueAnchor(c, <<"under_review", "decision">>)
  /\ UNCHANGED <<payoutStatus, rowVars, executed, chainVars>>

(* The payout status a decision against the refund leaves: CLEARED, and on  *)
(* to WITHDRAWABLE in the same save.                                        *)
ClearedStatus(status, outcome) ==
  LET event   == IF outcome = "release" THEN "decision_release" ELSE "decision_no_action"
      cleared == ApplyPaymentEvent(status, event)
  IN  IF cleared = "CLEARED"
      THEN ApplyPaymentEvent(cleared, "lockup_end_after_clear")
      ELSE cleared

(* A slip: the payout is released and the case is never closed.              *)
DecideClear_Slip(c, outcome) ==
  /\ MoveCase(c, ReviewThen(caseStatus[c], infoRequestCount[c], "decision_recorded"))
  /\ MovePayout(payoutRef[c], ClearedStatus(payoutStatus[payoutRef[c]], outcome))
  /\ decisions' = [decisions EXCEPT ![c] = Append(@, outcome)]
  /\ UNCHANGED <<rowVars, executed, jobs, chainVars>>

(* recordDecision, outcome release or no_action: the payout is released and *)
(* the case closes with the decision.                                       *)
DecideClear(c, outcome) ==
  LET decided == ReviewThen(caseStatus[c], infoRequestCount[c], "decision_recorded")
  IN  /\ decided # Illegal
      /\ MoveCase(c, ApplyCaseEvent(decided, infoRequestCount[c], "close"))
      /\ MovePayout(payoutRef[c], ClearedStatus(payoutStatus[payoutRef[c]], outcome))
      /\ decisions' = [decisions EXCEPT ![c] = Append(@, outcome)]
      /\ enqueueAnchor(c, <<"under_review", "decision", "close_no_correction">>)
      /\ UNCHANGED <<rowVars, executed, chainVars>>

-----------------------------------------------------------------------------
(* RefundProtocol, as the code and its wallets use it.                      *)

RefundDecided(c) == decisions[c] # <<>> /\ Head(decisions[c]) = "refund"
RefundedOnChain(p) == chainRefund[p] \in {"arbiter", "recipient"}

ChainStep(refund, withdrawn) ==
  /\ chainRefund' = refund
  /\ chainWithdrawn' = withdrawn
  /\ UNCHANGED <<payoutStatus, caseStatus, rowVars, decisions, executed, jobs>>

(* The arbiter's wallet, or submitRefundSignature on the strength of its     *)
(* signature, sends the refund of a case decided that way.                   *)
SendRefund(c) ==
  /\ RefundDecided(c)
  /\ chainRefund[payoutRef[c]] \in {"no", "reverted"}
  /\ ChainStep([chainRefund EXCEPT ![payoutRef[c]] = "sent"], chainWithdrawn)

SettleRefund(p, result) ==
  /\ chainRefund[p] = "sent"
  /\ ChainStep([chainRefund EXCEPT ![p] = result], chainWithdrawn)

(* refundByRecipient: a concession the backend neither asks for nor gates.   *)
RefundByRecipient(p) ==
  /\ ~ RefundedOnChain(p)
  /\ ChainStep([chainRefund EXCEPT ![p] = "recipient"], chainWithdrawn)

WithdrawOnChain(p) ==
  /\ ~ RefundedOnChain(p) /\ ~ chainWithdrawn[p]
  /\ ChainStep(chainRefund, [chainWithdrawn EXCEPT ![p] = TRUE])

-----------------------------------------------------------------------------
(* Hooks that follow the chain and the clock.                                *)

(* Who has a transaction to report: the arbiter's browser, that of a refund  *)
(* it has sent (useFinne.ts) or that of a release (Decision.tsx), which may  *)
(* have been waiting in the wallet since the case closed.                    *)
ReleaseDecided(c) == decisions[c] # <<>> /\ Head(decisions[c]) = "release"
HasHash(c) ==
  \/ RefundDecided(c) /\ chainRefund[payoutRef[c]] # "no"
  \/ ReleaseDecided(c)

(* POST /cases/:id/refund-tx: the browser reports what it has sent, mined or *)
(* not.  The route asks for neither a decision nor a status: a payout that   *)
(* is disputed is refunded, also if a release is reported and the dispute is *)
(* another one by now.                                                       *)
StampRefundTx(c) ==
  LET p == payoutRef[c]
  IN  /\ caseStatus[c] # NoCase
      /\ HasHash(c)
      /\ executed' = [executed EXCEPT ![c] = TRUE]
      /\ payoutStatus' = [payoutStatus EXCEPT ![p] =
           IF @ = "DISPUTED" THEN ApplyPaymentEvent(@, "refund_confirmed") ELSE @]
      /\ caseStatus' = [caseStatus EXCEPT ![c] = "CLOSED"]
      /\ UNCHANGED <<rowVars, decisions, jobs, chainVars>>

(* A decided case goes through EXECUTED to CLOSED in one save.               *)
ExecutedThenClosed(c) ==
  ApplyCaseEvent(ApplyCaseEvent(caseStatus[c], infoRequestCount[c], "refund_confirmed"),
                 infoRequestCount[c], "close")

DecidedOn(p) == {c \in CaseIds : payoutRef[c] = p /\ caseStatus[c] = "DECIDED"}

(* confirmRefundExecuted: the indexer saw the Refund event.  An illegal      *)
(* transition of the payout ends it before any case is looked at.            *)
ConfirmRefundExecuted(p, debtRecorded) ==
  /\ RefundedOnChain(p)
  /\ MovePayout(p, RefundedStatus(payoutStatus[p], debtRecorded))
  /\ \/ \E c \in DecidedOn(p) :
          /\ MoveCase(c, ExecutedThenClosed(c))
          /\ executed' = [executed EXCEPT ![c] = TRUE]
          /\ enqueueAnchor(c, <<"correction_outstanding", "correction">>)
     \/ DecidedOn(p) = {} /\ UNCHANGED <<caseStatus, executed, jobs>>
  /\ UNCHANGED <<rowVars, decisions, chainVars>>

(* A hook that moves nothing but the status of a payout.                     *)
PayoutHook(p, to) ==
  /\ MovePayout(p, to)
  /\ UNCHANGED <<caseStatus, rowVars, decisions, executed, jobs, chainVars>>

ConfirmWithdrawn(p) ==
  /\ chainWithdrawn[p]
  /\ PayoutHook(p, WithdrawnStatus(payoutStatus[p]))

(* A slip: the hook trusts the clock and does not ask the state machine.     *)
LockupEnded_Slip(p) == payoutStatus[p] # "WITHDRAWN" /\ PayoutHook(p, "WITHDRAWABLE")

LockupEnded(p) ==
  PayoutHook(p, ApplyPaymentEvent(payoutStatus[p], LockupEvent(payoutStatus[p])))

DebtSettled(p) ==
  PayoutHook(p, ApplyPaymentEvent(payoutStatus[p], "next_payment_absorbs_debt"))

(* A slip: a late timer moves a case that has left AWAITING_RESPONSE.        *)
DeadlinePassed_Slip(c) ==
  /\ caseStatus[c] # NoCase
  /\ MoveCase(c, "UNDER_REVIEW")
  /\ UNCHANGED <<payoutStatus, rowVars, decisions, executed, jobs, chainVars>>

(* POST /internal/cases/:id/deadline-passed believes its caller.             *)
DeadlinePassed(c) ==
  /\ MoveCase(c, ApplyCaseEvent(caseStatus[c], infoRequestCount[c], "deadline_passed"))
  /\ UNCHANGED <<payoutStatus, rowVars, decisions, executed, jobs, chainVars>>

(* A slip: $gte where the query says $lte.                                   *)
SchedulerTick_Slip(c) == c \notin overdue /\ DeadlinePassed(c)

(* scheduler tick: one case of the batch it found overdue.                   *)
SchedulerTick(c) == c \in overdue /\ DeadlinePassed(c)

DeadlineElapses(c) ==
  /\ caseStatus[c] # NoCase /\ c \notin overdue
  /\ overdue' = overdue \cup {c}
  /\ UNCHANGED <<payoutStatus, caseStatus, payoutRef, infoRequestCount, unanswered,
                 replied, lateEvidence, decisions, executed, jobs, chainVars>>

-----------------------------------------------------------------------------
Next ==
  \/ \E c \in CaseIds :
       \/ \E p \in Payments : OpenDispute(p, c)
       \/ \E author \in Authors, withEvidence \in BOOLEAN :
            SubmitResponse(c, author, withEvidence)
       \/ SubmitResponseRefused(c)
       \/ AttachEvidence(c)
       \/ \E target \in Parties : RequestInfo(c, target)
       \/ DecideRefund(c)
       \/ \E outcome \in {"release", "no_action"} : DecideClear(c, outcome)
       \/ SendRefund(c)
       \/ StampRefundTx(c)
       \/ DeadlineElapses(c)
       \/ DeadlinePassed(c)
       \/ SchedulerTick(c)
  \/ \E p \in Payments :
       \/ \E result \in {"arbiter", "reverted"} : SettleRefund(p, result)
       \/ RefundByRecipient(p)
       \/ WithdrawOnChain(p)
       \/ \E debtRecorded \in BOOLEAN : ConfirmRefundExecuted(p, debtRecorded)
       \/ ConfirmWithdrawn(p)
       \/ LockupEnded(p)
       \/ DebtSettled(p)

Spec == Init /\ [][Next]_vars

(* The scheduler's timer and the indexer's polling loop never stop, and a    *)
(* transaction that was sent is mined or dropped.  Nobody owes an answer, a  *)
(* decision or a withdrawal.                                                 *)
Fairness ==
  /\ \A c \in CaseIds : WF_vars(SchedulerTick(c))
  /\ \A p \in Payments :
       /\ WF_vars(\E result \in {"arbiter", "reverted"} : SettleRefund(p, result))
       /\ WF_vars(\E debtRecorded \in BOOLEAN : ConfirmRefundExecuted(p, debtRecorded))

FairSpec == Spec /\ Fairness

-----------------------------------------------------------------------------
Held == {"DISPUTED", "REFUNDED", "DEBT_OUTSTANDING", "DEBT_SETTLED"}

(* A payout shown as disputed has a case somebody can still decide: no path  *)
(* through the handlers leaves the money frozen with nobody to release it.   *)
DisputedHasOpenCase ==
  \A p \in Payments : payoutStatus[p] = "DISPUTED" => OpenCasesOn(p) # {}

(* openDispute's 409: two cases never contest one payment at a time.         *)
AtMostOneOpenCase ==
  \A c, d \in CaseIds :
    IsOpen(c) /\ IsOpen(d) /\ payoutRef[c] = payoutRef[d] => c = d

(* As long as a case is open its payment is neither back in escrow, nor      *)
(* cleared, nor withdrawable: the arbiter always decides about money that is *)
(* held or already refunded.                                                 *)
OpenCaseHoldsMoney ==
  \A c \in CaseIds : IsOpen(c) => payoutStatus[payoutRef[c]] \in Held

(* A case has a verdict exactly when it is decided, and only one: neither a  *)
(* second decision nor a closure without reasons can happen.                 *)
DecidedOnce ==
  \A c \in CaseIds :
    /\ caseStatus[c] \in {NoCase, "AWAITING_RESPONSE", "UNDER_REVIEW"} => decisions[c] = <<>>
    /\ caseStatus[c] = "DECIDED" => decisions[c] = <<"refund">>
    /\ caseStatus[c] = "CLOSED" => Len(decisions[c]) = 1
    /\ caseStatus[c] \notin {"OPEN", "EXECUTED"}

(* The books about disputed money agree, whoever reads them: payouts, cases  *)
(* and what an arbiter may still decide.                                     *)
DisputesAndCasesAgree == DisputedHasOpenCase /\ AtMostOneOpenCase /\ OpenCaseHoldsMoney

(* Once a refund was decided no later call makes the payment withdrawable:   *)
(* not a lockup hook, not a new dispute with another outcome.                *)
RefundNeverReleased ==
  \A c \in CaseIds : RefundDecided(c) => payoutStatus[payoutRef[c]] \in Held

(* A case that ended in a refund shows its payout as refunded, so nobody can *)
(* dispute that payment, or decide about it, a second time.                  *)
ClosedRefundIsRecorded ==
  \A c \in CaseIds :
    RefundDecided(c) /\ caseStatus[c] = "CLOSED"
      => payoutStatus[payoutRef[c]] \in Held \ {"DISPUTED"}

(* A refund verdict is for good: neither hooks nor later disputes undo it.   *)
RefundsAreFinal == RefundNeverReleased /\ ClosedRefundIsRecorded

(* What is queued for a case: its opening, n replies, the verdict.           *)
AnchorScript(opening, n, verdict) == opening \o [i \in 1..n |-> "response"] \o verdict

(* What the script of a case ends with, by the status of the case.           *)
VerdictScripts(status) ==
  IF status \in {"AWAITING_RESPONSE", "UNDER_REVIEW"} THEN {<<>>}
  ELSE IF status = "DECIDED" THEN {<<"under_review", "decision">>}
  ELSE {<<"under_review", "decision">>,
        <<"under_review", "decision", "close_no_correction">>,
        <<"under_review", "decision", "correction_outstanding", "correction">>}

(* What the anchor worker finds in the queue for a case, read in order: the  *)
(* opening, unless the case was opened with an amount that is no number; one *)
(* reply at most for the notice and for each information request; and the    *)
(* verdict, as far as the status of the case has come.  services.ts:494-496  *)
(* wants one response per case; the second that a request for information    *)
(* leads to is queued all the same, and no property has it otherwise.        *)
AnchorScriptInOrder ==
  \A c \in CaseIds :
    IF caseStatus[c] = NoCase THEN jobs[c] = <<>>
    ELSE \E n \in 0..(infoRequestCount[c] + 1), verdict \in VerdictScripts(caseStatus[c]) :
           jobs[c] = AnchorScript(Opening(c), n, verdict)

(* A closed case stays closed, whatever message, tick or hook still arrives, *)
(* and a decision that was recorded is never replaced or withdrawn.          *)
VerdictStands ==
  \A c \in CaseIds :
    /\ caseStatus[c] = "CLOSED" => caseStatus'[c] = "CLOSED"
    /\ decisions[c] # <<>> => decisions'[c] = decisions[c]

VerdictIsFinal == [][VerdictStands]_vars

(* deadline scheduler: no case waits for an answer forever.                  *)
OverdueCaseMovesOn ==
  \A c \in CaseIds :
    caseStatus[c] = "AWAITING_RESPONSE" /\ c \in overdue
      ~> caseStatus[c] # "AWAITING_RESPONSE" \/ c \notin overdue

(* The report of a release may have ended a later dispute of the payment.    *)
Misreported(p) ==
  /\ \E c \in CaseIds : payoutRef[c] = p /\ ReleaseDecided(c) /\ executed[c]
  /\ payoutStatus[p] = "REFUNDED"

(* The arbiter's refund, once mined, reaches the records: the payout is      *)
(* refunded and the case that ordered it closes, through the browser's stamp *)
(* or through the indexer, unless the payout was misreported before.         *)
ArbiterRefundIsRecorded ==
  \A c \in CaseIds :
    RefundDecided(c) /\ chainRefund[payoutRef[c]] = "arbiter"
      ~> \/ caseStatus[c] = "CLOSED" /\ payoutStatus[payoutRef[c]] \in Held \ {"DISPUTED"}
         \/ Misreported(payoutRef[c])

(* Nothing about a case waits for ever on the clock or on the chain.         *)
CasesMoveOn == OverdueCaseMovesOn /\ ArbiterRefundIsRecorded

=============================================================================
