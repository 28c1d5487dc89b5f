---------------------------- MODULE DisputeSteps ----------------------------
(***************************************************************************)
(* The handlers of DisputeApi as Node runs them: the code between two      *)
(* awaits is one step, so the steps of the handlers in the air interleave, *)
(* a document a handler has loaded may be stale by the time it saves it,   *)
(* and the process may stop between two writes of one handler.             *)
(*                                                                         *)
(* Mongoose saves the fields that were assigned a new value and no others, *)
(* without looking at what the row holds by then, but for one exception:   *)
(* a save that stamps an element of infoRequests fails if the array has    *)
(* grown since it was loaded (version).                                    *)
(*                                                                         *)
(* The rows, the queue, the chain and their variables are DisputeApi's.    *)
(***************************************************************************)
EXTENDS DisputeApi, FiniteSets

CONSTANTS Slots,      \* requests, hooks and timers that may be in the air at once
          MaxCases,   \* bound: how many disputes are opened
          MaxCalls,   \* bound: how many handlers are started
          MayCrash    \* whether the process may be restarted

ASSUME CaseIdsAssumption == MaxCases \in Nat /\ CaseIds = 1..MaxCases
ASSUME StepBoundsAssumption == MaxCalls \in Nat /\ MayCrash \in BOOLEAN
ASSUME SlotsAssumption == IsFiniteSet(Slots)

VARIABLES
  version,  \* Case.__v: how often a case's infoRequests was pushed to
  handler,  \* per slot: the handler in it, with what it has in its local variables
  calls     \* handlers started so far

dbVars == <<payoutStatus, caseStatus, rowVars, version, decisions, executed, jobs>>
stepVars == <<dbVars, chainVars, handler, calls>>

NoNumber == 0

(* An empty slot; a handler sets the fields it uses.                         *)
Idle ==
  [op   |-> "idle",    \* which handler
   pc   |-> "idle",    \* what it does next
   p    |-> NoPayout,  \* the payment
   c    |-> NoNumber,  \* the case
   arg  |-> "none",    \* outcome of a decision, party of a reply or a request
   st   |-> NoCase,    \* the status of the case, as loaded or as it will be saved
   pst  |-> NoCase,    \* the status of the payout, likewise
   n    |-> 0,         \* infoRequestCount as loaded
   ver  |-> 0,         \* version as loaded
   yes  |-> FALSE,     \* evidence comes with the reply, or a debt with the refund
   todo |-> <<>>,      \* anchor jobs it has still to enqueue
   due  |-> {}]        \* scheduler: the rest of the batch

Ops ==
  {"idle", "openDispute", "submitResponse", "attachEvidence", "requestInfo", "recordDecision",
   "stampRefundTx", "confirmRefund", "payoutHook", "deadlinePassed", "tick"}

Pcs ==
  {"idle", "check", "savePayout", "number", "create", "serve", "evidence", "file", "save",
   "payout", "decide", "stamp", "find", "execute", "saveCase", "enqueue", "tick"}

Handlers ==
  [op: Ops, pc: Pcs, p: Payments \cup {NoPayout}, c: CaseIds \cup {NoNumber},
   arg: DecisionOutcome \cup Parties \cup {"none"},
   st: CaseStatus \cup {NoCase}, pst: PaymentStatus \cup {NoCase},
   n: Nat, ver: Nat, yes: BOOLEAN, todo: Seq(AnchorJobKind), due: SUBSET CaseIds]

InitSteps ==
  /\ Init
  /\ version = [c \in CaseIds |-> 0]
  /\ handler = [s \in Slots |-> Idle]
  /\ calls = 0

Call(s, h) ==
  /\ handler[s] = Idle /\ calls < MaxCalls
  /\ calls' = calls + 1
  /\ handler' = [handler EXCEPT ![s] = h]
  /\ UNCHANGED <<dbVars, chainVars>>

Runs(s, op, pc) == handler[s].op = op /\ handler[s].pc = pc

Continue(s, h) == handler' = [handler EXCEPT ![s] = h] /\ UNCHANGED <<calls, chainVars>>
Return(s) == Continue(s, Idle)
ContinueAt(s, pc) == Continue(s, [handler[s] EXCEPT !.pc = pc])

Exists(c) == caseStatus[c] # NoCase

-----------------------------------------------------------------------------
(* openDispute.                                                              *)

Existing == {c \in CaseIds : Exists(c)}

OpenDisputeLoad(s, p) ==
  /\ Cardinality(Existing) < MaxCases   \* the bound on disputes
  /\ Call(s, [Idle EXCEPT !.op = "openDispute", !.pc = "check", !.p = p,
                          !.pst = payoutStatus[p]])

(* Slip: the refused transition is not caught, and its result is saved.      *)
OpenDisputeCheck_Slip(s) ==
  LET h == handler[s]
  IN  /\ Runs(s, "openDispute", "check")
      /\ UNCHANGED dbVars
      /\ IF OpenCasesOn(h.p) = {}
         THEN Continue(s, [h EXCEPT !.pst = ApplyPaymentEvent(@, "dispute_opened"),
                                    !.pc = "savePayout"])
         ELSE Return(s)

OpenDisputeCheck(s) ==
  LET h  == handler[s]
      to == ApplyPaymentEvent(h.pst, "dispute_opened")
  IN  /\ Runs(s, "openDispute", "check")
      /\ UNCHANGED dbVars
      /\ IF OpenCasesOn(h.p) = {} /\ to # Illegal
         THEN Continue(s, [h EXCEPT !.pst = to, !.pc = "savePayout"])
         ELSE Return(s)

(* nextCaseNumber counts the cases there are.                                *)
NextCaseNumber(s) ==
  /\ Runs(s, "openDispute", "number")
  /\ Cardinality(Existing) < MaxCases   \* the bound: the request hangs
  /\ Continue(s, [handler[s] EXCEPT !.c = Cardinality(Existing) + 1, !.pc = "create"])
  /\ UNCHANGED dbVars

(* Case.create: the unique index refuses a number that was taken meanwhile,  *)
(* and the payout stays DISPUTED.                                            *)
CreateCase(s) ==
  LET h == handler[s]
  IN  /\ Runs(s, "openDispute", "create")
      /\ \/ /\ Exists(h.c)
            /\ UNCHANGED dbVars
            /\ Return(s)
         \/ /\ ~ Exists(h.c)
            /\ caseStatus' = [caseStatus EXCEPT ![h.c] = "OPEN"]
            /\ payoutRef' = [payoutRef EXCEPT ![h.c] = h.p]
            /\ ContinueAt(s, "serve")
            /\ UNCHANGED <<payoutStatus, infoRequestCount, unanswered, overdue, replied,
                           lateEvidence, version, decisions, executed, jobs>>

(* The notice is saved; then an amount that is no number ends the request.   *)
ServeNotice(s) ==
  LET h == handler[s]
  IN  /\ Runs(s, "openDispute", "serve")
      /\ MoveCase(h.c, ApplyCaseEvent("OPEN", 0, "notice_served"))
      /\ IF h.c \in NotANumber THEN Return(s)
         ELSE Continue(s, [h EXCEPT !.todo = Opening(h.c), !.pc = "enqueue"])
      /\ UNCHANGED <<payoutStatus, rowVars, version, decisions, executed, jobs>>

-----------------------------------------------------------------------------
(* submitResponse and attachEvidence.                                        *)

SubmitResponseLoad(s, c, author, withEvidence) ==
  /\ Exists(c)
  /\ Call(s, [Idle EXCEPT !.op = "submitResponse", !.pc = "create", !.c = c,
                !.st = caseStatus[c], !.ver = version[c], !.yes = withEvidence,
                !.arg = IF ResponderTarget(author) \in unanswered[c]
                        THEN ResponderTarget(author) ELSE "none"])

CreateResponse(s) ==
  LET h == handler[s]
  IN  /\ Runs(s, "submitResponse", "create")
      /\ replied' = [replied EXCEPT ![h.c] = TRUE]
      /\ ContinueAt(s, IF h.yes THEN "evidence" ELSE "save")
      /\ UNCHANGED <<payoutStatus, caseStatus, payoutRef, infoRequestCount, unanswered,
                     overdue, lateEvidence, version, decisions, executed, jobs>>

(* Slip: evidence that comes with a reply is filed on a closed case.         *)
AttachInResponse_Slip(s) ==
  /\ Runs(s, "submitResponse", "evidence")
  /\ ContinueAt(s, "file")
  /\ UNCHANGED dbVars

(* attachEvidence loads the case again; its 409 ends submitResponse as well. *)
AttachInResponse(s) ==
  /\ Runs(s, "submitResponse", "evidence")
  /\ IF caseStatus[handler[s].c] = "CLOSED" THEN Return(s) ELSE ContinueAt(s, "file")
  /\ UNCHANGED dbVars

AttachEvidenceLoad(s, c) ==
  /\ caseStatus[c] \notin {NoCase, "CLOSED"}
  /\ Call(s, [Idle EXCEPT !.op = "attachEvidence", !.pc = "file", !.c = c])

CreateEvidence(s) ==
  /\ handler[s].pc = "file"
  /\ lateEvidence' = FileEvidence(handler[s].c)
  /\ IF handler[s].op = "submitResponse" THEN ContinueAt(s, "save") ELSE Return(s)
  /\ UNCHANGED <<payoutStatus, caseStatus, payoutRef, infoRequestCount, unanswered,
                 overdue, replied, version, decisions, executed, jobs>>

(* A save that stamps info requests is refused when one was added since.     *)
SaveResponse(s) ==
  LET h     == handler[s]
      after == ApplyCaseEvent(h.st, h.n, "reply_received")
  IN  /\ Runs(s, "submitResponse", "save")
      /\ \/ /\ h.arg # "none" /\ h.ver # version[h.c]
            /\ Return(s)
            /\ UNCHANGED dbVars
         \/ /\ h.arg = "none" \/ h.ver = version[h.c]
            /\ caseStatus' = [caseStatus EXCEPT ![h.c] =
                                IF after \in {Illegal, h.st} THEN @ ELSE after]
            /\ unanswered' = [unanswered EXCEPT ![h.c] = @ \ {h.arg}]
            /\ IF h.st = "AWAITING_RESPONSE"
               THEN Continue(s, [h EXCEPT !.todo = <<"response">>, !.pc = "enqueue"])
               ELSE Return(s)
            /\ UNCHANGED <<payoutStatus, payoutRef, infoRequestCount, overdue, replied,
                           lateEvidence, version, decisions, executed, jobs>>

-----------------------------------------------------------------------------
(* requestInfo.                                                              *)

RequestInfoLoad(s, c, target) ==
  /\ ReviewThen(caseStatus[c], infoRequestCount[c], "request_info") # Illegal
  /\ Call(s, [Idle EXCEPT !.op = "requestInfo", !.pc = "save", !.c = c, !.arg = target,
                          !.st = caseStatus[c], !.n = infoRequestCount[c]])

(* The status is assigned the value it was loaded with if the case awaited a *)
(* reply, and is then not written.                                           *)
SaveInfoRequest(s) ==
  LET h  == handler[s]
      to == ReviewThen(h.st, h.n, "request_info")
  IN  /\ Runs(s, "requestInfo", "save")
      /\ caseStatus' = [caseStatus EXCEPT ![h.c] = IF to = h.st THEN @ ELSE to]
      /\ infoRequestCount' = [infoRequestCount EXCEPT ![h.c] = h.n + 1]
      /\ overdue' = overdue \ {h.c}
      /\ unanswered' = [unanswered EXCEPT ![h.c] = @ \cup {h.arg}]
      /\ version' = [version EXCEPT ![h.c] = @ + 1]
      /\ Return(s)
      /\ UNCHANGED <<payoutStatus, payoutRef, replied, lateEvidence, decisions, executed, jobs>>

-----------------------------------------------------------------------------
(* recordDecision: the payout is saved before the Decision row is created,   *)
(* and the case after it; a refund is anchored before the case is DECIDED.   *)

RecordDecisionLoad(s, c, outcome) ==
  /\ ReviewThen(caseStatus[c], infoRequestCount[c], "decision_recorded") # Illegal
  /\ Call(s, [Idle EXCEPT !.op = "recordDecision", !.pc = "payout", !.c = c, !.arg = outcome,
                          !.p = payoutRef[c]])

(* Slip: the case is saved before its Decision row is created.               *)
RecordDecisionPayout_Slip(s) ==
  /\ Runs(s, "recordDecision", "payout")
  /\ UNCHANGED dbVars
  /\ Continue(s, [handler[s] EXCEPT !.pc = "saveCase", !.st = "DECIDED"])

(* Slip: the payout is marked refunded as soon as the refund is decided.     *)
RecordDecisionPayout_EagerSlip(s) ==
  LET h == handler[s]
  IN  /\ Runs(s, "recordDecision", "payout")
      /\ UNCHANGED dbVars
      /\ Continue(s, [h EXCEPT !.pc = "savePayout",
                       !.pst = RefundedStatus(payoutStatus[h.p], FALSE)])

RecordDecisionPayout(s) ==
  LET h  == handler[s]
      to == ClearedStatus(payoutStatus[h.p], h.arg)
  IN  /\ Runs(s, "recordDecision", "payout")
      /\ UNCHANGED dbVars
      /\ IF h.arg = "refund" THEN ContinueAt(s, "decide")
         ELSE IF to = Illegal THEN Return(s)
         ELSE Continue(s, [h EXCEPT !.pst = to, !.pc = "savePayout"])

CreateDecision(s) ==
  LET h == handler[s]
  IN  /\ Runs(s, "recordDecision", "decide")
      /\ decisions' = [decisions EXCEPT ![h.c] = Append(@, h.arg)]
      /\ Continue(s, IF h.arg = "refund"
                     THEN [h EXCEPT !.pc = "enqueue", !.todo = <<"under_review", "decision">>]
                     ELSE [h EXCEPT !.pc = "saveCase", !.st = "CLOSED"])
      /\ UNCHANGED <<payoutStatus, caseStatus, rowVars, version, executed, jobs>>

-----------------------------------------------------------------------------
(* POST /cases/:id/refund-tx.                                                *)

(* recordDecision requests that have created their Decision row and have not *)
(* been answered.                                                            *)
Deciding(c) ==
  {s \in Slots : /\ handler[s].op = "recordDecision" /\ handler[s].c = c
                 /\ handler[s].pc \in {"enqueue", "saveCase"}}
Answered(c) == Len(decisions[c]) > Cardinality(Deciding(c))

StampRefundTxLoad(s, c) ==
  /\ Exists(c) /\ HasHash(c) /\ Answered(c)
  /\ Call(s, [Idle EXCEPT !.op = "stampRefundTx", !.pc = "stamp", !.c = c, !.p = payoutRef[c]])

StampDecision(s) ==
  /\ Runs(s, "stampRefundTx", "stamp")
  /\ executed' = [executed EXCEPT ![handler[s].c] = TRUE]
  /\ ContinueAt(s, "payout")
  /\ UNCHANGED <<payoutStatus, caseStatus, rowVars, version, decisions, jobs>>

StampPayout(s) ==
  LET h == handler[s]
  IN  /\ Runs(s, "stampRefundTx", "payout")
      /\ UNCHANGED dbVars
      /\ Continue(s, IF payoutStatus[h.p] = "DISPUTED"
                     THEN [h EXCEPT !.pc = "savePayout", !.st = "CLOSED",
                             !.pst = ApplyPaymentEvent("DISPUTED", "refund_confirmed")]
                     ELSE [h EXCEPT !.pc = "saveCase", !.st = "CLOSED"])

-----------------------------------------------------------------------------
(* confirmRefundExecuted.                                                    *)

ConfirmRefundLoad(s, p, debtRecorded) ==
  LET to == RefundedStatus(payoutStatus[p], debtRecorded)
  IN  /\ RefundedOnChain(p)
      /\ to # Illegal
      /\ Call(s, [Idle EXCEPT !.op = "confirmRefund", !.pc = "savePayout", !.p = p, !.pst = to])

FindDecidedCase(s) ==
  /\ Runs(s, "confirmRefund", "find")
  /\ \/ \E c \in DecidedOn(handler[s].p) :
          Continue(s, [handler[s] EXCEPT !.c = c, !.pc = "saveCase",
                                         !.st = ExecutedThenClosed(c)])
     \/ DecidedOn(handler[s].p) = {} /\ Return(s)
  /\ UNCHANGED dbVars

ExecuteDecision(s) ==
  LET h == handler[s]
  IN  /\ Runs(s, "confirmRefund", "execute")
      /\ executed' = [executed EXCEPT ![h.c] = TRUE]
      /\ Continue(s, [h EXCEPT !.pc = "enqueue",
                               !.todo = <<"correction_outstanding", "correction">>])
      /\ UNCHANGED <<payoutStatus, caseStatus, rowVars, version, decisions, jobs>>

-----------------------------------------------------------------------------
(* Hooks of two steps, and the scheduler.                                    *)

PayoutHookLoad(s, p, to) ==
  /\ to # Illegal
  /\ Call(s, [Idle EXCEPT !.op = "payoutHook", !.pc = "savePayout", !.p = p, !.pst = to])

ConfirmWithdrawnLoad(s, p) == chainWithdrawn[p] /\ PayoutHookLoad(s, p, WithdrawnStatus(payoutStatus[p]))

LockupEndedLoad(s, p) ==
  PayoutHookLoad(s, p, ApplyPaymentEvent(payoutStatus[p], LockupEvent(payoutStatus[p])))

DebtSettledLoad(s, p) ==
  PayoutHookLoad(s, p, ApplyPaymentEvent(payoutStatus[p], "next_payment_absorbs_debt"))

DeadlinePassedLoad(s, c) ==
  LET to == ApplyCaseEvent(caseStatus[c], infoRequestCount[c], "deadline_passed")
  IN  /\ to # Illegal
      /\ Call(s, [Idle EXCEPT !.op = "deadlinePassed", !.pc = "saveCase", !.c = c, !.st = to])

(* tick finds the whole batch first, and saves its cases one by one.         *)
SchedulerFind(s) ==
  LET due == {c \in overdue : caseStatus[c] = "AWAITING_RESPONSE"}
  IN  /\ due # {}
      /\ Call(s, [Idle EXCEPT !.op = "tick", !.pc = "tick", !.due = due])

SchedulerSave(s) ==
  LET h == handler[s]
  IN  /\ Runs(s, "tick", "tick")
      /\ \E c \in h.due :
           /\ caseStatus' = [caseStatus EXCEPT ![c] =
                               ApplyCaseEvent("AWAITING_RESPONSE", 0, "deadline_passed")]
           /\ IF h.due = {c} THEN Return(s) ELSE Continue(s, [h EXCEPT !.due = @ \ {c}])
      /\ UNCHANGED <<payoutStatus, rowVars, version, decisions, executed, jobs>>

-----------------------------------------------------------------------------
(* The saves several handlers have in common.                                *)

AfterPayoutSaved ==
  [openDispute |-> "number", recordDecision |-> "decide", stampRefundTx |-> "saveCase",
   confirmRefund |-> "find"]

SavePayout(s) ==
  LET h == handler[s]
  IN  /\ h.pc = "savePayout"
      /\ payoutStatus' = [payoutStatus EXCEPT ![h.p] = h.pst]
      /\ IF h.op = "payoutHook" THEN Return(s) ELSE ContinueAt(s, AfterPayoutSaved[h.op])
      /\ UNCHANGED <<caseStatus, rowVars, version, decisions, executed, jobs>>

SaveCase(s) ==
  LET h == handler[s]
  IN  /\ h.pc = "saveCase"
      /\ caseStatus' = [caseStatus EXCEPT ![h.c] = h.st]
      /\ IF h.op = "recordDecision" /\ h.st = "CLOSED"
         THEN Continue(s, [h EXCEPT !.pc = "enqueue",
                             !.todo = <<"under_review", "decision", "close_no_correction">>])
         ELSE IF h.op = "confirmRefund" THEN ContinueAt(s, "execute")
         ELSE Return(s)
      /\ UNCHANGED <<payoutStatus, rowVars, version, decisions, executed, jobs>>

(* enqueueAnchor: one job, one await.                                        *)
EnqueueAnchor(s) ==
  LET h == handler[s]
  IN  /\ h.pc = "enqueue"
      /\ enqueueAnchor(h.c, <<Head(h.todo)>>)
      /\ IF Len(h.todo) > 1 THEN Continue(s, [h EXCEPT !.todo = Tail(@)])
         ELSE IF h.op = "recordDecision" /\ h.arg = "refund"
         THEN Continue(s, [h EXCEPT !.todo = <<>>, !.pc = "saveCase", !.st = "DECIDED"])
         ELSE Return(s)
      /\ UNCHANGED <<payoutStatus, caseStatus, rowVars, version, decisions, executed>>

-----------------------------------------------------------------------------
(* Everything in the air is lost with the process; what was saved is kept.   *)
Crash ==
  /\ MayCrash
  /\ \E s \in Slots : handler[s] # Idle
  /\ handler' = [s \in Slots |-> Idle]
  /\ UNCHANGED <<dbVars, chainVars, calls>>

(* The chain and the clock.  A wallet is asked to sign when the request that *)
(* records the decision has been answered.  A response window is hours long: *)
(* it does not elapse while the request that opens the case is still running.*)
Outside ==
  /\ \/ \E c \in CaseIds : Answered(c) /\ SendRefund(c)
     \/ \E p \in Payments :
          \/ \E result \in {"arbiter", "reverted"} : SettleRefund(p, result)
          \/ RefundByRecipient(p)
          \/ WithdrawOnChain(p)
     \/ \E c \in CaseIds :
          /\ \A s \in Slots : ~ (handler[s].op = "openDispute" /\ handler[s].c = c)
          /\ DeadlineElapses(c)
  /\ UNCHANGED <<version, handler, calls>>

Start(s) ==
  \/ \E p \in Payments :
       \/ OpenDisputeLoad(s, p)
       \/ \E debtRecorded \in BOOLEAN : ConfirmRefundLoad(s, p, debtRecorded)
       \/ ConfirmWithdrawnLoad(s, p)
       \/ LockupEndedLoad(s, p)
       \/ DebtSettledLoad(s, p)
  \/ \E c \in CaseIds :
       \/ \E author \in Authors, withEvidence \in BOOLEAN :
            SubmitResponseLoad(s, c, author, withEvidence)
       \/ AttachEvidenceLoad(s, c)
       \/ \E target \in Parties : RequestInfoLoad(s, c, target)
       \/ \E outcome \in DecisionOutcome : RecordDecisionLoad(s, c, outcome)
       \/ StampRefundTxLoad(s, c)
       \/ DeadlinePassedLoad(s, c)
  \/ SchedulerFind(s)

Resume(s) ==
  \/ OpenDisputeCheck(s) \/ NextCaseNumber(s) \/ CreateCase(s) \/ ServeNotice(s)
  \/ CreateResponse(s) \/ AttachInResponse(s) \/ CreateEvidence(s) \/ SaveResponse(s)
  \/ SaveInfoRequest(s)
  \/ RecordDecisionPayout(s) \/ CreateDecision(s)
  \/ StampDecision(s) \/ StampPayout(s)
  \/ FindDecidedCase(s) \/ ExecuteDecision(s)
  \/ SchedulerSave(s)
  \/ SavePayout(s) \/ SaveCase(s) \/ EnqueueAnchor(s)

NextSteps == (\E s \in Slots : Start(s) \/ Resume(s)) \/ Outside \/ Crash

SpecSteps == InitSteps /\ [][NextSteps]_stepVars

-----------------------------------------------------------------------------
(* What holds at every step, with handlers overlapping and the process       *)
(* restarted at will.                                                        *)

StepsTypeOK ==
  /\ TypeOK
  /\ version \in [CaseIds -> 0..MaxCalls]
  /\ calls \in 0..MaxCalls
  /\ handler \in [Slots -> Handlers]

(* No stale save and no restart leaves a case decided or closed without a    *)
(* Decision row that gives the reasons.                                      *)
VerdictHasReasons ==
  \A c \in CaseIds : caseStatus[c] \in {"DECIDED", "CLOSED"} => decisions[c] # <<>>

HowMany(queue, kind) == Cardinality({i \in 1..Len(queue) : queue[i] = kind})
Queued(c, kind) == HowMany(jobs[c], kind)

(* The queue never runs ahead of the records: at any moment at which the     *)
(* process may stop, no job is queued for a row that was not saved, nor      *)
(* before the job of the registry step it builds on.                         *)
AnchorsFollowRecords ==
  \A c \in CaseIds :
    /\ Queued(c, "case") > 0 => Exists(c) /\ caseStatus[c] # "OPEN"
    /\ Queued(c, "response") > 0 => replied[c]
    /\ Queued(c, "decision") <= Queued(c, "under_review")
    /\ Queued(c, "under_review") <= Len(decisions[c])
    /\ Queued(c, "correction") <= Queued(c, "correction_outstanding")
    /\ Queued(c, "correction_outstanding") > 0 => executed[c] /\ RefundedOnChain(payoutRef[c])

(* However stale the payout a handler saves, it is not shown as refunded     *)
(* before a refund was sent (or a release reported as one), nor as withdrawn *)
(* before it was withdrawn.                                                  *)
StatusFollowsChain ==
  \A p \in Payments :
    /\ payoutStatus[p] \in Held \ {"DISPUTED"} => chainRefund[p] # "no" \/ Misreported(p)
    /\ payoutStatus[p] = "WITHDRAWN" => chainWithdrawn[p]

(* However handlers overlap, and wherever a restart cuts them off, what      *)
(* others rely on is written after what it rests on.                         *)
RecordsKeepUp == VerdictHasReasons /\ AnchorsFollowRecords /\ StatusFollowsChain

=============================================================================
