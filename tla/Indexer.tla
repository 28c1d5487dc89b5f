------------------------------ MODULE Indexer ------------------------------
(***************************************************************************)
(* How payments made on chain become payout rows: indexer.ts, which polls  *)
(* the events of RefundProtocol, and POST /payouts/confirm, with which the *)
(* browser reports a pay() it has just broadcast.  Both end in             *)
(* recordDetectedPayment (services.ts).                                    *)
(*                                                                         *)
(* A payment's id is its place in the order in which pay() transactions    *)
(* are mined.  The loop of the indexer never overlaps itself, but startup  *)
(* runs a tick of its own.  Code between two awaits is one step; the hooks *)
(* that confirm refunds and withdrawals are DisputeSteps' subject and one  *)
(* step here, and of disputes only the opening is kept.                    *)
(***************************************************************************)
EXTENDS StateMachines, FiniteSets, Sequences

CONSTANTS Pays,        \* pay() transactions
          Deal,        \* the recipient and amount of each
          MaxEvents,   \* bound: events of the contract
          Requests,    \* bound: calls of POST /payouts/confirm
          MaxFaults,   \* bound: restarts and failures
          NoPay

ASSUME PaysAssumption == IsFiniteSet(Pays) /\ NoPay \notin Pays
ASSUME BoundsAssumption == MaxEvents \in Nat /\ MaxFaults \in Nat
ASSUME RequestsAssumption == IsFiniteSet(Requests) /\ Requests \cap {"startup", "loop"} = {}

Ids   == 1..Cardinality(Pays)
Ticks == {"startup", "loop"}
Tasks == Ticks \cup Requests

VARIABLES
  preread,   \* the id the browser read before it sent a pay(), or 0
  mined,     \* RefundProtocol: the pays mined, by id
  log,       \* its events, in order
  seen,      \* ChainEvent rows, as places in log
  row,       \* the pay whose details the Payout row of an id holds, or NoPay
  status,    \* Payout.status
  receipts,  \* how many receipt jobs were enqueued for an id
  task,      \* what a tick or request does next, and about which payment
  hiccups,   \* failures that a later tick makes up for
  losses     \* restarts, and failures in the middle of handling a payment or event

chainVars == <<preread, mined, log>>
rowVars   == <<row, status, receipts>>
vars == <<chainVars, seen, rowVars, task, hiccups, losses>>

Kinds == {"PaymentCreated", "Refund", "Withdrawal"}
Event(kind, id) == [kind |-> kind, id |-> id]
Logged(kind, id) == \E e \in 1..Len(log) : log[e] = Event(kind, id)
Unseen == {e \in 1..Len(log) : e \notin seen}
SeenPaymentOf(id) == \E e \in seen : log[e] = Event("PaymentCreated", id)

Pcs == {"fetch", "insert", "unsent", "find", "create", "enqueue", "refund", "withdraw", "over"}
Idle(pc) == [pc |-> pc, todo |-> {}, id |-> 0, pay |-> NoPay]

(* The loop rests before its next fetch; a restart runs a tick at startup.   *)
Started == [t \in Ticks |-> Idle("fetch")]

TypeOK ==
  /\ preread \in [Pays -> {0} \cup Ids]
  /\ mined \in Seq(Pays) /\ Len(mined) <= Cardinality(Pays)
  /\ log \in Seq([kind : Kinds, id : Ids])
  /\ seen \subseteq 1..Len(log)
  /\ row \in [Ids -> Pays \cup {NoPay}]
  /\ status \in [Ids -> PaymentStatus]
  /\ receipts \in [Ids -> Nat]
  /\ task \in [Tasks -> [pc : Pcs, todo : SUBSET (1..Len(log)),
                         id : {0} \cup Ids, pay : Pays \cup {NoPay}]]
  /\ hiccups \in Nat /\ losses \in Nat /\ hiccups + losses <= MaxFaults

Init ==
  /\ preread = [t \in Pays |-> 0]
  /\ mined = <<>>
  /\ log = <<>>
  /\ seen = {}
  /\ row = [id \in Ids |-> NoPay]
  /\ status = [id \in Ids |-> "ESCROWED"]
  /\ receipts = [id \in Ids |-> 0]
  /\ task = [t \in Tasks |-> IF t \in Ticks THEN Started[t] ELSE Idle("unsent")]
  /\ hiccups = 0
  /\ losses = 0

Hiccup == hiccups + losses < MaxFaults /\ hiccups' = hiccups + 1 /\ UNCHANGED losses
Loss   == hiccups + losses < MaxFaults /\ losses' = losses + 1 /\ UNCHANGED hiccups
Fine   == UNCHANGED <<hiccups, losses>>

Set(t, v) == task' = [task EXCEPT ![t] = v]
Goto(t, pc) == task' = [task EXCEPT ![t].pc = pc]
TickEnds(t) == Set(t, Idle(IF t = "loop" THEN "fetch" ELSE "over"))

(* A tick goes on to its next event, a request is answered.                  *)
Handled(t) ==
  IF t \in Ticks
  THEN Set(t, [task[t] EXCEPT !.pc = "insert", !.id = 0, !.pay = NoPay])
  ELSE Set(t, [task[t] EXCEPT !.pc = "over", !.pay = NoPay])

-----------------------------------------------------------------------------
(* RefundProtocol, as wallets use it.                                        *)

ChainStep == UNCHANGED <<seen, rowVars, task, hiccups, losses>>

(* pay() in wallet.ts: the nonce is read just before the transaction is sent.*)
SendPay(t) ==
  /\ preread[t] = 0
  /\ preread' = [preread EXCEPT ![t] = Len(mined) + 1]
  /\ UNCHANGED <<mined, log>> /\ ChainStep

IdsOf(t) == {id \in 1..Len(mined) : mined[id] = t}   \* at most one

MinePay(t) ==
  /\ preread[t] # 0 /\ IdsOf(t) = {}
  /\ Len(log) < MaxEvents
  /\ mined' = Append(mined, t)
  /\ log' = Append(log, Event("PaymentCreated", Len(mined) + 1))
  /\ UNCHANGED preread /\ ChainStep

Emit(kind, id) ==
  /\ ~ Logged(kind, id) /\ ~ Logged("Refund", id)
  /\ Len(log) < MaxEvents
  /\ log' = Append(log, Event(kind, id))
  /\ UNCHANGED <<preread, mined>> /\ ChainStep

-----------------------------------------------------------------------------
(* A tick: the window is fetched, and event by event stored and dispatched.  *)

(* Events stored by now would be passed over as duplicates.                  *)
Fetch(t) ==
  /\ task[t].pc = "fetch"
  /\ \/ Fine /\ IF Unseen = {} THEN TickEnds(t)
                 ELSE Set(t, [Idle("insert") EXCEPT !.todo = Unseen])
     \/ Hiccup /\ TickEnds(t)
  /\ UNCHANGED <<chainVars, seen, rowVars>>

Handler == [PaymentCreated |-> "find", Refund |-> "refund", Withdrawal |-> "withdraw"]

After(e, todo) == {f \in todo : f > e}
First(todo) == {e \in todo : \A f \in todo : e <= f}

PassOver(t, todo) == task' = [task EXCEPT ![t].todo = todo]

Dispatch(t, e) ==
  /\ seen' = seen \cup {e}
  /\ Set(t, [pc |-> Handler[log[e].kind], todo |-> After(e, task[t].todo),
             id |-> log[e].id, pay |-> mined[log[e].id]])

(* A slip: an event that could not be stored counts as seen, as it would     *)
(* with a cursor in the place of the window.                                 *)
Insert_CursorSlip(t) ==
  LET left == task[t].todo \ seen
  IN  /\ task[t].pc = "insert"
      /\ \/ left = {} /\ Fine /\ TickEnds(t) /\ UNCHANGED seen
         \/ \E e \in First(left) :
              \/ Fine /\ Dispatch(t, e)
              \/ Hiccup /\ PassOver(t, After(e, left)) /\ seen' = seen \cup {e}
      /\ UNCHANGED <<chainVars, rowVars>>

(* ChainEvent.create: an error is taken for a duplicate, and the event is    *)
(* passed over, as one that another tick has stored meanwhile rightly is.    *)
Insert(t) ==
  LET left == task[t].todo \ seen
  IN  /\ task[t].pc = "insert"
      /\ \/ left = {} /\ Fine /\ TickEnds(t) /\ UNCHANGED seen
         \/ \E e \in First(left) :
              \/ Fine /\ Dispatch(t, e)
              \/ Hiccup /\ PassOver(t, After(e, left)) /\ UNCHANGED seen
      /\ UNCHANGED <<chainVars, rowVars>>

-----------------------------------------------------------------------------
(* POST /payouts/confirm: the id is read off the receipt of the transaction; *)
(* if that is not to be had, it is the one the caller read before it sent    *)
(* the transaction, or, if the body names none, the last one mined.          *)
Confirm(r, t) ==
  /\ task[r].pc = "unsent" /\ preread[t] # 0
  /\ \E id \in Ids :
       /\ \/ Fine /\ id \in IdsOf(t)
          \/ Fine /\ IdsOf(t) = {} /\ id \in {preread[t], Len(mined)}
          \/ Hiccup /\ id \in {preread[t], Len(mined)}
       /\ Set(r, [Idle("find") EXCEPT !.id = id, !.pay = t])
  /\ UNCHANGED <<chainVars, seen, rowVars>>

(* recordDetectedPayment.  Whatever fails in it, a tick goes on.  A row that  *)
(* is there gets another receipt job, unless its receipt is anchored, which  *)
(* it can be as soon as one was enqueued.                                    *)
FindPayout(t) ==
  LET id == task[t].id
  IN  /\ task[t].pc = "find"
      /\ \/ Fine /\ row[id] = NoPay /\ Goto(t, "create")
         \/ Fine /\ row[id] # NoPay /\ Goto(t, "enqueue")
         \/ Fine /\ row[id] # NoPay /\ receipts[id] > 0 /\ Handled(t)
         \/ Loss /\ Handled(t)
      /\ UNCHANGED <<chainVars, seen, rowVars>>

(* A slip: the row is made and its receipt left for later.                   *)
CreatePayout_Slip(t) ==
  /\ task[t].pc = "create"
  /\ Fine
  /\ row' = [row EXCEPT ![task[t].id] = IF @ = NoPay THEN task[t].pay ELSE @]
  /\ Handled(t)
  /\ UNCHANGED <<chainVars, seen, status, receipts>>

(* The unique index refuses a second row.                                    *)
CreatePayout(t) ==
  /\ task[t].pc = "create"
  /\ \/ /\ Fine /\ row[task[t].id] = NoPay
        /\ row' = [row EXCEPT ![task[t].id] = task[t].pay]
        /\ Goto(t, "enqueue")
     \/ /\ (row[task[t].id] # NoPay /\ Fine) \/ Loss
        /\ Handled(t)
        /\ UNCHANGED row
  /\ UNCHANGED <<chainVars, seen, status, receipts>>

EnqueueReceipt(t) ==
  /\ task[t].pc = "enqueue"
  /\ \/ Fine /\ receipts' = [receipts EXCEPT ![task[t].id] = @ + 1]
     \/ Loss /\ UNCHANGED receipts
  /\ Handled(t)
  /\ UNCHANGED <<chainVars, seen, row, status>>

-----------------------------------------------------------------------------
(* A slip: the exception is swallowed and the row saved all the same.        *)
Becomes_Slip(id, to) == status' = [status EXCEPT ![id] = to]

(* The hooks.  A status whose event is illegal is left alone.                *)

Becomes(id, to) ==
  status' = IF row[id] = NoPay \/ to = Illegal THEN status ELSE [status EXCEPT ![id] = to]

(* Refund: confirmRefundExecuted.  Looking up the recipient is outside its   *)
(* catch, and ends the tick if it fails.                                     *)
HandleRefund(t) ==
  LET id == task[t].id
  IN  /\ task[t].pc = "refund"
      /\ \/ /\ Fine
            /\ \E debtRecorded \in BOOLEAN : Becomes(id, RefundedStatus(status[id], debtRecorded))
            /\ Handled(t)
         \/ Loss /\ TickEnds(t) /\ UNCHANGED status
      /\ UNCHANGED <<chainVars, seen, row, receipts>>

(* Rows of the same recipient and amount that are not settled.               *)
LooksLike(id, pay) ==
  /\ row[id] # NoPay /\ Deal[row[id]] = Deal[pay]
  /\ status[id] \notin {"WITHDRAWN", "REFUNDED", "DEBT_SETTLED"}

(* A slip: every open row is marked.                                         *)
HandleWithdrawal_Slip(t) ==
  /\ task[t].pc = "withdraw"
  /\ Fine
  /\ status' = [id \in Ids |-> IF row[id] = NoPay \/ WithdrawnStatus(status[id]) = Illegal
                               THEN status[id] ELSE WithdrawnStatus(status[id])]
  /\ Handled(t)
  /\ UNCHANGED <<chainVars, seen, row, receipts>>

(* Withdrawal: confirmWithdrawn of the payment the transaction names, or, if *)
(* it cannot be read, of the rows that look like it.                         *)
HandleWithdrawal(t) ==
  /\ task[t].pc = "withdraw"
  /\ \/ /\ Fine
        /\ Becomes(task[t].id, WithdrawnStatus(status[task[t].id]))
     \/ /\ Hiccup
        /\ status' = [id \in Ids |->
             IF LooksLike(id, task[t].pay) /\ WithdrawnStatus(status[id]) # Illegal
             THEN WithdrawnStatus(status[id]) ELSE status[id]]
     \/ Loss /\ UNCHANGED status
  /\ Handled(t)
  /\ UNCHANGED <<chainVars, seen, row, receipts>>

OpenDispute(id) ==
  /\ row[id] # NoPay
  /\ ApplyPaymentEvent(status[id], "dispute_opened") # Illegal
  /\ Becomes(id, "DISPUTED")
  /\ UNCHANGED <<chainVars, seen, row, receipts, task, hiccups, losses>>

(* A restart: requests in the air are lost, the indexer starts over.         *)
Restart ==
  /\ Loss
  /\ task' = [t \in Tasks |-> IF t \in Ticks THEN Started[t]
                             ELSE IF task[t].pc = "unsent" THEN task[t]
                             ELSE [task[t] EXCEPT !.pc = "over"]]
  /\ UNCHANGED <<chainVars, seen, rowVars>>

-----------------------------------------------------------------------------
Record(t) == FindPayout(t) \/ CreatePayout(t) \/ EnqueueReceipt(t)
Tick(t) == Fetch(t) \/ Insert(t) \/ Record(t) \/ HandleRefund(t) \/ HandleWithdrawal(t)

Next ==
  \/ \E t \in Pays : SendPay(t) \/ MinePay(t) \/ (\E r \in Requests : Confirm(r, t))
  \/ \E id \in 1..Len(mined) : Emit("Refund", id) \/ Emit("Withdrawal", id)
  \/ \E t \in Ticks : Tick(t)
  \/ \E r \in Requests : Record(r)
  \/ \E id \in Ids : OpenDispute(id)
  \/ Restart

Spec == Init /\ [][Next]_vars

(* Ticks and requests that run keep running, and the loop starts over.       *)
FairSpec == Spec /\ \A t \in Ticks : WF_vars(Tick(t))
                 /\ \A r \in Requests : WF_vars(Record(r))

-----------------------------------------------------------------------------
(* Overlapping ticks, overlapping windows and restarts dispatch an event     *)
(* once: no more receipts are queued for a payment than it was reported, by  *)
(* the chain and by the browser.                                             *)
OneReceiptPerReport ==
  \A id \in Ids :
    receipts[id] <= Cardinality({r \in Requests : task[r].id = id})
                    + (IF SeenPaymentOf(id) THEN 1 ELSE 0)

(* A payout row has its receipt queued, or the call that made the row is     *)
(* about to queue it; only a call that was cut off leaves a row without.     *)
RowHasReceipt ==
  \A id \in Ids :
    row[id] # NoPay /\ losses = 0
      => receipts[id] > 0 \/ \E t \in Tasks : task[t].pc = "enqueue" /\ task[t].id = id

(* A row is shown as refunded if the chain said so of its payment, and as    *)
(* withdrawn if it said so of its payment, or of one that looks like it.     *)
StatusFollowsLog ==
  \A id \in Ids :
    /\ status[id] \in {"REFUNDED", "DEBT_OUTSTANDING"} => Logged("Refund", id)
    /\ status[id] = "WITHDRAWN" =>
         \E other \in 1..Len(mined) :
           /\ Logged("Withdrawal", other)
           /\ other = id \/ Deal[row[id]] = Deal[mined[other]]

(* Every payment mined gets its row and its receipt, from whichever report   *)
(* comes first, as long as no call is cut off.                               *)
PaymentsAreRecorded ==
  \A id \in Ids :
    Len(mined) >= id ~> (row[id] # NoPay /\ receipts[id] > 0) \/ losses > 0

(* A refund the chain reports of a disputed payment ends the dispute on its  *)
(* row, however many ticks fail to fetch or store it at first.               *)
RefundsReachRows ==
  \A id \in Ids :
    (status[id] = "DISPUTED" /\ \E e \in Unseen : log[e] = Event("Refund", id))
      ~> status[id] # "DISPUTED" \/ losses > 0

(* Rows, receipt jobs and statuses go with what was mined, whoever reported  *)
(* the payment.                                                              *)
RowsFollowChain == OneReceiptPerReport /\ RowHasReceipt /\ StatusFollowsLog

(* What the chain did reaches the rows, unless a call was cut off.           *)
EventsReachRows == PaymentsAreRecorded /\ RefundsReachRows

=============================================================================
