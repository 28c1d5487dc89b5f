--------------------------- MODULE Indexer_proofs ---------------------------
(***************************************************************************)
(* What the indexer and POST /payouts/confirm promise together, for any    *)
(* number of payments, events, requests, restarts and failures.            *)
(***************************************************************************)
EXTENDS Indexer, FiniteSetTheorems, SequenceTheorems, TLAPS

(* A payment is mined once, after it was sent, and only what was mined is in *)
(* the log.                                                                  *)
ChainMatches ==
  /\ \A i \in 1..Len(mined) : preread[mined[i]] # 0
  /\ \A i, j \in 1..Len(mined) : mined[i] = mined[j] => i = j
  /\ \A e \in 1..Len(log) : log[e].id \in 1..Len(mined)
  /\ \A e, f \in 1..Len(log) : log[e].kind = "PaymentCreated" /\ log[f] = log[e] => e = f

(* What a tick or request in the middle of its work knows is still so.       *)
TasksMatch ==
  \A t \in Tasks :
    /\ task[t].pc \in {"find", "create", "enqueue", "refund", "withdraw"} =>
         task[t].id \in Ids /\ task[t].pay \in Pays
    /\ task[t].pc = "refund" => Logged("Refund", task[t].id)
    /\ task[t].pc = "withdraw" => /\ Logged("Withdrawal", task[t].id)
                                  /\ task[t].id \in 1..Len(mined)
                                  /\ task[t].pay = mined[task[t].id]

(* In recordDetectedPayment, on behalf of a payment.                         *)
Recording(t, id) == task[t].id = id /\ task[t].pc \in {"find", "create", "enqueue"}

(* The two ticks never record the same payment: whichever of them stored the *)
(* event keeps the other from dispatching it.                                *)
TicksApart ==
  \A id \in Ids : \A t \in Ticks :
    Recording(t, id) => SeenPaymentOf(id) /\ \A u \in Ticks : Recording(u, id) => u = t

(* Requests that are through with a payment.                                 *)
Answered(id) == {r \in Requests : task[r].pc = "over" /\ task[r].id = id}

(* Receipts are accounted for by the reports that are dealt with; one under  *)
(* way has not queued its receipt yet.                                       *)
Dealt(id) == SeenPaymentOf(id) /\ \A t \in Ticks : ~ Recording(t, id)
ReceiptsCounted ==
  \A id \in Ids : receipts[id] <= Cardinality(Answered(id)) + (IF Dealt(id) THEN 1 ELSE 0)

(* Only a row is ever withdrawn.                                             *)
WithdrawnHasRow == \A id \in Ids : status[id] = "WITHDRAWN" => row[id] # NoPay

IndexerInv ==
  /\ TypeOK /\ ChainMatches /\ TasksMatch
  /\ TicksApart /\ ReceiptsCounted
  /\ RowHasReceipt /\ StatusFollowsLog /\ WithdrawnHasRow

-----------------------------------------------------------------------------
(* Helpers: the ids, the tasks and their types.                              *)

TaskType == [pc : Pcs, todo : SUBSET (1..Len(log)), id : {0} \cup Ids, pay : Pays \cup {NoPay}]

LEMMA IdsAreNumbers == Cardinality(Pays) \in Nat /\ Ids \subseteq Nat \ {0}
  BY PaysAssumption, FS_CardinalityType DEF Ids

LEMMA TicksAreNotRequests == Ticks \cap Requests = {} /\ Tasks = Ticks \cup Requests
  BY RequestsAssumption DEF Ticks, Tasks

LEMMA AnsweredIsFinite ==
  ASSUME NEW id
  PROVE  IsFiniteSet(Answered(id)) /\ Cardinality(Answered(id)) \in Nat
<1>1. Answered(id) \in SUBSET Requests
  BY DEF Answered
<1> QED
  BY <1>1, RequestsAssumption, FS_Subset, FS_CardinalityType

(* A payment event that is accepted took an edge of the payment machine.     *)
LEMMA EdgeTaken ==
  ASSUME NEW from, NEW event, ApplyPaymentEvent(from, event) # Illegal
  PROVE  \E edge \in PAYMENT_EDGES :
           edge[1] = from /\ edge[2] = event /\ edge[3] = ApplyPaymentEvent(from, event)
BY DEF ApplyPaymentEvent, TakeEdge

(* What the hooks and a dispute make of a status, if they change it.         *)
LEMMA RefundedIsRefunded ==
  ASSUME NEW from, NEW debt \in BOOLEAN, RefundedStatus(from, debt) # Illegal
  PROVE  RefundedStatus(from, debt) \in {"REFUNDED", "DEBT_OUTSTANDING"}
<1> DEFINE refunded == ApplyPaymentEvent(from, "refund_confirmed")
<1>1. refunded # Illegal
  BY DEF RefundedStatus
<1>2. refunded = "REFUNDED"
  BY <1>1, EdgeTaken DEF PAYMENT_EDGES
<1>3. ApplyPaymentEvent("REFUNDED", "refund_short_balance") \in {"DEBT_OUTSTANDING", Illegal}
  BY EdgeTaken DEF PAYMENT_EDGES
<1> QED
  BY <1>2, <1>3 DEF RefundedStatus

LEMMA WithdrawnIsWithdrawn ==
  ASSUME NEW from, WithdrawnStatus(from) # Illegal
  PROVE  WithdrawnStatus(from) = "WITHDRAWN"
<1>1. PICK unlocked : WithdrawnStatus(from) = ApplyPaymentEvent(unlocked, "withdraw")
  BY DEF WithdrawnStatus
<1> QED
  BY <1>1, EdgeTaken DEF PAYMENT_EDGES

LEMMA InitInv == Init => IndexerInv
<1> SUFFICES ASSUME Init PROVE IndexerInv
  OBVIOUS
<1>1. \A t \in Tasks : /\ task[t].id = 0 /\ task[t].pay = NoPay /\ task[t].todo = {}
                       /\ task[t].pc \in {"fetch", "unsent"}
  BY DEF Init, Started, Idle, Tasks
<1>2. Len(mined) = 0 /\ Len(log) = 0
  BY DEF Init
<1>3. TypeOK
  <2>1. task \in [Tasks -> TaskType]
    BY DEF Init, Started, Idle, TaskType, Pcs, Tasks
  <2>2. mined \in Seq(Pays) /\ Len(mined) <= Cardinality(Pays)
    BY <1>2, IdsAreNumbers DEF Init
  <2>3. log \in Seq([kind : Kinds, id : Ids]) /\ seen \subseteq 1..Len(log)
    BY DEF Init
  <2>4. /\ preread \in [Pays -> {0} \cup Ids] /\ row \in [Ids -> Pays \cup {NoPay}]
        /\ status \in [Ids -> PaymentStatus] /\ receipts \in [Ids -> Nat]
    BY DEF Init, PaymentStatus
  <2>5. hiccups \in Nat /\ losses \in Nat /\ hiccups + losses <= MaxFaults
    BY BoundsAssumption DEF Init
  <2> QED
    BY <2>1, <2>2, <2>3, <2>4, <2>5 DEF TypeOK, TaskType
<1>4. ChainMatches
  BY <1>2 DEF ChainMatches
<1>5. TasksMatch
  BY <1>1 DEF TasksMatch
<1>6. \A t \in Ticks : \A id : ~ Recording(t, id)
  BY <1>1 DEF Recording, Tasks
<1>7. TicksApart
  BY <1>6 DEF TicksApart
<1>8. ReceiptsCounted
  <2>1. \A id \in Ids : receipts[id] = 0
    BY DEF Init
  <2> QED
    BY <2>1, AnsweredIsFinite DEF ReceiptsCounted
<1>9. RowHasReceipt /\ StatusFollowsLog /\ WithdrawnHasRow
  BY DEF Init, RowHasReceipt, StatusFollowsLog, WithdrawnHasRow
<1> QED
  BY <1>3, <1>4, <1>5, <1>7, <1>8, <1>9 DEF IndexerInv

-----------------------------------------------------------------------------
(* What steps have in common.                                                *)

LEMMA Failures ==
  ASSUME TypeOK, Fine \/ Hiccup \/ Loss
  PROVE  /\ hiccups' \in Nat /\ losses' \in Nat /\ hiccups' + losses' <= MaxFaults
         /\ losses' = 0 => losses = 0
         /\ Loss => losses' # 0
<1>1. hiccups \in Nat /\ losses \in Nat /\ hiccups + losses <= MaxFaults /\ MaxFaults \in Nat
  BY BoundsAssumption DEF TypeOK
<1> QED
  BY <1>1 DEF Fine, Hiccup, Loss

LEMMA TypesOfTasks == ASSUME TypeOK PROVE task \in [Tasks -> TaskType]
  BY DEF TypeOK, TaskType

(* No report is begun, and none that was dealt with is forgotten.            *)
LEMMA CountsKept ==
  ASSUME IndexerInv, UNCHANGED receipts,
         \A id \in Ids : SeenPaymentOf(id)' <=> SeenPaymentOf(id),
         \A id \in Ids : Answered(id) \subseteq Answered(id)',
         \A id \in Ids : \A t \in Ticks : Recording(t, id)' => Recording(t, id)
  PROVE  TicksApart' /\ ReceiptsCounted'
<1>1. TicksApart'
  BY DEF IndexerInv, TicksApart
<1>2. ASSUME NEW id \in Ids
      PROVE  receipts'[id] <= Cardinality(Answered(id)') + (IF Dealt(id)' THEN 1 ELSE 0)
  <2>1. receipts[id] <= Cardinality(Answered(id)) + (IF Dealt(id) THEN 1 ELSE 0)
    BY DEF IndexerInv, ReceiptsCounted
  <2>2. Dealt(id) => Dealt(id)'
    BY DEF Dealt
  <2>3. /\ Cardinality(Answered(id)) \in Nat /\ Cardinality(Answered(id)') \in Nat
        /\ Cardinality(Answered(id)) <= Cardinality(Answered(id)')
    <3>1. IsFiniteSet(Answered(id)') /\ Cardinality(Answered(id)') \in Nat
      <4>1. Answered(id)' \in SUBSET Requests
        BY DEF Answered
      <4> QED
        BY <4>1, RequestsAssumption, FS_Subset, FS_CardinalityType
    <3> QED
      BY <3>1, AnsweredIsFinite, FS_Subset
  <2>4. receipts[id] \in Nat
    BY DEF IndexerInv, TypeOK
  <2> QED
    BY <2>1, <2>2, <2>3, <2>4
<1>3. ReceiptsCounted'
  BY <1>2 DEF ReceiptsCounted
<1> QED
  BY <1>1, <1>3

(* The step of a tick or request that reports no payment anew and queues no  *)
(* receipt.                                                                  *)
LEMMA TaskMoves ==
  ASSUME IndexerInv, NEW t \in Tasks, NEW v \in TaskType, Set(t, v),
         UNCHANGED <<chainVars, seen, receipts>>,
         task[t].pc # "over",
         t \in Ticks => \A id \in Ids :
           v.id = id /\ v.pc \in {"find", "create", "enqueue"} => Recording(t, id),
         v.pc \in {"find", "create", "enqueue", "refund", "withdraw"} =>
           v.id \in Ids /\ v.pay \in Pays,
         v.pc \notin {"refund", "withdraw"}
  PROVE  task' \in [Tasks -> TaskType]' /\ ChainMatches' /\ TasksMatch'
         /\ TicksApart' /\ ReceiptsCounted'
<1>1. task \in [Tasks -> TaskType]
  BY TypesOfTasks DEF IndexerInv
<1>2. task' = [task EXCEPT ![t] = v]
  BY DEF Set
<1>3. task'[t] = v /\ \A u \in Tasks \ {t} : task'[u] = task[u]
  BY <1>1, <1>2
<1>4. task' \in [Tasks -> TaskType]'
  BY <1>1, <1>2 DEF TaskType, chainVars
<1>5. ChainMatches'
  BY DEF IndexerInv, ChainMatches, chainVars
<1>6. TasksMatch'
  BY <1>3 DEF IndexerInv, TasksMatch, Logged, chainVars
<1>7. \A id \in Ids : SeenPaymentOf(id)' <=> SeenPaymentOf(id)
  BY DEF SeenPaymentOf, chainVars
<1>8. \A id \in Ids : Answered(id) \subseteq Answered(id)'
  BY <1>3, TicksAreNotRequests DEF Answered
<1>9. \A id \in Ids : \A u \in Ticks : Recording(u, id)' => Recording(u, id)
  BY <1>3, TicksAreNotRequests DEF Recording
<1> QED
  BY <1>4, <1>5, <1>6, <1>7, <1>8, <1>9, CountsKept

(* Rows stay, and whoever was about to queue a receipt still is, or was cut  *)
(* off.                                                                      *)
LEMMA RowsStay ==
  ASSUME IndexerInv, UNCHANGED <<chainVars, rowVars>>, Fine \/ Hiccup \/ Loss,
         Loss \/ \A t \in Tasks :
                   task[t].pc = "enqueue" => task'[t].pc = "enqueue" /\ task'[t].id = task[t].id
  PROVE  RowHasReceipt' /\ StatusFollowsLog' /\ WithdrawnHasRow'
<1>1. /\ losses' = 0 => losses = 0
      /\ Loss => losses' # 0
  BY Failures DEF IndexerInv
<1>2. RowHasReceipt'
  BY <1>1 DEF IndexerInv, RowHasReceipt, rowVars
<1>3. StatusFollowsLog' /\ WithdrawnHasRow'
  BY DEF IndexerInv, StatusFollowsLog, WithdrawnHasRow, Logged, rowVars, chainVars
<1> QED
  BY <1>2, <1>3

(* A step of a tick or request that leaves the rows alone.                   *)
LEMMA QuietStep ==
  ASSUME IndexerInv, NEW t \in Tasks, NEW v \in TaskType, Set(t, v),
         UNCHANGED <<chainVars, seen, rowVars>>, Fine \/ Hiccup \/ Loss,
         task[t].pc # "over",
         t \in Ticks => \A id \in Ids :
           v.id = id /\ v.pc \in {"find", "create", "enqueue"} => Recording(t, id),
         v.pc \in {"find", "create", "enqueue", "refund", "withdraw"} =>
           v.id \in Ids /\ v.pay \in Pays,
         v.pc \notin {"refund", "withdraw"},
         Loss \/ task[t].pc # "enqueue"
  PROVE  IndexerInv'
<1>1. task' \in [Tasks -> TaskType]' /\ ChainMatches' /\ TasksMatch'
      /\ TicksApart' /\ ReceiptsCounted'
  BY TaskMoves DEF rowVars
<1>2. \A u \in Tasks \ {t} : task'[u] = task[u]
  BY TypesOfTasks DEF Set, IndexerInv
<1>3. RowHasReceipt' /\ StatusFollowsLog' /\ WithdrawnHasRow'
  BY <1>2, RowsStay
<1>4. hiccups' \in Nat /\ losses' \in Nat /\ hiccups' + losses' <= MaxFaults
  BY Failures DEF IndexerInv
<1>5. TypeOK'
  BY <1>1, <1>4 DEF IndexerInv, TypeOK, TaskType, chainVars, rowVars
<1> QED
  BY <1>1, <1>3, <1>5 DEF IndexerInv

-----------------------------------------------------------------------------
(* The steps of ticks and requests.                                          *)

LEMMA FetchKeeps == ASSUME IndexerInv, NEW t \in Ticks, Fetch(t) PROVE IndexerInv'
<1>1. /\ task[t].pc = "fetch" /\ (Fine \/ Hiccup)
      /\ UNCHANGED <<chainVars, seen, rowVars>>
  BY DEF Fetch
<1>2. PICK v \in TaskType : Set(t, v) /\ v.pc \in {"fetch", "insert", "over"}
  <2>1. \/ TickEnds(t)
        \/ Set(t, [Idle("insert") EXCEPT !.todo = Unseen])
    BY DEF Fetch
  <2>2. \A pc \in Pcs : Idle(pc) \in TaskType /\ Idle(pc).pc = pc
    BY DEF Idle, TaskType
  <2>3. CASE TickEnds(t)
    BY <2>2, <2>3 DEF TickEnds, Pcs
  <2>4. CASE Set(t, [Idle("insert") EXCEPT !.todo = Unseen])
    <3>1. [Idle("insert") EXCEPT !.todo = Unseen] \in TaskType
          /\ [Idle("insert") EXCEPT !.todo = Unseen].pc = "insert"
      BY DEF Idle, TaskType, Unseen, Pcs
    <3> QED
      BY <2>4, <3>1
  <2> QED
    BY <2>1, <2>3, <2>4
<1>3. t \in Tasks
  BY TicksAreNotRequests
<1> QED
  BY <1>1, <1>2, <1>3, QuietStep

(* An event is dispatched once: nobody has seen it, nor is at its payment.   *)
LEMMA DispatchKeeps ==
  ASSUME IndexerInv, NEW t \in Ticks, task[t].pc = "insert", UNCHANGED <<chainVars, rowVars>>,
         Fine, NEW e \in task[t].todo \ seen, Dispatch(t, e)
  PROVE  IndexerInv'
<1> DEFINE v == [pc |-> Handler[log[e].kind], todo |-> After(e, task[t].todo),
                 id |-> log[e].id, pay |-> mined[log[e].id]]
           id0 == log[e].id
<1>1. /\ TypeOK /\ ChainMatches /\ TasksMatch /\ TicksApart /\ ReceiptsCounted
      /\ t \in Tasks /\ task \in [Tasks -> TaskType]
  BY TypesOfTasks, TicksAreNotRequests DEF IndexerInv
<1>2. e \in 1..Len(log) /\ e \notin seen /\ task[t].todo \subseteq 1..Len(log)
  BY <1>1 DEF TaskType
<1>3. log[e] \in [kind : Kinds, id : Ids] /\ id0 \in 1..Len(mined) /\ mined[id0] \in Pays
  <2>1. log[e] \in [kind : Kinds, id : Ids]
    BY <1>1, <1>2, ElementOfSeq DEF TypeOK
  <2>2. id0 \in 1..Len(mined)
    BY <1>1, <1>2 DEF ChainMatches
  <2> QED
    BY <1>1, <2>1, <2>2, ElementOfSeq DEF TypeOK
<1>4. /\ log[e] = Event(log[e].kind, id0)
      /\ \/ log[e].kind = "PaymentCreated" /\ Handler[log[e].kind] = "find"
         \/ log[e].kind = "Refund" /\ Handler[log[e].kind] = "refund"
         \/ log[e].kind = "Withdrawal" /\ Handler[log[e].kind] = "withdraw"
  BY <1>3 DEF Kinds, Handler, Event
<1>5. /\ v \in TaskType /\ v.pc = Handler[log[e].kind]
      /\ v.id = id0 /\ v.pay = mined[id0]
  BY <1>2, <1>3, <1>4 DEF TaskType, After, Pcs
<1>6. task' = [task EXCEPT ![t] = v] /\ seen' = seen \cup {e}
  BY DEF Dispatch, Set
<1> HIDE DEF v
<1>7. task'[t] = v /\ \A u \in Tasks \ {t} : task'[u] = task[u]
  BY <1>1, <1>6
<1>8. TypeOK'
  <2>1. task' \in [Tasks -> TaskType]' /\ seen' \subseteq 1..Len(log)
    BY <1>1, <1>2, <1>5, <1>6 DEF TypeOK, TaskType, chainVars
  <2> QED
    BY <1>1, <2>1, Failures DEF TypeOK, TaskType, chainVars, rowVars
<1>9. ChainMatches' /\ TasksMatch'
  <2>1. v.pc = "refund" => Logged("Refund", v.id)
    BY <1>2, <1>4, <1>5 DEF Logged
  <2>2. v.pc = "withdraw" => Logged("Withdrawal", v.id)
    BY <1>2, <1>4, <1>5 DEF Logged
  <2> QED
    BY <1>1, <1>3, <1>5, <1>7, <2>1, <2>2 DEF TasksMatch, ChainMatches, Logged, chainVars
<1>10. \A id \in Ids : /\ Answered(id) = Answered(id)'
                       /\ \A u \in Ticks \ {t} : Recording(u, id)' <=> Recording(u, id)
  BY <1>7, TicksAreNotRequests DEF Answered, Recording
<1>11. TicksApart' /\ ReceiptsCounted'
  <2>1. CASE log[e].kind = "PaymentCreated"
    <3>1. \A id \in Ids : SeenPaymentOf(id)' <=> SeenPaymentOf(id) \/ id = id0
      BY <1>4, <1>6, <2>1 DEF SeenPaymentOf, Event, chainVars
    <3>2. ~ SeenPaymentOf(id0)
      BY <1>1, <1>2, <1>4, <2>1 DEF SeenPaymentOf, ChainMatches, TypeOK
    <3>3. \A u \in Ticks : ~ Recording(u, id0)
      BY <1>1, <1>3, <3>2 DEF TicksApart
    <3>4. \A id \in Ids : Recording(t, id)' <=> id = id0
      BY <1>4, <1>5, <1>7, <2>1 DEF Recording
    <3>5. \A id \in Ids \ {id0} : ~ Recording(t, id)
      BY <1>1 DEF Recording
    <3>6. TicksApart'
      BY <1>1, <1>10, <3>1, <3>3, <3>4 DEF TicksApart
    <3>7. \A id \in Ids : /\ receipts'[id] = receipts[id] /\ receipts[id] \in Nat
                          /\ Cardinality(Answered(id)') = Cardinality(Answered(id))
                          /\ Cardinality(Answered(id)) \in Nat
      BY <1>1, <1>10, AnsweredIsFinite DEF TypeOK, rowVars
    <3>8. \A id \in Ids : Dealt(id) => Dealt(id)'
      BY <1>10, <3>1, <3>2, <3>4 DEF Dealt
    <3>9. ReceiptsCounted'
      BY <1>1, <3>7, <3>8 DEF ReceiptsCounted
    <3> QED
      BY <3>6, <3>9
  <2>2. CASE log[e].kind # "PaymentCreated"
    <3>1. \A id \in Ids : SeenPaymentOf(id)' <=> SeenPaymentOf(id)
      BY <1>6, <2>2 DEF SeenPaymentOf, Event, chainVars
    <3>2. \A id \in Ids : \A u \in Ticks : Recording(u, id)' => Recording(u, id)
      BY <1>4, <1>5, <1>7, <1>10, <2>2 DEF Recording
    <3> QED
      BY <1>10, <3>1, <3>2, CountsKept DEF rowVars
  <2> QED
    BY <2>1, <2>2
<1>12. RowHasReceipt' /\ StatusFollowsLog' /\ WithdrawnHasRow'
  BY <1>7, RowsStay
<1> QED
  BY <1>8, <1>9, <1>11, <1>12 DEF IndexerInv

LEMMA InsertKeeps == ASSUME IndexerInv, NEW t \in Ticks, Insert(t) PROVE IndexerInv'
<1> DEFINE left == task[t].todo \ seen
<1>1. task[t].pc = "insert" /\ UNCHANGED <<chainVars, rowVars>>
  BY DEF Insert
<1>2. t \in Tasks /\ task[t] \in TaskType
  BY TypesOfTasks, TicksAreNotRequests DEF IndexerInv
<1>3. CASE Fine /\ TickEnds(t) /\ UNCHANGED seen
  <2>1. PICK pc \in {"fetch", "over"} : Set(t, Idle(pc))
    BY <1>3 DEF TickEnds
  <2>2. Idle(pc) \in TaskType /\ Idle(pc).pc = pc
    BY DEF Idle, TaskType, Pcs
  <2> QED
    BY <1>1, <1>2, <1>3, <2>1, <2>2, QuietStep
<1>4. CASE \E e \in First(left) : Fine /\ Dispatch(t, e)
  BY <1>1, <1>4, DispatchKeeps DEF First
<1>5. CASE \E e \in First(left) : Hiccup /\ PassOver(t, After(e, left)) /\ UNCHANGED seen
  <2>1. PICK e \in First(left) : Hiccup /\ PassOver(t, After(e, left)) /\ UNCHANGED seen
    BY <1>5
  <2> DEFINE v == [task[t] EXCEPT !.todo = After(e, left)]
  <2>2. Set(t, v)
    BY <1>2, <2>1, TypesOfTasks DEF PassOver, Set, IndexerInv
  <2>3. v \in TaskType /\ v.pc = "insert"
    BY <1>1, <1>2 DEF TaskType, After
  <2> HIDE DEF v
  <2> QED
    BY <1>1, <1>2, <2>1, <2>2, <2>3, QuietStep
<1> QED
  BY <1>3, <1>4, <1>5 DEF Insert

LEMMA ConfirmKeeps ==
  ASSUME IndexerInv, NEW r \in Requests, NEW t \in Pays, Confirm(r, t) PROVE IndexerInv'
<1>1. /\ task[r].pc = "unsent" /\ (Fine \/ Hiccup)
      /\ UNCHANGED <<chainVars, seen, rowVars>>
  BY DEF Confirm
<1>2. PICK id \in Ids : Set(r, [Idle("find") EXCEPT !.id = id, !.pay = t])
  BY DEF Confirm
<1> DEFINE v == [Idle("find") EXCEPT !.id = id, !.pay = t]
<1>3. v \in TaskType /\ v.pc = "find" /\ v.id = id /\ v.pay = t
  BY DEF Idle, TaskType, Pcs
<1>4. r \in Tasks /\ r \notin Ticks
  BY TicksAreNotRequests
<1> HIDE DEF v
<1>5. Set(r, v)
  BY <1>2 DEF v
<1> QED
  BY <1>1, <1>3, <1>4, <1>5, QuietStep

(* Where a call stands that is done with a payment or an event.              *)
LEMMA HandledMoves ==
  ASSUME TypeOK, NEW t \in Tasks, Handled(t)
  PROVE  \E v \in TaskType : /\ Set(t, v)
                             /\ v.pc \in {"insert", "over"}
                             /\ t \in Requests => v.pc = "over" /\ v.id = task[t].id
<1>1. task[t] \in TaskType
  BY TypesOfTasks
<1>2. CASE t \in Ticks
  <2> DEFINE v == [task[t] EXCEPT !.pc = "insert", !.id = 0, !.pay = NoPay]
  <2>1. v \in TaskType /\ v.pc = "insert"
    BY <1>1 DEF TaskType, Pcs
  <2>2. Set(t, v)
    BY <1>2 DEF Handled
  <2>3. t \notin Requests
    BY <1>2, TicksAreNotRequests
  <2> HIDE DEF v
  <2> QED
    BY <2>1, <2>2, <2>3
<1>3. CASE t \notin Ticks
  <2> DEFINE v == [task[t] EXCEPT !.pc = "over", !.pay = NoPay]
  <2>1. v \in TaskType /\ v.pc = "over" /\ v.id = task[t].id
    BY <1>1 DEF TaskType, Pcs
  <2>2. Set(t, v)
    BY <1>3 DEF Handled
  <2> HIDE DEF v
  <2> QED
    BY <2>1, <2>2
<1> QED
  BY <1>2, <1>3

(* A call goes on with its payment.                                          *)
LEMMA GotoMoves ==
  ASSUME TypeOK, NEW t \in Tasks, NEW pc \in Pcs, Goto(t, pc)
  PROVE  \E v \in TaskType : /\ Set(t, v)
                             /\ v.pc = pc /\ v.id = task[t].id /\ v.pay = task[t].pay
<1> DEFINE v == [task[t] EXCEPT !.pc = pc]
<1>1. task \in [Tasks -> TaskType]
  BY TypesOfTasks
<1>2. v \in TaskType /\ v.pc = pc /\ v.id = task[t].id /\ v.pay = task[t].pay
  BY <1>1 DEF TaskType
<1>3. Set(t, v)
  BY <1>1 DEF Goto, Set
<1> HIDE DEF v
<1> QED
  BY <1>2, <1>3

LEMMA FindPayoutKeeps == ASSUME IndexerInv, NEW t \in Tasks, FindPayout(t) PROVE IndexerInv'
<1>1. /\ task[t].pc = "find" /\ (Fine \/ Loss)
      /\ UNCHANGED <<chainVars, seen, rowVars>>
      /\ Goto(t, "create") \/ Goto(t, "enqueue") \/ Handled(t)
  BY DEF FindPayout
<1>2. TypeOK /\ task[t].id \in Ids /\ task[t].pay \in Pays
  BY <1>1 DEF IndexerInv, TasksMatch
<1>3. CASE Goto(t, "create") \/ Goto(t, "enqueue")
  <2>1. PICK v \in TaskType : /\ Set(t, v) /\ v.pc \in {"create", "enqueue"}
                              /\ v.id = task[t].id /\ v.pay = task[t].pay
    BY <1>2, <1>3, GotoMoves DEF Pcs
  <2>2. \A id \in Ids : v.id = id => Recording(t, id)
    BY <1>1, <2>1 DEF Recording
  <2> QED
    BY <1>1, <1>2, <2>1, <2>2, QuietStep
<1>4. CASE Handled(t)
  <2>1. PICK v \in TaskType : Set(t, v) /\ v.pc \in {"insert", "over"}
    BY <1>2, <1>4, HandledMoves
  <2> QED
    BY <1>1, <2>1, QuietStep
<1> QED
  BY <1>1, <1>3, <1>4

LEMMA CreatePayoutKeeps == ASSUME IndexerInv, NEW t \in Tasks, CreatePayout(t) PROVE IndexerInv'
<1> DEFINE id0 == task[t].id
<1>1. task[t].pc = "create" /\ UNCHANGED <<chainVars, seen, status, receipts>>
  BY DEF CreatePayout
<1>2. /\ TypeOK /\ id0 \in Ids /\ task[t].pay \in Pays
      /\ task \in [Tasks -> TaskType] /\ row \in [Ids -> Pays \cup {NoPay}]
  BY <1>1, TypesOfTasks DEF IndexerInv, TasksMatch, TypeOK
<1>3. CASE /\ Fine /\ row[id0] = NoPay
           /\ row' = [row EXCEPT ![id0] = task[t].pay]
           /\ Goto(t, "enqueue")
  <2>1. PICK v \in TaskType : /\ Set(t, v) /\ v.pc = "enqueue"
                              /\ v.id = id0 /\ v.pay = task[t].pay
    BY <1>2, <1>3, GotoMoves DEF Pcs
  <2>2. \A id \in Ids : v.id = id => Recording(t, id)
    BY <1>1, <2>1 DEF Recording
  <2>3. task' \in [Tasks -> TaskType]' /\ ChainMatches' /\ TasksMatch'
        /\ TicksApart' /\ ReceiptsCounted'
    BY <1>1, <1>2, <2>1, <2>2, TaskMoves
  <2>4. task'[t] = v /\ \A u \in Tasks \ {t} : task'[u] = task[u]
    BY <1>2, <2>1 DEF Set
  <2>5. row' \in [Ids -> Pays \cup {NoPay}] /\ \A id \in Ids \ {id0} : row'[id] = row[id]
    BY <1>2, <1>3
  <2>6. losses' = losses /\ hiccups' = hiccups
    BY <1>3 DEF Fine
  <2>7. TypeOK'
    BY <1>1, <1>2, <2>3, <2>5, <2>6 DEF TypeOK, TaskType, chainVars
  <2>8. RowHasReceipt'
    <3>1. ASSUME NEW id \in Ids, row'[id] # NoPay, losses' = 0
          PROVE  receipts'[id] > 0 \/ \E u \in Tasks : task'[u].pc = "enqueue" /\ task'[u].id = id
      <4>1. CASE id = id0
        BY <2>1, <2>4, <4>1
      <4>2. CASE id # id0
        <5>1. receipts[id] > 0 \/ \E u \in Tasks : task[u].pc = "enqueue" /\ task[u].id = id
          BY <2>5, <2>6, <3>1, <4>2 DEF IndexerInv, RowHasReceipt
        <5> QED
          BY <1>1, <2>4, <5>1
      <4> QED
        BY <4>1, <4>2
    <3> QED
      BY <3>1 DEF RowHasReceipt
  <2>9. StatusFollowsLog' /\ WithdrawnHasRow'
    <3>1. \A id \in Ids : status[id] = "WITHDRAWN" => row'[id] = row[id]
      BY <1>3, <2>5 DEF IndexerInv, WithdrawnHasRow
    <3> QED
      BY <1>1, <3>1 DEF IndexerInv, StatusFollowsLog, WithdrawnHasRow, Logged, chainVars
  <2> QED
    BY <2>3, <2>7, <2>8, <2>9 DEF IndexerInv
<1>4. CASE (Fine \/ Loss) /\ Handled(t) /\ UNCHANGED row
  <2>1. PICK v \in TaskType : Set(t, v) /\ v.pc \in {"insert", "over"}
    BY <1>2, <1>4, HandledMoves
  <2> QED
    BY <1>1, <1>4, <2>1, QuietStep DEF rowVars
<1> QED
  BY <1>3, <1>4 DEF CreatePayout

(* A receipt is queued by a report that is dealt with thereby.               *)
LEMMA EnqueueReceiptKeeps ==
  ASSUME IndexerInv, NEW t \in Tasks, EnqueueReceipt(t) PROVE IndexerInv'
<1>1. task[t].pc = "enqueue" /\ Handled(t) /\ UNCHANGED <<chainVars, seen, row, status>>
  BY DEF EnqueueReceipt
<1>2. /\ TypeOK /\ task[t].id \in Ids /\ task[t].pay \in Pays
      /\ task \in [Tasks -> TaskType] /\ receipts \in [Ids -> Nat]
      /\ TicksApart /\ ReceiptsCounted
  BY <1>1, TypesOfTasks DEF IndexerInv, TasksMatch, TypeOK
<1>3. PICK id0 \in Ids : id0 = task[t].id
  BY <1>2
<1>4. PICK v \in TaskType : /\ Set(t, v) /\ v.pc \in {"insert", "over"}
                            /\ t \in Requests => v.pc = "over" /\ v.id = id0
  BY <1>1, <1>2, <1>3, HandledMoves
<1>5. CASE Loss /\ UNCHANGED receipts
  BY <1>1, <1>4, <1>5, QuietStep DEF rowVars
<1>6. CASE Fine /\ receipts' = [receipts EXCEPT ![id0] = @ + 1]
  <2>1. task'[t] = v /\ \A u \in Tasks \ {t} : task'[u] = task[u]
    BY <1>2, <1>3, <1>4 DEF Set
  <2>2. task' \in [Tasks -> TaskType]'
    BY <1>1, <1>2, <1>3, <1>4 DEF Set, TaskType, chainVars
  <2>3. /\ receipts' \in [Ids -> Nat] /\ receipts'[id0] = receipts[id0] + 1
        /\ \A id \in Ids \ {id0} : receipts'[id] = receipts[id]
    BY <1>2, <1>3, <1>6
  <2>4. losses' = losses /\ hiccups' = hiccups
    BY <1>6 DEF Fine
  <2>5. TypeOK'
    BY <1>1, <1>2, <1>3, <2>2, <2>3, <2>4 DEF TypeOK, TaskType, chainVars
  <2>6. ChainMatches' /\ TasksMatch'
    BY <1>1, <1>4, <2>1 DEF IndexerInv, ChainMatches, TasksMatch, Logged, chainVars
  <2>7. /\ \A id \in Ids : SeenPaymentOf(id)' <=> SeenPaymentOf(id)
        /\ \A id \in Ids : \A u \in Ticks : Recording(u, id)' => Recording(u, id)
        /\ \A id \in Ids : Answered(id) \subseteq Answered(id)'
    BY <1>1, <1>4, <2>1, TicksAreNotRequests DEF SeenPaymentOf, Recording, Answered, chainVars
  <2>8. TicksApart'
    BY <1>2, <1>3, <2>7 DEF TicksApart
  <2>9. ReceiptsCounted'
    <3>1. ASSUME NEW id \in Ids
          PROVE  /\ Cardinality(Answered(id)) \in Nat /\ Cardinality(Answered(id)') \in Nat
                 /\ Cardinality(Answered(id)) <= Cardinality(Answered(id)')
                 /\ IsFiniteSet(Answered(id)')
                 /\ Dealt(id) => Dealt(id)'
      <4>1. IsFiniteSet(Answered(id)')
        <5>1. Answered(id)' \in SUBSET Requests
          BY DEF Answered
        <5> QED
          BY <5>1, RequestsAssumption, FS_Subset
      <4> QED
        BY <2>7, <4>1, AnsweredIsFinite, FS_Subset, FS_CardinalityType DEF Dealt
    <3>2. ASSUME receipts'[id0] <= Cardinality(Answered(id0)') + (IF Dealt(id0)' THEN 1 ELSE 0)
          PROVE  ReceiptsCounted'
      <4>1. ASSUME NEW id \in Ids, id # id0
            PROVE  receipts'[id] <= Cardinality(Answered(id)') + (IF Dealt(id)' THEN 1 ELSE 0)
        <5>1. receipts[id] <= Cardinality(Answered(id)) + (IF Dealt(id) THEN 1 ELSE 0)
          BY <1>2 DEF ReceiptsCounted
        <5>2. receipts'[id] = receipts[id] /\ receipts[id] \in Nat
          BY <1>2, <2>3, <4>1
        <5> QED
          BY <3>1, <5>1, <5>2
      <4> QED
        BY <3>2, <4>1 DEF ReceiptsCounted
    <3>3. CASE t \in Ticks
      <4>1. Recording(t, id0) /\ SeenPaymentOf(id0) /\ ~ Dealt(id0)
        BY <1>1, <1>2, <1>3, <3>3 DEF Recording, TicksApart, Dealt
      <4>2. \A u \in Ticks : ~ Recording(u, id0)'
        BY <1>2, <1>3, <1>4, <2>1, <2>7, <3>3, <4>1 DEF TicksApart, Recording
      <4>3. Dealt(id0)'
        BY <2>7, <1>2, <1>3, <4>1, <4>2 DEF Dealt
      <4>4. receipts[id0] <= Cardinality(Answered(id0))
        <5>1. receipts[id0] <= Cardinality(Answered(id0)) + (IF Dealt(id0) THEN 1 ELSE 0)
          BY <1>2, <1>3 DEF ReceiptsCounted
        <5> QED
          BY <3>1, <4>1, <5>1
      <4>5. receipts'[id0] <= Cardinality(Answered(id0)') + 1
        BY <1>2, <1>3, <2>3, <3>1, <4>4
      <4> QED
        BY <3>2, <4>3, <4>5
    <3>4. CASE t \notin Ticks
      <4>1. t \in Requests /\ t \notin Answered(id0) /\ t \in Answered(id0)'
        BY <1>1, <1>4, <2>1, <3>4, TicksAreNotRequests DEF Answered
      <4>2. Cardinality(Answered(id0)) + 1 <= Cardinality(Answered(id0)')
        <5>1. Cardinality(Answered(id0) \cup {t}) = Cardinality(Answered(id0)) + 1
          BY <4>1, AnsweredIsFinite, FS_AddElement
        <5>2. Answered(id0) \cup {t} \in SUBSET (Answered(id0)')
          BY <1>3, <2>7, <4>1
        <5>3. Cardinality(Answered(id0) \cup {t}) <= Cardinality(Answered(id0)')
          BY <1>3, <3>1, <5>2, FS_Subset
        <5> QED
          BY <5>1, <5>3
      <4>3. receipts'[id0] <= Cardinality(Answered(id0)') + (IF Dealt(id0)' THEN 1 ELSE 0)
        <5>1. receipts[id0] <= Cardinality(Answered(id0)) + (IF Dealt(id0) THEN 1 ELSE 0)
          BY <1>2, <1>3 DEF ReceiptsCounted
        <5> QED
          BY <1>2, <1>3, <2>3, <3>1, <4>2, <5>1
      <4> QED
        BY <3>2, <4>3
    <3> QED
      BY <3>3, <3>4
  <2>10. RowHasReceipt'
    <3>1. ASSUME NEW id \in Ids, row'[id] # NoPay, losses' = 0
          PROVE  receipts'[id] > 0 \/ \E u \in Tasks : task'[u].pc = "enqueue" /\ task'[u].id = id
      <4>1. CASE id = id0
        BY <1>2, <1>3, <2>3, <4>1
      <4>2. CASE id # id0
        <5>1. receipts[id] > 0 \/ \E u \in Tasks : task[u].pc = "enqueue" /\ task[u].id = id
          BY <1>1, <2>4, <3>1 DEF IndexerInv, RowHasReceipt
        <5> QED
          BY <1>3, <2>1, <2>3, <4>2, <5>1
      <4> QED
        BY <4>1, <4>2
    <3> QED
      BY <3>1 DEF RowHasReceipt
  <2>11. StatusFollowsLog' /\ WithdrawnHasRow'
    BY <1>1 DEF IndexerInv, StatusFollowsLog, WithdrawnHasRow, Logged, chainVars
  <2> QED
    BY <2>5, <2>6, <2>8, <2>9, <2>10, <2>11 DEF IndexerInv
<1> QED
  BY <1>3, <1>5, <1>6 DEF EnqueueReceipt

(* A status changes as the chain's log or a dispute has it.                  *)
LEMMA StatusMoves ==
  ASSUME IndexerInv, UNCHANGED <<chainVars, row, receipts>>,
         status' \in [Ids -> PaymentStatus],
         \A id \in Ids :
           \/ status'[id] = status[id] \/ status'[id] = "DISPUTED"
           \/ status'[id] \in {"REFUNDED", "DEBT_OUTSTANDING"} /\ Logged("Refund", id)
           \/ /\ status'[id] = "WITHDRAWN" /\ row[id] # NoPay
              /\ \E other \in 1..Len(mined) :
                   /\ Logged("Withdrawal", other)
                   /\ other = id \/ Deal[row[id]] = Deal[mined[other]]
  PROVE  StatusFollowsLog' /\ WithdrawnHasRow'
<1>1. UNCHANGED <<mined, log>>
  BY DEF chainVars
<1>2. StatusFollowsLog /\ WithdrawnHasRow
  BY DEF IndexerInv
<1>3. WithdrawnHasRow'
  BY <1>2 DEF WithdrawnHasRow
<1>4. \A kind, id : Logged(kind, id)' <=> Logged(kind, id)
  BY <1>1 DEF Logged
<1>5. StatusFollowsLog'
  BY <1>1, <1>2, <1>4 DEF StatusFollowsLog
<1> QED
  BY <1>3, <1>5

(* A hook of a tick that is then done with its event.                        *)
LEMMA HookKeeps ==
  ASSUME IndexerInv, NEW t \in Ticks, task[t].pc \in {"refund", "withdraw"},
         NEW v \in TaskType, Set(t, v), v.pc \in {"fetch", "insert", "over"},
         UNCHANGED <<chainVars, seen, row, receipts>>, Fine \/ Hiccup \/ Loss,
         status' \in [Ids -> PaymentStatus],
         StatusFollowsLog' /\ WithdrawnHasRow'
  PROVE  IndexerInv'
<1>1. t \in Tasks
  BY TicksAreNotRequests
<1>2. task' \in [Tasks -> TaskType]' /\ ChainMatches' /\ TasksMatch'
      /\ TicksApart' /\ ReceiptsCounted'
  BY <1>1, TaskMoves
<1>3. \A u \in Tasks \ {t} : task'[u] = task[u]
  BY TypesOfTasks DEF Set, IndexerInv
<1>4. /\ hiccups' \in Nat /\ losses' \in Nat /\ hiccups' + losses' <= MaxFaults
      /\ losses' = 0 => losses = 0
  BY Failures DEF IndexerInv
<1>5. RowHasReceipt'
  BY <1>3, <1>4 DEF IndexerInv, RowHasReceipt
<1>6. TypeOK'
  BY <1>2, <1>4 DEF IndexerInv, TypeOK, TaskType, chainVars
<1> QED
  BY <1>2, <1>5, <1>6 DEF IndexerInv

LEMMA HandleRefundKeeps == ASSUME IndexerInv, NEW t \in Ticks, HandleRefund(t) PROVE IndexerInv'
<1>1. /\ task[t].pc = "refund" /\ UNCHANGED <<chainVars, seen, row, receipts>>
      /\ t \in Tasks
  BY TicksAreNotRequests DEF HandleRefund
<1>2. TypeOK /\ task[t].id \in Ids /\ Logged("Refund", task[t].id)
      /\ status \in [Ids -> PaymentStatus]
  BY <1>1 DEF IndexerInv, TasksMatch, TypeOK
<1>3. PICK v \in TaskType : Set(t, v) /\ v.pc \in {"fetch", "insert", "over"}
  <2>1. Handled(t) \/ TickEnds(t)
    BY DEF HandleRefund
  <2>2. \A pc \in {"fetch", "over"} : Idle(pc) \in TaskType /\ Idle(pc).pc = pc
    BY DEF Idle, TaskType, Pcs
  <2>3. CASE TickEnds(t)
    BY <2>2, <2>3 DEF TickEnds
  <2>4. CASE Handled(t)
    BY <1>1, <1>2, <2>4, HandledMoves
  <2> QED
    BY <2>1, <2>3, <2>4
<1>4. /\ status' \in [Ids -> PaymentStatus]
      /\ \A id \in Ids : \/ status'[id] = status[id]
                         \/ status'[id] \in {"REFUNDED", "DEBT_OUTSTANDING"} /\ Logged("Refund", id)
  <2>1. CASE \E debtRecorded \in BOOLEAN :
               Becomes(task[t].id, RefundedStatus(status[task[t].id], debtRecorded))
    <3>1. PICK debtRecorded \in BOOLEAN :
               Becomes(task[t].id, RefundedStatus(status[task[t].id], debtRecorded))
      BY <2>1
    <3> DEFINE to == RefundedStatus(status[task[t].id], debtRecorded)
    <3>2. to # Illegal => to \in {"REFUNDED", "DEBT_OUTSTANDING"}
      BY RefundedIsRefunded
    <3>3. \/ status' = status
          \/ to # Illegal /\ status' = [status EXCEPT ![task[t].id] = to]
      BY <3>1 DEF Becomes
    <3> HIDE DEF to
    <3> QED
      BY <1>2, <3>2, <3>3 DEF PaymentStatus
  <2>2. CASE UNCHANGED status
    BY <1>2, <2>2
  <2> QED
    BY <2>1, <2>2 DEF HandleRefund
<1>5. StatusFollowsLog' /\ WithdrawnHasRow'
  BY <1>1, <1>4, StatusMoves
<1>6. Fine \/ Hiccup \/ Loss
  BY DEF HandleRefund
<1> QED
  BY <1>1, <1>3, <1>4, <1>5, <1>6, HookKeeps

LEMMA HandleWithdrawalKeeps ==
  ASSUME IndexerInv, NEW t \in Ticks, HandleWithdrawal(t) PROVE IndexerInv'
<1>1. /\ task[t].pc = "withdraw" /\ UNCHANGED <<chainVars, seen, row, receipts>>
      /\ t \in Tasks /\ Handled(t) /\ (Fine \/ Hiccup \/ Loss)
  BY TicksAreNotRequests DEF HandleWithdrawal
<1>2. PICK id0 \in Ids : id0 = task[t].id
  BY <1>1 DEF IndexerInv, TasksMatch
<1>3. /\ TypeOK /\ Logged("Withdrawal", id0) /\ id0 \in 1..Len(mined)
      /\ task[t].pay = mined[id0] /\ status \in [Ids -> PaymentStatus]
  BY <1>1, <1>2 DEF IndexerInv, TasksMatch, TypeOK
<1>4. PICK v \in TaskType : Set(t, v) /\ v.pc \in {"insert", "over"}
  BY <1>1, <1>3, HandledMoves
<1>5. \A id \in Ids : WithdrawnStatus(status[id]) # Illegal =>
                        WithdrawnStatus(status[id]) = "WITHDRAWN"
  BY WithdrawnIsWithdrawn
<1>6. /\ status' \in [Ids -> PaymentStatus]
      /\ \A id \in Ids : \/ status'[id] = status[id]
                         \/ /\ status'[id] = "WITHDRAWN" /\ row[id] # NoPay
                            /\ id = id0 \/ Deal[row[id]] = Deal[mined[id0]]
  <2>1. CASE Becomes(task[t].id, WithdrawnStatus(status[task[t].id]))
    <3> DEFINE to == WithdrawnStatus(status[id0])
    <3>1. \/ status' = status
          \/ to # Illegal /\ row[id0] # NoPay /\ status' = [status EXCEPT ![id0] = to]
      BY <1>2, <2>1 DEF Becomes
    <3>2. to # Illegal => to = "WITHDRAWN"
      BY <1>5
    <3> HIDE DEF to
    <3> QED
      BY <1>3, <3>1, <3>2 DEF PaymentStatus
  <2>2. CASE status' = [id \in Ids |->
               IF LooksLike(id, task[t].pay) /\ WithdrawnStatus(status[id]) # Illegal
               THEN WithdrawnStatus(status[id]) ELSE status[id]]
    <3>1. \A id \in Ids : LooksLike(id, task[t].pay) =>
                            row[id] # NoPay /\ Deal[row[id]] = Deal[mined[id0]]
      BY <1>3 DEF LooksLike
    <3>2. \A id \in Ids : \/ status'[id] = status[id]
                          \/ status'[id] = "WITHDRAWN" /\ LooksLike(id, task[t].pay)
      BY <1>5, <2>2
    <3>3. status' \in [Ids -> PaymentStatus]
      BY <1>3, <1>5, <2>2 DEF PaymentStatus
    <3> QED
      BY <3>1, <3>2, <3>3
  <2>3. CASE UNCHANGED status
    BY <1>3, <2>3
  <2> QED
    BY <2>1, <2>2, <2>3 DEF HandleWithdrawal
<1>7. StatusFollowsLog' /\ WithdrawnHasRow'
  BY <1>1, <1>3, <1>6, StatusMoves
<1> QED
  BY <1>1, <1>4, <1>6, <1>7, HookKeeps

LEMMA OpenDisputeKeeps == ASSUME IndexerInv, NEW id \in Ids, OpenDispute(id) PROVE IndexerInv'
<1>1. UNCHANGED <<chainVars, seen, row, receipts, task, hiccups, losses>>
  BY DEF OpenDispute
<1>2. TypeOK /\ status \in [Ids -> PaymentStatus]
  BY DEF IndexerInv, TypeOK
<1>3. status' = status \/ status' = [status EXCEPT ![id] = "DISPUTED"]
  BY DEF OpenDispute, Becomes
<1>4. status' \in [Ids -> PaymentStatus]
      /\ \A i \in Ids : status'[i] = status[i] \/ status'[i] = "DISPUTED"
  BY <1>2, <1>3 DEF PaymentStatus
<1>5. StatusFollowsLog' /\ WithdrawnHasRow'
  BY <1>1, <1>4, StatusMoves
<1>6. TypeOK'
  BY <1>1, <1>2, <1>4 DEF TypeOK, chainVars
<1>7. ChainMatches' /\ TasksMatch' /\ TicksApart' /\ ReceiptsCounted' /\ RowHasReceipt'
  BY <1>1 DEF IndexerInv, ChainMatches, TasksMatch, TicksApart, ReceiptsCounted, RowHasReceipt,
              Recording, SeenPaymentOf, Answered, Dealt, Logged, chainVars
<1> QED
  BY <1>5, <1>6, <1>7 DEF IndexerInv

LEMMA RestartKeeps == ASSUME IndexerInv, Restart PROVE IndexerInv'
<1>1. Loss /\ UNCHANGED <<chainVars, seen, rowVars>>
  BY DEF Restart
<1>2. TypeOK /\ task \in [Tasks -> TaskType]
  BY TypesOfTasks DEF IndexerInv
<1>3. \A t \in Ticks : task'[t] = Idle("fetch")
  BY TicksAreNotRequests DEF Restart, Started
<1>4. \A r \in Requests : \/ task'[r] = task[r] /\ task[r].pc = "unsent"
                          \/ task'[r] = [task[r] EXCEPT !.pc = "over"]
  BY TicksAreNotRequests DEF Restart
<1>5. Idle("fetch") \in TaskType /\ Idle("fetch").pc = "fetch"
  BY DEF Idle, TaskType, Pcs
<1>6. \A r \in Requests : /\ task'[r] \in TaskType /\ task'[r].id = task[r].id
                          /\ task'[r].pc \in {"unsent", "over"}
                          /\ task[r].pc = "over" => task'[r].pc = "over"
  <2> SUFFICES ASSUME NEW r \in Requests
               PROVE  /\ task'[r] \in TaskType /\ task'[r].id = task[r].id
                      /\ task'[r].pc \in {"unsent", "over"}
                      /\ task[r].pc = "over" => task'[r].pc = "over"
    OBVIOUS
  <2>1. task[r] \in TaskType
    BY <1>2, TicksAreNotRequests
  <2>2. CASE task'[r] = task[r] /\ task[r].pc = "unsent"
    BY <2>1, <2>2
  <2>3. CASE task'[r] = [task[r] EXCEPT !.pc = "over"]
    BY <2>1, <2>3 DEF TaskType, Pcs
  <2> QED
    BY <1>4, <2>2, <2>3
<1>7. task' \in [Tasks -> TaskType]
  BY <1>3, <1>5, <1>6, TicksAreNotRequests DEF Restart
<1>8. TypeOK'
  BY <1>1, <1>2, <1>7, Failures DEF TypeOK, TaskType, chainVars, rowVars
<1>9. ChainMatches' /\ TasksMatch'
  BY <1>1, <1>3, <1>5, <1>6, TicksAreNotRequests
     DEF IndexerInv, ChainMatches, TasksMatch, Logged, chainVars
<1>10. /\ \A id \in Ids : SeenPaymentOf(id)' <=> SeenPaymentOf(id)
       /\ \A id \in Ids : Answered(id) \subseteq Answered(id)'
       /\ \A id \in Ids : \A t \in Ticks : Recording(t, id)' => Recording(t, id)
  BY <1>1, <1>3, <1>5, <1>6 DEF SeenPaymentOf, Answered, Recording, chainVars
<1>11. TicksApart' /\ ReceiptsCounted'
  BY <1>1, <1>10, CountsKept DEF rowVars
<1>12. RowHasReceipt' /\ StatusFollowsLog' /\ WithdrawnHasRow'
  BY <1>1, RowsStay
<1> QED
  BY <1>8, <1>9, <1>11, <1>12 DEF IndexerInv

-----------------------------------------------------------------------------
(* The steps of the chain.                                                   *)

(* The chain only grows: what was said of it stays true.                     *)
LEMMA ChainGrows ==
  ASSUME IndexerInv, ChainStep,
         mined' \in Seq(Pays), Len(mined') <= Cardinality(Pays),
         Len(mined) <= Len(mined'), \A i \in 1..Len(mined) : mined'[i] = mined[i],
         log' \in Seq([kind : Kinds, id : Ids]),
         Len(log) <= Len(log'), \A e \in 1..Len(log) : log'[e] = log[e],
         preread' \in [Pays -> {0} \cup Ids],
         ChainMatches'
  PROVE  IndexerInv'
<1>1. TypeOK /\ task \in [Tasks -> TaskType] /\ UNCHANGED <<seen, rowVars, task, hiccups, losses>>
  BY TypesOfTasks DEF IndexerInv, ChainStep
<1>2. /\ Len(mined) \in Nat /\ Len(mined') \in Nat /\ Len(log) \in Nat /\ Len(log') \in Nat
      /\ 1..Len(mined) \subseteq 1..Len(mined') /\ 1..Len(log) \subseteq 1..Len(log')
  BY <1>1, LenProperties DEF TypeOK
<1>3. TypeOK'
  <2>1. seen' \subseteq 1..Len(log') /\ task' \in [Tasks -> TaskType]'
    BY <1>1, <1>2 DEF TypeOK, TaskType
  <2> QED
    BY <1>1, <2>1 DEF TypeOK, TaskType, rowVars
<1>4. \A kind, id : Logged(kind, id) => Logged(kind, id)'
  BY <1>2 DEF Logged
<1>5. \A id : SeenPaymentOf(id)' <=> SeenPaymentOf(id)
  <2>1. \A e \in seen : log'[e] = log[e]
    BY <1>1 DEF TypeOK
  <2> QED
    BY <1>1, <2>1 DEF SeenPaymentOf
<1>6. TasksMatch'
  BY <1>1, <1>2, <1>4 DEF IndexerInv, TasksMatch
<1>7. TicksApart' /\ ReceiptsCounted' /\ RowHasReceipt' /\ WithdrawnHasRow'
  BY <1>1, <1>5 DEF IndexerInv, TicksApart, ReceiptsCounted, RowHasReceipt, WithdrawnHasRow,
                    Recording, Answered, Dealt, rowVars
<1>8. StatusFollowsLog'
  <2>1. StatusFollowsLog /\ status' = status /\ row' = row
    BY <1>1 DEF IndexerInv, rowVars
  <2>2. \A other \in 1..Len(mined) : other \in 1..Len(mined') /\ mined'[other] = mined[other]
    BY <1>2
  <2> QED
    BY <1>4, <2>1, <2>2 DEF StatusFollowsLog
<1> QED
  BY <1>3, <1>6, <1>7, <1>8 DEF IndexerInv

(* There are ids left as long as a payment is not mined.                     *)
LEMMA RoomForOne ==
  ASSUME TypeOK, ChainMatches, NEW t \in Pays, \A i \in 1..Len(mined) : mined[i] # t
  PROVE  Len(mined) \in Nat /\ Len(mined) + 1 <= Cardinality(Pays) /\ Len(mined) + 1 \in Ids
<1>1. mined \in [1..Len(mined) -> Pays] /\ Len(mined) \in Nat
  BY LenProperties DEF TypeOK
<1>2. mined \in Injection(1..Len(mined), Pays \ {t})
  BY <1>1 DEF ChainMatches, Injection, IsInjective
<1>3. IsFiniteSet(Pays \ {t}) /\ Cardinality(Pays \ {t}) = Cardinality(Pays) - 1
  BY PaysAssumption, FS_RemoveElement
<1>4. Cardinality(1..Len(mined)) <= Cardinality(Pays \ {t})
  BY <1>2, <1>3, FS_Injection
<1>5. Cardinality(1..Len(mined)) = Len(mined)
  <2>1. Cardinality(1..Len(mined)) = IF 1 > Len(mined) THEN 0 ELSE Len(mined) - 1 + 1
    BY <1>1, FS_Interval
  <2> QED
    BY <1>1, <2>1
<1> QED
  BY <1>1, <1>3, <1>4, <1>5, IdsAreNumbers DEF Ids

LEMMA SendPayKeeps == ASSUME IndexerInv, NEW t \in Pays, SendPay(t) PROVE IndexerInv'
<1>1. /\ preread[t] = 0 /\ preread' = [preread EXCEPT ![t] = Len(mined) + 1]
      /\ UNCHANGED <<mined, log>> /\ ChainStep
  BY DEF SendPay
<1>2. /\ TypeOK /\ ChainMatches /\ preread \in [Pays -> {0} \cup Ids]
      /\ mined \in Seq(Pays) /\ Len(mined) <= Cardinality(Pays) /\ Len(mined) \in Nat
      /\ log \in Seq([kind : Kinds, id : Ids]) /\ Len(log) \in Nat
  BY LenProperties DEF IndexerInv, TypeOK
<1>3. Len(mined) + 1 \in Ids
  BY <1>1, <1>2, RoomForOne DEF ChainMatches
<1>4. preread' \in [Pays -> {0} \cup Ids]
  BY <1>1, <1>2, <1>3
<1>5. ChainMatches'
  <2>1. \A i \in 1..Len(mined) : mined[i] \in Pays /\ preread'[mined[i]] = preread[mined[i]]
    BY <1>1, <1>2, ElementOfSeq DEF ChainMatches
  <2> QED
    BY <1>1, <1>2, <2>1 DEF ChainMatches
<1> QED
  BY <1>1, <1>2, <1>4, <1>5, ChainGrows

LEMMA MinePayKeeps == ASSUME IndexerInv, NEW t \in Pays, MinePay(t) PROVE IndexerInv'
<1> DEFINE event == Event("PaymentCreated", Len(mined) + 1)
<1>1. /\ preread[t] # 0 /\ IdsOf(t) = {}
      /\ mined' = Append(mined, t) /\ log' = Append(log, event)
      /\ UNCHANGED preread /\ ChainStep
  BY DEF MinePay
<1>2. /\ TypeOK /\ ChainMatches /\ preread \in [Pays -> {0} \cup Ids]
      /\ mined \in Seq(Pays) /\ Len(mined) \in Nat
      /\ log \in Seq([kind : Kinds, id : Ids]) /\ Len(log) \in Nat
  BY LenProperties DEF IndexerInv, TypeOK
<1>3. \A i \in 1..Len(mined) : mined[i] # t
  BY <1>1 DEF IdsOf
<1>4. Len(mined) + 1 <= Cardinality(Pays) /\ Len(mined) + 1 \in Ids
  BY <1>2, <1>3, RoomForOne
<1>5. /\ event \in [kind : Kinds, id : Ids]
      /\ event.kind = "PaymentCreated" /\ event.id = Len(mined) + 1
  BY <1>4 DEF Event, Kinds
<1> HIDE DEF event
<1>6. /\ mined' \in Seq(Pays) /\ Len(mined') = Len(mined) + 1
      /\ \A i \in 1..Len(mined) : mined'[i] = mined[i]
      /\ mined'[Len(mined) + 1] = t
  BY <1>1, <1>2, AppendProperties
<1>7. /\ log' \in Seq([kind : Kinds, id : Ids]) /\ Len(log') = Len(log) + 1
      /\ \A e \in 1..Len(log) : log'[e] = log[e]
      /\ log'[Len(log) + 1] = event
  BY <1>1, <1>2, <1>5, AppendProperties
<1>8. ChainMatches'
  <2>1. 1..Len(mined') = 1..Len(mined) \cup {Len(mined) + 1}
    BY <1>2, <1>6
  <2>2. 1..Len(log') = 1..Len(log) \cup {Len(log) + 1}
    BY <1>2, <1>7
  <2>3. \A i \in 1..Len(mined') : preread'[mined'[i]] # 0
    BY <1>1, <1>2, <1>6, <2>1 DEF ChainMatches
  <2>4. \A i, j \in 1..Len(mined') : mined'[i] = mined'[j] => i = j
    BY <1>2, <1>3, <1>6, <2>1 DEF ChainMatches
  <2>5. \A e \in 1..Len(log) : log[e].id \in 1..Len(mined)
    BY <1>2 DEF ChainMatches
  <2>6. \A e \in 1..Len(log') : log'[e].id \in 1..Len(mined')
    BY <1>2, <1>5, <1>7, <2>1, <2>2, <2>5
  <2>7. \A e, f \in 1..Len(log) : log[e].kind = "PaymentCreated" /\ log[f] = log[e] => e = f
    BY <1>2 DEF ChainMatches
  <2>8. \A e \in 1..Len(log) : log[e] # event
    BY <1>2, <1>5, <2>5
  <2>9. \A e, f \in 1..Len(log') : log'[e].kind = "PaymentCreated" /\ log'[f] = log'[e] => e = f
    BY <1>7, <2>2, <2>7, <2>8
  <2> QED
    BY <2>3, <2>4, <2>6, <2>9 DEF ChainMatches
<1> QED
  BY <1>1, <1>2, <1>4, <1>6, <1>7, <1>8, ChainGrows

LEMMA EmitKeeps ==
  ASSUME IndexerInv, NEW kind \in {"Refund", "Withdrawal"}, NEW id \in 1..Len(mined),
         Emit(kind, id)
  PROVE  IndexerInv'
<1> DEFINE event == Event(kind, id)
<1>1. log' = Append(log, event) /\ UNCHANGED <<preread, mined>> /\ ChainStep
  BY DEF Emit
<1>2. /\ TypeOK /\ ChainMatches /\ preread \in [Pays -> {0} \cup Ids]
      /\ mined \in Seq(Pays) /\ Len(mined) \in Nat /\ Len(mined) <= Cardinality(Pays)
      /\ log \in Seq([kind : Kinds, id : Ids]) /\ Len(log) \in Nat
  BY LenProperties DEF IndexerInv, TypeOK
<1>3. id \in Ids
  BY <1>2, IdsAreNumbers DEF Ids
<1>4. event \in [kind : Kinds, id : Ids] /\ event.kind = kind /\ event.id = id
  BY <1>3 DEF Event, Kinds
<1> HIDE DEF event
<1>5. /\ log' \in Seq([kind : Kinds, id : Ids]) /\ Len(log') = Len(log) + 1
      /\ \A e \in 1..Len(log) : log'[e] = log[e]
      /\ log'[Len(log) + 1] = event
  BY <1>1, <1>2, <1>4, AppendProperties
<1>6. ChainMatches'
  <2>1. 1..Len(log') = 1..Len(log) \cup {Len(log) + 1}
    BY <1>2, <1>5
  <2>2. \A e \in 1..Len(log') : log'[e].id \in 1..Len(mined)
    BY <1>2, <1>4, <1>5, <2>1 DEF ChainMatches
  <2>3. \A e, f \in 1..Len(log') : log'[e].kind = "PaymentCreated" /\ log'[f] = log'[e] => e = f
    <3>1. \A e, f \in 1..Len(log) : log[e].kind = "PaymentCreated" /\ log[f] = log[e] => e = f
      BY <1>2 DEF ChainMatches
    <3>2. event.kind # "PaymentCreated"
      BY <1>4
    <3> QED
      BY <1>5, <2>1, <3>1, <3>2
  <2>4. \A i \in 1..Len(mined) : preread[mined[i]] # 0
    BY <1>2 DEF ChainMatches
  <2>5. \A i, j \in 1..Len(mined) : mined[i] = mined[j] => i = j
    BY <1>2 DEF ChainMatches
  <2> QED
    BY <1>1, <2>2, <2>3, <2>4, <2>5 DEF ChainMatches
<1> QED
  BY <1>1, <1>2, <1>5, <1>6, ChainGrows

-----------------------------------------------------------------------------
LEMMA RecordKeeps == ASSUME IndexerInv, NEW t \in Tasks, Record(t) PROVE IndexerInv'
  BY FindPayoutKeeps, CreatePayoutKeeps, EnqueueReceiptKeeps DEF Record

LEMMA TickKeeps == ASSUME IndexerInv, NEW t \in Ticks, Tick(t) PROVE IndexerInv'
<1>1. t \in Tasks
  BY TicksAreNotRequests
<1> QED
  BY <1>1, FetchKeeps, InsertKeeps, RecordKeeps, HandleRefundKeeps, HandleWithdrawalKeeps DEF Tick

LEMMA StepKeeps == IndexerInv /\ [Next]_vars => IndexerInv'
<1> SUFFICES ASSUME IndexerInv, [Next]_vars PROVE IndexerInv'
  OBVIOUS
<1>1. CASE \E t \in Pays : SendPay(t) \/ MinePay(t) \/ (\E r \in Requests : Confirm(r, t))
  BY <1>1, SendPayKeeps, MinePayKeeps, ConfirmKeeps
<1>2. CASE \E id \in 1..Len(mined) : Emit("Refund", id) \/ Emit("Withdrawal", id)
  BY <1>2, EmitKeeps
<1>3. CASE \E t \in Ticks : Tick(t)
  BY <1>3, TickKeeps
<1>4. CASE \E r \in Requests : Record(r)
  BY <1>4, RecordKeeps, TicksAreNotRequests
<1>5. CASE \E id \in Ids : OpenDispute(id)
  BY <1>5, OpenDisputeKeeps
<1>6. CASE Restart
  BY <1>6, RestartKeeps
<1>7. CASE UNCHANGED vars
  <2>1. UNCHANGED <<preread, mined, log, seen, row, status, receipts, task, hiccups, losses>>
    BY <1>7 DEF vars, chainVars, rowVars
  <2>2. TypeOK' /\ ChainMatches' /\ TasksMatch'
    BY <2>1 DEF IndexerInv, TypeOK, ChainMatches, TasksMatch, Logged
  <2>3. TicksApart' /\ ReceiptsCounted'
    BY <2>1 DEF IndexerInv, TicksApart, ReceiptsCounted, Recording, Answered, Dealt, SeenPaymentOf
  <2>4. RowHasReceipt' /\ StatusFollowsLog' /\ WithdrawnHasRow'
    BY <2>1 DEF IndexerInv, RowHasReceipt, StatusFollowsLog, WithdrawnHasRow, Logged
  <2> QED
    BY <2>2, <2>3, <2>4 DEF IndexerInv
<1> QED
  BY <1>1, <1>2, <1>3, <1>4, <1>5, <1>6, <1>7 DEF Next

LEMMA Inductive == Spec => []IndexerInv
  BY InitInv, StepKeeps, PTL DEF Spec

(* The chain, the rows of the database and the ticks and requests keep their *)
(* types; no more payments get an id than are sent.                          *)
THEOREM TypeCorrect == Spec => []TypeOK
<1>1. IndexerInv => TypeOK
  BY DEF IndexerInv
<1> QED
  BY <1>1, Inductive, PTL

(* A tick never stores the event of a payment another one is recording: they *)
(* do not meet in recordDetectedPayment over one payment.                    *)
THEOREM TicksDoNotMeet ==
  Spec => [](\A id \in Ids : \A t, u \in Ticks : Recording(t, id) /\ Recording(u, id) => t = u)
<1>1. IndexerInv => \A id \in Ids : \A t, u \in Ticks : Recording(t, id) /\ Recording(u, id) => t = u
  BY DEF IndexerInv, TicksApart
<1> QED
  BY <1>1, Inductive, PTL

(* Whoever reported a payment, the chain or the browser, and however ticks   *)
(* overlap, are cut off or start over: no more receipts are queued than      *)
(* there were reports, a row comes with its receipt, and a row says refunded *)
(* or withdrawn because the chain did.                                       *)
THEOREM RowsFollow == Spec => []RowsFollowChain
<1>1. ASSUME IndexerInv PROVE OneReceiptPerReport
  <2>1. ASSUME NEW id \in Ids
        PROVE  receipts[id] <= Cardinality({r \in Requests : task[r].id = id})
                               + (IF SeenPaymentOf(id) THEN 1 ELSE 0)
    <3> DEFINE reported == {r \in Requests : task[r].id = id}
    <3>1. /\ IsFiniteSet(reported) /\ Cardinality(reported) \in Nat
          /\ Cardinality(Answered(id)) <= Cardinality(reported)
          /\ Cardinality(Answered(id)) \in Nat
      <4>1. reported \in SUBSET Requests /\ Answered(id) \in SUBSET reported
        BY DEF Answered
      <4> QED
        BY <4>1, RequestsAssumption, AnsweredIsFinite, FS_Subset, FS_CardinalityType
    <3>2. receipts[id] <= Cardinality(Answered(id)) + (IF Dealt(id) THEN 1 ELSE 0)
      BY <1>1 DEF IndexerInv, ReceiptsCounted
    <3>3. receipts[id] \in Nat
      BY <1>1 DEF IndexerInv, TypeOK
    <3>4. Dealt(id) => SeenPaymentOf(id)
      BY DEF Dealt
    <3> HIDE DEF reported
    <3>5. receipts[id] <= Cardinality(reported) + (IF SeenPaymentOf(id) THEN 1 ELSE 0)
      BY <3>1, <3>2, <3>3, <3>4
    <3> QED
      BY <3>5 DEF reported
  <2> QED
    BY <2>1 DEF OneReceiptPerReport
<1>2. IndexerInv => RowsFollowChain
  BY <1>1 DEF IndexerInv, RowsFollowChain
<1> QED
  BY <1>2, Inductive, PTL

=============================================================================
