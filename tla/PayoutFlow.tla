------------------------------ MODULE PayoutFlow ------------------------------
(***************************************************************************)
(* Paying on screen: NewPayout.tsx and approveAndPay send pay() to the     *)
(* RefundProtocol, find out which payment it became, have the API record   *)
(* it (POST /payouts/confirm), attach the work to it (POST .../metadata)   *)
(* and upload the contracts; meanwhile the indexer records every payment   *)
(* it sees.  Payments are numbered by the contract's nonce, from 0, in the *)
(* order they are mined, and a screen learns its number by reading that    *)
(* nonce before its own transaction is mined, or later.                    *)
(*                                                                         *)
(* One screen pays once; the next payment of the same person is another    *)
(* screen.  A record is told by the screen whose data it holds.            *)
(***************************************************************************)
EXTENDS Integers, Sequences

CONSTANTS Screens,     \* payments started, each on a screen of its own
          Details,     \* what the screens may send along, see Work
          MaxTries,    \* bound: attempts of each of the screen's loops (3, 3, 8)
          MaxPayments, \* bound: payments mined
          Nobody,      \* no screen
          NoId         \* no payment id

(* A description or deliverables, with the latest due date if there is one,  *)
(* and whether contracts are to be uploaded.                                 *)
Work == [text : BOOLEAN, due : {"none", "early", "late"}, contracts : BOOLEAN]

ASSUME DetailsAssumption ==
  /\ Details \subseteq Work
  /\ \A d \in Details : d.due # "none" => d.text
ASSUME BoundsAssumption == MaxTries \in Nat \ {0} /\ MaxPayments \in Nat
ASSUME NoneAssumption == Nobody \notin Screens /\ NoId \notin Nat

VARIABLES
  mined,      \* the payments of the contract, by the screen that paid, in order
  tx,         \* the pay() transaction of each screen
  pc,         \* what a screen does next
  tries,      \* attempts made in its current loop
  id,         \* the payment id it has settled on
  how,        \* where that id is from
  overtaken,  \* screens whose pre-read nonce went to another payment
  guesses,    \* <<k, s>>: payment k, the last of the contract, was taken for that of s
  work,       \* what the screen sends along
  saved,      \* screens whose metadata request succeeded
  rows,       \* Payout rows: for each id, whose data it holds
  lockup,     \* lockupEnd and disputeDeadline of the row
  orders,     \* WorkOrder rows by paymentId: whose description
  contracts,  \* contracts attached to them, by screen
  indexed,    \* events the indexer has stored as seen
  lost        \* payments whose event it stored and then did not handle

chainVars == <<mined, tx, overtaken>>
screenVars == <<pc, tries, id, how, guesses, saved>>
recordVars == <<rows, lockup, orders, contracts>>
indexerVars == <<indexed, lost>>
vars == <<chainVars, screenVars, work, recordVars, indexerVars>>

Nonce == Len(mined)
Ids == 0..(MaxPayments - 1)

TypeOK ==
  /\ mined \in Seq(Screens)
  /\ tx \in [Screens -> {"none", "sent", "mined", "reverted"}]
  /\ pc \in [Screens -> {"preread", "pay", "reread", "confirm", "metadata", "upload", "end"}]
  /\ tries \in [Screens -> 0..MaxTries]
  /\ id \in [Screens -> Nat \cup {NoId}]
  /\ how \in [Screens -> {"none", "preread", "reread", "receipt", "optimistic"}]
  /\ overtaken \in SUBSET Screens
  /\ guesses \in SUBSET (Ids \X Screens)
  /\ work \in [Screens -> Details]
  /\ saved \in SUBSET Screens
  /\ rows \in [Ids -> Screens \cup {Nobody}]
  /\ lockup \in [Ids -> {"none", "minimum", "late"}]
  /\ orders \in [Ids -> Screens \cup {Nobody}]
  /\ contracts \in [Ids -> SUBSET Screens]
  /\ indexed \in 0..Nonce
  /\ lost \in SUBSET Ids

Init ==
  /\ mined = <<>>
  /\ tx = [s \in Screens |-> "none"]
  /\ pc = [s \in Screens |-> "preread"]
  /\ tries = [s \in Screens |-> 0]
  /\ id = [s \in Screens |-> NoId]
  /\ how = [s \in Screens |-> "none"]
  /\ overtaken = {}
  /\ guesses = {}
  /\ work \in [Screens -> Details]
  /\ saved = {}
  /\ rows = [k \in Ids |-> Nobody]
  /\ lockup = [k \in Ids |-> "none"]
  /\ orders = [k \in Ids |-> Nobody]
  /\ contracts = [k \in Ids |-> {}]
  /\ indexed = 0
  /\ lost = {}

Goto(s, step) == pc' = [pc EXCEPT ![s] = step] /\ tries' = [tries EXCEPT ![s] = 0]
Again(s, next) ==
  IF tries[s] + 1 < MaxTries
  THEN tries' = [tries EXCEPT ![s] = @ + 1] /\ UNCHANGED pc
  ELSE Goto(s, next)
Settle(s, k, source) ==
  /\ id' = [id EXCEPT ![s] = k]
  /\ how' = [how EXCEPT ![s] = source]
NotYet == UNCHANGED <<id, how>>
Guess(s, k) == guesses' = guesses \cup {<<k, s>>}

-----------------------------------------------------------------------------
(* approveAndPay, after the approval: the nonce, if the RPC answers.         *)
PreRead(s) ==
  /\ pc[s] = "preread"
  /\ Settle(s, Nonce, "preread") \/ NotYet
  /\ Goto(s, "pay")
  /\ UNCHANGED <<chainVars, guesses, work, saved, recordVars, indexerVars>>

(* The wallet broadcasts pay(), or the person rejects it.                    *)
Pay(s) ==
  /\ pc[s] = "pay"
  /\ \/ /\ tx' = [tx EXCEPT ![s] = "sent"]
        /\ Goto(s, IF id[s] = NoId THEN "reread" ELSE "metadata")
     \/ Goto(s, "end") /\ UNCHANGED tx
  /\ UNCHANGED <<mined, overtaken, id, how, guesses, work, saved, recordVars, indexerVars>>

(* A slip: a nonce of 0 is taken for the first payment as well.              *)
ReRead_Slip(s) ==
  /\ pc[s] = "reread"
  /\ Settle(s, Nonce - 1, "reread") /\ Guess(s, Nonce - 1) /\ Goto(s, "metadata")
  /\ UNCHANGED <<chainVars, work, saved, recordVars, indexerVars>>

(* The loop that reads the nonce again: the answer need not know of this     *)
(* payment, and nothing is learnt from a failed call or a nonce of 0.        *)
ReRead(s) ==
  /\ pc[s] = "reread"
  /\ \/ /\ Nonce > 0
        /\ Settle(s, Nonce - 1, "reread") /\ Guess(s, Nonce - 1) /\ Goto(s, "metadata")
     \/ NotYet /\ Again(s, "confirm") /\ UNCHANGED guesses
  /\ UNCHANGED <<chainVars, work, saved, recordVars, indexerVars>>

(* What recordDetectedPayment does if there is no row of that id.            *)
Record(k, s) ==
  IF rows[k] = Nobody
  THEN rows' = [rows EXCEPT ![k] = s] /\ lockup' = [lockup EXCEPT ![k] = "minimum"]
  ELSE UNCHANGED <<rows, lockup>>

OwnId(s) == (CHOOSE i \in 1..Len(mined) : mined[i] = s) - 1

(* The screen gets the number, or no answer: the request failed after the    *)
(* row was created, or the answer was lost.  Then it asks again.             *)
Answer(s, k, source) ==
  \/ Settle(s, k, source) /\ Goto(s, "metadata")
  \/ NotYet /\ Again(s, "end")

(* A slip: with the receipt at hand, the number is still read off the nonce. *)
ConfirmMined_Slip(s) ==
  tx[s] = "mined" /\ Record(Nonce - 1, s) /\ Answer(s, Nonce - 1, "receipt") /\ UNCHANGED guesses

(* The receipt tells which payment it is.                                    *)
ConfirmMined(s) ==
  tx[s] = "mined" /\ Record(OwnId(s), s) /\ Answer(s, OwnId(s), "receipt") /\ UNCHANGED guesses

(* Without it, or if the RPC does not give it, the last payment of the       *)
(* contract is taken for this one, and recorded with what the request says.  *)
ConfirmLast(s) ==
  /\ Nonce > 0 /\ Guess(s, Nonce - 1)
  /\ Record(Nonce - 1, s) /\ Answer(s, Nonce - 1, "optimistic")

(* POST /payouts/confirm, which the screen asks only if it has no id: once   *)
(* more after any error, so that one screen may have several rows created.   *)
Confirm(s) ==
  /\ pc[s] = "confirm"
  /\ \/ ConfirmMined(s) \/ ConfirmLast(s)
     \/ NotYet /\ Again(s, "end") /\ UNCHANGED <<guesses, rows, lockup>>
  /\ UNCHANGED <<chainVars, work, saved, orders, contracts, indexerVars>>

HasRow(k) == k \in Ids /\ rows[k] # Nobody

(* A slip: a due date later than the settlement window moves it.             *)
Metadata_MoveSlip(s) ==
  /\ pc[s] = "metadata" /\ HasRow(id[s])
  /\ orders' = IF work[s].text THEN [orders EXCEPT ![id[s]] = s] ELSE orders
  /\ lockup' = IF work[s].due = "late" THEN [lockup EXCEPT ![id[s]] = "late"] ELSE lockup
  /\ saved' = saved \cup {s}
  /\ Goto(s, "upload")
  /\ UNCHANGED <<chainVars, id, how, guesses, work, rows, contracts, indexerVars>>

(* POST /payouts/:paymentId/metadata: 404 without a row, which the screen    *)
(* tries again.  The work order is written first; then a due date later than *)
(* the settlement window would have to move dates the payout may not change, *)
(* so the save is refused, and the screen takes that for the end.            *)
Metadata(s) ==
  /\ pc[s] = "metadata"
  /\ IF HasRow(id[s])
     THEN /\ orders' = IF work[s].text THEN [orders EXCEPT ![id[s]] = s] ELSE orders
          /\ IF work[s].due = "late" /\ lockup[id[s]] = "minimum"
             THEN Goto(s, "end") /\ UNCHANGED saved
             ELSE Goto(s, "upload") /\ saved' = saved \cup {s}
     ELSE Again(s, "end") /\ UNCHANGED <<orders, saved>>
  /\ UNCHANGED <<chainVars, id, how, guesses, work, rows, lockup, contracts, indexerVars>>

(* Any other failure of the request: the screen gives up, though the work    *)
(* order may have been written.                                              *)
MetadataFails(s) ==
  /\ pc[s] = "metadata"
  /\ \/ HasRow(id[s]) /\ work[s].text /\ orders' = [orders EXCEPT ![id[s]] = s]
     \/ UNCHANGED orders
  /\ Goto(s, "end")
  /\ UNCHANGED <<chainVars, id, how, guesses, work, saved, rows, lockup, contracts, indexerVars>>

(* The contracts: Uploads has the steps.  Without a work order they are      *)
(* refused at the last of them; the screen goes on whatever happens.         *)
Upload(s) ==
  /\ pc[s] = "upload"
  /\ \/ /\ work[s].contracts /\ orders[id[s]] # Nobody
        /\ contracts' = [contracts EXCEPT ![id[s]] = @ \cup {s}]
     \/ UNCHANGED contracts
  /\ Goto(s, "end")
  /\ UNCHANGED <<chainVars, id, how, guesses, work, saved, rows, lockup, orders, indexerVars>>

-----------------------------------------------------------------------------
Mine(s) ==
  /\ tx[s] = "sent" /\ Nonce < MaxPayments
  /\ tx' = [tx EXCEPT ![s] = "mined"]
  /\ mined' = Append(mined, s)
  /\ overtaken' = overtaken \cup
       {r \in Screens \ {s} : how[r] = "preread" /\ id[r] = Nonce}
  /\ UNCHANGED <<screenVars, work, recordVars, indexerVars>>

Revert(s) ==
  /\ tx[s] = "sent"
  /\ tx' = [tx EXCEPT ![s] = "reverted"]
  /\ UNCHANGED <<mined, overtaken, screenVars, work, recordVars, indexerVars>>

(* A slip: an event that comes while its payment is being confirmed on       *)
(* screen is left to the screen.                                             *)
Index_SkipSlip ==
  /\ indexed < Nonce
  /\ indexed' = indexed + 1
  /\ \/ /\ IF pc[mined[indexed + 1]] \in {"reread", "confirm"}
           THEN UNCHANGED <<rows, lockup>>
           ELSE Record(indexed, mined[indexed + 1])
        /\ UNCHANGED lost
     \/ lost' = lost \cup {indexed} /\ UNCHANGED <<rows, lockup>>
  /\ UNCHANGED <<chainVars, screenVars, work, orders, contracts>>

(* The indexer and the next PaymentCreated (the whole of it is in Indexer).  *)
(* The event is stored as seen before it is handled: an error in handling    *)
(* it, or a restart, loses it.                                               *)
Index ==
  /\ indexed < Nonce
  /\ indexed' = indexed + 1
  /\ \/ Record(indexed, mined[indexed + 1]) /\ UNCHANGED lost
     \/ lost' = lost \cup {indexed} /\ UNCHANGED <<rows, lockup>>
  /\ UNCHANGED <<chainVars, screenVars, work, orders, contracts>>

(* What a screen does by itself, once the wallet has sent the payment.       *)
Screen(s) == ReRead(s) \/ Confirm(s) \/ Metadata(s) \/ Upload(s)

Next ==
  \/ \E s \in Screens :
       PreRead(s) \/ Pay(s) \/ Screen(s) \/ MetadataFails(s) \/ Mine(s) \/ Revert(s)
  \/ Index

Spec == Init /\ [][Next]_vars

(* Screens run their loops and the indexer polls.  Nobody has to start a     *)
(* payment or to answer the wallet, and no transaction has to be mined.      *)
FairSpec ==
  /\ Spec
  /\ \A s \in Screens : WF_vars(Screen(s) \/ MetadataFails(s))
  /\ WF_vars(Index)

-----------------------------------------------------------------------------
IsPayment(k, s) == k < Nonce /\ mined[k + 1] = s

(* routes/payouts.ts:292-294: a row's presence proves that the chain         *)
(* confirmed a payment of that number, though one path writes rows without   *)
(* having seen the event; and the work is described only where there is one. *)
ChainFirst ==
  \A k \in Ids :
    /\ rows[k] # Nobody => k < Nonce
    /\ orders[k] # Nobody => k < Nonce /\ rows[k] # Nobody
    /\ contracts[k] # {} => orders[k] # Nobody

(* The number k was a guess of s: the last payment was taken for its own, or *)
(* it has the nonce it read early, and that went to another payment, or to   *)
(* none yet.                                                                 *)
Guessed(k, s) ==
  \/ <<k, s>> \in guesses
  \/ how[s] = "preread" /\ id[s] = k /\ (s \in overtaken \/ tx[s] # "mined")

(* A record holds the data of its own payment, unless the screen it is from  *)
(* had guessed that very number: however many rows a screen has created by   *)
(* asking again, a receipt never puts its data on another's payment.         *)
OthersRecordsOnlyByGuess ==
  \A k \in Ids, s \in Screens :
    (rows[k] = s \/ orders[k] = s \/ s \in contracts[k]) =>
      IsPayment(k, s) \/ Guessed(k, s)

RecordsTellTheChain == ChainFirst /\ OthersRecordsOnlyByGuess

(* models/index.ts:161-171: what a payout says of its payment and its dates  *)
(* is never rewritten: not by a second report, by the indexer that comes     *)
(* after the screen, or by the metadata.                                     *)
PayoutsAreForever ==
  [][\A k \in Ids : rows[k] # Nobody => rows'[k] = rows[k] /\ lockup'[k] = lockup[k]]_vars

(* Both reports of payment k have failed: the indexer lost its event, and    *)
(* the screen that paid came to its end with no receipt.                     *)
BothReportsFailed(k) ==
  /\ k \in lost
  /\ pc[mined[k + 1]] = "end" /\ how[mined[k + 1]] # "receipt"

(* Every payment that is mined gets a row, unless both reports of it fail.   *)
PaymentsAreRecorded ==
  \A k \in Ids : k < Nonce ~> rows[k] # Nobody \/ BothReportsFailed(k)

(* Once the wallet has sent the payment, a screen comes to its end: no loop  *)
(* of it waits for something that may never be.                              *)
ScreensEnd ==
  \A s \in Screens : pc[s] \notin {"preread", "pay"} ~> pc[s] = "end"

PaymentsComeThrough == PaymentsAreRecorded /\ ScreensEnd
=============================================================================
