------------------------- MODULE PayoutFlow_proofs -------------------------
(***************************************************************************)
(* What PayoutFlow promises for any number of screens, payments and tries. *)
(***************************************************************************)
EXTENDS PayoutFlow, TLAPS

(* A transaction is mined once, and no further than the bound.               *)
MinedOnce ==
  /\ Nonce <= MaxPayments
  /\ \A s \in Screens : tx[s] = "mined" <=> \E i \in 1..Nonce : mined[i] = s
  /\ \A i, j \in 1..Nonce : mined[i] = mined[j] => i = j

(* A screen settles on an id once: from then on it knows where it is from,   *)
(* and it does not come back to where one is chosen.  With a row found under *)
(* its id, the id is that of a payment.                                      *)
SettledOnce ==
  \A s \in Screens :
    /\ pc[s] \in {"preread", "reread", "confirm"} => how[s] = "none"
    /\ pc[s] \in {"metadata", "upload"} => how[s] # "none"
    /\ pc[s] = "pay" => how[s] \in {"none", "preread"}
    /\ how[s] = "none" <=> id[s] = NoId
    /\ pc[s] = "upload" => id[s] \in Ids
    /\ pc[s] \in {"preread", "pay"} => tx[s] = "none"

(* What an id is worth: one from the receipt is the screen's own; one read   *)
(* before paying is not passed by the nonce, and is its own if it was not    *)
(* overtaken, as soon as the transaction is mined; any other was a guess.    *)
Worth(s) ==
  /\ how[s] = "receipt" => id[s] \in Nat /\ IsPayment(id[s], s)
  /\ how[s] = "preread" /\ s \notin overtaken =>
       /\ id[s] \in Nat
       /\ tx[s] = "mined" => IsPayment(id[s], s)
       /\ tx[s] # "mined" => id[s] = Nonce
  /\ how[s] \in {"reread", "optimistic"} => <<id[s], s>> \in guesses

IdIsWorth == \A s \in Screens : Worth(s)

(* Whose data is where: a row is of its payment or a guess of the API; what  *)
(* the screen attached is at the id it settled on.                           *)
DataIsPlaced ==
  \A k \in Ids : \A s \in Screens :
    /\ rows[k] = s => IsPayment(k, s) \/ <<k, s>> \in guesses
    /\ orders[k] = s => how[s] # "none" /\ k = id[s]
    /\ s \in contracts[k] => how[s] # "none" /\ k = id[s]

PayoutInv == TypeOK /\ ChainFirst /\ MinedOnce /\ SettledOnce /\ IdIsWorth /\ DataIsPlaced

-----------------------------------------------------------------------------
LEMMA InitInv == Init => PayoutInv
<1> SUFFICES ASSUME Init PROVE PayoutInv
  OBVIOUS
<1>1. Nonce = 0 /\ mined = <<>>
  BY DEF Init, Nonce
<1>2. TypeOK
  BY <1>1, BoundsAssumption DEF Init, TypeOK
<1>3. ChainFirst
  BY DEF Init, ChainFirst
<1>4. MinedOnce
  BY <1>1, BoundsAssumption DEF Init, MinedOnce
<1>5. SettledOnce
  BY DEF Init, SettledOnce
<1>6. IdIsWorth
  BY DEF Init, IdIsWorth, Worth
<1>7. DataIsPlaced
  BY NoneAssumption DEF Init, DataIsPlaced
<1> QED
  BY <1>2, <1>3, <1>4, <1>5, <1>6, <1>7 DEF PayoutInv

(* The types of a state, apart.                                              *)
ScreenTypes ==
  /\ tx \in [Screens -> {"none", "sent", "mined", "reverted"}]
  /\ pc \in [Screens -> {"preread", "pay", "reread", "confirm", "metadata", "upload", "end"}]
  /\ tries \in [Screens -> 0..MaxTries]
  /\ id \in [Screens -> Nat \cup {NoId}]
  /\ how \in [Screens -> {"none", "preread", "reread", "receipt", "optimistic"}]
  /\ saved \in SUBSET Screens
  /\ guesses \in SUBSET (Ids \X Screens)

ChainTypes ==
  /\ mined \in Seq(Screens) /\ overtaken \in SUBSET Screens /\ indexed \in 0..Nonce
  /\ lost \in SUBSET Ids

RecordTypes ==
  /\ work \in [Screens -> Details]
  /\ rows \in [Ids -> Screens \cup {Nobody}]
  /\ lockup \in [Ids -> {"none", "minimum", "late"}]
  /\ orders \in [Ids -> Screens \cup {Nobody}]
  /\ contracts \in [Ids -> SUBSET Screens]

LEMMA TypesApart == TypeOK <=> ScreenTypes /\ ChainTypes /\ RecordTypes
  BY DEF TypeOK, ScreenTypes, ChainTypes, RecordTypes

(* Steps of a screen that leave the chain, the records and the indexer.      *)
LEMMA QuietStep ==
  ASSUME PayoutInv, UNCHANGED <<mined, recordVars, indexerVars, work>>,
         tx' \in [Screens -> {"none", "sent", "mined", "reverted"}],
         \A s \in Screens : tx'[s] = "mined" <=> tx[s] = "mined"
  PROVE  /\ ChainFirst' /\ MinedOnce' /\ Nonce' = Nonce
         /\ \A k \in Nat, s \in Screens : IsPayment(k, s)' <=> IsPayment(k, s)
<1>1. ChainFirst'
  BY DEF PayoutInv, ChainFirst, Nonce, recordVars
<1>2. MinedOnce'
  BY DEF PayoutInv, MinedOnce, Nonce
<1>3. Nonce' = Nonce /\ \A k \in Nat, s \in Screens : IsPayment(k, s)' <=> IsPayment(k, s)
  BY DEF Nonce, IsPayment
<1> QED
  BY <1>1, <1>2, <1>3

(* Where data is placed stands while nothing is written, no payment is       *)
(* unmade, no guess forgotten and no settled id changed.                     *)
LEMMA DataStays ==
  ASSUME DataIsPlaced, UNCHANGED <<rows, orders, contracts>>, guesses \subseteq guesses',
         \A k \in Ids, s \in Screens : IsPayment(k, s) => IsPayment(k, s)',
         \A s \in Screens : how[s] # "none" => how'[s] = how[s] /\ id'[s] = id[s]
  PROVE  DataIsPlaced'
  BY DEF DataIsPlaced

LEMMA PreReadKeeps == ASSUME PayoutInv, NEW s \in Screens, PreRead(s) PROVE PayoutInv'
<1>1. /\ pc[s] = "preread" /\ how[s] = "none" /\ tx[s] = "none"
      /\ pc' = [pc EXCEPT ![s] = "pay"] /\ tries' = [tries EXCEPT ![s] = 0]
      /\ UNCHANGED <<chainVars, guesses, work, saved, recordVars, indexerVars>>
  BY DEF PreRead, PayoutInv, SettledOnce, Goto
<1>2. \/ id' = [id EXCEPT ![s] = Nonce] /\ how' = [how EXCEPT ![s] = "preread"]
      \/ UNCHANGED <<id, how>>
  BY DEF PreRead, Settle, NotYet
<1>3. TypeOK /\ ChainFirst /\ MinedOnce /\ SettledOnce /\ IdIsWorth /\ DataIsPlaced
  BY DEF PayoutInv
<1>4. Nonce \in Nat
  BY <1>3 DEF TypeOK, Nonce
<1>5. ChainFirst' /\ MinedOnce' /\ Nonce' = Nonce
      /\ \A k \in Nat, r \in Screens : IsPayment(k, r)' <=> IsPayment(k, r)
  <2>1. tx' = tx
    BY <1>1 DEF chainVars
  <2> QED
    BY <1>1, <1>3, <2>1, QuietStep DEF chainVars, TypeOK
<1>6. TypeOK'
  <2>1. ScreenTypes /\ ChainTypes /\ RecordTypes
    BY <1>3, TypesApart
  <2>2. ScreenTypes'
    BY <1>1, <1>2, <1>4, <2>1, BoundsAssumption DEF ScreenTypes, chainVars
  <2>3. ChainTypes' /\ RecordTypes'
    BY <1>1, <1>5, <2>1 DEF ChainTypes, RecordTypes, indexerVars, chainVars, recordVars
  <2> QED
    BY <2>2, <2>3 DEF TypeOK, ScreenTypes, ChainTypes, RecordTypes
<1>7. SettledOnce'
  BY <1>1, <1>2, <1>3, <1>4, NoneAssumption DEF TypeOK, SettledOnce, chainVars
<1>8. IdIsWorth'
  BY <1>1, <1>2, <1>3, <1>4, <1>5 DEF TypeOK, IdIsWorth, Worth, chainVars
<1>9. DataIsPlaced'
  <2>1. \A r \in Screens : how[r] # "none" => how'[r] = how[r] /\ id'[r] = id[r]
    BY <1>1, <1>2, <1>3, <1>5 DEF TypeOK
  <2>2. \A k \in Ids, r \in Screens : IsPayment(k, r) => IsPayment(k, r)'
    BY <1>1, <1>2, <1>3, <1>5 DEF Ids
  <2>3. UNCHANGED <<rows, orders, contracts>> /\ guesses \subseteq guesses'
    BY <1>1, <1>2, <1>3, <1>5 DEF chainVars, recordVars
  <2> QED
    BY <1>3, <2>1, <2>2, <2>3, DataStays
<1> QED
  BY <1>5, <1>6, <1>7, <1>8, <1>9 DEF PayoutInv

LEMMA PayKeeps == ASSUME PayoutInv, NEW s \in Screens, Pay(s) PROVE PayoutInv'
<1>1. /\ pc[s] = "pay" /\ tx[s] = "none"
      /\ tries' = [tries EXCEPT ![s] = 0]
      /\ UNCHANGED <<mined, overtaken, id, how, guesses, work, saved, recordVars, indexerVars>>
  BY DEF Pay, PayoutInv, SettledOnce, Goto
<1>2. \/ /\ tx' = [tx EXCEPT ![s] = "sent"]
         /\ pc' = [pc EXCEPT ![s] = IF id[s] = NoId THEN "reread" ELSE "metadata"]
      \/ tx' = tx /\ pc' = [pc EXCEPT ![s] = "end"]
  BY DEF Pay, Goto
<1>3. TypeOK /\ ChainFirst /\ MinedOnce /\ SettledOnce /\ IdIsWorth /\ DataIsPlaced
  BY DEF PayoutInv
<1>4. \A r \in Screens : (tx'[r] = "mined" <=> tx[r] = "mined")
  BY <1>1, <1>2, <1>3 DEF TypeOK
<1>5. ChainFirst' /\ MinedOnce' /\ Nonce' = Nonce
      /\ \A k \in Nat, r \in Screens : IsPayment(k, r)' <=> IsPayment(k, r)
  <2>1. tx' \in [Screens -> {"none", "sent", "mined", "reverted"}]
    BY <1>2, <1>3 DEF TypeOK
  <2> QED
    BY <1>1, <1>4, <2>1, QuietStep
<1>6. TypeOK'
  <2>1. ScreenTypes /\ ChainTypes /\ RecordTypes
    BY <1>3, TypesApart
  <2>2. ScreenTypes'
    BY <1>1, <1>2, <2>1, BoundsAssumption DEF ScreenTypes
  <2>3. ChainTypes' /\ RecordTypes'
    BY <1>1, <1>5, <2>1 DEF ChainTypes, RecordTypes, indexerVars, recordVars
  <2> QED
    BY <2>2, <2>3 DEF TypeOK, ScreenTypes, ChainTypes, RecordTypes
<1>7. SettledOnce'
  BY <1>1, <1>2, <1>3, NoneAssumption DEF TypeOK, SettledOnce
<1>8. IdIsWorth'
  BY <1>1, <1>3, <1>4, <1>5 DEF TypeOK, IdIsWorth, Worth
<1>9. DataIsPlaced'
  <2>1. \A r \in Screens : how[r] # "none" => how'[r] = how[r] /\ id'[r] = id[r]
    BY <1>1, <1>3, <1>5 DEF TypeOK
  <2>2. \A k \in Ids, r \in Screens : IsPayment(k, r) => IsPayment(k, r)'
    BY <1>1, <1>3, <1>5 DEF Ids
  <2>3. UNCHANGED <<rows, orders, contracts>> /\ guesses \subseteq guesses'
    BY <1>1, <1>3, <1>5 DEF recordVars
  <2> QED
    BY <1>3, <2>1, <2>2, <2>3, DataStays
<1> QED
  BY <1>5, <1>6, <1>7, <1>8, <1>9 DEF PayoutInv

(* What the row of an id becomes: it is written if there is none.            *)
LEMMA RecordWrites ==
  ASSUME TypeOK, NEW k \in Ids, NEW s \in Screens, Record(k, s)
  PROVE  /\ rows' \in [Ids -> Screens \cup {Nobody}]
         /\ lockup' \in [Ids -> {"none", "minimum", "late"}]
         /\ \A j \in Ids : rows'[j] = rows[j] \/ (j = k /\ rows[k] = Nobody /\ rows'[j] = s)
  BY DEF TypeOK, Record

(* Who is mined finds the number of the payment.                             *)
LEMMA OwnIdIsOwn ==
  ASSUME PayoutInv, NEW s \in Screens, tx[s] = "mined"
  PROVE  OwnId(s) \in Ids /\ IsPayment(OwnId(s), s)
<1>1. Len(mined) \in Nat /\ Nonce = Len(mined) /\ Nonce <= MaxPayments
  BY DEF PayoutInv, TypeOK, MinedOnce, Nonce
<1>2. \E i \in 1..Len(mined) : mined[i] = s
  BY <1>1 DEF PayoutInv, MinedOnce
<1>3. (CHOOSE i \in 1..Len(mined) : mined[i] = s) \in 1..Len(mined)
      /\ mined[CHOOSE i \in 1..Len(mined) : mined[i] = s] = s
  BY <1>2
<1> QED
  BY <1>1, <1>3, BoundsAssumption DEF OwnId, Ids, IsPayment

(* A loop of a screen goes round, or ends.                                   *)
LEMMA AgainGoesOn ==
  ASSUME TypeOK, NEW s \in Screens, NEW next, Again(s, next)
  PROVE  /\ pc' = pc \/ pc' = [pc EXCEPT ![s] = next]
         /\ tries' \in [Screens -> 0..MaxTries]
<1>1. tries \in [Screens -> 0..MaxTries] /\ MaxTries \in Nat \ {0}
  BY BoundsAssumption DEF TypeOK
<1>2. \/ tries[s] + 1 < MaxTries /\ tries' = [tries EXCEPT ![s] = @ + 1] /\ pc' = pc
      \/ tries' = [tries EXCEPT ![s] = 0] /\ pc' = [pc EXCEPT ![s] = next]
  BY DEF Again, Goto
<1>3. tries' \in [Screens -> 0..MaxTries]
  BY <1>1, <1>2
<1> QED
  BY <1>2, <1>3

LEMMA ReReadKeeps == ASSUME PayoutInv, NEW s \in Screens, ReRead(s) PROVE PayoutInv'
<1>1. /\ pc[s] = "reread" /\ how[s] = "none"
      /\ UNCHANGED <<chainVars, work, saved, recordVars, indexerVars>>
  BY DEF ReRead, PayoutInv, SettledOnce
<1>2. TypeOK /\ ChainFirst /\ MinedOnce /\ SettledOnce /\ IdIsWorth /\ DataIsPlaced
  BY DEF PayoutInv
<1>3. \/ /\ Nonce - 1 \in Ids /\ guesses' = guesses \cup {<<Nonce - 1, s>>}
         /\ id' = [id EXCEPT ![s] = Nonce - 1] /\ how' = [how EXCEPT ![s] = "reread"]
         /\ pc' = [pc EXCEPT ![s] = "metadata"] /\ tries' = [tries EXCEPT ![s] = 0]
      \/ /\ UNCHANGED <<id, how, guesses>>
         /\ pc' = pc \/ pc' = [pc EXCEPT ![s] = "confirm"]
         /\ tries' \in [Screens -> 0..MaxTries]
  <2>1. Nonce \in Nat /\ Nonce <= MaxPayments
    BY <1>2 DEF TypeOK, Nonce, MinedOnce
  <2>2. \/ /\ Nonce > 0 /\ Guess(s, Nonce - 1)
           /\ Settle(s, Nonce - 1, "reread") /\ Goto(s, "metadata")
        \/ NotYet /\ Again(s, "confirm") /\ UNCHANGED guesses
    BY DEF ReRead
  <2>3. Again(s, "confirm") => /\ pc' = pc \/ pc' = [pc EXCEPT ![s] = "confirm"]
                               /\ tries' \in [Screens -> 0..MaxTries]
    BY <1>2, AgainGoesOn
  <2>4. Nonce > 0 => Nonce - 1 \in Ids
    BY <2>1, BoundsAssumption DEF Ids
  <2> QED
    BY <2>2, <2>3, <2>4 DEF Settle, NotYet, Goto, Guess
<1>4. ChainFirst' /\ MinedOnce' /\ Nonce' = Nonce
      /\ \A k \in Nat, r \in Screens : IsPayment(k, r)' <=> IsPayment(k, r)
  <2>1. tx' = tx
    BY <1>1 DEF chainVars
  <2> QED
    BY <1>1, <1>2, <2>1, QuietStep DEF chainVars, TypeOK
<1>5. TypeOK'
  <2>1. ScreenTypes /\ ChainTypes /\ RecordTypes
    BY <1>2, TypesApart
  <2>2. ScreenTypes'
    BY <1>1, <1>3, <2>1, BoundsAssumption DEF ScreenTypes, chainVars, Ids
  <2>3. ChainTypes' /\ RecordTypes'
    BY <1>1, <1>4, <2>1 DEF ChainTypes, RecordTypes, indexerVars, chainVars, recordVars
  <2> QED
    BY <2>2, <2>3 DEF TypeOK, ScreenTypes, ChainTypes, RecordTypes
<1>6. SettledOnce'
  BY <1>1, <1>2, <1>3, NoneAssumption DEF TypeOK, SettledOnce, chainVars, Ids
<1>7. IdIsWorth'
  BY <1>1, <1>2, <1>3, <1>4 DEF TypeOK, IdIsWorth, Worth, chainVars, Ids
<1>8. DataIsPlaced'
  <2>1. \A r \in Screens : how[r] # "none" => how'[r] = how[r] /\ id'[r] = id[r]
    BY <1>1, <1>2, <1>3, <1>4 DEF TypeOK
  <2>2. \A k \in Ids, r \in Screens : IsPayment(k, r) => IsPayment(k, r)'
    BY <1>1, <1>2, <1>3, <1>4 DEF Ids
  <2>3. UNCHANGED <<rows, orders, contracts>> /\ guesses \subseteq guesses'
    BY <1>1, <1>2, <1>3, <1>4 DEF chainVars, recordVars
  <2> QED
    BY <1>2, <2>1, <2>2, <2>3, DataStays
<1> QED
  BY <1>4, <1>5, <1>6, <1>7, <1>8 DEF PayoutInv

LEMMA ConfirmKeeps == ASSUME PayoutInv, NEW s \in Screens, Confirm(s) PROVE PayoutInv'
<1>1. /\ pc[s] = "confirm" /\ how[s] = "none"
      /\ UNCHANGED <<chainVars, work, saved, orders, contracts, indexerVars>>
  BY DEF Confirm, PayoutInv, SettledOnce
<1>2. TypeOK /\ ChainFirst /\ MinedOnce /\ SettledOnce /\ IdIsWorth /\ DataIsPlaced
  BY DEF PayoutInv
<1>3. Nonce' = Nonce /\ Nonce \in Nat /\ Nonce <= MaxPayments
      /\ \A k \in Nat, r \in Screens : IsPayment(k, r)' <=> IsPayment(k, r)
  BY <1>1, <1>2 DEF chainVars, Nonce, IsPayment, TypeOK, MinedOnce
<1>4. ASSUME NEW k \in Ids, NEW source \in {"receipt", "optimistic"}, k < Nonce,
             Record(k, s), Answer(s, k, source),
             guesses' = guesses \/ guesses' = guesses \cup {<<k, s>>},
             source = "receipt" => IsPayment(k, s),
             source = "optimistic" => guesses' = guesses \cup {<<k, s>>}
      PROVE  PayoutInv'
  <2>1. /\ \/ /\ id' = [id EXCEPT ![s] = k] /\ how' = [how EXCEPT ![s] = source]
              /\ pc' = [pc EXCEPT ![s] = "metadata"]
           \/ id' = id /\ how' = how /\ (pc' = pc \/ pc' = [pc EXCEPT ![s] = "end"])
        /\ tries' \in [Screens -> 0..MaxTries]
    <3>1. CASE Settle(s, k, source) /\ Goto(s, "metadata")
      BY <1>2, <3>1, BoundsAssumption DEF Settle, Goto, TypeOK
    <3>2. CASE NotYet /\ Again(s, "end")
      BY <1>2, <3>2, AgainGoesOn DEF NotYet
    <3> QED
      BY <1>4, <3>1, <3>2 DEF Answer
  <2>2. /\ rows' \in [Ids -> Screens \cup {Nobody}]
        /\ lockup' \in [Ids -> {"none", "minimum", "late"}]
        /\ \A j \in Ids : rows'[j] = rows[j] \/ (j = k /\ rows[k] = Nobody /\ rows'[j] = s)
    BY <1>2, <1>4, RecordWrites
  <2>3. k \in Nat /\ (IsPayment(k, s) \/ <<k, s>> \in guesses')
    BY <1>4 DEF Ids
  <2>4. TypeOK'
    <3>1. ScreenTypes /\ ChainTypes /\ RecordTypes
      BY <1>2, TypesApart
    <3>2. ScreenTypes'
      BY <1>1, <1>4, <2>1, <2>3, <3>1 DEF ScreenTypes, chainVars
    <3>3. ChainTypes' /\ RecordTypes'
      BY <1>1, <1>3, <2>2, <3>1 DEF ChainTypes, RecordTypes, indexerVars, chainVars
    <3> QED
      BY <3>2, <3>3 DEF TypeOK, ScreenTypes, ChainTypes, RecordTypes
  <2>5. ChainFirst'
    BY <1>1, <1>2, <1>3, <1>4, <2>2, NoneAssumption DEF ChainFirst
  <2>6. MinedOnce'
    BY <1>1, <1>2 DEF MinedOnce, chainVars, Nonce
  <2>7. SettledOnce'
    BY <1>1, <1>2, <2>1, <2>3, NoneAssumption DEF TypeOK, SettledOnce, chainVars
  <2>8. IdIsWorth'
    <3>1. guesses \subseteq guesses' /\ UNCHANGED <<tx, overtaken>>
      BY <1>1, <1>4 DEF chainVars
    <3> SUFFICES ASSUME NEW q \in Screens PROVE Worth(q)'
      BY DEF IdIsWorth
    <3>2. Worth(q)
      BY <1>2 DEF IdIsWorth
    <3>3. CASE how'[q] = how[q] /\ id'[q] = id[q]
      <4>1. \A r \in Screens : id'[q] \in Nat => (IsPayment(id[q], r)' <=> IsPayment(id[q], r))
        BY <1>3, <3>3
      <4> QED
        BY <1>3, <3>1, <3>2, <3>3, <4>1 DEF Worth, IsPayment
    <3>4. CASE q = s /\ how'[q] = source /\ id'[q] = k
      <4>1. CASE source = "receipt"
        <5>1. k \in Nat /\ IsPayment(k, s)'
          BY <1>3, <1>4, <2>3, <4>1
        <5> QED
          BY <3>4, <4>1, <5>1 DEF Worth, IsPayment
      <4>2. CASE source = "optimistic"
        BY <1>4, <3>4, <4>2 DEF Worth
      <4> QED
        BY <4>1, <4>2
    <3>5. (how'[q] = how[q] /\ id'[q] = id[q]) \/ (q = s /\ how'[q] = source /\ id'[q] = k)
      <4>1. how \in [Screens -> {"none", "preread", "reread", "receipt", "optimistic"}]
            /\ id \in [Screens -> Nat \cup {NoId}]
        BY <1>2 DEF TypeOK
      <4> QED
        BY <2>1, <4>1
    <3> QED
      BY <3>3, <3>4, <3>5
  <2>9. DataIsPlaced'
    <3> SUFFICES ASSUME NEW j \in Ids, NEW q \in Screens
                 PROVE  /\ rows'[j] = q => IsPayment(j, q)' \/ <<j, q>> \in guesses'
                        /\ orders'[j] = q => how'[q] # "none" /\ j = id'[q]
                        /\ q \in contracts'[j] => how'[q] # "none" /\ j = id'[q]
      BY DEF DataIsPlaced
    <3>1. rows'[j] = q => rows[j] = q \/ (j = k /\ q = s)
      BY <2>2
    <3>2. rows'[j] = q => IsPayment(j, q)' \/ <<j, q>> \in guesses'
      BY <1>2, <1>3, <1>4, <2>3, <3>1 DEF DataIsPlaced, Ids
    <3>3. how[q] # "none" => how'[q] = how[q] /\ id'[q] = id[q]
      BY <1>1, <1>2, <2>1 DEF TypeOK
    <3> QED
      BY <1>1, <1>2, <3>2, <3>3 DEF DataIsPlaced
  <2> QED
    BY <2>4, <2>5, <2>6, <2>7, <2>8, <2>9 DEF PayoutInv
<1>5. CASE ConfirmMined(s)
  <2>1. OwnId(s) \in Ids /\ IsPayment(OwnId(s), s)
    BY <1>5, OwnIdIsOwn DEF ConfirmMined
  <2> QED
    BY <1>4, <1>5, <2>1 DEF IsPayment, ConfirmMined
<1>6. CASE ConfirmLast(s)
  <2>1. Nonce - 1 \in Ids /\ Nonce - 1 < Nonce
    BY <1>3, <1>6, BoundsAssumption DEF Ids, ConfirmLast
  <2> QED
    BY <1>4, <1>6, <2>1 DEF ConfirmLast, Guess
<1>7. ASSUME NotYet, Again(s, "end"), UNCHANGED <<guesses, rows, lockup>> PROVE PayoutInv'
  <2>1. /\ UNCHANGED <<id, how, guesses, recordVars, tx, mined, overtaken, saved, work, indexerVars>>
        /\ pc' = pc \/ pc' = [pc EXCEPT ![s] = "end"]
        /\ tries' \in [Screens -> 0..MaxTries]
    BY <1>1, <1>2, <1>7, AgainGoesOn DEF NotYet, recordVars, chainVars
  <2>2. ChainFirst' /\ MinedOnce'
    BY <1>2, <2>1, QuietStep DEF TypeOK
  <2>3. TypeOK'
    <3>1. ScreenTypes /\ ChainTypes /\ RecordTypes
      BY <1>2, TypesApart
    <3>2. ScreenTypes'
      BY <2>1, <3>1 DEF ScreenTypes
    <3>3. ChainTypes' /\ RecordTypes'
      BY <1>3, <2>1, <3>1 DEF ChainTypes, RecordTypes, indexerVars, recordVars
    <3> QED
      BY <3>2, <3>3 DEF TypeOK, ScreenTypes, ChainTypes, RecordTypes
  <2>4. SettledOnce'
    BY <1>1, <1>2, <2>1 DEF TypeOK, SettledOnce
  <2>5. IdIsWorth' /\ DataIsPlaced'
    BY <1>2, <1>3, <2>1 DEF TypeOK, IdIsWorth, Worth, DataIsPlaced, recordVars, Ids
  <2> QED
    BY <2>2, <2>3, <2>4, <2>5 DEF PayoutInv
<1> QED
  BY <1>5, <1>6, <1>7 DEF Confirm

(* The work order is written under the number the screen has settled on.     *)
LEMMA WorkIsPlaced ==
  ASSUME PayoutInv, NEW s \in Screens, how[s] # "none",
         orders' = orders \/ (HasRow(id[s]) /\ orders' = [orders EXCEPT ![id[s]] = s]),
         UNCHANGED <<id, how, guesses, rows, contracts>>,
         \A k \in Nat, r \in Screens : IsPayment(k, r)' <=> IsPayment(k, r)
  PROVE  DataIsPlaced'
<1> SUFFICES ASSUME NEW k \in Ids, NEW r \in Screens
             PROVE  /\ rows'[k] = r => IsPayment(k, r)' \/ <<k, r>> \in guesses'
                    /\ orders'[k] = r => how'[r] # "none" /\ k = id'[r]
                    /\ r \in contracts'[k] => how'[r] # "none" /\ k = id'[r]
  BY DEF DataIsPlaced
<1>1. rows'[k] = r => IsPayment(k, r)' \/ <<k, r>> \in guesses'
  BY DEF DataIsPlaced, Ids, PayoutInv
<1>2. orders'[k] = orders[k] \/ (k = id[s] /\ orders'[k] = s)
  BY DEF TypeOK, HasRow, PayoutInv
<1>3. orders'[k] = r => how'[r] # "none" /\ k = id'[r]
  BY <1>2 DEF DataIsPlaced, PayoutInv
<1>4. r \in contracts'[k] => how'[r] # "none" /\ k = id'[r]
  BY DEF DataIsPlaced, PayoutInv
<1> QED
  BY <1>1, <1>3, <1>4

LEMMA MetadataKeeps == ASSUME PayoutInv, NEW s \in Screens, Metadata(s) PROVE PayoutInv'
<1>1. /\ pc[s] = "metadata" /\ how[s] # "none"
      /\ UNCHANGED <<chainVars, id, how, guesses, work, rows, lockup, contracts, indexerVars>>
  BY DEF Metadata, PayoutInv, SettledOnce
<1>2. TypeOK /\ ChainFirst /\ MinedOnce /\ SettledOnce /\ IdIsWorth /\ DataIsPlaced
  BY DEF PayoutInv
<1>3. Nonce' = Nonce /\ \A k \in Nat, r \in Screens : IsPayment(k, r)' <=> IsPayment(k, r)
  BY <1>1 DEF chainVars, Nonce, IsPayment
<1>4. /\ orders' = orders \/ (HasRow(id[s]) /\ orders' = [orders EXCEPT ![id[s]] = s])
      /\ \/ pc' = pc \/ pc' = [pc EXCEPT ![s] = "end"]
         \/ id[s] \in Ids /\ pc' = [pc EXCEPT ![s] = "upload"]
      /\ tries' \in [Screens -> 0..MaxTries]
      /\ saved' \in SUBSET Screens
  <2>1. ASSUME NEW next \in {"upload", "end"}, Goto(s, next) \/ Again(s, next)
        PROVE  /\ pc' = pc \/ pc' = [pc EXCEPT ![s] = next]
               /\ tries' \in [Screens -> 0..MaxTries]
    <3>1. CASE Again(s, next)
      BY <1>2, <3>1, AgainGoesOn
    <3>2. CASE Goto(s, next)
      BY <1>2, <3>2, BoundsAssumption DEF Goto, TypeOK
    <3> QED
      BY <2>1, <3>1, <3>2
  <2>2. CASE HasRow(id[s])
    <3>1. orders' = orders \/ orders' = [orders EXCEPT ![id[s]] = s]
      BY <2>2 DEF Metadata
    <3>2. /\ saved' = saved \/ saved' = saved \cup {s}
          /\ Goto(s, "end") \/ Goto(s, "upload")
      BY <2>2 DEF Metadata
    <3> QED
      BY <1>2, <2>1, <2>2, <3>1, <3>2 DEF HasRow, TypeOK
  <2>3. CASE ~HasRow(id[s])
    <3>1. orders' = orders /\ saved' = saved /\ Again(s, "end")
      BY <2>3 DEF Metadata
    <3> QED
      BY <1>2, <2>1, <3>1 DEF TypeOK
  <2> QED
    BY <2>2, <2>3
<1>5. TypeOK'
  <2>1. ScreenTypes /\ ChainTypes /\ RecordTypes
    BY <1>2, TypesApart
  <2>2. ScreenTypes'
    BY <1>1, <1>4, <2>1 DEF ScreenTypes, chainVars
  <2>3. ChainTypes' /\ RecordTypes'
    BY <1>1, <1>3, <1>4, <2>1 DEF ChainTypes, RecordTypes, indexerVars, chainVars, HasRow
  <2> QED
    BY <2>2, <2>3 DEF TypeOK, ScreenTypes, ChainTypes, RecordTypes
<1>6. ChainFirst'
  BY <1>1, <1>2, <1>3, <1>4, NoneAssumption DEF ChainFirst, HasRow, TypeOK
<1>7. MinedOnce'
  BY <1>1, <1>2 DEF MinedOnce, chainVars, Nonce
<1>8. SettledOnce'
  BY <1>1, <1>2, <1>4 DEF TypeOK, SettledOnce, chainVars
<1>9. IdIsWorth'
  BY <1>1, <1>2, <1>3 DEF TypeOK, IdIsWorth, Worth, chainVars
<1>10. DataIsPlaced'
  BY <1>1, <1>3, <1>4, WorkIsPlaced
<1> QED
  BY <1>5, <1>6, <1>7, <1>8, <1>9, <1>10 DEF PayoutInv

LEMMA MetadataFailsKeeps ==
  ASSUME PayoutInv, NEW s \in Screens, MetadataFails(s) PROVE PayoutInv'
<1>1. /\ pc[s] = "metadata" /\ how[s] # "none"
      /\ pc' = [pc EXCEPT ![s] = "end"] /\ tries' = [tries EXCEPT ![s] = 0]
      /\ orders' = orders \/ (HasRow(id[s]) /\ orders' = [orders EXCEPT ![id[s]] = s])
      /\ UNCHANGED <<chainVars, id, how, guesses, work, saved, rows, lockup, contracts, indexerVars>>
  BY DEF MetadataFails, Goto, PayoutInv, SettledOnce
<1>2. TypeOK /\ ChainFirst /\ MinedOnce /\ SettledOnce /\ IdIsWorth /\ DataIsPlaced
  BY DEF PayoutInv
<1>3. Nonce' = Nonce /\ \A k \in Nat, r \in Screens : IsPayment(k, r)' <=> IsPayment(k, r)
  BY <1>1 DEF chainVars, Nonce, IsPayment
<1>4. TypeOK'
  <2>1. ScreenTypes /\ ChainTypes /\ RecordTypes
    BY <1>2, TypesApart
  <2>2. ScreenTypes'
    BY <1>1, <2>1, BoundsAssumption DEF ScreenTypes, chainVars
  <2>3. ChainTypes' /\ RecordTypes'
    BY <1>1, <1>3, <2>1 DEF ChainTypes, RecordTypes, indexerVars, chainVars, HasRow
  <2> QED
    BY <2>2, <2>3 DEF TypeOK, ScreenTypes, ChainTypes, RecordTypes
<1>5. ChainFirst'
  BY <1>1, <1>2, <1>3, NoneAssumption DEF ChainFirst, HasRow, TypeOK
<1>6. MinedOnce'
  BY <1>1, <1>2 DEF MinedOnce, chainVars, Nonce
<1>7. SettledOnce' /\ IdIsWorth'
  BY <1>1, <1>2, <1>3 DEF TypeOK, SettledOnce, IdIsWorth, Worth, chainVars
<1>8. DataIsPlaced'
  BY <1>1, <1>2, <1>3, WorkIsPlaced
<1> QED
  BY <1>2, <1>4, <1>5, <1>6, <1>7, <1>8 DEF PayoutInv

LEMMA UploadKeeps == ASSUME PayoutInv, NEW s \in Screens, Upload(s) PROVE PayoutInv'
<1>1. /\ pc[s] = "upload" /\ id[s] \in Ids /\ how[s] # "none"
      /\ pc' = [pc EXCEPT ![s] = "end"] /\ tries' = [tries EXCEPT ![s] = 0]
      /\ UNCHANGED <<chainVars, id, how, guesses, work, saved, rows, lockup, orders, indexerVars>>
      /\ \/ contracts' = contracts
         \/ /\ orders[id[s]] # Nobody
            /\ contracts' = [contracts EXCEPT ![id[s]] = @ \cup {s}]
  BY DEF Upload, Goto, PayoutInv, SettledOnce
<1>2. TypeOK /\ ChainFirst /\ MinedOnce /\ SettledOnce /\ IdIsWorth /\ DataIsPlaced
  BY DEF PayoutInv
<1>3. Nonce' = Nonce /\ \A k \in Nat, r \in Screens : IsPayment(k, r)' <=> IsPayment(k, r)
  BY <1>1 DEF chainVars, Nonce, IsPayment
<1>4. TypeOK'
  <2>1. ScreenTypes /\ ChainTypes /\ RecordTypes
    BY <1>2, TypesApart
  <2>2. ScreenTypes'
    BY <1>1, <2>1, BoundsAssumption DEF ScreenTypes, chainVars
  <2>3. ChainTypes' /\ RecordTypes'
    BY <1>1, <1>3, <2>1 DEF ChainTypes, RecordTypes, indexerVars, chainVars
  <2> QED
    BY <2>2, <2>3 DEF TypeOK, ScreenTypes, ChainTypes, RecordTypes
<1>5. ChainFirst'
  BY <1>1, <1>2, <1>3 DEF ChainFirst, TypeOK
<1>6. MinedOnce'
  BY <1>1, <1>2 DEF MinedOnce, chainVars, Nonce
<1>7. SettledOnce'
  BY <1>1, <1>2 DEF TypeOK, SettledOnce, chainVars
<1>8. IdIsWorth'
  BY <1>1, <1>2, <1>3 DEF TypeOK, IdIsWorth, Worth, chainVars
<1>9. DataIsPlaced'
  <2> SUFFICES ASSUME NEW k \in Ids, NEW r \in Screens
               PROVE  /\ rows'[k] = r => IsPayment(k, r)' \/ <<k, r>> \in guesses'
                      /\ orders'[k] = r => how'[r] # "none" /\ k = id'[r]
                      /\ r \in contracts'[k] => how'[r] # "none" /\ k = id'[r]
    BY DEF DataIsPlaced
  <2>1. rows'[k] = r => IsPayment(k, r)' \/ <<k, r>> \in guesses'
    BY <1>1, <1>2, <1>3 DEF DataIsPlaced, Ids
  <2>2. orders'[k] = r => how'[r] # "none" /\ k = id'[r]
    BY <1>1, <1>2 DEF DataIsPlaced
  <2>3. r \in contracts'[k] => r \in contracts[k] \/ (k = id[s] /\ r = s)
    BY <1>1, <1>2 DEF TypeOK
  <2>4. r \in contracts'[k] => how'[r] # "none" /\ k = id'[r]
    BY <1>1, <1>2, <2>3 DEF DataIsPlaced
  <2> QED
    BY <2>1, <2>2, <2>4
<1> QED
  BY <1>4, <1>5, <1>6, <1>7, <1>8, <1>9 DEF PayoutInv

LEMMA MineKeeps == ASSUME PayoutInv, NEW s \in Screens, Mine(s) PROVE PayoutInv'
<1>1. /\ tx[s] = "sent" /\ Nonce < MaxPayments
      /\ tx' = [tx EXCEPT ![s] = "mined"]
      /\ mined' = Append(mined, s)
      /\ overtaken' = overtaken \cup
           {r \in Screens \ {s} : how[r] = "preread" /\ id[r] = Nonce}
      /\ UNCHANGED <<screenVars, work, recordVars, indexerVars>>
  BY DEF Mine
<1>2. TypeOK /\ ChainFirst /\ MinedOnce /\ SettledOnce /\ IdIsWorth /\ DataIsPlaced
  BY DEF PayoutInv
<1>3. /\ Nonce \in Nat /\ Nonce' = Nonce + 1
      /\ \A i \in 1..Nonce : mined'[i] = mined[i]
      /\ mined'[Nonce + 1] = s
  BY <1>1, <1>2 DEF TypeOK, Nonce
<1>4. /\ \A k \in Nat, r \in Screens :
           k < Nonce /\ mined[k + 1] = r => k < Nonce' /\ mined'[k + 1] = r
      /\ Nonce < Nonce' /\ mined'[Nonce + 1] = s
  <2>1. ASSUME NEW k \in Nat, NEW r \in Screens, k < Nonce /\ mined[k + 1] = r
        PROVE  k < Nonce' /\ mined'[k + 1] = r
    <3>1. k + 1 \in 1..Nonce
      BY <1>3, <2>1
    <3>2. mined'[k + 1] = mined[k + 1]
      BY <1>3, <3>1
    <3> QED
      BY <1>3, <2>1, <3>2
  <2>2. Nonce < Nonce' /\ mined'[Nonce + 1] = s
    BY <1>3
  <2> QED
    BY <2>1, <2>2
<1>5. TypeOK'
  <2>1. ScreenTypes /\ ChainTypes /\ RecordTypes
    BY <1>2, TypesApart
  <2>2. ScreenTypes'
    BY <1>1, <2>1 DEF ScreenTypes, screenVars
  <2>3. ChainTypes' /\ RecordTypes'
    BY <1>1, <1>3, <2>1 DEF ChainTypes, RecordTypes, indexerVars, recordVars
  <2> QED
    BY <2>2, <2>3 DEF TypeOK, ScreenTypes, ChainTypes, RecordTypes
<1>6. ChainFirst'
  BY <1>1, <1>2, <1>3 DEF ChainFirst, recordVars, Ids
<1>7. MinedOnce'
  <2>1. ~ \E i \in 1..Nonce : mined[i] = s
    BY <1>1, <1>2 DEF MinedOnce
  <2>2. \A r \in Screens : tx'[r] = "mined" <=> (tx[r] = "mined" \/ r = s)
    BY <1>1, <1>2 DEF TypeOK
  <2>3. \A r \in Screens : (\E i \in 1..Nonce + 1 : mined'[i] = r)
                             <=> ((\E i \in 1..Nonce : mined[i] = r) \/ r = s)
    BY <1>3
  <2>4. \A i, j \in 1..Nonce + 1 : mined'[i] = mined'[j] => i = j
    BY <1>2, <1>3, <2>1 DEF MinedOnce
  <2>5. Nonce + 1 <= MaxPayments
    BY <1>1, <1>3, BoundsAssumption
  <2> QED
    BY <1>2, <1>3, <2>2, <2>3, <2>4, <2>5 DEF MinedOnce
<1>8. SettledOnce'
  BY <1>1, <1>2 DEF TypeOK, SettledOnce, screenVars
<1>9. IdIsWorth'
  <2> SUFFICES ASSUME NEW r \in Screens
               PROVE  /\ how[r] = "receipt" => id[r] \in Nat /\ id[r] < Nonce' /\ mined'[id[r] + 1] = r
                      /\ how[r] = "preread" /\ r \notin overtaken' =>
                           /\ id[r] \in Nat
                           /\ tx'[r] = "mined" => id[r] < Nonce' /\ mined'[id[r] + 1] = r
                           /\ tx'[r] # "mined" => id[r] = Nonce'
                      /\ how[r] \in {"reread", "optimistic"} => <<id[r], r>> \in guesses
    BY <1>1 DEF IdIsWorth, Worth, IsPayment, screenVars
  <2>1. how[r] = "receipt" => id[r] \in Nat /\ id[r] < Nonce' /\ mined'[id[r] + 1] = r
    BY <1>2, <1>4 DEF IdIsWorth, Worth, IsPayment
  <2>2. ASSUME how[r] = "preread", r \notin overtaken'
        PROVE  id[r] \in Nat /\ tx'[r] = "mined" /\ id[r] < Nonce' /\ mined'[id[r] + 1] = r
    <3>1. r \notin overtaken /\ (r = s \/ id[r] # Nonce)
      BY <1>1, <2>2
    <3>2. CASE r = s
      <4>1. tx[s] # "mined" /\ tx'[s] = "mined"
        BY <1>1, <1>2 DEF TypeOK
      <4> QED
        BY <1>2, <1>3, <1>4, <2>2, <3>1, <3>2, <4>1 DEF IdIsWorth, Worth, IsPayment
    <3>3. CASE r # s
      <4>1. tx'[r] = tx[r]
        BY <1>1, <1>2, <3>3 DEF TypeOK
      <4> QED
        BY <1>2, <1>4, <2>2, <3>1, <3>3, <4>1 DEF IdIsWorth, Worth, IsPayment
    <3> QED
      BY <3>2, <3>3
  <2>3. how[r] \in {"reread", "optimistic"} => <<id[r], r>> \in guesses
    BY <1>2 DEF IdIsWorth, Worth
  <2> QED
    BY <2>1, <2>2, <2>3
<1>10. DataIsPlaced'
  <2>1. /\ rows' = rows /\ orders' = orders /\ contracts' = contracts
        /\ how' = how /\ id' = id /\ guesses' = guesses
    BY <1>1 DEF screenVars, recordVars
  <2>2. \A k \in Ids : k \in Nat
    BY DEF Ids
  <2>3. \A k \in Ids, r \in Screens : IsPayment(k, r) => IsPayment(k, r)'
    BY <1>4, <2>2 DEF IsPayment
  <2> QED
    BY <1>2, <2>1, <2>3, DataStays
<1> QED
  BY <1>5, <1>6, <1>7, <1>8, <1>9, <1>10 DEF PayoutInv

LEMMA RevertKeeps == ASSUME PayoutInv, NEW s \in Screens, Revert(s) PROVE PayoutInv'
<1>1. /\ tx[s] = "sent" /\ tx' = [tx EXCEPT ![s] = "reverted"]
      /\ UNCHANGED <<mined, overtaken, screenVars, work, recordVars, indexerVars>>
  BY DEF Revert
<1>2. TypeOK /\ ChainFirst /\ MinedOnce /\ SettledOnce /\ IdIsWorth /\ DataIsPlaced
  BY DEF PayoutInv
<1>3. \A r \in Screens : tx'[r] = "mined" <=> tx[r] = "mined"
  BY <1>1, <1>2 DEF TypeOK
<1>4. ChainFirst' /\ MinedOnce' /\ Nonce' = Nonce
      /\ \A k \in Nat, r \in Screens : IsPayment(k, r)' <=> IsPayment(k, r)
  <2>1. tx' \in [Screens -> {"none", "sent", "mined", "reverted"}]
    BY <1>1, <1>2 DEF TypeOK
  <2> QED
    BY <1>1, <1>3, <2>1, QuietStep
<1>5. TypeOK'
  <2>1. ScreenTypes /\ ChainTypes /\ RecordTypes
    BY <1>2, TypesApart
  <2>2. ScreenTypes'
    BY <1>1, <2>1 DEF ScreenTypes, screenVars
  <2>3. ChainTypes' /\ RecordTypes'
    BY <1>1, <1>4, <2>1 DEF ChainTypes, RecordTypes, indexerVars, recordVars
  <2> QED
    BY <2>2, <2>3 DEF TypeOK, ScreenTypes, ChainTypes, RecordTypes
<1>6. SettledOnce'
  BY <1>1, <1>2 DEF TypeOK, SettledOnce, screenVars
<1>7. IdIsWorth'
  BY <1>1, <1>2, <1>3, <1>4 DEF TypeOK, IdIsWorth, Worth, screenVars, recordVars
<1>8. DataIsPlaced'
  BY <1>1, <1>2, <1>4, DataStays DEF screenVars, recordVars, Ids
<1> QED
  BY <1>4, <1>5, <1>6, <1>7, <1>8 DEF PayoutInv

LEMMA IndexKeeps == ASSUME PayoutInv, Index PROVE PayoutInv'
<1>1. /\ indexed < Nonce /\ indexed' = indexed + 1
      /\ Record(indexed, mined[indexed + 1]) \/ UNCHANGED <<rows, lockup>>
      /\ lost' = lost \/ lost' = lost \cup {indexed}
      /\ UNCHANGED <<chainVars, screenVars, work, orders, contracts>>
  BY DEF Index
<1>2. TypeOK /\ ChainFirst /\ MinedOnce /\ SettledOnce /\ IdIsWorth /\ DataIsPlaced
  BY DEF PayoutInv
<1>3. Nonce' = Nonce /\ Nonce \in Nat /\ Nonce <= MaxPayments
      /\ \A k \in Nat, r \in Screens : IsPayment(k, r)' <=> IsPayment(k, r)
  BY <1>1, <1>2 DEF chainVars, Nonce, IsPayment, TypeOK, MinedOnce
<1>4. /\ indexed \in Ids /\ mined[indexed + 1] \in Screens
      /\ IsPayment(indexed, mined[indexed + 1])
  BY <1>1, <1>2, <1>3, BoundsAssumption DEF TypeOK, Ids, Nonce, IsPayment
<1>5. /\ rows' \in [Ids -> Screens \cup {Nobody}]
      /\ lockup' \in [Ids -> {"none", "minimum", "late"}]
      /\ \A j \in Ids : rows'[j] = rows[j]
           \/ (j = indexed /\ rows[indexed] = Nobody /\ rows'[j] = mined[indexed + 1])
  <2>1. CASE Record(indexed, mined[indexed + 1])
    BY <1>2, <1>4, <2>1, RecordWrites
  <2>2. CASE UNCHANGED <<rows, lockup>>
    BY <1>2, <2>2 DEF TypeOK
  <2> QED
    BY <1>1, <2>1, <2>2
<1>6. TypeOK'
  <2>1. ScreenTypes /\ ChainTypes /\ RecordTypes
    BY <1>2, TypesApart
  <2>2. ScreenTypes'
    BY <1>1, <2>1 DEF ScreenTypes, screenVars, chainVars
  <2>3. indexed' \in 0..Nonce' /\ lost' \in SUBSET Ids
    <3>1. indexed' \in 0..Nonce'
      BY <1>1, <1>3, <2>1 DEF ChainTypes
    <3>2. lost' \in SUBSET Ids
      BY <1>1, <1>4, <2>1 DEF ChainTypes
    <3> QED
      BY <3>1, <3>2
  <2>4. ChainTypes' /\ RecordTypes'
    BY <1>1, <1>5, <2>1, <2>3 DEF ChainTypes, RecordTypes, indexerVars, chainVars
  <2> QED
    BY <2>2, <2>4 DEF TypeOK, ScreenTypes, ChainTypes, RecordTypes
<1>7. ChainFirst'
  BY <1>1, <1>2, <1>3, <1>4, <1>5, NoneAssumption DEF ChainFirst
<1>8. MinedOnce'
  BY <1>1, <1>2 DEF MinedOnce, chainVars, Nonce
<1>9. SettledOnce' /\ IdIsWorth'
  BY <1>1, <1>2, <1>3 DEF TypeOK, SettledOnce, IdIsWorth, Worth, chainVars, screenVars
<1>10. DataIsPlaced'
  <2> SUFFICES ASSUME NEW k \in Ids, NEW r \in Screens
               PROVE  /\ rows'[k] = r => IsPayment(k, r)' \/ <<k, r>> \in guesses'
                      /\ orders'[k] = r => how'[r] # "none" /\ k = id'[r]
                      /\ r \in contracts'[k] => how'[r] # "none" /\ k = id'[r]
    BY DEF DataIsPlaced
  <2>1. rows'[k] = r => rows[k] = r \/ IsPayment(k, r)
    BY <1>4, <1>5
  <2>2. rows'[k] = r => IsPayment(k, r)' \/ <<k, r>> \in guesses'
    BY <1>1, <1>2, <1>3, <2>1 DEF DataIsPlaced, screenVars, Ids
  <2> QED
    BY <1>1, <1>2, <2>2 DEF DataIsPlaced, screenVars
<1> QED
  BY <1>6, <1>7, <1>8, <1>9, <1>10 DEF PayoutInv

-----------------------------------------------------------------------------
LEMMA PayoutInvInductive == Spec => []PayoutInv
<1>1. PayoutInv /\ [Next]_vars => PayoutInv'
  <2> SUFFICES ASSUME PayoutInv, [Next]_vars PROVE PayoutInv'
    OBVIOUS
  <2>1. CASE Next
    BY <2>1, PreReadKeeps, PayKeeps, ReReadKeeps, ConfirmKeeps, MetadataKeeps,
       MetadataFailsKeeps, UploadKeeps, MineKeeps, RevertKeeps, IndexKeeps
    DEF Next, Screen
  <2>2. CASE UNCHANGED vars
    BY <2>2
    DEF vars, chainVars, screenVars, recordVars, indexerVars, PayoutInv, TypeOK, ChainFirst,
        MinedOnce, SettledOnce, IdIsWorth, Worth, DataIsPlaced, IsPayment, Nonce
  <2> QED
    BY <2>1, <2>2
<1> QED
  BY InitInv, <1>1, PTL DEF Spec

(* The variables keep to their sets, for any number of screens.              *)
THEOREM TypeCorrect == Spec => []TypeOK
<1>1. PayoutInv => TypeOK
  BY DEF PayoutInv
<1> QED
  BY <1>1, PayoutInvInductive, PTL

(* There is no row, description or contract but for a payment that was       *)
(* mined, and each is of that payment unless its screen had guessed its      *)
(* number, however often answers were lost and the screen asked again.       *)
THEOREM RecordsAlwaysTellTheChain == Spec => []RecordsTellTheChain
<1>1. ASSUME PayoutInv PROVE OthersRecordsOnlyByGuess
  <2> SUFFICES ASSUME NEW k \in Ids, NEW s \in Screens,
                      rows[k] = s \/ orders[k] = s \/ s \in contracts[k]
               PROVE  IsPayment(k, s) \/ Guessed(k, s)
    BY DEF OthersRecordsOnlyByGuess
  <2>1. how[s] \in {"none", "preread", "reread", "receipt", "optimistic"}
    BY <1>1 DEF PayoutInv, TypeOK
  <2>2. \/ IsPayment(k, s) \/ <<k, s>> \in guesses
        \/ how[s] # "none" /\ k = id[s]
    BY <1>1 DEF PayoutInv, DataIsPlaced
  <2> QED
    BY <1>1, <2>1, <2>2 DEF PayoutInv, IdIsWorth, Worth, Guessed
<1>2. PayoutInv => RecordsTellTheChain
  BY <1>1 DEF PayoutInv, RecordsTellTheChain
<1> QED
  BY <1>2, PayoutInvInductive, PTL

(* No step rewrites a payout.                                                *)
THEOREM PayoutsStand == Spec => PayoutsAreForever
<1>1. ASSUME TypeOK, [Next]_vars
      PROVE  \A k \in Ids : rows[k] # Nobody => rows'[k] = rows[k] /\ lockup'[k] = lockup[k]
  <2>1. ASSUME NEW j, NEW s, Record(j, s)
        PROVE  \A k \in Ids : rows[k] # Nobody => rows'[k] = rows[k] /\ lockup'[k] = lockup[k]
    BY <1>1, <2>1 DEF Record, TypeOK
  <2>2. ASSUME NEW s \in Screens, Confirm(s)
        PROVE  (\E j : Record(j, s)) \/ UNCHANGED <<rows, lockup>>
    BY <2>2 DEF Confirm, ConfirmMined, ConfirmLast
  <2>3. Index => (\E s : Record(indexed, s)) \/ UNCHANGED <<rows, lockup>>
    BY DEF Index
  <2>4. \/ \E j, s : Record(j, s)
        \/ UNCHANGED <<rows, lockup>>
    BY <1>1, <2>2, <2>3
    DEF Next, Screen, PreRead, Pay, ReRead, Metadata, MetadataFails, Upload, Mine, Revert,
        vars, recordVars
  <2> QED
    BY <2>1, <2>4
<1> QED
  BY <1>1, TypeCorrect, PTL DEF Spec, PayoutsAreForever

=============================================================================
