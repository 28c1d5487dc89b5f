------------------------ MODULE SeatsAndUploads_proofs ------------------------
(***************************************************************************)
(* That a seat stays whose it is, for any number of wallets, accounts,     *)
(* tokens and tabs, and that records of files and links are honest, for    *)
(* any number of uploads, of restarts and of documents on one work order.  *)
(***************************************************************************)
EXTENDS Seats, Uploads, FiniteSetTheorems, SequenceTheorems, TLAPS

-----------------------------------------------------------------------------
(***************************************************************************)
(* Seats and sessions.                                                     *)
(***************************************************************************)

(* An account made for a wallet has a seat, and a seat has its role.         *)
AccountsFit ==
  \A i \in 1..Len(accounts) :
    /\ accounts[i].made = "wallet" => accounts[i].seat # None
    /\ accounts[i].seat # None => accounts[i].role = RoleOf(accounts[i].seat)

(* What the handler of a tab is about to give a seat was not made for a      *)
(* wallet, and has none or that one, unless two are at it; whoever is.       *)
SavesFit(t) ==
  call[t].step = "save" =>
    /\ call[t].user \in 1..Len(accounts) /\ accounts[call[t].user].made # "wallet"
    /\ accounts[call[t].user].seat \in {None, call[t].seat} \/ call[t].user \in raced
    /\ \A u \in Tabs \ {t} :
         call[u].step = "save" /\ call[u].user = call[t].user => call[t].user \in raced

(* Who waits for a sign-in looks at the login page.                          *)
CallsFit ==
  \A t \in Tabs :
    call[t] # Idle =>
      /\ page[t] = "login"
      /\ call[t].seat \in AllSeats /\ call[t].wallet \in Wallets
      /\ SavesFit(t)

(* A tab has a token while it boots and while it shows the app, the stored   *)
(* one and one for what it shows, unless another tab got between.            *)
TabsFit ==
  \A t \in Tabs :
    /\ page[t] \in {"boot", "app"} => token[t] # 0
    /\ page[t] = "app" => role[t] \in AllSeats
    /\ t \notin crossed =>
         /\ page[t] = "boot" => token[t] = storage.token
         /\ page[t] = "app" => issued[token[t]].role = RoleOf(role[t])

(* The token of an old account, with which nobody gets in.                   *)
Useless(n) ==
  LET a == accounts[issued[n].user]
  IN  issued[n].role \in OldRoles /\ a.role \in OldRoles /\ a.seat = None

(* The stored role is that of the stored token.  The one that was there      *)
(* before the first sign-in is an old one's: until it is rejected no tab is  *)
(* at the login page, so no account changes that it could speak for.         *)
StorageFits ==
  storage.token # 0 =>
    \/ storage.role \in AllSeats /\ issued[storage.token].role = RoleOf(storage.role)
    \/ /\ storage.role = None /\ Useless(storage.token)
       /\ \A t \in Tabs : page[t] # "login"

SeatsInv ==
  SeatsTypeOK /\ AccountsFit /\ AccountsKeepTheirSeats /\ CallsFit /\ TabsFit /\ StorageFits

-----------------------------------------------------------------------------
(* What a seat is there to do, its role may do; and a role has one seat.     *)

LEMMA PurposesAreAllowed ==
  ASSUME NEW seat \in AllSeats, NEW p \in Purpose[seat]
  PROVE  RoleOf(seat) \in Roles /\ p \in MATRIX[RoleOf(seat)]
BY DEF AllSeats, Purpose, MATRIX, RoleOf, Roles

LEMMA SeatOfRole ==
  /\ \A r \in Roles : SeatOf(r) \in AllSeats /\ RoleOf(SeatOf(r)) = r
  /\ \A r : SeatOf(r) \in AllSeats
  /\ \A seat \in AllSeats : RoleOf(seat) \in Roles
  /\ Roles \cap OldRoles = {}
BY DEF SeatOf, Roles, RoleOf, AllSeats, OldRoles

LEMMA NoneIsNoSeat == None \notin AllSeats
BY NoneAssumption

(* A tab that shows what its token is for is refused nothing of it.          *)
LEMMA ScreensFit == SeatsInv => ScreensFitTheToken
<1> SUFFICES ASSUME SeatsInv, NEW t \in Tabs, page[t] = "app", t \notin crossed,
                    NEW p \in Purpose[role[t]]
             PROVE  Answers(token[t], p) # 403
  BY DEF ScreensFitTheToken
<1>1. role[t] \in AllSeats /\ issued[token[t]].role = RoleOf(role[t])
  BY DEF SeatsInv, TabsFit
<1>2. RoleOf(role[t]) \in Roles /\ p \in MATRIX[RoleOf(role[t])]
  BY <1>1, PurposesAreAllowed
<1>3. SessionRole(token[t], TRUE) \in {None, RoleOf(role[t])}
  BY <1>1, <1>2 DEF SessionRole
<1> DEFINE r == SessionRole(token[t], TRUE)
<1>4. r = None \/ p \in MATRIX[r]
  BY <1>2, <1>3
<1>5. Answers(token[t], p) = IF r = None THEN 401 ELSE IF p \in MATRIX[r] THEN 200 ELSE 403
  BY DEF Answers
<1> HIDE DEF r
<1> QED
  BY <1>4, <1>5

LEMMA InitInv == InitSeats => SeatsInv
<1> SUFFICES ASSUME InitSeats PROVE SeatsInv
  OBVIOUS
<1>1. /\ accounts \in Seq(Account)
      /\ \A i \in 1..Len(accounts) : /\ accounts[i] \in Account /\ accounts[i].made = "before"
                                     /\ accounts[i].seat = None /\ accounts[i].role \in OldRoles
  <2>1. CASE accounts = Old
    BY <2>1, OldAssumption, ElementOfSeq
  <2>2. CASE accounts = <<>>
    BY <2>2
  <2> QED
    BY <2>1, <2>2 DEF InitSeats
<1>2. /\ issued \in Seq([user : 1..Len(accounts), role : Roles \cup OldRoles])
      /\ Len(issued) \in {0, 1}
      /\ \A n \in 1..Len(issued) : issued[n].user \in 1..Len(accounts) /\ Useless(n)
  <2>1. CASE issued = <<>>
    BY <2>1
  <2>2. ASSUME NEW i \in 1..Len(accounts), issued = <<[user |-> i, role |-> accounts[i].role]>>
        PROVE  /\ issued \in Seq([user : 1..Len(accounts), role : Roles \cup OldRoles])
               /\ Len(issued) \in {0, 1}
               /\ \A n \in 1..Len(issued) : issued[n].user \in 1..Len(accounts) /\ Useless(n)
    <3>1. [user |-> i, role |-> accounts[i].role] \in [user : 1..Len(accounts), role : Roles \cup OldRoles]
      BY <1>1
    <3>2. Len(issued) = 1 /\ issued[1] = [user |-> i, role |-> accounts[i].role]
      BY <2>2
    <3>3. Useless(1)
      BY <1>1, <3>2 DEF Useless
    <3> QED
      BY <2>2, <3>1, <3>2, <3>3
  <2> QED
    BY <2>1, <2>2 DEF InitSeats
<1>3. /\ accounts \in Seq(Account) /\ Len(issued) \in Nat
      /\ \A t \in Tabs : Idle \in Calls
  BY <1>1, <1>2 DEF Idle, Calls
<1>4. SeatsTypeOK
  <2>1. storage \in [token : 0..Len(issued), role : AllSeats \cup OldRoles \cup {None}]
    BY <1>3 DEF InitSeats
  <2>2. /\ page \in [Tabs -> {"boot", "login", "app", "unreachable"}]
        /\ token \in [Tabs -> 0..Len(issued)]
        /\ role \in [Tabs -> AllSeats \cup {None}]
        /\ tries \in [Tabs -> 0..1]
    BY <1>3 DEF InitSeats
  <2>3. call \in [Tabs -> Calls] /\ left \in BOOLEAN /\ crossed = {} /\ expired = {} /\ raced = {}
    BY <1>3 DEF InitSeats
  <2> QED
    BY <1>2, <1>3, <2>1, <2>2, <2>3 DEF SeatsTypeOK
<1>5. AccountsFit /\ AccountsKeepTheirSeats
  BY <1>1, <1>2, SeatOfRole DEF AccountsFit, AccountsKeepTheirSeats, Useless, InitSeats
<1>6. CallsFit /\ TabsFit
  BY <1>2 DEF CallsFit, TabsFit, InitSeats
<1>7. StorageFits
  BY <1>2 DEF StorageFits, InitSeats
<1> QED
  BY <1>4, <1>5, <1>6, <1>7 DEF SeatsInv

-----------------------------------------------------------------------------
(* The API.                                                                  *)

LEMMA TokenFacts ==
  ASSUME SeatsInv, NEW n \in 1..Len(issued)
  PROVE  /\ issued[n] \in [user : 1..Len(accounts), role : Roles \cup OldRoles]
         /\ issued[n].user \in 1..Len(accounts) /\ issued[n].role \in Roles \cup OldRoles
         /\ accounts[issued[n].user] \in Account
<1>1. /\ issued \in Seq([user : 1..Len(accounts), role : Roles \cup OldRoles])
      /\ accounts \in Seq(Account)
  BY DEF SeatsInv, SeatsTypeOK
<1>2. issued[n] \in [user : 1..Len(accounts), role : Roles \cup OldRoles]
  BY <1>1, ElementOfSeq
<1>3. issued[n].user \in 1..Len(accounts) /\ issued[n].role \in Roles \cup OldRoles
  BY <1>2
<1> QED
  BY <1>1, <1>2, <1>3, ElementOfSeq

(* What a step may do to the accounts: one that has a seat keeps it, and its *)
(* role, unless it is raced for.                                             *)
KeepsSeat(i) ==
  /\ accounts'[i].made = accounts[i].made
  /\ accounts[i].seat # None => accounts'[i].seat # None
  /\ \/ accounts'[i].seat = accounts[i].seat /\ accounts'[i].role = accounts[i].role
     \/ accounts[i].seat = None
     \/ i \in raced

Kept ==
  /\ accounts' \in Seq(Account) /\ Len(accounts) <= Len(accounts')
  /\ \A i \in 1..Len(accounts) : KeepsSeat(i)

LEMMA KeptTokens ==
  ASSUME SeatsInv, Kept, AccountsFit'
  PROVE  /\ issued \in Seq([user : 1..Len(accounts'), role : Roles \cup OldRoles])
         /\ \A n \in 1..Len(issued) :
              LET a == accounts'[issued[n].user]
              IN  issued[n].role \in Roles =>
                    /\ a.seat # None /\ a.role = RoleOf(a.seat)
                    /\ issued[n].role = a.role \/ issued[n].user \in raced
         /\ raced \subseteq 1..Len(accounts')
         /\ \A i \in raced : accounts'[i].made # "wallet"
<1>1. /\ issued \in Seq([user : 1..Len(accounts), role : Roles \cup OldRoles])
      /\ Len(accounts) \in Nat /\ Len(accounts') \in Nat /\ raced \subseteq 1..Len(accounts)
  BY DEF SeatsInv, SeatsTypeOK, Kept
<1>2. [user : 1..Len(accounts), role : Roles \cup OldRoles]
        \subseteq [user : 1..Len(accounts'), role : Roles \cup OldRoles]
  BY <1>1 DEF Kept
<1>3. issued \in Seq([user : 1..Len(accounts'), role : Roles \cup OldRoles])
  BY <1>1, <1>2, SeqMonotonic
<1>4. ASSUME NEW n \in 1..Len(issued), issued[n].role \in Roles
      PROVE  LET a == accounts'[issued[n].user]
             IN  /\ a.seat # None /\ a.role = RoleOf(a.seat)
                 /\ issued[n].role = a.role \/ issued[n].user \in raced
  <2> DEFINE i == issued[n].user
  <2>1. i \in 1..Len(accounts) /\ i \in 1..Len(accounts')
    BY <1>1, TokenFacts DEF Kept
  <2>2. /\ accounts[i].seat # None
        /\ issued[n].role = accounts[i].role \/ i \in raced
    BY <1>4 DEF SeatsInv, AccountsKeepTheirSeats
  <2>3. KeepsSeat(i) /\ (accounts'[i].seat # None => accounts'[i].role = RoleOf(accounts'[i].seat))
    BY <2>1 DEF Kept, AccountsFit
  <2> HIDE DEF i
  <2>4. /\ accounts'[i].seat # None /\ accounts'[i].role = RoleOf(accounts'[i].seat)
        /\ issued[n].role = accounts'[i].role \/ i \in raced
    BY <2>2, <2>3 DEF KeepsSeat
  <2> QED
    BY <2>4 DEF i
<1>5. \A i \in raced : accounts'[i].made # "wallet"
  BY <1>1 DEF SeatsInv, AccountsKeepTheirSeats, Kept, KeepsSeat
<1> QED
  BY <1>1, <1>3, <1>4, <1>5 DEF Kept

LEMMA KeptCalls == ASSUME SeatsInv, Kept PROVE call \in [Tabs -> Calls']
<1>1. call \in [Tabs -> Calls] /\ Len(accounts) \in Nat /\ Len(accounts') \in Nat
  BY DEF SeatsInv, SeatsTypeOK, Kept
<1>2. Calls \subseteq Calls'
  BY <1>1 DEF Calls, Kept
<1> QED
  BY <1>1, <1>2

(* Registering and linking change no account's role or seat.                 *)
LEMMA AccountsMove ==
  ASSUME SeatsInv, UNCHANGED <<issued, expired, storage, tabVars, call, left, crossed, raced>>,
         Kept, AccountsFit',
         \A i \in 1..Len(accounts) : /\ accounts'[i].role = accounts[i].role
                                     /\ accounts'[i].seat = accounts[i].seat
  PROVE  SeatsInv'
<1>1. UNCHANGED <<issued, expired, storage, page, token, role, tries, call, left, crossed, raced>>
  BY DEF tabVars
<1>2. /\ issued \in Seq([user : 1..Len(accounts'), role : Roles \cup OldRoles])
      /\ call \in [Tabs -> Calls'] /\ AccountsKeepTheirSeats' /\ raced \subseteq 1..Len(accounts')
  BY <1>1, KeptTokens, KeptCalls DEF AccountsKeepTheirSeats
<1>3. SeatsTypeOK'
  BY <1>1, <1>2 DEF SeatsInv, SeatsTypeOK, Kept
<1>4. Len(accounts) \in Nat /\ Len(accounts') \in Nat
  BY DEF SeatsInv, SeatsTypeOK, Kept
<1>5. CallsFit'
  BY <1>1, <1>4 DEF SeatsInv, CallsFit, SavesFit, Kept, KeepsSeat
<1>6. TabsFit'
  BY <1>1 DEF SeatsInv, TabsFit
<1>7. StorageFits'
  <2>1. storage.token \in 0..Len(issued) /\ Len(issued) \in Nat
    BY DEF SeatsInv, SeatsTypeOK
  <2>2. storage.token # 0 => issued[storage.token].user \in 1..Len(accounts)
    BY <2>1, TokenFacts
  <2> QED
    BY <1>1, <2>2 DEF SeatsInv, StorageFits, Useless
<1> QED
  BY <1>2, <1>3, <1>5, <1>6, <1>7 DEF SeatsInv, AccountsFit

LEMMA RegisterKeeps ==
  ASSUME SeatsInv, NEW e \in Emails, NEW s \in Seats, Register(e, RoleOf(s))
  PROVE  SeatsInv'
<1> DEFINE a == [email |-> e, role |-> RoleOf(s), seat |-> None, wallet |-> None,
                 letters |-> "lower", made |-> "email"]
<1>1. a \in Account /\ a.made = "email" /\ a.seat = None
  BY SeatsAssumption, SeatOfRole DEF Account
<1>2. accounts \in Seq(Account) /\ AccountsFit /\ accounts' = Append(accounts, a)
  BY DEF Register, SeatsInv, SeatsTypeOK
<1> HIDE DEF a
<1>3. /\ accounts' \in Seq(Account) /\ Len(accounts') = Len(accounts) + 1 /\ Len(accounts) \in Nat
      /\ \A i \in 1..Len(accounts) : accounts'[i] = accounts[i]
      /\ accounts'[Len(accounts) + 1] = a
  BY <1>1, <1>2, AppendProperties
<1>4. Kept
  BY <1>3 DEF Kept, KeepsSeat
<1>5. AccountsFit'
  BY <1>1, <1>2, <1>3 DEF AccountsFit
<1> QED
  BY <1>3, <1>4, <1>5, AccountsMove DEF Register

LEMMA LinkWalletKeeps ==
  ASSUME SeatsInv, NEW i \in 1..Len(accounts), NEW w \in Wallets, NEW l \in {"lower", "mixed"},
         LinkWallet(i, w, l)
  PROVE  SeatsInv'
<1>1. /\ accounts \in Seq(Account) /\ AccountsFit /\ accounts[i] \in Account
      /\ accounts' = [accounts EXCEPT ![i].wallet = w, ![i].letters = l]
  BY ElementOfSeq DEF LinkWallet, SeatsInv, SeatsTypeOK
<1>2. accounts' = [accounts EXCEPT ![i] = [accounts[i] EXCEPT !.wallet = w, !.letters = l]]
  BY <1>1 DEF Account
<1>3. [accounts[i] EXCEPT !.wallet = w, !.letters = l] \in Account
  BY <1>1 DEF Account
<1>4. accounts' \in Seq(Account) /\ Len(accounts') = Len(accounts) /\ Len(accounts) \in Nat
  <2> DEFINE b == [accounts[i] EXCEPT !.wallet = w, !.letters = l]
  <2>1. b \in Account /\ accounts' = [accounts EXCEPT ![i] = b] /\ accounts \in Seq(Account)
    BY <1>1, <1>2, <1>3
  <2> HIDE DEF b
  <2> QED
    BY <2>1, ExceptSeq
<1>5. \A j \in 1..Len(accounts) : /\ accounts'[j].role = accounts[j].role
                                  /\ accounts'[j].seat = accounts[j].seat
                                  /\ accounts'[j].made = accounts[j].made
  <2>1. ASSUME NEW j \in 1..Len(accounts)
        PROVE  /\ accounts[j] \in Account
               /\ accounts'[j] = IF j = i THEN [accounts[i] EXCEPT !.wallet = w, !.letters = l]
                                 ELSE accounts[j]
    BY <1>1, <1>2, <1>3, ElementOfSeq, ExceptSeq
  <2>2. \A a \in Account :
          LET b == [a EXCEPT !.wallet = w, !.letters = l]
          IN  b.role = a.role /\ b.seat = a.seat /\ b.made = a.made
    BY DEF Account
  <2> QED
    BY <2>1, <2>2
<1>6. Kept /\ AccountsFit'
  BY <1>1, <1>4, <1>5 DEF Kept, KeepsSeat, AccountsFit
<1> QED
  BY <1>5, <1>6, AccountsMove DEF LinkWallet

-----------------------------------------------------------------------------
(* Signing in.                                                               *)

(* A call that goes on, is made or ends, and nothing else.                   *)
LEMMA CallMoves ==
  ASSUME SeatsInv, UNCHANGED <<serverVars, storage, tabVars, left, crossed>>,
         NEW t \in Tabs, NEW h \in Calls, call' = [call EXCEPT ![t] = h],
         raced \subseteq raced', raced' \subseteq 1..Len(accounts),
         \A i \in raced' : accounts[i].made # "wallet",
         h # Idle => page[t] = "login" /\ h.seat \in AllSeats /\ h.wallet \in Wallets,
         h.step = "save" =>
           /\ h.user \in 1..Len(accounts) /\ accounts[h.user].made # "wallet"
           /\ accounts[h.user].seat \in {None, h.seat}
           /\ \A u \in Tabs \ {t} :
                call[u].step = "save" /\ call[u].user = h.user => h.user \in raced'
  PROVE  SeatsInv'
<1>1. UNCHANGED <<accounts, issued, expired, storage, page, token, role, tries, left, crossed>>
  BY DEF serverVars, tabVars
<1>2. call \in [Tabs -> Calls] /\ UNCHANGED Calls
  BY <1>1 DEF SeatsInv, SeatsTypeOK, Calls
<1>3. SeatsTypeOK'
  BY <1>1, <1>2 DEF SeatsInv, SeatsTypeOK
<1>4. ASSUME NEW u \in Tabs, call'[u] # Idle
      PROVE  /\ page'[u] = "login" /\ call'[u].seat \in AllSeats /\ call'[u].wallet \in Wallets
             /\ SavesFit(u)'
  <2>1. CASE u = t
    <3>1. call'[t] = h /\ \A v \in Tabs \ {t} : call'[v] = call[v]
      BY <1>2
    <3> QED
      BY <1>1, <1>4, <2>1, <3>1 DEF SavesFit
  <2>2. CASE u # t
    <3>1. call'[u] = call[u] /\ call'[t] = h /\ \A v \in Tabs \ {t} : call'[v] = call[v]
      BY <1>2, <2>2
    <3>2. /\ page[u] = "login" /\ call[u].seat \in AllSeats /\ call[u].wallet \in Wallets
          /\ SavesFit(u)
      BY <1>4, <3>1 DEF SeatsInv, CallsFit
    <3>3. SavesFit(u)'
      <4> SUFFICES ASSUME call[u].step = "save"
                   PROVE  /\ call[u].user \in 1..Len(accounts)
                          /\ accounts[call[u].user].made # "wallet"
                          /\ \/ accounts[call[u].user].seat \in {None, call[u].seat}
                             \/ call[u].user \in raced'
                          /\ \A v \in Tabs \ {u} :
                               call'[v].step = "save" /\ call'[v].user = call[u].user
                                 => call[u].user \in raced'
        BY <1>1, <3>1 DEF SavesFit
      <4>1. ASSUME NEW v \in Tabs \ {u}, call'[v].step = "save", call'[v].user = call[u].user
            PROVE  call[u].user \in raced'
        <5>1. CASE v = t
          BY <2>2, <3>1, <4>1, <5>1
        <5>2. CASE v # t
          BY <3>1, <3>2, <4>1, <5>2 DEF SavesFit
        <5> QED
          BY <5>1, <5>2
      <4> QED
        BY <3>2, <4>1 DEF SavesFit
    <3> QED
      BY <1>1, <3>1, <3>2, <3>3
  <2> QED
    BY <2>1, <2>2
<1>5. CallsFit'
  BY <1>4 DEF CallsFit
<1>6. AccountsFit' /\ TabsFit' /\ StorageFits'
  BY <1>1 DEF SeatsInv, AccountsFit, TabsFit, StorageFits, Useless
<1>7. AccountsKeepTheirSeats'
  BY <1>1 DEF SeatsInv, AccountsKeepTheirSeats
<1> QED
  BY <1>3, <1>5, <1>6, <1>7 DEF SeatsInv

(* What races there are, are for accounts not made for a wallet.             *)
LEMMA RacesFit ==
  SeatsInv => raced \subseteq 1..Len(accounts) /\ \A i \in raced : accounts[i].made # "wallet"
BY DEF SeatsInv, SeatsTypeOK, AccountsKeepTheirSeats

LEMMA ConnectKeeps ==
  ASSUME SeatsInv, NEW t \in Tabs, NEW w \in Wallets, NEW s \in Seats, Connect(t, w, s)
  PROVE  SeatsInv'
<1> DEFINE h == [step |-> "find", seat |-> s, wallet |-> w, user |-> 0]
<1>1. h \in Calls /\ h.seat \in AllSeats /\ h.wallet \in Wallets /\ h.step # "save"
  BY SeatsAssumption DEF Calls, SeatsInv, SeatsTypeOK
<1> HIDE DEF h
<1>2. call' = [call EXCEPT ![t] = h] /\ page[t] = "login"
      /\ UNCHANGED <<serverVars, storage, tabVars, left, crossed, raced>>
  BY DEF Connect, h
<1> QED
  BY <1>1, <1>2, RacesFit, CallMoves

(* A tab that waits for an answer: what it asked for, and what it shows.     *)
LEMMA CallFacts ==
  ASSUME SeatsInv, NEW t \in Tabs, call[t].step # "none"
  PROVE  /\ call[t] \in Calls /\ page[t] = "login"
         /\ call[t].seat \in AllSeats /\ call[t].wallet \in Wallets
         /\ SavesFit(t)
BY DEF SeatsInv, CallsFit, SeatsTypeOK, Idle

LEMMA GiveKeeps ==
  ASSUME SeatsInv, NEW t \in Tabs, call[t].step # "none", NEW step \in {"save", "create"},
         NEW user \in 0..Len(accounts), Give(t, step, user),
         step = "save" => /\ user \in 1..Len(accounts) /\ accounts[user].made # "wallet"
                          /\ accounts[user].seat \in {None, call[t].seat}
  PROVE  SeatsInv'
<1> DEFINE h == [call[t] EXCEPT !.step = step, !.user = user]
<1>1. /\ h \in Calls /\ h.seat \in AllSeats /\ h.wallet \in Wallets /\ h.step = step
      /\ h.user = user /\ h.seat = call[t].seat /\ page[t] = "login"
  BY CallFacts DEF Calls
<1>2. /\ call' = [call EXCEPT ![t] = h] /\ UNCHANGED <<serverVars, storage, tabVars, left, crossed>>
      /\ raced' = raced \cup {i \in {user} : \E u \in Tabs \ {t} :
                                 call[u].step = "save" /\ call[u].user = i}
  BY DEF Give
<1> HIDE DEF h
<1>3. ASSUME NEW i \in raced' PROVE i \in 1..Len(accounts) /\ accounts[i].made # "wallet"
  <2>1. CASE i \in raced
    BY <2>1, RacesFit
  <2>2. CASE \E u \in Tabs \ {t} : call[u].step = "save" /\ call[u].user = i
    <3>1. PICK u \in Tabs \ {t} : call[u].step = "save" /\ call[u].user = i
      BY <2>2
    <3>2. SavesFit(u)
      BY <3>1, CallFacts
    <3> QED
      BY <3>1, <3>2 DEF SavesFit
  <2> QED
    BY <1>2, <1>3, <2>1, <2>2
<1>4. \A u \in Tabs \ {t} : call[u].step = "save" /\ call[u].user = user => user \in raced'
  BY <1>2
<1>5. raced \subseteq raced'
  BY <1>2
<1> QED
  BY <1>1, <1>2, <1>3, <1>4, <1>5, CallMoves

LEMMA RefuseKeeps == ASSUME SeatsInv, NEW t \in Tabs, RefuseSignIn(t) PROVE SeatsInv'
<1>1. Idle \in Calls /\ Idle.step # "save"
  BY DEF Idle, Calls, SeatsInv, SeatsTypeOK
<1> QED
  BY <1>1, RacesFit, CallMoves DEF RefuseSignIn

(* An account is signed in to the seat asked for, whether the answer arrives *)
(* or not.                                                                   *)
LEMMA SignInKeeps ==
  ASSUME SeatsInv, NEW t \in Tabs, call[t].step # "none", Kept, AccountsFit',
         NEW i \in 1..Len(accounts'), NEW seat \in AllSeats,
         accounts'[i].role = RoleOf(seat), accounts'[i].seat = seat,
         \A u \in Tabs \ {t} : call[u].step = "save" =>
           \/ accounts'[call[u].user].seat = accounts[call[u].user].seat
           \/ call[u].user \in raced,
         SignIn(t, i, RoleOf(seat), seat)
  PROVE  SeatsInv'
<1> DEFINE n == Len(issued) + 1
           e == [user |-> i, role |-> RoleOf(seat)]
<1>1. /\ issued \in Seq([user : 1..Len(accounts'), role : Roles \cup OldRoles])
      /\ call \in [Tabs -> Calls'] /\ Len(issued) \in Nat /\ Len(accounts') \in Nat
      /\ RoleOf(seat) \in Roles
  <2>1. issued \in Seq([user : 1..Len(accounts), role : Roles \cup OldRoles])
    BY DEF SeatsInv, SeatsTypeOK
  <2>2. Len(issued) \in Nat /\ Len(accounts') \in Nat
    BY <2>1 DEF Kept
  <2> QED
    BY <2>2, KeptTokens, KeptCalls, SeatOfRole
<1>2. e \in [user : 1..Len(accounts'), role : Roles \cup OldRoles]
      /\ e.user = i /\ e.role = RoleOf(seat)
  BY <1>1, CallFacts
<1>3. issued' = Append(issued, e)
  BY DEF SignIn
<1> HIDE DEF e
<1>4. /\ issued' \in Seq([user : 1..Len(accounts'), role : Roles \cup OldRoles])
      /\ Len(issued') = n /\ issued'[n] = e
      /\ \A m \in 1..Len(issued) : issued'[m] = issued[m]
  BY <1>1, <1>2, <1>3, AppendProperties
<1>5. AccountsKeepTheirSeats'
  <2>1. ASSUME NEW m \in 1..Len(issued'), issued'[m].role \in Roles
        PROVE  LET a == accounts'[issued'[m].user]
               IN  /\ a.seat # None /\ a.role = RoleOf(a.seat)
                   /\ issued'[m].role = a.role \/ issued'[m].user \in raced
    <3>1. CASE m = n
      BY <1>2, <1>4, <3>1, NoneIsNoSeat
    <3>2. CASE m # n
      <4>1. m \in 1..Len(issued) /\ issued'[m] = issued[m]
        BY <1>1, <1>4, <2>1, <3>2
      <4> QED
        BY <2>1, <4>1, KeptTokens
    <3> QED
      BY <3>1, <3>2
  <2>2. raced' = raced
    BY DEF SignIn
  <2> QED
    BY <2>1, <2>2, KeptTokens DEF AccountsKeepTheirSeats
<1>6. /\ expired' = expired /\ tries' = tries /\ raced' = raced /\ call' = [call EXCEPT ![t] = Idle]
      /\ \/ /\ token' = [token EXCEPT ![t] = n]
            /\ role' = [role EXCEPT ![t] = seat]
            /\ storage' = [token |-> n, role |-> seat]
            /\ page' = [page EXCEPT ![t] = "app"]
            /\ left' = FALSE
            /\ crossed' = Crossing(t) \ {t}
         \/ UNCHANGED <<storage, token, role, page, left, crossed>>
  BY DEF SignIn
<1>7. SeatsTypeOK'
  <2>1. Idle \in Calls'
    BY <1>1 DEF Idle, Calls
  <2>2. SeatsTypeOK
    BY DEF SeatsInv
  <2>3. call' \in [Tabs -> Calls'] /\ accounts' \in Seq(Account) /\ tries' \in [Tabs -> 0..1]
    BY <1>1, <1>6, <2>1, <2>2 DEF SeatsTypeOK, Kept
  <2>4. /\ left' \in BOOLEAN /\ crossed' \in SUBSET Tabs
        /\ page' \in [Tabs -> {"boot", "login", "app", "unreachable"}]
        /\ role' \in [Tabs -> AllSeats \cup {None}]
    BY <1>6, <2>2 DEF SeatsTypeOK, Crossing
  <2>5. /\ Len(issued') = Len(issued) + 1
        /\ expired \in SUBSET (1..Len(issued)) /\ token \in [Tabs -> 0..Len(issued)]
        /\ storage \in [token : 0..Len(issued), role : AllSeats \cup OldRoles \cup {None}]
    BY <1>4, <2>2 DEF SeatsTypeOK
  <2>6. expired' \in SUBSET (1..Len(issued')) /\ token' \in [Tabs -> 0..Len(issued')]
    <3>1. /\ 0..Len(issued) \subseteq 0..Len(issued') /\ 1..Len(issued) \subseteq 1..Len(issued')
          /\ n \in 0..Len(issued')
      BY <1>1, <2>5
    <3>2. token' = token \/ token' = [token EXCEPT ![t] = n]
      BY <1>6
    <3> HIDE DEF n
    <3>3. token' \in [Tabs -> 0..Len(issued')]
      BY <2>5, <3>1, <3>2
    <3> QED
      BY <1>6, <2>5, <3>1, <3>3
  <2>7. storage' \in [token : 0..Len(issued'), role : AllSeats \cup OldRoles \cup {None}]
    <3>1. CASE storage' = [token |-> n, role |-> seat]
      BY <1>1, <2>5, <3>1
    <3>2. CASE storage' = storage
      BY <1>1, <2>5, <3>2
    <3> QED
      BY <1>6, <3>1, <3>2
  <2>8. raced' \in SUBSET (1..Len(accounts'))
    BY <1>6, KeptTokens
  <2> QED
    BY <1>4, <2>3, <2>4, <2>6, <2>7, <2>8 DEF SeatsTypeOK
<1>8. /\ SeatsTypeOK /\ CallsFit /\ TabsFit /\ StorageFits /\ page[t] = "login"
      /\ Len(accounts) \in Nat
  BY CallFacts DEF SeatsInv, SeatsTypeOK
<1>9. CallsFit'
  <2>1. ASSUME NEW u \in Tabs, call'[u] # Idle
        PROVE  /\ page'[u] = "login"
               /\ call'[u].seat \in AllSeats /\ call'[u].wallet \in Wallets
               /\ SavesFit(u)'
    <3>1. u # t /\ call'[u] = call[u] /\ call'[t] = Idle /\ \A v \in Tabs \ {t} : call'[v] = call[v]
      BY <1>6, <1>8, <2>1 DEF SeatsTypeOK
    <3>2. page'[u] = page[u]
      BY <1>6, <1>8, <3>1 DEF SeatsTypeOK
    <3>3. SavesFit(u) /\ page[u] = "login" /\ call[u].seat \in AllSeats /\ call[u].wallet \in Wallets
      BY <1>8, <2>1, <3>1 DEF CallsFit
    <3>4. SavesFit(u)'
      <4> SUFFICES ASSUME call[u].step = "save"
                   PROVE  /\ call[u].user \in 1..Len(accounts')
                          /\ accounts'[call[u].user].made # "wallet"
                          /\ \/ accounts'[call[u].user].seat \in {None, call[u].seat}
                             \/ call[u].user \in raced
                          /\ \A v \in Tabs \ {u} :
                               call'[v].step = "save" /\ call'[v].user = call[u].user
                                 => call[u].user \in raced
        BY <1>6, <3>1 DEF SavesFit
      <4>1. /\ call[u].user \in 1..Len(accounts) /\ accounts[call[u].user].made # "wallet"
            /\ accounts[call[u].user].seat \in {None, call[u].seat} \/ call[u].user \in raced
            /\ \A v \in Tabs \ {u} :
                 call[v].step = "save" /\ call[v].user = call[u].user => call[u].user \in raced
        BY <3>3 DEF SavesFit
      <4>2. /\ accounts'[call[u].user].made = accounts[call[u].user].made
            /\ call[u].user \in 1..Len(accounts')
        BY <1>1, <1>8, <4>1 DEF Kept, KeepsSeat
      <4>3. \/ accounts'[call[u].user].seat = accounts[call[u].user].seat
            \/ call[u].user \in raced
        BY <3>1
      <4>4. \A v \in Tabs \ {u} : call'[v].step = "save" => call'[v] = call[v]
        BY <3>1 DEF Idle
      <4> QED
        BY <4>1, <4>2, <4>3, <4>4
    <3> QED
      BY <3>1, <3>2, <3>3, <3>4
  <2> QED
    BY <2>1 DEF CallsFit
<1>10. TabsFit'
  <2>1. ASSUME NEW u \in Tabs
        PROVE  /\ page'[u] \in {"boot", "app"} => token'[u] # 0
               /\ page'[u] = "app" => role'[u] \in AllSeats
               /\ u \notin crossed' =>
                    /\ page'[u] = "boot" => token'[u] = storage'.token
                    /\ page'[u] = "app" => issued'[token'[u]].role = RoleOf(role'[u])
    <3>1. CASE u = t /\ page'[t] = "app"
      <4>1. token'[t] = n /\ role'[t] = seat
        BY <1>6, <1>8, <3>1 DEF SeatsTypeOK
      <4> QED
        BY <1>1, <1>2, <1>4, <3>1, <4>1
    <3>2. CASE u = t /\ page'[t] # "app"
      BY <1>6, <1>8, <3>2 DEF SeatsTypeOK
    <3>3. CASE u # t
      <4>1. token'[u] = token[u] /\ role'[u] = role[u] /\ page'[u] = page[u]
        BY <1>6, <1>8, <3>3 DEF SeatsTypeOK
      <4>2. u \notin crossed' => u \notin crossed /\ (page[u] = "boot" => storage' = storage)
        BY <1>6, <3>3 DEF Crossing
      <4>3. page[u] = "app" => token[u] \in 1..Len(issued) /\ issued'[token[u]] = issued[token[u]]
        BY <1>1, <1>4, <1>8 DEF SeatsTypeOK, TabsFit
      <4> QED
        BY <1>8, <4>1, <4>2, <4>3 DEF TabsFit
    <3> QED
      BY <3>1, <3>2, <3>3
  <2> QED
    BY <2>1 DEF TabsFit
<1>11. StorageFits'
  <2>1. CASE storage' = [token |-> n, role |-> seat]
    BY <1>2, <1>4, <2>1 DEF StorageFits
  <2>2. CASE storage' = storage /\ storage.token # 0
    <3>1. storage.token \in 1..Len(issued)
      BY <1>1, <1>8, <2>2 DEF SeatsTypeOK
    <3> QED
      BY <1>4, <1>8, <2>2, <3>1 DEF StorageFits
  <2>3. CASE storage' = storage /\ storage.token = 0
    BY <2>3 DEF StorageFits
  <2> QED
    BY <1>6, <2>1, <2>2, <2>3
<1> QED
  BY <1>5, <1>7, <1>9, <1>10, <1>11 DEF SeatsInv

LEMMA FindKeeps == ASSUME SeatsInv, NEW t \in Tabs, Find(t) PROVE SeatsInv'
<1> DEFINE c == call[t]
           found == {i \in 1..Len(accounts) : accounts[i].wallet = c.wallet}
<1>1. /\ c.step = "find" /\ c.seat \in AllSeats /\ accounts \in Seq(Account) /\ AccountsFit
      /\ Len(accounts) \in Nat
  BY CallFacts DEF Find, SeatsInv, SeatsTypeOK
<1>2. CASE found = {} /\ Give(t, "create", 0)
  <2>1. 0 \in 0..Len(accounts) /\ c.step # "none"
    BY <1>1
  <2> HIDE DEF c, found
  <2> QED
    BY <1>2, <2>1, GiveKeeps DEF c
<1>3. ASSUME NEW i \in 1..Len(accounts),
             \/ accounts[i].seat \notin {None, c.seat} /\ RefuseSignIn(t)
             \/ accounts[i].seat = None /\ Give(t, "save", i)
             \/ /\ accounts[i].seat = c.seat /\ accounts[i].role \in OldRoles
                /\ Give(t, "save", i)
             \/ /\ accounts[i].seat = c.seat /\ accounts[i].role \notin OldRoles
                /\ SignIn(t, i, accounts[i].role, accounts[i].seat) /\ UNCHANGED accounts
      PROVE  SeatsInv'
  <2>1. accounts[i] \in Account /\ c.seat # None /\ RoleOf(c.seat) \notin OldRoles
    BY <1>1, ElementOfSeq, NoneIsNoSeat, SeatOfRole
  <2>2. CASE RefuseSignIn(t)
    BY <2>2, RefuseKeeps
  <2>3. CASE /\ Give(t, "save", i) /\ accounts[i].seat \in {None, c.seat}
             /\ accounts[i].seat = None \/ accounts[i].role \in OldRoles
    <3>1. accounts[i].made # "wallet" /\ accounts[i].seat \in {None, c.seat}
      <4>1. accounts[i].seat \in AllSeats \cup {None}
        BY <2>1 DEF Account
      <4> QED
        BY <1>1, <2>3, <4>1, SeatOfRole DEF AccountsFit
    <3>2. i \in 0..Len(accounts) /\ c.step # "none"
      BY <1>1
    <3> QED
      BY <2>3, <3>1, <3>2, GiveKeeps
  <2>4. CASE /\ accounts[i].seat = c.seat
             /\ SignIn(t, i, accounts[i].role, accounts[i].seat) /\ UNCHANGED accounts
    <3>1. accounts[i].role = RoleOf(c.seat)
      BY <1>1, <2>1, <2>4 DEF AccountsFit
    <3>2. Kept /\ AccountsFit'
      BY <1>1, <2>4 DEF Kept, KeepsSeat, AccountsFit
    <3> QED
      BY <1>1, <2>4, <3>1, <3>2, SignInKeeps
  <2> QED
    BY <1>3, <2>2, <2>3, <2>4
<1> QED
  BY <1>2, <1>3 DEF Find

LEMMA SaveKeeps == ASSUME SeatsInv, NEW t \in Tabs, Save(t) PROVE SeatsInv'
<1> DEFINE c == call[t]
           a == [accounts[c.user] EXCEPT !.seat = c.seat, !.role = RoleOf(c.seat)]
<1>1. /\ c.step = "save" /\ c.seat \in AllSeats /\ accounts \in Seq(Account) /\ AccountsFit
      /\ c.user \in 1..Len(accounts) /\ accounts[c.user].made # "wallet" /\ Len(accounts) \in Nat
      /\ accounts[c.user].seat \in {None, c.seat} \/ c.user \in raced
      /\ \A u \in Tabs \ {t} :
           call[u].step = "save" /\ call[u].user = c.user => c.user \in raced
      /\ SignIn(t, c.user, RoleOf(c.seat), c.seat)
  BY CallFacts DEF Save, SavesFit, SeatsInv, SeatsTypeOK
<1>2. accounts[c.user] \in Account /\ RoleOf(c.seat) \in Roles
  BY <1>1, ElementOfSeq, SeatOfRole
<1>3. a \in Account /\ a.seat = c.seat /\ a.role = RoleOf(c.seat) /\ a.made = accounts[c.user].made
  BY <1>1, <1>2 DEF Account
<1>4. accounts' = [accounts EXCEPT ![c.user] = a]
  BY <1>1, <1>2 DEF Save, Account
<1> HIDE DEF a
<1>5. /\ accounts' \in Seq(Account) /\ Len(accounts') = Len(accounts)
      /\ \A j \in 1..Len(accounts) : accounts'[j] = IF j = c.user THEN a ELSE accounts[j]
  BY <1>1, <1>3, <1>4, ExceptSeq
<1>6. Kept
  <2>1. ASSUME NEW j \in 1..Len(accounts) PROVE KeepsSeat(j)
    <3>1. CASE j = c.user
      <4>1. /\ accounts'[j].made = accounts[j].made /\ accounts'[j].seat = c.seat
            /\ accounts'[j].role = RoleOf(c.seat) /\ c.seat # None
        BY <1>1, <1>3, <1>5, <3>1, NoneIsNoSeat
      <4>2. accounts[j].seat # None => accounts[j].role = RoleOf(accounts[j].seat)
        BY <1>1 DEF AccountsFit
      <4> QED
        BY <1>1, <3>1, <4>1, <4>2 DEF KeepsSeat
    <3>2. CASE j # c.user
      BY <1>5, <3>2 DEF KeepsSeat
    <3> QED
      BY <3>1, <3>2
  <2> QED
    BY <1>1, <1>5, <2>1 DEF Kept
<1>7. AccountsFit'
  <2>1. \A j \in 1..Len(accounts) \ {c.user} : accounts'[j] = accounts[j]
    BY <1>5
  <2>2. accounts'[c.user] = a
    BY <1>1, <1>5
  <2> QED
    BY <1>1, <1>3, <1>5, <2>1, <2>2 DEF AccountsFit
<1>8. ASSUME NEW u \in Tabs \ {t}, call[u].step = "save"
      PROVE  accounts'[call[u].user].seat = accounts[call[u].user].seat \/ call[u].user \in raced
  <2>1. CASE call[u].user = c.user
    BY <1>1, <1>8, <2>1
  <2>2. CASE call[u].user # c.user
    <3>1. call[u].user \in 1..Len(accounts)
      BY <1>8, CallFacts DEF SavesFit
    <3> QED
      BY <1>5, <2>2, <3>1
  <2> QED
    BY <2>1, <2>2
<1>9. c.user \in 1..Len(accounts') /\ accounts'[c.user] = a
  BY <1>1, <1>5
<1> QED
  BY <1>1, <1>3, <1>6, <1>7, <1>8, <1>9, SignInKeeps

LEMMA CreateKeeps == ASSUME SeatsInv, NEW t \in Tabs, Create(t) PROVE SeatsInv'
<1> DEFINE c == call[t]
           a == [email |-> c.wallet, role |-> RoleOf(c.seat), seat |-> c.seat,
                 wallet |-> c.wallet, letters |-> "lower", made |-> "wallet"]
<1>1. /\ c.step = "create" /\ c.seat \in AllSeats /\ c.wallet \in Wallets
      /\ accounts \in Seq(Account) /\ AccountsFit /\ RoleOf(c.seat) \in Roles
  BY CallFacts, SeatOfRole DEF Create, SeatsInv, SeatsTypeOK
<1>2. CASE RefuseSignIn(t)
  BY <1>2, RefuseKeeps
<1>3. CASE /\ accounts' = Append(accounts, a)
           /\ SignIn(t, Len(accounts) + 1, RoleOf(c.seat), c.seat)
  <2>1. a \in Account /\ a.seat = c.seat /\ a.role = RoleOf(c.seat)
    BY <1>1 DEF Account
  <2> HIDE DEF a
  <2>2. /\ accounts' \in Seq(Account) /\ Len(accounts') = Len(accounts) + 1 /\ Len(accounts) \in Nat
        /\ \A i \in 1..Len(accounts) : accounts'[i] = accounts[i]
        /\ accounts'[Len(accounts) + 1] = a
    BY <1>1, <1>3, <2>1, AppendProperties
  <2>3. Kept
    BY <2>2 DEF Kept, KeepsSeat
  <2>4. AccountsFit'
    BY <1>1, <2>1, <2>2, NoneIsNoSeat DEF AccountsFit
  <2>5. ASSUME NEW u \in Tabs \ {t}, call[u].step = "save"
        PROVE  accounts'[call[u].user].seat = accounts[call[u].user].seat
    <3>1. call[u].user \in 1..Len(accounts)
      BY <2>5, CallFacts DEF SavesFit
    <3> QED
      BY <2>2, <3>1
  <2> QED
    <3> DEFINE n == Len(accounts) + 1
    <3>1. /\ n \in 1..Len(accounts') /\ accounts'[n].role = RoleOf(c.seat)
          /\ accounts'[n].seat = c.seat /\ SignIn(t, n, RoleOf(c.seat), c.seat)
      BY <1>3, <2>1, <2>2
    <3>2. c.step # "none"
      BY <1>1
    <3> HIDE DEF n
    <3> QED
      BY <1>1, <2>3, <2>4, <2>5, <3>1, <3>2, SignInKeeps
<1> QED
  BY <1>2, <1>3 DEF Create

-----------------------------------------------------------------------------
(* Tabs.                                                                     *)

(* What a tab does to itself and to what is stored, accounts, tokens and     *)
(* calls unchanged.                                                          *)
LEMMA TabMoves ==
  ASSUME SeatsInv, UNCHANGED <<serverVars, call, raced>>,
         storage' \in [token : 0..Len(issued), role : AllSeats \cup OldRoles \cup {None}],
         page' \in [Tabs -> {"boot", "login", "app", "unreachable"}],
         token' \in [Tabs -> 0..Len(issued)], role' \in [Tabs -> AllSeats \cup {None}],
         tries' \in [Tabs -> 0..1], left' \in BOOLEAN, crossed' \in SUBSET Tabs,
         \A u \in Tabs : call[u] # Idle => page'[u] = "login",
         TabsFit', StorageFits'
  PROVE  SeatsInv'
<1>1. UNCHANGED <<accounts, issued, expired, call, raced>> /\ SeatsTypeOK /\ UNCHANGED Calls
  BY DEF serverVars, SeatsInv, Calls
<1>2. SeatsTypeOK'
  BY <1>1 DEF SeatsTypeOK
<1>3. CallsFit'
  BY <1>1 DEF SeatsInv, CallsFit, SavesFit
<1> QED
  BY <1>1, <1>2, <1>3 DEF SeatsInv, AccountsFit, AccountsKeepTheirSeats

LEMMA TabTypes ==
  SeatsInv =>
    /\ storage \in [token : 0..Len(issued), role : AllSeats \cup OldRoles \cup {None}]
    /\ page \in [Tabs -> {"boot", "login", "app", "unreachable"}]
    /\ token \in [Tabs -> 0..Len(issued)] /\ role \in [Tabs -> AllSeats \cup {None}]
    /\ tries \in [Tabs -> 0..1] /\ left \in BOOLEAN /\ crossed \in SUBSET Tabs
    /\ Len(issued) \in Nat
    /\ \A u \in Tabs : call[u] # Idle => page[u] = "login"
    /\ TabsFit /\ StorageFits
BY DEF SeatsInv, SeatsTypeOK, CallsFit

LEMMA LoadKeeps == ASSUME SeatsInv, NEW t \in Tabs, Load(t) PROVE SeatsInv'
<1>1. /\ storage' = storage /\ left' = left /\ UNCHANGED <<serverVars, call, raced>> /\ call[t] = Idle
      /\ token' = [token EXCEPT ![t] = storage.token]
      /\ page' = [page EXCEPT ![t] = IF storage.token = 0 THEN "login" ELSE "boot"]
      /\ role' = [role EXCEPT ![t] = None]
      /\ tries' = [tries EXCEPT ![t] = 0]
      /\ crossed' = crossed \ {t}
  BY DEF Load
<1>2. UNCHANGED <<accounts, issued>>
  BY <1>1 DEF serverVars
<1>3. TabsFit'
  BY <1>1, <1>2, TabTypes DEF TabsFit
<1>4. StorageFits'
  BY <1>1, <1>2, TabTypes DEF StorageFits, Useless
<1> QED
  BY <1>1, <1>3, <1>4, TabTypes, TabMoves

(* The token of a tab that is let in was issued for a role in use, unless    *)
(* another tab got between.                                                  *)
LEMMA RestoredKeeps == ASSUME SeatsInv, NEW t \in Tabs, Restored(t) PROVE SeatsInv'
<1> DEFINE user == accounts[issued[token[t]].user]
           seat == IF storage.role \in AllSeats THEN storage.role
                   ELSE IF user.seat # None THEN user.seat ELSE SeatOf(user.role)
<1>1. /\ page[t] = "boot" /\ SessionRole(token[t], TRUE) # None
      /\ page' = [page EXCEPT ![t] = "app"] /\ role' = [role EXCEPT ![t] = seat]
      /\ UNCHANGED <<serverVars, storage, token, tries, call, left, crossed, raced>>
  BY DEF Restored
<1>2. UNCHANGED <<accounts, issued>>
  BY <1>1 DEF serverVars
<1>3. token[t] \in 1..Len(issued)
  BY <1>1, TabTypes DEF TabsFit
<1>4. user \in Account
  BY <1>3, TokenFacts
<1>5. seat \in AllSeats
  BY <1>4, SeatOfRole DEF Account
<1>6. ASSUME t \notin crossed PROVE issued[token[t]].role = RoleOf(seat)
  <2>1. token[t] = storage.token /\ storage.token # 0
    BY <1>1, <1>3, <1>6, TabTypes DEF TabsFit
  <2>2. ~ Useless(storage.token)
    BY <1>1, <2>1, SeatOfRole DEF Useless, SessionRole
  <2> QED
    BY <2>1, <2>2, TabTypes DEF StorageFits
<1> HIDE DEF seat
<1>7. TabsFit'
  BY <1>1, <1>2, <1>3, <1>5, <1>6, TabTypes DEF TabsFit
<1>8. StorageFits'
  BY <1>1, <1>2, TabTypes DEF StorageFits, Useless
<1> QED
  BY <1>1, <1>5, <1>7, <1>8, TabTypes, TabMoves

LEMMA RejectedKeeps == ASSUME SeatsInv, NEW t \in Tabs, Rejected(t) PROVE SeatsInv'
<1>1. /\ page[t] = "boot" /\ UNCHANGED <<serverVars, role, tries, call, left, raced>>
      /\ token' = [token EXCEPT ![t] = 0] /\ storage' = [storage EXCEPT !.token = 0]
      /\ page' = [page EXCEPT ![t] = "login"] /\ crossed' = Crossing(t)
  BY DEF Rejected
<1>2. UNCHANGED <<accounts, issued>> /\ storage'.token = 0
      /\ storage' \in [token : 0..Len(issued), role : AllSeats \cup OldRoles \cup {None}]
  BY <1>1, TabTypes DEF serverVars
<1>3. crossed' \in SUBSET Tabs /\ \A u \in Tabs \ {t} : u \notin crossed' => u \notin crossed /\ page[u] # "boot"
  BY <1>1, TabTypes DEF Crossing
<1>4. TabsFit'
  BY <1>1, <1>2, <1>3, TabTypes DEF TabsFit
<1>5. StorageFits'
  BY <1>2 DEF StorageFits
<1>6. token' \in [Tabs -> 0..Len(issued)]
  BY <1>1, TabTypes
<1> QED
  BY <1>1, <1>2, <1>3, <1>4, <1>5, <1>6, TabTypes, TabMoves

LEMMA UnreachedKeeps == ASSUME SeatsInv, NEW t \in Tabs, Unreached(t) PROVE SeatsInv'
<1>1. /\ page[t] = "boot" /\ UNCHANGED <<serverVars, storage, token, role, call, left, crossed, raced>>
      /\ \/ tries[t] < 1 /\ tries' = [tries EXCEPT ![t] = tries[t] + 1] /\ UNCHANGED page
         \/ page' = [page EXCEPT ![t] = "unreachable"] /\ UNCHANGED tries
  BY DEF Unreached
<1>2. UNCHANGED <<accounts, issued>>
  BY <1>1 DEF serverVars
<1>3. TabsFit'
  BY <1>1, <1>2, TabTypes DEF TabsFit
<1>4. StorageFits'
  BY <1>1, <1>2, TabTypes DEF StorageFits, Useless
<1>5. /\ page' \in [Tabs -> {"boot", "login", "app", "unreachable"}] /\ tries' \in [Tabs -> 0..1]
      /\ \A u \in Tabs : call[u] # Idle => page'[u] = "login"
  <2>1. CASE tries[t] < 1 /\ tries' = [tries EXCEPT ![t] = tries[t] + 1] /\ UNCHANGED page
    <3>1. tries[t] + 1 \in 0..1
      BY <2>1, TabTypes
    <3> QED
      BY <2>1, <3>1, TabTypes
  <2>2. CASE page' = [page EXCEPT ![t] = "unreachable"] /\ UNCHANGED tries
    BY <1>1, <2>2, TabTypes
  <2> QED
    BY <1>1, <2>1, <2>2
<1> QED
  BY <1>1, <1>3, <1>4, <1>5, TabTypes, TabMoves

LEMMA LogoutKeeps == ASSUME SeatsInv, NEW t \in Tabs, Logout(t) PROVE SeatsInv'
<1>1. /\ page[t] = "app" /\ UNCHANGED <<serverVars, tries, call, raced>> /\ left' = TRUE
      /\ token' = [token EXCEPT ![t] = 0] /\ role' = [role EXCEPT ![t] = None]
      /\ storage' = [token |-> 0, role |-> None]
      /\ page' = [page EXCEPT ![t] = "login"] /\ crossed' = Crossing(t)
  BY DEF Logout
<1>2. UNCHANGED <<accounts, issued>> /\ storage'.token = 0
      /\ storage' \in [token : 0..Len(issued), role : AllSeats \cup OldRoles \cup {None}]
  BY <1>1, TabTypes DEF serverVars
<1>3. crossed' \in SUBSET Tabs /\ \A u \in Tabs \ {t} : u \notin crossed' => u \notin crossed /\ page[u] # "boot"
  BY <1>1, TabTypes DEF Crossing
<1>4. TabsFit'
  BY <1>1, <1>2, <1>3, TabTypes DEF TabsFit
<1>5. StorageFits'
  BY <1>2 DEF StorageFits
<1>6. token' \in [Tabs -> 0..Len(issued)]
  BY <1>1, TabTypes
<1> QED
  BY <1>1, <1>2, <1>3, <1>4, <1>5, <1>6, TabTypes, TabMoves

LEMMA ExpireKeeps ==
  ASSUME SeatsInv, UNCHANGED <<accounts, issued, storage, tabVars, call, left, crossed, raced>>,
         expired' \in SUBSET (1..Len(issued))
  PROVE  SeatsInv'
<1>1. UNCHANGED <<accounts, issued, storage, page, token, role, tries, call, left, crossed, raced, Calls>>
  BY DEF tabVars, Calls
<1>2. SeatsTypeOK'
  BY <1>1 DEF SeatsInv, SeatsTypeOK
<1> QED
  BY <1>1, <1>2 DEF SeatsInv, AccountsFit, AccountsKeepTheirSeats, CallsFit, SavesFit, TabsFit, StorageFits, Useless

-----------------------------------------------------------------------------
LEMMA StepKeeps == SeatsInv /\ [NextSeats]_seatVars => SeatsInv'
<1> SUFFICES ASSUME SeatsInv, [NextSeats]_seatVars PROVE SeatsInv'
  OBVIOUS
<1>1. CASE \E e \in Emails, s \in Seats : Register(e, RoleOf(s))
  BY <1>1, RegisterKeeps
<1>2. CASE \E i \in 1..Len(accounts), w \in Wallets, l \in {"lower", "mixed"} : LinkWallet(i, w, l)
  BY <1>2, LinkWalletKeeps
<1>3. CASE \E t \in Tabs, w \in Wallets, s \in Seats : Connect(t, w, s)
  BY <1>3, ConnectKeeps
<1>4. CASE \E t \in Tabs : Find(t) \/ Save(t) \/ Create(t)
  BY <1>4, FindKeeps, SaveKeeps, CreateKeeps
<1>5. CASE \E t \in Tabs : Load(t) \/ Boot(t) \/ Logout(t)
  BY <1>5, LoadKeeps, RestoredKeeps, RejectedKeeps, UnreachedKeeps, LogoutKeeps DEF Boot
<1>6. CASE \E n \in 1..Len(issued) : Expire(n)
  BY <1>6, ExpireKeeps DEF Expire, SeatsInv, SeatsTypeOK
<1>7. CASE UNCHANGED seatVars
  BY <1>7, ExpireKeeps DEF seatVars, serverVars, SeatsInv, SeatsTypeOK
<1> QED
  BY <1>1, <1>2, <1>3, <1>4, <1>5, <1>6, <1>7 DEF NextSeats

LEMMA Inductive == SpecSeats => []SeatsInv
BY InitInv, StepKeeps, PTL DEF SpecSeats

(* Accounts, tokens, tabs and what the browser stores keep their types.      *)
THEOREM SeatsTypeCorrect == SpecSeats => []SeatsTypeOK
<1>1. SeatsInv => SeatsTypeOK
  BY DEF SeatsInv
<1> QED
  BY <1>1, Inductive, PTL

(* Whoever registers, links and asks for which seat, in however many tabs    *)
(* and at the same time: an account that has a seat has its role, and so has *)
(* every token it was given, unless two sign-ins were giving it the seat at  *)
(* once; and a tab whose restoring no other tab crossed is refused nothing   *)
(* its screens are there for.                                                *)
THEOREM SeatsKept == SpecSeats => []SeatsAreKept
<1>1. SeatsInv => SeatsAreKept
  BY ScreensFit DEF SeatsAreKept, SeatsInv
<1> QED
  BY <1>1, Inductive, PTL

(* A stored session disappears in one step of two kinds: somebody logged     *)
(* out, or a tab that was booting held a token that had expired or was from  *)
(* before the seats.                                                         *)
LEMMA DropsAreRejections ==
  ASSUME SeatsInv, [NextSeats]_seatVars, storage.token # 0, storage'.token = 0
  PROVE  \/ left'
         \/ \E t \in Tabs : /\ page[t] = "boot"
                            /\ token[t] \in expired \/ issued[token[t]].role \in OldRoles
<1>1. CASE \E t \in Tabs : Rejected(t)
  <2>1. PICK t \in Tabs : Rejected(t)
    BY <1>1
  <2>2. page[t] = "boot" /\ token[t] \in 1..Len(issued)
    BY <2>1, TabTypes DEF Rejected, TabsFit
  <2>3. issued[token[t]].role \in Roles \cup OldRoles
    BY <2>2, TokenFacts
  <2>4. PICK dbUp \in BOOLEAN : SessionRole(token[t], dbUp) = None
    BY <2>1 DEF Rejected
  <2>5. token[t] \in expired \/ issued[token[t]].role \notin Roles \/ issued[token[t]].role = None
    BY <2>2, <2>4 DEF SessionRole
  <2>6. issued[token[t]].role # None
    BY <2>3, NoneAssumption
  <2> QED
    BY <2>2, <2>3, <2>5, <2>6
<1>2. CASE \E t \in Tabs : Logout(t)
  BY <1>2 DEF Logout
<1>3. CASE storage' = storage
  BY <1>3
<1>4. CASE \E t \in Tabs : Find(t) \/ Save(t) \/ Create(t)
  <2>1. \/ storage' = storage
        \/ storage'.token = Len(issued) + 1
    <3>1. \A t, i, r, s : SignIn(t, i, r, s) =>
            storage' = storage \/ storage' = [token |-> Len(issued) + 1, role |-> s]
      BY DEF SignIn
    <3>2. \A t, step, user : Give(t, step, user) \/ RefuseSignIn(t) => storage' = storage
      BY DEF Give, RefuseSignIn
    <3>3. ASSUME NEW t \in Tabs, Find(t) \/ Save(t) \/ Create(t)
          PROVE  \/ storage' = storage
                 \/ \E s : storage' = [token |-> Len(issued) + 1, role |-> s]
      BY <3>1, <3>2, <3>3 DEF Find, Save, Create
    <3> QED
      BY <1>4, <3>3
  <2> QED
    BY <2>1, TabTypes
<1> QED
  BY <1>1, <1>2, <1>3, <1>4
     DEF NextSeats, seatVars, Register, LinkWallet, Connect, Load, Boot, Restored, Unreached, Expire

(* Whatever fails and is retried, no tab loses the session over a server it  *)
(* could not reach.                                                          *)
THEOREM SessionsAreKept == SpecSeats => OnlyRejectedTokensAreDropped
<1>1. SeatsInv /\ [NextSeats]_seatVars =>
        [storage.token # 0 /\ storage'.token = 0 =>
           \/ left'
           \/ \E t \in Tabs : /\ page[t] = "boot"
                              /\ token[t] \in expired \/ issued[token[t]].role \in OldRoles]_seatVars
  BY DropsAreRejections
<1> QED
  BY <1>1, Inductive, PTL DEF SpecSeats, OnlyRejectedTokensAreDropped

-----------------------------------------------------------------------------
(***************************************************************************)
(* Files, links and their records.                                         *)
(***************************************************************************)

(* Files go through every step, links only through the last ones; before its *)
(* request nothing of an upload is on record, and a record ends the request. *)
PhasesFit ==
  \A u \in Uploads :
    /\ screen[u] \in {"put", "complete"} \/ req[u] \in {"finalize", "get"} => u \in Files
    /\ screen[u] \in {"idle", "put", "complete"} => req[u] = "none"
    /\ rows[u] # "none" => req[u] \in {"ok", "error"}

(* What is recorded of a file, or is about to be: the declared content,      *)
(* which is where it can be served from.                                     *)
Real(u, content) ==
  /\ content = "declared"
  /\ placed[u] = "s3" => bucket[u] = "declared"
  /\ restarts = 0 => Downloadable(u)

(* A pending upload is one of the running process, and has its bytes by the  *)
(* time the API asks for them; what a request has seen of them is still so.  *)
FilesFit ==
  \A u \in Files :
    /\ u \in pending => placed[u] = store
    /\ u \in pending /\ store = "local" /\ (screen[u] = "complete" \/ req[u] = "finalize")
         => received[u] # "none"
    /\ req[u] = "get" => store = "s3" /\ bucket[u] = "declared"
    /\ req[u] \in {"find", "save"} => Real(u, hashed[u])
    /\ rows[u] # "none" => Real(u, rows[u])

LinksFit == \A u \in Links : req[u] \in {"find", "save"} => hashed[u] = "link"

(* Nobody has read a list that differs from the one there is without its     *)
(* version saying so.                                                        *)
SeenFit == \A u \in OrderFiles : seen[u].version = version => seen[u].docs = docs

(* A request that was made while the case was open, or found it so.          *)
TimelyFit ==
  \A u \in Uploads \ OrderFiles :
    (req[u] # "none" /\ case = "open") \/ req[u] = "save" \/ rows[u] # "none" => u \in timely

(* What is told of was recorded before.                                      *)
ToldFit ==
  \A u \in Uploads :
    req[u] = "ok" \/ screen[u] = "ok" \/ note[u] # "none" =>
      rows[u] # "none" /\ (u \in OrderFiles => u \in docs)

UploadsInv ==
  TypeOK /\ PhasesFit /\ FilesFit /\ LinksFit /\ SeenFit /\ TimelyFit /\ ToldFit

-----------------------------------------------------------------------------
LEMMA UploadKinds == /\ Files \subseteq Uploads /\ OrderFiles \subseteq Files
                     /\ Links \subseteq Uploads /\ Links \cap Files = {}
                     /\ CaseFiles \cup Links = Uploads \ OrderFiles
BY KindsAssumption DEF Files, Uploads

LEMMA InitUploads == Init => UploadsInv
<1> SUFFICES ASSUME Init PROVE UploadsInv
  OBVIOUS
<1>1. TypeOK
  BY BoundsAssumption DEF Init, TypeOK
<1>2. PhasesFit /\ FilesFit /\ LinksFit /\ SeenFit /\ TimelyFit /\ ToldFit
  BY UploadKinds DEF Init, PhasesFit, FilesFit, LinksFit, SeenFit, TimelyFit, ToldFit
<1> QED
  BY <1>1, <1>2 DEF UploadsInv

(* A step of a screen alone, on its way to an error or to the answer.        *)
LEMMA ScreenMoves ==
  ASSUME UploadsInv, NEW u \in Uploads,
         UNCHANGED <<storeVars, placed, req, hashed, seen, recordVars, timely, note, worldVars>>,
         \/ Show(u, "failed")
         \/ req[u] = "ok" /\ Show(u, "ok")
  PROVE  UploadsInv'
<1>1. UNCHANGED <<store, pending, received, stored, bucket, placed, req, hashed, seen,
                  rows, docs, version, timely, note, order, case, restarts>>
  BY DEF storeVars, recordVars, worldVars
<1>2. /\ screen \in [Uploads -> {"idle", "put", "complete", "waiting", "ok", "failed"}]
      /\ screen' \in [Uploads -> {"idle", "put", "complete", "waiting", "ok", "failed"}]
      /\ \A w \in Uploads : \/ screen'[w] = screen[w]
                            \/ screen'[w] = "failed"
                            \/ screen'[w] = "ok" /\ req[w] = "ok"
  BY DEF UploadsInv, TypeOK, Show
<1>3. TypeOK'
  BY <1>1, <1>2 DEF UploadsInv, TypeOK
<1>4. PhasesFit'
  BY <1>1, <1>2 DEF UploadsInv, PhasesFit
<1>5. FilesFit' /\ LinksFit'
  BY <1>1, <1>2, UploadKinds DEF UploadsInv, FilesFit, LinksFit, Real, Downloadable
<1>6. SeenFit' /\ TimelyFit'
  BY <1>1 DEF UploadsInv, SeenFit, TimelyFit
<1>7. ToldFit'
  BY <1>1, <1>2 DEF UploadsInv, ToldFit
<1> QED
  BY <1>3, <1>4, <1>5, <1>6, <1>7 DEF UploadsInv

(* Allocating puts nothing on record, and what was pending stays.            *)
LEMMA AllocateKeeps == ASSUME UploadsInv, NEW u \in Uploads, Allocate(u) PROVE UploadsInv'
<1>1. /\ u \in Files /\ screen[u] = "idle" /\ pending' = pending \cup {u}
      /\ placed' = [placed EXCEPT ![u] = store]
      /\ screen' = [screen EXCEPT ![u] = "put"] \/ screen' = [screen EXCEPT ![u] = "failed"]
      /\ UNCHANGED <<store, received, stored, bucket, req, hashed, seen, rows, docs, version,
                     timely, note, order, case, restarts>>
  BY DEF Allocate, MayStart, Show, recordVars, worldVars
<1>2. req[u] = "none" /\ rows[u] = "none"
  BY <1>1 DEF UploadsInv, PhasesFit
<1>3. TypeOK'
  BY <1>1 DEF UploadsInv, TypeOK
<1>4. PhasesFit'
  BY <1>1, <1>2 DEF UploadsInv, TypeOK, PhasesFit
<1>5. FilesFit' /\ LinksFit'
  BY <1>1, <1>2, UploadKinds DEF UploadsInv, TypeOK, FilesFit, LinksFit, Real, Downloadable
<1>6. SeenFit' /\ TimelyFit' /\ ToldFit'
  BY <1>1 DEF UploadsInv, TypeOK, SeenFit, TimelyFit, ToldFit
<1> QED
  BY <1>3, <1>4, <1>5, <1>6 DEF UploadsInv

LEMMA PutKeeps == ASSUME UploadsInv, NEW u \in Uploads, Put(u) PROVE UploadsInv'
<1>1. /\ screen[u] = "put"
      /\ \E c \in Content :
           \/ /\ placed[u] = "local"
              /\ received' = [received EXCEPT ![u] = c] /\ bucket' = bucket
           \/ /\ placed[u] # "local"
              /\ bucket' = [bucket EXCEPT ![u] = c] /\ received' = received
      /\ screen' = [screen EXCEPT ![u] = "complete"] \/ screen' = [screen EXCEPT ![u] = "failed"]
      /\ UNCHANGED <<store, pending, stored, placed, req, hashed, seen, rows, docs, version,
                     timely, note, order, case, restarts>>
  BY DEF Put, Show, recordVars, worldVars
<1>2. req[u] = "none" /\ rows[u] = "none" /\ u \in Files
  BY <1>1 DEF UploadsInv, PhasesFit
<1>3. TypeOK'
  BY <1>1 DEF UploadsInv, TypeOK
<1>4. PhasesFit'
  BY <1>1, <1>2 DEF UploadsInv, TypeOK, PhasesFit
<1>5. \A w \in Files \ {u} : bucket'[w] = bucket[w] /\ received'[w] = received[w]
  BY <1>1 DEF UploadsInv, TypeOK
<1>6. u \in pending /\ store = "local" => received'[u] # "none"
  BY <1>1, <1>2 DEF UploadsInv, TypeOK, FilesFit, Content
<1>7. FilesFit' /\ LinksFit'
  BY <1>1, <1>2, <1>5, <1>6, UploadKinds DEF UploadsInv, TypeOK, FilesFit, LinksFit, Real, Downloadable
<1>8. SeenFit' /\ TimelyFit' /\ ToldFit'
  BY <1>1 DEF UploadsInv, TypeOK, SeenFit, TimelyFit, ToldFit
<1> QED
  BY <1>3, <1>4, <1>7, <1>8 DEF UploadsInv

(* The request is made: once per upload.                                     *)
LEMMA AskKeeps ==
  ASSUME UploadsInv, NEW u \in Uploads, NEW step \in {"finalize", "find"}, Ask(u, step),
         \/ step = "finalize" /\ screen[u] = "complete" /\ hashed' = hashed
         \/ /\ step = "find" /\ screen[u] = "idle" /\ u \in Links
            /\ hashed' = [hashed EXCEPT ![u] = "link"]
  PROVE  UploadsInv'
<1>1. /\ screen' = [screen EXCEPT ![u] = "waiting"] /\ req' = [req EXCEPT ![u] = step]
      /\ timely' = IF case = "open" THEN timely \cup {u} ELSE timely
      /\ UNCHANGED <<store, pending, received, stored, bucket, placed, seen, rows, docs, version,
                     note, order, case, restarts>>
  BY DEF Ask, Show, Reach, storeVars, recordVars, worldVars
<1>2. req[u] = "none" /\ rows[u] = "none" /\ (step = "finalize" => u \in Files)
  BY DEF UploadsInv, PhasesFit
<1>3. TypeOK'
  BY <1>1 DEF UploadsInv, TypeOK, Recorded
<1>4. PhasesFit'
  BY <1>1, <1>2, UploadKinds DEF UploadsInv, TypeOK, PhasesFit
<1>5. \A w \in Files : hashed'[w] = hashed[w] /\ (w = u => step = "finalize" /\ screen[u] = "complete")
  BY UploadKinds DEF UploadsInv, TypeOK
<1>6. FilesFit'
  BY <1>1, <1>2, <1>5, UploadKinds DEF UploadsInv, TypeOK, FilesFit, Real, Downloadable
<1>7. LinksFit'
  BY <1>1, <1>2, UploadKinds DEF UploadsInv, TypeOK, LinksFit
<1>8. SeenFit' /\ TimelyFit' /\ ToldFit'
  BY <1>1, <1>2 DEF UploadsInv, TypeOK, SeenFit, TimelyFit, ToldFit
<1> QED
  BY <1>3, <1>4, <1>6, <1>7, <1>8 DEF UploadsInv

-----------------------------------------------------------------------------
(* The API.                                                                  *)

(* A request that ends in an error leaves what is on record.                 *)
LEMMA ErrorKeeps ==
  ASSUME UploadsInv, NEW u \in Uploads, req[u] \notin {"none", "ok"}, req' = [req EXCEPT ![u] = "error"],
         pending' \subseteq pending, rows[u] # "none" => bucket'[u] = bucket[u],
         bucket' \in [Files -> Content \cup {"none"}],
         \A w \in Files \ {u} : bucket'[w] = bucket[w] /\ received'[w] = received[w],
         received' \in [Files -> Content \cup {"none"}],
         UNCHANGED <<store, stored, placed, screen, hashed, seen, rows, docs, version, timely,
                     note, order, case, restarts>>
  PROVE  UploadsInv'
<1>1. TypeOK'
  BY DEF UploadsInv, TypeOK
<1>2. PhasesFit'
  BY DEF UploadsInv, TypeOK, PhasesFit
<1>3. /\ \A w \in Uploads : w # u => req'[w] = req[w]
      /\ req'[u] = "error" /\ screen[u] # "complete"
  BY DEF UploadsInv, TypeOK, PhasesFit
<1>4. FilesFit'
  BY <1>3, UploadKinds DEF UploadsInv, TypeOK, FilesFit, Real, Downloadable
<1>5. LinksFit' /\ SeenFit' /\ TimelyFit' /\ ToldFit'
  BY <1>3, UploadKinds DEF UploadsInv, LinksFit, SeenFit, TimelyFit, ToldFit
<1> QED
  BY <1>1, <1>2, <1>4, <1>5 DEF UploadsInv

LEMMA FinalizeLocalKeeps == ASSUME UploadsInv, NEW u \in Uploads, FinalizeLocal(u) PROVE UploadsInv'
<1>1. /\ req[u] = "finalize" /\ store = "local" /\ pending' = pending \ {u}
      /\ received' = IF u \in pending THEN [received EXCEPT ![u] = "none"] ELSE received
      /\ UNCHANGED <<store, bucket, placed, screen, seen, rows, docs, version, timely, note,
                     order, case, restarts>>
      /\ u \in Files /\ rows[u] = "none" /\ screen[u] \notin {"idle", "put", "complete"}
  BY DEF FinalizeLocal, recordVars, worldVars, UploadsInv, PhasesFit
<1>2. CASE /\ req' = [req EXCEPT ![u] = "error"]
           /\ UNCHANGED <<hashed, stored>>
  <2>1. received' \in [Files -> Content \cup {"none"}] /\ bucket \in [Files -> Content \cup {"none"}]
    BY <1>1 DEF UploadsInv, TypeOK
  <2>2. \A w \in Files \ {u} : received'[w] = received[w]
    BY <1>1 DEF UploadsInv, TypeOK
  <2> QED
    BY <1>1, <1>2, <2>1, <2>2, ErrorKeeps
<1>3. CASE /\ u \in pending /\ received[u] # "grown"
           /\ hashed' = [hashed EXCEPT ![u] = IF received[u] = "none" THEN "metadata" ELSE received[u]]
           /\ stored' = [stored EXCEPT ![u] = hashed'[u]]
           /\ req' = [req EXCEPT ![u] = "find"]
  <2>1. received[u] = "declared" /\ placed[u] = "local"
    BY <1>1, <1>3 DEF UploadsInv, TypeOK, FilesFit, Content
  <2>2. /\ hashed' = [hashed EXCEPT ![u] = "declared"] /\ hashed'[u] = "declared"
        /\ stored' = [stored EXCEPT ![u] = "declared"] /\ stored'[u] = "declared"
    BY <1>1, <1>3, <2>1 DEF UploadsInv, TypeOK
  <2>3. TypeOK'
    BY <1>1, <1>3, <2>2 DEF UploadsInv, TypeOK, Recorded
  <2>4. PhasesFit'
    BY <1>1, <1>3 DEF UploadsInv, TypeOK, PhasesFit
  <2>5. \A w \in Uploads \ {u} : /\ req'[w] = req[w] /\ hashed'[w] = hashed[w]
                                 /\ w \in Files => /\ stored'[w] = stored[w]
                                                   /\ received'[w] = received[w]
    BY <1>1, <1>3, <2>2 DEF UploadsInv, TypeOK
  <2>6. FilesFit'
    BY <1>1, <1>3, <2>1, <2>2, <2>5, UploadKinds DEF UploadsInv, TypeOK, FilesFit, Real, Downloadable
  <2>7. LinksFit' /\ SeenFit' /\ TimelyFit' /\ ToldFit'
    BY <1>1, <1>3, <2>5, UploadKinds DEF UploadsInv, TypeOK, LinksFit, SeenFit, TimelyFit, ToldFit
  <2> QED
    BY <2>3, <2>4, <2>6, <2>7 DEF UploadsInv
<1> QED
  BY <1>2, <1>3 DEF FinalizeLocal, Refuse, Reach

LEMMA HeadObjectKeeps == ASSUME UploadsInv, NEW u \in Uploads, HeadObject(u) PROVE UploadsInv'
<1>1. /\ req[u] = "finalize" /\ store = "s3"
      /\ UNCHANGED <<store, received, stored, placed, screen, hashed, seen, rows, docs, version,
                     timely, note, order, case, restarts>>
      /\ u \in Files /\ rows[u] = "none" /\ screen[u] \notin {"idle", "put", "complete"}
  BY DEF HeadObject, recordVars, worldVars, UploadsInv, PhasesFit
<1>2. CASE /\ req' = [req EXCEPT ![u] = "error"] /\ pending' \subseteq pending
           /\ bucket' = [bucket EXCEPT ![u] = "none"] \/ bucket' = bucket
  <2>1. bucket' \in [Files -> Content \cup {"none"}] /\ received \in [Files -> Content \cup {"none"}]
    BY <1>1, <1>2 DEF UploadsInv, TypeOK
  <2>2. \A w \in Files \ {u} : bucket'[w] = bucket[w]
    BY <1>1, <1>2 DEF UploadsInv, TypeOK
  <2> QED
    BY <1>1, <1>2, <2>1, <2>2, ErrorKeeps
<1>3. CASE /\ bucket[u] = "declared" /\ req' = [req EXCEPT ![u] = "get"]
           /\ UNCHANGED <<pending, bucket>>
  <2>1. TypeOK' /\ PhasesFit'
    BY <1>1, <1>3 DEF UploadsInv, TypeOK, PhasesFit
  <2>2. FilesFit'
    BY <1>1, <1>3, UploadKinds DEF UploadsInv, TypeOK, FilesFit, Real, Downloadable
  <2>3. LinksFit' /\ SeenFit' /\ TimelyFit' /\ ToldFit'
    BY <1>1, <1>3, UploadKinds DEF UploadsInv, TypeOK, LinksFit, SeenFit, TimelyFit, ToldFit
  <2> QED
    BY <2>1, <2>2, <2>3 DEF UploadsInv
<1> QED
  BY <1>2, <1>3 DEF HeadObject, Reach

LEMMA GetKeeps == ASSUME UploadsInv, NEW u \in Uploads, Get(u) PROVE UploadsInv'
<1>1. /\ req[u] = "get" /\ hashed' = [hashed EXCEPT ![u] = bucket[u]] /\ pending' = pending \ {u}
      /\ req' = [req EXCEPT ![u] = "find"]
      /\ UNCHANGED <<store, received, stored, bucket, placed, screen, seen, rows, docs, version,
                     timely, note, order, case, restarts>>
      /\ u \in Files /\ rows[u] = "none" /\ screen[u] \notin {"idle", "put", "complete"}
  BY DEF Get, Reach, recordVars, worldVars, UploadsInv, PhasesFit
<1>2. store = "s3" /\ bucket[u] = "declared" /\ hashed'[u] = "declared"
  BY <1>1 DEF UploadsInv, TypeOK, FilesFit
<1>3. TypeOK'
  BY <1>1, <1>2 DEF UploadsInv, TypeOK, Recorded
<1>4. PhasesFit'
  BY <1>1 DEF UploadsInv, TypeOK, PhasesFit
<1>5. \A w \in Uploads \ {u} : req'[w] = req[w] /\ hashed'[w] = hashed[w]
  BY <1>1 DEF UploadsInv, TypeOK
<1>6. FilesFit'
  BY <1>1, <1>2, <1>5, UploadKinds DEF UploadsInv, TypeOK, FilesFit, Real, Downloadable
<1>7. LinksFit' /\ SeenFit' /\ TimelyFit' /\ ToldFit'
  BY <1>1, <1>5, UploadKinds DEF UploadsInv, TypeOK, LinksFit, SeenFit, TimelyFit, ToldFit
<1> QED
  BY <1>3, <1>4, <1>6, <1>7 DEF UploadsInv

LEMMA CallFailsKeeps == ASSUME UploadsInv, NEW u \in Uploads, CallFails(u) PROVE UploadsInv'
BY ErrorKeeps DEF CallFails, Reach, storeVars, recordVars, worldVars, UploadsInv, TypeOK

(* What was found is saved only to a case that was open or an order that is  *)
(* there.                                                                    *)
LEMMA FindCaseKeeps == ASSUME UploadsInv, NEW u \in Uploads, FindCase(u) PROVE UploadsInv'
<1>1. /\ req[u] = "find" /\ u \notin OrderFiles
      /\ UNCHANGED <<store, pending, received, stored, bucket, placed, screen, hashed, seen, rows,
                     docs, version, timely, note, order, case, restarts>>
      /\ rows[u] = "none" /\ screen[u] \notin {"idle", "put", "complete"}
  BY DEF FindCase, storeVars, recordVars, worldVars, UploadsInv, PhasesFit
<1>2. CASE req' = [req EXCEPT ![u] = "error"]
  BY <1>1, <1>2, ErrorKeeps DEF UploadsInv, TypeOK
<1>3. CASE case # "closed" /\ req' = [req EXCEPT ![u] = "save"]
  <2>1. TypeOK' /\ PhasesFit' /\ case = "open"
    BY <1>1, <1>3 DEF UploadsInv, TypeOK, PhasesFit
  <2>2. FilesFit'
    BY <1>1, <1>3, UploadKinds DEF UploadsInv, TypeOK, FilesFit, Real, Downloadable
  <2>3. LinksFit' /\ SeenFit' /\ TimelyFit' /\ ToldFit'
    BY <1>1, <1>3, <2>1, UploadKinds DEF UploadsInv, TypeOK, LinksFit, SeenFit, TimelyFit, ToldFit
  <2> QED
    BY <2>1, <2>2, <2>3 DEF UploadsInv
<1> QED
  BY <1>2, <1>3 DEF FindCase, Reach

LEMMA FindOrderKeeps == ASSUME UploadsInv, NEW u \in Uploads, FindOrder(u) PROVE UploadsInv'
<1>1. /\ req[u] = "find" /\ u \in OrderFiles
      /\ UNCHANGED <<store, pending, received, stored, bucket, placed, screen, hashed, rows,
                     docs, version, timely, note, order, case, restarts>>
      /\ rows[u] = "none" /\ screen[u] \notin {"idle", "put", "complete"}
  BY DEF FindOrder, storeVars, recordVars, worldVars, UploadsInv, PhasesFit
<1>2. CASE req' = [req EXCEPT ![u] = "error"] /\ seen' = seen
  BY <1>1, <1>2, ErrorKeeps DEF UploadsInv, TypeOK
<1>3. CASE /\ req' = [req EXCEPT ![u] = "save"]
           /\ seen' = [seen EXCEPT ![u] = [docs |-> docs, version |-> version]]
  <2>1. seen' \in [OrderFiles -> [docs : SUBSET OrderFiles, version : 0..version]]
    BY <1>1, <1>3 DEF UploadsInv, TypeOK
  <2>2. TypeOK' /\ PhasesFit'
    BY <1>1, <1>3, <2>1 DEF UploadsInv, TypeOK, PhasesFit
  <2>3. FilesFit'
    BY <1>1, <1>3, UploadKinds DEF UploadsInv, TypeOK, FilesFit, Real, Downloadable
  <2>4. SeenFit'
    BY <1>1, <1>3 DEF UploadsInv, TypeOK, SeenFit
  <2>5. LinksFit' /\ TimelyFit' /\ ToldFit'
    BY <1>1, <1>3, UploadKinds DEF UploadsInv, TypeOK, LinksFit, TimelyFit, ToldFit
  <2> QED
    BY <2>2, <2>3, <2>4, <2>5 DEF UploadsInv
<1> QED
  BY <1>2, <1>3 DEF FindOrder, Reach

(* A row is written with what was hashed; it is of an open case, or in the   *)
(* list of the order.                                                        *)
LEMMA RowKeeps ==
  ASSUME UploadsInv, NEW u \in Uploads, req[u] = "save",
         rows' = [rows EXCEPT ![u] = hashed[u]], note' = [note EXCEPT ![u] = "running"],
         req' = [req EXCEPT ![u] = "ok"],
         docs \subseteq docs', docs' \in SUBSET OrderFiles, u \in OrderFiles => u \in docs',
         \/ docs' = docs /\ version' = version
         \/ version' = version + 1,
         UNCHANGED <<store, pending, received, stored, bucket, placed, screen, hashed, seen,
                     timely, order, case, restarts>>
  PROVE  UploadsInv'
<1>1. rows[u] = "none" /\ screen[u] \notin {"idle", "put", "complete"} /\ hashed[u] \in {"declared", "link"}
  BY UploadKinds DEF UploadsInv, PhasesFit, FilesFit, LinksFit, Real, Uploads
<1>2. version' \in Nat /\ version <= version' /\ version \in Nat
  BY DEF UploadsInv, TypeOK
<1>3. seen \in [OrderFiles -> [docs : SUBSET OrderFiles, version : 0..version']]
  <2>1. seen \in [OrderFiles -> [docs : SUBSET OrderFiles, version : 0..version]]
    BY DEF UploadsInv, TypeOK
  <2>2. 0..version \subseteq 0..version'
    BY <1>2
  <2> QED
    BY <2>1, <2>2
<1>4. TypeOK'
  BY <1>1, <1>2, <1>3 DEF UploadsInv, TypeOK, Recorded
<1>5. PhasesFit'
  BY <1>1 DEF UploadsInv, TypeOK, PhasesFit
<1>6. /\ \A w \in Uploads \ {u} : req'[w] = req[w] /\ rows'[w] = rows[w] /\ note'[w] = note[w]
      /\ rows'[u] = hashed[u] /\ req'[u] = "ok"
  BY DEF UploadsInv, TypeOK
<1>7. FilesFit'
  BY <1>1, <1>6, UploadKinds DEF UploadsInv, TypeOK, FilesFit, Real, Downloadable
<1>8. SeenFit'
  BY <1>2 DEF UploadsInv, TypeOK, SeenFit
<1>9. LinksFit' /\ TimelyFit'
  BY <1>6, UploadKinds DEF UploadsInv, LinksFit, TimelyFit
<1>10. ToldFit'
  BY <1>1, <1>6 DEF UploadsInv, ToldFit
<1> QED
  BY <1>4, <1>5, <1>7, <1>8, <1>9, <1>10 DEF UploadsInv

LEMMA CreateEvidenceKeeps == ASSUME UploadsInv, NEW u \in Uploads, CreateEvidence(u) PROVE UploadsInv'
BY RowKeeps DEF CreateEvidence, Reach, storeVars, worldVars, UploadsInv, TypeOK

LEMMA SaveOrderKeeps == ASSUME UploadsInv, NEW u \in Uploads, SaveOrder(u) PROVE UploadsInv'
<1>1. /\ req[u] = "save" /\ u \in OrderFiles
      /\ UNCHANGED <<store, pending, received, stored, bucket, placed, screen, hashed, seen,
                     timely, order, case, restarts>>
  BY DEF SaveOrder, storeVars, worldVars
<1>2. CASE req' = [req EXCEPT ![u] = "error"] /\ UNCHANGED <<rows, docs, version, note>>
  BY <1>1, <1>2, ErrorKeeps DEF UploadsInv, TypeOK
<1>3. CASE /\ seen[u].version = version
           /\ docs' = seen[u].docs \cup {u} /\ version' = version + 1
           /\ rows' = [rows EXCEPT ![u] = hashed[u]]
           /\ note' = [note EXCEPT ![u] = "running"]
           /\ req' = [req EXCEPT ![u] = "ok"]
  <2>1. seen[u].docs = docs /\ docs \in SUBSET OrderFiles
    BY <1>1, <1>3 DEF UploadsInv, TypeOK, SeenFit
  <2> QED
    BY <1>1, <1>3, <2>1, RowKeeps
<1> QED
  BY <1>2, <1>3 DEF SaveOrder, Reach, recordVars

-----------------------------------------------------------------------------
(* The agent, the others and the process.                                    *)

LEMMA SummarizeKeeps == ASSUME UploadsInv, NEW u \in Uploads, Summarize(u) PROVE UploadsInv'
<1>1. /\ note[u] = "running"
      /\ note' = [note EXCEPT ![u] = "written"] \/ note' = [note EXCEPT ![u] = "degraded"]
      /\ UNCHANGED <<store, pending, received, stored, bucket, placed, screen, req, hashed, seen,
                     rows, docs, version, timely, order, case, restarts>>
  BY DEF Summarize, storeVars, recordVars, worldVars
<1>2. TypeOK'
  BY <1>1 DEF UploadsInv, TypeOK
<1>3. ToldFit'
  BY <1>1 DEF UploadsInv, TypeOK, ToldFit
<1>4. PhasesFit' /\ FilesFit' /\ LinksFit' /\ SeenFit' /\ TimelyFit'
  BY <1>1 DEF UploadsInv, PhasesFit, FilesFit, LinksFit, SeenFit, TimelyFit, Real, Downloadable
<1> QED
  BY <1>2, <1>3, <1>4 DEF UploadsInv

LEMMA WorldKeeps ==
  ASSUME UploadsInv,
         UNCHANGED <<storeVars, placed, screen, req, hashed, seen, recordVars, timely, note, restarts>>,
         order' \in BOOLEAN, case' \in {case, "closed"}
  PROVE  UploadsInv'
<1>1. UNCHANGED <<store, pending, received, stored, bucket, placed, screen, req, hashed, seen,
                  rows, docs, version, timely, note, restarts>>
  BY DEF storeVars, recordVars
<1>2. TypeOK'
  BY <1>1 DEF UploadsInv, TypeOK
<1>3. PhasesFit' /\ FilesFit' /\ LinksFit' /\ SeenFit' /\ ToldFit'
  BY <1>1 DEF UploadsInv, PhasesFit, FilesFit, LinksFit, SeenFit, ToldFit, Real, Downloadable
<1>4. TimelyFit'
  BY <1>1 DEF UploadsInv, TimelyFit
<1> QED
  BY <1>2, <1>3, <1>4 DEF UploadsInv

(* A restart forgets what was pending and ends every request that runs.      *)
LEMMA RestartKeeps == ASSUME UploadsInv, Restart PROVE UploadsInv'
<1>1. /\ restarts < MaxRestarts /\ restarts' = restarts + 1 /\ store' \in Stores /\ pending' = {}
      /\ received' = [u \in Files |-> "none"] /\ stored' = [u \in Files |-> "none"]
      /\ req' = [u \in Uploads |-> IF req[u] = "none" THEN "none" ELSE "error"]
      /\ note' = [u \in Uploads |-> IF note[u] = "running" THEN "none" ELSE note[u]]
      /\ UNCHANGED <<bucket, placed, screen, hashed, seen, rows, docs, version, timely, order, case>>
  BY DEF Restart, recordVars
<1>2. /\ TypeOK /\ restarts' \in 0..MaxRestarts /\ restarts' # 0
  BY <1>1, BoundsAssumption DEF UploadsInv, TypeOK
<1>3. TypeOK'
  BY <1>1, <1>2 DEF TypeOK
<1>4. /\ \A u \in Uploads : req'[u] = IF req[u] = "none" THEN "none" ELSE "error"
      /\ \A u \in Uploads : note'[u] # "none" => note[u] # "none"
  BY <1>1
<1>5. PhasesFit'
  BY <1>1, <1>4 DEF UploadsInv, PhasesFit
<1>6. FilesFit'
  BY <1>1, <1>2, <1>4, UploadKinds DEF UploadsInv, FilesFit, Real
<1>7. LinksFit' /\ SeenFit' /\ TimelyFit' /\ ToldFit'
  BY <1>1, <1>4, UploadKinds DEF UploadsInv, LinksFit, SeenFit, TimelyFit, ToldFit
<1> QED
  BY <1>3, <1>5, <1>6, <1>7 DEF UploadsInv

-----------------------------------------------------------------------------
LEMMA ScreenKeeps ==
  ASSUME UploadsInv, NEW u \in Uploads, Screen(u) \/ PutFails(u) \/ ConnectionBreaks(u)
  PROVE  UploadsInv'
<1>1. CASE Complete(u)
  BY <1>1, AskKeeps DEF Complete
<1>2. CASE SendLink(u)
  BY <1>2, AskKeeps DEF SendLink, MayStart
<1>3. CASE Answer(u) \/ PutFails(u) \/ ConnectionBreaks(u)
  BY <1>3, ScreenMoves DEF Answer, PutFails, ConnectionBreaks
<1> QED
  BY <1>1, <1>2, <1>3, AllocateKeeps, PutKeeps DEF Screen

LEMMA UploadStep == UploadsInv /\ [Next]_vars => UploadsInv'
<1> SUFFICES ASSUME UploadsInv, [Next]_vars PROVE UploadsInv'
  OBVIOUS
<1>1. CASE \E u \in Uploads : Screen(u) \/ PutFails(u) \/ ConnectionBreaks(u)
  BY <1>1, ScreenKeeps
<1>2. CASE \E u \in Uploads : Api(u) \/ CallFails(u) \/ Summarize(u)
  BY <1>2, FinalizeLocalKeeps, HeadObjectKeeps, GetKeeps, FindCaseKeeps, CreateEvidenceKeeps,
     FindOrderKeeps, SaveOrderKeeps, CallFailsKeeps, SummarizeKeeps DEF Api
<1>3. CASE SaveMetadata \/ CloseCase \/ UNCHANGED vars
  BY <1>3, WorldKeeps DEF SaveMetadata, CloseCase, vars, worldVars, UploadsInv, TypeOK
<1>4. CASE Restart
  BY <1>4, RestartKeeps
<1> QED
  BY <1>1, <1>2, <1>3, <1>4 DEF Next

LEMMA UploadsInductive == Spec => []UploadsInv
BY InitUploads, UploadStep, PTL DEF Spec

(* The stores, the requests and the records keep their types.                *)
THEOREM UploadsTypeCorrect == Spec => []TypeOK
<1>1. UploadsInv => TypeOK
  BY DEF UploadsInv
<1> QED
  BY <1>1, UploadsInductive, PTL

(* Through restarts, changes of store, lost answers and overlapping saves:   *)
(* a recorded file is the one that was declared and can be served, whoever   *)
(* is told of a record finds it, and no evidence sent after the close is     *)
(* taken.                                                                    *)
THEOREM RecordsHonest == Spec => []RecordsAreHonest
<1>1. UploadsInv => RecordedFilesAreReal
  BY DEF UploadsInv, FilesFit, RecordedFilesAreReal, Real
<1>2. UploadsInv => ToldIsRecorded
  BY DEF UploadsInv, ToldFit, ToldIsRecorded
<1>3. UploadsInv => NoEvidenceAfterClose
  BY UploadKinds DEF UploadsInv, TimelyFit, NoEvidenceAfterClose
<1> QED
  BY <1>1, <1>2, <1>3, UploadsInductive, PTL DEF RecordsAreHonest

(* A save that read an older list is refused, since its version is older too. *)
LEMMA DocumentsGrow ==
  ASSUME UploadsInv, [Next]_vars
  PROVE  docs \subseteq docs' /\ version <= version'
<1>1. docs \in SUBSET OrderFiles /\ version \in Nat
  BY DEF UploadsInv, TypeOK
<1>2. CASE \E u \in Uploads : SaveOrder(u)
  <2>1. PICK u \in Uploads : SaveOrder(u)
    BY <1>2
  <2>2. seen[u].version = version => seen[u].docs = docs
    BY <2>1 DEF SaveOrder, UploadsInv, SeenFit
  <2> QED
    BY <1>1, <2>1, <2>2 DEF SaveOrder, recordVars
<1>3. CASE UNCHANGED <<docs, version>>
  BY <1>1, <1>3
<1> QED
  BY <1>2, <1>3
     DEF Next, vars, recordVars, Screen, Allocate, Put, Complete, SendLink, Ask, Answer, PutFails,
         ConnectionBreaks, Api, FinalizeLocal, HeadObject, Get, FindCase, CreateEvidence, FindOrder,
         CallFails, Summarize, SaveMetadata, CloseCase, Restart

(* Though every save writes the whole list and may have read it long before, *)
(* no document of a work order is ever lost from it.                         *)
THEOREM DocumentsStay == Spec => DocumentsKept
<1>1. UploadsInv /\ [Next]_vars => [docs \subseteq docs' /\ version <= version']_vars
  BY DocumentsGrow
<1> QED
  BY <1>1, UploadsInductive, PTL DEF Spec, DocumentsKept

=============================================================================
