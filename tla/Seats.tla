-------------------------------- MODULE Seats --------------------------------
(***************************************************************************)
(* Who one is: accounts and tokens (routes/auth.ts, middleware.ts), and    *)
(* the tabs of one browser, which share localStorage (App.tsx, Login.tsx,  *)
(* api.ts).                                                                *)
(*                                                                         *)
(* A wallet signs in to a seat: the first time an account is made for it,  *)
(* later the seat has to be the one it has.  Accounts from before the      *)
(* seats have none, and a role of a name no longer in use; so have the     *)
(* tokens issued to them.  Accounts can also be registered by email, with  *)
(* any role and no seat.  Whoever has a session can put any address on its *)
(* account.  An address is the same wallet however its letters are         *)
(* written, except to the index.                                           *)
(*                                                                         *)
(* A token carries the role it was issued for until it expires, and is     *)
(* known by its place in issued.  0 is no token.                           *)
(***************************************************************************)
EXTENDS Naturals, Sequences

CONSTANTS Wallets,      \* wallets that sign in
          Emails,       \* addresses that register
          Seats,        \* the seats they may ask for
          Tabs,         \* tabs of one browser
          None,
          Old,          \* accounts from before the seats, each with its wallet
          MaxTokens,    \* bound: tokens issued
          MaxRegister   \* bound: nobody registers once there are that many accounts

AllSeats == {"arbiter", "merchant", "customer", "platform"}
OldRoles == {"reviewer", "recipient"}

(* seatToBackendRole.                                                        *)
RoleOf(seat) == IF seat = "platform" THEN "platform_viewer" ELSE seat
Roles == {RoleOf(s) : s \in AllSeats}

(* userRoleToFrontend.                                                       *)
SeatOf(role) == CASE role = "platform_viewer" -> "platform"
                  [] role \in AllSeats        -> role
                  [] OTHER                    -> "customer"

Account == [email : Emails \cup Wallets \cup {None}, role : Roles \cup OldRoles,
            seat : AllSeats \cup {None}, wallet : Wallets \cup {None},
            letters : {"lower", "mixed"}, made : {"before", "email", "wallet"}]

ASSUME SeatsAssumption == Seats \subseteq AllSeats /\ Seats # {}
ASSUME NoneAssumption == None \notin Wallets \cup Emails \cup AllSeats \cup Roles \cup OldRoles
ASSUME SeatBoundsAssumption == MaxTokens \in Nat /\ MaxRegister \in Nat
ASSUME OldAssumption ==
  /\ Old \in Seq(Account)
  /\ \A i \in 1..Len(Old) : Old[i].made = "before" /\ Old[i].seat = None /\ Old[i].role \in OldRoles

VARIABLES
  accounts,  \* the users collection
  issued,    \* tokens: whose, with which role
  expired,   \* tokens that have expired
  storage,   \* localStorage: finne-token and finne-frontend-role
  page,      \* what a tab shows
  token,     \* authToken of a tab
  role,      \* frontendRole of a tab
  tries,     \* restore attempts that failed
  call,      \* the sign-in a tab waits for: what the handler does next
  left,      \* whether somebody pressed logout since the token was stored
  crossed,   \* tabs that boot while another tab changes what is stored
  raced      \* accounts to which two sign-ins give a seat at the same time

serverVars == <<accounts, issued, expired>>
tabVars == <<page, token, role, tries>>
seatVars == <<serverVars, storage, tabVars, call, left, crossed, raced>>

Idle == [step |-> "none", seat |-> None, wallet |-> None, user |-> 0]
Calls == [step : {"none", "find", "save", "create"}, seat : AllSeats \cup {None},
          wallet : Wallets \cup {None}, user : 0..Len(accounts)]

SeatsTypeOK ==
  /\ accounts \in Seq(Account)
  /\ issued \in Seq([user : 1..Len(accounts), role : Roles \cup OldRoles])
  /\ expired \in SUBSET (1..Len(issued))
  /\ storage \in [token : 0..Len(issued), role : AllSeats \cup OldRoles \cup {None}]
  /\ page \in [Tabs -> {"boot", "login", "app", "unreachable"}]
  /\ token \in [Tabs -> 0..Len(issued)]
  /\ role \in [Tabs -> AllSeats \cup {None}]
  /\ tries \in [Tabs -> 0..1]
  /\ call \in [Tabs -> Calls]
  /\ left \in BOOLEAN
  /\ crossed \in SUBSET Tabs
  /\ raced \in SUBSET (1..Len(accounts))

(* The old accounts are there, and the browser may have the token of one.    *)
InitSeats ==
  /\ accounts \in {Old, <<>>}
  /\ issued \in {<<>>} \cup { <<[user |-> i, role |-> accounts[i].role]>> :
                                i \in 1..Len(accounts) }
  /\ expired = {}
  /\ storage = [token |-> Len(issued), role |-> None]
  /\ page = [t \in Tabs |-> IF Len(issued) = 0 THEN "login" ELSE "boot"]
  /\ token = [t \in Tabs |-> Len(issued)]
  /\ role = [t \in Tabs |-> None]
  /\ tries = [t \in Tabs |-> 0]
  /\ call = [t \in Tabs |-> Idle]
  /\ left = FALSE
  /\ crossed = {}
  /\ raced = {}

-----------------------------------------------------------------------------
(* The API.                                                                  *)

EmailTaken(e) == \E i \in 1..Len(accounts) : accounts[i].email = e
Written(w, letters) ==
  \E i \in 1..Len(accounts) : accounts[i].wallet = w /\ accounts[i].letters = letters

(* POST /auth/register; the unique index decides between two of them.        *)
Register(e, r) ==
  /\ ~ EmailTaken(e) /\ Len(accounts) < MaxRegister
  /\ accounts' = Append(accounts, [email |-> e, role |-> r, seat |-> None, wallet |-> None,
                                   letters |-> "lower", made |-> "email"])
  /\ UNCHANGED <<issued, expired, storage, tabVars, call, left, crossed, raced>>

(* resolveSession: the role a request has with a token, or None.  A role of  *)
(* an old name is looked up again, if the database answers.                  *)
SessionRole(n, dbUp) ==
  LET user == accounts[issued[n].user]
  IN  IF n = 0 \/ n \in expired THEN None
      ELSE IF issued[n].role \in Roles THEN issued[n].role
      ELSE IF ~ dbUp THEN None
      ELSE IF user.role \in Roles THEN user.role
      ELSE IF user.seat # None THEN RoleOf(user.seat)
      ELSE None

(* Who registered by email can log in at any time, anybody else has a        *)
(* session by a token.                                                       *)
HasSession(i) ==
  \/ accounts[i].made = "email"
  \/ \E n \in 1..Len(issued) : issued[n].user = i /\ SessionRole(n, TRUE) # None

(* POST /auth/link-wallet, with the address as the wallet writes it, over    *)
(* whichever the account had.  The index refuses a second account only if    *)
(* the letters are the same.                                                 *)
LinkWallet(i, w, letters) ==
  /\ HasSession(i)
  /\ ~ Written(w, letters)
  /\ accounts' = [accounts EXCEPT ![i].wallet = w, ![i].letters = letters]
  /\ UNCHANGED <<issued, expired, storage, tabVars, call, left, crossed, raced>>

(* The permissions of the roles (rbac.ts).                                   *)
MATRIX ==
  [arbiter |-> {"workorder:read", "payout:read", "case:read", "case:respond",
                "case:request_info", "case:decide", "evidence:download", "brief:read",
                "demo:seed"},
   customer |-> {"workorder:create", "payout:create", "payout:read", "case:open", "case:read",
                 "case:respond", "case:add_evidence", "evidence:download", "brief:read"},
   merchant |-> {"workorder:read", "payout:read", "case:read", "case:respond",
                 "case:add_evidence", "evidence:download", "brief:read"},
   platform_viewer |-> {"workorder:read", "payout:read", "case:read", "brief:read"}]

(* requirePermission: 401 without a session, 403 without the permission.     *)
Answers(n, permission) ==
  LET r == SessionRole(n, TRUE)
  IN  IF r = None THEN 401 ELSE IF permission \in MATRIX[r] THEN 200 ELSE 403

-----------------------------------------------------------------------------
(* Signing in with a wallet.                                                 *)

(* connectAndSignIn sends the request.                                       *)
Connect(t, w, seat) ==
  /\ page[t] = "login" /\ call[t] = Idle
  /\ Len(issued) < MaxTokens
  /\ call' = [call EXCEPT ![t] = [step |-> "find", seat |-> seat, wallet |-> w, user |-> 0]]
  /\ UNCHANGED <<serverVars, storage, tabVars, left, crossed, raced>>

(* Tabs other than t that are about to restore what t replaces.              *)
Crossing(t) == crossed \cup {u \in Tabs \ {t} : page[u] = "boot"}

(* The answer: setToken and onLogin, or it is lost.                          *)
SignIn(t, i, r, seat) ==
  LET n == Len(issued) + 1
  IN  /\ Len(issued) < MaxTokens
      /\ issued' = Append(issued, [user |-> i, role |-> r])
      /\ call' = [call EXCEPT ![t] = Idle]
      /\ \/ /\ token' = [token EXCEPT ![t] = n]
            /\ role' = [role EXCEPT ![t] = seat]
            /\ storage' = [token |-> n, role |-> seat]
            /\ page' = [page EXCEPT ![t] = "app"]
            /\ left' = FALSE
            /\ crossed' = Crossing(t) \ {t}
         \/ UNCHANGED <<storage, token, role, page, left, crossed>>
      /\ UNCHANGED <<expired, tries, raced>>

(* The handler goes on; another one may be giving the same account a seat.   *)
Give(t, step, user) ==
  /\ call' = [call EXCEPT ![t].step = step, ![t].user = user]
  /\ raced' = raced \cup {i \in {user} : \E u \in Tabs \ {t} :
                                call[u].step = "save" /\ call[u].user = i}
  /\ UNCHANGED <<serverVars, storage, tabVars, left, crossed>>

RefuseSignIn(t) ==
  /\ call' = [call EXCEPT ![t] = Idle]
  /\ UNCHANGED <<serverVars, storage, tabVars, left, crossed, raced>>

(* A slip: the role is stamped from the seat asked for at every sign-in.     *)
Find_Slip(t) ==
  LET c == call[t]
      found == {i \in 1..Len(accounts) : accounts[i].wallet = c.wallet}
  IN  /\ c.step = "find"
      /\ IF found = {} THEN Give(t, "create", 0)
         ELSE \E i \in found :
                \/ accounts[i].seat = None /\ Give(t, "save", i)
                \/ /\ accounts[i].seat # None
                   /\ SignIn(t, i, RoleOf(c.seat), c.seat) /\ UNCHANGED accounts

(* POST /auth/wallet looks for the wallet, in any letters.                   *)
Find(t) ==
  LET c == call[t]
      found == {i \in 1..Len(accounts) : accounts[i].wallet = c.wallet}
  IN  /\ c.step = "find"
      /\ IF found = {} THEN Give(t, "create", 0)
         ELSE \E i \in found :
           LET a == accounts[i]
           IN  \/ a.seat \notin {None, c.seat} /\ RefuseSignIn(t)
               \/ a.seat = None /\ Give(t, "save", i)
               \/ a.seat = c.seat /\ a.role \in OldRoles /\ Give(t, "save", i)
               \/ /\ a.seat = c.seat /\ a.role \notin OldRoles
                  /\ SignIn(t, i, a.role, a.seat) /\ UNCHANGED accounts

(* A slip: the role is called what the seat is called.                       *)
Save_NameSlip(t) ==
  LET c == call[t]
  IN  /\ c.step = "save"
      /\ accounts' = [accounts EXCEPT ![c.user].seat = c.seat, ![c.user].role = c.seat]
      /\ SignIn(t, c.user, c.seat, c.seat)

(* The seat and the role of an old account, whoever gave it one meanwhile.   *)
Save(t) ==
  LET c == call[t]
  IN  /\ c.step = "save"
      /\ accounts' = [accounts EXCEPT ![c.user].seat = c.seat, ![c.user].role = RoleOf(c.seat)]
      /\ SignIn(t, c.user, RoleOf(c.seat), c.seat)

(* The account is made; a second one of two that did not find it is refused. *)
Create(t) ==
  LET c == call[t]
  IN  /\ c.step = "create"
      /\ IF EmailTaken(c.wallet) \/ Written(c.wallet, "lower")
         THEN RefuseSignIn(t)
         ELSE /\ accounts' = Append(accounts,
                   [email |-> c.wallet, role |-> RoleOf(c.seat), seat |-> c.seat,
                    wallet |-> c.wallet, letters |-> "lower", made |-> "wallet"])
              /\ SignIn(t, Len(accounts) + 1, RoleOf(c.seat), c.seat)

-----------------------------------------------------------------------------
(* Tabs.                                                                     *)

(* The page is loaded: api.ts takes the token from localStorage.             *)
Load(t) ==
  /\ page[t] # "boot" /\ call[t] = Idle
  /\ token' = [token EXCEPT ![t] = storage.token]
  /\ page' = [page EXCEPT ![t] = IF storage.token = 0 THEN "login" ELSE "boot"]
  /\ role' = [role EXCEPT ![t] = None]
  /\ tries' = [tries EXCEPT ![t] = 0]
  /\ crossed' = crossed \ {t}
  /\ UNCHANGED <<serverVars, storage, call, left, raced>>

(* restore: GET /auth/me answers, and the role is the one stored at sign-in, *)
(* or the account's.                                                         *)
Restored(t) ==
  LET user == accounts[issued[token[t]].user]
  IN  /\ page[t] = "boot" /\ SessionRole(token[t], TRUE) # None
      /\ page' = [page EXCEPT ![t] = "app"]
      /\ role' = [role EXCEPT ![t] = IF storage.role \in AllSeats THEN storage.role
                                     ELSE IF user.seat # None THEN user.seat
                                     ELSE SeatOf(user.role)]
      /\ UNCHANGED <<serverVars, storage, token, tries, call, left, crossed, raced>>

(* 401: the token goes, also the one in localStorage.                        *)
Rejected(t) ==
  /\ page[t] = "boot"
  /\ \E dbUp \in BOOLEAN : SessionRole(token[t], dbUp) = None
  /\ token' = [token EXCEPT ![t] = 0]
  /\ storage' = [storage EXCEPT !.token = 0]
  /\ page' = [page EXCEPT ![t] = "login"]
  /\ crossed' = Crossing(t)
  /\ UNCHANGED <<serverVars, role, tries, call, left, raced>>

(* A slip: whatever goes wrong ends the session.                             *)
Unreached_Slip(t) ==
  /\ page[t] = "boot"
  /\ token' = [token EXCEPT ![t] = 0]
  /\ storage' = [storage EXCEPT !.token = 0]
  /\ page' = [page EXCEPT ![t] = "login"]
  /\ UNCHANGED <<serverVars, role, tries, call, left, crossed, raced>>

(* Anything else: once more, then "Couldn't reach Finne" with a retry.       *)
Unreached(t) ==
  /\ page[t] = "boot"
  /\ IF tries[t] < 1
     THEN tries' = [tries EXCEPT ![t] = @ + 1] /\ UNCHANGED page
     ELSE page' = [page EXCEPT ![t] = "unreachable"] /\ UNCHANGED tries
  /\ UNCHANGED <<serverVars, storage, token, role, call, left, crossed, raced>>

(* onLogout.                                                                 *)
Logout(t) ==
  /\ page[t] = "app"
  /\ token' = [token EXCEPT ![t] = 0]
  /\ role' = [role EXCEPT ![t] = None]
  /\ storage' = [token |-> 0, role |-> None]
  /\ page' = [page EXCEPT ![t] = "login"]
  /\ left' = TRUE
  /\ crossed' = Crossing(t)
  /\ UNCHANGED <<serverVars, tries, call, raced>>

(* Twenty-four hours have passed.                                            *)
Expire(n) ==
  /\ n \notin expired
  /\ expired' = expired \cup {n}
  /\ UNCHANGED <<accounts, issued, storage, tabVars, call, left, crossed, raced>>

Boot(t) == Restored(t) \/ Rejected(t) \/ Unreached(t)

NextSeats ==
  \/ \E e \in Emails, s \in Seats : Register(e, RoleOf(s))
  \/ \E i \in 1..Len(accounts), w \in Wallets, l \in {"lower", "mixed"} : LinkWallet(i, w, l)
  \/ \E t \in Tabs, w \in Wallets, s \in Seats : Connect(t, w, s)
  \/ \E t \in Tabs : Find(t) \/ Save(t) \/ Create(t)
  \/ \E t \in Tabs : Load(t) \/ Boot(t) \/ Logout(t)
  \/ \E n \in 1..Len(issued) : Expire(n)

SpecSeats == InitSeats /\ [][NextSeats]_seatVars

-----------------------------------------------------------------------------
(* What becomes of a seat (routes/auth.ts:263-301): once an account has one  *)
(* it has the role of that seat, whatever is registered, linked and signed   *)
(* in at the same time; and every token it was given has that role, unless   *)
(* two sign-ins were giving it its seat at once.  That can only happen to    *)
(* accounts that were not made for a wallet.                                 *)
AccountsKeepTheirSeats ==
  /\ \A n \in 1..Len(issued) :
       LET a == accounts[issued[n].user]
       IN  issued[n].role \in Roles =>
             /\ a.seat # None /\ a.role = RoleOf(a.seat)
             /\ issued[n].role = a.role \/ issued[n].user \in raced
  /\ \A i \in raced : accounts[i].made # "wallet"

(* domain/access.ts:21-26: the screens of a seat, and here what each of them *)
(* is there to do.                                                           *)
Purpose ==
  [arbiter |-> {"case:read", "case:decide", "case:request_info", "evidence:download"},
   merchant |-> {"payout:read", "case:read", "case:respond", "case:add_evidence"},
   customer |-> {"payout:create", "workorder:create", "case:open", "case:add_evidence"},
   platform |-> {"payout:read", "case:read"}]

(* A tab shows the screens of the role that the API takes it for, so what    *)
(* they are there for is not refused to it (until the token expires, and     *)
(* then with a 401).  This says nothing of tabs that booted while another    *)
(* tab signed in or out (App.tsx:137): they may show another seat's screens. *)
ScreensFitTheToken ==
  \A t \in Tabs :
    page[t] = "app" /\ t \notin crossed =>
      \A p \in Purpose[role[t]] : Answers(token[t], p) # 403

(* App.tsx:119-127: a session is dropped for a logout or for a token the API *)
(* rejects, never because the server could not be reached.                   *)
OnlyRejectedTokensAreDropped ==
  [][storage.token # 0 /\ storage'.token = 0 =>
       \/ left'
       \/ \E t \in Tabs : /\ page[t] = "boot"
                          /\ token[t] \in expired \/ issued[token[t]].role \in OldRoles]_seatVars

(* Seats fit accounts, tokens and screens, but for raced accounts and        *)
(* crossed tabs.                                                             *)
SeatsAreKept == AccountsKeepTheirSeats /\ ScreensFitTheToken

=============================================================================
