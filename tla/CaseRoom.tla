------------------------------ MODULE CaseRoom ------------------------------
(***************************************************************************)
(* One seat's browser in the case room (CaseRoom.tsx): what is picked and  *)
(* loaded into the room (App.tsx, useApi.ts), the texts written there      *)
(* (useFinne.ts) and the handlers of services.ts that take them.           *)
(*                                                                         *)
(* What the room shows is the last answer that came, which need not be of  *)
(* the case that is picked; half of the composers write to the case shown, *)
(* the other half to the case picked.  The other parties are one action.   *)
(***************************************************************************)
EXTENDS StateMachines, FiniteSets

CONSTANTS Cases,
          Texts,      \* texts this seat will write
          Posts,      \* bound: requests it makes with them
          Loads,      \* bound: GET requests in flight at once
          MaxMoves,   \* bound: times this seat opens or refreshes the room
          MaxTurns,   \* bound: steps of the other parties, payments that move
          MaxTimers,  \* bound: timers set when one moved (six in the code)
          None        \* nothing picked, shown, written or sent

ASSUME NoneAssumption == None \notin Cases \cup Texts \cup Posts \cup Loads
ASSUME BoundsAssumption == {MaxMoves, MaxTurns, MaxTimers} \subseteq Nat

Roles == {"customer", "merchant", "arbiter"}
Parties == {"customer", "merchant"}
Composers == {"response", "message", "evidence", "request"}

(* What the room reads of a case: its status, how often information was      *)
(* asked for, and of whom an answer is open.                                 *)
Rows == [status : CaseStatus, asks : 0..MAX_INFO_REQUESTS, open : SUBSET Parties]

(* An answer to GET /cases/:id.                                              *)
Snapshots == [case : Cases, row : Rows, log : SUBSET Posts]

VARIABLES
  role,      \* the seat
  rows,      \* the backend's cases
  log,       \* the posts recorded on the case
  turns,     \* steps the others took, payments that moved
  moves,     \* times the room was opened or refreshed
  screen,    \* "list" stands for every screen but the case room
  picked,    \* selectedCaseId
  timers,    \* timers left that will load a case, whatever is picked by then
  shown,     \* activeCase
  load,      \* the GET requests in flight
  latest,    \* the request last made, until it is answered or the room emptied
  missed,    \* what kept the room from showing the case picked
  draft,     \* the text in a composer
  waits,     \* the post whose answer disables a composer
  post       \* the posts made

backendVars  == <<rows, log, turns>>
whereVars    == <<moves, screen, picked, timers>>
roomVars     == <<shown, load, latest, missed>>
composerVars == <<draft, waits, post>>
vars == <<role, backendVars, whereVars, roomVars, composerVars>>

Requests == [case : Cases, answer : Snapshots \cup {None}]
Sent == [kind : Composers, text : Texts, to : Cases, seen : Snapshots \cup {None},
         at : {"sent", "recorded", "refused", "told", "rejected", "lost"}]

ASSUME NoRecordAssumption == None \notin Snapshots \cup Requests \cup Sent

TypeOK ==
  /\ role \in Roles
  /\ rows \in [Cases -> Rows] /\ log \in [Cases -> SUBSET Posts] /\ turns \in 0..MaxTurns
  /\ moves \in 0..MaxMoves /\ screen \in {"list", "case"}
  /\ picked \in Cases \cup {None} /\ timers \in [Cases -> 0..MaxTimers]
  /\ shown \in Snapshots \cup {None}
  /\ load \in [Loads -> Requests \cup {None}]
  /\ latest \in Loads \cup {None}
  /\ missed \subseteq {"not loaded", "failed", "overtaken"}
  /\ draft \in [Composers -> Texts \cup {None}]
  /\ waits \in [Composers -> Posts \cup {None}]
  /\ post \in [Posts -> Sent \cup {None}]

(* The page was just loaded: cases just opened, nothing picked.  openDispute *)
(* saves a case before its notice is served; cut off there, it stays OPEN.   *)
Init ==
  /\ role \in Roles
  /\ rows \in [Cases -> [status : {"OPEN", ApplyCaseEvent("OPEN", 0, "notice_served")},
                        asks : {0}, open : {{}}]]
  /\ log = [c \in Cases |-> {}] /\ turns = 0
  /\ moves = 0 /\ screen = "list" /\ picked = None
  /\ timers = [c \in Cases |-> 0]
  /\ shown = None /\ load = [l \in Loads |-> None]
  /\ latest = None /\ missed = {}
  /\ draft = [k \in Composers |-> None] /\ waits = [k \in Composers |-> None]
  /\ post = [p \in Posts |-> None]

-----------------------------------------------------------------------------
(* Loading.                                                                  *)

IsPicked(case) == picked \in {case, None}

(* The request is made, to be answered whenever.                             *)
Free == CHOOSE l \in Loads : load[l] = None
Send(case) ==
  /\ \E l \in Loads : load[l] = None
  /\ load' = [load EXCEPT ![Free] = [case |-> case, answer |-> None]]
  /\ UNCHANGED shown

(* loadCase for what is picked; without a case the room is emptied.          *)
Fetch(case) == Send(case) /\ latest' = Free /\ missed' = {}
Ask_Slip(case) == Fetch(case)   \* no early return without a case
Ask(case) ==
  IF case # None THEN Fetch(case)
  ELSE shown' = None /\ latest' = None /\ UNCHANGED <<load, missed>>

(* Without a pick it is activeCaseNumber: the first open case of the list,   *)
(* whichever that holds by now.                                              *)
AskPicked_Slip ==   \* a room that holds a case is not loaded again
  IF picked' # None THEN IF shown = None THEN Ask(picked') ELSE UNCHANGED roomVars
  ELSE \E case \in Cases \cup {None} : Ask(case)
AskPicked ==
  IF picked' # None THEN Ask(picked')
  ELSE \E case \in Cases \cup {None} : Ask(case)

(* getSharedCase.                                                            *)
Read(l) ==
  /\ load[l] # None /\ load[l].answer = None
  /\ LET c == load[l].case
     IN  load' = [load EXCEPT ![l].answer = [case |-> c, row |-> rows[c], log |-> log[c]]]
  /\ UNCHANGED <<role, backendVars, whereVars, shown, latest, missed, composerVars>>

(* The answer is shown, whatever was asked for since; a failed load leaves   *)
(* what is shown.  missed keeps what went wrong for the case picked.         *)
Arrive(l, ok) ==
  /\ load[l] # None /\ (ok => load[l].answer # None)
  /\ load' = [load EXCEPT ![l] = None]
  /\ latest' = IF latest = l THEN None ELSE latest
  /\ shown' = IF ok THEN load[l].answer ELSE shown
  /\ missed' = CASE ok /\ latest = l /\ IsPicked(load[l].case) -> {}
                 [] ok /\ latest = None                        -> missed \cup {"overtaken"}
                 [] ~ ok /\ latest = l                         -> missed \cup {"failed"}
                 [] OTHER                                      -> missed
  /\ UNCHANGED <<role, backendVars, whereVars, composerVars>>

-----------------------------------------------------------------------------
(* Where the seat goes.                                                      *)

Moves == moves < MaxMoves /\ moves' = moves + 1

(* The composers that live in the room lose text and spinner with it.        *)
Kept(k) == k \in {"evidence", "request"}
Leave ==
  /\ screen = "case" /\ screen' = "list"
  /\ draft' = [k \in Composers |-> IF Kept(k) THEN draft[k] ELSE None]
  /\ waits' = [k \in Composers |-> IF Kept(k) THEN waits[k] ELSE None]
  /\ UNCHANGED <<role, backendVars, moves, picked, timers, roomVars, post>>

(* viewCase(c), from a list, a search or a notification.  The effect on a    *)
(* new screen loads it; picked on the case screen nothing is loaded.         *)
View(c) ==
  /\ Moves /\ picked' = c /\ screen' = "case"
  /\ IF screen' # screen THEN AskPicked
     ELSE /\ missed' = IF picked' = picked THEN missed ELSE missed \cup {"not loaded"}
          /\ UNCHANGED <<shown, load, latest>>
  /\ UNCHANGED <<role, backendVars, timers, composerVars>>

(* go("case"): what is picked stays picked.                                  *)
Go ==
  /\ screen # "case" /\ screen' = "case"
  /\ Moves /\ picked' = picked
  /\ AskPicked
  /\ UNCHANGED <<role, backendVars, timers, composerVars>>

-----------------------------------------------------------------------------
(* Writing.                                                                  *)

StageDecided_Slip(row) == row.status \in {"DECIDED", "EXECUTED"}
StageDecided(row) == row.status \in {"DECIDED", "EXECUTED", "CLOSED"}
AsksMe(row) == role \in row.open

(* When the room offers a composer, from the row it shows.                   *)
Offers(kind, row) ==
  CASE kind = "response" -> AsksMe(row)
    [] kind = "message"  -> ~ AsksMe(row) /\ row.status \notin {"CLOSED", "EXECUTED"}
    [] kind = "evidence" -> role \in Parties /\ ~ StageDecided(row)
    [] kind = "request"  -> role = "arbiter" /\ ~ StageDecided(row)
Offered(kind) == screen = "case" /\ shown # None /\ Offers(kind, shown.row)

Unused(t) ==
  /\ \A k \in Composers : draft[k] # t
  /\ \A p \in Posts : post[p] # None => post[p].text # t

(* A text is written, also over one that is being sent.                      *)
Write(kind, t) ==
  /\ Offered(kind) /\ Unused(t)
  /\ draft[kind] # None => \E p \in Posts :
       post[p] # None /\ post[p].kind = kind /\ post[p].at \in {"sent", "recorded", "refused"}
  /\ draft' = [draft EXCEPT ![kind] = t]
  /\ UNCHANGED <<role, backendVars, whereVars, roomVars, waits, post>>

(* The room's own composers write to the case shown, the others to           *)
(* selectedCaseId, or nowhere if nothing is picked.                          *)
Target(kind) == IF kind \in {"evidence", "request"} THEN picked ELSE shown.case

(* submitResponse, sendMessage, addEv, sendReq.  Evidence is the one button  *)
(* that stays live; a request empties its box at once.                       *)
Press(kind) ==
  /\ Offered(kind) /\ draft[kind] # None /\ waits[kind] = None
  /\ Target(kind) # None
  /\ \E p \in Posts : post[p] = None
  /\ LET p == CHOOSE p \in Posts : post[p] = None
     IN  /\ post' = [post EXCEPT ![p] = [kind |-> kind, text |-> draft[kind],
                       to |-> Target(kind), seen |-> shown, at |-> "sent"]]
         /\ waits' = [waits EXCEPT ![kind] = IF kind \in {"response", "message"} THEN p ELSE None]
  /\ draft' = IF kind = "request" THEN [draft EXCEPT ![kind] = None] ELSE draft
  /\ UNCHANGED <<role, backendVars, whereVars, roomVars>>

-----------------------------------------------------------------------------
(* The handlers.                                                             *)

Reply(row, side) ==
  LET after == ApplyCaseEvent(row.status, row.asks, "reply_received")
  IN  [row EXCEPT !.status = IF after = Illegal THEN @ ELSE after, !.open = @ \ {side}]

Request(row, side) ==
  [row EXCEPT !.status = ReviewThen(row.status, row.asks, "request_info"),
              !.asks = @ + 1, !.open = @ \cup {side}]

(* Whose requests this seat's message answers: the arbiter's the payer's.    *)
MySide == IF role = "merchant" THEN "merchant" ELSE "customer"

(* The rows a post may leave; none if submitResponse, attachEvidence or      *)
(* requestInfo refuses it.                                                   *)
Taken(kind, row) ==
  LET to == CASE kind \in {"response", "message"} -> {Reply(row, MySide)}
              [] kind = "evidence" -> {row} \ {[row EXCEPT !.status = "CLOSED"]}
              [] kind = "request"  -> {Request(row, side) : side \in Parties}
  IN  to \cap Rows

Handle(p) ==
  LET c == post[p].to
      after == Taken(post[p].kind, rows[c])
  IN  /\ post[p] # None /\ post[p].at = "sent"
      /\ \/ \E row \in after :
              /\ rows' = [rows EXCEPT ![c] = row]
              /\ log' = [log EXCEPT ![c] = @ \cup {p}]
              /\ post' = [post EXCEPT ![p].at = "recorded", ![p].seen = None]
         \/ /\ after = {}
            /\ post' = [post EXCEPT ![p].at = "refused", ![p].seen = None]
            /\ UNCHANGED <<rows, log>>
      /\ UNCHANGED <<role, turns, whereVars, roomVars, draft, waits>>

(* A step of the other seats, the scheduler or the indexer on the same case.  *)
OthersRows(row) ==
  LET decided  == ReviewThen(row.status, row.asks, "decision_recorded")
      executed == ApplyCaseEvent(row.status, row.asks, "refund_confirmed")
      statuses == {decided} \cup {ApplyCaseEvent(row.status, row.asks, event) :
                                    event \in {"notice_served", "deadline_passed"}}
                  \cup {ApplyCaseEvent(from, row.asks, "close") : from \in {decided, executed}}
  IN  ({Reply(row, side) : side \in Parties \ {role}}
        \cup {Request(row, side) : side \in Parties}
        \cup {[row EXCEPT !.status = s] : s \in statuses}) \cap Rows

OthersStep(c) ==
  /\ turns < MaxTurns /\ turns' = turns + 1
  /\ \E row \in OthersRows(rows[c]) : rows' = [rows EXCEPT ![c] = row]
  /\ UNCHANGED <<role, log, whereVars, roomVars, composerVars>>

-----------------------------------------------------------------------------
(* The answers to this seat's posts.                                         *)

(* reloadCase: caseVersion rises, and its effect loads on the case screen.   *)
Reload_Slip == UNCHANGED <<screen, picked, roomVars>>   \* caseVersion set to what it was
Reload ==
  /\ UNCHANGED <<screen, picked>>
  /\ IF screen = "case" THEN AskPicked ELSE UNCHANGED roomVars

(* The box is emptied, if the screen that sent is still there: of what was   *)
(* sent and of what was written over it since.                               *)
Told(p) ==
  LET kind == post[p].kind
  IN  /\ post[p] # None /\ post[p].at = "recorded"
      /\ post' = [post EXCEPT ![p].at = "told"]
      /\ waits' = [waits EXCEPT ![kind] = IF @ = p THEN None ELSE @]
      /\ draft' = [draft EXCEPT ![kind] = IF waits[kind] = p \/ kind = "evidence" THEN None ELSE @]
      /\ Reload
      /\ UNCHANGED <<role, backendVars, moves, timers>>

(* An error, the handler's or the network's: the text stays, or comes back.  *)
Failed(p) ==
  LET kind == post[p].kind
  IN  /\ post[p] # None
      /\ \/ post[p].at = "refused" /\ post' = [post EXCEPT ![p].at = "rejected"]
         \/ /\ post[p].at \in {"sent", "recorded", "refused"}
            /\ post' = [post EXCEPT ![p].at = "lost", ![p].seen = None]
      /\ waits' = [waits EXCEPT ![kind] = IF @ = p THEN None ELSE @]
      /\ draft' = [draft EXCEPT ![kind] = IF kind = "request" THEN post[p].text ELSE @]
      /\ UNCHANGED <<role, backendVars, whereVars, roomVars>>

(* The refresh button and an upload reload the room as well.                 *)
Refresh ==
  /\ screen = "case" /\ shown # None
  /\ Moves /\ Reload
  /\ UNCHANGED <<role, backendVars, timers, composerVars>>

-----------------------------------------------------------------------------
(* A payment this seat sent or refunded moved (payoutVersion).               *)

(* The timers set before are cleared; the new ones keep the screen and the   *)
(* pick of this moment.  After a refund the room is reloaded as well.        *)
PayoutMoved ==
  /\ role # "merchant"
  /\ turns < MaxTurns /\ turns' = turns + 1
  /\ timers' = [c \in Cases |-> IF screen = "case" /\ c = picked THEN MaxTimers ELSE 0]
  /\ \/ Reload
     \/ UNCHANGED <<screen, picked, roomVars>>
  /\ UNCHANGED <<role, rows, log, moves, composerVars>>

(* A timer fires: its case is loaded, on any screen and with any other pick. *)
TimerFires(c) ==
  /\ timers[c] > 0 /\ timers' = [timers EXCEPT ![c] = @ - 1]
  /\ IF c = picked THEN Fetch(c) ELSE Send(c) /\ UNCHANGED <<latest, missed>>
  /\ UNCHANGED <<role, backendVars, moves, screen, picked, composerVars>>

-----------------------------------------------------------------------------
LoadStep == \E l \in Loads : Read(l) \/ \E ok \in BOOLEAN : Arrive(l, ok)
PostStep == \E p \in Posts : Handle(p) \/ Told(p) \/ Failed(p)

Next ==
  \/ LoadStep \/ PostStep
  \/ Leave \/ Go \/ Refresh \/ PayoutMoved
  \/ \E c \in Cases : View(c) \/ OthersStep(c) \/ TimerFires(c)
  \/ \E kind \in Composers : Press(kind) \/ \E t \in Texts : Write(kind, t)

Spec == Init /\ [][Next]_vars

-----------------------------------------------------------------------------
(* The room shows another case than the one picked, and in its address, only *)
(* while that one is on its way or after its load failed, was never made, as *)
(* it was picked on the same screen, or was overtaken: by an older one or by *)
(* a timer that still loads the case of the moment a payment moved.          *)
Fetching(case) == \E l \in Loads : load[l] # None /\ load[l].case = case
ShownIsPicked ==
  screen = "case" /\ shown # None /\ ~ IsPicked(shown.case) =>
    missed # {} \/ Fetching(picked)

(* The same text is on record twice only if the answer to the first try was  *)
(* lost, or if evidence, whose button stays live, was sent twice.            *)
OnRecord(p) == \E c \in Cases : p \in log[c]
NoTextTwice ==
  \A p, q \in Posts :
    p # q /\ OnRecord(p) /\ OnRecord(q) /\ post[p].text = post[q].text =>
      \/ "lost" \in {post[p].at, post[q].at}
      \/ {post[p].kind, post[q].kind} = {"evidence"}

RoomIsHonest == ShownIsPicked /\ NoTextTwice

(* What the room offers the backend takes: a post is refused only if the     *)
(* case has changed since the room read it, the text goes to another case,   *)
(* or it is a request and all are used up or the case was cut off OPEN (the  *)
(* button looks at neither).                                                 *)
Surprise(p) ==
  LET seen == post[p].seen
  IN  /\ <<seen.case, seen.row>> = <<post[p].to, rows[post[p].to]>>
      /\ ~ /\ post[p].kind = "request"
           /\ seen.row.asks = MAX_INFO_REQUESTS \/ seen.row.status = "OPEN"
RefusalsAreExplained ==
  [][\A p \in Posts : Handle(p) /\ post'[p].at = "refused" => ~ Surprise(p)]_vars

(* Who is told that a text is on record sees it in the room once the load    *)
(* made last is answered, unless they left or picked another case, or a load *)
(* failed or was overtaken.                                                  *)
Watching(p) == post[p] # None /\ post[p].at = "told" /\ screen = "case" /\ picked = post[p].to
OwnPostsShow ==
  \A p \in Posts :
    Watching(p) /\ latest = None /\ missed = {} => shown # None /\ p \in shown.log

=============================================================================
