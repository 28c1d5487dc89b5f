--------------------------- MODULE CaseRoom_proofs ---------------------------
(***************************************************************************)
(* That the case room is honest about what it shows and what was sent, for *)
(* any number of cases, texts, posts and loads in flight.                  *)
(***************************************************************************)
EXTENDS CaseRoom, TLAPS

(* What was read of a case is of the case that was asked for.                *)
AnswersFit ==
  \A l \in Loads :
    load[l] # None /\ load[l].answer # None => load[l].answer.case = load[l].case

(* As long as nothing went wrong for the case picked, the request last made  *)
(* is for that case, or its answer is what the room shows.                   *)
RoomFits ==
  screen = "case" /\ picked # None /\ missed = {} =>
    IF latest # None THEN load[latest] # None /\ load[latest].case = picked
    ELSE shown # None /\ shown.case = picked

(* A post that may be on record, or get there, without its seat knowing that *)
(* it did not.                                                               *)
InTheAir == {"sent", "recorded", "refused"}
Alive(p) == post[p] # None /\ post[p].at \in InTheAir \cup {"told"}

RecordsFit ==
  \A p \in Posts : OnRecord(p) => post[p] # None /\ post[p].at \in {"recorded", "told", "lost"}

(* Every text belongs to one composer: the one it was written in.            *)
TextsFit ==
  /\ \A j, k \in Composers : draft[j] # None /\ draft[j] = draft[k] => j = k
  /\ \A p \in Posts, k \in Composers :
       post[p] # None /\ draft[k] = post[p].text => k = post[p].kind
  /\ \A p, q \in Posts :
       post[p] # None /\ post[q] # None /\ post[p].text = post[q].text
         => post[p].kind = post[q].kind

(* A composer waits for a post of its own that is still unanswered.          *)
WaitsFit ==
  \A k \in Composers :
    waits[k] # None =>
      /\ k \in {"response", "message"} /\ post[waits[k]] # None
      /\ post[waits[k]].kind = k /\ post[waits[k]].at \in InTheAir

(* The text of a living post is in no box from which it could be sent again, *)
(* and in no other living post; evidence is the exception.                   *)
SentOnce ==
  /\ \A p \in Posts, k \in Composers :
       Alive(p) /\ draft[k] = post[p].text /\ k # "evidence" => waits[k] = p
  /\ \A p, q \in Posts :
       p # q /\ Alive(p) /\ Alive(q) /\ post[p].text = post[q].text
         => post[p].kind = "evidence"

(* A post that was made was offered.                                         *)
OffersFit ==
  \A p \in Posts :
    post[p] # None /\ post[p].at = "sent" =>
      post[p].seen # None /\ Offers(post[p].kind, post[p].seen.row)

RoomInv ==
  /\ TypeOK /\ AnswersFit /\ RoomFits /\ RecordsFit /\ TextsFit /\ WaitsFit
  /\ SentOnce /\ OffersFit

-----------------------------------------------------------------------------
(* Nothing is None that is a record, a case or the number of a request.      *)
LEMMA NoneIsNone ==
  /\ \A c \in Cases : c # None
  /\ \A t \in Texts : t # None
  /\ \A p \in Posts : p # None
  /\ \A l \in Loads : l # None
  /\ \A s \in Snapshots : s # None
  /\ \A r \in Requests : r # None
  /\ \A q \in Sent : q # None
BY NoneAssumption, NoRecordAssumption

LEMMA RoomInitially == Init => RoomInv
<1> SUFFICES ASSUME Init PROVE RoomInv
  OBVIOUS
<1>1. ApplyCaseEvent("OPEN", 0, "notice_served") = "AWAITING_RESPONSE"
  <2>1. <<"OPEN", "notice_served", "AWAITING_RESPONSE">> \in CASE_EDGES
    BY DEF CASE_EDGES
  <2>2. \A edge \in CASE_EDGES :
          edge[1] = "OPEN" /\ edge[2] = "notice_served" => edge[3] = "AWAITING_RESPONSE"
    BY DEF CASE_EDGES
  <2> QED
    BY <2>1, <2>2 DEF ApplyCaseEvent, TakeEdge
<1>2. [status : {"OPEN", "AWAITING_RESPONSE"}, asks : {0}, open : {{}}] \subseteq Rows
  BY MaxInfoRequestsAssumption DEF Rows, CaseStatus
<1>3. rows \in [Cases -> Rows]
  BY <1>1, <1>2 DEF Init
<1>4. TypeOK
  <2>1. log \in [Cases -> SUBSET Posts] /\ load \in [Loads -> Requests \cup {None}]
    BY DEF Init
  <2>2. /\ draft \in [Composers -> Texts \cup {None}]
        /\ waits \in [Composers -> Posts \cup {None}] /\ post \in [Posts -> Sent \cup {None}]
    BY DEF Init
  <2>3. turns \in 0..MaxTurns /\ moves \in 0..MaxMoves /\ timers \in [Cases -> 0..MaxTimers]
    BY BoundsAssumption DEF Init
  <2> QED
    BY <1>3, <2>1, <2>2, <2>3 DEF Init, TypeOK
<1>5. OffersFit
  BY DEF Init, OffersFit
<1>6. AnswersFit /\ RoomFits /\ WaitsFit
  BY DEF Init, AnswersFit, RoomFits, WaitsFit
<1>7. RecordsFit /\ TextsFit /\ SentOnce
  BY NoneAssumption DEF Init, RecordsFit, TextsFit, SentOnce, OnRecord, Alive
<1> QED
  BY <1>4, <1>5, <1>6, <1>7 DEF RoomInv

-----------------------------------------------------------------------------
(* What a step leaves alone stays right.                                     *)

LEMMA RoomUntouched ==
  ASSUME AnswersFit, RoomFits, UNCHANGED <<screen, picked, roomVars>>
  PROVE  AnswersFit' /\ RoomFits'
BY DEF AnswersFit, RoomFits, roomVars

LEMMA PostsUntouched ==
  ASSUME RecordsFit, TextsFit, WaitsFit, SentOnce, UNCHANGED <<log, composerVars>>
  PROVE  RecordsFit' /\ TextsFit' /\ WaitsFit' /\ SentOnce'
BY DEF RecordsFit, TextsFit, WaitsFit, SentOnce, OnRecord, Alive, composerVars

LEMMA OffersUntouched ==
  ASSUME OffersFit, UNCHANGED <<role, post>>
  PROVE  OffersFit'
BY DEF OffersFit, Offers, AsksMe, StageDecided

-----------------------------------------------------------------------------
(* Loading.                                                                  *)

(* The types of what the room holds.                                         *)
RoomTypes ==
  /\ shown \in Snapshots \cup {None} /\ load \in [Loads -> Requests \cup {None}]
  /\ latest \in Loads \cup {None}
  /\ missed \subseteq {"not loaded", "failed", "overtaken"}

(* A request is made; those under way, and what is shown, stay.              *)
LEMMA SendAsks ==
  ASSUME TypeOK, AnswersFit, NEW case \in Cases, Send(case)
  PROVE  /\ load' \in [Loads -> Requests \cup {None}] /\ AnswersFit' /\ UNCHANGED shown
         /\ Free \in Loads /\ load'[Free] # None
         /\ load'[Free].case = case /\ load'[Free].answer = None
         /\ \A l \in Loads : load[l] # None => load'[l] = load[l]
<1> DEFINE request == [case |-> case, answer |-> None]
<1>1. Free \in Loads /\ load[Free] = None
  BY DEF Send, Free
<1>2. request \in Requests /\ request # None
  BY NoneIsNone DEF Requests
<1>3. load' = [load EXCEPT ![Free] = request] /\ UNCHANGED shown
  BY DEF Send
<1>4. load \in [Loads -> Requests \cup {None}]
  BY DEF TypeOK
<1>5. /\ load' \in [Loads -> Requests \cup {None}] /\ load'[Free] = request
      /\ \A k \in Loads \ {Free} : load'[k] = load[k]
  BY <1>1, <1>2, <1>3, <1>4
<1>6. AnswersFit'
  BY <1>5 DEF AnswersFit
<1> QED
  BY <1>1, <1>2, <1>3, <1>5, <1>6

(* With Fetch it is the last one made.                                       *)
LEMMA FetchAsks ==
  ASSUME TypeOK, AnswersFit, NEW case \in Cases, Fetch(case)
  PROVE  /\ RoomTypes' /\ AnswersFit'
         /\ latest' \in Loads /\ load'[latest'] # None
         /\ load'[latest'].case = case /\ load'[latest'].answer = None
BY SendAsks DEF Fetch, RoomTypes, TypeOK

(* After AskPicked the case picked is on its way.                            *)
LEMMA AskPickedFits ==
  ASSUME TypeOK, AnswersFit, picked' \in Cases \cup {None}, AskPicked
  PROVE  RoomTypes' /\ AnswersFit' /\ RoomFits'
<1>1. CASE picked' # None
  <2>1. picked' \in Cases /\ Fetch(picked')
    BY <1>1 DEF AskPicked, Ask
  <2>2. /\ RoomTypes' /\ AnswersFit'
        /\ latest' \in Loads /\ load'[latest'] # None /\ load'[latest'].case = picked'
    BY <2>1, FetchAsks
  <2> QED
    BY <2>2, NoneIsNone DEF RoomFits
<1>2. CASE picked' = None
  <2>1. PICK case \in Cases \cup {None} : Ask(case)
    BY <1>2 DEF AskPicked
  <2>2. CASE case = None
    BY <2>1, <2>2, <1>2 DEF Ask, RoomTypes, TypeOK, AnswersFit, RoomFits
  <2>3. CASE case # None
    <3>1. RoomTypes' /\ AnswersFit'
      BY <2>1, <2>3, FetchAsks DEF Ask
    <3> QED
      BY <3>1, <1>2 DEF RoomFits
  <2> QED
    BY <2>2, <2>3
<1> QED
  BY <1>1, <1>2

LEMMA ReadKeeps ==
  ASSUME RoomInv, NEW l \in Loads, Read(l)
  PROVE  RoomInv'
<1> DEFINE c == load[l].case
           answer == [case |-> c, row |-> rows[c], log |-> log[c]]
<1>1. load[l] \in Requests /\ load[l] # None
  BY DEF RoomInv, TypeOK, Read
<1>2. c \in Cases
  BY <1>1 DEF Requests
<1>3. answer \in Snapshots
  BY <1>2 DEF Snapshots, RoomInv, TypeOK
<1>4. load' = [load EXCEPT ![l].answer = answer]
  BY DEF Read
<1>5. load \in [Loads -> Requests \cup {None}]
  BY DEF RoomInv, TypeOK
<1>6. /\ load'[l] = [load[l] EXCEPT !.answer = answer]
      /\ \A k \in Loads \ {l} : load'[k] = load[k]
  BY <1>4, <1>5
<1>7. load'[l] \in Requests /\ load'[l].case = c /\ load'[l].answer = answer
  BY <1>1, <1>3, <1>6 DEF Requests
<1>8. load'[l] # None
  BY <1>7, NoneIsNone
<1>9. load' \in [Loads -> Requests \cup {None}]
  BY <1>4, <1>5, <1>6, <1>7
<1>10. TypeOK'
  BY <1>9 DEF RoomInv, TypeOK, Read, backendVars, whereVars, composerVars
<1>11. AnswersFit'
  <2>1. answer.case = c
    OBVIOUS
  <2> HIDE DEF answer, c
  <2> QED
    BY <1>6, <1>7, <2>1 DEF RoomInv, AnswersFit
<1>12. RoomFits'
  BY <1>6, <1>7, <1>8 DEF RoomInv, RoomFits, Read, whereVars
<1> QED
  BY <1>10, <1>11, <1>12, PostsUntouched, OffersUntouched
  DEF RoomInv, Read, backendVars, composerVars

(* An answer for what is picked settles the room; another one is overtaken   *)
(* or comes while the right one is on its way.                               *)
LEMMA ArriveKeeps ==
  ASSUME RoomInv, NEW l \in Loads, NEW ok \in BOOLEAN, Arrive(l, ok)
  PROVE  RoomInv'
<1>1. load[l] \in Requests /\ load[l] # None
  BY DEF RoomInv, TypeOK, Arrive
<1>2. load \in [Loads -> Requests \cup {None}] /\ load' = [load EXCEPT ![l] = None]
  BY DEF RoomInv, TypeOK, Arrive
<1>3. load' \in [Loads -> Requests \cup {None}] /\ load'[l] = None
      /\ \A k \in Loads \ {l} : load'[k] = load[k]
  BY <1>2
<1>4. ok => load[l].answer \in Snapshots /\ load[l].answer.case = load[l].case
  BY <1>1 DEF Arrive, RoomInv, AnswersFit, Requests
<1>5. shown' \in Snapshots \cup {None} /\ latest' \in Loads \cup {None}
  BY <1>4 DEF RoomInv, TypeOK, Arrive
<1>6. missed' \subseteq {"not loaded", "failed", "overtaken"}
  BY DEF RoomInv, TypeOK, Arrive
<1>7. TypeOK'
  BY <1>3, <1>5, <1>6 DEF RoomInv, TypeOK, Arrive, backendVars, whereVars, composerVars
<1>8. AnswersFit'
  BY <1>3 DEF RoomInv, AnswersFit
<1>9. RoomFits'
  <2> SUFFICES ASSUME screen' = "case", picked' # None, missed' = {}
               PROVE  IF latest' # None
                      THEN load'[latest'] # None /\ load'[latest'].case = picked'
                      ELSE shown' # None /\ shown'.case = picked'
    BY DEF RoomFits
  <2>1. screen = "case" /\ picked # None /\ picked' = picked
    BY DEF Arrive, whereVars
  <2>2. CASE latest = l
    <3>1. missed = {} => load[l].case = picked
      BY <2>1, <2>2, NoneIsNone DEF RoomInv, RoomFits
    <3>2. ok /\ load[l].case = picked
      BY <2>1, <2>2, <3>1 DEF Arrive, IsPicked
    <3>3. latest' = None /\ shown' = load[l].answer
      BY <2>2, <3>2 DEF Arrive
    <3> QED
      BY <2>1, <3>2, <3>3, <1>4, NoneIsNone
  <2>3. CASE latest # l /\ latest # None
    <3>1. missed = {} /\ latest' = latest
      BY <2>3 DEF Arrive
    <3>2. load[latest] # None /\ load[latest].case = picked
      BY <2>1, <2>3, <3>1 DEF RoomInv, RoomFits
    <3>3. latest \in Loads \ {l}
      BY <2>3 DEF RoomInv, TypeOK
    <3> QED
      BY <2>1, <2>3, <3>1, <3>2, <3>3, <1>3
  <2>4. CASE latest = None
    <3>1. ~ ok /\ missed = {} /\ latest' = None /\ shown' = shown
      BY <2>4, NoneIsNone DEF Arrive
    <3> QED
      BY <2>1, <2>4, <3>1 DEF RoomInv, RoomFits
  <2> QED
    BY <2>2, <2>3, <2>4
<1> QED
  BY <1>7, <1>8, <1>9, PostsUntouched, OffersUntouched
  DEF RoomInv, Arrive, backendVars, composerVars

-----------------------------------------------------------------------------
(* Where the seat goes.                                                      *)

LEMMA ReloadFits ==
  ASSUME RoomInv, Reload
  PROVE  RoomTypes' /\ AnswersFit' /\ RoomFits' /\ UNCHANGED <<screen, picked>>
<1>1. UNCHANGED <<screen, picked>> /\ picked' \in Cases \cup {None}
  BY DEF Reload, RoomInv, TypeOK
<1>2. CASE screen = "case"
  BY <1>1, <1>2, AskPickedFits DEF Reload, RoomInv
<1>3. CASE screen # "case"
  BY <1>3, RoomUntouched DEF Reload, RoomInv, RoomTypes, TypeOK, roomVars
<1> QED
  BY <1>1, <1>2, <1>3

LEMMA MovesType ==
  ASSUME RoomInv, Moves
  PROVE  moves' \in 0..MaxMoves
<1>1. moves \in 0..MaxMoves
  BY DEF RoomInv, TypeOK
<1> QED
  BY <1>1, BoundsAssumption DEF Moves

(* The composers of the room are emptied when it is left, with their waits.  *)
LEMMA LeaveKeeps ==
  ASSUME RoomInv, Leave
  PROVE  RoomInv'
<1>1. /\ draft \in [Composers -> Texts \cup {None}] /\ waits \in [Composers -> Posts \cup {None}]
      /\ draft' = [k \in Composers |-> IF Kept(k) THEN draft[k] ELSE None]
      /\ waits' = [k \in Composers |-> IF Kept(k) THEN waits[k] ELSE None]
  BY DEF RoomInv, TypeOK, Leave
<1>2. /\ draft' \in [Composers -> Texts \cup {None}]
      /\ waits' \in [Composers -> Posts \cup {None}]
  BY <1>1
<1>3. \A k \in Composers : /\ draft'[k] # None => draft'[k] = draft[k] /\ Kept(k)
                           /\ waits'[k] # None => waits'[k] = waits[k]
                           /\ Kept(k) => waits'[k] = waits[k]
  BY <1>1
<1>4. TypeOK'
  BY <1>2 DEF RoomInv, TypeOK, Leave, backendVars, roomVars
<1>5. AnswersFit' /\ RoomFits'
  BY DEF RoomInv, Leave, AnswersFit, RoomFits, roomVars
<1>6. RecordsFit' /\ UNCHANGED <<log, post>>
  BY DEF RoomInv, RecordsFit, OnRecord, Leave, backendVars
<1>7. \A p \in Posts : post[p] # None => post[p].text # None
  BY NoneIsNone DEF RoomInv, TypeOK, Sent
<1>8. TextsFit'
  BY <1>3, <1>6, <1>7 DEF RoomInv, TextsFit
<1>9. WaitsFit'
  BY <1>3, <1>6 DEF RoomInv, WaitsFit
<1>10. SentOnce'
  BY <1>3, <1>6, <1>7 DEF RoomInv, SentOnce, Alive
<1> QED
  BY <1>4, <1>5, <1>6, <1>8, <1>9, <1>10, OffersUntouched
  DEF RoomInv, Leave, backendVars

LEMMA ViewKeeps ==
  ASSUME RoomInv, NEW c \in Cases, View(c)
  PROVE  RoomInv'
<1>1. moves' \in 0..MaxMoves
  BY MovesType DEF View
<1>2. picked' = c /\ screen' = "case" /\ picked' \in Cases \cup {None}
  BY DEF View
<1>3. RoomTypes' /\ AnswersFit' /\ RoomFits'
  <2>1. CASE screen' # screen
    BY <1>2, <2>1, AskPickedFits DEF View, RoomInv
  <2>2. CASE screen' = screen
    <3>1. /\ missed' = IF picked' = picked THEN missed ELSE missed \cup {"not loaded"}
          /\ UNCHANGED <<shown, load, latest>>
      BY <2>2 DEF View
    <3> QED
      BY <1>2, <2>2, <3>1 DEF RoomInv, TypeOK, RoomTypes, AnswersFit, RoomFits
  <2> QED
    BY <2>1, <2>2
<1>4. TypeOK'
  BY <1>1, <1>2, <1>3 DEF RoomTypes, RoomInv, TypeOK, View, backendVars, composerVars
<1> QED
  BY <1>3, <1>4, PostsUntouched, OffersUntouched DEF RoomInv, View, backendVars, composerVars

LEMMA GoKeeps ==
  ASSUME RoomInv, Go
  PROVE  RoomInv'
<1>1. moves' \in 0..MaxMoves
  BY MovesType DEF Go
<1>2. screen' = "case" /\ picked' \in Cases \cup {None}
  BY DEF Go, RoomInv, TypeOK
<1>3. RoomTypes' /\ AnswersFit' /\ RoomFits'
  BY <1>2, AskPickedFits DEF Go, RoomInv
<1>4. TypeOK'
  BY <1>1, <1>2, <1>3 DEF RoomTypes, RoomInv, TypeOK, Go, backendVars, composerVars
<1> QED
  BY <1>3, <1>4, PostsUntouched, OffersUntouched DEF RoomInv, Go, backendVars, composerVars

LEMMA RefreshKeeps ==
  ASSUME RoomInv, Refresh
  PROVE  RoomInv'
<1>1. moves' \in 0..MaxMoves
  BY MovesType DEF Refresh
<1>2. RoomTypes' /\ AnswersFit' /\ RoomFits' /\ UNCHANGED <<screen, picked>>
  BY ReloadFits DEF Refresh
<1>3. TypeOK'
  BY <1>1, <1>2 DEF RoomTypes, RoomInv, TypeOK, Refresh, backendVars, composerVars
<1> QED
  BY <1>2, <1>3, PostsUntouched, OffersUntouched DEF RoomInv, Refresh, backendVars, composerVars

-----------------------------------------------------------------------------
(* Writing and sending.                                                      *)

(* A new text is in no other box and in no post.                             *)
LEMMA WriteKeeps ==
  ASSUME RoomInv, NEW kind \in Composers, NEW t \in Texts, Write(kind, t)
  PROVE  RoomInv'
<1>1. /\ draft \in [Composers -> Texts \cup {None}] /\ draft' = [draft EXCEPT ![kind] = t]
      /\ UNCHANGED <<log, waits, post>>
  BY DEF RoomInv, TypeOK, Write, backendVars
<1>2. /\ draft' \in [Composers -> Texts \cup {None}] /\ draft'[kind] = t
      /\ \A k \in Composers \ {kind} : draft'[k] = draft[k]
  BY <1>1
<1>3. /\ \A k \in Composers : draft[k] # t
      /\ \A p \in Posts : post[p] # None => post[p].text # t
  BY DEF Write, Unused
<1>4. TypeOK'
  BY <1>2 DEF RoomInv, TypeOK, Write, backendVars, whereVars, roomVars
<1>5. AnswersFit' /\ RoomFits'
  BY RoomUntouched DEF RoomInv, Write, whereVars
<1>6. TextsFit'
  BY <1>1, <1>2, <1>3 DEF RoomInv, TextsFit
<1>7. WaitsFit' /\ RecordsFit'
  BY <1>1 DEF RoomInv, WaitsFit, RecordsFit, OnRecord
<1>8. SentOnce'
  BY <1>1, <1>2, <1>3 DEF RoomInv, SentOnce, Alive
<1> QED
  BY <1>4, <1>5, <1>6, <1>7, <1>8, OffersUntouched DEF RoomInv, Write, backendVars

(* What is pressed is offered, and its text is in no living post but that of *)
(* an upload of evidence.                                                    *)
LEMMA PressKeeps ==
  ASSUME RoomInv, NEW kind \in Composers, Press(kind)
  PROVE  RoomInv'
<1> DEFINE n == CHOOSE p \in Posts : post[p] = None
           made == [kind |-> kind, text |-> draft[kind], to |-> Target(kind),
                    seen |-> shown, at |-> "sent"]
           wait == IF kind \in {"response", "message"} THEN n ELSE None
<1>1. n \in Posts /\ post[n] = None
  BY DEF Press
<1>2. /\ post' = [post EXCEPT ![n] = made] /\ waits' = [waits EXCEPT ![kind] = wait]
      /\ UNCHANGED log
  BY DEF Press, backendVars
<1>3. /\ Offers(kind, shown.row) /\ shown # None /\ waits[kind] = None /\ draft[kind] # None
      /\ Target(kind) # None
  BY DEF Press, Offered
<1>4. made \in Sent /\ made # None
  <2>1. shown \in Snapshots /\ draft[kind] \in Texts
    BY <1>3 DEF RoomInv, TypeOK
  <2>2. Target(kind) \in Cases
    BY <1>3, <2>1 DEF RoomInv, TypeOK, Target, Snapshots
  <2> HIDE DEF n
  <2> QED
    BY <2>1, <2>2, NoneIsNone DEF Sent
<1> DEFINE t == draft[kind]
<1>5. made.kind = kind /\ made.text = t /\ made.at = "sent" /\ made.seen = shown
  OBVIOUS
<1> HIDE DEF made, n
<1>6. /\ post \in [Posts -> Sent \cup {None}] /\ waits \in [Composers -> Posts \cup {None}]
      /\ draft \in [Composers -> Texts \cup {None}]
      /\ draft' = IF kind = "request" THEN [draft EXCEPT ![kind] = None] ELSE draft
  BY DEF Press, RoomInv, TypeOK
<1>7. /\ post' \in [Posts -> Sent \cup {None}] /\ post'[n] = made
      /\ \A p \in Posts \ {n} : post'[p] = post[p]
  BY <1>1, <1>2, <1>4, <1>6
<1>8. /\ waits' \in [Composers -> Posts \cup {None}] /\ waits'[kind] = wait
      /\ \A k \in Composers \ {kind} : waits'[k] = waits[k]
  BY <1>1, <1>2, <1>6
<1>9. /\ draft' \in [Composers -> Texts \cup {None}]
      /\ draft'[kind] = IF kind = "request" THEN None ELSE t
      /\ \A k \in Composers \ {kind} : draft'[k] = draft[k]
  BY <1>6
<1>10. TypeOK'
  BY <1>7, <1>8, <1>9 DEF RoomInv, TypeOK, Press, backendVars, whereVars, roomVars
<1>11. AnswersFit' /\ RoomFits'
  BY RoomUntouched DEF RoomInv, Press, whereVars
<1>12. RecordsFit'
  BY <1>1, <1>2, <1>7 DEF RoomInv, RecordsFit, OnRecord
<1>13. TextsFit'
  <2>1. \A j, k \in Composers : draft'[j] # None /\ draft'[j] = draft'[k] => j = k
    BY <1>9 DEF RoomInv, TextsFit
  <2>2. \A k \in Composers : draft'[k] = t => k = kind
    BY <1>3, <1>9 DEF RoomInv, TextsFit
  <2>3. \A p \in Posts, k \in Composers :
          post'[p] # None /\ draft'[k] = post'[p].text => k = post'[p].kind
    <3> SUFFICES ASSUME NEW p \in Posts, NEW k \in Composers,
                        post'[p] # None, draft'[k] = post'[p].text
                 PROVE  k = post'[p].kind
      OBVIOUS
    <3>1. CASE p = n
      BY <3>1, <2>2, <1>5, <1>7
    <3>2. CASE p # n
      <4>1. post'[p] = post[p] /\ post[p].text \in Texts
        BY <3>2, <1>7 DEF RoomInv, TypeOK, Sent
      <4>2. draft[k] = post[p].text
        BY <4>1, <1>9, NoneIsNone
      <4> QED
        BY <4>1, <4>2 DEF RoomInv, TextsFit
    <3> QED
      BY <3>1, <3>2
  <2>4. \A p, q \in Posts :
          post'[p] # None /\ post'[q] # None /\ post'[p].text = post'[q].text
            => post'[p].kind = post'[q].kind
    BY <1>1, <1>5, <1>7 DEF RoomInv, TextsFit
  <2> QED
    BY <2>1, <2>3, <2>4 DEF TextsFit
<1>14. WaitsFit'
  <2> SUFFICES ASSUME NEW k \in Composers, waits'[k] # None
               PROVE  /\ k \in {"response", "message"} /\ post'[waits'[k]] # None
                      /\ post'[waits'[k]].kind = k /\ post'[waits'[k]].at \in InTheAir
    BY DEF WaitsFit
  <2>1. CASE k = kind
    BY <2>1, <1>4, <1>5, <1>7, <1>8 DEF InTheAir
  <2>2. CASE k # kind
    <3>1. waits'[k] = waits[k] /\ waits[k] \in Posts /\ post[waits[k]] # None
      BY <2>2, <1>8 DEF RoomInv, WaitsFit, TypeOK
    <3> QED
      BY <3>1, <1>1, <1>7 DEF RoomInv, WaitsFit
  <2> QED
    BY <2>1, <2>2
<1>15. SentOnce'
  <2>1. \A q \in Posts : Alive(q) /\ post[q].text = t => kind = "evidence" /\ post[q].kind = kind
    BY <1>3, NoneIsNone DEF RoomInv, SentOnce, TextsFit, Alive
  <2>2. \A q \in Posts \ {n} : Alive(q)' <=> Alive(q)
    BY <1>7 DEF Alive
  <2>3. \A p \in Posts, k \in Composers :
          Alive(p)' /\ draft'[k] = post'[p].text /\ k # "evidence" => waits'[k] = p
    <3> SUFFICES ASSUME NEW p \in Posts, NEW k \in Composers,
                        Alive(p)', draft'[k] = post'[p].text, k # "evidence"
                 PROVE  waits'[k] = p
      OBVIOUS
    <3>1. CASE p = n
      <4>1. draft'[k] = t /\ t \in Texts
        BY <3>1, <1>3, <1>5, <1>6, <1>7
      <4>2. k = kind /\ k # "request"
        BY <4>1, <1>3, <1>9, NoneIsNone DEF RoomInv, TextsFit
      <4> QED
        BY <3>1, <4>2, <1>8 DEF Composers
    <3>2. CASE p # n
      <4>1. post'[p] = post[p] /\ Alive(p) /\ post[p].text \in Texts
        BY <3>2, <2>2, <1>7 DEF RoomInv, TypeOK, Sent, Alive
      <4>2. draft[k] = post[p].text
        BY <4>1, <1>9, NoneIsNone
      <4>3. waits[k] = p
        BY <4>1, <4>2 DEF RoomInv, SentOnce
      <4>4. k # kind
        BY <4>3, <1>3, NoneIsNone
      <4> QED
        BY <4>3, <4>4, <1>8
    <3> QED
      BY <3>1, <3>2
  <2>4. \A p, q \in Posts :
          p # q /\ Alive(p)' /\ Alive(q)' /\ post'[p].text = post'[q].text
            => post'[p].kind = "evidence"
    BY <2>1, <2>2, <1>5, <1>7 DEF RoomInv, SentOnce
  <2> QED
    BY <2>3, <2>4 DEF SentOnce
<1>16. OffersFit'
  <2>1. UNCHANGED <<role, rows>>
    BY DEF Press, backendVars
  <2>2. \A k, row : Offers(k, row)' <=> Offers(k, row)
    BY <2>1 DEF Offers, AsksMe, StageDecided
  <2> QED
    BY <2>1, <2>2, <1>3, <1>5, <1>7 DEF RoomInv, OffersFit
<1> QED
  BY <1>10, <1>11, <1>12, <1>13, <1>14, <1>15, <1>16 DEF RoomInv

-----------------------------------------------------------------------------
(* The rows.                                                                 *)

(* A reply is always taken.                                                  *)
LEMMA ReplyTaken ==
  ASSUME NEW row \in Rows, NEW side
  PROVE  Reply(row, side) \in Rows
<1> DEFINE after == ApplyCaseEvent(row.status, row.asks, "reply_received")
<1>1. \A edge \in CASE_EDGES : edge[3] \in CaseStatus
  BY DEF CASE_EDGES, CaseStatus
<1>2. after = Illegal \/ after \in CaseStatus
  BY <1>1 DEF ApplyCaseEvent, TakeEdge
<1>3. Reply(row, side) = [row EXCEPT !.status = IF after = Illegal THEN @ ELSE after,
                                     !.open = @ \ {side}]
  BY DEF Reply
<1> HIDE DEF after
<1> QED
  BY <1>2, <1>3 DEF Rows

(* The case machine is deterministic: an edge is what the event does.        *)
LEMMA CaseEdgeIsTaken ==
  ASSUME NEW edge \in CASE_EDGES
  PROVE  TakeEdge(CASE_EDGES, edge[1], edge[2]) = edge[3]
BY DEF TakeEdge, CASE_EDGES

(* The arbiter's request is taken from a case under review, or that awaits   *)
(* an answer, as long as there are requests left.                            *)
LEMMA RequestTaken ==
  ASSUME NEW row \in Rows, NEW side \in Parties,
         row.status \in {"AWAITING_RESPONSE", "UNDER_REVIEW"}, row.asks # MAX_INFO_REQUESTS
  PROVE  Request(row, side) \in Rows
<1> DEFINE to == ReviewThen(row.status, row.asks, "request_info")
<1>1. row.asks \in 0..MAX_INFO_REQUESTS /\ row.asks < MAX_INFO_REQUESTS
      /\ row.asks + 1 \in 0..MAX_INFO_REQUESTS
  BY MaxInfoRequestsAssumption DEF Rows
<1>2. /\ <<"AWAITING_RESPONSE", "deadline_passed", "UNDER_REVIEW">> \in CASE_EDGES
      /\ <<"UNDER_REVIEW", "request_info", "AWAITING_RESPONSE">> \in CASE_EDGES
  BY DEF CASE_EDGES
<1>3. ApplyCaseEvent("AWAITING_RESPONSE", row.asks, "deadline_passed") = "UNDER_REVIEW"
  BY <1>2, CaseEdgeIsTaken DEF ApplyCaseEvent
<1>4. TakeEdge(CASE_EDGES, "UNDER_REVIEW", "request_info") = "AWAITING_RESPONSE"
  BY <1>2, CaseEdgeIsTaken
<1>5. to = "AWAITING_RESPONSE"
  BY <1>1, <1>3, <1>4, MaxInfoRequestsAssumption DEF ReviewThen, ApplyCaseEvent
<1>6. Request(row, side) = [row EXCEPT !.status = to, !.asks = @ + 1, !.open = @ \cup {side}]
  BY DEF Request
<1> HIDE DEF to
<1>7. Request(row, side) =
        [status |-> to, asks |-> row.asks + 1, open |-> row.open \cup {side}]
  BY <1>6 DEF Rows
<1>8. row.open \cup {side} \in SUBSET Parties
  BY DEF Rows
<1> QED
  BY <1>1, <1>5, <1>7, <1>8 DEF Rows, CaseStatus

LEMMA TurnsType ==
  ASSUME RoomInv, turns < MaxTurns, turns' = turns + 1
  PROVE  turns' \in 0..MaxTurns
<1>1. turns \in 0..MaxTurns
  BY DEF RoomInv, TypeOK
<1> QED
  BY <1>1, BoundsAssumption

LEMMA OthersStepKeeps ==
  ASSUME RoomInv, NEW c \in Cases, OthersStep(c)
  PROVE  RoomInv'
<1>1. PICK row \in OthersRows(rows[c]) : rows' = [rows EXCEPT ![c] = row]
  BY DEF OthersStep
<1>2. row \in Rows
  BY DEF OthersRows
<1>3. rows' \in [Cases -> Rows]
  BY <1>1, <1>2 DEF RoomInv, TypeOK
<1>4. turns' \in 0..MaxTurns
  BY TurnsType DEF OthersStep
<1>5. TypeOK'
  BY <1>3, <1>4 DEF RoomInv, TypeOK, OthersStep, whereVars, roomVars, composerVars
<1> QED
  BY <1>5, RoomUntouched, PostsUntouched, OffersUntouched
  DEF RoomInv, OthersStep, whereVars, roomVars, composerVars

-----------------------------------------------------------------------------
(* A payment that moved.                                                     *)

LEMMA PayoutMovedKeeps ==
  ASSUME RoomInv, PayoutMoved
  PROVE  RoomInv'
<1>1. turns' \in 0..MaxTurns
  BY TurnsType DEF PayoutMoved
<1>2. timers' \in [Cases -> 0..MaxTimers]
  BY BoundsAssumption DEF PayoutMoved
<1>3. RoomTypes' /\ AnswersFit' /\ RoomFits' /\ UNCHANGED <<screen, picked>>
  <2>1. CASE Reload
    BY <2>1, ReloadFits
  <2>2. CASE UNCHANGED <<screen, picked, roomVars>>
    BY <2>2, RoomUntouched DEF RoomInv, RoomTypes, TypeOK, roomVars
  <2> QED
    BY <2>1, <2>2 DEF PayoutMoved
<1>4. TypeOK'
  BY <1>1, <1>2, <1>3 DEF RoomTypes, RoomInv, TypeOK, PayoutMoved, composerVars
<1> QED
  BY <1>3, <1>4, PostsUntouched, OffersUntouched DEF RoomInv, PayoutMoved, composerVars

(* A timer's request for another case than the one picked is not taken for   *)
(* the one last made.                                                        *)
LEMMA TimerFiresKeeps ==
  ASSUME RoomInv, NEW c \in Cases, TimerFires(c)
  PROVE  RoomInv'
<1>1. timers' \in [Cases -> 0..MaxTimers]
  <2>1. timers \in [Cases -> 0..MaxTimers] /\ timers[c] \in 0..MaxTimers
    BY DEF RoomInv, TypeOK
  <2>2. timers[c] - 1 \in 0..MaxTimers /\ timers' = [timers EXCEPT ![c] = timers[c] - 1]
    BY <2>1, BoundsAssumption DEF TimerFires
  <2> QED
    BY <2>1, <2>2
<1>2. RoomTypes' /\ AnswersFit' /\ RoomFits'
  <2>1. CASE c = picked
    <3>1. Fetch(c) /\ UNCHANGED picked
      BY <2>1 DEF TimerFires
    <3>2. /\ RoomTypes' /\ AnswersFit'
          /\ latest' \in Loads /\ load'[latest'] # None /\ load'[latest'].case = c
      BY <3>1, FetchAsks DEF RoomInv
    <3> QED
      BY <2>1, <3>1, <3>2, NoneIsNone DEF RoomFits
  <2>2. CASE c # picked
    <3>1. Send(c) /\ UNCHANGED <<latest, missed, screen, picked>>
      BY <2>2 DEF TimerFires
    <3>2. /\ load' \in [Loads -> Requests \cup {None}] /\ AnswersFit' /\ UNCHANGED shown
          /\ \A l \in Loads : load[l] # None => load'[l] = load[l]
      BY <3>1, SendAsks DEF RoomInv
    <3>3. RoomTypes'
      BY <3>1, <3>2 DEF RoomInv, TypeOK, RoomTypes
    <3>4. RoomFits'
      BY <3>1, <3>2 DEF RoomInv, TypeOK, RoomFits
    <3> QED
      BY <3>2, <3>3, <3>4
  <2> QED
    BY <2>1, <2>2
<1>3. TypeOK'
  BY <1>1, <1>2 DEF RoomTypes, RoomInv, TypeOK, TimerFires, backendVars, composerVars
<1> QED
  BY <1>2, <1>3, PostsUntouched, OffersUntouched
  DEF RoomInv, TimerFires, backendVars, composerVars

-----------------------------------------------------------------------------
(* The handlers.                                                             *)

(* A post that is taken goes on record, one that is refused does not.        *)
LEMMA HandleKeeps ==
  ASSUME RoomInv, NEW p \in Posts, Handle(p)
  PROVE  RoomInv'
<1> DEFINE c == post[p].to
<1>1. /\ post \in [Posts -> Sent \cup {None}] /\ post[p] \in Sent /\ post[p].at = "sent"
      /\ rows \in [Cases -> Rows] /\ log \in [Cases -> SUBSET Posts]
  BY DEF RoomInv, TypeOK, Handle
<1>2. c \in Cases /\ post[p].kind \in Composers
  BY <1>1 DEF Sent
<1>4. PICK at \in {"recorded", "refused"} :
        /\ post' = [post EXCEPT ![p].at = at, ![p].seen = None]
        /\ at = "recorded" => log' = [log EXCEPT ![c] = @ \cup {p}]
        /\ at = "refused" => log' = log
  BY DEF Handle
<1>5. rows' \in [Cases -> Rows]
  <2>1. CASE UNCHANGED rows
    BY <2>1, <1>1
  <2>2. CASE \E row \in Taken(post[p].kind, rows[c]) : rows' = [rows EXCEPT ![c] = row]
    <3>1. Taken(post[p].kind, rows[c]) \subseteq Rows
      BY DEF Taken
    <3> QED
      BY <2>2, <3>1, <1>1, <1>2
  <2> QED
    BY <2>1, <2>2 DEF Handle
<1> HIDE DEF c
<1>6. /\ post'[p] \in Sent /\ post'[p].at = at /\ post'[p].text = post[p].text
      /\ post'[p].kind = post[p].kind
      /\ \A q \in Posts \ {p} : post'[q] = post[q]
      /\ post' \in [Posts -> Sent \cup {None}]
  BY <1>1, <1>4 DEF Sent
<1>7. post'[p] # None /\ post[p] # None
  BY <1>1, <1>6, NoneIsNone
<1>8. log' \in [Cases -> SUBSET Posts]
  BY <1>1, <1>2, <1>4
<1>9. UNCHANGED <<role, turns, whereVars, roomVars, draft, waits>>
  BY DEF Handle
<1>10. TypeOK'
  BY <1>5, <1>6, <1>8, <1>9 DEF RoomInv, TypeOK, whereVars, roomVars
<1>11. AnswersFit' /\ RoomFits'
  BY <1>9, RoomUntouched DEF RoomInv, whereVars
<1>12. RecordsFit'
  <2>1. \A q \in Posts : OnRecord(q)' => OnRecord(q) \/ (q = p /\ at = "recorded")
    <3>1. \A d \in Cases, q \in Posts : q \in log'[d] => q \in log[d] \/ q = p
      BY <1>1, <1>2, <1>4
    <3>2. at = "refused" => log' = log
      BY <1>4
    <3> QED
      BY <3>1, <3>2 DEF OnRecord
  <2>2. \A q \in Posts : OnRecord(q) => q # p
    BY <1>1 DEF RoomInv, RecordsFit
  <2> QED
    BY <2>1, <2>2, <1>6, <1>7 DEF RoomInv, RecordsFit
<1>13. \A q \in Posts :
         /\ post'[q] # None <=> post[q] # None
         /\ post[q] # None => post'[q].text = post[q].text /\ post'[q].kind = post[q].kind
         /\ Alive(q)' <=> Alive(q)
  BY <1>1, <1>6, <1>7 DEF Alive, InTheAir
<1>14. TextsFit'
  BY <1>9, <1>13 DEF RoomInv, TextsFit
<1>15. WaitsFit'
  <2>1. \A k \in Composers : waits[k] # None => waits[k] \in Posts
    BY DEF RoomInv, TypeOK
  <2> QED
    BY <2>1, <1>6, <1>9, <1>13 DEF RoomInv, WaitsFit, InTheAir
<1>16. SentOnce'
  BY <1>9, <1>13 DEF RoomInv, SentOnce, Alive
<1>17. OffersFit'
  <2>1. \A k, row : Offers(k, row)' <=> Offers(k, row)
    BY <1>9 DEF Offers, AsksMe, StageDecided
  <2> QED
    BY <2>1, <1>6 DEF RoomInv, OffersFit
<1> QED
  BY <1>10, <1>11, <1>12, <1>14, <1>15, <1>16, <1>17 DEF RoomInv

-----------------------------------------------------------------------------
(* The answers to this seat's posts.                                         *)

(* A post whose answer came, or failed to: what it was is still known.       *)
LEMMA AnsweredPost ==
  ASSUME RoomInv, NEW p \in Posts, post[p] # None, NEW at \in {"told", "rejected", "lost"},
         \/ post' = [post EXCEPT ![p].at = at]
         \/ post' = [post EXCEPT ![p].at = at, ![p].seen = None]
  PROVE  /\ post' \in [Posts -> Sent \cup {None}]
         /\ post'[p] # None /\ post'[p].at = at
         /\ \A q \in Posts :
              /\ q # p => post'[q] = post[q]
              /\ post'[q] # None <=> post[q] # None
              /\ post[q] # None => post'[q].text = post[q].text /\ post'[q].kind = post[q].kind
<1>1. post \in [Posts -> Sent \cup {None}] /\ post[p] \in Sent
  BY DEF RoomInv, TypeOK
<1>2. /\ post'[p] \in Sent /\ post'[p].at = at /\ post'[p].text = post[p].text
      /\ post'[p].kind = post[p].kind
      /\ \A q \in Posts \ {p} : post'[q] = post[q]
      /\ post' \in [Posts -> Sent \cup {None}]
  BY <1>1 DEF Sent
<1>3. post'[p] # None
  BY <1>2, NoneIsNone
<1> QED
  BY <1>2, <1>3

LEMMA ToldKeeps ==
  ASSUME RoomInv, NEW p \in Posts, Told(p)
  PROVE  RoomInv'
<1> DEFINE kind == post[p].kind
<1>1. /\ post[p] # None /\ post[p].at = "recorded" /\ post' = [post EXCEPT ![p].at = "told"]
      /\ waits' = [waits EXCEPT ![kind] = IF @ = p THEN None ELSE @]
      /\ draft' = [draft EXCEPT ![kind] = IF waits[kind] = p \/ kind = "evidence" THEN None ELSE @]
      /\ UNCHANGED <<role, backendVars, moves, timers>>
  BY DEF Told
<1>2. /\ post' \in [Posts -> Sent \cup {None}]
      /\ post'[p] # None /\ post'[p].at = "told"
      /\ \A q \in Posts :
           /\ q # p => post'[q] = post[q]
           /\ post'[q] # None <=> post[q] # None
           /\ post[q] # None => post'[q].text = post[q].text /\ post'[q].kind = post[q].kind
  BY <1>1, AnsweredPost
<1>3. /\ kind \in Composers /\ draft \in [Composers -> Texts \cup {None}]
      /\ waits \in [Composers -> Posts \cup {None}]
  BY <1>1 DEF RoomInv, TypeOK, Sent
<1> HIDE DEF kind
<1>4. /\ draft' \in [Composers -> Texts \cup {None}] /\ waits' \in [Composers -> Posts \cup {None}]
      /\ \A k \in Composers \ {kind} : draft'[k] = draft[k] /\ waits'[k] = waits[k]
      /\ waits'[kind] = IF waits[kind] = p THEN None ELSE waits[kind]
      /\ draft'[kind] = IF waits[kind] = p \/ kind = "evidence" THEN None ELSE draft[kind]
  BY <1>1, <1>3
<1>5. RoomTypes' /\ AnswersFit' /\ RoomFits' /\ UNCHANGED <<screen, picked>>
  BY ReloadFits DEF Told
<1>6. TypeOK'
  BY <1>1, <1>2, <1>4, <1>5 DEF RoomTypes, RoomInv, TypeOK, backendVars
<1>7. RecordsFit'
  BY <1>1, <1>2 DEF RoomInv, RecordsFit, OnRecord, backendVars
<1>8. \A q \in Posts : post[q] # None => post[q].text # None
  BY NoneIsNone DEF RoomInv, TypeOK, Sent
<1>9. \A k \in Composers : draft'[k] # None => draft'[k] = draft[k]
  BY <1>4
<1>10. TextsFit'
  <2>1. \A j, k \in Composers : draft'[j] # None /\ draft'[j] = draft'[k] => j = k
    BY <1>9 DEF RoomInv, TextsFit
  <2>2. \A q \in Posts, k \in Composers :
          post'[q] # None /\ draft'[k] = post'[q].text => k = post'[q].kind
    BY <1>2, <1>8, <1>9 DEF RoomInv, TextsFit
  <2>3. \A q, r \in Posts :
          post'[q] # None /\ post'[r] # None /\ post'[q].text = post'[r].text
            => post'[q].kind = post'[r].kind
    BY <1>2 DEF RoomInv, TextsFit
  <2> QED
    BY <2>1, <2>2, <2>3 DEF TextsFit
<1>11. \A k \in Composers : waits'[k] # None => waits'[k] = waits[k] /\ waits[k] # p /\ waits[k] \in Posts
  <2> SUFFICES ASSUME NEW k \in Composers, waits'[k] # None
               PROVE  waits'[k] = waits[k] /\ waits[k] # p /\ waits[k] \in Posts
    OBVIOUS
  <2>1. CASE k = kind
    BY <2>1, <1>3, <1>4
  <2>2. CASE k # kind
    <3>1. waits'[k] = waits[k] /\ waits[k] \in Posts /\ post[waits[k]].kind = k
      BY <2>2, <1>3, <1>4 DEF RoomInv, WaitsFit
    <3> QED
      BY <3>1, <2>2 DEF kind
  <2> QED
    BY <2>1, <2>2
<1>12. WaitsFit'
  BY <1>2, <1>11 DEF RoomInv, WaitsFit
<1>13. \A q \in Posts : Alive(q)' => Alive(q)
  BY <1>1, <1>2 DEF Alive, InTheAir
<1>14. SentOnce'
  <2>1. \A q \in Posts, k \in Composers :
          Alive(q)' /\ draft'[k] = post'[q].text /\ k # "evidence" => waits'[k] = q
    <3> SUFFICES ASSUME NEW q \in Posts, NEW k \in Composers,
                        Alive(q)', draft'[k] = post'[q].text, k # "evidence"
                 PROVE  waits'[k] = q
      OBVIOUS
    <3>1. Alive(q) /\ post'[q].text = post[q].text /\ draft'[k] = draft[k]
      BY <1>2, <1>8, <1>9, <1>13 DEF Alive
    <3>2. waits[k] = q
      BY <3>1 DEF RoomInv, SentOnce
    <3>3. draft'[k] # None
      BY <3>1, <1>8 DEF Alive
    <3> QED
      BY <3>2, <3>3, <1>2, <1>4
  <2>2. \A q, r \in Posts :
          q # r /\ Alive(q)' /\ Alive(r)' /\ post'[q].text = post'[r].text
            => post'[q].kind = "evidence"
    <3>1. \A q \in Posts : Alive(q) => post'[q].text = post[q].text /\ post'[q].kind = post[q].kind
      BY <1>2 DEF Alive
    <3> QED
      BY <3>1, <1>13 DEF RoomInv, SentOnce
  <2> QED
    BY <2>1, <2>2 DEF SentOnce
<1>15. OffersFit'
  <2>1. UNCHANGED <<role, rows>>
    BY <1>1 DEF backendVars
  <2>2. \A k, row : Offers(k, row)' <=> Offers(k, row)
    BY <2>1 DEF Offers, AsksMe, StageDecided
  <2> QED
    BY <2>1, <2>2, <1>2 DEF RoomInv, OffersFit
<1> QED
  BY <1>5, <1>6, <1>7, <1>10, <1>12, <1>14, <1>15 DEF RoomInv

(* The text of a request comes back, that of another composer was kept.      *)
LEMMA FailedKeeps ==
  ASSUME RoomInv, NEW p \in Posts, Failed(p)
  PROVE  RoomInv'
<1> DEFINE kind == post[p].kind
           text == post[p].text
<1>1. PICK at \in {"rejected", "lost"} :
        /\ \/ at = "rejected" /\ post[p].at = "refused" /\ post' = [post EXCEPT ![p].at = at]
           \/ /\ at = "lost" /\ post[p].at \in InTheAir
              /\ post' = [post EXCEPT ![p].at = at, ![p].seen = None]
  BY DEF Failed, InTheAir
<1>2. /\ post[p] # None
      /\ waits' = [waits EXCEPT ![kind] = IF @ = p THEN None ELSE @]
      /\ draft' = [draft EXCEPT ![kind] = IF kind = "request" THEN text ELSE @]
      /\ UNCHANGED <<role, backendVars, whereVars, roomVars>>
  BY DEF Failed
<1>3. /\ post' \in [Posts -> Sent \cup {None}]
      /\ post'[p] # None /\ post'[p].at = at
      /\ \A q \in Posts :
           /\ q # p => post'[q] = post[q]
           /\ post'[q] # None <=> post[q] # None
           /\ post[q] # None => post'[q].text = post[q].text /\ post'[q].kind = post[q].kind
  BY <1>1, <1>2, AnsweredPost
<1>4. /\ kind \in Composers /\ draft \in [Composers -> Texts \cup {None}] /\ text \in Texts
      /\ waits \in [Composers -> Posts \cup {None}]
  BY <1>2 DEF RoomInv, TypeOK, Sent
<1>5. \A q \in Posts, k \in Composers :
        post[q] # None =>
          /\ draft[k] = post[q].text => k = post[q].kind
          /\ post[q].text = text => post[q].kind = kind
  BY <1>2 DEF RoomInv, TextsFit
<1> HIDE DEF kind, text
<1>6. /\ draft' \in [Composers -> Texts \cup {None}] /\ waits' \in [Composers -> Posts \cup {None}]
      /\ \A k \in Composers \ {kind} : draft'[k] = draft[k] /\ waits'[k] = waits[k]
      /\ waits'[kind] = IF waits[kind] = p THEN None ELSE waits[kind]
      /\ draft'[kind] = IF kind = "request" THEN text ELSE draft[kind]
  BY <1>2, <1>4
<1>7. TypeOK'
  BY <1>2, <1>3, <1>6 DEF RoomInv, TypeOK, backendVars, whereVars, roomVars
<1>8. AnswersFit' /\ RoomFits'
  BY <1>2, RoomUntouched DEF RoomInv, whereVars
<1>9. RecordsFit'
  <2>1. \A q \in Posts : OnRecord(q)' => OnRecord(q)
    BY <1>2 DEF OnRecord, backendVars
  <2>2. OnRecord(p) => at = "lost"
    BY <1>1 DEF RoomInv, RecordsFit
  <2> QED
    BY <2>1, <2>2, <1>3 DEF RoomInv, RecordsFit
<1>10. \A k \in Composers : draft'[k] = draft[k] \/ (k = kind /\ kind = "request" /\ draft'[k] = text)
  <2>1. CASE kind = "request"
    BY <2>1, <1>6
  <2>2. CASE kind # "request"
    BY <2>2, <1>6
  <2> QED
    BY <2>1, <2>2
<1>11. TextsFit'
  <2>1. \A j, k \in Composers : draft'[j] # None /\ draft'[j] = draft'[k] => j = k
    <3> SUFFICES ASSUME NEW j \in Composers, NEW k \in Composers,
                        draft'[j] # None, draft'[j] = draft'[k]
                 PROVE  j = k
      OBVIOUS
    <3>1. \A i \in Composers : draft[i] = text => i = kind
      BY <1>2, <1>5 DEF text, kind
    <3> QED
      BY <3>1, <1>10 DEF RoomInv, TextsFit
  <2>2. \A q \in Posts, k \in Composers :
          post'[q] # None /\ draft'[k] = post'[q].text => k = post'[q].kind
    BY <1>3, <1>5, <1>10
  <2>3. \A q, r \in Posts :
          post'[q] # None /\ post'[r] # None /\ post'[q].text = post'[r].text
            => post'[q].kind = post'[r].kind
    BY <1>3 DEF RoomInv, TextsFit
  <2> QED
    BY <2>1, <2>2, <2>3 DEF TextsFit
<1>12. \A k \in Composers : waits'[k] # None => waits'[k] = waits[k] /\ waits[k] # p /\ waits[k] \in Posts
  <2> SUFFICES ASSUME NEW k \in Composers, waits'[k] # None
               PROVE  waits'[k] = waits[k] /\ waits[k] # p /\ waits[k] \in Posts
    OBVIOUS
  <2>1. CASE k = kind
    BY <2>1, <1>4, <1>6
  <2>2. CASE k # kind
    <3>1. waits'[k] = waits[k] /\ waits[k] \in Posts /\ post[waits[k]].kind = k
      BY <2>2, <1>4, <1>6 DEF RoomInv, WaitsFit
    <3> QED
      BY <3>1, <2>2 DEF kind
  <2> QED
    BY <2>1, <2>2
<1>13. WaitsFit'
  BY <1>3, <1>12 DEF RoomInv, WaitsFit
<1>14. Alive(p) /\ \A q \in Posts : Alive(q)' => Alive(q) /\ q # p
  BY <1>1, <1>2, <1>3 DEF Alive, InTheAir
<1>15. SentOnce'
  <2>1. \A q \in Posts, k \in Composers :
          Alive(q)' /\ draft'[k] = post'[q].text /\ k # "evidence" => waits'[k] = q
    <3> SUFFICES ASSUME NEW q \in Posts, NEW k \in Composers,
                        Alive(q)', draft'[k] = post'[q].text, k # "evidence"
                 PROVE  waits'[k] = q
      OBVIOUS
    <3>1. Alive(q) /\ q # p /\ post'[q].text = post[q].text
      BY <1>3, <1>14 DEF Alive
    <3>2. CASE k = kind /\ kind = "request" /\ draft'[k] = text
      BY <3>1, <3>2, <1>14 DEF RoomInv, SentOnce, text, kind
    <3>3. CASE draft'[k] = draft[k]
      <4>1. waits[k] = q
        BY <3>1, <3>3 DEF RoomInv, SentOnce
      <4> QED
        BY <4>1, <3>1, <1>6
    <3> QED
      BY <3>2, <3>3, <1>10
  <2>2. \A q, r \in Posts :
          q # r /\ Alive(q)' /\ Alive(r)' /\ post'[q].text = post'[r].text
            => post'[q].kind = "evidence"
    <3>1. \A q \in Posts : Alive(q) => post'[q].text = post[q].text /\ post'[q].kind = post[q].kind
      BY <1>3 DEF Alive
    <3> QED
      BY <3>1, <1>14 DEF RoomInv, SentOnce
  <2> QED
    BY <2>1, <2>2 DEF SentOnce
<1>16. OffersFit'
  <2>1. UNCHANGED <<role, rows>>
    BY <1>2 DEF backendVars
  <2>2. \A k, row : Offers(k, row)' <=> Offers(k, row)
    BY <2>1 DEF Offers, AsksMe, StageDecided
  <2> QED
    BY <2>1, <2>2, <1>3 DEF RoomInv, OffersFit
<1> QED
  BY <1>7, <1>8, <1>9, <1>11, <1>13, <1>15, <1>16 DEF RoomInv

-----------------------------------------------------------------------------
LEMMA RoomInductive == RoomInv /\ [Next]_vars => RoomInv'
<1> SUFFICES ASSUME RoomInv, [Next]_vars PROVE RoomInv'
  OBVIOUS
<1>1. CASE LoadStep
  BY <1>1, ReadKeeps, ArriveKeeps DEF LoadStep
<1>2. CASE PostStep
  BY <1>2, HandleKeeps, ToldKeeps, FailedKeeps DEF PostStep
<1>3. CASE Leave \/ Go \/ Refresh \/ PayoutMoved
  BY <1>3, LeaveKeeps, GoKeeps, RefreshKeeps, PayoutMovedKeeps
<1>4. CASE \E c \in Cases : View(c) \/ OthersStep(c) \/ TimerFires(c)
  BY <1>4, ViewKeeps, OthersStepKeeps, TimerFiresKeeps
<1>5. CASE \E kind \in Composers : Press(kind) \/ \E t \in Texts : Write(kind, t)
  BY <1>5, PressKeeps, WriteKeeps
<1>6. CASE UNCHANGED vars
  <2>1. UNCHANGED <<screen, picked>> /\ UNCHANGED <<role, rows, log, post>>
        /\ UNCHANGED roomVars /\ UNCHANGED composerVars
    BY <1>6 DEF vars, whereVars, backendVars, composerVars
  <2>2. TypeOK'
    BY <1>6 DEF RoomInv, TypeOK, vars, backendVars, whereVars, roomVars, composerVars
  <2> QED
    BY <2>1, <2>2, RoomUntouched, PostsUntouched, OffersUntouched DEF RoomInv
<1> QED
  BY <1>1, <1>2, <1>3, <1>4, <1>5, <1>6 DEF Next

LEMMA RoomAlways == Spec => []RoomInv
<1> QED
  BY RoomInitially, RoomInductive, PTL DEF Spec

(* Every variable of CaseRoom keeps to its set, whatever is written, loaded  *)
(* and refused, in any order.                                                *)
THEOREM RoomTypeCorrect == Spec => []TypeOK
<1>1. RoomInv => TypeOK
  BY DEF RoomInv
<1> QED
  BY <1>1, RoomAlways, PTL

(* The room shows another case than the one picked only while that is on its *)
(* way or after a load went wrong or was overtaken, be it by a timer; a text *)
(* is on record twice only after a lost answer, or as evidence.              *)
THEOREM RoomStaysHonest == Spec => []RoomIsHonest
<1>1. RoomInv => ShownIsPicked
  <2> SUFFICES ASSUME RoomInv, screen = "case", shown # None, picked # None,
                      shown.case # picked, missed = {}
               PROVE  Fetching(picked)
    BY DEF ShownIsPicked, IsPicked
  <2>1. latest \in Loads /\ load[latest] # None /\ load[latest].case = picked
    BY DEF RoomInv, RoomFits, TypeOK
  <2> QED
    BY <2>1 DEF Fetching
<1>2. RoomInv => NoTextTwice
  <2> SUFFICES ASSUME RoomInv, NEW p \in Posts, NEW q \in Posts, p # q,
                      OnRecord(p), OnRecord(q), post[p].text = post[q].text,
                      "lost" \notin {post[p].at, post[q].at}
               PROVE  {post[p].kind, post[q].kind} = {"evidence"}
    BY DEF NoTextTwice
  <2>1. Alive(p) /\ Alive(q)
    BY DEF RoomInv, RecordsFit, Alive, InTheAir
  <2> QED
    BY <2>1 DEF RoomInv, SentOnce
<1>3. RoomInv => RoomIsHonest
  BY <1>1, <1>2 DEF RoomIsHonest
<1> QED
  BY <1>3, RoomAlways, PTL

(* What the room offered and the case still allows is never refused, but for *)
(* a request when all of them are used up or the case is OPEN.               *)
LEMMA OfferedIsTaken ==
  ASSUME RoomInv, NEW p \in Posts, Handle(p), post'[p].at = "refused"
  PROVE  ~ Surprise(p)
<1> DEFINE c == post[p].to
           kind == post[p].kind
           row == rows[c]
<1> SUFFICES ASSUME post[p].seen.case = c, post[p].seen.row = row,
                    kind = "request" => row.asks # MAX_INFO_REQUESTS /\ row.status # "OPEN"
             PROVE  FALSE
  BY DEF Surprise
<1>1. /\ post \in [Posts -> Sent \cup {None}] /\ post[p] \in Sent /\ post[p].at = "sent"
      /\ rows \in [Cases -> Rows] /\ role \in Roles
  BY DEF RoomInv, TypeOK, Handle
<1>2. c \in Cases /\ kind \in Composers /\ row \in Rows
  BY <1>1 DEF Sent
<1>3. Offers(kind, row)
  BY <1>1, NoneIsNone DEF RoomInv, OffersFit
<1>4. Taken(kind, row) = {}
  <2>1. ~ (post' = [post EXCEPT ![p].at = "recorded", ![p].seen = None])
    BY <1>1 DEF Sent
  <2> QED
    BY <2>1 DEF Handle
<1> HIDE DEF c, kind, row
<1>5. CASE kind \in {"response", "message"}
  <2>1. Reply(row, MySide) \in Rows
    BY <1>2, ReplyTaken
  <2> QED
    BY <2>1, <1>4, <1>5 DEF Taken
<1>6. CASE kind = "evidence"
  <2>1. row.status # "CLOSED"
    BY <1>3, <1>6 DEF Offers, StageDecided
  <2>2. [row EXCEPT !.status = "CLOSED"].status = "CLOSED"
    BY <1>2 DEF Rows
  <2>3. row \in {row} \ {[row EXCEPT !.status = "CLOSED"]}
    BY <2>1, <2>2
  <2>4. Taken(kind, row) = ({row} \ {[row EXCEPT !.status = "CLOSED"]}) \cap Rows
    BY <1>6 DEF Taken
  <2> QED
    BY <2>3, <2>4, <1>2, <1>4
<1>7. CASE kind = "request"
  <2>1. row.status \in {"AWAITING_RESPONSE", "UNDER_REVIEW"}
    BY <1>2, <1>3, <1>7 DEF Offers, StageDecided, Rows, CaseStatus
  <2>2. Request(row, "customer") \in Rows
    BY <2>1, <1>2, <1>7, RequestTaken DEF Parties, kind
  <2> QED
    BY <2>2, <1>4, <1>7 DEF Taken, Parties
<1> QED
  BY <1>2, <1>5, <1>6, <1>7 DEF Composers

(* What the room offers the backend takes, unless the case has moved on, the *)
(* text went to another case, the requests are used up or a request is made  *)
(* of a case cut off OPEN.                                                   *)
THEOREM RefusalsHaveReasons == Spec => RefusalsAreExplained
<1>1. RoomInv /\ [Next]_vars =>
        [\A p \in Posts : Handle(p) /\ post'[p].at = "refused" => ~ Surprise(p)]_vars
  BY OfferedIsTaken
<1> QED
  BY <1>1, RoomAlways, PTL DEF Spec, RefusalsAreExplained

-----------------------------------------------------------------------------
(* What was told to be on record shows.                                      *)

Known(p) == post[p] # None /\ post[p].at = "told"

(* A post that was taken, and not lost, is on the case it was for.           *)
PostsOnRecord ==
  \A p \in Posts :
    post[p] # None /\ post[p].at \in {"recorded", "told"} => p \in log[post[p].to]

(* Whoever is in the room when told, or comes there afterwards, has it read  *)
(* once more: the answer on its way, or else the room, has the post.         *)
ShowsFit ==
  \A p \in Posts : Known(p) /\ screen = "case" =>
    IF latest # None
    THEN /\ load[latest] # None
         /\ load[latest].case = post[p].to /\ load[latest].answer # None
              => p \in load[latest].answer.log
    ELSE picked = post[p].to /\ missed = {} => shown # None /\ p \in shown.log

ShowsInv == PostsOnRecord /\ ShowsFit

(* The other steps do not tell of a post, and take none off the record.      *)
LEMMA OnRecordUntouched ==
  ASSUME PostsOnRecord, UNCHANGED <<log, post>>
  PROVE  PostsOnRecord' /\ \A p \in Posts : Known(p)' => Known(p) /\ post'[p].to = post[p].to
BY DEF PostsOnRecord, Known

LEMMA ShowsUntouched ==
  ASSUME ShowsFit, UNCHANGED <<screen, picked, roomVars>>,
         \A p \in Posts : Known(p)' => Known(p) /\ post'[p].to = post[p].to
  PROVE  ShowsFit'
BY DEF ShowsFit, roomVars

(* After AskPicked nothing has been read yet, or nothing is picked.          *)
LEMMA AskPickedShows ==
  ASSUME RoomInv, TypeOK', AskPicked
  PROVE  ShowsFit'
<1>1. picked' \in Cases \cup {None}
      /\ \A p \in Posts : post'[p] # None => post'[p].to \in Cases /\ post'[p].to # None
  BY NoneIsNone DEF TypeOK, Sent
<1>2. ASSUME NEW case \in Cases, Fetch(case) PROVE ShowsFit'
  <2>1. latest' # None /\ load'[latest'] # None /\ load'[latest'].answer = None
    BY <1>2, FetchAsks, NoneIsNone DEF RoomInv
  <2> QED
    BY <2>1 DEF ShowsFit
<1>3. CASE picked' # None
  BY <1>1, <1>2, <1>3 DEF AskPicked, Ask
<1>4. CASE picked' = None
  <2>1. PICK case \in Cases \cup {None} : Ask(case)
    BY <1>4 DEF AskPicked
  <2>2. CASE case # None
    BY <2>1, <2>2, <1>2 DEF Ask
  <2>3. CASE case = None
    BY <2>1, <2>3, <1>1, <1>4 DEF Ask, ShowsFit, Known
  <2> QED
    BY <2>2, <2>3
<1> QED
  BY <1>3, <1>4

(* What is read of a case has the posts that are on its record.              *)
LEMMA ReadShows ==
  ASSUME RoomInv, ShowsInv, NEW l \in Loads, Read(l)
  PROVE  ShowsInv'
<1> DEFINE c == load[l].case
           answer == [case |-> c, row |-> rows[c], log |-> log[c]]
<1>1. load' = [load EXCEPT ![l].answer = answer] /\ load \in [Loads -> Requests \cup {None}]
      /\ load[l] \in Requests
  BY DEF Read, RoomInv, TypeOK
<1>2. load'[l] = [load[l] EXCEPT !.answer = answer] /\ \A k \in Loads \ {l} : load'[k] = load[k]
  BY <1>1
<1>3. load'[l].case = c /\ load'[l].answer = answer /\ load'[l] \in Requests
  <2>1. answer \in Snapshots
    BY <1>1 DEF RoomInv, TypeOK, Snapshots, Requests
  <2> QED
    BY <1>1, <1>2, <2>1 DEF Requests
<1>4. load'[l] # None /\ answer.log = log[c]
  BY <1>3, NoneIsNone
<1>5. /\ UNCHANGED <<log, post, screen, picked, shown, latest, missed>>
      /\ latest \in Loads \cup {None}
  BY DEF Read, backendVars, whereVars, composerVars, RoomInv, TypeOK
<1>6. PostsOnRecord' /\ \A p \in Posts : Known(p)' => Known(p) /\ post'[p].to = post[p].to
  BY <1>5, OnRecordUntouched DEF ShowsInv
<1> HIDE DEF c, answer
<1>7. \A p \in Posts : Known(p) /\ post[p].to = c => p \in answer.log
  BY <1>4 DEF ShowsInv, PostsOnRecord, Known
<1>8. ShowsFit'
  <2> SUFFICES ASSUME NEW p \in Posts, Known(p), screen = "case"
               PROVE  IF latest # None
                      THEN /\ load'[latest] # None
                           /\ load'[latest].case = post[p].to /\ load'[latest].answer # None
                                => p \in load'[latest].answer.log
                      ELSE picked = post[p].to /\ missed = {} => shown # None /\ p \in shown.log
    BY <1>5, <1>6 DEF ShowsFit
  <2>1. CASE latest = l
    BY <2>1, <1>3, <1>4, <1>7, NoneIsNone
  <2>2. CASE latest # l
    BY <2>2, <1>2, <1>5 DEF ShowsInv, ShowsFit
  <2> QED
    BY <2>1, <2>2
<1> QED
  BY <1>6, <1>8 DEF ShowsInv

(* The answer awaited has the post; any other one is overtaken or awaits it. *)
LEMMA ArriveShows ==
  ASSUME RoomInv, ShowsInv, NEW l \in Loads, NEW ok \in BOOLEAN, Arrive(l, ok)
  PROVE  ShowsInv'
<1>1. /\ UNCHANGED <<log, post, screen, picked>> /\ latest \in Loads \cup {None}
      /\ load[l] \in Requests /\ load[l] # None
      /\ \A k \in Loads \ {l} : load'[k] = load[k]
      /\ ok => load[l].answer # None
  BY DEF Arrive, backendVars, whereVars, composerVars, RoomInv, TypeOK
<1>2. PostsOnRecord' /\ \A p \in Posts : Known(p)' => Known(p) /\ post'[p].to = post[p].to
  BY <1>1, OnRecordUntouched DEF ShowsInv
<1>3. ShowsFit'
  <2> SUFFICES ASSUME NEW p \in Posts, Known(p), screen = "case"
               PROVE  IF latest' # None
                      THEN /\ load'[latest'] # None
                           /\ load'[latest'].case = post[p].to /\ load'[latest'].answer # None
                                => p \in load'[latest'].answer.log
                      ELSE picked = post[p].to /\ missed' = {} => shown' # None /\ p \in shown'.log
    BY <1>1, <1>2 DEF ShowsFit
  <2>1. CASE latest = l
    <3> SUFFICES ASSUME picked = post[p].to, missed' = {}
                 PROVE  shown' # None /\ p \in shown'.log
      BY <2>1, NoneIsNone DEF Arrive
    <3>1. picked # None
      BY NoneIsNone DEF RoomInv, TypeOK, Sent, Known
    <3>2. missed = {} => load[l].case = picked
      BY <2>1, <3>1, NoneIsNone DEF RoomInv, RoomFits
    <3>3. ok /\ load[l].case = picked /\ shown' = load[l].answer
      BY <2>1, <3>1, <3>2 DEF Arrive, IsPicked
    <3>4. p \in load[l].answer.log
      BY <2>1, <3>3, <1>1, NoneIsNone DEF ShowsInv, ShowsFit
    <3> QED
      BY <3>3, <3>4, <1>1
  <2>2. CASE latest # l /\ latest # None
    <3>1. latest' = latest /\ load'[latest] = load[latest]
      BY <2>2, <1>1 DEF Arrive
    <3> QED
      BY <2>2, <3>1 DEF ShowsInv, ShowsFit
  <2>3. CASE latest = None
    <3>1. latest' = None /\ (missed' = {} => missed = {} /\ shown' = shown)
      BY <2>3, NoneIsNone DEF Arrive
    <3> QED
      BY <2>3, <3>1 DEF ShowsInv, ShowsFit
  <2> QED
    BY <2>1, <2>2, <2>3
<1> QED
  BY <1>2, <1>3 DEF ShowsInv

(* A post that is taken goes on record, and one that failed is not told.     *)
LEMMA PostShows ==
  ASSUME RoomInv, ShowsInv, TypeOK', NEW p \in Posts, Handle(p) \/ Told(p) \/ Failed(p)
  PROVE  ShowsInv'
<1>1. /\ post \in [Posts -> Sent \cup {None}] /\ post[p] \in Sent /\ post[p] # None
      /\ post[p].to \in Cases /\ log \in [Cases -> SUBSET Posts]
  BY DEF Handle, Told, Failed, RoomInv, TypeOK, Sent
<1>2. /\ \A q \in Posts \ {p} : post'[q] = post[q]
      /\ post'[p].to = post[p].to
      /\ post'[p].at = "told" => Told(p)
      /\ post'[p].at \in {"recorded", "told"} => p \in log'[post[p].to]
      /\ \A c \in Cases : log[c] \subseteq log'[c]
  <2>1. CASE Handle(p)
    <3>1. PICK at \in {"recorded", "refused"} :
            /\ post' = [post EXCEPT ![p].at = at, ![p].seen = None]
            /\ at = "recorded" => log' = [log EXCEPT ![post[p].to] = @ \cup {p}]
            /\ at = "refused" => log' = log
      BY <2>1 DEF Handle
    <3>2. post'[p].at = at /\ post'[p].to = post[p].to
          /\ \A q \in Posts \ {p} : post'[q] = post[q]
      BY <1>1, <3>1 DEF Sent
    <3>3. CASE at = "recorded"
      BY <3>1, <3>2, <3>3, <1>1
    <3>4. CASE at = "refused"
      BY <3>1, <3>2, <3>4
    <3> QED
      BY <3>3, <3>4
  <2>2. CASE Told(p)
    <3>1. post' = [post EXCEPT ![p].at = "told"] /\ post[p].at = "recorded" /\ log' = log
      BY <2>2 DEF Told, backendVars
    <3>2. post'[p].to = post[p].to /\ \A q \in Posts \ {p} : post'[q] = post[q]
      BY <1>1, <3>1 DEF Sent
    <3> QED
      BY <2>2, <3>1, <3>2, <1>1 DEF ShowsInv, PostsOnRecord
  <2>3. CASE Failed(p)
    <3>1. PICK at \in {"rejected", "lost"} :
            \/ post' = [post EXCEPT ![p].at = at]
            \/ post' = [post EXCEPT ![p].at = at, ![p].seen = None]
      BY <2>3 DEF Failed
    <3>2. log' = log
      BY <2>3 DEF Failed, backendVars
    <3> QED
      BY <3>1, <3>2, <1>1 DEF Sent
  <2> QED
    BY <2>1, <2>2, <2>3
<1>3. PostsOnRecord'
  <2>1. \A q \in Posts : post[q] # None => post[q].to \in Cases
    BY DEF RoomInv, TypeOK, Sent
  <2> QED
    BY <2>1, <1>1, <1>2 DEF ShowsInv, PostsOnRecord
<1>4. ShowsFit'
  <2>1. CASE Told(p) /\ screen = "case"
    <3>1. AskPicked
      BY <2>1 DEF Told, Reload
    <3> QED
      BY <3>1, AskPickedShows
  <2>2. CASE Told(p) /\ screen # "case"
    <3>1. screen' # "case"
      BY <2>2 DEF Told, Reload
    <3> QED
      BY <3>1 DEF ShowsFit
  <2>3. CASE ~ Told(p)
    <3>1. \A q \in Posts : Known(q)' => Known(q) /\ post'[q].to = post[q].to
      BY <2>3, <1>1, <1>2 DEF Known
    <3>2. UNCHANGED <<screen, picked, roomVars>>
      BY <2>3 DEF Handle, Failed, whereVars
    <3> QED
      BY <3>1, <3>2, ShowsUntouched DEF ShowsInv
  <2> QED
    BY <2>1, <2>2, <2>3
<1> QED
  BY <1>3, <1>4 DEF ShowsInv

(* Where the seat goes, and what it writes, tells nothing.                   *)
LEMMA SeatShows ==
  ASSUME RoomInv, ShowsInv, TypeOK', UNCHANGED <<log, post>>,
         \/ screen' # "case"
         \/ AskPicked
         \/ UNCHANGED <<screen, picked, roomVars>>
  PROVE  ShowsInv'
<1>1. PostsOnRecord' /\ \A p \in Posts : Known(p)' => Known(p) /\ post'[p].to = post[p].to
  BY OnRecordUntouched DEF ShowsInv
<1>2. CASE screen' # "case"
  BY <1>1, <1>2 DEF ShowsInv, ShowsFit
<1>3. CASE AskPicked
  BY <1>1, <1>3, AskPickedShows DEF ShowsInv
<1>4. CASE UNCHANGED <<screen, picked, roomVars>>
  BY <1>1, <1>4, ShowsUntouched DEF ShowsInv
<1> QED
  BY <1>2, <1>3, <1>4

LEMMA ViewShows ==
  ASSUME RoomInv, ShowsInv, TypeOK', NEW c \in Cases, View(c)
  PROVE  ShowsInv'
<1>1. UNCHANGED <<log, post>>
  BY DEF View, backendVars, composerVars
<1>2. CASE screen' # screen
  BY <1>1, <1>2, SeatShows DEF View
<1>3. CASE screen' = screen
  <2>1. /\ missed' = IF picked' = picked THEN missed ELSE missed \cup {"not loaded"}
        /\ UNCHANGED <<shown, load, latest>>
    BY <1>3 DEF View
  <2>2. PostsOnRecord' /\ \A p \in Posts : Known(p)' => Known(p) /\ post'[p].to = post[p].to
    BY <1>1, OnRecordUntouched DEF ShowsInv
  <2>3. missed' = {} => missed = {} /\ picked' = picked
    BY <2>1
  <2>4. ShowsFit'
    BY <1>3, <2>1, <2>2, <2>3 DEF ShowsInv, ShowsFit
  <2> QED
    BY <2>2, <2>4 DEF ShowsInv
<1> QED
  BY <1>2, <1>3

(* A timer's load is the last one made only if its case is picked.           *)
LEMMA TimerShows ==
  ASSUME RoomInv, ShowsInv, NEW c \in Cases, TimerFires(c)
  PROVE  ShowsInv'
<1>1. UNCHANGED <<log, post, screen, picked>>
  BY DEF TimerFires, backendVars, composerVars
<1>2. PostsOnRecord' /\ \A p \in Posts : Known(p)' => Known(p) /\ post'[p].to = post[p].to
  BY <1>1, OnRecordUntouched DEF ShowsInv
<1>3. ShowsFit'
  <2>1. CASE c = picked
    <3>1. latest' # None /\ load'[latest'] # None /\ load'[latest'].answer = None
      BY <2>1, FetchAsks, NoneIsNone DEF TimerFires, RoomInv
    <3> QED
      BY <3>1 DEF ShowsFit
  <2>2. CASE c # picked
    <3>1. /\ UNCHANGED <<latest, missed, shown>>
          /\ \A l \in Loads : load[l] # None => load'[l] = load[l]
      BY <2>2, SendAsks DEF TimerFires, RoomInv
    <3>2. latest \in Loads \cup {None}
      BY DEF RoomInv, TypeOK
    <3> QED
      BY <3>1, <3>2, <1>1, <1>2 DEF ShowsInv, ShowsFit
  <2> QED
    BY <2>1, <2>2
<1> QED
  BY <1>2, <1>3 DEF ShowsInv

LEMMA PressShows ==
  ASSUME RoomInv, ShowsInv, TypeOK', NEW kind \in Composers, Press(kind)
  PROVE  ShowsInv'
<1> DEFINE n == CHOOSE p \in Posts : post[p] = None
           made == [kind |-> kind, text |-> draft[kind], to |-> Target(kind),
                    seen |-> shown, at |-> "sent"]
<1>1. n \in Posts /\ post' = [post EXCEPT ![n] = made] /\ made.at = "sent"
  BY DEF Press
<1> HIDE DEF n, made
<1>2. /\ post'[n].at = "sent" /\ \A p \in Posts \ {n} : post'[p] = post[p]
      /\ UNCHANGED <<log, screen, picked, roomVars>>
  BY <1>1 DEF Press, backendVars, whereVars, RoomInv, TypeOK
<1>3. PostsOnRecord' /\ \A p \in Posts : Known(p)' => Known(p) /\ post'[p].to = post[p].to
  BY <1>2 DEF ShowsInv, PostsOnRecord, Known
<1> QED
  BY <1>2, <1>3, ShowsUntouched DEF ShowsInv

LEMMA ShowsInductive == RoomInv /\ RoomInv' /\ ShowsInv /\ [Next]_vars => ShowsInv'
<1> SUFFICES ASSUME RoomInv, TypeOK', ShowsInv, [Next]_vars PROVE ShowsInv'
  BY DEF RoomInv
<1>1. CASE LoadStep
  BY <1>1, ReadShows, ArriveShows DEF LoadStep
<1>2. CASE PostStep
  BY <1>2, PostShows DEF PostStep
<1>3. CASE Leave
  BY <1>3, SeatShows DEF Leave, backendVars
<1>4. CASE Go
  BY <1>4, SeatShows DEF Go, backendVars, composerVars
<1>5. CASE Refresh
  BY <1>5, SeatShows DEF Refresh, Reload, backendVars, composerVars
<1>6. CASE PayoutMoved
  BY <1>6, SeatShows DEF PayoutMoved, Reload, composerVars
<1>7. ASSUME NEW c \in Cases, View(c) \/ OthersStep(c) \/ TimerFires(c) PROVE ShowsInv'
  BY <1>7, ViewShows, TimerShows, SeatShows DEF OthersStep, whereVars, composerVars
<1>8. ASSUME NEW kind \in Composers, Press(kind) \/ \E t \in Texts : Write(kind, t)
      PROVE  ShowsInv'
  BY <1>8, PressShows, SeatShows DEF Write, backendVars, whereVars
<1>9. CASE UNCHANGED vars
  BY <1>9, SeatShows DEF vars, backendVars, whereVars, composerVars
<1> QED
  BY <1>1, <1>2, <1>3, <1>4, <1>5, <1>6, <1>7, <1>8, <1>9 DEF Next

(* Who is told that a text is on record sees it in the room as soon as the   *)
(* load made last is answered, however many loads and timers are about: but  *)
(* for a load that failed or was overtaken and for a case picked without one.*)
THEOREM OwnPostsAreShown == Spec => []OwnPostsShow
<1>1. Init => ShowsInv
  BY DEF Init, ShowsInv, PostsOnRecord, ShowsFit, Known
<1>2. ShowsInv => OwnPostsShow
  BY DEF ShowsInv, ShowsFit, OwnPostsShow, Watching, Known
<1>3. Spec => []ShowsInv
  BY <1>1, ShowsInductive, RoomAlways, PTL DEF Spec
<1> QED
  BY <1>2, <1>3, PTL

=============================================================================
