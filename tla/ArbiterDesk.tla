---------------------------- MODULE ArbiterDesk ----------------------------
(***************************************************************************)
(* The arbiter's browser while it decides cases: the decision screen       *)
(* (Decision.tsx), the flows a press of "Record decision" starts           *)
(* (useFinne.ts, wallet.ts) and the phase they all write, the cases loaded *)
(* into the screen (useApi.ts), and as much of the backend and of the      *)
(* RefundProtocol as the flows talk to.                                    *)
(*                                                                         *)
(* A flow never locks the screen: the button stays live until the wallet   *)
(* is asked, a cancelled flow goes on, so several flows, of one case or of *)
(* several, run in one tab.  A case and its payment are one value here;    *)
(* that a payment has one case at a time is DisputeApi's concern.          *)
(***************************************************************************)
EXTENDS Integers, FiniteSets

CONSTANTS Cases,   \* case numbers, each with the payment it contests
          Flows,   \* presses of the button that was offered
          None     \* no case selected, loaded or stamped

ASSUME NoneAssumption == None \notin Cases \cup Flows \cup {"refund", "release"}
ASSUME FlowsAssumption == IsFiniteSet(Flows)

Phases == {"idle", "awaiting", "sig_rejected", "pending", "failed", "confirmed", "recorded"}
Places == {"new", "deciding", "saving", "connecting", "preflight", "wallet", "signing", "relay",
           "stamping", "ended"}
Routes == {"direct", "relay"}

(* The transactions a flow can send; a hash names the one it was made from.  *)
Hashes == Flows \X Routes

VARIABLES
  selected,   \* selectedCaseId
  shown,      \* case of apiData.activeCase
  loading,    \* cases of the GET /cases/:id requests under way
  phase,      \* decPhase
  signing,    \* timers of startSim that will report a signature
  mining,     \* timers of startSim that will report a confirmation
  at,         \* where each flow is
  about,      \* the case each flow decides
  asks,       \* the outcome each flow asks for
  pays,       \* the case whose payment the flow moves, or None
  sent,       \* the transactions broadcast: "no", "sent", "mined", "reverted"
  verdicts,   \* Decision.outcome of the rows of each case
  decided,    \* cases saved as decided
  torn,       \* cases two requests decide at once, or with a row no save followed
  stamp,      \* Decision.refundTxHash per case, or None
  escrow      \* RefundProtocol: "held", "refunded", "conceded" or "released"

screenVars == <<selected, shown, loading>>
timerVars  == <<signing, mining>>
flowVars   == <<about, asks, pays>>
caseVars   == <<verdicts, decided, torn>>
vars == <<screenVars, phase, timerVars, at, flowVars, sent, caseVars, stamp, escrow>>

Conceded == <<None, "recipient">>    \* the hash of a refund the recipient sent

TypeOK ==
  /\ selected \in Cases \cup {None}
  /\ shown \in Cases \cup {None}
  /\ loading \subseteq Cases
  /\ phase \in Phases
  /\ signing \in 0..Cardinality(Flows) /\ mining \in 0..Cardinality(Flows)
  /\ at \in [Flows -> Places]
  /\ about \in [Flows -> Cases \cup {None}]
  /\ asks \in [Flows -> {"refund", "release"}]
  /\ pays \in [Flows -> Cases \cup {None}]
  /\ sent \in [Hashes -> {"no", "sent", "mined", "reverted"}]
  /\ verdicts \in [Cases -> SUBSET {"refund", "release"}]
  /\ decided \subseteq Cases /\ torn \subseteq Cases
  /\ stamp \in [Cases -> Hashes \cup {Conceded, None}]
  /\ escrow \in [Cases -> {"held", "refunded", "conceded", "released"}]

(* The page was just loaded; every case is under review.                     *)
Init ==
  /\ selected = None /\ shown = None /\ loading = {}
  /\ phase = "idle" /\ signing = 0 /\ mining = 0
  /\ at = [f \in Flows |-> "new"]
  /\ about = [f \in Flows |-> None]
  /\ asks = [f \in Flows |-> "refund"]
  /\ pays = [f \in Flows |-> None]
  /\ sent = [h \in Hashes |-> "no"]
  /\ verdicts = [c \in Cases |-> {}] /\ decided = {} /\ torn = {}
  /\ stamp = [c \in Cases |-> None]
  /\ escrow = [c \in Cases |-> "held"]

-----------------------------------------------------------------------------
(* The case on the screen.                                                   *)

ScreenStep ==
  UNCHANGED <<phase, timerVars, at, flowVars, sent, caseVars, stamp, escrow>>

(* viewCase; the case is fetched only when the screen changes, not when      *)
(* another case is picked on the case screen.                                *)
ViewCase(c, screenChanges) ==
  /\ selected' = c
  /\ loading' = IF screenChanges THEN loading \cup {c} ELSE loading
  /\ shown' = shown
  /\ ScreenStep

(* The case screen opened with no case picked loads the first of the list.   *)
LoadFirst(c) ==
  /\ selected = None /\ selected' = None
  /\ loading' = loading \cup {c}
  /\ shown' = shown
  /\ ScreenStep

(* loadCase: the last answer to arrive is shown, whatever was asked last; a  *)
(* failed one leaves what is shown.                                          *)
CaseLoaded(c, ok) ==
  /\ c \in loading
  /\ loading' = loading \ {c}
  /\ shown' = IF ok THEN c ELSE shown
  /\ selected' = selected
  /\ ScreenStep

-----------------------------------------------------------------------------
(* A flow: steps between two awaits.  Go moves it and says what the screen's *)
(* phase becomes.                                                            *)

Go(f, place, newPhase) ==
  /\ at' = [at EXCEPT ![f] = place]
  /\ phase' = newPhase
  /\ UNCHANGED <<screenVars, timerVars>>

Quiet == UNCHANGED <<flowVars, sent, caseVars, stamp, escrow>>

Broadcast(f, route) == sent' = [sent EXCEPT ![<<f, route>>] = "sent"]

(* A slip: the selected case's number, while the payment is the shown one's. *)
CaseNumber_Slip == IF selected # None THEN selected ELSE shown

(* Decision: the number of the case shown, the selected one until one is.    *)
CaseNumber == IF shown # None THEN shown ELSE selected

(* "Record decision", offered in phase idle.  The backend names the payment  *)
(* of a refund; the payment of a release is the shown case's.                *)
Record(f, outcome) ==
  /\ at[f] = "new" /\ phase = "idle" /\ CaseNumber # None
  /\ about' = [about EXCEPT ![f] = CaseNumber]
  /\ asks' = [asks EXCEPT ![f] = outcome]
  /\ pays' = [pays EXCEPT ![f] = IF outcome = "refund" THEN CaseNumber ELSE shown]
  /\ Go(f, "deciding", phase)
  /\ UNCHANGED <<sent, caseVars, stamp, escrow>>

Refused(f) == Go(f, "ended", phase) /\ UNCHANGED caseVars

(* The request finds the case undecided; another may have found it so too.   *)
Reads(f) ==
  /\ Go(f, "saving", phase)
  /\ torn' = torn \cup {c \in {about[f]} : \E g \in Flows \ {f} :
                             at[g] = "saving" /\ about[g] = c}
  /\ UNCHANGED <<verdicts, decided>>

(* A slip: whether the case is decided already is not asked.                 *)
DecideReads_Slip(f) ==
  /\ at[f] = "deciding"
  /\ Reads(f) \/ Refused(f)
  /\ UNCHANGED <<flowVars, sent, stamp, escrow>>

(* POST /cases/:id/decisions: recordDecision reads the case.  A decided one  *)
(* is refused (409), and any error ends the flow with a message.             *)
DecideReads(f) ==
  /\ at[f] = "deciding"
  /\ (about[f] \notin decided /\ Reads(f)) \/ Refused(f)
  /\ UNCHANGED <<flowVars, sent, stamp, escrow>>

(* Some awaits later it makes the Decision row and saves the case, decided   *)
(* by another request meanwhile or not; it may stop between the two or before*)
(* them, and the answer may be lost.                                         *)
DecideSaves(f) ==
  LET c == about[f]
      row == verdicts' = [verdicts EXCEPT ![c] = @ \cup {asks[f]}]
  IN  /\ at[f] = "saving"
      /\ \/ /\ row /\ decided' = decided \cup {c} /\ torn' = torn
            /\ \E place \in {"connecting", "ended"} : Go(f, place, phase)
         \/ row /\ torn' = torn \cup {c} /\ decided' = decided /\ Go(f, "ended", phase)
         \/ Refused(f)
      /\ UNCHANGED <<flowVars, sent, stamp, escrow>>

(* connectWallet, and the branch after it.  A release the screen had no      *)
(* payment for is only shown as recorded.                                    *)
Connect(f) ==
  /\ at[f] = "connecting"
  /\ \/ Go(f, "ended", phase)
     \/ asks[f] = "refund" /\ Go(f, "preflight", "awaiting")
     \/ asks[f] = "release" /\ pays[f] # None /\ Go(f, "preflight", phase)
     \/ asks[f] = "release" /\ pays[f] = None /\ Go(f, "ended", "recorded")
  /\ Quiet

(* directRefundByArbiter, up to writeContract: another wallet than the       *)
(* arbiter's goes on to the signature; a payment already refunded counts as  *)
(* done and is not stamped; a read that fails is skipped.                    *)
PreflightRefund(f) ==
  /\ at[f] = "preflight" /\ asks[f] = "refund"
  /\ \/ Go(f, "signing", "awaiting")
     \/ escrow[pays[f]] \in {"refunded", "conceded"} /\ Go(f, "ended", "confirmed")
     \/ Go(f, "wallet", phase)
  /\ Quiet

(* directReleaseByArbiter, up to writeContract.                              *)
PreflightRelease(f) ==
  /\ at[f] = "preflight" /\ asks[f] = "release"
  /\ \/ Go(f, "ended", phase)
     \/ Go(f, "wallet", phase)
  /\ Quiet

(* writeContract: the wallet sends, the arbiter declines, or it throws, with *)
(* the transaction broadcast or not.  A refund that threw goes on to the     *)
(* signature.                                                                *)
WalletSends(f) ==
  /\ at[f] = "wallet"
  /\ Broadcast(f, "direct")
  /\ Go(f, "stamping", IF asks[f] = "refund" THEN "confirmed" ELSE phase)
  /\ UNCHANGED <<flowVars, caseVars, stamp, escrow>>

WalletDeclines(f) ==
  /\ at[f] = "wallet"
  /\ Go(f, "ended", IF asks[f] = "refund" THEN "sig_rejected" ELSE phase)
  /\ Quiet

WalletThrows(f) ==
  /\ at[f] = "wallet"
  /\ IF asks[f] = "refund" THEN Go(f, "signing", "awaiting") ELSE Go(f, "ended", phase)
  /\ Broadcast(f, "direct") \/ sent' = sent
  /\ UNCHANGED <<flowVars, caseVars, stamp, escrow>>

(* signRefundAuthorization.                                                  *)
Sign(f) ==
  /\ at[f] = "signing"
  /\ \/ Go(f, "relay", "pending")
     \/ \E shownPhase \in {"sig_rejected", "failed"} : Go(f, "ended", shownPhase)
  /\ Quiet

(* A slip: a refused relay leaves the phase as it is.                        *)
Relay_Slip(f) ==
  /\ at[f] = "relay"
  /\ \/ Broadcast(f, "relay") /\ Go(f, "stamping", "confirmed")
     \/ sent' = sent /\ Go(f, "ended", phase)
  /\ UNCHANGED <<flowVars, caseVars, stamp, escrow>>

(* submitRefundSignature: the backend sends the transaction, or refuses; an  *)
(* answer that is lost reads as a failure whatever was sent.                 *)
Relay(f) ==
  /\ at[f] = "relay"
  /\ \/ Broadcast(f, "relay") /\ Go(f, "stamping", "confirmed")
     \/ Broadcast(f, "relay") /\ Go(f, "ended", "failed")
     \/ sent' = sent /\ Go(f, "ended", "failed")
  /\ UNCHANGED <<flowVars, caseVars, stamp, escrow>>

(* The route the flow's hash came from: the relay's, when it got that far.   *)
HashOf(f) == IF sent[<<f, "relay">>] # "no" THEN <<f, "relay">> ELSE <<f, "direct">>

(* POST /cases/:id/refund-tx, whose failure is swallowed.                    *)
Stamp(f) ==
  /\ at[f] = "stamping"
  /\ stamp' \in {[stamp EXCEPT ![about[f]] = HashOf(f)], stamp}
  /\ Go(f, "ended", phase)
  /\ UNCHANGED <<flowVars, sent, caseVars, escrow>>

-----------------------------------------------------------------------------
(* The other buttons of the screen, and the simulation of the prototype.     *)

(* cancelSignature: clears the timers; the request at the wallet goes on.    *)
Cancel ==
  /\ phase \in {"awaiting", "sig_rejected", "failed"}
  /\ phase' = "idle"
  /\ signing' = 0 /\ mining' = 0
  /\ UNCHANGED <<screenVars, at>> /\ Quiet

(* A slip: no phase is shown until a timer fires.                            *)
StartSim_Slip ==
  /\ phase \in {"sig_rejected", "failed"}
  /\ signing' = signing + 1
  /\ UNCHANGED <<screenVars, phase, mining, at>> /\ Quiet

(* retrySign is startSim: it asks no wallet.                                 *)
StartSim ==
  /\ phase \in {"sig_rejected", "failed"}
  /\ phase' = "awaiting"
  /\ signing' = signing + 1
  /\ UNCHANGED <<screenVars, mining, at>> /\ Quiet

SimSigns ==
  /\ signing > 0
  /\ phase' = "pending"
  /\ signing' = signing - 1 /\ mining' = mining + 1
  /\ UNCHANGED <<screenVars, at>> /\ Quiet

SimMines ==
  /\ mining > 0
  /\ phase' = "confirmed"
  /\ mining' = mining - 1
  /\ UNCHANGED <<screenVars, signing, at>> /\ Quiet

-----------------------------------------------------------------------------
(* RefundProtocol and the indexer, as the flows meet them.                   *)

ChainStep == UNCHANGED <<screenVars, phase, timerVars, at, flowVars, caseVars>>

(* A sent transaction is mined, or reverts: always when the payment is       *)
(* settled in the other way already.                                         *)
Mine(h) ==
  LET c == pays[h[1]]
      settled == IF asks[h[1]] = "refund" THEN "refunded" ELSE "released"
  IN  /\ sent[h] = "sent"
      /\ \/ /\ escrow[c] = "held"
            /\ sent' = [sent EXCEPT ![h] = "mined"]
            /\ escrow' = [escrow EXCEPT ![c] = settled]
         \/ /\ sent' = [sent EXCEPT ![h] = "reverted"]
            /\ escrow' = escrow
      /\ UNCHANGED stamp
      /\ ChainStep

(* refundByRecipient.                                                        *)
Concede(c) ==
  /\ escrow[c] = "held"
  /\ escrow' = [escrow EXCEPT ![c] = "conceded"]
  /\ UNCHANGED <<sent, stamp>>
  /\ ChainStep

(* confirmRefundExecuted stamps a refund case nobody stamped (DECIDED); of   *)
(* several rows it may find any.                                             *)
IndexerStamps(c) ==
  /\ "refund" \in verdicts[c] /\ c \in decided /\ (stamp[c] = None \/ c \in torn)
  /\ \/ \E h \in Hashes : sent[h] = "mined" /\ pays[h[1]] = c
          /\ stamp' = [stamp EXCEPT ![c] = h]
     \/ escrow[c] = "conceded" /\ stamp' = [stamp EXCEPT ![c] = Conceded]
  /\ UNCHANGED <<sent, escrow>>
  /\ ChainStep

-----------------------------------------------------------------------------
Step(f) ==
  \/ DecideReads(f) \/ DecideSaves(f) \/ Connect(f) \/ PreflightRefund(f) \/ PreflightRelease(f)
  \/ WalletSends(f) \/ WalletDeclines(f) \/ WalletThrows(f)
  \/ Sign(f) \/ Relay(f) \/ Stamp(f)

Next ==
  \/ \E c \in Cases :
       \/ \E screenChanges \in BOOLEAN : ViewCase(c, screenChanges)
       \/ LoadFirst(c)
       \/ \E ok \in BOOLEAN : CaseLoaded(c, ok)
       \/ Concede(c) \/ IndexerStamps(c)
  \/ \E f \in Flows :
       \/ \E outcome \in {"refund", "release"} : Record(f, outcome)
       \/ Step(f)
  \/ Cancel \/ StartSim \/ SimSigns \/ SimMines
  \/ \E h \in Hashes : Mine(h)

Spec == Init /\ [][Next]_vars

-----------------------------------------------------------------------------
(* No money is moved against the record: whatever races, is cancelled or is  *)
(* answered late, a refund or a release is only sent for a case of which a   *)
(* decision for just that is on record, and both of them only for a case     *)
(* that two requests decided at once, or whose first decision was cut off.   *)
SentIsDecided ==
  /\ \A h \in Hashes : sent[h] # "no" => asks[h[1]] \in verdicts[pays[h[1]]]
  /\ \A g, h \in Hashes :
       sent[g] # "no" /\ sent[h] # "no" /\ pays[g[1]] = pays[h[1]]
         => asks[g[1]] = asks[h[1]] \/ pays[g[1]] \in torn

(* The hash on a decision is that of a transaction which was really sent,    *)
(* and for this case; only the recipient's own refund is not the arbiter's.  *)
StampIsOwn ==
  \A c \in Cases :
    \/ stamp[c] = None
    \/ stamp[c] = Conceded /\ escrow[c] = "conceded"
    \/ stamp[c] \in Hashes /\ sent[stamp[c]] # "no" /\ pays[stamp[c][1]] = c

(* The screen never waits for nothing: a phase that shows a spinner has a    *)
(* flow or a timer behind it that will write the next phase, although any    *)
(* of several flows may have written the last one ("Refund submitted" has no *)
(* button to leave it by).                                                   *)
SpinnerHasWork ==
  /\ phase = "awaiting" =>
       \/ signing > 0
       \/ \E f \in Flows : asks[f] = "refund" /\ at[f] \in {"preflight", "wallet", "signing"}
  /\ phase = "pending" => mining > 0 \/ \E f \in Flows : at[f] = "relay"

(* What was sent was decided, what is stamped is of the case it is stamped   *)
(* on, and a spinner stands for work.                                        *)
DeskIsHonest == SentIsDecided /\ StampIsOwn /\ SpinnerHasWork

=============================================================================
