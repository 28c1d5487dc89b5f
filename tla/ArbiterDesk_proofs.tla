------------------------- MODULE ArbiterDesk_proofs -------------------------
(***************************************************************************)
(* What the decision screen promises for any number of cases and of flows  *)
(* that run at the same time.                                              *)
(***************************************************************************)
EXTENDS ArbiterDesk, FiniteSetTheorems, TLAPS

(* A flow decides one case and moves the payment of that case or none; from  *)
(* the wallet on, what it asks for is on record as decided; a press that     *)
(* was not made has sent nothing, and one that stamps has.                   *)
FlowMatches(f) ==
  /\ at[f] # "new" => /\ about[f] \in Cases /\ pays[f] \in {about[f], None}
                      /\ asks[f] = "refund" => pays[f] = about[f]
  /\ at[f] \in {"connecting", "preflight", "wallet", "signing", "relay", "stamping"} =>
       asks[f] \in verdicts[about[f]]
  /\ at[f] \in {"preflight", "wallet", "signing", "relay", "stamping"} => pays[f] = about[f]
  /\ at[f] = "new" => \A r \in Routes : sent[<<f, r>>] = "no"
  /\ at[f] = "stamping" => \E r \in Routes : sent[<<f, r>>] # "no"
FlowsMatch == \A f \in Flows : FlowMatches(f)

(* What a flow has sent is for a payment, and was decided.                   *)
SentMatches ==
  \A f \in Flows, r \in Routes :
    sent[<<f, r>>] # "no" => pays[f] \in Cases /\ asks[f] \in verdicts[pays[f]]

(* A request about to save has found its case undecided, alone or not.       *)
SaveFits(f) ==
  at[f] = "saving" =>
    /\ about[f] \notin decided \/ about[f] \in torn
    /\ \A g \in Flows \ {f} : at[g] = "saving" /\ about[g] = about[f] => about[f] \in torn
SavesFit == \A f \in Flows : SaveFits(f)

(* Rows of both outcomes, and a row of an undecided case, are of torn ones.  *)
VerdictsFit ==
  \A c \in Cases :
    /\ verdicts[c] # {} => c \in decided \cup torn
    /\ {"refund", "release"} \subseteq verdicts[c] => c \in torn

(* Every simulation was started from the failure of a flow that ended.       *)
Ended == {f \in Flows : at[f] = "ended"}
Failure == IF phase \in {"sig_rejected", "failed"} THEN 1 ELSE 0
SimsFit == signing + mining + Failure <= Cardinality(Ended)

DeskInv ==
  /\ TypeOK /\ FlowsMatch /\ SentMatches /\ SavesFit /\ VerdictsFit
  /\ SimsFit /\ StampIsOwn /\ SpinnerHasWork

-----------------------------------------------------------------------------
LEMMA EndedIsFinite ==
  /\ IsFiniteSet(Ended) /\ Cardinality(Ended) \in Nat
  /\ Cardinality(Flows) \in Nat /\ Cardinality(Ended) <= Cardinality(Flows)
<1>1. Ended \in SUBSET Flows
  BY DEF Ended
<1> QED
  BY <1>1, FlowsAssumption, FS_Subset, FS_CardinalityType

LEMMA InitInv == Init => DeskInv
<1> SUFFICES ASSUME Init PROVE DeskInv
  OBVIOUS
<1>1. TypeOK
  BY EndedIsFinite DEF Init, TypeOK, Phases, Places
<1>2. FlowsMatch /\ SentMatches /\ SavesFit /\ VerdictsFit
  BY DEF Init, FlowsMatch, FlowMatches, SentMatches, Hashes, SavesFit, SaveFits, VerdictsFit
<1>3. SimsFit
  BY EndedIsFinite DEF Init, SimsFit, Failure
<1>4. StampIsOwn /\ SpinnerHasWork
  BY DEF Init, StampIsOwn, SpinnerHasWork
<1> QED
  BY <1>1, <1>2, <1>3, <1>4 DEF DeskInv

-----------------------------------------------------------------------------
(* What the moves of a flow have in common.                                  *)

(* A flow that ends leaves room for the simulation its failure may start.    *)
LEMMA SimsKept ==
  ASSUME DeskInv, NEW f \in Flows, at[f] # "ended", NEW place \in Places,
         at' = [at EXCEPT ![f] = place], UNCHANGED timerVars,
         phase' = phase \/ place = "ended" \/ phase' \notin {"sig_rejected", "failed"}
  PROVE  SimsFit'
<1>1. /\ at \in [Flows -> Places] /\ signing \in Nat /\ mining \in Nat
      /\ signing + mining + Failure <= Cardinality(Ended)
  BY EndedIsFinite DEF DeskInv, TypeOK, SimsFit
<1>2. Ended' = IF place = "ended" THEN Ended \cup {f} ELSE Ended
  BY <1>1 DEF Ended
<1>3. f \notin Ended
  BY DEF Ended
<1>4. Cardinality(Ended') = IF place = "ended" THEN Cardinality(Ended) + 1 ELSE Cardinality(Ended)
  BY <1>2, <1>3, EndedIsFinite, FS_AddElement
<1>5. signing' = signing /\ mining' = mining
  BY DEF timerVars
<1>6. Failure \in {0, 1} /\ Failure' \in {0, 1} /\ (Failure' <= Failure \/ place = "ended")
  BY DEF Failure
<1>7. signing' + mining' + Failure' <= Cardinality(Ended')
  BY <1>1, <1>4, <1>5, <1>6, EndedIsFinite
<1> QED
  BY <1>7 DEF SimsFit

(* A flow that leaves a spinner's place writes the phase.                    *)
LEMMA SpinnerKept ==
  ASSUME DeskInv, NEW f \in Flows, NEW place \in Places, NEW p \in Phases, Go(f, place, p),
         \A g \in Flows \ {f} : asks'[g] = asks[g],
         p = "awaiting" => \/ asks'[f] = "refund" /\ place \in {"preflight", "wallet", "signing"}
                           \/ /\ phase = "awaiting"
                              /\ \/ at[f] \notin {"preflight", "wallet", "signing"}
                                 \/ asks[f] # "refund",
         p = "pending" => place = "relay" \/ (phase = "pending" /\ at[f] # "relay")
  PROVE  SpinnerHasWork'
<1>1. /\ at' = [at EXCEPT ![f] = place] /\ phase' = p /\ UNCHANGED <<signing, mining>>
      /\ at \in [Flows -> Places] /\ SpinnerHasWork
  BY DEF Go, timerVars, DeskInv, TypeOK
<1>2. at'[f] = place /\ \A g \in Flows \ {f} : at'[g] = at[g]
  BY <1>1
<1>3. phase' = "awaiting" =>
        \/ signing' > 0
        \/ \E g \in Flows : asks'[g] = "refund" /\ at'[g] \in {"preflight", "wallet", "signing"}
  BY <1>1, <1>2 DEF SpinnerHasWork
<1>4. phase' = "pending" => mining' > 0 \/ \E g \in Flows : at'[g] = "relay"
  BY <1>1, <1>2 DEF SpinnerHasWork
<1> QED
  BY <1>3, <1>4 DEF SpinnerHasWork

(* A flow moves on under a verdict that stands, and may have sent something. *)
LEMMA FlowMoves ==
  ASSUME DeskInv, NEW f \in Flows, NEW place \in Places \ {"new", "deciding", "saving"},
         NEW p \in Phases, Go(f, place, p), UNCHANGED <<flowVars, caseVars, escrow>>,
         \/ at[f] \in {"connecting", "preflight", "wallet", "signing", "relay"}
         \/ at[f] \in {"deciding", "saving", "stamping"} /\ place = "ended",
         \/ at[f] \notin {"deciding", "saving", "connecting"} \/ place = "ended"
         \/ pays[f] = about[f],
         \/ sent' = sent
         \/ /\ at[f] \in {"wallet", "relay"}
            /\ \E r \in Routes : sent' = [sent EXCEPT ![<<f, r>>] = "sent"],
         place = "stamping" => \E r \in Routes : sent'[<<f, r>>] # "no",
         \/ stamp' = stamp
         \/ /\ at[f] = "stamping"
            /\ \E r \in Routes : /\ sent[<<f, r>>] # "no"
                                 /\ stamp' = [stamp EXCEPT ![about[f]] = <<f, r>>],
         p = phase \/ place = "ended" \/ p \notin {"sig_rejected", "failed"},
         SpinnerHasWork'
  PROVE  DeskInv'
<1>1. /\ TypeOK /\ FlowsMatch /\ SentMatches /\ StampIsOwn /\ SavesFit /\ VerdictsFit
      /\ at' = [at EXCEPT ![f] = place] /\ phase' = p
      /\ UNCHANGED <<selected, shown, loading, signing, mining, about, asks, pays>>
      /\ UNCHANGED <<verdicts, decided, torn>>
      /\ at \in [Flows -> Places] /\ sent \in [Hashes -> {"no", "sent", "mined", "reverted"}]
  BY DEF DeskInv, TypeOK, Go, screenVars, timerVars, flowVars, caseVars
<1>2. at'[f] = place /\ \A g \in Flows \ {f} : at'[g] = at[g]
  BY <1>1
<1>3. /\ sent' \in [Hashes -> {"no", "sent", "mined", "reverted"}]
      /\ \A g \in Flows \ {f}, r \in Routes : sent'[<<g, r>>] = sent[<<g, r>>]
      /\ \A h \in Hashes : sent[h] # "no" => sent'[h] # "no"
  BY <1>1 DEF Hashes
<1>4. TypeOK'
  <2>1. stamp' \in [Cases -> Hashes \cup {Conceded, None}]
    <3>1. \A r \in Routes : <<f, r>> \in Hashes
      BY DEF Hashes
    <3>2. stamp \in [Cases -> Hashes \cup {Conceded, None}]
      BY <1>1 DEF TypeOK
    <3> QED
      BY <3>1, <3>2
  <2> QED
    BY <1>1, <1>3, <2>1 DEF TypeOK
<1>5. FlowsMatch'
  <2>1. ASSUME NEW g \in Flows
        PROVE  FlowMatches(g)'
    <3>1. CASE g = f
      BY <1>1, <1>2, <3>1 DEF FlowsMatch, FlowMatches
    <3>2. CASE g # f
      BY <1>1, <1>2, <1>3, <3>2 DEF FlowsMatch, FlowMatches
    <3> QED
      BY <3>1, <3>2
  <2> QED
    BY <1>1, <2>1 DEF FlowsMatch
<1>6. SentMatches'
  <2>1. ASSUME NEW g \in Flows, NEW r \in Routes, sent'[<<g, r>>] # "no"
        PROVE  pays[g] \in Cases /\ asks[g] \in verdicts[pays[g]]
    <3>1. CASE sent[<<g, r>>] # "no"
      BY <1>1, <3>1 DEF SentMatches
    <3>2. CASE sent[<<g, r>>] = "no"
      <4>1. g = f /\ at[f] \in {"wallet", "relay"}
        BY <1>3, <2>1, <3>2
      <4> QED
        BY <1>1, <4>1 DEF FlowsMatch, FlowMatches
    <3> QED
      BY <3>1, <3>2
  <2> QED
    BY <1>1, <2>1 DEF SentMatches
<1>7. SimsFit'
  BY <1>1, SimsKept DEF timerVars
<1>8. StampIsOwn'
  <2>1. CASE stamp' = stamp
    BY <1>1, <1>3, <2>1 DEF StampIsOwn
  <2>2. CASE at[f] = "stamping" /\ stamp' # stamp
    <3>1. PICK r \in Routes : /\ sent[<<f, r>>] # "no"
                              /\ stamp' = [stamp EXCEPT ![about[f]] = <<f, r>>]
      BY <2>2
    <3>2. pays[f] = about[f] /\ <<f, r>> \in Hashes
      BY <1>1, <2>2 DEF FlowsMatch, FlowMatches, Hashes
    <3> QED
      BY <1>1, <1>3, <3>1, <3>2 DEF StampIsOwn, TypeOK
  <2> QED
    BY <2>1, <2>2
<1>9. SavesFit' /\ VerdictsFit'
  <2>1. \A g \in Flows : at'[g] = "saving" => g # f /\ at[g] = "saving"
    BY <1>2
  <2>2. SavesFit'
    BY <1>1, <2>1 DEF SavesFit, SaveFits
  <2> QED
    BY <1>1, <2>2 DEF VerdictsFit
<1> QED
  BY <1>4, <1>5, <1>6, <1>7, <1>8, <1>9 DEF DeskInv

-----------------------------------------------------------------------------
(* The steps of a flow.                                                      *)

(* The press of the button: nothing was sent by this flow before.            *)
LEMMA RecordKeeps ==
  ASSUME DeskInv, NEW f \in Flows, NEW outcome \in {"refund", "release"}, Record(f, outcome)
  PROVE  DeskInv'
<1>1. PICK c : c = CaseNumber
  OBVIOUS
<1>2. /\ TypeOK /\ FlowsMatch /\ SentMatches /\ StampIsOwn /\ SavesFit /\ VerdictsFit
      /\ at[f] = "new" /\ c # None
      /\ about' = [about EXCEPT ![f] = c] /\ asks' = [asks EXCEPT ![f] = outcome]
      /\ pays' = [pays EXCEPT ![f] = IF outcome = "refund" THEN c ELSE shown]
      /\ Go(f, "deciding", phase)
      /\ UNCHANGED <<sent, verdicts, decided, torn, stamp, escrow>>
  BY <1>1 DEF Record, DeskInv, caseVars
<1>3. c \in Cases /\ shown \in {c, None}
  BY <1>1, <1>2 DEF CaseNumber, TypeOK
<1>4. /\ at' = [at EXCEPT ![f] = "deciding"] /\ phase' = phase
      /\ UNCHANGED <<selected, shown, loading, signing, mining>>
  BY <1>2 DEF Go, screenVars, timerVars
<1>5. /\ at'[f] = "deciding" /\ about'[f] = c /\ asks'[f] = outcome /\ pays'[f] \in {c, None}
      /\ outcome = "refund" => pays'[f] = c
      /\ \A g \in Flows \ {f} : /\ at'[g] = at[g] /\ about'[g] = about[g]
                                /\ asks'[g] = asks[g] /\ pays'[g] = pays[g]
  BY <1>2, <1>3, <1>4 DEF TypeOK
<1>6. \A r \in Routes : sent[<<f, r>>] = "no"
  BY <1>2 DEF FlowsMatch, FlowMatches
<1>7. TypeOK'
  BY <1>2, <1>3, <1>4 DEF TypeOK, Places
<1>8. FlowsMatch'
  <2>1. ASSUME NEW g \in Flows PROVE FlowMatches(g)'
    <3>1. CASE g = f
      BY <1>3, <1>5, <3>1 DEF FlowMatches
    <3>2. CASE g # f
      BY <1>2, <1>5, <3>2 DEF FlowsMatch, FlowMatches
    <3> QED
      BY <3>1, <3>2
  <2> QED
    BY <2>1 DEF FlowsMatch
<1>9. SentMatches'
  BY <1>2, <1>5, <1>6 DEF SentMatches
<1>10. SimsFit'
  BY <1>2, <1>4, SimsKept DEF timerVars, Places
<1>11. StampIsOwn'
  <2>1. \A h \in Hashes : sent[h] # "no" => pays'[h[1]] = pays[h[1]]
    BY <1>5, <1>6 DEF Hashes
  <2> QED
    BY <1>2, <2>1 DEF StampIsOwn
<1>12. SpinnerHasWork'
  BY <1>2, <1>5, SpinnerKept DEF TypeOK, Places
<1>13. SavesFit' /\ VerdictsFit'
  <2>1. \A g \in Flows : at'[g] = "saving" => g # f
    BY <1>5
  <2>2. SavesFit'
    BY <1>2, <1>5, <2>1 DEF SavesFit, SaveFits
  <2> QED
    BY <1>2, <2>2 DEF VerdictsFit
<1> QED
  BY <1>7, <1>8, <1>9, <1>10, <1>11, <1>12, <1>13 DEF DeskInv

(* A request that reads its case, or saves its decision.                     *)
LEMMA CasesMove ==
  ASSUME DeskInv, NEW f \in Flows, at[f] \in {"deciding", "saving"},
         NEW place \in {"saving", "connecting", "ended"}, Go(f, place, phase),
         UNCHANGED <<flowVars, sent, stamp, escrow>>,
         verdicts' \in [Cases -> SUBSET {"refund", "release"}],
         decided' \subseteq Cases, torn' \subseteq Cases,
         \A c \in Cases : verdicts[c] \subseteq verdicts'[c],
         place = "connecting" => asks[f] \in verdicts'[about[f]],
         SavesFit', VerdictsFit'
  PROVE  DeskInv'
<1>1. /\ TypeOK /\ FlowsMatch /\ SentMatches /\ StampIsOwn /\ phase \in Phases
      /\ about[f] \in Cases
  BY DEF DeskInv, TypeOK, FlowsMatch, FlowMatches
<1>2. /\ at' = [at EXCEPT ![f] = place] /\ phase' = phase
      /\ UNCHANGED <<selected, shown, loading, signing, mining, about, asks, pays>>
  BY DEF Go, screenVars, timerVars, flowVars
<1>3. at'[f] = place /\ \A g \in Flows \ {f} : at'[g] = at[g]
  BY <1>1, <1>2 DEF TypeOK
<1>4. TypeOK'
  BY <1>1, <1>2 DEF TypeOK, Places
<1>5. FlowsMatch'
  <2>1. ASSUME NEW g \in Flows PROVE FlowMatches(g)'
    <3>1. CASE g = f
      BY <1>1, <1>2, <1>3, <3>1 DEF FlowsMatch, FlowMatches
    <3>2. CASE g # f
      BY <1>1, <1>2, <1>3, <3>2 DEF FlowsMatch, FlowMatches
    <3> QED
      BY <3>1, <3>2
  <2> QED
    BY <2>1 DEF FlowsMatch
<1>6. SentMatches'
  BY <1>1, <1>2 DEF SentMatches
<1>7. SimsFit'
  BY <1>1, <1>2, SimsKept DEF timerVars, Places
<1>8. StampIsOwn'
  BY <1>1, <1>2 DEF StampIsOwn
<1>9. SpinnerHasWork'
  BY <1>1, <1>2, SpinnerKept DEF Places
<1> QED
  BY <1>4, <1>5, <1>6, <1>7, <1>8, <1>9 DEF DeskInv

(* A request that is refused, or fails before it recorded anything.          *)
LEMMA RefusedKeeps ==
  ASSUME DeskInv, NEW f \in Flows, at[f] \in {"deciding", "saving"}, Refused(f),
         UNCHANGED <<flowVars, sent, stamp, escrow>>
  PROVE  DeskInv'
<1>1. UNCHANGED caseVars /\ Go(f, "ended", phase) /\ phase \in Phases
  BY DEF Refused, DeskInv, TypeOK
<1>2. SpinnerHasWork'
  BY <1>1, SpinnerKept DEF flowVars, Places
<1> QED
  BY <1>1, <1>2, FlowMoves DEF Places

LEMMA DecideReadsKeeps == ASSUME DeskInv, NEW f \in Flows, DecideReads(f) PROVE DeskInv'
<1>1. /\ at[f] = "deciding" /\ UNCHANGED <<flowVars, sent, stamp, escrow>>
      /\ TypeOK /\ SavesFit /\ VerdictsFit /\ about[f] \in Cases
      /\ (about[f] \notin decided /\ Reads(f)) \/ Refused(f)
  BY DEF DecideReads, DeskInv, FlowsMatch, FlowMatches
<1>2. CASE about[f] \notin decided /\ Reads(f)
  <2>1. /\ Go(f, "saving", phase) /\ verdicts' = verdicts /\ decided' = decided
        /\ torn' = torn \cup {c \in {about[f]} : \E g \in Flows \ {f} :
                                   at[g] = "saving" /\ about[g] = c}
    BY <1>2 DEF Reads
  <2>2. /\ about' = about /\ at'[f] = "saving" /\ \A g \in Flows \ {f} : at'[g] = at[g]
    BY <1>1, <2>1 DEF Go, flowVars, TypeOK
  <2>3. SavesFit'
    <3>1. ASSUME NEW g \in Flows, at'[g] = "saving"
          PROVE  /\ about[g] \notin decided \/ about[g] \in torn'
                 /\ \A h \in Flows \ {g} :
                      at'[h] = "saving" /\ about[h] = about[g] => about[g] \in torn'
      <4>1. CASE g = f
        BY <1>2, <2>1, <2>2, <4>1
      <4>2. CASE g # f
        <5>1. at[g] = "saving" /\ SaveFits(g)
          BY <1>1, <2>2, <3>1, <4>2 DEF SavesFit
        <5>2. ASSUME NEW h \in Flows \ {g}, at'[h] = "saving", about[h] = about[g]
              PROVE  about[g] \in torn'
          <6>1. CASE h = f
            BY <2>1, <4>2, <5>1, <5>2, <6>1
          <6>2. CASE h # f
            BY <2>1, <2>2, <5>1, <5>2, <6>2 DEF SaveFits
          <6> QED
            BY <6>1, <6>2
        <5> QED
          BY <2>1, <5>1, <5>2 DEF SaveFits
      <4> QED
        BY <4>1, <4>2
    <3> QED
      BY <2>1, <2>2, <3>1 DEF SavesFit, SaveFits
  <2>4. VerdictsFit'
    BY <1>1, <2>1 DEF VerdictsFit
  <2>5. /\ verdicts' \in [Cases -> SUBSET {"refund", "release"}]
        /\ decided' \subseteq Cases /\ torn' \subseteq Cases
    BY <1>1, <2>1 DEF TypeOK
  <2> QED
    BY <1>1, <2>1, <2>3, <2>4, <2>5, CasesMove
<1> QED
  BY <1>1, <1>2, RefusedKeeps

(* A row is added to a case that is undecided still, or torn.                *)
LEMMA DecideSavesKeeps == ASSUME DeskInv, NEW f \in Flows, DecideSaves(f) PROVE DeskInv'
<1> DEFINE c == about[f]
<1>1. /\ at[f] = "saving" /\ UNCHANGED <<flowVars, sent, stamp, escrow>>
      /\ TypeOK /\ SavesFit /\ VerdictsFit /\ c \in Cases /\ SaveFits(f)
      /\ asks[f] \in {"refund", "release"}
  BY DEF DecideSaves, DeskInv, FlowsMatch, FlowMatches, SavesFit, TypeOK
<1>2. CASE Refused(f)
  BY <1>1, <1>2, RefusedKeeps
<1>3. ASSUME NEW place \in {"connecting", "ended"}, Go(f, place, phase),
             verdicts' = [verdicts EXCEPT ![c] = @ \cup {asks[f]}],
             \/ decided' = decided \cup {c} /\ torn' = torn
             \/ decided' = decided /\ torn' = torn \cup {c}
      PROVE  DeskInv'
  <2>1. /\ about' = about /\ at'[f] # "saving" /\ \A g \in Flows \ {f} : at'[g] = at[g]
    BY <1>1, <1>3 DEF Go, flowVars, TypeOK
  <2>2. /\ verdicts' \in [Cases -> SUBSET {"refund", "release"}]
        /\ verdicts'[c] = verdicts[c] \cup {asks[f]}
        /\ \A d \in Cases \ {c} : verdicts'[d] = verdicts[d]
    BY <1>1, <1>3 DEF TypeOK
  <2>3. decided' \subseteq Cases /\ torn' \subseteq Cases
    BY <1>1, <1>3 DEF TypeOK
  <2>4. SavesFit'
    <3>1. ASSUME NEW g \in Flows, at'[g] = "saving"
          PROVE  /\ about[g] \notin decided' \/ about[g] \in torn'
                 /\ \A h \in Flows \ {g} :
                      at'[h] = "saving" /\ about[h] = about[g] => about[g] \in torn'
      <4>1. g # f /\ at[g] = "saving" /\ SaveFits(g)
        BY <1>1, <2>1, <3>1 DEF SavesFit
      <4>2. about[g] = c => c \in torn
        BY <1>1, <4>1 DEF SaveFits
      <4>3. about[g] \notin decided' \/ about[g] \in torn'
        BY <1>3, <4>1, <4>2 DEF SaveFits
      <4>4. \A h \in Flows \ {g} : at'[h] = "saving" => at[h] = "saving"
        BY <2>1
      <4> QED
        BY <1>3, <4>1, <4>3, <4>4 DEF SaveFits
    <3> QED
      BY <2>1, <3>1 DEF SavesFit, SaveFits
  <2>5. VerdictsFit'
    <3>1. ASSUME NEW d \in Cases
          PROVE  /\ verdicts'[d] # {} => d \in decided' \cup torn'
                 /\ {"refund", "release"} \subseteq verdicts'[d] => d \in torn'
      <4>1. CASE d = c
        <5>1. c \in decided' \cup torn'
          BY <1>3
        <5>2. verdicts[c] = {} \/ c \in torn
          BY <1>1 DEF SaveFits, VerdictsFit
        <5>3. verdicts[c] = {} => ~ ({"refund", "release"} \subseteq verdicts'[c])
          BY <2>2
        <5> QED
          BY <1>3, <4>1, <5>1, <5>2, <5>3
      <4>2. CASE d # c
        BY <1>1, <1>3, <2>2, <4>2 DEF VerdictsFit
      <4> QED
        BY <4>1, <4>2
    <3> QED
      BY <3>1 DEF VerdictsFit
  <2>6. \A d \in Cases : verdicts[d] \subseteq verdicts'[d]
    BY <2>2
  <2> QED
    BY <1>1, <1>3, <2>2, <2>3, <2>4, <2>5, <2>6, CasesMove
<1> QED
  BY <1>2, <1>3 DEF DecideSaves

LEMMA ConnectKeeps == ASSUME DeskInv, NEW f \in Flows, Connect(f) PROVE DeskInv'
<1>1. /\ at[f] = "connecting" /\ UNCHANGED <<flowVars, sent, caseVars, stamp, escrow>>
      /\ pays[f] \in {about[f], None} /\ (asks[f] = "refund" => pays[f] = about[f])
      /\ phase \in Phases /\ UNCHANGED asks
  BY DEF Connect, Quiet, DeskInv, TypeOK, FlowsMatch, FlowMatches, flowVars
<1>2. CASE Go(f, "ended", phase) \/ Go(f, "ended", "recorded")
  <2>1. SpinnerHasWork'
    BY <1>1, <1>2, SpinnerKept DEF Places, Phases
  <2> QED
    BY <1>1, <1>2, <2>1, FlowMoves DEF Places, Phases
<1>3. CASE asks[f] = "refund" /\ Go(f, "preflight", "awaiting")
  <2>1. SpinnerHasWork'
    BY <1>1, <1>3, SpinnerKept DEF Places, Phases
  <2> QED
    BY <1>1, <1>3, <2>1, FlowMoves DEF Places, Phases
<1>4. CASE asks[f] = "release" /\ pays[f] # None /\ Go(f, "preflight", phase)
  <2>1. SpinnerHasWork'
    BY <1>1, <1>4, SpinnerKept DEF Places
  <2> QED
    BY <1>1, <1>4, <2>1, FlowMoves DEF Places
<1> QED
  BY <1>2, <1>3, <1>4 DEF Connect

LEMMA PreflightKeeps ==
  ASSUME DeskInv, NEW f \in Flows, PreflightRefund(f) \/ PreflightRelease(f) PROVE DeskInv'
<1>1. /\ at[f] = "preflight" /\ UNCHANGED <<flowVars, sent, caseVars, stamp, escrow>>
      /\ pays[f] = about[f] /\ phase \in Phases /\ UNCHANGED asks
  BY DEF PreflightRefund, PreflightRelease, Quiet, DeskInv, TypeOK, FlowsMatch, FlowMatches, flowVars
<1>2. \/ asks[f] = "refund" /\ Go(f, "signing", "awaiting")
      \/ asks[f] = "refund" /\ Go(f, "ended", "confirmed")
      \/ asks[f] = "release" /\ Go(f, "ended", phase)
      \/ Go(f, "wallet", phase)
  BY DEF PreflightRefund, PreflightRelease
<1>3. CASE asks[f] = "refund" /\ Go(f, "signing", "awaiting")
  <2>1. SpinnerHasWork'
    BY <1>1, <1>3, SpinnerKept DEF Places, Phases
  <2> QED
    BY <1>1, <1>3, <2>1, FlowMoves DEF Places, Phases
<1>4. CASE asks[f] = "refund" /\ Go(f, "ended", "confirmed")
  <2>1. SpinnerHasWork'
    BY <1>1, <1>4, SpinnerKept DEF Places, Phases
  <2> QED
    BY <1>1, <1>4, <2>1, FlowMoves DEF Places, Phases
<1>5. CASE asks[f] = "release" /\ Go(f, "ended", phase)
  <2>1. SpinnerHasWork'
    BY <1>1, <1>5, SpinnerKept DEF Places
  <2> QED
    BY <1>1, <1>5, <2>1, FlowMoves DEF Places
<1>6. CASE Go(f, "wallet", phase)
  <2>1. SpinnerHasWork'
    BY <1>1, <1>6, SpinnerKept DEF Places
  <2> QED
    BY <1>1, <1>6, <2>1, FlowMoves DEF Places
<1> QED
  BY <1>2, <1>3, <1>4, <1>5, <1>6

LEMMA WalletKeeps ==
  ASSUME DeskInv, NEW f \in Flows, WalletSends(f) \/ WalletDeclines(f) \/ WalletThrows(f)
  PROVE  DeskInv'
<1>1. /\ at[f] = "wallet" /\ UNCHANGED <<flowVars, caseVars, stamp, escrow>>
      /\ pays[f] = about[f] /\ phase \in Phases /\ UNCHANGED asks
      /\ sent \in [Hashes -> {"no", "sent", "mined", "reverted"}]
  BY DEF WalletSends, WalletDeclines, WalletThrows, Quiet, DeskInv, TypeOK, FlowsMatch,
         FlowMatches, flowVars
<1>2. asks[f] \in {"refund", "release"}
  BY DEF DeskInv, TypeOK
<1>3. CASE WalletSends(f)
  <2>1. PICK p \in Phases : Go(f, "stamping", p) /\ p = IF asks[f] = "refund" THEN "confirmed" ELSE phase
    BY <1>1, <1>3 DEF WalletSends, Phases
  <2>2. sent' = [sent EXCEPT ![<<f, "direct">>] = "sent"] /\ "direct" \in Routes
    BY <1>3 DEF WalletSends, Broadcast, Routes
  <2>3. sent'[<<f, "direct">>] # "no"
    BY <1>1, <2>2 DEF Hashes
  <2>4. SpinnerHasWork'
    BY <1>1, <2>1, SpinnerKept DEF Places
  <2> QED
    BY <1>1, <2>1, <2>2, <2>3, <2>4, FlowMoves DEF Places
<1>4. CASE WalletDeclines(f)
  <2>1. PICK p \in Phases : Go(f, "ended", p) /\ p = IF asks[f] = "refund" THEN "sig_rejected" ELSE phase
    BY <1>1, <1>4 DEF WalletDeclines, Phases
  <2>2. SpinnerHasWork'
    BY <1>1, <2>1, SpinnerKept DEF Places
  <2> QED
    BY <1>1, <1>4, <2>1, <2>2, FlowMoves DEF WalletDeclines, Quiet, Places
<1>5. CASE WalletThrows(f)
  <2>1. \/ sent' = sent
        \/ \E r \in Routes : sent' = [sent EXCEPT ![<<f, r>>] = "sent"]
    BY <1>5 DEF WalletThrows, Broadcast, Routes
  <2>2. CASE asks[f] = "refund"
    <3>1. Go(f, "signing", "awaiting")
      BY <1>5, <2>2 DEF WalletThrows
    <3>2. SpinnerHasWork'
      BY <1>1, <2>2, <3>1, SpinnerKept DEF Places, Phases
    <3> QED
      BY <1>1, <2>1, <3>1, <3>2, FlowMoves DEF Places, Phases
  <2>3. CASE asks[f] # "refund"
    <3>1. Go(f, "ended", phase)
      BY <1>5, <2>3 DEF WalletThrows
    <3>2. SpinnerHasWork'
      BY <1>1, <2>3, <3>1, SpinnerKept DEF Places
    <3> QED
      BY <1>1, <2>1, <3>1, <3>2, FlowMoves DEF Places
  <2> QED
    BY <2>2, <2>3
<1> QED
  BY <1>3, <1>4, <1>5

LEMMA SignKeeps == ASSUME DeskInv, NEW f \in Flows, Sign(f) PROVE DeskInv'
<1>1. /\ at[f] = "signing" /\ UNCHANGED <<flowVars, sent, caseVars, stamp, escrow>>
      /\ pays[f] = about[f] /\ UNCHANGED asks
  BY DEF Sign, Quiet, DeskInv, FlowsMatch, FlowMatches, flowVars
<1>2. CASE Go(f, "relay", "pending")
  <2>1. SpinnerHasWork'
    BY <1>1, <1>2, SpinnerKept DEF Places, Phases
  <2> QED
    BY <1>1, <1>2, <2>1, FlowMoves DEF Places, Phases
<1>3. CASE \E shownPhase \in {"sig_rejected", "failed"} : Go(f, "ended", shownPhase)
  <2>1. PICK shownPhase \in {"sig_rejected", "failed"} : Go(f, "ended", shownPhase)
    BY <1>3
  <2>2. SpinnerHasWork'
    BY <1>1, <2>1, SpinnerKept DEF Places, Phases
  <2> QED
    BY <1>1, <2>1, <2>2, FlowMoves DEF Places, Phases
<1> QED
  BY <1>2, <1>3 DEF Sign

LEMMA RelayKeeps == ASSUME DeskInv, NEW f \in Flows, Relay(f) PROVE DeskInv'
<1>1. /\ at[f] = "relay" /\ UNCHANGED <<flowVars, caseVars, stamp, escrow>>
      /\ pays[f] = about[f] /\ UNCHANGED asks
      /\ sent \in [Hashes -> {"no", "sent", "mined", "reverted"}] /\ "relay" \in Routes
  BY DEF Relay, DeskInv, TypeOK, FlowsMatch, FlowMatches, flowVars, Routes
<1>2. CASE Broadcast(f, "relay") /\ Go(f, "stamping", "confirmed")
  <2>1. /\ sent' = [sent EXCEPT ![<<f, "relay">>] = "sent"]
        /\ sent'[<<f, "relay">>] # "no"
    BY <1>1, <1>2 DEF Broadcast, Hashes
  <2>2. SpinnerHasWork'
    BY <1>1, <1>2, SpinnerKept DEF Places, Phases
  <2> QED
    BY <1>1, <1>2, <2>1, <2>2, FlowMoves DEF Places, Phases
<1>3. CASE (Broadcast(f, "relay") \/ sent' = sent) /\ Go(f, "ended", "failed")
  <2>1. \/ sent' = sent
        \/ \E r \in Routes : sent' = [sent EXCEPT ![<<f, r>>] = "sent"]
    BY <1>1, <1>3 DEF Broadcast
  <2>2. SpinnerHasWork'
    BY <1>1, <1>3, SpinnerKept DEF Places, Phases
  <2> QED
    BY <1>1, <1>3, <2>1, <2>2, FlowMoves DEF Places, Phases
<1> QED
  BY <1>2, <1>3 DEF Relay

LEMMA StampKeeps == ASSUME DeskInv, NEW f \in Flows, Stamp(f) PROVE DeskInv'
<1>1. /\ at[f] = "stamping" /\ UNCHANGED <<flowVars, sent, caseVars, escrow>>
      /\ pays[f] = about[f] /\ phase \in Phases /\ UNCHANGED asks /\ Go(f, "ended", phase)
  BY DEF Stamp, DeskInv, TypeOK, FlowsMatch, FlowMatches, flowVars
<1>2. \E r \in Routes : HashOf(f) = <<f, r>> /\ sent[<<f, r>>] # "no"
  BY <1>1 DEF DeskInv, FlowsMatch, FlowMatches, HashOf, Routes
<1>3. \/ stamp' = stamp
      \/ \E r \in Routes : sent[<<f, r>>] # "no" /\ stamp' = [stamp EXCEPT ![about[f]] = <<f, r>>]
  BY <1>2 DEF Stamp
<1>4. SpinnerHasWork'
  BY <1>1, SpinnerKept DEF Places
<1> QED
  BY <1>1, <1>3, <1>4, FlowMoves DEF Places

-----------------------------------------------------------------------------
(* The steps of the screen, of the prototype's simulation and of the chain.  *)

LEMMA ScreenKeeps ==
  ASSUME DeskInv, ScreenStep, selected' \in Cases \cup {None}, shown' \in Cases \cup {None},
         loading' \subseteq Cases
  PROVE  DeskInv'
<1>1. UNCHANGED <<phase, signing, mining, at, about, asks, pays, sent, verdicts, decided, torn, stamp,
                  escrow>>
  BY DEF ScreenStep, timerVars, flowVars, caseVars
<1>2. TypeOK' /\ FlowsMatch' /\ SentMatches' /\ SavesFit' /\ VerdictsFit'
  BY <1>1 DEF DeskInv, TypeOK, FlowsMatch, FlowMatches, SentMatches, SavesFit, SaveFits, VerdictsFit
<1>3. SimsFit' /\ StampIsOwn' /\ SpinnerHasWork'
  BY <1>1 DEF DeskInv, SimsFit, Failure, Ended, StampIsOwn, SpinnerHasWork
<1> QED
  BY <1>2, <1>3 DEF DeskInv

(* The buttons and timers write the phase and nothing a flow goes by.        *)
LEMMA TimersKeep ==
  ASSUME DeskInv, Cancel \/ StartSim \/ SimSigns \/ SimMines
  PROVE  DeskInv'
<1>1. /\ UNCHANGED <<selected, shown, loading, at, about, asks, pays, sent, verdicts, decided, torn, stamp,
                     escrow>>
      /\ \/ phase' = "idle" /\ signing' = 0 /\ mining' = 0
         \/ /\ phase \in {"sig_rejected", "failed"}
            /\ phase' = "awaiting" /\ signing' = signing + 1 /\ mining' = mining
         \/ /\ signing > 0
            /\ phase' = "pending" /\ signing' = signing - 1 /\ mining' = mining + 1
         \/ /\ mining > 0
            /\ phase' = "confirmed" /\ signing' = signing /\ mining' = mining - 1
  BY DEF Cancel, StartSim, SimSigns, SimMines, Quiet, screenVars, flowVars, caseVars
<1>2. /\ TypeOK /\ FlowsMatch /\ SentMatches /\ StampIsOwn /\ SavesFit /\ VerdictsFit
      /\ signing \in Nat /\ mining \in Nat
      /\ signing + mining + Failure <= Cardinality(Ended)
  BY EndedIsFinite DEF DeskInv, TypeOK, SimsFit
<1>3. /\ signing' \in Nat /\ mining' \in Nat /\ phase' \in Phases
      /\ signing' + mining' + Failure' <= Cardinality(Ended)
  BY <1>1, <1>2, EndedIsFinite DEF Failure, Phases
<1>4. SimsFit'
  BY <1>1, <1>3 DEF SimsFit, Ended
<1>5. TypeOK'
  <2>1. signing' \in 0..Cardinality(Flows) /\ mining' \in 0..Cardinality(Flows)
    BY <1>3, EndedIsFinite DEF Failure
  <2> QED
    BY <1>1, <1>2, <1>3, <2>1 DEF TypeOK
<1>6. FlowsMatch' /\ SentMatches' /\ StampIsOwn' /\ SavesFit' /\ VerdictsFit'
  BY <1>1, <1>2 DEF FlowsMatch, FlowMatches, SentMatches, StampIsOwn, SavesFit, SaveFits, VerdictsFit
<1>7. SpinnerHasWork'
  BY <1>1, <1>2 DEF SpinnerHasWork
<1> QED
  BY <1>4, <1>5, <1>6, <1>7 DEF DeskInv

(* The chain settles what was sent; a stamp of the indexer is of the case's  *)
(* own payment.                                                              *)
LEMMA ChainKeeps ==
  ASSUME DeskInv, ChainStep,
         sent' \in [Hashes -> {"no", "sent", "mined", "reverted"}],
         \A h \in Hashes : sent'[h] = "no" <=> sent[h] = "no",
         escrow' \in [Cases -> {"held", "refunded", "conceded", "released"}],
         \A c \in Cases : escrow[c] = "conceded" => escrow'[c] = "conceded",
         stamp' \in [Cases -> Hashes \cup {Conceded, None}],
         \A c \in Cases : \/ stamp'[c] = stamp[c]
                          \/ stamp'[c] = Conceded /\ escrow[c] = "conceded"
                          \/ /\ stamp'[c] \in Hashes /\ sent[stamp'[c]] # "no"
                             /\ pays[stamp'[c][1]] = c
  PROVE  DeskInv'
<1>1. UNCHANGED <<selected, shown, loading, phase, signing, mining, at, about, asks, pays, verdicts, decided,
                  torn>>
  BY DEF ChainStep, screenVars, timerVars, flowVars, caseVars
<1>2. \A f \in Flows, r \in Routes : sent'[<<f, r>>] = "no" <=> sent[<<f, r>>] = "no"
  BY DEF Hashes
<1>3. TypeOK'
  BY <1>1 DEF DeskInv, TypeOK
<1>4. FlowsMatch' /\ SentMatches' /\ SavesFit' /\ VerdictsFit'
  BY <1>1, <1>2 DEF DeskInv, FlowsMatch, FlowMatches, SentMatches, SavesFit, SaveFits, VerdictsFit
<1>5. SimsFit' /\ SpinnerHasWork'
  BY <1>1 DEF DeskInv, SimsFit, Failure, Ended, SpinnerHasWork
<1>6. StampIsOwn'
  <2>1. ASSUME NEW c \in Cases
        PROVE  \/ stamp'[c] = None
               \/ stamp'[c] = Conceded /\ escrow'[c] = "conceded"
               \/ stamp'[c] \in Hashes /\ sent'[stamp'[c]] # "no" /\ pays'[stamp'[c][1]] = c
    <3>1. CASE stamp'[c] = stamp[c]
      BY <1>1, <3>1 DEF DeskInv, StampIsOwn
    <3>2. CASE stamp'[c] # stamp[c]
      BY <1>1, <3>2
    <3> QED
      BY <3>1, <3>2
  <2> QED
    BY <2>1 DEF StampIsOwn
<1> QED
  BY <1>3, <1>4, <1>5, <1>6 DEF DeskInv

LEMMA MineKeeps == ASSUME DeskInv, NEW h \in Hashes, Mine(h) PROVE DeskInv'
<1>1. /\ TypeOK /\ sent[h] = "sent" /\ UNCHANGED stamp /\ ChainStep
      /\ \E how \in {"mined", "reverted"} : sent' = [sent EXCEPT ![h] = how]
      /\ \/ escrow' = escrow
         \/ \E settled \in {"refunded", "released"} :
              /\ escrow[pays[h[1]]] = "held"
              /\ escrow' = [escrow EXCEPT ![pays[h[1]]] = settled]
  BY DEF Mine, DeskInv
<1>2. /\ sent' \in [Hashes -> {"no", "sent", "mined", "reverted"}]
      /\ \A g \in Hashes : sent'[g] = "no" <=> sent[g] = "no"
  BY <1>1 DEF TypeOK
<1>3. /\ escrow' \in [Cases -> {"held", "refunded", "conceded", "released"}]
      /\ \A c \in Cases : escrow[c] = "conceded" => escrow'[c] = "conceded"
  BY <1>1 DEF TypeOK
<1>4. stamp' \in [Cases -> Hashes \cup {Conceded, None}]
  BY <1>1 DEF TypeOK
<1> QED
  BY <1>1, <1>2, <1>3, <1>4, ChainKeeps

LEMMA ConcedeKeeps == ASSUME DeskInv, NEW c \in Cases, Concede(c) PROVE DeskInv'
<1>1. /\ TypeOK /\ UNCHANGED <<sent, stamp>> /\ ChainStep
      /\ escrow' = [escrow EXCEPT ![c] = "conceded"]
  BY DEF Concede, DeskInv
<1>2. /\ escrow' \in [Cases -> {"held", "refunded", "conceded", "released"}]
      /\ \A d \in Cases : escrow[d] = "conceded" => escrow'[d] = "conceded"
  BY <1>1 DEF TypeOK
<1>3. /\ sent' \in [Hashes -> {"no", "sent", "mined", "reverted"}]
      /\ stamp' \in [Cases -> Hashes \cup {Conceded, None}]
  BY <1>1 DEF TypeOK
<1> QED
  BY <1>1, <1>2, <1>3, ChainKeeps

LEMMA IndexerStampsKeeps == ASSUME DeskInv, NEW c \in Cases, IndexerStamps(c) PROVE DeskInv'
<1>1. /\ TypeOK /\ UNCHANGED <<sent, escrow>> /\ ChainStep
      /\ \/ \E h \in Hashes : /\ sent[h] = "mined" /\ pays[h[1]] = c
                              /\ stamp' = [stamp EXCEPT ![c] = h]
         \/ escrow[c] = "conceded" /\ stamp' = [stamp EXCEPT ![c] = Conceded]
  BY DEF IndexerStamps, DeskInv
<1>2. /\ sent' \in [Hashes -> {"no", "sent", "mined", "reverted"}]
      /\ escrow' \in [Cases -> {"held", "refunded", "conceded", "released"}]
      /\ stamp \in [Cases -> Hashes \cup {Conceded, None}]
  BY <1>1 DEF TypeOK
<1>3. PICK h \in Hashes \cup {Conceded} :
        /\ stamp' = [stamp EXCEPT ![c] = h]
        /\ \/ h = Conceded /\ escrow[c] = "conceded"
           \/ h \in Hashes /\ sent[h] # "no" /\ pays[h[1]] = c
  BY <1>1
<1>4. /\ stamp' \in [Cases -> Hashes \cup {Conceded, None}] /\ stamp'[c] = h
      /\ \A d \in Cases \ {c} : stamp'[d] = stamp[d]
  BY <1>2, <1>3
<1> QED
  BY <1>1, <1>2, <1>3, <1>4, ChainKeeps

-----------------------------------------------------------------------------
LEMMA StepKeeps == DeskInv /\ [Next]_vars => DeskInv'
<1> SUFFICES ASSUME DeskInv, [Next]_vars PROVE DeskInv'
  OBVIOUS
<1>1. CASE \E c \in Cases : \/ \E screenChanges \in BOOLEAN : ViewCase(c, screenChanges)
                            \/ LoadFirst(c) \/ \E ok \in BOOLEAN : CaseLoaded(c, ok)
  BY <1>1, ScreenKeeps DEF ViewCase, LoadFirst, CaseLoaded, DeskInv, TypeOK
<1>2. CASE \E c \in Cases : Concede(c) \/ IndexerStamps(c)
  BY <1>2, ConcedeKeeps, IndexerStampsKeeps
<1>3. CASE \E f \in Flows : \E outcome \in {"refund", "release"} : Record(f, outcome)
  BY <1>3, RecordKeeps
<1>4. CASE \E f \in Flows : Step(f)
  BY <1>4, DecideReadsKeeps, DecideSavesKeeps, ConnectKeeps, PreflightKeeps, WalletKeeps, SignKeeps, RelayKeeps, StampKeeps
     DEF Step
<1>5. CASE Cancel \/ StartSim \/ SimSigns \/ SimMines
  BY <1>5, TimersKeep
<1>6. CASE \E h \in Hashes : Mine(h)
  BY <1>6, MineKeeps
<1>7. CASE UNCHANGED vars
  BY <1>7, ScreenKeeps DEF vars, screenVars, ScreenStep, DeskInv, TypeOK
<1> QED
  BY <1>1, <1>2, <1>3, <1>4, <1>5, <1>6, <1>7 DEF Next

LEMMA Inductive == Spec => []DeskInv
  BY InitInv, StepKeeps, PTL DEF Spec

(* The state of the screen, of its flows and timers and of the backend keeps *)
(* its types; no more simulations run than flows have failed.                *)
THEOREM TypeCorrect == Spec => []TypeOK
<1>1. DeskInv => TypeOK
  BY DEF DeskInv
<1> QED
  BY <1>1, Inductive, PTL

(* However many flows run, overlap, are cancelled, retried or answered late: *)
(* money is sent only as a recorded decision of its case says, both ways     *)
(* only for a case that requests decided at once or that a decision was cut  *)
(* off of, a stamped hash was sent for that case, and a spinner stands for   *)
(* work.                                                                     *)
THEOREM DeskHonest == Spec => []DeskIsHonest
<1>1. DeskInv => SentIsDecided
  <2> SUFFICES ASSUME DeskInv PROVE SentIsDecided
    OBVIOUS
  <2>1. \A h \in Hashes : sent[h] # "no" =>
          /\ pays[h[1]] \in Cases /\ asks[h[1]] \in verdicts[pays[h[1]]]
          /\ asks[h[1]] \in {"refund", "release"}
    BY DEF DeskInv, SentMatches, Hashes, TypeOK
  <2>2. ASSUME NEW g \in Hashes, NEW h \in Hashes, sent[g] # "no", sent[h] # "no",
               pays[g[1]] = pays[h[1]], asks[g[1]] # asks[h[1]]
        PROVE  pays[g[1]] \in torn
    <3>1. {"refund", "release"} \subseteq verdicts[pays[g[1]]]
      BY <2>1, <2>2
    <3> QED
      BY <2>1, <2>2, <3>1 DEF DeskInv, VerdictsFit
  <2> QED
    BY <2>1, <2>2 DEF SentIsDecided
<1>2. DeskInv => DeskIsHonest
  BY <1>1 DEF DeskInv, DeskIsHonest
<1> QED
  BY <1>2, Inductive, PTL

=============================================================================
