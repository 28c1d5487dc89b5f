---------------------------- MODULE FrameContent ----------------------------
(***************************************************************************)
(* What the agent puts into a DraftFrame: the file of one case, as         *)
(* buildFrameInputFromShared reads it (registrar/frameOrchestrator.ts),    *)
(* the checks over it (ProofChecks), the outcome requirements, unresolved  *)
(* items and citation depth made from them, and the part of the model      *)
(* (agent/frame-*.ts).                                                     *)
(*                                                                         *)
(* The file grows by messages and evidence; the work order, the payment    *)
(* and the allegation are fixed when the case opens.  A run is one step    *)
(* here: FrameRuns has the interleavings of runs, this module the content. *)
(* A frame's sentences are left out, what they refer to is kept.           *)
(***************************************************************************)
EXTENDS ProofChecks, FiniteSets, Sequences

CONSTANTS Names,        \* names of deliverables
          Concluding,   \* those that hold words the validator takes for a conclusion
          Orders,       \* work orders: sequences of rows
          Calendars,    \* [paid, opened]: paidAt and openedAt
          Allegations,  \* [claim, form, value]: amountContested and its claim type
          Amount,       \* the payout's amount
          MaxEvidence,  \* bound: evidence items a side
          MaxRuns       \* bound: runs of the agent

Stamps == Int \cup {None}
Forms  == {"whole", "decimal", "words"}   \* "500", "33.34", "half of it"
Claims == {"non_delivery", "other"}
Sides  == {"customer", "merchant"}

Unnamed == "Contested deliverable"   \* where there is no work order

(* A row of the work order.  None: null, or absent on an older order.  The   *)
(* field stamped is FALSE for such an order, which has no lifecycle fields.  *)
Rows == [name : Names \cup {Unnamed}, criteria : BOOLEAN, stamped : BOOLEAN, due : Int,
         submitted : Stamps, rejected : Stamps, accepted : Stamps]

ASSUME OrdersAssumption == Orders \subseteq Seq(Rows)
ASSUME NamesAssumption == Concluding \subseteq Names /\ Unnamed \notin Names
ASSUME CalendarsAssumption ==
  \A c \in Calendars : c.paid \in Int /\ c.opened \in Int /\ c.paid <= c.opened
ASSUME AllegationsAssumption == Allegations \subseteq [claim : Claims, form : Forms, value : Nat]
ASSUME ContentBoundsAssumption == Amount \in Nat /\ MaxEvidence \in Nat /\ MaxRuns \in Nat

VARIABLES
  order, calendar, allegation,   \* what the case was opened on
  writers,   \* the sides that have sent a message
  evidence,  \* how many items each side has filed
  runs,      \* runs of the agent that came to their end
  concluded, \* those whose questions, as the model phrased them, conclude
  made,      \* DraftFrame rows saved by them
  frame      \* the latest of them

opening == <<order, calendar, allegation>>
vars == <<opening, writers, evidence, runs, concluded, made, frame>>

-----------------------------------------------------------------------------
(* buildFrameInputFromShared                                                 *)

Placeholder == [name |-> Unnamed, criteria |-> FALSE,
                stamped |-> FALSE, due |-> calendar.opened,
                submitted |-> None, rejected |-> None, accepted |-> None]

Deliverables == IF order = <<>> THEN <<Placeholder>> ELSE order

Named(name) == {i \in DOMAIN Deliverables : Deliverables[i].name = name}

(* The three maps are keyed by the name: of rows of one name the last wins.  *)
Keeper(name) == CHOOSE i \in Named(name) : \A j \in Named(name) : j <= i

Times(i) ==
  LET last == Deliverables[Keeper(Deliverables[i].name)]
  IN  [due |-> Deliverables[i].due, submitted |-> last.submitted,
       rejected |-> last.rejected, accepted |-> last.accepted]

(* acceptanceTimestamps is given only if some row has lifecycle fields.      *)
HasAcceptanceMap == \E i \in DOMAIN Deliverables : Deliverables[i].stamped

-----------------------------------------------------------------------------
(* proof/checks.ts                                                           *)

Finding(check, clause, i, result) ==
  [check |-> check, clause |-> clause, row |-> i, result |-> result]

(* BigInt refuses a value that is not a number: runChecks turns what a check *)
(* throws into a finding.  toMicro has made a whole number of any other.     *)
AmountFinding ==
  Finding("amount", FALSE, 0,
          IF allegation.form = "words" THEN "missing"
          ELSE AmountWithinPayment(allegation.value, Amount))

RowFindings(i) ==
  {Finding("delivery", FALSE, i, DeliveryRecorded(Times(i))),
   Finding("grace", TRUE, i, GraceWindow(Times(i))),
   Finding("acceptance", TRUE, i, AcceptanceStatus(Times(i), calendar.opened))}
  \cup IF HasAcceptanceMap
       THEN {Finding("ordering", TRUE, i, PaymentOrdering(Times(i), calendar.paid))}
       ELSE {}

RunChecks == {AmountFinding} \cup UNION {RowFindings(i) : i \in DOMAIN Deliverables}

ResultOf(findings, check, i) ==
  (CHOOSE f \in findings : f.check = check /\ f.row = i).result

-----------------------------------------------------------------------------
(* frame-templates.ts: for each outcome the first findings its text cites.   *)

Outcomes == {"RECIPIENT_UPHELD", "PLATFORM_UPHELD", "PARTIAL_PLATFORM_UPHELD",
             "DISMISSED_INSUFFICIENT_EVIDENCE"}

First(findings, check, result) ==
  LET which == {f \in findings : f.check = check /\ f.result = result}
  IN  {f \in which : \A g \in which : f.row <= g.row}

CitedBy(outcome, findings) ==
  CASE outcome = "RECIPIENT_UPHELD" ->
         First(findings, "grace", "pass") \cup First(findings, "acceptance", "fail")
           \cup First(findings, "ordering", "fail")
    [] outcome = "PLATFORM_UPHELD" ->
         First(findings, "delivery", "missing") \cup First(findings, "grace", "fail")
           \cup First(findings, "ordering", "fail")
    [] OTHER -> {}

FillOutcomeRequirements(findings) ==
  {[outcome |-> o,
    cites |-> IF allegation.claim = "other" THEN {} ELSE CitedBy(o, findings)]
     : o \in Outcomes}

-----------------------------------------------------------------------------
(* frame-unresolved.ts, as it is called: no tranche amounts and no findings. *)

Item(kind, refs) == [kind |-> kind, refs |-> refs]

Uncountered ==
  \E s \in Sides : evidence[s] > 0 /\ \A t \in Sides \ {s} : evidence[t] = 0

Bare == {i \in DOMAIN Deliverables : ~Deliverables[i].criteria}

ItemIf(open, kind, refs) == IF open THEN {Item(kind, refs)} ELSE {}

ComputeUnresolved(findings) ==
  LET noRejection == {f \in findings : f.check = "grace" /\ f.result = "pass"}
  IN  ItemIf(writers = {}, "unanswered_reply", 1)
        \cup ItemIf(Uncountered, "uncountered_evidence", 2)
        \cup ItemIf(Bare # {}, "absent_acceptance_criteria", Cardinality(Bare))
        \cup ItemIf(noRejection # {}, "missing_written_rejection", Cardinality(noRejection))

(* BigInt(contestedAmountMicroUsdc) is given amountContested as it was       *)
(* typed: it refuses all but a whole number.                                 *)
UnresolvedThrows == allegation.form # "whole"

-----------------------------------------------------------------------------
(* frame-assembly.ts                                                         *)

(* The references of the item of a kind, if there is one: there is one at    *)
(* most.                                                                     *)
RefsOf(unresolved, kind) ==
  IF \E u \in unresolved : u.kind = kind
  THEN (CHOOSE u \in unresolved : u.kind = kind).refs ELSE 0

(* What both sides have to address.                                          *)
CommonRefs(unresolved) ==
  RefsOf(unresolved, "uncountered_evidence") + RefsOf(unresolved, "absent_acceptance_criteria")

(* checkId is the check and the name, and the ids are counted once.          *)
FindingRefs(findings) ==
  Cardinality({<<f.check, Deliverables[f.row].name>> : f \in {g \in findings : g.clause}})

Depth(platform, recipient) == [platform |-> platform, recipient |-> recipient]

(* A slip: uncountered evidence that the customer filed does not count for   *)
(* the recipient.                                                            *)
CitationDepth_Slip(findings, unresolved) ==
  LET theirs == IF evidence["customer"] > 0
                THEN RefsOf(unresolved, "absent_acceptance_criteria") ELSE CommonRefs(unresolved)
  IN  Depth(FindingRefs(findings) + CommonRefs(unresolved)
              + RefsOf(unresolved, "missing_written_rejection"),
            FindingRefs(findings) + theirs + RefsOf(unresolved, "unanswered_reply"))

(* computeCitationDepth                                                      *)
CitationDepth(findings, unresolved) ==
  LET common == FindingRefs(findings) + CommonRefs(unresolved)
  IN  Depth(common + RefsOf(unresolved, "missing_written_rejection"),
            common + RefsOf(unresolved, "unanswered_reply"))

(* A slip: the unresolved items are computed first, so that a throw loses    *)
(* the requirements as well.                                                 *)
Deterministic_Slip ==
  [findings     |-> RunChecks,
   requirements |-> IF UnresolvedThrows THEN {} ELSE FillOutcomeRequirements(RunChecks),
   unresolved   |-> IF UnresolvedThrows THEN {} ELSE ComputeUnresolved({})]

(* The parts without the model, under one try: the assignments before the    *)
(* one that throws stand.                                                    *)
Deterministic ==
  [findings     |-> RunChecks,
   requirements |-> FillOutcomeRequirements(RunChecks),
   unresolved   |-> IF UnresolvedThrows THEN {} ELSE ComputeUnresolved({})]

Contested(findings) == {f \in findings : f.result \in {"fail", "missing"}}

Phrasing(questions, degraded, concludes) ==
  [questions |-> questions, degraded |-> degraded, concludes |-> concludes]

(* phraseTurningQuestions: the model is not asked if nothing is contested;   *)
(* it may fail, and gateLine may drop its lines (here: all of them or none). *)
(* The words gateLine bars are not those validateDraftFrame bars.            *)
Phrasings(findings) ==
  LET contested == Contested(findings)
  IN  {Phrasing({}, FALSE, FALSE)}
        \cup IF contested = {} THEN {}
             ELSE {Phrasing({}, TRUE, FALSE), Phrasing(contested, FALSE, FALSE),
                   Phrasing(contested, FALSE, TRUE)}

(* filledParams holds the checkId of a finding that is cited, and with it    *)
(* the name of the deliverable.                                              *)
CitesConclusion(requirements) ==
  \E r \in requirements : \E f \in r.cites : Deliverables[f.row].name \in Concluding

(* validateDraftFrame: scans every string that is the value of a key, the    *)
(* text of questions and the parameters of requirements among them (lists of *)
(* references it does not look into), and throws on a conclusion.            *)
Refused(requirements, phrasing) ==
  phrasing.concludes \/ CitesConclusion(requirements)

NoFrame == [level |-> 2, findings |-> {}, requirements |-> {}, unresolved |-> {},
            depth |-> Depth(0, 0), questions |-> {}]

Framed(parts, phrasing) ==
  [level |-> IF phrasing.degraded THEN 1 ELSE 0,
   findings |-> parts.findings,
   requirements |-> parts.requirements,
   unresolved |-> parts.unresolved,
   depth |-> CitationDepth(parts.findings, parts.unresolved),
   questions |-> phrasing.questions]

-----------------------------------------------------------------------------
(* The file of the case.  submitResponse and attachEvidence.                 *)

Init ==
  /\ order \in Orders /\ calendar \in Calendars /\ allegation \in Allegations
  /\ writers = {}
  /\ evidence = [s \in Sides |-> 0]
  /\ runs = 0 /\ concluded = 0 /\ made = 0
  /\ frame = NoFrame

Write(s) ==
  /\ s \notin writers
  /\ writers' = writers \cup {s}
  /\ UNCHANGED <<opening, evidence, runs, concluded, made, frame>>

FileEvidence(s) ==
  /\ evidence[s] < MaxEvidence
  /\ evidence' = [evidence EXCEPT ![s] = @ + 1]
  /\ UNCHANGED <<opening, writers, runs, concluded, made, frame>>

(* assembleFrame: at rung 2 nothing is saved, nor is a draft that validate-  *)
(* DraftFrame refuses; assembleForCaseByNumber catches what it throws.       *)
Assemble ==
  LET parts == Deterministic
  IN  /\ runs < MaxRuns /\ runs' = runs + 1
      /\ \/ /\ parts.requirements = {} /\ parts.unresolved = {}
            /\ UNCHANGED <<concluded, made, frame>>
         \/ /\ parts.requirements # {} \/ parts.unresolved # {}
            /\ \E phrasing \in Phrasings(parts.findings) :
                 /\ concluded' = IF phrasing.concludes THEN concluded + 1 ELSE concluded
                 /\ IF Refused(parts.requirements, phrasing)
                    THEN UNCHANGED <<made, frame>>
                    ELSE made' = made + 1 /\ frame' = Framed(parts, phrasing)
      /\ UNCHANGED <<opening, writers, evidence>>

Next == Assemble \/ \E s \in Sides : Write(s) \/ FileEvidence(s)

Spec == Init /\ [][Next]_vars

-----------------------------------------------------------------------------
(* Properties.                                                               *)

(* Types.                                                                    *)
TypeOK ==
  /\ order \in Orders /\ calendar \in Calendars /\ allegation \in Allegations
  /\ writers \subseteq Sides
  /\ evidence \in [Sides -> 0..MaxEvidence]
  /\ runs \in 0..MaxRuns /\ concluded \in 0..MaxRuns /\ made \in 0..MaxRuns

(* The claim has templates, which name what they cite, and the order has a   *)
(* deliverable whose name holds a conclusion.                                *)
NameMayConclude ==
  /\ allegation.claim # "other"
  /\ \E i \in DOMAIN Deliverables : Deliverables[i].name \in Concluding

(* Nothing but a conclusion costs a run its frame: not the amount, whatever  *)
(* was typed, no missing date, and not a model that fails.  A conclusion in  *)
(* the questions always costs it; one in a deliverable's name may.  And a    *)
(* frame that is saved has a line for each of the four outcomes.             *)
OnlyConclusionsAreRefused ==
  /\ made + concluded <= runs
  /\ ~NameMayConclude => made + concluded = runs
  /\ made > 0 => /\ frame.level < 2
                 /\ {r.outcome : r \in frame.requirements} = Outcomes

(* The frame cites both parties at equal depth, but for the one point that   *)
(* is the recipient's alone, a dispute nobody has answered (FIN-126).        *)
DepthIsEven ==
  frame.depth.recipient - frame.depth.platform =
    IF \E u \in frame.unresolved : u.kind = "unanswered_reply" THEN 1 ELSE 0

(* A frame does not both say that a payment kept the order of performance,   *)
(* on a deliverable nobody accepted in writing, and that it was disputed in  *)
(* time: who pays after the deemed acceptance disputes after it, unless all  *)
(* of it falls on one instant.                                               *)
OrderAgreesWithAcceptance ==
  \A i \in DOMAIN Deliverables :
    (made > 0 /\ HasAcceptanceMap /\ Times(i).accepted = None
       /\ ResultOf(frame.findings, "ordering", i) = "pass"
       /\ ResultOf(frame.findings, "acceptance", i) = "pass")
      => /\ calendar.paid = calendar.opened
         /\ calendar.opened = Times(i).submitted + Acceptance

(* A delivery later by any delay is never judged better than the one on      *)
(* record, nor is one rejected at some time better than one never rejected.  *)
NoGainFromDelay ==
  \A i \in DOMAIN Deliverables : \A delay \in 0..Grace :
    made > 0 /\ Times(i).submitted # None =>
      LET later == [Times(i) EXCEPT !.submitted = @ + delay]
          unrejected == [later EXCEPT !.rejected = None]
      IN  /\ GraceWindow(later) = "pass"
               => ResultOf(frame.findings, "grace", i) = "pass"
          /\ GraceWindow(later) = "pass" => GraceWindow(unrejected) = "pass"

(* A deliverable whose name no other row has is judged on its own times,     *)
(* whatever else is in the order: the maps that carry the times are keyed by *)
(* the name alone.                                                           *)
JudgedOnItsOwn ==
  \A i \in DOMAIN Deliverables :
    (made > 0 /\ Named(Deliverables[i].name) = {i}) =>
      LET d == Deliverables[i]
          own == [due |-> d.due, submitted |-> d.submitted,
                  rejected |-> d.rejected, accepted |-> d.accepted]
      IN  /\ ResultOf(frame.findings, "delivery", i) = DeliveryRecorded(own)
          /\ ResultOf(frame.findings, "grace", i) = GraceWindow(own)
          /\ ResultOf(frame.findings, "acceptance", i)
               = AcceptanceStatus(own, calendar.opened)

FindingsAreSound == OrderAgreesWithAcceptance /\ NoGainFromDelay /\ JudgedOnItsOwn
=============================================================================
