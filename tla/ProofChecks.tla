---------------------------- MODULE ProofChecks ----------------------------
(***************************************************************************)
(* The deterministic checks of a disputed payment (proof/checks.ts): what  *)
(* each says of one deliverable of the work order, from nothing but times  *)
(* on record and the windows of the policy clauses.  Times are integers in *)
(* one unit; None is a time that is not on record.                         *)
(***************************************************************************)
EXTENDS Integers

CONSTANTS Grace,       \* graceWindowHours
          Acceptance,  \* acceptancePeriodDays
          Deemed,      \* deemedAcceptanceDays
          None

ASSUME WindowsAssumption ==
  /\ Grace \in Nat /\ Acceptance \in Nat /\ Deemed \in Nat
  /\ Deemed >= Acceptance
  /\ None \notin Int

Results == {"pass", "fail", "missing"}

(* The times of a deliverable, as the maps of CheckInput give them.          *)
Deliverable == [due : Int, submitted : Int \cup {None},
                rejected : Int \cup {None}, accepted : Int \cup {None}]

Verdict(ok) == IF ok THEN "pass" ELSE "fail"

(* amountNotExceedsPayment                                                   *)
AmountWithinPayment(contested, amount) == Verdict(contested <= amount)

(* deliverablesHaveDelivery                                                  *)
DeliveryRecorded(d) == IF d.submitted = None THEN "missing" ELSE "pass"

InGrace(d, t) == d.due <= t /\ t <= d.due + Grace

(* graceWindow (check 8): late by no more than the window, unless rejected   *)
(* in writing inside the window.                                             *)
GraceWindow(d) ==
  IF d.submitted = None THEN "missing"
  ELSE IF d.rejected # None /\ InGrace(d, d.rejected) THEN "fail"
       ELSE Verdict(d.submitted <= d.due + Grace)

(* acceptanceStatus (check 9): disputed before it was deemed accepted.       *)
AcceptanceStatus(d, opened) ==
  IF d.submitted = None THEN "missing"
  ELSE Verdict(opened <= d.submitted + Acceptance)

(* A slip: any payment after the submission is in order.                     *)
PaymentOrdering_Slip(d, paid) ==
  IF d.accepted # None THEN Verdict(paid >= d.accepted)
  ELSE IF d.submitted = None THEN "missing"
       ELSE Verdict(paid >= d.submitted)

(* paymentOrdering (check 10): paid after the written acceptance, or, when   *)
(* there is none, after the work was deemed accepted.                        *)
PaymentOrdering(d, paid) ==
  IF d.accepted # None THEN Verdict(paid >= d.accepted)
  ELSE IF d.submitted = None THEN "missing"
       ELSE Verdict(paid >= d.submitted + Deemed)
=============================================================================
