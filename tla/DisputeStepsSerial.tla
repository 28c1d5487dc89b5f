------------------------- MODULE DisputeStepsSerial -------------------------
(***************************************************************************)
(* DisputeSteps with one slot implements DisputeApi.  The rows DisputeApi  *)
(* sees are those of the last moment no handler was half-way through its   *)
(* writes; the chain and the clock it sees as they are.                    *)
(***************************************************************************)
EXTENDS DisputeSteps

VARIABLE before

Rows ==
  [payoutStatus |-> payoutStatus, caseStatus |-> caseStatus, payoutRef |-> payoutRef,
   infoRequestCount |-> infoRequestCount, unanswered |-> unanswered, overdue |-> overdue,
   replied |-> replied, lateEvidence |-> lateEvidence, decisions |-> decisions,
   executed |-> executed, jobs |-> jobs]

(* The scheduler's batch is a row of independent saves.                      *)
AtRest == \A s \in Slots : handler[s].op \in {"idle", "tick"}

SerialInit == InitSteps /\ before = Rows
SerialNext ==
  /\ NextSteps
  /\ before' = IF AtRest' THEN Rows' ELSE [before EXCEPT !.overdue = overdue']

SerialSpec == SerialInit /\ [][SerialNext]_<<stepVars, before>>

API == INSTANCE DisputeApi WITH
  payoutStatus     <- before.payoutStatus,
  caseStatus       <- before.caseStatus,
  payoutRef        <- before.payoutRef,
  infoRequestCount <- before.infoRequestCount,
  unanswered       <- before.unanswered,
  overdue          <- before.overdue,
  replied          <- before.replied,
  lateEvidence     <- before.lateEvidence,
  decisions        <- before.decisions,
  executed         <- before.executed,
  jobs             <- before.jobs

(* Handlers that do not overlap do exactly what DisputeApi says: every call  *)
(* takes effect as one of its actions, or has no effect.                     *)
ImplementsApi == API!Spec

=============================================================================
