------------------------ MODULE MCDisputeStepsSerial ------------------------
(***************************************************************************)
(* DisputeSteps with one slot, against DisputeApi.                         *)
(***************************************************************************)
EXTENDS DisputeStepsSerial
=============================================================================
