--------------------------- MODULE MCDisputeSteps ---------------------------
(* DisputeSteps for TLC, with several handlers in the air. *)
EXTENDS DisputeSteps, TLC

Symmetry == Permutations(Slots)
=============================================================================
