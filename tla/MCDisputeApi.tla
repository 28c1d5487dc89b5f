--------------------------- MODULE MCDisputeApi ---------------------------
(* DisputeApi for TLC. *)
EXTENDS DisputeApi, TLC
=============================================================================
