---------------------------- MODULE MCFrameRuns ----------------------------
(* FrameRuns for TLC. *)
EXTENDS FrameRuns, TLC
=============================================================================
