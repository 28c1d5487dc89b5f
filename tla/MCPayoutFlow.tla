---------------------------- MODULE MCPayoutFlow ----------------------------
(* PayoutFlow for TLC.                                                       *)
EXTENDS PayoutFlow

(* Nothing but contracts, a description without dates, and a late date.      *)
Some ==
  { [text |-> FALSE, due |-> "none", contracts |-> TRUE],
    [text |-> TRUE, due |-> "early", contracts |-> TRUE],
    [text |-> TRUE, due |-> "late", contracts |-> FALSE] }
=============================================================================
