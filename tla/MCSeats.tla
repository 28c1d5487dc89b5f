------------------------------- MODULE MCSeats -------------------------------
(* Seats for TLC: one account from before the seats, with a wallet.          *)
EXTENDS Seats, TLC

CONSTANT w1

OldReviewer == << [email |-> None, role |-> "reviewer", seat |-> None, wallet |-> w1,
                   letters |-> "mixed", made |-> "before"] >>

TabsAlike == Permutations(Tabs)
=============================================================================
