----------------------------- MODULE MCIndexer -----------------------------
(* Indexer for TLC.  One payer owes two payees the same amount.             *)
EXTENDS Indexer, TLC

CONSTANTS t1, t2

Payees == t1 :> "100 to A" @@ t2 :> "100 to B"
=============================================================================
