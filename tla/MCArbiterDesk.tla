--------------------------- MODULE MCArbiterDesk ---------------------------
(* ArbiterDesk for TLC; nothing tells the cases, or the flows, apart.        *)
EXTENDS ArbiterDesk, TLC

Alike == Permutations(Cases) \cup Permutations(Flows)
=============================================================================
