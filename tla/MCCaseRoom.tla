---------------------------- MODULE MCCaseRoom ----------------------------
(* CaseRoom for TLC: two cases, two loads in flight, two posts.              *)
EXTENDS CaseRoom, TLC

CaseSymmetry == Permutations(Cases)
=============================================================================
