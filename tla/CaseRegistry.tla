---------------------------- MODULE CaseRegistry ----------------------------
(***************************************************************************)
(* FinneCaseRegistry, the contract the anchor worker writes to.  Its source *)
(* is not in this repository: the lifecycle is the one anchorWorker.ts,    *)
(* services.ts and models/index.ts rely on.  One payment and the case on   *)
(* it; hashes, amounts and roles are left out.                             *)
(***************************************************************************)
EXTENDS Naturals, Sequences

(* Which function takes the case from where to where: <<from, kind, to>>.   *)
LIFECYCLE ==
  { <<"none",                   "receipt",                "REGISTERED">>,
    <<"REGISTERED",             "case",                   "OPEN">>,
    <<"OPEN",                   "response",               "RESPONDED">>,
    <<"OPEN",                   "under_review",           "UNDER_REVIEW">>,
    <<"RESPONDED",              "under_review",           "UNDER_REVIEW">>,
    <<"UNDER_REVIEW",           "decision",               "DECIDED">>,
    <<"DECIDED",                "close_no_correction",    "CLOSED_NO_CORRECTION">>,
    <<"DECIDED",                "correction_outstanding", "CORRECTION_OUTSTANDING">>,
    <<"CORRECTION_OUTSTANDING", "correction",             "CLOSED_CORRECTED">> }

Kinds == {step[2] : step \in LIFECYCLE}

(* Every kind ends in one status, so the calls accepted so far tell where   *)
(* the case stands.                                                         *)
RegistryStatus(accepted) ==
  IF accepted = <<>> THEN "none"
  ELSE (CHOOSE step \in LIFECYCLE : step[2] = accepted[Len(accepted)])[3]

Accepts(accepted, kind) ==
  \E step \in LIFECYCLE : step[1] = RegistryStatus(accepted) /\ step[2] = kind
=============================================================================
