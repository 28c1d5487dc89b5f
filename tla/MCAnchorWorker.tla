--------------------------- MODULE MCAnchorWorker ---------------------------
(* AnchorWorker for TLC, with the first jobs DisputeApi enqueues for a case, *)
(* after the receipt of its payment.                                         *)
EXTENDS AnchorWorker, TLC

Unanswered == { <<"receipt", "case", "under_review">> }
=============================================================================
