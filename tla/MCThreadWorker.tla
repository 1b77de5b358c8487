--------------------------- MODULE MCThreadWorker ---------------------------
(* ThreadWorker on small sets of jobs. *)
EXTENDS ThreadWorker, TLC

=============================================================================
