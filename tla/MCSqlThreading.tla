--------------------------- MODULE MCSqlThreading ---------------------------
(* SqlThreading on a small set of queries. *)
EXTENDS SqlThreading, TLC

\* Queries are interchangeable; used by the run without liveness properties.
QuerySymmetry == Permutations(Queries)
=============================================================================
