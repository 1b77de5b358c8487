----------------------------- MODULE MCForwards -----------------------------
(* Forwards on a few clients and slots. *)
EXTENDS Forwards, TLC

\* Clients are interchangeable.
ClientSymmetry == Permutations(Clients)
=============================================================================
