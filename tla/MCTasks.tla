------------------------------ MODULE MCTasks -------------------------------
(* Tasks on a short list and a short clock. *)
EXTENDS Tasks, TLC

\* Task instances are interchangeable.
TokenSymmetry == Permutations(Tokens)
=============================================================================
