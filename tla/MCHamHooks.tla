----------------------------- MODULE MCHamHooks -----------------------------
(* HamHooks with two functions that may be hooked.                             *)
EXTENDS HamHooks

CONSTANTS spawn, killed

Symmetry == Permutations({spawn, killed})
=============================================================================
