------------------------------ MODULE MCNVault ------------------------------
(* NVault on two keys and two values. *)
EXTENDS NVault, TLC

VaultSymmetry == Permutations(Keys) \union Permutations(Vals)
PruneRanges == {<<0, 0>>, <<1, 0>>, <<0, 2>>, <<1, 3>>}
=============================================================================
