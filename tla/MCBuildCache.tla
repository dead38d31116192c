---------------------------- MODULE MCBuildCache ----------------------------
(* Contents of inputs are only compared for equality.                      *)
EXTENDS BuildCache, TLC

Symmetry == Permutations(Texts)
=============================================================================
