---------------------------- MODULE MCCaseTriage -----------------------------
(***************************************************************************)
(* Finite instances of CaseTriage.  Behaviours and noise are only compared *)
(* for equality, so each is a symmetry set where no liveness is checked.   *)
(***************************************************************************)
EXTENDS CaseTriage, TLC

TraceSymmetry == Permutations(Behaviour) \cup Permutations(Noise)
=============================================================================
