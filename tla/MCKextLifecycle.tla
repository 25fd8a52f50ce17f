-------------------------- MODULE MCKextLifecycle --------------------------
(* KextLifecycle for TLC.                                                  *)
EXTENDS KextLifecycle, TLC

Symmetry == Permutations(Readers)
=============================================================================
