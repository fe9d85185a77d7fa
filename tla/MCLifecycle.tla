---------------------------- MODULE MCLifecycle ----------------------------
(***************************************************************************)
(* The instance on which TLC checks Lifecycle.                             *)
(***************************************************************************)
EXTENDS Lifecycle, TLC

Symmetry == Permutations(Callers)

============================================================================
