------------------------------ MODULE MCEvents ------------------------------
(***************************************************************************)
(* The instance on which TLC checks Events.                                *)
(***************************************************************************)
EXTENDS Events, TLC

Symmetry == Permutations(Receivers)

============================================================================
