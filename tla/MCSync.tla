------------------------------- MODULE MCSync -------------------------------
(***************************************************************************)
(* The instance on which TLC checks Sync.                                  *)
(***************************************************************************)
EXTENDS Sync, TLC

CONSTANTS c0, c1, c2

FromTo(c, d, n) == [cursor |-> c, next |-> d, records |-> n]

(* A second page follows the first; it is the last, or its own successor. *)
TwoPages == {FromTo(c0, c1, 1), FromTo(c1, c0, 0), FromTo(c1, c1, 0)}

(* The third page leads back to the second, or is the last. *)
ThreePages == {FromTo(c0, c1, 1), FromTo(c1, c2, 0), FromTo(c2, c0, 1), FromTo(c2, c1, 0)}

Symmetry == Permutations(Workers)

============================================================================
