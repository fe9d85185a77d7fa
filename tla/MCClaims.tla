------------------------------ MODULE MCClaims ------------------------------
(***************************************************************************)
(* Requests on which TLC checks Claims: q1 and q2 share the key k1 and are *)
(* interchangeable, q3 has none.                                           *)
(***************************************************************************)
EXTENDS Claims, TLC

CONSTANTS q1, q2, q3, k1

KeyOf == [q \in Requests |-> IF q = q3 THEN None ELSE k1]

Interchangeable == Permutations({q1, q2})

Begun(q) == exec[q].at # "acquire" \/ exec[q].late # {}

(* Bound: the requests that begin have one key, or none. *)
OneKey == \A p, q \in Requests : Begun(p) /\ Begun(q) => Key[p] = Key[q]
============================================================================
