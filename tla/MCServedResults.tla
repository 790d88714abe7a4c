-------------------------- MODULE MCServedResults --------------------------
(***************************************************************************)
(* ServedResults with two workers, so that one can hold an answer while    *)
(* the other serves, and two tenants, so that an invalidation of one meets *)
(* the answers of the other.                                               *)
(***************************************************************************)
EXTENDS ServedResults, TLC

CONSTANTS w1, w2, t1, t2, q1

Symmetry == Permutations({w1, w2}) \cup Permutations({t1, t2})
=============================================================================
