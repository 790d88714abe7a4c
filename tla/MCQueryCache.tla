---------------------------- MODULE MCQueryCache ----------------------------
(***************************************************************************)
(* QueryCache on a small instance: two tenants, two SQL texts, and three   *)
(* results: an empty one, one of which two overflow the byte budget, and   *)
(* one that is larger than the whole budget.                               *)
(***************************************************************************)
EXTENDS QueryCache, TLC

CONSTANTS t1, t2, q1, q2, empty, small, huge

MCByteSize == (empty :> 0) @@ (small :> 2) @@ (huge :> 6)

Symmetry == Permutations({t1, t2}) \cup Permutations({q1, q2})
=============================================================================
