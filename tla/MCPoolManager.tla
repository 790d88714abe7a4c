--------------------------- MODULE MCPoolManager ---------------------------
(***************************************************************************)
(* PoolManager with two workers and three queries: two of one tenant with  *)
(* the same SQL text, which meet in the cache and in the affinity map, and *)
(* one of another tenant.                                                  *)
(***************************************************************************)
EXTENDS PoolManager, TLC

CONSTANTS a1, a2, b1, tA, tB, q

MCTenantOf == [t \in Tasks |-> IF t = b1 THEN tB ELSE tA]
MCSqlOf == [t \in Tasks |-> q]

(* a1 and a2 are interchangeable.                                          *)
Symmetry == Permutations({a1, a2})
=============================================================================
