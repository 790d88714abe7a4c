--------------------------- MODULE MCDaemonClients ---------------------------
(***************************************************************************)
(* DaemonClients with two interchangeable callers, an empty and a short    *)
(* asset, and one replacement of the asset.                                *)
(***************************************************************************)
EXTENDS DaemonClients, TLC

Symmetry == Permutations(Callers)
=============================================================================
