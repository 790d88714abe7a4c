-------------------------- MODULE MCLaplaceNoise --------------------------
(***************************************************************************)
(* LaplaceNoise on batches of two protected columns with a plain one       *)
(* between them.  The budget of `sum` pays for two batches and leaves a    *)
(* remainder that is too small for a third; `avg` has the smallest epsilon *)
(* there is, so that the slack of the comparison shows.  The second exec   *)
(* cannot put noise on `avg`.                                              *)
(***************************************************************************)
EXTENDS LaplaceNoise, TLC

CONSTANTS sum, region, avg, e1, e2

MCSchema == <<sum, region, avg>>
MCEpsilon == (sum :> 3) @@ (avg :> 1)
MCSeeded == (sum :> 7) @@ (avg :> 1)
MCNoisable == [e \in Execs |-> IF e = e2 THEN {sum} ELSE {sum, avg}]
=============================================================================
