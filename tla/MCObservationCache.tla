-------------------------- MODULE MCObservationCache --------------------------
(***************************************************************************)
(* ObservationCache for TLC: which runs have which process id.             *)
(***************************************************************************)
EXTENDS ObservationCache, TLC

CONSTANTS r1, r2, r3

\* r1 and r2 are process 1 of two containers.
TwoShareAPid == (r1 :> 1) @@ (r2 :> 1) @@ (r3 :> 2)
=============================================================================
