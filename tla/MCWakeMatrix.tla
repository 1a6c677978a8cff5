---------------------------- MODULE MCWakeMatrix ----------------------------
(* Small instances of WakeMatrix for TLC. *)
EXTENDS WakeMatrix, TLC

CONSTANTS f1, f2, f3

(* Two workers, two fibers on the first: both directions of the matrix. *)
MCOwner == (f1 :> 0) @@ (f2 :> 0) @@ (f3 :> 1)
MCSpawnOrder == (0 :> <<f1, f2>>) @@ (1 :> <<f3>>)
MCWordOf == (0 :> 0) @@ (1 :> 1)
=============================================================================
