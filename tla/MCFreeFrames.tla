---------------------------- MODULE MCFreeFrames ----------------------------
(* Instances of FreeFrames: one client per worker. *)
EXTENDS FreeFrames

CONSTANTS f1, f2

MCWorkerOf == [f \in Fibers |-> IF f = f1 THEN 0 ELSE NumWorkers - 1]
=============================================================================
