---------------------------- MODULE MCBufferPool ----------------------------
(* Instances of BufferPool: one worker with two clients, two workers with   *)
(* one client each.                                                         *)
EXTENDS BufferPool, TLC

CONSTANTS w1, w2, f1, f2, b1, b2

OneWorker == [f \in {f1, f2} |-> w1]
TwoWorkers == (f1 :> w1) @@ (f2 :> w2)
OneOwner == [p \in Pids |-> w1]
TwoOwners == [p \in Pids |-> IF p % 2 = 1 THEN w1 ELSE w2]
BidSymmetry == Permutations(Bids)
ClientSymmetry == Permutations(Bids) \cup Permutations(Fibers)
=============================================================================
