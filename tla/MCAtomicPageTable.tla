------------------------- MODULE MCAtomicPageTable --------------------------
(* Instances of AtomicPageTable: four slots, and pages whose probes overlap *)
(* and wrap around the end of the table.                                    *)
EXTENDS AtomicPageTable, TLC

CONSTANTS t1, t2, t3, p1, p2, p3, b1, b2, b3

Colliding == [p \in Pids |-> IF p = p3 THEN 0 ELSE 3]
BidSymmetry == Permutations(Bids)
=============================================================================
