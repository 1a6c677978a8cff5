----------------------------- MODULE MCFiberPool ----------------------------
(* The instances of FiberPool that TLC checks. *)
EXTENDS FiberPool, TLC
CONSTANTS c1, c2, c3, c4

(* The clients run the same code and start in any order. *)
ClientSymmetry == Permutations({c1, c2, c3, c4})
=============================================================================
