-------------------------- MODULE MCSingleThreaded --------------------------
(***************************************************************************)
(* The single-threaded buffer manager: its fibers (FiberPool), for which   *)
(* the page table is a function, and the table itself (RobinHood), which   *)
(* is shown to be one.  A behaviour is one of the two parts.               *)
(***************************************************************************)
EXTENDS FiberPool, TLC
CONSTANTS c1, c2, c3, c4, Keys, Values, NumSlots, MaxDist, EmptyKey

VARIABLES part, home, slot, sz, sweep, map
tableVars == <<home, slot, sz, sweep, map>>
Map == INSTANCE RobinHood WITH n <- NumSlots

(* The clients run the same code and start in any order. *)
ClientSymmetry == Permutations({c1, c2, c3, c4})

BothInit ==
    /\ part \in {"fibers", "table"} /\ Init /\ Map!Init
    /\ part = "fibers" => home = [k \in Keys |-> 0]
BothNext ==
    \/ part = "fibers" /\ Next /\ UNCHANGED <<part, tableVars>>
    \/ part = "table" /\ Map!Next /\ UNCHANGED <<part, vars>>
BothSpec == BothInit /\ [][BothNext]_<<part, vars, tableVars>>

(* find returns what insert stored, for every key and after any history,    *)
(* and size() is the number of keys.                                        *)
TableIsAMap == part = "table" => Map!TableIsAMap
=============================================================================
