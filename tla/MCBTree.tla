------------------------------ MODULE MCBTree -------------------------------
(***************************************************************************)
(* BTree for TLC: the keys of the load, and the operations that run        *)
(* together.                                                               *)
(***************************************************************************)
EXTENDS BTree, TLC

CONSTANTS f1, f2

FiberSymmetry == Permutations({f1, f2})
MCLoad == <<1, 2, 4, 5, 6, 7, 8, 9, 10, 11>>
MCLoadOne == <<1>>
MCOpKeys ==
    [insert |-> {2, 3, 12}, remove |-> {2, 4}, update |-> {4, 11}, lookup |-> {3, 11},
     asc |-> {1}, desc |-> {12}]
MCOpKeysOne == [remove |-> {1}]
MCMixesOne == {{"remove"}}
MCMixes == {{"insert", "remove", "lookup", "update"}, {"insert", "remove", "asc"}, {"insert", "update", "desc"}}
=============================================================================
