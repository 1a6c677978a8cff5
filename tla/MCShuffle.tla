----------------------------- MODULE MCShuffle ------------------------------
(***************************************************************************)
(* Instances of Shuffle.  A scan is, for each node, the sequence of the    *)
(* partitions of its tuples.                                               *)
(***************************************************************************)
EXTENDS Shuffle

Setup(kind, use_budget, nr_conns, memory, scan) ==
    [kind |-> kind, use_budget |-> use_budget, send_zc |-> FALSE,
     nr_conns |-> nr_conns, memory |-> memory, scan |-> scan]

(* Two nodes on io_uring, where a budget of two is used up; two of them with *)
(* two connections; three nodes on epoll; two with a budget.                 *)
MCSetups ==
    {Setup("uring", TRUE, 1, BOOLEAN, << <<2, 2, 2, 2, 2, 2>>, <<1, 1, 2>> >>),
     Setup("uring", FALSE, 2, {FALSE}, << <<2>>, <<>> >>),
     Setup("epoll", FALSE, 1, {FALSE}, << <<2, 2, 3>>, <<1>>, <<2>> >>),
     Setup("epoll", TRUE, 2, {FALSE}, << <<2, 2, 2, 2, 2, 2>>, <<1, 1, 1>> >>)}

(* A node with more to send than the connection takes at once. *)
MCFlush == {Setup("epoll", FALSE, 1, {FALSE}, << <<2, 2, 2, 2, 2>>, <<1>> >>)}
=============================================================================
