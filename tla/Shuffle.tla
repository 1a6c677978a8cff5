------------------------------ MODULE Shuffle -------------------------------
(***************************************************************************)
(* The data shuffle (shuffle/shufflev2.cpp): every node scans its tuples,  *)
(* collects those of another partition in a buffer per partition, and      *)
(* sends full buffers over several connections, while it receives from     *)
(* everyone else.  Both workers are modelled, the one on io_uring (Worker) *)
(* and the one on epoll (EpollWorker), one worker per node.                *)
(*                                                                         *)
(* A buffer is sent and received as a whole (MSG_WAITALL, or the loops     *)
(* around send and recv), so the connections carry buffers.                *)
(* The scan may be at the end of a morsel after any tuple.                 *)
(***************************************************************************)
EXTENDS Integers, Sequences, FiniteSets, FiniteSetsExt, SequencesExt

CONSTANTS
    MaxNodes,     \* nodes of the largest cluster
    MaxConns,     \* the most connections per pair of nodes
    MaxTuples,    \* tuples of a buffer
    WireCap,      \* buffers that a connection holds in one direction
    Setups        \* configurations: [kind: "uring" or "epoll", use_budget, send_zc,
                  \* nr_conns: connections per pair of nodes, memory: what done may
                  \* hold at the start, scan: per node, the partitions of its tuples]

VARIABLES
    cfg,          \* the configuration
    pos,          \* how far they are
    pc,           \* where a worker is in run
    via,          \* the connection it is about to send on, or closes
    conn,         \* Target::conns
    fill, idx,    \* Target::fill_buffer, and how many tuples are in it
    budget,       \* Target::budget
    unused,       \* unused_buffers
    data,         \* the slots of a buffer
    outstanding,  \* operations whose completion is to come, as counted
    wire,         \* what a connection carries from one node to another
    fin,          \* whether its sender has shut it down
    table         \* the tuples a node has inserted

Nodes == DOMAIN cfg.scan
Conns == 1 .. cfg.nr_conns
Ids == {<<n, p, c>> \in Nodes \X Nodes \X Conns : n # p}
Pairs == {<<n, p>> \in Nodes \X Nodes : n # p}
Back(i) == <<i[2], i[1], i[3]>>
OfNode(n) == {i \in Ids : i[1] = n}
OfPair(n, p) == {i \in Ids : i[1] = n /\ i[2] = p}

(* num_buffers, with this cluster's numbers for MAX_PARTITIONS and MAX_CONNS *)
NumBuffers == Cardinality(Nodes) * (1 + 2 * cfg.nr_conns)
Buffers == 1 .. NumBuffers
NoBuf == 0
NoTuple == <<>>
InitBudget == 2

bufVars == <<fill, idx, unused, data>>
netVars == <<wire, fin>>
vars == <<cfg, pos, pc, via, conn, bufVars, budget, outstanding, netVars, table>>

(* A connection: the buffers of the two directions, the state of the        *)
(* operations on them (io_uring) or what epoll waits for, and how far it is *)
(* closed: shut for our direction, eof for the other.                       *)
FreshConn == [send |-> NoBuf, recv |-> NoBuf, sop |-> "none", rop |-> "none", hop |-> "none",
              armed |-> FALSE, shut |-> FALSE, eof |-> FALSE, done |-> FALSE]

(* init: with io_uring, each connection has a receive posted.  done is not  *)
(* initialised there: it is what the worker's memory held.                  *)
Init ==
    /\ cfg \in Setups
    /\ pc = [n \in 1 .. MaxNodes |-> IF n \in Nodes THEN "scan" ELSE "done"]
    /\ pos = [n \in Nodes |-> 1] /\ via = [n \in Nodes |-> <<>>]
    /\ fill = [q \in Pairs |-> NoBuf] /\ idx = [q \in Pairs |-> 0] /\ budget = [q \in Pairs |-> InitBudget]
    /\ data = [n \in Nodes |-> [b \in Buffers |-> [k \in 1 .. MaxTuples |-> NoTuple]]]
    /\ wire = [i \in Ids |-> <<>>] /\ fin = [i \in Ids |-> FALSE]
    /\ table = [n \in Nodes |-> {}]
    /\ LET order(n) == SetToSeq(OfNode(n))
           posted(i) == CHOOSE k \in DOMAIN order(i[1]) : order(i[1])[k] = i
           recvs(n) == Cardinality(OfNode(n))
       IN  IF cfg.kind = "uring"
           THEN /\ \E stray \in [Nodes -> cfg.memory] :
                      conn = [i \in Ids |-> [FreshConn EXCEPT !.recv = NumBuffers + 1 - posted(i),
                                                              !.rop = "posted", !.done = stray[i[1]]]]
                /\ unused = [n \in Nodes |-> [b \in 1 .. NumBuffers - recvs(n) |-> b]]
                /\ outstanding = [n \in Nodes |-> recvs(n)]
           ELSE /\ conn = [i \in Ids |-> FreshConn]
                /\ unused = [n \in Nodes |-> [b \in Buffers |-> b]]
                /\ outstanding = [n \in Nodes |-> 0]

-----------------------------------------------------------------------------
(* The stack of unused buffers. *)
Top(n) == unused[n][Len(unused[n])]
Popped(n) == [unused EXCEPT ![n] = Front(@)]
Pushed(n, b) == [unused EXCEPT ![n] = Append(@, b)]

Tuple(n) == <<n, pos[n]>>
Dest(n) == cfg.scan[n][pos[n]]
Scanning(n) == pc[n] = "scan" /\ pos[n] <= Len(cfg.scan[n])

(* A tuple of the node's own partition. *)
Keep(n) ==
    /\ Scanning(n) /\ Dest(n) = n
    /\ table' = [table EXCEPT ![n] = @ \cup {Tuple(n)}]
    /\ pos' = [pos EXCEPT ![n] = @ + 1]
    /\ UNCHANGED <<cfg, pc, via, conn, bufVars, budget, outstanding, netVars>>

(* A tuple of another partition goes into that one's buffer, taken from the *)
(* stack if there is none, where clear leaves the slots as they are.  A     *)
(* full buffer is sent next.                                                *)
Copy(n) ==
    /\ Scanning(n) /\ Dest(n) # n
    /\ LET q == <<n, Dest(n)>>
           fresh == fill[q] = NoBuf
           b == IF fresh THEN Top(n) ELSE fill[q]
           slot == IF fresh THEN 1 ELSE idx[q] + 1
       IN  /\ fill' = [fill EXCEPT ![q] = b] /\ idx' = [idx EXCEPT ![q] = slot]
           /\ unused' = IF fresh THEN Popped(n) ELSE unused
           /\ data' = [data EXCEPT ![n][b][slot] = Tuple(n)]
           /\ pc' = [pc EXCEPT ![n] = IF slot = MaxTuples THEN "full" ELSE "scan"]
    /\ pos' = [pos EXCEPT ![n] = @ + 1]
    /\ UNCHANGED <<cfg, via, conn, budget, outstanding, netVars, table>>

(* The connections that are free to send on; the first of them is taken.    *)
FreeConns(n, p) ==
    {i \in OfPair(n, p) : conn[i].send = NoBuf /\ (cfg.kind = "epoll" => ~conn[i].done)}
First(S) == CHOOSE i \in S : \A j \in S : i[3] <= j[3]
FullOf(n) == CHOOSE p \in Nodes \ {n} : fill[<<n, p>>] # NoBuf /\ idx[<<n, p>>] = MaxTuples
FindConn(n) ==
    /\ pc[n] = "full" /\ FreeConns(n, FullOf(n)) # {}
    /\ via' = [via EXCEPT ![n] = First(FreeConns(n, FullOf(n)))]
    /\ pc' = [pc EXCEPT ![n] = "budget"]
    /\ UNCHANGED <<cfg, pos, conn, bufVars, budget, outstanding, netVars, table>>

Pair(i) == <<i[1], i[2]>>

HasBudget(n) == cfg.use_budget => budget[Pair(via[n])] # 0
Spent(i) == IF cfg.use_budget THEN [budget EXCEPT ![Pair(i)] = @ - 1] ELSE budget
Earned(i, k) == IF cfg.use_budget THEN [budget EXCEPT ![Pair(i)] = @ + k] ELSE budget

(* What goes over the wire: a copy of the buffer or, without a copy, the    *)
(* buffer itself, which is read when the other side receives it.            *)
Chunk(n, b) == [buf |-> IF cfg.send_zc THEN b ELSE NoBuf, slots |-> IF cfg.send_zc THEN <<>> ELSE data[n][b]]
Slots(i, chunk) == IF chunk.buf = NoBuf THEN chunk.slots ELSE data[i[1]][chunk.buf]
HasSpace(i) == Len(wire[i]) < WireCap

-----------------------------------------------------------------------------
(* Worker, on io_uring: the kernel. *)
Kernel(i, field, state) == conn' = [conn EXCEPT ![i][field] = state]

KernelSends(i) ==
    /\ i \in Ids /\ conn[i].sop = "posted" /\ HasSpace(i) /\ Kernel(i, "sop", "complete")
    /\ wire' = [wire EXCEPT ![i] = Append(@, Chunk(i[1], conn[i].send))]
    /\ UNCHANGED <<cfg, pos, pc, via, bufVars, budget, outstanding, fin, table>>

(* A receive ends with a full buffer, or with nothing at the end of the     *)
(* stream.                                                                  *)
KernelReceives(i) ==
    /\ i \in Ids /\ conn[i].rop = "posted"
    /\ LET from == Back(i) IN
       \/ /\ wire[from] # <<>> /\ Kernel(i, "rop", "data")
          /\ data' = [data EXCEPT ![i[1]][conn[i].recv] = Slots(from, Head(wire[from]))]
          /\ wire' = [wire EXCEPT ![from] = Tail(@)]
       \/ /\ wire[from] = <<>> /\ fin[from] /\ Kernel(i, "rop", "eof")
          /\ UNCHANGED <<data, wire>>
    /\ UNCHANGED <<cfg, pos, pc, via, fill, idx, unused, budget, outstanding, fin, table>>

KernelShuts(i) ==
    /\ i \in Ids /\ conn[i].hop = "posted" /\ Kernel(i, "hop", "complete")
    /\ fin' = [fin EXCEPT ![i] = TRUE]
    /\ UNCHANGED <<cfg, pos, pc, via, bufVars, budget, outstanding, wire, table>>

-----------------------------------------------------------------------------
(* Faulty variant of Send: the operation is not counted. *)
SendUncounted(n) ==
    /\ cfg.kind = "uring" /\ pc[n] = "budget" /\ HasBudget(n)
    /\ LET i == via[n]
       IN  /\ conn' = [conn EXCEPT ![i].send = fill[Pair(i)], ![i].sop = "posted"]
           /\ fill' = [fill EXCEPT ![Pair(i)] = NoBuf] /\ idx' = [idx EXCEPT ![Pair(i)] = 0]
           /\ budget' = Spent(i)
    /\ pc' = [pc EXCEPT ![n] = "scan"] /\ via' = [via EXCEPT ![n] = <<>>]
    /\ UNCHANGED <<cfg, pos, unused, data, outstanding, netVars, table>>

(* prep_send of the full buffer, once the budget allows it. *)
Send(n) ==
    /\ cfg.kind = "uring" /\ pc[n] = "budget" /\ HasBudget(n)
    /\ LET i == via[n]
       IN  /\ conn' = [conn EXCEPT ![i].send = fill[Pair(i)], ![i].sop = "posted"]
           /\ fill' = [fill EXCEPT ![Pair(i)] = NoBuf] /\ idx' = [idx EXCEPT ![Pair(i)] = 0]
           /\ budget' = Spent(i)
    /\ outstanding' = [outstanding EXCEPT ![n] = @ + 1]
    /\ pc' = [pc EXCEPT ![n] = "scan"] /\ via' = [via EXCEPT ![n] = <<>>]
    /\ UNCHANGED <<cfg, pos, unused, data, netVars, table>>

(* Faulty variant of Drained: send_buffer is not reset. *)
DrainedKeepsSend(k) ==
    [k EXCEPT !.sop = IF @ = "complete" THEN "none" ELSE @,
              !.rop = CASE @ = "data" -> "posted" [] @ = "eof" -> "none" [] OTHER -> @,
              !.recv = IF k.rop = "eof" THEN NoBuf ELSE @,
              !.done = @ \/ k.rop = "eof",
              !.hop = IF @ = "complete" THEN "none" ELSE @]

(* drain_cqe: all that has completed.  A send returns its buffer to the     *)
(* stack.  The tuples of a received buffer are inserted, it goes back to    *)
(* the stack and the next receive takes it from there; at the end of the    *)
(* stream what is in the buffer is inserted all the same.                   *)
Drained(k) == [k EXCEPT !.sop = IF @ = "complete" THEN "none" ELSE @,
                        !.send = IF k.sop = "complete" THEN NoBuf ELSE @,
                        !.rop = CASE @ = "data" -> "posted" [] @ = "eof" -> "none" [] OTHER -> @,
                        !.recv = IF k.rop = "eof" THEN NoBuf ELSE @,
                        !.done = @ \/ k.rop = "eof",
                        !.hop = IF @ = "complete" THEN "none" ELSE @]
drain_cqe(n) ==
    /\ pc[n] # "done"
    /\ LET of(field, state) == {i \in OfNode(n) : conn[i][field] = state}
           received == of("rop", "data") \cup of("rop", "eof")
           freed == {conn[i].send : i \in of("sop", "complete")}
                    \cup {conn[i].recv : i \in of("rop", "eof")}
           count == Cardinality(freed) + Cardinality(of("hop", "complete"))
       IN  /\ count > 0 \/ received # {}
           /\ conn' = [i \in Ids |-> IF i[1] = n THEN Drained(conn[i]) ELSE conn[i]]
           /\ unused' = [unused EXCEPT ![n] = @ \o SetToSeq(freed)]
           /\ outstanding' = [outstanding EXCEPT ![n] = @ - count]
           /\ table' = [table EXCEPT ![n] = @ \cup
                  (UNION {Range(data[n][conn[i].recv]) : i \in received} \ {NoTuple})]
           /\ budget' = [q \in Pairs |-> IF q[1] # n \/ ~cfg.use_budget THEN budget[q] ELSE
                  budget[q] + Cardinality(of("rop", "data") \cap OfPair(q[1], q[2]))]
    /\ UNCHANGED <<cfg, pos, pc, via, fill, idx, data, netVars>>

(* A pass of the loop after the scan: a buffer that is left goes out on the *)
(* first free connection, connections with nothing to send are shut down,   *)
(* and it ends when everything is sent and every connection done.           *)
ScanEnded(n) == pc[n] = "scan" /\ pos[n] > Len(cfg.scan[n])
LeftOver(n) == {p \in Nodes \ {n} : fill[<<n, p>>] # NoBuf /\ FreeConns(n, p) # {}}
FinalPass(n) ==
    /\ cfg.kind = "uring" /\ (ScanEnded(n) \/ pc[n] = "final")
    /\ LET sends == {First(FreeConns(n, p)) : p \in LeftOver(n)}
           idle == {i \in OfNode(n) \ sends : conn[i].send = NoBuf}
           shuts == {i \in idle : ~conn[i].shut}
       IN  /\ conn' = [i \in Ids |->
                  CASE i \in sends -> [conn[i] EXCEPT !.send = fill[Pair(i)], !.sop = "posted"]
                    [] i \in shuts -> [conn[i] EXCEPT !.shut = TRUE, !.hop = "posted"]
                    [] OTHER -> conn[i]]
           /\ fill' = [q \in Pairs |-> IF q[1] = n /\ q[2] \in LeftOver(n) THEN NoBuf ELSE fill[q]]
           /\ idx' = [q \in Pairs |-> IF q[1] = n /\ q[2] \in LeftOver(n) THEN 0 ELSE idx[q]]
           /\ outstanding' = [outstanding EXCEPT ![n] = @ + Cardinality(sends) + Cardinality(shuts)]
           /\ pc' = [pc EXCEPT ![n] =
                  IF idle = OfNode(n) /\ \A i \in idle : conn[i].done THEN "wait" ELSE "final"]
    /\ UNCHANGED <<cfg, pos, via, unused, data, budget, netVars, table>>

(* Faulty variant of Exit: the worker does not wait for them. *)
ExitAtOnce(n) ==
    /\ pc[n] = "wait"
    /\ pc' = [pc EXCEPT ![n] = "done"]
    /\ UNCHANGED <<cfg, pos, via, conn, bufVars, budget, outstanding, netVars, table>>

(* The last completions are waited for, as many as are counted. *)
Exit(n) ==
    /\ pc[n] = "wait" /\ outstanding[n] <= 0
    /\ pc' = [pc EXCEPT ![n] = "done"]
    /\ UNCHANGED <<cfg, pos, via, conn, bufVars, budget, outstanding, netVars, table>>

-----------------------------------------------------------------------------
(* EpollWorker.  send_progress: the buffer goes out, or the connection      *)
(* waits for EPOLLOUT.                                                      *)
send_progress(i, b) ==
    IF HasSpace(i)
    THEN /\ wire' = [wire EXCEPT ![i] = Append(@, Chunk(i[1], b))]
         /\ conn' = [conn EXCEPT ![i].send = NoBuf, ![i].armed = FALSE]
         /\ unused' = Pushed(i[1], b)
    ELSE /\ conn' = [conn EXCEPT ![i].send = b, ![i].armed = TRUE]
         /\ UNCHANGED <<wire, unused>>

EpollSend(n) ==
    /\ cfg.kind = "epoll" /\ pc[n] = "budget" /\ HasBudget(n)
    /\ send_progress(via[n], fill[Pair(via[n])])
    /\ fill' = [fill EXCEPT ![Pair(via[n])] = NoBuf] /\ idx' = [idx EXCEPT ![Pair(via[n])] = 0]
    /\ budget' = Spent(via[n])
    /\ pc' = [pc EXCEPT ![n] = "scan"] /\ via' = [via EXCEPT ![n] = <<>>]
    /\ UNCHANGED <<cfg, pos, data, outstanding, fin, table>>

(* After the scan: a buffer that is left goes out if a connection is free.  *)
Flush(n) ==
    /\ cfg.kind = "epoll" /\ ScanEnded(n) /\ LeftOver(n) # {}
    /\ LET p == Min(LeftOver(n))
       IN  /\ send_progress(First(FreeConns(n, p)), fill[<<n, p>>])
           /\ fill' = [fill EXCEPT ![<<n, p>>] = NoBuf] /\ idx' = [idx EXCEPT ![<<n, p>>] = 0]
    /\ UNCHANGED <<cfg, pos, pc, via, data, budget, outstanding, fin, table>>

(* The connections are closed one after the other. *)
Before(i, j) == i[2] < j[2] \/ (i[2] = j[2] /\ i[3] < j[3])
FirstOf(S) == CHOOSE i \in S : \A j \in S \ {i} : Before(i, j)
StartClose(n) ==
    /\ cfg.kind = "epoll" /\ ScanEnded(n) /\ LeftOver(n) = {}
    /\ pc' = [pc EXCEPT ![n] = "close"] /\ via' = [via EXCEPT ![n] = FirstOf(OfNode(n))]
    /\ UNCHANGED <<cfg, pos, conn, bufVars, budget, outstanding, netVars, table>>
CloseSend(n) ==
    /\ pc[n] = "close" /\ conn[via[n]].send # NoBuf /\ ~conn[via[n]].done
    /\ send_progress(via[n], conn[via[n]].send)
    /\ UNCHANGED <<cfg, pos, pc, via, fill, idx, data, budget, outstanding, fin, table>>
CloseShut(n) ==
    /\ pc[n] = "close"
    /\ LET i == via[n]
       IN  /\ conn[i].send = NoBuf \/ conn[i].done
           /\ ~conn[i].shut
           /\ fin' = [fin EXCEPT ![i] = TRUE]
           /\ conn' = [conn EXCEPT ![i].shut = TRUE, ![i].armed = FALSE, ![i].done = @ \/ conn[i].eof]
    /\ UNCHANGED <<cfg, pos, pc, via, bufVars, budget, outstanding, wire, table>>
CloseNext(n) ==
    /\ pc[n] = "close" /\ conn[via[n]].shut /\ conn[via[n]].done
    /\ LET rest == {i \in OfNode(n) : Before(via[n], i)}
       IN  IF rest = {} THEN pc' = [pc EXCEPT ![n] = "wait"] /\ via' = [via EXCEPT ![n] = <<>>]
           ELSE via' = [via EXCEPT ![n] = FirstOf(rest)] /\ UNCHANGED pc
    /\ UNCHANGED <<cfg, pos, conn, bufVars, budget, outstanding, netVars, table>>

(* process_events.  recv_progress takes everything there is, and sees the   *)
(* end of the stream behind it.                                             *)
EventIn(i) ==
    /\ i \in Ids /\ cfg.kind = "epoll" /\ pc[i[1]] # "done" /\ ~conn[i].done
    /\ LET from == Back(i) n == i[1]
           b == IF conn[i].recv = NoBuf THEN Top(n) ELSE conn[i].recv
           got == UNION {Range(Slots(from, wire[from][k])) : k \in DOMAIN wire[from]}
       IN  /\ wire[from] # <<>> \/ (fin[from] /\ ~conn[i].eof)
           /\ unused' = IF conn[i].recv = NoBuf THEN Popped(n) ELSE unused
           /\ data' = IF wire[from] = <<>> THEN data
                      ELSE [data EXCEPT ![n][b] = Slots(from, Last(wire[from]))]
           /\ table' = [table EXCEPT ![n] = @ \cup (got \ {NoTuple})]
           /\ budget' = Earned(i, Len(wire[from]))
           /\ wire' = [wire EXCEPT ![from] = <<>>]
           /\ conn' = [conn EXCEPT ![i].recv = b, ![i].eof = fin[from],
                                   ![i].done = fin[from] /\ conn[i].shut]
    /\ UNCHANGED <<cfg, pos, pc, via, fill, idx, outstanding, fin>>
EventOut(i) ==
    /\ i \in Ids /\ cfg.kind = "epoll" /\ pc[i[1]] # "done"
    /\ conn[i].armed /\ conn[i].send # NoBuf /\ ~conn[i].done /\ HasSpace(i)
    /\ send_progress(i, conn[i].send)
    /\ UNCHANGED <<cfg, pos, pc, via, fill, idx, data, budget, outstanding, fin, table>>

-----------------------------------------------------------------------------
Work(n) ==
    \/ Keep(n) \/ Copy(n) \/ FindConn(n)
    \/ Send(n) \/ drain_cqe(n) \/ FinalPass(n) \/ Exit(n)
    \/ EpollSend(n) \/ Flush(n) \/ StartClose(n) \/ CloseSend(n) \/ CloseShut(n) \/ CloseNext(n)
    \/ \E p \in 1 .. MaxNodes, c \in 1 .. MaxConns : EventIn(<<n, p, c>>) \/ EventOut(<<n, p, c>>)
Network ==
    \E n, p \in 1 .. MaxNodes, c \in 1 .. MaxConns :
        KernelSends(<<n, p, c>>) \/ KernelReceives(<<n, p, c>>) \/ KernelShuts(<<n, p, c>>)
Next == (\E n \in 1 .. MaxNodes : Work(n)) \/ Network
(* Whatever can go on goes on: the loops of the workers never sleep for     *)
(* good, and the kernel works on what was submitted.  Every step brings the *)
(* shuffle nearer to its end, so who is first does not matter.              *)
Fairness == WF_vars(Next)
Spec == Init /\ [][Next]_vars /\ Fairness

-----------------------------------------------------------------------------
Done == \A n \in Nodes : pc[n] = "done"
Tuples(n, p) == {<<n, k>> : k \in {k \in DOMAIN cfg.scan[n] : cfg.scan[n][k] = p}}
Held(n) == {fill[q] : q \in {q \in Pairs : q[1] = n}} \cup
           UNION {{conn[i].send, conn[i].recv} : i \in OfNode(n)}

(* Buffers, budgets and connections are what they may be, and the worker    *)
(* never owes a completion to its count.                                    *)
TypeOK ==
    /\ pc \in [1 .. MaxNodes -> {"scan", "full", "budget", "final", "close", "wait", "done"}]
    /\ \A n \in Nodes : via[n] \in OfNode(n) \cup {<<>>} /\ pos[n] \in 1 .. Len(cfg.scan[n]) + 1
    /\ \A n \in Nodes : Range(unused[n]) \subseteq Buffers
    /\ fill \in [Pairs -> Buffers \cup {NoBuf}] /\ idx \in [Pairs -> 0 .. MaxTuples]
    /\ conn \in [Ids -> [send : Buffers \cup {NoBuf}, recv : Buffers \cup {NoBuf},
                          sop : {"none", "posted", "complete"},
                          rop : {"none", "posted", "data", "eof"},
                          hop : {"none", "posted", "complete"},
                          armed : BOOLEAN, shut : BOOLEAN, eof : BOOLEAN, done : BOOLEAN]]
    /\ budget \in [Pairs -> Nat] /\ outstanding \in [Nodes -> Nat] /\ fin \in [Ids -> BOOLEAN]

(* Every buffer of a node is in one place: on the stack of unused ones,     *)
(* being filled, being sent or being received into.  So the stack never     *)
(* runs out (unused_buffers.pop) and nobody writes into a buffer in use.    *)
BuffersAddUp ==
    TypeOK /\ \A n \in Nodes :
        LET held == Held(n) \ {NoBuf}
            places == Cardinality({q \in Pairs : q[1] = n /\ fill[q] # NoBuf})
                      + Cardinality({i \in OfNode(n) : conn[i].send # NoBuf})
                      + Cardinality({i \in OfNode(n) : conn[i].recv # NoBuf})
        IN  /\ Cardinality(held) = places
            /\ held \cap Range(unused[n]) = {}
            /\ Len(unused[n]) + places = NumBuffers /\ IsInjective(unused[n])

(* outstanding counts the operations whose completion has not been drained, *)
(* so the last loop of run waits for all of them, for as long as it needs   *)
(* and no longer, even when done held a stray value from the start.         *)
OutstandingIsExact ==
    cfg.kind = "uring" => \A n \in Nodes :
        outstanding[n] = Cardinality({i \in OfNode(n) : conn[i].sop # "none"})
                         + Cardinality({i \in OfNode(n) : conn[i].rop # "none"})
                         + Cardinality({i \in OfNode(n) : conn[i].hop # "none"})

(* A tuple that was put on the way arrives: when all workers have returned, *)
(* every scanned tuple is in the table of its partition.  The exception is  *)
(* a buffer that the epoll worker's flush could not hand to a connection.   *)
Delivered ==
    Done => \A n, p \in Nodes : \A t \in Tuples(n, p) :
        \/ t \in table[p]
        \/ /\ cfg.kind = "epoll" /\ n # p /\ fill[<<n, p>>] # NoBuf
           /\ t \in Range(SubSeq(data[n][fill[<<n, p>>]], 1, idx[<<n, p>>]))

(* The workers return.  With budgets this needs traffic that is balanced:   *)
(* a node may be only two buffers ahead of what it got from the other.      *)
Ends == <>Done

(* What the comment on the flush of the epoll worker says: no buffer with   *)
(* tuples is left when the workers have returned.                           *)
FlushLeavesNothing == Done => \A q \in Pairs : fill[q] = NoBuf
=============================================================================
