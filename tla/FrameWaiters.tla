---------------------------- MODULE FrameWaiters ----------------------------
(***************************************************************************)
(* The waiter stack of a buffer frame (BufferFrame in mt/bm.hpp).          *)
(*                                                                         *)
(* A fiber that finds its page in I/O pushes a node onto the frame's stack *)
(* and parks; the node lives on the fiber's own stack and is gone once the *)
(* fiber runs again.  The loader of the page opens the stack, reads the    *)
(* page, detaches and closes the stack and wakes the fibers in it.  As     *)
(* soon as the loader has unlocked the page the frame may be evicted and   *)
(* bound to another page, while the loader still walks the detached nodes. *)
(*                                                                         *)
(* One frame; every fiber on a thread of its own; one action is one atomic *)
(* access.  WakeMatrix models what is between wake_fiber and the return of *)
(* park.                                                                   *)
(***************************************************************************)
EXTENDS Naturals, FiniteSets

CONSTANTS
    Waiters,          \* fibers that fix a page, each with one node
    Loaders,          \* fibers that load pages into the frame
    Pages,
    NoPage,           \* the frame was never bound
    Null, Closed      \* nullptr and closed_waiters()

ASSUME NullAssumption == Null \notin Waiters /\ Closed \notin Waiters /\ Null # Closed
ASSUME PageAssumption == NoPage \notin Pages

VARIABLES
    framePid,   \* BufferFrame::pid
    io,         \* the frame's io_in_progress flag
    waiting,    \* BufferFrame::waiting
    next,       \* Op::next of the node of each fiber
    pc,         \* step of each waiter
    page,       \* the page it wants
    head,       \* head, the value it loaded
    awake,      \* wake_fiber was called for it
    lpc,        \* step of each loader
    chain,      \* waiters, the detached stack it walks
    rest        \* next, the node after the one it wakes

frameVars == <<framePid, io, waiting>>
waiterVars == <<next, pc, page, head>>
loaderVars == <<lpc, chain, rest>>
vars == <<frameVars, waiterVars, awake, loaderVars>>

Nodes == Waiters \cup {Null}

(* Every variable keeps its type: the stack holds nodes of waiters, and the *)
(* closed mark is never a node of it (enqueue_waiter, close_waiters).       *)
TypeOK ==
    /\ framePid \in Pages \cup {NoPage} /\ io \in BOOLEAN
    /\ waiting \in Nodes \cup {Closed}
    /\ next \in [Waiters -> Nodes]
    /\ pc \in [Waiters -> {"away", "check", "load", "push", "parked"}]
    /\ page \in [Waiters -> Pages \cup {NoPage}]
    /\ head \in [Waiters -> Nodes \cup {Closed}]
    /\ awake \in [Waiters -> BOOLEAN]
    /\ lpc \in [Loaders -> {"idle", "begin", "reading", "close", "clear", "walk", "wake"}]
    /\ chain \in [Loaders -> Nodes]
    /\ rest \in [Loaders -> Nodes]

Init ==
    /\ framePid = NoPage /\ io = FALSE /\ waiting = Closed
    /\ next = [f \in Waiters |-> Null]
    /\ pc = [f \in Waiters |-> "away"]
    /\ page = [f \in Waiters |-> NoPage]
    /\ head = [f \in Waiters |-> Null]
    /\ awake = [f \in Waiters |-> FALSE]
    /\ lpc = [l \in Loaders |-> "idle"]
    /\ chain = [l \in Loaders |-> Null]
    /\ rest = [l \in Loaders |-> Null]

-----------------------------------------------------------------------------
(* The loader, in handleFault. *)

LoaderAt(l, from, to) == lpc[l] = from /\ lpc' = [lpc EXCEPT ![l] = to]

(* The frame is free, so no other loader has it; it is bound to a page.     *)
Bind(l) ==
    /\ LoaderAt(l, "idle", "begin")
    /\ ~io
    /\ framePid' \in Pages /\ io' = TRUE /\ waiting' = Closed
    /\ UNCHANGED <<waiterVars, awake, chain, rest>>

begin_waiters(l) ==
    /\ LoaderAt(l, "begin", "reading")
    /\ waiting' = Null
    /\ UNCHANGED <<framePid, io, waiterVars, awake, chain, rest>>

(* Another fiber has inserted the page: the frame is given back. *)
Undo(l) ==
    /\ LoaderAt(l, "begin", "idle")
    /\ io' = FALSE
    /\ UNCHANGED <<framePid, waiting, waiterVars, awake, chain, rest>>

ReadDone(l) ==
    /\ LoaderAt(l, "reading", "close")
    /\ UNCHANGED <<frameVars, waiterVars, awake, chain, rest>>

(* Faulty variant of close_waiters: the stack stays open. *)
close_waiters_stays_open(l) ==
    /\ LoaderAt(l, "close", "clear")
    /\ chain' = [chain EXCEPT ![l] = waiting]
    /\ waiting' = Null
    /\ UNCHANGED <<framePid, io, waiterVars, awake, rest>>

close_waiters(l) ==
    /\ LoaderAt(l, "close", "clear")
    /\ chain' = [chain EXCEPT ![l] = IF waiting = Closed THEN Null ELSE waiting]
    /\ waiting' = Closed
    /\ UNCHANGED <<framePid, io, waiterVars, awake, rest>>

(* From here on the page can be fixed, evicted and the frame bound again. *)
ClearIo(l) ==
    /\ LoaderAt(l, "clear", "walk")
    /\ io' = FALSE
    /\ UNCHANGED <<framePid, waiting, waiterVars, awake, chain, rest>>

(* The node is read before its fiber is woken ... *)
ReadNext(l) ==
    /\ IF chain[l] = Null
         THEN LoaderAt(l, "walk", "idle") /\ UNCHANGED rest
         ELSE LoaderAt(l, "walk", "wake") /\ rest' = [rest EXCEPT ![l] = next[chain[l]]]
    /\ UNCHANGED <<frameVars, waiterVars, awake, chain>>

(* Faulty variant of WakeNode: the walk goes on from the woken node. *)
WakeNodeThenRead(l) ==
    /\ LoaderAt(l, "wake", "walk")
    /\ awake' = [awake EXCEPT ![chain[l]] = TRUE]
    /\ rest' = [rest EXCEPT ![l] = Null]
    /\ UNCHANGED <<chain, frameVars, waiterVars>>

(* Faulty variant of WakeNode: only the head of the stack is woken. *)
WakeNodeOnce(l) ==
    /\ LoaderAt(l, "wake", "walk")
    /\ awake' = [awake EXCEPT ![chain[l]] = TRUE]
    /\ chain' = [chain EXCEPT ![l] = Null]
    /\ rest' = [rest EXCEPT ![l] = Null]
    /\ UNCHANGED <<frameVars, waiterVars>>

(* ... and not touched after. *)
WakeNode(l) ==
    /\ LoaderAt(l, "wake", "walk")
    /\ awake' = [awake EXCEPT ![chain[l]] = TRUE]
    /\ chain' = [chain EXCEPT ![l] = rest[l]]
    /\ rest' = [rest EXCEPT ![l] = Null]
    /\ UNCHANGED <<frameVars, waiterVars>>

-----------------------------------------------------------------------------
(* The waiter, in handleWait. *)

WaiterAt(f, from, to) == pc[f] = from /\ pc' = [pc EXCEPT ![f] = to]

(* A lookup found the page in this frame, now or at some earlier time. *)
handleWait(f) ==
    /\ WaiterAt(f, "away", "check")
    /\ page' \in {[page EXCEPT ![f] = p] : p \in Pages}
    /\ UNCHANGED <<frameVars, next, head, awake, loaderVars>>

(* The read is over, or the stack is closed: yield and look again. *)
Yield(f) ==
    /\ pc' = [pc EXCEPT ![f] = "away"]
    /\ page' = [page EXCEPT ![f] = NoPage]
    /\ head' = [head EXCEPT ![f] = Null]

Check(f) ==
    /\ IF framePid = page[f] /\ io THEN WaiterAt(f, "check", "load") /\ UNCHANGED <<page, head>>
       ELSE pc[f] = "check" /\ Yield(f)
    /\ UNCHANGED <<frameVars, next, awake, loaderVars>>

LoadHead(f) ==
    /\ WaiterAt(f, "load", "push")
    /\ head' = [head EXCEPT ![f] = waiting]
    /\ UNCHANGED <<frameVars, next, page, awake, loaderVars>>

(* One round of the loop of enqueue_waiter: a failed CAS loads the head. *)
enqueue_waiter(f) ==
    /\ pc[f] = "push"
    /\ IF head[f] = Closed THEN Yield(f) /\ UNCHANGED <<waiting, next>>
       ELSE /\ next' = [next EXCEPT ![f] = head[f]]
            /\ IF waiting = head[f]
                 THEN /\ waiting' = f
                      /\ pc' = [pc EXCEPT ![f] = "parked"]
                      /\ head' = [head EXCEPT ![f] = Null]
                 ELSE head' = [head EXCEPT ![f] = waiting] /\ UNCHANGED <<waiting, pc>>
            /\ UNCHANGED page
    /\ UNCHANGED <<framePid, io, awake, loaderVars>>

(* park returns; the node goes out of scope with the frame of handleWait. *)
Unpark(f) ==
    /\ pc[f] = "parked" /\ awake[f]
    /\ Yield(f)
    /\ awake' = [awake EXCEPT ![f] = FALSE]
    /\ UNCHANGED <<frameVars, next, loaderVars>>

-----------------------------------------------------------------------------
(* Evicting the page and finding the frame free may never happen again. *)
LoaderStep(l) ==
    \/ begin_waiters(l) \/ Undo(l) \/ ReadDone(l) \/ close_waiters(l) \/ ClearIo(l)
    \/ ReadNext(l) \/ WakeNode(l)
WaiterStep(f) == Check(f) \/ LoadHead(f) \/ enqueue_waiter(f) \/ Unpark(f)

Next ==
    \/ \E l \in Loaders : Bind(l) \/ LoaderStep(l)
    \/ \E f \in Waiters : handleWait(f) \/ WaiterStep(f)

(* The threads run, and the device completes its reads. *)
Fairness ==
    /\ \A l \in Loaders : WF_vars(LoaderStep(l))
    /\ \A f \in Waiters : WF_vars(WaiterStep(f))

Spec == Init /\ [][Next]_vars /\ Fairness

-----------------------------------------------------------------------------
(* The nodes from n on, along nx: those that every set closed under nx has. *)
Linked(nx, n) ==
    {f \in Waiters :
        /\ n \in Waiters
        /\ \A S \in SUBSET Nodes :
              n \in S /\ (\A m \in S \ {Null} : nx[m] \in S) => f \in S}
NodesFrom(n) == Linked(next, n)
Detached(l) == NodesFrom(chain[l]) \cup (IF lpc[l] = "wake" THEN NodesFrom(rest[l]) ELSE {})

(* Whoever follows the stack, attached or detached, finds only nodes of     *)
(* fibers that are still parked in handleWait and were not woken yet: no    *)
(* node is read after its fiber may have left, and no fiber is woken twice. *)
NodesAreAlive ==
    /\ TypeOK
    /\ \A f \in NodesFrom(waiting) : pc[f] = "parked" /\ ~awake[f]
    /\ \A l \in Loaders : \A f \in Detached(l) : pc[f] = "parked" /\ ~awake[f]

(* A parked fiber was woken, or is in the stack of a frame whose loader has *)
(* yet to close it, or is in the stack a loader walks: nobody is forgotten  *)
(* between the check of the flag and the push, or by a rebind of the frame. *)
NobodyForgotten ==
    \A f \in Waiters : pc[f] = "parked" =>
        \/ awake[f]
        \/ f \in NodesFrom(waiting) /\ \E l \in Loaders : lpc[l] \in {"reading", "close"}
        \/ \E l \in Loaders : f \in Detached(l)

(* Every fiber that waits for a read runs again. *)
WaitEnds == \A f \in Waiters : pc[f] = "parked" ~> pc[f] = "away"
=============================================================================
