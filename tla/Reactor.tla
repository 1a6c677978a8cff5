------------------------------- MODULE Reactor ------------------------------
(***************************************************************************)
(* The I/O of a worker of the multithreaded buffer manager (UringReactor   *)
(* in mt/kuring.hpp): fibers prepare reads and batches of writes, which    *)
(* are submitted together when check_submit decides so, at the latest      *)
(* before the worker has nothing to run; completions are drained once per  *)
(* pass over the ready fibers.                                             *)
(*                                                                         *)
(* A fiber runs until it gives up the thread.  It may also park for        *)
(* another reason than I/O (a page that is being read, no frame is free,   *)
(* nothing to evict), until a fiber wakes it.                              *)
(* Wakeups from other workers are in WakeMatrix.                           *)
(***************************************************************************)
EXTENDS Integers, Sequences, FiniteSets, Functions

CONSTANTS
    Fibers,
    Evictor,        \* the fiber that writes pages back, in batches
    BatchSize,      \* pages of a batch
    Partial,        \* whether io_uring_submit may take fewer entries than there are
    MaxIos,         \* bound: operations in all
    None

VARIABLES
    always,       \* submit_always
    phase,        \* of run: "top", "pass" or "drain"
    left,         \* fibers still to be resumed in this pass
    cur,          \* fiber_current_
    ready,        \* ready_
    state,        \* Ready, Running, or what the fiber is parked for: io, wait
    cqeLeft,      \* cqe_left of the fiber's operation
    sq, kernel, cq,  \* owners of the entries prepared, submitted and completed
    outstanding, submitted, pending,  \* outstanding_io, submitted_io, pending_io
    toSubmit, since,                  \* to_submit, fibers_since_first_io
    ios           \* operations started

TotalIoFibers == Cardinality(Fibers)

(* What the proofs assume of the constants. *)
WellConfigured ==
    /\ IsFiniteSet(Fibers) /\ Evictor \in Fibers /\ None \notin Fibers
    /\ BatchSize \in Nat \ {0} /\ MaxIos \in Nat /\ Partial \in BOOLEAN

fiberVars == <<phase, left, cur, ready, state>>
queueVars == <<cqeLeft, sq, kernel, cq, ios>>
countVars == <<outstanding, submitted, pending, toSubmit, since>>
vars == <<always, fiberVars, queueVars, countVars>>

(* The fibers in the order in which they were spawned. *)
Spawned == CHOOSE s \in Bijection(1 .. Cardinality(Fibers), Fibers) : TRUE

Init ==
    /\ always \in BOOLEAN
    /\ phase = "top" /\ left = 0 /\ cur = None
    /\ ready = Spawned /\ state = [f \in Fibers |-> "Ready"]
    /\ cqeLeft = [f \in Fibers |-> 0]
    /\ sq = <<>> /\ kernel = {} /\ cq = <<>> /\ ios = 0
    /\ outstanding = 0 /\ submitted = 0 /\ pending = 0 /\ toSubmit = 0 /\ since = 0

-----------------------------------------------------------------------------
(* run: a pass resumes the fibers that are ready at its start. *)
StartPass ==
    /\ phase = "top"
    /\ phase' = "pass" /\ left' = Len(ready)
    /\ UNCHANGED <<always, cur, ready, state, queueVars, countVars>>
Resume ==
    /\ phase = "pass" /\ cur = None /\ left > 0
    /\ cur' = Head(ready) /\ ready' = Tail(ready) /\ left' = left - 1
    /\ state' = [state EXCEPT ![Head(ready)] = "Running"]
    /\ UNCHANGED <<always, phase, queueVars, countVars>>

Park(why) ==
    /\ state' = [state EXCEPT ![cur] = why] /\ cur' = None
    /\ UNCHANGED <<phase, left, ready>>

(* io_uring_submit hands entries from the front to the kernel; submit_exact *)
(* repeats it until at least the expected number has been taken.  The       *)
(* entries of a fiber are told apart by their place in its batch.           *)
Takes(queue, expected) == IF Partial THEN expected .. Len(queue) ELSE {Len(queue)}
submit_exact(queue, expected) ==
    \E n \in Takes(queue, expected) :
        /\ kernel' = kernel \cup Range(SubSeq(queue, 1, n))
        /\ sq' = SubSeq(queue, n + 1, Len(queue))

(* The counters after a submission of all that is pending. *)
Submit(queue, expected, new) ==
    /\ submit_exact(queue, expected)
    /\ submitted' = submitted + pending + new
    /\ pending' = 0 /\ toSubmit' = 0
(* check_submit, with the entries of the queue and as many new ones.  It    *)
(* must submit when as many fibers have passed as there are, and when a     *)
(* quarter of them has passed without I/O of its own, where the probability *)
(* reaches 1; before that, it does so at random.                            *)
check_submit(queue, new) ==
    LET n == toSubmit + new
    IN  \/ n = 0 /\ sq' = queue /\ UNCHANGED <<kernel, submitted, pending, toSubmit, since>>
        \/ n > 0 /\ always /\ Submit(queue, n, new) /\ UNCHANGED since
        \/ n > 0 /\ ~always /\ Submit(queue, n, new) /\ since' = 0
        \/ /\ n > 0 /\ ~always
           /\ since + 1 # TotalIoFibers /\ since + 1 - n < TotalIoFibers \div 4
           /\ sq' = queue /\ toSubmit' = n /\ pending' = pending + new /\ since' = since + 1
           /\ UNCHANGED <<kernel, submitted>>

(* A read. *)
Io ==
    /\ cur \in Fibers \ {Evictor} /\ ios < MaxIos
    /\ ios' = ios + 1
    /\ cqeLeft' = [cqeLeft EXCEPT ![cur] = 1]
    /\ outstanding' = outstanding + 1
    /\ check_submit(Append(sq, <<cur, 1>>), 1)
    /\ Park("io")
    /\ UNCHANGED <<always, cq>>
(* Faulty variant that leaves the pending reads counted. *)
IoBatchKeepsCount ==
    /\ cur = Evictor /\ ios < MaxIos
    /\ ios' = ios + 1
    /\ \E n \in 1 .. BatchSize :
        /\ cqeLeft' = [cqeLeft EXCEPT ![cur] = n]
        /\ outstanding' = outstanding + n
        /\ submit_exact(sq \o [k \in 1 .. n |-> <<cur, k>>], n)
        /\ submitted' = submitted + n
    /\ Park("io")
    /\ UNCHANGED <<always, cq, pending, toSubmit, since>>
(* A batch of writes: submitted at once, with the reads that are pending.   *)
IoBatch ==
    /\ cur = Evictor /\ ios < MaxIos
    /\ ios' = ios + 1
    /\ \E n \in 1 .. BatchSize :
        /\ cqeLeft' = [cqeLeft EXCEPT ![cur] = n]
        /\ outstanding' = outstanding + n
        /\ Submit(sq \o [k \in 1 .. n |-> <<cur, k>>], n, n)
    /\ since' = 0
    /\ Park("io")
    /\ UNCHANGED <<always, cq>>

(* The end of a transaction: check_submit, then yield. *)
Yield ==
    /\ cur \in Fibers \ {Evictor}
    /\ check_submit(sq, 0)
    /\ ready' = Append(ready, cur) /\ state' = [state EXCEPT ![cur] = "Ready"] /\ cur' = None
    /\ UNCHANGED <<always, phase, left, cqeLeft, cq, ios, outstanding>>
Wait ==
    /\ cur # None
    /\ Park("wait")
    /\ UNCHANGED <<always, queueVars, countVars>>
(* wake, called by a fiber. *)
Wake(g) ==
    /\ cur # None /\ state[g] = "wait"
    /\ state' = [state EXCEPT ![g] = "Ready"] /\ ready' = Append(ready, g)
    /\ UNCHANGED <<always, phase, left, cur, queueVars, countVars>>

(* Faulty variant that flushes only if nothing at all is submitted. *)
EndPassLazy ==
    /\ phase = "pass" /\ cur = None /\ left = 0
    /\ phase' = "drain"
    /\ IF submitted = 0 /\ pending > 0
       THEN Submit(sq, toSubmit, 0) /\ since' = 0
       ELSE UNCHANGED <<sq, kernel, submitted, pending, toSubmit, since>>
    /\ UNCHANGED <<always, left, cur, ready, state, cqeLeft, cq, ios, outstanding>>

(* flush_pending_before_park, if nothing is submitted or nothing can run. *)
EndPass ==
    /\ phase = "pass" /\ cur = None /\ left = 0
    /\ phase' = "drain"
    /\ IF ((submitted = 0 /\ pending > 0) \/ ready = <<>>) /\ toSubmit # 0
       THEN Submit(sq, toSubmit, 0) /\ since' = 0
       ELSE UNCHANGED <<sq, kernel, submitted, pending, toSubmit, since>>
    /\ UNCHANGED <<always, left, cur, ready, state, cqeLeft, cq, ios, outstanding>>

(* drain_cqe: the fibers whose last completion is there are ready again.    *)
Completed(f) == Cardinality({k \in DOMAIN cq : cq[k][1] = f})
LastAt(k) == \A j \in k + 1 .. Len(cq) : cq[j][1] # cq[k][1]
(* Faulty variant that wakes at any completion of a batch. *)
WokenEarly == {k \in DOMAIN cq : LastAt(k)}
Woken == {k \in DOMAIN cq : LastAt(k) /\ Completed(cq[k][1]) = cqeLeft[cq[k][1]]}
Ascending(S) ==
    {s \in [1 .. Cardinality(S) -> S] : \A i, j \in DOMAIN s : i < j => s[i] < s[j]}
drain_cqe ==
    /\ phase = "drain"
    /\ phase' = "top"
    /\ IF submitted = 0 THEN UNCHANGED <<ready, state, cqeLeft, cq, submitted, outstanding>>
       ELSE /\ \E order \in Ascending(Woken) :
                  ready' = ready \o [i \in DOMAIN order |-> cq[order[i]][1]]
            /\ state' = [f \in Fibers |-> IF \E k \in Woken : cq[k][1] = f THEN "Ready" ELSE state[f]]
            /\ cqeLeft' = [f \in Fibers |-> cqeLeft[f] - Completed(f)]
            /\ cq' = <<>>
            /\ submitted' = submitted - Len(cq) /\ outstanding' = outstanding - Len(cq)
    /\ UNCHANGED <<always, left, cur, sq, kernel, ios, pending, toSubmit, since>>

(* The device completes what was submitted, in any order. *)
Device(e) ==
    /\ e \in kernel
    /\ kernel' = kernel \ {e} /\ cq' = Append(cq, e)
    /\ UNCHANGED <<always, fiberVars, cqeLeft, sq, ios, countVars>>

Next ==
    \/ StartPass \/ Resume \/ Io \/ IoBatch \/ Yield \/ Wait \/ EndPass \/ drain_cqe
    \/ \E g \in Fibers : Wake(g)
    \/ \E f \in Fibers, k \in 1 .. BatchSize : Device(<<f, k>>)
Spec == Init /\ [][Next]_vars

-----------------------------------------------------------------------------
(* The fibers are in states of the reactor (kuring.hpp), and no counter     *)
(* goes below zero.                                                         *)
TypeOK ==
    /\ phase \in {"top", "pass", "drain"} /\ cur \in Fibers \cup {None}
    /\ left \in 0 .. Len(ready)
    /\ state \in [Fibers -> {"Ready", "Running", "io", "wait"}]
    /\ cqeLeft \in [Fibers -> 0 .. BatchSize]
    /\ outstanding \in Nat /\ submitted \in Nat /\ pending \in Nat /\ toSubmit \in Nat /\ since \in Nat

(* The counters are those of the queues, whoever submits: what is pending   *)
(* is in the submission queue, what is submitted is at the device or in the *)
(* completion queue.  The index into the table of check_submit, the passes  *)
(* since the first pending I/O that brought none, is never negative.        *)
CountsAreExact ==
    /\ TypeOK
    /\ toSubmit = Len(sq) /\ pending = Len(sq)
    /\ submitted = Cardinality(kernel) + Len(cq)
    /\ outstanding = submitted + pending
    /\ ~always => since - toSubmit \in 0 .. TotalIoFibers - 1 /\ (toSubmit = 0 <=> since = 0)

(* A fiber is parked in io or io_batch exactly as long as entries of its    *)
(* operation are under way, as many as it still counts: it never runs on    *)
(* while the device works for it (the operation is on its stack), and never *)
(* stays parked after the last completion has been drained.  A fiber that   *)
(* is ready is in the ready ring, and there once: the ring, which has room  *)
(* for MAX_FIBERS, never overflows (ready_.push).                           *)
ParkedForItsIo ==
    /\ \A f \in Fibers :
          /\ cqeLeft[f] = Cardinality({k \in DOMAIN sq : sq[k][1] = f})
                          + Cardinality({e \in kernel : e[1] = f}) + Completed(f)
          /\ cqeLeft[f] > 0 <=> state[f] = "io"
    /\ IsInjective(ready) /\ Range(ready) = {f \in Fibers : state[f] = "Ready"}

(* The worker never idles over work it has not handed to the device: when a *)
(* pass ends with nothing to run, nothing is left in the submission queue,  *)
(* and if a fiber waits for I/O, drain_cqe looks for its completion.        *)
NothingLeftBehind ==
    phase = "drain" /\ ready = <<>> =>
        /\ sq = <<>>
        /\ (\E f \in Fibers : state[f] = "io") => submitted > 0
=============================================================================
