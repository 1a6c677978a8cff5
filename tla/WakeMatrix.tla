----------------------------- MODULE WakeMatrix -----------------------------
(***************************************************************************)
(* Cross-worker wakeups of the multithreaded buffer manager.               *)
(*                                                                         *)
(* Each worker is one OS thread that runs a reactor loop over its own      *)
(* fibers (mt/kuring.hpp).  A fiber that must wait publishes itself on a   *)
(* waiter list and parks.  Whoever later takes it off the list calls       *)
(* wake_fiber: a fiber of the same worker is woken directly, a fiber of    *)
(* another worker travels through a single-producer single-consumer ring   *)
(* of the WakeMatrix (mt/bm.hpp), announced by one bit per source and one  *)
(* counter per destination.  The destination drains its rings only between *)
(* two batches of fiber executions.                                        *)
(*                                                                         *)
(* One action is one atomic access of the code: the ring store, the        *)
(* fetch_or of the source bit, the fetch_add of the counter, the exchange  *)
(* of a bit word, one pop, the fetch_sub.                                  *)
(***************************************************************************)
EXTENDS Naturals, Integers, Sequences, FiniteSets

CONSTANTS
    NumWorkers,   \* wake_matrix->worker_count
    Fibers,       \* every fiber of every worker
    Owner,        \* fiber->owner_worker
    NumWords,     \* source_word_count: bit words per destination
    WordOf,       \* src / 64: the word that holds the bit of a source
    Capacity,     \* WakeChannel::kCapacity
    SpawnOrder,   \* SpawnOrder[w]: the fibers of worker w, in spawn order
    NoFiber       \* nullptr

Workers == 0 .. NumWorkers - 1
Words == 0 .. NumWords - 1

ASSUME WorkersAssumption == NumWorkers \in Nat \ {0}
ASSUME OwnerAssumption == Owner \in [Fibers -> Workers]
ASSUME WordsAssumption == NumWords \in Nat \ {0} /\ WordOf \in [Workers -> Words]
ASSUME CapacityAssumption == Capacity \in Nat \ {0}
ASSUME NoFiberAssumption == NoFiber \notin Fibers
ASSUME SpawnAssumption ==
    /\ SpawnOrder \in [Workers -> Seq(Fibers)]
    /\ \A w \in Workers :
          /\ \A i, j \in DOMAIN SpawnOrder[w] : SpawnOrder[w][i] = SpawnOrder[w][j] => i = j
          /\ \A i \in DOMAIN SpawnOrder[w] : Owner[SpawnOrder[w][i]] = w
(* A reactor keeps at most MAX_FIBERS fibers, far fewer than kCapacity. *)
ASSUME RoomAssumption ==
    \A w \in Workers :
        LET own == {f \in Fibers : Owner[f] = w}
        IN  IsFiniteSet(own) /\ Cardinality(own) <= Capacity

VARIABLES
    pc,           \* what the thread of a worker executes
    current,      \* fiber_current_ of the worker's reactor
    ready,        \* ready_: the reactor's queue of runnable fibers
    left,         \* resumes left in the current batch (n - i in run)
    state,        \* Fiber::state
    pendingWake,  \* Fiber::pending_wake
    registered,   \* fibers published on some waiter list, not yet taken off
    toWake,       \* fibers a thread has taken off a list and not woken yet
    waking,       \* argument of the wake_fiber call in progress
    ring,         \* ring[src][dst]: contents of WakeChannel::ring
    active,       \* active[dst]: sources whose bit is set
    pending,      \* pending_by_dst
    word,         \* word_idx of drain_inbound_wakeups
    sources,      \* the local copy `active` of the word being drained
    visible,      \* entries of a ring that pop is certain to see
    drained       \* drained, the local count

threadVars == <<pc, current, left>>
reactorVars == <<ready, state, pendingWake>>
listVars == <<registered, toWake, waking>>
matrixVars == <<ring, active, pending>>
drainVars == <<word, sources, visible, drained>>
vars == <<threadVars, reactorVars, listVars, matrixVars, drainVars>>

ThreadStates == {"drain", "exchange", "pop", "subtract", "batch",
                 "fiber", "parking", "push", "setbit", "count"}
FiberStates == {"Ready", "Running", "Parked"}

ThreadTypes ==
    /\ pc \in [Workers -> ThreadStates]
    /\ current \in [Workers -> Fibers \cup {NoFiber}]
    /\ left \in [Workers -> Nat]
ReactorTypes ==
    /\ ready \in [Workers -> Seq(Fibers)]
    /\ state \in [Fibers -> FiberStates]
    /\ pendingWake \in [Fibers -> BOOLEAN]
ListTypes ==
    /\ registered \in SUBSET Fibers
    /\ toWake \in [Workers -> SUBSET Fibers]
    /\ waking \in [Workers -> Fibers \cup {NoFiber}]
MatrixTypes ==
    /\ ring \in [Workers -> [Workers -> Seq(Fibers)]]
    /\ active \in [Workers -> SUBSET Workers]
    /\ pending \in [Workers -> Int]
DrainTypes ==
    /\ word \in [Workers -> Nat]
    /\ sources \in [Workers -> SUBSET Workers]
    /\ visible \in [Workers -> [Workers -> Nat]]
    /\ drained \in [Workers -> Nat]

(* The variables of the threads, reactors, waiter lists, rings and drains   *)
(* keep their types; the ready queues and rings hold fibers only.           *)
TypeOK == ThreadTypes /\ ReactorTypes /\ ListTypes /\ MatrixTypes /\ DrainTypes

(***************************************************************************)
(* Every fiber was spawned: it is Ready in the queue of its own worker.    *)
(***************************************************************************)
Init ==
    /\ pc = [w \in Workers |-> "drain"]
    /\ current = [w \in Workers |-> NoFiber]
    /\ left = [w \in Workers |-> 0]
    /\ ready = SpawnOrder
    /\ state = [f \in Fibers |-> "Ready"]
    /\ pendingWake = [f \in Fibers |-> FALSE]
    /\ registered = {}
    /\ toWake = [w \in Workers |-> {}]
    /\ waking = [w \in Workers |-> NoFiber]
    /\ ring = [s \in Workers |-> [d \in Workers |-> <<>>]]
    /\ active = [d \in Workers |-> {}]
    /\ pending = [d \in Workers |-> 0]
    /\ word = [w \in Workers |-> 0]
    /\ sources = [w \in Workers |-> {}]
    /\ visible = [w \in Workers |-> [s \in Workers |-> 0]]
    /\ drained = [w \in Workers |-> 0]

-----------------------------------------------------------------------------
(* BaseReactor::wake, executed by the worker w that owns f. *)

Wake(w, f) ==
    /\ state' = IF state[f] = "Parked" THEN [state EXCEPT ![f] = "Ready"] ELSE state
    /\ ready' = IF state[f] = "Parked"
                  THEN [ready EXCEPT ![w] = Append(@, f)] ELSE ready
    /\ pendingWake' = [pendingWake EXCEPT ![f] = @ \/ state[f] = "Running"]

(* The reactor loop: drain, resume every fiber that was ready, drain ...    *)
(* The drain at the end of one iteration and the one at the start of the    *)
(* next are back to back and appear once.                                   *)

Resume(w) ==
    /\ pc[w] = "batch" /\ left[w] > 0
    /\ pc' = [pc EXCEPT ![w] = "fiber"]
    /\ left' = [left EXCEPT ![w] = @ - 1]
    /\ current' = [current EXCEPT ![w] = Head(ready[w])]
    /\ ready' = [ready EXCEPT ![w] = Tail(@)]
    /\ state' = [state EXCEPT ![Head(ready[w])] = "Running"]
    /\ UNCHANGED <<pendingWake, listVars, matrixVars, drainVars>>

EndBatch(w) ==
    /\ pc[w] = "batch" /\ left[w] = 0
    /\ pc' = [pc EXCEPT ![w] = "drain"]
    /\ UNCHANGED <<current, left, reactorVars, listVars, matrixVars, drainVars>>

StartBatch(w) ==
    /\ pc' = [pc EXCEPT ![w] = "batch"]
    /\ left' = [left EXCEPT ![w] = Len(ready[w])]

-----------------------------------------------------------------------------
(* The running fiber. *)

Yield(w) ==
    /\ pc[w] = "fiber" /\ toWake[w] = {}
    /\ pc' = [pc EXCEPT ![w] = "batch"]
    /\ current' = [current EXCEPT ![w] = NoFiber]
    /\ state' = [state EXCEPT ![current[w]] = "Ready"]
    /\ ready' = [ready EXCEPT ![w] = Append(@, current[w])]
    /\ UNCHANGED <<left, pendingWake, listVars, matrixVars, drainVars>>

(* handleWait and wait_for_free_bid publish the fiber before it parks:      *)
(* from here on another worker may already try to wake it.                  *)
Register(w) ==
    /\ pc[w] = "fiber" /\ toWake[w] = {}
    /\ pc' = [pc EXCEPT ![w] = "parking"]
    /\ registered' = registered \cup {current[w]}
    /\ UNCHANGED <<current, left, reactorVars, toWake, waking, matrixVars, drainVars>>

Park(w) ==
    LET f == current[w] IN
    /\ pc[w] = "parking"
    /\ pendingWake' = [pendingWake EXCEPT ![f] = FALSE]
    /\ IF pendingWake[f]
         THEN /\ pc' = [pc EXCEPT ![w] = "fiber"]
              /\ UNCHANGED <<current, state>>
         ELSE /\ pc' = [pc EXCEPT ![w] = "batch"]
              /\ current' = [current EXCEPT ![w] = NoFiber]
              /\ state' = [state EXCEPT ![f] = "Parked"]
    /\ UNCHANGED <<left, ready, listVars, matrixVars, drainVars>>

(* Faulty variant of Detach: reads the list without detaching it. *)
DetachKeepsList(w) ==
    /\ pc[w] = "fiber" /\ toWake[w] = {}
    /\ \E fs \in (SUBSET registered) \ {{}} : toWake' = [toWake EXCEPT ![w] = fs]
    /\ UNCHANGED <<threadVars, reactorVars, registered, waking, matrixVars, drainVars>>

(* close_waiters, or popping a free-frame waiter queue: the listed fibers   *)
(* now belong to this thread, which will wake each of them.                 *)
Detach(w) ==
    /\ pc[w] = "fiber" /\ toWake[w] = {}
    /\ \E fs \in (SUBSET registered) \ {{}} :
          /\ toWake' = [toWake EXCEPT ![w] = fs]
          /\ registered' = registered \ fs
    /\ UNCHANGED <<threadVars, reactorVars, waking, matrixVars, drainVars>>

(* wake_fiber: same worker, wake at once; other worker, use the matrix. *)
WakeOwn(w) ==
    /\ pc[w] = "fiber"
    /\ \E f \in toWake[w] :
          /\ Owner[f] = w
          /\ Wake(w, f)
          /\ toWake' = [toWake EXCEPT ![w] = @ \ {f}]
    /\ UNCHANGED <<threadVars, registered, waking, matrixVars, drainVars>>

WakeOther(w) ==
    /\ pc[w] = "fiber"
    /\ \E f \in toWake[w] :
          /\ Owner[f] # w
          /\ waking' = [waking EXCEPT ![w] = f]
          /\ toWake' = [toWake EXCEPT ![w] = @ \ {f}]
    /\ pc' = [pc EXCEPT ![w] = "push"]
    /\ UNCHANGED <<current, left, reactorVars, registered, matrixVars, drainVars>>

(* Faulty variant of Push: the retry pushes again after a push went through. *)
PushAgain(w) ==
    LET d == Owner[waking[w]] IN
    /\ pc[w] = "push"
    /\ Len(ring[w][d]) < Capacity
    /\ ring' = [ring EXCEPT ![w][d] = @ \o <<waking[w], waking[w]>>]
    /\ pc' = [pc EXCEPT ![w] = "setbit"]
    /\ UNCHANGED <<current, left, reactorVars, listVars, active, pending, drainVars>>

(* channel.push; a full ring makes the thread spin. *)
Push(w) ==
    LET d == Owner[waking[w]] IN
    /\ pc[w] = "push"
    /\ Len(ring[w][d]) < Capacity
    /\ ring' = [ring EXCEPT ![w][d] = Append(@, waking[w])]
    /\ pc' = [pc EXCEPT ![w] = "setbit"]
    /\ UNCHANGED <<current, left, reactorVars, listVars, active, pending, drainVars>>

SetBit(w) ==
    LET d == Owner[waking[w]] IN
    /\ pc[w] = "setbit"
    /\ active' = [active EXCEPT ![d] = @ \cup {w}]
    /\ pc' = [pc EXCEPT ![w] = "count"]
    /\ UNCHANGED <<current, left, reactorVars, listVars, ring, pending, drainVars>>

Count(w) ==
    LET d == Owner[waking[w]] IN
    /\ pc[w] = "count"
    /\ pending' = [pending EXCEPT ![d] = @ + 1]
    /\ waking' = [waking EXCEPT ![w] = NoFiber]
    /\ pc' = [pc EXCEPT ![w] = "fiber"]
    /\ UNCHANGED <<current, left, reactorVars, registered, toWake, ring, active, drainVars>>

-----------------------------------------------------------------------------
(* drain_inbound_wakeups *)

CheckPending(w) ==
    /\ pc[w] = "drain"
    /\ IF pending[w] = 0
         THEN StartBatch(w) /\ UNCHANGED <<word, drained>>
         ELSE /\ pc' = [pc EXCEPT ![w] = "exchange"]
              /\ word' = [word EXCEPT ![w] = 0]
              /\ drained' = [drained EXCEPT ![w] = 0]
              /\ UNCHANGED left
    /\ UNCHANGED <<current, reactorVars, listVars, matrixVars, sources, visible>>

(* exchange(0) of one word.  SpscRing's head_ and tail_ are plain fields,   *)
(* so a pop may use a tail_ read earlier in the loop; it is certain to see  *)
(* the entries whose producer had set the bit before the exchange, that is  *)
(* all but the one of a producer still between push and fetch_or.           *)
Certain(s, w) ==
    LET uncertain == ring[s][w] # <<>> /\ pc[s] = "setbit" /\ Owner[waking[s]] = w
    IN  IF uncertain THEN Len(ring[s][w]) - 1 ELSE Len(ring[s][w])

Exchange(w) ==
    /\ pc[w] = "exchange"
    /\ LET taken == {s \in active[w] : WordOf[s] = word[w]} IN
          /\ sources' = [sources EXCEPT ![w] = taken]
          /\ active' = [active EXCEPT ![w] = @ \ taken]
          /\ visible' = [visible EXCEPT ![w] =
                [s \in Workers |-> IF s \in taken THEN Certain(s, w) ELSE 0]]
    /\ pc' = [pc EXCEPT ![w] = "pop"]
    /\ UNCHANGED <<current, left, reactorVars, listVars, ring, pending, word, drained>>

(* The source with the lowest set bit is drained first. *)
FirstSource(w, s) == s \in sources[w] /\ \A t \in sources[w] : s <= t

Pop(w) ==
    /\ pc[w] = "pop"
    /\ \E s \in Workers :
          /\ FirstSource(w, s)
          /\ ring[s][w] # <<>>
          /\ Wake(w, Head(ring[s][w]))
          /\ ring' = [ring EXCEPT ![s][w] = Tail(@)]
          /\ visible' = [visible EXCEPT ![w][s] = IF @ = 0 THEN 0 ELSE @ - 1]
    /\ drained' = [drained EXCEPT ![w] = @ + 1]
    /\ UNCHANGED <<threadVars, listVars, active, pending, word, sources>>

(* Faulty variant of PopEmpty: clears the bit of the source once more. *)
PopEmptyClearsBit(w) ==
    /\ pc[w] = "pop"
    /\ \E s \in Workers :
          /\ FirstSource(w, s)
          /\ visible[w][s] = 0
          /\ sources' = [sources EXCEPT ![w] = @ \ {s}]
          /\ active' = [active EXCEPT ![w] = @ \ {s}]
    /\ UNCHANGED <<threadVars, reactorVars, listVars, ring, pending, word, visible, drained>>

PopEmpty(w) ==
    /\ pc[w] = "pop"
    /\ \E s \in Workers :
          /\ FirstSource(w, s)
          /\ visible[w][s] = 0
          /\ sources' = [sources EXCEPT ![w] = @ \ {s}]
    /\ UNCHANGED <<threadVars, reactorVars, listVars, matrixVars, word, visible, drained>>

(* Faulty variant of NextWord: the last word is never visited. *)
NextWordStopsEarly(w) ==
    /\ pc[w] = "pop" /\ sources[w] = {}
    /\ word' = [word EXCEPT ![w] = @ + 1]
    /\ pc' = [pc EXCEPT ![w] = IF word[w] + 1 < NumWords - 1 THEN "exchange" ELSE "subtract"]
    /\ UNCHANGED <<current, left, reactorVars, listVars, matrixVars, sources, visible, drained>>

NextWord(w) ==
    /\ pc[w] = "pop" /\ sources[w] = {}
    /\ word' = [word EXCEPT ![w] = @ + 1]
    /\ pc' = [pc EXCEPT ![w] = IF word[w] + 1 < NumWords THEN "exchange" ELSE "subtract"]
    /\ UNCHANGED <<current, left, reactorVars, listVars, matrixVars, sources, visible, drained>>

Subtract(w) ==
    /\ pc[w] = "subtract"
    /\ pending' = [pending EXCEPT ![w] = @ - drained[w]]
    /\ drained' = [drained EXCEPT ![w] = 0]
    /\ StartBatch(w)
    /\ UNCHANGED <<current, reactorVars, listVars, ring, active, word, sources, visible>>

-----------------------------------------------------------------------------
Thread(w) ==
    \/ Resume(w) \/ EndBatch(w) \/ Yield(w) \/ Register(w) \/ Park(w)
    \/ Detach(w) \/ WakeOwn(w) \/ WakeOther(w) \/ Push(w) \/ SetBit(w) \/ Count(w)
    \/ CheckPending(w) \/ Exchange(w) \/ Pop(w) \/ PopEmpty(w) \/ NextWord(w)
    \/ Subtract(w)

Next == \E w \in Workers : Thread(w)

(* Threads are scheduled by the kernel and never stop; a fiber comes back   *)
(* to a yield or a park again and again (the workload loops do both).       *)
Fairness ==
    \A w \in Workers :
        WF_vars(Thread(w)) /\ SF_vars(Yield(w) \/ Register(w))

Spec == Init /\ [][Next]_vars /\ Fairness

-----------------------------------------------------------------------------
(* A ring that holds a wakeup is announced: its bit is set, or it is among  *)
(* the sources the destination is draining, or its producer is about to set *)
(* the bit (wake_fiber pushes first and sets the bit after; the drain       *)
(* clears the bit first and pops after).  Otherwise the wakeup would stay   *)
(* in the ring until the same source happens to send another one.           *)
RingAnnounced ==
    \A s, d \in Workers : ring[s][d] # <<>> =>
        \/ s \in active[d]
        \/ s \in sources[d]
        \/ pc[s] = "setbit" /\ Owner[waking[s]] = d

InRing(f) == \E s, d \in Workers : \E i \in DOMAIN ring[s][d] : ring[s][d][i] = f

(* Worker w has taken f off its list and has not handed the wakeup on yet. *)
Holds(w, f) == f \in toWake[w] \/ (pc[w] = "push" /\ waking[w] = f)

OnItsWay(f) == f \in registered \/ InRing(f) \/ \E w \in Workers : Holds(w, f)
Settled(f) == state[f] = "Parked" \/ (pc[Owner[f]] = "parking" /\ current[Owner[f]] = f)

(* A fiber whose wakeup is on its way is parked, or is past its publication *)
(* and about to park, so that the drain (which runs only between fibers)    *)
(* finds it Parked: BaseReactor::wake ignores a fiber that is Ready, and a  *)
(* wakeup that arrived in that state would be lost for good.                *)
WakeFindsParked == \A f \in Fibers : OnItsWay(f) => Settled(f)

(* No thread ever spins on a full ring (two workers spinning on each        *)
(* other's full ring would never drain): a fiber is queued at most once, so *)
(* a ring as long as the fibers of one worker has room.                     *)
PushNeverSpins ==
    \A w \in Workers : pc[w] = "push" => Len(ring[w][Owner[waking[w]]]) < Capacity

(* Every wakeup pushed into a ring eventually runs its fiber. *)
WakeupsAreDelivered == \A f \in Fibers : InRing(f) ~> state[f] = "Running"

=============================================================================
