----------------------------- MODULE FreeFrames -----------------------------
(***************************************************************************)
(* Where free frames come from in the multithreaded buffer manager         *)
(* (mt/bm.cpp, mt/bm.hpp): the free list of each worker, the shared pools, *)
(* the fibers that wait for a frame, the wake budget, the buffered counter *)
(* of used frames, and the eviction fiber that sleeps until it is needed.  *)
(*                                                                         *)
(* Frames are counted, not named: BufferPool follows each one.  A frame    *)
(* given back may therefore enter any pool (the code derives the pool from *)
(* the frame's number).  A sweep is one step here; it meets pages that are *)
(* marked or cold, and claims succeed (BufferPool has the steps between).  *)
(* A wakeup takes effect at once; WakeMatrix has its way to the worker.    *)
(* The section of a spin lock is one step: a pool and shared_free_count    *)
(* change together, so the count is the sum of the pools.                  *)
(***************************************************************************)
EXTENDS Integers, Sequences, SequencesExt, FiniteSetsExt, Functions

CONSTANTS
    NumWorkers,      \* also the number of shared pools
    Fibers, WorkerOf,
    Evictor,         \* the eviction fiber of a worker
    PageCount,       \* frames, the one of page 0 included
    RefillTarget,    \* local_free_refill_target(1)
    LowWatermark,    \* local_free_low_watermark
    LocalCap,        \* local_free_cap
    FlushThreshold,  \* kPhysUsedFlushThreshold
    FreeTarget,      \* page_count * cfg.free_target
    Batch,           \* cfg.evict_batch
    WordLimit,       \* 2^64: the counters wrap
    MaxBudget,       \* bound: the wake budget saturates here
    MaxOps           \* bound: operations the clients start

Workers == 0 .. NumWorkers - 1
Pools == Workers

ASSUME WorkerAssumption == NumWorkers \in Nat \ {0} /\ WorkerOf \in [Fibers -> Workers]
ASSUME ActorAssumption == Evictor \notin Fibers
ASSUME ListAssumption ==
    /\ RefillTarget \in Nat \ {0} /\ LowWatermark \in Nat /\ LocalCap \in Nat
    /\ RefillTarget < LocalCap
ASSUME CounterAssumption ==
    /\ PageCount \in Nat \ {0} /\ FlushThreshold \in Nat \ {0} /\ FreeTarget \in Nat
    /\ Batch \in Nat \ {0} /\ MaxBudget \in Nat /\ MaxOps \in Nat
    /\ WordLimit \in Nat /\ 4 * PageCount < WordLimit

VARIABLES
    ready,         \* the ready queue of a worker; its head is on the thread
    pc, kind,      \* next step of a client; what it needs a frame for
    ops,           \* operations started
    pool,          \* free_pools: frames in each
    local,         \* local_free_list: frames in each
    step,          \* the pool or queue a scan reaches next
    waiters,       \* free_frame_waiters_by_worker
    budget,        \* free_bid_wake_budget
    call,          \* where a thread is in wake_free_bid_waiters_locked
    remaining,     \* the part of the budget it has claimed
    out,           \* fibers a thread has taken off the queues and will wake
    physUsed,      \* physUsedCount
    delta,         \* phys_used_local_delta
    inflight,      \* evict_pages_inflight
    marked, cold,  \* pages in frames, per worker that owns them
    epc,           \* next step of the eviction fiber
    eRunning, ePending,  \* SleepingFiber: running, pending_wakeup
    currentFree,   \* current_free, as evict loaded it
    reserved,      \* reserved_budget
    toEvict, toWrite,    \* claimed frames: clean, dirty
    freed,         \* frames erased from the table in this phase
    unpushed       \* of those, the ones not in a pool yet

threadVars == <<ready, pc, kind, ops>>
listVars == <<pool, local, step>>
queueVars == <<waiters, budget, call, remaining, out>>
counterVars == <<physUsed, delta, inflight>>
pageVars == <<marked, cold>>
sleepVars == <<epc, eRunning, ePending>>
evictVars == <<currentFree, reserved, toEvict, toWrite, freed, unpushed>>
vars == <<threadVars, listVars, queueVars, counterVars, pageVars, sleepVars, evictVars>>

ClientStates == {"idle", "refill", "wait", "parked", "woken", "topUp", "take",
                 "lost", "release", "reading"}
EvictorStates == {"parked", "check", "load", "reserve", "sweep", "writing",
                  "written", "push", "own", "subtract"}
CallStates == {"none", "claim", "drain", "refund", "wake"}

Count == 0 .. PageCount

(* Every variable keeps its type; the lists hold at most all frames and the *)
(* used counter stays within its width.                                     *)
TypeOK ==
    /\ ready \in [Workers -> Seq(Fibers \cup {Evictor})]
    /\ pc \in [Fibers -> ClientStates] /\ ops \in 0 .. MaxOps /\ kind \in [Fibers -> {"fault", "alloc"}]
    /\ pool \in [Pools -> Count] /\ local \in [Workers -> Count]
    /\ step \in [Workers -> 0 .. NumWorkers]
    /\ waiters \in [Workers -> Seq(Fibers)] /\ out \in [Workers -> Seq(Fibers)]
    /\ call \in [Workers -> CallStates]
    /\ budget \in 0 .. MaxBudget /\ remaining \in [Workers -> 0 .. MaxBudget]
    /\ physUsed \in 0 .. WordLimit - 1 /\ delta \in [Workers -> Int]
    /\ inflight \in 0 .. WordLimit - 1
    /\ marked \in [Workers -> Count] /\ cold \in [Workers -> Count]
    /\ epc \in [Workers -> EvictorStates]
    /\ eRunning \in [Workers -> BOOLEAN] /\ ePending \in [Workers -> BOOLEAN]
    /\ currentFree \in [Workers -> 0 .. WordLimit - 1] /\ reserved \in [Workers -> Count]
    /\ toEvict \in [Workers -> Count] /\ toWrite \in [Workers -> Count]
    /\ freed \in [Workers -> Count] /\ unpushed \in [Workers -> Count]

Init ==
    /\ ready = [w \in Workers |-> <<Evictor>> \o SetToSeq({f \in Fibers : WorkerOf[f] = w})]
    /\ pc = [f \in Fibers |-> "idle"] /\ ops = 0 /\ kind = [f \in Fibers |-> "fault"]
    /\ pool = [i \in Pools |-> Cardinality({b \in 1 .. PageCount - 1 : b % NumWorkers = i})]
    /\ local = [w \in Workers |-> 0] /\ step = [w \in Workers |-> 0]
    /\ waiters = [w \in Workers |-> <<>>] /\ out = [w \in Workers |-> <<>>]
    /\ budget = 0 /\ remaining = [w \in Workers |-> 0] /\ call = [w \in Workers |-> "none"]
    /\ physUsed = 1 /\ delta = [w \in Workers |-> 0] /\ inflight = 0
    /\ marked = [w \in Workers |-> 0] /\ cold = [w \in Workers |-> 0]
    /\ epc = [w \in Workers |-> "check"]
    /\ eRunning = [w \in Workers |-> TRUE] /\ ePending = [w \in Workers |-> FALSE]
    /\ currentFree = [w \in Workers |-> 0] /\ reserved = [w \in Workers |-> 0]
    /\ toEvict = [w \in Workers |-> 0] /\ toWrite = [w \in Workers |-> 0]
    /\ freed = [w \in Workers |-> 0] /\ unpushed = [w \in Workers |-> 0]

-----------------------------------------------------------------------------
(* The threads and the eviction fiber's SleepingFiber. *)

U64(n) == n % WordLimit
Shared == SumFunction(pool)      \* shared_free_count
Lesser(m, n) == IF m < n THEN m ELSE n
Greater(m, n) == IF m < n THEN n ELSE m
Saturated(n) == Lesser(n, MaxBudget)

(* A fiber runs until it yields, which puts it at the end of the ready      *)
(* queue, or parks, which takes it out until it is woken.                   *)
Runs(w, f) == ready[w] # <<>> /\ Head(ready[w]) = f /\ call[w] = "none"
Yielded(q) == Append(Tail(q), Head(q))
On(f, label) == Runs(WorkerOf[f], f) /\ pc[f] = label
Goto(f, label) == pc' = [pc EXCEPT ![f] = label] /\ UNCHANGED ready
YieldTo(f, label) ==
    /\ pc' = [pc EXCEPT ![f] = label]
    /\ ready' = [ready EXCEPT ![WorkerOf[f]] = Yielded(@)]
ParkTo(f, label) ==
    /\ pc' = [pc EXCEPT ![f] = label]
    /\ ready' = [ready EXCEPT ![WorkerOf[f]] = Tail(@)]
EvictorOn(w, label) == Runs(w, Evictor) /\ epc[w] = label
EvictorGoto(w, label) ==
    epc' = [epc EXCEPT ![w] = label] /\ UNCHANGED <<ready, eRunning, ePending>>

(* Queues and steps after the waiting fibers in the sequence s are woken. *)
Woken(pcs, s) == [f \in Fibers |-> IF Contains(s, f) THEN "woken" ELSE pcs[f]]
Readied(queues, s) ==
    [w \in Workers |-> queues[w] \o SelectSeq(s, LAMBDA f : WorkerOf[f] = w)]

(* SleepingFiber::wakeup, from a fiber of the same worker; queues are the   *)
(* ready queues with the evictor in them.                                   *)
Wakeup(w) ==
    IF eRunning[w]
      THEN ePending' = [ePending EXCEPT ![w] = TRUE] /\ UNCHANGED <<eRunning, epc>>
      ELSE /\ eRunning' = [eRunning EXCEPT ![w] = TRUE]
           /\ epc' = [epc EXCEPT ![w] = "check"]
           /\ UNCHANGED ePending
WithEvictor(q, w) == IF eRunning[w] THEN q ELSE Append(q, Evictor)

(* Faulty variant of Park: a wakeup that came while it ran is forgotten. *)
ParkForgetful(w) ==
    /\ eRunning' = [eRunning EXCEPT ![w] = FALSE]
    /\ epc' = [epc EXCEPT ![w] = "parked"]
    /\ ready' = [ready EXCEPT ![w] = Tail(@)]
    /\ UNCHANGED ePending

(* SleepingFiber::park: a wakeup that came while it ran makes it run again. *)
Park(w) ==
    /\ ePending' = [ePending EXCEPT ![w] = FALSE]
    /\ eRunning' = [eRunning EXCEPT ![w] = ePending[w]]
    /\ epc' = [epc EXCEPT ![w] = IF ePending[w] THEN "check" ELSE "parked"]
    /\ ready' = IF ePending[w] THEN ready ELSE [ready EXCEPT ![w] = Tail(@)]

-----------------------------------------------------------------------------
(* Clients: handleFault and allocPage, as far as they concern free frames.  *)

(* A client fixes a page that is resident: the page is marked, if it was not. *)
Touch(f) ==
    /\ On(f, "idle")
    /\ \/ UNCHANGED pageVars
       \/ \E o \in Workers :
             /\ cold[o] > 0
             /\ cold' = [cold EXCEPT ![o] = @ - 1]
             /\ marked' = [marked EXCEPT ![o] = @ + 1]
    /\ YieldTo(f, "idle")
    /\ UNCHANGED <<kind, ops, listVars, queueVars, counterVars, sleepVars, evictVars>>

(* refill_local_free_list(1) returns at once when the list is not empty, and *)
(* acquire_free_bid refills it again at the low watermark.                   *)
WithFrames(n) == IF n = LowWatermark /\ n < RefillTarget THEN "topUp" ELSE "take"

Begin(n) == IF n = 0 THEN "refill" ELSE WithFrames(n)

Need(f, k) ==
    /\ On(f, "idle")
    /\ ops < MaxOps
    /\ ops' = ops + 1
    /\ kind' = [kind EXCEPT ![f] = k]
    /\ Goto(f, Begin(local[WorkerOf[f]]))
    /\ UNCHANGED <<listVars, queueVars, counterVars, pageVars, sleepVars, evictVars>>

Fault(f) == Need(f, "fault")
AllocPage(f) == Need(f, "alloc")

Refilling(f) == On(f, "refill") \/ On(f, "topUp")

(* refill_from_pool: own pool first, then the others in turn. *)
RefillFromPool(f) ==
    LET w == WorkerOf[f]
        i == (w + step[w]) % NumWorkers
        take == Lesser(RefillTarget - local[w], pool[i])
    IN
    /\ Refilling(f)
    /\ step[w] < NumWorkers /\ local[w] < RefillTarget
    /\ pool' = [pool EXCEPT ![i] = @ - take]
    /\ local' = [local EXCEPT ![w] = @ + take]
    /\ step' = [step EXCEPT ![w] = @ + 1]
    /\ UNCHANGED <<threadVars, queueVars, counterVars, pageVars, sleepVars, evictVars>>

(* The end of refill_local_free_list wakes the evictor when frames are      *)
(* short; a fault without a frame waits, an allocation restarts.            *)
EndRefill(f) ==
    LET w == WorkerOf[f]
        short == Shared + local[w] <= FreeTarget
        queue == IF short THEN WithEvictor(ready[w], w) ELSE ready[w]
        restarts == local[w] = 0 /\ kind[f] = "alloc"
    IN
    /\ Refilling(f)
    /\ step[w] = NumWorkers \/ local[w] >= RefillTarget
    /\ IF short THEN Wakeup(w) ELSE UNCHANGED sleepVars
    /\ step' = [step EXCEPT ![w] = 0]
    /\ ready' = [ready EXCEPT ![w] = IF restarts THEN Yielded(queue) ELSE queue]
    /\ pc' = [pc EXCEPT ![f] = IF restarts THEN "idle"
                               ELSE IF local[w] = 0 THEN "wait"
                               ELSE IF pc[f] = "refill" THEN WithFrames(local[w]) ELSE "take"]
    /\ kind' = IF restarts THEN [kind EXCEPT ![f] = "fault"] ELSE kind
    /\ UNCHANGED <<ops, pool, local, queueVars, counterVars, pageVars, evictVars>>

(* wait_for_free_bid *)
WaitForFreeBid(f) ==
    LET w == WorkerOf[f] IN
    /\ On(f, "wait")
    /\ IF Shared > 0 THEN Goto(f, "woken") /\ UNCHANGED waiters
       ELSE /\ waiters' = [waiters EXCEPT ![w] = Append(@, f)]
            /\ ParkTo(f, "parked")
    /\ UNCHANGED <<kind, ops, listVars, budget, call, remaining, out, counterVars, pageVars,
                   sleepVars, evictVars>>

(* After the wait: another fiber may have brought the page in. *)
Continue(f) ==
    /\ On(f, "woken")
    /\ YieldTo(f, "idle") \/ Goto(f, Begin(local[WorkerOf[f]]))
    /\ UNCHANGED <<kind, ops, listVars, queueVars, counterVars, pageVars, sleepVars, evictVars>>

(* accum_phys_used *)
Accumulate(w, d) ==
    LET n == delta[w] + d IN
    IF n >= FlushThreshold \/ n <= -FlushThreshold
      THEN physUsed' = U64(physUsed + n) /\ delta' = [delta EXCEPT ![w] = 0]
      ELSE delta' = [delta EXCEPT ![w] = n] /\ UNCHANGED physUsed

(* The end of acquire_free_bid and the insert into the page table.  The     *)
(* winner of a fault reads the page; an allocated page needs no read.       *)
Take(f) ==
    LET w == WorkerOf[f] IN
    /\ On(f, "take")
    /\ local' = [local EXCEPT ![w] = @ - 1]
    /\ Accumulate(w, 1)
    /\ \/ kind[f] = "fault" /\ ParkTo(f, "reading") /\ UNCHANGED marked
       \/ kind[f] = "fault" /\ Goto(f, "lost") /\ UNCHANGED marked
       \/ /\ kind[f] = "alloc" /\ YieldTo(f, "idle")
          /\ \E o \in Workers : marked' = [marked EXCEPT ![o] = @ + 1]
    /\ kind' = [kind EXCEPT ![f] = "fault"]
    /\ UNCHANGED <<ops, pool, step, queueVars, inflight, cold, sleepVars, evictVars>>

DeviceRead(f) ==
    /\ pc[f] = "reading"
    /\ pc' = [pc EXCEPT ![f] = "idle"]
    /\ ready' = [ready EXCEPT ![WorkerOf[f]] = Append(@, f)]
    /\ \E o \in Workers : marked' = [marked EXCEPT ![o] = @ + 1]
    /\ UNCHANGED <<kind, ops, listVars, queueVars, counterVars, cold, sleepVars, evictVars>>

(* The last n of a queue, which are woken first, and what they leave. *)
Newest(q, n) == Reverse(SubSeq(q, Len(q) - n + 1, Len(q)))
Older(q, n) == SubSeq(q, 1, Len(q) - n)

(* The loser of the insert undoes the count.  release_free_bid: the         *)
(* worker's own list and waiters first.                                     *)
Release(f) ==
    LET w == WorkerOf[f]
        q == waiters[w]
        n == IF q = <<>> THEN 0 ELSE Lesser(local[w] + 1, Len(q))
        cap == IF q = <<>> THEN LocalCap ELSE 2 * LocalCap
    IN
    /\ On(f, "lost")
    /\ Accumulate(w, -1)
    /\ IF local[w] < cap
         THEN /\ local' = [local EXCEPT ![w] = @ + 1]
              /\ waiters' = [waiters EXCEPT ![w] = Older(q, n)]
              /\ pc' = Woken([pc EXCEPT ![f] = "idle"], Newest(q, n))
              /\ ready' = [ready EXCEPT ![w] = Yielded(@ \o Newest(q, n))]
              /\ UNCHANGED <<pool, budget, call>>
         ELSE /\ \E i \in Pools : pool' = [pool EXCEPT ![i] = @ + 1]
              /\ budget' = Saturated(budget + 1)
              /\ call' = [call EXCEPT ![w] = "claim"]
              /\ Goto(f, "release")
              /\ UNCHANGED <<local, waiters>>
    /\ UNCHANGED <<kind, ops, step, remaining, out, inflight, pageVars, sleepVars, evictVars>>

-----------------------------------------------------------------------------
(* wake_free_bid_waiters_locked, called by release_free_bid and by evict.   *)

ClaimBudget(w) ==
    /\ call[w] = "claim"
    /\ remaining' = [remaining EXCEPT ![w] = budget]
    /\ budget' = 0
    /\ step' = [step EXCEPT ![w] = 0]
    /\ call' = [call EXCEPT ![w] = IF budget = 0 THEN "wake" ELSE "drain"]
    /\ UNCHANGED <<threadVars, pool, local, waiters, out, counterVars, pageVars, sleepVars,
                   evictVars>>

(* Faulty variant of DrainQueue: the fibers stay in the queue. *)
DrainKeepsQueue(w) ==
    LET i == (w + step[w]) % NumWorkers
        n == Lesser(remaining[w], Len(waiters[i]))
        left == remaining[w] - n
    IN
    /\ call[w] = "drain"
    /\ out' = [out EXCEPT ![w] = @ \o Newest(waiters[i], n)]
    /\ remaining' = [remaining EXCEPT ![w] = left]
    /\ step' = [step EXCEPT ![w] = (@ + 1) % NumWorkers]
    /\ call' = [call EXCEPT ![w] = IF left = 0 THEN "wake"
                                   ELSE IF step[w] + 1 < NumWorkers THEN "drain" ELSE "refund"]
    /\ UNCHANGED <<threadVars, pool, local, waiters, budget, counterVars, pageVars, sleepVars,
                   evictVars>>

DrainQueue(w) ==
    LET i == (w + step[w]) % NumWorkers
        n == Lesser(remaining[w], Len(waiters[i]))
        left == remaining[w] - n
    IN
    /\ call[w] = "drain"
    /\ out' = [out EXCEPT ![w] = @ \o Newest(waiters[i], n)]
    /\ waiters' = [waiters EXCEPT ![i] = Older(@, n)]
    /\ remaining' = [remaining EXCEPT ![w] = left]
    /\ step' = [step EXCEPT ![w] = (@ + 1) % NumWorkers]
    /\ call' = [call EXCEPT ![w] = IF left = 0 THEN "wake"
                                   ELSE IF step[w] + 1 < NumWorkers THEN "drain" ELSE "refund"]
    /\ UNCHANGED <<threadVars, pool, local, budget, counterVars, pageVars, sleepVars, evictVars>>

Refund(w) ==
    /\ call[w] = "refund"
    /\ budget' = Saturated(budget + remaining[w])
    /\ remaining' = [remaining EXCEPT ![w] = 0]
    /\ call' = [call EXCEPT ![w] = "wake"]
    /\ UNCHANGED <<threadVars, listVars, waiters, out, counterVars, pageVars, sleepVars, evictVars>>

(* The caller wakes the fibers.  evict goes on; release_free_bid ends with  *)
(* a look at the shared count.                                              *)
WakeFibers(w) ==
    LET f == Head(ready[w])
        queues == Readied(ready, out[w])
    IN
    /\ call[w] = "wake"
    /\ out' = [out EXCEPT ![w] = <<>>]
    /\ call' = [call EXCEPT ![w] = "none"]
    /\ step' = [step EXCEPT ![w] = 0]
    /\ IF f = Evictor
         THEN pc' = Woken(pc, out[w]) /\ ready' = queues /\ UNCHANGED sleepVars
         ELSE /\ pc' = Woken([pc EXCEPT ![f] = "idle"], out[w])
              /\ IF Shared <= FreeTarget
                   THEN Wakeup(w) /\ ready' = [queues EXCEPT ![w] = Yielded(WithEvictor(@, w))]
                   ELSE UNCHANGED sleepVars /\ ready' = [queues EXCEPT ![w] = Yielded(@)]
    /\ UNCHANGED <<kind, ops, pool, local, waiters, budget, remaining, counterVars, pageVars, evictVars>>

-----------------------------------------------------------------------------
(* The eviction fiber. *)

FreeOf(used) == U64(PageCount - used)

(* below_free_target *)
BelowFreeTarget(w) == U64(FreeOf(U64(physUsed + delta[w])) + inflight) <= FreeTarget

Trigger(w) ==
    /\ EvictorOn(w, "check")
    /\ IF BelowFreeTarget(w) THEN EvictorGoto(w, "load") ELSE Park(w)
    /\ UNCHANGED <<pc, kind, ops, listVars, queueVars, counterVars, pageVars, evictVars>>

LoadFree(w) ==
    /\ EvictorOn(w, "load")
    /\ currentFree' = [currentFree EXCEPT ![w] = FreeOf(physUsed)]
    /\ EvictorGoto(w, "reserve")
    /\ UNCHANGED <<pc, kind, ops, listVars, queueVars, counterVars, pageVars, reserved, toEvict,
                   toWrite, freed, unpushed>>

Deficit(w) == FreeTarget - U64(currentFree[w] + inflight)

(* The loop that reserves a budget, at its last compare-and-swap: a failed  *)
(* one loads both counters again.                                           *)
Reserve(w) ==
    LET n == Greater(1, Lesser(Batch, Deficit(w))) IN
    /\ EvictorOn(w, "reserve")
    /\ currentFree' = [currentFree EXCEPT ![w] = 0]   \* not read again
    /\ IF Deficit(w) <= 0
         THEN Park(w) /\ UNCHANGED <<inflight, reserved>>
         ELSE /\ inflight' = U64(inflight + n)
              /\ reserved' = [reserved EXCEPT ![w] = n]
              /\ EvictorGoto(w, "sweep")
    /\ UNCHANGED <<pc, kind, ops, listVars, queueVars, physUsed, delta, pageVars, toEvict, toWrite,
                   freed, unpushed>>

(* The sweep takes the mark from marked pages and claims cold ones, until   *)
(* it has as many as it reserved or has seen all; io_batch parks the fiber. *)
Victims(w, c, m) ==
    /\ c < reserved[w] => c = cold[w] /\ m = marked[w]
    /\ cold' = [cold EXCEPT ![w] = @ - c + m]
    /\ marked' = [marked EXCEPT ![w] = @ - m]
    /\ reserved' = [reserved EXCEPT ![w] = c]
    /\ \E d \in 0 .. c :
          /\ toWrite' = [toWrite EXCEPT ![w] = d]
          /\ toEvict' = [toEvict EXCEPT ![w] = c - d]
          /\ epc' = [epc EXCEPT ![w] = IF d > 0 THEN "writing" ELSE "written"]
          /\ ready' = IF d > 0 THEN [ready EXCEPT ![w] = Tail(@)] ELSE ready
    /\ UNCHANGED <<pc, kind, ops, listVars, queueVars, physUsed, delta, eRunning, ePending,
                   currentFree, freed, unpushed>>

Sweep(w) ==
    /\ EvictorOn(w, "sweep")
    /\ \E c \in 0 .. Lesser(reserved[w], cold[w]), m \in 0 .. marked[w] :
          /\ Victims(w, c, m)
          /\ inflight' = U64(inflight - (reserved[w] - c))

DeviceWrite(w) ==
    /\ epc[w] = "writing"
    /\ epc' = [epc EXCEPT ![w] = "written"]
    /\ ready' = [ready EXCEPT ![w] = Append(@, Evictor)]
    /\ UNCHANGED <<pc, kind, ops, listVars, queueVars, counterVars, pageVars, eRunning, ePending,
                   evictVars>>

(* evictNow for the clean pages, and in a second phase for the written ones. *)
EvictNow(w) ==
    LET n == IF toEvict[w] > 0 THEN toEvict[w] ELSE toWrite[w] IN
    /\ EvictorOn(w, "written")
    /\ n > 0
    /\ freed' = [freed EXCEPT ![w] = n] /\ unpushed' = [unpushed EXCEPT ![w] = n]
    /\ toEvict' = [toEvict EXCEPT ![w] = 0]
    /\ toWrite' = IF toEvict[w] > 0 THEN toWrite ELSE [toWrite EXCEPT ![w] = 0]
    /\ EvictorGoto(w, "push")
    /\ UNCHANGED <<pc, kind, ops, listVars, queueVars, counterVars, pageVars, currentFree, reserved>>

(* releaseFreed: one pool after the other. *)
PushFreed(w) ==
    LET i == step[w] IN
    /\ EvictorOn(w, "push")
    /\ \E n \in 0 .. unpushed[w] :
          /\ i = NumWorkers - 1 => n = unpushed[w]
          /\ pool' = [pool EXCEPT ![i] = @ + n]
          /\ unpushed' = [unpushed EXCEPT ![w] = @ - n]
    /\ step' = [step EXCEPT ![w] = IF unpushed'[w] = 0 THEN 0 ELSE @ + 1]
    /\ EvictorGoto(w, IF unpushed'[w] = 0 THEN "own" ELSE "push")
    /\ UNCHANGED <<pc, kind, ops, local, queueVars, counterVars, pageVars, currentFree, reserved,
                   toEvict, toWrite, freed>>

(* releaseFreed: the waiters of this worker, and only without any the rest. *)
WakeOwn(w) ==
    LET slots == Greater(1, freed[w] \div RefillTarget)
        q == waiters[w]
        n == Lesser(slots, Len(q))
    IN
    /\ EvictorOn(w, "own")
    /\ waiters' = [waiters EXCEPT ![w] = Older(q, n)]
    /\ out' = [out EXCEPT ![w] = Newest(q, n)]
    /\ budget' = IF n = 0 THEN Saturated(budget + slots) ELSE budget
    /\ call' = [call EXCEPT ![w] = IF n = 0 THEN "claim" ELSE "wake"]
    /\ EvictorGoto(w, "subtract")
    /\ UNCHANGED <<pc, kind, ops, listVars, remaining, counterVars, pageVars, evictVars>>

(* Faulty variant of Subtract: the buffered delta is dropped. *)
SubtractFreedOnly(w) ==
    /\ EvictorOn(w, "subtract")
    /\ physUsed' = U64(physUsed - freed[w])
    /\ delta' = [delta EXCEPT ![w] = 0]
    /\ freed' = [freed EXCEPT ![w] = 0]
    /\ EvictorGoto(w, "written")
    /\ UNCHANGED <<pc, kind, ops, listVars, queueVars, inflight, pageVars, currentFree, reserved,
                   toEvict, toWrite, unpushed>>

(* releaseFreed: the used counter, with what this worker has buffered. *)
Subtract(w) ==
    /\ EvictorOn(w, "subtract")
    /\ physUsed' = U64(physUsed + delta[w] - freed[w])
    /\ delta' = [delta EXCEPT ![w] = 0]
    /\ freed' = [freed EXCEPT ![w] = 0]
    /\ EvictorGoto(w, "written")
    /\ UNCHANGED <<pc, kind, ops, listVars, queueVars, inflight, pageVars, currentFree, reserved,
                   toEvict, toWrite, unpushed>>

(* The end of evict: after progress the loop runs again, else it parks. *)
Unreserve(w) ==
    /\ EvictorOn(w, "written")
    /\ toEvict[w] + toWrite[w] = 0
    /\ inflight' = U64(inflight - reserved[w])
    /\ reserved' = [reserved EXCEPT ![w] = 0]
    /\ IF reserved[w] > 0 THEN EvictorGoto(w, "check") ELSE Park(w)
    /\ UNCHANGED <<pc, kind, ops, listVars, queueVars, physUsed, delta, pageVars, currentFree,
                   toEvict, toWrite, freed, unpushed>>

-----------------------------------------------------------------------------
Client(f) ==
    \/ Touch(f) \/ Fault(f) \/ AllocPage(f)
    \/ RefillFromPool(f) \/ EndRefill(f) \/ WaitForFreeBid(f) \/ Continue(f)
    \/ Take(f) \/ Release(f)
WakeCall(w) == ClaimBudget(w) \/ DrainQueue(w) \/ Refund(w) \/ WakeFibers(w)
Evict(w) ==
    \/ Trigger(w) \/ LoadFree(w) \/ Reserve(w) \/ Sweep(w)
    \/ EvictNow(w) \/ PushFreed(w) \/ WakeOwn(w)
    \/ Subtract(w) \/ Unreserve(w)

Next ==
    \/ \E f \in Fibers : Client(f) \/ DeviceRead(f)
    \/ \E w \in Workers : WakeCall(w) \/ Evict(w) \/ DeviceWrite(w)

(* A thread goes on as long as a fiber is ready, and writes end.  Clients   *)
(* need not start anything (Touch may leave all as it is).                  *)
Thread(w) == WakeCall(w) \/ Evict(w) \/ \E f \in Fibers : WorkerOf[f] = w /\ Client(f)
Fairness ==
    \A w \in Workers : WF_vars(Thread(w)) /\ WF_vars(DeviceWrite(w))

Spec == Init /\ [][Next]_vars /\ Fairness

-----------------------------------------------------------------------------
Clients(label) == Cardinality({f \in Fibers : pc[f] = label})
FreeFrames == Shared + SumFunction(local) + SumFunction(unpushed)
UsedFrames == 1 + SumFunction(marked) + SumFunction(cold) + SumFunction(toEvict)
                + SumFunction(toWrite) + Clients("lost") + Clients("reading")

(* No frame is lost or made on its way between pages, lists and pools, and  *)
(* the used counter, the deltas the workers buffer (accum_phys_used) and    *)
(* the frames releaseFreed has returned but not subtracted yet add up to    *)
(* the frames in use: buffering and flushing from several fibers loses      *)
(* nothing.  What the workers deduct from their deficit                     *)
(* (evict_pages_inflight) is what they reserved together and still mean to  *)
(* evict.  The branch of release_free_bid that returns a frame to the       *)
(* shared pools is never needed: no list outgrows the refill target.        *)
CountersAddUp ==
    /\ TypeOK
    /\ FreeFrames + UsedFrames = PageCount
    /\ U64(physUsed + SumFunction(delta)) = U64(UsedFrames + SumFunction(freed))
    /\ inflight = SumFunction(reserved)
    /\ \A w \in Workers : local[w] <= RefillTarget

(* A fiber is in one queue at most, and exactly when it waits for a frame:  *)
(* wait_for_free_bid, release_free_bid, evict and the drain by other        *)
(* workers never forget a fiber or wake it twice.                           *)
WaitersAreParked ==
    \A f \in Fibers :
        LET places == {<<w, i>> \in Workers \X (1 .. Cardinality(Fibers)) :
                          i <= Len(waiters[w]) /\ waiters[w][i] = f}
            takers == {w \in Workers : Contains(out[w], f)}
        IN Cardinality(places) + Cardinality(takers) = IF pc[f] = "parked" THEN 1 ELSE 0

(* A fiber is in a ready queue once while it may run, and never while it    *)
(* waits for a frame or for I/O.  For the eviction fiber that rests on      *)
(* SleepingFiber: it is queued by the first wakeup only, and it never parks *)
(* over a wakeup that came while it ran.                                    *)
InQueue(w, x) == Cardinality({i \in DOMAIN ready[w] : ready[w][i] = x})
ReadyOnce ==
    /\ \A f \in Fibers, w \in Workers :
          InQueue(w, f) = IF w = WorkerOf[f] /\ pc[f] \notin {"parked", "reading"} THEN 1 ELSE 0
    /\ \A w \in Workers :
          /\ InQueue(w, Evictor) = IF epc[w] \in {"parked", "writing"} THEN 0 ELSE 1
          /\ epc[w] = "parked" => ~eRunning[w] /\ ~ePending[w]

(* The comment at the trigger: it "is accurate even when physUsedCount      *)
(* hasn't been flushed yet".  An evictor whose worker is below the target,  *)
(* its own buffered frames included, does not give up.                      *)
TriggerIsAccurate ==
    [][\A w \in Workers :
          epc[w] = "reserve" /\ epc'[w] # "sweep" /\ epc' # epc =>
              U64(FreeOf(U64(physUsed + delta[w])) + inflight) >= FreeTarget]_vars
=============================================================================
