----------------------------- MODULE FiberPool ------------------------------
(***************************************************************************)
(* The single-threaded buffer manager (buffer_mgr/bm.cpp, bm.hpp) on its   *)
(* fiber reactor (buffer_mgr/kuring.hpp, UringReactor): accesses to pages, *)
(* page faults, waiting for another fiber's read, allocation, eviction     *)
(* with write-back, the batching of submissions, the completion queue and  *)
(* the scheduling loop.                                                    *)
(*                                                                         *)
(* One thread runs everything, and fibers interleave only where they yield *)
(* or park.  A page is fixed and unfixed without either in between, so an  *)
(* access is part of one step: from a resumption to the next yield or park.*)
(* Frames are counted: a page keeps its frame from insert to erase, and    *)
(* nothing here depends on which one it is.  The content of a page is the  *)
(* parity of the writes to it.  The sweep meets the pages in any order;    *)
(* the code's order is that of the slots of RobinHood.                     *)
(***************************************************************************)
EXTENDS Integers, Sequences, FiniteSets, Functions

CONSTANTS
    Clients,       \* the transaction fibers, or the one fiber of the loader
    TotalIoFibers, \* total_io_fibers, cfg.concurrency
    Evictor,       \* the eviction fiber
    NumPages,      \* pages besides the metadata page, resident or not
    OnDisk,        \* those that exist at the start; the others are allocated
    NumFrames,     \* page_count
    FreeTarget,    \* page_count * cfg.free_target
    EvictBatch,    \* cfg.evict_batch
    MaxFibers,     \* MAX_FIBERS, the last index of the table of exponentials
    MaxOps         \* bound: accesses that clients start

Meta == 0                              \* metadataPageId
Pids == 0 .. NumPages
NoPid == -1
Garbage == -1                          \* a frame before its page is read
Contents == {Garbage, 0, 1}

ASSUME ClientAssumption == IsFiniteSet(Clients) /\ Clients # {} /\ Evictor \notin Clients
ASSUME SizeAssumption ==
    /\ NumPages \in Nat /\ NumFrames \in Nat \ {0} /\ FreeTarget \in Nat
    /\ EvictBatch \in Nat \ {0} /\ MaxOps \in Nat
    /\ OnDisk \subseteq 1 .. NumPages
    /\ MaxFibers \in Nat /\ TotalIoFibers \in Cardinality(Clients) .. MaxFibers

VARIABLES
    ready,        \* ready_: fibers that may run, oldest first
    turn,         \* fibers still to be resumed before the queue is drained
    at,           \* where a fiber continues
    want,         \* page and mode a client is after; NoPid for a new page
    ops,          \* accesses started
    table,        \* page_table: the flags of the resident pages
    free,         \* freeList.size()
    waiting,      \* the fibers behind the reader in BufferFrame::waiting
    mem, disk,    \* content of the resident pages, and of the device
    committed,    \* ghost: the content the clients were told of
    allocated,    \* pages below allocCount
    toEvict, toWrite,
    running,      \* SleepingFiber::running
    toSubmit, sinceFirst,   \* to_submit, fibers_since_first_io
    queued, inflight,       \* I/O prepared, and submitted to the device
    cq            \* the completion queue

poolVars == <<table, free, waiting, allocated>>
dataVars == <<mem, disk, committed>>
ioVars == <<toSubmit, sinceFirst, queued, inflight>>
evictVars == <<toEvict, toWrite>>
vars == <<ready, turn, at, want, ops, poolVars, dataVars, ioVars, evictVars, running, cq>>

Fibers == Clients \cup {Evictor}
Flags == [dirty : BOOLEAN, evicting : BOOLEAN, io_lock : BOOLEAN, marked : BOOLEAN]
IO == [op : Fibers, pid : Pids]        \* read by a client, write by the evictor
Wants == [pid : Pids \cup {NoPid}, mode : {"S", "X", "A"}]
Nothing == [pid |-> NoPid, mode |-> "S"]

Resident == DOMAIN table
With(f, p, v) == [q \in DOMAIN f \cup {p} |-> IF q = p THEN v ELSE f[q]]
IsFunctionTo(f, S) == \A x \in DOMAIN f : f[x] \in S

(* Every variable keeps its type; an operation's record names a fiber and a *)
(* page, and a page has flags exactly while it is resident.                 *)
TypeOK ==
    /\ ready \in Seq(Fibers) /\ turn \in 0 .. Cardinality(Fibers)
    /\ at \in [Fibers -> {"start", "retry", "reading", "loop", "claimed", "written"}]
    /\ want \in [Clients -> Wants] /\ ops \in 0 .. MaxOps
    /\ Resident \subseteq Pids /\ IsFunctionTo(table, Flags)
    /\ DOMAIN waiting = Resident /\ IsFunctionTo(waiting, Seq(Clients))
    /\ DOMAIN mem = Resident /\ IsFunctionTo(mem, Contents)
    /\ disk \in [Pids -> Contents] /\ committed \in [Pids -> Contents]
    /\ free \in 0 .. NumFrames /\ allocated \subseteq Pids
    /\ toEvict \subseteq Pids /\ toWrite \subseteq Pids
    /\ toSubmit \in Nat /\ sinceFirst \in Nat
    /\ queued \subseteq IO /\ inflight \subseteq IO /\ cq \in Seq(IO)
    /\ running \in BOOLEAN

Init ==
    /\ \E spawned \in Injection(1 .. Cardinality(Clients), Clients) : ready = <<Evictor>> \o spawned
    /\ turn = Cardinality(Fibers)
    /\ at = [f \in Fibers |-> IF f = Evictor THEN "loop" ELSE "start"]
    /\ want = [f \in Clients |-> Nothing] /\ ops = 0
    /\ table = [p \in {Meta} |-> [dirty |-> TRUE, evicting |-> FALSE, io_lock |-> FALSE, marked |-> TRUE]]
    /\ waiting = [p \in {Meta} |-> <<>>] /\ mem = [p \in {Meta} |-> 0]
    /\ disk = [p \in Pids |-> IF p \in OnDisk THEN 0 ELSE Garbage]
    /\ committed = [p \in Pids |-> IF p \in OnDisk \cup {Meta} THEN 0 ELSE Garbage]
    /\ free = NumFrames - 1 /\ allocated = OnDisk \cup {Meta}
    /\ toEvict = {} /\ toWrite = {} /\ running = TRUE
    /\ toSubmit = 0 /\ sinceFirst = 0 /\ queued = {} /\ inflight = {} /\ cq = <<>>

-----------------------------------------------------------------------------
(* The fiber at the head of ready_ runs until it yields or parks. *)
Runs(f) == turn > 0 /\ Head(ready) = f

Yield(f, woken) == ready' = Append(Tail(ready) \o woken, f) /\ turn' = turn - 1
Park(woken) == ready' = Tail(ready) \o woken /\ turn' = turn - 1

(* SleepingFiber::wakeup as ensureFreePages calls it: the evictor, if it is *)
(* asleep and frames are short.                                             *)
ensureFreePages == IF free <= FreeTarget /\ ~running THEN <<Evictor>> ELSE <<>>
AwakeAfter(woken) == running' = (running \/ woken # <<>>)

(* check_submit over the prepared I/O q, with to_submit n: everything is    *)
(* submitted once every fiber has passed, for certain once enough of them   *)
(* have passed without I/O, and at random before that.                      *)
MustSubmit(n, s) == s = TotalIoFibers \/ s - n >= TotalIoFibers \div 4

check_submit(q, n) ==
    \/ /\ n = 0
       /\ UNCHANGED ioVars
    \/ /\ n > 0
       /\ toSubmit' = 0 /\ sinceFirst' = 0 /\ queued' = {} /\ inflight' = inflight \cup q
    \/ /\ n > 0 /\ ~MustSubmit(n, sinceFirst + 1)
       /\ toSubmit' = n /\ sinceFirst' = sinceFirst + 1 /\ queued' = q
       /\ UNCHANGED inflight

Touched(t, p, mode) ==
    [t EXCEPT ![p].marked = TRUE, ![p].dirty = @ \/ mode = "X"]

(* What a client's attempt finds.  It has fixed the metadata page first,    *)
(* and past the bound it only does that.                                    *)
Attempt(f, w) ==
    /\ Runs(f)
    /\ \/ at[f] = "retry" /\ w = want[f] /\ UNCHANGED ops
       \/ at[f] = "start" /\ ops = MaxOps /\ w = [pid |-> Meta, mode |-> "S"] /\ UNCHANGED ops
       \/ /\ at[f] = "start" /\ ops < MaxOps /\ ops' = ops + 1
          /\ \/ w.mode \in {"S", "X"} /\ w.pid \in allocated \ {Meta}
             \/ w.mode = "A" /\ w.pid = NoPid /\ allocated # Pids

Marked(t) == Touched(t, Meta, "S")

(* A hit: fix, use and unfix the page; then the transaction ends. *)
Access(f, w) ==
    /\ Attempt(f, w) /\ w.pid \in Resident /\ ~table[w.pid].io_lock
    /\ table' = Touched(Marked(table), w.pid, w.mode)
    /\ mem' = IF w.mode = "X" THEN [mem EXCEPT ![w.pid] = 1 - @] ELSE mem
    /\ committed' = IF w.mode = "X" THEN [committed EXCEPT ![w.pid] = 1 - @] ELSE committed
    /\ check_submit(queued, toSubmit)
    /\ at' = [at EXCEPT ![f] = "start"] /\ want' = [want EXCEPT ![f] = Nothing]
    /\ Yield(f, <<>>)
    /\ UNCHANGED <<free, waiting, allocated, disk, evictVars, running, cq>>

(* allocPage, when a frame is free: the new page is dirty from the start. *)
allocPage(f, w) ==
    /\ Attempt(f, w) /\ w.mode = "A" /\ free > 0
    /\ \E p \in Pids \ allocated :
         /\ \A q \in Pids \ allocated : p <= q
         /\ allocated' = allocated \cup {p}
         /\ table' = With(Marked(table), p, [dirty |-> TRUE, evicting |-> FALSE,
                                              io_lock |-> FALSE, marked |-> TRUE])
         /\ waiting' = With(waiting, p, <<>>)
         /\ mem' = With(mem, p, 0) /\ committed' = [committed EXCEPT ![p] = 0]
    /\ free' = free - 1
    /\ check_submit(queued, toSubmit)
    /\ at' = [at EXCEPT ![f] = "start"] /\ want' = [want EXCEPT ![f] = Nothing]
    /\ Yield(f, ensureFreePages) /\ AwakeAfter(ensureFreePages)
    /\ UNCHANGED <<disk, evictVars, cq>>

(* allocPage or handleFault with no frame free: wake the evictor, yield and *)
(* try again.                                                               *)
NoFrame(f, w) ==
    /\ Attempt(f, w) /\ free = 0 /\ w.pid \notin Resident
    /\ table' = Marked(table)
    /\ at' = [at EXCEPT ![f] = "retry"] /\ want' = [want EXCEPT ![f] = w]
    /\ Yield(f, ensureFreePages) /\ AwakeAfter(ensureFreePages)
    /\ UNCHANGED <<free, waiting, allocated, dataVars, ioVars, evictVars, cq>>

(* handleFault up to the park in io(). *)
handleFault(f, w) ==
    /\ Attempt(f, w) /\ w.pid \notin Resident /\ w.mode # "A" /\ free > 0
    /\ free' = free - 1
    /\ table' = With(Marked(table), w.pid, [dirty |-> FALSE, evicting |-> FALSE,
                                             io_lock |-> TRUE, marked |-> TRUE])
    /\ waiting' = With(waiting, w.pid, <<>>)
    /\ mem' = With(mem, w.pid, Garbage)
    /\ check_submit(queued \cup {[op |-> f, pid |-> w.pid]}, toSubmit + 1)
    /\ at' = [at EXCEPT ![f] = "reading"] /\ want' = [want EXCEPT ![f] = w]
    /\ Park(ensureFreePages) /\ AwakeAfter(ensureFreePages)
    /\ UNCHANGED <<allocated, disk, committed, evictVars, cq>>

(* Faulty variant of ReadDone: it wakes one fiber. *)
ReadDoneWakesOne(f) ==
    /\ Runs(f) /\ at[f] = "reading"
    /\ LET p == want[f].pid IN
       /\ ready' = ready \o SubSeq(waiting[p], 1, 1)
       /\ waiting' = [waiting EXCEPT ![p] = <<>>]
       /\ table' = [table EXCEPT ![p].io_lock = FALSE]
    /\ at' = [at EXCEPT ![f] = "retry"]
    /\ UNCHANGED <<turn, want, ops, free, allocated, dataVars, ioVars, evictVars, running, cq>>

(* The rest of handleFault: wake the fibers behind the reader, newest first, *)
(* and open the page.  The reader goes on to its next attempt.               *)
ReadDone(f) ==
    /\ Runs(f) /\ at[f] = "reading"
    /\ LET p == want[f].pid IN
       /\ ready' = ready \o waiting[p]
       /\ waiting' = [waiting EXCEPT ![p] = <<>>]
       /\ table' = [table EXCEPT ![p].io_lock = FALSE]
    /\ at' = [at EXCEPT ![f] = "retry"]
    /\ UNCHANGED <<turn, want, ops, free, allocated, dataVars, ioVars, evictVars, running, cq>>

(* handleWait: join the fibers behind the reader and park. *)
handleWait(f, w) ==
    /\ Attempt(f, w) /\ w.pid \in Resident /\ table[w.pid].io_lock
    /\ table' = Marked(table)
    /\ waiting' = [waiting EXCEPT ![w.pid] = <<f>> \o @]
    /\ at' = [at EXCEPT ![f] = "retry"] /\ want' = [want EXCEPT ![f] = w]
    /\ Park(<<>>)
    /\ UNCHANGED <<free, allocated, dataVars, ioVars, evictVars, running, cq>>

-----------------------------------------------------------------------------
(* The pages a sweep meets before it stops: all of them, or as many as it   *)
(* takes to fill the batch with claims.                                     *)
Claimable(V) == {p \in V : ~table[p].io_lock /\ ~table[p].evicting /\ ~table[p].marked}
Visits(V) == \/ V = Resident /\ Cardinality(Claimable(V)) <= EvictBatch
             \/ Cardinality(Claimable(V)) = EvictBatch

(* The eviction fiber's loop: park with enough free frames. *)
Rest ==
    /\ Runs(Evictor) /\ at[Evictor] = "loop" /\ free > FreeTarget
    /\ running' = FALSE
    /\ Park(<<>>)
    /\ UNCHANGED <<at, want, ops, poolVars, dataVars, ioVars, evictVars, cq>>

(* evict: the sweep.  A sweep that would claim the metadata page ends the   *)
(* program, in ensure(pid != 0).                                            *)
MustEvict == Runs(Evictor) /\ at[Evictor] = "loop" /\ free <= FreeTarget

Sweep(V) ==
    /\ MustEvict
    /\ Visits(V) /\ Meta \notin Claimable(V)
    /\ toWrite' = {p \in Claimable(V) : table[p].dirty}
    /\ toEvict' = Claimable(V) \ toWrite'
    /\ table' = [p \in Resident |->
                   IF p \in Claimable(V) THEN [table[p] EXCEPT !.evicting = TRUE, !.dirty = FALSE]
                   ELSE [table[p] EXCEPT !.marked = @ /\ (p \notin V \/ table[p].io_lock \/ table[p].evicting)]]
    /\ at' = [at EXCEPT ![Evictor] = "claimed"]
    /\ UNCHANGED <<ready, turn, want, ops, free, waiting, allocated, dataVars, ioVars, running, cq>>

(* io_batch: the writes are submitted at once, and with them every read     *)
(* that was prepared before.                                                *)
io_batch ==
    /\ Runs(Evictor) /\ at[Evictor] = "claimed" /\ toWrite # {}
    /\ inflight' = inflight \cup queued \cup {[op |-> Evictor, pid |-> p] : p \in toWrite}
    /\ queued' = {} /\ toSubmit' = 0 /\ sinceFirst' = 0
    /\ at' = [at EXCEPT ![Evictor] = "written"]
    /\ Park(<<>>)
    /\ UNCHANGED <<want, ops, poolVars, dataVars, evictVars, running, cq>>

(* Faulty variant of EvictNow: the frame of a page that stays is freed too. *)
EvictNowFreesKept ==
    /\ Runs(Evictor)
    /\ at[Evictor] = "written" \/ (at[Evictor] = "claimed" /\ toWrite = {})
    /\ LET gone == {p \in toEvict \cup toWrite : ~table[p].dirty}
           t == [p \in Resident |-> [table[p] EXCEPT !.evicting = @ /\ p \notin toEvict \cup toWrite]]
       IN  /\ table' = Restrict(t, Resident \ gone)
           /\ waiting' = Restrict(waiting, Resident \ gone)
           /\ mem' = Restrict(mem, Resident \ gone)
           /\ free' = free + Cardinality(toEvict \cup toWrite)
    /\ toEvict' = {} /\ toWrite' = {}
    /\ at' = [at EXCEPT ![Evictor] = "loop"]
    /\ UNCHANGED <<ready, turn, want, ops, allocated, disk, committed, ioVars, running, cq>>

(* Faulty variant of EvictNow: a page is dropped although it is dirty again. *)
EvictNowDropsDirty ==
    /\ Runs(Evictor)
    /\ at[Evictor] = "written" \/ (at[Evictor] = "claimed" /\ toWrite = {})
    /\ LET gone == toEvict \cup toWrite
           t == [p \in Resident |-> [table[p] EXCEPT !.evicting = @ /\ p \notin toEvict \cup toWrite]]
       IN  /\ table' = Restrict(t, Resident \ gone)
           /\ waiting' = Restrict(waiting, Resident \ gone)
           /\ mem' = Restrict(mem, Resident \ gone)
           /\ free' = free + Cardinality(gone)
    /\ toEvict' = {} /\ toWrite' = {}
    /\ at' = [at EXCEPT ![Evictor] = "loop"]
    /\ UNCHANGED <<ready, turn, want, ops, allocated, disk, committed, ioVars, running, cq>>

(* evictNow on every claimed page: one that became dirty again stays. *)
EvictNow ==
    /\ Runs(Evictor)
    /\ at[Evictor] = "written" \/ (at[Evictor] = "claimed" /\ toWrite = {})
    /\ LET gone == {p \in toEvict \cup toWrite : ~table[p].dirty}
           t == [p \in Resident |-> [table[p] EXCEPT !.evicting = @ /\ p \notin toEvict \cup toWrite]]
       IN  /\ table' = Restrict(t, Resident \ gone)
           /\ waiting' = Restrict(waiting, Resident \ gone)
           /\ mem' = Restrict(mem, Resident \ gone)
           /\ free' = free + Cardinality(gone)
    /\ toEvict' = {} /\ toWrite' = {}
    /\ at' = [at EXCEPT ![Evictor] = "loop"]
    /\ UNCHANGED <<ready, turn, want, ops, allocated, disk, committed, ioVars, running, cq>>

-----------------------------------------------------------------------------
(* The device completes a read into the frame or a write from it. *)
Device(io) ==
    /\ io \in inflight
    /\ inflight' = inflight \ {io} /\ cq' = Append(cq, io)
    /\ IF io.op = Evictor THEN disk' = [disk EXCEPT ![io.pid] = mem[io.pid]] /\ UNCHANGED mem
       ELSE mem' = [mem EXCEPT ![io.pid] = disk[io.pid]] /\ UNCHANGED disk
    /\ UNCHANGED <<ready, turn, at, want, ops, poolVars, committed, toSubmit, sinceFirst, queued,
                   evictVars, running>>

(* drain_cqe, when every fiber that was ready has run: a fiber is woken by  *)
(* the last completion of its operation.                                    *)
LastOfOp(i) ==
    /\ \A j \in i + 1 .. Len(cq) : cq[j].op # cq[i].op
    /\ \A io \in inflight \cup queued : io.op # cq[i].op

Ascending(S) ==
    {s \in [1 .. Cardinality(S) -> S] : \A i, j \in DOMAIN s : i < j => s[i] < s[j]}

drain_cqe ==
    /\ turn = 0 /\ (ready # <<>> \/ cq # <<>>)
    /\ \E last \in Ascending({i \in DOMAIN cq : LastOfOp(i)}) :
          ready' = ready \o [k \in DOMAIN last |-> cq[last[k]].op]
    /\ turn' = Len(ready') /\ cq' = <<>>
    /\ UNCHANGED <<at, want, ops, poolVars, dataVars, ioVars, evictVars, running>>

Client(f) ==
    \/ \E w \in Wants : \/ Access(f, w) \/ allocPage(f, w) \/ NoFrame(f, w)
                        \/ handleFault(f, w) \/ handleWait(f, w)
    \/ ReadDone(f)
EvictorStep == Rest \/ io_batch \/ EvictNow \/ \E V \in SUBSET Resident : Sweep(V)

Next ==
    \/ \E f \in Clients : Client(f)
    \/ EvictorStep \/ drain_cqe
    \/ \E io \in inflight : Device(io)

Spec == Init /\ [][Next]_vars

-----------------------------------------------------------------------------
(* No write is lost.  A resident page that is open to fixS holds what was   *)
(* last written to it, even while it is written back; a page that is clean  *)
(* and not claimed, or not resident, is on the device as it was last        *)
(* written.  So evictNow may drop every claimed page that is still clean.   *)
NoWriteLost ==
    \A p \in allocated :
        IF p \in Resident
        THEN /\ ~table[p].io_lock => mem[p] = committed[p]
             /\ ~table[p].dirty /\ p \notin toWrite => disk[p] = committed[p]
        ELSE disk[p] = committed[p]

(* Every frame is free or holds one page.  to_submit counts the prepared    *)
(* I/O, and no prepared I/O stays for more than total_io_fibers calls of    *)
(* check_submit, which are counted anew for every batch.  The difference of *)
(* the two counters, its index into the table of exponentials, is never     *)
(* negative.                                                                *)
CountsAddUp ==
    /\ TypeOK
    /\ free + Cardinality(Resident) = NumFrames
    /\ toSubmit = Cardinality(queued)
    /\ toSubmit = 0 <=> sinceFirst = 0
    /\ sinceFirst < TotalIoFibers
    /\ sinceFirst - toSubmit \in 0 .. MaxFibers

(* A fiber that is not ready is parked where something will wake it: on its *)
(* own read, behind the reader of a page whose read is not done, on its     *)
(* writes, or asleep with running false.  No fiber is in two such places.   *)
Outstanding == {io.op : io \in queued \cup inflight \cup Range(cq)}
Behind(p) == Range(waiting[p])
ParkedIsWoken ==
    \A f \in Fibers :
        \/ /\ f \in Range(ready)
           /\ f \notin Outstanding
           /\ \A p \in Resident : f \notin Behind(p)
           /\ \A i, j \in DOMAIN ready : ready[i] = f /\ ready[j] = f => i = j
        \/ f \notin Range(ready) /\ f = Evictor /\ running /\ f \in Outstanding
        \/ f \notin Range(ready) /\ f = Evictor /\ ~running /\ f \notin Outstanding
        \/ f \notin Range(ready) /\ f # Evictor /\ f \in Outstanding
        \/ /\ f \notin Range(ready) \cup Outstanding
           /\ \E p \in Resident : /\ f \in Behind(p) /\ table[p].io_lock
                                  /\ \E r \in Clients : want[r].pid = p /\ at[r] = "reading"

(* bm.cpp:492 asserts that the sweep never claims the metadata page.  When  *)
(* the evictor needs frames, some order of the slots lets it keep this.     *)
MetadataPageStays ==
    MustEvict => \E V \in SUBSET Resident : Visits(V) /\ Meta \notin Claimable(V)

=============================================================================
