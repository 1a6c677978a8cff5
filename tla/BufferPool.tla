----------------------------- MODULE BufferPool -----------------------------
(***************************************************************************)
(* Fixing, loading, allocating and evicting pages in the multithreaded     *)
(* buffer manager (mt/bm.cpp, mt/guards.hpp).                              *)
(*                                                                         *)
(* A worker is one OS thread that runs client fibers and one eviction      *)
(* fiber, one at a time: running[w] is the fiber on the thread, and only a *)
(* yield, a park or an I/O wait lets another one run.  Threads of          *)
(* different workers interleave at every atomic access.  A fiber that the  *)
(* code parks (waiting for an I/O or a free frame) is here one that yields *)
(* and tries again; FrameWaiters and WakeMatrix model the parking itself.  *)
(*                                                                         *)
(* The page table is a map from PIDs to BIDs whose operations are atomic;  *)
(* AtomicPageTable models its slots.  Page 0, the metadata page, is never  *)
(* evicted (sweep_cb) and is left out.                                     *)
(***************************************************************************)
EXTENDS PageState, FiniteSets

CONSTANTS
    Workers, Fibers, WorkerOf,   \* client fibers and the worker of each
    Evictor, Idle,               \* the eviction fiber; no fiber on the thread
    NumPids,                     \* pages 1 .. NumPids
    InitAlloc,                   \* pages below it exist at the start, on disk
    Bids,                        \* buffer frames (other than that of page 0)
    NoBid,                       \* the page table has no entry
    OwnerOf,                     \* the worker whose sweep visits a page
    Modes,                       \* what clients do: S, X, O (optimistic), A (alloc)
    Batch,                       \* cfg.evict_batch
    FreeTarget,                  \* fewer free frames than this start an eviction
    MaxOps,                      \* bound: operations of all clients
    MaxVersion                   \* bound: a frame of this version is not rebound

Pids == 1 .. NumPids
NoPid == 0                       \* ~0ull, the pid of a frame never bound

ASSUME WorkerAssumption == WorkerOf \in [Fibers -> Workers]
ASSUME ActorAssumption == Evictor \notin Fibers /\ Idle \notin Fibers /\ Evictor # Idle
ASSUME PidAssumption == NumPids \in Nat /\ InitAlloc \in 1 .. NumPids + 1
ASSUME BidAssumption == NoBid \notin Bids
ASSUME OwnerAssumption == OwnerOf \in [Pids -> Workers]
ASSUME ModeAssumption == Modes \subseteq {"S", "X", "O", "A"}
ASSUME BoundAssumption == Batch \in Nat \ {0} /\ FreeTarget \in Nat /\ MaxOps \in Nat /\ MaxVersion \in Nat

VARIABLES
    running,      \* the fiber on the thread of a worker
    pc,           \* next step of a client
    mode,         \* S, X, O or A
    policy,       \* LockConflictPolicy
    exact,        \* the fix names the frame: GuardO handed over
    pid, bid,     \* page and frame of the client's fix
    seen,         \* the word it loaded
    version,      \* version of its GuardO
    observed,     \* ghost: writes made to the page when its GuardO was taken
    ops,          \* operations started so far
    page_table,   \* PID -> BID
    meta,         \* resident_meta
    framePid,     \* buffer_frames[bid].pid
    free,         \* frames in the free lists
    allocCount,   \* next new PID
    linked,       \* pages a client can know of
    data,         \* content of a frame
    disk,         \* content of a page on disk
    committed,    \* ghost: number of writes made to a page
    epc,          \* next step of an evictor
    budget,       \* reserved_budget
    unvisited,    \* owned pages the sweep has not reached
    victim,       \* the frame it looks at
    toEvict, toWrite, \* claimed frames: clean ones, ones to write back
    unwritten,    \* frames of toWrite the device has not copied yet
    freed         \* evict_retired: erased from the table, not yet released

fixVars == <<mode, policy, exact, pid, bid, seen, version, observed>>
clientVars == <<pc, fixVars, ops>>
poolVars == <<page_table, meta, framePid, free>>
allocVars == <<allocCount, linked>>
dataVars == <<data, disk, committed>>
evictVars == <<epc, budget, unvisited, victim, toEvict, toWrite, unwritten, freed>>
vars == <<running, clientVars, poolVars, allocVars, dataVars, evictVars>>

ClientStates ==
    {"idle", "lookup", "load", "flags", "cas", "recheck", "hold", "guard",
     "wrote", "unlocking", "fault", "alloc", "bind", "setFlag", "setPid", "insert", "undo",
     "giveBack", "reading", "readDone", "unlock"}
EvictorStates ==
    {"sleep", "sweep", "unmark", "claim", "collect", "writing",
     "evictClean", "evictWritten", "erase", "commit"}

(* What a page holds: which page it is and how many writes it has seen. *)
Content == [page : 0 .. NumPids, writes : Nat]
Fresh(p) == [page |-> p, writes |-> 0]

ThreadTypes ==
    /\ running \in [Workers -> Fibers \cup {Evictor, Idle}]
    /\ pc \in [Fibers -> ClientStates]
    /\ epc \in [Workers -> EvictorStates]
FixTypes ==
    /\ mode \in [Fibers -> {"S", "X", "O", "A"}]
    /\ policy \in [Fibers -> {"Wait", "Restart"}]
    /\ exact \in [Fibers -> BOOLEAN]
    /\ pid \in [Fibers -> 0 .. NumPids]
    /\ bid \in [Fibers -> Bids \cup {NoBid}]
    /\ seen \in [Fibers -> Word]
    /\ version \in [Fibers -> 0 .. VersionLimit - 1]
    /\ observed \in [Fibers -> Nat]
    /\ ops \in 0 .. MaxOps
PoolTypes ==
    /\ page_table \in [Pids -> Bids \cup {NoBid}]
    /\ meta \in [Bids -> Word]
    /\ framePid \in [Bids -> 0 .. NumPids]
    /\ free \in SUBSET Bids
AllocTypes ==
    /\ allocCount \in 1 .. NumPids + 1
    /\ linked \in SUBSET Pids
DataTypes ==
    /\ data \in [Bids -> Content]
    /\ disk \in [Pids -> Content]
    /\ committed \in [Pids -> Nat]
EvictTypes ==
    /\ budget \in [Workers -> 0 .. Batch]
    /\ unvisited \in [Workers -> SUBSET Pids]
    /\ victim \in [Workers -> Bids \cup {NoBid}]
    /\ toEvict \in [Workers -> SUBSET Bids]
    /\ toWrite \in [Workers -> SUBSET Bids]
    /\ unwritten \in [Workers -> SUBSET Bids]
    /\ freed \in [Workers -> SUBSET Bids]

(* Every variable keeps its type; in particular the free lists, the table   *)
(* and the evictors' lists hold frames only, and words stay words (the mode *)
(* within 8 bits, the version below its limit).                             *)
TypeOK ==
    ThreadTypes /\ FixTypes /\ PoolTypes /\ AllocTypes /\ DataTypes /\ EvictTypes

Init ==
    /\ running = [w \in Workers |-> Idle]
    /\ pc = [f \in Fibers |-> "idle"]
    /\ mode = [f \in Fibers |-> "S"]
    /\ policy = [f \in Fibers |-> "Wait"]
    /\ exact = [f \in Fibers |-> FALSE]
    /\ pid = [f \in Fibers |-> NoPid]
    /\ bid = [f \in Fibers |-> NoBid]
    /\ seen = [f \in Fibers |-> ZeroWord]
    /\ version = [f \in Fibers |-> 0]
    /\ observed = [f \in Fibers |-> 0]
    /\ ops = 0
    /\ page_table = [p \in Pids |-> NoBid]
    /\ meta = [b \in Bids |-> ZeroWord]
    /\ framePid = [b \in Bids |-> NoPid]
    /\ free = Bids
    /\ allocCount = InitAlloc
    /\ linked = 1 .. InitAlloc - 1
    /\ data = [b \in Bids |-> Fresh(NoPid)]
    /\ disk = [p \in Pids |-> Fresh(IF p < InitAlloc THEN p ELSE NoPid)]
    /\ committed = [p \in Pids |-> 0]
    /\ epc = [w \in Workers |-> "sleep"]
    /\ budget = [w \in Workers |-> 0]
    /\ unvisited = [w \in Workers |-> {}]
    /\ victim = [w \in Workers |-> NoBid]
    /\ toEvict = [w \in Workers |-> {}]
    /\ toWrite = [w \in Workers |-> {}]
    /\ unwritten = [w \in Workers |-> {}]
    /\ freed = [w \in Workers |-> {}]

-----------------------------------------------------------------------------
(* The threads. *)

On(f, label) == running[WorkerOf[f]] = f /\ pc[f] = label
Goto(f, label) == pc' = [pc EXCEPT ![f] = label] /\ UNCHANGED running
YieldTo(f, label) ==
    /\ pc' = [pc EXCEPT ![f] = label]
    /\ running' = [running EXCEPT ![WorkerOf[f]] = Idle]

EvictorOn(w, label) == running[w] = Evictor /\ epc[w] = label
EvictorGoto(w, label) == epc' = [epc EXCEPT ![w] = label] /\ UNCHANGED running
EvictorYieldTo(w, label) ==
    /\ epc' = [epc EXCEPT ![w] = label]
    /\ running' = [running EXCEPT ![w] = Idle]

(* The reactor resumes one of its fibers, in any order; not one whose I/O   *)
(* is in flight, and the evictor only when frames are short.                *)
Resume(w, f) ==
    /\ running[w] = Idle /\ WorkerOf[f] = w
    /\ pc[f] # "reading"
    /\ pc[f] = "idle" => ops < MaxOps
    /\ running' = [running EXCEPT ![w] = f]
    /\ UNCHANGED <<clientVars, poolVars, allocVars, dataVars, evictVars>>

ResumeEvictor(w) ==
    /\ running[w] = Idle
    /\ epc[w] # "writing"
    /\ epc[w] = "sleep" => Cardinality(free) < FreeTarget
    /\ running' = [running EXCEPT ![w] = Evictor]
    /\ UNCHANGED <<clientVars, poolVars, allocVars, dataVars, evictVars>>

-----------------------------------------------------------------------------
(* Fixing a page. *)

Begin(f, m, pol, p, label) ==
    /\ On(f, "idle") /\ m \in Modes /\ ops < MaxOps
    /\ mode' = [mode EXCEPT ![f] = m]
    /\ policy' = [policy EXCEPT ![f] = pol]
    /\ pid' = [pid EXCEPT ![f] = p]
    /\ ops' = ops + 1
    /\ Goto(f, label)
    /\ UNCHANGED <<exact, bid, seen, version, observed, poolVars, allocVars, dataVars, evictVars>>

FixS(f) == \E p \in linked : Begin(f, "S", "Wait", p, "lookup")
FixO(f) == \E p \in linked : Begin(f, "O", "Wait", p, "lookup")
FixX(f) == \E p \in linked, pol \in {"Wait", "Restart"} : Begin(f, "X", pol, p, "lookup")
AllocPage(f) == Begin(f, "A", "Restart", NoPid, "alloc")

(* The operation is over, or gives up with request_restart, whose handler   *)
(* yields before the caller starts again.                                   *)
Done(f) ==
    /\ YieldTo(f, "idle")
    /\ mode' = [mode EXCEPT ![f] = "S"]
    /\ policy' = [policy EXCEPT ![f] = "Wait"]
    /\ exact' = [exact EXCEPT ![f] = FALSE]
    /\ pid' = [pid EXCEPT ![f] = NoPid]
    /\ bid' = [bid EXCEPT ![f] = NoBid]
    /\ seen' = [seen EXCEPT ![f] = ZeroWord]
    /\ version' = [version EXCEPT ![f] = 0]
    /\ observed' = [observed EXCEPT ![f] = 0]

(* The frame holds another page: look the page up again. *)
PidChanged(f) ==
    IF exact[f] \/ policy[f] = "Restart" THEN Done(f)
    ELSE YieldTo(f, "lookup") /\ UNCHANGED fixVars

(* The frame is locked, in I/O or being evicted: wait and try again. *)
Conflict(f) ==
    IF policy[f] = "Restart" THEN Done(f)
    ELSE YieldTo(f, IF exact[f] THEN "load" ELSE "lookup") /\ UNCHANGED fixVars

(* A client that finds the bound on operations met leaves the thread. *)
Rest(f) ==
    /\ On(f, "idle") /\ ops = MaxOps
    /\ YieldTo(f, "idle")
    /\ UNCHANGED <<fixVars, ops, poolVars, allocVars, dataVars, evictVars>>

(* find_copy *)
Lookup(f) ==
    LET b == page_table[pid[f]] IN
    /\ On(f, "lookup")
    /\ Goto(f, IF b = NoBid THEN "fault" ELSE "load")
    /\ bid' = [bid EXCEPT ![f] = b]
    /\ UNCHANGED <<mode, policy, exact, pid, seen, version, observed, ops,
                   poolVars, allocVars, dataVars, evictVars>>

(* The checks of the pid and the load between them; fixO loads later. *)
Load(f) ==
    LET b == bid[f] IN
    /\ On(f, "load")
    /\ IF framePid[b] # pid[f] THEN PidChanged(f)
       ELSE IF exact[f] /\ meta[b].ver # version[f] THEN Done(f)
       ELSE /\ Goto(f, "flags")
            /\ seen' = [seen EXCEPT ![f] = meta[b]]
            /\ UNCHANGED <<mode, policy, exact, pid, bid, version, observed>>
    /\ UNCHANGED <<ops, poolVars, allocVars, dataVars, evictVars>>

(* Faulty variant of Flags: the evicting flag is not looked at. *)
FlagsIgnoreEvicting(f) ==
    /\ On(f, "flags")
    /\ IF meta[bid[f]].io THEN Conflict(f)
       ELSE Goto(f, "cas") /\ UNCHANGED fixVars
    /\ UNCHANGED <<ops, poolVars, allocVars, dataVars, evictVars>>

Flags(f) ==
    LET b == bid[f] IN
    /\ On(f, "flags")
    /\ IF meta[b].io \/ meta[b].evicting THEN Conflict(f)
       ELSE Goto(f, "cas") /\ UNCHANGED fixVars
    /\ UNCHANGED <<ops, poolVars, allocVars, dataVars, evictVars>>

(* try_lock_s, try_lock_x_dirty: compare-and-swap from the loaded word. *)
Lockable(f) == IF mode[f] = "S" THEN CanLockS(seen[f]) ELSE CanLockX(seen[f])
LockedWord(f) == IF mode[f] = "S" THEN lock_s(seen[f]) ELSE lock_x_dirty(seen[f])

Cas(f) ==
    LET b == bid[f] IN
    /\ On(f, "cas") /\ mode[f] # "O"
    /\ IF Lockable(f) /\ meta[b] = seen[f]
         THEN /\ meta' = [meta EXCEPT ![b] = LockedWord(f)]
              /\ Goto(f, "recheck") /\ UNCHANGED fixVars
         ELSE Conflict(f) /\ UNCHANGED meta
    /\ UNCHANGED <<ops, page_table, framePid, free, allocVars, dataVars, evictVars>>

(* resident_prepare_optimistic: an unlocked page becomes marked. *)
PrepareOptimistic(f) ==
    LET b == bid[f] IN
    /\ On(f, "cas") /\ mode[f] = "O"
    /\ IF CanReadOptimistically(meta[b])
         THEN /\ meta' = [meta EXCEPT ![b] = mark(@)]
              /\ seen' = [seen EXCEPT ![f] = mark(meta[b])]
              /\ version' = [version EXCEPT ![f] = meta[b].ver]
              /\ observed' = [observed EXCEPT ![f] = committed[pid[f]]]
              /\ Goto(f, "recheck")
              /\ UNCHANGED <<mode, policy, exact, pid, bid>>
         ELSE Conflict(f) /\ UNCHANGED meta
    /\ UNCHANGED <<ops, page_table, framePid, free, allocVars, dataVars, evictVars>>

(* The pid is checked once more after the lock was taken. *)
Recheck(f) ==
    LET b == bid[f] IN
    /\ On(f, "recheck")
    /\ IF framePid[b] = pid[f]
         THEN /\ Goto(f, IF mode[f] = "O" THEN "guard" ELSE "hold")
              /\ UNCHANGED <<fixVars, meta>>
         ELSE /\ meta' = [meta EXCEPT ![b] =
                    CASE mode[f] = "S" -> unlock_s(@)
                      [] mode[f] = "X" -> unlock_x(@)
                      [] OTHER -> @]
              /\ PidChanged(f)
    /\ UNCHANGED <<ops, page_table, framePid, free, allocVars, dataVars, evictVars>>

-----------------------------------------------------------------------------
(* A client with a fixed page. *)

Exclusive(f) == mode[f] \in {"X", "A"}

(* While it holds a page a fiber may fault on another one. *)
HoldYield(f) ==
    /\ \E label \in {"hold", "wrote", "guard"} : On(f, label) /\ YieldTo(f, label)
    /\ UNCHANGED <<fixVars, ops, poolVars, allocVars, dataVars, evictVars>>

WritePage(f) ==
    /\ On(f, "hold") /\ Exclusive(f)
    /\ data' = [data EXCEPT ![bid[f]].writes = @ + 1]
    /\ committed' = [committed EXCEPT ![pid[f]] = @ + 1]
    /\ Goto(f, "wrote")
    /\ UNCHANGED <<fixVars, ops, poolVars, allocVars, disk, evictVars>>

(* unfixS_bid, unfixX_bid: the ensure is the guard. *)
UnfixS(f) ==
    LET b == bid[f] IN
    /\ On(f, "hold") /\ mode[f] = "S"
    /\ meta[b].mode \in 1 .. MaxShared
    /\ meta' = [meta EXCEPT ![b] = unlock_s_marked(@)]
    /\ Done(f)
    /\ UNCHANGED <<ops, page_table, framePid, free, allocVars, dataVars, evictVars>>

UnfixX(f) ==
    LET b == bid[f] IN
    /\ On(f, "hold") \/ On(f, "wrote")
    /\ Exclusive(f)
    /\ meta[b].mode = Locked
    /\ meta' = [meta EXCEPT ![b].dirty = TRUE]
    /\ seen' = [seen EXCEPT ![f] = meta'[b]]
    /\ Goto(f, "unlocking")
    /\ UNCHANGED <<mode, policy, exact, pid, bid, version, observed, ops,
                   page_table, framePid, free, allocVars, dataVars, evictVars>>

(* unlock_x_marked stores the word derived from the one loaded: a flag an   *)
(* evictor sets in between is lost.                                         *)
StoreUnlocked(f) ==
    /\ On(f, "unlocking")
    /\ meta' = [meta EXCEPT ![bid[f]] = unlock_x_marked(seen[f])]
    /\ linked' = linked \cup {pid[f]}
    /\ Done(f)
    /\ UNCHANGED <<ops, page_table, framePid, free, allocCount, dataVars, evictVars>>

(* validateO *)
Valid(f) ==
    LET m == meta[bid[f]] IN
    /\ framePid[bid[f]] = pid[f]
    /\ ~m.io /\ ~m.evicting
    /\ \/ m = seen[f]
       \/ m.ver = version[f] /\ (m.mode <= MaxShared \/ m.mode = Marked)

Validate(f) ==
    /\ On(f, "guard")
    /\ IF Valid(f) THEN YieldTo(f, "guard") /\ UNCHANGED fixVars ELSE Done(f)
    /\ UNCHANGED <<ops, poolVars, allocVars, dataVars, evictVars>>

ReleaseGuard(f) ==
    /\ On(f, "guard") /\ Done(f)
    /\ UNCHANGED <<ops, poolVars, allocVars, dataVars, evictVars>>

(* GuardS(GuardO&&) and GuardX(GuardO&&, policy) name the frame. *)
Handover(f) ==
    /\ On(f, "guard")
    /\ \E to \in {[mode |-> "S", policy |-> "Restart"],
                  [mode |-> "X", policy |-> "Wait"], [mode |-> "X", policy |-> "Restart"]} :
          /\ to.mode \in Modes
          /\ mode' = [mode EXCEPT ![f] = to.mode]
          /\ policy' = [policy EXCEPT ![f] = to.policy]
    /\ exact' = [exact EXCEPT ![f] = TRUE]
    /\ Goto(f, "load")
    /\ UNCHANGED <<pid, bid, seen, version, observed, ops, poolVars, allocVars, dataVars, evictVars>>

-----------------------------------------------------------------------------
(* handleFault and allocPage: a free frame is bound to the page. *)

Available == {b \in free : meta[b].ver < MaxVersion}

Take(f, b) ==
    /\ b \in Available
    /\ free' = free \ {b}
    /\ bid' = [bid EXCEPT ![f] = b]
    /\ Goto(f, "bind")

Fault(f) ==
    LET b == page_table[pid[f]] IN
    /\ On(f, "fault")
    /\ \/ /\ b # NoBid
          /\ IF meta[b].io \/ meta[b].evicting THEN YieldTo(f, "lookup") ELSE Goto(f, "lookup")
          /\ UNCHANGED <<bid, free>>
       \/ /\ b = NoBid /\ Available = {}
          /\ YieldTo(f, "fault")
          /\ UNCHANGED <<bid, free>>
       \/ b = NoBid /\ \E c \in Bids : Take(f, c)
    /\ UNCHANGED <<mode, policy, exact, pid, seen, version, observed, ops, page_table, meta, framePid,
                   allocVars, dataVars, evictVars>>

(* AllocException when there is no frame (or the bound on pages is met). *)
Alloc(f) ==
    /\ On(f, "alloc")
    /\ IF Available = {} \/ allocCount > NumPids
         THEN Done(f) /\ UNCHANGED <<free, allocCount>>
         ELSE /\ \E b \in Bids : Take(f, b)
              /\ pid' = [pid EXCEPT ![f] = allocCount]
              /\ allocCount' = allocCount + 1
              /\ UNCHANGED <<mode, policy, exact, seen, version, observed>>
    /\ UNCHANGED <<ops, page_table, meta, framePid, linked, dataVars, evictVars>>

Bind(f) ==
    /\ On(f, "bind")
    /\ meta' = [meta EXCEPT ![bid[f]] = rebind_locked(@)]
    /\ Goto(f, "setFlag")
    /\ UNCHANGED <<fixVars, ops, page_table, framePid, free, allocVars, dataVars, evictVars>>

(* set_io_in_progress(true) for a read, set_dirty(true) for a new page. *)
SetFlag(f) ==
    /\ On(f, "setFlag")
    /\ meta' = [meta EXCEPT ![bid[f]] =
          IF mode[f] = "A" THEN [@ EXCEPT !.dirty = TRUE] ELSE [@ EXCEPT !.io = TRUE]]
    /\ Goto(f, "setPid")
    /\ UNCHANGED <<fixVars, ops, page_table, framePid, free, allocVars, dataVars, evictVars>>

SetPid(f) ==
    /\ On(f, "setPid")
    /\ framePid' = [framePid EXCEPT ![bid[f]] = pid[f]]
    /\ Goto(f, "insert")
    /\ UNCHANGED <<fixVars, ops, page_table, meta, free, allocVars, dataVars, evictVars>>

(* Faulty variant of Insert: overwrites the entry of another fiber. *)
InsertOverwrites(f) ==
    /\ On(f, "insert")
    /\ page_table' = [page_table EXCEPT ![pid[f]] = bid[f]]
    /\ IF mode[f] = "A"
         THEN /\ data' = [data EXCEPT ![bid[f]] = Fresh(pid[f])]
              /\ Goto(f, "hold")
         ELSE YieldTo(f, "reading") /\ UNCHANGED data
    /\ UNCHANGED <<fixVars, ops, meta, framePid, free, allocVars, disk, committed, evictVars>>

(* Of the fibers that fault on a page one inserts it and reads it. *)
Insert(f) ==
    LET p == pid[f] IN
    /\ On(f, "insert")
    /\ IF page_table[p] # NoBid
         THEN Goto(f, "undo") /\ UNCHANGED <<page_table, data>>
         ELSE /\ page_table' = [page_table EXCEPT ![p] = bid[f]]
              /\ IF mode[f] = "A"
                   THEN /\ data' = [data EXCEPT ![bid[f]] = Fresh(p)]
                        /\ Goto(f, "hold")
                   ELSE YieldTo(f, "reading") /\ UNCHANGED data
    /\ UNCHANGED <<fixVars, ops, meta, framePid, free, allocVars, disk, committed, evictVars>>

Undo(f) ==
    /\ On(f, "undo")
    /\ meta' = [meta EXCEPT ![bid[f]] = rebind_unlocked(@)]
    /\ Goto(f, "giveBack")
    /\ UNCHANGED <<fixVars, ops, page_table, framePid, free, allocVars, dataVars, evictVars>>

(* Faulty variant of GiveBack: the loser of the insert keeps its frame. *)
GiveBackForgotten(f) ==
    /\ On(f, "giveBack")
    /\ bid' = [bid EXCEPT ![f] = NoBid]
    /\ YieldTo(f, "lookup")
    /\ UNCHANGED <<mode, policy, exact, pid, seen, version, observed, ops,
                   poolVars, allocVars, dataVars, evictVars>>

GiveBack(f) ==
    LET winner == page_table[pid[f]] IN
    /\ On(f, "giveBack")
    /\ free' = free \cup {bid[f]}
    /\ bid' = [bid EXCEPT ![f] = NoBid]
    /\ IF winner # NoBid /\ ~meta[winner].io /\ ~meta[winner].evicting
         THEN Goto(f, "lookup") ELSE YieldTo(f, "lookup")
    /\ UNCHANGED <<mode, policy, exact, pid, seen, version, observed, ops, page_table, meta, framePid,
                   allocVars, dataVars, evictVars>>

(* The device has read the page; the fiber is runnable again. *)
DeviceRead(f) ==
    /\ pc[f] = "reading"
    /\ data' = [data EXCEPT ![bid[f]] = disk[pid[f]]]
    /\ pc' = [pc EXCEPT ![f] = "readDone"]
    /\ UNCHANGED <<running, fixVars, ops, poolVars, allocVars, disk, committed, evictVars>>

(* Faulty variant of ClearIo: the flag of the read stays set. *)
ClearIoForgotten(f) ==
    /\ On(f, "readDone")
    /\ Goto(f, "unlock")
    /\ UNCHANGED <<fixVars, ops, poolVars, allocVars, dataVars, evictVars>>

ClearIo(f) ==
    /\ On(f, "readDone")
    /\ meta' = [meta EXCEPT ![bid[f]].io = FALSE]
    /\ Goto(f, "unlock")
    /\ UNCHANGED <<fixVars, ops, page_table, framePid, free, allocVars, dataVars, evictVars>>

UnlockLoaded(f) ==
    /\ On(f, "unlock")
    /\ meta' = [meta EXCEPT ![bid[f]] = unlock_x_marked(@)]
    /\ Goto(f, "lookup")
    /\ UNCHANGED <<fixVars, ops, page_table, framePid, free, allocVars, dataVars, evictVars>>

-----------------------------------------------------------------------------
(* evict *)

Claimed(w) == toEvict[w] \cup toWrite[w]

(* Faulty variant of StartSweep: the sweep visits the pages of all workers. *)
SweepEverything(w) ==
    /\ EvictorOn(w, "sleep")
    /\ \E n \in 1 .. Batch : budget' = [budget EXCEPT ![w] = n]
    /\ unvisited' = [unvisited EXCEPT ![w] = Pids]
    /\ EvictorGoto(w, "sweep")
    /\ UNCHANGED <<clientVars, poolVars, allocVars, dataVars,
                   victim, toEvict, toWrite, unwritten, freed>>

(* The sweep covers the table once: the window of clock_sweep_next_owned is *)
(* the whole table when that has at most 1024 slots.                        *)
StartSweep(w) ==
    /\ EvictorOn(w, "sleep")
    /\ \E n \in 1 .. Batch : budget' = [budget EXCEPT ![w] = n]
    /\ unvisited' = [unvisited EXCEPT ![w] = {p \in Pids : OwnerOf[p] = w}]
    /\ EvictorGoto(w, "sweep")
    /\ UNCHANGED <<clientVars, poolVars, allocVars, dataVars,
                   victim, toEvict, toWrite, unwritten, freed>>

(* Faulty variant of Reclaimable: only a writer keeps a frame in place. *)
ReclaimableIfShared(b) == meta[b].mode # Locked

(* The check of the lock state that sweep_cb and evictNow both make. *)
Reclaimable(b) == meta[b].mode \in {Unlocked, Marked}

(* sweep_cb: an unlocked page is claimed, a marked one loses its mark. *)
Visit(w) ==
    /\ EvictorOn(w, "sweep")
    /\ Cardinality(Claimed(w)) < budget[w]
    /\ \E p \in unvisited[w] :
          LET b == page_table[p] IN
          /\ unvisited' = [unvisited EXCEPT ![w] = @ \ {p}]
          /\ IF /\ b # NoBid
                /\ framePid[b] = p
                /\ Reclaimable(b)
                /\ ~meta[b].io /\ ~meta[b].evicting
               THEN /\ victim' = [victim EXCEPT ![w] = b]
                    /\ EvictorGoto(w, IF meta[b].mode = Marked THEN "unmark" ELSE "claim")
               ELSE UNCHANGED <<victim, epc, running>>
    /\ UNCHANGED <<clientVars, poolVars, allocVars, dataVars,
                   budget, toEvict, toWrite, unwritten, freed>>

Unmark(w) ==
    /\ EvictorOn(w, "unmark")
    /\ meta' = [meta EXCEPT ![victim[w]] = clear_mark(@)]
    /\ EvictorGoto(w, "sweep")
    /\ UNCHANGED <<clientVars, page_table, framePid, free, allocVars, dataVars,
                   budget, unvisited, victim, toEvict, toWrite, unwritten, freed>>

Claim(w) ==
    /\ EvictorOn(w, "claim")
    /\ meta' = [meta EXCEPT ![victim[w]].evicting = TRUE]
    /\ EvictorGoto(w, "collect")
    /\ UNCHANGED <<clientVars, page_table, framePid, free, allocVars, dataVars,
                   budget, unvisited, victim, toEvict, toWrite, unwritten, freed>>

(* Faulty variant of Collect: a dirty page is treated as a clean one. *)
CollectAsClean(w) ==
    /\ EvictorOn(w, "collect")
    /\ meta' = [meta EXCEPT ![victim[w]].dirty = FALSE]
    /\ toEvict' = [toEvict EXCEPT ![w] = @ \cup {victim[w]}]
    /\ EvictorGoto(w, "sweep")
    /\ UNCHANGED <<clientVars, page_table, framePid, free, allocVars, dataVars,
                   budget, unvisited, victim, toWrite, unwritten, freed>>

Collect(w) ==
    LET b == victim[w] IN
    /\ EvictorOn(w, "collect")
    /\ meta' = [meta EXCEPT ![b].dirty = FALSE]
    /\ IF meta[b].dirty
         THEN toWrite' = [toWrite EXCEPT ![w] = @ \cup {b}] /\ UNCHANGED toEvict
         ELSE toEvict' = [toEvict EXCEPT ![w] = @ \cup {b}] /\ UNCHANGED toWrite
    /\ EvictorGoto(w, "sweep")
    /\ UNCHANGED <<clientVars, page_table, framePid, free, allocVars, dataVars,
                   budget, unvisited, victim, unwritten, freed>>

(* The budget is met or every owned page was visited; dirty pages are       *)
(* written back in one batch, which the fiber waits for.                    *)
EndSweep(w) ==
    /\ EvictorOn(w, "sweep")
    /\ unvisited[w] = {} \/ Cardinality(Claimed(w)) = budget[w]
    /\ unvisited' = [unvisited EXCEPT ![w] = {}]
    /\ unwritten' = [unwritten EXCEPT ![w] = toWrite[w]]
    /\ IF toWrite[w] = {} THEN EvictorGoto(w, "evictClean") ELSE EvictorYieldTo(w, "writing")
    /\ UNCHANGED <<clientVars, poolVars, allocVars, dataVars,
                   budget, victim, toEvict, toWrite, freed>>

DeviceWrite(w) ==
    /\ epc[w] = "writing"
    /\ \E b \in unwritten[w] :
          /\ disk' = [disk EXCEPT ![framePid[b]] = data[b]]
          /\ unwritten' = [unwritten EXCEPT ![w] = @ \ {b}]
          /\ epc' = [epc EXCEPT ![w] = IF unwritten[w] = {b} THEN "evictClean" ELSE @]
    /\ UNCHANGED <<running, clientVars, poolVars, allocVars, data, committed,
                   budget, unvisited, victim, toEvict, toWrite, freed>>

(* evictNow: the precheck of erase_if.  A frame that fails it is dropped,   *)
(* with its evicting flag still set.                                        *)
Evictable(b) ==
    /\ page_table[framePid[b]] = b
    /\ meta[b].evicting /\ ~meta[b].dirty
    /\ Reclaimable(b)

Precheck(w) ==
    /\ \E b \in Claimed(w) :
          /\ IF b \in toEvict[w] THEN EvictorOn(w, "evictClean") ELSE EvictorOn(w, "evictWritten")
          /\ IF Evictable(b)
               THEN /\ victim' = [victim EXCEPT ![w] = b]
                    /\ EvictorGoto(w, "erase")
                    /\ UNCHANGED <<toEvict, toWrite>>
               ELSE /\ toEvict' = [toEvict EXCEPT ![w] = @ \ {b}]
                    /\ toWrite' = [toWrite EXCEPT ![w] = @ \ {b}]
                    /\ UNCHANGED <<victim, epc, running>>
    /\ UNCHANGED <<clientVars, poolVars, allocVars, dataVars, budget, unvisited, unwritten, freed>>

(* The CAS of the slot expects the entry the precheck saw; it cannot fail,  *)
(* because only this worker erases the page (ClaimedStaysMapped).           *)
Erase(w) ==
    LET p == framePid[victim[w]] IN
    /\ EvictorOn(w, "erase")
    /\ page_table[p] = victim[w]
    /\ page_table' = [page_table EXCEPT ![p] = NoBid]
    /\ EvictorGoto(w, "commit")
    /\ UNCHANGED <<clientVars, meta, framePid, free, allocVars, dataVars,
                   budget, unvisited, victim, toEvict, toWrite, unwritten, freed>>

Commit(w) ==
    LET b == victim[w] IN
    /\ EvictorOn(w, "commit")
    /\ meta' = [meta EXCEPT ![b].evicting = FALSE]
    /\ freed' = [freed EXCEPT ![w] = @ \cup {b}]
    /\ toEvict' = [toEvict EXCEPT ![w] = @ \ {b}]
    /\ toWrite' = [toWrite EXCEPT ![w] = @ \ {b}]
    /\ EvictorGoto(w, IF b \in toEvict[w] THEN "evictClean" ELSE "evictWritten")
    /\ UNCHANGED <<clientVars, page_table, framePid, free, allocVars, dataVars,
                   budget, unvisited, victim, unwritten>>

(* Faulty variant of ReleaseFreed: releases the last victim, not the list. *)
ReleaseVictim(w) ==
    /\ \/ toEvict[w] = {} /\ EvictorOn(w, "evictClean") /\ EvictorGoto(w, "evictWritten")
       \/ toWrite[w] = {} /\ EvictorOn(w, "evictWritten") /\ EvictorYieldTo(w, "sleep")
    /\ free' = free \cup {victim[w]}
    /\ freed' = [freed EXCEPT ![w] = {}]
    /\ victim' = [victim EXCEPT ![w] = NoBid]
    /\ UNCHANGED <<clientVars, page_table, meta, framePid, allocVars, dataVars,
                   budget, unvisited, toEvict, toWrite, unwritten>>

(* releaseFreed, after the clean pages and after the written ones. *)
ReleaseFreed(w) ==
    /\ \/ toEvict[w] = {} /\ EvictorOn(w, "evictClean") /\ EvictorGoto(w, "evictWritten")
       \/ toWrite[w] = {} /\ EvictorOn(w, "evictWritten") /\ EvictorYieldTo(w, "sleep")
    /\ free' = free \cup freed[w]
    /\ freed' = [freed EXCEPT ![w] = {}]
    /\ victim' = [victim EXCEPT ![w] = NoBid]
    /\ UNCHANGED <<clientVars, page_table, meta, framePid, allocVars, dataVars,
                   budget, unvisited, toEvict, toWrite, unwritten>>

-----------------------------------------------------------------------------
Client(f) ==
    \/ FixS(f) \/ FixX(f) \/ FixO(f) \/ AllocPage(f) \/ Rest(f)
    \/ Lookup(f) \/ Load(f) \/ Flags(f) \/ Cas(f) \/ PrepareOptimistic(f) \/ Recheck(f)
    \/ HoldYield(f) \/ WritePage(f) \/ UnfixS(f) \/ UnfixX(f) \/ StoreUnlocked(f)
    \/ Validate(f) \/ ReleaseGuard(f) \/ Handover(f)
    \/ Fault(f) \/ Alloc(f) \/ Bind(f) \/ SetFlag(f) \/ SetPid(f) \/ Insert(f)
    \/ Undo(f) \/ GiveBack(f) \/ ClearIo(f) \/ UnlockLoaded(f)

Evict(w) ==
    \/ StartSweep(w) \/ Visit(w) \/ Unmark(w) \/ Claim(w) \/ Collect(w) \/ EndSweep(w)
    \/ Precheck(w) \/ Erase(w) \/ Commit(w) \/ ReleaseFreed(w)

Next ==
    \/ \E w \in Workers : ResumeEvictor(w) \/ Evict(w) \/ DeviceWrite(w)
    \/ \E f \in Fibers : Client(f) \/ DeviceRead(f)
    \/ \E w \in Workers, f \in Fibers : Resume(w, f)

(* The reactor's ready queue is first in first out, so a fiber that yields  *)
(* runs again; devices complete; a holder does not yield for ever.          *)
Fairness ==
    /\ \A f \in Fibers :
          /\ WF_vars(Client(f)) /\ WF_vars(DeviceRead(f))
          /\ SF_vars(Resume(WorkerOf[f], f))
          /\ SF_vars(UnfixS(f) \/ UnfixX(f) \/ ReleaseGuard(f))
    /\ \A w \in Workers :
          WF_vars(Evict(w)) /\ WF_vars(DeviceWrite(w)) /\ SF_vars(ResumeEvictor(w))

Spec == Init /\ [][Next]_vars /\ Fairness

-----------------------------------------------------------------------------
(* A frame the loading or allocating client has, not yet in the table. *)
LoadStates == {"bind", "setFlag", "setPid", "insert", "undo", "giveBack"}
Loading(f) == pc[f] \in LoadStates

(* Frames an evictor has erased from the table and not released. *)
Retired(w) == freed[w] \cup (IF epc[w] = "commit" THEN {victim[w]} ELSE {})

TableIsInjective ==
    \A p, q \in Pids : page_table[p] = page_table[q] => p = q \/ page_table[p] = NoBid
FreeIsUnused ==
    /\ \A p \in Pids : page_table[p] \notin free
    /\ \A f \in Fibers : Loading(f) => bid[f] \notin free
    /\ \A w \in Workers : Retired(w) \cap free = {}
LoadingIsPrivate ==
    \A f \in Fibers : Loading(f) =>
        /\ \A p \in Pids : page_table[p] # bid[f]
        /\ \A g \in Fibers : Loading(g) /\ bid[g] = bid[f] => g = f
        /\ \A w \in Workers : bid[f] \notin Retired(w)
RetiredIsPrivate ==
    \A w \in Workers :
        /\ \A p \in Pids : page_table[p] \notin Retired(w)
        /\ \A v \in Workers : v # w => Retired(v) \cap Retired(w) = {}
NoFrameLost ==
    \A b \in Bids :
        \/ b \in free
        \/ \E p \in Pids : page_table[p] = b
        \/ \E f \in Fibers : Loading(f) /\ bid[f] = b
        \/ \E w \in Workers : b \in Retired(w)

(* A frame is in the free lists, or in the table for one page, or in the    *)
(* hands of one client that binds it, or of one evictor that retired it:    *)
(* never in two of these places and never in none, however faults that      *)
(* lose the insert (release_free_bid), allocations and evictions overlap.   *)
FrameConservation ==
    TableIsInjective /\ FreeIsUnused /\ LoadingIsPrivate /\ RetiredIsPrivate /\ NoFrameLost

(* A frame an evictor has claimed stays the frame of its page until that    *)
(* evictor erases it, although locks, faults and the sweeps of the other    *)
(* workers go on: the erase of evictNow never hits another frame's entry,   *)
(* and no frame is retired twice.  It rests on the partition of the pages   *)
(* among the workers (owner_partition), not on the evicting flag.           *)
Mine(w, b) ==
    framePid[b] \in Pids /\ OwnerOf[framePid[b]] = w /\ page_table[framePid[b]] = b
ClaimedStaysMapped ==
    \A w \in Workers :
        /\ \A b \in Claimed(w) : Mine(w, b) \/ (epc[w] = "commit" /\ b = victim[w])
        /\ epc[w] \in {"unmark", "claim", "collect", "erase"} => Mine(w, victim[w])

Holds(f) == pc[f] \in {"hold", "wrote", "unlocking"}

(* A fixed page stays where it is: between fixS/fixX/allocPage and unfix    *)
(* the table maps the page to the frame the client was given.               *)
FixedPageIsResident ==
    \A f \in Fibers : Holds(f) => page_table[pid[f]] = bid[f] /\ framePid[bid[f]] = pid[f]

(* The ensure()s of unfixS_bid and unfixX_bid hold: nobody else has changed *)
(* the lock state of a frame a client has fixed.                            *)
UnfixFindsLock ==
    \A f \in Fibers : Holds(f) =>
        IF Exclusive(f) THEN meta[bid[f]].mode = Locked
        ELSE meta[bid[f]].mode \in 1 .. MaxShared

(* Two clients fix the same page at the same time only if both read it. *)
WritersExclude ==
    \A f, g \in Fibers :
        (f # g /\ Holds(f) /\ Holds(g) /\ pid[f] = pid[g]) => ~Exclusive(f) /\ ~Exclusive(g)

(* No write is lost: a client that has fixed a page sees every write made   *)
(* to it, through any number of write-backs, evictions and reloads.         *)
NoLostWrite ==
    \A f \in Fibers : Holds(f) =>
        data[bid[f]] = [page |-> pid[f], writes |-> committed[pid[f]]]

(* A GuardO that validates read a page nobody has written since the guard   *)
(* was taken and nobody is writing now.                                     *)
OptimisticReadIsStable ==
    \A f \in Fibers : (pc[f] = "guard" /\ Valid(f)) =>
        /\ committed[pid[f]] = observed[f]
        /\ data[bid[f]] = [page |-> pid[f], writes |-> observed[f]]

(* A GuardO is handed over only while its frame still holds the page: a     *)
(* frame recycled in between forces a restart.                              *)
RecycledFrameForcesRestart ==
    \A f \in Fibers : (Holds(f) /\ exact[f]) => page_table[pid[f]] = bid[f]

(* An evicting flag is the claim of some evictor that will come back to the *)
(* frame; a flag nobody owns would keep every client waiting for the page.  *)
EvictingHasOwner ==
    \A b \in Bids : meta[b].evicting =>
        \E w \in Workers :
            b \in Claimed(w) \/ (epc[w] \in {"collect", "erase", "commit"} /\ victim[w] = b)

(* An eviction that claims a frame with the evicting flag comes to an end:  *)
(* the frame is recycled, or the flag is cleared.                           *)
EvictionEnds == \A b \in Bids : meta[b].evicting ~> ~meta[b].evicting

(* Every fix returns: whatever a client waits for (an I/O, an eviction, a   *)
(* lock, a free frame) comes to an end.                                     *)
FixCompletes ==
    \A f \in Fibers : pc[f] = "lookup" ~> pc[f] \in {"hold", "guard", "idle"}
=============================================================================
