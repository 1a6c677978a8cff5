-------------------------- MODULE AtomicPageTable ---------------------------
(***************************************************************************)
(* The page table of the multithreaded buffer manager (mt/bm.hpp): open    *)
(* addressing with linear probing over slots of one atomic word each.      *)
(* erase_if leaves a tombstone, insert reuses the first tombstone of its   *)
(* probe, and a run of tombstones before an empty slot is collapsed.       *)
(*                                                                         *)
(* One action is one atomic access to a slot.  Threads insert pages with   *)
(* frames nobody uses, and a page is erased by one thread at a time, for   *)
(* the frame it is mapped to: that is how handleFault, allocPage and evict *)
(* call the table.                                                         *)
(***************************************************************************)
EXTENDS Naturals

CONSTANTS
    SlotCount,            \* slot_count, a power of two
    Pids, Bids,
    NoPid, NoBid, Deleted, \* the fields of empty and of deleted slots
    Hash,                 \* hash(pid) & slot_mask
    Threads,
    Inserters, Erasers,   \* threads that fault pages in, and that evict
    Overlap               \* may an erase run while an insert does?

Slots == 0 .. SlotCount - 1
NoSlot == SlotCount

ASSUME SlotAssumption == SlotCount \in Nat \ {0} /\ Hash \in [Pids -> Slots]
ASSUME NullAssumption == NoPid \notin Pids /\ NoBid \notin Bids /\ Deleted \notin Bids /\ NoBid # Deleted
ASSUME ThreadAssumption == Inserters \subseteq Threads /\ Erasers \subseteq Threads /\ Overlap \in BOOLEAN

VARIABLES
    slots,     \* slots[i].raw
    pc,        \* next step of a thread
    pid, bid,  \* arguments of its call
    probed,    \* slots it has passed
    tomb,      \* first_tombstone
    at, run,   \* collapse_tombstone_run: its index, the length of the run
    held,      \* ghost: what the page was mapped to since the call began
    answer     \* ghost: what its last call returned

callVars == <<pid, bid, probed, tomb>>
vars == <<slots, pc, callVars, at, run, held, answer>>

EMPTY_SLOT == [pid |-> NoPid, bid |-> NoBid]
TOMBSTONE_SLOT == [pid |-> NoPid, bid |-> Deleted]
Entry == [pid : Pids, bid : Bids]

InsertSteps == {"insert", "cas", "casTomb"}
EraseSteps == {"erase", "casErase"}
CollapseSteps == {"scan", "clear"}

(* Every variable keeps its type: a slot is empty, deleted or holds a page  *)
(* of the pool in a frame of the pool, and indices stay inside the table.   *)
TypeOK ==
    /\ slots \in [Slots -> Entry \cup {EMPTY_SLOT, TOMBSTONE_SLOT}]
    /\ pc \in [Threads -> {"idle", "find"} \cup InsertSteps \cup EraseSteps \cup CollapseSteps]
    /\ pid \in [Threads -> Pids \cup {NoPid}]
    /\ bid \in [Threads -> Bids \cup {NoBid}]
    /\ probed \in [Threads -> Slots]
    /\ tomb \in [Threads -> Slots \cup {NoSlot}]
    /\ at \in [Threads -> Slots]
    /\ run \in [Threads -> 0 .. SlotCount]
    /\ held \in [Threads -> SUBSET (Bids \cup {NoBid})]
    /\ answer \in [Threads -> Bids \cup {NoBid} \cup BOOLEAN]

Init ==
    /\ slots = [i \in Slots |-> EMPTY_SLOT]
    /\ pc = [t \in Threads |-> "idle"]
    /\ pid = [t \in Threads |-> NoPid]
    /\ bid = [t \in Threads |-> NoBid]
    /\ probed = [t \in Threads |-> 0]
    /\ tomb = [t \in Threads |-> NoSlot]
    /\ at = [t \in Threads |-> 0]
    /\ run = [t \in Threads |-> 0]
    /\ held = [t \in Threads |-> {}]
    /\ answer = [t \in Threads |-> FALSE]

SlotsOf(p) == {i \in Slots : slots[i].pid = p}
Mapped(p) == IF SlotsOf(p) = {} THEN NoBid ELSE slots[CHOOSE i \in SlotsOf(p) : TRUE].bid
InUse(b) ==
    \/ \E i \in Slots : slots[i].bid = b
    \/ \E t \in Threads : pc[t] \in InsertSteps \cup CollapseSteps /\ bid[t] = b

Writing(steps) == \E t \in Threads : pc[t] \in steps
At(t) == (Hash[pid[t]] + probed[t]) % SlotCount
Goto(t, label) == pc' = [pc EXCEPT ![t] = label]

Start(t, label, p, b) ==
    /\ pc[t] = "idle"
    /\ Goto(t, label)
    /\ pid' = [pid EXCEPT ![t] = p]
    /\ bid' = [bid EXCEPT ![t] = b]
    /\ held' = [held EXCEPT ![t] = {Mapped(p)}]
    /\ answer' = [answer EXCEPT ![t] = FALSE]
    /\ UNCHANGED <<slots, probed, tomb, at, run>>

Forget(t) ==
    /\ pid' = [pid EXCEPT ![t] = NoPid]
    /\ bid' = [bid EXCEPT ![t] = NoBid]
    /\ probed' = [probed EXCEPT ![t] = 0]
    /\ tomb' = [tomb EXCEPT ![t] = NoSlot]

(* The call returns without changing the table. *)
Return(t, a) ==
    /\ Goto(t, "idle") /\ Forget(t)
    /\ held' = [held EXCEPT ![t] = {}]
    /\ answer' = [answer EXCEPT ![t] = a]
    /\ UNCHANGED <<slots, at, run>>

(* The slot of the call is changed, which the calls of the others see. *)
Change(t, i, slot, b) ==
    /\ slots' = [slots EXCEPT ![i] = slot]
    /\ held' = [s \in Threads |->
          IF s = t THEN {}
          ELSE IF pid[s] = pid[t] /\ pc[s] \notin CollapseSteps THEN held[s] \cup {b} ELSE held[s]]
    /\ answer' = [answer EXCEPT ![t] = TRUE]

-----------------------------------------------------------------------------
(* find_copy *)
Find(t) == \E p \in Pids : Start(t, "find", p, NoBid)

(* Faulty variant of FindProbe: a deleted slot ends the probe. *)
FindProbeStops(t) ==
    LET raw == slots[At(t)] IN
    /\ pc[t] = "find"
    /\ IF raw.pid = NoPid THEN Return(t, NoBid)
       ELSE IF raw.pid = pid[t] THEN Return(t, raw.bid)
       ELSE IF probed[t] + 1 = SlotCount THEN Return(t, NoBid)
       ELSE /\ probed' = [probed EXCEPT ![t] = @ + 1]
            /\ UNCHANGED <<slots, pc, pid, bid, tomb, at, run, held, answer>>

FindProbe(t) ==
    LET raw == slots[At(t)] IN
    /\ pc[t] = "find"
    /\ IF raw = EMPTY_SLOT THEN Return(t, NoBid)
       ELSE IF raw.pid = pid[t] THEN Return(t, raw.bid)
       ELSE IF probed[t] + 1 = SlotCount THEN Return(t, NoBid)
       ELSE /\ probed' = [probed EXCEPT ![t] = @ + 1]
            /\ UNCHANGED <<slots, pc, pid, bid, tomb, at, run, held, answer>>

-----------------------------------------------------------------------------
(* insert *)
Insert(t) ==
    /\ t \in Inserters
    /\ Overlap \/ ~Writing(EraseSteps \cup CollapseSteps)
    /\ \E p \in Pids, b \in Bids : ~InUse(b) /\ Start(t, "insert", p, b)

(* The probe starts again from the first slot. *)
Retry(t) ==
    /\ Goto(t, "insert")
    /\ probed' = [probed EXCEPT ![t] = 0]
    /\ tomb' = [tomb EXCEPT ![t] = NoSlot]

(* On to the next slot; after the last one a tombstone is all there is. *)
Advance(t, first) ==
    IF probed[t] + 1 < SlotCount
    THEN /\ probed' = [probed EXCEPT ![t] = @ + 1]
         /\ tomb' = [tomb EXCEPT ![t] = first]
         /\ UNCHANGED pc
    ELSE IF first = NoSlot THEN Retry(t)
    ELSE /\ Goto(t, "casTomb")
         /\ tomb' = [tomb EXCEPT ![t] = first]
         /\ UNCHANGED probed

(* Faulty variant of InsertProbe: deleted slots are not used again. *)
InsertProbeSkips(t) ==
    LET raw == slots[At(t)] IN
    /\ pc[t] = "insert"
    /\ \/ raw = EMPTY_SLOT /\ Goto(t, "cas") /\ UNCHANGED <<callVars, slots, at, run, held, answer>>
       \/ raw.pid = pid[t] /\ Return(t, FALSE)
       \/ /\ raw # EMPTY_SLOT /\ raw.pid # pid[t]
          /\ Advance(t, NoSlot)
          /\ UNCHANGED <<slots, pid, bid, at, run, held, answer>>

InsertProbe(t) ==
    LET raw == slots[At(t)] IN
    /\ pc[t] = "insert"
    /\ \/ raw = EMPTY_SLOT /\ Goto(t, "cas") /\ UNCHANGED <<callVars, slots, at, run, held, answer>>
       \/ raw.pid = pid[t] /\ Return(t, FALSE)
       \/ /\ raw # EMPTY_SLOT /\ raw.pid # pid[t]
          /\ Advance(t, IF raw = TOMBSTONE_SLOT /\ tomb[t] = NoSlot THEN At(t) ELSE tomb[t])
          /\ UNCHANGED <<slots, pid, bid, at, run, held, answer>>

Publish(t, i) ==
    /\ Change(t, i, [pid |-> pid[t], bid |-> bid[t]], bid[t])
    /\ Goto(t, "idle") /\ Forget(t)
    /\ UNCHANGED <<at, run>>

(* The probe met an empty slot; a tombstone before it is taken instead. *)
Cas(t) ==
    LET target == IF tomb[t] = NoSlot THEN At(t) ELSE tomb[t]
        expected == IF tomb[t] = NoSlot THEN EMPTY_SLOT ELSE TOMBSTONE_SLOT
    IN  /\ pc[t] = "cas"
        /\ IF slots[target] = expected THEN Publish(t, target)
           ELSE /\ IF tomb[t] = NoSlot THEN Retry(t) ELSE Goto(t, "casTomb") /\ UNCHANGED <<probed, tomb>>
                /\ UNCHANGED <<slots, pid, bid, at, run, held, answer>>

CasTomb(t) ==
    /\ pc[t] = "casTomb"
    /\ IF slots[tomb[t]] = TOMBSTONE_SLOT THEN Publish(t, tomb[t])
       ELSE Retry(t) /\ UNCHANGED <<slots, pid, bid, at, run, held, answer>>

-----------------------------------------------------------------------------
(* erase_if, called by the evictor that has claimed the page *)
EraseIf(t) ==
    /\ t \in Erasers
    /\ Overlap \/ ~Writing(InsertSteps)
    /\ \E i \in Slots :
          /\ slots[i].pid # NoPid
          /\ \A s \in Threads : pc[s] \in EraseSteps => pid[s] # slots[i].pid
          /\ Start(t, "erase", slots[i].pid, slots[i].bid)

(* The precheck refuses a page that was locked or written in the meantime. *)
EraseProbe(t) ==
    LET raw == slots[At(t)] IN
    /\ pc[t] = "erase"
    /\ \/ raw = EMPTY_SLOT /\ Return(t, FALSE)
       \/ raw.pid = pid[t] /\ Return(t, FALSE)
       \/ /\ raw.pid = pid[t] /\ raw.bid = bid[t]
          /\ Goto(t, "casErase")
          /\ UNCHANGED <<callVars, slots, at, run, held, answer>>
       \/ /\ raw # EMPTY_SLOT /\ raw.pid # pid[t]
          /\ IF probed[t] + 1 = SlotCount THEN Return(t, FALSE)
             ELSE /\ probed' = [probed EXCEPT ![t] = @ + 1]
                  /\ UNCHANGED <<slots, pc, pid, bid, tomb, at, run, held, answer>>

CasErase(t) ==
    /\ pc[t] = "casErase"
    /\ IF slots[At(t)] = [pid |-> pid[t], bid |-> bid[t]]
         THEN /\ Change(t, At(t), TOMBSTONE_SLOT, NoBid)
              /\ Goto(t, "scan")
              /\ UNCHANGED callVars
              /\ at' = [at EXCEPT ![t] = At(t)]
              /\ run' = [run EXCEPT ![t] = 1]
         ELSE Return(t, FALSE)

-----------------------------------------------------------------------------
(* collapse_tombstone_run *)
EndCollapse(t) ==
    /\ Goto(t, "idle") /\ Forget(t)
    /\ at' = [at EXCEPT ![t] = 0]
    /\ run' = [run EXCEPT ![t] = 0]

(* Faulty variant of Scan: clears a run that an entry follows. *)
ScanIgnoresEntry(t) ==
    LET next == (at[t] + 1) % SlotCount IN
    /\ pc[t] = "scan"
    /\ IF run[t] = SlotCount \/ slots[next] # TOMBSTONE_SLOT THEN Goto(t, "clear") /\ UNCHANGED <<at, run>>
       ELSE /\ at' = [at EXCEPT ![t] = next]
            /\ run' = [run EXCEPT ![t] = @ + 1]
            /\ UNCHANGED pc
    /\ UNCHANGED <<slots, callVars, held, answer>>

(* Forward over the tombstones, up to an empty slot. *)
Scan(t) ==
    LET next == (at[t] + 1) % SlotCount IN
    /\ pc[t] = "scan"
    /\ IF run[t] = SlotCount \/ slots[next] = EMPTY_SLOT THEN Goto(t, "clear") /\ UNCHANGED <<callVars, at, run>>
       ELSE IF slots[next] = TOMBSTONE_SLOT
         THEN /\ at' = [at EXCEPT ![t] = next]
              /\ run' = [run EXCEPT ![t] = @ + 1]
              /\ UNCHANGED <<pc, callVars>>
         ELSE EndCollapse(t)
    /\ UNCHANGED <<slots, held, answer>>

(* Backward, clearing one tombstone after the other. *)
Clear(t) ==
    /\ pc[t] = "clear"
    /\ IF slots[at[t]] = TOMBSTONE_SLOT
         THEN /\ slots' = [slots EXCEPT ![at[t]] = EMPTY_SLOT]
              /\ IF run[t] = 1 THEN EndCollapse(t)
                 ELSE /\ at' = [at EXCEPT ![t] = IF @ = 0 THEN SlotCount - 1 ELSE @ - 1]
                      /\ run' = [run EXCEPT ![t] = @ - 1]
                      /\ UNCHANGED <<pc, callVars>>
         ELSE EndCollapse(t) /\ UNCHANGED slots
    /\ UNCHANGED <<held, answer>>

-----------------------------------------------------------------------------
Step(t) ==
    \/ FindProbe(t) \/ InsertProbe(t) \/ Cas(t) \/ CasTomb(t)
    \/ EraseProbe(t) \/ CasErase(t) \/ Scan(t) \/ Clear(t)

Next == \E t \in Threads : Find(t) \/ Insert(t) \/ EraseIf(t) \/ Step(t)

(* A thread that is inside the table goes on. *)
Spec == Init /\ [][Next]_vars /\ \A t \in Threads : WF_vars(Step(t))

-----------------------------------------------------------------------------
(* Of the workers that fault on a page one wins the insert: a page never    *)
(* has two entries, and so never two frames.                                *)
OneWinner == \A i, j \in Slots : slots[i].pid # NoPid /\ slots[i].pid = slots[j].pid => i = j

(* A page that is in the table is found: the probe of find_copy meets no    *)
(* empty slot on its way from the hash of the page to its entry.            *)
OnTheWay(i, j) == {(i + k) % SlotCount : k \in 0 .. (j + SlotCount - i) % SlotCount}
EntriesAreReachable ==
    /\ TypeOK
    /\ \A j \in Slots : slots[j].pid # NoPid =>
        \A i \in OnTheWay(Hash[slots[j].pid], j) : slots[i] # EMPTY_SLOT

(* The table behaves like a map: every answer is one the map could have     *)
(* given at some instant of the call (find_copy, insert, erase_if).         *)
CallOf(t) ==
    CASE pc[t] = "find" -> [op |-> "find_copy", pid |-> pid[t], bid |-> bid[t]]
      [] pc[t] \in InsertSteps -> [op |-> "insert", pid |-> pid[t], bid |-> bid[t]]
      [] pc[t] \in EraseSteps -> [op |-> "erase_if", pid |-> pid[t], bid |-> bid[t]]
      [] OTHER -> [op |-> "none"]
Map == INSTANCE PageMap WITH
    map <- [p \in Pids |-> Mapped(p)],
    call <- [t \in Threads |-> CallOf(t)]
BehavesLikeAMap == Map!Spec

(* No insert spins over a full table: it returns in the end (the comment on *)
(* the retry of insert).                                                    *)
InsertEnds == \A t \in Threads : pc[t] \in InsertSteps ~> pc[t] = "idle"
=============================================================================
