----------------------- MODULE AtomicPageTableProofs ------------------------
(***************************************************************************)
(* Proofs about AtomicPageTable for tables of every size, any number of    *)
(* threads and every hash function, as long as no erase_if runs while an   *)
(* insert does (Overlap = FALSE).                                          *)
(***************************************************************************)
EXTENDS AtomicPageTable, TLAPS

(* How far slot i lies behind slot h, and the slot k steps behind slot h. *)
Ahead(h, i) == IF h <= i THEN i - h ELSE i + SlotCount - h
Go(h, k) == IF h + k < SlotCount THEN h + k ELSE h + k - SlotCount

(* Zenon is the prover of every step that names none. *)
USE Zenon

LEMMA ModGo == \A h \in Slots, k \in 0 .. SlotCount : (h + k) % SlotCount = Go(h, k)
  BY SMT, SlotAssumption DEF Slots, Go

LEMMA GoIsSlot == \A h \in Slots, k \in 0 .. SlotCount : Go(h, k) \in Slots
  BY SMT, SlotAssumption DEF Slots, Go

LEMMA AheadIsSlot == \A h, i \in Slots : Ahead(h, i) \in Slots
  BY SMT, SlotAssumption DEF Slots, Ahead

LEMMA AheadGo == \A h, k \in Slots : Ahead(h, Go(h, k)) = k
  BY SMT, SlotAssumption DEF Slots, Ahead, Go

LEMMA AheadOnce == \A h, i, j \in Slots : Ahead(h, i) = Ahead(h, j) => i = j
  BY SMT, SlotAssumption DEF Slots, Ahead

LEMMA SlotOrder ==
    \A a, b \in Slots : /\ ~(a < b) => b <= a
                        /\ ~(a < b) /\ ~(b < a) => a = b
                        /\ a < b + 1 => a < b \/ a = b
                        /\ a <= b /\ a # b => a < b
                        /\ a <= b /\ b # a => a + 1 <= b
                        /\ a < SlotCount /\ ~(a < 0)
                        /\ ~(b + 1 < SlotCount) => a <= b
  BY SMT, SlotAssumption DEF Slots

LEMMA AheadNext == \A h, i, j \in Slots : Ahead(h, i) < Ahead(h, j) => Ahead(h, Go(i, 1)) <= Ahead(h, j)
  BY SMT, SlotAssumption DEF Slots, Ahead, Go

LEMMA AheadScan ==
    \A i, a \in Slots : i # Go(a, 1) => Ahead(i, Go(a, 1)) = Ahead(i, a) + 1
  BY SMT, SlotAssumption DEF Slots, Ahead, Go

LEMMA WayAhead ==
    \A h, j \in Slots : OnTheWay(h, j) = {i \in Slots : Ahead(h, i) <= Ahead(h, j)}
<1> SUFFICES ASSUME NEW h \in Slots, NEW j \in Slots
             PROVE  OnTheWay(h, j) = {i \in Slots : Ahead(h, i) <= Ahead(h, j)}
  OBVIOUS
<1>1. (j + SlotCount - h) % SlotCount = Ahead(h, j)
  <2>1. SlotCount - h \in 0 .. SlotCount /\ j + SlotCount - h = j + (SlotCount - h)
    BY SMT, SlotAssumption DEF Slots
  <2>2. (j + (SlotCount - h)) % SlotCount = Go(j, SlotCount - h)
    BY <2>1, ModGo
  <2>3. Go(j, SlotCount - h) = Ahead(h, j)
    BY SMT, SlotAssumption DEF Slots, Go, Ahead
  <2> QED
    BY <2>1, <2>2, <2>3
<1>2. OnTheWay(h, j) = {Go(h, k) : k \in 0 .. Ahead(h, j)}
  <2>1. \A k \in 0 .. Ahead(h, j) : (h + k) % SlotCount = Go(h, k)
    BY SMT, ModGo, AheadIsSlot, SlotAssumption DEF Slots
  <2> QED
    BY <1>1, <2>1 DEF OnTheWay
<1>3. ASSUME NEW k \in 0 .. Ahead(h, j)
      PROVE  Go(h, k) \in Slots /\ Ahead(h, Go(h, k)) <= Ahead(h, j)
  <2>1. Ahead(h, j) \in Slots
    BY AheadIsSlot
  <2>2. k \in Slots /\ k \in 0 .. SlotCount /\ k <= Ahead(h, j)
    BY SMT, <1>3, <2>1, SlotAssumption DEF Slots
  <2> QED
    BY <2>2, GoIsSlot, AheadGo
<1>4. ASSUME NEW i \in Slots, Ahead(h, i) <= Ahead(h, j)
      PROVE  Ahead(h, i) \in 0 .. Ahead(h, j) /\ Go(h, Ahead(h, i)) = i
  BY SMT, <1>4, SlotAssumption DEF Slots, Go, Ahead
<1> QED
  BY <1>2, <1>3, <1>4

-----------------------------------------------------------------------------
LEMMA SlotKinds ==
    /\ EMPTY_SLOT.pid = NoPid /\ TOMBSTONE_SLOT.pid = NoPid /\ EMPTY_SLOT # TOMBSTONE_SLOT
    /\ \A p \in Pids, b \in Bids : [pid |-> p, bid |-> b] \in Entry
    /\ \A e \in Entry : e.pid \in Pids /\ e.bid \in Bids /\ e.pid # NoPid /\ e # EMPTY_SLOT /\ e # TOMBSTONE_SLOT
  BY SMT, NullAssumption DEF EMPTY_SLOT, TOMBSTONE_SLOT, Entry

InCall == {"find"} \cup InsertSteps \cup EraseSteps
Taken(i) == slots[i].pid # NoPid

(* The arguments of a thread's call, by what it is doing. *)
Known(t) ==
    /\ pc[t] \in InCall => pid[t] \in Pids
    /\ pc[t] \in InsertSteps \cup EraseSteps => bid[t] \in Bids
    /\ pc[t] = "idle" => pid[t] = NoPid /\ probed[t] = 0
    /\ pc[t] \notin InsertSteps => tomb[t] = NoSlot
    /\ pc[t] = "casTomb" => tomb[t] # NoSlot
    /\ pc[t] \in CollapseSteps => run[t] # 0
CallsAreKnown == \A t \in Threads : Known(t)

LEMMA AtIsSlot ==
    ASSUME TypeOK, CallsAreKnown, NEW t \in Threads, pc[t] \in InCall
    PROVE  /\ pid[t] \in Pids /\ Hash[pid[t]] \in Slots /\ probed[t] \in Slots
           /\ At(t) = Go(Hash[pid[t]], probed[t])
           /\ At(t) \in Slots
           /\ slots[At(t)] \in Entry \cup {EMPTY_SLOT, TOMBSTONE_SLOT}
<1>1. pid[t] \in Pids /\ probed[t] \in Slots
  BY DEF TypeOK, CallsAreKnown, Known
<1>2. Hash[pid[t]] \in Slots
  BY <1>1, SlotAssumption
<1>3. probed[t] \in 0 .. SlotCount
  BY SMT, <1>1, SlotAssumption DEF Slots
<1>4. At(t) = Go(Hash[pid[t]], probed[t]) /\ Go(Hash[pid[t]], probed[t]) \in Slots
  BY <1>2, <1>3, ModGo, GoIsSlot DEF At
<1> QED
  BY <1>1, <1>2, <1>4 DEF TypeOK

-----------------------------------------------------------------------------
Acts(t) == Find(t) \/ Insert(t) \/ EraseIf(t) \/ Step(t)

LEMMA RetryTypes ==
    ASSUME TypeOK, NEW t \in Threads, Retry(t)
    PROVE  /\ pc' \in [Threads -> {"idle", "find"} \cup InsertSteps \cup EraseSteps \cup CollapseSteps]
           /\ probed' \in [Threads -> Slots]
           /\ tomb' \in [Threads -> Slots \cup {NoSlot}]
  BY SMT, SlotAssumption DEF TypeOK, Retry, Goto, InsertSteps, Slots, NoSlot

LEMMA ReturnTypes ==
    ASSUME TypeOK, NEW t \in Threads, NEW a \in Bids \cup {NoBid} \cup BOOLEAN, Return(t, a)
    PROVE  TypeOK'
<1>1. 0 \in Slots
  BY SMT, SlotAssumption DEF Slots
<1> QED
  BY <1>1 DEF TypeOK, Return, Forget, Goto

LEMMA ProbeTypes ==
    ASSUME TypeOK, NEW t \in Threads, probed[t] + 1 # SlotCount,
           probed' = [probed EXCEPT ![t] = @ + 1]
    PROVE  probed' \in [Threads -> Slots]
<1>1. probed[t] + 1 \in Slots
  BY SMT, SlotAssumption DEF TypeOK, Slots
<1> QED
  BY <1>1 DEF TypeOK

LEMMA StartTypes ==
    ASSUME TypeOK, NEW t \in Threads, NEW p \in Pids, NEW b \in Bids \cup {NoBid},
           NEW l \in {"find", "insert", "erase"}, Start(t, l, p, b)
    PROVE  TypeOK'
<1>1. Mapped(p) \in Bids \cup {NoBid}
  <2>1. CASE SlotsOf(p) = {}
    BY <2>1 DEF Mapped
  <2>2. CASE SlotsOf(p) # {}
    <3>1. PICK i \in Slots : i = (CHOOSE j \in SlotsOf(p) : TRUE) /\ slots[i].pid = p
      BY <2>2 DEF SlotsOf
    <3>2. slots[i] \in Entry
      BY <3>1, SlotKinds, NullAssumption DEF TypeOK
    <3> QED
      BY <2>2, <3>1, <3>2, SlotKinds DEF Mapped
  <2> QED
    BY <2>1, <2>2
<1>2. pc' \in [Threads -> {"idle", "find"} \cup InsertSteps \cup EraseSteps \cup CollapseSteps]
  BY DEF TypeOK, Start, Goto, InsertSteps, EraseSteps
<1> QED
  BY <1>1, <1>2 DEF TypeOK, Start

LEMMA ChangeTypes ==
    ASSUME TypeOK, NEW t \in Threads, NEW i \in Slots, NEW b \in Bids \cup {NoBid},
           NEW slot \in Entry \cup {EMPTY_SLOT, TOMBSTONE_SLOT}, Change(t, i, slot, b)
    PROVE  /\ slots' \in [Slots -> Entry \cup {EMPTY_SLOT, TOMBSTONE_SLOT}]
           /\ held' \in [Threads -> SUBSET (Bids \cup {NoBid})]
           /\ answer' \in [Threads -> Bids \cup {NoBid} \cup BOOLEAN]
  BY DEF TypeOK, Change

LEMMA EndTypes ==
    ASSUME TypeOK, NEW t \in Threads, EndCollapse(t)
    PROVE  /\ pc' \in [Threads -> {"idle", "find"} \cup InsertSteps \cup EraseSteps \cup CollapseSteps]
           /\ pid' \in [Threads -> Pids \cup {NoPid}]
           /\ bid' \in [Threads -> Bids \cup {NoBid}]
           /\ probed' \in [Threads -> Slots]
           /\ tomb' \in [Threads -> Slots \cup {NoSlot}]
           /\ at' \in [Threads -> Slots]
           /\ run' \in [Threads -> 0 .. SlotCount]
<1>1. 0 \in Slots /\ 0 \in 0 .. SlotCount
  BY SMT, SlotAssumption DEF Slots
<1> QED
  BY <1>1 DEF TypeOK, EndCollapse, Goto, Forget

LEMMA PublishTypes ==
    ASSUME TypeOK, CallsAreKnown, NEW t \in Threads, pc[t] \in InsertSteps, NEW i \in Slots, Publish(t, i)
    PROVE  TypeOK'
<1>1. pid[t] \in Pids /\ bid[t] \in Bids
  BY DEF CallsAreKnown, Known, InCall
<1>2. /\ slots' \in [Slots -> Entry \cup {EMPTY_SLOT, TOMBSTONE_SLOT}]
      /\ held' \in [Threads -> SUBSET (Bids \cup {NoBid})]
      /\ answer' \in [Threads -> Bids \cup {NoBid} \cup BOOLEAN]
  BY <1>1, SlotKinds, ChangeTypes DEF Publish
<1>3. 0 \in Slots
  BY SMT, SlotAssumption DEF Slots
<1> QED
  BY <1>2, <1>3 DEF TypeOK, Publish, Forget, Goto

LEMMA TypeStep ==
    ASSUME TypeOK, CallsAreKnown, NEW t \in Threads, Acts(t)
    PROVE  TypeOK'
<1>1. CASE Find(t)
  BY <1>1, StartTypes DEF Find
<1>2. CASE Insert(t)
  BY <1>2, StartTypes DEF Insert
<1>3. CASE EraseIf(t)
  <2>1. PICK i \in Slots : slots[i].pid # NoPid /\ Start(t, "erase", slots[i].pid, slots[i].bid)
    BY <1>3 DEF EraseIf
  <2>2. slots[i] \in Entry
    BY <2>1, SlotKinds DEF TypeOK
  <2> QED
    BY <2>1, <2>2, SlotKinds, StartTypes
<1>4. CASE FindProbe(t)
  <2>1. slots[At(t)] \in Entry \cup {EMPTY_SLOT, TOMBSTONE_SLOT} /\ pid[t] \in Pids
    BY <1>4, AtIsSlot DEF FindProbe, InCall
  <2>2. slots[At(t)].pid = pid[t] => slots[At(t)].bid \in Bids
    BY <2>1, SlotKinds, NullAssumption
  <2>3. CASE \E a \in Bids \cup {NoBid} \cup BOOLEAN : Return(t, a)
    BY <2>3, ReturnTypes
  <2>4. CASE /\ probed[t] + 1 # SlotCount
             /\ probed' = [probed EXCEPT ![t] = @ + 1]
             /\ UNCHANGED <<slots, pc, pid, bid, tomb, at, run, held, answer>>
    BY <2>4, ProbeTypes DEF TypeOK
  <2> QED
    BY <1>4, <2>2, <2>3, <2>4 DEF FindProbe
<1>5. CASE InsertProbe(t)
  <2>1. At(t) \in Slots
    BY <1>5, AtIsSlot DEF InsertProbe, InCall, InsertSteps
  <2>2. CASE Goto(t, "cas") /\ UNCHANGED <<callVars, slots, at, run, held, answer>>
    BY <2>2 DEF TypeOK, Goto, callVars, InsertSteps
  <2>3. CASE Return(t, FALSE)
    BY <2>3, ReturnTypes
  <2>4. ASSUME NEW first \in Slots \cup {NoSlot}, Advance(t, first),
               UNCHANGED <<slots, pid, bid, at, run, held, answer>>
        PROVE  TypeOK'
    <3>1. CASE probed[t] + 1 < SlotCount
      <4>1. probed[t] + 1 # SlotCount
        BY SMT, <3>1, SlotAssumption DEF TypeOK, Slots
      <4>2. probed' \in [Threads -> Slots]
        BY <2>4, <3>1, <4>1, ProbeTypes DEF Advance
      <4> QED
        BY <2>4, <3>1, <4>2 DEF TypeOK, Advance
    <3>2. CASE Retry(t)
      BY <2>4, <3>2, RetryTypes DEF TypeOK
    <3>3. CASE Goto(t, "casTomb") /\ tomb' = [tomb EXCEPT ![t] = first] /\ UNCHANGED probed
      BY <2>4, <3>3 DEF TypeOK, Goto, InsertSteps
    <3> QED
      BY <2>4, <3>1, <3>2, <3>3 DEF Advance
  <2>5. tomb[t] \in Slots \cup {NoSlot}
    BY DEF TypeOK
  <2> QED
    BY <1>5, <2>1, <2>2, <2>3, <2>4, <2>5 DEF InsertProbe
<1>6. CASE Cas(t)
  <2>1. At(t) \in Slots /\ pc[t] \in InsertSteps
    BY <1>6, AtIsSlot DEF Cas, InCall, InsertSteps
  <2>2. tomb[t] # NoSlot => tomb[t] \in Slots
    BY DEF TypeOK
  <2>3. CASE \E i \in Slots : Publish(t, i)
    BY <2>1, <2>3, PublishTypes
  <2>4. CASE Retry(t) /\ UNCHANGED <<slots, pid, bid, at, run, held, answer>>
    BY <2>4, RetryTypes DEF TypeOK
  <2>5. CASE Goto(t, "casTomb") /\ UNCHANGED <<probed, tomb, slots, pid, bid, at, run, held, answer>>
    BY <2>5 DEF TypeOK, Goto, InsertSteps
  <2> QED
    BY <1>6, <2>1, <2>2, <2>3, <2>4, <2>5 DEF Cas
<1>7. CASE CasTomb(t)
  <2>1. pc[t] \in InsertSteps
    BY <1>7 DEF CasTomb, InsertSteps
  <2>2. tomb[t] \in Slots
    BY <1>7 DEF TypeOK, CallsAreKnown, Known, CasTomb
  <2>3. CASE Publish(t, tomb[t])
    BY <2>1, <2>2, <2>3, PublishTypes
  <2>4. CASE Retry(t) /\ UNCHANGED <<slots, pid, bid, at, run, held, answer>>
    BY <2>4, RetryTypes DEF TypeOK
  <2> QED
    BY <1>7, <2>3, <2>4 DEF CasTomb
<1>8. CASE EraseProbe(t)
  <2>1. CASE Return(t, FALSE)
    BY <2>1, ReturnTypes
  <2>2. CASE Goto(t, "casErase") /\ UNCHANGED <<callVars, slots, at, run, held, answer>>
    BY <2>2 DEF TypeOK, Goto, callVars, EraseSteps
  <2>3. CASE /\ probed[t] + 1 # SlotCount
             /\ probed' = [probed EXCEPT ![t] = @ + 1]
             /\ UNCHANGED <<slots, pc, pid, bid, tomb, at, run, held, answer>>
    BY <2>3, ProbeTypes DEF TypeOK
  <2> QED
    BY <1>8, <2>1, <2>2, <2>3 DEF EraseProbe
<1>9. CASE CasErase(t)
  <2>1. At(t) \in Slots
    BY <1>9, AtIsSlot DEF CasErase, InCall, EraseSteps
  <2>2. CASE Return(t, FALSE)
    BY <2>2, ReturnTypes
  <2>3. CASE /\ Change(t, At(t), TOMBSTONE_SLOT, NoBid)
             /\ Goto(t, "scan")
             /\ UNCHANGED callVars
             /\ at' = [at EXCEPT ![t] = At(t)]
             /\ run' = [run EXCEPT ![t] = 1]
    <3>1. 1 \in 0 .. SlotCount
      BY SMT, SlotAssumption
    <3> QED
      BY <2>1, <2>3, <3>1, ChangeTypes DEF TypeOK, Goto, callVars, CollapseSteps
  <2> QED
    BY <1>9, <2>2, <2>3 DEF CasErase
<1>10. CASE Scan(t)
  <2>1. (at[t] + 1) % SlotCount \in Slots
    <3>1. at[t] \in Slots /\ 1 \in 0 .. SlotCount
      BY SMT, SlotAssumption DEF TypeOK
    <3> QED
      BY <3>1, ModGo, GoIsSlot
  <2>2. CASE Goto(t, "clear") /\ UNCHANGED <<callVars, at, run, slots, held, answer>>
    BY <2>2 DEF TypeOK, Goto, callVars, CollapseSteps
  <2>3. CASE EndCollapse(t) /\ UNCHANGED <<slots, held, answer>>
    BY <2>3, EndTypes DEF TypeOK
  <2>4. CASE /\ run[t] # SlotCount
             /\ at' = [at EXCEPT ![t] = (at[t] + 1) % SlotCount]
             /\ run' = [run EXCEPT ![t] = @ + 1]
             /\ UNCHANGED <<pc, callVars, slots, held, answer>>
    <3>1. run[t] + 1 \in 0 .. SlotCount
      BY SMT, <2>4, SlotAssumption DEF TypeOK
    <3> QED
      BY <2>1, <2>4, <3>1 DEF TypeOK, callVars
  <2> QED
    BY <1>10, <2>2, <2>3, <2>4 DEF Scan
<1>11. CASE Clear(t)
  <2>1. at[t] \in Slots
    BY DEF TypeOK
  <2>2. CASE EndCollapse(t) /\ UNCHANGED <<slots, held, answer>>
    BY <2>2, EndTypes DEF TypeOK
  <2>3. CASE /\ slots' = [slots EXCEPT ![at[t]] = EMPTY_SLOT]
             /\ EndCollapse(t) /\ UNCHANGED <<held, answer>>
    BY <2>1, <2>3, EndTypes DEF TypeOK
  <2>4. CASE /\ pc[t] = "clear" /\ run[t] # 1
             /\ slots' = [slots EXCEPT ![at[t]] = EMPTY_SLOT]
             /\ at' = [at EXCEPT ![t] = IF @ = 0 THEN SlotCount - 1 ELSE @ - 1]
             /\ run' = [run EXCEPT ![t] = @ - 1]
             /\ UNCHANGED <<pc, callVars, held, answer>>
    <3>1. run[t] - 1 \in 0 .. SlotCount
      BY SMT, <2>4, SlotAssumption DEF TypeOK, CallsAreKnown, Known, CollapseSteps
    <3>2. (IF at[t] = 0 THEN SlotCount - 1 ELSE at[t] - 1) \in Slots
      BY SMT, <2>1, SlotAssumption DEF Slots
    <3> QED
      BY <2>1, <2>4, <3>1, <3>2 DEF TypeOK, callVars
  <2> QED
    BY <1>11, <2>2, <2>3, <2>4 DEF Clear
<1> QED
  BY <1>1, <1>2, <1>3, <1>4, <1>5, <1>6, <1>7, <1>8, <1>9, <1>10, <1>11 DEF Acts, Step

-----------------------------------------------------------------------------
(* A step of one thread leaves the calls of the others alone. *)
Same(s) ==
    /\ pc'[s] = pc[s] /\ pid'[s] = pid[s] /\ bid'[s] = bid[s]
    /\ probed'[s] = probed[s] /\ tomb'[s] = tomb[s]
    /\ at'[s] = at[s] /\ run'[s] = run[s]

LEMMA OthersStay ==
    ASSUME TypeOK, NEW t \in Threads, Acts(t), NEW s \in Threads, s # t
    PROVE  Same(s)
<1>0. /\ \A x : pc' = [pc EXCEPT ![t] = x] => pc'[s] = pc[s]
      /\ \A x : pid' = [pid EXCEPT ![t] = x] => pid'[s] = pid[s]
      /\ \A x : bid' = [bid EXCEPT ![t] = x] => bid'[s] = bid[s]
      /\ \A x : probed' = [probed EXCEPT ![t] = x] => probed'[s] = probed[s]
      /\ \A x : tomb' = [tomb EXCEPT ![t] = x] => tomb'[s] = tomb[s]
      /\ \A x : at' = [at EXCEPT ![t] = x] => at'[s] = at[s]
      /\ \A x : run' = [run EXCEPT ![t] = x] => run'[s] = run[s]
  BY DEF TypeOK
<1>1. CASE Find(t) \/ Insert(t) \/ EraseIf(t)
  BY <1>0, <1>1 DEF Find, Insert, EraseIf, Start, Goto, Same
<1>2. CASE FindProbe(t)
  BY <1>0, <1>2 DEF FindProbe, Return, Forget, Goto, Same
<1>3. CASE InsertProbe(t)
  BY <1>0, <1>3 DEF InsertProbe, Advance, Retry, Return, Forget, Goto, Same, callVars
<1>4. CASE Cas(t) \/ CasTomb(t)
  BY <1>0, <1>4 DEF Cas, CasTomb, Publish, Retry, Forget, Goto, Same
<1>5. CASE EraseProbe(t) \/ CasErase(t)
  BY <1>0, <1>5 DEF EraseProbe, CasErase, Return, Forget, Goto, Same, callVars
<1>6. CASE Scan(t) \/ Clear(t)
  BY <1>0, <1>6 DEF Scan, Clear, EndCollapse, Forget, Goto, Same, callVars
<1> QED
  BY <1>1, <1>2, <1>3, <1>4, <1>5, <1>6 DEF Acts, Step

LEMMA KnownStep ==
    ASSUME TypeOK, CallsAreKnown, NEW t \in Threads, Acts(t)
    PROVE  CallsAreKnown'
<1>o. ASSUME NEW s \in Threads, s # t
      PROVE  Known(s)'
  BY SMT, <1>o, OthersStay DEF Same, CallsAreKnown, Known
<1> SUFFICES Known(t)'
  BY <1>o DEF CallsAreKnown
<1>0. /\ \A x : pc' = [pc EXCEPT ![t] = x] => pc'[t] = x
      /\ \A x : pid' = [pid EXCEPT ![t] = x] => pid'[t] = x
      /\ \A x : bid' = [bid EXCEPT ![t] = x] => bid'[t] = x
      /\ \A x : probed' = [probed EXCEPT ![t] = x] => probed'[t] = x
      /\ \A x : tomb' = [tomb EXCEPT ![t] = x] => tomb'[t] = x
      /\ \A x : run' = [run EXCEPT ![t] = x] => run'[t] = x
  BY DEF TypeOK
<1>k. Known(t)
  BY DEF CallsAreKnown
<1>r. Return(t, FALSE) \/ (\E a : Return(t, a)) \/ EndCollapse(t) \/ (\E i : Publish(t, i)) => Known(t)'
  BY <1>0 DEF Return, EndCollapse, Publish, Forget, Goto, Known, InCall, InsertSteps, EraseSteps, CollapseSteps
<1>s. ASSUME NEW l \in {"find", "insert", "erase"}, NEW p \in Pids, NEW b, b \in Bids \/ l = "find", Start(t, l, p, b)
      PROVE  Known(t)'
  BY <1>0, <1>k, <1>s DEF Start, Goto, Known, InCall, InsertSteps, EraseSteps, CollapseSteps
<1>y. Retry(t) /\ UNCHANGED <<pid, bid, run>> /\ pc[t] \in InsertSteps => Known(t)'
  BY <1>0, <1>k DEF Retry, Goto, Known, InCall, InsertSteps, EraseSteps, CollapseSteps
<1>1. CASE Find(t)
  BY <1>1, <1>s DEF Find
<1>2. CASE Insert(t)
  BY <1>2, <1>s DEF Insert
<1>3. CASE EraseIf(t)
  <2>1. PICK i \in Slots : slots[i].pid # NoPid /\ Start(t, "erase", slots[i].pid, slots[i].bid)
    BY <1>3 DEF EraseIf
  <2>2. slots[i] \in Entry
    BY <2>1, SlotKinds DEF TypeOK
  <2> QED
    BY <2>1, <2>2, SlotKinds, <1>s
<1>4. CASE FindProbe(t)
  <2>1. CASE \E a : Return(t, a)
    BY <2>1, <1>r
  <2>2. CASE /\ probed' = [probed EXCEPT ![t] = @ + 1]
             /\ UNCHANGED <<slots, pc, pid, bid, tomb, at, run, held, answer>>
    BY <1>4, <2>2, <1>0, <1>k DEF Known, FindProbe
  <2> QED
    BY <1>4, <2>1, <2>2 DEF FindProbe
<1>5. CASE InsertProbe(t)
  <2>0. pc[t] = "insert"
    BY <1>5 DEF InsertProbe
  <2>1. CASE Return(t, FALSE)
    BY <2>1, <1>r
  <2>2. CASE Goto(t, "cas") /\ UNCHANGED <<callVars, slots, at, run, held, answer>>
    BY <2>0, <2>2, <1>0, <1>k DEF Goto, callVars, Known, InCall, InsertSteps, EraseSteps, CollapseSteps
  <2>3. ASSUME NEW first, Advance(t, first), UNCHANGED <<slots, pid, bid, at, run, held, answer>>
        PROVE  Known(t)'
    <3>1. CASE Retry(t)
      BY <3>1, <2>3, <2>0, <1>y DEF InsertSteps
    <3>2. CASE UNCHANGED pc
      BY <2>0, <2>3, <3>2, <1>k DEF Known, InCall, InsertSteps, EraseSteps, CollapseSteps
    <3>3. CASE first # NoSlot /\ Goto(t, "casTomb") /\ tomb' = [tomb EXCEPT ![t] = first]
      BY <2>0, <2>3, <3>3, <1>0, <1>k DEF Goto, Known, InCall, InsertSteps, EraseSteps, CollapseSteps
    <3> QED
      BY <2>3, <3>1, <3>2, <3>3 DEF Advance
  <2> QED
    BY <1>5, <2>1, <2>2, <2>3 DEF InsertProbe
<1>6. CASE Cas(t)
  <2>0. pc[t] = "cas"
    BY <1>6 DEF Cas
  <2>1. CASE \E i : Publish(t, i)
    BY <2>1, <1>r
  <2>2. CASE Retry(t) /\ UNCHANGED <<slots, pid, bid, at, run, held, answer>>
    BY <2>0, <2>2, <1>y DEF InsertSteps
  <2>3. CASE tomb[t] # NoSlot /\ Goto(t, "casTomb") /\ UNCHANGED <<probed, tomb, slots, pid, bid, at, run, held, answer>>
    BY <2>0, <2>3, <1>0, <1>k DEF Goto, Known, InCall, InsertSteps, EraseSteps, CollapseSteps
  <2> QED
    BY <1>6, <2>1, <2>2, <2>3 DEF Cas
<1>7. CASE CasTomb(t)
  BY <1>7, <1>r, <1>y DEF CasTomb, InsertSteps
<1>8. CASE EraseProbe(t)
  <2>0. pc[t] = "erase"
    BY <1>8 DEF EraseProbe
  <2>1. CASE Return(t, FALSE)
    BY <2>1, <1>r
  <2>2. CASE Goto(t, "casErase") /\ UNCHANGED <<callVars, slots, at, run, held, answer>>
    BY <2>0, <2>2, <1>0, <1>k DEF Goto, callVars, Known, InCall, InsertSteps, EraseSteps, CollapseSteps
  <2>3. CASE UNCHANGED <<slots, pc, pid, bid, tomb, at, run, held, answer>>
    BY <2>0, <2>3, <1>k DEF Known
  <2> QED
    BY <1>8, <2>1, <2>2, <2>3 DEF EraseProbe
<1>9. CASE CasErase(t)
  <2>1. CASE Return(t, FALSE)
    BY <2>1, <1>r
  <2>2. CASE pc[t] = "casErase" /\ Goto(t, "scan") /\ UNCHANGED callVars /\ run' = [run EXCEPT ![t] = 1]
    <3>1. run'[t] = 1
      BY <2>2 DEF TypeOK
    <3> QED
      BY SMT, <2>2, <3>1, <1>0, <1>k DEF Goto, callVars, Known, InCall, InsertSteps, EraseSteps, CollapseSteps
  <2> QED
    BY <1>9, <2>1, <2>2 DEF CasErase
<1>10. CASE Scan(t)
  <2>1. CASE EndCollapse(t)
    BY <2>1, <1>r
  <2>2. CASE Goto(t, "clear") /\ UNCHANGED <<callVars, at, run>>
    BY <1>10, <2>2, <1>0, <1>k DEF Scan, Goto, callVars, Known, InCall, InsertSteps, EraseSteps, CollapseSteps
  <2>3. CASE run' = [run EXCEPT ![t] = @ + 1] /\ UNCHANGED <<pc, callVars>>
    <3>1. run'[t] # 0
      BY SMT, <2>3, <1>0, SlotAssumption DEF TypeOK
    <3> QED
      BY <1>10, <2>3, <3>1, <1>k DEF Scan, callVars, Known
  <2> QED
    BY <1>10, <2>1, <2>2, <2>3 DEF Scan
<1>11. CASE Clear(t)
  <2>1. CASE EndCollapse(t)
    BY <2>1, <1>r
  <2>2. CASE run[t] # 1 /\ run' = [run EXCEPT ![t] = @ - 1] /\ UNCHANGED <<pc, callVars>>
    <3>1. run'[t] # 0
      BY SMT, <2>2, <1>0, SlotAssumption DEF TypeOK
    <3> QED
      BY <1>11, <2>2, <3>1, <1>k DEF Clear, callVars, Known
  <2> QED
    BY <1>11, <2>1, <2>2 DEF Clear
<1> QED
  BY <1>1, <1>2, <1>3, <1>4, <1>5, <1>6, <1>7, <1>8, <1>9, <1>10, <1>11 DEF Acts, Step

-----------------------------------------------------------------------------
(* Inserts and erases do not meet: Overlap is FALSE. *)
Phases == ~(Writing(InsertSteps) /\ Writing(EraseSteps \cup CollapseSteps))

LEMMA Disjoint ==
    /\ InsertSteps \cap (EraseSteps \cup CollapseSteps) = {}
    /\ "idle" \notin InsertSteps \cup EraseSteps \cup CollapseSteps
    /\ "find" \notin InsertSteps \cup EraseSteps \cup CollapseSteps
    /\ "insert" \in InsertSteps /\ "cas" \in InsertSteps /\ "casTomb" \in InsertSteps
    /\ "erase" \in EraseSteps /\ "casErase" \in EraseSteps
    /\ "scan" \in CollapseSteps /\ "clear" \in CollapseSteps
  BY DEF InsertSteps, EraseSteps, CollapseSteps

LEMMA Entering ==
    ASSUME TypeOK, NEW t \in Threads, Acts(t)
    PROVE  /\ pc'[t] \in InsertSteps => pc[t] \in InsertSteps \/ Insert(t)
           /\ pc'[t] \in EraseSteps \cup CollapseSteps => pc[t] \in EraseSteps \cup CollapseSteps \/ EraseIf(t)
<1>0. \A x : pc' = [pc EXCEPT ![t] = x] => pc'[t] = x
  BY DEF TypeOK
<1>1. CASE Find(t)
  BY <1>0, <1>1, Disjoint DEF Find, Start, Goto
<1>2. CASE Insert(t)
  BY <1>0, <1>2, Disjoint DEF Insert, Start, Goto
<1>3. CASE EraseIf(t)
  BY <1>0, <1>3, Disjoint DEF EraseIf, Start, Goto
<1>4. CASE FindProbe(t)
  BY <1>0, <1>4, Disjoint DEF FindProbe, Return, Goto
<1>5. CASE InsertProbe(t)
  BY <1>0, <1>5, Disjoint DEF InsertProbe, Advance, Retry, Return, Goto
<1>6. CASE Cas(t) \/ CasTomb(t)
  BY <1>0, <1>6, Disjoint DEF Cas, CasTomb, Publish, Retry, Goto
<1>7. CASE EraseProbe(t) \/ CasErase(t)
  BY <1>0, <1>7, Disjoint DEF EraseProbe, CasErase, Return, Goto
<1>8. CASE Scan(t) \/ Clear(t)
  BY <1>0, <1>8, Disjoint DEF Scan, Clear, EndCollapse, Goto
<1> QED
  BY <1>1, <1>2, <1>3, <1>4, <1>5, <1>6, <1>7, <1>8 DEF Acts, Step

LEMMA PhaseStep ==
    ASSUME ~Overlap, TypeOK, Phases, NEW t \in Threads, Acts(t)
    PROVE  Phases'
<1> SUFFICES ASSUME NEW r \in Threads, pc'[r] \in InsertSteps,
                    NEW s \in Threads, pc'[s] \in EraseSteps \cup CollapseSteps
             PROVE  FALSE
  BY DEF Phases, Writing
<1>1. r # s
  BY Disjoint
<1>2. pc[r] \in InsertSteps \/ (r = t /\ Insert(t))
  BY OthersStay, Entering DEF Same
<1>3. pc[s] \in EraseSteps \cup CollapseSteps \/ (s = t /\ EraseIf(t))
  BY OthersStay, Entering DEF Same
<1>4. r = t /\ Insert(t) => pc[s] \notin EraseSteps \cup CollapseSteps
  BY DEF Insert, Writing
<1>5. s = t /\ EraseIf(t) => pc[r] \notin InsertSteps
  BY DEF EraseIf, Writing
<1> QED
  BY <1>1, <1>2, <1>3, <1>4, <1>5 DEF Phases, Writing

-----------------------------------------------------------------------------
(* The steps that change a slot. *)
Target(t) == IF tomb[t] = NoSlot THEN At(t) ELSE tomb[t]
Takes(t) ==
    /\ pc[t] \in {"cas", "casTomb"}
    /\ slots[Target(t)] = IF tomb[t] = NoSlot THEN EMPTY_SLOT ELSE TOMBSTONE_SLOT
    /\ Publish(t, Target(t))
Drops(t) ==
    /\ pc[t] = "casErase"
    /\ slots[At(t)] = [pid |-> pid[t], bid |-> bid[t]]
    /\ Change(t, At(t), TOMBSTONE_SLOT, NoBid)
    /\ Goto(t, "scan")
    /\ UNCHANGED callVars
    /\ at' = [at EXCEPT ![t] = At(t)]
    /\ run' = [run EXCEPT ![t] = 1]
Clears(t) ==
    /\ pc[t] = "clear"
    /\ slots[at[t]] = TOMBSTONE_SLOT
    /\ slots' = [slots EXCEPT ![at[t]] = EMPTY_SLOT]
    /\ \/ Goto(t, "idle") /\ Forget(t)
       \/ at' = [at EXCEPT ![t] = IF @ = 0 THEN SlotCount - 1 ELSE @ - 1] /\ UNCHANGED <<pc, callVars>>
    /\ UNCHANGED <<held, answer>>

LEMMA SlotMoves ==
    ASSUME CallsAreKnown, NEW t \in Threads, Acts(t)
    PROVE  UNCHANGED slots \/ Takes(t) \/ Drops(t) \/ Clears(t)
<1>1. CASE Find(t) \/ Insert(t) \/ EraseIf(t)
  BY <1>1 DEF Find, Insert, EraseIf, Start
<1>2. CASE FindProbe(t) \/ InsertProbe(t) \/ EraseProbe(t)
  BY <1>2 DEF FindProbe, InsertProbe, EraseProbe, Return
<1>3. CASE Cas(t)
  BY <1>3 DEF Cas, Takes, Target
<1>4. CASE CasTomb(t)
  <2>1. tomb[t] # NoSlot
    BY <1>4 DEF CasTomb, CallsAreKnown, Known
  <2> QED
    BY <1>4, <2>1 DEF CasTomb, Takes, Target
<1>5. CASE CasErase(t)
  BY <1>5 DEF CasErase, Drops, Return
<1>6. CASE Scan(t)
  BY <1>6 DEF Scan
<1>7. CASE Clear(t)
  BY <1>7 DEF Clear, Clears, EndCollapse
<1> QED
  BY <1>1, <1>2, <1>3, <1>4, <1>5, <1>6, <1>7 DEF Acts, Step

-----------------------------------------------------------------------------
(* A page is in one slot at most, and no empty slot precedes it on the way  *)
(* of its probe.                                                            *)
Once == \A i, j \in Slots : Taken(i) /\ slots[i].pid = slots[j].pid => i = j
Reach ==
    \A i, j \in Slots : Taken(j) =>
        LET h == Hash[slots[j].pid] IN Ahead(h, i) <= Ahead(h, j) => slots[i] # EMPTY_SLOT

(* What an insert knows of the slots it has passed: up to the first         *)
(* tombstone they hold other pages for good, and while that tombstone is    *)
(* there nobody has inserted the page behind it.                            *)
Other(i, t) == Taken(i) /\ slots[i].pid # pid[t]
InsertOk(t) ==
    LET h == Hash[pid[t]] IN
    /\ \A i \in Slots : Ahead(h, i) < (IF tomb[t] = NoSlot THEN probed[t] ELSE Ahead(h, tomb[t])) => Other(i, t)
    /\ tomb[t] # NoSlot => slots[tomb[t]] # EMPTY_SLOT
    /\ tomb[t] # NoSlot /\ slots[tomb[t]] = TOMBSTONE_SLOT =>
          \A i \in Slots : pc[t] # "insert" \/ Ahead(h, i) < probed[t] => slots[i].pid # pid[t]
Inserting == \A t \in Threads : pc[t] \in InsertSteps => InsertOk(t)

(* A collapse clears a slot whose successor is empty, or the whole table. *)
CollapseOk(t) ==
    /\ pc[t] = "scan" => \A i \in Slots : Ahead(i, at[t]) < run[t] => ~Taken(i)
    /\ pc[t] = "clear" => (\A i \in Slots : ~Taken(i)) \/ slots[Go(at[t], 1)] = EMPTY_SLOT
Collapsing == \A t \in Threads : CollapseOk(t)

LEMMA TakesFacts ==
    ASSUME TypeOK, CallsAreKnown, Reach, Inserting, NEW t \in Threads, Takes(t)
    PROVE  /\ Target(t) \in Slots /\ ~Taken(Target(t)) /\ pid[t] \in Pids /\ Hash[pid[t]] \in Slots
           /\ \A i \in Slots : Ahead(Hash[pid[t]], i) < Ahead(Hash[pid[t]], Target(t)) => Other(i, t)
           /\ \A i \in Slots : slots[i].pid # pid[t]
           /\ slots'[Target(t)] = [pid |-> pid[t], bid |-> bid[t]]
           /\ slots'[Target(t)].pid = pid[t] /\ slots'[Target(t)] \in Entry
           /\ \A i \in Slots : i # Target(t) => slots'[i] = slots[i]
           /\ pc'[t] = "idle"
<1>0. pc[t] \in InsertSteps /\ pc[t] \in InCall /\ pc[t] # "insert"
  BY DEF Takes, InsertSteps, InCall
<1>1. /\ pid[t] \in Pids /\ Hash[pid[t]] \in Slots /\ probed[t] \in Slots
      /\ At(t) = Go(Hash[pid[t]], probed[t]) /\ At(t) \in Slots
  BY <1>0, AtIsSlot
<1>2. Ahead(Hash[pid[t]], At(t)) = probed[t]
  BY <1>1, AheadGo
<1>3. Target(t) \in Slots
  BY <1>1 DEF Target, TypeOK
<1>4. ~Taken(Target(t))
  BY SlotKinds DEF Takes, Taken
<1>5. InsertOk(t)
  BY <1>0 DEF Inserting
<1>6. \A i \in Slots : Ahead(Hash[pid[t]], i) < Ahead(Hash[pid[t]], Target(t)) => Other(i, t)
  BY <1>5, <1>2 DEF InsertOk, Target
<1>7. ASSUME NEW i \in Slots, slots[i].pid = pid[t]
      PROVE  FALSE
  <2>1. CASE tomb[t] # NoSlot
    BY <2>1, <1>0, <1>5, <1>7 DEF InsertOk, Takes, Target
  <2>2. CASE tomb[t] = NoSlot
    <3>1. slots[At(t)] = EMPTY_SLOT /\ Target(t) = At(t)
      BY <2>2 DEF Takes, Target
    <3>2. ~(Ahead(Hash[pid[t]], i) < probed[t])
      BY <3>1, <1>2, <1>6, <1>7 DEF Other
    <3>3. probed[t] <= Ahead(Hash[pid[t]], i)
      BY <3>2, <1>1, AheadIsSlot, SlotOrder
    <3>4. Taken(i)
      BY <1>1, <1>7, NullAssumption DEF Taken
    <3> QED
      BY <3>1, <3>3, <3>4, <1>1, <1>2, <1>7 DEF Reach
  <2> QED
    BY <2>1, <2>2
<1>8. bid[t] \in Bids
  BY <1>0 DEF CallsAreKnown, Known
<1>9. slots' = [slots EXCEPT ![Target(t)] = [pid |-> pid[t], bid |-> bid[t]]]
  BY DEF Takes, Publish, Change
<1>10. slots'[Target(t)] = [pid |-> pid[t], bid |-> bid[t]] /\ \A i \in Slots : i # Target(t) => slots'[i] = slots[i]
  BY <1>3, <1>9 DEF TypeOK
<1>11. pc'[t] = "idle"
  BY DEF Takes, Publish, Goto, TypeOK
<1>12. slots'[Target(t)].pid = pid[t]
  BY SMT, <1>10
<1> QED
  BY <1>1, <1>3, <1>4, <1>6, <1>7, <1>8, <1>10, <1>11, <1>12, SlotKinds

LEMMA DropsFacts ==
    ASSUME TypeOK, CallsAreKnown, NEW t \in Threads, Drops(t)
    PROVE  /\ At(t) \in Slots /\ Taken(At(t)) /\ pid[t] \in Pids /\ slots[At(t)].pid = pid[t]
           /\ slots[At(t)].bid = bid[t] /\ slots[At(t)] \in Entry
           /\ slots'[At(t)] = TOMBSTONE_SLOT
           /\ \A i \in Slots : i # At(t) => slots'[i] = slots[i]
           /\ pc'[t] = "scan" /\ at'[t] = At(t) /\ run'[t] = 1
<1>1. pid[t] \in Pids /\ At(t) \in Slots
  BY AtIsSlot DEF Drops, InCall, EraseSteps
<1>2. bid[t] \in Bids
  BY DEF Drops, EraseSteps, CallsAreKnown, Known
<1>3. slots[At(t)].pid = pid[t] /\ slots[At(t)].bid = bid[t]
  BY SMT DEF Drops
<1>4. slots[At(t)] \in Entry
  BY <1>1, <1>2, SlotKinds DEF Drops
<1>5. slots'[At(t)] = TOMBSTONE_SLOT /\ \A i \in Slots : i # At(t) => slots'[i] = slots[i]
  BY <1>1 DEF Drops, Change, TypeOK
<1>6. pc'[t] = "scan" /\ at'[t] = At(t) /\ run'[t] = 1
  BY DEF Drops, Goto, TypeOK
<1> QED
  BY <1>1, <1>3, <1>4, <1>5, <1>6, NullAssumption DEF Taken

LEMMA ClearsFacts ==
    ASSUME TypeOK, CallsAreKnown, NEW t \in Threads, Clears(t)
    PROVE  /\ at[t] \in Slots /\ ~Taken(at[t])
           /\ slots'[at[t]] = EMPTY_SLOT
           /\ \A i \in Slots : i # at[t] => slots'[i] = slots[i]
           /\ pc'[t] = "idle" \/ (pc'[t] = "clear" /\ Go(at'[t], 1) = at[t])
<1>1. at[t] \in Slots
  BY DEF TypeOK
<1>2. ~Taken(at[t])
  BY SlotKinds DEF Taken, Clears
<1>3. slots'[at[t]] = EMPTY_SLOT /\ \A i \in Slots : i # at[t] => slots'[i] = slots[i]
  BY <1>1 DEF Clears, TypeOK
<1>4. CASE Goto(t, "idle")
  BY <1>1, <1>2, <1>3, <1>4 DEF Goto, TypeOK
<1>5. CASE at' = [at EXCEPT ![t] = IF @ = 0 THEN SlotCount - 1 ELSE @ - 1] /\ UNCHANGED <<pc, callVars>>
  <2>1. at'[t] = (IF at[t] = 0 THEN SlotCount - 1 ELSE at[t] - 1) /\ pc'[t] = "clear"
    BY <1>5 DEF TypeOK, Clears
  <2>2. Go(at'[t], 1) = at[t]
    BY SMT, <2>1, <1>1, SlotAssumption DEF Slots, Go
  <2> QED
    BY <1>1, <1>2, <1>3, <2>1, <2>2
<1> QED
  BY <1>4, <1>5 DEF Clears

-----------------------------------------------------------------------------
LEMMA OnceStep ==
    ASSUME TypeOK, CallsAreKnown, Once, Reach, Inserting, NEW t \in Threads, Acts(t)
    PROVE  Once'
<1>1. CASE UNCHANGED slots
  BY <1>1 DEF Once, Taken
<1>2. CASE Takes(t)
  <2>1. /\ Target(t) \in Slots
        /\ \A i \in Slots : slots[i].pid # slots'[Target(t)].pid
        /\ \A i \in Slots : i # Target(t) => slots'[i] = slots[i]
    BY <1>2, TakesFacts
  <2> QED
    BY ZenonT(40), <2>1 DEF Once, Taken
<1>3. CASE Drops(t) \/ Clears(t)
  <2>1. \A i \in Slots : slots'[i].pid # NoPid => slots'[i] = slots[i]
    BY <1>3, DropsFacts, ClearsFacts, SlotKinds
  <2> QED
    BY <2>1 DEF Once, Taken
<1> QED
  BY <1>1, <1>2, <1>3, SlotMoves

LEMMA ReachStep ==
    ASSUME TypeOK, CallsAreKnown, Reach, Inserting, Collapsing, NEW t \in Threads, Acts(t)
    PROVE  Reach'
<1> SUFFICES ASSUME NEW i \in Slots, NEW j \in Slots, slots'[j].pid # NoPid,
                    Ahead(Hash[slots'[j].pid], i) <= Ahead(Hash[slots'[j].pid], j),
                    slots'[i] = EMPTY_SLOT
             PROVE  FALSE
  BY DEF Reach, Taken
<1>1. CASE UNCHANGED slots
  BY <1>1 DEF Reach, Taken
<1>2. CASE Takes(t)
  <2>0. i # Target(t)
    BY <1>2, TakesFacts, SlotKinds
  <2>1. slots[i] = EMPTY_SLOT
    BY <1>2, <2>0, TakesFacts
  <2>2. CASE j # Target(t)
    <3>1. slots'[j] = slots[j]
      BY <1>2, <2>2, TakesFacts
    <3> QED
      BY <2>1, <3>1 DEF Reach, Taken
  <2>3. CASE j = Target(t)
    <3>1. slots'[j].pid = pid[t] /\ Hash[pid[t]] \in Slots
      BY <1>2, <2>3, TakesFacts
    <3>2. Ahead(Hash[pid[t]], i) < Ahead(Hash[pid[t]], j)
      BY ZenonT(40), <2>0, <2>3, <3>1, AheadIsSlot, AheadOnce, SlotOrder
    <3> QED
      BY ZenonT(40), <1>2, <2>1, <2>3, <3>2, TakesFacts, SlotKinds DEF Other, Taken
  <2> QED
    BY <2>2, <2>3
<1>3. CASE Drops(t)
  <2>1. slots[i] = EMPTY_SLOT /\ slots[j] = slots'[j]
    BY <1>3, DropsFacts, SlotKinds
  <2> QED
    BY <2>1 DEF Reach, Taken
<1>4. CASE Clears(t)
  <2>0. j # at[t] /\ slots'[j] = slots[j] /\ Taken(j) /\ at[t] \in Slots
    BY <1>4, ClearsFacts, SlotKinds DEF Taken
  <2>1. CASE i # at[t]
    BY <1>4, <2>0, <2>1, ClearsFacts DEF Reach
  <2>2. CASE i = at[t]
    <3>1. slots[j].pid \in Pids
      BY <2>0, SlotKinds DEF Taken, TypeOK
    <3>2. Hash[slots[j].pid] \in Slots
      BY <3>1, SlotAssumption
    <3>3. Ahead(Hash[slots[j].pid], i) < Ahead(Hash[slots[j].pid], j)
      BY <2>0, <2>2, <3>2, AheadIsSlot, AheadOnce, SlotOrder
    <3>4. Ahead(Hash[slots[j].pid], Go(i, 1)) <= Ahead(Hash[slots[j].pid], j)
      BY <3>2, <3>3, AheadNext
    <3>5. Go(i, 1) \in Slots
      BY SMT, GoIsSlot, SlotAssumption
    <3>6. slots[Go(i, 1)] = EMPTY_SLOT
      BY <1>4, <2>0, <2>2 DEF Collapsing, CollapseOk, Clears
    <3> QED
      BY <2>0, <3>4, <3>5, <3>6 DEF Reach
  <2> QED
    BY <2>1, <2>2
<1> QED
  BY <1>1, <1>2, <1>3, <1>4, SlotMoves

LEMMA CollapseStep ==
    ASSUME TypeOK, CallsAreKnown, Phases, Reach, Inserting, Collapsing, NEW t \in Threads, Acts(t)
    PROVE  Collapsing'
<1>0. ASSUME NEW s \in Threads, s # t
      PROVE  pc'[s] = pc[s] /\ at'[s] = at[s] /\ run'[s] = run[s] /\ CollapseOk(s)
  BY <1>0, OthersStay DEF Same, Collapsing
<1>1. CASE Takes(t)
  <2>1. \A s \in Threads : pc[s] # "scan" /\ pc[s] # "clear"
    BY <1>1, Disjoint DEF Takes, Phases, Writing
  <2>2. \A s \in Threads : pc'[s] # "scan" /\ pc'[s] # "clear"
    BY <1>0, <1>1, <2>1, TakesFacts
  <2> QED
    BY <2>2 DEF Collapsing, CollapseOk
<1>2. CASE Drops(t)
  <2>0. \A i \in Slots : (~Taken(i) => slots'[i] = slots[i]) /\ (~Taken(i) => ~Taken(i)')
    BY <1>2, DropsFacts DEF Taken
  <2>1. ASSUME NEW s \in Threads, s # t
        PROVE  CollapseOk(s)'
    <3>1. at[s] \in Slots /\ Go(at[s], 1) \in Slots
      BY SMT, GoIsSlot, SlotAssumption DEF TypeOK
    <3>2. slots[Go(at[s], 1)] = EMPTY_SLOT => slots'[Go(at[s], 1)] = EMPTY_SLOT
      BY <2>0, <3>1, SlotKinds DEF Taken
    <3> QED
      BY <1>0, <2>0, <2>1, <3>2 DEF CollapseOk
  <2>2. CollapseOk(t)'
    <3>1. \A i \in Slots : Ahead(i, At(t)) < 1 => i = At(t)
      BY SMT, <1>2, DropsFacts, SlotAssumption DEF Slots, Ahead
    <3>2. slots'[At(t)].pid = NoPid /\ pc'[t] = "scan" /\ at'[t] = At(t) /\ run'[t] = 1
      BY <1>2, DropsFacts, SlotKinds
    <3> QED
      BY <3>1, <3>2 DEF CollapseOk, Taken
  <2> QED
    BY <2>1, <2>2 DEF Collapsing
<1>3. CASE Clears(t)
  <2>0. \A i \in Slots : (~Taken(i) => ~Taken(i)') /\ (slots[i] = EMPTY_SLOT => slots'[i] = EMPTY_SLOT)
    BY <1>3, ClearsFacts, SlotKinds DEF Taken
  <2>1. ASSUME NEW s \in Threads, s # t
        PROVE  CollapseOk(s)'
    <3>1. Go(at[s], 1) \in Slots
      BY SMT, GoIsSlot, SlotAssumption DEF TypeOK
    <3> QED
      BY <1>0, <2>0, <2>1, <3>1 DEF CollapseOk
  <2>2. CollapseOk(t)'
    BY <1>3, ClearsFacts DEF CollapseOk
  <2> QED
    BY <2>1, <2>2 DEF Collapsing
<1>4. CASE UNCHANGED slots
  <2>1. ASSUME NEW s \in Threads, s # t
        PROVE  CollapseOk(s)'
    BY <1>0, <1>4, <2>1 DEF CollapseOk, Taken
  <2>2. CollapseOk(t)'
    <3>0. pc'[t] \in {"scan", "clear"} => Scan(t) /\ pc[t] = "scan"
      <4>1. \A x : pc' = [pc EXCEPT ![t] = x] => pc'[t] = x
        BY DEF TypeOK
      <4>2. CASE Find(t) \/ Insert(t) \/ EraseIf(t) \/ FindProbe(t) \/ InsertProbe(t)
        BY <4>1, <4>2 DEF Find, Insert, EraseIf, Start, FindProbe, InsertProbe, Advance, Retry, Return, Goto
      <4>3. CASE Cas(t) \/ CasTomb(t)
        BY <4>1, <4>3 DEF Cas, CasTomb, Publish, Retry, Goto
      <4>4. CASE EraseProbe(t)
        BY <4>1, <4>4 DEF EraseProbe, Return, Goto
      <4>5. CASE CasErase(t)
        <5>1. CASE Return(t, FALSE)
          BY <4>1, <5>1 DEF Return, Goto
        <5>2. CASE Drops(t)
          BY <1>4, <5>2, DropsFacts, SlotKinds
        <5> QED
          BY <4>5, <5>1, <5>2 DEF CasErase, Drops
      <4>6. CASE Clear(t)
        <5>1. CASE EndCollapse(t)
          BY <4>1, <5>1 DEF EndCollapse, Goto
        <5>2. CASE Clears(t)
          BY <1>4, <5>2, ClearsFacts, SlotKinds DEF Clears
        <5> QED
          BY <4>6, <5>1, <5>2 DEF Clear, Clears, EndCollapse
      <4>7. CASE Scan(t)
        BY <4>7 DEF Scan
      <4> QED
        BY <4>2, <4>3, <4>4, <4>5, <4>6, <4>7 DEF Acts, Step
    <3> SUFFICES ASSUME Scan(t), pc[t] = "scan"
                 PROVE  CollapseOk(t)'
      BY <3>0 DEF CollapseOk
    <3>1. at[t] \in Slots /\ 1 \in 0 .. SlotCount /\ run[t] \in 0 .. SlotCount
      BY SMT, SlotAssumption DEF TypeOK
    <3>2. (at[t] + 1) % SlotCount = Go(at[t], 1) /\ Go(at[t], 1) \in Slots
      BY <3>1, ModGo, GoIsSlot
    <3>3. \A i \in Slots : Ahead(i, at[t]) < run[t] => ~Taken(i)
      BY DEF Collapsing, CollapseOk
    <3>4. CASE Goto(t, "clear") /\ at' = at /\ (run[t] = SlotCount \/ slots[Go(at[t], 1)] = EMPTY_SLOT)
      <4>1. pc'[t] = "clear"
        BY <3>4 DEF Goto, TypeOK
      <4>2. CASE run[t] = SlotCount
        <5>1. \A i \in Slots : Ahead(i, at[t]) < run[t]
          BY <3>1, <4>2, AheadIsSlot, SlotOrder
        <5> QED
          BY <1>4, <3>3, <4>1, <5>1 DEF CollapseOk, Taken
      <4>3. CASE slots[Go(at[t], 1)] = EMPTY_SLOT
        BY <1>4, <3>4, <4>1, <4>3 DEF CollapseOk
      <4> QED
        BY <3>4, <4>2, <4>3
    <3>5. CASE /\ slots[Go(at[t], 1)] = TOMBSTONE_SLOT
               /\ at' = [at EXCEPT ![t] = Go(at[t], 1)]
               /\ run' = [run EXCEPT ![t] = @ + 1]
               /\ UNCHANGED pc
      <4>1. at'[t] = Go(at[t], 1) /\ run'[t] = run[t] + 1 /\ pc'[t] = "scan"
        BY <3>5 DEF TypeOK
      <4>2. ASSUME NEW i \in Slots, Ahead(i, Go(at[t], 1)) < run[t] + 1
            PROVE  ~Taken(i)
        <5>1. CASE i = Go(at[t], 1)
          BY <3>5, <5>1, SlotKinds DEF Taken
        <5>2. CASE i # Go(at[t], 1)
          <6>1. Ahead(i, Go(at[t], 1)) = Ahead(i, at[t]) + 1 /\ Ahead(i, at[t]) \in Slots
            BY <3>1, <5>2, AheadScan, AheadIsSlot
          <6>2. Ahead(i, at[t]) < run[t]
            BY SMT, <3>1, <4>2, <6>1, SlotAssumption DEF Slots
          <6> QED
            BY <3>3, <6>2
        <5> QED
          BY <5>1, <5>2
      <4> QED
        BY <1>4, <4>1, <4>2 DEF CollapseOk, Taken
    <3>6. CASE EndCollapse(t)
      BY <3>6 DEF EndCollapse, Goto, CollapseOk, TypeOK
    <3> QED
      BY <3>2, <3>4, <3>5, <3>6 DEF Scan
  <2> QED
    BY <2>1, <2>2 DEF Collapsing
<1> QED
  BY <1>1, <1>2, <1>3, <1>4, SlotMoves

LEMMA InsertOkStart ==
    ASSUME NEW t \in Threads, pc'[t] = "insert", probed'[t] = 0, tomb'[t] = NoSlot,
           Hash[pid'[t]] \in Slots
    PROVE  InsertOk(t)'
<1>1. \A i \in Slots : ~(Ahead(Hash[pid'[t]], i) < 0)
  BY AheadIsSlot, SlotOrder
<1> QED
  BY <1>1 DEF InsertOk

LEMMA InsertStep ==
    ASSUME TypeOK, CallsAreKnown, Phases, Reach, Inserting, NEW t \in Threads, Acts(t)
    PROVE  Inserting'
<1>0. \A s \in Threads : s # t => Same(s)
  BY OthersStay
<1>1. CASE Takes(t)
  <2> SUFFICES ASSUME NEW s \in Threads, s # t, pc[s] \in InsertSteps
               PROVE  InsertOk(s)'
    BY ZenonT(40), <1>0, <1>1, TakesFacts, Disjoint DEF Inserting, Same
  <2>0. InsertOk(s) /\ Same(s)
    BY <1>0 DEF Inserting
  <2>1. PICK x \in Slots : x = Target(t)
    BY <1>1, TakesFacts
  <2>2. /\ ~Taken(x) /\ slots'[x].pid = pid[t] /\ slots'[x] # EMPTY_SLOT /\ slots'[x] # TOMBSTONE_SLOT
        /\ slots'[x].pid # NoPid
        /\ \A i \in Slots : i # x => slots'[i] = slots[i]
        /\ \A i \in Slots : Ahead(Hash[pid[t]], i) < Ahead(Hash[pid[t]], x) => Other(i, t)
    BY <1>1, <2>1, TakesFacts, SlotKinds
  <2>3. pid[s] \in Pids /\ Hash[pid[s]] \in Slots /\ (tomb[s] # NoSlot => tomb[s] \in Slots)
    BY SlotAssumption DEF CallsAreKnown, Known, InCall, TypeOK
  <2>4. \A i \in Slots : Other(i, s) => slots'[i] = slots[i]
    BY <2>2 DEF Other
  <2>5. tomb[s] # NoSlot => slots'[tomb[s]] # EMPTY_SLOT
    BY <2>0, <2>2, <2>3 DEF InsertOk
  <2>6. ASSUME tomb[s] # NoSlot, slots'[tomb[s]] = TOMBSTONE_SLOT,
               NEW i \in Slots, pc[s] # "insert" \/ Ahead(Hash[pid[s]], i) < probed[s], slots'[i].pid = pid[s]
        PROVE  FALSE
    <3>1. tomb[s] \in Slots /\ tomb[s] # x /\ slots[tomb[s]] = TOMBSTONE_SLOT
      BY <2>2, <2>3, <2>6
    <3>2. i = x
      BY <2>0, <2>2, <2>6, <3>1 DEF InsertOk
    <3>3. pid[s] = pid[t]
      BY <2>2, <2>6, <3>2
    <3>4. ~(Ahead(Hash[pid[s]], tomb[s]) < Ahead(Hash[pid[s]], x))
      BY <2>2, <3>1, <3>3, SlotKinds DEF Other, Taken
    <3>5. ~(Ahead(Hash[pid[s]], x) < Ahead(Hash[pid[s]], tomb[s]))
      BY <2>0, <2>2, <2>6 DEF InsertOk, Other
    <3>6. Ahead(Hash[pid[s]], tomb[s]) = Ahead(Hash[pid[s]], x)
      BY <2>3, <3>1, <3>4, <3>5, AheadIsSlot, SlotOrder
    <3> QED
      BY <2>3, <3>1, <3>6, AheadOnce
  <2>7. \A i \in Slots : Other(i, s) => slots'[i].pid # NoPid /\ slots'[i].pid # pid[s]
    BY <2>4 DEF Other, Taken
  <2> QED
    BY <2>0, <2>5, <2>6, <2>7 DEF InsertOk, Same, Other, Taken
<1>2. CASE Drops(t) \/ Clears(t)
  <2>1. pc[t] \in EraseSteps \cup CollapseSteps
    BY <1>2, Disjoint DEF Drops, Clears
  <2>2. \A s \in Threads : pc[s] \notin InsertSteps
    BY <2>1 DEF Phases, Writing
  <2>3. pc'[t] \in {"idle", "scan", "clear"}
    BY <1>2, DropsFacts, ClearsFacts
  <2>4. pc'[t] \notin InsertSteps
    BY <2>3 DEF InsertSteps
  <2> QED
    BY <1>0, <2>2, <2>4 DEF Inserting, Same
<1>3. CASE UNCHANGED slots
  <2>1. ASSUME NEW s \in Threads, s # t, pc'[s] \in InsertSteps
        PROVE  InsertOk(s)'
    BY SMT, <1>0, <1>3, <2>1 DEF Inserting, InsertOk, Same, Other, Taken
  <2>2. ASSUME pc'[t] \in InsertSteps
        PROVE  InsertOk(t)'
    <3>0. /\ \A x : pc' = [pc EXCEPT ![t] = x] => pc'[t] = x
          /\ \A x : pid' = [pid EXCEPT ![t] = x] => pid'[t] = x
          /\ \A x : probed' = [probed EXCEPT ![t] = x] => probed'[t] = x
          /\ \A x : tomb' = [tomb EXCEPT ![t] = x] => tomb'[t] = x
      BY DEF TypeOK
    <3>1. CASE Insert(t)
      <4>1. PICK p \in Pids, b \in Bids : Start(t, "insert", p, b)
        BY <3>1 DEF Insert
      <4>2. probed[t] = 0 /\ tomb[t] = NoSlot
        BY <4>1, Disjoint DEF Start, CallsAreKnown, Known
      <4>3. pc'[t] = "insert" /\ probed'[t] = 0 /\ tomb'[t] = NoSlot /\ pid'[t] = p
        BY <3>0, <4>1, <4>2 DEF Start, Goto
      <4> QED
        BY <4>3, InsertOkStart, SlotAssumption
    <3>2. ASSUME pc[t] \in InsertSteps
          PROVE  InsertOk(t)'
      <4>0. /\ InsertOk(t) /\ pid[t] \in Pids /\ Hash[pid[t]] \in Slots /\ probed[t] \in Slots
            /\ At(t) = Go(Hash[pid[t]], probed[t]) /\ At(t) \in Slots
            /\ slots[At(t)] \in Entry \cup {EMPTY_SLOT, TOMBSTONE_SLOT}
        BY <3>2, AtIsSlot DEF Inserting, InCall
      <4>1. Ahead(Hash[pid[t]], At(t)) = probed[t]
        BY SMT, <4>0, AheadGo
      <4>2. CASE Retry(t) /\ pid' = pid
        BY <3>0, <4>0, <4>2, InsertOkStart DEF Retry, Goto
      <4>3. CASE InsertProbe(t)
        <5>0. pc[t] = "insert"
          BY <4>3 DEF InsertProbe
        <5>1. CASE slots[At(t)] = EMPTY_SLOT /\ Goto(t, "cas") /\ UNCHANGED callVars
          <6>1. ASSUME NEW i \in Slots, ~(Ahead(Hash[pid[t]], i) < probed[t])
                PROVE  slots[i].pid # pid[t]
            <7>1. probed[t] <= Ahead(Hash[pid[t]], i)
              BY <4>0, <6>1, AheadIsSlot, SlotOrder
            <7> QED
              BY <4>0, <4>1, <5>1, <7>1, NullAssumption DEF Reach, Taken
          <6> QED
            BY <1>3, <4>0, <5>0, <5>1, <6>1 DEF callVars, InsertOk, Other, Taken
        <5>2. CASE Return(t, FALSE)
          BY <2>2, <3>0, <5>2, Disjoint DEF Return, Goto
        <5>3. ASSUME NEW first, first = IF slots[At(t)] = TOMBSTONE_SLOT /\ tomb[t] = NoSlot THEN At(t) ELSE tomb[t],
                     slots[At(t)] # EMPTY_SLOT, slots[At(t)].pid # pid[t],
                     Advance(t, first), pid' = pid
              PROVE  InsertOk(t)'
          <6>0. \A i \in Slots : Ahead(Hash[pid[t]], i) = probed[t] => i = At(t)
            BY <4>0, <4>1, AheadOnce
          <6>1. \A i \in Slots : Ahead(Hash[pid[t]], i) < probed[t] + 1 =>
                   Ahead(Hash[pid[t]], i) < probed[t] \/ i = At(t)
            BY <4>0, <6>0, AheadIsSlot, SlotOrder
          <6>2. first = NoSlot => tomb[t] = NoSlot /\ Other(At(t), t)
            BY SMT, <4>0, <5>3, SlotKinds, SlotAssumption DEF Other, Taken, Slots, NoSlot
          <6>3. first # NoSlot =>
                  /\ \A i \in Slots : Ahead(Hash[pid[t]], i) < Ahead(Hash[pid[t]], first) => Other(i, t)
                  /\ slots[first] # EMPTY_SLOT
                  /\ slots[first] = TOMBSTONE_SLOT =>
                        \A i \in Slots : Ahead(Hash[pid[t]], i) < probed[t] \/ i = At(t) => slots[i].pid # pid[t]
            BY <4>0, <4>1, <5>0, <5>3 DEF InsertOk, Other
          <6>4. CASE probed[t] + 1 < SlotCount
            <7>1. probed'[t] = probed[t] + 1 /\ tomb'[t] = first /\ pc'[t] = "insert"
              BY <3>0, <5>0, <5>3, <6>4 DEF Advance
            <7>2. tomb[t] = NoSlot => \A i \in Slots : Ahead(Hash[pid[t]], i) < probed[t] => Other(i, t)
              BY <4>0 DEF InsertOk
            <7> QED
              BY <1>3, <5>3, <6>1, <6>2, <6>3, <7>1, <7>2 DEF InsertOk, Other, Taken
          <6>5. CASE ~(probed[t] + 1 < SlotCount) /\ first # NoSlot
            <7>1. probed'[t] = probed[t] /\ tomb'[t] = first
              BY <3>0, <5>3, <6>5 DEF Advance
            <7>2. \A i \in Slots : Ahead(Hash[pid[t]], i) < probed[t] \/ i = At(t)
              BY <4>0, <6>0, <6>5, AheadIsSlot, SlotOrder
            <7> QED
              BY <1>3, <5>3, <6>3, <6>5, <7>1, <7>2 DEF InsertOk, Other, Taken
          <6>6. CASE Retry(t)
            BY <4>2, <5>3, <6>6
          <6> QED
            BY <5>3, <6>4, <6>5, <6>6 DEF Advance
        <5> QED
          BY <4>3, <5>1, <5>2, <5>3 DEF InsertProbe
      <4>4. CASE Cas(t) /\ tomb[t] # NoSlot /\ slots[tomb[t]] # TOMBSTONE_SLOT
        <5>1. UNCHANGED <<probed, tomb, pid>>
          BY <4>4 DEF Cas
        <5> QED
          BY <1>3, <4>0, <4>4, <5>1 DEF InsertOk, Other, Taken
      <4>5. CASE Publish(t, Target(t))
        BY <2>2, <3>0, <4>5, Disjoint DEF Publish, Goto
      <4>6. pc[t] \notin {"idle", "find", "erase", "casErase", "scan", "clear"}
        BY <3>2, Disjoint
      <4>7. InsertProbe(t) \/ Cas(t) \/ CasTomb(t)
        BY <4>6 DEF Acts, Step, Find, Insert, EraseIf, Start, FindProbe, EraseProbe, CasErase, Scan, Clear
      <4>8. pc[t] = "casTomb" => tomb[t] # NoSlot
        BY DEF CallsAreKnown, Known
      <4>9. Cas(t) => \/ Publish(t, Target(t))
                      \/ Retry(t) /\ pid' = pid
                      \/ tomb[t] # NoSlot /\ slots[tomb[t]] # TOMBSTONE_SLOT
        BY DEF Cas, Target
      <4>10. CasTomb(t) => Publish(t, Target(t)) \/ (Retry(t) /\ pid' = pid)
        BY <4>8 DEF CasTomb, Target
      <4> QED
        BY <4>2, <4>3, <4>4, <4>5, <4>7, <4>9, <4>10
    <3> QED
      BY <2>2, <3>1, <3>2, Entering
  <2> QED
    BY <2>1, <2>2 DEF Inserting
<1> QED
  BY <1>1, <1>2, <1>3, SlotMoves

-----------------------------------------------------------------------------
(* The map that the slots sl stand for. *)
Looked(sl, p) ==
    LET at_p == {i \in Slots : sl[i].pid = p} IN
    IF at_p = {} THEN NoBid ELSE sl[CHOOSE i \in at_p : TRUE].bid

LEMMA LookedIs ==
    ASSUME NEW sl, NEW p, \A i, j \in Slots : sl[i].pid = p /\ sl[j].pid = p => i = j
    PROVE  /\ (\A i \in Slots : sl[i].pid # p) => Looked(sl, p) = NoBid
           /\ \A i \in Slots : sl[i].pid = p => Looked(sl, p) = sl[i].bid
<1>1. ASSUME \A i \in Slots : sl[i].pid # p
      PROVE  Looked(sl, p) = NoBid
  <2>1. {i \in Slots : sl[i].pid = p} = {}
    BY <1>1
  <2> QED
    BY <2>1 DEF Looked
<1>2. ASSUME NEW i \in Slots, sl[i].pid = p
      PROVE  Looked(sl, p) = sl[i].bid
  <2>1. {j \in Slots : sl[j].pid = p} = {i}
    BY <1>2
  <2>2. (CHOOSE j \in {i} : TRUE) = i
    OBVIOUS
  <2> QED
    BY <2>1, <2>2 DEF Looked
<1> QED
  BY <1>1, <1>2

LEMMA MappedIs ==
    ASSUME Once, NEW p \in Pids
    PROVE  /\ (\A i \in Slots : slots[i].pid # p) => Mapped(p) = NoBid
           /\ \A i \in Slots : slots[i].pid = p => Mapped(p) = slots[i].bid
<1>1. \A i, j \in Slots : slots[i].pid = p /\ slots[j].pid = p => i = j
  BY NullAssumption DEF Once, Taken
<1>2. Mapped(p) = Looked(slots, p)
  BY DEF Mapped, SlotsOf, Looked
<1> QED
  BY <1>1, <1>2, LookedIs

LEMMA MappedIsThen ==
    ASSUME Once', NEW p \in Pids
    PROVE  /\ (\A i \in Slots : slots'[i].pid # p) => Mapped(p)' = NoBid
           /\ \A i \in Slots : slots'[i].pid = p => Mapped(p)' = slots'[i].bid
<1>1. \A i, j \in Slots : slots'[i].pid = p /\ slots'[j].pid = p => i = j
  BY NullAssumption DEF Once, Taken
<1>2. Mapped(p)' = Looked(slots', p)
  BY DEF Mapped, SlotsOf, Looked
<1> QED
  BY <1>1, <1>2, LookedIs

LEMMA MappedStays ==
    ASSUME Once, Once', NEW p \in Pids,
           \A i \in Slots : slots[i].pid = p \/ slots'[i].pid = p => slots'[i] = slots[i]
    PROVE  Mapped(p)' = Mapped(p)
<1>1. CASE \E i \in Slots : slots[i].pid = p
  BY SMT, <1>1, MappedIs, MappedIsThen
<1>2. CASE \A i \in Slots : slots[i].pid # p
  BY <1>2, MappedIs, MappedIsThen
<1> QED
  BY <1>1, <1>2

LEMMA MapStays ==
    ASSUME TypeOK, CallsAreKnown, Once, Once', NEW t \in Threads, UNCHANGED slots \/ Clears(t), NEW p \in Pids
    PROVE  Mapped(p)' = Mapped(p)
<1>1. \A i \in Slots : slots[i].pid = p \/ slots'[i].pid = p => slots'[i] = slots[i]
  BY SMT, ClearsFacts, SlotKinds, NullAssumption DEF Taken
<1> QED
  BY <1>1, MappedStays

LEMMA MapTakes ==
    ASSUME TypeOK, CallsAreKnown, Once, Once', Reach, Inserting, NEW t \in Threads, Takes(t)
    PROVE  /\ Mapped(pid[t]) = NoBid
           /\ \A p \in Pids : p = pid[t] => Mapped(p)' = bid[t]
           /\ \A p \in Pids : p # pid[t] => Mapped(p)' = Mapped(p)
<1>1. /\ pid[t] \in Pids /\ \A i \in Slots : slots[i].pid # pid[t]
      /\ Target(t) \in Slots /\ slots'[Target(t)] = [pid |-> pid[t], bid |-> bid[t]]
      /\ slots'[Target(t)].pid = pid[t] /\ slots[Target(t)].pid = NoPid
      /\ \A i \in Slots : i # Target(t) => slots'[i] = slots[i]
  BY TakesFacts DEF Taken
<1>2. Mapped(pid[t]) = NoBid
  BY <1>1, MappedIs
<1>3. slots'[Target(t)].bid = bid[t]
  BY SMT, <1>1
<1>4. PICK q \in Pids : q = pid[t]
  BY <1>1
<1>5. Mapped(q)' = bid[t]
  BY <1>1, <1>3, <1>4, MappedIsThen
<1>6. ASSUME NEW p \in Pids, p # pid[t]
      PROVE  Mapped(p)' = Mapped(p)
  <2>1. \A i \in Slots : slots[i].pid = p \/ slots'[i].pid = p => slots'[i] = slots[i]
    BY <1>1, <1>6, NullAssumption
  <2> QED
    BY <2>1, MappedStays
<1> QED
  BY <1>2, <1>4, <1>5, <1>6

LEMMA MapDrops ==
    ASSUME TypeOK, CallsAreKnown, Once, Once', NEW t \in Threads, Drops(t)
    PROVE  /\ Mapped(pid[t]) = bid[t]
           /\ \A p \in Pids : p = pid[t] => Mapped(p)' = NoBid
           /\ \A p \in Pids : p # pid[t] => Mapped(p)' = Mapped(p)
<1>1. /\ pid[t] \in Pids /\ At(t) \in Slots /\ slots[At(t)].pid = pid[t] /\ slots[At(t)].bid = bid[t]
      /\ slots'[At(t)].pid = NoPid
      /\ \A i \in Slots : i # At(t) => slots'[i] = slots[i]
  BY DropsFacts, SlotKinds
<1>2. Mapped(pid[t]) = bid[t]
  BY <1>1, MappedIs
<1>3. ASSUME NEW p \in Pids, p = pid[t]
      PROVE  Mapped(p)' = NoBid
  <2>1. \A i \in Slots : slots'[i].pid # p
    BY <1>1, <1>3, NullAssumption DEF Once, Taken
  <2> QED
    BY <2>1, MappedIsThen
<1>4. ASSUME NEW p \in Pids, p # pid[t]
      PROVE  Mapped(p)' = Mapped(p)
  <2>1. \A i \in Slots : slots[i].pid = p \/ slots'[i].pid = p => slots'[i] = slots[i]
    BY <1>1, <1>4, NullAssumption
  <2> QED
    BY <2>1, MappedStays
<1> QED
  BY <1>2, <1>3, <1>4

(* What a call knows of its page: what it is mapped to now is among what it *)
(* was mapped to, and a lookup has not passed the entry unless the page was *)
(* absent for a moment of the call.                                         *)
Holding == \A t \in Threads : pc[t] \in InCall => Mapped(pid[t]) \in held[t]
FindOk(t) ==
    \/ NoBid \in held[t]
    \/ \E j \in Slots : slots[j].pid = pid[t] /\ probed[t] <= Ahead(Hash[pid[t]], j)
Finding == \A t \in Threads : pc[t] = "find" => FindOk(t)

LEMMA HeldMoves ==
    ASSUME TypeOK, NEW t \in Threads, Acts(t), NEW s \in Threads, s # t
    PROVE  /\ held[s] \subseteq held'[s]
           /\ Takes(t) /\ pid[s] = pid[t] /\ pc[s] \in InCall => bid[t] \in held'[s]
           /\ Drops(t) /\ pid[s] = pid[t] /\ pc[s] \in InCall => NoBid \in held'[s]
<1>0. \A x : held' = [held EXCEPT ![t] = x] => held'[s] = held[s]
  BY DEF TypeOK
<1>1. pc[s] \in InCall => pc[s] \notin CollapseSteps
  BY DEF InCall, InsertSteps, EraseSteps, CollapseSteps
<1>2. Takes(t) => /\ held[s] \subseteq held'[s]
                  /\ pid[s] = pid[t] /\ pc[s] \in InCall => bid[t] \in held'[s]
  BY <1>1 DEF Takes, Publish, Change
<1>3. Drops(t) => /\ held[s] \subseteq held'[s]
                  /\ pid[s] = pid[t] /\ pc[s] \in InCall => NoBid \in held'[s]
  BY <1>1 DEF Drops, Change
<1>4. held[s] \subseteq held'[s]
  <2>1. CASE Find(t) \/ Insert(t) \/ EraseIf(t)
    BY <1>0, <2>1 DEF Find, Insert, EraseIf, Start
  <2>2. CASE FindProbe(t) \/ InsertProbe(t) \/ EraseProbe(t)
    BY <1>0, <2>2 DEF FindProbe, InsertProbe, EraseProbe, Return
  <2>3. CASE Cas(t) \/ CasTomb(t)
    BY <2>3 DEF Cas, CasTomb, Publish, Change
  <2>4. CASE CasErase(t)
    BY SMT, <1>0, <2>4 DEF CasErase, Change, Return
  <2>5. CASE Scan(t) \/ Clear(t)
    BY <2>5 DEF Scan, Clear
  <2> QED
    BY <2>1, <2>2, <2>3, <2>4, <2>5 DEF Acts, Step
<1> QED
  BY <1>2, <1>3, <1>4

(* The kinds of steps a call is made of. *)
Starts(t) ==
    \E p \in Pids, b \in Bids \cup {NoBid}, l \in {"find", "insert", "erase"} : Start(t, l, p, b)
Answers(t) ==
    \E a \in Bids \cup {NoBid} \cup BOOLEAN :
        /\ Return(t, a)
        /\ \/ /\ pc[t] = "find"
              /\ \/ slots[At(t)] = EMPTY_SLOT /\ a = NoBid
                 \/ slots[At(t)].pid = pid[t] /\ a = slots[At(t)].bid
                 \/ slots[At(t)].pid # pid[t] /\ probed[t] + 1 = SlotCount /\ a = NoBid
           \/ pc[t] = "insert" /\ slots[At(t)].pid = pid[t] /\ a = FALSE
           \/ pc[t] \in EraseSteps /\ a = FALSE
GoesOn(t) ==
    /\ UNCHANGED <<slots, pid, bid, held, answer>>
    /\ \/ /\ pc[t] = "find" /\ pc'[t] = "find"
          /\ slots[At(t)].pid # pid[t] /\ probed[t] + 1 # SlotCount /\ probed'[t] = probed[t] + 1
       \/ pc[t] \in InsertSteps /\ pc'[t] \in InsertSteps
       \/ pc[t] \in EraseSteps /\ pc'[t] \in EraseSteps
Collapses(t) ==
    /\ pc[t] \in CollapseSteps /\ pc'[t] \in CollapseSteps \cup {"idle"}
    /\ UNCHANGED slots \/ Clears(t)
    /\ UNCHANGED <<held, answer>>

LEMMA Kinds ==
    ASSUME TypeOK, CallsAreKnown, NEW t \in Threads, Acts(t)
    PROVE  Starts(t) \/ Takes(t) \/ Drops(t) \/ Answers(t) \/ GoesOn(t) \/ Collapses(t)
<1>0. /\ \A x : pc' = [pc EXCEPT ![t] = x] => pc'[t] = x
      /\ \A x : probed' = [probed EXCEPT ![t] = x] => probed'[t] = x
  BY DEF TypeOK
<1>1. CASE Find(t)
  BY <1>1 DEF Find, Starts
<1>2. CASE Insert(t)
  BY <1>2 DEF Insert, Starts
<1>3. CASE EraseIf(t)
  <2>1. PICK i \in Slots : slots[i].pid # NoPid /\ Start(t, "erase", slots[i].pid, slots[i].bid)
    BY <1>3 DEF EraseIf
  <2>2. slots[i] \in Entry
    BY <2>1, SlotKinds DEF TypeOK
  <2> QED
    BY <2>1, <2>2, SlotKinds DEF Starts
<1>4. CASE FindProbe(t)
  <2>1. slots[At(t)] \in Entry \cup {EMPTY_SLOT, TOMBSTONE_SLOT} /\ pid[t] \in Pids
    BY <1>4, AtIsSlot DEF FindProbe, InCall
  <2>2. slots[At(t)].pid = pid[t] => slots[At(t)].bid \in Bids
    BY <2>1, SlotKinds, NullAssumption
  <2> QED
    BY <1>0, <1>4, <2>2 DEF FindProbe, Answers, GoesOn
<1>5. CASE InsertProbe(t)
  <2>1. pc[t] = "insert"
    BY <1>5 DEF InsertProbe
  <2>2. CASE Return(t, FALSE) /\ slots[At(t)].pid = pid[t]
    BY <2>1, <2>2 DEF Answers
  <2>3. CASE Goto(t, "cas") /\ UNCHANGED <<callVars, slots, at, run, held, answer>>
    BY <1>0, <2>1, <2>3, Disjoint DEF Goto, GoesOn, callVars
  <2>4. ASSUME NEW first, Advance(t, first), UNCHANGED <<slots, pid, bid, at, run, held, answer>>
        PROVE  GoesOn(t)
    BY <1>0, <2>1, <2>4, Disjoint DEF Advance, Retry, Goto, GoesOn
  <2> QED
    BY <1>5, <2>2, <2>3, <2>4 DEF InsertProbe
<1>6. CASE Cas(t)
  <2>1. CASE Takes(t)
    BY <2>1
  <2>2. CASE ~Takes(t)
    BY <1>0, <1>6, <2>2, Disjoint DEF Cas, Takes, Target, Retry, Goto, GoesOn
  <2> QED
    BY <2>1, <2>2
<1>7. CASE CasTomb(t)
  <2>0. tomb[t] # NoSlot
    BY <1>7 DEF CasTomb, CallsAreKnown, Known
  <2>1. CASE Publish(t, tomb[t]) /\ slots[tomb[t]] = TOMBSTONE_SLOT
    BY <1>7, <2>0, <2>1 DEF CasTomb, Takes, Target
  <2>2. CASE Retry(t) /\ UNCHANGED <<slots, pid, bid, at, run, held, answer>>
    BY <1>0, <1>7, <2>2, Disjoint DEF CasTomb, Retry, Goto, GoesOn
  <2> QED
    BY <1>7, <2>1, <2>2 DEF CasTomb
<1>8. CASE EraseProbe(t)
  <2>1. pc[t] = "erase"
    BY <1>8 DEF EraseProbe
  <2>2. CASE Return(t, FALSE)
    BY <2>1, <2>2, Disjoint DEF Answers
  <2>3. CASE Goto(t, "casErase") /\ UNCHANGED <<callVars, slots, at, run, held, answer>>
    BY <1>0, <2>1, <2>3, Disjoint DEF Goto, GoesOn, callVars
  <2>4. CASE UNCHANGED <<slots, pc, pid, bid, tomb, at, run, held, answer>>
    BY <2>1, <2>4, Disjoint DEF GoesOn
  <2> QED
    BY <1>8, <2>2, <2>3, <2>4 DEF EraseProbe
<1>9. CASE CasErase(t)
  <2>1. CASE Return(t, FALSE)
    BY <1>9, <2>1, Disjoint DEF Answers, CasErase
  <2>2. CASE ~Return(t, FALSE)
    BY <1>9, <2>2 DEF CasErase, Drops
  <2> QED
    BY <2>1, <2>2
<1>10. CASE Scan(t)
  BY <1>0, <1>10, Disjoint DEF Scan, EndCollapse, Goto, Collapses
<1>11. CASE Clear(t)
  <2>1. CASE UNCHANGED slots
    BY <1>0, <1>11, <2>1, Disjoint DEF Clear, EndCollapse, Goto, Collapses
  <2>2. CASE Clears(t)
    BY <1>11, <2>2, ClearsFacts, Disjoint DEF Clear, Collapses
  <2> QED
    BY <1>11, <2>1, <2>2 DEF Clear, Clears, EndCollapse
<1> QED
  BY <1>1, <1>2, <1>3, <1>4, <1>5, <1>6, <1>7, <1>8, <1>9, <1>10, <1>11 DEF Acts, Step

LEMMA HoldStep ==
    ASSUME TypeOK, CallsAreKnown, Once, Once', Reach, Inserting, Holding, NEW t \in Threads, Acts(t)
    PROVE  Holding'
<1>1. ASSUME NEW s \in Threads, s # t, pc'[s] \in InCall
      PROVE  (Mapped(pid[s]) \in held[s])'
  <2>1. pc[s] \in InCall /\ pid'[s] = pid[s] /\ Mapped(pid[s]) \in held[s] /\ pid[s] \in Pids
    BY <1>1, OthersStay DEF Same, Holding, CallsAreKnown, Known
  <2>2. PICK p \in Pids : p = pid[s]
    BY <2>1
  <2>3. Mapped(p)' \in held'[s]
    <3>1. CASE UNCHANGED slots \/ Clears(t)
      BY <1>1, <2>1, <2>2, <3>1, MapStays, HeldMoves
    <3>2. CASE Takes(t)
      BY <1>1, <2>1, <2>2, <3>2, MapTakes, HeldMoves
    <3>3. CASE Drops(t)
      BY <1>1, <2>1, <2>2, <3>3, MapDrops, HeldMoves
    <3> QED
      BY <3>1, <3>2, <3>3, SlotMoves
  <2> QED
    BY <2>1, <2>2, <2>3
<1>2. ASSUME pc'[t] \in InCall
      PROVE  (Mapped(pid[t]) \in held[t])'
  <2>1. CASE Starts(t)
    <3>1. PICK p \in Pids, b \in Bids \cup {NoBid}, l \in {"find", "insert", "erase"} : Start(t, l, p, b)
      BY <2>1 DEF Starts
    <3>2. pid'[t] = p /\ held'[t] = {Mapped(p)} /\ UNCHANGED slots
      BY <3>1 DEF Start, TypeOK
    <3>3. Mapped(p)' = Mapped(p)
      BY <3>2, MapStays
    <3> QED
      BY <3>2, <3>3
  <2>2. CASE GoesOn(t)
    <3>1. pc[t] \in InCall /\ UNCHANGED <<slots, held, pid>>
      BY <2>2 DEF GoesOn, InCall
    <3>2. PICK p \in Pids : p = pid[t]
      BY <3>1 DEF CallsAreKnown, Known
    <3>3. Mapped(p)' = Mapped(p) /\ Mapped(p) \in held[t]
      BY <3>1, <3>2, MapStays DEF Holding
    <3> QED
      BY <3>1, <3>2, <3>3
  <2>3. CASE Takes(t) \/ Drops(t) \/ Answers(t) \/ Collapses(t)
    <3>1. pc'[t] \in {"idle", "scan", "clear"}
      BY ZenonT(40), <2>3, TakesFacts, DropsFacts DEF Answers, Return, Goto, Collapses, TypeOK, CollapseSteps
    <3> QED
      BY <1>2, <3>1, Disjoint DEF InCall, InsertSteps, EraseSteps
  <2> QED
    BY <2>1, <2>2, <2>3, Kinds
<1> QED
  BY <1>1, <1>2 DEF Holding

LEMMA FindStep ==
    ASSUME TypeOK, CallsAreKnown, Once, Reach, Inserting, Finding, NEW t \in Threads, Acts(t)
    PROVE  Finding'
<1>1. ASSUME NEW s \in Threads, s # t, pc'[s] = "find"
      PROVE  FindOk(s)'
  <2>1. pc[s] = "find" /\ pid'[s] = pid[s] /\ probed'[s] = probed[s] /\ held[s] \subseteq held'[s] /\ FindOk(s)
    BY <1>1, OthersStay, HeldMoves DEF Same, Finding
  <2>2. pid[s] \in Pids
    BY <2>1 DEF CallsAreKnown, Known, InCall
  <2>3. CASE Drops(t) /\ pid[s] = pid[t]
    BY <1>1, <2>1, <2>3, HeldMoves DEF FindOk, InCall
  <2>4. CASE ~(Drops(t) /\ pid[s] = pid[t])
    <3>1. \A j \in Slots : slots[j].pid = pid[s] => slots'[j] = slots[j]
      <4>1. CASE UNCHANGED slots
        BY <4>1
      <4>2. CASE Takes(t)
        <5>1. slots[Target(t)].pid = NoPid /\ \A i \in Slots : i # Target(t) => slots'[i] = slots[i]
          BY <4>2, TakesFacts DEF Taken
        <5> QED
          BY <2>2, <5>1, NullAssumption
      <4>3. CASE Clears(t)
        BY SMT, <2>2, <4>3, ClearsFacts, NullAssumption DEF Taken
      <4>4. CASE Drops(t)
        BY <2>4, <4>4, DropsFacts
      <4> QED
        BY <4>1, <4>2, <4>3, <4>4, SlotMoves
    <3> QED
      BY <2>1, <3>1 DEF FindOk
  <2> QED
    BY <2>3, <2>4
<1>2. ASSUME pc'[t] = "find"
      PROVE  FindOk(t)'
  <2>1. CASE Starts(t)
    <3>1. PICK p \in Pids, b \in Bids \cup {NoBid}, l \in {"find", "insert", "erase"} : Start(t, l, p, b)
      BY <2>1 DEF Starts
    <3>2. pid'[t] = p /\ held'[t] = {Mapped(p)} /\ slots' = slots /\ probed'[t] = probed[t]
      BY <3>1 DEF Start, TypeOK
    <3>3. probed[t] = 0
      BY <3>1 DEF Start, CallsAreKnown, Known
    <3>4. \A i \in Slots : 0 <= Ahead(Hash[p], i)
      <4>1. Hash[p] \in Slots
        BY SlotAssumption
      <4>2. \A a \in Slots : 0 <= a
        BY SMT, SlotAssumption DEF Slots
      <4> QED
        BY <4>1, <4>2, AheadIsSlot
    <3>5. CASE \A i \in Slots : slots[i].pid # p
      BY <3>2, <3>5, MappedIs DEF FindOk
    <3>6. CASE \E i \in Slots : slots[i].pid = p
      BY <3>2, <3>3, <3>4, <3>6 DEF FindOk
    <3> QED
      BY <3>5, <3>6
  <2>2. CASE GoesOn(t)
    <3>1. /\ pc[t] = "find" /\ slots[At(t)].pid # pid[t] /\ probed'[t] = probed[t] + 1
          /\ UNCHANGED <<slots, pid, held>>
      BY <1>2, <2>2, Disjoint DEF GoesOn
    <3>2. /\ Hash[pid[t]] \in Slots /\ probed[t] \in Slots
          /\ At(t) = Go(Hash[pid[t]], probed[t]) /\ At(t) \in Slots
      BY <3>1, AtIsSlot DEF InCall
    <3>3. Ahead(Hash[pid[t]], At(t)) = probed[t]
      BY <3>2, AheadGo
    <3>4. ASSUME NEW j \in Slots, slots[j].pid = pid[t], probed[t] <= Ahead(Hash[pid[t]], j)
          PROVE  probed[t] + 1 <= Ahead(Hash[pid[t]], j)
      <4>1. Ahead(Hash[pid[t]], j) # probed[t]
        BY <3>1, <3>2, <3>3, <3>4, AheadOnce
      <4>2. Ahead(Hash[pid[t]], j) \in Slots
        BY <3>2, AheadIsSlot
      <4> QED
        BY <3>2, <3>4, <4>1, <4>2, SlotOrder
    <3>5. FindOk(t)
      BY <3>1 DEF Finding
    <3> QED
      BY <3>1, <3>4, <3>5 DEF FindOk
  <2>3. CASE Takes(t) \/ Drops(t) \/ Answers(t) \/ Collapses(t)
    <3>1. pc'[t] \in {"idle", "scan", "clear"}
      BY <2>3, TakesFacts, DropsFacts DEF Answers, Return, Goto, Collapses, TypeOK, CollapseSteps
    <3> QED
      BY <1>2, <3>1
  <2> QED
    BY <2>1, <2>2, <2>3, Kinds
<1> QED
  BY <1>1, <1>2 DEF Finding

-----------------------------------------------------------------------------
(* The inductive invariant. *)
TableInv ==
    TypeOK /\ CallsAreKnown /\ Phases /\ Once /\ Reach /\ Inserting /\ Collapsing /\ Holding /\ Finding

LEMMA TableInit == Init => TableInv
<1> SUFFICES ASSUME Init PROVE TableInv
  OBVIOUS
<1>1. TypeOK
  BY SMT, SlotAssumption DEF Init, TypeOK, Slots, NoSlot
<1>2. \A t \in Threads : pc[t] = "idle" /\ pid[t] = NoPid /\ probed[t] = 0 /\ tomb[t] = NoSlot
  BY DEF Init
<1>3. \A i \in Slots : slots[i].pid = NoPid
  BY SlotKinds DEF Init
<1>4. CallsAreKnown
  BY <1>2 DEF CallsAreKnown, Known, InCall, InsertSteps, EraseSteps, CollapseSteps
<1>5. Phases /\ Inserting /\ Collapsing /\ Holding /\ Finding
  BY <1>2 DEF Phases, Writing, Inserting, Collapsing, CollapseOk, Holding, Finding, InCall,
              InsertSteps, EraseSteps, CollapseSteps
<1>6. Once /\ Reach
  BY <1>3 DEF Once, Reach, Taken
<1> QED
  BY <1>1, <1>4, <1>5, <1>6 DEF TableInv

LEMMA TableStep ==
    ASSUME ~Overlap, TableInv, [Next]_vars
    PROVE  TableInv'
<1>1. CASE Next
  <2>1. PICK t \in Threads : Acts(t)
    BY <1>1 DEF Next, Acts
  <2>2. TypeOK' /\ CallsAreKnown' /\ Phases'
    BY <2>1, TypeStep, KnownStep, PhaseStep DEF TableInv
  <2>3. Once' /\ Reach'
    BY <2>1, OnceStep, ReachStep DEF TableInv
  <2>4. Inserting' /\ Collapsing'
    BY <2>1, InsertStep, CollapseStep DEF TableInv
  <2>5. Holding' /\ Finding'
    BY <2>1, <2>3, HoldStep, FindStep DEF TableInv
  <2> QED
    BY <2>2, <2>3, <2>4, <2>5 DEF TableInv
<1>2. CASE UNCHANGED vars
  <2>1. TypeOK' /\ CallsAreKnown'
    BY <1>2 DEF TableInv, vars, callVars, TypeOK, CallsAreKnown, Known
  <2>2. Phases' /\ Once' /\ Reach'
    BY <1>2 DEF TableInv, vars, callVars, Phases, Writing, Once, Reach, Taken
  <2>3. Inserting' /\ Collapsing'
    BY <1>2 DEF TableInv, vars, callVars, Inserting, InsertOk, Other, Collapsing, CollapseOk, Taken
  <2>4. Holding' /\ Finding'
    BY <1>2 DEF TableInv, vars, callVars, Holding, Mapped, SlotsOf, Finding, FindOk
  <2> QED
    BY <2>1, <2>2, <2>3, <2>4 DEF TableInv
<1> QED
  BY <1>1, <1>2

(* As long as inserts and erases do not overlap, no erase or collapse ever  *)
(* hides an entry from find_copy: no empty slot lies between the hash of a  *)
(* page and its entry, whatever the threads and the hash function are.      *)
THEOREM EntriesStayReachable ==
    ASSUME ~Overlap
    PROVE  Spec => []EntriesAreReachable
<1>1. TableInv => EntriesAreReachable
  <2> SUFFICES ASSUME TableInv, NEW j \in Slots, slots[j].pid # NoPid,
                      NEW i \in OnTheWay(Hash[slots[j].pid], j)
               PROVE  slots[i] # EMPTY_SLOT
    BY DEF EntriesAreReachable, TableInv
  <2>1. Hash[slots[j].pid] \in Slots
    BY SlotKinds, SlotAssumption DEF TableInv, TypeOK
  <2> QED
    BY <2>1, WayAhead DEF TableInv, Reach, Taken
<1> QED
  BY <1>1, TableInit, TableStep, PTL DEF Spec

(* As long as inserts and erases do not overlap, of the threads that insert *)
(* a page one wins: no page ever has two entries (insert, erase_if).        *)
THEOREM OneInsertWins ==
    ASSUME ~Overlap
    PROVE  Spec => []OneWinner
<1>1. TableInv => OneWinner
  BY DEF TableInv, Once, Taken, OneWinner
<1> QED
  BY <1>1, TableInit, TableStep, PTL DEF Spec

-----------------------------------------------------------------------------
(* The refinement of PageMap. *)
TheMap == [p \in Pids |-> Mapped(p)]
TheCalls == [t \in Threads |-> CallOf(t)]

CallBy(c, p, b) ==
    CASE c = "find" -> [op |-> "find_copy", pid |-> p, bid |-> b]
      [] c \in InsertSteps -> [op |-> "insert", pid |-> p, bid |-> b]
      [] c \in EraseSteps -> [op |-> "erase_if", pid |-> p, bid |-> b]
      [] OTHER -> [op |-> "none"]

LEMMA CallKinds ==
    ASSUME NEW c, NEW p, NEW b
    PROVE  /\ c = "find" => CallBy(c, p, b) = [op |-> "find_copy", pid |-> p, bid |-> b]
           /\ c \in InsertSteps => CallBy(c, p, b) = [op |-> "insert", pid |-> p, bid |-> b]
           /\ c \in EraseSteps => CallBy(c, p, b) = [op |-> "erase_if", pid |-> p, bid |-> b]
           /\ c \in InCall => CallBy(c, p, b) # Map!NoCall /\ CallBy(c, p, b).pid = p /\ CallBy(c, p, b).bid = b
           /\ c \notin InCall => CallBy(c, p, b) = Map!NoCall
<1>1. /\ c = "find" => c \notin InsertSteps \cup EraseSteps
      /\ c \in InsertSteps => c # "find" /\ c \notin EraseSteps
      /\ c \in EraseSteps => c # "find" /\ c \notin InsertSteps
  BY DEF InsertSteps, EraseSteps
<1>2. CASE c = "find"
  <2>1. CallBy(c, p, b) = [op |-> "find_copy", pid |-> p, bid |-> b]
    BY <1>1, <1>2 DEF CallBy
  <2> QED
    BY SMT, <1>1, <1>2, <2>1 DEF InCall, Map!NoCall
<1>3. CASE c \in InsertSteps
  <2>1. CallBy(c, p, b) = [op |-> "insert", pid |-> p, bid |-> b]
    BY <1>1, <1>3 DEF CallBy
  <2> QED
    BY SMT, <1>1, <1>3, <2>1 DEF InCall, Map!NoCall
<1>4. CASE c \in EraseSteps
  <2>1. CallBy(c, p, b) = [op |-> "erase_if", pid |-> p, bid |-> b]
    BY <1>1, <1>4 DEF CallBy
  <2> QED
    BY SMT, <1>1, <1>4, <2>1 DEF InCall, Map!NoCall
<1>5. CASE c \notin InCall
  BY <1>5 DEF CallBy, InCall, Map!NoCall
<1> QED
  BY <1>2, <1>3, <1>4, <1>5 DEF InCall

LEMMA CallsBy ==
    ASSUME NEW t \in Threads
    PROVE  /\ CallOf(t) = CallBy(pc[t], pid[t], bid[t])
           /\ CallOf(t)' = CallBy(pc'[t], pid'[t], bid'[t])
           /\ TheCalls[t] = CallBy(pc[t], pid[t], bid[t])
           /\ TheCalls'[t] = CallBy(pc'[t], pid'[t], bid'[t])
  BY DEF CallOf, CallBy, TheCalls

LEMMA CallMoves ==
    ASSUME TypeOK, NEW t \in Threads, Acts(t)
    PROVE  TheCalls' = [TheCalls EXCEPT ![t] = CallBy(pc'[t], pid'[t], bid'[t])]
<1>1. \A s \in Threads : s # t => TheCalls'[s] = TheCalls[s]
  BY CallsBy, OthersStay DEF Same
<1>2. TheCalls'[t] = CallBy(pc'[t], pid'[t], bid'[t])
  BY CallsBy
<1> QED
  BY <1>1, <1>2 DEF TheCalls

LEMMA MapSame ==
    ASSUME \A p \in Pids : Mapped(p)' = Mapped(p)
    PROVE  TheMap' = TheMap
  BY DEF TheMap

LEMMA RefineStarts ==
    ASSUME TypeOK, CallsAreKnown, Once, Once', NEW t \in Threads, Acts(t), Starts(t)
    PROVE  Map!Start(t)
<1>1. PICK p \in Pids, b \in Bids \cup {NoBid}, l \in {"find", "insert", "erase"} : Start(t, l, p, b)
  BY DEF Starts
<1>2. /\ pc[t] = "idle" /\ pc'[t] = l /\ pid'[t] = p /\ bid'[t] = b /\ UNCHANGED slots
      /\ held' = [held EXCEPT ![t] = {Mapped(p)}]
      /\ answer' = [answer EXCEPT ![t] = FALSE]
  BY <1>1 DEF Start, Goto, TypeOK
<1>3. PICK c : c = CallBy(l, p, b)
  OBVIOUS
<1>4. c \in Map!Calls /\ c.pid = p
  BY SMT, <1>3, CallKinds, Disjoint DEF Map!Calls, InCall
<1>5. TheCalls[t] = Map!NoCall
  BY SMT, <1>2, CallsBy, CallKinds, Disjoint DEF InCall
<1>6. TheCalls' = [TheCalls EXCEPT ![t] = c]
  BY <1>2, <1>3, CallMoves
<1>7. TheMap' = TheMap
  BY <1>2, MapStays, MapSame
<1>8. TheMap[c.pid] = Mapped(p)
  BY <1>4 DEF TheMap
<1> QED
  BY <1>2, <1>4, <1>5, <1>6, <1>7, <1>8 DEF Map!Start, TheCalls, TheMap

(* Both levels take note of a change in the same calls. *)
LEMMA SameNote ==
    ASSUME TypeOK, CallsAreKnown, NEW t \in Threads, pid[t] \in Pids, NEW s \in Threads
    PROVE  (pid[s] = pid[t] /\ pc[s] \notin CollapseSteps)
             <=> (TheCalls[s] # Map!NoCall /\ TheCalls[s].pid = pid[t])
<1>1. CASE pc[s] \in InCall
  <2>1. pc[s] \notin CollapseSteps
    BY <1>1 DEF InCall, InsertSteps, EraseSteps, CollapseSteps
  <2> QED
    BY SMT, <1>1, <2>1, CallsBy, CallKinds
<1>2. CASE pc[s] \notin InCall
  <2>1. TheCalls[s] = Map!NoCall
    BY SMT, <1>2, CallsBy, CallKinds
  <2>2. pc[s] = "idle" => pid[s] # pid[t]
    BY NullAssumption DEF CallsAreKnown, Known
  <2>3. pc[s] \in CollapseSteps \/ pc[s] = "idle"
    BY <1>2 DEF TypeOK, InCall
  <2> QED
    BY <2>1, <2>2, <2>3
<1> QED
  BY <1>1, <1>2

LEMMA RefineChange ==
    ASSUME TypeOK, CallsAreKnown, NEW t \in Threads, Acts(t), pc[t] \in InCall, pc'[t] \notin InCall,
           NEW i, NEW slot, NEW b, Change(t, i, slot, b),
           \A p \in Pids : p = pid[t] => Mapped(p)' = b,
           \A p \in Pids : p # pid[t] => Mapped(p)' = Mapped(p)
    PROVE  Map!Remap(t, b)
<1>1. pid[t] \in Pids
  BY DEF CallsAreKnown, Known
<1>2. TheCalls[t].pid = pid[t]
  BY SMT, CallsBy, CallKinds
<1>3. TheMap' = [TheMap EXCEPT ![pid[t]] = b]
  BY <1>1 DEF TheMap
<1>4. TheCalls' = [TheCalls EXCEPT ![t] = Map!NoCall]
  BY SMT, CallMoves, CallKinds
<1>5. held' = [s \in Threads |->
        IF s = t THEN {}
        ELSE IF TheCalls[s] # Map!NoCall /\ TheCalls[s].pid = pid[t] THEN held[s] \cup {b} ELSE held[s]]
  BY <1>1, SameNote DEF Change
<1>6. answer' = [answer EXCEPT ![t] = TRUE]
  BY DEF Change
<1> QED
  BY <1>2, <1>3, <1>4, <1>5, <1>6 DEF Map!Remap, Map!Finish, TheCalls, TheMap

LEMMA RefineTakes ==
    ASSUME TypeOK, CallsAreKnown, Once, Once', Reach, Inserting, NEW t \in Threads, Acts(t), Takes(t)
    PROVE  Map!Inserted(t)
<1>1. pc[t] \in InsertSteps /\ pc[t] \in InCall /\ pc'[t] = "idle" /\ pid[t] \in Pids
  BY TakesFacts, Disjoint DEF Takes, InCall
<1>2. Change(t, Target(t), [pid |-> pid[t], bid |-> bid[t]], bid[t])
  BY DEF Takes, Publish
<1>3. Map!Remap(t, bid[t])
  BY <1>1, <1>2, MapTakes, RefineChange, Disjoint DEF InCall
<1>4. /\ TheCalls[t] # Map!NoCall /\ TheCalls[t].op = "insert"
      /\ TheCalls[t].pid = pid[t] /\ TheCalls[t].bid = bid[t]
  <2> DEFINE c == pc[t]  p == pid[t]  b == bid[t]
  <2>1. c \in InsertSteps /\ c \in InCall /\ TheCalls[t] = CallBy(c, p, b)
    BY <1>1, CallsBy
  <2> HIDE DEF c, p, b
  <2>2. CallBy(c, p, b) = [op |-> "insert", pid |-> p, bid |-> b] /\ CallBy(c, p, b) # Map!NoCall
    BY SMT, <2>1, CallKinds
  <2>3. CallBy(c, p, b).op = "insert" /\ CallBy(c, p, b).pid = p /\ CallBy(c, p, b).bid = b
    BY SMT, <2>2
  <2> QED BY <2>1, <2>2, <2>3 DEF p, b
<1>5. TheMap[pid[t]] = NoBid
  BY <1>1, MapTakes DEF TheMap
<1> QED
  BY <1>3, <1>4, <1>5 DEF Map!Inserted, Map!In, TheCalls, TheMap

LEMMA RefineDrops ==
    ASSUME TypeOK, CallsAreKnown, Once, Once', NEW t \in Threads, Acts(t), Drops(t)
    PROVE  Map!Erased(t)
<1>1. pc[t] \in EraseSteps /\ pc[t] \in InCall /\ pc'[t] = "scan" /\ pid[t] \in Pids
  BY DropsFacts, Disjoint DEF Drops, InCall
<1>2. Change(t, At(t), TOMBSTONE_SLOT, NoBid)
  BY DEF Drops
<1>3. pc'[t] \notin InCall
  BY <1>1 DEF InCall, InsertSteps, EraseSteps
<1>4. Map!Remap(t, NoBid)
  BY <1>1, <1>2, <1>3, MapDrops, RefineChange
<1>5. /\ TheCalls[t] # Map!NoCall /\ TheCalls[t].op = "erase_if"
      /\ TheCalls[t].pid = pid[t] /\ TheCalls[t].bid = bid[t]
  <2> DEFINE c == pc[t]  p == pid[t]  b == bid[t]
  <2>1. c \in EraseSteps /\ c \in InCall /\ TheCalls[t] = CallBy(c, p, b)
    BY <1>1, CallsBy
  <2> HIDE DEF c, p, b
  <2>2. CallBy(c, p, b) = [op |-> "erase_if", pid |-> p, bid |-> b] /\ CallBy(c, p, b) # Map!NoCall
    BY SMT, <2>1, CallKinds
  <2>3. CallBy(c, p, b).op = "erase_if" /\ CallBy(c, p, b).pid = p /\ CallBy(c, p, b).bid = b
    BY SMT, <2>2
  <2> QED BY <2>1, <2>2, <2>3 DEF p, b
<1>6. TheMap[pid[t]] = bid[t]
  BY <1>1, MapDrops DEF TheMap
<1> QED
  BY <1>4, <1>5, <1>6 DEF Map!Erased, Map!In, TheCalls, TheMap

LEMMA FindAnswers ==
    ASSUME TypeOK, CallsAreKnown, Once, Reach, Holding, Finding, NEW t \in Threads, pc[t] = "find", NEW a,
           \/ slots[At(t)] = EMPTY_SLOT /\ a = NoBid
           \/ slots[At(t)].pid = pid[t] /\ a = slots[At(t)].bid
           \/ slots[At(t)].pid # pid[t] /\ probed[t] + 1 = SlotCount /\ a = NoBid
    PROVE  a \in held[t]
<1>0. /\ pc[t] \in InCall /\ pid[t] \in Pids /\ Hash[pid[t]] \in Slots /\ probed[t] \in Slots
      /\ At(t) = Go(Hash[pid[t]], probed[t]) /\ At(t) \in Slots
  BY AtIsSlot DEF InCall
<1>1. Ahead(Hash[pid[t]], At(t)) = probed[t]
  BY SMT, <1>0, AheadGo
<1>2. CASE slots[At(t)].pid = pid[t] /\ a = slots[At(t)].bid
  BY <1>0, <1>2, MappedIs DEF Holding
<1>3. CASE NoBid \in held[t] /\ a = NoBid
  BY <1>3
<1>4. ASSUME NEW j \in Slots, slots[j].pid = pid[t], probed[t] <= Ahead(Hash[pid[t]], j)
      PROVE  ~(slots[At(t)] = EMPTY_SLOT) /\ ~(slots[At(t)].pid # pid[t] /\ probed[t] + 1 = SlotCount)
  <2>1. slots[At(t)] # EMPTY_SLOT
    BY <1>0, <1>1, <1>4, NullAssumption DEF Reach, Taken
  <2>2. ASSUME probed[t] + 1 = SlotCount
        PROVE  j = At(t)
    <3>1. Ahead(Hash[pid[t]], j) \in Slots
      BY <1>0, AheadIsSlot
    <3>2. Ahead(Hash[pid[t]], j) = probed[t]
      BY SMT, <1>0, <1>4, <2>2, <3>1, SlotAssumption DEF Slots
    <3> QED
      BY <1>0, <1>1, <3>2, AheadOnce
  <2> QED
    BY <1>4, <2>1, <2>2
<1> QED
  BY <1>2, <1>3, <1>4 DEF Finding, FindOk

LEMMA RefineAnswers ==
    ASSUME TypeOK, CallsAreKnown, Once, Once', Reach, Holding, Finding, NEW t \in Threads, Acts(t), Answers(t)
    PROVE  Map!Found(t) \/ Map!Refused(t)
<1>1. PICK a \in Bids \cup {NoBid} \cup BOOLEAN :
        /\ Return(t, a)
        /\ \/ /\ pc[t] = "find"
              /\ \/ slots[At(t)] = EMPTY_SLOT /\ a = NoBid
                 \/ slots[At(t)].pid = pid[t] /\ a = slots[At(t)].bid
                 \/ slots[At(t)].pid # pid[t] /\ probed[t] + 1 = SlotCount /\ a = NoBid
           \/ pc[t] = "insert" /\ slots[At(t)].pid = pid[t] /\ a = FALSE
           \/ pc[t] \in EraseSteps /\ a = FALSE
  BY DEF Answers
<1>2. /\ pc'[t] = "idle" /\ held' = [held EXCEPT ![t] = {}]
      /\ answer' = [answer EXCEPT ![t] = a] /\ UNCHANGED slots
  BY <1>1 DEF Return, Goto, TypeOK
<1>3. TheCalls' = [TheCalls EXCEPT ![t] = Map!NoCall]
  BY SMT, <1>2, CallMoves, CallKinds, Disjoint DEF InCall
<1>4. TheMap' = TheMap
  BY <1>2, MapStays, MapSame
<1>5. Map!Finish(t, a)
  BY <1>2, <1>3 DEF Map!Finish, TheCalls
<1>6. CASE pc[t] = "find"
  <2>1. a \in held[t]
    BY <1>1, <1>6, FindAnswers, Disjoint
  <2>2. TheCalls[t] # Map!NoCall /\ TheCalls[t].op = "find_copy"
    BY SMT, <1>6, CallsBy, CallKinds DEF InCall
  <2> QED
    BY <1>2, <1>4, <1>5, <2>1, <2>2 DEF Map!Found, Map!In, TheCalls, TheMap
<1>7. CASE pc[t] = "insert" /\ slots[At(t)].pid = pid[t] /\ a = FALSE
  <2>0. pc[t] \in InsertSteps /\ pc[t] \in InCall
    BY <1>7, Disjoint DEF InCall
  <2>1. At(t) \in Slots /\ pid[t] \in Pids /\ slots[At(t)] \in Entry \cup {EMPTY_SLOT, TOMBSTONE_SLOT}
    BY <2>0, AtIsSlot
  <2>2. slots[At(t)].bid \in Bids
    BY <1>7, <2>1, SlotKinds, NullAssumption
  <2>3. slots[At(t)].bid \in held[t]
    BY <1>7, <2>0, <2>1, MappedIs DEF Holding
  <2>4. held[t] # {NoBid}
    BY <2>2, <2>3, NullAssumption
  <2>5. TheCalls[t] # Map!NoCall /\ TheCalls[t].op = "insert"
    BY SMT, <2>0, CallsBy, CallKinds
  <2> QED
    BY <1>2, <1>4, <1>5, <1>7, <2>4, <2>5 DEF Map!Refused, Map!In, TheCalls, TheMap
<1>8. CASE pc[t] \in EraseSteps /\ a = FALSE
  <2>1. TheCalls[t] # Map!NoCall /\ TheCalls[t].op = "erase_if"
    BY SMT, <1>8, CallsBy, CallKinds DEF InCall
  <2> QED
    BY <1>2, <1>4, <1>5, <1>8, <2>1 DEF Map!Refused, Map!In, TheCalls, TheMap
<1> QED
  BY <1>1, <1>6, <1>7, <1>8

LEMMA RefineQuiet ==
    ASSUME TypeOK, CallsAreKnown, Once, Once', NEW t \in Threads, Acts(t), GoesOn(t) \/ Collapses(t)
    PROVE  UNCHANGED Map!vars
<1>1. UNCHANGED <<held, answer>> /\ (UNCHANGED slots \/ Clears(t))
  BY DEF GoesOn, Collapses
<1>2. TheMap' = TheMap
  BY <1>1, MapStays, MapSame
<1>3. \/ UNCHANGED <<pid, bid>> /\ pc[t] = "find" /\ pc'[t] = "find"
      \/ UNCHANGED <<pid, bid>> /\ pc[t] \in InsertSteps /\ pc'[t] \in InsertSteps
      \/ UNCHANGED <<pid, bid>> /\ pc[t] \in EraseSteps /\ pc'[t] \in EraseSteps
      \/ pc[t] \notin InCall /\ pc'[t] \notin InCall
  BY DEF GoesOn, Collapses, InCall, InsertSteps, EraseSteps, CollapseSteps
<1>4. CallBy(pc'[t], pid'[t], bid'[t]) = CallBy(pc[t], pid[t], bid[t])
  BY SMT, <1>3, CallKinds
<1>5. \A s \in Threads : TheCalls'[s] = TheCalls[s]
  BY <1>4, CallsBy, OthersStay DEF Same
<1>6. TheCalls' = TheCalls
  BY <1>5 DEF TheCalls
<1> QED
  BY <1>1, <1>2, <1>6 DEF Map!vars, TheCalls, TheMap

(* As long as inserts and erases do not overlap, the table is a map: every  *)
(* find_copy, insert and erase_if takes effect, or answers, as a call on a  *)
(* map from pages to frames would at some instant between its beginning and *)
(* its end, for every number of threads, slots, pages and frames.           *)
THEOREM TableImplementsMap ==
    ASSUME ~Overlap
    PROVE  Spec => BehavesLikeAMap
<1>1. Init => Map!Init
  <2> SUFFICES ASSUME Init PROVE Map!Init
    OBVIOUS
  <2>1. TableInv
    BY TableInit
  <2>2. \A i \in Slots : slots[i].pid = NoPid
    BY SlotKinds DEF Init
  <2>3. \A p \in Pids : Mapped(p) = NoBid
    BY <2>1, <2>2, MappedIs, NullAssumption DEF TableInv
  <2>4. \A t \in Threads : CallOf(t) = Map!NoCall
    <3>1. \A t \in Threads : pc[t] = "idle"
      BY DEF Init
    <3> QED
      BY SMT, <3>1, CallsBy, CallKinds, Disjoint DEF InCall
  <2> QED
    BY <2>3, <2>4 DEF Init, Map!Init
<1>2. TableInv /\ TableInv' /\ [Next]_vars => [Map!Next]_(Map!vars)
  <2> SUFFICES ASSUME TableInv, TableInv', [Next]_vars
               PROVE  [Map!Next]_(Map!vars)
    OBVIOUS
  <2>0. TypeOK /\ CallsAreKnown /\ Once /\ Once' /\ Reach /\ Inserting /\ Holding /\ Finding
    BY DEF TableInv
  <2>1. CASE Next
    <3>1. PICK t \in Threads : Acts(t)
      BY <2>1 DEF Next, Acts
    <3>2. CASE Starts(t)
      BY <2>0, <3>1, <3>2, RefineStarts DEF Map!Next
    <3>3. CASE Takes(t)
      BY <2>0, <3>1, <3>3, RefineTakes DEF Map!Next
    <3>4. CASE Drops(t)
      BY <2>0, <3>1, <3>4, RefineDrops DEF Map!Next
    <3>5. CASE Answers(t)
      BY <2>0, <3>1, <3>5, RefineAnswers DEF Map!Next
    <3>6. CASE GoesOn(t) \/ Collapses(t)
      BY <2>0, <3>1, <3>6, RefineQuiet
    <3> QED
      BY <2>0, <3>1, <3>2, <3>3, <3>4, <3>5, <3>6, Kinds
  <2>2. CASE UNCHANGED vars
    <3>1. \A p \in Pids : Mapped(p)' = Mapped(p)
      BY SMT, <2>2 DEF vars, Mapped, SlotsOf
    <3>2. \A t \in Threads : CallOf(t)' = CallOf(t)
      BY <2>2 DEF vars, callVars, CallOf
    <3> QED
      BY <2>2, <3>1, <3>2 DEF vars, Map!vars
  <2> QED
    BY <2>1, <2>2
<1> QED
  BY <1>1, <1>2, TableInit, TableStep, PTL DEF Spec, BehavesLikeAMap, Map!Spec
=============================================================================
