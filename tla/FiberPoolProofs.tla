-------------------------- MODULE FiberPoolProofs --------------------------
(***************************************************************************)
(* Proofs about FiberPool, for any number of fibers, pages and frames.     *)
(***************************************************************************)
EXTENDS FiberPoolSteps, FiniteSetTheorems

(* Zenon is the prover of every step that names none. *)
USE Zenon

-----------------------------------------------------------------------------
(* What the steps use of finite sets. *)
(* A sequence without repetition is no longer than its elements are many. *)
LEMMA OnceLen ==
    ASSUME NEW S, IsFiniteSet(S), NEW s \in Seq(S), IsInjective(s)
    PROVE  Len(s) <= Cardinality(S)
<1>1. DOMAIN s = 1 .. Len(s) /\ Len(s) \in Nat
  BY SMT
<1>2. s \in Injection(1 .. Len(s), S)
  BY SMT, <1>1 DEF Injection, IsInjective
<1>3. Cardinality(1 .. Len(s)) <= Cardinality(S)
  BY <1>2, FS_Injection
<1>4. Cardinality(1 .. Len(s)) = Len(s)
  BY SMT, <1>1, FS_Interval
<1> QED BY <1>3, <1>4

LEMMA LastIndex ==
    ASSUME NEW n \in Nat, NEW T, T \subseteq 1 .. n, T # {}
    PROVE  \E x \in T : \A y \in T : y <= x
<1> DEFINE U == {m \in Nat : \E x \in T : m = n - x}
<1>1. U \subseteq Nat /\ U # {}
  <2>1. PICK x \in T : TRUE
    OBVIOUS
  <2>2. n - x \in U
    BY SMT, <2>1
  <2> QED BY <2>2
<1>2. IsWellFoundedOn(OpToRel(<, Nat), Nat)
  BY NatLessThanWellFounded
<1>3. PICK m \in U : \A k \in U : ~ (<<k, m>> \in OpToRel(<, Nat))
  <2> HIDE DEF U
  <2> QED BY <1>1, <1>2, WFMin
<1>4. \A k \in U : ~ (k < m)
  BY <1>1, <1>3 DEF OpToRel
<1>5. PICK x \in T : m = n - x
  BY <1>3
<1>6. ASSUME NEW y \in T PROVE y <= x
  <2>1. n - y \in U
    BY SMT
  <2>2. ~ (n - y < m)
    BY <1>4, <2>1
  <2> QED BY SMT, <1>5, <2>2
<1> QED BY <1>6

(* A sequence in ascending order, as long as D is large, runs through D.    *)
LEMMA AscendingOnce ==
    ASSUME NEW D, D \subseteq Nat, IsFiniteSet(D), NEW s \in [1 .. Cardinality(D) -> D],
           \A i, j \in DOMAIN s : i < j => s[i] < s[j]
    PROVE  /\ DOMAIN s = 1 .. Cardinality(D) /\ s \in Seq(D) /\ IsInjective(s)
           /\ \A k \in DOMAIN s : s[k] \in D
           /\ \A d \in D : \E k \in DOMAIN s : s[k] = d
<1>2. Cardinality(D) \in Nat
  BY FS_CardinalityType
<1>3. IsInjective(s)
  <2>1. ASSUME NEW i \in DOMAIN s, NEW j \in DOMAIN s, s[i] = s[j] PROVE i = j
    <3>1. i \in 1 .. Cardinality(D) /\ j \in 1 .. Cardinality(D) /\ s[i] \in Nat /\ s[j] \in Nat
      OBVIOUS
    <3>2. ~(i < j) /\ ~(j < i)
      BY SMT, <2>1, <3>1
    <3> QED BY SMT, <1>2, <3>1, <3>2
  <2> QED BY <2>1 DEF IsInjective
<1>4. s \in Injection(1 .. Cardinality(D), D)
  BY <1>3 DEF Injection
<1>5. Cardinality(1 .. Cardinality(D)) = Cardinality(D)
  BY SMT, <1>2, FS_Interval
<1>6. s \in Surjection(1 .. Cardinality(D), D)
  BY <1>4, <1>5, FS_Injection
<1>7. s \in Seq(D) /\ DOMAIN s = 1 .. Cardinality(D)
  BY SMT, <1>2
<1> QED BY <1>3, <1>6, <1>7 DEF Surjection

LEMMA FactsHold == FiniteFacts
<1>1. SizesFact
  <2>1. IsFiniteSet(Clients) /\ Clients # {}
    BY ClientAssumption
  <2>2. Cardinality(Clients) \in Nat \ {0}
    BY <2>1, FS_CardinalityType, FS_EmptySet
  <2>3. IsFiniteSet(Clients \cup {Evictor})
    BY <2>1, FS_AddElement
  <2>4. IsFiniteSet(Fibers) /\ Cardinality(Fibers) \in Nat
    BY <2>3, FS_CardinalityType DEF Fibers
  <2> QED BY <2>2, <2>4 DEF SizesFact
<1>2. EmptyFact
  BY FS_EmptySet DEF EmptyFact
<1>3. IntervalFact
  BY FS_Interval DEF IntervalFact
<1>4. SubsetFact
  <2>1. ASSUME NEW S, NEW T, IsFiniteSet(S), T \subseteq S
        PROVE  /\ IsFiniteSet(T) /\ Cardinality(T) \in Nat /\ Cardinality(S) \in Nat
               /\ Cardinality(S \ T) = Cardinality(S) - Cardinality(T) /\ Cardinality(S \ T) \in Nat
    <3>1. IsFiniteSet(T)
      BY <2>1, FS_Subset
    <3>2. IsFiniteSet(S \ T) /\ Cardinality(S \ T) = Cardinality(S) - Cardinality(S \cap T)
      BY <2>1, FS_Difference
    <3>3. S \cap T = T
      BY <2>1
    <3>4. Cardinality(S) \in Nat /\ Cardinality(T) \in Nat /\ Cardinality(S \ T) \in Nat
      BY <2>1, <3>1, <3>2, FS_CardinalityType
    <3> QED BY <3>1, <3>2, <3>3, <3>4
  <2> QED BY <2>1 DEF SubsetFact
<1>5. AddFact
  <2>1. ASSUME NEW S, NEW x, IsFiniteSet(S), x \notin S
        PROVE  /\ IsFiniteSet(S \cup {x}) /\ Cardinality(S \cup {x}) = Cardinality(S) + 1
               /\ Cardinality(S) \in Nat
    BY <2>1, FS_AddElement, FS_CardinalityType
  <2> QED BY <2>1 DEF AddFact
<1>6. LengthFact
  BY <1>1, OnceLen DEF LengthFact, SizesFact
<1>7. LargestFact
  BY LastIndex DEF LargestFact
<1>8. AscendingFact
  BY ZenonT(40), AscendingOnce DEF AscendingFact, Ascending
<1> QED BY <1>1, <1>2, <1>3, <1>4, <1>5, <1>6, <1>7, <1>8 DEF FiniteFacts

-----------------------------------------------------------------------------
(* The initial state. *)
LEMMA InitQueue ==
    ASSUME Init
    PROVE  /\ ready \in Seq(Fibers) /\ IsInjective(ready) /\ turn <= Len(ready) /\ turn \in 0 .. Cardinality(Fibers)
           /\ \A f \in Fibers : f \in Range(ready)
<1>1. PICK spawned \in Injection(1 .. Cardinality(Clients), Clients) : ready = <<Evictor>> \o spawned
  BY DEF Init
<1>2. IsFiniteSet(Clients) /\ Evictor \notin Clients /\ Cardinality(Clients) \in Nat
  BY ClientAssumption, FS_CardinalityType
<1>3. spawned \in [1 .. Cardinality(Clients) -> Clients] /\ IsInjective(spawned)
  BY <1>1 DEF Injection
<1>4. Cardinality(1 .. Cardinality(Clients)) = Cardinality(Clients)
  BY SMT, <1>2, FS_Interval
<1>5. spawned \in Surjection(1 .. Cardinality(Clients), Clients)
  BY <1>1, <1>2, <1>4, FS_Injection
<1>6. spawned \in Seq(Fibers) /\ Len(spawned) = Cardinality(Clients) /\ DOMAIN spawned = 1 .. Cardinality(Clients)
  BY SMT, <1>2, <1>3, ClientIsFiber
<1>7. Range(spawned) = Clients
  <2>1. \A f \in Clients : f \in Range(spawned)
    BY <1>5, <1>6 DEF Surjection, Range
  <2>2. \A f \in Range(spawned) : f \in Clients
    BY <1>3, <1>6 DEF Range
  <2> QED BY <2>1, <2>2
<1>0. PICK e : e = <<Evictor>>
  OBVIOUS
<1>8. e \in Seq(Fibers) /\ Len(e) = 1 /\ Range(e) = {Evictor} /\ IsInjective(e) /\ ready = e \o spawned
  <2>1. <<Evictor>> \in Seq(Fibers) /\ Len(<<Evictor>>) = 1 /\ Range(<<Evictor>>) = {Evictor} /\ IsInjective(<<Evictor>>)
    BY EvictorIsFiber, OneOnce
  <2> QED BY <1>0, <1>1, <2>1
<1>9. e \o spawned \in Seq(Fibers) /\ Len(e \o spawned) = Len(e) + Len(spawned)
      /\ Range(e \o spawned) = Range(e) \cup Range(spawned) /\ IsInjective(e \o spawned)
  <2>1. Range(e) \cap Range(spawned) = {}
    BY <1>2, <1>7, <1>8
  <2>2. spawned \in Seq(Fibers) /\ IsInjective(spawned) /\ e \in Seq(Fibers) /\ IsInjective(e)
    BY <1>3, <1>6, <1>8
  <2> QED BY SMT, <2>1, <2>2, CatOnce
<1>10. Cardinality(Fibers) = Cardinality(Clients) + 1
  BY <1>2, FS_AddElement DEF Fibers
<1>11. turn = Cardinality(Fibers)
  BY DEF Init
<1>12. \A f \in Fibers : f \in Range(ready)
  BY <1>7, <1>8, <1>9 DEF Fibers
<1> QED BY SMT, <1>2, <1>6, <1>8, <1>9, <1>10, <1>11, <1>12

LEMMA FiberInit == Init => FiberInv
<1> SUFFICES ASSUME Init PROVE FiberInv
  OBVIOUS
<1>1. /\ ready \in Seq(Fibers) /\ IsInjective(ready) /\ turn <= Len(ready) /\ turn \in 0 .. Cardinality(Fibers)
      /\ \A f \in Fibers : f \in Range(ready)
  BY InitQueue
<1>2. /\ at = [f \in Fibers |-> IF f = Evictor THEN "loop" ELSE "start"]
      /\ want = [f \in Clients |-> Nothing] /\ ops = 0
      /\ table = [p \in {Meta} |-> [dirty |-> TRUE, evicting |-> FALSE, io_lock |-> FALSE, marked |-> TRUE]]
      /\ waiting = [p \in {Meta} |-> <<>>] /\ mem = [p \in {Meta} |-> 0]
      /\ disk = [p \in Pids |-> IF p \in OnDisk THEN 0 ELSE Garbage]
      /\ committed = [p \in Pids |-> IF p \in OnDisk \cup {Meta} THEN 0 ELSE Garbage]
      /\ free = NumFrames - 1 /\ allocated = OnDisk \cup {Meta}
      /\ toEvict = {} /\ toWrite = {} /\ running = TRUE
      /\ toSubmit = 0 /\ sinceFirst = 0 /\ queued = {} /\ inflight = {} /\ cq = <<>>
  BY DEF Init
<1>3. at[Evictor] = "loop" /\ (\A g \in Clients : at[g] = "start")
      /\ at \in [Fibers -> {"start", "retry", "reading", "loop", "claimed", "written"}]
  BY <1>2, ClientIsFiber, EvictorIsFiber
<1>4. Resident = {Meta} /\ table[Meta].dirty /\ ~table[Meta].evicting /\ ~table[Meta].io_lock /\ table[Meta] \in Flags
      /\ waiting[Meta] = <<>> /\ mem[Meta] = 0
  BY <1>2 DEF Resident, Flags
<1>5. Meta \in Pids /\ OnDisk \subseteq Pids /\ Meta \notin OnDisk /\ NumFrames \in Nat \ {0} /\ MaxOps \in Nat
  BY SMT, SizeAssumption DEF Pids, Meta
<1>6. Range(cq) = {} /\ cq \in Seq(IO) /\ Behind(Meta) = {} /\ IsInjective(waiting[Meta]) /\ waiting[Meta] \in Seq(Clients)
  BY <1>2, <1>4, EmptyOnce DEF Behind
<1>7. TypeOK
  <2>1. want \in [Clients -> Wants]
    BY <1>2 DEF Wants, Nothing
  <2>2. disk \in [Pids -> Contents] /\ committed \in [Pids -> Contents]
    BY <1>2 DEF Contents
  <2>3. IsFunctionTo(table, Flags) /\ DOMAIN waiting = Resident /\ IsFunctionTo(waiting, Seq(Clients))
        /\ DOMAIN mem = Resident /\ IsFunctionTo(mem, Contents)
    <3>1. DOMAIN table = {Meta} /\ DOMAIN waiting = {Meta} /\ DOMAIN mem = {Meta} /\ 0 \in Contents
      BY <1>2 DEF Contents
    <3> QED BY <1>4, <1>6, <3>1 DEF IsFunctionTo
  <2>4. free \in 0 .. NumFrames /\ ops \in 0 .. MaxOps /\ toSubmit \in Nat /\ sinceFirst \in Nat
    BY SMT, <1>2, <1>5
  <2>5. Resident \subseteq Pids /\ allocated \subseteq Pids /\ toEvict \subseteq Pids /\ toWrite \subseteq Pids
        /\ queued \subseteq IO /\ inflight \subseteq IO /\ running \in BOOLEAN
    BY <1>2, <1>4, <1>5
  <2> QED BY ZenonT(40), <1>1, <1>3, <1>6, <2>1, <2>2, <2>3, <2>4, <2>5 DEF TypeOK
<1>8. Queues
  BY <1>1, <1>2, <1>6 DEF Queues
<1>9. Pages
  <2>1. PageFacts(Meta)
    BY <1>2, <1>4, <1>6 DEF PageFacts
  <2> QED BY <1>2, <1>4, <2>1 DEF Pages
<1>10. Readers
  <2>1. \A f \in Clients : at[f] # "retry" /\ at[f] # "reading" /\ at[f] \in {"start", "retry", "reading"}
    BY <1>3
  <2> QED BY <2>1 DEF Readers, ClientFacts
<1>11. Waits
  BY <1>4, <1>6 DEF Waits
<1>12. Ios
  BY <1>2, <1>6 DEF Ios, Pending
<1>13. Places
  <2>1. at[Evictor] # "claimed" /\ at[Evictor] \in {"loop", "claimed", "written"}
    BY <1>3
  <2> QED BY <1>1, <1>2, <2>1, ClientIsFiber, EvictorIsFiber DEF Places, Placed
<1>14. Data
  <2>1. \A p \in allocated : committed[p] = 0 /\ p \in Pids
    BY <1>2, <1>5
  <2>2. \A p \in allocated : p # Meta => disk[p] = 0
    BY <1>2, <1>5
  <2>3. NoWriteLost
    BY <1>4, <2>1, <2>2 DEF NoWriteLost
  <2>4. \A p \in allocated : committed[p] \in {0, 1}
    BY <2>1
  <2>5. \A f \in Clients : at[f] # "reading"
    BY <1>3
  <2> QED BY <1>2, <2>3, <2>4, <2>5 DEF Data
<1>15. Counts
  <2>1. IsFiniteSet(queued) /\ Cardinality(queued) = 0
    BY <1>2, FS_EmptySet
  <2>2. Cardinality(Resident) = 1
    BY <1>4, FS_Singleton
  <2> QED BY SMT, <1>2, <1>5, <1>7, <2>1, <2>2, FactsHold, TotalFacts DEF Counts, CountsAddUp
<1> QED BY <1>8, <1>9, <1>10, <1>11, <1>12, <1>13, <1>14, <1>15 DEF FiberInv

-----------------------------------------------------------------------------
(* The results. *)
LEMMA FiberInvariant == Spec => []FiberInv
<1>1. FiberInv /\ [Next]_vars => FiberInv'
  BY FactsHold, FiberStep
<1> QED BY FiberInit, <1>1, PTL DEF Spec

(* In the single-threaded buffer manager no write is lost, with any number *)
(* of fibers, pages and frames, in any interleaving of faults, allocations, *)
(* accesses, write-backs and completions that the reactor's loop allows:   *)
(* an open page in memory has its last write, and a page that evictNow has *)
(* dropped, or may drop, has it on the device.                             *)
THEOREM NoWriteIsLost == Spec => []NoWriteLost
<1>1. FiberInv => NoWriteLost
  BY DEF FiberInv, Data
<1> QED BY <1>1, FiberInvariant, PTL

(* Every frame is free or holds one page, whatever handleFault, allocPage  *)
(* and evictNow do, and to_submit counts the prepared I/O of check_submit, *)
(* whose index into the table of exponentials stays within it.             *)
THEOREM CountsAlwaysAddUp == Spec => []CountsAddUp
<1>1. FiberInv => CountsAddUp
  BY DEF FiberInv, Counts
<1> QED BY <1>1, FiberInvariant, PTL

(* A fiber that is not in ready_ is parked in exactly one place that wakes *)
(* it: on its own I/O, behind the reader of a page whose read is under way *)
(* (handleWait), or asleep as the evictor, which ensureFreePages wakes.    *)
THEOREM ParkedFiberIsWoken == Spec => []ParkedIsWoken
<1>1. FiberInv => ParkedIsWoken
  <2> SUFFICES ASSUME FiberInv, NEW f \in Fibers
               PROVE  \/ /\ f \in Range(ready)
                         /\ f \notin Outstanding
                         /\ \A p \in Resident : f \notin Behind(p)
                         /\ \A i, j \in DOMAIN ready : ready[i] = f /\ ready[j] = f => i = j
                      \/ f \notin Range(ready) /\ f = Evictor /\ running /\ f \in Outstanding
                      \/ f \notin Range(ready) /\ f = Evictor /\ ~running /\ f \notin Outstanding
                      \/ f \notin Range(ready) /\ f # Evictor /\ f \in Outstanding
                      \/ /\ f \notin Range(ready) \cup Outstanding
                         /\ \E p \in Resident : /\ f \in Behind(p) /\ table[p].io_lock
                                                /\ \E r \in Clients : want[r].pid = p /\ at[r] = "reading"
    BY DEF ParkedIsWoken
  <2>1. f \in Outstanding => \E io \in Pending : io.op = f
    BY DEF Outstanding, Pending
  <2>2. f \in Outstanding => f \notin Range(ready)
    BY <2>1 DEF FiberInv, Ios
  <2>3. CASE f \in Range(ready)
    <3>1. \A i, j \in DOMAIN ready : ready[i] = ready[j] => i = j
      BY DEF FiberInv, Queues, IsInjective
    <3>2. \A p \in Resident : f \notin Behind(p)
      BY <2>3 DEF FiberInv, Waits
    <3>3. \A i, j \in DOMAIN ready : ready[i] = f /\ ready[j] = f => i = j
      BY <3>1
    <3> QED BY <2>2, <2>3, <3>2, <3>3
  <2>4. CASE f \notin Range(ready) /\ f = Evictor
    <3>1. running => Evictor \in Outstanding
      BY <2>4 DEF FiberInv, Places
    <3>2. ~running => at[Evictor] # "written"
      BY DEF FiberInv, Places
    <3>3. Evictor \in Outstanding => at[Evictor] = "written"
      BY <2>1, <2>4 DEF FiberInv, Ios
    <3> QED BY <2>4, <3>1, <3>2, <3>3
  <2>5. CASE f \notin Range(ready) /\ f # Evictor
    <3>1. f \in Clients /\ Placed(f)
      BY <2>5 DEF Fibers, FiberInv, Places
    <3>2. ASSUME NEW p \in Resident, f \in Behind(p)
          PROVE  table[p].io_lock /\ \E r \in Clients : want[r].pid = p /\ at[r] = "reading"
      <4>1. PageFacts(p)
        BY DEF FiberInv, Pages
      <4> QED BY <3>2, <4>1 DEF PageFacts
    <3> QED BY <2>5, <3>1, <3>2 DEF Placed
  <2> QED BY <2>3, <2>4, <2>5
<1> QED BY <1>1, FiberInvariant, PTL
=============================================================================
