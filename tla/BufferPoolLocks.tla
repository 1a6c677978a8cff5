-------------------------- MODULE BufferPoolLocks ---------------------------
(***************************************************************************)
(* The types of BufferPool, and where its frames are: no frame is lost or  *)
(* used twice, and an evictor erases the page table entry of the frame it  *)
(* claimed.  All of it for every number of workers, fibers, pages and      *)
(* frames, every assignment of fibers and pages to workers and every bound.*)
(* Then the invariant of what a fix promises, and the steps of a client    *)
(* that fixes and unfixes pages.  BufferPoolLoads goes on with the steps   *)
(* that move pages in and out of frames, and has the theorems.             *)
(***************************************************************************)
EXTENDS BufferPool, TLAPS

(* Zenon is the prover of every step that names none. *)
USE Zenon

LEMMA NextVerType == ASSUME NEW w \in Word PROVE NextVer(w) \in 0 .. VersionLimit - 1
BY SMT, VersionAssumption DEF NextVer, Word

(* The operations of PageState turn words into words. *)
LEMMA WordTypes ==
    ASSUME NEW w \in Word
    PROVE  /\ rebind_locked(w) \in Word /\ rebind_unlocked(w) \in Word
           /\ lock_x_dirty(w) \in Word /\ unlock_x(w) \in Word /\ unlock_x_marked(w) \in Word
           /\ unlock_s(w) \in Word /\ unlock_s_marked(w) \in Word
           /\ mark(w) \in Word /\ clear_mark(w) \in Word
           /\ CanLockS(w) => lock_s(w) \in Word
           /\ \A x \in BOOLEAN : /\ [w EXCEPT !.dirty = x] \in Word
                                 /\ [w EXCEPT !.io = x] \in Word
                                 /\ [w EXCEPT !.evicting = x] \in Word
<1> USE DEF Unlocked, MaxShared, Locked, Marked, Evicted
<1>1. NextVer(w) \in 0 .. VersionLimit - 1
  BY NextVerType
<1>2. \A m \in 0 .. 255 : same_version(w, m) \in Word
  BY DEF same_version, Word
<1>3. \A m \in 0 .. 255 : next_version(w, m) \in Word /\ next_version_no_flags(w, m) \in Word
  BY <1>1 DEF next_version, next_version_no_flags, Word
<1>4. w.mode \in 0 .. 255 /\ (w.mode + 255) % 256 \in 0 .. 255
  BY SMT DEF Word
<1>5. /\ rebind_locked(w) \in Word /\ rebind_unlocked(w) \in Word
      /\ unlock_x(w) \in Word /\ unlock_x_marked(w) \in Word
  BY SMT, <1>3 DEF rebind_locked, rebind_unlocked, unlock_x, unlock_x_marked
<1>6. \A v \in Word : \A x \in BOOLEAN : /\ [v EXCEPT !.dirty = x] \in Word
                                         /\ [v EXCEPT !.io = x] \in Word
                                         /\ [v EXCEPT !.evicting = x] \in Word
  BY ZenonT(40) DEF Word
<1>7. lock_x_dirty(w) \in Word
  <2>1. same_version(w, Locked) \in Word
    BY SMT, <1>2
  <2> QED BY <2>1, <1>6 DEF lock_x_dirty
<1>8. unlock_s(w) \in Word
  BY <1>2, <1>4 DEF unlock_s
<1>9. unlock_s_marked(w) \in Word /\ mark(w) \in Word /\ clear_mark(w) \in Word
  BY SMT, <1>2, <1>8 DEF unlock_s_marked, mark, clear_mark
<1>10. CanLockS(w) => lock_s(w) \in Word
  BY SMT, <1>2, <1>4 DEF CanLockS, lock_s
<1>11. QED
  BY <1>5, <1>6, <1>7, <1>8, <1>9, <1>10

(* What the types of the frames' words rest on: at the steps that use them  *)
(* a client has a page and a frame, and an evictor a victim.                *)
ClientRefs ==
    \A f \in Fibers :
        /\ pc[f] \notin {"idle", "alloc"} => pid[f] \in Pids
        /\ pc[f] \notin {"idle", "alloc", "lookup", "fault"} => bid[f] \in Bids
EvictorRefs ==
    \A w \in Workers :
        epc[w] \in {"unmark", "claim", "collect", "erase", "commit"} => victim[w] \in Bids

TypeInv == TypeOK /\ ClientRefs /\ EvictorRefs

LEMMA TypeInit == Init => TypeInv
<1> SUFFICES ASSUME Init PROVE TypeInv
  OBVIOUS
<1> USE PidAssumption, BoundAssumption, VersionAssumption
<1>1. ThreadTypes /\ EvictTypes /\ ClientRefs /\ EvictorRefs
  BY SMT DEF Init, ThreadTypes, EvictTypes, ClientRefs, EvictorRefs, ClientStates, EvictorStates
<1>2. ZeroWord \in Word
  BY SMT DEF ZeroWord, Word, Unlocked
<1>3. FixTypes
  BY SMT, <1>2 DEF Init, FixTypes, NoPid
<1>4. PoolTypes /\ AllocTypes
  BY SMT, <1>2 DEF Init, PoolTypes, AllocTypes, NoPid, Pids
<1>5. DataTypes
  BY SMT DEF Init, DataTypes, NoPid, Pids, Content, Fresh
<1>6. QED
  BY <1>1, <1>3, <1>4, <1>5 DEF TypeInv, TypeOK

(* A frame gets another word, and the rest of the pool stays. *)
LEMMA MetaTypes ==
    ASSUME PoolTypes, NEW b \in Bids, NEW v \in Word,
           meta' = [meta EXCEPT ![b] = v], UNCHANGED <<page_table, framePid, free>>
    PROVE  PoolTypes'
BY DEF PoolTypes

(* A client that ends its operation forgets its page. *)
LEMMA DoneTypes ==
    ASSUME NEW f \in Fibers, FixTypes, Done(f), UNCHANGED ops
    PROVE  FixTypes'
<1>1. mode' \in [Fibers -> {"S", "X", "O", "A"}] /\ policy' \in [Fibers -> {"Wait", "Restart"}]
  BY DEF FixTypes, Done
<1>2. exact' \in [Fibers -> BOOLEAN]
  BY DEF FixTypes, Done
<1>3. pid' \in [Fibers -> 0 .. NumPids]
  BY SMT, PidAssumption DEF FixTypes, Done, NoPid
<1>4. bid' \in [Fibers -> Bids \cup {NoBid}]
  BY DEF FixTypes, Done
<1>5. seen' \in [Fibers -> Word]
  <2>1. ZeroWord \in Word
    BY SMT, VersionAssumption DEF ZeroWord, Word, Unlocked
  <2> QED BY <2>1 DEF FixTypes, Done
<1>6. version' \in [Fibers -> 0 .. VersionLimit - 1]
  BY SMT, VersionAssumption DEF FixTypes, Done
<1>7. observed' \in [Fibers -> Nat] /\ ops' \in 0 .. MaxOps
  BY DEF FixTypes, Done
<1> QED
  BY <1>1, <1>2, <1>3, <1>4, <1>5, <1>6, <1>7 DEF FixTypes

(* What the steps of a fix do to the references of its client. *)
LEMMA DoneRefs ==
    ASSUME NEW f \in Fibers, ThreadTypes, FixTypes, ClientRefs, Done(f)
    PROVE  ClientRefs'
BY DEF ThreadTypes, FixTypes, ClientRefs, Done, YieldTo

LEMMA GotoRefs ==
    ASSUME NEW f \in Fibers, NEW label, ThreadTypes, FixTypes, ClientRefs,
           pid[f] \in Pids, bid[f] \in Bids,
           pc' = [pc EXCEPT ![f] = label], UNCHANGED <<pid, bid>>
    PROVE  ClientRefs'
BY DEF ThreadTypes, FixTypes, ClientRefs

LEMMA TypeStep == TypeInv /\ [Next]_vars => TypeInv'
<1> SUFFICES ASSUME TypeInv, [Next]_vars PROVE TypeInv'
  OBVIOUS
<1> USE WorkerAssumption, PidAssumption DEF TypeInv, TypeOK, ClientStates, EvictorStates, Pids, NoPid,
        fixVars, clientVars, poolVars, allocVars, dataVars, evictVars

<1>1. ASSUME NEW w \in Workers, NEW f \in Fibers, Resume(w, f) PROVE TypeInv'
  <2>1. FixTypes' /\ PoolTypes' /\ AllocTypes' /\ DataTypes' /\ EvictTypes' /\ ClientRefs' /\ EvictorRefs'
    BY <1>1 DEF Resume, FixTypes, PoolTypes, AllocTypes, DataTypes, EvictTypes, ClientRefs, EvictorRefs
  <2>2. ThreadTypes'
    BY <1>1 DEF Resume, ThreadTypes
  <2> QED BY <2>1, <2>2
<1>2. ASSUME NEW w \in Workers, ResumeEvictor(w) PROVE TypeInv'
  <2>1. FixTypes' /\ PoolTypes' /\ AllocTypes' /\ DataTypes' /\ EvictTypes' /\ ClientRefs' /\ EvictorRefs'
    BY <1>2 DEF ResumeEvictor, FixTypes, PoolTypes, AllocTypes, DataTypes, EvictTypes, ClientRefs, EvictorRefs
  <2>2. ThreadTypes'
    BY <1>2 DEF ResumeEvictor, ThreadTypes
  <2> QED BY <2>1, <2>2
<1>3. ASSUME NEW f \in Fibers, FixS(f) PROVE TypeInv'
  <2>a. PICK p \in linked : Begin(f, "S", "Wait", p, "lookup")
    BY <1>3 DEF FixS
  <2>b. p \in Pids
    BY DEF AllocTypes
  <2>1. PoolTypes' /\ AllocTypes' /\ DataTypes' /\ EvictTypes' /\ EvictorRefs'
    BY <1>3 DEF FixS, Begin, On, Goto, YieldTo, PoolTypes, AllocTypes, DataTypes, EvictTypes, EvictorRefs
  <2>2. ThreadTypes'
    BY <2>a DEF Begin, Goto, ThreadTypes
  <2>3. FixTypes'
    <3>1. mode' \in [Fibers -> {"S", "X", "O", "A"}] /\ policy' \in [Fibers -> {"Wait", "Restart"}]
      BY <2>a DEF Begin, FixTypes
    <3>2. pid' \in [Fibers -> 0 .. NumPids]
      BY SMT, <2>a, <2>b DEF Begin, FixTypes
    <3>3. ops' \in 0 .. MaxOps
      BY SMT, <2>a, BoundAssumption DEF Begin, FixTypes
    <3> QED BY <2>a, <3>1, <3>2, <3>3 DEF Begin, FixTypes
  <2>4. ClientRefs'
    <3>1. pid' = [pid EXCEPT ![f] = p] /\ bid' = bid /\ pc' = [pc EXCEPT ![f] = "lookup"]
      BY <2>a DEF Begin, Goto
    <3> QED BY <2>b, <3>1 DEF ClientRefs, ThreadTypes, FixTypes
  <2> QED BY <2>1, <2>2, <2>3, <2>4
<1>4. ASSUME NEW f \in Fibers, FixO(f) PROVE TypeInv'
  <2>a. PICK p \in linked : Begin(f, "O", "Wait", p, "lookup")
    BY <1>4 DEF FixO
  <2>b. p \in Pids
    BY DEF AllocTypes
  <2>1. PoolTypes' /\ AllocTypes' /\ DataTypes' /\ EvictTypes' /\ EvictorRefs'
    BY <1>4 DEF FixO, Begin, On, Goto, YieldTo, PoolTypes, AllocTypes, DataTypes, EvictTypes, EvictorRefs
  <2>2. ThreadTypes'
    BY <2>a DEF Begin, Goto, ThreadTypes
  <2>3. FixTypes'
    <3>1. mode' \in [Fibers -> {"S", "X", "O", "A"}] /\ policy' \in [Fibers -> {"Wait", "Restart"}]
      BY <2>a DEF Begin, FixTypes
    <3>2. pid' \in [Fibers -> 0 .. NumPids]
      BY SMT, <2>a, <2>b DEF Begin, FixTypes
    <3>3. ops' \in 0 .. MaxOps
      BY SMT, <2>a, BoundAssumption DEF Begin, FixTypes
    <3> QED BY <2>a, <3>1, <3>2, <3>3 DEF Begin, FixTypes
  <2>4. ClientRefs'
    <3>1. pid' = [pid EXCEPT ![f] = p] /\ bid' = bid /\ pc' = [pc EXCEPT ![f] = "lookup"]
      BY <2>a DEF Begin, Goto
    <3> QED BY <2>b, <3>1 DEF ClientRefs, ThreadTypes, FixTypes
  <2> QED BY <2>1, <2>2, <2>3, <2>4
<1>5. ASSUME NEW f \in Fibers, FixX(f) PROVE TypeInv'
  <2>a. PICK p \in linked, pol \in {"Wait", "Restart"} : Begin(f, "X", pol, p, "lookup")
    BY <1>5 DEF FixX
  <2>b. p \in Pids
    BY DEF AllocTypes
  <2>1. PoolTypes' /\ AllocTypes' /\ DataTypes' /\ EvictTypes' /\ EvictorRefs'
    BY <1>5, ZenonT(60) DEF FixX, Begin, On, Goto, YieldTo, PoolTypes, AllocTypes, DataTypes, EvictTypes, EvictorRefs
  <2>2. ThreadTypes'
    BY <2>a DEF Begin, Goto, ThreadTypes
  <2>3. FixTypes'
    <3>1. mode' \in [Fibers -> {"S", "X", "O", "A"}] /\ policy' \in [Fibers -> {"Wait", "Restart"}]
      BY <2>a DEF Begin, FixTypes
    <3>2. pid' \in [Fibers -> 0 .. NumPids]
      BY SMT, <2>a, <2>b DEF Begin, FixTypes
    <3>3. ops' \in 0 .. MaxOps
      BY SMT, <2>a, BoundAssumption DEF Begin, FixTypes
    <3> QED BY <2>a, <3>1, <3>2, <3>3 DEF Begin, FixTypes
  <2>4. ClientRefs'
    <3>1. pid' = [pid EXCEPT ![f] = p] /\ bid' = bid /\ pc' = [pc EXCEPT ![f] = "lookup"]
      BY <2>a DEF Begin, Goto
    <3> QED BY <2>b, <3>1 DEF ClientRefs, ThreadTypes, FixTypes
  <2> QED BY <2>1, <2>2, <2>3, <2>4
<1>6. ASSUME NEW f \in Fibers, AllocPage(f) PROVE TypeInv'
  <2>1. PoolTypes' /\ AllocTypes' /\ DataTypes' /\ EvictTypes' /\ EvictorRefs'
    BY <1>6 DEF AllocPage, Begin, On, Goto, YieldTo, PoolTypes, AllocTypes, DataTypes, EvictTypes, EvictorRefs
  <2>2. ThreadTypes'
    BY <1>6 DEF AllocPage, Begin, On, Goto, YieldTo, ThreadTypes
  <2>3. FixTypes'
    <3>1. mode' \in [Fibers -> {"S", "X", "O", "A"}] /\ policy' \in [Fibers -> {"Wait", "Restart"}]
      BY <1>6 DEF AllocPage, Begin, FixTypes
    <3>2. pid' \in [Fibers -> 0 .. NumPids]
      BY SMT, <1>6 DEF AllocPage, Begin, FixTypes
    <3>3. ops' \in 0 .. MaxOps
      BY SMT, <1>6, BoundAssumption DEF AllocPage, Begin, FixTypes
    <3> QED BY <1>6, <3>1, <3>2, <3>3 DEF AllocPage, Begin, FixTypes
  <2>4. ClientRefs'
    BY <1>6 DEF AllocPage, Begin, On, Goto, YieldTo, ClientRefs, ThreadTypes, FixTypes
  <2> QED BY <2>1, <2>2, <2>3, <2>4
<1>7. ASSUME NEW f \in Fibers, Rest(f) PROVE TypeInv'
  <2>1. FixTypes' /\ PoolTypes' /\ AllocTypes' /\ DataTypes' /\ EvictTypes' /\ EvictorRefs'
    BY <1>7 DEF Rest, On, Goto, YieldTo, FixTypes, PoolTypes, AllocTypes, DataTypes, EvictTypes, EvictorRefs
  <2>2. ThreadTypes'
    BY <1>7 DEF Rest, On, Goto, YieldTo, ThreadTypes
  <2>3. ClientRefs'
    BY <1>7 DEF Rest, On, Goto, YieldTo, ClientRefs, ThreadTypes, FixTypes
  <2> QED BY <2>1, <2>2, <2>3
<1>8. ASSUME NEW f \in Fibers, Lookup(f) PROVE TypeInv'
  <2>a. pid[f] \in Pids /\ page_table[pid[f]] \in Bids \cup {NoBid}
    BY <1>8 DEF Lookup, On, ClientRefs, PoolTypes
  <2>1. PoolTypes' /\ AllocTypes' /\ DataTypes' /\ EvictTypes' /\ EvictorRefs'
    BY <1>8 DEF Lookup, On, Goto, YieldTo, PoolTypes, AllocTypes, DataTypes, EvictTypes, EvictorRefs
  <2>2. ThreadTypes'
    BY <1>8 DEF Lookup, On, Goto, YieldTo, ThreadTypes
  <2>3. FixTypes'
    BY <1>8, <2>a DEF Lookup, FixTypes
  <2>4. ClientRefs'
    <3>1. pc' = [pc EXCEPT ![f] = IF page_table[pid[f]] = NoBid THEN "fault" ELSE "load"]
      BY <1>8 DEF Lookup, Goto
    <3>2. bid' = [bid EXCEPT ![f] = page_table[pid[f]]] /\ pid' = pid
      BY <1>8 DEF Lookup
    <3> QED BY <2>a, <3>1, <3>2 DEF ClientRefs, ThreadTypes, FixTypes
  <2> QED BY <2>1, <2>2, <2>3, <2>4
<1>9. ASSUME NEW f \in Fibers, Load(f) PROVE TypeInv'
  <2>1. PoolTypes' /\ AllocTypes' /\ DataTypes' /\ EvictTypes' /\ EvictorRefs'
    BY <1>9 DEF Load, On, Goto, YieldTo, Done, PidChanged, PoolTypes, AllocTypes, DataTypes, EvictTypes, EvictorRefs
  <2>2. ThreadTypes'
    BY <1>9 DEF Load, On, Goto, YieldTo, Done, PidChanged, ThreadTypes
  <2>3. FixTypes'
    <3>1. CASE Done(f)
      BY <1>9, <3>1, DoneTypes DEF Load
    <3>2. CASE UNCHANGED fixVars
      BY <1>9, <3>2 DEF Load, FixTypes
    <3>3. CASE /\ seen' = [seen EXCEPT ![f] = meta[bid[f]]]
               /\ UNCHANGED <<mode, policy, exact, pid, bid, version, observed>>
      <4>1. meta[bid[f]] \in Word
        BY <1>9 DEF Load, On, ClientRefs, PoolTypes
      <4> QED BY <1>9, <3>3, <4>1 DEF Load, FixTypes
    <3> QED BY <1>9, <3>1, <3>2, <3>3 DEF Load, PidChanged
  <2>4. ClientRefs'
    <3>1. pid[f] \in Pids /\ bid[f] \in Bids
      BY <1>9 DEF Load, On, ClientRefs
    <3>2. \/ Done(f)
          \/ /\ \E label : pc' = [pc EXCEPT ![f] = label]
             /\ UNCHANGED <<pid, bid>>
      BY <1>9 DEF Load, PidChanged, Goto, YieldTo
    <3> QED BY <3>1, <3>2, DoneRefs, GotoRefs
  <2> QED BY <2>1, <2>2, <2>3, <2>4
<1>10. ASSUME NEW f \in Fibers, Flags(f) PROVE TypeInv'
  <2>1. PoolTypes' /\ AllocTypes' /\ DataTypes' /\ EvictTypes' /\ EvictorRefs'
    BY <1>10 DEF Flags, On, Goto, YieldTo, Done, Conflict, PoolTypes, AllocTypes, DataTypes, EvictTypes, EvictorRefs
  <2>2. ThreadTypes'
    BY ZenonT(40), <1>10 DEF Flags, On, Goto, YieldTo, Done, Conflict, ThreadTypes
  <2>3. FixTypes'
    <3>1. CASE Done(f)
      BY <1>10, <3>1, DoneTypes DEF Flags
    <3>2. CASE UNCHANGED fixVars
      BY <1>10, <3>2 DEF Flags, FixTypes
    <3> QED BY <1>10, <3>1, <3>2 DEF Flags, Conflict
  <2>4. ClientRefs'
    <3>1. pid[f] \in Pids /\ bid[f] \in Bids
      BY <1>10 DEF Flags, On, ClientRefs
    <3>2. \/ Done(f)
          \/ /\ \E label : pc' = [pc EXCEPT ![f] = label]
             /\ UNCHANGED <<pid, bid>>
      BY <1>10 DEF Flags, Conflict, Goto, YieldTo
    <3> QED BY <3>1, <3>2, DoneRefs, GotoRefs
  <2> QED BY <2>1, <2>2, <2>3, <2>4
<1>11. ASSUME NEW f \in Fibers, Cas(f) PROVE TypeInv'
  <2>1. AllocTypes' /\ DataTypes' /\ EvictTypes' /\ EvictorRefs'
    BY <1>11 DEF Cas, On, Goto, YieldTo, Done, Conflict, Lockable, LockedWord, AllocTypes, DataTypes, EvictTypes, EvictorRefs
  <2>2. ThreadTypes'
    BY <1>11 DEF Cas, On, Goto, YieldTo, Done, Conflict, Lockable, LockedWord, ThreadTypes
  <2>3. FixTypes'
    <3>1. CASE Done(f)
      BY <1>11, <3>1, DoneTypes DEF Cas
    <3>2. CASE UNCHANGED fixVars
      BY <1>11, <3>2 DEF Cas, FixTypes
    <3> QED BY <1>11, <3>1, <3>2 DEF Cas, Conflict
  <2>4. PoolTypes'
    <3>1. bid[f] \in Bids /\ seen[f] \in Word
      BY <1>11 DEF Cas, On, ClientRefs, FixTypes
    <3>2. Lockable(f) => LockedWord(f) \in Word
      BY <3>1, WordTypes DEF Lockable, LockedWord
    <3>3. CASE Lockable(f) /\ meta[bid[f]] = seen[f]
      <4>1. meta' = [meta EXCEPT ![bid[f]] = LockedWord(f)] /\ UNCHANGED <<page_table, framePid, free>>
        BY <1>11, <3>3 DEF Cas
      <4> QED BY <3>1, <3>2, <3>3, <4>1, MetaTypes
    <3>4. CASE ~(Lockable(f) /\ meta[bid[f]] = seen[f])
      BY <1>11, <3>4 DEF Cas, PoolTypes
    <3> QED BY <3>3, <3>4
  <2>5. ClientRefs'
    <3>1. pid[f] \in Pids /\ bid[f] \in Bids
      BY <1>11 DEF Cas, On, ClientRefs
    <3>2. \/ Done(f)
          \/ /\ \E label : pc' = [pc EXCEPT ![f] = label]
             /\ UNCHANGED <<pid, bid>>
      BY <1>11 DEF Cas, Conflict, Goto, YieldTo
    <3> QED BY <3>1, <3>2, DoneRefs, GotoRefs
  <2> QED BY <2>1, <2>2, <2>3, <2>4, <2>5
<1>12. ASSUME NEW f \in Fibers, PrepareOptimistic(f) PROVE TypeInv'
  <2>1. AllocTypes' /\ DataTypes' /\ EvictTypes' /\ EvictorRefs'
    BY <1>12 DEF PrepareOptimistic, On, Goto, YieldTo, Done, Conflict, AllocTypes, DataTypes, EvictTypes, EvictorRefs
  <2>2. ThreadTypes'
    BY <1>12 DEF PrepareOptimistic, On, Goto, YieldTo, Done, Conflict, ThreadTypes
  <2>3. FixTypes'
    <3>1. CASE Done(f)
      BY <1>12, <3>1, DoneTypes DEF PrepareOptimistic
    <3>2. CASE UNCHANGED fixVars
      BY <1>12, <3>2 DEF PrepareOptimistic, FixTypes
    <3>3. CASE /\ seen' = [seen EXCEPT ![f] = mark(meta[bid[f]])]
               /\ version' = [version EXCEPT ![f] = meta[bid[f]].ver]
               /\ observed' = [observed EXCEPT ![f] = committed[pid[f]]]
               /\ UNCHANGED <<mode, policy, exact, pid, bid>>
      <4>1. meta[bid[f]] \in Word /\ committed[pid[f]] \in Nat
        BY <1>12 DEF PrepareOptimistic, On, ClientRefs, PoolTypes, DataTypes
      <4>2. mark(meta[bid[f]]) \in Word
        BY <4>1, WordTypes
      <4>3. meta[bid[f]].ver \in 0 .. VersionLimit - 1
        BY <4>1 DEF Word
      <4>4. seen' \in [Fibers -> Word]
        BY <3>3, <4>2 DEF FixTypes
      <4>5. version' \in [Fibers -> 0 .. VersionLimit - 1] /\ observed' \in [Fibers -> Nat]
        BY <3>3, <4>1, <4>3 DEF FixTypes
      <4> QED BY <1>12, <3>3, <4>4, <4>5 DEF PrepareOptimistic, FixTypes
    <3> QED BY <1>12, <3>1, <3>2, <3>3 DEF PrepareOptimistic, Conflict
  <2>4. PoolTypes'
    <3>1. bid[f] \in Bids /\ meta[bid[f]] \in Word
      BY <1>12 DEF PrepareOptimistic, On, ClientRefs, PoolTypes
    <3>2. mark(meta[bid[f]]) \in Word
      BY <3>1, WordTypes
    <3>3. CASE CanReadOptimistically(meta[bid[f]])
      <4>1. meta' = [meta EXCEPT ![bid[f]] = mark(meta[bid[f]])] /\ UNCHANGED <<page_table, framePid, free>>
        BY <1>12, <3>3 DEF PrepareOptimistic
      <4> QED BY <3>1, <3>2, <4>1, MetaTypes
    <3>4. CASE ~CanReadOptimistically(meta[bid[f]])
      BY <1>12, <3>4 DEF PrepareOptimistic, PoolTypes
    <3> QED BY <3>3, <3>4
  <2>5. ClientRefs'
    <3>1. pid[f] \in Pids /\ bid[f] \in Bids
      BY <1>12 DEF PrepareOptimistic, On, ClientRefs
    <3>2. \/ Done(f)
          \/ /\ \E label : pc' = [pc EXCEPT ![f] = label]
             /\ UNCHANGED <<pid, bid>>
      BY <1>12 DEF PrepareOptimistic, Conflict, Goto, YieldTo
    <3> QED BY <3>1, <3>2, DoneRefs, GotoRefs
  <2> QED BY <2>1, <2>2, <2>3, <2>4, <2>5
<1>13. ASSUME NEW f \in Fibers, Recheck(f) PROVE TypeInv'
  <2>1. AllocTypes' /\ DataTypes' /\ EvictTypes' /\ EvictorRefs'
    BY <1>13 DEF Recheck, On, Goto, YieldTo, Done, PidChanged, AllocTypes, DataTypes, EvictTypes, EvictorRefs
  <2>2. ThreadTypes'
    BY <1>13 DEF Recheck, On, Goto, YieldTo, Done, PidChanged, ThreadTypes
  <2>3. FixTypes'
    <3>1. CASE Done(f)
      BY <1>13, <3>1, DoneTypes DEF Recheck
    <3>2. CASE UNCHANGED fixVars
      BY <1>13, <3>2 DEF Recheck, FixTypes
    <3> QED BY <1>13, <3>1, <3>2 DEF Recheck, PidChanged
  <2>4. PoolTypes'
    <3>1. bid[f] \in Bids /\ meta[bid[f]] \in Word
      BY <1>13 DEF Recheck, On, ClientRefs, PoolTypes
    <3> DEFINE word == CASE mode[f] = "S" -> unlock_s(meta[bid[f]])
                         [] mode[f] = "X" -> unlock_x(meta[bid[f]])
                         [] OTHER -> meta[bid[f]]
    <3>2. word \in Word
      BY <3>1, WordTypes
    <3>3. CASE framePid[bid[f]] = pid[f]
      BY <1>13, <3>3 DEF Recheck, PoolTypes
    <3>4. CASE framePid[bid[f]] # pid[f]
      <4>1. meta' = [meta EXCEPT ![bid[f]] = word] /\ UNCHANGED <<page_table, framePid, free>>
        BY <1>13, <3>4 DEF Recheck
      <4> HIDE DEF word
      <4> QED BY <3>1, <3>2, <4>1, MetaTypes
    <3> QED BY <3>3, <3>4
  <2>5. ClientRefs'
    BY SMT, <1>13 DEF Recheck, On, Goto, YieldTo, Done, PidChanged, ClientRefs, ThreadTypes, FixTypes
  <2> QED BY <2>1, <2>2, <2>3, <2>4, <2>5
<1>14. ASSUME NEW f \in Fibers, HoldYield(f) PROVE TypeInv'
  <2>1. FixTypes' /\ PoolTypes' /\ AllocTypes' /\ DataTypes' /\ EvictTypes' /\ EvictorRefs'
    BY <1>14 DEF HoldYield, On, Goto, YieldTo, FixTypes, PoolTypes, AllocTypes, DataTypes, EvictTypes, EvictorRefs
  <2>2. ThreadTypes'
    BY SMT, <1>14 DEF HoldYield, On, Goto, YieldTo, ThreadTypes
  <2>3. ClientRefs'
    BY <1>14 DEF HoldYield, On, Goto, YieldTo, ClientRefs, ThreadTypes, FixTypes
  <2> QED BY <2>1, <2>2, <2>3
<1>15. ASSUME NEW f \in Fibers, WritePage(f) PROVE TypeInv'
  <2>1. FixTypes' /\ PoolTypes' /\ AllocTypes' /\ EvictTypes' /\ EvictorRefs'
    BY <1>15 DEF WritePage, On, Goto, YieldTo, FixTypes, PoolTypes, AllocTypes, EvictTypes, EvictorRefs
  <2>2. ThreadTypes'
    BY <1>15 DEF WritePage, On, Goto, YieldTo, ThreadTypes
  <2>3. DataTypes'
    <3>1. pid[f] \in Pids /\ bid[f] \in Bids
      BY <1>15 DEF WritePage, On, ClientRefs
    <3>2. data[bid[f]] \in Content
      BY <3>1 DEF DataTypes
    <3>3. [data[bid[f]] EXCEPT !.writes = data[bid[f]].writes + 1] \in Content
      BY SMT, <3>2 DEF Content
    <3>4. data' = [data EXCEPT ![bid[f]] = [data[bid[f]] EXCEPT !.writes = data[bid[f]].writes + 1]]
      BY <1>15 DEF WritePage
    <3>5. data' \in [Bids -> Content]
      BY <3>3, <3>4 DEF DataTypes
    <3>6. committed' \in [Pids -> Nat]
      BY SMT, <1>15, <3>1 DEF WritePage, DataTypes
    <3> QED BY <1>15, <3>5, <3>6 DEF WritePage, DataTypes
  <2>4. ClientRefs'
    BY <1>15 DEF WritePage, On, Goto, YieldTo, ClientRefs, ThreadTypes, FixTypes
  <2> QED BY <2>1, <2>2, <2>3, <2>4
<1>16. ASSUME NEW f \in Fibers, UnfixS(f) PROVE TypeInv'
  <2>1. AllocTypes' /\ DataTypes' /\ EvictTypes' /\ EvictorRefs'
    BY <1>16 DEF UnfixS, On, Goto, YieldTo, Done, AllocTypes, DataTypes, EvictTypes, EvictorRefs
  <2>2. ThreadTypes'
    BY <1>16 DEF UnfixS, On, Goto, YieldTo, Done, ThreadTypes
  <2>3. FixTypes'
    BY <1>16, DoneTypes DEF UnfixS
  <2>4. PoolTypes'
    <3>1. bid[f] \in Bids /\ meta[bid[f]] \in Word
      BY <1>16 DEF UnfixS, On, ClientRefs, PoolTypes
    <3>2. unlock_s_marked(meta[bid[f]]) \in Word
      BY <3>1, WordTypes
    <3>3. meta' = [meta EXCEPT ![bid[f]] = unlock_s_marked(meta[bid[f]])] /\ UNCHANGED <<page_table, framePid, free>>
      BY <1>16 DEF UnfixS
    <3> QED BY <3>1, <3>2, <3>3, MetaTypes
  <2>5. ClientRefs'
    BY <1>16 DEF UnfixS, On, Goto, YieldTo, Done, ClientRefs, ThreadTypes, FixTypes
  <2> QED BY <2>1, <2>2, <2>3, <2>4, <2>5
<1>17. ASSUME NEW f \in Fibers, UnfixX(f) PROVE TypeInv'
  <2>1. AllocTypes' /\ DataTypes' /\ EvictTypes' /\ EvictorRefs'
    BY <1>17 DEF UnfixX, On, Goto, YieldTo, Done, AllocTypes, DataTypes, EvictTypes, EvictorRefs
  <2>2. ThreadTypes'
    BY <1>17 DEF UnfixX, On, Goto, YieldTo, Done, ThreadTypes
  <2>3. PoolTypes'
    <3>1. bid[f] \in Bids /\ meta[bid[f]] \in Word
      BY <1>17 DEF UnfixX, On, ClientRefs, PoolTypes
    <3>2. [meta[bid[f]] EXCEPT !.dirty = TRUE] \in Word
      BY <3>1, WordTypes
    <3>3. meta' = [meta EXCEPT ![bid[f]] = [meta[bid[f]] EXCEPT !.dirty = TRUE]] /\ UNCHANGED <<page_table, framePid, free>>
      BY <1>17 DEF UnfixX
    <3> QED BY <3>1, <3>2, <3>3, MetaTypes
  <2>4. FixTypes'
    <3>1. bid[f] \in Bids /\ meta[bid[f]] \in Word
      BY <1>17 DEF UnfixX, On, ClientRefs, PoolTypes
    <3>2. meta'[bid[f]] \in Word
      BY <2>3, <3>1 DEF PoolTypes
    <3> QED BY <1>17, <3>2 DEF UnfixX, FixTypes
  <2>5. ClientRefs'
    BY <1>17 DEF UnfixX, On, Goto, YieldTo, Done, ClientRefs, ThreadTypes, FixTypes
  <2> QED BY <2>1, <2>2, <2>3, <2>4, <2>5
<1>18. ASSUME NEW f \in Fibers, StoreUnlocked(f) PROVE TypeInv'
  <2>1. DataTypes' /\ EvictTypes' /\ EvictorRefs'
    BY <1>18 DEF StoreUnlocked, On, Goto, YieldTo, Done, DataTypes, EvictTypes, EvictorRefs
  <2>2. ThreadTypes'
    <3>1. pc' \in [Fibers -> ClientStates]
      BY <1>18 DEF StoreUnlocked, Done, YieldTo, ThreadTypes
    <3>2. running' \in [Workers -> Fibers \cup {Evictor, Idle}]
      BY <1>18 DEF StoreUnlocked, Done, YieldTo, ThreadTypes
    <3> QED BY <1>18, <3>1, <3>2 DEF StoreUnlocked, ThreadTypes
  <2>3. FixTypes'
    BY <1>18, DoneTypes DEF StoreUnlocked
  <2>4. PoolTypes'
    <3>1. bid[f] \in Bids /\ seen[f] \in Word
      BY <1>18 DEF StoreUnlocked, On, ClientRefs, FixTypes
    <3>2. unlock_x_marked(seen[f]) \in Word
      BY <3>1, WordTypes
    <3>3. meta' = [meta EXCEPT ![bid[f]] = unlock_x_marked(seen[f])] /\ UNCHANGED <<page_table, framePid, free>>
      BY <1>18 DEF StoreUnlocked
    <3> QED BY <3>1, <3>2, <3>3, MetaTypes
  <2>5. AllocTypes'
    <3>1. pid[f] \in Pids
      BY <1>18 DEF StoreUnlocked, On, ClientRefs
    <3> QED BY <1>18, <3>1 DEF StoreUnlocked, AllocTypes
  <2>6. ClientRefs'
    BY <1>18 DEF StoreUnlocked, On, Goto, YieldTo, Done, ClientRefs, ThreadTypes, FixTypes
  <2> QED BY <2>1, <2>2, <2>3, <2>4, <2>5, <2>6
<1>19. ASSUME NEW f \in Fibers, Validate(f) PROVE TypeInv'
  <2>1. PoolTypes' /\ AllocTypes' /\ DataTypes' /\ EvictTypes' /\ EvictorRefs'
    BY <1>19 DEF Validate, On, Goto, YieldTo, Done, PoolTypes, AllocTypes, DataTypes, EvictTypes, EvictorRefs
  <2>2. ThreadTypes'
    BY <1>19 DEF Validate, On, Goto, YieldTo, Done, ThreadTypes
  <2>3. FixTypes'
    <3>1. CASE Done(f)
      BY <1>19, <3>1, DoneTypes DEF Validate
    <3>2. CASE UNCHANGED fixVars
      BY <1>19, <3>2 DEF Validate, FixTypes
    <3> QED BY <1>19, <3>1, <3>2 DEF Validate
  <2>4. ClientRefs'
    BY SMT, <1>19 DEF Validate, On, Goto, YieldTo, Done, ClientRefs, ThreadTypes, FixTypes
  <2> QED BY <2>1, <2>2, <2>3, <2>4
<1>20. ASSUME NEW f \in Fibers, ReleaseGuard(f) PROVE TypeInv'
  <2>1. PoolTypes' /\ AllocTypes' /\ DataTypes' /\ EvictTypes' /\ EvictorRefs'
    BY <1>20 DEF ReleaseGuard, On, Goto, YieldTo, Done, PoolTypes, AllocTypes, DataTypes, EvictTypes, EvictorRefs
  <2>2. ThreadTypes'
    BY <1>20 DEF ReleaseGuard, On, Goto, YieldTo, Done, ThreadTypes
  <2>3. FixTypes'
    BY <1>20, DoneTypes DEF ReleaseGuard
  <2>4. ClientRefs'
    BY <1>20 DEF ReleaseGuard, On, Goto, YieldTo, Done, ClientRefs, ThreadTypes, FixTypes
  <2> QED BY <2>1, <2>2, <2>3, <2>4
<1>21. ASSUME NEW f \in Fibers, Handover(f) PROVE TypeInv'
  <2>1. PoolTypes' /\ AllocTypes' /\ DataTypes' /\ EvictTypes' /\ EvictorRefs'
    BY <1>21 DEF Handover, On, Goto, YieldTo, PoolTypes, AllocTypes, DataTypes, EvictTypes, EvictorRefs
  <2>2. ThreadTypes'
    BY <1>21 DEF Handover, On, Goto, YieldTo, ThreadTypes
  <2>3. FixTypes'
    BY SMT, <1>21 DEF Handover, On, Goto, YieldTo, FixTypes
  <2>4. ClientRefs'
    BY <1>21 DEF Handover, On, Goto, YieldTo, ClientRefs, ThreadTypes, FixTypes
  <2> QED BY <2>1, <2>2, <2>3, <2>4
<1>22. ASSUME NEW f \in Fibers, Fault(f) PROVE TypeInv'
  <2>1. AllocTypes' /\ DataTypes' /\ EvictTypes' /\ EvictorRefs'
    BY <1>22 DEF Fault, On, Goto, YieldTo, Take, AllocTypes, DataTypes, EvictTypes, EvictorRefs
  <2>2. ThreadTypes'
    BY <1>22 DEF Fault, On, Goto, YieldTo, Take, ThreadTypes
  <2>3. FixTypes'
    BY ZenonT(40), <1>22, ZenonT(60) DEF Fault, On, Goto, YieldTo, Take, FixTypes
  <2>4. PoolTypes'
    BY <1>22 DEF Fault, On, Goto, YieldTo, Take, PoolTypes
  <2>5. ClientRefs'
    BY ZenonT(40), <1>22, ZenonT(60) DEF Fault, On, Goto, YieldTo, Take, ClientRefs, ThreadTypes, FixTypes
  <2> QED BY <2>1, <2>2, <2>3, <2>4, <2>5
<1>23. ASSUME NEW f \in Fibers, Alloc(f) PROVE TypeInv'
  <2>a. CASE Available = {} \/ allocCount > NumPids
    <3>1. Done(f) /\ UNCHANGED <<free, allocCount>> /\ UNCHANGED <<ops, page_table, meta, framePid, linked>>
      BY <1>23, <2>a DEF Alloc
    <3>2. FixTypes'
      BY <3>1, DoneTypes
    <3>3. ThreadTypes' /\ ClientRefs'
      BY <1>23, <3>1 DEF Alloc, Done, YieldTo, ThreadTypes, ClientRefs, FixTypes
    <3>4. PoolTypes' /\ AllocTypes' /\ DataTypes' /\ EvictTypes' /\ EvictorRefs'
      BY <1>23, <3>1 DEF Alloc, PoolTypes, AllocTypes, DataTypes, EvictTypes, EvictorRefs
    <3> QED BY <3>2, <3>3, <3>4
  <2>b. CASE ~(Available = {} \/ allocCount > NumPids)
    <3>1. allocCount \in Pids
      BY SMT, <2>b DEF AllocTypes
    <3>2. PICK b \in Bids : Take(f, b)
      BY <1>23, <2>b DEF Alloc
    <3>3. /\ pid' = [pid EXCEPT ![f] = allocCount] /\ allocCount' = allocCount + 1
          /\ UNCHANGED <<mode, policy, exact, seen, version, observed>>
          /\ UNCHANGED <<ops, page_table, meta, framePid, linked>>
      BY <1>23, <2>b DEF Alloc
    <3>4. pid' \in [Fibers -> 0 .. NumPids] /\ bid' \in [Fibers -> Bids \cup {NoBid}]
      BY SMT, <3>1, <3>2, <3>3 DEF Take, FixTypes
    <3>5. FixTypes'
      BY <3>3, <3>4 DEF FixTypes
    <3>6. PoolTypes' /\ AllocTypes'
      BY SMT, <2>b, <3>2, <3>3 DEF Take, PoolTypes, AllocTypes
    <3>7. ThreadTypes'
      BY <1>23, <3>2 DEF Alloc, Take, Goto, ThreadTypes
    <3>8. ClientRefs'
      BY <3>1, <3>2, <3>3 DEF Take, Goto, ClientRefs, ThreadTypes, FixTypes
    <3>9. DataTypes' /\ EvictTypes' /\ EvictorRefs'
      BY <1>23 DEF Alloc, DataTypes, EvictTypes, EvictorRefs
    <3> QED BY <3>5, <3>6, <3>7, <3>8, <3>9
  <2> QED BY <2>a, <2>b
<1>24. ASSUME NEW f \in Fibers, Bind(f) PROVE TypeInv'
  <2>1. FixTypes' /\ AllocTypes' /\ DataTypes' /\ EvictTypes' /\ EvictorRefs'
    BY <1>24 DEF Bind, On, Goto, YieldTo, FixTypes, AllocTypes, DataTypes, EvictTypes, EvictorRefs
  <2>2. ThreadTypes'
    BY <1>24 DEF Bind, On, Goto, YieldTo, ThreadTypes
  <2>3. PoolTypes'
    <3>1. bid[f] \in Bids /\ meta[bid[f]] \in Word
      BY <1>24 DEF Bind, On, ClientRefs, PoolTypes
    <3>2. rebind_locked(meta[bid[f]]) \in Word
      BY <3>1, WordTypes
    <3>3. meta' = [meta EXCEPT ![bid[f]] = rebind_locked(meta[bid[f]])] /\ UNCHANGED <<page_table, framePid, free>>
      BY <1>24 DEF Bind
    <3> QED BY <3>1, <3>2, <3>3, MetaTypes
  <2>4. ClientRefs'
    BY <1>24 DEF Bind, On, Goto, YieldTo, ClientRefs, ThreadTypes, FixTypes
  <2> QED BY <2>1, <2>2, <2>3, <2>4
<1>25. ASSUME NEW f \in Fibers, SetFlag(f) PROVE TypeInv'
  <2>1. FixTypes' /\ AllocTypes' /\ DataTypes' /\ EvictTypes' /\ EvictorRefs'
    BY <1>25 DEF SetFlag, On, Goto, YieldTo, FixTypes, AllocTypes, DataTypes, EvictTypes, EvictorRefs
  <2>2. ThreadTypes'
    BY <1>25 DEF SetFlag, On, Goto, YieldTo, ThreadTypes
  <2>3. PoolTypes'
    <3>1. bid[f] \in Bids /\ meta[bid[f]] \in Word
      BY <1>25 DEF SetFlag, On, ClientRefs, PoolTypes
    <3>2. (IF mode[f] = "A" THEN [meta[bid[f]] EXCEPT !.dirty = TRUE] ELSE [meta[bid[f]] EXCEPT !.io = TRUE]) \in Word
      BY <3>1, WordTypes
    <3>3. meta' = [meta EXCEPT ![bid[f]] = (IF mode[f] = "A" THEN [meta[bid[f]] EXCEPT !.dirty = TRUE] ELSE [meta[bid[f]] EXCEPT !.io = TRUE])] /\ UNCHANGED <<page_table, framePid, free>>
      BY <1>25 DEF SetFlag
    <3> QED BY <3>1, <3>2, <3>3, MetaTypes
  <2>4. ClientRefs'
    BY <1>25 DEF SetFlag, On, Goto, YieldTo, ClientRefs, ThreadTypes, FixTypes
  <2> QED BY <2>1, <2>2, <2>3, <2>4
<1>26. ASSUME NEW f \in Fibers, SetPid(f) PROVE TypeInv'
  <2>1. FixTypes' /\ AllocTypes' /\ DataTypes' /\ EvictTypes' /\ EvictorRefs'
    BY <1>26 DEF SetPid, On, Goto, YieldTo, FixTypes, AllocTypes, DataTypes, EvictTypes, EvictorRefs
  <2>2. ThreadTypes'
    BY <1>26 DEF SetPid, On, Goto, YieldTo, ThreadTypes
  <2>3. PoolTypes'
    <3>1. pid[f] \in 0 .. NumPids
      BY DEF FixTypes
    <3> QED BY <1>26, <3>1 DEF SetPid, PoolTypes
  <2>4. ClientRefs'
    BY <1>26 DEF SetPid, On, Goto, YieldTo, ClientRefs, ThreadTypes, FixTypes
  <2> QED BY <2>1, <2>2, <2>3, <2>4
<1>27. ASSUME NEW f \in Fibers, Insert(f) PROVE TypeInv'
  <2>1. FixTypes' /\ AllocTypes' /\ EvictTypes' /\ EvictorRefs'
    BY <1>27 DEF Insert, On, Goto, YieldTo, FixTypes, AllocTypes, EvictTypes, EvictorRefs
  <2>2. ThreadTypes'
    BY <1>27 DEF Insert, On, Goto, YieldTo, ThreadTypes
  <2>3. PoolTypes'
    <3>1. bid[f] \in Bids
      BY <1>27 DEF Insert, On, ClientRefs
    <3>2. page_table' \in [Pids -> Bids \cup {NoBid}]
      <4>1. CASE page_table' = page_table
        BY <4>1 DEF PoolTypes
      <4>2. CASE page_table' = [page_table EXCEPT ![pid[f]] = bid[f]]
        BY <3>1, <4>2 DEF PoolTypes
      <4> QED BY <1>27, <4>1, <4>2 DEF Insert
    <3> QED BY <1>27, <3>2 DEF Insert, PoolTypes
  <2>4. DataTypes'
    <3>1. pid[f] \in Pids /\ Fresh(pid[f]) \in Content
      <4>1. pid[f] \in Pids
        BY <1>27 DEF Insert, On, ClientRefs
      <4>2. pid[f] \in 0 .. NumPids
        BY SMT, <4>1, PidAssumption DEF Pids
      <4> QED BY <4>1, <4>2 DEF Fresh, Content
    <3>2. CASE data' = data
      BY <1>27, <3>2 DEF Insert, DataTypes
    <3>3. CASE data' = [data EXCEPT ![bid[f]] = Fresh(pid[f])]
      BY <1>27, <3>1, <3>3 DEF Insert, DataTypes
    <3> QED BY <1>27, <3>2, <3>3 DEF Insert
  <2>5. ClientRefs'
    BY <1>27 DEF Insert, On, Goto, YieldTo, ClientRefs, ThreadTypes, FixTypes
  <2> QED BY <2>1, <2>2, <2>3, <2>4, <2>5
<1>28. ASSUME NEW f \in Fibers, Undo(f) PROVE TypeInv'
  <2>1. FixTypes' /\ AllocTypes' /\ DataTypes' /\ EvictTypes' /\ EvictorRefs'
    BY <1>28 DEF Undo, On, Goto, YieldTo, FixTypes, AllocTypes, DataTypes, EvictTypes, EvictorRefs
  <2>2. ThreadTypes'
    BY <1>28 DEF Undo, On, Goto, YieldTo, ThreadTypes
  <2>3. PoolTypes'
    <3>1. bid[f] \in Bids /\ meta[bid[f]] \in Word
      BY <1>28 DEF Undo, On, ClientRefs, PoolTypes
    <3>2. rebind_unlocked(meta[bid[f]]) \in Word
      BY <3>1, WordTypes
    <3>3. meta' = [meta EXCEPT ![bid[f]] = rebind_unlocked(meta[bid[f]])] /\ UNCHANGED <<page_table, framePid, free>>
      BY <1>28 DEF Undo
    <3> QED BY <3>1, <3>2, <3>3, MetaTypes
  <2>4. ClientRefs'
    BY <1>28 DEF Undo, On, Goto, YieldTo, ClientRefs, ThreadTypes, FixTypes
  <2> QED BY <2>1, <2>2, <2>3, <2>4
<1>29. ASSUME NEW f \in Fibers, GiveBack(f) PROVE TypeInv'
  <2>1. AllocTypes' /\ DataTypes' /\ EvictTypes' /\ EvictorRefs'
    BY <1>29 DEF GiveBack, On, Goto, YieldTo, AllocTypes, DataTypes, EvictTypes, EvictorRefs
  <2>2. ThreadTypes'
    BY <1>29 DEF GiveBack, On, Goto, YieldTo, ThreadTypes
  <2>3. FixTypes'
    BY <1>29 DEF GiveBack, On, Goto, YieldTo, FixTypes
  <2>4. PoolTypes'
    <3>1. bid[f] \in Bids
      BY <1>29 DEF GiveBack, On, ClientRefs
    <3> QED BY <1>29, <3>1 DEF GiveBack, PoolTypes
  <2>5. ClientRefs'
    BY ZenonT(40), <1>29, ZenonT(60) DEF GiveBack, On, Goto, YieldTo, ClientRefs, ThreadTypes, FixTypes
  <2> QED BY <2>1, <2>2, <2>3, <2>4, <2>5
<1>30. ASSUME NEW f \in Fibers, DeviceRead(f) PROVE TypeInv'
  <2>1. FixTypes' /\ PoolTypes' /\ AllocTypes' /\ EvictTypes' /\ EvictorRefs'
    BY <1>30 DEF DeviceRead, On, Goto, YieldTo, FixTypes, PoolTypes, AllocTypes, EvictTypes, EvictorRefs
  <2>2. ThreadTypes'
    BY <1>30 DEF DeviceRead, On, Goto, YieldTo, ThreadTypes
  <2>3. DataTypes'
    <3>1. pid[f] \in Pids
      BY <1>30 DEF DeviceRead, ClientRefs
    <3>2. disk[pid[f]] \in Content
      BY <3>1 DEF DataTypes
    <3> QED BY <1>30, <3>2 DEF DeviceRead, DataTypes
  <2>4. ClientRefs'
    BY <1>30 DEF DeviceRead, On, Goto, YieldTo, ClientRefs, ThreadTypes, FixTypes
  <2> QED BY <2>1, <2>2, <2>3, <2>4
<1>31. ASSUME NEW f \in Fibers, ClearIo(f) PROVE TypeInv'
  <2>1. FixTypes' /\ AllocTypes' /\ DataTypes' /\ EvictTypes' /\ EvictorRefs'
    BY <1>31 DEF ClearIo, On, Goto, YieldTo, FixTypes, AllocTypes, DataTypes, EvictTypes, EvictorRefs
  <2>2. ThreadTypes'
    BY <1>31 DEF ClearIo, On, Goto, YieldTo, ThreadTypes
  <2>3. PoolTypes'
    <3>1. bid[f] \in Bids /\ meta[bid[f]] \in Word
      BY <1>31 DEF ClearIo, On, ClientRefs, PoolTypes
    <3>2. [meta[bid[f]] EXCEPT !.io = FALSE] \in Word
      BY <3>1, WordTypes
    <3>3. meta' = [meta EXCEPT ![bid[f]] = [meta[bid[f]] EXCEPT !.io = FALSE]] /\ UNCHANGED <<page_table, framePid, free>>
      BY <1>31 DEF ClearIo
    <3> QED BY <3>1, <3>2, <3>3, MetaTypes
  <2>4. ClientRefs'
    BY <1>31 DEF ClearIo, On, Goto, YieldTo, ClientRefs, ThreadTypes, FixTypes
  <2> QED BY <2>1, <2>2, <2>3, <2>4
<1>32. ASSUME NEW f \in Fibers, UnlockLoaded(f) PROVE TypeInv'
  <2>1. FixTypes' /\ AllocTypes' /\ DataTypes' /\ EvictTypes' /\ EvictorRefs'
    BY <1>32 DEF UnlockLoaded, On, Goto, YieldTo, FixTypes, AllocTypes, DataTypes, EvictTypes, EvictorRefs
  <2>2. ThreadTypes'
    BY <1>32 DEF UnlockLoaded, On, Goto, YieldTo, ThreadTypes
  <2>3. PoolTypes'
    <3>1. bid[f] \in Bids /\ meta[bid[f]] \in Word
      BY <1>32 DEF UnlockLoaded, On, ClientRefs, PoolTypes
    <3>2. unlock_x_marked(meta[bid[f]]) \in Word
      BY <3>1, WordTypes
    <3>3. meta' = [meta EXCEPT ![bid[f]] = unlock_x_marked(meta[bid[f]])] /\ UNCHANGED <<page_table, framePid, free>>
      BY <1>32 DEF UnlockLoaded
    <3> QED BY <3>1, <3>2, <3>3, MetaTypes
  <2>4. ClientRefs'
    BY <1>32 DEF UnlockLoaded, On, Goto, YieldTo, ClientRefs, ThreadTypes, FixTypes
  <2> QED BY <2>1, <2>2, <2>3, <2>4
<1>33. ASSUME NEW w \in Workers, StartSweep(w) PROVE TypeInv'
  <2>1. FixTypes' /\ PoolTypes' /\ AllocTypes' /\ DataTypes' /\ ClientRefs'
    BY <1>33 DEF StartSweep, EvictorOn, EvictorGoto, EvictorYieldTo, FixTypes, PoolTypes, AllocTypes, DataTypes, ClientRefs
  <2>2. ThreadTypes'
    BY <1>33 DEF StartSweep, EvictorOn, EvictorGoto, EvictorYieldTo, ThreadTypes
  <2>3. EvictTypes'
    <3>1. PICK n \in 1 .. Batch : budget' = [budget EXCEPT ![w] = n]
      BY <1>33 DEF StartSweep
    <3>2. budget' \in [Workers -> 0 .. Batch]
      BY SMT, <3>1, BoundAssumption DEF EvictTypes
    <3>3. unvisited' \in [Workers -> SUBSET Pids]
      BY <1>33 DEF StartSweep, EvictTypes
    <3> QED BY <1>33, <3>2, <3>3 DEF StartSweep, EvictTypes
  <2>4. EvictorRefs'
    BY <1>33 DEF StartSweep, EvictorOn, EvictorGoto, EvictorYieldTo, EvictorRefs, ThreadTypes, EvictTypes
  <2> QED BY <2>1, <2>2, <2>3, <2>4
<1>34. ASSUME NEW w \in Workers, Visit(w) PROVE TypeInv'
  <2>a. PICK p \in unvisited[w] :
          /\ unvisited' = [unvisited EXCEPT ![w] = @ \ {p}]
          /\ \/ /\ page_table[p] # NoBid
                /\ victim' = [victim EXCEPT ![w] = page_table[p]]
                /\ epc' = [epc EXCEPT ![w] = IF meta[page_table[p]].mode = Marked THEN "unmark" ELSE "claim"]
             \/ UNCHANGED <<victim, epc>> /\ epc[w] = "sweep"
    BY <1>34 DEF Visit, EvictorOn, EvictorGoto
  <2>b. p \in Pids /\ page_table[p] \in Bids \cup {NoBid}
    BY DEF EvictTypes, PoolTypes
  <2>1. FixTypes' /\ PoolTypes' /\ AllocTypes' /\ DataTypes' /\ ClientRefs'
    BY <1>34 DEF Visit, EvictorOn, EvictorGoto, EvictorYieldTo, FixTypes, PoolTypes, AllocTypes, DataTypes, ClientRefs
  <2>2. ThreadTypes'
    BY <1>34 DEF Visit, EvictorOn, EvictorGoto, EvictorYieldTo, ThreadTypes
  <2>3. EvictTypes'
    <3>1. unvisited' \in [Workers -> SUBSET Pids]
      BY <2>a DEF EvictTypes
    <3>2. victim' \in [Workers -> Bids \cup {NoBid}]
      BY <2>a, <2>b DEF EvictTypes
    <3> QED BY <1>34, <3>1, <3>2 DEF Visit, EvictTypes
  <2>4. EvictorRefs'
    BY <2>a, <2>b DEF EvictorRefs, ThreadTypes, EvictTypes
  <2> QED BY <2>1, <2>2, <2>3, <2>4
<1>35. ASSUME NEW w \in Workers, Unmark(w) PROVE TypeInv'
  <2>1. FixTypes' /\ AllocTypes' /\ DataTypes' /\ EvictTypes' /\ ClientRefs'
    BY <1>35 DEF Unmark, EvictorOn, EvictorGoto, EvictorYieldTo, FixTypes, AllocTypes, DataTypes, EvictTypes, ClientRefs
  <2>2. ThreadTypes'
    BY <1>35 DEF Unmark, EvictorOn, EvictorGoto, EvictorYieldTo, ThreadTypes
  <2>3. PoolTypes'
    <3>1. victim[w] \in Bids /\ meta[victim[w]] \in Word
      BY <1>35 DEF Unmark, EvictorOn, EvictorRefs, PoolTypes
    <3>2. clear_mark(meta[victim[w]]) \in Word
      BY <3>1, WordTypes
    <3>3. meta' = [meta EXCEPT ![victim[w]] = clear_mark(meta[victim[w]])] /\ UNCHANGED <<page_table, framePid, free>>
      BY <1>35 DEF Unmark
    <3> QED BY <3>1, <3>2, <3>3, MetaTypes
  <2>4. EvictorRefs'
    BY <1>35 DEF Unmark, EvictorOn, EvictorGoto, EvictorYieldTo, EvictorRefs, ThreadTypes, EvictTypes
  <2> QED BY <2>1, <2>2, <2>3, <2>4
<1>36. ASSUME NEW w \in Workers, Claim(w) PROVE TypeInv'
  <2>1. FixTypes' /\ AllocTypes' /\ DataTypes' /\ EvictTypes' /\ ClientRefs'
    BY <1>36 DEF Claim, EvictorOn, EvictorGoto, EvictorYieldTo, FixTypes, AllocTypes, DataTypes, EvictTypes, ClientRefs
  <2>2. ThreadTypes'
    BY <1>36 DEF Claim, EvictorOn, EvictorGoto, EvictorYieldTo, ThreadTypes
  <2>3. PoolTypes'
    <3>1. victim[w] \in Bids /\ meta[victim[w]] \in Word
      BY <1>36 DEF Claim, EvictorOn, EvictorRefs, PoolTypes
    <3>2. [meta[victim[w]] EXCEPT !.evicting = TRUE] \in Word
      BY <3>1, WordTypes
    <3>3. meta' = [meta EXCEPT ![victim[w]] = [meta[victim[w]] EXCEPT !.evicting = TRUE]] /\ UNCHANGED <<page_table, framePid, free>>
      BY <1>36 DEF Claim
    <3> QED BY <3>1, <3>2, <3>3, MetaTypes
  <2>4. EvictorRefs'
    BY <1>36 DEF Claim, EvictorOn, EvictorGoto, EvictorYieldTo, EvictorRefs, ThreadTypes, EvictTypes
  <2> QED BY <2>1, <2>2, <2>3, <2>4
<1>37. ASSUME NEW w \in Workers, Collect(w) PROVE TypeInv'
  <2>1. FixTypes' /\ AllocTypes' /\ DataTypes' /\ ClientRefs'
    BY <1>37 DEF Collect, EvictorOn, EvictorGoto, EvictorYieldTo, FixTypes, AllocTypes, DataTypes, ClientRefs
  <2>2. ThreadTypes'
    BY <1>37 DEF Collect, EvictorOn, EvictorGoto, EvictorYieldTo, ThreadTypes
  <2>3. PoolTypes'
    <3>1. victim[w] \in Bids /\ meta[victim[w]] \in Word
      BY <1>37 DEF Collect, EvictorOn, EvictorRefs, PoolTypes
    <3>2. [meta[victim[w]] EXCEPT !.dirty = FALSE] \in Word
      BY <3>1, WordTypes
    <3>3. meta' = [meta EXCEPT ![victim[w]] = [meta[victim[w]] EXCEPT !.dirty = FALSE]] /\ UNCHANGED <<page_table, framePid, free>>
      BY <1>37 DEF Collect
    <3> QED BY <3>1, <3>2, <3>3, MetaTypes
  <2>4. EvictTypes'
    <3>1. victim[w] \in Bids
      BY <1>37 DEF Collect, EvictorOn, EvictorRefs
    <3>2. CASE toWrite' = [toWrite EXCEPT ![w] = @ \cup {victim[w]}] /\ UNCHANGED toEvict
      BY <1>37, <3>1, <3>2 DEF Collect, EvictTypes
    <3>3. CASE toEvict' = [toEvict EXCEPT ![w] = @ \cup {victim[w]}] /\ UNCHANGED toWrite
      BY <1>37, <3>1, <3>3 DEF Collect, EvictTypes
    <3> QED BY <1>37, <3>2, <3>3 DEF Collect
  <2>5. EvictorRefs'
    BY <1>37 DEF Collect, EvictorOn, EvictorGoto, EvictorYieldTo, EvictorRefs, ThreadTypes, EvictTypes
  <2> QED BY <2>1, <2>2, <2>3, <2>4, <2>5
<1>38. ASSUME NEW w \in Workers, EndSweep(w) PROVE TypeInv'
  <2>1. FixTypes' /\ PoolTypes' /\ AllocTypes' /\ DataTypes' /\ ClientRefs'
    BY <1>38 DEF EndSweep, EvictorOn, EvictorGoto, EvictorYieldTo, FixTypes, PoolTypes, AllocTypes, DataTypes, ClientRefs
  <2>2. ThreadTypes'
    BY <1>38 DEF EndSweep, EvictorOn, EvictorGoto, EvictorYieldTo, ThreadTypes
  <2>3. EvictTypes'
    BY <1>38 DEF EndSweep, EvictorOn, EvictorGoto, EvictorYieldTo, EvictTypes
  <2>4. EvictorRefs'
    BY ZenonT(40), <1>38, ZenonT(60) DEF EndSweep, EvictorOn, EvictorGoto, EvictorYieldTo, EvictorRefs, ThreadTypes, EvictTypes
  <2> QED BY <2>1, <2>2, <2>3, <2>4
<1>39. ASSUME NEW w \in Workers, DeviceWrite(w) PROVE TypeInv'
  <2>1. FixTypes' /\ PoolTypes' /\ AllocTypes' /\ ClientRefs'
    BY <1>39 DEF DeviceWrite, EvictorOn, EvictorGoto, EvictorYieldTo, FixTypes, PoolTypes, AllocTypes, ClientRefs
  <2>2. ThreadTypes'
    BY <1>39 DEF DeviceWrite, EvictorOn, EvictorGoto, EvictorYieldTo, ThreadTypes
  <2>3. DataTypes'
    <3>1. PICK b \in unwritten[w] : disk' = [disk EXCEPT ![framePid[b]] = data[b]]
      BY <1>39 DEF DeviceWrite
    <3>2. data[b] \in Content
      BY DEF EvictTypes, DataTypes
    <3> QED BY <1>39, <3>1, <3>2 DEF DeviceWrite, DataTypes
  <2>4. EvictTypes'
    <3>1. PICK b \in unwritten[w] : unwritten' = [unwritten EXCEPT ![w] = @ \ {b}]
      BY <1>39 DEF DeviceWrite
    <3>2. unwritten' \in [Workers -> SUBSET Bids]
      BY <3>1 DEF EvictTypes
    <3> QED BY <1>39, <3>2 DEF DeviceWrite, EvictTypes
  <2>5. EvictorRefs'
    BY <1>39 DEF DeviceWrite, EvictorOn, EvictorGoto, EvictorYieldTo, EvictorRefs, ThreadTypes, EvictTypes
  <2> QED BY <2>1, <2>2, <2>3, <2>4, <2>5
<1>40. ASSUME NEW w \in Workers, Precheck(w) PROVE TypeInv'
  <2>1. FixTypes' /\ PoolTypes' /\ AllocTypes' /\ DataTypes' /\ ClientRefs'
    BY <1>40 DEF Precheck, EvictorOn, EvictorGoto, EvictorYieldTo, Claimed, FixTypes, PoolTypes, AllocTypes, DataTypes, ClientRefs
  <2>2. ThreadTypes'
    BY <1>40 DEF Precheck, EvictorOn, EvictorGoto, EvictorYieldTo, Claimed, ThreadTypes
  <2>3. EvictTypes'
    BY SMT, <1>40 DEF Precheck, EvictorOn, EvictorGoto, EvictorYieldTo, Claimed, EvictTypes
  <2>4. EvictorRefs'
    BY SMT, <1>40 DEF Precheck, EvictorOn, EvictorGoto, EvictorYieldTo, Claimed, EvictorRefs, ThreadTypes, EvictTypes
  <2> QED BY <2>1, <2>2, <2>3, <2>4
<1>41. ASSUME NEW w \in Workers, Erase(w) PROVE TypeInv'
  <2>1. FixTypes' /\ AllocTypes' /\ DataTypes' /\ EvictTypes' /\ ClientRefs'
    BY <1>41 DEF Erase, EvictorOn, EvictorGoto, EvictorYieldTo, FixTypes, AllocTypes, DataTypes, EvictTypes, ClientRefs
  <2>2. ThreadTypes'
    BY <1>41 DEF Erase, EvictorOn, EvictorGoto, EvictorYieldTo, ThreadTypes
  <2>3. PoolTypes'
    BY <1>41 DEF Erase, EvictorOn, EvictorGoto, EvictorYieldTo, PoolTypes
  <2>4. EvictorRefs'
    BY <1>41 DEF Erase, EvictorOn, EvictorGoto, EvictorYieldTo, EvictorRefs, ThreadTypes, EvictTypes
  <2> QED BY <2>1, <2>2, <2>3, <2>4
<1>42. ASSUME NEW w \in Workers, Commit(w) PROVE TypeInv'
  <2>1. FixTypes' /\ AllocTypes' /\ DataTypes' /\ ClientRefs'
    BY <1>42 DEF Commit, EvictorOn, EvictorGoto, EvictorYieldTo, FixTypes, AllocTypes, DataTypes, ClientRefs
  <2>2. ThreadTypes'
    BY <1>42 DEF Commit, EvictorOn, EvictorGoto, EvictorYieldTo, ThreadTypes
  <2>3. PoolTypes'
    <3>1. victim[w] \in Bids /\ meta[victim[w]] \in Word
      BY <1>42 DEF Commit, EvictorOn, EvictorRefs, PoolTypes
    <3>2. [meta[victim[w]] EXCEPT !.evicting = FALSE] \in Word
      BY <3>1, WordTypes
    <3>3. meta' = [meta EXCEPT ![victim[w]] = [meta[victim[w]] EXCEPT !.evicting = FALSE]] /\ UNCHANGED <<page_table, framePid, free>>
      BY <1>42 DEF Commit
    <3> QED BY <3>1, <3>2, <3>3, MetaTypes
  <2>4. EvictTypes'
    <3>1. victim[w] \in Bids
      BY <1>42 DEF Commit, EvictorOn, EvictorRefs
    <3>2. freed' \in [Workers -> SUBSET Bids]
      BY <1>42, <3>1 DEF Commit, EvictTypes
    <3>3. toEvict' \in [Workers -> SUBSET Bids]
      BY <1>42 DEF Commit, EvictTypes
    <3>4. toWrite' \in [Workers -> SUBSET Bids]
      BY <1>42 DEF Commit, EvictTypes
    <3> QED BY <1>42, <3>2, <3>3, <3>4 DEF Commit, EvictTypes
  <2>5. EvictorRefs'
    BY <1>42 DEF Commit, EvictorOn, EvictorGoto, EvictorYieldTo, EvictorRefs, ThreadTypes, EvictTypes
  <2> QED BY <2>1, <2>2, <2>3, <2>4, <2>5
<1>43. ASSUME NEW w \in Workers, ReleaseFreed(w) PROVE TypeInv'
  <2>1. FixTypes' /\ AllocTypes' /\ DataTypes' /\ ClientRefs'
    BY <1>43 DEF ReleaseFreed, EvictorOn, EvictorGoto, EvictorYieldTo, FixTypes, AllocTypes, DataTypes, ClientRefs
  <2>2. ThreadTypes'
    BY <1>43 DEF ReleaseFreed, EvictorOn, EvictorGoto, EvictorYieldTo, ThreadTypes
  <2>3. PoolTypes'
    <3>1. freed[w] \subseteq Bids
      BY DEF EvictTypes
    <3> QED BY <1>43, <3>1 DEF ReleaseFreed, PoolTypes
  <2>4. EvictTypes'
    BY <1>43 DEF ReleaseFreed, EvictorOn, EvictorGoto, EvictorYieldTo, EvictTypes
  <2>5. EvictorRefs'
    BY ZenonT(40), <1>43, ZenonT(60) DEF ReleaseFreed, EvictorOn, EvictorGoto, EvictorYieldTo, EvictorRefs, ThreadTypes, EvictTypes
  <2> QED BY <2>1, <2>2, <2>3, <2>4, <2>5
<1>44. CASE UNCHANGED vars
  BY <1>44 DEF vars, ThreadTypes, FixTypes, PoolTypes, AllocTypes, DataTypes, EvictTypes, ClientRefs, EvictorRefs
<1> QED
  BY <1>1, <1>2, <1>3, <1>4, <1>5, <1>6, <1>7, <1>8, <1>9, <1>10, <1>11, <1>12, <1>13, <1>14, <1>15, <1>16, <1>17, <1>18, <1>19, <1>20, <1>21, <1>22, <1>23, <1>24, <1>25, <1>26, <1>27, <1>28, <1>29, <1>30, <1>31, <1>32, <1>33, <1>34, <1>35, <1>36, <1>37, <1>38, <1>39, <1>40, <1>41, <1>42, <1>43, <1>44
  DEF Next, Client, Evict

(* Every reachable state of the buffer manager is well typed: the page      *)
(* table, the free lists and the lists of the evictors hold frames only,    *)
(* and whatever fixes, faults, unlocks and evictions do to a frame's word   *)
(* leaves a word (mode of 8 bits, version below its limit).                 *)
THEOREM TypeCorrect == Spec => []TypeOK
<1>1. TypeInv => TypeOK
  BY DEF TypeInv
<1> QED
  BY TypeInit, TypeStep, <1>1, PTL DEF Spec


-----------------------------------------------------------------------------
(* A sweep visits only the pages of its worker. *)
SweepsOwnPages == \A w \in Workers : \A p \in unvisited[w] : OwnerOf[p] = w

(* The inductive invariant: conservation of frames alone is not inductive,  *)
(* because the erase must hit the entry of the frame that is then retired.  *)
FrameInv == TypeInv /\ SweepsOwnPages /\ ClaimedStaysMapped /\ FrameConservation

LEMMA FrameInit == Init => FrameInv
<1> SUFFICES ASSUME Init PROVE FrameInv
  OBVIOUS
<1>1. TypeInv
  BY TypeInit
<1>2. SweepsOwnPages /\ ClaimedStaysMapped
  BY DEF Init, SweepsOwnPages, ClaimedStaysMapped, Claimed
<1>3. FrameConservation
  BY BidAssumption DEF Init, FrameConservation, TableIsInjective, FreeIsUnused, LoadingIsPrivate,
     RetiredIsPrivate, NoFrameLost, Loading, LoadStates, Retired
<1> QED
  BY <1>1, <1>2, <1>3 DEF FrameInv

(* Nothing is asked of a step that moves no frame. *)
LEMMA QuietFrames ==
    ASSUME FrameConservation, UNCHANGED <<page_table, free>>,
           \A g \in Fibers : Loading(g)' <=> Loading(g),
           \A g \in Fibers : Loading(g) => bid'[g] = bid[g],
           \A v \in Workers : Retired(v)' = Retired(v)
    PROVE  FrameConservation'
<1>1. TableIsInjective'
  BY DEF FrameConservation, TableIsInjective
<1>2. FreeIsUnused'
  BY DEF FrameConservation, FreeIsUnused
<1>3. LoadingIsPrivate'
  BY DEF FrameConservation, LoadingIsPrivate
<1>4. RetiredIsPrivate'
  BY DEF FrameConservation, RetiredIsPrivate
<1>5. NoFrameLost'
  BY DEF FrameConservation, NoFrameLost
<1> QED
  BY <1>1, <1>2, <1>3, <1>4, <1>5 DEF FrameConservation

(* A step of a client that neither takes nor gives up a frame. *)
LEMMA QuietClient ==
    ASSUME TypeInv, FrameConservation, NEW f \in Fibers, NEW l \in ClientStates,
           pc' = [pc EXCEPT ![f] = l], l \in LoadStates <=> Loading(f),
           \A g \in Fibers : g # f \/ Loading(f) => bid'[g] = bid[g],
           UNCHANGED <<page_table, free, epc, victim, freed>>
    PROVE  FrameConservation'
<1>1. \A g \in Fibers : Loading(g)' <=> Loading(g)
  BY DEF TypeInv, TypeOK, ThreadTypes, Loading
<1>2. \A g \in Fibers : Loading(g) => bid'[g] = bid[g]
  OBVIOUS
<1>3. \A v \in Workers : Retired(v)' = Retired(v)
  BY DEF Retired
<1> QED
  BY <1>1, <1>2, <1>3, QuietFrames

(* A step of an evictor that neither erases nor releases a frame. *)
LEMMA QuietEvictor ==
    ASSUME FrameConservation, NEW w \in Workers, epc[w] # "commit", epc'[w] # "commit",
           \A v \in Workers \ {w} : epc'[v] = epc[v] /\ victim'[v] = victim[v],
           UNCHANGED <<page_table, free, freed, pc, bid>>
    PROVE  FrameConservation'
<1>1. \A g \in Fibers : (Loading(g)' <=> Loading(g)) /\ bid'[g] = bid[g]
  BY DEF Loading
<1>2. \A v \in Workers : Retired(v)' = Retired(v)
  BY DEF Retired
<1> QED
  BY <1>1, <1>2, QuietFrames

LEMMA QuietClaims ==
    ASSUME ClaimedStaysMapped, SweepsOwnPages,
           UNCHANGED <<page_table, framePid, toEvict, toWrite, epc, victim, unvisited>>
    PROVE  ClaimedStaysMapped' /\ SweepsOwnPages'
BY ZenonT(40) DEF ClaimedStaysMapped, SweepsOwnPages, Mine, Claimed

(* A client takes a frame out of the free lists. *)
LEMMA TakeFrames ==
    ASSUME FrameInv, NEW f \in Fibers, ~Loading(f), NEW b \in Bids, Take(f, b),
           UNCHANGED <<page_table, epc, victim, freed>>
    PROVE  FrameConservation'
<1>1. b \in free /\ free' = free \ {b}
  BY DEF Take, Available
<1>2. \A g \in Fibers : Loading(g)' <=> (g = f \/ Loading(g))
  BY DEF Take, Goto, Loading, LoadStates, FrameInv, TypeInv, TypeOK, ThreadTypes
<1>3. \A g \in Fibers : bid'[g] = IF g = f THEN b ELSE bid[g]
  BY DEF Take, FrameInv, TypeInv, TypeOK, FixTypes
<1>4. \A v \in Workers : Retired(v)' = Retired(v)
  BY DEF Retired
<1>5. TableIsInjective' /\ RetiredIsPrivate'
  BY <1>4 DEF FrameInv, FrameConservation, TableIsInjective, RetiredIsPrivate
<1>6. FreeIsUnused'
  BY <1>1, <1>2, <1>3, <1>4 DEF FrameInv, FrameConservation, FreeIsUnused
<1>7. LoadingIsPrivate'
  BY ZenonT(40), <1>1, <1>2, <1>3, <1>4, ZenonT(60) DEF FrameInv, FrameConservation, FreeIsUnused, LoadingIsPrivate
<1>8. NoFrameLost'
  BY <1>1, <1>2, <1>3, <1>4 DEF FrameInv, FrameConservation, NoFrameLost
<1> QED
  BY <1>5, <1>6, <1>7, <1>8 DEF FrameConservation

LEMMA FrameStep == FrameInv /\ [Next]_vars => FrameInv'
<1> SUFFICES ASSUME FrameInv, [Next]_vars PROVE (SweepsOwnPages /\ ClaimedStaysMapped /\ FrameConservation)'
  BY TypeStep DEF FrameInv
<1> USE WorkerAssumption DEF fixVars, clientVars, poolVars, allocVars, dataVars, evictVars

<1>1. ASSUME NEW f \in Fibers, FixS(f)
     PROVE  (SweepsOwnPages /\ ClaimedStaysMapped /\ FrameConservation)'
  <2>1. PICK l \in ClientStates \ LoadStates : pc' = [pc EXCEPT ![f] = l]
    BY <1>1 DEF FixS, Begin, On, Goto, YieldTo, ClientStates, LoadStates
  <2>2. ~Loading(f)
    BY <1>1 DEF FixS, Begin, On, Loading, LoadStates
  <2>3. /\ \A g \in Fibers : g # f \/ Loading(f) => bid'[g] = bid[g]
        /\ UNCHANGED <<page_table, free, epc, victim, freed>>
    BY <1>1, <2>2 DEF FixS, Begin, On, Goto, YieldTo, FrameInv, TypeInv, TypeOK, FixTypes
  <2>4. FrameConservation'
    BY <2>1, <2>2, <2>3, QuietClient DEF FrameInv, ClientStates, LoadStates
  <2>5. UNCHANGED <<page_table, framePid, toEvict, toWrite, epc, victim, unvisited>>
    BY <1>1 DEF FixS, Begin
  <2> QED BY <2>4, <2>5, QuietClaims DEF FrameInv
<1>2. ASSUME NEW f \in Fibers, FixO(f)
     PROVE  (SweepsOwnPages /\ ClaimedStaysMapped /\ FrameConservation)'
  <2>1. PICK l \in ClientStates \ LoadStates : pc' = [pc EXCEPT ![f] = l]
    BY <1>2 DEF FixO, Begin, On, Goto, YieldTo, ClientStates, LoadStates
  <2>2. ~Loading(f)
    BY <1>2 DEF FixO, Begin, On, Loading, LoadStates
  <2>3. /\ \A g \in Fibers : g # f \/ Loading(f) => bid'[g] = bid[g]
        /\ UNCHANGED <<page_table, free, epc, victim, freed>>
    BY <1>2, <2>2 DEF FixO, Begin, On, Goto, YieldTo, FrameInv, TypeInv, TypeOK, FixTypes
  <2>4. FrameConservation'
    BY <2>1, <2>2, <2>3, QuietClient DEF FrameInv, ClientStates, LoadStates
  <2>5. UNCHANGED <<page_table, framePid, toEvict, toWrite, epc, victim, unvisited>>
    BY <1>2 DEF FixO, Begin
  <2> QED BY <2>4, <2>5, QuietClaims DEF FrameInv
<1>3. ASSUME NEW f \in Fibers, FixX(f)
     PROVE  (SweepsOwnPages /\ ClaimedStaysMapped /\ FrameConservation)'
  <2>1. PICK l \in ClientStates \ LoadStates : pc' = [pc EXCEPT ![f] = l]
    BY <1>3 DEF FixX, Begin, On, Goto, YieldTo, ClientStates, LoadStates
  <2>2. ~Loading(f)
    BY <1>3 DEF FixX, Begin, On, Loading, LoadStates
  <2>3. /\ \A g \in Fibers : g # f \/ Loading(f) => bid'[g] = bid[g]
        /\ UNCHANGED <<page_table, free, epc, victim, freed>>
    BY <1>3, <2>2 DEF FixX, Begin, On, Goto, YieldTo, FrameInv, TypeInv, TypeOK, FixTypes
  <2>4. FrameConservation'
    BY <2>1, <2>2, <2>3, QuietClient DEF FrameInv, ClientStates, LoadStates
  <2>5. UNCHANGED <<page_table, framePid, toEvict, toWrite, epc, victim, unvisited>>
    BY <1>3 DEF FixX, Begin
  <2> QED BY <2>4, <2>5, QuietClaims DEF FrameInv
<1>4. ASSUME NEW f \in Fibers, AllocPage(f)
     PROVE  (SweepsOwnPages /\ ClaimedStaysMapped /\ FrameConservation)'
  <2>1. PICK l \in ClientStates \ LoadStates : pc' = [pc EXCEPT ![f] = l]
    BY <1>4 DEF AllocPage, Begin, On, Goto, YieldTo, ClientStates, LoadStates
  <2>2. ~Loading(f)
    BY <1>4 DEF AllocPage, Begin, On, Loading, LoadStates
  <2>3. /\ \A g \in Fibers : g # f \/ Loading(f) => bid'[g] = bid[g]
        /\ UNCHANGED <<page_table, free, epc, victim, freed>>
    BY <1>4, <2>2 DEF AllocPage, Begin, On, Goto, YieldTo, FrameInv, TypeInv, TypeOK, FixTypes
  <2>4. FrameConservation'
    BY <2>1, <2>2, <2>3, QuietClient DEF FrameInv, ClientStates, LoadStates
  <2>5. UNCHANGED <<page_table, framePid, toEvict, toWrite, epc, victim, unvisited>>
    BY <1>4 DEF AllocPage, Begin
  <2> QED BY <2>4, <2>5, QuietClaims DEF FrameInv
<1>5. ASSUME NEW f \in Fibers, Rest(f)
     PROVE  (SweepsOwnPages /\ ClaimedStaysMapped /\ FrameConservation)'
  <2>1. PICK l \in ClientStates \ LoadStates : pc' = [pc EXCEPT ![f] = l]
    BY <1>5 DEF Rest, On, Goto, YieldTo, ClientStates, LoadStates
  <2>2. ~Loading(f)
    BY <1>5 DEF Rest, On, Loading, LoadStates
  <2>3. /\ \A g \in Fibers : g # f \/ Loading(f) => bid'[g] = bid[g]
        /\ UNCHANGED <<page_table, free, epc, victim, freed>>
    BY <1>5, <2>2 DEF Rest, On, Goto, YieldTo, FrameInv, TypeInv, TypeOK, FixTypes
  <2>4. FrameConservation'
    BY <2>1, <2>2, <2>3, QuietClient DEF FrameInv, ClientStates, LoadStates
  <2>5. UNCHANGED <<page_table, framePid, toEvict, toWrite, epc, victim, unvisited>>
    BY <1>5 DEF Rest
  <2> QED BY <2>4, <2>5, QuietClaims DEF FrameInv
<1>6. ASSUME NEW f \in Fibers, Lookup(f)
     PROVE  (SweepsOwnPages /\ ClaimedStaysMapped /\ FrameConservation)'
  <2>1. PICK l \in ClientStates \ LoadStates : pc' = [pc EXCEPT ![f] = l]
    BY <1>6 DEF Lookup, On, Goto, YieldTo, ClientStates, LoadStates
  <2>2. ~Loading(f)
    BY <1>6 DEF Lookup, On, Loading, LoadStates
  <2>3. /\ \A g \in Fibers : g # f \/ Loading(f) => bid'[g] = bid[g]
        /\ UNCHANGED <<page_table, free, epc, victim, freed>>
    BY <1>6, <2>2 DEF Lookup, On, Goto, YieldTo, FrameInv, TypeInv, TypeOK, FixTypes
  <2>4. FrameConservation'
    BY <2>1, <2>2, <2>3, QuietClient DEF FrameInv, ClientStates, LoadStates
  <2>5. UNCHANGED <<page_table, framePid, toEvict, toWrite, epc, victim, unvisited>>
    BY <1>6 DEF Lookup
  <2> QED BY <2>4, <2>5, QuietClaims DEF FrameInv
<1>7. ASSUME NEW f \in Fibers, Load(f)
     PROVE  (SweepsOwnPages /\ ClaimedStaysMapped /\ FrameConservation)'
  <2>1. PICK l \in ClientStates \ LoadStates : pc' = [pc EXCEPT ![f] = l]
    BY <1>7 DEF Load, On, Goto, YieldTo, Done, PidChanged, ClientStates, LoadStates
  <2>2. ~Loading(f)
    BY <1>7 DEF Load, On, Loading, LoadStates
  <2>3. /\ \A g \in Fibers : g # f \/ Loading(f) => bid'[g] = bid[g]
        /\ UNCHANGED <<page_table, free, epc, victim, freed>>
    BY <1>7, <2>2 DEF Load, On, Goto, YieldTo, Done, PidChanged, FrameInv, TypeInv, TypeOK, FixTypes
  <2>4. FrameConservation'
    BY <2>1, <2>2, <2>3, QuietClient DEF FrameInv, ClientStates, LoadStates
  <2>5. UNCHANGED <<page_table, framePid, toEvict, toWrite, epc, victim, unvisited>>
    BY <1>7 DEF Load
  <2> QED BY <2>4, <2>5, QuietClaims DEF FrameInv
<1>8. ASSUME NEW f \in Fibers, Flags(f)
     PROVE  (SweepsOwnPages /\ ClaimedStaysMapped /\ FrameConservation)'
  <2>1. PICK l \in ClientStates \ LoadStates : pc' = [pc EXCEPT ![f] = l]
    BY <1>8 DEF Flags, On, Goto, YieldTo, Done, Conflict, ClientStates, LoadStates
  <2>2. ~Loading(f)
    BY <1>8 DEF Flags, On, Loading, LoadStates
  <2>3. /\ \A g \in Fibers : g # f \/ Loading(f) => bid'[g] = bid[g]
        /\ UNCHANGED <<page_table, free, epc, victim, freed>>
    BY <1>8, <2>2 DEF Flags, On, Goto, YieldTo, Done, Conflict, FrameInv, TypeInv, TypeOK, FixTypes
  <2>4. FrameConservation'
    BY <2>1, <2>2, <2>3, QuietClient DEF FrameInv, ClientStates, LoadStates
  <2>5. UNCHANGED <<page_table, framePid, toEvict, toWrite, epc, victim, unvisited>>
    BY <1>8 DEF Flags
  <2> QED BY <2>4, <2>5, QuietClaims DEF FrameInv
<1>9. ASSUME NEW f \in Fibers, Cas(f)
     PROVE  (SweepsOwnPages /\ ClaimedStaysMapped /\ FrameConservation)'
  <2>1. PICK l \in ClientStates \ LoadStates : pc' = [pc EXCEPT ![f] = l]
    BY <1>9 DEF Cas, On, Goto, YieldTo, Done, Conflict, ClientStates, LoadStates
  <2>2. ~Loading(f)
    BY <1>9 DEF Cas, On, Loading, LoadStates
  <2>3. /\ \A g \in Fibers : g # f \/ Loading(f) => bid'[g] = bid[g]
        /\ UNCHANGED <<page_table, free, epc, victim, freed>>
    BY <1>9, <2>2 DEF Cas, On, Goto, YieldTo, Done, Conflict, FrameInv, TypeInv, TypeOK, FixTypes
  <2>4. FrameConservation'
    BY <2>1, <2>2, <2>3, QuietClient DEF FrameInv, ClientStates, LoadStates
  <2>5. UNCHANGED <<page_table, framePid, toEvict, toWrite, epc, victim, unvisited>>
    BY <1>9 DEF Cas
  <2> QED BY <2>4, <2>5, QuietClaims DEF FrameInv
<1>10. ASSUME NEW f \in Fibers, PrepareOptimistic(f)
     PROVE  (SweepsOwnPages /\ ClaimedStaysMapped /\ FrameConservation)'
  <2>1. PICK l \in ClientStates \ LoadStates : pc' = [pc EXCEPT ![f] = l]
    BY <1>10 DEF PrepareOptimistic, On, Goto, YieldTo, Done, Conflict, ClientStates, LoadStates
  <2>2. ~Loading(f)
    BY <1>10 DEF PrepareOptimistic, On, Loading, LoadStates
  <2>3. /\ \A g \in Fibers : g # f \/ Loading(f) => bid'[g] = bid[g]
        /\ UNCHANGED <<page_table, free, epc, victim, freed>>
    BY <1>10, <2>2 DEF PrepareOptimistic, On, Goto, YieldTo, Done, Conflict, FrameInv, TypeInv, TypeOK, FixTypes
  <2>4. FrameConservation'
    BY <2>1, <2>2, <2>3, QuietClient DEF FrameInv, ClientStates, LoadStates
  <2>5. UNCHANGED <<page_table, framePid, toEvict, toWrite, epc, victim, unvisited>>
    BY <1>10 DEF PrepareOptimistic
  <2> QED BY <2>4, <2>5, QuietClaims DEF FrameInv
<1>11. ASSUME NEW f \in Fibers, Recheck(f)
     PROVE  (SweepsOwnPages /\ ClaimedStaysMapped /\ FrameConservation)'
  <2>1. PICK l \in ClientStates \ LoadStates : pc' = [pc EXCEPT ![f] = l]
    BY <1>11 DEF Recheck, On, Goto, YieldTo, Done, PidChanged, ClientStates, LoadStates
  <2>2. ~Loading(f)
    BY <1>11 DEF Recheck, On, Loading, LoadStates
  <2>3. /\ \A g \in Fibers : g # f \/ Loading(f) => bid'[g] = bid[g]
        /\ UNCHANGED <<page_table, free, epc, victim, freed>>
    BY <1>11, <2>2 DEF Recheck, On, Goto, YieldTo, Done, PidChanged, FrameInv, TypeInv, TypeOK, FixTypes
  <2>4. FrameConservation'
    BY <2>1, <2>2, <2>3, QuietClient DEF FrameInv, ClientStates, LoadStates
  <2>5. UNCHANGED <<page_table, framePid, toEvict, toWrite, epc, victim, unvisited>>
    BY <1>11 DEF Recheck
  <2> QED BY <2>4, <2>5, QuietClaims DEF FrameInv
<1>12. ASSUME NEW f \in Fibers, HoldYield(f)
     PROVE  (SweepsOwnPages /\ ClaimedStaysMapped /\ FrameConservation)'
  <2>1. PICK l \in ClientStates \ LoadStates : pc' = [pc EXCEPT ![f] = l]
    BY <1>12 DEF HoldYield, On, Goto, YieldTo, ClientStates, LoadStates
  <2>2. ~Loading(f)
    BY <1>12 DEF HoldYield, On, Loading, LoadStates
  <2>3. /\ \A g \in Fibers : g # f \/ Loading(f) => bid'[g] = bid[g]
        /\ UNCHANGED <<page_table, free, epc, victim, freed>>
    BY <1>12, <2>2 DEF HoldYield, On, Goto, YieldTo, FrameInv, TypeInv, TypeOK, FixTypes
  <2>4. FrameConservation'
    BY <2>1, <2>2, <2>3, QuietClient DEF FrameInv, ClientStates, LoadStates
  <2>5. UNCHANGED <<page_table, framePid, toEvict, toWrite, epc, victim, unvisited>>
    BY <1>12 DEF HoldYield
  <2> QED BY <2>4, <2>5, QuietClaims DEF FrameInv
<1>13. ASSUME NEW f \in Fibers, WritePage(f)
     PROVE  (SweepsOwnPages /\ ClaimedStaysMapped /\ FrameConservation)'
  <2>1. PICK l \in ClientStates \ LoadStates : pc' = [pc EXCEPT ![f] = l]
    BY <1>13 DEF WritePage, On, Goto, YieldTo, ClientStates, LoadStates
  <2>2. ~Loading(f)
    BY <1>13 DEF WritePage, On, Loading, LoadStates
  <2>3. /\ \A g \in Fibers : g # f \/ Loading(f) => bid'[g] = bid[g]
        /\ UNCHANGED <<page_table, free, epc, victim, freed>>
    BY <1>13, <2>2 DEF WritePage, On, Goto, YieldTo, FrameInv, TypeInv, TypeOK, FixTypes
  <2>4. FrameConservation'
    BY <2>1, <2>2, <2>3, QuietClient DEF FrameInv, ClientStates, LoadStates
  <2>5. UNCHANGED <<page_table, framePid, toEvict, toWrite, epc, victim, unvisited>>
    BY <1>13 DEF WritePage
  <2> QED BY <2>4, <2>5, QuietClaims DEF FrameInv
<1>14. ASSUME NEW f \in Fibers, UnfixS(f)
     PROVE  (SweepsOwnPages /\ ClaimedStaysMapped /\ FrameConservation)'
  <2>1. PICK l \in ClientStates \ LoadStates : pc' = [pc EXCEPT ![f] = l]
    BY <1>14 DEF UnfixS, On, Goto, YieldTo, Done, ClientStates, LoadStates
  <2>2. ~Loading(f)
    BY <1>14 DEF UnfixS, On, Loading, LoadStates
  <2>3. /\ \A g \in Fibers : g # f \/ Loading(f) => bid'[g] = bid[g]
        /\ UNCHANGED <<page_table, free, epc, victim, freed>>
    BY <1>14, <2>2 DEF UnfixS, On, Goto, YieldTo, Done, FrameInv, TypeInv, TypeOK, FixTypes
  <2>4. FrameConservation'
    BY <2>1, <2>2, <2>3, QuietClient DEF FrameInv, ClientStates, LoadStates
  <2>5. UNCHANGED <<page_table, framePid, toEvict, toWrite, epc, victim, unvisited>>
    BY <1>14 DEF UnfixS
  <2> QED BY <2>4, <2>5, QuietClaims DEF FrameInv
<1>15. ASSUME NEW f \in Fibers, UnfixX(f)
     PROVE  (SweepsOwnPages /\ ClaimedStaysMapped /\ FrameConservation)'
  <2>1. PICK l \in ClientStates \ LoadStates : pc' = [pc EXCEPT ![f] = l]
    BY <1>15 DEF UnfixX, On, Goto, YieldTo, ClientStates, LoadStates
  <2>2. ~Loading(f)
    BY <1>15 DEF UnfixX, On, Loading, LoadStates
  <2>3. /\ \A g \in Fibers : g # f \/ Loading(f) => bid'[g] = bid[g]
        /\ UNCHANGED <<page_table, free, epc, victim, freed>>
    BY <1>15, <2>2 DEF UnfixX, On, Goto, YieldTo, FrameInv, TypeInv, TypeOK, FixTypes
  <2>4. FrameConservation'
    BY <2>1, <2>2, <2>3, QuietClient DEF FrameInv, ClientStates, LoadStates
  <2>5. UNCHANGED <<page_table, framePid, toEvict, toWrite, epc, victim, unvisited>>
    BY <1>15 DEF UnfixX
  <2> QED BY <2>4, <2>5, QuietClaims DEF FrameInv
<1>16. ASSUME NEW f \in Fibers, StoreUnlocked(f)
     PROVE  (SweepsOwnPages /\ ClaimedStaysMapped /\ FrameConservation)'
  <2>1. PICK l \in ClientStates \ LoadStates : pc' = [pc EXCEPT ![f] = l]
    BY <1>16 DEF StoreUnlocked, On, Goto, YieldTo, Done, ClientStates, LoadStates
  <2>2. ~Loading(f)
    BY <1>16 DEF StoreUnlocked, On, Loading, LoadStates
  <2>3. /\ \A g \in Fibers : g # f \/ Loading(f) => bid'[g] = bid[g]
        /\ UNCHANGED <<page_table, free, epc, victim, freed>>
    BY <1>16, <2>2 DEF StoreUnlocked, On, Goto, YieldTo, Done, FrameInv, TypeInv, TypeOK, FixTypes
  <2>4. FrameConservation'
    BY <2>1, <2>2, <2>3, QuietClient DEF FrameInv, ClientStates, LoadStates
  <2>5. UNCHANGED <<page_table, framePid, toEvict, toWrite, epc, victim, unvisited>>
    BY <1>16 DEF StoreUnlocked
  <2> QED BY <2>4, <2>5, QuietClaims DEF FrameInv
<1>17. ASSUME NEW f \in Fibers, Validate(f)
     PROVE  (SweepsOwnPages /\ ClaimedStaysMapped /\ FrameConservation)'
  <2>1. PICK l \in ClientStates \ LoadStates : pc' = [pc EXCEPT ![f] = l]
    BY <1>17 DEF Validate, On, Goto, YieldTo, Done, ClientStates, LoadStates
  <2>2. ~Loading(f)
    BY <1>17 DEF Validate, On, Loading, LoadStates
  <2>3. /\ \A g \in Fibers : g # f \/ Loading(f) => bid'[g] = bid[g]
        /\ UNCHANGED <<page_table, free, epc, victim, freed>>
    BY <1>17, <2>2 DEF Validate, On, Goto, YieldTo, Done, FrameInv, TypeInv, TypeOK, FixTypes
  <2>4. FrameConservation'
    BY <2>1, <2>2, <2>3, QuietClient DEF FrameInv, ClientStates, LoadStates
  <2>5. UNCHANGED <<page_table, framePid, toEvict, toWrite, epc, victim, unvisited>>
    BY <1>17 DEF Validate
  <2> QED BY <2>4, <2>5, QuietClaims DEF FrameInv
<1>18. ASSUME NEW f \in Fibers, ReleaseGuard(f)
     PROVE  (SweepsOwnPages /\ ClaimedStaysMapped /\ FrameConservation)'
  <2>1. PICK l \in ClientStates \ LoadStates : pc' = [pc EXCEPT ![f] = l]
    BY <1>18 DEF ReleaseGuard, On, Goto, YieldTo, Done, ClientStates, LoadStates
  <2>2. ~Loading(f)
    BY <1>18 DEF ReleaseGuard, On, Loading, LoadStates
  <2>3. /\ \A g \in Fibers : g # f \/ Loading(f) => bid'[g] = bid[g]
        /\ UNCHANGED <<page_table, free, epc, victim, freed>>
    BY <1>18, <2>2 DEF ReleaseGuard, On, Goto, YieldTo, Done, FrameInv, TypeInv, TypeOK, FixTypes
  <2>4. FrameConservation'
    BY <2>1, <2>2, <2>3, QuietClient DEF FrameInv, ClientStates, LoadStates
  <2>5. UNCHANGED <<page_table, framePid, toEvict, toWrite, epc, victim, unvisited>>
    BY <1>18 DEF ReleaseGuard
  <2> QED BY <2>4, <2>5, QuietClaims DEF FrameInv
<1>19. ASSUME NEW f \in Fibers, Handover(f)
     PROVE  (SweepsOwnPages /\ ClaimedStaysMapped /\ FrameConservation)'
  <2>1. PICK l \in ClientStates \ LoadStates : pc' = [pc EXCEPT ![f] = l]
    BY <1>19 DEF Handover, On, Goto, YieldTo, ClientStates, LoadStates
  <2>2. ~Loading(f)
    BY <1>19 DEF Handover, On, Loading, LoadStates
  <2>3. /\ \A g \in Fibers : g # f \/ Loading(f) => bid'[g] = bid[g]
        /\ UNCHANGED <<page_table, free, epc, victim, freed>>
    BY <1>19, <2>2 DEF Handover, On, Goto, YieldTo, FrameInv, TypeInv, TypeOK, FixTypes
  <2>4. FrameConservation'
    BY <2>1, <2>2, <2>3, QuietClient DEF FrameInv, ClientStates, LoadStates
  <2>5. UNCHANGED <<page_table, framePid, toEvict, toWrite, epc, victim, unvisited>>
    BY <1>19 DEF Handover
  <2> QED BY <2>4, <2>5, QuietClaims DEF FrameInv
<1>20. ASSUME NEW f \in Fibers, DeviceRead(f)
     PROVE  (SweepsOwnPages /\ ClaimedStaysMapped /\ FrameConservation)'
  <2>1. PICK l \in ClientStates \ LoadStates : pc' = [pc EXCEPT ![f] = l]
    BY <1>20 DEF DeviceRead, On, Goto, YieldTo, ClientStates, LoadStates
  <2>2. ~Loading(f)
    BY <1>20 DEF DeviceRead, On, Loading, LoadStates
  <2>3. /\ \A g \in Fibers : g # f \/ Loading(f) => bid'[g] = bid[g]
        /\ UNCHANGED <<page_table, free, epc, victim, freed>>
    BY <1>20, <2>2 DEF DeviceRead, On, Goto, YieldTo, FrameInv, TypeInv, TypeOK, FixTypes
  <2>4. FrameConservation'
    BY <2>1, <2>2, <2>3, QuietClient DEF FrameInv, ClientStates, LoadStates
  <2>5. UNCHANGED <<page_table, framePid, toEvict, toWrite, epc, victim, unvisited>>
    BY <1>20 DEF DeviceRead
  <2> QED BY <2>4, <2>5, QuietClaims DEF FrameInv
<1>21. ASSUME NEW f \in Fibers, ClearIo(f)
     PROVE  (SweepsOwnPages /\ ClaimedStaysMapped /\ FrameConservation)'
  <2>1. PICK l \in ClientStates \ LoadStates : pc' = [pc EXCEPT ![f] = l]
    BY <1>21 DEF ClearIo, On, Goto, YieldTo, ClientStates, LoadStates
  <2>2. ~Loading(f)
    BY <1>21 DEF ClearIo, On, Loading, LoadStates
  <2>3. /\ \A g \in Fibers : g # f \/ Loading(f) => bid'[g] = bid[g]
        /\ UNCHANGED <<page_table, free, epc, victim, freed>>
    BY <1>21, <2>2 DEF ClearIo, On, Goto, YieldTo, FrameInv, TypeInv, TypeOK, FixTypes
  <2>4. FrameConservation'
    BY <2>1, <2>2, <2>3, QuietClient DEF FrameInv, ClientStates, LoadStates
  <2>5. UNCHANGED <<page_table, framePid, toEvict, toWrite, epc, victim, unvisited>>
    BY <1>21 DEF ClearIo
  <2> QED BY <2>4, <2>5, QuietClaims DEF FrameInv
<1>22. ASSUME NEW f \in Fibers, UnlockLoaded(f)
     PROVE  (SweepsOwnPages /\ ClaimedStaysMapped /\ FrameConservation)'
  <2>1. PICK l \in ClientStates \ LoadStates : pc' = [pc EXCEPT ![f] = l]
    BY <1>22 DEF UnlockLoaded, On, Goto, YieldTo, ClientStates, LoadStates
  <2>2. ~Loading(f)
    BY <1>22 DEF UnlockLoaded, On, Loading, LoadStates
  <2>3. /\ \A g \in Fibers : g # f \/ Loading(f) => bid'[g] = bid[g]
        /\ UNCHANGED <<page_table, free, epc, victim, freed>>
    BY <1>22, <2>2 DEF UnlockLoaded, On, Goto, YieldTo, FrameInv, TypeInv, TypeOK, FixTypes
  <2>4. FrameConservation'
    BY <2>1, <2>2, <2>3, QuietClient DEF FrameInv, ClientStates, LoadStates
  <2>5. UNCHANGED <<page_table, framePid, toEvict, toWrite, epc, victim, unvisited>>
    BY <1>22 DEF UnlockLoaded
  <2> QED BY <2>4, <2>5, QuietClaims DEF FrameInv
<1>23. ASSUME NEW f \in Fibers, Bind(f)
     PROVE  (SweepsOwnPages /\ ClaimedStaysMapped /\ FrameConservation)'
  <2>1. PICK l \in LoadStates : pc' = [pc EXCEPT ![f] = l]
    BY <1>23 DEF Bind, On, Goto, YieldTo, ClientStates, LoadStates
  <2>2. Loading(f)
    BY <1>23 DEF Bind, On, Loading, LoadStates
  <2>3. /\ \A g \in Fibers : g # f \/ Loading(f) => bid'[g] = bid[g]
        /\ UNCHANGED <<page_table, free, epc, victim, freed>>
    BY <1>23, <2>2 DEF Bind, On, Goto, YieldTo, FrameInv, TypeInv, TypeOK, FixTypes
  <2>4. FrameConservation'
    BY <2>1, <2>2, <2>3, QuietClient DEF FrameInv, ClientStates, LoadStates
  <2>5. UNCHANGED <<page_table, framePid, toEvict, toWrite, epc, victim, unvisited>>
    BY <1>23 DEF Bind
  <2> QED BY <2>4, <2>5, QuietClaims DEF FrameInv
<1>24. ASSUME NEW f \in Fibers, SetFlag(f)
     PROVE  (SweepsOwnPages /\ ClaimedStaysMapped /\ FrameConservation)'
  <2>1. PICK l \in LoadStates : pc' = [pc EXCEPT ![f] = l]
    BY <1>24 DEF SetFlag, On, Goto, YieldTo, ClientStates, LoadStates
  <2>2. Loading(f)
    BY <1>24 DEF SetFlag, On, Loading, LoadStates
  <2>3. /\ \A g \in Fibers : g # f \/ Loading(f) => bid'[g] = bid[g]
        /\ UNCHANGED <<page_table, free, epc, victim, freed>>
    BY <1>24, <2>2 DEF SetFlag, On, Goto, YieldTo, FrameInv, TypeInv, TypeOK, FixTypes
  <2>4. FrameConservation'
    BY <2>1, <2>2, <2>3, QuietClient DEF FrameInv, ClientStates, LoadStates
  <2>5. UNCHANGED <<page_table, framePid, toEvict, toWrite, epc, victim, unvisited>>
    BY <1>24 DEF SetFlag
  <2> QED BY <2>4, <2>5, QuietClaims DEF FrameInv
<1>25. ASSUME NEW f \in Fibers, Undo(f)
     PROVE  (SweepsOwnPages /\ ClaimedStaysMapped /\ FrameConservation)'
  <2>1. PICK l \in LoadStates : pc' = [pc EXCEPT ![f] = l]
    BY <1>25 DEF Undo, On, Goto, YieldTo, ClientStates, LoadStates
  <2>2. Loading(f)
    BY <1>25 DEF Undo, On, Loading, LoadStates
  <2>3. /\ \A g \in Fibers : g # f \/ Loading(f) => bid'[g] = bid[g]
        /\ UNCHANGED <<page_table, free, epc, victim, freed>>
    BY <1>25, <2>2 DEF Undo, On, Goto, YieldTo, FrameInv, TypeInv, TypeOK, FixTypes
  <2>4. FrameConservation'
    BY <2>1, <2>2, <2>3, QuietClient DEF FrameInv, ClientStates, LoadStates
  <2>5. UNCHANGED <<page_table, framePid, toEvict, toWrite, epc, victim, unvisited>>
    BY <1>25 DEF Undo
  <2> QED BY <2>4, <2>5, QuietClaims DEF FrameInv
<1>26. ASSUME NEW f \in Fibers, SetPid(f)
     PROVE  (SweepsOwnPages /\ ClaimedStaysMapped /\ FrameConservation)'
  <2>1. PICK l \in LoadStates : pc' = [pc EXCEPT ![f] = l]
    BY <1>26 DEF SetPid, On, Goto, YieldTo, ClientStates, LoadStates
  <2>2. Loading(f)
    BY <1>26 DEF SetPid, On, Loading, LoadStates
  <2>3. /\ \A g \in Fibers : g # f \/ Loading(f) => bid'[g] = bid[g]
        /\ UNCHANGED <<page_table, free, epc, victim, freed>>
    BY <1>26, <2>2 DEF SetPid, On, Goto, YieldTo, FrameInv, TypeInv, TypeOK, FixTypes
  <2>4. FrameConservation'
    BY <2>1, <2>2, <2>3, QuietClient DEF FrameInv, ClientStates, LoadStates
  <2>5. /\ framePid' = [framePid EXCEPT ![bid[f]] = pid[f]]
        /\ UNCHANGED <<page_table, toEvict, toWrite, epc, victim, unvisited>>
    BY <1>26 DEF SetPid
  <2>6. \A v \in Workers, b \in Bids : Mine(v, b) => Mine(v, b)'
    <3>1. SUFFICES ASSUME NEW v \in Workers, NEW b \in Bids, Mine(v, b) PROVE Mine(v, b)'
      OBVIOUS
    <3>2. b # bid[f]
      BY <3>1, <2>2 DEF Mine, FrameInv, FrameConservation, LoadingIsPrivate
    <3> QED BY <3>1, <3>2, <2>5 DEF Mine, FrameInv, TypeInv, TypeOK, PoolTypes
  <2>7. ClaimedStaysMapped' /\ SweepsOwnPages'
    BY <2>5, <2>6 DEF ClaimedStaysMapped, SweepsOwnPages, Claimed, FrameInv, TypeInv, TypeOK,
       EvictTypes, EvictorRefs
  <2> QED BY <2>4, <2>7
<1>27. ASSUME NEW w \in Workers, NEW f \in Fibers, Resume(w, f)
     PROVE  (SweepsOwnPages /\ ClaimedStaysMapped /\ FrameConservation)'
  <2>1. UNCHANGED <<pc, bid, page_table, free, framePid, toEvict, toWrite, epc, victim, unvisited, freed>>
    BY <1>27 DEF Resume
  <2>2. FrameConservation'
    BY <2>1, QuietFrames DEF Loading, Retired, FrameInv
  <2> QED BY <2>1, <2>2, QuietClaims DEF FrameInv
<1>28. ASSUME NEW w \in Workers, ResumeEvictor(w)
     PROVE  (SweepsOwnPages /\ ClaimedStaysMapped /\ FrameConservation)'
  <2>1. UNCHANGED <<pc, bid, page_table, free, framePid, toEvict, toWrite, epc, victim, unvisited, freed>>
    BY <1>28 DEF ResumeEvictor
  <2>2. FrameConservation'
    BY <2>1, QuietFrames DEF Loading, Retired, FrameInv
  <2> QED BY <2>1, <2>2, QuietClaims DEF FrameInv
<1>29. ASSUME NEW f \in Fibers, Fault(f)
     PROVE  (SweepsOwnPages /\ ClaimedStaysMapped /\ FrameConservation)'
  <2>1. ~Loading(f) /\ UNCHANGED <<page_table, framePid, toEvict, toWrite, epc, victim, unvisited, freed>>
    BY <1>29 DEF Fault, On, Loading, LoadStates
  <2>2. ASSUME \E b \in Bids : Take(f, b) PROVE FrameConservation'
    <3>1. PICK b \in Bids : Take(f, b)
      BY <2>2
    <3> QED BY <2>1, <3>1, TakeFrames
  <2>3. ASSUME UNCHANGED <<bid, free>>, \E l \in {"lookup", "fault"} : pc' = [pc EXCEPT ![f] = l]
        PROVE  FrameConservation'
    <3>1. PICK l \in {"lookup", "fault"} : pc' = [pc EXCEPT ![f] = l]
      BY <2>3
    <3>2. l \in ClientStates /\ l \notin LoadStates
      BY DEF ClientStates, LoadStates
    <3> QED BY <2>1, <2>3, <3>1, <3>2, QuietClient DEF FrameInv
  <2>4. FrameConservation'
    BY <1>29, <2>2, <2>3 DEF Fault, Goto, YieldTo
  <2> QED BY <2>1, <2>4, QuietClaims DEF FrameInv
<1>30. ASSUME NEW f \in Fibers, Alloc(f)
     PROVE  (SweepsOwnPages /\ ClaimedStaysMapped /\ FrameConservation)'
  <2>1. ~Loading(f) /\ UNCHANGED <<page_table, framePid, toEvict, toWrite, epc, victim, unvisited, freed>>
    BY <1>30 DEF Alloc, On, Loading, LoadStates
  <2>2. ASSUME \E b \in Bids : Take(f, b) PROVE FrameConservation'
    <3>1. PICK b \in Bids : Take(f, b)
      BY <2>2
    <3> QED BY <2>1, <3>1, TakeFrames
  <2>3. ASSUME Done(f), UNCHANGED free PROVE FrameConservation'
    <3>1. pc' = [pc EXCEPT ![f] = "idle"] /\ \A g \in Fibers : g # f => bid'[g] = bid[g]
      BY <2>3 DEF Done, YieldTo, FrameInv, TypeInv, TypeOK, FixTypes
    <3>2. "idle" \in ClientStates /\ "idle" \notin LoadStates
      BY DEF ClientStates, LoadStates
    <3> QED BY <2>1, <2>3, <3>1, <3>2, QuietClient DEF FrameInv
  <2>4. FrameConservation'
    BY <1>30, <2>2, <2>3 DEF Alloc
  <2> QED BY <2>1, <2>4, QuietClaims DEF FrameInv
<1>31. ASSUME NEW f \in Fibers, Insert(f)
     PROVE  (SweepsOwnPages /\ ClaimedStaysMapped /\ FrameConservation)'
  <2>1. Loading(f) /\ bid[f] \in Bids /\ pid[f] \in Pids
    BY <1>31 DEF Insert, On, Loading, LoadStates, FrameInv, TypeInv, ClientRefs
  <2>2. UNCHANGED <<bid, free, framePid, toEvict, toWrite, epc, victim, unvisited, freed>>
    BY <1>31 DEF Insert
  <2>3. CASE page_table[pid[f]] # NoBid
    <3>1. pc' = [pc EXCEPT ![f] = "undo"] /\ UNCHANGED page_table
      BY <1>31, <2>3 DEF Insert, Goto
    <3>2. FrameConservation'
      BY <2>1, <2>2, <3>1, QuietClient DEF FrameInv, ClientStates, LoadStates
    <3> QED BY <2>2, <3>1, <3>2, QuietClaims DEF FrameInv
  <2>4. CASE page_table[pid[f]] = NoBid
    <3>1. /\ page_table' = [page_table EXCEPT ![pid[f]] = bid[f]]
          /\ \E l \in {"hold", "reading"} : pc' = [pc EXCEPT ![f] = l]
      BY <1>31, <2>4 DEF Insert, Goto, YieldTo
    <3>2. \A g \in Fibers : Loading(g)' <=> (g # f /\ Loading(g))
      BY <3>1 DEF Loading, LoadStates, FrameInv, TypeInv, TypeOK, ThreadTypes
    <3>3. \A p \in Pids : page_table'[p] = IF p = pid[f] THEN bid[f] ELSE page_table[p]
      BY <3>1 DEF FrameInv, TypeInv, TypeOK, PoolTypes
    <3>4. \A v \in Workers : Retired(v)' = Retired(v)
      BY <2>2 DEF Retired
    <3>5. TableIsInjective'
      BY SMT, <2>1, <3>3 DEF TableIsInjective, LoadingIsPrivate, FrameInv, FrameConservation
    <3>6. FreeIsUnused'
      BY <2>1, <2>2, <3>2, <3>3, <3>4 DEF FreeIsUnused, FrameInv, FrameConservation
    <3>7. LoadingIsPrivate'
      BY SMT, <2>1, <2>2, <3>2, <3>3, <3>4 DEF LoadingIsPrivate, FrameInv, FrameConservation
    <3>8. RetiredIsPrivate'
      BY <2>1, <3>3, <3>4 DEF RetiredIsPrivate, LoadingIsPrivate, FrameInv, FrameConservation
    <3>9. NoFrameLost'
      <4>1. SUFFICES ASSUME NEW b \in Bids PROVE
                  \/ b \in free
                  \/ \E p \in Pids : page_table'[p] = b
                  \/ \E g \in Fibers : Loading(g)' /\ bid[g] = b
                  \/ \E v \in Workers : b \in Retired(v)
        BY <2>2, <3>4 DEF NoFrameLost
      <4>2. CASE \E p \in Pids : page_table[p] = b
        <5>1. PICK p \in Pids : page_table[p] = b
          BY <4>2
        <5>2. p # pid[f]
          BY <5>1, <2>4, BidAssumption
        <5> QED BY <5>1, <5>2, <3>3
      <4>3. CASE \E g \in Fibers : Loading(g) /\ bid[g] = b
        BY <4>3, <2>1, <3>2, <3>3
      <4> QED BY <4>2, <4>3 DEF NoFrameLost, FrameInv, FrameConservation
    <3>10. \A v \in Workers, b \in Bids : Mine(v, b) => Mine(v, b)'
      BY <2>2, <2>4, <3>3, BidAssumption DEF Mine
    <3>11. ClaimedStaysMapped' /\ SweepsOwnPages'
      BY <2>2, <3>10 DEF ClaimedStaysMapped, SweepsOwnPages, Claimed, FrameInv, TypeInv, TypeOK,
         EvictTypes, EvictorRefs
    <3> QED BY <3>5, <3>6, <3>7, <3>8, <3>9, <3>11 DEF FrameConservation
  <2> QED BY <2>3, <2>4
<1>32. ASSUME NEW f \in Fibers, GiveBack(f)
     PROVE  (SweepsOwnPages /\ ClaimedStaysMapped /\ FrameConservation)'
  <2>1. Loading(f) /\ bid[f] \in Bids
    BY <1>32 DEF GiveBack, On, Loading, LoadStates, FrameInv, TypeInv, ClientRefs
  <2>2. /\ free' = free \cup {bid[f]}
        /\ UNCHANGED <<page_table, framePid, toEvict, toWrite, epc, victim, unvisited, freed>>
    BY <1>32 DEF GiveBack
  <2>3. \A g \in Fibers : Loading(g)' <=> (g # f /\ Loading(g))
    BY ZenonT(40), <1>32, ZenonT(60) DEF GiveBack, Goto, YieldTo, Loading, LoadStates, FrameInv, TypeInv, TypeOK, ThreadTypes
  <2>4. \A g \in Fibers : g # f => bid'[g] = bid[g]
    BY <1>32 DEF GiveBack, FrameInv, TypeInv, TypeOK, FixTypes
  <2>5. \A v \in Workers : Retired(v)' = Retired(v)
    BY <2>2 DEF Retired
  <2>6. TableIsInjective' /\ RetiredIsPrivate'
    BY <2>2, <2>5 DEF TableIsInjective, RetiredIsPrivate, FrameInv, FrameConservation
  <2>7. FreeIsUnused'
    BY SMT, <2>1, <2>2, <2>3, <2>4, <2>5 DEF FreeIsUnused, LoadingIsPrivate, FrameInv, FrameConservation
  <2>8. LoadingIsPrivate'
    BY <2>2, <2>3, <2>4, <2>5 DEF LoadingIsPrivate, FrameInv, FrameConservation
  <2>9. NoFrameLost'
    BY <2>1, <2>2, <2>3, <2>4, <2>5 DEF NoFrameLost, FrameInv, FrameConservation
  <2>10. FrameConservation'
    BY <2>6, <2>7, <2>8, <2>9 DEF FrameConservation
  <2> QED BY <2>2, <2>10, QuietClaims DEF FrameInv
<1>33. ASSUME NEW w \in Workers, StartSweep(w)
     PROVE  (SweepsOwnPages /\ ClaimedStaysMapped /\ FrameConservation)'
  <2>1. /\ epc[w] # "commit" /\ epc'[w] # "commit"
        /\ \A v \in Workers \ {w} : epc'[v] = epc[v] /\ victim'[v] = victim[v]
        /\ UNCHANGED <<page_table, free, freed, pc, bid, framePid>>
    BY <1>33 DEF StartSweep, EvictorOn, EvictorGoto, EvictorYieldTo, FrameInv, TypeInv, TypeOK, ThreadTypes, EvictTypes
  <2>2. FrameConservation'
    BY <2>1, QuietEvictor DEF FrameInv
  <2>3. \A v \in Workers : \A b : Mine(v, b)' <=> Mine(v, b)
    BY <2>1 DEF Mine
  <2>4. SweepsOwnPages'
    BY <1>33 DEF StartSweep, SweepsOwnPages, FrameInv, TypeInv, TypeOK, EvictTypes
  <2>5. ClaimedStaysMapped'
    BY <1>33, <2>1, <2>3 DEF StartSweep, EvictorOn, EvictorGoto, ClaimedStaysMapped, Claimed, FrameInv, TypeInv, TypeOK, ThreadTypes
  <2> QED BY <2>2, <2>4, <2>5
<1>34. ASSUME NEW w \in Workers, Visit(w)
     PROVE  (SweepsOwnPages /\ ClaimedStaysMapped /\ FrameConservation)'
  <2>1. /\ epc[w] # "commit" /\ epc'[w] # "commit"
        /\ \A v \in Workers \ {w} : epc'[v] = epc[v] /\ victim'[v] = victim[v]
        /\ UNCHANGED <<page_table, free, freed, pc, bid, framePid>>
    <3>1. UNCHANGED <<page_table, free, freed, pc, bid, framePid>>
      BY <1>34 DEF Visit, poolVars, clientVars, fixVars
    <3>2. \/ \E b : /\ victim' = [victim EXCEPT ![w] = b]
                   /\ epc' = [epc EXCEPT ![w] = IF meta[b].mode = Marked THEN "unmark" ELSE "claim"]
          \/ UNCHANGED <<victim, epc>>
      BY <1>34, ZenonT(60) DEF Visit, EvictorGoto
    <3>3. epc[w] = "sweep"
      BY <1>34 DEF Visit, EvictorOn
    <3> QED
      BY ZenonT(40), <3>1, <3>2, <3>3 DEF FrameInv, TypeInv, TypeOK, ThreadTypes, EvictTypes
  <2>2. FrameConservation'
    BY <2>1, QuietEvictor DEF FrameInv
  <2>3. \A v \in Workers : \A b : Mine(v, b)' <=> Mine(v, b)
    BY <2>1 DEF Mine
  <2>4. PICK p \in unvisited[w] :
          /\ unvisited' = [unvisited EXCEPT ![w] = unvisited[w] \ {p}]
          /\ \/ /\ framePid[page_table[p]] = p
                /\ victim' = [victim EXCEPT ![w] = page_table[p]]
             \/ UNCHANGED <<victim, epc>>
    BY <1>34 DEF Visit, EvictorGoto
  <2>5. SweepsOwnPages'
    BY <2>4 DEF SweepsOwnPages, FrameInv, TypeInv, TypeOK, EvictTypes
  <2>6. OwnerOf[p] = w /\ p \in Pids
    BY <2>4, ZenonT(60) DEF SweepsOwnPages, FrameInv, TypeInv, TypeOK, EvictTypes
  <2>7. ClaimedStaysMapped'
    <3>1. CASE UNCHANGED <<victim, epc>>
      BY <1>34, <2>1, <2>3, <3>1 DEF Visit, ClaimedStaysMapped, Claimed, FrameInv
    <3>2. CASE framePid[page_table[p]] = p /\ victim' = [victim EXCEPT ![w] = page_table[p]]
      <4>1. Mine(w, victim'[w])
        BY <2>6, <3>2 DEF Mine, FrameInv, TypeInv, TypeOK, EvictTypes
      <4> QED BY ZenonT(40), <1>34, <2>1, <2>3, <3>2, <4>1, ZenonT(60) DEF Visit, ClaimedStaysMapped, Claimed, FrameInv
    <3> QED BY <2>4, <3>1, <3>2
  <2> QED BY <2>2, <2>5, <2>7
<1>35. ASSUME NEW w \in Workers, Unmark(w)
     PROVE  (SweepsOwnPages /\ ClaimedStaysMapped /\ FrameConservation)'
  <2>1. /\ epc[w] # "commit" /\ epc'[w] # "commit"
        /\ \A v \in Workers \ {w} : epc'[v] = epc[v] /\ victim'[v] = victim[v]
        /\ UNCHANGED <<page_table, free, freed, pc, bid, framePid>>
    BY <1>35 DEF Unmark, EvictorOn, EvictorGoto, EvictorYieldTo, FrameInv, TypeInv, TypeOK, ThreadTypes, EvictTypes
  <2>2. FrameConservation'
    BY <2>1, QuietEvictor DEF FrameInv
  <2>3. \A v \in Workers : \A b : Mine(v, b)' <=> Mine(v, b)
    BY <2>1 DEF Mine
  <2>4. SweepsOwnPages'
    BY <1>35 DEF Unmark, SweepsOwnPages, FrameInv
  <2>5. ClaimedStaysMapped'
    BY <1>35, <2>1, <2>3 DEF Unmark, EvictorOn, EvictorGoto, ClaimedStaysMapped, Claimed, FrameInv, TypeInv, TypeOK, ThreadTypes
  <2> QED BY <2>2, <2>4, <2>5
<1>36. ASSUME NEW w \in Workers, Claim(w)
     PROVE  (SweepsOwnPages /\ ClaimedStaysMapped /\ FrameConservation)'
  <2>1. /\ epc[w] # "commit" /\ epc'[w] # "commit"
        /\ \A v \in Workers \ {w} : epc'[v] = epc[v] /\ victim'[v] = victim[v]
        /\ UNCHANGED <<page_table, free, freed, pc, bid, framePid>>
    BY <1>36 DEF Claim, EvictorOn, EvictorGoto, EvictorYieldTo, FrameInv, TypeInv, TypeOK, ThreadTypes, EvictTypes
  <2>2. FrameConservation'
    BY <2>1, QuietEvictor DEF FrameInv
  <2>3. \A v \in Workers : \A b : Mine(v, b)' <=> Mine(v, b)
    BY <2>1 DEF Mine
  <2>4. SweepsOwnPages'
    BY <1>36 DEF Claim, SweepsOwnPages, FrameInv
  <2>5. ClaimedStaysMapped'
    BY <1>36, <2>1, <2>3 DEF Claim, EvictorOn, EvictorGoto, ClaimedStaysMapped, Claimed, FrameInv, TypeInv, TypeOK, ThreadTypes
  <2> QED BY <2>2, <2>4, <2>5
<1>37. ASSUME NEW w \in Workers, Collect(w)
     PROVE  (SweepsOwnPages /\ ClaimedStaysMapped /\ FrameConservation)'
  <2>1. /\ epc[w] # "commit" /\ epc'[w] # "commit"
        /\ \A v \in Workers \ {w} : epc'[v] = epc[v] /\ victim'[v] = victim[v]
        /\ UNCHANGED <<page_table, free, freed, pc, bid, framePid>>
    BY <1>37 DEF Collect, EvictorOn, EvictorGoto, EvictorYieldTo, FrameInv, TypeInv, TypeOK, ThreadTypes, EvictTypes
  <2>2. FrameConservation'
    BY <2>1, QuietEvictor DEF FrameInv
  <2>3. \A v \in Workers : \A b : Mine(v, b)' <=> Mine(v, b)
    BY <2>1 DEF Mine
  <2>4. SweepsOwnPages'
    BY <1>37 DEF Collect, SweepsOwnPages, FrameInv
  <2>5. Mine(w, victim[w])
    BY <1>37 DEF Collect, EvictorOn, ClaimedStaysMapped, FrameInv
  <2>6. \A v \in Workers : Claimed(v)' \subseteq Claimed(v) \cup (IF v = w THEN {victim[w]} ELSE {})
    BY SMT, <1>37 DEF Collect, Claimed, FrameInv, TypeInv, TypeOK, EvictTypes
  <2>7. epc' = [epc EXCEPT ![w] = "sweep"] /\ UNCHANGED victim
    BY <1>37 DEF Collect, EvictorGoto
  <2>8. ClaimedStaysMapped'
    BY SMT, <2>1, <2>3, <2>5, <2>6, <2>7 DEF ClaimedStaysMapped, FrameInv, TypeInv, TypeOK, ThreadTypes
  <2> QED BY <2>2, <2>4, <2>8
<1>38. ASSUME NEW w \in Workers, EndSweep(w)
     PROVE  (SweepsOwnPages /\ ClaimedStaysMapped /\ FrameConservation)'
  <2>1. /\ epc[w] # "commit" /\ epc'[w] # "commit"
        /\ \A v \in Workers \ {w} : epc'[v] = epc[v] /\ victim'[v] = victim[v]
        /\ UNCHANGED <<page_table, free, freed, pc, bid, framePid>>
    BY <1>38 DEF EndSweep, EvictorOn, EvictorGoto, EvictorYieldTo, FrameInv, TypeInv, TypeOK, ThreadTypes, EvictTypes
  <2>2. FrameConservation'
    BY <2>1, QuietEvictor DEF FrameInv
  <2>3. \A v \in Workers : \A b : Mine(v, b)' <=> Mine(v, b)
    BY <2>1 DEF Mine
  <2>4. SweepsOwnPages'
    BY <1>38 DEF EndSweep, SweepsOwnPages, FrameInv, TypeInv, TypeOK, EvictTypes
  <2>5. epc'[w] \in {"evictClean", "writing"} /\ UNCHANGED <<victim, toEvict, toWrite>>
    BY <1>38 DEF EndSweep, EvictorGoto, EvictorYieldTo, FrameInv, TypeInv, TypeOK, ThreadTypes
  <2>6. ClaimedStaysMapped'
    BY <2>1, <2>3, <2>5 DEF ClaimedStaysMapped, Claimed, FrameInv
  <2> QED BY <2>2, <2>4, <2>6
<1>39. ASSUME NEW w \in Workers, DeviceWrite(w)
     PROVE  (SweepsOwnPages /\ ClaimedStaysMapped /\ FrameConservation)'
  <2>1. /\ epc[w] # "commit" /\ epc'[w] # "commit"
        /\ \A v \in Workers \ {w} : epc'[v] = epc[v] /\ victim'[v] = victim[v]
        /\ UNCHANGED <<page_table, free, freed, pc, bid, framePid>>
    BY <1>39 DEF DeviceWrite, EvictorOn, EvictorGoto, EvictorYieldTo, FrameInv, TypeInv, TypeOK, ThreadTypes, EvictTypes
  <2>2. FrameConservation'
    BY <2>1, QuietEvictor DEF FrameInv
  <2>3. \A v \in Workers : \A b : Mine(v, b)' <=> Mine(v, b)
    BY <2>1 DEF Mine
  <2>4. SweepsOwnPages'
    BY <1>39 DEF DeviceWrite, SweepsOwnPages, FrameInv
  <2>5. epc'[w] \in {"evictClean", "writing"} /\ UNCHANGED <<victim, toEvict, toWrite>>
    BY <1>39 DEF DeviceWrite, FrameInv, TypeInv, TypeOK, ThreadTypes
  <2>6. ClaimedStaysMapped'
    BY <2>1, <2>3, <2>5 DEF ClaimedStaysMapped, Claimed, FrameInv
  <2> QED BY <2>2, <2>4, <2>6
<1>40. ASSUME NEW w \in Workers, Precheck(w)
     PROVE  (SweepsOwnPages /\ ClaimedStaysMapped /\ FrameConservation)'
  <2>1. /\ epc[w] # "commit" /\ epc'[w] # "commit"
        /\ \A v \in Workers \ {w} : epc'[v] = epc[v] /\ victim'[v] = victim[v]
        /\ UNCHANGED <<page_table, free, freed, pc, bid, framePid>>
    BY <1>40 DEF Precheck, EvictorOn, EvictorGoto, EvictorYieldTo, FrameInv, TypeInv, TypeOK, ThreadTypes, EvictTypes
  <2>2. FrameConservation'
    BY <2>1, QuietEvictor DEF FrameInv
  <2>3. \A v \in Workers : \A b : Mine(v, b)' <=> Mine(v, b)
    BY <2>1 DEF Mine
  <2>4. SweepsOwnPages'
    BY <1>40 DEF Precheck, SweepsOwnPages, FrameInv
  <2>5. PICK b \in Claimed(w) :
          \/ /\ victim' = [victim EXCEPT ![w] = b]
             /\ epc' = [epc EXCEPT ![w] = "erase"]
             /\ UNCHANGED <<toEvict, toWrite>>
          \/ /\ toEvict' = [toEvict EXCEPT ![w] = toEvict[w] \ {b}]
             /\ toWrite' = [toWrite EXCEPT ![w] = toWrite[w] \ {b}]
             /\ UNCHANGED <<victim, epc>>
    BY <1>40 DEF Precheck, EvictorGoto
  <2>6. Mine(w, b)
    BY <2>1, <2>5 DEF ClaimedStaysMapped, FrameInv
  <2>7. \A v \in Workers : Claimed(v)' \subseteq Claimed(v)
    BY SMT, <2>5 DEF Claimed, FrameInv, TypeInv, TypeOK, EvictTypes
  <2>8. ClaimedStaysMapped'
    <3>1. CASE victim' = [victim EXCEPT ![w] = b] /\ epc' = [epc EXCEPT ![w] = "erase"]
      BY <2>1, <2>3, <2>6, <2>7, <3>1 DEF ClaimedStaysMapped, FrameInv, TypeInv, TypeOK, ThreadTypes, EvictTypes
    <3>2. CASE UNCHANGED <<victim, epc>>
      BY <2>1, <2>3, <2>7, <3>2 DEF ClaimedStaysMapped, FrameInv
    <3> QED BY <2>5, <3>1, <3>2
  <2> QED BY <2>2, <2>4, <2>8
<1>41. ASSUME NEW w \in Workers, Erase(w)
     PROVE  (SweepsOwnPages /\ ClaimedStaysMapped /\ FrameConservation)'
  <2> DEFINE b == victim[w]  p == framePid[b]
  <2>1. b \in Bids /\ Mine(w, b) /\ p \in Pids /\ OwnerOf[p] = w /\ page_table[p] = b
    BY <1>41 DEF Erase, EvictorOn, ClaimedStaysMapped, Mine, FrameInv, TypeInv, EvictorRefs
  <2>2. /\ page_table' = [page_table EXCEPT ![p] = NoBid]
        /\ epc[w] = "erase" /\ epc' = [epc EXCEPT ![w] = "commit"]
        /\ UNCHANGED <<pc, bid, free, framePid, toEvict, toWrite, victim, unvisited, freed>>
    BY <1>41 DEF Erase, EvictorOn, EvictorGoto
  <2> HIDE DEF b, p
  <2>3. \A q \in Pids : page_table'[q] = IF q = p THEN NoBid ELSE page_table[q]
    BY <2>2 DEF FrameInv, TypeInv, TypeOK, PoolTypes
  <2>4. \A g \in Fibers : (Loading(g)' <=> Loading(g)) /\ bid'[g] = bid[g]
    BY <2>2 DEF Loading
  <2>5. \A v \in Workers : Retired(v)' = IF v = w THEN Retired(v) \cup {b} ELSE Retired(v)
    BY <2>2 DEF Retired, b, FrameInv, TypeInv, TypeOK, ThreadTypes
  <2>6. \A q \in Pids : page_table[q] = b => q = p
    BY <2>1, BidAssumption DEF TableIsInjective, FrameInv, FrameConservation
  <2>7. TableIsInjective'
    BY <2>3 DEF TableIsInjective, FrameInv, FrameConservation
  <2>8. NoBid \notin free /\ \A v \in Workers : NoBid \notin Retired(v) /\ b \notin Retired(v)
    BY ZenonT(40), <2>1, BidAssumption, ZenonT(60) DEF RetiredIsPrivate, Retired, FrameInv, FrameConservation, TypeInv, TypeOK,
       PoolTypes, EvictTypes, EvictorRefs
  <2>9. FreeIsUnused'
    <3>1. \A q \in Pids : page_table'[q] \notin free'
      BY SMT, <2>2, <2>3, <2>8 DEF FreeIsUnused, FrameInv, FrameConservation
    <3>2. \A g \in Fibers : Loading(g)' => bid'[g] \notin free'
      BY <2>2, <2>4 DEF FreeIsUnused, FrameInv, FrameConservation
    <3>3. b \notin free
      BY <2>1 DEF FreeIsUnused, FrameInv, FrameConservation
    <3>4. \A v \in Workers : Retired(v)' \cap free' = {}
      BY <2>2, <2>5, <3>3 DEF FreeIsUnused, FrameInv, FrameConservation
    <3> QED BY <3>1, <3>2, <3>4 DEF FreeIsUnused
  <2>10. LoadingIsPrivate'
    <3>1. \A g \in Fibers : Loading(g) => bid[g] # NoBid /\ bid[g] # b
      BY <2>1, BidAssumption DEF LoadingIsPrivate, Loading, LoadStates, FrameInv, FrameConservation, TypeInv, ClientRefs
    <3> QED BY ZenonT(40), <2>3, <2>4, <2>5, <3>1, ZenonT(60) DEF LoadingIsPrivate, FrameInv, FrameConservation
  <2>11. RetiredIsPrivate'
    BY SMT, <2>1, <2>3, <2>5, <2>6, <2>8, BidAssumption DEF RetiredIsPrivate, FrameInv, FrameConservation
  <2>12. NoFrameLost'
    <3>1. SUFFICES ASSUME NEW c \in Bids PROVE
              \/ c \in free
              \/ \E q \in Pids : page_table'[q] = c
              \/ \E g \in Fibers : Loading(g) /\ bid[g] = c
              \/ \E v \in Workers : c \in Retired(v)'
      BY <2>2, <2>4 DEF NoFrameLost
    <3>2. CASE c = b
      BY <2>5, <3>2
    <3>3. CASE c # b
      BY <2>1, <2>3, <2>5, <3>3 DEF NoFrameLost, FrameInv, FrameConservation
    <3> QED BY <3>2, <3>3
  <2>13. \A v \in Workers, c \in Bids : Mine(v, c) /\ c # b => Mine(v, c)'
    BY <2>1, <2>2, <2>3 DEF Mine
  <2>14. \A v \in Workers \ {w}, c \in Bids : Mine(v, c) => Mine(v, c)'
    BY <2>1, <2>2, <2>3 DEF Mine
  <2>15. ClaimedStaysMapped'
    BY <2>2, <2>13, <2>14 DEF ClaimedStaysMapped, Claimed, b, FrameInv, TypeInv, TypeOK, ThreadTypes, EvictTypes, EvictorRefs
  <2>16. SweepsOwnPages'
    BY <2>2 DEF SweepsOwnPages, FrameInv
  <2> QED BY <2>7, <2>9, <2>10, <2>11, <2>12, <2>15, <2>16 DEF FrameConservation
<1>42. ASSUME NEW w \in Workers, Commit(w)
     PROVE  (SweepsOwnPages /\ ClaimedStaysMapped /\ FrameConservation)'
  <2>1. /\ epc[w] = "commit" /\ epc'[w] \in {"evictClean", "evictWritten"}
        /\ \A v \in Workers \ {w} : epc'[v] = epc[v] /\ freed'[v] = freed[v]
        /\ freed'[w] = freed[w] \cup {victim[w]}
        /\ UNCHANGED <<pc, bid, page_table, free, framePid, victim, unvisited>>
    BY <1>42 DEF Commit, EvictorOn, EvictorGoto, FrameInv, TypeInv, TypeOK, ThreadTypes, EvictTypes
  <2>2. FrameConservation'
    <3>1. \A g \in Fibers : (Loading(g)' <=> Loading(g)) /\ bid'[g] = bid[g]
      BY <2>1 DEF Loading
    <3>2. \A v \in Workers : Retired(v)' = Retired(v)
      BY <2>1 DEF Retired
    <3> QED BY <2>1, <3>1, <3>2, QuietFrames DEF FrameInv
  <2>3. \A v \in Workers : \A c : Mine(v, c)' <=> Mine(v, c)
    BY <2>1 DEF Mine
  <2>4. \A v \in Workers : Claimed(v)' = IF v = w THEN Claimed(v) \ {victim[w]} ELSE Claimed(v)
    BY <1>42 DEF Commit, Claimed, FrameInv, TypeInv, TypeOK, EvictTypes
  <2>5. ClaimedStaysMapped'
    BY ZenonT(40), <2>1, <2>3, <2>4, ZenonT(60) DEF ClaimedStaysMapped, FrameInv
  <2>6. SweepsOwnPages'
    BY <2>1 DEF SweepsOwnPages, FrameInv
  <2> QED BY <2>2, <2>5, <2>6
<1>43. ASSUME NEW w \in Workers, ReleaseFreed(w)
     PROVE  (SweepsOwnPages /\ ClaimedStaysMapped /\ FrameConservation)'
  <2>1. /\ epc[w] \in {"evictClean", "evictWritten"} /\ epc'[w] \in {"evictWritten", "sleep"}
        /\ \A v \in Workers \ {w} : epc'[v] = epc[v] /\ freed'[v] = freed[v] /\ victim'[v] = victim[v]
        /\ freed'[w] = {} /\ free' = free \cup freed[w]
        /\ UNCHANGED <<pc, bid, page_table, framePid, unvisited, toEvict, toWrite>>
    BY SMT, <1>43 DEF ReleaseFreed, EvictorOn, EvictorGoto, EvictorYieldTo, FrameInv, TypeInv, TypeOK, ThreadTypes, EvictTypes
  <2>2. \A g \in Fibers : (Loading(g)' <=> Loading(g)) /\ bid'[g] = bid[g]
    BY <2>1 DEF Loading
  <2>3. Retired(w) = freed[w] /\ \A v \in Workers : Retired(v)' = IF v = w THEN {} ELSE Retired(v)
    BY <2>1 DEF Retired
  <2>4. TableIsInjective'
    BY <2>1 DEF TableIsInjective, FrameInv, FrameConservation
  <2>5. FreeIsUnused'
    <3>1. \A p \in Pids : page_table'[p] \notin free'
      BY <2>1, <2>3 DEF FreeIsUnused, RetiredIsPrivate, FrameInv, FrameConservation
    <3>2. \A g \in Fibers : Loading(g)' => bid'[g] \notin free'
      BY ZenonT(40), <2>1, <2>2, <2>3 DEF FreeIsUnused, LoadingIsPrivate, FrameInv, FrameConservation
    <3>3. \A v \in Workers : Retired(v)' \cap free' = {}
      BY SMT, <2>1, <2>3 DEF FreeIsUnused, RetiredIsPrivate, FrameInv, FrameConservation
    <3> QED BY <3>1, <3>2, <3>3 DEF FreeIsUnused
  <2>6. LoadingIsPrivate' /\ RetiredIsPrivate'
    <3>1. LoadingIsPrivate'
      BY <2>1, <2>2, <2>3 DEF LoadingIsPrivate, FrameInv, FrameConservation
    <3>2. RetiredIsPrivate'
      BY <2>1, <2>3 DEF RetiredIsPrivate, FrameInv, FrameConservation
    <3> QED BY <3>1, <3>2
  <2>7. NoFrameLost'
    BY <2>1, <2>2, <2>3 DEF NoFrameLost, FrameInv, FrameConservation
  <2>8. \A v \in Workers : \A c : Mine(v, c)' <=> Mine(v, c)
    BY <2>1 DEF Mine
  <2>9. ClaimedStaysMapped'
    BY <2>1, <2>8 DEF ClaimedStaysMapped, Claimed, FrameInv
  <2>10. SweepsOwnPages'
    BY <2>1 DEF SweepsOwnPages, FrameInv
  <2> QED BY <2>4, <2>5, <2>6, <2>7, <2>9, <2>10 DEF FrameConservation
<1>44. CASE UNCHANGED vars
  <2>1. UNCHANGED <<pc, bid, page_table, free, framePid, toEvict, toWrite, epc, victim, unvisited, freed>>
    BY <1>44 DEF vars
  <2>2. FrameConservation'
    BY <2>1, QuietFrames DEF Loading, Retired, FrameInv
  <2> QED BY <2>1, <2>2, QuietClaims DEF FrameInv
<1> QED
  BY <1>1, <1>2, <1>3, <1>4, <1>5, <1>6, <1>7, <1>8, <1>9, <1>10, <1>11, <1>12, <1>13, <1>14, <1>15, <1>16, <1>17, <1>18, <1>19, <1>20, <1>21, <1>22, <1>23, <1>24, <1>25, <1>26, <1>27, <1>28, <1>29, <1>30, <1>31, <1>32, <1>33, <1>34, <1>35, <1>36, <1>37, <1>38, <1>39, <1>40, <1>41, <1>42, <1>43, <1>44
  DEF Next, Client, Evict

(* Frames are conserved for ever: however fixes, faults that lose the race  *)
(* for the insert, allocations and the evictions of all workers overlap,    *)
(* no frame of the pool is lost and none serves two purposes at a time.     *)
THEOREM FramesAreConserved == Spec => []FrameConservation
<1>1. FrameInv => FrameConservation
  BY DEF FrameInv
<1> QED
  BY FrameInit, FrameStep, <1>1, PTL DEF Spec

(* The erase of an eviction always removes the entry of the frame that it   *)
(* retires, because a page is swept by the worker that owns it only.        *)
THEOREM ErasesItsOwnFrame == Spec => []ClaimedStaysMapped
<1>1. FrameInv => ClaimedStaysMapped
  BY DEF FrameInv
<1> QED
  BY FrameInit, FrameStep, <1>1, PTL DEF Spec

-----------------------------------------------------------------------------
(* The two settings.  No set of frames is smaller than the target 0. *)
OneWorker == (\A v, w \in Workers : v = w) /\ "O" \notin Modes
NoEviction == \A S \in SUBSET Bids : ~(Cardinality(S) < FreeTarget)

-----------------------------------------------------------------------------
(* The inductive invariant: who is on the thread.  With one worker a fiber  *)
(* that is not on it waits at a yield, and an evictor between two yields    *)
(* has the thread to itself.                                                *)

ParkedStates == {"idle", "lookup", "fault", "reading", "readDone", "hold", "wrote"}
SweepStates == {"sweep", "unmark", "claim", "collect"}
BusyStates == SweepStates \cup {"erase", "commit", "evictWritten"}

Parked(f) ==
    /\ running[WorkerOf[f]] # f => pc[f] \in ParkedStates
    /\ mode[f] # "O" /\ ~exact[f]
Asleep(w) == epc[w] = "sleep" /\ running[w] # Evictor /\ Claimed(w) = {}
Turns ==
    /\ OneWorker => \A f \in Fibers : Parked(f)
    /\ OneWorker => \A w \in Workers : epc[w] \in BusyStates => running[w] = Evictor
    /\ NoEviction => \A w \in Workers : Asleep(w)

(* A frame in the table carries the number of its page. *)
Framed == \A p \in Pids : page_table[p] # NoBid => framePid[page_table[p]] = p

(* A page that is being allocated is the business of one client only. *)
New(f) == mode[f] = "A" /\ pc[f] # "alloc"
Distinct == \A f, g \in Fibers : New(f) /\ New(g) /\ pid[f] = pid[g] => f = g
Unused ==
    /\ \A p \in linked : p < allocCount
    /\ \A p \in Pids : p >= allocCount => page_table[p] = NoBid /\ committed[p] = 0

(* Who holds which lock, and what the mode of the word says about it. *)
Shares(l, m) == m = "S" /\ l \in {"recheck", "hold"}
Excludes(l, m) ==
    \/ m = "X" /\ l \in {"recheck", "hold", "wrote", "unlocking"}
    \/ m = "A" /\ l \in {"hold", "wrote", "unlocking"}
    \/ l \in {"setFlag", "setPid", "insert", "undo", "reading", "readDone", "unlock"}
Readers(b) == {f \in Fibers : Shares(pc[f], mode[f]) /\ bid[f] = b}
Writers(b) == {f \in Fibers : Excludes(pc[f], mode[f]) /\ bid[f] = b}

(* S has n elements. *)
Counts(S, n) ==
    \E e \in [1 .. n -> S] : /\ \A i, j \in 1 .. n : e[i] = e[j] => i = j
                             /\ \A x \in S : \E i \in 1 .. n : e[i] = x
Sharing(m) == IF m \in 1 .. MaxShared THEN m ELSE 0
LockOk(R, W, m) ==
    /\ Counts(R, Sharing(m))
    /\ m # Evicted
    /\ W # {} => m = Locked
    /\ \A f, g \in W : f = g
Locks == \A b \in Bids : LockOk(Readers(b), Writers(b), meta[b].mode)

(* What a client knows at its next step: its mode, its page, the frame the  *)
(* table has for it from the lookup to the unfix, and the word.             *)
AllocStates == {"alloc", "bind", "setFlag", "setPid", "insert", "hold", "wrote", "unlocking"}
ModeOk(l, m) ==
    /\ l = "alloc" => m = "A"
    /\ m = "A" => l \in AllocStates
    /\ l \in {"wrote", "unlocking"} => m \in {"X", "A"}
    /\ l = "guard" => m = "O"
    /\ l = "hold" => m # "O"
FixStates ==
    {"load", "flags", "cas", "recheck", "guard", "hold", "wrote", "unlocking",
     "reading", "readDone", "unlock"}
WordOk(l, m, s, w) ==
    /\ l = "cas" => ~w.evicting
    /\ l = "unlocking" => s.mode = Locked /\ s.dirty /\ ~s.evicting
    /\ m = "X" /\ l \in {"recheck", "hold", "wrote", "unlocking"} => w.dirty
    /\ m = "A" /\ l \in {"setPid", "insert", "hold", "wrote", "unlocking"} => w.dirty
Latest(p) == [page |-> p, writes |-> committed[p]]
Fine(f) ==
    /\ ModeOk(pc[f], mode[f])
    /\ pc[f] # "idle" /\ mode[f] # "A" => pid[f] \in linked
    /\ New(f) => pid[f] < allocCount /\ pid[f] \notin linked
    /\ New(f) /\ Loading(f) => page_table[pid[f]] = NoBid /\ committed[pid[f]] = 0
    /\ pc[f] \in FixStates => page_table[pid[f]] = bid[f]
    /\ pc[f] \in {"insert", "undo"} => framePid[bid[f]] = pid[f]
    /\ WordOk(pc[f], mode[f], seen[f], meta[bid[f]])
    /\ pc[f] = "reading" => disk[pid[f]] = Latest(pid[f])

(* A claimed frame is clean, unlocked and flagged, and only claims are. *)
Claims ==
    \A w \in Workers :
        /\ \A b \in Claimed(w) : meta[b].evicting /\ ~meta[b].dirty /\ Reclaimable(b)
        /\ epc[w] \in {"unmark", "claim"} => Reclaimable(victim[w]) /\ ~meta[victim[w]].evicting
        /\ epc[w] = "collect" => Reclaimable(victim[w]) /\ meta[victim[w]].evicting
        /\ epc[w] \in {"erase", "commit"} => victim[w] \in Claimed(w)
        /\ unwritten[w] \subseteq toWrite[w]
        /\ epc[w] # "writing" => unwritten[w] = {}
Owned ==
    \A b \in Bids : meta[b].evicting =>
        \E w \in Workers : b \in Claimed(w) \/ (epc[w] = "collect" /\ victim[w] = b)

(* Where the last write of a page is. *)
Pending(w, b) == b \in toWrite[w] /\ (b \in unwritten[w] \/ epc[w] \in SweepStates)
OnDisk == \A p \in linked : page_table[p] = NoBid => disk[p] = Latest(p)
BeingRead(b) == \E g \in Fibers : pc[g] = "reading" /\ bid[g] = b
InFrame ==
    \A p \in Pids : page_table[p] # NoBid =>
        /\ BeingRead(page_table[p]) \/ data[page_table[p]] = Latest(p)
        /\ \/ meta[page_table[p]].dirty
           \/ disk[p] = Latest(p)
           \/ \E w \in Workers : Pending(w, page_table[p])

Safe ==
    /\ Framed /\ Distinct /\ Unused /\ Locks
    /\ \A f \in Fibers : Fine(f)
    /\ Claims /\ Owned /\ OnDisk /\ InFrame
PoolInv == FrameInv /\ Turns /\ Safe

-----------------------------------------------------------------------------
(* Counting the readers of a frame. *)

LEMMA CountNone == Counts({}, 0) /\ \A S : Counts(S, 0) => S = {}
<1>1. Counts({}, 0)
  <2> DEFINE e == [i \in 1 .. 0 |-> i]
  <2>1. e \in [1 .. 0 -> {}]
    BY SMT
  <2> QED BY <2>1 DEF Counts
<1>2. \A S : Counts(S, 0) => S = {}
  BY SMT DEF Counts
<1> QED BY <1>1, <1>2

LEMMA CountMore ==
    ASSUME NEW S, NEW n \in Nat, NEW x, x \notin S, Counts(S, n)
    PROVE  Counts(S \cup {x}, n + 1)
<1>1. PICK e \in [1 .. n -> S] : /\ \A i, j \in 1 .. n : e[i] = e[j] => i = j
                                 /\ \A y \in S : \E i \in 1 .. n : e[i] = y
  BY DEF Counts
<1> DEFINE d == [i \in 1 .. n + 1 |-> IF i = n + 1 THEN x ELSE e[i]]
<1>2. d \in [1 .. n + 1 -> S \cup {x}]
  BY SMT, <1>1
<1>3. \A i, j \in 1 .. n + 1 : d[i] = d[j] => i = j
  BY SMT, <1>1
<1>4. \A y \in S \cup {x} : \E i \in 1 .. n + 1 : d[i] = y
  <2>1. \A i \in 1 .. n : i \in 1 .. n + 1 /\ d[i] = e[i]
    BY SMT
  <2>2. n + 1 \in 1 .. n + 1 /\ d[n + 1] = x
    BY SMT
  <2> QED BY <1>1, <2>1, <2>2
<1> QED BY <1>2, <1>3, <1>4 DEF Counts

LEMMA CountLess ==
    ASSUME NEW S, NEW n \in Nat, NEW x \in S, Counts(S, n)
    PROVE  n >= 1 /\ Counts(S \ {x}, n - 1)
<1>1. PICK e \in [1 .. n -> S] : /\ \A i, j \in 1 .. n : e[i] = e[j] => i = j
                                 /\ \A y \in S : \E i \in 1 .. n : e[i] = y
  BY DEF Counts
<1>2. PICK k \in 1 .. n : e[k] = x
  BY <1>1
<1> DEFINE d == [i \in 1 .. n - 1 |-> IF i = k THEN e[n] ELSE e[i]]
<1>3. n >= 1 /\ n \in 1 .. n /\ \A i \in 1 .. n - 1 : i \in 1 .. n /\ i # n
  BY SMT, <1>2
<1>4. d \in [1 .. n - 1 -> S \ {x}]
  BY <1>1, <1>2, <1>3
<1>5. \A i, j \in 1 .. n - 1 : d[i] = d[j] => i = j
  BY <1>1, <1>2, <1>3
<1>6. \A y \in S \ {x} : \E i \in 1 .. n - 1 : d[i] = y
  <2>1. SUFFICES ASSUME NEW y \in S, y # x PROVE \E i \in 1 .. n - 1 : d[i] = y
    OBVIOUS
  <2>2. PICK j \in 1 .. n : e[j] = y
    BY <1>1
  <2>3. j # k
    BY <1>2, <2>1, <2>2
  <2>4. CASE j = n
    <3>1. k \in 1 .. n - 1 /\ d[k] = y
      BY SMT, <2>2, <2>3, <2>4
    <3> QED BY <3>1
  <2>5. CASE j # n
    <3>1. j \in 1 .. n - 1 /\ d[j] = y
      BY SMT, <2>2, <2>3, <2>5
    <3> QED BY <3>1
  <2> QED BY <2>4, <2>5
<1> QED BY <1>3, <1>4, <1>5, <1>6 DEF Counts

-----------------------------------------------------------------------------
(* What the operations of PageState do to the lock of a frame. *)

LEMMA ModeNumbers ==
    ASSUME NEW m \in 0 .. 255
    PROVE  /\ Sharing(m) \in Nat
           /\ m \in {Unlocked, Locked, Marked, Evicted} <=> Sharing(m) = 0
           /\ m \in 1 .. MaxShared => Sharing(m) = m
BY SMT DEF Sharing, Unlocked, MaxShared, Locked, Marked, Evicted

LEMMA LockFree ==
    ASSUME NEW R, NEW W, NEW m \in {Unlocked, Marked}, LockOk(R, W, m)
    PROVE  R = {} /\ W = {} /\ \A x \in {Unlocked, Marked} : LockOk(R, W, x)
<1>1. m \in 0 .. 255 /\ m # Locked
  BY SMT DEF Unlocked, Marked, Locked
<1>2. Counts(R, 0)
  BY <1>1, ModeNumbers DEF LockOk
<1>3. R = {} /\ W = {}
  BY <1>1, <1>2, CountNone DEF LockOk
<1>4. \A x \in {Unlocked, Marked} : Sharing(x) = 0 /\ x # Evicted
  BY SMT DEF Sharing, Unlocked, Marked, MaxShared, Evicted
<1> QED BY <1>2, <1>3, <1>4 DEF LockOk

LEMMA LockTaken ==
    ASSUME NEW f
    PROVE  LockOk({}, {f}, Locked) /\ \A x \in {Unlocked, Marked} : LockOk({}, {}, x)
<1>1. \A x \in {Unlocked, Marked, Locked} : Sharing(x) = 0 /\ x # Evicted
  BY SMT DEF Sharing, Unlocked, Locked, Marked, MaxShared, Evicted
<1> QED BY <1>1, CountNone DEF LockOk

LEMMA LockHeld ==
    ASSUME NEW R, NEW W, NEW m \in 0 .. 255, NEW f \in W, LockOk(R, W, m)
    PROVE  R = {} /\ W = {f} /\ m = Locked
<1>1. W = {f} /\ m = Locked
  BY DEF LockOk
<1>2. Counts(R, 0)
  BY <1>1, ModeNumbers DEF LockOk
<1> QED BY <1>1, <1>2, CountNone

LEMMA LockShared ==
    ASSUME NEW R, NEW W, NEW m \in 0 .. 255, LockOk(R, W, m), m < MaxShared \/ m = Marked,
           NEW f, f \notin R
    PROVE  LockOk(R \cup {f}, W, IF m = Marked THEN 1 ELSE m + 1)
<1> DEFINE k == IF m = Marked THEN 1 ELSE m + 1
<1>1. W = {}
  BY SMT DEF LockOk, Locked, Marked, MaxShared
<1>2. Sharing(k) = Sharing(m) + 1 /\ k # Evicted
  BY SMT DEF Sharing, Marked, MaxShared, Evicted
<1>3. Counts(R \cup {f}, Sharing(m) + 1)
  BY CountMore, ModeNumbers DEF LockOk
<1> QED BY <1>1, <1>2, <1>3 DEF LockOk

(* What unlock_s_marked makes of the mode. *)
Fewer(m) == IF m = 1 THEN Marked ELSE (m + 255) % 256

LEMMA LockShares ==
    ASSUME NEW R, NEW W, NEW m \in 0 .. 255, LockOk(R, W, m), NEW f, f \in R
    PROVE  m \in 1 .. MaxShared /\ LockOk(R \ {f}, W, Fewer(m))
<1> DEFINE k == Fewer(m)
<1>1. Sharing(m) >= 1 /\ Counts(R \ {f}, Sharing(m) - 1)
  BY CountLess, ModeNumbers DEF LockOk
<1>2. m \in 1 .. MaxShared
  BY SMT, <1>1 DEF Sharing
<1>3. W = {}
  BY SMT, <1>2 DEF LockOk, Locked, MaxShared
<1>4. Sharing(k) = Sharing(m) - 1 /\ k # Evicted
  <2>1. CASE m = 1
    BY SMT, <2>1 DEF Sharing, Marked, MaxShared, Evicted, Fewer
  <2>2. CASE m # 1
    <3>1. (m + 255) % 256 = m - 1 /\ m - 1 \in 1 .. MaxShared
      BY SMT, <1>2, <2>2 DEF MaxShared
    <3>2. k = m - 1
      BY <2>2, <3>1 DEF Fewer
    <3> QED BY SMT, <1>2, <3>1, <3>2 DEF Sharing, MaxShared, Evicted
  <2> QED BY <2>1, <2>2
<1> QED BY <1>1, <1>2, <1>3, <1>4 DEF LockOk

-----------------------------------------------------------------------------
(* Steps of a client: what they leave alone. *)

Same(g) ==
    /\ pc'[g] = pc[g] /\ mode'[g] = mode[g] /\ exact'[g] = exact[g]
    /\ pid'[g] = pid[g] /\ bid'[g] = bid[g] /\ seen'[g] = seen[g]
Others(f) == \A g \in Fibers \ {f} : Same(g)
Spares(f) ==
    /\ Others(f)
    /\ \A p \in Pids : \/ page_table'[p] = page_table[p]
                       \/ p = pid[f] /\ pc[f] = "insert" /\ page_table[p] = NoBid
    /\ \A p \in Pids : \/ committed'[p] = committed[p]
                       \/ p = pid[f] /\ pc[f] = "hold" /\ Exclusive(f)
    /\ \A b \in Bids : \/ framePid'[b] = framePid[b]
                       \/ b = bid[f] /\ pc[f] = "setPid"
    /\ \A b \in Bids : \/ meta'[b] = meta[b]
                       \/ /\ b = bid[f] /\ Writers(b) \subseteq {f}
                          /\ meta'[b].evicting => meta[b].evicting
    /\ linked' = linked \/ (pc[f] = "unlocking" /\ linked' = linked \cup {pid[f]})
    /\ allocCount' \in {allocCount, allocCount + 1}
    /\ UNCHANGED disk

LEMMA TypeFacts ==
    ASSUME TypeInv
    PROVE  /\ \A f \in Fibers : /\ pc[f] \in FixStates => pid[f] \in Pids /\ bid[f] \in Bids
                                /\ Loading(f) => pid[f] \in Pids /\ bid[f] \in Bids
                                /\ Excludes(pc[f], mode[f]) => pid[f] \in Pids /\ bid[f] \in Bids
                                /\ Shares(pc[f], mode[f]) => pid[f] \in Pids /\ bid[f] \in Bids
           /\ \A b \in Bids : meta[b] \in Word /\ meta[b].mode \in 0 .. 255
           /\ allocCount \in Nat /\ Pids \subseteq Nat
<1>1. \A b \in Bids : meta[b] \in Word /\ meta[b].mode \in 0 .. 255
  BY DEF TypeInv, TypeOK, PoolTypes, Word
<1>2. allocCount \in Nat /\ Pids \subseteq Nat
  BY SMT DEF TypeInv, TypeOK, AllocTypes, Pids
<1>3. ASSUME NEW f \in Fibers
      PROVE  /\ pc[f] \in FixStates => pid[f] \in Pids /\ bid[f] \in Bids
             /\ Loading(f) => pid[f] \in Pids /\ bid[f] \in Bids
             /\ Excludes(pc[f], mode[f]) => pid[f] \in Pids /\ bid[f] \in Bids
             /\ Shares(pc[f], mode[f]) => pid[f] \in Pids /\ bid[f] \in Bids
  <2>1. pc[f] \notin {"idle", "alloc", "lookup", "fault"} => pid[f] \in Pids /\ bid[f] \in Bids
    BY DEF TypeInv, ClientRefs
  <2>2. pc[f] \in FixStates \/ Loading(f) \/ Excludes(pc[f], mode[f]) \/ Shares(pc[f], mode[f])
        => pc[f] \notin {"idle", "alloc", "lookup", "fault"}
    BY DEF FixStates, Loading, LoadStates, Excludes, Shares
  <2> QED BY <2>1, <2>2
<1> QED BY <1>1, <1>2, <1>3

(* A writer has its frame for itself. *)
LEMMA WriterAlone ==
    ASSUME PoolInv, NEW f \in Fibers, Excludes(pc[f], mode[f])
    PROVE  /\ bid[f] \in Bids /\ meta[bid[f]].mode = Locked
           /\ Readers(bid[f]) = {} /\ Writers(bid[f]) = {f}
           /\ \A g \in Fibers : Excludes(pc[g], mode[g]) /\ bid[g] = bid[f] => g = f
           /\ \A g \in Fibers : Shares(pc[g], mode[g]) => bid[g] # bid[f]
<1>1. bid[f] \in Bids /\ meta[bid[f]].mode \in 0 .. 255
  BY TypeFacts DEF PoolInv, FrameInv
<1>2. f \in Writers(bid[f]) /\ LockOk(Readers(bid[f]), Writers(bid[f]), meta[bid[f]].mode)
  BY <1>1 DEF Writers, PoolInv, Safe, Locks
<1>3. Readers(bid[f]) = {} /\ Writers(bid[f]) = {f} /\ meta[bid[f]].mode = Locked
  <2> DEFINE R == Readers(bid[f])  W == Writers(bid[f])  m == meta[bid[f]].mode
  <2>1. f \in W /\ LockOk(R, W, m) /\ m \in 0 .. 255
    BY <1>1, <1>2
  <2> HIDE DEF R, W, m
  <2>2. R = {} /\ W = {f} /\ m = Locked
    BY <2>1, LockHeld
  <2> QED BY <2>2 DEF R, W, m
<1>4. \A g \in Fibers : Excludes(pc[g], mode[g]) /\ bid[g] = bid[f] => g = f
  BY <1>3 DEF Writers
<1>5. \A g \in Fibers : Shares(pc[g], mode[g]) => bid[g] # bid[f]
  BY <1>3 DEF Readers
<1> QED BY <1>1, <1>3, <1>4, <1>5, ZenonT(30)

LEMMA OthersFine ==
    ASSUME PoolInv, NEW f \in Fibers, Spares(f), NEW g \in Fibers \ {f}
    PROVE  Fine(g)'
<1>1. Same(g) /\ Fine(g) /\ Fine(f)
  BY DEF Spares, Others, PoolInv, Safe
<1>2. /\ pc[g] \in FixStates => pid[g] \in Pids /\ bid[g] \in Bids
      /\ Loading(g) => pid[g] \in Pids /\ bid[g] \in Bids
      /\ Excludes(pc[g], mode[g]) => pid[g] \in Pids /\ bid[g] \in Bids
  BY TypeFacts DEF PoolInv, FrameInv
<1>3. New(g) /\ pc[f] \in {"insert", "hold", "unlocking"} => pid[g] # pid[f]
  <2>1. SUFFICES ASSUME New(g), pc[f] \in {"insert", "hold", "unlocking"} PROVE pid[g] # pid[f]
    OBVIOUS
  <2>2. CASE mode[f] = "A"
    BY <2>1, <2>2 DEF New, PoolInv, Safe, Distinct
  <2>3. CASE mode[f] # "A"
    BY <1>1, <2>1, <2>3 DEF Fine
  <2> QED BY <2>2, <2>3
<1>a. linked' = linked \/ (pc[f] = "unlocking" /\ linked' = linked \cup {pid[f]})
  BY DEF Spares
<1>4. New(g)' <=> New(g)
  BY <1>1 DEF Same, New
<1>5. Loading(g)' <=> Loading(g)
  BY <1>1 DEF Same, Loading
<1>6. ModeOk(pc[g], mode[g])'
  BY <1>1 DEF Same, Fine
<1>7. (pc[g] # "idle" /\ mode[g] # "A" => pid[g] \in linked)'
  BY SMT, <1>1, <1>a DEF Same, Fine
<1>8. (New(g) => pid[g] < allocCount /\ pid[g] \notin linked)'
  <2>1. SUFFICES ASSUME New(g) PROVE pid[g] < allocCount' /\ pid[g] \notin linked'
    BY <1>1, <1>4 DEF Same
  <2>2. pid[g] < allocCount /\ pid[g] \notin linked
    BY <1>1, <2>1 DEF Fine
  <2>3. pid[g] \in Nat /\ allocCount \in Nat
    BY SMT DEF PoolInv, FrameInv, TypeInv, TypeOK, FixTypes, AllocTypes
  <2>4. pid[g] < allocCount'
    BY SMT, <2>2, <2>3 DEF Spares
  <2>5. pid[g] \notin linked'
    BY <2>1, <2>2, <1>3, <1>a
  <2> QED BY <2>4, <2>5
<1>9. (New(g) /\ Loading(g) => page_table[pid[g]] = NoBid /\ committed[pid[g]] = 0)'
  <2>1. SUFFICES ASSUME New(g), Loading(g)
                 PROVE  page_table'[pid[g]] = NoBid /\ committed'[pid[g]] = 0
    BY <1>1, <1>4, <1>5 DEF Same
  <2>2. page_table[pid[g]] = NoBid /\ committed[pid[g]] = 0 /\ pid[g] \in Pids
    BY <1>1, <1>2, <2>1 DEF Fine
  <2> QED BY <2>1, <2>2, <1>3 DEF Spares
<1>10. (pc[g] \in FixStates => page_table[pid[g]] = bid[g])'
  <2>1. SUFFICES ASSUME pc[g] \in FixStates PROVE page_table'[pid[g]] = bid[g]
    BY <1>1 DEF Same
  <2>2. page_table[pid[g]] = bid[g] /\ pid[g] \in Pids /\ bid[g] # NoBid
    BY <1>1, <1>2, <2>1, BidAssumption DEF Fine
  <2> QED BY <2>2 DEF Spares
<1>11. (pc[g] \in {"insert", "undo"} => framePid[bid[g]] = pid[g])'
  <2>1. SUFFICES ASSUME pc[g] \in {"insert", "undo"} PROVE framePid'[bid[g]] = pid[g]
    BY <1>1 DEF Same
  <2>2. Loading(g) /\ framePid[bid[g]] = pid[g] /\ bid[g] \in Bids
    BY <1>1, <1>2, <2>1 DEF Fine, Loading, LoadStates
  <2>3. pc[f] = "setPid" => bid[g] # bid[f]
    <3>1. pc[f] = "setPid" => Loading(f)
      BY DEF Loading, LoadStates
    <3> QED BY <2>2, <3>1 DEF PoolInv, FrameInv, FrameConservation, LoadingIsPrivate
  <2> QED BY <2>2, <2>3 DEF Spares
<1>12. WordOk(pc[g], mode[g], seen[g], meta[bid[g]])'
  <2>1. WordOk(pc[g], mode[g], seen[g], meta[bid[g]])
    BY <1>1 DEF Fine
  <2>2. Excludes(pc[g], mode[g]) => meta'[bid[g]] = meta[bid[g]]
    <3>1. Excludes(pc[g], mode[g]) => g \in Writers(bid[g])
      BY DEF Writers
    <3> QED BY <1>2, <3>1 DEF Spares
  <2>3. pc[g] = "cas" => ~meta'[bid[g]].evicting
    <3>1. pc[g] = "cas" => bid[g] \in Bids /\ ~meta[bid[g]].evicting
      BY <1>2, <2>1 DEF FixStates, WordOk
    <3> QED BY <3>1 DEF Spares
  <2>4. WordOk(pc[g], mode[g], seen[g], meta'[bid[g]])
    <3>1. mode[g] = "X" /\ pc[g] \in {"recheck", "hold", "wrote", "unlocking"} => Excludes(pc[g], mode[g])
      BY DEF Excludes
    <3>2. mode[g] = "A" /\ pc[g] \in {"setPid", "insert", "hold", "wrote", "unlocking"} => Excludes(pc[g], mode[g])
      BY DEF Excludes
    <3> QED BY <2>1, <2>2, <2>3, <3>1, <3>2 DEF WordOk
  <2> QED BY <1>1, <2>4 DEF Same
<1>13. (pc[g] = "reading" => disk[pid[g]] = Latest(pid[g]))'
  <2>1. SUFFICES ASSUME pc[g] = "reading" PROVE disk[pid[g]] = [page |-> pid[g], writes |-> committed'[pid[g]]]
    BY <1>1 DEF Same, Latest, Spares
  <2>2. disk[pid[g]] = [page |-> pid[g], writes |-> committed[pid[g]]] /\ pid[g] \in Pids
    BY <1>1, <1>2, <2>1 DEF Fine, Latest, Excludes
  <2>3. committed'[pid[g]] = committed[pid[g]]
    <3>1. SUFFICES ASSUME pid[f] = pid[g], pc[f] = "hold", Exclusive(f) PROVE FALSE
      BY <2>2 DEF Spares
    <3>2. page_table[pid[f]] = bid[f] /\ page_table[pid[g]] = bid[g]
      BY <1>1, <2>1, <3>1 DEF Fine, FixStates
    <3>3. Excludes(pc[f], mode[f]) /\ Excludes(pc[g], mode[g])
      BY <2>1, <3>1 DEF Excludes, Exclusive
    <3> QED BY <3>1, <3>2, <3>3, WriterAlone
  <2> QED BY <2>2, <2>3
<1> QED BY <1>6, <1>7, <1>8, <1>9, <1>10, <1>11, <1>12, <1>13 DEF Fine

-----------------------------------------------------------------------------
(* What keeps each part of the invariant. *)

LEMMA LockSets ==
    ASSUME NEW f \in Fibers, Others(f), NEW b
    PROVE  /\ Readers(b)' = (Readers(b) \ {f}) \cup
                            (IF Shares(pc'[f], mode'[f]) /\ bid'[f] = b THEN {f} ELSE {})
           /\ Writers(b)' = (Writers(b) \ {f}) \cup
                            (IF Excludes(pc'[f], mode'[f]) /\ bid'[f] = b THEN {f} ELSE {})
<1>1. \A g \in Fibers \ {f} : /\ Shares(pc'[g], mode'[g]) <=> Shares(pc[g], mode[g])
                              /\ Excludes(pc'[g], mode'[g]) <=> Excludes(pc[g], mode[g])
                              /\ bid'[g] = bid[g]
  BY DEF Others, Same
<1>2. Readers(b)' = {g \in Fibers : Shares(pc'[g], mode'[g]) /\ bid'[g] = b}
  BY DEF Readers
<1>3. Writers(b)' = {g \in Fibers : Excludes(pc'[g], mode'[g]) /\ bid'[g] = b}
  BY DEF Writers
<1>4. Readers(b)' = (Readers(b) \ {f}) \cup
                    (IF Shares(pc'[f], mode'[f]) /\ bid'[f] = b THEN {f} ELSE {})
  BY <1>1, <1>2 DEF Readers
<1>5. Writers(b)' = (Writers(b) \ {f}) \cup
                    (IF Excludes(pc'[f], mode'[f]) /\ bid'[f] = b THEN {f} ELSE {})
  BY <1>1, <1>3 DEF Writers
<1> QED BY <1>4, <1>5

LEMMA LocksSame ==
    ASSUME Locks,
           \A b \in Bids :
              /\ Readers(b)' = Readers(b) /\ Writers(b)' = Writers(b)
              /\ \/ meta'[b].mode = meta[b].mode
                 \/ meta[b].mode \in {Unlocked, Marked} /\ meta'[b].mode \in {Unlocked, Marked}
    PROVE  Locks'
<1>1. SUFFICES ASSUME NEW b \in Bids PROVE LockOk(Readers(b)', Writers(b)', meta'[b].mode)
  BY DEF Locks
<1> DEFINE R == Readers(b)  W == Writers(b)  m == meta[b].mode  k == meta'[b].mode
<1>2. LockOk(R, W, m) /\ (k = m \/ (m \in {Unlocked, Marked} /\ k \in {Unlocked, Marked}))
  BY DEF Locks
<1> HIDE DEF R, W, m, k
<1>3. LockOk(R, W, k)
  BY SMT, <1>2, LockFree
<1> QED BY <1>3 DEF R, W, k

LEMMA LocksAt ==
    ASSUME Locks, NEW f \in Fibers, Others(f), NEW b \in Bids, bid[f] = b,
           \A c \in Bids \ {b} : meta'[c].mode = meta[c].mode,
           Shares(pc'[f], mode'[f]) \/ Excludes(pc'[f], mode'[f]) => bid'[f] = b,
           LockOk(Readers(b)', Writers(b)', meta'[b].mode)
    PROVE  Locks'
<1>1. SUFFICES ASSUME NEW c \in Bids PROVE LockOk(Readers(c)', Writers(c)', meta'[c].mode)
  BY DEF Locks
<1>2. CASE c # b
  <2>1. Readers(c)' = Readers(c) /\ Writers(c)' = Writers(c)
    <3>1. f \notin Readers(c) /\ f \notin Writers(c)
      BY <1>2 DEF Readers, Writers
    <3>2. ~(Shares(pc'[f], mode'[f]) /\ bid'[f] = c) /\ ~(Excludes(pc'[f], mode'[f]) /\ bid'[f] = c)
      BY <1>2
    <3>3. Readers(c)' = (Readers(c) \ {f}) \cup {} /\ Writers(c)' = (Writers(c) \ {f}) \cup {}
      BY <3>2, LockSets
    <3> QED BY <3>1, <3>3
  <2> QED BY <1>2, <2>1 DEF Locks
<1> QED BY <1>2

LEMMA ClaimsSame ==
    ASSUME Claims, Owned, UNCHANGED <<meta, evictVars>>
    PROVE  Claims' /\ Owned'
BY DEF Claims, Owned, evictVars, Claimed, Reclaimable

LEMMA ClaimsKeep ==
    ASSUME PoolInv, UNCHANGED evictVars, \A w \in Workers : epc[w] \notin BusyStates,
           \A b \in Bids : \/ meta'[b] = meta[b]
                           \/ /\ \A w \in Workers : b \notin Claimed(w)
                              /\ meta'[b].evicting => meta[b].evicting
    PROVE  Claims' /\ Owned'
<1>1. \A w \in Workers : Claimed(w)' = Claimed(w) /\ Claimed(w) \subseteq Bids
  BY DEF evictVars, Claimed, PoolInv, FrameInv, TypeInv, TypeOK, EvictTypes
<1>2. \A w \in Workers : epc'[w] \notin BusyStates /\ unwritten' = unwritten /\ toWrite' = toWrite /\ epc' = epc
  BY DEF evictVars
<1>3. \A w \in Workers, b \in Bids : b \in Claimed(w) => meta'[b] = meta[b]
  OBVIOUS
<1>4. Claims'
  <2>1. SUFFICES ASSUME NEW w \in Workers
                 PROVE  /\ \A b \in Claimed(w) : meta'[b].evicting /\ ~meta'[b].dirty /\ Reclaimable(b)'
                        /\ epc'[w] \notin {"unmark", "claim", "collect", "erase", "commit"}
                        /\ unwritten[w] \subseteq toWrite[w]
                        /\ epc[w] # "writing" => unwritten[w] = {}
    BY <1>1, <1>2 DEF Claims
  <2>2. epc'[w] \notin {"unmark", "claim", "collect", "erase", "commit"}
    BY <1>2 DEF BusyStates, SweepStates
  <2>3. \A b \in Claimed(w) : meta'[b].evicting /\ ~meta'[b].dirty /\ Reclaimable(b)'
    BY <1>1, <1>3 DEF PoolInv, Safe, Claims, Reclaimable
  <2> QED BY <2>2, <2>3 DEF PoolInv, Safe, Claims
<1>5. Owned'
  <2>1. \A b \in Bids : meta'[b].evicting => meta[b].evicting
    OBVIOUS
  <2>2. \A b \in Bids : meta[b].evicting => \E w \in Workers : b \in Claimed(w)
    BY DEF PoolInv, Safe, Owned, BusyStates, SweepStates
  <2>3. \A b \in Bids : meta'[b].evicting => \E w \in Workers : b \in Claimed(w)'
    BY SMT, <1>1, <2>1, <2>2
  <2> QED BY <2>3 DEF Owned
<1> QED BY <1>4, <1>5

LEMMA ContentKeep ==
    ASSUME OnDisk, InFrame, UNCHANGED <<page_table, data, disk, committed, evictVars>>,
           \A p \in linked' : p \in linked \/ page_table[p] # NoBid,
           \A p \in Pids : page_table[p] # NoBid =>
              /\ BeingRead(page_table[p]) => BeingRead(page_table[p])'
              /\ meta[page_table[p]].dirty => meta'[page_table[p]].dirty
    PROVE  OnDisk' /\ InFrame'
<1>1. \A p : Latest(p)' = Latest(p)
  BY DEF Latest
<1>2. \A w \in Workers : \A b : Pending(w, b)' <=> Pending(w, b)
  BY DEF Pending, evictVars
<1>3. OnDisk'
  BY <1>1 DEF OnDisk
<1>4. InFrame'
  <2>1. SUFFICES ASSUME NEW p \in Pids, page_table[p] # NoBid
                 PROVE  /\ BeingRead(page_table[p])' \/ data[page_table[p]] = Latest(p)
                        /\ \/ meta'[page_table[p]].dirty
                           \/ disk[p] = Latest(p)
                           \/ \E w \in Workers : Pending(w, page_table[p])
    BY <1>1, <1>2 DEF InFrame
  <2> QED BY <2>1 DEF InFrame
<1> QED BY <1>3, <1>4

LEMMA DistinctKeeps ==
    ASSUME Distinct, NEW f \in Fibers, Others(f), New(f)' => New(f) /\ pid'[f] = pid[f]
    PROVE  Distinct'
<1>1. \A g \in Fibers : New(g)' => New(g) /\ pid'[g] = pid[g]
  BY DEF Others, Same, New
<1> QED BY <1>1 DEF Distinct

PoolSame == UNCHANGED <<page_table, meta, framePid, linked, data, disk, committed, evictVars>>

(* A step that changes nothing but the client's own state and locks nothing. *)
LEMMA QuietStep ==
    ASSUME PoolInv, NEW f \in Fibers, Others(f), PoolSame, UNCHANGED allocCount,
           Fine(f)', New(f)' => New(f) /\ pid'[f] = pid[f],
           Shares(pc'[f], mode'[f]) <=> Shares(pc[f], mode[f]),
           Excludes(pc'[f], mode'[f]) <=> Excludes(pc[f], mode[f]),
           Shares(pc[f], mode[f]) \/ Excludes(pc[f], mode[f]) => bid'[f] = bid[f],
           pc[f] = "reading" => pc'[f] = "reading"
    PROVE  Safe'
<1>1. \A g \in Fibers : Fine(g)'
  <2>1. Spares(f)
    BY DEF Spares, PoolSame
  <2> QED BY <2>1, OthersFine
<1>2. Framed' /\ Unused'
  BY DEF PoolSame, Framed, Unused, PoolInv, Safe
<1>3. Distinct'
  BY DistinctKeeps DEF PoolInv, Safe
<1>4. Locks'
  <2>1. \A b \in Bids : Readers(b)' = Readers(b) /\ Writers(b)' = Writers(b)
    <3>1. TAKE b \in Bids
    <3>2. f \in Readers(b) <=> (Shares(pc'[f], mode'[f]) /\ bid'[f] = b)
      BY DEF Readers
    <3>3. f \in Writers(b) <=> (Excludes(pc'[f], mode'[f]) /\ bid'[f] = b)
      BY DEF Writers
    <3> QED BY SMT, <3>2, <3>3, LockSets
  <2> QED BY <2>1, LocksSame DEF PoolSame, PoolInv, Safe
<1>5. Claims' /\ Owned'
  BY ClaimsSame DEF PoolSame, PoolInv, Safe
<1>6. OnDisk' /\ InFrame'
  <2>1. \A b : BeingRead(b) => BeingRead(b)'
    <3>1. \A g \in Fibers : pc[g] = "reading" => pc'[g] = "reading" /\ bid'[g] = bid[g]
      BY DEF Others, Same, Excludes
    <3> QED BY <3>1 DEF BeingRead
  <2> QED BY <2>1, ContentKeep DEF PoolSame, PoolInv, Safe
<1> QED BY <1>1, <1>2, <1>3, <1>4, <1>5, <1>6 DEF Safe

-----------------------------------------------------------------------------
(* The quiet steps of a client: it gives up, it is on its way to a lock, or *)
(* it keeps what it has.                                                    *)

LooseStates == {"idle", "lookup", "load", "flags", "cas", "guard", "fault", "giveBack", "alloc"}

LEMMA LooseLocks ==
    ASSUME NEW l \in LooseStates, NEW m
    PROVE  ~Shares(l, m) /\ ~Excludes(l, m) /\ l # "reading"
BY DEF LooseStates, Shares, Excludes

LEMMA LeavesOk ==
    ASSUME PoolInv, NEW f \in Fibers, Others(f), PoolSame, UNCHANGED allocCount,
           pc[f] \in LooseStates, pc'[f] = "idle", mode'[f] = "S"
    PROVE  Safe'
<1>1. "idle" \in LooseStates
  BY DEF LooseStates
<1>2. /\ Shares(pc'[f], mode'[f]) <=> Shares(pc[f], mode[f])
      /\ Excludes(pc'[f], mode'[f]) <=> Excludes(pc[f], mode[f])
      /\ Shares(pc[f], mode[f]) \/ Excludes(pc[f], mode[f]) => bid'[f] = bid[f]
      /\ pc[f] = "reading" => pc'[f] = "reading"
  BY <1>1, LooseLocks
<1>3. ~New(f)'
  BY DEF New
<1>4. Fine(f)'
  BY <1>3 DEF Fine, ModeOk, WordOk, FixStates
<1> QED BY <1>2, <1>3, <1>4, QuietStep

LEMMA WalksOk ==
    ASSUME PoolInv, NEW f \in Fibers, Others(f), PoolSame, UNCHANGED allocCount,
           pc[f] \in LooseStates, mode'[f] # "A", pid'[f] \in linked,
           \/ pc'[f] \in {"lookup", "fault"}
           \/ pc'[f] \in {"load", "flags"} /\ page_table[pid'[f]] = bid'[f]
           \/ pc'[f] = "cas" /\ page_table[pid'[f]] = bid'[f] /\ ~meta[bid'[f]].evicting
    PROVE  Safe'
<1>1. pc'[f] \in {"lookup", "fault", "load", "flags", "cas"} /\ pc'[f] \in LooseStates
  BY DEF LooseStates
<1>2. /\ Shares(pc'[f], mode'[f]) <=> Shares(pc[f], mode[f])
      /\ Excludes(pc'[f], mode'[f]) <=> Excludes(pc[f], mode[f])
      /\ Shares(pc[f], mode[f]) \/ Excludes(pc[f], mode[f]) => bid'[f] = bid[f]
      /\ pc[f] = "reading" => pc'[f] = "reading"
  BY <1>1, LooseLocks
<1>3. ~New(f)'
  BY DEF New
<1>4. Fine(f)'
  <2>1. ModeOk(pc[f], mode[f])'
    BY <1>1 DEF ModeOk
  <2>2. (pc[f] \in FixStates => page_table[pid[f]] = bid[f])'
    BY DEF FixStates, PoolSame
  <2>3. WordOk(pc[f], mode[f], seen[f], meta[bid[f]])'
    BY <1>1 DEF WordOk, PoolSame
  <2>4. pid'[f] \in linked'
    BY DEF PoolSame
  <2>5. pc'[f] \notin {"insert", "undo", "reading"}
    BY <1>1
  <2> QED BY <1>3, <2>1, <2>2, <2>3, <2>4, <2>5 DEF Fine
<1> QED BY <1>2, <1>3, <1>4, QuietStep

LEMMA AsksOk ==
    ASSUME PoolInv, NEW f \in Fibers, Others(f), PoolSame, UNCHANGED allocCount,
           pc[f] \in LooseStates, mode'[f] = "A", pc'[f] = "alloc"
    PROVE  Safe'
<1>1. "alloc" \in LooseStates
  BY DEF LooseStates
<1>2. /\ Shares(pc'[f], mode'[f]) <=> Shares(pc[f], mode[f])
      /\ Excludes(pc'[f], mode'[f]) <=> Excludes(pc[f], mode[f])
      /\ Shares(pc[f], mode[f]) \/ Excludes(pc[f], mode[f]) => bid'[f] = bid[f]
      /\ pc[f] = "reading" => pc'[f] = "reading"
  BY <1>1, LooseLocks
<1>3. ~New(f)'
  BY DEF New
<1>4. Fine(f)'
  BY <1>3 DEF Fine, ModeOk, AllocStates, WordOk, FixStates
<1> QED BY <1>2, <1>3, <1>4, QuietStep

LEMMA StaysOk ==
    ASSUME PoolInv, NEW f \in Fibers, Others(f), PoolSame, UNCHANGED allocCount,
           mode'[f] = mode[f], pid'[f] = pid[f], bid'[f] = bid[f], seen'[f] = seen[f],
           \/ pc'[f] = pc[f]
           \/ pc[f] = "recheck" /\ mode[f] \in {"S", "X"} /\ pc'[f] = "hold"
           \/ pc[f] = "recheck" /\ mode[f] = "O" /\ pc'[f] = "guard"
    PROVE  Safe'
<1>1. CASE pc'[f] = pc[f]
  <2>1. Fine(f)' <=> Fine(f)
    BY <1>1 DEF Fine, PoolSame, New, Loading, Latest
  <2>2. New(f)' <=> New(f)
    BY <1>1 DEF New
  <2> QED BY <1>1, <2>1, <2>2, QuietStep DEF PoolInv, Safe
<1>2. CASE pc[f] = "recheck" /\ mode[f] \in {"S", "X"} /\ pc'[f] = "hold"
  <2>1. ~New(f)'
    BY <1>2 DEF New
  <2>2. Fine(f)'
    <3>1. Fine(f)
      BY DEF PoolInv, Safe
    <3>2. ModeOk(pc[f], mode[f])' /\ WordOk(pc[f], mode[f], seen[f], meta[bid[f]])'
      BY <1>2, <3>1 DEF ModeOk, WordOk, PoolSame, Fine
    <3> QED BY <1>2, <2>1, <3>1, <3>2 DEF Fine, FixStates, PoolSame
  <2>3. /\ Shares(pc'[f], mode'[f]) <=> Shares(pc[f], mode[f])
        /\ Excludes(pc'[f], mode'[f]) <=> Excludes(pc[f], mode[f])
    BY <1>2 DEF Shares, Excludes
  <2> QED BY <1>2, <2>1, <2>2, <2>3, QuietStep
<1>3. CASE pc[f] = "recheck" /\ mode[f] = "O" /\ pc'[f] = "guard"
  <2>1. ~New(f)'
    BY <1>3 DEF New
  <2>2. Fine(f)'
    <3>1. Fine(f)
      BY DEF PoolInv, Safe
    <3>2. ModeOk(pc[f], mode[f])' /\ WordOk(pc[f], mode[f], seen[f], meta[bid[f]])'
      BY <1>3, <3>1 DEF ModeOk, WordOk, PoolSame, Fine
    <3> QED BY <1>3, <2>1, <3>1, <3>2 DEF Fine, FixStates, PoolSame
  <2>3. /\ Shares(pc'[f], mode'[f]) <=> Shares(pc[f], mode[f])
        /\ Excludes(pc'[f], mode'[f]) <=> Excludes(pc[f], mode[f])
    BY <1>3 DEF Shares, Excludes
  <2> QED BY <1>3, <2>1, <2>2, <2>3, QuietStep
<1> QED BY <1>1, <1>2, <1>3

-----------------------------------------------------------------------------
(* Steps that store a word: nobody else relies on the old one. *)

LEMMA ReclaimableFree ==
    ASSUME PoolInv, NEW b \in Bids, Reclaimable(b)
    PROVE  Readers(b) = {} /\ Writers(b) = {}
<1> DEFINE R == Readers(b)  W == Writers(b)  m == meta[b].mode
<1>1. LockOk(R, W, m) /\ m \in {Unlocked, Marked}
  BY DEF PoolInv, Safe, Locks, Reclaimable
<1> HIDE DEF R, W, m
<1>2. R = {} /\ W = {}
  BY <1>1, LockFree
<1> QED BY <1>2 DEF R, W

LEMMA Unclaimed ==
    ASSUME PoolInv, NEW f \in Fibers, \A w \in Workers : epc[w] \notin BusyStates,
           \/ pc[f] = "cas" \/ Loading(f)
           \/ Shares(pc[f], mode[f]) \/ Excludes(pc[f], mode[f])
    PROVE  \A w \in Workers : bid[f] \notin Claimed(w)
<1>1. SUFFICES ASSUME NEW w \in Workers, bid[f] \in Claimed(w) PROVE FALSE
  OBVIOUS
<1>2. meta[bid[f]].evicting /\ Reclaimable(bid[f])
  BY <1>1 DEF PoolInv, Safe, Claims
<1>3. bid[f] \in Bids
  BY <1>1 DEF Claimed, PoolInv, FrameInv, TypeInv, TypeOK, EvictTypes
<1>4. pc[f] # "cas"
  BY <1>2 DEF PoolInv, Safe, Fine, WordOk
<1>5. ~Loading(f)
  <2>1. epc[w] # "commit"
    BY DEF BusyStates, SweepStates
  <2>2. framePid[bid[f]] \in Pids /\ page_table[framePid[bid[f]]] = bid[f]
    BY <1>1, <2>1 DEF PoolInv, FrameInv, ClaimedStaysMapped, Mine
  <2> QED BY <2>2 DEF PoolInv, FrameInv, FrameConservation, LoadingIsPrivate
<1>6. f \notin Readers(bid[f]) /\ f \notin Writers(bid[f])
  BY <1>2, <1>3, ReclaimableFree
<1> QED BY <1>4, <1>5, <1>6 DEF Readers, Writers

LEMMA WordStep ==
    ASSUME PoolInv, NEW f \in Fibers, Others(f), NEW b \in Bids, bid[f] = b,
           UNCHANGED <<page_table, framePid, allocCount, data, disk, committed, evictVars>>,
           linked' = linked \/ (pc[f] = "unlocking" /\ linked' = linked \cup {pid[f]}),
           \A c \in Bids \ {b} : meta'[c] = meta[c], Writers(b) \subseteq {f},
           meta'[b].evicting => meta[b].evicting,
           \A w \in Workers : epc[w] \notin BusyStates,
           \/ pc[f] = "cas" \/ Loading(f)
           \/ Shares(pc[f], mode[f]) \/ Excludes(pc[f], mode[f]),
           Fine(f)', New(f)' => New(f) /\ pid'[f] = pid[f], pc[f] # "reading",
           Shares(pc'[f], mode'[f]) \/ Excludes(pc'[f], mode'[f]) => bid'[f] = b,
           LockOk(Readers(b)', Writers(b)', meta'[b].mode),
           meta[b].dirty => meta'[b].dirty \/ Loading(f)
    PROVE  Safe'
<1>1. \A g \in Fibers : Fine(g)'
  <2>1. Spares(f)
    BY DEF Spares
  <2> QED BY <2>1, OthersFine
<1>2. Framed'
  BY DEF Framed, PoolInv, Safe
<1>a. pc[f] = "unlocking" => pid[f] \in Pids /\ pid[f] < allocCount /\ page_table[pid[f]] # NoBid
  <2>1. SUFFICES ASSUME pc[f] = "unlocking"
                 PROVE  pid[f] \in Pids /\ pid[f] < allocCount /\ page_table[pid[f]] # NoBid
    OBVIOUS
  <2>2. Fine(f)
    BY DEF PoolInv, Safe
  <2>3. pid[f] \in Pids /\ page_table[pid[f]] = b
    BY <2>1, <2>2, TypeFacts DEF Fine, FixStates, PoolInv, FrameInv
  <2>4. pid[f] < allocCount
    BY <2>1, <2>2 DEF Fine, New, Unused, PoolInv, Safe
  <2> QED BY <2>3, <2>4, BidAssumption, ZenonT(40)
<1>3. Unused'
  <2>1. \A p \in linked' : p < allocCount
    BY <1>a DEF Unused, PoolInv, Safe
  <2> QED BY <2>1, ZenonT(40) DEF Unused, PoolInv, Safe
<1>4. Distinct'
  BY DistinctKeeps DEF PoolInv, Safe
<1>5. Locks'
  <2>1. \A c \in Bids \ {b} : meta'[c].mode = meta[c].mode
    OBVIOUS
  <2> QED BY <2>1, LocksAt DEF PoolInv, Safe
<1>6. Claims' /\ Owned'
  <2>1. \A w \in Workers : b \notin Claimed(w)
    BY Unclaimed
  <2>2. \A c \in Bids : \/ meta'[c] = meta[c]
                        \/ /\ \A w \in Workers : c \notin Claimed(w)
                           /\ meta'[c].evicting => meta[c].evicting
    BY <2>1
  <2> QED BY <2>2, ClaimsKeep
<1>7. OnDisk' /\ InFrame'
  <2>1. \A c : BeingRead(c) => BeingRead(c)'
    <3>1. \A g \in Fibers : pc[g] = "reading" => pc'[g] = "reading" /\ bid'[g] = bid[g]
      BY DEF Others, Same
    <3> QED BY <3>1 DEF BeingRead
  <2>2. \A p \in linked' : p \in linked \/ page_table[p] # NoBid
    BY <1>a
  <2>3. \A p \in Pids : page_table[p] # NoBid /\ meta[page_table[p]].dirty => meta'[page_table[p]].dirty
    <3>1. SUFFICES ASSUME NEW p \in Pids, page_table[p] # NoBid, meta[page_table[p]].dirty
                   PROVE  meta'[page_table[p]].dirty
      OBVIOUS
    <3>2. page_table[p] \in Bids
      BY <3>1 DEF PoolInv, FrameInv, TypeInv, TypeOK, PoolTypes
    <3>3. Loading(f) => page_table[p] # b
      BY DEF PoolInv, FrameInv, FrameConservation, LoadingIsPrivate
    <3> QED BY <3>1, <3>2, <3>3
  <2> QED BY <2>1, <2>2, <2>3, ContentKeep DEF PoolInv, Safe
<1> QED BY <1>1, <1>2, <1>3, <1>4, <1>5, <1>6, <1>7 DEF Safe

-----------------------------------------------------------------------------
(* The steps of the clients. *)

LEMMA Updates ==
    ASSUME PoolInv, NEW f \in Fibers
    PROVE  \A x : /\ pc' = [pc EXCEPT ![f] = x] => pc'[f] = x /\ \A g \in Fibers \ {f} : pc'[g] = pc[g]
                  /\ mode' = [mode EXCEPT ![f] = x] => mode'[f] = x /\ \A g \in Fibers \ {f} : mode'[g] = mode[g]
                  /\ exact' = [exact EXCEPT ![f] = x] => exact'[f] = x /\ \A g \in Fibers \ {f} : exact'[g] = exact[g]
                  /\ pid' = [pid EXCEPT ![f] = x] => pid'[f] = x /\ \A g \in Fibers \ {f} : pid'[g] = pid[g]
                  /\ bid' = [bid EXCEPT ![f] = x] => bid'[f] = x /\ \A g \in Fibers \ {f} : bid'[g] = bid[g]
                  /\ seen' = [seen EXCEPT ![f] = x] => seen'[f] = x /\ \A g \in Fibers \ {f} : seen'[g] = seen[g]
BY DEF PoolInv, FrameInv, TypeInv, TypeOK, ThreadTypes, FixTypes

LEMMA MetaUpdates ==
    ASSUME PoolInv, NEW b \in Bids
    PROVE  \A x : meta' = [meta EXCEPT ![b] = x] => meta'[b] = x /\ \A c \in Bids \ {b} : meta'[c] = meta[c]
BY DEF PoolInv, FrameInv, TypeInv, TypeOK, PoolTypes

(* What a client's step does to the thread: it keeps it, or leaves it at a *)
(* place where it may be parked.                                           *)
Tame(f) ==
    /\ Others(f) /\ UNCHANGED evictVars
    /\ \/ UNCHANGED running
       \/ /\ running' = [running EXCEPT ![WorkerOf[f]] = Idle]
          /\ OneWorker => pc'[f] \in ParkedStates
    /\ OneWorker => mode'[f] # "O" /\ ~exact'[f]

LEMMA FixKept ==
    ASSUME PoolInv, NEW f \in Fibers, NEW l, pc' = [pc EXCEPT ![f] = l], UNCHANGED fixVars
    PROVE  /\ Others(f) /\ pc'[f] = l /\ mode'[f] = mode[f] /\ pid'[f] = pid[f] /\ bid'[f] = bid[f]
           /\ seen'[f] = seen[f]
           /\ OneWorker => mode'[f] # "O" /\ ~exact'[f]
<1>1. pc'[f] = l /\ \A g \in Fibers \ {f} : pc'[g] = pc[g]
  BY Updates
<1>2. UNCHANGED <<mode, exact, pid, bid, seen>>
  BY DEF fixVars
<1>3. OneWorker => mode[f] # "O" /\ ~exact[f]
  BY DEF PoolInv, Turns, Parked
<1> QED BY <1>1, <1>2, <1>3 DEF Others, Same

LEMMA DoneStep ==
    ASSUME PoolInv, NEW f \in Fibers, Done(f), UNCHANGED evictVars
    PROVE  pc'[f] = "idle" /\ mode'[f] = "S" /\ Others(f) /\ Tame(f)
<1>1. pc'[f] = "idle" /\ \A g \in Fibers \ {f} : pc'[g] = pc[g]
  BY Updates DEF Done, YieldTo
<1>2. mode'[f] = "S" /\ \A g \in Fibers \ {f} : mode'[g] = mode[g]
  BY Updates DEF Done
<1>3. exact'[f] = FALSE /\ \A g \in Fibers \ {f} : exact'[g] = exact[g]
  BY Updates DEF Done
<1>4. \A g \in Fibers \ {f} : pid'[g] = pid[g] /\ bid'[g] = bid[g] /\ seen'[g] = seen[g]
  <2>1. pid' = [pid EXCEPT ![f] = NoPid] /\ bid' = [bid EXCEPT ![f] = NoBid] /\ seen' = [seen EXCEPT ![f] = ZeroWord]
    BY DEF Done
  <2> QED BY SMT, <2>1, Updates
<1>5. Others(f)
  BY <1>1, <1>2, <1>3, <1>4 DEF Others, Same
<1>6. running' = [running EXCEPT ![WorkerOf[f]] = Idle] /\ "idle" \in ParkedStates
  BY DEF Done, YieldTo, ParkedStates
<1> QED BY <1>1, <1>2, <1>3, <1>5, <1>6 DEF Tame

LEMMA DoneSafe ==
    ASSUME PoolInv, NEW f \in Fibers, Done(f), PoolSame, UNCHANGED allocCount, pc[f] \in LooseStates
    PROVE  Safe' /\ Tame(f)
<1>1. UNCHANGED evictVars
  BY DEF PoolSame
<1> QED BY <1>1, DoneStep, LeavesOk

(* On the way to a lock a client knows a page that exists, and its frame. *)
LEMMA Resident ==
    ASSUME PoolInv, NEW f \in Fibers, pc[f] \in FixStates
    PROVE  /\ page_table[pid[f]] = bid[f] /\ framePid[bid[f]] = pid[f]
           /\ pid[f] \in Pids /\ bid[f] \in Bids
<1>1. pid[f] \in Pids /\ bid[f] \in Bids
  BY TypeFacts DEF PoolInv, FrameInv
<1>2. page_table[pid[f]] = bid[f]
  BY DEF PoolInv, Safe, Fine
<1>3. bid[f] # NoBid
  BY <1>1, BidAssumption
<1> QED BY <1>1, <1>2, <1>3 DEF PoolInv, Safe, Framed

WalkStates == {"lookup", "load", "flags", "cas", "fault"}

LEMMA Walking ==
    ASSUME PoolInv, NEW f \in Fibers, pc[f] \in WalkStates
    PROVE  mode[f] # "A" /\ pid[f] \in linked /\ pid[f] \in Pids /\ pc[f] \in LooseStates
<1>1. Fine(f)
  BY DEF PoolInv, Safe
<1>2. mode[f] # "A"
  BY <1>1 DEF Fine, ModeOk, AllocStates, WalkStates
<1>3. pid[f] \in linked
  BY <1>1, <1>2 DEF Fine, WalkStates
<1>4. linked \subseteq Pids
  BY DEF PoolInv, FrameInv, TypeInv, TypeOK, AllocTypes
<1> QED BY <1>2, <1>3, <1>4 DEF WalkStates, LooseStates

LEMMA ConflictSafe ==
    ASSUME PoolInv, NEW f \in Fibers, Conflict(f), PoolSame, UNCHANGED allocCount, pc[f] \in {"flags", "cas"}
    PROVE  Safe' /\ Tame(f)
<1>1. pc[f] \in WalkStates /\ pc[f] \in FixStates
  BY DEF WalkStates, FixStates
<1>2. CASE policy[f] = "Restart"
  BY <1>1, <1>2, Walking, DoneSafe DEF Conflict
<1>3. CASE policy[f] # "Restart"
  <2> DEFINE l == IF exact[f] THEN "load" ELSE "lookup"
  <2>1. YieldTo(f, l) /\ UNCHANGED fixVars /\ l \in {"load", "lookup"}
    BY <1>3 DEF Conflict
  <2>2. /\ Others(f) /\ pc'[f] = l /\ mode'[f] = mode[f] /\ pid'[f] = pid[f] /\ bid'[f] = bid[f]
        /\ OneWorker => mode'[f] # "O" /\ ~exact'[f]
    <3> HIDE DEF l
    <3> QED BY <2>1, FixKept DEF YieldTo
  <2>3. Safe'
    BY <1>1, <2>1, <2>2, Walking, Resident, WalksOk
  <2>4. OneWorker => pc'[f] \in ParkedStates
    <3>1. OneWorker => ~exact[f]
      BY DEF PoolInv, Turns, Parked
    <3>2. OneWorker => pc'[f] = "lookup"
      BY <2>2, <3>1
    <3> QED BY <3>2 DEF ParkedStates
  <2> QED BY <2>1, <2>2, <2>3, <2>4 DEF Tame, YieldTo, PoolSame
<1> QED BY <1>2, <1>3

LEMMA BeginSafe ==
    ASSUME PoolInv, NEW f \in Fibers, NEW m, NEW pol, NEW p, NEW l, Begin(f, m, pol, p, l),
           (m # "A" /\ p \in linked /\ l = "lookup") \/ (m = "A" /\ l = "alloc")
    PROVE  Safe' /\ Tame(f)
<1>1. pc'[f] = l /\ \A g \in Fibers \ {f} : pc'[g] = pc[g]
  BY Updates DEF Begin, Goto
<1>2. mode'[f] = m /\ \A g \in Fibers \ {f} : mode'[g] = mode[g]
  BY Updates DEF Begin
<1>3. pid'[f] = p /\ \A g \in Fibers \ {f} : pid'[g] = pid[g]
  BY Updates DEF Begin
<1>4. UNCHANGED <<exact, bid, seen, running, allocCount>> /\ PoolSame
  BY DEF Begin, Goto, PoolSame, poolVars, allocVars, dataVars
<1>5. Others(f)
  BY <1>1, <1>2, <1>3, <1>4 DEF Others, Same
<1>6. pc[f] \in LooseStates
  BY DEF Begin, On, LooseStates
<1>7. Safe'
  BY <1>1, <1>2, <1>3, <1>4, <1>5, <1>6, WalksOk, AsksOk
<1>8. OneWorker => m # "O" /\ ~exact[f]
  BY DEF Begin, OneWorker, PoolInv, Turns, Parked
<1> QED BY <1>2, <1>4, <1>5, <1>7, <1>8 DEF Tame, PoolSame

LEMMA StartSafe ==
    ASSUME PoolInv, NEW f \in Fibers, FixS(f) \/ FixX(f) \/ FixO(f) \/ AllocPage(f)
    PROVE  Safe' /\ Tame(f)
<1>1. \/ \E p \in linked, pol \in {"Wait", "Restart"}, m \in {"S", "X", "O"} : Begin(f, m, pol, p, "lookup")
      \/ Begin(f, "A", "Restart", NoPid, "alloc")
  BY DEF FixS, FixX, FixO, AllocPage
<1>2. ASSUME NEW p \in linked, NEW pol, NEW m \in {"S", "X", "O"}, Begin(f, m, pol, p, "lookup")
      PROVE  Safe' /\ Tame(f)
  BY <1>2, BeginSafe
<1>3. CASE Begin(f, "A", "Restart", NoPid, "alloc")
  BY <1>3, BeginSafe
<1> QED BY <1>1, <1>2, <1>3

LEMMA RestSafe ==
    ASSUME PoolInv, NEW f \in Fibers, Rest(f) \/ HoldYield(f)
    PROVE  Safe' /\ Tame(f)
<1>1. PICK l \in {"idle", "hold", "wrote", "guard"} : On(f, l) /\ YieldTo(f, l)
  BY DEF Rest, HoldYield
<1>2. UNCHANGED <<fixVars, allocCount>> /\ PoolSame
  BY DEF Rest, HoldYield, PoolSame, poolVars, allocVars, dataVars
<1>3. /\ Others(f) /\ pc'[f] = l /\ mode'[f] = mode[f] /\ pid'[f] = pid[f] /\ bid'[f] = bid[f]
      /\ seen'[f] = seen[f] /\ (OneWorker => mode'[f] # "O" /\ ~exact'[f])
  BY <1>1, <1>2, FixKept DEF YieldTo
<1>4. pc'[f] = pc[f]
  BY <1>1, <1>3 DEF On
<1>5. Safe'
  BY <1>2, <1>3, <1>4, StaysOk
<1>6. OneWorker => l # "guard"
  <2>1. ModeOk(pc[f], mode[f])
    BY DEF PoolInv, Safe, Fine
  <2> QED BY <1>3, <1>4, <2>1 DEF ModeOk
<1>7. OneWorker => pc'[f] \in ParkedStates
  BY <1>1, <1>3, <1>6 DEF ParkedStates
<1> QED BY <1>1, <1>2, <1>3, <1>5, <1>7 DEF Tame, YieldTo, PoolSame

LEMMA LookupSafe ==
    ASSUME PoolInv, NEW f \in Fibers, Lookup(f)
    PROVE  Safe' /\ Tame(f)
<1> DEFINE b == page_table[pid[f]]
<1>1. pc[f] = "lookup" /\ pc[f] \in WalkStates
  BY DEF Lookup, On, WalkStates
<1>2. pc'[f] = (IF b = NoBid THEN "fault" ELSE "load") /\ \A g \in Fibers \ {f} : pc'[g] = pc[g]
  <2> DEFINE l == IF b = NoBid THEN "fault" ELSE "load"
  <2>1. pc' = [pc EXCEPT ![f] = l]
    BY DEF Lookup, Goto
  <2> HIDE DEF l
  <2>2. pc'[f] = l /\ \A g \in Fibers \ {f} : pc'[g] = pc[g]
    BY <2>1, Updates
  <2> QED BY <2>2 DEF l
<1>3. bid'[f] = b /\ \A g \in Fibers \ {f} : bid'[g] = bid[g]
  BY Updates DEF Lookup
<1>4. UNCHANGED <<mode, exact, pid, seen, running, allocCount>> /\ PoolSame
  BY DEF Lookup, Goto, PoolSame, poolVars, allocVars, dataVars
<1>5. Others(f)
  BY <1>2, <1>3, <1>4 DEF Others, Same
<1>6. mode'[f] # "A" /\ pid'[f] = pid[f] /\ pid'[f] \in linked /\ pc[f] \in LooseStates
  BY <1>1, <1>4, Walking
<1>7. pc'[f] = "fault" \/ (pc'[f] = "load" /\ page_table[pid'[f]] = bid'[f])
  BY <1>2, <1>3, <1>6
<1>8. Safe'
  BY <1>4, <1>5, <1>6, <1>7, WalksOk
<1>9. OneWorker => mode'[f] # "O" /\ ~exact'[f]
  BY <1>4 DEF PoolInv, Turns, Parked
<1> QED BY <1>4, <1>5, <1>8, <1>9 DEF Tame, PoolSame

LEMMA LoadSafe ==
    ASSUME PoolInv, NEW f \in Fibers, Load(f)
    PROVE  Safe' /\ Tame(f)
<1>1. pc[f] = "load" /\ pc[f] \in WalkStates /\ pc[f] \in FixStates
  BY DEF Load, On, WalkStates, FixStates
<1>2. framePid[bid[f]] = pid[f]
  BY <1>1, Resident
<1>3. UNCHANGED allocCount /\ PoolSame
  BY DEF Load, PoolSame, poolVars, allocVars, dataVars
<1>4. CASE Done(f)
  BY <1>1, <1>3, <1>4, Walking, DoneSafe
<1>5. CASE ~Done(f)
  <2>1. /\ Goto(f, "flags") /\ seen' = [seen EXCEPT ![f] = meta[bid[f]]]
        /\ UNCHANGED <<mode, exact, pid, bid>>
    BY <1>2, <1>5 DEF Load
  <2>2. pc'[f] = "flags" /\ \A g \in Fibers \ {f} : pc'[g] = pc[g]
    BY <2>1, Updates DEF Goto
  <2>3. \A g \in Fibers \ {f} : seen'[g] = seen[g]
    BY <2>1, Updates
  <2>4. Others(f)
    BY <2>1, <2>2, <2>3 DEF Others, Same
  <2>5. mode'[f] # "A" /\ pid'[f] \in linked /\ pc[f] \in LooseStates /\ page_table[pid'[f]] = bid'[f]
    BY <1>1, <2>1, Walking, Resident
  <2>6. Safe'
    BY <1>3, <2>2, <2>4, <2>5, WalksOk
  <2>7. OneWorker => mode'[f] # "O" /\ ~exact'[f]
    BY <2>1 DEF PoolInv, Turns, Parked
  <2> QED BY <1>3, <2>1, <2>4, <2>6, <2>7 DEF Tame, PoolSame, Goto
<1> QED BY <1>4, <1>5

LEMMA FlagsSafe ==
    ASSUME PoolInv, NEW f \in Fibers, Flags(f)
    PROVE  Safe' /\ Tame(f)
<1>1. pc[f] = "flags" /\ pc[f] \in WalkStates /\ pc[f] \in FixStates
  BY DEF Flags, On, WalkStates, FixStates
<1>3. UNCHANGED allocCount /\ PoolSame
  BY DEF Flags, PoolSame, poolVars, allocVars, dataVars
<1>4. CASE Conflict(f)
  BY <1>1, <1>3, <1>4, ConflictSafe
<1>5. CASE ~Conflict(f)
  <2>1. Goto(f, "cas") /\ UNCHANGED fixVars /\ ~meta[bid[f]].evicting
    BY <1>5 DEF Flags
  <2>2. /\ Others(f) /\ pc'[f] = "cas" /\ mode'[f] = mode[f] /\ pid'[f] = pid[f] /\ bid'[f] = bid[f]
        /\ OneWorker => mode'[f] # "O" /\ ~exact'[f]
    BY <2>1, FixKept DEF Goto
  <2>3. mode'[f] # "A" /\ pid'[f] \in linked /\ pc[f] \in LooseStates /\ page_table[pid'[f]] = bid'[f]
    BY <1>1, <2>2, Walking, Resident
  <2>4. Safe'
    BY <1>3, <2>1, <2>2, <2>3, WalksOk
  <2> QED BY <1>3, <2>1, <2>2, <2>4 DEF Tame, PoolSame, Goto
<1> QED BY <1>4, <1>5

LEMMA RecheckSafe ==
    ASSUME PoolInv, NEW f \in Fibers, Recheck(f)
    PROVE  Safe' /\ Tame(f)
<1>1. pc[f] = "recheck" /\ pc[f] \in FixStates
  BY DEF Recheck, On, FixStates
<1>2. framePid[bid[f]] = pid[f]
  BY <1>1, Resident
<1> DEFINE l == IF mode[f] = "O" THEN "guard" ELSE "hold"
<1>3. Goto(f, l) /\ UNCHANGED <<fixVars, meta>>
  BY <1>2 DEF Recheck
<1>4. UNCHANGED allocCount /\ PoolSame
  BY <1>3 DEF Recheck, PoolSame, allocVars, dataVars
<1>5. /\ Others(f) /\ pc'[f] = l
      /\ mode'[f] = mode[f] /\ pid'[f] = pid[f] /\ bid'[f] = bid[f]
      /\ seen'[f] = seen[f] /\ (OneWorker => mode'[f] # "O" /\ ~exact'[f])
  <2> HIDE DEF l
  <2> QED BY <1>3, FixKept DEF Goto
<1>6. mode[f] \in {"S", "X", "O"}
  <2>1. ModeOk(pc[f], mode[f])
    BY DEF PoolInv, Safe, Fine
  <2>2. mode[f] # "A"
    BY <1>1, <2>1 DEF ModeOk, AllocStates
  <2>3. mode[f] \in {"S", "X", "O", "A"}
    BY DEF PoolInv, FrameInv, TypeInv, TypeOK, FixTypes
  <2> QED BY <2>2, <2>3
<1>7. Safe'
  BY <1>1, <1>4, <1>5, <1>6, StaysOk
<1> QED BY <1>3, <1>4, <1>5, <1>7 DEF Tame, PoolSame, Goto

LEMMA GuardSafe ==
    ASSUME PoolInv, NEW f \in Fibers, Validate(f) \/ ReleaseGuard(f)
    PROVE  Safe' /\ Tame(f)
<1>1. pc[f] = "guard" /\ pc[f] \in LooseStates
  BY DEF Validate, ReleaseGuard, On, LooseStates
<1>2. UNCHANGED allocCount /\ PoolSame
  BY DEF Validate, ReleaseGuard, PoolSame, poolVars, allocVars, dataVars
<1>3. CASE Done(f)
  BY <1>1, <1>2, <1>3, DoneSafe
<1>4. CASE ~Done(f)
  <2>1. YieldTo(f, "guard") /\ UNCHANGED fixVars
    BY <1>4 DEF Validate, ReleaseGuard
  <2>2. /\ Others(f) /\ pc'[f] = "guard" /\ mode'[f] = mode[f] /\ pid'[f] = pid[f] /\ bid'[f] = bid[f]
        /\ seen'[f] = seen[f] /\ (OneWorker => mode'[f] # "O" /\ ~exact'[f])
    BY <2>1, FixKept DEF YieldTo
  <2>3. Safe'
    BY <1>1, <1>2, <2>2, StaysOk
  <2>4. ~OneWorker
    <3>1. ModeOk(pc[f], mode[f])
      BY DEF PoolInv, Safe, Fine
    <3> QED BY <1>1, <2>2, <3>1 DEF ModeOk
  <2> QED BY <1>2, <2>1, <2>2, <2>3, <2>4 DEF Tame, PoolSame, YieldTo
<1> QED BY <1>3, <1>4

LEMMA HandoverSafe ==
    ASSUME PoolInv, NEW f \in Fibers, Handover(f)
    PROVE  Safe' /\ Tame(f)
<1>1. pc[f] = "guard" /\ pc[f] \in LooseStates /\ pc[f] \in FixStates
  BY DEF Handover, On, LooseStates, FixStates
<1>2. UNCHANGED <<pid, bid, seen, running, allocCount>> /\ PoolSame
  BY DEF Handover, Goto, PoolSame, poolVars, allocVars, dataVars
<1>3. PICK m \in {"S", "X"} : mode' = [mode EXCEPT ![f] = m]
  <2>1. PICK to \in {[mode |-> "S", policy |-> "Restart"],
                     [mode |-> "X", policy |-> "Wait"], [mode |-> "X", policy |-> "Restart"]} :
              mode' = [mode EXCEPT ![f] = to.mode]
    BY DEF Handover
  <2>2. to.mode \in {"S", "X"}
    BY SMT, <2>1
  <2> QED BY <2>1, <2>2
<1>4. mode'[f] = m /\ \A g \in Fibers \ {f} : mode'[g] = mode[g]
  BY <1>3, Updates
<1>5. pc'[f] = "load" /\ \A g \in Fibers \ {f} : pc'[g] = pc[g]
  BY Updates DEF Handover, Goto
<1>6. \A g \in Fibers \ {f} : exact'[g] = exact[g]
  BY Updates DEF Handover
<1>7. Others(f)
  BY <1>2, <1>4, <1>5, <1>6 DEF Others, Same
<1>8. mode[f] = "O" /\ pid[f] \in linked
  <2>1. Fine(f)
    BY DEF PoolInv, Safe
  <2> QED BY <1>1, <2>1 DEF Fine, ModeOk
<1>9. mode'[f] # "A" /\ pid'[f] \in linked /\ page_table[pid'[f]] = bid'[f]
  BY <1>1, <1>2, <1>3, <1>4, <1>8, Resident
<1>10. Safe'
  BY <1>1, <1>2, <1>5, <1>7, <1>9, WalksOk
<1>11. ~OneWorker
  BY <1>8 DEF PoolInv, Turns, Parked
<1> QED BY <1>2, <1>7, <1>10, <1>11 DEF Tame, PoolSame

-----------------------------------------------------------------------------
(* The steps that take and give back a lock. *)

LEMMA ClientAlone ==
    ASSUME PoolInv, OneWorker \/ NoEviction, NEW f \in Fibers, running[WorkerOf[f]] = f
    PROVE  \A w \in Workers : epc[w] \notin BusyStates
<1>1. CASE NoEviction
  BY <1>1 DEF PoolInv, Turns, Asleep, BusyStates, SweepStates
<1>2. CASE OneWorker
  <2>1. SUFFICES ASSUME NEW w \in Workers, epc[w] \in BusyStates PROVE FALSE
    OBVIOUS
  <2>2. running[w] = Evictor
    BY <1>2, <2>1 DEF PoolInv, Turns
  <2>3. WorkerOf[f] \in Workers
    BY WorkerAssumption
  <2>4. w = WorkerOf[f]
    BY <1>2, <2>3 DEF OneWorker
  <2> QED BY <2>2, <2>4, ActorAssumption
<1> QED BY <1>1, <1>2

(* The words PageState computes. *)
LEMMA LockSWord ==
    ASSUME NEW w \in Word, NEW u, u = lock_s(w)
    PROVE  u.mode = (IF w.mode = Marked THEN 1 ELSE w.mode + 1) /\ u.evicting = w.evicting /\ u.dirty = w.dirty
BY DEF Word, lock_s, same_version

LEMMA LockXWord ==
    ASSUME NEW w \in Word, NEW u, u = lock_x_dirty(w)
    PROVE  u.mode = Locked /\ u.evicting = w.evicting /\ u.dirty
BY DEF Word, lock_x_dirty, same_version

LEMMA UnlockSWord ==
    ASSUME NEW w \in Word, NEW u, u = unlock_s_marked(w)
    PROVE  u.mode = Fewer(w.mode) /\ u.evicting = w.evicting /\ u.dirty = w.dirty
BY DEF Word, unlock_s_marked, Fewer, unlock_s, same_version

LEMMA UnlockXWord ==
    ASSUME NEW w \in Word, NEW u, u = unlock_x_marked(w)
    PROVE  u.mode = Marked /\ u.evicting = w.evicting /\ u.dirty = w.dirty
BY DEF Word, unlock_x_marked, next_version

LEMMA MarkWord ==
    ASSUME NEW w \in Word, NEW u, u = mark(w)
    PROVE  u.mode = (IF w.mode = Unlocked THEN Marked ELSE w.mode) /\ u.evicting = w.evicting /\ u.dirty = w.dirty
BY DEF Word, mark, same_version

LEMMA ClearMarkWord ==
    ASSUME NEW w \in Word, NEW u, u = clear_mark(w)
    PROVE  u.mode = (IF w.mode = Marked THEN Unlocked ELSE w.mode) /\ u.evicting = w.evicting /\ u.dirty = w.dirty
BY DEF Word, clear_mark, same_version

LEMMA BindWord ==
    ASSUME NEW w \in Word, NEW u, u = rebind_locked(w)
    PROVE  u.mode = Locked /\ ~u.evicting
BY DEF Word, rebind_locked, next_version_no_flags

LEMMA UnbindWord ==
    ASSUME NEW w \in Word, NEW u, u = rebind_unlocked(w)
    PROVE  u.mode = Unlocked /\ ~u.evicting
BY DEF Word, rebind_unlocked, next_version_no_flags

LEMMA FlagFacts ==
    ASSUME NEW w \in Word, NEW v \in BOOLEAN
    PROVE  LET d == [w EXCEPT !.dirty = v]
               e == [w EXCEPT !.evicting = v]
               i == [w EXCEPT !.io = v]
           IN  /\ d.mode = w.mode /\ d.evicting = w.evicting /\ d.dirty = v
               /\ e.mode = w.mode /\ e.evicting = v /\ e.dirty = w.dirty
               /\ i.mode = w.mode /\ i.evicting = w.evicting /\ i.dirty = w.dirty
BY DEF Word

LEMMA CasSafe ==
    ASSUME PoolInv, OneWorker \/ NoEviction, NEW f \in Fibers, Cas(f)
    PROVE  Safe' /\ Tame(f)
<1>1. pc[f] = "cas" /\ pc[f] \in WalkStates /\ pc[f] \in FixStates /\ running[WorkerOf[f]] = f
  BY DEF Cas, On, WalkStates, FixStates
<1>2. UNCHANGED <<page_table, framePid, allocCount, linked, data, disk, committed, evictVars>>
  BY DEF Cas, allocVars, dataVars
<1>3. CASE Conflict(f) /\ UNCHANGED meta
  <2>1. PoolSame
    BY <1>2, <1>3 DEF PoolSame
  <2> QED BY <1>1, <1>2, <1>3, <2>1, ConflictSafe
<1>4. CASE ~(Conflict(f) /\ UNCHANGED meta)
  <2>1. /\ Lockable(f) /\ meta[bid[f]] = seen[f]
        /\ meta' = [meta EXCEPT ![bid[f]] = LockedWord(f)]
        /\ Goto(f, "recheck") /\ UNCHANGED fixVars
    BY <1>4 DEF Cas
  <2>2. /\ Others(f) /\ pc'[f] = "recheck" /\ mode'[f] = mode[f] /\ pid'[f] = pid[f] /\ bid'[f] = bid[f]
        /\ seen'[f] = seen[f] /\ (OneWorker => mode'[f] # "O" /\ ~exact'[f])
    BY <2>1, FixKept DEF Goto
  <2>3. PICK b \in Bids : bid[f] = b
    BY <1>1, Resident
  <2>4. meta[b] \in Word /\ meta[b].mode \in 0 .. 255
    BY <2>3, TypeFacts DEF PoolInv, FrameInv
  <2>5. mode[f] \in {"S", "X"}
    <3>1. mode[f] # "A" /\ mode[f] # "O"
      BY <1>1, Walking DEF Cas
    <3>2. mode[f] \in {"S", "X", "O", "A"}
      BY DEF PoolInv, FrameInv, TypeInv, TypeOK, FixTypes
    <3> QED BY <3>1, <3>2
  <2>6. meta'[b] = LockedWord(f) /\ \A c \in Bids \ {b} : meta'[c] = meta[c]
    BY <2>1, <2>3, MetaUpdates
  <2>7. LockOk(Readers(b), Writers(b), meta[b].mode) /\ f \notin Readers(b) /\ f \notin Writers(b)
    BY <1>1 DEF PoolInv, Safe, Locks, Readers, Writers, Shares, Excludes
  <2>8. ~meta[b].evicting
    BY <1>1, <2>3 DEF PoolInv, Safe, Fine, WordOk
  <2>9. \A w \in Workers : epc[w] \notin BusyStates
    BY <1>1, ClientAlone
  <2>10. ~New(f)' /\ pc[f] # "reading"
    BY <1>1, <2>2, <2>5 DEF New
  <2>11. Fine(f)'
    <3>1. ModeOk(pc[f], mode[f])'
      BY <2>2, <2>5 DEF ModeOk
    <3>2. WordOk(pc[f], mode[f], seen[f], meta[bid[f]])'
      <4>1. mode[f] = "X" => meta'[b].dirty
        <5>1. mode[f] = "X" => meta'[b] = lock_x_dirty(meta[b])
          BY <2>1, <2>3, <2>6 DEF LockedWord
        <5> QED BY <2>4, <5>1, LockXWord
      <4> QED BY <2>2, <2>3, <2>5, <4>1 DEF WordOk
    <3>3. (pc[f] \in FixStates => page_table[pid[f]] = bid[f])' /\ pid'[f] \in linked'
      BY <1>1, <1>2, <2>2, Resident, Walking
    <3> QED BY <2>2, <2>10, <3>1, <3>2, <3>3, ZenonT(40) DEF Fine
  <2>12. CASE mode[f] = "S"
    <3>1. CanLockS(meta[b]) /\ meta'[b] = lock_s(meta[b])
      BY <2>1, <2>3, <2>6, <2>12 DEF Lockable, LockedWord
    <3>2. Readers(b)' = Readers(b) \cup {f} /\ Writers(b)' = Writers(b)
      <4>1. Shares(pc'[f], mode'[f]) /\ ~Excludes(pc'[f], mode'[f]) /\ bid'[f] = b
        BY <2>2, <2>3, <2>12 DEF Shares, Excludes
      <4>2. Readers(b)' = (Readers(b) \ {f}) \cup {f} /\ Writers(b)' = (Writers(b) \ {f}) \cup {}
        BY <2>2, <4>1, LockSets
      <4> QED BY <2>7, <4>2
    <3>3. /\ LockOk(Readers(b) \cup {f}, Writers(b), meta'[b].mode) /\ Writers(b) = {}
          /\ meta'[b].evicting = meta[b].evicting /\ meta'[b].dirty = meta[b].dirty
      <4> DEFINE R == Readers(b)  W == Writers(b)  m == meta[b].mode
      <4>1. LockOk(R, W, m) /\ m \in 0 .. 255 /\ f \notin R /\ (m < MaxShared \/ m = Marked)
        BY <2>4, <2>7, <3>1 DEF CanLockS
      <4>2. meta'[b].mode = (IF m = Marked THEN 1 ELSE m + 1)
        BY <2>4, <3>1, LockSWord
      <4> HIDE DEF R, W, m
      <4>3. LockOk(R \cup {f}, W, IF m = Marked THEN 1 ELSE m + 1)
        BY <4>1, LockShared
      <4>4. W = {}
        BY SMT, <4>1 DEF LockOk, Locked, Marked, MaxShared
      <4>5. meta'[b].evicting = meta[b].evicting /\ meta'[b].dirty = meta[b].dirty
        BY <2>4, <3>1, LockSWord
      <4> QED BY <4>2, <4>3, <4>4, <4>5 DEF R, W
    <3>4. LockOk(Readers(b)', Writers(b)', meta'[b].mode)
      BY <3>2, <3>3
    <3>5. Writers(b) \subseteq {f}
      BY <3>3
    <3>6. Safe'
      BY <1>1, <1>2, <2>2, <2>3, <2>6, <2>9, <2>10, <2>11, <3>3, <3>4, <3>5, WordStep, ZenonT(40)
    <3> QED BY <1>2, <2>1, <2>2, <3>6 DEF Tame, Goto
  <2>13. CASE mode[f] = "X"
    <3>1. CanLockX(meta[b]) /\ meta'[b] = lock_x_dirty(meta[b])
      BY <2>1, <2>3, <2>6, <2>13 DEF Lockable, LockedWord
    <3>2. Readers(b) = {} /\ Writers(b) = {}
      <4>1. Reclaimable(b)
        BY <3>1 DEF CanLockX, Reclaimable
      <4> QED BY <4>1, ReclaimableFree
    <3>3. Readers(b)' = {} /\ Writers(b)' = {f}
      <4>1. ~Shares(pc'[f], mode'[f]) /\ Excludes(pc'[f], mode'[f]) /\ bid'[f] = b
        BY <2>2, <2>3, <2>13 DEF Shares, Excludes
      <4>2. Readers(b)' = (Readers(b) \ {f}) \cup {} /\ Writers(b)' = (Writers(b) \ {f}) \cup {f}
        BY <2>2, <4>1, LockSets
      <4> QED BY <3>2, <4>2
    <3>4. meta'[b].mode = Locked /\ meta'[b].evicting = meta[b].evicting /\ meta'[b].dirty
      BY <2>4, <3>1, LockXWord
    <3>5. LockOk(Readers(b)', Writers(b)', meta'[b].mode)
      BY <3>3, <3>4, LockTaken
    <3>6. Writers(b) \subseteq {f}
      BY <3>2
    <3>7. Safe'
      BY <1>1, <1>2, <2>2, <2>3, <2>6, <2>9, <2>10, <2>11, <3>4, <3>5, <3>6, WordStep, ZenonT(40)
    <3> QED BY <1>2, <2>1, <2>2, <3>7 DEF Tame, Goto
  <2> QED BY <2>5, <2>12, <2>13
<1> QED BY <1>3, <1>4

LEMMA PrepareSafe ==
    ASSUME PoolInv, OneWorker \/ NoEviction, NEW f \in Fibers, PrepareOptimistic(f)
    PROVE  Safe' /\ Tame(f)
<1>1. /\ pc[f] = "cas" /\ pc[f] \in WalkStates /\ pc[f] \in FixStates
      /\ running[WorkerOf[f]] = f /\ mode[f] = "O"
  BY DEF PrepareOptimistic, On, WalkStates, FixStates
<1>2. UNCHANGED <<page_table, framePid, allocCount, linked, data, disk, committed, evictVars>>
  BY DEF PrepareOptimistic, allocVars, dataVars
<1>3. CASE Conflict(f) /\ UNCHANGED meta
  <2>1. PoolSame
    BY <1>2, <1>3 DEF PoolSame
  <2> QED BY <1>1, <1>2, <1>3, <2>1, ConflictSafe
<1>4. CASE ~(Conflict(f) /\ UNCHANGED meta)
  <2>1. PICK b \in Bids : bid[f] = b
    BY <1>1, Resident
  <2>2. /\ CanReadOptimistically(meta[b]) /\ meta' = [meta EXCEPT ![b] = mark(meta[b])]
        /\ seen' = [seen EXCEPT ![f] = mark(meta[b])] /\ Goto(f, "recheck")
        /\ UNCHANGED <<mode, exact, pid, bid>>
    BY <1>4, <2>1 DEF PrepareOptimistic
  <2>3. pc'[f] = "recheck" /\ \A g \in Fibers \ {f} : pc'[g] = pc[g]
    BY <2>2, Updates DEF Goto
  <2>4. \A g \in Fibers \ {f} : seen'[g] = seen[g]
    BY <2>2, Updates
  <2>5. Others(f)
    BY <2>2, <2>3, <2>4 DEF Others, Same
  <2>6. meta'[b] = mark(meta[b]) /\ \A c \in Bids \ {b} : meta'[c] = meta[c]
    BY <2>2, MetaUpdates
  <2>7. meta[b] \in Word /\ meta[b].mode \in 0 .. 255
    BY TypeFacts DEF PoolInv, FrameInv
  <2>8. /\ meta'[b].mode = (IF meta[b].mode = Unlocked THEN Marked ELSE meta[b].mode)
        /\ meta'[b].evicting = meta[b].evicting /\ meta'[b].dirty = meta[b].dirty
    BY <2>6, <2>7, MarkWord
  <2>9. Readers(b)' = Readers(b) /\ Writers(b)' = Writers(b)
    <3>1. f \notin Readers(b) /\ f \notin Writers(b)
      BY <1>1 DEF Readers, Writers, Shares, Excludes
    <3>2. ~Shares(pc'[f], mode'[f]) /\ ~Excludes(pc'[f], mode'[f])
      BY <1>1, <2>2, <2>3 DEF Shares, Excludes
    <3>3. Readers(b)' = (Readers(b) \ {f}) \cup {} /\ Writers(b)' = (Writers(b) \ {f}) \cup {}
      BY <2>5, <3>2, LockSets
    <3> QED BY <3>1, <3>3
  <2>10. LockOk(Readers(b), Writers(b), meta'[b].mode) /\ Writers(b) \subseteq {f}
    <3> DEFINE R == Readers(b)  W == Writers(b)  m == meta[b].mode  k == meta'[b].mode
    <3>1. LockOk(R, W, m) /\ m # Locked /\ k = (IF m = Unlocked THEN Marked ELSE m)
      BY <2>2, <2>8 DEF PoolInv, Safe, Locks, CanReadOptimistically
    <3> HIDE DEF R, W, m, k
    <3>2. W = {}
      BY <3>1 DEF LockOk
    <3>3. m = Unlocked => LockOk(R, W, Marked)
      BY <3>1, LockFree
    <3>4. LockOk(R, W, k)
      BY <3>1, <3>3
    <3> QED BY <3>2, <3>4 DEF R, W, k
  <2>11. ~New(f)'
    BY <1>1, <2>2 DEF New
  <2>12. Fine(f)'
    <3>1. ModeOk(pc[f], mode[f])'
      BY <1>1, <2>2, <2>3 DEF ModeOk
    <3>2. WordOk(pc[f], mode[f], seen[f], meta[bid[f]])'
      BY <1>1, <2>2, <2>3 DEF WordOk
    <3>3. (pc[f] \in FixStates => page_table[pid[f]] = bid[f])' /\ pid'[f] \in linked'
      BY <1>1, <1>2, <2>2, Resident, Walking
    <3> QED BY <2>3, <2>11, <3>1, <3>2, <3>3 DEF Fine
  <2>13. \A w \in Workers : epc[w] \notin BusyStates
    BY <1>1, ClientAlone
  <2>14. LockOk(Readers(b)', Writers(b)', meta'[b].mode) /\ bid'[f] = b /\ pc[f] # "reading"
    BY <1>1, <2>1, <2>2, <2>9, <2>10
  <2>15. Safe'
    BY <1>1, <1>2, <2>1, <2>5, <2>6, <2>8, <2>10, <2>11, <2>12, <2>13, <2>14, WordStep
  <2>16. ~OneWorker
    BY <1>1 DEF PoolInv, Turns, Parked
  <2> QED BY <1>2, <2>2, <2>5, <2>15, <2>16 DEF Tame, Goto
<1> QED BY <1>3, <1>4

LEMMA IdleFine ==
    ASSUME NEW f \in Fibers, pc'[f] = "idle", mode'[f] = "S"
    PROVE  Fine(f)' /\ ~New(f)' /\ ~Shares(pc'[f], mode'[f]) /\ ~Excludes(pc'[f], mode'[f])
<1>1. ~New(f)'
  BY DEF New
<1>2. Fine(f)'
  BY <1>1 DEF Fine, ModeOk, WordOk, FixStates
<1> QED BY <1>1, <1>2 DEF Shares, Excludes

(* While a client runs, only claimed frames are flagged. *)
LEMMA NotEvicting ==
    ASSUME PoolInv, NEW f \in Fibers, \A w \in Workers : epc[w] \notin BusyStates,
           \/ pc[f] = "cas" \/ Loading(f)
           \/ Shares(pc[f], mode[f]) \/ Excludes(pc[f], mode[f])
    PROVE  bid[f] \in Bids => ~meta[bid[f]].evicting
<1>1. \A w \in Workers : bid[f] \notin Claimed(w)
  BY Unclaimed
<1>2. \A w \in Workers : epc[w] # "collect"
  BY DEF BusyStates, SweepStates
<1> QED BY <1>1, <1>2 DEF PoolInv, Safe, Owned

LEMMA UnfixSSafe ==
    ASSUME PoolInv, OneWorker \/ NoEviction, NEW f \in Fibers, UnfixS(f)
    PROVE  Safe' /\ Tame(f)
<1>1. /\ pc[f] = "hold" /\ mode[f] = "S" /\ pc[f] \in FixStates /\ running[WorkerOf[f]] = f
      /\ Shares(pc[f], mode[f]) /\ ~Excludes(pc[f], mode[f]) /\ ~Loading(f)
  BY DEF UnfixS, On, FixStates, Shares, Excludes, Loading, LoadStates
<1>2. UNCHANGED <<page_table, framePid, allocCount, linked, data, disk, committed, evictVars>> /\ Done(f)
  BY DEF UnfixS, allocVars, dataVars
<1>3. PICK b \in Bids : bid[f] = b
  BY <1>1, Resident
<1>4. Others(f) /\ Tame(f) /\ pc'[f] = "idle" /\ mode'[f] = "S"
  BY <1>2, DoneStep
<1>5. Fine(f)' /\ ~New(f)' /\ ~Shares(pc'[f], mode'[f]) /\ ~Excludes(pc'[f], mode'[f])
  BY <1>4, IdleFine
<1>6. meta' = [meta EXCEPT ![b] = unlock_s_marked(meta[b])]
  BY <1>3 DEF UnfixS
<1>7. meta'[b] = unlock_s_marked(meta[b]) /\ \A c \in Bids \ {b} : meta'[c] = meta[c]
  BY <1>6, MetaUpdates
<1>8. meta[b] \in Word /\ meta[b].mode \in 0 .. 255
  BY TypeFacts DEF PoolInv, FrameInv
<1>9. /\ meta'[b].mode = Fewer(meta[b].mode)
      /\ meta'[b].evicting = meta[b].evicting /\ meta'[b].dirty = meta[b].dirty
  BY <1>7, <1>8, UnlockSWord
<1>10. Readers(b)' = Readers(b) \ {f} /\ Writers(b)' = Writers(b)
  <2>1. f \notin Writers(b)
    BY <1>1 DEF Writers
  <2>2. Readers(b)' = (Readers(b) \ {f}) \cup {} /\ Writers(b)' = (Writers(b) \ {f}) \cup {}
    BY <1>4, <1>5, LockSets
  <2> QED BY <2>1, <2>2
<1>11. LockOk(Readers(b) \ {f}, Writers(b), meta'[b].mode) /\ Writers(b) = {}
  <2> DEFINE R == Readers(b)  W == Writers(b)  m == meta[b].mode
  <2>1. LockOk(R, W, m) /\ m \in 0 .. 255 /\ f \in R
    BY <1>1, <1>3, <1>8 DEF PoolInv, Safe, Locks, Readers
  <2>2. meta'[b].mode = Fewer(m)
    BY <1>9
  <2> HIDE DEF R, W, m
  <2>3. LockOk(R \ {f}, W, Fewer(m)) /\ m \in 1 .. MaxShared
    BY <2>1, LockShares
  <2>4. W = {}
    BY SMT, <2>1, <2>3 DEF LockOk, Locked, MaxShared
  <2> QED BY <2>2, <2>3, <2>4 DEF R, W
<1>12. LockOk(Readers(b)', Writers(b)', meta'[b].mode) /\ Writers(b) \subseteq {f}
  BY <1>10, <1>11
<1>13. \A w \in Workers : epc[w] \notin BusyStates
  BY <1>1, ClientAlone
<1>14. Safe'
  <2>1. pc[f] # "reading"
    BY <1>1
  <2> QED BY <1>1, <1>2, <1>3, <1>4, <1>5, <1>7, <1>9, <1>12, <1>13, <2>1, WordStep, ZenonT(40)
<1> QED BY <1>4, <1>14

(* A client that holds the lock for itself stores a word and keeps the lock. *)
LEMMA OwnerStores ==
    ASSUME PoolInv, OneWorker \/ NoEviction, NEW f \in Fibers, running[WorkerOf[f]] = f,
           Others(f), NEW b \in Bids, bid[f] = b,
           UNCHANGED <<page_table, framePid, allocCount, linked, data, disk, committed, evictVars>>,
           NEW u, u.mode = meta[b].mode, u.evicting = meta[b].evicting,
           meta[b].dirty => u.dirty \/ Loading(f), meta' = [meta EXCEPT ![b] = u],
           Excludes(pc[f], mode[f]), Excludes(pc'[f], mode'[f]), ~Shares(pc'[f], mode'[f]),
           bid'[f] = b, Fine(f)', New(f)' => New(f) /\ pid'[f] = pid[f], pc[f] # "reading"
    PROVE  Safe'
<1>1. meta'[b] = u /\ \A c \in Bids \ {b} : meta'[c] = meta[c]
  BY MetaUpdates
<1>2. Readers(b) = {} /\ Writers(b) = {f} /\ meta[b].mode = Locked
  BY WriterAlone, ZenonT(30)
<1>3. Readers(b)' = {} /\ Writers(b)' = {f}
  <2>1. Readers(b)' = (Readers(b) \ {f}) \cup {} /\ Writers(b)' = (Writers(b) \ {f}) \cup {f}
    BY LockSets
  <2> QED BY <1>2, <2>1
<1>4. LockOk(Readers(b)', Writers(b)', meta'[b].mode)
  BY <1>1, <1>2, <1>3, LockTaken
<1>5. Writers(b) \subseteq {f}
  BY <1>2
<1>6. \A w \in Workers : epc[w] \notin BusyStates
  BY ClientAlone
<1>7. meta[b].dirty => meta'[b].dirty \/ Loading(f)
  BY <1>1
<1>8. meta'[b].evicting => meta[b].evicting
  BY <1>1
<1> QED BY <1>1, <1>4, <1>5, <1>6, <1>7, <1>8, WordStep

LEMMA UnfixXSafe ==
    ASSUME PoolInv, OneWorker \/ NoEviction, NEW f \in Fibers, UnfixX(f)
    PROVE  Safe' /\ Tame(f)
<1>1. /\ pc[f] \in {"hold", "wrote"} /\ mode[f] \in {"X", "A"} /\ pc[f] \in FixStates
      /\ running[WorkerOf[f]] = f /\ pc[f] # "reading" /\ ~Loading(f)
  BY DEF UnfixX, On, FixStates, Exclusive, Loading, LoadStates
<1>2. UNCHANGED <<page_table, framePid, allocCount, linked, data, disk, committed, evictVars, running>>
  BY DEF UnfixX, allocVars, dataVars, Goto
<1>3. PICK b \in Bids : bid[f] = b
  BY <1>1, Resident
<1>4. PICK u : u = [meta[b] EXCEPT !.dirty = TRUE]
  OBVIOUS
<1>5. /\ meta' = [meta EXCEPT ![b] = u] /\ seen' = [seen EXCEPT ![f] = meta'[b]]
      /\ pc' = [pc EXCEPT ![f] = "unlocking"] /\ UNCHANGED <<mode, exact, pid, bid>>
  BY <1>3, <1>4 DEF UnfixX, Goto
<1>6. meta'[b] = u
  BY <1>5, MetaUpdates
<1>7. seen'[f] = u /\ \A g \in Fibers \ {f} : seen'[g] = seen[g]
  <2>1. seen' = [seen EXCEPT ![f] = u]
    BY <1>5, <1>6
  <2> QED BY <2>1, Updates
<1>8. pc'[f] = "unlocking" /\ \A g \in Fibers \ {f} : pc'[g] = pc[g]
  BY <1>5, Updates
<1>9. Others(f)
  BY <1>5, <1>7, <1>8 DEF Others, Same
<1>10. /\ Excludes(pc[f], mode[f]) /\ Excludes(pc'[f], mode'[f]) /\ ~Shares(pc'[f], mode'[f])
       /\ bid'[f] = b /\ mode'[f] = mode[f] /\ pid'[f] = pid[f]
  BY <1>1, <1>3, <1>5, <1>8 DEF Excludes, Shares
<1>11. u.mode = meta[b].mode /\ u.evicting = meta[b].evicting /\ u.dirty
  <2>1. meta[b] \in Word
    BY TypeFacts DEF PoolInv, FrameInv
  <2> QED BY <1>4, <2>1 DEF Word
<1>12. u.mode = Locked /\ ~u.evicting
  <2>1. meta[b].mode = Locked
    BY <1>3, <1>10, WriterAlone
  <2>2. \A w \in Workers : epc[w] \notin BusyStates
    BY <1>1, ClientAlone
  <2>3. ~meta[b].evicting
    BY <1>3, <1>10, <2>2, NotEvicting
  <2> QED BY <1>11, <2>1, <2>3
<1>13. New(f)' => New(f) /\ pid'[f] = pid[f]
  BY <1>1, <1>10 DEF New
<1>14. Fine(f)'
  <2>1. Fine(f)
    BY DEF PoolInv, Safe
  <2>2. ModeOk(pc[f], mode[f])'
    BY <1>1, <1>8, <1>10 DEF ModeOk, AllocStates
  <2>3. WordOk(pc[f], mode[f], seen[f], meta[bid[f]])'
    <3>1. WordOk("unlocking", mode[f], u, u)
      BY <1>11, <1>12 DEF WordOk
    <3> QED BY <1>6, <1>7, <1>8, <1>10, <3>1
  <2>4. (pc[f] # "idle" /\ mode[f] # "A" => pid[f] \in linked)'
    BY <1>1, <1>2, <1>10, <2>1 DEF Fine
  <2>5. (New(f) => pid[f] < allocCount /\ pid[f] \notin linked)'
    BY <1>2, <1>10, <1>13, <2>1 DEF Fine
  <2>6. ~Loading(f)'
    BY <1>8 DEF Loading, LoadStates
  <2>7. (pc[f] \in FixStates => page_table[pid[f]] = bid[f])'
    BY <1>1, <1>2, <1>3, <1>10, Resident
  <2> QED BY <1>8, <2>2, <2>3, <2>4, <2>5, <2>6, <2>7 DEF Fine
<1>15. Safe'
  BY <1>1, <1>2, <1>3, <1>5, <1>9, <1>10, <1>11, <1>13, <1>14, OwnerStores
<1>16. OneWorker => mode'[f] # "O" /\ ~exact'[f]
  BY <1>5 DEF PoolInv, Turns, Parked
<1> QED BY <1>2, <1>9, <1>15, <1>16 DEF Tame

LEMMA StoreUnlockedSafe ==
    ASSUME PoolInv, OneWorker \/ NoEviction, NEW f \in Fibers, StoreUnlocked(f)
    PROVE  Safe' /\ Tame(f)
<1>1. pc[f] = "unlocking" /\ pc[f] \in FixStates /\ running[WorkerOf[f]] = f /\ ~Loading(f)
  BY DEF StoreUnlocked, On, FixStates, Loading, LoadStates
<1>2. /\ UNCHANGED <<page_table, framePid, allocCount, data, disk, committed, evictVars>> /\ Done(f)
      /\ linked' = linked \cup {pid[f]}
  BY DEF StoreUnlocked, dataVars
<1>3. PICK b \in Bids : bid[f] = b
  BY <1>1, Resident
<1>4. Others(f) /\ Tame(f) /\ pc'[f] = "idle" /\ mode'[f] = "S"
  BY <1>2, DoneStep
<1>5. Fine(f)' /\ ~New(f)' /\ ~Shares(pc'[f], mode'[f]) /\ ~Excludes(pc'[f], mode'[f])
  BY <1>4, IdleFine
<1>6. meta' = [meta EXCEPT ![b] = unlock_x_marked(seen[f])]
  BY <1>3 DEF StoreUnlocked
<1>7. meta'[b] = unlock_x_marked(seen[f]) /\ \A c \in Bids \ {b} : meta'[c] = meta[c]
  BY <1>6, MetaUpdates
<1>8. seen[f] \in Word
  BY DEF PoolInv, FrameInv, TypeInv, TypeOK, FixTypes
<1>9. Fine(f)
  BY DEF PoolInv, Safe
<1>10. seen[f].dirty /\ ~seen[f].evicting /\ mode[f] \in {"X", "A"}
  BY <1>1, <1>9 DEF Fine, WordOk, ModeOk
<1>11. meta'[b].mode = Marked /\ ~meta'[b].evicting /\ meta'[b].dirty
  BY ZenonT(40), <1>7, <1>8, <1>10, UnlockXWord, ZenonT(30)
<1>12. Excludes(pc[f], mode[f])
  BY <1>1, <1>10 DEF Excludes
<1>13. Readers(b) = {} /\ Writers(b) = {f}
  BY <1>3, <1>12, WriterAlone
<1>14. Readers(b)' = {} /\ Writers(b)' = {}
  <2>1. Readers(b)' = (Readers(b) \ {f}) \cup {} /\ Writers(b)' = (Writers(b) \ {f}) \cup {}
    BY <1>4, <1>5, LockSets
  <2> QED BY <1>13, <2>1
<1>15. LockOk(Readers(b)', Writers(b)', meta'[b].mode) /\ Writers(b) \subseteq {f}
  <2>1. LockOk({}, {}, Marked)
    BY LockTaken
  <2> QED BY <1>11, <1>13, <1>14, <2>1
<1>16. \A w \in Workers : epc[w] \notin BusyStates
  BY <1>1, ClientAlone
<1>17. Safe'
  <2>1. pc[f] # "reading"
    BY <1>1
  <2> QED BY <1>1, <1>2, <1>3, <1>4, <1>5, <1>7, <1>11, <1>12, <1>15, <1>16, <2>1, WordStep, ZenonT(40)
<1> QED BY <1>4, <1>17

LEMMA LocksQuiet ==
    ASSUME PoolInv, NEW f \in Fibers, Others(f), UNCHANGED meta,
           Shares(pc'[f], mode'[f]) <=> Shares(pc[f], mode[f]),
           Excludes(pc'[f], mode'[f]) <=> Excludes(pc[f], mode[f]),
           Shares(pc[f], mode[f]) \/ Excludes(pc[f], mode[f]) => bid'[f] = bid[f]
    PROVE  Locks'
<1>1. \A b \in Bids : Readers(b)' = Readers(b) /\ Writers(b)' = Writers(b)
  <2>1. TAKE b \in Bids
  <2>2. f \in Readers(b) <=> (Shares(pc'[f], mode'[f]) /\ bid'[f] = b)
    BY DEF Readers
  <2>3. f \in Writers(b) <=> (Excludes(pc'[f], mode'[f]) /\ bid'[f] = b)
    BY DEF Writers
  <2> QED BY SMT, <2>2, <2>3, LockSets
<1> QED BY <1>1, LocksSame, ZenonT(40) DEF PoolInv, Safe

(* The page of a client that writes or loads exists. *)
LEMMA PageExists ==
    ASSUME PoolInv, NEW f \in Fibers, pc[f] \notin {"idle", "alloc"}
    PROVE  pid[f] < allocCount
BY DEF PoolInv, Safe, Fine, New, Unused

LEMMA Inject ==
    ASSUME PoolInv, NEW p \in Pids, NEW q \in Pids, q # p, page_table[p] \in Bids
    PROVE  page_table[q] # page_table[p]
<1>1. page_table[p] # NoBid
  BY BidAssumption
<1> QED BY <1>1 DEF PoolInv, FrameInv, FrameConservation, TableIsInjective

LEMMA WritePageSafe ==
    ASSUME PoolInv, NEW f \in Fibers, WritePage(f)
    PROVE  Safe' /\ Tame(f)
<1>1. /\ pc[f] = "hold" /\ mode[f] \in {"X", "A"} /\ pc[f] \in FixStates /\ Exclusive(f)
      /\ ~Loading(f) /\ pc[f] \notin {"idle", "alloc"}
  BY DEF WritePage, On, FixStates, Exclusive, Loading, LoadStates
<1>2. UNCHANGED <<page_table, meta, framePid, allocCount, linked, disk, evictVars, running, fixVars>>
  BY DEF WritePage, Goto, poolVars, allocVars
<1>3. PICK b \in Bids, p \in Pids : bid[f] = b /\ pid[f] = p
  BY <1>1, Resident
<1>4. page_table[p] = b /\ b # NoBid
  BY <1>1, <1>3, Resident, BidAssumption
<1>5. /\ Others(f) /\ pc'[f] = "wrote" /\ mode'[f] = mode[f] /\ pid'[f] = pid[f] /\ bid'[f] = bid[f]
      /\ seen'[f] = seen[f] /\ (OneWorker => mode'[f] # "O" /\ ~exact'[f])
  BY <1>2, FixKept DEF WritePage, Goto
<1>6. committed'[p] = committed[p] + 1 /\ \A q \in Pids \ {p} : committed'[q] = committed[q]
  BY <1>3 DEF WritePage, PoolInv, FrameInv, TypeInv, TypeOK, DataTypes
<1>7. data'[b] = [data[b] EXCEPT !.writes = @ + 1] /\ \A c \in Bids \ {b} : data'[c] = data[c]
  BY <1>3 DEF WritePage, PoolInv, FrameInv, TypeInv, TypeOK, DataTypes
<1>8. Excludes(pc[f], mode[f]) /\ Excludes(pc'[f], mode'[f]) /\ ~Shares(pc[f], mode[f]) /\ ~Shares(pc'[f], mode'[f])
  BY <1>1, <1>5 DEF Excludes, Shares
<1>9. New(f)' => New(f) /\ pid'[f] = pid[f]
  BY <1>1, <1>5 DEF New
<1>10. Fine(f)
  BY DEF PoolInv, Safe
<1>11. Fine(f)'
  <2>1. ModeOk(pc[f], mode[f])'
    BY <1>1, <1>5 DEF ModeOk, AllocStates
  <2>2. WordOk(pc[f], mode[f], seen[f], meta[bid[f]])'
    BY <1>1, <1>2, <1>5, <1>10 DEF WordOk, Fine
  <2>3. (pc[f] # "idle" /\ mode[f] # "A" => pid[f] \in linked)'
    BY <1>1, <1>2, <1>5, <1>10 DEF Fine
  <2>4. (New(f) => pid[f] < allocCount /\ pid[f] \notin linked)'
    BY <1>2, <1>5, <1>9, <1>10 DEF Fine
  <2>5. ~Loading(f)'
    BY <1>5 DEF Loading, LoadStates
  <2>6. (pc[f] \in FixStates => page_table[pid[f]] = bid[f])'
    BY <1>2, <1>3, <1>4, <1>5
  <2> QED BY <1>5, <2>1, <2>2, <2>3, <2>4, <2>5, <2>6, ZenonT(40) DEF Fine
<1>12. \A g \in Fibers : Fine(g)'
  <2>1. Spares(f)
    BY <1>1, <1>2, <1>3, <1>5, <1>6 DEF Spares
  <2> QED BY <1>11, <2>1, OthersFine
<1>13. Framed'
  BY <1>2 DEF Framed, PoolInv, Safe
<1>14. Unused'
  <2>1. p < allocCount
    BY <1>1, <1>3, PageExists, ZenonT(30)
  <2>2. \A q \in Pids : q >= allocCount => q # p
    BY SMT, <2>1, TypeFacts DEF PoolInv, FrameInv
  <2> QED BY <1>2, <1>6, <2>2 DEF Unused, PoolInv, Safe
<1>15. Distinct'
  BY <1>5, <1>9, DistinctKeeps DEF PoolInv, Safe
<1>16. Locks'
  BY <1>2, <1>5, <1>8, LocksQuiet
<1>17. Claims' /\ Owned'
  BY <1>2, ClaimsSame DEF PoolInv, Safe
<1>18. \A q \in Pids \ {p} : Latest(q)' = Latest(q)
  BY <1>6 DEF Latest
<1>19. OnDisk'
  <2>1. linked \subseteq Pids
    BY DEF PoolInv, FrameInv, TypeInv, TypeOK, AllocTypes
  <2> QED BY <1>2, <1>4, <1>18, <2>1 DEF OnDisk, PoolInv, Safe
<1>20. InFrame'
  <2>1. SUFFICES ASSUME NEW q \in Pids, page_table[q] # NoBid
                 PROVE  /\ BeingRead(page_table[q])' \/ data'[page_table[q]] = Latest(q)'
                        /\ \/ meta[page_table[q]].dirty
                           \/ disk[q] = Latest(q)'
                           \/ \E w \in Workers : Pending(w, page_table[q])
    <3>1. \A w \in Workers : \A c : Pending(w, c)' <=> Pending(w, c)
      BY <1>2 DEF Pending, evictVars
    <3> QED BY <1>2, <3>1 DEF InFrame
  <2>2. page_table[q] \in Bids
    BY <2>1 DEF PoolInv, FrameInv, TypeInv, TypeOK, PoolTypes
  <2>3. CASE q # p
    <3>1. page_table[q] # b
      BY <1>4, <2>3, Inject
    <3>2. BeingRead(page_table[q]) => BeingRead(page_table[q])'
      <4>1. \A g \in Fibers : pc[g] = "reading" => pc'[g] = "reading" /\ bid'[g] = bid[g]
        BY <1>1, <1>5 DEF Others, Same
      <4> QED BY <1>2, <4>1 DEF BeingRead
    <3>3. data'[page_table[q]] = data[page_table[q]] /\ Latest(q)' = Latest(q)
      BY <1>7, <1>18, <2>2, <2>3, <3>1
    <3> QED BY <2>1, <3>2, <3>3 DEF InFrame, PoolInv, Safe
  <2>4. CASE q = p
    <3>1. ~BeingRead(b)
      <4>1. \A g \in Fibers : pc[g] = "reading" => Excludes(pc[g], mode[g])
        BY DEF Excludes
      <4> QED BY <1>1, <1>3, <1>8, <4>1, WriterAlone DEF BeingRead
    <3>2. data[b] = Latest(p)
      BY <1>4, <2>4, <3>1 DEF InFrame, PoolInv, Safe
    <3>3. data'[b] = Latest(p)'
      BY SMT, <1>6, <1>7, <3>2 DEF Latest
    <3>4. meta[b].dirty
      BY <1>1, <1>3, <1>10 DEF Fine, WordOk
    <3> QED BY <1>4, <2>4, <3>3, <3>4
  <2> QED BY <2>3, <2>4
<1>21. Safe'
  BY <1>12, <1>13, <1>14, <1>15, <1>16, <1>17, <1>19, <1>20 DEF Safe
<1> QED BY <1>2, <1>5, <1>21 DEF Tame

(* Reading a page from the device. *)
LEMMA DeviceReadSafe ==
    ASSUME PoolInv, NEW f \in Fibers, DeviceRead(f)
    PROVE  Safe' /\ Tame(f) /\ pc'[f] \in ParkedStates /\ UNCHANGED running
<1>1. pc[f] = "reading" /\ pc[f] \in FixStates /\ ~Loading(f)
  BY DEF DeviceRead, FixStates, Loading, LoadStates
<1>2. UNCHANGED <<page_table, meta, framePid, allocCount, linked, disk, committed, evictVars, running, fixVars>>
  BY DEF DeviceRead, poolVars, allocVars
<1>3. PICK b \in Bids, p \in Pids : bid[f] = b /\ pid[f] = p
  BY <1>1, Resident
<1>4. page_table[p] = b /\ b # NoBid
  BY <1>1, <1>3, Resident, BidAssumption
<1>5. /\ Others(f) /\ pc'[f] = "readDone" /\ mode'[f] = mode[f] /\ pid'[f] = pid[f] /\ bid'[f] = bid[f]
      /\ seen'[f] = seen[f] /\ (OneWorker => mode'[f] # "O" /\ ~exact'[f])
  BY <1>2, FixKept DEF DeviceRead
<1>6. data'[b] = disk[p] /\ \A c \in Bids \ {b} : data'[c] = data[c]
  BY <1>3 DEF DeviceRead, PoolInv, FrameInv, TypeInv, TypeOK, DataTypes
<1>7. Excludes(pc[f], mode[f]) /\ Excludes(pc'[f], mode'[f]) /\ ~Shares(pc[f], mode[f]) /\ ~Shares(pc'[f], mode'[f])
  BY <1>1, <1>5 DEF Excludes, Shares
<1>8. Fine(f)
  BY DEF PoolInv, Safe
<1>9. mode[f] # "A" /\ disk[p] = Latest(p)
  BY <1>1, <1>3, <1>8 DEF Fine, ModeOk, AllocStates
<1>10. ~New(f)'
  BY <1>5, <1>9 DEF New
<1>11. Fine(f)'
  <2>1. ModeOk(pc[f], mode[f])'
    BY <1>5, <1>9 DEF ModeOk
  <2>2. WordOk(pc[f], mode[f], seen[f], meta[bid[f]])'
    BY <1>5 DEF WordOk
  <2>3. pid'[f] \in linked'
    BY <1>1, <1>2, <1>5, <1>8, <1>9 DEF Fine
  <2>4. (pc[f] \in FixStates => page_table[pid[f]] = bid[f])'
    BY <1>2, <1>3, <1>4, <1>5
  <2> QED BY <1>5, <1>10, <2>1, <2>2, <2>3, <2>4 DEF Fine
<1>12. \A g \in Fibers : Fine(g)'
  <2>1. Spares(f)
    BY <1>2, <1>5 DEF Spares
  <2> QED BY <1>11, <2>1, OthersFine
<1>13. Framed' /\ Unused'
  BY <1>2 DEF Framed, Unused, PoolInv, Safe
<1>14. Distinct'
  BY <1>5, <1>10, DistinctKeeps DEF PoolInv, Safe
<1>15. Locks'
  BY <1>2, <1>5, <1>7, LocksQuiet
<1>16. Claims' /\ Owned'
  BY <1>2, ClaimsSame DEF PoolInv, Safe
<1>17. \A q : Latest(q)' = Latest(q)
  BY <1>2 DEF Latest
<1>18. OnDisk'
  BY <1>2, <1>17 DEF OnDisk, PoolInv, Safe
<1>19. InFrame'
  <2>1. SUFFICES ASSUME NEW q \in Pids, page_table[q] # NoBid
                 PROVE  /\ BeingRead(page_table[q])' \/ data'[page_table[q]] = Latest(q)
                        /\ \/ meta[page_table[q]].dirty
                           \/ disk[q] = Latest(q)
                           \/ \E w \in Workers : Pending(w, page_table[q])
    <3>1. \A w \in Workers : \A c : Pending(w, c)' <=> Pending(w, c)
      BY <1>2 DEF Pending, evictVars
    <3> QED BY <1>2, <1>17, <3>1 DEF InFrame
  <2>2. page_table[q] \in Bids
    BY <2>1 DEF PoolInv, FrameInv, TypeInv, TypeOK, PoolTypes
  <2>3. CASE q # p
    <3>1. page_table[q] # b
      BY <1>4, <2>3, Inject
    <3>2. BeingRead(page_table[q]) => BeingRead(page_table[q])'
      <4>1. \A g \in Fibers : g # f /\ pc[g] = "reading" => pc'[g] = "reading" /\ bid'[g] = bid[g]
        BY <1>5 DEF Others, Same
      <4> QED BY <1>2, <1>3, <3>1, <4>1 DEF BeingRead
    <3>3. data'[page_table[q]] = data[page_table[q]]
      BY <1>6, <2>2, <3>1
    <3> QED BY <2>1, <3>2, <3>3 DEF InFrame, PoolInv, Safe
  <2>4. CASE q = p
    BY <1>4, <1>6, <1>9, <2>1, <2>4 DEF InFrame, PoolInv, Safe
  <2> QED BY <2>3, <2>4
<1>20. Safe'
  BY <1>12, <1>13, <1>14, <1>15, <1>16, <1>18, <1>19 DEF Safe
<1> QED BY <1>2, <1>5, <1>20 DEF Tame, ParkedStates

LEMMA ClearIoSafe ==
    ASSUME PoolInv, OneWorker \/ NoEviction, NEW f \in Fibers, ClearIo(f)
    PROVE  Safe' /\ Tame(f)
<1>1. pc[f] = "readDone" /\ pc[f] \in FixStates /\ running[WorkerOf[f]] = f /\ pc[f] # "reading"
  BY DEF ClearIo, On, FixStates
<1>2. UNCHANGED <<page_table, framePid, allocCount, linked, data, disk, committed, evictVars, running, fixVars>>
  BY DEF ClearIo, allocVars, dataVars, Goto
<1>3. PICK b \in Bids : bid[f] = b
  BY <1>1, Resident
<1>4. PICK u : u = [meta[b] EXCEPT !.io = FALSE]
  OBVIOUS
<1>5. meta' = [meta EXCEPT ![b] = u] /\ pc' = [pc EXCEPT ![f] = "unlock"]
  BY <1>3, <1>4 DEF ClearIo, Goto
<1>6. /\ Others(f) /\ pc'[f] = "unlock" /\ mode'[f] = mode[f] /\ pid'[f] = pid[f] /\ bid'[f] = bid[f]
      /\ OneWorker => mode'[f] # "O" /\ ~exact'[f]
  BY <1>2, <1>5, FixKept
<1>7. u.mode = meta[b].mode /\ u.evicting = meta[b].evicting /\ u.dirty = meta[b].dirty
  <2>1. meta[b] \in Word
    BY TypeFacts DEF PoolInv, FrameInv
  <2> QED BY <1>4, <2>1 DEF Word
<1>8. Fine(f)
  BY DEF PoolInv, Safe
<1>9. mode[f] # "A"
  BY <1>1, <1>8 DEF Fine, ModeOk, AllocStates
<1>10. ~New(f)'
  BY <1>6, <1>9 DEF New
<1>11. Fine(f)'
  <2>1. ModeOk(pc[f], mode[f])'
    BY <1>6, <1>9, ZenonT(40) DEF ModeOk
  <2>2. WordOk(pc[f], mode[f], seen[f], meta[bid[f]])'
    BY <1>6 DEF WordOk
  <2>3. pid'[f] \in linked'
    BY <1>1, <1>2, <1>6, <1>8, <1>9 DEF Fine
  <2>4. (pc[f] \in FixStates => page_table[pid[f]] = bid[f])'
    BY <1>1, <1>2, <1>6, Resident
  <2> QED BY <1>6, <1>10, <2>1, <2>2, <2>3, <2>4 DEF Fine
<1>12. Excludes(pc[f], mode[f]) /\ Excludes(pc'[f], mode'[f]) /\ ~Shares(pc'[f], mode'[f])
  BY <1>1, <1>6 DEF Excludes, Shares
<1>13. Safe'
  BY <1>1, <1>2, <1>3, <1>5, <1>6, <1>7, <1>10, <1>11, <1>12, OwnerStores, ZenonT(40)
<1> QED BY <1>2, <1>6, <1>13 DEF Tame

LEMMA UnlockLoadedSafe ==
    ASSUME PoolInv, OneWorker \/ NoEviction, NEW f \in Fibers, UnlockLoaded(f)
    PROVE  Safe' /\ Tame(f)
<1>1. pc[f] = "unlock" /\ pc[f] \in FixStates /\ running[WorkerOf[f]] = f /\ pc[f] # "reading"
  BY DEF UnlockLoaded, On, FixStates
<1>2. UNCHANGED <<page_table, framePid, allocCount, linked, data, disk, committed, evictVars, running, fixVars>>
  BY DEF UnlockLoaded, allocVars, dataVars, Goto
<1>3. PICK b \in Bids : bid[f] = b
  BY <1>1, Resident
<1>4. meta' = [meta EXCEPT ![b] = unlock_x_marked(meta[b])] /\ pc' = [pc EXCEPT ![f] = "lookup"]
  BY <1>3 DEF UnlockLoaded, Goto
<1>5. meta'[b] = unlock_x_marked(meta[b]) /\ \A c \in Bids \ {b} : meta'[c] = meta[c]
  BY <1>4, MetaUpdates
<1>6. /\ Others(f) /\ pc'[f] = "lookup" /\ mode'[f] = mode[f] /\ pid'[f] = pid[f] /\ bid'[f] = bid[f]
      /\ OneWorker => mode'[f] # "O" /\ ~exact'[f]
  BY <1>2, <1>4, FixKept
<1>7. meta'[b].mode = Marked /\ meta'[b].evicting = meta[b].evicting /\ meta'[b].dirty = meta[b].dirty
  <2>1. meta[b] \in Word
    BY TypeFacts DEF PoolInv, FrameInv
  <2> QED BY <1>5, <2>1, UnlockXWord
<1>8. Fine(f)
  BY DEF PoolInv, Safe
<1>9. mode[f] # "A"
  BY <1>1, <1>8 DEF Fine, ModeOk, AllocStates
<1>10. ~New(f)'
  BY <1>6, <1>9 DEF New
<1>11. Fine(f)'
  <2>1. ModeOk(pc[f], mode[f])'
    BY <1>6, <1>9 DEF ModeOk
  <2>2. WordOk(pc[f], mode[f], seen[f], meta[bid[f]])'
    BY <1>6 DEF WordOk
  <2>3. pid'[f] \in linked'
    BY <1>1, <1>2, <1>6, <1>8, <1>9 DEF Fine
  <2> QED BY <1>6, <1>10, <2>1, <2>2, <2>3 DEF Fine, FixStates
<1>12. Excludes(pc[f], mode[f]) /\ ~Excludes(pc'[f], mode'[f]) /\ ~Shares(pc'[f], mode'[f])
  BY <1>1, <1>6 DEF Excludes, Shares
<1>13. Readers(b) = {} /\ Writers(b) = {f}
  BY <1>3, <1>12, WriterAlone
<1>14. Readers(b)' = {} /\ Writers(b)' = {}
  <2>1. Readers(b)' = (Readers(b) \ {f}) \cup {} /\ Writers(b)' = (Writers(b) \ {f}) \cup {}
    BY <1>6, <1>12, LockSets
  <2> QED BY <1>13, <2>1
<1>15. LockOk(Readers(b)', Writers(b)', meta'[b].mode) /\ Writers(b) \subseteq {f}
  <2>1. LockOk({}, {}, Marked)
    BY LockTaken
  <2> QED BY <1>7, <1>13, <1>14, <2>1
<1>16. \A w \in Workers : epc[w] \notin BusyStates
  BY <1>1, ClientAlone
<1>17. Safe'
  BY <1>1, <1>2, <1>3, <1>5, <1>6, <1>7, <1>10, <1>11, <1>12, <1>15, <1>16, WordStep, ZenonT(40)
<1> QED BY <1>2, <1>6, <1>17 DEF Tame
=============================================================================
