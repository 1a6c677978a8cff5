-------------------------- MODULE BufferPoolLoads ---------------------------
(***************************************************************************)
(* What a fix of BufferPool promises: the page stays in its frame, the     *)
(* lock is the client's own, no write is lost, and an evicting flag has an *)
(* evictor that comes back to it.  All of it holds for a pool that evicts  *)
(* with one worker whose clients take no GuardO, and for a pool of any     *)
(* number of workers that never evicts; with two workers or with a GuardO  *)
(* an eviction breaks it (Race2.cfg and Handover1.cfg show how).           *)
(***************************************************************************)
EXTENDS BufferPoolLocks

(* Zenon is the prover of every step that names none. *)
USE Zenon

-----------------------------------------------------------------------------
(* Taking, binding and inserting a frame. *)

(* Nobody else has a lock on a frame that is not in the table. *)
LEMMA LoaderAlone ==
    ASSUME PoolInv, NEW f \in Fibers, Loading(f)
    PROVE  Readers(bid[f]) = {} /\ Writers(bid[f]) \subseteq {f}
<1>1. \A g \in Fibers : pc[g] \in FixStates => bid[g] # bid[f]
  <2>1. \A p \in Pids : page_table[p] # bid[f]
    BY DEF PoolInv, FrameInv, FrameConservation, LoadingIsPrivate
  <2> QED BY <2>1, Resident
<1>2. \A g \in Fibers : Loading(g) /\ bid[g] = bid[f] => g = f
  BY DEF PoolInv, FrameInv, FrameConservation, LoadingIsPrivate
<1>3. \A g \in Fibers : Shares(pc[g], mode[g]) => bid[g] # bid[f]
  <2>1. \A g \in Fibers : Shares(pc[g], mode[g]) => pc[g] \in FixStates
    BY DEF Shares, FixStates
  <2> QED BY <1>1, <2>1
<1>4. \A g \in Fibers : Excludes(pc[g], mode[g]) /\ bid[g] = bid[f] => g = f
  <2>1. \A g \in Fibers : Excludes(pc[g], mode[g]) => pc[g] \in FixStates \/ Loading(g)
    BY DEF Excludes, FixStates, Loading, LoadStates
  <2> QED BY <1>1, <1>2, <2>1
<1> QED BY <1>3, <1>4 DEF Readers, Writers

(* What a client knows about a page it loads or creates. *)
LEMMA LoadingKnows ==
    ASSUME PoolInv, NEW f \in Fibers, Loading(f)
    PROVE  /\ pid[f] \in Pids /\ bid[f] \in Bids /\ bid[f] # NoBid /\ ~(pc[f] \in FixStates)
           /\ mode[f] # "A" => pid[f] \in linked
           /\ mode[f] = "A" => /\ New(f) /\ pid[f] < allocCount /\ pid[f] \notin linked
                               /\ page_table[pid[f]] = NoBid /\ committed[pid[f]] = 0
           /\ pc[f] \in {"undo", "giveBack"} => mode[f] # "A"
<1>1. Fine(f) /\ pc[f] \notin {"idle", "alloc"} /\ ~(pc[f] \in FixStates)
  BY DEF PoolInv, Safe, Loading, LoadStates, FixStates
<1>2. pid[f] \in Pids /\ bid[f] \in Bids
  BY TypeFacts DEF PoolInv, FrameInv
<1>3. bid[f] # NoBid
  BY <1>2, BidAssumption
<1>4. mode[f] = "A" => New(f)
  BY <1>1 DEF New
<1>5. pc[f] \in {"undo", "giveBack"} => mode[f] # "A"
  BY <1>1 DEF Fine, ModeOk, AllocStates
<1> QED BY <1>1, <1>2, <1>3, <1>4, <1>5 DEF Fine

(* The next state of a client that goes on loading. *)
LEMMA LoadingFine ==
    ASSUME PoolInv, NEW f \in Fibers, Loading(f), Loading(f)',
           UNCHANGED <<allocCount, linked, page_table, committed>>,
           mode'[f] = mode[f], pid'[f] = pid[f],
           ModeOk(pc[f], mode[f])', WordOk(pc[f], mode[f], seen[f], meta[bid[f]])',
           (pc[f] \in {"insert", "undo"} => framePid[bid[f]] = pid[f])'
    PROVE  Fine(f)' /\ (New(f)' => New(f) /\ pid'[f] = pid[f])
<1>1. New(f)' <=> mode[f] = "A"
  BY DEF New, Loading, LoadStates
<1>2. pc'[f] \notin FixStates /\ pc'[f] # "reading"
  BY DEF Loading, LoadStates, FixStates
<1> QED BY <1>1, <1>2, LoadingKnows DEF Fine

LEMMA TakeSafe ==
    ASSUME PoolInv, NEW f \in Fibers, Others(f), PoolSame, UNCHANGED allocCount,
           pc[f] \in LooseStates, mode'[f] # "A", pid'[f] \in linked, pc'[f] = "bind"
    PROVE  Safe'
<1>2. /\ Shares(pc'[f], mode'[f]) <=> Shares(pc[f], mode[f])
      /\ Excludes(pc'[f], mode'[f]) <=> Excludes(pc[f], mode[f])
      /\ Shares(pc[f], mode[f]) \/ Excludes(pc[f], mode[f]) => bid'[f] = bid[f]
      /\ pc[f] = "reading" => pc'[f] = "reading"
  <2>1. ~Shares(pc'[f], mode'[f]) /\ ~Excludes(pc'[f], mode'[f])
    BY DEF Shares, Excludes
  <2> QED BY <2>1, LooseLocks
<1>3. ~New(f)'
  BY DEF New
<1>4. Fine(f)'
  <2>1. ModeOk(pc[f], mode[f])' /\ WordOk(pc[f], mode[f], seen[f], meta[bid[f]])'
    BY DEF ModeOk, WordOk
  <2>2. pid'[f] \in linked'
    BY DEF PoolSame
  <2> QED BY <1>3, <2>1, <2>2 DEF Fine, FixStates
<1> QED BY <1>2, <1>3, <1>4, QuietStep

LEMMA FaultSafe ==
    ASSUME PoolInv, NEW f \in Fibers, Fault(f)
    PROVE  Safe' /\ Tame(f)
<1>1. pc[f] = "fault" /\ pc[f] \in WalkStates
  BY DEF Fault, On, WalkStates
<1>2. UNCHANGED <<mode, exact, pid, seen, allocCount>> /\ PoolSame
  BY DEF Fault, PoolSame, allocVars, dataVars
<1>3. mode'[f] # "A" /\ pid'[f] = pid[f] /\ pid'[f] \in linked /\ pc[f] \in LooseStates
  BY <1>1, <1>2, Walking
<1>4. OneWorker => mode'[f] # "O" /\ ~exact'[f]
  BY <1>2 DEF PoolInv, Turns, Parked
<1>5. CASE UNCHANGED bid
  <2>1. PICK l \in {"lookup", "fault", "bind"} : Goto(f, l) \/ (YieldTo(f, l) /\ l # "bind")
    BY DEF Fault, Take
  <2>2. pc'[f] = l /\ \A g \in Fibers \ {f} : pc'[g] = pc[g]
    BY ZenonT(40), <2>1, Updates, ZenonT(30) DEF Goto, YieldTo
  <2>3. Others(f)
    BY <1>2, <1>5, <2>2 DEF Others, Same
  <2>4. Safe'
    BY <1>2, <1>3, <2>1, <2>2, <2>3, WalksOk, TakeSafe
  <2>5. UNCHANGED running \/ (running' = [running EXCEPT ![WorkerOf[f]] = Idle] /\ pc'[f] \in ParkedStates)
    BY <2>1, <2>2 DEF Goto, YieldTo, ParkedStates
  <2> QED BY <1>2, <1>4, <2>3, <2>4, <2>5 DEF Tame, PoolSame
<1>6. CASE ~UNCHANGED bid
  <2>1. PICK c \in Bids : Take(f, c)
    BY <1>6 DEF Fault
  <2>2. pc'[f] = "bind" /\ \A g \in Fibers \ {f} : pc'[g] = pc[g]
    BY <2>1, Updates DEF Take, Goto
  <2>3. \A g \in Fibers \ {f} : bid'[g] = bid[g]
    BY <2>1, Updates DEF Take
  <2>4. Others(f)
    BY <1>2, <2>2, <2>3 DEF Others, Same
  <2>5. Safe'
    BY <1>2, <1>3, <2>2, <2>4, TakeSafe
  <2> QED BY <1>2, <1>4, <2>1, <2>4, <2>5 DEF Tame, PoolSame, Take, Goto
<1> QED BY <1>5, <1>6

LEMMA AllocSafe ==
    ASSUME PoolInv, NEW f \in Fibers, Alloc(f)
    PROVE  Safe' /\ Tame(f)
<1>1. pc[f] = "alloc" /\ pc[f] \in LooseStates
  BY DEF Alloc, On, LooseStates
<1>2. PoolSame
  BY DEF Alloc, PoolSame, dataVars
<1>3. CASE Available = {} \/ allocCount > NumPids
  <2>1. Done(f) /\ UNCHANGED allocCount
    BY <1>3 DEF Alloc
  <2> QED BY <1>1, <1>2, <2>1, DoneSafe
<1>4. CASE ~(Available = {} \/ allocCount > NumPids)
  <2>1. PICK c \in Bids : Take(f, c)
    BY <1>4 DEF Alloc
  <2>2. /\ pid' = [pid EXCEPT ![f] = allocCount] /\ allocCount' = allocCount + 1
        /\ UNCHANGED <<mode, exact, seen>>
    BY <1>4 DEF Alloc
  <2>3. pc'[f] = "bind" /\ \A g \in Fibers \ {f} : pc'[g] = pc[g]
    BY <2>1, Updates DEF Take, Goto
  <2>4. bid'[f] = c /\ \A g \in Fibers \ {f} : bid'[g] = bid[g]
    BY <2>1, Updates DEF Take
  <2>5. pid'[f] = allocCount /\ \A g \in Fibers \ {f} : pid'[g] = pid[g]
    BY <2>2, Updates
  <2>6. Others(f)
    BY <2>2, <2>3, <2>4, <2>5 DEF Others, Same
  <2>7. mode[f] = "A" /\ mode'[f] = "A"
    BY <1>1, <2>2 DEF PoolInv, Safe, Fine, ModeOk
  <2>8. allocCount \in Pids /\ allocCount \in Nat
    BY SMT, <1>4, PidAssumption DEF Pids, PoolInv, FrameInv, TypeInv, TypeOK, AllocTypes
  <2>9. page_table[allocCount] = NoBid /\ committed[allocCount] = 0 /\ allocCount \notin linked
    <3>1. linked \subseteq Nat
      BY TypeFacts DEF PoolInv, FrameInv, TypeInv, TypeOK, AllocTypes
    <3> QED BY SMT, <2>8, <3>1 DEF Unused, PoolInv, Safe
  <2>10. Fine(f)'
    <3>1. ModeOk(pc[f], mode[f])' /\ WordOk(pc[f], mode[f], seen[f], meta[bid[f]])'
      BY <2>3, <2>7 DEF ModeOk, WordOk, AllocStates
    <3>2. pid'[f] < allocCount' /\ pid'[f] \notin linked'
      BY SMT, <1>2, <2>2, <2>5, <2>8, <2>9 DEF PoolSame
    <3>3. page_table'[pid'[f]] = NoBid /\ committed'[pid'[f]] = 0
      BY <1>2, <2>5, <2>9 DEF PoolSame
    <3> QED BY <2>3, <2>7, <3>1, <3>2, <3>3 DEF Fine, FixStates
  <2>11. \A g \in Fibers : Fine(g)'
    <3>1. Spares(f)
      BY <1>2, <2>2, <2>6 DEF Spares, PoolSame
    <3> QED BY <2>10, <3>1, OthersFine
  <2>12. Framed'
    BY <1>2 DEF PoolSame, Framed, PoolInv, Safe
  <2>13. Unused'
    <3>1. \A p \in linked : p \in Nat /\ p < allocCount
      BY TypeFacts DEF Unused, PoolInv, Safe, FrameInv, TypeInv, TypeOK, AllocTypes
    <3>2. \A p \in linked : p < allocCount'
      BY SMT, <2>2, <2>8, <3>1
    <3>3. \A p \in Pids : p \in Nat
      BY TypeFacts DEF PoolInv, FrameInv
    <3>4. \A p \in Pids : p >= allocCount' => p >= allocCount
      BY SMT, <2>2, <2>8, <3>3
    <3>5. /\ linked' = linked /\ page_table' = page_table /\ committed' = committed
          /\ \A p \in Pids : p >= allocCount => page_table[p] = NoBid /\ committed[p] = 0
      BY <1>2 DEF Unused, PoolSame, PoolInv, Safe
    <3> QED BY <3>2, <3>4, <3>5 DEF Unused
  <2>14. Distinct'
    <3>1. \A g \in Fibers \ {f} : New(g)' => New(g) /\ pid'[g] = pid[g]
      BY <2>6 DEF New, Others, Same
    <3>2. \A g \in Fibers \ {f} : New(g) => pid[g] < allocCount
      BY DEF PoolInv, Safe, Fine
    <3>3. \A g \in Fibers \ {f} : New(g)' => pid'[g] # allocCount
      BY SMT, <2>8, <3>1, <3>2
    <3> QED BY <2>5, <3>1, <3>3 DEF Distinct, PoolInv, Safe
  <2>15. /\ ~Shares(pc[f], mode[f]) /\ ~Excludes(pc[f], mode[f])
         /\ ~Shares(pc'[f], mode'[f]) /\ ~Excludes(pc'[f], mode'[f])
    BY <1>1, <2>3 DEF Shares, Excludes
  <2>16. Locks'
    BY <1>2, <2>6, <2>15, LocksQuiet DEF PoolSame
  <2>17. Claims' /\ Owned'
    BY <1>2, ClaimsSame DEF PoolSame, PoolInv, Safe
  <2>18. OnDisk' /\ InFrame'
    <3>1. \A b : BeingRead(b) => BeingRead(b)'
      <4>1. \A g \in Fibers : pc[g] = "reading" => pc'[g] = "reading" /\ bid'[g] = bid[g]
        BY <1>1, <2>6 DEF Others, Same
      <4> QED BY <4>1 DEF BeingRead
    <3> QED BY <1>2, <3>1, ContentKeep DEF PoolSame, PoolInv, Safe
  <2>19. Safe'
    BY ZenonT(40), <2>11, <2>12, <2>13, <2>14, <2>16, <2>17, <2>18 DEF Safe
  <2>20. OneWorker => mode'[f] # "O" /\ ~exact'[f]
    BY <2>2 DEF PoolInv, Turns, Parked
  <2> QED BY <1>2, <2>1, <2>6, <2>19, <2>20 DEF Tame, PoolSame, Take, Goto
<1> QED BY <1>3, <1>4

LEMMA BindSafe ==
    ASSUME PoolInv, OneWorker \/ NoEviction, NEW f \in Fibers, Bind(f)
    PROVE  Safe' /\ Tame(f)
<1>1. pc[f] = "bind" /\ Loading(f) /\ running[WorkerOf[f]] = f /\ pc[f] # "reading"
  BY DEF Bind, On, Loading, LoadStates
<1>2. UNCHANGED <<page_table, framePid, allocCount, linked, data, disk, committed, evictVars, running, fixVars>>
  BY DEF Bind, allocVars, dataVars, Goto
<1>3. PICK b \in Bids : bid[f] = b
  BY <1>1, LoadingKnows
<1>4. meta' = [meta EXCEPT ![b] = rebind_locked(meta[b])] /\ pc' = [pc EXCEPT ![f] = "setFlag"]
  BY <1>3 DEF Bind, Goto
<1>5. meta'[b] = rebind_locked(meta[b]) /\ \A c \in Bids \ {b} : meta'[c] = meta[c]
  BY <1>4, MetaUpdates
<1>6. /\ Others(f) /\ pc'[f] = "setFlag" /\ mode'[f] = mode[f] /\ pid'[f] = pid[f] /\ bid'[f] = bid[f]
      /\ OneWorker => mode'[f] # "O" /\ ~exact'[f]
  BY <1>2, <1>4, FixKept
<1>7. meta'[b].mode = Locked /\ ~meta'[b].evicting
  <2>1. meta[b] \in Word
    BY TypeFacts DEF PoolInv, FrameInv
  <2> QED BY <1>5, <2>1, BindWord
<1>8. Loading(f)'
  BY <1>6 DEF Loading, LoadStates
<1>9. Fine(f)' /\ (New(f)' => New(f) /\ pid'[f] = pid[f])
  <2>1. ModeOk(pc[f], mode[f])'
    BY <1>6 DEF ModeOk, AllocStates
  <2>2. WordOk(pc[f], mode[f], seen[f], meta[bid[f]])'
    BY <1>6 DEF WordOk
  <2>3. pc'[f] \notin {"insert", "undo"}
    BY <1>6
  <2> QED BY <1>1, <1>2, <1>6, <1>8, <2>1, <2>2, <2>3, LoadingFine
<1>10. ~Excludes(pc[f], mode[f]) /\ Excludes(pc'[f], mode'[f]) /\ ~Shares(pc'[f], mode'[f])
  BY <1>1, <1>6 DEF Excludes, Shares
<1>11. Readers(b) = {} /\ Writers(b) = {}
  <2>1. Readers(b) = {} /\ Writers(b) \subseteq {f}
    BY <1>1, <1>3, LoaderAlone
  <2>2. f \notin Writers(b)
    BY <1>10 DEF Writers
  <2> QED BY <2>1, <2>2
<1>12. Readers(b)' = {} /\ Writers(b)' = {f}
  <2>1. Readers(b)' = (Readers(b) \ {f}) \cup {} /\ Writers(b)' = (Writers(b) \ {f}) \cup {f}
    BY <1>3, <1>6, <1>10, LockSets
  <2> QED BY <1>11, <2>1
<1>13. LockOk(Readers(b)', Writers(b)', meta'[b].mode) /\ Writers(b) \subseteq {f}
  <2>1. LockOk({}, {f}, Locked)
    BY LockTaken
  <2>2. Writers(b) \subseteq {f}
    BY <1>11
  <2> QED BY <1>7, <1>12, <2>1, <2>2
<1>14. \A w \in Workers : epc[w] \notin BusyStates
  BY <1>1, ClientAlone
<1>15. Safe'
  BY ZenonT(40), <1>1, <1>2, <1>3, <1>5, <1>6, <1>7, <1>9, <1>13, <1>14, WordStep
<1> QED BY <1>2, <1>6, <1>15 DEF Tame

LEMMA SetFlagSafe ==
    ASSUME PoolInv, OneWorker \/ NoEviction, NEW f \in Fibers, SetFlag(f)
    PROVE  Safe' /\ Tame(f)
<1>1. pc[f] = "setFlag" /\ Loading(f) /\ running[WorkerOf[f]] = f /\ pc[f] # "reading"
  BY DEF SetFlag, On, Loading, LoadStates
<1>2. UNCHANGED <<page_table, framePid, allocCount, linked, data, disk, committed, evictVars, running, fixVars>>
  BY DEF SetFlag, allocVars, dataVars, Goto
<1>3. PICK b \in Bids : bid[f] = b
  BY <1>1, LoadingKnows
<1>4. PICK u : u = IF mode[f] = "A" THEN [meta[b] EXCEPT !.dirty = TRUE] ELSE [meta[b] EXCEPT !.io = TRUE]
  OBVIOUS
<1>5. meta' = [meta EXCEPT ![b] = u] /\ pc' = [pc EXCEPT ![f] = "setPid"]
  BY <1>3, <1>4 DEF SetFlag, Goto
<1>6. /\ Others(f) /\ pc'[f] = "setPid" /\ mode'[f] = mode[f] /\ pid'[f] = pid[f] /\ bid'[f] = bid[f]
      /\ OneWorker => mode'[f] # "O" /\ ~exact'[f]
  BY <1>2, <1>5, FixKept
<1>7. u.mode = meta[b].mode /\ u.evicting = meta[b].evicting /\ (mode[f] = "A" => u.dirty)
  <2>1. meta[b] \in Word
    BY TypeFacts DEF PoolInv, FrameInv
  <2> QED BY <1>4, <2>1 DEF Word
<1>8. Loading(f)'
  BY <1>6 DEF Loading, LoadStates
<1>9. meta'[b] = u
  BY <1>5, MetaUpdates
<1>10. Fine(f)' /\ (New(f)' => New(f) /\ pid'[f] = pid[f])
  <2>1. ModeOk(pc[f], mode[f])'
    BY <1>6 DEF ModeOk, AllocStates
  <2>2. WordOk(pc[f], mode[f], seen[f], meta[bid[f]])'
    BY <1>3, <1>6, <1>7, <1>9 DEF WordOk
  <2>3. pc'[f] \notin {"insert", "undo"}
    BY <1>6
  <2> QED BY <1>1, <1>2, <1>6, <1>8, <2>1, <2>2, <2>3, LoadingFine
<1>11. Excludes(pc[f], mode[f]) /\ Excludes(pc'[f], mode'[f]) /\ ~Shares(pc'[f], mode'[f])
  BY <1>1, <1>6 DEF Excludes, Shares
<1>12. Safe'
  BY <1>1, <1>2, <1>3, <1>5, <1>6, <1>7, <1>10, <1>11, OwnerStores
<1> QED BY <1>2, <1>6, <1>12 DEF Tame

LEMMA UndoSafe ==
    ASSUME PoolInv, OneWorker \/ NoEviction, NEW f \in Fibers, Undo(f)
    PROVE  Safe' /\ Tame(f)
<1>1. pc[f] = "undo" /\ Loading(f) /\ running[WorkerOf[f]] = f /\ pc[f] # "reading"
  BY DEF Undo, On, Loading, LoadStates
<1>2. UNCHANGED <<page_table, framePid, allocCount, linked, data, disk, committed, evictVars, running, fixVars>>
  BY DEF Undo, allocVars, dataVars, Goto
<1>3. PICK b \in Bids : bid[f] = b
  BY <1>1, LoadingKnows
<1>4. meta' = [meta EXCEPT ![b] = rebind_unlocked(meta[b])] /\ pc' = [pc EXCEPT ![f] = "giveBack"]
  BY <1>3 DEF Undo, Goto
<1>5. meta'[b] = rebind_unlocked(meta[b]) /\ \A c \in Bids \ {b} : meta'[c] = meta[c]
  BY <1>4, MetaUpdates
<1>6. /\ Others(f) /\ pc'[f] = "giveBack" /\ mode'[f] = mode[f] /\ pid'[f] = pid[f] /\ bid'[f] = bid[f]
      /\ OneWorker => mode'[f] # "O" /\ ~exact'[f]
  BY <1>2, <1>4, FixKept
<1>7. meta'[b].mode = Unlocked /\ ~meta'[b].evicting
  <2>1. meta[b] \in Word
    BY TypeFacts DEF PoolInv, FrameInv
  <2> QED BY <1>5, <2>1, UnbindWord
<1>8. Loading(f)'
  BY <1>6 DEF Loading, LoadStates
<1>9. Fine(f)' /\ (New(f)' => New(f) /\ pid'[f] = pid[f])
  <2>1. ModeOk(pc[f], mode[f])'
    <3>1. mode[f] # "A"
      BY <1>1, LoadingKnows
    <3> QED BY <1>6, <3>1 DEF ModeOk
  <2>2. WordOk(pc[f], mode[f], seen[f], meta[bid[f]])'
    BY <1>6 DEF WordOk
  <2>3. pc'[f] \notin {"insert", "undo"}
    BY <1>6
  <2> QED BY ZenonT(40), <1>1, <1>2, <1>6, <1>8, <2>1, <2>2, <2>3, LoadingFine
<1>10. ~Excludes(pc'[f], mode'[f]) /\ ~Shares(pc'[f], mode'[f])
  BY <1>6 DEF Excludes, Shares
<1>11. Readers(b) = {} /\ Writers(b) \subseteq {f}
  BY <1>1, <1>3, LoaderAlone
<1>12. Readers(b)' = {} /\ Writers(b)' = {}
  <2>1. Readers(b)' = (Readers(b) \ {f}) \cup {} /\ Writers(b)' = (Writers(b) \ {f}) \cup {}
    BY <1>6, <1>10, LockSets
  <2> QED BY <1>11, <2>1
<1>13. LockOk(Readers(b)', Writers(b)', meta'[b].mode)
  <2>1. LockOk({}, {}, Unlocked)
    BY LockTaken
  <2> QED BY <1>7, <1>12, <2>1
<1>14. \A w \in Workers : epc[w] \notin BusyStates
  BY <1>1, ClientAlone
<1>15. Safe'
  BY ZenonT(40), <1>1, <1>2, <1>3, <1>5, <1>6, <1>7, <1>9, <1>10, <1>11, <1>13, <1>14, WordStep, ZenonT(40)
<1> QED BY <1>2, <1>6, <1>15 DEF Tame

LEMMA GiveBackSafe ==
    ASSUME PoolInv, NEW f \in Fibers, GiveBack(f)
    PROVE  Safe' /\ Tame(f)
<1>1. pc[f] = "giveBack" /\ Loading(f) /\ pc[f] \in LooseStates
  BY DEF GiveBack, On, Loading, LoadStates, LooseStates
<1>2. UNCHANGED <<mode, exact, pid, seen, allocCount>> /\ PoolSame
  BY DEF GiveBack, PoolSame, allocVars, dataVars
<1>3. Goto(f, "lookup") \/ YieldTo(f, "lookup")
  BY DEF GiveBack
<1>4. pc'[f] = "lookup" /\ \A g \in Fibers \ {f} : pc'[g] = pc[g]
  <2>1. pc' = [pc EXCEPT ![f] = "lookup"]
    BY <1>3 DEF Goto, YieldTo
  <2> QED BY <2>1, Updates
<1>5. \A g \in Fibers \ {f} : bid'[g] = bid[g]
  BY Updates DEF GiveBack
<1>6. Others(f)
  BY <1>2, <1>4, <1>5 DEF Others, Same
<1>7. mode'[f] # "A" /\ pid'[f] \in linked
  BY <1>1, <1>2, LoadingKnows
<1>8. Safe'
  BY <1>1, <1>2, <1>4, <1>6, <1>7, WalksOk
<1>9. OneWorker => mode'[f] # "O" /\ ~exact'[f]
  BY <1>2 DEF PoolInv, Turns, Parked
<1>10. UNCHANGED running \/ (running' = [running EXCEPT ![WorkerOf[f]] = Idle] /\ pc'[f] \in ParkedStates)
  BY <1>3, <1>4 DEF Goto, YieldTo, ParkedStates
<1> QED BY <1>2, <1>6, <1>8, <1>9, <1>10 DEF Tame, PoolSame

LEMMA SetPidSafe ==
    ASSUME PoolInv, NEW f \in Fibers, SetPid(f)
    PROVE  Safe' /\ Tame(f)
<1>1. pc[f] = "setPid" /\ Loading(f) /\ pc[f] # "reading"
  BY DEF SetPid, On, Loading, LoadStates
<1>2. UNCHANGED <<page_table, meta, allocCount, linked, data, disk, committed, evictVars, running, fixVars>>
  BY DEF SetPid, allocVars, dataVars, Goto
<1>3. PICK b \in Bids : bid[f] = b
  BY <1>1, LoadingKnows
<1>4. framePid'[b] = pid[f] /\ \A c \in Bids \ {b} : framePid'[c] = framePid[c]
  BY <1>3 DEF SetPid, PoolInv, FrameInv, TypeInv, TypeOK, PoolTypes
<1>5. /\ Others(f) /\ pc'[f] = "insert" /\ mode'[f] = mode[f] /\ pid'[f] = pid[f] /\ bid'[f] = bid[f]
      /\ seen'[f] = seen[f] /\ (OneWorker => mode'[f] # "O" /\ ~exact'[f])
  BY <1>2, FixKept DEF SetPid, Goto
<1>6. Loading(f)'
  BY <1>5 DEF Loading, LoadStates
<1>7. Fine(f)' /\ (New(f)' => New(f) /\ pid'[f] = pid[f])
  <2>1. ModeOk(pc[f], mode[f])'
    BY <1>5 DEF ModeOk, AllocStates
  <2>2. WordOk(pc[f], mode[f], seen[f], meta[bid[f]])'
    <3>1. WordOk(pc[f], mode[f], seen[f], meta[bid[f]])
      BY DEF PoolInv, Safe, Fine
    <3> QED BY <1>1, <1>2, <1>5, <3>1 DEF WordOk
  <2>3. (pc[f] \in {"insert", "undo"} => framePid[bid[f]] = pid[f])'
    BY <1>3, <1>4, <1>5
  <2> QED BY <1>1, <1>2, <1>5, <1>6, <2>1, <2>2, <2>3, LoadingFine, ZenonT(40)
<1>8. \A g \in Fibers : Fine(g)'
  <2>1. Spares(f)
    BY <1>1, <1>2, <1>3, <1>4, <1>5 DEF Spares
  <2> QED BY <1>7, <2>1, OthersFine
<1>9. Framed'
  <2>1. \A p \in Pids : page_table[p] # b /\ (page_table[p] # NoBid => page_table[p] \in Bids)
    BY <1>1, <1>3 DEF PoolInv, FrameInv, FrameConservation, LoadingIsPrivate, TypeInv, TypeOK, PoolTypes
  <2> QED BY <1>2, <1>4, <2>1 DEF Framed, PoolInv, Safe
<1>10. Unused'
  BY <1>2 DEF Unused, PoolInv, Safe
<1>11. Distinct'
  BY <1>5, <1>7, DistinctKeeps DEF PoolInv, Safe
<1>12. /\ ~Shares(pc[f], mode[f]) /\ Excludes(pc[f], mode[f])
       /\ ~Shares(pc'[f], mode'[f]) /\ Excludes(pc'[f], mode'[f])
  BY <1>1, <1>5 DEF Shares, Excludes
<1>13. Locks'
  BY <1>2, <1>5, <1>12, LocksQuiet
<1>14. Claims' /\ Owned'
  BY <1>2, ClaimsSame DEF PoolInv, Safe
<1>15. OnDisk' /\ InFrame'
  <2>1. \A c : BeingRead(c) => BeingRead(c)'
    <3>1. \A g \in Fibers : pc[g] = "reading" => pc'[g] = "reading" /\ bid'[g] = bid[g]
      BY <1>1, <1>5 DEF Others, Same
    <3> QED BY <3>1 DEF BeingRead
  <2> QED BY <1>2, <2>1, ContentKeep DEF PoolInv, Safe
<1>16. Safe'
  BY <1>8, <1>9, <1>10, <1>11, <1>13, <1>14, <1>15 DEF Safe
<1> QED BY <1>2, <1>5, <1>16 DEF Tame

LEMMA InsertSafe ==
    ASSUME PoolInv, NEW f \in Fibers, Insert(f)
    PROVE  Safe' /\ Tame(f)
<1>1. pc[f] = "insert" /\ Loading(f) /\ pc[f] # "reading" /\ Excludes(pc[f], mode[f]) /\ ~Shares(pc[f], mode[f])
  BY DEF Insert, On, Loading, LoadStates, Excludes, Shares
<1>2. UNCHANGED <<meta, framePid, allocCount, linked, disk, committed, evictVars, fixVars>>
  BY DEF Insert, allocVars
<1>3. PICK b \in Bids, p \in Pids : bid[f] = b /\ pid[f] = p
  BY <1>1, LoadingKnows
<1>4. Fine(f) /\ framePid[b] = p /\ b # NoBid
  <2>1. Fine(f)
    BY DEF PoolInv, Safe
  <2> QED BY <1>1, <1>3, <2>1, LoadingKnows DEF Fine
<1>5. CASE page_table[p] # NoBid
  <2>1. Goto(f, "undo") /\ UNCHANGED <<page_table, data>>
    BY <1>3, <1>5 DEF Insert
  <2>2. /\ Others(f) /\ pc'[f] = "undo" /\ mode'[f] = mode[f] /\ pid'[f] = pid[f] /\ bid'[f] = bid[f]
        /\ seen'[f] = seen[f] /\ (OneWorker => mode'[f] # "O" /\ ~exact'[f])
    BY <1>2, <2>1, FixKept DEF Goto
  <2>3. Loading(f)' /\ Excludes(pc'[f], mode'[f]) /\ ~Shares(pc'[f], mode'[f])
    BY <2>2 DEF Loading, LoadStates, Excludes, Shares
  <2>4. Fine(f)' /\ (New(f)' => New(f) /\ pid'[f] = pid[f])
    <3>1. ModeOk(pc[f], mode[f])'
      <4>1. mode[f] # "A"
        BY <1>1, <1>3, <1>5, LoadingKnows
      <4> QED BY <2>2, <4>1 DEF ModeOk
    <3>2. WordOk(pc[f], mode[f], seen[f], meta[bid[f]])'
      BY <2>2 DEF WordOk
    <3>3. (pc[f] \in {"insert", "undo"} => framePid[bid[f]] = pid[f])'
      BY <1>2, <1>3, <1>4, <2>2
    <3> QED BY ZenonT(40), <1>1, <1>2, <2>1, <2>2, <2>3, <3>1, <3>2, <3>3, LoadingFine, ZenonT(40)
  <2>5. PoolSame
    BY <1>2, <2>1 DEF PoolSame
  <2>6. Safe'
    BY <1>1, <1>2, <2>2, <2>3, <2>4, <2>5, QuietStep
  <2> QED BY <1>2, <2>1, <2>2, <2>6 DEF Tame, Goto
<1>6. CASE page_table[p] = NoBid
  <2> DEFINE l == IF mode[f] = "A" THEN "hold" ELSE "reading"
  <2>1. /\ page_table' = [page_table EXCEPT ![p] = b] /\ pc' = [pc EXCEPT ![f] = l]
        /\ IF mode[f] = "A" THEN data' = [data EXCEPT ![b] = Fresh(p)] /\ UNCHANGED running
           ELSE UNCHANGED data /\ running' = [running EXCEPT ![WorkerOf[f]] = Idle]
    BY <1>3, <1>6 DEF Insert, Goto, YieldTo
  <2>2. /\ Others(f) /\ pc'[f] = l /\ mode'[f] = mode[f] /\ pid'[f] = p /\ bid'[f] = b
        /\ seen'[f] = seen[f] /\ (OneWorker => mode'[f] # "O" /\ ~exact'[f])
    <3> HIDE DEF l
    <3> QED BY <1>2, <1>3, <2>1, FixKept
  <2>3. page_table'[p] = b /\ \A q \in Pids \ {p} : page_table'[q] = page_table[q]
    BY <2>1 DEF PoolInv, FrameInv, TypeInv, TypeOK, PoolTypes
  <2>4. \A q \in Pids \ {p} : page_table[q] # b
    BY <1>1, <1>3 DEF PoolInv, FrameInv, FrameConservation, LoadingIsPrivate
  <2>5. /\ \A c \in Bids \ {b} : data'[c] = data[c]
        /\ mode[f] = "A" => data'[b] = Fresh(p)
    <3>1. data \in [Bids -> Content]
      BY DEF PoolInv, FrameInv, TypeInv, TypeOK, DataTypes
    <3>2. CASE mode[f] = "A"
      <4>1. data' = [data EXCEPT ![b] = Fresh(p)]
        BY <2>1, <3>2
      <4> QED BY <3>1, <4>1
    <3>3. CASE mode[f] # "A"
      BY <2>1, <3>3
    <3> QED BY <3>2, <3>3
  <2>6. \A q : Latest(q)' = Latest(q)
    BY <1>2 DEF Latest
  <2>7. mode[f] = "A" => /\ Latest(p) = Fresh(p) /\ New(f) /\ p < allocCount /\ p \notin linked
    BY <1>1, <1>3, LoadingKnows DEF Latest, Fresh
  <2>8. mode[f] # "A" => disk[p] = Latest(p) /\ p \in linked
    BY <1>1, <1>3, <1>6, LoadingKnows DEF PoolInv, Safe, OnDisk
  <2>9. Excludes(pc'[f], mode'[f]) /\ ~Shares(pc'[f], mode'[f])
    BY <2>2 DEF Excludes, Shares
  <2>10. New(f)' => New(f) /\ pid'[f] = pid[f]
    BY <1>3, <2>2, <2>7 DEF New
  <2>11. Fine(f)'
    <3>1. CASE mode[f] = "A"
      <4>1. pc'[f] = "hold" /\ mode'[f] = "A"
        BY <2>2, <3>1
      <4>2. ModeOk(pc[f], mode[f])'
        BY <4>1 DEF ModeOk, AllocStates
      <4>3. WordOk(pc[f], mode[f], seen[f], meta[bid[f]])'
        <5>1. meta[b].dirty
          BY <1>1, <1>3, <1>4, <3>1 DEF Fine, WordOk
        <5> QED BY <1>2, <2>2, <4>1, <5>1 DEF WordOk
      <4>4. ~Loading(f)'
        BY <4>1 DEF Loading, LoadStates
      <4>5. pid'[f] < allocCount' /\ pid'[f] \notin linked'
        BY <1>2, <2>2, <2>7, <3>1
      <4>6. page_table'[pid'[f]] = bid'[f]
        BY <2>2, <2>3
      <4> QED BY <4>1, <4>2, <4>3, <4>4, <4>5, <4>6, ZenonT(40) DEF Fine
    <3>2. CASE mode[f] # "A"
      <4>1. pc'[f] = "reading" /\ mode'[f] # "A"
        BY <2>2, <3>2
      <4>2. ModeOk(pc[f], mode[f])' /\ WordOk(pc[f], mode[f], seen[f], meta[bid[f]])'
        BY <4>1 DEF ModeOk, WordOk
      <4>3. ~New(f)'
        BY <4>1 DEF New
      <4>4. pid'[f] \in linked' /\ page_table'[pid'[f]] = bid'[f]
        BY <1>2, <2>2, <2>3, <2>8, <3>2
      <4>5. (disk[pid[f]] = Latest(pid[f]))'
        BY <1>2, <2>2, <2>8, <3>2 DEF Latest
      <4> QED BY <4>1, <4>2, <4>3, <4>4, <4>5 DEF Fine
    <3> QED BY <3>1, <3>2
  <2>12. \A g \in Fibers : Fine(g)'
    <3>1. Spares(f)
      BY <1>1, <1>2, <1>3, <1>6, <2>2, <2>3 DEF Spares
    <3> QED BY <2>11, <3>1, OthersFine
  <2>13. Framed'
    BY <1>2, <1>4, <2>3 DEF Framed, PoolInv, Safe
  <2>14. Unused'
    <3>1. p < allocCount
      BY <1>1, <1>3, PageExists, ZenonT(30)
    <3>2. \A q \in Pids : q >= allocCount => q # p
      BY SMT, <3>1, TypeFacts DEF PoolInv, FrameInv
    <3> QED BY <1>2, <2>3, <3>2 DEF Unused, PoolInv, Safe
  <2>15. Distinct'
    BY <2>2, <2>10, DistinctKeeps DEF PoolInv, Safe
  <2>16. Locks'
    BY <1>1, <1>2, <1>3, <2>2, <2>9, LocksQuiet
  <2>17. Claims' /\ Owned'
    BY <1>2, ClaimsSame DEF PoolInv, Safe
  <2>18. OnDisk'
    <3>1. linked \subseteq Pids
      BY DEF PoolInv, FrameInv, TypeInv, TypeOK, AllocTypes
    <3> QED BY <1>2, <1>4, <2>3, <2>6, <3>1 DEF OnDisk, PoolInv, Safe
  <2>19. InFrame'
    <3>1. SUFFICES ASSUME NEW q \in Pids, page_table'[q] # NoBid
                   PROVE  /\ BeingRead(page_table[q])' \/ data'[page_table'[q]] = Latest(q)
                          /\ \/ meta[page_table'[q]].dirty
                             \/ disk[q] = Latest(q)
                             \/ \E w \in Workers : Pending(w, page_table'[q])
      <4>1. \A w \in Workers : \A c : Pending(w, c)' <=> Pending(w, c)
        BY <1>2 DEF Pending, evictVars
      <4>2. \A q \in Pids, w \in Workers : Pending(w, page_table[q])' <=> Pending(w, page_table'[q])
        BY <1>2 DEF Pending, evictVars
      <4> QED BY <1>2, <2>6, <4>2 DEF InFrame
    <3>2. CASE q # p
      <4>1. page_table'[q] = page_table[q] /\ page_table[q] # b /\ page_table[q] \in Bids
        BY <2>3, <2>4, <3>1, <3>2 DEF PoolInv, FrameInv, TypeInv, TypeOK, PoolTypes
      <4>2. BeingRead(page_table[q]) => BeingRead(page_table[q])'
        <5>1. \A g \in Fibers : pc[g] = "reading" => pc'[g] = "reading" /\ bid'[g] = bid[g]
          BY <1>1, <2>2 DEF Others, Same
        <5> QED BY <4>1, <5>1 DEF BeingRead
      <4>3. data'[page_table[q]] = data[page_table[q]]
        BY <2>5, <4>1
      <4> QED BY <3>1, <4>1, <4>2, <4>3 DEF InFrame, PoolInv, Safe
    <3>3. CASE q = p
      <4>1. page_table'[q] = b
        BY <2>3, <3>3
      <4>2. CASE mode[f] = "A"
        <5>1. meta[b].dirty
          BY <1>1, <1>3, <1>4, <4>2 DEF Fine, WordOk
        <5> QED BY <2>5, <2>7, <3>3, <4>1, <4>2, <5>1, ZenonT(30)
      <4>3. CASE mode[f] # "A"
        <5>1. pc'[f] = "reading"
          BY <2>2, <4>3
        <5>2. BeingRead(page_table[q])'
          BY <2>2, <4>1, <5>1 DEF BeingRead
        <5> QED BY <2>8, <3>3, <4>3, <5>2
      <4> QED BY <4>2, <4>3
    <3> QED BY <3>2, <3>3
  <2>20. Safe'
    BY <2>12, <2>13, <2>14, <2>15, <2>16, <2>17, <2>18, <2>19, ZenonT(30) DEF Safe
  <2>21. UNCHANGED running \/ (running' = [running EXCEPT ![WorkerOf[f]] = Idle] /\ pc'[f] \in ParkedStates)
    <3>1. mode[f] # "A" => pc'[f] \in ParkedStates
      BY <2>2 DEF ParkedStates
    <3> QED BY <2>1, <3>1
  <2> QED BY <1>2, <2>2, <2>20, <2>21 DEF Tame
<1> QED BY <1>5, <1>6

-----------------------------------------------------------------------------
(* The threads. *)

LEMMA TameTurns ==
    ASSUME PoolInv, OneWorker \/ NoEviction, NEW f \in Fibers, Tame(f),
           running[WorkerOf[f]] = f \/ (UNCHANGED running /\ pc'[f] \in ParkedStates)
    PROVE  Turns'
<1>1. \A g \in Fibers : WorkerOf[g] \in Workers
  BY WorkerAssumption
<1>2. \A w \in Workers : \/ running'[w] = running[w]
                         \/ w = WorkerOf[f] /\ running'[w] = Idle /\ running[w] = f
  <2>1. CASE UNCHANGED running
    BY <2>1
  <2>2. CASE ~UNCHANGED running
    <3>1. running' = [running EXCEPT ![WorkerOf[f]] = Idle] /\ running[WorkerOf[f]] = f
      BY <2>2 DEF Tame
    <3>2. running \in [Workers -> Fibers \cup {Evictor, Idle}]
      BY DEF PoolInv, FrameInv, TypeInv, TypeOK, ThreadTypes
    <3> QED BY <1>1, <3>1, <3>2
  <2> QED BY <2>1, <2>2
<1>3. epc' = epc /\ toEvict' = toEvict /\ toWrite' = toWrite
  BY DEF Tame, evictVars
<1>4. ASSUME OneWorker, NEW g \in Fibers PROVE Parked(g)'
  <2>1. CASE g = f
    <3>1. mode'[f] # "O" /\ ~exact'[f]
      BY <1>4 DEF Tame
    <3>2. running'[WorkerOf[f]] # f => pc'[f] \in ParkedStates
      BY <1>4 DEF Tame
    <3> QED BY <2>1, <3>1, <3>2 DEF Parked
  <2>2. CASE g # f
    <3>1. Same(g) /\ Parked(g)
      BY <1>4, <2>2 DEF Tame, Others, PoolInv, Turns
    <3>2. WorkerOf[g] = WorkerOf[f]
      BY <1>1, <1>4 DEF OneWorker
    <3>3. running'[WorkerOf[g]] # g => running[WorkerOf[g]] # g
      BY <1>1, <1>2, <2>2
    <3> QED BY <3>1, <3>3 DEF Parked, Same
  <2> QED BY <2>1, <2>2
<1>5. ASSUME OneWorker, NEW w \in Workers, epc'[w] \in BusyStates PROVE running'[w] = Evictor
  <2>1. running[w] = Evictor
    BY <1>3, <1>5 DEF PoolInv, Turns
  <2> QED BY <1>2, <2>1, ActorAssumption
<1>6. ASSUME NoEviction, NEW w \in Workers PROVE Asleep(w)'
  <2>1. Asleep(w)
    BY <1>6 DEF PoolInv, Turns
  <2>2. running'[w] # Evictor
    BY <1>2, <2>1, ActorAssumption DEF Asleep
  <2> QED BY <1>3, <2>1, <2>2 DEF Asleep, Claimed
<1> QED BY <1>4, <1>5, <1>6 DEF Turns, OneWorker, NoEviction

LEMMA ClientStep ==
    ASSUME PoolInv, OneWorker \/ NoEviction, NEW f \in Fibers, Client(f)
    PROVE  Safe' /\ Turns'
<1>1. Safe' /\ Tame(f)
  BY ZenonT(40), StartSafe, RestSafe, LookupSafe, LoadSafe, FlagsSafe, CasSafe, PrepareSafe, RecheckSafe, WritePageSafe,
     UnfixSSafe, UnfixXSafe, StoreUnlockedSafe, GuardSafe, HandoverSafe, FaultSafe, AllocSafe, BindSafe,
     SetFlagSafe, SetPidSafe, InsertSafe, UndoSafe, GiveBackSafe, ClearIoSafe, UnlockLoadedSafe, ZenonT(40) DEF Client
<1>2. running[WorkerOf[f]] = f
  <2>1. \E l : On(f, l)
    BY DEF Client, FixS, FixX, FixO, AllocPage, Begin, Rest, Lookup, Load, Flags, Cas, PrepareOptimistic,
       Recheck, HoldYield, WritePage, UnfixS, UnfixX, StoreUnlocked, Validate, ReleaseGuard, Handover, Fault,
       Alloc, Bind, SetFlag, SetPid, Insert, Undo, GiveBack, ClearIo, UnlockLoaded
  <2> QED BY <2>1, ZenonT(30) DEF On
<1> QED BY <1>1, <1>2, TameTurns

LEMMA DeviceReadStep ==
    ASSUME PoolInv, OneWorker \/ NoEviction, NEW f \in Fibers, DeviceRead(f)
    PROVE  Safe' /\ Turns'
BY DeviceReadSafe, TameTurns

-----------------------------------------------------------------------------
(* The steps of the evictors. *)

PartsSame == UNCHANGED <<pc, fixVars, page_table, meta, framePid, allocVars, dataVars>>

(* A step that leaves the clients and the pool alone. *)
LEMMA PartsKeep ==
    ASSUME Safe, PartsSame
    PROVE  Framed' /\ Distinct' /\ Unused' /\ Locks' /\ OnDisk' /\ \A f \in Fibers : Fine(f)'
<1>1. UNCHANGED <<mode, exact, pid, bid, seen, allocCount, linked, data, disk, committed, page_table, meta, framePid, pc>>
  BY DEF PartsSame, fixVars, allocVars, dataVars
<1>2. Framed' /\ Unused'
  BY <1>1 DEF Safe, Framed, Unused
<1>3. Distinct'
  BY <1>1 DEF Safe, Distinct, New
<1>4. Locks'
  BY <1>1 DEF Safe, Locks, Readers, Writers
<1>5. OnDisk'
  BY <1>1 DEF Safe, OnDisk, Latest
<1>6. ASSUME NEW f \in Fibers PROVE Fine(f)'
  <2>1. Fine(f)
    BY DEF Safe
  <2> QED BY <1>1, <2>1 DEF Fine, New, Loading, Latest
<1> QED BY <1>2, <1>3, <1>4, <1>5, <1>6

LEMMA SafeSame ==
    ASSUME Safe, PartsSame, UNCHANGED evictVars
    PROVE  Safe'
<1>1. Framed' /\ Distinct' /\ Unused' /\ Locks' /\ OnDisk' /\ \A f \in Fibers : Fine(f)'
  BY PartsKeep
<1>2. Claims' /\ Owned'
  BY ClaimsSame DEF Safe, PartsSame
<1>3. OnDisk' /\ InFrame'
  BY ContentKeep DEF Safe, PartsSame, fixVars, dataVars, allocVars, BeingRead
<1> QED BY <1>1, <1>2, <1>3 DEF Safe

LEMMA ResumeStep ==
    ASSUME PoolInv, OneWorker \/ NoEviction, NEW w \in Workers, NEW f \in Fibers, Resume(w, f)
    PROVE  Safe' /\ Turns'
<1>1. PartsSame /\ UNCHANGED <<pc, mode, exact, evictVars, epc, toEvict, toWrite>>
  BY DEF Resume, PartsSame, clientVars, poolVars, fixVars, evictVars
<1>2. Safe'
  BY <1>1, SafeSame DEF PoolInv
<1>3. running[w] = Idle /\ WorkerOf[f] = w /\ running'[w] = f /\ \A v \in Workers \ {w} : running'[v] = running[v]
  BY DEF Resume, PoolInv, FrameInv, TypeInv, TypeOK, ThreadTypes
<1>4. ASSUME OneWorker, NEW g \in Fibers PROVE Parked(g)'
  <2>1. Parked(g)
    BY <1>4 DEF PoolInv, Turns
  <2>2. WorkerOf[g] = w
    BY <1>4, WorkerAssumption DEF OneWorker
  <2>3. running[WorkerOf[g]] # g
    BY <1>3, <2>2, ActorAssumption
  <2> QED BY <1>1, <2>1, <2>3 DEF Parked
<1>5. ASSUME OneWorker, NEW v \in Workers, epc'[v] \in BusyStates PROVE running'[v] = Evictor
  <2>1. running[v] = Evictor
    BY <1>1, <1>5 DEF PoolInv, Turns
  <2> QED BY <1>3, <2>1, ActorAssumption
<1>6. ASSUME NoEviction, NEW v \in Workers PROVE Asleep(v)'
  <2>1. Asleep(v)
    BY <1>6 DEF PoolInv, Turns
  <2>2. running'[v] # Evictor
    BY <1>3, <2>1, ActorAssumption DEF Asleep
  <2> QED BY <1>1, <2>1, <2>2 DEF Asleep, Claimed
<1>7. Turns'
  BY <1>4, <1>5, <1>6 DEF Turns, OneWorker, NoEviction
<1> QED BY <1>2, <1>7

LEMMA ResumeEvictorStep ==
    ASSUME PoolInv, OneWorker \/ NoEviction, NEW w \in Workers, ResumeEvictor(w)
    PROVE  Safe' /\ Turns'
<1>1. PartsSame /\ UNCHANGED <<pc, mode, exact, evictVars, epc>>
  BY DEF ResumeEvictor, PartsSame, clientVars, poolVars, fixVars, evictVars
<1>2. Safe'
  BY <1>1, SafeSame DEF PoolInv
<1>3. running[w] = Idle /\ running'[w] = Evictor /\ \A v \in Workers \ {w} : running'[v] = running[v]
  BY DEF ResumeEvictor, PoolInv, FrameInv, TypeInv, TypeOK, ThreadTypes
<1>4. ~NoEviction
  <2>1. SUFFICES ASSUME NoEviction PROVE FALSE
    OBVIOUS
  <2>2. epc[w] = "sleep"
    BY <2>1 DEF PoolInv, Turns, Asleep
  <2>3. Cardinality(free) < FreeTarget
    BY <2>2 DEF ResumeEvictor
  <2>4. free \in SUBSET Bids
    BY DEF PoolInv, FrameInv, TypeInv, TypeOK, PoolTypes
  <2> QED BY <2>1, <2>3, <2>4 DEF NoEviction
<1>5. ASSUME NEW g \in Fibers PROVE Parked(g)'
  <2>1. Parked(g)
    BY <1>4 DEF PoolInv, Turns
  <2>2. WorkerOf[g] = w
    BY <1>4, WorkerAssumption DEF OneWorker
  <2>3. running[WorkerOf[g]] # g
    BY <1>3, <2>2, ActorAssumption
  <2> QED BY <1>1, <2>1, <2>3 DEF Parked
<1>6. ASSUME NEW v \in Workers, epc'[v] \in BusyStates PROVE running'[v] = Evictor
  <2>1. v = w
    BY <1>4 DEF OneWorker
  <2> QED BY <1>3, <2>1
<1>7. Turns'
  BY <1>4, <1>5, <1>6 DEF Turns, OneWorker, NoEviction
<1> QED BY <1>2, <1>7

-----------------------------------------------------------------------------
(* The evictor: while it is on the thread all clients wait at a yield. *)

LEMMA EvictorAlone ==
    ASSUME PoolInv, OneWorker \/ NoEviction, NEW w \in Workers, running[w] = Evictor
    PROVE  /\ OneWorker /\ ~NoEviction
           /\ \A v \in Workers : v = w
           /\ \A f \in Fibers : pc[f] \in ParkedStates
<1>1. ~NoEviction
  BY DEF PoolInv, Turns, Asleep
<1>2. OneWorker
  BY <1>1
<1>3. \A v \in Workers : v = w
  BY <1>2 DEF OneWorker
<1>4. ASSUME NEW f \in Fibers PROVE pc[f] \in ParkedStates
  <2>1. WorkerOf[f] = w
    BY <1>3, WorkerAssumption
  <2>2. running[WorkerOf[f]] # f
    BY <2>1, ActorAssumption
  <2>3. Parked(f)
    BY <1>2 DEF PoolInv, Turns
  <2> QED BY <2>2, <2>3 DEF Parked
<1> QED BY <1>1, <1>2, <1>3, <1>4

LEMMA EvictorTurns ==
    ASSUME PoolInv, OneWorker, ~NoEviction, NEW w \in Workers, UNCHANGED <<pc, mode, exact>>,
           \A f \in Fibers : pc[f] \in ParkedStates,
           epc'[w] \in BusyStates => running'[w] = Evictor
    PROVE  Turns'
<1>1. \A f \in Fibers : Parked(f)'
  BY DEF PoolInv, Turns, Parked
<1>2. \A v \in Workers : v = w
  BY DEF OneWorker
<1> QED BY <1>1, <1>2 DEF Turns, OneWorker, NoEviction

LEMMA InFrameKeeps ==
    ASSUME TypeInv, InFrame, UNCHANGED <<pc, bid, page_table, data, disk, committed>>,
           \A b \in Bids : meta[b].dirty => meta'[b].dirty \/ \E v \in Workers : Pending(v, b)',
           \A v \in Workers, b \in Bids : Pending(v, b) => Pending(v, b)'
    PROVE  InFrame'
<1>1. SUFFICES ASSUME NEW p \in Pids, NEW b, b = page_table[p], b # NoBid
               PROVE  /\ BeingRead(b)' \/ data[b] = Latest(p)
                      /\ \/ meta'[b].dirty
                         \/ disk[p] = Latest(p)
                         \/ \E v \in Workers : Pending(v, b)'
  <2>2. SUFFICES ASSUME NEW p \in Pids, page_table'[p] # NoBid
                 PROVE  (/\ BeingRead(page_table[p]) \/ data[page_table[p]] = Latest(p)
                         /\ \/ meta[page_table[p]].dirty
                            \/ disk[p] = Latest(p)
                            \/ \E v \in Workers : Pending(v, page_table[p]))'
    BY DEF InFrame
  <2>3. PICK b : b = page_table[p]
    OBVIOUS
  <2>4. /\ BeingRead(b)' \/ data[b] = Latest(p)
        /\ \/ meta'[b].dirty
           \/ disk[p] = Latest(p)
           \/ \E v \in Workers : Pending(v, b)'
    BY <1>1, <2>2, <2>3, ZenonT(40)
  <2>5. b = page_table'[p] /\ data' = data /\ disk' = disk /\ committed' = committed
    BY <2>3
  <2>6. BeingRead(b)' <=> BeingRead(page_table[p])'
    BY <2>5 DEF BeingRead
  <2>7. \A v \in Workers : Pending(v, b)' <=> Pending(v, page_table[p])'
    BY <2>5 DEF Pending
  <2> QED BY <2>4, <2>5, <2>6, <2>7 DEF Latest
<1>2. b \in Bids
  BY <1>1 DEF TypeInv, TypeOK, PoolTypes
<1>3. /\ BeingRead(b) \/ data[b] = Latest(p)
      /\ \/ meta[b].dirty
         \/ disk[p] = Latest(p)
         \/ \E v \in Workers : Pending(v, b)
  BY <1>1 DEF InFrame
<1>4. BeingRead(b)' <=> BeingRead(b)
  BY DEF BeingRead
<1> QED BY <1>2, <1>3, <1>4

(* What the claims of the only worker have to say. *)
LEMMA ClaimsOf ==
    ASSUME PoolInv, NEW w \in Workers
    PROVE  /\ \A b \in Claimed(w) : b \in Bids /\ meta[b].evicting /\ ~meta[b].dirty /\ Reclaimable(b)
           /\ epc[w] \in {"unmark", "claim"} => Reclaimable(victim[w]) /\ ~meta[victim[w]].evicting
           /\ epc[w] = "collect" => Reclaimable(victim[w]) /\ meta[victim[w]].evicting
           /\ epc[w] \in {"erase", "commit"} => victim[w] \in Claimed(w)
           /\ unwritten[w] \subseteq toWrite[w]
           /\ epc[w] # "writing" => unwritten[w] = {}
<1>1. \A b \in Claimed(w) : b \in Bids
  BY DEF Claimed, PoolInv, FrameInv, TypeInv, TypeOK, EvictTypes
<1> QED BY <1>1 DEF PoolInv, Safe, Claims

(* An evictor step that leaves the clients and the pool alone. *)
LEMMA EvictorKeeps ==
    ASSUME PoolInv, NEW w \in Workers, \A v \in Workers : v = w, PartsSame,
           Claims', Owned', \A b \in Bids : Pending(w, b) => Pending(w, b)'
    PROVE  Safe'
<1>1. Framed' /\ Distinct' /\ Unused' /\ Locks' /\ OnDisk' /\ \A f \in Fibers : Fine(f)'
  BY PartsKeep DEF PoolInv
<1>2. UNCHANGED <<pc, bid, page_table, data, disk, committed, meta>>
  BY DEF PartsSame, fixVars, dataVars
<1>3. \A v \in Workers, b \in Bids : Pending(v, b) => Pending(v, b)'
  <2>1. SUFFICES ASSUME NEW v \in Workers, NEW b \in Bids, Pending(v, b) PROVE Pending(v, b)'
    OBVIOUS
  <2>2. v = w
    OBVIOUS
  <2>3. Pending(w, b)
    BY <2>1, <2>2
  <2> QED BY <2>2, <2>3
<1>4. InFrame'
  BY <1>2, <1>3, InFrameKeeps DEF PoolInv, FrameInv, Safe
<1> QED BY <1>1, <1>4 DEF Safe

LEMMA StartSweepStep ==
    ASSUME PoolInv, OneWorker \/ NoEviction, NEW w \in Workers, StartSweep(w)
    PROVE  Safe' /\ Turns'
<1>1. /\ OneWorker /\ ~NoEviction
      /\ \A v \in Workers : v = w
      /\ \A f \in Fibers : pc[f] \in ParkedStates
  BY EvictorAlone DEF StartSweep, EvictorOn
<1>2. PartsSame /\ UNCHANGED <<pc, mode, exact, running, victim, toEvict, toWrite, unwritten, meta>>
  BY DEF StartSweep, EvictorGoto, PartsSame, clientVars, fixVars, poolVars
<1>3. running[w] = Evictor /\ epc[w] = "sleep" /\ epc'[w] = "sweep"
  BY DEF StartSweep, EvictorOn, EvictorGoto, PoolInv, FrameInv, TypeInv, TypeOK, ThreadTypes
<1>4. Claims'
  BY <1>1, <1>2, <1>3 DEF PoolInv, Safe, Claims, Claimed, Reclaimable
<1>5. Owned'
  BY <1>1, <1>2, <1>3, ZenonT(30) DEF PoolInv, Safe, Owned, Claimed
<1>6. \A b \in Bids : Pending(w, b) => Pending(w, b)'
  BY <1>2, <1>3 DEF Pending, SweepStates
<1>7. Turns'
  BY <1>1, <1>2, <1>3, EvictorTurns, ZenonT(30)
<1> QED BY ZenonT(40), <1>1, <1>2, <1>4, <1>5, <1>6, <1>7, EvictorKeeps, ZenonT(40)

LEMMA VisitStep ==
    ASSUME PoolInv, OneWorker \/ NoEviction, NEW w \in Workers, Visit(w)
    PROVE  Safe' /\ Turns'
<1>1. /\ OneWorker /\ ~NoEviction
      /\ \A v \in Workers : v = w
      /\ \A f \in Fibers : pc[f] \in ParkedStates
  BY EvictorAlone, ZenonT(30) DEF Visit, EvictorOn
<1>2. PartsSame /\ UNCHANGED <<pc, mode, exact, running, toEvict, toWrite, unwritten, meta>>
  BY DEF Visit, EvictorGoto, PartsSame, clientVars, fixVars, poolVars
<1>3. running[w] = Evictor /\ epc[w] = "sweep"
  BY DEF Visit, EvictorOn
<1>4. \/ UNCHANGED <<epc, victim>>
      \/ \E b : /\ epc'[w] \in {"unmark", "claim"} /\ victim'[w] = b
                /\ Reclaimable(b) /\ ~meta[b].evicting
  <2>1. PICK p \in unvisited[w] :
          LET b == page_table[p] IN
          IF /\ b # NoBid
             /\ framePid[b] = p
             /\ Reclaimable(b)
             /\ ~meta[b].io /\ ~meta[b].evicting
            THEN /\ victim' = [victim EXCEPT ![w] = b]
                 /\ EvictorGoto(w, IF meta[b].mode = Marked THEN "unmark" ELSE "claim")
            ELSE UNCHANGED <<victim, epc, running>>
    BY DEF Visit
  <2> DEFINE b == page_table[p]
             l == IF meta[b].mode = Marked THEN "unmark" ELSE "claim"
  <2>2. \/ UNCHANGED <<epc, victim>>
        \/ /\ Reclaimable(b) /\ ~meta[b].evicting
           /\ victim' = [victim EXCEPT ![w] = b] /\ epc' = [epc EXCEPT ![w] = l]
    BY <2>1 DEF EvictorGoto
  <2>3. l \in {"unmark", "claim"}
    OBVIOUS
  <2> HIDE DEF b, l
  <2>4. epc \in [Workers -> EvictorStates] /\ victim \in [Workers -> Bids \cup {NoBid}]
    BY DEF PoolInv, FrameInv, TypeInv, TypeOK, ThreadTypes, EvictTypes
  <2>5. victim' = [victim EXCEPT ![w] = b] /\ epc' = [epc EXCEPT ![w] = l] => victim'[w] = b /\ epc'[w] = l
    BY <2>4
  <2> QED BY <2>2, <2>3, <2>5
<1>5. Claims'
  <2>1. CASE UNCHANGED <<epc, victim>>
    BY <1>2, <2>1 DEF PoolInv, Safe, Claims, Claimed, Reclaimable
  <2>2. CASE ~UNCHANGED <<epc, victim>>
    <3>1. epc'[w] \in {"unmark", "claim"} /\ Reclaimable(victim'[w]) /\ ~meta[victim'[w]].evicting
      BY <1>4, <2>2
    <3>2. unwritten[w] = {} /\ \A b \in Claimed(w) : meta[b].evicting /\ ~meta[b].dirty /\ Reclaimable(b)
      BY <1>3, ClaimsOf
    <3>3. epc'[w] \notin {"collect", "erase", "commit", "writing"}
      BY <3>1
    <3> QED BY <1>1, <1>2, <3>1, <3>2, <3>3, ZenonT(30) DEF Claims, Claimed, Reclaimable
  <2> QED BY <2>1, <2>2
<1>6. Owned'
  BY <1>1, <1>2, <1>3 DEF PoolInv, Safe, Owned, Claimed
<1>7. epc'[w] \in SweepStates
  BY <1>3, <1>4 DEF SweepStates
<1>8. \A b \in Bids : Pending(w, b) => Pending(w, b)'
  BY <1>2, <1>7 DEF Pending
<1>9. Turns'
  BY <1>1, <1>2, <1>3, EvictorTurns
<1> QED BY <1>1, <1>2, <1>5, <1>6, <1>8, <1>9, EvictorKeeps, ZenonT(30)

LEMMA EndSweepStep ==
    ASSUME PoolInv, OneWorker \/ NoEviction, NEW w \in Workers, EndSweep(w)
    PROVE  Safe' /\ Turns'
<1>1. /\ OneWorker /\ ~NoEviction
      /\ \A v \in Workers : v = w
      /\ \A f \in Fibers : pc[f] \in ParkedStates
  BY EvictorAlone DEF EndSweep, EvictorOn
<1>2. PartsSame /\ UNCHANGED <<pc, mode, exact, victim, toEvict, toWrite, meta>>
  BY DEF EndSweep, PartsSame, clientVars, fixVars, poolVars
<1>3. /\ running[w] = Evictor /\ epc[w] = "sweep"
      /\ unwritten'[w] = toWrite[w]
      /\ epc'[w] = "writing" \/ (epc'[w] = "evictClean" /\ toWrite[w] = {})
  <2>1. running[w] = Evictor /\ epc[w] = "sweep"
    BY DEF EndSweep, EvictorOn
  <2>2. unwritten' = [unwritten EXCEPT ![w] = toWrite[w]]
    BY DEF EndSweep
  <2>3. \/ epc' = [epc EXCEPT ![w] = "writing"]
        \/ epc' = [epc EXCEPT ![w] = "evictClean"] /\ toWrite[w] = {}
    BY DEF EndSweep, EvictorGoto, EvictorYieldTo
  <2>4. epc \in [Workers -> EvictorStates] /\ unwritten \in [Workers -> SUBSET Bids]
    BY DEF PoolInv, FrameInv, TypeInv, TypeOK, ThreadTypes, EvictTypes
  <2> QED BY <2>1, <2>2, <2>3, <2>4
<1>4. Claims'
  <2>1. \A b \in Claimed(w) : meta[b].evicting /\ ~meta[b].dirty /\ Reclaimable(b)
    BY ClaimsOf
  <2>2. epc'[w] \notin {"unmark", "claim", "collect", "erase", "commit"}
    BY <1>3
  <2>3. unwritten'[w] \subseteq toWrite'[w] /\ (epc'[w] # "writing" => unwritten'[w] = {})
    BY <1>2, <1>3
  <2> QED BY <1>1, <1>2, <2>1, <2>2, <2>3 DEF Claims, Claimed, Reclaimable
<1>5. Owned'
  BY <1>1, <1>2, <1>3, ZenonT(30) DEF PoolInv, Safe, Owned, Claimed
<1>6. \A b \in Bids : Pending(w, b) => Pending(w, b)'
  BY <1>2, <1>3 DEF Pending
<1>7. epc'[w] \notin BusyStates
  BY <1>3 DEF BusyStates, SweepStates
<1>8. Turns'
  BY <1>1, <1>2, <1>7, EvictorTurns, ZenonT(30)
<1> QED BY ZenonT(40), <1>1, <1>2, <1>4, <1>5, <1>6, <1>8, EvictorKeeps

(* The precheck never drops a frame. *)
LEMMA PrecheckStep ==
    ASSUME PoolInv, OneWorker \/ NoEviction, NEW w \in Workers, Precheck(w)
    PROVE  Safe' /\ Turns'
<1>0. running[w] = Evictor /\ epc[w] \in {"evictClean", "evictWritten"}
  BY DEF Precheck, EvictorOn
<1>1. /\ OneWorker /\ ~NoEviction
      /\ \A v \in Workers : v = w
      /\ \A f \in Fibers : pc[f] \in ParkedStates
  BY <1>0, EvictorAlone
<1>2. PartsSame /\ UNCHANGED <<pc, mode, exact, unwritten, meta>>
  BY DEF Precheck, PartsSame, clientVars, fixVars, poolVars
<1>3. PICK b \in Claimed(w) :
          IF Evictable(b)
            THEN /\ victim' = [victim EXCEPT ![w] = b]
                 /\ EvictorGoto(w, "erase")
                 /\ UNCHANGED <<toEvict, toWrite>>
            ELSE /\ toEvict' = [toEvict EXCEPT ![w] = @ \ {b}]
                 /\ toWrite' = [toWrite EXCEPT ![w] = @ \ {b}]
                 /\ UNCHANGED <<victim, epc, running>>
  BY DEF Precheck
<1>4. Evictable(b)
  <2>1. meta[b].evicting /\ ~meta[b].dirty /\ Reclaimable(b)
    BY ClaimsOf
  <2>2. page_table[framePid[b]] = b
    BY <1>0 DEF PoolInv, FrameInv, ClaimedStaysMapped, Mine
  <2> QED BY <2>1, <2>2 DEF Evictable
<1>5. victim'[w] = b /\ epc'[w] = "erase" /\ UNCHANGED <<toEvict, toWrite, running>>
  <2>1. victim' = [victim EXCEPT ![w] = b] /\ epc' = [epc EXCEPT ![w] = "erase"] /\ UNCHANGED <<toEvict, toWrite, running>>
    BY <1>3, <1>4 DEF EvictorGoto
  <2>2. epc \in [Workers -> EvictorStates] /\ victim \in [Workers -> Bids \cup {NoBid}]
    BY DEF PoolInv, FrameInv, TypeInv, TypeOK, ThreadTypes, EvictTypes
  <2> QED BY <2>1, <2>2
<1>6. unwritten[w] = {}
  BY <1>0, ClaimsOf
<1>7. Claims'
  <2>1. \A c \in Claimed(w) : meta[c].evicting /\ ~meta[c].dirty /\ Reclaimable(c)
    BY ClaimsOf
  <2>2. epc'[w] \notin {"unmark", "claim", "collect", "writing"} /\ victim'[w] \in Claimed(w)
    BY <1>5
  <2>3. unwritten'[w] = {}
    BY <1>2, <1>6, ZenonT(30)
  <2> QED BY <1>1, <1>2, <1>5, <2>1, <2>2, <2>3 DEF Claims, Claimed, Reclaimable
<1>8. Owned'
  BY <1>0, <1>1, <1>2, <1>5 DEF PoolInv, Safe, Owned, Claimed
<1>9. \A c \in Bids : ~Pending(w, c)
  BY <1>0, <1>6 DEF Pending, SweepStates
<1>10. Turns'
  BY <1>0, <1>1, <1>2, <1>5, EvictorTurns
<1> QED BY <1>1, <1>2, <1>7, <1>8, <1>9, <1>10, EvictorKeeps

LEMMA ReleaseFreedStep ==
    ASSUME PoolInv, OneWorker \/ NoEviction, NEW w \in Workers, ReleaseFreed(w)
    PROVE  Safe' /\ Turns'
<1>0. /\ running[w] = Evictor /\ epc[w] \in {"evictClean", "evictWritten"}
      /\ epc'[w] = "sleep" \/ (epc'[w] = "evictWritten" /\ UNCHANGED running)
  BY DEF ReleaseFreed, EvictorOn, EvictorGoto, EvictorYieldTo, PoolInv, FrameInv, TypeInv, TypeOK, ThreadTypes
<1>1. /\ OneWorker /\ ~NoEviction
      /\ \A v \in Workers : v = w
      /\ \A f \in Fibers : pc[f] \in ParkedStates
  BY <1>0, EvictorAlone
<1>2. PartsSame /\ UNCHANGED <<pc, mode, exact, unwritten, meta, toEvict, toWrite>>
  BY DEF ReleaseFreed, PartsSame, clientVars, fixVars
<1>3. unwritten[w] = {}
  BY <1>0, ClaimsOf
<1>4. Claims'
  <2>1. \A c \in Claimed(w) : meta[c].evicting /\ ~meta[c].dirty /\ Reclaimable(c)
    BY ClaimsOf
  <2>2. epc'[w] \notin {"unmark", "claim", "collect", "erase", "commit"}
    BY <1>0
  <2> QED BY <1>1, <1>2, <1>3, <2>1, <2>2 DEF Claims, Claimed, Reclaimable
<1>5. Owned'
  BY <1>0, <1>1, <1>2 DEF PoolInv, Safe, Owned, Claimed
<1>6. \A c \in Bids : ~Pending(w, c)
  BY <1>0, <1>3 DEF Pending, SweepStates
<1>7. epc'[w] \in BusyStates => running'[w] = Evictor
  BY <1>0 DEF BusyStates, SweepStates
<1>8. Turns'
  BY <1>1, <1>2, <1>7, EvictorTurns
<1> QED BY <1>1, <1>2, <1>4, <1>5, <1>6, <1>8, EvictorKeeps, ZenonT(30)

-----------------------------------------------------------------------------
(* The evictor changes the word of a frame nobody has locked. *)

LEMMA VictimStep ==
    ASSUME PoolInv, \A f \in Fibers : pc[f] \in ParkedStates, NEW b \in Bids, Reclaimable(b),
           UNCHANGED <<pc, fixVars, page_table, framePid, allocVars, dataVars>>,
           \A c \in Bids \ {b} : meta'[c] = meta[c], meta'[b].mode \in {Unlocked, Marked}
    PROVE  Framed' /\ Distinct' /\ Unused' /\ Locks' /\ OnDisk' /\ \A f \in Fibers : Fine(f)'
<1>1. UNCHANGED <<mode, exact, pid, bid, seen, allocCount, linked, data, disk, committed>>
  BY DEF fixVars, allocVars, dataVars
<1>2. Framed' /\ Unused'
  BY <1>1 DEF PoolInv, Safe, Framed, Unused
<1>3. Distinct'
  BY <1>1 DEF PoolInv, Safe, Distinct, New
<1>4. Locks'
  <2>1. \A c \in Bids : Readers(c)' = Readers(c) /\ Writers(c)' = Writers(c)
    BY <1>1 DEF Readers, Writers
  <2>2. meta[b].mode \in {Unlocked, Marked}
    BY DEF Reclaimable
  <2> QED BY <2>1, <2>2, LocksSame DEF PoolInv, Safe
<1>5. OnDisk'
  BY <1>1 DEF PoolInv, Safe, OnDisk, Latest
<1>6. ASSUME NEW f \in Fibers PROVE Fine(f)'
  <2>1. Fine(f) /\ pc[f] \in ParkedStates
    BY DEF PoolInv, Safe
  <2>2. WordOk(pc[f], mode[f], seen[f], meta'[bid[f]])
    <3>1. Excludes(pc[f], mode[f]) => bid[f] \in Bids \ {b}
      <4>1. Excludes(pc[f], mode[f]) => bid[f] \in Bids
        BY TypeFacts DEF PoolInv, FrameInv
      <4>2. Excludes(pc[f], mode[f]) => bid[f] # b
        BY ReclaimableFree DEF Writers
      <4> QED BY <4>1, <4>2
    <3>2. Excludes(pc[f], mode[f]) => meta'[bid[f]] = meta[bid[f]]
      BY <3>1
    <3>3. pc[f] \notin {"cas", "unlocking", "recheck", "setPid", "insert"}
      BY <2>1 DEF ParkedStates
    <3>4. mode[f] \in {"X", "A"} /\ pc[f] \in {"hold", "wrote"} => Excludes(pc[f], mode[f])
      BY DEF Excludes
    <3>5. WordOk(pc[f], mode[f], seen[f], meta[bid[f]])
      BY <2>1 DEF Fine
    <3> QED BY <3>2, <3>3, <3>4, <3>5 DEF WordOk
  <2>3. WordOk(pc[f], mode[f], seen[f], meta[bid[f]])'
    BY <1>1, <2>2
  <2> QED BY <1>1, <2>1, <2>3 DEF Fine, New, Loading, Latest
<1> QED BY <1>2, <1>3, <1>4, <1>5, <1>6

LEMMA UnmarkStep ==
    ASSUME PoolInv, OneWorker \/ NoEviction, NEW w \in Workers, Unmark(w)
    PROVE  Safe' /\ Turns'
<1>0. running[w] = Evictor /\ epc[w] = "unmark"
  BY DEF Unmark, EvictorOn
<1>1. /\ OneWorker /\ ~NoEviction
      /\ \A v \in Workers : v = w
      /\ \A f \in Fibers : pc[f] \in ParkedStates
  BY <1>0, EvictorAlone
<1>2. PICK b \in Bids : victim[w] = b
  BY <1>0 DEF PoolInv, FrameInv, TypeInv, EvictorRefs
<1>3. PICK u : u = clear_mark(meta[b])
  OBVIOUS
<1>4. /\ UNCHANGED <<pc, fixVars, page_table, framePid, allocVars, dataVars>>
      /\ UNCHANGED <<mode, exact, bid, data, disk, committed, running, victim, toEvict, toWrite, unwritten>>
      /\ meta' = [meta EXCEPT ![b] = u] /\ epc' = [epc EXCEPT ![w] = "sweep"]
  BY <1>2, <1>3 DEF Unmark, EvictorGoto, clientVars, fixVars, dataVars
<1>5. /\ epc'[w] = "sweep" /\ meta'[b] = u /\ \A c \in Bids \ {b} : meta'[c] = meta[c]
      /\ meta[b] \in Word
  <2>1. epc \in [Workers -> EvictorStates] /\ meta \in [Bids -> Word]
    BY DEF PoolInv, FrameInv, TypeInv, TypeOK, ThreadTypes, PoolTypes
  <2> QED BY <1>4, <2>1
<1>6. u.mode = (IF meta[b].mode = Marked THEN Unlocked ELSE meta[b].mode)
      /\ u.evicting = meta[b].evicting /\ u.dirty = meta[b].dirty
  BY <1>3, <1>5, ClearMarkWord
<1>7. /\ Reclaimable(b) /\ ~meta[b].evicting /\ unwritten[w] = {}
      /\ \A c \in Claimed(w) : c \in Bids /\ meta[c].evicting /\ ~meta[c].dirty /\ Reclaimable(c)
  BY <1>0, <1>2, ClaimsOf
<1>8. meta'[b].mode \in {Unlocked, Marked}
  BY <1>5, <1>6, <1>7 DEF Reclaimable
<1>9. Framed' /\ Distinct' /\ Unused' /\ Locks' /\ OnDisk' /\ \A f \in Fibers : Fine(f)'
  BY <1>1, <1>4, <1>5, <1>7, <1>8, VictimStep
<1>10. Claimed(w)' = Claimed(w) /\ \A c \in Claimed(w) : meta'[c] = meta[c]
  BY <1>4, <1>5, <1>7 DEF Claimed
<1>11. Claims'
  <2>1. \A c \in Claimed(w)' : meta'[c].evicting /\ ~meta'[c].dirty /\ Reclaimable(c)'
    BY <1>7, <1>10 DEF Reclaimable
  <2>2. epc'[w] \notin {"unmark", "claim", "collect", "erase", "commit"} /\ unwritten'[w] = {}
    BY <1>4, <1>5, <1>7
  <2> QED BY <1>1, <2>1, <2>2 DEF Claims
<1>12. Owned'
  <2>1. \A c \in Bids : meta'[c].evicting => meta[c].evicting
    BY <1>5, <1>6
  <2>2. \A c \in Bids : meta[c].evicting => c \in Claimed(w)
    BY <1>0, <1>1 DEF PoolInv, Safe, Owned
  <2> QED BY <1>10, <2>1, <2>2 DEF Owned
<1>13. InFrame'
  <2>1. \A v \in Workers, c \in Bids : Pending(v, c) => Pending(v, c)'
    <3>1. \A c \in Bids : Pending(w, c) => Pending(w, c)'
      BY <1>4, <1>5 DEF Pending, SweepStates
    <3>2. SUFFICES ASSUME NEW v \in Workers PROVE \A c \in Bids : Pending(v, c) => Pending(v, c)'
      OBVIOUS
    <3>3. v = w
      BY <1>1
    <3> QED BY <3>1, <3>3
  <2>2. \A c \in Bids : meta[c].dirty => meta'[c].dirty
    BY <1>5, <1>6
  <2> QED BY <1>4, <2>1, <2>2, InFrameKeeps DEF PoolInv, FrameInv, Safe
<1>14. Turns'
  BY <1>0, <1>1, <1>4, EvictorTurns
<1> QED BY <1>9, <1>11, <1>12, <1>13, <1>14 DEF Safe

LEMMA ClaimStep ==
    ASSUME PoolInv, OneWorker \/ NoEviction, NEW w \in Workers, Claim(w)
    PROVE  Safe' /\ Turns'
<1>0. running[w] = Evictor /\ epc[w] = "claim"
  BY DEF Claim, EvictorOn
<1>1. /\ OneWorker /\ ~NoEviction
      /\ \A v \in Workers : v = w
      /\ \A f \in Fibers : pc[f] \in ParkedStates
  BY <1>0, EvictorAlone
<1>2. PICK b \in Bids : victim[w] = b
  BY <1>0 DEF PoolInv, FrameInv, TypeInv, EvictorRefs
<1>3. PICK u : u = [meta[b] EXCEPT !.evicting = TRUE]
  OBVIOUS
<1>4. /\ UNCHANGED <<pc, fixVars, page_table, framePid, allocVars, dataVars>>
      /\ UNCHANGED <<mode, exact, bid, data, disk, committed, running, victim, toEvict, toWrite, unwritten>>
      /\ meta' = [meta EXCEPT ![b] = u] /\ epc' = [epc EXCEPT ![w] = "collect"]
  BY <1>2, <1>3 DEF Claim, EvictorGoto, clientVars, fixVars, dataVars
<1>5. /\ epc'[w] = "collect" /\ meta'[b] = u /\ \A c \in Bids \ {b} : meta'[c] = meta[c]
      /\ meta[b] \in Word
  <2>1. epc \in [Workers -> EvictorStates] /\ meta \in [Bids -> Word]
    BY DEF PoolInv, FrameInv, TypeInv, TypeOK, ThreadTypes, PoolTypes
  <2> QED BY <1>4, <2>1
<1>6. u.mode = meta[b].mode /\ u.evicting /\ u.dirty = meta[b].dirty
  BY SMT, <1>3, <1>5, FlagFacts
<1>7. /\ Reclaimable(b) /\ ~meta[b].evicting /\ unwritten[w] = {}
      /\ \A c \in Claimed(w) : c \in Bids /\ meta[c].evicting /\ ~meta[c].dirty /\ Reclaimable(c)
  BY <1>0, <1>2, ClaimsOf
<1>8. meta'[b].mode \in {Unlocked, Marked}
  BY <1>5, <1>6, <1>7 DEF Reclaimable
<1>9. Framed' /\ Distinct' /\ Unused' /\ Locks' /\ OnDisk' /\ \A f \in Fibers : Fine(f)'
  BY <1>1, <1>4, <1>5, <1>7, <1>8, VictimStep
<1>10. Claimed(w)' = Claimed(w) /\ \A c \in Claimed(w) : meta'[c] = meta[c]
  BY <1>4, <1>5, <1>7 DEF Claimed
<1>11. Claims'
  <2>1. \A c \in Claimed(w)' : meta'[c].evicting /\ ~meta'[c].dirty /\ Reclaimable(c)'
    BY <1>7, <1>10 DEF Reclaimable
  <2>2. epc'[w] \notin {"unmark", "claim", "erase", "commit"} /\ unwritten'[w] = {}
    BY <1>4, <1>5, <1>7
  <2>3. meta'[victim'[w]].evicting /\ meta'[victim'[w]].mode \in {Unlocked, Marked}
    BY <1>2, <1>4, <1>5, <1>6, <1>8
  <2> QED BY <1>1, <2>1, <2>2, <2>3 DEF Claims, Reclaimable
<1>12. Owned'
  <2>1. \A c \in Bids : meta'[c].evicting => meta[c].evicting \/ c = b
    BY <1>5
  <2>2. \A c \in Bids : meta[c].evicting => c \in Claimed(w)
    BY <1>0, <1>1 DEF PoolInv, Safe, Owned
  <2>3. victim'[w] = b
    BY <1>2, <1>4
  <2> QED BY <1>5, <1>10, <2>1, <2>2, <2>3 DEF Owned
<1>13. InFrame'
  <2>1. \A v \in Workers, c \in Bids : Pending(v, c) => Pending(v, c)'
    <3>1. \A c \in Bids : Pending(w, c) => Pending(w, c)'
      BY <1>4, <1>5 DEF Pending, SweepStates
    <3>2. SUFFICES ASSUME NEW v \in Workers PROVE \A c \in Bids : Pending(v, c) => Pending(v, c)'
      OBVIOUS
    <3>3. v = w
      BY <1>1
    <3> QED BY <3>1, <3>3, ZenonT(30)
  <2>2. \A c \in Bids : meta[c].dirty => meta'[c].dirty
    BY <1>5, <1>6
  <2> QED BY <1>4, <2>1, <2>2, InFrameKeeps DEF PoolInv, FrameInv, Safe
<1>14. Turns'
  BY <1>0, <1>1, <1>4, EvictorTurns, ZenonT(30)
<1> QED BY <1>9, <1>11, <1>12, <1>13, <1>14 DEF Safe

(* A dirty page goes to the list of pages to write before it is clean. *)
LEMMA CollectStep ==
    ASSUME PoolInv, OneWorker \/ NoEviction, NEW w \in Workers, Collect(w)
    PROVE  Safe' /\ Turns'
<1>0. running[w] = Evictor /\ epc[w] = "collect"
  BY DEF Collect, EvictorOn
<1>1. /\ OneWorker /\ ~NoEviction
      /\ \A v \in Workers : v = w
      /\ \A f \in Fibers : pc[f] \in ParkedStates
  BY <1>0, EvictorAlone
<1>2. PICK b \in Bids : victim[w] = b
  BY <1>0 DEF PoolInv, FrameInv, TypeInv, EvictorRefs
<1>3. PICK u : u = [meta[b] EXCEPT !.dirty = FALSE]
  OBVIOUS
<1>4. /\ UNCHANGED <<pc, fixVars, page_table, framePid, allocVars, dataVars>>
      /\ UNCHANGED <<mode, exact, bid, data, disk, committed, running, victim, unwritten>>
      /\ meta' = [meta EXCEPT ![b] = u] /\ epc' = [epc EXCEPT ![w] = "sweep"]
      /\ IF meta[b].dirty
           THEN toWrite' = [toWrite EXCEPT ![w] = @ \cup {b}] /\ UNCHANGED toEvict
           ELSE toEvict' = [toEvict EXCEPT ![w] = @ \cup {b}] /\ UNCHANGED toWrite
  BY <1>2, <1>3 DEF Collect, EvictorGoto, clientVars, fixVars, dataVars
<1>5. /\ epc'[w] = "sweep" /\ meta'[b] = u /\ \A c \in Bids \ {b} : meta'[c] = meta[c]
      /\ meta[b] \in Word
      /\ meta[b].dirty => b \in toWrite'[w]
      /\ toWrite[w] \subseteq toWrite'[w]
      /\ toEvict'[w] \cup toWrite'[w] = toEvict[w] \cup toWrite[w] \cup {b}
  <2>1. epc \in [Workers -> EvictorStates] /\ meta \in [Bids -> Word]
        /\ toWrite \in [Workers -> SUBSET Bids] /\ toEvict \in [Workers -> SUBSET Bids]
    BY DEF PoolInv, FrameInv, TypeInv, TypeOK, ThreadTypes, PoolTypes, EvictTypes
  <2> QED BY <1>4, <2>1
<1>6. u.mode = meta[b].mode /\ u.evicting = meta[b].evicting /\ ~u.dirty
  BY SMT, <1>3, <1>5, FlagFacts
<1>7. /\ Reclaimable(b) /\ meta[b].evicting /\ unwritten[w] = {}
      /\ \A c \in Claimed(w) : c \in Bids /\ meta[c].evicting /\ ~meta[c].dirty /\ Reclaimable(c)
  BY <1>0, <1>2, ClaimsOf, ZenonT(30)
<1>8. meta'[b].mode \in {Unlocked, Marked}
  BY <1>5, <1>6, <1>7 DEF Reclaimable
<1>9. Framed' /\ Distinct' /\ Unused' /\ Locks' /\ OnDisk' /\ \A f \in Fibers : Fine(f)'
  BY <1>1, <1>4, <1>5, <1>7, <1>8, VictimStep, ZenonT(40)
<1>10. Claimed(w)' = Claimed(w) \cup {b} /\ \A c \in Claimed(w) : c = b \/ meta'[c] = meta[c]
  BY <1>5, <1>7 DEF Claimed
<1>11. Claims'
  <2>1. \A c \in Claimed(w)' : meta'[c].evicting /\ ~meta'[c].dirty /\ Reclaimable(c)'
    <3>1. ASSUME NEW c \in Claimed(w), c # b PROVE meta'[c].evicting /\ ~meta'[c].dirty /\ Reclaimable(c)'
      BY <1>7, <1>10, <3>1 DEF Reclaimable
    <3>2. meta'[b].evicting /\ ~meta'[b].dirty /\ Reclaimable(b)'
      BY <1>5, <1>6, <1>7, <1>8 DEF Reclaimable
    <3> QED BY <1>10, <3>1, <3>2
  <2>2. epc'[w] \notin {"unmark", "claim", "collect", "erase", "commit"} /\ unwritten'[w] = {}
    BY <1>4, <1>5, <1>7
  <2> QED BY <1>1, <2>1, <2>2 DEF Claims
<1>12. Owned'
  <2>1. \A c \in Bids : meta'[c].evicting => meta[c].evicting
    BY <1>5, <1>6
  <2>2. \A c \in Bids : meta[c].evicting => c \in Claimed(w) \/ c = b
    BY <1>1, <1>2 DEF PoolInv, Safe, Owned
  <2>3. \A c \in Bids : meta'[c].evicting => c \in Claimed(w)'
    BY <1>10, <2>1, <2>2
  <2> QED BY <2>3 DEF Owned
<1>13. InFrame'
  <2>1. \A v \in Workers, c \in Bids : Pending(v, c) => Pending(v, c)'
    <3>1. \A c \in Bids : Pending(w, c) => Pending(w, c)'
      BY <1>4, <1>5 DEF Pending, SweepStates
    <3>2. SUFFICES ASSUME NEW v \in Workers PROVE \A c \in Bids : Pending(v, c) => Pending(v, c)'
      OBVIOUS
    <3>3. v = w
      BY <1>1
    <3> QED BY <3>1, <3>3
  <2>2. meta[b].dirty => Pending(w, b)'
    BY <1>5 DEF Pending, SweepStates
  <2>3. \A c \in Bids : meta[c].dirty => meta'[c].dirty \/ \E v \in Workers : Pending(v, c)'
    BY <1>5, <2>2
  <2> QED BY <1>4, <2>1, <2>3, InFrameKeeps DEF PoolInv, FrameInv, Safe
<1>14. Turns'
  BY <1>0, <1>1, <1>4, EvictorTurns
<1> QED BY <1>9, <1>11, <1>12, <1>13, <1>14, ZenonT(40) DEF Safe

LEMMA CommitStep ==
    ASSUME PoolInv, OneWorker \/ NoEviction, NEW w \in Workers, Commit(w)
    PROVE  Safe' /\ Turns'
<1>0. running[w] = Evictor /\ epc[w] = "commit"
  BY DEF Commit, EvictorOn
<1>1. /\ OneWorker /\ ~NoEviction
      /\ \A v \in Workers : v = w
      /\ \A f \in Fibers : pc[f] \in ParkedStates
  BY <1>0, EvictorAlone
<1>2. PICK b \in Bids : victim[w] = b
  BY <1>0 DEF PoolInv, FrameInv, TypeInv, EvictorRefs
<1>3. PICK u : u = [meta[b] EXCEPT !.evicting = FALSE]
  OBVIOUS
<1>4. /\ UNCHANGED <<pc, fixVars, page_table, framePid, allocVars, dataVars>>
      /\ UNCHANGED <<mode, exact, bid, data, disk, committed, running, victim, unwritten>>
      /\ meta' = [meta EXCEPT ![b] = u]
      /\ \E l \in {"evictClean", "evictWritten"} : epc' = [epc EXCEPT ![w] = l]
      /\ toEvict' = [toEvict EXCEPT ![w] = @ \ {b}]
      /\ toWrite' = [toWrite EXCEPT ![w] = @ \ {b}]
  BY <1>2, <1>3 DEF Commit, EvictorGoto, clientVars, fixVars, dataVars
<1>5. /\ epc'[w] \in {"evictClean", "evictWritten"}
      /\ meta'[b] = u /\ \A c \in Bids \ {b} : meta'[c] = meta[c]
      /\ meta[b] \in Word
      /\ toEvict'[w] \cup toWrite'[w] = (toEvict[w] \cup toWrite[w]) \ {b}
  <2>1. epc \in [Workers -> EvictorStates] /\ meta \in [Bids -> Word]
        /\ toWrite \in [Workers -> SUBSET Bids] /\ toEvict \in [Workers -> SUBSET Bids]
    BY DEF PoolInv, FrameInv, TypeInv, TypeOK, ThreadTypes, PoolTypes, EvictTypes
  <2> QED BY <1>4, <2>1
<1>6. u.mode = meta[b].mode /\ ~u.evicting /\ u.dirty = meta[b].dirty
  BY SMT, <1>3, <1>5, FlagFacts
<1>7. /\ b \in Claimed(w) /\ unwritten[w] = {}
      /\ \A c \in Claimed(w) : c \in Bids /\ meta[c].evicting /\ ~meta[c].dirty /\ Reclaimable(c)
  BY <1>0, <1>2, ClaimsOf
<1>8. Reclaimable(b) /\ meta'[b].mode \in {Unlocked, Marked}
  BY <1>5, <1>6, <1>7 DEF Reclaimable
<1>9. Framed' /\ Distinct' /\ Unused' /\ Locks' /\ OnDisk' /\ \A f \in Fibers : Fine(f)'
  BY <1>1, <1>4, <1>5, <1>8, VictimStep, ZenonT(30)
<1>10. Claimed(w)' = Claimed(w) \ {b} /\ \A c \in Claimed(w) \ {b} : meta'[c] = meta[c]
  BY <1>5, <1>7 DEF Claimed
<1>11. Claims'
  <2>1. \A c \in Claimed(w)' : meta'[c].evicting /\ ~meta'[c].dirty /\ Reclaimable(c)'
    <3>1. ASSUME NEW c \in Claimed(w) \ {b} PROVE meta'[c].evicting /\ ~meta'[c].dirty /\ Reclaimable(c)'
      BY <1>7, <1>10, <3>1 DEF Reclaimable
    <3> QED BY <1>10, <3>1
  <2>2. epc'[w] \notin {"unmark", "claim", "collect", "erase", "commit"} /\ unwritten'[w] = {}
    BY <1>4, <1>5, <1>7
  <2> QED BY <1>1, <2>1, <2>2 DEF Claims
<1>12. Owned'
  <2>1. \A c \in Bids : meta'[c].evicting => meta[c].evicting /\ c # b
    BY <1>5, <1>6
  <2>2. \A c \in Bids : meta[c].evicting => c \in Claimed(w)
    BY <1>0, <1>1 DEF PoolInv, Safe, Owned
  <2>3. \A c \in Bids : meta'[c].evicting => c \in Claimed(w)'
    BY <1>10, <2>1, <2>2
  <2> QED BY <2>3 DEF Owned
<1>13. InFrame'
  <2>1. \A v \in Workers, c \in Bids : ~Pending(v, c)
    <3>1. SUFFICES ASSUME NEW v \in Workers, NEW c \in Bids, Pending(v, c) PROVE FALSE
      OBVIOUS
    <3>2. v = w
      BY <1>1
    <3>3. Pending(w, c)
      BY <3>1, <3>2
    <3> QED BY <1>0, <1>7, <3>3 DEF Pending, SweepStates
  <2>2. \A c \in Bids : meta[c].dirty => meta'[c].dirty
    BY <1>5, <1>6
  <2> QED BY <1>4, <2>1, <2>2, InFrameKeeps DEF PoolInv, FrameInv, Safe
<1>14. Turns'
  BY <1>0, <1>1, <1>4, EvictorTurns
<1> QED BY <1>9, <1>11, <1>12, <1>13, <1>14 DEF Safe

(* The page that leaves the table is on disk, and nobody has it fixed. *)
LEMMA EraseStep ==
    ASSUME PoolInv, OneWorker \/ NoEviction, NEW w \in Workers, Erase(w)
    PROVE  Safe' /\ Turns'
<1>0. running[w] = Evictor /\ epc[w] = "erase"
  BY DEF Erase, EvictorOn
<1>1. /\ OneWorker /\ ~NoEviction
      /\ \A v \in Workers : v = w
      /\ \A f \in Fibers : pc[f] \in ParkedStates
  BY <1>0, EvictorAlone
<1>2. PICK b \in Bids : victim[w] = b
  BY <1>0 DEF PoolInv, FrameInv, TypeInv, EvictorRefs
<1>3. PICK p \in Pids : p = framePid[b] /\ page_table[p] = b
  BY <1>0, <1>2 DEF PoolInv, FrameInv, ClaimedStaysMapped, Mine
<1>4. /\ UNCHANGED <<meta, framePid, running, victim, toEvict, toWrite, unwritten>>
      /\ UNCHANGED <<pc, mode, exact, pid, bid, seen, allocCount, linked, data, disk, committed>>
      /\ page_table' = [page_table EXCEPT ![p] = NoBid]
      /\ epc' = [epc EXCEPT ![w] = "commit"]
  BY <1>2, <1>3 DEF Erase, EvictorGoto, clientVars, fixVars, allocVars, dataVars
<1>5. /\ epc'[w] = "commit" /\ page_table'[p] = NoBid
      /\ \A q \in Pids \ {p} : page_table'[q] = page_table[q]
  <2>1. epc \in [Workers -> EvictorStates] /\ page_table \in [Pids -> Bids \cup {NoBid}]
    BY DEF PoolInv, FrameInv, TypeInv, TypeOK, ThreadTypes, PoolTypes
  <2> QED BY <1>4, <2>1
<1>6. b \in Claimed(w) /\ unwritten[w] = {} /\ ~meta[b].dirty /\ Reclaimable(b)
  BY <1>0, <1>2, ClaimsOf
<1>7. \A q \in Pids : page_table'[q] # NoBid => q # p /\ page_table'[q] = page_table[q]
  BY <1>5
<1>8. Framed'
  BY <1>4, <1>7 DEF PoolInv, Safe, Framed
<1>9. Unused'
  <2>1. \A q \in Pids : page_table[q] = NoBid => page_table'[q] = NoBid
    BY <1>7
  <2> QED BY <1>4, <2>1 DEF PoolInv, Safe, Unused
<1>10. Distinct'
  BY <1>4 DEF PoolInv, Safe, Distinct, New
<1>11. Locks'
  BY <1>4 DEF PoolInv, Safe, Locks, Readers, Writers
<1>12. Claims' /\ Owned'
  <2>1. Claimed(w)' = Claimed(w)
    BY <1>4 DEF Claimed
  <2>2. \A c \in Claimed(w) : meta[c].evicting /\ ~meta[c].dirty /\ Reclaimable(c)
    BY ClaimsOf
  <2>3. \A c : Reclaimable(c)' <=> Reclaimable(c)
    BY <1>4 DEF Reclaimable
  <2>4. epc'[w] \notin {"unmark", "claim", "collect", "writing"} /\ victim'[w] \in Claimed(w) /\ unwritten'[w] = {}
    BY <1>2, <1>4, <1>5, <1>6
  <2>5. Claims'
    BY <1>1, <1>4, <2>1, <2>2, <2>3, <2>4, ZenonT(40) DEF Claims
  <2>6. Owned'
    BY <1>0, <1>1, <1>4, <2>1, ZenonT(40) DEF PoolInv, Safe, Owned
  <2> QED BY <2>5, <2>6
<1>13. ASSUME NEW f \in Fibers PROVE Fine(f)'
  <2>1. Fine(f) /\ pc[f] \in ParkedStates
    BY <1>1 DEF PoolInv, Safe
  <2>2. ~Loading(f)
    BY <2>1 DEF Loading, LoadStates, ParkedStates
  <2>3. pc[f] \in FixStates => Shares(pc[f], mode[f]) \/ Excludes(pc[f], mode[f])
    <3>1. pc[f] \in FixStates => pc[f] \in {"hold", "wrote", "reading", "readDone"}
      BY <2>1 DEF FixStates, ParkedStates
    <3>2. mode[f] \in {"S", "X", "O", "A"} /\ ModeOk(pc[f], mode[f])
      BY <2>1 DEF Fine, PoolInv, FrameInv, TypeInv, TypeOK, FixTypes
    <3>3. pc[f] \in {"hold", "wrote"} => Shares(pc[f], mode[f]) \/ Excludes(pc[f], mode[f])
      BY <3>2 DEF ModeOk, Shares, Excludes
    <3>4. pc[f] \in {"reading", "readDone"} => Excludes(pc[f], mode[f])
      BY DEF Excludes
    <3> QED BY <3>1, <3>3, <3>4
  <2>4. Shares(pc[f], mode[f]) \/ Excludes(pc[f], mode[f]) => bid[f] # b
    BY <1>6, ReclaimableFree DEF Readers, Writers
  <2>5. pc[f] \in FixStates => page_table[pid[f]] = bid[f] /\ pid[f] \in Pids
    BY <2>1, TypeFacts DEF Fine, PoolInv, FrameInv
  <2>6. pc[f] \in FixStates => page_table'[pid[f]] = bid[f]
    <3>1. pc[f] \in FixStates => pid[f] \in Pids \ {p}
      BY <1>3, <2>3, <2>4, <2>5, ZenonT(30)
    <3> QED BY <1>5, <2>5, <3>1
  <2>7. New(f)' <=> New(f)
    BY <1>4 DEF New
  <2>8. ~Loading(f)'
    BY <1>4, <2>2 DEF Loading
  <2>9. WordOk(pc[f], mode[f], seen[f], meta[bid[f]])'
    BY <1>4, <2>1 DEF Fine
  <2> QED BY <1>4, <2>1, <2>6, <2>7, <2>8, <2>9, ZenonT(40) DEF Fine, Latest
<1>14. \A v \in Workers, c \in Bids : ~Pending(v, c)
  <2>1. SUFFICES ASSUME NEW v \in Workers, NEW c \in Bids, Pending(v, c) PROVE FALSE
    OBVIOUS
  <2>2. v = w
    BY <1>1
  <2>3. Pending(w, c)
    BY <2>1, <2>2
  <2> QED BY <1>0, <1>6, <2>3 DEF Pending, SweepStates
<1>15. \A q : Latest(q)' = Latest(q)
  BY <1>4 DEF Latest
<1>16. OnDisk'
  <2>1. disk[p] = Latest(p)
    BY <1>2, <1>3, <1>6, <1>14, BidAssumption DEF PoolInv, Safe, InFrame
  <2>2. ASSUME NEW q \in linked, page_table'[q] = NoBid PROVE disk[q] = Latest(q)
    <3>1. CASE q = p
      BY <2>1, <3>1
    <3>2. CASE q # p
      <4>1. q \in Pids \ {p}
        BY <3>2 DEF PoolInv, FrameInv, TypeInv, TypeOK, AllocTypes
      <4> QED BY <1>5, <2>2, <4>1 DEF PoolInv, Safe, OnDisk
    <3> QED BY <3>1, <3>2
  <2> QED BY <1>4, <1>15, <2>2 DEF OnDisk
<1>17. InFrame'
  <2>1. SUFFICES ASSUME NEW q \in Pids, page_table'[q] # NoBid
                 PROVE  (/\ BeingRead(page_table[q]) \/ data[page_table[q]] = Latest(q)
                         /\ meta[page_table[q]].dirty \/ disk[q] = Latest(q))'
    BY DEF InFrame
  <2>2. PICK c : c = page_table[q]
    OBVIOUS
  <2>3. c = page_table'[q] /\ c # NoBid
    BY <1>7, <2>1, <2>2
  <2>4. c \in Bids
    BY <2>2, <2>3 DEF PoolInv, FrameInv, TypeInv, TypeOK, PoolTypes
  <2>5. BeingRead(c) \/ data[c] = Latest(q)
    BY <2>2, <2>3 DEF PoolInv, Safe, InFrame
  <2>6. meta[c].dirty \/ disk[q] = Latest(q)
    BY <1>14, <2>2, <2>3, <2>4 DEF PoolInv, Safe, InFrame
  <2>7. BeingRead(c) => BeingRead(page_table[q])'
    BY <1>4, <2>3 DEF BeingRead
  <2> QED BY <1>4, <1>15, <2>3, <2>5, <2>6, <2>7
<1>18. Turns'
  BY <1>0, <1>1, <1>4, EvictorTurns
<1> QED BY ZenonT(40), <1>8, <1>9, <1>10, <1>11, <1>12, <1>13, <1>16, <1>17, <1>18, ZenonT(40) DEF Safe

(* A page that is written back is not being written by anybody else. *)
LEMMA DeviceWriteStep ==
    ASSUME PoolInv, OneWorker \/ NoEviction, NEW w \in Workers, DeviceWrite(w)
    PROVE  Safe' /\ Turns'
<1>0. epc[w] = "writing"
  BY DEF DeviceWrite
<1>1. OneWorker /\ ~NoEviction /\ \A v \in Workers : v = w
  <2>1. ~NoEviction
    BY <1>0 DEF PoolInv, Turns, Asleep
  <2> QED BY <2>1 DEF OneWorker
<1>2. PICK b \in unwritten[w] :
        /\ disk' = [disk EXCEPT ![framePid[b]] = data[b]]
        /\ unwritten' = [unwritten EXCEPT ![w] = @ \ {b}]
        /\ epc' = [epc EXCEPT ![w] = IF unwritten[w] = {b} THEN "evictClean" ELSE @]
  BY DEF DeviceWrite
<1>3. b \in toWrite[w] /\ b \in Claimed(w)
  BY ClaimsOf DEF Claimed
<1>4. b \in Bids /\ meta[b].evicting /\ ~meta[b].dirty /\ Reclaimable(b)
  BY <1>3, ClaimsOf
<1>5. PICK p \in Pids : p = framePid[b] /\ page_table[p] = b
  BY <1>0, <1>3 DEF PoolInv, FrameInv, ClaimedStaysMapped, Mine
<1>6. /\ UNCHANGED <<running, page_table, meta, framePid, victim, toEvict, toWrite>>
      /\ UNCHANGED <<pc, mode, exact, pid, bid, seen, allocCount, linked, data, committed>>
  BY DEF DeviceWrite, clientVars, fixVars, poolVars, allocVars
<1>7. /\ disk'[p] = data[b] /\ \A q \in Pids \ {p} : disk'[q] = disk[q]
      /\ unwritten'[w] = unwritten[w] \ {b}
      /\ epc'[w] = "writing" \/ (epc'[w] = "evictClean" /\ unwritten'[w] = {})
  <2>1. epc \in [Workers -> EvictorStates] /\ unwritten \in [Workers -> SUBSET Bids] /\ disk \in [Pids -> Content]
    BY DEF PoolInv, FrameInv, TypeInv, TypeOK, ThreadTypes, EvictTypes, DataTypes
  <2>2. disk'[p] = data[b] /\ \A q \in Pids \ {p} : disk'[q] = disk[q]
    BY <1>2, <1>5, <2>1
  <2>3. unwritten'[w] = unwritten[w] \ {b}
    BY <1>2, <2>1
  <2>4. epc'[w] = IF unwritten[w] = {b} THEN "evictClean" ELSE epc[w]
    BY <1>2, <2>1
  <2> QED BY <1>0, <2>2, <2>3, <2>4
<1>8. Framed' /\ Unused'
  BY <1>6 DEF PoolInv, Safe, Framed, Unused
<1>9. Distinct'
  BY <1>6 DEF PoolInv, Safe, Distinct, New
<1>10. Locks'
  BY <1>6 DEF PoolInv, Safe, Locks, Readers, Writers
<1>11. Claims' /\ Owned'
  <2>1. Claimed(w)' = Claimed(w)
    BY <1>6 DEF Claimed
  <2>2. \A c \in Claimed(w) : meta[c].evicting /\ ~meta[c].dirty /\ Reclaimable(c)
    BY ClaimsOf
  <2>3. \A c : Reclaimable(c)' <=> Reclaimable(c)
    BY <1>6 DEF Reclaimable
  <2>4. epc'[w] \notin {"unmark", "claim", "collect", "erase", "commit"} /\ (epc'[w] # "writing" => unwritten'[w] = {})
    BY <1>7
  <2>5. unwritten'[w] \subseteq toWrite'[w]
    <3>1. unwritten[w] \subseteq toWrite[w]
      BY ClaimsOf
    <3> QED BY <1>6, <1>7, <3>1
  <2>6. Claims'
    BY <1>1, <1>6, <2>1, <2>2, <2>3, <2>4, <2>5, ZenonT(40) DEF Claims
  <2>7. Owned'
    BY <1>0, <1>1, <1>6, <2>1, ZenonT(30) DEF PoolInv, Safe, Owned
  <2> QED BY <2>6, <2>7
<1>12. \A q : Latest(q)' = Latest(q)
  BY <1>6 DEF Latest
<1>13. Writers(b) = {}
  BY <1>4, ReclaimableFree
<1>14. data[b] = Latest(p)
  <2>1. BeingRead(b) \/ data[b] = Latest(p)
    BY <1>4, <1>5, BidAssumption, ZenonT(40) DEF PoolInv, Safe, InFrame
  <2>2. ~BeingRead(b)
    BY <1>13 DEF BeingRead, Writers, Excludes
  <2> QED BY <2>1, <2>2
<1>15. ASSUME NEW f \in Fibers PROVE Fine(f)'
  <2>1. Fine(f)
    BY DEF PoolInv, Safe
  <2>2. pc[f] = "reading" => disk'[pid[f]] = Latest(pid[f])
    <3>1. pc[f] = "reading" => pid[f] \in Pids /\ disk[pid[f]] = Latest(pid[f])
      BY <2>1, TypeFacts DEF Fine, PoolInv, FrameInv, FixStates
    <3> QED BY <1>7, <1>14, <3>1
  <2>3. New(f)' <=> New(f)
    BY <1>6 DEF New
  <2>4. Loading(f)' <=> Loading(f)
    BY <1>6 DEF Loading
  <2> QED BY <1>6, <1>12, <2>1, <2>2, <2>3, <2>4, ZenonT(40) DEF Fine
<1>16. OnDisk'
  <2>1. \A q \in linked : q \in Pids
    BY ZenonT(40) DEF PoolInv, FrameInv, TypeInv, TypeOK, AllocTypes
  <2>2. \A q \in linked : page_table[q] = NoBid => q \in Pids \ {p}
    BY <1>4, <1>5, <2>1, BidAssumption
  <2> QED BY <1>6, <1>7, <1>12, <2>2 DEF PoolInv, Safe, OnDisk
<1>17. InFrame'
  <2>1. SUFFICES ASSUME NEW q \in Pids, page_table'[q] # NoBid
                 PROVE  (/\ BeingRead(page_table[q]) \/ data[page_table[q]] = Latest(q)
                         /\ \/ meta[page_table[q]].dirty
                            \/ disk[q] = Latest(q)
                            \/ \E v \in Workers : Pending(v, page_table[q]))'
    BY DEF InFrame
  <2>2. PICK c : c = page_table[q] /\ c = page_table'[q] /\ c # NoBid
    BY <1>6, <2>1
  <2>3. /\ BeingRead(c) \/ data[c] = Latest(q)
        /\ \/ meta[c].dirty
           \/ disk[q] = Latest(q)
           \/ \E v \in Workers : Pending(v, c)
    BY <2>2, ZenonT(40) DEF PoolInv, Safe, InFrame
  <2>4. BeingRead(c) => BeingRead(page_table[q])'
    BY <1>6, <2>2 DEF BeingRead
  <2>5. CASE q = p
    BY ZenonT(40), <1>6, <1>7, <1>12, <1>14, <2>2, <2>3, <2>4, <2>5, ZenonT(40)
  <2>6. CASE q # p
    <3>1. c # b
      BY <1>5, <2>2, <2>6, ZenonT(30) DEF PoolInv, FrameInv, FrameConservation, TableIsInjective
    <3>2. disk'[q] = disk[q]
      BY <1>7, <2>6
    <3>3. ASSUME Pending(w, c) PROVE Pending(w, page_table[q])'
      <4>1. c \in toWrite[w] /\ c \in unwritten[w]
        BY <1>0, <3>3 DEF Pending, SweepStates
      <4>2. c \in toWrite'[w] /\ c \in unwritten'[w]
        BY <1>6, <1>7, <3>1, <4>1
      <4> QED BY <2>2, <4>2 DEF Pending
    <3>4. (\E v \in Workers : Pending(v, c)) => Pending(w, c)
      BY <1>1
    <3> QED BY ZenonT(40), <1>6, <1>12, <2>2, <2>3, <2>4, <3>2, <3>3, <3>4, ZenonT(30)
  <2> QED BY <2>5, <2>6
<1>18. Turns'
  <2>1. \A f \in Fibers : Parked(f)'
    BY <1>1, <1>6 DEF PoolInv, Turns, Parked
  <2>2. epc'[w] \notin BusyStates
    BY <1>7 DEF BusyStates, SweepStates
  <2> QED BY <1>1, <2>1, <2>2 DEF Turns, OneWorker, NoEviction
<1> QED BY ZenonT(40), <1>8, <1>9, <1>10, <1>11, <1>15, <1>16, <1>17, <1>18, ZenonT(30) DEF Safe

-----------------------------------------------------------------------------
(* The inductive invariant. *)

LEMMA PoolInit == Init => PoolInv
<1> SUFFICES ASSUME Init PROVE PoolInv
  OBVIOUS
<1>1. FrameInv
  BY FrameInit
<1>2. /\ \A f \in Fibers : /\ pc[f] = "idle" /\ mode[f] = "S" /\ ~exact[f]
      /\ \A w \in Workers : /\ epc[w] = "sleep" /\ running[w] = Idle
                            /\ toEvict[w] = {} /\ toWrite[w] = {} /\ unwritten[w] = {}
      /\ \A p \in Pids : page_table[p] = NoBid /\ committed[p] = 0
      /\ \A b \in Bids : meta[b] = ZeroWord
  BY DEF Init
<1>3. Turns
  <2>1. \A w \in Workers : Claimed(w) = {}
    BY <1>2 DEF Claimed
  <2>2. \A w \in Workers : epc[w] \notin BusyStates
    BY <1>2 DEF BusyStates, SweepStates
  <2>3. \A f \in Fibers : Parked(f)
    BY <1>2 DEF Parked, ParkedStates
  <2>4. \A w \in Workers : Asleep(w)
    BY <1>2, <2>1, ActorAssumption DEF Asleep
  <2> QED BY <2>2, <2>3, <2>4 DEF Turns
<1>4. Framed /\ Distinct /\ InFrame
  BY <1>2 DEF Framed, Distinct, New, InFrame
<1>5. Unused
  <2>1. linked = 1 .. InitAlloc - 1 /\ allocCount = InitAlloc
    BY DEF Init
  <2>2. allocCount \in Nat
    BY SMT, <1>1 DEF FrameInv, TypeInv, TypeOK, AllocTypes
  <2> QED BY SMT, <1>2, <2>1, <2>2 DEF Unused
<1>6. Locks
  <2>1. SUFFICES ASSUME NEW b \in Bids PROVE LockOk(Readers(b), Writers(b), meta[b].mode)
    BY DEF Locks
  <2>2. Readers(b) = {} /\ Writers(b) = {}
    BY <1>2, ZenonT(40) DEF Readers, Writers, Shares, Excludes
  <2>3. meta[b].mode = Unlocked
    BY SMT, <1>2 DEF ZeroWord, Unlocked
  <2>4. LockOk({}, {}, Unlocked)
    BY LockTaken
  <2> QED BY <2>2, <2>3, <2>4
<1>7. \A f \in Fibers : Fine(f)
  BY <1>2 DEF Fine, ModeOk, New, FixStates, WordOk
<1>8. Claims
  <2>1. \A w \in Workers : Claimed(w) = {} /\ epc[w] \notin {"unmark", "claim", "collect", "erase", "commit"}
    BY <1>2 DEF Claimed
  <2> QED BY <1>2, <2>1 DEF Claims
<1>9. Owned
  BY SMT, <1>2 DEF Owned, ZeroWord
<1>10. OnDisk
  <2>1. SUFFICES ASSUME NEW p \in linked PROVE disk[p] = Latest(p)
    BY DEF OnDisk
  <2>2. p \in Pids
    BY <1>1 DEF FrameInv, TypeInv, TypeOK, AllocTypes
  <2>3. p < InitAlloc
    BY <1>5 DEF Unused, Init
  <2>4. disk[p] = Fresh(p)
    BY <2>2, <2>3 DEF Init
  <2> QED BY <1>2, <2>2, <2>4 DEF Fresh, Latest
<1> QED BY ZenonT(40), <1>1, <1>3, <1>4, <1>5, <1>6, <1>7, <1>8, <1>9, <1>10, ZenonT(40) DEF PoolInv, Safe

LEMMA PoolStep ==
    ASSUME OneWorker \/ NoEviction
    PROVE  PoolInv /\ [Next]_vars => PoolInv'
<1> SUFFICES ASSUME PoolInv, [Next]_vars PROVE PoolInv'
  OBVIOUS
<1>1. FrameInv'
  BY FrameStep DEF PoolInv
<1>2. ASSUME NEW w \in Workers, ResumeEvictor(w) \/ Evict(w) \/ DeviceWrite(w) PROVE Safe' /\ Turns'
  BY ZenonT(40), <1>2, ResumeEvictorStep, DeviceWriteStep, StartSweepStep, VisitStep, UnmarkStep, ClaimStep, CollectStep,
     EndSweepStep, PrecheckStep, EraseStep, CommitStep, ReleaseFreedStep, ZenonT(40) DEF Evict
<1>3. ASSUME NEW f \in Fibers, Client(f) \/ DeviceRead(f) PROVE Safe' /\ Turns'
  BY <1>3, ClientStep, DeviceReadStep, ZenonT(30)
<1>4. ASSUME NEW w \in Workers, NEW f \in Fibers, Resume(w, f) PROVE Safe' /\ Turns'
  BY <1>4, ResumeStep
<1>5. ASSUME UNCHANGED vars PROVE Safe' /\ Turns'
  <2>1. PartsSame /\ UNCHANGED <<evictVars, running, pc, mode, exact, epc, toEvict, toWrite>>
    BY <1>5 DEF vars, clientVars, fixVars, poolVars, evictVars, PartsSame
  <2>2. Safe'
    BY <2>1, SafeSame DEF PoolInv
  <2>3. Turns'
    BY <2>1 DEF PoolInv, Turns, Parked, Asleep, Claimed, OneWorker, NoEviction
  <2> QED BY <2>2, <2>3
<1>6. Safe' /\ Turns'
  BY <1>2, <1>3, <1>4, <1>5 DEF Next
<1> QED BY <1>1, <1>6 DEF PoolInv

LEMMA PoolInvariant ==
    ASSUME OneWorker \/ NoEviction
    PROVE  Spec => []PoolInv
BY PoolInit, PoolStep, PTL DEF Spec

(* A client that has fixed a page holds its lock. *)
LEMMA HoldersLock ==
    ASSUME PoolInv, NEW f \in Fibers, Holds(f)
    PROVE  /\ pid[f] \in Pids /\ bid[f] \in Bids /\ page_table[pid[f]] = bid[f]
           /\ Exclusive(f) => Excludes(pc[f], mode[f])
           /\ ~Exclusive(f) => Shares(pc[f], mode[f])
<1>1. Fine(f) /\ pc[f] \in FixStates
  BY DEF PoolInv, Safe, Holds, FixStates
<1>2. pid[f] \in Pids /\ bid[f] \in Bids
  BY <1>1, TypeFacts DEF PoolInv, FrameInv
<1>3. mode[f] \in {"S", "X", "O", "A"} /\ ModeOk(pc[f], mode[f])
  BY <1>1 DEF Fine, PoolInv, FrameInv, TypeInv, TypeOK, FixTypes
<1>4. Exclusive(f) => Excludes(pc[f], mode[f])
  BY DEF Holds, Exclusive, Excludes
<1>5. ~Exclusive(f) => Shares(pc[f], mode[f])
  BY <1>3 DEF Holds, Exclusive, ModeOk, Shares
<1> QED BY <1>1, <1>2, <1>4, <1>5 DEF Fine

(* A fixed page stays in its frame: no eviction takes the frame of a page   *)
(* between fixS, fixX or allocPage and unfix, however the fibers of the     *)
(* worker, its evictor and the devices take turns.                          *)
THEOREM FixedPagesStay ==
    ASSUME OneWorker \/ NoEviction
    PROVE  Spec => []FixedPageIsResident
<1>1. PoolInv => FixedPageIsResident
  <2>1. SUFFICES ASSUME PoolInv, NEW f \in Fibers, Holds(f)
                 PROVE  page_table[pid[f]] = bid[f] /\ framePid[bid[f]] = pid[f]
    BY DEF FixedPageIsResident
  <2>2. pid[f] \in Pids /\ bid[f] \in Bids /\ page_table[pid[f]] = bid[f]
    BY <2>1, HoldersLock
  <2> QED BY <2>1, <2>2, BidAssumption DEF PoolInv, Safe, Framed
<1> QED BY <1>1, PoolInvariant, PTL

(* The ensure()s of unfixS_bid and unfixX_bid never fail: the mode of a     *)
(* fixed frame says locked to a writer and shared to a reader.              *)
THEOREM UnfixFindsItsLock ==
    ASSUME OneWorker \/ NoEviction
    PROVE  Spec => []UnfixFindsLock
<1>1. PoolInv => UnfixFindsLock
  <2>1. SUFFICES ASSUME PoolInv, NEW f \in Fibers, Holds(f), NEW b, b = bid[f]
                 PROVE  IF Exclusive(f) THEN meta[b].mode = Locked ELSE meta[b].mode \in 1 .. MaxShared
    BY DEF UnfixFindsLock
  <2>2. CASE Exclusive(f)
    BY <2>1, <2>2, HoldersLock, WriterAlone
  <2>3. CASE ~Exclusive(f)
    <3> DEFINE R == Readers(b)  W == Writers(b)  m == meta[b].mode
    <3>1. f \in R /\ LockOk(R, W, m) /\ m \in 0 .. 255
      BY <2>1, <2>3, HoldersLock, TypeFacts, ZenonT(40) DEF Readers, PoolInv, Safe, Locks, FrameInv
    <3> HIDE DEF R, W, m
    <3>2. m \in 1 .. MaxShared
      BY <3>1, LockShares
    <3> QED BY <2>3, <3>2 DEF m
  <2> QED BY <2>2, <2>3
<1> QED BY <1>1, PoolInvariant, PTL

(* The lock of a page excludes: a writer that has fixed a page with fixX or *)
(* allocPage is the only client that has it.                                *)
THEOREM WritersAreAlone ==
    ASSUME OneWorker \/ NoEviction
    PROVE  Spec => []WritersExclude
<1>1. PoolInv => WritersExclude
  <2>1. ASSUME PoolInv, NEW f \in Fibers, NEW g \in Fibers, f # g, Holds(f), Holds(g), pid[f] = pid[g]
        PROVE  ~Exclusive(f)
    <3>1. SUFFICES ASSUME Exclusive(f) PROVE FALSE
      OBVIOUS
    <3>2. bid[f] = bid[g] /\ Excludes(pc[f], mode[f])
      BY <2>1, <3>1, HoldersLock
    <3>3. Excludes(pc[g], mode[g]) \/ Shares(pc[g], mode[g])
      BY <2>1, HoldersLock
    <3> QED BY <2>1, <3>2, <3>3, WriterAlone
  <2> QED BY <2>1 DEF WritersExclude
<1> QED BY <1>1, PoolInvariant, PTL

(* No write is lost: a client that has fixed a page finds in its frame      *)
(* every write made to the page, through write-backs, evictions and reads.  *)
THEOREM WritesAreKept ==
    ASSUME OneWorker \/ NoEviction
    PROVE  Spec => []NoLostWrite
<1>1. PoolInv => NoLostWrite
  <2>1. SUFFICES ASSUME PoolInv, NEW f \in Fibers, Holds(f)
                 PROVE  data[bid[f]] = Latest(pid[f])
    BY DEF NoLostWrite, Latest
  <2>2. /\ pid[f] \in Pids /\ bid[f] \in Bids /\ page_table[pid[f]] = bid[f]
        /\ Excludes(pc[f], mode[f]) \/ Shares(pc[f], mode[f])
    BY <2>1, HoldersLock
  <2>3. BeingRead(bid[f]) \/ data[bid[f]] = Latest(pid[f])
    BY <2>1, <2>2, BidAssumption, ZenonT(40) DEF PoolInv, Safe, InFrame
  <2>4. ASSUME NEW g \in Fibers, pc[g] = "reading", bid[g] = bid[f] PROVE FALSE
    <3>1. Excludes(pc[g], mode[g])
      BY <2>4 DEF Excludes
    <3>2. g = f
      BY <2>1, <2>2, <2>4, <3>1, WriterAlone
    <3> QED BY <2>1, <2>4, <3>2 DEF Holds
  <2> QED BY <2>3, <2>4 DEF BeingRead
<1> QED BY <1>1, PoolInvariant, PTL

(* An evicting flag has an owner: the evictor that set it has the frame on  *)
(* one of its lists, so evictNow comes back to it and clears the flag.      *)
THEOREM EvictingFlagsAreOwned ==
    ASSUME OneWorker \/ NoEviction
    PROVE  Spec => []EvictingHasOwner
<1>1. PoolInv => EvictingHasOwner
  BY DEF PoolInv, Safe, Owned, EvictingHasOwner
<1> QED BY <1>1, PoolInvariant, PTL
=============================================================================
