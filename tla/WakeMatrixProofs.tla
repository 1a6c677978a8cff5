-------------------------- MODULE WakeMatrixProofs --------------------------
(***************************************************************************)
(* Theorems about WakeMatrix, for every number of workers, fibers and bit  *)
(* words and every assignment of fibers to workers: its types, and the     *)
(* safety of cross-worker wakeups.                                         *)
(*                                                                         *)
(* None of the three properties proved here is inductive by itself.  What  *)
(* carries them is that the wakeup of a fiber exists at most once: on a    *)
(* list, in the hands of one thread, or in one slot of one ring.  A fiber  *)
(* that runs or is Ready has none, so that the fiber that registers next   *)
(* cannot be woken twice, and every wake finds its fiber Parked.           *)
(***************************************************************************)
EXTENDS WakeMatrix, TLAPS, FiniteSetTheorems

(* Types that Resume relies on: a batch never outlives its ready queue, and *)
(* the thread-local fiber is set exactly while a fiber runs.                *)
BatchWithinReady == \A w \in Workers : left[w] <= Len(ready[w])

CurrentWhileRunning ==
    \A w \in Workers :
        /\ pc[w] \in {"fiber", "parking", "push", "setbit", "count"} => current[w] \in Fibers
        /\ pc[w] \in {"push", "setbit", "count"} => waking[w] \in Fibers

TypeInv == TypeOK /\ BatchWithinReady /\ CurrentWhileRunning

(* Zenon is the prover of every step that names none. *)
USE Zenon

LEMMA TypeInit == Init => TypeInv
  BY SMT, SpawnAssumption, OwnerAssumption, WorkersAssumption
  DEF Init, TypeInv, TypeOK, BatchWithinReady, CurrentWhileRunning, ThreadStates, FiberStates,
      ThreadTypes, ReactorTypes, ListTypes, MatrixTypes, DrainTypes

LEMMA TypeStep == TypeInv /\ [Next]_vars => TypeInv'
<1> SUFFICES ASSUME TypeInv, [Next]_vars PROVE TypeInv'
  OBVIOUS
<1> USE OwnerAssumption, NoFiberAssumption DEF TypeInv, TypeOK,
        ThreadStates, FiberStates, threadVars, reactorVars, listVars, matrixVars, drainVars
<1>1. ASSUME NEW w \in Workers, Resume(w) PROVE TypeInv'
  <2>0. ready[w] # <<>> /\ Head(ready[w]) \in Fibers /\ Tail(ready[w]) \in Seq(Fibers)
    BY SMT, <1>1 DEF Resume, BatchWithinReady, ThreadTypes, ReactorTypes
  <2>1. ThreadTypes'
    BY SMT, <1>1, <2>0 DEF Resume, ThreadTypes
  <2>2. ReactorTypes'
    BY <1>1, <2>0 DEF Resume, ReactorTypes
  <2>3. ListTypes'
    BY <1>1 DEF Resume, ListTypes
  <2>4. MatrixTypes'
    BY <1>1 DEF Resume, MatrixTypes
  <2>5. DrainTypes'
    BY <1>1 DEF Resume, DrainTypes
  <2>6. BatchWithinReady'
    BY SMT, <1>1, <2>0 DEF Resume, BatchWithinReady, ThreadTypes, ReactorTypes
  <2>7. CurrentWhileRunning'
    BY SMT, <1>1 DEF Resume, CurrentWhileRunning, BatchWithinReady, ThreadTypes, ReactorTypes, ListTypes
  <2> QED BY <2>1, <2>2, <2>3, <2>4, <2>5, <2>6, <2>7
<1>2. ASSUME NEW w \in Workers, EndBatch(w) PROVE TypeInv'
  <2>1. ThreadTypes'
    BY <1>2 DEF EndBatch, ThreadTypes, BatchWithinReady, CurrentWhileRunning
  <2>2. ReactorTypes'
    BY <1>2 DEF EndBatch, ReactorTypes
  <2>3. ListTypes'
    BY <1>2 DEF EndBatch, ListTypes
  <2>4. MatrixTypes'
    BY <1>2 DEF EndBatch, MatrixTypes
  <2>5. DrainTypes'
    BY <1>2 DEF EndBatch, DrainTypes
  <2>6. BatchWithinReady'
    BY <1>2 DEF EndBatch, BatchWithinReady, ThreadTypes, ReactorTypes
  <2>7. CurrentWhileRunning'
    BY <1>2 DEF EndBatch, CurrentWhileRunning, BatchWithinReady, ThreadTypes, ReactorTypes, ListTypes
  <2> QED BY <2>1, <2>2, <2>3, <2>4, <2>5, <2>6, <2>7
<1>3. ASSUME NEW w \in Workers, Yield(w) PROVE TypeInv'
  <2>1. ThreadTypes'
    BY <1>3 DEF Yield, ThreadTypes, BatchWithinReady, CurrentWhileRunning
  <2>2. ReactorTypes'
    BY SMT, <1>3 DEF Yield, ReactorTypes, BatchWithinReady, CurrentWhileRunning
  <2>3. ListTypes'
    BY <1>3 DEF Yield, ListTypes
  <2>4. MatrixTypes'
    BY <1>3 DEF Yield, MatrixTypes
  <2>5. DrainTypes'
    BY <1>3 DEF Yield, DrainTypes
  <2>6. BatchWithinReady'
    BY SMT, <1>3 DEF Yield, BatchWithinReady, ThreadTypes, ReactorTypes
  <2>7. CurrentWhileRunning'
    BY <1>3 DEF Yield, CurrentWhileRunning, BatchWithinReady, ThreadTypes, ReactorTypes, ListTypes
  <2> QED BY <2>1, <2>2, <2>3, <2>4, <2>5, <2>6, <2>7
<1>4. ASSUME NEW w \in Workers, Register(w) PROVE TypeInv'
  <2>1. ThreadTypes'
    BY <1>4 DEF Register, ThreadTypes, BatchWithinReady, CurrentWhileRunning
  <2>2. ReactorTypes'
    BY <1>4 DEF Register, ReactorTypes
  <2>3. ListTypes'
    BY <1>4 DEF Register, ListTypes, BatchWithinReady, CurrentWhileRunning
  <2>4. MatrixTypes'
    BY <1>4 DEF Register, MatrixTypes
  <2>5. DrainTypes'
    BY <1>4 DEF Register, DrainTypes
  <2>6. BatchWithinReady'
    BY <1>4 DEF Register, BatchWithinReady, ThreadTypes, ReactorTypes
  <2>7. CurrentWhileRunning'
    BY <1>4 DEF Register, CurrentWhileRunning, BatchWithinReady, ThreadTypes, ReactorTypes, ListTypes
  <2> QED BY <2>1, <2>2, <2>3, <2>4, <2>5, <2>6, <2>7
<1>5. ASSUME NEW w \in Workers, Park(w) PROVE TypeInv'
  <2>1. ThreadTypes'
    BY <1>5 DEF Park, ThreadTypes, BatchWithinReady, CurrentWhileRunning
  <2>2. ReactorTypes'
    BY <1>5 DEF Park, ReactorTypes, BatchWithinReady, CurrentWhileRunning
  <2>3. ListTypes'
    BY <1>5 DEF Park, ListTypes
  <2>4. MatrixTypes'
    BY <1>5 DEF Park, MatrixTypes
  <2>5. DrainTypes'
    BY <1>5 DEF Park, DrainTypes
  <2>6. BatchWithinReady'
    BY <1>5 DEF Park, BatchWithinReady, ThreadTypes, ReactorTypes
  <2>7. CurrentWhileRunning'
    BY ZenonT(40), <1>5 DEF Park, CurrentWhileRunning, BatchWithinReady, ThreadTypes, ReactorTypes, ListTypes
  <2> QED BY <2>1, <2>2, <2>3, <2>4, <2>5, <2>6, <2>7
<1>6. ASSUME NEW w \in Workers, Detach(w) PROVE TypeInv'
  <2>1. ThreadTypes'
    BY <1>6 DEF Detach, ThreadTypes
  <2>2. ReactorTypes'
    BY <1>6 DEF Detach, ReactorTypes
  <2>3. ListTypes'
    BY SMT, <1>6 DEF Detach, ListTypes, BatchWithinReady, CurrentWhileRunning
  <2>4. MatrixTypes'
    BY <1>6 DEF Detach, MatrixTypes
  <2>5. DrainTypes'
    BY <1>6 DEF Detach, DrainTypes
  <2>6. BatchWithinReady'
    BY <1>6 DEF Detach, BatchWithinReady, ThreadTypes, ReactorTypes
  <2>7. CurrentWhileRunning'
    BY <1>6 DEF Detach, CurrentWhileRunning, BatchWithinReady, ThreadTypes, ReactorTypes, ListTypes
  <2> QED BY <2>1, <2>2, <2>3, <2>4, <2>5, <2>6, <2>7
<1>7. ASSUME NEW w \in Workers, WakeOwn(w) PROVE TypeInv'
  <2>0. PICK f \in toWake[w] : Owner[f] = w /\ Wake(w, f)
    BY <1>7 DEF WakeOwn
  <2>a. f \in Fibers /\ Append(ready[w], f) \in Seq(Fibers)
    BY SMT, <2>0 DEF ListTypes, ReactorTypes
  <2>1. ThreadTypes'
    BY <1>7 DEF WakeOwn, ThreadTypes
  <2>2. ReactorTypes'
    BY <2>0, <2>a DEF Wake, ReactorTypes
  <2>3. ListTypes'
    BY SMT, <1>7 DEF WakeOwn, Wake, ListTypes, BatchWithinReady, CurrentWhileRunning
  <2>4. MatrixTypes'
    BY <1>7 DEF WakeOwn, MatrixTypes
  <2>5. DrainTypes'
    BY <1>7 DEF WakeOwn, DrainTypes
  <2>6. BatchWithinReady'
    BY SMT, <1>7 DEF WakeOwn, Wake, BatchWithinReady, ThreadTypes, ReactorTypes
  <2>7. CurrentWhileRunning'
    BY <1>7 DEF WakeOwn, Wake, CurrentWhileRunning, BatchWithinReady, ThreadTypes, ReactorTypes, ListTypes
  <2> QED BY <2>1, <2>2, <2>3, <2>4, <2>5, <2>6, <2>7
<1>8. ASSUME NEW w \in Workers, WakeOther(w) PROVE TypeInv'
  <2>1. ThreadTypes'
    BY <1>8 DEF WakeOther, ThreadTypes, BatchWithinReady, CurrentWhileRunning
  <2>2. ReactorTypes'
    BY <1>8 DEF WakeOther, ReactorTypes
  <2>3. ListTypes'
    BY SMT, <1>8 DEF WakeOther, ListTypes, BatchWithinReady, CurrentWhileRunning
  <2>4. MatrixTypes'
    BY <1>8 DEF WakeOther, MatrixTypes
  <2>5. DrainTypes'
    BY <1>8 DEF WakeOther, DrainTypes
  <2>6. BatchWithinReady'
    BY <1>8 DEF WakeOther, BatchWithinReady, ThreadTypes, ReactorTypes
  <2>7. CurrentWhileRunning'
    BY SMT, <1>8 DEF WakeOther, CurrentWhileRunning, BatchWithinReady, ThreadTypes, ReactorTypes, ListTypes
  <2> QED BY <2>1, <2>2, <2>3, <2>4, <2>5, <2>6, <2>7
<1>9. ASSUME NEW w \in Workers, Push(w) PROVE TypeInv'
  <2>0. /\ Owner[waking[w]] \in Workers
        /\ Append(ring[w][Owner[waking[w]]], waking[w]) \in Seq(Fibers)
    BY SMT, <1>9 DEF Push, CurrentWhileRunning, MatrixTypes
  <2>1. ThreadTypes'
    BY <1>9 DEF Push, ThreadTypes, BatchWithinReady, CurrentWhileRunning
  <2>2. ReactorTypes'
    BY <1>9 DEF Push, ReactorTypes
  <2>3. ListTypes'
    BY <1>9 DEF Push, ListTypes
  <2>4. MatrixTypes'
    BY <1>9, <2>0 DEF Push, MatrixTypes
  <2>5. DrainTypes'
    BY <1>9 DEF Push, DrainTypes
  <2>6. BatchWithinReady'
    BY <1>9 DEF Push, BatchWithinReady, ThreadTypes, ReactorTypes
  <2>7. CurrentWhileRunning'
    BY <1>9 DEF Push, CurrentWhileRunning, BatchWithinReady, ThreadTypes, ReactorTypes, ListTypes
  <2> QED BY <2>1, <2>2, <2>3, <2>4, <2>5, <2>6, <2>7
<1>10. ASSUME NEW w \in Workers, SetBit(w) PROVE TypeInv'
  <2>1. ThreadTypes'
    BY <1>10 DEF SetBit, ThreadTypes, BatchWithinReady, CurrentWhileRunning
  <2>2. ReactorTypes'
    BY <1>10 DEF SetBit, ReactorTypes
  <2>3. ListTypes'
    BY <1>10 DEF SetBit, ListTypes
  <2>4. MatrixTypes'
    BY <1>10 DEF SetBit, MatrixTypes, BatchWithinReady, CurrentWhileRunning
  <2>5. DrainTypes'
    BY <1>10 DEF SetBit, DrainTypes
  <2>6. BatchWithinReady'
    BY <1>10 DEF SetBit, BatchWithinReady, ThreadTypes, ReactorTypes
  <2>7. CurrentWhileRunning'
    BY <1>10 DEF SetBit, CurrentWhileRunning, BatchWithinReady, ThreadTypes, ReactorTypes, ListTypes
  <2> QED BY <2>1, <2>2, <2>3, <2>4, <2>5, <2>6, <2>7
<1>11. ASSUME NEW w \in Workers, Count(w) PROVE TypeInv'
  <2>1. ThreadTypes'
    BY <1>11 DEF Count, ThreadTypes, BatchWithinReady, CurrentWhileRunning
  <2>2. ReactorTypes'
    BY <1>11 DEF Count, ReactorTypes
  <2>3. ListTypes'
    BY <1>11 DEF Count, ListTypes, BatchWithinReady, CurrentWhileRunning
  <2>4. MatrixTypes'
    BY SMT, <1>11 DEF Count, MatrixTypes, BatchWithinReady, CurrentWhileRunning
  <2>5. DrainTypes'
    BY <1>11 DEF Count, DrainTypes
  <2>6. BatchWithinReady'
    BY <1>11 DEF Count, BatchWithinReady, ThreadTypes, ReactorTypes
  <2>7. CurrentWhileRunning'
    BY <1>11 DEF Count, CurrentWhileRunning, BatchWithinReady, ThreadTypes, ReactorTypes, ListTypes
  <2> QED BY <2>1, <2>2, <2>3, <2>4, <2>5, <2>6, <2>7
<1>12. ASSUME NEW w \in Workers, CheckPending(w) PROVE TypeInv'
  <2>0. Len(ready[w]) \in Nat
    BY SMT DEF ReactorTypes
  <2>1. ThreadTypes'
    <3>1. CASE pending[w] = 0
      <4>1. pc' \in [Workers -> ThreadStates]
        BY ZenonT(40), <1>12, <3>1 DEF CheckPending, StartBatch, ThreadTypes
      <4>2. left' \in [Workers -> Nat]
        BY <1>12, <2>0, <3>1 DEF CheckPending, StartBatch, ThreadTypes
      <4> QED BY <1>12, <4>1, <4>2 DEF CheckPending, ThreadTypes
    <3>2. CASE pending[w] # 0
      BY <1>12, <3>2 DEF CheckPending, ThreadTypes
    <3> QED BY <3>1, <3>2
  <2>2. ReactorTypes'
    BY <1>12 DEF CheckPending, ReactorTypes
  <2>3. ListTypes'
    BY <1>12 DEF CheckPending, ListTypes
  <2>4. MatrixTypes'
    BY <1>12 DEF CheckPending, MatrixTypes
  <2>5. DrainTypes'
    <3>1. word' \in [Workers -> Nat]
      BY SMT, <1>12 DEF CheckPending, DrainTypes
    <3>2. drained' \in [Workers -> Nat]
      BY SMT, <1>12 DEF CheckPending, DrainTypes
    <3> QED BY <1>12, <3>1, <3>2 DEF CheckPending, DrainTypes
  <2>6. BatchWithinReady'
    <3>1. CASE pending[w] = 0
      <4>1. left' = [left EXCEPT ![w] = Len(ready[w])] /\ ready' = ready
        BY <1>12, <3>1 DEF CheckPending, StartBatch
      <4> QED BY SMT, <4>1, <2>0 DEF BatchWithinReady, ThreadTypes
    <3>2. CASE pending[w] # 0
      BY <1>12, <3>2 DEF CheckPending, BatchWithinReady
    <3> QED BY <3>1, <3>2
  <2>7. CurrentWhileRunning'
    BY <1>12 DEF CheckPending, StartBatch, CurrentWhileRunning, BatchWithinReady, ThreadTypes, ReactorTypes, ListTypes
  <2> QED BY <2>1, <2>2, <2>3, <2>4, <2>5, <2>6, <2>7
<1>13. ASSUME NEW w \in Workers, Exchange(w) PROVE TypeInv'
  <2>0. \A s \in Workers : Certain(s, w) \in Nat
    BY SMT DEF Certain, MatrixTypes
  <2>1. ThreadTypes'
    BY <1>13 DEF Exchange, Certain, ThreadTypes, BatchWithinReady, CurrentWhileRunning
  <2>2. ReactorTypes'
    BY <1>13 DEF Exchange, ReactorTypes
  <2>3. ListTypes'
    BY <1>13 DEF Exchange, ListTypes
  <2>4. MatrixTypes'
    BY <1>13 DEF Exchange, Certain, MatrixTypes, BatchWithinReady, CurrentWhileRunning
  <2>5. DrainTypes'
    <3>1. sources' \in [Workers -> SUBSET Workers]
      BY <1>13 DEF Exchange, DrainTypes, MatrixTypes
    <3>2. visible' \in [Workers -> [Workers -> Nat]]
      BY <1>13, <2>0 DEF Exchange, DrainTypes
    <3> QED BY <1>13, <3>1, <3>2 DEF Exchange, DrainTypes
  <2>6. BatchWithinReady'
    BY <1>13 DEF Exchange, Certain, BatchWithinReady, ThreadTypes, ReactorTypes
  <2>7. CurrentWhileRunning'
    BY <1>13 DEF Exchange, Certain, CurrentWhileRunning, BatchWithinReady, ThreadTypes, ReactorTypes, ListTypes
  <2> QED BY <2>1, <2>2, <2>3, <2>4, <2>5, <2>6, <2>7
<1>14. ASSUME NEW w \in Workers, Pop(w) PROVE TypeInv'
  <2>0. PICK s \in Workers :
          /\ ring[s][w] # <<>>
          /\ Wake(w, Head(ring[s][w]))
          /\ ring' = [ring EXCEPT ![s][w] = Tail(@)]
          /\ visible' = [visible EXCEPT ![w][s] = IF @ = 0 THEN 0 ELSE @ - 1]
    BY <1>14 DEF Pop
  <2>a. Head(ring[s][w]) \in Fibers /\ Tail(ring[s][w]) \in Seq(Fibers)
    BY SMT, <2>0 DEF MatrixTypes
  <2>b. Append(ready[w], Head(ring[s][w])) \in Seq(Fibers)
    BY SMT, <2>a DEF ReactorTypes
  <2>1. ThreadTypes'
    BY <1>14 DEF Pop, ThreadTypes
  <2>2. ReactorTypes'
    BY <2>0, <2>a, <2>b DEF Wake, ReactorTypes
  <2>3. ListTypes'
    BY <1>14 DEF Pop, ListTypes
  <2>4. MatrixTypes'
    BY <1>14, <2>0, <2>a DEF Pop, MatrixTypes
  <2>5. DrainTypes'
    <3>1. visible' \in [Workers -> [Workers -> Nat]]
      BY SMT, <2>0 DEF DrainTypes
    <3>2. drained' \in [Workers -> Nat]
      BY SMT, <1>14 DEF Pop, DrainTypes
    <3> QED BY <1>14, <3>1, <3>2 DEF Pop, DrainTypes
  <2>6. BatchWithinReady'
    BY SMT, <1>14 DEF Pop, Wake, FirstSource, BatchWithinReady, ThreadTypes, ReactorTypes
  <2>7. CurrentWhileRunning'
    BY <1>14 DEF Pop, Wake, FirstSource, CurrentWhileRunning, BatchWithinReady, ThreadTypes, ReactorTypes, ListTypes
  <2> QED BY <2>1, <2>2, <2>3, <2>4, <2>5, <2>6, <2>7
<1>15. ASSUME NEW w \in Workers, PopEmpty(w) PROVE TypeInv'
  <2>1. ThreadTypes'
    BY <1>15 DEF PopEmpty, ThreadTypes
  <2>2. ReactorTypes'
    BY <1>15 DEF PopEmpty, ReactorTypes
  <2>3. ListTypes'
    BY <1>15 DEF PopEmpty, ListTypes
  <2>4. MatrixTypes'
    BY <1>15 DEF PopEmpty, MatrixTypes
  <2>5. DrainTypes'
    BY SMT, <1>15 DEF PopEmpty, FirstSource, DrainTypes, BatchWithinReady, CurrentWhileRunning
  <2>6. BatchWithinReady'
    BY <1>15 DEF PopEmpty, FirstSource, BatchWithinReady, ThreadTypes, ReactorTypes
  <2>7. CurrentWhileRunning'
    BY <1>15 DEF PopEmpty, FirstSource, CurrentWhileRunning, BatchWithinReady, ThreadTypes, ReactorTypes, ListTypes
  <2> QED BY <2>1, <2>2, <2>3, <2>4, <2>5, <2>6, <2>7
<1>16. ASSUME NEW w \in Workers, NextWord(w) PROVE TypeInv'
  <2>1. ThreadTypes'
    BY <1>16 DEF NextWord, ThreadTypes, BatchWithinReady, CurrentWhileRunning
  <2>2. ReactorTypes'
    BY <1>16 DEF NextWord, ReactorTypes
  <2>3. ListTypes'
    BY <1>16 DEF NextWord, ListTypes
  <2>4. MatrixTypes'
    BY <1>16 DEF NextWord, MatrixTypes
  <2>5. DrainTypes'
    BY SMT, <1>16 DEF NextWord, DrainTypes, BatchWithinReady, CurrentWhileRunning
  <2>6. BatchWithinReady'
    BY <1>16 DEF NextWord, BatchWithinReady, ThreadTypes, ReactorTypes
  <2>7. CurrentWhileRunning'
    BY <1>16 DEF NextWord, CurrentWhileRunning, BatchWithinReady, ThreadTypes, ReactorTypes, ListTypes
  <2> QED BY <2>1, <2>2, <2>3, <2>4, <2>5, <2>6, <2>7
<1>17. ASSUME NEW w \in Workers, Subtract(w) PROVE TypeInv'
  <2>1. ThreadTypes'
    BY SMT, <1>17 DEF Subtract, StartBatch, ThreadTypes, BatchWithinReady, CurrentWhileRunning
  <2>2. ReactorTypes'
    BY <1>17 DEF Subtract, ReactorTypes
  <2>3. ListTypes'
    BY <1>17 DEF Subtract, ListTypes
  <2>4. MatrixTypes'
    BY SMT, <1>17 DEF Subtract, MatrixTypes, DrainTypes
  <2>5. DrainTypes'
    BY <1>17 DEF Subtract, StartBatch, DrainTypes, BatchWithinReady, CurrentWhileRunning
  <2>6. BatchWithinReady'
    BY SMT, <1>17 DEF Subtract, StartBatch, BatchWithinReady, ThreadTypes, ReactorTypes
  <2>7. CurrentWhileRunning'
    BY <1>17 DEF Subtract, StartBatch, CurrentWhileRunning, BatchWithinReady, ThreadTypes, ReactorTypes, ListTypes
  <2> QED BY <2>1, <2>2, <2>3, <2>4, <2>5, <2>6, <2>7
<1>18. CASE UNCHANGED vars
  BY <1>18 DEF vars, ThreadTypes, ReactorTypes, ListTypes, MatrixTypes, DrainTypes,
     BatchWithinReady, CurrentWhileRunning
<1> QED
  BY <1>1, <1>2, <1>3, <1>4, <1>5, <1>6, <1>7, <1>8, <1>9, <1>10, <1>11, <1>12, <1>13, <1>14, <1>15, <1>16, <1>17, <1>18 DEF Next, Thread

(* Every variable keeps its type, for every instance of the constants. *)
THEOREM TypeCorrect == Spec => []TypeOK
<1>1. TypeInv => TypeOK
  BY DEF TypeInv
<1> QED
  BY <1>1, TypeInit, TypeStep, PTL DEF Spec

-----------------------------------------------------------------------------

RunningFiber == {"fiber", "parking", "push", "setbit", "count"}
(* A queued fiber is Ready, queued once and on its own worker; the fiber a   *)
(* thread executes is Running.                                              *)
StatesAgree ==
    \A w \in Workers :
        /\ \A i \in DOMAIN ready[w] :
              Owner[ready[w][i]] = w /\ state[ready[w][i]] = "Ready"
        /\ \A i, j \in DOMAIN ready[w] : ready[w][i] = ready[w][j] => i = j
        /\ pc[w] \in RunningFiber =>
              Owner[current[w]] = w /\ state[current[w]] = "Running"

(* pending_wake is never set: no wake ever finds its fiber Running. *)
NeverPending == \A f \in Fibers : ~pendingWake[f]

RingsAreOwned ==
    \A s, d \in Workers : \A i \in DOMAIN ring[s][d] : Owner[ring[s][d][i]] = d

(* The wakeup of a fiber is in one place. *)
WokenOnce ==
    \A f \in Fibers :
        /\ f \in registered => ~InRing(f) /\ \A w \in Workers : ~Holds(w, f)
        /\ \A w \in Workers :
              Holds(w, f) => ~InRing(f) /\ \A v \in Workers : Holds(v, f) => v = w

PushedIsTaken == \A w \in Workers : pc[w] = "push" => waking[w] \notin toWake[w]

QueuedOnce ==
    \A s, t, d \in Workers : \A i \in DOMAIN ring[s][d], j \in DOMAIN ring[t][d] :
        ring[s][d][i] = ring[t][d][j] => s = t /\ i = j

(* RingAnnounced, made inductive: a source being drained covers its ring    *)
(* only if pop is certain to see all of it.                                 *)
Announced ==
    \A s, d \in Workers :
        /\ pc[d] # "pop" => sources[d] = {}
        /\ ring[s][d] # <<>> =>
              \/ s \in active[d]
              \/ pc[s] = "setbit" /\ Owner[waking[s]] = d
              \/ s \in sources[d] /\ Len(ring[s][d]) <= visible[d][s]

WakeInv ==
    /\ TypeInv /\ StatesAgree /\ NeverPending /\ RingsAreOwned
    /\ WakeFindsParked /\ WokenOnce /\ PushedIsTaken /\ QueuedOnce /\ Announced

(* What Append and Tail do to the indices of a queue of fibers. *)
LEMMA Appended ==
    ASSUME NEW q \in Seq(Fibers), NEW x \in Fibers
    PROVE  /\ Len(Append(q, x)) = Len(q) + 1
           /\ Len(q) + 1 \in DOMAIN Append(q, x) /\ Append(q, x)[Len(q) + 1] = x
           /\ Len(q) + 1 \notin DOMAIN q
           /\ \A i \in DOMAIN q : i \in DOMAIN Append(q, x) /\ Append(q, x)[i] = q[i]
           /\ \A i \in DOMAIN Append(q, x) : i \in DOMAIN q \/ i = Len(q) + 1
  BY SMT

LEMMA Popped ==
    ASSUME NEW q \in Seq(Fibers), q # <<>>
    PROVE  /\ Len(Tail(q)) = Len(q) - 1
           /\ 1 \in DOMAIN q /\ Head(q) = q[1]
           /\ \A i \in DOMAIN Tail(q) : i \in Nat /\ i + 1 # 1 /\ i + 1 \in DOMAIN q /\ Tail(q)[i] = q[i + 1]
           /\ \A i, j \in DOMAIN Tail(q) : i + 1 = j + 1 => i = j
  BY SMT

LEMMA WakeInit == Init => WakeInv
<1> SUFFICES ASSUME Init PROVE WakeInv
  OBVIOUS
<1>1. TypeInv
  BY TypeInit
<1>2. StatesAgree
  BY SMT, SpawnAssumption, OwnerAssumption DEF Init, StatesAgree, RunningFiber
<1>3. NeverPending
  BY DEF Init, NeverPending
<1>4. \A s, d \in Workers : ring[s][d] = <<>>
  BY DEF Init
<1>5. RingsAreOwned /\ QueuedOnce /\ Announced
  BY SMT, <1>4 DEF Init, RingsAreOwned, QueuedOnce, Announced
<1>6. \A f \in Fibers : ~OnItsWay(f)
  BY SMT, <1>4 DEF Init, OnItsWay, InRing, Holds
<1>7. WakeFindsParked /\ WokenOnce /\ PushedIsTaken
  BY <1>6 DEF Init, WakeFindsParked, WokenOnce, PushedIsTaken, OnItsWay
<1> QED BY <1>1, <1>2, <1>3, <1>5, <1>7 DEF WakeInv

(* The steps that move no wakeup from one place to another. *)
Quiet(w) ==
    \/ Resume(w) \/ EndBatch(w) \/ Yield(w) \/ Park(w) \/ SetBit(w) \/ Count(w)
    \/ CheckPending(w) \/ Exchange(w) \/ PopEmpty(w) \/ NextWord(w) \/ Subtract(w)

LEMMA QuietStep ==
    ASSUME TypeInv, NEW w \in Workers, Quiet(w)
    PROVE  /\ registered' = registered /\ ring' = ring /\ toWake' = toWake
           /\ \A v \in Workers : pc'[v] = "push" <=> pc[v] = "push"
           /\ \A v \in Workers : pc[v] = "push" => waking'[v] = waking[v]
           /\ \A f : InRing(f)' <=> InRing(f)
           /\ \A v \in Workers, f \in Fibers : Holds(v, f)' <=> Holds(v, f)
<1> USE DEF TypeInv, TypeOK, ThreadTypes, ListTypes, threadVars, reactorVars, listVars,
   matrixVars, drainVars
<1>1. registered' = registered /\ ring' = ring /\ toWake' = toWake
  BY DEF Quiet, Resume, EndBatch, Yield, Park, SetBit, Count, CheckPending, Exchange, PopEmpty,
     NextWord, Subtract
<1>2. pc[w] # "push"
  BY DEF Quiet, Resume, EndBatch, Yield, Park, SetBit, Count, CheckPending, Exchange, PopEmpty,
     NextWord, Subtract
<1>3. pc' = [pc EXCEPT ![w] = pc'[w]] /\ pc'[w] # "push"
  BY DEF Quiet, StartBatch, Resume, EndBatch, Yield, Park, SetBit, Count, CheckPending, Exchange,
     PopEmpty, NextWord, Subtract
<1>4. waking' = waking \/ waking' = [waking EXCEPT ![w] = NoFiber]
  BY DEF Quiet, Resume, EndBatch, Yield, Park, SetBit, Count, CheckPending, Exchange, PopEmpty,
     NextWord, Subtract
<1>5. \A v \in Workers : pc'[v] = "push" <=> pc[v] = "push"
  BY <1>2, <1>3
<1>6. \A v \in Workers : pc[v] = "push" => waking'[v] = waking[v]
  BY <1>2, <1>4
<1>7. \A f : InRing(f)' <=> InRing(f)
  BY <1>1 DEF InRing
<1>8. \A v \in Workers, f \in Fibers : Holds(v, f)' <=> Holds(v, f)
  BY <1>1, <1>5, <1>6 DEF Holds
<1> QED BY <1>1, <1>5, <1>6, <1>7, <1>8

(* Where each of the other steps moves wakeups. *)
LEMMA RegisterMoves ==
    ASSUME TypeInv, NEW w \in Workers, Register(w)
    PROVE  /\ registered' = registered \cup {current[w]}
           /\ \A f \in Fibers : InRing(f)' <=> InRing(f)
           /\ \A v \in Workers, f \in Fibers : Holds(v, f)' <=> Holds(v, f)
<1>1. ring' = ring /\ toWake' = toWake /\ waking' = waking /\ registered' = registered \cup {current[w]}
  BY DEF Register, listVars, matrixVars
<1>2. \A v \in Workers : pc'[v] = "push" <=> pc[v] = "push"
  BY DEF Register, TypeInv, TypeOK, ThreadTypes
<1> QED BY <1>1, <1>2 DEF InRing, Holds

LEMMA DetachMoves ==
    ASSUME TypeInv, NEW w \in Workers, Detach(w)
    PROVE  \E fs \in SUBSET registered :
             /\ registered' = registered \ fs
             /\ \A f \in Fibers : InRing(f)' <=> InRing(f)
             /\ \A v \in Workers, f \in Fibers :
                   Holds(v, f)' <=> Holds(v, f) \/ (v = w /\ f \in fs)
<1>1. PICK fs \in SUBSET registered :
          toWake' = [toWake EXCEPT ![w] = fs] /\ registered' = registered \ fs
  BY DEF Detach
<1>2. pc' = pc /\ waking' = waking /\ ring' = ring /\ pc[w] = "fiber" /\ toWake[w] = {}
  BY DEF Detach, threadVars, listVars, matrixVars
<1>3. \A v \in Workers : toWake'[v] = IF v = w THEN fs ELSE toWake[v]
  BY <1>1 DEF TypeInv, TypeOK, ListTypes
<1>4. \A f \in Fibers : InRing(f)' <=> InRing(f)
  BY <1>2 DEF InRing
<1>5. \A v \in Workers, f \in Fibers : Holds(v, f)' <=> Holds(v, f) \/ (v = w /\ f \in fs)
  BY <1>2, <1>3 DEF Holds
<1> QED BY <1>1, <1>4, <1>5

LEMMA WakeOwnMoves ==
    ASSUME TypeInv, NEW w \in Workers, WakeOwn(w)
    PROVE  \E g \in Fibers :
             /\ Holds(w, g) /\ g \in toWake[w] /\ Owner[g] = w /\ Wake(w, g)
             /\ toWake' = [toWake EXCEPT ![w] = @ \ {g}]
             /\ registered' = registered
             /\ \A f \in Fibers : InRing(f)' <=> InRing(f)
             /\ \A v \in Workers, f \in Fibers :
                   Holds(v, f)' <=> Holds(v, f) /\ ~(v = w /\ f = g)
<1>1. PICK g \in toWake[w] :
          Owner[g] = w /\ Wake(w, g) /\ toWake' = [toWake EXCEPT ![w] = @ \ {g}]
  BY DEF WakeOwn
<1>2. pc' = pc /\ waking' = waking /\ ring' = ring /\ pc[w] = "fiber" /\ registered' = registered
  BY DEF WakeOwn, threadVars, listVars, matrixVars
<1>3. g \in Fibers /\ Holds(w, g)
  BY DEF TypeInv, TypeOK, ListTypes, Holds
<1>4. \A v \in Workers : toWake'[v] = IF v = w THEN toWake[v] \ {g} ELSE toWake[v]
  BY <1>1 DEF TypeInv, TypeOK, ListTypes
<1>5. \A f \in Fibers : InRing(f)' <=> InRing(f)
  BY <1>2 DEF InRing
<1>6. \A v \in Workers, f \in Fibers : Holds(v, f)' <=> Holds(v, f) /\ ~(v = w /\ f = g)
  BY <1>2, <1>4 DEF Holds
<1> QED BY <1>1, <1>2, <1>3, <1>5, <1>6

LEMMA WakeOtherMoves ==
    ASSUME TypeInv, NEW w \in Workers, WakeOther(w)
    PROVE  /\ registered' = registered
           /\ \A f \in Fibers : InRing(f)' <=> InRing(f)
           /\ \A v \in Workers, f \in Fibers : Holds(v, f)' <=> Holds(v, f)
           /\ PushedIsTaken => PushedIsTaken'
<1> USE DEF TypeInv, TypeOK, ThreadTypes, ListTypes
<1>1. PICK g \in toWake[w] :
          waking' = [waking EXCEPT ![w] = g] /\ toWake' = [toWake EXCEPT ![w] = @ \ {g}]
  BY DEF WakeOther
<1>2. ring' = ring /\ pc[w] = "fiber" /\ registered' = registered
  BY DEF WakeOther, matrixVars
<1>3. \A v \in Workers : v # w => toWake'[v] = toWake[v] /\ waking'[v] = waking[v] /\ pc'[v] = pc[v]
  BY <1>1 DEF WakeOther
<1>4. toWake'[w] = toWake[w] \ {g} /\ waking'[w] = g /\ pc'[w] = "push"
  BY <1>1 DEF WakeOther
<1>5. \A f \in Fibers : InRing(f)' <=> InRing(f)
  BY <1>2 DEF InRing
<1>6. \A v \in Workers, f \in Fibers : Holds(v, f)' <=> Holds(v, f)
  BY <1>1, <1>2, <1>3, <1>4 DEF Holds
<1>7. PushedIsTaken => PushedIsTaken'
  BY <1>3, <1>4 DEF PushedIsTaken
<1> QED BY <1>2, <1>5, <1>6, <1>7

LEMMA PushMoves ==
    ASSUME TypeInv, PushedIsTaken, NEW w \in Workers, Push(w)
    PROVE  /\ waking[w] \in Fibers /\ Holds(w, waking[w])
           /\ registered' = registered
           /\ \A s, d \in Workers : ring'[s][d] =
                 IF s = w /\ d = Owner[waking[w]] THEN Append(ring[s][d], waking[w]) ELSE ring[s][d]
           /\ \A f \in Fibers : InRing(f)' <=> InRing(f) \/ f = waking[w]
           /\ \A v \in Workers, f \in Fibers :
                 Holds(v, f)' <=> Holds(v, f) /\ ~(v = w /\ f = waking[w])
<1>0. PICK g \in Fibers, e \in Workers : g = waking[w] /\ e = Owner[g]
  BY OwnerAssumption DEF Push, TypeInv, CurrentWhileRunning
<1>1. Holds(w, g)
  BY <1>0 DEF Push, Holds
<1>2. registered' = registered /\ toWake' = toWake /\ waking' = waking /\ pc[w] = "push"
  BY DEF Push, listVars
<1>3. \A v \in Workers : pc'[v] = IF v = w THEN "setbit" ELSE pc[v]
  BY DEF Push, TypeInv, TypeOK, ThreadTypes
<1>4. \A s, d \in Workers : ring'[s][d] = IF s = w /\ d = e THEN Append(ring[s][d], g) ELSE ring[s][d]
  BY <1>0 DEF Push, TypeInv, TypeOK, MatrixTypes
<1>5. ASSUME NEW f \in Fibers PROVE InRing(f)' <=> InRing(f) \/ f = g
  <2>1. ASSUME NEW s \in Workers, NEW d \in Workers
        PROVE  (\E i \in DOMAIN ring'[s][d] : ring'[s][d][i] = f)
                 <=> (\E i \in DOMAIN ring[s][d] : ring[s][d][i] = f) \/ (s = w /\ d = e /\ f = g)
    <3>1. CASE s = w /\ d = e
      <4> DEFINE q == ring[s][d]
      <4>1. q \in Seq(Fibers) /\ ring'[s][d] = Append(q, g)
        BY <1>1, <1>4, <3>1 DEF TypeInv, TypeOK, MatrixTypes
      <4>2. /\ \A i \in DOMAIN q : i \in DOMAIN Append(q, g) /\ Append(q, g)[i] = q[i]
            /\ \A i \in DOMAIN Append(q, g) : i \in DOMAIN q \/ i = Len(q) + 1
            /\ Len(q) + 1 \in DOMAIN Append(q, g) /\ Append(q, g)[Len(q) + 1] = g
        BY <1>1, <4>1, Appended
      <4> HIDE DEF q
      <4>3. (\E i \in DOMAIN Append(q, g) : Append(q, g)[i] = f) <=> (\E i \in DOMAIN q : q[i] = f) \/ f = g
        BY <4>2
      <4> QED BY <3>1, <4>1, <4>3 DEF q
    <3>2. CASE ~(s = w /\ d = e)
      BY <1>4, <3>2
    <3> QED BY <3>1, <3>2
  <2> QED BY ZenonT(40), <2>1 DEF InRing
<1>6. \A v \in Workers, f \in Fibers : Holds(v, f)' <=> Holds(v, f) /\ ~(v = w /\ f = g)
  BY <1>0, <1>2, <1>3 DEF Holds, PushedIsTaken
<1> QED BY <1>0, <1>1, <1>2, <1>4, <1>5, <1>6

LEMMA PopMoves ==
    ASSUME TypeInv, QueuedOnce, RingsAreOwned, NEW w \in Workers, Pop(w)
    PROVE  \E r \in Workers, g \in Fibers :
             /\ ring[r][w] # <<>> /\ g = Head(ring[r][w]) /\ Wake(w, g) /\ FirstSource(w, r)
             /\ InRing(g) /\ Owner[g] = w
             /\ visible' = [visible EXCEPT ![w][r] = IF @ = 0 THEN 0 ELSE @ - 1]
             /\ registered' = registered
             /\ \A s, d \in Workers : ring'[s][d] =
                   IF s = r /\ d = w THEN Tail(ring[s][d]) ELSE ring[s][d]
             /\ \A f \in Fibers : InRing(f)' => InRing(f) /\ f # g
             /\ \A v \in Workers, f \in Fibers : Holds(v, f)' <=> Holds(v, f)
<1>1. PICK r \in Workers :
          /\ ring[r][w] # <<>>
          /\ Wake(w, Head(ring[r][w]))
          /\ FirstSource(w, r)
          /\ ring' = [ring EXCEPT ![r][w] = Tail(@)]
          /\ visible' = [visible EXCEPT ![w][r] = IF @ = 0 THEN 0 ELSE @ - 1]
  BY DEF Pop
<1>2. PICK q \in Seq(Fibers), g \in Fibers :
          q = ring[r][w] /\ q # <<>> /\ g = Head(q) /\ g = q[1] /\ 1 \in DOMAIN q
  BY SMT, <1>1 DEF TypeInv, TypeOK, MatrixTypes
<1>3. Owner[g] = w /\ InRing(g)
  BY SMT, <1>2 DEF RingsAreOwned, InRing
<1>4. \A s, d \in Workers : ring'[s][d] = IF s = r /\ d = w THEN Tail(ring[s][d]) ELSE ring[s][d]
  BY <1>1 DEF TypeInv, TypeOK, MatrixTypes
<1>5. ASSUME NEW f \in Fibers, InRing(f)' PROVE InRing(f) /\ f # g
  <2>1. PICK s \in Workers, d \in Workers : \E i \in DOMAIN ring'[s][d] : ring'[s][d][i] = f
    BY <1>5 DEF InRing
  <2>2. PICK i \in DOMAIN ring'[s][d] : ring'[s][d][i] = f
    BY <2>1
  <2>3. CASE s = r /\ d = w
    <3>1. ring'[s][d] = Tail(q)
      BY <1>2, <1>4, <2>3
    <3>2. i + 1 # 1 /\ i + 1 \in DOMAIN q /\ f = q[i + 1]
      <4>1. i \in DOMAIN Tail(q) /\ f = Tail(q)[i]
        BY <2>2, <3>1
      <4> QED BY <1>2, <4>1, Popped
    <3> QED BY SMT, <1>2, <2>3, <3>2 DEF InRing, QueuedOnce
  <2>4. CASE ~(s = r /\ d = w)
    <3>1. i \in DOMAIN ring[s][d] /\ ring[s][d][i] = f
      BY <1>4, <2>2, <2>4
    <3>2. f = g => d = w
      BY SMT, <1>3, <3>1 DEF RingsAreOwned
    <3>3. f = g => s = r
      <4> SUFFICES ASSUME f = g PROVE s = r
        OBVIOUS
      <4>1. i \in DOMAIN ring[s][w] /\ ring[s][w][i] = ring[r][w][1] /\ 1 \in DOMAIN ring[r][w]
        BY <1>2, <3>1, <3>2
      <4> QED BY <4>1 DEF QueuedOnce
    <3> QED BY <2>4, <3>1, <3>2, <3>3 DEF InRing
  <2> QED BY <2>3, <2>4
<1>6. \A v \in Workers, f \in Fibers : Holds(v, f)' <=> Holds(v, f)
  BY DEF Pop, Holds, threadVars, listVars
<1>7. registered' = registered
  BY DEF Pop, listVars
<1> QED BY ZenonT(40), <1>1, <1>2, <1>3, <1>4, <1>5, <1>6, <1>7

LEMMA NextCases ==
    ASSUME Next
    PROVE  \E w \in Workers : \/ Quiet(w) \/ Register(w) \/ Detach(w) \/ WakeOwn(w)
                             \/ WakeOther(w) \/ Push(w) \/ Pop(w)
  BY DEF Next, Thread, Quiet

LEMMA WokenOnceStep == WakeInv /\ [Next]_vars => WokenOnce'
<1> SUFFICES ASSUME WakeInv, [Next]_vars PROVE WokenOnce'
  OBVIOUS
<1>0. TypeInv /\ WokenOnce /\ WakeFindsParked /\ PushedIsTaken /\ QueuedOnce /\ RingsAreOwned
  BY DEF WakeInv
<1>1. ASSUME NEW w \in Workers, Quiet(w) PROVE WokenOnce'
  BY <1>0, <1>1, QuietStep DEF WokenOnce
<1>2. ASSUME NEW w \in Workers, Register(w) PROVE WokenOnce'
  <2>1. current[w] \in Fibers /\ ~Settled(current[w])
    BY <1>0, <1>2 DEF WakeInv, TypeInv, CurrentWhileRunning, StatesAgree, RunningFiber, Register,
       Settled
  <2>2. ~InRing(current[w]) /\ \A v \in Workers : ~Holds(v, current[w])
    BY <1>0, <2>1 DEF WakeFindsParked, OnItsWay
  <2> QED BY SMT, <1>0, <1>2, <2>2, RegisterMoves DEF WokenOnce
<1>3. ASSUME NEW w \in Workers, Detach(w) PROVE WokenOnce'
  <2>1. PICK fs \in SUBSET registered :
             /\ registered' = registered \ fs
             /\ \A f \in Fibers : InRing(f)' <=> InRing(f)
             /\ \A v \in Workers, f \in Fibers :
                   Holds(v, f)' <=> Holds(v, f) \/ (v = w /\ f \in fs)
    BY <1>0, <1>3, DetachMoves
  <2> QED BY <1>0, <2>1 DEF WokenOnce
<1>4. ASSUME NEW w \in Workers, WakeOwn(w) PROVE WokenOnce'
  <2>1. PICK g \in Fibers :
             /\ registered' = registered
             /\ \A f \in Fibers : InRing(f)' <=> InRing(f)
             /\ \A v \in Workers, f \in Fibers :
                   Holds(v, f)' <=> Holds(v, f) /\ ~(v = w /\ f = g)
    BY <1>0, <1>4, WakeOwnMoves
  <2> QED BY <1>0, <2>1 DEF WokenOnce
<1>5. ASSUME NEW w \in Workers, WakeOther(w) PROVE WokenOnce'
  BY <1>0, <1>5, WakeOtherMoves DEF WokenOnce
<1>6. ASSUME NEW w \in Workers, Push(w) PROVE WokenOnce'
  BY SMT, <1>0, <1>6, PushMoves DEF WokenOnce
<1>7. ASSUME NEW w \in Workers, Pop(w) PROVE WokenOnce'
  <2>1. PICK g \in Fibers :
             /\ registered' = registered
             /\ \A f \in Fibers : InRing(f)' => InRing(f) /\ f # g
             /\ \A v \in Workers, f \in Fibers : Holds(v, f)' <=> Holds(v, f)
    BY SMT, <1>0, <1>7, PopMoves
  <2> QED BY <1>0, <2>1 DEF WokenOnce
<1>8. CASE UNCHANGED vars
  BY SMT, <1>0, <1>8 DEF WokenOnce, InRing, Holds, vars, threadVars, listVars, matrixVars
<1> QED BY <1>1, <1>2, <1>3, <1>4, <1>5, <1>6, <1>7, <1>8, NextCases

LEMMA WakeFindsParkedStep == WakeInv /\ [Next]_vars => WakeFindsParked'
<1> SUFFICES ASSUME WakeInv, [Next]_vars PROVE WakeFindsParked'
  OBVIOUS
<1>0. TypeInv /\ WokenOnce /\ WakeFindsParked /\ PushedIsTaken /\ QueuedOnce /\ RingsAreOwned
  BY DEF WakeInv
<1>t. /\ pc \in [Workers -> ThreadStates] /\ current \in [Workers -> Fibers \cup {NoFiber}]
      /\ state \in [Fibers -> FiberStates] /\ Owner \in [Fibers -> Workers]
  BY <1>0, OwnerAssumption DEF TypeInv, TypeOK, ThreadTypes, ReactorTypes
<1>1. ASSUME NEW w \in Workers, Quiet(w) PROVE WakeFindsParked'
  <2>1. \A f \in Fibers : OnItsWay(f)' => OnItsWay(f)
    BY <1>0, <1>1, QuietStep DEF OnItsWay
  <2>2. ASSUME NEW f \in Fibers, Settled(f) PROVE Settled(f)'
    <3>1. CASE Resume(w)
      <4>1. ready[w] # <<>> /\ Head(ready[w]) = ready[w][1] /\ 1 \in DOMAIN ready[w] /\ Head(ready[w]) \in Fibers
        BY SMT, <1>0, <3>1 DEF Resume, TypeInv, TypeOK, ThreadTypes, ReactorTypes, BatchWithinReady
      <4>2. state[Head(ready[w])] = "Ready"
        BY SMT, <4>1 DEF WakeInv, StatesAgree
      <4> QED BY <1>t, <2>2, <3>1, <4>1, <4>2 DEF Resume, Settled
    <3>2. CASE Yield(w)
      <4>1. state[current[w]] = "Running" /\ current[w] \in Fibers
        BY <3>2 DEF WakeInv, TypeInv, CurrentWhileRunning, StatesAgree, RunningFiber, Yield
      <4> QED BY <1>t, <2>2, <3>2, <4>1 DEF Yield, Settled
    <3>3. CASE Park(w)
      <4>1. ~pendingWake[current[w]] /\ current[w] \in Fibers
        BY <3>3 DEF WakeInv, TypeInv, CurrentWhileRunning, NeverPending, Park
      <4> QED BY ZenonT(40), <1>t, <2>2, <3>3, <4>1 DEF Park, Settled
    <3>4. CASE EndBatch(w) \/ SetBit(w) \/ Count(w) \/ CheckPending(w) \/ Exchange(w)
               \/ PopEmpty(w) \/ NextWord(w) \/ Subtract(w)
      <4>1. pc[w] # "parking" /\ pc' = [pc EXCEPT ![w] = pc'[w]] /\ state' = state /\ current' = current
        BY <1>t, <3>4 DEF StartBatch, EndBatch, SetBit, Count, CheckPending, Exchange, PopEmpty,
           NextWord, Subtract, threadVars, reactorVars, listVars, matrixVars, drainVars
      <4> QED BY <1>t, <2>2, <4>1 DEF Settled
    <3> QED BY <1>1, <3>1, <3>2, <3>3, <3>4 DEF Quiet
  <2> QED BY <1>0, <2>1, <2>2 DEF WakeFindsParked
<1>2. ASSUME NEW w \in Workers, Register(w) PROVE WakeFindsParked'
  <2>1. \A f \in Fibers : OnItsWay(f)' => OnItsWay(f) \/ f = current[w]
    BY <1>0, <1>2, RegisterMoves DEF OnItsWay
  <2>2. current[w] \in Fibers /\ Owner[current[w]] = w
    BY <1>2 DEF WakeInv, TypeInv, CurrentWhileRunning, StatesAgree, RunningFiber, Register
  <2>3. \A f \in Fibers : Settled(f) \/ f = current[w] => Settled(f)'
    BY <1>t, <1>2, <2>2 DEF Register, Settled, reactorVars
  <2> QED BY <1>0, <2>1, <2>3 DEF WakeFindsParked
<1>3. ASSUME NEW w \in Workers, Detach(w) PROVE WakeFindsParked'
  <2>1. \A f \in Fibers : OnItsWay(f)' => OnItsWay(f)
    BY <1>0, <1>3, DetachMoves DEF OnItsWay
  <2>2. \A f \in Fibers : Settled(f) => Settled(f)'
    BY <1>3 DEF Detach, Settled, threadVars, reactorVars
  <2> QED BY <1>0, <2>1, <2>2 DEF WakeFindsParked
<1>4. ASSUME NEW w \in Workers, WakeOwn(w) PROVE WakeFindsParked'
  <2>1. PICK g \in Fibers :
             /\ Holds(w, g) /\ Wake(w, g)
             /\ registered' = registered
             /\ \A f \in Fibers : InRing(f)' <=> InRing(f)
             /\ \A v \in Workers, f \in Fibers :
                   Holds(v, f)' <=> Holds(v, f) /\ ~(v = w /\ f = g)
    BY <1>0, <1>4, WakeOwnMoves
  <2>2. \A f \in Fibers : OnItsWay(f)' => OnItsWay(f) /\ f # g
    BY <1>0, <2>1 DEF OnItsWay, WokenOnce
  <2>3. \A f \in Fibers : Settled(f) /\ f # g => Settled(f)'
    BY <1>t, <1>4, <2>1 DEF WakeOwn, Wake, Settled, threadVars
  <2> QED BY <1>0, <2>2, <2>3 DEF WakeFindsParked
<1>5. ASSUME NEW w \in Workers, WakeOther(w) PROVE WakeFindsParked'
  <2>1. \A f \in Fibers : OnItsWay(f)' => OnItsWay(f)
    BY <1>0, <1>5, WakeOtherMoves DEF OnItsWay
  <2>2. \A f \in Fibers : Settled(f) => Settled(f)'
    BY <1>t, <1>5 DEF WakeOther, Settled, reactorVars
  <2> QED BY <1>0, <2>1, <2>2 DEF WakeFindsParked
<1>6. ASSUME NEW w \in Workers, Push(w) PROVE WakeFindsParked'
  <2>1. \A f \in Fibers : OnItsWay(f)' => OnItsWay(f)
    BY ZenonT(40), <1>0, <1>6, PushMoves DEF OnItsWay
  <2>2. \A f \in Fibers : Settled(f) => Settled(f)'
    BY <1>t, <1>6 DEF Push, Settled, reactorVars
  <2> QED BY <1>0, <2>1, <2>2 DEF WakeFindsParked
<1>7. ASSUME NEW w \in Workers, Pop(w) PROVE WakeFindsParked'
  <2>1. PICK g \in Fibers :
             /\ InRing(g) /\ Wake(w, g)
             /\ registered' = registered
             /\ \A f \in Fibers : InRing(f)' => InRing(f) /\ f # g
             /\ \A v \in Workers, f \in Fibers : Holds(v, f)' <=> Holds(v, f)
    BY <1>0, <1>7, PopMoves
  <2>2. \A f \in Fibers : OnItsWay(f)' => OnItsWay(f) /\ f # g
    BY <1>0, <2>1 DEF OnItsWay, WokenOnce
  <2>3. \A f \in Fibers : Settled(f) /\ f # g => Settled(f)'
    BY <1>t, <1>7, <2>1 DEF Pop, Wake, Settled, threadVars
  <2> QED BY <1>0, <2>2, <2>3 DEF WakeFindsParked
<1>8. CASE UNCHANGED vars
  BY ZenonT(40), <1>0, <1>8 DEF WakeFindsParked, OnItsWay, Settled, InRing, Holds, vars, threadVars,
     reactorVars, listVars, matrixVars
<1> QED BY <1>1, <1>2, <1>3, <1>4, <1>5, <1>6, <1>7, <1>8, NextCases

LEMMA PushedIsTakenStep == WakeInv /\ [Next]_vars => PushedIsTaken'
<1> SUFFICES ASSUME WakeInv, [Next]_vars PROVE PushedIsTaken'
  OBVIOUS
<1>0. TypeInv /\ PushedIsTaken
  BY DEF WakeInv
<1>1. ASSUME NEW w \in Workers, Quiet(w) PROVE PushedIsTaken'
  BY <1>0, <1>1, QuietStep DEF PushedIsTaken
<1>2. ASSUME NEW w \in Workers, Register(w) \/ Push(w) \/ Pop(w) PROVE PushedIsTaken'
  BY <1>0, <1>2 DEF PushedIsTaken, Register, Push, Pop, TypeInv, TypeOK, ThreadTypes, threadVars,
     listVars
<1>3. ASSUME NEW w \in Workers, Detach(w) \/ WakeOwn(w) PROVE PushedIsTaken'
  <2>1. pc' = pc /\ waking' = waking /\ pc[w] = "fiber"
    BY <1>3 DEF Detach, WakeOwn, threadVars
  <2>2. \A v \in Workers : v # w => toWake'[v] = toWake[v]
    BY <1>0, <1>3 DEF Detach, WakeOwn, TypeInv, TypeOK, ListTypes
  <2> QED BY <1>0, <2>1, <2>2 DEF PushedIsTaken
<1>4. ASSUME NEW w \in Workers, WakeOther(w) PROVE PushedIsTaken'
  BY <1>0, <1>4, WakeOtherMoves
<1>5. CASE UNCHANGED vars
  BY <1>0, <1>5 DEF PushedIsTaken, vars, threadVars, listVars
<1> QED BY <1>1, <1>2, <1>3, <1>4, <1>5, NextCases

LEMMA RingsStep == WakeInv /\ [Next]_vars => RingsAreOwned' /\ QueuedOnce'
<1> SUFFICES ASSUME WakeInv, [Next]_vars PROVE RingsAreOwned' /\ QueuedOnce'
  OBVIOUS
<1>0. TypeInv /\ WokenOnce /\ PushedIsTaken /\ QueuedOnce /\ RingsAreOwned
  BY DEF WakeInv
<1>t. \A s, d \in Workers : ring[s][d] \in Seq(Fibers)
  BY <1>0 DEF TypeInv, TypeOK, MatrixTypes
<1>u. \A s, d \in Workers : ring'[s][d] \in Seq(Fibers)
  BY <1>0, TypeStep DEF TypeInv, TypeOK, MatrixTypes
<1>1. CASE ring' = ring
  BY SMT, <1>0, <1>1 DEF RingsAreOwned, QueuedOnce
<1>2. ASSUME NEW w \in Workers, Push(w) PROVE RingsAreOwned' /\ QueuedOnce'
  <2>1. PICK g \in Fibers, e \in Workers :
          /\ g = waking[w] /\ e = Owner[g] /\ Holds(w, g)
          /\ \A s, d \in Workers :
                ring'[s][d] = IF s = w /\ d = e THEN Append(ring[s][d], g) ELSE ring[s][d]
    BY SMT, <1>0, <1>2, PushMoves, OwnerAssumption
  <2>2. ~InRing(g)
    BY <1>0, <2>1 DEF WokenOnce
  <2>3. ASSUME NEW s \in Workers, NEW d \in Workers, NEW i \in DOMAIN ring'[s][d]
        PROVE  \/ i \in DOMAIN ring[s][d] /\ ring'[s][d][i] = ring[s][d][i]
               \/ s = w /\ d = e /\ i = Len(ring[w][e]) + 1 /\ ring'[s][d][i] = g
    <3>1. CASE s = w /\ d = e
      <4>1. ring'[s][d] = Append(ring[s][d], g)
        BY <2>1, <3>1
      <4> QED BY SMT, <1>t, <3>1, <4>1, Appended
    <3>2. CASE ~(s = w /\ d = e)
      BY <2>1, <2>3, <3>2
    <3> QED BY <3>1, <3>2
  <2>4. RingsAreOwned'
    BY SMT, <1>0, <2>1, <2>3 DEF RingsAreOwned
  <2>5. ASSUME NEW s \in Workers, NEW t \in Workers, NEW d \in Workers,
               NEW i \in DOMAIN ring'[s][d], NEW j \in DOMAIN ring'[t][d],
               ring'[s][d][i] = ring'[t][d][j]
        PROVE  s = t /\ i = j
    <3>1. CASE i \in DOMAIN ring[s][d] /\ ring'[s][d][i] = ring[s][d][i]
      <4>1. ring[s][d][i] # g
        BY <2>2, <3>1 DEF InRing
      <4>2. j \in DOMAIN ring[t][d] /\ ring'[t][d][j] = ring[t][d][j]
        BY <2>3, <2>5, <3>1, <4>1
      <4>3. i \in DOMAIN ring[s][d] /\ j \in DOMAIN ring[t][d] /\ ring[s][d][i] = ring[t][d][j]
        BY <2>5, <3>1, <4>2
      <4>4. QueuedOnce
        BY <1>0
      <4> QED BY SMT, <4>3, <4>4 DEF QueuedOnce
    <3>2. CASE s = w /\ d = e /\ i = Len(ring[w][e]) + 1 /\ ring'[s][d][i] = g
      <4>1. ~(j \in DOMAIN ring[t][d] /\ ring'[t][d][j] = ring[t][d][j])
        BY <2>2, <2>5, <3>2 DEF InRing
      <4> QED BY <2>3, <3>2, <4>1
    <3> QED BY <2>3, <3>1, <3>2
  <2> QED BY <2>4, <2>5 DEF QueuedOnce
<1>3. ASSUME NEW w \in Workers, Pop(w) PROVE RingsAreOwned' /\ QueuedOnce'
  <2>1. PICK r \in Workers :
          /\ ring[r][w] # <<>>
          /\ \A s, d \in Workers :
                ring'[s][d] = IF s = r /\ d = w THEN Tail(ring[s][d]) ELSE ring[s][d]
    BY SMT, <1>0, <1>3, PopMoves
  <2>2. ASSUME NEW s \in Workers, NEW d \in Workers, NEW i \in DOMAIN ring'[s][d]
        PROVE  \/ ~(s = r /\ d = w) /\ i \in DOMAIN ring[s][d] /\ ring'[s][d][i] = ring[s][d][i]
               \/ s = r /\ d = w /\ i + 1 \in DOMAIN ring[s][d] /\ ring'[s][d][i] = ring[s][d][i + 1]
    <3>1. CASE s = r /\ d = w
      <4>1. ring'[s][d] = Tail(ring[s][d]) /\ ring[s][d] # <<>>
        BY <2>1, <3>1
      <4> QED BY SMT, <1>t, <2>2, <3>1, <4>1, Popped
    <3>2. CASE ~(s = r /\ d = w)
      BY <2>1, <2>2, <3>2
    <3> QED BY <3>1, <3>2
  <2>3. RingsAreOwned'
    BY SMT, <1>0, <2>2 DEF RingsAreOwned
  <2>4. ASSUME NEW s \in Workers, NEW t \in Workers, NEW d \in Workers,
               NEW i \in DOMAIN ring'[s][d], NEW j \in DOMAIN ring'[t][d],
               ring'[s][d][i] = ring'[t][d][j]
        PROVE  s = t /\ i = j
    <3>1. i \in Nat /\ j \in Nat
      BY SMT, <1>u
    <3>2. s = t
      BY SMT, <1>0, <2>2, <2>4 DEF QueuedOnce
    <3>3. CASE s = r /\ d = w
      <4>1. i + 1 = j + 1
        BY SMT, <1>0, <2>2, <2>4, <3>2, <3>3 DEF QueuedOnce
      <4> QED BY SMT, <3>1, <3>2, <4>1
    <3>4. CASE ~(s = r /\ d = w)
      BY SMT, <1>0, <2>2, <2>4, <3>2, <3>4 DEF QueuedOnce
    <3> QED BY <3>2, <3>3, <3>4
  <2> QED BY <2>3, <2>4 DEF QueuedOnce
<1>4. ASSUME NEW w \in Workers, Register(w) \/ Detach(w) \/ WakeOwn(w)
                                \/ WakeOther(w) PROVE ring' = ring
  BY <1>4 DEF Register, Detach, WakeOwn, WakeOther, matrixVars
<1>5. UNCHANGED vars => ring' = ring
  BY DEF vars, matrixVars
<1>6. ASSUME NEW w \in Workers, Quiet(w) PROVE ring' = ring
  BY <1>0, <1>6, QuietStep
<1> QED BY <1>1, <1>2, <1>3, <1>4, <1>5, <1>6, NextCases

LEMMA AnnouncedStep == WakeInv /\ [Next]_vars => Announced'
<1> SUFFICES ASSUME WakeInv, [Next]_vars PROVE Announced'
  OBVIOUS
<1>0. TypeInv /\ Announced /\ PushedIsTaken /\ QueuedOnce /\ RingsAreOwned
  BY DEF WakeInv
<1>t. ThreadTypes /\ ListTypes /\ MatrixTypes /\ DrainTypes
  BY <1>0 DEF TypeInv, TypeOK
<1>1. ASSUME NEW w \in Workers,
             Resume(w) \/ EndBatch(w) \/ Yield(w) \/ Register(w) \/ Park(w) \/ Detach(w)
             \/ WakeOwn(w) \/ WakeOther(w) \/ Count(w) \/ CheckPending(w) \/ NextWord(w)
             \/ Subtract(w)
      PROVE  Announced'
  <2>1. ring' = ring /\ active' = active /\ sources' = sources /\ visible' = visible
    BY <1>1 DEF Resume, EndBatch, Yield, Register, Park, Detach, WakeOwn, WakeOther, Count,
       CheckPending, NextWord, Subtract, threadVars, reactorVars, listVars, matrixVars, drainVars
  <2>2. pc[w] # "setbit" /\ (pc[w] = "pop" => sources[w] = {})
    BY <1>1, ZenonT(60) DEF Resume, EndBatch, Yield, Register, Park, Detach, WakeOwn, WakeOther, Count,
       CheckPending, NextWord, Subtract
  <2>3. \A v \in Workers : v # w => pc'[v] = pc[v]
    BY <1>t, <1>1 DEF ThreadTypes, threadVars, StartBatch, Resume, EndBatch, Yield, Register,
       Park, Detach, WakeOwn, WakeOther, Count, CheckPending, NextWord, Subtract
  <2>4. \A v \in Workers : v # w => waking'[v] = waking[v]
    BY <1>t, <1>1 DEF ListTypes, listVars, Resume, EndBatch, Yield, Register, Park, Detach,
       WakeOwn, WakeOther, Count, CheckPending, NextWord, Subtract
  <2> QED BY <1>0, <2>1, <2>2, <2>3, <2>4 DEF Announced
<1>2. ASSUME NEW w \in Workers, Push(w) PROVE Announced'
  <2>1. \A s, d \in Workers :
            ring'[s][d] = IF s = w /\ d = Owner[waking[w]] THEN Append(ring[s][d], waking[w]) ELSE ring[s][d]
    BY <1>0, <1>2, PushMoves
  <2>2. /\ active' = active /\ sources' = sources /\ visible' = visible /\ waking' = waking
        /\ pc[w] = "push" /\ pc'[w] = "setbit" /\ \A v \in Workers : v # w => pc'[v] = pc[v]
    BY <1>t, <1>2 DEF Push, ThreadTypes, listVars, drainVars
  <2> QED BY SMT, <1>0, <2>1, <2>2 DEF Announced
<1>3. ASSUME NEW w \in Workers, SetBit(w) PROVE Announced'
  <2>1. /\ sources' = sources /\ visible' = visible /\ waking' = waking /\ ring' = ring
        /\ pc[w] = "setbit" /\ pc'[w] = "count" /\ \A v \in Workers : v # w => pc'[v] = pc[v]
    BY <1>t, <1>3 DEF SetBit, ThreadTypes, listVars, drainVars
  <2>2. \A d \in Workers : active[d] \subseteq active'[d] /\ (d = Owner[waking[w]] => w \in active'[d])
    BY <1>t, <1>3 DEF SetBit, MatrixTypes
  <2> QED BY <1>0, <2>1, <2>2 DEF Announced
<1>4. ASSUME NEW w \in Workers, Exchange(w) PROVE Announced'
  <2> DEFINE taken == {s \in active[w] : WordOf[s] = word[w]}
  <2>1. /\ waking' = waking /\ ring' = ring
        /\ pc[w] = "exchange" /\ pc'[w] = "pop" /\ \A v \in Workers : v # w => pc'[v] = pc[v]
    BY <1>t, <1>4 DEF Exchange, ThreadTypes, listVars
  <2>2. \A d \in Workers : d # w => active'[d] = active[d] /\ sources'[d] = sources[d] /\ visible'[d] = visible[d]
    BY <1>t, <1>4 DEF Exchange, MatrixTypes, DrainTypes
  <2>3. active'[w] = active[w] \ taken /\ sources'[w] = taken
    BY <1>t, <1>4 DEF Exchange, MatrixTypes, DrainTypes
  <2>4. \A s \in taken : s \in Workers /\ visible'[w][s] = Certain(s, w)
    BY <1>t, <1>4 DEF Exchange, MatrixTypes, DrainTypes
  <2>5. ASSUME NEW s \in Workers, NEW d \in Workers, ring'[s][d] # <<>>
        PROVE  \/ s \in active'[d]
               \/ pc'[s] = "setbit" /\ Owner[waking'[s]] = d
               \/ s \in sources'[d] /\ Len(ring'[s][d]) <= visible'[d][s]
    <3>1. CASE d # w
      BY <1>0, <2>1, <2>2, <2>5, <3>1 DEF Announced
    <3>2. CASE d = w /\ s \in taken
      <4>1. Len(ring[s][d]) \in Nat
        BY SMT, <1>t DEF MatrixTypes
      <4> HIDE DEF taken
      <4>2. visible'[d][s] = Certain(s, w) /\ s \in sources'[d]
        BY <2>3, <2>4, <3>2
      <4> QED BY SMT, <2>1, <3>2, <4>1, <4>2 DEF Certain
    <3>3. CASE d = w /\ s \notin taken
      <4>1. sources[w] = {}
        BY <1>0, <2>1 DEF Announced
      <4>2. s \in active[w] \/ (pc[s] = "setbit" /\ Owner[waking[s]] = w)
        BY <1>0, <2>1, <2>5, <3>3, <4>1 DEF Announced
      <4> QED BY <2>1, <2>3, <3>3, <4>2
    <3> QED BY <3>1, <3>2, <3>3
  <2>6. \A d \in Workers : pc'[d] # "pop" => sources'[d] = {}
    BY <1>0, <2>1, <2>2 DEF Announced
  <2> QED BY <2>5, <2>6 DEF Announced
<1>5. ASSUME NEW w \in Workers, Pop(w) PROVE Announced'
  <2>1. PICK r \in Workers :
          /\ ring[r][w] # <<>>
          /\ visible' = [visible EXCEPT ![w][r] = IF @ = 0 THEN 0 ELSE @ - 1]
          /\ \A s, d \in Workers : ring'[s][d] =
                IF s = r /\ d = w THEN Tail(ring[s][d]) ELSE ring[s][d]
    BY SMT, <1>0, <1>5, PopMoves
  <2>2. active' = active /\ sources' = sources /\ pc' = pc /\ waking' = waking
    BY <1>5 DEF Pop, threadVars, listVars
  <2>3. \A s, d \in Workers : ~(s = r /\ d = w) => visible'[d][s] = visible[d][s]
    BY <1>t, <2>1 DEF DrainTypes
  <2>4. Len(ring'[r][w]) = Len(ring[r][w]) - 1 /\ Len(ring[r][w]) \in Nat \ {0}
    <3>1. ring[r][w] \in Seq(Fibers) /\ ring'[r][w] = Tail(ring[r][w])
      BY <1>t, <2>1 DEF MatrixTypes
    <3> QED BY SMT, <2>1, <3>1, Popped
  <2>5. visible[w][r] \in Nat /\ visible'[w][r] = IF visible[w][r] = 0 THEN 0 ELSE visible[w][r] - 1
    BY <1>t, <2>1 DEF DrainTypes
  <2>6. Len(ring[r][w]) <= visible[w][r] => Len(ring'[r][w]) <= visible'[w][r]
    BY SMT, <2>4, <2>5
  <2>7. ASSUME NEW s \in Workers, NEW d \in Workers, ring'[s][d] # <<>>
        PROVE  \/ s \in active[d]
               \/ pc[s] = "setbit" /\ Owner[waking[s]] = d
               \/ s \in sources[d] /\ Len(ring'[s][d]) <= visible'[d][s]
    <3>1. CASE s = r /\ d = w
      BY <1>0, <2>1, <2>6, <3>1 DEF Announced
    <3>2. CASE ~(s = r /\ d = w)
      BY SMT, <1>0, <2>1, <2>3, <2>7, <3>2 DEF Announced
    <3> QED BY <3>1, <3>2
  <2> QED BY <1>0, <2>2, <2>7 DEF Announced
<1>6. ASSUME NEW w \in Workers, PopEmpty(w) PROVE Announced'
  <2>1. PICK r \in Workers : visible[w][r] = 0 /\ sources' = [sources EXCEPT ![w] = @ \ {r}]
    BY <1>6 DEF PopEmpty
  <2>2. active' = active /\ ring' = ring /\ visible' = visible /\ pc' = pc /\ waking' = waking /\ pc[w] = "pop"
    BY <1>6 DEF PopEmpty, threadVars, listVars, matrixVars
  <2>3. ring[r][w] # <<>> => ~(Len(ring[r][w]) <= visible[w][r])
    BY SMT, <1>t, <2>1 DEF MatrixTypes
  <2>4. \A s, d \in Workers : s \in sources'[d] <=> s \in sources[d] /\ ~(s = r /\ d = w)
    BY <1>t, <2>1 DEF DrainTypes
  <2>5. \A d \in Workers : d # w => sources'[d] = sources[d]
    BY <1>t, <2>1 DEF DrainTypes
  <2> QED BY <1>0, <2>2, <2>3, <2>4, <2>5 DEF Announced
<1>7. CASE UNCHANGED vars
  BY <1>0, <1>7 DEF Announced, vars, threadVars, reactorVars, listVars, matrixVars, drainVars
<1> QED BY <1>1, <1>2, <1>3, <1>4, <1>5, <1>6, <1>7 DEF Next, Thread

(* BaseReactor::wake on a Parked fiber of its own worker. *)
LEMMA WakeParked ==
    ASSUME TypeInv, StatesAgree, NeverPending, NEW w \in Workers, NEW g \in Fibers,
           Owner[g] = w, state[g] = "Parked", Wake(w, g), pc' = pc, current' = current
    PROVE  StatesAgree' /\ NeverPending'
<1>t. /\ ready \in [Workers -> Seq(Fibers)] /\ state \in [Fibers -> FiberStates]
      /\ pendingWake \in [Fibers -> BOOLEAN]
  BY DEF TypeInv, TypeOK, ReactorTypes
<1>1. state' = [state EXCEPT ![g] = "Ready"] /\ ready' = [ready EXCEPT ![w] = Append(@, g)]
  BY DEF Wake
<1>2. NeverPending'
  BY <1>t DEF Wake, NeverPending
<1>3. ASSUME NEW v \in Workers
      PROVE  /\ \A i \in DOMAIN ready'[v] : Owner[ready'[v][i]] = v /\ state'[ready'[v][i]] = "Ready"
             /\ \A i, j \in DOMAIN ready'[v] : ready'[v][i] = ready'[v][j] => i = j
  <2>1. CASE v = w
    <3>1. PICK q \in Seq(Fibers) : q = ready[w] /\ ready'[v] = Append(q, g)
      BY <1>t, <1>1, <2>1
    <3>2. \A i \in DOMAIN q : q[i] # g /\ q[i] \in Fibers /\ Owner[q[i]] = w /\ state[q[i]] = "Ready"
      BY SMT, <3>1 DEF StatesAgree
    <3>3. \A i, j \in DOMAIN q : q[i] = q[j] => i = j
      BY SMT, <3>1 DEF StatesAgree
    <3>4. /\ \A i \in DOMAIN q : Append(q, g)[i] = q[i]
          /\ \A i \in DOMAIN Append(q, g) : i \in DOMAIN q \/ (i = Len(q) + 1 /\ Append(q, g)[i] = g)
      BY Appended
    <3>5. \A f \in Fibers : state'[f] = IF f = g THEN "Ready" ELSE state[f]
      BY <1>t, <1>1
    <3>6. \A i \in DOMAIN Append(q, g) : Owner[Append(q, g)[i]] = v /\ state'[Append(q, g)[i]] = "Ready"
      BY ZenonT(40), <2>1, <3>2, <3>4, <3>5
    <3>7. \A i, j \in DOMAIN Append(q, g) : Append(q, g)[i] = Append(q, g)[j] => i = j
      BY <3>2, <3>3, <3>4
    <3> QED BY <3>1, <3>6, <3>7
  <2>2. CASE v # w
    <3>1. ready'[v] = ready[v] /\ \A i \in DOMAIN ready[v] : ready[v][i] \in Fibers
      BY SMT, <1>t, <1>1, <2>2
    <3>2. \A f \in Fibers : state[f] = "Ready" => state'[f] = "Ready"
      BY <1>t, <1>1
    <3>3. \A i \in DOMAIN ready[v] : Owner[ready[v][i]] = v /\ state[ready[v][i]] = "Ready"
      BY DEF StatesAgree
    <3>4. \A i, j \in DOMAIN ready[v] : ready[v][i] = ready[v][j] => i = j
      BY ZenonT(60) DEF StatesAgree
    <3> QED BY <3>1, <3>2, <3>3, <3>4
  <2> QED BY <2>1, <2>2
<1>4. \A v \in Workers : pc'[v] \in RunningFiber => Owner[current'[v]] = v /\ state'[current'[v]] = "Running"
  BY <1>t, <1>1 DEF StatesAgree, TypeInv, CurrentWhileRunning, RunningFiber
<1> QED BY <1>2, <1>3, <1>4 DEF StatesAgree

LEMMA StatesStep == WakeInv /\ [Next]_vars => StatesAgree' /\ NeverPending'
<1> SUFFICES ASSUME WakeInv, [Next]_vars PROVE StatesAgree' /\ NeverPending'
  OBVIOUS
<1>0. TypeInv /\ StatesAgree /\ NeverPending /\ WakeFindsParked /\ QueuedOnce /\ RingsAreOwned
  BY DEF WakeInv
<1>t. ThreadTypes /\ ReactorTypes /\ CurrentWhileRunning
  BY <1>0 DEF TypeInv, TypeOK
<1>1. ASSUME NEW w \in Workers, Resume(w) PROVE StatesAgree' /\ NeverPending'
  <2>1. PICK q \in Seq(Fibers) : q = ready[w] /\ q # <<>>
    BY SMT, <1>0, <1>1 DEF Resume, TypeInv, TypeOK, BatchWithinReady, ThreadTypes, ReactorTypes
  <2>2. PICK g \in Fibers : g = Head(q)
    BY SMT, <2>1
  <2>3. Owner[g] = w /\ state[g] = "Ready" /\ \A i \in DOMAIN Tail(q) : Tail(q)[i] \in Fibers /\ Tail(q)[i] # g
    <3>1. \A i \in DOMAIN q : Owner[q[i]] = w /\ state[q[i]] = "Ready" /\ q[i] \in Fibers
      BY SMT, <1>0, <2>1 DEF StatesAgree
    <3>2. \A i, j \in DOMAIN q : q[i] = q[j] => i = j
      BY ZenonT(40), <1>0, <2>1 DEF StatesAgree
    <3> QED BY SMT, <2>1, <2>2, <3>1, <3>2, Popped
  <2>4. \A i, j \in DOMAIN Tail(q) : Tail(q)[i] = Tail(q)[j] => i = j
    <3>1. \A i, j \in DOMAIN q : q[i] = q[j] => i = j
      BY ZenonT(40), <1>0, <2>1 DEF StatesAgree
    <3> QED BY SMT, <2>1, <3>1, Popped
  <2>5. \A i \in DOMAIN Tail(q) : Owner[Tail(q)[i]] = w /\ state[Tail(q)[i]] = "Ready"
    <3>1. \A i \in DOMAIN q : Owner[q[i]] = w /\ state[q[i]] = "Ready"
      BY <1>0, <2>1 DEF StatesAgree
    <3> QED BY SMT, <2>1, <3>1, Popped
  <2>6. \A f \in Fibers : state'[f] = IF f = g THEN "Running" ELSE state[f]
    BY <1>t, <1>1, <2>1, <2>2 DEF Resume, ReactorTypes
  <2>7. ready' = [ready EXCEPT ![w] = Tail(q)] /\ current' = [current EXCEPT ![w] = g] /\ pc' = [pc EXCEPT ![w] = "fiber"]
    BY <1>t, <1>1, <2>1, <2>2 DEF Resume, ReactorTypes
  <2>a. ready'[w] = Tail(q) /\ current'[w] = g /\ pc'[w] = "fiber"
    BY <1>t, <2>7 DEF ReactorTypes, ThreadTypes
  <2>b. \A v \in Workers : v # w => ready'[v] = ready[v] /\ current'[v] = current[v] /\ pc'[v] = pc[v]
    BY <1>t, <2>7 DEF ReactorTypes, ThreadTypes
  <2>8. \A v \in Workers : \A i \in DOMAIN ready[v] : ready[v][i] \in Fibers
    BY SMT, <1>t DEF ReactorTypes
  <2>9. ASSUME NEW v \in Workers
        PROVE  /\ \A i \in DOMAIN ready'[v] : Owner[ready'[v][i]] = v /\ state'[ready'[v][i]] = "Ready"
               /\ \A i, j \in DOMAIN ready'[v] : ready'[v][i] = ready'[v][j] => i = j
               /\ pc'[v] \in RunningFiber => Owner[current'[v]] = v /\ state'[current'[v]] = "Running"
    <3>1. CASE v = w
      <4>1. ready'[v] = Tail(q) /\ current'[v] = g
        BY <2>a, <3>1
      <4>2. \A i \in DOMAIN Tail(q) : state'[Tail(q)[i]] = "Ready"
        BY <2>3, <2>5, <2>6
      <4>3. Owner[g] = v /\ state'[g] = "Running" /\ \A i \in DOMAIN Tail(q) : Owner[Tail(q)[i]] = v
        BY <2>3, <2>5, <2>6, <3>1
      <4> QED BY <2>4, <4>1, <4>2, <4>3
    <3>2. CASE v # w
      <4>1. ready'[v] = ready[v] /\ current'[v] = current[v] /\ pc'[v] = pc[v]
        BY <2>b, <3>2
      <4>2. \A i \in DOMAIN ready[v] : Owner[ready[v][i]] = v /\ state'[ready[v][i]] = "Ready"
        <5>1. \A i \in DOMAIN ready[v] : Owner[ready[v][i]] = v /\ state[ready[v][i]] = "Ready"
          BY <1>0 DEF StatesAgree
        <5> QED BY <2>3, <2>6, <2>8, <3>2, <5>1
      <4>3. pc[v] \in RunningFiber => Owner[current[v]] = v /\ state'[current[v]] = "Running"
        BY SMT, <1>0, <1>t, <2>3, <2>6 DEF StatesAgree, CurrentWhileRunning, RunningFiber
      <4>4. \A i, j \in DOMAIN ready[v] : ready[v][i] = ready[v][j] => i = j
        BY <1>0 DEF StatesAgree
      <4> QED BY <4>1, <4>2, <4>3, <4>4, ZenonT(60)
    <3> QED BY <3>1, <3>2
  <2>10. NeverPending'
    BY <1>0, <1>1 DEF Resume, NeverPending
  <2> QED BY <2>9, <2>10 DEF StatesAgree
<1>2. ASSUME NEW w \in Workers, Yield(w) PROVE StatesAgree' /\ NeverPending'
  BY SMT, <1>0, <1>t, <1>2, OwnerAssumption
  DEF Yield, NeverPending, StatesAgree, RunningFiber, CurrentWhileRunning, ThreadTypes, ReactorTypes
<1>3. ASSUME NEW w \in Workers, Park(w) PROVE StatesAgree' /\ NeverPending'
  <2>1. current[w] \in Fibers /\ ~pendingWake[current[w]] /\ Owner[current[w]] = w /\ state[current[w]] = "Running"
    BY <1>0, <1>t, <1>3 DEF Park, NeverPending, StatesAgree, RunningFiber, CurrentWhileRunning
  <2>2. /\ pc' = [pc EXCEPT ![w] = "batch"] /\ current' = [current EXCEPT ![w] = NoFiber] /\ ready' = ready
        /\ state' = [state EXCEPT ![current[w]] = "Parked"]
        /\ pendingWake' = [pendingWake EXCEPT ![current[w]] = FALSE]
    BY <1>3, <2>1 DEF Park
  <2>3. NeverPending'
    BY <1>0, <1>t, <2>2 DEF NeverPending, ReactorTypes
  <2>4. StatesAgree'
    BY SMT, <1>0, <1>t, <2>1, <2>2 DEF StatesAgree, RunningFiber, CurrentWhileRunning, ThreadTypes,
       ReactorTypes
  <2> QED BY <2>3, <2>4
<1>4. ASSUME NEW w \in Workers, WakeOwn(w) PROVE StatesAgree' /\ NeverPending'
  <2>1. PICK g \in Fibers : Holds(w, g) /\ Owner[g] = w /\ Wake(w, g)
    BY <1>0, <1>4, WakeOwnMoves
  <2>2. pc' = pc /\ current' = current /\ pc[w] = "fiber"
    BY <1>4 DEF WakeOwn, threadVars
  <2>3. state[g] = "Parked"
    BY <1>0, <2>1, <2>2 DEF WakeFindsParked, OnItsWay, Settled
  <2> QED BY <1>0, <2>1, <2>2, <2>3, WakeParked
<1>5. ASSUME NEW w \in Workers, Pop(w) PROVE StatesAgree' /\ NeverPending'
  <2>1. PICK g \in Fibers : InRing(g) /\ Owner[g] = w /\ Wake(w, g)
    BY <1>0, <1>5, PopMoves
  <2>2. pc' = pc /\ current' = current /\ pc[w] = "pop"
    BY <1>5 DEF Pop, threadVars
  <2>3. state[g] = "Parked"
    BY <1>0, <2>1, <2>2 DEF WakeFindsParked, OnItsWay, Settled
  <2> QED BY <1>0, <2>1, <2>2, <2>3, WakeParked
<1>6. ASSUME NEW w \in Workers, Register(w) \/ WakeOther(w) \/ Push(w) \/ SetBit(w) \/ Count(w)
                                \/ EndBatch(w) \/ CheckPending(w) \/ Exchange(w) \/ NextWord(w)
                                \/ Subtract(w) \/ Detach(w) \/ PopEmpty(w)
      PROVE  StatesAgree' /\ NeverPending'
  <2>1. ready' = ready /\ state' = state /\ pendingWake' = pendingWake /\ current' = current
    BY <1>6 DEF Register, WakeOther, Push, SetBit, Count, EndBatch, CheckPending, Exchange,
       NextWord, Subtract, Detach, PopEmpty, threadVars, reactorVars, listVars, matrixVars, drainVars
  <2>2. \A v \in Workers : pc'[v] \in RunningFiber => pc[v] \in RunningFiber
    BY <1>t, <1>6, ZenonT(60) DEF ThreadTypes, RunningFiber, StartBatch, threadVars, Register, WakeOther,
       Push, SetBit, Count, EndBatch, CheckPending, Exchange, NextWord, Subtract, Detach, PopEmpty
  <2> QED BY SMT, <1>0, <2>1, <2>2 DEF StatesAgree, NeverPending
<1>7. CASE UNCHANGED vars
  <2>1. ready' = ready /\ state' = state /\ pendingWake' = pendingWake /\ current' = current /\ pc' = pc
    BY <1>7 DEF vars, threadVars, reactorVars
  <2> QED BY SMT, <1>0, <2>1 DEF StatesAgree, NeverPending
<1> QED BY <1>1, <1>2, <1>3, <1>4, <1>5, <1>6, <1>7 DEF Next, Thread

LEMMA WakeStep == WakeInv /\ [Next]_vars => WakeInv'
  BY TypeStep, StatesStep, RingsStep, WokenOnceStep, WakeFindsParkedStep, PushedIsTakenStep,
     AnnouncedStep DEF WakeInv

(* A thread that is about to push finds room: the fibers of the destination  *)
(* that are in this ring are all different, and differ from the one it      *)
(* pushes, which would otherwise be in flight twice.                        *)
LEMMA RoomInRing == WakeInv => PushNeverSpins
<1> SUFFICES ASSUME WakeInv, NEW w \in Workers, pc[w] = "push"
             PROVE  Len(ring[w][Owner[waking[w]]]) < Capacity
  BY DEF PushNeverSpins
<1>1. PICK g \in Fibers, d \in Workers : g = waking[w] /\ d = Owner[g] /\ Holds(w, g)
  BY OwnerAssumption DEF WakeInv, TypeInv, CurrentWhileRunning, Holds
<1>2. PICK q \in Seq(Fibers) : q = ring[w][d]
  BY DEF WakeInv, TypeInv, TypeOK, MatrixTypes
<1>3. ~InRing(g)
  BY <1>1 DEF WakeInv, WokenOnce
<1>4. \A i \in 1 .. Len(q) : q[i] \in Fibers /\ Owner[q[i]] = d /\ q[i] # g
  BY SMT, <1>2, <1>3 DEF WakeInv, RingsAreOwned, InRing
<1>5. \A i, j \in 1 .. Len(q) : q[i] = q[j] => i = j
  BY SMT, <1>2 DEF WakeInv, QueuedOnce
<1> DEFINE own == {f \in Fibers : Owner[f] = d}
           n == Len(q)
           F == [i \in 1 .. n + 1 |-> IF i <= n THEN q[i] ELSE g]
<1>6. n \in Nat
  BY SMT
<1>7. IsFiniteSet(own) /\ Cardinality(own) <= Capacity
  BY RoomAssumption
<1>8. F \in Injection(1 .. n + 1, own)
  <2>1. \A i \in 1 .. n + 1 : F[i] \in own
    BY SMT, <1>1, <1>4, <1>6
  <2>2. \A i, j \in 1 .. n + 1 : F[i] = F[j] => i = j
    BY SMT, <1>4, <1>5, <1>6
  <2>3. F \in [1 .. n + 1 -> own]
    BY <2>1
  <2> QED BY <2>2, <2>3 DEF Injection, IsInjective
<1>9. IsFiniteSet(1 .. n + 1) /\ Cardinality(1 .. n + 1) = n + 1
  BY SMT, <1>6, FS_Interval
<1>10. n + 1 <= Cardinality(own)
  <2> HIDE DEF F, own, n
  <2> QED BY SMT, <1>7, <1>8, <1>9, FS_Injection
<1>11. Cardinality(own) \in Nat
  BY <1>7, FS_CardinalityType
<1> QED BY SMT, <1>1, <1>2, <1>6, <1>7, <1>10, <1>11, CapacityAssumption

(* No wakeup is ever stranded in a ring that nobody will look at: wake_fiber *)
(* pushes before it sets the bit, drain_inbound_wakeups clears the bit      *)
(* before it pops, whatever the number of workers and of bit words.         *)
THEOREM WakeupsAreAnnounced == Spec => []RingAnnounced
<1>1. WakeInv => RingAnnounced
  BY DEF WakeInv, Announced, RingAnnounced
<1> QED BY <1>1, WakeInit, WakeStep, PTL DEF Spec

(* No wakeup is ever lost to a fiber that BaseReactor::wake would ignore:   *)
(* a fiber with a wakeup on its way is parked, or about to park.            *)
THEOREM WakeupsFindParkedFibers == Spec => []WakeFindsParked
<1>1. WakeInv => WakeFindsParked
  BY DEF WakeInv
<1> QED BY <1>1, WakeInit, WakeStep, PTL DEF Spec

(* wake_fiber never spins on a full channel, so two workers never wait for  *)
(* each other to drain, as long as a reactor has no more fibers than a ring *)
(* has slots (256 and 4096 in the code).                                    *)
THEOREM PushesFindRoom == Spec => []PushNeverSpins
  BY RoomInRing, WakeInit, WakeStep, PTL DEF Spec
=============================================================================
