------------------------- MODULE FrameWaitersProofs -------------------------
(***************************************************************************)
(* Theorems about FrameWaiters, for every set of waiters, loaders and      *)
(* pages.                                                                  *)
(*                                                                         *)
(* NodesFrom is the least set closed under next, so that what a push, a    *)
(* detach and a step of the walk do to a stack follows without induction:  *)
(* Unfold takes the first node off, Relink says that writing the link of a *)
(* node outside a stack leaves the stack alone.  The invariant adds to the *)
(* two properties that the stacks are disjoint, have no cycle, and that    *)
(* one loader at a time has the frame.                                     *)
(***************************************************************************)
EXTENDS FrameWaiters, TLAPS

(* Zenon is the prover of every step that names none. *)
USE Zenon

(* The lists that next spans. *)
LEMMA NoNodes == ASSUME NEW nx PROVE Linked(nx, Null) = {} /\ Linked(nx, Closed) = {}
  BY NullAssumption DEF Linked

LEMMA Unfold ==
    ASSUME NEW nx \in [Waiters -> Nodes], NEW n \in Waiters
    PROVE  Linked(nx, n) = {n} \cup Linked(nx, nx[n])
<1>0. Null \notin Waiters
  BY NullAssumption
<1>1. n \in Linked(nx, n)
  BY DEF Linked
<1>2. ASSUME NEW f \in Linked(nx, nx[n]) PROVE f \in Linked(nx, n)
  <2>1. f \in Waiters /\ nx[n] \in Waiters
    BY DEF Linked
  <2>2. ASSUME NEW S \in SUBSET Nodes, n \in S, \A m \in S \ {Null} : nx[m] \in S PROVE f \in S
    <3>1. nx[n] \in S
      BY <1>0, <2>2
    <3> QED BY <2>2, <3>1 DEF Linked
  <2> QED BY <2>1, <2>2 DEF Linked
<1>3. ASSUME NEW f \in Linked(nx, n), f # n PROVE f \in Linked(nx, nx[n])
  <2>1. f \in Waiters
    BY DEF Linked
  <2>2. ASSUME NEW S \in SUBSET Nodes, nx[n] \in S, \A m \in S \ {Null} : nx[m] \in S PROVE f \in S
    <3>1. S \cup {n} \in SUBSET Nodes /\ \A m \in (S \cup {n}) \ {Null} : nx[m] \in S \cup {n}
      BY <2>2 DEF Nodes
    <3>2. f \in S \cup {n}
      BY <3>1 DEF Linked
    <3> QED BY <1>3, <3>2
  <2>3. nx[n] \in Waiters
    <3>1. CASE nx[n] = Null
      <4>1. {Null} \in SUBSET Nodes /\ nx[n] \in {Null} /\ \A m \in {Null} \ {Null} : nx[m] \in {Null}
        BY <3>1 DEF Nodes
      <4>2. f \in {Null}
        BY <2>2, <4>1
      <4> QED BY <1>0, <2>1, <4>2
    <3> QED BY <3>1 DEF Nodes
  <2> QED BY <2>1, <2>2, <2>3 DEF Linked
<1> QED BY <1>1, <1>2, <1>3

(* A list contains the lists that start at its nodes. *)
LEMMA LinkedClosed ==
    ASSUME NEW nx \in [Waiters -> Nodes], NEW n, NEW m \in Linked(nx, n)
    PROVE  /\ m \in Waiters /\ Linked(nx, n) \subseteq Waiters
           /\ nx[m] \in Linked(nx, n) \cup {Null}
           /\ Linked(nx, nx[m]) \subseteq Linked(nx, n)
<1>0. m \in Waiters /\ n \in Waiters /\ Linked(nx, n) \subseteq Waiters /\ Null \notin Waiters
  BY NullAssumption DEF Linked
<1>1. ASSUME nx[m] # Null PROVE nx[m] \in Linked(nx, n)
  <2>1. nx[m] \in Waiters
    BY <1>0, <1>1 DEF Nodes
  <2>2. ASSUME NEW S \in SUBSET Nodes, n \in S, \A k \in S \ {Null} : nx[k] \in S PROVE nx[m] \in S
    <3>1. m \in S
      BY <2>2 DEF Linked
    <3> QED BY <1>0, <2>2, <3>1
  <2> QED BY <1>0, <2>1, <2>2 DEF Linked
<1>2. ASSUME NEW f \in Linked(nx, nx[m]) PROVE f \in Linked(nx, n)
  <2>1. f \in Waiters
    BY DEF Linked
  <2>2. ASSUME NEW S \in SUBSET Nodes, n \in S, \A k \in S \ {Null} : nx[k] \in S PROVE f \in S
    <3>1. m \in S
      BY <2>2 DEF Linked
    <3>2. nx[m] \in S
      BY <1>0, <2>2, <3>1
    <3> QED BY <2>2, <3>2 DEF Linked
  <2> QED BY <1>0, <2>1, <2>2 DEF Linked
<1> QED BY <1>0, <1>1, <1>2

LEMMA Relink ==
    ASSUME NEW nx \in [Waiters -> Nodes], NEW n, NEW g \in Waiters, NEW x \in Nodes,
           g \notin Linked(nx, n)
    PROVE  Linked([nx EXCEPT ![g] = x], n) = Linked(nx, n)
<1> DEFINE ny == [nx EXCEPT ![g] = x]
           N == Linked(nx, n) \cup {Null}
<1>0. Null \notin Waiters /\ ny \in [Waiters -> Nodes] /\ \A m \in Waiters : m # g => ny[m] = nx[m]
  BY NullAssumption DEF Nodes
<1>1. N \in SUBSET Nodes /\ \A m \in N \ {Null} : nx[m] \in N /\ m # g /\ m \in Waiters
  <2>1. N \in SUBSET Nodes
    BY DEF Linked, Nodes
  <2>2. \A m \in Linked(nx, n) : nx[m] \in N /\ m \in Waiters
    BY LinkedClosed
  <2> QED BY <2>1, <2>2
<1>2. ASSUME NEW f \in Linked(ny, n) PROVE f \in Linked(nx, n)
  <2>1. n \in Waiters /\ f \in Waiters
    BY DEF Linked
  <2>2. n \in N
    BY <2>1 DEF Linked
  <2>3. \A m \in N \ {Null} : ny[m] \in N
    BY <1>0, <1>1
  <2>4. f \in N
    <3> HIDE DEF N, ny
    <3> QED BY <1>1, <2>2, <2>3 DEF Linked
  <2> QED BY <1>0, <2>1, <2>4
<1>3. ASSUME NEW f \in Linked(nx, n) PROVE f \in Linked(ny, n)
  <2>1. n \in Waiters /\ f \in Waiters
    BY DEF Linked
  <2>2. ASSUME NEW S \in SUBSET Nodes, n \in S, \A m \in S \ {Null} : ny[m] \in S PROVE f \in S
    <3> DEFINE T == S \cap N
    <3>1. T \in SUBSET Nodes /\ n \in T
      BY <2>1, <2>2 DEF Linked
    <3>2. \A m \in T \ {Null} : nx[m] \in T
      <4> HIDE DEF ny, N
      <4> QED BY <1>0, <1>1, <2>2
    <3>3. f \in T
      <4> HIDE DEF T
      <4> QED BY <3>1, <3>2 DEF Linked
    <3> QED BY <3>3
  <2> HIDE DEF ny
  <2> QED BY <2>1, <2>2 DEF Linked
<1> QED BY <1>2, <1>3

-----------------------------------------------------------------------------
(* The steps between Bind and ClearIo, where io_in_progress keeps others out. *)
Loading == {"begin", "reading", "close", "clear"}

LoadersExclude ==
    /\ \A l \in Loaders : lpc[l] \in Loading => io
    /\ \A l, k \in Loaders : lpc[l] \in Loading /\ lpc[k] \in Loading => l = k

OpenWhileLoading == waiting # Closed => \E l \in Loaders : lpc[l] \in {"reading", "close"}

ChainWhileWalking ==
    \A l \in Loaders :
        /\ lpc[l] \notin {"clear", "walk", "wake"} => chain[l] = Null
        /\ lpc[l] = "wake" => chain[l] \in Waiters /\ rest[l] = next[chain[l]]

(* A node that may be followed: its fiber is parked, and it is on no cycle. *)
Live(f) == pc[f] = "parked" /\ ~awake[f] /\ f \notin NodesFrom(next[f])

StacksAreLive ==
    /\ \A f \in NodesFrom(waiting) : Live(f)
    /\ \A l \in Loaders : \A f \in NodesFrom(chain[l]) : Live(f)

StacksAreApart ==
    /\ \A l \in Loaders : \A f \in NodesFrom(waiting) : f \notin NodesFrom(chain[l])
    /\ \A l, k \in Loaders : \A f \in NodesFrom(chain[l]) : f \in NodesFrom(chain[k]) => l = k

AwakeIsParked == \A f \in Waiters : awake[f] => pc[f] = "parked"

ParkedIsListed ==
    \A f \in Waiters : pc[f] = "parked" =>
        awake[f] \/ f \in NodesFrom(waiting) \/ \E l \in Loaders : f \in NodesFrom(chain[l])

LoadInv == LoadersExclude /\ OpenWhileLoading /\ ChainWhileWalking
StackInv == StacksAreLive /\ StacksAreApart /\ AwakeIsParked /\ ParkedIsListed
WaitInv == TypeOK /\ LoadInv /\ StackInv

LEMMA WaitInit == Init => WaitInv
<1> SUFFICES ASSUME Init PROVE WaitInv
  OBVIOUS
<1>1. TypeOK
  BY DEF Init, TypeOK, Nodes
<1>2. LoadInv
  BY DEF Init, LoadInv, LoadersExclude, OpenWhileLoading, ChainWhileWalking, Loading
<1>3. NodesFrom(waiting) = {} /\ \A l \in Loaders : NodesFrom(chain[l]) = {}
  BY NoNodes DEF Init, NodesFrom
<1>4. StackInv
  BY <1>3 DEF Init, StackInv, StacksAreLive, StacksAreApart, AwakeIsParked, ParkedIsListed
<1> QED BY <1>1, <1>2, <1>4 DEF WaitInv

LEMMA TypeStep == WaitInv /\ [Next]_vars => TypeOK'
<1> SUFFICES ASSUME WaitInv, [Next]_vars PROVE TypeOK'
  OBVIOUS
<1> USE DEF TypeOK, Nodes, frameVars, waiterVars, loaderVars, LoaderAt, WaiterAt
<1>0. TypeOK /\ ChainWhileWalking
  BY DEF WaitInv, LoadInv
<1>1. ASSUME NEW l \in Loaders, Bind(l) PROVE TypeOK'
  BY <1>0, <1>1 DEF Bind
<1>2. ASSUME NEW l \in Loaders, begin_waiters(l) PROVE TypeOK'
  BY <1>0, <1>2 DEF begin_waiters
<1>3. ASSUME NEW l \in Loaders, Undo(l) PROVE TypeOK'
  BY <1>0, <1>3 DEF Undo
<1>4. ASSUME NEW l \in Loaders, ReadDone(l) PROVE TypeOK'
  BY <1>0, <1>4 DEF ReadDone
<1>5. ASSUME NEW l \in Loaders, close_waiters(l) PROVE TypeOK'
  BY <1>0, <1>5 DEF close_waiters
<1>6. ASSUME NEW l \in Loaders, ClearIo(l) PROVE TypeOK'
  BY <1>0, <1>6 DEF ClearIo
<1>7. ASSUME NEW l \in Loaders, ReadNext(l) PROVE TypeOK'
  BY ZenonT(40), <1>0, <1>7 DEF ReadNext
<1>8. ASSUME NEW l \in Loaders, WakeNode(l) PROVE TypeOK'
  BY <1>0, <1>8 DEF WakeNode, ChainWhileWalking
<1>9. ASSUME NEW f \in Waiters, handleWait(f) PROVE TypeOK'
  BY <1>0, <1>9 DEF handleWait
<1>10. ASSUME NEW f \in Waiters, Check(f) PROVE TypeOK'
  BY <1>0, <1>10 DEF Check, Yield
<1>11. ASSUME NEW f \in Waiters, LoadHead(f) PROVE TypeOK'
  BY <1>0, <1>11 DEF LoadHead
<1>12. ASSUME NEW f \in Waiters, enqueue_waiter(f) PROVE TypeOK'
  BY ZenonT(40), <1>0, <1>12 DEF enqueue_waiter, Yield
<1>13. ASSUME NEW f \in Waiters, Unpark(f) PROVE TypeOK'
  BY <1>0, <1>13 DEF Unpark, Yield
<1>14. CASE UNCHANGED vars
  BY <1>0, <1>14 DEF vars
<1> QED
  BY <1>1, <1>2, <1>3, <1>4, <1>5, <1>6, <1>7, <1>8, <1>9, <1>10, <1>11, <1>12, <1>13, <1>14
  DEF Next, LoaderStep, WaiterStep

(* At most one loader is between Bind and ClearIo, and the stack is open    *)
(* only then.                                                               *)
LEMMA LoadStep == WaitInv /\ [Next]_vars => LoadInv'
<1> SUFFICES ASSUME WaitInv, [Next]_vars PROVE LoadInv'
  OBVIOUS
<1>0. TypeOK /\ LoadInv
  BY DEF WaitInv
<1>t. /\ lpc \in [Loaders -> {"idle", "begin", "reading", "close", "clear", "walk", "wake"}]
      /\ chain \in [Loaders -> Nodes] /\ rest \in [Loaders -> Nodes] /\ next \in [Waiters -> Nodes]
  BY <1>0 DEF TypeOK
<1> USE DEF LoadInv, LoadersExclude, OpenWhileLoading, ChainWhileWalking, Loading,
        frameVars, waiterVars, loaderVars, LoaderAt
<1>1. ASSUME NEW l \in Loaders, Bind(l) PROVE LoadInv'
  BY <1>0, <1>t, <1>1 DEF Bind
<1>2. ASSUME NEW l \in Loaders, begin_waiters(l) PROVE LoadInv'
  BY <1>0, <1>t, <1>2 DEF begin_waiters
<1>3. ASSUME NEW l \in Loaders, Undo(l) PROVE LoadInv'
  BY <1>0, <1>t, <1>3 DEF Undo
<1>4. ASSUME NEW l \in Loaders, ReadDone(l) PROVE LoadInv'
  BY <1>0, <1>t, <1>4 DEF ReadDone
<1>5. ASSUME NEW l \in Loaders, close_waiters(l) PROVE LoadInv'
  BY <1>0, <1>t, <1>5 DEF close_waiters
<1>6. ASSUME NEW l \in Loaders, ClearIo(l) PROVE LoadInv'
  BY <1>0, <1>t, <1>6 DEF ClearIo
<1>7. ASSUME NEW l \in Loaders, ReadNext(l) PROVE LoadInv'
  BY SMT, <1>0, <1>t, <1>7 DEF ReadNext, Nodes
<1>8. ASSUME NEW l \in Loaders, WakeNode(l) PROVE LoadInv'
  BY <1>0, <1>t, <1>8 DEF WakeNode
<1>9. ASSUME NEW f \in Waiters, handleWait(f) \/ Check(f) \/ LoadHead(f) \/ Unpark(f) PROVE LoadInv'
  BY SMT, <1>0, <1>9 DEF handleWait, Check, LoadHead, Unpark
<1>10. ASSUME NEW f \in Waiters, enqueue_waiter(f) PROVE LoadInv'
  <2>1. lpc' = lpc /\ chain' = chain /\ rest' = rest /\ io' = io
    BY <1>10 DEF enqueue_waiter
  <2>2. waiting' # Closed => waiting # Closed
    BY <1>10 DEF enqueue_waiter
  <2>3. \A m \in Waiters : m # f => next'[m] = next[m]
    BY <1>t, <1>10 DEF enqueue_waiter
  <2>4. \A l \in Loaders : lpc[l] = "wake" => chain[l] # f
    <3> SUFFICES ASSUME NEW l \in Loaders, lpc[l] = "wake" PROVE pc[chain[l]] = "parked"
      BY <1>10 DEF enqueue_waiter
    <3>1. chain[l] \in Waiters
      BY <1>0
    <3>2. chain[l] \in NodesFrom(chain[l])
      BY SMT, <1>t, <3>1, Unfold DEF NodesFrom
    <3> QED BY <3>2 DEF WaitInv, StackInv, StacksAreLive, Live
  <2> QED BY <1>0, <2>1, <2>2, <2>3, <2>4
<1>11. CASE UNCHANGED vars
  BY <1>0, <1>11 DEF vars
<1> QED
  BY <1>1, <1>2, <1>3, <1>4, <1>5, <1>6, <1>7, <1>8, <1>9, <1>10, <1>11 DEF Next, LoaderStep, WaiterStep

(* A step that leaves the stacks as they are, wakes or moves no fiber in    *)
(* them and parks none.                                                     *)
LEMMA StacksStay ==
    ASSUME StackInv, next' = next,
           Linked(next, waiting') = NodesFrom(waiting),
           \A l \in Loaders : Linked(next, chain'[l]) = NodesFrom(chain[l]),
           \A f \in Waiters : Live(f) => pc'[f] = "parked" /\ ~awake'[f],
           \A f \in Waiters : pc'[f] = "parked" => pc[f] = "parked" /\ (awake[f] => awake'[f]),
           \A f \in Waiters : awake'[f] => pc'[f] = "parked"
    PROVE  StackInv'
<1>0. StacksAreLive /\ StacksAreApart /\ ParkedIsListed
  BY DEF StackInv
<1>1. NodesFrom(waiting) \subseteq Waiters /\ \A l \in Loaders : NodesFrom(chain[l]) \subseteq Waiters
  BY DEF NodesFrom, Linked
<1>2. \A f \in Waiters : Live(f) => Live(f)'
  BY DEF Live, NodesFrom
<1>3. StacksAreLive'
  BY <1>0, <1>1, <1>2 DEF StacksAreLive, NodesFrom
<1>4. StacksAreApart'
  BY <1>0 DEF StacksAreApart, NodesFrom
<1>5. ParkedIsListed'
  BY <1>0 DEF ParkedIsListed, NodesFrom
<1> QED BY <1>3, <1>4, <1>5 DEF StackInv, AwakeIsParked

LEMMA StackStep == WaitInv /\ [Next]_vars => StackInv'
<1> SUFFICES ASSUME WaitInv, [Next]_vars PROVE StackInv'
  OBVIOUS
<1>0. TypeOK /\ LoadInv /\ StackInv
  BY DEF WaitInv
<1>i. /\ LoadersExclude /\ OpenWhileLoading /\ ChainWhileWalking
      /\ StacksAreLive /\ StacksAreApart /\ AwakeIsParked /\ ParkedIsListed
  BY <1>0 DEF LoadInv, StackInv
<1>t. /\ waiting \in Nodes \cup {Closed} /\ next \in [Waiters -> Nodes]
      /\ pc \in [Waiters -> {"away", "check", "load", "push", "parked"}]
      /\ awake \in [Waiters -> BOOLEAN] /\ chain \in [Loaders -> Nodes] /\ rest \in [Loaders -> Nodes]
      /\ lpc \in [Loaders -> {"idle", "begin", "reading", "close", "clear", "walk", "wake"}]
  BY <1>0 DEF TypeOK
<1>n. \A n : NodesFrom(n) \subseteq Waiters
  BY DEF NodesFrom, Linked
<1> USE DEF frameVars, waiterVars, loaderVars, LoaderAt, WaiterAt
<1>1. ASSUME NEW l \in Loaders,
             \/ Bind(l) \/ begin_waiters(l) \/ Undo(l)
             \/ ReadDone(l) \/ ClearIo(l) \/ ReadNext(l)
      PROVE  StackInv'
  <2>1. next' = next /\ pc' = pc /\ awake' = awake /\ chain' = chain
    BY <1>1 DEF Bind, begin_waiters, Undo, ReadDone, ClearIo, ReadNext
  <2>2. Linked(next, waiting') = NodesFrom(waiting)
    <3>1. CASE Bind(l) \/ begin_waiters(l)
      <4>1. waiting = Closed /\ waiting' \in {Closed, Null}
        BY <1>i, <3>1 DEF Bind, begin_waiters, LoadersExclude, OpenWhileLoading, Loading
      <4> QED BY <4>1, NoNodes DEF NodesFrom
    <3>2. CASE Undo(l) \/ ReadDone(l) \/ ClearIo(l) \/ ReadNext(l)
      <4>1. waiting' = waiting
        BY <3>2 DEF Undo, ReadDone, ClearIo, ReadNext
      <4> QED BY <4>1 DEF NodesFrom
    <3> QED BY <1>1, <3>1, <3>2
  <2>3. \A k \in Loaders : Linked(next, chain'[k]) = NodesFrom(chain[k])
    BY <2>1 DEF NodesFrom
  <2> QED BY <1>0, <1>i, <2>1, <2>2, <2>3, StacksStay DEF Live, AwakeIsParked
<1>2. ASSUME NEW f \in Waiters,
             \/ handleWait(f) \/ Check(f) \/ LoadHead(f) \/ Unpark(f)
             \/ enqueue_waiter(f) /\ head[f] = Closed
      PROVE  StackInv'
  <2>1. next' = next /\ waiting' = waiting /\ chain' = chain
    BY <1>2 DEF handleWait, Check, LoadHead, Unpark, enqueue_waiter
  <2>2. pc' = [pc EXCEPT ![f] = pc'[f]] /\ pc'[f] # "parked" /\ (pc[f] = "parked" => awake[f])
    BY <1>t, <1>2 DEF handleWait, Check, LoadHead, Unpark, enqueue_waiter, Yield
  <2>3. awake' = awake \/ awake' = [awake EXCEPT ![f] = FALSE]
    BY <1>2 DEF handleWait, Check, LoadHead, Unpark, enqueue_waiter
  <2>4. pc[f] = "parked" => ~awake'[f]
    BY <1>t, <1>2 DEF handleWait, Check, LoadHead, Unpark, enqueue_waiter
  <2>5. ~Live(f)
    BY <2>2 DEF Live
  <2>6. \A g \in Waiters : g # f => pc'[g] = pc[g] /\ awake'[g] = awake[g]
    BY <1>t, <2>2, <2>3
  <2>7. ~awake'[f]
    BY <1>i, <1>t, <2>3, <2>4 DEF AwakeIsParked
  <2>8. \A g \in Waiters : Live(g) => pc'[g] = "parked" /\ ~awake'[g]
    BY <2>5, <2>6 DEF Live
  <2>9. \A g \in Waiters : pc'[g] = "parked" => pc[g] = "parked" /\ (awake[g] => awake'[g])
    BY <2>2, <2>6
  <2>10. \A g \in Waiters : awake'[g] => pc'[g] = "parked"
    BY <1>i, <2>6, <2>7 DEF AwakeIsParked
  <2> QED BY <1>0, <2>1, <2>8, <2>9, <2>10, StacksStay DEF NodesFrom
<1>3. ASSUME NEW l \in Loaders, close_waiters(l) PROVE StackInv'
  <2>1. next' = next /\ pc' = pc /\ awake' = awake /\ waiting' = Closed /\ lpc[l] = "close"
    BY <1>3 DEF close_waiters
  <2>2. Linked(next, waiting') = {}
    BY <2>1, NoNodes
  <2>3. NodesFrom(chain[l]) = {}
    BY <1>i, <2>1, NoNodes DEF ChainWhileWalking, NodesFrom
  <2>4. \A k \in Loaders : k # l => chain'[k] = chain[k]
    BY <1>t, <1>3 DEF close_waiters
  <2>5. Linked(next, chain'[l]) = NodesFrom(waiting)
    <3>1. chain'[l] = IF waiting = Closed THEN Null ELSE waiting
      BY <1>t, <1>3 DEF close_waiters
    <3> QED BY <3>1, NoNodes DEF NodesFrom
  <2>6. \A f \in Waiters : Live(f) => Live(f)'
    BY <2>1 DEF Live, NodesFrom
  <2>7. StacksAreLive'
    BY <1>i, <1>n, <2>1, <2>2, <2>4, <2>5, <2>6 DEF StacksAreLive, NodesFrom
  <2>8. StacksAreApart'
    BY <1>i, <2>1, <2>2, <2>3, <2>4, <2>5 DEF StacksAreApart, NodesFrom
  <2>9. ParkedIsListed'
    BY <1>i, <2>1, <2>2, <2>3, <2>4, <2>5 DEF ParkedIsListed, NodesFrom
  <2> QED BY <1>i, <2>1, <2>7, <2>8, <2>9 DEF StackInv, AwakeIsParked
<1>4. ASSUME NEW l \in Loaders, WakeNode(l) PROVE StackInv'
  <2>1. PICK c \in Waiters : c = chain[l] /\ rest[l] = next[c] /\ lpc[l] = "wake"
    BY <1>i, <1>4 DEF WakeNode, ChainWhileWalking
  <2>2. next' = next /\ pc' = pc /\ waiting' = waiting
    BY <1>4 DEF WakeNode
  <2>3. \A k \in Loaders : k # l => chain'[k] = chain[k]
    BY <1>t, <1>4 DEF WakeNode
  <2>4. NodesFrom(chain[l]) = {c} \cup Linked(next, chain'[l])
    BY SMT, <1>t, <1>4, <2>1, Unfold DEF WakeNode, NodesFrom
  <2>5. c \in NodesFrom(chain[l]) /\ c \notin Linked(next, chain'[l]) /\ pc[c] = "parked"
    <3>1. Live(c)
      BY <1>i, <2>4 DEF StacksAreLive
    <3>2. chain'[l] = next[c]
      BY <1>t, <1>4, <2>1 DEF WakeNode
    <3> QED BY <2>4, <3>1, <3>2 DEF Live, NodesFrom
  <2>6. \A f \in Waiters : awake'[f] = IF f = c THEN TRUE ELSE awake[f]
    BY <1>t, <1>4, <2>1 DEF WakeNode
  <2>7. \A f \in Waiters : Live(f) /\ f # c => Live(f)'
    BY <2>2, <2>6 DEF Live, NodesFrom
  <2>8. c \notin NodesFrom(waiting) /\ \A k \in Loaders : k # l => c \notin NodesFrom(chain[k])
    BY <1>i, <2>5 DEF StacksAreApart
  <2>9. StacksAreLive'
    <3>1. ASSUME NEW f \in NodesFrom(waiting)' PROVE Live(f)'
      BY <1>i, <1>n, <2>2, <2>7, <2>8 DEF StacksAreLive, NodesFrom
    <3>2. ASSUME NEW k \in Loaders, NEW f \in Linked(next, chain'[k]) PROVE Live(f)'
      BY <1>i, <1>n, <2>3, <2>4, <2>5, <2>7, <2>8 DEF StacksAreLive, NodesFrom
    <3> QED BY <2>2, <3>1, <3>2 DEF StacksAreLive, NodesFrom
  <2>10. StacksAreApart'
    BY <1>i, <2>2, <2>3, <2>4 DEF StacksAreApart, NodesFrom
  <2>11. ParkedIsListed'
    BY <1>i, <2>2, <2>3, <2>4, <2>6 DEF ParkedIsListed, NodesFrom
  <2>12. AwakeIsParked'
    BY <1>i, <2>2, <2>5, <2>6 DEF AwakeIsParked
  <2> QED BY <2>9, <2>10, <2>11, <2>12 DEF StackInv
<1>5. ASSUME NEW f \in Waiters, enqueue_waiter(f), head[f] # Closed PROVE StackInv'
  <2>1. PICK h \in Nodes : h = head[f] /\ next' = [next EXCEPT ![f] = h]
    BY <1>0, <1>5 DEF enqueue_waiter, TypeOK
  <2>r. \A n : f \notin Linked(next, n) => Linked(next', n) = Linked(next, n)
    BY ZenonT(40), <1>t, <2>1, Relink
  <2>2. chain' = chain /\ awake' = awake /\ pc[f] = "push" /\ ~awake[f]
    BY <1>i, <1>5 DEF enqueue_waiter, AwakeIsParked
  <2>3. f \notin NodesFrom(waiting) /\ \A l \in Loaders : f \notin NodesFrom(chain[l])
    BY <1>i, <2>2 DEF StacksAreLive, Live
  <2>4. /\ Linked(next', waiting) = NodesFrom(waiting)
        /\ \A l \in Loaders : Linked(next', chain[l]) = NodesFrom(chain[l])
    BY <2>3, <2>r DEF NodesFrom
  <2>5. ASSUME NEW n, NEW g \in NodesFrom(n), f \notin NodesFrom(n), Live(g)
        PROVE  g # f /\ next'[g] = next[g] /\ Linked(next', next[g]) = NodesFrom(next[g])
    <3>1. g \in Waiters /\ NodesFrom(next[g]) \subseteq NodesFrom(n)
      BY <1>t, <2>5, LinkedClosed DEF NodesFrom
    <3>2. g # f /\ next'[g] = next[g]
      BY <1>t, <2>1, <2>5, <3>1
    <3>3. f \notin NodesFrom(next[g])
      BY <2>5, <3>1
    <3> QED BY <2>r, <3>2, <3>3 DEF NodesFrom
  <2>6. ASSUME NEW n, NEW g \in NodesFrom(n), f \notin NodesFrom(n), Live(g), pc'[g] = pc[g]
        PROVE  Live(g)'
    BY <2>2, <2>5, <2>6 DEF Live, NodesFrom
  <2>7. \A g \in Waiters : g # f => pc'[g] = pc[g]
    BY <1>t, <1>5 DEF enqueue_waiter
  <2>8. /\ \A g \in NodesFrom(waiting) : Live(g)'
        /\ \A l \in Loaders : \A g \in NodesFrom(chain[l]) : Live(g)'
    BY <1>i, <1>n, <2>3, <2>6, <2>7 DEF StacksAreLive
  <2>9. CASE waiting = head[f]
    <3>1. waiting' = f /\ pc'[f] = "parked"
      BY <1>t, <1>5, <2>9 DEF enqueue_waiter
    <3>2. next' \in [Waiters -> Nodes] /\ next'[f] = waiting
      BY <1>t, <2>1, <2>9
    <3>3. Linked(next', waiting') = {f} \cup NodesFrom(waiting)
      BY <2>4, <3>1, <3>2, Unfold
    <3>4. Live(f)'
      BY <2>2, <2>3, <2>4, <3>1, <3>2 DEF Live, NodesFrom
    <3>5. StacksAreLive'
      BY <2>2, <2>4, <2>8, <3>3, <3>4 DEF StacksAreLive, NodesFrom
    <3>6. StacksAreApart'
      BY <1>i, <2>2, <2>3, <2>4, <3>3 DEF StacksAreApart, NodesFrom
    <3>7. ParkedIsListed'
      BY <1>i, <2>2, <2>4, <2>7, <3>3 DEF ParkedIsListed, NodesFrom
    <3>8. AwakeIsParked'
      BY <1>i, <2>2, <2>7 DEF AwakeIsParked
    <3> QED BY <3>5, <3>6, <3>7, <3>8 DEF StackInv
  <2>10. CASE waiting # head[f]
    <3>1. waiting' = waiting /\ pc' = pc
      BY <1>5, <2>10 DEF enqueue_waiter
    <3>2. StacksAreLive'
      BY <2>2, <2>4, <2>8, <3>1 DEF StacksAreLive, NodesFrom
    <3>3. StacksAreApart'
      BY <1>i, <2>2, <2>4, <3>1 DEF StacksAreApart, NodesFrom
    <3>4. ParkedIsListed'
      BY <1>i, <2>2, <2>4, <3>1 DEF ParkedIsListed, NodesFrom
    <3>5. AwakeIsParked'
      BY <1>i, <2>2, <3>1 DEF AwakeIsParked
    <3> QED BY <3>2, <3>3, <3>4, <3>5 DEF StackInv
  <2> QED BY <2>9, <2>10
<1>6. CASE UNCHANGED vars
  BY <1>0, <1>i, <1>6, StacksStay DEF vars, Live, NodesFrom, AwakeIsParked
<1> QED
  BY <1>1, <1>2, <1>3, <1>4, <1>5, <1>6 DEF Next, LoaderStep, WaiterStep

LEMMA WaitStep == WaitInv /\ [Next]_vars => WaitInv'
  BY TypeStep, LoadStep, StackStep DEF WaitInv

LEMMA WaitInvAlive == WaitInv => NodesAreAlive
<1> SUFFICES ASSUME WaitInv PROVE NodesAreAlive
  OBVIOUS
<1>0. TypeOK /\ ChainWhileWalking /\ StacksAreLive
  BY DEF WaitInv, LoadInv, StackInv
<1>1. ASSUME NEW l \in Loaders, NEW f \in Detached(l) PROVE f \in NodesFrom(chain[l])
  <2>1. CASE f \in NodesFrom(chain[l])
    BY <2>1
  <2>2. CASE lpc[l] = "wake" /\ f \in NodesFrom(rest[l])
    <3>1. next \in [Waiters -> Nodes] /\ chain[l] \in Waiters /\ rest[l] = next[chain[l]]
      BY <1>0, <2>2 DEF TypeOK, ChainWhileWalking
    <3> QED BY SMT, <2>2, <3>1, Unfold DEF NodesFrom
  <2> QED BY <1>1, <2>1, <2>2 DEF Detached
<1> QED BY <1>0, <1>1 DEF NodesAreAlive, StacksAreLive, Live

LEMMA WaitInvRemembers == WaitInv => NobodyForgotten
<1> SUFFICES ASSUME WaitInv, NEW f \in Waiters, pc[f] = "parked"
             PROVE  \/ awake[f]
                    \/ f \in NodesFrom(waiting) /\ \E l \in Loaders : lpc[l] \in {"reading", "close"}
                    \/ \E l \in Loaders : f \in Detached(l)
  BY DEF NobodyForgotten
<1>1. awake[f] \/ f \in NodesFrom(waiting) \/ \E l \in Loaders : f \in NodesFrom(chain[l])
  BY DEF WaitInv, StackInv, ParkedIsListed
<1>2. f \in NodesFrom(waiting) => \E l \in Loaders : lpc[l] \in {"reading", "close"}
  BY NoNodes DEF WaitInv, LoadInv, OpenWhileLoading, NodesFrom
<1> QED BY <1>1, <1>2 DEF Detached

(* Whoever follows a stack of waiters finds nodes of fibers that are parked *)
(* and not woken yet, whatever the number of waiters, loaders and pages:    *)
(* enqueue_waiter, close_waiters and the walk of handleFault never touch a  *)
(* node after its fiber may have left handleWait.                           *)
THEOREM NodesStayAlive == Spec => []NodesAreAlive
  BY WaitInit, WaitStep, WaitInvAlive, PTL DEF Spec

(* No fiber that waits for a read is forgotten: it was woken, or it is in   *)
(* the stack of a frame whose loader has yet to close it, or in the stack a *)
(* loader walks.                                                            *)
THEOREM WaitersAreRemembered == Spec => []NobodyForgotten
  BY WaitInit, WaitStep, WaitInvRemembers, PTL DEF Spec
=============================================================================
