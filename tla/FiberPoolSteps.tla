-------------------------- MODULE FiberPoolSteps ---------------------------
(***************************************************************************)
(* The inductive invariant of FiberPool, and that every step keeps it, for *)
(* any number of fibers, pages and frames.                                 *)
(***************************************************************************)
EXTENDS FiberPool, TLAPS

-----------------------------------------------------------------------------
(* The inductive invariant.                                                 *)

(* A fiber is queued once, and the pass has that many fibers to resume.     *)
Queues ==
    /\ IsInjective(ready) /\ turn <= Len(ready)
    /\ queued \cap inflight = {} /\ (queued \cup inflight) \cap Range(cq) = {}

(* The flags of a page: the evictor's lists are what it has claimed, and a  *)
(* page that is being read is neither claimed nor dirty.  Nobody waits for  *)
(* a page that is open.                                                     *)
PageFacts(p) ==
    /\ table[p].evicting <=> p \in toEvict \cup toWrite
    /\ table[p].io_lock => ~table[p].evicting /\ ~table[p].dirty
    /\ ~table[p].io_lock => Behind(p) = {}
    /\ IsInjective(waiting[p])
    /\ table[p].io_lock => \E r \in Clients : at[r] = "reading" /\ want[r].pid = p
Pages ==
    /\ Meta \in Resident /\ Resident \subseteq allocated
    /\ toEvict \cup toWrite \subseteq Resident
    /\ ~table[Meta].io_lock /\ ~table[Meta].evicting
    /\ \A p \in Resident : PageFacts(p)

(* What a client is after, at each place where it may be suspended. *)
ClientFacts(f) ==
    /\ at[f] \in {"start", "retry", "reading"}
    /\ at[f] = "retry" => \/ want[f].pid \in allocated /\ want[f].mode # "A"
                          \/ want[f].pid = NoPid /\ want[f].mode = "A"
    /\ at[f] = "reading" => /\ want[f].pid \in Resident /\ table[want[f].pid].io_lock
                            /\ want[f].mode # "A"
Readers ==
    /\ \A f \in Clients : ClientFacts(f)
    /\ \A f, g \in Clients :
          at[f] = "reading" /\ at[g] = "reading" /\ want[f].pid = want[g].pid => f = g
Waits ==
    \A p \in Resident : \A f \in Behind(p) : at[f] = "retry" /\ want[f].pid = p /\ f \notin Range(ready)

(* The operations under way are those of fibers that are parked for them.   *)
Pending == queued \cup inflight \cup Range(cq)
Ios ==
    /\ \A io \in Pending :
          /\ io.op \notin Range(ready)
          /\ io.op # Evictor => at[io.op] = "reading" /\ want[io.op].pid = io.pid
          /\ io.op = Evictor => at[Evictor] = "written" /\ io.pid \in toWrite
    /\ \A io \in queued : io.op # Evictor

(* Every fiber is somewhere it is woken from. *)
Placed(f) == f \in Range(ready) \/ f \in Outstanding \/ \E p \in Resident : f \in Behind(p)
Places ==
    /\ \A f \in Clients : Placed(f)
    /\ running /\ Evictor \notin Range(ready) => Evictor \in Outstanding
    /\ at[Evictor] \in {"loop", "claimed", "written"}
    /\ at[Evictor] = "loop" => toEvict = {} /\ toWrite = {}
    /\ at[Evictor] = "claimed" => turn > 0 /\ Head(ready) = Evictor
    /\ ~running => at[Evictor] = "loop" /\ Evictor \notin Range(ready)

(* Where the last write of a page is while it is read or written back. *)
Data ==
    /\ NoWriteLost
    /\ \A p \in allocated : committed[p] \in {0, 1}
    /\ \A f \in Clients : at[f] = "reading" /\ [op |-> f, pid |-> want[f].pid] \notin queued \cup inflight
          => mem[want[f].pid] = committed[want[f].pid]
    /\ \A p \in toWrite : at[Evictor] = "written" /\ ~table[p].dirty /\ [op |-> Evictor, pid |-> p] \notin inflight
          => disk[p] = committed[p]

Counts == IsFiniteSet(queued) /\ CountsAddUp

FiberInv == Queues /\ Pages /\ Readers /\ Waits /\ Ios /\ Places /\ Data /\ Counts

-----------------------------------------------------------------------------
(* What the steps use of finite sets.  The theorems of FiniteSetTheorems    *)
(* are not extended here, where every obligation would carry them:          *)
(* FiberPoolProofs proves FiniteFacts from them.                            *)
SizesFact == IsFiniteSet(Fibers) /\ Cardinality(Fibers) \in Nat /\ Cardinality(Clients) \in Nat \ {0}
EmptyFact == IsFiniteSet({}) /\ Cardinality({}) = 0
IntervalFact == \A a, b \in Int : IsFiniteSet(a .. b)
SubsetFact ==
    \A S, T : IsFiniteSet(S) /\ T \subseteq S =>
        /\ IsFiniteSet(T) /\ Cardinality(T) \in Nat /\ Cardinality(S) \in Nat
        /\ Cardinality(S \ T) = Cardinality(S) - Cardinality(T) /\ Cardinality(S \ T) \in Nat
AddFact ==
    \A S, x : IsFiniteSet(S) /\ x \notin S =>
        IsFiniteSet(S \cup {x}) /\ Cardinality(S \cup {x}) = Cardinality(S) + 1 /\ Cardinality(S) \in Nat
LengthFact == \A s \in Seq(Fibers) : IsInjective(s) => Len(s) <= Cardinality(Fibers)
LargestFact == \A n \in Nat : \A T : T \subseteq 1 .. n /\ T # {} => \E x \in T : \A y \in T : y <= x
AscendingFact ==
    \A D : D \subseteq Nat /\ IsFiniteSet(D) => \A last \in Ascending(D) :
        /\ DOMAIN last = 1 .. Cardinality(D) /\ last \in Seq(D) /\ IsInjective(last)
        /\ \A k \in DOMAIN last : last[k] \in D
        /\ \A d \in D : \E k \in DOMAIN last : last[k] = d
FiniteFacts ==
    /\ SizesFact /\ EmptyFact /\ IntervalFact /\ SubsetFact /\ AddFact
    /\ LengthFact /\ LargestFact /\ AscendingFact

(* Zenon is the prover of every step that names none. *)
USE Zenon

-----------------------------------------------------------------------------
(* Sequences without repetition: the ready ring and the queues behind the  *)
(* readers.                                                                 *)
LEMMA CatOnce ==
    ASSUME NEW S, NEW s \in Seq(S), NEW t \in Seq(S)
    PROVE  /\ s \o t \in Seq(S) /\ Len(s \o t) = Len(s) + Len(t)
           /\ Range(s \o t) = Range(s) \cup Range(t)
           /\ s # <<>> => s \o t # <<>> /\ Head(s \o t) = Head(s)
           /\ IsInjective(s) /\ IsInjective(t) /\ Range(s) \cap Range(t) = {} => IsInjective(s \o t)
<1>1. s \o t \in Seq(S) /\ Len(s \o t) = Len(s) + Len(t)
  BY SMT
<1>0. \A i \in 1 .. Len(s) + Len(t) : (s \o t)[i] = IF i <= Len(s) THEN s[i] ELSE t[i - Len(s)]
  BY SMT
<1>2. Range(s \o t) = Range(s) \cup Range(t)
  <2>1. \A x \in Range(s) : x \in Range(s \o t)
    BY SMT, <1>1, <1>0 DEF Range
  <2>2. \A x \in Range(t) : x \in Range(s \o t)
    <3>1. ASSUME NEW j \in 1 .. Len(t) PROVE t[j] \in Range(s \o t)
      <4>1. t[j] = (s \o t)[j + Len(s)] /\ j + Len(s) \in DOMAIN (s \o t)
        BY SMT, <1>0, <1>1
      <4> QED BY <4>1 DEF Range
    <3> QED BY SMT, <3>1 DEF Range
  <2>3. \A x \in Range(s \o t) : x \in Range(s) \cup Range(t)
    <3>1. ASSUME NEW i \in 1 .. Len(s) + Len(t) PROVE (s \o t)[i] \in Range(s) \cup Range(t)
      BY SMT, <1>0, <1>1 DEF Range
    <3> QED BY SMT, <1>1, <3>1 DEF Range
  <2> QED BY <2>1, <2>2, <2>3
<1>4. s # <<>> => s \o t # <<>> /\ Head(s \o t) = Head(s)
  BY SMT, <1>0, <1>1
<1>5. ASSUME IsInjective(s), IsInjective(t), Range(s) \cap Range(t) = {}
      PROVE  IsInjective(s \o t)
  <2>1. ASSUME NEW i \in 1 .. Len(s), NEW j \in 1 .. Len(t) PROVE s[i] # t[j]
    <3>1. DOMAIN s = 1 .. Len(s) /\ DOMAIN t = 1 .. Len(t)
      BY SMT
    <3>2. s[i] \in Range(s) /\ t[j] \in Range(t)
      BY <3>1 DEF Range
    <3> QED BY <1>5, <3>2
  <2>2. ASSUME NEW i \in 1 .. Len(s) + Len(t), NEW j \in 1 .. Len(s) + Len(t), (s \o t)[i] = (s \o t)[j]
        PROVE  i = j
    <3>1. CASE i <= Len(s) /\ j <= Len(s)
      BY SMT, <1>0, <1>5, <2>2, <3>1 DEF IsInjective
    <3>2. CASE i > Len(s) /\ j > Len(s)
      <4>1. t[i - Len(s)] = t[j - Len(s)] /\ i - Len(s) \in DOMAIN t /\ j - Len(s) \in DOMAIN t
        BY SMT, <1>0, <2>2, <3>2
      <4>2. i - Len(s) = j - Len(s)
        BY <1>5, <4>1 DEF IsInjective
      <4> QED BY SMT, <4>2
    <3>3. CASE i <= Len(s) /\ j > Len(s)
      BY SMT, <1>0, <2>1, <2>2, <3>3
    <3>4. CASE i > Len(s) /\ j <= Len(s)
      <4>1. t[i - Len(s)] = s[j] /\ i - Len(s) \in 1 .. Len(t) /\ j \in 1 .. Len(s)
        BY SMT, <1>0, <2>2, <3>4
      <4> QED BY <2>1, <4>1
    <3> QED BY SMT, <3>1, <3>2, <3>3, <3>4
  <2> QED BY SMT, <1>1, <2>2 DEF IsInjective
<1> QED BY <1>1, <1>2, <1>4, <1>5

LEMMA OneOnce ==
    ASSUME NEW S, NEW x \in S
    PROVE  <<x>> \in Seq(S) /\ Len(<<x>>) = 1 /\ Range(<<x>>) = {x} /\ IsInjective(<<x>>)
<1>1. <<x>> \in Seq(S) /\ Len(<<x>>) = 1 /\ DOMAIN <<x>> = 1 .. 1 /\ <<x>>[1] = x
  BY SMT
<1>2. Range(<<x>>) = {x}
  BY SMT, <1>1 DEF Range
<1> QED BY SMT, <1>1, <1>2 DEF IsInjective

LEMMA EmptyOnce ==
    ASSUME NEW S
    PROVE  << >> \in Seq(S) /\ Len(<< >>) = 0 /\ Range(<< >>) = {} /\ IsInjective(<< >>)
BY SMT DEF Range, IsInjective

LEMMA AppendOnce ==
    ASSUME NEW S, NEW s \in Seq(S), NEW x \in S
    PROVE  /\ Append(s, x) \in Seq(S) /\ Len(Append(s, x)) = Len(s) + 1
           /\ Range(Append(s, x)) = Range(s) \cup {x}
           /\ s # <<>> => Head(Append(s, x)) = Head(s)
           /\ IsInjective(s) /\ x \notin Range(s) => IsInjective(Append(s, x))
<1>1. Append(s, x) = s \o <<x>>
  BY SMT
<1>2. <<x>> \in Seq(S) /\ Len(<<x>>) = 1 /\ Range(<<x>>) = {x} /\ IsInjective(<<x>>)
  BY OneOnce
<1> DEFINE u == <<x>>
<1> HIDE DEF u
<1>3. u \in Seq(S) /\ Len(u) = 1 /\ Range(u) = {x} /\ IsInjective(u) /\ Append(s, x) = s \o u
  BY <1>1, <1>2 DEF u
<1> QED BY SMT, <1>3, CatOnce

LEMMA TailOnce ==
    ASSUME NEW S, NEW s \in Seq(S), s # <<>>, IsInjective(s)
    PROVE  /\ Tail(s) \in Seq(S) /\ Len(Tail(s)) = Len(s) - 1
           /\ Head(s) \in S /\ Head(s) \in Range(s)
           /\ Range(Tail(s)) = Range(s) \ {Head(s)}
           /\ IsInjective(Tail(s))
<1>1. Tail(s) \in Seq(S) /\ Len(Tail(s)) = Len(s) - 1 /\ Len(s) \in Nat /\ Len(s) >= 1
  BY SMT
<1>2. \A i \in 1 .. Len(s) - 1 : Tail(s)[i] = s[i + 1]
  BY SMT
<1>3. Head(s) = s[1] /\ Head(s) \in S /\ Head(s) \in Range(s)
  BY SMT, <1>1 DEF Range
<1>4. ASSUME NEW x PROVE x \in Range(Tail(s)) <=> x \in Range(s) \ {Head(s)}
  <2>1. ASSUME x \in Range(Tail(s)) PROVE x \in Range(s) \ {Head(s)}
    <3>1. PICK i \in 1 .. Len(s) - 1 : x = Tail(s)[i]
      BY SMT, <1>1, <2>1 DEF Range
    <3>2. x = s[i + 1] /\ i + 1 \in DOMAIN s /\ 1 \in DOMAIN s /\ i + 1 # 1
      BY SMT, <1>1, <1>2, <3>1
    <3> QED BY <1>3, <3>2 DEF Range, IsInjective
  <2>2. ASSUME x \in Range(s) \ {Head(s)} PROVE x \in Range(Tail(s))
    <3>1. PICK i \in 1 .. Len(s) : x = s[i]
      BY SMT, <2>2 DEF Range
    <3>2. i # 1 /\ i - 1 \in 1 .. Len(s) - 1 /\ Tail(s)[i - 1] = s[i]
      BY SMT, <1>1, <1>2, <1>3, <2>2, <3>1
    <3>3. i - 1 \in DOMAIN Tail(s)
      BY SMT, <1>1, <3>2
    <3> QED BY <3>1, <3>2, <3>3 DEF Range
  <2> QED BY <2>1, <2>2
<1>5. IsInjective(Tail(s))
  <2>1. ASSUME NEW i \in 1 .. Len(s) - 1, NEW j \in 1 .. Len(s) - 1, Tail(s)[i] = Tail(s)[j] PROVE i = j
    <3>1. s[i + 1] = s[j + 1] /\ i + 1 \in DOMAIN s /\ j + 1 \in DOMAIN s
      BY SMT, <1>1, <1>2, <2>1
    <3>2. i + 1 = j + 1
      BY <3>1 DEF IsInjective
    <3> QED BY SMT, <3>2
  <2> QED BY SMT, <1>1, <2>1 DEF IsInjective
<1> QED BY <1>1, <1>3, <1>4, <1>5

-----------------------------------------------------------------------------
(* The operators of the page table. *)
LEMMA WithFacts ==
    ASSUME NEW g, NEW p, NEW v, NEW u, u = With(g, p, v)
    PROVE  DOMAIN u = DOMAIN g \cup {p} /\ u[p] = v /\ \A q \in DOMAIN g : q # p => u[q] = g[q]
BY DEF With

LEMMA TouchedFacts ==
    ASSUME NEW t, IsFunctionTo(t, Flags), NEW p \in DOMAIN t, NEW mode, NEW u, u = Touched(t, p, mode)
    PROVE  /\ DOMAIN u = DOMAIN t /\ IsFunctionTo(u, Flags)
           /\ \A q \in DOMAIN t : /\ u[q].evicting = t[q].evicting /\ u[q].io_lock = t[q].io_lock
                                  /\ u[q].dirty <=> t[q].dirty \/ (q = p /\ mode = "X")
<1>1. DOMAIN u = DOMAIN t
  BY DEF Touched
<1>2. ASSUME NEW q \in DOMAIN t, q # p PROVE u[q] = t[q]
  BY <1>2 DEF Touched
<1>3. u[p] = [[t[p] EXCEPT !.marked = TRUE] EXCEPT !.dirty = t[p].dirty \/ mode = "X"]
  BY DEF Touched
<1>4. t[p] \in Flags
  BY DEF IsFunctionTo
<1>5. u[p].evicting = t[p].evicting /\ u[p].io_lock = t[p].io_lock /\ u[p].dirty = (t[p].dirty \/ mode = "X")
      /\ u[p] \in Flags
  BY <1>3, <1>4 DEF Flags
<1> QED BY <1>1, <1>2, <1>5 DEF IsFunctionTo

LEMMA MarkedFacts ==
    ASSUME NEW t, IsFunctionTo(t, Flags), Meta \in DOMAIN t, NEW u, u = Marked(t)
    PROVE  /\ DOMAIN u = DOMAIN t /\ IsFunctionTo(u, Flags)
           /\ \A q \in DOMAIN t : /\ u[q].evicting = t[q].evicting /\ u[q].io_lock = t[q].io_lock
                                  /\ u[q].dirty <=> t[q].dirty
<1>1. u = Touched(t, Meta, "S") /\ "S" # "X"
  BY DEF Marked
<1>2. /\ DOMAIN u = DOMAIN t /\ IsFunctionTo(u, Flags)
      /\ \A q \in DOMAIN t : /\ u[q].evicting = t[q].evicting /\ u[q].io_lock = t[q].io_lock
                             /\ u[q].dirty <=> t[q].dirty \/ (q = Meta /\ "S" = "X")
  BY SMT, <1>1, TouchedFacts
<1> QED BY <1>1, <1>2

-----------------------------------------------------------------------------
(* The ready queue. *)
LEMMA HeadFacts ==
    ASSUME FiniteFacts, TypeOK, Queues, NEW f \in Fibers, Runs(f)
    PROVE  /\ ready # <<>> /\ Tail(ready) \in Seq(Fibers) /\ Len(Tail(ready)) = Len(ready) - 1
           /\ f \in Range(ready) /\ Range(Tail(ready)) = Range(ready) \ {f} /\ IsInjective(Tail(ready))
           /\ turn \in Nat /\ turn > 0 /\ turn <= Len(ready) /\ turn - 1 \in 0 .. Cardinality(Fibers)
<1>1. ready \in Seq(Fibers) /\ IsInjective(ready) /\ turn <= Len(ready) /\ turn > 0 /\ Head(ready) = f
      /\ turn \in 0 .. Cardinality(Fibers)
  BY DEF TypeOK, Queues, Runs
<1>2. ready # <<>>
  BY SMT, <1>1
<1>3. turn \in Nat /\ turn - 1 \in 0 .. Cardinality(Fibers)
  BY SMT, <1>1 DEF FiniteFacts, SizesFact
<1> QED BY <1>1, <1>2, <1>3, TailOnce

(* The order in which a yielding fiber and the fibers it has woken are     *)
(* queued does not matter to the set of ready fibers.                      *)
LEMMA YieldMoves ==
    ASSUME FiniteFacts, TypeOK, Queues, NEW f \in Fibers, Runs(f), NEW wk \in Seq(Fibers), IsInjective(wk),
           Range(wk) \cap Range(ready) = {}, Yield(f, wk)
    PROVE  /\ ready' \in Seq(Fibers) /\ IsInjective(ready') /\ turn' <= Len(ready')
           /\ turn' \in 0 .. Cardinality(Fibers) /\ Range(ready') = Range(ready) \cup Range(wk)
<1> DEFINE u == Tail(ready)
<1>1. /\ u \in Seq(Fibers) /\ Len(u) = Len(ready) - 1 /\ f \in Range(ready)
      /\ Range(u) = Range(ready) \ {f} /\ IsInjective(u)
      /\ turn \in Nat /\ turn > 0 /\ turn <= Len(ready) /\ turn - 1 \in 0 .. Cardinality(Fibers)
  BY HeadFacts
<1>2. ready' = Append(u \o wk, f) /\ turn' = turn - 1
  BY DEF Yield
<1> HIDE DEF u
<1> DEFINE x == u \o wk
<1>3. x \in Seq(Fibers) /\ Len(x) = Len(u) + Len(wk) /\ Range(x) = Range(u) \cup Range(wk) /\ IsInjective(x)
  <2>1. Range(u) \cap Range(wk) = {}
    BY <1>1
  <2> QED BY SMT, <1>1, <2>1, CatOnce
<1>4. f \notin Range(x) /\ ready' = Append(x, f)
  BY <1>1, <1>2, <1>3
<1> HIDE DEF x
<1>5. /\ ready' \in Seq(Fibers) /\ Len(ready') = Len(x) + 1 /\ Range(ready') = Range(x) \cup {f} /\ IsInjective(ready')
  BY SMT, <1>3, <1>4, AppendOnce
<1>6. turn' <= Len(ready')
  <2>1. Len(wk) \in Nat /\ Len(u) \in Nat /\ Len(x) \in Nat /\ Len(ready) \in Nat
    BY SMT, <1>1, <1>3 DEF TypeOK
  <2> QED BY SMT, <1>1, <1>2, <1>3, <1>5, <2>1
<1> QED BY <1>1, <1>2, <1>3, <1>5, <1>6

LEMMA ParkMoves ==
    ASSUME FiniteFacts, TypeOK, Queues, NEW f \in Fibers, Runs(f), NEW wk \in Seq(Fibers), IsInjective(wk),
           Range(wk) \cap Range(ready) = {}, Park(wk)
    PROVE  /\ ready' \in Seq(Fibers) /\ IsInjective(ready') /\ turn' <= Len(ready')
           /\ turn' \in 0 .. Cardinality(Fibers) /\ Range(ready') = (Range(ready) \ {f}) \cup Range(wk)
<1> DEFINE u == Tail(ready)
<1>1. /\ u \in Seq(Fibers) /\ Len(u) = Len(ready) - 1 /\ f \in Range(ready)
      /\ Range(u) = Range(ready) \ {f} /\ IsInjective(u)
      /\ turn \in Nat /\ turn > 0 /\ turn <= Len(ready) /\ turn - 1 \in 0 .. Cardinality(Fibers)
  BY HeadFacts
<1>2. ready' = u \o wk /\ turn' = turn - 1
  BY DEF Park
<1> HIDE DEF u
<1>3. ready' \in Seq(Fibers) /\ Len(ready') = Len(u) + Len(wk) /\ Range(ready') = Range(u) \cup Range(wk)
      /\ IsInjective(ready')
  <2>1. Range(u) \cap Range(wk) = {}
    BY <1>1
  <2>2. u \o wk \in Seq(Fibers) /\ Len(u \o wk) = Len(u) + Len(wk) /\ IsInjective(u \o wk)
        /\ Range(u \o wk) = Range(u) \cup Range(wk)
    BY SMT, <1>1, <2>1, CatOnce
  <2> QED BY <1>2, <2>2
<1>4. turn' <= Len(ready')
  <2>1. Len(wk) \in Nat /\ Len(u) \in Nat /\ Len(ready) \in Nat
    BY SMT, <1>1 DEF TypeOK
  <2> QED BY SMT, <1>1, <1>2, <1>3, <2>1
<1> QED BY <1>1, <1>2, <1>3, <1>4

(* ensureFreePages wakes the evictor only if it sleeps. *)
LEMMA WokenFacts ==
    ASSUME TypeOK, Places, NEW wk, wk = ensureFreePages
    PROVE  /\ wk \in Seq(Fibers) /\ IsInjective(wk) /\ Range(wk) \cap Range(ready) = {}
           /\ Range(wk) \subseteq {Evictor} /\ (wk # <<>> <=> Evictor \in Range(wk))
           /\ wk # <<>> => ~running
<1>1. Evictor \in Fibers
  BY DEF Fibers
<1>2. CASE free <= FreeTarget /\ ~running
  <2>1. wk = <<Evictor>>
    BY <1>2 DEF ensureFreePages
  <2>2. wk \in Seq(Fibers) /\ Range(wk) = {Evictor} /\ IsInjective(wk) /\ wk # <<>>
    BY SMT, <1>1, <2>1, OneOnce
  <2>3. Evictor \notin Range(ready)
    BY <1>2 DEF Places
  <2> QED BY <1>2, <2>2, <2>3
<1>3. CASE ~(free <= FreeTarget /\ ~running)
  <2>1. wk = <<>>
    BY <1>3 DEF ensureFreePages
  <2>2. wk \in Seq(Fibers) /\ Range(wk) = {} /\ IsInjective(wk)
    BY <2>1, EmptyOnce
  <2> QED BY <2>1, <2>2
<1> QED BY <1>2, <1>3

-----------------------------------------------------------------------------
(* check_submit moves prepared I/O to the device, and keeps its counters. *)
LEMMA SubmitMoves ==
    ASSUME NEW q, NEW n \in Nat, queued \subseteq q, n = 0 => q = queued, q \cap inflight = {},
           check_submit(q, n)
    PROVE  /\ queued' \cup inflight' = q \cup inflight /\ queued' \cap inflight' = {}
           /\ queued' \subseteq q /\ inflight \subseteq inflight'
<1>1. CASE n = 0 /\ UNCHANGED ioVars
  BY <1>1 DEF ioVars
<1>2. CASE queued' = {} /\ inflight' = inflight \cup q
  BY <1>2
<1>3. CASE queued' = q /\ UNCHANGED inflight
  BY <1>3
<1> QED BY <1>1, <1>2, <1>3 DEF check_submit

LEMMA TotalFacts ==
    ASSUME FiniteFacts
    PROVE  TotalIoFibers \in Nat /\ TotalIoFibers > 0 /\ MaxFibers \in Nat /\ TotalIoFibers <= MaxFibers
<1>2. Cardinality(Clients) \in Nat /\ Cardinality(Clients) # 0
  BY DEF FiniteFacts, SizesFact
<1>3. MaxFibers \in Nat /\ TotalIoFibers \in Cardinality(Clients) .. MaxFibers
  BY SizeAssumption
<1> QED BY SMT, <1>2, <1>3

SubmitState ==
    /\ IsFiniteSet(queued) /\ toSubmit \in Nat /\ sinceFirst \in Nat /\ toSubmit = Cardinality(queued)
    /\ toSubmit = 0 <=> sinceFirst = 0
    /\ sinceFirst < TotalIoFibers /\ sinceFirst - toSubmit \in 0 .. MaxFibers

LEMMA SubmitCounts ==
    ASSUME FiniteFacts, SubmitState, NEW q, NEW n \in Nat, IsFiniteSet(q), n = Cardinality(q),
           n = toSubmit \/ n = toSubmit + 1, check_submit(q, n)
    PROVE  SubmitState'
<1>1. CASE n = 0 /\ UNCHANGED ioVars
  BY <1>1 DEF ioVars, SubmitState
<1>2. CASE toSubmit' = 0 /\ sinceFirst' = 0 /\ queued' = {}
  BY SMT, <1>2, TotalFacts DEF SubmitState, FiniteFacts, EmptyFact
<1>3. CASE n > 0 /\ ~MustSubmit(n, sinceFirst + 1) /\ toSubmit' = n /\ sinceFirst' = sinceFirst + 1 /\ queued' = q
  <2>1. sinceFirst + 1 # TotalIoFibers
    BY <1>3 DEF MustSubmit
  <2>2. toSubmit \in Nat /\ sinceFirst \in Nat /\ sinceFirst < TotalIoFibers /\ sinceFirst - toSubmit \in 0 .. MaxFibers
    BY DEF SubmitState
  <2>3. toSubmit' \in Nat /\ sinceFirst' \in Nat /\ ~(toSubmit' = 0) /\ ~(sinceFirst' = 0)
        /\ sinceFirst' < TotalIoFibers /\ sinceFirst' - toSubmit' \in 0 .. MaxFibers
    BY SMT, <1>3, <2>1, <2>2, TotalFacts
  <2>4. IsFiniteSet(queued') /\ toSubmit' = Cardinality(queued')
    BY <1>3
  <2> QED BY <2>3, <2>4 DEF SubmitState
<1> QED BY <1>1, <1>2, <1>3 DEF check_submit

-----------------------------------------------------------------------------
(* What the step of a client leaves alone.  It may wake the evictor. *)
Others(f) ==
    /\ \A g \in Fibers \ {f} : at'[g] = at[g]
    /\ \A g \in Clients \ {f} : want'[g] = want[g]
    /\ Range(ready) \ {f} \subseteq Range(ready')
    /\ Range(ready') \subseteq Range(ready) \cup {Evictor}
    /\ Evictor \in Range(ready') \ Range(ready) => ~running
    /\ running' <=> running \/ Evictor \in Range(ready') \ Range(ready)
    /\ toEvict' = toEvict /\ toWrite' = toWrite

LEMMA InvTypes == FiberInv => TypeOK /\ Queues /\ Places /\ SubmitState
BY DEF FiberInv, Counts, CountsAddUp, TypeOK, SubmitState

LEMMA ClientIsFiber == ASSUME NEW f \in Clients PROVE f \in Fibers /\ f # Evictor
BY ClientAssumption DEF Fibers

LEMMA RunningFacts ==
    ASSUME FiniteFacts, FiberInv, NEW f \in Clients, Runs(f)
    PROVE  /\ f \in Fibers /\ f # Evictor /\ f \in Range(ready) /\ at[Evictor] # "claimed"
           /\ \A io \in Pending : io.op # f
           /\ \A p \in Resident : f \notin Behind(p)
<1>1. f \in Fibers /\ f # Evictor
  BY ClientIsFiber
<1>2. f \in Range(ready)
  BY <1>1, HeadFacts, InvTypes
<1>3. at[Evictor] # "claimed"
  BY <1>1 DEF FiberInv, Places, Runs
<1>4. \A io \in Pending : io.op # f
  BY <1>2 DEF FiberInv, Ios
<1>5. \A p \in Resident : f \notin Behind(p)
  BY <1>2 DEF FiberInv, Waits
<1> QED BY <1>1, <1>2, <1>3, <1>4, <1>5

LEMMA AttemptFacts ==
    ASSUME FiberInv, NEW f \in Clients, NEW w \in Wants, Attempt(f, w)
    PROVE  /\ Runs(f) /\ at[f] # "reading" /\ ops' \in 0 .. MaxOps
           /\ \/ w.pid \in allocated /\ w.mode # "A"
              \/ w.pid = NoPid /\ w.mode = "A"
<1>1. Meta \in allocated
  BY DEF FiberInv, Pages
<1>2. ClientFacts(f)
  BY DEF FiberInv, Readers
<1>3. ops \in 0 .. MaxOps /\ MaxOps \in Nat
  BY SizeAssumption, InvTypes DEF TypeOK
<1>4. Runs(f)
  BY DEF Attempt
<1>5. CASE at[f] = "retry" /\ w = want[f] /\ UNCHANGED ops
  BY <1>2, <1>3, <1>4, <1>5 DEF ClientFacts
<1>6. CASE at[f] = "start" /\ w = [pid |-> Meta, mode |-> "S"] /\ UNCHANGED ops
  <2>1. w.pid = Meta /\ w.mode = "S"
    BY <1>6
  <2> QED BY <1>1, <1>3, <1>4, <1>6, <2>1
<1>7. CASE /\ at[f] = "start" /\ ops < MaxOps /\ ops' = ops + 1
           /\ \/ w.mode \in {"S", "X"} /\ w.pid \in allocated \ {Meta}
              \/ w.mode = "A" /\ w.pid = NoPid
  <2>1. ops' \in 0 .. MaxOps
    BY SMT, <1>3, <1>7
  <2>2. at[f] # "reading"
    BY <1>7
  <2> QED BY <1>4, <1>7, <2>1, <2>2
<1> QED BY <1>5, <1>6, <1>7 DEF Attempt

-----------------------------------------------------------------------------
(* The parts of the invariant that the step of a client keeps because it is *)
(* the only one that moves.                                                 *)
LEMMA ClientPlaces ==
    ASSUME FiniteFacts, FiberInv, NEW f \in Clients, Runs(f), Others(f), Pending \subseteq Pending',
           \A p \in Resident : p \in Resident' /\ Behind(p) \subseteq Behind(p)', Placed(f)'
    PROVE  Places'
<1>1. f \in Fibers /\ f # Evictor /\ at[Evictor] # "claimed" /\ Evictor \in Fibers
  BY RunningFacts DEF Fibers
<1>2. at'[Evictor] = at[Evictor] /\ toEvict' = toEvict /\ toWrite' = toWrite
  BY <1>1 DEF Others
<1>3. Outstanding \subseteq Outstanding'
  BY DEF Outstanding, Pending
<1>4. ASSUME NEW g \in Clients PROVE Placed(g)'
  <2>1. CASE g = f
    BY <2>1
  <2>2. CASE g # f
    <3>1. Placed(g)
      BY DEF FiberInv, Places
    <3>2. CASE g \in Range(ready)
      BY <2>2, <3>2 DEF Others, Placed
    <3>3. CASE g \in Outstanding
      BY <1>3, <3>3 DEF Placed
    <3>4. CASE \E p \in Resident : g \in Behind(p)
      BY <3>4 DEF Placed
    <3> QED BY <3>1, <3>2, <3>3, <3>4 DEF Placed
  <2> QED BY <2>1, <2>2
<1>5. running' /\ Evictor \notin Range(ready') => Evictor \in Outstanding'
  BY <1>1, <1>3 DEF FiberInv, Places, Others
<1>6. ~running' => at'[Evictor] = "loop" /\ Evictor \notin Range(ready')
  BY <1>2 DEF FiberInv, Places, Others
<1>7. at[Evictor] \in {"loop", "claimed", "written"} /\ (at[Evictor] = "loop" => toEvict = {} /\ toWrite = {})
  BY DEF FiberInv, Places
<1> QED BY <1>1, <1>2, <1>4, <1>5, <1>6, <1>7 DEF Places

LEMMA PendingTypes == ASSUME TypeOK PROVE Pending \subseteq IO
<1>1. queued \subseteq IO /\ inflight \subseteq IO /\ cq \in Seq(IO)
  BY DEF TypeOK
<1>2. Range(cq) \subseteq IO
  BY SMT, <1>1 DEF Range
<1> QED BY <1>1, <1>2 DEF Pending

LEMMA ClientIos ==
    ASSUME FiniteFacts, FiberInv, NEW f \in Clients, Runs(f), Others(f),
           \A io \in Pending' : \/ io \in Pending
                                \/ io.op = f /\ at'[f] = "reading" /\ want'[f].pid = io.pid /\ f \notin Range(ready'),
           \A io \in queued' : io \in queued \/ io.op = f
    PROVE  Ios'
<1>1. f \in Fibers /\ f # Evictor /\ Evictor \in Fibers /\ \A io \in Pending : io.op # f
  BY RunningFacts DEF Fibers
<1>2. ASSUME NEW io \in Pending, io.op \in Fibers
      PROVE  /\ io.op \notin Range(ready')
             /\ io.op # Evictor => at'[io.op] = "reading" /\ want'[io.op].pid = io.pid
             /\ io.op = Evictor => at'[Evictor] = "written" /\ io.pid \in toWrite'
  <2>1. io.op \notin Range(ready) /\ io.op # f
        /\ (io.op # Evictor => at[io.op] = "reading" /\ want[io.op].pid = io.pid)
        /\ (io.op = Evictor => at[Evictor] = "written" /\ io.pid \in toWrite)
    BY <1>1 DEF FiberInv, Ios
  <2>2. io.op = Evictor => running
    BY <2>1 DEF FiberInv, Places
  <2>3. io.op # Evictor => io.op \in Clients \ {f}
    BY <1>2, <2>1 DEF Fibers
  <2> QED BY <1>1, <1>2, <2>1, <2>2, <2>3 DEF Others
<1>3. \A io \in Pending : io.op \in Fibers
  BY PendingTypes, InvTypes DEF IO
<1>4. \A io \in queued' : io.op # Evictor
  BY <1>1 DEF FiberInv, Ios
<1> QED BY <1>1, <1>2, <1>3, <1>4 DEF Ios

LEMMA BehindClients == ASSUME TypeOK, NEW p \in Resident PROVE Behind(p) \subseteq Clients
<1>1. waiting[p] \in Seq(Clients)
  BY DEF TypeOK, IsFunctionTo
<1> QED BY SMT, <1>1 DEF Behind, Range

LEMMA ClientWaits ==
    ASSUME FiniteFacts, FiberInv, NEW f \in Clients, Runs(f), Others(f),
           \A p \in Resident' : \A g \in Behind(p)' :
              \/ p \in Resident /\ g \in Behind(p)
              \/ g = f /\ at'[f] = "retry" /\ want'[f].pid = p /\ f \notin Range(ready')
    PROVE  Waits'
<1>1. ASSUME NEW p \in Resident, NEW g \in Behind(p)
      PROVE  at'[g] = "retry" /\ want'[g].pid = p /\ g \notin Range(ready')
  <2>1. at[g] = "retry" /\ want[g].pid = p /\ g \notin Range(ready)
    BY DEF FiberInv, Waits
  <2>2. g # f /\ g \in Clients /\ g \in Fibers /\ g # Evictor
    BY RunningFacts, BehindClients, ClientIsFiber, InvTypes
  <2> QED BY <2>1, <2>2 DEF Others
<1> QED BY <1>1 DEF Waits

LEMMA ClientReaders ==
    ASSUME FiberInv, NEW f \in Clients, Runs(f), Others(f), allocated \subseteq allocated',
           \A p \in Resident : p \in Resident' /\ (table[p].io_lock => table'[p].io_lock),
           ClientFacts(f)',
           at'[f] = "reading" => want'[f].pid \notin Resident
    PROVE  Readers'
<1>1. \A g \in Clients \ {f} : at'[g] = at[g] /\ want'[g] = want[g]
  BY ClientIsFiber DEF Others
<1>2. ASSUME NEW g \in Clients \ {f} PROVE ClientFacts(g)'
  <2>1. ClientFacts(g)
    BY DEF FiberInv, Readers
  <2> QED BY <1>1, <2>1 DEF ClientFacts
<1>3. ASSUME NEW g \in Clients \ {f}, at'[g] = "reading" PROVE want'[g].pid \in Resident
  BY <1>1, <1>3 DEF FiberInv, Readers, ClientFacts
<1>4. ASSUME NEW g \in Clients, NEW h \in Clients, at'[g] = "reading", at'[h] = "reading", want'[g].pid = want'[h].pid
      PROVE  g = h
  <2>1. CASE g # f /\ h # f
    BY <1>1, <1>4, <2>1 DEF FiberInv, Readers
  <2>2. CASE g = f \/ h = f
    BY <1>3, <1>4, <2>2
  <2> QED BY <2>1, <2>2
<1> QED BY <1>2, <1>4 DEF Readers

LEMMA ClientPages ==
    ASSUME FiberInv, NEW f \in Clients, Runs(f), Others(f), at[f] # "reading",
           Resident \subseteq Resident', Resident' \subseteq allocated',
           \A q \in Resident : /\ table'[q].evicting = table[q].evicting /\ table'[q].io_lock = table[q].io_lock
                               /\ table'[q].dirty => table[q].dirty \/ ~table[q].io_lock
                               /\ IsInjective(waiting'[q])
                               /\ table[q].io_lock \/ Behind(q)' = Behind(q),
           \A q \in Resident' \ Resident : /\ ~table'[q].evicting /\ Behind(q)' = {} /\ IsInjective(waiting'[q])
                                           /\ table'[q].io_lock => /\ ~table'[q].dirty
                                                                   /\ at'[f] = "reading" /\ want'[f].pid = q
    PROVE  Pages'
<1>1. toEvict' = toEvict /\ toWrite' = toWrite /\ \A g \in Clients \ {f} : at'[g] = at[g] /\ want'[g] = want[g]
  BY ClientIsFiber DEF Others
<1>2. /\ Meta \in Resident /\ toEvict \cup toWrite \subseteq Resident /\ ~table[Meta].io_lock /\ ~table[Meta].evicting
  BY DEF FiberInv, Pages
<1>3. ASSUME NEW q \in Resident PROVE PageFacts(q)'
  <2>1. PageFacts(q)
    BY DEF FiberInv, Pages
  <2>2. table'[q].evicting <=> q \in toEvict' \cup toWrite'
    BY <1>1, <2>1 DEF PageFacts
  <2>3. table'[q].io_lock => ~table'[q].evicting /\ ~table'[q].dirty
    BY <2>1 DEF PageFacts
  <2>4. ~table'[q].io_lock => Behind(q)' = {}
    BY <2>1 DEF PageFacts
  <2>5. ASSUME table'[q].io_lock PROVE \E r \in Clients : at'[r] = "reading" /\ want'[r].pid = q
    <3>1. PICK r \in Clients : at[r] = "reading" /\ want[r].pid = q
      BY <2>1, <2>5 DEF PageFacts
    <3> QED BY <1>1, <3>1
  <2> QED BY <2>2, <2>3, <2>4, <2>5 DEF PageFacts
<1>4. ASSUME NEW q \in Resident' \ Resident PROVE PageFacts(q)'
  BY <1>1, <1>2 DEF PageFacts
<1> HIDE DEF Meta
<1> QED BY <1>1, <1>2, <1>3, <1>4 DEF Pages

LEMMA ClientData ==
    ASSUME FiberInv, NEW f \in Clients, Runs(f), Others(f), at[f] # "reading",
           queued \cup inflight \subseteq queued' \cup inflight', inflight \subseteq inflight', disk' = disk,
           Resident \subseteq Resident', allocated \subseteq allocated',
           \A q \in Resident :
              \/ /\ mem'[q] = mem[q] /\ committed'[q] = committed[q]
                 /\ (table'[q].dirty <=> table[q].dirty) /\ table'[q].io_lock = table[q].io_lock
              \/ /\ mem'[q] = committed'[q] /\ committed'[q] \in {0, 1}
                 /\ table'[q].dirty /\ ~table'[q].io_lock /\ ~table[q].io_lock,
           \A q \in allocated \ Resident :
              /\ committed'[q] = committed[q]
              /\ q \in Resident' => table'[q].io_lock,
           \A q \in allocated' \ allocated :
              q \in Resident' /\ mem'[q] = committed'[q] /\ committed'[q] \in {0, 1} /\ table'[q].dirty,
           at'[f] = "reading" => [op |-> f, pid |-> want'[f].pid] \in queued' \cup inflight'
    PROVE  Data'
<1>1. at'[Evictor] = at[Evictor] /\ toWrite' = toWrite /\ \A g \in Clients \ {f} : at'[g] = at[g] /\ want'[g] = want[g]
  BY ClientIsFiber DEF Others, Fibers
<1>2. Resident \subseteq allocated /\ toWrite \subseteq Resident
  BY DEF FiberInv, Pages
<1>3. /\ \A p \in allocated : committed[p] \in {0, 1}
      /\ \A g \in Clients : at[g] = "reading" /\ [op |-> g, pid |-> want[g].pid] \notin queued \cup inflight
            => mem[want[g].pid] = committed[want[g].pid]
      /\ \A p \in toWrite : at[Evictor] = "written" /\ ~table[p].dirty /\ [op |-> Evictor, pid |-> p] \notin inflight
            => disk[p] = committed[p]
  BY DEF FiberInv, Data
<1>4. ASSUME NEW p \in Resident
      PROVE  /\ ~table[p].io_lock => mem[p] = committed[p]
             /\ ~table[p].dirty /\ p \notin toWrite => disk[p] = committed[p]
  BY <1>2 DEF FiberInv, Data, NoWriteLost
<1>5. ASSUME NEW p \in allocated \ Resident PROVE disk[p] = committed[p]
  BY DEF FiberInv, Data, NoWriteLost
<1>6. ASSUME NEW p \in allocated'
      PROVE  /\ p \in Resident' => /\ ~table'[p].io_lock => mem'[p] = committed'[p]
                                   /\ ~table'[p].dirty /\ p \notin toWrite' => disk'[p] = committed'[p]
             /\ p \notin Resident' => disk'[p] = committed'[p]
             /\ committed'[p] \in {0, 1}
  <2>1. CASE p \in Resident
    BY <1>1, <1>2, <1>3, <1>4, <2>1
  <2>2. CASE p \in allocated \ Resident
    BY <1>1, <1>3, <1>5, <2>2
  <2>3. CASE p \notin allocated
    BY <2>3
  <2> QED BY <2>1, <2>2, <2>3
<1>7. NoWriteLost'
  BY <1>6 DEF NoWriteLost
<1>8. ASSUME NEW g \in Clients, at'[g] = "reading", [op |-> g, pid |-> want'[g].pid] \notin queued' \cup inflight'
      PROVE  mem'[want'[g].pid] = committed'[want'[g].pid]
  <2>1. g # f /\ at[g] = "reading" /\ want'[g] = want[g]
    BY <1>1, <1>8
  <2> DEFINE q == want[g].pid
  <2>2. q \in Resident /\ table[q].io_lock
    BY <2>1 DEF FiberInv, Readers, ClientFacts
  <2>3. mem[q] = committed[q]
    <3>1. [op |-> g, pid |-> want'[g].pid] = [op |-> g, pid |-> want[g].pid]
      BY <2>1
    <3>2. [op |-> g, pid |-> want[g].pid] \notin queued \cup inflight
      BY <1>8, <3>1
    <3> QED BY <1>3, <2>1, <3>2
  <2>4. mem'[q] = committed'[q]
    BY <2>2, <2>3
  <2> QED BY <2>1, <2>4
<1>9. ASSUME NEW p \in toWrite', at'[Evictor] = "written", ~table'[p].dirty, [op |-> Evictor, pid |-> p] \notin inflight'
      PROVE  disk'[p] = committed'[p]
  <2>1. p \in toWrite /\ p \in Resident /\ at[Evictor] = "written" /\ [op |-> Evictor, pid |-> p] \notin inflight
    BY <1>1, <1>2, <1>9
  <2>2. ~table[p].dirty /\ committed'[p] = committed[p]
    BY <1>9, <2>1
  <2> QED BY <1>3, <2>1, <2>2
<1> QED BY <1>6, <1>7, <1>8, <1>9 DEF Data

-----------------------------------------------------------------------------
(* Pieces that the steps of clients share. *)
FrameCount == free + Cardinality(Resident) = NumFrames

LEMMA InvParts ==
    ASSUME Queues', Pages', Readers', Waits', Ios', Places', Data', TypeOK', FrameCount', SubmitState'
    PROVE  FiberInv'
<1>1. IsFiniteSet(queued)'
  BY DEF SubmitState
<1>2. CountsAddUp'
  BY DEF CountsAddUp, FrameCount, SubmitState
<1>3. Counts'
  BY <1>1, <1>2 DEF Counts
<1> QED BY <1>3 DEF FiberInv

LEMMA InvFrames == FiberInv => FrameCount
BY DEF FiberInv, Counts, CountsAddUp, FrameCount

LEMMA ClientMoves ==
    ASSUME TypeOK, NEW f \in Clients, NEW x \in {"start", "retry", "reading"}, at' = [at EXCEPT ![f] = x],
           NEW v \in Wants, want' = [want EXCEPT ![f] = v]
    PROVE  /\ at' \in [Fibers -> {"start", "retry", "reading", "loop", "claimed", "written"}]
           /\ want' \in [Clients -> Wants]
           /\ at'[f] = x /\ want'[f] = v
           /\ \A g \in Fibers \ {f} : at'[g] = at[g]
           /\ \A g \in Clients \ {f} : want'[g] = want[g]
<1>1. at \in [Fibers -> {"start", "retry", "reading", "loop", "claimed", "written"}] /\ want \in [Clients -> Wants]
  BY DEF TypeOK
<1>2. f \in Fibers
  BY ClientIsFiber
<1>3. at'[f] = x /\ want'[f] = v /\ (\A g \in Fibers \ {f} : at'[g] = at[g])
      /\ \A g \in Clients \ {f} : want'[g] = want[g]
  BY <1>1, <1>2
<1>4. x \in {"start", "retry", "reading", "loop", "claimed", "written"}
  OBVIOUS
<1> QED BY <1>1, <1>2, <1>3, <1>4

LEMMA AddPage ==
    ASSUME FiniteFacts, TypeOK, FrameCount, NEW p \in Pids \ Resident, Resident' = Resident \cup {p}, free > 0, free' = free - 1
    PROVE  FrameCount' /\ free' \in 0 .. NumFrames /\ Resident' \subseteq Pids
<1>1. Resident \subseteq Pids /\ free \in 0 .. NumFrames /\ NumFrames \in Nat
  BY SizeAssumption DEF TypeOK
<1>2. IsFiniteSet(Resident)
  <2>1. IsFiniteSet(Pids)
    BY SMT, SizeAssumption DEF Pids, FiniteFacts, IntervalFact
  <2> QED BY <1>1, <2>1 DEF FiniteFacts, SubsetFact
<1> DEFINE R == Resident
<1> HIDE DEF R
<1>3. Cardinality(R \cup {p}) = Cardinality(R) + 1 /\ Cardinality(R) \in Nat
  BY <1>2 DEF R, FiniteFacts, AddFact
<1>4. Cardinality(Resident') = Cardinality(Resident) + 1
  BY <1>3 DEF R
<1>5. FrameCount'
  BY SMT, <1>1, <1>3, <1>4 DEF FrameCount, R
<1> QED BY SMT, <1>1, <1>5

LEMMA SubmitIos ==
    ASSUME TypeOK, Queues, NEW q, q \subseteq IO, queued' \cup inflight' = q \cup inflight, queued' \cap inflight' = {},
           q \cap Range(cq) = {}, cq' = cq
    PROVE  /\ queued' \subseteq IO /\ inflight' \subseteq IO
           /\ queued' \cap inflight' = {} /\ (queued' \cup inflight') \cap Range(cq') = {}
           /\ Pending' = q \cup inflight \cup Range(cq)
<1>1. inflight \subseteq IO /\ inflight \cap Range(cq) = {}
  BY DEF TypeOK, Queues
<1>2. queued' \subseteq IO /\ inflight' \subseteq IO
  BY <1>1
<1>3. (queued' \cup inflight') \cap Range(cq') = {}
  BY <1>1
<1>4. Pending' = q \cup inflight \cup Range(cq)
  BY DEF Pending
<1> QED BY <1>2, <1>3, <1>4

(* The step ends with check_submit, and brings no I/O. *)
LEMMA NoIo ==
    ASSUME FiniteFacts, FiberInv, check_submit(queued, toSubmit), cq' = cq
    PROVE  /\ queued' \subseteq IO /\ inflight' \subseteq IO
           /\ queued' \cap inflight' = {} /\ (queued' \cup inflight') \cap Range(cq') = {}
           /\ queued' \cup inflight' = queued \cup inflight /\ queued' \subseteq queued /\ inflight \subseteq inflight'
           /\ Pending' = Pending /\ SubmitState'
<1>1. TypeOK /\ Queues /\ SubmitState
  BY InvTypes
<1>2. toSubmit \in Nat /\ toSubmit = Cardinality(queued) /\ IsFiniteSet(queued)
  BY <1>1 DEF SubmitState
<1>3. queued \cap inflight = {} /\ queued \cap Range(cq) = {} /\ queued \subseteq IO
  BY <1>1 DEF Queues, TypeOK
<1>4. /\ queued' \cup inflight' = queued \cup inflight /\ queued' \cap inflight' = {}
      /\ queued' \subseteq queued /\ inflight \subseteq inflight'
  BY <1>2, <1>3, SubmitMoves
<1>5. SubmitState'
  BY <1>1, <1>2, SubmitCounts
<1>6. /\ queued' \subseteq IO /\ inflight' \subseteq IO
      /\ queued' \cap inflight' = {} /\ (queued' \cup inflight') \cap Range(cq') = {}
      /\ Pending' = queued \cup inflight \cup Range(cq)
  BY <1>1, <1>3, <1>4, SubmitIos
<1> QED BY <1>4, <1>5, <1>6 DEF Pending

(* The step does not touch the queues of the device. *)
LEMMA SameIo ==
    ASSUME FiberInv, UNCHANGED ioVars, cq' = cq
    PROVE  /\ queued' \subseteq IO /\ inflight' \subseteq IO
           /\ queued' \cap inflight' = {} /\ (queued' \cup inflight') \cap Range(cq') = {}
           /\ queued' = queued /\ inflight' = inflight
           /\ Pending' = Pending /\ SubmitState'
<1>1. TypeOK /\ Queues /\ SubmitState
  BY InvTypes
<1>2. queued' = queued /\ inflight' = inflight /\ toSubmit' = toSubmit /\ sinceFirst' = sinceFirst
  BY DEF ioVars
<1> QED BY <1>1, <1>2 DEF Queues, TypeOK, Pending, SubmitState

LEMMA NobodyWoken == << >> \in Seq(Fibers) /\ IsInjective(<< >>) /\ Range(<< >>) \cap Range(ready) = {} /\ Range(<< >>) = {}
BY EmptyOnce

-----------------------------------------------------------------------------
(* The steps of clients. *)
LEMMA MarkedTable ==
    ASSUME FiberInv, NEW u, u = Marked(table)
    PROVE  /\ DOMAIN u = Resident /\ IsFunctionTo(u, Flags)
           /\ \A q \in Resident : /\ u[q].evicting = table[q].evicting /\ u[q].io_lock = table[q].io_lock
                                  /\ u[q].dirty <=> table[q].dirty
<1>1. IsFunctionTo(table, Flags) /\ Meta \in DOMAIN table
  BY InvTypes DEF TypeOK, FiberInv, Pages, Resident
<1> HIDE DEF Meta
<1> QED BY <1>1, MarkedFacts DEF Resident

LEMMA NothingIsWanted == Nothing \in Wants
BY DEF Nothing, Wants

LEMMA AccessStep ==
    ASSUME FiniteFacts, FiberInv, NEW f \in Clients, NEW w \in Wants, Access(f, w)
    PROVE  FiberInv'
<1> DEFINE p == w.pid
<1>a. TypeOK /\ Queues /\ Places /\ FrameCount
  BY InvTypes, InvFrames
<1>b. /\ Attempt(f, w) /\ p \in Resident /\ ~table[p].io_lock
      /\ table' = Touched(Marked(table), p, w.mode)
      /\ mem' = IF w.mode = "X" THEN [mem EXCEPT ![p] = 1 - @] ELSE mem
      /\ committed' = IF w.mode = "X" THEN [committed EXCEPT ![p] = 1 - @] ELSE committed
      /\ check_submit(queued, toSubmit)
      /\ at' = [at EXCEPT ![f] = "start"] /\ want' = [want EXCEPT ![f] = Nothing]
      /\ Yield(f, << >>)
      /\ free' = free /\ waiting' = waiting /\ allocated' = allocated /\ disk' = disk
      /\ toEvict' = toEvict /\ toWrite' = toWrite /\ running' = running /\ cq' = cq
  BY DEF Access, evictVars
<1> HIDE DEF p
<1>1. Runs(f) /\ at[f] # "reading" /\ ops' \in 0 .. MaxOps
  BY <1>b, AttemptFacts
<1>2. f \in Fibers /\ f # Evictor /\ f \in Range(ready)
  BY <1>1, RunningFacts
<1>3. /\ Resident' = Resident /\ IsFunctionTo(table', Flags)
      /\ \A q \in Resident : /\ table'[q].evicting = table[q].evicting /\ table'[q].io_lock = table[q].io_lock
                             /\ table'[q].dirty <=> table[q].dirty \/ (q = p /\ w.mode = "X")
  <2> DEFINE u == Marked(table)
  <2>1. /\ DOMAIN u = Resident /\ IsFunctionTo(u, Flags)
        /\ \A q \in Resident : /\ u[q].evicting = table[q].evicting /\ u[q].io_lock = table[q].io_lock
                               /\ u[q].dirty <=> table[q].dirty
    BY MarkedTable
  <2>2. table' = Touched(u, p, w.mode) /\ p \in DOMAIN u
    BY <1>b, <2>1
  <2> HIDE DEF u
  <2>3. /\ DOMAIN table' = DOMAIN u /\ IsFunctionTo(table', Flags)
        /\ \A q \in DOMAIN u : /\ table'[q].evicting = u[q].evicting /\ table'[q].io_lock = u[q].io_lock
                               /\ table'[q].dirty <=> u[q].dirty \/ (q = p /\ w.mode = "X")
    BY SMT, <2>1, <2>2, TouchedFacts
  <2> QED BY <2>1, <2>3 DEF Resident
<1>4. /\ ready' \in Seq(Fibers) /\ IsInjective(ready') /\ turn' <= Len(ready')
      /\ turn' \in 0 .. Cardinality(Fibers) /\ Range(ready') = Range(ready)
  <2> DEFINE wk == << >>
  <2>1. wk \in Seq(Fibers) /\ IsInjective(wk) /\ Range(wk) \cap Range(ready) = {} /\ Range(wk) = {} /\ Yield(f, wk)
    BY <1>b, NobodyWoken
  <2> HIDE DEF wk
  <2> QED BY <1>a, <1>1, <1>2, <2>1, YieldMoves
<1>5. /\ at' \in [Fibers -> {"start", "retry", "reading", "loop", "claimed", "written"}]
      /\ want' \in [Clients -> Wants] /\ at'[f] = "start"
      /\ \A g \in Fibers \ {f} : at'[g] = at[g]
      /\ \A g \in Clients \ {f} : want'[g] = want[g]
  BY <1>a, <1>b, ClientMoves, NothingIsWanted
<1>6. Others(f)
  BY <1>b, <1>4, <1>5 DEF Others
<1>7. /\ queued' \subseteq IO /\ inflight' \subseteq IO
      /\ queued' \cap inflight' = {} /\ (queued' \cup inflight') \cap Range(cq') = {}
      /\ queued' \cup inflight' = queued \cup inflight /\ queued' \subseteq queued /\ inflight \subseteq inflight'
      /\ Pending' = Pending /\ SubmitState'
  BY <1>b, NoIo
<1>8. \A q \in Resident : Behind(q)' = Behind(q)
  BY <1>b DEF Behind
<1>9. Resident \subseteq allocated /\ allocated \subseteq Pids /\ DOMAIN mem = Resident /\ IsFunctionTo(mem, Contents)
      /\ committed \in [Pids -> Contents]
  BY <1>a DEF FiberInv, Pages, TypeOK
<1>10. mem[p] = committed[p] /\ committed[p] \in {0, 1}
  BY <1>b, <1>9 DEF FiberInv, Data, NoWriteLost
<1>11. /\ DOMAIN mem' = Resident /\ IsFunctionTo(mem', Contents) /\ committed' \in [Pids -> Contents]
       /\ \A q \in Resident : \/ mem'[q] = mem[q] /\ committed'[q] = committed[q] /\ ~(q = p /\ w.mode = "X")
                              \/ q = p /\ w.mode = "X" /\ mem'[q] = committed'[q] /\ committed'[q] \in {0, 1}
       /\ \A q \in Pids \ Resident : committed'[q] = committed[q]
  <2>1. CASE w.mode # "X"
    BY <1>b, <1>9, <2>1
  <2>2. CASE w.mode = "X"
    <3>1. mem' = [mem EXCEPT ![p] = 1 - mem[p]] /\ committed' = [committed EXCEPT ![p] = 1 - committed[p]] /\ p \in Pids
      BY <1>b, <1>9, <2>2
    <3>2. 1 - mem[p] \in {0, 1} /\ 1 - committed[p] \in {0, 1} /\ 1 - mem[p] = 1 - committed[p]
      BY SMT, <1>10
    <3> DEFINE a == 1 - mem[p]
               b == 1 - committed[p]
    <3>3. a \in {0, 1} /\ b \in {0, 1} /\ a = b /\ a \in Contents /\ b \in Contents
      BY <3>2 DEF Contents
    <3>4. mem' = [mem EXCEPT ![p] = a] /\ committed' = [committed EXCEPT ![p] = b]
      BY <3>1
    <3> HIDE DEF a, b
    <3>5. DOMAIN mem' = Resident /\ mem'[p] = a /\ \A q \in Resident \ {p} : mem'[q] = mem[q]
      BY <1>b, <1>9, <3>4
    <3>6. committed' \in [Pids -> Contents] /\ committed'[p] = b /\ \A q \in Pids \ {p} : committed'[q] = committed[q]
      BY <1>9, <3>1, <3>3, <3>4
    <3>7. IsFunctionTo(mem', Contents)
      BY <1>9, <3>3, <3>5 DEF IsFunctionTo
    <3>8. \A q \in Resident \ {p} : committed'[q] = committed[q]
      BY <1>9, <3>6
    <3>9. \A q \in Pids \ Resident : committed'[q] = committed[q]
      BY <1>b, <3>6
    <3> QED BY <2>2, <3>3, <3>5, <3>6, <3>7, <3>8, <3>9
  <2> QED BY <2>1, <2>2
<1>12. TypeOK'
  BY <1>a, <1>b, <1>1, <1>3, <1>4, <1>5, <1>7, <1>9, <1>11 DEF TypeOK, SubmitState
<1>13. Queues'
  BY <1>4, <1>7 DEF Queues
<1>14. Pages'
  <2>1. \A q \in Resident : IsInjective(waiting'[q])
    BY <1>b DEF FiberInv, Pages, PageFacts
  <2> QED BY <1>b, <1>1, <1>3, <1>6, <1>8, <1>9, <2>1, ClientPages
<1>15. Readers'
  <2>1. ClientFacts(f)'
    BY <1>5 DEF ClientFacts
  <2>2. at'[f] # "reading"
    BY <1>5
  <2> QED BY <1>b, <1>1, <1>3, <1>6, <2>1, <2>2, ClientReaders
<1>16. Waits'
  BY <1>1, <1>3, <1>6, <1>8, ClientWaits
<1>17. Ios'
  BY <1>1, <1>6, <1>7, ClientIos
<1>18. Places'
  <2>1. Placed(f)'
    BY <1>2, <1>4 DEF Placed
  <2> QED BY <1>1, <1>3, <1>6, <1>7, <1>8, <2>1, ClientPlaces
<1>19. Data'
  <2>1. at'[f] # "reading"
    BY <1>5
  <2>2. \A q \in Resident :
              \/ /\ mem'[q] = mem[q] /\ committed'[q] = committed[q]
                 /\ (table'[q].dirty <=> table[q].dirty) /\ table'[q].io_lock = table[q].io_lock
              \/ /\ mem'[q] = committed'[q] /\ committed'[q] \in {0, 1}
                 /\ table'[q].dirty /\ ~table'[q].io_lock /\ ~table[q].io_lock
    BY ZenonT(40), <1>b, <1>3, <1>11, ZenonT(30)
  <2> QED BY <1>b, <1>1, <1>3, <1>6, <1>7, <1>9, <1>11, <2>1, <2>2, ClientData
<1>20. FrameCount'
  BY <1>a, <1>b, <1>3 DEF FrameCount
<1> QED BY <1>7, <1>12, <1>13, <1>14, <1>15, <1>16, <1>17, <1>18, <1>19, <1>20, InvParts

(* A step that wakes the evictor if frames are short. *)
LEMMA Awake ==
    ASSUME FiberInv, NEW wk, wk = ensureFreePages, AwakeAfter(wk)
    PROVE  running' \in BOOLEAN /\ (running' <=> running \/ Evictor \in Range(wk))
<1>1. wk # <<>> <=> Evictor \in Range(wk)
  BY WokenFacts, InvTypes
<1>2. running \in BOOLEAN
  BY InvTypes DEF TypeOK
<1>3. running' = (running \/ wk # <<>>)
  BY DEF AwakeAfter
<1> QED BY <1>1, <1>2, <1>3

LEMMA WokenYield ==
    ASSUME FiniteFacts, FiberInv, NEW f \in Clients, Runs(f), Yield(f, ensureFreePages), AwakeAfter(ensureFreePages)
    PROVE  /\ ready' \in Seq(Fibers) /\ IsInjective(ready') /\ turn' <= Len(ready')
           /\ turn' \in 0 .. Cardinality(Fibers)
           /\ Range(ready) \subseteq Range(ready') /\ Range(ready') \subseteq Range(ready) \cup {Evictor}
           /\ Evictor \in Range(ready') \ Range(ready) => ~running
           /\ running' <=> running \/ Evictor \in Range(ready') \ Range(ready)
           /\ running' \in BOOLEAN
<1> DEFINE wk == ensureFreePages
<1>1. wk = ensureFreePages /\ Yield(f, wk) /\ AwakeAfter(wk)
  OBVIOUS
<1> HIDE DEF wk
<1>2. TypeOK /\ Queues /\ Places /\ f \in Fibers
  BY InvTypes, ClientIsFiber
<1>3. /\ wk \in Seq(Fibers) /\ IsInjective(wk) /\ Range(wk) \cap Range(ready) = {}
      /\ Range(wk) \subseteq {Evictor} /\ (wk # <<>> <=> Evictor \in Range(wk))
      /\ wk # <<>> => ~running
  BY <1>1, <1>2, WokenFacts
<1>4. running' \in BOOLEAN /\ (running' <=> running \/ Evictor \in Range(wk))
  BY <1>1, Awake
<1>5. /\ ready' \in Seq(Fibers) /\ IsInjective(ready') /\ turn' <= Len(ready')
      /\ turn' \in 0 .. Cardinality(Fibers) /\ Range(ready') = Range(ready) \cup Range(wk)
  BY <1>1, <1>2, <1>3, YieldMoves
<1> QED BY <1>3, <1>4, <1>5

LEMMA WokenPark ==
    ASSUME FiniteFacts, FiberInv, NEW f \in Clients, Runs(f), Park(ensureFreePages), AwakeAfter(ensureFreePages)
    PROVE  /\ ready' \in Seq(Fibers) /\ IsInjective(ready') /\ turn' <= Len(ready')
           /\ turn' \in 0 .. Cardinality(Fibers)
           /\ Range(ready) \ {f} \subseteq Range(ready') /\ Range(ready') \subseteq Range(ready) \cup {Evictor}
           /\ f \notin Range(ready')
           /\ Evictor \in Range(ready') \ Range(ready) => ~running
           /\ running' <=> running \/ Evictor \in Range(ready') \ Range(ready)
           /\ running' \in BOOLEAN
<1> DEFINE wk == ensureFreePages
<1>1. wk = ensureFreePages /\ Park(wk) /\ AwakeAfter(wk)
  OBVIOUS
<1> HIDE DEF wk
<1>2. TypeOK /\ Queues /\ Places /\ f \in Fibers /\ f # Evictor
  BY InvTypes, ClientIsFiber
<1>3. /\ wk \in Seq(Fibers) /\ IsInjective(wk) /\ Range(wk) \cap Range(ready) = {}
      /\ Range(wk) \subseteq {Evictor} /\ (wk # <<>> <=> Evictor \in Range(wk))
      /\ wk # <<>> => ~running
  BY <1>1, <1>2, WokenFacts
<1>4. running' \in BOOLEAN /\ (running' <=> running \/ Evictor \in Range(wk))
  BY <1>1, Awake
<1>5. /\ ready' \in Seq(Fibers) /\ IsInjective(ready') /\ turn' <= Len(ready')
      /\ turn' \in 0 .. Cardinality(Fibers) /\ Range(ready') = (Range(ready) \ {f}) \cup Range(wk)
  BY <1>1, <1>2, <1>3, ParkMoves
<1> QED BY <1>2, <1>3, <1>4, <1>5

LEMMA NoFrameStep ==
    ASSUME FiniteFacts, FiberInv, NEW f \in Clients, NEW w \in Wants, NoFrame(f, w)
    PROVE  FiberInv'
<1>a. TypeOK /\ Queues /\ Places /\ FrameCount
  BY InvTypes, InvFrames
<1>b. /\ Attempt(f, w) /\ table' = Marked(table)
      /\ at' = [at EXCEPT ![f] = "retry"] /\ want' = [want EXCEPT ![f] = w]
      /\ Yield(f, ensureFreePages) /\ AwakeAfter(ensureFreePages)
      /\ free' = free /\ waiting' = waiting /\ allocated' = allocated /\ mem' = mem /\ disk' = disk
      /\ committed' = committed /\ UNCHANGED ioVars
      /\ toEvict' = toEvict /\ toWrite' = toWrite /\ cq' = cq
  BY DEF NoFrame, evictVars, dataVars
<1>1. /\ Runs(f) /\ at[f] # "reading" /\ ops' \in 0 .. MaxOps
      /\ \/ w.pid \in allocated /\ w.mode # "A"
         \/ w.pid = NoPid /\ w.mode = "A"
  BY <1>b, AttemptFacts
<1>2. f \in Fibers /\ f # Evictor /\ f \in Range(ready)
  BY <1>1, RunningFacts
<1>3. /\ Resident' = Resident /\ IsFunctionTo(table', Flags)
      /\ \A q \in Resident : /\ table'[q].evicting = table[q].evicting /\ table'[q].io_lock = table[q].io_lock
                             /\ table'[q].dirty <=> table[q].dirty
  BY <1>b, MarkedTable DEF Resident
<1>4. /\ ready' \in Seq(Fibers) /\ IsInjective(ready') /\ turn' <= Len(ready')
      /\ turn' \in 0 .. Cardinality(Fibers)
      /\ Range(ready) \subseteq Range(ready') /\ Range(ready') \subseteq Range(ready) \cup {Evictor}
      /\ Evictor \in Range(ready') \ Range(ready) => ~running
      /\ running' <=> running \/ Evictor \in Range(ready') \ Range(ready)
      /\ running' \in BOOLEAN
  BY <1>b, <1>1, WokenYield
<1>5. /\ at' \in [Fibers -> {"start", "retry", "reading", "loop", "claimed", "written"}]
      /\ want' \in [Clients -> Wants] /\ at'[f] = "retry" /\ want'[f] = w
      /\ \A g \in Fibers \ {f} : at'[g] = at[g]
      /\ \A g \in Clients \ {f} : want'[g] = want[g]
  BY <1>a, <1>b, ClientMoves
<1>6. Others(f)
  BY <1>b, <1>4, <1>5 DEF Others
<1>7. /\ queued' \subseteq IO /\ inflight' \subseteq IO
      /\ queued' \cap inflight' = {} /\ (queued' \cup inflight') \cap Range(cq') = {}
      /\ queued' = queued /\ inflight' = inflight
      /\ Pending' = Pending /\ SubmitState'
  BY <1>b, SameIo
<1>8. \A q \in Resident : Behind(q)' = Behind(q)
  BY <1>b DEF Behind
<1>9. Resident \subseteq allocated
  BY DEF FiberInv, Pages
<1>10. TypeOK'
  BY <1>a, <1>b, <1>1, <1>3, <1>4, <1>5, <1>7 DEF TypeOK, SubmitState
<1>11. Queues'
  BY <1>4, <1>7 DEF Queues
<1>12. Pages'
  <2>1. \A q \in Resident : IsInjective(waiting'[q])
    BY <1>b DEF FiberInv, Pages, PageFacts
  <2> QED BY <1>b, <1>1, <1>3, <1>6, <1>8, <1>9, <2>1, ClientPages
<1>13. at'[f] # "reading"
  BY <1>5
<1>14. Readers'
  <2>1. ClientFacts(f)'
    BY <1>b, <1>1, <1>5 DEF ClientFacts
  <2> QED BY <1>b, <1>1, <1>3, <1>6, <1>13, <2>1, ClientReaders, ZenonT(30)
<1>15. Waits'
  BY <1>1, <1>3, <1>6, <1>8, ClientWaits
<1>16. Ios'
  BY <1>1, <1>6, <1>7, ClientIos
<1>17. Places'
  <2>1. Placed(f)'
    BY <1>2, <1>4 DEF Placed
  <2> QED BY <1>1, <1>3, <1>6, <1>7, <1>8, <2>1, ClientPlaces
<1>18. Data'
  BY <1>b, <1>1, <1>3, <1>6, <1>7, <1>9, <1>13, ClientData
<1>19. FrameCount'
  BY <1>a, <1>b, <1>3 DEF FrameCount
<1> QED BY <1>7, <1>10, <1>11, <1>12, <1>14, <1>15, <1>16, <1>17, <1>18, <1>19, InvParts

LEMMA handleWaitStep ==
    ASSUME FiniteFacts, FiberInv, NEW f \in Clients, NEW w \in Wants, handleWait(f, w)
    PROVE  FiberInv'
<1> DEFINE p == w.pid
<1>a. TypeOK /\ Queues /\ Places /\ FrameCount
  BY InvTypes, InvFrames
<1>b. /\ Attempt(f, w) /\ p \in Resident /\ table[p].io_lock /\ table' = Marked(table)
      /\ waiting' = [waiting EXCEPT ![p] = <<f>> \o waiting[p]]
      /\ at' = [at EXCEPT ![f] = "retry"] /\ want' = [want EXCEPT ![f] = w]
      /\ Park(<< >>)
      /\ free' = free /\ allocated' = allocated /\ mem' = mem /\ disk' = disk
      /\ committed' = committed /\ UNCHANGED ioVars
      /\ toEvict' = toEvict /\ toWrite' = toWrite /\ running' = running /\ cq' = cq
  BY DEF handleWait, evictVars, dataVars
<1>0. w.pid = p
  OBVIOUS
<1> HIDE DEF p
<1>1. /\ Runs(f) /\ at[f] # "reading" /\ ops' \in 0 .. MaxOps
      /\ \/ w.pid \in allocated /\ w.mode # "A"
         \/ w.pid = NoPid /\ w.mode = "A"
  BY <1>b, AttemptFacts
<1>2. f \in Fibers /\ f # Evictor /\ f \in Range(ready) /\ f \notin Behind(p)
  BY <1>b, <1>1, RunningFacts
<1>3. /\ Resident' = Resident /\ IsFunctionTo(table', Flags)
      /\ \A q \in Resident : /\ table'[q].evicting = table[q].evicting /\ table'[q].io_lock = table[q].io_lock
                             /\ table'[q].dirty <=> table[q].dirty
  BY <1>b, MarkedTable DEF Resident
<1>4. /\ ready' \in Seq(Fibers) /\ IsInjective(ready') /\ turn' <= Len(ready')
      /\ turn' \in 0 .. Cardinality(Fibers) /\ Range(ready') = Range(ready) \ {f}
  <2> DEFINE wk == << >>
  <2>1. wk \in Seq(Fibers) /\ IsInjective(wk) /\ Range(wk) \cap Range(ready) = {} /\ Range(wk) = {} /\ Park(wk)
    BY <1>b, NobodyWoken
  <2> HIDE DEF wk
  <2> QED BY <1>a, <1>1, <1>2, <2>1, ParkMoves
<1>5. /\ at' \in [Fibers -> {"start", "retry", "reading", "loop", "claimed", "written"}]
      /\ want' \in [Clients -> Wants] /\ at'[f] = "retry" /\ want'[f] = w
      /\ \A g \in Fibers \ {f} : at'[g] = at[g]
      /\ \A g \in Clients \ {f} : want'[g] = want[g]
  BY <1>a, <1>b, ClientMoves
<1>6. Others(f)
  BY <1>b, <1>4, <1>5 DEF Others
<1>7. /\ queued' \subseteq IO /\ inflight' \subseteq IO
      /\ queued' \cap inflight' = {} /\ (queued' \cup inflight') \cap Range(cq') = {}
      /\ queued' = queued /\ inflight' = inflight
      /\ Pending' = Pending /\ SubmitState'
  BY <1>b, SameIo
<1>8. DOMAIN waiting = Resident /\ IsFunctionTo(waiting, Seq(Clients)) /\ \A q \in Resident : IsInjective(waiting[q])
  BY <1>a DEF TypeOK, FiberInv, Pages, PageFacts
<1>9. /\ waiting'[p] \in Seq(Clients) /\ IsInjective(waiting'[p]) /\ Behind(p)' = Behind(p) \cup {f}
      /\ DOMAIN waiting' = Resident
      /\ \A q \in Resident \ {p} : waiting'[q] = waiting[q] /\ Behind(q)' = Behind(q)
  <2> DEFINE old == waiting[p]
             one == <<f>>
             new == one \o old
  <2>1. old \in Seq(Clients) /\ IsInjective(old) /\ Range(old) = Behind(p)
    BY <1>b, <1>8 DEF IsFunctionTo, Behind
  <2>2. one \in Seq(Clients) /\ Range(one) = {f} /\ IsInjective(one)
    BY OneOnce
  <2>3. waiting' = [waiting EXCEPT ![p] = new]
    BY <1>b
  <2> HIDE DEF old, one
  <2>4. new \in Seq(Clients) /\ Range(new) = {f} \cup Behind(p) /\ IsInjective(new)
    <3>1. Range(one) \cap Range(old) = {}
      BY <1>2, <2>1, <2>2
    <3>2. Range(new) = Range(one) \cup Range(old) /\ new \in Seq(Clients) /\ IsInjective(new)
      BY SMT, <2>1, <2>2, <3>1, CatOnce
    <3> QED BY <2>1, <2>2, <3>2
  <2> HIDE DEF new
  <2>5. waiting'[p] = new /\ DOMAIN waiting' = Resident /\ \A q \in Resident \ {p} : waiting'[q] = waiting[q]
    BY <1>b, <1>8, <2>3
  <2> QED BY <2>4, <2>5 DEF Behind
<1>10. Resident \subseteq allocated
  BY DEF FiberInv, Pages
<1>11. IsFunctionTo(waiting', Seq(Clients))
  BY <1>8, <1>9 DEF IsFunctionTo
<1>12. TypeOK'
  BY <1>a, <1>b, <1>1, <1>3, <1>4, <1>5, <1>7, <1>9, <1>11 DEF TypeOK, SubmitState
<1>13. Queues'
  BY <1>4, <1>7 DEF Queues
<1>14. Pages'
  <2>1. \A q \in Resident : IsInjective(waiting'[q]) /\ (table[q].io_lock \/ Behind(q)' = Behind(q))
    BY <1>b, <1>8, <1>9
  <2> QED BY <1>b, <1>1, <1>3, <1>6, <1>10, <2>1, ClientPages
<1>15. at'[f] # "reading"
  BY <1>5
<1>16. Readers'
  <2>1. ClientFacts(f)'
    BY <1>b, <1>1, <1>5 DEF ClientFacts
  <2> QED BY <1>b, <1>1, <1>3, <1>6, <1>15, <2>1, ClientReaders
<1>17. Waits'
  <2>1. f \notin Range(ready')
    BY <1>4
  <2> QED BY ZenonT(40), <1>0, <1>1, <1>3, <1>5, <1>6, <1>9, <2>1, ClientWaits, ZenonT(30)
<1>18. Ios'
  BY <1>1, <1>6, <1>7, ClientIos
<1>19. Places'
  <2>1. Placed(f)'
    BY <1>b, <1>3, <1>9 DEF Placed
  <2>2. \A q \in Resident : Behind(q) \subseteq Behind(q)'
    BY <1>9
  <2> QED BY <1>1, <1>3, <1>6, <1>7, <2>1, <2>2, ClientPlaces
<1>20. Data'
  BY <1>b, <1>1, <1>3, <1>6, <1>7, <1>10, <1>15, ClientData
<1>21. FrameCount'
  BY <1>a, <1>b, <1>3 DEF FrameCount
<1> QED BY <1>7, <1>12, <1>13, <1>14, <1>16, <1>17, <1>18, <1>19, <1>20, <1>21, InvParts

LEMMA handleFaultStep ==
    ASSUME FiniteFacts, FiberInv, NEW f \in Clients, NEW w \in Wants, handleFault(f, w)
    PROVE  FiberInv'
<1> DEFINE p == w.pid
           io == [op |-> f, pid |-> p]
           flags == [dirty |-> FALSE, evicting |-> FALSE, io_lock |-> TRUE, marked |-> TRUE]
           q0 == queued \cup {io}
           n0 == toSubmit + 1
<1>a. TypeOK /\ Queues /\ Places /\ FrameCount /\ SubmitState
  BY InvTypes, InvFrames
<1>b. /\ Attempt(f, w) /\ p \notin Resident /\ w.mode # "A" /\ free > 0 /\ free' = free - 1
      /\ table' = With(Marked(table), p, flags)
      /\ waiting' = With(waiting, p, << >>)
      /\ mem' = With(mem, p, Garbage)
      /\ check_submit(q0, n0)
      /\ at' = [at EXCEPT ![f] = "reading"] /\ want' = [want EXCEPT ![f] = w]
      /\ Park(ensureFreePages) /\ AwakeAfter(ensureFreePages)
      /\ allocated' = allocated /\ disk' = disk /\ committed' = committed
      /\ toEvict' = toEvict /\ toWrite' = toWrite /\ cq' = cq
  BY DEF handleFault, evictVars
<1>0. w.pid = p /\ flags \in Flags /\ ~flags.dirty /\ ~flags.evicting /\ flags.io_lock
  BY DEF Flags
<1>1. /\ Runs(f) /\ at[f] # "reading" /\ ops' \in 0 .. MaxOps /\ p \in allocated
  BY <1>b, AttemptFacts
<1>2. f \in Fibers /\ f # Evictor /\ f \in Range(ready) /\ \A x \in Pending : x.op # f
  BY <1>1, RunningFacts
<1>3. p \in Pids /\ Resident \subseteq allocated /\ allocated \subseteq Pids
  BY <1>a, <1>1 DEF TypeOK, FiberInv, Pages
<1>4. io \in IO /\ io \notin Pending /\ io.op = f /\ io.pid = p
  BY <1>2, <1>3 DEF IO
<1> HIDE DEF p, flags, io
<1>5. /\ Resident' = Resident \cup {p} /\ IsFunctionTo(table', Flags) /\ table'[p] = flags
      /\ \A q \in Resident : /\ table'[q].evicting = table[q].evicting /\ table'[q].io_lock = table[q].io_lock
                             /\ table'[q].dirty <=> table[q].dirty
  <2> DEFINE u == Marked(table)
  <2>1. /\ DOMAIN u = Resident /\ IsFunctionTo(u, Flags)
        /\ \A q \in Resident : /\ u[q].evicting = table[q].evicting /\ u[q].io_lock = table[q].io_lock
                               /\ u[q].dirty <=> table[q].dirty
    BY MarkedTable
  <2>2. table' = With(u, p, flags)
    BY <1>b
  <2> HIDE DEF u
  <2>3. DOMAIN table' = DOMAIN u \cup {p} /\ table'[p] = flags /\ \A q \in DOMAIN u : q # p => table'[q] = u[q]
    BY <2>2 DEF With
  <2>4. \A q \in Resident : table'[q] = u[q]
    BY <1>b, <2>1, <2>3
  <2>5. IsFunctionTo(table', Flags)
    BY <1>0, <2>1, <2>3, <2>4 DEF IsFunctionTo
  <2>6. \A q \in Resident : /\ table'[q].evicting = table[q].evicting /\ table'[q].io_lock = table[q].io_lock
                            /\ table'[q].dirty <=> table[q].dirty
    BY <2>1, <2>4
  <2> QED BY <2>1, <2>3, <2>5, <2>6 DEF Resident
<1>6. /\ DOMAIN waiting = Resident /\ IsFunctionTo(waiting, Seq(Clients)) /\ DOMAIN mem = Resident
      /\ IsFunctionTo(mem, Contents) /\ \A q \in Resident : IsInjective(waiting[q])
  BY <1>a DEF TypeOK, FiberInv, Pages, PageFacts
<1>7. /\ DOMAIN waiting' = Resident \cup {p} /\ waiting'[p] = << >> /\ \A q \in Resident : waiting'[q] = waiting[q]
      /\ DOMAIN mem' = Resident \cup {p} /\ mem'[p] = Garbage /\ \A q \in Resident : mem'[q] = mem[q]
  <2>1. DOMAIN waiting' = DOMAIN waiting \cup {p} /\ waiting'[p] = << >> /\ \A q \in DOMAIN waiting : q # p => waiting'[q] = waiting[q]
    BY <1>b DEF With
  <2>2. DOMAIN mem' = DOMAIN mem \cup {p} /\ mem'[p] = Garbage /\ \A q \in DOMAIN mem : q # p => mem'[q] = mem[q]
    BY <1>b DEF With
  <2> QED BY <1>b, <1>6, <2>1, <2>2
<1>8. << >> \in Seq(Clients) /\ Range(<< >>) = {} /\ IsInjective(<< >>) /\ Garbage \in Contents
  BY EmptyOnce DEF Contents
<1>9. IsFunctionTo(waiting', Seq(Clients)) /\ IsFunctionTo(mem', Contents)
      /\ Behind(p)' = {} /\ IsInjective(waiting'[p])
      /\ \A q \in Resident : Behind(q)' = Behind(q) /\ IsInjective(waiting'[q])
  BY <1>6, <1>7, <1>8 DEF IsFunctionTo, Behind
<1>10. /\ ready' \in Seq(Fibers) /\ IsInjective(ready') /\ turn' <= Len(ready')
       /\ turn' \in 0 .. Cardinality(Fibers)
       /\ Range(ready) \ {f} \subseteq Range(ready') /\ Range(ready') \subseteq Range(ready) \cup {Evictor}
       /\ f \notin Range(ready')
       /\ Evictor \in Range(ready') \ Range(ready) => ~running
       /\ running' <=> running \/ Evictor \in Range(ready') \ Range(ready)
       /\ running' \in BOOLEAN
  BY <1>b, <1>1, WokenPark
<1>11. /\ at' \in [Fibers -> {"start", "retry", "reading", "loop", "claimed", "written"}]
       /\ want' \in [Clients -> Wants] /\ at'[f] = "reading" /\ want'[f] = w
       /\ \A g \in Fibers \ {f} : at'[g] = at[g]
       /\ \A g \in Clients \ {f} : want'[g] = want[g]
  BY <1>a, <1>b, ClientMoves
<1>12. Others(f)
  BY <1>b, <1>10, <1>11 DEF Others
<1>13. /\ n0 \in Nat /\ n0 # 0 /\ IsFiniteSet(q0) /\ n0 = Cardinality(q0)
  <2>1. toSubmit \in Nat /\ IsFiniteSet(queued) /\ toSubmit = Cardinality(queued) /\ io \notin queued
    BY <1>a, <1>4 DEF SubmitState, Pending
  <2>2. IsFiniteSet(queued \cup {io}) /\ Cardinality(queued \cup {io}) = Cardinality(queued) + 1
    BY <2>1 DEF FiniteFacts, AddFact
  <2> QED BY SMT, <2>1, <2>2
<1>14. queued \subseteq q0 /\ q0 \subseteq IO /\ q0 \cap inflight = {} /\ q0 \cap Range(cq) = {} /\ io \in q0
       /\ q0 \cup inflight \cup Range(cq) = Pending \cup {io}
  BY <1>a, <1>4 DEF Queues, TypeOK, Pending
<1>n. n0 = toSubmit + 1 /\ \A x \in q0 : x \in queued \/ x = io
  OBVIOUS
<1> HIDE DEF q0, n0
<1>15. /\ queued' \cup inflight' = q0 \cup inflight /\ queued' \cap inflight' = {}
       /\ queued' \subseteq q0 /\ inflight \subseteq inflight'
  BY <1>b, <1>13, <1>14, SubmitMoves
<1>16. SubmitState'
  BY <1>a, <1>b, <1>13, <1>n, SubmitCounts
<1>17. /\ queued' \subseteq IO /\ inflight' \subseteq IO
       /\ queued' \cap inflight' = {} /\ (queued' \cup inflight') \cap Range(cq') = {}
       /\ Pending' = Pending \cup {io}
  <2>1. /\ queued' \subseteq IO /\ inflight' \subseteq IO
        /\ queued' \cap inflight' = {} /\ (queued' \cup inflight') \cap Range(cq') = {}
        /\ Pending' = q0 \cup inflight \cup Range(cq)
    BY <1>a, <1>b, <1>14, <1>15, SubmitIos, ZenonT(30)
  <2> QED BY <1>14, <2>1
<1>18. FrameCount' /\ free' \in 0 .. NumFrames /\ Resident' \subseteq Pids
  BY <1>a, <1>b, <1>3, <1>5, AddPage
<1>19. TypeOK'
  BY <1>a, <1>b, <1>1, <1>5, <1>7, <1>9, <1>10, <1>11, <1>16, <1>17, <1>18 DEF TypeOK, SubmitState
<1>20. Queues'
  BY <1>10, <1>17 DEF Queues
<1>21. \A q \in Resident' \ Resident : q = p
  BY <1>5
<1>22. table'[p].io_lock /\ ~table'[p].dirty /\ ~table'[p].evicting
  BY <1>0, <1>5
<1>23. Resident \subseteq Resident' /\ Resident' \subseteq allocated'
  BY <1>b, <1>1, <1>3, <1>5
<1>24. Pages'
  <2>1. \A q \in Resident : /\ table'[q].evicting = table[q].evicting /\ table'[q].io_lock = table[q].io_lock
                            /\ table'[q].dirty => table[q].dirty \/ ~table[q].io_lock
                            /\ IsInjective(waiting'[q])
                            /\ table[q].io_lock \/ Behind(q)' = Behind(q)
    BY <1>5, <1>9
  <2>2. \A q \in Resident' \ Resident : /\ ~table'[q].evicting /\ Behind(q)' = {} /\ IsInjective(waiting'[q])
                                        /\ table'[q].io_lock => /\ ~table'[q].dirty
                                                                /\ at'[f] = "reading" /\ want'[f].pid = q
    BY <1>0, <1>9, <1>11, <1>21, <1>22
  <2> QED BY <1>1, <1>12, <1>23, <2>1, <2>2, ClientPages
<1>25. Readers'
  <2>1. ClientFacts(f)'
    BY ZenonT(40), <1>b, <1>0, <1>1, <1>5, <1>11, <1>22 DEF ClientFacts
  <2> QED BY <1>b, <1>0, <1>1, <1>5, <1>11, <1>12, <1>23, <2>1, ClientReaders, ZenonT(30)
<1>26. Waits'
  BY <1>1, <1>5, <1>9, <1>12, ClientWaits
<1>27. Ios'
  <2>1. \A x \in queued' : x \in queued \/ x.op = f
    BY <1>4, <1>15, <1>n
  <2>2. \A x \in Pending' : \/ x \in Pending
                            \/ x.op = f /\ at'[f] = "reading" /\ want'[f].pid = x.pid /\ f \notin Range(ready')
    BY <1>0, <1>4, <1>10, <1>11, <1>17
  <2> QED BY <1>1, <1>12, <2>1, <2>2, ClientIos
<1>28. Places'
  <2>1. Placed(f)'
    <3>1. io \in queued' \cup inflight' \cup Range(cq')
      BY <1>14, <1>15
    <3>2. f \in Outstanding'
      BY <1>4, <3>1 DEF Outstanding
    <3> QED BY <3>2 DEF Placed
  <2>2. \A q \in Resident : Behind(q) \subseteq Behind(q)'
    BY <1>9
  <2> QED BY <1>1, <1>12, <1>17, <1>23, <2>1, <2>2, ClientPlaces
<1>29. Data'
  <2>1. queued \cup inflight \subseteq queued' \cup inflight'
    BY <1>14, <1>15
  <2>2. [op |-> f, pid |-> want'[f].pid] \in queued' \cup inflight'
    <3>1. io = [op |-> f, pid |-> want'[f].pid]
      BY <1>0, <1>11 DEF io
    <3> QED BY <1>14, <1>15, <3>1
  <2>3. \A q \in Resident :
              /\ mem'[q] = mem[q] /\ committed'[q] = committed[q]
              /\ (table'[q].dirty <=> table[q].dirty) /\ table'[q].io_lock = table[q].io_lock
    BY <1>b, <1>5, <1>7
  <2>4. \A q \in allocated \ Resident : committed'[q] = committed[q] /\ (q \in Resident' => table'[q].io_lock)
    BY <1>b, <1>21, <1>22
  <2> QED BY <1>b, <1>1, <1>12, <1>15, <1>23, <2>1, <2>2, <2>3, <2>4, ClientData
<1> QED BY <1>16, <1>18, <1>19, <1>20, <1>24, <1>25, <1>26, <1>27, <1>28, <1>29, InvParts

LEMMA allocPageStep ==
    ASSUME FiniteFacts, FiberInv, NEW f \in Clients, NEW w \in Wants, allocPage(f, w)
    PROVE  FiberInv'
<1> DEFINE flags == [dirty |-> TRUE, evicting |-> FALSE, io_lock |-> FALSE, marked |-> TRUE]
<1>a. TypeOK /\ Queues /\ Places /\ FrameCount /\ SubmitState
  BY InvTypes, InvFrames
<1>b. /\ Attempt(f, w) /\ free > 0 /\ free' = free - 1
      /\ check_submit(queued, toSubmit)
      /\ at' = [at EXCEPT ![f] = "start"] /\ want' = [want EXCEPT ![f] = Nothing]
      /\ Yield(f, ensureFreePages) /\ AwakeAfter(ensureFreePages)
      /\ disk' = disk /\ toEvict' = toEvict /\ toWrite' = toWrite /\ cq' = cq
  BY DEF allocPage, evictVars
<1>c. PICK p \in Pids \ allocated :
         /\ allocated' = allocated \cup {p}
         /\ table' = With(Marked(table), p, flags)
         /\ waiting' = With(waiting, p, << >>)
         /\ mem' = With(mem, p, 0) /\ committed' = [committed EXCEPT ![p] = 0]
  BY DEF allocPage
<1>0. flags \in Flags /\ flags.dirty /\ ~flags.evicting /\ ~flags.io_lock
  BY DEF Flags
<1>1. Runs(f) /\ at[f] # "reading" /\ ops' \in 0 .. MaxOps
  BY <1>b, AttemptFacts
<1>2. f \in Fibers /\ f # Evictor /\ f \in Range(ready)
  BY <1>1, RunningFacts
<1>3. p \in Pids /\ p \notin Resident /\ Resident \subseteq allocated /\ allocated \subseteq Pids
  BY <1>a, <1>c DEF TypeOK, FiberInv, Pages
<1> HIDE DEF flags
<1>5. /\ Resident' = Resident \cup {p} /\ IsFunctionTo(table', Flags) /\ table'[p] = flags
      /\ \A q \in Resident : /\ table'[q].evicting = table[q].evicting /\ table'[q].io_lock = table[q].io_lock
                             /\ table'[q].dirty <=> table[q].dirty
  <2> DEFINE u == Marked(table)
  <2>1. /\ DOMAIN u = Resident /\ IsFunctionTo(u, Flags)
        /\ \A q \in Resident : /\ u[q].evicting = table[q].evicting /\ u[q].io_lock = table[q].io_lock
                               /\ u[q].dirty <=> table[q].dirty
    BY MarkedTable
  <2>2. table' = With(u, p, flags)
    BY <1>c
  <2> HIDE DEF u
  <2>3. DOMAIN table' = DOMAIN u \cup {p} /\ table'[p] = flags /\ \A q \in DOMAIN u : q # p => table'[q] = u[q]
    BY <2>2 DEF With
  <2>4. \A q \in Resident : table'[q] = u[q]
    BY <1>3, <2>1, <2>3
  <2>5. IsFunctionTo(table', Flags)
    BY <1>0, <2>1, <2>3, <2>4 DEF IsFunctionTo
  <2>6. \A q \in Resident : /\ table'[q].evicting = table[q].evicting /\ table'[q].io_lock = table[q].io_lock
                            /\ table'[q].dirty <=> table[q].dirty
    BY <2>1, <2>4
  <2> QED BY <2>1, <2>3, <2>5, <2>6 DEF Resident
<1>6. /\ DOMAIN waiting = Resident /\ IsFunctionTo(waiting, Seq(Clients)) /\ DOMAIN mem = Resident
      /\ IsFunctionTo(mem, Contents) /\ \A q \in Resident : IsInjective(waiting[q])
  BY <1>a DEF TypeOK, FiberInv, Pages, PageFacts
<1>7. /\ DOMAIN waiting' = Resident \cup {p} /\ waiting'[p] = << >> /\ \A q \in Resident : waiting'[q] = waiting[q]
      /\ DOMAIN mem' = Resident \cup {p} /\ mem'[p] = 0 /\ \A q \in Resident : mem'[q] = mem[q]
  <2>1. DOMAIN waiting' = DOMAIN waiting \cup {p} /\ waiting'[p] = << >> /\ \A q \in DOMAIN waiting : q # p => waiting'[q] = waiting[q]
    BY <1>c DEF With
  <2>2. DOMAIN mem' = DOMAIN mem \cup {p} /\ mem'[p] = 0 /\ \A q \in DOMAIN mem : q # p => mem'[q] = mem[q]
    BY <1>c DEF With
  <2> QED BY <1>3, <1>6, <2>1, <2>2
<1>8. << >> \in Seq(Clients) /\ Range(<< >>) = {} /\ IsInjective(<< >>) /\ 0 \in Contents /\ 0 \in {0, 1}
  BY EmptyOnce DEF Contents
<1>9. IsFunctionTo(waiting', Seq(Clients)) /\ IsFunctionTo(mem', Contents)
      /\ Behind(p)' = {} /\ IsInjective(waiting'[p])
      /\ \A q \in Resident : Behind(q)' = Behind(q) /\ IsInjective(waiting'[q])
  BY <1>6, <1>7, <1>8 DEF IsFunctionTo, Behind
<1>10. committed' \in [Pids -> Contents] /\ committed'[p] = 0 /\ \A q \in allocated : committed'[q] = committed[q]
  <2>1. committed \in [Pids -> Contents]
    BY <1>a DEF TypeOK
  <2> QED BY <1>c, <1>3, <1>8, <2>1
<1>11. /\ ready' \in Seq(Fibers) /\ IsInjective(ready') /\ turn' <= Len(ready')
       /\ turn' \in 0 .. Cardinality(Fibers)
       /\ Range(ready) \subseteq Range(ready') /\ Range(ready') \subseteq Range(ready) \cup {Evictor}
       /\ Evictor \in Range(ready') \ Range(ready) => ~running
       /\ running' <=> running \/ Evictor \in Range(ready') \ Range(ready)
       /\ running' \in BOOLEAN
  BY <1>b, <1>1, WokenYield
<1>12. /\ at' \in [Fibers -> {"start", "retry", "reading", "loop", "claimed", "written"}]
       /\ want' \in [Clients -> Wants] /\ at'[f] = "start"
       /\ \A g \in Fibers \ {f} : at'[g] = at[g]
       /\ \A g \in Clients \ {f} : want'[g] = want[g]
  BY <1>a, <1>b, ClientMoves, NothingIsWanted
<1>13. Others(f)
  BY <1>b, <1>11, <1>12 DEF Others
<1>14. /\ queued' \subseteq IO /\ inflight' \subseteq IO
       /\ queued' \cap inflight' = {} /\ (queued' \cup inflight') \cap Range(cq') = {}
       /\ queued' \cup inflight' = queued \cup inflight /\ queued' \subseteq queued /\ inflight \subseteq inflight'
       /\ Pending' = Pending /\ SubmitState'
  BY <1>b, NoIo
<1>15. FrameCount' /\ free' \in 0 .. NumFrames /\ Resident' \subseteq Pids
  BY <1>a, <1>b, <1>3, <1>5, AddPage
<1>16. allocated' \subseteq Pids
  BY <1>c, <1>3
<1>17. TypeOK'
  BY <1>a, <1>b, <1>1, <1>5, <1>7, <1>9, <1>10, <1>11, <1>12, <1>14, <1>15, <1>16 DEF TypeOK, SubmitState
<1>18. Queues'
  BY <1>11, <1>14 DEF Queues
<1>19. \A q \in Resident' \ Resident : q = p
  BY <1>5
<1>20. ~table'[p].io_lock /\ table'[p].dirty /\ ~table'[p].evicting
  BY <1>0, <1>5
<1>21. Resident \subseteq Resident' /\ Resident' \subseteq allocated' /\ allocated \subseteq allocated'
  BY <1>c, <1>3, <1>5
<1>22. Pages'
  <2>1. \A q \in Resident : /\ table'[q].evicting = table[q].evicting /\ table'[q].io_lock = table[q].io_lock
                            /\ table'[q].dirty => table[q].dirty \/ ~table[q].io_lock
                            /\ IsInjective(waiting'[q])
                            /\ table[q].io_lock \/ Behind(q)' = Behind(q)
    BY <1>5, <1>9
  <2>2. \A q \in Resident' \ Resident : /\ ~table'[q].evicting /\ Behind(q)' = {} /\ IsInjective(waiting'[q])
                                        /\ table'[q].io_lock => /\ ~table'[q].dirty
                                                                /\ at'[f] = "reading" /\ want'[f].pid = q
    BY <1>9, <1>19, <1>20
  <2> QED BY <1>1, <1>13, <1>21, <2>1, <2>2, ClientPages
<1>23. at'[f] # "reading"
  BY <1>12
<1>24. Readers'
  <2>1. ClientFacts(f)'
    BY <1>12 DEF ClientFacts
  <2> QED BY <1>1, <1>5, <1>13, <1>21, <1>23, <2>1, ClientReaders
<1>25. Waits'
  BY <1>1, <1>5, <1>9, <1>13, ClientWaits
<1>26. Ios'
  BY <1>1, <1>13, <1>14, ClientIos
<1>27. Places'
  <2>1. Placed(f)'
    BY <1>2, <1>11 DEF Placed
  <2>2. \A q \in Resident : Behind(q) \subseteq Behind(q)'
    BY <1>9
  <2> QED BY <1>1, <1>13, <1>14, <1>21, <2>1, <2>2, ClientPlaces
<1>28. Data'
  <2>1. \A q \in Resident :
              /\ mem'[q] = mem[q] /\ committed'[q] = committed[q]
              /\ (table'[q].dirty <=> table[q].dirty) /\ table'[q].io_lock = table[q].io_lock
    BY <1>3, <1>5, <1>7, <1>10
  <2>2. \A q \in allocated \ Resident : committed'[q] = committed[q] /\ (q \in Resident' => table'[q].io_lock)
    BY <1>c, <1>10, <1>19
  <2>3. \A q \in allocated' \ allocated :
           q \in Resident' /\ mem'[q] = committed'[q] /\ committed'[q] \in {0, 1} /\ table'[q].dirty
    BY <1>c, <1>5, <1>7, <1>8, <1>10, <1>20
  <2>4. queued \cup inflight \subseteq queued' \cup inflight'
    BY <1>14
  <2> QED BY <1>b, <1>1, <1>13, <1>14, <1>21, <1>23, <2>1, <2>2, <2>3, <2>4, ClientData
<1> QED BY <1>14, <1>15, <1>17, <1>18, <1>22, <1>24, <1>25, <1>26, <1>27, <1>28, InvParts

LEMMA ReadDoneStep ==
    ASSUME FiniteFacts, FiberInv, NEW f \in Clients, ReadDone(f)
    PROVE  FiberInv'
<1>p. PICK p : p = want[f].pid
  OBVIOUS
<1>a. TypeOK /\ Queues /\ Places /\ FrameCount
  BY InvTypes, InvFrames
<1>b. /\ Runs(f) /\ at[f] = "reading"
      /\ ready' = ready \o waiting[p] /\ waiting' = [waiting EXCEPT ![p] = << >>]
      /\ table' = [table EXCEPT ![p].io_lock = FALSE]
      /\ at' = [at EXCEPT ![f] = "retry"]
      /\ turn' = turn /\ want' = want /\ ops' = ops /\ free' = free /\ allocated' = allocated
      /\ mem' = mem /\ disk' = disk /\ committed' = committed /\ UNCHANGED ioVars
      /\ toEvict' = toEvict /\ toWrite' = toWrite /\ running' = running /\ cq' = cq
  BY <1>p DEF ReadDone, evictVars, dataVars
<1>0. want[f].pid = p /\ want'[f].pid = p
  BY <1>b, <1>p
<1>c. p \in Resident /\ table[p].io_lock /\ want[f].mode # "A"
  BY <1>b, <1>p DEF FiberInv, Readers, ClientFacts
<1>1. f \in Fibers /\ f # Evictor /\ f \in Range(ready) /\ at[Evictor] # "claimed"
      /\ (\A io \in Pending : io.op # f) /\ \A q \in Resident : f \notin Behind(q)
  BY <1>b, RunningFacts
<1>2. \A g \in Clients : at[g] = "reading" /\ want[g].pid = p => g = f
  BY <1>b, <1>p DEF FiberInv, Readers
<1>3. /\ DOMAIN waiting = Resident /\ IsFunctionTo(waiting, Seq(Clients)) /\ waiting[p] \in Seq(Clients)
      /\ IsInjective(waiting[p]) /\ Range(waiting[p]) = Behind(p)
      /\ \A q \in Resident : IsInjective(waiting[q])
  BY <1>a, <1>c DEF TypeOK, IsFunctionTo, FiberInv, Pages, PageFacts, Behind
<1>4. /\ ready' \in Seq(Fibers) /\ IsInjective(ready') /\ turn' <= Len(ready')
      /\ Range(ready') = Range(ready) \cup Behind(p)
  <2> DEFINE s == ready
             t == waiting[p]
  <2>1. s \in Seq(Fibers) /\ IsInjective(s) /\ turn <= Len(s) /\ turn \in 0 .. Cardinality(Fibers)
    BY <1>a DEF TypeOK, Queues
  <2>2. t \in Seq(Fibers) /\ IsInjective(t) /\ Range(t) = Behind(p)
    <3>1. Clients \subseteq Fibers
      BY DEF Fibers
    <3> QED BY SMT, <1>3, <3>1
  <2>3. Range(s) \cap Range(t) = {}
    BY <1>c, <2>2 DEF FiberInv, Waits
  <2>4. ready' = s \o t /\ turn' = turn
    BY <1>b
  <2> HIDE DEF s, t
  <2>5. s \o t \in Seq(Fibers) /\ IsInjective(s \o t) /\ Range(s \o t) = Range(s) \cup Range(t) /\ Len(s \o t) = Len(s) + Len(t)
    BY SMT, <2>1, <2>2, <2>3, CatOnce
  <2>6. Len(s) \in Nat /\ Len(t) \in Nat /\ turn \in Int
    BY SMT, <2>1, <2>2 DEF FiniteFacts, SizesFact
  <2>7. turn' <= Len(ready')
    BY SMT, <2>1, <2>4, <2>5, <2>6
  <2> QED BY <2>2, <2>4, <2>5, <2>7 DEF s
<1>5. /\ at' \in [Fibers -> {"start", "retry", "reading", "loop", "claimed", "written"}] /\ at'[f] = "retry"
      /\ \A g \in Fibers \ {f} : at'[g] = at[g]
  BY <1>a, <1>b, <1>1 DEF TypeOK
<1>6. /\ Resident' = Resident /\ IsFunctionTo(table', Flags) /\ ~table'[p].io_lock
      /\ table'[p].evicting = table[p].evicting /\ table'[p].dirty = table[p].dirty
      /\ \A q \in Resident \ {p} : table'[q] = table[q]
  <2>1. table[p] \in Flags /\ IsFunctionTo(table, Flags) /\ p \in DOMAIN table
    BY <1>a, <1>c DEF TypeOK, IsFunctionTo, Resident
  <2>2. DOMAIN table' = DOMAIN table /\ table'[p] = [table[p] EXCEPT !.io_lock = FALSE]
        /\ \A q \in DOMAIN table \ {p} : table'[q] = table[q]
    BY <1>b, <2>1
  <2>3. table'[p] \in Flags /\ ~table'[p].io_lock /\ table'[p].evicting = table[p].evicting
        /\ table'[p].dirty = table[p].dirty
    BY <2>1, <2>2 DEF Flags
  <2> QED BY <2>1, <2>2, <2>3 DEF IsFunctionTo, Resident
<1>7. << >> \in Seq(Clients) /\ Range(<< >>) = {} /\ IsInjective(<< >>)
  BY EmptyOnce
<1>8. /\ DOMAIN waiting' = Resident /\ waiting'[p] = << >> /\ \A q \in Resident \ {p} : waiting'[q] = waiting[q]
  BY <1>b, <1>c, <1>3
<1>9. /\ IsFunctionTo(waiting', Seq(Clients)) /\ Behind(p)' = {}
      /\ (\A q \in Resident \ {p} : Behind(q)' = Behind(q)) /\ \A q \in Resident : IsInjective(waiting'[q])
  <2>1. ASSUME NEW q \in Resident \ {p} PROVE Behind(q)' = Behind(q) /\ IsInjective(waiting'[q]) /\ waiting'[q] \in Seq(Clients)
    BY <1>3, <1>8 DEF IsFunctionTo, Behind
  <2>2. Behind(p)' = {} /\ IsInjective(waiting'[p]) /\ waiting'[p] \in Seq(Clients)
    BY <1>7, <1>8 DEF Behind
  <2> QED BY <1>8, <2>1, <2>2 DEF IsFunctionTo
<1>10. /\ queued' \subseteq IO /\ inflight' \subseteq IO
       /\ queued' \cap inflight' = {} /\ (queued' \cup inflight') \cap Range(cq') = {}
       /\ queued' = queued /\ inflight' = inflight
       /\ Pending' = Pending /\ SubmitState'
  BY <1>b, SameIo
<1>11. TypeOK'
  BY <1>a, <1>b, <1>4, <1>5, <1>6, <1>8, <1>9, <1>10 DEF TypeOK, SubmitState
<1>12. Queues'
  BY <1>4, <1>10 DEF Queues
<1>13. ~table[p].evicting /\ ~table[p].dirty /\ p \notin toEvict \cup toWrite /\ p # Meta
  <2>1. PageFacts(p) /\ ~table[Meta].io_lock
    BY <1>c DEF FiberInv, Pages
  <2> QED BY <1>c, <2>1 DEF PageFacts
<1>14. Pages'
  <2>1. ASSUME NEW q \in Resident PROVE PageFacts(q)'
    <3>1. CASE q = p
      <4>1. ~table'[p].evicting /\ ~table'[p].io_lock /\ p \notin toEvict' \cup toWrite' /\ Behind(p)' = {}
            /\ IsInjective(waiting'[p])
        BY <1>b, <1>c, <1>6, <1>9, <1>13
      <4> QED BY <3>1, <4>1 DEF PageFacts
    <3>2. CASE q # p
      <4>1. PageFacts(q)
        BY DEF FiberInv, Pages
      <4>2. table'[q] = table[q] /\ Behind(q)' = Behind(q) /\ IsInjective(waiting'[q])
        BY <1>6, <1>9, <3>2
      <4>3. ASSUME table[q].io_lock PROVE \E r \in Clients : at'[r] = "reading" /\ want'[r].pid = q
        <5>1. PICK r \in Clients : at[r] = "reading" /\ want[r].pid = q
          BY <4>1, <4>3 DEF PageFacts
        <5>2. r # f /\ r \in Fibers
          BY <1>0, <3>2, <5>1, ClientIsFiber
        <5> QED BY <1>b, <1>5, <5>1, <5>2
      <4> QED BY <1>b, <4>1, <4>2, <4>3 DEF PageFacts
    <3> QED BY <3>1, <3>2
  <2>2. /\ Meta \in Resident /\ Resident \subseteq allocated /\ toEvict \cup toWrite \subseteq Resident
        /\ ~table[Meta].io_lock /\ ~table[Meta].evicting
    BY DEF FiberInv, Pages
  <2>3. table'[Meta] = table[Meta]
    BY <1>6, <1>13, <2>2
  <2> QED BY <1>b, <1>6, <2>1, <2>2, <2>3 DEF Pages
<1>15. \A g \in Clients \ {f} : at'[g] = at[g]
  BY <1>5, ClientIsFiber
<1>16. Readers'
  <2>1. ASSUME NEW g \in Clients PROVE ClientFacts(g)'
    <3>1. CASE g = f
      <4>1. p \in allocated
        BY <1>c DEF FiberInv, Pages
      <4>2. at'[g] = "retry" /\ want'[g].pid \in allocated' /\ want'[g].mode # "A"
        BY <1>b, <1>c, <1>0, <1>5, <3>1, <4>1
      <4> QED BY <4>2 DEF ClientFacts
    <3>2. CASE g # f
      <4>1. ClientFacts(g)
        BY DEF FiberInv, Readers
      <4>2. at[g] = "reading" => want[g].pid # p
        BY <1>2, <3>2
      <4> QED BY ZenonT(40), <1>b, <1>6, <1>15, <3>2, <4>1, <4>2 DEF ClientFacts
    <3> QED BY <3>1, <3>2
  <2>2. at'[f] # "reading"
    BY <1>5
  <2>3. \A g, h \in Clients : at'[g] = "reading" /\ at'[h] = "reading" /\ want'[g].pid = want'[h].pid => g = h
    BY <1>b, <1>15, <2>2 DEF FiberInv, Readers
  <2> QED BY <2>1, <2>3 DEF Readers
<1>17. Waits'
  <2>1. ASSUME NEW q \in Resident, NEW g \in Behind(q), q # p
        PROVE  at'[g] = "retry" /\ want'[g].pid = q /\ g \notin Range(ready')
    <3>1. at[g] = "retry" /\ want[g].pid = q /\ g \notin Range(ready)
      BY DEF FiberInv, Waits
    <3>2. g \notin Behind(p)
      BY <1>c, <2>1, <3>1 DEF FiberInv, Waits
    <3>3. g \in Clients /\ g # f
      BY <1>a, <1>1, BehindClients
    <3> QED BY <1>b, <1>4, <1>15, <3>1, <3>2, <3>3
  <2>2. ASSUME NEW q \in Resident', NEW g \in Behind(q)' PROVE q \in Resident /\ q # p /\ g \in Behind(q)
    BY <1>6, <1>9
  <2> QED BY <2>1, <2>2 DEF Waits
<1>18. Ios'
  <2>1. ASSUME NEW io \in Pending
        PROVE  /\ io.op \notin Range(ready')
               /\ io.op # Evictor => at'[io.op] = "reading" /\ want'[io.op].pid = io.pid
               /\ io.op = Evictor => at'[Evictor] = "written" /\ io.pid \in toWrite'
    <3>1. /\ io.op \notin Range(ready)
          /\ io.op # Evictor => at[io.op] = "reading" /\ want[io.op].pid = io.pid
          /\ io.op = Evictor => at[Evictor] = "written" /\ io.pid \in toWrite
      BY DEF FiberInv, Ios
    <3>2. io.op \in Fibers
      BY <1>a, PendingTypes DEF IO
    <3>3. io.op \notin Behind(p)
      <4>1. ASSUME io.op \in Behind(p) PROVE FALSE
        <5>1. at[io.op] = "retry" /\ io.op \in Clients
          BY <1>a, <1>c, <4>1, BehindClients DEF FiberInv, Waits
        <5>2. io.op # Evictor
          BY <5>1, ClientIsFiber
        <5> QED BY <3>1, <5>1, <5>2
      <4> QED BY <4>1
    <3>4. io.op # f /\ Evictor \in Fibers /\ at'[io.op] = at[io.op]
      BY <1>1, <1>5, <3>2 DEF Fibers
    <3> QED BY <1>b, <1>4, <3>1, <3>3, <3>4
  <2> QED BY <1>10, <2>1 DEF Ios, FiberInv
<1>19. Places'
  <2>1. Outstanding' = Outstanding
    BY <1>10 DEF Outstanding, Pending
  <2>2. ASSUME NEW g \in Clients PROVE Placed(g)'
    <3>1. Placed(g)
      BY DEF FiberInv, Places
    <3>2. CASE \E q \in Resident : g \in Behind(q)
      BY <1>4, <1>6, <1>9, <3>2 DEF Placed
    <3> QED BY <1>4, <2>1, <3>1, <3>2 DEF Placed
  <2>3. at'[Evictor] = at[Evictor]
    BY <1>1, <1>5 DEF Fibers
  <2>4. Evictor \in Range(ready') <=> Evictor \in Range(ready)
    BY <1>a, <1>c, <1>4, BehindClients, ClientAssumption
  <2> QED BY <1>b, <1>1, <2>1, <2>2, <2>3, <2>4 DEF Places, FiberInv
<1>20. Data'
  <2>1. [op |-> f, pid |-> p] \notin queued \cup inflight
    <3>1. ASSUME [op |-> f, pid |-> p] \in queued \cup inflight PROVE FALSE
      <4>1. [op |-> f, pid |-> p] \in Pending /\ [op |-> f, pid |-> p].op = f
        BY <3>1 DEF Pending
      <4> QED BY <1>1, <4>1
    <3> QED BY <3>1
  <2>2. mem[p] = committed[p]
    BY <1>b, <1>0, <2>1 DEF FiberInv, Data
  <2>3. NoWriteLost'
    <3>1. NoWriteLost
      BY DEF FiberInv, Data
    <3>2. \A q \in Resident : table'[q].dirty = table[q].dirty /\ (q # p => table'[q].io_lock = table[q].io_lock)
      BY <1>6
    <3> QED BY <1>b, <1>6, <2>2, <3>1, <3>2 DEF NoWriteLost
  <2>4. \A q \in allocated' : committed'[q] \in {0, 1}
    BY <1>b DEF FiberInv, Data
  <2>5. ASSUME NEW g \in Clients, at'[g] = "reading", [op |-> g, pid |-> want'[g].pid] \notin queued' \cup inflight'
        PROVE  mem'[want'[g].pid] = committed'[want'[g].pid]
    <3>1. g # f
      BY <1>5, <2>5
    <3> QED BY <1>b, <1>10, <1>15, <2>5, <3>1 DEF FiberInv, Data
  <2>6. ASSUME NEW q \in toWrite', at'[Evictor] = "written", ~table'[q].dirty, [op |-> Evictor, pid |-> q] \notin inflight'
        PROVE  disk'[q] = committed'[q]
    <3>1. q \in toWrite /\ q \in Resident /\ q # p
      BY <1>b, <1>13 DEF FiberInv, Pages
    <3>2. at[Evictor] = "written" /\ ~table[q].dirty /\ [op |-> Evictor, pid |-> q] \notin inflight
      BY <1>1, <1>5, <1>6, <1>10, <2>6, <3>1 DEF Fibers
    <3> QED BY <1>b, <3>1, <3>2 DEF FiberInv, Data
  <2> QED BY <2>3, <2>4, <2>5, <2>6 DEF Data
<1>21. FrameCount'
  BY <1>a, <1>b, <1>6 DEF FrameCount
<1> QED BY <1>10, <1>11, <1>12, <1>14, <1>16, <1>17, <1>18, <1>19, <1>20, <1>21, InvParts

-----------------------------------------------------------------------------
(* The steps of the evictor. *)
LEMMA PoolStays ==
    ASSUME FiberInv, table' = table, waiting' = waiting, allocated' = allocated, toEvict' = toEvict,
           toWrite' = toWrite, want' = want, \A g \in Clients : at'[g] = at[g]
    PROVE  Pages' /\ Readers' /\ Resident' = Resident /\ \A p : Behind(p)' = Behind(p)
<1>1. Resident' = Resident
  BY DEF Resident
<1>2. \A p : Behind(p)' = Behind(p)
  BY DEF Behind
<1>3. Pages'
  <2>1. ASSUME NEW p \in Resident PROVE PageFacts(p)'
    <3>1. PageFacts(p)
      BY DEF FiberInv, Pages
    <3> QED BY <1>2, <3>1 DEF PageFacts
  <2> QED BY <1>1, <2>1 DEF FiberInv, Pages
<1>4. Readers'
  <2>1. ASSUME NEW g \in Clients PROVE ClientFacts(g)'
    <3>1. ClientFacts(g)
      BY DEF FiberInv, Readers
    <3> QED BY <1>1, <3>1 DEF ClientFacts
  <2> QED BY <2>1 DEF FiberInv, Readers
<1> QED BY <1>1, <1>2, <1>3, <1>4

LEMMA DataStays ==
    ASSUME FiberInv, table' = table, allocated' = allocated, toWrite' = toWrite, want' = want,
           mem' = mem, disk' = disk, committed' = committed,
           \A g \in Clients : at'[g] = at[g],
           queued \cup inflight \subseteq queued' \cup inflight', inflight \subseteq inflight',
           at'[Evictor] = "written" => at[Evictor] = "written" \/ \A p \in toWrite : [op |-> Evictor, pid |-> p] \in inflight'
    PROVE  Data'
<1>1. NoWriteLost'
  <2>1. NoWriteLost
    BY DEF FiberInv, Data
  <2> QED BY <2>1 DEF NoWriteLost, Resident
<1> QED BY <1>1 DEF FiberInv, Data

LEMMA EvictorIsFiber == Evictor \in Fibers /\ \A g \in Clients : g \in Fibers \ {Evictor}
BY ClientAssumption DEF Fibers

LEMMA EvictorRuns ==
    ASSUME FiniteFacts, FiberInv, Runs(Evictor)
    PROVE  Evictor \in Range(ready) /\ running /\ \A io \in Pending : io.op # Evictor
<1>1. Evictor \in Range(ready)
  BY HeadFacts, InvTypes, EvictorIsFiber
<1> QED BY <1>1 DEF FiberInv, Places, Ios

LEMMA EvictorMoves ==
    ASSUME TypeOK, NEW x \in {"loop", "claimed", "written"}, at' = [at EXCEPT ![Evictor] = x]
    PROVE  /\ at' \in [Fibers -> {"start", "retry", "reading", "loop", "claimed", "written"}]
           /\ at'[Evictor] = x /\ \A g \in Clients : at'[g] = at[g]
<1>1. at \in [Fibers -> {"start", "retry", "reading", "loop", "claimed", "written"}]
  BY DEF TypeOK
<1>2. x \in {"start", "retry", "reading", "loop", "claimed", "written"}
  OBVIOUS
<1> QED BY <1>1, <1>2, EvictorIsFiber

LEMMA RestStep ==
    ASSUME FiniteFacts, FiberInv, Rest
    PROVE  FiberInv'
<1>a. TypeOK /\ Queues /\ Places /\ FrameCount
  BY InvTypes, InvFrames
<1>b. /\ Runs(Evictor) /\ at[Evictor] = "loop" /\ running' = FALSE /\ Park(<< >>)
      /\ at' = at /\ want' = want /\ ops' = ops /\ table' = table /\ free' = free /\ waiting' = waiting
      /\ allocated' = allocated /\ mem' = mem /\ disk' = disk /\ committed' = committed
      /\ UNCHANGED ioVars /\ toEvict' = toEvict /\ toWrite' = toWrite /\ cq' = cq
  BY DEF Rest, evictVars, dataVars, poolVars
<1>1. Evictor \in Range(ready) /\ running /\ \A io \in Pending : io.op # Evictor
  BY <1>b, EvictorRuns
<1>2. /\ ready' \in Seq(Fibers) /\ IsInjective(ready') /\ turn' <= Len(ready')
      /\ turn' \in 0 .. Cardinality(Fibers) /\ Range(ready') = Range(ready) \ {Evictor}
  <2> DEFINE wk == << >>
  <2>1. wk \in Seq(Fibers) /\ IsInjective(wk) /\ Range(wk) \cap Range(ready) = {} /\ Range(wk) = {} /\ Park(wk)
    BY <1>b, NobodyWoken
  <2> HIDE DEF wk
  <2> QED BY ZenonT(40), <1>a, <1>b, <2>1, EvictorIsFiber, ParkMoves
<1>3. /\ queued' \subseteq IO /\ inflight' \subseteq IO
      /\ queued' \cap inflight' = {} /\ (queued' \cup inflight') \cap Range(cq') = {}
      /\ queued' = queued /\ inflight' = inflight
      /\ Pending' = Pending /\ SubmitState'
  BY <1>b, SameIo
<1>4. Pages' /\ Readers' /\ Resident' = Resident /\ \A p : Behind(p)' = Behind(p)
  BY <1>b, PoolStays
<1>5. TypeOK'
  BY <1>a, <1>b, <1>2, <1>3, <1>4 DEF TypeOK, SubmitState
<1>6. Queues'
  BY <1>2, <1>3 DEF Queues
<1>7. Waits'
  BY <1>b, <1>2, <1>4 DEF FiberInv, Waits
<1>8. Ios'
  BY <1>b, <1>2, <1>3 DEF FiberInv, Ios
<1>9. Places'
  <2>1. Outstanding' = Outstanding
    BY <1>3, <1>b DEF Outstanding
  <2>2. ASSUME NEW g \in Clients PROVE Placed(g)'
    <3>1. Placed(g) /\ g # Evictor
      BY EvictorIsFiber DEF FiberInv, Places
    <3> QED BY <1>2, <1>4, <2>1, <3>1 DEF Placed
  <2>3. at'[Evictor] = "loop" /\ at'[Evictor] # "claimed"
    BY <1>b
  <2>4. toEvict' = {} /\ toWrite' = {} /\ Evictor \notin Range(ready')
    BY <1>a, <1>b, <1>2 DEF Places
  <2> QED BY <1>b, <2>2, <2>3, <2>4 DEF Places
<1>10. Data'
  BY <1>b, <1>3, DataStays
<1>11. FrameCount'
  BY <1>a, <1>b, <1>4 DEF FrameCount
<1> QED BY <1>3, <1>4, <1>5, <1>6, <1>7, <1>8, <1>9, <1>10, <1>11, InvParts

LEMMA io_batchStep ==
    ASSUME FiniteFacts, FiberInv, io_batch
    PROVE  FiberInv'
<1> DEFINE writes == {[op |-> Evictor, pid |-> p] : p \in toWrite}
<1>a. TypeOK /\ Queues /\ Places /\ FrameCount
  BY InvTypes, InvFrames
<1>b. /\ Runs(Evictor) /\ at[Evictor] = "claimed" /\ toWrite # {}
      /\ inflight' = inflight \cup queued \cup writes
      /\ queued' = {} /\ toSubmit' = 0 /\ sinceFirst' = 0
      /\ at' = [at EXCEPT ![Evictor] = "written"] /\ Park(<< >>)
      /\ want' = want /\ ops' = ops /\ table' = table /\ free' = free /\ waiting' = waiting
      /\ allocated' = allocated /\ mem' = mem /\ disk' = disk /\ committed' = committed
      /\ toEvict' = toEvict /\ toWrite' = toWrite /\ running' = running /\ cq' = cq
  BY DEF io_batch, evictVars, dataVars, poolVars
<1>1. Evictor \in Range(ready) /\ running /\ \A io \in Pending : io.op # Evictor
  BY <1>b, EvictorRuns
<1>2. /\ ready' \in Seq(Fibers) /\ IsInjective(ready') /\ turn' <= Len(ready')
      /\ turn' \in 0 .. Cardinality(Fibers) /\ Range(ready') = Range(ready) \ {Evictor}
  <2> DEFINE wk == << >>
  <2>1. wk \in Seq(Fibers) /\ IsInjective(wk) /\ Range(wk) \cap Range(ready) = {} /\ Range(wk) = {} /\ Park(wk)
    BY <1>b, NobodyWoken
  <2> HIDE DEF wk
  <2> QED BY <1>a, <1>b, <2>1, EvictorIsFiber, ParkMoves
<1>3. /\ at' \in [Fibers -> {"start", "retry", "reading", "loop", "claimed", "written"}]
      /\ at'[Evictor] = "written" /\ \A g \in Clients : at'[g] = at[g]
  BY <1>a, <1>b, EvictorMoves
<1>4. writes \subseteq IO /\ (\A io \in writes : io.op = Evictor /\ io.pid \in toWrite)
      /\ \A p \in toWrite : [op |-> Evictor, pid |-> p] \in writes
  <2>1. toWrite \subseteq Pids
    BY <1>a DEF TypeOK
  <2> QED BY SMT, <2>1, EvictorIsFiber DEF IO
<1> HIDE DEF writes
<1>5. /\ queued' \subseteq IO /\ inflight' \subseteq IO
      /\ queued' \cap inflight' = {} /\ (queued' \cup inflight') \cap Range(cq') = {}
      /\ Pending' = Pending \cup writes
  <2>1. writes \cap Range(cq) = {}
    BY <1>1, <1>4 DEF Pending
  <2>2. queued \subseteq IO /\ inflight \subseteq IO /\ (queued \cup inflight) \cap Range(cq) = {}
    BY <1>a DEF TypeOK, Queues
  <2>3. queued' \subseteq IO /\ inflight' \subseteq IO /\ queued' \cap inflight' = {}
    BY <1>b, <1>4, <2>2
  <2>4. (queued' \cup inflight') \cap Range(cq') = {}
    BY <1>b, <2>1, <2>2
  <2>5. Pending' = Pending \cup writes
    BY <1>b DEF Pending
  <2> QED BY <2>3, <2>4, <2>5
<1>6. SubmitState'
  BY SMT, <1>b, TotalFacts DEF SubmitState, FiniteFacts, EmptyFact
<1>7. Pages' /\ Readers' /\ Resident' = Resident /\ \A p : Behind(p)' = Behind(p)
  BY <1>b, <1>3, PoolStays
<1>8. TypeOK'
  BY <1>a, <1>b, <1>2, <1>3, <1>5, <1>6, <1>7 DEF TypeOK, SubmitState
<1>9. Queues'
  BY <1>2, <1>5 DEF Queues
<1>10. Waits'
  <2>1. ASSUME NEW p \in Resident, NEW g \in Behind(p) PROVE at'[g] = at[g]
    BY <1>a, <1>3, BehindClients
  <2> QED BY <1>b, <1>2, <1>7, <2>1 DEF FiberInv, Waits
<1>11. Ios'
  <2>1. ASSUME NEW io \in Pending
        PROVE  io.op \notin Range(ready') /\ io.op # Evictor /\ at'[io.op] = "reading" /\ want'[io.op].pid = io.pid
    <3>1. io.op \notin Range(ready) /\ io.op # Evictor /\ at[io.op] = "reading" /\ want[io.op].pid = io.pid
      BY <1>1 DEF FiberInv, Ios
    <3>2. io.op \in Clients
      <4>1. io.op \in Fibers
        BY <1>a, PendingTypes DEF IO
      <4> QED BY <3>1, <4>1 DEF Fibers
    <3> QED BY <1>b, <1>2, <1>3, <3>1, <3>2
  <2>2. ASSUME NEW io \in writes
        PROVE  io.op \notin Range(ready') /\ io.op = Evictor /\ at'[Evictor] = "written" /\ io.pid \in toWrite'
    BY <1>b, <1>2, <1>3, <1>4
  <2> QED BY <1>b, <1>5, <2>1, <2>2 DEF Ios
<1>12. Places'
  <2>1. Outstanding \subseteq Outstanding' /\ Evictor \in Outstanding'
    <3>1. PICK p \in toWrite : TRUE
      BY <1>b
    <3>2. [op |-> Evictor, pid |-> p] \in inflight' /\ [op |-> Evictor, pid |-> p].op = Evictor
      BY <1>b, <1>4, <3>1
    <3>3. Evictor \in Outstanding'
      BY <3>2 DEF Outstanding
    <3>4. Outstanding \subseteq Outstanding'
      BY <1>b DEF Outstanding
    <3> QED BY <3>3, <3>4
  <2>2. ASSUME NEW g \in Clients PROVE Placed(g)'
    <3>1. Placed(g) /\ g # Evictor
      BY EvictorIsFiber DEF FiberInv, Places
    <3> QED BY <1>2, <1>7, <2>1, <3>1 DEF Placed
  <2>3. at'[Evictor] # "loop" /\ at'[Evictor] # "claimed" /\ at'[Evictor] \in {"loop", "claimed", "written"}
    BY <1>3
  <2> QED BY <1>b, <1>1, <2>1, <2>2, <2>3 DEF Places
<1>13. Data'
  <2>1. queued \cup inflight \subseteq queued' \cup inflight' /\ inflight \subseteq inflight'
        /\ \A p \in toWrite : [op |-> Evictor, pid |-> p] \in inflight'
    BY <1>b, <1>4
  <2> QED BY <1>b, <1>3, <2>1, DataStays
<1>14. FrameCount'
  BY <1>a, <1>b, <1>7 DEF FrameCount
<1> QED BY <1>6, <1>7, <1>8, <1>9, <1>10, <1>11, <1>12, <1>13, <1>14, InvParts

(* The evictor claims pages or lets them go without giving up its turn. *)
LEMMA EvictorKeepsTurn ==
    ASSUME FiniteFacts, FiberInv, Runs(Evictor), ready' = ready, turn' = turn, want' = want, UNCHANGED ioVars, cq' = cq,
           running' = running, NEW x \in {"loop", "claimed"}, at' = [at EXCEPT ![Evictor] = x],
           Resident' \subseteq Resident,
           \A p \in Resident' : Behind(p)' = Behind(p),
           \A p \in Resident \ Resident' : Behind(p) = {},
           x = "loop" => toEvict' = {} /\ toWrite' = {}
    PROVE  Queues' /\ Waits' /\ Ios' /\ Places' /\ SubmitState'
<1>a. TypeOK /\ Queues /\ Places
  BY InvTypes
<1>1. Evictor \in Range(ready) /\ running /\ \A io \in Pending : io.op # Evictor
  BY EvictorRuns
<1>2. x \in {"loop", "claimed", "written"}
  OBVIOUS
<1>3. at'[Evictor] = x /\ \A g \in Clients : at'[g] = at[g]
  BY <1>a, <1>2, EvictorMoves
<1>4. /\ queued' = queued /\ inflight' = inflight /\ Pending' = Pending /\ SubmitState'
  BY SameIo
<1>5. Queues'
  BY <1>a, <1>4 DEF Queues
<1>6. Waits'
  <2>1. ASSUME NEW p \in Resident', NEW g \in Behind(p)'
        PROVE  at'[g] = "retry" /\ want'[g].pid = p /\ g \notin Range(ready')
    <3>1. p \in Resident /\ g \in Behind(p)
      BY <2>1
    <3>2. g \in Clients
      BY <1>a, <3>1, BehindClients
    <3> QED BY <1>3, <3>1, <3>2 DEF FiberInv, Waits
  <2> QED BY <2>1 DEF Waits
<1>7. Ios'
  <2>1. ASSUME NEW io \in Pending
        PROVE  io.op \notin Range(ready') /\ io.op # Evictor /\ at'[io.op] = "reading" /\ want'[io.op].pid = io.pid
    <3>1. io.op \notin Range(ready) /\ io.op # Evictor /\ at[io.op] = "reading" /\ want[io.op].pid = io.pid
      BY <1>1 DEF FiberInv, Ios
    <3>2. io.op \in Clients
      <4>1. io.op \in Fibers
        BY <1>a, PendingTypes DEF IO
      <4> QED BY <3>1, <4>1 DEF Fibers
    <3> QED BY <1>3, <3>1, <3>2
  <2>2. \A io \in queued : io.op # Evictor
    BY DEF FiberInv, Ios
  <2> QED BY <1>4, <2>1, <2>2 DEF Ios
<1>8. Places'
  <2>1. Outstanding' = Outstanding
    BY <1>4 DEF Outstanding
  <2>2. ASSUME NEW g \in Clients PROVE Placed(g)'
    <3>1. Placed(g)
      BY DEF FiberInv, Places
    <3>2. \A p \in Resident : g \in Behind(p) => p \in Resident' /\ g \in Behind(p)'
      OBVIOUS
    <3> QED BY <2>1, <3>1, <3>2 DEF Placed
  <2>3. turn > 0 /\ Head(ready) = Evictor
    BY DEF Runs
  <2>4. x = "claimed" => x # "loop"
    OBVIOUS
  <2> QED BY <1>1, <1>2, <1>3, <2>2, <2>3 DEF Places
<1> QED BY <1>4, <1>5, <1>6, <1>7, <1>8

(* The table after a sweep over V. *)
LEMMA SweepFacts ==
    ASSUME FiberInv, NEW V \in SUBSET Resident, Sweep(V)
    PROVE  /\ Resident' = Resident /\ IsFunctionTo(table', Flags)
           /\ Claimable(V) \subseteq Resident /\ toEvict' \cup toWrite' = Claimable(V)
           /\ \A p \in Resident :
                 /\ table'[p].io_lock = table[p].io_lock
                 /\ p \in Claimable(V) => table'[p].evicting /\ ~table'[p].dirty /\ ~table[p].io_lock
                                          /\ (table[p].dirty <=> p \in toWrite')
                 /\ p \notin Claimable(V) => table'[p].evicting = table[p].evicting /\ table'[p].dirty = table[p].dirty
<1>a. IsFunctionTo(table, Flags)
  BY InvTypes DEF TypeOK
<1>0. \A p : p \in Claimable(V) <=> p \in V /\ ~table[p].io_lock /\ ~table[p].evicting /\ ~table[p].marked
  BY DEF Claimable
<1> DEFINE C == Claimable(V)
<1> DEFINE claim(p) == [table[p] EXCEPT !.evicting = TRUE, !.dirty = FALSE]
<1> DEFINE pass(p) == [table[p] EXCEPT !.marked = @ /\ (p \notin V \/ table[p].io_lock \/ table[p].evicting)]
<1>1. toWrite' = {p \in C : table[p].dirty} /\ toEvict' = C \ toWrite'
      /\ table' = [p \in Resident |-> IF p \in C THEN claim(p) ELSE pass(p)]
  BY DEF Sweep
<1>2. C \subseteq Resident /\ \A p \in C : ~table[p].io_lock
  BY <1>0
<1>3. ASSUME NEW p \in Resident
      PROVE  /\ claim(p) \in Flags /\ claim(p).evicting = TRUE /\ claim(p).dirty = FALSE
             /\ claim(p).io_lock = table[p].io_lock
             /\ pass(p) \in Flags /\ pass(p).evicting = table[p].evicting /\ pass(p).dirty = table[p].dirty
             /\ pass(p).io_lock = table[p].io_lock
  <2>1. table[p] \in Flags
    BY <1>a DEF Resident, IsFunctionTo
  <2>2. claim(p) \in Flags /\ claim(p).evicting = TRUE /\ claim(p).dirty = FALSE /\ claim(p).io_lock = table[p].io_lock
    BY <2>1 DEF Flags
  <2>3. PICK b : b = (p \notin V \/ table[p].io_lock \/ table[p].evicting)
    OBVIOUS
  <2>4. b \in BOOLEAN /\ (table[p].marked /\ b) \in BOOLEAN
    BY <2>3
  <2>5. pass(p) = [table[p] EXCEPT !.marked = table[p].marked /\ b]
    BY <2>3
  <2>6. pass(p) \in Flags /\ pass(p).evicting = table[p].evicting /\ pass(p).dirty = table[p].dirty
        /\ pass(p).io_lock = table[p].io_lock
    <3> HIDE DEF pass
    <3> QED BY <2>1, <2>4, <2>5 DEF Flags
  <2> QED BY <2>2, <2>6
<1> HIDE DEF claim, pass, C
<1>4. Resident' = Resident /\ \A p \in Resident : table'[p] = IF p \in C THEN claim(p) ELSE pass(p)
  BY <1>1 DEF Resident
<1>5. IsFunctionTo(table', Flags)
  BY <1>3, <1>4 DEF IsFunctionTo, Resident
<1>6. toEvict' \cup toWrite' = C
  BY <1>1
<1>7. ASSUME NEW p \in Resident
      PROVE  /\ table'[p].io_lock = table[p].io_lock
             /\ p \in C => table'[p].evicting /\ ~table'[p].dirty /\ ~table[p].io_lock
                                          /\ (table[p].dirty <=> p \in toWrite')
             /\ p \notin C => table'[p].evicting = table[p].evicting /\ table'[p].dirty = table[p].dirty
  BY <1>1, <1>2, <1>3, <1>4
<1> QED BY <1>2, <1>4, <1>5, <1>6, <1>7 DEF C

LEMMA SweepStep ==
    ASSUME FiniteFacts, FiberInv, NEW V \in SUBSET Resident, Sweep(V)
    PROVE  FiberInv'
<1>a. TypeOK /\ Queues /\ Places /\ FrameCount
  BY InvTypes, InvFrames
<1>b. /\ Runs(Evictor) /\ at[Evictor] = "loop" /\ Meta \notin Claimable(V)
      /\ at' = [at EXCEPT ![Evictor] = "claimed"]
      /\ ready' = ready /\ turn' = turn
      /\ want' = want /\ ops' = ops /\ free' = free /\ waiting' = waiting
      /\ allocated' = allocated /\ mem' = mem /\ disk' = disk /\ committed' = committed
      /\ UNCHANGED ioVars /\ running' = running /\ cq' = cq
  BY DEF Sweep, MustEvict, dataVars
<1>c. toEvict = {} /\ toWrite = {}
  BY <1>a, <1>b DEF Places
<1> DEFINE C == Claimable(V)
<1>1. /\ Resident' = Resident /\ IsFunctionTo(table', Flags)
      /\ C \subseteq Resident /\ toEvict' \cup toWrite' = C
      /\ \A p \in Resident :
            /\ table'[p].io_lock = table[p].io_lock
            /\ p \in C => table'[p].evicting /\ ~table'[p].dirty /\ ~table[p].io_lock
                                          /\ (table[p].dirty <=> p \in toWrite')
            /\ p \notin C => table'[p].evicting = table[p].evicting /\ table'[p].dirty = table[p].dirty
  BY SweepFacts
<1>d. Meta \notin C
  BY <1>b
<1> HIDE DEF C
<1>2. /\ at' \in [Fibers -> {"start", "retry", "reading", "loop", "claimed", "written"}]
      /\ at'[Evictor] = "claimed" /\ \A g \in Clients : at'[g] = at[g]
  BY <1>a, <1>b, EvictorMoves
<1>3. \A p : Behind(p)' = Behind(p)
  BY <1>b DEF Behind
<1>4. Queues' /\ Waits' /\ Ios' /\ Places' /\ SubmitState'
  <2>1. PICK x : x = "claimed"
    OBVIOUS
  <2>2. x \in {"loop", "claimed"} /\ x # "loop" /\ at' = [at EXCEPT ![Evictor] = x]
    BY <1>b, <2>1
  <2> QED BY <1>b, <1>1, <1>3, <2>2, EvictorKeepsTurn
<1>5. TypeOK'
  <2>1. queued' = queued /\ inflight' = inflight /\ toSubmit' = toSubmit /\ sinceFirst' = sinceFirst
    BY <1>b DEF ioVars
  <2>2. toEvict' \subseteq Pids /\ toWrite' \subseteq Pids
    BY <1>a, <1>1 DEF TypeOK
  <2> QED BY <1>a, <1>b, <1>1, <1>2, <2>1, <2>2 DEF TypeOK
<1>6. Pages'
  <2>1. ASSUME NEW p \in Resident PROVE PageFacts(p)'
    <3>1. PageFacts(p)
      BY DEF FiberInv, Pages
    <3>2. ~table[p].evicting
      BY <1>c, <3>1 DEF PageFacts
    <3> QED BY <1>b, <1>1, <1>2, <1>3, <3>1, <3>2 DEF PageFacts
  <2>2. Meta \in Resident /\ Resident \subseteq allocated /\ ~table[Meta].io_lock /\ ~table[Meta].evicting
    BY DEF FiberInv, Pages
  <2> QED BY <1>b, <1>d, <1>1, <2>1, <2>2 DEF Pages
<1>7. Readers'
  <2>1. ASSUME NEW g \in Clients PROVE ClientFacts(g)'
    <3>1. ClientFacts(g)
      BY DEF FiberInv, Readers
    <3> QED BY <1>b, <1>1, <1>2, <3>1 DEF ClientFacts
  <2> QED BY ZenonT(40), <1>b, <1>2, <2>1, ZenonT(30) DEF FiberInv, Readers
<1>8. Data'
  <2>1. NoWriteLost'
    <3>1. ASSUME NEW p \in allocated
          PROVE  IF p \in Resident'
                 THEN /\ ~table'[p].io_lock => mem'[p] = committed'[p]
                      /\ ~table'[p].dirty /\ p \notin toWrite' => disk'[p] = committed'[p]
                 ELSE disk'[p] = committed'[p]
      <4>1. IF p \in Resident
            THEN /\ ~table[p].io_lock => mem[p] = committed[p]
                 /\ ~table[p].dirty /\ p \notin toWrite => disk[p] = committed[p]
            ELSE disk[p] = committed[p]
        BY DEF FiberInv, Data, NoWriteLost
      <4> QED BY <1>b, <1>c, <1>1, <4>1
    <3> QED BY <1>b, <3>1 DEF NoWriteLost
  <2>2. queued' = queued /\ inflight' = inflight
    BY <1>b DEF ioVars
  <2>3. at'[Evictor] # "written"
    BY <1>2
  <2> QED BY <1>b, <1>2, <2>1, <2>2, <2>3 DEF FiberInv, Data
<1>9. FrameCount'
  BY <1>a, <1>b, <1>1 DEF FrameCount
<1> QED BY <1>4, <1>5, <1>6, <1>7, <1>8, <1>9, InvParts

(* The pages that evictNow drops, and what it leaves. *)
Gone == {p \in toEvict \cup toWrite : ~table[p].dirty}

LEMMA EvictNowFacts ==
    ASSUME FiberInv, EvictNow
    PROVE  /\ Gone \subseteq Resident /\ Resident' = Resident \ Gone /\ IsFunctionTo(table', Flags)
           /\ DOMAIN waiting' = Resident' /\ DOMAIN mem' = Resident'
           /\ free' = free + Cardinality(Gone)
           /\ \A p \in Resident' : /\ table'[p].io_lock = table[p].io_lock /\ table'[p].dirty = table[p].dirty
                                   /\ ~table'[p].evicting
                                   /\ waiting'[p] = waiting[p] /\ mem'[p] = mem[p]
<1>a. IsFunctionTo(table, Flags) /\ DOMAIN waiting = Resident /\ DOMAIN mem = Resident
  BY InvTypes DEF TypeOK
<1> DEFINE kept(p) == [table[p] EXCEPT !.evicting = @ /\ p \notin toEvict \cup toWrite]
<1> DEFINE t == [p \in Resident |-> kept(p)]
<1>1. /\ table' = Restrict(t, Resident \ Gone) /\ waiting' = Restrict(waiting, Resident \ Gone)
      /\ mem' = Restrict(mem, Resident \ Gone) /\ free' = free + Cardinality(Gone)
  BY DEF EvictNow, Gone
<1>2. toEvict \cup toWrite \subseteq Resident
  BY DEF FiberInv, Pages
<1>3. Gone \subseteq Resident
  BY <1>2 DEF Gone
<1>4. ASSUME NEW p \in Resident
      PROVE  kept(p) \in Flags /\ kept(p).io_lock = table[p].io_lock /\ kept(p).dirty = table[p].dirty
             /\ ~kept(p).evicting
  <2>1. table[p] \in Flags
    BY <1>a DEF Resident, IsFunctionTo
  <2>2. table[p].evicting <=> p \in toEvict \cup toWrite
    BY DEF FiberInv, Pages, PageFacts
  <2>3. kept(p) = [table[p] EXCEPT !.evicting = FALSE]
    <3>1. table[p].evicting \in BOOLEAN
      BY <2>1 DEF Flags
    <3>2. (table[p].evicting /\ p \notin toEvict \cup toWrite) = FALSE
      BY <2>2, <3>1
    <3> QED BY <3>2
  <2> HIDE DEF kept
  <2> QED BY <2>1, <2>3 DEF Flags
<1> HIDE DEF kept
<1>5. DOMAIN table' = Resident \ Gone /\ \A p \in Resident \ Gone : table'[p] = kept(p)
  BY <1>1 DEF Restrict
<1>6. Resident' = Resident \ Gone
  BY <1>5 DEF Resident
<1>7. /\ DOMAIN waiting' = Resident \ Gone /\ DOMAIN mem' = Resident \ Gone
      /\ \A p \in Resident \ Gone : waiting'[p] = waiting[p] /\ mem'[p] = mem[p]
  BY <1>1 DEF Restrict
<1>8. IsFunctionTo(table', Flags)
  BY <1>4, <1>5 DEF IsFunctionTo
<1> QED BY <1>1, <1>3, <1>4, <1>5, <1>6, <1>7, <1>8

LEMMA DropPages ==
    ASSUME FiniteFacts, TypeOK, FrameCount, NEW G, G \subseteq Resident, Resident' = Resident \ G, free' = free + Cardinality(G)
    PROVE  FrameCount' /\ free' \in 0 .. NumFrames
<1>1. Resident \subseteq Pids /\ free \in 0 .. NumFrames /\ NumFrames \in Nat
  BY SizeAssumption DEF TypeOK
<1>2. IsFiniteSet(Resident)
  <2>1. IsFiniteSet(Pids)
    BY SMT, SizeAssumption DEF Pids, FiniteFacts, IntervalFact
  <2> QED BY <1>1, <2>1 DEF FiniteFacts, SubsetFact
<1> DEFINE R == Resident
<1>5. /\ Cardinality(R) \in Nat /\ Cardinality(G) \in Nat /\ Cardinality(R \ G) \in Nat
      /\ Cardinality(R \ G) = Cardinality(R) - Cardinality(G)
  BY <1>2 DEF FiniteFacts, SubsetFact
<1>7. Cardinality(Resident') = Cardinality(R) - Cardinality(G)
  BY <1>5
<1> HIDE DEF R
<1>8. free + Cardinality(R) = NumFrames
  BY DEF FrameCount, R
<1>9. free' + Cardinality(Resident') = NumFrames /\ free' \in 0 .. NumFrames
  BY SMT, <1>1, <1>5, <1>7, <1>8
<1> QED BY <1>9 DEF FrameCount

LEMMA EvictNowStep ==
    ASSUME FiniteFacts, FiberInv, EvictNow
    PROVE  FiberInv'
<1>a. TypeOK /\ Queues /\ Places /\ FrameCount
  BY InvTypes, InvFrames
<1>b. /\ Runs(Evictor)
      /\ at[Evictor] = "written" \/ (at[Evictor] = "claimed" /\ toWrite = {})
      /\ at' = [at EXCEPT ![Evictor] = "loop"] /\ toEvict' = {} /\ toWrite' = {}
      /\ ready' = ready /\ turn' = turn
      /\ want' = want /\ ops' = ops
      /\ allocated' = allocated /\ disk' = disk /\ committed' = committed
      /\ UNCHANGED ioVars /\ running' = running /\ cq' = cq
  BY DEF EvictNow
<1>1. /\ Gone \subseteq Resident /\ Resident' = Resident \ Gone /\ IsFunctionTo(table', Flags)
      /\ DOMAIN waiting' = Resident' /\ DOMAIN mem' = Resident'
      /\ free' = free + Cardinality(Gone)
      /\ \A p \in Resident' : /\ table'[p].io_lock = table[p].io_lock /\ table'[p].dirty = table[p].dirty
                              /\ ~table'[p].evicting
                              /\ waiting'[p] = waiting[p] /\ mem'[p] = mem[p]
  BY EvictNowFacts
<1>2. /\ at' \in [Fibers -> {"start", "retry", "reading", "loop", "claimed", "written"}]
      /\ at'[Evictor] = "loop" /\ \A g \in Clients : at'[g] = at[g]
  BY <1>a, <1>b, EvictorMoves
<1>3. \A p \in Resident' : Behind(p)' = Behind(p)
  BY <1>1 DEF Behind
<1>4. \A p \in Gone : ~table[p].io_lock /\ Behind(p) = {}
  <2>1. ASSUME NEW p \in Gone PROVE ~table[p].io_lock /\ Behind(p) = {}
    <3>1. PageFacts(p) /\ p \in toEvict \cup toWrite
      BY <1>1 DEF FiberInv, Pages, Gone
    <3> QED BY <3>1 DEF PageFacts
  <2> QED BY <2>1
<1>5. Queues' /\ Waits' /\ Ios' /\ Places' /\ SubmitState'
  <2>1. PICK x : x = "loop"
    OBVIOUS
  <2>2. x \in {"loop", "claimed"} /\ at' = [at EXCEPT ![Evictor] = x]
    BY <1>b, <2>1
  <2>3. \A p \in Resident \ Resident' : Behind(p) = {}
    BY <1>1, <1>4
  <2>4. Resident' \subseteq Resident
    BY <1>1
  <2> QED BY <1>b, <1>3, <2>2, <2>3, <2>4, EvictorKeepsTurn
<1>6. FrameCount' /\ free' \in 0 .. NumFrames
  BY <1>a, <1>1, DropPages
<1>7. TypeOK'
  <2>1. queued' = queued /\ inflight' = inflight /\ toSubmit' = toSubmit /\ sinceFirst' = sinceFirst
    BY <1>b DEF ioVars
  <2>2. Resident' \subseteq Pids
    BY <1>a, <1>1 DEF TypeOK
  <2>3. IsFunctionTo(waiting', Seq(Clients)) /\ IsFunctionTo(mem', Contents)
    BY <1>a, <1>1 DEF TypeOK, IsFunctionTo
  <2> QED BY <1>a, <1>b, <1>1, <1>2, <1>6, <2>1, <2>2, <2>3 DEF TypeOK
<1>8. Pages'
  <2>1. ASSUME NEW p \in Resident' PROVE PageFacts(p)'
    <3>1. PageFacts(p)
      BY <1>1 DEF FiberInv, Pages
    <3>2. p \notin toEvict' \cup toWrite'
      BY <1>b
    <3> QED BY <1>b, <1>1, <1>2, <1>3, <3>1, <3>2 DEF PageFacts
  <2>2. Meta \in Resident /\ Resident \subseteq allocated /\ ~table[Meta].io_lock /\ ~table[Meta].evicting
        /\ PageFacts(Meta)
    BY DEF FiberInv, Pages
  <2>3. Meta \notin Gone
    BY <2>2 DEF PageFacts, Gone
  <2> QED BY <1>b, <1>1, <2>1, <2>2, <2>3 DEF Pages
<1>9. Readers'
  <2>1. ASSUME NEW g \in Clients PROVE ClientFacts(g)'
    <3>1. ClientFacts(g)
      BY DEF FiberInv, Readers
    <3> QED BY <1>b, <1>1, <1>2, <1>4, <3>1 DEF ClientFacts
  <2>2. want' = want /\ \A g \in Clients : at'[g] = at[g]
    BY <1>b, <1>2
  <2>3. \A f, g \in Clients :
           at'[f] = "reading" /\ at'[g] = "reading" /\ want'[f].pid = want'[g].pid => f = g
    BY <2>2 DEF FiberInv, Readers
  <2> QED BY <2>1, <2>3 DEF Readers
<1>10. Data'
  <2>1. \A p : [op |-> Evictor, pid |-> p] \notin inflight
    <3>1. ASSUME NEW p PROVE [op |-> Evictor, pid |-> p].op = Evictor
      OBVIOUS
    <3>2. \A io \in inflight : io.op # Evictor
      BY <1>b, EvictorRuns DEF Pending
    <3> QED BY <3>1, <3>2
  <2>2. ASSUME NEW p \in allocated, p \in Resident => ~table[p].dirty PROVE disk[p] = committed[p]
    <3>1. IF p \in Resident
          THEN ~table[p].dirty /\ p \notin toWrite => disk[p] = committed[p]
          ELSE disk[p] = committed[p]
      BY DEF FiberInv, Data, NoWriteLost
    <3>2. CASE p \in Resident /\ p \in toWrite
      <4>1. at[Evictor] = "written"
        BY <1>b, <3>2
      <4> QED BY <2>1, <2>2, <3>2, <4>1 DEF FiberInv, Data
    <3> QED BY <2>2, <3>1, <3>2
  <2>3. \A p \in Gone : ~table[p].dirty
    BY DEF Gone
  <2>4. NoWriteLost'
    <3>1. ASSUME NEW p \in allocated
          PROVE  IF p \in Resident'
                 THEN /\ ~table'[p].io_lock => mem'[p] = committed'[p]
                      /\ ~table'[p].dirty /\ p \notin toWrite' => disk'[p] = committed'[p]
                 ELSE disk'[p] = committed'[p]
      <4>1. CASE p \in Resident'
        <5>1. p \in Resident /\ (~table[p].io_lock => mem[p] = committed[p])
          BY <1>1, <4>1 DEF FiberInv, Data, NoWriteLost
        <5> QED BY <1>b, <1>1, <2>2, <4>1, <5>1
      <4>2. CASE p \notin Resident'
        BY <1>b, <1>1, <2>2, <2>3, <4>2
      <4> QED BY <4>1, <4>2
    <3> QED BY <1>b, <3>1 DEF NoWriteLost
  <2>5. queued' = queued /\ inflight' = inflight
    BY <1>b DEF ioVars
  <2>6. ASSUME NEW g \in Clients, at'[g] = "reading", [op |-> g, pid |-> want'[g].pid] \notin queued' \cup inflight'
        PROVE  mem'[want'[g].pid] = committed'[want'[g].pid]
    <3>1. at[g] = "reading" /\ mem[want[g].pid] = committed[want[g].pid]
      BY <1>b, <1>2, <2>5, <2>6 DEF FiberInv, Data
    <3>2. want[g].pid \in Resident'
      BY <1>1, <1>4, <3>1 DEF FiberInv, Readers, ClientFacts
    <3> QED BY <1>b, <1>1, <3>1, <3>2
  <2> QED BY <1>b, <2>4, <2>6 DEF FiberInv, Data
<1> QED BY <1>5, <1>6, <1>7, <1>8, <1>9, <1>10, InvParts

-----------------------------------------------------------------------------
(* The device and the completion queue. *)
LEMMA DeviceData ==
    ASSUME FiberInv, NEW io \in inflight, Device(io)
    PROVE  /\ IsFunctionTo(mem', Contents) /\ DOMAIN mem' = Resident /\ disk' \in [Pids -> Contents]
           /\ io.pid \in Resident
           /\ \A p \in Pids : disk'[p] = disk[p] \/ (p = io.pid /\ disk'[p] = committed[p])
           /\ \A p \in Resident : mem'[p] = mem[p] \/ (p = io.pid /\ mem'[p] = committed[p])
           /\ io.op = Evictor => disk'[io.pid] = committed[io.pid]
           /\ io.op # Evictor => mem'[io.pid] = committed[io.pid]
<1>a. TypeOK
  BY InvTypes
<1>1. io \in IO /\ io.op \in Fibers /\ io.pid \in Pids /\ io \in Pending
  <2>1. io \in IO /\ io \in Pending
    BY <1>a DEF TypeOK, Pending
  <2> QED BY <2>1 DEF IO
<1>2. /\ DOMAIN mem = Resident /\ IsFunctionTo(mem, Contents) /\ disk \in [Pids -> Contents]
  BY <1>a DEF TypeOK
<1>3. CASE io.op = Evictor
  <2>1. io.pid \in toWrite
    BY <1>1, <1>3 DEF FiberInv, Ios
  <2>2. io.pid \in Resident /\ io.pid \in allocated /\ PageFacts(io.pid)
    BY <2>1 DEF FiberInv, Pages
  <2>3. ~table[io.pid].io_lock
    BY <2>1, <2>2 DEF PageFacts
  <2>4. mem[io.pid] = committed[io.pid] /\ mem[io.pid] \in Contents
    BY <1>2, <2>2, <2>3 DEF FiberInv, Data, NoWriteLost, IsFunctionTo
  <2>5. disk' = [disk EXCEPT ![io.pid] = mem[io.pid]] /\ mem' = mem
    BY <1>3 DEF Device
  <2>6. disk' \in [Pids -> Contents] /\ disk'[io.pid] = mem[io.pid] /\ \A p \in Pids : p # io.pid => disk'[p] = disk[p]
    BY <1>1, <1>2, <2>4, <2>5
  <2> QED BY <1>2, <1>3, <2>2, <2>4, <2>5, <2>6
<1>4. CASE io.op # Evictor
  <2>1. io.op \in Clients /\ at[io.op] = "reading" /\ want[io.op].pid = io.pid
    BY <1>1, <1>4 DEF FiberInv, Ios, Fibers
  <2>2. io.pid \in Resident /\ table[io.pid].io_lock
    BY <2>1 DEF FiberInv, Readers, ClientFacts
  <2>3. io.pid \in allocated /\ PageFacts(io.pid)
    BY <2>2 DEF FiberInv, Pages
  <2>4. ~table[io.pid].dirty /\ io.pid \notin toWrite
    BY <2>2, <2>3 DEF PageFacts
  <2>5. disk[io.pid] = committed[io.pid] /\ disk[io.pid] \in Contents
    BY <1>1, <1>2, <2>2, <2>3, <2>4 DEF FiberInv, Data, NoWriteLost
  <2>6. mem' = [mem EXCEPT ![io.pid] = disk[io.pid]] /\ disk' = disk
    BY <1>4 DEF Device
  <2>7. DOMAIN mem' = Resident /\ mem'[io.pid] = disk[io.pid] /\ \A p \in Resident : p # io.pid => mem'[p] = mem[p]
    BY <1>2, <2>2, <2>6
  <2>8. IsFunctionTo(mem', Contents)
    BY <1>2, <2>5, <2>7 DEF IsFunctionTo
  <2> QED BY <1>2, <1>4, <2>2, <2>5, <2>6, <2>7, <2>8
<1> QED BY <1>3, <1>4

LEMMA DeviceStep ==
    ASSUME FiberInv, NEW io \in inflight, Device(io)
    PROVE  FiberInv'
<1>a. TypeOK /\ Queues /\ Places /\ FrameCount /\ SubmitState
  BY InvTypes, InvFrames
<1>b. /\ inflight' = inflight \ {io} /\ cq' = Append(cq, io)
      /\ ready' = ready /\ turn' = turn /\ at' = at /\ want' = want /\ ops' = ops
      /\ table' = table /\ free' = free /\ waiting' = waiting /\ allocated' = allocated
      /\ committed' = committed /\ toSubmit' = toSubmit /\ sinceFirst' = sinceFirst /\ queued' = queued
      /\ toEvict' = toEvict /\ toWrite' = toWrite /\ running' = running
  BY DEF Device, poolVars, evictVars
<1>c. /\ IsFunctionTo(mem', Contents) /\ DOMAIN mem' = Resident /\ disk' \in [Pids -> Contents]
      /\ io.pid \in Resident
      /\ \A p \in Pids : disk'[p] = disk[p] \/ (p = io.pid /\ disk'[p] = committed[p])
      /\ \A p \in Resident : mem'[p] = mem[p] \/ (p = io.pid /\ mem'[p] = committed[p])
      /\ io.op = Evictor => disk'[io.pid] = committed[io.pid]
      /\ io.op # Evictor => mem'[io.pid] = committed[io.pid]
  BY DeviceData
<1>1. io \in IO /\ io \in Pending
  BY <1>a DEF TypeOK, Pending
<1>2. cq' \in Seq(IO) /\ Range(cq') = Range(cq) \cup {io}
  <2>1. cq \in Seq(IO)
    BY <1>a DEF TypeOK
  <2>2. Append(cq, io) \in Seq(IO) /\ Range(Append(cq, io)) = Range(cq) \cup {io}
    BY SMT, <1>1, <2>1, AppendOnce
  <2> QED BY <1>b, <2>2
<1>3. Pending' = Pending /\ Outstanding' = Outstanding
  <2>1. queued' \cup inflight' \cup Range(cq') = queued \cup inflight \cup Range(cq)
    BY <1>b, <1>2
  <2> QED BY <2>1 DEF Pending, Outstanding
<1>4. Queues'
  <2>1. queued \cap inflight = {} /\ (queued \cup inflight) \cap Range(cq) = {} /\ IsInjective(ready) /\ turn <= Len(ready)
    BY <1>a DEF Queues
  <2>2. queued' \cap inflight' = {} /\ (queued' \cup inflight') \cap Range(cq') = {}
    BY <1>b, <1>2, <2>1
  <2> QED BY <1>b, <2>1, <2>2 DEF Queues
<1>5. Pages' /\ Readers' /\ Resident' = Resident /\ \A p : Behind(p)' = Behind(p)
  BY <1>b, PoolStays
<1>6. TypeOK'
  <2>1. inflight' \subseteq IO
    BY <1>a, <1>b DEF TypeOK
  <2> QED BY <1>a, <1>b, <1>c, <1>2, <1>5, <2>1 DEF TypeOK
<1>7. Waits'
  BY <1>b, <1>5 DEF FiberInv, Waits
<1>8. Ios'
  BY <1>b, <1>3 DEF FiberInv, Ios
<1>9. Places'
  <2>1. ASSUME NEW g \in Clients PROVE Placed(g)'
    <3>1. Placed(g)
      BY DEF FiberInv, Places
    <3> QED BY <1>b, <1>3, <1>5, <3>1 DEF Placed
  <2> QED BY <1>a, <1>b, <1>3, <2>1 DEF Places
<1>10. Data'
  <2>a. allocated \subseteq Pids /\ toWrite \subseteq Pids /\ Resident \subseteq Pids
    BY <1>a DEF TypeOK
  <2>1. NoWriteLost'
    <3>1. ASSUME NEW p \in allocated
          PROVE  IF p \in Resident'
                 THEN /\ ~table'[p].io_lock => mem'[p] = committed'[p]
                      /\ ~table'[p].dirty /\ p \notin toWrite' => disk'[p] = committed'[p]
                 ELSE disk'[p] = committed'[p]
      <4>1. IF p \in Resident
            THEN /\ ~table[p].io_lock => mem[p] = committed[p]
                 /\ ~table[p].dirty /\ p \notin toWrite => disk[p] = committed[p]
            ELSE disk[p] = committed[p]
        BY DEF FiberInv, Data, NoWriteLost
      <4>2. (disk[p] = committed[p] => disk'[p] = committed[p])
            /\ (p \in Resident /\ mem[p] = committed[p] => mem'[p] = committed[p])
        BY <1>c, <2>a
      <4> QED BY <1>b, <1>5, <4>1, <4>2
    <3> QED BY <1>b, <3>1 DEF NoWriteLost
  <2>2. \A p \in allocated : committed'[p] \in {0, 1}
    BY <1>b DEF FiberInv, Data
  <2>3. ASSUME NEW g \in Clients, at[g] = "reading", [op |-> g, pid |-> want[g].pid] \notin queued \cup inflight'
        PROVE  mem'[want[g].pid] = committed[want[g].pid]
    <3>1. want[g].pid \in Resident
      BY <2>3 DEF FiberInv, Readers, ClientFacts
    <3>2. CASE [op |-> g, pid |-> want[g].pid] = io
      <4>1. io.op = g /\ io.pid = want[g].pid
        BY <3>2
      <4>2. g # Evictor
        BY ClientIsFiber
      <4> QED BY <1>c, <4>1, <4>2
    <3>3. CASE [op |-> g, pid |-> want[g].pid] # io
      <4>1. [op |-> g, pid |-> want[g].pid] \notin queued \cup inflight
        BY <1>b, <2>3, <3>3
      <4>2. mem[want[g].pid] = committed[want[g].pid]
        BY <2>3, <4>1 DEF FiberInv, Data
      <4> QED BY <1>c, <3>1, <4>2
    <3> QED BY <3>2, <3>3
  <2>4. ASSUME NEW p \in toWrite, at[Evictor] = "written", ~table[p].dirty, [op |-> Evictor, pid |-> p] \notin inflight'
        PROVE  disk'[p] = committed[p]
    <3>2. CASE [op |-> Evictor, pid |-> p] = io
      <4>1. io.op = Evictor /\ io.pid = p
        BY <3>2
      <4> QED BY <1>c, <4>1
    <3>3. CASE [op |-> Evictor, pid |-> p] # io
      <4>1. [op |-> Evictor, pid |-> p] \notin inflight
        BY <1>b, <2>4, <3>3
      <4>2. disk[p] = committed[p]
        BY <2>4, <4>1 DEF FiberInv, Data
      <4> QED BY <1>c, <2>a, <4>2
    <3> QED BY <3>2, <3>3
  <2> QED BY <1>b, <2>1, <2>2, <2>3, <2>4 DEF Data
<1>11. FrameCount' /\ SubmitState'
  BY <1>a, <1>b, <1>5 DEF FrameCount, SubmitState
<1> QED BY <1>4, <1>5, <1>6, <1>7, <1>8, <1>9, <1>10, <1>11, InvParts

(* The fibers that drain_cqe wakes: those with a completion in the queue    *)
(* and none to come, each once.                                             *)
LEMMA WakesTheDone ==
    ASSUME FiniteFacts, TypeOK, NEW last \in Ascending({i \in DOMAIN cq : LastOfOp(i)}),
           NEW wk, wk = [k \in DOMAIN last |-> cq[last[k]].op]
    PROVE  /\ wk \in Seq(Fibers) /\ IsInjective(wk)
           /\ \A f \in Range(wk) : /\ \E io \in Range(cq) : io.op = f
                                   /\ \A io \in queued \cup inflight : io.op # f
           /\ \A c \in Range(cq) : c.op \in Range(wk) \/ \E io \in queued \cup inflight : io.op = c.op
<1> DEFINE D == {i \in DOMAIN cq : LastOfOp(i)}
<1>1. cq \in Seq(IO) /\ Len(cq) \in Nat /\ DOMAIN cq = 1 .. Len(cq)
  <2>1. cq \in Seq(IO)
    BY DEF TypeOK
  <2> QED BY SMT, <2>1
<1>2. D \subseteq 1 .. Len(cq) /\ D \subseteq Nat /\ IsFiniteSet(D)
  <2>1. D \subseteq 1 .. Len(cq)
    BY <1>1
  <2>2. D \subseteq Nat
    BY SMT, <2>1, <1>1
  <2>3. IsFiniteSet(1 .. Len(cq))
    BY SMT, <1>1 DEF FiniteFacts, IntervalFact
  <2> QED BY <2>1, <2>2, <2>3 DEF FiniteFacts, SubsetFact
<1>3. /\ \A i \in D : i \in DOMAIN cq /\ LastOfOp(i)
      /\ \A i \in DOMAIN cq : LastOfOp(i) => i \in D
      /\ last \in Ascending(D)
  OBVIOUS
<1> HIDE DEF D
<1>4. /\ DOMAIN last = 1 .. Cardinality(D) /\ last \in Seq(D) /\ IsInjective(last)
      /\ \A k \in DOMAIN last : last[k] \in D
      /\ \A d \in D : \E k \in DOMAIN last : last[k] = d
  BY ZenonT(40), <1>2, <1>3 DEF FiniteFacts, AscendingFact
<1>5. \A k \in DOMAIN last : last[k] \in D
  BY <1>4
<1>6. DOMAIN wk = DOMAIN last /\ \A k \in DOMAIN last : wk[k] = cq[last[k]].op
  OBVIOUS
<1>7. \A i \in DOMAIN cq : cq[i] \in IO /\ cq[i] \in Range(cq) /\ cq[i].op \in Fibers
  <2>1. ASSUME NEW i \in DOMAIN cq PROVE cq[i] \in IO
    BY SMT, <1>1
  <2>2. \A c \in IO : c.op \in Fibers
    BY DEF IO
  <2> QED BY <2>1, <2>2 DEF Range
<1>8. wk \in Seq(Fibers)
  <2>1. Cardinality(D) \in Nat
    BY <1>2 DEF FiniteFacts, SubsetFact
  <2>2. wk \in [1 .. Cardinality(D) -> Fibers]
    BY <1>3, <1>4, <1>5, <1>6, <1>7
  <2> QED BY SMT, <2>1, <2>2
<1>9. ASSUME NEW i \in D, NEW j \in D, cq[i].op = cq[j].op PROVE i = j
  <2>1. i \in 1 .. Len(cq) /\ j \in 1 .. Len(cq)
    BY <1>2
  <2>2. CASE i < j
    <3>1. j \in i + 1 .. Len(cq)
      BY SMT, <1>1, <2>1, <2>2
    <3> QED BY <1>3, <1>9, <3>1 DEF LastOfOp
  <2>3. CASE j < i
    <3>1. i \in j + 1 .. Len(cq)
      BY SMT, <1>1, <2>1, <2>3
    <3> QED BY <1>3, <1>9, <3>1 DEF LastOfOp
  <2> QED BY SMT, <1>1, <2>1, <2>2, <2>3
<1>10. IsInjective(wk)
  <2>1. ASSUME NEW k \in DOMAIN wk, NEW l \in DOMAIN wk, wk[k] = wk[l] PROVE k = l
    <3>1. last[k] = last[l] /\ k \in DOMAIN last /\ l \in DOMAIN last
      BY <1>5, <1>6, <1>9, <2>1
    <3> QED BY <1>4, <3>1 DEF IsInjective
  <2> QED BY <2>1 DEF IsInjective
<1>11. ASSUME NEW f \in Range(wk)
       PROVE  (\E io \in Range(cq) : io.op = f) /\ \A io \in queued \cup inflight : io.op # f
  <2>1. PICK k \in DOMAIN wk : f = wk[k]
    BY DEF Range
  <2>2. last[k] \in D /\ f = cq[last[k]].op
    BY <1>5, <1>6, <2>1
  <2>3. last[k] \in DOMAIN cq /\ LastOfOp(last[k])
    BY <1>3, <2>2
  <2>4. \A io \in inflight \cup queued : io.op # f
    BY <2>2, <2>3 DEF LastOfOp
  <2> QED BY <1>7, <2>2, <2>3, <2>4
<1>12. ASSUME NEW c \in Range(cq), \A io \in queued \cup inflight : io.op # c.op
       PROVE  c.op \in Range(wk)
  <2> DEFINE T == {i \in 1 .. Len(cq) : cq[i].op = c.op}
  <2>1. T \subseteq 1 .. Len(cq) /\ T # {}
    <3>1. PICK i \in DOMAIN cq : c = cq[i]
      BY DEF Range
    <3>2. i \in T
      BY <1>1, <3>1
    <3> QED BY <3>2
  <2>2. \A i \in T : i \in 1 .. Len(cq) /\ cq[i].op = c.op
    OBVIOUS
  <2>3. \A i \in 1 .. Len(cq) : cq[i].op = c.op => i \in T
    OBVIOUS
  <2> HIDE DEF T
  <2>4. PICK x \in T : \A y \in T : y <= x
    BY <1>1, <2>1, <2>2 DEF FiniteFacts, LargestFact
  <2>5. x \in 1 .. Len(cq) /\ cq[x].op = c.op
    BY <2>2
  <2>6. ASSUME NEW j \in x + 1 .. Len(cq) PROVE cq[j].op # cq[x].op
    <3>1. j \in 1 .. Len(cq) /\ ~(j <= x)
      BY SMT, <1>1, <2>5
    <3> QED BY <2>3, <2>4, <2>5, <3>1
  <2>7. LastOfOp(x)
    BY <1>12, <2>5, <2>6 DEF LastOfOp
  <2>8. x \in D
    BY <1>1, <1>3, <2>5, <2>7
  <2>9. PICK k \in DOMAIN last : last[k] = x
    BY <1>4, <2>8
  <2>10. wk[k] = c.op /\ k \in DOMAIN wk
    BY <1>6, <2>5, <2>9
  <2> QED BY <2>10 DEF Range
<1> QED BY <1>8, <1>10, <1>11, <1>12

LEMMA drain_cqeStep ==
    ASSUME FiniteFacts, FiberInv, drain_cqe
    PROVE  FiberInv'
<1>a. TypeOK /\ Queues /\ Places /\ FrameCount /\ SubmitState
  BY InvTypes, InvFrames
<1>b. /\ turn = 0 /\ turn' = Len(ready') /\ cq' = <<>>
      /\ at' = at /\ want' = want /\ ops' = ops
      /\ table' = table /\ free' = free /\ waiting' = waiting /\ allocated' = allocated
      /\ mem' = mem /\ disk' = disk /\ committed' = committed
      /\ toSubmit' = toSubmit /\ sinceFirst' = sinceFirst /\ queued' = queued /\ inflight' = inflight
      /\ toEvict' = toEvict /\ toWrite' = toWrite /\ running' = running
  BY DEF drain_cqe, poolVars, dataVars, ioVars, evictVars
<1>1. PICK last \in Ascending({i \in DOMAIN cq : LastOfOp(i)}) :
          ready' = ready \o [k \in DOMAIN last |-> cq[last[k]].op]
  BY DEF drain_cqe
<1>2. PICK wk : wk = [k \in DOMAIN last |-> cq[last[k]].op]
  OBVIOUS
<1>3. ready' = ready \o wk
  BY <1>1, <1>2
<1>4. /\ wk \in Seq(Fibers) /\ IsInjective(wk)
      /\ \A f \in Range(wk) : /\ \E io \in Range(cq) : io.op = f
                              /\ \A io \in queued \cup inflight : io.op # f
      /\ \A c \in Range(cq) : c.op \in Range(wk) \/ \E io \in queued \cup inflight : io.op = c.op
  BY <1>a, <1>2, WakesTheDone
<1>5. \A f \in Range(wk) : /\ f \notin Range(ready) /\ (f # Evictor => at[f] = "reading")
                           /\ f = Evictor => at[Evictor] = "written"
  <2>1. ASSUME NEW f \in Range(wk)
        PROVE  f \notin Range(ready) /\ (f # Evictor => at[f] = "reading") /\ (f = Evictor => at[Evictor] = "written")
    <3>1. PICK io \in Range(cq) : io.op = f
      BY <1>4
    <3>2. io \in Pending
      BY DEF Pending
    <3> QED BY <3>1, <3>2 DEF FiberInv, Ios
  <2> QED BY <2>1
<1>6. /\ ready' \in Seq(Fibers) /\ IsInjective(ready') /\ Range(ready') = Range(ready) \cup Range(wk)
  <2>1. ready \in Seq(Fibers) /\ IsInjective(ready) /\ Range(ready) \cap Range(wk) = {}
    BY <1>a, <1>5 DEF TypeOK, Queues
  <2>2. ready \o wk \in Seq(Fibers) /\ IsInjective(ready \o wk) /\ Range(ready \o wk) = Range(ready) \cup Range(wk)
    BY SMT, <1>4, <2>1, CatOnce
  <2> QED BY <1>3, <2>2
<1>7. turn' \in 0 .. Cardinality(Fibers) /\ turn' <= Len(ready')
  <2>1. PICK s : s = ready'
    OBVIOUS
  <2>2. s \in Seq(Fibers) /\ IsInjective(s) /\ turn' = Len(s)
    BY <1>b, <1>6, <2>1
  <2>3. Len(s) <= Cardinality(Fibers) /\ Len(s) \in Nat
    BY SMT, <2>2 DEF FiniteFacts, LengthFact
  <2> QED BY SMT, <2>1, <2>2, <2>3 DEF FiniteFacts, SizesFact
<1>8. cq' \in Seq(IO) /\ Range(cq') = {}
  BY <1>b, EmptyOnce
<1>9. Pages' /\ Readers' /\ Resident' = Resident /\ \A p : Behind(p)' = Behind(p)
  BY <1>b, PoolStays
<1>10. TypeOK'
  BY <1>a, <1>b, <1>6, <1>7, <1>8, <1>9 DEF TypeOK
<1>11. Queues'
  BY <1>a, <1>b, <1>6, <1>7, <1>8 DEF Queues
<1>12. Waits'
  <2>1. ASSUME NEW p \in Resident, NEW g \in Behind(p)
        PROVE  at[g] = "retry" /\ want[g].pid = p /\ g \notin Range(ready) \cup Range(wk)
    <3>1. at[g] = "retry" /\ want[g].pid = p /\ g \notin Range(ready)
      BY DEF FiberInv, Waits
    <3>2. g \in Clients
      BY <1>a, BehindClients
    <3>3. g # Evictor /\ at[g] # "reading"
      BY <3>1, <3>2, ClientIsFiber
    <3> QED BY <1>5, <3>1, <3>3
  <2> QED BY <1>b, <1>6, <1>9, <2>1 DEF Waits
<1>13. Ios'
  <2>1. Pending' = queued \cup inflight /\ Pending' \subseteq Pending
    BY <1>b, <1>8 DEF Pending
  <2>2. \A io \in Pending' : io.op \notin Range(ready')
    BY <1>4, <1>6, <2>1 DEF FiberInv, Ios
  <2> QED BY <1>b, <2>1, <2>2 DEF FiberInv, Ios
<1>14. Places'
  <2>1. \A f : f \in Outstanding => f \in Outstanding' \/ f \in Range(ready')
    <3>1. ASSUME NEW f \in Outstanding PROVE f \in Outstanding' \/ f \in Range(ready')
      <4>1. PICK c \in queued \cup inflight \cup Range(cq) : f = c.op
        BY DEF Outstanding
      <4>2. (\E io \in queued \cup inflight : io.op = f) \/ f \in Range(wk)
        BY <1>4, <4>1
      <4>3. (\E io \in queued \cup inflight : io.op = f) => f \in Outstanding'
        BY <1>b DEF Outstanding
      <4> QED BY <1>6, <4>2, <4>3
    <3> QED BY <3>1
  <2>2. ASSUME NEW g \in Clients PROVE Placed(g)'
    <3>1. Placed(g)
      BY DEF FiberInv, Places
    <3> QED BY <1>6, <1>9, <2>1, <3>1 DEF Placed
  <2>3. at[Evictor] # "claimed"
    BY SMT, <1>a, <1>b DEF Places
  <2>4. ~running => Evictor \notin Range(ready')
    <3>1. ~running => at[Evictor] # "written"
      BY <1>a DEF Places
    <3> QED BY <1>a, <1>5, <1>6, <3>1 DEF Places
  <2>5. running' /\ Evictor \notin Range(ready') => Evictor \in Outstanding'
    BY <1>a, <1>b, <1>6, <2>1 DEF Places
  <2> QED BY <1>a, <1>b, <2>2, <2>3, <2>4, <2>5 DEF Places
<1>15. Data'
  BY <1>b, DataStays
<1>16. FrameCount' /\ SubmitState'
  BY <1>a, <1>b, <1>9 DEF FrameCount, SubmitState
<1> QED BY <1>9, <1>10, <1>11, <1>12, <1>13, <1>14, <1>15, <1>16, InvParts

(* Nothing happens. *)
LEMMA FiberStutter ==
    ASSUME FiberInv, UNCHANGED vars
    PROVE  FiberInv'
<1>a. TypeOK /\ Queues /\ Places /\ FrameCount /\ SubmitState
  BY InvTypes, InvFrames
<1>b. /\ ready' = ready /\ turn' = turn /\ at' = at /\ want' = want /\ ops' = ops
      /\ table' = table /\ free' = free /\ waiting' = waiting /\ allocated' = allocated
      /\ mem' = mem /\ disk' = disk /\ committed' = committed /\ UNCHANGED ioVars
      /\ toEvict' = toEvict /\ toWrite' = toWrite /\ running' = running /\ cq' = cq
  BY DEF vars, poolVars, dataVars, evictVars
<1>1. queued' = queued /\ inflight' = inflight /\ Pending' = Pending /\ SubmitState'
  BY <1>b, SameIo
<1>2. Pages' /\ Readers' /\ Resident' = Resident /\ \A p : Behind(p)' = Behind(p)
  BY <1>b, PoolStays
<1>3. Outstanding' = Outstanding
  BY <1>b, <1>1 DEF Outstanding
<1>4. TypeOK'
  BY <1>a, <1>b, <1>1, <1>2 DEF TypeOK, ioVars
<1>5. Queues' /\ FrameCount'
  BY <1>a, <1>b, <1>1, <1>2 DEF Queues, FrameCount
<1>6. Waits'
  BY <1>b, <1>2 DEF FiberInv, Waits
<1>7. Ios'
  BY <1>b, <1>1 DEF FiberInv, Ios
<1>8. Places'
  <2>1. \A g \in Clients : Placed(g)'
    BY <1>a, <1>b, <1>2, <1>3 DEF Places, Placed
  <2> QED BY <1>a, <1>b, <1>3, <2>1 DEF Places
<1>9. Data'
  BY <1>b, <1>1, DataStays
<1> QED BY <1>1, <1>2, <1>4, <1>5, <1>6, <1>7, <1>8, <1>9, InvParts

LEMMA FiberStep == ASSUME FiniteFacts PROVE FiberInv /\ [Next]_vars => FiberInv'
<1> SUFFICES ASSUME FiberInv, [Next]_vars PROVE FiberInv'
  OBVIOUS
<1>1. ASSUME NEW f \in Clients, NEW w \in Wants, Access(f, w) PROVE FiberInv'
  BY <1>1, AccessStep
<1>2. ASSUME NEW f \in Clients, NEW w \in Wants, allocPage(f, w) PROVE FiberInv'
  BY <1>2, allocPageStep
<1>3. ASSUME NEW f \in Clients, NEW w \in Wants, NoFrame(f, w) PROVE FiberInv'
  BY <1>3, NoFrameStep
<1>4. ASSUME NEW f \in Clients, NEW w \in Wants, handleFault(f, w) PROVE FiberInv'
  BY <1>4, handleFaultStep
<1>5. ASSUME NEW f \in Clients, NEW w \in Wants, handleWait(f, w) PROVE FiberInv'
  BY <1>5, handleWaitStep
<1>6. ASSUME NEW f \in Clients, ReadDone(f) PROVE FiberInv'
  BY <1>6, ReadDoneStep
<1>7. CASE Rest
  BY <1>7, RestStep
<1>8. CASE io_batch
  BY <1>8, io_batchStep
<1>9. CASE EvictNow
  BY <1>9, EvictNowStep
<1>10. ASSUME NEW V \in SUBSET Resident, Sweep(V) PROVE FiberInv'
  BY <1>10, SweepStep
<1>11. CASE drain_cqe
  BY <1>11, drain_cqeStep
<1>12. ASSUME NEW io \in inflight, Device(io) PROVE FiberInv'
  BY <1>12, DeviceStep
<1>13. CASE UNCHANGED vars
  BY <1>13, FiberStutter
<1> QED BY <1>1, <1>2, <1>3, <1>4, <1>5, <1>6, <1>7, <1>8, <1>9, <1>10, <1>11, <1>12, <1>13 DEF Next, Client, EvictorStep
=============================================================================
