--------------------------- MODULE ReactorProofs ----------------------------
(***************************************************************************)
(* Proofs about Reactor, for any number of fibers and any size of a batch. *)
(***************************************************************************)
EXTENDS Reactor, TLAPS, FiniteSetTheorems

-----------------------------------------------------------------------------
(* Sequences without repetition: the ready ring and the queues of entries.  *)

(* Zenon is the prover of every step that names none. *)
USE Zenon

LEMMA CatOnce ==
    ASSUME NEW S, NEW s \in Seq(S), NEW t \in Seq(S)
    PROVE  /\ s \o t \in Seq(S) /\ Len(s \o t) = Len(s) + Len(t)
           /\ Range(s \o t) = Range(s) \cup Range(t)
           /\ s # <<>> => s \o t # <<>> /\ Head(s \o t) = Head(s)
           /\ IsInjective(s) /\ IsInjective(t) /\ Range(s) \cap Range(t) = {} => IsInjective(s \o t)
<1>1. s \o t \in Seq(S) /\ Len(s \o t) = Len(s) + Len(t)
  BY SMT
<1>0. \A i \in 1 .. Len(s) + Len(t) : (s \o t)[i] = IF i <= Len(s) THEN s[i] ELSE t[i - Len(s)]
  BY SMT
<1>2. Range(s \o t) = Range(s) \cup Range(t)
  <2>1. \A x \in Range(s) : x \in Range(s \o t)
    BY SMT, <1>1, <1>0 DEF Range
  <2>2. \A x \in Range(t) : x \in Range(s \o t)
    <3>1. ASSUME NEW j \in 1 .. Len(t) PROVE t[j] \in Range(s \o t)
      <4>1. t[j] = (s \o t)[j + Len(s)] /\ j + Len(s) \in DOMAIN (s \o t)
        BY SMT, <1>0, <1>1
      <4> QED BY <4>1 DEF Range
    <3> QED BY SMT, <3>1 DEF Range
  <2>3. \A x \in Range(s \o t) : x \in Range(s) \cup Range(t)
    <3>1. ASSUME NEW i \in 1 .. Len(s) + Len(t) PROVE (s \o t)[i] \in Range(s) \cup Range(t)
      BY SMT, <1>0, <1>1 DEF Range
    <3> QED BY SMT, <1>1, <3>1 DEF Range
  <2> QED BY <2>1, <2>2, <2>3
<1>4. s # <<>> => s \o t # <<>> /\ Head(s \o t) = Head(s)
  BY SMT, <1>0, <1>1
<1>5. ASSUME IsInjective(s), IsInjective(t), Range(s) \cap Range(t) = {}
      PROVE  IsInjective(s \o t)
  <2>1. ASSUME NEW i \in 1 .. Len(s), NEW j \in 1 .. Len(t) PROVE s[i] # t[j]
    <3>1. DOMAIN s = 1 .. Len(s) /\ DOMAIN t = 1 .. Len(t)
      BY SMT
    <3>2. s[i] \in Range(s) /\ t[j] \in Range(t)
      BY <3>1 DEF Range
    <3> QED BY <1>5, <3>2
  <2>2. ASSUME NEW i \in 1 .. Len(s) + Len(t), NEW j \in 1 .. Len(s) + Len(t), (s \o t)[i] = (s \o t)[j]
        PROVE  i = j
    <3>1. CASE i <= Len(s) /\ j <= Len(s)
      BY SMT, <1>0, <1>5, <2>2, <3>1 DEF IsInjective
    <3>2. CASE i > Len(s) /\ j > Len(s)
      <4>1. t[i - Len(s)] = t[j - Len(s)] /\ i - Len(s) \in DOMAIN t /\ j - Len(s) \in DOMAIN t
        BY SMT, <1>0, <2>2, <3>2
      <4>2. i - Len(s) = j - Len(s)
        BY <1>5, <4>1 DEF IsInjective
      <4> QED BY SMT, <4>2
    <3>3. CASE i <= Len(s) /\ j > Len(s)
      BY SMT, <1>0, <2>1, <2>2, <3>3
    <3>4. CASE i > Len(s) /\ j <= Len(s)
      <4>1. t[i - Len(s)] = s[j] /\ i - Len(s) \in 1 .. Len(t) /\ j \in 1 .. Len(s)
        BY SMT, <1>0, <2>2, <3>4
      <4> QED BY <2>1, <4>1
    <3> QED BY SMT, <3>1, <3>2, <3>3, <3>4
  <2> QED BY SMT, <1>1, <2>2 DEF IsInjective
<1> QED BY <1>1, <1>2, <1>4, <1>5

LEMMA OneOnce ==
    ASSUME NEW S, NEW x \in S
    PROVE  <<x>> \in Seq(S) /\ Len(<<x>>) = 1 /\ Range(<<x>>) = {x} /\ IsInjective(<<x>>)
<1>1. <<x>> \in Seq(S) /\ Len(<<x>>) = 1 /\ DOMAIN <<x>> = 1 .. 1 /\ <<x>>[1] = x
  BY SMT
<1>2. Range(<<x>>) = {x}
  BY SMT, <1>1 DEF Range
<1> QED BY SMT, <1>1, <1>2 DEF IsInjective

LEMMA EmptyOnce ==
    ASSUME NEW S
    PROVE  << >> \in Seq(S) /\ Len(<< >>) = 0 /\ Range(<< >>) = {} /\ IsInjective(<< >>)
BY SMT DEF Range, IsInjective

LEMMA AppendOnce ==
    ASSUME NEW S, NEW s \in Seq(S), NEW x \in S
    PROVE  /\ Append(s, x) \in Seq(S) /\ Len(Append(s, x)) = Len(s) + 1
           /\ Range(Append(s, x)) = Range(s) \cup {x}
           /\ s # <<>> => Head(Append(s, x)) = Head(s)
           /\ IsInjective(s) /\ x \notin Range(s) => IsInjective(Append(s, x))
<1>1. Append(s, x) = s \o <<x>>
  BY SMT
<1>2. <<x>> \in Seq(S) /\ Len(<<x>>) = 1 /\ Range(<<x>>) = {x} /\ IsInjective(<<x>>)
  BY OneOnce
<1> DEFINE u == <<x>>
<1> HIDE DEF u
<1>3. u \in Seq(S) /\ Len(u) = 1 /\ Range(u) = {x} /\ IsInjective(u) /\ Append(s, x) = s \o u
  BY <1>1, <1>2 DEF u
<1> QED BY SMT, <1>3, CatOnce

LEMMA TailOnce ==
    ASSUME NEW S, NEW s \in Seq(S), s # <<>>, IsInjective(s)
    PROVE  /\ Tail(s) \in Seq(S) /\ Len(Tail(s)) = Len(s) - 1
           /\ Head(s) \in S /\ Head(s) \in Range(s)
           /\ Range(Tail(s)) = Range(s) \ {Head(s)}
           /\ IsInjective(Tail(s))
<1>1. Tail(s) \in Seq(S) /\ Len(Tail(s)) = Len(s) - 1 /\ Len(s) \in Nat /\ Len(s) >= 1
  BY SMT
<1>2. \A i \in 1 .. Len(s) - 1 : Tail(s)[i] = s[i + 1]
  BY SMT
<1>3. Head(s) = s[1] /\ Head(s) \in S /\ Head(s) \in Range(s)
  BY SMT, <1>1 DEF Range
<1>4. ASSUME NEW x PROVE x \in Range(Tail(s)) <=> x \in Range(s) \ {Head(s)}
  <2>1. ASSUME x \in Range(Tail(s)) PROVE x \in Range(s) \ {Head(s)}
    <3>1. PICK i \in 1 .. Len(s) - 1 : x = Tail(s)[i]
      BY SMT, <1>1, <2>1 DEF Range
    <3>2. x = s[i + 1] /\ i + 1 \in DOMAIN s /\ 1 \in DOMAIN s /\ i + 1 # 1
      BY SMT, <1>1, <1>2, <3>1
    <3> QED BY <1>3, <3>2 DEF Range, IsInjective
  <2>2. ASSUME x \in Range(s) \ {Head(s)} PROVE x \in Range(Tail(s))
    <3>1. PICK i \in 1 .. Len(s) : x = s[i]
      BY SMT, <2>2 DEF Range
    <3>2. i # 1 /\ i - 1 \in 1 .. Len(s) - 1 /\ Tail(s)[i - 1] = s[i]
      BY SMT, <1>1, <1>2, <1>3, <2>2, <3>1
    <3>3. i - 1 \in DOMAIN Tail(s)
      BY SMT, <1>1, <3>2
    <3> QED BY <3>1, <3>2, <3>3 DEF Range
  <2> QED BY <2>1, <2>2
<1>5. IsInjective(Tail(s))
  <2>1. ASSUME NEW i \in 1 .. Len(s) - 1, NEW j \in 1 .. Len(s) - 1, Tail(s)[i] = Tail(s)[j] PROVE i = j
    <3>1. s[i + 1] = s[j + 1] /\ i + 1 \in DOMAIN s /\ j + 1 \in DOMAIN s
      BY SMT, <1>1, <1>2, <2>1
    <3>2. i + 1 = j + 1
      BY <3>1 DEF IsInjective
    <3> QED BY SMT, <3>2
  <2> QED BY SMT, <1>1, <2>1 DEF IsInjective
<1> QED BY <1>1, <1>3, <1>4, <1>5

LEMMA LastIndex ==
    ASSUME NEW n \in Nat, NEW T, T \subseteq 1 .. n, T # {}
    PROVE  \E x \in T : \A y \in T : y <= x
<1> DEFINE U == {m \in Nat : \E x \in T : m = n - x}
<1>1. U \subseteq Nat /\ U # {}
  <2>1. PICK x \in T : TRUE
    OBVIOUS
  <2>2. n - x \in U
    BY SMT, <2>1
  <2> QED BY <2>2
<1>2. IsWellFoundedOn(OpToRel(<, Nat), Nat)
  BY NatLessThanWellFounded
<1>3. PICK m \in U : \A k \in U : ~ (<<k, m>> \in OpToRel(<, Nat))
  <2> HIDE DEF U
  <2> QED BY <1>1, <1>2, WFMin
<1>4. \A k \in U : ~ (k < m)
  BY <1>1, <1>3 DEF OpToRel
<1>5. PICK x \in T : m = n - x
  BY <1>3
<1>6. ASSUME NEW y \in T PROVE y <= x
  <2>1. n - y \in U
    BY SMT
  <2>2. ~ (n - y < m)
    BY <1>4, <2>1
  <2> QED BY SMT, <1>5, <2>2
<1> QED BY <1>6

(* A sequence in ascending order, as long as D is large, runs through D.    *)
LEMMA AscendingOnce ==
    ASSUME NEW D, D \subseteq Nat, IsFiniteSet(D), NEW s \in [1 .. Cardinality(D) -> D],
           \A i, j \in DOMAIN s : i < j => s[i] < s[j]
    PROVE  /\ DOMAIN s = 1 .. Cardinality(D) /\ s \in Seq(D) /\ IsInjective(s)
           /\ \A k \in DOMAIN s : s[k] \in D
           /\ \A d \in D : \E k \in DOMAIN s : s[k] = d
<1>2. Cardinality(D) \in Nat
  BY FS_CardinalityType
<1>3. IsInjective(s)
  <2>1. ASSUME NEW i \in DOMAIN s, NEW j \in DOMAIN s, s[i] = s[j] PROVE i = j
    <3>1. i \in 1 .. Cardinality(D) /\ j \in 1 .. Cardinality(D) /\ s[i] \in Nat /\ s[j] \in Nat
      OBVIOUS
    <3>2. ~(i < j) /\ ~(j < i)
      BY SMT, <2>1, <3>1
    <3> QED BY SMT, <1>2, <3>1, <3>2
  <2> QED BY <2>1 DEF IsInjective
<1>4. s \in Injection(1 .. Cardinality(D), D)
  BY <1>3 DEF Injection
<1>5. Cardinality(1 .. Cardinality(D)) = Cardinality(D)
  BY SMT, <1>2, FS_Interval
<1>6. s \in Surjection(1 .. Cardinality(D), D)
  BY <1>4, <1>5, FS_Injection
<1>7. s \in Seq(D) /\ DOMAIN s = 1 .. Cardinality(D)
  BY SMT, <1>2
<1> QED BY <1>3, <1>6, <1>7 DEF Surjection

(* It has as many elements as it is long, and as many of a kind as there    *)
(* are places of that kind.                                                 *)
LEMMA PlacesOnce ==
    ASSUME NEW S, NEW s \in Seq(S), IsInjective(s), NEW K, K \subseteq DOMAIN s
    PROVE  /\ IsFiniteSet(K) /\ IsFiniteSet({s[k] : k \in K})
           /\ Cardinality({s[k] : k \in K}) = Cardinality(K) /\ Cardinality(K) \in Nat
<1>0. PICK T : T = {s[k] : k \in K}
  OBVIOUS
<1>1. IsFiniteSet(K) /\ Cardinality(K) \in Nat
  <2>1. DOMAIN s = 1 .. Len(s) /\ Len(s) \in Nat
    BY SMT
  <2>2. IsFiniteSet(1 .. Len(s))
    BY SMT, <2>1, FS_Interval
  <2>3. IsFiniteSet(K)
    BY <2>1, <2>2, FS_Subset
  <2> QED BY <2>3, FS_CardinalityType
<1> DEFINE g == [k \in K |-> s[k]]
<1>2. g \in [K -> T] /\ \A k \in K : g[k] = s[k]
  BY <1>0
<1> HIDE DEF g
<1>3. \A t \in T : \E k \in K : g[k] = t
  BY <1>0, <1>2
<1>4. \A a, b \in K : g[a] = g[b] => a = b
  BY <1>2 DEF IsInjective
<1>5. g \in Bijection(K, T)
  BY <1>2, <1>3, <1>4 DEF Bijection, Injection, Surjection, IsInjective
<1>6. ExistsBijection(K, T)
  BY <1>5 DEF ExistsBijection
<1>7. IsFiniteSet(T) /\ Cardinality(T) = Cardinality(K)
  BY <1>1, <1>6, FS_Bijection
<1> QED BY <1>0, <1>1, <1>7

LEMMA OnceCard ==
    ASSUME NEW S, NEW s \in Seq(S), IsInjective(s)
    PROVE  /\ IsFiniteSet(Range(s)) /\ Cardinality(Range(s)) = Len(s) /\ Len(s) \in Nat
           /\ s = <<>> <=> Range(s) = {}
<1>1. DOMAIN s = 1 .. Len(s) /\ Len(s) \in Nat
  BY SMT
<1>2. IsFiniteSet(1 .. Len(s))
  BY SMT, <1>1, FS_Interval
<1>3. IsFiniteSet(Range(s)) /\ Cardinality(Range(s)) = Cardinality(1 .. Len(s))
  <2>1. s \in Bijection(1 .. Len(s), Range(s))
    BY SMT, <1>1 DEF Bijection, Injection, Surjection, IsInjective, Range
  <2> QED BY <1>2, <2>1, FS_Bijection DEF ExistsBijection
<1>4. Cardinality(1 .. Len(s)) = Len(s)
  BY SMT, <1>1, FS_Interval
<1>5. s = <<>> <=> Len(s) = 0
  BY SMT
<1>6. Cardinality(Range(s)) = 0 <=> Range(s) = {}
  BY <1>3, FS_EmptySet
<1> QED BY <1>1, <1>3, <1>4, <1>5, <1>6

(* Its parts have nothing in common. *)
LEMMA SplitOnce ==
    ASSUME NEW S, NEW s \in Seq(S), IsInjective(s), NEW n \in 0 .. Len(s)
    PROVE  /\ SubSeq(s, 1, n) \in Seq(S) /\ Len(SubSeq(s, 1, n)) = n /\ IsInjective(SubSeq(s, 1, n))
           /\ SubSeq(s, n + 1, Len(s)) \in Seq(S) /\ Len(SubSeq(s, n + 1, Len(s))) = Len(s) - n
           /\ IsInjective(SubSeq(s, n + 1, Len(s)))
           /\ Range(SubSeq(s, 1, n)) \cap Range(SubSeq(s, n + 1, Len(s))) = {}
           /\ Range(SubSeq(s, 1, n)) \cup Range(SubSeq(s, n + 1, Len(s))) = Range(s)
<1>a. PICK a : a = SubSeq(s, 1, n)
  OBVIOUS
<1>b. PICK b : b = SubSeq(s, n + 1, Len(s))
  OBVIOUS
<1>1. Len(s) \in Nat
  BY SMT
<1>2. a \in Seq(S) /\ Len(a) = n /\ \A i \in 1 .. n : a[i] = s[i]
  BY SMT, <1>1, <1>a
<1>3. b \in Seq(S)
  BY SMT, <1>1, <1>b
<1>4. Len(b) = Len(s) - n
  BY SMT, <1>1, <1>b
<1>5. \A i \in 1 .. Len(s) - n : b[i] = s[n + i]
  BY SMT, <1>1, <1>b
<1>6. ASSUME NEW c \in Seq(S), NEW d \in Seq(S), Len(c) = n, \A i \in 1 .. n : c[i] = s[i],
             Len(d) = Len(s) - n, \A i \in 1 .. Len(s) - n : d[i] = s[n + i]
      PROVE  /\ IsInjective(c) /\ IsInjective(d)
             /\ Range(c) \cap Range(d) = {} /\ Range(c) \cup Range(d) = Range(s)
  <2>1. DOMAIN s = 1 .. Len(s) /\ Len(s) \in Nat
    BY SMT
  <2>2. DOMAIN c = 1 .. n /\ \A i \in 1 .. n : c[i] = s[i]
    BY SMT, <1>6
  <2>3. DOMAIN d = 1 .. Len(s) - n /\ \A i \in 1 .. Len(s) - n : d[i] = s[n + i]
    BY SMT, <1>6
  <2>4. IsInjective(c)
    <3>1. ASSUME NEW i \in 1 .. n, NEW j \in 1 .. n, c[i] = c[j] PROVE i = j
      <4>1. s[i] = s[j] /\ i \in DOMAIN s /\ j \in DOMAIN s
        BY SMT, <2>1, <2>2, <3>1
      <4> QED BY <4>1 DEF IsInjective
    <3> QED BY <2>2, <3>1 DEF IsInjective
  <2>5. IsInjective(d)
    <3>1. ASSUME NEW i \in 1 .. Len(s) - n, NEW j \in 1 .. Len(s) - n, d[i] = d[j] PROVE i = j
      <4>1. s[n + i] = s[n + j] /\ n + i \in DOMAIN s /\ n + j \in DOMAIN s
        BY SMT, <2>1, <2>3, <3>1
      <4>2. n + i = n + j
        BY <4>1 DEF IsInjective
      <4> QED BY SMT, <4>2
    <3> QED BY <2>3, <3>1 DEF IsInjective
  <2>6. ASSUME NEW i \in 1 .. n, NEW j \in 1 .. Len(s) - n PROVE c[i] # d[j]
    <3>1. c[i] = s[i] /\ d[j] = s[n + j] /\ i \in DOMAIN s /\ n + j \in DOMAIN s /\ i # n + j
      BY SMT, <2>1, <2>2, <2>3
    <3> QED BY <3>1 DEF IsInjective
  <2>7. Range(c) \cap Range(d) = {}
    BY SMT, <2>2, <2>3, <2>6 DEF Range
  <2>8. Range(c) \cup Range(d) \subseteq Range(s)
    <3>1. ASSUME NEW i \in 1 .. n PROVE c[i] \in Range(s)
      <4>1. c[i] = s[i] /\ i \in DOMAIN s
        BY SMT, <2>1, <2>2
      <4> QED BY <4>1 DEF Range
    <3>2. ASSUME NEW i \in 1 .. Len(s) - n PROVE d[i] \in Range(s)
      <4>1. d[i] = s[n + i] /\ n + i \in DOMAIN s
        BY SMT, <2>1, <2>3
      <4> QED BY <4>1 DEF Range
    <3> QED BY <2>2, <2>3, <3>1, <3>2 DEF Range
  <2>9. ASSUME NEW i \in DOMAIN s PROVE s[i] \in Range(c) \cup Range(d)
    <3>1. CASE i <= n
      <4>1. i \in DOMAIN c /\ c[i] = s[i]
        BY SMT, <2>1, <2>2, <3>1
      <4> QED BY <4>1 DEF Range
    <3>2. CASE i > n
      <4>1. i - n \in DOMAIN d /\ d[i - n] = s[i]
        BY SMT, <2>1, <2>3, <3>2
      <4> QED BY <4>1 DEF Range
    <3> QED BY SMT, <2>1, <3>1, <3>2
  <2>10. Range(s) \subseteq Range(c) \cup Range(d)
    BY <2>9 DEF Range
  <2> QED BY <2>4, <2>5, <2>7, <2>8, <2>10
<1>7. /\ IsInjective(a) /\ IsInjective(b)
      /\ Range(a) \cap Range(b) = {} /\ Range(a) \cup Range(b) = Range(s)
  BY <1>2, <1>3, <1>4, <1>5, <1>6
<1> QED BY <1>a, <1>b, <1>2, <1>3, <1>4, <1>7

(* A finite set can be listed. *)
LEMMA ListOnce ==
    ASSUME NEW S, IsFiniteSet(S), NEW s, s = CHOOSE t \in Bijection(1 .. Cardinality(S), S) : TRUE
    PROVE  s \in Seq(S) /\ Len(s) = Cardinality(S) /\ IsInjective(s) /\ Range(s) = S
<1>1. Cardinality(S) \in Nat /\ Bijection(1 .. Cardinality(S), S) # {}
  BY FS_CardinalityType DEF ExistsBijection
<1>2. s \in Bijection(1 .. Cardinality(S), S)
  BY <1>1
<1>3. s \in [1 .. Cardinality(S) -> S] /\ IsInjective(s) /\ \A x \in S : \E k \in 1 .. Cardinality(S) : s[k] = x
  BY <1>2 DEF Bijection, Injection, Surjection
<1>4. s \in Seq(S) /\ Len(s) = Cardinality(S) /\ DOMAIN s = 1 .. Cardinality(S)
  BY SMT, <1>1, <1>3
<1>5. Range(s) = S
  BY <1>3, <1>4 DEF Range
<1> QED BY <1>3, <1>4, <1>5

-----------------------------------------------------------------------------
(* The inductive invariant.                                                 *)

(* The fibers that are ready are in the ring, once each; the running fiber  *)
(* is neither there nor parked.                                             *)
Rings ==
    /\ phase \in {"top", "pass", "drain"} /\ left \in 0 .. Len(ready)
    /\ state \in [Fibers -> {"Ready", "Running", "io", "wait"}]
    /\ ready \in Seq(Fibers) /\ IsInjective(ready)
    /\ Range(ready) = {f \in Fibers : state[f] = "Ready"}
    /\ cur # None => phase = "pass" /\ cur \in Fibers /\ state[cur] = "Running"

(* An entry is in one place only. *)
Entries == Fibers \X (1 .. BatchSize)
UnderWay == Range(sq) \cup kernel \cup Range(cq)
Queues ==
    /\ sq \in Seq(Entries) /\ IsInjective(sq) /\ cq \in Seq(Entries) /\ IsInjective(cq)
    /\ kernel \subseteq Entries /\ IsFiniteSet(kernel)
    /\ Range(sq) \cap kernel = {} /\ Range(sq) \cap Range(cq) = {} /\ kernel \cap Range(cq) = {}

(* A fiber counts the entries of its operation, and is parked as long as    *)
(* there are any.                                                           *)
Of(E, f) == {e \in E : e[1] = f}
Owners ==
    /\ cqeLeft \in [Fibers -> 0 .. BatchSize]
    /\ \A f \in Fibers : cqeLeft[f] = Cardinality(Of(UnderWay, f))
    /\ \A f \in Fibers : cqeLeft[f] > 0 <=> state[f] = "io"

(* io_uring_submit may leave entries behind that are counted as submitted:  *)
(* they are the ones that to_submit does not count.                         *)
Counts ==
    /\ toSubmit \in 0 .. Len(sq) /\ pending = toSubmit
    /\ ~Partial => toSubmit = Len(sq)
    /\ submitted = Cardinality(kernel) + Len(cq) + (Len(sq) - toSubmit)
    /\ outstanding = submitted + pending
    /\ since \in Nat /\ always \in BOOLEAN
    /\ ~always => since - toSubmit \in 0 .. TotalIoFibers - 1 /\ (toSubmit = 0 <=> since = 0)
(* A worker with nothing to run has submitted everything. *)
Idle == phase = "drain" /\ ready = <<>> => toSubmit = 0

ReactorInv == Rings /\ Queues /\ Owners /\ Counts /\ Idle

-----------------------------------------------------------------------------
(* The ready ring. *)
LEMMA RingFacts ==
    ASSUME Rings
    PROVE  /\ ready \in Seq(Fibers) /\ IsInjective(ready) /\ Len(ready) \in Nat
           /\ \A f \in Fibers : f \in Range(ready) <=> state[f] = "Ready"
           /\ Range(ready) \subseteq Fibers
           /\ state \in [Fibers -> {"Ready", "Running", "io", "wait"}]
           /\ cur # None => phase = "pass" /\ cur \in Fibers /\ state[cur] = "Running"
           /\ left \in Nat /\ left <= Len(ready) /\ phase \in {"top", "pass", "drain"}
<1>1. ready \in Seq(Fibers) /\ Range(ready) = {f \in Fibers : state[f] = "Ready"} /\ left \in 0 .. Len(ready)
  BY DEF Rings
<1>2. Len(ready) \in Nat /\ left \in Nat /\ left <= Len(ready)
  BY SMT, <1>1
<1> QED BY <1>1, <1>2 DEF Rings

(* The state of one fiber changes, neither from nor to Ready. *)
LEMMA StateMoves ==
    ASSUME Rings, NEW g \in Fibers, NEW s \in {"Ready", "Running", "io", "wait"},
           state' = [state EXCEPT ![g] = s]
    PROVE  /\ state' \in [Fibers -> {"Ready", "Running", "io", "wait"}]
           /\ state'[g] = s /\ \A f \in Fibers \ {g} : state'[f] = state[f]
BY RingFacts

LEMMA ParkRings ==
    ASSUME Rings, cur # None, NEW why \in {"io", "wait"}, Park(why)
    PROVE  Rings' /\ phase' = "pass" /\ cur \in Fibers /\ state[cur] = "Running"
           /\ state'[cur] = why /\ \A f \in Fibers \ {cur} : state'[f] = state[f]
<1>1. cur \in Fibers /\ state[cur] = "Running" /\ phase = "pass"
  BY RingFacts
<1>2. state' = [state EXCEPT ![cur] = why] /\ cur' = None /\ phase' = phase /\ left' = left /\ ready' = ready
  BY DEF Park
<1>3. PICK c : c = cur
  OBVIOUS
<1>4. /\ state' \in [Fibers -> {"Ready", "Running", "io", "wait"}]
      /\ state'[c] = why /\ \A f \in Fibers \ {c} : state'[f] = state[f]
  BY <1>1, <1>2, <1>3, StateMoves
<1>5. \A f \in Fibers : state'[f] = "Ready" <=> state[f] = "Ready"
  <2>1. ASSUME NEW f \in Fibers PROVE state'[f] = "Ready" <=> state[f] = "Ready"
    <3>1. CASE f = c
      BY <1>1, <1>3, <1>4, <3>1
    <3>2. CASE f # c
      BY <1>4, <3>2
    <3> QED BY <3>1, <3>2
  <2> QED BY <2>1
<1>6. Range(ready') = {f \in Fibers : state'[f] = "Ready"}
  BY <1>2, <1>5, RingFacts
<1>7. Rings'
  BY <1>2, <1>4, <1>6 DEF Rings
<1> QED BY <1>1, <1>2, <1>3, <1>4, <1>7

(* A fiber that is not in the ring enters it at the end. *)
LEMMA EnterRings ==
    ASSUME Rings, NEW g \in Fibers, state[g] # "Ready",
           state' = [state EXCEPT ![g] = "Ready"], ready' = Append(ready, g),
           left' = left, phase' = phase, cur' = None \/ (cur' = cur /\ cur # g)
    PROVE  /\ Rings' /\ ready' # <<>>
           /\ state'[g] = "Ready" /\ \A f \in Fibers \ {g} : state'[f] = state[f]
<1>1. /\ state' \in [Fibers -> {"Ready", "Running", "io", "wait"}]
      /\ state'[g] = "Ready" /\ \A f \in Fibers \ {g} : state'[f] = state[f]
  BY StateMoves
<1>2. ready \in Seq(Fibers) /\ IsInjective(ready) /\ g \notin Range(ready)
  BY RingFacts
<1>3. /\ ready' \in Seq(Fibers) /\ Len(ready') = Len(ready) + 1
      /\ Range(ready') = Range(ready) \cup {g} /\ IsInjective(ready')
  BY ZenonT(40), <1>2, AppendOnce
<1>4. left' \in 0 .. Len(ready') /\ ready' # <<>>
  BY SMT, <1>3, RingFacts
<1>5. \A f \in Fibers : f \in Range(ready') <=> state'[f] = "Ready"
  BY <1>1, <1>3, RingFacts
<1>6. Range(ready') \subseteq Fibers
  BY <1>3, RingFacts
<1>7. Range(ready') = {f \in Fibers : state'[f] = "Ready"}
  BY <1>5, <1>6
<1>8. cur' # None => phase' = "pass" /\ cur' \in Fibers /\ state'[cur'] = "Running"
  <2>1. CASE cur' = None
    BY <2>1
  <2>2. CASE cur' = cur /\ cur # g /\ cur # None
    <3>1. PICK c : c = cur
      OBVIOUS
    <3>2. c \in Fibers /\ phase = "pass" /\ state[c] = "Running" /\ c # g
      BY <2>2, <3>1, RingFacts
    <3>3. state'[c] = "Running" /\ c = cur'
      BY <1>1, <2>2, <3>1, <3>2
    <3> QED BY <3>2, <3>3
  <2> QED BY <2>1, <2>2
<1>9. phase' \in {"top", "pass", "drain"}
  BY RingFacts
<1>10. Rings'
  BY <1>1, <1>3, <1>4, <1>7, <1>8, <1>9 DEF Rings
<1> QED BY <1>1, <1>4, <1>10

-----------------------------------------------------------------------------
(* Entries on their way. *)
LEMMA QueueFacts ==
    ASSUME Queues
    PROVE  /\ IsFiniteSet(Range(sq)) /\ IsFiniteSet(kernel) /\ IsFiniteSet(Range(cq))
           /\ IsFiniteSet(UnderWay) /\ UnderWay \subseteq Entries
           /\ Range(sq) \subseteq Entries /\ Range(cq) \subseteq Entries
           /\ Len(sq) \in Nat /\ Len(cq) \in Nat /\ Cardinality(kernel) \in Nat
           /\ \A f : IsFiniteSet(Of(UnderWay, f)) /\ Cardinality(Of(UnderWay, f)) \in Nat
<1>1. sq \in Seq(Entries) /\ IsInjective(sq) /\ cq \in Seq(Entries) /\ IsInjective(cq)
      /\ kernel \subseteq Entries /\ IsFiniteSet(kernel)
  BY DEF Queues
<1>2. IsFiniteSet(Range(sq)) /\ IsFiniteSet(Range(cq)) /\ Len(sq) \in Nat /\ Len(cq) \in Nat
  BY <1>1, OnceCard
<1>3. Range(sq) \subseteq Entries /\ Range(cq) \subseteq Entries
  BY SMT, <1>1 DEF Range
<1>4. IsFiniteSet(Range(sq) \cup kernel)
  BY <1>1, <1>2, FS_Union
<1>5. IsFiniteSet(UnderWay)
  BY <1>2, <1>4, FS_Union DEF UnderWay
<1>6. Cardinality(kernel) \in Nat
  BY <1>1, FS_CardinalityType
<1>7. UnderWay \subseteq Entries
  BY <1>1, <1>3 DEF UnderWay
<1>8. ASSUME NEW f PROVE IsFiniteSet(Of(UnderWay, f)) /\ Cardinality(Of(UnderWay, f)) \in Nat
  <2>1. Of(UnderWay, f) \subseteq UnderWay
    BY DEF Of
  <2>2. IsFiniteSet(Of(UnderWay, f))
    BY <1>5, <2>1, FS_Subset
  <2> QED BY <2>2, FS_CardinalityType
<1> QED BY <1>1, <1>2, <1>3, <1>5, <1>6, <1>7, <1>8

(* A queue that may be submitted: nothing in it is under way already. *)
Fresh(q) == q \in Seq(Entries) /\ IsInjective(q) /\ Range(q) \cap kernel = {} /\ Range(q) \cap Range(cq) = {}

(* The first entries of a queue go to the kernel, the others stay. *)
LEMMA SubmitMoves ==
    ASSUME Queues, NEW q, Fresh(q), NEW expected \in 0 .. Len(q), Partial \in BOOLEAN,
           submit_exact(q, expected), cq' = cq
    PROVE  /\ Queues' /\ UnderWay' = Range(q) \cup kernel \cup Range(cq)
           /\ Cardinality(kernel') + Len(sq') = Cardinality(kernel) + Len(q)
           /\ Cardinality(kernel) \in Nat /\ Cardinality(kernel') \in Nat /\ Len(sq') \in Nat /\ Len(q) \in Nat
           /\ Len(sq') <= Len(q) - expected /\ (~Partial => Len(sq') = 0)
<1>1. q \in Seq(Entries) /\ IsInjective(q) /\ Range(q) \cap kernel = {} /\ Range(q) \cap Range(cq) = {}
  BY DEF Fresh
<1>2. PICK n \in Takes(q, expected) :
          kernel' = kernel \cup Range(SubSeq(q, 1, n)) /\ sq' = SubSeq(q, n + 1, Len(q))
  BY DEF submit_exact
<1>3. Len(q) \in Nat /\ n \in 0 .. Len(q) /\ n >= expected /\ (~Partial => n = Len(q))
  BY SMT, <1>1, <1>2 DEF Takes
<1>4. PICK a : a = SubSeq(q, 1, n)
  OBVIOUS
<1>5. PICK b : b = SubSeq(q, n + 1, Len(q))
  OBVIOUS
<1>6. /\ a \in Seq(Entries) /\ Len(a) = n /\ IsInjective(a)
      /\ b \in Seq(Entries) /\ Len(b) = Len(q) - n /\ IsInjective(b)
      /\ Range(a) \cap Range(b) = {} /\ Range(a) \cup Range(b) = Range(q)
  <2>1. q \in Seq(Entries) /\ IsInjective(q) /\ n \in 0 .. Len(q)
    BY <1>1, <1>3
  <2> QED BY SMT, <2>1, <1>4, <1>5, SplitOnce
<1>7. kernel' = kernel \cup Range(a) /\ sq' = b
  BY <1>2, <1>4, <1>5
<1>8. IsFiniteSet(Range(a)) /\ Cardinality(Range(a)) = n /\ Range(a) \subseteq Entries
  <2>1. Range(a) \subseteq Entries
    BY SMT, <1>6 DEF Range
  <2> QED BY <2>1, <1>6, OnceCard
<1>9. IsFiniteSet(kernel) /\ kernel \subseteq Entries /\ kernel \cap Range(a) = {} /\ kernel \cap Range(cq) = {}
      /\ cq \in Seq(Entries) /\ IsInjective(cq)
  BY <1>1, <1>6 DEF Queues
<1>10. IsFiniteSet(kernel \cup Range(a)) /\ Cardinality(kernel \cup Range(a)) = Cardinality(kernel) + n
       /\ Cardinality(kernel) \in Nat
  <2>1. IsFiniteSet(kernel \cup Range(a))
        /\ Cardinality(kernel \cup Range(a)) = Cardinality(kernel) + Cardinality(Range(a)) - Cardinality(kernel \cap Range(a))
    BY <1>8, <1>9, FS_Union
  <2>2. Cardinality(kernel \cap Range(a)) = 0
    BY <1>9, FS_EmptySet
  <2>3. Cardinality(kernel) \in Nat
    BY <1>9, FS_CardinalityType
  <2> QED BY SMT, <2>1, <2>2, <2>3, <1>8, <1>3
<1>11. kernel' \subseteq Entries /\ Range(sq') \cap kernel' = {} /\ Range(sq') \cap Range(cq') = {} /\ kernel' \cap Range(cq') = {}
  BY <1>1, <1>6, <1>7, <1>8, <1>9
<1>12. Queues'
  BY <1>6, <1>7, <1>9, <1>10, <1>11 DEF Queues
<1>13. UnderWay' = Range(q) \cup kernel \cup Range(cq)
  <2>1. UnderWay' = Range(b) \cup (kernel \cup Range(a)) \cup Range(cq)
    BY <1>7 DEF UnderWay
  <2> QED BY <2>1, <1>6
<1>14. Len(sq') = Len(q) - n /\ Cardinality(kernel') = Cardinality(kernel) + n
  BY <1>6, <1>7, <1>10
<1> QED BY SMT, <1>3, <1>10, <1>12, <1>13, <1>14

LEMMA QueueStays ==
    ASSUME Queues, NEW q, Fresh(q), sq' = q, kernel' = kernel, cq' = cq
    PROVE  /\ Queues' /\ UnderWay' = Range(q) \cup kernel \cup Range(cq)
           /\ Len(q) \in Nat /\ Cardinality(kernel) \in Nat
<1>1. Queues'
  BY DEF Queues, Fresh
<1>2. UnderWay' = Range(q) \cup kernel \cup Range(cq)
  BY DEF UnderWay
<1>3. Len(q) \in Nat
  BY SMT DEF Fresh
<1> QED BY <1>1, <1>2, <1>3, QueueFacts

LEMMA TotalFacts ==
    ASSUME WellConfigured
    PROVE  TotalIoFibers \in Nat /\ TotalIoFibers > 0 /\ Partial \in BOOLEAN
<1>1. IsFiniteSet(Fibers) /\ Fibers # {} /\ Partial \in BOOLEAN
  BY DEF WellConfigured
<1>2. Cardinality(Fibers) \in Nat /\ Cardinality(Fibers) # 0
  BY <1>1, FS_CardinalityType, FS_EmptySet
<1> QED BY SMT, <1>1, <1>2 DEF TotalIoFibers

(* check_submit keeps the counters exact, with the new entries outstanding. *)
LEMMA CheckSubmit ==
    ASSUME WellConfigured, Queues, Counts, NEW new \in {0, 1},
           NEW q, Fresh(q), Len(q) = Len(sq) + new,
           check_submit(q, new), cq' = cq, always' = always, outstanding' = outstanding + new
    PROVE  Queues' /\ Counts' /\ UnderWay' = Range(q) \cup kernel \cup Range(cq)
<1>0. PICK total : total = TotalIoFibers
  OBVIOUS
<1>1. total \in Nat /\ total > 0 /\ Partial \in BOOLEAN
  BY <1>0, TotalFacts
<1>2. PICK k \in Nat, l \in Nat, c \in Nat : k = Cardinality(kernel) /\ l = Len(sq) /\ c = Len(cq)
  BY QueueFacts
<1>3. /\ toSubmit \in 0 .. l /\ pending = toSubmit /\ since \in Nat
      /\ submitted = k + c + (l - toSubmit) /\ outstanding = submitted + pending
  BY <1>2 DEF Counts
<1>4. always \in BOOLEAN /\ (~Partial => toSubmit = l)
  BY <1>2 DEF Counts
<1>5. ~always => since - toSubmit \in 0 .. total - 1 /\ (toSubmit = 0 <=> since = 0)
  BY <1>0 DEF Counts
<1>6. new \in Nat /\ new <= 1 /\ Len(q) = l + new
  BY SMT, <1>2
<1>7. toSubmit + new \in 0 .. Len(q) /\ Len(q) \in Nat
  BY SMT, <1>3, <1>6
<1>8. ASSUME Submit(q, toSubmit + new, new), (always /\ since' = since) \/ (~always /\ since' = 0)
      PROVE  Queues' /\ Counts' /\ UnderWay' = Range(q) \cup kernel \cup Range(cq)
  <2>1. submit_exact(q, toSubmit + new) /\ submitted' = submitted + pending + new /\ pending' = 0 /\ toSubmit' = 0
    BY <1>8 DEF Submit
  <2>2. /\ Queues' /\ UnderWay' = Range(q) \cup kernel \cup Range(cq)
        /\ Cardinality(kernel') + Len(sq') = Cardinality(kernel) + Len(q)
        /\ Cardinality(kernel') \in Nat /\ Len(sq') \in Nat /\ (~Partial => Len(sq') = 0)
    BY <1>1, <1>7, <2>1, SubmitMoves
  <2>3. PICK k2 \in Nat, l2 \in Nat : k2 = Cardinality(kernel') /\ l2 = Len(sq')
    BY <2>2
  <2>4. k2 + l2 = k + (l + new) /\ Len(cq') = c
    BY <1>2, <1>6, <2>2, <2>3
  <2>5. submitted' = k2 + c + (l2 - toSubmit') /\ outstanding' = submitted' + pending'
    BY SMT, <1>3, <1>6, <2>1, <2>4
  <2>6. ~always' => since' - toSubmit' \in 0 .. total - 1 /\ (toSubmit' = 0 <=> since' = 0)
    BY SMT, <1>1, <1>8, <2>1
  <2>7. since' \in Nat /\ toSubmit' \in 0 .. l2 /\ pending' = toSubmit' /\ (~Partial => toSubmit' = l2)
    BY SMT, <1>3, <1>8, <2>1, <2>2, <2>3
  <2>8. Counts'
    BY <1>0, <1>4, <2>3, <2>4, <2>5, <2>6, <2>7 DEF Counts, TotalIoFibers
  <2> QED BY <2>2, <2>8
<1>9. ASSUME sq' = q, toSubmit' = toSubmit + new, pending' = pending + new,
             kernel' = kernel, submitted' = submitted,
             \/ toSubmit + new = 0 /\ since' = since
             \/ /\ toSubmit + new > 0 /\ ~always /\ since' = since + 1
                /\ since + 1 - (toSubmit + new) < total \div 4
      PROVE  Queues' /\ Counts' /\ UnderWay' = Range(q) \cup kernel \cup Range(cq)
  <2>1. Queues' /\ UnderWay' = Range(q) \cup kernel \cup Range(cq)
    BY <1>9, QueueStays
  <2>2. Cardinality(kernel') = k /\ Len(cq') = c /\ Len(sq') = l + new
    BY <1>2, <1>6, <1>9
  <2>3. submitted' = k + c + ((l + new) - toSubmit') /\ outstanding' = submitted' + pending'
    BY SMT, <1>3, <1>6, <1>9
  <2>4. total \div 4 <= total - 1 /\ total \div 4 \in Int
    BY SMT, <1>1
  <2>5. ~always' => since' - toSubmit' \in 0 .. total - 1 /\ (toSubmit' = 0 <=> since' = 0)
    <3>1. CASE toSubmit + new = 0 /\ since' = since
      <4>1. toSubmit' = toSubmit /\ always' = always
        BY SMT, <1>3, <1>6, <1>9, <3>1
      <4> QED BY SMT, <1>5, <3>1, <4>1
    <3>2. CASE /\ toSubmit + new > 0 /\ ~always /\ since' = since + 1
               /\ since + 1 - (toSubmit + new) < total \div 4
      <4>1. since - toSubmit \in 0 .. total - 1
        BY <1>5, <3>2
      <4>2. since' - toSubmit' \in 0 .. total - 1
        BY SMT, <1>1, <1>3, <1>6, <1>9, <2>4, <3>2, <4>1
      <4>3. toSubmit' # 0 /\ since' # 0
        BY SMT, <1>3, <1>6, <1>9, <3>2
      <4> QED BY <4>2, <4>3
    <3> QED BY <1>9, <3>1, <3>2
  <2>6. since' \in Nat /\ toSubmit' \in 0 .. l + new /\ pending' = toSubmit'
    BY SMT, <1>3, <1>6, <1>9
  <2>7. ASSUME ~Partial PROVE toSubmit' = l + new
    BY <1>4, <1>9, <2>7
  <2>8. Counts'
    BY <1>0, <1>4, <2>2, <2>3, <2>5, <2>6, <2>7 DEF Counts, TotalIoFibers
  <2> QED BY <2>1, <2>8
<1>10. CASE toSubmit + new = 0 /\ sq' = q /\ UNCHANGED <<kernel, submitted, pending, toSubmit, since>>
  <2>1. toSubmit = 0 /\ new = 0
    BY SMT, <1>3, <1>6, <1>10
  <2>2. toSubmit' = toSubmit + new /\ pending' = pending + new /\ sq' = q /\ kernel' = kernel
        /\ submitted' = submitted /\ since' = since
    BY <1>3, <1>10, <2>1
  <2> QED BY <1>9, <1>10, <2>2
<1>11. CASE always /\ Submit(q, toSubmit + new, new) /\ UNCHANGED since
  BY <1>8, <1>11
<1>12. CASE ~always /\ Submit(q, toSubmit + new, new) /\ since' = 0
  BY <1>8, <1>12
<1>13. CASE /\ toSubmit + new > 0 /\ ~always
            /\ since + 1 # TotalIoFibers /\ since + 1 - (toSubmit + new) < TotalIoFibers \div 4
            /\ sq' = q /\ toSubmit' = toSubmit + new /\ pending' = pending + new /\ since' = since + 1
            /\ UNCHANGED <<kernel, submitted>>
  BY <1>0, <1>9, <1>13
<1> QED BY <1>10, <1>11, <1>12, <1>13 DEF check_submit

-----------------------------------------------------------------------------
(* Who owns the entries under way. *)
LEMMA OwnersStay ==
    ASSUME Owners, cqeLeft' = cqeLeft, UnderWay' = UnderWay,
           \A f \in Fibers : state'[f] = "io" <=> state[f] = "io"
    PROVE  Owners'
<1>1. cqeLeft \in [Fibers -> 0 .. BatchSize]
  BY DEF Owners
<1>2. ASSUME NEW f \in Fibers
      PROVE  cqeLeft'[f] = Cardinality(Of(UnderWay', f)) /\ (cqeLeft'[f] > 0 <=> state'[f] = "io")
  BY DEF Owners
<1> QED BY <1>1, <1>2 DEF Owners

(* A running fiber has nothing under way, and parks for what it starts.     *)
LEMMA OwnersGrow ==
    ASSUME Queues, Owners, NEW g \in Fibers, state[g] = "Running", state'[g] = "io",
           \A f \in Fibers \ {g} : state'[f] = state[f],
           NEW N, IsFiniteSet(N), N # {}, \A e \in N : e[1] = g, Cardinality(N) \in 1 .. BatchSize,
           UnderWay' = UnderWay \cup N, cqeLeft' = [cqeLeft EXCEPT ![g] = Cardinality(N)]
    PROVE  Owners'
<1>1. cqeLeft \in [Fibers -> 0 .. BatchSize]
  BY DEF Owners
<1>2. PICK n \in 1 .. BatchSize : n = Cardinality(N)
  OBVIOUS
<1>3. cqeLeft' \in [Fibers -> 0 .. BatchSize] /\ cqeLeft'[g] = n /\ \A f \in Fibers \ {g} : cqeLeft'[f] = cqeLeft[f]
  BY SMT, <1>1, <1>2
<1>4. Of(UnderWay, g) = {}
  <2>1. cqeLeft[g] = Cardinality(Of(UnderWay, g)) /\ (cqeLeft[g] > 0 <=> state[g] = "io")
    BY DEF Owners
  <2>2. cqeLeft[g] \in 0 .. BatchSize
    BY <1>1
  <2>3. cqeLeft[g] = 0
    BY SMT, <2>1, <2>2
  <2> QED BY <2>1, <2>3, QueueFacts, FS_EmptySet
<1>5. Of(UnderWay', g) = N
  BY <1>4 DEF Of
<1>6. ASSUME NEW f \in Fibers \ {g} PROVE Of(UnderWay', f) = Of(UnderWay, f)
  BY DEF Of
<1>7. ASSUME NEW f \in Fibers
      PROVE  cqeLeft'[f] = Cardinality(Of(UnderWay', f)) /\ (cqeLeft'[f] > 0 <=> state'[f] = "io")
  <2>1. CASE f = g
    <3>1. cqeLeft'[f] = n /\ n > 0
      BY SMT, <1>2, <1>3, <2>1
    <3> QED BY <1>2, <1>5, <2>1, <3>1
  <2>2. CASE f # g
    BY <1>3, <1>6, <2>2 DEF Owners
  <2> QED BY <2>1, <2>2
<1> QED BY <1>3, <1>7 DEF Owners

LEMMA InvParts == ReactorInv => Rings /\ Queues /\ Owners /\ Counts /\ Idle
BY DEF ReactorInv

(* What an action keeps when it leaves the queues and the counters alone. *)
LEMMA QueuesSame ==
    ASSUME Queues, Counts, sq' = sq, kernel' = kernel, cq' = cq, always' = always, UNCHANGED countVars
    PROVE  Queues' /\ Counts' /\ UnderWay' = UnderWay /\ toSubmit' = toSubmit
<1>1. outstanding' = outstanding /\ submitted' = submitted /\ pending' = pending /\ toSubmit' = toSubmit /\ since' = since
  BY DEF countVars
<1>2. Queues'
  BY DEF Queues
<1>3. Counts'
  BY <1>1 DEF Counts, TotalIoFibers
<1>4. UnderWay' = UnderWay
  BY DEF UnderWay
<1> QED BY <1>1, <1>2, <1>3, <1>4

-----------------------------------------------------------------------------
(* The steps. *)
LEMMA StartPassStep == ASSUME WellConfigured, ReactorInv, StartPass PROVE ReactorInv'
<1>1. Rings /\ Queues /\ Owners /\ Counts
  BY InvParts
<1>2. phase = "top" /\ phase' = "pass" /\ left' = Len(ready) /\ cur' = cur /\ ready' = ready /\ state' = state
      /\ always' = always /\ cqeLeft' = cqeLeft /\ sq' = sq /\ kernel' = kernel /\ cq' = cq /\ UNCHANGED countVars
  BY DEF StartPass, queueVars
<1>3. Queues' /\ Counts' /\ UnderWay' = UnderWay
  BY <1>1, <1>2, QueuesSame
<1>4. Owners'
  BY <1>1, <1>2, <1>3, OwnersStay
<1>5. left' \in 0 .. Len(ready')
  BY SMT, <1>1, <1>2, RingFacts
<1>6. phase' \in {"top", "pass", "drain"} /\ (phase' # "drain")
  BY <1>2
<1>7. Rings'
  BY <1>1, <1>2, <1>5, <1>6 DEF Rings
<1>8. Idle'
  BY <1>6 DEF Idle
<1> QED BY <1>3, <1>4, <1>7, <1>8 DEF ReactorInv

LEMMA ResumeStep == ASSUME WellConfigured, ReactorInv, Resume PROVE ReactorInv'
<1>1. Rings /\ Queues /\ Owners /\ Counts
  BY InvParts
<1>2. phase = "pass" /\ phase' = phase /\ left > 0 /\ left' = left - 1 /\ cur' = Head(ready) /\ ready' = Tail(ready)
      /\ state' = [state EXCEPT ![Head(ready)] = "Running"]
      /\ always' = always /\ cqeLeft' = cqeLeft /\ sq' = sq /\ kernel' = kernel /\ cq' = cq /\ UNCHANGED countVars
  BY DEF Resume, queueVars
<1>3. Queues' /\ Counts' /\ UnderWay' = UnderWay
  BY <1>1, <1>2, QueuesSame
<1>4. ready # <<>> /\ ready \in Seq(Fibers) /\ IsInjective(ready)
  BY SMT, <1>1, <1>2, RingFacts
<1>5. PICK h : h = Head(ready)
  OBVIOUS
<1>6. /\ Tail(ready) \in Seq(Fibers) /\ Len(Tail(ready)) = Len(ready) - 1 /\ h \in Fibers /\ h \in Range(ready)
      /\ Range(Tail(ready)) = Range(ready) \ {h} /\ IsInjective(Tail(ready))
  BY <1>4, <1>5, TailOnce
<1>7. state[h] = "Ready"
  BY <1>1, <1>6, RingFacts
<1>8. /\ state' \in [Fibers -> {"Ready", "Running", "io", "wait"}]
      /\ state'[h] = "Running" /\ \A f \in Fibers \ {h} : state'[f] = state[f]
  BY <1>1, <1>2, <1>5, <1>6, StateMoves
<1>9. \A f \in Fibers : state'[f] = "io" <=> state[f] = "io"
  <2>1. ASSUME NEW f \in Fibers PROVE state'[f] = "io" <=> state[f] = "io"
    <3>1. CASE f = h
      BY <1>7, <1>8, <3>1
    <3>2. CASE f # h
      BY <1>8, <3>2
    <3> QED BY <3>1, <3>2
  <2> QED BY <2>1
<1>10. Owners'
  BY <1>1, <1>2, <1>3, <1>9, OwnersStay
<1>11. \A f \in Fibers : f \in Range(ready') <=> state'[f] = "Ready"
  <2>1. ASSUME NEW f \in Fibers PROVE f \in Range(ready') <=> state'[f] = "Ready"
    <3>1. CASE f = h
      BY <1>2, <1>6, <1>8, <3>1
    <3>2. CASE f # h
      BY <1>1, <1>2, <1>6, <1>8, <3>2, RingFacts
    <3> QED BY <3>1, <3>2
  <2> QED BY <2>1
<1>12. Range(ready') = {f \in Fibers : state'[f] = "Ready"}
  <2>1. Range(ready') \subseteq Fibers
    BY <1>1, <1>2, <1>6, RingFacts
  <2> QED BY <2>1, <1>11
<1>13. left' \in 0 .. Len(ready')
  BY SMT, <1>1, <1>2, <1>6, RingFacts
<1>14. phase' = "pass" /\ cur' \in Fibers /\ state'[cur'] = "Running" /\ ready' \in Seq(Fibers) /\ IsInjective(ready')
  BY <1>2, <1>5, <1>6, <1>8
<1>15. phase' \in {"top", "pass", "drain"} /\ phase' # "drain"
  BY <1>14
<1>16. Rings'
  BY <1>8, <1>12, <1>13, <1>14, <1>15 DEF Rings
<1>17. Idle'
  BY <1>15 DEF Idle
<1> QED BY <1>3, <1>10, <1>16, <1>17 DEF ReactorInv

LEMMA WaitStep == ASSUME WellConfigured, ReactorInv, Wait PROVE ReactorInv'
<1>1. Rings /\ Queues /\ Owners /\ Counts
  BY InvParts
<1>2. cur # None /\ Park("wait")
      /\ always' = always /\ cqeLeft' = cqeLeft /\ sq' = sq /\ kernel' = kernel /\ cq' = cq /\ UNCHANGED countVars
  BY DEF Wait, queueVars
<1>3. Queues' /\ Counts' /\ UnderWay' = UnderWay
  BY <1>1, <1>2, QueuesSame
<1>4. "wait" \in {"io", "wait"}
  OBVIOUS
<1>5. PICK c : c = cur
  OBVIOUS
<1>6. Rings' /\ phase' = "pass" /\ c \in Fibers /\ state[c] = "Running"
      /\ state'[c] = "wait" /\ \A f \in Fibers \ {c} : state'[f] = state[f]
  BY <1>1, <1>2, <1>4, <1>5, ParkRings
<1>7. \A f \in Fibers : state'[f] = "io" <=> state[f] = "io"
  <2>1. ASSUME NEW f \in Fibers PROVE state'[f] = "io" <=> state[f] = "io"
    <3>1. CASE f = c
      BY <1>6, <3>1
    <3>2. CASE f # c
      BY <1>6, <3>2
    <3> QED BY <3>1, <3>2
  <2> QED BY <2>1
<1>8. Owners'
  BY <1>1, <1>2, <1>3, <1>7, OwnersStay
<1>9. Idle'
  BY <1>6 DEF Idle
<1> QED BY <1>3, <1>6, <1>8, <1>9 DEF ReactorInv

LEMMA WakeStep == ASSUME WellConfigured, ReactorInv, NEW g \in Fibers, Wake(g) PROVE ReactorInv'
<1>1. Rings /\ Queues /\ Owners /\ Counts
  BY InvParts
<1>2. cur # None /\ state[g] = "wait" /\ state' = [state EXCEPT ![g] = "Ready"] /\ ready' = Append(ready, g)
      /\ phase' = phase /\ left' = left /\ cur' = cur
      /\ always' = always /\ cqeLeft' = cqeLeft /\ sq' = sq /\ kernel' = kernel /\ cq' = cq /\ UNCHANGED countVars
  BY DEF Wake, queueVars
<1>3. Queues' /\ Counts' /\ UnderWay' = UnderWay
  BY <1>1, <1>2, QueuesSame
<1>4. phase = "pass" /\ cur # g /\ state[g] # "Ready"
  BY <1>1, <1>2, RingFacts
<1>5. Rings' /\ state'[g] = "Ready" /\ \A f \in Fibers \ {g} : state'[f] = state[f]
  BY <1>1, <1>2, <1>4, EnterRings
<1>6. \A f \in Fibers : state'[f] = "io" <=> state[f] = "io"
  <2>1. ASSUME NEW f \in Fibers PROVE state'[f] = "io" <=> state[f] = "io"
    <3>1. CASE f = g
      BY <1>2, <1>5, <3>1
    <3>2. CASE f # g
      BY <1>5, <3>2
    <3> QED BY <3>1, <3>2
  <2> QED BY <2>1
<1>7. Owners'
  BY <1>1, <1>2, <1>3, <1>6, OwnersStay
<1>8. Idle'
  BY <1>2, <1>4 DEF Idle
<1> QED BY <1>3, <1>5, <1>7, <1>8 DEF ReactorInv

(* What a fiber prepares is new: it has nothing else under way. *)
LEMMA RunningOwnsNothing ==
    ASSUME Queues, Owners, NEW g \in Fibers, state[g] = "Running"
    PROVE  \A e \in UnderWay : e[1] # g
<1>1. cqeLeft[g] = Cardinality(Of(UnderWay, g)) /\ (cqeLeft[g] > 0 <=> state[g] = "io") /\ cqeLeft \in [Fibers -> 0 .. BatchSize]
  BY DEF Owners
<1>2. cqeLeft[g] = 0
  <2>1. cqeLeft[g] \in Nat
    BY SMT, <1>1
  <2> QED BY SMT, <1>1, <2>1
<1>3. Of(UnderWay, g) = {}
  BY <1>1, <1>2, QueueFacts, FS_EmptySet
<1> QED BY <1>3 DEF Of

LEMMA FreshQueue ==
    ASSUME Queues
    PROVE  Fresh(sq) /\ Range(sq) \cup kernel \cup Range(cq) = UnderWay
BY DEF Queues, Fresh, UnderWay

(* The queue with the entries of a running fiber at its end. *)
LEMMA FreshMore ==
    ASSUME Queues, Owners, NEW g \in Fibers, state[g] = "Running",
           NEW t \in Seq(Entries), IsInjective(t), \A e \in Range(t) : e[1] = g
    PROVE  /\ Fresh(sq \o t) /\ Len(sq \o t) = Len(sq) + Len(t)
           /\ Range(sq \o t) \cup kernel \cup Range(cq) = UnderWay \cup Range(t)
<1>1. \A e \in UnderWay : e[1] # g
  BY RunningOwnsNothing
<1>2. Range(t) \cap UnderWay = {}
  BY <1>1
<1>3. Range(t) \cap Range(sq) = {} /\ Range(t) \cap kernel = {} /\ Range(t) \cap Range(cq) = {}
  BY <1>2 DEF UnderWay
<1>4. sq \in Seq(Entries) /\ IsInjective(sq) /\ Range(sq) \cap kernel = {} /\ Range(sq) \cap Range(cq) = {}
  BY DEF Queues
<1>5. /\ sq \o t \in Seq(Entries) /\ Len(sq \o t) = Len(sq) + Len(t)
      /\ Range(sq \o t) = Range(sq) \cup Range(t) /\ IsInjective(sq \o t)
  <2>1. Range(sq) \cap Range(t) = {}
    BY <1>3
  <2> QED BY SMT, <1>4, <2>1, CatOnce
<1>6. Fresh(sq \o t)
  BY <1>3, <1>4, <1>5 DEF Fresh
<1>7. Range(sq \o t) \cup kernel \cup Range(cq) = UnderWay \cup Range(t)
  BY <1>5 DEF UnderWay
<1> QED BY <1>5, <1>6, <1>7

LEMMA IoStep == ASSUME WellConfigured, ReactorInv, Io PROVE ReactorInv'
<1>1. Rings /\ Queues /\ Owners /\ Counts
  BY InvParts
<1>2. PICK c : c = cur
  OBVIOUS
<1>3. c \in Fibers /\ c # None /\ cqeLeft' = [cqeLeft EXCEPT ![c] = 1] /\ outstanding' = outstanding + 1
      /\ check_submit(Append(sq, <<c, 1>>), 1) /\ Park("io") /\ always' = always /\ cq' = cq
  BY <1>2 DEF Io, WellConfigured
<1>4. "io" \in {"io", "wait"}
  OBVIOUS
<1>5. Rings' /\ phase' = "pass" /\ state[c] = "Running"
      /\ state'[c] = "io" /\ \A f \in Fibers \ {c} : state'[f] = state[f]
  BY <1>1, <1>2, <1>3, <1>4, ParkRings
<1>6. PICK e : e = <<c, 1>>
  OBVIOUS
<1>7. e \in Entries /\ e[1] = c /\ BatchSize \in Nat /\ 1 \in 1 .. BatchSize
  BY SMT, <1>3, <1>6 DEF Entries, WellConfigured
<1>8. PICK t : t = <<e>>
  OBVIOUS
<1>9. t \in Seq(Entries) /\ Len(t) = 1 /\ Range(t) = {e} /\ IsInjective(t)
  BY <1>7, <1>8, OneOnce
<1>10. sq \in Seq(Entries) /\ Append(sq, e) = sq \o t
  <2>1. sq \in Seq(Entries)
    BY <1>1 DEF Queues
  <2> QED BY SMT, <1>7, <1>8, <2>1
<1>11. PICK q : q = sq \o t
  OBVIOUS
<1>12. Fresh(q) /\ Len(q) = Len(sq) + 1 /\ Range(q) \cup kernel \cup Range(cq) = UnderWay \cup {e}
  <2>1. \A x \in Range(t) : x[1] = c
    BY <1>7, <1>9
  <2> QED BY <1>1, <1>3, <1>5, <1>9, <1>11, <2>1, FreshMore
<1>13. check_submit(q, 1) /\ 1 \in {0, 1}
  BY <1>3, <1>6, <1>10, <1>11
<1>14. Queues' /\ Counts' /\ UnderWay' = UnderWay \cup {e}
  BY <1>1, <1>3, <1>12, <1>13, CheckSubmit
<1>15. Owners'
  <2>1. PICK N : N = {e}
    OBVIOUS
  <2>2. IsFiniteSet(N) /\ N # {} /\ Cardinality(N) = 1 /\ \A x \in N : x[1] = c
    BY <1>7, <2>1, FS_Singleton
  <2>3. Cardinality(N) \in 1 .. BatchSize /\ UnderWay' = UnderWay \cup N /\ cqeLeft' = [cqeLeft EXCEPT ![c] = Cardinality(N)]
    BY <1>3, <1>7, <1>14, <2>1, <2>2
  <2> QED BY <1>1, <1>3, <1>5, <2>2, <2>3, OwnersGrow
<1>16. Idle'
  BY <1>5 DEF Idle
<1> QED BY <1>5, <1>14, <1>15, <1>16 DEF ReactorInv

(* The entries of a batch are told apart by their place in it. *)
LEMMA BatchOnce ==
    ASSUME WellConfigured, NEW g \in Fibers, NEW n \in 1 .. BatchSize, NEW t, t = [k \in 1 .. n |-> <<g, k>>]
    PROVE  t \in Seq(Entries) /\ Len(t) = n /\ IsInjective(t) /\ \A e \in Range(t) : e[1] = g
<1>1. BatchSize \in Nat /\ n \in Nat
  BY SMT DEF WellConfigured
<1>2. \A k \in 1 .. n : <<g, k>> \in Entries
  BY SMT, <1>1 DEF Entries
<1>3. t \in [1 .. n -> Entries] /\ DOMAIN t = 1 .. n /\ \A k \in 1 .. n : t[k] = <<g, k>>
  BY <1>2
<1>4. t \in Seq(Entries) /\ Len(t) = n
  BY SMT, <1>1, <1>3
<1>5. IsInjective(t)
  BY <1>3 DEF IsInjective
<1>6. \A e \in Range(t) : e[1] = g
  BY SMT, <1>3 DEF Range
<1> QED BY <1>4, <1>5, <1>6

LEMMA IoBatchStep == ASSUME WellConfigured, ReactorInv, IoBatch PROVE ReactorInv'
<1>1. Rings /\ Queues /\ Owners /\ Counts
  BY InvParts
<1>2. PICK c : c = cur
  OBVIOUS
<1>3. PICK n \in 1 .. BatchSize :
         /\ cqeLeft' = [cqeLeft EXCEPT ![c] = n] /\ outstanding' = outstanding + n
         /\ Submit(sq \o [k \in 1 .. n |-> <<c, k>>], n, n)
  BY <1>2 DEF IoBatch
<1>4. c \in Fibers /\ c # None /\ since' = 0 /\ Park("io") /\ always' = always /\ cq' = cq
  BY <1>2 DEF IoBatch, WellConfigured
<1>5. "io" \in {"io", "wait"} /\ Partial \in BOOLEAN
  BY DEF WellConfigured
<1>6. Rings' /\ phase' = "pass" /\ state[c] = "Running"
      /\ state'[c] = "io" /\ \A f \in Fibers \ {c} : state'[f] = state[f]
  BY <1>1, <1>2, <1>4, <1>5, ParkRings
<1>7. PICK t : t = [k \in 1 .. n |-> <<c, k>>]
  OBVIOUS
<1>8. t \in Seq(Entries) /\ Len(t) = n /\ IsInjective(t) /\ \A e \in Range(t) : e[1] = c
  BY <1>4, <1>7, BatchOnce
<1>9. PICK q : q = sq \o t
  OBVIOUS
<1>10. Fresh(q) /\ Len(q) = Len(sq) + n /\ Range(q) \cup kernel \cup Range(cq) = UnderWay \cup Range(t)
  BY <1>1, <1>4, <1>6, <1>8, <1>9, FreshMore
<1>11. submit_exact(q, n) /\ submitted' = submitted + pending + n /\ pending' = 0 /\ toSubmit' = 0
  BY <1>3, <1>7, <1>9 DEF Submit
<1>12. PICK k \in Nat, l \in Nat, d \in Nat : k = Cardinality(kernel) /\ l = Len(sq) /\ d = Len(cq)
  BY <1>1, QueueFacts
<1>13. BatchSize \in Nat /\ n \in Nat /\ n > 0
  BY SMT DEF WellConfigured
<1>14. n \in 0 .. Len(q) /\ Len(q) = l + n
  BY SMT, <1>10, <1>12, <1>13
<1>15. /\ Queues' /\ UnderWay' = Range(q) \cup kernel \cup Range(cq)
       /\ Cardinality(kernel') + Len(sq') = Cardinality(kernel) + Len(q)
       /\ Cardinality(kernel') \in Nat /\ Len(sq') \in Nat /\ (~Partial => Len(sq') = 0)
  BY <1>1, <1>4, <1>5, <1>10, <1>11, <1>14, SubmitMoves
<1>16. Counts'
  <2>1. PICK total : total = TotalIoFibers
    OBVIOUS
  <2>2. total \in Nat /\ total > 0
    BY <2>1, TotalFacts
  <2>3. PICK k2 \in Nat, l2 \in Nat : k2 = Cardinality(kernel') /\ l2 = Len(sq')
    BY <1>15
  <2>4. k2 + l2 = k + (l + n) /\ Len(cq') = d
    BY <1>4, <1>12, <1>14, <1>15, <2>3
  <2>5. submitted = k + d + (l - toSubmit) /\ toSubmit \in 0 .. l /\ pending = toSubmit /\ outstanding = submitted + pending
    BY <1>1, <1>12 DEF Counts
  <2>6. submitted' = k2 + d + (l2 - toSubmit') /\ outstanding' = submitted' + pending'
    BY SMT, <1>3, <1>11, <1>13, <2>4, <2>5
  <2>7. since' - toSubmit' \in 0 .. total - 1 /\ (toSubmit' = 0 <=> since' = 0) /\ since' \in Nat /\ toSubmit' \in 0 .. l2
        /\ pending' = toSubmit'
    BY SMT, <1>4, <1>11, <2>2
  <2>8. ~Partial => toSubmit' = l2
    BY <1>11, <1>15, <2>3
  <2>9. always' \in BOOLEAN
    BY <1>1, <1>4 DEF Counts
  <2> QED BY <2>1, <2>3, <2>4, <2>6, <2>7, <2>8, <2>9 DEF Counts, TotalIoFibers
<1>17. Owners'
  <2>1. PICK N : N = Range(t)
    OBVIOUS
  <2>2. IsFiniteSet(N) /\ Cardinality(N) = n /\ \A x \in N : x[1] = c
    BY <1>8, <2>1, OnceCard
  <2>3. N # {}
    BY SMT, <1>13, <2>2, FS_EmptySet
  <2>4. Cardinality(N) \in 1 .. BatchSize /\ UnderWay' = UnderWay \cup N /\ cqeLeft' = [cqeLeft EXCEPT ![c] = Cardinality(N)]
    BY <1>3, <1>10, <1>15, <2>1, <2>2
  <2> QED BY <1>1, <1>4, <1>6, <2>2, <2>3, <2>4, OwnersGrow
<1>18. Idle'
  BY <1>6 DEF Idle
<1> QED BY <1>6, <1>15, <1>16, <1>17, <1>18 DEF ReactorInv

LEMMA YieldStep == ASSUME WellConfigured, ReactorInv, Yield PROVE ReactorInv'
<1>1. Rings /\ Queues /\ Owners /\ Counts
  BY InvParts
<1>2. PICK c : c = cur
  OBVIOUS
<1>3. c \in Fibers /\ c # None /\ check_submit(sq, 0) /\ ready' = Append(ready, c)
      /\ state' = [state EXCEPT ![c] = "Ready"] /\ cur' = None
      /\ always' = always /\ phase' = phase /\ left' = left /\ cqeLeft' = cqeLeft /\ cq' = cq /\ outstanding' = outstanding
  BY <1>2 DEF Yield, WellConfigured
<1>4. state[c] = "Running" /\ phase = "pass" /\ state[c] # "Ready"
  BY <1>1, <1>2, <1>3, RingFacts
<1>5. Rings' /\ state'[c] = "Ready" /\ \A f \in Fibers \ {c} : state'[f] = state[f]
  BY <1>1, <1>3, <1>4, EnterRings
<1>6. Fresh(sq) /\ Range(sq) \cup kernel \cup Range(cq) = UnderWay
  BY <1>1, FreshQueue
<1>7. 0 \in {0, 1} /\ Len(sq) = Len(sq) + 0 /\ outstanding' = outstanding + 0
  <2>1. Len(sq) \in Nat
    BY <1>1, QueueFacts
  <2>2. PICK k \in Nat, l \in Nat, d \in Nat : k = Cardinality(kernel) /\ l = Len(sq) /\ d = Len(cq)
    BY <1>1, QueueFacts
  <2>3. submitted = k + d + (l - toSubmit) /\ toSubmit \in 0 .. l /\ pending = toSubmit /\ outstanding = submitted + pending
    BY <1>1, <2>2 DEF Counts
  <2>4. outstanding' = outstanding + 0
    BY SMT, <1>3, <2>3
  <2> QED BY SMT, <2>1, <2>4
<1>8. Queues' /\ Counts' /\ UnderWay' = UnderWay
  BY <1>1, <1>3, <1>6, <1>7, CheckSubmit
<1>9. \A f \in Fibers : state'[f] = "io" <=> state[f] = "io"
  <2>1. ASSUME NEW f \in Fibers PROVE state'[f] = "io" <=> state[f] = "io"
    <3>1. CASE f = c
      BY <1>4, <1>5, <3>1
    <3>2. CASE f # c
      BY <1>5, <3>2
    <3> QED BY <3>1, <3>2
  <2> QED BY <2>1
<1>10. Owners'
  BY <1>1, <1>3, <1>8, <1>9, OwnersStay
<1>11. Idle'
  BY <1>3, <1>4 DEF Idle
<1> QED BY <1>5, <1>8, <1>10, <1>11 DEF ReactorInv

LEMMA EndPassStep == ASSUME WellConfigured, ReactorInv, EndPass PROVE ReactorInv'
<1>1. Rings /\ Queues /\ Owners /\ Counts
  BY InvParts
<1>2. phase = "pass" /\ cur = None /\ phase' = "drain" /\ left' = left /\ cur' = cur /\ ready' = ready /\ state' = state
      /\ always' = always /\ cqeLeft' = cqeLeft /\ cq' = cq /\ outstanding' = outstanding
  BY DEF EndPass
<1>3. Rings'
  <2>1. phase' \in {"top", "pass", "drain"}
    BY <1>2
  <2> QED BY <1>1, <1>2, <2>1 DEF Rings
<1>4. PICK k \in Nat, l \in Nat, d \in Nat : k = Cardinality(kernel) /\ l = Len(sq) /\ d = Len(cq)
  BY <1>1, QueueFacts
<1>5. submitted = k + d + (l - toSubmit) /\ toSubmit \in 0 .. l /\ pending = toSubmit /\ outstanding = submitted + pending
  BY <1>1, <1>4 DEF Counts
<1>6. ASSUME Submit(sq, toSubmit, 0), since' = 0 PROVE Queues' /\ Counts' /\ UnderWay' = UnderWay /\ toSubmit' = 0
  <2>1. submit_exact(sq, toSubmit) /\ submitted' = submitted + pending + 0 /\ pending' = 0 /\ toSubmit' = 0
    BY <1>6 DEF Submit
  <2>2. Fresh(sq) /\ Range(sq) \cup kernel \cup Range(cq) = UnderWay
    BY <1>1, FreshQueue
  <2>3. Partial \in BOOLEAN /\ toSubmit \in 0 .. Len(sq)
    BY <1>4, <1>5 DEF WellConfigured
  <2>4. /\ Queues' /\ UnderWay' = Range(sq) \cup kernel \cup Range(cq)
        /\ Cardinality(kernel') + Len(sq') = Cardinality(kernel) + Len(sq)
        /\ Cardinality(kernel') \in Nat /\ Len(sq') \in Nat /\ (~Partial => Len(sq') = 0)
    BY <1>1, <1>2, <2>1, <2>2, <2>3, SubmitMoves
  <2>5. PICK total : total = TotalIoFibers
    OBVIOUS
  <2>6. total \in Nat /\ total > 0
    BY <2>5, TotalFacts
  <2>7. PICK k2 \in Nat, l2 \in Nat : k2 = Cardinality(kernel') /\ l2 = Len(sq')
    BY <2>4
  <2>8. k2 + l2 = k + l /\ Len(cq') = d
    BY <1>2, <1>4, <2>4, <2>7
  <2>9. submitted' = k2 + d + (l2 - toSubmit') /\ outstanding' = submitted' + pending'
    BY SMT, <1>2, <1>5, <2>1, <2>8
  <2>10. since' - toSubmit' \in 0 .. total - 1 /\ (toSubmit' = 0 <=> since' = 0) /\ since' \in Nat /\ toSubmit' \in 0 .. l2
         /\ pending' = toSubmit'
    BY SMT, <1>6, <2>1, <2>6
  <2>11. ~Partial => toSubmit' = l2
    BY <2>1, <2>4, <2>7
  <2>12. always' \in BOOLEAN
    BY <1>1, <1>2 DEF Counts
  <2>13. Counts'
    BY <2>5, <2>7, <2>8, <2>9, <2>10, <2>11, <2>12 DEF Counts, TotalIoFibers
  <2> QED BY <2>1, <2>2, <2>4, <2>13
<1>7. ASSUME UNCHANGED <<sq, kernel, submitted, pending, toSubmit, since>>
      PROVE  Queues' /\ Counts' /\ UnderWay' = UnderWay /\ toSubmit' = toSubmit
  BY <1>1, <1>2, <1>7, QueuesSame DEF countVars
<1>8. Queues' /\ Counts' /\ UnderWay' = UnderWay /\ (ready = <<>> => toSubmit' = 0)
  <2>1. CASE ((submitted = 0 /\ pending > 0) \/ ready = <<>>) /\ toSubmit # 0
    BY <1>6, <2>1 DEF EndPass
  <2>2. CASE ~(((submitted = 0 /\ pending > 0) \/ ready = <<>>) /\ toSubmit # 0)
    BY <1>7, <2>2 DEF EndPass
  <2> QED BY <2>1, <2>2
<1>9. Owners'
  BY <1>1, <1>2, <1>8, OwnersStay
<1>10. Idle'
  BY <1>2, <1>8 DEF Idle
<1> QED BY <1>3, <1>8, <1>9, <1>10 DEF ReactorInv

LEMMA DeviceStep == ASSUME WellConfigured, ReactorInv, NEW e, Device(e) PROVE ReactorInv'
<1>1. Rings /\ Queues /\ Owners /\ Counts /\ Idle
  BY InvParts
<1>2. e \in kernel /\ kernel' = kernel \ {e} /\ cq' = Append(cq, e) /\ always' = always
      /\ phase' = phase /\ left' = left /\ cur' = cur /\ ready' = ready /\ state' = state
      /\ cqeLeft' = cqeLeft /\ sq' = sq
      /\ outstanding' = outstanding /\ submitted' = submitted /\ pending' = pending /\ toSubmit' = toSubmit /\ since' = since
  BY DEF Device, fiberVars, countVars
<1>3. kernel \subseteq Entries /\ IsFiniteSet(kernel) /\ cq \in Seq(Entries) /\ IsInjective(cq) /\ e \in Entries
      /\ Range(sq) \cap kernel = {} /\ Range(sq) \cap Range(cq) = {} /\ kernel \cap Range(cq) = {}
  BY <1>1, <1>2 DEF Queues
<1>4. /\ cq' \in Seq(Entries) /\ Len(cq') = Len(cq) + 1
      /\ Range(cq') = Range(cq) \cup {e} /\ IsInjective(cq')
  <2>1. e \notin Range(cq)
    BY <1>2, <1>3
  <2> QED BY SMT, <1>2, <1>3, <2>1, AppendOnce
<1>5. IsFiniteSet(kernel') /\ Cardinality(kernel') = Cardinality(kernel) - 1
  BY <1>2, <1>3, FS_RemoveElement
<1>6. kernel' \subseteq Entries /\ Range(sq') \cap kernel' = {} /\ Range(sq') \cap Range(cq') = {} /\ kernel' \cap Range(cq') = {}
  BY <1>2, <1>3, <1>4
<1>7. Queues'
  BY <1>1, <1>2, <1>4, <1>5, <1>6 DEF Queues
<1>8. UnderWay' = UnderWay
  <2>1. UnderWay' = Range(sq) \cup (kernel \ {e}) \cup (Range(cq) \cup {e})
    BY <1>2, <1>4 DEF UnderWay
  <2> QED BY <1>2, <2>1 DEF UnderWay
<1>9. Counts'
  <2>1. PICK k \in Nat, l \in Nat, d \in Nat : k = Cardinality(kernel) /\ l = Len(sq) /\ d = Len(cq)
    BY <1>1, QueueFacts
  <2>2. submitted = k + d + (l - toSubmit) /\ toSubmit \in 0 .. l
    BY <1>1, <2>1 DEF Counts
  <2>3. Cardinality(kernel') = k - 1 /\ Len(cq') = d + 1 /\ Len(sq') = l
    BY <1>2, <1>4, <1>5, <2>1
  <2>4. submitted = (k - 1) + (d + 1) + (l - toSubmit)
    BY SMT, <2>2
  <2>5. submitted' = Cardinality(kernel') + Len(cq') + (Len(sq') - toSubmit')
    BY <1>2, <2>3, <2>4
  <2> QED BY <1>1, <1>2, <2>5 DEF Counts, TotalIoFibers
<1>10. Owners'
  BY <1>1, <1>2, <1>8, OwnersStay
<1>11. Rings' /\ Idle'
  BY <1>1, <1>2 DEF Rings, Idle
<1> QED BY <1>7, <1>9, <1>10, <1>11 DEF ReactorInv

-----------------------------------------------------------------------------
(* drain_cqe *)

(* The completions of a fiber are counted right. *)
LEMMA CompletedIsExact ==
    ASSUME Queues, NEW f
    PROVE  /\ Completed(f) = Cardinality(Of(Range(cq), f)) /\ Completed(f) \in Nat
           /\ Completed(f) > 0 <=> \E k \in DOMAIN cq : cq[k][1] = f
           /\ IsFiniteSet(Of(Range(cq), f))
<1>1. cq \in Seq(Entries) /\ IsInjective(cq)
  BY DEF Queues
<1>2. PICK K : K = {k \in DOMAIN cq : cq[k][1] = f}
  OBVIOUS
<1>3. PICK T : T = Of(Range(cq), f)
  OBVIOUS
<1>4. T = {cq[k] : k \in K} /\ K \subseteq DOMAIN cq
  BY <1>2, <1>3 DEF Of, Range
<1>5. IsFiniteSet(K) /\ IsFiniteSet(T) /\ Cardinality(T) = Cardinality(K) /\ Cardinality(K) \in Nat
  BY <1>1, <1>4, PlacesOnce
<1>6. Completed(f) = Cardinality(K)
  BY <1>2 DEF Completed
<1>7. Cardinality(K) = 0 <=> K = {}
  BY <1>5, FS_EmptySet
<1>8. Cardinality(K) > 0 <=> \E k \in DOMAIN cq : cq[k][1] = f
  BY SMT, <1>2, <1>5, <1>7
<1> QED BY <1>3, <1>5, <1>6, <1>8

(* The fibers that are woken are those all of whose entries have completed. *)
LEMMA WokenFacts ==
    ASSUME WellConfigured, Queues, Owners
    PROVE  /\ Woken \subseteq DOMAIN cq
           /\ \A k \in Woken : cq[k][1] \in Fibers /\ state[cq[k][1]] = "io"
           /\ \A j, k \in Woken : cq[j][1] = cq[k][1] => j = k
           /\ \A f \in Fibers : (\E k \in Woken : cq[k][1] = f) <=> Completed(f) > 0 /\ Completed(f) = cqeLeft[f]
<1>1. cq \in Seq(Entries) /\ Len(cq) \in Nat /\ DOMAIN cq = 1 .. Len(cq)
  <2>1. cq \in Seq(Entries)
    BY DEF Queues
  <2> QED BY SMT, <2>1
<1>2. \A k \in DOMAIN cq : cq[k] \in Entries /\ cq[k][1] \in Fibers
  BY SMT, <1>1 DEF Entries
<1>3. \A k \in DOMAIN cq : k \in Woken <=> LastAt(k) /\ Completed(cq[k][1]) = cqeLeft[cq[k][1]]
  BY DEF Woken
<1>4. Woken \subseteq DOMAIN cq
  BY DEF Woken
<1>5. ASSUME NEW k \in Woken
      PROVE  cq[k][1] \in Fibers /\ state[cq[k][1]] = "io" /\ Completed(cq[k][1]) > 0 /\ Completed(cq[k][1]) = cqeLeft[cq[k][1]]
  <2>1. PICK g : g = cq[k][1]
    OBVIOUS
  <2>2. g \in Fibers /\ k \in DOMAIN cq /\ Completed(g) = cqeLeft[g]
    BY <1>2, <1>3, <1>4, <2>1
  <2>3. Completed(g) > 0
    BY <2>1, <2>2, CompletedIsExact
  <2>4. cqeLeft[g] > 0 <=> state[g] = "io"
    BY <2>2 DEF Owners
  <2> QED BY <2>1, <2>2, <2>3, <2>4
<1>6. ASSUME NEW j \in Woken, NEW k \in Woken, cq[j][1] = cq[k][1] PROVE j = k
  <2>1. j \in 1 .. Len(cq) /\ k \in 1 .. Len(cq) /\ LastAt(j) /\ LastAt(k)
    BY <1>1, <1>3, <1>4
  <2>2. ~(j < k)
    BY SMT, <1>1, <1>6, <2>1 DEF LastAt
  <2>3. ~(k < j)
    BY SMT, <1>1, <1>6, <2>1 DEF LastAt
  <2> QED BY SMT, <1>1, <2>1, <2>2, <2>3
<1>7. ASSUME NEW f \in Fibers, Completed(f) > 0, Completed(f) = cqeLeft[f]
      PROVE  \E k \in Woken : cq[k][1] = f
  <2>1. PICK T : T = {k \in DOMAIN cq : cq[k][1] = f}
    OBVIOUS
  <2>2. \E k \in DOMAIN cq : cq[k][1] = f
    BY <1>7, CompletedIsExact
  <2>3. T \subseteq 1 .. Len(cq) /\ T # {}
    BY <1>1, <2>1, <2>2
  <2>4. PICK x \in T : \A y \in T : y <= x
    BY <1>1, <2>3, LastIndex
  <2>5. x \in DOMAIN cq /\ cq[x][1] = f
    BY <2>1, <2>4
  <2>6. ASSUME NEW j \in x + 1 .. Len(cq) PROVE cq[j][1] # cq[x][1]
    <3>1. j \in DOMAIN cq /\ ~(j <= x) /\ x \in Nat
      BY SMT, <1>1, <2>5, <2>6
    <3>2. j \notin T
      BY <2>4, <3>1
    <3> QED BY <2>1, <2>5, <3>1, <3>2
  <2>7. LastAt(x)
    BY <2>6 DEF LastAt
  <2> QED BY <1>3, <1>7, <2>5, <2>7
<1> QED BY <1>4, <1>5, <1>6, <1>7

(* What drain_cqe puts into the ring: the woken fibers, once each. *)
LEMMA WokenRing ==
    ASSUME WellConfigured, Queues, Owners, NEW order \in Ascending(Woken),
           NEW wk, wk = [i \in DOMAIN order |-> cq[order[i]][1]]
    PROVE  /\ wk \in Seq(Fibers) /\ IsInjective(wk)
           /\ \A f : f \in Range(wk) <=> \E k \in Woken : cq[k][1] = f
<1>1. cq \in Seq(Entries) /\ Len(cq) \in Nat /\ DOMAIN cq = 1 .. Len(cq)
  <2>1. cq \in Seq(Entries)
    BY DEF Queues
  <2> QED BY SMT, <2>1
<1>2. /\ Woken \subseteq DOMAIN cq
      /\ \A k \in Woken : cq[k][1] \in Fibers
      /\ \A j, k \in Woken : cq[j][1] = cq[k][1] => j = k
  BY WokenFacts
<1>3. PICK D : D = Woken
  OBVIOUS
<1>4. D \subseteq Nat /\ IsFiniteSet(D) /\ Cardinality(D) \in Nat
  <2>1. D \subseteq 1 .. Len(cq)
    BY <1>1, <1>2, <1>3
  <2>2. IsFiniteSet(1 .. Len(cq))
    BY SMT, <1>1, FS_Interval
  <2>3. IsFiniteSet(D)
    BY <2>1, <2>2, FS_Subset
  <2>4. D \subseteq Nat
    BY SMT, <1>1, <2>1
  <2> QED BY <2>3, <2>4, FS_CardinalityType
<1>5. order \in [1 .. Cardinality(D) -> D] /\ \A i, j \in DOMAIN order : i < j => order[i] < order[j]
  BY <1>3 DEF Ascending
<1>6. /\ DOMAIN order = 1 .. Cardinality(D) /\ IsInjective(order)
      /\ \A k \in DOMAIN order : order[k] \in D
      /\ \A d \in D : \E k \in DOMAIN order : order[k] = d
  BY ZenonT(40), <1>4, <1>5, AscendingOnce
<1>7. DOMAIN wk = 1 .. Cardinality(D) /\ \A i \in 1 .. Cardinality(D) : wk[i] = cq[order[i]][1] /\ wk[i] \in Fibers
  BY <1>2, <1>3, <1>6
<1>8. wk \in Seq(Fibers)
  <2>1. wk \in [1 .. Cardinality(D) -> Fibers]
    BY <1>2, <1>3, <1>6
  <2> QED BY SMT, <1>4, <2>1
<1>9. IsInjective(wk)
  <2>1. ASSUME NEW i \in DOMAIN wk, NEW j \in DOMAIN wk, wk[i] = wk[j] PROVE i = j
    <3>1. order[i] \in Woken /\ order[j] \in Woken /\ cq[order[i]][1] = cq[order[j]][1] /\ i \in DOMAIN order /\ j \in DOMAIN order
      BY <1>3, <1>6, <1>7, <2>1
    <3>2. order[i] = order[j]
      BY <1>2, <3>1
    <3> QED BY <1>6, <3>1, <3>2 DEF IsInjective
  <2> QED BY <2>1 DEF IsInjective
<1>10. ASSUME NEW f PROVE f \in Range(wk) <=> \E k \in Woken : cq[k][1] = f
  <2>1. ASSUME f \in Range(wk) PROVE \E k \in Woken : cq[k][1] = f
    <3>1. PICK i \in DOMAIN wk : f = wk[i]
      BY <2>1 DEF Range
    <3> QED BY <1>3, <1>6, <1>7, <3>1
  <2>2. ASSUME NEW k \in Woken, cq[k][1] = f PROVE f \in Range(wk)
    <3>1. PICK i \in DOMAIN order : order[i] = k
      BY <1>3, <1>6
    <3>2. i \in DOMAIN wk /\ wk[i] = f
      BY <1>6, <1>7, <2>2, <3>1
    <3> QED BY <3>2 DEF Range
  <2> QED BY <2>1, <2>2
<1> QED BY <1>8, <1>9, <1>10

(* A fiber keeps what has not completed. *)
LEMMA OwnersDrain ==
    ASSUME Queues, Owners, NEW f \in Fibers, UnderWay' = UnderWay \ Range(cq)
    PROVE  /\ cqeLeft[f] - Completed(f) = Cardinality(Of(UnderWay', f))
           /\ Completed(f) \in 0 .. cqeLeft[f] /\ cqeLeft[f] \in 0 .. BatchSize
<1>1. cqeLeft[f] = Cardinality(Of(UnderWay, f)) /\ cqeLeft \in [Fibers -> 0 .. BatchSize]
  BY DEF Owners
<1>2. PICK A : A = Of(UnderWay, f)
  OBVIOUS
<1>3. PICK C : C = Of(Range(cq), f)
  OBVIOUS
<1>4. IsFiniteSet(A) /\ Cardinality(A) \in Nat
  BY <1>2, QueueFacts
<1>5. IsFiniteSet(C) /\ Completed(f) = Cardinality(C) /\ Completed(f) \in Nat
  BY <1>3, CompletedIsExact
<1>6. C \subseteq A
  BY <1>2, <1>3 DEF Of, UnderWay
<1>7. Of(UnderWay', f) = A \ C
  BY <1>2, <1>3 DEF Of
<1>8. Cardinality(A \ C) = Cardinality(A) - Cardinality(A \cap C) /\ A \cap C = C /\ Cardinality(C) <= Cardinality(A)
  <2>1. A \cap C = C
    BY <1>6
  <2>2. Cardinality(C) <= Cardinality(A)
    BY <1>4, <1>6, FS_Subset
  <2> QED BY <1>4, <2>1, <2>2, FS_Difference
<1>9. PICK n \in Nat, m \in Nat : n = Cardinality(A) /\ m = Cardinality(C)
  BY <1>4, <1>5
<1>10. cqeLeft[f] = n /\ Completed(f) = m /\ m <= n /\ Cardinality(Of(UnderWay', f)) = n - m
  BY <1>1, <1>2, <1>5, <1>7, <1>8, <1>9
<1>11. cqeLeft[f] \in 0 .. BatchSize
  BY <1>1
<1> QED BY SMT, <1>9, <1>10, <1>11

LEMMA drain_cqeStep == ASSUME WellConfigured, ReactorInv, drain_cqe PROVE ReactorInv'
<1>1. Rings /\ Queues /\ Owners /\ Counts
  BY InvParts
<1>2. phase = "drain" /\ phase' = "top" /\ left' = left /\ cur' = cur /\ sq' = sq /\ kernel' = kernel /\ always' = always
      /\ pending' = pending /\ toSubmit' = toSubmit /\ since' = since
  BY DEF drain_cqe
<1>3. phase' \in {"top", "pass", "drain"} /\ phase' # "drain" /\ phase # "pass"
  BY <1>2
<1>4. Idle'
  BY <1>3 DEF Idle
<1>5. cur = None
  BY <1>1, <1>3, RingFacts
<1>6. CASE submitted = 0
  <2>1. UNCHANGED <<ready, state, cqeLeft, cq, submitted, outstanding>>
    BY <1>6 DEF drain_cqe
  <2>2. Queues' /\ Counts' /\ UnderWay' = UnderWay
    BY <1>1, <1>2, <2>1, QueuesSame DEF countVars
  <2>3. Owners'
    BY <1>1, <2>1, <2>2, OwnersStay
  <2>4. Rings'
    BY <1>1, <1>2, <1>3, <1>5, <2>1 DEF Rings
  <2> QED BY <1>4, <2>2, <2>3, <2>4 DEF ReactorInv
<1>7. CASE submitted # 0
  <2>1. PICK order \in Ascending(Woken) : ready' = ready \o [i \in DOMAIN order |-> cq[order[i]][1]]
    BY <1>7 DEF drain_cqe
  <2>2. /\ state' = [f \in Fibers |-> IF \E k \in Woken : cq[k][1] = f THEN "Ready" ELSE state[f]]
        /\ cqeLeft' = [f \in Fibers |-> cqeLeft[f] - Completed(f)]
        /\ cq' = <<>> /\ submitted' = submitted - Len(cq) /\ outstanding' = outstanding - Len(cq)
    BY <1>7 DEF drain_cqe
  <2>3. PICK wk : wk = [i \in DOMAIN order |-> cq[order[i]][1]]
    OBVIOUS
  <2>4. /\ wk \in Seq(Fibers) /\ IsInjective(wk)
        /\ \A f : f \in Range(wk) <=> \E k \in Woken : cq[k][1] = f
    BY <1>1, <2>3, WokenRing
  <2>5. /\ \A f \in Fibers : f \in Range(wk) => state[f] = "io"
        /\ \A f \in Fibers : f \in Range(wk) <=> Completed(f) > 0 /\ Completed(f) = cqeLeft[f]
    BY <1>1, <2>4, WokenFacts
  <2>6. \A f \in Fibers : state'[f] = IF f \in Range(wk) THEN "Ready" ELSE state[f]
    BY <2>2, <2>4
  <2>7. Range(wk) \subseteq Fibers
    BY SMT, <2>4 DEF Range
  <2>8. Queues' /\ UnderWay' = UnderWay \ Range(cq)
    <3>1. << >> \in Seq(Entries) /\ IsInjective(<< >>) /\ Range(<< >>) = {}
      BY EmptyOnce
    <3>2. cq' \in Seq(Entries) /\ IsInjective(cq') /\ Range(cq') = {}
      BY <2>2, <3>1
    <3>3. Queues'
      BY <1>1, <1>2, <3>2 DEF Queues
    <3>4. Range(sq) \cap Range(cq) = {} /\ kernel \cap Range(cq) = {}
      BY <1>1 DEF Queues
    <3>5. UnderWay' = Range(sq) \cup kernel \cup {}
      BY <1>2, <3>2 DEF UnderWay
    <3> QED BY <3>3, <3>4, <3>5 DEF UnderWay
  <2>9. Owners'
    <3>1. ASSUME NEW f \in Fibers
          PROVE  /\ cqeLeft'[f] \in 0 .. BatchSize /\ cqeLeft'[f] = Cardinality(Of(UnderWay', f))
                 /\ cqeLeft'[f] > 0 <=> state'[f] = "io"
      <4>1. PICK n, m : n = cqeLeft[f] /\ m = Completed(f)
        OBVIOUS
      <4>2. n - m = Cardinality(Of(UnderWay', f)) /\ m \in 0 .. n /\ n \in 0 .. BatchSize
        BY <1>1, <2>8, <4>1, OwnersDrain
      <4>3. cqeLeft'[f] = n - m
        BY <2>2, <4>1
      <4>4. n > 0 <=> state[f] = "io"
        BY <1>1, <4>1 DEF Owners
      <4>5. f \in Range(wk) <=> m > 0 /\ m = n
        BY <2>5, <4>1
      <4>6. BatchSize \in Nat
        BY DEF WellConfigured
      <4>7. n - m \in 0 .. BatchSize
        BY SMT, <4>2, <4>6
      <4>8. n - m > 0 <=> state'[f] = "io"
        <5>1. CASE f \in Range(wk)
          <6>1. state'[f] = "Ready"
            BY <2>6, <5>1
          <6>2. n - m = 0
            BY SMT, <4>2, <4>5, <4>6, <5>1
          <6> QED BY SMT, <6>1, <6>2
        <5>2. CASE f \notin Range(wk)
          <6>1. state'[f] = state[f]
            BY <2>6, <5>2
          <6>2. n - m > 0 <=> n > 0
            BY SMT, <4>2, <4>5, <4>6, <5>2
          <6> QED BY <4>4, <6>1, <6>2
        <5> QED BY <5>1, <5>2
      <4> QED BY <4>2, <4>3, <4>7, <4>8
    <3>2. cqeLeft' \in [Fibers -> 0 .. BatchSize]
      <4>1. \A f \in Fibers : cqeLeft[f] - Completed(f) \in 0 .. BatchSize
        BY <2>2, <3>1
      <4> QED BY <2>2, <4>1
    <3> QED BY <3>1, <3>2 DEF Owners
  <2>10. Counts'
    <3>1. PICK k \in Nat, l \in Nat, d \in Nat : k = Cardinality(kernel) /\ l = Len(sq) /\ d = Len(cq)
      BY <1>1, QueueFacts
    <3>2. submitted = k + d + (l - toSubmit) /\ toSubmit \in 0 .. l /\ pending = toSubmit /\ outstanding = submitted + pending
      BY <1>1, <3>1 DEF Counts
    <3>3. Cardinality(kernel') = k /\ Len(sq') = l /\ Len(cq') = 0
      <4>1. Len(<< >>) = 0
        OBVIOUS
      <4> QED BY <1>2, <2>2, <3>1, <4>1
    <3>4. submitted' = submitted - d /\ outstanding' = outstanding - d
      BY <2>2, <3>1
    <3>5. submitted' = k + 0 + (l - toSubmit) /\ outstanding' = submitted' + pending
      BY SMT, <3>2, <3>4
    <3>6. submitted' = Cardinality(kernel') + Len(cq') + (Len(sq') - toSubmit') /\ outstanding' = submitted' + pending'
      BY <1>2, <3>3, <3>5
    <3> QED BY <1>1, <1>2, <3>6 DEF Counts, TotalIoFibers
  <2>11. Rings'
    <3>1. ready \in Seq(Fibers) /\ IsInjective(ready) /\ Range(ready) \subseteq Fibers
          /\ (\A f \in Fibers : f \in Range(ready) <=> state[f] = "Ready")
      BY <1>1, RingFacts
    <3>2. Range(ready) \cap Range(wk) = {}
      <4>1. ASSUME NEW f \in Range(ready) PROVE f \notin Range(wk)
        <5>1. f \in Fibers /\ state[f] = "Ready"
          BY <3>1
        <5>2. "Ready" # "io"
          OBVIOUS
        <5> QED BY <2>5, <5>1, <5>2
      <4> QED BY <4>1
    <3>3. ready' = ready \o wk
      BY <2>1, <2>3
    <3>4. /\ ready' \in Seq(Fibers) /\ Len(ready') = Len(ready) + Len(wk)
          /\ Range(ready') = Range(ready) \cup Range(wk) /\ IsInjective(ready')
      BY SMT, <2>4, <3>1, <3>2, <3>3, CatOnce
    <3>5. left' \in 0 .. Len(ready')
      <4>1. Len(wk) \in Nat
        BY SMT, <2>4
      <4>2. left \in Nat /\ left <= Len(ready) /\ Len(ready) \in Nat
        BY <1>1, RingFacts
      <4> QED BY SMT, <1>2, <3>4, <4>1, <4>2
    <3>6. \A f \in Fibers : f \in Range(ready') <=> state'[f] = "Ready"
      BY <2>6, <3>1, <3>4
    <3>7. Range(ready') = {f \in Fibers : state'[f] = "Ready"}
      <4>1. Range(ready') \subseteq Fibers
        BY <2>7, <3>1, <3>4
      <4> QED BY <3>6, <4>1
    <3>8. state' \in [Fibers -> {"Ready", "Running", "io", "wait"}]
      <4>1. state \in [Fibers -> {"Ready", "Running", "io", "wait"}]
        BY <1>1, RingFacts
      <4> QED BY <2>2, <4>1
    <3>9. cur' = None
      BY <1>2, <1>5
    <3> QED BY <1>3, <3>4, <3>5, <3>7, <3>8, <3>9 DEF Rings
  <2> QED BY <1>4, <2>8, <2>9, <2>10, <2>11 DEF ReactorInv
<1> QED BY <1>6, <1>7

-----------------------------------------------------------------------------
LEMMA ReactorInit == ASSUME WellConfigured, Init PROVE ReactorInv
<1>1. IsFiniteSet(Fibers) /\ BatchSize \in Nat
  BY DEF WellConfigured
<1>2. ready = CHOOSE s \in Bijection(1 .. Cardinality(Fibers), Fibers) : TRUE
  BY DEF Init, Spawned
<1>3. ready \in Seq(Fibers) /\ IsInjective(ready) /\ Range(ready) = Fibers
  BY <1>1, <1>2, ListOnce
<1>4. /\ always \in BOOLEAN /\ phase = "top" /\ left = 0 /\ cur = None
      /\ state = [f \in Fibers |-> "Ready"] /\ cqeLeft = [f \in Fibers |-> 0]
      /\ sq = <<>> /\ kernel = {} /\ cq = <<>>
      /\ outstanding = 0 /\ submitted = 0 /\ pending = 0 /\ toSubmit = 0 /\ since = 0
  BY DEF Init
<1>5. Rings
  <2>1. state \in [Fibers -> {"Ready", "Running", "io", "wait"}] /\ {f \in Fibers : state[f] = "Ready"} = Fibers
    BY <1>4
  <2>2. left \in 0 .. Len(ready) /\ phase \in {"top", "pass", "drain"}
    BY SMT, <1>3, <1>4
  <2> QED BY <1>3, <1>4, <2>1, <2>2 DEF Rings
<1>6. << >> \in Seq(Entries) /\ IsInjective(<< >>) /\ Range(<< >>) = {} /\ Len(<< >>) = 0
  BY EmptyOnce
<1>7. IsFiniteSet({}) /\ Cardinality({}) = 0
  BY FS_EmptySet
<1>8. Queues
  BY <1>4, <1>6, <1>7 DEF Queues
<1>9. UnderWay = {}
  BY <1>4, <1>6 DEF UnderWay
<1>10. Owners
  <2>1. ASSUME NEW f \in Fibers PROVE cqeLeft[f] = Cardinality(Of(UnderWay, f)) /\ (cqeLeft[f] > 0 <=> state[f] = "io")
    <3>1. Of(UnderWay, f) = {}
      BY <1>9 DEF Of
    <3>2. cqeLeft[f] = 0 /\ state[f] = "Ready"
      BY <1>4
    <3> QED BY SMT, <1>7, <3>1, <3>2
  <2>2. cqeLeft \in [Fibers -> 0 .. BatchSize]
    BY SMT, <1>1, <1>4
  <2> QED BY <2>1, <2>2 DEF Owners
<1>11. Counts
  <2>1. PICK total : total = TotalIoFibers
    OBVIOUS
  <2>2. total \in Nat /\ total > 0
    BY <2>1, TotalFacts
  <2>3. since - toSubmit \in 0 .. total - 1 /\ (toSubmit = 0 <=> since = 0) /\ since \in Nat
    BY SMT, <1>4, <2>2
  <2>4. Len(sq) = 0 /\ Len(cq) = 0 /\ Cardinality(kernel) = 0
    BY <1>4, <1>6, <1>7
  <2>5. toSubmit \in 0 .. Len(sq) /\ pending = toSubmit /\ toSubmit = Len(sq)
        /\ submitted = Cardinality(kernel) + Len(cq) + (Len(sq) - toSubmit) /\ outstanding = submitted + pending
    BY SMT, <1>4, <2>4
  <2> QED BY <1>4, <2>1, <2>3, <2>5 DEF Counts
<1>12. Idle
  BY <1>4 DEF Idle
<1> QED BY <1>5, <1>8, <1>10, <1>11, <1>12 DEF ReactorInv

LEMMA ReactorStutter == ASSUME WellConfigured, ReactorInv, UNCHANGED vars PROVE ReactorInv'
<1>1. Rings /\ Queues /\ Owners /\ Counts /\ Idle
  BY InvParts
<1>2. /\ always' = always /\ phase' = phase /\ left' = left /\ cur' = cur /\ ready' = ready /\ state' = state
      /\ cqeLeft' = cqeLeft /\ sq' = sq /\ kernel' = kernel /\ cq' = cq /\ UNCHANGED countVars
  BY DEF vars, fiberVars, queueVars
<1>3. Queues' /\ Counts' /\ UnderWay' = UnderWay /\ toSubmit' = toSubmit
  BY <1>1, <1>2, QueuesSame
<1>4. Owners'
  BY <1>1, <1>2, <1>3, OwnersStay
<1>5. Rings' /\ Idle'
  BY <1>1, <1>2, <1>3 DEF Rings, Idle
<1> QED BY <1>3, <1>4, <1>5 DEF ReactorInv

LEMMA ReactorStep == ASSUME WellConfigured, ReactorInv, [Next]_vars PROVE ReactorInv'
<1>1. CASE Next
  <2>1. ASSUME NEW g \in Fibers, Wake(g) PROVE ReactorInv'
    BY <2>1, WakeStep
  <2>2. ASSUME NEW f \in Fibers, NEW k \in 1 .. BatchSize, Device(<<f, k>>) PROVE ReactorInv'
    BY <2>2, DeviceStep
  <2> QED BY <1>1, <2>1, <2>2, StartPassStep, ResumeStep, IoStep, IoBatchStep, YieldStep, WaitStep, EndPassStep,
             drain_cqeStep DEF Next
<1>2. CASE UNCHANGED vars
  BY <1>2, ReactorStutter
<1> QED BY <1>1, <1>2

LEMMA ReactorInvariant == ASSUME WellConfigured PROVE Spec => []ReactorInv
<1>1. Init => ReactorInv
  BY ReactorInit
<1>2. ReactorInv /\ [Next]_vars => ReactorInv'
  BY ReactorStep
<1> QED BY <1>1, <1>2, PTL DEF Spec

-----------------------------------------------------------------------------
(* A fiber that is parked in io or io_batch waits for exactly the entries   *)
(* that are under way for it, and a fiber is in the ready ring once when it *)
(* is ready and not otherwise, even when io_uring_submit takes fewer        *)
(* entries than it was given (io, io_batch, check_submit, drain_cqe).       *)
THEOREM FiberWaitsForItsIo == ASSUME WellConfigured PROVE Spec => []ParkedForItsIo
<1>1. ASSUME ReactorInv PROVE ParkedForItsIo
  <2>1. Rings /\ Queues /\ Owners
    BY <1>1, InvParts
  <2>2. ASSUME NEW f \in Fibers
        PROVE  cqeLeft[f] = Cardinality({k \in DOMAIN sq : sq[k][1] = f})
                            + Cardinality({e \in kernel : e[1] = f}) + Completed(f)
    <3>1. PICK A : A = Of(Range(sq), f)
      OBVIOUS
    <3>2. PICK B : B = Of(kernel, f)
      OBVIOUS
    <3>3. PICK C : C = Of(Range(cq), f)
      OBVIOUS
    <3>4. /\ sq \in Seq(Entries) /\ IsInjective(sq) /\ IsFiniteSet(kernel)
          /\ Range(sq) \cap kernel = {} /\ Range(sq) \cap Range(cq) = {} /\ kernel \cap Range(cq) = {}
      BY <2>1 DEF Queues
    <3>5. Cardinality({k \in DOMAIN sq : sq[k][1] = f}) = Cardinality(A) /\ IsFiniteSet(A) /\ Cardinality(A) \in Nat
      <4>1. PICK K : K = {k \in DOMAIN sq : sq[k][1] = f}
        OBVIOUS
      <4>2. A = {sq[k] : k \in K} /\ K \subseteq DOMAIN sq
        BY <3>1, <4>1 DEF Of, Range
      <4>3. IsFiniteSet(K) /\ IsFiniteSet(A) /\ Cardinality(A) = Cardinality(K) /\ Cardinality(K) \in Nat
        <5>1. /\ IsFiniteSet(K) /\ IsFiniteSet({sq[k] : k \in K})
              /\ Cardinality({sq[k] : k \in K}) = Cardinality(K) /\ Cardinality(K) \in Nat
          BY <3>4, <4>2, PlacesOnce
        <5> QED BY <4>2, <5>1
      <4> QED BY <4>1, <4>3
    <3>6. IsFiniteSet(C) /\ Completed(f) = Cardinality(C) /\ Completed(f) \in Nat
      BY <2>1, <3>3, CompletedIsExact
    <3>7. IsFiniteSet(B) /\ Cardinality(B) \in Nat /\ B = {e \in kernel : e[1] = f}
      <4>1. B \subseteq kernel /\ B = {e \in kernel : e[1] = f}
        BY <3>2 DEF Of
      <4>2. IsFiniteSet(B)
        BY <3>4, <4>1, FS_Subset
      <4> QED BY <4>1, <4>2, FS_CardinalityType
    <3>8. A \cap B = {} /\ (A \cup B) \cap C = {} /\ Of(UnderWay, f) = (A \cup B) \cup C
      BY <3>1, <3>2, <3>3, <3>4 DEF Of, UnderWay
    <3>9. Cardinality({}) = 0
      BY FS_EmptySet
    <3>10. IsFiniteSet(A \cup B) /\ Cardinality(A \cup B) = Cardinality(A) + Cardinality(B)
      <4>1. IsFiniteSet(A \cup B) /\ Cardinality(A \cup B) = Cardinality(A) + Cardinality(B) - Cardinality(A \cap B)
        BY <3>5, <3>7, FS_Union
      <4>2. Cardinality(A \cap B) = 0
        BY <3>8, <3>9
      <4>3. Cardinality(A) \in Nat /\ Cardinality(B) \in Nat
        BY <3>5, <3>7
      <4> QED BY SMT, <4>1, <4>2, <4>3
    <3>11. Cardinality((A \cup B) \cup C) = Cardinality(A \cup B) + Cardinality(C)
      <4>1. PICK U : U = A \cup B
        OBVIOUS
      <4>2. IsFiniteSet(U) /\ U \cap C = {} /\ Cardinality(U) \in Nat
        BY <3>8, <3>10, <4>1, FS_CardinalityType
      <4>3. Cardinality(U \cup C) = Cardinality(U) + Cardinality(C) - Cardinality(U \cap C)
        BY <3>6, <4>2, FS_Union
      <4>4. Cardinality(C) \in Nat /\ Cardinality(U) \in Nat /\ Cardinality(U \cap C) = 0
        BY <3>6, <3>9, <4>2
      <4>5. Cardinality(U \cup C) = Cardinality(U) + Cardinality(C)
        BY SMT, <4>3, <4>4
      <4> QED BY <4>1, <4>5
    <3>12. cqeLeft[f] = Cardinality(Of(UnderWay, f))
      BY <2>1 DEF Owners
    <3> QED BY <3>5, <3>6, <3>7, <3>8, <3>10, <3>11, <3>12
  <2> QED BY <2>1, <2>2 DEF ParkedForItsIo, Rings, Owners
<1> QED BY <1>1, ReactorInvariant, PTL

LEMMA TypesHold == ASSUME ReactorInv PROVE TypeOK
<1>1. Rings /\ Queues /\ Owners /\ Counts
  BY InvParts
<1>2. PICK k \in Nat, l \in Nat, d \in Nat : k = Cardinality(kernel) /\ l = Len(sq) /\ d = Len(cq)
  BY <1>1, QueueFacts
<1>3. submitted = k + d + (l - toSubmit) /\ toSubmit \in 0 .. l /\ pending = toSubmit /\ outstanding = submitted + pending
      /\ since \in Nat
  BY <1>1, <1>2 DEF Counts
<1>4. outstanding \in Nat /\ submitted \in Nat /\ pending \in Nat /\ toSubmit \in Nat
  BY SMT, <1>3
<1>5. cur \in Fibers \cup {None}
  BY <1>1, RingFacts
<1> QED BY <1>1, <1>3, <1>4, <1>5 DEF TypeOK, Rings, Owners

(* outstanding_io, submitted_io, pending_io and to_submit count what is in  *)
(* the queues, and check_submit never computes a negative index, as long as *)
(* io_uring_submit takes all entries it is given.                           *)
THEOREM IoCountsAreExact == ASSUME WellConfigured, ~Partial PROVE Spec => []CountsAreExact
<1>1. ASSUME ReactorInv PROVE CountsAreExact
  <2>1. Counts /\ Queues
    BY <1>1, InvParts
  <2>2. PICK k \in Nat, l \in Nat, d \in Nat : k = Cardinality(kernel) /\ l = Len(sq) /\ d = Len(cq)
    BY <2>1, QueueFacts
  <2>3. submitted = k + d + (l - toSubmit) /\ toSubmit = l
    BY <2>1, <2>2 DEF Counts
  <2>4. submitted = k + d
    BY SMT, <2>3
  <2>5. submitted = Cardinality(kernel) + Len(cq)
    BY <2>2, <2>4
  <2> QED BY <1>1, <2>1, <2>5, TypesHold DEF CountsAreExact, Counts
<1> QED BY <1>1, ReactorInvariant, PTL

(* The worker does not go idle over I/O that it has not submitted: the      *)
(* flush before park leaves nothing in the submission queue, and drain_cqe  *)
(* looks for completions as long as a fiber is parked for I/O, as long as   *)
(* io_uring_submit takes all entries it is given.                           *)
THEOREM NothingIsLeftBehind == ASSUME WellConfigured, ~Partial PROVE Spec => []NothingLeftBehind
<1>1. ASSUME ReactorInv, phase = "drain", ready = <<>>
      PROVE  sq = <<>> /\ ((\E f \in Fibers : state[f] = "io") => submitted > 0)
  <2>1. Queues /\ Owners /\ Counts /\ Idle
    BY <1>1, InvParts
  <2>2. PICK k \in Nat, l \in Nat, d \in Nat : k = Cardinality(kernel) /\ l = Len(sq) /\ d = Len(cq)
    BY <2>1, QueueFacts
  <2>3. submitted = k + d + (l - toSubmit) /\ toSubmit = l /\ toSubmit = 0
    BY <1>1, <2>1, <2>2 DEF Counts, Idle
  <2>4. submitted = k + d /\ l = 0
    BY SMT, <2>3
  <2>5. sq = <<>> /\ Range(sq) = {}
    <3>1. sq \in Seq(Entries)
      BY <2>1 DEF Queues
    <3>2. Len(sq) = 0
      BY <2>2, <2>4
    <3>3. sq = <<>>
      BY SMT, <3>1, <3>2
    <3> QED BY <3>3, EmptyOnce
  <2>6. ASSUME NEW f \in Fibers, state[f] = "io" PROVE submitted > 0
    <3>1. cqeLeft[f] > 0 /\ cqeLeft[f] = Cardinality(Of(UnderWay, f))
      BY <2>1, <2>6 DEF Owners
    <3>2. Cardinality({}) = 0
      BY FS_EmptySet
    <3>3. Of(UnderWay, f) # {}
      BY SMT, <3>1, <3>2
    <3>4. kernel # {} \/ Range(cq) # {}
      BY <2>5, <3>3 DEF Of, UnderWay
    <3>5. kernel # {} => k > 0
      <4>1. Cardinality(kernel) = 0 <=> kernel = {}
        BY <2>1, QueueFacts, FS_EmptySet
      <4> QED BY SMT, <2>2, <4>1
    <3>6. Range(cq) # {} => d > 0
      <4>1. cq \in Seq(Entries) /\ IsInjective(cq)
        BY <2>1 DEF Queues
      <4>2. Cardinality(Range(cq)) = Len(cq) /\ IsFiniteSet(Range(cq))
        BY <4>1, OnceCard
      <4>3. Cardinality(Range(cq)) = 0 <=> Range(cq) = {}
        BY <4>2, FS_EmptySet
      <4> QED BY SMT, <2>2, <4>2, <4>3
    <3> QED BY SMT, <2>4, <3>4, <3>5, <3>6
  <2> QED BY <2>5, <2>6
<1>2. ReactorInv => NothingLeftBehind
  BY <1>1 DEF NothingLeftBehind
<1> QED BY <1>2, ReactorInvariant, PTL
=============================================================================
