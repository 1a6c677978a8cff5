----------------------------- MODULE RobinHood ------------------------------
(***************************************************************************)
(* The page table of the single-threaded buffer manager                    *)
(* (buffer_mgr/rh_backshift_u64_map.hpp): an open-addressing table with    *)
(* robin-hood insertion, backshift deletion and a clock hand.              *)
(*                                                                         *)
(* One action per operation.  hash is any function of the keys to the      *)
(* slots, fixed at the start.  The limit on the probe distance is a        *)
(* constant so that it is met in small tables.                             *)
(***************************************************************************)
EXTENDS Integers, FiniteSets, FiniteSetsExt

CONSTANTS
    Keys,        \* page ids
    Values,      \* what the table maps them to
    n,           \* number of slots
    MaxDist,     \* 255: a probe never gets this far
    EmptyKey     \* EMPTY_KEY

VARIABLES
    home,        \* index(hash(k))
    slot,        \* entries and ctrl: the probe distance, 0 for an empty slot
    sz,
    sweep,       \* sweep_
    map          \* ghost: the function the table stands for

vars == <<home, slot, sz, sweep, map>>

Slots == 0 .. n - 1
Vacant == [key |-> EmptyKey, val |-> EmptyKey, ctrl |-> 0]
Entries == [key : Keys, val : Values, ctrl : 1 .. MaxDist - 1]

(* Slots hold entries or are vacant, and the hand points at a slot. *)
TypeOK ==
    /\ home \in [Keys -> Slots]
    /\ slot \in [Slots -> Entries \cup {Vacant}]
    /\ sz \in 0 .. n /\ sweep \in Slots
    /\ DOMAIN map \subseteq Keys /\ \A k \in DOMAIN map : map[k] \in Values

Init ==
    /\ home \in [Keys -> Slots]
    /\ slot = [i \in Slots |-> Vacant]
    /\ sz = 0 /\ sweep = 0
    /\ map = [k \in {} |-> 0]

-----------------------------------------------------------------------------
Wrap(i) == i % n
At(k, dist) == Wrap(home[k] + dist - 1)

(* The distance at which a search for k stops: at a vacant slot, at an      *)
(* entry nearer to its home than k would be there, or at k.                 *)
Stops(k, dist) ==
    LET e == slot[At(k, dist)] IN e.ctrl < dist \/ e.key = k

Reach(k) == LET ds == {d \in 1 .. MaxDist - 1 : Stops(k, d)}
            IN  IF ds = {} THEN MaxDist ELSE Min(ds)

Found(k) == Reach(k) < MaxDist /\ slot[At(k, Reach(k))].key = k

find(k) == IF Found(k) THEN slot[At(k, Reach(k))].val ELSE EmptyKey

(* The loop of insert: e looks for a place at slot i; a nearer entry gives  *)
(* up its slot and is carried on.  The result is the table, or Overflow.    *)
Overflow == [i \in {} |-> Vacant]

RECURSIVE Carry(_, _, _)
Carry(s, i, e) ==
    LET next == [IF s[i].ctrl < e.ctrl THEN s[i] ELSE e EXCEPT !.ctrl = @ + 1]
        t == IF s[i].ctrl < e.ctrl THEN [s EXCEPT ![i] = e] ELSE s
    IN  IF s[i].ctrl = 0 THEN [s EXCEPT ![i] = e]
        ELSE IF s[i].key = e.key THEN [s EXCEPT ![i].val = e.val]
        ELSE IF next.ctrl = MaxDist THEN Overflow
        ELSE Carry(t, Wrap(i + 1), next)

Inserted(k, v) == Carry(slot, home[k], [key |-> k, val |-> v, ctrl |-> 1])

insert(k, v) ==
    /\ Inserted(k, v) # Overflow
    /\ slot' = Inserted(k, v)
    /\ sz' = IF Found(k) THEN sz ELSE sz + 1
    /\ map' = [x \in DOMAIN map \cup {k} |-> IF x = k THEN v ELSE map[x]]
    /\ UNCHANGED <<home, sweep>>

(* Faulty variant of backshift_delete: the slot is only cleared. *)
backshift_deleteNot(hole) == [slot EXCEPT ![hole] = Vacant]

(* backshift_delete: the entries behind the hole move up to the first one   *)
(* that is at home, or to a vacant slot.                                    *)
backshift_delete(hole) ==
    LET len == Min({m \in Slots : slot[Wrap(hole + m + 1)].ctrl <= 1})
        behind(i) == (i - hole + n) % n
    IN  [i \in Slots |->
            CASE behind(i) < len -> [slot[Wrap(i + 1)] EXCEPT !.ctrl = @ - 1]
              [] behind(i) = len -> Vacant
              [] OTHER -> slot[i]]

erase(k) ==
    /\ Found(k)
    /\ slot' = backshift_delete(At(k, Reach(k)))
    /\ sz' = sz - 1
    /\ map' = [x \in DOMAIN map \ {k} |-> map[x]]
    /\ UNCHANGED <<home, sweep>>

(* clock_sweep_next: the callback accepts an entry after it passed others,  *)
(* or none in a full rotation, which leaves the hand where it was.          *)
clock_sweep_next ==
    /\ sz > 0
    /\ \/ \E i \in Slots : slot[i].ctrl # 0 /\ sweep' = Wrap(i + 1)
       \/ UNCHANGED sweep
    /\ UNCHANGED <<home, slot, sz, map>>

Next ==
    \/ \E k \in Keys, v \in Values : insert(k, v)
    \/ \E k \in Keys : erase(k)
    \/ clock_sweep_next

Spec == Init /\ [][Next]_vars

-----------------------------------------------------------------------------
(* The table is the function it stands for: find returns the value of every *)
(* key in it and nothing for any other, whatever insertions, updates and    *)
(* deletions came before, and size() is the number of its keys.  A search   *)
(* may stop early only because insert and backshift_delete keep the         *)
(* robin-hood order: every stored distance is the distance of its slot from *)
(* the home of its key, and grows by one at most from slot to slot.         *)
TableIsAMap ==
    /\ TypeOK
    /\ \A k \in Keys : find(k) = IF k \in DOMAIN map THEN map[k] ELSE EmptyKey
    /\ sz = Cardinality(DOMAIN map)
    /\ \A i \in Slots :
          /\ slot[i].ctrl # 0 => At(slot[i].key, slot[i].ctrl) = i
          /\ slot[Wrap(i + 1)].ctrl <= slot[i].ctrl + 1
=============================================================================
