------------------------------- MODULE BTree --------------------------------
(***************************************************************************)
(* The B-tree of the multi-threaded buffer manager (mt/btree.cpp,          *)
(* mt/btree.hpp, mt/btree_node.hpp, mt/guards.hpp): optimistic descent,    *)
(* insertion with splits, removal with merges, lookup, update in place and *)
(* the two scans, by several fibers at once.                               *)
(*                                                                         *)
(* Pages stay in memory; BufferPool models what fix does when they do not. *)
(* A lock is taken, used and released in one step where the fiber cannot   *)
(* wait in between, and one guard constructor is one step.  A page that    *)
(* changed or is locked since it was fixed optimistically can be read as   *)
(* anything: such a read leads wherever any content would lead.  Entries   *)
(* have one size, so the tests for space are tests of the count.           *)
(***************************************************************************)
EXTENDS Integers, Sequences, SequencesExt, FiniteSets, Functions

CONSTANTS
    Fibers, None,
    Load,         \* the keys inserted first, one after the other
    MaxKey,       \* keys are 1 .. MaxKey
    LeafCap,      \* entries of a leaf
    InnerCap,     \* separators of an inner node
    Underfull,    \* entries of a leaf that fill a quarter of it
    RightMax,     \* entries of a right neighbour that leave a quarter free
    Mixes,        \* sets of kinds of operation that may run together
    OpKeys,       \* bound: for a kind, the keys of later operations
    MaxOps,       \* bound: operations after the load
    MaxPages,     \* bound: pages
    MaxFails,     \* bound: allocations that find no frame
    MaxVersion    \* bound: versions of a page

VARIABLES
    root,         \* MetaDataPage::roots[slotId]
    node,         \* the pages
    xlock,        \* the fiber that holds a page exclusively
    slock,        \* the fibers that share it
    ver,          \* its version, counted up when an exclusive lock is released
    fails,        \* allocations that failed
    fb,           \* the fibers: where they are, in which operation
    mix,          \* the kinds of operation that run together
    loaded, ops,  \* operations started, during the load and after it
    tree,         \* ghost: the function that the tree stands for
    past,         \* ghost: what it was since the start of each operation
    lied          \* ghost: kinds of operation that gave a wrong answer

Keys == 1 .. MaxKey
Values == {0, 1}
Absent == 2                            \* the answer for a key that is not found
Pids == 1 .. MaxPages
NoPid == MaxPages + 1
NoFence == 0
Moved == [pid |-> NoPid, ver |-> 0]    \* a guard that was moved from
NoGoal == [pid |-> NoPid, key |-> 0]

pageVars == <<root, node, xlock, slock, ver, fails>>
ghostVars == <<tree, past, lied>>
flowVars == <<mix, loaded, ops>>
vars == <<pageVars, fb, flowVars, ghostVars>>

Pages == DOMAIN node

(* Slots hold a key and a payload: a value in a leaf, a child in an inner   *)
(* node.  next is nextLeafNode or upperInnerNode, which share a union.      *)
Node(leaf, keys, payload, next, lower, upper) ==
    [leaf |-> leaf, key |-> keys, payload |-> payload, next |-> next,
     lower |-> lower, upper |-> upper]

(* A fiber between operations.  cur and par are its optimistic guards on a  *)
(* node and the parent; goal is what ensureSpace has to split and the key   *)
(* on the way there; held is the leaf scanDesc shares; out is what a scan   *)
(* has reported.                                                            *)
Idle == [pc |-> "idle", kind |-> "none", key |-> 0, cur |-> Moved, par |-> Moved,
         goal |-> NoGoal, held |-> NoPid, out |-> <<>>]
NoPast == [seen |-> {}, always |-> {}, ever |-> {}]

(* Nodes have as many payloads as keys and no more than they have space     *)
(* for, children and neighbours are pages, and so is what a fiber holds.    *)
TypeOK ==
    /\ root \in Pages /\ Pages \subseteq Pids
    /\ \A p \in Pages :
          LET n == node[p] IN
          /\ n.key \in Seq(Keys) /\ n.next \in Pages \cup {NoPid}
          /\ n.payload \in Seq(IF n.leaf THEN Values ELSE Pages)
          /\ Len(n.key) = Len(n.payload)
          /\ Len(n.key) <= IF n.leaf THEN LeafCap ELSE InnerCap
    /\ xlock \in [Pids -> Fibers \cup {None}]
    /\ slock \in [Pids -> SUBSET Fibers]
    /\ \A p \in Pids : xlock[p] = None \/ slock[p] = {}
    /\ ver \in [Pids -> 0 .. MaxVersion]
    /\ \A f \in Fibers : {fb[f].cur.pid, fb[f].par.pid, fb[f].held} \subseteq Pages \cup {NoPid}

(* The constructor makes an empty leaf the root. *)
Init ==
    /\ root = 1 /\ node = [p \in {1} |-> Node(TRUE, <<>>, <<>>, NoPid, NoFence, NoFence)]
    /\ xlock = [p \in Pids |-> None] /\ slock = [p \in Pids |-> {}]
    /\ ver = [p \in Pids |-> 0] /\ fails = 0
    /\ fb = [f \in Fibers |-> Idle]
    /\ mix \in Mixes /\ loaded = 0 /\ ops = 0
    /\ tree = [k \in {} |-> 0] /\ past = [f \in Fibers |-> NoPast] /\ lied = {}

-----------------------------------------------------------------------------
(* Nodes as values. *)
Count(n) == Len(n.key)
lowerBound(n, k) ==
    LET above == {i \in DOMAIN n.key : n.key[i] >= k}
    IN  IF above = {} THEN Count(n) + 1 ELSE Min(above)
Found(n, k) == \E i \in DOMAIN n.key : n.key[i] = k
lookupInner(n, k) ==
    IF lowerBound(n, k) > Count(n) THEN n.next ELSE n.payload[lowerBound(n, k)]
hasSpaceFor(n) == Count(n) < IF n.leaf THEN LeafCap ELSE InnerCap

insertInPage(n, k, v) ==
    LET i == lowerBound(n, k)
    IN  [n EXCEPT !.key = InsertAt(@, i, k), !.payload = InsertAt(@, i, v)]
removeSlot(n, i) == [n EXCEPT !.key = RemoveAt(@, i), !.payload = RemoveAt(@, i)]

(* findSeparator: the slot at which a node is split.  The separator of a    *)
(* leaf is its key, or is truncated to a key below that of the next slot.   *)
SepSlot(n) == IF n.leaf THEN (Count(n) - 1) \div 2 + 1 ELSE Count(n) \div 2 + 1
Separators(n) ==
    LET s == SepSlot(n) IN
    IF n.leaf /\ s < Count(n) THEN n.key[s] .. n.key[s + 1] - 1 ELSE {n.key[s]}

(* splitNode: the left part stays in the page, the right part gets a new    *)
(* one.  The separator of an inner node moves to the parent.                *)
Left(n, sep, new) ==
    LET s == SepSlot(n) IN
    IF n.leaf
    THEN Node(TRUE, SubSeq(n.key, 1, s), SubSeq(n.payload, 1, s), new, n.lower, sep)
    ELSE Node(FALSE, SubSeq(n.key, 1, s - 1), SubSeq(n.payload, 1, s - 1), n.payload[s], n.lower, sep)
Right(n, sep) ==
    LET s == SepSlot(n) + 1 IN
    Node(n.leaf, SubSeq(n.key, s, Count(n)), SubSeq(n.payload, s, Count(n)), n.next, sep, n.upper)
WithSeparator(parent, sep, left, new) ==
    LET i == lowerBound(parent, sep)
        p == IF i > Count(parent) THEN [parent EXCEPT !.next = new]
             ELSE [parent EXCEPT !.payload[i] = new]
    IN  insertInPage(p, sep, left)

(* Faulty variant of Unslotted: the slot of the right leaf still leads to   *)
(* the right leaf.                                                          *)
UnslottedOnly(parent, slot, pid) == removeSlot(parent, slot)
(* mergeNodes: the left leaf takes over the right one, and the parent's     *)
(* slot of the right one.                                                   *)
Merged(n, right) ==
    Node(TRUE, n.key \o right.key, n.payload \o right.payload, right.next, n.lower, right.upper)
Unslotted(parent, slot, pid) == removeSlot([parent EXCEPT !.payload[slot + 1] = pid], slot)

-----------------------------------------------------------------------------
(* Guards and operations. *)
Guard(p) == [pid |-> p, ver |-> ver[p]]
Valid(g) == g.pid # NoPid /\ xlock[g.pid] = None /\ ver[g.pid] = g.ver
TryX(g) == Valid(g) /\ slock[g.pid] = {}
Bump(S) ==
    /\ \A p \in S : ver[p] < MaxVersion
    /\ ver' = [p \in Pids |-> IF p \in S THEN ver[p] + 1 ELSE ver[p]]

Value(t, k) == IF k \in DOMAIN t THEN t[k] ELSE Absent
Scans == {"asc", "desc"}

(* Ghost: every operation that runs takes note of a changed tree. *)
Noted(t) ==
    [g \in Fibers |->
        CASE fb[g].kind = "none" -> NoPast
          [] fb[g].kind \in Scans -> [past[g] EXCEPT !.always = @ \cap DOMAIN t, !.ever = @ \cup DOMAIN t]
          [] OTHER -> [past[g] EXCEPT !.seen = @ \cup {Value(t, fb[g].key)}]]

(* The operation of f returns, leaving tree t.  right tells whether its     *)
(* answer is one the tree justifies.                                        *)
Return(f, t, right) ==
    /\ fb' = [fb EXCEPT ![f] = Idle]
    /\ tree' = t /\ past' = [Noted(t) EXCEPT ![f] = NoPast]
    /\ lied' = IF right THEN lied ELSE lied \cup {fb[f].kind}

(* handleRestart: from the root again, towards the same goal. *)
Again(f, goal) ==
    /\ fb' = [fb EXCEPT ![f].pc = "enter", ![f].cur = Moved, ![f].par = Moved, ![f].goal = goal]
    /\ UNCHANGED ghostVars

Started(f, kind, k) ==
    /\ fb' = [fb EXCEPT ![f] = [Idle EXCEPT !.pc = "enter", !.kind = kind, !.key = k]]
    /\ past' = [past EXCEPT ![f] =
           IF kind \in Scans THEN [NoPast EXCEPT !.always = DOMAIN tree, !.ever = DOMAIN tree]
           ELSE [NoPast EXCEPT !.seen = {Value(tree, k)}]]
    /\ UNCHANGED <<pageVars, mix, tree, lied>>

LoadNext(f) ==
    /\ loaded < Len(Load) /\ \A g \in Fibers : fb[g] = Idle
    /\ Started(f, "insert", Load[loaded + 1])
    /\ loaded' = loaded + 1 /\ UNCHANGED ops

(* Keys are unique: a key is inserted when it is not there. *)
Start(f) ==
    /\ loaded = Len(Load) /\ (ops > 0 \/ \A g \in Fibers : fb[g] = Idle)
    /\ ops < MaxOps /\ fb[f] = Idle
    /\ \E kind \in mix : \E k \in OpKeys[kind] :
          /\ kind = "insert" => /\ k \notin DOMAIN tree
                                /\ \A g \in Fibers : fb[g].kind = "insert" => fb[g].key # k
          /\ Started(f, kind, k)
    /\ ops' = ops + 1 /\ UNCHANGED loaded

-----------------------------------------------------------------------------
(* The descent, which all operations share. *)
At(f) == node[fb[f].cur.pid]
SearchKey(f) ==
    IF fb[f].goal # NoGoal THEN fb[f].goal.key
    ELSE IF fb[f].held # NoPid THEN node[fb[f].held].lower ELSE fb[f].key
OnGoal(f) == fb[f].goal # NoGoal /\ fb[f].cur.pid = fb[f].goal.pid
KeepsParent(f) == fb[f].kind \in {"insert", "remove"}

(* The metadata page, and the root: fixO waits for an exclusive holder. *)
Enter(f) ==
    /\ fb[f].pc = "enter" /\ xlock[root] = None
    /\ fb' = [fb EXCEPT ![f].pc = "down", ![f].cur = Guard(root)]
    /\ UNCHANGED <<pageVars, flowVars, ghostVars>>

(* GuardO(pid, parent) validates the parent before and after the fix.       *)
Descend(f) ==
    /\ fb[f].pc = "down" /\ Valid(fb[f].cur) /\ ~At(f).leaf /\ ~OnGoal(f)
    /\ LET child == lookupInner(At(f), SearchKey(f))
       IN  /\ xlock[child] = None
           /\ fb' = [fb EXCEPT ![f].cur = Guard(child),
                               ![f].par = IF KeepsParent(f) THEN fb[f].cur ELSE Moved]
    /\ UNCHANGED <<pageVars, flowVars, ghostVars>>

(* Whatever a page that changed looks like, validation fails in the end.    *)
Restart(f) ==
    /\ fb[f].pc = "down" /\ ~Valid(fb[f].cur)
    /\ Again(f, fb[f].goal)
    /\ UNCHANGED <<pageVars, flowVars>>

OnLeaf(f, kind) ==
    /\ fb[f].pc = "down" /\ fb[f].kind = kind /\ fb[f].goal = NoGoal
    /\ Valid(fb[f].cur) /\ At(f).leaf

lookup(f) ==
    /\ OnLeaf(f, "lookup")
    /\ LET n == At(f) k == fb[f].key
           answer == IF Found(n, k) THEN n.payload[lowerBound(n, k)] ELSE Absent
       IN  Return(f, tree, answer \in past[f].seen)
    /\ UNCHANGED <<pageVars, flowVars>>

(* The caller's function changes the payload. *)
updateInPlace(f) ==
    /\ OnLeaf(f, "update") /\ Found(At(f), fb[f].key) /\ TryX(fb[f].cur)
    /\ LET p == fb[f].cur.pid k == fb[f].key i == lowerBound(node[p], k)
       IN  /\ node' = [node EXCEPT ![p].payload[i] = 1 - @]
           /\ Bump({p})
           /\ Return(f, [tree EXCEPT ![k] = 1 - @], TRUE)
    /\ UNCHANGED <<root, xlock, slock, fails, flowVars>>

(* updateInPlace and remove return false when the key is not found, without *)
(* a look at the version: a page that changed may not show the key.         *)
NotFound(f) ==
    /\ \/ \E kind \in {"update", "remove"} : OnLeaf(f, kind) /\ ~Found(At(f), fb[f].key)
       \/ /\ fb[f].kind \in {"update", "remove"} /\ fb[f].pc = "down"
          /\ ~Valid(fb[f].cur)
    /\ Return(f, tree, Absent \in past[f].seen)
    /\ UNCHANGED <<pageVars, flowVars>>

-----------------------------------------------------------------------------
(* insert, trySplit and ensureSpace. *)
insert(f) ==
    /\ OnLeaf(f, "insert") /\ hasSpaceFor(At(f)) /\ TryX(fb[f].cur)
    /\ LET p == fb[f].cur.pid k == fb[f].key
       IN  /\ node' = [node EXCEPT ![p] = insertInPage(@, k, 0)]
           /\ Bump({p})
           /\ Return(f, [j \in DOMAIN tree \cup {k} |-> IF j = k THEN 0 ELSE tree[j]], TRUE)
    /\ UNCHANGED <<root, xlock, slock, fails, flowVars>>

(* No frame for a new page: RESTART, with the pages in locked released.     *)
NoFrame(f, locked) ==
    /\ fails < MaxFails /\ fails' = fails + 1
    /\ Bump(locked) /\ Again(f, fb[f].goal)

NewPid == Cardinality(Pages) + 1

(* splitNode: parent has space for the separator. *)
splitNode(f, p, parent, content) ==
    \E sep \in Separators(content[p]) :
       LET new == Cardinality(DOMAIN content) + 1
       IN  node' = [q \in DOMAIN content \cup {new} |->
                      CASE q = new -> Right(content[p], sep)
                        [] q = p -> Left(content[p], sep, new)
                        [] q = parent -> WithSeparator(content[q], sep, p, new)
                        [] OTHER -> content[q]]

(* trySplit with the metadata page as the parent: a new root first. *)
SplitRoot(f, p) ==
    LET grown == [q \in Pages \cup {NewPid} |->
                    IF q = NewPid THEN Node(FALSE, <<>>, <<>>, p, NoFence, NoFence) ELSE node[q]]
    IN  \/ NoFrame(f, {p}) /\ UNCHANGED <<root, node>>
        \/ NoFrame(f, {p}) /\ root' = NewPid /\ node' = grown
        \/ /\ root' = NewPid /\ splitNode(f, p, NewPid, grown)
           /\ Bump({p}) /\ Again(f, NoGoal) /\ UNCHANGED fails

(* trySplit below a parent, which may have to be split before. *)
SplitChild(f, p, parent) ==
    /\ \/ hasSpaceFor(node[parent]) /\ NoFrame(f, {p, parent}) /\ UNCHANGED node
       \/ /\ hasSpaceFor(node[parent]) /\ splitNode(f, p, parent, node)
          /\ Bump({p, parent}) /\ Again(f, NoGoal) /\ UNCHANGED fails
       \/ /\ ~hasSpaceFor(node[parent])
          /\ \E sep \in Separators(node[p]) : Again(f, [pid |-> parent, key |-> sep])
          /\ Bump({p, parent}) /\ UNCHANGED <<node, fails>>
    /\ UNCHANGED root

(* The page that insert or ensureSpace found full. *)
IsFull(f) ==
    /\ fb[f].pc = "down" /\ Valid(fb[f].cur) /\ ~hasSpaceFor(At(f))
    /\ OnGoal(f) \/ OnLeaf(f, "insert")

(* Parent and node are locked at their versions, in this order. *)
trySplit(f) ==
    /\ IsFull(f) /\ fb[f].par # Moved /\ TryX(fb[f].par) /\ TryX(fb[f].cur)
    /\ SplitChild(f, fb[f].cur.pid, fb[f].par.pid)
    /\ UNCHANGED <<xlock, slock, flowVars>>

(* The root is full: its guard is released, it is locked again by its page  *)
(* identifier only.                                                         *)
RootIsFull(f) ==
    /\ IsFull(f) /\ fb[f].par = Moved
    /\ fb' = [fb EXCEPT ![f].pc = "root"]
    /\ UNCHANGED <<pageVars, flowVars, ghostVars>>
trySplitRoot(f) ==
    /\ fb[f].pc = "root"
    /\ LET p == fb[f].cur.pid
           free == root = p /\ xlock[p] = None /\ slock[p] = {}
       IN  IF free THEN SplitRoot(f, p)
           ELSE Again(f, fb[f].goal) /\ UNCHANGED <<root, node, ver, fails>>
    /\ UNCHANGED <<xlock, slock, flowVars>>

(* ensureSpace is done: someone else has split the page, or it is not on    *)
(* the way to the key any more.  The test for space is not validated.       *)
SpaceEnsured(f) ==
    /\ fb[f].pc = "down" /\ fb[f].goal # NoGoal
    /\ \/ OnGoal(f) /\ (hasSpaceFor(At(f)) \/ ~Valid(fb[f].cur))
       \/ Valid(fb[f].cur) /\ At(f).leaf
    /\ Again(f, NoGoal)
    /\ UNCHANGED <<pageVars, flowVars>>

-----------------------------------------------------------------------------
(* remove. *)
Without(t, k) == [j \in DOMAIN t \ {k} |-> t[j]]
IsUnderfull(n) == Count(n) - 1 <= Underfull
Slot(f) == lowerBound(node[fb[f].par.pid], fb[f].key)

(* The test of the parent, which is not validated. *)
MayMerge(f) ==
    /\ IsUnderfull(At(f)) /\ fb[f].par # Moved
    /\ Valid(fb[f].par) => Count(node[fb[f].par.pid]) >= 2 /\ Slot(f) < Count(node[fb[f].par.pid])
MayNotMerge(f) ==
    \/ ~IsUnderfull(At(f))
    \/ fb[f].par # Moved /\ (Valid(fb[f].par) => ~MayMerge(f))

(* The guard on the parent was moved when the root is a leaf.  The test of  *)
(* the parent goes through it, and the program ends there.                  *)
UsesMovedGuard(f) ==
    /\ OnLeaf(f, "remove") /\ Found(At(f), fb[f].key)
    /\ IsUnderfull(At(f)) /\ fb[f].par = Moved

remove(f) ==
    /\ OnLeaf(f, "remove") /\ Found(At(f), fb[f].key) /\ MayNotMerge(f) /\ TryX(fb[f].cur)
    /\ LET p == fb[f].cur.pid k == fb[f].key
       IN  /\ node' = [node EXCEPT ![p] = removeSlot(@, lowerBound(@, k))]
           /\ Bump({p})
           /\ Return(f, Without(tree, k), TRUE)
    /\ UNCHANGED <<root, xlock, slock, fails, flowVars>>

(* Parent and node are locked; the right neighbour is waited for. *)
LockForMerge(f) ==
    /\ OnLeaf(f, "remove") /\ Found(At(f), fb[f].key) /\ MayMerge(f)
    /\ TryX(fb[f].par) /\ TryX(fb[f].cur)
    /\ xlock' = [xlock EXCEPT ![fb[f].par.pid] = f, ![fb[f].cur.pid] = f]
    /\ fb' = [fb EXCEPT ![f].pc = "right"]
    /\ UNCHANGED <<root, node, slock, ver, fails, flowVars, ghostVars>>

RightOf(f) == node[fb[f].par.pid].payload[Slot(f) + 1]
(* Faulty variant of MergeRight: the page of the right leaf is cleared.     *)
MergeRightRetires(f) ==
    /\ fb[f].pc = "right" /\ xlock[RightOf(f)] = None /\ slock[RightOf(f)] = {}
    /\ LET k == fb[f].key r == RightOf(f) p == fb[f].cur.pid parent == fb[f].par.pid
           n == removeSlot(node[p], lowerBound(node[p], k))
           merges == Count(node[r]) <= RightMax /\ Count(n) + Count(node[r]) <= LeafCap
       IN  /\ node' = IF merges THEN [node EXCEPT ![p] = Merged(n, node[r]),
                                                  ![parent] = Unslotted(@, Slot(f), p),
                                                  ![r] = Node(TRUE, <<>>, <<>>, NoPid, NoFence, NoFence)]
                      ELSE [node EXCEPT ![p] = n]
           /\ xlock' = [xlock EXCEPT ![p] = None, ![parent] = None]
           /\ Bump({p, parent, r})
           /\ Return(f, Without(tree, k), TRUE)
    /\ UNCHANGED <<root, slock, fails, flowVars>>
MergeRight(f) ==
    /\ fb[f].pc = "right" /\ xlock[RightOf(f)] = None /\ slock[RightOf(f)] = {}
    /\ LET k == fb[f].key r == RightOf(f) p == fb[f].cur.pid parent == fb[f].par.pid
           n == removeSlot(node[p], lowerBound(node[p], k))
           merges == Count(node[r]) <= RightMax /\ Count(n) + Count(node[r]) <= LeafCap
       IN  /\ node' = IF merges THEN [node EXCEPT ![p] = Merged(n, node[r]),
                                                  ![parent] = Unslotted(@, Slot(f), p)]
                      ELSE [node EXCEPT ![p] = n]
           /\ xlock' = [xlock EXCEPT ![p] = None, ![parent] = None]
           /\ Bump({p, parent, r})
           /\ Return(f, Without(tree, k), TRUE)
    /\ UNCHANGED <<root, slock, fails, flowVars>>

-----------------------------------------------------------------------------
(* Faulty variant of Conflict: the parent stays locked. *)
ConflictKeepsParent(f) ==
    /\ fb[f].par # Moved /\ IsFull(f) /\ TryX(fb[f].par) /\ ~TryX(fb[f].cur)
    /\ xlock' = [xlock EXCEPT ![fb[f].par.pid] = f]
    /\ Again(f, fb[f].goal)
    /\ UNCHANGED <<root, node, slock, ver, fails, flowVars>>

(* LockConflictPolicy::Restart: another fiber has the page.  A parent that  *)
(* was locked before is released, with a new version.                       *)
Conflict(f) ==
    /\ \/ /\ \/ OnLeaf(f, "insert") /\ hasSpaceFor(At(f))
             \/ OnLeaf(f, "update") /\ Found(At(f), fb[f].key)
             \/ OnLeaf(f, "remove") /\ Found(At(f), fb[f].key) /\ MayNotMerge(f)
          /\ ~TryX(fb[f].cur) /\ UNCHANGED ver
       \/ /\ fb[f].par # Moved
          /\ IsFull(f) \/ (OnLeaf(f, "remove") /\ Found(At(f), fb[f].key) /\ MayMerge(f))
          /\ ~(TryX(fb[f].par) /\ TryX(fb[f].cur))
          /\ IF TryX(fb[f].par) THEN Bump({fb[f].par.pid}) ELSE UNCHANGED ver
    /\ Again(f, fb[f].goal)
    /\ UNCHANGED <<root, node, xlock, slock, fails, flowVars>>

-----------------------------------------------------------------------------
(* The scans, which report what they pass. *)
From(s, k) == SelectSeq(s, LAMBDA j : j >= k)
UpTo(s, k) == SelectSeq(s, LAMBDA j : j <= k)
Sorted(s) == \A i, j \in DOMAIN s : i < j => s[i] < s[j]
Justified(f, out, range) ==
    /\ past[f].always \cap range \subseteq Range(out)
    /\ Range(out) \subseteq past[f].ever \cap range

(* The leaf is released before its neighbour is fixed. *)
Ascend(f, n, out) ==
    IF n.next = NoPid
    THEN Return(f, tree, Sorted(out) /\ Justified(f, out, fb[f].key .. MaxKey))
    ELSE /\ fb' = [fb EXCEPT ![f].pc = "asc", ![f].cur.pid = n.next, ![f].cur.ver = 0, ![f].out = out]
         /\ UNCHANGED ghostVars
scanAsc(f) ==
    /\ \/ OnLeaf(f, "asc") /\ Ascend(f, At(f), From(At(f).key, fb[f].key))
       \/ /\ fb[f].pc = "asc" /\ xlock[fb[f].cur.pid] = None
          /\ Ascend(f, At(f), fb[f].out \o At(f).key)
    /\ UNCHANGED <<pageVars, flowVars>>

(* The leaf is held until the one below it is shared too. *)
scanDesc(f) ==
    /\ OnLeaf(f, "desc")
    /\ LET n == At(f) p == fb[f].cur.pid old == fb[f].held
           out == fb[f].out \o Reverse(IF old = NoPid THEN UpTo(n.key, fb[f].key) ELSE n.key)
           free == IF old = NoPid THEN slock ELSE [slock EXCEPT ![old] = @ \ {f}]
       IN  IF n.lower = NoFence
           THEN /\ slock' = free
                /\ Return(f, tree, Sorted(Reverse(out)) /\ Justified(f, out, 1 .. fb[f].key))
           ELSE /\ slock' = [free EXCEPT ![p] = @ \cup {f}]
                /\ fb' = [fb EXCEPT ![f].pc = "enter", ![f].held = p, ![f].out = out, ![f].cur = Moved]
                /\ UNCHANGED ghostVars
    /\ UNCHANGED <<root, node, xlock, ver, fails, flowVars>>

Step(f) ==
    \/ Enter(f) \/ Descend(f) \/ Restart(f) \/ Conflict(f)
    \/ lookup(f) \/ updateInPlace(f) \/ NotFound(f)
    \/ insert(f) \/ trySplit(f) \/ RootIsFull(f) \/ trySplitRoot(f) \/ SpaceEnsured(f)
    \/ remove(f) \/ LockForMerge(f) \/ MergeRight(f)
    \/ scanAsc(f) \/ scanDesc(f)
Next == \E f \in Fibers : LoadNext(f) \/ Start(f) \/ Step(f)
Spec == Init /\ [][Next]_vars

-----------------------------------------------------------------------------
RECURSIVE LeafFor(_, _)
LeafFor(p, k) == IF node[p].leaf THEN p ELSE LeafFor(lookupInner(node[p], k), k)
RECURSIVE Chain(_)
Chain(p) == node[p].key \o IF node[p].next = NoPid THEN <<>> ELSE Chain(node[p].next)

(* Through every split and merge, with their failures half way: the leaf    *)
(* that the separators lead a key to is the one whose fences enclose it,    *)
(* and it holds the value last stored for the key and no key that was       *)
(* removed.  The leaf chain, from the leftmost leaf, passes every key once  *)
(* and in order: what scanAsc relies on between two leaves.                 *)
TreeStands ==
    /\ TypeOK
    /\ \A k \in Keys :
          LET n == node[LeafFor(root, k)] IN
          /\ n.lower < k /\ (n.upper = NoFence \/ k <= n.upper)
          /\ Value(tree, k) = IF Found(n, k) THEN n.payload[lowerBound(n, k)] ELSE Absent
    /\ LET c == Chain(LeafFor(root, 1)) IN Sorted(c) /\ Range(c) = DOMAIN tree

(* A lookup returns what the tree held for its key at some moment while it  *)
(* ran, although it descends through pages that it does not lock.  A scan   *)
(* reports, in order and once, every key that was there all the time and    *)
(* only keys that were there at some time, although leaves split, merge and *)
(* drop out of the tree while it is between two of them.                    *)
ReadsAreRight == lied \cap ({"lookup"} \cup Scans) = {}

(* What remove and updateInPlace return is right, too. *)
ChangesAreRight == lied \cap {"update", "remove"} = {}

(* No fiber uses a guard that was moved from (the assertion in GuardO's     *)
(* operator->).                                                             *)
NoMovedGuard == \A f \in Fibers : ~UsesMovedGuard(f)

(* The fibers whose locks f waits for. *)
WaitsFor(f) ==
    LET b == fb[f] IN
    (CASE b.pc = "enter" -> {xlock[root]}
       [] b.pc = "down" /\ Valid(b.cur) /\ ~At(f).leaf /\ ~OnGoal(f) -> {xlock[lookupInner(At(f), SearchKey(f))]}
       [] b.pc = "asc" -> {xlock[b.cur.pid]}
       [] b.pc = "right" -> {xlock[RightOf(f)]} \cup slock[RightOf(f)]
       [] OTHER -> {}) \ {None}

(* Fibers never wait for each other in a circle: those that wait with locks *)
(* held (remove for the right neighbour, scanDesc in its next descent) are  *)
(* not waited for by the ones they wait for.                                *)
NoWaitCycle == \A S \in SUBSET Fibers : S # {} => \E f \in S : WaitsFor(f) \cap S = {}
=============================================================================
