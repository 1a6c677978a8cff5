------------------------------ MODULE PageState ------------------------------
(***************************************************************************)
(* The resident state word of a buffer frame (mt/concurrency.hpp).         *)
(*                                                                         *)
(* The code packs an 8-bit mode, a 48-bit version and three flags into one *)
(* atomic 64-bit word.  Here a word is a record, and an operation is a     *)
(* predicate (may the CAS be tried from this word) and a function (the     *)
(* word it stores).  Setting a flag is one atomic access, the unlocks and  *)
(* the rebinds are a load and a store.                                     *)
(***************************************************************************)
EXTENDS Naturals

CONSTANT VersionLimit   \* 2^48: the version is masked with VersionMask

ASSUME VersionAssumption == VersionLimit \in Nat \ {0}

Unlocked == 0
MaxShared == 252
Locked == 253
Marked == 254
Evicted == 255

Word == [mode : 0 .. 255, ver : 0 .. VersionLimit - 1,
         io : BOOLEAN, evicting : BOOLEAN, dirty : BOOLEAN]

(* HugePages::malloc_array hands out zeroed memory. *)
ZeroWord == [mode |-> Unlocked, ver |-> 0, io |-> FALSE, evicting |-> FALSE, dirty |-> FALSE]

same_version(w, mode) == [w EXCEPT !.mode = mode]
NextVer(w) == (w.ver + 1) % VersionLimit
next_version(w, mode) == [w EXCEPT !.mode = mode, !.ver = NextVer(w)]
next_version_no_flags(w, mode) ==
    [mode |-> mode, ver |-> NextVer(w), io |-> FALSE, evicting |-> FALSE, dirty |-> FALSE]

rebind_locked(w) == next_version_no_flags(w, Locked)
rebind_unlocked(w) == next_version_no_flags(w, Unlocked)

CanLockX(w) == w.mode \in {Unlocked, Marked}
lock_x_dirty(w) == [same_version(w, Locked) EXCEPT !.dirty = TRUE]
unlock_x(w) == next_version(w, Unlocked)

(* Faulty variant of unlock_x_marked: the version is not incremented. *)
unlock_x_marked_same_version(w) == same_version(w, Marked)

unlock_x_marked(w) == next_version(w, Marked)

(* A reader joins unless there are MaxShared of them; a mark is dropped. *)
CanLockS(w) == w.mode < MaxShared \/ w.mode = Marked
lock_s(w) == same_version(w, IF w.mode = Marked THEN 1 ELSE w.mode + 1)

(* state - 1 is computed in 64 bits and shifted into the top 8. *)
unlock_s(w) == same_version(w, (w.mode + 255) % 256)

(* Faulty variant of unlock_s_marked: marks while other readers remain. *)
unlock_s_marked_early(w) == same_version(w, Marked)

unlock_s_marked(w) == IF w.mode = 1 THEN same_version(w, Marked) ELSE unlock_s(w)

CanReadOptimistically(w) == w.mode \notin {Locked, Evicted}
mark(w) == IF w.mode = Unlocked THEN same_version(w, Marked) ELSE w
clear_mark(w) == IF w.mode = Marked THEN same_version(w, Unlocked) ELSE w
=============================================================================
