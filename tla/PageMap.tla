------------------------------ MODULE PageMap -------------------------------
(***************************************************************************)
(* What the buffer manager expects of its page table: a map from PIDs to   *)
(* BIDs.  A successful insert or erase takes effect at one instant of the  *)
(* call, and a lookup or a refused insert answers with something the map   *)
(* held at some instant of the call.                                       *)
(***************************************************************************)
CONSTANTS Pids, Bids, NoBid, Threads

VARIABLES
    map,      \* the BID of each page, or NoBid
    call,     \* the call a thread is in
    held,     \* what its page was mapped to since the call began
    answer    \* the answer to the thread's last call, FALSE until it returns

vars == <<map, call, held, answer>>

Calls == [op : {"find_copy", "insert", "erase_if"}, pid : Pids, bid : Bids \cup {NoBid}]
NoCall == [op |-> "none"]

Init ==
    /\ map = [p \in Pids |-> NoBid]
    /\ call = [t \in Threads |-> NoCall]
    /\ held = [t \in Threads |-> {}]
    /\ answer = [t \in Threads |-> FALSE]

Start(t) ==
    /\ call[t] = NoCall
    /\ \E c \in Calls :
          /\ call' = [call EXCEPT ![t] = c]
          /\ held' = [held EXCEPT ![t] = {map[c.pid]}]
    /\ answer' = [answer EXCEPT ![t] = FALSE]
    /\ UNCHANGED map

In(t, op) == call[t] # NoCall /\ call[t].op = op

Finish(t, a) ==
    /\ call' = [call EXCEPT ![t] = NoCall]
    /\ answer' = [answer EXCEPT ![t] = a]

(* The page of the call of t changes: the other calls about it take note. *)
Remap(t, b) ==
    LET p == call[t].pid IN
    /\ map' = [map EXCEPT ![p] = b]
    /\ held' = [s \in Threads |->
          IF s = t THEN {}
          ELSE IF call[s] # NoCall /\ call[s].pid = p THEN held[s] \cup {b} ELSE held[s]]
    /\ Finish(t, TRUE)

Inserted(t) == In(t, "insert") /\ map[call[t].pid] = NoBid /\ Remap(t, call[t].bid)
Erased(t) == In(t, "erase_if") /\ map[call[t].pid] = call[t].bid /\ Remap(t, NoBid)

(* An erase may be refused by its precheck, an insert only by an entry. *)
Refused(t) ==
    /\ In(t, "erase_if") \/ (In(t, "insert") /\ held[t] # {NoBid})
    /\ Finish(t, FALSE)
    /\ held' = [held EXCEPT ![t] = {}]
    /\ UNCHANGED map

Found(t) ==
    /\ In(t, "find_copy")
    /\ \E b \in held[t] : Finish(t, b)
    /\ held' = [held EXCEPT ![t] = {}]
    /\ UNCHANGED map

Next == \E t \in Threads : Start(t) \/ Inserted(t) \/ Erased(t) \/ Refused(t) \/ Found(t)

Spec == Init /\ [][Next]_vars
=============================================================================
