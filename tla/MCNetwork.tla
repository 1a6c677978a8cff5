----------------------------- MODULE MCNetwork ------------------------------
(***************************************************************************)
(* The two programs that move data between machines: the shuffle (Shuffle) *)
(* and the remote scan (RemoteScan).  A behaviour is one of the two.       *)
(***************************************************************************)
EXTENDS MCShuffle

CONSTANTS MaxWorkers, MaxSockets, RequestSize, StripeSize, UsableBytes, SSDs, ReqUnits,
          UpCap, DownCap, WorkerGap, MaxAhead, RemoteSetups
VARIABLES part, remote, cl, sv, buf, up, down, stop, scanned
remoteVars == <<remote, cl, sv, buf, up, down, stop, scanned>>
Remote == INSTANCE RemoteScan WITH Setups <- RemoteSetups, cfg <- remote

RemoteSetup(client, server, workers, sockets, bytes, timed, zc) ==
    [client |-> client, server |-> server, num_workers |-> workers, num_sockets |-> sockets,
     scan_bytes |-> bytes, timed |-> timed, send_zc |-> zc]

(* Scans of a given size: two workers with unequal shares, and with one of  *)
(* them without work; more requests than fit into one round of stripes; two *)
(* sockets with and without copies, and one of them without a request; the  *)
(* other backend on one side or on both.  Timed scans of both backends.     *)
MCRemoteSetups ==
    {RemoteSetup("uring", "uring", 2, 1, 6, FALSE, FALSE),
     RemoteSetup("uring", "uring", 2, 1, 2, FALSE, FALSE),
     RemoteSetup("uring", "uring", 1, 1, 10, FALSE, TRUE),
     RemoteSetup("uring", "uring", 1, 2, 2, FALSE, FALSE),
     RemoteSetup("uring", "uring", 1, 2, 6, FALSE, TRUE),
     RemoteSetup("epoll", "epoll", 1, 2, 6, FALSE, FALSE),
     RemoteSetup("epoll", "uring", 1, 2, 6, FALSE, FALSE),
     RemoteSetup("uring", "epoll", 1, 2, 6, FALSE, FALSE),
     RemoteSetup("uring", "uring", 1, 2, 0, TRUE, TRUE),
     RemoteSetup("epoll", "epoll", 1, 2, 0, TRUE, FALSE)}

BothInit ==
    /\ Init /\ Remote!Init
    /\ \/ part = "shuffle" /\ remote = RemoteSetup("uring", "uring", 2, 1, 6, FALSE, FALSE)
       \/ part = "remote" /\ cfg = Setup("uring", FALSE, 2, {FALSE}, << <<2>>, <<>> >>)
BothNext ==
    \/ part = "shuffle" /\ Next /\ UNCHANGED <<part, remoteVars>>
    \/ part = "remote" /\ Remote!Next /\ UNCHANGED <<part, vars>>
BothSpec == BothInit /\ [][BothNext]_<<part, vars, remoteVars>> /\ WF_<<part, vars, remoteVars>>(BothNext)

(* A client of the remote scan gets the blocks that it asked for. *)
PayloadIsRight == Remote!PayloadIsRight
(* A scan of a given size has received each of its requests once, and has   *)
(* read no block for two of them.                                           *)
ScanIsComplete == Remote!ScanIsComplete
(* The ensures of the remote scan's handlers hold. *)
EnsuresHold == Remote!EnsuresHold
(* The workers of the shuffle return, and both sides of the remote scan. *)
BothEnd == <>(IF part = "shuffle" THEN Done ELSE Remote!ClientGone /\ Remote!ServerGone)
=============================================================================
