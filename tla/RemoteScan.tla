----------------------------- MODULE RemoteScan -----------------------------
(***************************************************************************)
(* The remote scan (remotescan/): a client asks for one range of blocks    *)
(* after the other on several sockets per worker, the server reads each    *)
(* from a striped set of disks and sends it back.  Both backends of both   *)
(* sides are modelled, io_uring (ClientWorker, ServerWorker) and epoll     *)
(* with libaio (EpollLibaioClient, EpollLibaioServer); they speak the same *)
(* protocol.  Worker w of the client talks to worker w of the server.      *)
(*                                                                         *)
(* Sizes are in blocks.  A request takes RequestSize blocks and is itself  *)
(* sent in ReqUnits pieces.  A completion is handled in one step: it does  *)
(* not matter which others are in the same batch.                          *)
(***************************************************************************)
EXTENDS Integers, Sequences, FiniteSets, FiniteSetsExt, SequencesExt

CONSTANTS
    MaxWorkers, MaxSockets,   \* of the largest configuration
    RequestSize, StripeSize,  \* blocks of a request, and of a stripe
    UsableBytes,              \* blocks of a disk that whole stripes use
    SSDs,                     \* number of disks
    ReqUnits,                 \* pieces of a request on its way
    UpCap, DownCap,           \* what a socket holds for the server, for the client
    WorkerGap,                \* distance between the workers of a timed scan
    MaxAhead,                 \* bound: blocks a timed worker asks for
    Setups                    \* [client, server: "uring" or "epoll", num_workers, num_sockets,
                              \*  scan_bytes, timed, send_zc]

VARIABLES
    cfg,       \* the configuration
    cl, sv,    \* the workers of the client and of the server
    buf,       \* payload of a connection of the server
    up, down,  \* pieces of a request, and blocks, in flight on a connection
    stop,      \* whether the time is over (stop_token)
    scanned    \* what a worker has received: [off, blocks]

vars == <<cfg, cl, sv, buf, up, down, stop, scanned>>

Workers == 1 .. cfg.num_workers
Sockets == 1 .. cfg.num_sockets
Torn == [i \in 1 .. RequestSize |-> <<>>]

(* Faulty variant without the remainder. *)
worker_num_requestsRounded(w) ==
    IF cfg.timed THEN 0 ELSE (cfg.scan_bytes \div RequestSize) \div cfg.num_workers
worker_num_requests(w) ==
    IF cfg.timed THEN 0
    ELSE LET total == cfg.scan_bytes \div RequestSize
         IN  total \div cfg.num_workers + (IF w - 1 < total % cfg.num_workers THEN 1 ELSE 0)
worker_scan_bytes(w) == worker_num_requests(w) * RequestSize
worker_start_offset(w) ==
    IF cfg.timed THEN (w - 1) * WorkerGap
    ELSE RequestSize * MapThenSumSet(worker_num_requests, 1 .. w - 1)
EndOffset(w) == worker_start_offset(w) + worker_scan_bytes(w)

(* RaidLayout::map *)
map(off) ==
    LET stripe_nr == off \div StripeSize
    IN  [ssd |-> stripe_nr % SSDs,
         drive |-> (((stripe_nr \div SSDs) * StripeSize) % UsableBytes) + (off % StripeSize)]
Blocks(off) == [i \in 1 .. RequestSize |-> <<map(off).ssd, map(off).drive + i - 1>>]

FreshClient == [phase |-> "none", off |-> 0, sent |-> 0, got |-> <<>>]
FreshServer == [phase |-> "none", off |-> 0, got |-> 0, sent |-> 0, cqe |-> 0, notif |-> 0]

Init ==
    /\ cfg \in Setups
    /\ cl = [w \in Workers |-> [pc |-> "connect", connected |-> 0, next |-> worker_start_offset(w),
                                total |-> 0, conn |-> [c \in Sockets |-> FreshClient]]]
    /\ sv = [w \in Workers |-> [pc |-> "init", accepted |-> 0, armed |-> TRUE, total |-> 0,
                                unsignalled |-> 0, eventfd |-> 0,
                                conn |-> [c \in Sockets |-> FreshServer]]]
    /\ buf = [w \in Workers |-> [c \in Sockets |-> Torn]]
    /\ up = [w \in Workers |-> [c \in Sockets |-> 0]]
    /\ down = [w \in Workers |-> [c \in Sockets |-> <<>>]]
    /\ stop = FALSE
    /\ scanned = [w \in Workers |-> {}]

-----------------------------------------------------------------------------
(* The client.  A connection is in one of these phases: none (no request    *)
(* was assigned), send (a send is posted, or epoll waits for EPOLLOUT),     *)
(* sent (the send is complete), recv and finished.                          *)
ClientOn(w, kind) == w \in Workers /\ cl[w].pc = "loop" /\ cfg.client = kind

(* Faulty variant that is off by one request. *)
assign_next_requestOneMore(w, r, c) ==
    IF ~cfg.timed /\ r.next > EndOffset(w)
    THEN [r EXCEPT !.conn[c].phase = "finished"]
    ELSE [r EXCEPT !.conn[c] = [FreshClient EXCEPT !.phase = "send", !.off = r.next],
                   !.next = @ + RequestSize]

(* Worker r, once connection c has its next request, if there is one.       *)
assign_next_request(w, r, c) ==
    IF ~cfg.timed /\ r.next >= EndOffset(w)
    THEN [r EXCEPT !.conn[c].phase = "finished"]
    ELSE [r EXCEPT !.conn[c] = [FreshClient EXCEPT !.phase = "send", !.off = r.next],
                   !.next = @ + RequestSize]

(* init_client stops at the first connection that gets no request; on epoll *)
(* every connection asks for one.                                           *)
Assigned(w, r) ==
    LET step(acc, c) ==
            IF cfg.client = "uring" /\ \E d \in 1 .. c - 1 : acc.conn[d].phase = "finished"
            THEN acc ELSE assign_next_request(w, acc, c)
    IN  FoldLeft(step, r, [c \in Sockets |-> c])

(* The sockets are connected one by one.  Then the requests are assigned;   *)
(* the epoll client returns at once if none remains to be assigned.         *)
Connect(w) ==
    /\ w \in Workers /\ cl[w].pc = "connect"
    /\ LET r == [cl[w] EXCEPT !.connected = @ + 1]
           a == Assigned(w, r)
           nothing == cfg.client = "epoll" /\ ~cfg.timed /\ a.next = EndOffset(w)
       IN  cl' = [cl EXCEPT ![w] =
                    IF r.connected < cfg.num_sockets THEN r
                    ELSE [a EXCEPT !.pc = IF nothing THEN "done" ELSE "loop"]]
    /\ UNCHANGED <<cfg, sv, buf, up, down, stop, scanned>>

(* RECV_PAYLOAD, or the end of handle_conn_read: the request is answered    *)
(* with these blocks.  The bound keeps a timed worker from running on.      *)
Answered(w, c, blocks) ==
    LET t == [cl[w] EXCEPT !.total = @ + RequestSize]
        should_issue_more == IF cfg.timed THEN ~stop ELSE t.total < worker_scan_bytes(w)
    IN  /\ cfg.timed /\ ~stop => cl[w].next < worker_start_offset(w) + MaxAhead
        /\ scanned' = [scanned EXCEPT ![w] = @ \cup {[off |-> cl[w].conn[c].off, blocks |-> blocks]}]
        /\ cl' = [cl EXCEPT ![w] = IF should_issue_more THEN assign_next_request(w, t, c)
                                   ELSE [t EXCEPT !.conn[c].phase = "finished"]]

(* io_uring: the kernel sends the request, SEND_REQ posts the receive, the  *)
(* kernel fills it (MSG_WAITALL), RECV_PAYLOAD ends the request.            *)
KernelSendsRequest(w, c) ==
    /\ ClientOn(w, "uring") /\ c \in Sockets /\ cl[w].conn[c].phase = "send"
    /\ up' = [up EXCEPT ![w][c] = ReqUnits]
    /\ cl' = [cl EXCEPT ![w].conn[c].phase = "sent"]
    /\ UNCHANGED <<cfg, sv, buf, down, stop, scanned>>
RequestSent(w, c) ==
    /\ ClientOn(w, "uring") /\ c \in Sockets /\ cl[w].conn[c].phase = "sent"
    /\ cl' = [cl EXCEPT ![w].conn[c].phase = "recv"]
    /\ UNCHANGED <<cfg, sv, buf, up, down, stop, scanned>>
(* A block that was sent without a copy is what its buffer holds now. *)
Content(w, c, piece) == IF piece.zc THEN buf[w][c][piece.i] ELSE piece.block
KernelReceives(w, c) ==
    /\ ClientOn(w, "uring") /\ c \in Sockets /\ cl[w].conn[c].phase = "recv" /\ down[w][c] # <<>>
    /\ Len(cl[w].conn[c].got) < RequestSize
    /\ cl' = [cl EXCEPT ![w].conn[c].got = Append(@, Content(w, c, Head(down[w][c])))]
    /\ down' = [down EXCEPT ![w][c] = Tail(@)]
    /\ UNCHANGED <<cfg, sv, buf, up, stop, scanned>>
PayloadReceived(w, c) ==
    /\ ClientOn(w, "uring") /\ c \in Sockets /\ cl[w].conn[c].phase = "recv"
    /\ Len(cl[w].conn[c].got) = RequestSize
    /\ Answered(w, c, cl[w].conn[c].got)
    /\ UNCHANGED <<cfg, sv, buf, up, down, stop>>

(* epoll, handle_conn_write: send until the socket is full. *)
ClientWrites(w, c) ==
    /\ ClientOn(w, "epoll") /\ c \in Sockets /\ cl[w].conn[c].phase = "send" /\ up[w][c] < UpCap
    /\ LET n == Min({ReqUnits - cl[w].conn[c].sent, UpCap - up[w][c]})
           sent == cl[w].conn[c].sent + n
       IN  /\ up' = [up EXCEPT ![w][c] = @ + n]
           /\ cl' = [cl EXCEPT ![w].conn[c].sent = sent,
                               ![w].conn[c].phase = IF sent < ReqUnits THEN "send" ELSE "recv"]
    /\ UNCHANGED <<cfg, sv, buf, down, stop, scanned>>
(* handle_conn_read: receive until there is nothing more. *)
ClientReads(w, c) ==
    /\ ClientOn(w, "epoll") /\ c \in Sockets /\ cl[w].conn[c].phase = "recv" /\ down[w][c] # <<>>
    /\ LET new == [k \in DOMAIN down[w][c] |-> Content(w, c, down[w][c][k])]
           got == cl[w].conn[c].got \o new
       IN  IF Len(got) < RequestSize
           THEN cl' = [cl EXCEPT ![w].conn[c].got = got] /\ UNCHANGED scanned
           ELSE Answered(w, c, got)
    /\ down' = [down EXCEPT ![w][c] = <<>>]
    /\ UNCHANGED <<cfg, sv, buf, up, stop>>

all_finished(w) == \A c \in Sockets : cl[w].conn[c].phase = "finished"
ClientEnds(w) ==
    /\ w \in Workers /\ cl[w].pc = "loop" /\ all_finished(w)
    /\ cl' = [cl EXCEPT ![w].pc = "done"]
    /\ UNCHANGED <<cfg, sv, buf, up, down, stop, scanned>>

(* run_timed_workers asks the threads to stop. *)
Stop ==
    /\ cfg.timed /\ ~stop
    /\ stop' = TRUE
    /\ UNCHANGED <<cfg, cl, sv, buf, up, down, scanned>>

(* The sockets are closed with the workers, when all threads have been      *)
(* joined.                                                                  *)
ClientGone == \A w \in Workers : cl[w].pc = "done"
ServerGone == \A w \in Workers : sv[w].pc = "done"

-----------------------------------------------------------------------------
(* The server.  A connection is in one of these phases: none (not yet       *)
(* accepted), recv (it waits for a request), read (the disk is read), send, *)
(* idle (nothing more is expected) and closed.                              *)
Closed(w) == Cardinality({c \in Sockets : sv[w].conn[c].phase = "closed"})
ServerMore(w) ==
    IF worker_scan_bytes(w) > 0 THEN sv[w].total < worker_scan_bytes(w)
    ELSE Closed(w) < cfg.num_sockets
ServerOn(w, kind) == w \in Workers /\ sv[w].pc = "loop" /\ ServerMore(w) /\ cfg.server = kind

(* io_uring, init_server: the multishot accept may end with any connection  *)
(* and is posted again while some are missing.  Then every connection waits *)
(* for its first request.                                                   *)
Rearmed(w, more) == more \/ sv[w].accepted + 1 < cfg.num_sockets
Accept(w, more) ==
    /\ w \in Workers /\ sv[w].pc = "init" /\ cfg.server = "uring"
    /\ sv[w].armed /\ sv[w].accepted < cl[w].connected
    /\ LET last == sv[w].accepted + 1 = cfg.num_sockets
       IN  sv' = [sv EXCEPT ![w].accepted = @ + 1, ![w].armed = Rearmed(w, more),
                            ![w].pc = IF last THEN "loop" ELSE "init",
                            ![w].conn = [c \in Sockets |->
                                IF last THEN [@[c] EXCEPT !.phase = "recv"] ELSE @[c]]]
    /\ UNCHANGED <<cfg, cl, buf, up, down, stop, scanned>>

(* A request comes in, in one piece or in several: the kernel collects them *)
(* (MSG_WAITALL), on epoll handle_conn_read does.  A whole request is read  *)
(* from the disk into the payload (RECV_REQ, submit_read).                  *)
RequestArrives(w, c) ==
    /\ ServerOn(w, cfg.server) /\ c \in Sockets /\ sv[w].conn[c].phase = "recv" /\ up[w][c] > 0
    /\ LET got == sv[w].conn[c].got + up[w][c]
       IN  IF got < ReqUnits
           THEN sv' = [sv EXCEPT ![w].conn[c].got = got] /\ UNCHANGED buf
           ELSE /\ sv' = [sv EXCEPT ![w].conn[c].got = 0, ![w].conn[c].phase = "read",
                                    ![w].conn[c].off = cl[w].conn[c].off]
                /\ buf' = [buf EXCEPT ![w][c] = Torn]
    /\ up' = [up EXCEPT ![w][c] = 0]
    /\ UNCHANGED <<cfg, cl, down, stop, scanned>>
(* READ posts the send. *)
ReadCompleted(w, c) ==
    /\ ServerOn(w, "uring") /\ c \in Sockets /\ sv[w].conn[c].phase = "read"
    /\ buf' = [buf EXCEPT ![w][c] = Blocks(sv[w].conn[c].off)]
    /\ sv' = [sv EXCEPT ![w].conn[c].phase = "send"]
    /\ UNCHANGED <<cfg, cl, up, down, stop, scanned>>

(* Faulty variant that sends the rest from the start of the payload. *)
prep_sendFromStart(w, c) ==
    [k \in 1 .. RequestSize - sv[w].conn[c].sent |-> [zc |-> FALSE, i |-> k, block |-> buf[w][c][k]]]
(* prep_send: the blocks from the first one not yet sent; without a copy if *)
(* it is the first send of the payload.  The kernel takes some of them.     *)
prep_send(w, c) ==
    LET sent == sv[w].conn[c].sent
    IN  [k \in 1 .. RequestSize - sent |->
            IF cfg.send_zc /\ sent = 0 THEN [zc |-> TRUE, i |-> sent + k, block |-> <<>>]
            ELSE [zc |-> FALSE, i |-> sent + k, block |-> buf[w][c][sent + k]]]
KernelSends(w, c, n) ==
    /\ ServerOn(w, "uring") /\ c \in Sockets
    /\ sv[w].conn[c].phase = "send" /\ sv[w].conn[c].cqe = 0
    /\ LET pieces == prep_send(w, c)
       IN  /\ n <= Len(pieces) /\ Len(down[w][c]) + n <= DownCap
           /\ down' = [down EXCEPT ![w][c] = @ \o SubSeq(pieces, 1, n)]
           /\ sv' = [sv EXCEPT ![w].conn[c].cqe = n,
                               ![w].conn[c].notif = IF pieces[1].zc THEN @ + 1 ELSE @]
    /\ UNCHANGED <<cfg, cl, buf, up, stop, scanned>>
(* SEND: the rest of a short send, or finish_request and the next request.  *)
finish_request(w, r, c) ==
    LET total == r.total + RequestSize
        more == worker_scan_bytes(w) = 0 \/ total < worker_scan_bytes(w)
    IN  [r EXCEPT !.total = total, !.conn[c].sent = 0,
                  !.conn[c].phase = IF more THEN "recv" ELSE "idle"]
SendCompleted(w, c) ==
    /\ ServerOn(w, "uring") /\ c \in Sockets /\ sv[w].conn[c].cqe > 0
    /\ LET sent == sv[w].conn[c].sent + sv[w].conn[c].cqe
           r == [sv[w] EXCEPT !.conn[c].sent = sent, !.conn[c].cqe = 0]
       IN  sv' = [sv EXCEPT ![w] = IF sent < RequestSize THEN r ELSE finish_request(w, r, c)]
    /\ UNCHANGED <<cfg, cl, buf, up, down, stop, scanned>>
(* The notification that a buffer is no longer used by the kernel is passed *)
(* over.                                                                    *)
Notified(w, c) ==
    /\ ServerOn(w, "uring") /\ c \in Sockets
    /\ sv[w].conn[c].notif > (IF \E k \in DOMAIN down[w][c] : down[w][c][k].zc THEN 1 ELSE 0)
    /\ sv' = [sv EXCEPT ![w].conn[c].notif = @ - 1]
    /\ UNCHANGED <<cfg, cl, buf, up, down, stop, scanned>>

(* epoll, handle_accept: all connections that are pending. *)
HandleAccept(w) ==
    /\ w \in Workers /\ sv[w].pc = "loop" /\ ServerMore(w) /\ cfg.server = "epoll"
    /\ sv[w].accepted < cl[w].connected
    /\ sv' = [sv EXCEPT ![w].accepted = cl[w].connected,
                        ![w].conn = [c \in Sockets |->
                            IF c \in sv[w].accepted + 1 .. cl[w].connected
                            THEN [@[c] EXCEPT !.phase = "recv"] ELSE @[c]]]
    /\ UNCHANGED <<cfg, cl, buf, up, down, stop, scanned>>
InitEpoll(w) ==
    /\ w \in Workers /\ sv[w].pc = "init" /\ cfg.server = "epoll"
    /\ sv' = [sv EXCEPT ![w].pc = "loop"]
    /\ UNCHANGED <<cfg, cl, buf, up, down, stop, scanned>>

(* The disk is done: the completion is in the ring of libaio before it is   *)
(* counted in the eventfd.                                                  *)
DiskDone(w, c) ==
    /\ ServerOn(w, "epoll") /\ c \in Sockets /\ sv[w].conn[c].phase = "read"
    /\ buf' = [buf EXCEPT ![w][c] = Blocks(sv[w].conn[c].off)]
    /\ sv' = [sv EXCEPT ![w].conn[c].phase = "complete", ![w].unsignalled = @ + 1]
    /\ UNCHANGED <<cfg, cl, up, down, stop, scanned>>
Signal(w) ==
    /\ ServerOn(w, "epoll") /\ sv[w].unsignalled > 0
    /\ sv' = [sv EXCEPT ![w].unsignalled = @ - 1, ![w].eventfd = @ + 1]
    /\ UNCHANGED <<cfg, cl, buf, up, down, stop, scanned>>
(* Faulty variant that takes one completion for each signal read. *)
ReapedOne(w) == {c \in Sockets : sv[w].conn[c].phase = "complete"
                                 /\ \A d \in 1 .. c - 1 : sv[w].conn[d].phase # "complete"}
(* The counter is read and reset, and all completions are taken, also those *)
(* that it does not count yet.                                              *)
Reaped(w) == {c \in Sockets : sv[w].conn[c].phase = "complete"}
handle_aio_completions(w) ==
    /\ ServerOn(w, "epoll") /\ sv[w].eventfd > 0
    /\ LET reaped == Reaped(w)
       IN  sv' = [sv EXCEPT ![w].eventfd = 0,
                            ![w].conn = [c \in Sockets |->
                                IF c \in reaped THEN [@[c] EXCEPT !.phase = "send"] ELSE @[c]]]
    /\ UNCHANGED <<cfg, cl, buf, up, down, stop, scanned>>
(* handle_conn_write and reset_for_next_request. *)
ServerWrites(w, c) ==
    /\ ServerOn(w, "epoll") /\ c \in Sockets /\ sv[w].conn[c].phase = "send"
    /\ Len(down[w][c]) < DownCap
    /\ LET pieces == prep_send(w, c)
           n == Min({Len(pieces), DownCap - Len(down[w][c])})
           sent == sv[w].conn[c].sent + n
       IN  /\ down' = [down EXCEPT ![w][c] = @ \o SubSeq(pieces, 1, n)]
           /\ sv' = IF sent < RequestSize THEN [sv EXCEPT ![w].conn[c].sent = sent]
                    ELSE [sv EXCEPT ![w].total = @ + RequestSize, ![w].conn[c].sent = 0,
                                    ![w].conn[c].phase = "recv"]
    /\ UNCHANGED <<cfg, cl, buf, up, stop, scanned>>

(* The client has closed the connection: a receive returns 0. *)
CloseConn(w, c) ==
    /\ w \in Workers /\ sv[w].pc = "loop" /\ ServerMore(w) /\ ClientGone
    /\ c \in Sockets /\ sv[w].conn[c].phase = "recv" /\ up[w][c] = 0
    /\ sv' = [sv EXCEPT ![w].conn[c].phase = "closed"]
    /\ UNCHANGED <<cfg, cl, buf, up, down, stop, scanned>>
ServerEnds(w) ==
    /\ w \in Workers /\ sv[w].pc = "loop" /\ ~ServerMore(w)
    /\ sv' = [sv EXCEPT ![w].pc = "done"]
    /\ UNCHANGED <<cfg, cl, buf, up, down, stop, scanned>>

-----------------------------------------------------------------------------
ClientStep(w, c) ==
    \/ KernelSendsRequest(w, c) \/ RequestSent(w, c) \/ KernelReceives(w, c) \/ PayloadReceived(w, c)
    \/ ClientWrites(w, c) \/ ClientReads(w, c)
ServerStep(w, c) ==
    \/ RequestArrives(w, c) \/ ReadCompleted(w, c) \/ SendCompleted(w, c) \/ Notified(w, c)
    \/ \E n \in 1 .. RequestSize : KernelSends(w, c, n)
    \/ DiskDone(w, c) \/ ServerWrites(w, c) \/ CloseConn(w, c)
WorkerStep(w) ==
    \/ Connect(w) \/ ClientEnds(w)
    \/ \E more \in BOOLEAN : Accept(w, more)
    \/ InitEpoll(w) \/ HandleAccept(w) \/ Signal(w) \/ handle_aio_completions(w) \/ ServerEnds(w)
Next ==
    \/ \E w \in 1 .. MaxWorkers : WorkerStep(w)
    \/ \E w \in 1 .. MaxWorkers, c \in 1 .. MaxSockets : ClientStep(w, c) \/ ServerStep(w, c)
    \/ Stop
Spec == Init /\ [][Next]_vars /\ WF_vars(Next)

-----------------------------------------------------------------------------
(* Connections are in the phases of client.cpp, server.cpp and              *)
(* epoll_libaio.cpp, and no socket or buffer holds more than it may.        *)
TypeOK ==
    /\ \A w \in Workers : cl[w].pc \in {"connect", "loop", "done"} /\ sv[w].pc \in {"init", "loop", "done"}
    /\ \A w \in Workers : cl[w].connected <= cfg.num_sockets /\ sv[w].accepted <= cl[w].connected
    /\ \A w \in Workers : \A c \in Sockets :
        /\ cl[w].conn[c].phase \in {"none", "send", "sent", "recv", "finished"}
        /\ sv[w].conn[c].phase \in {"none", "recv", "read", "complete", "send", "idle", "closed"}
        /\ sv[w].conn[c].sent + sv[w].conn[c].cqe \in 0 .. RequestSize
        /\ up[w][c] \in 0 .. ReqUnits /\ Len(down[w][c]) <= DownCap
        /\ Len(cl[w].conn[c].got) <= RequestSize

(* The client gets the blocks it asked for, in their order, even when they  *)
(* are sent from the payload without a copy and finish_request does not     *)
(* wait for the notification before the payload is used again.              *)
PayloadIsRight == \A w \in Workers : \A s \in scanned[w] : s.blocks = Blocks(s.off)

(* When the client has returned from a scan of a given size, its workers    *)
(* have each received their share once, and the shares make up the scan     *)
(* (worker_num_requests, worker_start_request).  As many as the disks can   *)
(* hold read no block twice (RaidLayout::map).                              *)
ScanIsComplete ==
    LET all == UNION {scanned[w] : w \in Workers} IN
    ClientGone /\ ~cfg.timed =>
        /\ {s.off : s \in all} = {k * RequestSize : k \in 0 .. cfg.scan_bytes \div RequestSize - 1}
        /\ \A w \in Workers : Cardinality(scanned[w]) * RequestSize = cl[w].total
        /\ \A v, w \in Workers : v # w => scanned[v] \cap scanned[w] = {}
        /\ \A s, t \in all : s.off # t.off => Range(s.blocks) \cap Range(t.blocks) = {}

(* The ensures of the handlers hold: a request lies within the scan and     *)
(* within a stripe, and no client waits for bytes that are neither in       *)
(* flight nor to come because the server has gone.                          *)
EnsuresHold ==
    /\ TypeOK
    /\ \A w \in Workers : \A c \in Sockets : sv[w].conn[c].phase = "read" =>
        /\ cfg.timed \/ sv[w].conn[c].off + RequestSize <= cfg.scan_bytes
        /\ (sv[w].conn[c].off % StripeSize) + RequestSize <= StripeSize
    /\ ServerGone => \A w \in Workers : \A c \in Sockets : cl[w].conn[c].phase \in {"sent", "recv"} =>
        Len(cl[w].conn[c].got) + Len(down[w][c]) = RequestSize

(* Both programs return: event_loop and run leave their loops on both       *)
(* sides, after the last byte or when the time is over.                     *)
Ends == <>(ClientGone /\ ServerGone)
=============================================================================
