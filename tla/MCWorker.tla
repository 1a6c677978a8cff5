------------------------------ MODULE MCWorker ------------------------------
(***************************************************************************)
(* What the fibers of a multithreaded worker wait for: free frames         *)
(* (FreeFrames) and I/O (Reactor).  A behaviour is one of the two.         *)
(***************************************************************************)
EXTENDS MCFreeFrames

CONSTANTS IoFibers, BatchSize, MaxIos, None
VARIABLES part, always, phase, left, cur, runnable, state, cqeLeft, sq, kernel, cq,
          outstanding, submitted, pending, toSubmit, since, ios
ioVars == <<always, phase, left, cur, runnable, state, cqeLeft, sq, kernel, cq,
            outstanding, submitted, pending, toSubmit, since, ios>>
Io == INSTANCE Reactor WITH Fibers <- IoFibers, Partial <- FALSE, ready <- runnable
ASSUME IoAssumption == Io!WellConfigured

BothInit ==
    /\ part \in {"frames", "io"} /\ Init /\ Io!Init
    /\ part = "frames" => ~always
BothNext ==
    \/ part = "frames" /\ Next /\ UNCHANGED <<part, ioVars>>
    \/ part = "io" /\ Io!Next /\ UNCHANGED <<part, vars>>
BothSpec == BothInit /\ [][BothNext]_<<part, vars, ioVars>>

(* submitted_io, pending_io, to_submit and fibers_since_first_io count what *)
(* is in the queues.                                                        *)
CountsAreExact == Io!CountsAreExact
(* A fiber is parked in io or io_batch as long as its operation is under    *)
(* way, no longer and no shorter, and is in the ready ring once when ready. *)
ParkedForItsIo == Io!ParkedForItsIo
(* The worker does not idle over I/O that it has not submitted.             *)
NothingLeftBehind == Io!NothingLeftBehind
=============================================================================
