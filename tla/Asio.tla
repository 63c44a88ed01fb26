--------------------------------- MODULE Asio ---------------------------------
(***************************************************************************)
(* What a program sees of boost::asio::io_service and of the asynchronous  *)
(* operations started on it: a record of how many operations of each       *)
(* handler are still waiting, and how many handlers are ready to run with  *)
(* success or with an error.  The module has no state of its own; the      *)
(* modules of the programs keep such a record in a variable.               *)
(***************************************************************************)
EXTENDS Integers

Result == {"ok", "error"}
Status == Result \cup {"waiting"}

\* No operation is outstanding.
Nothing(Handler) == [h \in Handler |-> [s \in Status |-> 0]]

\* async_xxx(..., h): the operation starts; or is over at once, and its handler
\* is posted, never called from within the call that starts the operation.
Begin(io, h)    == [io EXCEPT ![h]["waiting"] = @ + 1]
Post(io, h, ec) == [io EXCEPT ![h][ec] = @ + 1]

\* The operation completes with result ec; the io_service runs its handler.
Complete(io, h, ec) == Post([io EXCEPT ![h]["waiting"] = @ - 1], h, ec)
Dispatch(io, h, ec) == [io EXCEPT ![h][ec] = @ - 1]

\* cancel() or close(): what still waits completes with operation_aborted, and
\* what is ready already keeps its result.
Cancel(io, H) ==
  [h \in DOMAIN io |->
    IF h \notin H THEN io[h]
    ELSE [io[h] EXCEPT !["waiting"] = 0, !["error"] = @ + io[h]["waiting"]]]

Waiting(io, h)     == io[h]["waiting"] > 0
Ready(io, h, ec)   == io[h][ec] > 0
Outstanding(io, h) == io[h]["waiting"] + io[h]["ok"] + io[h]["error"]
OutOfWork(io)      == \A h \in DOMAIN io : Outstanding(io, h) = 0
=============================================================================
