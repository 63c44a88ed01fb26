------------------------------ MODULE AsyncClient ------------------------------
(***************************************************************************)
(* class client and main() of src/client-async-2.cpp: a TCP client whose   *)
(* connect, input and heartbeat actors are chains of asynchronous          *)
(* operations, watched over by a deadline actor that closes the socket.    *)
(* One thread runs the io_service; ready handlers run in any order.        *)
(***************************************************************************)
EXTENDS Asio

CONSTANTS
  NumEndpoints,         \* how many endpoints resolve() has found
  ConnectTimeout,       \* 60 seconds, in ticks of the model
  ReadTimeout,          \* 30 seconds
  HeartbeatInterval,    \* 10 seconds
  MaxLines,             \* bound: complete lines one read leaves buffered
  UserMayStop,          \* does the user of the class call stop()?
  SystemCallsMayFail    \* can opening or closing the socket fail?

ASSUME ClientAssumption ==
  /\ NumEndpoints \in Nat \ {0}
  /\ ConnectTimeout \in Nat \ {0} /\ ReadTimeout \in Nat \ {0}
  /\ HeartbeatInterval \in Nat \ {0}
  /\ MaxLines \in Nat \ {0}
  /\ UserMayStop \in BOOLEAN /\ SystemCallsMayFail \in BOOLEAN

VARIABLES
  stopped_,     \* the client's flag
  open,         \* socket_.is_open()
  iter,         \* endpoint_iter: 1 .. NumEndpoints, or one past the last
  lines,        \* complete lines in input_buffer_
  deadline_,    \* ticks until deadline_.expires_at(), 0 when passed
  heartbeat_,   \* ticks until heartbeat_timer_ expires, 0 when passed
  io,           \* the operations outstanding on the io_service
  run,          \* main(): created, running, returned, or failed by an exception
  age           \* history: ticks since the last connect or read began

client == <<stopped_, open, iter, lines, deadline_, heartbeat_>>
vars   == <<client, io, run, age>>

SocketOps == {"handle_connect", "handle_read", "handle_write"}
Handler   == SocketOps \cup {"check_deadline", "start_write"}
pos_infin == -1
MaxAge    == IF ConnectTimeout > ReadTimeout THEN ConnectTimeout ELSE ReadTimeout

Init ==
  /\ stopped_ = FALSE /\ open = FALSE
  /\ iter = 1 /\ lines = 0
  /\ deadline_ = pos_infin /\ heartbeat_ = 0
  /\ io = Nothing(Handler)
  /\ run = "created"
  /\ age = 0

-----------------------------------------------------------------------------
(* The member functions that handlers call.  Each takes the operations      *)
(* outstanding when it is called and says what becomes of the client.       *)

\* Faulty: the timers go on.
StopSocketOnly(q) ==
  /\ stopped_' = TRUE
  /\ open' = FALSE
  /\ io' = Cancel(q, SocketOps)
  /\ UNCHANGED <<lines, deadline_, heartbeat_, run, age>>

\* void stop()
Stop(q) ==
  /\ stopped_' = TRUE
  /\ open' = FALSE
  /\ io' = Cancel(q, Handler)
  /\ UNCHANGED <<lines, deadline_, heartbeat_, run, age>>

\* deadline_.expires_from_now(d) cancels the wait of the deadline actor, which
\* then looks at the new deadline.
SetDeadline(d) ==
  /\ deadline_' = d
  /\ age' = 0
  /\ UNCHANGED run

Moved(q) == Cancel(q, {"check_deadline"})

\* async_connect() opens the socket, which may fail.
Opens == IF SystemCallsMayFail THEN BOOLEAN ELSE {TRUE}

\* void start_connect(tcp::resolver::iterator endpoint_iter)
StartConnect(q, endpoint_iter) ==
  /\ iter' = endpoint_iter
  /\ \/ /\ endpoint_iter <= NumEndpoints
        /\ SetDeadline(ConnectTimeout)
        /\ open' \in Opens
        /\ io' = IF open' THEN Begin(Moved(q), "handle_connect")
                          ELSE Post(Moved(q), "handle_connect", "error")
        /\ UNCHANGED <<stopped_, lines, heartbeat_>>
     \/ endpoint_iter > NumEndpoints /\ Stop(q)

\* Faulty: tries the same endpoint again.
TryAgain(q) == StartConnect(q, iter)

TryNext(q) == StartConnect(q, iter + 1)

\* async_read_until() is over at once when the buffer holds a line, even on a
\* closed socket, and fails at once on a closed socket when it does not.
ReadUntil(q, buffered) ==
  IF buffered > 0 THEN Post(q, "handle_read", "ok")
  ELSE IF open THEN Begin(q, "handle_read")
  ELSE Post(q, "handle_read", "error")

Write(q) ==
  IF open THEN Begin(q, "handle_write") ELSE Post(q, "handle_write", "error")

-----------------------------------------------------------------------------
(* The handlers *)
Run(h, ec) == run = "running" /\ Ready(io, h, ec)

\* Faulty: stopped_ is not looked at.
ActAnyway(h, ec) == Run(h, ec)

Act(h, ec) == ~stopped_ /\ Run(h, ec)

\* Every handler begins with: if (stopped_) return;
IgnoreWhenStopped(h, ec) ==
  /\ stopped_ /\ Run(h, ec)
  /\ io' = Dispatch(io, h, ec)
  /\ UNCHANGED <<client, run, age>>

\* void handle_connect(ec, endpoint_iter)
HandleConnect(ec) ==
  /\ Act("handle_connect", ec)
  /\ LET q == Dispatch(io, "handle_connect", ec)
     IN \/ ~open /\ TryNext(q)
        \/ open /\ ec = "error" /\ TryNext(Cancel(q, SocketOps))
        \/ /\ open /\ ec = "ok"
           /\ SetDeadline(ReadTimeout)
           /\ io' = Write(ReadUntil(Moved(q), lines))
           /\ UNCHANGED <<stopped_, open, iter, lines, heartbeat_>>

\* void handle_read(ec)
HandleRead(ec) ==
  /\ Act("handle_read", ec)
  /\ LET q == Dispatch(io, "handle_read", ec)
     IN \/ /\ ec = "ok"
           /\ lines' = lines - 1
           /\ SetDeadline(ReadTimeout)
           /\ io' = ReadUntil(Moved(q), lines')
           /\ UNCHANGED <<stopped_, open, iter, heartbeat_>>
        \/ ec = "error" /\ Stop(q) /\ UNCHANGED iter

\* void start_write(), called when the heartbeat timer expires or is cancelled
StartWrite(ec) ==
  /\ Act("start_write", ec)
  /\ io' = Write(Dispatch(io, "start_write", ec))
  /\ UNCHANGED <<client, run, age>>

\* void handle_write(ec)
HandleWrite(ec) ==
  /\ Act("handle_write", ec)
  /\ LET q == Dispatch(io, "handle_write", ec)
     IN \/ /\ ec = "ok"
           /\ heartbeat_' = HeartbeatInterval
           /\ io' = Begin(Cancel(q, {"start_write"}), "start_write")
           /\ UNCHANGED <<stopped_, open, iter, lines, deadline_, run, age>>
        \/ ec = "error" /\ Stop(q) /\ UNCHANGED iter

\* Faulty: takes every call for an expired deadline.
AnyCall == TRUE

Passed == deadline_ = 0

\* Faulty: the actor is not put back to sleep.
LeftAwake(q) == q

BackToSleep(q) == Begin(q, "check_deadline")

\* Faulty: disarms the deadline without closing the socket.
CheckDeadlineKeepsOpen(ec) ==
  /\ Act("check_deadline", ec)
  /\ deadline_' = IF Passed THEN pos_infin ELSE deadline_
  /\ io' = BackToSleep(Dispatch(io, "check_deadline", ec))
  /\ UNCHANGED <<stopped_, open, iter, lines, heartbeat_, run, age>>

\* void check_deadline(), called with any result of the wait
CheckDeadline(ec) ==
  /\ Act("check_deadline", ec)
  /\ LET q == Dispatch(io, "check_deadline", ec)
     IN \/ /\ Passed
           /\ open' = FALSE
           /\ deadline_' = pos_infin
           /\ io' = BackToSleep(Cancel(q, SocketOps \cup {"check_deadline"}))
        \/ /\ ~Passed
           /\ io' = BackToSleep(q)
           /\ UNCHANGED <<open, deadline_>>
  /\ UNCHANGED <<stopped_, iter, lines, heartbeat_, run, age>>

\* socket_.close() in handle_connect() or check_deadline() throws, and main()
\* catches what io_service.run() lets through.
CloseThrows(h, ec) ==
  /\ SystemCallsMayFail
  /\ open /\ Act(h, ec)
  /\ \/ h = "handle_connect" /\ ec = "error"
     \/ h = "check_deadline" /\ Passed
  /\ io' = Dispatch(io, h, ec)
  /\ run' = "failed"
  /\ UNCHANGED <<client, age>>

Handle(h) ==
  \E ec \in Result :
    \/ IgnoreWhenStopped(h, ec)
    \/ h = "handle_connect" /\ HandleConnect(ec)
    \/ h = "handle_read"    /\ HandleRead(ec)
    \/ h = "start_write"    /\ StartWrite(ec)
    \/ h = "handle_write"   /\ HandleWrite(ec)
    \/ h = "check_deadline" /\ CheckDeadline(ec)
    \/ CloseThrows(h, ec)

-----------------------------------------------------------------------------
(* The user of the class, and main() *)

\* c.start(...): the connect actor and the deadline actor.
Start ==
  /\ run = "created"
  /\ deadline_' = ConnectTimeout
  /\ open' \in Opens
  /\ io' = Begin(IF open' THEN Begin(io, "handle_connect")
                          ELSE Post(io, "handle_connect", "error"), "check_deadline")
  /\ run' = "running"
  /\ age' = 0
  /\ UNCHANGED <<stopped_, iter, lines, heartbeat_>>

UserStop ==
  /\ UserMayStop
  /\ run = "running" /\ ~stopped_
  /\ Stop(io) /\ UNCHANGED iter

\* io_service.run() returns when nothing is outstanding.
RunReturns ==
  /\ run = "running" /\ OutOfWork(io)
  /\ run' = "returned"
  /\ UNCHANGED <<client, io, age>>

Terminated == run \in {"returned", "failed"} /\ UNCHANGED vars

-----------------------------------------------------------------------------
(* The network and the clock *)
\* A read completes when the buffer holds a line at least.
LineArrives == (lines + 1)..MaxLines

SocketCompletes(h, ec) ==
  /\ run = "running" /\ Waiting(io, h)
  /\ io' = Complete(io, h, ec)
  /\ lines' \in IF h = "handle_read" /\ ec = "ok" THEN LineArrives ELSE {lines}
  /\ UNCHANGED <<stopped_, open, iter, deadline_, heartbeat_, run, age>>

Network == \E h \in SocketOps, ec \in Result : SocketCompletes(h, ec)

TimerExpires(h) ==
  /\ run = "running" /\ Waiting(io, h)
  /\ \/ h = "check_deadline" /\ deadline_ = 0
     \/ h = "start_write" /\ heartbeat_ = 0
  /\ io' = Complete(io, h, "ok")
  /\ UNCHANGED <<client, run, age>>

Down(n) == IF n > 0 THEN n - 1 ELSE n

Tick ==
  /\ run = "running"
  /\ deadline_' = Down(deadline_)
  /\ heartbeat_' = Down(heartbeat_)
  /\ age' = IF age < MaxAge THEN age + 1 ELSE age
  /\ UNCHANGED <<stopped_, open, iter, lines, io, run>>

Next ==
  \/ Start \/ UserStop \/ RunReturns \/ Terminated
  \/ \E h \in Handler : Handle(h) \/ TimerExpires(h)
  \/ Network \/ Tick

\* The io_service runs every handler that is ready, timers expire and time
\* passes; the network owes nothing, the peer may stay silent for ever.
Fairness ==
  /\ \A h \in Handler : WF_vars(Handle(h)) /\ WF_vars(TimerExpires(h))
  /\ WF_vars(Start) /\ WF_vars(RunReturns) /\ WF_vars(Tick)

Spec == Init /\ [][Next]_vars /\ Fairness

-----------------------------------------------------------------------------
TypeOK ==
  /\ stopped_ \in BOOLEAN /\ open \in BOOLEAN
  /\ iter \in 1..(NumEndpoints + 1)
  /\ lines \in 0..MaxLines
  /\ deadline_ \in 0..MaxAge \cup {pos_infin}
  /\ heartbeat_ \in 0..HeartbeatInterval
  /\ io \in [Handler -> [Status -> Nat]]
  /\ run \in {"created", "running", "returned", "failed"}
  /\ age \in 0..MaxAge

Active    == run = "running" /\ ~stopped_
Count(h)  == Outstanding(io, h)
Connected == Count("handle_connect") = 0

\* While the client is active each actor of the class comment has exactly one
\* step outstanding: the deadline actor always, the connect actor until the
\* connection is made, the input and the heartbeat actor from then on.  Nothing
\* runs out of work, and no actor ever runs twice.
OneStepPerActor ==
  Active =>
    /\ Count("check_deadline") = 1
    /\ Count("handle_connect") + Count("handle_read") = 1
    /\ Count("handle_write") + Count("start_write") = IF Connected THEN 1 ELSE 0

\* An operation waits on the socket only while it is open, and a connect or read
\* waits for the peer only with a deadline armed: the deadline actor, once it has
\* closed the socket and disarmed itself, leaves nothing behind that only the
\* peer could end.
WaitsAreGuarded ==
  /\ \A h \in SocketOps : Waiting(io, h) => open
  /\ Waiting(io, "handle_connect") \/ Waiting(io, "handle_read")
       => deadline_ # pos_infin

\* stop() is final: whatever handlers were ready when it was called, none of
\* them starts another operation or opens the socket again.
StopIsFinal == stopped_ => ~open /\ \A h \in Handler : ~Waiting(io, h)

\* The deadline actor closes the socket only when the operation in progress has
\* had its whole time, although the actor may run late, on a wait that expired
\* or was cancelled for an earlier operation.
NoEarlyTimeout ==
  [][ open /\ ~open' /\ ~stopped_' /\ iter' = iter
        => age >= IF Connected THEN ReadTimeout ELSE ConnectTimeout ]_vars

\* The comment in handle_connect(): "If the socket is closed at this time then
\* the timeout handler must have run first", which disarms the deadline.
ClosedMeansTimedOut ==
  Active /\ ~open /\ (\E ec \in Result : Ready(io, "handle_connect", ec))
    => deadline_ = pos_infin

\* What the user of the client sees of it.
Phase ==
  CASE run \in {"created", "returned", "failed"} -> run
    [] Active /\ ~Connected -> "connecting"
    [] Active /\ Connected  -> "connected"
    [] OTHER -> "stopped"

Lifecycle == INSTANCE ClientLifecycle WITH phase <- Phase, endpoint <- iter

\* Endpoints are tried in turn and once, each for a finite time, a peer that
\* never answers included; nothing but a success ends the search before the
\* last; and run() returns only once the client has stopped.
ImplementsLifecycle == Lifecycle!Spec

\* A peer that sends nothing holds no read for ever, unless an exception ends
\* the program.
SilentPeerTimesOut ==
  Waiting(io, "handle_read") ~> ~Waiting(io, "handle_read") \/ run = "failed"

\* Once the client has stopped, io_service.run() returns.
StopEndsRun == stopped_ ~> run # "running"
=============================================================================
