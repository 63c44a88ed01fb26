---------------------------- MODULE BlockingClient ----------------------------
(***************************************************************************)
(* class client of src/client-bloking-timeout-1.cpp: a TCP client whose    *)
(* calls block.  Each call starts one asynchronous operation and runs the  *)
(* io_service, a handler at a time, until the operation has set ec; a      *)
(* deadline actor that lives as long as the client closes the socket.      *)
(* Between two calls the io_service does not run.                          *)
(***************************************************************************)
EXTENDS Asio

CONSTANTS
  Timeouts,    \* the timeouts the callers pass, in ticks of the model
  MaxLines     \* bound: complete lines one read leaves buffered

ASSUME BlockingAssumption ==
  /\ Timeouts \subseteq Nat /\ Timeouts # {}
  /\ \E m \in Timeouts : \A t \in Timeouts : t <= m
  /\ MaxLines \in Nat \ {0}

VARIABLES
  open,        \* socket_.is_open()
  deadline_,   \* ticks until deadline_.expires_at(), 0 when passed
  lines,       \* complete lines in input_buffer_
  io,          \* the operations outstanding on io_service_
  call,        \* the call in progress, or none
  outcome,     \* how the last call ended
  budget,      \* history: the timeout of the last call
  age,         \* history: ticks since it began
  usable       \* history: whether the socket was open when it began

client == <<open, deadline_, lines, io>>
caller == <<call, outcome, budget, age, usable>>
vars   == <<client, caller>>

Handler   == {"completed", "check_deadline"}
pos_infin == -1
MaxAge    == CHOOSE m \in Timeouts : \A t \in Timeouts : t <= m

\* client(): no deadline, and the deadline actor waits.
Init ==
  /\ open = FALSE /\ lines = 0
  /\ deadline_ = pos_infin
  /\ io = Begin(Nothing(Handler), "check_deadline")
  /\ call = "none" /\ outcome = "none"
  /\ budget = 0 /\ age = 0 /\ usable = FALSE

InCall == call # "none"

-----------------------------------------------------------------------------
(* The calls.  Each moves the deadline, which cancels the wait of the       *)
(* deadline actor, and then starts its operation with ec at would_block.    *)
Moved == Cancel(io, {"check_deadline"})

\* Faulty: a deadline that is still armed is kept.
EnterUnderOldDeadline(c, timeout) ==
  /\ ~InCall
  /\ call' = c
  /\ deadline_' = IF deadline_ = pos_infin THEN timeout ELSE deadline_
  /\ budget' = timeout /\ age' = 0 /\ usable' = open
  /\ UNCHANGED <<lines, outcome>>

Enter(c, timeout) ==
  /\ ~InCall
  /\ call' = c
  /\ deadline_' = timeout
  /\ budget' = timeout /\ age' = 0 /\ usable' = open
  /\ UNCHANGED <<lines, outcome>>

\* async_connect() opens the socket for each endpoint, which may fail.
Connect(timeout) ==
  /\ Enter("connect", timeout)
  /\ open' \in BOOLEAN
  /\ io' = IF open' THEN Begin(Moved, "completed")
                    ELSE Post(Moved, "completed", "error")

\* resolve() throws before the deadline is set.
ConnectUnresolved ==
  /\ ~InCall
  /\ outcome' = "threw"
  /\ UNCHANGED <<client, call, budget, age, usable>>

\* async_read_until() is over at once when the buffer holds a line, even on a
\* closed socket, and fails at once on a closed socket when it does not.
ReadLine(timeout) ==
  /\ Enter("read_line", timeout)
  /\ io' = IF lines > 0 THEN Post(Moved, "completed", "ok")
           ELSE IF open THEN Begin(Moved, "completed")
           ELSE Post(Moved, "completed", "error")
  /\ UNCHANGED open

WriteLine(timeout) ==
  /\ Enter("write_line", timeout)
  /\ io' = IF open THEN Begin(Moved, "completed")
                   ELSE Post(Moved, "completed", "error")
  /\ UNCHANGED open

-----------------------------------------------------------------------------
(* io_service_.run_one(): one handler that is ready *)

\* Faulty: connect() does not look at the socket.
SucceedsOpenOrNot(ec) == ec = "ok"

\* Faulty: ec is not looked at.
SucceedsAlways(ec) == TRUE

\* The test that follows the loop; only connect() looks at the socket.
Succeeds(ec) == ec = "ok" /\ (call = "connect" => open)

\* The operation sets ec, the loop ends, and the call returns or throws;
\* read_line() takes its line out of the buffer.
Completed(ec) ==
  /\ InCall /\ Ready(io, "completed", ec)
  /\ io' = Dispatch(io, "completed", ec)
  /\ call' = "none"
  /\ outcome' = IF Succeeds(ec) THEN "returned" ELSE "threw"
  /\ lines' = IF Succeeds(ec) /\ call = "read_line" THEN lines - 1 ELSE lines
  /\ UNCHANGED <<open, deadline_, budget, age, usable>>

\* Faulty: takes every call for an expired deadline.
AnyCall == TRUE

Passed == deadline_ = 0

\* Faulty: the actor is not put back to sleep.
LeftAwake(q) == q

BackToSleep(q) == Begin(q, "check_deadline")

\* Faulty: the call runs one handler and does not wait for its own.
RunOneOnce(ec) ==
  /\ InCall /\ Ready(io, "check_deadline", ec)
  /\ io' = BackToSleep(Dispatch(io, "check_deadline", ec))
  /\ call' = "none" /\ outcome' = "threw"
  /\ UNCHANGED <<open, deadline_, lines, budget, age, usable>>

\* Faulty: the deadline is disarmed and the socket stays open.
CheckDeadlineKeepsOpen(ec) ==
  /\ InCall /\ Ready(io, "check_deadline", ec)
  /\ deadline_' = IF Passed THEN pos_infin ELSE deadline_
  /\ io' = BackToSleep(Dispatch(io, "check_deadline", ec))
  /\ UNCHANGED <<open, lines, caller>>

\* void check_deadline(), called with any result of the wait
CheckDeadline(ec) ==
  /\ InCall /\ Ready(io, "check_deadline", ec)
  /\ LET q == Dispatch(io, "check_deadline", ec)
     IN \/ /\ Passed
           /\ open' = FALSE
           /\ deadline_' = pos_infin
           /\ io' = BackToSleep(Cancel(q, Handler))
        \/ /\ ~Passed
           /\ io' = BackToSleep(q)
           /\ UNCHANGED <<open, deadline_>>
  /\ UNCHANGED <<lines, caller>>

-----------------------------------------------------------------------------
(* The network and the clock *)

\* A read completes when the buffer holds a line at least; a connect that fails
\* may leave the socket open or closed.
OperationCompletes(ec) ==
  /\ InCall /\ Waiting(io, "completed")
  /\ io' = Complete(io, "completed", ec)
  /\ lines' \in IF call = "read_line" /\ ec = "ok" THEN 1..MaxLines ELSE {lines}
  /\ open' \in IF call = "connect" /\ ec = "error" THEN {open, FALSE} ELSE {open}
  /\ UNCHANGED <<deadline_, caller>>

TimerExpires ==
  /\ InCall /\ Waiting(io, "check_deadline")
  /\ Passed
  /\ io' = Complete(io, "check_deadline", "ok")
  /\ UNCHANGED <<open, deadline_, lines, caller>>

\* Time passes in a call and between calls.
Tick ==
  /\ deadline_' = IF deadline_ > 0 THEN deadline_ - 1 ELSE deadline_
  /\ age' = IF age < MaxAge THEN age + 1 ELSE age
  /\ UNCHANGED <<open, lines, io, call, outcome, budget, usable>>

-----------------------------------------------------------------------------
Call ==
  \/ \E timeout \in Timeouts :
       Connect(timeout) \/ ReadLine(timeout) \/ WriteLine(timeout)
  \/ ConnectUnresolved

RunOne == \E ec \in Result : Completed(ec) \/ CheckDeadline(ec)

Network == \E ec \in Result : OperationCompletes(ec)

Next == Call \/ RunOne \/ Network \/ TimerExpires \/ Tick

\* run_one() runs a handler that is ready and waits for one that is not, timers
\* expire and time passes; callers and the network owe nothing.
Fairness ==
  /\ \A ec \in Result : WF_vars(Completed(ec)) /\ WF_vars(CheckDeadline(ec))
  /\ WF_vars(TimerExpires) /\ WF_vars(Tick)

Spec == Init /\ [][Next]_vars /\ Fairness

-----------------------------------------------------------------------------
TypeOK ==
  /\ open \in BOOLEAN /\ usable \in BOOLEAN
  /\ deadline_ \in 0..MaxAge \cup {pos_infin}
  /\ lines \in 0..MaxLines
  /\ io \in [Handler -> [Status -> Nat]]
  /\ call \in {"none", "connect", "read_line", "write_line"}
  /\ outcome \in {"none", "returned", "threw"}
  /\ budget \in 0..MaxAge /\ age \in 0..MaxAge

\* The operation of a call ends inside the call: later it would write to an ec
\* that is gone.  The deadline actor always waits or is ready, once: without it
\* run_one() would have nothing to run and the loop around it never end.  And a
\* call waits for the peer only with a deadline armed on an open socket, so that
\* the actor, once it has closed the socket and disarmed itself, leaves nothing
\* behind that only the peer could end.
CallsAreGuarded ==
  /\ Outstanding(io, "completed") = IF InCall THEN 1 ELSE 0
  /\ Outstanding(io, "check_deadline") = 1
  /\ Waiting(io, "completed") => open /\ deadline_ # pos_infin

\* A write_line() that began on a closed socket never succeeds, and neither does
\* a read_line(), other than with a line that had arrived before.
ClosedSocketIsUseless ==
  [][ InCall /\ call' = "none" /\ outcome' = "returned" /\ ~usable
        => \/ call = "connect"
           \/ call = "read_line" /\ lines > 0 ]_vars

\* The deadline actor closes the socket only when the call in progress has had
\* its whole timeout: the deadline of an earlier call, which stays armed between
\* calls and may have passed there, never ends a later one.
NoEarlyTimeout ==
  [][ open /\ ~open' /\ deadline_' = pos_infin => age >= budget ]_vars

\* Every call ends, whatever the peer does.
CallsEnd == InCall ~> ~InCall
=============================================================================
