---------------------------- MODULE BlockingProofs ----------------------------
(***************************************************************************)
(* Proofs about BlockingClient, for any timeouts and lines and any order   *)
(* of calls, and about the main() of BlockingEcho.                         *)
(***************************************************************************)
EXTENDS BlockingEcho, AsioProofs, TLAPS

Count(h) == Outstanding(io, h)

(* What the properties need of one another. *)

\* The time left and the time spent are the timeout of the call at least.
DeadlineCovers == deadline_ # pos_infin => deadline_ + age >= budget

\* A read that succeeded has left its line in the buffer.
ReadHasLine == call = "read_line" /\ Ready(io, "completed", "ok") => lines > 0

\* A call that began on a closed socket starts nothing that could still succeed;
\* its socket stays closed, as only connect() opens one.
StaysUseless ==
  InCall /\ call # "connect" /\ ~usable
    => ~open /\ (Ready(io, "completed", "ok") => call = "read_line")

IInv ==
  TypeOK /\ CallsAreGuarded /\ DeadlineCovers /\ ReadHasLine /\ StaysUseless

LEMMA Constants ==
  /\ MaxLines \in Nat \ {0} /\ MaxAge \in Nat
  /\ Timeouts \subseteq 0..MaxAge /\ pos_infin = -1
<1>1. \E m \in Timeouts : \A t \in Timeouts : t <= m
  BY BlockingAssumption
<1>2. MaxAge \in Timeouts /\ \A t \in Timeouts : t <= MaxAge
  BY <1>1, Zenon DEF MaxAge
<1> QED BY <1>2, BlockingAssumption DEF pos_infin

LEMMA TwoHandlers ==
  /\ "completed" \in Handler /\ "check_deadline" \in Handler
  /\ \A g \in Handler : g = "completed" \/ g = "check_deadline"
  /\ "ok" \in Result /\ "error" \in Result
  /\ "ok" \in Status /\ "error" \in Status /\ "waiting" \in Status
BY DEF Handler, Result, Status

\* The counts as naturals, and what of them the invariant speaks of.
LEMMA Counts ==
  ASSUME NEW q \in Operations(Handler), NEW g \in Handler
  PROVE  /\ q[g]["waiting"] \in Nat /\ q[g]["ok"] \in Nat /\ q[g]["error"] \in Nat
         /\ Outstanding(q, g) = q[g]["waiting"] + q[g]["ok"] + q[g]["error"]
BY TwoHandlers DEF Operations, Outstanding

LEMMA InitIInv == Init => IInv
<1> SUFFICES ASSUME Init PROVE IInv
  OBVIOUS
<1>1. /\ io \in Operations(Handler)
      /\ io["completed"]["waiting"] = 0 /\ io["completed"]["ok"] = 0
      /\ Count("completed") = 0 /\ Count("check_deadline") = 1
  BY NothingOutstanding, BeginAdds, TwoHandlers DEF Init, Count, One
<1>2. TypeOK
  <2>1. open \in BOOLEAN /\ usable \in BOOLEAN
    BY Zenon DEF Init
  <2> QED BY <1>1, <2>1, Constants DEF Init, TypeOK, Operations
<1>3. CallsAreGuarded
  BY <1>1 DEF Init, CallsAreGuarded, Count, InCall, Waiting
<1> QED BY <1>2, <1>3 DEF Init, IInv, DeadlineCovers, ReadHasLine, StaysUseless, InCall

\* An operation that starts, or is over at once, is one more of its handler.
LEMMA StartAdds ==
  ASSUME NEW q \in Operations(Handler), NEW waits \in BOOLEAN, NEW ec \in Result
  PROVE  LET r == IF waits THEN Begin(q, "completed") ELSE Post(q, "completed", ec)
         IN  /\ r \in Operations(Handler)
             /\ Outstanding(r, "completed") = Outstanding(q, "completed") + 1
             /\ Outstanding(r, "check_deadline") = Outstanding(q, "check_deadline")
             /\ r["completed"]["waiting"] = q["completed"]["waiting"] + One(waits)
             /\ r["completed"]["ok"]
                  = q["completed"]["ok"] + One(~waits /\ ec = "ok")
<1>1. q["completed"]["waiting"] \in Nat /\ q["completed"]["ok"] \in Nat
      /\ Outstanding(q, "check_deadline") \in Nat
  BY Counts, TwoHandlers
<1>2. CASE waits
  BY <1>1, <1>2, BeginAdds, TwoHandlers DEF One
<1>3. CASE ~waits /\ ec = "ok"
  BY <1>1, <1>3, PostAdds, TwoHandlers DEF One
<1>4. CASE ~waits /\ ec = "error"
  BY <1>1, <1>4, PostAdds, TwoHandlers DEF One
<1> QED BY <1>2, <1>3, <1>4 DEF Result

LEMMA CallStarts ==
  ASSUME IInv, ~InCall, NEW waits \in BOOLEAN, NEW ec \in Result,
         io' = IF waits THEN Begin(Moved, "completed") ELSE Post(Moved, "completed", ec)
  PROVE  /\ io' \in Operations(Handler)
         /\ Outstanding(io', "completed") = 1
         /\ Outstanding(io', "check_deadline") = 1
         /\ Waiting(io', "completed") => waits
         /\ Ready(io', "completed", "ok") => ~waits /\ ec = "ok"
<1>1. io \in Operations(Handler)
  BY DEF IInv, TypeOK, Operations
<1>2. Outstanding(io, "completed") = 0 /\ Outstanding(io, "check_deadline") = 1
  BY DEF IInv, CallsAreGuarded
<1>3. io["completed"]["waiting"] = 0 /\ io["completed"]["ok"] = 0
  <2>1. \A g \in Handler : /\ io[g]["waiting"] \in Nat /\ io[g]["ok"] \in Nat
                           /\ io[g]["error"] \in Nat
                           /\ Outstanding(io, g)
                                = io[g]["waiting"] + io[g]["ok"] + io[g]["error"]
    BY <1>1, Counts
  <2> QED BY <1>2, <2>1, TwoHandlers
<1>4. /\ Moved \in Operations(Handler)
      /\ Outstanding(Moved, "completed") = 0
      /\ Outstanding(Moved, "check_deadline") = 1
      /\ Moved["completed"]["waiting"] = 0 /\ Moved["completed"]["ok"] = 0
  BY <1>1, <1>2, <1>3, CancelKeeps, TwoHandlers DEF Moved
<1>5. /\ io' \in Operations(Handler)
      /\ Outstanding(io', "completed") = 0 + 1
      /\ Outstanding(io', "check_deadline") = 1
      /\ io'["completed"]["waiting"] = 0 + One(waits)
      /\ io'["completed"]["ok"] = 0 + One(~waits /\ ec = "ok")
  BY <1>4, StartAdds
<1> QED BY <1>5 DEF Waiting, Ready, One

\* A call sets the deadline, waits only on an open socket, and can be over with
\* success at once only if it reads a line that is there.
LEMMA EnterIInv ==
  ASSUME IInv, NEW c \in {"connect", "read_line", "write_line"},
         NEW timeout \in Timeouts, Enter(c, timeout),
         open' \in BOOLEAN, c # "connect" => open' = open,
         NEW waits \in BOOLEAN, NEW ec \in Result,
         waits => open', ec = "ok" /\ ~waits => c = "read_line" /\ lines > 0,
         io' = IF waits THEN Begin(Moved, "completed") ELSE Post(Moved, "completed", ec)
  PROVE  IInv'
<1>1. ~InCall /\ call' = c /\ InCall'
  BY DEF Enter, InCall
<1>2. /\ io' \in Operations(Handler)
      /\ Outstanding(io', "completed") = 1
      /\ Outstanding(io', "check_deadline") = 1
      /\ Waiting(io', "completed") => waits
      /\ Ready(io', "completed", "ok") => ~waits /\ ec = "ok"
  BY <1>1, CallStarts
<1>3. /\ timeout \in 0..MaxAge /\ timeout # pos_infin
      /\ deadline_' = timeout /\ budget' = timeout /\ age' = 0 /\ usable' = open
      /\ lines' = lines /\ outcome' = outcome
  BY Constants DEF Enter
<1>4. TypeOK'
  <2>1. usable' \in BOOLEAN
    BY <1>3, Zenon DEF IInv, TypeOK
  <2> QED BY <1>1, <1>2, <1>3, <2>1, Constants DEF IInv, TypeOK, Operations
<1>5. CallsAreGuarded'
  BY <1>1, <1>2, <1>3 DEF CallsAreGuarded
<1>6. DeadlineCovers'
  BY <1>3 DEF DeadlineCovers
<1>7. ReadHasLine' /\ StaysUseless'
  <2>1. Ready(io', "completed", "ok") => c = "read_line" /\ lines > 0
    BY <1>2
  <2> QED BY <1>1, <1>3, <2>1 DEF ReadHasLine, StaysUseless
<1> QED BY <1>4, <1>5, <1>6, <1>7 DEF IInv

LEMMA CallIInv == IInv /\ Call => IInv'
<1> SUFFICES ASSUME IInv, Call PROVE IInv'
  OBVIOUS
<1>0. open \in BOOLEAN /\ lines \in Nat
  BY Constants DEF IInv, TypeOK
<1>1. ASSUME NEW timeout \in Timeouts, Connect(timeout) PROVE IInv'
  <2>1. open' \in BOOLEAN /\ Enter("connect", timeout)
    BY <1>1 DEF Connect
  <2>2. io' = IF open' THEN Begin(Moved, "completed")
                       ELSE Post(Moved, "completed", "error")
    BY <1>1 DEF Connect
  <2> QED BY <2>1, <2>2, EnterIInv, TwoHandlers
<1>2. ASSUME NEW timeout \in Timeouts, ReadLine(timeout) PROVE IInv'
  <2>1. open' = open /\ open' \in BOOLEAN /\ Enter("read_line", timeout)
    BY <1>0, <1>2 DEF ReadLine
  <2>2. CASE lines > 0
    <3>1. io' = IF FALSE THEN Begin(Moved, "completed")
                         ELSE Post(Moved, "completed", "ok")
      BY <1>2, <2>2 DEF ReadLine
    <3> QED BY <2>1, <2>2, <3>1, EnterIInv, TwoHandlers
  <2>3. CASE ~(lines > 0)
    <3>1. io' = IF open THEN Begin(Moved, "completed")
                        ELSE Post(Moved, "completed", "error")
      BY <1>2, <2>3 DEF ReadLine
    <3> QED BY <1>0, <2>1, <3>1, EnterIInv, TwoHandlers
  <2> QED BY <2>2, <2>3
<1>3. ASSUME NEW timeout \in Timeouts, WriteLine(timeout) PROVE IInv'
  <2>1. open' = open /\ open' \in BOOLEAN /\ Enter("write_line", timeout)
    BY <1>0, <1>3 DEF WriteLine
  <2>2. io' = IF open THEN Begin(Moved, "completed")
                      ELSE Post(Moved, "completed", "error")
    BY <1>3 DEF WriteLine
  <2> QED BY <1>0, <2>1, <2>2, EnterIInv, TwoHandlers
<1>4. CASE ConnectUnresolved
  BY <1>4 DEF ConnectUnresolved, client, IInv, TypeOK, CallsAreGuarded, DeadlineCovers,
              ReadHasLine, StaysUseless, InCall
<1> QED BY <1>1, <1>2, <1>3, <1>4 DEF Call

-----------------------------------------------------------------------------
\* The one operation of the call is over, and nothing of it stays behind.
LEMMA CompletedIInv ==
  ASSUME IInv, NEW ec \in Result, Completed(ec)
  PROVE  IInv'
<1>1. /\ InCall /\ Ready(io, "completed", ec) /\ ~InCall'
      /\ io' = Dispatch(io, "completed", ec)
      /\ UNCHANGED <<open, deadline_, budget, age, usable>>
  BY DEF Completed, InCall
<1>2. io \in Operations(Handler)
  BY DEF IInv, TypeOK, Operations
<1>3. /\ io' \in Operations(Handler)
      /\ Outstanding(io', "completed") = 0
      /\ Outstanding(io', "check_deadline") = 1
  <2>1. Outstanding(io, "completed") = 1 /\ Outstanding(io, "check_deadline") = 1
    BY <1>1 DEF IInv, CallsAreGuarded
  <2> QED BY <1>1, <1>2, <2>1, DispatchRemoves, TwoHandlers DEF One
<1>4. ~Waiting(io', "completed")
  BY <1>3, Counts, TwoHandlers DEF Waiting
<1>5. lines' \in 0..MaxLines
  <2>1. Succeeds(ec) /\ call = "read_line" => lines > 0
    BY <1>1 DEF Succeeds, IInv, ReadHasLine
  <2> QED BY <2>1, Constants DEF Completed, IInv, TypeOK
<1>6. TypeOK'
  <2>1. call' = "none" /\ outcome' \in {"none", "returned", "threw"}
    BY DEF Completed
  <2> QED BY <1>1, <1>3, <1>5, <2>1 DEF IInv, TypeOK, Operations
<1>7. CallsAreGuarded'
  BY <1>1, <1>3, <1>4 DEF CallsAreGuarded
<1>8. DeadlineCovers' /\ ReadHasLine' /\ StaysUseless'
  BY <1>1 DEF Completed, IInv, DeadlineCovers, ReadHasLine, StaysUseless, InCall
<1> QED BY <1>6, <1>7, <1>8 DEF IInv

\* The actor is back to sleep, once, and a deadline that has passed leaves no
\* operation waiting.
LEMMA CheckDeadlineIInv ==
  ASSUME IInv, NEW ec \in Result, CheckDeadline(ec)
  PROVE  IInv'
<1> DEFINE q == Dispatch(io, "check_deadline", ec)
<1>1. InCall /\ Ready(io, "check_deadline", ec) /\ UNCHANGED <<lines, caller>>
  BY DEF CheckDeadline
<1>2. io \in Operations(Handler)
  BY DEF IInv, TypeOK, Operations
<1>3. Outstanding(io, "completed") = 1 /\ Outstanding(io, "check_deadline") = 1
  BY <1>1 DEF IInv, CallsAreGuarded
<1>4. /\ q \in Operations(Handler)
      /\ Outstanding(q, "completed") = 1 /\ Outstanding(q, "check_deadline") = 0
      /\ q["completed"]["waiting"] = io["completed"]["waiting"]
      /\ q["completed"]["ok"] = io["completed"]["ok"]
  <2>1. io["completed"]["ok"] \in Nat
    BY <1>2, Counts, TwoHandlers
  <2> QED BY <1>1, <1>2, <1>3, <2>1, DispatchRemoves, TwoHandlers DEF One
<1> HIDE DEF q
<1>5. InCall' /\ call' = call /\ budget' = budget /\ age' = age /\ lines' = lines
      /\ usable' = usable /\ outcome' = outcome
  BY <1>1 DEF caller, InCall
<1>6. CASE Passed /\ open' = FALSE /\ deadline_' = pos_infin
           /\ io' = BackToSleep(Cancel(q, Handler))
  <2>1. /\ Cancel(q, Handler) \in Operations(Handler)
        /\ Outstanding(Cancel(q, Handler), "completed") = 1
        /\ Outstanding(Cancel(q, Handler), "check_deadline") = 0
        /\ Cancel(q, Handler)["completed"]["waiting"] = 0
        /\ Cancel(q, Handler)["completed"]["ok"] = io["completed"]["ok"]
    BY <1>4, CancelKeeps, TwoHandlers
  <2>2. /\ io' \in Operations(Handler)
        /\ Outstanding(io', "completed") = 1
        /\ Outstanding(io', "check_deadline") = 1
        /\ io'["completed"]["waiting"] = 0
        /\ io'["completed"]["ok"] = io["completed"]["ok"]
    BY <1>6, <2>1, BeginAdds, TwoHandlers DEF BackToSleep, One
  <2>3. TypeOK'
    BY <1>5, <1>6, <2>2 DEF IInv, TypeOK, Operations
  <2>4. CallsAreGuarded'
    BY <1>5, <2>2 DEF CallsAreGuarded, Waiting
  <2>5. DeadlineCovers' /\ ReadHasLine' /\ StaysUseless'
    BY <1>5, <1>6, <2>2 DEF IInv, DeadlineCovers, ReadHasLine, StaysUseless, InCall, Ready
  <2> QED BY <2>3, <2>4, <2>5 DEF IInv
<1>7. CASE ~Passed /\ io' = BackToSleep(q) /\ UNCHANGED <<open, deadline_>>
  <2>2. /\ io' \in Operations(Handler)
        /\ Outstanding(io', "completed") = 1
        /\ Outstanding(io', "check_deadline") = 1
        /\ io'["completed"]["waiting"] = io["completed"]["waiting"]
        /\ io'["completed"]["ok"] = io["completed"]["ok"]
    <3>1. io["completed"]["waiting"] \in Nat
      BY <1>2, Counts, TwoHandlers
    <3> QED BY <1>4, <1>7, <3>1, BeginAdds, TwoHandlers DEF BackToSleep, One
  <2>3. TypeOK'
    BY <1>5, <1>7, <2>2 DEF IInv, TypeOK, Operations
  <2>4. CallsAreGuarded'
    BY <1>5, <1>7, <2>2 DEF IInv, CallsAreGuarded, Waiting
  <2>5. DeadlineCovers' /\ ReadHasLine' /\ StaysUseless'
    BY <1>5, <1>7, <2>2 DEF IInv, DeadlineCovers, ReadHasLine, StaysUseless, InCall, Ready
  <2> QED BY <2>3, <2>4, <2>5 DEF IInv
<1> QED BY <1>6, <1>7 DEF CheckDeadline, q

-----------------------------------------------------------------------------
(* The network and the clock *)
LEMMA OperationIInv ==
  ASSUME IInv, NEW ec \in Result, OperationCompletes(ec)
  PROVE  IInv'
<1>1. /\ InCall /\ Waiting(io, "completed") /\ io' = Complete(io, "completed", ec)
      /\ UNCHANGED <<deadline_, caller>>
  BY DEF OperationCompletes
<1>2. io \in Operations(Handler)
  BY DEF IInv, TypeOK, Operations
<1>3. /\ Outstanding(io, "completed") = 1 /\ Outstanding(io, "check_deadline") = 1
      /\ open /\ deadline_ # pos_infin
  BY <1>1 DEF IInv, CallsAreGuarded
<1>4. io["completed"]["waiting"] = 1 /\ io["completed"]["ok"] = 0
  <2>1. /\ io["completed"]["waiting"] \in Nat /\ io["completed"]["ok"] \in Nat
        /\ io["completed"]["error"] \in Nat
        /\ 1 = io["completed"]["waiting"] + io["completed"]["ok"] + io["completed"]["error"]
    BY ONLY <1>2, <1>3, Counts, TwoHandlers
  <2>2. io["completed"]["waiting"] > 0
    BY <1>1 DEF Waiting
  <2> QED BY ONLY <2>1, <2>2
<1>5. /\ io' \in Operations(Handler)
      /\ Outstanding(io', "completed") = 1
      /\ Outstanding(io', "check_deadline") = 1
      /\ io'["completed"]["waiting"] = 0
      /\ io'["completed"]["ok"] = 0 + One(ec = "ok")
  BY <1>1, <1>2, <1>3, <1>4, CompleteKeeps, TwoHandlers DEF One
<1>6. InCall' /\ call' = call /\ budget' = budget /\ age' = age
      /\ usable' = usable /\ outcome' = outcome /\ deadline_' = deadline_
  BY <1>1 DEF caller, InCall
<1>7. TypeOK'
  <2>1. open' \in BOOLEAN
    BY Zenon DEF OperationCompletes, IInv, TypeOK
  <2>2. lines' \in 0..MaxLines
    BY Constants DEF OperationCompletes, IInv, TypeOK
  <2> QED BY <1>5, <1>6, <2>1, <2>2 DEF IInv, TypeOK, Operations
<1>8. CallsAreGuarded'
  BY <1>5, <1>6 DEF CallsAreGuarded, Waiting
<1>9. ReadHasLine'
  BY <1>5, <1>6, Constants DEF ReadHasLine, OperationCompletes, Ready, One
<1>10. DeadlineCovers' /\ StaysUseless'
  BY <1>1, <1>3, <1>6 DEF IInv, DeadlineCovers, StaysUseless
<1> QED BY <1>7, <1>8, <1>9, <1>10 DEF IInv

LEMMA TimerIInv == IInv /\ TimerExpires => IInv'
<1> SUFFICES ASSUME IInv, TimerExpires PROVE IInv'
  OBVIOUS
<1>1. /\ InCall /\ Waiting(io, "check_deadline")
      /\ io' = Complete(io, "check_deadline", "ok")
      /\ UNCHANGED <<open, deadline_, lines, caller>>
  BY DEF TimerExpires
<1>2. io \in Operations(Handler)
  BY DEF IInv, TypeOK, Operations
<1>3. /\ io["completed"]["waiting"] \in Nat /\ io["completed"]["ok"] \in Nat
  BY <1>2, Counts, TwoHandlers
<1>4. /\ io' \in Operations(Handler)
      /\ Outstanding(io', "completed") = Outstanding(io, "completed")
      /\ Outstanding(io', "check_deadline") = Outstanding(io, "check_deadline")
      /\ io'["completed"]["waiting"] = io["completed"]["waiting"]
      /\ io'["completed"]["ok"] = io["completed"]["ok"]
  BY <1>1, <1>2, <1>3, CompleteKeeps, TwoHandlers DEF One
<1>5. call' = call /\ budget' = budget /\ age' = age /\ usable' = usable
      /\ outcome' = outcome /\ deadline_' = deadline_ /\ open' = open /\ lines' = lines
  BY <1>1 DEF caller
<1>6. TypeOK'
  BY <1>4, <1>5 DEF IInv, TypeOK, Operations
<1>7. CallsAreGuarded'
  BY <1>4, <1>5 DEF IInv, CallsAreGuarded, Waiting, InCall
<1>8. DeadlineCovers' /\ ReadHasLine' /\ StaysUseless'
  BY <1>4, <1>5 DEF IInv, DeadlineCovers, ReadHasLine, StaysUseless, InCall, Ready
<1> QED BY <1>6, <1>7, <1>8 DEF IInv

\* The time left grows into the time spent, in a call and between two calls.
LEMMA TickIInv == IInv /\ Tick => IInv'
<1> SUFFICES ASSUME IInv, Tick PROVE IInv'
  OBVIOUS
<1>1. /\ deadline_' = IF deadline_ > 0 THEN deadline_ - 1 ELSE deadline_
      /\ age' = IF age < MaxAge THEN age + 1 ELSE age
      /\ UNCHANGED <<open, lines, io, call, outcome, budget, usable>>
  BY DEF Tick
<1>2. /\ deadline_ \in 0..MaxAge \cup {pos_infin} /\ age \in 0..MaxAge
      /\ budget \in 0..MaxAge /\ (deadline_ # pos_infin => deadline_ + age >= budget)
  BY DEF IInv, TypeOK, DeadlineCovers
<1>3. /\ deadline_' \in 0..MaxAge \cup {pos_infin} /\ age' \in 0..MaxAge
      /\ (deadline_' = pos_infin <=> deadline_ = pos_infin)
  BY <1>1, <1>2, Constants
<1>4. DeadlineCovers'
  <2>1. PICK left \in Int, spent \in Int : left = deadline_' /\ spent = age'
    BY <1>3, Constants
  <2>2. left # pos_infin => left + spent >= budget
    BY <1>1, <1>2, <1>3, <2>1, Constants
  <2> QED BY <1>1, <2>1, <2>2 DEF DeadlineCovers
<1>5. TypeOK'
  BY <1>1, <1>3 DEF IInv, TypeOK
<1>6. CallsAreGuarded'
  BY <1>1, <1>3 DEF IInv, CallsAreGuarded, InCall
<1>7. ReadHasLine' /\ StaysUseless'
  BY <1>1 DEF IInv, ReadHasLine, StaysUseless, InCall
<1> QED BY <1>4, <1>5, <1>6, <1>7 DEF IInv

LEMMA IInvPreserved == IInv /\ [Next]_vars => IInv'
<1> SUFFICES ASSUME IInv, [Next]_vars PROVE IInv'
  OBVIOUS
<1>1. CASE Call
  BY <1>1, CallIInv
<1>2. CASE RunOne
  BY <1>2, CompletedIInv, CheckDeadlineIInv DEF RunOne
<1>3. CASE Network
  BY <1>3, OperationIInv DEF Network
<1>4. CASE TimerExpires
  BY <1>4, TimerIInv
<1>5. CASE Tick
  BY <1>5, TickIInv
<1>6. CASE UNCHANGED vars
  BY <1>6 DEF vars, client, caller, IInv, TypeOK, CallsAreGuarded, DeadlineCovers,
              ReadHasLine, StaysUseless, InCall
<1> QED BY <1>1, <1>2, <1>3, <1>4, <1>5, <1>6 DEF Next

-----------------------------------------------------------------------------
\* The fields of a client keep their types, for any timeouts and any sequence of
\* calls: a call that reads takes only a line that is there out of the buffer.
THEOREM TypeCorrect == Spec => []TypeOK
<1>1. IInv => TypeOK
  BY DEF IInv
<1> QED BY <1>1, InitIInv, IInvPreserved, PTL DEF Spec

\* The operation of a call ends inside the call, the deadline actor always waits
\* or is ready, once, and a call waits for the peer only with a deadline armed on
\* an open socket.
THEOREM Guarded == Spec => []CallsAreGuarded
<1>1. IInv => CallsAreGuarded
  BY DEF IInv
<1> QED BY <1>1, InitIInv, IInvPreserved, PTL DEF Spec

\* What the two action properties say of one step.
Useless ==
  InCall /\ call' = "none" /\ outcome' = "returned" /\ ~usable
    => \/ call = "connect"
       \/ call = "read_line" /\ lines > 0

Due == open /\ ~open' /\ deadline_' = pos_infin => age >= budget

\* A call ends by Completed alone, and its result was ready when it ended.
LEMMA UselessStep == IInv /\ [Next]_vars => Useless
<1> SUFFICES ASSUME IInv, [Next]_vars, InCall, call' = "none", outcome' = "returned",
                    ~usable, call # "connect"
             PROVE  call = "read_line" /\ lines > 0
  BY DEF Useless
<1>1. \E ec \in Result : Completed(ec)
  BY DEF Next, Call, RunOne, Network, TimerExpires, Tick, Connect, ReadLine, WriteLine,
         Enter, ConnectUnresolved, CheckDeadline, OperationCompletes, InCall,
         vars, client, caller
<1>2. PICK ec \in Result : Completed(ec)
  BY <1>1
<1>3. ec = "ok" /\ Ready(io, "completed", "ok")
  BY <1>2 DEF Completed, Succeeds
<1> QED BY <1>3 DEF IInv, StaysUseless, ReadHasLine

\* A write_line() on a socket that is closed never succeeds, and a read_line()
\* only with a line that had arrived before.
THEOREM ClosedIsUseless == Spec => ClosedSocketIsUseless
<1>1. IInv /\ [Next]_vars => [Useless]_vars
  BY UselessStep
<1> HIDE DEF Useless
<1>2. Spec => [][Useless]_vars
  BY <1>1, InitIInv, IInvPreserved, PTL DEF Spec
<1> QED BY <1>2 DEF ClosedSocketIsUseless, Useless

\* The socket is closed by the deadline actor, by a connect that fails while its
\* deadline is armed, or by a call that arms its own.
LEMMA DueStep == IInv /\ [Next]_vars => Due
<1> SUFFICES ASSUME IInv, [Next]_vars, open, ~open', deadline_' = pos_infin
             PROVE  age >= budget
  BY DEF Due
<1>1. CASE Call
  <2>1. ASSUME NEW timeout \in Timeouts, Connect(timeout) PROVE FALSE
    <3>1. deadline_' = timeout
      BY <2>1 DEF Connect, Enter
    <3>2. timeout \in 0..MaxAge /\ pos_infin = -1
      BY ONLY Constants, timeout \in Timeouts
    <3> QED BY ONLY <3>1, <3>2, deadline_' = pos_infin
  <2> QED BY <1>1, <2>1 DEF Call, ReadLine, WriteLine, ConnectUnresolved, client
<1>2. ASSUME NEW ec \in Result, CheckDeadline(ec) PROVE age >= budget
  <2>1. deadline_ = 0
    BY <1>2 DEF CheckDeadline, Passed
  <2> QED BY <2>1, Constants DEF IInv, TypeOK, DeadlineCovers
<1>3. ASSUME NEW ec \in Result, OperationCompletes(ec) PROVE FALSE
  BY <1>3 DEF OperationCompletes, IInv, CallsAreGuarded
<1> QED BY <1>1, <1>2, <1>3 DEF Next, RunOne, Network, TimerExpires, Tick, Completed,
                                vars, client

\* The deadline actor never closes the socket of a call that has not had its
\* whole timeout, whatever deadline an earlier call has left armed.
THEOREM DeadlineIsOwn == Spec => NoEarlyTimeout
<1>1. IInv /\ [Next]_vars => [Due]_vars
  BY DueStep
<1> HIDE DEF Due
<1>2. Spec => [][Due]_vars
  BY <1>1, InitIInv, IInvPreserved, PTL DEF Spec
<1> QED BY <1>2 DEF NoEarlyTimeout, Due

-----------------------------------------------------------------------------
(* main(): every step of it is a step of the client or leaves it alone, so   *)
(* the invariant of the client holds of it as well.                          *)
LEMMA EchoStepsClient == [EchoNext]_allvars => [Next]_vars
<1>1. MainConnect \/ MainWrite \/ MainRead => Next
  BY EchoAssumption DEF MainConnect, MainWrite, MainRead, Next, Call
<1>2. Connected \/ Written \/ LineRead => UNCHANGED vars
  BY DEF Connected, Written, LineRead, vars
<1>3. Library => Next
  BY DEF Library, Next
<1>4. Terminated \/ UNCHANGED allvars => UNCHANGED vars
  BY DEF Terminated, allvars
<1> QED BY <1>1, <1>2, <1>3, <1>4 DEF EchoNext, MainStep

LEMMA SpecOfClient == EchoSpec => Init /\ [][Next]_vars
BY EchoStepsClient, PTL DEF EchoSpec, EchoInit

\* A socket that connect() has found open stays open until the next call.
Sends ==
  /\ main_at = "connecting" =>
       IF InCall THEN call = "connect" ELSE outcome # "threw" => open
  /\ main_at = "write" => ~InCall /\ open
  /\ WriteHasConnection

LEMMA SendsPreserved == Sends /\ [EchoNext]_allvars => Sends'
<1> SUFFICES ASSUME Sends, [EchoNext]_allvars PROVE Sends'
  OBVIOUS
<1> USE DEF Sends, WriteHasConnection, InCall
<1>1. CASE MainConnect
  BY <1>1 DEF MainConnect, Begins, Connect, Enter, ConnectUnresolved, client
<1>2. CASE Connected
  BY <1>2 DEF Connected, GoOn, vars, client, caller
<1>3. CASE MainWrite
  BY <1>3 DEF MainWrite, Begins, WriteLine, Enter
<1>4. CASE Written \/ LineRead
  BY <1>4 DEF Written, LineRead, GoOn, vars, client, caller
<1>5. CASE MainRead
  BY <1>5 DEF MainRead, Begins
<1>6. CASE Library
  <2>1. UNCHANGED main_at
    BY <1>6 DEF Library
  <2>2. ASSUME NEW ec \in Result, Completed(ec) PROVE Sends'
    BY <2>1, <2>2 DEF Completed, Succeeds
  <2>3. ASSUME NEW ec \in Result, CheckDeadline(ec) \/ OperationCompletes(ec) PROVE Sends'
    BY <2>1, <2>3 DEF CheckDeadline, OperationCompletes, caller
  <2>4. CASE TimerExpires \/ Tick
    BY <2>1, <2>4 DEF TimerExpires, Tick, caller
  <2> QED BY <1>6, <2>2, <2>3, <2>4 DEF Library, RunOne, Network
<1>7. CASE Terminated \/ UNCHANGED allvars
  BY <1>7 DEF Terminated, allvars, vars, client, caller
<1> QED BY <1>1, <1>2, <1>3, <1>4, <1>5, <1>6, <1>7 DEF EchoNext, MainStep

\* main() sends its message only on a connection, though the deadline of its
\* connect() stays armed and may have passed meanwhile.
THEOREM MessageHasConnection == EchoSpec => []WriteHasConnection
<1>1. EchoInit => Sends
  BY DEF EchoInit, Sends, WriteHasConnection
<1>2. Sends => WriteHasConnection
  BY DEF Sends
<1> QED BY <1>1, <1>2, SendsPreserved, PTL DEF EchoSpec

\* What is proved of a client holds in the program.
THEOREM EchoIsGuarded == EchoSpec => [](TypeOK /\ CallsAreGuarded)
<1>1. IInv => TypeOK /\ CallsAreGuarded
  BY DEF IInv
<1> QED BY <1>1, InitIInv, IInvPreserved, SpecOfClient, PTL
===============================================================================
