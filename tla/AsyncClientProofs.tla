--------------------------- MODULE AsyncClientProofs ---------------------------
(***************************************************************************)
(* Proofs about AsyncClient, for any endpoints, timeouts and lines: its    *)
(* safety, and that it implements what ClientLifecycle says of safety.     *)
(***************************************************************************)
EXTENDS AsyncClient, AsioProofs, TLAPS

(* What the properties need of one another. *)
CreatedIsIdle ==
  run = "created" =>
    /\ ~stopped_ /\ ~open /\ iter = 1
    /\ \A h \in Handler : Count(h) = 0

\* There is an endpoint to connect to, until the last has been given up.
EndpointLeft == Active => iter <= NumEndpoints

\* A read that succeeded has left its line in the buffer.
ReadHasLine == Active /\ Ready(io, "handle_read", "ok") => lines > 0

Timeout == IF Connected THEN ReadTimeout ELSE ConnectTimeout

\* The time left and the time spent are the timeout of the operation at least.
DeadlineCovers == Active /\ deadline_ # pos_infin => deadline_ + age >= Timeout

IInv ==
  /\ TypeOK /\ CreatedIsIdle /\ EndpointLeft /\ ReadHasLine /\ DeadlineCovers
  /\ OneStepPerActor /\ WaitsAreGuarded /\ StopIsFinal

\* The constants, and what the types give the arithmetic of the steps below.
LEMMA Constants ==
  /\ NumEndpoints \in Nat \ {0} /\ ConnectTimeout \in Nat \ {0}
  /\ ReadTimeout \in Nat \ {0} /\ HeartbeatInterval \in Nat \ {0}
  /\ MaxLines \in Nat \ {0} /\ MaxAge \in Nat
  /\ MaxAge >= ConnectTimeout /\ MaxAge >= ReadTimeout /\ pos_infin = -1
BY ClientAssumption DEF MaxAge, pos_infin

\* Every operation of a handler that is counted waits or is ready.
LEMMA Idle ==
  ASSUME NEW q \in Operations(Handler), NEW h \in Handler, Outstanding(q, h) = 0
  PROVE  \A s \in Status : q[h][s] = 0
BY OutstandingIsNat, \A s \in Status : q[h][s] \in Nat /\ q[h][s] <= 0

LEMMA InitIInv == Init => IInv
<1> SUFFICES ASSUME Init PROVE IInv
  OBVIOUS
<1> USE DEF Init
<1>1. /\ io \in Operations(Handler)
      /\ \A g \in Handler : Count(g) = 0
      /\ \A g \in Handler, s \in Status : io[g][s] = 0
  BY NothingOutstanding DEF Count
<1>2. TypeOK
  <2>1. stopped_ \in BOOLEAN /\ open \in BOOLEAN
    BY Zenon
  <2> QED BY <1>1, <2>1, Constants DEF TypeOK, Operations, pos_infin
<1>3. CreatedIsIdle /\ EndpointLeft /\ ReadHasLine /\ DeadlineCovers /\ OneStepPerActor
  BY <1>1 DEF CreatedIsIdle, EndpointLeft, ReadHasLine, DeadlineCovers,
              OneStepPerActor, Active
<1>4. WaitsAreGuarded /\ StopIsFinal
  BY <1>1 DEF WaitsAreGuarded, StopIsFinal, Waiting, Handler, SocketOps, Status
<1> QED BY <1>2, <1>3, <1>4 DEF IInv

-----------------------------------------------------------------------------
(* What the member functions do to the operations that are outstanding.     *)
LEMMA MovedKeeps ==
  ASSUME NEW q \in Operations(Handler)
  PROVE  /\ Moved(q) \in Operations(Handler)
         /\ \A g \in Handler :
              /\ Outstanding(Moved(q), g) = Outstanding(q, g)
              /\ Moved(q)[g]["ok"] = q[g]["ok"]
              /\ g # "check_deadline" => Moved(q)[g]["waiting"] = q[g]["waiting"]
BY CancelKeeps DEF Moved

LEMMA ReadUntilAdds ==
  ASSUME NEW q \in Operations(Handler), NEW buffered \in Int, open \in BOOLEAN
  PROVE  LET r == ReadUntil(q, buffered)
         IN  /\ r \in Operations(Handler)
             /\ \A g \in Handler :
                  /\ Outstanding(r, g) = Outstanding(q, g) + One(g = "handle_read")
                  /\ r[g]["ok"]
                       = q[g]["ok"] + One(g = "handle_read" /\ buffered > 0)
                  /\ r[g]["waiting"]
                       = q[g]["waiting"]
                         + One(g = "handle_read" /\ open /\ ~(buffered > 0))
<1>1. "handle_read" \in Handler /\ "ok" \in Result /\ "error" \in Result
  BY DEF Handler, SocketOps, Result
<1>2. \A g \in Handler : \A s \in Status : q[g][s] \in Nat
  BY DEF Operations
<1>3. "ok" \in Status /\ "waiting" \in Status
  BY DEF Status, Result
<1>4. CASE buffered > 0
  <2>1. ReadUntil(q, buffered) = Post(q, "handle_read", "ok")
    BY <1>4 DEF ReadUntil
  <2> QED BY <1>1, <1>2, <1>3, <1>4, <2>1, PostAdds, SMTT(30) DEF One
<1>5. CASE ~(buffered > 0) /\ open
  <2>1. ReadUntil(q, buffered) = Begin(q, "handle_read")
    BY <1>5 DEF ReadUntil
  <2> QED BY <1>1, <1>2, <1>3, <1>5, <2>1, BeginAdds, SMTT(30) DEF One
<1>6. CASE ~(buffered > 0) /\ ~open
  <2>1. ReadUntil(q, buffered) = Post(q, "handle_read", "error")
    BY <1>6 DEF ReadUntil
  <2> QED BY <1>1, <1>2, <1>3, <1>6, <2>1, PostAdds, SMTT(30) DEF One
<1> QED BY <1>4, <1>5, <1>6

LEMMA WriteAdds ==
  ASSUME NEW q \in Operations(Handler), open \in BOOLEAN
  PROVE  LET r == Write(q)
         IN  /\ r \in Operations(Handler)
             /\ \A g \in Handler :
                  /\ Outstanding(r, g) = Outstanding(q, g) + One(g = "handle_write")
                  /\ g # "handle_write" => r[g]["ok"] = q[g]["ok"]
                  /\ r[g]["waiting"] = q[g]["waiting"] + One(g = "handle_write" /\ open)
<1>1. "handle_write" \in Handler /\ "ok" \in Result /\ "error" \in Result
  BY DEF Handler, SocketOps, Result
<1>2. \A g \in Handler : \A s \in Status : q[g][s] \in Nat
  BY DEF Operations
<1>3. "ok" \in Status /\ "waiting" \in Status
  BY DEF Status, Result
<1>4. CASE open
  BY <1>1, <1>2, <1>3, <1>4, BeginAdds DEF Write, One
<1>5. CASE ~open
  BY <1>1, <1>2, <1>3, <1>5, PostAdds DEF Write, One
<1> QED BY <1>4, <1>5

LEMMA ConnectAdds ==
  ASSUME NEW q \in Operations(Handler), NEW opened \in BOOLEAN
  PROVE  LET r == IF opened THEN Begin(q, "handle_connect")
                            ELSE Post(q, "handle_connect", "error")
         IN  /\ r \in Operations(Handler)
             /\ \A g \in Handler :
                  /\ Outstanding(r, g) = Outstanding(q, g) + One(g = "handle_connect")
                  /\ r[g]["ok"] = q[g]["ok"]
                  /\ r[g]["waiting"]
                       = q[g]["waiting"] + One(g = "handle_connect" /\ opened)
<1>1. "handle_connect" \in Handler /\ "ok" \in Result /\ "error" \in Result
  BY DEF Handler, SocketOps, Result
<1>2. \A g \in Handler : \A s \in Status : q[g][s] \in Nat
  BY DEF Operations
<1>3. "ok" \in Status /\ "waiting" \in Status
  BY DEF Status, Result
<1>4. CASE opened
  BY <1>1, <1>2, <1>3, <1>4, BeginAdds DEF One
<1>5. CASE ~opened
  BY <1>1, <1>2, <1>3, <1>5, PostAdds DEF One
<1> QED BY <1>4, <1>5

\* The handler that runs was outstanding, so no other step of its actor is.
LEMMA Dispatched ==
  ASSUME IInv, NEW h \in Handler, NEW ec \in Result, Run(h, ec)
  PROVE  LET q == Dispatch(io, h, ec)
         IN  /\ q \in Operations(Handler) /\ Count(h) > 0
             /\ \A g \in Handler :
                  /\ Outstanding(q, g) \in Nat
                  /\ Outstanding(q, g) = Count(g) - One(g = h)
                  /\ q[g]["ok"] = io[g]["ok"] - One(g = h /\ ec = "ok")
                  /\ q[g]["waiting"] = io[g]["waiting"]
<1>1. io \in Operations(Handler)
  BY DEF IInv, TypeOK, Operations
<1>2. Ready(io, h, ec) /\ "ok" \in Result /\ ec \in Status
  BY DEF Run, Result, Status
<1>3. Count(h) > 0
  BY <1>1, <1>2, OutstandingIsNat DEF Ready, Count
<1>4. /\ Dispatch(io, h, ec) \in Operations(Handler)
      /\ \A g \in Handler :
           /\ Outstanding(Dispatch(io, h, ec), g) = Count(g) - One(g = h)
           /\ Dispatch(io, h, ec)[g]["ok"] = io[g]["ok"] - One(g = h /\ ec = "ok")
           /\ Dispatch(io, h, ec)[g]["waiting"] = io[g]["waiting"]
  <2>1. \A g \in Handler :
          Outstanding(Dispatch(io, h, ec), g) = Outstanding(io, g) - One(g = h)
    BY <1>1, <1>2, DispatchRemoves
  <2>2. \A g \in Handler :
          Dispatch(io, h, ec)[g]["ok"] = io[g]["ok"] - One(g = h /\ "ok" = ec)
    BY <1>1, <1>2, DispatchRemoves
  <2> QED BY <1>1, <1>2, <2>1, <2>2, DispatchRemoves DEF Count
<1> QED BY <1>3, <1>4, OutstandingIsNat

-----------------------------------------------------------------------------
(* Each step preserves the invariant. *)
LEMMA StopIInv ==
  ASSUME IInv, run = "running", NEW q \in Operations(Handler),
         iter' \in 1..(NumEndpoints + 1), Stop(q)
  PROVE  IInv'
<1> USE DEF Stop
<1>1. /\ io' \in Operations(Handler)
      /\ \A g \in Handler : io'[g]["waiting"] = 0
  BY CancelKeeps
<1>2. TypeOK'
  <2>1. stopped_' \in BOOLEAN /\ open' \in BOOLEAN
    BY Zenon
  <2> QED BY <1>1, <2>1 DEF IInv, TypeOK, Operations
<1>3. ~Active' /\ run' # "created"
  BY DEF Active
<1>4. /\ CreatedIsIdle' /\ EndpointLeft' /\ ReadHasLine' /\ DeadlineCovers'
      /\ OneStepPerActor'
  BY <1>3 DEF CreatedIsIdle, EndpointLeft, ReadHasLine, DeadlineCovers,
              OneStepPerActor
<1>5. \A g \in Handler : ~Waiting(io', g)
  BY <1>1 DEF Waiting
<1>6. WaitsAreGuarded' /\ StopIsFinal'
  BY <1>5 DEF WaitsAreGuarded, StopIsFinal, Waiting, Handler, SocketOps
<1> QED BY <1>2, <1>4, <1>6 DEF IInv

\* A step of an active client, from what it does to the operations.
LEMMA ActiveIInv ==
  ASSUME IInv, TypeOK', run' = "running", stopped_' = FALSE,
         iter' <= NumEndpoints,
         Outstanding(io', "check_deadline") = 1,
         Outstanding(io', "handle_connect") + Outstanding(io', "handle_read") = 1,
         Outstanding(io', "handle_write") + Outstanding(io', "start_write")
           = One(Outstanding(io', "handle_connect") = 0),
         \A g \in SocketOps : io'[g]["waiting"] > 0 => open',
         io'["handle_connect"]["waiting"] > 0 \/ io'["handle_read"]["waiting"] > 0
           => deadline_' # pos_infin,
         io'["handle_read"]["ok"] > 0 => lines' > 0,
         deadline_' # pos_infin =>
           deadline_' + age' >= IF Outstanding(io', "handle_connect") = 0
                                THEN ReadTimeout ELSE ConnectTimeout
  PROVE  IInv'
<1>1. Active' /\ (Connected' <=> Outstanding(io', "handle_connect") = 0)
  BY DEF Active, Connected, Count, Outstanding
<1>2. CreatedIsIdle' /\ EndpointLeft' /\ ReadHasLine' /\ StopIsFinal'
  BY DEF CreatedIsIdle, EndpointLeft, ReadHasLine, StopIsFinal, Ready
<1>3. OneStepPerActor'
  BY <1>1 DEF OneStepPerActor, Count, Outstanding, One
<1>4. DeadlineCovers'
  BY <1>1 DEF DeadlineCovers, Timeout
<1>5. WaitsAreGuarded'
  BY DEF WaitsAreGuarded, Waiting
<1> QED BY <1>2, <1>3, <1>4, <1>5 DEF IInv

\* The connect actor, with no other operation outstanding but the deadline's.
LEMMA StartConnectIInv ==
  ASSUME IInv, Active, NEW q \in Operations(Handler), NEW e \in 1..(NumEndpoints + 1),
         Outstanding(q, "check_deadline") = 1,
         \A g \in Handler \ {"check_deadline"} : Outstanding(q, g) = 0,
         StartConnect(q, e)
  PROVE  IInv'
<1>1. CASE e > NumEndpoints
  BY <1>1, StopIInv, Constants DEF StartConnect, Active
<1>2. CASE e <= NumEndpoints
  <2> DEFINE m == Moved(q)
  <2>1. /\ m \in Operations(Handler) /\ Outstanding(m, "check_deadline") = 1
        /\ \A g \in Handler \ {"check_deadline"} : Outstanding(m, g) = 0
    BY MovedKeeps DEF Handler
  <2> HIDE DEF m
  <2>2. \A g \in Handler \ {"check_deadline"} : m[g]["waiting"] = 0 /\ m[g]["ok"] = 0
    BY <2>1, Idle DEF Status, Result
  <2>3. /\ iter' = e /\ deadline_' = ConnectTimeout /\ age' = 0 /\ run' = run
        /\ stopped_' = stopped_ /\ lines' = lines /\ heartbeat_' = heartbeat_
        /\ open' \in Opens
        /\ io' = IF open' THEN Begin(m, "handle_connect")
                          ELSE Post(m, "handle_connect", "error")
    BY <1>2, Constants DEF StartConnect, SetDeadline, m
  <2>4. open' \in BOOLEAN
    BY <2>3, Zenon DEF Opens
  <2>5. /\ io' \in Operations(Handler)
        /\ \A g \in Handler :
             /\ Outstanding(io', g) = Outstanding(m, g) + One(g = "handle_connect")
             /\ io'[g]["ok"] = m[g]["ok"]
             /\ io'[g]["waiting"] = m[g]["waiting"] + One(g = "handle_connect" /\ open')
    BY <2>1, <2>3, <2>4, ConnectAdds
  <2>6. TypeOK'
    BY <2>3, <2>4, <2>5, <1>2, Constants DEF IInv, TypeOK, Operations
  <2>7. \A g \in SocketOps : io'[g]["waiting"] > 0 => open'
    BY <2>2, <2>5 DEF Handler, SocketOps, One
  <2>8. io'["handle_read"]["ok"] = 0
    BY <2>2, <2>5 DEF Handler, SocketOps
  <2>9. /\ Outstanding(io', "check_deadline") = 1
        /\ Outstanding(io', "handle_connect") = 1
        /\ Outstanding(io', "handle_read") = 0
        /\ Outstanding(io', "handle_write") + Outstanding(io', "start_write") = 0
    BY <2>1, <2>5 DEF Handler, SocketOps, One
  <2>10. /\ run' = "running" /\ stopped_' = FALSE /\ iter' <= NumEndpoints
         /\ deadline_' # pos_infin
         /\ deadline_' + age' >= ConnectTimeout
    BY <1>2, <2>3, Constants DEF Active, IInv, TypeOK
  <2>11. /\ Outstanding(io', "handle_connect") + Outstanding(io', "handle_read") = 1
         /\ Outstanding(io', "handle_write") + Outstanding(io', "start_write")
              = One(Outstanding(io', "handle_connect") = 0)
    BY <2>9 DEF One
  <2>12. /\ io'["handle_read"]["ok"] > 0 => lines' > 0
         /\ io'["handle_connect"]["waiting"] > 0 \/ io'["handle_read"]["waiting"] > 0
              => deadline_' # pos_infin
         /\ deadline_' # pos_infin =>
              deadline_' + age' >= IF Outstanding(io', "handle_connect") = 0
                                   THEN ReadTimeout ELSE ConnectTimeout
    BY <2>8, <2>9, <2>10
  <2> QED BY <2>6, <2>7, <2>9, <2>10, <2>11, <2>12, ActiveIInv
<1> QED BY <1>1, <1>2, Constants

\* What the invariant says of an active client, in the terms of the steps.
LEMMA WhileActive ==
  ASSUME IInv, Active
  PROVE  /\ run = "running" /\ stopped_ = FALSE /\ open \in BOOLEAN
         /\ iter \in 1..NumEndpoints /\ lines \in 0..MaxLines /\ age \in 0..MaxAge
         /\ deadline_ \in 0..MaxAge \cup {pos_infin}
         /\ io \in Operations(Handler)
         /\ \A g \in Handler : Count(g) \in Nat
         /\ Count("check_deadline") = 1
         /\ Count("handle_connect") + Count("handle_read") = 1
         /\ Count("handle_write") + Count("start_write")
              = One(Count("handle_connect") = 0)
         /\ \A g \in SocketOps : io[g]["waiting"] > 0 => open
         /\ io["handle_connect"]["waiting"] > 0 \/ io["handle_read"]["waiting"] > 0
              => deadline_ # pos_infin
         /\ io["handle_read"]["ok"] > 0 => lines > 0
         /\ deadline_ # pos_infin =>
              deadline_ + age >= IF Count("handle_connect") = 0
                                 THEN ReadTimeout ELSE ConnectTimeout
<1>1. TypeOK /\ OneStepPerActor /\ WaitsAreGuarded /\ ReadHasLine /\ DeadlineCovers
      /\ EndpointLeft
  BY DEF IInv
<1>2. io \in Operations(Handler) /\ \A g \in Handler : Count(g) \in Nat
  BY <1>1, OutstandingIsNat DEF TypeOK, Operations, Count
<1>3. /\ run = "running" /\ stopped_ = FALSE /\ open \in BOOLEAN
      /\ iter \in 1..NumEndpoints /\ lines \in 0..MaxLines /\ age \in 0..MaxAge
      /\ deadline_ \in 0..MaxAge \cup {pos_infin}
  BY <1>1, Constants DEF TypeOK, Active, EndpointLeft
<1>4. /\ Count("check_deadline") = 1
      /\ Count("handle_connect") + Count("handle_read") = 1
      /\ Count("handle_write") + Count("start_write")
           = One(Count("handle_connect") = 0)
  BY <1>1 DEF OneStepPerActor, Connected, One
<1>5. /\ \A g \in SocketOps : io[g]["waiting"] > 0 => open
      /\ io["handle_connect"]["waiting"] > 0 \/ io["handle_read"]["waiting"] > 0
           => deadline_ # pos_infin
      /\ io["handle_read"]["ok"] > 0 => lines > 0
      /\ deadline_ # pos_infin =>
           deadline_ + age >= IF Count("handle_connect") = 0
                              THEN ReadTimeout ELSE ConnectTimeout
  BY <1>1 DEF WaitsAreGuarded, Waiting, ReadHasLine, Ready, DeadlineCovers, Timeout,
              Connected
<1> QED BY <1>2, <1>3, <1>4, <1>5

\* Which actors have a step outstanding, before and after the connection is made.
LEMMA FiveHandlers ==
  Handler = {"handle_connect", "handle_read", "handle_write", "start_write",
             "check_deadline"}
BY DEF Handler, SocketOps

LEMMA WhileConnecting ==
  ASSUME IInv, Active, Count("handle_connect") > 0
  PROVE  /\ Count("handle_connect") = 1 /\ Count("handle_read") = 0
         /\ Count("handle_write") = 0 /\ Count("start_write") = 0
<1>1. /\ Count("handle_connect") \in Nat /\ Count("handle_read") \in Nat
      /\ Count("handle_write") \in Nat /\ Count("start_write") \in Nat
  BY WhileActive, FiveHandlers
<1>2. Count("handle_connect") + Count("handle_read") = 1
  BY WhileActive
<1>3. Count("handle_write") + Count("start_write") = 0
  BY <1>1, WhileActive DEF One
<1> QED BY <1>1, <1>2, <1>3

LEMMA WhileConnected ==
  ASSUME IInv, Active, Count("handle_connect") = 0
  PROVE  /\ Count("handle_read") = 1
         /\ Count("handle_write") + Count("start_write") = 1
<1>1. Count("handle_read") \in Nat
  BY WhileActive, FiveHandlers
<1>2. Count("handle_connect") + Count("handle_read") = 1
  BY WhileActive
<1> QED BY <1>1, <1>2, WhileActive DEF One

LEMMA HandleConnectIInv ==
  ASSUME IInv, NEW ec \in Result, HandleConnect(ec)
  PROVE  IInv'
<1> DEFINE q == Dispatch(io, "handle_connect", ec)
<1>1. Active /\ Run("handle_connect", ec) /\ "handle_connect" \in Handler
  BY DEF HandleConnect, Act, Active, Run, Handler, SocketOps
<1>2. /\ q \in Operations(Handler) /\ Outstanding(q, "check_deadline") = 1
      /\ \A g \in Handler \ {"check_deadline"} : Outstanding(q, g) = 0
  <2>1. /\ q \in Operations(Handler) /\ Count("handle_connect") > 0
        /\ \A g \in Handler :
             /\ Outstanding(q, g) \in Nat
             /\ Outstanding(q, g) = Count(g) - One(g = "handle_connect")
    BY <1>1, Dispatched
  <2>2. /\ Count("check_deadline") = 1 /\ Count("handle_connect") = 1
        /\ Count("handle_read") = 0 /\ Count("handle_write") = 0
        /\ Count("start_write") = 0
    BY <1>1, <2>1, WhileActive, WhileConnecting
  <2> HIDE DEF q
  <2>3. /\ Outstanding(q, "check_deadline") = 1
        /\ Outstanding(q, "handle_connect") = 0
        /\ Outstanding(q, "handle_read") = 0 /\ Outstanding(q, "handle_write") = 0
        /\ Outstanding(q, "start_write") = 0
    BY <2>1, <2>2, FiveHandlers DEF One
  <2> QED BY <2>1, <2>3, FiveHandlers
<1> HIDE DEF q
<1>3. iter + 1 \in 1..(NumEndpoints + 1)
  BY <1>1, WhileActive, Constants
<1>4. CASE ~open /\ TryNext(q)
  BY <1>1, <1>2, <1>3, <1>4, StartConnectIInv DEF TryNext
<1>5. CASE open /\ ec = "error" /\ TryNext(Cancel(q, SocketOps))
  <2> DEFINE c == Cancel(q, SocketOps)
  <2>1. /\ c \in Operations(Handler)
        /\ \A g \in Handler : Outstanding(c, g) = Outstanding(q, g)
    BY <1>2, CancelKeeps
  <2>2. /\ Outstanding(c, "check_deadline") = 1
        /\ \A g \in Handler \ {"check_deadline"} : Outstanding(c, g) = 0
    BY <1>2, <2>1 DEF Handler
  <2>3. StartConnect(c, iter + 1)
    BY <1>5 DEF TryNext
  <2> HIDE DEF c
  <2> QED BY <1>1, <1>3, <2>1, <2>2, <2>3, StartConnectIInv
<1>6. CASE /\ open /\ ec = "ok"
           /\ SetDeadline(ReadTimeout)
           /\ io' = Write(ReadUntil(Moved(q), lines))
           /\ UNCHANGED <<stopped_, open, iter, lines, heartbeat_>>
  <2> DEFINE m == Moved(q)
             r == ReadUntil(m, lines)
  <2>1. /\ m \in Operations(Handler) /\ Outstanding(m, "check_deadline") = 1
        /\ \A g \in Handler \ {"check_deadline"} : Outstanding(m, g) = 0
    BY <1>2, MovedKeeps DEF Handler
  <2> HIDE DEF m
  <2>2. \A g \in Handler \ {"check_deadline"} : m[g]["waiting"] = 0 /\ m[g]["ok"] = 0
    BY <2>1, Idle DEF Status, Result
  <2>3. open \in BOOLEAN /\ lines \in 0..MaxLines /\ lines \in Int
    BY <1>1, WhileActive
  <2>4. /\ r \in Operations(Handler)
        /\ \A g \in Handler :
             /\ Outstanding(r, g) = Outstanding(m, g) + One(g = "handle_read")
             /\ r[g]["ok"] = m[g]["ok"] + One(g = "handle_read" /\ lines > 0)
    BY <2>1, <2>3, ReadUntilAdds
  <2> HIDE DEF r
  <2>5. /\ io' \in Operations(Handler)
        /\ \A g \in Handler :
             /\ Outstanding(io', g) = Outstanding(r, g) + One(g = "handle_write")
             /\ g # "handle_write" => io'[g]["ok"] = r[g]["ok"]
    BY <1>6, <2>3, <2>4, WriteAdds DEF r, m
  <2>6. /\ Outstanding(io', "check_deadline") = 1
        /\ Outstanding(io', "handle_connect") = 0
        /\ Outstanding(io', "handle_read") = 1
        /\ Outstanding(io', "handle_write") = 1
        /\ Outstanding(io', "start_write") = 0
    BY <2>1, <2>4, <2>5 DEF Handler, SocketOps, One
  <2>7. /\ Outstanding(io', "handle_connect") + Outstanding(io', "handle_read") = 1
        /\ Outstanding(io', "handle_write") + Outstanding(io', "start_write")
             = One(Outstanding(io', "handle_connect") = 0)
    BY <2>6 DEF One
  <2>8. io'["handle_read"]["ok"] > 0 => lines' > 0
    BY <1>6, <2>2, <2>3, <2>4, <2>5 DEF Handler, SocketOps, One
  <2>9. TypeOK'
    BY <1>6, <2>5, Constants DEF IInv, TypeOK, SetDeadline, Operations
  <2>10. /\ run' = "running" /\ stopped_' = FALSE /\ iter' <= NumEndpoints /\ open'
         /\ deadline_' # pos_infin /\ deadline_' + age' >= ReadTimeout
    BY <1>1, <1>6, WhileActive, Constants DEF SetDeadline
  <2>11. deadline_' + age' >= IF Outstanding(io', "handle_connect") = 0
                              THEN ReadTimeout ELSE ConnectTimeout
    BY <2>6, <2>10
  <2> QED BY <2>6, <2>7, <2>8, <2>9, <2>10, <2>11, ActiveIInv
<1> QED BY <1>4, <1>5, <1>6 DEF HandleConnect, q

LEMMA HandleReadIInv ==
  ASSUME IInv, NEW ec \in Result, HandleRead(ec)
  PROVE  IInv'
<1> DEFINE q == Dispatch(io, "handle_read", ec)
<1>1. Active /\ Run("handle_read", ec) /\ "handle_read" \in Handler
  BY DEF HandleRead, Act, Active, Run, Handler, SocketOps
<1>2. /\ q \in Operations(Handler) /\ Count("handle_read") > 0
      /\ \A g \in Handler :
           /\ Outstanding(q, g) = Count(g) - One(g = "handle_read")
           /\ q[g]["ok"] = io[g]["ok"] - One(g = "handle_read" /\ ec = "ok")
           /\ q[g]["waiting"] = io[g]["waiting"]
  BY <1>1, Dispatched
<1> HIDE DEF q
<1>3. CASE ec = "error" /\ Stop(q) /\ UNCHANGED iter
  BY <1>1, <1>2, <1>3, StopIInv, WhileActive, Constants DEF IInv, TypeOK
<1>4. CASE /\ ec = "ok" /\ lines' = lines - 1
           /\ SetDeadline(ReadTimeout)
           /\ io' = ReadUntil(Moved(q), lines')
           /\ UNCHANGED <<stopped_, open, iter, heartbeat_>>
  <2> DEFINE m == Moved(q)
  <2>1. /\ m \in Operations(Handler)
        /\ \A g \in Handler :
             /\ Outstanding(m, g) = Outstanding(q, g)
             /\ m[g]["ok"] = q[g]["ok"]
             /\ g # "check_deadline" => m[g]["waiting"] = q[g]["waiting"]
    BY <1>2, MovedKeeps
  <2> HIDE DEF m
  <2>2. lines > 0 /\ lines \in 0..MaxLines /\ lines' \in 0..MaxLines /\ lines' \in Int
    <3>1. io["handle_read"]["ok"] > 0
      BY <1>1, <1>4 DEF Run, Ready
    <3>2. lines > 0 /\ lines \in 0..MaxLines
      BY <1>1, <3>1, WhileActive
    <3> QED BY <1>4, <3>2, Constants
  <2>3. open \in BOOLEAN
    BY <1>1, WhileActive
  <2>4. /\ io' \in Operations(Handler)
        /\ \A g \in Handler :
             /\ Outstanding(io', g) = Outstanding(m, g) + One(g = "handle_read")
             /\ io'[g]["ok"] = m[g]["ok"] + One(g = "handle_read" /\ lines' > 0)
             /\ io'[g]["waiting"]
                  = m[g]["waiting"] + One(g = "handle_read" /\ open /\ ~(lines' > 0))
    BY <1>4, <2>1, <2>2, <2>3, ReadUntilAdds DEF m
  <2>5. Count("handle_read") = 1 /\ Count("handle_connect") = 0
    BY <1>1, <1>2, WhileActive, FiveHandlers
  <2>6. \A g \in Handler : Outstanding(io', g) = Count(g)
    <3>1. \A g \in Handler : Count(g) \in Nat
      BY <1>1, WhileActive
    <3> QED BY <1>2, <2>1, <2>4, <3>1 DEF One
  <2>7. \A g \in SocketOps : io'[g]["waiting"] > 0 => open'
    <3>1. \A g \in SocketOps : io[g]["waiting"] > 0 => open
      BY <1>1, WhileActive
    <3>2. \A g \in SocketOps : g \in Handler /\ g # "check_deadline"
      BY DEF SocketOps, Handler
    <3>3. \A g \in SocketOps : io[g]["waiting"] \in Nat
      BY <1>1, <3>2, WhileActive, OutstandingIsNat DEF Status
    <3> QED BY <1>2, <1>4, <2>1, <2>4, <3>1, <3>2, <3>3 DEF One
  <2>8. io'["handle_read"]["ok"] > 0 => lines' > 0
    <3>1. /\ io["handle_read"]["ok"] \in Nat
          /\ io["handle_read"]["ok"] <= Count("handle_read")
      BY <1>1, WhileActive, OutstandingIsNat DEF Status, Result, Count
    <3>2. m["handle_read"]["ok"] = 0
      BY <1>1, <1>2, <1>4, <2>1, <2>5, <3>1 DEF One, Run, Ready
    <3> QED BY <1>1, <2>4, <3>2 DEF One
  <2>9. TypeOK'
    BY <1>4, <2>2, <2>4, Constants DEF IInv, TypeOK, SetDeadline, Operations
  <2>10. /\ run' = "running" /\ stopped_' = FALSE /\ iter' <= NumEndpoints
         /\ deadline_' # pos_infin /\ deadline_' + age' >= ReadTimeout
    BY <1>1, <1>4, WhileActive, Constants DEF SetDeadline
  <2>11. /\ Outstanding(io', "check_deadline") = 1
         /\ Outstanding(io', "handle_connect") + Outstanding(io', "handle_read") = 1
         /\ Outstanding(io', "handle_write") + Outstanding(io', "start_write")
              = One(Outstanding(io', "handle_connect") = 0)
    BY <1>1, <2>6, WhileActive, FiveHandlers
  <2>12. deadline_' + age' >= IF Outstanding(io', "handle_connect") = 0
                              THEN ReadTimeout ELSE ConnectTimeout
    BY <2>5, <2>6, <2>10, FiveHandlers
  <2> QED BY <2>7, <2>8, <2>9, <2>10, <2>11, <2>12, ActiveIInv
<1> QED BY <1>3, <1>4 DEF HandleRead, q

\* A step of the heartbeat actor, which leaves the other three alone.
LEMMA HeartbeatIInv ==
  ASSUME IInv, Active, heartbeat_' \in 0..HeartbeatInterval,
         UNCHANGED <<stopped_, open, iter, lines, deadline_, run, age>>,
         io' \in Operations(Handler),
         \A g \in {"check_deadline", "handle_connect", "handle_read"} :
           /\ Outstanding(io', g) = Count(g)
           /\ io'[g]["ok"] = io[g]["ok"]
           /\ io'[g]["waiting"] = io[g]["waiting"],
         Outstanding(io', "handle_write") + Outstanding(io', "start_write")
           = Count("handle_write") + Count("start_write"),
         io'["handle_write"]["waiting"] > 0 => open
  PROVE  IInv'
<1>1. TypeOK'
  BY DEF IInv, TypeOK, Operations
<1>2. \A g \in SocketOps : io'[g]["waiting"] > 0 => open'
  BY WhileActive DEF SocketOps
<1>3. /\ run' = "running" /\ stopped_' = FALSE /\ iter' <= NumEndpoints
      /\ io'["handle_read"]["ok"] > 0 => lines' > 0
      /\ io'["handle_connect"]["waiting"] > 0 \/ io'["handle_read"]["waiting"] > 0
           => deadline_' # pos_infin
  BY WhileActive, Constants
<1>4. /\ Outstanding(io', "check_deadline") = 1
      /\ Outstanding(io', "handle_connect") + Outstanding(io', "handle_read") = 1
      /\ Outstanding(io', "handle_write") + Outstanding(io', "start_write")
           = One(Outstanding(io', "handle_connect") = 0)
  BY WhileActive
<1>5. deadline_' # pos_infin =>
        deadline_' + age' >= IF Outstanding(io', "handle_connect") = 0
                             THEN ReadTimeout ELSE ConnectTimeout
  BY WhileActive
<1> QED BY <1>1, <1>2, <1>3, <1>4, <1>5, ActiveIInv

LEMMA StartWriteIInv ==
  ASSUME IInv, NEW ec \in Result, StartWrite(ec)
  PROVE  IInv'
<1> DEFINE q == Dispatch(io, "start_write", ec)
<1>1. Active /\ Run("start_write", ec) /\ "start_write" \in Handler
  BY DEF StartWrite, Act, Active, Run, Handler
<1>2. /\ q \in Operations(Handler) /\ Count("start_write") > 0
      /\ \A g \in Handler :
           /\ Outstanding(q, g) = Count(g) - One(g = "start_write")
           /\ q[g]["ok"] = io[g]["ok"] - One(g = "start_write" /\ ec = "ok")
           /\ q[g]["waiting"] = io[g]["waiting"]
  BY <1>1, Dispatched
<1>3. io' = Write(q) /\ UNCHANGED <<client, run, age>>
  BY DEF StartWrite
<1> HIDE DEF q
<1>4. open \in BOOLEAN /\ \A g \in Handler : Count(g) \in Nat
  BY <1>1, WhileActive
<1>5. /\ io' \in Operations(Handler)
      /\ \A g \in Handler :
           /\ Outstanding(io', g) = Outstanding(q, g) + One(g = "handle_write")
           /\ g # "handle_write" => io'[g]["ok"] = q[g]["ok"]
           /\ io'[g]["waiting"] = q[g]["waiting"] + One(g = "handle_write" /\ open)
  BY <1>2, <1>3, <1>4, WriteAdds
<1>6. \A g \in Handler : \A s \in {"ok", "waiting"} : io[g][s] \in Nat
  BY <1>1, WhileActive, OutstandingIsNat DEF Status, Result
<1>7. \A g \in {"check_deadline", "handle_connect", "handle_read"} :
        /\ Outstanding(io', g) = Count(g)
        /\ io'[g]["ok"] = io[g]["ok"]
        /\ io'[g]["waiting"] = io[g]["waiting"]
  BY <1>2, <1>4, <1>5, <1>6, FiveHandlers DEF One
<1>8. Outstanding(io', "handle_write") + Outstanding(io', "start_write")
        = Count("handle_write") + Count("start_write")
  BY <1>2, <1>4, <1>5, FiveHandlers DEF One
<1>9. io'["handle_write"]["waiting"] > 0 => open
  <2>1. io["handle_write"]["waiting"] > 0 => open
    BY <1>1, WhileActive DEF SocketOps
  <2> QED BY <1>2, <1>5, <1>6, <2>1, FiveHandlers DEF One
<1>10. heartbeat_' \in 0..HeartbeatInterval
  BY <1>3 DEF IInv, TypeOK, client
<1> QED BY <1>1, <1>3, <1>5, <1>7, <1>8, <1>9, <1>10, HeartbeatIInv DEF client

LEMMA HandleWriteIInv ==
  ASSUME IInv, NEW ec \in Result, HandleWrite(ec)
  PROVE  IInv'
<1> DEFINE q == Dispatch(io, "handle_write", ec)
<1>1. Active /\ Run("handle_write", ec) /\ "handle_write" \in Handler
  BY DEF HandleWrite, Act, Active, Run, Handler, SocketOps
<1>2. /\ q \in Operations(Handler) /\ Count("handle_write") > 0
      /\ \A g \in Handler :
           /\ Outstanding(q, g) = Count(g) - One(g = "handle_write")
           /\ q[g]["ok"] = io[g]["ok"] - One(g = "handle_write" /\ ec = "ok")
           /\ q[g]["waiting"] = io[g]["waiting"]
  BY <1>1, Dispatched
<1> HIDE DEF q
<1>3. CASE ec = "error" /\ Stop(q) /\ UNCHANGED iter
  BY <1>1, <1>2, <1>3, StopIInv, WhileActive, Constants DEF IInv, TypeOK
<1>4. CASE /\ ec = "ok" /\ heartbeat_' = HeartbeatInterval
           /\ io' = Begin(Cancel(q, {"start_write"}), "start_write")
           /\ UNCHANGED <<stopped_, open, iter, lines, deadline_, run, age>>
  <2> DEFINE c == Cancel(q, {"start_write"})
  <2>1. /\ c \in Operations(Handler)
        /\ \A g \in Handler :
             /\ Outstanding(c, g) = Outstanding(q, g)
             /\ c[g]["ok"] = q[g]["ok"]
             /\ g # "start_write" => c[g]["waiting"] = q[g]["waiting"]
    BY <1>2, CancelKeeps
  <2> HIDE DEF c
  <2>2. /\ io' \in Operations(Handler)
        /\ \A g \in Handler :
             /\ Outstanding(io', g) = Outstanding(c, g) + One(g = "start_write")
             /\ io'[g]["ok"] = c[g]["ok"]
             /\ io'[g]["waiting"] = c[g]["waiting"] + One(g = "start_write")
    <3>1. "start_write" \in Handler /\ "ok" \in Result
      BY DEF Handler, Result
    <3>2. io' = Begin(c, "start_write")
      BY <1>4 DEF c
    <3> QED BY <2>1, <3>1, <3>2, BeginAdds
  <2>3. /\ \A g \in Handler : Count(g) \in Nat
        /\ \A g \in Handler : \A s \in {"ok", "waiting"} : io[g][s] \in Nat
    BY <1>1, WhileActive, OutstandingIsNat DEF Status, Result
  <2>4. \A g \in {"check_deadline", "handle_connect", "handle_read"} :
          /\ Outstanding(io', g) = Count(g)
          /\ io'[g]["ok"] = io[g]["ok"]
          /\ io'[g]["waiting"] = io[g]["waiting"]
    BY <1>2, <2>1, <2>2, <2>3, FiveHandlers DEF One
  <2>5. Outstanding(io', "handle_write") + Outstanding(io', "start_write")
          = Count("handle_write") + Count("start_write")
    BY <1>2, <2>1, <2>2, <2>3, FiveHandlers DEF One
  <2>6. io'["handle_write"]["waiting"] > 0 => open
    <3>1. io["handle_write"]["waiting"] > 0 => open
      BY <1>1, WhileActive DEF SocketOps
    <3> QED BY <1>2, <2>1, <2>2, <2>3, <3>1, FiveHandlers DEF One
  <2> QED BY <1>1, <1>4, <2>2, <2>4, <2>5, <2>6, HeartbeatIInv, Constants
<1> QED BY <1>3, <1>4 DEF HandleWrite, q

\* The deadline actor disarms itself when it closes the socket, and leaves no
\* operation waiting on it.
LEMMA CheckDeadlineIInv ==
  ASSUME IInv, NEW ec \in Result, CheckDeadline(ec)
  PROVE  IInv'
<1> DEFINE q == Dispatch(io, "check_deadline", ec)
<1>1. Active /\ Run("check_deadline", ec) /\ "check_deadline" \in Handler
  BY DEF CheckDeadline, Act, Active, Run, Handler
<1>2. /\ q \in Operations(Handler)
      /\ \A g \in Handler :
           /\ Outstanding(q, g) = Count(g) - One(g = "check_deadline")
           /\ q[g]["ok"] = io[g]["ok"] - One(g = "check_deadline" /\ ec = "ok")
           /\ q[g]["waiting"] = io[g]["waiting"]
  BY <1>1, Dispatched
<1>3. UNCHANGED <<stopped_, iter, lines, heartbeat_, run, age>>
  BY DEF CheckDeadline
<1> HIDE DEF q
<1>4. PICK c \in Operations(Handler) :
        /\ io' = BackToSleep(c)
        /\ \A g \in Handler :
             Outstanding(c, g) = Outstanding(q, g) /\ c[g]["ok"] = q[g]["ok"]
        /\ \/ /\ open' = FALSE /\ deadline_' = pos_infin
              /\ \A g \in SocketOps : c[g]["waiting"] = 0
           \/ /\ UNCHANGED <<open, deadline_>>
              /\ \A g \in Handler : c[g]["waiting"] = q[g]["waiting"]
  <2>1. CASE /\ open' = FALSE /\ deadline_' = pos_infin
             /\ io' = BackToSleep(Cancel(q, SocketOps \cup {"check_deadline"}))
    <3> DEFINE d == Cancel(q, SocketOps \cup {"check_deadline"})
    <3>1. /\ d \in Operations(Handler)
          /\ \A g \in Handler :
               Outstanding(d, g) = Outstanding(q, g) /\ d[g]["ok"] = q[g]["ok"]
          /\ \A g \in SocketOps : d[g]["waiting"] = 0
      BY <1>2, CancelKeeps DEF Handler
    <3> HIDE DEF d
    <3> QED BY <2>1, <3>1 DEF d
  <2>2. CASE io' = BackToSleep(q) /\ UNCHANGED <<open, deadline_>>
    BY <1>2, <2>2
  <2> QED BY <2>1, <2>2 DEF CheckDeadline, q
<1>5. /\ io' \in Operations(Handler)
      /\ \A g \in Handler :
           /\ Outstanding(io', g) = Outstanding(c, g) + One(g = "check_deadline")
           /\ io'[g]["ok"] = c[g]["ok"]
           /\ io'[g]["waiting"] = c[g]["waiting"] + One(g = "check_deadline")
  <2>1. "ok" \in Result
    BY DEF Result
  <2> QED BY <1>1, <1>4, <2>1, BeginAdds DEF BackToSleep
<1>6. \A g \in Handler : Outstanding(io', g) = Count(g)
  <2>1. \A g \in Handler : Count(g) \in Nat
    BY <1>1, WhileActive
  <2> QED BY <1>2, <1>4, <1>5, <2>1 DEF One
<1>7. TypeOK'
  <2>1. open' \in BOOLEAN /\ deadline_' \in 0..MaxAge \cup {pos_infin}
    BY <1>1, <1>4, WhileActive
  <2> QED BY <1>3, <1>5, <2>1 DEF IInv, TypeOK, Operations
<1>8. \A g \in SocketOps : io'[g]["waiting"] = c[g]["waiting"]
  <2>1. \A g \in SocketOps : g \in Handler /\ g # "check_deadline"
    BY DEF SocketOps, Handler
  <2>2. \A g \in SocketOps : c[g]["waiting"] \in Nat
    BY <2>1 DEF Operations, Status
  <2> QED BY <1>5, <2>1, <2>2 DEF One
<1>9. /\ \A g \in SocketOps : io'[g]["waiting"] > 0 => open'
      /\ io'["handle_connect"]["waiting"] > 0 \/ io'["handle_read"]["waiting"] > 0
           => deadline_' # pos_infin
  <2>1. /\ \A g \in SocketOps : io[g]["waiting"] > 0 => open
        /\ io["handle_connect"]["waiting"] > 0 \/ io["handle_read"]["waiting"] > 0
             => deadline_ # pos_infin
    BY <1>1, WhileActive
  <2>2. {"handle_connect", "handle_read"} \subseteq SocketOps /\ SocketOps \subseteq Handler
    BY DEF SocketOps, Handler
  <2> QED BY <1>2, <1>4, <1>8, <2>1, <2>2
<1>10. io'["handle_read"]["ok"] > 0 => lines' > 0
  <2>1. io["handle_read"]["ok"] \in Nat
    BY <1>1, WhileActive, FiveHandlers DEF Operations, Status, Result
  <2>2. io'["handle_read"]["ok"] = io["handle_read"]["ok"]
    BY <1>2, <1>4, <1>5, <2>1, FiveHandlers DEF One
  <2> QED BY <1>1, <1>3, <2>2, WhileActive
<1>11. /\ run' = "running" /\ stopped_' = FALSE /\ iter' <= NumEndpoints
       /\ Outstanding(io', "check_deadline") = 1
       /\ Outstanding(io', "handle_connect") + Outstanding(io', "handle_read") = 1
       /\ Outstanding(io', "handle_write") + Outstanding(io', "start_write")
            = One(Outstanding(io', "handle_connect") = 0)
  BY <1>1, <1>3, <1>6, WhileActive, FiveHandlers, Constants
<1>12. deadline_' # pos_infin =>
         deadline_' + age' >= IF Outstanding(io', "handle_connect") = 0
                              THEN ReadTimeout ELSE ConnectTimeout
  BY <1>1, <1>3, <1>4, <1>6, WhileActive, FiveHandlers
<1> QED BY <1>7, <1>9, <1>10, <1>11, <1>12, ActiveIInv

\* A step that leaves the client inactive, and starts no operation.
LEMMA InactiveIInv ==
  ASSUME IInv, run # "created", run' # "created", ~(run' = "running" /\ ~stopped_'),
         io' \in Operations(Handler),
         \A g \in Handler : io'[g]["waiting"] = io[g]["waiting"],
         UNCHANGED <<stopped_, open, iter, lines>>,
         deadline_' \in 0..MaxAge \cup {pos_infin},
         deadline_' = pos_infin <=> deadline_ = pos_infin,
         heartbeat_' \in 0..HeartbeatInterval, age' \in 0..MaxAge,
         run' \in {"running", "returned", "failed"}
  PROVE  IInv'
<1>1. TypeOK'
  BY DEF IInv, TypeOK, Operations
<1>2. ~Active'
  BY DEF Active
<1>3. /\ CreatedIsIdle' /\ EndpointLeft' /\ ReadHasLine' /\ DeadlineCovers'
      /\ OneStepPerActor'
  BY <1>2 DEF CreatedIsIdle, EndpointLeft, ReadHasLine, DeadlineCovers,
              OneStepPerActor
<1>4. WaitsAreGuarded' /\ StopIsFinal'
  BY DEF IInv, WaitsAreGuarded, StopIsFinal, Waiting, Handler, SocketOps
<1> QED BY <1>1, <1>3, <1>4 DEF IInv

LEMMA IgnoreIInv ==
  ASSUME IInv, NEW h \in Handler, NEW ec \in Result, IgnoreWhenStopped(h, ec)
  PROVE  IInv'
<1>1. stopped_ /\ run = "running" /\ Run(h, ec) /\ io' = Dispatch(io, h, ec)
      /\ UNCHANGED <<client, run, age>>
  BY DEF IgnoreWhenStopped, Run
<1>2. /\ io' \in Operations(Handler)
      /\ \A g \in Handler : io'[g]["waiting"] = io[g]["waiting"]
  BY <1>1, Dispatched
<1> QED BY <1>1, <1>2, InactiveIInv DEF client, IInv, TypeOK

LEMMA CloseThrowsIInv ==
  ASSUME IInv, NEW h \in Handler, NEW ec \in Result, CloseThrows(h, ec)
  PROVE  IInv'
<1>1. run = "running" /\ Run(h, ec) /\ io' = Dispatch(io, h, ec)
      /\ run' = "failed" /\ UNCHANGED <<client, age>>
  BY DEF CloseThrows, Act, Run
<1>2. /\ io' \in Operations(Handler)
      /\ \A g \in Handler : io'[g]["waiting"] = io[g]["waiting"]
  BY <1>1, Dispatched
<1> QED BY <1>1, <1>2, InactiveIInv DEF client, IInv, TypeOK

LEMMA RunReturnsIInv ==
  ASSUME IInv, RunReturns
  PROVE  IInv'
BY InactiveIInv DEF RunReturns, client, IInv, TypeOK, Operations

LEMMA StartIInv ==
  ASSUME IInv, Start
  PROVE  IInv'
<1> DEFINE c == IF open' THEN Begin(io, "handle_connect")
                         ELSE Post(io, "handle_connect", "error")
<1>1. /\ run = "created" /\ deadline_' = ConnectTimeout /\ open' \in Opens
      /\ io' = Begin(c, "check_deadline") /\ run' = "running" /\ age' = 0
      /\ UNCHANGED <<stopped_, iter, lines, heartbeat_>>
  BY DEF Start
<1>2. /\ stopped_ = FALSE /\ iter = 1 /\ io \in Operations(Handler)
      /\ \A g \in Handler : Outstanding(io, g) = 0
  BY <1>1 DEF IInv, CreatedIsIdle, TypeOK, Operations, Count
<1>3. open' \in BOOLEAN
  BY <1>1, Zenon DEF Opens
<1>4. \A g \in Handler : io[g]["waiting"] = 0 /\ io[g]["ok"] = 0
  BY <1>2, Idle DEF Status, Result
<1>5. /\ c \in Operations(Handler)
      /\ \A g \in Handler :
           /\ Outstanding(c, g) = Outstanding(io, g) + One(g = "handle_connect")
           /\ c[g]["ok"] = io[g]["ok"]
           /\ c[g]["waiting"] = io[g]["waiting"] + One(g = "handle_connect" /\ open')
  BY <1>2, <1>3, ConnectAdds
<1> HIDE DEF c
<1>6. /\ io' \in Operations(Handler)
      /\ \A g \in Handler :
           /\ Outstanding(io', g) = Outstanding(c, g) + One(g = "check_deadline")
           /\ io'[g]["ok"] = c[g]["ok"]
           /\ io'[g]["waiting"] = c[g]["waiting"] + One(g = "check_deadline")
  <2>1. "check_deadline" \in Handler /\ "ok" \in Result
    BY DEF Handler, Result
  <2> QED BY <1>1, <1>5, <2>1, BeginAdds
<1>7. TypeOK'
  BY <1>1, <1>2, <1>3, <1>6, Constants DEF IInv, TypeOK, Operations
<1>8. \A g \in SocketOps : io'[g]["waiting"] > 0 => open'
  BY <1>4, <1>5, <1>6 DEF Handler, SocketOps, One
<1>9. io'["handle_read"]["ok"] = 0
  BY <1>4, <1>5, <1>6, FiveHandlers
<1>10. /\ Outstanding(io', "check_deadline") = 1
       /\ Outstanding(io', "handle_connect") = 1
       /\ Outstanding(io', "handle_read") = 0
       /\ Outstanding(io', "handle_write") = 0
       /\ Outstanding(io', "start_write") = 0
  BY <1>2, <1>5, <1>6, FiveHandlers DEF One
<1>11. /\ Outstanding(io', "handle_connect") + Outstanding(io', "handle_read") = 1
       /\ Outstanding(io', "handle_write") + Outstanding(io', "start_write")
            = One(Outstanding(io', "handle_connect") = 0)
  BY <1>10 DEF One
<1>12. /\ run' = "running" /\ stopped_' = FALSE /\ iter' <= NumEndpoints
       /\ deadline_' # pos_infin /\ deadline_' + age' >= ConnectTimeout
  BY <1>1, <1>2, Constants
<1>13. /\ io'["handle_read"]["ok"] > 0 => lines' > 0
       /\ io'["handle_connect"]["waiting"] > 0 \/ io'["handle_read"]["waiting"] > 0
            => deadline_' # pos_infin
       /\ deadline_' # pos_infin =>
            deadline_' + age' >= IF Outstanding(io', "handle_connect") = 0
                                 THEN ReadTimeout ELSE ConnectTimeout
  BY <1>9, <1>10, <1>12
<1> QED BY <1>7, <1>8, <1>10, <1>11, <1>12, <1>13, ActiveIInv

\* An operation completes, of a socket or of a timer: the client is active, since
\* nothing waits once it has stopped.
LEMMA CompleteIInv ==
  ASSUME IInv, NEW h \in Handler, NEW ec \in Result,
         run = "running", Waiting(io, h), io' = Complete(io, h, ec),
         lines' \in IF h = "handle_read" /\ ec = "ok" THEN LineArrives ELSE {lines},
         UNCHANGED <<stopped_, open, iter, deadline_, heartbeat_, run, age>>
  PROVE  IInv'
<1>1. Active
  BY DEF IInv, TypeOK, StopIsFinal, Active
<1>2. io \in Operations(Handler) /\ lines \in 0..MaxLines
  BY <1>1, WhileActive
<1>3. /\ io' \in Operations(Handler)
      /\ \A g \in Handler :
           /\ Outstanding(io', g) = Count(g)
           /\ io'[g]["ok"] = io[g]["ok"] + One(g = h /\ ec = "ok")
           /\ io'[g]["waiting"] = io[g]["waiting"] - One(g = h)
  <2>1. \A g \in Handler, e \in Result : io'[g][e] = io[g][e] + One(g = h /\ e = ec)
    BY <1>2, CompleteKeeps
  <2>2. \A g \in Handler : io'[g]["ok"] = io[g]["ok"] + One(g = h /\ ec = "ok")
    BY <2>1 DEF Result, One
  <2> QED BY <1>2, <2>2, CompleteKeeps DEF Count
<1>4. lines' \in 0..MaxLines /\ (h = "handle_read" /\ ec = "ok" => lines' > 0)
      /\ (~(h = "handle_read" /\ ec = "ok") => lines' = lines)
  BY <1>2, Constants DEF LineArrives
<1>5. \A g \in Handler : io[g]["waiting"] \in Nat /\ io[g]["ok"] \in Nat
  BY <1>2 DEF Operations, Status, Result
<1>6. TypeOK'
  BY <1>3, <1>4 DEF IInv, TypeOK, Operations
<1>7. \A g \in Handler : io'[g]["waiting"] > 0 => io[g]["waiting"] > 0
  BY <1>3, <1>5 DEF One
<1>8. /\ \A g \in SocketOps : io'[g]["waiting"] > 0 => open'
      /\ io'["handle_connect"]["waiting"] > 0 \/ io'["handle_read"]["waiting"] > 0
           => deadline_' # pos_infin
  <2>1. /\ \A g \in SocketOps : io[g]["waiting"] > 0 => open
        /\ io["handle_connect"]["waiting"] > 0 \/ io["handle_read"]["waiting"] > 0
             => deadline_ # pos_infin
    BY <1>1, WhileActive
  <2>2. {"handle_connect", "handle_read"} \subseteq Handler /\ SocketOps \subseteq Handler
    BY DEF SocketOps, Handler
  <2> QED BY <1>7, <2>1, <2>2
<1>9. io'["handle_read"]["ok"] > 0 => lines' > 0
  <2>1. io["handle_read"]["ok"] > 0 => lines > 0
    BY <1>1, WhileActive
  <2>2. CASE h = "handle_read" /\ ec = "ok"
    BY <1>4, <2>2
  <2>3. CASE ~(h = "handle_read" /\ ec = "ok")
    BY <1>3, <1>4, <1>5, <2>1, <2>3, FiveHandlers DEF One
  <2> QED BY <2>2, <2>3
<1>10. /\ run' = "running" /\ stopped_' = FALSE /\ iter' <= NumEndpoints
       /\ Outstanding(io', "check_deadline") = 1
       /\ Outstanding(io', "handle_connect") + Outstanding(io', "handle_read") = 1
       /\ Outstanding(io', "handle_write") + Outstanding(io', "start_write")
            = One(Outstanding(io', "handle_connect") = 0)
  BY <1>1, <1>3, WhileActive, FiveHandlers, Constants
<1>11. deadline_' # pos_infin =>
         deadline_' + age' >= IF Outstanding(io', "handle_connect") = 0
                              THEN ReadTimeout ELSE ConnectTimeout
  BY <1>1, <1>3, WhileActive, FiveHandlers
<1> QED BY <1>6, <1>8, <1>9, <1>10, <1>11, ActiveIInv

LEMMA SocketCompletesIInv ==
  ASSUME IInv, NEW h \in SocketOps, NEW ec \in Result, SocketCompletes(h, ec)
  PROVE  IInv'
BY CompleteIInv DEF SocketCompletes, Handler

LEMMA TimerExpiresIInv ==
  ASSUME IInv, NEW h \in Handler, TimerExpires(h)
  PROVE  IInv'
<1>1. h # "handle_read" /\ "ok" \in Result
  BY DEF TimerExpires, Result
<1> QED BY <1>1, CompleteIInv DEF TimerExpires, client

\* The time left shrinks no faster than the time spent grows, but for the bound
\* on the history, which no timeout exceeds.
LEMMA TickIInv ==
  ASSUME IInv, Tick
  PROVE  IInv'
<1>1. /\ run = "running" /\ run' = run /\ io' = io
      /\ UNCHANGED <<stopped_, open, iter, lines>>
      /\ deadline_' = Down(deadline_) /\ heartbeat_' = Down(heartbeat_)
      /\ age' = IF age < MaxAge THEN age + 1 ELSE age
  BY DEF Tick
<1>2. /\ deadline_ \in 0..MaxAge \cup {pos_infin} /\ heartbeat_ \in 0..HeartbeatInterval
      /\ age \in 0..MaxAge /\ io \in Operations(Handler) /\ stopped_ \in BOOLEAN
  BY DEF IInv, TypeOK, Operations
<1>3. /\ deadline_' \in 0..MaxAge \cup {pos_infin} /\ heartbeat_' \in 0..HeartbeatInterval
      /\ age' \in 0..MaxAge /\ (deadline_' = pos_infin <=> deadline_ = pos_infin)
  BY <1>1, <1>2, Constants DEF Down
<1>4. CASE stopped_
  BY <1>1, <1>2, <1>3, <1>4, InactiveIInv
<1>5. CASE ~stopped_
  <2>1. Active
    BY <1>1, <1>5 DEF Active
  <2>2. TypeOK'
    BY <1>1, <1>3 DEF IInv, TypeOK
  <2>3. \A g \in Handler : Outstanding(io', g) = Count(g)
    BY <1>1 DEF Count
  <2>4. deadline_' # pos_infin =>
          deadline_' + age' >= IF Outstanding(io', "handle_connect") = 0
                               THEN ReadTimeout ELSE ConnectTimeout
    <3> DEFINE limit == IF Count("handle_connect") = 0
                        THEN ReadTimeout ELSE ConnectTimeout
    <3>1. /\ deadline_ # pos_infin => deadline_ + age >= limit
          /\ limit \in Int /\ limit <= MaxAge
      BY <2>1, WhileActive, Constants
    <3>2. deadline_ # pos_infin =>
            \/ deadline_' + age' >= deadline_ + age
            \/ age' = MaxAge /\ deadline_' >= 0
      BY <1>1, <1>2, Constants DEF Down
    <3>3. limit = IF Outstanding(io', "handle_connect") = 0
                  THEN ReadTimeout ELSE ConnectTimeout
      BY <2>3, FiveHandlers
    <3> HIDE DEF limit
    <3>4. deadline_' # pos_infin => deadline_' + age' >= limit
      <4>1. PICK left \in Int, spent \in Int : left = deadline_' /\ spent = age'
        BY <1>2, <1>3, Constants
      <4>2. SUFFICES ASSUME deadline_' # pos_infin PROVE left + spent >= limit
        BY <4>1
      <4>3. /\ deadline_ \in Int /\ age \in Int /\ limit \in Int /\ limit <= MaxAge
            /\ MaxAge \in Int /\ deadline_ + age >= limit
        BY <1>2, <1>3, <3>1, <4>2, Constants
      <4>4. left + spent >= deadline_ + age \/ (spent = MaxAge /\ left >= 0)
        BY <1>3, <3>2, <4>1, <4>2
      <4> QED BY <4>3, <4>4
    <3> QED BY <3>3, <3>4
  <2>5. /\ run' = "running" /\ stopped_' = FALSE /\ iter' <= NumEndpoints
        /\ Outstanding(io', "check_deadline") = 1
        /\ Outstanding(io', "handle_connect") + Outstanding(io', "handle_read") = 1
        /\ Outstanding(io', "handle_write") + Outstanding(io', "start_write")
             = One(Outstanding(io', "handle_connect") = 0)
    BY <1>1, <2>1, <2>3, WhileActive, FiveHandlers, Constants
  <2>6. /\ \A g \in SocketOps : io'[g]["waiting"] > 0 => open'
        /\ io'["handle_connect"]["waiting"] > 0 \/ io'["handle_read"]["waiting"] > 0
             => deadline_' # pos_infin
        /\ io'["handle_read"]["ok"] > 0 => lines' > 0
    BY <1>1, <1>3, <2>1, WhileActive
  <2> QED BY <2>2, <2>4, <2>5, <2>6, ActiveIInv
<1> QED BY <1>2, <1>4, <1>5

LEMMA IInvPreserved == IInv /\ [Next]_vars => IInv'
<1> SUFFICES ASSUME IInv, [Next]_vars PROVE IInv'
  OBVIOUS
<1>1. CASE Start
  BY <1>1, StartIInv
<1>2. CASE UserStop
  BY <1>2, StopIInv DEF UserStop, IInv, TypeOK, Operations
<1>3. CASE RunReturns
  BY <1>3, RunReturnsIInv
<1>4. ASSUME NEW h \in Handler, Handle(h) PROVE IInv'
  <2>1. ASSUME NEW ec \in Result, IgnoreWhenStopped(h, ec) PROVE IInv'
    BY <2>1, IgnoreIInv
  <2>2. ASSUME NEW ec \in Result, CloseThrows(h, ec) PROVE IInv'
    BY <2>2, CloseThrowsIInv
  <2> QED BY <1>4, <2>1, <2>2, HandleConnectIInv, HandleReadIInv, StartWriteIInv,
             HandleWriteIInv, CheckDeadlineIInv DEF Handle
<1>5. ASSUME NEW h \in Handler, TimerExpires(h) PROVE IInv'
  BY <1>5, TimerExpiresIInv
<1>6. CASE Network
  BY <1>6, SocketCompletesIInv DEF Network
<1>7. CASE Tick
  BY <1>7, TickIInv
<1>8. CASE UNCHANGED vars
  BY <1>8 DEF vars, client, IInv, TypeOK, CreatedIsIdle, EndpointLeft, ReadHasLine,
              DeadlineCovers, OneStepPerActor, WaitsAreGuarded, StopIsFinal, Timeout,
              Active, Connected, Count, Ready, Waiting, Outstanding
<1> QED BY <1>1, <1>2, <1>3, <1>4, <1>5, <1>6, <1>7, <1>8 DEF Next, Terminated

-----------------------------------------------------------------------------
\* The values that the client's state takes, for any constants.
THEOREM ClientTypes == Spec => []TypeOK
<1>1. IInv => TypeOK
  BY DEF IInv
<1> QED BY <1>1, InitIInv, IInvPreserved, PTL DEF Spec

\* No actor ever runs twice and none is lost: each has one step outstanding while
\* the client is active, whatever completes, expires or is cancelled in between.
THEOREM ActorsRunOnce == Spec => []OneStepPerActor
<1>1. IInv => OneStepPerActor
  BY DEF IInv
<1> QED BY <1>1, InitIInv, IInvPreserved, PTL DEF Spec

\* Nothing that only the peer could end is ever left waiting without a deadline.
THEOREM DeadlinesGuard == Spec => []WaitsAreGuarded
<1>1. IInv => WaitsAreGuarded
  BY DEF IInv
<1> QED BY <1>1, InitIInv, IInvPreserved, PTL DEF Spec

\* After stop() no handler starts an operation or opens the socket again.
THEOREM StopsForGood == Spec => []StopIsFinal
<1>1. IInv => StopIsFinal
  BY DEF IInv
<1> QED BY <1>1, InitIInv, IInvPreserved, PTL DEF Spec

\* The deadline actor never cuts an operation short, for any timeouts, however
\* late it runs and whichever wait it runs for.
THEOREM TimeoutsAreDue == Spec => NoEarlyTimeout
<1> DEFINE Due == open /\ ~open' /\ ~stopped_' /\ iter' = iter
                    => age >= IF Connected THEN ReadTimeout ELSE ConnectTimeout
<1>1. IInv /\ [Next]_vars => [Due]_vars
  <2> SUFFICES ASSUME IInv, Next, open, ~open', ~stopped_', iter' = iter
               PROVE  age >= IF Connected THEN ReadTimeout ELSE ConnectTimeout
    OBVIOUS
  <2>1. ASSUME NEW h \in Handler, Handle(h)
        PROVE  \E ec \in Result : CheckDeadline(ec) /\ Passed
    <3>1. PICK ec \in Result :
            \/ IgnoreWhenStopped(h, ec) \/ CloseThrows(h, ec)
            \/ HandleConnect(ec) \/ HandleRead(ec) \/ StartWrite(ec)
            \/ HandleWrite(ec) \/ CheckDeadline(ec)
      BY <2>1 DEF Handle
    <3>2. ~IgnoreWhenStopped(h, ec) /\ ~CloseThrows(h, ec) /\ ~StartWrite(ec)
      BY DEF IgnoreWhenStopped, CloseThrows, StartWrite, client
    <3>3. ~HandleRead(ec) /\ ~HandleWrite(ec)
      BY DEF HandleRead, HandleWrite, Stop
    <3>4. ~HandleConnect(ec)
      <4>1. iter \in Int
        BY DEF IInv, TypeOK
      <4>2. \A q : TryNext(q) => iter' = iter + 1
        BY DEF TryNext, StartConnect
      <4>3. ~TryNext(Dispatch(io, "handle_connect", ec))
            /\ ~TryNext(Cancel(Dispatch(io, "handle_connect", ec), SocketOps))
        BY <4>1, <4>2
      <4> QED BY <4>3 DEF HandleConnect
    <3> QED BY <3>1, <3>2, <3>3, <3>4 DEF CheckDeadline
  <2>2. \E ec \in Result : CheckDeadline(ec) /\ Passed
    <3>1. ~Start
      BY DEF Start, IInv, CreatedIsIdle
    <3>2. ~UserStop
      BY DEF UserStop, Stop
    <3>3. ~RunReturns /\ ~Terminated
      BY DEF RunReturns, Terminated, vars, client
    <3>4. ~Network /\ ~Tick
      BY DEF Network, SocketCompletes, Tick
    <3>5. \A h \in Handler : ~TimerExpires(h)
      BY DEF TimerExpires, client
    <3> QED BY <2>1, <3>1, <3>2, <3>3, <3>4, <3>5 DEF Next
  <2>3. Active /\ deadline_ = 0
    BY <2>2 DEF CheckDeadline, Act, Run, Active, Passed
  <2> QED BY <2>3, WhileActive, Constants DEF Connected
<1>2. NoEarlyTimeout <=> [][Due]_vars
  BY DEF NoEarlyTimeout
<1> HIDE DEF Due
<1> QED BY <1>1, <1>2, InitIInv, IInvPreserved, PTL DEF Spec

-----------------------------------------------------------------------------
(* What the user sees of the client is what ClientLifecycle allows, but for  *)
(* the fairness in it.  The phase follows from the flags and from the number *)
(* of connects outstanding.                                                  *)
Connects(q) == Outstanding(q, "handle_connect")

LEMMA PhaseOf ==
  ASSUME TypeOK
  PROVE  /\ run # "running" => Phase = run
         /\ Active /\ Connects(io) # 0 => Phase = "connecting"
         /\ Active /\ Connects(io) = 0 => Phase = "connected"
         /\ run = "running" /\ stopped_ => Phase = "stopped"
BY DEF TypeOK, Phase, Active, Connected, Count, Connects

LEMMA PhaseNext ==
  ASSUME TypeOK'
  PROVE  /\ run' # "running" => Phase' = run'
         /\ run' = "running" /\ ~stopped_' /\ Connects(io') # 0 => Phase' = "connecting"
         /\ run' = "running" /\ ~stopped_' /\ Connects(io') = 0 => Phase' = "connected"
         /\ run' = "running" /\ stopped_' => Phase' = "stopped"
BY DEF TypeOK, Phase, Active, Connected, Count, Connects, Outstanding

LifecycleStep == [Lifecycle!Next]_(Lifecycle!vars)

LEMMA Stutter ==
  ASSUME UNCHANGED <<run, stopped_, iter>>, Connects(io') = Connects(io)
  PROVE  LifecycleStep
<1>1. Phase' = Phase
  BY DEF Phase, Active, Connected, Count, Connects, Outstanding
<1> QED BY <1>1 DEF LifecycleStep, Lifecycle!vars

\* A call of start_connect() by handle_connect(), to an endpoint or past the last.
LEMMA TryNextStep ==
  ASSUME IInv, IInv', Active, Connects(io) # 0, NEW q \in Operations(Handler),
         Connects(q) = 0, TryNext(q)
  PROVE  LifecycleStep
<1>1. run = "running" /\ stopped_ = FALSE /\ NumEndpoints \in Nat
  BY WhileActive, Constants
<1>2. iter \in 1..NumEndpoints /\ iter' = iter + 1 /\ Phase = "connecting"
  BY WhileActive, PhaseOf DEF IInv, TryNext, StartConnect
<1>3. CASE iter + 1 <= NumEndpoints
  <2>1. /\ run' = "running" /\ stopped_' = FALSE /\ open' \in Opens
        /\ io' = IF open' THEN Begin(Moved(q), "handle_connect")
                          ELSE Post(Moved(q), "handle_connect", "error")
    <3>1. ~(iter + 1 > NumEndpoints)
      BY <1>1, <1>2, <1>3
    <3> QED BY <1>1, <3>1 DEF TryNext, StartConnect, SetDeadline
  <2>2. open' \in BOOLEAN
    BY <2>1, Zenon DEF Opens
  <2>3. Moved(q) \in Operations(Handler) /\ Connects(Moved(q)) = 0
    BY MovedKeeps, FiveHandlers DEF Connects
  <2>4. Connects(io') = 1
    BY <2>1, <2>2, <2>3, ConnectAdds, FiveHandlers DEF Connects, One
  <2>5. Phase' = "connecting"
    BY <2>1, <2>4, PhaseNext DEF IInv
  <2>6. Lifecycle!TryNext
    BY <1>2, <1>3, <2>5, Constants DEF Lifecycle!TryNext, Lifecycle!To
  <2> QED BY <2>6 DEF LifecycleStep, Lifecycle!Next
<1>4. CASE ~(iter + 1 <= NumEndpoints)
  <2>1. iter = NumEndpoints /\ run' = "running" /\ stopped_' = TRUE
    <3>1. iter = NumEndpoints
      BY <1>1, <1>2, <1>4
    <3> QED BY <1>1, <1>4, <3>1 DEF TryNext, StartConnect, Stop
  <2>2. Phase' = "stopped"
    BY <2>1, PhaseNext DEF IInv
  <2>3. Lifecycle!GiveUp
    BY <1>2, <2>1, <2>2 DEF Lifecycle!GiveUp, Lifecycle!To
  <2> QED BY <2>3 DEF LifecycleStep, Lifecycle!Next
<1> QED BY <1>3, <1>4

LEMMA HandleConnectStep ==
  ASSUME IInv, IInv', NEW ec \in Result, HandleConnect(ec)
  PROVE  LifecycleStep
<1> DEFINE q == Dispatch(io, "handle_connect", ec)
<1>1. Active /\ Run("handle_connect", ec) /\ "handle_connect" \in Handler
  BY DEF HandleConnect, Act, Active, Run, Handler, SocketOps
<1>2. q \in Operations(Handler) /\ Connects(io) = 1 /\ Connects(q) = 0
  <2>1. /\ q \in Operations(Handler) /\ Count("handle_connect") > 0
        /\ \A g \in Handler : Outstanding(q, g) = Count(g) - One(g = "handle_connect")
    BY <1>1, Dispatched
  <2>2. Count("handle_connect") = 1
    BY <1>1, <2>1, WhileConnecting
  <2>3. Outstanding(q, "handle_connect") = 0
    BY <1>1, <2>1, <2>2 DEF One
  <2> QED BY <2>1, <2>2, <2>3 DEF Connects, Count
<1> HIDE DEF q
<1>3. CASE ~open /\ TryNext(q)
  BY <1>1, <1>2, <1>3, TryNextStep
<1>4. CASE open /\ ec = "error" /\ TryNext(Cancel(q, SocketOps))
  <2>1. /\ Cancel(q, SocketOps) \in Operations(Handler)
        /\ Connects(Cancel(q, SocketOps)) = 0
    BY <1>1, <1>2, CancelKeeps DEF Connects
  <2> QED BY <1>1, <1>2, <1>4, <2>1, TryNextStep
<1>5. CASE /\ open /\ ec = "ok"
           /\ SetDeadline(ReadTimeout)
           /\ io' = Write(ReadUntil(Moved(q), lines))
           /\ UNCHANGED <<stopped_, open, iter, lines, heartbeat_>>
  <2>1. Moved(q) \in Operations(Handler) /\ Connects(Moved(q)) = 0
    BY <1>1, <1>2, MovedKeeps DEF Connects
  <2>2. open \in BOOLEAN /\ lines \in Int
    BY <1>1, WhileActive
  <2>3. /\ ReadUntil(Moved(q), lines) \in Operations(Handler)
        /\ Connects(ReadUntil(Moved(q), lines)) = 0
    BY <1>1, <2>1, <2>2, ReadUntilAdds DEF Connects, One
  <2>4. Connects(io') = 0
    BY <1>1, <1>5, <2>2, <2>3, WriteAdds DEF Connects, One
  <2>5. run' = "running" /\ ~stopped_'
    BY <1>1, <1>5, WhileActive DEF SetDeadline
  <2>6. Phase = "connecting" /\ Phase' = "connected"
    BY <1>1, <1>2, <2>4, <2>5, PhaseOf, PhaseNext DEF IInv
  <2>7. Lifecycle!Establish
    BY <1>5, <2>6 DEF Lifecycle!Establish, Lifecycle!To
  <2> QED BY <2>7 DEF LifecycleStep, Lifecycle!Next
<1> QED BY <1>3, <1>4, <1>5 DEF HandleConnect, q

\* A read or a write failed, of a client that is connected.
LEMMA DropStep ==
  ASSUME IInv, IInv', Active, Connects(io) = 0, NEW q, Stop(q), UNCHANGED iter
  PROVE  LifecycleStep
<1>1. Phase = "connected" /\ Phase' = "stopped"
  BY PhaseOf, PhaseNext, WhileActive DEF IInv, Stop
<1>2. Lifecycle!Drop
  BY <1>1 DEF Lifecycle!Drop, Lifecycle!To
<1> QED BY <1>2 DEF LifecycleStep, Lifecycle!Next

LEMMA HandleReadStep ==
  ASSUME IInv, IInv', NEW ec \in Result, HandleRead(ec)
  PROVE  LifecycleStep
<1> DEFINE q == Dispatch(io, "handle_read", ec)
<1>1. Active /\ Run("handle_read", ec) /\ "handle_read" \in Handler
  BY DEF HandleRead, Act, Active, Run, Handler, SocketOps
<1>2. q \in Operations(Handler) /\ Connects(io) = 0 /\ Connects(q) = 0
  <2>1. /\ q \in Operations(Handler) /\ Count("handle_read") > 0
        /\ \A g \in Handler : Outstanding(q, g) = Count(g) - One(g = "handle_read")
    BY <1>1, Dispatched
  <2>2. Count("handle_connect") = 0
    BY <1>1, <2>1, WhileActive, FiveHandlers
  <2> QED BY <2>1, <2>2, FiveHandlers DEF Connects, Count, One
<1> HIDE DEF q
<1>3. CASE ec = "error" /\ Stop(q) /\ UNCHANGED iter
  BY <1>1, <1>2, <1>3, DropStep
<1>4. CASE /\ ec = "ok" /\ lines' = lines - 1
           /\ SetDeadline(ReadTimeout)
           /\ io' = ReadUntil(Moved(q), lines')
           /\ UNCHANGED <<stopped_, open, iter, heartbeat_>>
  <2>1. Moved(q) \in Operations(Handler) /\ Connects(Moved(q)) = 0
    BY <1>2, MovedKeeps, FiveHandlers DEF Connects
  <2>2. open \in BOOLEAN /\ lines' \in Int
    BY <1>1, <1>4, WhileActive
  <2>3. Connects(io') = 0
    BY <1>4, <2>1, <2>2, ReadUntilAdds, FiveHandlers DEF Connects, One
  <2> QED BY <1>2, <1>4, <2>3, Stutter DEF SetDeadline
<1> QED BY <1>3, <1>4 DEF HandleRead, q

LEMMA StartWriteStep ==
  ASSUME IInv, NEW ec \in Result, StartWrite(ec)
  PROVE  LifecycleStep
<1> DEFINE q == Dispatch(io, "start_write", ec)
<1>1. Active /\ Run("start_write", ec) /\ "start_write" \in Handler
  BY DEF StartWrite, Act, Active, Run, Handler
<1>2. q \in Operations(Handler) /\ Connects(q) = Connects(io) /\ Connects(io) \in Nat
  BY <1>1, Dispatched, WhileActive, FiveHandlers DEF Connects, Count, One
<1>3. open \in BOOLEAN
  BY <1>1, WhileActive
<1>4. io' = Write(q) /\ UNCHANGED <<client, run, age>>
  BY DEF StartWrite
<1> HIDE DEF q
<1>5. Connects(io') = Connects(io)
  BY <1>2, <1>3, <1>4, WriteAdds, FiveHandlers DEF Connects, One
<1> QED BY <1>4, <1>5, Stutter DEF client

LEMMA HandleWriteStep ==
  ASSUME IInv, IInv', NEW ec \in Result, HandleWrite(ec)
  PROVE  LifecycleStep
<1> DEFINE q == Dispatch(io, "handle_write", ec)
<1>1. Active /\ Run("handle_write", ec) /\ "handle_write" \in Handler
  BY DEF HandleWrite, Act, Active, Run, Handler, SocketOps
<1>2. q \in Operations(Handler) /\ Connects(io) = 0 /\ Connects(q) = 0
  <2>1. /\ q \in Operations(Handler) /\ Count("handle_write") > 0
        /\ \A g \in Handler : Outstanding(q, g) = Count(g) - One(g = "handle_write")
    BY <1>1, Dispatched
  <2>2. Count("handle_connect") \in Nat
    BY <1>1, WhileActive, FiveHandlers
  <2>3. Count("handle_connect") = 0
    BY <1>1, <2>1, <2>2, WhileConnecting
  <2> QED BY <2>1, <2>3, FiveHandlers DEF Connects, Count, One
<1> HIDE DEF q
<1>3. CASE ec = "error" /\ Stop(q) /\ UNCHANGED iter
  BY <1>1, <1>2, <1>3, DropStep
<1>4. CASE /\ ec = "ok" /\ heartbeat_' = HeartbeatInterval
           /\ io' = Begin(Cancel(q, {"start_write"}), "start_write")
           /\ UNCHANGED <<stopped_, open, iter, lines, deadline_, run, age>>
  <2> DEFINE c == Cancel(q, {"start_write"})
  <2>1. c \in Operations(Handler) /\ Connects(c) = 0
    BY <1>2, CancelKeeps, FiveHandlers DEF Connects
  <2> HIDE DEF c
  <2>2. io' = Begin(c, "start_write")
    BY <1>4 DEF c
  <2>3. Connects(io') = 0
    BY <2>1, <2>2, BeginAdds, FiveHandlers DEF Connects, One
  <2> QED BY <1>2, <1>4, <2>3, Stutter
<1> QED BY <1>3, <1>4 DEF HandleWrite, q

LEMMA CheckDeadlineStep ==
  ASSUME IInv, NEW ec \in Result, CheckDeadline(ec)
  PROVE  LifecycleStep
<1> DEFINE q == Dispatch(io, "check_deadline", ec)
           c == Cancel(q, SocketOps \cup {"check_deadline"})
<1>1. Active /\ Run("check_deadline", ec) /\ "check_deadline" \in Handler
  BY DEF CheckDeadline, Act, Active, Run, Handler
<1>2. q \in Operations(Handler) /\ Connects(q) = Connects(io) /\ Connects(io) \in Nat
  BY <1>1, Dispatched, WhileActive, FiveHandlers DEF Connects, Count, One
<1>3. c \in Operations(Handler) /\ Connects(c) = Connects(io)
  <2> HIDE DEF q
  <2> QED BY <1>2, CancelKeeps, FiveHandlers DEF Connects
<1>4. io' = BackToSleep(q) \/ io' = BackToSleep(c)
  BY DEF CheckDeadline
<1> HIDE DEF q, c
<1>5. Connects(io') = Connects(io)
  BY <1>1, <1>2, <1>3, <1>4, BeginAdds, FiveHandlers DEF BackToSleep, Connects, One
<1> QED BY <1>5, Stutter DEF CheckDeadline

LEMMA CloseThrowsStep ==
  ASSUME IInv, IInv', NEW h \in Handler, NEW ec \in Result, CloseThrows(h, ec)
  PROVE  LifecycleStep
<1>1. Active /\ SystemCallsMayFail /\ run' = "failed" /\ UNCHANGED client
  BY DEF CloseThrows, Act, Run, Active
<1>2. Phase \in {"connecting", "connected"} /\ Phase' = "failed"
  BY <1>1, PhaseOf, PhaseNext DEF IInv
<1>3. Lifecycle!Fail
  BY <1>1, <1>2 DEF Lifecycle!Fail, client
<1> QED BY <1>3 DEF LifecycleStep, Lifecycle!Next

LEMMA StartStep ==
  ASSUME IInv, IInv', Start
  PROVE  LifecycleStep
<1> DEFINE c == IF open' THEN Begin(io, "handle_connect")
                         ELSE Post(io, "handle_connect", "error")
<1>1. /\ run = "created" /\ run' = "running" /\ open' \in Opens
      /\ io' = Begin(c, "check_deadline") /\ UNCHANGED <<stopped_, iter>>
  BY DEF Start
<1>2. ~stopped_ /\ io \in Operations(Handler) /\ Connects(io) = 0
  BY <1>1, FiveHandlers DEF IInv, CreatedIsIdle, TypeOK, Operations, Count, Connects
<1>3. open' \in BOOLEAN
  BY <1>1, Zenon DEF Opens
<1>4. c \in Operations(Handler) /\ Connects(c) = 1
  BY <1>2, <1>3, ConnectAdds, FiveHandlers DEF Connects, One
<1> HIDE DEF c
<1>5. Connects(io') = 1
  BY <1>1, <1>4, BeginAdds, FiveHandlers DEF Connects, One
<1>6. Phase = "created" /\ Phase' = "connecting"
  BY <1>1, <1>2, <1>5, PhaseOf, PhaseNext DEF IInv
<1>7. Lifecycle!Start
  BY <1>1, <1>6 DEF Lifecycle!Start, Lifecycle!To
<1> QED BY <1>7 DEF LifecycleStep, Lifecycle!Next

LEMMA UserStopStep ==
  ASSUME IInv, IInv', UserStop
  PROVE  LifecycleStep
<1>1. Active /\ UserMayStop /\ UNCHANGED iter /\ stopped_' /\ run' = "running"
  BY DEF UserStop, Active, Stop
<1>2. Phase \in {"connecting", "connected"} /\ Phase' = "stopped"
  BY <1>1, PhaseOf, PhaseNext DEF IInv
<1>3. Lifecycle!UserStop
  BY <1>1, <1>2 DEF Lifecycle!UserStop
<1> QED BY <1>3 DEF LifecycleStep, Lifecycle!Next

\* run() returns only to a client that has stopped: an active one always has the
\* wait of the deadline actor outstanding.
LEMMA ReturnStep ==
  ASSUME IInv, IInv', RunReturns
  PROVE  LifecycleStep
<1>1. run = "running" /\ run' = "returned" /\ UNCHANGED client
  BY DEF RunReturns
<1>2. Count("check_deadline") = 0
  BY FiveHandlers DEF RunReturns, OutOfWork, Count, IInv, TypeOK
<1>3. stopped_
  BY <1>1, <1>2 DEF IInv, OneStepPerActor, Active
<1>4. Phase = "stopped" /\ Phase' = "returned"
  BY <1>1, <1>3, PhaseOf, PhaseNext DEF IInv
<1>5. Lifecycle!Return
  BY <1>1, <1>4 DEF Lifecycle!Return, Lifecycle!To, client
<1> QED BY <1>5 DEF LifecycleStep, Lifecycle!Next

\* What completes stays outstanding, so nobody sees it but the handler.
LEMMA CompleteStep ==
  ASSUME IInv, NEW h \in Handler, NEW ec \in Result, Waiting(io, h),
         io' = Complete(io, h, ec), UNCHANGED <<run, stopped_, iter>>
  PROVE  LifecycleStep
<1>1. Connects(io') = Connects(io)
  BY CompleteKeeps, FiveHandlers DEF IInv, TypeOK, Operations, Connects
<1> QED BY <1>1, Stutter

LEMMA IgnoreStep ==
  ASSUME IInv, IInv', NEW h \in Handler, NEW ec \in Result, IgnoreWhenStopped(h, ec)
  PROVE  LifecycleStep
<1>1. stopped_ /\ run = "running" /\ UNCHANGED <<client, run>>
  BY DEF IgnoreWhenStopped, Run
<1>2. Phase = "stopped" /\ Phase' = "stopped"
  BY <1>1, PhaseOf, PhaseNext DEF IInv, client
<1> QED BY <1>1, <1>2 DEF client, LifecycleStep, Lifecycle!vars

LEMMA StepImplements == IInv /\ IInv' /\ [Next]_vars => LifecycleStep
<1> SUFFICES ASSUME IInv, IInv', [Next]_vars PROVE LifecycleStep
  OBVIOUS
<1>1. CASE Start
  BY <1>1, StartStep
<1>2. CASE UserStop
  BY <1>2, UserStopStep
<1>3. CASE RunReturns
  BY <1>3, ReturnStep
<1>4. ASSUME NEW h \in Handler, Handle(h) PROVE LifecycleStep
  <2>1. ASSUME NEW ec \in Result, IgnoreWhenStopped(h, ec) PROVE LifecycleStep
    BY <2>1, IgnoreStep
  <2>2. ASSUME NEW ec \in Result, CloseThrows(h, ec) PROVE LifecycleStep
    BY <2>2, CloseThrowsStep
  <2> QED BY <1>4, <2>1, <2>2, HandleConnectStep, HandleReadStep, StartWriteStep,
             HandleWriteStep, CheckDeadlineStep DEF Handle
<1>5. ASSUME NEW h \in Handler, TimerExpires(h) PROVE LifecycleStep
  BY <1>5, CompleteStep DEF TimerExpires, client, Result
<1>6. CASE Network
  BY <1>6, CompleteStep DEF Network, SocketCompletes, Handler
<1>7. CASE Tick
  BY <1>7, Stutter DEF Tick
<1>8. CASE UNCHANGED vars
  BY <1>8, Stutter DEF vars, client
<1> QED BY <1>1, <1>2, <1>3, <1>4, <1>5, <1>6, <1>7, <1>8 DEF Next, Terminated

\* The client implements the safety of ClientLifecycle for any number of endpoints:
\* it tries them in turn and each once, a connection is made once, and run()
\* returns only when the client has stopped.
THEOREM LifecycleIsSafe == Spec => Lifecycle!Init /\ [][Lifecycle!Next]_(Lifecycle!vars)
<1>1. Init => Lifecycle!Init
  BY InitIInv, PhaseOf DEF IInv, Init, Lifecycle!Init
<1>2. IInv /\ IInv' /\ [Next]_vars => [Lifecycle!Next]_(Lifecycle!vars)
  BY StepImplements DEF LifecycleStep
<1> QED BY <1>1, <1>2, InitIInv, IInvPreserved, PTL DEF Spec
=============================================================================
