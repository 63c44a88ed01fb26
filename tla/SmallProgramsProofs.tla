-------------------------- MODULE SmallProgramsProofs --------------------------
(***************************************************************************)
(* Proofs about GreetingClient, for greetings of any length, about         *)
(* RepeatTimers, for any limit, number of timers and period, about         *)
(* DebugSettings, for any settings and files, that Buffers implements      *)
(* BufferValues, for any number of buffers, any elements and any amount    *)
(* of storage, about HttpClient, for any responses in any chunks, and      *)
(* about IntQueue, for any numbers and copies of them.                     *)
(***************************************************************************)
EXTENDS GreetingClient, RepeatTimers, Buffers, DebugSettings,
        HttpClient, IntQueue, AsioProofs,
        SequenceTheorems, FiniteSetTheorems, TLAPS

LEMMA FunctionIsSeq ==
  ASSUME NEW S, NEW n \in Nat, NEW f \in [1..n -> S]
  PROVE  f \in Seq(S) /\ Len(f) = n
OBVIOUS

-----------------------------------------------------------------------------
(* GreetingClient.  At most one operation is outstanding; that what follows  *)
(* the connect has not begun while it is, and that a write that has          *)
(* succeeded has sent everything, makes DoneMeansSent inductive.             *)
Connects == Outstanding(io, "handle_connect")
Writes   == Outstanding(io, "handle_write")

OneOperation == Connects + Writes <= 1 /\ (main_at = "construct" => Connects + Writes = 0)

NothingSentYet ==
  main_at = "construct" \/ Connects > 0 => received = <<>> /\ atOnce = 0 /\ ~doneSaid

WrittenIsSent ==
  /\ io["handle_write"]["ok"] > 0 => Len(received) = Length
  /\ doneSaid => Connects + Writes = 0 /\ Len(received) = Length

FirstPiecesAreRight == atOnce <= Len(received) /\ \A p \in 1..atOnce : received[p] = p

GreetingInv ==
  GreetingTypeOK /\ OneOperation /\ NothingSentYet /\ WrittenIsSent /\ FirstPiecesAreRight

\* What the types give the arithmetic of the steps below.
LEMMA GreetingTypes ==
  ASSUME GreetingTypeOK
  PROVE  /\ io \in Operations(GreetingHandler)
         /\ Connects \in Nat /\ Writes \in Nat
         /\ io["handle_write"]["ok"] \in Nat /\ io["handle_write"]["ok"] <= Writes
         /\ Len(received) \in Nat /\ atOnce \in Nat /\ Length \in Nat \ {0}
<1>1. io \in Operations(GreetingHandler)
  BY DEF GreetingTypeOK, Operations
<1>2. {"handle_connect", "handle_write"} = GreetingHandler /\ "ok" \in Status
  BY DEF GreetingHandler, Status, Result
<1> QED BY <1>1, <1>2, OutstandingIsNat, LengthAssumption
      DEF GreetingTypeOK, Connects, Writes

LEMMA GreetingInitInv == GreetingInit => GreetingInv
<1> SUFFICES ASSUME GreetingInit PROVE GreetingInv
  OBVIOUS
<1> USE DEF GreetingInit
<1>1. /\ io \in Operations(GreetingHandler)
      /\ Connects = 0 /\ Writes = 0 /\ io["handle_write"]["ok"] = 0
  BY NothingOutstanding DEF GreetingHandler, Connects, Writes, Status, Result
<1>2. received \in Seq(0..Length) /\ Len(received) = 0 /\ atOnce = 0 /\ ~doneSaid
  OBVIOUS
<1>3. GreetingTypeOK
  <2>1. doneSaid \in BOOLEAN
    BY Zenon
  <2>2. main_at \in {"construct", "run", "returned", "caught"}
    OBVIOUS
  <2>3. Len(received) <= Length /\ atOnce \in 0..Length
    BY <1>2, LengthAssumption
  <2> QED BY ONLY <1>1, <1>2, <2>1, <2>2, <2>3 DEF GreetingTypeOK, Operations
<1> QED BY <1>1, <1>2, <1>3
      DEF GreetingInv, OneOperation, NothingSentYet, WrittenIsSent, FirstPiecesAreRight

LEMMA ConstructClientInv ==
  ASSUME GreetingInv, ConstructClient
  PROVE  GreetingInv'
<1> USE DEF GreetingInv, ConstructClient
<1>1. CASE io' = Begin(io, "handle_connect")
  <2>1. /\ io' \in Operations(GreetingHandler)
        /\ Connects' = Connects + 1 /\ Writes' = Writes
        /\ io'["handle_write"]["ok"] = io["handle_write"]["ok"]
    BY <1>1, GreetingTypes, BeginAdds
       DEF Connects, Writes, GreetingHandler, One, Result
  <2>2. GreetingTypeOK'
    BY <2>1 DEF GreetingTypeOK, Operations
  <2> QED BY <2>1, <2>2, GreetingTypes
        DEF OneOperation, NothingSentYet, WrittenIsSent, FirstPiecesAreRight
<1>2. CASE main_at' = "caught" /\ UNCHANGED io
  <2>1. GreetingTypeOK' /\ Connects' = Connects /\ Writes' = Writes
    BY <1>2 DEF GreetingTypeOK, Connects, Writes
  <2> QED BY <1>2, <2>1, GreetingTypes
        DEF OneOperation, NothingSentYet, WrittenIsSent, FirstPiecesAreRight
<1> QED BY <1>1, <1>2

LEMMA ConnectEndsInv ==
  ASSUME GreetingInv, NEW ec \in Result, ConnectEnds(ec)
  PROVE  GreetingInv'
<1> USE DEF GreetingInv, ConnectEnds
<1>1. /\ io' \in Operations(GreetingHandler)
      /\ Connects' = Connects /\ Writes' = Writes
      /\ io'["handle_write"]["ok"] = io["handle_write"]["ok"]
  BY GreetingTypes, CompleteKeeps DEF Connects, Writes, GreetingHandler, One, Result
<1>2. GreetingTypeOK'
  BY <1>1 DEF GreetingTypeOK, Operations
<1> QED BY <1>1, <1>2, GreetingTypes
      DEF OneOperation, NothingSentYet, WrittenIsSent, FirstPiecesAreRight

LEMMA HandleConnectInv ==
  ASSUME GreetingInv, NEW ec \in Result, HandleConnect(ec)
  PROVE  GreetingInv'
<1> DEFINE left == Dispatch(io, "handle_connect", ec)
<1> USE DEF GreetingInv
<1>1. /\ left \in Operations(GreetingHandler)
      /\ Outstanding(left, "handle_connect") = Connects - 1
      /\ Outstanding(left, "handle_write") = Writes
      /\ left["handle_write"]["ok"] = io["handle_write"]["ok"]
      /\ Connects >= 1
  <2>1. io["handle_connect"][ec] \in Nat \ {0} /\ io["handle_connect"][ec] <= Connects
    BY GreetingTypes, OutstandingIsNat
       DEF HandleConnect, Ready, Connects, GreetingHandler, Status
  <2>2. /\ io \in Operations(GreetingHandler) /\ Ready(io, "handle_connect", ec)
        /\ {"handle_connect", "handle_write"} \subseteq GreetingHandler
        /\ "ok" \in Result
    BY GreetingTypes DEF HandleConnect, GreetingHandler, Result
  <2>3. /\ left \in Operations(GreetingHandler)
        /\ \A g \in GreetingHandler :
             Outstanding(left, g) = Outstanding(io, g) - One(g = "handle_connect")
        /\ \A g \in GreetingHandler, e \in Result :
             left[g][e] = io[g][e] - One(g = "handle_connect" /\ e = ec)
    BY <2>2, DispatchRemoves
  <2> HIDE DEF left
  <2>4. Outstanding(left, "handle_connect") = Connects - 1
    BY <2>2, <2>3 DEF Connects, One
  <2>5. Outstanding(left, "handle_write") = Writes
    BY <2>2, <2>3, GreetingTypes DEF Writes, One
  <2>6. left["handle_write"]["ok"] = io["handle_write"]["ok"]
    BY <2>2, <2>3, GreetingTypes DEF One
  <2>7. Connects >= 1
    BY <2>1, GreetingTypes DEF Operations, Status
  <2> QED BY <2>3, <2>4, <2>5, <2>6, <2>7
<1>2. /\ Connects = 1 /\ Writes = 0 /\ io["handle_write"]["ok"] = 0
      /\ received = <<>> /\ atOnce = 0 /\ ~doneSaid
      /\ main_at = "run" /\ main_at' = main_at /\ doneSaid' = doneSaid
  BY <1>1, GreetingTypes DEF OneOperation, NothingSentYet, HandleConnect
<1>3. CASE io' = left /\ UNCHANGED <<received, atOnce>>
  <2>1. Connects' = 0 /\ Writes' = 0
    BY <1>1, <1>2, <1>3 DEF Connects, Writes
  <2>2. GreetingTypeOK'
    BY <1>1, <1>2, <1>3 DEF GreetingTypeOK, Operations
  <2> QED BY <1>1, <1>2, <1>3, <2>1, <2>2
        DEF OneOperation, NothingSentYet, WrittenIsSent, FirstPiecesAreRight
<1>4. ASSUME NEW n \in 0..Length, atOnce' = n, received' = [p \in 1..n |-> p],
             \/ io' = WriteAll(left, n)
             \/ n < Length /\ io' = Post(left, "handle_write", "error")
      PROVE  GreetingInv'
  <2>1. n \in Nat /\ n <= Length /\ Length \in Nat
    BY LengthAssumption
  <2>2. received' \in Seq(0..Length) /\ Len(received') = n
    <3>1. received' \in [1..n -> 0..Length]
      BY <2>1, <1>4
    <3> QED BY <2>1, <3>1
  <2>3. /\ io' \in Operations(GreetingHandler)
        /\ Connects' = 0 /\ Writes' = 1
        /\ io'["handle_write"]["ok"] > 0 => n = Length
    <3> HIDE DEF left
    <3> USE DEF Connects, Writes, GreetingHandler, One, Result
    <3>1. CASE io' = Post(left, "handle_write", "ok") /\ n = Length
      BY <1>1, <1>2, <3>1, PostAdds
    <3>2. CASE io' = Begin(left, "handle_write")
      BY <1>1, <1>2, <3>2, BeginAdds
    <3>3. CASE io' = Post(left, "handle_write", "error")
      BY <1>1, <1>2, <3>3, PostAdds, SMTT(30)
    <3> QED BY <1>4, <3>1, <3>2, <3>3 DEF WriteAll
  <2>4. GreetingTypeOK'
    BY <1>2, <1>4, <2>1, <2>2, <2>3 DEF GreetingTypeOK, Operations
  <2>5. FirstPiecesAreRight'
    BY <1>4, <2>1, <2>2 DEF FirstPiecesAreRight
  <2> QED BY <1>2, <2>2, <2>3, <2>4, <2>5
        DEF OneOperation, NothingSentYet, WrittenIsSent
<1> QED BY <1>3, <1>4 DEF HandleConnect

\* What is sent later is sent after what was sent at once.
LEMMA SendRestInv ==
  ASSUME GreetingInv, SendRest
  PROVE  GreetingInv'
<1> USE DEF GreetingInv
<1>1. PICK n \in Len(received)..Length :
        /\ received' \in [1..n -> 0..Length]
        /\ SubSeq(received', 1, Len(received)) = received
        /\ \/ n = Length /\ io' = Complete(io, "handle_write", "ok")
           \/ n # Length /\ io' = Complete(io, "handle_write", "error")
           \/ n # Length /\ io' = io
  BY DEF SendRest
<1>2. n \in Nat /\ Len(received) \in Nat /\ Len(received) <= n /\ n <= Length
  BY GreetingTypes
<1>3. received' \in Seq(0..Length) /\ Len(received') = n
  <2>1. n \in Nat /\ received' \in [1..n -> 0..Length]
    BY <1>1, <1>2
  <2> QED BY <2>1, FunctionIsSeq
<1>4. \A p \in 1..Len(received) : received'[p] = received[p]
  BY <1>1, <1>2, <1>3
<1>5. /\ Writes = 1 /\ Connects = 0 /\ io["handle_write"]["ok"] = 0
      /\ ~doneSaid /\ ~doneSaid' /\ main_at = "run" /\ main_at' = main_at /\ atOnce' = atOnce
  <2>1. Writes >= 1 + io["handle_write"]["ok"]
    BY GreetingTypes DEF SendRest, Waiting, Writes, Outstanding, Operations,
                         GreetingHandler, Status, Result
  <2> QED BY <2>1, GreetingTypes DEF OneOperation, WrittenIsSent, SendRest
<1>6. /\ io' \in Operations(GreetingHandler) /\ Connects' = 0 /\ Writes' = 1
      /\ io'["handle_write"]["ok"] > 0 => n = Length
  <2> USE DEF Connects, Writes, GreetingHandler, One, Result
  <2>1. CASE n = Length /\ io' = Complete(io, "handle_write", "ok")
    BY <1>5, <2>1, GreetingTypes, CompleteKeeps DEF SendRest
  <2>2. CASE io' = Complete(io, "handle_write", "error")
    BY <1>5, <2>2, GreetingTypes, CompleteKeeps DEF SendRest
  <2>3. CASE io' = io
    BY <1>5, <2>3, GreetingTypes
  <2> QED BY <1>1, <2>1, <2>2, <2>3
<1>7. GreetingTypeOK'
  <2>1. doneSaid' \in BOOLEAN
    BY DEF SendRest, GreetingTypeOK
  <2>2. /\ Len(received') <= Length /\ atOnce' \in 0..Length
        /\ main_at' \in {"construct", "run", "returned", "caught"}
    BY <1>2, <1>3, <1>5 DEF GreetingTypeOK
  <2> QED BY ONLY <1>3, <1>6, <2>1, <2>2 DEF GreetingTypeOK, Operations
<1>8. FirstPiecesAreRight'
  BY <1>2, <1>3, <1>4, <1>5, GreetingTypes DEF FirstPiecesAreRight
<1> QED BY <1>3, <1>5, <1>6, <1>7, <1>8
      DEF OneOperation, NothingSentYet, WrittenIsSent

LEMMA HandleWriteInv ==
  ASSUME GreetingInv, NEW ec \in Result, HandleWrite(ec)
  PROVE  GreetingInv'
<1> USE DEF GreetingInv
<1>1. io["handle_write"][ec] \in Nat \ {0} /\ io["handle_write"][ec] <= Writes
  BY GreetingTypes, OutstandingIsNat
     DEF HandleWrite, Ready, Writes, GreetingHandler, Status
<1>2. /\ io' \in Operations(GreetingHandler)
      /\ Connects' = Connects /\ Writes' = Writes - 1
  <2>1. /\ io \in Operations(GreetingHandler) /\ Ready(io, "handle_write", ec)
        /\ {"handle_connect", "handle_write"} \subseteq GreetingHandler
        /\ io' = Dispatch(io, "handle_write", ec)
    BY GreetingTypes DEF HandleWrite, GreetingHandler
  <2>2. /\ io' \in Operations(GreetingHandler)
        /\ \A g \in GreetingHandler :
             Outstanding(io', g) = Outstanding(io, g) - One(g = "handle_write")
    BY <2>1, DispatchRemoves
  <2> QED BY <2>1, <2>2, GreetingTypes DEF Connects, Writes, One
<1>3. /\ Connects = 0 /\ Writes = 1 /\ Connects' = 0 /\ Writes' = 0
      /\ io'["handle_write"]["ok"] = 0
  <2>1. Connects = 0 /\ Writes = 1 /\ Connects' = 0 /\ Writes' = 0
    BY <1>1, <1>2, GreetingTypes DEF OneOperation
  <2>2. /\ io'["handle_write"]["ok"] \in Nat
        /\ io'["handle_write"]["ok"] <= Writes'
    BY <1>2, OutstandingIsNat DEF Writes, GreetingHandler, Status, Result
  <2> QED BY <2>1, <2>2
<1>4. GreetingTypeOK'
  <2>1. doneSaid' \in BOOLEAN
    BY DEF HandleWrite
  <2> QED BY <1>2, <2>1 DEF HandleWrite, GreetingTypeOK, Operations
<1>5. doneSaid' => Len(received) = Length
  <2>1. doneSaid' => ec = "ok"
    BY Zenon DEF HandleWrite
  <2> QED BY <1>1, <2>1 DEF WrittenIsSent
<1> QED BY <1>3, <1>4, <1>5
      DEF HandleWrite, OneOperation, NothingSentYet, WrittenIsSent, FirstPiecesAreRight

LEMMA GreetingInvPreserved == GreetingInv /\ [GreetingNext]_greetingVars => GreetingInv'
<1> SUFFICES ASSUME GreetingInv, [GreetingNext]_greetingVars PROVE GreetingInv'
  OBVIOUS
<1>1. CASE ConstructClient
  BY <1>1, ConstructClientInv
<1>2. CASE SendRest
  BY <1>2, SendRestInv
<1>3. ASSUME NEW ec \in Result, ConnectEnds(ec) \/ HandleConnect(ec) \/ HandleWrite(ec)
      PROVE  GreetingInv'
  BY <1>3, ConnectEndsInv, HandleConnectInv, HandleWriteInv
<1>4. CASE RunReturns
  BY <1>4 DEF RunReturns, GreetingInv, GreetingTypeOK, OneOperation, NothingSentYet,
              WrittenIsSent, FirstPiecesAreRight, Connects, Writes
<1>5. CASE GreetingEnded \/ UNCHANGED greetingVars
  BY <1>5 DEF GreetingEnded, greetingVars, GreetingInv, GreetingTypeOK, OneOperation,
              NothingSentYet, WrittenIsSent, FirstPiecesAreRight, Connects, Writes
<1> QED BY <1>1, <1>2, <1>3, <1>4, <1>5 DEF GreetingNext

\* "Done!" is printed only when as many pieces have gone as the greeting has, and
\* those that the socket took while msg lived are the greeting's own.  Of the pieces
\* that went later, from where msg was, nothing is claimed.
THEOREM DoneMeansWholeLength == GreetingSpec => []DoneMeansSent
<1>1. GreetingInv => DoneMeansSent
  BY DEF GreetingInv, WrittenIsSent, FirstPiecesAreRight, DoneMeansSent
<1> QED BY <1>1, GreetingInitInv, GreetingInvPreserved, PTL DEF GreetingSpec

-----------------------------------------------------------------------------
(* RepeatTimers.  FinalCount follows from what is counted while timers are   *)
(* pending: by print(), one less than the periods until its timer is due at  *)
(* the earliest; by add(), the timers that are not pending any more.         *)
Pending == waiting \cup ready
Past    == (1..timers) \ Pending

TimersTypeOK ==
  /\ handler \in {"print", "add"}
  /\ timers \in 0..Wanted /\ expires \in [Timer -> Nat]
  /\ Pending \subseteq 1..timers /\ waiting \cap ready = {}
  /\ count \in Nat /\ now \in Nat /\ returned \in BOOLEAN

NoTimerEarly == \A t \in (1..timers) \ waiting : expires[t] <= now

PrintsCounted ==
  handler = "print" =>
    /\ count <= Limit /\ (timers = 0 => count = 0)
    /\ timers = 1 => expires[1] > count
    /\ Past # {} => count = Limit

AddsCounted == handler = "add" => count = Cardinality(Past)

OverAtTheEnd == returned => timers = Wanted /\ Pending = {}

TimersInv ==
  TimersTypeOK /\ NoTimerEarly /\ PrintsCounted /\ AddsCounted /\ OverAtTheEnd

LEMMA TimersTypes ==
  ASSUME TimersTypeOK
  PROVE  /\ Limit \in Nat /\ Times \in Nat /\ Seconds \in Nat /\ MaxNow \in Nat
         /\ Wanted \in Nat /\ Period \in Nat /\ timers \in Nat /\ timers <= Wanted
         /\ 1..Wanted \subseteq Timer /\ 1 \in Timer
         /\ (handler = "print" => Wanted = 1 /\ Period = 1)
BY TimersAssumption DEF TimersTypeOK, Wanted, Period, Timer

LEMMA TimersInitInv == TimersInit => TimersInv
<1> SUFFICES ASSUME TimersInit PROVE TimersInv
  OBVIOUS
<1> USE DEF TimersInit
<1>1. TimersTypeOK
  <2>1. Wanted \in Nat
    BY TimersAssumption DEF Wanted
  <2>2. returned \in BOOLEAN
    BY Zenon
  <2>3. expires \in [Timer -> Nat]
    OBVIOUS
  <2>4. Pending = {} /\ waiting = {}
    BY DEF Pending
  <2> QED BY <2>1, <2>2, <2>3, <2>4 DEF TimersTypeOK
<1>2. Past = {}
  BY DEF Past
<1>3. count = Cardinality(Past)
  BY <1>2, FS_EmptySet
<1> QED BY <1>1, <1>2, <1>3, TimersAssumption
      DEF TimersInv, NoTimerEarly, PrintsCounted, AddsCounted, OverAtTheEnd, Pending

LEMMA StartTimerInv ==
  ASSUME TimersInv, StartTimer
  PROVE  TimersInv'
<1> USE DEF TimersInv, StartTimer
<1>1. timers' = timers + 1 /\ timers' \in Timer /\ timers' <= Wanted /\ Wanted' = Wanted
  BY TimersTypes DEF Wanted
<1>2. Pending' = Pending \cup {timers'} /\ timers' \notin Pending /\ Past' = Past
  BY <1>1, TimersTypes DEF TimersTypeOK, Pending, Past
<1>3. expires' \in [Timer -> Nat] /\ expires'[timers'] = now + Period
      /\ \A t \in 1..timers : expires'[t] = expires[t]
  BY <1>1, TimersTypes DEF TimersTypeOK
<1>4. TimersTypeOK'
  BY <1>1, <1>2, <1>3, TimersTypes DEF TimersTypeOK, Pending
<1>5. NoTimerEarly'
  BY <1>1, <1>3, TimersTypes DEF NoTimerEarly
<1>6. PrintsCounted'
  BY <1>1, <1>2, <1>3, TimersTypes DEF PrintsCounted, TimersTypeOK
<1>7. AddsCounted'
  BY <1>2 DEF AddsCounted
<1>8. OverAtTheEnd'
  BY <1>1 DEF OverAtTheEnd, TimersTypeOK
<1> QED BY <1>4, <1>5, <1>6, <1>7, <1>8

LEMMA ExpiresInv ==
  ASSUME TimersInv, NEW t \in Timer, Expires(t)
  PROVE  TimersInv'
<1> USE DEF TimersInv, Expires, Running
<1>1. Pending' = Pending /\ Past' = Past /\ Wanted' = Wanted
  BY DEF Pending, Past, Wanted
<1>2. TimersTypeOK'
  BY <1>1 DEF TimersTypeOK
<1>3. NoTimerEarly'
  BY DEF NoTimerEarly, TimersTypeOK, Pending
<1> QED BY <1>1, <1>2, <1>3 DEF PrintsCounted, AddsCounted, OverAtTheEnd

LEMMA PrintCountInv ==
  ASSUME TimersInv, NEW t \in Timer, PrintCount(t)
  PROVE  TimersInv'
<1> USE DEF TimersInv, PrintCount, Running
<1>1. /\ t = 1 /\ timers = 1 /\ waiting = {} /\ ready = {1} /\ ready' = {}
      /\ Wanted = 1 /\ Wanted' = 1
  <2>1. Wanted = 1 /\ Wanted' = 1
    BY DEF Wanted
  <2> QED BY <2>1 DEF TimersTypeOK, Pending
<1>2. CASE CountsOn
  <2>1. /\ count' = count + 1 /\ waiting' = {1}
        /\ expires' = [expires EXCEPT ![1] = expires[1] + 1]
    BY <1>1, <1>2
  <2>2. TimersTypeOK' /\ expires'[1] = expires[1] + 1
    BY <1>1, <2>1, TimersTypes DEF TimersTypeOK, Pending
  <2>3. Past' = {} /\ NoTimerEarly'
    BY <1>1, <2>1 DEF Past, Pending, NoTimerEarly
  <2>4. PrintsCounted'
    BY <1>1, <1>2, <2>1, <2>2, <2>3, TimersTypes
       DEF PrintsCounted, CountsOn, TimersTypeOK
  <2> QED BY <2>2, <2>3, <2>4 DEF AddsCounted, OverAtTheEnd, TimersTypeOK
<1>3. CASE ~CountsOn
  <2>1. UNCHANGED <<count, expires, waiting>>
    BY <1>3
  <2>2. TimersTypeOK'
    BY <1>1, <2>1 DEF TimersTypeOK, Pending, Wanted
  <2>3. count = Limit
    BY <1>3, TimersTypes DEF CountsOn, PrintsCounted, TimersTypeOK
  <2>4. PrintsCounted'
    BY <1>1, <2>1, <2>3 DEF PrintsCounted
  <2>5. NoTimerEarly'
    BY <2>1 DEF NoTimerEarly
  <2> QED BY <2>2, <2>4, <2>5 DEF AddsCounted, OverAtTheEnd, TimersTypeOK
<1> QED BY <1>2, <1>3

LEMMA AddInv ==
  ASSUME TimersInv, NEW t \in Timer, Add(t)
  PROVE  TimersInv'
<1> USE DEF TimersInv, Add, Running
<1>1. Wanted' = Wanted /\ handler = "add"
  BY DEF Wanted
<1>2. TimersTypeOK'
  BY <1>1 DEF TimersTypeOK, Pending
<1>3. NoTimerEarly' /\ PrintsCounted' /\ OverAtTheEnd'
  BY <1>1 DEF NoTimerEarly, PrintsCounted, OverAtTheEnd
<1>4. AddsCounted'
  <2>1. Past' = Past \cup {t} /\ t \notin Past
    BY DEF Past, Pending, TimersTypeOK
  <2>2. IsFiniteSet(1..timers) /\ Past \in SUBSET (1..timers)
    BY TimersTypes, FS_Interval DEF Past
  <2>3. IsFiniteSet(Past)
    BY <2>2, FS_Subset
  <2>4. Cardinality(Past \cup {t}) = Cardinality(Past) + 1
    BY <2>1, <2>3, FS_AddElement
  <2> QED BY <1>1, <2>1, <2>4 DEF AddsCounted
<1> QED BY <1>2, <1>3, <1>4

LEMMA TimersInvPreserved == TimersInv /\ [TimersNext]_timerVars => TimersInv'
<1> SUFFICES ASSUME TimersInv, [TimersNext]_timerVars PROVE TimersInv'
  OBVIOUS
<1>1. CASE StartTimer
  BY <1>1, StartTimerInv
<1>2. ASSUME NEW t \in Timer, Expires(t) \/ PrintCount(t) \/ Add(t) PROVE TimersInv'
  BY <1>2, ExpiresInv, PrintCountInv, AddInv
<1>3. CASE RunIsOver
  BY <1>3 DEF RunIsOver, Running, TimersInv, TimersTypeOK, NoTimerEarly, PrintsCounted,
              AddsCounted, OverAtTheEnd, Pending, Past, Wanted
<1>4. CASE SecondPasses
  <2>1. now' \in Nat /\ now' >= now
    BY <1>4, TimersAssumption DEF SecondPasses, TimersInv, TimersTypeOK
  <2>2. /\ UNCHANGED <<handler, timers, expires, waiting, ready, count, returned>>
        /\ Wanted' = Wanted /\ Pending' = Pending
    BY <1>4 DEF SecondPasses, Wanted, Pending
  <2>3. TimersTypeOK'
    BY <2>1, <2>2 DEF TimersInv, TimersTypeOK
  <2>4. NoTimerEarly'
    <3> SUFFICES ASSUME NEW t \in (1..timers) \ waiting PROVE expires[t] <= now'
      BY <2>2 DEF NoTimerEarly
    <3>1. expires[t] <= now /\ t \in Timer
      BY TimersTypes DEF TimersInv, NoTimerEarly, TimersTypeOK
    <3> QED BY <2>1, <3>1 DEF TimersInv, TimersTypeOK
  <2> QED BY <2>2, <2>3, <2>4 DEF TimersInv, PrintsCounted, AddsCounted, OverAtTheEnd, Past
<1>5. CASE UNCHANGED timerVars
  BY <1>5 DEF timerVars, TimersInv, TimersTypeOK, NoTimerEarly, PrintsCounted,
              AddsCounted, OverAtTheEnd, Pending, Past, Wanted
<1> QED BY <1>1, <1>2, <1>3, <1>4, <1>5 DEF TimersNext

\* When io.run() returns the count is complete, and not before its time, for any
\* limit, any number of timers and handlers that are late by any time.
THEOREM CountsAreFinal == TimersSpec => []FinalCount
<1>1. TimersInv => FinalCount
  <2> SUFFICES ASSUME TimersInv, returned PROVE FinalCount
    BY DEF FinalCount
  <2>1. timers = Wanted /\ waiting = {} /\ Past = 1..Wanted
    BY DEF TimersInv, OverAtTheEnd, Past, Pending
  <2>2. \A t \in 1..Wanted : expires[t] <= now
    BY <2>1 DEF TimersInv, NoTimerEarly
  <2>3. CASE handler = "print"
    BY <2>1, <2>2, <2>3, TimersTypes DEF TimersInv, PrintsCounted, FinalCount
  <2>4. CASE handler = "add"
    <3>1. Cardinality(1..Times) = Times
      BY FS_Interval, TimersAssumption
    <3> QED BY <2>1, <2>2, <2>4, <3>1 DEF TimersInv, AddsCounted, Wanted, FinalCount
  <2> QED BY <2>3, <2>4 DEF TimersInv, TimersTypeOK
<1> QED BY <1>1, TimersInitInv, TimersInvPreserved, PTL DEF TimersSpec

-----------------------------------------------------------------------------
(* Buffers.                                                                  *)
(* Each piece of storage has one owner, who knows its size: then what is     *)
(* deleted or replaced is nobody else's.                                     *)
BufferTypeOK ==
  /\ alive \subseteq Buffer
  /\ size_ \in [Buffer -> Nat] /\ ptr_ \in [Buffer -> Cell \cup {nullptr}]
  /\ DOMAIN heap \subseteq Cell /\ heap \in [DOMAIN heap -> Value]
  /\ undefined \in BOOLEAN

OneOwner == \A a, b \in alive : ptr_[a] = ptr_[b] /\ ptr_[a] # nullptr => a = b

SizesFit ==
  \A b \in alive :
    /\ ptr_[b] = nullptr => size_[b] = 0
    /\ ptr_[b] \in DOMAIN heap => size_[b] = Len(heap[ptr_[b]])

BufferInv == BufferTypeOK /\ OneOwner /\ SizesFit

\* What a buffer is worth, in terms of its pointer alone.
Worth(b) ==
  IF b \notin alive THEN NoBuffer
  ELSE IF ptr_[b] = nullptr THEN <<>>
  ELSE IF ptr_[b] \in DOMAIN heap THEN heap[ptr_[b]] ELSE Broken

LEMMA WholeSeq ==
  ASSUME NEW v \in Value
  PROVE  SubSeq(v, 1, Len(v)) = v /\ Len(v) \in Nat
<1>1. v \in Seq(Float)
  BY BufferAssumption
<1> QED BY <1>1

LEMMA ReadableMeans ==
  ASSUME BufferInv, NEW b \in alive
  PROVE  /\ Readable(b) <=> ptr_[b] = nullptr \/ ptr_[b] \in DOMAIN heap
         /\ Readable(b) => Elements(b) = Worth(b) /\ Elements(b) \in Value
                           /\ size_[b] = Len(Elements(b))
<1>1. CASE ptr_[b] = nullptr
  BY <1>1, BufferAssumption DEF BufferInv, SizesFit, Readable, Elements, Worth
<1>2. CASE ptr_[b] \in DOMAIN heap /\ ptr_[b] # nullptr
  <2>1. heap[ptr_[b]] \in Value /\ size_[b] = Len(heap[ptr_[b]])
    BY <1>2 DEF BufferInv, BufferTypeOK, SizesFit
  <2>2. SubSeq(heap[ptr_[b]], 1, size_[b]) = heap[ptr_[b]] /\ size_[b] \in Nat
    BY <2>1, WholeSeq
  <2>3. Readable(b)
    BY <1>2, <2>1, <2>2 DEF Readable, Allocated
  <2>4. Elements(b) = heap[ptr_[b]]
    BY <1>2, <2>2 DEF Elements
  <2>5. Worth(b) = heap[ptr_[b]]
    BY <1>2 DEF Worth
  <2> QED BY <1>2, <2>1, <2>3, <2>4, <2>5
<1>3. CASE ptr_[b] \notin DOMAIN heap /\ ptr_[b] # nullptr
  BY <1>3 DEF Readable, Allocated
<1> QED BY <1>1, <1>2, <1>3

Worths == [b \in Buffer |-> Worth(b)]

LEMMA ValIsWorths == BufferInv => val = Worths
BY ReadableMeans DEF val, Worths, Worth

LEMMA ValIsWorthsNext == BufferInv' => val' = Worths'
<1> DEFINE Same == val = Worths
<1>1. BufferInv => Same
  BY ValIsWorths
<1> HIDE DEF Same
<1>2. BufferInv' => Same'
  BY <1>1, PTL
<1> QED BY <1>2 DEF Same

-----------------------------------------------------------------------------
(* The invariant. *)
LEMMA BufferInitInv == BufferInit => BufferInv
<1> SUFFICES ASSUME BufferInit PROVE BufferInv
  OBVIOUS
<1>1. undefined \in BOOLEAN
  BY Zenon DEF BufferInit
<1> QED BY <1>1 DEF BufferInit, BufferInv, BufferTypeOK, OneOwner, SizesFit

\* Storage that is given out has no other owner.
LEMMA AllocateInv ==
  ASSUME BufferInv, NEW b \in Buffer, NEW v \in Value, NEW c \in Fresh,
         NEW h \in {heap, Without(heap, ptr_[b])},
         h = heap \/ b \in alive, alive' = alive \cup {b},
         heap' = With(h, c, v), ptr_' = [ptr_ EXCEPT ![b] = c],
         size_' = [size_ EXCEPT ![b] = Len(v)], UNCHANGED undefined
  PROVE  BufferInv'
<1> USE DEF BufferInv
<1>1. /\ c \in Cell /\ c # nullptr /\ c \notin DOMAIN heap
      /\ \A a \in alive : ptr_[a] # c
  BY BufferAssumption DEF Fresh
<1>2. DOMAIN h \subseteq DOMAIN heap /\ \A d \in DOMAIN h : h[d] = heap[d]
  BY DEF Without
<1>3. /\ DOMAIN heap' = DOMAIN h \cup {c} /\ heap'[c] = v
      /\ \A d \in DOMAIN h : heap'[d] = heap[d]
  BY <1>1, <1>2 DEF With
<1>4. BufferTypeOK'
  <2>1. heap' \in [DOMAIN heap' -> Value] /\ DOMAIN heap' \subseteq Cell
    <3>1. heap' = [d \in DOMAIN heap' |-> heap'[d]]
      BY <1>3 DEF With
    <3> QED BY <1>1, <1>2, <1>3, <3>1 DEF BufferTypeOK
  <2>2. ptr_' \in [Buffer -> Cell \cup {nullptr}]
    BY <1>1 DEF BufferTypeOK
  <2>3. size_' \in [Buffer -> Nat]
    BY WholeSeq DEF BufferTypeOK
  <2> QED BY <2>1, <2>2, <2>3 DEF BufferTypeOK
<1>5. OneOwner'
  BY <1>1 DEF BufferTypeOK, OneOwner
<1>6. SizesFit'
  BY <1>1, <1>2, <1>3, BufferAssumption DEF BufferTypeOK, SizesFit
<1> QED BY <1>4, <1>5, <1>6

\* Storage that is deleted, and a buffer that is destroyed, leave the others theirs.
LEMMA DeleteInv ==
  ASSUME BufferInv, NEW b \in alive, heap' = Without(heap, ptr_[b]),
         \/ UNCHANGED <<alive, ptr_>>
         \/ alive' = alive \ {b} /\ ptr_' = [ptr_ EXCEPT ![b] = nullptr],
         UNCHANGED <<size_, undefined>>
  PROVE  BufferInv'
<1> USE DEF BufferInv
<1>1. /\ DOMAIN heap' = DOMAIN heap \ {ptr_[b]}
      /\ \A d \in DOMAIN heap' : heap'[d] = heap[d]
  BY DEF Without
<1>2. BufferTypeOK'
  <2>1. heap' \in [DOMAIN heap' -> Value] /\ DOMAIN heap' \subseteq Cell
    BY <1>1 DEF BufferTypeOK, Without
  <2> QED BY <2>1 DEF BufferTypeOK
<1>3. OneOwner'
  BY DEF BufferTypeOK, OneOwner
<1>4. SizesFit'
  BY <1>1 DEF BufferTypeOK, SizesFit
<1> QED BY <1>2, <1>3, <1>4

\* A pointer that is taken over has one owner again.
LEMMA TakeInv ==
  ASSUME BufferInv, NEW b \in Buffer, NEW other \in alive, Take(b, other),
         alive' = alive \cup {b}
  PROVE  BufferInv'
<1> USE DEF BufferInv, Take
<1>1. BufferTypeOK'
  BY DEF BufferTypeOK
<1>2. OneOwner'
  BY DEF BufferTypeOK, OneOwner
<1>3. SizesFit'
  BY BufferAssumption DEF BufferTypeOK, SizesFit
<1> QED BY <1>1, <1>2, <1>3

LEMMA UndefinedInv == BufferInv /\ Undefined => BufferInv'
<1> SUFFICES ASSUME BufferInv, Undefined PROVE BufferInv'
  OBVIOUS
<1>1. undefined' \in BOOLEAN
  BY DEF Undefined
<1> QED BY <1>1 DEF Undefined, BufferInv, BufferTypeOK, OneOwner, SizesFit

-----------------------------------------------------------------------------
(* What the same steps do to the values. *)
LEMMA AllocateVal ==
  ASSUME BufferInv, BufferInv', NEW b \in Buffer, NEW v \in Value, NEW c \in Fresh,
         NEW h \in {heap, Without(heap, ptr_[b])},
         h = heap \/ b \in alive, alive' = alive \cup {b},
         heap' = With(h, c, v), ptr_' = [ptr_ EXCEPT ![b] = c]
  PROVE  val' = [val EXCEPT ![b] = v]
<1>1. /\ c \in Cell /\ c # nullptr /\ c \notin DOMAIN heap
      /\ \A a \in alive : ptr_[a] # c
  BY BufferAssumption DEF Fresh
<1>2. DOMAIN heap' = DOMAIN h \cup {c} /\ \A d \in DOMAIN h : heap'[d] = heap[d]
  BY <1>1 DEF With, Without
<1>3. heap'[c] = v
  BY DEF With
<1>4. \A a \in alive \ {b} : /\ ptr_'[a] = ptr_[a] /\ ptr_[a] # c
                             /\ ptr_[a] \in DOMAIN h <=> ptr_[a] \in DOMAIN heap
  BY <1>1, BufferAssumption DEF BufferInv, BufferTypeOK, OneOwner, Without
<1>5. \A a \in Buffer \ {b} : Worths'[a] = Worths[a]
  BY <1>2, <1>4 DEF Worths, Worth
<1>6. Worths'[b] = v
  BY <1>1, <1>2, <1>3 DEF BufferInv, BufferTypeOK, Worths, Worth
<1>7. Worths' = [Worths EXCEPT ![b] = v]
  <2>1. Worths' = [a \in Buffer |-> Worths'[a]] /\ Worths = [a \in Buffer |-> Worths[a]]
    BY DEF Worths
  <2> QED BY <1>5, <1>6, <2>1
<1>8. val = Worths /\ val' = Worths'
  BY ValIsWorths, ValIsWorthsNext
<1> QED BY <1>7, <1>8

LEMMA DeleteVal ==
  ASSUME BufferInv, BufferInv', NEW b \in alive, heap' = Without(heap, ptr_[b]),
         \/ UNCHANGED <<alive, ptr_>>
         \/ alive' = alive \ {b} /\ ptr_' = [ptr_ EXCEPT ![b] = nullptr]
  PROVE  val' = [val EXCEPT ![b] = IF b \notin alive' THEN NoBuffer
                                   ELSE IF ptr_[b] = nullptr THEN <<>> ELSE Broken]
<1> DEFINE v == IF b \notin alive' THEN NoBuffer
                ELSE IF ptr_[b] = nullptr THEN <<>> ELSE Broken
<1>1. /\ DOMAIN heap' = DOMAIN heap \ {ptr_[b]}
      /\ \A d \in DOMAIN heap' : heap'[d] = heap[d]
  BY DEF Without
<1>2. \A a \in alive \ {b} :
        /\ a \in alive' /\ ptr_'[a] = ptr_[a]
        /\ ptr_[a] # nullptr =>
             (ptr_[a] \in DOMAIN heap' <=> ptr_[a] \in DOMAIN heap)
  BY <1>1 DEF BufferInv, BufferTypeOK, OneOwner
<1>3. \A a \in Buffer \ {b} : a \in alive' <=> a \in alive
  OBVIOUS
<1>4. \A a \in Buffer \ {b} : Worths'[a] = Worths[a]
  BY <1>1, <1>2, <1>3 DEF Worths, Worth
<1>5. Worths'[b] = v
  BY <1>1 DEF BufferInv, BufferTypeOK, Worths, Worth
<1> HIDE DEF v
<1>6. Worths' = [Worths EXCEPT ![b] = v]
  <2>1. Worths' = [a \in Buffer |-> Worths'[a]] /\ Worths = [a \in Buffer |-> Worths[a]]
    BY DEF Worths
  <2> QED BY <1>4, <1>5, <2>1
<1>7. val = Worths /\ val' = Worths'
  BY ValIsWorths, ValIsWorthsNext
<1> QED BY <1>6, <1>7 DEF v

LEMMA TakeVal ==
  ASSUME BufferInv, BufferInv', NEW b \in Buffer, NEW other \in alive,
         Take(b, other), alive' = alive \cup {b}
  PROVE  val' = [val EXCEPT ![b] = val[other], ![other] = <<>>]
<1> USE DEF Take
<1>1. b \in Buffer /\ other \in Buffer /\ alive \subseteq Buffer
  BY DEF BufferInv, BufferTypeOK
<1>2. Worths'[other] = <<>>
  BY <1>1 DEF BufferInv, BufferTypeOK, Worths, Worth
<1>3. b # other => Worths'[b] = Worths[other]
  BY <1>1 DEF BufferInv, BufferTypeOK, Worths, Worth
<1>4. \A a \in Buffer \ {b, other} : Worths'[a] = Worths[a]
  BY DEF BufferInv, BufferTypeOK, Worths, Worth
<1>5. Worths' = [Worths EXCEPT ![b] = Worths[other], ![other] = <<>>]
  <2>1. Worths' = [a \in Buffer |-> Worths'[a]] /\ Worths = [a \in Buffer |-> Worths[a]]
    BY DEF Worths
  <2> HIDE DEF Take
  <2> QED BY <1>1, <1>2, <1>3, <1>4, <2>1
<1>6. val = Worths /\ val' = Worths'
  BY ValIsWorths, ValIsWorthsNext
<1> QED BY <1>5, <1>6

LEMMA UndefinedVal == Undefined => val' = val
BY DEF Undefined, val, Readable, Elements, Allocated

-----------------------------------------------------------------------------
(* Each call implements a step of BufferValues, or changes no value. *)
Refines == BufferInv' /\ [Values!Next]_Values!valueVars

\* What a buffer that is alive has for a value.
LEMMA ValuesOfAlive ==
  ASSUME BufferInv
  PROVE  /\ val \in [Buffer -> Value \cup {NoBuffer, Broken}]
         /\ \A a \in Buffer : a \notin alive <=> val[a] = NoBuffer
         /\ \A a \in alive : Readable(a) => val[a] = Elements(a) /\ val[a] \in Value
                                            /\ size_[a] = Len(val[a])
         /\ \A a \in alive : ~Readable(a) => val[a] = Broken
         /\ \A a \in alive : Readable(a) <=> Deletable(a)
<1>1. alive \subseteq Buffer
  BY DEF BufferInv, BufferTypeOK
<1>2. \A a \in alive : Readable(a) => Elements(a) \in Value /\ size_[a] = Len(Elements(a))
  BY ReadableMeans
<1>3. \A a \in alive : Readable(a) <=> Deletable(a)
  BY ReadableMeans DEF Deletable, Allocated
<1>4. \A a \in Buffer : val[a] = IF a \notin alive THEN NoBuffer
                                 ELSE IF Readable(a) THEN Elements(a) ELSE Broken
  BY DEF val
<1>5. val \in [Buffer -> Value \cup {NoBuffer, Broken}]
  <2>1. val = [a \in Buffer |-> val[a]]
    BY DEF val
  <2> QED BY <1>2, <1>4, <2>1
<1> QED BY <1>1, <1>2, <1>3, <1>4, <1>5, BufferAssumption

LEMMA ConstructRefines ==
  ASSUME BufferInv, ~undefined, NEW b \in Buffer, NEW v \in Value, Construct(b, v)
  PROVE  Refines
<1>1. BufferInv'
  BY AllocateInv DEF Construct
<1>2. val' = [val EXCEPT ![b] = v] /\ val[b] = NoBuffer
  BY <1>1, AllocateVal, ValuesOfAlive DEF Construct
<1>3. Values!Construct(b, v)
  BY <1>2 DEF Construct, Values!Construct, Values!Set, Values!Alive
<1>4. Values!Next
  BY <1>3 DEF Values!Next
<1> QED BY <1>1, <1>4 DEF Refines

\* What is undefined is the use of a broken buffer.
LEMMA UndefinedRefines ==
  ASSUME BufferInv, ~undefined, Undefined, NEW a \in alive, ~Readable(a)
  PROVE  Refines
<1>1. val[a] = Broken /\ a \in Buffer
  BY ValuesOfAlive DEF BufferInv, BufferTypeOK
<1>2. Values!UseBroken(a)
  BY <1>1, UndefinedVal DEF Undefined, Values!UseBroken
<1>3. Values!Next
  BY <1>1, <1>2 DEF Values!Next
<1> QED BY <1>3, UndefinedInv DEF Refines

LEMMA CopyConstructRefines ==
  ASSUME BufferInv, ~undefined, NEW b \in Buffer, NEW other \in Buffer,
         CopyConstruct(b, other)
  PROVE  Refines
<1>1. CASE Readable(other)
  BY <1>1, ValuesOfAlive, ConstructRefines DEF CopyConstruct
<1>2. CASE ~Readable(other)
  BY <1>2, UndefinedRefines DEF CopyConstruct
<1> QED BY <1>1, <1>2

\* An allocation that fails in an assignment breaks its target, unless that has
\* no storage.
LEMMA AssignmentThrowsRefines ==
  ASSUME BufferInv, ~undefined, NEW b \in alive, Deletable(b), AssignmentThrows(b)
  PROVE  Refines
<1>1. BufferInv'
  BY DeleteInv DEF AssignmentThrows
<1>2. val' = [val EXCEPT ![b] = IF ptr_[b] = nullptr THEN <<>> ELSE Broken]
  BY <1>1, DeleteVal DEF AssignmentThrows
<1>3. b \in Buffer /\ val[b] \in Value /\ undefined' = undefined
  BY ValuesOfAlive DEF BufferInv, BufferTypeOK, AssignmentThrows
<1>4. CASE ptr_[b] = nullptr
  <2>1. val[b] = <<>>
    BY <1>3, <1>4, ValIsWorths DEF Worths, Worth
  <2>2. val' = val
    BY <1>2, <1>4, <2>1, ValuesOfAlive
  <2> QED BY <1>1, <1>3, <2>2 DEF Refines, Values!valueVars
<1>5. CASE ptr_[b] # nullptr
  <2>1. Values!FailToAssign(b)
    BY <1>2, <1>3, <1>5 DEF Values!FailToAssign, Values!Set
  <2>2. Values!Next
    BY <1>3, <2>1 DEF Values!Next
  <2> QED BY <1>1, <2>2 DEF Refines
<1> QED BY <1>4, <1>5

LEMMA ReplaceVal ==
  ASSUME BufferInv, NEW b \in alive, NEW v \in Value, Replace(b, Len(v), v)
  PROVE  BufferInv' /\ val' = [val EXCEPT ![b] = v]
<1>1. b \in Buffer /\ alive' = alive \cup {b}
  BY DEF BufferInv, BufferTypeOK, Replace
<1>2. BufferInv'
  BY <1>1, AllocateInv DEF Replace
<1> QED BY <1>1, <1>2, AllocateVal DEF Replace

LEMMA CopyAssignRefines ==
  ASSUME BufferInv, ~undefined, NEW b \in Buffer, NEW other \in Buffer,
         CopyAssign(b, other)
  PROVE  Refines
<1>1. b \in alive /\ other \in alive
  BY DEF CopyAssign
<1>2. CASE ~Deletable(b) /\ Undefined
  BY <1>1, <1>2, ValuesOfAlive, UndefinedRefines
<1>3. CASE Deletable(b) /\ AssignmentThrows(b)
  BY <1>1, <1>3, AssignmentThrowsRefines
<1>4. CASE ~Readable(other) /\ Undefined
  BY <1>1, <1>4, UndefinedRefines
<1>5. CASE /\ Deletable(b) /\ b # other /\ Readable(other)
           /\ Replace(b, size_[other], Elements(other))
  <2>1. /\ val[other] = Elements(other) /\ val[other] \in Value
        /\ size_[other] = Len(val[other]) /\ val[b] # Broken
    BY <1>1, <1>5, ValuesOfAlive, BufferAssumption
  <2>2. BufferInv' /\ val' = [val EXCEPT ![b] = val[other]]
    BY <1>1, <1>5, <2>1, ReplaceVal
  <2>3. Values!Copy(b, other)
    BY <1>5, <2>1, <2>2 DEF Replace, Values!Copy, Values!Set
  <2>4. Values!Next
    BY <1>5, <2>3 DEF Values!Next
  <2> QED BY <2>2, <2>4 DEF Refines
<1>6. ASSUME Deletable(b), NEW v \in Value, Len(v) = size_[b], Replace(b, Len(v), v)
      PROVE  Refines
  <2>1. val[b] \in Value /\ size_[b] = Len(val[b])
    BY <1>1, <1>6, ValuesOfAlive
  <2>2. BufferInv' /\ val' = [val EXCEPT ![b] = v]
    BY <1>1, <1>6, ReplaceVal
  <2>3. Values!AssignSelf(b, v)
    BY <1>6, <2>1, <2>2 DEF Replace, Values!AssignSelf, Values!Set
  <2>4. Values!Next
    BY <2>3 DEF Values!Next
  <2> QED BY <2>2, <2>4 DEF Refines
<1> QED BY <1>2, <1>3, <1>4, <1>5, <1>6 DEF CopyAssign

LEMMA TakeRefines ==
  ASSUME BufferInv, ~undefined, NEW b \in Buffer, NEW other \in alive,
         Take(b, other), alive' = alive \cup {b}
  PROVE  Refines
<1>1. BufferInv'
  BY TakeInv
<1>2. val' = [val EXCEPT ![b] = val[other], ![other] = <<>>]
  BY <1>1, TakeVal
<1>3. other \in Buffer /\ val[other] # NoBuffer
  BY ValuesOfAlive DEF BufferInv, BufferTypeOK
<1>4. Values!Move(b, other)
  BY <1>2, <1>3 DEF Take, Values!Move, Values!Alive
<1>5. Values!Next
  BY <1>3, <1>4 DEF Values!Next
<1> QED BY <1>1, <1>5 DEF Refines

LEMMA DestroyRefines ==
  ASSUME BufferInv, ~undefined, NEW b \in Buffer, Destroy(b)
  PROVE  Refines
<1>1. b \in alive
  BY DEF Destroy
<1>2. CASE ~Deletable(b)
  BY <1>1, <1>2, ValuesOfAlive, UndefinedRefines DEF Destroy
<1>3. CASE Deletable(b)
  <2>1. BufferInv'
    BY <1>1, <1>3, DeleteInv DEF Destroy
  <2>2. val' = [val EXCEPT ![b] = NoBuffer]
    BY <1>1, <1>3, <2>1, DeleteVal DEF Destroy
  <2>3. Values!Destroy(b)
    BY <1>1, <1>3, <2>2, ValuesOfAlive DEF Destroy, Values!Destroy, Values!Set
  <2>4. Values!Next
    BY <2>3 DEF Values!Next
  <2> QED BY <2>1, <2>4 DEF Refines
<1> QED BY <1>2, <1>3

LEMMA StepRefines == BufferInv /\ [BufferNext]_bufferVars => Refines
<1> SUFFICES ASSUME BufferInv, [BufferNext]_bufferVars PROVE Refines
  OBVIOUS
<1>1. ASSUME UNCHANGED bufferVars PROVE Refines
  <2>1. BufferInv' /\ val' = val
    BY <1>1 DEF bufferVars, BufferInv, BufferTypeOK, OneOwner, SizesFit,
                val, Readable, Elements, Allocated
  <2> QED BY <1>1, <2>1 DEF bufferVars, Refines, Values!valueVars
<1>2. ASSUME NEW b \in Buffer, BufferStep(b) PROVE Refines
  <2>1. ~undefined
    BY <1>2 DEF BufferStep
  <2>2. ASSUME NEW v \in Value, Construct(b, v) PROVE Refines
    BY <2>1, <2>2, ConstructRefines
  <2>3. ASSUME NEW other \in Buffer, CopyConstruct(b, other) \/ CopyAssign(b, other)
        PROVE  Refines
    BY <2>1, <2>3, CopyConstructRefines, CopyAssignRefines
  <2>4. ASSUME NEW other \in Buffer, MoveConstruct(b, other) \/ MoveAssign(b, other)
        PROVE  Refines
    <3>1. other \in alive /\ Take(b, other) /\ alive' = alive \cup {b}
      BY <2>4 DEF MoveConstruct, MoveAssign
    <3> QED BY <2>1, <3>1, TakeRefines
  <2>5. CASE Destroy(b)
    BY <2>1, <2>5, DestroyRefines
  <2>6. CASE ConstructorThrows(b)
    BY <1>1, <2>6 DEF ConstructorThrows
  <2> QED BY <1>2, <2>2, <2>3, <2>4, <2>5, <2>6 DEF BufferStep
<1> QED BY <1>1, <1>2 DEF BufferNext, BufferEnded

LEMMA InitRefines == BufferInit => Values!Init
BY DEF BufferInit, Values!Init, val

\* class Buffer implements values, for any number of variables and any amount of
\* storage, with allocations that fail at any moment.
THEOREM ValueSemantics == BufferSpec => BuffersAreValues
<1>1. BufferInv /\ [BufferNext]_bufferVars => BufferInv' /\ [Values!Next]_Values!valueVars
  BY StepRefines DEF Refines
<1> QED BY <1>1, BufferInitInv, InitRefines, PTL
      DEF BufferSpec, BuffersAreValues, Values!Spec

-----------------------------------------------------------------------------
(* Leaks. *)
NoLeak == Leaked' \subseteq Leaked

LostByMove ==
  \A c \in Leaked' \ Leaked :
    \E b \in alive \cap alive' :
      /\ ptr_[b] = c /\ ptr_'[b] # c
      /\ ptr_'[b] \in {nullptr} \cup {ptr_[other] : other \in alive}

\* What is allocated has an owner at once, and what is not deleted keeps its own.
LEMMA AllocateLeaksNothing ==
  ASSUME BufferInv, NEW b \in Buffer, NEW v, NEW c \in Fresh,
         \/ b \notin alive /\ heap' = With(heap, c, v)
         \/ b \in alive /\ heap' = With(Without(heap, ptr_[b]), c, v),
         alive' = alive \cup {b}, ptr_' = [ptr_ EXCEPT ![b] = c]
  PROVE  NoLeak
<1>1. ptr_'[b] = c /\ \A a \in alive \ {b} : ptr_'[a] = ptr_[a]
  BY DEF BufferInv, BufferTypeOK
<1>2. \A d \in DOMAIN heap' : d # c => d \in DOMAIN heap /\ (b \in alive => d # ptr_[b])
  BY DEF With, Without
<1> QED BY <1>1, <1>2 DEF NoLeak, Leaked

LEMMA DeleteLeaksNothing ==
  ASSUME BufferInv, NEW b \in alive, heap' = Without(heap, ptr_[b]),
         \/ UNCHANGED <<alive, ptr_>>
         \/ alive' = alive \ {b} /\ ptr_' = [ptr_ EXCEPT ![b] = nullptr]
  PROVE  NoLeak
<1>1. \A a \in alive \ {b} : a \in alive' /\ ptr_'[a] = ptr_[a]
  BY DEF BufferInv, BufferTypeOK
<1>2. \A d \in DOMAIN heap' : d \in DOMAIN heap /\ d # ptr_[b]
  BY DEF Without
<1> QED BY <1>1, <1>2 DEF NoLeak, Leaked

LEMMA TakeLosts ==
  ASSUME BufferInv, NEW b \in Buffer, NEW other \in alive, Take(b, other),
         alive' = alive \cup {b}
  PROVE  LostByMove
<1> USE DEF Take, BufferInv, BufferTypeOK
<1> SUFFICES ASSUME NEW c \in Leaked' \ Leaked
             PROVE  \E a \in alive \cap alive' :
                      /\ ptr_[a] = c /\ ptr_'[a] # c
                      /\ ptr_'[a] \in {nullptr} \cup {ptr_[o] : o \in alive}
  BY DEF LostByMove
<1>1. PICK a \in alive : ptr_[a] = c
  BY DEF Leaked
<1>2. c # nullptr /\ \A u \in alive' : ptr_'[u] # c
  BY BufferAssumption DEF Leaked
<1>3. a = b
  <2>1. a \notin {b, other} => ptr_'[a] = c
    BY <1>1
  <2>2. a = other /\ b # other => ptr_'[b] = c
    BY <1>1
  <2> QED BY <1>1, <1>2, <2>1, <2>2
<1>4. ptr_'[b] \in {nullptr, ptr_[other]}
  OBVIOUS
<1> QED BY <1>1, <1>2, <1>3, <1>4

LEMMA StepLosts == BufferInv /\ [BufferNext]_bufferVars => LostByMove
<1> SUFFICES ASSUME BufferInv, [BufferNext]_bufferVars PROVE LostByMove
  OBVIOUS
<1>1. NoLeak => LostByMove
  BY DEF NoLeak, LostByMove
<1>2. ASSUME UNCHANGED <<alive, ptr_, heap>> PROVE NoLeak
  BY <1>2 DEF NoLeak, Leaked
<1>3. ASSUME Undefined PROVE NoLeak
  BY <1>2, <1>3 DEF Undefined
<1>4. ASSUME NEW b \in Buffer, NEW v, Construct(b, v) PROVE NoLeak
  BY <1>4, AllocateLeaksNothing DEF Construct
<1>5. ASSUME NEW b \in alive, NEW n, NEW v, Replace(b, n, v) PROVE NoLeak
  <2>1. b \in Buffer /\ alive' = alive \cup {b}
    BY <1>5 DEF Replace, BufferInv, BufferTypeOK
  <2> QED BY <1>5, <2>1, AllocateLeaksNothing DEF Replace
<1>6. ASSUME NEW b \in Buffer, BufferStep(b) PROVE LostByMove
  <2>1. ASSUME NEW v \in Value, Construct(b, v) PROVE LostByMove
    BY <1>1, <1>4, <2>1
  <2>2. ASSUME NEW other \in Buffer, CopyConstruct(b, other) PROVE LostByMove
    BY <1>1, <1>3, <1>4, <2>2 DEF CopyConstruct
  <2>3. ASSUME NEW other \in Buffer, CopyAssign(b, other) PROVE LostByMove
    <3>1. b \in alive
      BY <2>3 DEF CopyAssign
    <3>2. AssignmentThrows(b) => NoLeak
      BY <3>1, DeleteLeaksNothing DEF AssignmentThrows
    <3> QED BY <1>1, <1>3, <1>5, <2>3, <3>1, <3>2 DEF CopyAssign
  <2>4. ASSUME NEW other \in Buffer, MoveConstruct(b, other) \/ MoveAssign(b, other)
        PROVE  LostByMove
    <3>1. other \in alive /\ Take(b, other) /\ alive' = alive \cup {b}
      BY <2>4 DEF MoveConstruct, MoveAssign
    <3> QED BY <3>1, TakeLosts
  <2>5. CASE Destroy(b)
    <3>1. b \in alive
      BY <2>5 DEF Destroy
    <3> QED BY <1>1, <1>3, <2>5, <3>1, DeleteLeaksNothing DEF Destroy
  <2>6. CASE ConstructorThrows(b)
    BY <1>1, <1>2, <2>6 DEF ConstructorThrows, bufferVars
  <2> QED BY <1>6, <2>1, <2>2, <2>3, <2>4, <2>5, <2>6 DEF BufferStep
<1>7. CASE BufferEnded \/ UNCHANGED bufferVars
  BY <1>1, <1>2, <1>7 DEF BufferEnded, bufferVars
<1> QED BY <1>6, <1>7 DEF BufferNext

\* Storage is lost only by a move that overwrites the pointer to it, for any
\* number of variables and any amount of storage.
THEOREM OnlyMovesLeak == BufferSpec => LeaksByMoveOnly
<1>1. BufferInv /\ [BufferNext]_bufferVars => BufferInv' /\ [LostByMove]_bufferVars
  BY StepRefines, StepLosts DEF Refines
<1>2. LostByMove <=> \A c \in Leaked' \ Leaked :
                       \E b \in alive \cap alive' :
                         /\ ptr_[b] = c /\ ptr_'[b] # c
                         /\ ptr_'[b] \in {nullptr} \cup {ptr_[other] : other \in alive}
  BY DEF LostByMove
<1> QED BY <1>1, <1>2, BufferInitInv, PTL DEF BufferSpec, LeaksByMoveOnly

-----------------------------------------------------------------------------
(* DebugSettings.  RoundTrip is about two calls with any others in between;  *)
(* what connects them is that a file which save() was the last to write      *)
(* holds the tree of what it has saved, and no other file is said to.        *)
SettingsTypeOK ==
  /\ m_file \in Text /\ m_level \in Level /\ m_modules \in SUBSET Module
  /\ files \in [File -> Tree \cup {Unreadable}]
  /\ saved \in [File -> Settings \cup {Unknown}]

TreeOfSettings(s) ==
  [filename |-> s.filename, level |-> s.level,
   modules  |-> IF s.modules = {} THEN Absent ELSE s.modules]

FilesHoldSaved ==
  \A f \in File : saved[f] # Unknown => files[f] = TreeOfSettings(saved[f])

SettingsInv == SettingsTypeOK /\ FilesHoldSaved

\* What a call of load() does when save() was the last to write its file.
LoadsSaved ==
  \A f \in File :
    call'.name = "load" /\ call'.file = f /\ saved[f] # Unknown =>
      /\ m_file' = saved[f].filename /\ m_level' = saved[f].level
      /\ m_modules' = m_modules \cup saved[f].modules
      /\ call'.end = "threw" <=> saved[f].modules = {}

LEMMA SettingsInitInv == SettingsInit => SettingsInv
BY SettingsAssumption DEF SettingsInit, SettingsInv, SettingsTypeOK, FilesHoldSaved

\* load() assigns what the types allow, and no file.
LEMMA LoadInv ==
  ASSUME SettingsInv, NEW f \in File, Load(f)
  PROVE  SettingsInv'
<1>1. UNCHANGED <<files, saved>>
  BY DEF Load
<1>2. HasFilename(f) =>
        /\ files[f].filename \in Text /\ LevelOf(files[f]) \in Level
        /\ files[f].modules # Absent => files[f].modules \in SUBSET Module
  BY SettingsAssumption
     DEF HasFilename, LevelOf, SettingsInv, SettingsTypeOK, Tree
<1>3. m_file' \in Text /\ m_level' \in Level /\ m_modules' \in SUBSET Module
  BY <1>2 DEF Load, LoadThrows, LoadBreaksOff, LoadReturns, object, SettingsInv,
              SettingsTypeOK
<1> QED BY <1>1, <1>3 DEF SettingsInv, SettingsTypeOK, FilesHoldSaved

\* save() writes a tree, and notes the settings of this very tree.
LEMMA SaveInv ==
  ASSUME SettingsInv, NEW f \in File, Save(f)
  PROVE  SettingsInv'
<1> DEFINE s == [filename |-> m_file, level |-> m_level, modules |-> m_modules]
<1>1. UNCHANGED object
  BY DEF Save
<1>2. s \in Settings /\ TreeOf = TreeOfSettings(s) /\ TreeOf \in Tree
  BY DEF SettingsInv, SettingsTypeOK, Settings, Tree, TreeOf, TreeOfSettings
<1>3. \/ UNCHANGED <<files, saved>>
      \/ /\ files' = [files EXCEPT ![f] = Unreadable]
         /\ saved' = [saved EXCEPT ![f] = Unknown]
      \/ /\ files' = [files EXCEPT ![f] = TreeOf]
         /\ saved' = [saved EXCEPT ![f] = s]
  BY DEF Save
<1> HIDE DEF s
<1> QED BY <1>1, <1>2, <1>3
      DEF SettingsInv, SettingsTypeOK, FilesHoldSaved, object

LEMMA SettingsNextInv == SettingsInv /\ [SettingsNext]_settingsVars => SettingsInv'
<1> SUFFICES ASSUME SettingsInv, [SettingsNext]_settingsVars PROVE SettingsInv'
  OBVIOUS
<1>1. CASE UNCHANGED settingsVars
  BY <1>1 DEF settingsVars, object, SettingsInv, SettingsTypeOK, FilesHoldSaved
<1>2. CASE New
  BY <1>2, SettingsAssumption
     DEF New, SettingsInv, SettingsTypeOK, FilesHoldSaved
<1>3. ASSUME NEW f \in File, NEW tree \in HandWritten, Edit(f, tree) PROVE SettingsInv'
  BY <1>3, SettingsAssumption
     DEF Edit, object, SettingsInv, SettingsTypeOK, FilesHoldSaved
<1> QED BY <1>1, <1>2, <1>3, LoadInv, SaveInv DEF SettingsNext

\* A load() of f runs into the tree of the settings saved there.
LEMMA LoadLoadsSaved ==
  ASSUME SettingsInv, NEW f \in File, Load(f)
  PROVE  LoadsSaved
<1> SUFFICES ASSUME saved[f] # Unknown
             PROVE  /\ m_file' = saved[f].filename /\ m_level' = saved[f].level
                    /\ m_modules' = m_modules \cup saved[f].modules
                    /\ call'.end = "threw" <=> saved[f].modules = {}
  <2>1. call'.file = f
    BY DEF Load, LoadThrows, LoadBreaksOff, LoadReturns, Called
  <2> QED BY <2>1 DEF LoadsSaved
<1> DEFINE s == saved[f]
<1>1. /\ s.filename \in Text /\ s.level \in Level /\ s.modules \in SUBSET Module
      /\ files[f] = TreeOfSettings(s) /\ files[f] # Unreadable
  <2>1. s \in Settings /\ files[f] = TreeOfSettings(s)
    BY DEF SettingsInv, SettingsTypeOK, FilesHoldSaved
  <2>2. TreeOfSettings(s) \in Tree
    BY <2>1 DEF Settings, Tree, TreeOfSettings
  <2> QED BY <2>1, <2>2, SettingsAssumption DEF Settings
<1>2. /\ HasFilename(f) /\ files[f].filename = s.filename
      /\ LevelOf(files[f]) = s.level
      /\ files[f].modules = (IF s.modules = {} THEN Absent ELSE s.modules)
      /\ files[f].modules = Absent <=> s.modules = {}
  <2>1. /\ files[f].filename = s.filename /\ files[f].level = s.level
        /\ files[f].modules = (IF s.modules = {} THEN Absent ELSE s.modules)
    BY <1>1 DEF TreeOfSettings
  <2> HIDE DEF s
  <2>2. s.filename # Absent /\ s.level # Absent /\ Absent # s.modules
    BY <1>1, SettingsAssumption
  <2> QED BY <1>1, <2>1, <2>2 DEF HasFilename, LevelOf
<1>3. CASE s.modules = {}
  <2>1. LoadBreaksOff(f)
    BY <1>2, <1>3 DEF Load, LoadThrows, LoadReturns
  <2> QED BY <1>2, <1>3, <2>1 DEF LoadBreaksOff, Called
<1>4. CASE s.modules # {}
  <2>1. LoadReturns(f)
    BY <1>2, <1>4 DEF Load, LoadThrows, LoadBreaksOff
  <2> QED BY <1>2, <1>4, <2>1 DEF LoadReturns, Called
<1> QED BY <1>3, <1>4

LEMMA SettingsStepLoads == SettingsInv /\ SettingsNext => LoadsSaved
<1> SUFFICES ASSUME SettingsInv, SettingsNext PROVE LoadsSaved
  OBVIOUS
<1>1. CASE New
  BY <1>1 DEF New, NoCall, LoadsSaved
<1>2. ASSUME NEW f \in File, Save(f) PROVE LoadsSaved
  BY <1>2 DEF Save, Called, LoadsSaved
<1>3. ASSUME NEW f \in File, NEW tree \in HandWritten, Edit(f, tree) PROVE LoadsSaved
  BY <1>3 DEF Edit, NoCall, LoadsSaved
<1> QED BY <1>1, <1>2, <1>3, LoadLoadsSaved DEF SettingsNext

\* Saved settings are loaded as they were, and a file saved without a module
\* breaks the load off after two fields, for any fields, files and callers.
THEOREM SavedIsLoaded == SettingsSpec => RoundTrip
<1>1. SettingsInv /\ [SettingsNext]_settingsVars => SettingsInv' /\ [LoadsSaved]_settingsVars
  BY SettingsNextInv, SettingsStepLoads
<1>2. LoadsSaved <=>
        \A f \in File :
          call'.name = "load" /\ call'.file = f /\ saved[f] # Unknown =>
            /\ m_file' = saved[f].filename /\ m_level' = saved[f].level
            /\ m_modules' = m_modules \cup saved[f].modules
            /\ call'.end = "threw" <=> saved[f].modules = {}
  BY DEF LoadsSaved
<1> QED BY <1>1, <1>2, SettingsInitInv, PTL DEF SettingsSpec, RoundTrip

-----------------------------------------------------------------------------
(* HttpClient.  Where the first blank line is: the response is cut there     *)
(* when it is printed, wherever the reads have cut it before.                *)

LEMMA LeastIndex ==
  ASSUME NEW I \in SUBSET Nat, I # {}
  PROVE  Min(I) \in I /\ \A p \in I : Min(I) <= p
<1> DEFINE Less == {ss \in Nat \X Nat : ss[1] < ss[2]}
<1>1. IsWellFoundedOn(Less, Nat)
  BY NatLessThanWellFounded DEF OpToRel
<1>2. PICK m \in I : \A p \in I : ~ (<<p, m>> \in Less)
  <2> HIDE DEF Less
  <2> QED BY <1>1, WFMin
<1>3. ASSUME NEW p \in I PROVE m <= p
  <2>1. p \in Nat /\ m \in Nat /\ (p < m => <<p, m>> \in Less)
    OBVIOUS
  <2> HIDE DEF Less
  <2> QED BY <1>2, <2>1
<1> QED BY <1>3 DEF Min

IsFirstBlank(s, k) ==
  k \in 1..Len(s) /\ s[k] = "blank" /\ \A p \in 1..(k - 1) : s[p] # "blank"

LEMMA FirstBlankFound ==
  ASSUME NEW S, NEW s \in Seq(S), Contains(s, "blank")
  PROVE  /\ IsFirstBlank(s, FirstBlank(s))
         /\ RemoveFirst(s, "blank") = RemoveAt(s, FirstBlank(s))
<1> DEFINE I == {p \in 1..Len(s) : s[p] = "blank"}
<1>1. I \in SUBSET Nat /\ I # {}
  BY DEF Contains
<1>2. FirstBlank(s) = Min(I)
  BY <1>1 DEF FirstBlank, SelectInSeq, IsBlank
<1>3. SelectInSeq(s, LAMBDA v : v = "blank") = Min(I)
  BY <1>1 DEF SelectInSeq
<1>4. Min(I) \in I /\ \A p \in I : Min(I) <= p
  BY <1>1, LeastIndex
<1>5. IsFirstBlank(s, Min(I))
  <2>1. PICK m : m = Min(I)
    OBVIOUS
  <2>2. m \in 1..Len(s) /\ s[m] = "blank" /\ \A p \in 1..Len(s) : s[p] = "blank" => m <= p
    BY <1>4, <2>1
  <2>3. Len(s) \in Nat /\ \A p \in 1..(m - 1) : p \in 1..Len(s) /\ ~(m <= p)
    BY <2>2, LenProperties
  <2> QED BY <2>1, <2>2, <2>3 DEF IsFirstBlank
<1>6. RemoveFirst(s, "blank") = RemoveAt(s, Min(I))
  BY <1>3 DEF RemoveFirst, Contains
<1> QED BY <1>2, <1>5, <1>6

LEMMA OneFirstBlank ==
  ASSUME NEW S, NEW s \in Seq(S), NEW k, NEW m, IsFirstBlank(s, k), IsFirstBlank(s, m)
  PROVE  k = m
BY DEF IsFirstBlank

\* Nothing behind the first blank line matters for where it is.
LEMMA FirstBlankOfConcat ==
  ASSUME NEW S, NEW s \in Seq(S), NEW t \in Seq(S), Contains(s, "blank")
  PROVE  Contains(s \o t, "blank") /\ FirstBlank(s \o t) = FirstBlank(s)
<1> DEFINE k == FirstBlank(s)
<1>1. IsFirstBlank(s, k)
  BY FirstBlankFound
<1>2. /\ s \o t \in Seq(S) /\ Len(s \o t) = Len(s) + Len(t)
      /\ \A p \in 1..Len(s) : (s \o t)[p] = s[p]
      /\ Len(s) \in Nat /\ Len(t) \in Nat
  BY ConcatProperties, LenProperties
<1> HIDE DEF k
<1>3. IsFirstBlank(s \o t, k)
  BY <1>1, <1>2 DEF IsFirstBlank
<1>4. Contains(s \o t, "blank")
  BY <1>2, <1>3 DEF Contains, IsFirstBlank
<1>5. IsFirstBlank(s \o t, FirstBlank(s \o t))
  BY <1>2, <1>4, FirstBlankFound
<1>6. FirstBlank(s \o t) = k
  BY <1>2, <1>3, <1>5, OneFirstBlank
<1> QED BY <1>4, <1>6 DEF k

\* To remove an element of the first is to remove it from both.
LEMMA RemoveFromConcat ==
  ASSUME NEW S, NEW s \in Seq(S), NEW t \in Seq(S), NEW k \in 1..Len(s)
  PROVE  RemoveAt(s \o t, k) = RemoveAt(s, k) \o t /\ RemoveAt(s, k) \in Seq(S)
<1> DEFINE n == Len(s)
           u == s \o t
           before == SubSeq(s, 1, k - 1)
           after  == SubSeq(s, k + 1, n)
           rest   == SubSeq(u, k + 1, Len(u))
<1>1. /\ u \in Seq(S) /\ Len(u) = n + Len(t) /\ n \in Nat /\ Len(t) \in Nat
      /\ \A p \in 1..n : u[p] = s[p] /\ s[p] \in S
      /\ \A p \in (n + 1)..(n + Len(t)) : u[p] = t[p - n] /\ u[p] \in S
  BY ConcatProperties, LenProperties, ElementOfSeq
<1> HIDE DEF n, u
<1>2. before \in Seq(S) /\ Len(before) = k - 1 /\ \A p \in 1..(k - 1) : before[p] = s[p]
  BY <1>1, SubSeqProperties DEF n
<1>3. /\ after \in Seq(S) /\ Len(after) = n - k
      /\ \A p \in 1..(n - k) : after[p] = s[k + p]
  BY <1>1, SubSeqProperties DEF n
<1>4. /\ rest \in Seq(S) /\ Len(rest) = n + Len(t) - k
      /\ \A p \in 1..(n + Len(t) - k) : rest[p] = u[k + p]
  BY <1>1, SubSeqProperties DEF n
<1>5. SubSeq(u, 1, k - 1) = before
  <2>1. /\ SubSeq(u, 1, k - 1) \in Seq(S) /\ Len(SubSeq(u, 1, k - 1)) = k - 1
        /\ \A p \in 1..(k - 1) : SubSeq(u, 1, k - 1)[p] = u[p]
    BY <1>1, SubSeqProperties DEF n
  <2>2. \A p \in 1..(k - 1) : u[p] = s[p]
    BY <1>1 DEF n
  <2> HIDE DEF before
  <2> QED BY <1>2, <2>1, <2>2, SeqEqual
<1>6. rest = after \o t
  <2>1. /\ after \o t \in Seq(S) /\ Len(after \o t) = n - k + Len(t)
        /\ \A p \in 1..(n - k + Len(t)) :
             (after \o t)[p] = IF p <= n - k THEN after[p] ELSE t[p - (n - k)]
    BY <1>3, ConcatProperties
  <2>2. ASSUME NEW p \in 1..(n - k + Len(t)) PROVE rest[p] = (after \o t)[p]
    <3> HIDE DEF rest, after
    <3>0. p \in Nat /\ n \in Nat /\ k \in 1..n /\ rest[p] = u[k + p]
      BY <1>1, <1>4 DEF n
    <3>1. CASE p <= n - k
      <4>1. k + p \in 1..n /\ p \in 1..(n - k)
        BY <3>0, <3>1
      <4> QED BY <1>1, <1>3, <2>1, <3>0, <3>1, <4>1
    <3>2. CASE p > n - k
      <4>1. PICK j : j = k + p - n
        OBVIOUS
      <4>2. k + p \in (n + 1)..(n + Len(t)) /\ j = p - (n - k)
        BY <1>1, <3>0, <3>2, <4>1
      <4>3. u[k + p] = t[j]
        BY <1>1, <4>1, <4>2
      <4>4. (after \o t)[p] = t[j]
        BY <2>1, <3>0, <3>2, <4>2
      <4> QED BY <3>0, <4>3, <4>4
    <3>3. p <= n - k \/ p > n - k
      BY ONLY <3>0
    <3> QED BY <3>1, <3>2, <3>3
  <2> HIDE DEF rest, after
  <2>3. Len(rest) = Len(after \o t)
    BY <1>1, <1>4, <2>1 DEF n
  <2> QED BY <1>1, <1>4, <2>1, <2>2, <2>3, SeqEqual DEF n
<1>7. RemoveAt(u, k) = before \o rest /\ RemoveAt(s, k) = before \o after
  BY <1>5 DEF RemoveAt, n
<1>8. before \o (after \o t) = (before \o after) \o t /\ before \o after \in Seq(S)
  <2>1. before \in Seq(S) /\ after \in Seq(S) /\ t \in Seq(S)
    BY <1>2, <1>3
  <2> HIDE DEF before, after
  <2>2. (before \o after) \o t = before \o (after \o t)
    BY ONLY <2>1, ConcatAssociative, SMTT(30)
  <2>3. before \o after \in Seq(S)
    BY ONLY <2>1, ConcatProperties
  <2> QED BY ONLY <2>2, <2>3
<1> QED BY <1>6, <1>7, <1>8 DEF u

LEMMA HeadTailOfConcat ==
  ASSUME NEW S, NEW s \in Seq(S), NEW t \in Seq(S), s # <<>>
  PROVE  /\ s \o t # <<>> /\ Head(s \o t) = Head(s)
         /\ Tail(s \o t) = Tail(s) \o t
<1>1. Tail(s) \in Seq(S) /\ Len(Tail(s)) = Len(s) - 1 /\ Len(s) \in Nat \ {0} /\ Len(t) \in Nat
  BY HeadTailProperties, EmptySeq, LenProperties
<1>2. /\ s \o t \in Seq(S) /\ Len(s \o t) = Len(s) + Len(t)
      /\ \A p \in 1..Len(s) + Len(t) :
           (s \o t)[p] = IF p <= Len(s) THEN s[p] ELSE t[p - Len(s)]
  BY ConcatProperties
<1>3. s \o t # <<>>
  BY <1>1, <1>2
<1>4. Head(s \o t) = Head(s)
  BY <1>1, <1>2
<1>5. Tail(s \o t) = Tail(s) \o t
  OBVIOUS
<1> QED BY <1>3, <1>4, <1>5

LEMMA PrefixOfConcat ==
  ASSUME NEW S, NEW s \in Seq(S), NEW t \in Seq(S)
  PROVE  IsPrefix(s, s \o t)
<1>1. Len(s) \in Nat /\ Len(t) \in Nat /\ Len(s \o t) = Len(s) + Len(t)
  BY LenProperties, ConcatProperties
<1>2. SubSeq(s, 1, Len(s)) = SubSeq(s \o t, 1, Len(s))
  <2>1. CASE Len(s) = 0
    BY <2>1, SubSeqEmpty
  <2>2. CASE Len(s) # 0
    <3>1. 1 \in 1..Len(s) /\ Len(s) \in 1..Len(s)
      BY <1>1, <2>2
    <3>2. SubSeq(s \o t, 1, Len(s)) = SubSeq(s, 1, Len(s))
      BY <3>1, SubSeqOfConcat1
    <3> QED BY <3>2
  <2> QED BY <2>1, <2>2
<1> QED BY <1>1, <1>2 DEF IsPrefix

\* What the handler of the headers prints, and what is still to come, is what is
\* to be printed.
LEMMA HeadersArePrinted ==
  ASSUME NEW S, "blank" \in S, NEW s \in Seq(S), NEW t \in Seq(S), NEW r \in Seq(S),
         r # <<>>, Head(r) = "200", Tail(r) = s \o t, EndsHeaders(s)
  PROVE  HeadersAndContent(s) \o t = ToPrint(r) /\ HeadersAndContent(s) \in Seq(S)
<1>1. Contains(s, "blank")
  BY LenProperties DEF EndsHeaders, Contains
<1>2. /\ FirstBlank(s) \in 1..Len(s) /\ Contains(s \o t, "blank")
      /\ s \o t \in Seq(S) /\ RemoveFirst(s \o t, "blank") = RemoveAt(s \o t, FirstBlank(s))
  <2>1. FirstBlank(s) \in 1..Len(s)
    BY <1>1, FirstBlankFound DEF IsFirstBlank
  <2>2. Contains(s \o t, "blank") /\ FirstBlank(s \o t) = FirstBlank(s)
    BY <1>1, FirstBlankOfConcat
  <2>3. s \o t \in Seq(S)
    BY ConcatProperties
  <2>4. RemoveFirst(s \o t, "blank") = RemoveAt(s \o t, FirstBlank(s \o t))
    BY <2>2, <2>3, FirstBlankFound
  <2> QED BY <2>1, <2>2, <2>3, <2>4
<1>3. Contains(r, "blank")
  <2>1. PICK p \in 1..Len(s \o t) : (s \o t)[p] = "blank"
    BY <1>2 DEF Contains
  <2>2. p + 1 \in 1..Len(r) /\ r[p + 1] = (s \o t)[p]
    BY <2>1, HeadTailProperties, LenProperties
  <2> QED BY <2>1, <2>2 DEF Contains
<1>4. ToPrint(r) = RemoveAt(s \o t, FirstBlank(s))
  BY <1>2, <1>3 DEF ToPrint
<1>5. HeadersAndContent(s) = RemoveAt(s, FirstBlank(s))
  BY DEF HeadersAndContent, RemoveAt
<1> QED BY <1>2, <1>4, <1>5, RemoveFromConcat

LEMMA ToPrintIsSeq ==
  ASSUME NEW S, NEW r \in Seq(S)
  PROVE  ToPrint(r) \in Seq(S)
<1>1. CASE r # <<>> /\ Head(r) = "200" /\ Contains(r, "blank")
  <2>1. PICK p \in 1..Len(r) : r[p] = "blank"
    BY <1>1 DEF Contains
  <2>2. p - 1 \in 1..Len(Tail(r)) /\ Tail(r)[p - 1] = "blank" /\ Tail(r) \in Seq(S)
    BY <1>1, <2>1, HeadTailProperties, LenProperties
  <2>3. Contains(Tail(r), "blank")
    BY <2>2 DEF Contains
  <2>4. /\ IsFirstBlank(Tail(r), FirstBlank(Tail(r)))
        /\ RemoveFirst(Tail(r), "blank") = RemoveAt(Tail(r), FirstBlank(Tail(r)))
    BY <2>2, <2>3, FirstBlankFound
  <2>5. FirstBlank(Tail(r)) \in 1..Len(Tail(r)) /\ <<>> \in Seq(S)
    BY <2>4 DEF IsFirstBlank
  <2>6. RemoveAt(Tail(r), FirstBlank(Tail(r))) \in Seq(S)
    BY <2>2, <2>5, RemoveFromConcat
  <2> QED BY <1>1, <2>4, <2>6 DEF ToPrint
<1>2. CASE ~(r # <<>> /\ Head(r) = "200" /\ Contains(r, "blank"))
  BY <1>2 DEF ToPrint
<1> QED BY <1>1, <1>2

LEMMA NothingIsPrefix ==
  ASSUME NEW S, NEW r \in Seq(S)
  PROVE  IsPrefix(<<>>, ToPrint(r))
<1>1. <<>> \in Seq(S) /\ ToPrint(r) \in Seq(S)
  BY ToPrintIsSeq
<1>2. <<>> \o ToPrint(r) = ToPrint(r)
  BY <1>1, ConcatEmptySeq
<1> QED BY <1>1, <1>2, PrefixOfConcat

-----------------------------------------------------------------------------
(* The inductive invariant: what is printed, in the buffer and still to come *)
(* is at every point of the chain what it has to be.                         *)
AnyPiece == StatusLine \cup Piece

HttpTypes ==
  /\ op \in Reads \cup {"resolve", "connect", "write", "none"}
  /\ result \in {"waiting", "ok", "eof", "error"}
  /\ response_ \in Seq(AnyPiece) /\ wire \in Seq(AnyPiece)
  /\ whole \in Seq(AnyPiece) /\ output \in Seq(AnyPiece)
  /\ said \in {"nothing", "Error", "Invalid response", "Status code"}
  /\ op \in Reads /\ result = "ok" => Enough(op, response_)

Unprinted == response_ \o wire

NothingLost ==
  /\ op \in {"resolve", "connect", "write", "status_line"} =>
       output = <<>> /\ Unprinted = whole
  /\ op = "headers" =>
       /\ output = <<>> /\ Unprinted = Tail(whole)
       /\ whole # <<>> /\ Head(whole) = "200"
  /\ op = "content" => output \o Unprinted = ToPrint(whole)
  /\ op = "none" =>
       /\ IsPrefix(output, ToPrint(whole))
       /\ said = "nothing" => output = ToPrint(whole) /\ wire = <<>>

EndIsEmpty ==
  op = "content" =>
    /\ result # "ok" => response_ = <<>>
    /\ result = "eof" => wire = <<>>

HttpInv == HttpTypes /\ NothingLost /\ EndIsEmpty

LEMMA OutputIsPrefix == HttpInv => PrintsInOrder
<1> SUFFICES ASSUME HttpInv PROVE PrintsInOrder
  OBVIOUS
<1> USE DEF HttpInv, HttpTypes, NothingLost, PrintsInOrder
<1>1. CASE output = <<>>
  BY <1>1, NothingIsPrefix
<1>2. CASE op = "content"
  <2>1. Unprinted \in Seq(AnyPiece)
    BY ConcatProperties DEF Unprinted
  <2> QED BY <1>2, <2>1, PrefixOfConcat
<1> QED BY <1>1, <1>2 DEF Reads

LEMMA HttpInitInv == HttpInit => HttpInv
<1> SUFFICES ASSUME HttpInit PROVE HttpInv
  OBVIOUS
<1>1. whole \in Seq(AnyPiece) /\ <<>> \in Seq(AnyPiece)
  BY ResponseAssumption DEF HttpInit, AnyPiece
<1>2. <<>> \o whole = whole
  BY <1>1, ConcatEmptySeq
<1> QED BY <1>1, <1>2
      DEF HttpInit, HttpInv, HttpTypes, NothingLost, EndIsEmpty, Unprinted, Reads

\* The chain ends with a message: what is printed stays the beginning.
LEMMA EndsWithMessage ==
  ASSUME HttpInv, NEW message \in {"Error", "Invalid response", "Status code"},
         EndWith(message)
  PROVE  HttpInv'
<1>1. IsPrefix(output, ToPrint(whole))
  BY OutputIsPrefix DEF PrintsInOrder
<1> QED BY <1>1 DEF EndWith, HttpInv, HttpTypes, NothingLost, EndIsEmpty, Reads

LEMMA SetUpInv ==
  ASSUME HttpInv, NEW operation \in {"resolve", "connect", "write"},
         NEW next \in {"connect", "write", "status_line"}, HandleSetUp(operation, next)
  PROVE  HttpInv'
<1>1. CASE Failed /\ EndWith("Error")
  BY <1>1, EndsWithMessage
<1>2. CASE StartNext(next, response_) /\ UNCHANGED <<output, said>>
  <2>1. /\ op' = next /\ response_' = response_ /\ wire' = wire /\ whole' = whole
        /\ result' = IF Enough(next, response_) THEN "ok" ELSE "waiting"
        /\ op = operation
    BY <1>2 DEF StartNext, HandleSetUp, Handles
  <2>2. HttpTypes'
    BY <1>2, <2>1 DEF HttpInv, HttpTypes, Reads, Enough
  <2> QED BY <1>2, <2>1, <2>2
        DEF HttpInv, NothingLost, EndIsEmpty, Unprinted
<1> QED BY <1>1, <1>2 DEF HandleSetUp

LEMMA ReadStatusLineInv ==
  ASSUME HttpInv, HandleReadStatusLine
  PROVE  HttpInv'
<1>1. ASSUME NEW message \in {"Error", "Invalid response", "Status code"}, EndWith(message)
      PROVE  HttpInv'
  BY <1>1, EndsWithMessage
<1>2. CASE /\ op = "status_line" /\ result = "ok" /\ Head(response_) = "200"
           /\ StartNext("headers", Tail(response_)) /\ UNCHANGED <<output, said>>
  <2>1. response_ # <<>> /\ response_ \in Seq(AnyPiece) /\ wire \in Seq(AnyPiece)
    BY <1>2 DEF HttpInv, HttpTypes, Enough, Reads
  <2>2. /\ op' = "headers" /\ response_' = Tail(response_) /\ wire' = wire /\ whole' = whole
        /\ result' = IF Enough("headers", Tail(response_)) THEN "ok" ELSE "waiting"
    BY <1>2 DEF StartNext
  <2>3. HttpTypes'
    <3>1. response_' \in Seq(AnyPiece)
      BY <2>1, <2>2, HeadTailProperties
    <3>2. result' = "ok" => Enough("headers", response_')
      BY <2>2
    <3> QED BY <1>2, <2>2, <3>1, <3>2 DEF HttpInv, HttpTypes, Reads, Enough
  <2>4. /\ response_ \o wire # <<>> /\ Head(response_ \o wire) = Head(response_)
        /\ Tail(response_ \o wire) = Tail(response_) \o wire
    BY ONLY <2>1, HeadTailOfConcat
  <2>5. whole = response_ \o wire /\ output = <<>>
    BY <1>2 DEF HttpInv, NothingLost, Unprinted
  <2> QED BY <1>2, <2>2, <2>3, <2>4, <2>5
        DEF HttpInv, NothingLost, EndIsEmpty, Unprinted
<1> QED BY <1>1, <1>2
      DEF HandleReadStatusLine, Handles, Failed, HttpInv, HttpTypes

LEMMA ReadHeadersInv ==
  ASSUME HttpInv, HandleReadHeaders
  PROVE  HttpInv'
<1>1. CASE EndWith("Error")
  BY <1>1, EndsWithMessage
<1>2. CASE /\ op = "headers" /\ result = "ok"
           /\ output' = HeadersAndContent(response_)
           /\ StartNext("content", <<>>) /\ UNCHANGED said
  <2>1. /\ response_ \in Seq(AnyPiece) /\ wire \in Seq(AnyPiece) /\ whole \in Seq(AnyPiece)
        /\ EndsHeaders(response_) /\ "blank" \in AnyPiece /\ <<>> \in Seq(AnyPiece)
    <3>1. "headers" \in Reads /\ (Enough("headers", response_) => EndsHeaders(response_))
      BY DEF Reads, Enough
    <3>2. EndsHeaders(response_)
      BY <1>2, <3>1 DEF HttpInv, HttpTypes
    <3>3. "blank" \in AnyPiece /\ <<>> \in Seq(AnyPiece)
      BY EmptySeq DEF AnyPiece, Piece
    <3> QED BY <3>2, <3>3 DEF HttpInv, HttpTypes
  <2>2. whole # <<>> /\ Head(whole) = "200" /\ Tail(whole) = response_ \o wire
    BY <1>2 DEF HttpInv, NothingLost, Unprinted
  <2>3. output' \o wire = ToPrint(whole) /\ output' \in Seq(AnyPiece)
    BY <1>2, <2>1, <2>2, HeadersArePrinted
  <2>4. /\ op' = "content" /\ response_' = <<>> /\ wire' = wire /\ whole' = whole
        /\ result' = "waiting"
    BY <1>2 DEF StartNext, Enough
  <2>5. HttpTypes'
    BY <1>2, <2>1, <2>3, <2>4 DEF HttpInv, HttpTypes, Reads
  <2>6. response_' \o wire' = wire
    BY <2>1, <2>4, ConcatEmptySeq
  <2> QED BY <2>3, <2>4, <2>5, <2>6 DEF HttpInv, NothingLost, EndIsEmpty, Unprinted
<1> QED BY <1>1, <1>2
      DEF HandleReadHeaders, Handles, Failed, HttpInv, HttpTypes

LEMMA ReadContentInv ==
  ASSUME HttpInv, HandleReadContent
  PROVE  HttpInv'
<1>1. CASE EndWith("Error")
  BY <1>1, EndsWithMessage
<1>2. CASE op = "content" /\ result = "eof" /\ EndWith("nothing")
  <2>1. /\ response_ = <<>> /\ wire = <<>> /\ output \o (response_ \o wire) = ToPrint(whole)
        /\ output \in Seq(AnyPiece) /\ wire \in Seq(AnyPiece)
    BY <1>2 DEF HttpInv, HttpTypes, NothingLost, EndIsEmpty, Unprinted
  <2>2. output = ToPrint(whole)
    BY <2>1, ConcatEmptySeq
  <2>3. IsPrefix(output, ToPrint(whole))
    BY OutputIsPrefix DEF PrintsInOrder
  <2> QED BY <1>2, <2>1, <2>2, <2>3
        DEF EndWith, HttpInv, HttpTypes, NothingLost, EndIsEmpty, Reads
<1>3. CASE /\ op = "content" /\ result = "ok"
           /\ output' = output \o response_
           /\ StartNext("content", <<>>) /\ UNCHANGED said
  <2>1. /\ response_ \in Seq(AnyPiece) /\ wire \in Seq(AnyPiece) /\ output \in Seq(AnyPiece)
        /\ <<>> \in Seq(AnyPiece)
    BY EmptySeq DEF HttpInv, HttpTypes
  <2>2. output \o (response_ \o wire) = ToPrint(whole)
    BY <1>3 DEF HttpInv, NothingLost, Unprinted
  <2>3. (output \o response_) \o wire = output \o (response_ \o wire)
    BY ONLY <2>1, ConcatAssociative
  <2>4. output \o response_ \in Seq(AnyPiece)
    BY ONLY <2>1, ConcatProperties
  <2>5. /\ op' = "content" /\ response_' = <<>> /\ wire' = wire /\ whole' = whole
        /\ result' = "waiting"
    BY <1>3 DEF StartNext, Enough
  <2>6. response_' \o wire' = wire
    BY <2>1, <2>5, ConcatEmptySeq
  <2>7. HttpTypes'
    BY <1>3, <2>1, <2>4, <2>5 DEF HttpInv, HttpTypes
  <2> QED BY <1>3, <2>2, <2>3, <2>5, <2>6, <2>7
        DEF HttpInv, NothingLost, EndIsEmpty, Unprinted
<1> QED BY <1>1, <1>2, <1>3
      DEF HandleReadContent, Handles, Failed, HttpInv, HttpTypes

\* Pieces go from the wire to the buffer, and none between.
LEMMA ArriveInv ==
  ASSUME HttpInv, NEW n \in 1..Len(wire), Arrive(n)
  PROVE  HttpInv'
<1> DEFINE front  == SubSeq(wire, 1, n)
           behind == SubSeq(wire, n + 1, Len(wire))
<1>1. /\ response_ \in Seq(AnyPiece) /\ wire \in Seq(AnyPiece) /\ op \in Reads
      /\ result = "waiting" /\ Len(wire) \in Nat
  BY LenProperties DEF HttpInv, HttpTypes, Arrive
<1>2. front \in Seq(AnyPiece) /\ behind \in Seq(AnyPiece)
  BY <1>1, SubSeqProperties, ElementOfSeq
<1>3. front \o behind = wire
  <2>1. /\ 1 \in 1..Len(wire) + 1 /\ n \in 1 - 1..Len(wire) /\ Len(wire) \in n..Len(wire)
    BY <1>1
  <2>2. front \o behind = SubSeq(wire, 1, Len(wire))
    BY ONLY <1>1, <2>1, ConcatAdjacentSubSeq
  <2> QED BY <1>1, <2>2, SubSeqFull
<1>4. /\ response_' = response_ \o front /\ wire' = behind
      /\ result' = IF Enough(op, response_ \o front) THEN "ok" ELSE "waiting"
      /\ UNCHANGED <<op, whole, output, said>>
  BY DEF Arrive
<1> HIDE DEF front, behind
<1>5. /\ (response_ \o front) \o behind = response_ \o (front \o behind)
      /\ response_ \o front \in Seq(AnyPiece)
  <2>1. (response_ \o front) \o behind = response_ \o (front \o behind)
    BY ONLY <1>1, <1>2, ConcatAssociative, SMTT(30)
  <2>2. response_ \o front \in Seq(AnyPiece)
    BY ONLY <1>1, <1>2, ConcatProperties, SMTT(30)
  <2> QED BY <2>1, <2>2
<1>6. Unprinted' = Unprinted
  BY <1>3, <1>4, <1>5 DEF Unprinted
<1>7. HttpTypes'
  BY <1>2, <1>4, <1>5 DEF HttpInv, HttpTypes, Enough, Reads
<1>8. EndIsEmpty'
  BY <1>4 DEF EndIsEmpty, Enough
<1> QED BY <1>1, <1>4, <1>6, <1>7, <1>8 DEF HttpInv, NothingLost, Reads

LEMMA HttpNextInv == HttpInv /\ [HttpNext]_httpVars => HttpInv'
<1> SUFFICES ASSUME HttpInv, [HttpNext]_httpVars PROVE HttpInv'
  OBVIOUS
<1>1. CASE Completes
  BY <1>1 DEF Completes, HttpInv, HttpTypes, NothingLost, EndIsEmpty, Unprinted, Reads
<1>2. CASE Close
  BY <1>2 DEF Close, HttpInv, HttpTypes, NothingLost, EndIsEmpty, Unprinted, Reads
<1>3. CASE Terminated \/ UNCHANGED httpVars
  BY <1>3 DEF Terminated, httpVars, HttpInv, HttpTypes, NothingLost, EndIsEmpty, Unprinted,
              Enough, EndsHeaders
<1>4. CASE HandleResolve \/ HandleHttpConnect \/ HandleWriteRequest
  BY <1>4, SetUpInv DEF HandleResolve, HandleHttpConnect, HandleWriteRequest
<1> QED BY <1>1, <1>2, <1>3, <1>4, ArriveInv, ReadStatusLineInv, ReadHeadersInv,
          ReadContentInv DEF HttpNext, Handler, Network

\* The types; and a read that has succeeded has left in the buffer what its
\* handler parses: a status line, a blank line that ends the headers, content.
THEOREM HttpTypeCorrect == HttpSpec => []HttpTypeOK
<1>1. HttpInv => HttpTypeOK
  BY DEF HttpInv, HttpTypes, HttpTypeOK, AnyPiece
<1> QED BY <1>1, HttpInitInv, HttpNextInv, PTL DEF HttpSpec

\* What is printed is the beginning of what the server sent, without the status
\* line and the line that ends the headers, for any responses, in any chunks.
THEOREM PrintsInTheirOrder == HttpSpec => []PrintsInOrder
<1> QED BY HttpInitInv, HttpNextInv, OutputIsPrefix, PTL DEF HttpSpec

\* A chain that ends without a message has printed everything.
THEOREM SilentEndsAreComplete == HttpSpec => []SilentEndIsComplete
<1>1. HttpInv => SilentEndIsComplete
  BY DEF HttpInv, NothingLost, SilentEndIsComplete
<1> QED BY <1>1, HttpInitInv, HttpNextInv, PTL DEF HttpSpec

-----------------------------------------------------------------------------
(* IntQueue.  The k-th number ever pushed is one of Generated, each of which *)
(* is pushed Copies times; the rest is to count the pushes and the pops.     *)
Rounds      == Len(Numbers) + 1
Index(k)    == (k - 1) \div Copies + 1
NumberAt(k) == Generated[Index(k)]

LEMMA Division ==
  ASSUME NEW c \in Nat \ {0}, NEW x \in Nat
  PROVE  /\ x \div c \in Nat
         /\ c * (x \div c) <= x /\ x < c * (x \div c) + c
BY SMTT(20)

LEMMA QuotientIs ==
  ASSUME NEW c \in Nat \ {0}, NEW a \in Nat, NEW b \in 0..c-1
  PROVE  (a * c + b) \div c = a
<1> DEFINE d == (a * c + b) \div c
<1>1. a * c + b \in Nat
  OBVIOUS
<1>2. d \in Nat /\ c * d <= a * c + b /\ a * c + b < c * d + c
  BY <1>1, Division
<1> HIDE DEF d
<1>3. d = a
  BY <1>2, SMTT(20)
<1> QED BY <1>3 DEF d

LEMMA GeneratedIs ==
  /\ Generated \in Seq(Nat \cup {done}) /\ Len(Generated) = Rounds
  /\ Rounds \in Nat \ {0} /\ Copies \in Nat \ {0} /\ done \notin Nat
  /\ \A r \in 1..Len(Numbers) : Generated[r] = Numbers[r] /\ Numbers[r] \in Nat
  /\ Generated[Rounds] = done
<1>1. Numbers \in Seq(Nat \cup {done}) /\ done \in Nat \cup {done} /\ Numbers \in Seq(Nat)
  BY QueueAssumption, SeqMonotonic
<1> QED BY <1>1, QueueAssumption, AppendProperties, LenProperties, ElementOfSeq
      DEF Generated, Rounds, done

LEMMA IndexOfCopy ==
  ASSUME NEW r \in Nat \ {0}, NEW c \in 1..Copies
  PROVE  Index((r - 1) * Copies + c) = r
<1>1. PICK a \in Nat, b \in 0..Copies-1 : a = r - 1 /\ b = c - 1
  BY GeneratedIs
<1>2. (a * Copies + b) \div Copies = a
  BY ONLY GeneratedIs, QuotientIs
<1>3. ((r - 1) * Copies + c) - 1 = a * Copies + b
  <2>1. PICK m : m = a * Copies
    OBVIOUS
  <2>2. m \in Int /\ (r - 1) * Copies = m
    BY <1>1, <2>1, GeneratedIs
  <2> QED BY <1>1, <2>1, <2>2
<1>4. Index((r - 1) * Copies + c) = a + 1
  BY <1>2, <1>3, Zenon DEF Index
<1> QED BY <1>1, <1>4

\* The copies of the numbers come first, and then those of done.
LEMMA NumberAtIs ==
  ASSUME NEW k \in 1..(Len(Numbers) * Copies + Copies)
  PROVE  /\ k <= Len(Numbers) * Copies =>
              NumberAt(k) = Numbers[Index(k)] /\ NumberAt(k) \in Nat
         /\ k > Len(Numbers) * Copies => NumberAt(k) = done
<1> DEFINE d == (k - 1) \div Copies
           l == Len(Numbers)
<1>1. /\ l \in Nat /\ l * Copies \in Nat /\ k \in Nat \ {0} /\ k <= l * Copies + Copies
      /\ Copies \in Nat \ {0}
  BY GeneratedIs, QueueAssumption, LenProperties
<1>2. d \in Nat /\ Copies * d <= k - 1 /\ k - 1 < Copies * d + Copies
  BY <1>1, Division
<1> HIDE DEF d, l
<1>3. k <= l * Copies => d < l
  BY <1>1, <1>2, SMTT(20)
<1>4. k > l * Copies => d = l
  BY <1>1, <1>2, SMTT(20)
<1>5. Index(k) = d + 1
  BY DEF Index, d
<1> QED BY <1>1, <1>2, <1>3, <1>4, <1>5, GeneratedIs DEF NumberAt, l, Rounds

-----------------------------------------------------------------------------
(* The inductive invariant: what q holds are the numbers pushed and not yet  *)
(* popped, what is printed are the numbers popped, in the order of the       *)
(* pushes, and print_ints() ends at the first done.                          *)
Pushed == (round - 1) * Copies + copies
Popped == Pushed - Len(q)

ProducerRounds ==
  /\ producer_at = "sleep"  => round <= Rounds /\ copies = 0
  /\ producer_at = "push"   => round <= Rounds
  /\ producer_at = "notify" => round <= Rounds /\ copies = Copies
  /\ producer_at = "end"    => round = Rounds + 1 /\ copies = 0

QueueHolds ==
  /\ Popped \in Nat
  /\ \A j \in 1..Len(q) : q[j] = NumberAt(Popped + j)

HasPopped == consumer_at \in {"got", "end"}

ConsumerPrints ==
  /\ Len(printed) = IF HasPopped THEN Popped - 1 ELSE Popped
  /\ \A k \in 1..Len(printed) : printed[k] = NumberAt(k)
  /\ HasPopped => i = NumberAt(Popped)
  /\ consumer_at = "end" => i = done

IntInv == TypeOK /\ ProducerRounds /\ QueueHolds /\ ConsumerPrints

\* As many numbers are pushed as there are copies, and no more.
LEMMA PushedBounds ==
  ASSUME IntInv
  PROVE  /\ Pushed \in Nat /\ Pushed <= Len(Numbers) * Copies + Copies
         /\ Len(q) \in Nat /\ Len(printed) \in Nat
<1>1. /\ round \in 1..Rounds + 1 /\ copies \in 0..Copies
      /\ round = Rounds + 1 => copies = 0
  BY GeneratedIs DEF IntInv, TypeOK, ProducerRounds
<1>2. Len(Numbers) \in Nat /\ Copies \in Nat
  BY GeneratedIs, QueueAssumption, LenProperties
<1>3. PICK r \in Nat, l \in Nat : r = round - 1 /\ l = Len(Numbers)
  <2>1. round - 1 \in Nat
    BY <1>1, GeneratedIs
  <2> QED BY ONLY <2>1, <1>2
<1>4. r <= l + 1 /\ (r = l + 1 => copies = 0)
  BY <1>1, <1>2, <1>3 DEF Rounds
<1>5. r * Copies \in Nat /\ l * Copies \in Nat
  BY <1>2, <1>3
<1>6. r * Copies + copies <= l * Copies + Copies
  <2>1. CASE r <= l
    <3>1. r * Copies <= l * Copies
      BY <1>2, <1>3, <2>1, SMTT(20)
    <3> QED BY <1>1, <1>2, <1>5, <3>1
  <2>2. CASE r = l + 1
    <3>1. r * Copies = l * Copies + Copies
      BY <1>2, <1>3, <2>2, SMTT(20)
    <3> QED BY <1>4, <1>5, <2>2, <3>1
  <2> QED BY <1>3, <1>4, <2>1, <2>2
<1>7. Pushed \in Nat
  <2>1. Pushed = r * Copies + copies
    BY <1>3 DEF Pushed
  <2> QED BY <1>1, <1>5, <2>1
<1> QED BY <1>3, <1>6, <1>7, LenProperties DEF IntInv, TypeOK, Pushed

LEMMA IntInitInv == Init => IntInv
<1> SUFFICES ASSUME Init PROVE IntInv
  OBVIOUS
<1>1. Pushed = 0 /\ Popped = 0 /\ Len(q) = 0 /\ Len(printed) = 0
  BY GeneratedIs DEF Init, Pushed, Popped
<1>2. TypeOK
  <2>1. joined \in BOOLEAN
    BY Zenon DEF Init
  <2>2. round \in 1..Len(Generated) + 1 /\ copies \in 0..Copies
    BY GeneratedIs DEF Init
  <2>3. q \in Seq(Nat \cup {done}) /\ printed \in Seq(Nat) /\ spurious \in 0..MaxSpurious
    BY QueueAssumption, EmptySeq DEF Init
  <2> QED BY <2>1, <2>2, <2>3 DEF Init, TypeOK
<1> QED BY <1>1, <1>2, GeneratedIs
      DEF Init, IntInv, ProducerRounds, QueueHolds, ConsumerPrints, HasPopped

\* Steps that neither push nor pop nor print.
LEMMA IdleInv ==
  ASSUME IntInv, TypeOK', ProducerRounds', UNCHANGED <<q, i, printed>>,
         Pushed' = Pushed, HasPopped' <=> HasPopped,
         consumer_at' = "end" => i = done
  PROVE  IntInv'
BY DEF IntInv, QueueHolds, ConsumerPrints, Popped

LEMMA ProducerStepsInv ==
  ASSUME IntInv, ProducerLock \/ ProducerUnlock \/ NotifyOne
  PROVE  IntInv'
<1> USE GeneratedIs DEF IntInv
<1>1. TypeOK'
  BY DEF ProducerLock, ProducerUnlock, NotifyOne, NextRound, TypeOK, Lock, Unlock,
         consumer, ProducerRounds
<1>2. ProducerRounds'
  BY DEF ProducerLock, ProducerUnlock, NotifyOne, NextRound, TypeOK, ProducerRounds
<1>3. Pushed' = Pushed
  <2>1. CASE ProducerLock \/ ProducerUnlock
    BY <2>1 DEF ProducerLock, ProducerUnlock, Pushed
  <2>2. CASE NotifyOne
    <3>1. /\ round' = round + 1 /\ copies' = 0 /\ copies = Copies
          /\ round \in Nat \ {0} /\ Copies \in Nat
      BY <2>2 DEF NotifyOne, NextRound, ProducerRounds, TypeOK
    <3>2. (round + 1 - 1) * Copies + 0 = (round - 1) * Copies + Copies
      BY ONLY <3>1, SMTT(20)
    <3> QED BY <3>1, <3>2 DEF Pushed
  <2> QED BY <2>1, <2>2
<1>4. /\ UNCHANGED <<q, i, printed>> /\ (HasPopped' <=> HasPopped)
      /\ consumer_at' = "end" => i = done
  BY DEF ProducerLock, ProducerUnlock, NotifyOne, NextRound, consumer, HasPopped,
         ConsumerPrints
<1> QED BY <1>1, <1>2, <1>3, <1>4, IdleInv

LEMMA ConsumerWaitsInv ==
  ASSUME IntInv, ConsumerLock \/ Wait \/ SpuriousWakeup \/ Join
  PROVE  IntInv'
<1> USE GeneratedIs
    DEF ConsumerLock, Wait, SpuriousWakeup, Join, producer, consumer, IntInv
<1>1. TypeOK'
  <2>1. joined' \in BOOLEAN
    BY Zenon DEF TypeOK
  <2>2. spurious' \in 0..MaxSpurious
    BY QueueAssumption DEF TypeOK
  <2>3. consumer_at' \in {"lock", "check", "wait", "woken", "got", "end"}
    BY DEF TypeOK
  <2>4. mtx' = "consumer" <=> consumer_at' = "check"
    BY DEF TypeOK, Lock, Unlock
  <2>5. mtx' = "producer" <=> producer_at' = "push"
    BY DEF TypeOK, Lock, Unlock
  <2> QED BY <2>1, <2>2, <2>3, <2>4, <2>5 DEF TypeOK
<1>2. ProducerRounds' /\ Pushed' = Pushed
  BY DEF ProducerRounds, Pushed
<1>3. /\ UNCHANGED <<q, i, printed>> /\ (HasPopped' <=> HasPopped)
      /\ consumer_at' = "end" => i = done
  BY DEF HasPopped, ConsumerPrints
<1> QED BY <1>1, <1>2, <1>3, IdleInv

LEMMA PushInv ==
  ASSUME IntInv, Push
  PROVE  IntInv'
<1> USE GeneratedIs DEF IntInv
<1>1. /\ producer_at = "push" /\ copies \in 0..Copies-1 /\ round \in 1..Rounds
      /\ q \in Seq(Nat \cup {done}) /\ Generated[round] \in Nat \cup {done}
      /\ Len(q) \in Nat
  BY LenProperties, ElementOfSeq DEF Push, TypeOK, ProducerRounds
<1>2. /\ q' \in Seq(Nat \cup {done}) /\ Len(q') = Len(q) + 1
      /\ \A j \in 1..Len(q) : q'[j] = q[j]
      /\ q'[Len(q) + 1] = Generated[round]
  BY <1>1, AppendProperties DEF Push
<1>3. /\ copies' = copies + 1
      /\ UNCHANGED <<mtx, producer_at, round, consumer_at, i, printed, spurious, joined>>
  BY DEF Push, consumer
<1>4. TypeOK' /\ ProducerRounds'
  BY <1>1, <1>2, <1>3 DEF TypeOK, ProducerRounds
<1>5. Pushed' = Pushed + 1 /\ Pushed \in Nat /\ Popped' = Popped /\ Popped \in Nat
  <2>1. Pushed \in Nat /\ Popped \in Nat
    BY PushedBounds DEF QueueHolds
  <2>2. (round - 1) * Copies \in Int
    BY <1>1
  <2>3. Pushed' = Pushed + 1
    BY <1>1, <1>3, <2>2 DEF Pushed
  <2> QED BY <1>1, <1>2, <2>1, <2>3 DEF Popped
<1>6. NumberAt(Pushed + 1) = Generated[round]
  <2>1. Index((round - 1) * Copies + (copies + 1)) = round
    <3>1. round \in Nat \ {0} /\ copies + 1 \in 1..Copies
      BY <1>1
    <3> QED BY ONLY <3>1, IndexOfCopy
  <2>2. (round - 1) * Copies \in Int
    BY <1>1
  <2>3. Pushed + 1 = (round - 1) * Copies + (copies + 1)
    BY <1>1, <2>2 DEF Pushed
  <2> QED BY <2>1, <2>3, Zenon DEF NumberAt
<1>7. ASSUME NEW j \in 1..Len(q') PROVE q'[j] = NumberAt(Popped' + j)
  <2>1. CASE j \in 1..Len(q)
    BY <1>2, <1>5, <2>1 DEF QueueHolds
  <2>2. CASE j = Len(q) + 1
    <3>1. Popped' + j = Pushed + 1
      <4>1. Pushed \in Nat /\ Len(q) \in Nat
        BY <1>1, <1>5
      <4>2. Popped = Pushed - Len(q)
        BY DEF Popped
      <4> QED BY ONLY <1>5, <2>2, <4>1, <4>2
    <3>2. q'[j] = Generated[round] /\ NumberAt(Popped' + j) = NumberAt(Pushed + 1)
      BY ONLY <1>2, <2>2, <3>1
    <3> QED BY ONLY <1>6, <3>2
  <2> QED BY <1>1, <1>2, <2>1, <2>2
<1> QED BY <1>3, <1>4, <1>5, <1>7 DEF QueueHolds, ConsumerPrints, HasPopped

LEMMA PopInv ==
  ASSUME IntInv, Pop
  PROVE  IntInv'
<1> USE GeneratedIs DEF IntInv
<1>1. /\ consumer_at = "check" /\ consumer_at' = "got" /\ mtx = "consumer" /\ mtx' = "free"
      /\ producer_at # "push"
      /\ UNCHANGED <<producer_at, round, copies, printed, spurious, joined>>
  BY DEF Pop, TypeOK, Unlock, producer
<1>2. /\ i' = q[1] /\ q[1] \in Nat \cup {done} /\ q' \in Seq(Nat \cup {done})
      /\ Len(q) \in Nat \ {0} /\ Len(q') = Len(q) - 1
      /\ \A j \in 1..Len(q') : q'[j] = q[j + 1]
  BY HeadTailProperties, EmptySeq, LenProperties DEF Pop, TakeFront, TypeOK
<1>3. TypeOK' /\ ProducerRounds'
  BY <1>1, <1>2 DEF TypeOK, ProducerRounds
<1>4. /\ Pushed' = Pushed /\ Pushed \in Nat /\ Popped \in Nat
      /\ Popped' = Popped + 1
  <2>1. Pushed' = Pushed /\ Pushed \in Nat /\ Popped \in Nat
    BY <1>1, PushedBounds DEF Pushed, QueueHolds
  <2> QED BY <1>2, <2>1 DEF Popped
<1>5. i' = NumberAt(Popped')
  BY <1>2, <1>4 DEF QueueHolds
<1>6. ASSUME NEW j \in 1..Len(q') PROVE q'[j] = NumberAt(Popped' + j)
  <2>1. j + 1 \in 1..Len(q) /\ Popped + (j + 1) = Popped' + j
    BY <1>2, <1>4
  <2> QED BY <1>2, <2>1 DEF QueueHolds
<1> QED BY <1>1, <1>3, <1>4, <1>5, <1>6 DEF QueueHolds, ConsumerPrints, HasPopped

LEMMA PrintIntInv ==
  ASSUME IntInv, PrintInt
  PROVE  IntInv'
<1> USE GeneratedIs DEF IntInv
<1>1. /\ consumer_at = "got" /\ i \in Nat \cup {done} /\ i = NumberAt(Popped)
      /\ Popped \in Nat /\ Len(printed) = Popped - 1 /\ printed \in Seq(Nat)
      /\ UNCHANGED <<q, mtx, producer_at, round, copies, i, spurious, joined>>
  BY DEF PrintInt, TypeOK, QueueHolds, ConsumerPrints, HasPopped, producer
<1>2. Popped' = Popped
  BY <1>1 DEF Popped, Pushed
<1>3. CASE i = done /\ consumer_at' = "end" /\ UNCHANGED printed
  <2>1. TypeOK' /\ ProducerRounds'
    BY <1>1, <1>3 DEF TypeOK, ProducerRounds
  <2> QED BY <1>1, <1>2, <1>3, <2>1 DEF QueueHolds, ConsumerPrints, HasPopped
<1>4. CASE i # done /\ consumer_at' = "lock" /\ printed' = Append(printed, i)
  <2>1. /\ printed' \in Seq(Nat) /\ Len(printed') = Popped
        /\ \A k \in 1..Len(printed) : printed'[k] = printed[k]
        /\ printed'[Popped] = i
    BY <1>1, <1>4, AppendProperties
  <2>2. TypeOK' /\ ProducerRounds'
    BY <1>1, <1>4, <2>1 DEF TypeOK, ProducerRounds
  <2>3. ASSUME NEW k \in 1..Len(printed') PROVE printed'[k] = NumberAt(k)
    <3>1. k \in 1..Len(printed) \/ k = Popped
      BY <1>1, <2>1
    <3> QED BY <1>1, <2>1, <3>1 DEF ConsumerPrints
  <2> QED BY <1>1, <1>2, <1>4, <2>1, <2>2, <2>3 DEF QueueHolds, ConsumerPrints, HasPopped
<1> QED BY <1>3, <1>4 DEF PrintInt

LEMMA IntNextInv == IntInv /\ [Next]_vars => IntInv'
<1> SUFFICES ASSUME IntInv, [Next]_vars PROVE IntInv'
  OBVIOUS
<1>1. CASE UNCHANGED vars
  BY <1>1 DEF vars, producer, consumer, IntInv, TypeOK, ProducerRounds, QueueHolds,
              ConsumerPrints, HasPopped, Popped, Pushed
<1> QED BY <1>1, ProducerStepsInv, ConsumerWaitsInv, PushInv, PopInv, PrintIntInv
      DEF Next, ProducerStep, ConsumerStep

\* The first elements of a sequence.
LEMMA FirstPart ==
  ASSUME NEW S, NEW s \in Seq(S), NEW n \in 0..Len(s)
  PROVE  /\ SubSeq(s, 1, n) \in Seq(S)
         /\ Len(SubSeq(s, 1, n)) = n
         /\ \A k \in 1..n : SubSeq(s, 1, n)[k] = s[k]
<1>1. Len(s) \in Nat /\ \A k \in 1..n : s[k] \in S
  BY ONLY n \in 0..Len(s), s \in Seq(S), LenProperties, ElementOfSeq
<1> QED BY <1>1, SubSeqProperties

\* What is printed is what is pushed before the first done.
LEMMA PrintedInOrder == IntInv => PrintsAllInOrder
<1> SUFFICES ASSUME IntInv PROVE PrintsAllInOrder
  OBVIOUS
<1> DEFINE total == Len(Numbers) * Copies
<1>1. /\ total \in Nat /\ Copies \in Nat \ {0} /\ done \notin Nat
      /\ Pushed \in Nat /\ Pushed <= total + Copies /\ Popped \in Nat
      /\ Len(q) \in Nat /\ Popped + Len(q) = Pushed
  <2>1. Len(Numbers) \in Nat
    BY QueueAssumption, LenProperties
  <2>2. Popped + Len(q) = Pushed
    BY PushedBounds DEF Popped
  <2> QED BY <2>1, <2>2, GeneratedIs, PushedBounds DEF IntInv, QueueHolds
<1>2. \A k \in 1..(total + Copies) :
        /\ k <= total => NumberAt(k) = Numbers[Index(k)] /\ NumberAt(k) \in Nat
        /\ k > total => NumberAt(k) = done
  BY NumberAtIs
<1>3. /\ Expected \in Seq(Nat) /\ Len(Expected) = total
      /\ \A k \in 1..total : Expected[k] = NumberAt(k)
  <2>1. \A k \in 1..total : NumberAt(k) = Numbers[Index(k)] /\ NumberAt(k) \in Nat
    BY <1>1, <1>2
  <2>2. Expected = [k \in 1..total |-> Numbers[Index(k)]]
    BY DEF Expected, Index
  <2> HIDE DEF total
  <2>3. Expected \in [1..total -> Nat]
    BY <2>1, <2>2
  <2> QED BY <1>1, <2>1, <2>2, <2>3, FunctionIsSeq
<1> HIDE DEF total
<1>4. /\ printed \in Seq(Nat) /\ Len(printed) \in Nat
      /\ Len(printed) = IF HasPopped THEN Popped - 1 ELSE Popped
      /\ \A k \in 1..Len(printed) : printed[k] = NumberAt(k) /\ printed[k] \in Nat
  BY PushedBounds, ElementOfSeq DEF IntInv, TypeOK, ConsumerPrints
<1>5. Len(printed) <= total
  <2>1. CASE Len(printed) = 0
    BY <1>1, <2>1
  <2>2. CASE Len(printed) # 0
    <3> DEFINE last == Len(printed)
    <3> HIDE DEF last
    <3>1. last \in 1..Len(printed)
      <4>1. last \in Nat /\ last # 0 /\ last = Len(printed)
        BY <1>4, <2>2, Zenon DEF last
      <4> QED BY ONLY <4>1
    <3>2. NumberAt(last) \in Nat
      BY <1>4, <3>1
    <3>3. last \in 1..(total + Copies)
      BY <1>1, <1>4, <3>1 DEF last
    <3>4. last <= total
      BY <1>1, <1>2, <3>2, <3>3
    <3> QED BY <3>4 DEF last
  <2> QED BY <2>1, <2>2
<1>6. IsPrefix(printed, Expected)
  <2>1. /\ SubSeq(printed, 1, Len(printed)) \in Seq(Nat)
        /\ Len(SubSeq(printed, 1, Len(printed))) = Len(printed)
        /\ \A k \in 1..Len(printed) : SubSeq(printed, 1, Len(printed))[k] = printed[k]
    BY <1>4, SubSeqFull
  <2>2. /\ SubSeq(Expected, 1, Len(printed)) \in Seq(Nat)
        /\ Len(SubSeq(Expected, 1, Len(printed))) = Len(printed)
        /\ \A k \in 1..Len(printed) :
             SubSeq(Expected, 1, Len(printed))[k] = Expected[k]
    <3>1. Expected \in Seq(Nat) /\ Len(printed) \in 0..Len(Expected)
      BY <1>1, <1>3, <1>4, <1>5
    <3> QED BY ONLY <3>1, FirstPart
  <2>3. \A k \in 1..Len(printed) : printed[k] = Expected[k]
    BY <1>1, <1>3, <1>4, <1>5
  <2>4. SubSeq(printed, 1, Len(printed)) = SubSeq(Expected, 1, Len(printed))
    BY ONLY <2>1, <2>2, <2>3, SeqEqual
  <2> QED BY <1>3, <1>5, <2>4 DEF IsPrefix
<1>7. ASSUME consumer_at = "end"
      PROVE  printed = Expected /\ \A k \in DOMAIN q : q[k] = done
  <2>1. /\ HasPopped /\ NumberAt(Popped) = done /\ Len(printed) = Popped - 1
        /\ Popped \in 1..(total + Copies)
    BY <1>1, <1>4, <1>7 DEF IntInv, ConsumerPrints, HasPopped
  <2>2. Popped > total
    BY <1>1, <1>2, <2>1
  <2>3. Len(printed) = total
    BY <1>1, <1>4, <1>5, <2>1, <2>2
  <2>4. printed = Expected
    BY <1>3, <1>4, <2>3, SeqEqual
  <2>5. ASSUME NEW k \in 1..Len(q) PROVE q[k] = done
    <3>1. q[k] = NumberAt(Popped + k)
      BY DEF IntInv, QueueHolds
    <3>2. Popped + k \in 1..(total + Copies) /\ Popped + k > total
      BY <1>1, <2>1, <2>2
    <3> QED BY <1>2, <3>1, <3>2
  <2>6. DOMAIN q = 1..Len(q)
    BY LenProperties DEF IntInv, TypeOK
  <2> QED BY <2>4, <2>5, <2>6
<1> QED BY <1>6, <1>7 DEF PrintsAllInOrder

\* The types; and each thread holds mtx exactly where it touches q.
THEOREM IntTypeCorrect == Spec => []TypeOK
<1> QED BY IntInitInv, IntNextInv, PTL DEF Spec, IntInv

\* print_ints() prints what generate_ints() pushes, in order, up to the first
\* done, and all of it before it ends; for any numbers and any number of copies.
THEOREM AllIsPrinted == Spec => []PrintsAllInOrder
<1> QED BY IntInitInv, IntNextInv, PrintedInOrder, PTL DEF Spec
===============================================================================
