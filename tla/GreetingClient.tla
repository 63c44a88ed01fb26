---------------------------- MODULE GreetingClient ----------------------------
(***************************************************************************)
(* class client and main() of src/client-async-3.cpp: connects, writes one *)
(* greeting and ends.  The greeting is a local of handle_connect(); what   *)
(* the socket does not take before the handler returns is sent later, out  *)
(* of memory that the string has left.                                     *)
(***************************************************************************)
EXTENDS Asio, Sequences

CONSTANT Length    \* the length of the greeting, in pieces that one send may take

ASSUME LengthAssumption == Length \in Nat \ {0}

VARIABLES
  io,          \* the operations outstanding on io_context
  received,    \* the pieces sent: the number of a piece, or Other
  atOnce,      \* history: how many of them went before handle_connect() returned
  doneSaid,    \* whether "Done!" is printed
  main_at      \* main(): "construct", "run", "returned" or "caught"

greetingVars == <<io, received, atOnce, doneSaid, main_at>>

GreetingHandler == {"handle_connect", "handle_write"}
Other == 0    \* a piece that is not of the greeting

GreetingInit ==
  /\ io = Nothing(GreetingHandler)
  /\ received = <<>> /\ atOnce = 0 /\ doneSaid = FALSE
  /\ main_at = "construct"

-----------------------------------------------------------------------------
\* client(): resolve() may throw; async_connect() tries every endpoint.
ConstructClient ==
  /\ main_at = "construct"
  /\ \/ main_at' = "run" /\ io' = Begin(io, "handle_connect")
     \/ main_at' = "caught" /\ UNCHANGED io
  /\ UNCHANGED <<received, atOnce, doneSaid>>

ConnectEnds(ec) ==
  /\ main_at = "run" /\ Waiting(io, "handle_connect")
  /\ io' = Complete(io, "handle_connect", ec)
  /\ UNCHANGED <<received, atOnce, doneSaid, main_at>>

\* Faulty: async_write_some() is over when the socket has taken something.
WriteSome(q, n) ==
  IF n > 0 THEN Post(q, "handle_write", "ok") ELSE Begin(q, "handle_write")

\* async_write() is over when the socket has taken everything.
WriteAll(q, n) ==
  IF n = Length THEN Post(q, "handle_write", "ok") ELSE Begin(q, "handle_write")

\* void handle_connect(e): async_write() sends at once what the socket takes, n
\* pieces, while msg is alive, or fails at once.
HandleConnect(ec) ==
  /\ main_at = "run" /\ Ready(io, "handle_connect", ec)
  /\ LET q == Dispatch(io, "handle_connect", ec)
     IN \/ ec = "error" /\ io' = q /\ UNCHANGED <<received, atOnce>>
        \/ /\ ec = "ok"
           /\ \E n \in 0..Length :
                /\ atOnce' = n
                /\ received' = [i \in 1..n |-> i]
                /\ \/ io' = WriteAll(q, n)
                   \/ n < Length /\ io' = Post(q, "handle_write", "error")
  /\ UNCHANGED <<doneSaid, main_at>>

\* The rest is sent from where msg was: what it held, or anything else.
SendRest ==
  /\ main_at = "run" /\ Waiting(io, "handle_write")
  /\ \E n \in Len(received)..Length :
       /\ received' \in { s \in [1..n -> 0..Length] :
                            /\ SubSeq(s, 1, Len(received)) = received
                            /\ \A i \in (Len(received) + 1)..n : s[i] \in {i, Other} }
       /\ io' \in IF n = Length THEN {Complete(io, "handle_write", "ok")}
                                ELSE {io, Complete(io, "handle_write", "error")}
  /\ UNCHANGED <<atOnce, doneSaid, main_at>>

\* void handle_write(e)
HandleWrite(ec) ==
  /\ main_at = "run" /\ Ready(io, "handle_write", ec)
  /\ io' = Dispatch(io, "handle_write", ec)
  /\ doneSaid' = (ec = "ok")
  /\ UNCHANGED <<received, atOnce, main_at>>

\* run() returns when no operation is left.
RunReturns ==
  /\ main_at = "run" /\ OutOfWork(io)
  /\ main_at' = "returned"
  /\ UNCHANGED <<io, received, atOnce, doneSaid>>

GreetingEnded ==
  /\ main_at \in {"returned", "caught"}
  /\ UNCHANGED greetingVars

GreetingNext ==
  \/ ConstructClient \/ SendRest \/ RunReturns \/ GreetingEnded
  \/ \E ec \in Result : ConnectEnds(ec) \/ HandleConnect(ec) \/ HandleWrite(ec)

GreetingSpec == GreetingInit /\ [][GreetingNext]_greetingVars

-----------------------------------------------------------------------------
GreetingTypeOK ==
  /\ io \in [GreetingHandler -> [Status -> Nat]]
  /\ received \in Seq(0..Length) /\ Len(received) <= Length
  /\ atOnce \in 0..Length
  /\ doneSaid \in BOOLEAN
  /\ main_at \in {"construct", "run", "returned", "caught"}

\* "Done!" means that the server was sent as many pieces as the greeting has, of
\* which those the socket took before the string went are the greeting's own.
\* No more: the others are what the memory held when they were sent.
DoneMeansSent ==
  doneSaid => /\ Len(received) = Length
          /\ \A i \in 1..atOnce : received[i] = i
=============================================================================
