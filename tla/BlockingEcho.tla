------------------------------ MODULE BlockingEcho ------------------------------
(***************************************************************************)
(* main() of src/client-bloking-timeout-1.cpp: connects, sends a line and  *)
(* reads lines until the one it sent comes back.                           *)
(***************************************************************************)
EXTENDS BlockingClient

CONSTANTS
  CallTimeout,    \* 10 seconds, the timeout of every call
  MaxOther        \* bound: lines the peer sends that are not the echo

ASSUME EchoAssumption == CallTimeout \in Timeouts /\ MaxOther \in Nat

VARIABLES
  main_at,    \* the statement main() is at
  others      \* how many lines that were not the echo it has read

allvars == <<vars, main_at, others>>

EchoInit == Init /\ main_at = "connect" /\ others = 0

\* The statement that follows a call; an exception leaves the try block.
GoOn(to) == main_at' = IF outcome = "threw" THEN "caught" ELSE to

Begins(at, to) == main_at = at /\ ~InCall /\ main_at' = to /\ UNCHANGED others

MainConnect ==
  \/ Begins("connect", "connecting") /\ Connect(CallTimeout)
  \/ Begins("connect", "connecting") /\ ConnectUnresolved

Connected ==
  /\ main_at = "connecting" /\ ~InCall
  /\ GoOn("write")
  /\ UNCHANGED <<vars, others>>

MainWrite == Begins("write", "writing") /\ WriteLine(CallTimeout)

Written ==
  /\ main_at = "writing" /\ ~InCall
  /\ GoOn("read")
  /\ UNCHANGED <<vars, others>>

MainRead == Begins("read", "reading") /\ ReadLine(CallTimeout)

\* if (line == argv[3]) break;
LineRead ==
  /\ main_at = "reading" /\ ~InCall
  /\ \/ GoOn("report") /\ UNCHANGED others
     \/ /\ others < MaxOther /\ outcome = "returned"
        /\ main_at' = "read"
        /\ others' = others + 1
  /\ UNCHANGED vars

MainStep ==
  MainConnect \/ Connected \/ MainWrite \/ Written \/ MainRead \/ LineRead

Library == (RunOne \/ Network \/ TimerExpires \/ Tick) /\ UNCHANGED <<main_at, others>>

Terminated == main_at \in {"report", "caught"} /\ UNCHANGED allvars

EchoNext == MainStep \/ Library \/ Terminated

EchoFairness ==
  /\ WF_allvars(MainStep)
  /\ \A ec \in Result :
       /\ WF_allvars(Completed(ec) /\ UNCHANGED <<main_at, others>>)
       /\ WF_allvars(CheckDeadline(ec) /\ UNCHANGED <<main_at, others>>)
  /\ WF_allvars(TimerExpires /\ UNCHANGED <<main_at, others>>)
  /\ WF_allvars(Tick /\ UNCHANGED <<main_at, others>>)

EchoSpec == EchoInit /\ [][EchoNext]_allvars /\ EchoFairness

-----------------------------------------------------------------------------
\* main() sends its message only on a connection: the socket that connect()
\* found open is still open when write_line() begins, although the deadline of
\* connect() is armed meanwhile and may pass.
WriteHasConnection == main_at = "writing" /\ InCall => usable

\* The program ends, with a round trip or an exception, if the peer does not go
\* on for ever to send lines that are not the echo.
MainEnds == main_at = "connect" ~> main_at \in {"report", "caught"}
=============================================================================
