---------------------------- MODULE ClientLifecycle ----------------------------
(***************************************************************************)
(* What class client of src/client-async-2.cpp promises the program that   *)
(* starts it: it tries the endpoints in turn, one at a time and each once, *)
(* until one accepts; it gives up only after the last; it never connects   *)
(* again; and the io_service runs until it has stopped.  No endpoint keeps *)
(* it for ever, whatever its peer does or does not do.                     *)
(***************************************************************************)
EXTENDS Naturals

CONSTANTS NumEndpoints, UserMayStop, SystemCallsMayFail

VARIABLES
  phase,     \* created, connecting, connected, stopped, returned or failed
  endpoint   \* the endpoint tried last

vars == <<phase, endpoint>>

Init == phase = "created" /\ endpoint = 1

To(from, to) == phase = from /\ phase' = to

Start     == To("created", "connecting") /\ UNCHANGED endpoint
TryNext   == /\ endpoint < NumEndpoints
             /\ To("connecting", "connecting")
             /\ endpoint' = endpoint + 1
GiveUp    == /\ endpoint = NumEndpoints
             /\ To("connecting", "stopped")
             /\ endpoint' = endpoint + 1
Establish == To("connecting", "connected") /\ UNCHANGED endpoint
Drop      == To("connected", "stopped") /\ UNCHANGED endpoint
Return    == To("stopped", "returned") /\ UNCHANGED endpoint

UserStop  == /\ UserMayStop
             /\ phase \in {"connecting", "connected"}
             /\ phase' = "stopped"
             /\ UNCHANGED endpoint

\* A system call that fails throws out of the handler, and so out of run().
Fail      == /\ SystemCallsMayFail
             /\ phase \in {"connecting", "connected"}
             /\ phase' = "failed"
             /\ UNCHANGED endpoint

Next == Start \/ TryNext \/ GiveUp \/ Establish \/ Drop \/ Return \/ UserStop \/ Fail

Trying(i) == phase = "connecting" /\ endpoint = i
Progress  == \A i \in 1..NumEndpoints : Trying(i) ~> ~Trying(i)

Spec == Init /\ [][Next]_vars /\ Progress
=============================================================================
