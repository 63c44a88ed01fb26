--------------------------- MODULE MCBlockingClient ---------------------------
(***************************************************************************)
(* The blocking client under its own main() and, chosen at the start, under *)
(* a caller of any other kind.                                             *)
(***************************************************************************)
EXTENDS BlockingEcho

MCInit == Init /\ others = 0 /\ main_at \in {"connect", "other"}

OtherCaller == main_at = "other" /\ Next /\ UNCHANGED <<main_at, others>>

MCSpec == MCInit /\ [][EchoNext \/ OtherCaller]_allvars /\ EchoFairness
=============================================================================
