------------------------- MODULE MCWorkQueueProgram -------------------------
(* Model-checking instance of WorkQueueProgram: two pushers, two poppers.   *)
EXTENDS WorkQueueProgram

CONSTANTS push1, push2, pop_sync1, pop_sync2

MCPusher == {push1, push2}
MCPopper == {pop_sync1, pop_sync2}
MCThread == MCPusher \cup MCPopper \cup {Main}
=============================================================================
