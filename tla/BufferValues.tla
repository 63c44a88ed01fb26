----------------------------- MODULE BufferValues -----------------------------
(***************************************************************************)
(* What class Buffer of src/swap-1.cpp promises: a buffer is a value.  A   *)
(* copy has the value of its source, a move takes it away, and what        *)
(* happens to one buffer never changes another.  The exceptions are part   *)
(* of it: an assignment that fails breaks its target, a buffer assigned to *)
(* itself keeps no more than its size, and nothing is undefined but to     *)
(* copy, to destroy or to assign to a broken buffer.                       *)
(***************************************************************************)
EXTENDS Naturals, Sequences

CONSTANTS
  Buffer,      \* the variables of the type
  Value,       \* the sequences of elements that occur
  NoBuffer,    \* the value of a variable that is not constructed, or destroyed
  Broken       \* the value of a buffer whose storage is gone

VARIABLES
  val,         \* the value of each variable
  undefined    \* whether the program has done what has no defined effect

valueVars == <<val, undefined>>

Init == val = [b \in Buffer |-> NoBuffer] /\ undefined = FALSE

Alive(b) == val[b] # NoBuffer

Set(b, v) == val' = [val EXCEPT ![b] = v] /\ UNCHANGED undefined

Construct(b, v) == ~Alive(b) /\ Set(b, v)

Copy(b, other) == val[b] # Broken /\ val[other] \in Value /\ Set(b, val[other])

AssignSelf(b, v) == val[b] \in Value /\ Len(v) = Len(val[b]) /\ Set(b, v)

FailToAssign(b) == val[b] \in Value /\ Set(b, Broken)

\* A broken buffer may be moved, and moved to.
Move(b, other) ==
  /\ Alive(other)
  /\ val' = [val EXCEPT ![b] = val[other], ![other] = <<>>]
  /\ UNCHANGED undefined

Destroy(b) == val[b] \in Value /\ Set(b, NoBuffer)

UseBroken(b) == val[b] = Broken /\ undefined' = TRUE /\ UNCHANGED val

Next ==
  /\ ~undefined
  /\ \E b \in Buffer :
       \/ \E v \in Value : Construct(b, v) \/ AssignSelf(b, v)
       \/ \E other \in Buffer \ {b} : Copy(b, other)
       \/ \E other \in Buffer : Move(b, other)
       \/ FailToAssign(b) \/ Destroy(b) \/ UseBroken(b)

Spec == Init /\ [][Next]_valueVars
=============================================================================
