------------------------------ MODULE AsioProofs ------------------------------
(***************************************************************************)
(* What the operators of Asio do to the number of operations that each     *)
(* handler has outstanding, and to the number of them that are ready with  *)
(* each result.                                                            *)
(***************************************************************************)
EXTENDS Asio, TLAPS

Operations(Handler) == [Handler -> [Status -> Nat]]

One(condition) == IF condition THEN 1 ELSE 0

LEMMA NothingOutstanding ==
  ASSUME NEW Handler
  PROVE  /\ Nothing(Handler) \in Operations(Handler)
         /\ \A g \in Handler : Outstanding(Nothing(Handler), g) = 0
         /\ \A g \in Handler, s \in Status : Nothing(Handler)[g][s] = 0
BY DEF Nothing, Operations, Outstanding, Status, Result

LEMMA OutstandingIsNat ==
  ASSUME NEW Handler, NEW io \in Operations(Handler), NEW g \in Handler
  PROVE  /\ Outstanding(io, g) \in Nat
         /\ \A s \in Status : io[g][s] \in Nat /\ io[g][s] <= Outstanding(io, g)
BY DEF Operations, Outstanding, Status, Result

\* An operation that starts is one more of its handler.
LEMMA BeginAdds ==
  ASSUME NEW Handler, NEW io \in Operations(Handler), NEW h \in Handler
  PROVE  /\ Begin(io, h) \in Operations(Handler)
         /\ \A g \in Handler :
              Outstanding(Begin(io, h), g) = Outstanding(io, g) + One(g = h)
         /\ \A g \in Handler, e \in Result : Begin(io, h)[g][e] = io[g][e]
         /\ \A g \in Handler :
              Begin(io, h)[g]["waiting"] = io[g]["waiting"] + One(g = h)
<1> USE DEF Begin, Operations, Outstanding, One, Status, Result
<1>1. Begin(io, h) = [io EXCEPT ![h] = [io[h] EXCEPT !["waiting"] = @ + 1]]
  OBVIOUS
<1> QED BY <1>1

LEMMA PostAdds ==
  ASSUME NEW Handler, NEW io \in Operations(Handler), NEW h \in Handler,
         NEW ec \in Result
  PROVE  /\ Post(io, h, ec) \in Operations(Handler)
         /\ \A g \in Handler :
              Outstanding(Post(io, h, ec), g) = Outstanding(io, g) + One(g = h)
         /\ \A g \in Handler, e \in Result :
              Post(io, h, ec)[g][e] = io[g][e] + One(g = h /\ e = ec)
         /\ \A g \in Handler : Post(io, h, ec)[g]["waiting"] = io[g]["waiting"]
<1> USE DEF Post, Operations, Outstanding, One, Status, Result
<1>1. Post(io, h, ec) = [io EXCEPT ![h] = [io[h] EXCEPT ![ec] = @ + 1]]
  OBVIOUS
<1> QED BY <1>1

\* One that completes, with whatever result, stays outstanding until its handler
\* has been called.
LEMMA CompleteKeeps ==
  ASSUME NEW Handler, NEW io \in Operations(Handler), NEW h \in Handler,
         NEW ec \in Result, Waiting(io, h)
  PROVE  /\ Complete(io, h, ec) \in Operations(Handler)
         /\ \A g \in Handler : Outstanding(Complete(io, h, ec), g) = Outstanding(io, g)
         /\ \A g \in Handler, e \in Result :
              Complete(io, h, ec)[g][e] = io[g][e] + One(g = h /\ e = ec)
         /\ \A g \in Handler :
              Complete(io, h, ec)[g]["waiting"] = io[g]["waiting"] - One(g = h)
<1> USE DEF Complete, Post, Waiting, Operations, Outstanding, One, Status, Result
<1>1. Complete(io, h, ec)
        = [io EXCEPT ![h] = [[io[h] EXCEPT !["waiting"] = @ - 1] EXCEPT ![ec] = @ + 1]]
  OBVIOUS
<1> QED BY <1>1

LEMMA DispatchRemoves ==
  ASSUME NEW Handler, NEW io \in Operations(Handler), NEW h \in Handler,
         NEW ec \in Result, Ready(io, h, ec)
  PROVE  /\ Dispatch(io, h, ec) \in Operations(Handler)
         /\ \A g \in Handler :
              Outstanding(Dispatch(io, h, ec), g) = Outstanding(io, g) - One(g = h)
         /\ \A g \in Handler, e \in Result :
              Dispatch(io, h, ec)[g][e] = io[g][e] - One(g = h /\ e = ec)
         /\ \A g \in Handler : Dispatch(io, h, ec)[g]["waiting"] = io[g]["waiting"]
<1> USE DEF Dispatch, Ready, Operations, Outstanding, One, Status, Result
<1>1. Dispatch(io, h, ec) = [io EXCEPT ![h] = [io[h] EXCEPT ![ec] = @ - 1]]
  OBVIOUS
<1> QED BY <1>1

\* A cancellation ends waits; it takes no handler away and adds none.
LEMMA CancelKeeps ==
  ASSUME NEW Handler, NEW io \in Operations(Handler), NEW H
  PROVE  /\ Cancel(io, H) \in Operations(Handler)
         /\ \A g \in Handler : Outstanding(Cancel(io, H), g) = Outstanding(io, g)
         /\ \A g \in Handler : Cancel(io, H)[g]["ok"] = io[g]["ok"]
         /\ \A g \in Handler :
              Cancel(io, H)[g]["waiting"] = IF g \in H THEN 0 ELSE io[g]["waiting"]
BY DEF Cancel, Operations, Outstanding, Status, Result
=============================================================================
