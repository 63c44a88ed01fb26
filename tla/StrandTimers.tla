----------------------------- MODULE StrandTimers -----------------------------
(***************************************************************************)
(* class PRINTER and main() of src/boost-timer-5-async-bind.cpp: two       *)
(* chains of timers whose handlers share count_, run by two threads that   *)
(* are both in io_service::run().  A strand keeps the handlers apart;      *)
(* print2() cancels the timer of print1().                                 *)
(***************************************************************************)
EXTENDS Asio, Sequences, FiniteSets

CONSTANTS
  Thread,     \* the threads in io_service::run()
  NoThread,   \* "no thread is in the strand"
  MaxTime     \* bound: seconds after which the clock of the model stands still

ASSUME StrandAssumption == NoThread \notin Thread /\ MaxTime \in Nat \ {0}

Handler == {"print1", "print2"}

VARIABLES
  now,        \* seconds since the program began
  expires,    \* expires_at() of the timer of each handler
  io,         \* the waits outstanding
  strand_,    \* the thread in the strand, and the handlers queued behind it
  at,         \* what each thread does: in run(), or where in which handler
  count_,     \* the counter that both handlers increment
  loaded,     \* the value of count_ that each thread has read and not written
  prints      \* history: how often each handler has gone past its increment

vars == <<now, expires, io, strand_, at, count_, loaded, prints>>

InRun == [handler |-> "none", ec |-> "ok", step |-> "run"]

\* PRINTER() starts both waits, one second from now; both threads enter run().
Init ==
  /\ now = 0
  /\ expires = [h \in Handler |-> 1]
  /\ io = Begin(Begin(Nothing(Handler), "print1"), "print2")
  /\ strand_ = [holder |-> NoThread, queue |-> <<>>]
  /\ at = [t \in Thread |-> InRun]
  /\ count_ = 0 /\ loaded = [t \in Thread |-> 0]
  /\ prints = [h \in Handler |-> 0]

-----------------------------------------------------------------------------
(* The strand: a handler that it wraps runs at once when nobody is in the   *)
(* strand or waits for it, and is queued otherwise.                          *)
Enters(t, h, ec) == at' = [at EXCEPT ![t] = [handler |-> h, ec |-> ec, step |-> "load"]]

\* Faulty: the handler is not wrapped by the strand.
RunUnwrapped(t, h, ec) ==
  /\ at[t] = InRun /\ Ready(io, h, ec)
  /\ io' = Dispatch(io, h, ec)
  /\ Enters(t, h, ec)
  /\ UNCHANGED <<now, expires, strand_, count_, loaded, prints>>

RunWrapped(t, h, ec) ==
  /\ at[t] = InRun /\ Ready(io, h, ec)
  /\ io' = Dispatch(io, h, ec)
  /\ \/ /\ strand_ = [holder |-> NoThread, queue |-> <<>>]
        /\ strand_' = [strand_ EXCEPT !.holder = t]
        /\ Enters(t, h, ec)
     \/ /\ strand_ # [holder |-> NoThread, queue |-> <<>>]
        /\ strand_' = [strand_ EXCEPT !.queue = Append(@, [handler |-> h, ec |-> ec])]
        /\ UNCHANGED at
  /\ UNCHANGED <<now, expires, count_, loaded, prints>>

RunQueued(t) ==
  /\ at[t] = InRun
  /\ strand_.holder = NoThread /\ strand_.queue # <<>>
  /\ strand_' = [holder |-> t, queue |-> Tail(strand_.queue)]
  /\ Enters(t, Head(strand_.queue).handler, Head(strand_.queue).ec)
  /\ UNCHANGED <<now, expires, io, count_, loaded, prints>>

-----------------------------------------------------------------------------
(* print1() and print2().  The increment is a read and a write; what comes  *)
(* after it is one step.                                                     *)
Goes(t, step) == at' = [at EXCEPT ![t].step = step]

Leave(t) ==
  /\ at' = [at EXCEPT ![t] = InRun]
  /\ strand_' = IF strand_.holder = t THEN [strand_ EXCEPT !.holder = NoThread]
                                      ELSE strand_

\* print1() returns when its wait was cancelled; print2() does not ask.
Aborted(t) == at[t].handler = "print1" /\ at[t].ec = "error"

ReturnOnError(t) ==
  /\ at[t].step = "load" /\ Aborted(t)
  /\ Leave(t)
  /\ UNCHANGED <<now, expires, io, count_, loaded, prints>>

Load(t) ==
  /\ at[t].step = "load" /\ ~Aborted(t)
  /\ loaded' = [loaded EXCEPT ![t] = count_]
  /\ Goes(t, "store")
  /\ UNCHANGED <<now, expires, io, strand_, count_, prints>>

Store(t) ==
  /\ at[t].step = "store"
  /\ count_' = loaded[t] + 1
  /\ prints' = [prints EXCEPT ![at[t].handler] = @ + 1]
  /\ loaded' = [loaded EXCEPT ![t] = 0]
  /\ Goes(t, "rearm")
  /\ UNCHANGED <<now, expires, io, strand_>>

\* Faulty: the next wait ends a second after now, as with expires_from_now().
NextExpiryFromNow(h) == now + 1

NextExpiry(h) == expires[h] + 1

\* timer1_.cancel() in print2(); it is too late for a handler that is ready.
Cancels(q, h) == IF h = "print2" THEN Cancel(q, {"print1"}) ELSE q

\* Faulty: the timer is not set to wait again.
NotAgain(t) ==
  /\ at[t].step = "rearm"
  /\ LET h == at[t].handler
     IN /\ expires' = [expires EXCEPT ![h] = NextExpiry(h)]
        /\ io' = Cancels(io, h)
  /\ Leave(t)
  /\ UNCHANGED <<now, count_, loaded, prints>>

\* The expiry is set, which would cancel a wait of the same timer, the wait
\* begins again, and print2() cancels the wait of the other timer.
Rearm(t) ==
  /\ at[t].step = "rearm"
  /\ LET h == at[t].handler
     IN /\ expires' = [expires EXCEPT ![h] = NextExpiry(h)]
        /\ io' = Cancels(Begin(Cancel(io, {h}), h), h)
  /\ Leave(t)
  /\ UNCHANGED <<now, count_, loaded, prints>>

-----------------------------------------------------------------------------
TimerExpires(h) ==
  /\ Waiting(io, h) /\ expires[h] <= now
  /\ io' = Complete(io, h, "ok")
  /\ UNCHANGED <<now, expires, strand_, at, count_, loaded, prints>>

Tick ==
  /\ now' = IF now < MaxTime THEN now + 1 ELSE now
  /\ UNCHANGED <<expires, io, strand_, at, count_, loaded, prints>>

Next ==
  \/ \E t \in Thread :
       \/ \E h \in Handler, ec \in Result : RunWrapped(t, h, ec)
       \/ RunQueued(t)
       \/ ReturnOnError(t) \/ Load(t) \/ Store(t) \/ Rearm(t)
  \/ \E h \in Handler : TimerExpires(h)
  \/ Tick

Spec == Init /\ [][Next]_vars

-----------------------------------------------------------------------------
Call == [handler : Handler, ec : Result]

TypeOK ==
  /\ now \in 0..MaxTime
  /\ expires \in [Handler -> 1..(MaxTime + 1)]
  /\ io \in [Handler -> [Status -> Nat]]
  /\ strand_ \in [holder : Thread \cup {NoThread}, queue : Seq(Call)]
  /\ at \in [Thread -> [handler : Handler \cup {"none"}, ec : Result,
                        step : {"run", "load", "store", "rearm"}]]
  /\ count_ \in 0..(2 * MaxTime) /\ loaded \in [Thread -> 0..(2 * MaxTime)]
  /\ prints \in [Handler -> 0..MaxTime]

\* No increment of count_ is lost, although two threads read and write it.
NoLostIncrement == count_ = prints["print1"] + prints["print2"]

\* Steps of the chain of h that are waiting, ready, queued or running.
Links(h) ==
  Outstanding(io, h)
  + Cardinality({i \in DOMAIN strand_.queue : strand_.queue[i].handler = h})
  + Cardinality({t \in Thread : at[t].handler = h})

\* The chain of print2() always has one link and so io_service::run() never
\* returns; the chain of print1() has one until a cancel reaches its wait, never
\* two: a cancel that comes too late leaves the chain as it is.
OneLinkPerChain == Links("print1") <= 1 /\ Links("print2") = 1

\* The timers do not drift, however late the handlers run: each expiry is a whole
\* number of periods after the start, one per run of the handler.
Rearming(h) == \E t \in Thread : at[t].handler = h /\ at[t].step = "rearm"

NoDrift ==
  \A h \in Handler : expires[h] + (IF Rearming(h) THEN 1 ELSE 0) = 1 + prints[h]

=============================================================================
