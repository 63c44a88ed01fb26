----------------------------- MODULE RepeatTimers -----------------------------
(***************************************************************************)
(* The timers of src/boost-timer-3-async-bind.cpp, one that print() starts *)
(* again until it has counted to five, and of src/boost-timer-7.cpp, as    *)
(* many as the user wants, each of which add()s once.  The programs of     *)
(* boost-timer-4 and boost-timer-6 do what the first one does.             *)
(***************************************************************************)
EXTENDS Naturals

CONSTANTS
  Limit,      \* 5, what print() counts to
  Times,      \* the arguments of boost-timer-7
  Seconds,
  MaxNow      \* bound: seconds after which the clock of the model stands still

ASSUME TimersAssumption ==
  /\ Limit \in Nat /\ Times \in Nat /\ Seconds \in Nat
  /\ MaxNow \in Nat /\ MaxNow > Limit /\ MaxNow >= Seconds

VARIABLES
  handler,    \* the program: what its timers call, print() or add()
  timers,     \* how many of its timers main() has started
  expires,    \* when each of them is due
  waiting,    \* the timers that wait
  ready,      \* the timers whose handler is ready to run
  count,
  now,        \* seconds since the start, at most MaxNow
  returned    \* whether run() has returned

timerVars == <<handler, timers, expires, waiting, ready, count, now, returned>>

Timer == 1..(IF Times > 1 THEN Times ELSE 1)

TimersInit ==
  /\ handler \in {"print", "add"}
  /\ timers = 0 /\ expires = [t \in Timer |-> 0]
  /\ waiting = {} /\ ready = {}
  /\ count = 0 /\ now = 0 /\ returned = FALSE

Wanted == IF handler = "print" THEN 1 ELSE Times
Period == IF handler = "print" THEN 1 ELSE Seconds

-----------------------------------------------------------------------------
\* main(): a timer that is due a period from now.
StartTimer ==
  /\ timers < Wanted /\ timers' = timers + 1
  /\ expires' = [expires EXCEPT ![timers'] = now + Period]
  /\ waiting' = waiting \cup {timers'}
  /\ UNCHANGED <<handler, ready, count, now, returned>>

Running == timers = Wanted /\ ~returned

Expires(t) ==
  /\ Running /\ t \in waiting /\ expires[t] <= now
  /\ waiting' = waiting \ {t} /\ ready' = ready \cup {t}
  /\ UNCHANGED <<handler, timers, expires, count, now, returned>>

\* Faulty: one more.
CountsToo == count <= Limit

CountsOn == count < Limit

\* void print(error, t, count): the error is not looked at.
PrintCount(t) ==
  /\ Running /\ handler = "print" /\ t \in ready
  /\ ready' = ready \ {t}
  /\ IF CountsOn
     THEN /\ count' = count + 1
          /\ expires' = [expires EXCEPT ![t] = @ + 1]
          /\ waiting' = waiting \cup {t}
     ELSE UNCHANGED <<count, expires, waiting>>
  /\ UNCHANGED <<handler, timers, now, returned>>

\* void add(param)
Add(t) ==
  /\ Running /\ handler = "add" /\ t \in ready
  /\ ready' = ready \ {t}
  /\ count' = count + 1
  /\ UNCHANGED <<handler, timers, expires, waiting, now, returned>>

RunIsOver ==
  /\ Running /\ waiting \cup ready = {}
  /\ returned' = TRUE
  /\ UNCHANGED <<handler, timers, expires, waiting, ready, count, now>>

SecondPasses ==
  /\ now' = IF now < MaxNow THEN now + 1 ELSE now
  /\ UNCHANGED <<handler, timers, expires, waiting, ready, count, returned>>

TimersNext ==
  \/ StartTimer \/ RunIsOver \/ SecondPasses
  \/ \E t \in Timer : Expires(t) \/ PrintCount(t) \/ Add(t)

TimersSpec == TimersInit /\ [][TimersNext]_timerVars

-----------------------------------------------------------------------------
\* However late the handlers run, the count that main() prints is five, a period
\* after the last of five periods at the earliest, or the number of timers, all
\* of which were due.
FinalCount ==
  returned =>
    /\ count = IF handler = "print" THEN Limit ELSE Times
    /\ handler = "print" => expires[1] > Limit
    /\ \A t \in 1..Wanted : expires[t] <= now
=============================================================================
