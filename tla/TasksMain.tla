------------------------------- MODULE TasksMain -------------------------------
(***************************************************************************)
(* main() and func_test() of src/boost-thread-2.cpp, on top of the class.  *)
(* func_test() counts its calls in a static, throws at some of them and    *)
(* stops the processor at one; main() pushes it many times and a lambda    *)
(* behind, runs them itself, and calls func_test() in its asserts too.     *)
(***************************************************************************)
EXTENDS TasksProcessor

CONSTANTS
  Main,       \* the thread of main(), the only one of this program
  Calls,      \* how many times main() pushes func_test()
  Lambda,     \* the task that main() pushes last
  Throws,     \* the calls of func_test() that throw, and what
  StopsAt     \* the call of func_test() that stops the processor

ASSUME MainAssumption ==
  /\ Main \in Worker
  /\ Calls \in Nat /\ Lambda \notin 1..Calls /\ Task = 1..Calls \cup {Lambda}
  /\ \A n \in DOMAIN Throws : Throws[n] \in Ends \ {"returns"}
  /\ StopsAt \in 2..Calls
  /\ DOMAIN Throws \cap {1, StopsAt, StopsAt + 1} = {}

VARIABLES
  with_asserts,   \* whether the build keeps the asserts, and the calls in them
  counter,        \* the static of func_test()
  sum,            \* the local of main() that the lambda writes to
  main_at         \* the statement main() is at

mainVars    == <<with_asserts, counter, sum, main_at>>
programVars == <<vars, mainVars>>

MainInit ==
  /\ Init
  /\ with_asserts \in BOOLEAN
  /\ counter = 0 /\ sum = 0
  /\ main_at = "push"

-----------------------------------------------------------------------------
(* int func_test() *)

\* Faulty: one call too late.
StopsLate(n) == n = StopsAt + 1

\* case 90
Stops(n) == n = StopsAt

\* func_test() as a task.
RunFuncTest ==
  /\ counter' = counter + 1
  /\ \/ counter' \in DOMAIN Throws /\ Finish(Main, Throws[counter'])
     \/ Stops(counter') /\ StopAndFinish(Main)
     \/ counter' \notin DOMAIN Throws /\ ~Stops(counter') /\ Finish(Main, "returns")
  /\ UNCHANGED sum

\* func_test() in an assert of main(): nothing catches what it throws there.  A
\* build without asserts does not call it.
AssertFuncTest(expected, next) ==
  /\ IF with_asserts
     THEN /\ counter' = counter + 1
          /\ stopped' = (stopped \/ Stops(counter'))
          /\ main_at' = IF counter' \in expected \ DOMAIN Throws THEN next ELSE "aborted"
     ELSE main_at' = next /\ UNCHANGED <<counter, stopped>>
  /\ UNCHANGED <<queue, timers, due, since, now, at, current, arrived, started>>
  /\ UNCHANGED <<with_asserts, sum>>

\* [&sum]() { sum = 2 + 2;}
RunLambda == sum' = 2 + 2 /\ Finish(Main, "returns") /\ UNCHANGED counter

RunTask ==
  /\ main_at = "run" /\ at[Main] = "task"
  /\ IF current[Main] = Lambda THEN RunLambda ELSE RunFuncTest
  /\ UNCHANGED <<with_asserts, main_at>>

-----------------------------------------------------------------------------
(* int main() *)

\* The loop: i is the number of tasks pushed.
PushCall ==
  /\ main_at = "push"
  /\ PushTask(Len(arrived) + 1)
  /\ main_at' = IF Len(arrived') < Calls THEN "push" ELSE "first_assert"
  /\ UNCHANGED <<with_asserts, counter, sum>>

\* assert(func_test() == 1)
FirstAssert == main_at = "first_assert" /\ AssertFuncTest({1}, "push_lambda")

PushLambda ==
  /\ main_at = "push_lambda"
  /\ PushTask(Lambda)
  /\ main_at' = "assert_sum"
  /\ UNCHANGED <<with_asserts, counter, sum>>

\* assert(sum == 0)
AssertSum ==
  /\ main_at = "assert_sum"
  /\ main_at' = IF with_asserts /\ sum # 0 THEN "aborted" ELSE "run"
  /\ UNCHANGED <<vars, with_asserts, counter, sum>>

\* start()
EnterRun ==
  /\ main_at = "run"
  /\ Start(Main) \/ Take(Main)
  /\ UNCHANGED mainVars

StartReturns ==
  /\ main_at = "run"
  /\ Return(Main)
  /\ main_at' = "last_assert"
  /\ UNCHANGED <<with_asserts, counter, sum>>

\* assert(func_test() >= 91)
LastAssert == main_at = "last_assert" /\ AssertFuncTest(Nat \ 0..StopsAt, "done")

MainNext ==
  \/ PushCall \/ FirstAssert \/ PushLambda \/ AssertSum
  \/ EnterRun \/ RunTask \/ StartReturns
  \/ LastAssert

\* The thread goes on by itself: it waits for nobody.
MainSpec == MainInit /\ [][MainNext]_programVars /\ WF_programVars(MainNext)

-----------------------------------------------------------------------------
MainTypeOK ==
  /\ TypeOK
  /\ with_asserts \in BOOLEAN /\ counter \in Nat /\ sum \in {0, 4}
  /\ main_at \in {"push", "first_assert", "push_lambda", "assert_sum", "run",
                  "last_assert", "done", "aborted"}

\* The calls of func_test() before start().
CallsBefore == IF with_asserts THEN 1 ELSE 0

\* From start() on, when the processor is stopped every call up to the one that
\* stops it has been counted, whatever earlier ones threw, and what was queued
\* behind it is left: more calls, and the lambda, which never writes to sum.
LeavesTheRest ==
  stopped /\ main_at \in {"run", "last_assert", "done"} =>
    /\ Len(started) = StopsAt - CallsBefore
    /\ Len(queue) = Calls + 1 - Len(started)
    /\ sum = 0

\* No assert fails, and no exception of func_test() reaches main().
AssertsHold == main_at # "aborted"

\* start() returns, with tasks still queued and the work object alive, and main()
\* comes to its end.
MainEnds == main_at = "push" ~> main_at = "done"
=============================================================================
