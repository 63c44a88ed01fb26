--------------------------- MODULE WorkQueueProgram ---------------------------
(***************************************************************************)
(* The program of src/boost-thread-1.cpp: pusher threads that each push    *)
(* tests_tasks_count tasks on one work_queue, popper threads that each pop *)
(* and run as many, and main(), which joins the pushers, flushes, joins    *)
(* the poppers and then tries the queue out.                               *)
(***************************************************************************)
EXTENDS WorkQueue

CONSTANTS
  Pusher, Popper,       \* the threads that run pusher() and popper_sync()
  Main,                 \* the thread that runs main()
  tests_tasks_count,    \* iterations of either loop
  MaxSpurious           \* bound: wakeups that nobody asked for

ASSUME ProgramAssumption ==
  /\ Thread = Pusher \cup Popper \cup {Main}
  /\ Main \notin Pusher \cup Popper
  /\ Pusher \cap Popper = {}
  /\ Cardinality(Pusher) = Cardinality(Popper)
  /\ tests_tasks_count \in Nat /\ MaxSpurious \in Nat
  /\ MaxPushes > tests_tasks_count * Cardinality(Pusher)

VARIABLES
  round,     \* calls each pusher and popper has made in its loop
  holding,   \* the poppers that have a task to run before their next pop
  runs,      \* how many tasks have run
  main_at,   \* the statement main() is at
  spurious   \* how many wakeups were spurious

program == <<round, holding, runs, main_at, spurious>>
allvars == <<vars, program>>

Workers == Pusher \cup Popper

ProgramInit ==
  /\ Init
  /\ round = [t \in Workers |-> 0]
  /\ holding = {}
  /\ runs = 0
  /\ main_at = "join_pushers"
  /\ spurious = 0

Idle(t)     == at[t] = "idle"
Finished(t) == round[t] = tests_tasks_count /\ Idle(t) /\ t \notin holding
Aborted     == main_at = "aborted"

\* void pusher(int id)
PusherLoop(t) ==
  /\ round[t] < tests_tasks_count
  /\ \E some_task \in Task : PushLock(t, some_task)
  /\ round' = [round EXCEPT ![t] = @ + 1]
  /\ UNCHANGED <<holding, runs, main_at, spurious>>

\* void popper_sync(int id): pop_task() ...
PopperLoop(t) ==
  /\ round[t] < tests_tasks_count /\ t \notin holding
  /\ PopLock(t)
  /\ round' = [round EXCEPT ![t] = @ + 1]
  /\ holding' = holding \cup {t}
  /\ UNCHANGED <<runs, main_at, spurious>>

\* ... then t(), which for an empty function throws out of the thread and so
\* ends the process.
PopperRun(t) ==
  /\ Idle(t) /\ t \in holding
  /\ holding' = holding \ {t}
  /\ \/ ret[t] = NoTask /\ main_at' = "aborted" /\ UNCHANGED runs
     \/ ret[t] # NoTask /\ runs' = runs + 1 /\ UNCHANGED main_at
  /\ UNCHANGED <<vars, round, spurious>>

-----------------------------------------------------------------------------
(* int main() *)
MainMove(from, to) ==
  /\ main_at = from /\ Idle(Main)
  /\ main_at' = to
  /\ UNCHANGED <<round, holding, runs, spurious>>

JoinPushers ==
  /\ \A t \in Pusher : Finished(t)
  /\ MainMove("join_pushers", "flush") /\ UNCHANGED vars

MainFlush == MainMove("flush", "join_poppers") /\ FlushLock(Main)

\* Faulty: the poppers are not joined before the queue is looked at.
JoinNobody == MainMove("join_poppers", "try_empty") /\ UNCHANGED vars

JoinPoppers ==
  /\ \A t \in Popper : Finished(t)
  /\ MainMove("join_poppers", "try_empty") /\ UNCHANGED vars

MainTryEmpty == MainMove("try_empty", "assert_empty") /\ TryPopLock(Main)

AssertEmpty ==
  /\ MainMove("assert_empty", IF ret[Main] = NoTask THEN "push" ELSE "aborted")
  /\ UNCHANGED vars

MainPush ==
  \E some_task \in Task :
    MainMove("push", "try_full") /\ PushLock(Main, some_task)

MainTryFull == MainMove("try_full", "assert_full") /\ TryPopLock(Main)

AssertFull ==
  /\ MainMove("assert_full", IF ret[Main] # NoTask THEN "done" ELSE "aborted")
  /\ UNCHANGED vars

MainStep ==
  \/ JoinPushers \/ MainFlush \/ JoinPoppers
  \/ MainTryEmpty \/ AssertEmpty
  \/ MainPush \/ MainTryFull \/ AssertFull

-----------------------------------------------------------------------------
InQueue(t) == Continue(t) /\ UNCHANGED program

Wakeup(t) ==
  /\ spurious < MaxSpurious
  /\ SpuriousWakeup(t)
  /\ spurious' = spurious + 1
  /\ UNCHANGED <<round, holding, runs, main_at>>

\* What thread t does of its own accord.
ThreadStep(t) ==
  /\ ~Aborted
  /\ \/ InQueue(t)
     \/ t \in Pusher /\ PusherLoop(t)
     \/ t \in Popper /\ (PopperLoop(t) \/ PopperRun(t))
     \/ t = Main /\ MainStep

\* main() has returned, or an assert or an exception has ended the process.
Terminated == main_at \in {"done", "aborted"} /\ UNCHANGED allvars

ProgramNext ==
  \/ \E t \in Thread : ThreadStep(t) \/ (~Aborted /\ Wakeup(t))
  \/ Terminated

\* The scheduler lets every thread that can go on, go on.  No fairness of the
\* mutex is assumed: with finitely many calls and spurious wakeups the threads
\* cannot keep it from one another forever.
Fairness == \A t \in Thread : WF_allvars(ThreadStep(t))

ProgramSpec == ProgramInit /\ [][ProgramNext]_allvars /\ Fairness

-----------------------------------------------------------------------------
ProgramTypeOK ==
  /\ TypeOK
  /\ round \in [Workers -> 0..tests_tasks_count]
  /\ holding \in SUBSET Popper
  /\ runs \in 0..tests_tasks_count * Cardinality(Popper)
  /\ main_at \in {"join_pushers", "flush", "join_poppers", "try_empty",
                  "assert_empty", "push", "try_full", "assert_full",
                  "done", "aborted"}
  /\ spurious \in 0..MaxSpurious

\* Neither assert of main() fails and no popper runs an empty function, in any
\* interleaving: the poppers take what the pushers push, all of it, so the queue
\* is empty when they are joined.
NeverAborts == ~Aborted

\* The tasks popped are the tasks run, the ones about to be run and the one
\* main() takes at the end: a popper that returned has run every task it took.
EveryTaskRuns ==
  LET Waiting == {t \in Popper : t \in holding /\ Idle(t)}
      OfMain  == IF ret[Main] # NoTask /\ Idle(Main) THEN 1 ELSE 0
  IN Len(popped) = runs + Cardinality(Waiting) + OfMain

\* Every thread is joined and main() returns: no popper sleeps for good, and
\* none waits for a task that another popper took.
MainReturns == <>(main_at = "done")
=============================================================================
