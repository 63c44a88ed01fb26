---------------------------- MODULE TasksProcessor ----------------------------
(***************************************************************************)
(* class tasks_processor of src/boost-thread-2.cpp and, with delayed       *)
(* tasks, of src/boost-thread-3.cpp: a queue of tasks in an io_service     *)
(* that the threads which call start() run.  A task may throw whatever it  *)
(* likes, and may stop the processor that runs it.                         *)
(***************************************************************************)
EXTENDS Naturals, SequencesExt

CONSTANTS
  Worker,    \* the threads that call start()
  Task,      \* the tasks, each given to the processor at most once
  Delays,    \* the delays of run_delayed(), in ticks of the model
  NoTask,    \* "no task", and "no delay"
  MaxTime    \* bound: ticks after which the clock of the model stands still

ASSUME ProcessorAssumption ==
  /\ NoTask \notin Task \cup Nat
  /\ Delays \subseteq Nat /\ MaxTime \in Nat

VARIABLES
  queue,     \* the handlers that the io_service has ready
  timers,    \* the tasks that wait for their timers
  due,       \* when the timer of a task is due, if it has one
  since,     \* history: when its wait was started
  now,       \* the time
  stopped,   \* whether stop() has been called
  at,        \* each worker: out of start(), in run(), in a task, returned, escaped
  current,   \* the task each worker runs
  arrived,   \* history: the tasks that were ever ready, in order
  started    \* history: the tasks that were ever started, in order

vars == <<queue, timers, due, since, now, stopped, at, current, arrived, started>>

Init ==
  /\ queue = <<>> /\ timers = {}
  /\ due = [task \in Task |-> NoTask] /\ since = due
  /\ now = 0 /\ stopped = FALSE
  /\ at = [w \in Worker |-> "out"] /\ current = [w \in Worker |-> NoTask]
  /\ arrived = <<>> /\ started = <<>>

Fresh(task) == ~Contains(arrived, task) /\ due[task] = NoTask

Post(task) ==
  /\ queue' = Append(queue, task)
  /\ arrived' = Append(arrived, task)

Move(w, from, to) == at[w] = from /\ at' = [at EXCEPT ![w] = to]

-----------------------------------------------------------------------------
(* static void push_task(const T & task_unwrapped) *)
PushTask(task) ==
  /\ Fresh(task)
  /\ Post(task)
  /\ UNCHANGED <<timers, due, since, now, stopped, at, current, started>>

(* static void run_delayed(Time duration_or_time, const Func & f): makes the  *)
(* timer and then starts to wait; the caller may be held up in between.      *)
RunDelayed(task, delay) ==
  /\ Fresh(task)
  /\ due' = [due EXCEPT ![task] = now + delay]
  /\ UNCHANGED <<queue, timers, since, now, stopped, at, current, arrived, started>>

AsyncWait(task) ==
  /\ due[task] # NoTask /\ since[task] = NoTask
  /\ timers' = timers \cup {task}
  /\ since' = [since EXCEPT ![task] = now]
  /\ UNCHANGED <<queue, due, now, stopped, at, current, arrived, started>>

(* static void start(): run() goes on as long as nobody stops it; the work   *)
(* object keeps it from returning when there is nothing to do.               *)
Start(w) ==
  /\ Move(w, "out", "run")
  /\ UNCHANGED <<queue, timers, due, since, now, stopped, current, arrived, started>>

Take(w) ==
  /\ ~stopped /\ queue # <<>>
  /\ Move(w, "run", "task")
  /\ current' = [current EXCEPT ![w] = Head(queue)]
  /\ started' = Append(started, Head(queue))
  /\ queue' = Tail(queue)
  /\ UNCHANGED <<timers, due, since, now, stopped, arrived>>

\* The work object is never destroyed.
MayReturn == stopped

Return(w) ==
  /\ MayReturn
  /\ Move(w, "run", "returned")
  /\ UNCHANGED <<queue, timers, due, since, now, stopped, current, arrived, started>>

\* How a task may end: it returns or throws.
Ends == {"returns", "std::exception", "thread_interrupted", "other"}

\* Faulty: only std::exception is caught.
CaughtStd == {"std::exception"}

\* The handlers of task_wrapped::operator().
Caught == {"std::exception", "thread_interrupted", "other"}

\* An exception that task_wrapped does not catch would leave run().
Finish(w, how) ==
  /\ Move(w, "task", IF how \in Caught \cup {"returns"} THEN "run" ELSE "escaped")
  /\ current' = [current EXCEPT ![w] = NoTask]
  /\ UNCHANGED <<queue, timers, due, since, now, stopped, arrived, started>>

(* static void stop(), called by a task, which then returns *)
StopAndFinish(w) ==
  /\ Move(w, "task", "run")
  /\ stopped' = TRUE
  /\ current' = [current EXCEPT ![w] = NoTask]
  /\ UNCHANGED <<queue, timers, due, since, now, arrived, started>>

-----------------------------------------------------------------------------
(* The timers of the io_service, which the threads in run() look after, and  *)
(* the clock.  Of the timers that are due the earliest goes first.           *)
Polled == \E w \in Worker : at[w] \in {"run", "task"}

\* Faulty: the timers go in the order in which they were set.
IsNextEarly(task) == TRUE

IsNext(task) == due[task] <= now /\ \A other \in timers : due[task] <= due[other]

Expire(task) ==
  /\ Polled /\ ~stopped
  /\ task \in timers /\ IsNext(task)
  /\ timers' = timers \ {task}
  /\ Post(task)
  /\ UNCHANGED <<due, since, now, stopped, at, current, started>>

Tick ==
  /\ now' = IF now < MaxTime THEN now + 1 ELSE now
  /\ UNCHANGED <<queue, timers, due, since, stopped, at, current, arrived, started>>

Work(w) ==
  \/ Start(w) \/ Take(w) \/ Return(w)
  \/ \E how \in Ends : Finish(w, how)
  \/ StopAndFinish(w)

Next ==
  \/ \E task \in Task :
       \/ PushTask(task)
       \/ \E delay \in Delays : RunDelayed(task, delay)
       \/ AsyncWait(task) \/ Expire(task)
  \/ \E w \in Worker : Work(w)
  \/ Tick

\* The workers run, tasks end, timers expire and time passes.
Fairness ==
  /\ \A w \in Worker : WF_vars(Work(w))
  /\ \A task \in Task : WF_vars(Expire(task))
  /\ WF_vars(Tick)

Spec == Init /\ [][Next]_vars /\ Fairness

-----------------------------------------------------------------------------
\* Types; and no exception of a task escapes from a worker.
TypeOK ==
  /\ queue \in Seq(Task) /\ arrived \in Seq(Task) /\ started \in Seq(Task)
  /\ timers \subseteq Task
  /\ due \in [Task -> Nat \cup {NoTask}] /\ since \in [Task -> Nat \cup {NoTask}]
  /\ now \in 0..MaxTime /\ stopped \in BOOLEAN
  /\ at \in [Worker -> {"out", "run", "task", "returned"}]
  /\ current \in [Worker -> Task \cup {NoTask}]

\* Delayed tasks start no earlier than they are due, and in the order in which
\* they are due, whichever worker runs them: one that is due before another may
\* start after it only if the wait for it began when the other was due already.
DelayedInOrder ==
  \A j \in DOMAIN started : due[started[j]] # NoTask =>
    /\ due[started[j]] <= now
    /\ \A i \in 1..j : due[started[i]] # NoTask =>
         due[started[i]] <= due[started[j]] \/ due[started[i]] <= since[started[j]]

\* Every task that is ready, and every delayed task whose time comes before the
\* clock of the model stands still, starts in the end, unless the processor is
\* stopped: no exception takes its worker away.
EveryTaskStarts ==
  \A task \in Task :
    Contains(arrived, task) \/ (task \in timers /\ due[task] <= MaxTime)
      ~> stopped \/ Contains(started, task)

=============================================================================
