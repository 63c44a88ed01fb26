----------------------------- MODULE TasksProofs -----------------------------
(***************************************************************************)
(* Proofs about TasksProcessor, for any workers, tasks and delays; about   *)
(* TasksMain, for any number of calls, of which any may throw and any may  *)
(* stop the processor; and about ConnectionChain, for any connections and  *)
(* size of the name.  Each theorem rests on the assumptions of its own     *)
(* module only.                                                            *)
(***************************************************************************)
EXTENDS ConnectionChain, TasksMain, SequenceTheorems, TLAPS

-----------------------------------------------------------------------------
(* Sequences *)

\* The head of the queue moves to the back of what has started.
LEMMA MoveHead ==
  ASSUME NEW S, NEW p \in Seq(S), NEW q \in Seq(S), q # <<>>
  PROVE  Append(p, Head(q)) \o Tail(q) = p \o q
<1>1. Head(q) \in S /\ Tail(q) \in Seq(S) /\ <<Head(q)>> \in Seq(S)
  BY HeadTailProperties
<1>2. Append(p, Head(q)) = p \o <<Head(q)>>
  BY <1>1, AppendIsConcat
<1>3. (p \o <<Head(q)>>) \o Tail(q) = p \o (<<Head(q)>> \o Tail(q))
  BY <1>1, ConcatAssociative
<1>4. <<Head(q)>> \o Tail(q) = q
  OBVIOUS
<1> QED BY <1>2, <1>3, <1>4

\* Appending keeps what is there, and one occurrence of each element.
LEMMA AppendAdds ==
  ASSUME NEW S, NEW s \in Seq(S), NEW e \in S
  PROVE  /\ Append(s, e) \in Seq(S)
         /\ Len(Append(s, e)) = Len(s) + 1
         /\ DOMAIN Append(s, e) = 1..(Len(s) + 1) /\ DOMAIN s = 1..Len(s)
         /\ \A k \in 1..Len(s) : Append(s, e)[k] = s[k]
         /\ Append(s, e)[Len(s) + 1] = e
         /\ \A f : Contains(Append(s, e), f) <=> Contains(s, f) \/ f = e
         /\ IsInjective(s) /\ ~Contains(s, e) => IsInjective(Append(s, e))
<1> DEFINE a == Append(s, e)
<1>1. /\ a \in Seq(S) /\ Len(a) = Len(s) + 1 /\ Len(s) \in Nat
      /\ \A k \in 1..Len(s) : a[k] = s[k]
      /\ a[Len(s) + 1] = e
  BY AppendProperties
<1> HIDE DEF a
<1>2. DOMAIN a = 1..(Len(s) + 1) /\ DOMAIN s = 1..Len(s)
  BY <1>1
<1>3. \A f : Contains(a, f) <=> Contains(s, f) \/ f = e
  BY <1>1 DEF Contains
<1>4. IsInjective(s) /\ ~Contains(s, e) => IsInjective(a)
  BY <1>1, <1>2 DEF Contains, IsInjective
<1> QED BY <1>1, <1>2, <1>3, <1>4 DEF a

-----------------------------------------------------------------------------
(* TasksProcessor.  What the order of the delayed tasks needs of the queue   *)
(* and of their timers.                                                      *)

\* No task arrives twice, and those that have not started are the queue.
FirstInFirstOut ==
  /\ arrived = started \o queue
  /\ IsInjective(arrived)

RunningHasTask == \A w \in Worker : at[w] = "task" => current[w] \in Task

\* A task whose timer is set, or only made, has not arrived.
TimersWait ==
  \A task \in Task :
    /\ task \in timers => since[task] # NoTask /\ ~Contains(arrived, task)
    /\ since[task] # NoTask => due[task] # NoTask
    /\ due[task] # NoTask /\ since[task] = NoTask => ~Contains(arrived, task)

\* The delayed tasks a and b may start in this order.
InOrder(a, b) == due[a] <= due[b] \/ due[a] <= since[b]

Delayed(task) == due[task] # NoTask

\* The delayed tasks arrive in order, none too early, and ...
ArrivedInOrder ==
  \A j \in 1..Len(arrived) : Delayed(arrived[j]) =>
    /\ due[arrived[j]] <= now
    /\ \A i \in 1..j : Delayed(arrived[i]) => InOrder(arrived[i], arrived[j])

\* ... those that still wait belong after those that have arrived.
TimersComeAfter ==
  \A task \in timers, i \in 1..Len(arrived) :
    Delayed(arrived[i]) => InOrder(arrived[i], task)

IInv ==
  TypeOK /\ RunningHasTask /\ TimersWait /\ FirstInFirstOut
    /\ ArrivedInOrder /\ TimersComeAfter

LEMMA InitIInv == Init => IInv
<1> SUFFICES ASSUME Init PROVE IInv
  OBVIOUS
<1> USE DEF Init
<1>1. stopped \in BOOLEAN
  BY Zenon
<1>2. <<>> \in Seq(Task) /\ <<>> = <<>> \o <<>> /\ Len(<<>>) = 0
  OBVIOUS
<1>3. TypeOK
  BY <1>1, <1>2, ProcessorAssumption DEF TypeOK
<1>4. \A task : ~Contains(arrived, task)
  BY <1>2 DEF Contains
<1>5. RunningHasTask /\ TimersWait
  BY <1>4, ProcessorAssumption DEF RunningHasTask, TimersWait
<1>6. FirstInFirstOut
  BY <1>2 DEF FirstInFirstOut, IsInjective
<1>7. ArrivedInOrder /\ TimersComeAfter
  BY <1>2 DEF ArrivedInOrder, TimersComeAfter
<1> QED BY <1>3, <1>5, <1>6, <1>7 DEF IInv

\* A task that has not arrived yet does, at the back of the queue.
LEMMA ArrivesInOrder ==
  ASSUME IInv, NEW task \in Task, ~Contains(arrived, task), Post(task), started' = started
  PROVE  /\ FirstInFirstOut'
         /\ queue' \in Seq(Task) /\ arrived' \in Seq(Task)
         /\ Len(arrived') = Len(arrived) + 1 /\ Len(arrived) \in Nat
         /\ \A k \in 1..Len(arrived) : arrived'[k] = arrived[k] /\ arrived[k] \in Task
         /\ arrived'[Len(arrived) + 1] = task
         /\ \A f : Contains(arrived', f) <=> Contains(arrived, f) \/ f = task
<1>0. arrived \in Seq(Task) /\ queue \in Seq(Task) /\ started \in Seq(Task)
  BY DEF IInv, TypeOK
<1>1. /\ arrived \in Seq(Task) /\ queue \in Seq(Task) /\ started \in Seq(Task)
      /\ arrived = started \o queue /\ IsInjective(arrived)
  BY DEF IInv, TypeOK, FirstInFirstOut
<1>2. queue' = Append(queue, task) /\ arrived' = Append(arrived, task)
  BY DEF Post
<1>3. arrived' = started' \o queue'
  <2>1. Append(queue, task) = queue \o <<task>>
    BY <1>0, AppendIsConcat
  <2>2. Append(arrived, task) = arrived \o <<task>>
    BY <1>0, AppendIsConcat
  <2>3. (started \o queue) \o <<task>> = started \o (queue \o <<task>>)
    BY <1>0, ConcatAssociative
  <2> QED BY <1>1, <1>2, <2>1, <2>2, <2>3
<1>4. IsInjective(arrived')
  BY <1>1, <1>2, AppendAdds
<1>5. FirstInFirstOut'
  BY <1>3, <1>4 DEF FirstInFirstOut
<1>6. queue' \in Seq(Task)
  BY <1>1, <1>2, AppendAdds
<1>7. Len(arrived) \in Nat /\ \A k \in 1..Len(arrived) : arrived[k] \in Task
  BY <1>1
<1>8. /\ Append(arrived, task) \in Seq(Task)
      /\ Len(Append(arrived, task)) = Len(arrived) + 1
      /\ \A k \in 1..Len(arrived) : Append(arrived, task)[k] = arrived[k]
      /\ Append(arrived, task)[Len(arrived) + 1] = task
      /\ \A f : Contains(Append(arrived, task), f) <=> Contains(arrived, f) \/ f = task
  BY <1>0, AppendAdds
<1> QED BY <1>2, <1>5, <1>6, <1>7, <1>8

LEMMA PushIInv == ASSUME IInv, NEW task \in Task, PushTask(task) PROVE IInv'
<1>1. /\ ~Contains(arrived, task) /\ due[task] = NoTask /\ Post(task)
      /\ UNCHANGED <<timers, due, since, now, stopped, at, current, started>>
  BY DEF PushTask, Fresh
<1>2. /\ FirstInFirstOut'
      /\ queue' \in Seq(Task) /\ arrived' \in Seq(Task)
      /\ Len(arrived') = Len(arrived) + 1 /\ Len(arrived) \in Nat
      /\ \A k \in 1..Len(arrived) : arrived'[k] = arrived[k] /\ arrived[k] \in Task
      /\ arrived'[Len(arrived) + 1] = task
      /\ \A f : Contains(arrived', f) <=> Contains(arrived, f) \/ f = task
  BY <1>1, ArrivesInOrder
<1>3. TypeOK'
  BY <1>1, <1>2 DEF IInv, TypeOK
<1>4. RunningHasTask' /\ TimersWait'
  BY <1>1, <1>2 DEF IInv, RunningHasTask, TimersWait
<1>5. ArrivedInOrder'
  BY <1>1, <1>2 DEF IInv, ArrivedInOrder, Delayed, InOrder
<1>6. TimersComeAfter'
  BY <1>1, <1>2 DEF IInv, TimersComeAfter, Delayed, InOrder
<1> QED BY <1>2, <1>3, <1>4, <1>5, <1>6 DEF IInv

\* The timer that expires is due, and no other that waits is due before.
LEMMA ExpireIInv == ASSUME IInv, NEW task \in Task, Expire(task) PROVE IInv'
<1>1. /\ task \in timers /\ timers' = timers \ {task}
      /\ due[task] <= now /\ \A other \in timers : due[task] <= due[other]
      /\ Post(task)
      /\ UNCHANGED <<due, since, now, stopped, at, current, started>>
  BY DEF Expire, IsNext
<1>2. /\ ~Contains(arrived, task) /\ due[task] \in Nat /\ since[task] \in Nat
  BY <1>1 DEF IInv, TypeOK, TimersWait
<1>3. /\ FirstInFirstOut'
      /\ queue' \in Seq(Task) /\ arrived' \in Seq(Task)
      /\ Len(arrived') = Len(arrived) + 1 /\ Len(arrived) \in Nat
      /\ \A k \in 1..Len(arrived) : arrived'[k] = arrived[k] /\ arrived[k] \in Task
      /\ arrived'[Len(arrived) + 1] = task
      /\ \A f : Contains(arrived', f) <=> Contains(arrived, f) \/ f = task
  BY <1>1, <1>2, ArrivesInOrder
<1>4. TypeOK'
  BY <1>1, <1>3 DEF IInv, TypeOK
<1>5. RunningHasTask' /\ TimersWait'
  BY <1>1, <1>2, <1>3 DEF IInv, RunningHasTask, TimersWait
<1>6. \A i \in 1..Len(arrived) : Delayed(arrived[i]) => InOrder(arrived[i], task)
  BY <1>1 DEF IInv, TimersComeAfter
<1>7. ArrivedInOrder'
  <2> SUFFICES ASSUME NEW j \in 1..Len(arrived'), Delayed(arrived'[j])
               PROVE  /\ due[arrived'[j]] <= now
                      /\ \A i \in 1..j : Delayed(arrived'[i])
                           => InOrder(arrived'[i], arrived'[j])
    BY <1>1 DEF ArrivedInOrder, Delayed, InOrder
  <2>1. CASE j \in 1..Len(arrived)
    <3>1. /\ arrived'[j] = arrived[j]
          /\ \A i \in 1..j : i \in 1..Len(arrived) /\ arrived'[i] = arrived[i]
      BY <1>3, <2>1
    <3> QED BY <2>1, <3>1 DEF IInv, ArrivedInOrder
  <2>2. CASE j = Len(arrived) + 1
    BY <1>1, <1>2, <1>3, <1>6, <2>2 DEF InOrder
  <2> QED BY <1>3, <2>1, <2>2
<1>8. TimersComeAfter'
  <2> SUFFICES ASSUME NEW other \in timers', NEW i \in 1..Len(arrived'),
                      Delayed(arrived'[i])
               PROVE  InOrder(arrived'[i], other)
    BY <1>1 DEF TimersComeAfter, Delayed, InOrder
  <2>1. CASE i \in 1..Len(arrived)
    BY <1>1, <1>3, <2>1 DEF IInv, TimersComeAfter
  <2>2. CASE i = Len(arrived) + 1
    BY <1>1, <1>3, <2>2 DEF InOrder
  <2> QED BY <1>3, <2>1, <2>2
<1> QED BY <1>3, <1>4, <1>5, <1>7, <1>8 DEF IInv

\* A task that is only delayed now has not arrived, so its time changes no order.
LEMMA RunDelayedIInv ==
  ASSUME IInv, NEW task \in Task, NEW delay \in Delays, RunDelayed(task, delay)
  PROVE  IInv'
<1>1. /\ ~Contains(arrived, task) /\ due[task] = NoTask
      /\ due' = [due EXCEPT ![task] = now + delay]
      /\ UNCHANGED <<queue, timers, since, now, stopped, at, current, arrived, started>>
  BY DEF RunDelayed, Fresh
<1>2. now + delay \in Nat /\ now + delay # NoTask
  BY ProcessorAssumption DEF IInv, TypeOK
<1>3. task \notin timers
  BY <1>1 DEF IInv, TimersWait
<1>4. \A k \in 1..Len(arrived) : arrived[k] \in Task /\ due'[arrived[k]] = due[arrived[k]]
  BY <1>1 DEF IInv, TypeOK, Contains
<1>5. \A other \in timers : other \in Task /\ due'[other] = due[other]
  BY <1>1, <1>3 DEF IInv, TypeOK
<1>6. TypeOK'
  BY <1>1, <1>2 DEF IInv, TypeOK
<1>7. RunningHasTask' /\ TimersWait'
  BY <1>1, <1>2 DEF IInv, TypeOK, RunningHasTask, TimersWait
<1>8. FirstInFirstOut'
  BY <1>1 DEF IInv, FirstInFirstOut
<1>9. ArrivedInOrder'
  <2>1. \A j \in 1..Len(arrived) : \A i \in 1..j : i \in 1..Len(arrived)
    BY DEF IInv, TypeOK
  <2> QED BY <1>1, <1>4, <2>1 DEF IInv, ArrivedInOrder, Delayed, InOrder
<1>10. TimersComeAfter'
  BY <1>1, <1>4, <1>5 DEF IInv, TimersComeAfter, Delayed, InOrder
<1> QED BY <1>6, <1>7, <1>8, <1>9, <1>10 DEF IInv

\* A wait that begins now begins after everything that has arrived was due.
LEMMA AsyncWaitIInv == ASSUME IInv, NEW task \in Task, AsyncWait(task) PROVE IInv'
<1>1. /\ due[task] # NoTask /\ since[task] = NoTask
      /\ timers' = timers \cup {task}
      /\ since' = [since EXCEPT ![task] = now]
      /\ UNCHANGED <<queue, due, now, stopped, at, current, arrived, started>>
  BY DEF AsyncWait
<1>2. now \in Nat /\ now # NoTask /\ ~Contains(arrived, task)
  BY <1>1, ProcessorAssumption DEF IInv, TypeOK, TimersWait
<1>3. \A k \in 1..Len(arrived) :
        arrived[k] \in Task /\ since'[arrived[k]] = since[arrived[k]]
  BY <1>1, <1>2 DEF IInv, TypeOK, Contains
<1>4. since'[task] = now /\ \A other \in timers : other # task => since'[other] = since[other]
  BY <1>1 DEF IInv, TypeOK
<1>5. TypeOK'
  BY <1>1, <1>2 DEF IInv, TypeOK
<1>6. RunningHasTask' /\ TimersWait'
  BY <1>1, <1>2 DEF IInv, TypeOK, RunningHasTask, TimersWait
<1>7. FirstInFirstOut'
  BY <1>1 DEF IInv, FirstInFirstOut
<1>8. ArrivedInOrder'
  <2>1. \A j \in 1..Len(arrived) : \A i \in 1..j : i \in 1..Len(arrived)
    BY DEF IInv, TypeOK
  <2> QED BY <1>1, <1>3, <2>1 DEF IInv, ArrivedInOrder, Delayed, InOrder
<1>9. TimersComeAfter'
  <2> SUFFICES ASSUME NEW other \in timers', NEW i \in 1..Len(arrived), Delayed(arrived[i])
               PROVE  due[arrived[i]] <= due[other] \/ due[arrived[i]] <= since'[other]
    BY <1>1 DEF TimersComeAfter, Delayed, InOrder
  <2>1. CASE other = task
    BY <1>4, <2>1 DEF IInv, ArrivedInOrder
  <2>2. CASE other # task
    BY <1>1, <1>4, <2>2 DEF IInv, TimersComeAfter, InOrder
  <2> QED BY <2>1, <2>2
<1> QED BY <1>5, <1>6, <1>7, <1>8, <1>9 DEF IInv

\* The worker that takes the task at the front starts it.
LEMMA TakeIInv == ASSUME IInv, NEW w \in Worker, Take(w) PROVE IInv'
<1>1. /\ queue # <<>> /\ at[w] = "run" /\ at' = [at EXCEPT ![w] = "task"]
      /\ current' = [current EXCEPT ![w] = Head(queue)]
      /\ started' = Append(started, Head(queue)) /\ queue' = Tail(queue)
      /\ UNCHANGED <<timers, due, since, now, stopped, arrived>>
  BY DEF Take, Move
<1>2. queue \in Seq(Task) /\ started \in Seq(Task)
  BY DEF IInv, TypeOK
<1>3. Head(queue) \in Task /\ Tail(queue) \in Seq(Task)
  BY <1>1, <1>2, HeadTailProperties
<1>4. Append(started, Head(queue)) \in Seq(Task)
  BY <1>2, <1>3, AppendAdds
<1>5. started' \in Seq(Task) /\ queue' \in Seq(Task)
  BY <1>1, <1>3, <1>4
<1>6. TypeOK'
  BY <1>1, <1>3, <1>5 DEF IInv, TypeOK
<1>7. RunningHasTask'
  BY <1>1, <1>3 DEF IInv, TypeOK, RunningHasTask
<1>8. FirstInFirstOut'
  <2>1. Append(started, Head(queue)) \o Tail(queue) = started \o queue
    BY <1>1, <1>2, MoveHead
  <2> QED BY <1>1, <2>1 DEF IInv, FirstInFirstOut
<1>9. TimersWait' /\ ArrivedInOrder' /\ TimersComeAfter'
  BY <1>1 DEF IInv, TimersWait, ArrivedInOrder, TimersComeAfter, Delayed, InOrder
<1> QED BY <1>6, <1>7, <1>8, <1>9 DEF IInv

\* A step that only moves a worker, out of a task or not.
LEMMA WorkerIInv ==
  ASSUME IInv, NEW w \in Worker, NEW place \in {"run", "returned"},
         at' = [at EXCEPT ![w] = place],
         current' \in {current, [current EXCEPT ![w] = NoTask]},
         stopped' \in BOOLEAN,
         UNCHANGED <<queue, timers, due, since, now, arrived, started>>
  PROVE  IInv'
<1>1. TypeOK'
  BY DEF IInv, TypeOK
<1>2. RunningHasTask'
  BY DEF IInv, TypeOK, RunningHasTask
<1>3. TimersWait' /\ FirstInFirstOut' /\ ArrivedInOrder' /\ TimersComeAfter'
  BY DEF IInv, TimersWait, FirstInFirstOut, ArrivedInOrder, TimersComeAfter, Delayed, InOrder
<1> QED BY <1>1, <1>2, <1>3 DEF IInv

\* Whatever a task throws, its worker goes on.
LEMMA WorkIInv == ASSUME IInv, NEW w \in Worker, Work(w) PROVE IInv'
<1>0. stopped \in BOOLEAN
  BY DEF IInv, TypeOK
<1>1. CASE Start(w)
  BY <1>0, <1>1, WorkerIInv DEF Start, Move
<1>2. CASE Take(w)
  BY <1>2, TakeIInv
<1>3. CASE Return(w)
  BY <1>0, <1>3, WorkerIInv DEF Return, Move
<1>4. ASSUME NEW how \in Ends, Finish(w, how) PROVE IInv'
  <2>1. at' = [at EXCEPT ![w] = "run"]
    BY <1>4 DEF Finish, Move, Ends, Caught
  <2> QED BY <1>0, <1>4, <2>1, WorkerIInv DEF Finish
<1>5. CASE StopAndFinish(w)
  <2>1. stopped' \in BOOLEAN
    BY <1>5, Zenon DEF StopAndFinish
  <2> QED BY <1>5, <2>1, WorkerIInv DEF StopAndFinish, Move
<1> QED BY <1>1, <1>2, <1>3, <1>4, <1>5 DEF Work

LEMMA TickIInv == IInv /\ Tick => IInv'
<1> SUFFICES ASSUME IInv, Tick PROVE IInv'
  OBVIOUS
<1>1. /\ UNCHANGED <<queue, timers, due, since, stopped, at, current, arrived, started>>
      /\ now' \in 0..MaxTime /\ now <= now'
  BY ProcessorAssumption DEF Tick, IInv, TypeOK
<1>2. ArrivedInOrder'
  <2>1. \A j \in 1..Len(arrived) : Delayed(arrived[j]) => due[arrived[j]] \in Nat
    BY DEF IInv, TypeOK, Delayed
  <2>2. \A j \in 1..Len(arrived) : Delayed(arrived[j]) => due[arrived[j]] <= now'
    BY <1>1, <2>1 DEF IInv, TypeOK, ArrivedInOrder
  <2> QED BY <1>1, <2>2 DEF IInv, ArrivedInOrder, Delayed, InOrder
<1>3. TypeOK'
  BY <1>1 DEF IInv, TypeOK
<1> QED BY <1>1, <1>2, <1>3 DEF IInv, RunningHasTask, TimersWait, FirstInFirstOut,
                                TimersComeAfter, Delayed, InOrder

LEMMA IInvPreserved == IInv /\ [Next]_vars => IInv'
<1> SUFFICES ASSUME IInv, [Next]_vars PROVE IInv'
  OBVIOUS
<1>1. ASSUME NEW task \in Task,
             \/ PushTask(task)
             \/ \E delay \in Delays : RunDelayed(task, delay)
             \/ AsyncWait(task) \/ Expire(task)
      PROVE  IInv'
  BY <1>1, PushIInv, RunDelayedIInv, AsyncWaitIInv, ExpireIInv
<1>2. ASSUME NEW w \in Worker, Work(w) PROVE IInv'
  BY <1>2, WorkIInv
<1>3. CASE Tick
  BY <1>3, TickIInv
<1>4. CASE UNCHANGED vars
  BY <1>4 DEF vars, IInv, TypeOK, RunningHasTask, TimersWait, FirstInFirstOut,
              ArrivedInOrder, TimersComeAfter, Delayed, InOrder
<1> QED BY <1>1, <1>2, <1>3, <1>4 DEF Next

\* The types, for any workers, tasks and delays; among them that a worker whose
\* task throws is never lost.
THEOREM TypeCorrect == Spec => []TypeOK
<1>1. IInv => TypeOK
  BY DEF IInv
<1> QED BY <1>1, InitIInv, IInvPreserved, PTL DEF Spec

\* Delayed tasks start when they are due and in the order in which they are due,
\* but for one whose wait began when the other was due already.
THEOREM DelayedStartInOrder == Spec => []DelayedInOrder
<1>1. IInv => DelayedInOrder
  <2> SUFFICES ASSUME IInv PROVE DelayedInOrder
    OBVIOUS
  <2>1. started \in Seq(Task) /\ queue \in Seq(Task) /\ arrived = started \o queue
    BY DEF IInv, TypeOK, FirstInFirstOut
  <2>2. /\ Len(started) \in Nat /\ Len(arrived) \in Nat /\ Len(started) <= Len(arrived)
        /\ \A j \in 1..Len(started) : started[j] = arrived[j]
    BY <2>1, ConcatProperties
  <2>3. DOMAIN started = 1..Len(started)
    BY <2>1
  <2>4. \A j \in 1..Len(started) :
          /\ j \in 1..Len(arrived)
          /\ \A i \in 1..j : i \in 1..Len(started)
    BY <2>2
  <2> QED BY <2>2, <2>3, <2>4 DEF IInv, ArrivedInOrder, DelayedInOrder, Delayed, InOrder
<1> QED BY <1>1, InitIInv, IInvPreserved, PTL DEF Spec

-----------------------------------------------------------------------------
(* TasksMain.  What counter says of the tasks that have started.             *)

BeforeStart == {"push", "first_assert", "push_lambda", "assert_sum"}
AfterStart  == {"last_assert", "done"}

\* The tasks are pushed in order, the lambda last.
PushedInOrder ==
  /\ \A k \in 1..Len(arrived) : arrived[k] = IF k <= Calls THEN k ELSE Lambda
  /\ main_at = "push" => Len(arrived) < Calls
  /\ main_at \in {"first_assert", "push_lambda"} => Len(arrived) = Calls
  /\ main_at \notin {"push", "first_assert", "push_lambda"} => Len(arrived) = Calls + 1

NothingRunsYet ==
  main_at \in BeforeStart =>
    /\ at[Main] = "out" /\ ~stopped /\ Len(started) = 0
    /\ counter = IF main_at \in {"push", "first_assert"} THEN 0 ELSE CallsBefore

InTask == IF at[Main] = "task" THEN 1 ELSE 0

\* Every task that has started and ended is one call, however it has ended.
CallsAreTasks ==
  main_at = "run" =>
    /\ at[Main] \in {"out", "run", "task"}
    /\ counter = CallsBefore + Len(started) - InTask
    /\ IF stopped THEN counter = StopsAt /\ at[Main] = "run" ELSE counter < StopsAt
    /\ at[Main] = "task" => current[Main] # Lambda

StoppedInTime ==
  main_at \in AfterStart =>
    stopped /\ at[Main] = "returned" /\ Len(started) = StopsAt - CallsBefore

MInv ==
  /\ MainTypeOK /\ sum = 0 /\ main_at # "aborted"
  /\ PushedInOrder /\ NothingRunsYet /\ CallsAreTasks /\ StoppedInTime
  /\ main_at = "last_assert" => counter = StopsAt

LEMMA MainInitInv == MainInit => IInv /\ MInv
<1> SUFFICES ASSUME MainInit PROVE IInv /\ MInv
  OBVIOUS
<1>1. IInv
  BY InitIInv DEF MainInit
<1>2. /\ with_asserts \in BOOLEAN /\ counter = 0 /\ sum = 0 /\ main_at = "push"
      /\ arrived = <<>> /\ started = <<>> /\ ~stopped /\ at[Main] = "out"
  BY MainAssumption DEF MainInit, Init
<1>3. Len(arrived) = 0 /\ Len(started) = 0 /\ 0 < Calls
  BY <1>2, MainAssumption
<1>4. TypeOK /\ MainTypeOK
  BY <1>1, <1>2 DEF IInv, MainTypeOK
<1>5. PushedInOrder
  BY <1>2, <1>3 DEF PushedInOrder
<1>6. NothingRunsYet /\ CallsAreTasks /\ StoppedInTime
  BY <1>2, <1>3 DEF NothingRunsYet, CallsAreTasks, StoppedInTime, BeforeStart, AfterStart
<1> QED BY <1>1, <1>2, <1>4, <1>5, <1>6 DEF MInv

\* What the steps need to know of the state they start from.
LEMMA MainFacts ==
  ASSUME IInv, MInv
  PROVE  /\ with_asserts \in BOOLEAN /\ counter \in Nat /\ sum = 0
         /\ stopped \in BOOLEAN /\ CallsBefore \in {0, 1}
         /\ queue \in Seq(Task) /\ started \in Seq(Task) /\ arrived \in Seq(Task)
         /\ Len(started) \in Nat /\ Len(queue) \in Nat /\ Len(arrived) \in Nat
         /\ Len(arrived) = Len(started) + Len(queue)
         /\ at \in [Worker -> {"out", "run", "task", "returned"}]
         /\ current \in [Worker -> Task \cup {NoTask}]
         /\ Main \in Worker
         /\ Calls \in Nat /\ StopsAt \in 2..Calls
         /\ StopsAt \notin DOMAIN Throws /\ StopsAt + 1 \notin DOMAIN Throws
         /\ 1 \notin DOMAIN Throws
<1>1. /\ queue \in Seq(Task) /\ started \in Seq(Task) /\ arrived \in Seq(Task)
      /\ stopped \in BOOLEAN
      /\ at \in [Worker -> {"out", "run", "task", "returned"}]
      /\ current \in [Worker -> Task \cup {NoTask}]
      /\ arrived = started \o queue
  BY DEF IInv, TypeOK, FirstInFirstOut
<1>2. /\ Len(started) \in Nat /\ Len(queue) \in Nat /\ Len(arrived) \in Nat
      /\ Len(arrived) = Len(started) + Len(queue)
  BY <1>1, LenProperties, ConcatProperties
<1>3. with_asserts \in BOOLEAN /\ counter \in Nat /\ sum = 0
  BY DEF MInv, MainTypeOK
<1>4. CallsBefore \in {0, 1}
  BY DEF CallsBefore
<1>5. /\ Main \in Worker /\ Calls \in Nat /\ StopsAt \in 2..Calls
      /\ StopsAt \notin DOMAIN Throws /\ StopsAt + 1 \notin DOMAIN Throws
      /\ 1 \notin DOMAIN Throws
  BY MainAssumption
<1> QED BY <1>1, <1>2, <1>3, <1>4, <1>5

\* The task at the front is a call, as long as fewer have been counted than stop
\* the processor.
LEMMA FrontIsCall ==
  ASSUME IInv, MInv, queue # <<>>, Len(started) + 1 <= Calls
  PROVE  Head(queue) # Lambda
<1>1. arrived = started \o queue /\ started \in Seq(Task) /\ queue \in Seq(Task)
  BY DEF IInv, TypeOK, FirstInFirstOut
<1>2. Len(started) \in Nat /\ Len(arrived) = Len(started) + Len(queue) /\ Len(queue) >= 1
  BY <1>1, ConcatProperties, LenProperties, EmptySeq
<1>3. arrived[Len(started) + 1] = queue[1]
  BY <1>1, <1>2, ConcatProperties
<1>4. arrived[Len(started) + 1] \in 1..Calls
  BY <1>2, MainAssumption DEF MInv, PushedInOrder
<1> QED BY <1>1, <1>3, <1>4, HeadTailProperties, MainAssumption

\* A push of the next task, from a state in which nothing runs.
LEMMA PushedNext ==
  ASSUME IInv, MInv, NEW task \in Task, PushTask(task),
         task = IF Len(arrived) + 1 <= Calls THEN Len(arrived) + 1 ELSE Lambda
  PROVE  /\ Len(arrived') = Len(arrived) + 1
         /\ \A k \in 1..Len(arrived') : arrived'[k] = IF k <= Calls THEN k ELSE Lambda
         /\ UNCHANGED <<stopped, at, current, started>>
<1>1. Post(task) /\ UNCHANGED <<stopped, at, current, started>>
  BY DEF PushTask
<1>2. /\ arrived' = Append(arrived, task) /\ arrived \in Seq(Task) /\ Len(arrived) \in Nat
  BY <1>1, MainFacts DEF Post
<1>3. /\ Len(arrived') = Len(arrived) + 1
      /\ \A k \in 1..Len(arrived) : arrived'[k] = arrived[k]
      /\ arrived'[Len(arrived) + 1] = task
  BY <1>2, AppendAdds
<1>4. ASSUME NEW k \in 1..Len(arrived')
      PROVE  arrived'[k] = IF k <= Calls THEN k ELSE Lambda
  <2>1. CASE k \in 1..Len(arrived)
    BY <1>3, <2>1 DEF MInv, PushedInOrder
  <2>2. CASE k = Len(arrived) + 1
    BY <1>3, <2>2
  <2> QED BY <1>2, <1>3, <2>1, <2>2
<1> QED BY <1>1, <1>3, <1>4

\* A step of main() before start(), which is one of the class or leaves it alone.
LEMMA PrepareStep ==
  ASSUME IInv, MInv, PushCall \/ FirstAssert \/ PushLambda \/ AssertSum
  PROVE  [Next]_vars /\ (TypeOK' => MInv')
<1> USE MainFacts
<1>1. CASE PushCall
  <2>1. /\ main_at = "push" /\ Len(arrived) < Calls
        /\ Len(arrived) + 1 \in Task /\ PushTask(Len(arrived) + 1)
        /\ main_at' = IF Len(arrived') < Calls THEN "push" ELSE "first_assert"
        /\ UNCHANGED <<with_asserts, counter, sum>>
    BY <1>1, MainAssumption DEF PushCall, MInv, PushedInOrder
  <2>2. /\ Len(arrived') = Len(arrived) + 1
        /\ \A k \in 1..Len(arrived') : arrived'[k] = IF k <= Calls THEN k ELSE Lambda
        /\ UNCHANGED <<stopped, at, current, started>>
    BY <2>1, PushedNext
  <2>3. main_at' \in {"push", "first_assert"}
    BY <2>1
  <2>4. PushedInOrder'
    BY <2>1, <2>2 DEF PushedInOrder
  <2>5. NothingRunsYet' /\ CallsAreTasks' /\ StoppedInTime'
    BY <2>1, <2>2, <2>3 DEF MInv, NothingRunsYet, CallsAreTasks, StoppedInTime,
                            BeforeStart, AfterStart
  <2>6. TypeOK' => MainTypeOK'
    BY <2>1, <2>3 DEF MInv, MainTypeOK
  <2> QED BY <2>1, <2>3, <2>4, <2>5, <2>6 DEF MInv, Next
<1>2. CASE FirstAssert
  <2>1. main_at = "first_assert" /\ counter = 0 /\ ~stopped
    BY <1>2 DEF FirstAssert, MInv, NothingRunsYet, BeforeStart
  <2>2. /\ main_at' = "push_lambda" /\ counter' = CallsBefore
        /\ UNCHANGED <<vars, with_asserts, sum>>
    <3>1. ~Stops(1)
      BY DEF Stops
    <3>2. CASE with_asserts
      BY <1>2, <2>1, <3>1, <3>2 DEF FirstAssert, AssertFuncTest, CallsBefore, vars
    <3>3. CASE ~with_asserts
      BY <1>2, <2>1, <3>3 DEF FirstAssert, AssertFuncTest, CallsBefore, vars
    <3> QED BY <3>2, <3>3
  <2>3. CallsBefore' = CallsBefore
    BY <2>2 DEF CallsBefore
  <2>4. PushedInOrder' /\ NothingRunsYet' /\ CallsAreTasks' /\ StoppedInTime'
    BY <2>1, <2>2, <2>3 DEF MInv, PushedInOrder, NothingRunsYet, CallsAreTasks,
                            StoppedInTime, BeforeStart, AfterStart, vars
  <2>5. TypeOK' => MainTypeOK'
    BY <2>2 DEF MInv, MainTypeOK
  <2> QED BY <2>2, <2>4, <2>5 DEF MInv
<1>3. CASE PushLambda
  <2>1. /\ main_at = "push_lambda" /\ Len(arrived) = Calls
        /\ Lambda \in Task /\ PushTask(Lambda)
        /\ main_at' = "assert_sum" /\ UNCHANGED <<with_asserts, counter, sum>>
    BY <1>3, MainAssumption DEF PushLambda, MInv, PushedInOrder
  <2>2. /\ Len(arrived') = Len(arrived) + 1
        /\ \A k \in 1..Len(arrived') : arrived'[k] = IF k <= Calls THEN k ELSE Lambda
        /\ UNCHANGED <<stopped, at, current, started>>
    BY <2>1, PushedNext
  <2>3. CallsBefore' = CallsBefore
    BY <2>1 DEF CallsBefore
  <2>4. PushedInOrder'
    BY <2>1, <2>2 DEF PushedInOrder
  <2>5. NothingRunsYet' /\ CallsAreTasks' /\ StoppedInTime'
    BY <2>1, <2>2, <2>3 DEF MInv, NothingRunsYet, CallsAreTasks, StoppedInTime,
                            BeforeStart, AfterStart
  <2>6. TypeOK' => MainTypeOK'
    BY <2>1 DEF MInv, MainTypeOK
  <2> QED BY <2>1, <2>4, <2>5, <2>6 DEF MInv, Next
<1>4. CASE AssertSum
  <2>1. /\ main_at = "assert_sum" /\ main_at' = "run"
        /\ UNCHANGED <<vars, with_asserts, counter, sum>>
    BY <1>4 DEF AssertSum
  <2>2. CallsBefore' = CallsBefore
    BY <2>1 DEF CallsBefore
  <2>3. PushedInOrder' /\ NothingRunsYet' /\ CallsAreTasks' /\ StoppedInTime'
    BY <2>1, <2>2 DEF MInv, PushedInOrder, NothingRunsYet, CallsAreTasks, InTask,
                      StoppedInTime, BeforeStart, AfterStart, vars
  <2>4. TypeOK' => MainTypeOK'
    BY <2>1 DEF MInv, MainTypeOK
  <2> QED BY <2>1, <2>3, <2>4 DEF MInv
<1> QED BY <1>1, <1>2, <1>3, <1>4

\* The thread enters run(), or takes the next task, which is a call.
LEMMA EnterRunStep ==
  ASSUME IInv, MInv, EnterRun
  PROVE  [Next]_vars /\ (TypeOK' => MInv')
<1> USE MainFacts
<1>1. main_at = "run" /\ UNCHANGED mainVars
  BY DEF EnterRun
<1>2. CallsBefore' = CallsBefore /\ UNCHANGED <<with_asserts, counter, sum, main_at>>
  BY <1>1 DEF CallsBefore, mainVars
<1>3. CASE Start(Main)
  <2>1. /\ at[Main] = "out" /\ at' = [at EXCEPT ![Main] = "run"]
        /\ UNCHANGED <<current, arrived, started, stopped>>
    BY <1>3 DEF Start, Move
  <2>2. PushedInOrder' /\ NothingRunsYet' /\ CallsAreTasks' /\ StoppedInTime'
    BY <1>1, <1>2, <2>1 DEF MInv, PushedInOrder, NothingRunsYet, CallsAreTasks, InTask,
                            StoppedInTime, BeforeStart, AfterStart
  <2> QED BY <1>1, <1>2, <1>3, <2>2 DEF MInv, MainTypeOK, Next, Work
<1>4. CASE Take(Main)
  <2>1. /\ at[Main] = "run" /\ ~stopped /\ queue # <<>>
        /\ at' = [at EXCEPT ![Main] = "task"]
        /\ current' = [current EXCEPT ![Main] = Head(queue)]
        /\ started' = Append(started, Head(queue))
        /\ UNCHANGED <<arrived, stopped>>
    BY <1>4 DEF Take, Move
  <2>2. /\ counter = CallsBefore + Len(started) /\ counter < StopsAt
    BY <1>1, <2>1 DEF MInv, CallsAreTasks, InTask
  <2>3. Head(queue) # Lambda
    <3>1. Len(started) + 1 <= Calls
      BY <2>2
    <3> QED BY <2>1, <3>1, FrontIsCall
  <2>4. Len(started') = Len(started) + 1
    <3>1. Head(queue) \in Task
      BY <2>1, HeadTailProperties
    <3> QED BY <2>1, <3>1, AppendAdds
  <2>5. at'[Main] = "task" /\ current'[Main] = Head(queue)
    BY <2>1
  <2>6. PushedInOrder' /\ NothingRunsYet' /\ StoppedInTime'
    BY <1>1, <1>2, <2>1 DEF MInv, PushedInOrder, NothingRunsYet, StoppedInTime,
                            BeforeStart, AfterStart
  <2>7. CallsAreTasks'
    BY <1>1, <1>2, <2>1, <2>2, <2>3, <2>4, <2>5 DEF CallsAreTasks, InTask
  <2> QED BY <1>1, <1>2, <1>4, <2>6, <2>7 DEF MInv, MainTypeOK, Next, Work
<1> QED BY <1>3, <1>4 DEF EnterRun

\* A call ends in any of its ways; the one that stops the processor is the last
\* that is counted.
LEMMA RunTaskStep ==
  ASSUME IInv, MInv, RunTask
  PROVE  [Next]_vars /\ (TypeOK' => MInv')
<1> USE MainFacts
<1>1. at[Main] = "task" /\ main_at = "run" /\ UNCHANGED <<with_asserts, main_at>>
  BY DEF RunTask, MInv, MainTypeOK, NothingRunsYet, StoppedInTime, BeforeStart, AfterStart
<1>2. /\ ~stopped /\ counter = CallsBefore + Len(started) - 1 /\ counter < StopsAt
      /\ current[Main] # Lambda
  BY <1>1 DEF MInv, CallsAreTasks, InTask
<1>3. RunFuncTest
  BY <1>2 DEF RunTask
<1>4. counter' = counter + 1 /\ sum' = sum
  BY <1>3 DEF RunFuncTest
<1>5. CallsBefore' = CallsBefore
  BY <1>1 DEF CallsBefore
<1>6. /\ (\E how \in Ends : Finish(Main, how)) \/ StopAndFinish(Main)
      /\ at' = [at EXCEPT ![Main] = "run"]
      /\ UNCHANGED <<arrived, started>>
      /\ stopped' \in BOOLEAN /\ (stopped' <=> counter' = StopsAt)
  <2>1. CASE counter' \in DOMAIN Throws /\ Finish(Main, Throws[counter'])
    <3>1. Throws[counter'] \in Ends \ {"returns"} /\ counter' # StopsAt
      BY <2>1, MainAssumption
    <3>2. Throws[counter'] \in Caught
      BY <3>1 DEF Ends, Caught
    <3> QED BY <1>2, <2>1, <3>1, <3>2 DEF Finish, Move
  <2>2. CASE Stops(counter') /\ StopAndFinish(Main)
    BY <2>2 DEF Stops, StopAndFinish, Move
  <2>3. CASE ~Stops(counter') /\ Finish(Main, "returns")
    BY <1>2, <2>3 DEF Stops, Finish, Move, Ends
  <2> QED BY <1>3, <2>1, <2>2, <2>3 DEF RunFuncTest
<1>7. at'[Main] = "run"
  BY <1>6
<1>8. PushedInOrder' /\ NothingRunsYet' /\ StoppedInTime'
  BY <1>1, <1>6 DEF MInv, PushedInOrder, NothingRunsYet, StoppedInTime,
                    BeforeStart, AfterStart
<1>9. CallsAreTasks'
  BY <1>1, <1>2, <1>4, <1>5, <1>6, <1>7 DEF CallsAreTasks, InTask
<1>10. TypeOK' => MainTypeOK'
  BY <1>1, <1>4 DEF MInv, MainTypeOK
<1>11. Next
  BY <1>6 DEF Next, Work
<1> QED BY <1>1, <1>4, <1>8, <1>9, <1>10, <1>11 DEF MInv

\* start() returns, because a call has stopped the processor; what func_test()
\* returns to the last assert is one more.
LEMMA AfterRunStep ==
  ASSUME IInv, MInv, StartReturns \/ LastAssert
  PROVE  [Next]_vars /\ (TypeOK' => MInv')
<1> USE MainFacts
<1>1. CASE StartReturns
  <2>1. /\ main_at = "run" /\ stopped /\ at[Main] = "run" /\ main_at' = "last_assert"
        /\ at' = [at EXCEPT ![Main] = "returned"]
        /\ UNCHANGED <<with_asserts, counter, sum, stopped, arrived, started>>
    BY <1>1 DEF StartReturns, Return, MayReturn, Move
  <2>2. counter = StopsAt /\ counter = CallsBefore + Len(started)
    BY <2>1 DEF MInv, CallsAreTasks, InTask
  <2>3. CallsBefore' = CallsBefore
    BY <2>1 DEF CallsBefore
  <2>4. PushedInOrder' /\ NothingRunsYet' /\ CallsAreTasks' /\ StoppedInTime'
    BY <2>1, <2>2, <2>3 DEF MInv, PushedInOrder, NothingRunsYet, CallsAreTasks,
                            StoppedInTime, BeforeStart, AfterStart
  <2>5. TypeOK' => MainTypeOK'
    BY <2>1 DEF MInv, MainTypeOK
  <2>6. Next
    BY <1>1 DEF StartReturns, Next, Work
  <2> QED BY <2>1, <2>2, <2>4, <2>5, <2>6 DEF MInv
<1>2. CASE LastAssert
  <2>1. /\ main_at = "last_assert" /\ counter = StopsAt
        /\ stopped
    BY <1>2 DEF LastAssert, MInv, StoppedInTime, AfterStart
  <2>2. /\ main_at' = "done" /\ counter' \in Nat
        /\ UNCHANGED <<vars, with_asserts, sum>>
    <3>1. stopped' = stopped
      BY <1>2, <2>1 DEF LastAssert, AssertFuncTest
    <3>2. CASE with_asserts
      <4>1. counter' = StopsAt + 1
        BY <1>2, <2>1, <3>2 DEF LastAssert, AssertFuncTest
      <4>2. counter' \in (Nat \ 0..StopsAt) \ DOMAIN Throws
        BY <4>1
      <4> QED BY <1>2, <3>1, <3>2, <4>2 DEF LastAssert, AssertFuncTest, vars
    <3>3. CASE ~with_asserts
      BY <1>2, <2>1, <3>3 DEF LastAssert, AssertFuncTest, vars
    <3> QED BY <3>2, <3>3
  <2>3. CallsBefore' = CallsBefore
    BY <2>2 DEF CallsBefore
  <2>4. PushedInOrder' /\ NothingRunsYet' /\ CallsAreTasks' /\ StoppedInTime'
    BY <2>1, <2>2, <2>3 DEF MInv, PushedInOrder, NothingRunsYet, CallsAreTasks,
                            StoppedInTime, BeforeStart, AfterStart, vars
  <2>5. TypeOK' => MainTypeOK'
    BY <2>2 DEF MInv, MainTypeOK
  <2> QED BY <2>2, <2>4, <2>5 DEF MInv
<1> QED BY <1>1, <1>2

LEMMA MainNextInv ==
  IInv /\ MInv /\ [MainNext]_programVars => IInv' /\ MInv' /\ [Next]_vars
<1> SUFFICES ASSUME IInv, MInv, [MainNext]_programVars PROVE IInv' /\ MInv' /\ [Next]_vars
  OBVIOUS
<1>1. CASE MainNext
  <2>1. [Next]_vars /\ (TypeOK' => MInv')
    BY <1>1, PrepareStep, EnterRunStep, RunTaskStep, AfterRunStep DEF MainNext
  <2>2. IInv'
    BY <2>1, IInvPreserved
  <2>3. TypeOK'
    BY <2>2 DEF IInv
  <2> QED BY <2>1, <2>2, <2>3
<1>2. CASE UNCHANGED programVars
  <2>1. UNCHANGED vars /\ UNCHANGED mainVars
    BY <1>2 DEF programVars
  <2>2. IInv'
    BY <2>1, IInvPreserved
  <2>3. MInv'
    BY <2>1 DEF vars, mainVars, MInv, MainTypeOK, TypeOK, PushedInOrder, NothingRunsYet,
                CallsAreTasks, InTask, StoppedInTime, CallsBefore
  <2> QED BY <2>1, <2>2, <2>3
<1> QED BY <1>1, <1>2

\* main() uses the class as it may be used: all that is proved of the class holds
\* in this program.
THEOREM MainUsesProcessor == MainSpec => Init /\ [][Next]_vars
<1>1. MainInit => Init
  BY DEF MainInit
<1> QED BY <1>1, MainInitInv, MainNextInv, PTL DEF MainSpec

\* The call that stops the processor is counted after all before it, whatever
\* they throw, and what is queued behind it never starts; for any number of
\* calls, of which any may throw but the first, the one that stops, and the one
\* after that, which main() makes outside of a task.
THEOREM TheRestIsLeft == MainSpec => []LeavesTheRest
<1>1. IInv /\ MInv => LeavesTheRest
  <2> SUFFICES ASSUME IInv, MInv, stopped PROVE LeavesTheRest
    BY DEF LeavesTheRest
  <2> USE MainFacts
  <2>1. main_at \notin BeforeStart
    BY DEF MInv, NothingRunsYet
  <2>2. main_at = "run" \/ main_at \in AfterStart
    BY <2>1 DEF MInv, MainTypeOK, BeforeStart, AfterStart
  <2>3. Len(started) = StopsAt - CallsBefore
    BY <2>2 DEF MInv, CallsAreTasks, StoppedInTime, InTask
  <2>4. Len(arrived) = Calls + 1
    BY <2>1 DEF MInv, PushedInOrder, BeforeStart
  <2> QED BY <2>3, <2>4 DEF LeavesTheRest
<1> QED BY <1>1, MainInitInv, MainNextInv, PTL DEF MainSpec

\* No assert of main() fails, and it catches no exception of a call.
THEOREM NoAssertFails == MainSpec => []AssertsHold
<1>1. MInv => AssertsHold
  BY DEF MInv, AssertsHold
<1> QED BY <1>1, MainInitInv, MainNextInv, PTL DEF MainSpec

-----------------------------------------------------------------------------
(* ConnectionChain.  A connection is in one place at a time: in a task that  *)
(* is queued, in one that runs, or in an operation that is pending.          *)
ChainTask == Connection \X Step

ChainTypeOK ==
  /\ queue \in Seq(ChainTask) /\ arrived \in Seq(ChainTask)
  /\ at \in [Worker -> {"out", "run", "task", "returned"}]
  /\ current \in [Worker -> ChainTask \cup {NoTask}]
  /\ stopped \in BOOLEAN /\ ndebug \in BOOLEAN
  /\ socket \in [Connection -> {"none", "open", "closed"}]
  /\ op \in [Connection -> {"none", "write", "read"}]
  /\ size \in [Connection -> Nat] /\ buffer \in [Connection -> Nat]
  /\ result \in [Connection -> [error : {"none", "eof", "error"}, bytes : Nat]]
  /\ sent \in [Connection -> BOOLEAN] /\ answer \in [Connection -> {"none", "OK", "other"}]

Busy == {w \in Worker : at[w] = "task"}

\* No two of the queued and running tasks have the same connection.
OneHolder ==
  /\ \A i, j \in 1..Len(queue) : queue[i][1] = queue[j][1] => i = j
  /\ \A v, w \in Busy : current[v][1] = current[w][1] => v = w
  /\ \A i \in 1..Len(queue), w \in Busy : queue[i][1] # current[w][1]

Begun(c) == Contains(arrived, <<c, "send_auth">>)

\* What holds of the connection c of a task at step.
Fits(c, step) ==
  /\ op[c] = "none" /\ Begun(c)
  /\ step = "send_auth" => answer[c] = "none"
  /\ step = "receive_auth_response" =>
       socket[c] = "open" /\ (~ndebug /\ result[c].error = "none" => sent[c])
  /\ step = "process_server_response" => ndebug \/ sent[c]

HeldFits ==
  /\ \A i \in 1..Len(queue) : Fits(queue[i][1], queue[i][2])
  /\ \A w \in Busy : current[w] \in ChainTask /\ Fits(current[w][1], current[w][2])

\* What holds of the connection of an operation; its name goes out before the
\* server has answered.
PendingFits ==
  \A c \in Connection : op[c] # "none" =>
    /\ Begun(c) /\ socket[c] = "open" /\ buffer[c] = size[c]
    /\ op[c] = "write" => answer[c] = "none"
    /\ op[c] = "read" => ndebug \/ sent[c]

AnsweredHasBegun == \A c \in Connection : answer[c] # "none" => Begun(c)

ChainIInv ==
  /\ ChainTypeOK /\ OneHolder /\ HeldFits /\ PendingFits
  /\ AnsweredHasBegun /\ StoppedByOk

LEMMA TaskIsPair ==
  \A task \in ChainTask :
    task[1] \in Connection /\ task[2] \in Step /\ task = <<task[1], task[2]>>
BY DEF ChainTask

LEMMA InitChain == ChainInit => ChainIInv
<1> SUFFICES ASSUME ChainInit PROVE ChainIInv
  OBVIOUS
<1> USE DEF ChainInit, Init, ForAll
<1>1. Len(queue) = 0 /\ queue \in Seq(ChainTask) /\ arrived \in Seq(ChainTask)
  OBVIOUS
<1>2. ChainTypeOK
  <2>1. stopped \in BOOLEAN /\ ndebug \in BOOLEAN
    BY Zenon
  <2> QED BY <1>1, <2>1 DEF ChainTypeOK
<1>3. Busy = {}
  BY DEF Busy
<1>4. OneHolder /\ HeldFits
  BY <1>1, <1>3 DEF OneHolder, HeldFits
<1>5. PendingFits /\ AnsweredHasBegun
  BY DEF PendingFits, AnsweredHasBegun
<1>6. StoppedByOk
  BY DEF StoppedByOk
<1> QED BY <1>2, <1>4, <1>5, <1>6 DEF ChainIInv

\* What a step does to one connection leaves the tasks of the others as they were.
LEMMA OthersFit ==
  ASSUME NEW c \in Connection, NEW d \in Connection, d # c, NEW step, Fits(d, step),
         \A e \in Connection \ {c} :
           /\ op'[e] = op[e] /\ answer'[e] = answer[e] /\ socket'[e] = socket[e]
           /\ result'[e] = result[e] /\ sent'[e] = sent[e],
         Begun(d) => Begun(d)', ndebug' = ndebug
  PROVE  Fits(d, step)'
<1>1. op'[d] = op[d] /\ answer'[d] = answer[d] /\ socket'[d] = socket[d]
      /\ result'[d] = result[d] /\ sent'[d] = sent[d]
  OBVIOUS
<1> HIDE DEF Begun
<1> QED BY <1>1 DEF Fits

\* A connection that waits for its operation, or has not begun, has no task.
Free(c) ==
  /\ \A i \in 1..Len(queue) : queue[i][1] # c
  /\ \A w \in Busy : current[w][1] # c

LEMMA PendingIsFree ==
  ASSUME ChainIInv, NEW c \in Connection, op[c] # "none" \/ ~Begun(c)
  PROVE  Free(c)
BY DEF ChainIInv, HeldFits, Fits, Free

\* The task of a free connection goes to the back of the queue.
LEMMA ChainArrives ==
  ASSUME ChainIInv, NEW c \in Connection, NEW step \in Step, Free(c),
         Post(<<c, step>>), UNCHANGED <<at, current>>
  PROVE  /\ queue' \in Seq(ChainTask) /\ arrived' \in Seq(ChainTask)
         /\ OneHolder' /\ Busy' = Busy
         /\ Len(queue') = Len(queue) + 1 /\ Len(queue) \in Nat
         /\ \A i \in 1..Len(queue) : queue'[i] = queue[i] /\ queue[i] \in ChainTask
         /\ queue'[Len(queue) + 1] = <<c, step>>
         /\ \A d : Begun(d) => Begun(d)'
         /\ step = "send_auth" => Begun(c)'
<1>0. <<c, step>> \in ChainTask /\ queue \in Seq(ChainTask) /\ arrived \in Seq(ChainTask)
  BY DEF ChainTask, ChainIInv, ChainTypeOK
<1>1. queue' = Append(queue, <<c, step>>) /\ arrived' = Append(arrived, <<c, step>>)
  BY DEF Post
<1>2. /\ queue' \in Seq(ChainTask) /\ Len(queue') = Len(queue) + 1
      /\ \A i \in 1..Len(queue) : queue'[i] = queue[i]
      /\ queue'[Len(queue) + 1] = <<c, step>>
  BY <1>0, <1>1, AppendAdds
<1>3. /\ arrived' \in Seq(ChainTask)
      /\ \A f : Contains(arrived', f) <=> Contains(arrived, f) \/ f = <<c, step>>
  BY <1>0, <1>1, AppendAdds
<1>4. Len(queue) \in Nat /\ \A i \in 1..Len(queue) : queue[i] \in ChainTask
  BY <1>0
<1>5. Busy' = Busy
  BY DEF Busy
<1>6. OneHolder'
  <2>1. ASSUME NEW i \in 1..Len(queue'), NEW j \in 1..Len(queue'),
               queue'[i][1] = queue'[j][1]
        PROVE  i = j
    BY <1>2, <1>4, <2>1 DEF ChainIInv, OneHolder, Free
  <2>2. ASSUME NEW i \in 1..Len(queue'), NEW w \in Busy PROVE queue'[i][1] # current[w][1]
    BY <1>2, <1>4 DEF ChainIInv, OneHolder, Free
  <2> QED BY <1>5, <2>1, <2>2 DEF ChainIInv, OneHolder
<1>7. \A d : Begun(d) => Begun(d)'
  BY <1>3 DEF Begun
<1>8. step = "send_auth" => Begun(c)'
  BY <1>3 DEF Begun
<1> QED BY <1>2, <1>3, <1>4, <1>5, <1>6, <1>7, <1>8

\* When what holds of the connection that arrives is known, every task fits.
LEMMA ArrivedFits ==
  ASSUME ChainIInv, NEW c \in Connection, NEW step \in Step, Free(c),
         Post(<<c, step>>), UNCHANGED <<at, current, ndebug>>, Fits(c, step)',
         \A e \in Connection \ {c} :
           /\ op'[e] = op[e] /\ answer'[e] = answer[e] /\ socket'[e] = socket[e]
           /\ result'[e] = result[e] /\ sent'[e] = sent[e]
  PROVE  HeldFits'
<1>1. /\ Busy' = Busy
      /\ Len(queue') = Len(queue) + 1 /\ Len(queue) \in Nat
      /\ \A i \in 1..Len(queue) : queue'[i] = queue[i] /\ queue[i] \in ChainTask
      /\ queue'[Len(queue) + 1] = <<c, step>>
      /\ \A d : Begun(d) => Begun(d)'
  BY ChainArrives
<1>2. ASSUME NEW i \in 1..Len(queue) PROVE Fits(queue[i][1], queue[i][2])
                                          /\ queue[i][1] # c /\ queue[i][1] \in Connection
  BY <1>1, TaskIsPair DEF ChainIInv, HeldFits, Free
<1>3. ASSUME NEW w \in Busy PROVE Fits(current[w][1], current[w][2])
                                 /\ current[w][1] # c /\ current[w][1] \in Connection
                                 /\ current[w] \in ChainTask
  BY TaskIsPair DEF ChainIInv, HeldFits, Free
<1>4. \A d \in Connection : d # c => \A s : Fits(d, s) => Fits(d, s)'
  BY <1>1, OthersFit
<1> HIDE DEF Fits
<1> QED BY <1>1, <1>2, <1>3, <1>4 DEF HeldFits

LEMMA PushAuthKeeps == ASSUME ChainIInv, NEW c \in Connection, PushAuth(c) PROVE ChainIInv'
<1>1. /\ ~Begun(c) /\ Post(<<c, "send_auth">>)
      /\ UNCHANGED <<timers, due, since, now, stopped, at, current, started>>
      /\ UNCHANGED <<ndebug, aborted, exited, connection>>
  BY DEF PushAuth, PushTask, Fresh, Begun
<1>2. Free(c)
  BY <1>1, PendingIsFree
<1>3. UNCHANGED <<socket, size, op, buffer, result, sent, answer>>
  BY <1>1 DEF connection
<1>4. /\ queue' \in Seq(ChainTask) /\ arrived' \in Seq(ChainTask)
      /\ OneHolder'
      /\ \A d : Begun(d) => Begun(d)'
      /\ Begun(c)'
  BY <1>1, <1>2, ChainArrives DEF Step
<1>5. ChainTypeOK'
  BY <1>1, <1>3, <1>4 DEF ChainIInv, ChainTypeOK
<1> HIDE DEF Begun
<1>6. Fits(c, "send_auth")'
  BY <1>1, <1>3, <1>4 DEF Fits, ChainIInv, AnsweredHasBegun, PendingFits
<1>7. HeldFits'
  BY <1>1, <1>2, <1>3, <1>6, ArrivedFits DEF Step
<1>8. PendingFits' /\ AnsweredHasBegun' /\ StoppedByOk'
  BY <1>1, <1>3, <1>4 DEF ChainIInv, PendingFits, AnsweredHasBegun, StoppedByOk
<1> QED BY <1>4, <1>5, <1>7, <1>8 DEF ChainIInv

\* An operation that ends gives the connection to the task it posts.
LEMMA EndKeeps ==
  ASSUME ChainIInv, NEW c \in Connection, NEW kind \in {"write", "read"},
         NEW step \in Step, NEW error \in {"none", "eof", "error"}, NEW bytes \in Nat,
         End(c, kind, step, error, bytes)
  PROVE  /\ op[c] = kind /\ ~stopped
         /\ op' = [op EXCEPT ![c] = "none"]
         /\ result' = [result EXCEPT ![c] = [error |-> error, bytes |-> bytes]]
         /\ UNCHANGED <<stopped, at, current, ndebug, socket, size, buffer>>
         /\ Free(c) /\ Begun(c)' /\ Post(<<c, step>>)
         /\ queue' \in Seq(ChainTask) /\ arrived' \in Seq(ChainTask)
         /\ result' \in [Connection -> [error : {"none", "eof", "error"}, bytes : Nat]]
         /\ OneHolder'
         /\ \A d : Begun(d) => Begun(d)'
<1>1. /\ op[c] = kind /\ ~stopped
      /\ op' = [op EXCEPT ![c] = "none"]
      /\ result' = [result EXCEPT ![c] = [error |-> error, bytes |-> bytes]]
      /\ UNCHANGED <<stopped, at, current, ndebug, socket, size, buffer>>
      /\ Post(<<c, step>>)
  BY DEF End
<1>2. Free(c)
  BY <1>1, PendingIsFree
<1>3. /\ queue' \in Seq(ChainTask) /\ arrived' \in Seq(ChainTask)
      /\ OneHolder'
      /\ \A d : Begun(d) => Begun(d)'
  BY <1>1, <1>2, ChainArrives
<1>4. Begun(c)'
  BY <1>1, <1>3 DEF ChainIInv, PendingFits
<1>5. result' \in [Connection -> [error : {"none", "eof", "error"}, bytes : Nat]]
  BY <1>1 DEF ChainIInv, ChainTypeOK
<1> QED BY <1>1, <1>2, <1>3, <1>4, <1>5

LEMMA WriteEndsKeeps == ASSUME ChainIInv, NEW c \in Connection, WriteEnds(c) PROVE ChainIInv'
<1>1. PICK n \in 0..AuthSize :
        /\ sent' = [sent EXCEPT ![c] = n = AuthSize]
        /\ End(c, "write", "receive_auth_response",
               IF n = AuthSize THEN "none" ELSE "error", n)
  BY DEF WriteEnds
<1>2. answer' = answer
  BY DEF WriteEnds
<1> DEFINE error == IF n = AuthSize THEN "none" ELSE "error"
<1>3. n \in Nat /\ error \in {"none", "eof", "error"} /\ (error = "none" <=> n = AuthSize)
  BY ChainAssumption
<1>4. End(c, "write", "receive_auth_response", error, n)
  BY <1>1
<1> HIDE DEF error
<1> USE DEF Step
<1>5. /\ op[c] = "write" /\ ~stopped
      /\ op' = [op EXCEPT ![c] = "none"]
      /\ result' = [result EXCEPT ![c] = [error |-> error, bytes |-> n]]
      /\ UNCHANGED <<stopped, at, current, ndebug, socket, size, buffer>>
      /\ Free(c) /\ Begun(c)' /\ Post(<<c, "receive_auth_response">>)
      /\ queue' \in Seq(ChainTask) /\ arrived' \in Seq(ChainTask)
      /\ result' \in [Connection -> [error : {"none", "eof", "error"}, bytes : Nat]]
      /\ OneHolder'
      /\ \A d : Begun(d) => Begun(d)'
  BY <1>3, <1>4, EndKeeps
<1> HIDE DEF Begun
<1>6. sent' \in [Connection -> BOOLEAN] /\ (sent'[c] <=> n = AuthSize)
  <2>1. (n = AuthSize) \in BOOLEAN
    OBVIOUS
  <2> QED BY <1>1, <2>1, Zenon DEF ChainIInv, ChainTypeOK
<1>7. ChainTypeOK'
  BY <1>2, <1>5, <1>6 DEF ChainIInv, ChainTypeOK
<1>8. /\ op'[c] = "none" /\ result'[c].error = error
      /\ \A d \in Connection \ {c} :
           /\ op'[d] = op[d] /\ answer'[d] = answer[d] /\ socket'[d] = socket[d]
           /\ result'[d] = result[d] /\ sent'[d] = sent[d]
  BY <1>1, <1>2, <1>5 DEF ChainIInv, ChainTypeOK
<1>9. socket[c] = "open" /\ answer[c] = "none"
  BY <1>5 DEF ChainIInv, PendingFits
<1>10. Fits(c, "receive_auth_response")'
  BY <1>3, <1>5, <1>6, <1>8, <1>9 DEF Fits
<1>11. HeldFits'
  BY <1>5, <1>8, <1>10, ArrivedFits
<1>12. PendingFits'
  BY <1>2, <1>5, <1>8 DEF ChainIInv, PendingFits
<1>13. AnsweredHasBegun' /\ StoppedByOk'
  BY <1>2, <1>5, <1>8 DEF ChainIInv, AnsweredHasBegun, StoppedByOk
<1> QED BY <1>5, <1>7, <1>11, <1>12, <1>13 DEF ChainIInv

LEMMA ReadEndsKeeps == ASSUME ChainIInv, NEW c \in Connection, ReadEnds(c) PROVE ChainIInv'
<1>1. PICK what \in {"none", "OK", "other"}, error \in {"none", "eof", "error"}, n \in Nat :
        /\ answer' = [answer EXCEPT ![c] = what]
        /\ End(c, "read", "process_server_response", error, n)
  <2>1. buffer[c] \in Nat /\ answer[c] \in {"none", "OK", "other"}
        /\ answer = [answer EXCEPT ![c] = answer[c]]
    BY DEF ChainIInv, ChainTypeOK
  <2>2. CASE \E what \in {"OK", "other"} :
               /\ answer' = [answer EXCEPT ![c] = what]
               /\ End(c, "read", "process_server_response", "none", buffer[c])
    BY <2>1, <2>2
  <2>3. CASE \E n \in 0..(buffer[c] - 1), error \in {"eof", "error"} :
               /\ End(c, "read", "process_server_response", error, n)
               /\ UNCHANGED answer
    BY <2>1, <2>3
  <2> QED BY <2>2, <2>3 DEF ReadEnds
<1>2. sent' = sent
  BY DEF ReadEnds
<1> USE DEF Step
<1>5. /\ op[c] = "read" /\ ~stopped
      /\ op' = [op EXCEPT ![c] = "none"]
      /\ result' = [result EXCEPT ![c] = [error |-> error, bytes |-> n]]
      /\ UNCHANGED <<stopped, at, current, ndebug, socket, size, buffer>>
      /\ Free(c) /\ Begun(c)' /\ Post(<<c, "process_server_response">>)
      /\ queue' \in Seq(ChainTask) /\ arrived' \in Seq(ChainTask)
      /\ result' \in [Connection -> [error : {"none", "eof", "error"}, bytes : Nat]]
      /\ OneHolder'
      /\ \A d : Begun(d) => Begun(d)'
  BY <1>1, EndKeeps
<1> HIDE DEF Begun
<1>7. ChainTypeOK'
  BY <1>1, <1>2, <1>5 DEF ChainIInv, ChainTypeOK
<1>8. /\ op'[c] = "none"
      /\ \A d \in Connection \ {c} :
           /\ op'[d] = op[d] /\ answer'[d] = answer[d] /\ socket'[d] = socket[d]
           /\ result'[d] = result[d] /\ sent'[d] = sent[d]
  BY <1>1, <1>2, <1>5 DEF ChainIInv, ChainTypeOK
<1>9. ndebug \/ sent[c]
  BY <1>5 DEF ChainIInv, PendingFits
<1>10. Fits(c, "process_server_response")'
  BY <1>2, <1>5, <1>8, <1>9 DEF Fits
<1>11. HeldFits'
  BY <1>5, <1>8, <1>10, ArrivedFits
<1>12. PendingFits'
  BY <1>2, <1>5, <1>8 DEF ChainIInv, PendingFits
<1>13. AnsweredHasBegun' /\ StoppedByOk'
  BY <1>2, <1>5, <1>8 DEF ChainIInv, AnsweredHasBegun, StoppedByOk
<1> QED BY <1>5, <1>7, <1>11, <1>12, <1>13 DEF ChainIInv

-----------------------------------------------------------------------------
(* The workers *)

\* The task at the front of the queue passes to the worker that takes it.
LEMMA ChainTakeKeeps ==
  ASSUME ChainIInv, NEW w \in Worker, Take(w),
         UNCHANGED <<ndebug, aborted, exited, connection>>
  PROVE  ChainIInv'
<1>1. /\ queue # <<>> /\ at[w] = "run" /\ at' = [at EXCEPT ![w] = "task"]
      /\ current' = [current EXCEPT ![w] = Head(queue)]
      /\ queue' = Tail(queue) /\ arrived' = arrived /\ stopped' = stopped
      /\ ndebug' = ndebug
      /\ UNCHANGED <<socket, size, op, buffer, result, sent, answer>>
  BY DEF Take, Move, connection
<1>2. queue \in Seq(ChainTask)
  BY DEF ChainIInv, ChainTypeOK
<1>3. /\ Head(queue) \in ChainTask /\ Tail(queue) \in Seq(ChainTask)
      /\ Head(queue) = queue[1] /\ 1 \in 1..Len(queue)
      /\ Len(Tail(queue)) = Len(queue) - 1 /\ Len(queue) \in Nat
      /\ \A i \in 1..Len(Tail(queue)) :
           Tail(queue)[i] = queue[i + 1] /\ i + 1 \in 1..Len(queue) /\ i + 1 # 1
  BY <1>1, <1>2, HeadTailProperties
<1>4. /\ w \notin Busy /\ Busy' = Busy \cup {w} /\ Busy \subseteq Worker
      /\ \A v \in Busy : current'[v] = current[v]
      /\ current'[w] = queue[1]
  BY <1>1, <1>3 DEF Busy, ChainIInv, ChainTypeOK
<1>5. ChainTypeOK'
  BY <1>1, <1>3 DEF ChainIInv, ChainTypeOK
<1>6. OneHolder'
  <2>1. ASSUME NEW i \in 1..Len(queue'), NEW j \in 1..Len(queue'),
               queue'[i][1] = queue'[j][1]
        PROVE  i = j
    <3>1. i + 1 = j + 1
      BY <1>1, <1>3, <2>1 DEF ChainIInv, OneHolder
    <3> QED BY <1>1, <1>3, <3>1
  <2>2. ASSUME NEW u \in Busy', NEW v \in Busy', current'[u][1] = current'[v][1]
        PROVE  u = v
    BY <1>3, <1>4, <2>2 DEF ChainIInv, OneHolder
  <2>3. ASSUME NEW i \in 1..Len(queue'), NEW v \in Busy'
        PROVE  queue'[i][1] # current'[v][1]
    BY <1>1, <1>3, <1>4 DEF ChainIInv, OneHolder
  <2> QED BY <2>1, <2>2, <2>3 DEF OneHolder
<1>7. \A d \in Connection : \A s : Fits(d, s) => Fits(d, s)'
  BY <1>1 DEF Fits, Begun
<1>8. HeldFits'
  <2>1. ASSUME NEW i \in 1..Len(queue) PROVE queue[i] \in ChainTask
    BY <1>2
  <2> HIDE DEF Fits
  <2>2. \A i \in 1..Len(queue') : Fits(queue[i][1], queue[i][2])'
    BY <1>1, <1>3, <1>7, <2>1, TaskIsPair DEF ChainIInv, HeldFits
  <2>3. \A v \in Busy' : current'[v] \in ChainTask /\ Fits(current[v][1], current[v][2])'
    BY <1>3, <1>4, <1>7, TaskIsPair DEF ChainIInv, HeldFits
  <2> QED BY <2>2, <2>3 DEF HeldFits
<1>9. PendingFits' /\ AnsweredHasBegun' /\ StoppedByOk'
  BY <1>1 DEF ChainIInv, PendingFits, AnsweredHasBegun, StoppedByOk, Begun
<1> QED BY <1>5, <1>6, <1>8, <1>9 DEF ChainIInv

\* The connection of the task that ends goes wherever the task has given it.
LEMMA ChainLeaves ==
  ASSUME ChainIInv, NEW w \in Worker, NEW c \in Connection, NEW step, Running(w, c, step),
         at' = [at EXCEPT ![w] = "run"], current' = [current EXCEPT ![w] = NoTask],
         UNCHANGED <<queue, arrived>>, ndebug' = ndebug,
         \A d \in Connection \ {c} :
           /\ op'[d] = op[d] /\ answer'[d] = answer[d] /\ socket'[d] = socket[d]
           /\ result'[d] = result[d] /\ sent'[d] = sent[d]
  PROVE  /\ Fits(c, step) /\ OneHolder' /\ HeldFits'
         /\ at' \in [Worker -> {"out", "run", "task", "returned"}]
         /\ current' \in [Worker -> ChainTask \cup {NoTask}]
<1>1. /\ w \in Busy /\ current[w] = <<c, step>> /\ Busy' = Busy \ {w}
      /\ \A v \in Busy' : v \in Busy /\ v # w /\ current'[v] = current[v]
  BY DEF Running, Busy, ChainIInv, ChainTypeOK
<1>2. Fits(c, step)
  BY <1>1 DEF ChainIInv, HeldFits
<1>3. OneHolder'
  BY <1>1 DEF ChainIInv, OneHolder
<1>4. \A d \in Connection : d # c => \A s : Fits(d, s) => Fits(d, s)'
  <2>1. \A d : Begun(d) => Begun(d)'
    BY DEF Begun
  <2> QED BY <2>1, OthersFit
<1>5. HeldFits'
  <2>1. ASSUME NEW i \in 1..Len(queue)
        PROVE  queue[i][1] \in Connection /\ queue[i][1] # c /\ Fits(queue[i][1], queue[i][2])
    <3>1. queue[i] \in ChainTask
      BY DEF ChainIInv, ChainTypeOK
    <3> QED BY <1>1, <3>1, TaskIsPair DEF ChainIInv, OneHolder, HeldFits
  <2>2. ASSUME NEW v \in Busy'
        PROVE  /\ current[v] \in ChainTask /\ current[v][1] \in Connection
               /\ current[v][1] # c /\ Fits(current[v][1], current[v][2])
    BY <1>1, TaskIsPair DEF ChainIInv, OneHolder, HeldFits
  <2> HIDE DEF Fits
  <2> QED BY <1>1, <1>4, <2>1, <2>2 DEF HeldFits
<1> QED BY <1>2, <1>3, <1>5 DEF ChainIInv, ChainTypeOK

\* send_auth() hands an open socket and the name to the write, or closes.
LEMMA SendAuthKeeps ==
  ASSUME ChainIInv, NEW w \in Worker, NEW c \in Connection, SendAuth(w, c)
  PROVE  ChainIInv'
<1>1. /\ Running(w, c, "send_auth")
      /\ at' = [at EXCEPT ![w] = "run"] /\ current' = [current EXCEPT ![w] = NoTask]
      /\ UNCHANGED <<queue, arrived, stopped, ndebug, result, sent, answer>>
  BY DEF SendAuth, Finish, Move, Caught
<1>2. /\ op' \in [Connection -> {"none", "write", "read"}]
      /\ size' \in [Connection -> Nat] /\ buffer' \in [Connection -> Nat]
      /\ socket' \in [Connection -> {"none", "open", "closed"}]
      /\ \A d \in Connection \ {c} : op'[d] = op[d] /\ socket'[d] = socket[d]
                                    /\ size'[d] = size[d] /\ buffer'[d] = buffer[d]
      /\ \/ op'[c] = "write" /\ socket'[c] = "open" /\ buffer'[c] = size'[c]
         \/ op'[c] = op[c]
  <2>0. /\ op \in [Connection -> {"none", "write", "read"}]
        /\ size \in [Connection -> Nat] /\ buffer \in [Connection -> Nat]
        /\ socket \in [Connection -> {"none", "open", "closed"}] /\ AuthSize \in Nat
    BY ChainAssumption DEF ChainIInv, ChainTypeOK
  <2>1. CASE /\ socket' = [socket EXCEPT ![c] = "open"]
             /\ Begin(c, "write", AuthSize)
    BY <2>0, <2>1 DEF Begin
  <2>2. CASE /\ socket' = [socket EXCEPT ![c] = "closed"]
             /\ UNCHANGED <<op, size, buffer>>
    BY <2>0, <2>2
  <2> QED BY <2>1, <2>2 DEF SendAuth
<1>3. /\ Fits(c, "send_auth") /\ OneHolder' /\ HeldFits'
      /\ at' \in [Worker -> {"out", "run", "task", "returned"}]
      /\ current' \in [Worker -> ChainTask \cup {NoTask}]
  BY <1>1, <1>2, ChainLeaves
<1>4. op[c] = "none" /\ answer[c] = "none" /\ Begun(c)
  BY <1>3 DEF Fits
<1>5. \A d : Begun(d) => Begun(d)'
  BY <1>1 DEF Begun
<1> HIDE DEF Begun
<1>6. ChainTypeOK'
  BY <1>1, <1>2, <1>3 DEF ChainIInv, ChainTypeOK
<1>7. PendingFits'
  BY <1>1, <1>2, <1>4, <1>5 DEF ChainIInv, PendingFits
<1>8. AnsweredHasBegun'
  BY <1>1, <1>5 DEF ChainIInv, AnsweredHasBegun
<1>9. StoppedByOk'
  BY <1>1, <1>2, <1>4 DEF ChainIInv, StoppedByOk
<1> QED BY <1>3, <1>6, <1>7, <1>8, <1>9 DEF ChainIInv

LEMMA AbortKeeps == ASSUME ChainIInv, NEW w \in Worker, AbortIn(w) PROVE ChainIInv'
<1>1. /\ UNCHANGED <<queue, arrived, at, current, stopped, ndebug>>
      /\ UNCHANGED <<socket, size, op, buffer, result, sent, answer>>
  BY DEF AbortIn, vars, connection
<1> QED BY <1>1 DEF ChainIInv, ChainTypeOK, OneHolder, Busy, HeldFits, Fits, Begun,
                   PendingFits, AnsweredHasBegun, StoppedByOk

\* The read gets the connection, and with asserts only when the name is sent.
LEMMA ReceiveKeeps ==
  ASSUME ChainIInv, NEW w \in Worker, NEW c \in Connection, ReceiveAuthResponse(w, c)
  PROVE  ChainIInv'
<1>0. CASE ~NoError(c)
  BY <1>0, AbortKeeps DEF ReceiveAuthResponse
<1>1. CASE NoError(c)
  <2>1. /\ Running(w, c, "receive_auth_response")
        /\ ndebug \/ result[c].error = "none"
        /\ at' = [at EXCEPT ![w] = "run"] /\ current' = [current EXCEPT ![w] = NoTask]
        /\ UNCHANGED <<queue, arrived, stopped, ndebug, socket, result, sent, answer>>
        /\ op' = [op EXCEPT ![c] = "read"]
        /\ size' = [size EXCEPT ![c] = 2] /\ buffer' = [buffer EXCEPT ![c] = 2]
    BY <1>1 DEF ReceiveAuthResponse, ReadResponse, Finish, Move, Caught, NoError, Passes,
                Begin, ResponseSize
  <2>2. /\ op' \in [Connection -> {"none", "write", "read"}] /\ op'[c] = "read"
        /\ size' \in [Connection -> Nat] /\ buffer' \in [Connection -> Nat]
        /\ size'[c] = 2 /\ buffer'[c] = 2
        /\ \A d \in Connection \ {c} :
             op'[d] = op[d] /\ size'[d] = size[d] /\ buffer'[d] = buffer[d]
    BY <2>1 DEF ChainIInv, ChainTypeOK
  <2>3. /\ Fits(c, "receive_auth_response") /\ OneHolder' /\ HeldFits'
        /\ at' \in [Worker -> {"out", "run", "task", "returned"}]
        /\ current' \in [Worker -> ChainTask \cup {NoTask}]
    BY <2>1, <2>2, ChainLeaves
  <2>4. socket[c] = "open" /\ Begun(c) /\ (ndebug \/ sent[c])
    BY <2>1, <2>3 DEF Fits
  <2>5. \A d : Begun(d) => Begun(d)'
    BY <2>1 DEF Begun
  <2> HIDE DEF Begun
  <2>6. ChainTypeOK'
    BY <2>1, <2>2, <2>3 DEF ChainIInv, ChainTypeOK
  <2>7. PendingFits'
    BY <2>1, <2>2, <2>4, <2>5 DEF ChainIInv, PendingFits
  <2>8. AnsweredHasBegun'
    BY <2>1, <2>5 DEF ChainIInv, AnsweredHasBegun
  <2>9. StoppedByOk'
    BY <2>1, <2>2, <2>4 DEF ChainIInv, StoppedByOk
  <2> QED BY <2>3, <2>6, <2>7, <2>8, <2>9 DEF ChainIInv
<1> QED BY <1>0, <1>1

\* What is left when the answer is looked at is a connection that is closed.
LEMMA ProcessKeeps ==
  ASSUME ChainIInv, NEW w \in Worker, NEW c \in Connection, ProcessServerResponse(w, c)
  PROVE  ChainIInv'
<1>0. CASE ~ResponseIsOk(c)
  BY <1>0, AbortKeeps DEF ProcessServerResponse
<1>1. CASE ResponseIsOk(c)
  <2>1. /\ Running(w, c, "process_server_response")
        /\ ndebug \/ (result[c].bytes = 2 /\ answer[c] = "OK")
        /\ at' = [at EXCEPT ![w] = "run"] /\ current' = [current EXCEPT ![w] = NoTask]
        /\ UNCHANGED <<queue, arrived, ndebug, op, buffer, result, sent, answer>>
        /\ stopped' = TRUE
        /\ size' = [size EXCEPT ![c] = result[c].bytes]
        /\ socket' = [socket EXCEPT ![c] = Shutdown(socket[c])]
    BY <1>1 DEF ProcessServerResponse, CloseAndStop, StopAndFinish, Move, ResponseIsOk,
                Passes, ResponseSize
  <2>2. /\ socket' \in [Connection -> {"none", "open", "closed"}]
        /\ size' \in [Connection -> Nat] /\ size'[c] = result[c].bytes
        /\ \A d \in Connection \ {c} : socket'[d] = socket[d] /\ size'[d] = size[d]
    BY <2>1 DEF ChainIInv, ChainTypeOK, Shutdown
  <2>3. /\ Fits(c, "process_server_response") /\ OneHolder' /\ HeldFits'
        /\ at' \in [Worker -> {"out", "run", "task", "returned"}]
        /\ current' \in [Worker -> ChainTask \cup {NoTask}]
    BY <2>1, <2>2, ChainLeaves
  <2>4. op[c] = "none" /\ (ndebug \/ sent[c])
    BY <2>3 DEF Fits
  <2>5. \A d : Begun(d) => Begun(d)'
    BY <2>1 DEF Begun
  <2> HIDE DEF Begun
  <2>6. ChainTypeOK'
    BY <2>1, <2>2, <2>3 DEF ChainIInv, ChainTypeOK
  <2>7. PendingFits'
    BY <2>1, <2>2, <2>4, <2>5 DEF ChainIInv, PendingFits
  <2>8. AnsweredHasBegun'
    BY <2>1, <2>5 DEF ChainIInv, AnsweredHasBegun
  <2>9. StoppedByOk'
    BY <2>1, <2>2, <2>4 DEF ChainIInv, StoppedByOk
  <2> QED BY <2>3, <2>6, <2>7, <2>8, <2>9 DEF ChainIInv
<1> QED BY <1>0, <1>1

\* Once every worker has returned nothing is running, and what is queued or
\* pending goes.
LEMMA ExitKeeps == ChainIInv /\ Exit => ChainIInv'
<1> SUFFICES ASSUME ChainIInv, Exit PROVE ChainIInv'
  OBVIOUS
<1>1. /\ \A w \in Worker : at[w] = "returned"
      /\ op' = [c \in Connection |-> "none"]
      /\ socket' = [c \in Connection |-> Shutdown(socket[c])] /\ queue' = <<>>
      /\ UNCHANGED <<arrived, at, current, stopped, ndebug, size, buffer, result,
                     sent, answer>>
  BY DEF Exit, ForAll, Destroyed
<1>2. Busy' = {} /\ Len(queue') = 0 /\ queue' \in Seq(ChainTask)
  BY <1>1 DEF Busy
<1>3. ChainTypeOK'
  BY <1>1, <1>2 DEF ChainIInv, ChainTypeOK, Shutdown
<1>4. OneHolder' /\ HeldFits'
  BY <1>2 DEF OneHolder, HeldFits
<1>5. PendingFits' /\ AnsweredHasBegun' /\ StoppedByOk'
  BY <1>1 DEF ChainIInv, PendingFits, AnsweredHasBegun, StoppedByOk, Begun
<1> QED BY <1>3, <1>4, <1>5 DEF ChainIInv

LEMMA StartReturnKeeps ==
  ASSUME ChainIInv, NEW w \in Worker, Start(w) \/ Return(w),
         UNCHANGED <<ndebug, aborted, exited, connection>>
  PROVE  ChainIInv'
<1>1. /\ at' \in [Worker -> {"out", "run", "task", "returned"}] /\ at[w] # "task"
      /\ \A v \in Worker : at'[v] = "task" <=> at[v] = "task"
      /\ UNCHANGED <<queue, arrived, current, stopped, ndebug>>
      /\ UNCHANGED <<socket, size, op, buffer, result, sent, answer>>
  BY DEF Start, Return, Move, connection, ChainIInv, ChainTypeOK
<1>2. Busy' = Busy
  BY <1>1 DEF Busy
<1> QED BY <1>1, <1>2 DEF ChainIInv, ChainTypeOK, OneHolder, HeldFits, Fits, Begun,
                          PendingFits, AnsweredHasBegun, StoppedByOk

LEMMA ChainIInvPreserved == ChainIInv /\ [ChainNext]_allvars => ChainIInv'
<1> SUFFICES ASSUME ChainIInv, [ChainNext]_allvars PROVE ChainIInv'
  OBVIOUS
<1>1. ASSUME NEW c \in Connection, PushAuth(c) \/ Network(c) PROVE ChainIInv'
  BY <1>1, PushAuthKeeps, WriteEndsKeeps, ReadEndsKeeps DEF Network
<1>2. ASSUME NEW w \in Worker, WorkerStep(w) PROVE ChainIInv'
  <2>1. CASE AtWorker(w)
    BY <2>1, StartReturnKeeps, ChainTakeKeeps DEF AtWorker
  <2>2. ASSUME NEW c \in Connection,
               SendAuth(w, c) \/ ReceiveAuthResponse(w, c) \/ ProcessServerResponse(w, c)
        PROVE  ChainIInv'
    BY <2>2, SendAuthKeeps, ReceiveKeeps, ProcessKeeps
  <2> QED BY <1>2, <2>1, <2>2 DEF WorkerStep
<1>3. CASE MainExit
  BY <1>3, ExitKeeps DEF MainExit
<1>4. CASE UNCHANGED allvars
  <2>1. /\ UNCHANGED <<queue, arrived, at, current, stopped, ndebug>>
        /\ UNCHANGED <<socket, size, op, buffer, result, sent, answer>>
    BY <1>4 DEF allvars, vars, connection
  <2>2. ChainTypeOK' /\ Busy' = Busy
    BY <2>1 DEF ChainIInv, ChainTypeOK, Busy
  <2>3. OneHolder' /\ HeldFits'
    BY <2>1, <2>2 DEF ChainIInv, OneHolder, HeldFits, Fits, Begun
  <2>4. PendingFits' /\ AnsweredHasBegun' /\ StoppedByOk'
    BY <2>1 DEF ChainIInv, PendingFits, AnsweredHasBegun, StoppedByOk, Begun
  <2> QED BY <2>2, <2>3, <2>4 DEF ChainIInv
<1> QED BY <1>1, <1>2, <1>3, <1>4 DEF ChainNext

\* An operation that is pending has its connection to itself, open and with the
\* data it was given, whatever the call that started it does afterwards.
THEOREM PendingOwnsConnection == ChainSpec => []PendingIsOwned
<1>1. ChainIInv => PendingIsOwned
  BY DEF ChainIInv, PendingFits, PendingIsOwned
<1> QED BY <1>1, InitChain, ChainIInvPreserved, PTL DEF ChainSpec

\* With its asserts the code is stopped only by a connection whose server has the
\* whole name and has answered OK, and reads no answer before the name is sent.
THEOREM OnlyOkStops == ChainSpec => []StoppedByOk
<1>1. ChainIInv => StoppedByOk
  BY DEF ChainIInv
<1> QED BY <1>1, InitChain, ChainIInvPreserved, PTL DEF ChainSpec
==============================================================================
