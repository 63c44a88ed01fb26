------------------------------ MODULE TaskQueue ------------------------------
(***************************************************************************)
(* What work_queue of src/boost-thread-1.cpp promises its callers: a FIFO  *)
(* queue whose calls each take effect in one step, between the moment they *)
(* are made and the moment they return.                                    *)
(***************************************************************************)
EXTENDS Sequences

CONSTANTS Thread, Task, NoTask

VARIABLES
  queue,    \* the tasks, oldest first
  call,     \* the call each thread has made that has not taken effect yet
  result    \* what the last call of each thread returned

vars == <<queue, call, result>>

Calls == {"push_task", "try_pop_task", "pop_task", "flush"}

Init ==
  /\ queue = <<>>
  /\ call = [t \in Thread |-> "none"]
  /\ result = [t \in Thread |-> NoTask]

Invoke(t, c) ==
  /\ call[t] = "none"
  /\ call' = [call EXCEPT ![t] = c]
  /\ result' = [result EXCEPT ![t] = NoTask]
  /\ UNCHANGED queue

\* The call of t takes effect, leaves q behind and returns r.
Effect(t, q, r) ==
  /\ call' = [call EXCEPT ![t] = "none"]
  /\ queue' = q
  /\ result' = [result EXCEPT ![t] = r]

Push(t, task) ==
  /\ call[t] = "push_task"
  /\ Effect(t, Append(queue, task), NoTask)

\* pop_task() takes effect only on a queue that has a task.
Pop(t) ==
  /\ call[t] \in {"pop_task", "try_pop_task"}
  /\ queue # <<>>
  /\ Effect(t, Tail(queue), Head(queue))

TryPopEmpty(t) ==
  /\ call[t] = "try_pop_task"
  /\ queue = <<>>
  /\ Effect(t, queue, NoTask)

\* flush() changes nothing a caller of the queue can see.
Flush(t) ==
  /\ call[t] = "flush"
  /\ Effect(t, queue, NoTask)

Next ==
  \E t \in Thread :
    \/ \E c \in Calls : Invoke(t, c)
    \/ \E task \in Task : Push(t, task)
    \/ Pop(t)
    \/ TryPopEmpty(t)
    \/ Flush(t)

Spec == Init /\ [][Next]_vars
=============================================================================
