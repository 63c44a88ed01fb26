------------------------------ MODULE WorkQueue ------------------------------
(***************************************************************************)
(* class work_queue of src/boost-thread-1.cpp: a deque of tasks protected  *)
(* by a mutex, with a condition variable on which pop_task() sleeps.  Any  *)
(* thread may call any member function at any time; a call is a sequence   *)
(* of steps, and the steps of different threads interleave.                *)
(***************************************************************************)
EXTENDS Naturals, Sequences, FiniteSets

CONSTANTS
  Thread,       \* the threads that call the queue
  Task,         \* what a boost::function<void()> may hold
  NoTask,       \* the empty boost::function
  NoThread,     \* "nobody holds tasks_mutex_"
  MaxPushes     \* bound: how many tasks the model ever pushes

ASSUME ThreadAssumption == NoThread \notin Thread /\ IsFiniteSet(Thread)
ASSUME TaskAssumption   == NoTask \notin Task
ASSUME BoundAssumption  == MaxPushes \in Nat

VARIABLES
  tasks_,        \* std::deque<task_type>
  tasks_mutex_,  \* the thread that holds the mutex, or NoThread
  cond_,         \* the threads asleep in cond_.wait()
  at,            \* where each thread is in the call it makes
  ret,           \* each thread's task: the argument or the result of its call
  pushed,        \* history: every task push_back() ever stored, in order
  popped         \* history: every task pop_front() ever removed, in order

vars == <<tasks_, tasks_mutex_, cond_, at, ret, pushed, popped>>

\* Places between lock and unlock.  The others hold no lock: "woken" is a
\* pop_task() that left the wait set and needs the mutex to go on.
Critical == {"push_back", "try_take", "pop_check", "pop_erase", "flush_notify"}
Place    == Critical \cup {"idle", "notify_one", "asleep", "woken"}

Init ==
  /\ tasks_ = <<>>
  /\ tasks_mutex_ = NoThread
  /\ cond_ = {}
  /\ at  = [t \in Thread |-> "idle"]
  /\ ret = [t \in Thread |-> NoTask]
  /\ pushed = <<>>
  /\ popped = <<>>

Move(t, from, to) ==
  /\ at[t] = from
  /\ at' = [at EXCEPT ![t] = to]

\* front() and pop_front() of a deque: undefined when it is empty, and then the
\* model hands out the empty function and removes nothing.
Front(q)  == IF q = <<>> THEN NoTask ELSE Head(q)
RestOf(q) == IF q = <<>> THEN q ELSE Tail(q)

\* boost::mutex: acquired when free, blocks otherwise.
Lock(t) ==
  /\ tasks_mutex_ = NoThread
  /\ tasks_mutex_' = t

Unlock == tasks_mutex_' = NoThread

\* A call begins when it gets the mutex.
Enter(t, place, arg) ==
  /\ Move(t, "idle", place)
  /\ Lock(t)
  /\ ret' = [ret EXCEPT ![t] = arg]
  /\ UNCHANGED <<tasks_, cond_, pushed, popped>>

-----------------------------------------------------------------------------
(* void push_task(const task_type & task) *)
PushLock(t, task) == Len(pushed) < MaxPushes /\ Enter(t, "push_back", task)

PushBack(t) ==
  /\ Move(t, "push_back", "notify_one")
  /\ tasks_' = Append(tasks_, ret[t])
  /\ pushed' = Append(pushed, ret[t])
  /\ ret' = [ret EXCEPT ![t] = NoTask]
  /\ Unlock
  /\ UNCHANGED <<cond_, popped>>

\* Faulty: nobody is notified.
NotifyNobody(t) ==
  /\ Move(t, "notify_one", "idle")
  /\ UNCHANGED <<tasks_, tasks_mutex_, cond_, ret, pushed, popped>>

\* cond_.notify_one() runs after the unlock: another thread may have taken
\* the task, or emptied the wait set, in between.
NotifyOne(t) ==
  /\ at[t] = "notify_one"
  /\ \/ /\ cond_ = {}
        /\ at' = [at EXCEPT ![t] = "idle"]
        /\ UNCHANGED cond_
     \/ \E w \in cond_ :
          /\ cond_' = cond_ \ {w}
          /\ at' = [at EXCEPT ![t] = "idle", ![w] = "woken"]
  /\ UNCHANGED <<tasks_, tasks_mutex_, ret, pushed, popped>>

(* task_type try_pop_task() *)
TryPopLock(t) == Enter(t, "try_take", NoTask)

\* Faulty: pop_front() is missing.
TakeCopy(t) ==
  /\ ret' = [ret EXCEPT ![t] = Front(tasks_)]
  /\ popped' = Append(popped, Front(tasks_))
  /\ UNCHANGED tasks_

\* Faulty: the task taken is not assigned to the result.
TakeAndDrop(t) ==
  /\ tasks_' = RestOf(tasks_)
  /\ popped' = Append(popped, Front(tasks_))
  /\ UNCHANGED ret

\* ret = tasks_.front(); tasks_.pop_front();
TakeFront(t) ==
  /\ ret' = [ret EXCEPT ![t] = Front(tasks_)]
  /\ tasks_' = RestOf(tasks_)
  /\ popped' = Append(popped, Front(tasks_))

\* Faulty: no test of empty().
TryTakeUntested(t) ==
  /\ Move(t, "try_take", "idle")
  /\ TakeFront(t)
  /\ Unlock
  /\ UNCHANGED <<cond_, pushed>>

TryTake(t) ==
  /\ Move(t, "try_take", "idle")
  /\ \/ /\ tasks_ = <<>>
        /\ UNCHANGED <<tasks_, ret, popped>>
     \/ tasks_ # <<>> /\ TakeFront(t)
  /\ Unlock
  /\ UNCHANGED <<cond_, pushed>>

\* Faulty: pop_task() does not lock.
PopUnlocked(t) ==
  /\ Move(t, "idle", "pop_check")
  /\ ret' = [ret EXCEPT ![t] = NoTask]
  /\ UNCHANGED <<tasks_, tasks_mutex_, cond_, pushed, popped>>

(* task_type pop_task() *)
PopLock(t) == Enter(t, "pop_check", NoTask)

\* Faulty: polls the deque instead of waiting.
PopPolls(t) ==
  /\ tasks_ = <<>>
  /\ Move(t, "pop_check", "woken")
  /\ Unlock
  /\ UNCHANGED <<tasks_, cond_, ret, pushed, popped>>

\* while(tasks_.empty()) cond_.wait(lock): the wait gives up the mutex and
\* joins the wait set in one step.
PopWait(t) ==
  /\ tasks_ = <<>>
  /\ Move(t, "pop_check", "asleep")
  /\ Unlock
  /\ cond_' = cond_ \cup {t}
  /\ UNCHANGED <<tasks_, ret, pushed, popped>>

\* A condition variable may wake a waiter that nobody notified.
SpuriousWakeup(t) ==
  /\ t \in cond_
  /\ Move(t, "asleep", "woken")
  /\ cond_' = cond_ \ {t}
  /\ UNCHANGED <<tasks_, tasks_mutex_, ret, pushed, popped>>

\* Faulty: "if" instead of "while", so that front() is read after any wakeup.
PopRelockOnce(t) ==
  /\ Move(t, "woken", "pop_erase")
  /\ Lock(t)
  /\ ret' = [ret EXCEPT ![t] = Front(tasks_)]
  /\ UNCHANGED <<tasks_, cond_, pushed, popped>>

\* wait() takes the mutex again before it returns into the while loop.
PopRelock(t) ==
  /\ Move(t, "woken", "pop_check")
  /\ Lock(t)
  /\ UNCHANGED <<tasks_, cond_, ret, pushed, popped>>

PopFront(t) ==
  /\ tasks_ # <<>>
  /\ Move(t, "pop_check", "pop_erase")
  /\ ret' = [ret EXCEPT ![t] = Front(tasks_)]
  /\ UNCHANGED <<tasks_, tasks_mutex_, cond_, pushed, popped>>

PopErase(t) ==
  /\ Move(t, "pop_erase", "idle")
  /\ tasks_' = RestOf(tasks_)
  /\ popped' = Append(popped, ret[t])
  /\ Unlock
  /\ UNCHANGED <<cond_, ret, pushed>>

(* void flush() *)
FlushLock(t) == Enter(t, "flush_notify", NoTask)

NotifyAll(t) ==
  /\ at[t] = "flush_notify"
  /\ at' = [u \in Thread |-> IF u = t THEN "idle"
                             ELSE IF u \in cond_ THEN "woken" ELSE at[u]]
  /\ cond_' = {}
  /\ Unlock
  /\ UNCHANGED <<tasks_, ret, pushed, popped>>

-----------------------------------------------------------------------------
\* A thread starts a call ...
Call(t) ==
  \/ \E task \in Task : PushLock(t, task)
  \/ TryPopLock(t)
  \/ PopLock(t)
  \/ FlushLock(t)

\* ... and goes on with the one it has started.
Continue(t) ==
  \/ PushBack(t) \/ NotifyOne(t)
  \/ TryTake(t)
  \/ PopWait(t) \/ PopRelock(t) \/ PopFront(t) \/ PopErase(t)
  \/ NotifyAll(t)

Next == \E t \in Thread : Call(t) \/ Continue(t) \/ SpuriousWakeup(t)

Spec == Init /\ [][Next]_vars

-----------------------------------------------------------------------------
\* Types of the variables of work_queue and of the calls in progress.
TypeOK ==
  /\ tasks_ \in Seq(Task)
  /\ tasks_mutex_ \in Thread \cup {NoThread}
  /\ cond_ \in SUBSET Thread
  /\ at  \in [Thread -> Place]
  /\ ret \in [Thread -> Task \cup {NoTask}]
  /\ pushed \in Seq(Task)
  /\ popped \in Seq(Task)
  /\ \A t \in Thread : at[t] = "push_back" => ret[t] \in Task

\* A thread is between lock and unlock exactly when it holds tasks_mutex_; so
\* at most one thread is, and nobody sleeps or notifies one with it held.
MutexHeldInside ==
  \A t \in Thread : at[t] \in Critical <=> tasks_mutex_ = t

\* The wait set is the set of threads asleep: a notified thread leaves both.
SleepersWait == cond_ = {t \in Thread : at[t] = "asleep"}

\* pop_task() takes front() and pop_front() from one and the same state of the
\* deque, never an empty one: what it removes is what it returns, and never an
\* empty function, which its caller would run without looking at it.
FrontIsRemoved ==
  \A t \in Thread :
    at[t] = "pop_erase" => tasks_ # <<>> /\ ret[t] = Head(tasks_)

\* Every task pushed is in the deque or was popped, once, in the order of the
\* pushes: no call loses, duplicates or reorders a task.
FifoExactlyOnce == pushed = popped \o tasks_

\* Threads that owe a notify_one() for a task they stored, and threads in
\* pop_task() that will look at the deque before they sleep.
Notifiers == {t \in Thread : at[t] = "notify_one"}
Lookers   == {t \in Thread : at[t] \in {"woken", "pop_check", "pop_erase"}}

\* No wakeup is lost although notify_one() runs outside the lock: while some
\* thread sleeps, every task in the deque is matched by a notification still to
\* come or by a thread that is awake and will look at the deque.
NoLostWakeup ==
  cond_ # {} => Len(tasks_) <= Cardinality(Notifiers) + Cardinality(Lookers)

\* The call of the abstract queue that a thread at a place has made and that has
\* not taken effect: it does at push_back(), at the test of empty() or at
\* pop_front().
CallAt(place) ==
  CASE place = "push_back"    -> "push_task"
    [] place = "try_take"     -> "try_pop_task"
    [] place = "flush_notify" -> "flush"
    [] place \in {"pop_check", "asleep", "woken", "pop_erase"} -> "pop_task"
    [] OTHER -> "none"

calls   == [t \in Thread |-> CallAt(at[t])]
results == [t \in Thread |-> IF CallAt(at[t]) = "none" THEN ret[t] ELSE NoTask]

Atomic == INSTANCE TaskQueue WITH queue <- tasks_, call <- calls, result <- results

\* The calls linearize: work_queue implements the queue whose calls are atomic.
\* A try_pop_task() returns nothing only if the queue was empty at one moment
\* of the call, and a pop returns what was then at the front.
Linearizable == Atomic!Spec
=============================================================================
