---------------------------- MODULE WorkQueueProofs ----------------------------
(***************************************************************************)
(* Proofs about WorkQueue, for any set of threads and of tasks and any     *)
(* number of pushes: its safety, and that its calls linearize.             *)
(***************************************************************************)
EXTENDS WorkQueue, SequenceTheorems, FiniteSetTheorems, TLAPS

-----------------------------------------------------------------------------
(* Sequences *)

\* Moving the head of the second to the back of the first leaves the whole.
LEMMA MoveHeadToConcat ==
  ASSUME NEW S, NEW p \in Seq(S), NEW q \in Seq(S), q # <<>>
  PROVE  Append(p, Head(q)) \o Tail(q) = p \o q
<1>1. Head(q) \in S /\ Tail(q) \in Seq(S) /\ <<Head(q)>> \in Seq(S)
  BY HeadTailProperties
<1>2. Append(p, Head(q)) = p \o <<Head(q)>>
  BY <1>1, AppendIsConcat
<1>3. (p \o <<Head(q)>>) \o Tail(q) = p \o (<<Head(q)>> \o Tail(q))
  BY <1>1, ConcatAssociative
<1>4. <<Head(q)>> \o Tail(q) = q
  OBVIOUS
<1> QED BY <1>2, <1>3, <1>4

-----------------------------------------------------------------------------
(* The inductive invariant.  FifoExactlyOnce alone is not inductive: that    *)
(* pop_front() removes what front() returned needs FrontIsRemoved, which     *)
(* needs the mutex to be held from the one to the other.                     *)
IInv ==
  /\ TypeOK
  /\ MutexHeldInside
  /\ SleepersWait
  /\ FrontIsRemoved
  /\ FifoExactlyOnce

LEMMA InitIInv == Init => IInv
<1> SUFFICES ASSUME Init PROVE IInv
  OBVIOUS
<1>1. <<>> \in Seq(Task) /\ <<>> \o tasks_ = tasks_
  BY ConcatEmptySeq DEF Init
<1> QED BY <1>1, ThreadAssumption DEF Init, IInv, TypeOK, MutexHeldInside,
      SleepersWait, FrontIsRemoved, FifoExactlyOnce, Place, Critical

LEMMA EnterIInv ==
  ASSUME IInv, NEW t \in Thread, NEW arg \in Task \cup {NoTask},
         NEW place \in Critical \ {"pop_erase"}, Enter(t, place, arg),
         place = "push_back" => arg \in Task
  PROVE  IInv'
<1> USE DEF Enter, Move, Lock
<1>1. TypeOK'
  BY DEF IInv, TypeOK, Place, Critical
<1>2. MutexHeldInside'
  BY ThreadAssumption DEF IInv, TypeOK, MutexHeldInside, Critical
<1>3. SleepersWait'
  BY DEF IInv, TypeOK, SleepersWait, Critical
<1>4. FrontIsRemoved'
  BY DEF IInv, TypeOK, FrontIsRemoved
<1>5. FifoExactlyOnce'
  BY DEF IInv, FifoExactlyOnce
<1> QED BY <1>1, <1>2, <1>3, <1>4, <1>5 DEF IInv

LEMMA PushBackIInv ==
  ASSUME IInv, NEW t \in Thread, PushBack(t)
  PROVE  IInv'
<1> USE DEF PushBack, Move, Unlock
<1>1. TypeOK'
  BY DEF IInv, TypeOK, Place, Critical
<1>2. MutexHeldInside'
  BY ThreadAssumption DEF IInv, TypeOK, MutexHeldInside, Critical
<1>3. SleepersWait'
  BY DEF IInv, TypeOK, SleepersWait
<1>4. FrontIsRemoved'
  BY DEF IInv, TypeOK, FrontIsRemoved, MutexHeldInside, Critical
<1>5. FifoExactlyOnce'
  <2>1. ret[t] \in Task /\ popped \in Seq(Task) /\ tasks_ \in Seq(Task)
    BY DEF IInv, TypeOK
  <2>2. Append(popped \o tasks_, ret[t]) = popped \o Append(tasks_, ret[t])
    BY ONLY <2>1
  <2> QED BY <2>2 DEF IInv, FifoExactlyOnce
<1> QED BY <1>1, <1>2, <1>3, <1>4, <1>5 DEF IInv

LEMMA NotifyOneIInv ==
  ASSUME IInv, NEW t \in Thread, NotifyOne(t)
  PROVE  IInv'
<1> USE DEF NotifyOne
<1>1. TypeOK'
  BY DEF IInv, TypeOK, Place, Critical, SleepersWait
<1>2. MutexHeldInside'
  BY DEF IInv, TypeOK, MutexHeldInside, SleepersWait, Critical
<1>3. SleepersWait'
  BY DEF IInv, TypeOK, SleepersWait
<1>4. FrontIsRemoved'
  BY DEF IInv, TypeOK, FrontIsRemoved, SleepersWait
<1>5. FifoExactlyOnce'
  BY DEF IInv, FifoExactlyOnce
<1> QED BY <1>1, <1>2, <1>3, <1>4, <1>5 DEF IInv

LEMMA TryTakeIInv ==
  ASSUME IInv, NEW t \in Thread, TryTake(t)
  PROVE  IInv'
<1> USE DEF TryTake, TakeFront, Move, Unlock, Front, RestOf
<1>1. TypeOK'
  <2>1. CASE tasks_ = <<>>
    BY <2>1 DEF IInv, TypeOK, Place, Critical
  <2>2. CASE tasks_ # <<>>
    <3>1. /\ ret' = [ret EXCEPT ![t] = Head(tasks_)]
          /\ tasks_' = Tail(tasks_)
          /\ popped' = Append(popped, Head(tasks_))
      BY <2>2
    <3>2. Head(tasks_) \in Task /\ Tail(tasks_) \in Seq(Task)
      BY <2>2, HeadTailProperties DEF IInv, TypeOK
    <3>3. Append(popped, Head(tasks_)) \in Seq(Task)
      BY <3>2, AppendProperties DEF IInv, TypeOK
    <3> HIDE DEF Front, RestOf
    <3> QED BY <3>1, <3>2, <3>3 DEF IInv, TypeOK, Place, Critical
  <2> QED BY <2>1, <2>2
<1>2. MutexHeldInside'
  BY ThreadAssumption DEF IInv, TypeOK, MutexHeldInside, Critical
<1>3. SleepersWait'
  BY DEF IInv, TypeOK, SleepersWait
<1>4. FrontIsRemoved'
  BY DEF IInv, TypeOK, FrontIsRemoved, MutexHeldInside, Critical
<1>5. FifoExactlyOnce'
  <2>1. CASE tasks_ = <<>>
    BY <2>1 DEF IInv, FifoExactlyOnce
  <2>2. CASE tasks_ # <<>>
    <3>1. Append(popped, Head(tasks_)) \o Tail(tasks_) = popped \o tasks_
      BY <2>2, MoveHeadToConcat DEF IInv, TypeOK
    <3> QED BY <2>2, <3>1 DEF IInv, FifoExactlyOnce
  <2> QED BY <2>1, <2>2
<1> QED BY <1>1, <1>2, <1>3, <1>4, <1>5 DEF IInv

LEMMA PopWaitIInv ==
  ASSUME IInv, NEW t \in Thread, PopWait(t)
  PROVE  IInv'
<1> USE DEF PopWait, Move, Unlock
<1>1. TypeOK'
  BY DEF IInv, TypeOK, Place, Critical
<1>2. MutexHeldInside'
  BY ThreadAssumption DEF IInv, TypeOK, MutexHeldInside, Critical
<1>3. SleepersWait'
  BY DEF IInv, TypeOK, SleepersWait
<1>4. FrontIsRemoved'
  BY DEF IInv, TypeOK, FrontIsRemoved
<1>5. FifoExactlyOnce'
  BY DEF IInv, FifoExactlyOnce
<1> QED BY <1>1, <1>2, <1>3, <1>4, <1>5 DEF IInv

LEMMA SpuriousWakeupIInv ==
  ASSUME IInv, NEW t \in Thread, SpuriousWakeup(t)
  PROVE  IInv'
<1> USE DEF SpuriousWakeup, Move
<1>1. TypeOK'
  BY DEF IInv, TypeOK, Place, Critical
<1>2. MutexHeldInside'
  BY DEF IInv, TypeOK, MutexHeldInside, Critical
<1>3. SleepersWait'
  BY DEF IInv, TypeOK, SleepersWait
<1>4. FrontIsRemoved'
  BY DEF IInv, TypeOK, FrontIsRemoved
<1>5. FifoExactlyOnce'
  BY DEF IInv, FifoExactlyOnce
<1> QED BY <1>1, <1>2, <1>3, <1>4, <1>5 DEF IInv

LEMMA PopRelockIInv ==
  ASSUME IInv, NEW t \in Thread, PopRelock(t)
  PROVE  IInv'
<1> USE DEF PopRelock, Move, Lock
<1>1. TypeOK'
  BY DEF IInv, TypeOK, Place, Critical
<1>2. MutexHeldInside'
  BY ThreadAssumption DEF IInv, TypeOK, MutexHeldInside, Critical
<1>3. SleepersWait'
  BY DEF IInv, TypeOK, SleepersWait
<1>4. FrontIsRemoved'
  BY DEF IInv, TypeOK, FrontIsRemoved
<1>5. FifoExactlyOnce'
  BY DEF IInv, FifoExactlyOnce
<1> QED BY <1>1, <1>2, <1>3, <1>4, <1>5 DEF IInv

LEMMA PopFrontIInv ==
  ASSUME IInv, NEW t \in Thread, PopFront(t)
  PROVE  IInv'
<1> USE DEF PopFront, Move, Front
<1>1. TypeOK'
  BY HeadTailProperties DEF IInv, TypeOK, Place, Critical
<1>2. MutexHeldInside'
  BY DEF IInv, TypeOK, MutexHeldInside, Critical
<1>3. SleepersWait'
  BY DEF IInv, TypeOK, SleepersWait
<1>4. FrontIsRemoved'
  BY DEF IInv, TypeOK, FrontIsRemoved
<1>5. FifoExactlyOnce'
  BY DEF IInv, FifoExactlyOnce
<1> QED BY <1>1, <1>2, <1>3, <1>4, <1>5 DEF IInv

LEMMA PopEraseIInv ==
  ASSUME IInv, NEW t \in Thread, PopErase(t)
  PROVE  IInv'
<1> USE DEF PopErase, Move, Unlock, RestOf
<1>0. tasks_ # <<>> /\ ret[t] = Head(tasks_)
  BY DEF IInv, FrontIsRemoved
<1>1. TypeOK'
  BY <1>0, HeadTailProperties, AppendProperties DEF IInv, TypeOK, Place, Critical
<1>2. MutexHeldInside'
  BY ThreadAssumption DEF IInv, TypeOK, MutexHeldInside, Critical
<1>3. SleepersWait'
  BY DEF IInv, TypeOK, SleepersWait
<1>4. FrontIsRemoved'
  BY DEF IInv, TypeOK, FrontIsRemoved, MutexHeldInside, Critical
<1>5. FifoExactlyOnce'
  <2>1. Append(popped, Head(tasks_)) \o Tail(tasks_) = popped \o tasks_
    BY <1>0, MoveHeadToConcat DEF IInv, TypeOK
  <2> QED BY <1>0, <2>1 DEF IInv, FifoExactlyOnce
<1> QED BY <1>1, <1>2, <1>3, <1>4, <1>5 DEF IInv

LEMMA NotifyAllIInv ==
  ASSUME IInv, NEW t \in Thread, NotifyAll(t)
  PROVE  IInv'
<1> USE DEF NotifyAll, Unlock
<1>1. TypeOK'
  BY DEF IInv, TypeOK, Place, Critical
<1>2. MutexHeldInside'
  BY ThreadAssumption DEF IInv, TypeOK, MutexHeldInside, Critical
<1>3. SleepersWait'
  BY DEF IInv, TypeOK, SleepersWait
<1>4. FrontIsRemoved'
  BY DEF IInv, TypeOK, FrontIsRemoved, SleepersWait
<1>5. FifoExactlyOnce'
  BY DEF IInv, FifoExactlyOnce
<1> QED BY <1>1, <1>2, <1>3, <1>4, <1>5 DEF IInv

LEMMA NextIInv == IInv /\ [Next]_vars => IInv'
<1> SUFFICES ASSUME IInv, [Next]_vars PROVE IInv'
  OBVIOUS
<1>1. CASE UNCHANGED vars
  BY <1>1 DEF vars, IInv, TypeOK, MutexHeldInside, SleepersWait, FrontIsRemoved,
    FifoExactlyOnce
<1>2. ASSUME NEW t \in Thread, Call(t) PROVE IInv'
  <2>1. ASSUME NEW task \in Task, PushLock(t, task) PROVE IInv'
    BY <2>1, EnterIInv DEF PushLock, Critical
  <2>2. CASE TryPopLock(t)
    BY <2>2, EnterIInv DEF TryPopLock, Critical
  <2>3. CASE PopLock(t)
    BY <2>3, EnterIInv DEF PopLock, Critical
  <2>4. CASE FlushLock(t)
    BY <2>4, EnterIInv DEF FlushLock, Critical
  <2> QED BY <1>2, <2>1, <2>2, <2>3, <2>4 DEF Call
<1>3. ASSUME NEW t \in Thread, Continue(t) PROVE IInv'
  BY <1>3, PushBackIInv, NotifyOneIInv, TryTakeIInv, PopWaitIInv, PopRelockIInv,
    PopFrontIInv, PopEraseIInv, NotifyAllIInv DEF Continue
<1>4. ASSUME NEW t \in Thread, SpuriousWakeup(t) PROVE IInv'
  BY <1>4, SpuriousWakeupIInv
<1> QED BY <1>1, <1>2, <1>3, <1>4 DEF Next

\* The inductive invariant holds in every reachable state.
THEOREM Invariance == Spec => []IInv
<1> QED BY InitIInv, NextIInv, PTL DEF Spec

\* Types: no call ever stores or removes anything but a task.
THEOREM TypeCorrect == Spec => []TypeOK
<1>1. IInv => TypeOK
  BY DEF IInv
<1> QED BY Invariance, <1>1, PTL

\* At most one thread is between lock and unlock.
THEOREM MutualExclusion == Spec => []MutexHeldInside
<1>1. IInv => MutexHeldInside
  BY DEF IInv
<1> QED BY Invariance, <1>1, PTL

\* pop_task() removes what it returns, and returns a task.
THEOREM PopSound == Spec => []FrontIsRemoved
<1>1. IInv => FrontIsRemoved
  BY DEF IInv
<1> QED BY Invariance, <1>1, PTL

\* Every pushed task leaves the queue at most once and in the order of pushes.
THEOREM Fifo == Spec => []FifoExactlyOnce
<1>1. IInv => FifoExactlyOnce
  BY DEF IInv
<1> QED BY Invariance, <1>1, PTL

-----------------------------------------------------------------------------
(* No lost wakeup.  Given IInv the property is inductive: a step that takes  *)
(* a notifier or a looker away brings another, or takes a task with it, or   *)
(* leaves no thread asleep.                                                  *)

LEMMA AwakeFinite ==
  /\ IsFiniteSet(Notifiers) /\ IsFiniteSet(Lookers)
  /\ Cardinality(Notifiers) \in Nat /\ Cardinality(Lookers) \in Nat
<1>1. Notifiers \in SUBSET Thread /\ Lookers \in SUBSET Thread
  BY DEF Notifiers, Lookers
<1>2. IsFiniteSet(Notifiers) /\ IsFiniteSet(Lookers)
  BY <1>1, ThreadAssumption, FS_Subset
<1> QED BY <1>2, FS_CardinalityType

LEMMA EnterNoLostWakeup ==
  ASSUME IInv, NoLostWakeup, NEW t \in Thread, NEW arg,
         NEW place \in Critical \ {"pop_erase"}, Enter(t, place, arg)
  PROVE  NoLostWakeup'
<1> USE DEF Enter, Move
<1>1. Notifiers' = Notifiers
  BY DEF IInv, TypeOK, Notifiers, Critical
<1>2. Lookers' = Lookers \/ Lookers' = Lookers \cup {t}
  BY DEF IInv, TypeOK, Lookers, Critical
<1>3. Cardinality(Lookers) <= Cardinality(Lookers') /\ Cardinality(Lookers') \in Nat
  <2>1. Cardinality(Lookers \cup {t}) \in {Cardinality(Lookers), Cardinality(Lookers) + 1}
    BY ONLY AwakeFinite, FS_AddElement
  <2>2. Cardinality(Lookers') \in {Cardinality(Lookers), Cardinality(Lookers) + 1}
    BY ONLY <1>2, <2>1
  <2> QED BY ONLY <2>2, AwakeFinite
<1>4. Len(tasks_) \in Nat /\ tasks_' = tasks_ /\ cond_' = cond_
  BY LenProperties DEF IInv, TypeOK
<1> HIDE DEF Enter, Move
<1> QED BY <1>1, <1>3, <1>4, AwakeFinite DEF NoLostWakeup

LEMMA PushBackNoLostWakeup ==
  ASSUME IInv, NoLostWakeup, NEW t \in Thread, PushBack(t)
  PROVE  NoLostWakeup'
<1> USE DEF PushBack, Move
<1>1. Notifiers' = Notifiers \cup {t} /\ t \notin Notifiers
  BY DEF IInv, TypeOK, Notifiers
<1>2. Lookers' = Lookers
  BY DEF IInv, TypeOK, Lookers
<1>3. Cardinality(Notifiers') = Cardinality(Notifiers) + 1
  BY <1>1, AwakeFinite, FS_AddElement
<1>4. Len(tasks_') = Len(tasks_) + 1 /\ Len(tasks_) \in Nat
  BY DEF IInv, TypeOK
<1> QED BY <1>2, <1>3, <1>4, AwakeFinite DEF NoLostWakeup

LEMMA NotifyOneNoLostWakeup ==
  ASSUME IInv, NoLostWakeup, NEW t \in Thread, NotifyOne(t)
  PROVE  NoLostWakeup'
<1>1. CASE cond_ = {}
  BY <1>1 DEF NotifyOne, NoLostWakeup
<1>2. CASE cond_ # {}
  <2>1. PICK w \in cond_ :
          /\ at' = [at EXCEPT ![t] = "idle", ![w] = "woken"]
          /\ UNCHANGED tasks_
    BY <1>2 DEF NotifyOne
  <2>2. at[t] = "notify_one" /\ at[w] = "asleep" /\ w \in Thread
    BY DEF NotifyOne, IInv, SleepersWait
  <2>3. Notifiers' = Notifiers \ {t} /\ t \in Notifiers
    BY <2>1, <2>2 DEF IInv, TypeOK, Notifiers
  <2>4. Lookers' = Lookers \cup {w} /\ w \notin Lookers
    BY <2>1, <2>2 DEF IInv, TypeOK, Lookers
  <2>5. /\ Cardinality(Notifiers') = Cardinality(Notifiers) - 1
        /\ Cardinality(Lookers') = Cardinality(Lookers) + 1
    BY <2>3, <2>4, AwakeFinite, FS_AddElement, FS_RemoveElement
  <2> QED BY <1>2, <2>1, <2>5, AwakeFinite, LenProperties DEF IInv, TypeOK, NoLostWakeup
<1> QED BY <1>1, <1>2

LEMMA TryTakeNoLostWakeup ==
  ASSUME IInv, NoLostWakeup, NEW t \in Thread, TryTake(t)
  PROVE  NoLostWakeup'
<1>1. Notifiers' = Notifiers /\ Lookers' = Lookers
  BY DEF TryTake, Move, IInv, TypeOK, Notifiers, Lookers
<1>2. Len(tasks_') <= Len(tasks_) /\ Len(tasks_') \in Nat /\ Len(tasks_) \in Nat
  <2>1. CASE tasks_ = <<>>
    BY <2>1, LenProperties DEF TryTake, IInv, TypeOK
  <2>2. CASE tasks_ # <<>>
    <3>1. tasks_' = Tail(tasks_) /\ tasks_ \in Seq(Task)
      BY <2>2 DEF TryTake, TakeFront, RestOf, IInv, TypeOK
    <3> QED BY ONLY <2>2, <3>1, HeadTailProperties, LenProperties
  <2> QED BY <2>1, <2>2
<1> QED BY <1>1, <1>2, AwakeFinite DEF TryTake, NoLostWakeup

LEMMA PopWaitNoLostWakeup ==
  ASSUME IInv, NoLostWakeup, NEW t \in Thread, PopWait(t)
  PROVE  NoLostWakeup'
<1>1. Len(tasks_') = 0
  BY DEF PopWait
<1>2. Cardinality(Notifiers') \in Nat /\ Cardinality(Lookers') \in Nat
  <2>1. Notifiers' \in SUBSET Thread /\ Lookers' \in SUBSET Thread
    BY DEF Notifiers, Lookers
  <2>2. IsFiniteSet(Notifiers') /\ IsFiniteSet(Lookers')
    BY <2>1, ThreadAssumption, FS_Subset
  <2> QED BY <2>2, FS_CardinalityType
<1> QED BY <1>1, <1>2 DEF NoLostWakeup

LEMMA SpuriousWakeupNoLostWakeup ==
  ASSUME IInv, NoLostWakeup, NEW t \in Thread, SpuriousWakeup(t)
  PROVE  NoLostWakeup'
<1> USE DEF SpuriousWakeup, Move
<1>1. Notifiers' = Notifiers /\ Lookers' = Lookers \cup {t} /\ t \notin Lookers
  BY DEF IInv, TypeOK, Notifiers, Lookers
<1>2. Cardinality(Lookers') = Cardinality(Lookers) + 1
  BY <1>1, AwakeFinite, FS_AddElement
<1> QED BY <1>1, <1>2, AwakeFinite, LenProperties DEF IInv, TypeOK, NoLostWakeup

LEMMA PopRelockOrFrontNoLostWakeup ==
  ASSUME IInv, NoLostWakeup, NEW t \in Thread, PopRelock(t) \/ PopFront(t)
  PROVE  NoLostWakeup'
<1>1. Notifiers' = Notifiers /\ Lookers' = Lookers
  BY DEF PopRelock, PopFront, Move, IInv, TypeOK, Notifiers, Lookers
<1> QED BY <1>1 DEF PopRelock, PopFront, NoLostWakeup

LEMMA PopEraseNoLostWakeup ==
  ASSUME IInv, NoLostWakeup, NEW t \in Thread, PopErase(t)
  PROVE  NoLostWakeup'
<1> USE DEF PopErase, Move
<1>1. Notifiers' = Notifiers /\ Lookers' = Lookers \ {t} /\ t \in Lookers
  BY DEF IInv, TypeOK, Notifiers, Lookers
<1>2. Cardinality(Lookers') = Cardinality(Lookers) - 1
  BY <1>1, AwakeFinite, FS_RemoveElement
<1>3. tasks_ # <<>> /\ tasks_' = Tail(tasks_)
  BY DEF IInv, FrontIsRemoved, RestOf
<1>4. Len(tasks_') = Len(tasks_) - 1 /\ Len(tasks_) \in Nat
  BY <1>3, HeadTailProperties, LenProperties DEF IInv, TypeOK
<1> QED BY <1>1, <1>2, <1>4, AwakeFinite DEF NoLostWakeup

\* No wakeup is lost, whatever the threads and however many pushes: a thread
\* sleeps only while every task stored is spoken for.
THEOREM WakeupsSuffice == Spec => []NoLostWakeup
<1>1. Init => NoLostWakeup
  BY DEF Init, NoLostWakeup
<1>2. IInv /\ NoLostWakeup /\ [Next]_vars => NoLostWakeup'
  <2> SUFFICES ASSUME IInv, NoLostWakeup, [Next]_vars PROVE NoLostWakeup'
    OBVIOUS
  <2>1. CASE UNCHANGED vars
    BY <2>1 DEF vars, NoLostWakeup, Notifiers, Lookers
  <2>2. ASSUME NEW t \in Thread, Call(t) PROVE NoLostWakeup'
    BY <2>2, EnterNoLostWakeup DEF Call, PushLock, TryPopLock, PopLock, FlushLock,
      Critical
  <2>3. ASSUME NEW t \in Thread, Continue(t) PROVE NoLostWakeup'
    <3>1. CASE NotifyAll(t)
      BY <3>1 DEF NotifyAll, NoLostWakeup
    <3> QED BY <2>3, <3>1, PushBackNoLostWakeup, NotifyOneNoLostWakeup,
          TryTakeNoLostWakeup, PopWaitNoLostWakeup, PopRelockOrFrontNoLostWakeup,
          PopEraseNoLostWakeup DEF Continue
  <2>4. ASSUME NEW t \in Thread, SpuriousWakeup(t) PROVE NoLostWakeup'
    BY <2>4, SpuriousWakeupNoLostWakeup
  <2> QED BY <2>1, <2>2, <2>3, <2>4 DEF Next
<1> QED BY <1>1, <1>2, Invariance, PTL DEF Spec

-----------------------------------------------------------------------------
(* WorkQueue implements TaskQueue: each step of work_queue is a step of the  *)
(* queue whose calls are atomic, or changes nothing in it.                   *)

\* A call that returns nothing of its own has not written the return value.
NothingReturnedYet ==
  \A t \in Thread : at[t] \in {"try_take", "flush_notify"} => ret[t] = NoTask

LEMMA NothingReturned == Spec => []NothingReturnedYet
<1>1. Init => NothingReturnedYet
  BY DEF Init, NothingReturnedYet
<1>2. IInv /\ NothingReturnedYet /\ [Next]_vars => NothingReturnedYet'
  <2> SUFFICES ASSUME IInv, NothingReturnedYet, [Next]_vars
               PROVE  NothingReturnedYet'
    OBVIOUS
  <2> USE DEF NothingReturnedYet, IInv, TypeOK, Move
  <2>1. CASE UNCHANGED vars
    BY <2>1 DEF vars
  <2>2. ASSUME NEW t \in Thread, Call(t) PROVE NothingReturnedYet'
    BY <2>2 DEF Call, PushLock, TryPopLock, PopLock, FlushLock, Enter
  <2>3. ASSUME NEW t \in Thread, Continue(t) PROVE NothingReturnedYet'
    <3>1. CASE PushBack(t) \/ TryTake(t) \/ PopWait(t) \/ PopRelock(t)
      BY <3>1 DEF PushBack, TryTake, TakeFront, PopWait, PopRelock
    <3>2. CASE PopFront(t) \/ PopErase(t)
      BY <3>2 DEF PopFront, PopErase
    <3>3. CASE NotifyOne(t)
      BY <3>3 DEF NotifyOne
    <3>4. CASE NotifyAll(t)
      BY <3>4 DEF NotifyAll
    <3> QED BY <2>3, <3>1, <3>2, <3>3, <3>4 DEF Continue
  <2>4. ASSUME NEW t \in Thread, SpuriousWakeup(t) PROVE NothingReturnedYet'
    BY <2>4 DEF SpuriousWakeup
  <2> QED BY <2>1, <2>2, <2>3, <2>4 DEF Next
<1> QED BY <1>1, <1>2, Invariance, PTL DEF Spec

-----------------------------------------------------------------------------
LEMMA InitRefines == Init => Atomic!Init
BY DEF Init, Atomic!Init, CallAt, calls, results

\* A step that moves thread t alone changes the call and the result of t alone.
LEMMA OneMoves ==
  ASSUME TypeOK, NEW t \in Thread, NEW place \in Place, NEW r,
         at' = [at EXCEPT ![t] = place], ret' = [ret EXCEPT ![t] = r]
  PROVE  /\ calls' = [calls EXCEPT ![t] = CallAt(place)]
         /\ results' = [results EXCEPT ![t] = IF CallAt(place) = "none" THEN r ELSE NoTask]
<1> HIDE DEF CallAt
<1>1. \A u \in Thread : at'[u] = IF u = t THEN place ELSE at[u]
  BY DEF TypeOK
<1>2. \A u \in Thread : ret'[u] = IF u = t THEN r ELSE ret[u]
  BY DEF TypeOK
<1>3. calls' = [calls EXCEPT ![t] = CallAt(place)]
  <2>1. calls' = [u \in Thread |-> CallAt(at'[u])]
    BY DEF calls
  <2>2. \A u \in Thread : CallAt(at'[u]) = IF u = t THEN CallAt(place) ELSE CallAt(at[u])
    <3> TAKE u \in Thread
    <3>1. CASE u = t
      BY <1>1, <3>1
    <3>2. CASE u # t
      BY <1>1, <3>2
    <3> QED BY <3>1, <3>2
  <2>3. calls' = [u \in Thread |-> IF u = t THEN CallAt(place) ELSE CallAt(at[u])]
    BY <2>1, <2>2
  <2> QED BY <2>3 DEF calls
<1>4. results' = [results EXCEPT ![t] = IF CallAt(place) = "none" THEN r ELSE NoTask]
  <2>1. results' = [u \in Thread |-> IF CallAt(at'[u]) = "none" THEN ret'[u] ELSE NoTask]
    BY DEF results
  <2>2. ASSUME NEW u \in Thread
        PROVE  (IF CallAt(at'[u]) = "none" THEN ret'[u] ELSE NoTask)
                 = IF u = t THEN IF CallAt(place) = "none" THEN r ELSE NoTask
                            ELSE results[u]
    <3>1. CASE u = t
      BY <1>1, <1>2, <3>1
    <3>2. CASE u # t
      BY <1>1, <1>2, <3>2 DEF results
    <3> QED BY <3>1, <3>2
  <2> DEFINE mine == IF CallAt(place) = "none" THEN r ELSE NoTask
  <2> HIDE DEF mine
  <2>3. results' = [u \in Thread |-> IF u = t THEN mine ELSE results[u]]
    BY <2>1, <2>2 DEF mine
  <2> QED BY <2>3 DEF results, mine
<1> QED BY <1>3, <1>4

LEMMA EnterRefines ==
  ASSUME TypeOK, NEW t \in Thread, NEW arg \in Task \cup {NoTask},
         NEW place \in Critical \ {"pop_erase"}, Enter(t, place, arg)
  PROVE  Atomic!Next
<1>1. at[t] = "idle" /\ at' = [at EXCEPT ![t] = place] /\ ret' = [ret EXCEPT ![t] = arg]
  BY DEF Enter, Move
<1>2. CallAt(place) \in Atomic!Calls /\ CallAt(place) # "none"
  BY DEF CallAt, Critical, Atomic!Calls
<1>3. calls[t] = "none"
  BY <1>1 DEF calls, CallAt
<1>4. /\ calls' = [calls EXCEPT ![t] = CallAt(place)]
      /\ results' = [results EXCEPT ![t] = NoTask]
  BY <1>1, <1>2, OneMoves DEF Place
<1>5. Atomic!Invoke(t, CallAt(place))
  BY <1>3, <1>4 DEF Atomic!Invoke, Enter
<1> QED BY <1>2, <1>5 DEF Atomic!Next

LEMMA PushBackRefines ==
  ASSUME IInv, NEW t \in Thread, PushBack(t)
  PROVE  Atomic!Next
<1>1. at[t] = "push_back" /\ ret[t] \in Task /\ TypeOK
  BY DEF PushBack, Move, IInv, TypeOK
<1>2. /\ at' = [at EXCEPT ![t] = "notify_one"]
      /\ ret' = [ret EXCEPT ![t] = NoTask]
      /\ tasks_' = Append(tasks_, ret[t])
  BY DEF PushBack, Move
<1>3. calls[t] = "push_task" /\ CallAt("notify_one") = "none"
  BY <1>1 DEF calls, CallAt
<1>4. /\ calls' = [calls EXCEPT ![t] = "none"]
      /\ results' = [results EXCEPT ![t] = NoTask]
  BY <1>1, <1>2, <1>3, OneMoves DEF Place
<1>5. Atomic!Push(t, ret[t])
  BY <1>2, <1>3, <1>4 DEF Atomic!Push, Atomic!Effect
<1> QED BY <1>1, <1>5 DEF Atomic!Next

LEMMA TryTakeRefines ==
  ASSUME IInv, NothingReturnedYet, NEW t \in Thread, TryTake(t)
  PROVE  Atomic!Next
<1>1. at[t] = "try_take" /\ ret[t] = NoTask /\ TypeOK
  BY DEF TryTake, Move, IInv, NothingReturnedYet
<1>2. at' = [at EXCEPT ![t] = "idle"]
  BY DEF TryTake, Move
<1>3. calls[t] = "try_pop_task" /\ CallAt("idle") = "none"
  BY <1>1 DEF calls, CallAt
<1>4. CASE tasks_ = <<>>
  <2>1. ret' = [ret EXCEPT ![t] = NoTask] /\ tasks_' = tasks_
    BY <1>1, <1>4 DEF TryTake, TypeOK
  <2>2. /\ calls' = [calls EXCEPT ![t] = "none"]
        /\ results' = [results EXCEPT ![t] = NoTask]
    BY <1>1, <1>2, <1>3, <2>1, OneMoves DEF Place
  <2>3. Atomic!TryPopEmpty(t)
    BY <1>3, <1>4, <2>1, <2>2 DEF Atomic!TryPopEmpty, Atomic!Effect
  <2> QED BY <2>3 DEF Atomic!Next
<1>5. CASE tasks_ # <<>>
  <2>1. ret' = [ret EXCEPT ![t] = Head(tasks_)] /\ tasks_' = Tail(tasks_)
    BY <1>5 DEF TryTake, TakeFront, Front, RestOf
  <2>2. /\ calls' = [calls EXCEPT ![t] = "none"]
        /\ results' = [results EXCEPT ![t] = Head(tasks_)]
    BY <1>1, <1>2, <1>3, <2>1, OneMoves DEF Place
  <2>3. Atomic!Pop(t)
    BY <1>3, <1>5, <2>1, <2>2 DEF Atomic!Pop, Atomic!Effect
  <2> QED BY <2>3 DEF Atomic!Next
<1> QED BY <1>4, <1>5

LEMMA PopEraseRefines ==
  ASSUME IInv, NEW t \in Thread, PopErase(t)
  PROVE  Atomic!Next
<1>1. at[t] = "pop_erase" /\ tasks_ # <<>> /\ ret[t] = Head(tasks_) /\ TypeOK
  BY DEF PopErase, Move, IInv, FrontIsRemoved
<1>2. at' = [at EXCEPT ![t] = "idle"] /\ tasks_' = Tail(tasks_)
  BY <1>1 DEF PopErase, Move, RestOf
<1>3. ret' = [ret EXCEPT ![t] = Head(tasks_)]
  BY <1>1 DEF PopErase, TypeOK
<1>4. calls[t] = "pop_task" /\ CallAt("idle") = "none"
  BY <1>1 DEF calls, CallAt
<1>5. /\ calls' = [calls EXCEPT ![t] = "none"]
      /\ results' = [results EXCEPT ![t] = Head(tasks_)]
  BY <1>1, <1>2, <1>3, <1>4, OneMoves DEF Place
<1>6. Atomic!Pop(t)
  BY <1>1, <1>2, <1>4, <1>5 DEF Atomic!Pop, Atomic!Effect
<1> QED BY <1>6 DEF Atomic!Next

\* A step that leaves every thread in the call it is in, and the results of the
\* threads that are in none, is a stuttering step of TaskQueue.
LEMMA Stutters ==
  ASSUME UNCHANGED tasks_,
         \A u \in Thread : CallAt(at'[u]) = CallAt(at[u]),
         \A u \in Thread : CallAt(at[u]) = "none" => ret'[u] = ret[u]
  PROVE  UNCHANGED Atomic!vars
<1> HIDE DEF CallAt
<1>1. calls' = calls
  BY DEF calls
<1>2. results' = results
  BY DEF results
<1> QED BY <1>1, <1>2 DEF Atomic!vars

LEMMA PopStepStutters ==
  ASSUME IInv, NEW t \in Thread, PopWait(t) \/ PopRelock(t) \/ PopFront(t)
  PROVE  UNCHANGED Atomic!vars
<1>1. UNCHANGED tasks_
  BY DEF PopWait, PopRelock, PopFront
<1>2. \A u \in Thread : CallAt(at'[u]) = CallAt(at[u])
  BY DEF IInv, TypeOK, PopWait, PopRelock, PopFront, Move, CallAt
<1>3. \A u \in Thread : CallAt(at[u]) = "none" => ret'[u] = ret[u]
  BY DEF IInv, TypeOK, PopWait, PopRelock, PopFront, Move, CallAt
<1> QED BY <1>1, <1>2, <1>3, Stutters

LEMMA SpuriousWakeupStutters ==
  ASSUME IInv, NEW t \in Thread, SpuriousWakeup(t)
  PROVE  UNCHANGED Atomic!vars
<1>1. UNCHANGED <<tasks_, ret>>
  BY DEF SpuriousWakeup
<1>2. \A u \in Thread : CallAt(at'[u]) = CallAt(at[u])
  BY DEF IInv, TypeOK, SpuriousWakeup, Move, CallAt
<1> QED BY <1>1, <1>2, Stutters

LEMMA NotifyOneStutters ==
  ASSUME IInv, NEW t \in Thread, NotifyOne(t)
  PROVE  UNCHANGED Atomic!vars
<1>1. UNCHANGED <<tasks_, ret>>
  BY DEF NotifyOne
<1>2. \A u \in Thread : CallAt(at'[u]) = CallAt(at[u])
  BY DEF IInv, TypeOK, SleepersWait, NotifyOne, CallAt
<1> QED BY <1>1, <1>2, Stutters

LEMMA NotifyAllRefines ==
  ASSUME IInv, NothingReturnedYet, NEW t \in Thread, NotifyAll(t)
  PROVE  Atomic!Next
<1>1. at[t] = "flush_notify" /\ ret[t] = NoTask /\ UNCHANGED <<tasks_, ret>>
  BY DEF NotifyAll, NothingReturnedYet
<1>2. \A u \in Thread : CallAt(at'[u]) = IF u = t THEN "none" ELSE CallAt(at[u])
  BY DEF NotifyAll, IInv, TypeOK, SleepersWait, CallAt
<1>3. calls[t] = "flush"
  BY <1>1 DEF calls, CallAt
<1> HIDE DEF CallAt
<1>4. calls' = [calls EXCEPT ![t] = "none"]
  BY <1>2 DEF calls
<1>5. results' = [results EXCEPT ![t] = NoTask]
  BY <1>1, <1>2 DEF results
<1>6. Atomic!Flush(t)
  BY <1>1, <1>3, <1>4, <1>5 DEF Atomic!Flush, Atomic!Effect
<1> QED BY <1>6 DEF Atomic!Next

LEMMA NextRefines ==
  IInv /\ NothingReturnedYet /\ [Next]_vars => [Atomic!Next]_(Atomic!vars)
<1> SUFFICES ASSUME IInv, NothingReturnedYet, [Next]_vars
             PROVE  Atomic!Next \/ UNCHANGED Atomic!vars
  OBVIOUS
<1>1. CASE UNCHANGED vars
  BY <1>1, Stutters DEF vars
<1>2. ASSUME NEW t \in Thread, Call(t) PROVE Atomic!Next
  BY <1>2, EnterRefines DEF Call, PushLock, TryPopLock, PopLock, FlushLock,
    Critical, IInv
<1>3. ASSUME NEW t \in Thread, Continue(t)
      PROVE  Atomic!Next \/ UNCHANGED Atomic!vars
  BY <1>3, PushBackRefines, NotifyOneStutters, TryTakeRefines, PopStepStutters,
    PopEraseRefines, NotifyAllRefines DEF Continue
<1>4. ASSUME NEW t \in Thread, SpuriousWakeup(t) PROVE UNCHANGED Atomic!vars
  BY <1>4, SpuriousWakeupStutters
<1> QED BY <1>1, <1>2, <1>3, <1>4 DEF Next

\* work_queue linearizes: whatever the interleaving, its calls return what the
\* calls of a queue with atomic operations return.
THEOREM Linearization == Spec => Linearizable
<1> QED BY InitRefines, NextRefines, Invariance, NothingReturned, PTL
      DEF Spec, Linearizable, Atomic!Spec
===============================================================================
