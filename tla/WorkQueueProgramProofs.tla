------------------------- MODULE WorkQueueProgramProofs -------------------------
(***************************************************************************)
(* Proofs about WorkQueueProgram, for any number of pushers and as many    *)
(* poppers, any number of rounds and any tasks: no assert fails, no empty  *)
(* function runs, and every task popped runs once.                         *)
(***************************************************************************)
EXTENDS WorkQueueProgram, WorkQueueProofs

-----------------------------------------------------------------------------
(* The inductive invariant.  That the queue is empty when main() looks is a  *)
(* matter of counting: as many calls of pop_task() as of push_task() have    *)
(* taken effect by then, because every thread that makes them is joined.     *)

MainPlace == {"join_pushers", "flush", "join_poppers", "try_empty", "assert_empty",
              "push", "try_full", "assert_full", "done"}

Counters ==
  /\ round \in [Workers -> 0..tests_tasks_count]
  /\ holding \in SUBSET Popper
  /\ runs \in Nat /\ spurious \in 0..MaxSpurious
  /\ main_at \in MainPlace

\* Where a thread may be, and what it then has in hand.
PushersPush ==
  \A t \in Pusher :
    /\ at[t] \in {"idle", "push_back", "notify_one"}
    /\ at[t] # "idle" => round[t] > 0

PoppersPop ==
  \A t \in Popper :
    /\ at[t] \in {"idle", "pop_check", "asleep", "woken", "pop_erase"}
    /\ at[t] # "idle" => t \in holding /\ round[t] > 0
    /\ at[t] = "idle" /\ t \in holding => ret[t] \in Task

MainIsAt ==
  /\ main_at \in {"join_pushers", "flush", "try_empty", "push"} =>
       at[Main] = "idle" /\ ret[Main] = NoTask
  /\ main_at = "join_poppers" =>
       at[Main] \in {"flush_notify", "idle"} /\ ret[Main] = NoTask
  /\ main_at = "assert_empty" =>
       at[Main] \in {"try_take", "idle"} /\ ret[Main] = NoTask
  /\ main_at = "try_full" =>
       /\ at[Main] \in {"push_back", "notify_one", "idle"}
       /\ at[Main] # "push_back" => ret[Main] = NoTask
  /\ main_at = "assert_full" =>
       \/ at[Main] = "try_take" /\ ret[Main] = NoTask
       \/ at[Main] = "idle" /\ ret[Main] \in Task
  /\ main_at = "done" => at[Main] = "idle" /\ ret[Main] \in Task

PoppersJoined == main_at \notin {"join_pushers", "flush", "join_poppers"}

Joined ==
  /\ main_at # "join_pushers" => \A t \in Pusher : Finished(t)
  /\ PoppersJoined => \A t \in Popper : Finished(t)

\* The calls that have taken effect: the pairs <<t, i>> for t's i-th call.
UpTo(S, f) == {p \in S \X (1..tests_tasks_count) : p[2] <= f[p[1]]}

pushes == [t \in Pusher |-> IF at[t] = "push_back" THEN round[t] - 1 ELSE round[t]]
pops   == [t \in Popper |-> IF at[t] = "idle" THEN round[t] ELSE round[t] - 1]

MainPushed ==
  \/ main_at = "try_full" /\ at[Main] # "push_back"
  \/ main_at \in {"assert_full", "done"}
MainPopped == main_at = "done" \/ (main_at = "assert_full" /\ at[Main] = "idle")

OfMain(has) == IF has THEN 1 ELSE 0

PushesCounted == Len(pushed) = Cardinality(UpTo(Pusher, pushes)) + OfMain(MainPushed)
PopsCounted   == Len(popped) = Cardinality(UpTo(Popper, pops)) + OfMain(MainPopped)

\* EveryTaskRuns, with its parts named.
ToRun     == {t \in Popper : t \in holding /\ Idle(t)}
MainHolds == ret[Main] # NoTask /\ Idle(Main)
RunsCounted == Len(popped) = runs + Cardinality(ToRun) + OfMain(MainHolds)

Places == Counters /\ PushersPush /\ PoppersPop /\ MainIsAt /\ Joined
Counts == PushesCounted /\ PopsCounted /\ RunsCounted
PInv   == Places /\ Counts

LEMMA Threads ==
  /\ Pusher \subseteq Thread /\ Popper \subseteq Thread /\ Main \in Thread
  /\ Main \notin Pusher /\ Main \notin Popper /\ Pusher \cap Popper = {}
  /\ Thread = Pusher \cup Popper \cup {Main} /\ Workers = Pusher \cup Popper
  /\ tests_tasks_count \in Nat
BY ProgramAssumption DEF Workers

LEMMA SetsAreFinite ==
  /\ IsFiniteSet(Pusher) /\ IsFiniteSet(Popper) /\ IsFiniteSet(ToRun)
  /\ Cardinality(Pusher) \in Nat /\ Cardinality(Popper) \in Nat
  /\ Cardinality(ToRun) \in Nat
<1>1. ToRun \in SUBSET Popper
  BY DEF ToRun
<1> QED BY <1>1, Threads, ThreadAssumption, FS_Subset, FS_CardinalityType

\* The calls of S in the first so many rounds are finitely many.
LEMMA UpToIsFinite ==
  ASSUME NEW S, IsFiniteSet(S), NEW f
  PROVE  /\ IsFiniteSet(UpTo(S, f)) /\ Cardinality(UpTo(S, f)) \in Nat
         /\ Cardinality(UpTo(S, f)) <= Cardinality(S) * tests_tasks_count
<1>1. /\ IsFiniteSet(1..tests_tasks_count)
      /\ Cardinality(1..tests_tasks_count) = tests_tasks_count
  BY Threads, FS_Interval
<1>2. /\ IsFiniteSet(S \X (1..tests_tasks_count))
      /\ Cardinality(S \X (1..tests_tasks_count)) = Cardinality(S) * tests_tasks_count
  BY <1>1, FS_Product
<1>3. UpTo(S, f) \in SUBSET (S \X (1..tests_tasks_count))
  BY DEF UpTo
<1> QED BY <1>2, <1>3, FS_Subset, FS_CardinalityType

\* When every thread has made all its calls, each has made tests_tasks_count.
LEMMA AllUpTo ==
  ASSUME NEW S, IsFiniteSet(S), NEW f, \A t \in S : f[t] = tests_tasks_count
  PROVE  Cardinality(UpTo(S, f)) = Cardinality(S) * tests_tasks_count
<1>1. UpTo(S, f) = S \X (1..tests_tasks_count)
  BY Threads DEF UpTo
<1>2. /\ IsFiniteSet(1..tests_tasks_count)
      /\ Cardinality(1..tests_tasks_count) = tests_tasks_count
  BY Threads, FS_Interval
<1> QED BY <1>1, <1>2, FS_Product

\* One call more of one thread.
LEMMA OneCallMore ==
  ASSUME NEW S, IsFiniteSet(S), NEW f \in [S -> Int], NEW g \in [S -> Int],
         NEW t \in S, f[t] \in 0..tests_tasks_count-1,
         g[t] = f[t] + 1, \A u \in S \ {t} : g[u] = f[u]
  PROVE  Cardinality(UpTo(S, g)) = Cardinality(UpTo(S, f)) + 1
<1>1. <<t, f[t] + 1>> \notin UpTo(S, f)
  BY DEF UpTo
<1>2. UpTo(S, g) = UpTo(S, f) \cup {<<t, f[t] + 1>>}
  <2>1. ASSUME NEW p \in S \X (1..tests_tasks_count)
        PROVE  p[2] <= g[p[1]] <=> p[2] <= f[p[1]] \/ p = <<t, f[t] + 1>>
    <3>1. PICK u \in S, i \in 1..tests_tasks_count : p = <<u, i>>
      OBVIOUS
    <3>2. i <= g[u] <=> i <= f[u] \/ (u = t /\ i = f[t] + 1)
      BY Threads
    <3> QED BY <3>1, <3>2
  <2>2. <<t, f[t] + 1>> \in S \X (1..tests_tasks_count)
    BY Threads
  <2> QED BY <2>1, <2>2 DEF UpTo
<1> QED BY <1>1, <1>2, UpToIsFinite, FS_AddElement

-----------------------------------------------------------------------------
(* Steps that no counter sees. *)
Quiet ==
  /\ Len(pushed') = Len(pushed) /\ Len(popped') = Len(popped) /\ runs' = runs
  /\ pushes' = pushes /\ pops' = pops /\ ToRun' = ToRun
  /\ MainPushed' <=> MainPushed
  /\ MainPopped' <=> MainPopped
  /\ MainHolds' <=> MainHolds

LEMMA QuietCounts ==
  ASSUME Counts, Quiet
  PROVE  Counts'
BY DEF Counts, Quiet, PushesCounted, PopsCounted, RunsCounted, OfMain

-----------------------------------------------------------------------------
(* pusher() and popper_sync() *)

LEMMA PusherLoopPInv ==
  ASSUME IInv, PInv, NEW t \in Pusher, PusherLoop(t)
  PROVE  PInv'
<1>1. PICK some_task \in Task : PushLock(t, some_task)
  BY DEF PusherLoop
<1> USE <1>1, Threads DEF PusherLoop, PushLock, Enter, Move, IInv, TypeOK, PInv, Places
<1>2. Counters'
  BY DEF Counters
<1>3. PushersPush'
  BY DEF Counters, PushersPush
<1>4. PoppersPop'
  BY DEF PoppersPop
<1>5. MainIsAt'
  BY DEF MainIsAt
<1>6. Joined'
  BY DEF Joined, Finished, Idle, PoppersJoined, Counters
<1>7. Quiet
  <2>1. pushes' = pushes
    BY DEF pushes, Counters
  <2>2. pops' = pops
    BY DEF pops, Counters
  <2>3. ToRun' = ToRun
    BY DEF ToRun, Idle
  <2> QED BY <2>1, <2>2, <2>3
        DEF Quiet, MainPushed, MainPopped, MainHolds, Idle
<1> QED BY <1>2, <1>3, <1>4, <1>5, <1>6, <1>7, QuietCounts

LEMMA PopperLoopPInv ==
  ASSUME IInv, PInv, NEW t \in Popper, PopperLoop(t)
  PROVE  PInv'
<1> USE Threads DEF PopperLoop, PopLock, Enter, Move, IInv, TypeOK, PInv, Places
<1>2. Counters'
  BY DEF Counters
<1>3. PushersPush'
  BY DEF Counters, PushersPush
<1>4. PoppersPop'
  BY DEF Counters, PoppersPop
<1>5. MainIsAt'
  BY DEF MainIsAt
<1>6. Joined'
  BY DEF Joined, Finished, Idle, PoppersJoined, Counters
<1>7. Quiet
  <2>1. pushes' = pushes
    BY DEF pushes, Counters
  <2>2. pops' = pops
    BY DEF pops, Counters
  <2>3. ToRun' = ToRun
    BY DEF ToRun, Idle
  <2> QED BY <2>1, <2>2, <2>3
        DEF Quiet, MainPushed, MainPopped, MainHolds, Idle
<1> QED BY <1>2, <1>3, <1>4, <1>5, <1>6, <1>7, QuietCounts

\* The task a popper runs is one: pop_task() has returned it.
LEMMA PopperRunPInv ==
  ASSUME IInv, PInv, NEW t \in Popper, PopperRun(t)
  PROVE  PInv'
<1> USE Threads, TaskAssumption DEF PopperRun, Idle, IInv, TypeOK, PInv, Places, vars
<1>1. ret[t] \in Task /\ ret[t] # NoTask
  BY DEF PoppersPop
<1>2. /\ runs' = runs + 1 /\ main_at' = main_at /\ holding' = holding \ {t}
      /\ UNCHANGED <<vars, round, spurious>>
  BY <1>1
<1> HIDE DEF PopperRun
<1>3. Counters'
  BY <1>2 DEF Counters
<1>4. PushersPush' /\ MainIsAt'
  BY <1>2 DEF PushersPush, MainIsAt
<1>5. PoppersPop'
  BY <1>2 DEF PoppersPop, PopperRun
<1>6. Joined'
  BY <1>2 DEF Joined, Finished, PoppersJoined, Counters
<1>7. PushesCounted' /\ PopsCounted'
  <2>1. pushes' = pushes /\ pops' = pops
    BY <1>2 DEF pushes, pops
  <2> QED BY <1>2, <2>1
        DEF Counts, PushesCounted, PopsCounted, MainPushed, MainPopped, OfMain
<1>8. RunsCounted'
  <2>1. t \in ToRun /\ ToRun' = ToRun \ {t}
    BY <1>2 DEF ToRun, PopperRun
  <2>2. Cardinality(ToRun') = Cardinality(ToRun) - 1
    BY <2>1, SetsAreFinite, FS_RemoveElement
  <2> QED BY <1>2, <2>2, SetsAreFinite DEF Counts, RunsCounted, MainHolds, OfMain, Counters
<1> QED BY <1>3, <1>4, <1>5, <1>6, <1>7, <1>8 DEF Counts

-----------------------------------------------------------------------------
(* main() *)

LEMMA MainStepPInv ==
  ASSUME IInv, PInv, MainStep
  PROVE  PInv'
<1> USE Threads, TaskAssumption
    DEF MainStep, JoinPushers, MainFlush, JoinPoppers, MainTryEmpty, AssertEmpty,
        MainPush, MainTryFull, AssertFull, MainMove, Idle, vars,
        PushLock, TryPopLock, FlushLock, Enter, Move, IInv, TypeOK, PInv, Places
<1>1. Counters' /\ MainIsAt'
  BY DEF Counters, MainPlace, MainIsAt
<1>2. PushersPush' /\ PoppersPop'
  BY DEF PushersPush, PoppersPop
<1>3. Joined'
  BY DEF Joined, Finished, PoppersJoined
<1>4. Quiet
  <2>1. pushes' = pushes /\ pops' = pops /\ ToRun' = ToRun
    BY DEF pushes, pops, ToRun
  <2> QED BY <2>1 DEF Quiet, MainPushed, MainPopped, MainHolds, MainIsAt
<1> QED BY <1>1, <1>2, <1>3, <1>4, QuietCounts

-----------------------------------------------------------------------------
(* Steps within a call of the queue.  Those of most are quiet; three store   *)
(* or remove a task, and here the calls are counted.                         *)

LEMMA QuietStepPInv ==
  ASSUME IInv, PInv, UNCHANGED program, NEW t \in Thread,
         \/ NotifyOne(t) \/ PopWait(t) \/ PopRelock(t) \/ PopFront(t) \/ NotifyAll(t)
  PROVE  PInv'
<1> USE Threads
    DEF program, NotifyOne, PopWait, PopRelock, PopFront, NotifyAll, Move, Idle,
        SleepersWait, IInv, TypeOK, PInv, Places
<1>1. Counters' /\ MainIsAt'
  BY DEF Counters, MainPlace, MainIsAt
<1>2. PushersPush' /\ PoppersPop'
  <2>1. PushersPush'
    BY DEF PushersPush
  <2>2. PoppersPop'
    BY DEF PoppersPop
  <2> QED BY ONLY <2>1, <2>2
<1>3. Joined'
  BY DEF Joined, Finished, PoppersJoined
<1>4. Quiet
  <2>1. pushes' = pushes /\ pops' = pops /\ ToRun' = ToRun
    BY DEF pushes, pops, ToRun, PushersPush, PoppersPop
  <2>2. /\ UNCHANGED <<main_at, runs, pushed, popped>>
        /\ ret'[Main] = ret[Main]
        /\ at'[Main] = at[Main] \/ (at[Main] = "notify_one" /\ at'[Main] = "idle")
                               \/ (at[Main] = "flush_notify" /\ at'[Main] = "idle")
    BY DEF MainIsAt, Counters, MainPlace
  <2>3. /\ MainPushed' <=> MainPushed
        /\ MainPopped' <=> MainPopped
        /\ MainHolds' <=> MainHolds
    BY <2>2 DEF MainPushed, MainPopped, MainHolds, MainIsAt, Counters, MainPlace
  <2> QED BY <2>1, <2>2, <2>3 DEF Quiet
<1> QED BY <1>1, <1>2, <1>3, <1>4, QuietCounts

LEMMA WakeupPInv ==
  ASSUME IInv, PInv, NEW t \in Thread, Wakeup(t)
  PROVE  PInv'
<1> USE Threads
    DEF Wakeup, SpuriousWakeup, Move, Idle, SleepersWait, IInv, TypeOK, PInv, Places
<1>1. Counters' /\ MainIsAt'
  BY ProgramAssumption DEF Counters, MainPlace, MainIsAt
<1>2. PushersPush' /\ PoppersPop'
  BY DEF PushersPush, PoppersPop
<1>3. Joined'
  BY DEF Joined, Finished, PoppersJoined
<1>4. Quiet
  <2>1. pushes' = pushes /\ pops' = pops /\ ToRun' = ToRun
    BY DEF pushes, pops, ToRun, PushersPush, PoppersPop
  <2>2. at'[Main] = at[Main] /\ UNCHANGED <<ret, main_at, runs, pushed, popped>>
    BY DEF MainIsAt, Counters, MainPlace
  <2> QED BY ONLY <2>1, <2>2 DEF Quiet, MainPushed, MainPopped, MainHolds, Idle
<1> QED BY <1>1, <1>2, <1>3, <1>4, QuietCounts

LEMMA PushBackPInv ==
  ASSUME IInv, PInv, UNCHANGED program, NEW t \in Thread, PushBack(t)
  PROVE  PInv'
<1> USE Threads, TaskAssumption
    DEF program, PushBack, Move, Idle, IInv, TypeOK, PInv, Places
<1>1. Counters' /\ MainIsAt'
  BY DEF Counters, MainPlace, MainIsAt
<1>2. PushersPush' /\ PoppersPop'
  BY DEF PushersPush, PoppersPop
<1>3. Joined'
  BY DEF Joined, Finished, PoppersJoined
<1>4. PopsCounted' /\ RunsCounted'
  <2>1. pops' = pops /\ ToRun' = ToRun
    BY DEF pops, ToRun, PoppersPop
  <2>2. (MainPopped' <=> MainPopped) /\ (MainHolds' <=> MainHolds)
    BY DEF MainPopped, MainHolds, MainIsAt
  <2> QED BY <2>1, <2>2 DEF Counts, PopsCounted, RunsCounted, OfMain
<1>5. Len(pushed') = Len(pushed) + 1 /\ Len(pushed) \in Nat
  OBVIOUS
<1>6. PushesCounted'
  <2>1. CASE t \in Pusher
    <3>1. /\ pushes \in [Pusher -> Int] /\ pushes' \in [Pusher -> Int]
          /\ pushes[t] \in 0..tests_tasks_count-1 /\ pushes'[t] = pushes[t] + 1
          /\ \A u \in Pusher \ {t} : pushes'[u] = pushes[u]
      <4>1. /\ round \in [Workers -> 0..tests_tasks_count] /\ round' = round
            /\ at[t] = "push_back" /\ round[t] > 0 /\ tests_tasks_count \in Nat
            /\ at' = [at EXCEPT ![t] = "notify_one"] /\ Pusher \subseteq Workers
            /\ Pusher \subseteq Thread /\ at \in [Thread -> Place]
        BY <2>1 DEF Counters, PushersPush
      <4>2. \A u \in Pusher : round[u] \in 0..tests_tasks_count
        BY ONLY <4>1
      <4>3. /\ pushes[t] = round[t] - 1 /\ pushes'[t] = round[t]
            /\ \A u \in Pusher \ {t} : pushes'[u] = pushes[u]
        BY ONLY <2>1, <4>1 DEF pushes
      <4>4. pushes \in [Pusher -> Int] /\ pushes' \in [Pusher -> Int]
        BY ONLY <4>1, <4>2 DEF pushes
      <4> QED BY ONLY <2>1, <4>1, <4>2, <4>3, <4>4
    <3>2. Cardinality(UpTo(Pusher, pushes')) = Cardinality(UpTo(Pusher, pushes)) + 1
      BY ONLY <2>1, <3>1, SetsAreFinite, OneCallMore
    <3>3. MainPushed' <=> MainPushed
      BY <2>1 DEF MainPushed
    <3> QED BY <1>5, <3>2, <3>3, SetsAreFinite, UpToIsFinite
          DEF Counts, PushesCounted, OfMain
  <2>2. CASE t = Main
    <3>1. pushes' = pushes
      BY <2>2 DEF pushes
    <3>2. ~MainPushed /\ MainPushed'
      BY <2>2 DEF MainPushed, MainIsAt, Counters, MainPlace
    <3> QED BY <1>5, <3>1, <3>2, SetsAreFinite, UpToIsFinite
          DEF Counts, PushesCounted, OfMain
  <2>3. t \notin Popper
    BY DEF PoppersPop
  <2> QED BY <2>1, <2>2, <2>3
<1> QED BY <1>1, <1>2, <1>3, <1>4, <1>6 DEF Counts

LEMMA PopErasePInv ==
  ASSUME IInv, PInv, UNCHANGED program, NEW t \in Thread, PopErase(t)
  PROVE  PInv'
<1> USE Threads, TaskAssumption
    DEF program, PopErase, Move, Idle, IInv, TypeOK, PInv, Places
<1>1. t \in Popper /\ ret[t] \in Task
  <2>1. t \in Popper
    BY DEF PushersPush, MainIsAt, Counters, MainPlace
  <2>2. tasks_ \in Seq(Task) /\ tasks_ # <<>> /\ ret[t] = Head(tasks_)
    BY DEF FrontIsRemoved
  <2>3. Head(tasks_) \in Task
    BY ONLY <2>2, HeadTailProperties
  <2> QED BY ONLY <2>1, <2>2, <2>3
<1>2. Counters' /\ MainIsAt'
  BY <1>1 DEF Counters, MainPlace, MainIsAt
<1>3. PushersPush' /\ PoppersPop'
  BY <1>1 DEF PushersPush, PoppersPop
<1>4. Joined'
  BY <1>1 DEF Joined, Finished, PoppersJoined
<1>5. PushesCounted'
  <2>1. pushes' = pushes
    BY <1>1 DEF pushes
  <2> QED BY <1>1, <2>1 DEF Counts, PushesCounted, OfMain, MainPushed
<1>6. Len(popped') = Len(popped) + 1 /\ Len(popped) \in Nat
  BY <1>1
<1>7. PopsCounted'
  <2>1. /\ \A u \in Popper : round[u] \in 0..tests_tasks_count
        /\ round' = round /\ round[t] > 0 /\ at[t] # "idle" /\ at'[t] = "idle"
        /\ \A u \in Popper \ {t} : at'[u] = at[u]
    BY <1>1 DEF Counters, PoppersPop
  <2>2. /\ pops \in [Popper -> Int] /\ pops' \in [Popper -> Int]
        /\ pops[t] \in 0..tests_tasks_count-1 /\ pops'[t] = pops[t] + 1
        /\ \A u \in Popper \ {t} : pops'[u] = pops[u]
    BY ONLY <1>1, <2>1, Threads DEF pops, Idle
  <2>3. Cardinality(UpTo(Popper, pops')) = Cardinality(UpTo(Popper, pops)) + 1
    BY ONLY <1>1, <2>2, SetsAreFinite, OneCallMore
  <2>4. MainPopped' <=> MainPopped
    BY <1>1 DEF MainPopped
  <2> QED BY <1>6, <2>3, <2>4, SetsAreFinite, UpToIsFinite
        DEF Counts, PopsCounted, OfMain
<1>8. RunsCounted'
  <2>1. t \notin ToRun /\ ToRun' = ToRun \cup {t}
    BY <1>1 DEF ToRun, PoppersPop
  <2>2. Cardinality(ToRun') = Cardinality(ToRun) + 1
    BY <2>1, SetsAreFinite, FS_AddElement
  <2>3. MainHolds' <=> MainHolds
    BY <1>1 DEF MainHolds
  <2> QED BY <1>6, <2>2, <2>3, SetsAreFinite
        DEF Counts, RunsCounted, OfMain, Counters
<1> QED BY <1>2, <1>3, <1>4, <1>5, <1>7, <1>8 DEF Counts

\* With all the workers joined, main() finds in the queue what it has put there.
LEMMA OnlyMainIsLeft ==
  ASSUME IInv, PInv, PoppersJoined
  PROVE  Len(tasks_) = OfMain(MainPushed) - OfMain(MainPopped)
<1>1. Cardinality(UpTo(Pusher, pushes)) = Cardinality(Pusher) * tests_tasks_count
  <2>1. \A t \in Pusher : pushes[t] = tests_tasks_count
    BY DEF PInv, Places, Joined, PoppersJoined, Finished, Idle, pushes
  <2> QED BY <2>1, SetsAreFinite, AllUpTo
<1>2. Cardinality(UpTo(Popper, pops)) = Cardinality(Popper) * tests_tasks_count
  <2>1. \A t \in Popper : pops[t] = tests_tasks_count
    BY DEF PInv, Places, Joined, Finished, Idle, pops
  <2> QED BY <2>1, SetsAreFinite, AllUpTo
<1>3. Cardinality(UpTo(Pusher, pushes)) = Cardinality(UpTo(Popper, pops))
  BY <1>1, <1>2, ProgramAssumption
<1>4. Cardinality(UpTo(Popper, pops)) \in Nat
  BY SetsAreFinite, UpToIsFinite
<1>5. Len(pushed) = Len(popped) + Len(tasks_) /\ Len(popped) \in Nat /\ Len(tasks_) \in Nat
  BY DEF IInv, TypeOK, FifoExactlyOnce
<1> QED BY <1>3, <1>4, <1>5 DEF PInv, Counts, PushesCounted, PopsCounted, OfMain

LEMMA TryTakePInv ==
  ASSUME IInv, PInv, UNCHANGED program, NEW t \in Thread, TryTake(t)
  PROVE  PInv'
<1> USE Threads, TaskAssumption
    DEF program, TryTake, TakeFront, Move, Idle, IInv, TypeOK, PInv, Places
<1>1. /\ t = Main /\ at[Main] = "try_take" /\ ret[Main] = NoTask
      /\ main_at \in {"assert_empty", "assert_full"} /\ PoppersJoined
  BY DEF PushersPush, PoppersPop, MainIsAt, Counters, MainPlace, PoppersJoined
<1>2. /\ UNCHANGED <<round, holding, runs, main_at, spurious, pushed>>
      /\ at'[Main] = "idle"
      /\ \A u \in Workers : at'[u] = at[u] /\ ret'[u] = ret[u]
  BY <1>1
<1>3. main_at = "assert_empty" =>
        tasks_ = <<>> /\ ret'[Main] = NoTask /\ popped' = popped
  <2>1. main_at = "assert_empty" => Len(tasks_) = 0
    BY <1>1, OnlyMainIsLeft DEF MainPushed, MainPopped, OfMain
  <2> QED BY <1>1, <2>1
<1>4. main_at = "assert_full" =>
        /\ ret'[Main] \in Task
        /\ Len(popped') = Len(popped) + 1 /\ Len(popped) \in Nat
  <2>1. main_at = "assert_full" => tasks_ # <<>>
    BY <1>1, OnlyMainIsLeft DEF MainPushed, MainPopped, OfMain
  <2> QED BY <1>1, <2>1, HeadTailProperties, AppendProperties DEF Front
<1>5. Counters' /\ MainIsAt'
  BY <1>1, <1>2, <1>3, <1>4 DEF Counters, MainIsAt
<1>6. PushersPush' /\ PoppersPop'
  BY <1>2 DEF PushersPush, PoppersPop
<1>7. Joined'
  BY <1>2 DEF Joined, Finished, PoppersJoined
<1>8. pushes' = pushes /\ pops' = pops /\ ToRun' = ToRun
  BY <1>2 DEF pushes, pops, ToRun
<1>9. PushesCounted'
  <2>1. MainPushed' <=> MainPushed
    BY <1>1, <1>2 DEF MainPushed
  <2> QED BY <1>2, <1>8, <2>1 DEF Counts, PushesCounted, OfMain
<1>10. PopsCounted' /\ RunsCounted'
  <2>1. ~MainPopped /\ ~MainHolds
    BY <1>1 DEF MainPopped, MainHolds
  <2>2. main_at = "assert_empty" => ~MainPopped' /\ ~MainHolds'
    BY <1>2, <1>3 DEF MainPopped, MainHolds
  <2>3. main_at = "assert_full" => MainPopped' /\ MainHolds'
    BY <1>2, <1>4 DEF MainPopped, MainHolds
  <2> USE <1>2, <1>8, <2>1 DEF Counts, PopsCounted, RunsCounted, OfMain
  <2>4. CASE main_at = "assert_empty"
    BY <1>3, <2>2, <2>4
  <2>5. CASE main_at = "assert_full"
    BY <1>4, <2>3, <2>5, SetsAreFinite, UpToIsFinite DEF Counters
  <2> QED BY <1>1, <2>4, <2>5
<1> QED BY <1>5, <1>6, <1>7, <1>9, <1>10 DEF Counts

-----------------------------------------------------------------------------
(* The program uses the queue as its specification allows. *)

LEMMA ProgramStepsQueue == [ProgramNext]_allvars => [Next]_vars
<1> SUFFICES ASSUME [ProgramNext]_allvars PROVE [Next]_vars
  OBVIOUS
<1> USE Threads
<1>1. CASE UNCHANGED allvars \/ Terminated
  BY <1>1 DEF Terminated, allvars
<1>2. ASSUME NEW t \in Thread, Wakeup(t) PROVE [Next]_vars
  BY <1>2 DEF Wakeup, Next
<1>3. ASSUME NEW t \in Thread, InQueue(t) PROVE [Next]_vars
  BY <1>3 DEF InQueue, Next
<1>4. ASSUME NEW t \in Pusher, PusherLoop(t) PROVE [Next]_vars
  BY <1>4 DEF PusherLoop, Next, Call
<1>5. ASSUME NEW t \in Popper, PopperLoop(t) \/ PopperRun(t) PROVE [Next]_vars
  BY <1>5 DEF PopperLoop, PopperRun, Next, Call
<1>6. CASE MainStep
  BY <1>6 DEF MainStep, JoinPushers, MainFlush, JoinPoppers, MainTryEmpty, AssertEmpty,
              MainPush, MainTryFull, AssertFull, Next, Call
<1> QED BY <1>1, <1>2, <1>3, <1>4, <1>5, <1>6 DEF ProgramNext, ThreadStep

LEMMA ProgramInitPInv == ProgramInit => PInv
<1> SUFFICES ASSUME ProgramInit PROVE PInv
  OBVIOUS
<1> USE Threads DEF ProgramInit, Init
<1>1. Counters
  BY ProgramAssumption DEF Counters, MainPlace
<1>2. PushersPush /\ PoppersPop /\ MainIsAt /\ Joined
  BY DEF PushersPush, PoppersPop, MainIsAt, Joined, PoppersJoined
<1>3. UpTo(Pusher, pushes) = {} /\ UpTo(Popper, pops) = {} /\ ToRun = {}
  BY DEF UpTo, pushes, pops, ToRun
<1>4. Len(pushed) = 0 /\ Len(popped) = 0
  OBVIOUS
<1>5. ~MainPushed /\ ~MainPopped /\ ~MainHolds
  BY DEF MainPushed, MainPopped, MainHolds
<1>6. Counts
  BY <1>3, <1>4, <1>5, FS_EmptySet
     DEF Counts, PushesCounted, PopsCounted, RunsCounted, OfMain
<1> QED BY <1>1, <1>2, <1>6 DEF PInv, Places

LEMMA ProgramNextPInv == IInv /\ PInv /\ [ProgramNext]_allvars => PInv'
<1> SUFFICES ASSUME IInv, PInv, [ProgramNext]_allvars PROVE PInv'
  OBVIOUS
<1>1. CASE UNCHANGED allvars \/ Terminated
  <2>1. /\ UNCHANGED <<at, ret, pushed, popped>>
        /\ UNCHANGED <<round, holding, runs, spurious, main_at>>
    BY <1>1 DEF Terminated, allvars, vars, program
  <2>2. Counters' /\ PushersPush' /\ PoppersPop'
    BY <2>1 DEF PInv, Places, Counters, PushersPush, PoppersPop
  <2>3. MainIsAt' /\ Joined'
    BY <2>1 DEF PInv, Places, MainIsAt, Joined, Finished, Idle, PoppersJoined
  <2>4. Quiet
    BY <2>1 DEF Quiet, pushes, pops, ToRun, Idle, MainPushed, MainPopped, MainHolds
  <2> QED BY <2>2, <2>3, <2>4, QuietCounts DEF PInv, Places
<1>2. ASSUME NEW t \in Thread, InQueue(t) PROVE PInv'
  BY <1>2, QuietStepPInv, PushBackPInv, PopErasePInv, TryTakePInv DEF InQueue, Continue
<1> QED BY <1>1, <1>2, WakeupPInv, PusherLoopPInv, PopperLoopPInv, PopperRunPInv,
          MainStepPInv DEF ProgramNext, ThreadStep

\* Whatever the threads of the program do is a behaviour of the queue: all that
\* is proved of the queue holds in the program.
THEOREM ProgramUsesQueue == ProgramSpec => Spec
<1>1. ProgramInit => Init
  BY DEF ProgramInit
<1> QED BY <1>1, ProgramStepsQueue, PTL DEF ProgramSpec, Spec

\* The queue's invariant and the program's hold together, whatever push_task(),
\* popper_sync(), pop_task() and main() interleave.
THEOREM ProgramInvariance == ProgramSpec => [](IInv /\ PInv)
<1> QED BY ProgramUsesQueue, Invariance, ProgramInitPInv, ProgramNextPInv, PTL
      DEF ProgramSpec

\* Types; that runs never passes the number of calls the poppers make is part of
\* the type, and takes the counting above.
THEOREM ProgramTypes == ProgramSpec => []ProgramTypeOK
<1>1. ASSUME IInv, PInv PROVE ProgramTypeOK
  <2>1. runs \in 0..tests_tasks_count * Cardinality(Popper)
    <3>1. MainPopped => MainHolds
      BY <1>1, TaskAssumption
         DEF PInv, Places, MainIsAt, MainPopped, MainHolds, Idle
    <3>2. runs \in Nat /\ runs <= Cardinality(UpTo(Popper, pops))
      BY <1>1, <3>1, SetsAreFinite, UpToIsFinite
         DEF PInv, Places, Counters, Counts, PopsCounted, RunsCounted, OfMain
    <3>3. /\ Cardinality(UpTo(Popper, pops)) \in Nat
          /\ Cardinality(UpTo(Popper, pops)) <= Cardinality(Popper) * tests_tasks_count
      BY SetsAreFinite, UpToIsFinite
    <3>4. Cardinality(Popper) * tests_tasks_count = tests_tasks_count * Cardinality(Popper)
      BY SetsAreFinite, Threads
    <3>5. tests_tasks_count * Cardinality(Popper) \in Nat
      BY SetsAreFinite, Threads
    <3> QED BY <3>2, <3>3, <3>4, <3>5
  <2> QED BY <1>1, <2>1
        DEF IInv, PInv, Places, Counters, MainPlace, ProgramTypeOK
<1> QED BY ProgramInvariance, <1>1, PTL

\* No assert of main() fails and no popper runs an empty function, whatever the
\* number of threads, of rounds and of tasks, and in any interleaving.
THEOREM NothingAborts == ProgramSpec => []NeverAborts
<1>1. PInv => NeverAborts
  BY DEF PInv, Places, Counters, MainPlace, NeverAborts, Aborted
<1> QED BY ProgramInvariance, <1>1, PTL

\* Every task that was popped has been run, or is about to be, once.
THEOREM TasksRunOnce == ProgramSpec => []EveryTaskRuns
<1>1. PInv => EveryTaskRuns
  BY DEF PInv, Counts, RunsCounted, ToRun, MainHolds, OfMain, EveryTaskRuns
<1> QED BY ProgramInvariance, <1>1, PTL

\* When main() returns, every task that a pusher pushed has run, and the one that
\* main() pushed has not.
THEOREM AllTasksHaveRun ==
  ProgramSpec =>
    [](main_at = "done" =>
         tasks_ = <<>> /\ runs = Cardinality(Popper) * tests_tasks_count)
<1>1. ASSUME IInv, PInv, main_at = "done"
      PROVE  tasks_ = <<>> /\ runs = Cardinality(Popper) * tests_tasks_count
  <2>1. PoppersJoined /\ MainPushed /\ MainPopped /\ MainHolds
    BY <1>1, TaskAssumption
       DEF PoppersJoined, MainPushed, MainPopped, MainHolds, PInv, Places, MainIsAt, Idle
  <2>2. Len(tasks_) = 0
    BY <1>1, <2>1, OnlyMainIsLeft DEF OfMain
  <2>3. \A t \in Popper : pops[t] = tests_tasks_count /\ t \notin holding
    BY <1>1, <2>1 DEF PInv, Places, Joined, Finished, Idle, pops
  <2>4. Cardinality(UpTo(Popper, pops)) = Cardinality(Popper) * tests_tasks_count
    BY <2>3, SetsAreFinite, AllUpTo
  <2>5. ToRun = {} /\ Cardinality(ToRun) = 0
    BY <2>3, FS_EmptySet DEF ToRun
  <2>6. runs = Cardinality(UpTo(Popper, pops))
    BY <1>1, <2>1, <2>5, SetsAreFinite, UpToIsFinite
       DEF PInv, Places, Counters, Counts, PopsCounted, RunsCounted, OfMain
  <2> QED BY <1>1, <2>2, <2>4, <2>6 DEF IInv, TypeOK
<1> QED BY ProgramInvariance, <1>1, PTL
=============================================================================
