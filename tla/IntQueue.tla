------------------------------- MODULE IntQueue -------------------------------
(***************************************************************************)
(* src/condition-variable-1.cpp: generate_ints() pushes several copies of  *)
(* every number under one lock and notifies once; print_ints() pops one    *)
(* number per lock until it meets done.  The threads share the queue q,    *)
(* the mutex mtx and the condition variable cv.                            *)
(***************************************************************************)
EXTENDS Integers, SequencesExt

CONSTANTS
  Numbers,      \* the numbers before done, in order
  Copies,       \* how often each is pushed
  MaxSpurious   \* bound: wakeups that nobody asked for

done == -1

ASSUME QueueAssumption ==
  /\ Numbers \in Seq(Nat) /\ Copies \in Nat \ {0} /\ MaxSpurious \in Nat

VARIABLES
  q,            \* std::queue<int>
  mtx,          \* "producer", "consumer", or "free"
  producer_at,  \* the statement generate_ints() is at
  consumer_at,  \* the statement print_ints() is at; "wait" is asleep in cv
  round,        \* the number generate_ints() is at, as an index
  copies,       \* how many copies of it have been pushed
  i,            \* the local of print_ints()
  printed,      \* history: the numbers printed
  spurious,     \* how many wakeups were spurious
  joined        \* whether main() has joined both threads

producer == <<producer_at, round, copies>>
consumer == <<consumer_at, i, printed>>
vars     == <<q, mtx, producer, consumer, spurious, joined>>

\* {1, 2, 3, done}
Generated == Append(Numbers, done)

Init ==
  /\ q = <<>> /\ mtx = "free"
  /\ producer_at = "sleep" /\ round = 1 /\ copies = 0
  /\ consumer_at = "lock" /\ i = 0 /\ printed = <<>>
  /\ spurious = 0 /\ joined = FALSE

Lock(thread) == mtx = "free" /\ mtx' = thread
Unlock       == mtx' = "free"

-----------------------------------------------------------------------------
(* auto generate_ints() *)
ProducerLock ==
  /\ producer_at = "sleep" /\ producer_at' = "push"
  /\ Lock("producer")
  /\ UNCHANGED <<q, round, copies, consumer, spurious, joined>>

Push ==
  /\ producer_at = "push" /\ copies < Copies
  /\ q' = Append(q, Generated[round])
  /\ copies' = copies + 1
  /\ UNCHANGED <<mtx, producer_at, round, consumer, spurious, joined>>

ProducerUnlock ==
  /\ producer_at = "push" /\ copies = Copies
  /\ producer_at' = "notify"
  /\ Unlock
  /\ UNCHANGED <<q, round, copies, consumer, spurious, joined>>

NextRound ==
  /\ round' = round + 1
  /\ copies' = 0
  /\ producer_at' = IF round = Len(Generated) THEN "end" ELSE "sleep"

\* Faulty: cv.notify_one() is missing.
NotifyNobody ==
  /\ producer_at = "notify" /\ NextRound
  /\ UNCHANGED <<q, mtx, consumer, spurious, joined>>

\* cv.notify_one(), after the unlock.
NotifyOne ==
  /\ producer_at = "notify" /\ NextRound
  /\ consumer_at' = IF consumer_at = "wait" THEN "woken" ELSE consumer_at
  /\ UNCHANGED <<q, mtx, i, printed, spurious, joined>>

ProducerStep == ProducerLock \/ Push \/ ProducerUnlock \/ NotifyOne

-----------------------------------------------------------------------------
(* void print_ints() *)
ConsumerLock ==
  /\ consumer_at \in {"lock", "woken"} /\ consumer_at' = "check"
  /\ Lock("consumer")
  /\ UNCHANGED <<q, producer, i, printed, spurious, joined>>

\* while(q.empty()) cv.wait(lock);
Wait ==
  /\ consumer_at = "check" /\ q = <<>>
  /\ consumer_at' = "wait"
  /\ Unlock
  /\ UNCHANGED <<q, producer, i, printed, spurious, joined>>

\* Faulty: the last number pushed goes first.
TakeBack ==
  /\ i' = Last(q)
  /\ q' = Front(q)

\* i = q.front(); q.pop();
TakeFront ==
  /\ i' = Head(q)
  /\ q' = Tail(q)

Pop ==
  /\ consumer_at = "check" /\ q # <<>>
  /\ consumer_at' = "got"
  /\ TakeFront
  /\ Unlock
  /\ UNCHANGED <<producer, printed, spurious, joined>>

\* if(i != done) ..., and the condition of the outer loop
PrintInt ==
  /\ consumer_at = "got"
  /\ \/ /\ i = done
        /\ consumer_at' = "end"
        /\ UNCHANGED printed
     \/ /\ i # done
        /\ consumer_at' = "lock"
        /\ printed' = Append(printed, i)
  /\ UNCHANGED <<q, mtx, producer, i, spurious, joined>>

ConsumerStep == ConsumerLock \/ Wait \/ Pop \/ PrintInt

\* A condition variable may wake a waiter that nobody notified.
SpuriousWakeup ==
  /\ spurious < MaxSpurious /\ spurious' = spurious + 1
  /\ consumer_at = "wait" /\ consumer_at' = "woken"
  /\ UNCHANGED <<q, mtx, producer, i, printed, joined>>

-----------------------------------------------------------------------------
(* int main(): the two joins *)
Join ==
  /\ producer_at = "end" /\ consumer_at = "end"
  /\ joined' = TRUE
  /\ UNCHANGED <<q, mtx, producer, consumer, spurious>>

Next == ProducerStep \/ ConsumerStep \/ SpuriousWakeup \/ Join

\* The scheduler runs both threads and main().  The mutex needs no fairness of
\* its own: between two pushes the consumer runs out of numbers and sleeps.
Spec ==
  /\ Init /\ [][Next]_vars
  /\ WF_vars(ProducerStep) /\ WF_vars(ConsumerStep) /\ WF_vars(Join)

-----------------------------------------------------------------------------
\* Types; and each thread holds mtx exactly where it touches q.
TypeOK ==
  /\ q \in Seq(Nat \cup {done}) /\ printed \in Seq(Nat)
  /\ i \in Nat \cup {done}
  /\ round \in 1..Len(Generated) + 1 /\ copies \in 0..Copies
  /\ spurious \in 0..MaxSpurious /\ joined \in BOOLEAN
  /\ producer_at \in {"sleep", "push", "notify", "end"}
  /\ consumer_at \in {"lock", "check", "wait", "woken", "got", "end"}
  /\ mtx = "producer" <=> producer_at = "push"
  /\ mtx = "consumer" <=> consumer_at = "check"

\* Every copy of every number, in the order of generate_ints().
Expected ==
  [k \in 1..Len(Numbers) * Copies |-> Numbers[(k - 1) \div Copies + 1]]

\* print_ints() prints a prefix of what generate_ints() pushes, whatever wakes
\* it up; and it ends only after the last copy of the last number, with nothing
\* but the other copies of done ever left behind.
PrintsAllInOrder ==
  /\ IsPrefix(printed, Expected)
  /\ consumer_at = "end" =>
       printed = Expected /\ \A k \in DOMAIN q : q[k] = done

\* main() returns, with all copies of done but one in q: one notification is
\* enough for several numbers and none is lost, although it comes after the unlock.
MainReturns == <>(joined /\ Len(q) = Copies - 1)
=============================================================================
