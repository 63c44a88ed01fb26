-------------------------- MODULE StrandTimersProofs --------------------------
(***************************************************************************)
(* Proofs about StrandTimers, for any number of threads and any time.      *)
(***************************************************************************)
EXTENDS StrandTimers, AsioProofs, SequenceTheorems, FiniteSetTheorems, TLAPS

(* What the increments need: a thread in a handler has the strand, so there  *)
(* is one such thread, and what it has read of count_ is still there.        *)
Types ==
  /\ expires \in [Handler -> Nat] /\ prints \in [Handler -> Nat]
  /\ strand_.holder \in Thread \cup {NoThread} /\ strand_.queue \in Seq(Call)
  /\ strand_ = [holder |-> strand_.holder, queue |-> strand_.queue]
  /\ at \in [Thread -> [handler : Handler \cup {"none"}, ec : Result,
                        step : {"run", "load", "store", "rearm"}]]
  /\ count_ \in Nat /\ loaded \in [Thread -> Nat] /\ now \in Nat

InStrand ==
  \A t \in Thread :
    /\ at[t].handler # "none" <=> strand_.holder = t
    /\ at[t].step # "run" <=> strand_.holder = t

LoadedIsCurrent == \A t \in Thread : at[t].step = "store" => loaded[t] = count_

IInv == Types /\ InStrand /\ LoadedIsCurrent /\ NoLostIncrement /\ NoDrift

LEMMA InitIInv == Init => IInv
<1> SUFFICES ASSUME Init PROVE IInv
  OBVIOUS
<1> USE DEF Init, InRun
<1>1. Types
  BY DEF Types, Handler, Call, Result
<1>2. InStrand
  BY StrandAssumption DEF InStrand
<1>3. LoadedIsCurrent
  BY DEF LoadedIsCurrent
<1>4. NoLostIncrement
  BY DEF NoLostIncrement, Handler
<1>5. NoDrift
  BY DEF NoDrift, Rearming, Handler
<1> QED BY <1>1, <1>2, <1>3, <1>4, <1>5 DEF IInv

\* A step that leaves the count, the expiries and who is in which handler alone.
LEMMA QuietIInv ==
  ASSUME IInv, Types',
         UNCHANGED <<expires, strand_.holder, at, count_, loaded, prints>>
  PROVE  IInv'
<1>1. InStrand' /\ LoadedIsCurrent'
  BY DEF IInv, InStrand, LoadedIsCurrent
<1>2. NoLostIncrement' /\ NoDrift'
  BY DEF IInv, NoLostIncrement, NoDrift, Rearming
<1> QED BY <1>1, <1>2 DEF IInv

\* A thread comes into the strand, which nobody had.
LEMMA EnterIInv ==
  ASSUME IInv, Types', NEW t \in Thread, NEW h \in Handler, NEW ec \in Result,
         strand_.holder = NoThread, strand_'.holder = t, Enters(t, h, ec),
         UNCHANGED <<expires, count_, loaded, prints>>
  PROVE  IInv'
<1> USE DEF IInv, Types, Enters
<1>1. \A u \in Thread : at[u].handler = "none" /\ at[u].step = "run"
  BY StrandAssumption DEF InStrand
<1>2. InStrand'
  BY <1>1, StrandAssumption DEF InStrand, Handler
<1>3. LoadedIsCurrent'
  BY <1>1 DEF LoadedIsCurrent
<1>4. \A g \in Handler : ~Rearming(g) /\ ~Rearming(g)'
  BY <1>1 DEF Rearming
<1>5. NoLostIncrement' /\ NoDrift'
  BY <1>4 DEF NoLostIncrement, NoDrift
<1> QED BY <1>2, <1>3, <1>5

-----------------------------------------------------------------------------
(* Each action preserves it. *)
LEMMA RunWrappedIInv ==
  ASSUME IInv, NEW t \in Thread, NEW h \in Handler, NEW ec \in Result,
         RunWrapped(t, h, ec)
  PROVE  IInv'
<1> USE DEF RunWrapped
<1>1. CASE strand_ = [holder |-> NoThread, queue |-> <<>>]
  <2>1. /\ strand_' = [strand_ EXCEPT !.holder = t]
        /\ strand_.holder = NoThread /\ strand_'.holder = t
    BY <1>1 DEF IInv, Types
  <2>2. Enters(t, h, ec)
    BY <1>1
  <2>3. Types'
    BY <2>1, <2>2 DEF IInv, Types, Enters
  <2> QED BY <2>1, <2>2, <2>3, EnterIInv
<1>2. CASE strand_ # [holder |-> NoThread, queue |-> <<>>]
  <2>1. strand_.queue \in Seq(Call) /\ [handler |-> h, ec |-> ec] \in Call
    BY DEF IInv, Types, Call
  <2>2. Append(strand_.queue, [handler |-> h, ec |-> ec]) \in Seq(Call)
    BY ONLY <2>1
  <2>3. Types' /\ strand_'.holder = strand_.holder
    BY <1>2, <2>2 DEF IInv, Types
  <2> QED BY <1>2, <2>3, QuietIInv
<1> QED BY <1>1, <1>2

LEMMA RunQueuedIInv ==
  ASSUME IInv, NEW t \in Thread, RunQueued(t)
  PROVE  IInv'
<1> DEFINE call == Head(strand_.queue)
<1>1. strand_.queue \in Seq(Call) /\ strand_.queue # <<>>
  BY DEF IInv, Types, RunQueued
<1>2. call \in Call /\ Tail(strand_.queue) \in Seq(Call)
  BY ONLY <1>1
<1>3. call.handler \in Handler /\ call.ec \in Result
  BY <1>2 DEF Call
<1>4. Enters(t, call.handler, call.ec)
  BY DEF RunQueued
<1>5. strand_.holder = NoThread /\ strand_'.holder = t
  BY DEF RunQueued
<1>6. Types'
  BY <1>2, <1>3, <1>4 DEF IInv, Types, RunQueued, Enters
<1> HIDE DEF call
<1> QED BY <1>3, <1>4, <1>5, <1>6, EnterIInv DEF RunQueued

\* The only thread in a handler leaves the strand.
LEMMA LeaveIInv ==
  ASSUME IInv, NEW t \in Thread, Leave(t), at[t].step # "run",
         UNCHANGED <<count_, loaded, prints, now>>, expires' \in [Handler -> Nat],
         \A h \in Handler :
           expires'[h] = expires[h] + (IF Rearming(h) THEN 1 ELSE 0)
  PROVE  IInv'
<1> USE DEF IInv, Leave
<1>1. strand_.holder = t /\ \A u \in Thread \ {t} : at[u].step = "run"
  BY DEF InStrand
<1>2. Types'
  BY <1>1 DEF Types, InRun, Result
<1>3. InStrand'
  BY <1>1, StrandAssumption DEF Types, InStrand, InRun
<1>4. \A u \in Thread : at'[u].step = "run"
  BY <1>1 DEF Types, InRun
<1>5. LoadedIsCurrent' /\ NoLostIncrement' /\ \A h \in Handler : ~Rearming(h)'
  BY <1>4 DEF LoadedIsCurrent, NoLostIncrement, Rearming
<1>6. NoDrift'
  BY <1>5 DEF Types, NoDrift
<1> QED BY <1>2, <1>3, <1>5, <1>6

LEMMA ReturnOnErrorIInv ==
  ASSUME IInv, NEW t \in Thread, ReturnOnError(t)
  PROVE  IInv'
<1>1. at[t].step = "load" /\ \A u \in Thread \ {t} : at[u].step = "run"
  BY DEF ReturnOnError, IInv, InStrand
<1>2. \A h \in Handler : ~Rearming(h)
  BY <1>1 DEF Rearming
<1>3. \A h \in Handler : expires[h] = expires[h] + (IF Rearming(h) THEN 1 ELSE 0)
  BY <1>2 DEF IInv, Types
<1> QED BY <1>1, <1>3, LeaveIInv DEF ReturnOnError, IInv, Types

LEMMA LoadIInv ==
  ASSUME IInv, NEW t \in Thread, Load(t)
  PROVE  IInv'
<1> USE DEF IInv, Load, Goes, Types
<1>1. Types'
  OBVIOUS
<1>2. InStrand'
  BY DEF InStrand
<1>3. LoadedIsCurrent'
  BY DEF LoadedIsCurrent
<1>4. \A h \in Handler : Rearming(h)' <=> Rearming(h)
  BY DEF Rearming
<1>5. NoLostIncrement' /\ NoDrift'
  BY <1>4 DEF NoLostIncrement, NoDrift
<1> QED BY <1>1, <1>2, <1>3, <1>5

LEMMA StoreIInv ==
  ASSUME IInv, NEW t \in Thread, Store(t)
  PROVE  IInv'
<1> USE DEF IInv, Store, Goes
<1> DEFINE g == at[t].handler
<1>1. /\ g \in Handler /\ loaded[t] = count_ /\ count_' = count_ + 1
      /\ \A u \in Thread \ {t} : at[u].step = "run"
  BY DEF Types, InStrand, LoadedIsCurrent
<1>2. Types'
  <2>1. prints' \in [Handler -> Nat] /\ loaded' \in [Thread -> Nat] /\ count_' \in Nat
    BY <1>1 DEF Types
  <2>2. at' \in [Thread -> [handler : Handler \cup {"none"}, ec : Result,
                            step : {"run", "load", "store", "rearm"}]]
    BY DEF Types
  <2> QED BY <2>1, <2>2 DEF Types
<1>3. InStrand'
  BY DEF Types, InStrand
<1>4. LoadedIsCurrent'
  BY <1>1 DEF Types, LoadedIsCurrent
<1>5. NoLostIncrement'
  BY <1>1 DEF Types, NoLostIncrement, Handler
<1>6. \A h \in Handler : ~Rearming(h) /\ (Rearming(h)' <=> h = g)
  BY <1>1 DEF Types, Rearming
<1>7. NoDrift'
  BY <1>1, <1>6 DEF Types, NoDrift
<1> QED BY <1>2, <1>3, <1>4, <1>5, <1>7

LEMMA RearmIInv ==
  ASSUME IInv, NEW t \in Thread, Rearm(t)
  PROVE  IInv'
<1> DEFINE g == at[t].handler
<1>1. /\ at[t].step = "rearm" /\ g \in Handler
      /\ \A u \in Thread \ {t} : at[u].step = "run"
  BY DEF Rearm, IInv, Types, InStrand
<1>2. expires' = [expires EXCEPT ![g] = expires[g] + 1]
  BY DEF Rearm, NextExpiry
<1>3. \A h \in Handler : Rearming(h) <=> h = g
  BY <1>1 DEF Rearming
<1>4. /\ expires' \in [Handler -> Nat]
      /\ \A h \in Handler :
           expires'[h] = expires[h] + (IF Rearming(h) THEN 1 ELSE 0)
  BY <1>1, <1>2, <1>3 DEF IInv, Types
<1> QED BY <1>1, <1>4, LeaveIInv DEF Rearm

LEMMA IInvPreserved == IInv /\ [Next]_vars => IInv'
<1> SUFFICES ASSUME IInv, [Next]_vars PROVE IInv'
  OBVIOUS
<1>1. ASSUME NEW t \in Thread, NEW h \in Handler, NEW ec \in Result,
             RunWrapped(t, h, ec)
      PROVE  IInv'
  BY <1>1, RunWrappedIInv
<1>2. ASSUME NEW t \in Thread, RunQueued(t) PROVE IInv'
  BY <1>2, RunQueuedIInv
<1>3. ASSUME NEW t \in Thread, ReturnOnError(t) PROVE IInv'
  BY <1>3, ReturnOnErrorIInv
<1>4. ASSUME NEW t \in Thread, Load(t) PROVE IInv'
  BY <1>4, LoadIInv
<1>5. ASSUME NEW t \in Thread, Store(t) PROVE IInv'
  BY <1>5, StoreIInv
<1>6. ASSUME NEW t \in Thread, Rearm(t) PROVE IInv'
  BY <1>6, RearmIInv
<1>7. ASSUME NEW h \in Handler, TimerExpires(h) PROVE IInv'
  BY <1>7, QuietIInv DEF TimerExpires, IInv, Types
<1>8. CASE Tick
  BY <1>8, QuietIInv, StrandAssumption DEF Tick, IInv, Types
<1>9. CASE UNCHANGED vars
  BY <1>9, QuietIInv DEF vars, IInv, Types
<1> QED BY <1>1, <1>2, <1>3, <1>4, <1>5, <1>6, <1>7, <1>8, <1>9 DEF Next

-----------------------------------------------------------------------------
\* A thread is inside print1() or print2() exactly when it has the strand: two
\* handlers never run at the same time, however many threads call run().
THEOREM StrandExcludes == Spec => []InStrand
<1>1. IInv => InStrand
  BY DEF IInv
<1> QED BY <1>1, InitIInv, IInvPreserved, PTL DEF Spec

\* No increment of count_ is lost: count_ is how often both handlers have gone
\* past ++count_, for any number of threads.
THEOREM IncrementsCount == Spec => []NoLostIncrement
<1>1. IInv => NoLostIncrement
  BY DEF IInv
<1> QED BY <1>1, InitIInv, IInvPreserved, PTL DEF Spec

\* The expiries of each timer are whole periods from the start, one per run of
\* its handler, for any time and however late the handlers run.
THEOREM NeverDrifts == Spec => []NoDrift
<1>1. IInv => NoDrift
  BY DEF IInv
<1> QED BY <1>1, InitIInv, IInvPreserved, PTL DEF Spec

-----------------------------------------------------------------------------
(* The links of a chain.  Each action takes a link from one place to another *)
(* and so keeps their number, but for the return of print1() on an error.    *)
InQueue(q, h) == {i \in DOMAIN q : q[i].handler = h}

LEMMA InQueueIsFinite ==
  ASSUME NEW q \in Seq(Call), NEW h
  PROVE  IsFiniteSet(InQueue(q, h)) /\ Cardinality(InQueue(q, h)) \in Nat
<1>1. Len(q) \in Nat /\ InQueue(q, h) \in SUBSET (1..Len(q))
  BY DEF InQueue
<1>2. IsFiniteSet(1..Len(q))
  BY <1>1, FS_Interval
<1>3. IsFiniteSet(InQueue(q, h))
  BY <1>1, <1>2, FS_Subset
<1> QED BY <1>3, FS_CardinalityType

LEMMA AppendAddsLink ==
  ASSUME NEW q \in Seq(Call), NEW c \in Call, NEW h
  PROVE  Cardinality(InQueue(Append(q, c), h))
           = Cardinality(InQueue(q, h)) + One(c.handler = h)
<1> USE DEF One
<1> DEFINE S == InQueue(q, h)
<1>1. IsFiniteSet(S) /\ Cardinality(S) \in Nat /\ Len(q) \in Nat
  BY InQueueIsFinite
<1>2. Len(q) + 1 \notin S
  BY <1>1 DEF InQueue
<1>3. CASE c.handler = h
  <2>1. InQueue(Append(q, c), h) = S \cup {Len(q) + 1}
    BY <1>3, <1>1, AppendProperties DEF InQueue
  <2>2. Cardinality(S \cup {Len(q) + 1}) = Cardinality(S) + 1
    <3> HIDE DEF S
    <3> QED BY <1>1, <1>2, FS_AddElement
  <2> QED BY <1>3, <2>1, <2>2
<1>4. CASE c.handler # h
  <2>1. InQueue(Append(q, c), h) = S
    BY <1>4, <1>1, AppendProperties DEF InQueue
  <2> QED BY <1>1, <1>4, <2>1
<1> QED BY <1>3, <1>4

LEMMA TailRemovesLink ==
  ASSUME NEW q \in Seq(Call), q # <<>>, NEW h
  PROVE  Cardinality(InQueue(Tail(q), h))
           = Cardinality(InQueue(q, h)) - One(Head(q).handler = h)
<1> USE DEF One
<1> DEFINE S == InQueue(Tail(q), h)
           T == InQueue(q, h) \ {1}
           f == [i \in S |-> i + 1]
<1>1. /\ Tail(q) \in Seq(Call) /\ Len(q) \in Nat \ {0} /\ Len(Tail(q)) = Len(q) - 1
      /\ \A i \in 1..Len(Tail(q)) : Tail(q)[i] = q[i + 1]
  BY HeadTailProperties
<1>2. f \in Bijection(S, T)
  <2>1. \A i \in S : i \in Nat /\ i + 1 \in T
    BY <1>1 DEF InQueue
  <2>2. \A j \in T : j - 1 \in S /\ f[j - 1] = j
    BY <1>1 DEF InQueue
  <2>3. f \in [S -> T]
    BY <2>1
  <2>4. \A i, j \in S : f[i] = f[j] => i = j
    BY <2>1
  <2>5. \A j \in T : \E i \in S : f[i] = j
    BY <2>2
  <2> QED BY ONLY <2>3, <2>4, <2>5
        DEF Bijection, Injection, Surjection, IsInjective
<1>3. IsFiniteSet(S) /\ IsFiniteSet(InQueue(q, h)) /\ Cardinality(InQueue(q, h)) \in Nat
  BY <1>1, InQueueIsFinite
<1>4. Cardinality(T) = Cardinality(S)
  <2> HIDE DEF S, T, f
  <2> QED BY <1>2, <1>3, FS_Bijection DEF ExistsBijection
<1>5. 1 \in InQueue(q, h) <=> Head(q).handler = h
  BY <1>1 DEF InQueue
<1>6. Cardinality(T) = IF 1 \in InQueue(q, h) THEN Cardinality(InQueue(q, h)) - 1
                                              ELSE Cardinality(InQueue(q, h))
  BY <1>3, FS_RemoveElement
<1> HIDE DEF S, T, f
<1> QED BY <1>3, <1>4, <1>5, <1>6 DEF S

\* As many threads as are in a handler are none or one, the one in the strand.
Held(a, h) == {u \in Thread : a[u].handler = h}

LEMMA HeldByHolder ==
  ASSUME NEW a, NEW holder, NEW h \in Handler,
         \A u \in Thread : a[u].handler # "none" <=> holder = u
  PROVE  Cardinality(Held(a, h))
           = One(holder \in Thread /\ a[holder].handler = h)
<1> USE DEF One
<1>1. CASE holder \in Thread /\ a[holder].handler = h
  <2>1. Held(a, h) = {holder}
    BY <1>1 DEF Held, Handler
  <2> QED BY <1>1, <2>1, FS_Singleton
<1>2. CASE ~(holder \in Thread /\ a[holder].handler = h)
  <2>1. Held(a, h) = {}
    BY <1>2 DEF Held, Handler
  <2> QED BY <1>2, <2>1, FS_EmptySet
<1> QED BY <1>1, <1>2

LinkInv == io \in Operations(Handler) /\ OneLinkPerChain

\* What a step does to the number of links is the sum of what it does to the
\* operations, the queue of the strand and the thread in it.
LEMMA LinkParts ==
  ASSUME IInv, LinkInv, NEW h \in Handler
  PROVE  /\ Outstanding(io, h) \in Nat
         /\ Cardinality(InQueue(strand_.queue, h)) \in Nat
         /\ Cardinality(Held(at, h))
              = One(strand_.holder \in Thread /\ at[strand_.holder].handler = h)
         /\ Links(h) = Outstanding(io, h) + Cardinality(InQueue(strand_.queue, h))
                       + Cardinality(Held(at, h))
<1> USE DEF One
<1>1. Outstanding(io, h) \in Nat
  BY OutstandingIsNat DEF LinkInv
<1>2. Cardinality(InQueue(strand_.queue, h)) \in Nat
  BY InQueueIsFinite DEF IInv, Types
<1>3. \A u \in Thread : at[u].handler # "none" <=> strand_.holder = u
  BY DEF IInv, InStrand
<1>4. Cardinality(Held(at, h))
        = One(strand_.holder \in Thread /\ at[strand_.holder].handler = h)
  BY <1>3, HeldByHolder
<1>5. Links(h) = Outstanding(io, h) + Cardinality(InQueue(strand_.queue, h))
                 + Cardinality(Held(at, h))
  BY DEF Links, InQueue, Held
<1> QED BY <1>1, <1>2, <1>4, <1>5

LEMMA InitLinkInv == Init => LinkInv
<1> USE DEF One
<1> SUFFICES ASSUME Init PROVE LinkInv
  OBVIOUS
<1> DEFINE none == Nothing(Handler)
           one  == Begin(none, "print1")
<1> USE DEF Handler
<1>1. none \in Operations(Handler) /\ \A g \in Handler : Outstanding(none, g) = 0
  BY NothingOutstanding
<1>2. /\ one \in Operations(Handler)
      /\ \A g \in Handler : Outstanding(one, g)
                            = Outstanding(none, g) + One(g = "print1")
  BY <1>1, BeginAdds
<1>3. /\ io \in Operations(Handler)
      /\ \A g \in Handler : Outstanding(io, g)
                            = Outstanding(one, g) + One(g = "print2")
  <2>1. io = Begin(one, "print2")
    BY DEF Init
  <2> HIDE DEF one
  <2> QED BY <1>2, <2>1, BeginAdds
<1>4. \A g \in Handler : Outstanding(io, g) = 1
  <2> HIDE DEF none, one
  <2> QED BY <1>1, <1>2, <1>3
<1>5. \A g \in Handler : InQueue(strand_.queue, g) = {} /\ Held(at, g) = {}
  BY DEF Init, InRun, InQueue, Held
<1>6. \A g \in Handler : Links(g) = 1
  BY <1>4, <1>5, FS_EmptySet DEF Links, InQueue, Held
<1> QED BY <1>3, <1>6 DEF LinkInv, OneLinkPerChain

LEMMA LinkPartsNext ==
  ASSUME IInv', NEW h \in Handler
  PROVE  /\ Cardinality(Held(at', h))
              = One(strand_'.holder \in Thread /\ at'[strand_'.holder].handler = h)
         /\ Links(h)' = Outstanding(io', h)
                        + Cardinality(InQueue(strand_'.queue, h))
                        + Cardinality(Held(at', h))
<1> USE DEF One
<1>1. \A u \in Thread : at'[u].handler # "none" <=> strand_'.holder = u
  BY DEF IInv, InStrand
<1>2. Links(h)' = Outstanding(io', h) + Cardinality(InQueue(strand_'.queue, h))
                  + Cardinality(Held(at', h))
  BY DEF Links, InQueue, Held, Outstanding
<1> QED BY <1>1, <1>2, HeldByHolder

\* A handler that is ready goes into the strand, or into its queue.
LEMMA RunWrappedLinks ==
  ASSUME IInv, IInv', LinkInv, NEW t \in Thread, NEW h \in Handler,
         NEW ec \in Result, RunWrapped(t, h, ec)
  PROVE  io' \in Operations(Handler) /\ \A g \in Handler : Links(g)' = Links(g)
<1> USE DEF One
<1>1. /\ io' \in Operations(Handler)
      /\ \A g \in Handler : Outstanding(io', g)
                            = Outstanding(io, g) - One(g = h)
  BY DispatchRemoves DEF RunWrapped, LinkInv
<1>2. ASSUME NEW g \in Handler PROVE Links(g)' = Links(g)
  <2>1. CASE strand_ = [holder |-> NoThread, queue |-> <<>>]
    <3>1. /\ strand_'.queue = strand_.queue /\ strand_'.holder = t
          /\ strand_.holder = NoThread /\ at'[t].handler = h
      BY <2>1 DEF RunWrapped, Enters, IInv, Types
    <3>2. /\ Cardinality(Held(at, g)) = 0
          /\ Cardinality(Held(at', g)) = One(g = h)
      BY <3>1, LinkParts, LinkPartsNext, StrandAssumption
    <3> QED BY <1>1, <3>1, <3>2, LinkParts, LinkPartsNext
  <2>2. CASE strand_ # [holder |-> NoThread, queue |-> <<>>]
    <3>1. /\ strand_'.queue = Append(strand_.queue, [handler |-> h, ec |-> ec])
          /\ at' = at
      BY <2>2 DEF RunWrapped, IInv, Types
    <3>2. [handler |-> h, ec |-> ec] \in Call /\ strand_.queue \in Seq(Call)
      BY DEF Call, IInv, Types
    <3>3. Cardinality(InQueue(strand_'.queue, g))
            = Cardinality(InQueue(strand_.queue, g)) + One(g = h)
      BY <3>1, <3>2, AppendAddsLink
    <3> QED BY <1>1, <3>1, <3>3, LinkParts, LinkPartsNext
  <2> QED BY <2>1, <2>2
<1> QED BY <1>1, <1>2

\* The first in the queue goes into the strand.
LEMMA RunQueuedLinks ==
  ASSUME IInv, IInv', LinkInv, NEW t \in Thread, RunQueued(t)
  PROVE  io' \in Operations(Handler) /\ \A g \in Handler : Links(g)' = Links(g)
<1> USE DEF One
<1>1. strand_.queue \in Seq(Call) /\ strand_.queue # <<>> /\ io' = io
  BY DEF RunQueued, IInv, Types
<1>2. /\ strand_'.queue = Tail(strand_.queue) /\ strand_'.holder = t
      /\ strand_.holder = NoThread /\ at'[t].handler = Head(strand_.queue).handler
  BY DEF RunQueued, Enters, IInv, Types
<1>3. ASSUME NEW g \in Handler PROVE Links(g)' = Links(g)
  <2>1. Cardinality(InQueue(strand_'.queue, g))
          = Cardinality(InQueue(strand_.queue, g))
            - One(Head(strand_.queue).handler = g)
    BY <1>1, <1>2, TailRemovesLink
  <2>2. /\ Cardinality(Held(at, g)) = 0
        /\ Cardinality(Held(at', g))
             = One(Head(strand_.queue).handler = g)
    BY <1>2, LinkParts, LinkPartsNext, StrandAssumption
  <2> QED BY <1>1, <2>1, <2>2, LinkParts, LinkPartsNext
<1> QED BY <1>1, <1>3 DEF LinkInv

\* The chain of print1() may end.
LEMMA ReturnOnErrorLinks ==
  ASSUME IInv, IInv', LinkInv, NEW t \in Thread, ReturnOnError(t)
  PROVE  /\ io' \in Operations(Handler)
         /\ \A g \in Handler :
              Links(g)' = Links(g) - One(g = "print1")
<1> USE DEF One
<1>1. strand_.holder = t /\ at[t].handler = "print1" /\ io' = io
  BY DEF ReturnOnError, Aborted, IInv, InStrand
<1>2. strand_'.queue = strand_.queue /\ strand_'.holder = NoThread
  BY <1>1 DEF ReturnOnError, Leave, IInv, Types
<1>3. ASSUME NEW g \in Handler
      PROVE  Links(g)' = Links(g) - One(g = "print1")
  <2>1. /\ Cardinality(Held(at, g)) = One(g = "print1")
        /\ Cardinality(Held(at', g)) = 0
    BY <1>1, <1>2, LinkParts, LinkPartsNext, StrandAssumption
  <2> QED BY <1>1, <1>2, <2>1, LinkParts, LinkPartsNext
<1> QED BY <1>1, <1>3 DEF LinkInv

\* A handler that has run waits again.
LEMMA RearmLinks ==
  ASSUME IInv, IInv', LinkInv, NEW t \in Thread, Rearm(t)
  PROVE  io' \in Operations(Handler) /\ \A g \in Handler : Links(g)' = Links(g)
<1> USE DEF One
<1> DEFINE h == at[t].handler
           cancelled == Cancel(io, {h})
           begun     == Begin(cancelled, h)
<1>1. strand_.holder = t /\ h \in Handler /\ io' = Cancels(begun, h)
  BY DEF Rearm, IInv, Types, InStrand
<1>2. strand_'.queue = strand_.queue /\ strand_'.holder = NoThread
  BY <1>1 DEF Rearm, Leave, IInv, Types
<1>3. /\ cancelled \in Operations(Handler)
      /\ \A g \in Handler : Outstanding(cancelled, g) = Outstanding(io, g)
  BY CancelKeeps DEF LinkInv
<1>4. /\ begun \in Operations(Handler)
      /\ \A g \in Handler : Outstanding(begun, g)
                            = Outstanding(io, g) + One(g = h)
  <2> HIDE DEF cancelled, h
  <2> QED BY <1>1, <1>3, BeginAdds
<1>5. /\ io' \in Operations(Handler)
      /\ \A g \in Handler : Outstanding(io', g)
                            = Outstanding(io, g) + One(g = h)
  <2> HIDE DEF begun, h
  <2> QED BY <1>1, <1>4, CancelKeeps DEF Cancels
<1>6. ASSUME NEW g \in Handler PROVE Links(g)' = Links(g)
  <2>1. /\ Cardinality(Held(at, g)) = One(g = h)
        /\ Cardinality(Held(at', g)) = 0
    BY <1>1, <1>2, LinkParts, LinkPartsNext, StrandAssumption
  <2> QED BY <1>2, <1>5, <2>1, LinkParts, LinkPartsNext
<1> QED BY <1>5, <1>6

\* A step that moves no link, or completes a wait.
LEMMA OtherLinks ==
  ASSUME IInv, IInv', LinkInv, strand_' = strand_,
         \A u \in Thread : at'[u].handler = at[u].handler,
         \/ io' = io
         \/ \E h \in Handler : Waiting(io, h) /\ io' = Complete(io, h, "ok")
  PROVE  io' \in Operations(Handler) /\ \A g \in Handler : Links(g)' = Links(g)
<1>1. "ok" \in Result
  BY DEF Result
<1>2. /\ io' \in Operations(Handler)
      /\ \A g \in Handler : Outstanding(io', g) = Outstanding(io, g)
  BY <1>1, CompleteKeeps DEF LinkInv
<1>3. \A g \in Handler : Links(g)' = Links(g)
  BY <1>2, LinkParts, LinkPartsNext
<1> QED BY <1>2, <1>3

LEMMA LinkInvPreserved == IInv /\ IInv' /\ LinkInv /\ [Next]_vars => LinkInv'
<1> SUFFICES ASSUME IInv, IInv', LinkInv, [Next]_vars PROVE LinkInv'
  OBVIOUS
<1> USE DEF LinkInv, OneLinkPerChain, Handler, One
<1>0. \A g \in Handler : Links(g) \in Int
  BY LinkParts
<1>1. ASSUME NEW t \in Thread, NEW h \in Handler, NEW ec \in Result,
             RunWrapped(t, h, ec)
      PROVE  LinkInv'
  BY <1>1, RunWrappedLinks
<1>2. ASSUME NEW t \in Thread, RunQueued(t) PROVE LinkInv'
  BY <1>2, RunQueuedLinks
<1>3. ASSUME NEW t \in Thread, ReturnOnError(t) PROVE LinkInv'
  BY <1>0, <1>3, ReturnOnErrorLinks
<1>4. ASSUME NEW t \in Thread, Load(t) PROVE LinkInv'
  BY <1>4, OtherLinks DEF Load, Goes, IInv, Types
<1>5. ASSUME NEW t \in Thread, Store(t) PROVE LinkInv'
  BY <1>5, OtherLinks DEF Store, Goes, IInv, Types
<1>6. ASSUME NEW t \in Thread, Rearm(t) PROVE LinkInv'
  BY <1>6, RearmLinks
<1>7. ASSUME NEW h \in Handler, TimerExpires(h) PROVE LinkInv'
  BY <1>7, OtherLinks DEF TimerExpires
<1>8. CASE Tick
  BY <1>8, OtherLinks DEF Tick
<1>9. CASE UNCHANGED vars
  BY <1>9, OtherLinks DEF vars
<1> QED BY <1>1, <1>2, <1>3, <1>4, <1>5, <1>6, <1>7, <1>8, <1>9 DEF Next

\* Neither chain ever has two links, and the chain of print2() always has one,
\* whatever a cancellation meets and however many threads call run().
THEOREM ChainsKeepLinks == Spec => []OneLinkPerChain
<1>1. IInv /\ LinkInv /\ [Next]_vars => IInv' /\ LinkInv'
  BY IInvPreserved, LinkInvPreserved
<1>2. LinkInv => OneLinkPerChain
  BY DEF LinkInv
<1> QED BY <1>1, <1>2, InitIInv, InitLinkInv, PTL DEF Spec

-----------------------------------------------------------------------------
(* No handler is early: one that goes on to increment count_ is due from the *)
(* moment its wait completes until it sets the next expiry.  A cancelled     *)
(* wait is not due, but print1() returns then and nobody cancels print2().   *)
GoesOn(h, ec) == h = "print2" \/ ec = "ok"

Due(h) == expires[h] <= now

DueWhenReady ==
  \A h \in Handler, ec \in Result : Ready(io, h, ec) /\ GoesOn(h, ec) => ec = "ok" /\ Due(h)

DueWhenQueued ==
  \A i \in 1..Len(strand_.queue) :
    GoesOn(strand_.queue[i].handler, strand_.queue[i].ec) => Due(strand_.queue[i].handler)

DueWhenRun ==
  \A t \in Thread :
    /\ at[t].handler # "none" /\ GoesOn(at[t].handler, at[t].ec) => Due(at[t].handler)
    /\ at[t].step \in {"store", "rearm"} => GoesOn(at[t].handler, at[t].ec)

DueInv == DueWhenReady /\ DueWhenQueued /\ DueWhenRun

InTime ==
  /\ now <= MaxTime /\ \A h \in Handler : 1 <= expires[h] /\ expires[h] <= now + 1
  /\ loaded \in [Thread -> 0..(2 * MaxTime)]

PrintsInTime == \A h \in Handler : prints[h] <= now

LEMMA QueuedHandlers ==
  ASSUME IInv, NEW i \in 1..Len(strand_.queue)
  PROVE  strand_.queue[i] \in Call /\ strand_.queue[i].handler \in Handler
<1>1. strand_.queue \in Seq(Call)
  BY DEF IInv, Types
<1>2. strand_.queue[i] \in Call
  BY ONLY <1>1, i \in 1..Len(strand_.queue), ElementOfSeq
<1> QED BY <1>2 DEF Call

LEMMA InitDue == Init => DueInv /\ InTime
<1> SUFFICES ASSUME Init PROVE DueInv /\ InTime
  OBVIOUS
<1> DEFINE none == Nothing(Handler)
           one  == Begin(none, "print1")
<1>1. \A h \in Handler, ec \in Result : io[h][ec] = 0
  <2>1. none \in Operations(Handler) /\ \A g \in Handler, s \in Status : none[g][s] = 0
    BY NothingOutstanding
  <2> HIDE DEF none
  <2>2. /\ one \in Operations(Handler)
        /\ \A g \in Handler, e \in Result : one[g][e] = none[g][e]
    BY <2>1, BeginAdds DEF Handler
  <2>3. io = Begin(one, "print2")
    BY DEF Init, none
  <2> HIDE DEF one
  <2>4. \A g \in Handler, e \in Result : io[g][e] = one[g][e]
    <3>1. "print2" \in Handler
      BY DEF Handler
    <3> QED BY ONLY <2>2, <2>3, <3>1, BeginAdds
  <2> QED BY <2>1, <2>2, <2>4 DEF Status
<1>2. DueWhenReady
  BY <1>1 DEF DueWhenReady, Ready
<1>3. DueWhenQueued /\ DueWhenRun
  BY DEF Init, InRun, DueWhenQueued, DueWhenRun
<1>4. InTime
  BY StrandAssumption DEF Init, InTime
<1> QED BY <1>2, <1>3, <1>4 DEF DueInv

\* What a step that sets no expiry leaves as it is; the time may pass.
LEMMA DueKeeps ==
  ASSUME DueInv, InTime, IInv, now' \in Nat, now <= now', now' <= MaxTime,
         expires' = expires, loaded' \in [Thread -> 0..(2 * MaxTime)]
  PROVE  InTime' /\ \A h \in Handler : Due(h) => Due(h)'
BY DEF IInv, Types, InTime, Due

LEMMA RunWrappedDue ==
  ASSUME IInv, LinkInv, DueInv, NEW t \in Thread, NEW h \in Handler,
         NEW ec \in Result, RunWrapped(t, h, ec)
  PROVE  DueInv'
<1>1. /\ \A g \in Handler, e \in Result : io'[g][e] = io[g][e] - One(g = h /\ e = ec)
      /\ \A g \in Handler, e \in Result : io[g][e] \in Nat
      /\ Ready(io, h, ec)
  BY DispatchRemoves, OutstandingIsNat DEF RunWrapped, LinkInv, Status
<1>2. \A g \in Handler : Due(g)' = Due(g)
  BY DEF RunWrapped, Due
<1>3. DueWhenReady'
  BY <1>1, <1>2 DEF DueInv, DueWhenReady, Ready, One
<1>4. GoesOn(h, ec) => Due(h)
  BY <1>1 DEF DueInv, DueWhenReady
<1>5. CASE strand_ = [holder |-> NoThread, queue |-> <<>>]
  <2>1. /\ strand_'.queue = strand_.queue
        /\ at' = [at EXCEPT ![t] = [handler |-> h, ec |-> ec, step |-> "load"]]
    BY <1>5 DEF RunWrapped, Enters
  <2>2. DueWhenQueued'
    BY <1>5, <2>1 DEF DueWhenQueued
  <2>3. DueWhenRun'
    BY <1>2, <1>4, <2>1 DEF DueInv, DueWhenRun, IInv, Types
  <2> QED BY <1>3, <2>2, <2>3 DEF DueInv
<1>6. CASE strand_ # [holder |-> NoThread, queue |-> <<>>]
  <2>1. /\ strand_'.queue = Append(strand_.queue, [handler |-> h, ec |-> ec])
        /\ at' = at /\ strand_.queue \in Seq(Call)
    BY <1>6 DEF RunWrapped, IInv, Types
  <2>2. \A i \in 1..Len(strand_.queue) : strand_.queue[i].handler \in Handler
    BY QueuedHandlers
  <2>3. DueWhenQueued'
    BY <1>2, <1>4, <2>1, <2>2, AppendProperties DEF DueInv, DueWhenQueued
  <2>4. DueWhenRun'
    BY <1>2, <2>1 DEF DueInv, DueWhenRun, IInv, Types
  <2> QED BY <1>3, <2>3, <2>4 DEF DueInv
<1> QED BY <1>5, <1>6

LEMMA RunQueuedDue ==
  ASSUME IInv, DueInv, NEW t \in Thread, RunQueued(t)
  PROVE  DueInv'
<1> DEFINE q == strand_.queue
<1>1. /\ q \in Seq(Call) /\ q # <<>> /\ io' = io
      /\ strand_'.queue = Tail(q)
      /\ at' = [at EXCEPT ![t] = [handler |-> Head(q).handler, ec |-> Head(q).ec,
                                  step |-> "load"]]
  BY DEF RunQueued, Enters, IInv, Types
<1>2. \A g : Due(g)' = Due(g)
  BY DEF RunQueued, Due
<1> HIDE DEF q
<1>3. /\ Head(q) = q[1] /\ 1 \in 1..Len(q)
      /\ Len(Tail(q)) = Len(q) - 1 /\ Len(q) \in Nat
      /\ \A i \in 1..Len(Tail(q)) : Tail(q)[i] = q[i + 1]
  BY <1>1, HeadTailProperties
<1>4. DueWhenReady'
  BY <1>1, <1>2 DEF DueInv, DueWhenReady, Ready
<1>5. DueWhenQueued'
  <2>1. ASSUME NEW i \in 1..Len(Tail(q)), GoesOn(Tail(q)[i].handler, Tail(q)[i].ec)
        PROVE  Due(Tail(q)[i].handler)
    <3>1. i + 1 \in 1..Len(q) /\ Tail(q)[i] = q[i + 1]
      BY <1>3
    <3> QED BY <2>1, <3>1 DEF DueInv, DueWhenQueued, q
  <2> QED BY <1>1, <1>2, <2>1 DEF DueWhenQueued
<1>6. DueWhenRun'
  <2>1. GoesOn(Head(q).handler, Head(q).ec) => Due(Head(q).handler)
    BY <1>3 DEF DueInv, DueWhenQueued, q
  <2> QED BY <1>1, <1>2, <2>1 DEF DueInv, DueWhenRun, IInv, Types
<1> QED BY <1>4, <1>5, <1>6 DEF DueInv

\* A step of a thread that is in a handler, or is over with it.
LEMMA InHandlerDue ==
  ASSUME IInv, DueInv, NEW t \in Thread,
         ReturnOnError(t) \/ Load(t) \/ Store(t)
  PROVE  DueInv'
<1>1. /\ io' = io /\ strand_'.queue = strand_.queue
      /\ \A g : Due(g)' = Due(g)
  BY DEF ReturnOnError, Leave, Load, Store, Due, IInv, Types
<1>2. DueWhenReady' /\ DueWhenQueued'
  BY <1>1 DEF DueInv, DueWhenReady, DueWhenQueued, Ready
<1>3. at \in [Thread -> [handler : Handler \cup {"none"}, ec : Result,
                         step : {"run", "load", "store", "rearm"}]]
  BY DEF IInv, Types
<1>4. CASE ReturnOnError(t)
  <2>1. at' = [at EXCEPT ![t] = InRun]
    BY <1>4 DEF ReturnOnError, Leave
  <2> QED BY <1>1, <1>2, <1>3, <2>1 DEF DueInv, DueWhenRun, InRun
<1>5. CASE Load(t)
  <2>1. /\ at[t].step = "load" /\ ~Aborted(t)
        /\ at' = [at EXCEPT ![t].step = "store"]
    BY <1>5 DEF Load, Goes
  <2>2. at[t].handler # "none"
    BY <2>1 DEF IInv, InStrand
  <2>3. GoesOn(at[t].handler, at[t].ec)
    BY <1>3, <2>1, <2>2 DEF Aborted, GoesOn, Handler, Result
  <2> QED BY <1>1, <1>2, <1>3, <2>1, <2>3 DEF DueInv, DueWhenRun
<1>6. CASE Store(t)
  <2>1. at[t].step = "store" /\ at' = [at EXCEPT ![t].step = "rearm"]
    BY <1>6 DEF Store, Goes
  <2> QED BY <1>1, <1>2, <1>3, <2>1 DEF DueInv, DueWhenRun
<1> QED BY <1>4, <1>5, <1>6

\* The handler that runs has the only link of its chain, so that nothing else
\* waits for the expiry it moves.
LEMMA RearmDue ==
  ASSUME IInv, LinkInv, DueInv, InTime, NEW t \in Thread, Rearm(t)
  PROVE  DueInv' /\ InTime'
<1> DEFINE h == at[t].handler
           cancelled == Cancel(io, {h})
           begun     == Begin(cancelled, h)
<1>1. /\ strand_.holder = t /\ h \in Handler /\ io' = Cancels(begun, h)
      /\ at[t].step = "rearm"
  BY DEF Rearm, IInv, Types, InStrand
<1>2. /\ strand_'.queue = strand_.queue /\ at' = [at EXCEPT ![t] = InRun]
      /\ expires' = [expires EXCEPT ![h] = expires[h] + 1]
      /\ now' = now /\ loaded' = loaded
  BY <1>1 DEF Rearm, Leave, NextExpiry, IInv, Types
<1>3. Outstanding(io, h) = 0 /\ InQueue(strand_.queue, h) = {}
  <2>1. /\ Links(h) <= 1 /\ Outstanding(io, h) \in Nat
        /\ Cardinality(InQueue(strand_.queue, h)) \in Nat
        /\ Links(h) = Outstanding(io, h) + Cardinality(InQueue(strand_.queue, h)) + 1
    BY <1>1, LinkParts DEF LinkInv, OneLinkPerChain, Handler, One
  <2>2. Outstanding(io, h) = 0 /\ Cardinality(InQueue(strand_.queue, h)) = 0
    BY ONLY <2>1
  <2>3. IsFiniteSet(InQueue(strand_.queue, h))
    BY InQueueIsFinite DEF IInv, Types
  <2> QED BY <2>2, <2>3, FS_EmptySet
<1>4. Due(h)
  BY <1>1 DEF DueInv, DueWhenRun, Handler
<1>5. \A g \in Handler : g # h => Due(g)' = Due(g)
  BY <1>1, <1>2 DEF Due, IInv, Types
<1>6. DueWhenReady'
  <2>1. /\ cancelled \in Operations(Handler)
        /\ \A g \in Handler : Outstanding(cancelled, g) = Outstanding(io, g)
        /\ \A g \in Handler : cancelled[g]["ok"] = io[g]["ok"]
        /\ \A g \in Handler : cancelled[g]["waiting"] = IF g = h THEN 0
                                                       ELSE io[g]["waiting"]
    BY CancelKeeps DEF LinkInv
  <2>2. \A g \in Handler : cancelled[g]["error"] = io[g]["error"]
    <3>1. \A g \in Handler, s \in Status :
            cancelled[g][s] \in Nat /\ io[g][s] \in Nat /\ io[g][s] <= Outstanding(io, g)
      BY <2>1, OutstandingIsNat DEF LinkInv
    <3>2. \A g \in Handler :
            /\ Outstanding(cancelled, g) = cancelled[g]["waiting"] + cancelled[g]["ok"]
                                             + cancelled[g]["error"]
            /\ Outstanding(io, g) = io[g]["waiting"] + io[g]["ok"] + io[g]["error"]
      BY DEF Outstanding
    <3>3. io[h]["waiting"] = 0
      BY <1>1, <1>3, <3>1 DEF Status
    <3> HIDE DEF cancelled, h
    <3>4. ASSUME NEW g \in Handler PROVE cancelled[g]["error"] = io[g]["error"]
      <4>1. /\ io[g]["waiting"] \in Nat /\ io[g]["ok"] \in Nat /\ io[g]["error"] \in Nat
            /\ cancelled[g]["error"] \in Nat
        BY <3>1 DEF Status, Result
      <4>2. cancelled[g]["waiting"] = io[g]["waiting"]
        BY <2>1, <3>3
      <4> QED BY <2>1, <3>2, <4>1, <4>2
    <3> QED BY <3>4
  <2>3. /\ begun \in Operations(Handler)
        /\ \A g \in Handler, e \in Result : begun[g][e] = io[g][e]
    <3> HIDE DEF cancelled, h
    <3> QED BY <1>1, <2>1, <2>2, BeginAdds DEF Result
  <2>4. /\ \A g \in Handler : io'[g]["ok"] = io[g]["ok"]
        /\ io'["print2"]["error"] = io["print2"]["error"]
    <3>1. CASE h = "print2"
      <4>1. io' = Cancel(begun, {"print1"})
        BY <1>1, <3>1 DEF Cancels
      <4> HIDE DEF begun, h
      <4>2. io'["print2"] = begun["print2"]
        BY <2>3, <4>1 DEF Cancel, Operations, Handler
      <4> QED BY <2>3, <4>1, <4>2, CancelKeeps DEF Handler, Result
    <3>2. CASE h # "print2"
      <4>1. io' = begun
        BY <1>1, <3>2 DEF Cancels
      <4> QED BY <2>3, <4>1 DEF Handler, Result
    <3> QED BY <3>1, <3>2
  <2>5. io[h]["ok"] = 0
    BY <1>1, <1>3, OutstandingIsNat DEF LinkInv, Status, Result
  <2> HIDE DEF h
  <2>6. \A ec \in Result : ec = "ok" \/ ec = "error"
    BY DEF Result
  <2> QED BY <1>5, <2>4, <2>5, <2>6 DEF DueInv, DueWhenReady, Ready, GoesOn, Handler, Result
<1>7. DueWhenQueued'
  <2>1. ASSUME NEW i \in 1..Len(strand_.queue)
        PROVE  strand_.queue[i].handler \in Handler /\ strand_.queue[i].handler # h
    <3>1. strand_.queue \in Seq(Call) /\ i \in DOMAIN strand_.queue
      BY DEF IInv, Types
    <3> QED BY <1>3, <3>1, QueuedHandlers DEF InQueue
  <2> HIDE DEF h
  <2> QED BY <1>2, <1>5, <2>1 DEF DueInv, DueWhenQueued
<1>8. DueWhenRun'
  <2>1. \A u \in Thread : u # t => at[u].handler = "none" /\ at[u].step = "run"
    BY <1>1 DEF IInv, InStrand
  <2>2. \A u \in Thread : at'[u].handler = "none" /\ at'[u].step = "run"
    BY <1>2, <2>1 DEF InRun, IInv, Types
  <2> QED BY <2>2 DEF DueWhenRun
<1>9. InTime'
  <2> HIDE DEF h
  <2> QED BY <1>1, <1>2, <1>4 DEF InTime, Due, IInv, Types
<1> QED BY <1>6, <1>7, <1>8, <1>9 DEF DueInv

LEMMA CountInTime == IInv /\ DueInv /\ InTime => PrintsInTime /\ count_ \in 0..(2 * MaxTime)
<1> SUFFICES ASSUME IInv, DueInv, InTime
             PROVE  PrintsInTime /\ count_ \in 0..(2 * MaxTime)
  OBVIOUS
<1>1. /\ now \in Nat /\ now <= MaxTime /\ MaxTime \in Nat
      /\ \A h \in Handler : expires[h] \in Nat /\ prints[h] \in Nat /\ expires[h] <= now + 1
  BY StrandAssumption DEF IInv, Types, InTime
<1>2. ASSUME NEW h \in Handler PROVE prints[h] <= now
  <2>1. CASE Rearming(h)
    <3>1. Due(h)
      BY <2>1 DEF Rearming, DueInv, DueWhenRun, Handler
    <3>2. expires[h] + 1 = 1 + prints[h]
      BY <2>1 DEF IInv, NoDrift
    <3> QED BY <1>1, <3>1, <3>2 DEF Due
  <2>2. CASE ~Rearming(h)
    <3>1. expires[h] + 0 = 1 + prints[h]
      BY <2>2 DEF IInv, NoDrift
    <3> QED BY <1>1, <3>1
  <2> QED BY <2>1, <2>2
<1>3. count_ = prints["print1"] + prints["print2"]
  BY DEF IInv, NoLostIncrement
<1>4. PrintsInTime
  BY <1>2 DEF PrintsInTime
<1> QED BY <1>1, <1>2, <1>3, <1>4 DEF Handler

LEMMA NextDue == IInv /\ LinkInv /\ DueInv /\ InTime /\ [Next]_vars => DueInv' /\ InTime'
<1> SUFFICES ASSUME IInv, LinkInv, DueInv, InTime, [Next]_vars PROVE DueInv' /\ InTime'
  OBVIOUS
<1>0. now \in Nat /\ now <= MaxTime /\ loaded \in [Thread -> 0..(2 * MaxTime)]
      /\ MaxTime \in Nat
  BY StrandAssumption DEF IInv, Types, InTime
<1>1. ASSUME NEW t \in Thread, NEW h \in Handler, NEW ec \in Result, RunWrapped(t, h, ec)
      PROVE  DueInv' /\ InTime'
  BY <1>0, <1>1, RunWrappedDue, DueKeeps DEF RunWrapped
<1>2. ASSUME NEW t \in Thread, RunQueued(t) PROVE DueInv' /\ InTime'
  BY <1>0, <1>2, RunQueuedDue, DueKeeps DEF RunQueued
<1>3. ASSUME NEW t \in Thread, ReturnOnError(t) PROVE DueInv' /\ InTime'
  BY <1>0, <1>3, InHandlerDue, DueKeeps DEF ReturnOnError
<1>4. ASSUME NEW t \in Thread, Load(t) PROVE DueInv' /\ InTime'
  <2>1. loaded' \in [Thread -> 0..(2 * MaxTime)]
    BY <1>0, <1>4, CountInTime DEF Load
  <2>2. now' = now /\ expires' = expires
    BY <1>4 DEF Load
  <2> QED BY <1>0, <1>4, <2>1, <2>2, InHandlerDue, DueKeeps
<1>5. ASSUME NEW t \in Thread, Store(t) PROVE DueInv' /\ InTime'
  <2>1. loaded' \in [Thread -> 0..(2 * MaxTime)]
    BY <1>0, <1>5 DEF Store
  <2>2. now' = now /\ expires' = expires
    BY <1>5 DEF Store
  <2> QED BY <1>0, <1>5, <2>1, <2>2, InHandlerDue, DueKeeps
<1>6. ASSUME NEW t \in Thread, Rearm(t) PROVE DueInv' /\ InTime'
  BY <1>6, RearmDue
<1>7. ASSUME NEW h \in Handler, TimerExpires(h) PROVE DueInv' /\ InTime'
  <2>1. /\ UNCHANGED <<now, expires, strand_, at, loaded>> /\ Due(h)
        /\ Waiting(io, h) /\ io' = Complete(io, h, "ok")
    BY <1>7 DEF TimerExpires, Due
  <2>2. \A g \in Handler, e \in Result : io'[g][e] = io[g][e] + One(g = h /\ e = "ok")
    BY <2>1, CompleteKeeps DEF LinkInv, Result
  <2>3. \A g \in Handler, e \in Result : io[g][e] \in Nat
    BY OutstandingIsNat DEF LinkInv, Status
  <2>4. DueWhenReady'
    BY <2>1, <2>2, <2>3 DEF DueInv, DueWhenReady, Ready, Due, One
  <2>5. DueWhenQueued' /\ DueWhenRun'
    BY <2>1 DEF DueInv, DueWhenQueued, DueWhenRun, Due
  <2> QED BY <1>0, <2>1, <2>4, <2>5, DueKeeps DEF DueInv
<1>8. CASE Tick
  <2>1. /\ UNCHANGED <<expires, io, strand_, at, loaded>>
        /\ now' \in Nat /\ now <= now' /\ now' <= MaxTime
    BY <1>0, <1>8 DEF Tick
  <2>2. InTime' /\ \A h \in Handler : Due(h) => Due(h)'
    BY <1>0, <2>1, DueKeeps
  <2>3. DueWhenReady'
    BY <2>1, <2>2 DEF DueInv, DueWhenReady
  <2>4. DueWhenQueued'
    <3>1. \A i \in 1..Len(strand_.queue) : strand_.queue[i].handler \in Handler
      BY QueuedHandlers
    <3> QED BY <2>1, <2>2, <3>1 DEF DueInv, DueWhenQueued
  <2>5. DueWhenRun'
    BY <2>1, <2>2 DEF DueInv, DueWhenRun, IInv, Types
  <2> QED BY <2>2, <2>3, <2>4, <2>5 DEF DueInv
<1>9. CASE UNCHANGED vars
  <2>1. UNCHANGED <<now, expires, io, strand_, at, loaded>>
    BY <1>9 DEF vars
  <2>2. DueInv'
    BY <2>1 DEF DueInv, DueWhenReady, DueWhenQueued, DueWhenRun, Due, Ready
  <2> QED BY <1>0, <2>1, <2>2, DueKeeps
<1> QED BY <1>1, <1>2, <1>3, <1>4, <1>5, <1>6, <1>7, <1>8, <1>9 DEF Next

LEMMA AllInvariants == Spec => [](IInv /\ LinkInv /\ DueInv /\ InTime)
<1>1. IInv /\ LinkInv /\ DueInv /\ InTime /\ [Next]_vars
        => IInv' /\ LinkInv' /\ DueInv' /\ InTime'
  BY IInvPreserved, LinkInvPreserved, NextDue
<1> QED BY <1>1, InitIInv, InitLinkInv, InitDue, PTL DEF Spec

\* No handler counts before its timer is due: neither has printed more often than
\* there have been seconds, although print2() cancels the timer of print1() and
\* cancelled waits call their handlers at once.
THEOREM CountsInTime == Spec => []PrintsInTime
<1> QED BY AllInvariants, CountInTime, PTL

\* The types; their bounds on the counts hold because no handler is early.
THEOREM StrandTypeCorrect == Spec => []TypeOK
<1>1. ASSUME IInv, LinkInv, DueInv, InTime PROVE TypeOK
  <2>1. count_ \in 0..(2 * MaxTime) /\ PrintsInTime
    BY <1>1, CountInTime
  <2>2. now \in 0..MaxTime /\ loaded \in [Thread -> 0..(2 * MaxTime)]
    BY <1>1, StrandAssumption DEF InTime, IInv, Types
  <2>3. prints \in [Handler -> 0..MaxTime]
    BY <1>1, <2>1, <2>2, StrandAssumption DEF PrintsInTime, IInv, Types
  <2>4. expires \in [Handler -> 1..(MaxTime + 1)]
    <3>1. ASSUME NEW h \in Handler PROVE expires[h] \in 1..(MaxTime + 1)
      <4>1. /\ expires[h] \in Nat /\ 1 <= expires[h] /\ expires[h] <= now + 1
        BY <1>1 DEF IInv, Types, InTime
      <4>2. now \in Nat /\ now <= MaxTime /\ MaxTime \in Nat
        BY <1>1, StrandAssumption DEF IInv, Types, InTime
      <4> QED BY ONLY <4>1, <4>2
    <3> QED BY <1>1, <3>1 DEF IInv, Types
  <2>5. io \in [Handler -> [Status -> Nat]]
    BY <1>1 DEF LinkInv, Operations
  <2>6. strand_ \in [holder : Thread \cup {NoThread}, queue : Seq(Call)]
    BY <1>1 DEF IInv, Types
  <2> QED BY <1>1, <2>1, <2>2, <2>3, <2>4, <2>5, <2>6 DEF TypeOK, IInv, Types
<1> QED BY <1>1, AllInvariants, PTL
=============================================================================
