------------------------------- MODULE Buffers --------------------------------
(***************************************************************************)
(* class Buffer of src/swap-1.cpp: a size and a pointer to storage of its  *)
(* own, used by any caller.  Every allocation may fail.                    *)
(***************************************************************************)
EXTENDS Naturals, Sequences

CONSTANTS
  Buffer,      \* the variables of the type
  Float,       \* the elements
  Value,       \* the sequences of elements that occur
  NoBuffer,    \* the value of a variable that is not constructed, or destroyed
  Broken,      \* the value of a buffer whose storage is gone
  Cell,        \* pieces of storage, each as long as it has to be
  nullptr

ASSUME BufferAssumption ==
  /\ <<>> \in Value /\ Value \subseteq Seq(Float)
  /\ NoBuffer \notin Value /\ Broken \notin Value /\ Broken # NoBuffer
  /\ nullptr \notin Cell

VARIABLES
  alive,       \* the buffers constructed and not destroyed
  size_, ptr_,
  heap,        \* the elements of each piece of storage that is allocated
  undefined    \* whether the program has done what has no defined effect

bufferVars == <<alive, size_, ptr_, heap, undefined>>

BufferInit ==
  /\ alive = {} /\ undefined = FALSE
  /\ size_ = [b \in Buffer |-> 0] /\ ptr_ = [b \in Buffer |-> nullptr]
  /\ heap = [c \in {} |-> <<>>]

Allocated(c) == c \in DOMAIN heap

\* new float[n].  An address that a pointer still names is not given out: what
\* follows from the use of such a pointer is undefined anyway.
Fresh == Cell \ (DOMAIN heap \cup {ptr_[b] : b \in alive})

With(h, c, v) == [d \in DOMAIN h \cup {c} |-> IF d = c THEN v ELSE h[d]]

\* delete [] ptr_
Deletable(b) == ptr_[b] = nullptr \/ Allocated(ptr_[b])
Without(h, p) == [d \in DOMAIN h \ {p} |-> h[d]]

\* The range [ptr_, ptr_ + size_).
Readable(b) ==
  IF ptr_[b] = nullptr THEN size_[b] = 0
  ELSE Allocated(ptr_[b]) /\ size_[b] <= Len(heap[ptr_[b]])
Elements(b) == IF ptr_[b] = nullptr THEN <<>> ELSE SubSeq(heap[ptr_[b]], 1, size_[b])

Undefined == undefined' = TRUE /\ UNCHANGED <<alive, size_, ptr_, heap>>

-----------------------------------------------------------------------------
\* Buffer(values)
Construct(b, v) ==
  /\ b \notin alive /\ alive' = alive \cup {b}
  /\ size_' = [size_ EXCEPT ![b] = Len(v)]
  /\ \E c \in Fresh : ptr_' = [ptr_ EXCEPT ![b] = c] /\ heap' = With(heap, c, v)
  /\ UNCHANGED undefined

\* Buffer(const Buffer & other)
CopyConstruct(b, other) ==
  /\ b \notin alive /\ other \in alive
  /\ IF Readable(other) THEN Construct(b, Elements(other)) ELSE Undefined

\* The allocation throws: the old storage is gone, size_ and ptr_ are as before.
AssignmentThrows(b) ==
  /\ heap' = Without(heap, ptr_[b])
  /\ UNCHANGED <<alive, size_, ptr_, undefined>>

\* Faulty: the old storage is not deleted.
ReplaceOnly(b, n, v) ==
  /\ \E c \in Fresh :
       ptr_' = [ptr_ EXCEPT ![b] = c] /\ heap' = With(heap, c, v)
  /\ size_' = [size_ EXCEPT ![b] = n]
  /\ UNCHANGED <<alive, undefined>>

Replace(b, n, v) ==
  /\ \E c \in Fresh :
       /\ ptr_' = [ptr_ EXCEPT ![b] = c]
       /\ heap' = With(Without(heap, ptr_[b]), c, v)
  /\ size_' = [size_ EXCEPT ![b] = n]
  /\ UNCHANGED <<alive, undefined>>

\* operator=(const Buffer & other): when other is *this, ptr_ has been replaced
\* before the elements are copied, from storage that nothing was written to.
CopyAssign(b, other) ==
  /\ {b, other} \subseteq alive
  /\ \/ ~Deletable(b) /\ Undefined
     \/ Deletable(b) /\ AssignmentThrows(b)
     \/ Deletable(b) /\ b # other /\ ~Readable(other) /\ Undefined
     \/ Deletable(b) /\ b # other /\ Readable(other)
          /\ Replace(b, size_[other], Elements(other))
     \/ Deletable(b) /\ b = other
          /\ \E v \in Value : Len(v) = size_[b] /\ Replace(b, Len(v), v)

\* Faulty: other keeps its pointer.
TakeShared(b, other) ==
  /\ ptr_' = [ptr_ EXCEPT ![b] = ptr_[other]]
  /\ size_' = [size_ EXCEPT ![b] = size_[other]]
  /\ UNCHANGED <<heap, undefined>>

Take(b, other) ==
  /\ ptr_' = [ptr_ EXCEPT ![b] = ptr_[other], ![other] = nullptr]
  /\ size_' = [size_ EXCEPT ![b] = size_[other], ![other] = 0]
  /\ UNCHANGED <<heap, undefined>>

\* Buffer(Buffer && other), operator=(Buffer && other): neither deletes anything.
MoveConstruct(b, other) ==
  /\ b \notin alive /\ other \in alive /\ alive' = alive \cup {b}
  /\ Take(b, other)

MoveAssign(b, other) ==
  /\ {b, other} \subseteq alive
  /\ Take(b, other) /\ UNCHANGED alive

\* ~Buffer()
Destroy(b) ==
  /\ b \in alive
  /\ IF Deletable(b)
     THEN /\ heap' = Without(heap, ptr_[b])
          /\ ptr_' = [ptr_ EXCEPT ![b] = nullptr]
          /\ alive' = alive \ {b}
          /\ UNCHANGED <<size_, undefined>>
     ELSE Undefined

\* The allocation in a constructor throws: nothing is left behind.
ConstructorThrows(b) == b \notin alive /\ UNCHANGED bufferVars

\* The model does not go on from what is undefined.
BufferStep(b) ==
  /\ ~undefined
  /\ \/ \E v \in Value : Construct(b, v)
     \/ \E other \in Buffer :
          \/ CopyConstruct(b, other) \/ CopyAssign(b, other)
          \/ MoveConstruct(b, other) \/ MoveAssign(b, other)
     \/ Destroy(b) \/ ConstructorThrows(b)

BufferEnded == undefined /\ UNCHANGED bufferVars

BufferNext == (\E b \in Buffer : BufferStep(b)) \/ BufferEnded

BufferSpec == BufferInit /\ [][BufferNext]_bufferVars

-----------------------------------------------------------------------------
\* The buffers as values.
val ==
  [b \in Buffer |->
    IF b \notin alive THEN NoBuffer ELSE IF Readable(b) THEN Elements(b) ELSE Broken]

Values == INSTANCE BufferValues

\* Buffers behave as values, although they move their storage about, delete it
\* before they replace it and allocate after that: only a copy assignment that
\* fails, and a buffer assigned to itself, give what is not a value.
BuffersAreValues == Values!Spec

\* Storage that no buffer has any more.
Leaked == DOMAIN heap \ {ptr_[b] : b \in alive}

\* Storage is lost only when its buffer takes over that of another, or lets go
\* of its own as both: the move assignment does not delete what it overwrites,
\* and nothing else loses any.
LeaksByMoveOnly ==
  [][ \A c \in Leaked' \ Leaked :
        \E b \in alive \cap alive' :
          /\ ptr_[b] = c /\ ptr_'[b] # c
          /\ ptr_'[b] \in {nullptr} \cup {ptr_[other] : other \in alive} ]_bufferVars
=============================================================================
