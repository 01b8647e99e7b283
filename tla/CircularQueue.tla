--------------------------- MODULE CircularQueue ---------------------------
(***************************************************************************)
(* The ring buffer of data_structures/circular_queue.h.  Every operation   *)
(* is one step: SafeCircularQueue, the only way the program uses it, holds *)
(* its mutex for the whole of each.                                        *)
(***************************************************************************)
EXTENDS Integers, Sequences

CONSTANTS Elem,     \* the elements
          Nothing,  \* no element: the answer of a call that returns false
          MaxSize

ASSUME MaxSizeAssumption == MaxSize \in Nat \ {0}
ASSUME NothingAssumption == Nothing \notin Elem

VARIABLES storage, size, front, rear,  \* the fields of CircularQueue
          out                          \* the answer of the last call

queueVars == <<storage, size, front, rear, out>>

Index == 0 .. MaxSize - 1

\* i++; i %= maxSize
Step(i) == IF i + 1 = MaxSize THEN 0 ELSE i + 1

\* The storage is allocated, not initialized.
QueueInit ==
  /\ storage \in [Index -> Elem]
  /\ size = 0 /\ front = 0 /\ rear = 0
  /\ out = Nothing

\* Bug: a full queue overwrites its oldest element, but still starts there.
BugFrontStays(e) ==
  /\ storage' = [storage EXCEPT ![rear] = e]
  /\ rear' = Step(rear)
  /\ size' = IF size = MaxSize THEN size ELSE size + 1
  /\ UNCHANGED <<front, out>>

Push(e) ==
  /\ storage' = [storage EXCEPT ![rear] = e]
  /\ rear' = Step(rear)
  /\ \/ size = MaxSize /\ front' = Step(front) /\ UNCHANGED size
     \/ size # MaxSize /\ size' = size + 1 /\ UNCHANGED front
  /\ UNCHANGED out

\* The element that peek and pop store in their argument.
Top == IF size = 0 THEN Nothing ELSE storage[front]

Peek == out' = Top /\ UNCHANGED <<storage, size, front, rear>>

Pop ==
  /\ out' = Top
  /\ \/ size = 0 /\ UNCHANGED <<size, front>>
     \/ size # 0 /\ size' = size - 1 /\ front' = Step(front)
  /\ UNCHANGED <<storage, rear>>

QueueNext == (\E e \in Elem : Push(e)) \/ Peek \/ Pop

QueueSpec == QueueInit /\ [][QueueNext]_queueVars

-----------------------------------------------------------------------------
QueueTypeOK ==
  /\ storage \in [Index -> Elem]
  /\ size \in 0 .. MaxSize
  /\ front \in Index /\ rear \in Index
  /\ out \in Elem \cup {Nothing}

\* Where the element k places behind the front is stored.
Slot(k) == IF front + k < MaxSize THEN front + k ELSE front + k - MaxSize

\* The three indices agree: the next element goes right behind the last one.
IndexInv == rear = Slot(size)

\* The elements of the queue, oldest first.
Elements == [i \in 1 .. size |-> storage[Slot(i - 1)]]

\* The ring buffer does what the queue promises; in particular it never answers
\* with an element of its uninitialized storage.
Fifo == INSTANCE BoundedFifo WITH queue <- Elements, Capacity <- MaxSize
FifoSpec == Fifo!Spec
=============================================================================
