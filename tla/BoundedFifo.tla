---------------------------- MODULE BoundedFifo ----------------------------
(***************************************************************************)
(* What the circular queue promises (data_structures/circular_queue.h:6):  *)
(* first in, first out, and a full queue gives up its oldest element for a *)
(* new one.                                                                *)
(***************************************************************************)
EXTENDS FifoOps

CONSTANTS Elem,     \* the elements
          Nothing,  \* the answer of an empty queue
          Capacity

VARIABLES queue,    \* the elements, oldest first
          out       \* the answer of the last call

Init == queue = <<>> /\ out = Nothing

Push(e) == queue' = FifoPush(queue, e, Capacity) /\ UNCHANGED out

Top == IF queue = <<>> THEN Nothing ELSE Head(queue)

Peek == out' = Top /\ UNCHANGED queue

Pop == out' = Top /\ queue' = FifoPop(queue)

Next == (\E e \in Elem : Push(e)) \/ Peek \/ Pop

Spec == Init /\ [][Next]_<<queue, out>>
=============================================================================
