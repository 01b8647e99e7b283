------------------------------- MODULE FifoOps -------------------------------
(***************************************************************************)
(* The operations of the repository's overwriting circular queue           *)
(* (data_structures/circular_queue.h), on the sequence of its elements,    *)
(* oldest first.  CircularQueue.tla shows that the ring buffer of the      *)
(* source computes exactly these.                                          *)
(***************************************************************************)
EXTENDS Naturals, Sequences

\* CircularQueue::push: a full queue gives up its oldest element.
FifoPush(q, e, cap) == IF Len(q) = cap THEN Append(Tail(q), e) ELSE Append(q, e)

\* CircularQueue::pop(): nothing happens to an empty queue.
FifoPop(q) == IF q = <<>> THEN q ELSE Tail(q)
=============================================================================
