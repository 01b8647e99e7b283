------------------------------- MODULE Places -------------------------------
(***************************************************************************)
(* A loop over a list that takes the elements that fit, in their order.    *)
(***************************************************************************)
EXTENDS Integers, Sequences

\* The places of a set up to n, in order.
InOrder(places, n) ==
  LET upTo[i \in 0..n] ==
        IF i = 0 THEN <<>>
        ELSE IF i \in places THEN Append(upTo[i - 1], i) ELSE upTo[i - 1]
  IN  upTo[n]

\* The elements of s at the places of a set.
Chosen(s, places) ==
  LET order == InOrder(places, Len(s)) IN [j \in DOMAIN order |-> s[order[j]]]
=============================================================================
