--------------------------- MODULE NeighborLinks ---------------------------
(***************************************************************************)
(* What the rest of a node sees of its hello monitor: a set of neighbours  *)
(* that grows by one when a node is heard and shrinks at a refresh, each   *)
(* in one step.  Aodv.tla uses the same two steps, AddLink and             *)
(* RefreshLinks; HelloMonitor.tla shows that two threads with two mutexes  *)
(* implement them.                                                         *)
(***************************************************************************)
CONSTANT Node

VARIABLE links

Init == links = {}

Hear(k) == links' = links \cup {k}

Refresh == links' \in SUBSET links

Next == (\E k \in Node : Hear(k)) \/ Refresh

Spec == Init /\ [][Next]_links
=============================================================================
