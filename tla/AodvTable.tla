------------------------------ MODULE AodvTable ------------------------------
(***************************************************************************)
(* One node's AODV routing table (aodv/aodv_routing_table.cc) as a value,  *)
(* and the rules by which its operations rewrite it.                       *)
(*                                                                         *)
(* The code's map from destination to AODVInfo is a total function here:   *)
(* a destination without an entry maps to NoEntry, which is what every     *)
(* getter answers for it (next hop 0, sequence number 0, hop count 0,      *)
(* inactive), and no operation ever deletes an entry.                      *)
(***************************************************************************)
EXTENDS Integers

CONSTANTS
  Node,       \* the IP addresses of the nodes
  NoAddr,     \* address 0: what getNextHop answers for an unknown destination
  HopModulus  \* hop counts are uint8_t: 256 in the code

ASSUME NoAddrAssumption == NoAddr \notin Node
ASSUME HopModulusAssumption == HopModulus \in Nat /\ HopModulus >= 2

Address == Node \cup {NoAddr}
HopCount == 0 .. HopModulus - 1

\* Bug: the count is computed in an int and stored without truncation.
BugHopCountUnbounded(h) == h + 1

\* hopCount++ on a uint8_t.
NextHopCount(h) == IF h + 1 = HopModulus THEN 0 ELSE h + 1

Entry == [nextHop : Address, seq : Nat, hop : HopCount, active : BOOLEAN]
NoEntry == [nextHop |-> NoAddr, seq |-> 0, hop |-> 0, active |-> FALSE]

HasEntry(t, d) == t[d].nextHop # NoAddr

\* AODVInfo has no constructor: a new entry's sequence number and hop count
\* are whatever its memory held.
Junk == [seq : Nat, hop : HopCount]

\* updateTableEntry: next hop and "active" are set, the rest of an existing
\* entry is kept, the rest of a new one is junk.
UpdatedEntry(e, nh, junk) ==
  IF e.nextHop # NoAddr
  THEN [e EXCEPT !.nextHop = nh, !.active = TRUE]
  ELSE [nextHop |-> nh, seq |-> junk.seq, hop |-> junk.hop, active |-> TRUE]

UpdateTableEntry(t, d, nh, junk) == [t EXCEPT ![d] = UpdatedEntry(@, nh, junk)]

\* Bug: a route that fails is erased.
BugDeactivateErases(t, d) == [t EXCEPT ![d] = NoEntry]

\* setIsRouteActive(d, false): no effect without an entry.
Deactivate(t, d) == [t EXCEPT ![d].active = FALSE]

Learn(t, d, nh, seq, hop) ==
  [t EXCEPT ![d] = [nextHop |-> nh, seq |-> seq, hop |-> hop, active |-> TRUE]]

\* Bug: only a shorter path is learnt, not a fresher one.
BugLearnShorterOnly(t, q, src) ==
  IF t[q.orig].hop > q.hop THEN Learn(t, q.orig, src, q.origSeq, q.hop) ELSE t

\* updateAODVRoutingTableFromRREQ: q is the request with its hop count already
\* incremented, src the node it came from.
UpdateFromRREQ(t, q, src) ==
  IF q.origSeq > t[q.orig].seq \/ t[q.orig].hop > q.hop
  THEN Learn(t, q.orig, src, q.origSeq, q.hop)
  ELSE t

\* Bug: a reply does not revive an inactive route.
BugInactiveStaysInactive(t, r, src) ==
  IF r.destSeq > t[r.dest].seq \/ t[r.dest].hop > r.hop
  THEN Learn(t, r.dest, src, r.destSeq, r.hop)
  ELSE t

\* updateAODVRoutingTableFromRREP: the hop count is the one in the packet.
UpdateFromRREP(t, r, src) ==
  IF \/ r.destSeq > t[r.dest].seq
     \/ t[r.dest].hop > r.hop
     \/ ~ t[r.dest].active
  THEN Learn(t, r.dest, src, r.destSeq, r.hop)
  ELSE t
=============================================================================
