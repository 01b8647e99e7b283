-------------------------------- MODULE Aodv --------------------------------
(***************************************************************************)
(* A network of nodes that run class AODV (aodv/aodv.cc and its helpers    *)
(* aodv_rreq.cc, aodv_rrep.cc, aodv_rerr.cc): on-demand route discovery,   *)
(* forwarding of data packets, and route errors.                           *)
(*                                                                         *)
(* A handler of the code is one action: handlePackets runs the handlers of *)
(* a node one after the other on one thread.  Between handlers anything    *)
(* may happen at other nodes and in the network, which delivers the        *)
(* packets in flight in any order and may lose them.                       *)
(***************************************************************************)
EXTENDS AodvTable, FiniteSets, FifoOps

CONSTANTS
  Link,              \* <<n, m>> \in Link: m hears what n transmits
  InitNbr,           \* the neighbours every node starts with
  Packet,            \* the data packets of the applications
  Src, Dst,          \* where each packet is sent from and to
  JunkChoice,        \* what the memory of a new table entry may hold
  OldRreqCount,      \* OLD_RREQ_COUNT: request ids remembered per originator
  PacketBufferSize,  \* PACKET_BUFFER_SIZE: packets waiting per destination
  Lossy,             \* may the network lose packets?
  MaxRreq            \* bound of the model: requests one node originates

ASSUME LinkAssumption == Link \subseteq Node \X Node
ASSUME InitNbrAssumption == InitNbr \in [Node -> SUBSET Node]
ASSUME FlowAssumption ==
  /\ Src \in [Packet -> Node] /\ Dst \in [Packet -> Node]
  /\ \A p \in Packet : Src[p] # Dst[p]
ASSUME JunkAssumption == JunkChoice \subseteq Junk /\ JunkChoice # {}
ASSUME BoundAssumption ==
  /\ OldRreqCount \in Nat \ {0} /\ PacketBufferSize \in Nat \ {0}
  /\ MaxRreq \in Nat /\ Lossy \in BOOLEAN

VARIABLES
  seqNum,     \* AODV::sequenceNum
  rreqId,     \* RREQHelper::m_rreqID
  route,      \* AODVRoutingTable::m_aodvTable
  seen,       \* RREQHelper::m_receivedRREQIds
  buffer,     \* AODV::rreqPacketBuffer; no key = the empty queue
  nbr,        \* RoutingProtocol::m_neighbors
  hung,       \* nodes whose handler will never return
  msgs,       \* packets in flight, one per receiver
  sent,       \* packets the applications have handed over
  delivered   \* <<packet, node>>: handed to a port of that node

vars == <<seqNum, rreqId, route, seen, buffer, nbr, hung, msgs, sent, delivered>>

-----------------------------------------------------------------------------
\* The packets on the air.  "to" and "from" are the addresses of the datagram.

RreqMsg == [type : {"RREQ"}, to : Node, from : Node, orig : Node, id : Nat,
            origSeq : Nat, dest : Node, hop : HopCount]
RrepMsg == [type : {"RREP"}, to : Node, from : Node, orig : Node, dest : Node,
            destSeq : Nat, hop : HopCount]
RerrMsg == [type : {"RERR"}, to : Address, from : Node, unreachable : Node, orig : Node]
DataMsg == [type : {"DATA"}, to : Node, from : Node, orig : Node, pkt : Packet]
Message == RreqMsg \cup RrepMsg \cup RerrMsg \cup DataMsg

Data(n, to, o, p) == [type |-> "DATA", to |-> to, from |-> n, orig |-> o, pkt |-> p]

Rerr(n, to, d, o) ==
  [type |-> "RERR", to |-> to, from |-> n, unreachable |-> d, orig |-> o]

Hears(n) == {k \in Node : <<n, k>> \in Link}

\* _broadcastRREQBuffer of a request with the fields of q and hop count h.
BroadcastRreq(n, o, id, os, d, h) ==
  {[type |-> "RREQ", to |-> k, from |-> n, orig |-> o, id |-> id,
    origSeq |-> os, dest |-> d, hop |-> h] : k \in Hears(n)}

-----------------------------------------------------------------------------
Init ==
  /\ seqNum = [n \in Node |-> 0]
  /\ rreqId = [n \in Node |-> 0]
  /\ route = [n \in Node |-> [d \in Node |-> NoEntry]]
  /\ seen = [n \in Node |-> [o \in Node |-> {}]]
  /\ buffer = [n \in Node |-> [d \in Node |-> <<>>]]
  /\ nbr = InitNbr
  /\ hung = {}
  /\ msgs = {}
  /\ sent = {}
  /\ delivered = {}

\* Bug: the request carries the sequence number from before the increment.
BugPostIncrement(n, d, k, net) ==
  /\ rreqId[n] + k <= MaxRreq
  /\ rreqId' = [rreqId EXCEPT ![n] = @ + k]
  /\ seqNum' = [seqNum EXCEPT ![n] = @ + k]
  /\ msgs' = net \cup UNION {BroadcastRreq(n, n, rreqId[n] + i, seqNum[n] + i - 1, d, 0) :
                               i \in 1 .. k}

\* Bug: only the request id is incremented.
BugSeqNumStays(n, d, k, net) ==
  /\ rreqId[n] + k <= MaxRreq
  /\ rreqId' = [rreqId EXCEPT ![n] = @ + k]
  /\ seqNum' = [seqNum EXCEPT ![n] = IF @ = 0 THEN 1 ELSE @]
  /\ msgs' = net \cup UNION {BroadcastRreq(n, n, rreqId[n] + i, seqNum'[n], d, 0) :
                               i \in 1 .. k}

\* createRREQ and _broadcastRREQBuffer, k times over: the packets join net.
RequestRoute(n, d, k, net) ==
  /\ rreqId[n] + k <= MaxRreq
  /\ rreqId' = [rreqId EXCEPT ![n] = @ + k]
  /\ seqNum' = [seqNum EXCEPT ![n] = @ + k]
  /\ msgs' = net \cup UNION {BroadcastRreq(n, n, rreqId[n] + i, seqNum[n] + i, d, 0) :
                               i \in 1 .. k}

\* repairLink: the originator asks for a new route, any other node (local
\* repair is not implemented) drops the packet and reports to the originator.
RepairLink(n, d, o, net) ==
  \/ /\ o = n
     /\ RequestRoute(n, d, 1, net)
     /\ UNCHANGED route
  \/ /\ o # n
     /\ route' = [route EXCEPT ![n] = Deactivate(@, d)]
     /\ msgs' = net \cup {Rerr(n, route[n][o].nextHop, d, o)}
     /\ UNCHANGED <<rreqId, seqNum>>

\* sendPacket of p at node n, with origIP o; net are the packets in flight.
Transmit(n, p, o, net) ==
  LET d == Dst[p]
      hop == route[n][d].nextHop
  IN \/ /\ ~ route[n][d].active
        /\ buffer' = [buffer EXCEPT ![n][d] = FifoPush(@, p, PacketBufferSize)]
        /\ RequestRoute(n, d, 1, net)
        /\ UNCHANGED route
     \/ /\ route[n][d].active /\ hop \in nbr[n]
        /\ msgs' = net \cup {Data(n, hop, o, p)}
        /\ UNCHANGED <<seqNum, rreqId, route, buffer>>
     \/ /\ route[n][d].active /\ hop \notin nbr[n]
        /\ RepairLink(n, d, o, net)
        /\ UNCHANGED buffer

\* An application of node n sends p: sendPacket with the default origIP.
SendPacket(n, p) ==
  /\ n \notin hung /\ Src[p] = n /\ p \notin sent
  /\ sent' = sent \cup {p}
  /\ Transmit(n, p, n, msgs)
  /\ UNCHANGED <<seen, nbr, hung, delivered>>

-----------------------------------------------------------------------------
\* Node n takes packet m off its socket.
Receive(n, m) ==
  /\ n \notin hung
  /\ m \in msgs /\ m.to = n /\ <<m.from, n>> \in Link

\* Bug: only a node's own requests count as duplicates.
BugOnlyOwnDuplicates(n, m) == m.orig = n

\* RREQHelper::isDuplicateRREQ
IsDuplicateRREQ(n, m) ==
  \/ m.orig = n
  \/ /\ m.origSeq = route[n][m.orig].seq \/ m.id \in seen[n][m.orig]
     /\ m.hop >= route[n][m.orig].hop

\* Bug: the largest id goes.
BugForgetLargest(ids, id) ==
  LET all == ids \cup {id}
  IN IF Cardinality(all) > OldRreqCount
     THEN {i \in all : \E j \in all : i < j}
     ELSE all

\* ... and the ids it remembers when the request is new: the smallest goes
\* when there are too many.
Remember(ids, id) ==
  LET all == ids \cup {id}
  IN IF Cardinality(all) > OldRreqCount
     THEN {i \in all : \E j \in all : j < i}
     ELSE all

\* RREQHelper::shouldGenerateRREP
ShouldGenerateRREP(n, m) ==
  m.dest = n \/ (HasEntry(route[n], m.dest) /\ route[n][m.dest].active)

\* _handleRREQ: a duplicate is dropped.
DropRREQ(n, m) ==
  /\ Receive(n, m) /\ m.type = "RREQ"
  /\ IsDuplicateRREQ(n, m)
  /\ msgs' = msgs \ {m}
  /\ UNCHANGED <<seqNum, rreqId, route, seen, buffer, nbr, hung, sent, delivered>>

\* Bug: the destination answers with the originator's sequence number.
BugReplyOrigSeq(n, m, t, own, to) ==
  [type |-> "RREP", to |-> to, from |-> n, orig |-> m.orig, dest |-> m.dest,
   destSeq |-> IF m.dest = n THEN m.origSeq ELSE t[m.dest].seq,
   hop |-> IF m.dest = n THEN 0 ELSE t[m.dest].hop]

\* createRREPFromRREQ: from the destination with its own sequence number, else
\* from the routing table t.
ReplyTo(n, m, t, own, to) ==
  [type |-> "RREP", to |-> to, from |-> n, orig |-> m.orig, dest |-> m.dest,
   destSeq |-> IF m.dest = n THEN own ELSE t[m.dest].seq,
   hop |-> IF m.dest = n THEN 0 ELSE t[m.dest].hop]

\* _handleRREQ: a new request is answered if this node is the destination or
\* has an active route to it; the reply is not sent over a missing link.  The
\* destination's sequence number leaves 0, the destSeqNum of every request.
AnswerRREQ(n, m) ==
  /\ Receive(n, m) /\ m.type = "RREQ"
  /\ ~ IsDuplicateRREQ(n, m) /\ ShouldGenerateRREP(n, m)
  /\ LET t == UpdateFromRREQ(route[n], [m EXCEPT !.hop = NextHopCount(@)], m.from)
         back == t[m.orig].nextHop
         own == IF m.dest = n /\ seqNum[n] = 0 THEN 1 ELSE seqNum[n]
     IN /\ route' = [route EXCEPT ![n] = t]
        /\ seqNum' = [seqNum EXCEPT ![n] = own]
        /\ msgs' = (msgs \ {m}) \cup
                   (IF back \in nbr[n] THEN {ReplyTo(n, m, t, own, back)} ELSE {})
  /\ seen' = [seen EXCEPT ![n][m.orig] = Remember(@, m.id)]
  /\ UNCHANGED <<rreqId, buffer, nbr, hung, sent, delivered>>

\* _handleRREQ: any other new request is broadcast again (createForwardRREQ).
ForwardRREQ(n, m) ==
  /\ Receive(n, m) /\ m.type = "RREQ"
  /\ ~ IsDuplicateRREQ(n, m) /\ ~ ShouldGenerateRREP(n, m)
  /\ LET h == NextHopCount(m.hop)
     IN /\ route' = [route EXCEPT ![n] = UpdateFromRREQ(@, [m EXCEPT !.hop = h], m.from)]
        /\ msgs' = (msgs \ {m}) \cup BroadcastRreq(n, m.orig, m.id, m.origSeq, m.dest, h)
  /\ seen' = [seen EXCEPT ![n][m.orig] = Remember(@, m.id)]
  /\ UNCHANGED <<seqNum, rreqId, buffer, nbr, hung, sent, delivered>>

-----------------------------------------------------------------------------
\* Bug: the loop looks at the waiting packets but leaves them in the queue.
BugDrainPeeks(n, d, e, net) ==
  LET waiting == buffer[n][d]
  IN /\ e.nextHop \in nbr[n]
     /\ msgs' = net \cup {Data(n, e.nextHop, n, waiting[i]) : i \in 1 .. Len(waiting)}
     /\ UNCHANGED <<seqNum, rreqId, buffer, hung>>

\* The loop that sends the packets waiting for d, e being the entry for d:
\* sendPacket of each with this node as origin.  A packet whose next hop is no
\* neighbour costs a new request and is lost (repairLink).  On an inactive route
\* sendPacket would put back what the loop takes out, for ever.
Drain(n, d, e, net) ==
  LET waiting == buffer[n][d]
      emptied == [buffer EXCEPT ![n][d] = <<>>]
  IN \/ /\ e.active /\ e.nextHop \in nbr[n]
        /\ msgs' = net \cup {Data(n, e.nextHop, n, waiting[i]) : i \in 1 .. Len(waiting)}
        /\ buffer' = emptied
        /\ UNCHANGED <<seqNum, rreqId, hung>>
     \/ /\ e.active /\ e.nextHop \notin nbr[n]
        /\ RequestRoute(n, d, Len(waiting), net)
        /\ buffer' = emptied
        /\ UNCHANGED hung
     \/ /\ ~ e.active
        /\ msgs' = net
        /\ hung' = IF waiting = <<>> THEN hung ELSE hung \cup {n}
        /\ UNCHANGED <<seqNum, rreqId, buffer>>

\* _handleRREP at the originator.
CompleteDiscovery(n, m) ==
  /\ Receive(n, m) /\ m.type = "RREP" /\ m.orig = n
  /\ LET t == UpdateFromRREP(route[n], m, m.from)
     IN /\ route' = [route EXCEPT ![n] = t]
        /\ Drain(n, m.dest, t[m.dest], msgs \ {m})
  /\ UNCHANGED <<seen, nbr, sent, delivered>>

\* createForwardRREP: its own table update can only fire where the caller's has
\* just stored a lower sequence number or a larger hop count than the packet's.
ForwardTable(t, m, src) ==
  IF m.destSeq > t[m.dest].seq \/ m.hop < t[m.dest].hop
  THEN UpdateFromRREP(t, [m EXCEPT !.hop = NextHopCount(@)], src)
  ELSE t

\* _handleRREP elsewhere: on to the next hop towards the originator, if that is
\* a neighbour.
ForwardRREP(n, m) ==
  /\ Receive(n, m) /\ m.type = "RREP" /\ m.orig # n
  /\ LET t == ForwardTable(UpdateFromRREP(route[n], m, m.from), m, m.from)
         hop == t[m.orig].nextHop
     IN /\ route' = [route EXCEPT ![n] = t]
        /\ msgs' = (msgs \ {m}) \cup
             (IF hop \in nbr[n]
              THEN {[m EXCEPT !.to = hop, !.from = n, !.hop = NextHopCount(@)]}
              ELSE {})
  /\ UNCHANGED <<seqNum, rreqId, seen, buffer, nbr, hung, sent, delivered>>

\* _handleRERR: the route is disabled; the originator asks for a new one, any
\* other node passes the error on if its route to the originator is active.
HandleRERR(n, m) ==
  /\ Receive(n, m) /\ m.type = "RERR"
  /\ LET t == Deactivate(route[n], m.unreachable)
         net == msgs \ {m}
     IN /\ route' = [route EXCEPT ![n] = t]
        /\ \/ /\ m.orig = n
              /\ RequestRoute(n, m.unreachable, 1, net)
           \/ /\ m.orig # n
              /\ msgs' = net \cup (IF t[m.orig].active
                                   THEN {Rerr(n, t[m.orig].nextHop, m.unreachable, m.orig)}
                                   ELSE {})
              /\ UNCHANGED <<seqNum, rreqId>>
  /\ UNCHANGED <<seen, buffer, nbr, hung, sent, delivered>>

\* _handlePacket: data for this node goes to its port, any other is sent on
\* with the origin it came with.
HandleData(n, m) ==
  /\ Receive(n, m) /\ m.type = "DATA"
  /\ \/ /\ Dst[m.pkt] = n
        /\ delivered' = delivered \cup {<<m.pkt, n>>}
        /\ msgs' = msgs \ {m}
        /\ UNCHANGED <<seqNum, rreqId, route, buffer>>
     \/ /\ Dst[m.pkt] # n
        /\ Transmit(n, m.pkt, m.orig, msgs \ {m})
        /\ UNCHANGED delivered
  /\ UNCHANGED <<seen, nbr, hung, sent>>

-----------------------------------------------------------------------------
\* addLink: k was heard; a neighbour that is new becomes a one-hop route.
AddLink(n, k) ==
  /\ <<k, n>> \in Link /\ k \notin nbr[n]
  /\ nbr' = [nbr EXCEPT ![n] = @ \cup {k}]
  /\ \E junk \in JunkChoice :
       route' = [route EXCEPT ![n] = UpdateTableEntry(@, k, k, junk)]
  /\ UNCHANGED <<seqNum, rreqId, seen, buffer, hung, msgs, sent, delivered>>

\* resetLinks, then addLink of every neighbour heard recently enough: of the
\* neighbours of the last round, those in S.
RefreshLinks(n, S) ==
  /\ S \subseteq nbr[n]
  /\ nbr' = [nbr EXCEPT ![n] = S]
  /\ \E junk \in [S -> JunkChoice] :
       route' = [route EXCEPT ![n] =
         [d \in Node |-> IF d \in S THEN UpdatedEntry(@[d], d, junk[d]) ELSE @[d]]]
  /\ UNCHANGED <<seqNum, rreqId, seen, buffer, hung, msgs, sent, delivered>>

\* The network loses a packet (external: the radio).
Lose(m) ==
  /\ Lossy /\ m \in msgs
  /\ msgs' = msgs \ {m}
  /\ UNCHANGED <<seqNum, rreqId, route, seen, buffer, nbr, hung, sent, delivered>>

Handle(n, m) ==
  \/ DropRREQ(n, m) \/ AnswerRREQ(n, m) \/ ForwardRREQ(n, m)
  \/ CompleteDiscovery(n, m) \/ ForwardRREP(n, m)
  \/ HandleRERR(n, m) \/ HandleData(n, m)

Traffic ==
  \/ \E n \in Node, p \in Packet : SendPacket(n, p)
  \/ \E n \in Node, m \in msgs : Handle(n, m)
  \/ \E m \in msgs : Lose(m)

Monitoring ==
  \/ \E n, k \in Node : AddLink(n, k)
  \/ \E n \in Node : \E S \in SUBSET nbr[n] : RefreshLinks(n, S)

Next == Traffic \/ Monitoring

Spec == Init /\ [][Next]_vars

\* handlePackets is called in a loop: a node that has a packet to handle handles
\* one in the end.  Nothing makes the applications send, hellos arrive or the
\* network lose.
Fairness == \A n \in Node : WF_vars(\E m \in msgs : Handle(n, m))

FairSpec == Spec /\ Fairness

\* Links that neither appear nor disappear.
FairStaticSpec == Init /\ [][Traffic]_vars /\ Fairness
=============================================================================
