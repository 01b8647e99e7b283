----------------------------- MODULE AodvProofs -----------------------------
(***************************************************************************)
(* Invariants of Aodv for every network, traffic and bound.                *)
(***************************************************************************)
EXTENDS AodvProperties, SequenceTheorems, TLAPS

Table == [Node -> Entry]

-----------------------------------------------------------------------------
\* The operations of the routing table keep its type.

LEMMA HopCountType == ASSUME NEW h \in HopCount PROVE NextHopCount(h) \in HopCount
  BY HopModulusAssumption DEF HopCount, NextHopCount

LEMMA ZeroHop == 0 \in HopCount
  BY HopModulusAssumption DEF HopCount

LEMMA NoEntryType == NoEntry \in Entry
  BY ZeroHop DEF NoEntry, Entry, Address

LEMMA LearnType ==
  ASSUME NEW t \in Table, NEW dst \in Node, NEW nh \in Node, NEW seq \in Nat,
         NEW hop \in HopCount
  PROVE  Learn(t, dst, nh, seq, hop) \in Table
  BY DEF Learn, Table, Entry, Address

LEMMA UpdatedEntryType ==
  ASSUME NEW e \in Entry, NEW nh \in Node, NEW junk \in Junk
  PROVE  UpdatedEntry(e, nh, junk) \in Entry
  BY DEF UpdatedEntry, Entry, Junk, Address

LEMMA DeactivateType ==
  ASSUME NEW t \in Table, NEW dst \in Node
  PROVE  Deactivate(t, dst) \in Table
  BY DEF Deactivate, Table, Entry

LEMMA RreqTableType ==
  ASSUME NEW t \in Table, NEW q \in RreqMsg, NEW src \in Node
  PROVE  UpdateFromRREQ(t, [q EXCEPT !.hop = NextHopCount(@)], src) \in Table
<1>1. /\ q.orig \in Node /\ q.origSeq \in Nat /\ NextHopCount(q.hop) \in HopCount
      /\ [q EXCEPT !.hop = NextHopCount(@)].orig = q.orig
      /\ [q EXCEPT !.hop = NextHopCount(@)].origSeq = q.origSeq
      /\ [q EXCEPT !.hop = NextHopCount(@)].hop = NextHopCount(q.hop)
  BY HopCountType DEF RreqMsg
<1> QED BY <1>1, LearnType DEF UpdateFromRREQ

LEMMA RrepTableType ==
  ASSUME NEW t \in Table, NEW r \in RrepMsg, NEW src \in Node
  PROVE  UpdateFromRREP(t, r, src) \in Table
<1>1. r.dest \in Node /\ r.destSeq \in Nat /\ r.hop \in HopCount
  BY DEF RrepMsg
<1> QED BY <1>1, LearnType DEF UpdateFromRREP

LEMMA ForwardedRrepType ==
  ASSUME NEW r \in RrepMsg
  PROVE  [r EXCEPT !.hop = NextHopCount(@)] \in RrepMsg
<1>1. NextHopCount(r.hop) \in HopCount
  BY HopCountType DEF RrepMsg
<1> QED BY <1>1 DEF RrepMsg

LEMMA ForwardTableType ==
  ASSUME NEW t \in Table, NEW r \in RrepMsg, NEW src \in Node
  PROVE  ForwardTable(t, r, src) \in Table
  BY ForwardedRrepType, RrepTableType DEF ForwardTable

-----------------------------------------------------------------------------
\* The packets that are sent are messages.

LEMMA DataType ==
  ASSUME NEW n \in Node, NEW to \in Node, NEW o \in Node, NEW pkt \in Packet
  PROVE  Data(n, to, o, pkt) \in DataMsg
  BY DEF Data, DataMsg

LEMMA RerrType ==
  ASSUME NEW n \in Node, NEW to \in Address, NEW dst \in Node, NEW o \in Node
  PROVE  Rerr(n, to, dst, o) \in RerrMsg
  BY DEF Rerr, RerrMsg

LEMMA BroadcastType ==
  ASSUME NEW n \in Node, NEW o \in Node, NEW id \in Nat, NEW os \in Nat,
         NEW dst \in Node, NEW h \in HopCount
  PROVE  BroadcastRreq(n, o, id, os, dst, h) \subseteq RreqMsg
<1>1. \A k \in Hears(n) :
        [type |-> "RREQ", to |-> k, from |-> n, orig |-> o, id |-> id,
         origSeq |-> os, dest |-> dst, hop |-> h] \in RreqMsg
  BY DEF RreqMsg, Hears
<1> QED BY <1>1 DEF BroadcastRreq

\* The types of messages tell them apart.
LEMMA MessageKinds ==
  ASSUME NEW m \in Message
  PROVE  /\ m.type = "RREQ" => m \in RreqMsg
         /\ m.type = "RREP" => m \in RrepMsg
         /\ m.type = "RERR" => m \in RerrMsg
         /\ m.type = "DATA" => m \in DataMsg
  BY DEF Message, RreqMsg, RrepMsg, RerrMsg, DataMsg

LEMMA PushType ==
  ASSUME NEW S, NEW s \in Seq(S), NEW e \in S, NEW cap \in Nat \ {0}
  PROVE  FifoPush(s, e, cap) \in Seq(S)
<1>1. CASE Len(s) = cap
  <2>1. s # <<>>
    BY <1>1
  <2>2. Tail(s) \in Seq(S)
    BY <2>1, HeadTailProperties
  <2> QED BY <1>1, <2>2, AppendProperties DEF FifoPush
<1>2. CASE Len(s) # cap
  BY <1>2, AppendProperties DEF FifoPush
<1> QED BY <1>1, <1>2

-----------------------------------------------------------------------------
\* The parts of the handlers.

LEMMA RequestRouteType ==
  ASSUME TypeOK, NEW n \in Node, NEW dst \in Node, NEW k \in Nat,
         NEW net \in SUBSET Message, RequestRoute(n, dst, k, net)
  PROVE  seqNum' \in [Node -> Nat] /\ rreqId' \in [Node -> Nat] /\ msgs' \subseteq Message
<1>1. seqNum' \in [Node -> Nat] /\ rreqId' \in [Node -> Nat]
  BY DEF RequestRoute, TypeOK
<1>2. ASSUME NEW i \in 1 .. k
      PROVE  BroadcastRreq(n, n, rreqId[n] + i, seqNum[n] + i, dst, 0) \subseteq Message
  <2>1. rreqId[n] + i \in Nat /\ seqNum[n] + i \in Nat
    BY DEF TypeOK
  <2> QED BY <2>1, ZeroHop, BroadcastType DEF Message
<1> QED BY <1>1, <1>2 DEF RequestRoute

LEMMA RepairLinkType ==
  ASSUME TypeOK, NEW n \in Node, NEW dst \in Node, NEW o \in Node,
         NEW net \in SUBSET Message, RepairLink(n, dst, o, net)
  PROVE  /\ seqNum' \in [Node -> Nat] /\ rreqId' \in [Node -> Nat]
         /\ route' \in [Node -> Table] /\ msgs' \subseteq Message
<1> USE DEF Table
<1>1. CASE o = n /\ RequestRoute(n, dst, 1, net) /\ UNCHANGED route
  BY <1>1, RequestRouteType DEF TypeOK
<1>2. CASE /\ route' = [route EXCEPT ![n] = Deactivate(@, dst)]
           /\ msgs' = net \cup {Rerr(n, route[n][o].nextHop, dst, o)}
           /\ UNCHANGED <<rreqId, seqNum>>
  <2>1. Deactivate(route[n], dst) \in Table
    BY DeactivateType DEF TypeOK
  <2>2. route[n][o].nextHop \in Address
    BY DEF TypeOK, Entry
  <2>3. Rerr(n, route[n][o].nextHop, dst, o) \in Message
    BY <2>2, RerrType DEF Message
  <2> QED BY <1>2, <2>1, <2>3 DEF TypeOK
<1> QED BY <1>1, <1>2 DEF RepairLink

LEMMA TransmitType ==
  ASSUME TypeOK, NEW n \in Node, NEW pkt \in Packet, NEW o \in Node,
         NEW net \in SUBSET Message, Transmit(n, pkt, o, net)
  PROVE  /\ seqNum' \in [Node -> Nat] /\ rreqId' \in [Node -> Nat]
         /\ route' \in [Node -> Table] /\ msgs' \subseteq Message
         /\ buffer' \in [Node -> [Node -> Seq(Packet)]]
<1> USE DEF Table
<1>0. Dst[pkt] \in Node
  BY FlowAssumption
<1>1. CASE /\ buffer' = [buffer EXCEPT ![n][Dst[pkt]] = FifoPush(@, pkt, PacketBufferSize)]
           /\ RequestRoute(n, Dst[pkt], 1, net)
           /\ UNCHANGED route
  <2>1. FifoPush(buffer[n][Dst[pkt]], pkt, PacketBufferSize) \in Seq(Packet)
    BY <1>0, PushType, BoundAssumption DEF TypeOK
  <2>2. buffer' \in [Node -> [Node -> Seq(Packet)]]
    BY <1>0, <1>1, <2>1 DEF TypeOK
  <2> QED BY <1>0, <1>1, <2>2, RequestRouteType DEF TypeOK
<1>2. CASE /\ route[n][Dst[pkt]].nextHop \in nbr[n]
           /\ msgs' = net \cup {Data(n, route[n][Dst[pkt]].nextHop, o, pkt)}
           /\ UNCHANGED <<seqNum, rreqId, route, buffer>>
  <2>1. route[n][Dst[pkt]].nextHop \in Node
    BY <1>2 DEF TypeOK
  <2>2. Data(n, route[n][Dst[pkt]].nextHop, o, pkt) \in Message
    BY <2>1, DataType DEF Message
  <2> QED BY <1>2, <2>2 DEF TypeOK
<1>3. CASE RepairLink(n, Dst[pkt], o, net) /\ UNCHANGED buffer
  BY <1>0, <1>3, RepairLinkType DEF TypeOK
<1> QED BY <1>1, <1>2, <1>3 DEF Transmit

LEMMA DrainType ==
  ASSUME TypeOK, NEW n \in Node, NEW dst \in Node, NEW e \in Entry,
         NEW net \in SUBSET Message, Drain(n, dst, e, net)
  PROVE  /\ seqNum' \in [Node -> Nat] /\ rreqId' \in [Node -> Nat]
         /\ hung' \subseteq Node /\ msgs' \subseteq Message
         /\ buffer' \in [Node -> [Node -> Seq(Packet)]]
<1> DEFINE waiting == buffer[n][dst]
           emptied == [buffer EXCEPT ![n][dst] = <<>>]
<1>0. /\ waiting \in Seq(Packet) /\ Len(waiting) \in Nat
      /\ \A i \in 1 .. Len(waiting) : waiting[i] \in Packet
  BY DEF TypeOK
<1>1. emptied \in [Node -> [Node -> Seq(Packet)]]
  BY EmptySeq DEF TypeOK
<1>2. CASE /\ e.nextHop \in nbr[n]
           /\ msgs' = net \cup {Data(n, e.nextHop, n, waiting[i]) : i \in 1 .. Len(waiting)}
           /\ buffer' = emptied
           /\ UNCHANGED <<seqNum, rreqId, hung>>
  <2>1. e.nextHop \in Node
    BY <1>2 DEF TypeOK
  <2>2. \A i \in 1 .. Len(waiting) : Data(n, e.nextHop, n, waiting[i]) \in Message
    BY <2>1, <1>0, DataType DEF Message
  <2> QED BY <1>1, <1>2, <2>2 DEF TypeOK
<1>3. CASE /\ RequestRoute(n, dst, Len(waiting), net)
           /\ buffer' = emptied
           /\ UNCHANGED hung
  BY <1>0, <1>1, <1>3, RequestRouteType DEF TypeOK
<1>4. CASE /\ msgs' = net
           /\ hung' = IF waiting = <<>> THEN hung ELSE hung \cup {n}
           /\ UNCHANGED <<seqNum, rreqId, buffer>>
  BY <1>4 DEF TypeOK
<1> QED BY <1>2, <1>3, <1>4 DEF Drain

-----------------------------------------------------------------------------
LEMMA ReceivedType ==
  ASSUME TypeOK, NEW n, NEW m, Receive(n, m)
  PROVE  m \in Message /\ m.from \in Node
<1>1. m \in Message
  BY DEF TypeOK, Receive
<1> QED BY <1>1 DEF Message, RreqMsg, RrepMsg, RerrMsg, DataMsg

LEMMA ReplyType ==
  ASSUME NEW n \in Node, NEW m \in RreqMsg, NEW t \in Table, NEW own \in Nat, NEW to \in Node
  PROVE  ReplyTo(n, m, t, own, to) \in RrepMsg
<1>1. m.orig \in Node /\ m.dest \in Node
  BY DEF RreqMsg
<1>2. t[m.dest].seq \in Nat /\ t[m.dest].hop \in HopCount
  BY <1>1 DEF Table, Entry
<1> QED BY <1>1, <1>2, ZeroHop DEF ReplyTo, RrepMsg

\* Every handler keeps the types.
LEMMA TypeNext == TypeOK /\ [Next]_vars => TypeOK'
<1> SUFFICES ASSUME TypeOK, [Next]_vars PROVE TypeOK'
  OBVIOUS
<1> USE DEF Table
<1>1. ASSUME NEW n \in Node, NEW pkt \in Packet, SendPacket(n, pkt) PROVE TypeOK'
  <2>1. Transmit(n, pkt, n, msgs) /\ msgs \in SUBSET Message
    BY <1>1 DEF SendPacket, TypeOK
  <2> QED BY <1>1, <2>1, TransmitType DEF SendPacket, TypeOK
<1>2. ASSUME NEW n \in Node, NEW m \in msgs, DropRREQ(n, m) PROVE TypeOK'
  BY <1>2 DEF DropRREQ, TypeOK
<1>3. ASSUME NEW n \in Node, NEW m \in msgs, AnswerRREQ(n, m) PROVE TypeOK'
  <2> DEFINE t == UpdateFromRREQ(route[n], [m EXCEPT !.hop = NextHopCount(@)], m.from)
             back == t[m.orig].nextHop
             own == IF m.dest = n /\ seqNum[n] = 0 THEN 1 ELSE seqNum[n]
  <2>1. m \in RreqMsg /\ m.from \in Node /\ m.orig \in Node /\ m.id \in Nat
    BY <1>3, ReceivedType, MessageKinds DEF AnswerRREQ, RreqMsg
  <2>2. t \in Table
    BY <2>1, RreqTableType DEF TypeOK
  <2>3. own \in Nat
    BY DEF TypeOK
  <2>4. /\ route' = [route EXCEPT ![n] = t]
        /\ seqNum' = [seqNum EXCEPT ![n] = own]
        /\ msgs' = (msgs \ {m}) \cup
                   (IF back \in nbr[n] THEN {ReplyTo(n, m, t, own, back)} ELSE {})
        /\ seen' = [seen EXCEPT ![n][m.orig] = Remember(@, m.id)]
        /\ UNCHANGED <<rreqId, buffer, nbr, hung, sent, delivered>>
    BY <1>3 DEF AnswerRREQ
  <2> HIDE DEF t, own
  <2>5. back \in nbr[n] => ReplyTo(n, m, t, own, back) \in Message
    BY <2>1, <2>2, <2>3, ReplyType DEF TypeOK, Message
  <2>6. msgs' \subseteq Message
    BY <2>4, <2>5 DEF TypeOK
  <2>7. Remember(seen[n][m.orig], m.id) \in SUBSET Nat
    BY <2>1 DEF Remember, TypeOK
  <2>8. seen' \in [Node -> [Node -> SUBSET Nat]]
    BY <2>1, <2>4, <2>7 DEF TypeOK
  <2> QED BY <2>2, <2>3, <2>4, <2>6, <2>8 DEF TypeOK
<1>4. ASSUME NEW n \in Node, NEW m \in msgs, ForwardRREQ(n, m) PROVE TypeOK'
  <2> DEFINE h == NextHopCount(m.hop)
             t == UpdateFromRREQ(route[n], [m EXCEPT !.hop = h], m.from)
             again == BroadcastRreq(n, m.orig, m.id, m.origSeq, m.dest, h)
  <2>1. /\ m \in RreqMsg /\ m.from \in Node /\ m.orig \in Node /\ m.id \in Nat
        /\ m.origSeq \in Nat /\ m.dest \in Node /\ h \in HopCount
    BY <1>4, ReceivedType, MessageKinds, HopCountType DEF ForwardRREQ, RreqMsg
  <2>2. t \in Table
    BY <2>1, RreqTableType DEF TypeOK
  <2>3. again \subseteq Message
    BY <2>1, BroadcastType DEF Message
  <2>4. /\ route' = [route EXCEPT ![n] = t]
        /\ msgs' = (msgs \ {m}) \cup again
        /\ seen' = [seen EXCEPT ![n][m.orig] = Remember(@, m.id)]
        /\ UNCHANGED <<seqNum, rreqId, buffer, nbr, hung, sent, delivered>>
    BY <1>4 DEF ForwardRREQ
  <2> HIDE DEF t, again
  <2>5. Remember(seen[n][m.orig], m.id) \in SUBSET Nat
    BY <2>1 DEF Remember, TypeOK
  <2>6. seen' \in [Node -> [Node -> SUBSET Nat]]
    BY <2>1, <2>4, <2>5 DEF TypeOK
  <2> QED BY <2>2, <2>3, <2>4, <2>6 DEF TypeOK
<1>5. ASSUME NEW n \in Node, NEW m \in msgs, CompleteDiscovery(n, m) PROVE TypeOK'
  <2> DEFINE t == UpdateFromRREP(route[n], m, m.from)
  <2>1. m \in RrepMsg /\ m.from \in Node /\ m.dest \in Node
    BY <1>5, ReceivedType, MessageKinds DEF CompleteDiscovery, RrepMsg
  <2>2. t \in Table
    BY <2>1, RrepTableType DEF TypeOK
  <2>3. /\ route' = [route EXCEPT ![n] = t]
        /\ Drain(n, m.dest, t[m.dest], msgs \ {m})
        /\ UNCHANGED <<seen, nbr, sent, delivered>>
    BY <1>5 DEF CompleteDiscovery
  <2> HIDE DEF t
  <2>4. t[m.dest] \in Entry /\ msgs \ {m} \in SUBSET Message
    BY <2>1, <2>2 DEF TypeOK
  <2> QED BY <2>1, <2>2, <2>3, <2>4, DrainType DEF TypeOK
<1>6. ASSUME NEW n \in Node, NEW m \in msgs, ForwardRREP(n, m) PROVE TypeOK'
  <2> DEFINE t == ForwardTable(UpdateFromRREP(route[n], m, m.from), m, m.from)
             hop == t[m.orig].nextHop
             on == [m EXCEPT !.to = hop, !.from = n, !.hop = NextHopCount(@)]
  <2>1. m \in RrepMsg /\ m.from \in Node /\ NextHopCount(m.hop) \in HopCount
    BY <1>6, ReceivedType, MessageKinds, HopCountType DEF ForwardRREP, RrepMsg
  <2>2. t \in Table
    BY <2>1, RrepTableType, ForwardTableType DEF TypeOK
  <2>3. /\ route' = [route EXCEPT ![n] = t]
        /\ msgs' = (msgs \ {m}) \cup (IF hop \in nbr[n] THEN {on} ELSE {})
        /\ UNCHANGED <<seqNum, rreqId, seen, buffer, nbr, hung, sent, delivered>>
    BY <1>6 DEF ForwardRREP
  <2> HIDE DEF t
  <2>4. hop \in nbr[n] => on \in Message
    BY <2>1 DEF TypeOK, RrepMsg, Message
  <2> QED BY <2>2, <2>3, <2>4 DEF TypeOK
<1>7. ASSUME NEW n \in Node, NEW m \in msgs, HandleRERR(n, m) PROVE TypeOK'
  <2> DEFINE t == Deactivate(route[n], m.unreachable)
             net == msgs \ {m}
  <2>1. m.unreachable \in Node /\ m.orig \in Node
    BY <1>7, ReceivedType, MessageKinds DEF HandleRERR, RerrMsg
  <2>2. t \in Table /\ net \in SUBSET Message
    BY <2>1, DeactivateType DEF TypeOK
  <2>3. /\ route' = [route EXCEPT ![n] = t]
        /\ UNCHANGED <<seen, buffer, nbr, hung, sent, delivered>>
    BY <1>7 DEF HandleRERR
  <2>4. CASE RequestRoute(n, m.unreachable, 1, net)
    BY <2>1, <2>2, <2>3, <2>4, RequestRouteType DEF TypeOK
  <2>5. CASE /\ msgs' = net \cup (IF t[m.orig].active
                                  THEN {Rerr(n, t[m.orig].nextHop, m.unreachable, m.orig)}
                                  ELSE {})
             /\ UNCHANGED <<seqNum, rreqId>>
    <3> HIDE DEF t
    <3>1. t[m.orig].nextHop \in Address
      BY <2>1, <2>2 DEF Entry
    <3>2. Rerr(n, t[m.orig].nextHop, m.unreachable, m.orig) \in Message
      BY <2>1, <3>1, RerrType DEF Message
    <3> QED BY <2>2, <2>3, <2>5, <3>2 DEF TypeOK
  <2> QED BY <1>7, <2>4, <2>5 DEF HandleRERR
<1>8. ASSUME NEW n \in Node, NEW m \in msgs, HandleData(n, m) PROVE TypeOK'
  <2>1. m.pkt \in Packet /\ m.orig \in Node
    BY <1>8, ReceivedType, MessageKinds DEF HandleData, DataMsg
  <2>2. CASE Dst[m.pkt] = n
    BY <1>8, <2>1, <2>2 DEF HandleData, TypeOK
  <2>3. CASE Dst[m.pkt] # n
    <3>1. Transmit(n, m.pkt, m.orig, msgs \ {m}) /\ msgs \ {m} \in SUBSET Message
      BY <1>8, <2>3 DEF HandleData, TypeOK
    <3> QED BY <1>8, <2>1, <2>3, <3>1, TransmitType DEF HandleData, TypeOK
  <2> QED BY <2>2, <2>3
<1>9. ASSUME NEW m \in msgs, Lose(m) PROVE TypeOK'
  BY <1>9 DEF Lose, TypeOK
<1>10. ASSUME NEW n \in Node, NEW k \in Node, AddLink(n, k) PROVE TypeOK'
  <2>1. PICK junk \in JunkChoice :
          route' = [route EXCEPT ![n] = UpdateTableEntry(@, k, k, junk)]
    BY <1>10 DEF AddLink
  <2>2. UpdatedEntry(route[n][k], k, junk) \in Entry
    BY UpdatedEntryType, JunkAssumption DEF TypeOK
  <2>3. UpdateTableEntry(route[n], k, k, junk) \in Table
    BY <2>2 DEF UpdateTableEntry, TypeOK
  <2> QED BY <1>10, <2>1, <2>3 DEF AddLink, TypeOK
<1>11. ASSUME NEW n \in Node, NEW S \in SUBSET nbr[n], RefreshLinks(n, S) PROVE TypeOK'
  <2>1. PICK junk \in [S -> JunkChoice] : route' = [route EXCEPT ![n] =
          [dst \in Node |-> IF dst \in S THEN UpdatedEntry(@[dst], dst, junk[dst])
                            ELSE @[dst]]]
    BY <1>11 DEF RefreshLinks
  <2>2. \A dst \in S : UpdatedEntry(route[n][dst], dst, junk[dst]) \in Entry
    BY UpdatedEntryType, JunkAssumption DEF TypeOK
  <2> QED BY <1>11, <2>1, <2>2 DEF RefreshLinks, TypeOK
<1>12. CASE UNCHANGED vars
  BY <1>12 DEF vars, TypeOK
<1> QED
  BY <1>1, <1>2, <1>3, <1>4, <1>5, <1>6, <1>7, <1>8, <1>9, <1>10, <1>11, <1>12
  DEF Next, Traffic, Monitoring, Handle

LEMMA TypeInit == Init => TypeOK
  BY NoEntryType, InitNbrAssumption, EmptySeq DEF Init, TypeOK

\* Every reachable state is well typed: in particular no hop count leaves its
\* byte and no message is sent to something that is no node, route errors apart.
THEOREM TypeCorrect == Spec => []TypeOK
  BY TypeInit, TypeNext, PTL DEF Spec

-----------------------------------------------------------------------------
\* Whom a packet can be handed to.  The three invariants are kept together: a
\* table learns next hops from packets (SenderKnows), packets go to next hops
\* (NextHopKnows), and nobody ever forgets (TableStep).

MsgKnown(m) ==
  /\ m.type = "RREQ" => Knows(m.from, m.orig) /\ m.origSeq > 0
  /\ m.type = "RREP" => Knows(m.from, m.dest) /\ Knows(m.to, m.orig)
  /\ m.type = "DATA" => Knows(m.to, Dst[m.pkt])

\* What a step may do to a table: an entry keeps its next hop, or gets one that
\* knows the destination.
EntryStep(e, e1, dst) ==
  \/ e1.nextHop = e.nextHop /\ (e = NoEntry => e1 = NoEntry)
  \/ e1.nextHop \in Node /\ Knows(e1.nextHop, dst)

TableStep == \A n, dst \in Node : EntryStep(route[n][dst], route'[n][dst], dst)

LEMMA MsgKnownInv == KnownInv => \A m \in msgs : MsgKnown(m)
  BY DEF KnownInv, MsgKnown, ReceiverKnows, SenderKnows

LEMMA KnowsNext ==
  ASSUME TableStep, NEW n \in Node, NEW dst \in Node, Knows(n, dst)
  PROVE  Knows(n, dst)'
  BY NoAddrAssumption DEF TableStep, EntryStep, Knows, HasEntry

LEMMA NextHopKnowsNext ==
  ASSUME TypeOK, TableStep, NextHopKnows, EmptyEntry
  PROVE  NextHopKnows' /\ EmptyEntry'
<1>1. ASSUME NEW n \in Node, NEW dst \in Node, HasEntry(route'[n], dst)
      PROVE  LET hop == route'[n][dst].nextHop
             IN hop = dst \/ HasEntry(route'[hop], dst)
  <2> DEFINE hop == route'[n][dst].nextHop
  <2>1. hop \in Node /\ Knows(hop, dst)
    <3>1. CASE hop = route[n][dst].nextHop
      <4>1. HasEntry(route[n], dst)
        BY <1>1, <3>1 DEF HasEntry
      <4>2. route[n][dst].nextHop \in Address
        BY DEF TypeOK, Entry
      <4>3. hop \in Node
        BY <4>1, <4>2, <3>1 DEF HasEntry, Address
      <4> QED BY <4>1, <4>3, <3>1 DEF NextHopKnows
    <3>2. CASE hop # route[n][dst].nextHop
      BY <3>2 DEF TableStep, EntryStep
    <3> QED BY <3>1, <3>2
  <2>2. ASSUME NEW k \in Node, Knows(k, dst) PROVE Knows(k, dst)'
    BY <2>2, KnowsNext
  <2> QED BY <2>1, <2>2 DEF Knows
<1>2. ASSUME NEW n \in Node, NEW dst \in Node, ~ HasEntry(route'[n], dst)
      PROVE  route'[n][dst] = NoEntry
  <2>1. route'[n][dst].nextHop \notin Node
    BY <1>2, NoAddrAssumption DEF HasEntry
  <2>2. route'[n][dst].nextHop = route[n][dst].nextHop
        /\ (route[n][dst] = NoEntry => route'[n][dst] = NoEntry)
    BY <2>1 DEF TableStep, EntryStep
  <2>3. ~ HasEntry(route[n], dst)
    BY <1>2, <2>2 DEF HasEntry
  <2> QED BY <2>2, <2>3 DEF EmptyEntry
<1> QED BY <1>1, <1>2 DEF NextHopKnows, EmptyEntry, Knows

\* The invariant after a step, from what the step does.
LEMMA KnownStep ==
  ASSUME TypeOK, TypeOK', KnownInv, TableStep, WaitingForDest',
         \A m \in msgs' : m \in msgs \/ MsgKnown(m) \/ MsgKnown(m)'
  PROVE  KnownInv'
<1>1. NextHopKnows' /\ EmptyEntry'
  BY NextHopKnowsNext DEF KnownInv
<1>2. ASSUME NEW m \in msgs', MsgKnown(m) PROVE MsgKnown(m)'
  <2>1. m \in Message
    BY DEF TypeOK
  <2>2. CASE m.type = "RREQ"
    <3>1. m.from \in Node /\ m.orig \in Node
      BY <2>1, <2>2, MessageKinds DEF RreqMsg
    <3> QED BY <1>2, <2>2, <3>1, KnowsNext DEF MsgKnown
  <2>3. CASE m.type = "RREP"
    <3>1. m.from \in Node /\ m.to \in Node /\ m.orig \in Node /\ m.dest \in Node
      BY <2>1, <2>3, MessageKinds DEF RrepMsg
    <3>2. Knows(m.from, m.dest)' /\ Knows(m.to, m.orig)'
      BY <1>2, <2>3, <3>1, KnowsNext DEF MsgKnown
    <3> QED BY <2>3, <3>2 DEF MsgKnown
  <2>4. CASE m.type = "DATA"
    <3>1. m.to \in Node /\ Dst[m.pkt] \in Node
      BY <2>1, <2>4, MessageKinds, FlowAssumption DEF DataMsg
    <3> QED BY <1>2, <2>4, <3>1, KnowsNext DEF MsgKnown
  <2> QED BY <2>2, <2>3, <2>4 DEF MsgKnown
<1>3. \A m \in msgs' : MsgKnown(m)'
  BY <1>2, MsgKnownInv
<1> QED BY <1>1, <1>3 DEF KnownInv, MsgKnown, ReceiverKnows, SenderKnows

\* What the operations of the table do to its entries.
LEMMA DeactivateEntry ==
  ASSUME NEW t \in Table, NEW dst \in Node, NEW x \in Node
  PROVE  /\ Deactivate(t, dst)[x].nextHop = t[x].nextHop
         /\ t[x] = NoEntry => Deactivate(t, dst)[x] = NoEntry
<1>1. Deactivate(t, dst)[x] = IF x = dst THEN [t[x] EXCEPT !.active = FALSE] ELSE t[x]
  BY DEF Deactivate, Table
<1>2. t[x] \in Entry
  BY DEF Table
<1>3. [t[x] EXCEPT !.active = FALSE].nextHop = t[x].nextHop
  BY <1>2 DEF Entry
<1>4. ~ t[x].active => [t[x] EXCEPT !.active = FALSE] = t[x]
  BY <1>2 DEF Entry
<1> QED BY <1>1, <1>3, <1>4 DEF NoEntry

LEMMA RreqTable ==
  ASSUME NEW t \in Table, NEW q \in RreqMsg, NEW src \in Node,
         NEW u \in Table, u = UpdateFromRREQ(t, [q EXCEPT !.hop = NextHopCount(@)], src)
  PROVE  /\ \A dst \in Node : u[dst] = t[dst] \/ (dst = q.orig /\ u[dst].nextHop = src)
         /\ q.origSeq > 0 /\ t[q.orig] = NoEntry => u[q.orig].nextHop = src
<1> DEFINE r == [q EXCEPT !.hop = NextHopCount(@)]
<1>1. q.orig \in Node /\ r.orig = q.orig /\ r.origSeq = q.origSeq
  BY DEF RreqMsg
<1>2. \/ u = Learn(t, q.orig, src, r.origSeq, r.hop)
      \/ u = t /\ ~ (q.origSeq > t[q.orig].seq)
  BY <1>1 DEF UpdateFromRREQ
<1> HIDE DEF r
<1>3. CASE u = Learn(t, q.orig, src, r.origSeq, r.hop)
  <2>1. \A x \in Node : x # q.orig => u[x] = t[x]
    BY <1>1, <1>3 DEF Learn, Table
  <2>2. u[q.orig].nextHop = src
    BY <1>1, <1>3 DEF Learn, Table
  <2> QED BY <2>1, <2>2
<1>4. CASE u = t /\ ~ (q.origSeq > t[q.orig].seq)
  BY <1>4 DEF NoEntry
<1> QED BY <1>2, <1>3, <1>4

LEMMA RrepTable ==
  ASSUME NEW t \in Table, NEW r \in RrepMsg, NEW src \in Node,
         NEW u \in Table, u = UpdateFromRREP(t, r, src)
  PROVE  /\ \A dst \in Node : u[dst] = t[dst] \/ (dst = r.dest /\ u[dst].nextHop = src)
         /\ u[r.dest].active
         /\ t[r.dest] = NoEntry => u[r.dest].nextHop = src
<1>1. r.dest \in Node
  BY DEF RrepMsg
<1>2. \/ u = Learn(t, r.dest, src, r.destSeq, r.hop)
      \/ u = t /\ t[r.dest].active
  BY DEF UpdateFromRREP
<1>3. CASE u = Learn(t, r.dest, src, r.destSeq, r.hop)
  <2>1. \A x \in Node : x # r.dest => u[x] = t[x]
    BY <1>1, <1>3 DEF Learn, Table
  <2>2. u[r.dest].nextHop = src /\ u[r.dest].active
    BY <1>1, <1>3 DEF Learn, Table
  <2> QED BY <2>1, <2>2
<1>4. CASE u = t /\ t[r.dest].active
  BY <1>4 DEF NoEntry
<1> QED BY <1>2, <1>3, <1>4

LEMMA ForwardedTable ==
  ASSUME NEW t \in Table, NEW r \in RrepMsg, NEW src \in Node,
         NEW u \in Table, u = ForwardTable(UpdateFromRREP(t, r, src), r, src)
  PROVE  /\ \A dst \in Node : u[dst] = t[dst] \/ (dst = r.dest /\ u[dst].nextHop = src)
         /\ t[r.dest] = NoEntry => u[r.dest].nextHop = src
<1> DEFINE t1 == UpdateFromRREP(t, r, src)
           r1 == [r EXCEPT !.hop = NextHopCount(@)]
<1>1. t1 \in Table /\ r1 \in RrepMsg /\ r1.dest = r.dest /\ r.dest \in Node
  BY RrepTableType, ForwardedRrepType DEF RrepMsg
<1>2. /\ \A dst \in Node : t1[dst] = t[dst] \/ (dst = r.dest /\ t1[dst].nextHop = src)
      /\ t[r.dest] = NoEntry => t1[r.dest].nextHop = src
  BY <1>1, RrepTable
<1>3. u = t1 \/ u = UpdateFromRREP(t1, r1, src)
  BY DEF ForwardTable
<1> HIDE DEF t1, r1
<1>4. CASE u = t1
  BY <1>2, <1>4
<1>5. CASE u = UpdateFromRREP(t1, r1, src)
  <2>1. \A dst \in Node : u[dst] = t1[dst] \/ (dst = r.dest /\ u[dst].nextHop = src)
    BY <1>1, <1>5, RrepTable
  <2> QED BY <1>1, <1>2, <2>1
<1> QED BY <1>3, <1>4, <1>5

-----------------------------------------------------------------------------
\* Sending: no table gets a new next hop, and what is put on the air is known.

LEMMA RequestRouteKnown ==
  ASSUME TypeOK, NEW n \in Node, NEW dst \in Node, NEW k \in Nat, NEW net,
         RequestRoute(n, dst, k, net)
  PROVE  \A m \in msgs' : m \in net \/ MsgKnown(m)
<1>1. ASSUME NEW i \in 1 .. k,
             NEW m \in BroadcastRreq(n, n, rreqId[n] + i, seqNum[n] + i, dst, 0)
      PROVE  MsgKnown(m)
  <2>1. m.type = "RREQ" /\ m.orig = n /\ m.from = n /\ m.origSeq = seqNum[n] + i
    BY DEF BroadcastRreq
  <2>2. seqNum[n] \in Nat
    BY DEF TypeOK
  <2> QED BY <2>1, <2>2 DEF MsgKnown, Knows
<1> QED BY <1>1 DEF RequestRoute

LEMMA SameTable ==
  ASSUME UNCHANGED route
  PROVE  TableStep
  BY DEF TableStep, EntryStep

LEMMA DeactivateStep ==
  ASSUME TypeOK, NEW n \in Node, NEW dst \in Node,
         route' = [route EXCEPT ![n] = Deactivate(@, dst)]
  PROVE  TableStep
<1>1. ASSUME NEW k \in Node, NEW x \in Node
      PROVE  EntryStep(route[k][x], route'[k][x], x)
  <2>1. route[k] \in Table
        /\ route'[k] = IF k = n THEN Deactivate(route[k], dst) ELSE route[k]
    BY DEF TypeOK, Table
  <2> QED BY <2>1, DeactivateEntry DEF EntryStep
<1> QED BY <1>1 DEF TableStep

LEMMA RepairLinkKnown ==
  ASSUME TypeOK, NEW n \in Node, NEW dst \in Node, NEW o \in Node, NEW net,
         RepairLink(n, dst, o, net)
  PROVE  TableStep /\ \A m \in msgs' : m \in net \/ MsgKnown(m)
<1>1. CASE RequestRoute(n, dst, 1, net) /\ UNCHANGED route
  BY <1>1, SameTable, RequestRouteKnown
<1>2. CASE /\ route' = [route EXCEPT ![n] = Deactivate(@, dst)]
           /\ msgs' = net \cup {Rerr(n, route[n][o].nextHop, dst, o)}
  <2>1. MsgKnown(Rerr(n, route[n][o].nextHop, dst, o))
    BY DEF MsgKnown, Rerr
  <2> QED BY <1>2, <2>1, DeactivateStep
<1> QED BY <1>1, <1>2 DEF RepairLink

LEMMA TransmitKnown ==
  ASSUME TypeOK, KnownInv, NEW n \in Node, NEW pkt \in Packet, NEW o \in Node, NEW net,
         Transmit(n, pkt, o, net)
  PROVE  TableStep /\ WaitingForDest' /\ \A m \in msgs' : m \in net \/ MsgKnown(m)
<1>0. Dst[pkt] \in Node
  BY FlowAssumption
<1>1. CASE /\ buffer' = [buffer EXCEPT ![n][Dst[pkt]] = FifoPush(@, pkt, PacketBufferSize)]
           /\ RequestRoute(n, Dst[pkt], 1, net)
           /\ UNCHANGED route
  <2> DEFINE old == buffer[n][Dst[pkt]]
             new == FifoPush(old, pkt, PacketBufferSize)
  <2>1. old \in Seq(Packet) /\ \A i \in 1 .. Len(old) : Dst[old[i]] = Dst[pkt]
    <3>1. old \in Seq(Packet)
      BY <1>0 DEF TypeOK
    <3>2. \A i \in 1 .. Len(old) : Dst[old[i]] = Dst[pkt]
      BY <1>0 DEF KnownInv, WaitingForDest
    <3> QED BY <3>1, <3>2
  <2>2. \A i \in 1 .. Len(new) : Dst[new[i]] = Dst[pkt]
    <3>1. CASE Len(old) = PacketBufferSize
      <4>1. old # <<>>
        BY <3>1, BoundAssumption
      <4>2. /\ Tail(old) \in Seq(Packet) /\ Len(Tail(old)) = Len(old) - 1
            /\ \A i \in 1 .. Len(Tail(old)) : Tail(old)[i] = old[i + 1]
        BY <2>1, <4>1, HeadTailProperties, Z3
      <4>3. new = Append(Tail(old), pkt)
        BY <3>1 DEF FifoPush
      <4> DEFINE t == Tail(old)
      <4> HIDE DEF t, old, new
      <4>4. /\ Len(new) = Len(t) + 1 /\ Len(t) \in Nat
            /\ \A i \in 1 .. Len(t) : new[i] = t[i]
            /\ new[Len(t) + 1] = pkt
        BY <4>2, <4>3, AppendProperties, LenProperties DEF t
      <4>5. \A i \in 1 .. Len(t) : Dst[t[i]] = Dst[pkt]
        <5>1. \A i \in 1 .. Len(t) : i + 1 \in 1 .. Len(old)
          BY <2>1, <4>2, LenProperties DEF t
        <5> QED BY <5>1, <2>1, <4>2 DEF t
      <4> QED BY <4>4, <4>5
    <3>2. CASE Len(old) # PacketBufferSize
      <4>1. new = Append(old, pkt)
        BY <3>2 DEF FifoPush
      <4> HIDE DEF old, new
      <4>2. /\ Len(new) = Len(old) + 1 /\ Len(old) \in Nat
            /\ \A i \in 1 .. Len(old) : new[i] = old[i]
            /\ new[Len(old) + 1] = pkt
        BY <2>1, <4>1, AppendProperties, LenProperties
      <4> QED BY <2>1, <4>2
    <3> QED BY <3>1, <3>2
  <2>3. ASSUME NEW k \in Node, NEW x \in Node
        PROVE  buffer'[k][x] = IF k = n /\ x = Dst[pkt] THEN new ELSE buffer[k][x]
    BY <1>0, <1>1 DEF TypeOK
  <2> HIDE DEF new
  <2>4. WaitingForDest'
    BY <2>2, <2>3 DEF KnownInv, WaitingForDest
  <2> QED BY <1>0, <1>1, <2>4, SameTable, RequestRouteKnown
<1>2. CASE /\ route[n][Dst[pkt]].nextHop \in nbr[n]
           /\ msgs' = net \cup {Data(n, route[n][Dst[pkt]].nextHop, o, pkt)}
           /\ UNCHANGED <<route, buffer>>
  <2>1. HasEntry(route[n], Dst[pkt])
    BY <1>2, NoAddrAssumption DEF HasEntry, TypeOK
  <2>2. Knows(route[n][Dst[pkt]].nextHop, Dst[pkt])
    BY <1>0, <2>1 DEF KnownInv, NextHopKnows
  <2>3. MsgKnown(Data(n, route[n][Dst[pkt]].nextHop, o, pkt))
    BY <2>2 DEF MsgKnown, Data
  <2>4. WaitingForDest'
    BY <1>2 DEF KnownInv, WaitingForDest
  <2> QED BY <1>2, <2>3, <2>4, SameTable
<1>3. CASE RepairLink(n, Dst[pkt], o, net) /\ UNCHANGED buffer
  <2>1. WaitingForDest'
    BY <1>3 DEF KnownInv, WaitingForDest
  <2> QED BY <1>0, <1>3, <2>1, RepairLinkKnown
<1> QED BY <1>1, <1>2, <1>3 DEF Transmit

LEMMA DrainKnown ==
  ASSUME TypeOK, KnownInv, NEW n \in Node, NEW dst \in Node, NEW e, NEW net,
         e.nextHop \in Node => Knows(e.nextHop, dst),
         Drain(n, dst, e, net)
  PROVE  WaitingForDest' /\ \A m \in msgs' : m \in net \/ MsgKnown(m)
<1> DEFINE waiting == buffer[n][dst]
           emptied == [buffer EXCEPT ![n][dst] = <<>>]
<1>0. /\ Len(waiting) \in Nat
      /\ \A i \in 1 .. Len(waiting) : Dst[waiting[i]] = dst
  <2>1. waiting \in Seq(Packet)
    BY DEF TypeOK
  <2>2. WaitingForDest
    BY DEF KnownInv
  <2>3. Len(waiting) \in Nat
    BY <2>1
  <2>4. \A i \in 1 .. Len(waiting) : Dst[waiting[i]] = dst
    BY <2>2 DEF WaitingForDest
  <2> QED BY <2>3, <2>4
<1>1. ASSUME buffer' = emptied PROVE WaitingForDest'
  <2>1. ASSUME NEW k \in Node, NEW x \in Node
        PROVE  buffer'[k][x] = IF k = n /\ x = dst THEN <<>> ELSE buffer[k][x]
    BY <1>1 DEF TypeOK
  <2>2. ASSUME NEW k \in Node, NEW x \in Node, NEW i \in 1 .. Len(buffer'[k][x])
        PROVE  Dst[buffer'[k][x][i]] = x
    <3>1. ~ (k = n /\ x = dst)
      BY <2>1
    <3> QED BY <2>1, <3>1 DEF KnownInv, WaitingForDest
  <2> QED BY <2>2 DEF WaitingForDest
<1>2. CASE /\ e.nextHop \in nbr[n]
           /\ msgs' = net \cup {Data(n, e.nextHop, n, waiting[i]) : i \in 1 .. Len(waiting)}
           /\ buffer' = emptied
  <2>1. Knows(e.nextHop, dst)
    BY <1>2 DEF TypeOK
  <2>2. \A i \in 1 .. Len(waiting) : MsgKnown(Data(n, e.nextHop, n, waiting[i]))
    BY <1>0, <2>1 DEF MsgKnown, Data
  <2> QED BY <1>1, <1>2, <2>2
<1>3. CASE RequestRoute(n, dst, Len(waiting), net) /\ buffer' = emptied
  BY <1>0, <1>1, <1>3, RequestRouteKnown
<1>4. CASE msgs' = net /\ UNCHANGED buffer
  BY <1>4 DEF KnownInv, WaitingForDest
<1> QED BY <1>2, <1>3, <1>4 DEF Drain

-----------------------------------------------------------------------------
\* One step of a node's table that only changes the entry for dst.
LEMMA LearnStep ==
  ASSUME TypeOK, NEW n \in Node, NEW dst \in Node, NEW src \in Node, NEW u \in Table,
         \A k \in Node : route'[k] = IF k = n THEN u ELSE route[k],
         Knows(src, dst),
         \A x \in Node : u[x] = route[n][x] \/ (x = dst /\ u[x].nextHop = src)
  PROVE  TableStep
<1>1. ASSUME NEW k \in Node, NEW x \in Node
      PROVE  EntryStep(route[k][x], route'[k][x], x)
  <2>1. route'[k] = IF k = n THEN u ELSE route[k]
    OBVIOUS
  <2>2. CASE route'[k][x] = route[k][x]
    BY <2>2 DEF EntryStep
  <2>3. CASE k = n /\ x = dst /\ u[x].nextHop = src
    BY <2>1, <2>3 DEF EntryStep
  <2> QED BY <2>1, <2>2, <2>3
<1> QED BY <1>1 DEF TableStep

\* The next hop of an entry that is unchanged or has just been learnt.
LEMMA LearntHopKnows ==
  ASSUME TypeOK, NextHopKnows, NEW n \in Node, NEW dst \in Node, NEW x \in Node,
         NEW src \in Node, NEW u \in Table, Knows(src, dst),
         u[x] = route[n][x] \/ (x = dst /\ u[x].nextHop = src),
         u[x].nextHop \in Node
  PROVE  Knows(u[x].nextHop, x)
  BY NoAddrAssumption DEF NextHopKnows, HasEntry

LEMMA SameBuffer ==
  ASSUME KnownInv, UNCHANGED buffer
  PROVE  WaitingForDest'
  BY DEF KnownInv, WaitingForDest

\* Every handler keeps the three invariants.
LEMMA KnownNext == TypeOK /\ TypeOK' /\ KnownInv /\ [Next]_vars => KnownInv'
<1> SUFFICES ASSUME TypeOK, TypeOK', KnownInv, [Next]_vars PROVE KnownInv'
  OBVIOUS
<1> DEFINE NewKnown == \A m \in msgs' : m \in msgs \/ MsgKnown(m) \/ MsgKnown(m)'
<1>0. /\ NextHopKnows /\ EmptyEntry /\ \A m \in msgs : MsgKnown(m)
      /\ \A n \in Node : route[n] \in Table /\ route'[n] \in Table
  BY MsgKnownInv DEF KnownInv, TypeOK, Table
<1>1. ASSUME NEW n \in Node, NEW pkt \in Packet, SendPacket(n, pkt) PROVE KnownInv'
  <2>1. Transmit(n, pkt, n, msgs)
    BY <1>1 DEF SendPacket
  <2> QED BY <2>1, TransmitKnown, KnownStep
<1>2. ASSUME NEW n \in Node, NEW m \in msgs, DropRREQ(n, m) PROVE KnownInv'
  BY <1>2, SameTable, SameBuffer, KnownStep DEF DropRREQ
<1>3. ASSUME NEW n \in Node, NEW m \in msgs, AnswerRREQ(n, m) PROVE KnownInv'
  <2> DEFINE t == UpdateFromRREQ(route[n], [m EXCEPT !.hop = NextHopCount(@)], m.from)
             back == t[m.orig].nextHop
             own == IF m.dest = n /\ seqNum[n] = 0 THEN 1 ELSE seqNum[n]
             reply == ReplyTo(n, m, t, own, back)
  <2>1. m \in RreqMsg /\ m.from \in Node /\ m.orig \in Node /\ m.dest \in Node /\ m.type = "RREQ"
    BY <1>3, ReceivedType, MessageKinds DEF AnswerRREQ, RreqMsg
  <2>2. Knows(m.from, m.orig)
    BY <1>0, <2>1 DEF MsgKnown
  <2>3. t \in Table
    BY <1>0, <2>1, RreqTableType
  <2>4. /\ route' = [route EXCEPT ![n] = t]
        /\ msgs' = (msgs \ {m}) \cup (IF back \in nbr[n] THEN {reply} ELSE {})
        /\ UNCHANGED buffer /\ ShouldGenerateRREP(n, m)
    BY <1>3 DEF AnswerRREQ
  <2>5. \A x \in Node : t[x] = route[n][x] \/ (x = m.orig /\ t[x].nextHop = m.from)
    BY <1>0, <2>1, <2>3, RreqTable
  <2>6. reply.type = "RREP" /\ reply.from = n /\ reply.dest = m.dest
        /\ reply.to = back /\ reply.orig = m.orig
    BY DEF ReplyTo
  <2> HIDE DEF t, reply, own
  <2>7. TableStep
    <3>1. \A k \in Node : route'[k] = IF k = n THEN t ELSE route[k]
      BY <2>4 DEF TypeOK
    <3>2. \A x \in Node : t[x] = route[n][x] \/ (x = m.orig /\ t[x].nextHop = m.from)
      BY <2>5
    <3>3. m.from \in Node /\ m.orig \in Node
      BY <2>1
    <3> QED BY ONLY TypeOK, <2>2, <2>3, <3>1, <3>2, <3>3, LearnStep, ZenonT(30)
  <2>8. ASSUME back \in nbr[n] PROVE MsgKnown(reply)
    <3>1. back \in Node
      BY <2>8 DEF TypeOK
    <3>2. Knows(back, m.orig)
      BY <1>0, <2>1, <2>2, <2>3, <2>5, <3>1, LearntHopKnows
    <3>3. Knows(n, m.dest)
      BY <2>4 DEF ShouldGenerateRREP, Knows
    <3> QED BY <2>6, <3>2, <3>3 DEF MsgKnown
  <2>9. NewKnown
    BY <2>4, <2>8
  <2> QED BY <2>4, <2>7, <2>9, SameBuffer, KnownStep
<1>4. ASSUME NEW n \in Node, NEW m \in msgs, ForwardRREQ(n, m) PROVE KnownInv'
  <2> DEFINE h == NextHopCount(m.hop)
             t == UpdateFromRREQ(route[n], [m EXCEPT !.hop = NextHopCount(@)], m.from)
             again == BroadcastRreq(n, m.orig, m.id, m.origSeq, m.dest, h)
  <2>1. m \in RreqMsg /\ m.from \in Node /\ m.orig \in Node /\ m.type = "RREQ"
    BY <1>4, ReceivedType, MessageKinds DEF ForwardRREQ, RreqMsg
  <2>2. Knows(m.from, m.orig) /\ m.origSeq > 0
    BY <1>0, <2>1 DEF MsgKnown
  <2>3. t \in Table
    BY <1>0, <2>1, RreqTableType
  <2>4. /\ route' = [route EXCEPT ![n] = t]
        /\ msgs' = (msgs \ {m}) \cup again
        /\ UNCHANGED buffer
    BY <1>4 DEF ForwardRREQ
  <2>5. /\ \A x \in Node : t[x] = route[n][x] \/ (x = m.orig /\ t[x].nextHop = m.from)
        /\ route[n][m.orig] = NoEntry => t[m.orig].nextHop = m.from
    BY <1>0, <2>1, <2>2, <2>3, RreqTable
  <2>6. \A r \in again : r.type = "RREQ" /\ r.from = n /\ r.orig = m.orig
                         /\ r.origSeq = m.origSeq
    BY DEF BroadcastRreq
  <2> HIDE DEF t, again
  <2>7. TableStep
    <3>1. \A k \in Node : route'[k] = IF k = n THEN t ELSE route[k]
      BY <2>4 DEF TypeOK
    <3>2. \A x \in Node : t[x] = route[n][x] \/ (x = m.orig /\ t[x].nextHop = m.from)
      BY <2>5
    <3>3. m.from \in Node /\ m.orig \in Node
      BY <2>1
    <3> QED BY ONLY TypeOK, <2>2, <2>3, <3>1, <3>2, <3>3, LearnStep, ZenonT(30)
  <2>8. HasEntry(route'[n], m.orig)
    <3>1. route'[n] = t
      BY <2>4 DEF TypeOK
    <3>2. HasEntry(t, m.orig)
      <4>1. CASE t[m.orig].nextHop = m.from
        BY <2>1, <4>1, NoAddrAssumption DEF HasEntry
      <4>2. CASE t[m.orig] = route[n][m.orig] /\ route[n][m.orig] # NoEntry
        BY <1>0, <2>1, <4>2 DEF EmptyEntry, HasEntry
      <4> QED BY <2>1, <2>5, <4>1, <4>2
    <3> QED BY <3>1, <3>2
  <2>9. \A r \in again : MsgKnown(r)'
    BY <2>2, <2>6, <2>8 DEF MsgKnown, Knows
  <2>10. NewKnown
    BY <2>4, <2>9
  <2> QED BY <2>4, <2>7, <2>10, SameBuffer, KnownStep
<1>5. ASSUME NEW n \in Node, NEW m \in msgs, CompleteDiscovery(n, m) PROVE KnownInv'
  <2> DEFINE t == UpdateFromRREP(route[n], m, m.from)
             net == msgs \ {m}
  <2>1. m \in RrepMsg /\ m.from \in Node /\ m.dest \in Node /\ m.type = "RREP"
    BY <1>5, ReceivedType, MessageKinds DEF CompleteDiscovery, RrepMsg
  <2>2. Knows(m.from, m.dest)
    BY <1>0, <2>1 DEF MsgKnown
  <2>3. t \in Table
    BY <1>0, <2>1, RrepTableType
  <2>4. route' = [route EXCEPT ![n] = t] /\ Drain(n, m.dest, t[m.dest], net)
    BY <1>5 DEF CompleteDiscovery
  <2>5. \A x \in Node : t[x] = route[n][x] \/ (x = m.dest /\ t[x].nextHop = m.from)
    BY <1>0, <2>1, <2>3, RrepTable
  <2> HIDE DEF t, net
  <2>6. TableStep
    <3>1. \A k \in Node : route'[k] = IF k = n THEN t ELSE route[k]
      BY <2>4 DEF TypeOK
    <3>2. \A x \in Node : t[x] = route[n][x] \/ (x = m.dest /\ t[x].nextHop = m.from)
      BY <2>5
    <3>3. m.from \in Node /\ m.dest \in Node
      BY <2>1
    <3> QED BY ONLY TypeOK, <2>2, <2>3, <3>1, <3>2, <3>3, LearnStep, ZenonT(30)
  <2>7. t[m.dest].nextHop \in Node => Knows(t[m.dest].nextHop, m.dest)
    BY <1>0, <2>1, <2>2, <2>3, <2>5, LearntHopKnows
  <2>8. WaitingForDest' /\ \A r \in msgs' : r \in net \/ MsgKnown(r)
    BY <2>1, <2>4, <2>7, DrainKnown
  <2>9. NewKnown
    BY <2>8 DEF net
  <2> QED BY <2>6, <2>8, <2>9, KnownStep
<1>6. ASSUME NEW n \in Node, NEW m \in msgs, ForwardRREP(n, m) PROVE KnownInv'
  <2> DEFINE t == ForwardTable(UpdateFromRREP(route[n], m, m.from), m, m.from)
             hop == t[m.orig].nextHop
             on == [m EXCEPT !.to = hop, !.from = n, !.hop = NextHopCount(@)]
  <2>1. /\ m \in RrepMsg /\ m.from \in Node /\ m.dest \in Node /\ m.orig \in Node
        /\ m.type = "RREP"
    BY <1>6, ReceivedType, MessageKinds DEF ForwardRREP, RrepMsg
  <2>2. Knows(m.from, m.dest)
    BY <1>0, <2>1 DEF MsgKnown
  <2>3. t \in Table
    BY <1>0, <2>1, RrepTableType, ForwardTableType
  <2>4. /\ route' = [route EXCEPT ![n] = t]
        /\ msgs' = (msgs \ {m}) \cup (IF hop \in nbr[n] THEN {on} ELSE {})
        /\ UNCHANGED buffer
    BY <1>6 DEF ForwardRREP
  <2>5. /\ \A x \in Node : t[x] = route[n][x] \/ (x = m.dest /\ t[x].nextHop = m.from)
        /\ route[n][m.dest] = NoEntry => t[m.dest].nextHop = m.from
    BY <1>0, <2>1, <2>3, ForwardedTable
  <2>6. /\ on.type = "RREP" /\ on.from = n /\ on.to = hop
        /\ on.orig = m.orig /\ on.dest = m.dest
    BY <2>1 DEF RrepMsg
  <2> HIDE DEF t, on
  <2>7. TableStep
    <3>1. \A k \in Node : route'[k] = IF k = n THEN t ELSE route[k]
      BY <2>4 DEF TypeOK
    <3>2. \A x \in Node : t[x] = route[n][x] \/ (x = m.dest /\ t[x].nextHop = m.from)
      BY <2>5
    <3>3. m.from \in Node /\ m.dest \in Node
      BY <2>1
    <3> QED BY ONLY TypeOK, <2>2, <2>3, <3>1, <3>2, <3>3, LearnStep, ZenonT(30)
  <2>8. Knows(n, m.dest)'
    <3>1. route'[n] = t
      BY <2>4 DEF TypeOK
    <3>2. HasEntry(t, m.dest)
      <4>1. CASE t[m.dest].nextHop = m.from
        BY <2>1, <4>1, NoAddrAssumption DEF HasEntry
      <4>2. CASE t[m.dest] = route[n][m.dest] /\ route[n][m.dest] # NoEntry
        BY <1>0, <2>1, <4>2 DEF EmptyEntry, HasEntry
      <4> QED BY <2>1, <2>5, <4>1, <4>2
    <3> QED BY <3>1, <3>2 DEF Knows
  <2>9. ASSUME NEW k \in nbr[n], k = hop PROVE Knows(k, m.orig)'
    <3>1. k \in Node
      BY <2>9 DEF TypeOK
    <3>2. Knows(k, m.orig)
      BY <1>0, <2>1, <2>2, <2>3, <2>5, <2>9, <3>1, LearntHopKnows
    <3> QED BY <2>1, <2>7, <3>1, <3>2, KnowsNext
  <2>10. ASSUME NEW r, r = on, hop \in nbr[n] PROVE MsgKnown(r)'
    BY <2>6, <2>8, <2>9, <2>10 DEF MsgKnown
  <2>11. NewKnown
    BY <2>4, <2>10
  <2> QED BY <2>4, <2>7, <2>11, SameBuffer, KnownStep
<1>7. ASSUME NEW n \in Node, NEW m \in msgs, HandleRERR(n, m) PROVE KnownInv'
  <2> DEFINE t == Deactivate(route[n], m.unreachable)
             error == Rerr(n, t[m.orig].nextHop, m.unreachable, m.orig)
  <2>1. m.unreachable \in Node
    BY <1>7, ReceivedType, MessageKinds DEF HandleRERR, RerrMsg
  <2>2. route' = [route EXCEPT ![n] = Deactivate(@, m.unreachable)] /\ UNCHANGED buffer
    BY <1>7 DEF HandleRERR
  <2>3. TableStep
    BY <2>1, <2>2, DeactivateStep
  <2>4. MsgKnown(error)
    BY DEF MsgKnown, Rerr
  <2>5. NewKnown
    <3>1. CASE RequestRoute(n, m.unreachable, 1, msgs \ {m})
      BY <2>1, <3>1, RequestRouteKnown
    <3>2. CASE msgs' = (msgs \ {m}) \cup (IF t[m.orig].active THEN {error} ELSE {})
      BY <2>4, <3>2
    <3> QED BY <1>7, <3>1, <3>2 DEF HandleRERR
  <2> QED BY <2>2, <2>3, <2>5, SameBuffer, KnownStep
<1>8. ASSUME NEW n \in Node, NEW m \in msgs, HandleData(n, m) PROVE KnownInv'
  <2>1. m.pkt \in Packet /\ m.orig \in Node
    BY <1>8, ReceivedType, MessageKinds DEF HandleData, DataMsg
  <2>2. CASE msgs' = msgs \ {m} /\ UNCHANGED <<route, buffer>>
    BY <2>2, SameTable, SameBuffer, KnownStep
  <2>3. CASE Transmit(n, m.pkt, m.orig, msgs \ {m})
    BY <2>1, <2>3, TransmitKnown, KnownStep
  <2> QED BY <1>8, <2>2, <2>3 DEF HandleData
<1>9. ASSUME NEW m \in msgs, Lose(m) PROVE KnownInv'
  BY <1>9, SameTable, SameBuffer, KnownStep DEF Lose
<1>10. ASSUME NEW n \in Node, NEW k \in Node, AddLink(n, k) PROVE KnownInv'
  <2>1. PICK junk \in JunkChoice :
          route' = [route EXCEPT ![n] = UpdateTableEntry(@, k, k, junk)]
    BY <1>10 DEF AddLink
  <2> DEFINE u == UpdateTableEntry(route[n], k, k, junk)
  <2>2. u = [route[n] EXCEPT ![k] = UpdatedEntry(@, k, junk)]
    BY DEF UpdateTableEntry
  <2>3. \A x \in Node : u[x] = IF x = k THEN UpdatedEntry(route[n][k], k, junk)
                               ELSE route[n][x]
    BY <1>0, <2>2 DEF Table
  <2>4. UpdatedEntry(route[n][k], k, junk).nextHop = k
    <3>1. route[n][k] \in Entry
      BY <1>0 DEF Table
    <3> QED BY <3>1 DEF UpdatedEntry, Entry
  <2>5. u \in Table
    <3>1. route'[n] = u
      BY <2>1 DEF TypeOK
    <3> QED BY <1>0, <3>1
  <2>6. Knows(k, k)
    BY DEF Knows
  <2>7. \A y \in Node : route'[y] = IF y = n THEN u ELSE route[y]
    BY <2>1 DEF TypeOK
  <2> HIDE DEF u
  <2>8. TableStep
    BY <2>3, <2>4, <2>5, <2>6, <2>7, LearnStep
  <2> QED BY <1>10, <2>8, SameBuffer, KnownStep DEF AddLink
<1>11. ASSUME NEW n \in Node, NEW S \in SUBSET nbr[n], RefreshLinks(n, S) PROVE KnownInv'
  <2>1. PICK junk \in [S -> JunkChoice] : route' = [route EXCEPT ![n] =
          [dst \in Node |-> IF dst \in S THEN UpdatedEntry(@[dst], dst, junk[dst])
                            ELSE @[dst]]]
    BY <1>11 DEF RefreshLinks
  <2>2. ASSUME NEW k \in Node, NEW x \in Node
        PROVE  EntryStep(route[k][x], route'[k][x], x)
    <3>1. \/ route'[k][x] = route[k][x]
          \/ route'[k][x] = UpdatedEntry(route[k][x], x, junk[x])
      BY <2>1 DEF TypeOK
    <3>2. route[k][x] \in Entry
      BY DEF TypeOK
    <3>3. UpdatedEntry(route[k][x], x, junk[x]).nextHop = x
      BY <3>2 DEF UpdatedEntry, Entry
    <3> QED BY <3>1, <3>3 DEF EntryStep, Knows
  <2>3. TableStep
    BY <2>2 DEF TableStep
  <2> QED BY <1>11, <2>3, SameBuffer, KnownStep DEF RefreshLinks
<1>12. CASE UNCHANGED vars
  BY <1>12, SameTable, SameBuffer, KnownStep DEF vars
<1> QED
  BY <1>1, <1>2, <1>3, <1>4, <1>5, <1>6, <1>7, <1>8, <1>9, <1>10, <1>11, <1>12
  DEF Next, Traffic, Monitoring, Handle

LEMMA KnownInit == Init => KnownInv
  BY DEF Init, KnownInv, NextHopKnows, ReceiverKnows, SenderKnows, EmptyEntry,
         WaitingForDest, HasEntry, NoEntry

LEMMA KnownCorrect == Spec => []KnownInv
  BY TypeCorrect, TypeInit, TypeNext, KnownInit, KnownNext, PTL DEF Spec

\* A table entry always points to a node that is the destination or has an
\* entry for it.
THEOREM NextHopKnowsCorrect == Spec => []NextHopKnows
  BY KnownCorrect, PTL DEF KnownInv

\* Replies and data are only ever sent to nodes that know where they are going.
THEOREM ReceiverKnowsCorrect == Spec => []ReceiverKnows
  BY KnownCorrect, PTL DEF KnownInv

\* Requests and replies come from nodes that know the way to what they teach.
THEOREM SenderKnowsCorrect == Spec => []SenderKnows
  BY KnownCorrect, PTL DEF KnownInv

-----------------------------------------------------------------------------
\* The loop that sends the waiting packets always finds an active route.
LEMMA NoHangNext == TypeOK /\ NoHang /\ [Next]_vars => NoHang'
<1> SUFFICES ASSUME TypeOK, NoHang, [Next]_vars PROVE NoHang'
  OBVIOUS
<1>1. ASSUME NEW n \in Node, NEW m \in msgs, CompleteDiscovery(n, m) PROVE UNCHANGED hung
  <2> DEFINE t == UpdateFromRREP(route[n], m, m.from)
  <2>1. m \in RrepMsg /\ m.from \in Node /\ route[n] \in Table
    BY <1>1, ReceivedType, MessageKinds DEF CompleteDiscovery, TypeOK, Table
  <2>2. t \in Table
    BY <2>1, RrepTableType
  <2>3. t[m.dest].active
    BY <2>1, <2>2, RrepTable
  <2>4. Drain(n, m.dest, t[m.dest], msgs \ {m})
    BY <1>1 DEF CompleteDiscovery
  <2> HIDE DEF t
  <2> QED BY <2>3, <2>4 DEF Drain
<1>2. CASE Traffic
  <2>1. ASSUME NEW n \in Node, NEW pkt \in Packet, SendPacket(n, pkt) PROVE UNCHANGED hung
    BY <2>1 DEF SendPacket
  <2>2. ASSUME NEW n \in Node, NEW m \in msgs, Handle(n, m) PROVE UNCHANGED hung
    <3>1. CASE DropRREQ(n, m) \/ AnswerRREQ(n, m) \/ ForwardRREQ(n, m)
      BY <3>1 DEF DropRREQ, AnswerRREQ, ForwardRREQ
    <3>2. CASE ForwardRREP(n, m) \/ HandleRERR(n, m) \/ HandleData(n, m)
      BY <3>2 DEF ForwardRREP, HandleRERR, HandleData
    <3> QED BY <2>2, <3>1, <3>2, <1>1 DEF Handle
  <2>3. ASSUME NEW m \in msgs, Lose(m) PROVE UNCHANGED hung
    BY <2>3 DEF Lose
  <2>4. UNCHANGED hung
    BY <1>2, <2>1, <2>2, <2>3 DEF Traffic
  <2> QED BY <2>4 DEF NoHang
<1>3. CASE Monitoring
  BY <1>3 DEF Monitoring, AddLink, RefreshLinks, NoHang
<1>4. CASE UNCHANGED vars
  BY <1>4 DEF vars, NoHang
<1> QED BY <1>2, <1>3, <1>4 DEF Next

\* No handler loops for ever.
THEOREM NoHangCorrect == Spec => []NoHang
<1>1. Init => NoHang
  BY DEF Init, NoHang
<1> QED BY <1>1, TypeCorrect, NoHangNext, PTL DEF Spec
=============================================================================
