-------------------------- MODULE AodvPacketProofs --------------------------
(***************************************************************************)
(* What Aodv's packets carry and where they are, for every network,        *)
(* traffic and bound: the sequence numbers and ids of requests and         *)
(* replies, the ids a node remembers, and the one place of a data packet.  *)
(***************************************************************************)
EXTENDS AodvProofs, DataLemmas

\* A node's own numbers only grow.
NumbersGrow ==
  \A n \in Node : seqNum[n] <= seqNum'[n] /\ rreqId[n] <= rreqId'[n]

\* A request that node n has just originated for dst.
Fresh(m, n, dst) ==
  /\ m.from = n /\ m.orig = n /\ m.dest = dst
  /\ m.id > rreqId[n] /\ m.id - rreqId[n] = m.origSeq - seqNum[n]
  /\ m.id <= rreqId'[n] /\ m.origSeq <= seqNum'[n]

\* The step puts no request on the air but new ones of n for dst; net is what
\* was there before.
OnlyFresh(n, dst, net) ==
  \A m \in msgs' : m.type = "RREQ" => m \in net \/ Fresh(m, n, dst)

\* ... and no reply.
NoReply(net) == \A m \in msgs' : m.type = "RREP" => m \in net

\* No entry's sequence number rises.
SeqsKept == \A n, x \in Node : route'[n][x].seq = route[n][x].seq

-----------------------------------------------------------------------------
LEMMA SameNumbers ==
  ASSUME TypeOK, UNCHANGED <<seqNum, rreqId>>
  PROVE  NumbersGrow
  BY DEF NumbersGrow, TypeOK

LEMMA RequestRouteFresh ==
  ASSUME TypeOK, NEW n \in Node, NEW dst \in Node, NEW k \in Nat, NEW net,
         RequestRoute(n, dst, k, net)
  PROVE  NumbersGrow /\ OnlyFresh(n, dst, net) /\ NoReply(net)
<1>1. /\ seqNum' = [seqNum EXCEPT ![n] = @ + k]
      /\ rreqId' = [rreqId EXCEPT ![n] = @ + k]
  BY DEF RequestRoute
<1>2. /\ seqNum[n] \in Nat /\ rreqId[n] \in Nat
      /\ seqNum'[n] = seqNum[n] + k /\ rreqId'[n] = rreqId[n] + k
  BY <1>1 DEF TypeOK
<1>3. NumbersGrow
  BY <1>1, SMTT(20), ZenonT(30) DEF TypeOK, NumbersGrow
<1>4. ASSUME NEW i \in 1 .. k,
             NEW m \in BroadcastRreq(n, n, rreqId[n] + i, seqNum[n] + i, dst, 0)
      PROVE  m.type = "RREQ" /\ Fresh(m, n, dst)
  <2>1. /\ m.type = "RREQ" /\ m.from = n /\ m.orig = n /\ m.dest = dst
        /\ m.id = rreqId[n] + i /\ m.origSeq = seqNum[n] + i
    BY DEF BroadcastRreq
  <2> QED BY <1>2, <2>1 DEF Fresh
<1>5. ASSUME NEW m \in msgs', m \notin net PROVE m.type = "RREQ" /\ Fresh(m, n, dst)
  BY <1>4, <1>5 DEF RequestRoute
<1> QED BY <1>3, <1>5 DEF OnlyFresh, NoReply

LEMMA DeactivateSeqs ==
  ASSUME TypeOK, NEW n \in Node, NEW dst \in Node,
         route' = [route EXCEPT ![n] = Deactivate(@, dst)]
  PROVE  SeqsKept
<1>1. ASSUME NEW k \in Node, NEW x \in Node
      PROVE  route'[k][x].seq = route[k][x].seq
  <2>1. /\ route[k] \in [Node -> Entry] /\ route[k][x] \in Entry
        /\ route'[k] = IF k = n THEN Deactivate(route[k], dst) ELSE route[k]
    BY DEF TypeOK
  <2>2. Deactivate(route[k], dst)[x] =
          IF x = dst THEN [route[k][x] EXCEPT !.active = FALSE] ELSE route[k][x]
    BY <2>1 DEF Deactivate
  <2>3. [route[k][x] EXCEPT !.active = FALSE].seq = route[k][x].seq
    BY <2>1 DEF Entry
  <2> QED BY <2>1, <2>2, <2>3
<1> QED BY <1>1 DEF SeqsKept

LEMMA RepairLinkFresh ==
  ASSUME TypeOK, NEW n \in Node, NEW dst \in Node, NEW o \in Node, NEW net,
         RepairLink(n, dst, o, net)
  PROVE  NumbersGrow /\ SeqsKept /\ OnlyFresh(n, dst, net) /\ NoReply(net)
<1>1. CASE RequestRoute(n, dst, 1, net) /\ UNCHANGED route
  BY <1>1, RequestRouteFresh DEF SeqsKept
<1>2. CASE /\ route' = [route EXCEPT ![n] = Deactivate(@, dst)]
           /\ msgs' = net \cup {Rerr(n, route[n][o].nextHop, dst, o)}
           /\ UNCHANGED <<rreqId, seqNum>>
  <2>1. Rerr(n, route[n][o].nextHop, dst, o).type = "RERR"
    BY DEF Rerr
  <2>2. OnlyFresh(n, dst, net) /\ NoReply(net)
    BY <1>2, <2>1 DEF OnlyFresh, NoReply
  <2> QED BY <1>2, <2>2, SameNumbers, DeactivateSeqs
<1> QED BY <1>1, <1>2 DEF RepairLink

LEMMA TransmitFresh ==
  ASSUME TypeOK, NEW n \in Node, NEW pkt \in Packet, NEW o \in Node, NEW net,
         Transmit(n, pkt, o, net)
  PROVE  NumbersGrow /\ SeqsKept /\ OnlyFresh(n, Dst[pkt], net) /\ NoReply(net)
<1>0. Dst[pkt] \in Node
  BY FlowAssumption
<1>1. CASE RequestRoute(n, Dst[pkt], 1, net) /\ UNCHANGED route
  BY <1>0, <1>1, RequestRouteFresh DEF SeqsKept
<1>2. CASE /\ msgs' = net \cup {Data(n, route[n][Dst[pkt]].nextHop, o, pkt)}
           /\ UNCHANGED <<seqNum, rreqId, route>>
  <2>1. Data(n, route[n][Dst[pkt]].nextHop, o, pkt).type = "DATA"
    BY DEF Data
  <2>2. OnlyFresh(n, Dst[pkt], net) /\ NoReply(net)
    BY <1>2, <2>1 DEF OnlyFresh, NoReply
  <2> QED BY <1>2, <2>2, SameNumbers DEF SeqsKept
<1>3. CASE RepairLink(n, Dst[pkt], o, net)
  BY <1>0, <1>3, RepairLinkFresh
<1> QED BY <1>1, <1>2, <1>3 DEF Transmit

LEMMA DrainFresh ==
  ASSUME TypeOK, NEW n \in Node, NEW dst \in Node, NEW e, NEW net, Drain(n, dst, e, net)
  PROVE  NumbersGrow /\ OnlyFresh(n, dst, net) /\ NoReply(net)
<1> DEFINE waiting == buffer[n][dst]
<1>0. Len(waiting) \in Nat
  BY DEF TypeOK
<1>1. CASE /\ msgs' = net \cup {Data(n, e.nextHop, n, waiting[i]) : i \in 1 .. Len(waiting)}
           /\ UNCHANGED <<seqNum, rreqId>>
  <2>1. \A i \in 1 .. Len(waiting) : Data(n, e.nextHop, n, waiting[i]).type = "DATA"
    BY DEF Data
  <2>2. OnlyFresh(n, dst, net) /\ NoReply(net)
    BY <1>1, <2>1 DEF OnlyFresh, NoReply
  <2> QED BY <1>1, <2>2, SameNumbers
<1>2. CASE RequestRoute(n, dst, Len(waiting), net)
  BY <1>0, <1>2, RequestRouteFresh
<1>3. CASE msgs' = net /\ UNCHANGED <<seqNum, rreqId>>
  BY <1>3, SameNumbers DEF OnlyFresh, NoReply
<1> QED BY <1>1, <1>2, <1>3 DEF Drain

\* What the two update rules do to sequence numbers.
LEMMA RreqSeqs ==
  ASSUME NEW t \in Table, NEW q \in RreqMsg, NEW src \in Node,
         NEW u \in Table, u = UpdateFromRREQ(t, [q EXCEPT !.hop = NextHopCount(@)], src)
  PROVE  \A x \in Node : u[x].seq = t[x].seq \/ (x = q.orig /\ u[x].seq = q.origSeq)
<1> DEFINE r == [q EXCEPT !.hop = NextHopCount(@)]
<1>1. q.orig \in Node /\ r.orig = q.orig /\ r.origSeq = q.origSeq
  BY DEF RreqMsg
<1>2. u = Learn(t, q.orig, src, r.origSeq, r.hop) \/ u = t
  BY <1>1 DEF UpdateFromRREQ
<1> HIDE DEF r
<1> QED BY <1>1, <1>2 DEF Learn, Table

LEMMA RrepSeqs ==
  ASSUME NEW t \in Table, NEW r \in RrepMsg, NEW src \in Node,
         NEW u \in Table, u = UpdateFromRREP(t, r, src)
  PROVE  \A x \in Node : u[x].seq = t[x].seq \/ (x = r.dest /\ u[x].seq = r.destSeq)
<1>1. r.dest \in Node
  BY DEF RrepMsg
<1>2. u = Learn(t, r.dest, src, r.destSeq, r.hop) \/ u = t
  BY DEF UpdateFromRREP
<1> QED BY <1>1, <1>2 DEF Learn, Table

LEMMA ForwardedSeqs ==
  ASSUME NEW t \in Table, NEW r \in RrepMsg, NEW src \in Node,
         NEW u \in Table, u = ForwardTable(UpdateFromRREP(t, r, src), r, src)
  PROVE  \A x \in Node : u[x].seq = t[x].seq \/ (x = r.dest /\ u[x].seq = r.destSeq)
<1> DEFINE t1 == UpdateFromRREP(t, r, src)
           r1 == [r EXCEPT !.hop = NextHopCount(@)]
<1>1. t1 \in Table /\ r1 \in RrepMsg /\ r1.dest = r.dest /\ r1.destSeq = r.destSeq
  BY RrepTableType, ForwardedRrepType DEF RrepMsg
<1>2. \A x \in Node : t1[x].seq = t[x].seq \/ (x = r.dest /\ t1[x].seq = r.destSeq)
  BY <1>1, RrepSeqs
<1>3. u = t1 \/ u = UpdateFromRREP(t1, r1, src)
  BY DEF ForwardTable
<1> HIDE DEF t1, r1
<1>4. \A x \in Node : u[x].seq = t1[x].seq \/ (x = r.dest /\ u[x].seq = r.destSeq)
  BY <1>1, <1>3, RrepSeqs
<1> QED BY <1>2, <1>4

-----------------------------------------------------------------------------
\* m is a copy of a request that was on the air before the step.
Copy(m) ==
  \E m0 \in msgs : /\ m0.type = "RREQ" /\ m0.orig = m.orig /\ m0.id = m.id
                   /\ m0.origSeq = m.origSeq /\ m0.dest = m.dest

\* Only one node originates requests in a step, and for one destination.
RequestStep ==
  \/ \A m \in msgs' : m.type = "RREQ" => Copy(m)
  \/ \E n, dst \in Node : \A m \in msgs' : m.type = "RREQ" => Copy(m) \/ Fresh(m, n, dst)

\* Node n remembers request m and may broadcast it again.
Remembered(n, m) ==
  /\ m.type = "RREQ" /\ m.orig # n
  /\ seen' = [seen EXCEPT ![n][m.orig] = Remember(@, m.id)]
  /\ \A r \in msgs' :
       r.type = "RREQ" => r \in msgs \/ (r.from = n /\ r.orig = m.orig /\ r.id = m.id)

\* Nodes other than the originator send a request only when they remember it.
MemoryStep ==
  \/ UNCHANGED seen /\ \A r \in msgs' : r.type = "RREQ" => r \in msgs \/ r.from = r.orig
  \/ \E n \in Node, m \in msgs : Remembered(n, m)

LEMMA OldRequests ==
  ASSUME \A m \in msgs' : m.type = "RREQ" => m \in msgs
  PROVE  RequestStep
  BY DEF RequestStep, Copy

LEMMA OldMemory ==
  ASSUME \A m \in msgs' : m.type = "RREQ" => m \in msgs, UNCHANGED seen
  PROVE  MemoryStep
  BY DEF MemoryStep

LEMMA FreshRequests ==
  ASSUME NEW n \in Node, NEW dst \in Node, NEW net \in SUBSET msgs, OnlyFresh(n, dst, net),
         UNCHANGED seen
  PROVE  RequestStep /\ MemoryStep
<1>1. \A m \in msgs' : m.type = "RREQ" => Copy(m) \/ Fresh(m, n, dst)
  BY DEF OnlyFresh, Copy
<1>2. \A m \in msgs' : m.type = "RREQ" => m \in msgs \/ m.from = m.orig
  BY DEF OnlyFresh, Fresh
<1> QED BY <1>1, <1>2 DEF RequestStep, MemoryStep

LEMMA RequestStepNext == TypeOK /\ [Next]_vars => NumbersGrow /\ RequestStep /\ MemoryStep
<1> SUFFICES ASSUME TypeOK, [Next]_vars PROVE NumbersGrow /\ RequestStep /\ MemoryStep
  OBVIOUS
<1>1. ASSUME NEW n \in Node, NEW pkt \in Packet, SendPacket(n, pkt)
      PROVE  NumbersGrow /\ RequestStep /\ MemoryStep
  <2>1. Dst[pkt] \in Node
    BY FlowAssumption
  <2>2. NumbersGrow /\ OnlyFresh(n, Dst[pkt], msgs)
    BY <1>1, TransmitFresh DEF SendPacket
  <2>3. UNCHANGED seen
    BY <1>1 DEF SendPacket
  <2> QED BY <2>1, <2>2, <2>3, FreshRequests
<1>2. ASSUME NEW n \in Node, NEW m \in msgs, DropRREQ(n, m)
      PROVE  NumbersGrow /\ RequestStep /\ MemoryStep
  BY <1>2, SameNumbers, OldRequests, OldMemory DEF DropRREQ
<1>3. ASSUME NEW n \in Node, NEW m \in msgs, AnswerRREQ(n, m)
      PROVE  NumbersGrow /\ RequestStep /\ MemoryStep
  <2>1. PICK own, t, back :
          /\ own = IF m.dest = n /\ seqNum[n] = 0 THEN 1 ELSE seqNum[n]
          /\ seqNum' = [seqNum EXCEPT ![n] = own] /\ UNCHANGED rreqId
          /\ msgs' = (msgs \ {m}) \cup
                     (IF back \in nbr[n] THEN {ReplyTo(n, m, t, own, back)} ELSE {})
    BY <1>3 DEF AnswerRREQ
  <2>2. NumbersGrow
    BY <2>1 DEF NumbersGrow, TypeOK
  <2>3. ReplyTo(n, m, t, own, back).type = "RREP"
    BY DEF ReplyTo
  <2>4. \A r \in msgs' : r.type = "RREQ" => r \in msgs
    BY <2>1, <2>3
  <2>5. Remembered(n, m)
    BY <1>3, <2>4 DEF AnswerRREQ, IsDuplicateRREQ, Remembered
  <2> QED BY <2>2, <2>4, <2>5, OldRequests DEF MemoryStep
<1>4. ASSUME NEW n \in Node, NEW m \in msgs, ForwardRREQ(n, m)
      PROVE  NumbersGrow /\ RequestStep /\ MemoryStep
  <2> DEFINE again == BroadcastRreq(n, m.orig, m.id, m.origSeq, m.dest, NextHopCount(m.hop))
  <2>1. /\ msgs' = (msgs \ {m}) \cup again /\ UNCHANGED <<seqNum, rreqId>>
        /\ m.type = "RREQ"
    BY <1>4 DEF ForwardRREQ
  <2>2. \A r \in again : Copy(r)
    BY <2>1 DEF BroadcastRreq, Copy
  <2>3. \A r \in msgs' : r.type = "RREQ" => Copy(r)
    <3> HIDE DEF again
    <3> QED BY <2>1, <2>2 DEF Copy
  <2>4. \A r \in again : r.from = n /\ r.orig = m.orig /\ r.id = m.id
    BY DEF BroadcastRreq
  <2>5. Remembered(n, m)
    <3> HIDE DEF again
    <3> QED BY <1>4, <2>1, <2>4 DEF ForwardRREQ, IsDuplicateRREQ, Remembered
  <2> QED BY <2>1, <2>3, <2>5, SameNumbers DEF RequestStep, MemoryStep
<1>5. ASSUME NEW n \in Node, NEW m \in msgs, CompleteDiscovery(n, m)
      PROVE  NumbersGrow /\ RequestStep /\ MemoryStep
  <2>1. m.dest \in Node
    BY <1>5, ReceivedType, MessageKinds DEF CompleteDiscovery, RrepMsg
  <2>2. PICK e : Drain(n, m.dest, e, msgs \ {m})
    BY <1>5 DEF CompleteDiscovery
  <2>3. UNCHANGED seen
    BY <1>5 DEF CompleteDiscovery
  <2> QED BY <2>1, <2>2, <2>3, DrainFresh, FreshRequests
<1>6. ASSUME NEW n \in Node, NEW m \in msgs, ForwardRREP(n, m)
      PROVE  NumbersGrow /\ RequestStep /\ MemoryStep
  <2>1. PICK hop :
          msgs' = (msgs \ {m}) \cup
            (IF hop \in nbr[n]
             THEN {[m EXCEPT !.to = hop, !.from = n, !.hop = NextHopCount(@)]} ELSE {})
    BY <1>6 DEF ForwardRREP
  <2>2. m \in RrepMsg
    BY <1>6, ReceivedType, MessageKinds DEF ForwardRREP
  <2>3. [m EXCEPT !.to = hop, !.from = n, !.hop = NextHopCount(@)].type = "RREP"
    BY <2>2 DEF RrepMsg
  <2>4. UNCHANGED <<seqNum, rreqId, seen>>
    BY <1>6 DEF ForwardRREP
  <2> QED BY <2>1, <2>3, <2>4, SameNumbers, OldRequests, OldMemory
<1>7. ASSUME NEW n \in Node, NEW m \in msgs, HandleRERR(n, m)
      PROVE  NumbersGrow /\ RequestStep /\ MemoryStep
  <2>1. m.unreachable \in Node
    BY <1>7, ReceivedType, MessageKinds DEF HandleRERR, RerrMsg
  <2>0. UNCHANGED seen
    BY <1>7 DEF HandleRERR
  <2>2. CASE RequestRoute(n, m.unreachable, 1, msgs \ {m})
    BY <2>0, <2>1, <2>2, RequestRouteFresh, FreshRequests
  <2>3. ASSUME NEW to,
               \/ msgs' = (msgs \ {m}) \cup {Rerr(n, to, m.unreachable, m.orig)}
               \/ msgs' = msgs \ {m},
               UNCHANGED <<seqNum, rreqId>>
        PROVE  NumbersGrow /\ RequestStep /\ MemoryStep
    <3>1. Rerr(n, to, m.unreachable, m.orig).type = "RERR"
      BY DEF Rerr
    <3> QED BY <2>0, <2>3, <3>1, SameNumbers, OldRequests, OldMemory
  <2> QED BY <1>7, <2>2, <2>3 DEF HandleRERR
<1>8. ASSUME NEW n \in Node, NEW m \in msgs, HandleData(n, m)
      PROVE  NumbersGrow /\ RequestStep /\ MemoryStep
  <2>1. m.pkt \in Packet /\ m.orig \in Node
    BY <1>8, ReceivedType, MessageKinds DEF HandleData, DataMsg
  <2>0. UNCHANGED seen
    BY <1>8 DEF HandleData
  <2>2. CASE msgs' = msgs \ {m} /\ UNCHANGED <<seqNum, rreqId>>
    BY <2>0, <2>2, SameNumbers, OldRequests, OldMemory
  <2>3. CASE Transmit(n, m.pkt, m.orig, msgs \ {m})
    BY <2>0, <2>1, <2>3, TransmitFresh, FreshRequests, FlowAssumption
  <2> QED BY <1>8, <2>2, <2>3 DEF HandleData
<1>9. CASE UNCHANGED <<seqNum, rreqId, seen>> /\ msgs' \subseteq msgs
  BY <1>9, SameNumbers, OldRequests, OldMemory
<1>10. CASE (\E m \in msgs : Lose(m)) \/ Monitoring \/ UNCHANGED vars
  BY <1>9, <1>10 DEF Lose, Monitoring, AddLink, RefreshLinks, vars
<1> QED
  BY <1>1, <1>2, <1>3, <1>4, <1>5, <1>6, <1>7, <1>8, <1>10 DEF Next, Traffic, Handle

-----------------------------------------------------------------------------
\* Ids and sequence numbers on the air have been reached by their originator.
Numbered ==
  \A m \in msgs :
    m.type = "RREQ" => m.id \in 1 .. rreqId[m.orig] /\ m.origSeq <= seqNum[m.orig]

\* Two requests: the same discovery, or one after the other.
Coherent(m1, m2) ==
  /\ m1.id = m2.id => m1.origSeq = m2.origSeq /\ m1.dest = m2.dest
  /\ m1.id < m2.id => m1.origSeq < m2.origSeq

\* Whatever is on the air after a step is a copy, or new, and has been reached.
LEMMA NumberedNext == TypeOK /\ TypeOK' /\ Numbered /\ [Next]_vars => Numbered'
<1> SUFFICES ASSUME TypeOK, TypeOK', Numbered, [Next]_vars PROVE Numbered'
  OBVIOUS
<1>1. RequestStep /\ \A n \in Node : /\ seqNum[n] \in Nat /\ rreqId[n] \in Nat
                                     /\ seqNum'[n] \in Nat /\ rreqId'[n] \in Nat
                                     /\ seqNum[n] <= seqNum'[n] /\ rreqId[n] <= rreqId'[n]
  BY RequestStepNext DEF TypeOK, NumbersGrow
<1>2. ASSUME NEW m \in msgs', m.type = "RREQ"
      PROVE  m.id \in 1 .. rreqId'[m.orig] /\ m.origSeq <= seqNum'[m.orig]
  <2>1. m \in RreqMsg
    BY <1>2, MessageKinds DEF TypeOK
  <2>2. m.orig \in Node /\ m.id \in Nat /\ m.origSeq \in Nat
    BY <2>1 DEF RreqMsg
  <2>3. CASE Copy(m)
    <3>1. m.id \in 1 .. rreqId[m.orig] /\ m.origSeq <= seqNum[m.orig]
      BY <2>3 DEF Copy, Numbered
    <3> QED BY <1>1, <2>2, <3>1
  <2>4. ASSUME NEW n \in Node, NEW dst \in Node, Fresh(m, n, dst)
        PROVE  m.id \in 1 .. rreqId'[m.orig] /\ m.origSeq <= seqNum'[m.orig]
    BY <1>1, <2>2, <2>4 DEF Fresh
  <2> QED BY <1>1, <1>2, <2>3, <2>4 DEF RequestStep
<1> QED BY <1>2 DEF Numbered

LEMMA RequestsNext ==
  TypeOK /\ TypeOK' /\ Numbered /\ RequestsDistinct /\ [Next]_vars => RequestsDistinct'
<1> SUFFICES ASSUME TypeOK, TypeOK', Numbered, RequestsDistinct, [Next]_vars
             PROVE  RequestsDistinct'
  OBVIOUS
<1>1. NumbersGrow /\ RequestStep
  BY RequestStepNext
<1>2. \A n \in Node : /\ seqNum[n] \in Nat /\ rreqId[n] \in Nat
                      /\ seqNum'[n] \in Nat /\ rreqId'[n] \in Nat
                      /\ seqNum[n] <= seqNum'[n] /\ rreqId[n] <= rreqId'[n]
  BY <1>1 DEF TypeOK, NumbersGrow
<1>3. ASSUME NEW m \in msgs', m.type = "RREQ"
      PROVE  m.orig \in Node /\ m.id \in Nat /\ m.origSeq \in Nat
  <2>1. m \in RreqMsg
    BY <1>3, MessageKinds DEF TypeOK
  <2> QED BY <2>1 DEF RreqMsg
<1>4. ASSUME NEW m \in msgs', m.type = "RREQ", Copy(m)
      PROVE  m.id \in 1 .. rreqId[m.orig] /\ m.origSeq <= seqNum[m.orig]
  BY <1>4 DEF Copy, Numbered
<1>5. ASSUME NEW m1 \in msgs', NEW m2 \in msgs', m1.type = "RREQ", m2.type = "RREQ",
             m1.orig = m2.orig, Copy(m1), Copy(m2)
      PROVE  Coherent(m1, m2)
  BY <1>5 DEF Copy, RequestsDistinct, Coherent
<1>6. CASE \A m \in msgs' : m.type = "RREQ" => Copy(m)
  BY <1>5, <1>6 DEF RequestsDistinct, Coherent
<1>7. ASSUME NEW n \in Node, NEW dst \in Node,
             \A m \in msgs' : m.type = "RREQ" => Copy(m) \/ Fresh(m, n, dst)
      PROVE  RequestsDistinct'
  <2>1. ASSUME NEW m1 \in msgs', NEW m2 \in msgs', m1.type = "RREQ", m2.type = "RREQ",
               m1.orig = m2.orig
        PROVE  Coherent(m1, m2)
    <3>1. /\ m1.orig \in Node /\ m1.id \in Nat /\ m1.origSeq \in Nat
          /\ m2.orig \in Node /\ m2.id \in Nat /\ m2.origSeq \in Nat
      BY <1>3, <2>1
    <3>2. CASE Copy(m1) /\ Copy(m2)
      BY <1>5, <2>1, <3>2
    <3>3. CASE Copy(m1) /\ Fresh(m2, n, dst)
      <4>1. m1.orig = n
        BY <2>1, <3>3 DEF Fresh
      <4>2. m1.id \in 1 .. rreqId[n] /\ m1.origSeq <= seqNum[n]
        BY <1>4, <2>1, <3>3, <4>1
      <4> QED BY <1>2, <2>1, <3>1, <3>3, <4>2 DEF Fresh, Coherent
    <3>4. CASE Fresh(m1, n, dst) /\ Copy(m2)
      <4>1. m2.orig = n
        BY <2>1, <3>4 DEF Fresh
      <4>2. m2.id \in 1 .. rreqId[n] /\ m2.origSeq <= seqNum[n]
        BY <1>4, <2>1, <3>4, <4>1
      <4> QED BY <1>2, <2>1, <3>1, <3>4, <4>2 DEF Fresh, Coherent
    <3>5. CASE Fresh(m1, n, dst) /\ Fresh(m2, n, dst)
      BY <1>2, <2>1, <3>1, <3>5 DEF Fresh, Coherent
    <3> QED BY <1>7, <2>1, <3>2, <3>3, <3>4, <3>5
  <2> QED BY <2>1 DEF RequestsDistinct, Coherent
<1> QED BY <1>1, <1>6, <1>7 DEF RequestStep

\* A request id identifies a route discovery for ever, and later discoveries
\* carry higher sequence numbers.
THEOREM RequestsDistinctCorrect == Spec => []RequestsDistinct
<1>1. Init => Numbered /\ RequestsDistinct
  BY DEF Init, Numbered, RequestsDistinct
<1> QED BY <1>1, TypeCorrect, NumberedNext, RequestsNext, PTL DEF Spec

-----------------------------------------------------------------------------
\* What becomes of the ids of one originator when id is remembered: the least goes
\* when there are too many, and what was known before is known after.
LEMMA RememberKnown ==
  ASSUME NEW ids \in SUBSET Nat, IsFiniteSet(ids), Cardinality(ids) <= OldRreqCount,
         NEW id \in Nat
  PROVE  /\ Remember(ids, id) \subseteq ids \cup {id}
         /\ Cardinality(Remember(ids, id)) <= OldRreqCount
         /\ Known(Remember(ids, id), id)
         /\ \A i \in Nat : Known(ids, i) => Known(Remember(ids, id), i)
<1> DEFINE all == ids \cup {id}
<1>1. OldRreqCount \in Nat /\ Cardinality(ids) \in Nat
  BY BoundAssumption, FS_CardinalityType
<1>2. IsFiniteSet(all) /\ Cardinality(all) = IF id \in ids THEN Cardinality(ids)
                                              ELSE Cardinality(ids) + 1
  BY FS_AddElement
<1>3. CASE Cardinality(all) <= OldRreqCount
  <2>1. Remember(ids, id) = all
    BY <1>1, <1>2, <1>3 DEF Remember
  <2>2. ASSUME NEW i \in Nat, Known(ids, i) PROVE Known(all, i)
    <3>1. CASE i \in ids
      BY <3>1 DEF Known
    <3>2. CASE Cardinality(ids) = OldRreqCount /\ \A j \in ids : i < j
      <4>1. id \in ids
        BY <1>1, <1>2, <1>3, <3>2
      <4>2. all = ids
        BY <4>1
      <4> QED BY <2>2, <4>2
    <3> QED BY <2>2, <3>1, <3>2 DEF Known
  <2> QED BY <1>3, <2>1, <2>2 DEF Known
<1>4. CASE Cardinality(all) > OldRreqCount
  <2>1. id \notin ids /\ Cardinality(ids) = OldRreqCount /\ Cardinality(all) = OldRreqCount + 1
    BY <1>1, <1>2, <1>4
  <2>2. PICK x \in all : \A y \in all : x <= y
    BY LeastNatural
  <2> DEFINE kept == all \ {x}
  <2>3. Remember(ids, id) = kept
    <3>1. Remember(ids, id) = {i \in all : \E j \in all : j < i}
      BY <1>1, <1>2, <1>4 DEF Remember
    <3>2. \A i \in all : i # x <=> \E j \in all : j < i
      BY <2>2
    <3> QED BY <3>1, <3>2
  <2>4. Cardinality(kept) = OldRreqCount
    BY <1>1, <1>2, <2>1, <2>2, FS_RemoveElement
  <2>5. \A j \in kept : x < j
    BY <2>2
  <2>6. Known(kept, id)
    BY <2>4, <2>5 DEF Known
  <2>7. ASSUME NEW i \in Nat, Known(ids, i) PROVE Known(kept, i)
    <3>1. CASE i \in ids
      BY <2>4, <2>5, <3>1 DEF Known
    <3>2. CASE \A j \in ids : i < j
      <4>1. CASE x = id
        <5>1. kept = ids
          BY <2>1, <4>1
        <5> QED BY <2>7, <5>1
      <4>2. CASE x # id
        <5>1. x \in ids /\ i < x
          BY <3>2, <4>2
        <5>2. \A j \in kept : i < j
          BY <2>5, <5>1
        <5> QED BY <2>4, <5>2 DEF Known
      <4> QED BY <4>1, <4>2
    <3> QED BY <2>7, <3>1, <3>2 DEF Known
  <2> QED BY <1>1, <2>3, <2>4, <2>6, <2>7
<1> QED BY <1>1, <1>2, <1>3, <1>4, FS_CardinalityType

\* The ids a node keeps are those of a finite set.
LEMMA SeenFinite ==
  ASSUME TypeOK, RequestsRemembered, NEW n \in Node, NEW o \in Node
  PROVE  /\ seen[n][o] \in SUBSET Nat /\ IsFiniteSet(seen[n][o])
         /\ Cardinality(seen[n][o]) <= OldRreqCount /\ seen[n][o] \subseteq 1 .. rreqId[o]
<1>1. IsFiniteSet(1 .. rreqId[o])
  BY FS_Interval DEF TypeOK
<1> QED BY <1>1, FS_Subset DEF RequestsRemembered, TypeOK

LEMMA MemoryNext ==
  TypeOK /\ TypeOK' /\ Numbered /\ RequestsRemembered /\ [Next]_vars => RequestsRemembered'
<1> SUFFICES ASSUME TypeOK, TypeOK', Numbered, RequestsRemembered, [Next]_vars
             PROVE  RequestsRemembered'
  OBVIOUS
<1>1. NumbersGrow /\ MemoryStep
  BY RequestStepNext
<1>2. \A o \in Node : rreqId[o] \in Nat /\ rreqId'[o] \in Nat /\ rreqId[o] <= rreqId'[o]
  BY <1>1 DEF TypeOK, NumbersGrow
<1>3. \A n, o \in Node : seen[n][o] \subseteq 1 .. rreqId'[o]
  BY <1>2 DEF RequestsRemembered
<1>4. CASE /\ UNCHANGED seen
           /\ \A r \in msgs' : r.type = "RREQ" => r \in msgs \/ r.from = r.orig
  BY <1>3, <1>4 DEF RequestsRemembered
<1>5. ASSUME NEW n \in Node, NEW m \in msgs, Remembered(n, m) PROVE RequestsRemembered'
  <2>1. m \in RreqMsg
    BY <1>5, MessageKinds DEF TypeOK, Remembered
  <2>2. m.orig \in Node /\ m.id \in Nat /\ m.id \in 1 .. rreqId[m.orig]
    BY <1>5, <2>1 DEF RreqMsg, Numbered, Remembered
  <2>3. PICK kept : kept = Remember(seen[n][m.orig], m.id)
    OBVIOUS
  <2>4. \A k, o \in Node :
          seen'[k][o] = IF k = n /\ o = m.orig THEN kept ELSE seen[k][o]
    BY <1>5, <2>2, <2>3 DEF Remembered, TypeOK
  <2>5. /\ seen[n][m.orig] \in SUBSET Nat /\ IsFiniteSet(seen[n][m.orig])
        /\ Cardinality(seen[n][m.orig]) <= OldRreqCount
        /\ seen[n][m.orig] \subseteq 1 .. rreqId[m.orig]
    BY <2>2, SeenFinite
  <2>6. /\ kept \subseteq seen[n][m.orig] \cup {m.id} /\ Cardinality(kept) <= OldRreqCount
        /\ Known(kept, m.id)
        /\ \A i \in Nat : Known(seen[n][m.orig], i) => Known(kept, i)
    BY <2>2, <2>3, <2>5, RememberKnown
  <2>7. ASSUME NEW k \in Node, NEW o \in Node
        PROVE  Cardinality(seen'[k][o]) <= OldRreqCount /\ seen'[k][o] \subseteq 1 .. rreqId'[o]
    <3>1. kept \subseteq 1 .. rreqId'[m.orig]
      BY <1>3, <2>2, <2>6, <1>2
    <3> QED BY <1>3, <2>4, <2>6, <3>1, SMTT(20), ZenonT(30) DEF RequestsRemembered
  <2>8. ASSUME NEW r \in msgs', r.type = "RREQ", r.from # r.orig
        PROVE  Known(seen'[r.from][r.orig], r.id)
    <3>1. r.from \in Node /\ r.orig \in Node /\ r.id \in Nat
      <4>1. r \in RreqMsg
        BY <2>8, MessageKinds DEF TypeOK
      <4> QED BY <4>1 DEF RreqMsg
    <3>2. CASE r \in msgs
      <4>1. Known(seen[r.from][r.orig], r.id)
        BY <2>8, <3>2 DEF RequestsRemembered
      <4> QED BY <2>4, <2>6, <3>1, <4>1
    <3>3. CASE r.from = n /\ r.orig = m.orig /\ r.id = m.id
      BY <2>4, <2>6, <3>1, <3>3
    <3> QED BY <1>5, <2>8, <3>2, <3>3 DEF Remembered
  <2> QED BY <2>7, <2>8 DEF RequestsRemembered
<1> QED BY <1>1, <1>4, <1>5 DEF MemoryStep

\* A node that broadcasts a request again knows it while a copy is on the air, or
\* knows only later ones; the ids it keeps are at most OLD_RREQ_COUNT.
THEOREM RequestsRememberedCorrect == Spec => []RequestsRemembered
<1>1. Init => Numbered
  BY DEF Init, Numbered
<1>2. Init => RequestsRemembered
  BY FS_EmptySet, BoundAssumption DEF Init, RequestsRemembered
<1> QED BY <1>1, <1>2, TypeCorrect, NumberedNext, MemoryNext, PTL DEF Spec

-----------------------------------------------------------------------------
\* Tables and replies: what a step stores or announces is genuine already.
TablesReached == \A n, x \in Node : Genuine(route'[n][x].seq, seqNum[x])
RepliesReached ==
  \A m \in msgs' : m.type = "RREP" => m \in msgs \/ Genuine(m.destSeq, seqNum'[m.dest])

\* A number stays genuine, since the node's own only grows.
LEMMA GenuineKept ==
  ASSUME NEW seq \in Nat, NEW old \in Nat, NEW new \in Nat, Genuine(seq, old), old <= new
  PROVE  Genuine(seq, new)
  BY DEF Genuine

LEMMA KeptReached ==
  ASSUME SeqGenuine, SeqsKept
  PROVE  TablesReached
  BY DEF SeqGenuine, SeqsKept, TablesReached

LEMMA SameReached ==
  ASSUME SeqGenuine, UNCHANGED route
  PROVE  TablesReached
  BY DEF SeqGenuine, TablesReached

LEMMA OldReplies ==
  ASSUME NEW net \in SUBSET msgs, NoReply(net)
  PROVE  RepliesReached
  BY DEF NoReply, RepliesReached

\* A table that learnt a genuine number from a packet holds genuine ones only.
LEMMA LearntReached ==
  ASSUME TypeOK, SeqGenuine, NEW n \in Node, NEW dst \in Node, NEW seq \in Nat,
         NEW u \in Table,
         \A k \in Node : route'[k] = IF k = n THEN u ELSE route[k],
         Genuine(seq, seqNum[dst]),
         \A x \in Node : u[x].seq = route[n][x].seq \/ (x = dst /\ u[x].seq = seq)
  PROVE  TablesReached
<1>1. \A x \in Node : Genuine(u[x].seq, seqNum[x])
  BY DEF SeqGenuine
<1>2. ASSUME NEW k \in Node, NEW x \in Node PROVE Genuine(route'[k][x].seq, seqNum[x])
  BY <1>1 DEF SeqGenuine
<1> QED BY <1>1, <1>2 DEF TablesReached

LEMMA SeqNext ==
  TypeOK /\ TypeOK' /\ Numbered /\ SeqGenuine /\ [Next]_vars => SeqGenuine'
<1> SUFFICES ASSUME TypeOK, TypeOK', Numbered, SeqGenuine, [Next]_vars
             PROVE  SeqGenuine'
  OBVIOUS
<1>0. /\ \A n \in Node : /\ seqNum[n] \in Nat /\ seqNum'[n] \in Nat
                         /\ seqNum[n] <= seqNum'[n]
      /\ \A n \in Node : route[n] \in Table /\ route'[n] \in Table
  BY RequestStepNext DEF TypeOK, Table, NumbersGrow
<1>1. ASSUME TablesReached, RepliesReached PROVE SeqGenuine'
  <2>1. ASSUME NEW n \in Node, NEW x \in Node PROVE Genuine(route'[n][x].seq, seqNum'[x])
    <3>1. route'[n][x].seq \in Nat
      BY <1>0 DEF Table, Entry
    <3>2. Genuine(route'[n][x].seq, seqNum[x])
      BY <1>1 DEF TablesReached
    <3>3. seqNum[x] \in Nat /\ seqNum'[x] \in Nat /\ seqNum[x] <= seqNum'[x]
      BY <1>0
    <3> QED BY <3>1, <3>2, <3>3 DEF Genuine
  <2>2. ASSUME NEW m \in msgs', m.type = "RREQ" PROVE m.origSeq <= seqNum'[m.orig]
    <3>1. Numbered'
      BY NumberedNext
    <3> QED BY <2>2, <3>1 DEF Numbered
  <2>3. ASSUME NEW m \in msgs', m.type = "RREP" PROVE Genuine(m.destSeq, seqNum'[m.dest])
    <3>1. m \in RrepMsg
      BY <2>3, MessageKinds DEF TypeOK
    <3>2. m.dest \in Node /\ m.destSeq \in Nat
      BY <3>1 DEF RrepMsg
    <3>3. CASE m \in msgs
      <4>1. Genuine(m.destSeq, seqNum[m.dest])
        BY <2>3, <3>3 DEF SeqGenuine
      <4> QED BY <1>0, <3>2, <4>1, GenuineKept
    <3>4. CASE m \notin msgs
      BY <1>1, <2>3, <3>4 DEF RepliesReached
    <3> QED BY <3>3, <3>4
  <2> QED BY <2>1, <2>2, <2>3 DEF SeqGenuine
<1>2. ASSUME NEW n \in Node, NEW pkt \in Packet, SendPacket(n, pkt)
      PROVE  TablesReached /\ RepliesReached
  <2>1. SeqsKept /\ NoReply(msgs)
    BY <1>2, TransmitFresh DEF SendPacket
  <2> QED BY <2>1, KeptReached, OldReplies
<1>3. ASSUME NEW n \in Node, NEW m \in msgs, DropRREQ(n, m)
      PROVE  TablesReached /\ RepliesReached
  BY <1>3, SameReached DEF DropRREQ, RepliesReached
<1>4. ASSUME NEW n \in Node, NEW m \in msgs, AnswerRREQ(n, m)
      PROVE  TablesReached /\ RepliesReached
  <2> DEFINE t == UpdateFromRREQ(route[n], [m EXCEPT !.hop = NextHopCount(@)], m.from)
             back == t[m.orig].nextHop
             own == IF m.dest = n /\ seqNum[n] = 0 THEN 1 ELSE seqNum[n]
             reply == ReplyTo(n, m, t, own, back)
  <2>1. /\ m \in RreqMsg /\ m.from \in Node /\ m.orig \in Node /\ m.dest \in Node
        /\ m.origSeq \in Nat /\ m.origSeq <= seqNum[m.orig]
    BY <1>4, ReceivedType, MessageKinds DEF AnswerRREQ, RreqMsg, SeqGenuine
  <2>2. t \in Table
    BY <1>0, <2>1, RreqTableType
  <2>3. /\ route' = [route EXCEPT ![n] = t]
        /\ seqNum' = [seqNum EXCEPT ![n] = own]
        /\ msgs' = (msgs \ {m}) \cup (IF back \in nbr[n] THEN {reply} ELSE {})
    BY <1>4 DEF AnswerRREQ
  <2>4. \A x \in Node : t[x].seq = route[n][x].seq \/ (x = m.orig /\ t[x].seq = m.origSeq)
    BY <1>0, <2>1, <2>2, RreqSeqs
  <2>5. /\ reply.type = "RREP" /\ reply.dest = m.dest
        /\ reply.destSeq = IF m.dest = n THEN own ELSE t[m.dest].seq
    BY DEF ReplyTo
  <2> HIDE DEF t, own, reply
  <2>6. TablesReached
    <3>1. \A k \in Node : route'[k] = IF k = n THEN t ELSE route[k]
      BY <2>3 DEF TypeOK
    <3>2. m.orig \in Node /\ m.origSeq \in Nat /\ Genuine(m.origSeq, seqNum[m.orig])
      BY <2>1 DEF Genuine
    <3> QED BY ONLY TypeOK, SeqGenuine, <2>2, <2>4, <3>1, <3>2, LearntReached, ZenonT(60)
  <2>7. Genuine(reply.destSeq, seqNum'[m.dest])
    <3>1. CASE m.dest = n
      <4>1. seqNum'[n] = own
        BY <2>3 DEF TypeOK
      <4> QED BY <1>0, <2>5, <3>1, <4>1 DEF Genuine
    <3>2. CASE m.dest # n
      <4>1. seqNum'[m.dest] = seqNum[m.dest]
        BY <2>1, <2>3, <3>2 DEF TypeOK
      <4>2. Genuine(t[m.dest].seq, seqNum[m.dest])
        BY <2>1, <2>4 DEF SeqGenuine, Genuine
      <4> QED BY <2>5, <3>2, <4>1, <4>2 DEF Genuine
    <3> QED BY <3>1, <3>2
  <2>8. RepliesReached
    BY <2>3, <2>5, <2>7 DEF RepliesReached
  <2> QED BY <2>6, <2>8
<1>5. ASSUME NEW n \in Node, NEW m \in msgs, ForwardRREQ(n, m)
      PROVE  TablesReached /\ RepliesReached
  <2> DEFINE t == UpdateFromRREQ(route[n], [m EXCEPT !.hop = NextHopCount(@)], m.from)
             again == BroadcastRreq(n, m.orig, m.id, m.origSeq, m.dest, NextHopCount(m.hop))
  <2>1. /\ m \in RreqMsg /\ m.from \in Node /\ m.orig \in Node
        /\ m.origSeq \in Nat /\ m.origSeq <= seqNum[m.orig]
    BY <1>5, ReceivedType, MessageKinds DEF ForwardRREQ, RreqMsg, SeqGenuine
  <2>2. t \in Table
    BY <1>0, <2>1, RreqTableType
  <2>3. /\ route' = [route EXCEPT ![n] = t]
        /\ msgs' = (msgs \ {m}) \cup again
    BY <1>5 DEF ForwardRREQ
  <2>4. \A x \in Node : t[x].seq = route[n][x].seq \/ (x = m.orig /\ t[x].seq = m.origSeq)
    BY <1>0, <2>1, <2>2, RreqSeqs
  <2>5. \A r \in again : r.type = "RREQ"
    BY DEF BroadcastRreq
  <2> HIDE DEF t, again
  <2>6. TablesReached
    <3>1. \A k \in Node : route'[k] = IF k = n THEN t ELSE route[k]
      BY <2>3 DEF TypeOK
    <3>2. Genuine(m.origSeq, seqNum[m.orig])
      BY <2>1 DEF Genuine
    <3> QED BY ONLY TypeOK, SeqGenuine, <2>1, <2>2, <2>4, <3>1, <3>2, LearntReached, ZenonT(60)
  <2>7. RepliesReached
    BY <2>3, <2>5 DEF RepliesReached
  <2> QED BY <2>6, <2>7
<1>6. ASSUME NEW n \in Node, NEW m \in msgs, CompleteDiscovery(n, m)
      PROVE  TablesReached /\ RepliesReached
  <2> DEFINE t == UpdateFromRREP(route[n], m, m.from)
  <2>1. /\ m \in RrepMsg /\ m.from \in Node /\ m.dest \in Node
        /\ m.destSeq \in Nat /\ Genuine(m.destSeq, seqNum[m.dest])
    BY <1>6, ReceivedType, MessageKinds DEF CompleteDiscovery, RrepMsg, SeqGenuine
  <2>2. t \in Table
    BY <1>0, <2>1, RrepTableType
  <2>3. route' = [route EXCEPT ![n] = t] /\ Drain(n, m.dest, t[m.dest], msgs \ {m})
    BY <1>6 DEF CompleteDiscovery
  <2>4. \A x \in Node : t[x].seq = route[n][x].seq \/ (x = m.dest /\ t[x].seq = m.destSeq)
    BY <1>0, <2>1, <2>2, RrepSeqs
  <2> HIDE DEF t
  <2>5. TablesReached
    <3>1. \A k \in Node : route'[k] = IF k = n THEN t ELSE route[k]
      BY <2>3 DEF TypeOK
    <3> QED BY ONLY TypeOK, SeqGenuine, <2>1, <2>2, <2>4, <3>1, LearntReached, ZenonT(60)
  <2>6. RepliesReached
    BY <2>1, <2>3, DrainFresh, OldReplies
  <2> QED BY <2>5, <2>6
<1>7. ASSUME NEW n \in Node, NEW m \in msgs, ForwardRREP(n, m)
      PROVE  TablesReached /\ RepliesReached
  <2> DEFINE t == ForwardTable(UpdateFromRREP(route[n], m, m.from), m, m.from)
             hop == t[m.orig].nextHop
             on == [m EXCEPT !.to = hop, !.from = n, !.hop = NextHopCount(@)]
  <2>1. /\ m \in RrepMsg /\ m.from \in Node /\ m.dest \in Node
        /\ m.destSeq \in Nat /\ Genuine(m.destSeq, seqNum[m.dest])
    BY <1>7, ReceivedType, MessageKinds DEF ForwardRREP, RrepMsg, SeqGenuine
  <2>2. t \in Table
    BY <1>0, <2>1, RrepTableType, ForwardTableType
  <2>3. /\ route' = [route EXCEPT ![n] = t]
        /\ msgs' = (msgs \ {m}) \cup (IF hop \in nbr[n] THEN {on} ELSE {})
    BY <1>7 DEF ForwardRREP
  <2>4. \A x \in Node : t[x].seq = route[n][x].seq \/ (x = m.dest /\ t[x].seq = m.destSeq)
    BY <1>0, <2>1, <2>2, ForwardedSeqs
  <2>5. on.dest = m.dest /\ on.destSeq = m.destSeq
    BY <2>1 DEF RrepMsg
  <2> HIDE DEF t, on
  <2>6. TablesReached
    <3>1. \A k \in Node : route'[k] = IF k = n THEN t ELSE route[k]
      BY <2>3 DEF TypeOK
    <3> QED BY ONLY TypeOK, SeqGenuine, <2>1, <2>2, <2>4, <3>1, LearntReached, ZenonT(60)
  <2>7. Genuine(on.destSeq, seqNum'[on.dest])
    BY <1>0, <2>1, <2>5, GenuineKept
  <2>8. RepliesReached
    BY <2>3, <2>7 DEF RepliesReached
  <2> QED BY <2>6, <2>8
<1>8. ASSUME NEW n \in Node, NEW m \in msgs, HandleRERR(n, m)
      PROVE  TablesReached /\ RepliesReached
  <2>1. m.unreachable \in Node
    BY <1>8, ReceivedType, MessageKinds DEF HandleRERR, RerrMsg
  <2>2. TablesReached
    <3>1. route' = [route EXCEPT ![n] = Deactivate(@, m.unreachable)]
      BY <1>8 DEF HandleRERR
    <3> QED BY <2>1, <3>1, DeactivateSeqs, KeptReached
  <2>3. CASE RequestRoute(n, m.unreachable, 1, msgs \ {m})
    BY <2>1, <2>2, <2>3, RequestRouteFresh, OldReplies
  <2>4. ASSUME NEW to,
               \/ msgs' = (msgs \ {m}) \cup {Rerr(n, to, m.unreachable, m.orig)}
               \/ msgs' = msgs \ {m}
        PROVE  RepliesReached
    <3>1. Rerr(n, to, m.unreachable, m.orig).type = "RERR"
      BY DEF Rerr
    <3> QED BY <2>4, <3>1 DEF RepliesReached
  <2> QED BY <1>8, <2>2, <2>3, <2>4 DEF HandleRERR
<1>9. ASSUME NEW n \in Node, NEW m \in msgs, HandleData(n, m)
      PROVE  TablesReached /\ RepliesReached
  <2>1. m.pkt \in Packet /\ m.orig \in Node
    BY <1>9, ReceivedType, MessageKinds DEF HandleData, DataMsg
  <2>2. CASE msgs' = msgs \ {m} /\ UNCHANGED route
    BY <2>2, SameReached DEF RepliesReached
  <2>3. CASE Transmit(n, m.pkt, m.orig, msgs \ {m})
    BY <2>1, <2>3, TransmitFresh, KeptReached, OldReplies
  <2> QED BY <1>9, <2>2, <2>3 DEF HandleData
<1>10. ASSUME NEW m \in msgs, Lose(m) PROVE TablesReached /\ RepliesReached
  BY <1>10, SameReached DEF Lose, RepliesReached
<1>11. ASSUME NEW e \in Entry, NEW x \in Node, Genuine(e.seq, seqNum[x]), NEW junk \in JunkChoice
       PROVE  Genuine(UpdatedEntry(e, x, junk).seq, seqNum[x])
  BY <1>0, <1>11 DEF UpdatedEntry, Entry, Genuine
<1>12. ASSUME NEW n \in Node, NEW k \in Node, AddLink(n, k)
       PROVE  TablesReached /\ RepliesReached
  <2>1. PICK junk \in JunkChoice :
          route' = [route EXCEPT ![n] = UpdateTableEntry(@, k, k, junk)]
    BY <1>12 DEF AddLink
  <2>2. ASSUME NEW j \in Node, NEW x \in Node PROVE Genuine(route'[j][x].seq, seqNum[x])
    <3>1. route[j] \in Table /\ route[j][x] \in Entry /\ Genuine(route[j][x].seq, seqNum[x])
      BY <1>0 DEF Table, SeqGenuine
    <3>2. route'[j] = IF j = n THEN UpdateTableEntry(route[j], k, k, junk) ELSE route[j]
      BY <2>1 DEF TypeOK
    <3>3. UpdateTableEntry(route[j], k, k, junk)[x] =
            IF x = k THEN UpdatedEntry(route[j][x], x, junk) ELSE route[j][x]
      BY <3>1 DEF UpdateTableEntry, Table
    <3> QED BY <1>11, <3>1, <3>2, <3>3
  <2> QED BY <1>12, <2>2 DEF AddLink, TablesReached, RepliesReached
<1>13. ASSUME NEW n \in Node, NEW S \in SUBSET nbr[n], RefreshLinks(n, S)
       PROVE  TablesReached /\ RepliesReached
  <2>1. PICK junk \in [S -> JunkChoice] : route' = [route EXCEPT ![n] =
          [dst \in Node |-> IF dst \in S THEN UpdatedEntry(@[dst], dst, junk[dst])
                            ELSE @[dst]]]
    BY <1>13 DEF RefreshLinks
  <2>2. ASSUME NEW j \in Node, NEW x \in Node PROVE Genuine(route'[j][x].seq, seqNum[x])
    <3>1. \/ route'[j][x] = route[j][x]
          \/ x \in S /\ route'[j][x] = UpdatedEntry(route[j][x], x, junk[x])
      BY <2>1 DEF TypeOK
    <3>2. route[j][x] \in Entry /\ Genuine(route[j][x].seq, seqNum[x])
      BY DEF TypeOK, SeqGenuine
    <3> QED BY <1>11, <3>1, <3>2
  <2> QED BY <1>13, <2>2 DEF RefreshLinks, TablesReached, RepliesReached
<1>14. CASE UNCHANGED vars
  <2>1. route' = route /\ msgs' = msgs /\ seqNum' = seqNum
    BY <1>14 DEF vars
  <2> QED BY <2>1 DEF SeqGenuine, Genuine
<1> QED
  BY <1>1, <1>2, <1>3, <1>4, <1>5, <1>6, <1>7, <1>8, <1>9, <1>10, <1>12, <1>13, <1>14
  DEF Next, Traffic, Monitoring, Handle

\* No request is ahead of its originator, and what a table or a reply says of a node
\* is a number that the node has reached or one that the memory of a new entry held,
\* whatever that memory may hold.
THEOREM SeqGenuineCorrect == Spec => []SeqGenuine
<1>1. Init => Numbered /\ RequestsDistinct /\ SeqGenuine
  BY DEF Init, Numbered, RequestsDistinct, SeqGenuine, Genuine, NoEntry
<1>2. TypeOK /\ TypeOK' /\ Numbered /\ SeqGenuine /\ [Next]_vars => SeqGenuine'
  BY SeqNext
<1> QED BY <1>1, <1>2, TypeCorrect, NumberedNext, RequestsNext, PTL DEF Spec

-----------------------------------------------------------------------------
\* What a push does to the places of a packet in a queue.
LEMMA PushPositions ==
  ASSUME NEW S, NEW s \in Seq(S), NEW e \in S, NEW cap \in Nat \ {0}, NEW x
  PROVE  /\ x # e /\ Once(Positions(s, x)) => Once(Positions(FifoPush(s, e, cap), x))
         /\ x # e /\ Positions(s, x) = {} => Positions(FifoPush(s, e, cap), x) = {}
         /\ Positions(s, e) = {} => Once(Positions(FifoPush(s, e, cap), e))
         /\ Len(s) <= cap => Len(FifoPush(s, e, cap)) <= cap
<1> DEFINE u == FifoPush(s, e, cap)
<1>1. CASE Len(s) = cap
  <2>1. s # <<>> /\ Len(s) \in Nat
    BY <1>1
  <2>2. /\ Tail(s) \in Seq(S) /\ Len(Tail(s)) = Len(s) - 1
        /\ \A i \in 1 .. Len(Tail(s)) : Tail(s)[i] = s[i + 1]
    BY <2>1, HeadTailProperties
  <2>3. u = Append(Tail(s), e)
    BY <1>1 DEF FifoPush
  <2>4. /\ Len(u) = Len(s) /\ u[Len(s)] = e
        /\ \A i \in 1 .. Len(s) - 1 : u[i] = s[i + 1]
    BY <2>1, <2>2, <2>3, AppendProperties
  <2> HIDE DEF u
  <2>5. x # e => \A i \in Positions(u, x) : i + 1 \in Positions(s, x) /\ i \in Nat
    BY <2>1, <2>4 DEF Positions
  <2>6. Positions(s, e) = {} => Positions(u, e) \subseteq {Len(s)}
    BY <2>1, <2>4 DEF Positions
  <2>7. x # e /\ Once(Positions(s, x)) => Once(Positions(u, x))
    BY <2>5 DEF Once
  <2>8. x # e /\ Positions(s, x) = {} => Positions(u, x) = {}
    BY <2>5
  <2>9. Positions(s, e) = {} => Once(Positions(u, e))
    BY <2>6 DEF Once
  <2> QED BY <1>1, <2>4, <2>7, <2>8, <2>9 DEF u
<1>2. CASE Len(s) # cap
  <2>1. u = Append(s, e)
    BY <1>2 DEF FifoPush
  <2>2. /\ Len(u) = Len(s) + 1 /\ u[Len(s) + 1] = e /\ Len(s) \in Nat
        /\ \A i \in 1 .. Len(s) : u[i] = s[i]
    BY <2>1, AppendProperties
  <2> HIDE DEF u
  <2>3. x # e => Positions(u, x) \subseteq Positions(s, x)
    BY <2>2 DEF Positions
  <2>4. Positions(s, e) = {} => Positions(u, e) \subseteq {Len(s) + 1}
    BY <2>2 DEF Positions
  <2>5. x # e /\ Once(Positions(s, x)) => Once(Positions(u, x))
    BY <2>3 DEF Once
  <2>6. x # e /\ Positions(s, x) = {} => Positions(u, x) = {}
    BY <2>3
  <2>7. Positions(s, e) = {} => Once(Positions(u, e))
    BY <2>4 DEF Once
  <2>8. Len(s) <= cap => Len(u) <= cap
    BY <2>2, <1>2
  <2> QED BY <2>5, <2>6, <2>7, <2>8 DEF u
<1> QED BY <1>1, <1>2

\* Nothing moves: data packets may only disappear from the air.
LEMMA SamePlaces ==
  ASSUME AllAlone, UNCHANGED <<buffer, sent, delivered>>,
         \A m \in msgs' : m.type = "DATA" => m \in msgs
  PROVE  AllAlone'
<1>1. ASSUME NEW x \in Packet PROVE Alone(x)'
  <2>1. OnAir(x)' \subseteq OnAir(x) /\ Holders(x)' = Holders(x) /\ AtPort(x)' = AtPort(x)
    BY DEF OnAir, Holders, AtPort
  <2> QED BY <2>1 DEF AllAlone, Alone, Once
<1> QED BY <1>1 DEF AllAlone

\* A packet that is nowhere, net being what stays on the air.
Nowhere(x, net) ==
  /\ \A m \in net : ~ (m.type = "DATA" /\ m.pkt = x)
  /\ Holders(x) = {} /\ AtPort(x) = {}

LEMMA TransmitAlone ==
  ASSUME TypeOK, AllAlone, NEW n \in Node, NEW pkt \in Packet, NEW o \in Node,
         NEW net \in SUBSET msgs, Nowhere(pkt, net), Transmit(n, pkt, o, net),
         sent' = sent \cup {pkt}, UNCHANGED delivered
  PROVE  AllAlone'
<1>0. Dst[pkt] \in Node
  BY FlowAssumption
<1>1. ASSUME NEW k \in Nat, NEW dst, RequestRoute(n, dst, k, net), NEW m \in msgs',
             m.type = "DATA"
      PROVE  m \in net
  BY <1>1 DEF RequestRoute, BroadcastRreq
<1>2. CASE /\ buffer' = [buffer EXCEPT ![n][Dst[pkt]] = FifoPush(@, pkt, PacketBufferSize)]
           /\ RequestRoute(n, Dst[pkt], 1, net)
  <2> DEFINE s == buffer[n][Dst[pkt]]
  <2>1. \A x \in Packet : OnAir(x)' \subseteq OnAir(x) /\ AtPort(x)' = AtPort(x)
    BY <1>1, <1>2 DEF OnAir, AtPort
  <2>2. \A k, dst \in Node : buffer'[k][dst] =
          IF k = n /\ dst = Dst[pkt] THEN FifoPush(s, pkt, PacketBufferSize) ELSE buffer[k][dst]
    BY <1>0, <1>2 DEF TypeOK
  <2>3. s \in Seq(Packet)
    BY <1>0 DEF TypeOK
  <2>4. ASSUME NEW x \in Packet, x # pkt PROVE Alone(x)'
    <3>0. Dst[x] \in Node
      BY FlowAssumption
    <3>1. \A k \in Node : Once(Positions(buffer[k][Dst[x]], x))
      BY DEF AllAlone, Alone
    <3>2. ASSUME NEW k \in Node
          PROVE  /\ Once(Positions(buffer'[k][Dst[x]], x))
                 /\ Positions(buffer[k][Dst[x]], x) = {} => Positions(buffer'[k][Dst[x]], x) = {}
      <4>1. CASE k = n /\ Dst[x] = Dst[pkt]
        BY <2>2, <2>3, <2>4, <3>0, <3>1, <4>1, PushPositions, BoundAssumption
      <4>2. CASE ~ (k = n /\ Dst[x] = Dst[pkt])
        BY <2>2, <3>0, <3>1, <4>2
      <4> QED BY <4>1, <4>2
    <3>3. Holders(x)' \subseteq Holders(x)
      BY <3>2 DEF Holders
    <3>4. x \notin sent' => x \notin sent
      BY DEF AllAlone
    <3> QED BY <2>1, <3>2, <3>3, <3>4 DEF AllAlone, Alone, Once
  <2>5. Alone(pkt)'
    <3>1. \A k \in Node : Positions(buffer[k][Dst[pkt]], pkt) = {}
      BY DEF Nowhere, Holders
    <3>2. Once(Positions(FifoPush(s, pkt, PacketBufferSize), pkt))
      BY <1>0, <2>3, <3>1, PushPositions, BoundAssumption
    <3>3. \A k \in Node : /\ Once(Positions(buffer'[k][Dst[pkt]], pkt))
                          /\ k # n => Positions(buffer'[k][Dst[pkt]], pkt) = {}
      BY <1>0, <2>2, <3>1, <3>2 DEF Once
    <3>4. OnAir(pkt)' = {} /\ AtPort(pkt)' = {} /\ pkt \in sent'
      BY <1>1, <1>2, <2>1 DEF OnAir, Nowhere
    <3>5. Once(Holders(pkt)')
      BY <3>3 DEF Holders, Once
    <3> QED BY <3>3, <3>4, <3>5 DEF Alone, Once
  <2> QED BY <2>4, <2>5 DEF AllAlone
<1>3. CASE /\ msgs' = net \cup {Data(n, route[n][Dst[pkt]].nextHop, o, pkt)}
           /\ UNCHANGED buffer
  <2> DEFINE new == Data(n, route[n][Dst[pkt]].nextHop, o, pkt)
  <2>1. new.type = "DATA" /\ new.pkt = pkt
    BY DEF Data
  <2> HIDE DEF new
  <2>2. ASSUME NEW x \in Packet PROVE Holders(x)' = Holders(x) /\ AtPort(x)' = AtPort(x)
    BY <1>3 DEF Holders, AtPort
  <2>3. ASSUME NEW x \in Packet, x # pkt PROVE Alone(x)'
    <3>1. OnAir(x)' \subseteq OnAir(x)
      BY <1>3, <2>1, <2>3 DEF OnAir, new
    <3> QED BY <1>3, <2>2, <3>1 DEF AllAlone, Alone, Once
  <2>4. Alone(pkt)'
    <3>1. OnAir(pkt)' \subseteq {new} /\ pkt \in sent'
      BY <1>3, <2>1 DEF OnAir, Nowhere, new
    <3>2. Holders(pkt)' = {} /\ AtPort(pkt)' = {}
      BY <2>2 DEF Nowhere
    <3>3. \A k \in Node : Once(Positions(buffer'[k][Dst[pkt]], pkt))
      BY <1>3 DEF AllAlone, Alone
    <3> QED BY <3>1, <3>2, <3>3 DEF Alone, Once
  <2> QED BY <2>3, <2>4 DEF AllAlone
<1>4. CASE RepairLink(n, Dst[pkt], o, net) /\ UNCHANGED buffer
  <2>1. \A m \in msgs' : m.type = "DATA" => m \in net
    BY <1>1, <1>4 DEF RepairLink, Rerr
  <2>2. ASSUME NEW x \in Packet PROVE Alone(x)'
    <3>1. OnAir(x)' \subseteq OnAir(x) /\ Holders(x)' = Holders(x) /\ AtPort(x)' = AtPort(x)
      BY <1>4, <2>1 DEF OnAir, Holders, AtPort
    <3>2. \A k \in Node : Once(Positions(buffer'[k][Dst[x]], x))
      BY <1>4 DEF AllAlone, Alone
    <3> QED BY <3>1, <3>2 DEF AllAlone, Alone, Once
  <2> QED BY <2>2 DEF AllAlone
<1> QED BY <1>2, <1>3, <1>4 DEF Transmit

\* The waiting packets of one destination go on the air, all to the same node.
LEMMA DrainAlone ==
  ASSUME TypeOK, AllAlone, WaitingForDest, NEW n \in Node, NEW dst \in Node, NEW e,
         NEW m \in msgs, m.type # "DATA", Drain(n, dst, e, msgs \ {m}),
         UNCHANGED <<sent, delivered>>
  PROVE  AllAlone'
<1> DEFINE waiting == buffer[n][dst]
           new(i) == Data(n, e.nextHop, n, waiting[i])
<1>1. CASE buffer' = [buffer EXCEPT ![n][dst] = <<>>]
  <2>1. \A k, x \in Node : buffer'[k][x] = IF k = n /\ x = dst THEN <<>> ELSE buffer[k][x]
    BY <1>1 DEF TypeOK
  <2>2. ASSUME NEW x \in Packet, NEW k \in Node
        PROVE  /\ Positions(buffer'[k][Dst[x]], x) \subseteq Positions(buffer[k][Dst[x]], x)
               /\ k = n /\ Dst[x] = dst => Positions(buffer'[k][Dst[x]], x) = {}
    BY <2>1, FlowAssumption DEF Positions
  <2>3. ASSUME NEW x \in Packet
        PROVE  /\ Holders(x)' \subseteq Holders(x) /\ AtPort(x)' = AtPort(x)
               /\ \A k \in Node : Once(Positions(buffer'[k][Dst[x]], x))
    <3>1. Holders(x)' \subseteq Holders(x) /\ AtPort(x)' = AtPort(x)
      BY <2>2 DEF Holders, AtPort
    <3>2. \A k \in Node : Once(Positions(buffer[k][Dst[x]], x))
      BY DEF AllAlone, Alone
    <3>3. \A k \in Node : Once(Positions(buffer'[k][Dst[x]], x))
      BY <2>2, <3>2 DEF Once
    <3> QED BY <3>1, <3>3
  <2>4. CASE msgs' = (msgs \ {m}) \cup {new(i) : i \in 1 .. Len(waiting)}
    <3>1. ASSUME NEW i \in 1 .. Len(waiting)
          PROVE  new(i).type = "DATA" /\ new(i).pkt = waiting[i]
      BY DEF Data
    <3>2. ASSUME NEW x \in Packet, n \notin Holders(x) \/ Dst[x] # dst PROVE Alone(x)'
      <4>1. \A i \in 1 .. Len(waiting) : waiting[i] # x
        BY <3>2 DEF Holders, Positions, WaitingForDest
      <4>2. OnAir(x)' \subseteq OnAir(x)
        BY <2>4, <3>1, <4>1 DEF OnAir
      <4> HIDE DEF new, waiting
      <4> QED BY <2>3, <4>2 DEF AllAlone, Alone, Once
    <3>3. ASSUME NEW x \in Packet, n \in Holders(x), Dst[x] = dst PROVE Alone(x)'
      <4>1. Holders(x) \subseteq {n} /\ OnAir(x) = {} /\ AtPort(x) = {} /\ x \in sent
        BY <3>3 DEF AllAlone, Alone, Once
      <4>2. Holders(x)' = {}
        BY <2>2, <2>3, <3>3, <4>1 DEF Holders
      <4>3. \A r \in OnAir(x)' : r = Data(n, e.nextHop, n, x)
        BY <2>4, <3>1, <4>1 DEF OnAir
      <4> HIDE DEF new, waiting
      <4> QED BY <2>3, <4>1, <4>2, <4>3 DEF Alone, Once
    <3> QED BY <3>2, <3>3 DEF AllAlone
  <2>5. CASE RequestRoute(n, dst, Len(waiting), msgs \ {m})
    <3>1. \A r \in msgs' : r.type = "DATA" => r \in msgs
      BY <2>5 DEF RequestRoute, BroadcastRreq
    <3>2. ASSUME NEW x \in Packet PROVE Alone(x)'
      <4>1. OnAir(x)' \subseteq OnAir(x)
        BY <3>1 DEF OnAir
      <4> QED BY <2>3, <4>1 DEF AllAlone, Alone, Once
    <3> QED BY <3>2 DEF AllAlone
  <2>6. CASE UNCHANGED buffer /\ msgs' = msgs \ {m}
    BY <2>6, SamePlaces
  <2> QED BY <1>1, <2>4, <2>5, <2>6 DEF Drain
<1>2. CASE UNCHANGED buffer /\ msgs' = msgs \ {m}
  BY <1>2, SamePlaces
<1> QED BY <1>1, <1>2 DEF Drain

\* Every handler hands a packet over or loses it.
LEMMA AloneNext == TypeOK /\ WaitingForDest /\ AllAlone /\ [Next]_vars => AllAlone'
<1> SUFFICES ASSUME TypeOK, WaitingForDest, AllAlone, [Next]_vars PROVE AllAlone'
  OBVIOUS
<1>1. ASSUME NEW n \in Node, NEW pkt \in Packet, SendPacket(n, pkt) PROVE AllAlone'
  <2>1. /\ Transmit(n, pkt, n, msgs) /\ pkt \notin sent
        /\ sent' = sent \cup {pkt} /\ UNCHANGED delivered
    BY <1>1 DEF SendPacket
  <2>2. Nowhere(pkt, msgs)
    BY <2>1 DEF Nowhere, AllAlone, Alone, OnAir
  <2> QED BY <2>1, <2>2, TransmitAlone
<1>2. ASSUME NEW n \in Node, NEW m \in msgs,
             DropRREQ(n, m) \/ AnswerRREQ(n, m) \/ ForwardRREQ(n, m)
      PROVE  AllAlone'
  BY <1>2, SamePlaces DEF DropRREQ, AnswerRREQ, ForwardRREQ, ReplyTo, BroadcastRreq
<1>3. ASSUME NEW n \in Node, NEW m \in msgs, CompleteDiscovery(n, m) PROVE AllAlone'
  <2>1. m.dest \in Node /\ m.type = "RREP"
    BY <1>3, ReceivedType, MessageKinds DEF CompleteDiscovery, RrepMsg
  <2>2. PICK e : Drain(n, m.dest, e, msgs \ {m}) /\ UNCHANGED <<sent, delivered>>
    BY <1>3 DEF CompleteDiscovery
  <2> QED BY <2>1, <2>2, DrainAlone
<1>4. ASSUME NEW n \in Node, NEW m \in msgs, ForwardRREP(n, m) PROVE AllAlone'
  <2>1. m \in RrepMsg /\ m.type = "RREP"
    BY <1>4, ReceivedType, MessageKinds DEF ForwardRREP
  <2>2. \A to, hop : [m EXCEPT !.to = to, !.from = n, !.hop = hop].type = "RREP"
    BY <2>1 DEF RrepMsg
  <2>3. PICK to : msgs' \subseteq
                    msgs \cup {[m EXCEPT !.to = to, !.from = n, !.hop = NextHopCount(m.hop)]}
    BY <1>4 DEF ForwardRREP
  <2> QED BY <1>4, <2>2, <2>3, SamePlaces DEF ForwardRREP
<1>5. ASSUME NEW n \in Node, NEW m \in msgs, HandleRERR(n, m) PROVE AllAlone'
  BY <1>5, SamePlaces DEF HandleRERR, RequestRoute, BroadcastRreq, Rerr
<1>6. ASSUME NEW n \in Node, NEW m \in msgs, HandleData(n, m) PROVE AllAlone'
  <2>1. m.pkt \in Packet /\ m.orig \in Node /\ m.type = "DATA"
    BY <1>6, ReceivedType, MessageKinds DEF HandleData, DataMsg
  <2>2. m \in OnAir(m.pkt)
    BY <2>1 DEF OnAir
  <2>3. Nowhere(m.pkt, msgs \ {m}) /\ m.pkt \in sent
    BY <2>1, <2>2 DEF Nowhere, AllAlone, Alone, OnAir, Once
  <2>4. CASE /\ delivered' = delivered \cup {<<m.pkt, n>>}
             /\ msgs' = msgs \ {m} /\ UNCHANGED <<buffer, sent>>
    <3>1. ASSUME NEW x \in Packet, x # m.pkt PROVE Alone(x)'
      <4>1. OnAir(x)' \subseteq OnAir(x) /\ Holders(x)' = Holders(x) /\ AtPort(x)' = AtPort(x)
        BY <2>4, <3>1 DEF OnAir, Holders, AtPort
      <4> QED BY <2>4, <4>1 DEF AllAlone, Alone, Once
    <3>2. Alone(m.pkt)'
      <4>1. OnAir(m.pkt)' = {} /\ Holders(m.pkt)' = {} /\ AtPort(m.pkt)' \subseteq {n}
        BY <2>3, <2>4 DEF Nowhere, OnAir, Holders, AtPort
      <4>2. \A k \in Node : Once(Positions(buffer'[k][Dst[m.pkt]], m.pkt))
        BY <2>1, <2>4 DEF AllAlone, Alone
      <4> QED BY <2>3, <2>4, <4>1, <4>2 DEF Alone, Once
    <3> QED BY <3>1, <3>2 DEF AllAlone
  <2>5. CASE Transmit(n, m.pkt, m.orig, msgs \ {m}) /\ UNCHANGED <<sent, delivered>>
    <3>1. sent' = sent \cup {m.pkt}
      BY <2>3, <2>5
    <3> QED BY <2>1, <2>3, <2>5, <3>1, TransmitAlone
  <2> QED BY <1>6, <2>4, <2>5 DEF HandleData
<1>7. ASSUME NEW m \in msgs, Lose(m) PROVE AllAlone'
  BY <1>7, SamePlaces DEF Lose
<1>8. CASE Monitoring
  BY <1>8, SamePlaces DEF Monitoring, AddLink, RefreshLinks
<1>9. CASE UNCHANGED vars
  BY <1>9, SamePlaces DEF vars
<1> QED BY <1>1, <1>2, <1>3, <1>4, <1>5, <1>6, <1>7, <1>8, <1>9
        DEF Next, Traffic, Handle

LEMMA AloneInit == Init => AllAlone
<1> SUFFICES ASSUME Init, NEW x \in Packet PROVE Alone(x)
  BY DEF AllAlone
<1>1. \A n \in Node : Positions(buffer[n][Dst[x]], x) = {}
  <2>1. \A n \in Node : buffer[n][Dst[x]] = <<>>
    BY FlowAssumption DEF Init
  <2>2. Len(<<>>) = 0 /\ 1 .. 0 = {}
    BY EmptySeq
  <2> QED BY <2>1, <2>2 DEF Positions
<1>2. OnAir(x) = {} /\ AtPort(x) = {} /\ Holders(x) = {}
  BY <1>1 DEF Init, OnAir, AtPort, Holders
<1> QED BY <1>1, <1>2 DEF Alone, Once

\* At most one element, counted.
LEMMA OnceCardinality ==
  ASSUME NEW S, Once(S)
  PROVE  Cardinality(S) = IF S = {} THEN 0 ELSE 1
<1>1. CASE S = {}
  BY <1>1, FS_EmptySet
<1>2. CASE S # {}
  <2>1. PICK x \in S : S = {x}
    BY <1>2 DEF Once
  <2> QED BY <1>2, <2>1, FS_Singleton
<1> QED BY <1>1, <1>2

LEMMA AloneCounted == ASSUME TypeOK, AllAlone PROVE SingleCopy
<1>1. ASSUME NEW x \in Packet
      PROVE  Cardinality(OnAir(x)) + Cardinality(Waiting(x)) + Cardinality(AtPort(x))
               <= IF x \in sent THEN 1 ELSE 0
  <2>1. Alone(x)
    BY DEF AllAlone
  <2>2. Once(OnAir(x)) /\ Once(AtPort(x))
    BY <2>1 DEF Alone
  <2>3. \A w \in Waiting(x) : /\ w[1] \in Holders(x) /\ w = <<w[1], w[2]>>
                              /\ w[2] \in Positions(buffer[w[1]][Dst[x]], x)
    BY DEF Waiting, Holders, Positions
  <2>4. Once(Waiting(x))
    BY <2>1, <2>3 DEF Alone, Once, Holders
  <2>5. Waiting(x) # {} => Holders(x) # {}
    BY <2>3
  <2>6. /\ Cardinality(OnAir(x)) = IF OnAir(x) = {} THEN 0 ELSE 1
        /\ Cardinality(Waiting(x)) = IF Waiting(x) = {} THEN 0 ELSE 1
        /\ Cardinality(AtPort(x)) = IF AtPort(x) = {} THEN 0 ELSE 1
    BY <2>2, <2>4, OnceCardinality
  <2> QED BY <2>1, <2>5, <2>6 DEF Alone
<1> QED BY <1>1 DEF SingleCopy

\* A packet is in one place at most, whatever the network, the traffic and the
\* sizes.
THEOREM SingleCopyCorrect == Spec => []SingleCopy
<1>1. KnownInv => WaitingForDest
  BY DEF KnownInv
<1> QED BY <1>1, TypeCorrect, KnownCorrect, AloneInit, AloneNext, AloneCounted, PTL DEF Spec

-----------------------------------------------------------------------------
\* Only a push makes a queue longer, and it drops the oldest packet of a full
\* one.
LEMMA BufferNext == TypeOK /\ BufferBounded /\ [Next]_vars => BufferBounded'
<1> SUFFICES ASSUME TypeOK, BufferBounded, [Next]_vars PROVE BufferBounded'
  OBVIOUS
<1>1. CASE UNCHANGED buffer
  BY <1>1 DEF BufferBounded
<1>2. ASSUME NEW n \in Node, NEW pkt \in Packet, NEW o, NEW net, Transmit(n, pkt, o, net)
      PROVE  BufferBounded'
  <2>1. CASE buffer' = [buffer EXCEPT ![n][Dst[pkt]] = FifoPush(@, pkt, PacketBufferSize)]
    <3>1. \A k, dst \in Node : buffer'[k][dst] =
            IF k = n /\ dst = Dst[pkt] THEN FifoPush(buffer[k][dst], pkt, PacketBufferSize)
            ELSE buffer[k][dst]
      BY <2>1 DEF TypeOK
    <3>2. ASSUME NEW k \in Node, NEW dst \in Node
          PROVE  Len(FifoPush(buffer[k][dst], pkt, PacketBufferSize)) <= PacketBufferSize
      <4>1. buffer[k][dst] \in Seq(Packet) /\ Len(buffer[k][dst]) <= PacketBufferSize
        BY DEF TypeOK, BufferBounded
      <4> QED BY <4>1, PushPositions, BoundAssumption
    <3> QED BY <3>1, <3>2 DEF BufferBounded
  <2> QED BY <1>1, <1>2, <2>1 DEF Transmit
<1>3. ASSUME NEW n \in Node, NEW m \in msgs, CompleteDiscovery(n, m) PROVE BufferBounded'
  <2>1. m.dest \in Node
    BY <1>3, ReceivedType, MessageKinds DEF CompleteDiscovery, RrepMsg
  <2>2. CASE buffer' = [buffer EXCEPT ![n][m.dest] = <<>>]
    <3>1. \A k, dst \in Node : buffer'[k][dst] = buffer[k][dst] \/ buffer'[k][dst] = <<>>
      BY <2>2 DEF TypeOK
    <3> QED BY <3>1, EmptySeq, BoundAssumption DEF BufferBounded
  <2> QED BY <1>1, <1>3, <2>2 DEF CompleteDiscovery, Drain
<1>4. ASSUME NEW n \in Node, NEW m \in msgs, Handle(n, m) PROVE BufferBounded'
  <2>1. CASE HandleData(n, m)
    <3>1. m.pkt \in Packet
      BY <2>1, ReceivedType, MessageKinds DEF HandleData, DataMsg
    <3> QED BY <1>1, <1>2, <2>1, <3>1 DEF HandleData
  <2> QED BY <1>1, <1>3, <1>4, <2>1 DEF Handle, DropRREQ, AnswerRREQ, ForwardRREQ,
             ForwardRREP, HandleRERR
<1>5. ASSUME NEW n \in Node, NEW pkt \in Packet, SendPacket(n, pkt) PROVE BufferBounded'
  BY <1>2, <1>5 DEF SendPacket
<1> QED BY <1>1, <1>4, <1>5 DEF Next, Traffic, Monitoring, Lose, AddLink, RefreshLinks, vars

\* A queue of waiting packets never exceeds PACKET_BUFFER_SIZE: every packet that
\* waits is at one of the places that SingleCopy counts.
THEOREM BufferBoundedCorrect == Spec => []BufferBounded
<1>1. Init => BufferBounded
  BY EmptySeq, BoundAssumption DEF Init, BufferBounded
<1> QED BY <1>1, TypeCorrect, BufferNext, PTL DEF Spec
=============================================================================
