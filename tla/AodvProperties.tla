--------------------------- MODULE AodvProperties ---------------------------
(***************************************************************************)
(* What class AODV promises to the network it runs in, and what its        *)
(* comments say that the code does not do.                                 *)
(***************************************************************************)
EXTENDS Aodv

\* Every variable of Aodv has the type of the field it models.
TypeOK ==
  /\ seqNum \in [Node -> Nat] /\ rreqId \in [Node -> Nat]
  /\ route \in [Node -> [Node -> Entry]]
  /\ seen \in [Node -> [Node -> SUBSET Nat]]
  /\ buffer \in [Node -> [Node -> Seq(Packet)]]
  /\ nbr \in [Node -> SUBSET Node]
  /\ hung \subseteq Node
  /\ msgs \subseteq Message
  /\ sent \subseteq Packet
  /\ delivered \subseteq Packet \X Node

-----------------------------------------------------------------------------
\* What n can do with a packet for d: it is d, or it has an entry for d.
Knows(n, d) == n = d \/ HasEntry(route[n], d)

\* Next hops are themselves on the way: the node an entry for d points to is d
\* or has an entry for d, so a packet handed from next hop to next hop never
\* reaches a node that knows nothing of its destination.
NextHopKnows ==
  \A n, d \in Node : HasEntry(route[n], d) => Knows(route[n][d].nextHop, d)

\* A node that is sent a reply knows the way to the reply's originator, and one
\* that is sent data knows the way to its destination: _handleRREP and
\* _handlePacket never forward to address 0.
ReceiverKnows ==
  \A m \in msgs :
    /\ m.type = "RREP" => Knows(m.to, m.orig)
    /\ m.type = "DATA" => Knows(m.to, Dst[m.pkt])

\* A node that forwards a request has a way back to its originator, and a node
\* that forwards a reply has a way to the destination it announces: what a
\* receiver learns from them is backed by an entry of the sender.
SenderKnows ==
  \A m \in msgs :
    /\ m.type = "RREQ" => Knows(m.from, m.orig) /\ m.origSeq > 0
    /\ m.type = "RREP" => Knows(m.from, m.dest)

\* What makes the three inductive: a destination without an entry has none of
\* the entry's fields, and packets wait under the address they are for.
EmptyEntry == \A n, d \in Node : ~ HasEntry(route[n], d) => route[n][d] = NoEntry

WaitingForDest ==
  \A n, d \in Node : \A i \in 1 .. Len(buffer[n][d]) : Dst[buffer[n][d][i]] = d

KnownInv ==
  NextHopKnows /\ ReceiverKnows /\ SenderKnows /\ EmptyEntry /\ WaitingForDest

\* _handleRREP's loop over the waiting packets ends: the route it sends them on
\* is active by then, whatever the table held before the reply.
NoHang == hung = {}

\* A sequence number of a node whose own is num: one it has reached, or one that
\* the memory of a new table entry held (updateTableEntry leaves the field as is).
Genuine(seq, num) == seq <= num \/ \E junk \in JunkChoice : seq = junk.seq

\* Nothing makes a sequence number up but that memory: no request is ahead of its
\* originator's own number, and what a table or a reply says of d is a number that
\* d has reached or one that memory held, however it was passed on.
SeqGenuine ==
  /\ \A n, d \in Node : Genuine(route[n][d].seq, seqNum[d])
  /\ \A m \in msgs :
       /\ m.type = "RREQ" => m.origSeq <= seqNum[m.orig]
       /\ m.type = "RREP" => Genuine(m.destSeq, seqNum[m.dest])

\* The request id identifies a route discovery of its originator, and a later
\* discovery carries a higher sequence number, wherever copies of both meet.
RequestsDistinct ==
  \A m1, m2 \in {m \in msgs : m.type = "RREQ"} :
    m1.orig = m2.orig =>
      /\ m1.id = m2.id => m1.origSeq = m2.origSeq /\ m1.dest = m2.dest
      /\ m1.id < m2.id => m1.origSeq < m2.origSeq

\* Where packet p is: on the air, waiting in a node's buffer, at a port.
OnAir(p) == {m \in msgs : m.type = "DATA" /\ m.pkt = p}

Waiting(p) ==
  {x \in Node \X (1 .. PacketBufferSize) :
     LET queue == buffer[x[1]][Dst[p]]
     IN x[2] <= Len(queue) /\ queue[x[2]] = p}

AtPort(p) == {n \in Node : <<p, n>> \in delivered}

\* A packet is never in two places: buffering, draining and forwarding hand it
\* over, none of them copies it.  (It may be in none: packets get lost.)
SingleCopy ==
  \A p \in Packet :
    Cardinality(OnAir(p)) + Cardinality(Waiting(p)) + Cardinality(AtPort(p))
      <= IF p \in sent THEN 1 ELSE 0

\* What makes it inductive: the places of a packet, each kind of them at most
\* once and no two kinds together; none before the packet is sent.
Positions(queue, p) == {i \in 1 .. Len(queue) : queue[i] = p}

Holders(p) == {n \in Node : Positions(buffer[n][Dst[p]], p) # {}}

Once(S) == \A x, y \in S : x = y

Alone(p) ==
  /\ Once(OnAir(p)) /\ Once(Holders(p)) /\ Once(AtPort(p))
  /\ \A n \in Node : Once(Positions(buffer[n][Dst[p]], p))
  /\ OnAir(p) = {} \/ Holders(p) = {}
  /\ OnAir(p) = {} \/ AtPort(p) = {}
  /\ Holders(p) = {} \/ AtPort(p) = {}
  /\ p \notin sent => OnAir(p) = {} /\ Holders(p) = {} /\ AtPort(p) = {}

\* No queue of waiting packets outgrows the circular queue of the source.
BufferBounded == \A n, d \in Node : Len(buffer[n][d]) <= PacketBufferSize

AllAlone == \A p \in Packet : Alone(p)

\* What isDuplicateRREQ knows of the requests of one originator: id itself, or as
\* many ids as it keeps, all of later requests.
Known(ids, id) ==
  id \in ids \/ (Cardinality(ids) = OldRreqCount /\ \A i \in ids : id < i)

\* A request that a node has broadcast again is one it remembers as long as a copy
\* is on the air, unless later requests have taken the place of its id; no more
\* ids are kept than OLD_RREQ_COUNT, all of requests that have been made.
RequestsRemembered ==
  /\ \A m \in msgs :
       m.type = "RREQ" /\ m.from # m.orig => Known(seen[m.from][m.orig], m.id)
  /\ \A n, o \in Node :
       Cardinality(seen[n][o]) <= OldRreqCount /\ seen[n][o] \subseteq 1 .. rreqId[o]

\* Every flood ends: from some time on no request is on the air.
FloodEnds == <>[](\A m \in msgs : m.type # "RREQ")

\* A packet that is sent is delivered.
Delivery == \A p \in Packet : p \in sent ~> <<p, Dst[p]>> \in delivered

-----------------------------------------------------------------------------
\* The origin in the header of a data packet is the node that sent it
\* (aodv/aodv.h:49: "IP address where the packet was from").
OriginKept == \A m \in msgs : m.type = "DATA" => m.orig = Src[m.pkt]

\* A route error is sent towards the originator, not to address 0
\* (aodv/aodv.cc:195: "send reverse rerr to originator").
ErrorHasReceiver == \A m \in msgs : m.type = "RERR" => m.to # NoAddr
=============================================================================
