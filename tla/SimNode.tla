------------------------------- MODULE SimNode -------------------------------
(***************************************************************************)
(* The framework on simulated nodes (adhoc-routing/helper/                 *)
(* adhoc-routing-helper.cc): packets go through sockets of the simulator,  *)
(* every packet counts as a hello of its sender and takes its bits from    *)
(* the receiver's bandwidth for a second, and a node's hellos are events   *)
(* that schedule themselves.                                               *)
(*                                                                         *)
(* The clock stands still while there is an event or a packet of the       *)
(* present tick; which of them comes first is left open.  What the packets *)
(* make the nodes do is in Aodv, HelloMonitor and Rem.                     *)
(***************************************************************************)
EXTENDS Integers, Sequences, Functions, TLC

CONSTANTS
  Ip,         \* the nodes' addresses
  BROADCAST,
  Length,     \* lengths of packets in bytes
  HelloLength,
  HEADER,     \* bytes of the IPv4 header that goes before the data
  Bandwidth,  \* bits per second (setAvailableBandwidthBits)
  SECOND,     \* ticks
  HELLO_TIME, \* ticks between two hellos of a node
  Start,      \* node -> tick of its first hello
  None,       \* the null pointer
  MaxTime,    \* bound of the model: ticks
  MaxSent     \* bound of the model: packets of sendPacket

ASSUME LengthAssumption == Length \cup {HelloLength, HEADER} \subseteq Nat
ASSUME BandwidthAssumption == Bandwidth \in Nat
ASSUME TickAssumption == SECOND \in Nat \ {0} /\ HELLO_TIME \in Nat \ {0}
ASSUME AddressAssumption == BROADCAST \notin Ip

VARIABLES
  now,
  m_existingNodes, \* address -> node; a lookup adds a null for an unknown address
  air,             \* packets under way: [id, source, to, bytes]
  linkRss,         \* node -> the sources it has a signal strength of (m_linkRssDb)
  heard,           \* node -> the sources its hello monitor was told of
  available,       \* node -> m_availableBandwidthBits
  returns,         \* events RemovePacketFromBandwidthMetric: [id, node, due, bits]
  hellos,          \* events of waitSimulatedTimeForHelloMonitor: node -> tick
  received,        \* history: [node, time, bytes] of each packet
  ids,             \* packets and events so far
  sent             \* bound of the model

simVars == <<now, m_existingNodes, air, linkRss, heard, available, returns, hellos, received,
             ids, sent>>

\* The constructors of all nodes have run, and the script has set the bandwidth and
\* scheduled the first hellos.
SimInit ==
  /\ now = 0
  /\ m_existingNodes = [n \in Ip |-> n]
  /\ air = {}
  /\ linkRss = [n \in Ip |-> {}]
  /\ heard = [n \in Ip |-> {}]
  /\ available = [n \in Ip |-> Bandwidth]
  /\ returns = {}
  /\ hellos = Start
  /\ received = {}
  /\ ids = 0
  /\ sent = 0
-----------------------------------------------------------------------------
\* operator[] of the map of nodes, which is asked even for the broadcast address.
Asked(dest) == m_existingNodes @@ (dest :> None)

Receivers(source, dest) == IF dest = BROADCAST THEN Ip \ {source} ELSE {dest}

\* One packet per receiver, each with a header before its data.
AdHocSendPacket(source, length, dest) ==
  /\ m_existingNodes' = Asked(dest)
  /\ air' = air \cup {[id |-> ids, source |-> source, to |-> n, bytes |-> length + HEADER] :
                        n \in Receivers(source, dest)}
  /\ ids' = ids + 1

\* A node's protocols send a packet (SimAODV::_socketSendPacket).
SendPacket ==
  /\ sent < MaxSent
  /\ \E source \in Ip, length \in Length : \E dest \in (Ip \ {source}) \cup {BROADCAST} :
       AdHocSendPacket(source, length, dest)
  /\ sent' = sent + 1
  /\ UNCHANGED <<now, linkRss, heard, available, returns, hellos, received>>

\* sendHellos(1) broadcasts one hello and comes back; the next call is scheduled.
WaitSimulatedTimeForHelloMonitor ==
  \E n \in Ip :
    /\ hellos[n] = now
    /\ AdHocSendPacket(n, HelloLength, BROADCAST)
    /\ hellos' = [hellos EXCEPT ![n] = now + HELLO_TIME]
    /\ UNCHANGED <<now, linkRss, heard, available, returns, received, sent>>
-----------------------------------------------------------------------------
\* Bug: what is given back later includes the bits there were none left for.
BugGivesBackAll(left, bits) == [left |-> IF left < bits THEN 0 ELSE left - bits, taken |-> bits]

\* updateLinkBandwidth: no more is taken than there is left.
Charge(left, bits) ==
  IF left < bits THEN [left |-> 0, taken |-> left] ELSE [left |-> left - bits, taken |-> bits]

\* GetRxAvailable is asked once, before the loop: the bits each packet is charged.
ChargePerPacket(queue) == 8 * SumFunction([i \in DOMAIN queue |-> queue[i].bytes])

\* receivePacket with what waits in a node's socket: every packet is a hello of its
\* sender, sets its signal strength, and is charged; handlePackets follows at once.
ReceivePacket(node, queue) ==
  LET bits == ChargePerPacket(queue)
      sources == {queue[i].source : i \in DOMAIN queue}
      charges[i \in 0..Len(queue)] ==
        IF i = 0 THEN [left |-> available[node], taken |-> 0]
        ELSE Charge(charges[i - 1].left, bits)
  IN /\ linkRss' = [linkRss EXCEPT ![node] = @ \cup sources]
     /\ heard' = [heard EXCEPT ![node] = @ \cup sources]
     /\ available' = [available EXCEPT ![node] = charges[Len(queue)].left]
     /\ returns' = returns \cup {[id |-> ids + i, node |-> node, due |-> now + SECOND,
                                  bits |-> charges[i].taken] : i \in DOMAIN queue}
     /\ ids' = ids + Len(queue) + 1

\* The transport queues a packet and notifies at once (Socket::NotifyDataRecv): the
\* callback was set before the simulation began, so the packet is the only one.
NotifyDataRecv ==
  \E p \in air :
    /\ air' = air \ {p}
    /\ ReceivePacket(p.to, <<p>>)
    /\ received' = received \cup {[id |-> ids, node |-> p.to, time |-> now, bytes |-> p.bytes]}
    /\ UNCHANGED <<now, m_existingNodes, hellos, sent>>

Lose ==
  \E p \in air :
    /\ air' = air \ {p}
    /\ UNCHANGED <<now, m_existingNodes, linkRss, heard, available, returns, hellos, received,
                   ids, sent>>

RemovePacketFromBandwidthMetric ==
  \E e \in returns :
    /\ e.due = now
    /\ returns' = returns \ {e}
    /\ available' = [available EXCEPT ![e.node] = @ + e.bits]
    /\ UNCHANGED <<now, m_existingNodes, air, linkRss, heard, hellos, received, ids, sent>>

\* Time goes on when all of the present has happened; packets of more than a second
\* ago leave the history.
Tick ==
  /\ now < MaxTime
  /\ air = {} /\ \A e \in returns : e.due > now
  /\ \A n \in Ip : hellos[n] > now
  /\ now' = now + 1
  /\ received' = {r \in received : r.time + SECOND > now}
  /\ UNCHANGED <<m_existingNodes, air, linkRss, heard, available, returns, hellos, ids, sent>>

SimNext ==
  \/ SendPacket \/ WaitSimulatedTimeForHelloMonitor \/ NotifyDataRecv \/ Lose
  \/ RemovePacketFromBandwidthMetric \/ Tick

SimSpec == SimInit /\ [][SimNext]_simVars
-----------------------------------------------------------------------------
\* What a node may still receive in this second and what will be given back make up
\* the bandwidth again, however many packets came at once and were more than was
\* left; and no more is taken than the packets of the last second had
\* (updateLinkBandwidth, receivePacket).
BandwidthKept ==
  \A n \in Ip :
    LET taken == SumFunctionOnSet([e \in returns |-> e.bits], {e \in returns : e.node = n})
        bytes == SumFunctionOnSet([r \in received |-> r.bytes], {r \in received : r.node = n})
    IN /\ available[n] >= 0
       /\ available[n] + taken = Bandwidth
       /\ taken <= 8 * bytes
=============================================================================
