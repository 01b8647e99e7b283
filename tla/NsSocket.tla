------------------------------- MODULE NsSocket -------------------------------
(***************************************************************************)
(* What every socket of the simulator keeps (network/model/socket.cc): its *)
(* options and the callbacks it was given.  Opening, binding, connecting,  *)
(* sending and receiving belong to the transport, which is not part of the *)
(* repository.  Left out: what only IPv6 uses, and the tags that carry an  *)
(* option with a packet.                                                   *)
(***************************************************************************)
EXTENDS Naturals, TLC

CONSTANTS
  NetDevice,   \* the devices of the socket's node
  NoNetDevice, \* the null pointer
  Tos,         \* bytes a program may ask for
  Ttl

ASSUME TosAssumption == Tos \subseteq 0..255
ASSUME BoundAssumption == NoNetDevice \notin NetDevice

VARIABLES
  type,      \* of socket: a stream or datagrams
  options,   \* the members m_priority, m_ipTos, m_manualIpTtl, m_ipTtl, m_boundnetdevice
  callbacks  \* those that are not null

socketVars == <<type, options, callbacks>>

SocketInit ==
  /\ type \in {"NS3_SOCK_STREAM", "NS3_SOCK_DGRAM"}
  /\ options = [priority |-> 0, ipTos |-> 0, manualIpTtl |-> FALSE, ipTtl |-> 0,
                boundnetdevice |-> NoNetDevice]
  /\ callbacks = {}
-----------------------------------------------------------------------------
BESTEFFORT == 0
BULK == 2
INTERACTIVE_BULK == 4
INTERACTIVE == 6

\* Bits 1 to 4 of the byte.
IpTos2Priority(ipTos) ==
  <<BESTEFFORT, BULK, INTERACTIVE, INTERACTIVE_BULK>>[(ipTos % 32) \div 8 + 1]

SetPriority ==
  /\ \E p \in 0..7 : options' = IF p <= 6 THEN [options EXCEPT !.priority = p] ELSE options
  /\ UNCHANGED <<type, callbacks>>

\* A stream keeps the lowest two bits, which tell of congestion.
Settled(tos) ==
  IF type = "NS3_SOCK_STREAM" THEN 4 * (tos \div 4) + (options.ipTos % 4) ELSE tos

\* Bug: the priority is kept.
BugPriorityStays(tos) == [options EXCEPT !.ipTos = Settled(tos)]

WithIpTos(tos) ==
  [options EXCEPT !.ipTos = Settled(tos), !.priority = IpTos2Priority(Settled(tos))]

SetIpTos ==
  /\ \E tos \in Tos : options' = WithIpTos(tos)
  /\ UNCHANGED <<type, callbacks>>

SetIpTtl ==
  /\ \E ttl \in Ttl : options' = [options EXCEPT !.manualIpTtl = TRUE, !.ipTtl = ttl]
  /\ UNCHANGED <<type, callbacks>>

\* Only a device of the socket's node may be named, or none.
BindToNetDevice ==
  /\ \E d \in NetDevice \cup {NoNetDevice} : options' = [options EXCEPT !.boundnetdevice = d]
  /\ UNCHANGED <<type, callbacks>>
-----------------------------------------------------------------------------
\* The callbacks that are given together.
Given == {{"connectionSucceeded", "connectionFailed"}, {"normalClose", "errorClose"},
          {"connectionRequest", "newConnectionCreated"}, {"dataSent"}, {"send"},
          {"receivedData"}}

SetCallbacks ==
  /\ \E g \in Given : callbacks' = callbacks \cup g
  /\ UNCHANGED <<type, options>>

Dispose ==
  /\ callbacks' = {}
  /\ UNCHANGED <<type, options>>

SocketNext ==
  \/ SetPriority \/ SetIpTos \/ SetIpTtl \/ BindToNetDevice
  \/ SetCallbacks \/ Dispose

SocketSpec == SocketInit /\ [][SocketNext]_socketVars
-----------------------------------------------------------------------------
\* The priority of each code point, as the comment of IpTos2Priority lists them.
DscpPriority ==
  LET bulk == {10, 18, 26, 34}
      interactive == {12, 20, 28, 36}
      interactiveBulk == {46, 14, 22, 30, 38}
  IN [dscp \in bulk \cup interactive \cup interactiveBulk \cup {8 * class : class \in 0..7} |->
        IF dscp \in bulk THEN 2
        ELSE IF dscp \in interactive THEN 6
        ELSE IF dscp \in interactiveBulk THEN 4 ELSE 0]

\* Whatever options were set before, a change of the type of service gives the
\* packets the priority that belongs to the code point now set, and the congestion
\* bits of a stream never change (SetIpTos).
TosSettles ==
  [][options'.ipTos # options.ipTos =>
       /\ LET dscp == options'.ipTos \div 4
          IN dscp \in DOMAIN DscpPriority => options'.priority = DscpPriority[dscp]
       /\ type = "NS3_SOCK_STREAM" => options'.ipTos % 4 = options.ipTos % 4]_socketVars
=============================================================================
