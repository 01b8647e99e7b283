-------------------------- MODULE SimulationProofs --------------------------
(***************************************************************************)
(* The simulator's nodes and sockets (NsNode, NsSocket), the framework on  *)
(* them (SimNode) and the line of sight (Los), for any devices, handlers,  *)
(* packets, options, bandwidths and orbits.                                *)
(***************************************************************************)
EXTENDS NsNode, NsSocket, SimNode, Los, DataLemmas

Listening == [listener : Listener, told : Seq(Device)]

Handling ==
  [handler : Handler, protocol : Protocol \cup {0}, device : Device \cup {NoDevice},
   promiscuous : BOOLEAN, there : SUBSET Device]

\* Every variable of a node has its type.
NodeTypeOK ==
  /\ m_devices \in Seq(Device)
  /\ m_handlers \in Seq(Handling)
  /\ m_deviceAdditionListeners \in Seq(Listening)
  /\ promiscuous \subseteq Device

\* The devices that a handler that listens to everything was registered for, its own
\* or, if it was given none, those that were there, have the promiscuous callback.
CallbackSet ==
  \A i \in DOMAIN m_handlers : m_handlers[i].promiscuous =>
    /\ m_handlers[i].device # NoDevice => m_handlers[i].device \in promiscuous
    /\ m_handlers[i].device = NoDevice => m_handlers[i].there \subseteq promiscuous

NodeInv == NodeTypeOK /\ CallbackSet /\ ListenersTold

-----------------------------------------------------------------------------
LEMMA NodeInitInv == NodeInit => NodeInv
<1>1. <<>> \in Seq(Device) /\ <<>> \in Seq(Handling) /\ <<>> \in Seq(Listening)
  BY EmptySeq
<1>2. DOMAIN <<>> = {}
  BY EmptySeq
<1> QED BY <1>1, <1>2 DEF NodeInit, NodeInv, NodeTypeOK, CallbackSet, ListenersTold

LEMMA HandlerRemoved ==
  ASSUME NodeInv, UnregisterProtocolHandler
  PROVE  NodeInv'
<1>1. PICK h \in Handler : m_handlers' = RemoveFirstMatch(m_handlers, LAMBDA e : e.handler = h)
  BY DEF UnregisterProtocolHandler
<1> DEFINE T == {i \in 1 .. Len(m_handlers) : m_handlers[i].handler = h}
<1>2. m_handlers' = IF T # {} THEN RemoveAt(m_handlers, Min(T)) ELSE m_handlers
  BY <1>1 DEF RemoveFirstMatch, SelectInSeq
<1>3. m_handlers \in Seq(Handling) /\ T \in SUBSET (1 .. Len(m_handlers))
  BY DEF NodeInv, NodeTypeOK
<1> HIDE DEF T
<1>4. /\ m_handlers' \in Seq(Handling)
      /\ \A j \in DOMAIN m_handlers' : \E i \in DOMAIN m_handlers : m_handlers'[j] = m_handlers[i]
  BY <1>2, <1>3, RemoveMatchElements
<1>5. UNCHANGED <<m_devices, m_deviceAdditionListeners, promiscuous>>
  BY DEF UnregisterProtocolHandler
<1> QED BY <1>4, <1>5 DEF NodeInv, NodeTypeOK, CallbackSet, ListenersTold

LEMMA ListenerRemoved ==
  ASSUME NodeInv, UnregisterDeviceAdditionListener
  PROVE  NodeInv'
<1> DEFINE s == m_deviceAdditionListeners
<1>1. PICK l \in Listener :
        m_deviceAdditionListeners' = RemoveFirstMatch(s, LAMBDA e : e.listener = l)
  BY DEF UnregisterDeviceAdditionListener
<1> DEFINE T == {i \in 1 .. Len(s) : s[i].listener = l}
<1>2. m_deviceAdditionListeners' = IF T # {} THEN RemoveAt(s, Min(T)) ELSE s
  BY <1>1 DEF RemoveFirstMatch, SelectInSeq
<1>3. s \in Seq(Listening) /\ T \in SUBSET (1 .. Len(s))
  BY DEF NodeInv, NodeTypeOK
<1> HIDE DEF T
<1>4. /\ m_deviceAdditionListeners' \in Seq(Listening)
      /\ \A j \in DOMAIN m_deviceAdditionListeners' :
           \E i \in DOMAIN s : m_deviceAdditionListeners'[j] = s[i]
  BY <1>2, <1>3, RemoveMatchElements
<1>5. UNCHANGED <<m_devices, m_handlers, promiscuous>>
  BY DEF UnregisterDeviceAdditionListener
<1> QED BY <1>4, <1>5 DEF NodeInv, NodeTypeOK, CallbackSet, ListenersTold

-----------------------------------------------------------------------------
LEMMA DeviceAdded ==
  ASSUME NodeInv, AddDevice
  PROVE  NodeInv'
<1> DEFINE s == m_deviceAdditionListeners
<1>1. PICK d \in Device :
        /\ m_devices' = Append(m_devices, d)
        /\ m_deviceAdditionListeners' = NotifyDeviceAdded(d)
        /\ UNCHANGED <<m_handlers, promiscuous>>
  BY DEF AddDevice
<1>2. s \in Seq(Listening) /\ m_devices \in Seq(Device)
  BY DEF NodeInv, NodeTypeOK
<1>3. m_devices' \in Seq(Device)
  BY <1>1, <1>2
<1>4. m_deviceAdditionListeners' = [i \in 1 .. Len(s) |-> [s[i] EXCEPT !.told = Append(@, d)]]
  BY <1>1, <1>2 DEF NotifyDeviceAdded
<1>5. ASSUME NEW i \in 1 .. Len(s)
      PROVE  /\ m_deviceAdditionListeners'[i] \in Listening
             /\ m_deviceAdditionListeners'[i].told = m_devices'
  <2>1. s[i] \in Listening
    BY <1>2
  <2>2. s[i].told = m_devices
    BY <1>2 DEF NodeInv, ListenersTold
  <2>3. m_deviceAdditionListeners'[i] = [s[i] EXCEPT !.told = Append(s[i].told, d)]
    BY <1>4
  <2> QED BY <1>1, <1>3, <2>1, <2>2, <2>3 DEF Listening
<1>6. m_deviceAdditionListeners' \in Seq(Listening)
  <2>1. Len(s) \in Nat
    BY <1>2
  <2>2. m_deviceAdditionListeners' \in [1 .. Len(s) -> Listening]
    BY <1>4, <1>5
  <2> QED BY <2>1, <2>2, SeqDef
<1>7. ListenersTold'
  BY <1>2, <1>4, <1>5 DEF ListenersTold
<1> QED BY <1>1, <1>3, <1>6, <1>7 DEF NodeInv, NodeTypeOK, CallbackSet

LEMMA HandlerAdded ==
  ASSUME NodeInv, RegisterProtocolHandler
  PROVE  NodeInv'
<1>0. m_devices \in Seq(Device) /\ m_handlers \in Seq(Handling) /\ promiscuous \subseteq Device
  BY DEF NodeInv, NodeTypeOK
<1>1. PICK h \in Handler, p \in Protocol \cup {0}, d \in Range(m_devices) \cup {NoDevice},
           promisc \in BOOLEAN :
        /\ promiscuous' = promiscuous \cup
             (IF ~promisc THEN {} ELSE IF d = NoDevice THEN Range(m_devices) ELSE {d})
        /\ m_handlers' = Append(m_handlers, [handler |-> h, protocol |-> p, device |-> d,
                                             promiscuous |-> promisc,
                                             there |-> Range(m_devices)])
  BY DEF RegisterProtocolHandler
<1> DEFINE e == [handler |-> h, protocol |-> p, device |-> d, promiscuous |-> promisc,
                 there |-> Range(m_devices)]
<1>2. Range(m_devices) \subseteq Device
  BY <1>0 DEF Range
<1>3. e \in Handling
  BY <1>2 DEF Handling
<1>4. m_handlers' \in Seq(Handling) /\ promiscuous' \subseteq Device /\ promiscuous \subseteq promiscuous'
  BY <1>0, <1>1, <1>2, <1>3
<1>5. ASSUME NEW i \in DOMAIN m_handlers'
      PROVE  m_handlers'[i] = e \/ (i \in DOMAIN m_handlers /\ m_handlers'[i] = m_handlers[i])
  <2> HIDE DEF e
  <2>1. m_handlers' = Append(m_handlers, e)
    BY <1>1 DEF e
  <2> QED BY <1>0, <1>3, <2>1
<1>6. e.promiscuous => /\ e.device # NoDevice => e.device \in promiscuous'
                       /\ e.device = NoDevice => e.there \subseteq promiscuous'
  BY <1>1
<1>7. CallbackSet'
  <2> HIDE DEF e
  <2> QED BY <1>4, <1>5, <1>6 DEF NodeInv, CallbackSet
<1>8. UNCHANGED <<m_devices, m_deviceAdditionListeners>>
  BY DEF RegisterProtocolHandler
<1> QED BY <1>4, <1>7, <1>8 DEF NodeInv, NodeTypeOK, ListenersTold

LEMMA ListenerAdded ==
  ASSUME NodeInv, RegisterDeviceAdditionListener
  PROVE  NodeInv'
<1> DEFINE s == m_deviceAdditionListeners
<1>0. s \in Seq(Listening) /\ m_devices \in Seq(Device)
  BY DEF NodeInv, NodeTypeOK
<1>1. PICK l \in Listener :
        m_deviceAdditionListeners' = Append(s, [listener |-> l, told |-> m_devices])
  BY DEF RegisterDeviceAdditionListener, ListenersWith
<1>2. [listener |-> l, told |-> m_devices] \in Listening
  BY <1>0 DEF Listening
<1>3. m_deviceAdditionListeners' \in Seq(Listening)
  BY <1>0, <1>1, <1>2
<1>4. UNCHANGED <<m_devices, m_handlers, promiscuous>>
  BY DEF RegisterDeviceAdditionListener
<1>5. ListenersTold'
  BY <1>0, <1>1, <1>2, <1>4 DEF NodeInv, ListenersTold
<1> QED BY <1>3, <1>4, <1>5 DEF NodeInv, NodeTypeOK, CallbackSet

LEMMA NodeNextInv == NodeInv /\ [NodeNext]_nodeVars => NodeInv'
<1> SUFFICES ASSUME NodeInv, [NodeNext]_nodeVars PROVE NodeInv'
  OBVIOUS
<1>1. CASE AddDevice
  BY <1>1, DeviceAdded
<1>2. CASE AddApplication \/ Initialize \/ DoInitialize \/ UNCHANGED nodeVars
  BY <1>2 DEF AddApplication, Initialize, DoInitialize, nodeVars, NodeInv, NodeTypeOK,
              CallbackSet, ListenersTold
<1>3. CASE DoDispose
  <2>1. /\ <<>> \in Seq(Device) /\ <<>> \in Seq(Handling) /\ <<>> \in Seq(Listening)
        /\ DOMAIN <<>> = {}
    BY EmptySeq
  <2> QED BY <1>3, <2>1 DEF DoDispose, NodeInv, NodeTypeOK, CallbackSet, ListenersTold
<1>4. CASE RegisterProtocolHandler
  BY <1>4, HandlerAdded
<1>5. CASE UnregisterProtocolHandler
  BY <1>5, HandlerRemoved
<1>6. CASE RegisterDeviceAdditionListener
  BY <1>6, ListenerAdded
<1>7. CASE UnregisterDeviceAdditionListener
  BY <1>7, ListenerRemoved
<1> QED BY <1>1, <1>2, <1>3, <1>4, <1>5, <1>6, <1>7 DEF NodeNext

\* Every listener has been told of every device in the order of their places,
\* whichever came first, however often devices, handlers and listeners come and go
\* (Node::RegisterDeviceAdditionListener, AddDevice).
THEOREM ListenersToldCorrect == NodeSpec => []ListenersTold
<1>1. NodeInv => ListenersTold
  BY DEF NodeInv
<1> QED BY <1>1, NodeInitInv, NodeNextInv, PTL DEF NodeSpec

-----------------------------------------------------------------------------

\* The places of the handlers that one callback must call.
DueOf(d, p, promisc) ==
  {i \in DOMAIN m_handlers : Attached(m_handlers[i], d, p) /\ m_handlers[i].promiscuous = promisc}

\* ReceiveFromDevice calls each handler that is due once and no other.
LEMMA CalledOnce ==
  ASSUME NodeTypeOK, NEW d, NEW p, NEW promisc \in BOOLEAN
  PROVE  /\ ReceiveFromDevice(d, p, promisc) \in Seq(DOMAIN m_handlers)
         /\ IsInjective(ReceiveFromDevice(d, p, promisc))
         /\ Range(ReceiveFromDevice(d, p, promisc)) = DueOf(d, p, promisc)
<1> DEFINE C == DueOf(d, p, promisc)
           n == Len(m_handlers)
<1>1. n \in Nat /\ DOMAIN m_handlers = 1 .. n /\ C \in SUBSET (1 .. n)
  BY DEF NodeTypeOK, DueOf
<1>2. ReceiveFromDevice(d, p, promisc) = InOrder(C, n)
  BY DEF ReceiveFromDevice, DueOf
<1> HIDE DEF C, n
<1>3. InOrder(C, n) \in Seq(C) /\ IsInjective(InOrder(C, n)) /\ Range(InOrder(C, n)) = C
  BY <1>1, InOrderElements
<1>4. InOrder(C, n) \in Seq(DOMAIN m_handlers)
  BY <1>1, <1>3, SeqMonotonic
<1> QED BY <1>2, <1>3, <1>4 DEF C

LEMMA CallsOnce ==
  ASSUME NodeTypeOK, CallbackSet
  PROVE  OncePerPacket
<1> SUFFICES ASSUME NEW d \in Range(m_devices), NEW p \in Protocol, NEW toNode \in BOOLEAN
             PROVE  LET calls == ForwardUp(d, p, toNode)
                        May(e) == Attached(e, d, p) /\ (e.promiscuous \/ toNode)
                        Must(e) == May(e) /\ (e.promiscuous => e.device = d \/ d \in e.there)
                    IN /\ IsInjective(calls)
                       /\ {i \in DOMAIN m_handlers : Must(m_handlers[i])} \subseteq Range(calls)
                       /\ Range(calls) \subseteq {i \in DOMAIN m_handlers : May(m_handlers[i])}
  BY DEF OncePerPacket
<1> DEFINE D == DOMAIN m_handlers
           Normal == DueOf(d, p, FALSE)
           Promisc == DueOf(d, p, TRUE)
           s == IF toNode THEN ReceiveFromDevice(d, p, FALSE) ELSE <<>>
           u == IF d \in promiscuous THEN ReceiveFromDevice(d, p, TRUE) ELSE <<>>
<1>1. <<>> \in Seq(D) /\ IsInjective(<<>>) /\ Range(<<>>) = {}
  BY EmptySeq DEF IsInjective, Range
<1>2. /\ s \in Seq(D) /\ IsInjective(s)
      /\ Range(s) = IF toNode THEN Normal ELSE {}
  <2>1. /\ ReceiveFromDevice(d, p, FALSE) \in Seq(D)
        /\ IsInjective(ReceiveFromDevice(d, p, FALSE))
        /\ Range(ReceiveFromDevice(d, p, FALSE)) = Normal
    BY CalledOnce
  <2> HIDE DEF Normal, Promisc
  <2> QED BY <1>1, <2>1
<1>3. /\ u \in Seq(D) /\ IsInjective(u)
      /\ Range(u) = IF d \in promiscuous THEN Promisc ELSE {}
  <2>1. /\ ReceiveFromDevice(d, p, TRUE) \in Seq(D)
        /\ IsInjective(ReceiveFromDevice(d, p, TRUE))
        /\ Range(ReceiveFromDevice(d, p, TRUE)) = Promisc
    BY CalledOnce
  <2> HIDE DEF Normal, Promisc
  <2> QED BY <1>1, <2>1
<1>4. Normal \cap Promisc = {}
  BY DEF DueOf
<1>5. ForwardUp(d, p, toNode) = s \o u
  BY DEF ForwardUp, NonPromiscReceiveFromDevice, PromiscReceiveFromDevice
<1>6. d \in Device
  BY DEF NodeTypeOK, Range
<1>7. ASSUME NEW i \in D
      PROVE  /\ m_handlers[i].promiscuous \in BOOLEAN
             /\ i \in Promisc /\ (m_handlers[i].device = d \/ d \in m_handlers[i].there) =>
                  d \in promiscuous
  <2>1. m_handlers[i] \in Handling
    BY DEF NodeTypeOK
  <2> QED BY <1>6, <2>1, NoDeviceAssumption DEF Handling, CallbackSet, DueOf, Attached
<1> HIDE DEF s, u
<1>8. IsInjective(s \o u) /\ Range(s \o u) = Range(s) \cup Range(u)
  <2>1. Range(s) \cap Range(u) = {}
    BY <1>2, <1>3, <1>4
  <2>2. s \in Seq(D) /\ u \in Seq(D) /\ IsInjective(s) /\ IsInjective(u)
    BY <1>2, <1>3
  <2> HIDE DEF D
  <2> QED BY <2>1, <2>2, ConcatOnce
<1>9. ASSUME NEW i \in D, Attached(m_handlers[i], d, p), m_handlers[i].promiscuous \/ toNode,
             m_handlers[i].promiscuous => m_handlers[i].device = d \/ d \in m_handlers[i].there
      PROVE  i \in Range(s) \cup Range(u)
  <2>1. i \in Normal \/ i \in Promisc
    BY <1>7, <1>9 DEF DueOf
  <2>2. i \in Normal => ~m_handlers[i].promiscuous
    BY DEF DueOf
  <2>3. i \in Promisc => m_handlers[i].promiscuous
    BY DEF DueOf
  <2> HIDE DEF Normal, Promisc
  <2> QED BY <1>2, <1>3, <1>7, <1>9, <2>1, <2>2, <2>3
<1>10. ASSUME NEW i \in Range(s) \cup Range(u)
       PROVE  /\ i \in D /\ Attached(m_handlers[i], d, p)
              /\ m_handlers[i].promiscuous \/ toNode
  <2>1. i \in Promisc \/ (i \in Normal /\ toNode)
    BY <1>2, <1>3
  <2> QED BY <2>1 DEF DueOf
<1> QED BY <1>5, <1>8, <1>9, <1>10

\* A packet that a device hands to both callbacks calls each handler attached to its
\* protocol and device once and no other, for any devices, handlers and protocols; a
\* handler for all devices that listens to everything counts as attached to those
\* that were there when it was registered (Node::ReceiveFromDevice,
\* RegisterProtocolHandler).
THEOREM OncePerPacketCorrect == NodeSpec => []OncePerPacket
<1>1. NodeInv => OncePerPacket
  BY CallsOnce DEF NodeInv
<1> QED BY <1>1, NodeInitInv, NodeNextInv, PTL DEF NodeSpec

-----------------------------------------------------------------------------
\* The byte of a socket's type of service.
TosTypeOK ==
  /\ options \in [priority : 0..6, ipTos : 0..255, manualIpTtl : BOOLEAN, ipTtl : Ttl \cup {0},
                  boundnetdevice : NetDevice \cup {NoNetDevice}]
  /\ type \in {"NS3_SOCK_STREAM", "NS3_SOCK_DGRAM"}

LEMMA SettledByte ==
  ASSUME TosTypeOK, NEW tos \in 0..255
  PROVE  /\ Settled(tos) \in 0..255
         /\ type = "NS3_SOCK_STREAM" => Settled(tos) % 4 = options.ipTos % 4
         /\ IpTos2Priority(Settled(tos)) \in 0..6
<1>1. options.ipTos \in 0..255
  BY DEF TosTypeOK
<1>2. \A x \in 0..255, y \in 0..255 :
        4 * (x \div 4) + (y % 4) \in 0..255 /\ (4 * (x \div 4) + (y % 4)) % 4 = y % 4
  OBVIOUS
<1>3. /\ Settled(tos) \in 0..255
      /\ type = "NS3_SOCK_STREAM" => Settled(tos) % 4 = options.ipTos % 4
  BY <1>1, <1>2 DEF Settled
<1>4. \A x \in 0..255 : (x % 32) \div 8 + 1 \in 1..4
  OBVIOUS
<1>5. \A x \in 0..255 : IpTos2Priority(x) \in 0..6
  BY <1>4 DEF IpTos2Priority, BESTEFFORT, BULK, INTERACTIVE, INTERACTIVE_BULK
<1> QED BY <1>3, <1>5

\* The bits 1 to 4 of a byte are those of its code point.
LEMMA PriorityOfCodePoint ==
  ASSUME NEW x \in 0..255, x \div 4 \in DOMAIN DscpPriority
  PROVE  IpTos2Priority(x) = DscpPriority[x \div 4]
<1> DEFINE dscp == x \div 4
           row == (x % 32) \div 8
<1>1. /\ dscp \in {10, 18, 26, 34} => row = 1
      /\ dscp \in {12, 20, 28, 36} => row = 2
      /\ dscp \in {46, 14, 22, 30, 38} => row = 3
      /\ \A class \in 0..7 : dscp = 8 * class => row = 0
  OBVIOUS
<1>2. IpTos2Priority(x) = <<0, 2, 6, 4>>[row + 1]
  BY DEF IpTos2Priority, BESTEFFORT, BULK, INTERACTIVE, INTERACTIVE_BULK
<1>3. dscp \in {10, 18, 26, 34} \cup {12, 20, 28, 36} \cup {46, 14, 22, 30, 38}
              \cup {8 * class : class \in 0..7}
  BY DEF DscpPriority
<1> HIDE DEF dscp, row
<1>4. CASE dscp \in {10, 18, 26, 34}
  BY <1>1, <1>2, <1>3, <1>4 DEF DscpPriority, dscp
<1>5. CASE dscp \in {12, 20, 28, 36}
  BY <1>1, <1>2, <1>3, <1>5 DEF DscpPriority, dscp
<1>6. CASE dscp \in {46, 14, 22, 30, 38}
  BY <1>1, <1>2, <1>3, <1>6 DEF DscpPriority, dscp
<1>7. CASE \E class \in 0..7 : dscp = 8 * class
  BY <1>1, <1>2, <1>3, <1>7 DEF DscpPriority, dscp
<1> QED BY <1>3, <1>4, <1>5, <1>6, <1>7

LEMMA TosInit == SocketInit => TosTypeOK
  BY DEF SocketInit, TosTypeOK

LEMMA TosNext ==
  ASSUME TosTypeOK, [SocketNext]_socketVars
  PROVE  /\ TosTypeOK'
         /\ options'.ipTos # options.ipTos =>
              /\ LET dscp == options'.ipTos \div 4
                 IN dscp \in DOMAIN DscpPriority => options'.priority = DscpPriority[dscp]
              /\ type = "NS3_SOCK_STREAM" => options'.ipTos % 4 = options.ipTos % 4
<1>1. CASE SetPriority
  BY <1>1 DEF SetPriority, TosTypeOK
<1>2. CASE SetIpTos
  <2>1. PICK tos \in Tos : options' = WithIpTos(tos)
    BY <1>2 DEF SetIpTos
  <2>2. tos \in 0..255
    BY TosAssumption
  <2> DEFINE x == Settled(tos)
  <2>3. /\ x \in 0..255 /\ IpTos2Priority(x) \in 0..6
        /\ type = "NS3_SOCK_STREAM" => x % 4 = options.ipTos % 4
    BY <2>2, SettledByte
  <2> HIDE DEF x
  <2>4. options' = [options EXCEPT !.ipTos = x, !.priority = IpTos2Priority(x)]
    BY <2>1 DEF WithIpTos, x
  <2>5. options'.ipTos = x /\ options'.priority = IpTos2Priority(x)
    BY <2>4 DEF TosTypeOK
  <2>6. TosTypeOK'
    BY <1>2, <2>3, <2>4, SMTT(20), ZenonT(30) DEF TosTypeOK, SetIpTos
  <2>7. x \div 4 \in DOMAIN DscpPriority => options'.priority = DscpPriority[x \div 4]
    BY <2>3, <2>5, PriorityOfCodePoint
  <2> QED BY <2>3, <2>5, <2>6, <2>7
<1>3. CASE SetIpTtl
  <2>1. PICK ttl \in Ttl : options' = [options EXCEPT !.manualIpTtl = TRUE, !.ipTtl = ttl]
    BY <1>3 DEF SetIpTtl
  <2>2. options'.ipTos = options.ipTos
    BY <2>1 DEF TosTypeOK
  <2> DEFINE b == TRUE
  <2>3. b \in BOOLEAN /\ options' = [options EXCEPT !.manualIpTtl = b, !.ipTtl = ttl]
    BY <2>1
  <2>4. TosTypeOK'
    <3> HIDE DEF b
    <3> QED BY <1>3, <2>3, SMTT(20), ZenonT(30) DEF TosTypeOK, SetIpTtl
  <2> QED BY <2>2, <2>4
<1>4. CASE BindToNetDevice
  BY <1>4 DEF BindToNetDevice, TosTypeOK
<1>5. CASE SetCallbacks \/ Dispose \/ UNCHANGED socketVars
  BY <1>5 DEF SetCallbacks, Dispose, socketVars, TosTypeOK
<1> QED BY <1>1, <1>2, <1>3, <1>4, <1>5 DEF SocketNext

\* A change of the type of service gives the packets the priority of the code point
\* now set, and keeps a stream's congestion bits, for every byte a program may ask
\* for and every option set before (Socket::SetIpTos, IpTos2Priority).
THEOREM TosSettlesCorrect == SocketSpec => TosSettles
<1>1. TosTypeOK /\ [SocketNext]_socketVars => TosTypeOK'
  BY TosNext
<1>2. TosTypeOK /\ [SocketNext]_socketVars =>
        [options'.ipTos # options.ipTos =>
           /\ LET dscp == options'.ipTos \div 4
              IN dscp \in DOMAIN DscpPriority => options'.priority = DscpPriority[dscp]
           /\ type = "NS3_SOCK_STREAM" => options'.ipTos % 4 = options.ipTos % 4]_socketVars
  BY TosNext
<1> QED BY <1>1, <1>2, TosInit, PTL DEF SocketSpec, TosSettles

-----------------------------------------------------------------------------
\* One component of a point of the line from x to y.
LEMMA Component ==
  ASSUME NEW m \in Int, NEW k \in Int, NEW x \in Int, NEW y \in Int
  PROVE  ((m - k) * x + k * y) * ((m - k) * x + k * y) =
           m * m * (x * x) + 2 * m * k * (x * (y - x)) + k * k * ((y - x) * (y - x))
  OBVIOUS

\* What the steps keep: the paths are of one length, and their entries are places.
Orbit(n) == \A i \in DOMAIN orbitData : orbitData[i] \in [1 .. n -> Place]

LosTypeOK ==
  /\ timestep_size \in Nat \ {0} /\ asteroid_radius \in Nat
  /\ \E n \in Nat : Orbit(n)
  /\ orbitData # <<>> => 0 \in DOMAIN orbitData

LEMMA LosInitType == LosInit => LosTypeOK
<1> SUFFICES ASSUME LosInit PROVE LosTypeOK
  OBVIOUS
<1>1. DOMAIN orbitData = {}
  BY EmptySeq DEF LosInit
<1>2. Orbit(0)
  BY <1>1 DEF Orbit
<1> QED BY <1>2 DEF LosInit, LosTypeOK

LEMMA PulledType ==
  ASSUME LosTypeOK, pullOrbitData
  PROVE  LosTypeOK'
<1>1. PICK f \in File :
        /\ orbitData' = [i \in 0..Len(f.craft) |-> IF i = 0 THEN f.carrier ELSE f.craft[i]]
        /\ timestep_size' = f.size /\ asteroid_radius' = asteroid_radius
  BY DEF pullOrbitData
<1> DEFINE n == Len(f.carrier)
<1>2. n \in Nat /\ f.carrier \in [1 .. n -> Place]
  BY FileAssumption, LenProperties
<1>3. Len(f.craft) \in Nat /\ DOMAIN f.craft = 1 .. Len(f.craft)
  BY FileAssumption
<1>4. ASSUME NEW i \in 1 .. Len(f.craft) PROVE f.craft[i] \in [1 .. n -> Place]
  <2>1. f.craft[i] \in Seq(Place) /\ Len(f.craft[i]) = n
    BY <1>3, FileAssumption
  <2> QED BY <2>1, LenProperties
<1> HIDE DEF n
<1>5. Orbit(n)'
  <2>1. \A i \in 0 .. Len(f.craft) : i # 0 => i \in 1 .. Len(f.craft)
    BY <1>3
  <2> QED BY <1>1, <1>2, <1>4, <2>1 DEF Orbit
<1>6. 0 \in DOMAIN orbitData'
  BY <1>1, <1>3
<1> QED BY <1>1, <1>2, <1>5, <1>6, FileAssumption DEF LosTypeOK

LEMMA TimesPlace ==
  ASSUME NEW k \in Int, NEW u \in Place
  PROVE  Times(k, u) \in Place
  BY DEF Times, Place

LEMMA ScaledType ==
  ASSUME LosTypeOK, scalePositions
  PROVE  LosTypeOK'
<1>1. PICK k \in Factor :
        /\ asteroid_radius' = k * asteroid_radius
        /\ orbitData' = [i \in DOMAIN orbitData |->
                           [j \in DOMAIN orbitData[i] |-> Times(k, orbitData[i][j])]]
        /\ timestep_size' = timestep_size
  BY DEF scalePositions
<1>2. k \in Nat
  BY FactorAssumption
<1>3. PICK n \in Nat : Orbit(n)
  BY DEF LosTypeOK
<1>4. ASSUME NEW i \in DOMAIN orbitData PROVE orbitData'[i] \in [1 .. n -> Place]
  <2>1. orbitData[i] \in [1 .. n -> Place]
    BY <1>3 DEF Orbit
  <2>2. orbitData'[i] = [j \in 1 .. n |-> Times(k, orbitData[i][j])]
    BY <1>1, <2>1
  <2>3. \A j \in 1 .. n : Times(k, orbitData[i][j]) \in Place
    BY <1>2, <2>1, TimesPlace
  <2> QED BY <2>2, <2>3
<1>5. Orbit(n)'
  BY <1>1, <1>4 DEF Orbit
<1>6. 0 \in DOMAIN orbitData'
  BY <1>1 DEF scalePositions, LosTypeOK
<1> QED BY <1>1, <1>2, <1>5, <1>6 DEF LosTypeOK

LEMMA LosNextType == LosTypeOK /\ [LosNext]_losVars => LosTypeOK'
<1>1. ASSUME LosTypeOK, UNCHANGED losVars PROVE LosTypeOK'
  BY <1>1 DEF losVars, LosTypeOK, Orbit
<1> QED BY <1>1, PulledType, ScaledType DEF LosNext

-----------------------------------------------------------------------------
LEMMA PositionPlace ==
  ASSUME LosTypeOK, NEW i \in DOMAIN orbitData, NEW t \in Time
  PROVE  Position(i, t) \in Place
<1>1. PICK n \in Nat : Orbit(n)
  BY DEF LosTypeOK
<1>2. orbitData[0] \in [1 .. n -> Place] /\ orbitData[i] \in [1 .. n -> Place]
  <2>1. 0 \in DOMAIN orbitData
    BY EmptySeq DEF LosTypeOK
  <2> QED BY <1>1, <2>1 DEF Orbit
<1>3. Len(orbitData[0]) = n
  <2>1. orbitData[0] \in Seq(Place)
    BY <1>2, SeqDef
  <2>2. DOMAIN orbitData[0] = 1 .. n /\ DOMAIN orbitData[0] = 1 .. Len(orbitData[0])
    BY <1>2, <2>1, LenProperties
  <2> QED BY <2>1, <2>2
<1> DEFINE z == timestep_size
<1>4. z \in Nat \ {0} /\ t \in 0 .. z * (n - 1) - 1
  BY <1>3 DEF LosTypeOK, Time
<1> HIDE DEF z
<1>5. n - 1 \in Nat /\ t \in Nat /\ t < z * (n - 1)
  <2>1. t \in Nat /\ t < z * (n - 1)
    BY <1>4
  <2>2. n # 0
    BY <1>4, <2>1
  <2> QED BY <2>1, <2>2
<1>6. t \div z \in Nat /\ t \div z < n - 1 /\ t % z \in Int
  <2>1. \A m \in Nat : t < z * m => t \div z < m
    BY <1>4, <1>5, QuotientBelow
  <2>2. t \div z \in Nat /\ t % z \in 0 .. z - 1
    BY <1>4, <1>5, Quotient
  <2>3. t \div z < n - 1
    BY <1>5, <2>1
  <2>4. \A x \in 0 .. z - 1 : x \in Int
    BY <1>4
  <2> HIDE DEF Time
  <2> QED BY <2>2, <2>3, <2>4
<1> DEFINE below == orbitData[i][t \div z + 1]
           above == orbitData[i][t \div z + 2]
<1>7. below \in Place /\ above \in Place
  <2>1. t \div z + 1 \in 1 .. n /\ t \div z + 2 \in 1 .. n
    BY <1>6
  <2> QED BY <1>2, <2>1
<1>8. Position(i, t) = Plus(Times(z, below), Times(t % z, Minus(above, below)))
  BY DEF Position, z
<1> HIDE DEF below, above
<1>9. Minus(above, below) \in Place
  BY <1>7 DEF Minus, Place
<1>10. Times(z, below) \in Place /\ Times(t % z, Minus(above, below)) \in Place
  BY <1>4, <1>6, <1>7, <1>9, TimesPlace
<1>11. \A u, v \in Place : Plus(u, v) \in Place
  BY DEF Plus, Place
<1> QED BY <1>8, <1>10, <1>11

-----------------------------------------------------------------------------
\* A point of the line from u to v, m times as far out.
LEMMA PointOnLine ==
  ASSUME NEW u \in Place, NEW v \in Place, NEW m \in Int, NEW k \in Int
  PROVE  LET d == Minus(v, u)
             p == Plus(Times(m - k, u), Times(k, v))
         IN /\ Dot(u, u) \in Nat /\ Dot(u, d) \in Int /\ Dot(d, d) \in Nat
            /\ Dot(p, p) = m * m * Dot(u, u) + 2 * m * k * Dot(u, d) + k * k * Dot(d, d)
<1> DEFINE d == Minus(v, u)
           p == Plus(Times(m - k, u), Times(k, v))
<1>1. \A c \in 1..3 : u[c] \in Int /\ v[c] \in Int
  BY DEF Place
<1>2. \A c \in 1..3 : d[c] = v[c] - u[c] /\ p[c] = (m - k) * u[c] + k * v[c]
  BY DEF Minus, Plus, Times
<1>3. \A c \in 1..3 : /\ d[c] \in Int
                      /\ p[c] * p[c] = m * m * (u[c] * u[c]) + 2 * m * k * (u[c] * d[c])
                                       + k * k * (d[c] * d[c])
  BY <1>1, <1>2, Component
<1> HIDE DEF d, p
<1>4. \A x1, x2, x3, y1, y2, y3, z1, z2, z3 \in Int :
        (m * m * x1 + 2 * m * k * y1 + k * k * z1) + (m * m * x2 + 2 * m * k * y2 + k * k * z2)
          + (m * m * x3 + 2 * m * k * y3 + k * k * z3)
        = m * m * (x1 + x2 + x3) + 2 * m * k * (y1 + y2 + y3) + k * k * (z1 + z2 + z3)
  OBVIOUS
<1>5. Dot(p, p) = m * m * Dot(u, u) + 2 * m * k * Dot(u, d) + k * k * Dot(d, d)
  <2>1. \A c \in 1..3 : u[c] * u[c] \in Int /\ u[c] * d[c] \in Int /\ d[c] * d[c] \in Int
    BY <1>1, <1>3
  <2>2. 1 \in 1..3 /\ 2 \in 1..3 /\ 3 \in 1..3
    OBVIOUS
  <2> DEFINE s(c) == u[c] * u[c]
             q(c) == u[c] * d[c]
             r(c) == d[c] * d[c]
  <2>3. Dot(p, p) = (m * m * s(1) + 2 * m * k * q(1) + k * k * r(1))
                    + (m * m * s(2) + 2 * m * k * q(2) + k * k * r(2))
                    + (m * m * s(3) + 2 * m * k * q(3) + k * k * r(3))
    BY <1>3, <2>2 DEF Dot
  <2>4. /\ Dot(u, u) = s(1) + s(2) + s(3) /\ Dot(u, d) = q(1) + q(2) + q(3)
        /\ Dot(d, d) = r(1) + r(2) + r(3)
    BY DEF Dot
  <2>5. \A c \in 1..3 : s(c) \in Int /\ q(c) \in Int /\ r(c) \in Int
    BY <2>1
  <2> HIDE DEF s, q, r
  <2> QED BY <1>4, <2>2, <2>3, <2>4, <2>5
<1>6. \A x, y, z \in Int : x * x + y * y + z * z \in Nat
  <2>1. \A x \in Int : x * x \in Nat
    OBVIOUS
  <2> QED BY <2>1
<1>7. Dot(u, u) \in Nat /\ Dot(d, d) \in Nat /\ Dot(u, d) \in Int
  <2>1. 1 \in 1..3 /\ 2 \in 1..3 /\ 3 \in 1..3
    OBVIOUS
  <2>2. Dot(u, u) \in Nat /\ Dot(d, d) \in Nat
    BY <1>1, <1>3, <1>6, <2>1 DEF Dot
  <2>3. Dot(u, d) \in Int
    BY <1>1, <1>3, <2>1 DEF Dot
  <2> QED BY <2>2, <2>3
<1> QED BY <1>5, <1>7 DEF d, p

\* The nearest point is on the way: it decides, for distances taken h times.
LEMMA NearestDecides ==
  ASSUME NEW n \in Nat \ {0}, NEW A \in Nat, NEW N \in Int, NEW h \in Nat, NEW g \in Nat,
         -N \in 0 .. n
  PROVE  h * (A * n - N * N) >= g * n <=>
           \A k \in 0 .. n : h * (n * n * A + 2 * n * k * N + k * k * n) >= g * (n * n)
<1> DEFINE q == A * n - N * N
<1>1. q \in Int
  OBVIOUS
<1>2. \A k \in Int : n * n * A + 2 * n * k * N + k * k * n = n * (q + (k + N) * (k + N))
  OBVIOUS
<1>3. \A k \in 0 .. n : k \in Int /\ (k + N) * (k + N) \in Nat
  OBVIOUS
<1>4. -N \in 0 .. n /\ (-N + N) * (-N + N) = 0
  OBVIOUS
<1> HIDE DEF q
<1>5. \A y \in Int : h * (n * y) >= g * (n * n) <=> h * y >= g * n
  <2>1. \A a, b \in Int : n * a >= n * b <=> a >= b
    OBVIOUS
  <2>2. \A y \in Int : h * (n * y) = n * (h * y) /\ h * y \in Int
    OBVIOUS
  <2>3. g * (n * n) = n * (g * n) /\ g * n \in Int
    OBVIOUS
  <2> QED BY <2>1, <2>2, <2>3
<1>6. \A x \in Nat : h * (q + x) >= h * q
  <2>1. \A x \in Nat : h * x \in Nat /\ h * (q + x) = h * q + h * x
    BY <1>1
  <2>2. h * q \in Int
    BY <1>1
  <2> QED BY <2>1, <2>2
<1>7. ASSUME h * q >= g * n, NEW k \in 0 .. n
      PROVE  h * (n * (q + (k + N) * (k + N))) >= g * (n * n)
  <2> DEFINE x == (k + N) * (k + N)
  <2>1. x \in Nat
    BY <1>3
  <2> HIDE DEF x
  <2>2. h * (q + x) \in Int /\ h * q \in Int /\ g * n \in Int /\ q + x \in Int
    BY <1>1, <2>1
  <2>3. h * (q + x) >= g * n
    BY <1>6, <1>7, <2>1, <2>2
  <2>4. h * (n * (q + x)) >= g * (n * n)
    BY <1>5, <2>2, <2>3
  <2> QED BY <2>4 DEF x
<1>8. ASSUME \A k \in 0 .. n : h * (n * (q + (k + N) * (k + N))) >= g * (n * n)
      PROVE  h * q >= g * n
  <2>1. h * (n * (q + (-N + N) * (-N + N))) >= g * (n * n)
    BY <1>4, <1>8
  <2>2. q + (-N + N) * (-N + N) = q
    BY <1>1, <1>4
  <2>3. h * (n * q) >= g * (n * n)
    BY <2>1, <2>2
  <2> QED BY <1>1, <1>5, <2>3
<1>9. h * q >= g * n <=>
        \A k \in 0 .. n : h * (n * n * A + 2 * n * k * N + k * k * n) >= g * (n * n)
  BY <1>2, <1>3, <1>7, <1>8
<1> QED BY <1>9 DEF q

\* The nearest point is not on the way: with both ends outside all of it is clear.
LEMMA EndsDecide ==
  ASSUME NEW n \in Nat, NEW A \in Nat, NEW N \in Int, NEW R \in Nat, n = 0 \/ -N \notin 0 .. n,
         A > R * R, A + 2 * N + n > R * R, NEW k \in 0 .. n
  PROVE  n * n * A + 2 * n * k * N + k * k * n >= n * R * n * R
<1>1. n * n * A + 2 * n * k * N + k * k * n = n * (n * A + k * (2 * N + k))
  OBVIOUS
<1>2. n * R * n * R = n * (n * (R * R))
  OBVIOUS
<1> DEFINE r == R * R
<1>3. r \in Nat
  OBVIOUS
<1> HIDE DEF r
<1>4. A > r /\ A + 2 * N + n > r
  BY DEF r
<1>5. \A x, y \in Int : x >= y => n * x >= n * y
  OBVIOUS
<1>6. CASE n = 0
  BY <1>1, <1>2, <1>6
<1>7. CASE N > 0
  <2>1. k * (2 * N + k) \in Nat
    BY <1>7
  <2>2. n * A >= n * r
    BY <1>3, <1>4, <1>5
  <2>3. n * A + k * (2 * N + k) >= n * r
    BY <1>3, <2>1, <2>2
  <2> QED BY <1>1, <1>2, <1>3, <1>5, <2>3 DEF r
<1>8. CASE N < -n
  <2>1. (n - k) * (-(n + k + 2 * N)) >= 0
    <3>1. n - k \in Nat /\ -(n + k + 2 * N) \in Nat
      BY <1>8
    <3>2. \A x, y \in Nat : x * y >= 0
      OBVIOUS
    <3> QED BY <3>1, <3>2
  <2>2. k * (2 * N + k) = n * (2 * N + n) + (n - k) * (-(n + k + 2 * N))
    OBVIOUS
  <2>3. k * (2 * N + k) >= n * (2 * N + n)
    BY <2>1, <2>2
  <2>4. n * (A + 2 * N + n) >= n * r
    BY <1>3, <1>4, <1>5
  <2>5. n * (A + 2 * N + n) = n * A + n * (2 * N + n)
    OBVIOUS
  <2>6. n * A + k * (2 * N + k) >= n * r
    BY <1>3, <2>3, <2>4, <2>5
  <2> QED BY <1>1, <1>2, <1>3, <1>5, <2>6 DEF r
<1>9. n = 0 \/ N > 0 \/ N < -n
  OBVIOUS
<1> QED BY <1>6, <1>7, <1>8, <1>9

\* The terms of Reaches, for an error of one part up or down.
LEMMA ReachesTerms ==
  ASSUME Radius \in Nat, NEW e \in {-1, 1}
  PROVE  \E h, g \in Nat :
           /\ \A value, n : Reaches(value, n, e) <=> h * value >= g * n
           /\ g = Radius * Precision * (Radius * Precision)
           /\ h = (Precision + e) * (Precision + e)
<1> DEFINE h == (Precision + e) * (Precision + e)
           g == Radius * Precision * (Radius * Precision)
<1>1. \A x \in Int : x * x \in Nat
  OBVIOUS
<1>2. Precision + e \in Int /\ Precision \in Nat
  BY PrecisionAssumption
<1>3. h \in Nat
  BY <1>1, <1>2
<1>4. g \in Nat
  <2>1. \A x, y \in Nat : x * y \in Int
    OBVIOUS
  <2> QED BY <1>1, <1>2, <2>1
<1>5. \A value, n : Reaches(value, n, e) <=> h * value >= g * n
  BY DEF Reaches
<1> QED BY <1>3, <1>4, <1>5

\* What is outside the asteroid is so with one part more.
LEMMA OutsideReaches ==
  ASSUME Radius \in Nat, NEW value \in Nat, NEW m \in Nat, value >= m * Radius * m * Radius
  PROVE  Reaches(value, m * m, 1)
<1>1. PICK M \in Nat, R \in Nat : M = Precision /\ R = Radius
  BY PrecisionAssumption
<1>2. PICK w \in Nat : w = m * R * m * R
  OBVIOUS
<1>3. value >= w
  BY <1>1, <1>2
<1>4. R * M * (R * M) * (m * m) = M * M * w
  BY <1>2
<1>5. PICK s \in Nat : s = M * M
  OBVIOUS
<1>6. (M + 1) * (M + 1) = s + 2 * M + 1
  BY <1>5
<1>7. PICK t \in Nat : t = s + 2 * M + 1 /\ t >= s
  OBVIOUS
<1>8. t * value >= s * w
  <2>1. \A x, y, z \in Nat : x >= y => z * x >= z * y
    OBVIOUS
  <2>2. t * value >= t * w
    BY <1>3, <2>1
  <2>3. w * t >= w * s
    BY <1>7, <2>1
  <2>4. t * w = w * t /\ s * w = w * s /\ t * value \in Nat /\ t * w \in Nat /\ s * w \in Nat
    OBVIOUS
  <2> QED BY <2>2, <2>3, <2>4
<1>9. (M + 1) * (M + 1) * value >= R * M * (R * M) * (m * m)
  BY <1>4, <1>5, <1>6, <1>7, <1>8
<1> QED BY <1>1, <1>9 DEF Reaches

\* isThereLOS with the two positions it computes.
LEMMA SightOfPlaces ==
  ASSUME NEW u \in Place, NEW v \in Place, Radius \in Nat, Outside(u), Outside(v)
  PROVE  LET d == Minus(v, u)
             n == Dot(d, d)
             N == Dot(u, d)
             sight == IF n > 0 /\ -N \in 0..n
                        THEN NormReaches(Dot(u, u) * n - N * N, n)
                        ELSE {Outside(u) /\ Outside(v)}
         IN /\ TRUE \in sight => Clear(u, v, 1)
            /\ FALSE \in sight => ~Clear(u, v, -1)
<1> DEFINE d == Minus(v, u)
           n == Dot(d, d)
           N == Dot(u, d)
           A == Dot(u, u)
           R == Radius
           p(k) == Plus(Times(n - k, u), Times(k, v))
           square(k) == n * n * A + 2 * n * k * N + k * k * n
<1>1. A \in Nat /\ N \in Int /\ n \in Nat
  BY PointOnLine
<1>2. ASSUME NEW k \in 0 .. n
      PROVE  Dot(p(k), p(k)) = square(k)
  <2>1. n \in Int /\ k \in Int
    BY <1>1
  <2> HIDE DEF n
  <2>2. Dot(p(k), p(k)) = n * n * Dot(u, u) + 2 * n * k * Dot(u, d) + k * k * Dot(d, d)
    BY <2>1, PointOnLine
  <2> QED BY <2>2 DEF n
<1>3. \A e : Clear(u, v, e) <=> \A k \in 0 .. n : Reaches(square(k), n * n, e)
  BY <1>2 DEF Clear
<1>4. Dot(v, v) = A + 2 * N + n
  <2>0. PICK e \in Int : e = 1
    OBVIOUS
  <2> DEFINE w == Plus(Times(e - e, u), Times(e, v))
  <2>1. Dot(w, w) = e * e * Dot(u, u) + 2 * e * e * Dot(u, d) + e * e * Dot(d, d)
    BY PointOnLine
  <2>2. \A c \in 1..3 : w[c] = v[c]
    BY <2>0 DEF Plus, Times, Place
  <2>3. Dot(w, w) = Dot(v, v)
    <3>1. 1 \in 1..3 /\ 2 \in 1..3 /\ 3 \in 1..3
      OBVIOUS
    <3> HIDE DEF w
    <3> QED BY <2>2, <3>1 DEF Dot
  <2> HIDE DEF w, d
  <2> QED BY <1>1, <2>0, <2>1, <2>3
<1>5. A > R * R /\ A + 2 * N + n > R * R
  BY <1>4 DEF Outside
<1> HIDE DEF d, n, N, A, R
<1>6. R \in Nat
  BY DEF R
<1>7. CASE n > 0 /\ -N \in 0..n
  <2>1. n \in Nat \ {0}
    BY <1>1, <1>7
  <2>2. ASSUME NEW e \in {-1, 1}
        PROVE  Reaches(A * n - N * N, n, e) <=> Clear(u, v, e)
    <3>1. PICK h \in Nat, g \in Nat : \A value, m : Reaches(value, m, e) <=> h * value >= g * m
      BY ReachesTerms
    <3>2. h * (A * n - N * N) >= g * n <=> \A k \in 0 .. n : h * square(k) >= g * (n * n)
      BY <1>1, <1>7, <2>1, NearestDecides
    <3> HIDE DEF square
    <3> QED BY <1>3, <3>1, <3>2
  <2>3. /\ TRUE \in NormReaches(A * n - N * N, n) => Reaches(A * n - N * N, n, 1)
        /\ FALSE \in NormReaches(A * n - N * N, n) => ~Reaches(A * n - N * N, n, -1)
    BY DEF NormReaches
  <2>4. /\ TRUE \in NormReaches(A * n - N * N, n) => Clear(u, v, 1)
        /\ FALSE \in NormReaches(A * n - N * N, n) => ~Clear(u, v, -1)
    BY <2>2, <2>3
  <2> QED BY <1>7, <2>4 DEF d, n, N, A
<1>8. CASE ~(n > 0 /\ -N \in 0..n)
  <2>1. n = 0 \/ -N \notin 0 .. n
    BY <1>1, <1>8
  <2>2. ASSUME NEW k \in 0 .. n
        PROVE  Reaches(square(k), n * n, 1)
    <3>1. square(k) >= n * R * n * R
      BY <1>1, <1>5, <1>6, <2>1, EndsDecide
    <3>2. n * R * n * R \in Nat /\ square(k) \in Int
      BY <1>1, <1>6
    <3>3. square(k) \in Nat
      BY <3>1, <3>2
    <3> HIDE DEF square
    <3> QED BY <1>1, <3>1, <3>3, OutsideReaches DEF R
  <2>3. Clear(u, v, 1)
    BY <1>3, <2>2
  <2>4. FALSE \notin {Outside(u) /\ Outside(v)}
    BY DEF Outside
  <2> QED BY <1>8, <2>3, <2>4 DEF d, n, N, A
<1> QED BY <1>7, <1>8

LEMMA AllSightsClear == LosTypeOK => SightsAreClear
<1> SUFFICES ASSUME LosTypeOK, NEW p \in Pairs, NEW t \in Time,
                    Outside(Position(p[1], t)), Outside(Position(p[2], t))
             PROVE  LET r1 == Position(p[1], t)
                        r2 == Position(p[2], t)
                        sight == isThereLOS(p[1], p[2], t)
                    IN /\ TRUE \in sight => Clear(r1, r2, 1)
                       /\ FALSE \in sight => ~Clear(r1, r2, -1)
  BY DEF SightsAreClear
<1> DEFINE u == Position(p[1], t)
           v == Position(p[2], t)
<1>1. p[1] \in DOMAIN orbitData /\ p[2] \in DOMAIN orbitData
  BY DEF Pairs
<1>2. u \in Place /\ v \in Place
  BY <1>1, PositionPlace
<1>3. Radius \in Nat
  <2>1. \A x, y \in Nat : x * y \in Nat
    OBVIOUS
  <2> QED BY <2>1 DEF Radius, LosTypeOK
<1>4. isThereLOS(p[1], p[2], t) =
        LET d == Minus(v, u)
            n == Dot(d, d)
            N == Dot(u, d)
        IN IF n > 0 /\ -N \in 0..n
             THEN NormReaches(Dot(u, u) * n - N * N, n)
             ELSE {Outside(u) /\ Outside(v)}
  BY DEF isThereLOS
<1>5. Outside(u) /\ Outside(v)
  OBVIOUS
<1> HIDE DEF u, v
<1>6. LET sight == isThereLOS(p[1], p[2], t)
      IN /\ TRUE \in sight => Clear(u, v, 1)
         /\ FALSE \in sight => ~Clear(u, v, -1)
  BY <1>2, <1>3, <1>4, <1>5, SightOfPlaces
<1> QED BY <1>6 DEF u, v

\* Of two craft above the surface, one sees the other only if the asteroid does not
\* cut the straight way between them, and does not only if it does, up to the error
\* of a float's root, whatever its precision: the four cases are right for all
\* positions, every time, any file, and however often and by what the positions were
\* scaled (LOS::isThereLOS).
THEOREM SightIsClearCorrect == LosSpec => SightIsClear
<1>1. LosSpec => []SightsAreClear
  BY LosInitType, LosNextType, AllSightsClear, PTL DEF LosSpec
<1>2. SightsAreClear' => [orbitData' # orbitData => SightsAreClear']_losVars
  OBVIOUS
<1> QED BY <1>1, <1>2, PTL DEF SightIsClear

-----------------------------------------------------------------------------
\* The bits that the events R will give back to node n.
BitsOf(R, n) == SumFunctionOnSet([e \in R |-> e.bits], {e \in R : e.node = n})

SimTypeOK ==
  /\ ids \in Nat /\ now \in Nat
  /\ available \in [Ip -> Nat]
  /\ \A p \in air : p.to \in Ip /\ p.bytes \in Nat
  /\ IsFiniteSet(returns) /\ IsFiniteSet(received)
  /\ \A e \in returns : e.id \in 0 .. ids - 1 /\ e.bits \in Nat /\ e.due \in Nat
  /\ \A r \in received : r.bytes \in Nat /\ r.time \in Nat

\* What is given back was taken for a packet that is still in the history.
OfAPacket ==
  \A e \in returns :
    \E r \in received : /\ r.id + 1 = e.id /\ r.node = e.node
                        /\ r.time + SECOND = e.due /\ e.bits <= 8 * r.bytes

IdsApart == \A e, f \in returns : e.id = f.id => e = f

NothingLost == \A n \in Ip : available[n] + BitsOf(returns, n) = Bandwidth

SimInv == SimTypeOK /\ OfAPacket /\ IdsApart /\ NothingLost

-----------------------------------------------------------------------------
LEMMA BitsAdded ==
  ASSUME NEW R, IsFiniteSet(R), NEW e, e \notin R, \A x \in R \cup {e} : x.bits \in Nat, NEW n
  PROVE  /\ BitsOf(R, n) \in Nat
         /\ BitsOf(R \cup {e}, n) = BitsOf(R, n) + (IF e.node = n THEN e.bits ELSE 0)
<1> DEFINE Q == R \cup {e}
           f == [x \in R |-> x.bits]
           g == [x \in Q |-> x.bits]
           S == {x \in R : x.node = n}
           T == {x \in Q : x.node = n}
<1>1. /\ \A x \in S : f[x] \in Nat /\ f[x] = g[x]
      /\ \A x \in T : g[x] \in Nat
      /\ g[e] = e.bits
  OBVIOUS
<1>2. S = IF e.node = n THEN T \ {e} ELSE T
  OBVIOUS
<1>3. e.node = n => e \in T
  OBVIOUS
<1>4. IsFiniteSet(S)
  BY FS_Subset
<1>5. IsFiniteSet(T)
  <2>1. IsFiniteSet(Q)
    BY FS_AddElement
  <2> QED BY <2>1, FS_Subset
<1> HIDE DEF f, g, S, T, Q
<1>6. SumFunctionOnSet(f, S) \in Nat
  BY <1>1, <1>4, SumNat
<1>7. SumFunctionOnSet(f, S) = SumFunctionOnSet(g, S)
  BY <1>1, <1>4, SumSame
<1>8. CASE e.node = n
  <2>1. SumFunctionOnSet(g, T) = g[e] + SumFunctionOnSet(g, T \ {e})
    BY <1>1, <1>3, <1>5, <1>8, SumRemove
  <2>2. e.bits \in Nat
    OBVIOUS
  <2>3. SumFunctionOnSet(g, T) = SumFunctionOnSet(f, S) + e.bits
    BY <1>1, <1>2, <1>6, <1>7, <1>8, <2>1, <2>2
  <2> QED BY <1>6, <1>8, <2>3 DEF BitsOf, f, g, S, T, Q
<1>9. CASE e.node # n
  <2>1. SumFunctionOnSet(g, T) = SumFunctionOnSet(f, S) + 0
    BY <1>2, <1>6, <1>7, <1>9
  <2> QED BY <1>6, <1>9, <2>1 DEF BitsOf, f, g, S, T, Q
<1> QED BY <1>8, <1>9

LEMMA SimInitInv == SimInit => SimInv
<1> SUFFICES ASSUME SimInit PROVE SimInv
  OBVIOUS
<1>1. \A n \in Ip : BitsOf({}, n) = 0
  <2> SUFFICES ASSUME NEW n \in Ip PROVE BitsOf({}, n) = 0
    OBVIOUS
  <2>1. {e \in {} : e.node = n} = {}
    OBVIOUS
  <2>2. BitsOf({}, n) = SumFunctionOnSet([e \in {} |-> e.bits], {})
    BY <2>1 DEF BitsOf
  <2> QED BY <2>2, SumEmpty
<1>2. IsFiniteSet({})
  BY FS_EmptySet
<1>3. SimTypeOK
  BY <1>2, BandwidthAssumption DEF SimInit, SimTypeOK
<1>4. NothingLost
  BY <1>1, BandwidthAssumption DEF SimInit, NothingLost
<1> QED BY <1>3, <1>4 DEF SimInit, SimInv, OfAPacket, IdsApart

-----------------------------------------------------------------------------
\* The charges of one packet after another.
Charges(c, k, left, bits) ==
  c = [i \in 0 .. k |-> IF i = 0 THEN [left |-> left, taken |-> 0]
                        ELSE Charge(c[i - 1].left, bits)]

LEMMA ChargeSplits ==
  ASSUME NEW left \in Nat, NEW bits \in Nat
  PROVE  /\ Charge(left, bits).left \in Nat /\ Charge(left, bits).taken \in Nat
         /\ Charge(left, bits).left + Charge(left, bits).taken = left
         /\ Charge(left, bits).taken <= bits
  BY DEF Charge

LEMMA OneCharge ==
  ASSUME NEW left, NEW bits
  PROVE  (CHOOSE c : Charges(c, 1, left, bits))[1] = Charge(left, bits)
<1> DEFINE first == [left |-> left, taken |-> 0]
<1>1. PICK c : c = [i \in 0 .. 1 |-> IF i = 0 THEN first ELSE Charge(left, bits)]
  OBVIOUS
<1>2. c[0] = first /\ first.left = left
  BY <1>1
<1> DEFINE e(i) == IF i = 0 THEN first ELSE Charge(left, bits)
           r(i) == IF i = 0 THEN first ELSE Charge(c[i - 1].left, bits)
<1>3. \A i \in 0 .. 1 : e(i) = r(i)
  <2> SUFFICES ASSUME NEW i \in 0 .. 1, i # 0 PROVE e(i) = r(i)
    OBVIOUS
  <2>1. i - 1 = 0
    OBVIOUS
  <2>2. c[i - 1].left = left
    BY <1>2, <2>1
  <2> QED BY <2>2
<1>4. c = [i \in 0 .. 1 |-> r(i)]
  <2>1. c = [i \in 0 .. 1 |-> e(i)]
    BY <1>1
  <2> HIDE DEF e, r
  <2> QED BY <1>3, <2>1
<1>5. Charges(c, 1, left, bits)
  BY <1>4 DEF Charges
<1>6. PICK d : d = (CHOOSE x : Charges(x, 1, left, bits)) /\ Charges(d, 1, left, bits)
  BY <1>5
<1>7. d[0] = first
  BY <1>6 DEF Charges
<1>8. d[1] = Charge(d[1 - 1].left, bits)
  BY <1>6 DEF Charges
<1>9. d[1] = Charge(left, bits)
  <2>1. 1 - 1 = 0
    OBVIOUS
  <2>2. d[1 - 1].left = left
    BY <1>2, <1>7, <2>1
  <2> QED BY <1>8, <2>2
<1> QED BY <1>6, <1>9

\* A packet that comes alone is charged its own bits.
LEMMA OwnBits ==
  ASSUME NEW p, p.bytes \in Nat
  PROVE  ChargePerPacket(<<p>>) = 8 * p.bytes
<1> DEFINE f == [i \in DOMAIN <<p>> |-> <<p>>[i].bytes]
<1>1. DOMAIN <<p>> = {1} /\ f[1] = p.bytes /\ DOMAIN f = {1}
  OBVIOUS
<1>2. ChargePerPacket(<<p>>) = 8 * SumFunctionOnSet(f, {1})
  BY <1>1 DEF ChargePerPacket, SumFunction
<1>3. IsFiniteSet({1}) /\ {1} \ {1} = {}
  BY FS_Singleton
<1> HIDE DEF f
<1>4. SumFunctionOnSet(f, {1}) = f[1] + SumFunctionOnSet(f, {1} \ {1})
  BY <1>1, <1>3, SumRemove
<1>5. SumFunctionOnSet(f, {1}) = p.bytes
  BY <1>1, <1>3, <1>4, SumEmpty
<1> QED BY <1>2, <1>5

\* What a packet that comes alone takes.
LEMMA ReceiveOne ==
  ASSUME SimTypeOK, NEW p \in air, ReceivePacket(p.to, <<p>>)
  PROVE  \E left, taken \in Nat :
           /\ left + taken = available[p.to] /\ taken <= 8 * p.bytes
           /\ available' = [available EXCEPT ![p.to] = left]
           /\ returns' = returns \cup {[id |-> ids + 1, node |-> p.to, due |-> now + SECOND,
                                        bits |-> taken]}
           /\ ids' = ids + 2
<1> DEFINE bits == ChargePerPacket(<<p>>)
           c == CHOOSE c : Charges(c, 1, available[p.to], bits)
           ch == Charge(available[p.to], bits)
<1>1. Len(<<p>>) = 1 /\ DOMAIN <<p>> = {1}
  OBVIOUS
<1>2. /\ available' = [available EXCEPT ![p.to] = c[1].left]
      /\ returns' = returns \cup {[id |-> ids + i, node |-> p.to, due |-> now + SECOND,
                                   bits |-> c[i].taken] : i \in {1}}
      /\ ids' = ids + 1 + 1
  BY <1>1 DEF ReceivePacket, Charges
<1>3. available[p.to] \in Nat /\ bits = 8 * p.bytes /\ bits \in Nat
  <2>1. p.bytes \in Nat /\ p.to \in Ip
    BY DEF SimTypeOK
  <2>2. bits = 8 * p.bytes
    BY <2>1, OwnBits
  <2> HIDE DEF bits
  <2> QED BY <2>1, <2>2 DEF SimTypeOK
<1>4. c[1] = ch
  <2> HIDE DEF bits
  <2> QED BY OneCharge
<1>5. /\ ch.left \in Nat /\ ch.taken \in Nat /\ ch.left + ch.taken = available[p.to]
      /\ ch.taken <= bits
  <2> HIDE DEF bits
  <2> QED BY <1>3, ChargeSplits
<1>6. ids' = ids + 2
  BY <1>2 DEF SimTypeOK
<1>7. returns' = returns \cup {[id |-> ids + 1, node |-> p.to, due |-> now + SECOND,
                                bits |-> ch.taken]}
  BY <1>2, <1>4
<1>8. available' = [available EXCEPT ![p.to] = ch.left]
  BY <1>2, <1>4
<1>9. ch.taken <= 8 * p.bytes
  BY <1>3, <1>5
<1> HIDE DEF ch, bits
<1> QED BY <1>5, <1>6, <1>7, <1>8, <1>9

-----------------------------------------------------------------------------
\* A step that only sends, loses or makes time pass keeps what is taken.
LEMMA SentInv ==
  ASSUME SimInv, NEW source, NEW length \in Nat, NEW dest, dest \in Ip \cup {BROADCAST},
         AdHocSendPacket(source, length, dest),
         UNCHANGED <<now, available, returns, received>>
  PROVE  SimInv'
<1>1. ids \in Nat /\ ids' = ids + 1
  BY DEF AdHocSendPacket, SimInv, SimTypeOK
<1>2. Receivers(source, dest) \subseteq Ip
  BY DEF Receivers
<1>3. length + HEADER \in Nat
  BY LengthAssumption
<1>4. \A p \in air' : p.to \in Ip /\ p.bytes \in Nat
  <2> SUFFICES ASSUME NEW p \in air', p \notin air PROVE p.to \in Ip /\ p.bytes \in Nat
    BY DEF SimInv, SimTypeOK
  <2>1. PICK n \in Receivers(source, dest) :
          p = [id |-> ids, source |-> source, to |-> n, bytes |-> length + HEADER]
    BY DEF AdHocSendPacket
  <2> QED BY <1>2, <1>3, <2>1
<1>5. \A e \in returns : e.id \in 0 .. ids' - 1
  BY <1>1 DEF SimInv, SimTypeOK
<1>6. SimTypeOK'
  BY <1>1, <1>4, <1>5 DEF SimInv, SimTypeOK
<1> QED BY <1>6 DEF SimInv, OfAPacket, IdsApart, NothingLost

LEMMA LostInv ==
  ASSUME SimInv, Lose
  PROVE  SimInv'
  BY DEF Lose, SimInv, SimTypeOK, OfAPacket, IdsApart, NothingLost

LEMMA ReceivedInv ==
  ASSUME SimInv, NotifyDataRecv
  PROVE  SimInv'
<1>1. PICK p \in air :
        /\ air' = air \ {p} /\ ReceivePacket(p.to, <<p>>)
        /\ received' = received \cup {[id |-> ids, node |-> p.to, time |-> now,
                                       bytes |-> p.bytes]}
        /\ now' = now
  BY DEF NotifyDataRecv
<1>2. SimTypeOK /\ p.to \in Ip /\ p.bytes \in Nat
  BY DEF SimInv, SimTypeOK
<1>3. PICK left \in Nat, taken \in Nat :
           /\ left + taken = available[p.to] /\ taken <= 8 * p.bytes
           /\ available' = [available EXCEPT ![p.to] = left]
           /\ returns' = returns \cup {[id |-> ids + 1, node |-> p.to, due |-> now + SECOND,
                                        bits |-> taken]}
           /\ ids' = ids + 2
  BY <1>1, <1>2, ReceiveOne
<1>4. PICK e : e = [id |-> ids + 1, node |-> p.to, due |-> now + SECOND, bits |-> taken]
  OBVIOUS
<1>5. PICK r : r = [id |-> ids, node |-> p.to, time |-> now, bytes |-> p.bytes]
  OBVIOUS
<1>6. returns' = returns \cup {e} /\ received' = received \cup {r}
  BY <1>1, <1>3, <1>4, <1>5
<1>7. /\ ids \in Nat /\ now \in Nat /\ SECOND \in Nat
      /\ e.id = ids + 1 /\ e.node = p.to /\ e.due = now + SECOND /\ e.bits = taken
      /\ r.id = ids /\ r.node = p.to /\ r.time = now /\ r.bytes = p.bytes
  BY <1>2, <1>4, <1>5, TickAssumption DEF SimTypeOK
<1>8. \A x \in returns : x.id \in 0 .. ids - 1 /\ x.bits \in Nat /\ x.due \in Nat
  BY <1>2 DEF SimTypeOK
<1>9. e \notin returns
  BY <1>7, <1>8
<1>10. SimTypeOK'
  <2>1. IsFiniteSet(returns') /\ IsFiniteSet(received')
    BY <1>2, <1>6, FS_AddElement DEF SimTypeOK
  <2>2. available' \in [Ip -> Nat]
    BY <1>2, <1>3 DEF SimTypeOK
  <2>3. \A x \in returns' : x.id \in 0 .. ids' - 1 /\ x.bits \in Nat /\ x.due \in Nat
    <3>1. ids' = ids + 2
      BY <1>3
    <3>2. e.id \in 0 .. ids' - 1 /\ e.bits \in Nat /\ e.due \in Nat
      BY <1>7, <3>1
    <3>3. \A x \in returns : x.id \in 0 .. ids' - 1
      BY <1>7, <1>8, <3>1
    <3> QED BY <1>6, <1>8, <3>2, <3>3
  <2>4. \A x \in received' : x.bytes \in Nat /\ x.time \in Nat
    BY <1>2, <1>6, <1>7 DEF SimTypeOK
  <2>5. \A x \in air' : x.to \in Ip /\ x.bytes \in Nat
    BY <1>1, <1>2 DEF SimTypeOK
  <2>6. ids' \in Nat /\ now' \in Nat
    BY <1>1, <1>3, <1>7
  <2> QED BY <2>1, <2>2, <2>3, <2>4, <2>5, <2>6 DEF SimTypeOK
<1>11. OfAPacket'
  <2>1. /\ r \in received' /\ r.id + 1 = e.id /\ r.node = e.node
        /\ r.time + SECOND = e.due /\ e.bits <= 8 * r.bytes
    BY <1>3, <1>6, <1>7
  <2>2. \A x \in returns : \E y \in received' :
          /\ y.id + 1 = x.id /\ y.node = x.node /\ y.time + SECOND = x.due
          /\ x.bits <= 8 * y.bytes
    BY <1>6 DEF SimInv, OfAPacket
  <2>3. \A x \in returns' : \E y \in received' :
          /\ y.id + 1 = x.id /\ y.node = x.node /\ y.time + SECOND = x.due
          /\ x.bits <= 8 * y.bytes
    BY <1>6, <2>1, <2>2
  <2> QED BY <2>3 DEF OfAPacket
<1>12. IdsApart'
  BY <1>6, <1>7, <1>8 DEF SimInv, IdsApart
<1>13. NothingLost'
  <2> SUFFICES ASSUME NEW n \in Ip PROVE available'[n] + BitsOf(returns', n) = Bandwidth
    BY DEF NothingLost
  <2>1. available[n] + BitsOf(returns, n) = Bandwidth
    BY DEF SimInv, NothingLost
  <2>2. /\ BitsOf(returns, n) \in Nat
        /\ BitsOf(returns', n) = BitsOf(returns, n) + (IF e.node = n THEN e.bits ELSE 0)
    <3>1. \A x \in returns \cup {e} : x.bits \in Nat
      BY <1>7, <1>8
    <3>2. IsFiniteSet(returns)
      BY <1>2 DEF SimTypeOK
    <3> QED BY <1>6, <1>9, <3>1, <3>2, BitsAdded
  <2>3. available'[n] = IF e.node = n THEN left ELSE available[n]
    BY <1>2, <1>3, <1>7 DEF SimTypeOK
  <2>4. available[n] \in Nat
    BY <1>2 DEF SimTypeOK
  <2> QED BY <1>3, <1>7, <2>1, <2>2, <2>3, <2>4
<1> QED BY <1>10, <1>11, <1>12, <1>13 DEF SimInv

LEMMA GivenBackInv ==
  ASSUME SimInv, RemovePacketFromBandwidthMetric
  PROVE  SimInv'
<1>1. PICK e \in returns :
        /\ returns' = returns \ {e}
        /\ available' = [available EXCEPT ![e.node] = @ + e.bits]
        /\ UNCHANGED <<now, air, received, ids>>
  BY DEF RemovePacketFromBandwidthMetric
<1>2. /\ SimTypeOK /\ OfAPacket /\ IdsApart /\ NothingLost
      /\ \A x \in returns : x.bits \in Nat
  BY DEF SimInv, SimTypeOK
<1>3. SimTypeOK'
  <2>1. IsFiniteSet(returns')
    BY <1>1, <1>2, FS_Subset DEF SimTypeOK
  <2>2. available' \in [Ip -> Nat]
    <3>1. \A n \in Ip : available[n] + e.bits \in Nat
      BY <1>2 DEF SimTypeOK
    <3> QED BY <1>1, <1>2, <3>1 DEF SimTypeOK
  <2> QED BY <1>1, <1>2, <2>1, <2>2 DEF SimTypeOK
<1>4. OfAPacket' /\ IdsApart'
  BY <1>1, <1>2 DEF OfAPacket, IdsApart
<1>5. NothingLost'
  <2> SUFFICES ASSUME NEW n \in Ip PROVE available'[n] + BitsOf(returns', n) = Bandwidth
    BY DEF NothingLost
  <2>1. available[n] + BitsOf(returns, n) = Bandwidth
    BY <1>2 DEF NothingLost
  <2>2. /\ BitsOf(returns', n) \in Nat
        /\ BitsOf(returns, n) = BitsOf(returns', n) + (IF e.node = n THEN e.bits ELSE 0)
    <3>1. PICK R : R = returns \ {e}
      OBVIOUS
    <3>2. IsFiniteSet(R) /\ e \notin R /\ R \cup {e} = returns
      BY <1>2, <3>1, FS_Subset DEF SimTypeOK
    <3>3. /\ BitsOf(R, n) \in Nat
          /\ BitsOf(R \cup {e}, n) = BitsOf(R, n) + (IF e.node = n THEN e.bits ELSE 0)
      BY <1>2, <3>2, BitsAdded
    <3> QED BY <1>1, <3>1, <3>2, <3>3
  <2>3. available'[n] = IF e.node = n THEN available[n] + e.bits ELSE available[n]
    BY <1>1, <1>2 DEF SimTypeOK
  <2>4. available[n] \in Nat /\ e.bits \in Nat
    BY <1>2 DEF SimTypeOK
  <2> QED BY <2>1, <2>2, <2>3, <2>4
<1> QED BY <1>3, <1>4, <1>5 DEF SimInv

\* A packet leaves the history only when its bits have been given back.
LEMMA TickInv ==
  ASSUME SimInv, Tick
  PROVE  SimInv'
<1>1. /\ now' = now + 1 /\ \A e \in returns : e.due > now
      /\ received' = {r \in received : r.time + SECOND > now}
      /\ UNCHANGED <<air, available, returns, ids>>
  BY DEF Tick
<1>2. SimTypeOK /\ OfAPacket
  BY DEF SimInv
<1>3. SimTypeOK'
  <2>1. IsFiniteSet(received')
    BY <1>1, <1>2, FS_Subset DEF SimTypeOK
  <2> QED BY <1>1, <1>2, <2>1 DEF SimTypeOK
<1>4. OfAPacket'
  <2> SUFFICES ASSUME NEW e \in returns
               PROVE  \E r \in received' : /\ r.id + 1 = e.id /\ r.node = e.node
                                           /\ r.time + SECOND = e.due /\ e.bits <= 8 * r.bytes
    BY <1>1 DEF OfAPacket
  <2>1. PICK r \in received : /\ r.id + 1 = e.id /\ r.node = e.node
                              /\ r.time + SECOND = e.due /\ e.bits <= 8 * r.bytes
    BY <1>2 DEF OfAPacket
  <2>2. r \in received'
    BY <1>1, <2>1
  <2> QED BY <2>1, <2>2
<1> QED BY <1>1, <1>3, <1>4 DEF SimInv, IdsApart, NothingLost

LEMMA SimNextInv == SimInv /\ [SimNext]_simVars => SimInv'
<1> SUFFICES ASSUME SimInv, [SimNext]_simVars PROVE SimInv'
  OBVIOUS
<1>1. CASE SendPacket
  <2>1. PICK source \in Ip, length \in Length : \E dest \in (Ip \ {source}) \cup {BROADCAST} :
          AdHocSendPacket(source, length, dest)
    BY <1>1 DEF SendPacket
  <2>4. PICK dest \in (Ip \ {source}) \cup {BROADCAST} : AdHocSendPacket(source, length, dest)
    BY <2>1
  <2>2. length \in Nat /\ dest \in Ip \cup {BROADCAST}
    BY LengthAssumption
  <2>3. UNCHANGED <<now, available, returns, received>>
    BY <1>1 DEF SendPacket
  <2> QED BY <2>2, <2>3, <2>4, SentInv
<1>2. CASE WaitSimulatedTimeForHelloMonitor
  <2>1. PICK n \in Ip : AdHocSendPacket(n, HelloLength, BROADCAST)
    BY <1>2 DEF WaitSimulatedTimeForHelloMonitor
  <2>2. HelloLength \in Nat
    BY LengthAssumption
  <2>3. UNCHANGED <<now, available, returns, received>>
    BY <1>2 DEF WaitSimulatedTimeForHelloMonitor
  <2> QED BY <2>1, <2>2, <2>3, SentInv
<1>3. CASE UNCHANGED simVars
  BY <1>3 DEF simVars, SimInv, SimTypeOK, OfAPacket, IdsApart, NothingLost
<1> QED BY <1>1, <1>2, <1>3, LostInv, ReceivedInv, GivenBackInv, TickInv DEF SimNext

\* The packets pay for all that is given back.
LEMMA PaidFor ==
  ASSUME SimInv
  PROVE  BandwidthKept
<1> SUFFICES ASSUME NEW n \in Ip
             PROVE  LET taken == BitsOf(returns, n)
                        bytes == SumFunctionOnSet([r \in received |-> r.bytes],
                                                  {r \in received : r.node = n})
                    IN /\ available[n] >= 0
                       /\ available[n] + taken = Bandwidth
                       /\ taken <= 8 * bytes
  BY DEF BandwidthKept, BitsOf
<1> DEFINE f == [e \in returns |-> e.bits]
           g == [r \in received |-> r.bytes]
           S == {e \in returns : e.node = n}
           T == {r \in received : r.node = n}
           m == [e \in S |-> CHOOSE r \in T : r.id + 1 = e.id /\ e.bits <= 8 * r.bytes]
<1>1. \A e \in S : m[e] \in T /\ m[e].id + 1 = e.id /\ e.bits <= 8 * m[e].bytes
  <2> SUFFICES ASSUME NEW e \in S
               PROVE  \E r \in T : r.id + 1 = e.id /\ e.bits <= 8 * r.bytes
    OBVIOUS
  <2> QED BY DEF SimInv, OfAPacket
<1>2. m \in [S -> T]
  BY <1>1
<1>3. \A x, y \in S : m[x] = m[y] => x = y
  <2>1. \A x, y \in S : x.id = y.id => x = y
    BY DEF SimInv, IdsApart
  <2> HIDE DEF m
  <2> QED BY <1>1, <2>1
<1>4. /\ \A x \in S : f[x] \in Nat /\ f[x] <= 8 * g[m[x]]
      /\ \A x \in T : g[x] \in Nat
  <2>1. \A x \in S : f[x] = x.bits /\ x.bits \in Nat
    BY DEF SimInv, SimTypeOK
  <2>2. \A x \in T : g[x] = x.bytes /\ x.bytes \in Nat
    BY DEF SimInv, SimTypeOK
  <2> HIDE DEF f, g, m
  <2> QED BY <1>1, <2>1, <2>2
<1>5. IsFiniteSet(S) /\ IsFiniteSet(T)
  BY FS_Subset DEF SimInv, SimTypeOK
<1> HIDE DEF f, g, S, T, m
<1>6. SumFunctionOnSet(f, S) <= 8 * SumFunctionOnSet(g, T)
  BY <1>2, <1>3, <1>4, <1>5, SumPaired
<1>7. available[n] >= 0 /\ available[n] + BitsOf(returns, n) = Bandwidth
  BY DEF SimInv, SimTypeOK, NothingLost
<1> QED BY <1>6, <1>7 DEF BitsOf, f, g, S, T

\* What a node may still receive in this second and what will be given back make up
\* the bandwidth, and no more is taken than the packets of the last second had, for
\* any nodes, lengths, bandwidth and times (AdHocRoutingHelper::receivePacket,
\* updateLinkBandwidth, RemovePacketFromBandwidthMetric).
THEOREM BandwidthKeptCorrect == SimSpec => []BandwidthKept
<1>1. SimInv => BandwidthKept
  BY PaidFor
<1> QED BY <1>1, SimInitInv, SimNextInv, PTL DEF SimSpec
=============================================================================
