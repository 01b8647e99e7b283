--------------------------- MODULE HardwareProofs ---------------------------
(***************************************************************************)
(* The hardware side of a node: its ports and sockets (Ports), the RSSI    *)
(* capture (Rssi), the queue of received messages (CircularQueue), the     *)
(* hash map (HashMap) and the hello monitor (HelloMonitor), for any number *)
(* of ports, messages, frames, keys and nodes, any time to live, interval, *)
(* duration and lateness.                                                  *)
(***************************************************************************)
EXTENDS Ports, Rssi, CircularQueue, HelloMonitor, HashMap, DataLemmas

Id == {ROUTING_PORT} \cup {PortId[p] : p \in Port}

Socket ==
  [at : Nat, port : Id, sockfd : Descriptor, live : BOOLEAN, waits : Nat, messages : Seq(Id)]

\* Every variable has its type.
PortsTypeOK ==
  /\ sockets \in Seq(Socket) /\ Len(sockets) > 0
  /\ \A s \in 1 .. Len(sockets) : sockets[s].waits \in 0 .. Len(sockets)
  /\ DOMAIN ports \subseteq {PortId[p] : p \in Port}
  /\ portSockets \in [DOMAIN portSockets -> 1 .. Len(sockets)]
  /\ kernel \in [DOMAIN kernel -> 1 .. Len(sockets)]
  /\ DOMAIN kernel \subseteq Descriptor

\* Of two objects in the same memory the first was deleted.
MemoryOnce ==
  \A s, t \in 1 .. Len(sockets) : s < t /\ sockets[s].at = sockets[t].at => ~sockets[s].live

\* Port id has a socket that listens.
PortListens(id) == Listens(portSockets[id], id)

\* What makes PortsListen inductive: each socket the application uses is the one
\* behind its descriptor, ports and sockets go together, and no two live objects
\* share their memory.
PortsInv ==
  process = "running" =>
    /\ PortsTypeOK /\ MemoryOnce
    /\ DOMAIN portSockets = DOMAIN ports
    /\ Listens(1, ROUTING_PORT)
    /\ \A id \in DOMAIN ports : PortListens(id)

LEMMA PortsInit_Inv == PortsInit => PortsInv
<1> SUFFICES ASSUME PortsInit PROVE PortsInv
  OBVIOUS
<1> USE DEF PortsInit
<1>1. 1 \in Descriptor
  BY SocketsAssumption DEF Descriptor
<1>2. /\ sockets = <<[at |-> 1, port |-> ROUTING_PORT, sockfd |-> 1, live |-> TRUE, waits |-> 0,
                      messages |-> <<>>]>>
      /\ kernel = [fd \in {1} |-> 1]
      /\ DOMAIN ports = {} /\ DOMAIN portSockets = {}
  BY DEF NewSocket
<1>3. NewSocket(1, ROUTING_PORT, 1) \in Socket
  BY <1>1 DEF NewSocket, Socket, Id
<1>4. PortsTypeOK
  BY <1>1, <1>2, <1>3 DEF PortsTypeOK
<1>5. Listens(1, ROUTING_PORT)
  BY <1>2 DEF Listens
<1>6. MemoryOnce
  BY <1>2 DEF MemoryOnce
<1> QED
  BY <1>2, <1>4, <1>5, <1>6 DEF PortsInv

-----------------------------------------------------------------------------
\* Two sockets that listen to different ids are two, and so are their descriptors.
LEMMA Apart ==
  ASSUME NEW s, NEW t, NEW id, NEW jd, id # jd, Listens(s, id), Listens(t, jd)
  PROVE  s # t /\ sockets[s].sockfd # sockets[t].sockfd
  BY DEF Listens

\* A listening socket that keeps its record and its descriptor still listens.
LEMMA StillListens ==
  ASSUME NEW s \in Nat, NEW id, Listens(s, id), sockets'[s] = sockets[s],
         \A t \in 1 .. s - 1 : sockets'[t] = sockets[t],
         sockets[s].sockfd \in DOMAIN kernel',
         kernel'[sockets[s].sockfd] = kernel[sockets[s].sockfd]
  PROVE  Listens(s, id)'
  BY DEF Listens, NewMemory

LEMMA AddPortInv ==
  ASSUME PortsInv, AddPort, process' = "running"
  PROVE  PortsInv'
<1> PICK p \in Port :
      /\ PortId[p] \notin DOMAIN ports
      /\ ports' = With(ports, PortId[p], p)
      /\ BuildPort(PortId[p])
  BY DEF AddPort, Exit
<1> DEFINE id == PortId[p]
<1> PICK n : n = Len(sockets) + 1
  OBVIOUS
<1> PICK fd \in Descriptor \ DOMAIN kernel, a \in 1 .. n :
      /\ There(a) = {}
      /\ sockets' = Append(sockets, NewSocket(a, id, fd))
      /\ kernel' = With(kernel, fd, n)
      /\ portSockets' = With(portSockets, id, n)
  BY DEF BuildPort
<1>1. /\ PortsTypeOK /\ MemoryOnce /\ DOMAIN portSockets = DOMAIN ports /\ Listens(1, ROUTING_PORT)
      /\ \A jd \in DOMAIN ports : PortListens(jd)
  BY DEF PortsInv, AddPort
<1>2. /\ DOMAIN ports' = DOMAIN ports \cup {id}
      /\ DOMAIN portSockets' = DOMAIN ports \cup {id}
      /\ portSockets'[id] = n
      /\ \A jd \in DOMAIN ports : portSockets'[jd] = portSockets[jd]
  BY <1>1 DEF With
<1>3. /\ DOMAIN kernel' = DOMAIN kernel \cup {fd}
      /\ kernel'[fd] = n
      /\ \A f \in DOMAIN kernel : kernel'[f] = kernel[f]
  BY DEF With
<1>4. NewSocket(a, id, fd) \in Socket
  BY DEF NewSocket, Socket, Id
<1>5. /\ sockets' \in Seq(Socket) /\ Len(sockets') = n /\ n \in Nat \ {0}
      /\ sockets'[n] = NewSocket(a, id, fd)
      /\ \A s \in 1 .. Len(sockets) : sockets'[s] = sockets[s]
  BY <1>1, <1>4 DEF PortsTypeOK
<1>6. PortsTypeOK'
  <2>0. \A s \in 1 .. n : sockets'[s].waits \in 0 .. n
    BY <1>1, <1>5 DEF PortsTypeOK, NewSocket
  <2>1. kernel' \in [DOMAIN kernel' -> 1 .. n]
    BY <1>1, <1>5 DEF PortsTypeOK, With
  <2>2. portSockets' \in [DOMAIN portSockets' -> 1 .. n]
    BY <1>1, <1>5 DEF PortsTypeOK, With
  <2> QED
    BY <1>1, <1>2, <1>3, <1>5, <2>0, <2>1, <2>2 DEF PortsTypeOK
<1>7. ASSUME NEW s \in 1 .. Len(sockets), NEW jd, Listens(s, jd)
      PROVE  Listens(s, jd)'
  <2>1. sockets[s].sockfd \in DOMAIN kernel
    BY <1>7 DEF Listens
  <2> QED
    BY <1>3, <1>5, <1>7, <2>1, StillListens
<1>8. Listens(n, id)'
  <2>1. /\ sockets'[n].live /\ sockets'[n].port = id /\ sockets'[n].sockfd = fd
        /\ sockets'[n].waits = 0 /\ sockets'[n].messages = <<>>
    BY <1>5 DEF NewSocket
  <2>2. DOMAIN <<>> = {}
    OBVIOUS
  <2> QED
    BY <1>3, <2>1, <2>2 DEF Listens
<1>9. Listens(1, ROUTING_PORT)'
  <2>1. 1 \in 1 .. Len(sockets)
    BY <1>1 DEF PortsTypeOK
  <2> QED
    BY <1>1, <1>7, <2>1
<1>10. ASSUME NEW jd \in DOMAIN ports'
       PROVE  PortListens(jd)'
  <2>1. CASE jd = id
    BY <1>2, <1>8, <2>1 DEF PortListens
  <2>2. CASE jd \in DOMAIN ports
    <3>1. PICK s \in 1 .. Len(sockets) : s = portSockets[jd] /\ Listens(s, jd)
      BY <1>1, <2>2 DEF PortsTypeOK, PortListens
    <3>2. Listens(s, jd)'
      BY <1>7, <3>1
    <3> QED
      BY <1>2, <2>2, <3>1, <3>2 DEF PortListens
  <2> QED
    BY <1>2, <2>1, <2>2
<1>11. MemoryOnce'
  <2>1. ASSUME NEW s \in 1 .. n, NEW t \in 1 .. n, s < t, sockets'[s].at = sockets'[t].at
        PROVE  ~sockets'[s].live
    <3>1. CASE t = n
      <4>1. s \in 1 .. Len(sockets) /\ sockets'[s] = sockets[s] /\ sockets'[t].at = a
        BY <1>5, <2>1, <3>1 DEF NewSocket
      <4> QED
        BY <2>1, <4>1 DEF There
    <3>2. CASE t # n
      BY <1>1, <1>5, <2>1, <3>2 DEF MemoryOnce
    <3> QED
      BY <3>1, <3>2
  <2> QED
    BY <1>5, <2>1 DEF MemoryOnce
<1> QED
  BY <1>2, <1>6, <1>9, <1>10, <1>11 DEF PortsInv

\* What the destructors leave: every socket but the deleted ones.
LEMMA DeleteKeeps ==
  ASSUME PortsTypeOK, NEW deleted, Delete(deleted)
  PROVE  /\ sockets' \in Seq(Socket) /\ Len(sockets') = Len(sockets)
         /\ \A s \in 1 .. Len(sockets) :
              /\ sockets'[s].waits = sockets[s].waits /\ sockets'[s].at = sockets[s].at
              /\ sockets'[s].live => sockets[s].live
         /\ DOMAIN kernel' \subseteq DOMAIN kernel
         /\ kernel' \in [DOMAIN kernel' -> 1 .. Len(sockets)]
         /\ \A s \in 1 .. Len(sockets) : \A id :
              /\ Listens(s, id) /\ s \notin deleted
              /\ \A t \in deleted : sockets[t].sockfd # sockets[s].sockfd
              => Listens(s, id)'
<1>1. /\ sockets' = [s \in 1 .. Len(sockets) |->
                      [sockets[s] EXCEPT !.live = @ /\ s \notin deleted]]
      /\ kernel' = Without(kernel, {sockets[s].sockfd : s \in deleted})
      /\ Len(sockets) \in Nat
  BY DEF Delete, PortsTypeOK
<1>2. ASSUME NEW s \in 1 .. Len(sockets)
      PROVE  /\ sockets'[s] \in Socket
             /\ sockets'[s].live = (sockets[s].live /\ s \notin deleted)
             /\ sockets'[s].port = sockets[s].port /\ sockets'[s].at = sockets[s].at
             /\ sockets'[s].sockfd = sockets[s].sockfd
             /\ sockets'[s].waits = sockets[s].waits
             /\ sockets'[s].messages = sockets[s].messages
  <2>1. sockets[s] \in Socket
    BY DEF PortsTypeOK
  <2>2. sockets'[s] = [sockets[s] EXCEPT !.live = @ /\ s \notin deleted]
    BY <1>1
  <2> QED
    BY <2>1, <2>2 DEF Socket
<1>3. sockets' \in Seq(Socket) /\ Len(sockets') = Len(sockets)
  <2>1. sockets' \in [1 .. Len(sockets) -> Socket]
    BY <1>1, <1>2
  <2> QED
    BY <1>1, <2>1
<1>4. /\ DOMAIN kernel' \subseteq DOMAIN kernel
      /\ kernel' \in [DOMAIN kernel' -> 1 .. Len(sockets)]
  BY <1>1 DEF Without, PortsTypeOK
<1>5. ASSUME NEW s \in 1 .. Len(sockets), NEW id, Listens(s, id), s \notin deleted,
             \A t \in deleted : sockets[t].sockfd # sockets[s].sockfd
      PROVE  Listens(s, id)'
  <2>1. /\ sockets[s].sockfd \in DOMAIN kernel'
        /\ kernel'[sockets[s].sockfd] = s
    BY <1>1, <1>5 DEF Without, Listens
  <2>2. \A t \in 1 .. s - 1 : t \in 1 .. Len(sockets)
    BY <1>1
  <2>3. NewMemory(s)' => NewMemory(s)
    BY <1>2, <2>2 DEF NewMemory
  <2>4. /\ sockets'[s].live /\ sockets'[s].port = id /\ sockets'[s].sockfd = sockets[s].sockfd
        /\ sockets'[s].waits \in {0, s}
    BY <1>2, <1>5 DEF Listens
  <2>5. NewMemory(s)' => \A i \in DOMAIN sockets'[s].messages : sockets'[s].messages[i] = id
    BY <1>2, <1>5, <2>3 DEF Listens
  <2> QED
    BY <2>1, <2>4, <2>5 DEF Listens
<1> QED
  BY <1>2, <1>3, <1>4, <1>5

LEMMA RemovePortInv ==
  ASSUME PortsInv, RemovePort
  PROVE  PortsInv'
<1> PICK p \in Port :
      /\ PortId[p] \in DOMAIN ports
      /\ DestroyPort(PortId[p])
      /\ ports' = Without(ports, {PortId[p]})
  BY DEF RemovePort
<1> DEFINE id == PortId[p]
<1>1. /\ PortsTypeOK /\ MemoryOnce /\ DOMAIN portSockets = DOMAIN ports /\ Listens(1, ROUTING_PORT)
      /\ \A jd \in DOMAIN ports : PortListens(jd)
  BY DEF PortsInv, RemovePort
<1>2. /\ Delete({portSockets[id]})
      /\ portSockets' = Without(portSockets, {id})
  BY <1>1 DEF DestroyPort
<1>3. /\ DOMAIN ports' = DOMAIN ports \ {id}
      /\ DOMAIN portSockets' = DOMAIN ports \ {id}
      /\ \A jd \in DOMAIN ports \ {id} : portSockets'[jd] = portSockets[jd]
  BY <1>1, <1>2 DEF Without
<1>4. PortsTypeOK'
  <2>1. portSockets' \in [DOMAIN portSockets' -> 1 .. Len(sockets)]
    BY <1>1, <1>2 DEF PortsTypeOK, Without
  <2>2. DOMAIN ports' \subseteq {PortId[q] : q \in Port}
    BY <1>1, <1>3 DEF PortsTypeOK
  <2> QED
    BY <1>1, <1>2, <2>1, <2>2, DeleteKeeps DEF PortsTypeOK
<1>5. ASSUME NEW s \in 1 .. Len(sockets), NEW jd, jd # id, Listens(s, jd)
      PROVE  Listens(s, jd)'
  <2>1. Listens(portSockets[id], id)
    BY <1>1 DEF PortListens
  <2>2. s # portSockets[id] /\ sockets[s].sockfd # sockets[portSockets[id]].sockfd
    BY <1>5, <2>1, Apart
  <2> QED
    BY <1>1, <1>2, <1>5, <2>2, DeleteKeeps
<1>6. Listens(1, ROUTING_PORT)'
  <2>1. ROUTING_PORT # id /\ 1 \in 1 .. Len(sockets)
    BY <1>1, PortIdAssumption DEF PortsTypeOK
  <2> QED
    BY <1>1, <1>5, <2>1
<1>7. ASSUME NEW jd \in DOMAIN ports'
      PROVE  PortListens(jd)'
  <2>1. jd # id /\ portSockets'[jd] = portSockets[jd]
    BY <1>3
  <2>2. PICK s \in 1 .. Len(sockets) : s = portSockets[jd] /\ Listens(s, jd)
    BY <1>1, <1>3 DEF PortsTypeOK, PortListens
  <2>3. Listens(s, jd)'
    BY <1>5, <2>1, <2>2
  <2> QED
    BY <2>1, <2>2, <2>3 DEF PortListens
<1>8. MemoryOnce'
  BY <1>1, <1>2, DeleteKeeps DEF MemoryOnce
<1> QED
  BY <1>3, <1>4, <1>6, <1>7, <1>8 DEF PortsInv

-----------------------------------------------------------------------------
\* A step of the threads or of handlePackets: it changes what threads wait for and
\* queues, and those of a socket that listens as they may be.
LEMMA QueuesInv ==
  ASSUME PortsInv, process = "running", UNCHANGED <<ports, portSockets, kernel>>,
         sockets' \in Seq(Socket), Len(sockets') = Len(sockets),
         \A s \in 1 .. Len(sockets) :
           /\ sockets'[s].at = sockets[s].at /\ sockets'[s].port = sockets[s].port
           /\ sockets'[s].sockfd = sockets[s].sockfd /\ sockets'[s].live = sockets[s].live
           /\ sockets'[s].waits \in 0 .. Len(sockets),
         \A s \in 1 .. Len(sockets) : \A id : Listens(s, id) =>
           /\ sockets'[s].waits \in {0, s}
           /\ NewMemory(s) => \A i \in DOMAIN sockets'[s].messages : sockets'[s].messages[i] = id
  PROVE  PortsInv'
<1>1. /\ PortsTypeOK /\ MemoryOnce /\ DOMAIN portSockets = DOMAIN ports
      /\ Listens(1, ROUTING_PORT) /\ \A jd \in DOMAIN ports : PortListens(jd)
  BY DEF PortsInv
<1>2. PortsTypeOK' /\ MemoryOnce'
  <2>1. PortsTypeOK'
    BY <1>1 DEF PortsTypeOK
  <2>2. MemoryOnce'
    BY <1>1 DEF MemoryOnce
  <2> QED
    BY <2>1, <2>2
<1>3. ASSUME NEW t \in 1 .. Len(sockets), NEW id, Listens(t, id)
      PROVE  Listens(t, id)'
  <2>1. NewMemory(t)' => NewMemory(t)
    <3>1. \A u \in 1 .. t - 1 : u \in 1 .. Len(sockets)
      BY <1>1 DEF PortsTypeOK
    <3> QED
      BY <3>1 DEF NewMemory
  <2> QED
    BY <1>3, <2>1 DEF Listens
<1>4. Listens(1, ROUTING_PORT)'
  BY <1>1, <1>3 DEF PortsTypeOK
<1>5. ASSUME NEW jd \in DOMAIN ports
      PROVE  PortListens(jd)'
  <2>1. PICK t \in 1 .. Len(sockets) : t = portSockets[jd] /\ Listens(t, jd)
    BY <1>1 DEF PortsTypeOK, PortListens
  <2> QED
    BY <1>3, <2>1 DEF PortListens
<1> QED
  BY <1>1, <1>2, <1>4, <1>5 DEF PortsInv

\* One socket changes.
LEMMA OneSocketInv ==
  ASSUME PortsInv, process = "running", UNCHANGED <<ports, portSockets, kernel>>,
         NEW s \in 1 .. Len(sockets), NEW new \in Socket,
         sockets' = [sockets EXCEPT ![s] = new],
         new.at = sockets[s].at, new.port = sockets[s].port, new.sockfd = sockets[s].sockfd,
         new.live = sockets[s].live, new.waits \in 0 .. Len(sockets),
         \A id : Listens(s, id) =>
           /\ new.waits \in {0, s}
           /\ NewMemory(s) => \A i \in DOMAIN new.messages : new.messages[i] = id
  PROVE  PortsInv'
<1>1. PortsTypeOK
  BY DEF PortsInv
<1>2. /\ sockets' \in Seq(Socket) /\ Len(sockets') = Len(sockets)
      /\ sockets'[s] = new
      /\ \A t \in 1 .. Len(sockets) : t # s => sockets'[t] = sockets[t]
  BY <1>1 DEF PortsTypeOK
<1>3. ASSUME NEW t \in 1 .. Len(sockets)
      PROVE  /\ sockets'[t].at = sockets[t].at /\ sockets'[t].port = sockets[t].port
             /\ sockets'[t].sockfd = sockets[t].sockfd /\ sockets'[t].live = sockets[t].live
             /\ sockets'[t].waits \in 0 .. Len(sockets)
  BY <1>1, <1>2 DEF PortsTypeOK
<1>4. ASSUME NEW t \in 1 .. Len(sockets), NEW id, Listens(t, id)
      PROVE  /\ sockets'[t].waits \in {0, t}
             /\ NewMemory(t) => \A i \in DOMAIN sockets'[t].messages : sockets'[t].messages[i] = id
  <2>1. CASE t = s
    BY <1>2, <1>4, <2>1
  <2>2. CASE t # s
    BY <1>2, <1>4, <2>2 DEF Listens
  <2> QED
    BY <2>1, <2>2
<1> QED
  BY <1>2, <1>3, <1>4, QueuesInv

LEMMA HandlePacketInv ==
  ASSUME PortsInv, HandlePacket
  PROVE  PortsInv'
<1>0. process = "running" /\ PortsTypeOK /\ UNCHANGED <<ports, portSockets, kernel>>
      /\ DOMAIN portSockets = DOMAIN ports
  BY DEF HandlePacket, PortsInv
<1> PICK s \in {1} \cup {portSockets[id] : id \in DOMAIN portSockets} :
      /\ sockets[s].messages # <<>>
      /\ sockets' = [sockets EXCEPT ![s].messages = FifoPop(@)]
  BY DEF HandlePacket
<1> DEFINE new == [sockets[s] EXCEPT !.messages = Tail(@)]
<1>1. s \in 1 .. Len(sockets) /\ sockets[s] \in Socket
  BY <1>0 DEF PortsTypeOK
<1>2. /\ sockets[s].messages \in Seq(Id)
      /\ Tail(sockets[s].messages) \in Seq(Id)
      /\ \A i \in DOMAIN Tail(sockets[s].messages) :
           /\ i + 1 \in DOMAIN sockets[s].messages
           /\ Tail(sockets[s].messages)[i] = sockets[s].messages[i + 1]
  BY <1>1 DEF Socket
<1>3. /\ new \in Socket /\ new.at = sockets[s].at /\ new.port = sockets[s].port
      /\ new.sockfd = sockets[s].sockfd
      /\ new.live = sockets[s].live /\ new.waits = sockets[s].waits
      /\ new.messages = Tail(sockets[s].messages)
  BY <1>1, <1>2 DEF Socket
<1>4. sockets' = [sockets EXCEPT ![s] = new]
  BY <1>1 DEF FifoPop
<1>5. ASSUME NEW id, Listens(s, id)
      PROVE  /\ new.waits \in {0, s}
             /\ NewMemory(s) => \A i \in DOMAIN new.messages : new.messages[i] = id
  BY <1>2, <1>3, <1>5 DEF Listens
<1>6. new.waits \in 0 .. Len(sockets)
  BY <1>0, <1>1, <1>3 DEF PortsTypeOK
<1> HIDE DEF new
<1> QED
  BY <1>0, <1>1, <1>3, <1>4, <1>5, <1>6, OneSocketInv

\* The object in the memory of a live socket is that socket.
LEMMA OneThere ==
  ASSUME PortsTypeOK, MemoryOnce, NEW s \in 1 .. Len(sockets), NEW t \in There(sockets[s].at)
  PROVE  /\ t \in 1 .. Len(sockets) /\ sockets[t].live /\ sockets[t].at = sockets[s].at
         /\ sockets[s].live => t = s
         /\ NewMemory(t) => t = s
<1>1. /\ t \in 1 .. Len(sockets) /\ sockets[t].live /\ sockets[t].at = sockets[s].at
      /\ Len(sockets) \in Nat
  BY DEF There, PortsTypeOK
<1>2. sockets[s].live => t = s
  BY <1>1 DEF MemoryOnce
<1>3. ASSUME NewMemory(t) PROVE t = s
  <2>1. ~(s < t)
    BY <1>1, <1>3 DEF NewMemory
  <2>2. ~(t < s)
    BY <1>1 DEF MemoryOnce
  <2> QED
    BY <1>1, <2>1, <2>2
<1> QED
  BY <1>1, <1>2, <1>3

LEMMA ReceiveFromInv ==
  ASSUME PortsInv, ReceiveFrom, process = "running", process' = "running"
  PROVE  PortsInv'
<1>0. PortsTypeOK /\ MemoryOnce /\ UNCHANGED <<ports, portSockets>>
  BY DEF ReceiveFrom, PortsInv
<1> PICK s \in DOMAIN sockets :
      \E fd \in Sockfd(s) :
        /\ sockets[s].waits = 0 /\ fd \in DOMAIN kernel
        /\ sockets' = [sockets EXCEPT ![s].waits = kernel[fd]]
        /\ UNCHANGED kernel
  BY DEF ReceiveFrom, Exit
<1> PICK fd \in Sockfd(s) :
      /\ sockets[s].waits = 0 /\ fd \in DOMAIN kernel
      /\ sockets' = [sockets EXCEPT ![s].waits = kernel[fd]]
      /\ UNCHANGED kernel
  OBVIOUS
<1> DEFINE new == [sockets[s] EXCEPT !.waits = kernel[fd]]
<1>1. s \in 1 .. Len(sockets) /\ sockets[s] \in Socket /\ kernel[fd] \in 1 .. Len(sockets)
      /\ Len(sockets) \in Nat
  BY <1>0 DEF PortsTypeOK
<1>2. /\ new \in Socket /\ new.at = sockets[s].at /\ new.port = sockets[s].port
      /\ new.sockfd = sockets[s].sockfd
      /\ new.live = sockets[s].live /\ new.waits = kernel[fd]
      /\ new.messages = sockets[s].messages
  BY <1>1 DEF Socket
<1>3. sockets' = [sockets EXCEPT ![s] = new]
  BY <1>1
<1>4. ASSUME NEW id, Listens(s, id)
      PROVE  /\ new.waits \in {0, s}
             /\ NewMemory(s) => \A i \in DOMAIN new.messages : new.messages[i] = id
  <2>1. s \in There(sockets[s].at)
    BY <1>4 DEF Listens, There
  <2>2. \A t \in There(sockets[s].at) : t = s
    BY <1>0, <1>1, <1>4, OneThere DEF Listens
  <2>3. fd = sockets[s].sockfd
    BY <2>1, <2>2 DEF Sockfd
  <2> HIDE DEF new
  <2> QED
    BY <1>2, <1>4, <2>3 DEF Listens
<1>5. new.waits \in 0 .. Len(sockets)
  BY <1>1, <1>2
<1> HIDE DEF new
<1> QED
  BY <1>0, <1>1, <1>2, <1>3, <1>4, <1>5, OneSocketInv

\* What a push leaves in a queue.
LEMMA PushedMessages ==
  ASSUME NEW q \in Seq(Id), NEW id \in Id, NEW jd
  PROVE  LET pushed == FifoPush(q, id, UDP_QUEUE_SIZE)
         IN /\ pushed \in Seq(Id)
            /\ (\A i \in DOMAIN q : q[i] = jd) /\ id = jd
                 => \A i \in DOMAIN pushed : pushed[i] = jd
<1>1. CASE Len(q) = UDP_QUEUE_SIZE
  <2>1. /\ Tail(q) \in Seq(Id) /\ Len(Tail(q)) = Len(q) - 1 /\ Len(q) \in Nat \ {0}
        /\ \A i \in 1 .. Len(q) - 1 : Tail(q)[i] = q[i + 1]
    BY <1>1, SocketsAssumption
  <2>2. PICK r \in Seq(Id) : r = Tail(q)
    BY <2>1
  <2>3. /\ Append(r, id) \in Seq(Id) /\ Len(Append(r, id)) = Len(r) + 1
        /\ \A i \in 1 .. Len(r) : Append(r, id)[i] = r[i]
        /\ Append(r, id)[Len(r) + 1] = id
    OBVIOUS
  <2>4. FifoPush(q, id, UDP_QUEUE_SIZE) = Append(r, id)
    BY <1>1, <2>2 DEF FifoPush
  <2>5. ASSUME \A i \in DOMAIN q : q[i] = jd, id = jd, NEW i \in DOMAIN Append(r, id)
        PROVE  Append(r, id)[i] = jd
    <3>1. i \in 1 .. Len(q)
      BY <2>1, <2>2, <2>3
    <3>2. CASE i = Len(q)
      BY <2>1, <2>2, <2>3, <2>5, <3>2
    <3>3. CASE i # Len(q)
      <4>1. i \in 1 .. Len(r) /\ i + 1 \in DOMAIN q /\ r[i] = q[i + 1]
        BY <2>1, <2>2, <3>1, <3>3
      <4> QED
        BY <2>3, <2>5, <4>1
    <3> QED
      BY <3>2, <3>3
  <2> QED
    BY <2>3, <2>4, <2>5
<1>2. CASE Len(q) # UDP_QUEUE_SIZE
  BY <1>2 DEF FifoPush
<1> QED
  BY <1>1, <1>2

LEMMA PushMessageInv ==
  ASSUME PortsInv, PushMessage, process = "running", process' = "running"
  PROVE  PortsInv'
<1>0. PortsTypeOK /\ MemoryOnce /\ UNCHANGED <<ports, portSockets>>
  BY DEF PushMessage, PortsInv
<1> PICK s \in DOMAIN sockets : sockets[s].waits # 0 /\ PushInto(s) /\ UNCHANGED kernel
  BY DEF PushMessage, Exit
<1> DEFINE w == sockets[s].waits
<1>1. /\ s \in 1 .. Len(sockets) /\ sockets[s] \in Socket /\ Len(sockets) \in Nat
      /\ w \in 1 .. Len(sockets) /\ sockets[w] \in Socket /\ sockets \in Seq(Socket)
  BY <1>0 DEF PortsTypeOK
<1>2. PICK id \in Id : id = sockets[w].port
  BY <1>1 DEF Socket
<1>3. sockets' = [t \in 1 .. Len(sockets) |->
                   [sockets[t] EXCEPT !.waits = IF t = s THEN 0 ELSE @,
                      !.messages = IF t \in There(sockets[s].at)
                                   THEN FifoPush(@, id, UDP_QUEUE_SIZE) ELSE @]]
  <2>1. DOMAIN sockets = 1 .. Len(sockets) /\ sockets[sockets[s].waits].port = id
    BY <1>1, <1>2
  <2>2. PushInto(s)
    OBVIOUS
  <2> QED
    BY <2>1, <2>2, Zenon DEF PushInto
<1>4. ASSUME NEW t \in 1 .. Len(sockets)
      PROVE  /\ sockets'[t] \in Socket
             /\ sockets'[t].at = sockets[t].at /\ sockets'[t].port = sockets[t].port
             /\ sockets'[t].sockfd = sockets[t].sockfd /\ sockets'[t].live = sockets[t].live
             /\ sockets'[t].waits = (IF t = s THEN 0 ELSE sockets[t].waits)
             /\ sockets'[t].messages = IF t \in There(sockets[s].at)
                                      THEN FifoPush(sockets[t].messages, id, UDP_QUEUE_SIZE)
                                      ELSE sockets[t].messages
  <2>1. PICK r \in Socket : r = sockets[t]
    BY <1>1
  <2>2. PICK q \in Seq(Id) : q = IF t \in There(sockets[s].at)
                                THEN FifoPush(r.messages, id, UDP_QUEUE_SIZE) ELSE r.messages
    BY <2>1, PushedMessages DEF Socket
  <2>3. PICK k \in Nat : k = IF t = s THEN 0 ELSE r.waits
    BY <2>1 DEF Socket
  <2>4. sockets'[t] = [r EXCEPT !.waits = k, !.messages = q]
    BY <1>3, <2>1, <2>2, <2>3
  <2>5. /\ [r EXCEPT !.waits = k, !.messages = q] \in Socket
        /\ [r EXCEPT !.waits = k, !.messages = q].at = r.at
        /\ [r EXCEPT !.waits = k, !.messages = q].port = r.port
        /\ [r EXCEPT !.waits = k, !.messages = q].sockfd = r.sockfd
        /\ [r EXCEPT !.waits = k, !.messages = q].live = r.live
        /\ [r EXCEPT !.waits = k, !.messages = q].waits = k
        /\ [r EXCEPT !.waits = k, !.messages = q].messages = q
    BY DEF Socket
  <2> QED
    BY <2>1, <2>2, <2>3, <2>4, <2>5
<1>5. sockets' \in Seq(Socket) /\ Len(sockets') = Len(sockets)
  <2>1. sockets' \in [1 .. Len(sockets) -> Socket]
    BY <1>3, <1>4
  <2> QED
    BY <1>1, <2>1
<1>6. ASSUME NEW t \in 1 .. Len(sockets)
      PROVE  sockets'[t].waits \in 0 .. Len(sockets)
  BY <1>0, <1>1, <1>4 DEF PortsTypeOK
<1>7. ASSUME NEW t \in 1 .. Len(sockets), NEW jd, Listens(t, jd)
      PROVE  /\ sockets'[t].waits \in {0, t}
             /\ NewMemory(t) => \A i \in DOMAIN sockets'[t].messages : sockets'[t].messages[i] = jd
  <2>1. sockets'[t].waits \in {0, t}
    BY <1>4, <1>7 DEF Listens
  <2>2. ASSUME NewMemory(t), t \in There(sockets[s].at)
        PROVE  \A i \in DOMAIN sockets'[t].messages : sockets'[t].messages[i] = jd
    <3>1. t = s
      BY <1>0, <1>1, <2>2, OneThere
    <3>2. w = s /\ id = jd
      BY <1>2, <1>7, <3>1 DEF Listens
    <3>3. PICK m \in Seq(Id) : m = sockets[t].messages /\ \A i \in DOMAIN m : m[i] = jd
      BY <1>1, <1>7, <2>2, <3>1 DEF Listens, Socket
    <3>4. sockets'[t].messages = FifoPush(m, id, UDP_QUEUE_SIZE)
      BY <1>4, <2>2, <3>3
    <3>5. \A i \in DOMAIN FifoPush(m, id, UDP_QUEUE_SIZE) : FifoPush(m, id, UDP_QUEUE_SIZE)[i] = jd
      <4>1. LET pushed == FifoPush(m, id, UDP_QUEUE_SIZE)
            IN (\A i \in DOMAIN m : m[i] = jd) /\ id = jd => \A i \in DOMAIN pushed : pushed[i] = jd
        BY <3>3, PushedMessages
      <4> QED
        BY <3>2, <3>3, <4>1
    <3> QED
      BY <3>4, <3>5
  <2>3. ASSUME NewMemory(t), t \notin There(sockets[s].at)
        PROVE  \A i \in DOMAIN sockets'[t].messages : sockets'[t].messages[i] = jd
    BY <1>4, <1>7, <2>3 DEF Listens
  <2> QED
    BY <2>1, <2>2, <2>3
<1> QED
  BY <1>0, <1>4, <1>5, <1>6, <1>7, QueuesInv

-----------------------------------------------------------------------------
LEMMA PortsNextInv == PortsInv /\ [PortsNext]_portVars => PortsInv'
<1> SUFFICES ASSUME PortsInv, [PortsNext]_portVars, process' = "running"
             PROVE  PortsInv'
  BY DEF PortsInv
<1>1. CASE AddPort
  BY <1>1, AddPortInv
<1>2. CASE RemovePort
  BY <1>2, RemovePortInv
<1>3. CASE Destruct
  BY <1>3 DEF Destruct
<1>4. CASE HandlePacket
  BY <1>4, HandlePacketInv
<1>5. CASE ReceiveFrom
  <2>1. process = "running"
    BY <1>5 DEF ReceiveFrom, Exit
  <2> QED
    BY <1>5, <2>1, ReceiveFromInv
<1>6. CASE PushMessage
  <2>1. process = "running"
    BY <1>6 DEF PushMessage, Exit
  <2> QED
    BY <1>6, <2>1, PushMessageInv
<1>7. CASE UNCHANGED portVars
  BY <1>7 DEF portVars, PortsInv, PortsTypeOK, PortListens, Listens, NewMemory, MemoryOnce
<1> QED
  BY <1>1, <1>2, <1>3, <1>4, <1>5, <1>6, <1>7 DEF PortsNext

\* As long as the program runs, the routing and every registered port have a socket
\* with a descriptor and a thread of its own, and nothing for another port in its
\* queue unless it is in the memory of a deleted socket, whose thread may still push
\* there: for any ports, ids, queue size and number of sockets (RoutingProtocol::addPort, removePort and the receive threads).
THEOREM PortsListenCorrect == PortsSpec => []PortsListen
<1>1. PortsInv => PortsListen
  BY DEF PortsInv, PortsListen, PortListens
<1> QED
  BY PortsInit_Inv, PortsNextInv, <1>1, PTL DEF PortsSpec
-----------------------------------------------------------------------------
\* What makes Watched inductive: a neighbour between its two insertions is in the
\* first map.
WatchedInv ==
  /\ Watched
  /\ adding # None => adding[1] \in DOMAIN MACToIP

LEMMA RssiInit_Inv == RssiInit => WatchedInv
BY DEF RssiInit, WatchedInv, Watched

LEMMA KeepInv ==
  ASSUME WatchedInv, Keep
  PROVE  WatchedInv'
<1>1. CASE UNCHANGED rssiMap
  BY <1>1 DEF Keep, WatchedInv, Watched
<1>2. CASE /\ CollectAll \/ source \in DOMAIN MACToIP
           /\ rssiMap' = Insert(rssiMap, source, data["dbmAntsignal"])
  <2>1. DOMAIN rssiMap' = DOMAIN rssiMap \cup {source}
    BY <1>2 DEF Insert
  <2>2. UNCHANGED <<MACToIP, IPToMAC, adding>>
    BY DEF Keep
  <2>3. WatchedInv
    OBVIOUS
  <2> QED
    BY <1>2, <2>1, <2>2, <2>3 DEF WatchedInv, Watched
<1> QED
  BY <1>1, <1>2 DEF Keep

LEMMA AddNeighborsInv ==
  ASSUME WatchedInv, AddNeighbors
  PROVE  WatchedInv'
<1>1. PICK mac \in Mac, ip \in Ip :
        MACToIP' = Insert(MACToIP, mac, ip) /\ adding' = <<mac, ip>>
  BY DEF AddNeighbors
<1>2. DOMAIN MACToIP' = DOMAIN MACToIP \cup {mac}
  BY <1>1 DEF Insert
<1> QED
  BY <1>1, <1>2 DEF AddNeighbors, WatchedInv, Watched

LEMMA EndAddNeighborsInv ==
  ASSUME WatchedInv, EndAddNeighbors
  PROVE  WatchedInv'
<1>1. /\ IPToMAC' = Insert(IPToMAC, adding[2], adding[1])
      /\ adding[1] \in DOMAIN MACToIP
      /\ UNCHANGED <<MACToIP, rssiMap>>
      /\ adding' = None
  BY DEF EndAddNeighbors, WatchedInv
<1>2. ASSUME NEW ip \in DOMAIN IPToMAC'
      PROVE  IPToMAC'[ip] \in DOMAIN MACToIP
  <2>1. CASE ip = adding[2]
    BY <1>1, <2>1 DEF Insert
  <2>2. CASE ip # adding[2]
    <3>1. ip \in DOMAIN IPToMAC /\ IPToMAC'[ip] = IPToMAC[ip]
      BY <1>1, <2>2 DEF Insert
    <3> QED
      BY <3>1 DEF WatchedInv, Watched
  <2> QED
    BY <2>1, <2>2
<1> QED
  BY <1>1, <1>2 DEF WatchedInv, Watched

LEMMA RssiNextInv == WatchedInv /\ [RssiNext]_rssiVars => WatchedInv'
<1> SUFFICES ASSUME WatchedInv, [RssiNext]_rssiVars PROVE WatchedInv'
  OBVIOUS
<1>1. CASE Capture \/ Read \/ Malformed \/ UNCHANGED rssiVars
  <2>1. UNCHANGED maps
    BY <1>1 DEF Capture, Read, Malformed, rssiVars
  <2> QED
    BY <2>1 DEF maps, WatchedInv, Watched
<1>2. CASE Keep
  BY <1>2, KeepInv
<1>3. CASE AddNeighbors
  BY <1>3, AddNeighborsInv
<1>4. CASE EndAddNeighbors
  BY <1>4, EndAddNeighborsInv
<1> QED
  BY <1>1, <1>2, <1>3, <1>4 DEF RssiNext

\* A neighbour is watched before its IP address leads to it, and only watched addresses
\* have a strength, for any frames, addresses and neighbours (addNeighbors against the
\* capture thread's handler).
THEOREM WatchedCorrect == RssiSpec => []Watched
<1>1. WatchedInv => Watched
  BY DEF WatchedInv
<1> QED
  BY RssiInit_Inv, RssiNextInv, <1>1, PTL DEF RssiSpec
-----------------------------------------------------------------------------
QueueInv == QueueTypeOK /\ IndexInv

\* Every place has a slot in the storage.
LEMMA SlotInIndex ==
  ASSUME front \in Index, NEW k \in 0 .. MaxSize - 1
  PROVE  Slot(k) \in Index
  BY MaxSizeAssumption DEF Index, Slot

\* The indices and the storage keep their types and agree.
LEMMA QueueInvNext == QueueInv /\ [QueueNext]_queueVars => QueueInv'
<1> SUFFICES ASSUME QueueInv, [QueueNext]_queueVars PROVE QueueInv'
  OBVIOUS
<1> USE MaxSizeAssumption DEF QueueInv, QueueTypeOK, IndexInv, Index, Slot, Step
<1>1. ASSUME NEW e \in Elem, Push(e) PROVE QueueInv'
  <2>1. storage' \in [Index -> Elem] /\ out' \in Elem \cup {Nothing} /\ rear' = Step(rear)
    BY <1>1 DEF Push
  <2>2. CASE size = MaxSize
    <3>1. size' = size /\ front' = Step(front)
      BY <1>1, <2>2 DEF Push
    <3> QED BY <2>1, <2>2, <3>1
  <2>3. CASE size # MaxSize
    <3>1. size' = size + 1 /\ front' = front
      BY <1>1, <2>3 DEF Push
    <3> QED BY <2>1, <2>3, <3>1
  <2> QED BY <2>2, <2>3
<1>2. CASE Peek
  BY <1>2 DEF Peek, Top
<1>3. CASE Pop
  <2>1. CASE size = 0
    BY <1>3, <2>1 DEF Pop, Top
  <2>2. CASE size # 0
    BY <1>3, <2>2 DEF Pop, Top
  <2> QED BY <2>1, <2>2
<1>4. CASE UNCHANGED queueVars
  BY <1>4 DEF queueVars
<1> QED BY <1>1, <1>2, <1>3, <1>4 DEF QueueNext

\* In every reachable state the fields have their types and the three indices
\* agree, whatever the sequence of calls.
THEOREM QueueInvCorrect == QueueSpec => [](QueueTypeOK /\ IndexInv)
<1>1. QueueInit => QueueInv
  BY MaxSizeAssumption DEF QueueInit, QueueInv, QueueTypeOK, IndexInv, Index, Slot
<1> QED BY <1>1, QueueInvNext, PTL DEF QueueSpec, QueueInv

-----------------------------------------------------------------------------
\* The elements are a sequence, as long as the queue's size says.
LEMMA ElementsSeq ==
  ASSUME QueueInv
  PROVE  /\ Elements \in Seq(Elem) /\ Len(Elements) = size
         /\ \A i \in 1 .. size : Elements[i] = storage[Slot(i - 1)]
<1>1. size \in Nat /\ \A i \in 1 .. size : storage[Slot(i - 1)] \in Elem
  BY MaxSizeAssumption DEF QueueInv, QueueTypeOK, Index, Slot
<1> QED BY <1>1 DEF Elements

\* The same after a step.
LEMMA ElementsSeqNext ==
  ASSUME QueueInv'
  PROVE  /\ Elements' \in Seq(Elem) /\ Len(Elements') = size'
         /\ \A i \in 1 .. size' : Elements'[i] = storage'[Slot(i - 1)']
<1>1. size' \in Nat /\ \A i \in 1 .. size' : storage'[Slot(i - 1)'] \in Elem
  <2>1. storage' \in [Index -> Elem] /\ front' \in Index /\ size' \in 0 .. MaxSize
    BY DEF QueueInv, QueueTypeOK, Index
  <2>2. ASSUME NEW k \in 0 .. MaxSize - 1 PROVE Slot(k)' \in Index
    <3>1. PICK f \in Index : front' = f
      BY <2>1
    <3> QED BY <3>1, MaxSizeAssumption DEF Index, Slot
  <2>3. \A i \in 1 .. size' : i - 1 \in 0 .. MaxSize - 1
    BY <2>1, MaxSizeAssumption
  <2> QED BY <2>1, <2>2, <2>3
<1>2. Elements' = [i \in 1 .. size' |-> storage'[Slot(i - 1)']]
  BY DEF Elements
<1> QED BY <1>1, <1>2

\* A push appends its element, and takes the oldest away when the queue is full.
LEMMA PushRefines ==
  ASSUME QueueInv, QueueInv', NEW e \in Elem, Push(e)
  PROVE  Fifo!Push(e)
<1> USE MaxSizeAssumption
<1>1. /\ storage \in [Index -> Elem] /\ storage' = [storage EXCEPT ![rear] = e]
      /\ rear \in Index /\ front \in Index /\ rear = Slot(size) /\ size \in 0 .. MaxSize
  BY DEF Push, QueueInv, QueueTypeOK, IndexInv
<1>2. \A k \in 0 .. MaxSize - 1 : Slot(k) \in Index
  BY <1>1, SlotInIndex
<1> DEFINE s == Elements
           s1 == Elements'
<1>3. /\ s \in Seq(Elem) /\ Len(s) = size
      /\ \A i \in 1 .. size : s[i] = storage[Slot(i - 1)]
  BY ElementsSeq
<1>4. /\ s1 \in Seq(Elem) /\ Len(s1) = size'
      /\ \A i \in 1 .. size' : s1[i] = storage'[Slot(i - 1)']
  BY ElementsSeqNext
<1> HIDE DEF s, s1
<1>5. CASE size = MaxSize
  <2> DEFINE t == Tail(s)
  <2>1. size' = size /\ front' = Step(front) /\ rear = front
    BY <1>1, <1>5 DEF Push, Slot, Index
  <2>2. s # <<>>
    BY <1>3, <1>5
  <2>3. /\ t \in Seq(Elem) /\ Len(t) = size - 1
        /\ \A i \in 1 .. size - 1 : t[i] = s[i + 1]
    BY HeadTailProperties, <1>3, <2>2, Z3
  <2> HIDE DEF t
  <2>4. /\ Append(t, e) \in Seq(Elem) /\ Len(Append(t, e)) = size
        /\ \A i \in 1 .. size - 1 : Append(t, e)[i] = t[i]
        /\ Append(t, e)[size] = e
    BY <2>3, <1>1, AppendProperties
  <2>5. ASSUME NEW i \in 1 .. size PROVE s1[i] = Append(t, e)[i]
    <3>1. CASE i = size
      <4>1. Slot(i - 1)' = rear
        BY <2>1, <1>1, <1>5, <3>1 DEF Slot, Step, Index
      <4> QED BY <4>1, <3>1, <2>1, <2>4, <1>1, <1>4
    <3>2. CASE i # size
      <4>1. Slot(i - 1)' = Slot(i) /\ Slot(i) # rear
        BY <2>1, <1>1, <1>5, <3>2 DEF Slot, Step, Index
      <4>2. Slot(i) \in Index /\ i \in 1 .. size - 1 /\ i + 1 \in 1 .. size
        BY <1>1, <1>2, <1>5, <3>2
      <4>3. storage'[Slot(i)] = storage[Slot(i)]
        BY <4>1, <4>2, <1>1
      <4>4. s[i + 1] = storage[Slot(i)]
        <5>1. (i + 1) - 1 = i
          OBVIOUS
        <5> QED BY <5>1, <4>2, <1>3
      <4> QED BY <4>1, <4>2, <4>3, <4>4, <2>1, <2>3, <2>4, <1>4
    <3> QED BY <3>1, <3>2
  <2>6. s1 = Append(t, e)
    BY <2>1, <2>4, <2>5, <1>4, SeqEqual
  <2> QED BY <2>6, <1>3, <1>5 DEF Push, Fifo!Push, Fifo!FifoPush, s, s1, t
<1>6. CASE size # MaxSize
  <2>1. size' = size + 1 /\ front' = front /\ size \in 0 .. MaxSize - 1
    BY <1>1, <1>6 DEF Push
  <2>2. \A k \in 0 .. MaxSize - 1 : Slot(k)' = Slot(k)
    BY <2>1 DEF Slot
  <2>3. /\ Append(s, e) \in Seq(Elem) /\ Len(Append(s, e)) = size + 1
        /\ \A i \in 1 .. size : Append(s, e)[i] = s[i]
        /\ Append(s, e)[size + 1] = e
    BY <1>3, AppendProperties
  <2>4. ASSUME NEW i \in 1 .. size + 1 PROVE s1[i] = Append(s, e)[i]
    <3>1. i - 1 \in 0 .. MaxSize - 1
      BY <2>1
    <3>2. s1[i] = storage'[Slot(i - 1)]
      BY <3>1, <2>1, <2>2, <1>4
    <3>3. CASE i = size + 1
      <4>1. i - 1 = size
        BY <3>3, <2>1
      <4> QED BY <4>1, <3>2, <3>3, <2>3, <1>1
    <3>4. CASE i # size + 1
      <4>1. Slot(i - 1) # rear
        BY <1>1, <2>1, <3>4 DEF Slot, Index
      <4>2. i \in 1 .. size /\ Slot(i - 1) \in Index
        BY <1>2, <2>1, <3>1, <3>4
      <4> QED BY <4>1, <4>2, <3>2, <2>3, <1>1, <1>3
    <3> QED BY <3>3, <3>4
  <2>5. s1 = Append(s, e)
    BY <2>1, <2>3, <2>4, <1>4, SeqEqual
  <2> QED BY <2>5, <1>3, <1>6 DEF Push, Fifo!Push, Fifo!FifoPush, s, s1
<1> QED BY <1>5, <1>6

\* peek and pop answer with the oldest element, if there is one.
LEMMA TopRefines ==
  ASSUME QueueInv
  PROVE  Top = Fifo!Top
<1>1. CASE size = 0
  BY <1>1 DEF Top, Fifo!Top, Elements
<1>2. CASE size # 0
  <2>1. Elements # <<>> /\ Head(Elements) = storage[Slot(0)]
    BY <1>2, ElementsSeq, MaxSizeAssumption DEF QueueInv, QueueTypeOK
  <2>2. Slot(0) = front
    BY MaxSizeAssumption DEF Slot, QueueInv, QueueTypeOK, Index
  <2> QED BY <2>1, <2>2, <1>2 DEF Top, Fifo!Top
<1> QED BY <1>1, <1>2

\* A pop takes the oldest element away.
LEMMA PopRefines ==
  ASSUME QueueInv, QueueInv', Pop
  PROVE  Fifo!Pop
<1> USE MaxSizeAssumption
<1>1. out' = Fifo!Top
  BY TopRefines DEF Pop
<1>2. CASE size = 0
  <2>1. Elements = <<>> /\ Elements' = <<>>
    BY <1>2 DEF Pop, Elements
  <2> QED BY <1>1, <2>1 DEF Fifo!Pop, Fifo!FifoPop
<1>3. CASE size # 0
  <2> DEFINE s == Elements
             s1 == Elements'
             t == Tail(s)
  <2>1. /\ size' = size - 1 /\ front' = Step(front) /\ storage' = storage
        /\ size \in 1 .. MaxSize /\ front \in Index
    BY <1>3 DEF Pop, QueueInv, QueueTypeOK
  <2>2. /\ s \in Seq(Elem) /\ Len(s) = size
        /\ \A i \in 1 .. size : s[i] = storage[Slot(i - 1)]
    BY ElementsSeq
  <2>3. /\ s1 \in Seq(Elem) /\ Len(s1) = size - 1
        /\ \A i \in 1 .. size - 1 : s1[i] = storage[Slot(i - 1)']
    BY ElementsSeqNext, <2>1
  <2> HIDE DEF s, s1
  <2>4. s # <<>>
    BY <2>1, <2>2
  <2>5. /\ t \in Seq(Elem) /\ Len(t) = size - 1
        /\ \A i \in 1 .. size - 1 : t[i] = s[i + 1]
    BY HeadTailProperties, <2>2, <2>4, Z3
  <2> HIDE DEF t
  <2>6. ASSUME NEW i \in 1 .. size - 1 PROVE s1[i] = t[i]
    <3>1. Slot(i - 1)' = Slot(i)
      BY <2>1 DEF Slot, Step, Index
    <3>2. (i + 1) - 1 = i /\ i + 1 \in 1 .. size
      BY <2>1
    <3>3. s[i + 1] = storage[Slot(i)]
      BY <3>2, <2>2
    <3> QED BY <3>1, <3>3, <2>3, <2>5
  <2>7. s1 = t
    BY <2>3, <2>5, <2>6, SeqEqual
  <2> QED BY <1>1, <2>4, <2>7 DEF Fifo!Pop, Fifo!FifoPop, s, s1, t
<1> QED BY <1>2, <1>3

\* The ring buffer implements the bounded queue that gives up its oldest
\* element: every call answers and leaves behind what the queue would.
THEOREM Refinement == QueueSpec => FifoSpec
<1>1. QueueInit => Fifo!Init
  BY DEF QueueInit, Fifo!Init, Elements
<1>2. QueueInv /\ QueueInv' /\ [QueueNext]_queueVars => [Fifo!Next]_<<Elements, out>>
  <2> SUFFICES ASSUME QueueInv, QueueInv', [QueueNext]_queueVars PROVE [Fifo!Next]_<<Elements, out>>
    OBVIOUS
  <2>1. ASSUME NEW e \in Elem, Push(e) PROVE Fifo!Next
    BY <2>1, PushRefines DEF Fifo!Next
  <2>2. CASE Peek
    <3>1. Elements' = Elements
      BY <2>2 DEF Peek, Elements, Slot
    <3> QED BY <2>2, <3>1, TopRefines DEF Peek, Fifo!Peek, Fifo!Next
  <2>3. CASE Pop
    BY <2>3, PopRefines DEF Fifo!Next
  <2>4. CASE UNCHANGED queueVars
    BY <2>4 DEF queueVars, Elements, Slot
  <2> QED BY <2>1, <2>2, <2>3, <2>4 DEF QueueNext
<1>3. QueueSpec => []QueueInv
  BY QueueInvCorrect DEF QueueInv
<1> QED BY <1>1, <1>2, <1>3, PTL DEF QueueSpec, FifoSpec, Fifo!Spec

-----------------------------------------------------------------------------
(* The two threads of the hello monitor agree on the neighbours.           *)

\* Who holds which mutex, and what is true while it is held.
LockInv ==
  /\ helloMux = "hello" <=> helloPc \in {"reset", "refill"}
  /\ helloMux = "main" <=> mainPc \in {"link", "record"}
  /\ neighborMux = "hello" <=> helloPc = "refill"
  /\ helloPc # "refill" => refill = {}
  /\ mainPc = "record" => from \in links

\* A node heard recently is a neighbour, or will be before the round ends.
LinkedInv == \A k \in Node : Fresh(k) => k \in links \cup refill

\* At most this much time has passed since the links were last rebuilt.
Elapsed ==
  timer + CASE helloPc = "refill" -> 0
            [] helloPc = "rest1"  -> Late
            [] helloPc = "rest2"  -> HalfInterval + 2 * Late
            [] OTHER              -> 2 * HalfInterval + 3 * Late

\* The node that the main thread has linked and not yet recorded.
Pending == IF mainPc = "record" THEN {from} ELSE {}

\* When the links were last rebuilt, every one was fresh.
StaleInv ==
  helloPc # "done" =>
    /\ timer <= Limit
    /\ \A k \in (links \cup refill) \ Pending : heard[k] < TTL + Elapsed

IInv == TypeOK /\ LockInv /\ LinkedInv

-----------------------------------------------------------------------------
\* The queue keeps its type and its bound.
LEMMA PushType ==
  ASSUME NEW q \in Seq(Node), Len(q) <= QueueSize, NEW k \in Node
  PROVE  FifoPush(q, k, QueueSize) \in Seq(Node) /\ Len(FifoPush(q, k, QueueSize)) <= QueueSize
<1>1. QueueSize \in Nat /\ QueueSize > 0
  BY QueueAssumption DEF Unit
<1>2. CASE Len(q) = QueueSize
  <2>1. q # <<>>
    BY <1>1, <1>2
  <2>2. Tail(q) \in Seq(Node) /\ Len(Tail(q)) = Len(q) - 1
    BY <2>1
  <2> QED BY <1>1, <1>2, <2>2 DEF FifoPush
<1>3. CASE Len(q) # QueueSize
  BY <1>1, <1>3 DEF FifoPush
<1> QED BY <1>2, <1>3

LEMMA PopType ==
  ASSUME NEW q \in Seq(Node), Len(q) <= QueueSize, q # <<>>
  PROVE  FifoPop(q) \in Seq(Node) /\ Len(FifoPop(q)) <= QueueSize /\ Head(q) \in Node
<1>1. QueueSize \in Nat
  BY QueueAssumption DEF Unit
<1>2. Tail(q) \in Seq(Node) /\ Len(Tail(q)) = Len(q) - 1 /\ Head(q) \in Node
  BY DEF FifoPop
<1> QED BY <1>1, <1>2 DEF FifoPop

-----------------------------------------------------------------------------
\* Every step keeps the types.
LEMMA TypeNext == TypeOK /\ [Next]_vars => TypeOK'
<1> SUFFICES ASSUME TypeOK, [Next]_vars PROVE TypeOK'
  OBVIOUS
<1> USE DEF TypeOK, helloVars, mainVars, envVars, HelloPc, MainPc, Free
<1>t. /\ HalfInterval \in Nat /\ TTL \in Nat /\ Late \in Nat /\ Duration \in Nat
      /\ Horizon \in Nat
  BY TimeAssumption DEF Unit, Horizon
<1>1. CASE HelloThread
  <2>1. CASE Return
    BY <2>1, <1>t DEF Return
  <2>2. CASE StartRound
    BY <2>2 DEF StartRound
  <2>3. CASE ResetLinks
    BY <2>3 DEF ResetLinks
  <2>4. ASSUME NEW k \in Node, Refill(k) PROVE TypeOK'
    BY <2>4 DEF Refill
  <2>5. CASE EndRound
    BY <2>5, <1>t DEF EndRound
  <2>6. CASE Broadcast
    BY <2>6, <1>t DEF Broadcast
  <2>7. CASE Repeat
    BY <2>7, <1>t DEF Repeat
  <2> QED BY <1>1, <2>1, <2>2, <2>3, <2>4, <2>5, <2>6, <2>7 DEF HelloThread
<1>2. CASE MainThread
  <2>1. CASE Take
    BY <2>1, PopType DEF Take
  <2>2. ASSUME NEW k \in Node, LinkExists(k) PROVE TypeOK'
    BY <2>2 DEF LinkExists
  <2>3. CASE Handled
    BY <2>3 DEF Handled
  <2>4. CASE Hear
    BY <2>4 DEF Hear
  <2>5. CASE AddLink
    BY <2>5 DEF AddLink
  <2>6. CASE Record
    BY <2>6, <1>t DEF Record
  <2> QED BY <1>2, <2>1, <2>2, <2>3, <2>4, <2>5, <2>6 DEF MainThread
<1>3. CASE Environment
  <2>1. ASSUME NEW k \in Node, Arrive(k) PROVE TypeOK'
    BY <2>1, PushType DEF Arrive
  <2>2. ASSUME NEW k \in Node, Leave(k) PROVE TypeOK'
    BY <2>2 DEF Leave
  <2>3. CASE Tick
    <3>1. timer' \in 0 .. HalfInterval + Late
      BY <2>3, <1>t DEF Tick, Limit
    <3>2. heard' \in [Node -> 0 .. Horizon]
      BY <2>3, <1>t DEF Tick
    <3> QED BY <2>3, <3>1, <3>2 DEF Tick
  <2> QED BY <1>3, <2>1, <2>2, <2>3 DEF Environment
<1>4. CASE UNCHANGED vars
  BY <1>4 DEF vars
<1> QED BY <1>1, <1>2, <1>3, <1>4 DEF Next

\* Types hold at the start.
LEMMA TypeInit == Init => TypeOK
<1>1. /\ HalfInterval \in Nat /\ Late \in Nat /\ Duration \in Nat
      /\ Horizon \in Nat /\ QueueSize \in Nat
  BY TimeAssumption, QueueAssumption DEF Unit, Horizon
<1> QED BY <1>1 DEF Init, TypeOK, HelloPc, MainPc, Free

\* Every reachable state is well typed and the queue is bounded.
THEOREM TypeCorrect == Spec => []TypeOK
  BY TypeInit, TypeNext, PTL DEF Spec

-----------------------------------------------------------------------------
\* The mutexes are held where the code holds them.  In particular the links
\* that the main thread adds are still there when it records the time: the
\* hello thread cannot begin a round in between.
LEMMA LockNext == TypeOK /\ LockInv /\ [Next]_vars => LockInv'
<1> SUFFICES ASSUME TypeOK, LockInv, [Next]_vars PROVE LockInv'
  OBVIOUS
<1> USE DEF TypeOK, LockInv, helloVars, mainVars, envVars, HelloPc, MainPc, Free
<1>1. CASE HelloThread
  <2>1. CASE Return
    BY <2>1 DEF Return
  <2>2. CASE StartRound
    BY <2>2 DEF StartRound
  <2>3. CASE ResetLinks
    BY <2>3 DEF ResetLinks
  <2>4. ASSUME NEW k \in Node, Refill(k) PROVE LockInv'
    BY <2>4 DEF Refill
  <2>5. CASE EndRound
    BY <2>5 DEF EndRound
  <2>6. CASE Broadcast
    BY <2>6 DEF Broadcast
  <2>7. CASE Repeat
    BY <2>7 DEF Repeat
  <2> QED BY <1>1, <2>1, <2>2, <2>3, <2>4, <2>5, <2>6, <2>7 DEF HelloThread
<1>2. CASE MainThread
  <2>1. CASE Take
    BY <2>1 DEF Take
  <2>2. ASSUME NEW k \in Node, LinkExists(k) PROVE LockInv'
    BY <2>2 DEF LinkExists
  <2>3. CASE Handled
    BY <2>3 DEF Handled
  <2>4. CASE Hear
    BY <2>4 DEF Hear
  <2>5. CASE AddLink
    BY <2>5 DEF AddLink
  <2>6. CASE Record
    BY <2>6 DEF Record
  <2> QED BY <1>2, <2>1, <2>2, <2>3, <2>4, <2>5, <2>6 DEF MainThread
<1>3. CASE Environment
  BY <1>3 DEF Environment, Arrive, Leave, Tick
<1>4. CASE UNCHANGED vars
  BY <1>4 DEF vars
<1> QED BY <1>1, <1>2, <1>3, <1>4 DEF Next

\* A node heard recently is linked, or about to be linked again.
LEMMA LinkedNext == IInv /\ [Next]_vars => LinkedInv'
<1> SUFFICES ASSUME TypeOK, LockInv, LinkedInv, [Next]_vars, NEW n \in Node, Fresh(n)'
             PROVE  n \in links' \cup refill'
  BY DEF IInv, LinkedInv
<1> USE DEF helloVars, mainVars, envVars, Fresh
<1>t. TTL \in Nat /\ Horizon \in Nat /\ TTL <= Horizon /\ heard \in [Node -> 0 .. Horizon]
  BY TimeAssumption DEF Unit, Horizon, TypeOK
<1>1. CASE heard' = heard /\ links' = links /\ refill' = refill
  BY <1>1 DEF LinkedInv
<1>2. CASE ResetLinks
  BY <1>2 DEF ResetLinks
<1>3. ASSUME NEW k \in Node, Refill(k) PROVE n \in links' \cup refill'
  BY <1>3 DEF Refill, LinkedInv
<1>4. CASE AddLink
  BY <1>4 DEF AddLink, LinkedInv
<1>5. CASE Record
  BY <1>5 DEF Record, LinkedInv, LockInv
<1>6. CASE Tick
  <2>1. heard'[n] = IF heard[n] = Horizon THEN Horizon ELSE heard[n] + 1
    BY <1>6 DEF Tick
  <2>2. heard[n] < TTL
    BY <1>t, <2>1
  <2> QED BY <1>6, <2>2 DEF Tick, LinkedInv
<1> QED
  BY <1>1, <1>2, <1>3, <1>4, <1>5, <1>6
  DEF Next, HelloThread, MainThread, Environment, vars, Return, StartRound, EndRound,
      Broadcast, Repeat, Take, LinkExists, Handled, Hear, Arrive, Leave

LEMMA InvNext == IInv /\ [Next]_vars => IInv'
  BY TypeNext, LockNext, LinkedNext DEF IInv

LEMMA InvInit == Init => IInv
<1> SUFFICES ASSUME Init PROVE LockInv /\ LinkedInv
  BY TypeInit DEF IInv
<1>1. LockInv
  BY DEF Init, LockInv, Free
<1>2. \A k \in Node : ~Fresh(k)
  BY TimeAssumption DEF Init, Fresh, Horizon, Unit
<1> QED BY <1>1, <1>2 DEF LinkedInv

LEMMA InvAlways == Spec => []IInv
  BY InvInit, InvNext, PTL DEF Spec

-----------------------------------------------------------------------------
\* No round loses a node that was heard within the time to live, however the
\* two threads interleave.
THEOREM FreshLinkedCorrect == Spec => []FreshLinked
<1>1. IInv => FreshLinked
  BY DEF IInv, LockInv, LinkedInv, FreshLinked, Free
<1> QED BY <1>1, InvAlways, PTL

\* linkExists never denies the link to a node heard within the time to live.
THEOREM NoFalseDenialCorrect == Spec => NoFalseDenial
<1>1. IInv /\ [Next]_vars => [\A k \in denied' \ denied : ~Fresh(k)]_vars
  <2> SUFFICES ASSUME IInv, [Next]_vars, NEW k \in denied' \ denied PROVE ~Fresh(k)
    OBVIOUS
  <2>1. PICK n \in Node : LinkExists(n)
    BY DEF Next, HelloThread, MainThread, Environment, vars, helloVars, mainVars, envVars,
           Return, StartRound, ResetLinks, Refill, EndRound, Broadcast, Repeat,
           Take, Handled, Hear, AddLink, Record, Arrive, Leave, Tick
  <2> QED BY <2>1 DEF LinkExists, IInv, LockInv, LinkedInv, Free
<1> QED BY <1>1, InvAlways, PTL DEF Spec, NoFalseDenial

\* Two threads with two mutexes implement one set of neighbours that changes in
\* single steps: adding one, or taking some away.
THEOREM LinksRefinement == Spec => LinksSpec
<1> USE DEF helloVars, mainVars, envVars
<1>1. Init => Links!Init
  BY DEF Init, Links!Init
<1>2. IInv /\ [Next]_vars => [Links!Next]_(links \cup refill)
  <2> SUFFICES ASSUME IInv, [Next]_vars PROVE [Links!Next]_(links \cup refill)
    OBVIOUS
  <2>1. CASE links' = links /\ refill' = refill
    BY <2>1
  <2>2. CASE ResetLinks
    <3>1. Links!Refresh
      BY <2>2 DEF ResetLinks, Links!Refresh, IInv, LinkedInv
    <3> QED BY <3>1 DEF Links!Next
  <2>3. ASSUME NEW k \in Node, Refill(k) PROVE UNCHANGED (links \cup refill)
    BY <2>3 DEF Refill
  <2>4. CASE AddLink
    BY <2>4 DEF AddLink, Links!Next, Links!Hear, Links!Refresh, IInv, LockInv, TypeOK
  <2> QED
    BY <2>1, <2>2, <2>3, <2>4
    DEF Next, HelloThread, MainThread, Environment, vars, Return, StartRound, EndRound,
        Broadcast, Repeat, Take, LinkExists, Handled, Hear, Record, Arrive, Leave, Tick
<1> QED BY <1>1, <1>2, InvAlways, PTL DEF Spec, LinksSpec, Links!Spec

-----------------------------------------------------------------------------
\* The age of a link is bounded by the time since the last round.
LEMMA StaleNext == IInv /\ IInv' /\ StaleInv /\ [Next]_vars => StaleInv'
<1> SUFFICES ASSUME TypeOK, LockInv, TypeOK', StaleInv, [Next]_vars, helloPc' # "done"
             PROVE  /\ timer' <= Limit'
                    /\ \A k \in (links' \cup refill') \ Pending' : heard'[k] < TTL + Elapsed'
  BY DEF IInv, StaleInv
<1> USE DEF helloVars, mainVars, envVars, Limit, Resting, Elapsed, Pending
<1>t. /\ HalfInterval \in Nat /\ TTL \in Nat /\ TTL > 0 /\ Late \in Nat /\ Horizon \in Nat
      /\ heard \in [Node -> 0 .. Horizon] /\ timer \in Nat
      /\ links \subseteq Node /\ refill \subseteq Node /\ from \in Node
  BY TimeAssumption DEF Unit, Horizon, TypeOK
<1>s. helloPc # "done"
  BY DEF Next, HelloThread, MainThread, Environment, vars, Return, StartRound, ResetLinks,
         Refill, EndRound, Broadcast, Repeat, Take, LinkExists, Handled, Hear, AddLink,
         Record, Arrive, Leave, Tick, TypeOK
<1>a. timer <= Limit /\ \A k \in (links \cup refill) \ Pending : heard[k] < TTL + Elapsed
  BY <1>s DEF StaleInv
<1>1. CASE UNCHANGED <<heard, links, refill, helloPc, timer>> /\ Pending' = Pending
  BY <1>1, <1>a
<1>2. CASE Return \/ StartRound
  BY <1>2, <1>a DEF Return, StartRound
<1>3. CASE ResetLinks
  BY <1>3, <1>a, <1>t DEF ResetLinks, Fresh
<1>4. ASSUME NEW k \in Node, Refill(k)
      PROVE  /\ timer' <= Limit'
             /\ \A n \in (links' \cup refill') \ Pending' : heard'[n] < TTL + Elapsed'
  BY <1>4, <1>a DEF Refill
<1>5. CASE EndRound
  BY <1>5, <1>a, <1>t DEF EndRound
<1>6. CASE Broadcast
  BY <1>6, <1>a, <1>t DEF Broadcast
<1>7. CASE Repeat
  BY <1>7, <1>a, <1>t DEF Repeat
<1>8. CASE AddLink
  BY <1>8, <1>a DEF AddLink
<1>9. CASE Record
  BY <1>9, <1>a, <1>t DEF Record
<1>10. CASE Tick
  BY <1>10, <1>a, <1>t, <1>s DEF Tick
<1> QED
  BY <1>1, <1>2, <1>3, <1>4, <1>5, <1>6, <1>7, <1>8, <1>9, <1>10
  DEF Next, HelloThread, MainThread, Environment, vars, Take, LinkExists, Handled, Hear,
      Arrive, Leave

\* While the hello thread runs, a link ends at most a time to live, an interval
\* and four times the lateness of the threads after its node's last packet.
THEOREM StaleBoundCorrect == Spec => []StaleBound
<1>1. Init => StaleInv
  BY TimeAssumption DEF Init, StaleInv, Limit, Resting, Unit
<1>2. IInv /\ StaleInv => StaleBound
  <2> SUFFICES ASSUME IInv, StaleInv, helloMux = Free, helloPc # "done", NEW k \in links
               PROVE  heard[k] < Horizon
    BY DEF StaleBound
  <2>1. mainPc # "record"
    BY DEF IInv, LockInv, Free
  <2>2. heard[k] < TTL + Elapsed /\ timer <= Limit
    BY <2>1 DEF StaleInv, Pending
  <2>3. helloPc \in {"loop", "rest1", "rest2"}
    BY DEF IInv, LockInv, TypeOK, HelloPc, Free
  <2>4. /\ HalfInterval \in Nat /\ TTL \in Nat /\ Late \in Nat /\ timer \in Nat
        /\ heard[k] \in Nat
    BY TimeAssumption DEF Unit, IInv, TypeOK, Horizon
  <2> QED BY <2>2, <2>3, <2>4 DEF Elapsed, Limit, Resting, Horizon
<1> QED BY <1>1, <1>2, StaleNext, InvAlways, PTL DEF Spec

-----------------------------------------------------------------------------
(* The radiotap walk.                                                      *)

LEMMA MaxIs ==
  ASSUME NEW S \in SUBSET Int, NEW x \in S, \A y \in S : y <= x
  PROVE  Max(S) = x
<1>1. Max(S) \in S /\ \A y \in S : Max(S) >= y
  BY DEF Max
<1>2. PICK m : m = Max(S)
  OBVIOUS
<1>3. m \in Int /\ x \in Int /\ m >= x /\ m <= x
  BY <1>1, <1>2
<1> QED
  BY <1>2, <1>3

LEMMA MinIs ==
  ASSUME NEW S \in SUBSET Nat, S # {}
  PROVE  Min(S) \in S /\ \A y \in S : Min(S) <= y
<1>1. PICK x \in S : \A y \in S : x <= y
  BY LeastNatural
<1> QED
  BY <1>1 DEF Min

LEMMA HeaderIs ==
  ASSUME NEW h \in Header
  PROVE  /\ h # None /\ h.length \in Nat /\ Len(h.words) \in Nat \ {0}
         /\ DOMAIN h.words = 1..Len(h.words)
         /\ \A w \in DOMAIN h.words :
              /\ h.words[w] \subseteq 0..31
              /\ 31 \in h.words[w] <=> w < Len(h.words)
              /\ h.vendors[w].known \in BOOLEAN /\ h.vendors[w].length \in Nat
<1>1. /\ h.length \in Nat /\ h.words \in Seq(SUBSET (0..31)) /\ Len(h.words) > 0
      /\ \A w \in DOMAIN h.words :
           /\ 31 \in h.words[w] <=> w < Len(h.words)
           /\ h.vendors[w].known \in BOOLEAN /\ h.vendors[w].length \in Nat
  BY HeaderAssumption DEF Ext
<1>2. h # None
  BY HeaderAssumption
<1>3. PICK words : words = h.words
  OBVIOUS
<1>4. words \in Seq(SUBSET (0..31)) /\ Len(words) > 0
  BY <1>1, <1>3
<1>5. Len(words) \in Nat \ {0} /\ DOMAIN words = 1..Len(words)
      /\ \A w \in DOMAIN words : words[w] \subseteq 0..31
  <2>1. PICK S : S = SUBSET (0..31)
    OBVIOUS
  <2>2. words \in Seq(S) /\ Len(words) > 0
    BY <1>4, <2>1
  <2>3. Len(words) \in Nat /\ DOMAIN words = 1..Len(words) /\ \A w \in DOMAIN words : words[w] \in S
    BY <2>2
  <2>4. Len(words) \in Nat \ {0}
    BY <2>2, <2>3
  <2>5. \A w \in DOMAIN words : words[w] \subseteq 0..31
    <3>1. \A x \in S : x \subseteq 0..31
      BY <2>1
    <3> QED
      BY <2>3, <3>1
  <2> QED
    BY <2>3, <2>4, <2>5
<1> QED
  BY <1>1, <1>2, <1>3, <1>5

\* The namespace of the words that follow the word o.
NamespaceFrom(h, o) ==
  IF o = 0 \/ 30 \notin h.words[o] THEN "radiotap"
  ELSE IF h.vendors[o].known THEN "vendor" ELSE "unknown"

LEMMA OpenedIs ==
  ASSUME NEW h \in Header, NEW w \in DOMAIN h.words
  PROVE  /\ Opened(h, w) \in 0..w - 1
         /\ Opened(h, w) # 0 => h.words[Opened(h, w)] \cap {29, 30} # {}
         /\ \A v \in 1..w - 1 : h.words[v] \cap {29, 30} # {} => v <= Opened(h, w)
<1>1. w \in Nat \ {0}
  BY HeaderIs
<1> DEFINE S == {0} \cup {v \in 1..w - 1 : h.words[v] \cap {29, 30} # {}}
           T == {t \in 0..w : w - t \in S}
<1>2. Opened(h, w) = Max(S)
  BY DEF Opened, RadiotapNamespace, VendorNamespace
<1>3. S \in SUBSET Int /\ S \subseteq 0..w - 1
  BY <1>1
<1>4. w \in T /\ T \in SUBSET Nat
  BY <1>1
<1>5. PICK t \in T : \A u \in T : t <= u
  BY <1>4, LeastNatural
<1>6. w - t \in S
  OBVIOUS
<1>7. \A y \in S : y <= w - t
  <2> SUFFICES ASSUME NEW y \in S PROVE y <= w - t
    OBVIOUS
  <2>1. w - y \in 0..w /\ w - (w - y) = y /\ t \in 0..w /\ y \in Int
    BY <1>1, <1>3
  <2>2. w - y \in T
    BY <2>1
  <2> QED
    BY <1>1, <1>5, <2>1, <2>2
<1>8. Max(S) = w - t
  <2> HIDE DEF S, T
  <2> QED
    BY <1>3, <1>6, <1>7, MaxIs
<1> QED
  BY <1>1, <1>2, <1>3, <1>6, <1>7, <1>8

LEMMA OpenedNext ==
  ASSUME NEW h \in Header, NEW w \in DOMAIN h.words, w + 1 \in DOMAIN h.words
  PROVE  Opened(h, w + 1) = IF h.words[w] \cap {29, 30} # {} THEN w ELSE Opened(h, w)
<1>1. w \in Nat \ {0} /\ (w + 1) - 1 = w
  BY HeaderIs
<1>2. PICK o : o = Opened(h, w)
  OBVIOUS
<1>3. /\ o \in 0..w - 1 /\ (o # 0 => h.words[o] \cap {29, 30} # {})
      /\ \A v \in 1..w - 1 : h.words[v] \cap {29, 30} # {} => v <= o
  BY <1>2, OpenedIs
<1>4. PICK n : n = Opened(h, w + 1)
  OBVIOUS
<1>5. /\ n \in 0..w /\ (n # 0 => h.words[n] \cap {29, 30} # {})
      /\ \A v \in 1..w : h.words[v] \cap {29, 30} # {} => v <= n
  BY <1>1, <1>4, OpenedIs
<1>6. CASE h.words[w] \cap {29, 30} # {}
  <2>1. w <= n /\ n <= w
    BY <1>1, <1>5, <1>6
  <2> QED
    BY <1>1, <1>4, <1>5, <1>6, <2>1
<1>7. CASE h.words[w] \cap {29, 30} = {}
  <2>1. n # w
    BY <1>1, <1>5, <1>7
  <2>2. n <= o
    BY <1>1, <1>3, <1>5, <2>1
  <2>3. o <= n
    BY <1>1, <1>3, <1>5
  <2> QED
    BY <1>2, <1>3, <1>4, <1>5, <1>7, <2>2, <2>3
<1> QED
  BY <1>6, <1>7

LEMMA NamespaceIs ==
  ASSUME NEW h, NEW w
  PROVE  /\ Namespace(h, w) = NamespaceFrom(h, Opened(h, w))
         /\ Namespace(h, w) \in {"radiotap", "vendor", "unknown"}
BY DEF Namespace, NamespaceFrom, VendorNamespace

-----------------------------------------------------------------------------
\* The walk, of any iterator it over a header h with the fields fd passed.

Iterator ==
  [word : Nat, left : SUBSET (0..31), since : Int, arg : Nat,
   namespace : {"radiotap", "vendor", "unknown"}, isRadiotap : BOOLEAN, next : Nat,
   reset : BOOLEAN, err : {"none", "EINVAL", "ENOENT"}]

PassedField == [word : Nat, bit : 0..31, index : Int, at : Nat, size : Nat]

\* The bit b of the word w has been passed.
Past(it, w, b) == w < it.word \/ (w = it.word /\ b \notin it.left)

Fields(fd) == {<<e.word, e.bit>> : e \in {e \in fd : e.bit < 29}}

AlignmentIn(h, e) ==
  IF e.bit = 30 THEN 2 ELSE Sizes(Namespace(h, e.word))[e.index + 1][1]

EndOf(h, before) == Max({4 + 4 * Len(h.words)} \cup {f.at + f.size : f \in before})

Tiles(h, fd) ==
  \A e \in fd :
    /\ e.at + e.size <= h.length
    /\ (\A p \in Undefined(h) : Before(e, [word |-> p[1], bit |-> p[2]])) =>
         e.at = Aligned(EndOf(h, {f \in fd : Before(f, e)}), AlignmentIn(h, e))

Named(h, fd) ==
  \A e \in fd :
    /\ e \in PassedField
    /\ e.bit < 29 => /\ <<e.word, e.bit>> \in Present(h)
                     /\ e.index = FieldIndex(h, e.word, e.bit)

\* Where the iterator is.
Place(h, it, fd) ==
  /\ it.word \in DOMAIN h.words /\ it.left \subseteq h.words[it.word]
  /\ \A d \in h.words[it.word] \ it.left, l \in it.left : d < l
  /\ 31 \in h.words[it.word] => 31 \in it.left
  /\ \A e \in fd : e.word \in DOMAIN h.words /\ e.bit \in h.words[e.word] /\ Past(it, e.word, e.bit)
  /\ it.since = it.word - 1 - Opened(h, it.word)
  /\ it.reset <=> (h.words[it.word] \ it.left) \cap {29, 30} # {}

\* An undefined field of the vendor's namespace that the word belongs to was met.
GaveUp(h, it) ==
  \E q \in Undefined(h) : Past(it, q[1], q[2]) /\ Opened(h, q[1]) = Opened(h, it.word)

\* What the iterator takes the next field for, and what it has passed.
Naming(h, it, fd) ==
  /\ ~it.reset => it.namespace = IF GaveUp(h, it) THEN "unknown" ELSE Namespace(h, it.word)
  /\ it.reset =>
       it.namespace = IF 30 \notin h.words[it.word] \ it.left THEN "radiotap"
                      ELSE IF h.vendors[it.word].known THEN "vendor" ELSE "unknown"
  /\ \A q \in Undefined(h) : Past(it, q[1], q[2]) => Namespace(h, q[1]) # "radiotap"
  /\ \A p \in Present(h) : Past(it, p[1], p[2]) => (p \in Fields(fd) <=> ~Lost(h, p))

\* Until an undefined field is met, the iterator is where the last field ends.
AtEnd(h, it, fd) ==
  (\A q \in Undefined(h) : ~Past(it, q[1], q[2])) =>
    /\ it.arg \in {4 + 4 * Len(h.words)} \cup {f.at + f.size : f \in fd}
    /\ 4 + 4 * Len(h.words) <= it.arg
    /\ \A f \in fd : f.at + f.size <= it.arg
    /\ it.namespace = "unknown" => it.next = it.arg

Walk(h, it, fd) == Place(h, it, fd) /\ Naming(h, it, fd) /\ AtEnd(h, it, fd)

ReadSoFar(h, it, fd) ==
  /\ h \in Header /\ it \in Iterator /\ Tiles(h, fd) /\ Named(h, fd)
  /\ it.err = "none" => Walk(h, it, fd)
  /\ it.err = "ENOENT" => Fields(fd) = {p \in Present(h) : ~Lost(h, p)}

IndexAt(it, b) == 32 * it.since + b

\* b is the bit the iterator is at.
At(it, b) == b \in it.left /\ \A l \in it.left : b <= l

LEMMA SeqOfFunction ==
  ASSUME NEW S, NEW n \in Nat, NEW f \in [1..n -> S]
  PROVE  f \in Seq(S)
OBVIOUS

LEMMA SizesAre ==
  ASSUME NEW ns \in {"radiotap", "vendor"}
  PROVE  /\ Len(Sizes(ns)) \in Nat
         /\ \A i \in Nat : i < Len(Sizes(ns)) => /\ Sizes(ns)[i + 1][1] \in Nat \ {0}
                                                 /\ Sizes(ns)[i + 1][2] \in Nat
<1> DEFINE Size == (Nat \ {0}) \X Nat
<1>1. RadiotapSizes \in Seq(Size)
  BY DEF RadiotapSizes
<1>2. VendorSizes \in Seq(Size)
  <2>1. PICK S : S = Size
    OBVIOUS
  <2>2. VendorSizes \in [1..53 -> S]
    BY <2>1 DEF VendorSizes
  <2>3. 53 \in Nat
    OBVIOUS
  <2>4. VendorSizes \in Seq(S)
    BY <2>2, <2>3, SeqOfFunction
  <2> HIDE DEF Size
  <2> QED
    BY <2>1, <2>4
<1>3. PICK s : s = Sizes(ns)
  OBVIOUS
<1>4. s \in Seq(Size)
  BY <1>1, <1>2, <1>3 DEF Sizes
<1>5. Len(s) \in Nat /\ \A i \in 1..Len(s) : s[i] \in Size
  <2> HIDE DEF Size
  <2> QED
    BY <1>4
<1>6. \A i \in Nat : i < Len(s) => i + 1 \in 1..Len(s)
  BY <1>5
<1> QED
  BY <1>3, <1>5, <1>6

LEMMA PresentIs ==
  ASSUME NEW h \in Header, NEW p \in Present(h)
  PROVE  /\ p = <<p[1], p[2]>> /\ p[1] \in DOMAIN h.words /\ p[1] \in Nat /\ p[2] \in 0..28
         /\ p[2] \in h.words[p[1]] /\ Namespace(h, p[1]) \in {"radiotap", "vendor"}
<1>1. /\ p \in (DOMAIN h.words) \X (0..28)
      /\ p[2] \in h.words[p[1]] /\ Namespace(h, p[1]) # "unknown"
  BY DEF Present
<1>2. DOMAIN h.words \subseteq Nat
  BY HeaderIs
<1> QED
  BY <1>1, <1>2, NamespaceIs

LEMMA UndefinedIs ==
  ASSUME NEW h \in Header, NEW q \in Undefined(h)
  PROVE  q \in Present(h)
BY DEF Undefined

LEMMA BitIs ==
  ASSUME NEW it \in Iterator, it.left # {}
  PROVE  At(it, Min(it.left)) /\ Min(it.left) \in 0..31
<1>1. it.left \in SUBSET (0..31)
  BY DEF Iterator
<1>2. it.left \in SUBSET Nat
  BY <1>1
<1> QED
  BY <1>1, <1>2, MinIs DEF At

\* What is past is before the bit the iterator is at.
LEMMA PastBefore ==
  ASSUME NEW h \in Header, NEW it \in Iterator, NEW fd, Place(h, it, fd), NEW b, At(it, b),
         NEW v \in DOMAIN h.words, NEW c \in h.words[v]
  PROVE  /\ b \in 0..31 /\ it.word \in Nat /\ v \in Nat /\ c \in 0..31
         /\ Past(it, v, c) <=> v < it.word \/ (v = it.word /\ c < b)
<1>1. /\ it.word \in Nat /\ it.left \subseteq 0..31
  BY DEF Iterator
<1>2. v \in Nat /\ h.words[v] \subseteq 0..31
  BY HeaderIs
<1>3. b \in 0..31 /\ c \in 0..31
  BY <1>1, <1>2 DEF At
<1>4. ASSUME v = it.word, c \notin it.left PROVE c < b
  BY <1>4 DEF Place, At
<1>5. ASSUME v = it.word, c < b PROVE c \notin it.left
  BY <1>1, <1>3, <1>5 DEF At
<1> QED
  BY <1>1, <1>2, <1>3, <1>4, <1>5 DEF Past

LEMMA TileAdded ==
  ASSUME NEW h \in Header, NEW it \in Iterator, NEW fd, Named(h, fd), Tiles(h, fd),
         Place(h, it, fd), AtEnd(h, it, fd), NEW b, At(it, b),
         NEW e \in PassedField, e.word = it.word, e.bit = b, e.at + e.size <= h.length,
         (\A q \in Undefined(h) : ~Past(it, q[1], q[2])) => e.at = Aligned(it.arg, AlignmentIn(h, e))
  PROVE  Tiles(h, fd \cup {e})
<1>1. ASSUME NEW f \in fd PROVE Before(f, e) /\ ~Before(e, f)
  <2>1. /\ f.word \in DOMAIN h.words /\ f.bit \in h.words[f.word] /\ Past(it, f.word, f.bit)
    BY DEF Place
  <2>2. /\ b \in 0..31 /\ it.word \in Nat /\ f.word \in Nat /\ f.bit \in 0..31
        /\ f.word < it.word \/ (f.word = it.word /\ f.bit < b)
    BY <2>1, PastBefore
  <2> QED
    BY <2>2 DEF Before
<1>2. e.word \in Nat /\ e.bit \in 0..31
  BY DEF PassedField
<1>3. ~Before(e, e)
  BY <1>2 DEF Before
<1>4. \A f \in fd : {g \in fd \cup {e} : Before(g, f)} = {g \in fd : Before(g, f)}
  BY <1>1
<1>5. {g \in fd \cup {e} : Before(g, e)} = fd
  BY <1>1, <1>3
<1>6. ASSUME \A p \in Undefined(h) : Before(e, [word |-> p[1], bit |-> p[2]])
      PROVE  e.at = Aligned(EndOf(h, fd), AlignmentIn(h, e))
  <2>1. ASSUME NEW q \in Undefined(h) PROVE ~Past(it, q[1], q[2])
    <3>1. q[1] \in DOMAIN h.words /\ q[2] \in h.words[q[1]]
      BY PresentIs, UndefinedIs
    <3>2. Before(e, [word |-> q[1], bit |-> q[2]])
      BY <1>6
    <3>3. e.word < q[1] \/ (e.word = q[1] /\ e.bit < q[2])
      BY <3>2 DEF Before
    <3>4. /\ b \in 0..31 /\ it.word \in Nat /\ q[1] \in Nat /\ q[2] \in 0..31
          /\ Past(it, q[1], q[2]) <=> q[1] < it.word \/ (q[1] = it.word /\ q[2] < b)
      BY <3>1, PastBefore
    <3> QED
      BY <3>3, <3>4
  <2> DEFINE S == {4 + 4 * Len(h.words)} \cup {f.at + f.size : f \in fd}
  <2>2. it.arg \in S /\ 4 + 4 * Len(h.words) <= it.arg /\ \A f \in fd : f.at + f.size <= it.arg
    BY <2>1 DEF AtEnd
  <2>3. \A y \in S : y <= it.arg
    BY <2>2
  <2>4. S \in SUBSET Int
    <3>1. \A f \in fd : f.at \in Nat /\ f.size \in Nat
      BY DEF Named, PassedField
    <3> QED
      BY <3>1, HeaderIs
  <2>5. EndOf(h, fd) = it.arg
    <3>1. EndOf(h, fd) = Max(S)
      BY DEF EndOf
    <3> HIDE DEF S
    <3> QED
      BY <2>2, <2>3, <2>4, <3>1, MaxIs
  <2> QED
    BY <2>1, <2>5
<1>7. ASSUME NEW f \in fd
      PROVE  /\ f.at + f.size <= h.length
             /\ (\A p \in Undefined(h) : Before(f, [word |-> p[1], bit |-> p[2]])) =>
                  f.at = Aligned(EndOf(h, {g \in fd \cup {e} : Before(g, f)}), AlignmentIn(h, f))
  <2>1. {g \in fd \cup {e} : Before(g, f)} = {g \in fd : Before(g, f)}
    BY <1>4
  <2> QED
    BY <2>1 DEF Tiles
<1>8. /\ e.at + e.size <= h.length
      /\ (\A p \in Undefined(h) : Before(e, [word |-> p[1], bit |-> p[2]])) =>
           e.at = Aligned(EndOf(h, {g \in fd \cup {e} : Before(g, e)}), AlignmentIn(h, e))
  BY <1>5, <1>6
<1> QED
  BY <1>7, <1>8 DEF Tiles

\* One bit further, with the fields gd passed.
Moved(it, jt, b) ==
  /\ jt \in Iterator /\ jt.word = it.word /\ jt.left = it.left \ {b} /\ jt.since = it.since
  /\ jt.reset <=> it.reset \/ b \in {29, 30}

LEMMA PastMoved ==
  ASSUME NEW it, NEW jt, NEW b, Moved(it, jt, b), NEW v, NEW c
  PROVE  Past(jt, v, c) <=> Past(it, v, c) \/ (v = it.word /\ c = b)
BY DEF Moved, Past

LEMMA PlaceMoved ==
  ASSUME NEW h \in Header, NEW it \in Iterator, NEW fd, Place(h, it, fd), NEW b, At(it, b), b # 31,
         NEW jt, Moved(it, jt, b), NEW gd,
         \A e \in gd : e \in fd \/ (e.word = it.word /\ e.bit = b)
  PROVE  Place(h, jt, gd)
<1>1. b \in h.words[it.word] /\ it.word \in DOMAIN h.words
  BY DEF Place, At
<1>2. \A e \in gd : /\ e.word \in DOMAIN h.words /\ e.bit \in h.words[e.word]
                    /\ Past(jt, e.word, e.bit)
  BY <1>1, PastMoved DEF Place
<1>3. it.left \subseteq 0..31
  BY DEF Iterator
<1>4. \A l \in it.left \ {b} : b < l
  BY <1>3 DEF At
<1>5. \A d \in h.words[it.word] \ jt.left, l \in jt.left : d < l
  BY <1>4 DEF Place, Moved
<1>6. jt.reset <=> (h.words[it.word] \ jt.left) \cap {29, 30} # {}
  <2>1. (h.words[it.word] \ jt.left) \cap {29, 30}
          = ((h.words[it.word] \ it.left) \cap {29, 30}) \cup ({b} \cap {29, 30})
    BY <1>1 DEF Moved
  <2> QED
    BY <2>1 DEF Moved, Place
<1> QED
  BY <1>1, <1>2, <1>5, <1>6 DEF Place, Moved

LEMMA IndexIs ==
  ASSUME NEW h \in Header, NEW it \in Iterator, NEW fd, Place(h, it, fd), NEW b \in 0..28
  PROVE  IndexAt(it, b) = FieldIndex(h, it.word, b) /\ FieldIndex(h, it.word, b) \in Nat
<1>1. it.word \in DOMAIN h.words /\ it.word \in Nat
  BY DEF Place, Iterator
<1>2. PICK o : o = Opened(h, it.word)
  OBVIOUS
<1>3. o \in 0..it.word - 1
  BY <1>1, <1>2, OpenedIs
<1>4. it.since = it.word - 1 - o
  BY <1>2 DEF Place
<1>5. FieldIndex(h, it.word, b) = 32 * (it.word - 1 - o) + b
  BY <1>2 DEF FieldIndex
<1>6. it.word - 1 - o \in Nat
  BY <1>1, <1>3
<1> QED
  BY <1>4, <1>5, <1>6 DEF IndexAt

LEMMA BitBelow ==
  ASSUME NEW b \in 0..31, b < 29
  PROVE  b \in 0..28
  OBVIOUS

LEMMA FieldBit ==
  ASSUME NEW b \in 0..28
  PROVE  b \notin {29, 30} /\ b # 31 /\ b < 29
OBVIOUS

\* What the iterator takes a field for, at the field's bit.
LEMMA AtField ==
  ASSUME NEW h \in Header, NEW it \in Iterator, NEW fd, Place(h, it, fd), Naming(h, it, fd),
         NEW b \in 0..28, At(it, b)
  PROVE  /\ it.word \in DOMAIN h.words /\ it.word \in Nat /\ b \in 0..28 /\ b \in h.words[it.word]
         /\ ~it.reset
         /\ it.namespace = IF GaveUp(h, it) THEN "unknown" ELSE Namespace(h, it.word)
         /\ <<it.word, b>> \in Present(h) <=> Namespace(h, it.word) # "unknown"
         /\ <<it.word, b>> \in Undefined(h) <=>
              /\ Namespace(h, it.word) # "unknown"
              /\ FieldIndex(h, it.word, b) >= Len(Sizes(Namespace(h, it.word)))
         /\ ~Past(it, it.word, b)
         /\ \A p \in Present(h) :
              /\ Past(it, p[1], p[2]) <=> p[1] < it.word \/ (p[1] = it.word /\ p[2] < b)
              /\ p[1] \in Nat /\ p[2] \in 0..28 /\ p = <<p[1], p[2]>>
<1>1. it.word \in DOMAIN h.words /\ it.word \in Nat /\ b \in 0..28 /\ b \in h.words[it.word]
  <2>1. it.word \in Nat /\ it.left \subseteq 0..31
    BY DEF Iterator
  <2>2. it.word \in DOMAIN h.words /\ b \in h.words[it.word] /\ b \in 0..31
    BY <2>1 DEF Place, At
  <2> QED
    BY <2>1, <2>2
<1>2. ~it.reset
  <2>1. \A d \in h.words[it.word] \ it.left : d < b
    BY DEF Place, At
  <2>2. (h.words[it.word] \ it.left) \cap {29, 30} = {}
    BY <1>1, <2>1
  <2> QED
    BY <2>2 DEF Place
<1>3. it.namespace = IF GaveUp(h, it) THEN "unknown" ELSE Namespace(h, it.word)
  BY <1>2 DEF Naming
<1>4. <<it.word, b>> \in Present(h) <=> Namespace(h, it.word) # "unknown"
  BY <1>1 DEF Present
<1>5. <<it.word, b>> \in Undefined(h) <=>
        /\ Namespace(h, it.word) # "unknown"
        /\ FieldIndex(h, it.word, b) >= Len(Sizes(Namespace(h, it.word)))
  BY <1>4 DEF Undefined
<1>6. ~Past(it, it.word, b)
  BY <1>1 DEF Past, At
<1>7. ASSUME NEW p \in Present(h)
      PROVE  /\ Past(it, p[1], p[2]) <=> p[1] < it.word \/ (p[1] = it.word /\ p[2] < b)
             /\ p[1] \in Nat /\ p[2] \in 0..28 /\ p = <<p[1], p[2]>>
  BY PresentIs, PastBefore
<1> QED
  BY <1>1, <1>2, <1>3, <1>4, <1>5, <1>6, <1>7

\* One field further nothing else is past.
LEMMA PastField ==
  ASSUME NEW h \in Header, NEW it, NEW jt, NEW b, Moved(it, jt, b), NEW p \in Present(h)
  PROVE  Past(jt, p[1], p[2]) <=> Past(it, p[1], p[2]) \/ p = <<it.word, b>>
BY PresentIs, PastMoved

\* What is not after the bit the iterator is at is past, or there.
LEMMA PastOrAt ==
  ASSUME NEW h \in Header, NEW it \in Iterator, NEW fd, Place(h, it, fd), Naming(h, it, fd),
         NEW b \in 0..28, At(it, b), NEW p \in Present(h)
  PROVE  (p[1] < it.word \/ (p[1] = it.word /\ p[2] <= b)) <=>
           (Past(it, p[1], p[2]) \/ p = <<it.word, b>>)
<1>1. /\ Past(it, p[1], p[2]) <=> p[1] < it.word \/ (p[1] = it.word /\ p[2] < b)
      /\ p[1] \in Nat /\ p[2] \in 0..28 /\ p = <<p[1], p[2]>>
  BY AtField
<1>2. it.word \in Nat
  BY AtField
<1>3. p = <<it.word, b>> <=> p[1] = it.word /\ p[2] = b
  BY <1>1
<1>4. p[2] <= b <=> p[2] < b \/ p[2] = b
  BY <1>1
<1> QED
  BY <1>1, <1>3, <1>4

LEMMA FieldsAre ==
  ASSUME NEW h \in Header, NEW it, NEW fd, Place(h, it, fd), Named(h, fd), NEW p \in Fields(fd)
  PROVE  p \in Present(h) /\ Past(it, p[1], p[2])
<1>1. PICK e \in fd : e.bit < 29 /\ p = <<e.word, e.bit>>
  BY DEF Fields
<1> QED
  BY <1>1 DEF Place, Named

LEMMA FieldsAdd ==
  ASSUME NEW fd, NEW e, e.bit < 29
  PROVE  Fields(fd \cup {e}) = Fields(fd) \cup {<<e.word, e.bit>>}
  BY DEF Fields

LEMMA FieldWalk ==
  ASSUME NEW h \in Header, NEW it \in Iterator, NEW fd, Walk(h, it, fd), Named(h, fd),
         NEW b \in 0..28, At(it, b), it.namespace # "unknown",
         FieldIndex(h, it.word, b) < Len(Sizes(it.namespace)),
         NEW e \in PassedField, e.word = it.word, e.bit = b, it.arg <= e.at,
         NEW jt, Moved(it, jt, b), jt.namespace = it.namespace, jt.arg = e.at + e.size
  PROVE  Walk(h, jt, fd \cup {e})
<1> DEFINE p0 == <<it.word, b>>
           gd == fd \cup {e}
<1> USE DEF Walk
<1>1. /\ it.word \in DOMAIN h.words /\ it.word \in Nat /\ b \in 0..28 /\ b \in h.words[it.word]
      /\ it.namespace = Namespace(h, it.word) /\ ~GaveUp(h, it)
      /\ p0 \in Present(h) /\ p0 \notin Undefined(h)
  <2>1. it.namespace = IF GaveUp(h, it) THEN "unknown" ELSE Namespace(h, it.word)
    BY AtField
  <2>2. FieldIndex(h, it.word, b) \in Nat
    BY IndexIs
  <2>3. it.namespace = Namespace(h, it.word) /\ ~GaveUp(h, it)
    BY <2>1
  <2>4. Len(Sizes(it.namespace)) \in Nat
    BY <2>3, NamespaceIs, SizesAre
  <2>5. it.word \in DOMAIN h.words /\ it.word \in Nat /\ b \in h.words[it.word]
    BY AtField
  <2>6. p0 \in Present(h)
    BY <2>3, AtField
  <2>7. p0 \in Undefined(h) => FieldIndex(h, it.word, b) >= Len(Sizes(it.namespace))
    BY <2>3, AtField
  <2> QED
    BY <2>2, <2>3, <2>4, <2>5, <2>6, <2>7
<1>2. Place(h, jt, gd)
  <2>1. \A f \in gd : f \in fd \/ (f.word = it.word /\ f.bit = b)
    OBVIOUS
  <2>2. b # 31
    BY FieldBit
  <2> HIDE DEF gd
  <2> QED
    BY <2>1, <2>2, PlaceMoved
<1>3. \A q \in Undefined(h) : Past(jt, q[1], q[2]) <=> Past(it, q[1], q[2])
  BY <1>1, PastField, UndefinedIs
<1>4. ~jt.reset
  <2>1. ~it.reset
    BY AtField
  <2>2. b \notin {29, 30}
    BY FieldBit
  <2> QED
    BY <2>1, <2>2 DEF Moved
<1>5. jt.namespace = Namespace(h, jt.word) /\ ~GaveUp(h, jt)
  BY <1>1, <1>3 DEF GaveUp, Moved
<1>6. \A q \in Undefined(h) : Past(jt, q[1], q[2]) => Namespace(h, q[1]) # "radiotap"
  BY <1>3 DEF Naming
<1>7. Fields(gd) = Fields(fd) \cup {p0}
  <2>1. b < 29 /\ e.bit = b
    BY FieldBit
  <2> QED
    BY <2>1, FieldsAdd
<1>8. ~Lost(h, p0)
  <2> SUFFICES ASSUME NEW q \in Undefined(h),
                      q[1] < it.word \/ (q[1] = it.word /\ q[2] <= b),
                      Namespace(h, q[1]) = "radiotap" \/ Opened(h, q[1]) = Opened(h, it.word)
               PROVE  FALSE
    BY DEF Lost
  <2>1. Past(it, q[1], q[2])
    BY <1>1, UndefinedIs, PastOrAt
  <2> QED
    BY <1>1, <2>1 DEF Naming, GaveUp
<1>9. ASSUME NEW p \in Present(h), Past(jt, p[1], p[2]) PROVE p \in Fields(gd) <=> ~Lost(h, p)
  <2>1. CASE p = p0
    BY <1>7, <1>8, <2>1
  <2>2. CASE p # p0
    <3>1. Past(it, p[1], p[2])
      BY <1>9, <2>2, PastField
    <3>2. p \in Fields(fd) <=> ~Lost(h, p)
      BY <3>1 DEF Naming
    <3> QED
      BY <1>7, <2>2, <3>2
  <2> QED
    BY <2>1, <2>2
<1>10. AtEnd(h, jt, gd)
  <2> SUFFICES ASSUME \A q \in Undefined(h) : ~Past(jt, q[1], q[2])
               PROVE  /\ jt.arg \in {4 + 4 * Len(h.words)} \cup {f.at + f.size : f \in gd}
                      /\ 4 + 4 * Len(h.words) <= jt.arg
                      /\ \A f \in gd : f.at + f.size <= jt.arg
                      /\ jt.namespace = "unknown" => jt.next = jt.arg
    BY DEF AtEnd
  <2>1. /\ 4 + 4 * Len(h.words) <= it.arg
        /\ \A f \in fd : f.at + f.size <= it.arg
    BY <1>3 DEF AtEnd
  <2>2. it.arg \in Nat /\ e.at \in Nat /\ e.size \in Nat /\ Len(h.words) \in Nat
    BY HeaderIs DEF Iterator, PassedField
  <2>3. \A f \in fd : f.at \in Nat /\ f.size \in Nat
    BY DEF Named, PassedField
  <2> QED
    BY <2>1, <2>2, <2>3
<1> QED
  BY <1>2, <1>4, <1>5, <1>6, <1>9, <1>10 DEF Naming

\* A field that is skipped is lost, or its namespace is unknown.
LEMMA SkipWalk ==
  ASSUME NEW h \in Header, NEW it \in Iterator, NEW fd, Walk(h, it, fd), Named(h, fd),
         NEW b \in 0..28, At(it, b),
         \/ it.namespace = "unknown"
         \/ it.namespace = "vendor" /\ FieldIndex(h, it.word, b) >= Len(Sizes("vendor")),
         NEW jt, Moved(it, jt, b), jt.namespace = "unknown", jt.arg = it.next, jt.next = it.next
  PROVE  Walk(h, jt, fd)
<1> DEFINE p0 == <<it.word, b>>
<1> USE DEF Walk
<1>1. it.namespace = IF GaveUp(h, it) THEN "unknown" ELSE Namespace(h, it.word)
  BY AtField
<1>2. it.namespace = "vendor" => p0 \in Undefined(h) /\ Namespace(h, it.word) = "vendor"
  <2> SUFFICES ASSUME it.namespace = "vendor" PROVE p0 \in Undefined(h) /\ Namespace(h, it.word) = "vendor"
    OBVIOUS
  <2>1. Namespace(h, it.word) = "vendor"
    BY <1>1
  <2> QED
    BY <2>1, AtField
<1>3. \/ GaveUp(h, it)
      \/ Namespace(h, it.word) = "unknown"
      \/ p0 \in Undefined(h) /\ Namespace(h, it.word) = "vendor"
  BY <1>1, <1>2
<1>4. Place(h, jt, fd)
  <2>1. \A f \in fd : f \in fd \/ (f.word = it.word /\ f.bit = b)
    OBVIOUS
  <2>2. b # 31
    BY FieldBit
  <2> QED
    BY <2>1, <2>2, PlaceMoved
<1>5. ~jt.reset
  <2>1. ~it.reset
    BY AtField
  <2>2. b \notin {29, 30}
    BY FieldBit
  <2> QED
    BY <2>1, <2>2 DEF Moved
<1>6. jt.word = it.word
  BY DEF Moved
<1>7. \A q \in Undefined(h) : q \in Present(h)
  BY UndefinedIs
<1>8. \A p \in Present(h) : Past(jt, p[1], p[2]) <=> Past(it, p[1], p[2]) \/ p = p0
  BY PastField
<1>9. GaveUp(h, jt) \/ Namespace(h, jt.word) = "unknown"
  <2>1. CASE GaveUp(h, it)
    <3>1. PICK q \in Undefined(h) : Past(it, q[1], q[2]) /\ Opened(h, q[1]) = Opened(h, it.word)
      BY <2>1 DEF GaveUp
    <3>2. Past(jt, q[1], q[2])
      BY <1>7, <1>8, <3>1
    <3> QED
      BY <1>6, <3>1, <3>2 DEF GaveUp
  <2>2. CASE Namespace(h, it.word) = "unknown"
    BY <1>6, <2>2
  <2>3. CASE p0 \in Undefined(h)
    <3>1. Past(jt, p0[1], p0[2])
      BY <1>7, <1>8, <2>3
    <3>2. Opened(h, p0[1]) = Opened(h, jt.word)
      BY <1>6
    <3> QED
      BY <2>3, <3>1, <3>2 DEF GaveUp
  <2> QED
    BY <1>3, <2>1, <2>2, <2>3
<1>10. ASSUME NEW q \in Undefined(h), Opened(h, q[1]) = Opened(h, it.word)
       PROVE  Namespace(h, q[1]) = Namespace(h, it.word)
  BY <1>10, NamespaceIs
<1>11. ASSUME NEW q \in Undefined(h), Past(jt, q[1], q[2]) PROVE Namespace(h, q[1]) # "radiotap"
  <2>1. CASE Past(it, q[1], q[2])
    BY <2>1 DEF Naming
  <2>2. CASE q = p0
    <3>1. q[1] = it.word /\ Namespace(h, it.word) # "unknown"
      BY <2>2, AtField
    <3>2. CASE GaveUp(h, it)
      <4>1. PICK r \in Undefined(h) : Past(it, r[1], r[2]) /\ Opened(h, r[1]) = Opened(h, it.word)
        BY <3>2 DEF GaveUp
      <4>2. Namespace(h, r[1]) # "radiotap" /\ Namespace(h, r[1]) = Namespace(h, it.word)
        BY <1>10, <4>1 DEF Naming
      <4> QED
        BY <3>1, <4>2
    <3> QED
      BY <1>3, <3>1, <3>2
  <2> QED
    BY <1>7, <1>8, <1>11, <2>1, <2>2
<1>12. ASSUME p0 \in Present(h) PROVE p0 \notin Fields(fd) /\ Lost(h, p0)
  <2>1. ~Past(it, it.word, b)
    BY AtField
  <2>2. p0 \notin Fields(fd)
    BY <2>1, FieldsAre
  <2>3. Namespace(h, it.word) # "unknown"
    BY <1>12, AtField
  <2>4. PICK q \in Undefined(h) :
          (Past(it, q[1], q[2]) \/ q = p0) /\ Opened(h, q[1]) = Opened(h, it.word)
    BY <1>3, <2>3 DEF GaveUp
  <2>5. q[1] < it.word \/ (q[1] = it.word /\ q[2] <= b)
    BY <1>7, <2>4, PastOrAt
  <2> QED
    BY <2>2, <2>4, <2>5 DEF Lost
<1>13. ASSUME NEW p \in Present(h), Past(jt, p[1], p[2]) PROVE p \in Fields(fd) <=> ~Lost(h, p)
  <2>1. CASE Past(it, p[1], p[2])
    BY <2>1 DEF Naming
  <2>2. CASE p = p0
    BY <1>12, <2>2
  <2> QED
    BY <1>8, <1>13, <2>1, <2>2
<1>14. AtEnd(h, jt, fd)
  <2> SUFFICES ASSUME \A q \in Undefined(h) : ~Past(jt, q[1], q[2])
               PROVE  /\ jt.arg \in {4 + 4 * Len(h.words)} \cup {f.at + f.size : f \in fd}
                      /\ 4 + 4 * Len(h.words) <= jt.arg
                      /\ \A f \in fd : f.at + f.size <= jt.arg
                      /\ jt.namespace = "unknown" => jt.next = jt.arg
    BY DEF AtEnd
  <2>1. \A q \in Undefined(h) : ~Past(it, q[1], q[2]) /\ q # p0
    BY <1>7, <1>8
  <2>2. it.namespace = "unknown"
    BY <1>2, <2>1
  <2>3. /\ it.arg \in {4 + 4 * Len(h.words)} \cup {f.at + f.size : f \in fd}
        /\ 4 + 4 * Len(h.words) <= it.arg
        /\ \A f \in fd : f.at + f.size <= it.arg
        /\ it.next = it.arg
    BY <2>1, <2>2 DEF AtEnd
  <2> QED
    BY <2>3
<1> QED
  BY <1>4, <1>5, <1>9, <1>11, <1>13, <1>14 DEF Naming

\* When the walk ends well, every field that is left is lost.
LEMMA WalkEnds ==
  ASSUME NEW h \in Header, NEW it \in Iterator, NEW fd, Walk(h, it, fd), Named(h, fd),
         \/ it.left = {}
         \/ \E b \in 0..28 : /\ At(it, b) /\ it.namespace = "radiotap"
                             /\ FieldIndex(h, it.word, b) >= Len(Sizes("radiotap"))
  PROVE  Fields(fd) = {p \in Present(h) : ~Lost(h, p)}
<1> USE DEF Walk
<1>1. ASSUME NEW p \in Present(h), ~Past(it, p[1], p[2]) PROVE Lost(h, p)
  <2>1. CASE it.left = {}
    <3>1. it.word \in DOMAIN h.words /\ 31 \notin h.words[it.word]
      BY <2>1 DEF Place
    <3>2. ~(it.word < Len(h.words)) /\ DOMAIN h.words = 1..Len(h.words) /\ Len(h.words) \in Nat
      BY <3>1, HeaderIs
    <3>3. p[1] \in DOMAIN h.words
      BY PresentIs
    <3>4. p[1] < it.word \/ p[1] = it.word
      BY <3>1, <3>2, <3>3
    <3> QED
      BY <1>1, <2>1, <3>4 DEF Past
  <2>2. ASSUME NEW b \in 0..28, At(it, b), it.namespace = "radiotap",
               FieldIndex(h, it.word, b) >= Len(Sizes("radiotap"))
        PROVE  Lost(h, p)
    <3>1. it.namespace = IF GaveUp(h, it) THEN "unknown" ELSE Namespace(h, it.word)
      BY <2>2, AtField
    <3>2. Namespace(h, it.word) = "radiotap"
      BY <2>2, <3>1
    <3>3. <<it.word, b>> \in Undefined(h)
      BY <2>2, <3>2, AtField
    <3>4. /\ ~(p[1] < it.word \/ (p[1] = it.word /\ p[2] < b))
          /\ p[1] \in Nat /\ p[2] \in 0..28 /\ it.word \in Nat
      BY <1>1, <2>2, AtField
    <3>5. it.word < p[1] \/ (it.word = p[1] /\ b <= p[2])
      <4>1. PICK v \in Nat, c \in 0..28, w \in Nat : v = p[1] /\ c = p[2] /\ w = it.word
        BY <3>4
      <4>2. ~(v < w \/ (v = w /\ c < b))
        BY <3>4, <4>1
      <4>3. w < v \/ (w = v /\ b <= c)
        BY <4>2
      <4> QED
        BY <4>1, <4>3
    <3> QED
      BY <3>2, <3>3, <3>5 DEF Lost
  <2> QED
    BY <2>1, <2>2
<1>2. ASSUME NEW p \in Fields(fd) PROVE p \in Present(h) /\ ~Lost(h, p)
  BY <1>2, FieldsAre DEF Naming
<1>3. ASSUME NEW p \in Present(h), ~Lost(h, p) PROVE p \in Fields(fd)
  BY <1>1, <1>3 DEF Naming
<1> QED
  BY <1>2, <1>3

\* A bit that opens a namespace takes no field with it.
LEMMA OpenWalk ==
  ASSUME NEW h \in Header, NEW it \in Iterator, NEW fd, Walk(h, it, fd), Named(h, fd),
         NEW b \in {29, 30}, At(it, b), NEW gd, fd \subseteq gd,
         \A e \in gd : e \in fd \/ (e \in PassedField /\ e.word = it.word /\ e.bit = b),
         NEW jt, Moved(it, jt, b),
         jt.namespace = IF b = 29 THEN "radiotap"
                        ELSE IF h.vendors[it.word].known THEN "vendor" ELSE "unknown",
         AtEnd(h, it, fd) => AtEnd(h, jt, gd)
  PROVE  Walk(h, jt, gd)
<1> USE DEF Walk
<1>1. it.word \in DOMAIN h.words /\ b \in h.words[it.word]
  BY DEF Place, At
<1>2. jt.word = it.word /\ jt.left = it.left \ {b} /\ jt.reset
  BY DEF Moved
<1>3. Place(h, jt, gd)
  <2>1. b # 31
    OBVIOUS
  <2> QED
    BY <2>1, PlaceMoved
<1>4. \A p \in Present(h) : Past(jt, p[1], p[2]) <=> Past(it, p[1], p[2])
  <2> SUFFICES ASSUME NEW p \in Present(h) PROVE Past(jt, p[1], p[2]) <=> Past(it, p[1], p[2])
    OBVIOUS
  <2>1. p[2] # b
    BY PresentIs
  <2> QED
    BY <2>1, PastMoved
<1>5. Fields(gd) = Fields(fd)
  BY DEF Fields
<1>6. \A q \in Undefined(h) : Past(jt, q[1], q[2]) => Namespace(h, q[1]) # "radiotap"
  BY <1>4, UndefinedIs DEF Naming
<1>7. \A p \in Present(h) : Past(jt, p[1], p[2]) => (p \in Fields(gd) <=> ~Lost(h, p))
  BY <1>4, <1>5 DEF Naming
<1>8. 30 \notin h.words[it.word] \ jt.left <=> b = 29
  <2>1. CASE b = 30
    BY <1>1, <1>2, <2>1
  <2>2. CASE b = 29
    <3>1. \A d \in h.words[it.word] \ it.left : d < 29
      BY <2>2 DEF Place, At
    <3>2. 30 \notin h.words[it.word] \ it.left
      BY <3>1
    <3> QED
      BY <1>2, <2>2, <3>2
  <2> QED
    BY <2>1, <2>2
<1>9. jt.namespace = IF 30 \notin h.words[jt.word] \ jt.left THEN "radiotap"
                     ELSE IF h.vendors[jt.word].known THEN "vendor" ELSE "unknown"
  BY <1>2, <1>8
<1> QED
  BY <1>2, <1>3, <1>6, <1>7, <1>9 DEF Naming

\* The next word of present bits.
LEMMA ExtendWalk ==
  ASSUME NEW h \in Header, NEW it \in Iterator, NEW fd, Walk(h, it, fd), Named(h, fd), At(it, 31),
         NEW jt \in Iterator, jt.word = it.word + 1, jt.left = h.words[it.word + 1],
         jt.since = IF it.reset THEN 0 ELSE it.since + 1, ~jt.reset,
         jt.namespace = it.namespace, jt.arg = it.arg, jt.next = it.next
  PROVE  Walk(h, jt, fd)
<1> USE DEF Walk
<1>1. it.word \in DOMAIN h.words /\ it.word \in Nat /\ it.left = {31} /\ 31 \in h.words[it.word]
  <2>1. it.left \subseteq 0..31 /\ it.word \in Nat
    BY DEF Iterator
  <2>2. 31 \in it.left /\ \A l \in it.left : 31 <= l
    BY DEF At
  <2>3. it.left = {31}
    BY <2>1, <2>2
  <2> QED
    BY <2>1, <2>3 DEF Place
<1>2. it.word + 1 \in DOMAIN h.words
  <2>1. it.word < Len(h.words) /\ DOMAIN h.words = 1..Len(h.words) /\ Len(h.words) \in Nat
    BY <1>1, HeaderIs
  <2> QED
    BY <1>1, <2>1
<1>3. h.words[it.word] \subseteq 0..31
  BY <1>1, HeaderIs
<1>4. it.reset <=> h.words[it.word] \cap {29, 30} # {}
  <2>1. (h.words[it.word] \ it.left) \cap {29, 30} = h.words[it.word] \cap {29, 30}
    BY <1>1
  <2> QED
    BY <2>1 DEF Place
<1>5. Opened(h, it.word + 1) = IF it.reset THEN it.word ELSE Opened(h, it.word)
  BY <1>1, <1>2, <1>4, OpenedNext
<1>6. ASSUME NEW v \in DOMAIN h.words, NEW c \in h.words[v], c # 31
      PROVE  Past(jt, v, c) <=> Past(it, v, c)
  <2>1. v \in Nat
    BY HeaderIs
  <2>2. v = it.word + 1 => c \in jt.left
    OBVIOUS
  <2>3. v < it.word + 1 <=> v < it.word \/ v = it.word
    BY <1>1, <2>1
  <2> QED
    BY <1>1, <1>6, <2>2, <2>3 DEF Past
<1>7. ASSUME NEW v \in DOMAIN h.words, NEW c, Past(it, v, c) PROVE Past(jt, v, c)
  <2>1. v \in Nat
    BY HeaderIs
  <2> QED
    BY <1>1, <1>7, <2>1 DEF Past
<1>8. Place(h, jt, fd)
  <2>1. jt.since = (it.word + 1) - 1 - Opened(h, it.word + 1)
    <3>1. PICK o : o = Opened(h, it.word)
      OBVIOUS
    <3>2. o \in 0..it.word - 1
      BY <1>1, <3>1, OpenedIs
    <3>3. it.since = it.word - 1 - o
      BY <3>1 DEF Place
    <3>4. CASE it.reset
      BY <1>1, <1>5, <3>4
    <3>5. CASE ~it.reset
      BY <1>1, <1>5, <3>1, <3>2, <3>3, <3>5
    <3> QED
      BY <3>4, <3>5
  <2>2. h.words[jt.word] \ jt.left = {}
    OBVIOUS
  <2>3. \A e \in fd : /\ e.word \in DOMAIN h.words /\ e.bit \in h.words[e.word]
                      /\ Past(jt, e.word, e.bit)
    BY <1>7 DEF Place
  <2> QED
    BY <1>2, <2>1, <2>2, <2>3 DEF Place
<1>9. \A p \in Present(h) : Past(jt, p[1], p[2]) <=> Past(it, p[1], p[2])
  <2> SUFFICES ASSUME NEW p \in Present(h) PROVE Past(jt, p[1], p[2]) <=> Past(it, p[1], p[2])
    OBVIOUS
  <2>1. p[1] \in DOMAIN h.words /\ p[2] \in h.words[p[1]] /\ p[2] # 31
    BY PresentIs
  <2> QED
    BY <1>6, <2>1
<1>10. jt.namespace = IF GaveUp(h, jt) THEN "unknown" ELSE Namespace(h, jt.word)
  <2>1. CASE it.reset
    <3>1. ASSUME GaveUp(h, jt) PROVE FALSE
      <4>1. PICK q \in Undefined(h) : Past(jt, q[1], q[2]) /\ Opened(h, q[1]) = it.word
        BY <1>5, <2>1, <3>1 DEF GaveUp
      <4>2. Past(it, q[1], q[2])
        BY <1>9, <4>1, UndefinedIs
      <4>3. q[1] \in DOMAIN h.words /\ q[1] \in Nat
        BY PresentIs, UndefinedIs
      <4>4. Opened(h, q[1]) \in 0..q[1] - 1
        BY <4>3, OpenedIs
      <4>5. q[1] <= it.word
        BY <1>1, <4>2, <4>3 DEF Past
      <4> QED
        BY <1>1, <4>1, <4>3, <4>4, <4>5
    <3>2. Namespace(h, jt.word) = NamespaceFrom(h, it.word)
      BY <1>5, <2>1, NamespaceIs
    <3>3. it.word # 0
      BY <1>1, HeaderIs
    <3>4. 30 \notin h.words[it.word] \ it.left <=> 30 \notin h.words[it.word]
      BY <1>1
    <3>5. it.namespace = NamespaceFrom(h, it.word)
      BY <2>1, <3>3, <3>4 DEF Naming, NamespaceFrom
    <3> QED
      BY <3>1, <3>2, <3>5
  <2>2. CASE ~it.reset
    <3>1. Opened(h, jt.word) = Opened(h, it.word)
      BY <1>5, <2>2
    <3>2. Namespace(h, jt.word) = Namespace(h, it.word)
      BY <3>1, NamespaceIs
    <3>3. GaveUp(h, jt) <=> GaveUp(h, it)
      BY <1>9, <3>1, UndefinedIs DEF GaveUp
    <3>4. it.namespace = IF GaveUp(h, it) THEN "unknown" ELSE Namespace(h, it.word)
      BY <2>2 DEF Naming
    <3> QED
      BY <3>2, <3>3, <3>4
  <2> QED
    BY <2>1, <2>2
<1>11. \A q \in Undefined(h) : Past(jt, q[1], q[2]) => Namespace(h, q[1]) # "radiotap"
  BY <1>9, UndefinedIs DEF Naming
<1>12. \A p \in Present(h) : Past(jt, p[1], p[2]) => (p \in Fields(fd) <=> ~Lost(h, p))
  BY <1>9 DEF Naming
<1>13. AtEnd(h, jt, fd)
  BY <1>9, UndefinedIs DEF AtEnd
<1> QED
  BY <1>8, <1>10, <1>11, <1>12, <1>13 DEF Naming

-----------------------------------------------------------------------------
\* The steps of the iterator keep what has been read so far.

LEMMA StopKeeps ==
  ASSUME NEW h, NEW it, NEW fd, ReadSoFar(h, it, fd)
  PROVE  ReadSoFar(h, [it EXCEPT !.err = "EINVAL"], fd)
BY DEF ReadSoFar, Iterator

LEMMA AlignedFrom ==
  ASSUME NEW arg \in Nat, NEW a \in Nat \ {0}
  PROVE  Aligned(arg, a) \in Nat /\ arg <= Aligned(arg, a)
BY DEF Aligned

LEMMA FieldKeeps ==
  ASSUME ReadSoFar(header, iter, found), Field
  PROVE  ReadSoFar(header', iter', found')
<1> USE DEF RadiotapNamespace, VendorNamespace, Ext
<1>1. PICK h, it, fd, b, jt, gd :
        h = header /\ it = iter /\ fd = found /\ b = Bit /\ jt = iter' /\ gd = found'
  OBVIOUS
<1>2. /\ h \in Header /\ it \in Iterator /\ Tiles(h, fd) /\ Named(h, fd) /\ Walk(h, it, fd)
      /\ it.err = "none" /\ it.left # {} /\ b < 29 /\ it.namespace # "unknown"
  BY <1>1 DEF ReadSoFar, Field, Walking
<1>3. At(it, b) /\ b \in 0..28
  <2>1. At(it, Min(it.left)) /\ Min(it.left) \in 0..31
    BY <1>2, BitIs
  <2>2. b = Min(it.left)
    BY <1>1 DEF Bit
  <2>3. At(it, b) /\ b \in 0..31
    BY <2>1, <2>2
  <2>4. b \in 0..28
    BY <1>2, <2>3
  <2> QED
    BY <2>3, <2>4
<1>4. PICK i : i = ArgIndex
  OBVIOUS
<1>5. i < Len(Sizes(it.namespace)) /\ i = IndexAt(it, b)
  BY <1>1, <1>4 DEF Field, ArgIndex, IndexAt
<1>6. i = FieldIndex(h, it.word, b) /\ i \in Nat
  BY <1>2, <1>3, <1>5, IndexIs DEF Walk
<1>7. it.namespace \in {"radiotap", "vendor"} /\ it.arg \in Nat /\ it.word \in Nat
  BY <1>2 DEF Iterator
<1>8. PICK layout : layout = Sizes(it.namespace)[i + 1]
  OBVIOUS
<1>9. layout[1] \in Nat \ {0} /\ layout[2] \in Nat
  BY <1>5, <1>6, <1>7, <1>8, SizesAre
<1>10. PICK at : at = Aligned(it.arg, layout[1])
  OBVIOUS
<1>11. at \in Nat /\ it.arg <= at
  BY <1>7, <1>9, <1>10, AlignedFrom
<1>12. \E kept : Pass(at, layout[2], Passed, kept)
  BY <1>1, <1>4, <1>8, <1>10 DEF Field
<1>13. header' = h
  BY <1>1, <1>12 DEF Pass, Stop
<1>14. CASE at + layout[2] > h.length
  <2>1. jt = [it EXCEPT !.err = "EINVAL"] /\ gd = fd
    BY <1>1, <1>12, <1>14 DEF Pass, Stop
  <2>2. ReadSoFar(h, it, fd)
    BY <1>1
  <2>3. ReadSoFar(h, jt, gd)
    BY <2>1, <2>2, StopKeeps
  <2> QED
    BY <1>1, <1>13, <2>3
<1>15. CASE ~(at + layout[2] > h.length)
  <2>1. PICK e : e = [word |-> it.word, bit |-> b, index |-> i, at |-> at, size |-> layout[2]]
    OBVIOUS
  <2>2. PICK n : n = at + layout[2]
    OBVIOUS
  <2>3. n \in Nat
    BY <1>9, <1>11, <2>2
  <2>4. /\ jt = [it EXCEPT !.left = @ \ {b}, !.arg = n]
        /\ gd = fd \cup {e}
    BY <1>1, <1>4, <1>12, <1>15, <2>2, <2>1 DEF Pass, Passed
  <2>5. e \in PassedField
    BY <1>3, <1>6, <1>7, <1>9, <1>11, <2>1 DEF PassedField
  <2>6. /\ e.word = it.word /\ e.bit = b /\ e.index = i /\ e.at = at /\ e.size = layout[2]
    BY <2>1
  <2>7. jt \in Iterator
    BY <1>2, <2>3, <2>4 DEF Iterator
  <2>8. /\ jt.word = it.word /\ jt.left = it.left \ {b} /\ jt.since = it.since
        /\ jt.reset = it.reset /\ jt.namespace = it.namespace /\ jt.arg = at + layout[2]
        /\ jt.err = "none"
    BY <1>2, <2>2, <2>4 DEF Iterator
  <2>9. Moved(it, jt, b)
    BY <1>2, <1>3, <2>7, <2>8 DEF Moved, Iterator
  <2>10. Walk(h, jt, gd)
    BY <1>2, <1>3, <1>5, <1>6, <1>11, <2>4, <2>5, <2>6, <2>8, <2>9, FieldWalk
  <2>11. /\ it.namespace = Namespace(h, it.word) /\ <<it.word, b>> \in Present(h)
    <3>1. it.namespace = IF GaveUp(h, it) THEN "unknown" ELSE Namespace(h, it.word)
      BY <1>2, <1>3, AtField DEF Walk
    <3>2. it.namespace = Namespace(h, it.word)
      BY <1>2, <3>1
    <3> QED
      BY <1>2, <1>3, <3>2, AtField DEF Walk
  <2>12. Named(h, gd)
    BY <1>2, <1>3, <1>6, <2>4, <2>5, <2>6, <2>11 DEF Named
  <2>13. Tiles(h, gd)
    <3>1. e.bit # 30
      BY <1>3, <2>6
    <3>2. AlignmentIn(h, e) = layout[1]
      BY <1>8, <2>6, <2>11, <3>1 DEF AlignmentIn
    <3>3. h.length \in Nat
      BY <1>2, HeaderIs
    <3>4. e.at + e.size <= h.length
      BY <1>9, <1>11, <1>15, <2>6, <3>3
    <3> QED
      BY <1>2, <1>3, <1>10, <2>4, <2>5, <2>6, <3>2, <3>4, TileAdded DEF Walk
  <2>14. ReadSoFar(h, jt, gd)
    BY <1>2, <2>7, <2>8, <2>10, <2>12, <2>13 DEF ReadSoFar
  <2> QED
    BY <1>1, <1>13, <2>14
<1> QED
  BY <1>14, <1>15

LEMMA SkipKeeps ==
  ASSUME ReadSoFar(header, iter, found), SkipField
  PROVE  ReadSoFar(header', iter', found')
<1> USE DEF RadiotapNamespace, VendorNamespace, Ext
<1>1. PICK h, it, fd, b, jt :
        h = header /\ it = iter /\ fd = found /\ b = Bit /\ jt = iter'
  OBVIOUS
<1>2. /\ h \in Header /\ it \in Iterator /\ Tiles(h, fd) /\ Named(h, fd) /\ Walk(h, it, fd)
      /\ it.err = "none" /\ it.left # {} /\ b < 29
  BY <1>1 DEF ReadSoFar, SkipField, Walking
<1>3. At(it, b) /\ b \in 0..28
  <2>1. At(it, Min(it.left)) /\ Min(it.left) \in 0..31
    BY <1>2, BitIs
  <2>2. b = Min(it.left)
    BY <1>1 DEF Bit
  <2>3. At(it, b) /\ b \in 0..31
    BY <2>1, <2>2
  <2>4. b \in 0..28
    BY <1>2, <2>3
  <2> QED
    BY <2>3, <2>4
<1>4. IndexAt(it, b) = FieldIndex(h, it.word, b)
  BY <1>2, <1>3, IndexIs DEF Walk
<1>5. \/ it.namespace = "unknown"
      \/ it.namespace = "vendor" /\ FieldIndex(h, it.word, b) >= Len(Sizes("vendor"))
  BY <1>1, <1>4 DEF SkipField, ArgIndex, IndexAt, Sizes
<1>6. /\ jt = [it EXCEPT !.left = @ \ {b}, !.arg = it.next, !.namespace = "unknown"]
      /\ header' = h /\ found' = fd
  BY <1>1 DEF SkipField, Passed
<1>7. jt \in Iterator
  BY <1>2, <1>6 DEF Iterator
<1>8. /\ jt.word = it.word /\ jt.left = it.left \ {b} /\ jt.since = it.since
      /\ jt.reset = it.reset /\ jt.namespace = "unknown" /\ jt.arg = it.next /\ jt.next = it.next
      /\ jt.err = "none"
  BY <1>2, <1>6 DEF Iterator
<1>9. Moved(it, jt, b)
  BY <1>2, <1>3, <1>7, <1>8 DEF Moved, Iterator
<1>10. Walk(h, jt, fd)
  BY <1>2, <1>3, <1>5, <1>8, <1>9, SkipWalk
<1>11. ReadSoFar(h, jt, fd)
  BY <1>2, <1>7, <1>8, <1>10 DEF ReadSoFar
<1> QED
  BY <1>1, <1>6, <1>11

LEMMA NoMoreKeeps ==
  ASSUME ReadSoFar(header, iter, found), NoMoreFields
  PROVE  ReadSoFar(header', iter', found')
<1> USE DEF RadiotapNamespace, VendorNamespace, Ext
<1>1. PICK h, it, fd, b, jt :
        h = header /\ it = iter /\ fd = found /\ b = Bit /\ jt = iter'
  OBVIOUS
<1>2. /\ h \in Header /\ it \in Iterator /\ Tiles(h, fd) /\ Named(h, fd) /\ Walk(h, it, fd)
      /\ it.err = "none"
  BY <1>1 DEF ReadSoFar, NoMoreFields, Walking
<1>3. \/ it.left = {}
      \/ \E c \in 0..28 : /\ At(it, c) /\ it.namespace = "radiotap"
                          /\ FieldIndex(h, it.word, c) >= Len(Sizes("radiotap"))
  <2>1. ASSUME it.left # {}, b < 29, it.namespace = "radiotap",
               IndexAt(it, b) >= Len(Sizes("radiotap"))
        PROVE  /\ b \in 0..28 /\ At(it, b)
               /\ FieldIndex(h, it.word, b) >= Len(Sizes("radiotap"))
    <3>1. At(it, Min(it.left)) /\ Min(it.left) \in 0..31
      BY <1>2, <2>1, BitIs
    <3>2. b = Min(it.left)
      BY <1>1 DEF Bit
    <3>3. At(it, b) /\ b \in 0..28
      <4>1. At(it, b) /\ b \in 0..31
        BY <3>1, <3>2
      <4>2. b < 29
        BY <2>1
      <4> QED
        BY <4>1, <4>2, BitBelow
    <3>4. IndexAt(it, b) = FieldIndex(h, it.word, b)
      BY <1>2, <3>3, IndexIs DEF Walk
    <3> QED
      BY <2>1, <3>3, <3>4
  <2> QED
    BY <1>1, <2>1 DEF NoMoreFields, ArgIndex, IndexAt, Sizes
<1>4. jt = [it EXCEPT !.err = "ENOENT"] /\ header' = h /\ found' = fd
  BY <1>1 DEF NoMoreFields, Stop
<1>5. jt \in Iterator /\ jt.err = "ENOENT"
  BY <1>2, <1>4 DEF Iterator
<1>6. Fields(fd) = {p \in Present(h) : ~Lost(h, p)}
  BY <1>2, <1>3, WalkEnds
<1>7. ReadSoFar(h, jt, fd)
  BY <1>2, <1>5, <1>6 DEF ReadSoFar
<1> QED
  BY <1>1, <1>4, <1>7

LEMMA OpenVendorKeeps ==
  ASSUME ReadSoFar(header, iter, found), OpenVendorNamespace
  PROVE  ReadSoFar(header', iter', found')
<1> USE DEF RadiotapNamespace, VendorNamespace, Ext
<1>1. PICK h, it, fd, jt, gd :
        h = header /\ it = iter /\ fd = found /\ jt = iter' /\ gd = found'
  OBVIOUS
<1>2. /\ h \in Header /\ it \in Iterator /\ Tiles(h, fd) /\ Named(h, fd) /\ Walk(h, it, fd)
      /\ it.err = "none" /\ it.left # {} /\ Bit = 30
  BY <1>1 DEF ReadSoFar, OpenVendorNamespace, Walking
<1>3. At(it, 30)
  <2>1. At(it, Min(it.left))
    BY <1>2, BitIs
  <2> QED
    BY <1>1, <1>2, <2>1 DEF Bit
<1>4. it.word \in DOMAIN h.words /\ it.arg \in Nat /\ it.word \in Nat
  BY <1>2 DEF Walk, Place, Iterator
<1>5. PICK vendor : vendor = h.vendors[it.word]
  OBVIOUS
<1>6. vendor.known \in BOOLEAN /\ vendor.length \in Nat
  BY <1>2, <1>4, <1>5, HeaderIs
<1>7. PICK at : at = Aligned(it.arg, 2)
  OBVIOUS
<1>8. at \in Nat /\ it.arg <= at
  <2>1. 2 \in Nat \ {0}
    OBVIOUS
  <2> QED
    BY <1>4, <1>7, <2>1, AlignedFrom
<1>9. PICK sz : sz = IF vendor.known THEN 6 ELSE 6 + vendor.length
  OBVIOUS
<1>10. sz \in Nat
  BY <1>6, <1>9
<1>11. PICK nx : nx = at + 6 + vendor.length
  OBVIOUS
<1>12. nx \in Nat /\ (~vendor.known => nx = at + sz)
  BY <1>6, <1>8, <1>9, <1>11
<1>13. PICK next :
         next = [it EXCEPT !.left = @ \ {30}, !.next = nx, !.reset = TRUE, !.isRadiotap = FALSE,
                   !.namespace = IF vendor.known THEN "vendor" ELSE "unknown"]
  OBVIOUS
<1>14. Pass(at, sz, next, {})
  BY <1>1, <1>2, <1>5, <1>7, <1>9, <1>11, <1>13 DEF OpenVendorNamespace, Passed
<1>15. header' = h
  BY <1>1, <1>14 DEF Pass, Stop
<1>16. CASE at + sz > h.length
  <2>1. jt = [it EXCEPT !.err = "EINVAL"] /\ gd = fd
    BY <1>1, <1>14, <1>16 DEF Pass, Stop
  <2>2. ReadSoFar(h, it, fd)
    BY <1>1
  <2>3. ReadSoFar(h, jt, gd)
    BY <2>1, <2>2, StopKeeps
  <2> QED
    BY <1>1, <1>15, <2>3
<1>17. CASE ~(at + sz > h.length)
  <2>1. PICK e : e = [word |-> it.word, bit |-> 30, index |-> ArgIndex, at |-> at, size |-> sz]
    OBVIOUS
  <2>2. PICK n : n = at + sz
    OBVIOUS
  <2>3. n \in Nat
    BY <1>8, <1>10, <2>2
  <2>4. jt = [next EXCEPT !.arg = n] /\ gd = fd \cup {e}
    BY <1>1, <1>2, <1>14, <1>17, <2>1, <2>2 DEF Pass
  <2>5. e \in PassedField
    <3>1. ArgIndex \in Int
      BY <1>1, <1>2 DEF ArgIndex, Iterator
    <3>2. 30 \in 0..31
      OBVIOUS
    <3> QED
      BY <1>4, <1>8, <1>10, <2>1, <3>1, <3>2 DEF PassedField
  <2>6. e.word = it.word /\ e.bit = 30 /\ e.at = at /\ e.size = sz
    BY <2>1
  <2>7. next \in Iterator /\ next.word = it.word /\ next.left = it.left \ {30}
        /\ next.since = it.since /\ next.reset /\ next.next = nx /\ next.err = "none"
        /\ next.namespace = IF vendor.known THEN "vendor" ELSE "unknown"
    BY <1>2, <1>6, <1>12, <1>13 DEF Iterator
  <2>8. jt \in Iterator /\ jt.word = it.word /\ jt.left = it.left \ {30}
        /\ jt.since = it.since /\ jt.reset /\ jt.next = nx /\ jt.arg = n /\ jt.err = "none"
        /\ jt.namespace = IF vendor.known THEN "vendor" ELSE "unknown"
    BY <2>3, <2>4, <2>7 DEF Iterator
  <2>9. Moved(it, jt, 30)
    BY <2>8 DEF Moved
  <2>10. \A q \in Undefined(h) : Past(jt, q[1], q[2]) <=> Past(it, q[1], q[2])
    <3> SUFFICES ASSUME NEW q \in Undefined(h)
                 PROVE  Past(jt, q[1], q[2]) <=> Past(it, q[1], q[2])
      OBVIOUS
    <3>1. q[2] # 30
      BY <1>2, UndefinedIs, PresentIs
    <3> QED
      BY <2>9, <3>1, PastMoved
  <2>11. AtEnd(h, jt, gd)
    <3> SUFFICES ASSUME \A q \in Undefined(h) : ~Past(jt, q[1], q[2])
                 PROVE  /\ jt.arg \in {4 + 4 * Len(h.words)} \cup {f.at + f.size : f \in gd}
                        /\ 4 + 4 * Len(h.words) <= jt.arg
                        /\ \A f \in gd : f.at + f.size <= jt.arg
                        /\ jt.namespace = "unknown" => jt.next = jt.arg
      BY DEF AtEnd
    <3>1. /\ 4 + 4 * Len(h.words) <= it.arg
          /\ \A f \in fd : f.at + f.size <= it.arg
      BY <1>2, <2>10 DEF Walk, AtEnd
    <3>2. Len(h.words) \in Nat
      BY <1>2, HeaderIs
    <3>3. \A f \in fd : f.at \in Nat /\ f.size \in Nat
      BY <1>2 DEF Named, PassedField
    <3>4. it.arg <= n
      BY <1>4, <1>8, <1>10, <2>2
    <3>5. 4 + 4 * Len(h.words) <= n
      BY <1>4, <2>3, <3>1, <3>2, <3>4
    <3>6. \A f \in gd : f.at + f.size <= n
      BY <1>4, <2>2, <2>3, <2>4, <2>6, <3>1, <3>3, <3>4
    <3>7. n \in {f.at + f.size : f \in gd}
      BY <2>2, <2>4, <2>6
    <3>8. jt.namespace = "unknown" => jt.next = jt.arg
      BY <1>6, <1>12, <2>2, <2>8
    <3> QED
      BY <2>8, <3>5, <3>6, <3>7, <3>8
  <2>12. Walk(h, jt, gd)
    <3>1. jt.namespace = IF h.vendors[it.word].known THEN "vendor" ELSE "unknown"
      BY <1>5, <2>8
    <3>2. 30 \in {29, 30} /\ 30 # 29
      OBVIOUS
    <3>3. \A f \in gd : f \in fd \/ (f \in PassedField /\ f.word = it.word /\ f.bit = 30)
      BY <2>4, <2>5, <2>6
    <3> QED
      BY <1>2, <1>3, <2>4, <2>9, <2>11, <3>1, <3>2, <3>3, OpenWalk, SMTT(20), ZenonT(30)
  <2>13. Named(h, gd)
    <3>1. ~(e.bit < 29)
      BY <2>6
    <3>2. \A f \in gd : f \in fd \/ (f \in PassedField /\ ~(f.bit < 29))
      BY <2>4, <2>5, <3>1
    <3> QED
      BY <1>2, <3>2 DEF Named
  <2>14. Tiles(h, gd)
    <3>1. AlignmentIn(h, e) = 2
      BY <2>6 DEF AlignmentIn
    <3>2. h.length \in Nat
      BY <1>2, HeaderIs
    <3>3. e.at + e.size <= h.length
      BY <1>8, <1>10, <1>17, <2>6, <3>2
    <3> QED
      BY <1>2, <1>3, <1>7, <2>4, <2>5, <2>6, <3>1, <3>3, TileAdded DEF Walk
  <2>15. ReadSoFar(h, jt, gd)
    BY <1>2, <2>8, <2>12, <2>13, <2>14 DEF ReadSoFar
  <2> QED
    BY <1>1, <1>15, <2>15
<1> QED
  BY <1>16, <1>17

LEMMA OpenRadiotapKeeps ==
  ASSUME ReadSoFar(header, iter, found), OpenRadiotapNamespace
  PROVE  ReadSoFar(header', iter', found')
<1> USE DEF RadiotapNamespace, VendorNamespace, Ext
<1>1. PICK h, it, fd, jt, gd :
        h = header /\ it = iter /\ fd = found /\ jt = iter' /\ gd = found'
  OBVIOUS
<1>2. /\ h \in Header /\ it \in Iterator /\ Tiles(h, fd) /\ Named(h, fd) /\ Walk(h, it, fd)
      /\ it.err = "none" /\ it.left # {} /\ Bit = 29
  BY <1>1 DEF ReadSoFar, OpenRadiotapNamespace, Walking
<1>3. At(it, 29)
  <2>1. At(it, Min(it.left))
    BY <1>2, BitIs
  <2> QED
    BY <1>1, <1>2, <2>1 DEF Bit
<1>4. header' = h /\ gd = fd
  BY <1>1 DEF OpenRadiotapNamespace, Stop
<1>5. CASE jt = [it EXCEPT !.err = "EINVAL"]
  <2>1. ReadSoFar(h, it, fd)
    BY <1>1
  <2>2. ReadSoFar(h, jt, fd)
    BY <1>5, <2>1, StopKeeps
  <2> QED
    BY <1>1, <1>4, <2>2
<1>6. CASE jt = [it EXCEPT !.left = @ \ {29}, !.reset = TRUE, !.namespace = "radiotap",
                   !.isRadiotap = TRUE]
  <2>1. jt \in Iterator /\ jt.word = it.word /\ jt.left = it.left \ {29}
        /\ jt.since = it.since /\ jt.reset /\ jt.arg = it.arg /\ jt.err = "none"
        /\ jt.namespace = "radiotap"
    BY <1>2, <1>6 DEF Iterator
  <2>2. Moved(it, jt, 29)
    BY <2>1 DEF Moved
  <2>3. \A q \in Undefined(h) : Past(jt, q[1], q[2]) <=> Past(it, q[1], q[2])
    <3> SUFFICES ASSUME NEW q \in Undefined(h)
                 PROVE  Past(jt, q[1], q[2]) <=> Past(it, q[1], q[2])
      OBVIOUS
    <3>1. q[2] # 29
      BY <1>2, UndefinedIs, PresentIs
    <3> QED
      BY <2>2, <3>1, PastMoved
  <2>4. AtEnd(h, jt, fd)
    <3>1. jt.namespace # "unknown" /\ jt.arg = it.arg
      BY <2>1
    <3> QED
      BY <1>2, <2>3, <3>1 DEF Walk, AtEnd
  <2>5. Walk(h, jt, fd)
    <3>1. 29 \in {29, 30} /\ fd \subseteq fd
      OBVIOUS
    <3> QED
      BY <1>2, <1>3, <2>1, <2>2, <2>4, <3>1, OpenWalk
  <2>6. ReadSoFar(h, jt, fd)
    BY <1>2, <2>1, <2>5 DEF ReadSoFar
  <2> QED
    BY <1>1, <1>4, <2>6
<1> QED
  BY <1>1, <1>2, <1>5, <1>6 DEF OpenRadiotapNamespace, Stop, Passed

LEMMA ExtendKeeps ==
  ASSUME ReadSoFar(header, iter, found), Extend
  PROVE  ReadSoFar(header', iter', found')
<1> USE DEF RadiotapNamespace, VendorNamespace, Ext
<1>1. PICK h, it, fd, jt, gd :
        h = header /\ it = iter /\ fd = found /\ jt = iter' /\ gd = found'
  OBVIOUS
<1>2. /\ h \in Header /\ it \in Iterator /\ Tiles(h, fd) /\ Named(h, fd) /\ Walk(h, it, fd)
      /\ it.err = "none" /\ it.left # {} /\ Bit = 31
  BY <1>1 DEF ReadSoFar, Extend, Walking
<1>3. At(it, 31)
  <2>1. At(it, Min(it.left))
    BY <1>2, BitIs
  <2> QED
    BY <1>1, <1>2, <2>1 DEF Bit
<1>4. header' = h /\ gd = fd
  BY <1>1 DEF Extend, Stop
<1>5. CASE jt = [it EXCEPT !.err = "EINVAL"]
  <2>1. ReadSoFar(h, it, fd)
    BY <1>1
  <2>2. ReadSoFar(h, jt, fd)
    BY <1>5, <2>1, StopKeeps
  <2> QED
    BY <1>1, <1>4, <2>2
<1>6. CASE jt = [it EXCEPT !.word = @ + 1, !.left = h.words[it.word + 1],
                   !.since = IF it.reset THEN 0 ELSE @ + 1, !.reset = FALSE]
  <2>1. it.word \in DOMAIN h.words /\ it.word \in Nat /\ it.since \in Int /\ 31 \in h.words[it.word]
    BY <1>2, <1>3 DEF Walk, Place, Iterator, At
  <2>2. it.word < Len(h.words) /\ DOMAIN h.words = 1..Len(h.words) /\ Len(h.words) \in Nat
    BY <1>2, <2>1, HeaderIs
  <2>3. PICK w : w = it.word + 1
    OBVIOUS
  <2>4. w \in Nat /\ w \in DOMAIN h.words
    BY <2>1, <2>2, <2>3
  <2>5. h.words[w] \in SUBSET (0..31)
    BY <1>2, <2>4, HeaderIs
  <2>6. PICK s : s = IF it.reset THEN 0 ELSE it.since + 1
    OBVIOUS
  <2>7. s \in Int
    BY <2>1, <2>6
  <2>8. jt = [it EXCEPT !.word = w, !.left = h.words[w], !.since = s, !.reset = FALSE]
    BY <1>6, <2>3, <2>6
  <2>9. jt \in Iterator /\ jt.word = w /\ jt.left = h.words[w] /\ jt.since = s /\ ~jt.reset
        /\ jt.arg = it.arg /\ jt.next = it.next /\ jt.err = "none" /\ jt.namespace = it.namespace
    BY <1>2, <2>4, <2>5, <2>7, <2>8 DEF Iterator
  <2>10. Walk(h, jt, fd)
    BY <1>2, <1>3, <2>3, <2>6, <2>9, ExtendWalk
  <2>11. ReadSoFar(h, jt, fd)
    BY <1>2, <2>9, <2>10 DEF ReadSoFar
  <2> QED
    BY <1>1, <1>4, <2>11
<1> QED
  BY <1>1, <1>5, <1>6 DEF Extend, Stop

LEMMA BeginsRead ==
  ASSUME NEW h \in Header
  PROVE  ReadSoFar(h, IteratorInit(h), {})
<1>1. PICK it : it = IteratorInit(h)
  OBVIOUS
<1>2. Tiles(h, {}) /\ Named(h, {})
  BY DEF Tiles, Named
<1>3. Len(h.words) \in Nat /\ 1 \in DOMAIN h.words /\ h.words[1] \in SUBSET (0..31)
  <2>1. Len(h.words) \in Nat \ {0} /\ DOMAIN h.words = 1..Len(h.words)
    BY HeaderIs
  <2>2. 1 \in DOMAIN h.words
    BY <2>1
  <2> QED
    BY <2>1, <2>2, HeaderIs
<1>4. PICK start : start = 4 + 4 * Len(h.words)
  OBVIOUS
<1>5. start \in Nat
  BY <1>3, <1>4
<1>6. NoIterator \in Iterator
  BY DEF NoIterator, Iterator
<1>7. CASE it = [NoIterator EXCEPT !.err = "EINVAL"]
  <2>1. it \in Iterator /\ it.err = "EINVAL"
    BY <1>6, <1>7 DEF Iterator
  <2> QED
    BY <1>1, <1>2, <2>1 DEF ReadSoFar
<1>8. CASE it = [NoIterator EXCEPT !.left = h.words[1], !.arg = start]
  <2>1. it \in Iterator
    BY <1>3, <1>5, <1>6, <1>8 DEF Iterator
  <2>2. /\ it.word = 1 /\ it.left = h.words[1] /\ it.since = 0 /\ it.arg = start
        /\ it.namespace = "radiotap" /\ ~it.reset /\ it.err = "none"
    BY <1>8 DEF NoIterator
  <2>3. Opened(h, 1) = 0
    BY <1>3, OpenedIs
  <2>4. Place(h, it, {})
    BY <1>3, <2>2, <2>3 DEF Place
  <2>5. \A p \in Present(h) : ~Past(it, p[1], p[2])
    <3> SUFFICES ASSUME NEW p \in Present(h) PROVE ~Past(it, p[1], p[2])
      OBVIOUS
    <3>1. p[1] \in DOMAIN h.words /\ p[2] \in h.words[p[1]] /\ DOMAIN h.words = 1..Len(h.words)
      BY PresentIs, HeaderIs
    <3> QED
      BY <1>3, <2>2, <3>1 DEF Past
  <2>6. \A q \in Undefined(h) : ~Past(it, q[1], q[2])
    BY <2>5, UndefinedIs
  <2>7. Namespace(h, 1) = "radiotap"
    BY <2>3, NamespaceIs DEF NamespaceFrom
  <2>8. Naming(h, it, {})
    BY <2>2, <2>5, <2>6, <2>7 DEF Naming, GaveUp
  <2>9. AtEnd(h, it, {})
    BY <1>4, <1>5, <2>2 DEF AtEnd
  <2>10. ReadSoFar(h, it, {})
    BY <1>2, <2>1, <2>2, <2>4, <2>8, <2>9 DEF ReadSoFar, Walk
  <2> QED
    BY <1>1, <2>10
<1> QED
  BY <1>1, <1>4, <1>7, <1>8 DEF IteratorInit

\* Either no header is being read, or so much of it has been.
Reading ==
  \/ header = None /\ found = {}
  \/ ReadSoFar(header, iter, found)

LEMMA ReadingStep ==
  ASSUME Reading, [RssiNext]_rssiVars
  PROVE  Reading'
<1>1. CASE Capture
  <2>1. PICK h \in Header : GetRadiotapData(h)
    BY <1>1 DEF Capture
  <2>2. ReadSoFar(h, IteratorInit(h), {})
    BY BeginsRead
  <2>3. header' = h /\ iter' = IteratorInit(h) /\ found' = {}
    BY <2>1 DEF GetRadiotapData
  <2> QED
    BY <2>2, <2>3 DEF Reading
<1>2. CASE Read
  <2>1. IteratorNext /\ ReadSoFar(header, iter, found)
    <3>1. IteratorNext
      BY <1>2 DEF Read
    <3>2. header # None
      BY <3>1 DEF IteratorNext, Field, SkipField, NoMoreFields, OpenVendorNamespace,
                  OpenRadiotapNamespace, Extend, Walking
    <3> QED
      BY <3>1, <3>2 DEF Reading
  <2>2. ReadSoFar(header', iter', found')
    <3>1. Field \/ SkipField \/ NoMoreFields \/ OpenVendorNamespace \/ OpenRadiotapNamespace \/ Extend
      BY <2>1 DEF IteratorNext
    <3> QED
      BY <2>1, <3>1, FieldKeeps, SkipKeeps, NoMoreKeeps, OpenVendorKeeps, OpenRadiotapKeeps,
         ExtendKeeps
  <2> QED
    BY <2>2 DEF Reading
<1>3. CASE Keep \/ Malformed
  BY <1>3 DEF Keep, Malformed, Done, Reading
<1>4. CASE AddNeighbors \/ EndAddNeighbors \/ UNCHANGED rssiVars
  <2>1. header' = header /\ iter' = iter /\ found' = found
    BY <1>4 DEF AddNeighbors, EndAddNeighbors, rssiVars, radiotapVars
  <2> QED
    BY <2>1 DEF Reading
<1> QED
  BY <1>1, <1>2, <1>3, <1>4 DEF RssiNext

LEMMA ReadingAlways == RssiSpec => []Reading
<1>1. RssiInit => Reading
  BY DEF RssiInit, RadiotapInit, Reading
<1> QED
  BY <1>1, ReadingStep, PTL DEF RssiSpec

\* Whatever header is captured, what was read of it lies in it, after the present
\* words, aligned and without gaps, until a field that no table has.
THEOREM FieldsTileCorrect == RssiSpec => []FieldsTile
<1>1. Reading => FieldsTile
  <2> SUFFICES ASSUME Reading PROVE FieldsTile
    OBVIOUS
  <2>1. Tiles(header, found)
    BY DEF Reading, ReadSoFar, Tiles
  <2>2. \A e : AlignmentIn(header, e) = Alignment(e)
    BY DEF AlignmentIn, Alignment, VendorNamespace
  <2> QED
    BY <2>1, <2>2 DEF Tiles, FieldsTile, EndOf
<1> QED
  BY <1>1, ReadingAlways, PTL

\* Whatever header is captured, its fields are read as the fields they are, and when
\* the walk ends well all of them are, but for those an undefined field costs.
THEOREM FieldsNamedCorrect == RssiSpec => []FieldsNamed
<1>1. Reading => FieldsNamed
  <2> SUFFICES ASSUME Reading, header # None PROVE
        /\ Fields(found) \subseteq Present(header)
        /\ \A e \in found : e.bit < 29 => e.index = FieldIndex(header, e.word, e.bit)
        /\ iter.err = "ENOENT" => Fields(found) = {p \in Present(header) : ~Lost(header, p)}
    BY DEF FieldsNamed, Fields, RadiotapNamespace
  <2>1. ReadSoFar(header, iter, found)
    BY DEF Reading
  <2>2. Named(header, found)
    BY <2>1 DEF ReadSoFar
  <2>3. Fields(found) \subseteq Present(header)
    BY <2>2 DEF Named, Fields
  <2> QED
    BY <2>1, <2>2, <2>3 DEF ReadSoFar, Named
<1> QED
  BY <1>1, ReadingAlways, PTL
-----------------------------------------------------------------------------
(* The hash map.                                                           *)

HashNode == [key : Key, value : Value, next : Address \cup {nullptr}]

\* s are the nodes from n on, those of the bucket b.
IsList(nodes, b, n, s) ==
  /\ s \in Seq(DOMAIN nodes)
  /\ n = IF Len(s) = 0 THEN nullptr ELSE s[1]
  /\ \A i \in 1..Len(s) :
       /\ nodes[s[i]].next = IF i = Len(s) THEN nullptr ELSE s[i + 1]
       /\ BucketOf(nodes[s[i]].key) = b
  /\ \A i, j \in 1..Len(s) : nodes[s[i]].key = nodes[s[j]].key => i = j

\* Each bucket has a list, and each node is in that of its bucket.
Lists(first, nodes, list) ==
  /\ DOMAIN nodes \subseteq Address /\ \A n \in DOMAIN nodes : nodes[n] \in HashNode
  /\ first \in [Bucket -> Address \cup {nullptr}]
  /\ DOMAIN list = Bucket
  /\ \A b \in Bucket : IsList(nodes, b, first[b], list[b])
  /\ \A n \in DOMAIN nodes :
       \E i \in 1..Len(list[BucketOf(nodes[n].key)]) : list[BucketOf(nodes[n].key)][i] = n

LEMMA BucketIs ==
  ASSUME NEW k \in Key
  PROVE  BucketOf(k) \in Bucket
<1>1. hashFn[k] \in Nat /\ hashSize \in Nat \ {0}
  BY HashAssumption
<1> QED
  BY <1>1, Quotient DEF BucketOf, Bucket

LEMMA NodeIs ==
  ASSUME NEW first, NEW nodes, NEW list, Lists(first, nodes, list), NEW n \in DOMAIN nodes
  PROVE  /\ nodes[n].key \in Key /\ nodes[n].value \in Value /\ BucketOf(nodes[n].key) \in Bucket
         /\ n \in Address /\ n # nullptr
<1>1. nodes[n] \in HashNode /\ n \in Address
  BY DEF Lists
<1>2. nodes[n].key \in Key /\ nodes[n].value \in Value
  BY <1>1 DEF HashNode
<1> QED
  BY <1>1, <1>2, BucketIs, AddressAssumption

LEMMA ListIs ==
  ASSUME NEW nodes, NEW b, NEW n, NEW s, IsList(nodes, b, n, s)
  PROVE  Len(s) \in Nat /\ DOMAIN s = 1..Len(s) /\ \A i \in 1..Len(s) : s[i] \in DOMAIN nodes
<1>1. PICK S : S = DOMAIN nodes
  OBVIOUS
<1>2. s \in Seq(S)
  BY <1>1 DEF IsList
<1> QED
  BY <1>1, <1>2

\* No two nodes have the same key.
LEMMA KeyUnique ==
  ASSUME NEW first, NEW nodes, NEW list, Lists(first, nodes, list),
         NEW n \in DOMAIN nodes, NEW m \in DOMAIN nodes, nodes[n].key = nodes[m].key
  PROVE  n = m
<1>1. PICK b \in Bucket : b = BucketOf(nodes[n].key)
  BY NodeIs
<1>2. PICK i \in 1..Len(list[b]), j \in 1..Len(list[b]) : list[b][i] = n /\ list[b][j] = m
  BY <1>1 DEF Lists
<1>3. IsList(nodes, b, first[b], list[b])
  BY DEF Lists
<1> QED
  BY <1>2, <1>3 DEF IsList

\* What the loops follow.
Follows(nodes, f) ==
  f = [m \in Address \cup {nullptr} |->
         IF m \notin DOMAIN nodes THEN <<>> ELSE <<m>> \o f[nodes[m].next]]

LEMMA FollowsIs ==
  ASSUME NEW first, NEW nodes, NEW list, Lists(first, nodes, list), NEW f, Follows(nodes, f),
         NEW b \in Bucket
  PROVE  f[first[b]] = list[b]
<1>1. PICK s : s = list[b]
  OBVIOUS
<1>2. IsList(nodes, b, first[b], s)
  BY <1>1 DEF Lists
<1>3. PICK len \in Nat : len = Len(s)
  BY <1>2, ListIs
<1>4. PICK S : S = DOMAIN nodes
  OBVIOUS
<1>5. s \in Seq(S) /\ S \subseteq Address /\ nullptr \notin S
  BY <1>2, <1>4, AddressAssumption DEF IsList, Lists
<1>6. /\ f[nullptr] = <<>>
      /\ \A m \in S : f[m] = <<m>> \o f[nodes[m].next]
  BY <1>4, <1>5 DEF Follows
<1> DEFINE From(k) == IF k = 0 THEN nullptr ELSE s[len - k + 1]
           T == {k \in 0..len : f[From(k)] = SubSeq(s, len - k + 1, len)}
<1>7. 0 \in T
  <2>1. len + 1 \in Int /\ len < len + 1 /\ len - 0 + 1 = len + 1 /\ len \in Int
    OBVIOUS
  <2>2. SubSeq(s, len + 1, len) = <<>>
    BY <2>1, SubSeqEmpty
  <2>3. From(0) = nullptr /\ 0 \in 0..len
    OBVIOUS
  <2>4. f[From(0)] = SubSeq(s, len - 0 + 1, len)
    BY <1>6, <2>1, <2>2, <2>3
  <2> HIDE DEF From
  <2> QED
    BY <2>3, <2>4
<1>8. ASSUME NEW k \in 0..len - 1, k \in T PROVE k + 1 \in T
  <2>1. PICK i \in 1..len : i = len - k
    OBVIOUS
  <2>2. len - (k + 1) + 1 = i /\ k + 1 # 0 /\ k + 1 \in 0..len /\ len - k + 1 = i + 1
    BY <2>1
  <2>3. From(k + 1) = s[i]
    BY <2>2
  <2>4. s[i] \in S
    BY <1>3, <1>5
  <2>5. nodes[s[i]].next = From(k)
    <3>1. nodes[s[i]].next = IF i = len THEN nullptr ELSE s[i + 1]
      BY <1>2, <1>3 DEF IsList
    <3>2. i = len <=> k = 0
      BY <2>1
    <3> QED
      BY <2>2, <3>1, <3>2
  <2>6. f[s[i]] = <<s[i]>> \o SubSeq(s, i + 1, len)
    BY <1>6, <1>8, <2>2, <2>4, <2>5
  <2>7. SubSeq(s, i, len) = <<s[i]>> \o SubSeq(s, i + 1, len)
    <3>1. i \in 1..Len(s) /\ len \in i..Len(s)
      BY <1>3
    <3> QED
      BY <1>5, <3>1, SubSeqRecursiveFirst
  <2> QED
    BY <2>2, <2>3, <2>6, <2>7
<1>9. len \in T
  <2> HIDE DEF T
  <2>1. \A k \in 0..len : k \in T
    BY <1>3, <1>7, <1>8, UpTo
  <2> QED
    BY <2>1
<1>10. From(len) = first[b]
  <2>1. len - len + 1 = 1
    OBVIOUS
  <2> QED
    BY <1>2, <1>3, <2>1 DEF IsList
<1>11. SubSeq(s, len - len + 1, len) = s
  <2>1. len - len + 1 = 1
    OBVIOUS
  <2> QED
    BY <1>3, <1>5, <2>1, SubSeqFull
<1> QED
  BY <1>1, <1>9, <1>10, <1>11

LEMMA FollowsExists ==
  ASSUME NEW first, NEW nodes, NEW list, Lists(first, nodes, list)
  PROVE  \E f : Follows(nodes, f)
<1> DEFINE A == Address \cup {nullptr}
           L(m) == list[BucketOf(nodes[m].key)]
           Pos(m) == CHOOSE i \in 1..Len(L(m)) : L(m)[i] = m
           f == [m \in A |-> IF m \notin DOMAIN nodes THEN <<>> ELSE SubSeq(L(m), Pos(m), Len(L(m)))]
<1>1. nullptr \notin DOMAIN nodes /\ DOMAIN nodes \subseteq A
  BY AddressAssumption DEF Lists
<1>2. f[nullptr] = <<>>
  BY <1>1
<1>3. ASSUME NEW m \in DOMAIN nodes PROVE f[m] = <<m>> \o f[nodes[m].next]
  <2>1. PICK b \in Bucket : b = BucketOf(nodes[m].key)
    BY NodeIs
  <2>2. PICK s : s = list[b]
    OBVIOUS
  <2>3. IsList(nodes, b, first[b], s)
    BY <2>2 DEF Lists
  <2>4. PICK len \in Nat : len = Len(s)
    BY <2>3, ListIs
  <2>5. PICK S : S = DOMAIN nodes
    OBVIOUS
  <2>6. s \in Seq(S)
    BY <2>3, <2>5 DEF IsList
  <2>7. \E i \in 1..len : s[i] = m
    BY <2>1, <2>2, <2>4 DEF Lists
  <2>8. PICK i : i = Pos(m)
    OBVIOUS
  <2>9. i \in 1..len /\ s[i] = m
    BY <2>1, <2>2, <2>4, <2>7, <2>8
  <2>10. f[m] = SubSeq(s, i, len)
    BY <1>1, <2>1, <2>2, <2>4, <2>8
  <2>11. SubSeq(s, i, len) = <<m>> \o SubSeq(s, i + 1, len)
    <3>1. i \in 1..Len(s) /\ len \in i..Len(s)
      BY <2>4, <2>9
    <3> QED
      BY <2>6, <2>9, <3>1, SubSeqRecursiveFirst
  <2>12. f[nodes[m].next] = SubSeq(s, i + 1, len)
    <3>1. CASE i = len
      <4>1. nodes[m].next = nullptr
        BY <2>3, <2>4, <2>9, <3>1 DEF IsList
      <4>2. SubSeq(s, i + 1, len) = <<>>
        <5>1. i + 1 \in Int /\ len \in Int /\ len < i + 1
          BY <3>1
        <5> QED
          BY <5>1, SubSeqEmpty
      <4> QED
        BY <1>2, <4>1, <4>2
    <3>2. CASE i # len
      <4>1. i + 1 \in 1..len
        BY <2>9, <3>2
      <4>2. PICK o : o = s[i + 1]
        OBVIOUS
      <4>3. nodes[m].next = o /\ o \in DOMAIN nodes /\ BucketOf(nodes[o].key) = b
        BY <2>3, <2>4, <2>9, <3>2, <4>1, <4>2, ListIs DEF IsList
      <4>4. PICK j : j = Pos(o)
        OBVIOUS
      <4>5. j \in 1..len /\ s[j] = o
        BY <2>2, <2>4, <4>1, <4>2, <4>3, <4>4
      <4>6. j = i + 1
        BY <2>3, <2>4, <4>1, <4>2, <4>5 DEF IsList
      <4>7. f[o] = SubSeq(s, j, len)
        BY <1>1, <2>2, <2>4, <4>3, <4>4
      <4> QED
        BY <4>3, <4>6, <4>7
    <3> QED
      BY <3>1, <3>2
  <2> QED
    BY <2>10, <2>11, <2>12
<1>4. ASSUME NEW m \in A, m \notin DOMAIN nodes PROVE f[m] = <<>>
  BY <1>4
<1>5. f = [m \in A |-> f[m]]
  OBVIOUS
<1> HIDE DEF f
<1>6. PICK h : h = f
  OBVIOUS
<1>7. h = [m \in A |-> IF m \notin DOMAIN nodes THEN <<>> ELSE <<m>> \o h[nodes[m].next]]
  <2>1. \A m \in A : h[m] = IF m \notin DOMAIN nodes THEN <<>> ELSE <<m>> \o h[nodes[m].next]
    BY <1>3, <1>4, <1>6
  <2>2. h = [m \in A |-> h[m]]
    BY <1>5, <1>6
  <2> QED
    BY <2>1, <2>2, Zenon
<1> QED
  BY <1>7 DEF Follows

LEMMA ChainIs ==
  ASSUME NEW first, NEW nodes, NEW list, Lists(first, nodes, list), NEW b \in Bucket
  PROVE  Chain(nodes, first[b]) = list[b]
<1>1. PICK f : f = CHOOSE g : Follows(nodes, g)
  OBVIOUS
<1>2. Follows(nodes, f)
  BY <1>1, FollowsExists
<1>3. f[first[b]] = list[b]
  BY <1>2, FollowsIs
<1>4. Chain(nodes, first[b]) = f[first[b]]
  BY <1>1 DEF Chain, Follows
<1> QED
  BY <1>3, <1>4

\* The nodes of all buckets and the map they are, in any state.
ListedIn(first, nodes) == UNION {ToSet(Chain(nodes, first[b])) : b \in Bucket}
MapOf(nodes) ==
  [k \in {nodes[n].key : n \in DOMAIN nodes} |->
     nodes[CHOOSE n \in DOMAIN nodes : nodes[n].key = k].value]

LEMMA ListedIs ==
  ASSUME NEW first, NEW nodes, NEW list, Lists(first, nodes, list)
  PROVE  ListedIn(first, nodes) = DOMAIN nodes
<1>1. ASSUME NEW n \in ListedIn(first, nodes) PROVE n \in DOMAIN nodes
  <2>1. PICK b \in Bucket : n \in ToSet(Chain(nodes, first[b]))
    BY <1>1 DEF ListedIn
  <2>2. n \in ToSet(list[b])
    BY <2>1, ChainIs
  <2>3. IsList(nodes, b, first[b], list[b])
    BY DEF Lists
  <2> QED
    BY <2>2, <2>3, ListIs DEF ToSet
<1>2. ASSUME NEW n \in DOMAIN nodes PROVE n \in ListedIn(first, nodes)
  <2>1. PICK b \in Bucket : b = BucketOf(nodes[n].key)
    BY NodeIs
  <2>2. PICK i \in 1..Len(list[b]) : list[b][i] = n
    BY <2>1 DEF Lists
  <2>3. DOMAIN list[b] = 1..Len(list[b])
    <3>1. IsList(nodes, b, first[b], list[b])
      BY DEF Lists
    <3> QED
      BY <3>1, ListIs
  <2>4. n \in ToSet(Chain(nodes, first[b]))
    BY <2>2, <2>3, ChainIs DEF ToSet
  <2> QED
    BY <2>4 DEF ListedIn
<1> QED
  BY <1>1, <1>2

Keys(nodes) == {nodes[n].key : n \in DOMAIN nodes}

LEMMA MapIs ==
  ASSUME NEW first, NEW nodes, NEW list, Lists(first, nodes, list)
  PROVE  /\ MapOf(nodes) \in [Keys(nodes) -> Value]
         /\ \A n \in DOMAIN nodes : MapOf(nodes)[nodes[n].key] = nodes[n].value
<1>1. ASSUME NEW n \in DOMAIN nodes PROVE MapOf(nodes)[nodes[n].key] = nodes[n].value
  <2>1. PICK m : m = CHOOSE o \in DOMAIN nodes : nodes[o].key = nodes[n].key
    OBVIOUS
  <2>2. m \in DOMAIN nodes /\ nodes[m].key = nodes[n].key
    BY <2>1
  <2>3. m = n
    BY <2>2, KeyUnique
  <2> QED
    BY <2>1, <2>3 DEF MapOf
<1>2. ASSUME NEW k \in Keys(nodes) PROVE MapOf(nodes)[k] \in Value
  BY <1>1, <1>2, NodeIs DEF Keys
<1>3. MapOf(nodes) \in [Keys(nodes) -> Value]
  BY <1>2 DEF MapOf, Keys
<1> QED
  BY <1>1, <1>3

\* A map with the keys and values of the nodes is theirs.
LEMMA MapUnique ==
  ASSUME NEW first, NEW nodes, NEW list, Lists(first, nodes, list),
         NEW M \in [Keys(nodes) -> Value],
         \A n \in DOMAIN nodes : M[nodes[n].key] = nodes[n].value
  PROVE  MapOf(nodes) = M
<1>1. PICK F : F = MapOf(nodes)
  OBVIOUS
<1>2. F \in [Keys(nodes) -> Value] /\ \A n \in DOMAIN nodes : F[nodes[n].key] = nodes[n].value
  BY <1>1, MapIs
<1>3. \A k \in Keys(nodes) : F[k] = M[k]
  BY <1>2 DEF Keys
<1> QED
  BY <1>1, <1>2, <1>3

LEMMA MappedIs ==
  ASSUME NEW list, Lists(head, heap, list)
  PROVE  Listed = DOMAIN heap /\ Mapped = MapOf(heap)
<1>1. Listed = DOMAIN heap
  BY ListedIs DEF Listed, ListedIn
<1> QED
  BY <1>1 DEF Mapped, MapOf

\* What the loops find: the node of the key and the one before it, or the last node.
LEMMA SearchIs ==
  ASSUME NEW list, Lists(head, heap, list), NEW k \in Key
  PROVE  LET s == list[BucketOf(k)] IN
         \/ /\ \A n \in DOMAIN heap : heap[n].key # k
            /\ Search(k).node = nullptr
            /\ Search(k).prev = IF Len(s) = 0 THEN nullptr ELSE s[Len(s)]
         \/ \E i \in 1..Len(s) :
              /\ heap[s[i]].key = k
              /\ Search(k).node = s[i]
              /\ Search(k).prev = IF i = 1 THEN nullptr ELSE s[i - 1]
<1>1. PICK b \in Bucket : b = BucketOf(k)
  BY BucketIs
<1>2. PICK s : s = list[b]
  OBVIOUS
<1>3. IsList(heap, b, head[b], s)
  BY <1>2 DEF Lists
<1>4. PICK len \in Nat : len = Len(s)
  BY <1>3, ListIs
<1>5. DOMAIN s = 1..len
  BY <1>3, <1>4, ListIs
<1>6. Chain(heap, head[b]) = s
  BY <1>2, ChainIs
<1>7. PICK T : T = {i \in 1..len : heap[s[i]].key = k} \cup {len + 1}
  OBVIOUS
<1>8. T \in SUBSET Nat /\ T # {}
  BY <1>7
<1>9. PICK at : at = Min(T)
  OBVIOUS
<1>10. at \in T /\ at \in Nat /\ \A i \in T : at <= i
  BY <1>8, <1>9, MinIs
<1>11. Search(k) = [node |-> IF at > len THEN nullptr ELSE s[at],
                    prev |-> IF at = 1 THEN nullptr ELSE s[at - 1]]
  BY <1>1, <1>4, <1>5, <1>6, <1>7, <1>9 DEF Search
<1>12. CASE at \in 1..len
  <2>1. heap[s[at]].key = k
    BY <1>7, <1>10, <1>12
  <2>2. Search(k).node = s[at] /\ Search(k).prev = IF at = 1 THEN nullptr ELSE s[at - 1]
    BY <1>11, <1>12
  <2> QED
    BY <1>1, <1>2, <1>4, <1>12, <2>1, <2>2
<1>13. CASE at \notin 1..len
  <2>1. at = len + 1 /\ {i \in 1..len : heap[s[i]].key = k} = {}
    BY <1>7, <1>10, <1>13
  <2>2. \A n \in DOMAIN heap : heap[n].key # k
    <3> SUFFICES ASSUME NEW n \in DOMAIN heap, heap[n].key = k PROVE FALSE
      OBVIOUS
    <3>1. \E i \in 1..len : s[i] = n
      BY <1>1, <1>2, <1>4 DEF Lists
    <3> QED
      BY <2>1, <3>1
  <2>3. Search(k).node = nullptr /\ Search(k).prev = IF len = 0 THEN nullptr ELSE s[len]
    <3>1. at > len /\ at - 1 = len /\ (at = 1 <=> len = 0)
      BY <2>1
    <3> QED
      BY <1>11, <3>1
  <2> QED
    BY <1>1, <1>2, <1>4, <2>2, <2>3
<1> QED
  BY <1>12, <1>13

\* There is memory for one more node as long as some key has none.
LEMMA AllocatedIs ==
  ASSUME NEW list, Lists(head, heap, list), NEW k \in Key,
         \A n \in DOMAIN heap : heap[n].key # k
  PROVE  Allocated \in Address \ DOMAIN heap
<1>1. IsFiniteSet(Address) /\ IsFiniteSet(Key) /\ Cardinality(Address) >= Cardinality(Key)
  BY AddressAssumption
<1>2. DOMAIN heap \subseteq Address
  BY DEF Lists
<1> DEFINE S == DOMAIN heap
           T == Key \ {k}
           key == [n \in S |-> heap[n].key]
<1>3. key \in Injection(S, T)
  <2>1. key \in [S -> T]
    BY NodeIs
  <2>2. \A n, m \in S : key[n] = key[m] => n = m
    BY KeyUnique
  <2> HIDE DEF S, T, key
  <2> QED
    BY <2>1, <2>2 DEF Injection, IsInjective
<1>4. IsFiniteSet(T) /\ Cardinality(T) = Cardinality(Key) - 1
  BY <1>1, FS_RemoveElement
<1>5. Cardinality(S) <= Cardinality(T)
  <2> HIDE DEF S, T, key
  <2> QED
    BY <1>3, <1>4, FS_Injection
<1>6. S # Address
  <2>1. IsFiniteSet(S)
    BY <1>1, <1>2, FS_Subset
  <2>2. Cardinality(S) \in Nat /\ Cardinality(Key) \in Nat /\ Cardinality(Address) \in Nat
    BY <1>1, <2>1, FS_CardinalityType
  <2> QED
    BY <1>1, <1>4, <1>5, <2>2
<1> QED
  BY <1>2, <1>6 DEF Allocated

-----------------------------------------------------------------------------
\* What the operations do to the lists and to the map.

LEMMA SeqInto ==
  ASSUME NEW S, NEW s \in Seq(S), NEW T, \A i \in 1..Len(s) : s[i] \in T
  PROVE  s \in Seq(T)
<1>1. Len(s) \in Nat /\ s \in [1..Len(s) -> S]
  OBVIOUS
<1>2. s \in [1..Len(s) -> T]
  BY <1>1
<1> QED
  BY <1>1, <1>2, SeqDef

\* A bucket whose nodes stay as they are keeps its list.
LEMMA ListStays ==
  ASSUME NEW first, NEW nodes, NEW list, Lists(first, nodes, list), NEW c \in Bucket,
         NEW other, \A n \in DOMAIN nodes :
                      BucketOf(nodes[n].key) = c => n \in DOMAIN other /\ other[n] = nodes[n]
  PROVE  IsList(other, c, first[c], list[c])
<1>1. PICK s, n : s = list[c] /\ n = first[c]
  OBVIOUS
<1>2. IsList(nodes, c, n, s)
  BY <1>1 DEF Lists
<1>3. Len(s) \in Nat /\ \A i \in 1..Len(s) : s[i] \in DOMAIN nodes
  BY <1>2, ListIs
<1>4. \A i \in 1..Len(s) : s[i] \in DOMAIN other /\ other[s[i]] = nodes[s[i]]
  BY <1>2, <1>3 DEF IsList
<1>5. s \in Seq(DOMAIN other)
  <2>1. PICK S : S = DOMAIN nodes
    OBVIOUS
  <2>2. s \in Seq(S)
    BY <1>2, <2>1 DEF IsList
  <2> QED
    BY <1>4, <2>2, SeqInto
<1>6. IsList(other, c, n, s)
  BY <1>2, <1>4, <1>5 DEF IsList
<1> QED
  BY <1>1, <1>6

\* A map that got a value for a key.
Put(M, k, v) == [j \in DOMAIN M \cup {k} |-> IF j = k THEN v ELSE M[j]]

\* One key gets a value, and the others keep theirs.
LEMMA MapPut ==
  ASSUME NEW first, NEW nodes, NEW list, Lists(first, nodes, list),
         NEW start, NEW other, NEW l, Lists(start, other, l),
         NEW k \in Key, NEW v \in Value,
         NEW o \in DOMAIN other, other[o].key = k, other[o].value = v,
         \A m \in DOMAIN nodes : m \in DOMAIN other /\ other[m].key = nodes[m].key,
         \A m \in DOMAIN other : m # o => m \in DOMAIN nodes /\ other[m].value = nodes[m].value
  PROVE  MapOf(other) = Put(MapOf(nodes), k, v)
<1> DEFINE M == [j \in Keys(nodes) \cup {k} |-> IF j = k THEN v ELSE MapOf(nodes)[j]]
<1>1. Keys(other) = Keys(nodes) \cup {k}
  <2>1. ASSUME NEW j \in Keys(other) PROVE j \in Keys(nodes) \cup {k}
    <3>1. PICK m \in DOMAIN other : other[m].key = j
      BY <2>1 DEF Keys
    <3> QED
      BY <3>1 DEF Keys
  <2>2. ASSUME NEW j \in Keys(nodes) PROVE j \in Keys(other)
    BY <2>2 DEF Keys
  <2>3. k \in Keys(other)
    BY DEF Keys
  <2> QED
    BY <2>1, <2>2, <2>3
<1>2. M \in [Keys(other) -> Value]
  BY <1>1, MapIs
<1>3. ASSUME NEW m \in DOMAIN other PROVE M[other[m].key] = other[m].value
  <2>1. other[m].key \in Keys(nodes) \cup {k}
    BY <1>1 DEF Keys
  <2>2. CASE m = o
    BY <2>2
  <2>3. CASE m # o
    <3>1. other[m].key # k
      BY <2>3, KeyUnique
    <3>2. m \in DOMAIN nodes /\ other[m].value = nodes[m].value /\ other[m].key = nodes[m].key
      BY <2>3
    <3>3. MapOf(nodes)[nodes[m].key] = nodes[m].value
      BY <3>2, MapIs
    <3> QED
      BY <2>1, <3>1, <3>2, <3>3
  <2> QED
    BY <2>2, <2>3
<1> HIDE DEF M
<1>4. MapOf(other) = M
  BY <1>2, <1>3, MapUnique
<1>5. DOMAIN MapOf(nodes) = Keys(nodes)
  BY DEF MapOf, Keys
<1> QED
  BY <1>4, <1>5 DEF M, Put

\* Some keys go with their nodes, and the others keep their values.
LEMMA MapWithout ==
  ASSUME NEW first, NEW nodes, NEW list, Lists(first, nodes, list),
         NEW start, NEW other, NEW l, Lists(start, other, l), NEW keys,
         \A m \in DOMAIN nodes : m \in DOMAIN other <=> nodes[m].key \notin keys,
         \A m \in DOMAIN other : /\ m \in DOMAIN nodes /\ other[m].key = nodes[m].key
                                 /\ other[m].value = nodes[m].value
  PROVE  MapOf(other) = Without(MapOf(nodes), keys)
<1> DEFINE M == [j \in Keys(nodes) \ keys |-> MapOf(nodes)[j]]
<1>1. Keys(other) = Keys(nodes) \ keys
  <2>1. ASSUME NEW j \in Keys(other) PROVE j \in Keys(nodes) \ keys
    <3>1. PICK m \in DOMAIN other : other[m].key = j
      BY <2>1 DEF Keys
    <3>2. m \in DOMAIN nodes /\ nodes[m].key = j /\ j \notin keys
      BY <3>1
    <3> QED
      BY <3>2 DEF Keys
  <2>2. ASSUME NEW j \in Keys(nodes) \ keys PROVE j \in Keys(other)
    <3>1. PICK m \in DOMAIN nodes : nodes[m].key = j
      BY <2>2 DEF Keys
    <3>2. m \in DOMAIN other /\ other[m].key = j
      BY <2>2, <3>1
    <3> QED
      BY <3>2 DEF Keys
  <2> QED
    BY <2>1, <2>2
<1>2. M \in [Keys(other) -> Value]
  BY <1>1, MapIs
<1>3. ASSUME NEW m \in DOMAIN other PROVE M[other[m].key] = other[m].value
  <2>1. other[m].key \in Keys(nodes) \ keys
    BY <1>1 DEF Keys
  <2>2. m \in DOMAIN nodes /\ other[m].value = nodes[m].value /\ other[m].key = nodes[m].key
    OBVIOUS
  <2>3. MapOf(nodes)[nodes[m].key] = nodes[m].value
    BY <2>2, MapIs
  <2> QED
    BY <2>1, <2>2, <2>3
<1> HIDE DEF M
<1>4. MapOf(other) = M
  BY <1>2, <1>3, MapUnique
<1>5. DOMAIN MapOf(nodes) = Keys(nodes)
  BY DEF MapOf, Keys
<1> QED
  BY <1>4, <1>5 DEF M, Without

LEMMA SetValue ==
  ASSUME NEW first, NEW nodes, NEW list, Lists(first, nodes, list),
         NEW n \in DOMAIN nodes, NEW v \in Value,
         NEW other, DOMAIN other = DOMAIN nodes, other[n] = [nodes[n] EXCEPT !.value = v],
         \A m \in DOMAIN nodes : m # n => other[m] = nodes[m]
  PROVE  /\ Lists(first, other, list)
         /\ \A m \in DOMAIN nodes : m \in DOMAIN other /\ other[m].key = nodes[m].key
         /\ \A m \in DOMAIN other : m # n => m \in DOMAIN nodes /\ other[m].value = nodes[m].value
         /\ n \in DOMAIN other /\ other[n].key = nodes[n].key /\ other[n].value = v
<1>1. \A m \in DOMAIN nodes : nodes[m] \in HashNode
  BY DEF Lists
<1>2. DOMAIN other = DOMAIN nodes
  OBVIOUS
<1>3. ASSUME NEW m \in DOMAIN nodes
      PROVE  /\ other[m] \in HashNode /\ other[m].key = nodes[m].key /\ other[m].next = nodes[m].next
             /\ other[m].value = IF m = n THEN v ELSE nodes[m].value
  <2>1. CASE m = n
    BY <1>1, <1>2, <2>1 DEF HashNode
  <2>2. CASE m # n
    BY <1>1, <1>2, <2>2
  <2> QED
    BY <2>1, <2>2
<1>4. ASSUME NEW b \in Bucket PROVE IsList(other, b, first[b], list[b])
  <2>1. IsList(nodes, b, first[b], list[b])
    BY DEF Lists
  <2>2. \A i \in 1..Len(list[b]) : list[b][i] \in DOMAIN nodes
    BY <2>1, ListIs
  <2> QED
    BY <1>2, <1>3, <2>1, <2>2 DEF IsList
<1>5. Lists(first, other, list)
  <2>1. DOMAIN other \subseteq Address /\ \A m \in DOMAIN other : other[m] \in HashNode
    BY <1>2, <1>3 DEF Lists
  <2>2. \A m \in DOMAIN other :
          \E i \in 1..Len(list[BucketOf(other[m].key)]) : list[BucketOf(other[m].key)][i] = m
    <3> SUFFICES ASSUME NEW m \in DOMAIN nodes
                 PROVE  \E i \in 1..Len(list[BucketOf(nodes[m].key)]) :
                          list[BucketOf(nodes[m].key)][i] = m
      BY <1>2, <1>3
    <3> QED
      BY DEF Lists
  <2>3. first \in [Bucket -> Address \cup {nullptr}] /\ DOMAIN list = Bucket
    BY DEF Lists
  <2> QED
    BY <1>4, <2>1, <2>2, <2>3 DEF Lists
<1> QED
  BY <1>2, <1>3, <1>5

\* A node that another one follows, and a new one.
Linked(node, next) == [node EXCEPT !.next = next]
NewNode(k, v) == [key |-> k, value |-> v, next |-> nullptr]

\* The first nodes and the nodes when a came to the end of the list s of b.
Grown(first, nodes, s, b, k, v, a, start, other) ==
  /\ start \in [Bucket -> Address \cup {nullptr}]
  /\ start[b] = IF Len(s) = 0 THEN a ELSE first[b]
  /\ \A c \in Bucket : c # b => start[c] = first[c]
  /\ DOMAIN other = DOMAIN nodes \cup {a} /\ other[a] = NewNode(k, v)
  /\ \A n \in DOMAIN nodes :
       other[n] = IF Len(s) # 0 /\ n = s[Len(s)] THEN Linked(nodes[n], a) ELSE nodes[n]

\* And when the i-th node went from it.
Cut(first, nodes, s, b, i, start, other) ==
  /\ start \in [Bucket -> Address \cup {nullptr}]
  /\ start[b] = IF i = 1 THEN nodes[s[i]].next ELSE first[b]
  /\ \A c \in Bucket : c # b => start[c] = first[c]
  /\ DOMAIN other = DOMAIN nodes \ {s[i]}
  /\ \A n \in DOMAIN other :
       other[n] = IF i # 1 /\ n = s[i - 1] THEN Linked(nodes[n], nodes[s[i]].next) ELSE nodes[n]

LEMMA AddNode ==
  ASSUME NEW first, NEW nodes, NEW list, Lists(first, nodes, list),
         NEW k \in Key, \A n \in DOMAIN nodes : nodes[n].key # k, NEW v \in Value,
         NEW b \in Bucket, b = BucketOf(k), NEW s, s = list[b],
         NEW a \in Address \ DOMAIN nodes,
         NEW start, NEW other, Grown(first, nodes, s, b, k, v, a, start, other)
  PROVE  /\ \E l : Lists(start, other, l)
         /\ MapOf(other) = Put(MapOf(nodes), k, v)
<1> USE DEF Grown
<1>1. IsList(nodes, b, first[b], s) /\ DOMAIN nodes \subseteq Address
  BY DEF Lists
<1>2. PICK len \in Nat : len = Len(s)
  BY <1>1, ListIs
<1>3. \A i \in 1..len : s[i] \in DOMAIN nodes
  BY <1>1, <1>2, ListIs
<1>4. /\ DOMAIN other = DOMAIN nodes \cup {a} /\ a \notin DOMAIN nodes
      /\ other[a] = NewNode(k, v)
      /\ \A n \in DOMAIN nodes :
           other[n] = IF len # 0 /\ n = s[len] THEN Linked(nodes[n], a) ELSE nodes[n]
  BY <1>2
<1>5. a \in Address /\ a # nullptr /\ nullptr \notin DOMAIN nodes
  BY <1>1, AddressAssumption
<1>6. ASSUME NEW n \in DOMAIN nodes
      PROVE  /\ other[n] \in HashNode /\ other[n].key = nodes[n].key /\ other[n].value = nodes[n].value
             /\ other[n].next = IF len # 0 /\ n = s[len] THEN a ELSE nodes[n].next
  <2>1. nodes[n] \in HashNode
    BY DEF Lists
  <2>2. CASE len # 0 /\ n = s[len]
    <3>1. other[n] = Linked(nodes[n], a)
      BY <1>4, <2>2
    <3> QED
      BY <1>5, <2>1, <2>2, <3>1 DEF HashNode, Linked
  <2>3. CASE ~(len # 0 /\ n = s[len])
    BY <1>4, <2>1, <2>3
  <2> QED
    BY <2>2, <2>3
<1>7. other[a] \in HashNode /\ other[a].key = k /\ other[a].value = v /\ other[a].next = nullptr
  BY <1>4 DEF HashNode, NewNode
<1>8. PICK t : t = Append(s, a)
  OBVIOUS
<1>9. /\ t \in Seq(DOMAIN other) /\ Len(t) = len + 1 /\ t[len + 1] = a
      /\ \A i \in 1..len : t[i] = s[i]
  <2>1. PICK S : S = DOMAIN other
    OBVIOUS
  <2>2. s \in Seq(DOMAIN nodes)
    BY <1>1 DEF IsList
  <2>3. s \in Seq(S)
    <3>1. PICK R : R = DOMAIN nodes
      OBVIOUS
    <3>2. s \in Seq(R) /\ \A i \in 1..Len(s) : s[i] \in S
      BY <1>2, <1>3, <1>4, <2>1, <2>2, <3>1
    <3> QED
      BY <3>2, SeqInto
  <2>4. a \in S
    BY <1>4, <2>1
  <2>5. /\ t \in Seq(S) /\ Len(t) = Len(s) + 1 /\ t[Len(s) + 1] = a
        /\ \A i \in 1..Len(s) : t[i] = s[i]
    BY <1>8, <2>3, <2>4, AppendProperties
  <2> QED
    BY <1>2, <2>1, <2>5
<1>10. \A i \in 1..len : nodes[s[i]].key # k /\ BucketOf(nodes[s[i]].key) = b
  BY <1>1, <1>2, <1>3 DEF IsList
<1>11. IsList(other, b, start[b], t)
  <2>1. start[b] = IF Len(t) = 0 THEN nullptr ELSE t[1]
    <3>1. CASE len = 0
      <4>1. start[b] = a
        BY <1>2, <3>1 DEF Lists
      <4> QED
        BY <1>9, <3>1, <4>1
    <3>2. CASE len # 0
      <4>1. start[b] = s[1]
        BY <1>1, <1>2, <3>2 DEF IsList
      <4> QED
        BY <1>9, <3>2, <4>1
    <3> QED
      BY <3>1, <3>2
  <2>2. ASSUME NEW i \in 1..Len(t)
        PROVE  /\ other[t[i]].next = IF i = Len(t) THEN nullptr ELSE t[i + 1]
               /\ BucketOf(other[t[i]].key) = b
    <3>1. CASE i = len + 1
      BY <1>7, <1>9, <3>1
    <3>2. CASE i # len + 1
      <4>1. i \in 1..len /\ t[i] = s[i] /\ s[i] \in DOMAIN nodes /\ len # 0
        BY <1>3, <1>9, <3>2
      <4>2. s[i] = s[len] <=> i = len
        <5>1. len \in 1..len
          BY <4>1
        <5> QED
          BY <1>1, <1>2, <4>1, <5>1 DEF IsList
      <4>3. nodes[s[i]].next = IF i = len THEN nullptr ELSE s[i + 1]
        BY <1>1, <1>2, <4>1 DEF IsList
      <4>4. other[t[i]].next = IF i = len THEN a ELSE s[i + 1]
        BY <1>6, <4>1, <4>2, <4>3
      <4>5. i # len => t[i + 1] = s[i + 1]
        BY <1>9, <4>1
      <4> QED
        BY <1>6, <1>9, <1>10, <4>1, <4>4, <4>5
    <3> QED
      BY <3>1, <3>2
  <2>3. ASSUME NEW i \in 1..Len(t), NEW j \in 1..Len(t), other[t[i]].key = other[t[j]].key
        PROVE  i = j
    <3>1. \A l \in 1..Len(t) : l = len + 1 \/ (l \in 1..len /\ t[l] = s[l] /\ s[l] \in DOMAIN nodes)
      BY <1>3, <1>9
    <3>2. \A l \in 1..len : other[s[l]].key = nodes[s[l]].key /\ nodes[s[l]].key # k
      BY <1>3, <1>6, <1>10
    <3>3. other[t[len + 1]].key = k
      BY <1>7, <1>9
    <3>4. CASE i \in 1..len /\ j \in 1..len
      <4>1. nodes[s[i]].key = nodes[s[j]].key
        BY <1>9, <2>3, <3>2, <3>4
      <4> QED
        BY <1>1, <1>2, <3>4, <4>1 DEF IsList
    <3>5. CASE i = len + 1 /\ j \in 1..len
      BY <1>9, <2>3, <3>2, <3>3, <3>5
    <3>6. CASE i \in 1..len /\ j = len + 1
      BY <1>9, <2>3, <3>2, <3>3, <3>6
    <3> QED
      BY <3>1, <3>4, <3>5, <3>6
  <2> QED
    BY <1>9, <2>1, <2>2, <2>3 DEF IsList
<1> DEFINE l == [c \in Bucket |-> IF c = b THEN t ELSE list[c]]
<1>12. Lists(start, other, l)
  <2>1. DOMAIN other \subseteq Address /\ \A n \in DOMAIN other : other[n] \in HashNode
    BY <1>1, <1>4, <1>5, <1>6, <1>7
  <2>2. start \in [Bucket -> Address \cup {nullptr}]
    BY <1>5 DEF Lists
  <2>3. ASSUME NEW c \in Bucket PROVE IsList(other, c, start[c], l[c])
    <3>1. CASE c = b
      BY <1>11, <3>1
    <3>2. CASE c # b
      <4>1. start[c] = first[c]
        BY <3>2 DEF Lists
      <4>2. ASSUME NEW n \in DOMAIN nodes, BucketOf(nodes[n].key) = c
            PROVE  n \in DOMAIN other /\ other[n] = nodes[n]
        <5>1. ~(len # 0 /\ n = s[len])
          BY <1>10, <3>2, <4>2
        <5> QED
          BY <1>4, <5>1
      <4>3. IsList(other, c, first[c], list[c])
        BY <4>2, ListStays
      <4> QED
        BY <3>2, <4>1, <4>3
    <3> QED
      BY <3>1, <3>2
  <2>4. ASSUME NEW n \in DOMAIN other
        PROVE  \E i \in 1..Len(l[BucketOf(other[n].key)]) : l[BucketOf(other[n].key)][i] = n
    <3>1. CASE n = a
      <4>1. l[BucketOf(other[n].key)] = t
        BY <1>7, <3>1
      <4>2. len + 1 \in 1..Len(t)
        BY <1>9
      <4> QED
        BY <1>9, <3>1, <4>1, <4>2
    <3>2. CASE n \in DOMAIN nodes
      <4>1. PICK c \in Bucket : c = BucketOf(nodes[n].key)
        BY <3>2, NodeIs
      <4>2. PICK i \in 1..Len(list[c]) : list[c][i] = n
        BY <3>2, <4>1 DEF Lists
      <4>3. BucketOf(other[n].key) = c
        BY <1>6, <3>2, <4>1
      <4>4. CASE c = b
        <5>1. i \in 1..len /\ i \in 1..Len(t) /\ t[i] = n
          BY <1>2, <1>9, <4>2, <4>4
        <5> QED
          BY <4>3, <4>4, <5>1
      <4>5. CASE c # b
        BY <4>2, <4>3, <4>5
      <4> QED
        BY <4>4, <4>5
    <3> QED
      BY <1>4, <3>1, <3>2
  <2> HIDE DEF l
  <2>5. DOMAIN l = Bucket
    BY DEF l
  <2> QED
    BY <2>1, <2>2, <2>3, <2>4, <2>5 DEF Lists
<1> HIDE DEF l
<1>13. MapOf(other) = Put(MapOf(nodes), k, v)
  <2>1. /\ a \in DOMAIN other /\ other[a].key = k /\ other[a].value = v
        /\ \A m \in DOMAIN nodes : m \in DOMAIN other /\ other[m].key = nodes[m].key
        /\ \A m \in DOMAIN other : m # a => m \in DOMAIN nodes /\ other[m].value = nodes[m].value
    BY <1>4, <1>6, <1>7
  <2> QED
    BY <1>12, <2>1, MapPut
<1> QED
  BY <1>12, <1>13

\* s without its i-th element.
Dropped(s, i) == [j \in 1..Len(s) - 1 |-> IF j < i THEN s[j] ELSE s[j + 1]]

LEMMA DroppedIs ==
  ASSUME NEW S, NEW s \in Seq(S), NEW len \in Nat, len = Len(s), NEW i \in 1..len,
         NEW T, \A j \in 1..len : j # i => s[j] \in T,
         NEW t, t = Dropped(s, i)
  PROVE  t \in Seq(T) /\ t \in [1..len - 1 -> T]
<1>1. t = [j \in 1..len - 1 |-> IF j < i THEN s[j] ELSE s[j + 1]] /\ len - 1 \in Nat
  BY DEF Dropped
<1>2. ASSUME NEW j \in 1..len - 1 PROVE (IF j < i THEN s[j] ELSE s[j + 1]) \in T
  OBVIOUS
<1>3. t \in [1..len - 1 -> T]
  BY <1>1, <1>2
<1>4. t \in Seq(T)
  BY <1>1, <1>3, SeqDef
<1> QED
  BY <1>3, <1>4

LEMMA RemoveNode ==
  ASSUME NEW first, NEW nodes, NEW list, Lists(first, nodes, list),
         NEW b \in Bucket, NEW s, s = list[b],
         NEW i \in 1..Len(s), NEW start, NEW other, Cut(first, nodes, s, b, i, start, other)
  PROVE  \E l : Lists(start, other, l)
<1>0. PICK x :
        /\ x = s[i]
        /\ start \in [Bucket -> Address \cup {nullptr}]
        /\ start[b] = IF i = 1 THEN nodes[x].next ELSE first[b]
        /\ \A c \in Bucket : c # b => start[c] = first[c]
        /\ DOMAIN other = DOMAIN nodes \ {x}
        /\ \A n \in DOMAIN other :
             other[n] = IF i # 1 /\ n = s[i - 1] THEN Linked(nodes[n], nodes[x].next)
                        ELSE nodes[n]
  BY DEF Cut
<1> USE <1>0
<1>1. IsList(nodes, b, first[b], s) /\ DOMAIN nodes \subseteq Address
  BY DEF Lists
<1>2. PICK len \in Nat : len = Len(s)
  BY <1>1, ListIs
<1>3. \A j \in 1..len : s[j] \in DOMAIN nodes
  BY <1>1, <1>2, ListIs
<1>4. i \in 1..len /\ x = s[i] /\ x \in DOMAIN nodes
  BY <1>2, <1>3
<1>5. PICK y : y = nodes[x].next
  OBVIOUS
<1>6. /\ y = IF i = len THEN nullptr ELSE s[i + 1]
      /\ y \in Address \cup {nullptr}
  <2>1. y = IF i = len THEN nullptr ELSE s[i + 1]
    BY <1>1, <1>2, <1>4, <1>5 DEF IsList
  <2>2. nodes[x] \in HashNode
    BY <1>4 DEF Lists
  <2> QED
    BY <1>5, <2>1, <2>2 DEF HashNode
<1>7. \A j, m \in 1..len : s[j] = s[m] => j = m
  BY <1>1, <1>2 DEF IsList
<1>8. ASSUME NEW n \in DOMAIN other
      PROVE  /\ n \in DOMAIN nodes /\ n # x
             /\ other[n] \in HashNode /\ other[n].key = nodes[n].key /\ other[n].value = nodes[n].value
             /\ other[n].next = IF i # 1 /\ n = s[i - 1] THEN y ELSE nodes[n].next
  <2>1. nodes[n] \in HashNode
    BY <1>8 DEF Lists
  <2>2. CASE i # 1 /\ n = s[i - 1]
    <3>1. other[n] = Linked(nodes[n], y)
      BY <1>5, <2>2
    <3> QED
      BY <1>6, <2>1, <2>2, <3>1 DEF HashNode, Linked
  <2>3. CASE ~(i # 1 /\ n = s[i - 1])
    <3>1. other[n] = nodes[n]
      BY <2>3
    <3> QED
      BY <2>1, <2>3, <3>1
  <2> QED
    BY <2>2, <2>3
<1>9. \A j \in 1..len : j # i => s[j] \in DOMAIN other
  BY <1>3, <1>4, <1>7
<1>10. PICK t : t = Dropped(s, i)
  OBVIOUS
<1>11. /\ t \in Seq(DOMAIN other) /\ Len(t) = len - 1
       /\ \A j \in 1..len - 1 : t[j] = IF j < i THEN s[j] ELSE s[j + 1]
  <2>1. PICK S, T : S = DOMAIN nodes /\ T = DOMAIN other
    OBVIOUS
  <2>2. s \in Seq(S)
    BY <1>1, <2>1 DEF IsList
  <2>3. \A j \in 1..len : j # i => s[j] \in T
    BY <1>9, <2>1
  <2>4. t \in Seq(T) /\ t \in [1..len - 1 -> T]
    <3>1. i \in 1..len
      BY <1>4
    <3> QED
      BY <1>2, <1>10, <2>2, <2>3, <3>1, DroppedIs
  <2>5. \A j \in 1..len - 1 : t[j] = IF j < i THEN s[j] ELSE s[j + 1]
    BY <1>2, <1>10 DEF Dropped
  <2>6. Len(t) = len - 1
    <3>1. len - 1 \in Nat
      BY <1>4
    <3> QED
      BY <2>4, <3>1
  <2> QED
    BY <2>1, <2>4, <2>5, <2>6
\* where the elements of t are in s
<1> DEFINE Kept(j) == IF j < i THEN j ELSE j + 1
<1>12. ASSUME NEW j \in 1..len - 1
       PROVE  Kept(j) \in 1..len /\ Kept(j) # i /\ t[j] = s[Kept(j)] /\ s[Kept(j)] \in DOMAIN other
  <2>1. Kept(j) \in 1..len /\ Kept(j) # i
    BY <1>4
  <2>2. t[j] = s[Kept(j)]
    BY <1>11
  <2> QED
    BY <1>9, <2>1, <2>2
<1>13. IsList(other, b, start[b], t)
  <2>1. start[b] = IF Len(t) = 0 THEN nullptr ELSE t[1]
    <3>1. CASE i = 1
      <4>1. start[b] = y
        BY <1>5, <3>1 DEF Lists
      <4>2. len # 1 => t[1] = s[2]
        BY <1>4, <1>11, <3>1
      <4> QED
        BY <1>4, <1>6, <1>11, <3>1, <4>1, <4>2
    <3>2. CASE i # 1
      <4>1. start[b] = s[1]
        BY <1>1, <1>2, <1>4, <3>2 DEF IsList
      <4>2. t[1] = s[1] /\ len - 1 # 0
        BY <1>4, <1>11, <3>2
      <4> QED
        BY <1>11, <4>1, <4>2
    <3> QED
      BY <3>1, <3>2
  <2>2. ASSUME NEW j \in 1..len - 1
        PROVE  /\ other[t[j]].next = IF j = len - 1 THEN nullptr ELSE t[j + 1]
               /\ BucketOf(other[t[j]].key) = b
    <3>1. PICK m \in 1..len : m = Kept(j)
      BY <1>12
    <3>2. m # i /\ t[j] = s[m] /\ s[m] \in DOMAIN other
      BY <1>12, <3>1
    <3>3. BucketOf(other[t[j]].key) = b
      <4>1. BucketOf(nodes[s[m]].key) = b
        BY <1>1, <1>2 DEF IsList
      <4> QED
        BY <1>8, <3>2, <4>1
    <3>4. nodes[s[m]].next = IF m = len THEN nullptr ELSE s[m + 1]
      BY <1>1, <1>2 DEF IsList
    <3>5. CASE m = i - 1
      <4>1. other[s[m]].next = y
        BY <1>4, <1>8, <3>2, <3>5
      <4>2. j = i - 1 /\ (j = len - 1 <=> i = len)
        BY <1>4, <3>1, <3>5
      <4>3. i # len => t[j + 1] = s[i + 1]
        BY <1>4, <1>11, <4>2
      <4> QED
        BY <1>6, <3>2, <3>3, <4>1, <4>2, <4>3
    <3>6. CASE m # i - 1
      <4>1. ~(i # 1 /\ s[m] = s[i - 1])
        <5>1. i # 1 => i - 1 \in 1..len
          BY <1>4
        <5> QED
          BY <1>7, <3>6, <5>1
      <4>2. other[s[m]].next = nodes[s[m]].next
        BY <1>8, <3>2, <4>1
      <4>3. m = len <=> j = len - 1
        BY <1>4, <3>1, <3>6
      <4>4. j # len - 1 => t[j + 1] = s[m + 1]
        BY <1>4, <1>11, <3>1, <3>6
      <4> QED
        BY <3>2, <3>3, <3>4, <4>2, <4>3, <4>4
    <3> QED
      BY <3>5, <3>6
  <2>3. ASSUME NEW j \in 1..len - 1, NEW m \in 1..len - 1, other[t[j]].key = other[t[m]].key
        PROVE  j = m
    <3>1. PICK p \in 1..len, q \in 1..len : p = Kept(j) /\ q = Kept(m)
      BY <1>12
    <3>2. /\ t[j] = s[p] /\ s[p] \in DOMAIN other
          /\ t[m] = s[q] /\ s[q] \in DOMAIN other
      BY <1>12, <3>1
    <3>3. nodes[s[p]].key = nodes[s[q]].key
      BY <1>8, <2>3, <3>2
    <3>4. p = q
      BY <1>1, <1>2, <3>3 DEF IsList
    <3> QED
      BY <1>4, <3>1, <3>4
  <2> HIDE DEF Kept
  <2> QED
    BY <1>11, <2>1, <2>2, <2>3 DEF IsList
<1> DEFINE l == [c \in Bucket |-> IF c = b THEN t ELSE list[c]]
<1>14. Lists(start, other, l)
  <2>1. DOMAIN other \subseteq Address /\ \A n \in DOMAIN other : other[n] \in HashNode
    BY <1>1, <1>8
  <2>2. start \in [Bucket -> Address \cup {nullptr}]
    BY <1>5, <1>6 DEF Lists
  <2>3. ASSUME NEW c \in Bucket PROVE IsList(other, c, start[c], l[c])
    <3>1. CASE c = b
      BY <1>13, <3>1
    <3>2. CASE c # b
      <4>1. start[c] = first[c]
        BY <3>2 DEF Lists
      <4>2. \A j \in 1..len : BucketOf(nodes[s[j]].key) = b
        BY <1>1, <1>2 DEF IsList
      <4>3. ASSUME NEW n \in DOMAIN nodes, BucketOf(nodes[n].key) = c
            PROVE  n \in DOMAIN other /\ other[n] = nodes[n]
        <5>1. n # x /\ (i # 1 => n # s[i - 1])
          <6>1. i # 1 => i - 1 \in 1..len
            BY <1>4
          <6> QED
            BY <1>4, <3>2, <4>2, <4>3, <6>1
        <5> QED
          BY <5>1
      <4>4. IsList(other, c, first[c], list[c])
        BY <4>3, ListStays
      <4> QED
        BY <3>2, <4>1, <4>4
    <3> QED
      BY <3>1, <3>2
  <2>4. ASSUME NEW n \in DOMAIN other
        PROVE  \E j \in 1..Len(l[BucketOf(other[n].key)]) : l[BucketOf(other[n].key)][j] = n
    <3>1. n \in DOMAIN nodes /\ n # x
      BY <1>8
    <3>2. PICK c \in Bucket : c = BucketOf(nodes[n].key)
      BY <3>1, NodeIs
    <3>3. PICK m \in 1..Len(list[c]) : list[c][m] = n
      BY <3>1, <3>2 DEF Lists
    <3>4. BucketOf(other[n].key) = c
      BY <1>8, <3>2
    <3>5. CASE c = b
      <4>1. m \in 1..len /\ s[m] = n /\ m # i
        BY <1>2, <1>4, <3>1, <3>3, <3>5
      <4>2. PICK j \in 1..len - 1 : Kept(j) = m
        <5>1. CASE m < i
          <6>1. m \in 1..len - 1
            BY <1>4, <4>1, <5>1
          <6> QED
            BY <1>4, <5>1, <6>1
        <5>2. CASE m > i
          <6>1. m - 1 \in 1..len - 1 /\ Kept(m - 1) = m
            BY <1>4, <4>1, <5>2
          <6> QED
            BY <6>1
        <5> QED
          BY <1>4, <4>1, <5>1, <5>2
      <4>3. t[j] = n /\ j \in 1..Len(t)
        BY <1>11, <1>12, <4>1, <4>2
      <4> QED
        BY <3>4, <3>5, <4>3
    <3>6. CASE c # b
      BY <3>3, <3>4, <3>6
    <3> QED
      BY <3>5, <3>6
  <2> HIDE DEF l
  <2>5. DOMAIN l = Bucket
    BY DEF l
  <2> QED
    BY <2>1, <2>2, <2>3, <2>4, <2>5 DEF Lists
<1> HIDE DEF l
<1> QED
  BY <1>14

LEMMA EmptyList ==
  ASSUME NEW nodes, NEW b
  PROVE  IsList(nodes, b, nullptr, <<>>)
<1>1. PICK s : s = <<>>
  OBVIOUS
<1>2. Len(s) = 0 /\ s \in Seq(DOMAIN nodes) /\ 1..Len(s) = {}
  BY <1>1
<1>3. IsList(nodes, b, nullptr, s)
  BY <1>2 DEF IsList
<1> QED
  BY <1>1, <1>3

LEMMA EmptyBucket ==
  ASSUME NEW first, NEW nodes, NEW list, Lists(first, nodes, list),
         NEW b \in Bucket,
         NEW start \in [Bucket -> Address \cup {nullptr}], start[b] = nullptr,
         \A c \in Bucket : c # b => start[c] = first[c],
         NEW other, DOMAIN other = DOMAIN nodes \ ToSet(list[b]),
         \A n \in DOMAIN other : other[n] = nodes[n]
  PROVE  /\ \E l : Lists(start, other, l)
         /\ \A n \in DOMAIN nodes : n \in DOMAIN other <=> BucketOf(nodes[n].key) # b
<1> DEFINE s == list[b]
<1>1. IsList(nodes, b, first[b], s)
  BY DEF Lists
<1>2. ASSUME NEW n \in DOMAIN nodes PROVE n \in DOMAIN other <=> BucketOf(nodes[n].key) # b
  <2>1. DOMAIN s = 1..Len(s)
    BY <1>1, ListIs
  <2>2. CASE n \in ToSet(s)
    <3>1. PICK i \in 1..Len(s) : s[i] = n
      BY <2>1, <2>2 DEF ToSet
    <3> QED
      BY <1>1, <2>2, <3>1 DEF IsList
  <2>3. CASE n \notin ToSet(s)
    <3>1. ASSUME BucketOf(nodes[n].key) = b PROVE FALSE
      <4>1. PICK i \in 1..Len(s) : s[i] = n
        BY <3>1 DEF Lists
      <4> QED
        BY <2>1, <2>3, <4>1 DEF ToSet
    <3> QED
      BY <2>3, <3>1
  <2> QED
    BY <2>2, <2>3
<1>3. \A n \in DOMAIN other : n \in DOMAIN nodes /\ other[n] = nodes[n]
  OBVIOUS
<1> DEFINE l == [c \in Bucket |-> IF c = b THEN <<>> ELSE list[c]]
<1>4. Lists(start, other, l)
  <2>1. DOMAIN other \subseteq Address /\ \A n \in DOMAIN other : other[n] \in HashNode
    BY <1>3 DEF Lists
  <2>2. start \in [Bucket -> Address \cup {nullptr}]
    BY DEF Lists
  <2>3. ASSUME NEW c \in Bucket PROVE IsList(other, c, start[c], l[c])
    <3>1. CASE c = b
      <4>1. start[c] = nullptr /\ l[c] = <<>>
        BY <3>1 DEF Lists
      <4> QED
        BY <4>1, EmptyList
    <3>2. CASE c # b
      <4>1. start[c] = first[c]
        BY <3>2 DEF Lists
      <4>2. \A n \in DOMAIN nodes :
              BucketOf(nodes[n].key) = c => n \in DOMAIN other /\ other[n] = nodes[n]
        BY <1>2, <1>3, <3>2
      <4>3. IsList(other, c, first[c], list[c])
        BY <4>2, ListStays
      <4> QED
        BY <3>2, <4>1, <4>3
    <3> QED
      BY <3>1, <3>2
  <2>4. ASSUME NEW n \in DOMAIN other
        PROVE  \E j \in 1..Len(l[BucketOf(other[n].key)]) : l[BucketOf(other[n].key)][j] = n
    <3>1. n \in DOMAIN nodes /\ other[n] = nodes[n]
      BY <1>3
    <3>2. PICK c \in Bucket : c = BucketOf(nodes[n].key)
      BY <3>1, NodeIs
    <3>3. c # b
      BY <1>2, <3>1, <3>2
    <3>4. PICK m \in 1..Len(list[c]) : list[c][m] = n
      BY <3>1, <3>2 DEF Lists
    <3> QED
      BY <3>1, <3>2, <3>3, <3>4
  <2> HIDE DEF l
  <2>5. DOMAIN l = Bucket
    BY DEF l
  <2> QED
    BY <2>1, <2>2, <2>3, <2>4, <2>5 DEF Lists
<1> HIDE DEF l
<1> QED
  BY <1>2, <1>4

-----------------------------------------------------------------------------
\* The invariant of the hash map.
HashInv == clearing \in 0..hashSize /\ \E list : Lists(head, heap, list)

LEMMA MappedNext ==
  ASSUME NEW list, Lists(head', heap', list)
  PROVE  Listed' = DOMAIN heap' /\ Mapped' = MapOf(heap')
<1>1. ListedIn(head', heap') = DOMAIN heap'
  BY ListedIs
<1>2. Listed' = DOMAIN heap'
  BY <1>1 DEF Listed, ListedIn
<1> QED
  BY <1>2 DEF Mapped, MapOf

LEMMA HashStart ==
  ASSUME HashInit
  PROVE  HashInv /\ Map!Init
<1>1. /\ head = [b \in Bucket |-> nullptr] /\ heap = <<>> /\ answer = NotFound
      /\ clearing = hashSize
  BY DEF HashInit
<1>2. DOMAIN heap = {}
  BY <1>1
<1>3. Lists(head, heap, [b \in Bucket |-> <<>>])
  <2>1. PICK list : list = [b \in Bucket |-> <<>>]
    OBVIOUS
  <2>2. ASSUME NEW b \in Bucket PROVE IsList(heap, b, head[b], list[b])
    <3>1. head[b] = nullptr /\ list[b] = <<>>
      BY <1>1, <2>1
    <3>2. Len(<<>>) = 0 /\ <<>> \in Seq(DOMAIN heap)
      OBVIOUS
    <3> QED
      BY <3>1, <3>2 DEF IsList
  <2>3. head \in [Bucket -> Address \cup {nullptr}] /\ DOMAIN list = Bucket
    BY <1>1, <2>1
  <2>4. Lists(head, heap, list)
    BY <1>2, <2>2, <2>3 DEF Lists
  <2> QED
    BY <2>1, <2>4
<1>4. clearing \in 0..hashSize
  BY <1>1, HashAssumption
<1>5. Mapped = <<>>
  <2>1. Mapped = MapOf(heap)
    BY <1>3, MappedIs
  <2>2. MapOf(heap) = [k \in {} |-> heap[CHOOSE n \in DOMAIN heap : heap[n].key = k].value]
    BY <1>2 DEF MapOf
  <2>3. MapOf(heap) = <<>>
    BY <2>2
  <2> QED
    BY <2>1, <2>3
<1> QED
  BY <1>1, <1>3, <1>4, <1>5 DEF HashInv, Map!Init

LEMMA FindStep ==
  ASSUME HashInv, NEW k \in Key, FindKey(k)
  PROVE  HashInv' /\ Map!Find(k)
<1>1. PICK list : Lists(head, heap, list)
  BY DEF HashInv
<1>2. Mapped = MapOf(heap)
  BY <1>1, MappedIs
<1>3. head' = head /\ heap' = heap /\ clearing' = clearing
  BY DEF FindKey
<1>4. Mapped' = Mapped
  BY <1>3 DEF Mapped, Listed
<1>5. answer' = IF k \in DOMAIN Mapped THEN Mapped[k] ELSE NotFound
  <2>1. PICK s : s = list[BucketOf(k)]
    OBVIOUS
  <2>2. IsList(heap, BucketOf(k), head[BucketOf(k)], s)
    BY <1>1, <2>1, BucketIs DEF Lists
  <2>3. DOMAIN MapOf(heap) = Keys(heap)
    BY DEF MapOf, Keys
  <2>4. CASE (\A n \in DOMAIN heap : heap[n].key # k) /\ Search(k).node = nullptr
    <3>1. k \notin DOMAIN Mapped
      BY <1>2, <2>3, <2>4 DEF Keys
    <3> QED
      BY <2>4, <3>1 DEF FindKey
  <2>5. CASE \E i \in 1..Len(s) : heap[s[i]].key = k /\ Search(k).node = s[i]
    <3>1. PICK n \in DOMAIN heap : heap[n].key = k /\ Search(k).node = n
      BY <2>2, <2>5, ListIs
    <3>2. n # nullptr
      BY <1>1, NodeIs
    <3>3. k \in DOMAIN Mapped
      BY <1>2, <2>3, <3>1 DEF Keys
    <3>4. MapOf(heap)[heap[n].key] = heap[n].value
      BY <1>1, MapIs
    <3> QED
      BY <1>2, <3>1, <3>2, <3>3, <3>4 DEF FindKey
  <2> QED
    BY <1>1, <2>1, <2>4, <2>5, SearchIs
<1> QED
  BY <1>3, <1>4, <1>5 DEF HashInv, Map!Find

LEMMA ClearStep ==
  ASSUME HashInv, ClearBucket
  PROVE  HashInv' /\ \E keys \in {{k \in Key : BucketOf(k) = b} : b \in Bucket} : Map!Remove(keys)
<1>1. PICK list : Lists(head, heap, list)
  BY DEF HashInv
<1>2. Mapped = MapOf(heap)
  BY <1>1, MappedIs
<1>3. PICK b \in Bucket : b = clearing
  BY HashAssumption DEF HashInv, ClearBucket, Bucket
<1>4. PICK s : s = list[b]
  OBVIOUS
<1>5. PICK first, nodes, start, other :
        first = head /\ nodes = heap /\ start = head' /\ other = heap'
  OBVIOUS
<1>6. /\ start = [first EXCEPT ![b] = nullptr]
      /\ DOMAIN other = DOMAIN nodes \ ToSet(s)
      /\ \A n \in DOMAIN other : other[n] = nodes[n]
  <2>1. Chain(heap, head[b]) = s
    BY <1>1, <1>4, ChainIs
  <2> QED
    BY <1>3, <1>5, <2>1 DEF ClearBucket, Freed
<1>7. /\ \E l : Lists(start, other, l)
      /\ \A n \in DOMAIN nodes : n \in DOMAIN other <=> BucketOf(nodes[n].key) # b
  <2>1. Lists(first, nodes, list)
    BY <1>1, <1>5
  <2>2. DOMAIN other = DOMAIN nodes \ ToSet(list[b])
    BY <1>4, <1>6
  <2>3. /\ start \in [Bucket -> Address \cup {nullptr}] /\ start[b] = nullptr
        /\ \A c \in Bucket : c # b => start[c] = first[c]
    BY <1>6, <2>1 DEF Lists
  <2>4. \A n \in DOMAIN other : other[n] = nodes[n]
    BY <1>6
  <2> QED
    BY <2>1, <2>2, <2>3, <2>4, EmptyBucket
<1>8. PICK l : Lists(start, other, l)
  BY <1>7
<1>9. PICK keys : keys = {k \in Key : BucketOf(k) = b}
  OBVIOUS
<1>10. MapOf(other) = Without(MapOf(nodes), keys)
  <2>1. Lists(first, nodes, list)
    BY <1>1, <1>5
  <2>2. \A n \in DOMAIN nodes : n \in DOMAIN other <=> nodes[n].key \notin keys
    BY <1>7, <1>9, <2>1, NodeIs
  <2>3. \A n \in DOMAIN other : /\ n \in DOMAIN nodes /\ other[n].key = nodes[n].key
                                /\ other[n].value = nodes[n].value
    BY <1>6
  <2> QED
    BY <1>8, <2>1, <2>2, <2>3, MapWithout
<1>11. Mapped' = Without(Mapped, keys)
  <2>1. Lists(head', heap', l)
    BY <1>5, <1>8
  <2>2. Mapped' = MapOf(heap')
    BY <2>1, MappedNext
  <2> QED
    BY <1>2, <1>5, <1>10, <2>2
<1>12. clearing' \in 0..hashSize
  BY HashAssumption DEF HashInv, ClearBucket
<1>13. HashInv'
  BY <1>5, <1>8, <1>12 DEF HashInv
<1>14. Map!Remove(keys)
  BY <1>11 DEF Map!Remove, Without, ClearBucket
<1> QED
  BY <1>9, <1>13, <1>14

LEMMA InsertStep ==
  ASSUME HashInv, NEW k \in Key, NEW v \in Value, InsertKey(k, v)
  PROVE  HashInv' /\ Map!Insert(k, v)
<1>1. PICK list : Lists(head, heap, list)
  BY DEF HashInv
<1>2. Mapped = MapOf(heap) /\ answer' = answer /\ clearing' = clearing
  BY <1>1, MappedIs DEF InsertKey
<1>3. PICK b \in Bucket : b = BucketOf(k)
  BY BucketIs
<1>4. PICK s : s = list[b]
  OBVIOUS
<1>5. PICK first, nodes, start, other :
        first = head /\ nodes = heap /\ start = head' /\ other = heap'
  OBVIOUS
<1>6. Lists(first, nodes, list) /\ IsList(nodes, b, first[b], s)
  BY <1>1, <1>4, <1>5 DEF Lists
<1>7. Len(s) \in Nat /\ \A i \in 1..Len(s) : s[i] \in DOMAIN nodes
  BY <1>6, ListIs
<1>8. \A n \in DOMAIN nodes : n # nullptr
  BY <1>6, NodeIs
<1>9. ASSUME \E l : Lists(start, other, l), MapOf(other) = Put(MapOf(nodes), k, v)
      PROVE  HashInv' /\ Map!Insert(k, v)
  <2>1. PICK l : Lists(head', heap', l)
    BY <1>5, <1>9
  <2>2. Mapped' = Put(Mapped, k, v)
    BY <1>2, <1>5, <1>9, <2>1, MappedNext
  <2> QED
    BY <1>2, <2>1, <2>2 DEF HashInv, Map!Insert, Put
<1>10. CASE \E i \in 1..Len(s) : nodes[s[i]].key = k /\ Search(k).node = s[i]
  <2>1. PICK n \in DOMAIN nodes : nodes[n].key = k /\ Search(k).node = n
    BY <1>7, <1>10
  <2>2. start = first /\ other = [nodes EXCEPT ![n].value = v]
    BY <1>5, <1>8, <2>1 DEF InsertKey
  <2>3. /\ DOMAIN other = DOMAIN nodes /\ other[n] = [nodes[n] EXCEPT !.value = v]
        /\ \A m \in DOMAIN nodes : m # n => other[m] = nodes[m]
    BY <2>2
  <2>4. /\ Lists(first, other, list)
        /\ \A m \in DOMAIN nodes : m \in DOMAIN other /\ other[m].key = nodes[m].key
        /\ \A m \in DOMAIN other : m # n => m \in DOMAIN nodes /\ other[m].value = nodes[m].value
        /\ n \in DOMAIN other /\ other[n].key = nodes[n].key /\ other[n].value = v
    BY <1>6, <2>3, SetValue
  <2>5. other[n].key = k
    BY <2>1, <2>4
  <2>6. MapOf(other) = Put(MapOf(nodes), k, v)
    BY <1>6, <2>4, <2>5, MapPut
  <2> QED
    BY <1>9, <2>2, <2>4, <2>6
<1>11. CASE /\ \A n \in DOMAIN nodes : nodes[n].key # k
            /\ Search(k).node = nullptr
            /\ Search(k).prev = IF Len(s) = 0 THEN nullptr ELSE s[Len(s)]
  <2>1. PICK a \in Address \ DOMAIN nodes : a = Allocated
    BY <1>1, <1>5, <1>11, AllocatedIs
  <2>2. PICK grown :
          grown = [n \in DOMAIN nodes \cup {a} |->
                     IF n = a THEN [key |-> k, value |-> v, next |-> nullptr] ELSE nodes[n]]
    OBVIOUS
  <2>3. \/ Len(s) = 0 /\ start = [first EXCEPT ![b] = a] /\ other = grown
        \/ Len(s) # 0 /\ start = first /\ other = [grown EXCEPT ![s[Len(s)]].next = a]
    <3>1. Len(s) # 0 => s[Len(s)] # nullptr
      <4>1. Len(s) # 0 => Len(s) \in 1..Len(s)
        BY <1>7
      <4> QED
        BY <1>7, <1>8, <4>1
    <3>2. CASE Len(s) = 0
      BY <1>3, <1>5, <1>11, <2>1, <2>2, <3>2 DEF InsertKey
    <3>3. CASE Len(s) # 0
      BY <1>3, <1>5, <1>11, <2>1, <2>2, <3>1, <3>3 DEF InsertKey
    <3> QED
      BY <3>2, <3>3
  <2>4. /\ start \in [Bucket -> Address \cup {nullptr}]
        /\ start[b] = IF Len(s) = 0 THEN a ELSE first[b]
        /\ \A c \in Bucket : c # b => start[c] = first[c]
    <3>1. first \in [Bucket -> Address \cup {nullptr}]
      BY <1>6 DEF Lists
    <3> QED
      BY <2>3, <3>1
  <2>5. /\ DOMAIN other = DOMAIN nodes \cup {a}
        /\ other[a] = NewNode(k, v)
        /\ \A n \in DOMAIN nodes :
             other[n] = IF Len(s) # 0 /\ n = s[Len(s)] THEN Linked(nodes[n], a)
                        ELSE nodes[n]
    <3>1. Len(s) # 0 => s[Len(s)] \in DOMAIN nodes
      <4>1. Len(s) # 0 => Len(s) \in 1..Len(s)
        BY <1>7
      <4> QED
        BY <1>7, <4>1
    <3>2. CASE Len(s) = 0
      BY <2>1, <2>2, <2>3, <3>2 DEF NewNode, Linked
    <3>3. CASE Len(s) # 0
      BY <2>1, <2>2, <2>3, <3>1, <3>3 DEF NewNode, Linked
    <3> QED
      BY <3>2, <3>3
  <2>6. Grown(first, nodes, s, b, k, v, a, start, other)
    BY <2>4, <2>5 DEF Grown
  <2>7. (\E l : Lists(start, other, l)) /\ MapOf(other) = Put(MapOf(nodes), k, v)
    <3>1. \A n \in DOMAIN nodes : nodes[n].key # k
      BY <1>11
    <3>2. Lists(first, nodes, list)
      BY <1>6
    <3> QED
      BY <1>3, <1>4, <2>6, <3>1, <3>2, AddNode
  <2> QED
    BY <1>9, <2>7
<1> QED
  BY <1>1, <1>3, <1>4, <1>5, <1>10, <1>11, SearchIs

LEMMA EraseStep ==
  ASSUME HashInv, NEW k \in Key, EraseKey(k)
  PROVE  HashInv' /\ Map!Remove({k})
<1>1. PICK list : Lists(head, heap, list)
  BY DEF HashInv
<1>2. Mapped = MapOf(heap) /\ answer' = answer /\ clearing' = clearing
  BY <1>1, MappedIs DEF EraseKey
<1>3. PICK b \in Bucket : b = BucketOf(k)
  BY BucketIs
<1>4. PICK s : s = list[b]
  OBVIOUS
<1>5. PICK first, nodes, start, other :
        first = head /\ nodes = heap /\ start = head' /\ other = heap'
  OBVIOUS
<1>6. Lists(first, nodes, list) /\ IsList(nodes, b, first[b], s)
  BY <1>1, <1>4, <1>5 DEF Lists
<1>7. Len(s) \in Nat /\ \A i \in 1..Len(s) : s[i] \in DOMAIN nodes
  BY <1>6, ListIs
<1>8. \A n \in DOMAIN nodes : n # nullptr
  BY <1>6, NodeIs
<1>9. PICK i \in 1..Len(s) : /\ nodes[s[i]].key = k /\ Search(k).node = s[i]
                             /\ Search(k).prev = IF i = 1 THEN nullptr ELSE s[i - 1]
  <2>1. Search(k).node # nullptr
    BY DEF EraseKey
  <2> QED
    BY <1>1, <1>3, <1>4, <1>5, <2>1, SearchIs
<1>10. PICK x \in DOMAIN nodes : x = s[i]
  BY <1>7
<1>11. PICK y : y = nodes[x].next
  OBVIOUS
<1>12. i # 1 => i - 1 \in 1..Len(s) /\ s[i - 1] \in DOMAIN nodes /\ s[i - 1] # x
  <2>1. i # 1 => i - 1 \in 1..Len(s)
    BY <1>7
  <2> QED
    BY <1>6, <1>7, <1>10, <2>1 DEF IsList
<1>13. PICK freed : freed = [n \in DOMAIN nodes \ {x} |-> nodes[n]]
  OBVIOUS
<1>14. \/ i = 1 /\ start = [first EXCEPT ![b] = y] /\ other = freed
       \/ i # 1 /\ start = first /\ other = [freed EXCEPT ![s[i - 1]].next = y]
  <2>1. freed = Freed({x})
    BY <1>5, <1>13 DEF Freed
  <2>2. CASE i = 1
    BY <1>3, <1>5, <1>9, <1>10, <1>11, <2>1, <2>2 DEF EraseKey
  <2>3. CASE i # 1
    BY <1>5, <1>8, <1>9, <1>10, <1>11, <1>12, <2>1, <2>3 DEF EraseKey
  <2> QED
    BY <2>2, <2>3
<1>15. y \in Address \cup {nullptr}
  <2>1. nodes[x] \in HashNode
    BY <1>6 DEF Lists
  <2> QED
    BY <1>11, <2>1 DEF HashNode
<1>16. /\ start \in [Bucket -> Address \cup {nullptr}]
       /\ start[b] = IF i = 1 THEN y ELSE first[b]
       /\ \A c \in Bucket : c # b => start[c] = first[c]
  <2>1. first \in [Bucket -> Address \cup {nullptr}]
    BY <1>6 DEF Lists
  <2> QED
    BY <1>14, <1>15, <2>1
<1>17. /\ DOMAIN other = DOMAIN nodes \ {x}
       /\ \A n \in DOMAIN other :
            other[n] = IF i # 1 /\ n = s[i - 1] THEN Linked(nodes[n], y) ELSE nodes[n]
  <2>1. CASE i = 1
    BY <1>13, <1>14, <2>1 DEF Linked
  <2>2. CASE i # 1
    BY <1>12, <1>13, <1>14, <2>2 DEF Linked
  <2> QED
    BY <2>1, <2>2
<1>18. PICK l : Lists(start, other, l)
  <2>1. Cut(first, nodes, s, b, i, start, other)
    BY <1>10, <1>11, <1>16, <1>17 DEF Cut
  <2> QED
    BY <1>4, <1>6, <2>1, RemoveNode
<1>19. MapOf(other) = Without(MapOf(nodes), {k})
  <2>1. \A n \in DOMAIN nodes : n \in DOMAIN other <=> nodes[n].key \notin {k}
    <3>1. \A n \in DOMAIN nodes : nodes[n].key = k => n = x
      BY <1>6, <1>9, <1>10, KeyUnique
    <3> QED
      BY <1>9, <1>10, <1>17, <3>1
  <2>2. ASSUME NEW n \in DOMAIN other
        PROVE  n \in DOMAIN nodes /\ other[n].key = nodes[n].key /\ other[n].value = nodes[n].value
    <3>1. n \in DOMAIN nodes /\ nodes[n] \in HashNode
      BY <1>6, <1>17 DEF Lists
    <3>2. other[n] = Linked(nodes[n], y) \/ other[n] = nodes[n]
      BY <1>17
    <3> QED
      BY <3>1, <3>2 DEF HashNode, Linked
  <2> QED
    BY <1>6, <1>18, <2>1, <2>2, MapWithout
<1>20. Mapped' = Without(Mapped, {k})
  <2>1. Lists(head', heap', l)
    BY <1>5, <1>18
  <2> QED
    BY <1>2, <1>5, <1>19, <2>1, MappedNext
<1> QED
  BY <1>2, <1>5, <1>18, <1>20 DEF HashInv, Map!Remove, Without

\* The hash map implements the map, and every node is in a list: lists without
\* cycles, each key in one node, in the list of its bucket (safe_hash_node.h).
THEOREM MapCorrect == HashSpec => MapSpec
<1>1. HashInit => HashInv /\ Map!Init
  BY HashStart
<1>2. HashInv /\ [HashNext]_hashVars => HashInv' /\ [Map!Next]_<<Mapped, answer>>
  <2> SUFFICES ASSUME HashInv, [HashNext]_hashVars
               PROVE  HashInv' /\ [Map!Next]_<<Mapped, answer>>
    OBVIOUS
  <2>1. ASSUME NEW k \in Key, FindKey(k) PROVE HashInv' /\ Map!Next
    BY <2>1, FindStep DEF Map!Next
  <2>2. ASSUME NEW k \in Key, EraseKey(k) PROVE HashInv' /\ Map!Next
    BY <2>2, EraseStep DEF Map!Next
  <2>3. ASSUME NEW k \in Key, NEW v \in Value, InsertKey(k, v) PROVE HashInv' /\ Map!Next
    BY <2>3, InsertStep DEF Map!Next
  <2>4. ASSUME ClearBucket PROVE HashInv' /\ Map!Next
    BY <2>4, ClearStep DEF Map!Next
  <2>5. ASSUME StartClear \/ UNCHANGED hashVars
        PROVE  HashInv' /\ UNCHANGED <<Mapped, answer>>
    <3>1. head' = head /\ heap' = heap /\ answer' = answer
      BY <2>5 DEF StartClear, hashVars
    <3>2. clearing' \in 0..hashSize
      BY <2>5, HashAssumption DEF HashInv, StartClear, hashVars
    <3>3. Mapped' = Mapped
      BY <3>1 DEF Mapped, Listed
    <3> QED
      BY <3>1, <3>2, <3>3 DEF HashInv
  <2> QED
    BY <2>1, <2>2, <2>3, <2>4, <2>5 DEF HashNext
<1>3. HashInv => DOMAIN heap = Listed
  BY MappedIs DEF HashInv
<1> QED
  BY <1>1, <1>2, <1>3, PTL DEF HashSpec, MapSpec, Map!Spec
=============================================================================
