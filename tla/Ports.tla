-------------------------------- MODULE Ports --------------------------------
(***************************************************************************)
(* The ports of a node and the sockets under them (adhoc/routing_protocol, *)
(* hardware/hardware_aodv, socket/udp_socket).  The application adds and    *)
(* removes ports and handles packets; every socket has a detached thread   *)
(* that moves what arrives into the socket's queue, and nobody stops that  *)
(* thread when the socket is deleted.                                      *)
(*                                                                         *)
(* External: the kernel.  It gives out a free descriptor, a closed one too *)
(* (the lowest; here any), and keeps a closed socket for a thread that     *)
(* waits on it.  And the heap: a new object may take the memory of a       *)
(* deleted one, and what a thread does to its object it then does to the   *)
(* new one.  What it reads in memory that is free is undefined: here any   *)
(* descriptor; what it writes there is lost, or is the end of the program. *)
(***************************************************************************)
EXTENDS FifoOps

CONSTANTS
  Port,           \* the Port objects
  PortId,         \* their ids, which need not be different
  ROUTING_PORT,
  UDP_QUEUE_SIZE,
  MaxSockets      \* bound of the model: sockets made

ASSUME PortIdAssumption == \A p \in Port : PortId[p] # ROUTING_PORT
ASSUME SocketsAssumption == MaxSockets \in Nat \ {0} /\ UDP_QUEUE_SIZE \in Nat \ {0}

VARIABLES
  ports,       \* id -> port
  portSockets, \* id -> its socket
  sockets,     \* every UDPSocket made: [at, port, sockfd, live, waits, messages]; at is
               \* its memory, waits the socket its thread waits on, 0 between two calls
               \* of recvfrom
  kernel,      \* descriptor -> the socket bound through it
  process      \* "running", "destructed" without its HardwareAODV, or "exited"

portVars == <<ports, portSockets, sockets, kernel, process>>

Descriptor == 1..MaxSockets

\* initSocket, bindToPort, and the start of the receive thread.
NewSocket(a, id, fd) ==
  [at |-> a, port |-> id, sockfd |-> fd, live |-> TRUE, waits |-> 0, messages |-> <<>>]

\* The object that is in memory now.
There(a) == {s \in DOMAIN sockets : sockets[s].live /\ sockets[s].at = a}

PortsInit ==
  /\ ports = <<>> /\ portSockets = <<>>
  /\ sockets = <<NewSocket(1, ROUTING_PORT, 1)>>
  /\ kernel = [fd \in {1} |-> 1]
  /\ process = "running"

With(map, key, value) == [k \in DOMAIN map \cup {key} |-> IF k = key THEN value ELSE map[k]]
Without(map, keys) == [k \in DOMAIN map \ keys |-> map[k]]

Exit == process' = "exited" /\ UNCHANGED <<sockets, kernel>>
-----------------------------------------------------------------------------
(* The application.                                                        *)

BuildPort(id) ==
  \E fd \in Descriptor \ DOMAIN kernel, a \in 1..Len(sockets) + 1 :
    /\ There(a) = {}
    /\ sockets' = Append(sockets, NewSocket(a, id, fd))
    /\ kernel' = With(kernel, fd, Len(sockets) + 1)
    /\ portSockets' = With(portSockets, id, Len(sockets) + 1)
    /\ UNCHANGED process

\* A socket that cannot be made or bound ends the program.
AddPort ==
  /\ process = "running" /\ Len(sockets) < MaxSockets
  /\ \E p \in Port :
       /\ PortId[p] \notin DOMAIN ports
       /\ ports' = With(ports, PortId[p], p)
       /\ BuildPort(PortId[p]) \/ (Exit /\ UNCHANGED portSockets)

\* The destructors of UDPSocket and of Socket both close the descriptor, which
\* nobody else opens in between; the second close fails.
Delete(deleted) ==
  /\ sockets' = [s \in DOMAIN sockets |-> [sockets[s] EXCEPT !.live = @ /\ s \notin deleted]]
  /\ kernel' = Without(kernel, {sockets[s].sockfd : s \in deleted})

DestroyPort(id) ==
  IF id \in DOMAIN portSockets
  THEN Delete({portSockets[id]}) /\ portSockets' = Without(portSockets, {id})
  ELSE UNCHANGED <<sockets, kernel, portSockets>>

\* Bug: the port stays registered without a socket.
BugStaysRegistered ==
  /\ process = "running"
  /\ \E p \in Port : PortId[p] \in DOMAIN ports /\ DestroyPort(PortId[p])
  /\ UNCHANGED <<ports, process>>

\* It is the id that counts: the port that goes may be another object.
RemovePort ==
  /\ process = "running"
  /\ \E p \in Port :
       /\ PortId[p] \in DOMAIN ports
       /\ DestroyPort(PortId[p])
       /\ ports' = Without(ports, {PortId[p]})
  /\ UNCHANGED process

Destruct ==
  /\ process = "running"
  /\ Delete({1} \cup {portSockets[id] : id \in DOMAIN portSockets})
  /\ portSockets' = <<>>
  /\ process' = "destructed"
  /\ UNCHANGED ports

\* handlePackets takes the messages of a socket one by one; what the node does
\* with them is in Aodv.
HandlePacket ==
  /\ process = "running"
  /\ \E s \in {1} \cup {portSockets[id] : id \in DOMAIN portSockets} :
       /\ sockets[s].messages # <<>>
       /\ sockets' = [sockets EXCEPT ![s].messages = FifoPop(@)]
  /\ UNCHANGED <<ports, portSockets, kernel, process>>
-----------------------------------------------------------------------------
(* The receive threads.                                                    *)

\* What thread s reads as its sockfd.
Sockfd(s) ==
  LET object == There(sockets[s].at)
  IN  IF object # {} THEN {sockets[t].sockfd : t \in object} ELSE Descriptor

\* receiveFrom reads sockfd and waits; without such a descriptor it fails, which ends
\* the program.
ReceiveFrom ==
  /\ process # "exited"
  /\ \E s \in DOMAIN sockets : \E fd \in Sockfd(s) :
       /\ sockets[s].waits = 0
       /\ \/ fd \notin DOMAIN kernel /\ Exit
          \/ /\ fd \in DOMAIN kernel
             /\ sockets' = [sockets EXCEPT ![s].waits = kernel[fd]]
             /\ UNCHANGED <<kernel, process>>
  /\ UNCHANGED <<ports, portSockets>>

\* Thread s moves a datagram into the queue of the object that is there.
PushInto(s) ==
  sockets' =
    [t \in DOMAIN sockets |->
       [sockets[t] EXCEPT !.waits = IF t = s THEN 0 ELSE @,
          !.messages = IF t \in There(sockets[s].at)
                       THEN FifoPush(@, sockets[sockets[s].waits].port, UDP_QUEUE_SIZE)
                       ELSE @]]

\* Datagrams go to one of the sockets bound to their port, closed ones included.
\* One without data ends the program.
PushMessage ==
  /\ process # "exited"
  /\ \E s \in DOMAIN sockets :
       /\ sockets[s].waits # 0
       /\ Exit \/ (PushInto(s) /\ UNCHANGED <<kernel, process>>)
  /\ UNCHANGED <<ports, portSockets>>

PortsNext ==
  \/ AddPort \/ RemovePort \/ Destruct \/ HandlePacket
  \/ ReceiveFrom \/ PushMessage

PortsSpec == PortsInit /\ [][PortsNext]_portVars
-----------------------------------------------------------------------------
\* No object was made before where s is.
NewMemory(s) == \A t \in 1..s - 1 : sockets[t].at # sockets[s].at

\* Socket s is there, its descriptor and its thread are its own, and so is all
\* that waits in its queue, unless it took over the memory of a deleted socket.
Listens(s, id) ==
  /\ sockets[s].live /\ sockets[s].port = id
  /\ sockets[s].sockfd \in DOMAIN kernel /\ kernel[sockets[s].sockfd] = s
  /\ sockets[s].waits \in {0, s}
  /\ NewMemory(s) => \A i \in DOMAIN sockets[s].messages : sockets[s].messages[i] = id

\* As long as the program runs, each registered port and the routing itself has a
\* socket that listens, whatever ports were removed before and their threads still
\* do with descriptors and memory that were given out again (sendPacket takes the
\* socket of a registered port without asking whether there is one,
\* hardware_aodv.cc:88).  A queue can hold what came for another port only where a
\* new socket is in the memory of a deleted one, whose thread pushes into it
\* (udp_socket.cc:158).
PortsListen ==
  process = "running" =>
    /\ Listens(1, ROUTING_PORT)
    /\ \A id \in DOMAIN ports : id \in DOMAIN portSockets /\ Listens(portSockets[id], id)
=============================================================================
