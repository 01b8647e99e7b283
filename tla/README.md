# Formal model of the ad hoc routing framework

TLA+ models of the routing framework in `src/` and of what lies under it, the TLC
runs that check them on small instances, and TLAPS proofs of their main
properties for every value of the constants.

Run a check with `tlc -config aodv_hello.cfg MCAodv`, a proof with
`tlapm AodvProofs.tla`. `PROJECT.json` lists the runs, the source lines behind
every definition, the mutants that show that a property can fail, the hazards
and the theorems.

## The system

The framework routes data packets between nodes (Raspberry Pis on Wi-Fi, or
nodes of the NS-3 simulator) that only hear some of the others.

| Component | State | Operations | Talks to |
|---|---|---|---|
| AODV protocol, `aodv/aodv.cc` and the helpers `aodv_rreq/rrep/rerr.cc` | own sequence number, request id, ids seen per originator, packets that wait per destination | `sendPacket`, `_handleRREQ`, `_handleRREP`, `_handleRERR`, `_handlePacket` | other nodes by packets; table; links |
| Routing table, `aodv/aodv_routing_table.cc` | destination -> next hop, sequence number, hops, active | updates from RREQ, RREP and hellos, deactivation | called by AODV (main thread) and `addLink` (hello thread) |
| Links and ports, `adhoc/routing_protocol.cc` | `m_neighbors`, `ports` | `addLink`, `resetLinks`, `linkExists`, `addPort`, `removePort` | hello monitor, REM, AODV |
| Hello monitor, `hello_monitor/` | when each neighbour was heard | `_updateNeighbors` (own thread, every 500 ms), `receiveHelloMessage` (main thread) | links, table |
| Data structures, `data_structures/` | ring buffer; hash map with a lock per bucket | push, peek, pop; find, insert, erase, clear | buffers of AODV, socket queues, RSSI maps |
| `HardwareAODV`, `HardwareHelloAODV`, `hardware/`, and the sockets, `socket/` | a socket, a descriptor, a receive thread and a bounded queue per port | `handlePackets`: handle a packet, then count its sender as heard | all of the above, the kernel |
| REM, `rem/`, `adhoc/network_monitor.cc` | models of the own battery and of signals, the models of the others | data points refit models, new models are broadcast, links are set from them | links, sockets, RSSI |
| RSSI capture, `hardware/hardware_rssi.cc`, `hardware/rssi/` | strength per MAC address, two maps between MAC and IP addresses, the walk over a radiotap header | capture thread; `addNeighbors`, `getRSSI` of the program | pcap, REM |
| NS-3 helper, `adhoc-routing/helper/` | bandwidth left per node, time of the hellos | send, receive, hello events | sockets of NS-3, AODV, hello monitor, REM |
| NS-3 node and socket, `network/model/` | devices, handlers, listeners; options and callbacks | register, unregister, receive from a device; set options | devices and transports of NS-3 |
| NS-3 radio, `wifi/model/wifi-phy.cc` | mode, current frame, scheduled events, channel; standard, channel table, MCS sets; A-MPDU account | receive, send, sleep, off, change of channel; set-up; durations | simulator events, MAC |
| Line of sight, `LOS_Determination/` | positions of spacecraft by time step | read, scale, `isThereLOS`, distance | - |

The pcap experiments, device scripts and the LED field test hold no routing
logic. `PROJECT.json` lists each component with what is modelled of it.

What is hard in this code, and what has to hold:

* **Packets meet in any order.** A request floods by several ways and is also
  answered by nodes on the way; replies, errors and hellos rewrite the same table
  entries. Floods have to end, next hops have to lead somewhere, requests must
  stay distinguishable, and no sequence number may come from nowhere.
* **Packets wait.** `sendPacket` on an inactive route buffers the packet, a reply
  sends it: it must be sent, once, and the loop that sends must end.
* **Links come and go** between any two handlers, because hellos run on another
  thread; `repairLink` and the RERR handler run when a link is missing.
* **Threads and locks**: the neighbours are emptied and rebuilt while handlers ask
  for links and report hellos; a socket is deleted under its receive thread, and its
  descriptor given out again; a neighbour enters two maps one after the other; a
  hash map is cleared while others use it.
* **Models go out of date.** A node's model is broadcast once, without sequence
  number or answer: the others must not go back to an older one, and a model that
  no longer fits must be replaced.
* **Events of the simulator.** A radio is told to send, sleep or change channel while
  the ends of header and frame are scheduled, and some calls come again later.
* **Order of configuration**: standard, channel, frequency, width, antennas, streams
  in any order; handlers and listeners before or after devices.
* **Indices, counters and lengths**: the ring buffer, `uint8_t` hop counts, radiotap
  fields of which the frame itself states the length, bandwidth that is used up.

## Modules

| Module | Models | State and actions |
|---|---|---|
| `AodvTable` | `AODVRoutingTable` | a table is a function from destination to entry (`NoEntry` = what the getters answer without one); an operator per update rule |
| `Aodv` | a network of `AODV` objects | a variable per field; an action per handler and outcome: `SendPacket`; `DropRREQ`, `AnswerRREQ`, `ForwardRREQ`; `CompleteDiscovery`, `ForwardRREP`; `HandleRERR`; `HandleData`; the hello thread's `AddLink`, `RefreshLinks`; the network's `Lose` |
| `AodvProperties`, `MCAodv` | - | what the network promises, and what comments say that the code does not do; small networks and traffic |
| `HelloMonitor` | the hello monitor of one node on its two threads | ages of the last packets, links, two mutexes, a program counter per thread, the socket's queue; the steps of the hello thread, of the main thread, and of the world |
| `NeighborLinks` | what the rest of the node sees of it | a set that grows by one or shrinks; the steps `AddLink` and `RefreshLinks` of `Aodv` |
| `Rem` | REM on every node | a record per measurement (`difCount`, state, number of points fitted), the models a node holds of others, its links, packets in order per pair of nodes; `UpdatePairData`, `UpdateLocalBatteryModel`, `UpdateLocalModels`, `HandleMonitoringPacket`, `Lose` |
| `Ports` | ports and sockets of a node, their receive threads, the kernel's descriptors | `AddPort`, `RemovePort`, `Destruct`, `HandlePacket`; `ReceiveFrom`, `PushMessage` of the threads, of deleted sockets too |
| `FifoOps`, `BoundedFifo`, `CircularQueue` | the ring buffer, and the queue it implements | storage and indices; `Push`, `Peek`, `Pop`; a sequence that gives up its oldest element when full |
| `HashMap`, `SafeMap` | the hash map, and the map it implements | bucket heads and nodes in memory that is used again; find, insert, erase, and clear bucket by bucket |
| `Radiotap` | `radiotap.cc`, `radiotap_capture.cc` | the iterator's members; initialization and one step of the walk, with its error returns |
| `Rssi` | `HardwareRSSI` | the capture thread on `Radiotap`, the three maps, a neighbour between its two insertions |
| `SimNode` | the NS-3 helper | clock in ticks, scheduled events, bandwidth, last-heard times, packets |
| `NsNode`, `NsSocket` | a node and a socket of NS-3 | devices, applications, handlers, listeners; options and callbacks |
| `WifiTable`, `WifiModes`, `Places` | channel table, modes, loops over a list that pass over elements | no state: lookups, rates, MCS |
| `WifiPhy` | an initialized radio | mode, frame, scheduled events with the time left, postponed calls, what it is tuned to |
| `WifiConfig` | the set-up of a radio | one record of the members the calls read and write; every setter and `ConfigureStandard` |
| `WifiDuration` | durations of frames | the A-MPDU account, as the only state of the duration functions |
| `Los` | line of sight and distance | the positions read, the step, the radius |
| `MCHardware`, `MCSimulation`, `MCWifiConfig`, `MCWifiPhy`, `MCRem`, `MCLos` | - | small instances for TLC; the first three put parts without common state next to each other |
| `AodvProofs`, `AodvPacketProofs` | - | theorems about `Aodv`: where a packet goes, and how many of it there are |
| `HardwareProofs` | - | theorems about `Ports`, `Rssi` with `Radiotap`, `CircularQueue`, `HashMap` and `HelloMonitor` |
| `RemProofs`, `SimulationProofs` | - | theorems about `Rem`; about `NsNode`, `NsSocket`, `SimNode` and `Los` |
| `WifiPhyProofs`, `WifiConfigProofs` | - | theorems about a radio that runs; about its set-up and the durations of its frames |
| `DataLemmas` | - | lemmas about numbers, finite sets, sequences and sums that those proofs share |

How they fit: `Aodv` takes the hello monitor as the two single steps of
`NeighborLinks`, which `HelloMonitor` implements; the queue of a socket and the
buffers of AODV are the FIFO (`FifoOps`) that `CircularQueue` implements. `Rssi`
extends `Radiotap`; `WifiPhy` and `WifiConfig` share `WifiTable`, and `WifiConfig` and
`WifiDuration` share `WifiModes`.

### How the models abstract the code

**`Aodv`.**
* A handler is one action. `handlePackets` runs on one thread and never
  interrupts a handler; everything a handler calls (helpers, table updates,
  `sendPacket`, `repairLink`) is part of its action. The hello thread's
  `_updateNeighbors` and the `addLink` of `receiveHelloMessage` are one action
  each; that this is sound is `LinksSpec` of `HelloMonitor`, where they are many.
  The unlocked accesses of the two threads to the routing table are not modelled.
* Packets in flight are the set `msgs`: any order, no duplication, loss only if
  `Lossy`. A broadcast is one packet per node in reach. Two equal packets in
  flight count as one. The receive queue of a socket is part of `msgs`.
* `Link` is radio range, `nbr` what a node believes (`m_neighbors`). A packet can
  be handled only from a node in range. A hello takes no packet of its own: at
  any time a node in range may be heard, and at any refresh any neighbour may
  have expired. This is every behaviour of the clock and more.
* Payload, port, length checks, reserved flags, the lifetime, and the RERR's sequence number
  (never read) are left out, and so are broadcast data packets. `RREQ_RETRIES`
  is 0, so the retry thread never starts.
* The drain loop of `_handleRREP` is one step. On an inactive route it would put
  every packet back for ever: such a node becomes a member of `hung`. That this
  never happens is `NoHang`, not an assumption.
* A new table entry of a hello holds uninitialized memory: a choice from
  `JunkChoice`. The run `aodv_hello` fills it with a sequence number that no node reaches and
  a hop count of 1, the others with zeros; the theorems hold for any.

**`HelloMonitor`.** A step ends where the other thread can tell. A section that
takes a mutex and only touches what it guards is one step; the round of the hello
thread, which fills the list node by node, and `receiveHelloMessage`, which
needs both mutexes, are several. Times are ages, saturated at `Horizon` (older
ages are not distinguished by anything); the clock is never set back.
`globalMux` is taken inside `resetLinks` only and is left out, and so is
`m_active`, which only `isActive` reads and nobody calls. One queue stands for the
queues of all sockets.

**`Rem`.** A value is the distance from what a model that is not `STABLE` predicts, in
units of `MIN_DEVIATION`. A regression is named by the number of points it was
made from; which points it explains is a choice. What a `STABLE` model predicts later
is any value; one that is not `STABLE` has no answer (`Unknown`), and only an owner's own model can be so. A packet takes its place in a queue per sender and receiver
(UDP between neighbours), and may be lost; `missed` is a history of what was.

**`Ports`.** The kernel is external: it gives out any free descriptor, a closed one too,
keeps a closed socket for a thread that waits on it, and hands a datagram to one of the
sockets of its port. The heap is external too: a new socket may take the memory of a deleted
one (`at`). A receive thread keeps the pointer it was started with: it reads the descriptor of, and pushes into the
queue of, whatever socket is in that memory now; in free memory it reads any descriptor, and
what it writes is lost or ends the program. Both closes of the destructors are one step,
as nothing opens a descriptor in between. A failed system call or an empty datagram
ends the process, as the code says.

**`HashMap`, `Rssi`.** An operation on a bucket holds the bucket's lock and is one step;
`clear` takes one bucket after the other; two operations on maps are two
steps. A byte of a frame is named by its offset.

**`Radiotap`.** Headers are words of present bits with the length the frame states; the
values of fields are their offsets. The vendor name space of the code is
modelled as the code fills it. A field of the vendor that its table does not have makes the code
go on where the vendor's data ends by its own account, before or after where it is. A header of a version other than 0
is refused.

**`SimNode`, `NsNode`, `NsSocket`.** The simulator runs an event to its end, so an event
is a step, and events of one tick come in any order. What AODV does with a packet
is in `Aodv`.

**`WifiPhy`.** Every scheduled event is the time left until it; whether a header or
payload can be decoded, which frame wins a capture, and how long the medium
stays busy are choices (interference and error models are other files).
Assertions do not stop the model: an optimized build goes on. The radio has a standard, in whose rows a channel number is
looked for first; a frequency is looked for in the rows of all; the width may also be set alone.
**`WifiConfig`** stops at `NS_FATAL_ERROR`, which stops every build. **`WifiDuration`** counts in whole
numbers and rounds where the code does: the `double` with the symbols of an A-MPDU so far goes up or down to
a `Grain`-th of a symbol, a duration to a step of the clock (`Resolution` of them in 200 ns). This model stops where the
assertion at `wifi-phy.cc:2210` fails, which it can after an A-MPDU was cut short. `GetDataRate`, which is in another file, is
taken as exact. HE multi-user preambles are not modelled.

**`Los`.** Whole numbers: positions are interpolated exactly, norms are compared squared. `sqrtf` (line 167) is off by up to one
part in `Precision`: where the comparison with the radius hangs on it, `isThereLOS` may answer either. The rounding of `double`s is
left out.

### Composition of parts without common state

`MCHardware`, `MCSimulation` and `MCWifiConfig` put state machines side by side that share
no state in their models. A product of their states would say nothing more, as no
step of one reads another; so each moves while the others are at their beginning,
and the states add up. Each disjunct is the whole next-state relation of its part.

## Runs

Passing runs:

| Run | Instance | Checks | Shows |
|---|---|---|---|
| `aodv_hello` | line of 3, no links known at first, 2 packets to the far end, 2 requests per node, hop counts that wrap at 2, one id remembered per originator, new entries with a sequence number that nobody had; 313k states | `TypeOK`, `NextHopKnows`, `ReceiverKnows`, `SenderKnows`, `NoHang`, `SeqGenuine`, `RequestsDistinct`, `SingleCopy`, `RequestsRemembered` | safety while links appear, expire and reappear between any two handlers: broken links, errors, renewed discovery, overwritten buffers, wrapped hop counts and ids that are forgotten all occur |
| `aodv_flood` | a is heard by b and c, which hear each other, and the destination is out of reach; packets lost or not; 1.7k | `FloodEnds` | floods end, whichever copy comes first |
| `aodv_delivery` | line of 3 with stable links, 3 packets from 2 sources, buffer of 2; 11k | `Delivery` | every packet arrives, by waiting in one buffer, after the answer of an intermediate node or of the destination |
| `hello_monitor` | one node with 2 neighbours, TTL 4 and half interval 1 (1000 and 250 ms), threads at most 1 unit late, one round per `sendHellos`; 517k | `FreshLinked`, `StaleBound`, `NoFalseDenial`, `LinksSpec`, `Forgotten`, `NoneStuck`, no deadlock | hellos, rounds and handlers in every interleaving: a node that was heard is linked and is never denied, one that left is dropped in time, neither thread starves the other |
| `rem_models` | 2 nodes, one measures its battery and the signal of the other, 6 points each, packets lost or not; 108k | `BatteryRecovers`, `QuietAgrees`, `NeverOlder`, `Synced` | a model that stopped fitting is replaced, no copy goes back, and copies agree with their owner when nothing about them is lost or on its way |
| `wifi_phy` | 6 kinds of frames (with preamble, part of an aggregate, its end, not decodable, cut short, weak), an 802.11b radio, channels 1 and 36 (its own row and one of no standard), a frequency and a width, 2 postponed calls; 384k | `ReceptionScheduled`, `OwnHeader`, `Tuned`, `RetuneSwitches`, no deadlock | send, sleep, off and changes of channel at any moment of a reception leave no event of it behind, no flag of an earlier frame, and no channel without its frequency and width |
| `wifi_config` | every sequence of 5 calls on 11 standards; aggregates of 3 frames in 16 ways to send, whole or after one that was cut short; 169k | `Aligned`, `HtModes`, `StandardSettles`, `AmpduIsWhole` | number and frequency agree, MCS sets are those of the streams, the frames of an aggregate last as long as one of their size, or of that and what was left by the one before |
| `hardware` | generated radiotap headers of one to four words; 3 ports, two of one id, 3 sockets; ring of 4; 3 keys in one of 2 buckets, 4 addresses; 764k | `FieldsTile`, `FieldsNamed`, `Watched`, `PortsListen`, `FifoSpec`, `MapSpec` | the parser reads every field at its place; ports keep their sockets whatever the threads of deleted ones do, in whatever memory; ring and hash map implement queue and map |
| `simulation` | 2 nodes of the helper for 4 ticks and 3 packets; a node with 2 devices, a socket, and orbits of 2 steps; 1.38M | `ListenersTold`, `OncePerPacket`, `BandwidthKept`, `SightIsClear`, `TosSettles` | the parts of the simulation, side by side |

Violation runs; each states what a comment says and TLC finds the code doing
something else (`findings` in `PROJECT.json`):

| Run | Property | What happens |
|---|---|---|
| `aodv_origin` | `OriginKept` | a node that buffered a packet of another sends it as its own |
| `aodv_error` | `ErrorHasReceiver` | a route error is sent to address 0 |
| `los_distance` | `DistanceIsEuclidean` | the squared y component is added twice, z never |

### Bounds

AODV: three nodes in a line are the least with a node that is neither source
nor destination, so that requests and replies are forwarded; two forwarders that hear the originator
and each other are the least in which copies of a request meet and could circle. `MaxRreq` bounds the requests a node
originates (a guard of `RequestRoute`, and so of every handler that originates
one): with 2, a second discovery meets the remains of the first. In
`aodv_delivery` the bound of 3 is the number of packets, so that it never
disables a handler that delivery needs. `PacketBufferSize` is 1 as in
`aodv_defines.h`, or 2 where waiting together is the point. `OldRreqCount` is 3
and out of reach where liveness is checked: with 1, an old copy whose id was evicted is taken for new by
everybody and goes round until its hop count wraps below that of the route, which it then replaces (the floods
of this run end then too). In `aodv_hello` it is 1, so that ids are evicted.
Hop counts wrap at 8 or 5 instead of 256, out of reach, or at 2 in `aodv_hello`, within reach.
Deadlock is not checked: a network in which every packet is handled and every
application has sent is at rest.

Hello monitor: two neighbours are the least for which a round is interrupted between two
`addLink`s. The unit of time is 250 ms, so that the time to live is the code's.
`Late` bounds how long a thread may take beyond its sleeps (a guard of `Tick`);
`StaleBound` depends on it and says so, the other properties do not. A duration of
one interval makes `sendHellos` return after each round, more often than
`_sendHelloThreaded`'s 200. The queue of a socket holds 1 message instead of 20.

REM: `INIT_COUNT`, `MAX_DIFF_COUNT` and the thresholds are the code's. `MaxPoints` 6 leaves room
for the first regression, later ones, and bad points in between. A value is 0 (on the model),
4 (more than four deviations off, if the deviation is 0, else within) or 8 (beyond `MAX_THRESH_DIFF`): the
three verdicts. Points run out, so that the system stops: deadlock is not checked.

Radio: `MaxPostponed` 2 lets two postponed calls be due at the same instant; the
shortest frames and delays with an instant strictly inside them. Set-up: five calls reach every
pair of a change and what it interferes with after standard and construction. Three frames make a first,
a middle and a last one of an aggregate; `MaxCuts` 1 leaves one cut short before it. `Grain` 5000 is enough for the largest
symbol (`GrainAssumption`), `Resolution` 3 makes durations that are no whole steps of the clock.

Hardware: two ports of one id and a third; three sockets, so that a descriptor is given out
again while the thread of its former socket runs; the queue of a UDP socket holds 1 message
instead of 20. Ring: capacity 4 and three
elements, so that it wraps, overwrites and empties. Hash map: keys that share a
bucket make lists of three; one address more than keys. Headers hold up to four words, both name spaces, fields
that no table has, and are cut short within and after their fields. Deadlock is not checked where the program may end.

Simulation: a second is 2 ticks, a hello comes every 4; 4 ticks see bandwidth taken, used
up and given back. Two devices and two handlers or listeners (`MaxHandlers`) are the least
for which an order matters; the places of `MCLos` lie on three sides of the asteroid and on its surface. `Precision` is 16 instead of 2^23, so that
the small places of the run have sights that the root decides.

### Fairness

`handlePackets` is called in an endless loop (`do-adhoc.cc`,
`field_test/main.cc`), so a node with packets to handle handles one in the end:
weak fairness of `Handle` per node, not per packet. Applications need not send,
hellos need not come, the network need not lose. `Delivery` is checked without
loss and with fixed links (`FairStaticSpec`), for the protocol promises delivery
in no other case; `FloodEnds` needs neither assumption on loss.

In `HelloMonitor` each thread runs on while it can (weak fairness), and waiting for
`helloMux` is strongly fair: neither thread holds it while it sleeps or waits for
packets, so it is free for most of every interval. Packets need not come.

In `Rem` a node handles what it has got in the end, by the same loop (weak fairness of
`HandleMonitoringPacket` per pair of nodes). Nobody need measure or update.

## Proofs

Each theorem holds for every value of the constants of its module that its named
`ASSUME`s admit: every network, traffic, buffer size and loss; every lateness of the
threads; every capacity, port, neighbour, frame, channel, call and second. What the
assumptions ask for is what the types of the code give: sets of numbers where the code
has unsigned integers, `VectorAssumption` (frames are sent in ways that have a rate), `SizeAssumption`
(no frame is empty), `GrainAssumption` (a byte is more than what the symbols of an A-MPDU lose to rounding: a `double` has grains of less than
10^-9), `PrecisionAssumption` (the root has some precision), `StandardAssumption`, `ChannelAssumption` and `ExtraAssumption`
(the members of the enumeration, the widths that `SetChannelWidth` asserts, and pairs of numbers for a channel).

| Theorem | Says |
|---|---|
| `AodvProofs!TypeCorrect` | `Spec => []TypeOK` |
| `NextHopKnowsCorrect`, `ReceiverKnowsCorrect`, `SenderKnowsCorrect` | next hops, receivers and senders know where a packet goes |
| `NoHangCorrect` | the drain loop ends |
| `RequestsDistinctCorrect` | request ids and sequence numbers of an originator grow together |
| `RequestsRememberedCorrect` | a node remembers the requests it has broadcast again as long as copies of its own are on the air, or only later ones |
| `SingleCopyCorrect`, `BufferBoundedCorrect` | a data packet is in one place only; no queue of waiting packets outgrows its bound |
| `SeqGenuineCorrect` | whatever the memory of new entries holds, no request is ahead of its originator, and a number said of a node is one it has reached or one from that memory |
| `HardwareProofs!TypeCorrect`, `FreshLinkedCorrect`, `NoFalseDenialCorrect` | the links follow the packets, whatever the threads do |
| `StaleBoundCorrect` | a link ends within `TTL + 2 HalfInterval + 4 Late` of the last packet |
| `LinksRefinement` | the hello monitor implements `NeighborLinks` |
| `QueueInvCorrect`, `Refinement` | the ring buffer's indices agree, and it implements `BoundedFifo`, for every capacity |
| `MapCorrect` | the hash map implements `SafeMap`, and no node is outside the lists |
| `RemProofs!TypeCorrect`, `BatteryRecoversCorrect` | REM is well typed; a battery model that does not fit is on its way to a new regression |
| `QuietAgreesCorrect`, `NeverOlderCorrect` | when the air is quiet, copies of a model predict with the fit its owner last adapted (the owner itself may just have no answer); copies never go back |
| `PortsListenCorrect` | every registered port has a socket, a descriptor and a thread of its own; in new memory it has its queue for itself too |
| `ReceptionScheduledCorrect`, `OwnHeaderCorrect` | the events and the flag of a reception are its own |
| `RetuneSwitchesCorrect` | only a switch changes the frequency, and it ends the reception |
| `TunedCorrect` | the channel number of a radio that runs is one that some standard has at its frequency, and of its width unless that was set alone since |
| `AlignedCorrect` | while a radio is set up, a number that is set is one of the frequency that is set |
| `StandardSettlesCorrect` | if definitions of channels are unambiguous (the assumption of the theorem, see below why it is needed), a configured standard leaves a frequency and the number that a search for it finds |
| `HtModesCorrect` | the modes of a radio are those of its streams and selectors, each once |
| `AmpduIsWholeCorrect` | the frames of an A-MPDU last together as long as one frame of their size, to a step of the clock each; after others that were cut short, as long as one of the size of all, less the symbols counted before; a header lasts as long as its bits |
| `FieldsTileCorrect`, `FieldsNamedCorrect` | the fields of every header are read at their places, as what they are, and none is left out but by a field that is not defined |
| `WatchedCorrect` | no strength and no IP address leads to a MAC address that is not watched |
| `ListenersToldCorrect`, `OncePerPacketCorrect` | listeners learn every device in order; a packet calls each handler attached to its device and protocol once per registration that is left |
| `TosSettlesCorrect` | type of service, priority and congestion bits of a socket |
| `SightIsClearCorrect` | two craft see each other iff the asteroid does not cut the segment between them, up to the error of the root |
| `BandwidthKeptCorrect` | what may be received, and what will be given back, make up the bandwidth |

`NextHopKnows`, `ReceiverKnows` and `SenderKnows` are not inductive one by one.
A node enters a next hop because it got a request or a reply from it, and the
entry is good because the *sender* had one (`SenderKnows`). A reply is sent to a
next hop, which has an entry because of `NextHopKnows` (`ReceiverKnows`), and is
forwarded because of that. Two more facts close the induction: an entry without
next hop has sequence number 0 and hop count 0 (`EmptyEntry`, so that a request
with a sequence number above 0 is always learnt from), and packets wait under
the address they are for (`WaitingForDest`, for drained packets). `KnownInv` is
their conjunction; `KnownNext` proves it step by step, one lemma per action. It
also rests on entries never being deleted. `NoHang` follows: a reply is only
passed over by an entry that is active. `RequestsDistinct` needs that no request
is ahead of its originator's counters, and that ids and sequence numbers differ
by a fixed amount between a node's own answers.

`RequestsRemembered` rests on a fact about `Remember` alone (`RememberKnown`): whatever id comes in, an id that was known
(kept, or smaller than all that are kept, of which there are `OLD_RREQ_COUNT`) stays known, and the new one is
known too, even when it is the one that goes. `MemoryStep` says of every action that it remembers what it
broadcasts again and forgets in no other way; ids are those of requests made because numbers of originators only grow.

For the hello monitor the inductive invariant is `IInv`: types, which thread holds
which mutex where (`LockInv`), and that a fresh node is in `links` or still in
`refill` (`LinkedInv`). `LockInv` also says that the node the main thread has linked
is still linked when it records the time, which is why `receiveHelloMessage` keeps
`helloMux` around `addLink`. The refinement maps the abstract links to `links \cup
refill`: `ResetLinks` takes the effect of the whole round, and `LinkedInv` makes it
take neighbours away only. For `StaleBound`, `StaleInv` bounds the age of every link
by the time since the last round, which each program counter bounds.

The refinement of the ring maps `Elements`, the stored slots from the front, to the abstract
queue; each step of the ring maps to the same step of the queue, by `IndexInv`.

That the hash map implements `SafeMap` rests on `HashInv`: there is a sequence of nodes for each bucket that
the pointers follow to their end, each key is in one node, and each node is in the list of its
bucket (`Lists`). The loops, which the model writes as a recursive function on pointers, then give that sequence
(`ChainIs`; without the invariant they need not end), the search the one node of a key or the last of the bucket (`SearchIs`), and
each operation the sequences after it: one longer (`AddNode`), one shorter (`RemoveNode`), none
(`EmptyBucket`). That a new node has an address of its own needs at least as many addresses as keys.

In REM the copies follow their owner because packets of one pair of nodes stay in order. The
inductive invariant `IInv` adds to the types: a model is fitted to no more points than there were, and
to `InitCount` at least (`FitsCounted`); a channel carries models of its sender (`OwnModels`);
packets about a measurement are in the order of their fits, between the receiver's copy and
the owner's model (`AirOrdered`, `NetOrdered`); and the last packet about a measurement has the
owner's fit (`LastIsModel`). `NeverOlder` is `AirOrdered` at the packet that is handled; `QuietAgrees`
holds because the last packet of a measurement that is handled was the owner's model. `IInv` was
checked with TLC before it was proved.

A port's socket listens as long as no other socket has its descriptor. `PortsInv` adds
to `PortsListen` the types, and that ports and sockets are entered and removed
together. The argument is `Apart`: two sockets that listen to different ids
are two and have two descriptors, because each is the socket *behind* its descriptor; so
what `removePort` closes is nobody else's. New descriptors are free ones, which no
listening socket has. A thread of a deleted socket can push into the queue of a new one in its memory (the `There` of its `at`), and that is
all it can change; if no socket was made there before, only its own thread pushes, and only what came for its port.

For the radio the two invariants need only types and each other (`PhyInv`): `Scheduled` is
`ReceptionScheduled` of any radio, so that the helpers, which the code calls one after the other, have
lemmas of their own (`CancelKeeps`, `BusyKeeps`, `StartRxArrived`). The arrival of a frame leaves the events of a reception
alone, ends it, or begins that of this frame with its header to come (`Arrived`); hence
`OwnHeader`. Calls keep the invariant also when they come again (`PostponedInv`). `Watched` needs that a neighbour
between its two insertions is in the first map. `Tuned` is kept because both ways to retune
end in a row of the table (`TunedTo`): `SetChannelNumber` takes the frequency of a number, and
`SetFrequency` the number that has the frequency and the width, or none.

For the radiotap header the invariant `ReadSoFar` says, at each step of the walk, which bits are past
(`Place`), what the iterator takes the next field for and which fields it has passed (`Naming`), and that its offset is
the end of the last of them (`AtEnd`); of a walk that ended well only what it passed is left. The index
of a field, which the code counts on from word to word or resets, is a distance from the word
that opened the name space (`IndexIs`, `OpenedNext`). A field that no table has costs what comes after it, up to the end of
its name space or of the walk (`Lost`, `GaveUp`). The invariant was checked with TLC before it was proved.

`SingleCopy` counts over the air, the queues and what was delivered. The proof names where a
packet is, instead: `AllAlone` says that two different places never hold the same packet, and that no queue
holds it twice; each action takes a packet away from the one place it adds it to another from. Only then
is the sum computed. Draining, which sends many packets at once, and the queues that lose their
oldest packet need the lemmas on sequences of `DataLemmas`.

The proof of `HtModes` strengthens it to an equation: the modes are exactly those of the streams
(if there is the selector of HT), of VHT and of HE, for the selectors there are (`ModesIn`), without repetition.
A call that has to do with the channel keeps `AlignedIn` and does not touch the modes (`Tunes`); one that has to
do with the modes keeps `ModesIn` and does not touch the channel (`Selects`);
`ConfigureStandard` is one of the first kind followed by one of the second. That VHT
modes are added once rests on `Next`: a standard is configured once (`Sound`, last conjunct).
`Aligned` needs that a search answers a row that is in the table (`SearchFinds`, `RowIsThere`)
and that the table only grows.

`StandardSettles` is not true of every definition of channels. If a script defines another row of the same
frequency and width for a number of its own standard, the search that sets the number does not find that number again. The
theorem assumes `Unambiguous`: of two numbers that share a row, the larger has no other row. The code's own
table satisfies this (54 and 126 have the rows of 46 and 118 only), and so do the definitions of the run, as TLC
confirms. The invariant it adds says that each row in the table was defined for its number, or is the empty row of
a number that was asked for (`DefinedRows`). A search adds no other rows than empty ones (`Searched`) and answers the least
number that has the row (`SearchLeast`), so the channel it sets is one that the next search finds (`RowSettles`).

`AmpduIsWhole` is a sum. With `d` bits per symbol, a first frame of `n` bits takes `n/d` symbols after its header,
a next one of `m` bits `m/d`, and the last what is missing of the whole number of symbols `w` that the code computes from the sizes it has added up;
so the fractions cancel, and the rounding of each with them, because the same rounded number is added to the account and
subtracted by the last frame. What is left are the steps of the clock, one per frame at most. Nothing in this needs the account to begin
at 0: after an A-MPDU that was cut short `w` is that of both, and what the earlier frames took is missing (`left`). The second
conjunct does need it. With nothing left, the symbols counted are at most one grain per frame
above the exact fraction, and the next frame, of a byte at least, is more than that (`GrainAssumption`). That
symbols have bits at all, for every mode, width and number of streams (`SymbolTypes`), needs `VectorAssumption`: a
preamble of the class of the mode, and for an MCS one of the four widths that have rates.

For a node of NS-3 the invariant `NodeInv` pairs every listener with the devices it was told of and says that
the device's callbacks are set if there is a handler that needs them. `SimInv`, for the helper, says that each
scheduled return of bandwidth is that of a packet of its own (`OfAPacket`, `IdsApart`) and that what is free and what
will be given back are the whole (`NothingLost`): `BandwidthKept` follows by adding up over the pending returns
(`SumRemove`, `SumPaired`). `SightIsClear` is a fact about integers: multiplied by the
square of the distance, the code's nearest point is a polynomial, and the three cases of the code (before,
between, beyond) are those of the projection on the segment. The error of the root is one factor on
both sides of a comparison (`ReachesTerms`), at the nearest point as at every other.

Induction. The library states induction with operators as parameters, which the provers cannot
instantiate. `DataLemmas` states it for sets: a set of numbers that holds 0 and, with a number, the next, holds
all (`UpTo`), and a set of sets that holds a set with all smaller ones holds all subsets of a finite set (`SubsetInduction`), both
from the well-foundedness of the natural numbers. The sum over a set, and loops over a list that leave elements
out (`Places`), are proved from these.

Only model-checked:
* the liveness properties (`Delivery`, `FloodEnds`, `Forgotten`, `NoneStuck`, `Synced`): liveness under
  fairness and `ENABLED` are out of the prover's reach.

## Where code and text, or code and sense, disagree

Besides the three violation runs, seen while modelling. The models do what the code does.

AODV
* `aodv/README.md:21` says duplicates are found among the sequence numbers of requests
  received; `isDuplicateRREQ` also compares the table's sequence number, which may have
  been learnt from a reply, so a request that was never seen is dropped.
* `aodv_rrep.cc:70-74` wants a greater sequence number, or an equal one and fewer hops; fewer
  hops alone replace an entry, of an older sequence number too.
* `aodv_rrep.cc:52` says a known sequence number is copied; an entry that a hello made has an
  uninitialized one, which is then announced as if the destination had given it: a node can be told of a number
  that its owner never reached. What does hold is `SeqGenuine`.
* `aodv.cc:93`: waiting packets are "sent when a route opens up"; a route that opens by a hello
  or a request leaves them where they are.
* `aodv.h:55` speaks of sending the packet after `repairLink`; on a broken link it is dropped.
* `uint8_t` hop counts wrap; nothing ends a path of 256 hops.
* A duplicate is a request that is known *and* not cheaper than the route to its originator
  (`aodv_rreq.cc:60`). A later request that came by a longer way makes the route dearer, and then an older copy
  passes the same node again: in a network of seven nodes, where two requests overtake each other and nothing is
  lost, TLC found (on an instance larger than those kept here) a copy that had taken seven hops. A copy that
  `OLD_RREQ_COUNT` later requests have overtaken is new to everybody until its hop count wraps below that of the route. A hop count says how far
  a copy went, not how far its originator is. What the code does keep is `RequestsRemembered`.

Threads, sockets and maps
* `udp_socket.cc:158` pushes what arrived into "the message queue" of the socket its thread was started for
  (line 142); after `removePort` and `addPort` (`hardware_aodv.cc:99-101`, `131-140`) the pointer may be that of
  another port's socket, which then gets a datagram that was not sent to it. `PortsListen` promises a clean queue only for a socket in
  memory where none was before.
* `adhoc/README.md:47`: `_destroyPort` should remove any infrastructure of the port; its detached
  thread stays, and with it the kernel's socket while it waits.
* `udp_socket.cc:148`: a datagram without data ends the process, as an error does. The
  destructors of `UDPSocket` and `Socket` both close the descriptor.
* `isActive` of the hello monitor returns between lock and unlock. `_updateNeighbors` calls
  itself once per interval; a duration beyond an int is cut; a clock that is set back wraps ages.
* `hardware_rssi.cc:40` makes a string of a sender's address that may be null, which ends the
  program. `radiotap_capture.cc` falls through from FHSS to the signal.

NS-3
* `SetSleepMode` that was postponed comes after `SetOffMode` and asserts (`wifi-phy.cc:1619`). Two
  `SetChannelNumber` during one transmission come again together; the second
  finds the radio switching (the assertion at 1498).
* The assertion at `wifi-phy.cc:2210`, that an A-MPDU has the symbols counted before its last frame, can fail
  after one that was cut short: `SendPacket` drops the rest while the radio sleeps (2376-2381) and leaves the fields. A first
  frame then starts from the symbols of the dropped ones. In a build without assertions the last frame's symbols are negative then;
  that is not modelled.
* A lookup of a channel that is not defined enters an empty row (1424), so that
  `DefineChannelNumber` refuses the number later.
* `changed` is true if a width or a number of streams is *not* changed (1271, 1304, 1323).
* The membership selector of 802.11ax is set at 2.4 GHz also, where the radio has no VHT modes.
* `node.h:177-179` says a handler registered with device zero "is attached to all devices on this node". A promiscuous one is not
  attached to devices that are added later (`node.cc:238-255` sets the callback on those there are), unless another registration sets it.
* `node.h:189-190` says that after `UnregisterProtocolHandler` "the input handler will never be invoked anymore"; only its first
  entry goes, so one that was registered twice is. `OncePerPacket` counts registrations that are left, and takes a
  promiscuous handler as attached to the devices there were.
* The helper's `m_existingNodes[dest]` enters a null pointer for an unknown destination;
  `m_availableBandwidthBits` of a node is uninitialized until it is set.

Line of sight
* `LOS.h:35` says `isThereLOS` "returns true if there is no Line of Sight"; it returns true if there is one.
* `defineLOS.cpp:200-203` asks "whether D > asteroid radius" and calls the line blocked otherwise; the code (171) compares with `>=`,
  so a sight that touches the surface is clear, if `sqrtf` (167), which works on a `float`, does not round it below. `SightIsClear`
  counts the touching sight as clear and allows either answer within the error of the root.

## Not modelled

* Kernel, libpcap, the rest of NS-3: external, modelled by how the code uses them.
* `adhoc-routing/model/` holds an earlier version of the framework's sources, in which
  packets wait in unbounded queues; the models follow the sources at the top.
* Regression and interpolation over doubles, power and error rates.
* `safe_queue.h`, a locked `std::queue`: nothing beyond its lock. Byte layout of packets.
* The unlocked routing table: undefined behaviour of `std::map` has no list of outcomes.
* Restarts: nothing is persisted, and nothing in the code handles a node that forgot its
  numbers.
* HE multi-user durations, the tags of a socket, configuration by attributes of NS-3.
* Field test application, packet sniffers, scripts of the Raspberry Pi: input and output.

What could come next: a clock that is set back in `HelloMonitor`.
