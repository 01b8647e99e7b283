---------------------------- MODULE HelloMonitor ----------------------------
(***************************************************************************)
(* The hello monitor of one node (hello_monitor/hello_monitor.cc) on its   *)
(* two threads.                                                            *)
(*                                                                         *)
(* The hello thread runs _updateNeighbors: rebuild the neighbours from the *)
(* times at which they were heard, sleep, broadcast a hello, sleep, again. *)
(* The main thread runs HardwareHelloAODV::handlePackets: handle a packet, *)
(* which may ask linkExists, then count its sender as heard.               *)
(*                                                                         *)
(* helloMux guards the times, neighborMux the links.  A step ends where    *)
(* the other thread can tell: a section in which a thread holds a mutex    *)
(* and only touches what it guards is one step.                            *)
(***************************************************************************)
EXTENDS Integers, FifoOps

CONSTANTS
  Node,          \* the other nodes
  HalfInterval,  \* HELLO_INTERVAL_MS / 2, in units of time
  TTL,           \* HELLO_NEIGHBOR_TTL_MS, in units of time
  Duration,      \* the argument of sendHellos, in units of time
  IntModulus,    \* 2^32: the values of an int, in units of time
  QueueSize,     \* messages that wait in a socket's queue
  Late           \* bound of the model: units a thread may be behind

Unit == Nat \ {0}

ASSUME TimeAssumption ==
  /\ HalfInterval \in Unit /\ TTL \in Unit /\ Late \in Nat
  /\ Duration \in Nat /\ IntModulus \in Unit
ASSUME QueueAssumption == QueueSize \in Unit

VARIABLES
  heard,        \* m_neighborDetectionTimes: the age of each, Horizon = older or never
  links,        \* RoutingProtocol::m_neighbors
  helloMux, neighborMux,  \* the thread that holds it, or Free
  helloPc,      \* what the hello thread does next
  refill,       \* heard recently, still to be added in this round
  remaining,    \* remaining_time_ms
  timer,        \* time since the hello thread went to sleep, or woke up
  forever,      \* constructed without a duration: _sendHelloThreaded
  inbox,        \* senders of the messages in the socket's queue
  mainPc,       \* what the main thread does next
  from,         \* sender of the last packet the main thread took
  owed,         \* calls of receiveHelloMessage that are left for it
  denied,       \* the node whose link linkExists last denied, if any
  alive         \* the nodes that still transmit

helloVars == <<helloPc, refill, remaining, timer>>
mainVars == <<mainPc, from, owed, denied>>
envVars == <<inbox, alive, forever>>
vars == <<heard, links, helloMux, neighborMux, helloVars, mainVars, envVars>>

Free == "free"
HelloPc == {"loop", "reset", "refill", "rest1", "rest2", "done"}
MainPc == {"idle", "handle", "hello", "link", "record"}

Resting == helloPc \in {"rest1", "rest2"}

\* The longest time the hello thread spends in its present state.
Limit == IF Resting THEN HalfInterval + Late ELSE Late

\* From the last packet of a node to the end of its link, at most.
Horizon == TTL + 2 * HalfInterval + 4 * Late

Init ==
  /\ heard = [k \in Node |-> Horizon] /\ links = {}
  /\ helloMux = Free /\ neighborMux = Free
  /\ helloPc = "loop" /\ refill = {} /\ remaining = Duration /\ timer = 0
  /\ mainPc = "idle" /\ from \in Node /\ owed = 0 /\ denied = {}
  /\ inbox = <<>> /\ alive = Node
  /\ forever \in BOOLEAN

-----------------------------------------------------------------------------
\* The hello thread.

\* signed(x): the low bits of a uint64_t, as an int.
Signed(x) == LET low == x % IntModulus
             IN  IF 2 * low < IntModulus THEN low ELSE low - IntModulus

Over == Signed(remaining) <= 0

Fresh(k) == heard[k] < TTL

\* Bug: nobody calls sendHellos again.
BugNoRestart ==
  /\ helloPc = "loop" /\ helloMux = Free /\ Over
  /\ helloPc' = "done"
  /\ UNCHANGED <<heard, links, helloMux, neighborMux, refill, remaining, timer,
                 mainVars, envVars>>

\* The time is over: sendHellos returns, and only _sendHelloThreaded calls it
\* again.
Return ==
  /\ helloPc = "loop" /\ helloMux = Free /\ Over
  /\ helloPc' = IF forever THEN "loop" ELSE "done"
  /\ remaining' = IF forever THEN Duration ELSE remaining
  /\ UNCHANGED <<heard, links, helloMux, neighborMux, refill, timer, mainVars, envVars>>

StartRound ==
  /\ helloPc = "loop" /\ helloMux = Free /\ ~Over
  /\ helloMux' = "hello" /\ helloPc' = "reset"
  /\ UNCHANGED <<heard, links, neighborMux, refill, remaining, timer, mainVars, envVars>>

\* Bug: the old links are kept.
BugNoReset ==
  /\ helloPc = "reset" /\ neighborMux = Free
  /\ neighborMux' = "hello" /\ helloPc' = "refill"
  /\ refill' = {k \in Node : Fresh(k)}
  /\ UNCHANGED <<heard, links, helloMux, remaining, timer, mainVars, envVars>>

\* Bug: a neighbour as old as the time to live still counts.
BugTTLInclusive ==
  /\ helloPc = "reset" /\ neighborMux = Free
  /\ neighborMux' = "hello" /\ helloPc' = "refill"
  /\ links' = {} /\ refill' = {k \in Node : heard[k] <= TTL}
  /\ UNCHANGED <<heard, helloMux, remaining, timer, mainVars, envVars>>

\* resetLinks, and the clock is read.
ResetLinks ==
  /\ helloPc = "reset" /\ neighborMux = Free
  /\ neighborMux' = "hello" /\ helloPc' = "refill"
  /\ links' = {} /\ refill' = {k \in Node : Fresh(k)}
  /\ UNCHANGED <<heard, helloMux, remaining, timer, mainVars, envVars>>

Refill(k) ==
  /\ helloPc = "refill" /\ k \in refill
  /\ links' = links \cup {k} /\ refill' = refill \ {k}
  /\ UNCHANGED <<heard, helloMux, neighborMux, helloPc, remaining, timer, mainVars, envVars>>

EndRound ==
  /\ helloPc = "refill" /\ refill = {}
  /\ neighborMux' = Free /\ helloMux' = Free
  /\ helloPc' = "rest1" /\ timer' = 0
  /\ UNCHANGED <<heard, links, refill, remaining, mainVars, envVars>>

\* _sleep ends; the hello goes out between the two sleeps.
Broadcast ==
  /\ helloPc = "rest1" /\ timer >= HalfInterval
  /\ helloPc' = "rest2" /\ timer' = 0
  /\ UNCHANGED <<heard, links, helloMux, neighborMux, refill, remaining, mainVars, envVars>>

Repeat ==
  /\ helloPc = "rest2" /\ timer >= HalfInterval
  /\ helloPc' = "loop" /\ timer' = 0
  /\ remaining' = remaining - 2 * HalfInterval
  /\ UNCHANGED <<heard, links, helloMux, neighborMux, refill, mainVars, envVars>>

HelloThread ==
  Return \/ StartRound \/ ResetLinks \/ (\E k \in Node : Refill(k)) \/ EndRound
    \/ Broadcast \/ Repeat

-----------------------------------------------------------------------------
\* The main thread.

\* getMessage answers with the oldest message of a socket.
Take ==
  /\ mainPc = "idle" /\ inbox # <<>>
  /\ from' = Head(inbox) /\ inbox' = FifoPop(inbox)
  /\ mainPc' = "handle"
  /\ UNCHANGED <<heard, links, helloMux, neighborMux, helloVars, owed, denied, alive, forever>>

\* Bug: the links are read without neighborMux.
BugLinkExistsUnlocked(k) ==
  /\ mainPc = "handle"
  /\ denied' = {k} \ links
  /\ UNCHANGED <<heard, links, helloMux, neighborMux, helloVars, mainPc, from, owed, envVars>>

LinkExists(k) ==
  /\ mainPc = "handle" /\ neighborMux = Free
  /\ denied' = {k} \ links
  /\ UNCHANGED <<heard, links, helloMux, neighborMux, helloVars, mainPc, from, owed, envVars>>

\* The handler returns: receiveHelloMessage is called once, or twice if the
\* packet was a hello, whose own handler calls it too.
Handled ==
  /\ mainPc = "handle"
  /\ mainPc' = "hello" /\ owed' \in {1, 2} /\ denied' = {}
  /\ UNCHANGED <<heard, links, helloMux, neighborMux, helloVars, from, envVars>>

\* Bug: receiveHelloMessage does not take helloMux.
BugHearUnlocked ==
  /\ mainPc = "hello"
  /\ mainPc' = "link"
  /\ UNCHANGED <<heard, links, helloMux, neighborMux, helloVars, from, owed, denied, envVars>>

\* receiveHelloMessage: wait for helloMux.
Hear ==
  /\ mainPc = "hello" /\ helloMux = Free
  /\ helloMux' = "main" /\ mainPc' = "link"
  /\ UNCHANGED <<heard, links, neighborMux, helloVars, from, owed, denied, envVars>>

\* addLink, under neighborMux.
AddLink ==
  /\ mainPc = "link" /\ neighborMux = Free
  /\ links' = links \cup {from} /\ mainPc' = "record"
  /\ UNCHANGED <<heard, helloMux, neighborMux, helloVars, from, owed, denied, envVars>>

\* The time of detection is written and helloMux released.
Record ==
  /\ mainPc = "record"
  /\ heard' = [heard EXCEPT ![from] = 0]
  /\ helloMux' = Free /\ owed' = owed - 1
  /\ mainPc' = IF owed = 2 THEN "hello" ELSE "idle"
  /\ UNCHANGED <<links, neighborMux, helloVars, from, denied, envVars>>

MainThread ==
  Take \/ (\E k \in Node : LinkExists(k)) \/ Handled \/ Hear \/ AddLink \/ Record

-----------------------------------------------------------------------------
\* External: the radio, and time.

\* The receive thread queues a message from k.
Arrive(k) ==
  /\ k \in alive
  /\ inbox' = FifoPush(inbox, k, QueueSize)
  /\ UNCHANGED <<heard, links, helloMux, neighborMux, helloVars, mainVars, alive, forever>>

\* k leaves, for good.
Leave(k) ==
  /\ k \in alive
  /\ alive' = alive \ {k}
  /\ UNCHANGED <<heard, links, helloMux, neighborMux, helloVars, mainVars, inbox, forever>>

\* A unit of time, which nobody outlives by more than Late.
Tick ==
  /\ helloPc = "done" \/ timer < Limit
  /\ heard' = [k \in Node |-> IF heard[k] = Horizon THEN Horizon ELSE heard[k] + 1]
  /\ timer' = IF helloPc = "done" THEN timer ELSE timer + 1
  /\ UNCHANGED <<links, helloMux, neighborMux, helloPc, refill, remaining, mainVars, envVars>>

Environment == (\E k \in Node : Arrive(k) \/ Leave(k)) \/ Tick

Next == HelloThread \/ MainThread \/ Environment

Spec == Init /\ [][Next]_vars

\* A thread that is not blocked runs on.  Neither thread keeps a mutex while it
\* sleeps or waits for packets, and the hello thread sleeps most of the time, so
\* a thread that waits for a mutex gets it in the end.
Fairness ==
  /\ WF_vars(HelloThread) /\ SF_vars(Return \/ StartRound)
  /\ WF_vars(Take) /\ WF_vars(Handled) /\ SF_vars(Hear)
  /\ WF_vars(AddLink) /\ WF_vars(Record)
  /\ WF_vars(Tick)

FairSpec == Spec /\ Fairness

-----------------------------------------------------------------------------
\* Every variable has its type; the queue is bounded.
TypeOK ==
  /\ heard \in [Node -> 0 .. Horizon]
  /\ links \subseteq Node /\ refill \subseteq Node /\ alive \subseteq Node
  /\ helloMux \in {Free, "hello", "main"} /\ neighborMux \in {Free, "hello"}
  /\ helloPc \in HelloPc /\ mainPc \in MainPc
  /\ remaining \in Int /\ timer \in 0 .. HalfInterval + Late
  /\ from \in Node /\ owed \in 0 .. 2 /\ denied \subseteq Node
  /\ mainPc \in {"hello", "link", "record"} => owed # 0
  /\ forever \in BOOLEAN
  /\ inbox \in Seq(Node) /\ Len(inbox) <= QueueSize

\* Whoever was heard within the time to live is a neighbour whenever the links
\* may be read: no round of the hello thread loses a node that the main thread
\* counts at the same time.
FreshLinked == neighborMux = Free => \A k \in Node : Fresh(k) => k \in links

\* linkExists never denies the link to a node heard within the time to live, so
\* no packet to it is taken for a broken link, even in the middle of a round.
NoFalseDenial == [][\A k \in denied' \ denied : ~Fresh(k)]_vars

\* While the hello thread runs, a link ends at most a time to live, an interval
\* and what the threads are late after the last packet of its node.
StaleBound ==
  (helloMux = Free /\ helloPc # "done") => \A k \in links : heard[k] < Horizon

\* For the rest of the node, the two threads do nothing but add one neighbour,
\* or take some away, in one step: a round in progress has already taken place.
Links == INSTANCE NeighborLinks WITH links <- links \cup refill
LinksSpec == Links!Spec

\* A node that transmits no more is forgotten for good, if the monitor runs for
\* ever.
Forgotten ==
  forever => \A k \in Node : <>(k \notin alive) => <>[](k \notin links)

\* Neither thread is stuck: the main thread comes back to its sockets, and a
\* monitor that runs for ever broadcasts for ever.
NoneStuck == []<>(mainPc = "idle") /\ (forever => []<>(helloPc = "rest2"))
=============================================================================
