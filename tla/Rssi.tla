--------------------------------- MODULE Rssi ---------------------------------
(***************************************************************************)
(* HardwareRSSI (hardware/hardware_rssi.cc): a thread captures frames and   *)
(* keeps the strength of the last one of each MAC address; the threads of   *)
(* the program add neighbours and ask for strengths.  The three maps are    *)
(* SafeHashMaps (data_structures/safe_hash_map.h): each operation is atomic  *)
(* under the lock of its bucket, two operations are not.                    *)
(*                                                                         *)
(* External: libpcap, which delivers any frame at any time.                 *)
(***************************************************************************)
EXTENDS Radiotap

CONSTANTS
  Mac, Ip,
  CollectAll \* keep what comes from every MAC address

VARIABLES
  source,    \* the sender of the frame that is read
  capturing, \* the capture thread runs
  rssiMap,   \* MAC address -> its strength
  MACToIP, IPToMAC,
  adding     \* the neighbour whose second insertion is to come

maps == <<rssiMap, MACToIP, IPToMAC, adding>>
rssiVars == <<radiotapVars, source, capturing, maps>>

RssiInit ==
  /\ RadiotapInit /\ source = None /\ capturing = TRUE
  /\ rssiMap = <<>> /\ MACToIP = <<>> /\ IPToMAC = <<>> /\ adding = None

\* A SafeHashMap holds one value for a key, the last.
Insert(map, key, value) ==
  [k \in DOMAIN map \cup {key} |-> IF k = key THEN value ELSE map[k]]
-----------------------------------------------------------------------------
Capture ==
  /\ capturing /\ header = None
  /\ \E h \in Header, mac \in Mac : GetRadiotapData(h) /\ source' = mac
  /\ UNCHANGED <<capturing, maps>>

Read == IteratorNext /\ UNCHANGED <<source, capturing, maps>>

Done ==
  /\ header' = None /\ iter' = NoIterator /\ data' = Default /\ found' = {}
  /\ source' = None

\* The frame has a strength, and its sender is watched.
Keep ==
  /\ header # None /\ iter.err = "ENOENT"
  /\ rssiMap' = IF data["dbmAntsignal"] # 0 /\ (CollectAll \/ source \in DOMAIN MACToIP)
                THEN Insert(rssiMap, source, data["dbmAntsignal"])
                ELSE rssiMap
  /\ Done /\ UNCHANGED <<capturing, MACToIP, IPToMAC, adding>>

\* A malformed header leaves the sender a null pointer.  When a strength was read
\* before the fault was met, the frame is not skipped, and a string made of that
\* pointer ends the program.
Malformed ==
  /\ header # None /\ iter.err = "EINVAL"
  /\ capturing' = (data["dbmAntsignal"] = 0)
  /\ Done /\ UNCHANGED maps

\* Bug: the other map first.
BugAddNeighbor ==
  /\ capturing /\ adding = None
  /\ \E mac \in Mac, ip \in Ip :
       /\ IPToMAC' = Insert(IPToMAC, ip, mac)
       /\ MACToIP' = IF mac \in DOMAIN MACToIP THEN Insert(MACToIP, mac, ip) ELSE MACToIP
       /\ adding' = <<mac, ip>>
  /\ UNCHANGED <<radiotapVars, source, capturing, rssiMap>>

AddNeighbors ==
  /\ capturing /\ adding = None
  /\ \E mac \in Mac, ip \in Ip :
       /\ MACToIP' = Insert(MACToIP, mac, ip)
       /\ adding' = <<mac, ip>>
  /\ UNCHANGED <<radiotapVars, source, capturing, rssiMap, IPToMAC>>

EndAddNeighbors ==
  /\ capturing /\ adding # None
  /\ IPToMAC' = Insert(IPToMAC, adding[2], adding[1])
  /\ adding' = None
  /\ UNCHANGED <<radiotapVars, source, capturing, rssiMap, MACToIP>>

RssiNext ==
  \/ Capture \/ Read \/ Keep \/ Malformed
  \/ AddNeighbors \/ EndAddNeighbors

RssiSpec == RssiInit /\ [][RssiNext]_rssiVars
-----------------------------------------------------------------------------
\* Nobody asks for a MAC address that is not watched: the neighbour is watched
\* before its IP address leads to it, and without CollectAll only watched ones have
\* a strength, though a neighbour is added while a frame is read
\* (hardware_rssi.cc 40-43, 56-59, 81-87).
Watched ==
  /\ \A ip \in DOMAIN IPToMAC : IPToMAC[ip] \in DOMAIN MACToIP
  /\ ~CollectAll => DOMAIN rssiMap \subseteq DOMAIN MACToIP
=============================================================================
