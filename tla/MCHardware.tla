-------------------------------- MODULE MCHardware --------------------------------
(***************************************************************************)
(* Four parts of a node's hardware side that share no state in their       *)
(* models: the RSSI capture, the ring buffer, the hash map, and the ports  *)
(* with their sockets.  Each moves alone while the others are at their     *)
(* beginning.                                                              *)
(***************************************************************************)
EXTENDS Rssi, CircularQueue, HashMap, Ports

CONSTANTS p1, p2, p3, k1, k2, k3

\* Two ports have the same id.
MCPortId == p1 :> 1 @@ p2 :> 2 @@ p3 :> 1

\* The three keys share a bucket, the second one of two.
MCHashFn == k1 :> 1 @@ k2 :> 3 @@ k3 :> 5

\* Headers of one, two, three and four words, as they are and cut short; of those with
\* four, the third has a vendor's field that no table has.
Words ==
  {<<f>> : f \in {{}, {5}, {1, 3, 5}, {0, 4}, {2, 23, 24}, {5, 12, 19}}}
  \cup {<<f \cup ns \cup {31}, g>> :
          f \in {{1}, {0, 5}}, g \in {{1, 3, 5}, {0, 6}},
          ns \in {{}, {29}, {30}, {29, 30}}}
  \cup {<<{1, 30, 31}, {1} \cup ns \cup {31}, g>> : ns \in {{}, {29}, {30}}, g \in {{}, {0, 5}}}
  \cup {<<{30, 31}, {31}, {5, 22} \cup ns \cup {31}, {1, 5}>> : ns \in {{}, {29}}}

Vendors(n) ==
  {[w \in 1..n |-> [known |-> k, length |-> l]] :
     <<k, l>> \in IF n = 1 THEN {<<TRUE, 0>>} ELSE {<<TRUE, 12>>, <<FALSE, 3>>}}

MCHeader ==
  UNION {{[version |-> x, words |-> w, vendors |-> v, length |-> l] :
            x \in IF Len(w) = 1 THEN {0, 1} ELSE {0}, v \in Vendors(Len(w)),
            l \in {17, 50, 2015}} : w \in Words}

QueueAtRest == QueueInit /\ storage = [i \in Index |-> CHOOSE e \in Elem : TRUE]

MCInit == RssiInit /\ QueueInit /\ HashInit /\ PortsInit

MCNext ==
  \/ QueueAtRest /\ HashInit /\ PortsInit /\ RssiNext /\ UNCHANGED <<queueVars, hashVars, portVars>>
  \/ RssiInit /\ HashInit /\ PortsInit /\ QueueNext /\ UNCHANGED <<rssiVars, hashVars, portVars>>
  \/ RssiInit /\ QueueAtRest /\ PortsInit /\ HashNext /\ UNCHANGED <<rssiVars, queueVars, portVars>>
  \/ RssiInit /\ QueueAtRest /\ HashInit /\ PortsNext /\ UNCHANGED <<rssiVars, queueVars, hashVars>>

MCSpec == MCInit /\ [][MCNext]_<<queueVars, rssiVars, hashVars, portVars>>
=============================================================================
