----------------------------- MODULE MCSimulation -----------------------------
(***************************************************************************)
(* Four parts that share no state: line of sight, the simulator's nodes    *)
(* and sockets, and the framework on simulated nodes.  Each moves alone    *)
(* while the others are at their beginning, so that the states of the four *)
(* add up and do not multiply.                                             *)
(***************************************************************************)
EXTENDS MCLos, NsNode, NsSocket, SimNode

CONSTANTS n1, n2

MCTos == {4 * dscp + ecn : dscp \in DOMAIN DscpPriority, ecn \in {0, 3}}

MCStart == n1 :> 0 @@ n2 :> 1

MCInit == LosInit /\ NodeInit /\ SocketInit /\ SimInit

\* The sockets of the framework are those of UDP.
SocketAtRest == SocketInit /\ type = "NS3_SOCK_DGRAM"

MCNext ==
  \/ NodeInit /\ SocketAtRest /\ SimInit /\ LosNext /\ UNCHANGED <<nodeVars, socketVars, simVars>>
  \/ LosInit /\ SocketAtRest /\ SimInit /\ NodeNext /\ UNCHANGED <<losVars, socketVars, simVars>>
  \/ LosInit /\ NodeInit /\ SimInit /\ SocketNext /\ UNCHANGED <<losVars, nodeVars, simVars>>
  \/ LosInit /\ NodeInit /\ SocketAtRest /\ SimNext /\ UNCHANGED <<losVars, nodeVars, socketVars>>

MCSpec == MCInit /\ [][MCNext]_<<losVars, nodeVars, socketVars, simVars>>
=============================================================================
