------------------------------- MODULE MCRem -------------------------------
(***************************************************************************)
(* Small networks for Rem.                                                 *)
(***************************************************************************)
EXTENDS Rem

CONSTANTS a, b

Pair == {a, b}
PairReach == [n \in Pair |-> Pair \ {n}]
One == {a}
OneSignal == {<<a, b>>}
=============================================================================
