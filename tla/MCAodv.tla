------------------------------- MODULE MCAodv -------------------------------
(***************************************************************************)
(* Small networks, traffic and initial states for TLC's runs of Aodv.      *)
(***************************************************************************)
EXTENDS AodvProperties, TLC

CONSTANTS a, b, c, far,  \* nodes
          p, q, r        \* packets

BothWays(S) == S \cup {<<x[2], x[1]>> : x \in S}

\* a and c only hear each other through b.
Line == BothWays({<<a, b>>, <<b, c>>})

\* What a transmits is heard by b and c, which hear each other; a and "far" hear
\* nobody.
OneWay == BothWays({<<b, c>>}) \cup {<<a, b>>, <<a, c>>}

\* Nobody is known yet, or everybody in reach is.
NoNbr == [n \in Node |-> {}]
LinkNbr == [n \in Node |-> {k \in Node : <<k, n>> \in Link}]

\* What the memory of a new table entry may hold: zeros, or a sequence number that
\* no node of the run ever reaches.
ZeroJunk == {[seq |-> 0, hop |-> 0]}
HighJunk == {[seq |-> 7, hop |-> 1]}

\* The traffic: two packets in a row, out of reach, or in both directions; three
\* packets from two sources.
RowSrc == p :> a @@ q :> a
RowDst == p :> c @@ q :> c
FarDst == p :> far @@ q :> far
CrossedSrc == p :> a @@ q :> c
CrossedDst == p :> c @@ q :> a
TrioSrc == p :> a @@ q :> a @@ r :> b
TrioDst == p :> c @@ q :> c @@ r :> c
=============================================================================
