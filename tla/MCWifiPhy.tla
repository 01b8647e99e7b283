------------------------------ MODULE MCWifiPhy ------------------------------
EXTENDS WifiPhy

Whole(preamble, rest, last, length) ==
  [preamble |-> preamble, rest |-> rest, last |-> last, complete |-> TRUE,
   fits |-> TRUE, strong |-> TRUE, length |-> length]

MCFrame ==
  LET single == Whole(TRUE, 0, FALSE, 2)
  IN  {single, Whole(TRUE, 1, FALSE, 3), Whole(FALSE, 0, TRUE, 1),
       [single EXCEPT !.fits = FALSE], [single EXCEPT !.complete = FALSE],
       [single EXCEPT !.strong = FALSE]}
MCTxDuration == {2}
MCStandard == {"80211b"}
MCNumber == {1, 36}
MCFrequency == {2412}
MCWidth == {40}
=============================================================================
