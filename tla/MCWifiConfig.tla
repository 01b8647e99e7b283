----------------------------- MODULE MCWifiConfig -----------------------------
(***************************************************************************)
(* The set-up of a radio and the durations of its frames share no state:   *)
(* each moves alone while the other is at its beginning.                   *)
(***************************************************************************)
EXTENDS WifiConfig, WifiDuration

MCStandard ==
  {"80211a", "80211b", "80211g", "80211_10MHZ", "80211_5MHZ", "holland", "80211n_2_4GHZ",
   "80211n_5GHZ", "80211ac", "80211ax_2_4GHZ", "80211ax_5GHZ"}
MCFrequency == {2412, 5180, 5230, 5860}
MCNumber == {1, 14, 54, 172}
MCWidth == {20, 22, 40}
MCStreams == {1, 2}
MCExtra == {<<200, "UNSPECIFIED", <<5860, 20>>>>, <<36, "80211a", <<5180, 22>>>>}
-----------------------------------------------------------------------------
Ht(mcs, preamble, streams, gi, stbc, ghz) ==
  [mode |-> HtMcs[mcs], preamble |-> preamble, width |-> 20, streams |-> streams,
   ness |-> 0, gi |-> gi, stbc |-> stbc, ghz |-> ghz]
Vht(mcs, width, streams) ==
  [mode |-> VhtMcs[mcs], preamble |-> "VHT", width |-> width, streams |-> streams,
   ness |-> 0, gi |-> 800, stbc |-> FALSE, ghz |-> 5]
Legacy(mode, preamble, width) ==
  [mode |-> mode, preamble |-> preamble, width |-> width, streams |-> 1,
   ness |-> 0, gi |-> 800, stbc |-> FALSE, ghz |-> 2]

MCVector ==
  {Ht(0, "HT_MF", 1, 400, FALSE, 2), Ht(15, "HT_GF", 2, 800, TRUE, 5),
   Ht(31, "HT_MF", 4, 800, FALSE, 2), Vht(0, 20, 1), Vht(9, 160, 4), Vht(7, 80, 3),
   [Vht(0, 80, 1) EXCEPT !.mode = HeMcs[11], !.preamble = "HE_SU", !.gi = 3200],
   [Ht(1, "HT_MF", 1, 800, FALSE, 2) EXCEPT !.ness = 3]}
  \cup {Legacy(m, "LONG", m.width) :
          m \in {ErpOfdmRates[1], OfdmRates[8], OfdmRatesBW10MHz[7], OfdmRatesBW5MHz[2]}}
  \cup {Legacy(DsssRates[i], p, 22) : i \in {1, 4}, p \in {"LONG", "SHORT"}}
MCSize == {14, 101}

MCInit == Init /\ DurationInit

MCNext ==
  \/ DurationInit /\ Next /\ UNCHANGED durationVars
  \/ calls = 0 /\ DurationNext /\ UNCHANGED vars

MCSpec == MCInit /\ [][MCNext]_<<vars, durationVars>>
=============================================================================
