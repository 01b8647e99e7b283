------------------------------ MODULE WifiTable ------------------------------
(***************************************************************************)
(* The channels a WifiPhy knows (ns-3 wifi/model/wifi-phy.cc): a frequency *)
(* and a width for a channel number and a standard.  A standard without a  *)
(* row of its own falls back to the rows of "UNSPECIFIED".                 *)
(***************************************************************************)
EXTENDS Integers, FiniteSetsExt

NoRow == <<0, 0>>

\* m_channelToFrequencyWidth: the channels of a width that a standard has.
Channels(standard, width) ==
  CASE standard = "80211b" /\ width = 22 -> 1..14
    [] standard = "80211_10MHZ" /\ width = 10 -> {172 + 2 * i : i \in 0..6}
    [] standard = "UNSPECIFIED" /\ width = 20 ->
         1..13 \cup {4 * i : i \in 9..16 \cup 25..36} \cup {149 + 4 * i : i \in 0..4}
    [] standard = "UNSPECIFIED" /\ width = 40 ->
         {38, 46, 54, 62, 102, 110, 118, 126, 134, 142, 151, 159}
    [] standard = "UNSPECIFIED" /\ width = 80 -> {42, 58, 106, 122, 138, 155}
    [] standard = "UNSPECIFIED" /\ width = 160 -> {50, 114}
    [] OTHER -> {}

Widths == {10, 20, 22, 40, 80, 160}

\* Channels 54 and 126 have the frequencies of 46 and 118.
FrequencyOf(number) ==
  CASE number \in 1..13 -> 2407 + 5 * number
    [] number = 14 -> 2484
    [] number \in {54, 126} -> 5000 + 5 * (number - 8)
    [] OTHER -> 5000 + 5 * number

\* The rows of a table: a table maps <<number, standard>> to a row.
InitialTable(standards) ==
  [k \in {c \in (1..184) \X standards : \E width \in Widths : c[1] \in Channels(c[2], width)} |->
     <<FrequencyOf(k[1]), CHOOSE width \in Widths : k[1] \in Channels(k[2], width)>>]

\* The map is ordered by number, and number 0 says that there is none.
FindChannelNumberForFrequencyWidth(table, frequency, width) ==
  LET found == {k[1] : k \in {k \in DOMAIN table : table[k] = <<frequency, width>>}}
  IN  IF found = {} THEN 0 ELSE Min(found)

\* GetFrequencyWidthForChannelNumberStandard, with the second attempt its callers make.
RowFor(table, number, standard) ==
  LET Row(s) == IF <<number, s>> \in DOMAIN table THEN table[<<number, s>>] ELSE NoRow
  IN  IF Row(standard)[1] # 0 THEN Row(standard) ELSE Row("UNSPECIFIED")
=============================================================================
