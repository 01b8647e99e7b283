------------------------------ MODULE WifiConfig ------------------------------
(***************************************************************************)
(* How a radio gets its channel, its width and its modes before the        *)
(* simulation starts (ns-3 wifi/model/wifi-phy.cc): the attributes, which  *)
(* are only noted until the object is constructed, ConfigureStandard, and  *)
(* the calls of a script.  A frequency and a channel number may both be    *)
(* asked for; whichever it was, they have to agree in the end.             *)
(*                                                                         *)
(* A change of channel is not refused before the radio is initialized      *)
(* (DoChannelSwitch, DoFrequencySwitch).  Rates are kept as the groups     *)
(* they are added in.                                                      *)
(***************************************************************************)
EXTENDS WifiTable, WifiModes, SequencesExt, Places

CONSTANTS
  Standard,  \* the standards that may be configured
  Frequency, \* the frequencies that may be asked for
  Number,    \* the channel numbers that may be asked for
  Width,     \* the widths that may be asked for
  Streams,   \* the numbers of spatial streams: GetNumberOfAntennas is the largest
  Extra,     \* definitions of channels: <<number, standard, row>>
  MaxCalls   \* bound of the model: calls of a script

WifiPhyStandard ==
  {"80211a", "80211b", "80211g", "80211_10MHZ", "80211_5MHZ", "holland", "80211n_2_4GHZ",
   "80211n_5GHZ", "80211ac", "80211ax_2_4GHZ", "80211ax_5GHZ", "UNSPECIFIED"}

ASSUME StandardAssumption == Standard \subseteq WifiPhyStandard \ {"UNSPECIFIED"}
ASSUME ChannelAssumption == Frequency \cup Number \cup Width \subseteq Nat
ASSUME ExtraAssumption ==
  \A d \in Extra : d[1] \in Nat /\ d[2] \in WifiPhyStandard /\ d[3] \in Nat \X Nat
ASSUME StreamsAssumption == Streams \subseteq 1..4 /\ 1 \in Streams
ASSUME MaxCallsAssumption == MaxCalls \in Nat

VARIABLES
  radio, \* the members of WifiPhy named below; channels is m_channelToFrequencyWidth
  calls  \* bound of the model

vars == <<radio, calls>>

Init ==
  /\ radio = [constructed |-> FALSE, ready |-> FALSE, fatal |-> FALSE, initialized |-> FALSE,
              initialFrequency |-> 0, initialNumber |-> 0,
              standard |-> "UNSPECIFIED", frequency |-> 0, number |-> 0, width |-> 20,
              widths |-> <<20>>, streams |-> 1,
              channels |-> InitialTable({"80211b", "80211_10MHZ", "UNSPECIFIED"}),
              rates |-> <<>>, mcs |-> <<>>, selectors |-> <<>>]
  /\ calls = 0
-----------------------------------------------------------------------------
(* The channel.                                                            *)

\* A pair that is there keeps its row.
DefineChannelNumber(r, n, s, row) ==
  IF <<n, s>> \in DOMAIN r.channels THEN r
  ELSE [r EXCEPT !.channels = [k \in DOMAIN @ \cup {<<n, s>>} |->
                                 IF k = <<n, s>> THEN row ELSE r.channels[k]]]

\* The map is asked with operator[], which adds an empty row for a pair it does
\* not know; DefineChannelNumber then takes the pair for defined.
GetFrequencyWidthForChannelNumberStandard(r, n, s) == DefineChannelNumber(r, n, s, NoRow)

AddSupportedChannelWidth(r, width) ==
  [r EXCEPT !.widths = IF Contains(@, width) THEN @ ELSE Append(@, width)]

SetChannelWidth(r, width) == AddSupportedChannelWidth([r EXCEPT !.width = width], width)

\* Bug: the number stays that of the frequency before.
BugNumberKept(r, f) ==
  IF ~r.constructed THEN [r EXCEPT !.initialFrequency = f]
  ELSE IF f = 0 THEN [r EXCEPT !.frequency = 0, !.number = 0]
  ELSE LET n == FindChannelNumberForFrequencyWidth(r.channels, f, r.width)
       IN  [r EXCEPT !.frequency = f, !.number = IF n = 0 THEN @ ELSE n]

SetFrequency(r, f) ==
  IF ~r.constructed THEN [r EXCEPT !.initialFrequency = f]
  ELSE IF f = r.frequency THEN r
  ELSE IF f = 0 THEN [r EXCEPT !.frequency = 0, !.number = 0]
  ELSE [r EXCEPT !.frequency = f,
          !.number = FindChannelNumberForFrequencyWidth(r.channels, f, r.width)]

Asked(r, n) ==
  LET own == GetFrequencyWidthForChannelNumberStandard(r, n, r.standard)
  IN  IF own.channels[<<n, r.standard>>][1] # 0 THEN own
      ELSE GetFrequencyWidthForChannelNumberStandard(own, n, "UNSPECIFIED")

\* An unknown number is a fatal error.
SetChannelNumber(r, n) ==
  IF ~r.constructed THEN [r EXCEPT !.initialNumber = n]
  ELSE IF n = r.number THEN r
  ELSE IF n = 0 THEN [r EXCEPT !.number = 0]
  ELSE LET asked == Asked(r, n)
           row == RowFor(asked.channels, n, r.standard)
       IN  IF row[1] = 0 THEN [asked EXCEPT !.fatal = TRUE]
           ELSE SetChannelWidth([asked EXCEPT !.frequency = row[1], !.number = n], row[2])

\* The frequency has precedence over the number.
InitializeFrequencyChannelNumber(r) ==
  LET tuned == IF r.initialFrequency # 0 THEN SetFrequency(r, r.initialFrequency)
               ELSE IF r.initialNumber = 0 THEN r
               ELSE IF r.standard # "UNSPECIFIED" THEN SetChannelNumber(r, r.initialNumber)
               ELSE [r EXCEPT !.fatal = TRUE]
  IN  [tuned EXCEPT !.ready = TRUE]

Default(standard) ==
  CASE standard \in {"80211a", "holland", "80211n_5GHZ"} -> <<5180, 20>>
    [] standard = "80211b" -> <<2412, 22>>
    [] standard \in {"80211g", "80211n_2_4GHZ", "80211ax_2_4GHZ"} -> <<2412, 20>>
    [] standard = "80211_10MHZ" -> <<5860, 10>>
    [] standard = "80211_5MHZ" -> <<5860, 5>>
    [] standard \in {"80211ac", "80211ax_5GHZ"} -> <<5210, 80>>

ConfigureDefaultsForStandard(r, s) ==
  SetFrequency(SetChannelWidth(r, Default(s)[2]), Default(s)[1])

\* Bug: the number is not searched again.
BugNotSearched(r, s) == r

\* With a frequency, the number is searched again.  A number has a frequency, so
\* the case of a number alone does not arise.
ConfigureChannelForStandard(r, s) ==
  SetChannelNumber(r, FindChannelNumberForFrequencyWidth(r.channels, r.frequency, r.width))
-----------------------------------------------------------------------------
(* The modes.                                                              *)

\* Bug: the modes that are there are not erased.
BugHtAgain(r) ==
  IF ~Contains(r.selectors, "HT") THEN r
  ELSE [r EXCEPT !.mcs = @ \o [i \in 1..8 * r.streams |-> HtMcs[i - 1]]]

WithoutHt(mcs) == Chosen(mcs, {i \in DOMAIN mcs : mcs[i].class # "HT"})

\* The HT modes are erased and added again, eight for each stream.
ConfigureHtDeviceMcsSet(r) ==
  IF ~Contains(r.selectors, "HT") THEN r
  ELSE [r EXCEPT !.mcs = WithoutHt(r.mcs) \o [i \in 1..8 * r.streams |-> HtMcs[i - 1]]]

SetMaxSupportedTxSpatialStreams(r, streams) ==
  ConfigureHtDeviceMcsSet([r EXCEPT !.streams = streams])

AddRates(r, groups) == [r EXCEPT !.rates = @ \o groups]

Is2_4Ghz(f) == f \in 2400..2500
Is5Ghz(f) == f \in 5000..6000

\* At 2.4 GHz the rates of 802.11b come twice, for 802.11g adds them too.
Configure80211n(r) ==
  LET rated == AddRates(r, IF Is2_4Ghz(r.frequency) THEN <<"DSSS", "DSSS", "ERP_OFDM">>
                           ELSE IF Is5Ghz(r.frequency) THEN <<"OFDM">> ELSE <<>>)
  IN  ConfigureHtDeviceMcsSet([rated EXCEPT !.selectors = Append(@, "HT")])

Configure80211ac(r) ==
  LET n == Configure80211n(r)
  IN  [n EXCEPT !.mcs = @ \o [i \in 1..10 |-> VhtMcs[i - 1]],
                !.selectors = Append(@, "VHT")]

\* At 5 GHz the modes of 802.11n are configured a second time.
Configure80211ax(r) ==
  LET n == Configure80211n(r)
      ac == IF Is5Ghz(r.frequency) THEN Configure80211ac(n) ELSE n
  IN  [ac EXCEPT !.mcs = @ \o [i \in 1..12 |-> HeMcs[i - 1]],
                 !.selectors = Append(@, "HE")]

ConfigureModes(r, s) ==
  CASE s = "80211a" -> AddRates(r, <<"OFDM">>)
    [] s = "80211b" -> AddRates(r, <<"DSSS">>)
    [] s = "80211g" -> AddRates(r, <<"DSSS", "ERP_OFDM">>)
    [] s = "80211_10MHZ" -> AddRates(r, <<"OFDM10">>)
    [] s = "80211_5MHZ" -> AddRates(r, <<"OFDM5">>)
    [] s = "holland" -> AddRates(r, <<"HOLLAND">>)
    [] s \in {"80211n_2_4GHZ", "80211n_5GHZ"} -> Configure80211n(r)
    [] s = "80211ac" -> Configure80211ac(r)
    [] s \in {"80211ax_2_4GHZ", "80211ax_5GHZ"} -> Configure80211ax(r)

ConfigureStandard(r, s) ==
  LET constructed == [r EXCEPT !.standard = s, !.constructed = TRUE]
      ready == IF r.ready THEN constructed ELSE InitializeFrequencyChannelNumber(constructed)
      tuned == IF ready.frequency = 0 /\ ready.number = 0
               THEN ConfigureDefaultsForStandard(ready, s)
               ELSE ConfigureChannelForStandard(ready, s)
  IN  IF ready.fatal THEN ready
      ELSE IF tuned.fatal THEN tuned
      ELSE ConfigureModes(tuned, s)

\* The object is initialized when this returns, and switching then takes its time.
DoInitialize(r) ==
  LET constructed == [r EXCEPT !.constructed = TRUE, !.initialized = TRUE]
  IN  IF r.ready THEN constructed ELSE InitializeFrequencyChannelNumber(constructed)
\* The modes that a membership selector stands for.
GetMembershipSelectorModes(selector) ==
  {HtMcs[i] : i \in 0..7}
  \cup (IF selector \in {"VHT", "HE"} THEN {VhtMcs[i] : i \in 0..9} ELSE {})
  \cup (IF selector = "HE" THEN {HeMcs[i] : i \in 0..11} ELSE {})

IsMcsSupported(r, mcs) == Contains(r.mcs, mcs)
-----------------------------------------------------------------------------
\* A call of a script.  None comes after a fatal error.
Call(r) ==
  /\ ~radio.fatal /\ ~radio.initialized /\ calls < MaxCalls
  /\ radio' = r
  /\ calls' = calls + 1

\* The helpers configure the standard of a radio once.
Next ==
  \/ \E f \in Frequency \cup {0} : Call(SetFrequency(radio, f))
  \/ \E n \in Number \cup {0} : Call(SetChannelNumber(radio, n))
  \/ \E width \in Width : Call(SetChannelWidth(radio, width))
  \/ \E d \in Extra : Call(DefineChannelNumber(radio, d[1], d[2], d[3]))
  \/ \E streams \in Streams : Call(SetMaxSupportedTxSpatialStreams(radio, streams))
  \/ \E s \in Standard :
       radio.standard = "UNSPECIFIED" /\ Call(ConfigureStandard(radio, s))
  \/ Call(DoInitialize(radio))

Spec == Init /\ [][Next]_vars
-----------------------------------------------------------------------------
\* Of whatever calls a script makes, a channel number that is set is one of the
\* frequency that is set; in particular a number never stands alone.
Aligned ==
  radio.number # 0 =>
    \E k \in DOMAIN radio.channels :
      k[1] = radio.number /\ radio.channels[k][1] = radio.frequency /\ radio.frequency # 0

\* ConfigureStandard ends, unless in a fatal error, with a frequency and with the
\* number that a search for it finds, so that a second search changes nothing.
StandardSettles ==
  [][radio'.standard # radio.standard /\ ~radio'.fatal =>
       /\ radio'.frequency # 0
       /\ radio'.number =
            FindChannelNumberForFrequencyWidth(radio'.channels, radio'.frequency, radio'.width)]_vars

\* With 802.11n or later the radio has the HT modes of its streams once each, in
\* whatever order the streams were set and the standard configured, no other mode is
\* there twice, and none is missing that one of its membership selectors stands for.
\* (The selector of 802.11ax stands for the VHT modes too, which a radio at 2.4 GHz
\* does not have.)
HtModes ==
  Contains(radio.selectors, "HT") =>
    /\ IsInjective(radio.mcs)
    /\ {m.mcs : m \in {m \in ToSet(radio.mcs) : m.class = "HT"}} = 0..8 * radio.streams - 1
    /\ \A selector \in ToSet(radio.selectors) :
         \A mcs \in GetMembershipSelectorModes(selector) :
           mcs.class # "VHT" \/ Contains(radio.selectors, "VHT") => IsMcsSupported(radio, mcs)
=============================================================================
