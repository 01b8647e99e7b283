-------------------------- MODULE WifiConfigProofs --------------------------
(***************************************************************************)
(* The configuration of a radio, for any standards, frequencies, channel   *)
(* numbers, widths, streams, definitions of channels and length of the     *)
(* script; and how long its frames last, for any ways to send, sizes and   *)
(* number of frames in an A-MPDU.                                          *)
(***************************************************************************)
EXTENDS WifiConfig, WifiDuration, DataLemmas

Key == Nat \X WifiPhyStandard

Rows == UNION {[D -> Nat \X Nat] : D \in SUBSET Key}

RateGroup == {"DSSS", "ERP_OFDM", "OFDM", "OFDM10", "OFDM5", "HOLLAND"}

Selector == {"HT", "VHT", "HE"}

HtModesOf(streams) == {HtMcs[i] : i \in 0..8 * streams - 1}
VhtModes == {VhtMcs[i] : i \in 0..9}
HeModes == {HeMcs[i] : i \in 0..11}

Radio ==
  [constructed : BOOLEAN, ready : BOOLEAN, fatal : BOOLEAN, initialized : BOOLEAN,
   initialFrequency : Nat, initialNumber : Nat,
   standard : WifiPhyStandard, frequency : Nat, number : Nat, width : Nat,
   widths : Seq(Nat), streams : 1..4, channels : Rows, rates : Seq(RateGroup),
   mcs : Seq(HtModesOf(4) \cup VhtModes \cup HeModes), selectors : Seq(Selector)]

\* Aligned of a radio r.
AlignedIn(r) ==
  r.number # 0 =>
    \E k \in DOMAIN r.channels :
      k[1] = r.number /\ r.channels[k][1] = r.frequency /\ r.frequency # 0

SameModes(r, q) ==
  q.streams = r.streams /\ q.mcs = r.mcs /\ q.selectors = r.selectors /\ q.standard = r.standard

\* What a call that has to do with the channel makes of a radio.
Tunes(r, q) == q \in Radio /\ AlignedIn(q) /\ SameModes(r, q)

-----------------------------------------------------------------------------
(* The channel.                                                            *)

LEMMA RowsAre ==
  ASSUME NEW rows
  PROVE  rows \in Rows <=> /\ rows = [k \in DOMAIN rows |-> rows[k]]
                           /\ DOMAIN rows \subseteq Key
                           /\ \A k \in DOMAIN rows : rows[k] \in Nat \X Nat
<1>1. ASSUME rows \in Rows
      PROVE  /\ rows = [k \in DOMAIN rows |-> rows[k]]
             /\ DOMAIN rows \subseteq Key
             /\ \A k \in DOMAIN rows : rows[k] \in Nat \X Nat
  <2>1. PICK D \in SUBSET Key : rows \in [D -> Nat \X Nat]
    BY <1>1 DEF Rows
  <2> QED
    BY <2>1
<1>2. ASSUME rows = [k \in DOMAIN rows |-> rows[k]], DOMAIN rows \subseteq Key,
             \A k \in DOMAIN rows : rows[k] \in Nat \X Nat
      PROVE  rows \in Rows
  <2>1. rows \in [DOMAIN rows -> Nat \X Nat]
    BY <1>2
  <2> QED
    BY <1>2, <2>1 DEF Rows
<1> QED
  BY <1>1, <1>2

LEMMA DefineTunes ==
  ASSUME NEW r \in Radio, AlignedIn(r), NEW n \in Nat, NEW s \in WifiPhyStandard, NEW row \in Nat \X Nat
  PROVE  LET q == DefineChannelNumber(r, n, s, row)
         IN  /\ Tunes(r, q) /\ <<n, s>> \in DOMAIN q.channels
             /\ q.number = r.number /\ q.frequency = r.frequency
             /\ q.constructed = r.constructed
<1> DEFINE q == DefineChannelNumber(r, n, s, row)
<1>1. CASE <<n, s>> \in DOMAIN r.channels
  BY <1>1 DEF DefineChannelNumber, Tunes, SameModes
<1>2. CASE <<n, s>> \notin DOMAIN r.channels
  <2> DEFINE grown == [k \in DOMAIN r.channels \cup {<<n, s>>} |->
                         IF k = <<n, s>> THEN row ELSE r.channels[k]]
  <2>1. r.channels \in Rows
    BY DEF Radio
  <2>2. /\ DOMAIN grown = DOMAIN r.channels \cup {<<n, s>>}
        /\ \A k \in DOMAIN r.channels : grown[k] = r.channels[k]
    BY <1>2
  <2>3. grown \in Rows
    <3>1. DOMAIN r.channels \subseteq Key /\ \A k \in DOMAIN r.channels : r.channels[k] \in Nat \X Nat
      BY <2>1, RowsAre
    <3>2. DOMAIN grown \subseteq Key
      BY <2>2, <3>1 DEF Key
    <3>3. \A k \in DOMAIN grown : grown[k] \in Nat \X Nat
      BY <3>1
    <3>4. grown = [k \in DOMAIN grown |-> grown[k]]
      OBVIOUS
    <3> HIDE DEF grown
    <3> QED
      BY <3>2, <3>3, <3>4, RowsAre
  <2>4. q = [r EXCEPT !.channels = grown]
    BY <1>2 DEF DefineChannelNumber
  <2> HIDE DEF grown, q
  <2>5. /\ q \in Radio /\ q.channels = grown /\ SameModes(r, q)
        /\ q.number = r.number /\ q.frequency = r.frequency /\ q.constructed = r.constructed
    BY <2>3, <2>4 DEF Radio, SameModes
  <2>6. AlignedIn(q)
    BY <2>2, <2>5 DEF AlignedIn
  <2> QED
    BY <2>2, <2>5, <2>6 DEF Tunes, q
<1> QED
  BY <1>1, <1>2

LEMMA WidthTunes ==
  ASSUME NEW r \in Radio, AlignedIn(r), NEW width \in Nat
  PROVE  LET q == SetChannelWidth(r, width)
         IN  /\ Tunes(r, q)
             /\ q.number = r.number /\ q.frequency = r.frequency /\ q.channels = r.channels
             /\ q.constructed = r.constructed
<1> DEFINE t == [r EXCEPT !.width = width]
           q == SetChannelWidth(r, width)
<1>1. /\ t \in Radio /\ SameModes(r, t) /\ t.number = r.number /\ t.frequency = r.frequency
      /\ t.channels = r.channels /\ t.widths = r.widths /\ t.constructed = r.constructed
  BY DEF Radio, SameModes
<1>2. q = AddSupportedChannelWidth(t, width)
  BY DEF SetChannelWidth
<1> HIDE DEF t
<1> DEFINE widths == IF Contains(t.widths, width) THEN t.widths ELSE Append(t.widths, width)
<1>3. widths \in Seq(Nat)
  BY <1>1 DEF Radio
<1>4. q = [t EXCEPT !.widths = widths]
  BY <1>2 DEF AddSupportedChannelWidth
<1> HIDE DEF widths, q
<1>5. /\ q \in Radio /\ SameModes(r, q) /\ q.number = r.number /\ q.frequency = r.frequency
      /\ q.channels = r.channels /\ q.constructed = r.constructed
  BY <1>1, <1>3, <1>4 DEF Radio, SameModes
<1>6. AlignedIn(q)
  BY <1>5 DEF AlignedIn
<1> QED
  BY <1>5, <1>6 DEF Tunes, q

\* The number that a search answers, if it is not 0, has the row that is searched.
LEMMA SearchFinds ==
  ASSUME NEW rows \in Rows, NEW f, NEW width
  PROVE  LET n == FindChannelNumberForFrequencyWidth(rows, f, width)
         IN  /\ n \in Nat
             /\ n # 0 => \E k \in DOMAIN rows : k[1] = n /\ rows[k] = <<f, width>>
<1> DEFINE found == {k[1] : k \in {k \in DOMAIN rows : rows[k] = <<f, width>>}}
<1>1. found \in SUBSET Nat
  BY RowsAre DEF Key
<1>2. FindChannelNumberForFrequencyWidth(rows, f, width) = IF found = {} THEN 0 ELSE Min(found)
  BY DEF FindChannelNumberForFrequencyWidth
<1>3. found # {} => Min(found) \in found
  <2> HIDE DEF found
  <2>1. found # {} => \E x \in found : \A y \in found : x <= y
    BY <1>1, LeastNatural
  <2> QED
    BY <2>1 DEF Min
<1>4. found # {} => \E k \in DOMAIN rows : k[1] = Min(found) /\ rows[k] = <<f, width>>
  BY <1>3
<1> HIDE DEF found
<1>5. CASE found = {}
  BY <1>2, <1>5
<1>6. CASE found # {}
  <2>1. FindChannelNumberForFrequencyWidth(rows, f, width) = Min(found) /\ Min(found) \in Nat
    BY <1>1, <1>2, <1>3, <1>6
  <2> QED
    BY <1>4, <1>6, <2>1
<1> QED
  BY <1>5, <1>6

LEMMA FrequencyTunes ==
  ASSUME NEW r \in Radio, AlignedIn(r), NEW f \in Nat
  PROVE  Tunes(r, SetFrequency(r, f))
<1> DEFINE q == SetFrequency(r, f)
<1>1. CASE ~r.constructed
  <2>1. q = [r EXCEPT !.initialFrequency = f]
    BY <1>1 DEF SetFrequency
  <2> HIDE DEF q
  <2>2. /\ q \in Radio /\ SameModes(r, q)
        /\ q.number = r.number /\ q.frequency = r.frequency /\ q.channels = r.channels
    BY <2>1 DEF Radio, SameModes
  <2> QED
    BY <2>2 DEF Tunes, AlignedIn, q
<1>2. CASE q = r
  BY <1>2 DEF Tunes, SameModes
<1>3. CASE q = [r EXCEPT !.frequency = 0, !.number = 0]
  <2> HIDE DEF q
  <2>2. q \in Radio /\ SameModes(r, q) /\ q.number = 0
    BY <1>3 DEF Radio, SameModes
  <2> QED
    BY <2>2 DEF Tunes, AlignedIn, q
<1>4. CASE /\ f # 0
           /\ q = [r EXCEPT !.frequency = f,
                     !.number = FindChannelNumberForFrequencyWidth(r.channels, f, r.width)]
  <2>1. PICK n : n = FindChannelNumberForFrequencyWidth(r.channels, f, r.width)
    OBVIOUS
  <2>2. r.channels \in Rows
    BY DEF Radio
  <2>3. /\ n \in Nat
        /\ n # 0 => \E k \in DOMAIN r.channels : k[1] = n /\ r.channels[k] = <<f, r.width>>
    BY <2>1, <2>2, SearchFinds
  <2>4. q = [r EXCEPT !.frequency = f, !.number = n]
    BY <1>4, <2>1
  <2> HIDE DEF q
  <2>5. /\ q \in Radio /\ SameModes(r, q)
        /\ q.number = n /\ q.frequency = f /\ q.channels = r.channels
    BY <2>3, <2>4 DEF Radio, SameModes
  <2>6. AlignedIn(q)
    BY <1>4, <2>3, <2>5 DEF AlignedIn
  <2> QED
    BY <2>5, <2>6 DEF Tunes, q
<1> QED
  BY <1>1, <1>2, <1>3, <1>4 DEF SetFrequency

\* After the questions of Asked, the number has a row for the standard or for none.
LEMMA AskedTunes ==
  ASSUME NEW r \in Radio, AlignedIn(r), NEW n \in Nat
  PROVE  LET q == Asked(r, n)
         IN  /\ Tunes(r, q) /\ q.number = r.number /\ q.frequency = r.frequency
             /\ q.constructed = r.constructed
<1>1. r.standard \in WifiPhyStandard /\ "UNSPECIFIED" \in WifiPhyStandard /\ NoRow \in Nat \X Nat
  <2>1. r.standard \in WifiPhyStandard
    BY DEF Radio
  <2> QED
    BY <2>1 DEF WifiPhyStandard, NoRow
<1>2. PICK own : own = GetFrequencyWidthForChannelNumberStandard(r, n, r.standard)
  OBVIOUS
<1>3. /\ Tunes(r, own) /\ own.number = r.number /\ own.frequency = r.frequency
      /\ own.constructed = r.constructed
  BY <1>1, <1>2, DefineTunes, SMTT(20), ZenonT(30) DEF GetFrequencyWidthForChannelNumberStandard
<1>4. own \in Radio /\ AlignedIn(own)
  BY <1>3 DEF Tunes
<1>5. PICK other : other = GetFrequencyWidthForChannelNumberStandard(own, n, "UNSPECIFIED")
  OBVIOUS
<1>6. /\ Tunes(own, other) /\ other.number = own.number /\ other.frequency = own.frequency
      /\ other.constructed = own.constructed
  BY <1>1, <1>4, <1>5, DefineTunes, SMTT(20), ZenonT(30) DEF GetFrequencyWidthForChannelNumberStandard
<1>7. Asked(r, n) = IF own.channels[<<n, r.standard>>][1] # 0 THEN own ELSE other
  BY <1>2, <1>5 DEF Asked
<1> QED
  BY <1>3, <1>6, <1>7 DEF Tunes, SameModes

\* A row is that of a pair with the number, or there is none.
LEMMA RowIsThere ==
  ASSUME NEW rows \in Rows, NEW n, NEW s
  PROVE  LET row == RowFor(rows, n, s)
         IN  /\ row \in Nat \X Nat
             /\ row[1] # 0 => \E k \in DOMAIN rows : k[1] = n /\ rows[k] = row
<1> DEFINE Row(t) == IF <<n, t>> \in DOMAIN rows THEN rows[<<n, t>>] ELSE NoRow
<1>1. ASSUME NEW t
      PROVE  /\ Row(t) \in Nat \X Nat
             /\ Row(t)[1] # 0 => \E k \in DOMAIN rows : k[1] = n /\ rows[k] = Row(t)
  <2>1. CASE <<n, t>> \in DOMAIN rows
    BY <2>1, RowsAre
  <2>2. CASE <<n, t>> \notin DOMAIN rows
    BY <2>2 DEF NoRow
  <2> QED
    BY <2>1, <2>2
<1>2. RowFor(rows, n, s) = IF Row(s)[1] # 0 THEN Row(s) ELSE Row("UNSPECIFIED")
  BY DEF RowFor
<1> HIDE DEF Row
<1> QED
  BY <1>1, <1>2

LEMMA NumberTunes ==
  ASSUME NEW r \in Radio, AlignedIn(r), NEW n \in Nat
  PROVE  Tunes(r, SetChannelNumber(r, n))
<1> DEFINE q == SetChannelNumber(r, n)
           asked == Asked(r, n)
           row == RowFor(asked.channels, n, r.standard)
<1>1. CASE q = [r EXCEPT !.initialNumber = n]
  <2> HIDE DEF q
  <2>2. /\ q \in Radio /\ SameModes(r, q)
        /\ q.number = r.number /\ q.frequency = r.frequency /\ q.channels = r.channels
    BY <1>1 DEF Radio, SameModes
  <2> QED
    BY <2>2 DEF Tunes, AlignedIn, q
<1>2. CASE q = r
  BY <1>2 DEF Tunes, SameModes
<1>3. CASE q = [r EXCEPT !.number = 0]
  <2> HIDE DEF q
  <2>2. q \in Radio /\ SameModes(r, q) /\ q.number = 0
    BY <1>3 DEF Radio, SameModes
  <2> QED
    BY <2>2 DEF Tunes, AlignedIn, q
<1>4. Tunes(r, asked) /\ asked.number = r.number /\ asked.frequency = r.frequency
  BY AskedTunes
<1>5. CASE q = [asked EXCEPT !.fatal = TRUE]
  <2> HIDE DEF q, asked
  <2>1. /\ q \in Radio /\ SameModes(asked, q)
        /\ q.number = asked.number /\ q.frequency = asked.frequency
        /\ q.channels = asked.channels
    BY <1>4, <1>5 DEF Radio, SameModes, Tunes
  <2> QED
    BY <1>4, <2>1 DEF Tunes, AlignedIn, SameModes, q
<1>6. CASE /\ row[1] # 0
           /\ q = SetChannelWidth([asked EXCEPT !.frequency = row[1], !.number = n], row[2])
  <2> DEFINE t == [asked EXCEPT !.frequency = row[1], !.number = n]
  <2>1. asked.channels \in Rows
    BY <1>4 DEF Tunes, Radio
  <2>2. /\ row \in Nat \X Nat
        /\ \E k \in DOMAIN asked.channels : k[1] = n /\ asked.channels[k] = row
    BY <1>6, <2>1, RowIsThere
  <2> HIDE DEF q, asked, row
  <2>3. /\ t \in Radio /\ SameModes(asked, t)
        /\ t.number = n /\ t.frequency = row[1] /\ t.channels = asked.channels
    BY <1>4, <2>2 DEF Radio, SameModes, Tunes
  <2>4. AlignedIn(t)
    BY <1>6, <2>2, <2>3 DEF AlignedIn
  <2>5. row[2] \in Nat
    BY <2>2
  <2>6. q = SetChannelWidth(t, row[2])
    BY <1>6
  <2> HIDE DEF t
  <2>7. Tunes(t, q)
    BY <2>3, <2>4, <2>5, <2>6, WidthTunes
  <2> QED
    BY <1>4, <2>3, <2>7 DEF Tunes, SameModes, q
<1> QED
  BY <1>1, <1>2, <1>3, <1>5, <1>6 DEF SetChannelNumber

-----------------------------------------------------------------------------
(* The standard.                                                           *)

LEMMA ReadyTunes ==
  ASSUME NEW r \in Radio, AlignedIn(r)
  PROVE  Tunes(r, InitializeFrequencyChannelNumber(r))
<1> DEFINE tuned == IF r.initialFrequency # 0 THEN SetFrequency(r, r.initialFrequency)
                    ELSE IF r.initialNumber = 0 THEN r
                    ELSE IF r.standard # "UNSPECIFIED" THEN SetChannelNumber(r, r.initialNumber)
                    ELSE [r EXCEPT !.fatal = TRUE]
           q == [tuned EXCEPT !.ready = TRUE]
<1>1. r.initialFrequency \in Nat /\ r.initialNumber \in Nat
  BY DEF Radio
<1>2. Tunes(r, r)
  BY DEF Tunes, SameModes
<1>3. Tunes(r, [r EXCEPT !.fatal = TRUE])
  <2> DEFINE f == [r EXCEPT !.fatal = TRUE]
  <2>1. /\ f \in Radio /\ SameModes(r, f)
        /\ f.number = r.number /\ f.frequency = r.frequency /\ f.channels = r.channels
    BY DEF Radio, SameModes
  <2> HIDE DEF f
  <2>2. Tunes(r, f)
    BY <2>1 DEF Tunes, AlignedIn
  <2> QED
    BY <2>2 DEF f
<1>4. Tunes(r, tuned)
  BY <1>1, <1>2, <1>3, FrequencyTunes, NumberTunes
<1>5. InitializeFrequencyChannelNumber(r) = q
  BY DEF InitializeFrequencyChannelNumber
<1> HIDE DEF tuned
<1>6. /\ q \in Radio /\ SameModes(tuned, q)
      /\ q.number = tuned.number /\ q.frequency = tuned.frequency /\ q.channels = tuned.channels
  BY <1>4 DEF Radio, SameModes, Tunes
<1> HIDE DEF q
<1> QED
  BY <1>4, <1>5, <1>6 DEF Tunes, AlignedIn, SameModes

SameChannel(r, q) ==
  /\ q.frequency = r.frequency /\ q.number = r.number /\ q.width = r.width
  /\ q.channels = r.channels

LEMMA DefaultsTune ==
  ASSUME NEW r \in Radio, AlignedIn(r), NEW s \in WifiPhyStandard \ {"UNSPECIFIED"}
  PROVE  Tunes(r, ConfigureDefaultsForStandard(r, s))
<1>1. PICK d : d = Default(s)
  OBVIOUS
<1>2. d[1] \in Nat /\ d[2] \in Nat
  BY <1>1 DEF Default, WifiPhyStandard
<1> DEFINE t == SetChannelWidth(r, d[2])
<1>3. Tunes(r, t)
  BY <1>2, WidthTunes
<1>4. ConfigureDefaultsForStandard(r, s) = SetFrequency(t, d[1])
  BY <1>1 DEF ConfigureDefaultsForStandard
<1> HIDE DEF t
<1>5. Tunes(t, SetFrequency(t, d[1]))
  BY <1>2, <1>3, FrequencyTunes DEF Tunes
<1> QED
  BY <1>3, <1>4, <1>5 DEF Tunes, SameModes

LEMMA ChannelTunes ==
  ASSUME NEW r \in Radio, AlignedIn(r), NEW s
  PROVE  Tunes(r, ConfigureChannelForStandard(r, s))
<1>1. r.channels \in Rows
  BY DEF Radio
<1>2. FindChannelNumberForFrequencyWidth(r.channels, r.frequency, r.width) \in Nat
  BY <1>1, SearchFinds
<1> QED
  BY <1>2, NumberTunes DEF ConfigureChannelForStandard

-----------------------------------------------------------------------------
(* The modes.                                                              *)

Mode == HtModesOf(4) \cup VhtModes \cup HeModes

LEMMA ModesAre ==
  /\ \A i \in 0..31 : HtMcs[i] = [class |-> "HT", mcs |-> i]
  /\ \A i \in 0..9 : VhtMcs[i] = [class |-> "VHT", mcs |-> i]
  /\ \A i \in 0..11 : HeMcs[i] = [class |-> "HE", mcs |-> i]
BY DEF HtMcs, HtMcsLow, HtMcsHigh, VhtMcs, HeMcs, Mcs

LEMMA Classes ==
  ASSUME NEW streams \in 1..4
  PROVE  /\ HtModesOf(streams) \subseteq HtModesOf(4)
         /\ \A m \in HtModesOf(streams) : m.class = "HT"
         /\ \A m \in VhtModes : m.class = "VHT"
         /\ \A m \in HeModes : m.class = "HE"
<1>1. 0..8 * streams - 1 \subseteq 0..31 /\ 8 * 4 - 1 = 31
  OBVIOUS
<1>2. /\ HtModesOf(streams) \subseteq HtModesOf(4)
      /\ \A m \in HtModesOf(streams) : \E i \in 0..31 : m = HtMcs[i]
  BY <1>1 DEF HtModesOf
<1>3. ASSUME NEW m \in HtModesOf(streams) PROVE m.class = "HT"
  <2>1. PICK i \in 0..31 : m = HtMcs[i]
    BY <1>2
  <2>2. m = [class |-> "HT", mcs |-> i]
    BY <2>1, ModesAre
  <2> QED
    BY <2>2
<1>4. \A m \in VhtModes : m.class = "VHT"
  BY ModesAre DEF VhtModes
<1>5. \A m \in HeModes : m.class = "HE"
  BY ModesAre DEF HeModes
<1> QED
  BY <1>2, <1>3, <1>4, <1>5

\* The first n modes of a class, in the order of their numbers.
Numbered(class, n) == [i \in 1..n |-> [class |-> class, mcs |-> i - 1]]

LEMMA Block ==
  ASSUME NEW n \in Nat, NEW class
  PROVE  LET u == Numbered(class, n)
             M == {[class |-> class, mcs |-> i] : i \in 0..n - 1}
         IN  u \in Seq(M) /\ IsInjective(u) /\ Range(u) = M
<1> DEFINE u == Numbered(class, n)
           M == {[class |-> class, mcs |-> i] : i \in 0..n - 1}
<1>1. DOMAIN u = 1..n /\ \A i \in 1..n : u[i] = [class |-> class, mcs |-> i - 1]
  BY DEF Numbered
<1>2. u \in [1..n -> M]
  <2>1. \A i \in 1..n : i - 1 \in 0..n - 1
    OBVIOUS
  <2>2. \A i \in 1..n : [class |-> class, mcs |-> i - 1] \in M
    BY <2>1
  <2> HIDE DEF M
  <2> QED
    BY <2>2 DEF Numbered
<1>3. u \in Seq(M)
  <2> HIDE DEF u, M
  <2> QED
    BY <1>2
<1>4. IsInjective(u)
  <2> HIDE DEF u
  <2>1. ASSUME NEW a \in 1..n, NEW b \in 1..n, u[a] = u[b]
        PROVE  a = b
    <3>1. u[a].mcs = a - 1 /\ u[b].mcs = b - 1
      BY <1>1
    <3> QED
      BY <2>1, <3>1
  <2> QED
    BY <1>1, <2>1 DEF IsInjective
<1>5. M \subseteq Range(u)
  <2> SUFFICES ASSUME NEW m \in M PROVE m \in Range(u)
    OBVIOUS
  <2>1. PICK i \in 0..n - 1 : m = [class |-> class, mcs |-> i]
    OBVIOUS
  <2>2. i + 1 \in 1..n /\ (i + 1) - 1 = i
    OBVIOUS
  <2> HIDE DEF u, M
  <2>3. u[i + 1] = m
    BY <1>1, <2>1, <2>2
  <2> QED
    BY <1>1, <2>2, <2>3 DEF Range
<1>6. Range(u) \subseteq M
  <2> HIDE DEF u, M
  <2> QED
    BY <1>2 DEF Range
<1> QED
  BY <1>3, <1>4, <1>5, <1>6

\* The blocks in which the code adds the modes.
LEMMA Blocks ==
  /\ \A streams \in 1..4 :
       /\ [i \in 1..8 * streams |-> HtMcs[i - 1]] = Numbered("HT", 8 * streams)
       /\ HtModesOf(streams) = {[class |-> "HT", mcs |-> i] : i \in 0..8 * streams - 1}
  /\ [i \in 1..10 |-> VhtMcs[i - 1]] = Numbered("VHT", 10)
  /\ VhtModes = {[class |-> "VHT", mcs |-> i] : i \in 0..10 - 1}
  /\ [i \in 1..12 |-> HeMcs[i - 1]] = Numbered("HE", 12)
  /\ HeModes = {[class |-> "HE", mcs |-> i] : i \in 0..12 - 1}
<1>1. ASSUME NEW streams \in 1..4
      PROVE  /\ [i \in 1..8 * streams |-> HtMcs[i - 1]] = Numbered("HT", 8 * streams)
             /\ HtModesOf(streams) = {[class |-> "HT", mcs |-> i] : i \in 0..8 * streams - 1}
  <2>1. /\ \A i \in 1..8 * streams : i - 1 \in 0..31
        /\ \A i \in 0..8 * streams - 1 : i \in 0..31
    OBVIOUS
  <2>2. PICK n : n = 8 * streams
    OBVIOUS
  <2>3. /\ \A i \in 1..n : HtMcs[i - 1] = [class |-> "HT", mcs |-> i - 1]
        /\ \A i \in 0..n - 1 : HtMcs[i] = [class |-> "HT", mcs |-> i]
    BY <2>1, <2>2, ModesAre
  <2>4. [i \in 1..n |-> HtMcs[i - 1]] = Numbered("HT", n)
    BY <2>3 DEF Numbered
  <2>5. {HtMcs[i] : i \in 0..n - 1} = {[class |-> "HT", mcs |-> i] : i \in 0..n - 1}
    BY <2>3, SMTT(20), ZenonT(30)
  <2> QED
    BY <2>2, <2>4, <2>5 DEF HtModesOf
<1>2. /\ [i \in 1..10 |-> VhtMcs[i - 1]] = Numbered("VHT", 10)
      /\ VhtModes = {[class |-> "VHT", mcs |-> i] : i \in 0..10 - 1}
  <2>1. (\A i \in 1..10 : i - 1 \in 0..9) /\ 10 - 1 = 9
    OBVIOUS
  <2> QED
    BY <2>1, ModesAre DEF Numbered, VhtModes
<1>3. /\ [i \in 1..12 |-> HeMcs[i - 1]] = Numbered("HE", 12)
      /\ HeModes = {[class |-> "HE", mcs |-> i] : i \in 0..12 - 1}
  <2>1. (\A i \in 1..12 : i - 1 \in 0..11) /\ 12 - 1 = 11
    OBVIOUS
  <2> QED
    BY <2>1, ModesAre DEF Numbered, HeModes
<1> QED
  BY <1>1, <1>2, <1>3

\* The modes of q are M and its selectors L; what r had otherwise q has too.
Has(r, q, M, L) ==
  /\ q \in Radio /\ SameChannel(r, q) /\ q.streams = r.streams /\ q.standard = r.standard
  /\ IsInjective(q.mcs) /\ Range(q.mcs) = M /\ Range(q.selectors) = L

LEMMA HtAgain ==
  ASSUME NEW r \in Radio, IsInjective(r.mcs), "HT" \in Range(r.selectors)
  PROVE  Has(r, ConfigureHtDeviceMcsSet(r),
             {m \in Range(r.mcs) : m.class # "HT"} \cup HtModesOf(r.streams), Range(r.selectors))
<1>0. PICK n \in Nat : n = 8 * r.streams /\ 0..n - 1 \subseteq 0..31
  <2>1. r.streams \in 1..4
    BY DEF Radio
  <2>2. 8 * r.streams \in Nat /\ 0..8 * r.streams - 1 \subseteq 0..31
    BY <2>1
  <2> QED
    BY <2>2
<1> DEFINE C == {i \in DOMAIN r.mcs : r.mcs[i].class # "HT"}
           s == Chosen(r.mcs, C)
           u == [i \in 1..n |-> HtMcs[i - 1]]
<1>1. /\ r.mcs \in Seq(Mode) /\ r.streams \in 1..4 /\ DOMAIN r.mcs = 1..Len(r.mcs)
      /\ r.selectors \in Seq(Selector)
  BY DEF Radio, Mode
<1>2. s \in Seq(Mode) /\ IsInjective(s) /\ Range(s) = {r.mcs[i] : i \in C}
  <2>1. C \in SUBSET (1..Len(r.mcs))
    BY <1>1
  <2> HIDE DEF C
  <2> QED
    BY <1>1, <2>1, ChosenElements
<1>3. Range(s) = {m \in Range(r.mcs) : m.class # "HT"}
  <2>1. {r.mcs[i] : i \in C} = {m \in Range(r.mcs) : m.class # "HT"}
    BY DEF Range
  <2> QED
    BY <1>2, <2>1
<1>4. u \in Seq(HtModesOf(r.streams)) /\ IsInjective(u) /\ Range(u) = HtModesOf(r.streams)
  <2>1. u = Numbered("HT", n) /\ HtModesOf(r.streams) = {[class |-> "HT", mcs |-> i] : i \in 0..n - 1}
    BY <1>0, <1>1, Blocks
  <2> HIDE DEF u
  <2> QED
    BY <2>1, Block
<1>5. u \in Seq(Mode)
  <2>1. HtModesOf(r.streams) \subseteq Mode
    BY <1>1, Classes DEF Mode
  <2> HIDE DEF u
  <2> QED
    BY <1>4, <2>1
<1>6. Range(s) \cap Range(u) = {}
  <2>1. \A m \in HtModesOf(r.streams) : m.class = "HT"
    BY <1>1, Classes
  <2> HIDE DEF s, u
  <2> QED
    BY <1>3, <1>4, <2>1
<1> DEFINE q == ConfigureHtDeviceMcsSet(r)
<1>7. q = [r EXCEPT !.mcs = s \o u]
  <2>1. Contains(r.selectors, "HT")
    BY <1>1 DEF Contains, Range
  <2> QED
    BY <1>0, <2>1 DEF ConfigureHtDeviceMcsSet, WithoutHt
<1> HIDE DEF s, u, q
<1>8. s \o u \in Seq(Mode)
  BY <1>2, <1>5
<1>9. IsInjective(s \o u) /\ Range(s \o u) = Range(s) \cup Range(u)
  BY <1>2, <1>4, <1>5, <1>6, ConcatOnce
<1>10. /\ q \in Radio /\ SameChannel(r, q) /\ q.streams = r.streams /\ q.standard = r.standard
       /\ q.mcs = s \o u /\ q.selectors = r.selectors
  BY <1>7, <1>8 DEF Radio, SameChannel, Mode
<1> QED
  BY <1>3, <1>4, <1>9, <1>10 DEF Has, q

\* More modes, that were not there, and a selector for them.
LEMMA Joined ==
  ASSUME NEW r \in Radio, IsInjective(r.mcs), NEW M \in SUBSET Mode, NEW u \in Seq(M),
         IsInjective(u), Range(u) = M, Range(r.mcs) \cap M = {}, NEW x \in Selector
  PROVE  Has(r, [r EXCEPT !.mcs = @ \o u, !.selectors = Append(@, x)],
             Range(r.mcs) \cup M, Range(r.selectors) \cup {x})
<1>1. r.mcs \in Seq(Mode) /\ r.selectors \in Seq(Selector) /\ u \in Seq(Mode)
  BY DEF Radio, Mode
<1>2. r.mcs \o u \in Seq(Mode) /\ IsInjective(r.mcs \o u)
      /\ Range(r.mcs \o u) = Range(r.mcs) \cup M
  BY <1>1, ConcatOnce
<1>3. /\ Append(r.selectors, x) \in Seq(Selector)
      /\ Range(Append(r.selectors, x)) = Range(r.selectors) \cup {x}
  BY <1>1, AppendElements
<1> DEFINE q == [r EXCEPT !.mcs = r.mcs \o u, !.selectors = Append(r.selectors, x)]
<1>4. /\ q \in Radio /\ SameChannel(r, q) /\ q.streams = r.streams /\ q.standard = r.standard
      /\ q.mcs = r.mcs \o u /\ q.selectors = Append(r.selectors, x)
  BY <1>2, <1>3 DEF Radio, SameChannel, Mode
<1> HIDE DEF q
<1>5. Has(r, q, Range(r.mcs) \cup M, Range(r.selectors) \cup {x})
  BY <1>2, <1>3, <1>4 DEF Has
<1> QED
  BY <1>5 DEF q

\* The modes other than HT for which there is a selector in L.
Others(L) == (IF "VHT" \in L THEN VhtModes ELSE {}) \cup (IF "HE" \in L THEN HeModes ELSE {})

\* The invariant of the modes: those of the selectors, once each.
ModesIn(r) ==
  /\ IsInjective(r.mcs)
  /\ Range(r.mcs) = (IF "HT" \in Range(r.selectors) THEN HtModesOf(r.streams) ELSE {})
                      \cup Others(Range(r.selectors))

\* What a call that has to do with the modes makes of a radio: its selectors are L.
Selects(r, q, L) ==
  /\ q \in Radio /\ SameChannel(r, q) /\ q.streams = r.streams /\ q.standard = r.standard
  /\ ModesIn(q) /\ Range(q.selectors) = L

LEMMA NotHt ==
  ASSUME NEW streams \in 1..4, NEW L
  PROVE  /\ {m \in HtModesOf(streams) \cup Others(L) : m.class # "HT"} = Others(L)
         /\ {m \in Others(L) : m.class # "HT"} = Others(L)
<1>1. /\ \A m \in HtModesOf(streams) : m.class = "HT"
      /\ \A m \in Others(L) : m.class # "HT"
  BY Classes DEF Others
<1> QED
  BY <1>1

LEMMA RatesSelect ==
  ASSUME NEW r \in Radio, ModesIn(r), NEW groups \in Seq(RateGroup)
  PROVE  Selects(r, AddRates(r, groups), Range(r.selectors))
<1> DEFINE q == AddRates(r, groups)
<1>1. r.rates \o groups \in Seq(RateGroup)
  BY DEF Radio
<1>2. q = [r EXCEPT !.rates = r.rates \o groups]
  BY DEF AddRates
<1> HIDE DEF q
<1>3. /\ q \in Radio /\ SameChannel(r, q) /\ q.streams = r.streams /\ q.standard = r.standard
      /\ q.mcs = r.mcs /\ q.selectors = r.selectors
  BY <1>1, <1>2 DEF Radio, SameChannel
<1> QED
  BY <1>3 DEF Selects, ModesIn, q

\* The HT modes are erased and added for the streams there are now.
LEMMA HtSelects ==
  ASSUME NEW r \in Radio, IsInjective(r.mcs), "HT" \in Range(r.selectors),
         {m \in Range(r.mcs) : m.class # "HT"} = Others(Range(r.selectors))
  PROVE  Selects(r, ConfigureHtDeviceMcsSet(r), Range(r.selectors))
<1>1. PICK q : q = ConfigureHtDeviceMcsSet(r)
  OBVIOUS
<1>2. Has(r, q, Others(Range(r.selectors)) \cup HtModesOf(r.streams), Range(r.selectors))
  BY <1>1, HtAgain
<1> QED
  BY <1>1, <1>2 DEF Has, Selects, ModesIn

LEMMA Selects11n ==
  ASSUME NEW r \in Radio, ModesIn(r)
  PROVE  Selects(r, Configure80211n(r), Range(r.selectors) \cup {"HT"})
<1>1. PICK groups : groups = IF Is2_4Ghz(r.frequency) THEN <<"DSSS", "DSSS", "ERP_OFDM">>
                             ELSE IF Is5Ghz(r.frequency) THEN <<"OFDM">> ELSE <<>>
  OBVIOUS
<1>2. groups \in Seq(RateGroup)
  <2>1. /\ "DSSS" \in RateGroup /\ "ERP_OFDM" \in RateGroup /\ "OFDM" \in RateGroup
    BY DEF RateGroup
  <2>2. \A a, b, c \in RateGroup : <<a, b, c>> \in Seq(RateGroup) /\ <<a>> \in Seq(RateGroup)
    OBVIOUS
  <2>3. <<>> \in Seq(RateGroup)
    OBVIOUS
  <2> QED
    BY <1>1, <2>1, <2>2, <2>3
<1>3. PICK rated : rated = AddRates(r, groups)
  OBVIOUS
<1>4. Selects(r, rated, Range(r.selectors))
  BY <1>2, <1>3, RatesSelect
<1>5. PICK t : t = [rated EXCEPT !.selectors = Append(rated.selectors, "HT")]
  OBVIOUS
<1>6. Configure80211n(r) = ConfigureHtDeviceMcsSet(t)
  BY <1>1, <1>3, <1>5 DEF Configure80211n
<1>7. rated \in Radio /\ rated.selectors \in Seq(Selector) /\ "HT" \in Selector
  BY <1>4 DEF Selects, Radio, Selector
<1>8. /\ Append(rated.selectors, "HT") \in Seq(Selector)
      /\ Range(Append(rated.selectors, "HT")) = Range(rated.selectors) \cup {"HT"}
  BY <1>7, AppendElements
<1>9. /\ t \in Radio /\ SameChannel(rated, t) /\ t.streams = rated.streams
      /\ t.standard = rated.standard /\ t.mcs = rated.mcs
      /\ t.selectors = Append(rated.selectors, "HT")
  BY <1>5, <1>7, <1>8 DEF Radio, SameChannel
<1>10. Others(Range(t.selectors)) = Others(Range(rated.selectors))
  BY <1>8, <1>9 DEF Others
<1>11. {m \in Range(t.mcs) : m.class # "HT"} = Others(Range(t.selectors))
  <2>1. rated.streams \in 1..4 /\ ModesIn(rated)
    BY <1>4 DEF Selects, Radio
  <2>2. CASE "HT" \in Range(rated.selectors)
    BY <1>9, <1>10, <2>1, <2>2, NotHt DEF ModesIn
  <2>3. CASE "HT" \notin Range(rated.selectors)
    <3>1. Range(t.mcs) = Others(Range(t.selectors))
      BY <1>9, <1>10, <2>1, <2>3 DEF ModesIn
    <3> QED
      BY <2>1, <3>1, NotHt
  <2> QED
    BY <2>2, <2>3
<1>12. IsInjective(t.mcs) /\ "HT" \in Range(t.selectors)
  BY <1>4, <1>8, <1>9 DEF Selects, ModesIn
<1>13. Selects(t, ConfigureHtDeviceMcsSet(t), Range(t.selectors))
  BY <1>9, <1>11, <1>12, HtSelects
<1> QED
  BY <1>4, <1>6, <1>8, <1>9, <1>13 DEF Selects, SameChannel

\* Modes of a class for which there was no selector yet.
LEMMA Added ==
  ASSUME NEW r \in Radio, ModesIn(r), NEW u, NEW x \in {"VHT", "HE"},
         x \notin Range(r.selectors), "HT" \in Range(r.selectors),
         \/ x = "VHT" /\ u = [i \in 1..10 |-> VhtMcs[i - 1]]
         \/ x = "HE" /\ u = [i \in 1..12 |-> HeMcs[i - 1]]
  PROVE  Selects(r, [r EXCEPT !.mcs = @ \o u, !.selectors = Append(@, x)],
                 Range(r.selectors) \cup {x})
<1>1. PICK M : M = IF x = "VHT" THEN VhtModes ELSE HeModes
  OBVIOUS
<1>2. u \in Seq(M) /\ IsInjective(u) /\ Range(u) = M
  <2>1. CASE x = "VHT"
    <3>1. u = Numbered("VHT", 10) /\ M = {[class |-> "VHT", mcs |-> i] : i \in 0..10 - 1}
      <4>1. u = [i \in 1..10 |-> VhtMcs[i - 1]] /\ M = VhtModes
        BY <1>1, <2>1
      <4> QED
        BY <4>1, Blocks
    <3>2. LET w == Numbered("VHT", 10)
              N == {[class |-> "VHT", mcs |-> i] : i \in 0..10 - 1}
          IN  w \in Seq(N) /\ IsInjective(w) /\ Range(w) = N
      <4>1. 10 \in Nat
        OBVIOUS
      <4> QED
        BY <4>1, Block
    <3> QED
      BY <3>1, <3>2
  <2>2. CASE x = "HE"
    <3>1. u = Numbered("HE", 12) /\ M = {[class |-> "HE", mcs |-> i] : i \in 0..12 - 1}
      <4>1. u = [i \in 1..12 |-> HeMcs[i - 1]] /\ M = HeModes
        BY <1>1, <2>2
      <4> QED
        BY <4>1, Blocks
    <3>2. LET w == Numbered("HE", 12)
              N == {[class |-> "HE", mcs |-> i] : i \in 0..12 - 1}
          IN  w \in Seq(N) /\ IsInjective(w) /\ Range(w) = N
      <4>1. 12 \in Nat
        OBVIOUS
      <4> QED
        BY <4>1, Block
    <3> QED
      BY <3>1, <3>2
  <2> QED
    BY <2>1, <2>2
<1>3. M \in SUBSET Mode /\ x \in Selector
  BY <1>1 DEF Mode, Selector
<1>4. r.streams \in 1..4
  BY DEF Radio
<1>5. \A m \in M : m.class = x
  BY <1>1, <1>4, Classes
<1>6. \A m \in Range(r.mcs) : m.class # x
  BY <1>4, Classes DEF ModesIn, Others
<1>7. Range(r.mcs) \cap M = {}
  BY <1>5, <1>6
<1>8. PICK q : q = [r EXCEPT !.mcs = @ \o u, !.selectors = Append(@, x)]
  OBVIOUS
<1>9. Has(r, q, Range(r.mcs) \cup M, Range(r.selectors) \cup {x})
  BY <1>2, <1>3, <1>7, <1>8, Joined DEF ModesIn
<1>10. ModesIn(q)
  <2>1. Others(Range(r.selectors) \cup {x}) = Others(Range(r.selectors)) \cup M
    BY <1>1 DEF Others
  <2> QED
    BY <1>9, <2>1 DEF Has, ModesIn
<1> QED
  BY <1>8, <1>9, <1>10 DEF Has, Selects

LEMMA Selects11ac ==
  ASSUME NEW r \in Radio, ModesIn(r), "VHT" \notin Range(r.selectors)
  PROVE  Selects(r, Configure80211ac(r), Range(r.selectors) \cup {"HT", "VHT"})
<1>1. PICK n : n = Configure80211n(r)
  OBVIOUS
<1>2. Selects(r, n, Range(r.selectors) \cup {"HT"})
  BY <1>1, Selects11n
<1>3. PICK u : u = [i \in 1..10 |-> VhtMcs[i - 1]]
  OBVIOUS
<1>4. PICK q : q = [n EXCEPT !.mcs = @ \o u, !.selectors = Append(@, "VHT")]
  OBVIOUS
<1>5. Configure80211ac(r) = q
  BY <1>1, <1>3, <1>4 DEF Configure80211ac
<1>6. n \in Radio /\ ModesIn(n) /\ "VHT" \notin Range(n.selectors) /\ "HT" \in Range(n.selectors)
  BY <1>2 DEF Selects
<1>7. Selects(n, q, Range(n.selectors) \cup {"VHT"})
  BY <1>3, <1>4, <1>6, Added
<1>8. Range(q.selectors) = Range(r.selectors) \cup {"HT", "VHT"}
  BY <1>2, <1>7 DEF Selects
<1> QED
  BY <1>2, <1>5, <1>7, <1>8 DEF Selects, SameChannel

LEMMA Selects11ax ==
  ASSUME NEW r \in Radio, ModesIn(r), Range(r.selectors) = {}
  PROVE  \E L : Selects(r, Configure80211ax(r), L)
<1>1. PICK n : n = Configure80211n(r)
  OBVIOUS
<1>2. Selects(r, n, {"HT"})
  BY <1>1, Selects11n
<1>3. PICK ac : ac = IF Is5Ghz(r.frequency) THEN Configure80211ac(n) ELSE n
  OBVIOUS
<1>4. PICK L : Selects(n, ac, L) /\ "HT" \in L /\ "HE" \notin L
  <2>1. n \in Radio /\ ModesIn(n) /\ Range(n.selectors) = {"HT"}
    BY <1>2 DEF Selects
  <2>2. CASE Is5Ghz(r.frequency)
    <3>1. Selects(n, ac, Range(n.selectors) \cup {"HT", "VHT"})
      BY <1>3, <2>1, <2>2, Selects11ac
    <3> QED
      BY <2>1, <3>1
  <2>3. CASE ~Is5Ghz(r.frequency)
    <3>1. Selects(n, ac, {"HT"})
      BY <1>3, <2>1, <2>3 DEF Selects, SameChannel
    <3> QED
      BY <3>1
  <2> QED
    BY <2>2, <2>3
<1>5. PICK u : u = [i \in 1..12 |-> HeMcs[i - 1]]
  OBVIOUS
<1>6. PICK q : q = [ac EXCEPT !.mcs = @ \o u, !.selectors = Append(@, "HE")]
  OBVIOUS
<1>7. Configure80211ax(r) = q
  BY <1>1, <1>3, <1>5, <1>6 DEF Configure80211ax
<1>8. ac \in Radio /\ ModesIn(ac) /\ "HE" \notin Range(ac.selectors) /\ "HT" \in Range(ac.selectors)
  BY <1>4 DEF Selects
<1>9. Selects(ac, q, Range(ac.selectors) \cup {"HE"})
  BY <1>5, <1>6, <1>8, Added
<1>10. Selects(r, q, Range(q.selectors))
  BY <1>2, <1>4, <1>9 DEF Selects, SameChannel
<1> QED
  BY <1>7, <1>10

LEMMA ModesSelect ==
  ASSUME NEW r \in Radio, ModesIn(r), Range(r.selectors) = {},
         NEW s \in WifiPhyStandard \ {"UNSPECIFIED"}
  PROVE  \E L : Selects(r, ConfigureModes(r, s), L)
<1>1. \A a \in RateGroup : <<a>> \in Seq(RateGroup)
  OBVIOUS
<1>2. \A a, b \in RateGroup : <<a, b>> \in Seq(RateGroup)
  OBVIOUS
<1>3. CASE s = "80211a"
  <2>1. ConfigureModes(r, s) = AddRates(r, <<"OFDM">>) /\ "OFDM" \in RateGroup
    BY <1>3 DEF ConfigureModes, RateGroup
  <2> QED
    BY <1>1, <2>1, RatesSelect
<1>4. CASE s = "80211b"
  <2>1. ConfigureModes(r, s) = AddRates(r, <<"DSSS">>) /\ "DSSS" \in RateGroup
    BY <1>4 DEF ConfigureModes, RateGroup
  <2> QED
    BY <1>1, <2>1, RatesSelect
<1>5. CASE s = "80211g"
  <2>1. /\ ConfigureModes(r, s) = AddRates(r, <<"DSSS", "ERP_OFDM">>)
        /\ "DSSS" \in RateGroup /\ "ERP_OFDM" \in RateGroup
    BY <1>5 DEF ConfigureModes, RateGroup
  <2> QED
    BY <1>2, <2>1, RatesSelect
<1>6. CASE s = "80211_10MHZ"
  <2>1. ConfigureModes(r, s) = AddRates(r, <<"OFDM10">>) /\ "OFDM10" \in RateGroup
    BY <1>6 DEF ConfigureModes, RateGroup
  <2> QED
    BY <1>1, <2>1, RatesSelect
<1>7. CASE s = "80211_5MHZ"
  <2>1. ConfigureModes(r, s) = AddRates(r, <<"OFDM5">>) /\ "OFDM5" \in RateGroup
    BY <1>7 DEF ConfigureModes, RateGroup
  <2> QED
    BY <1>1, <2>1, RatesSelect
<1>8. CASE s = "holland"
  <2>1. ConfigureModes(r, s) = AddRates(r, <<"HOLLAND">>) /\ "HOLLAND" \in RateGroup
    BY <1>8 DEF ConfigureModes, RateGroup
  <2> QED
    BY <1>1, <2>1, RatesSelect
<1>9. CASE s \in {"80211n_2_4GHZ", "80211n_5GHZ"}
  <2>1. ConfigureModes(r, s) = Configure80211n(r)
    BY <1>9 DEF ConfigureModes
  <2> QED
    BY <2>1, Selects11n
<1>10. CASE s = "80211ac"
  <2>1. ConfigureModes(r, s) = Configure80211ac(r)
    BY <1>10 DEF ConfigureModes
  <2> QED
    BY <2>1, Selects11ac
<1>11. CASE s \in {"80211ax_2_4GHZ", "80211ax_5GHZ"}
  <2>1. ConfigureModes(r, s) = Configure80211ax(r)
    BY <1>11 DEF ConfigureModes
  <2> QED
    BY <2>1, Selects11ax
<1> QED
  BY <1>3, <1>4, <1>5, <1>6, <1>7, <1>8, <1>9, <1>10, <1>11 DEF WifiPhyStandard

-----------------------------------------------------------------------------
(* The steps.                                                              *)

\* The inductive invariant of a radio: the number that is set is one of the
\* frequency, the modes are those of the selectors, and there is a selector only
\* when there is a standard (which is configured once).
Sound(r) ==
  /\ r \in Radio
  /\ AlignedIn(r)
  /\ ModesIn(r)
  /\ r.standard = "UNSPECIFIED" => Range(r.selectors) = {}

LEMMA TunesSound ==
  ASSUME NEW r, Sound(r), NEW q, Tunes(r, q)
  PROVE  Sound(q)
BY DEF Sound, Tunes, SameModes, ModesIn

LEMMA StreamsSound ==
  ASSUME NEW r, Sound(r), NEW streams \in 1..4
  PROVE  Sound(SetMaxSupportedTxSpatialStreams(r, streams))
<1>1. PICK t : t = [r EXCEPT !.streams = streams]
  OBVIOUS
<1>2. /\ t \in Radio /\ SameChannel(r, t) /\ t.streams = streams /\ t.standard = r.standard
      /\ t.mcs = r.mcs /\ t.selectors = r.selectors
  BY <1>1 DEF Sound, Radio, SameChannel
<1>3. AlignedIn(t)
  BY <1>2 DEF Sound, SameChannel, AlignedIn
<1>4. SetMaxSupportedTxSpatialStreams(r, streams) = ConfigureHtDeviceMcsSet(t)
  BY <1>1 DEF SetMaxSupportedTxSpatialStreams
<1>5. r.streams \in 1..4 /\ t.selectors \in Seq(Selector)
  BY <1>2 DEF Sound, Radio
<1>6. CASE "HT" \in Range(t.selectors)
  <2>1. {m \in Range(t.mcs) : m.class # "HT"} = Others(Range(t.selectors))
    BY <1>2, <1>5, <1>6, NotHt DEF Sound, ModesIn
  <2>2. IsInjective(t.mcs)
    BY <1>2 DEF Sound, ModesIn
  <2>3. PICK q : q = ConfigureHtDeviceMcsSet(t)
    OBVIOUS
  <2>4. Selects(t, q, Range(t.selectors))
    BY <1>2, <1>6, <2>1, <2>2, <2>3, HtSelects
  <2>5. AlignedIn(q)
    BY <1>3, <2>4 DEF Selects, SameChannel, AlignedIn
  <2>6. Sound(q)
    BY <1>2, <2>4, <2>5 DEF Sound, Selects
  <2> QED
    BY <1>4, <2>3, <2>6
<1>7. CASE "HT" \notin Range(t.selectors)
  <2>1. ~Contains(t.selectors, "HT")
    BY <1>5, <1>7 DEF Contains, Range
  <2>2. ConfigureHtDeviceMcsSet(t) = t
    BY <2>1 DEF ConfigureHtDeviceMcsSet
  <2>3. ModesIn(t)
    BY <1>2, <1>7 DEF Sound, ModesIn
  <2>4. Sound(t)
    BY <1>2, <1>3, <2>3 DEF Sound
  <2> QED
    BY <1>4, <2>2, <2>4
<1> QED
  BY <1>6, <1>7

LEMMA StandardSound ==
  ASSUME NEW r, Sound(r), r.standard = "UNSPECIFIED", NEW s \in WifiPhyStandard \ {"UNSPECIFIED"}
  PROVE  Sound(ConfigureStandard(r, s))
<1>1. PICK constructed : constructed = [r EXCEPT !.standard = s, !.constructed = TRUE]
  OBVIOUS
<1>2. /\ constructed \in Radio /\ SameChannel(r, constructed)
      /\ constructed.streams = r.streams /\ constructed.standard = s
      /\ constructed.mcs = r.mcs /\ constructed.selectors = r.selectors
  BY <1>1 DEF Sound, Radio, SameChannel
<1>3. Sound(constructed) /\ Range(constructed.selectors) = {}
  BY <1>2 DEF Sound, SameChannel, AlignedIn, ModesIn
<1>4. PICK ready : ready = IF r.ready THEN constructed
                           ELSE InitializeFrequencyChannelNumber(constructed)
  OBVIOUS
<1>5. Tunes(constructed, ready)
  <2>1. Tunes(constructed, constructed)
    BY <1>3 DEF Sound, Tunes, SameModes
  <2>2. Tunes(constructed, InitializeFrequencyChannelNumber(constructed))
    BY <1>3, ReadyTunes DEF Sound
  <2> QED
    BY <1>4, <2>1, <2>2
<1>6. PICK tuned : tuned = IF ready.frequency = 0 /\ ready.number = 0
                           THEN ConfigureDefaultsForStandard(ready, s)
                           ELSE ConfigureChannelForStandard(ready, s)
  OBVIOUS
<1>7. Tunes(ready, tuned)
  <2>1. ready \in Radio /\ AlignedIn(ready)
    BY <1>5 DEF Tunes
  <2> QED
    BY <1>6, <2>1, DefaultsTune, ChannelTunes
<1>8. PICK q : q = ConfigureModes(tuned, s)
  OBVIOUS
<1>9. ConfigureStandard(r, s) = IF ready.fatal THEN ready ELSE IF tuned.fatal THEN tuned ELSE q
  BY <1>1, <1>4, <1>6, <1>8 DEF ConfigureStandard
<1>10. Sound(ready) /\ Sound(tuned)
  BY <1>3, <1>5, <1>7, TunesSound
<1>11. Range(tuned.selectors) = {} /\ tuned.standard = s
  BY <1>2, <1>3, <1>5, <1>7 DEF Tunes, SameModes
<1>12. PICK L : Selects(tuned, q, L)
  BY <1>8, <1>10, <1>11, ModesSelect DEF Sound
<1>13. AlignedIn(q)
  BY <1>10, <1>12 DEF Sound, Selects, SameChannel, AlignedIn
<1>14. Sound(q)
  BY <1>11, <1>12, <1>13 DEF Sound, Selects
<1> QED
  BY <1>9, <1>10, <1>14

LEMMA InitializeSound ==
  ASSUME NEW r, Sound(r)
  PROVE  Sound(DoInitialize(r))
<1>1. PICK t : t = [r EXCEPT !.constructed = TRUE, !.initialized = TRUE]
  OBVIOUS
<1>2. /\ t \in Radio /\ SameChannel(r, t) /\ SameModes(r, t)
  BY <1>1 DEF Sound, Radio, SameChannel, SameModes
<1>3. Sound(t)
  BY <1>2 DEF Sound, SameChannel, SameModes, AlignedIn, ModesIn
<1>4. Tunes(t, InitializeFrequencyChannelNumber(t))
  BY <1>3, ReadyTunes DEF Sound
<1>5. Sound(InitializeFrequencyChannelNumber(t))
  BY <1>3, <1>4, TunesSound
<1> QED
  BY <1>1, <1>3, <1>5 DEF DoInitialize

LEMMA InitSound == Init => Sound(radio)
<1> SUFFICES ASSUME Init PROVE Sound(radio)
  OBVIOUS
<1> DEFINE standards == {"80211b", "80211_10MHZ", "UNSPECIFIED"}
           D == {c \in (1..184) \X standards : \E width \in Widths : c[1] \in Channels(c[2], width)}
           W(k) == CHOOSE width \in Widths : k[1] \in Channels(k[2], width)
<1>1. PICK rows : rows = InitialTable(standards)
  OBVIOUS
<1>2. rows = [k \in D |-> <<FrequencyOf(k[1]), W(k)>>]
  BY <1>1 DEF InitialTable
<1>3. D \subseteq Key
  BY DEF Key, WifiPhyStandard
<1>4. ASSUME NEW k \in D PROVE <<FrequencyOf(k[1]), W(k)>> \in Nat \X Nat
  <2>1. W(k) \in Widths
    OBVIOUS
  <2>2. W(k) \in Nat
    BY <2>1 DEF Widths
  <2>3. k[1] \in 1..184
    OBVIOUS
  <2>4. FrequencyOf(k[1]) \in Nat
    BY <2>3 DEF FrequencyOf
  <2> QED
    BY <2>2, <2>4
<1>5. rows \in Rows
  <2>1. DOMAIN rows = D /\ \A k \in D : rows[k] = <<FrequencyOf(k[1]), W(k)>>
    BY <1>2
  <2>2. \A k \in DOMAIN rows : rows[k] \in Nat \X Nat
    BY <1>4, <2>1
  <2>3. rows = [k \in DOMAIN rows |-> rows[k]]
    BY <1>2
  <2> HIDE DEF D
  <2> QED
    BY <1>3, <2>1, <2>2, <2>3, RowsAre
<1>6. /\ radio.channels = rows /\ radio.number = 0 /\ radio.mcs = <<>> /\ radio.selectors = <<>>
      /\ radio.standard = "UNSPECIFIED"
  BY <1>1 DEF Init
<1>7. radio \in Radio
  <2>1. /\ <<20>> \in Seq(Nat) /\ <<>> \in Seq(RateGroup) /\ <<>> \in Seq(Selector)
        /\ <<>> \in Seq(Mode) /\ "UNSPECIFIED" \in WifiPhyStandard
    BY DEF WifiPhyStandard
  <2> QED
    BY <1>1, <1>5, <2>1 DEF Init, Radio, Mode
<1>8. Range(<<>>) = {} /\ IsInjective(<<>>)
  BY DEF Range, IsInjective
<1>9. AlignedIn(radio) /\ ModesIn(radio)
  BY <1>6, <1>8 DEF AlignedIn, ModesIn, Others
<1> QED
  BY <1>6, <1>7, <1>8, <1>9 DEF Sound

LEMMA NextSound ==
  ASSUME Sound(radio), [Next]_vars
  PROVE  Sound(radio)'
<1> SUFFICES Sound(radio')
  BY DEF Sound, AlignedIn, ModesIn, Others, Radio, Rows, RateGroup, Selector, HtModesOf, VhtModes,
         HeModes, Key
<1>1. radio \in Radio /\ AlignedIn(radio)
  BY DEF Sound
<1>2. ASSUME NEW f \in Frequency \cup {0}, Call(SetFrequency(radio, f))
      PROVE  Sound(radio')
  <2>1. f \in Nat /\ radio' = SetFrequency(radio, f)
    BY <1>2, ChannelAssumption DEF Call
  <2> QED
    BY <1>1, <2>1, FrequencyTunes, TunesSound
<1>3. ASSUME NEW n \in Number \cup {0}, Call(SetChannelNumber(radio, n))
      PROVE  Sound(radio')
  <2>1. n \in Nat /\ radio' = SetChannelNumber(radio, n)
    BY <1>3, ChannelAssumption DEF Call
  <2> QED
    BY <1>1, <2>1, NumberTunes, TunesSound
<1>4. ASSUME NEW width \in Width, Call(SetChannelWidth(radio, width))
      PROVE  Sound(radio')
  <2>1. width \in Nat /\ radio' = SetChannelWidth(radio, width)
    BY <1>4, ChannelAssumption DEF Call
  <2> QED
    BY <1>1, <2>1, WidthTunes, TunesSound
<1>5. ASSUME NEW d \in Extra, Call(DefineChannelNumber(radio, d[1], d[2], d[3]))
      PROVE  Sound(radio')
  <2>1. /\ d[1] \in Nat /\ d[2] \in WifiPhyStandard /\ d[3] \in Nat \X Nat
        /\ radio' = DefineChannelNumber(radio, d[1], d[2], d[3])
    BY <1>5, ExtraAssumption DEF Call
  <2> QED
    BY <1>1, <2>1, DefineTunes, TunesSound
<1>6. ASSUME NEW streams \in Streams, Call(SetMaxSupportedTxSpatialStreams(radio, streams))
      PROVE  Sound(radio')
  <2>1. streams \in 1..4 /\ radio' = SetMaxSupportedTxSpatialStreams(radio, streams)
    BY <1>6, StreamsAssumption DEF Call
  <2> QED
    BY <2>1, StreamsSound
<1>7. ASSUME NEW s \in Standard, radio.standard = "UNSPECIFIED", Call(ConfigureStandard(radio, s))
      PROVE  Sound(radio')
  <2>1. s \in WifiPhyStandard \ {"UNSPECIFIED"} /\ radio' = ConfigureStandard(radio, s)
    BY <1>7, StandardAssumption DEF Call
  <2> QED
    BY <1>7, <2>1, StandardSound
<1>8. ASSUME Call(DoInitialize(radio)) PROVE Sound(radio')
  <2>1. radio' = DoInitialize(radio)
    BY <1>8 DEF Call
  <2> QED
    BY <2>1, InitializeSound
<1>9. CASE UNCHANGED vars
  BY <1>9 DEF vars
<1> QED
  BY <1>2, <1>3, <1>4, <1>5, <1>6, <1>7, <1>8, <1>9 DEF Next

-----------------------------------------------------------------------------
(* The theorems.                                                           *)

\* The radio is sound after any calls of a script.
THEOREM SoundCorrect == Spec => []Sound(radio)
<1>1. Init => Sound(radio)
  BY InitSound
<1>2. Sound(radio) /\ [Next]_vars => Sound(radio)'
  BY NextSound
<1> QED
  BY <1>1, <1>2, PTL DEF Spec

\* A channel number that is set is one of the frequency that is set, whatever
\* SetFrequency, SetChannelNumber, SetChannelWidth, DefineChannelNumber,
\* ConfigureStandard and DoInitialize were called in whatever order.
THEOREM AlignedCorrect == Spec => []Aligned
<1>1. Sound(radio) => Aligned
  BY DEF Sound, AlignedIn, Aligned
<1> QED
  BY <1>1, SoundCorrect, PTL

LEMMA SoundModes == Sound(radio) => HtModes
<1> SUFFICES ASSUME Sound(radio), Contains(radio.selectors, "HT") PROVE
      /\ IsInjective(radio.mcs)
      /\ {m.mcs : m \in {m \in ToSet(radio.mcs) : m.class = "HT"}} = 0..8 * radio.streams - 1
      /\ \A selector \in ToSet(radio.selectors) :
           \A mcs \in GetMembershipSelectorModes(selector) :
             mcs.class # "VHT" \/ Contains(radio.selectors, "VHT") => IsMcsSupported(radio, mcs)
  BY DEF HtModes
<1>1. /\ radio.streams \in 1..4 /\ radio.mcs \in Seq(Mode) /\ radio.selectors \in Seq(Selector)
  BY DEF Sound, Radio, Mode
<1>2. PICK L : L = Range(radio.selectors)
  OBVIOUS
<1>3. \A x : Contains(radio.selectors, x) <=> x \in L
  BY <1>1, <1>2 DEF Contains, Range
<1>4. \A m : IsMcsSupported(radio, m) <=> m \in Range(radio.mcs)
  BY <1>1 DEF IsMcsSupported, Contains, Range
<1>5. ToSet(radio.mcs) = Range(radio.mcs) /\ ToSet(radio.selectors) = L
  BY <1>2 DEF ToSet, Range
<1>6. IsInjective(radio.mcs) /\ Range(radio.mcs) = HtModesOf(radio.streams) \cup Others(L)
  BY <1>2, <1>3 DEF Sound, ModesIn
<1>7. {m.mcs : m \in {m \in ToSet(radio.mcs) : m.class = "HT"}} = 0..8 * radio.streams - 1
  <2>1. {m \in Range(radio.mcs) : m.class = "HT"} = HtModesOf(radio.streams)
    <3>1. /\ \A m \in HtModesOf(radio.streams) : m.class = "HT"
          /\ \A m \in Others(L) : m.class # "HT"
      BY <1>1, Classes DEF Others
    <3> QED
      BY <1>6, <3>1
  <2>2. PICK n : n = 8 * radio.streams
    OBVIOUS
  <2>3. HtModesOf(radio.streams) = {[class |-> "HT", mcs |-> i] : i \in 0..n - 1}
    BY <1>1, <2>2, Blocks
  <2>4. PICK M : M = {[class |-> "HT", mcs |-> i] : i \in 0..n - 1}
    OBVIOUS
  <2>5. ASSUME NEW m \in M PROVE m.mcs \in 0..n - 1
    BY <2>4
  <2>6. ASSUME NEW i \in 0..n - 1 PROVE \E m \in M : m.mcs = i
    <3>1. [class |-> "HT", mcs |-> i] \in M /\ [class |-> "HT", mcs |-> i].mcs = i
      BY <2>4
    <3> QED
      BY <3>1
  <2>7. {m.mcs : m \in M} = 0..n - 1
    BY <2>5, <2>6
  <2> QED
    BY <1>5, <2>1, <2>2, <2>3, <2>4, <2>7
<1>8. ASSUME NEW selector \in L, NEW mcs \in GetMembershipSelectorModes(selector),
             mcs.class # "VHT" \/ "VHT" \in L
      PROVE  mcs \in Range(radio.mcs)
  <2>1. CASE mcs \in {HtMcs[i] : i \in 0..7}
    <3>1. 0..7 \subseteq 0..8 * radio.streams - 1
      BY <1>1
    <3> QED
      BY <1>6, <2>1, <3>1 DEF HtModesOf
  <2>2. CASE selector \in {"VHT", "HE"} /\ mcs \in {VhtMcs[i] : i \in 0..9}
    <3>1. mcs \in VhtModes /\ mcs.class = "VHT"
      BY <1>1, <2>2, Classes DEF VhtModes
    <3>2. "VHT" \in L
      BY <1>8, <3>1
    <3> QED
      BY <1>6, <3>1, <3>2 DEF Others
  <2>3. CASE selector = "HE" /\ mcs \in {HeMcs[i] : i \in 0..11}
    BY <1>6, <1>8, <2>3 DEF Others, HeModes
  <2> QED
    BY <1>8, <2>1, <2>2, <2>3 DEF GetMembershipSelectorModes
<1> QED
  BY <1>3, <1>4, <1>5, <1>6, <1>7, <1>8

\* With 802.11n or later the radio has the HT modes of its streams once each, no
\* other mode twice, and every mode that one of its membership selectors stands for,
\* in whatever order the streams were set and the standard configured.
THEOREM HtModesCorrect == Spec => []HtModes
<1>1. Sound(radio) => HtModes
  BY SoundModes
<1> QED
  BY <1>1, SoundCorrect, PTL

-----------------------------------------------------------------------------
(* How long frames last.                                                   *)

\* A quotient that is rounded up covers what is divided.
LEMMA CeilCovers ==
  ASSUME NEW n \in Nat \ {0}, NEW m \in Nat \ {0}
  PROVE  Ceil(n, m) \in Nat \ {0} /\ n <= m * Ceil(n, m)
<1> DEFINE c == (n + m - 1) \div m
           r == (n + m - 1) % m
<1>1. n + m - 1 \in Nat
  OBVIOUS
<1>2. c \in Nat /\ r \in 0 .. m - 1 /\ n + m - 1 = m * c + r
  BY <1>1, Quotient
<1> HIDE DEF c, r
<1>3. n <= m * c
  BY <1>2
<1>4. c # 0
  <2>1. m * 0 = 0
    OBVIOUS
  <2> QED BY <1>3, <2>1
<1> QED BY <1>2, <1>3, <1>4 DEF Ceil, c

LEMMA Doubled ==
  ASSUME NEW x \in Nat \ {0}, NEW y \in Nat \ {0}
  PROVE  x * y \in Nat \ {0} /\ x <= x * y
  OBVIOUS

-----------------------------------------------------------------------------
DsssMode == {DsssRates[i] : i \in 1 .. 4}
OfdmMode == UNION {{f[i] : i \in 1 .. 8} :
                     f \in {ErpOfdmRates, OfdmRates, OfdmRatesBW10MHz, OfdmRatesBW5MHz}}

LEMMA DsssModes ==
  ASSUME NEW m \in DsssMode
  PROVE  /\ m.class \in {"DSSS", "HR_DSSS"} /\ m.kbps \in {1000, 2000, 5500, 11000}
         /\ m.kbps = 1000 <=> m = DsssRates[1]
         /\ DsssRates[1].kbps = 1000 /\ DsssRates[2].kbps = 2000
  BY DEF DsssMode, DsssRates

LEMMA OfdmRow ==
  ASSUME NEW class, NEW width, NEW kbps, NEW i \in 1 .. 8
  PROVE  LET m == Ofdm(class, width, kbps)[i]
         IN  /\ m.class = class /\ m.kbps = kbps[i]
             /\ m.constellation \in {2, 4, 16, 64}
             /\ m.code \in {<<1, 2>>, <<3, 4>>, <<2, 3>>}
  BY DEF Ofdm

LEMMA OfdmModes ==
  ASSUME NEW m \in OfdmMode
  PROVE  /\ m.class \in {"OFDM", "ERP_OFDM"} /\ m.constellation \in {2, 4, 16, 64}
         /\ m.code \in {<<1, 2>>, <<3, 4>>, <<2, 3>>}
<1>1. PICK f \in {ErpOfdmRates, OfdmRates, OfdmRatesBW10MHz, OfdmRatesBW5MHz}, i \in 1 .. 8 :
        m = f[i]
  BY DEF OfdmMode
<1>2. \E class \in {"OFDM", "ERP_OFDM"} : \E width, kbps : f = Ofdm(class, width, kbps)
  BY DEF OfdmRates, OfdmRatesBW10MHz, OfdmRatesBW5MHz, ErpOfdmRates
<1> QED BY <1>1, <1>2, OfdmRow

\* The rates that headers are sent with.
LEMMA HeaderRates ==
  /\ OfdmRates[1].kbps = 6000 /\ ErpOfdmRates[1].kbps = 6000
  /\ OfdmRatesBW10MHz[1].kbps = 3000 /\ OfdmRatesBW5MHz[1].kbps = 1500
  BY OfdmRow DEF OfdmRates, OfdmRatesBW10MHz, OfdmRatesBW5MHz, ErpOfdmRates

McsMode(class, count) == {[class |-> class, mcs |-> i] : i \in 0 .. count - 1}

LEMMA ModeKinds ==
  ASSUME NEW m \in Modes
  PROVE  \/ m \in DsssMode \/ m \in OfdmMode
         \/ m \in McsMode("HT", 32) \/ m \in McsMode("VHT", 10) \/ m \in McsMode("HE", 12)
<1>1. /\ DOMAIN DsssRates = 1 .. 4
      /\ \A f \in {ErpOfdmRates, OfdmRates, OfdmRatesBW10MHz, OfdmRatesBW5MHz} :
           DOMAIN f = 1 .. 8
  BY DEF DsssRates, ErpOfdmRates, OfdmRates, OfdmRatesBW10MHz, OfdmRatesBW5MHz, Ofdm
<1>2. /\ DOMAIN HtMcs = 0 .. 31 /\ \A i \in 0 .. 31 : HtMcs[i] = [class |-> "HT", mcs |-> i]
      /\ DOMAIN VhtMcs = 0 .. 9 /\ \A i \in 0 .. 9 : VhtMcs[i] = [class |-> "VHT", mcs |-> i]
      /\ DOMAIN HeMcs = 0 .. 11 /\ \A i \in 0 .. 11 : HeMcs[i] = [class |-> "HE", mcs |-> i]
  BY DEF HtMcs, HtMcsLow, HtMcsHigh, VhtMcs, HeMcs, Mcs
<1>3. PICK f : /\ f \in {DsssRates, ErpOfdmRates, OfdmRates, OfdmRatesBW10MHz, OfdmRatesBW5MHz,
                         HtMcs, VhtMcs, HeMcs}
               /\ \E i \in DOMAIN f : m = f[i]
  BY DEF Modes
<1>4. CASE f \in {HtMcs, VhtMcs, HeMcs}
  <2>1. CASE f = HtMcs
    BY <1>2, <1>3, <2>1 DEF McsMode
  <2>2. CASE f = VhtMcs
    BY <1>2, <1>3, <2>2 DEF McsMode
  <2>3. CASE f = HeMcs
    BY <1>2, <1>3, <2>3 DEF McsMode
  <2> QED BY <1>4, <2>1, <2>2, <2>3
<1>5. CASE f \in {ErpOfdmRates, OfdmRates, OfdmRatesBW10MHz, OfdmRatesBW5MHz}
  BY <1>1, <1>3, <1>5 DEF OfdmMode
<1>6. CASE f = DsssRates
  BY <1>1, <1>3, <1>6 DEF DsssMode
<1> QED BY <1>3, <1>4, <1>5, <1>6

LEMMA OfdmBitsType == ASSUME NEW m \in OfdmMode PROVE OfdmBits(m) \in Nat \ {0}
<1>1. /\ m.constellation \in {2, 4, 16, 64}
      /\ m.code \in {<<1, 2>>, <<3, 4>>, <<2, 3>>}
  BY OfdmModes
<1>2. BitsPerPoint(m.constellation) \in 1 .. 8
  <2>1. \E b \in 1 .. 8 : m.constellation = <<2, 4, 8, 16, 32, 64, 128, 256>>[b]
    BY <1>1
  <2> QED BY <2>1 DEF BitsPerPoint
<1>3. ASSUME NEW b \in 1 .. 8, NEW c \in {<<1, 2>>, <<3, 4>>, <<2, 3>>}
      PROVE  (48 * b * c[1]) \div c[2] \in Nat \ {0}
  OBVIOUS
<1> QED BY <1>1, <1>2, <1>3 DEF OfdmBits

LEMMA McsRows ==
  ASSUME NEW i \in 1 .. 12
  PROVE  /\ McsBitsAndCode[i][1] \in 1 .. 10 /\ McsBitsAndCode[i][2] \in 1 .. 5
         /\ McsBitsAndCode[i][3] \in 1 .. 6
  BY DEF McsBitsAndCode

LEMMA QuotientPositive ==
  ASSUME NEW z \in Nat, NEW c \in Nat \ {0}, c <= z
  PROVE  z \div c \in Nat \ {0}
<1>1. PICK q, r : q = z \div c /\ r = z % c
  OBVIOUS
<1>2. q \in Nat /\ r \in 0 .. c - 1 /\ z = c * q + r
  BY <1>1, Quotient
<1>3. c * 0 = 0
  OBVIOUS
<1>4. q # 0
  BY <1>2, <1>3
<1> QED BY <1>1, <1>2, <1>4

LEMMA McsProduct ==
  ASSUME NEW s \in Nat \ {0}, s >= 6, NEW a \in Nat \ {0}, NEW k \in Nat \ {0},
         NEW b \in Nat \ {0}, NEW c \in 1 .. 6
  PROVE  (s * a * k * b) \div c \in Nat \ {0}
<1>1. PICK x : x = s * a /\ x \in Nat \ {0} /\ s <= x
  BY Doubled
<1>2. PICK y : y = x * k /\ y \in Nat \ {0} /\ x <= y
  BY <1>1, Doubled
<1>3. PICK z : z = y * b /\ z \in Nat \ {0} /\ y <= z
  BY <1>2, Doubled
<1>4. c \in Nat \ {0} /\ c <= z
  BY <1>1, <1>2, <1>3
<1>5. z \div c \in Nat \ {0}
  BY <1>3, <1>4, QuotientPositive
<1> QED BY <1>1, <1>2, <1>3, <1>5

LEMMA McsBitsType ==
  ASSUME NEW m, m \in McsMode("HT", 32) \/ m \in McsMode("VHT", 10) \/ m \in McsMode("HE", 12),
         NEW width \in {20, 40, 80, 160}, NEW streams \in Nat \ {0}
  PROVE  McsBits(m, width, streams) \in Nat \ {0}
<1>1. PICK i \in 1 .. 12 : i = 1 + IF m.class = "HT" THEN m.mcs % 8 ELSE m.mcs
  BY DEF McsMode
<1>2. PICK s \in Nat \ {0} : s = Subcarriers(m.class, width) /\ s >= 6
  BY DEF Subcarriers
<1>3. PICK a \in Nat \ {0}, b \in Nat \ {0}, c \in 1 .. 6 :
        a = McsBitsAndCode[i][1] /\ b = McsBitsAndCode[i][2] /\ c = McsBitsAndCode[i][3]
  BY McsRows
<1>4. McsBits(m, width, streams) = (s * a * streams * b) \div c
  BY <1>1, <1>2, <1>3 DEF McsBits
<1> QED BY <1>2, <1>3, <1>4, McsProduct

-----------------------------------------------------------------------------
OfDsss(v) == v.mode \in DsssMode /\ v.preamble \in {"LONG", "SHORT"}
OfOfdm(v) == v.mode \in OfdmMode /\ v.preamble = "LONG"
OfMcs(v, class, count, preambles) ==
  v.mode \in McsMode(class, count) /\ v.mode.class = class /\ v.preamble \in preambles
  /\ v.width \in {20, 40, 80, 160}

LEMMA VectorKinds ==
  ASSUME NEW v \in Vector
  PROVE  \/ OfDsss(v) \/ OfOfdm(v) \/ OfMcs(v, "HT", 32, {"HT_MF", "HT_GF"})
         \/ OfMcs(v, "VHT", 10, {"VHT"}) \/ OfMcs(v, "HE", 12, {"HE_SU"})
<1>1. /\ v.mode \in Modes /\ v.preamble \in Preambles(v.mode.class)
      /\ v.mode.class \in {"HT", "VHT", "HE"} => v.width \in {20, 40, 80, 160}
  BY VectorAssumption DEF TxVector
<1>2. CASE v.mode \in DsssMode
  BY <1>1, <1>2, DsssModes DEF Preambles, OfDsss
<1>3. CASE v.mode \in OfdmMode
  BY <1>1, <1>3, OfdmModes DEF Preambles, OfOfdm
<1>4. ASSUME NEW class \in {"HT", "VHT", "HE"}, NEW count, v.mode \in McsMode(class, count)
      PROVE  v.mode.class = class /\ v.width \in {20, 40, 80, 160}
  <2>1. v.mode.class = class
    BY <1>4 DEF McsMode
  <2> QED BY <1>1, <2>1
<1>5. CASE v.mode \in McsMode("HT", 32)
  BY <1>1, <1>4, <1>5 DEF Preambles, OfMcs
<1>6. CASE v.mode \in McsMode("VHT", 10)
  BY <1>1, <1>4, <1>6 DEF Preambles, OfMcs
<1>7. CASE v.mode \in McsMode("HE", 12)
  BY <1>1, <1>4, <1>7 DEF Preambles, OfMcs
<1> QED BY <1>1, <1>2, <1>3, <1>5, <1>6, <1>7, ModeKinds

\* A vector with the fields that the formulas of its class use.
LEMMA AggregateKinds ==
  ASSUME NEW v \in Vector
  PROVE  /\ OfDsss(v) => ~Aggregates(v) /\ v.mode.class \in {"DSSS", "HR_DSSS"}
         /\ OfOfdm(v) => ~Aggregates(v) /\ v.mode.class \in {"OFDM", "ERP_OFDM"}
  BY DsssModes, OfdmModes DEF Aggregates, OfDsss, OfOfdm

LEMMA SlowType == ASSUME NEW width PROVE Slow(width) \in {1, 2, 4}
  BY DEF Slow

LEMMA SymbolTypes ==
  ASSUME NEW v \in Vector, ~OfDsss(v)
  PROVE  SymbolDuration(v) \in Nat \ {0} /\ NumDataBitsPerSymbol(v) \in Nat \ {0}
<1>0. v.gi \in Nat /\ v.streams \in Nat \ {0}
  BY VectorAssumption DEF TxVector
<1>1. /\ (3200 + v.gi) \div 200 \in Nat \ {0}
      /\ (12800 + v.gi) \div 200 \in Nat \ {0}
  BY <1>0, QuotientPositive
<1>2. CASE OfOfdm(v)
  <2>1. v.mode.class \in {"OFDM", "ERP_OFDM"}
    BY <1>2, AggregateKinds
  <2>2. SymbolDuration(v) = 5 * (4 * Slow(v.width))
    BY <2>1 DEF SymbolDuration, Micro
  <2>3. NumDataBitsPerSymbol(v) = OfdmBits(v.mode)
    BY <2>1 DEF NumDataBitsPerSymbol
  <2> QED BY <1>2, <2>2, <2>3, SlowType, OfdmBitsType DEF OfOfdm
<1>3. CASE ~OfOfdm(v)
  <2>1. /\ \/ v.mode \in McsMode("HT", 32) \/ v.mode \in McsMode("VHT", 10)
           \/ v.mode \in McsMode("HE", 12)
        /\ v.mode.class \in {"HT", "VHT", "HE"} /\ v.width \in {20, 40, 80, 160}
    BY <1>3, VectorKinds DEF OfMcs
  <2>2. SymbolDuration(v) \in Nat \ {0}
    <3>1. CASE v.mode.class \in {"HT", "VHT"}
      BY <1>1, <3>1 DEF SymbolDuration
    <3>2. CASE v.mode.class = "HE"
      BY <1>1, <3>2 DEF SymbolDuration
    <3> QED BY <2>1, <3>1, <3>2
  <2>3. McsBits(v.mode, v.width, v.streams) \in Nat \ {0}
    BY <1>0, <2>1, McsBitsType
  <2>4. NumDataBitsPerSymbol(v) = McsBits(v.mode, v.width, v.streams)
    BY <2>1 DEF NumDataBitsPerSymbol
  <2> QED BY <2>2, <2>3, <2>4
<1> QED BY <1>2, <1>3

LEMMA NesType == ASSUME NEW v \in Vector PROVE Nes(v) \in Nat
<1>1. ASSUME NEW i \in 1 .. 10 PROVE NesOfMcs(v.width, v.streams)[i] \in Nat
  BY DEF NesOfMcs
<1>2. CASE v.mode.class = "VHT"
  <2>1. OfMcs(v, "VHT", 10, {"VHT"})
    BY <1>2, VectorKinds, AggregateKinds DEF OfMcs
  <2>2. 1 + v.mode.mcs \in 1 .. 10
    BY <2>1 DEF OfMcs, McsMode
  <2>3. Nes(v) = NesOfMcs(v.width, v.streams)[1 + v.mode.mcs]
    BY <1>2 DEF Nes
  <2> QED BY <1>1, <2>2, <2>3
<1>3. CASE v.mode.class # "VHT"
  BY <1>3 DEF Nes
<1> QED BY <1>2, <1>3

LEMMA StbcType == ASSUME NEW v PROVE Stbc(v) \in {1, 2}
  BY DEF Stbc

LEMMA TrainingType ==
  ASSUME NEW v \in Vector PROVE GetPlcpTrainingSymbolDuration(v) \in Nat
<1>1. v.streams \in Nat /\ v.ness \in Nat
  BY VectorAssumption DEF TxVector
<1>2. PICK ndltf \in Nat :
        ndltf = CASE v.streams < 3 -> v.streams [] v.streams \in 3..4 -> 4
                  [] v.streams \in 5..6 -> 6 [] OTHER -> 8
  BY <1>1
<1>3. PICK neltf \in Nat : neltf = IF v.ness < 3 THEN v.ness ELSE 4
  BY <1>1
<1>4. GetPlcpTrainingSymbolDuration(v) =
        CASE v.preamble = "HT_MF" -> 4 + 4 * ndltf + 4 * neltf
          [] v.preamble = "HT_GF" -> 4 * ndltf + 4 * neltf
          [] v.preamble = "VHT" -> 4 + 4 * ndltf
          [] v.preamble = "HE_SU" -> 4 + 8 * ndltf
          [] OTHER -> 0
  BY <1>2, <1>3 DEF GetPlcpTrainingSymbolDuration
<1> QED BY <1>4

\* A header lasts as long as its bits take in the mode of the header.
LEMMA HeaderLasts ==
  ASSUME NEW v \in Vector
  PROVE  /\ GetPlcpHeaderDuration(v) \in Nat /\ GetPlcpPreambleDuration(v) \in Nat
         /\ GetPlcpHeaderDuration(v) * GetPlcpHeaderMode(v).kbps = 1000 * HeaderBits(v)
<1>1. CASE OfDsss(v)
  <2>1. v.preamble \in {"LONG", "SHORT"} /\ v.mode.class \in {"DSSS", "HR_DSSS"}
    BY <1>1, AggregateKinds DEF OfDsss
  <2>2. /\ v.mode.kbps \in {1000, 2000, 5500, 11000}
        /\ v.mode.kbps = 1000 <=> v.mode = DsssRates[1]
        /\ DsssRates[1].kbps = 1000 /\ DsssRates[2].kbps = 2000
    BY <1>1, DsssModes DEF OfDsss
  <2>3. HeaderBits(v) = 48
    BY <2>1 DEF HeaderBits
  <2>4. /\ GetPlcpHeaderDuration(v) = IF ShortDsss(v) THEN 24 ELSE 48
        /\ GetPlcpPreambleDuration(v) \in Nat
    BY <2>1 DEF GetPlcpHeaderDuration, GetPlcpPreambleDuration
  <2>5. GetPlcpHeaderMode(v) =
          IF v.preamble = "LONG" \/ v.mode = DsssRates[1] THEN DsssRates[1] ELSE DsssRates[2]
    BY <2>1 DEF GetPlcpHeaderMode
  <2> QED BY <2>1, <2>2, <2>3, <2>4, <2>5 DEF ShortDsss
<1>2. CASE OfOfdm(v)
  <2>1. v.preamble = "LONG" /\ v.mode.class \in {"OFDM", "ERP_OFDM"}
    BY <1>2, AggregateKinds DEF OfOfdm
  <2>2. HeaderBits(v) = 24
    BY <2>1 DEF HeaderBits
  <2>3. CASE v.mode.class = "OFDM"
    <3>1. /\ GetPlcpHeaderDuration(v) = 4 * Slow(v.width)
          /\ GetPlcpPreambleDuration(v) = 16 * Slow(v.width)
      BY <2>1, <2>3 DEF GetPlcpHeaderDuration, GetPlcpPreambleDuration
    <3>2. \/ GetPlcpHeaderMode(v).kbps = 6000 /\ Slow(v.width) = 1
          \/ GetPlcpHeaderMode(v).kbps = 3000 /\ Slow(v.width) = 2
          \/ GetPlcpHeaderMode(v).kbps = 1500 /\ Slow(v.width) = 4
      BY <2>3, HeaderRates DEF GetPlcpHeaderMode, Slow
    <3> QED BY <2>2, <3>1, <3>2
  <2>4. CASE v.mode.class = "ERP_OFDM"
    BY <2>1, <2>2, <2>4, HeaderRates
       DEF GetPlcpHeaderDuration, GetPlcpPreambleDuration, GetPlcpHeaderMode
  <2> QED BY <2>1, <2>3, <2>4
<1>3. ASSUME v.width \in {20, 40, 80, 160}, v.mode.class \in {"HT", "VHT", "HE"}
      PROVE  GetPlcpHeaderMode(v).kbps = 6000
  BY <1>3, HeaderRates DEF GetPlcpHeaderMode
<1>4. CASE OfMcs(v, "HT", 32, {"HT_MF", "HT_GF"})
  BY <1>3, <1>4 DEF OfMcs, GetPlcpHeaderDuration, GetPlcpPreambleDuration, HeaderBits
<1>5. CASE OfMcs(v, "VHT", 10, {"VHT"})
  BY <1>3, <1>5 DEF OfMcs, GetPlcpHeaderDuration, GetPlcpPreambleDuration, HeaderBits
<1>6. CASE OfMcs(v, "HE", 12, {"HE_SU"})
  BY <1>3, <1>6 DEF OfMcs, GetPlcpHeaderDuration, GetPlcpPreambleDuration, HeaderBits
<1> QED BY <1>1, <1>2, <1>4, <1>5, <1>6, VectorKinds

LEMMA PreambleTime ==
  ASSUME NEW v \in Vector
  PROVE  /\ CalculatePlcpPreambleAndHeaderDuration(v) \in Nat
         /\ \A type \in {"NEXT", "LAST"} :
              CalculatePlcpPreambleAndHeaderDuration(Sent(v, type)) = 0
<1>1. /\ GetPlcpHtSigHeaderDuration(v.preamble) \in Nat
      /\ GetPlcpSigADuration(v.preamble) \in Nat /\ GetPlcpSigBDuration(v.preamble) \in Nat
  BY DEF GetPlcpHtSigHeaderDuration, GetPlcpSigADuration, GetPlcpSigBDuration
<1>2. CalculatePlcpPreambleAndHeaderDuration(v) \in Nat
  BY <1>1, HeaderLasts, TrainingType DEF CalculatePlcpPreambleAndHeaderDuration
<1>3. ASSUME NEW type \in {"NEXT", "LAST"}
      PROVE  CalculatePlcpPreambleAndHeaderDuration(Sent(v, type)) = 0
  <2>1. PICK u : u = Sent(v, type)
    OBVIOUS
  <2>2. u.preamble = "NONE"
    BY <2>1, VectorAssumption DEF Sent, TxVector
  <2>3. /\ GetPlcpHtSigHeaderDuration(u.preamble) = 0 /\ GetPlcpSigADuration(u.preamble) = 0
        /\ GetPlcpSigBDuration(u.preamble) = 0
    BY <2>2 DEF GetPlcpHtSigHeaderDuration, GetPlcpSigADuration, GetPlcpSigBDuration
  <2>4. GetPlcpHeaderDuration(u) = 0 /\ GetPlcpPreambleDuration(u) = 0
    BY <2>2 DEF GetPlcpHeaderDuration, GetPlcpPreambleDuration
  <2>5. GetPlcpTrainingSymbolDuration(u) = 0
    BY <2>2 DEF GetPlcpTrainingSymbolDuration
  <2>6. CalculatePlcpPreambleAndHeaderDuration(u) = 0
    BY <2>3, <2>4, <2>5 DEF CalculatePlcpPreambleAndHeaderDuration
  <2> QED BY <2>1, <2>6
<1> QED BY <1>2, <1>3

-----------------------------------------------------------------------------
\* The bits of a PSDU of size bytes with its service field and tail.
PsduBits(v, size) == 16 + 8 * size + 6 * Nes(v)

\* Preamble and header, in units and in steps of the clock.
HeadUnits(v) == Micro(CalculatePlcpPreambleAndHeaderDuration(v))
HeadTime(v) == Resolution * HeadUnits(v)

LEMMA Products ==
  ASSUME NEW a \in Int, NEW b \in Int, NEW c \in Int
  PROVE  /\ a * b \in Int /\ a * (b + c) = a * b + a * c /\ a * (b - c) = a * b - a * c
         /\ a * b = b * a /\ (a * b) * c = a * (b * c)
  OBVIOUS

LEMMA Ordered ==
  ASSUME NEW d \in Nat \ {0}, NEW x \in Int, NEW y \in Int
  PROVE  (x <= y => d * x <= d * y) /\ (d * x <= d * y => x <= y) /\ (d * x < d * y => x < y)
<1>1. ASSUME NEW a \in Int, NEW b \in Int, a <= b PROVE d * a <= d * b
  <2>1. PICK k \in Nat : k = b - a
    BY <1>1
  <2>2. d * k \in Nat
    OBVIOUS
  <2>3. b = a + k /\ d * (a + k) = d * a + d * k
    BY <2>1, Products
  <2> QED BY <2>2, <2>3, Products
<1>2. ASSUME NEW a \in Int, NEW b \in Int, b < a PROVE d * b < d * a
  <2>1. d * (b + 1) <= d * a
    BY <1>2, <1>1
  <2>2. d * (b + 1) = d * b + d
    OBVIOUS
  <2> QED BY <2>1, <2>2, Products
<1>3. d * x \in Int /\ d * y \in Int
  BY Products
<1> QED BY <1>1, <1>2, <1>3

\* A rounded quotient is less than one away.
LEMMA RoundedNear ==
  ASSUME NEW n \in Nat, NEW m \in Nat \ {0}, NEW q \in Rounded(n, m)
  PROVE  q \in Nat /\ m * q \in Nat /\ n - m < m * q /\ m * q < n + m
<1>1. CASE q = n \div m
  <2>1. PICK x, r : x = n \div m /\ r = n % m
    OBVIOUS
  <2>2. x \in Nat /\ r \in 0 .. m - 1 /\ n = m * x + r
    BY <2>1, Quotient
  <2> QED BY <1>1, <2>1, <2>2
<1>2. CASE q = Ceil(n, m)
  <2>0. PICK k \in Nat : k = n + m - 1
    OBVIOUS
  <2>1. PICK x, r : x = k \div m /\ r = k % m
    OBVIOUS
  <2>2. x \in Nat /\ r \in 0 .. m - 1 /\ k = m * x + r
    BY <2>1, Quotient
  <2> QED BY <1>2, <2>0, <2>1, <2>2 DEF Ceil
<1> QED BY <1>1, <1>2 DEF Rounded

LEMMA RoundedWhole ==
  ASSUME NEW k \in Nat, NEW m \in Nat \ {0}, NEW q \in Rounded(m * k, m)
  PROVE  q = k
<1>1. m * k \in Nat
  OBVIOUS
<1>2. q \in Nat /\ m * k - m < m * q /\ m * q < m * k + m
  BY <1>1, RoundedNear
<1>3. m * (k - 1) = m * k - m /\ m * (k + 1) = m * k + m
  OBVIOUS
<1>4. k - 1 < q /\ q < k + 1
  BY <1>2, <1>3, Ordered
<1> QED BY <1>2, <1>4

LEMMA Parameters == Grain \in Nat \ {0} /\ Resolution \in Nat \ {0} /\ MaxFrames \in Nat \ {0}
  BY SizeAssumption

LEMMA DsssIs == ASSUME NEW v \in Vector PROVE Dsss(v) <=> OfDsss(v)
<1>1. OfDsss(v) => Dsss(v)
  BY AggregateKinds DEF Dsss
<1>2. ~OfDsss(v) => v.mode.class \in {"OFDM", "ERP_OFDM", "HT", "VHT", "HE"}
  BY VectorKinds, AggregateKinds DEF OfMcs
<1> QED BY <1>1, <1>2 DEF Dsss

\* Whole symbols hold the bits.
LEMMA SymbolsHold ==
  ASSUME NEW v \in Vector, ~Dsss(v), NEW size \in Nat
  PROVE  /\ WholeSymbols(v, size) \in Nat \ {0}
         /\ PsduBits(v, size) <= NumDataBitsPerSymbol(v) * WholeSymbols(v, size)
<1>1. PICK d \in Nat \ {0} : d = NumDataBitsPerSymbol(v)
  BY SymbolTypes, DsssIs
<1>2. PICK n \in Nat \ {0} : n = PsduBits(v, size)
  BY NesType DEF PsduBits
<1>3. PICK s \in {1, 2} : s = Stbc(v)
  BY StbcType
<1>4. PICK m \in Nat \ {0} : m = s * d
  BY <1>1, <1>3
<1>5. PICK c \in Nat \ {0} : c = Ceil(n, m) /\ n <= m * c
  BY CeilCovers
<1>6. WholeSymbols(v, size) = s * c
  BY <1>1, <1>2, <1>3, <1>4, <1>5 DEF WholeSymbols, PsduBits
<1>7. s * c \in Nat \ {0} /\ m * c = d * (s * c)
  BY <1>3, <1>4
<1> QED BY <1>1, <1>2, <1>5, <1>6, <1>7

LEMMA ExtensionType ==
  ASSUME NEW v
  PROVE  /\ Extension(v, "NORMAL") \in Nat /\ Extension(v, "LAST") = Extension(v, "NORMAL")
         /\ Aggregates(v) => Extension(v, "FIRST") = 0 /\ Extension(v, "NEXT") = 0
  BY DEF Extension, Micro, Aggregates

LEMMA Times ==
  ASSUME NEW v \in Vector
  PROVE  /\ HeadUnits(v) \in Nat /\ HeadTime(v) \in Nat
         /\ Resolution * Extension(v, "NORMAL") \in Nat
         /\ ~Dsss(v) => SymbolTime(v) \in Nat \ {0}
         /\ Dsss(v) => SymbolTime(v) = 0
<1>1. HeadUnits(v) \in Nat
  BY PreambleTime DEF HeadUnits, Micro
<1>2. HeadTime(v) \in Nat
  BY <1>1, Parameters DEF HeadTime
<1>3. Resolution * Extension(v, "NORMAL") \in Nat
  <2>1. PICK e \in Nat : e = Extension(v, "NORMAL")
    BY ExtensionType
  <2> QED BY <2>1, Parameters
<1>4. ASSUME ~Dsss(v) PROVE SymbolTime(v) \in Nat \ {0}
  <2>1. PICK s \in Nat \ {0} : s = SymbolDuration(v)
    BY <1>4, SymbolTypes, DsssIs
  <2> QED BY <2>1, Parameters, Doubled DEF SymbolTime
<1>5. ASSUME Dsss(v) PROVE SymbolTime(v) = 0
  <2>1. SymbolDuration(v) = 0
    BY <1>5 DEF Dsss, SymbolDuration
  <2> QED BY <2>1, Parameters DEF SymbolTime
<1> QED BY <1>1, <1>2, <1>3, <1>4, <1>5

\* How long a frame of its own lasts.
NormalTime(v, size) ==
  HeadTime(v) + (IF Dsss(v) THEN Resolution * Micro(Ceil(8000 * size, v.mode.kbps))
                 ELSE WholeSymbols(v, size) * SymbolTime(v) + Resolution * Extension(v, "NORMAL"))

LEMMA NormalIs ==
  ASSUME NEW v \in Vector, NEW size \in Nat \ {0}, NEW n \in NumSymbols(v, size, "NORMAL"),
         NEW time \in CalculateTxDuration(v, size, "NORMAL", n)
  PROVE  time = NormalTime(v, size)
<1>1. Sent(v, "NORMAL") = v
  BY DEF Sent
<1>2. PICK t \in GetPayloadDuration(v, size, "NORMAL", n) : time = HeadTime(v) + t
  BY <1>1 DEF CalculateTxDuration, HeadTime, HeadUnits
<1>3. CASE Dsss(v)
  BY <1>2, <1>3 DEF GetPayloadDuration, NormalTime
<1>4. CASE ~Dsss(v)
  <2>1. PICK w \in Nat : w = WholeSymbols(v, size)
    BY <1>4, SymbolsHold
  <2>2. n = Grain * w
    BY <1>4, <2>1 DEF NumSymbols
  <2>3. PICK s \in Nat : s = SymbolTime(v)
    BY <1>4, Times
  <2>4. PICK x \in Rounded(n * s, Grain) : t = x + Resolution * Extension(v, "NORMAL")
    BY <1>2, <1>4, <2>3 DEF GetPayloadDuration
  <2>5. PICK k \in Nat : k = w * s
    OBVIOUS
  <2>6. n * s = Grain * k
    BY <2>2, <2>5, Parameters, Products
  <2>7. x = k
    BY <2>4, <2>6, Parameters, RoundedWhole
  <2> QED BY <1>2, <1>4, <2>1, <2>3, <2>4, <2>5, <2>7 DEF NormalTime
<1> QED BY <1>3, <1>4

LEMMA NormalLonger ==
  ASSUME NEW v \in Vector, NEW size \in Nat \ {0}
  PROVE  NormalTime(v, size) \in Nat /\ NormalTime(v, size) > HeadTime(v)
<1>1. PICK h \in Nat : h = HeadTime(v)
  BY Times
<1>2. CASE Dsss(v)
  <2>1. v.mode.kbps \in Nat \ {0}
    BY <1>2, DsssIs, DsssModes DEF OfDsss
  <2>2. PICK c \in Nat \ {0} : c = Ceil(8000 * size, v.mode.kbps)
    BY <2>1, CeilCovers
  <2>3. PICK m \in Nat \ {0} : m = Micro(c)
    BY DEF Micro
  <2>4. Resolution * m \in Nat \ {0}
    BY Parameters, Doubled
  <2> QED BY <1>1, <1>2, <2>2, <2>3, <2>4 DEF NormalTime
<1>3. CASE ~Dsss(v)
  <2>1. PICK w \in Nat \ {0} : w = WholeSymbols(v, size)
    BY <1>3, SymbolsHold
  <2>2. PICK s \in Nat \ {0} : s = SymbolTime(v)
    BY <1>3, Times
  <2>3. PICK e \in Nat : e = Resolution * Extension(v, "NORMAL")
    BY Times
  <2>4. w * s \in Nat \ {0}
    BY Doubled
  <2> QED BY <1>1, <1>3, <2>1, <2>2, <2>3, <2>4 DEF NormalTime
<1> QED BY <1>2, <1>3

-----------------------------------------------------------------------------
\* The units of an aggregate: bits of a symbol, time of a symbol, extension, header.
Units(v, d, s, e, h) ==
  /\ d \in Nat \ {0} /\ d = NumDataBitsPerSymbol(v)
  /\ s \in Nat \ {0} /\ s = SymbolTime(v)
  /\ e \in Nat /\ e = Resolution * Extension(v, "NORMAL")
  /\ h \in Nat /\ h = HeadTime(v)

LEMMA UnitsExist ==
  ASSUME NEW v \in Vector, Aggregates(v)
  PROVE  ~Dsss(v) /\ \E d, s, e, h : Units(v, d, s, e, h)
<1>1. ~Dsss(v)
  BY DEF Aggregates, Dsss
<1> QED BY <1>1, Times, SymbolTypes, DsssIs DEF Units

\* A frame of an aggregate takes the time of its grains, but for a step; the first
\* begins with the header, the last has the extension.
LEMMA FrameTime ==
  ASSUME NEW v \in Vector, Aggregates(v), NEW d, NEW s, NEW e, NEW h, Units(v, d, s, e, h),
         NEW size, NEW type \in {"FIRST", "NEXT", "LAST"}, NEW n \in Nat,
         NEW time \in CalculateTxDuration(v, size, type, n)
  PROVE  \E t \in Nat :
           /\ type = "FIRST" => time = h + t
           /\ type = "NEXT" => time = t
           /\ type = "LAST" => time = t + e
           /\ s * n - Grain < Grain * t /\ Grain * t < s * n + Grain
<1>1. ~Dsss(v)
  BY UnitsExist
<1>2. s \in Nat /\ s = SymbolTime(v) /\ n * s \in Nat /\ n * s = s * n
  BY DEF Units
<1>3. PICK p \in GetPayloadDuration(v, size, type, n) :
        time = Resolution * Micro(CalculatePlcpPreambleAndHeaderDuration(Sent(v, type))) + p
  BY DEF CalculateTxDuration
<1>4. PICK t \in Rounded(n * s, Grain) : p = t + Resolution * Extension(v, type)
  BY <1>1, <1>2, <1>3 DEF GetPayloadDuration
<1>5. t \in Nat /\ s * n - Grain < Grain * t /\ Grain * t < s * n + Grain
  BY <1>2, <1>4, Parameters, RoundedNear
<1>6. Resolution * Extension(v, type) = IF type = "LAST" THEN e ELSE 0
  <2>1. Resolution * 0 = 0
    BY Parameters
  <2> QED BY <2>1, ExtensionType DEF Units
<1>7. Resolution * Micro(CalculatePlcpPreambleAndHeaderDuration(Sent(v, type)))
        = IF type = "FIRST" THEN h ELSE 0
  <2>1. CASE type = "FIRST"
    BY <2>1 DEF Sent, Units, HeadTime, HeadUnits
  <2>2. CASE type # "FIRST"
    <3>1. CalculatePlcpPreambleAndHeaderDuration(Sent(v, type)) = 0
      BY <2>2, PreambleTime
    <3>2. Micro(0) = 0 /\ Resolution * 0 = 0
      BY Parameters DEF Micro
    <3> QED BY <2>2, <3>1, <3>2
  <2> QED BY <2>1, <2>2
<1>8. /\ type = "FIRST" => time = h + t
      /\ type = "NEXT" => time = t
      /\ type = "LAST" => time = t + e
  BY <1>3, <1>4, <1>5, <1>6, <1>7 DEF Units
<1> QED BY <1>5, <1>8

LEMMA NextTime ==
  ASSUME NEW v \in Vector, Aggregates(v), NEW d, NEW s, NEW e, NEW h, Units(v, d, s, e, h),
         NEW size, NEW n, n \in Nat, NEW time, time \in CalculateTxDuration(v, size, "NEXT", n)
  PROVE  \E t \in Nat : /\ time = t
                       /\ s * n - Grain < Grain * t /\ Grain * t < s * n + Grain
  BY FrameTime

LEMMA LastTime ==
  ASSUME NEW v \in Vector, Aggregates(v), NEW d, NEW s, NEW e, NEW h, Units(v, d, s, e, h),
         NEW size, NEW n, n \in Nat, NEW time, time \in CalculateTxDuration(v, size, "LAST", n)
  PROVE  \E t \in Nat : /\ time = t + e
                       /\ s * n - Grain < Grain * t /\ Grain * t < s * n + Grain
  BY FrameTime

\* The grains of a frame that is not the last.
LEMMA FrameGrains ==
  ASSUME NEW v \in Vector, Aggregates(v), NEW d, NEW s, NEW e, NEW h, Units(v, d, s, e, h),
         NEW size \in Nat \ {0}, NEW type \in {"FIRST", "NEXT"}, NEW n \in NumSymbols(v, size, type)
  PROVE  /\ n \in Nat
         /\ d * n < Grain * (IF type = "FIRST" THEN PsduBits(v, size) ELSE 8 * size) + d
<1>1. ~Dsss(v) /\ d \in Nat \ {0} /\ d = NumDataBitsPerSymbol(v)
  BY UnitsExist DEF Units
<1>2. PICK b \in Nat : b = IF type = "FIRST" THEN PsduBits(v, size) ELSE 8 * size
  BY NesType DEF PsduBits
<1>3. (Grain * 8) * size = Grain * (8 * size)
  BY Parameters
<1>4. n \in Rounded(Grain * b, d) /\ Grain * b \in Nat
  <2>1. CASE type = "FIRST"
    BY <1>1, <1>2, <2>1, Parameters DEF NumSymbols, PsduBits
  <2>2. CASE type = "NEXT"
    BY <1>1, <1>2, <1>3, <2>2, Parameters DEF NumSymbols
  <2> QED BY <2>1, <2>2
<1> QED BY <1>1, <1>2, <1>4, RoundedNear

-----------------------------------------------------------------------------
Frames == [vector : Vector, size : Nat \ {0}, frames : Nat \ {0}, time : Int]
Left == [size : Nat, symbols : Nat, cuts : Nat]

\* What was sent took as long as one frame of its size and of what was left before,
\* less the symbols that were left.
Ended(a, l) ==
  /\ a \in Frames /\ l \in Left
  /\ Within(Grain * (NormalTime(a.vector, l.size + a.size) - a.time)
              - SymbolTime(a.vector) * l.symbols, a.frames)

\* An A-MPDU a that found l: the size t counts both, the grains c those of l and of
\* the time of a, and as many as its bits fill but for one in each frame.
Sending(a, l, t, c) ==
  /\ a \in Frames /\ Aggregates(a.vector) /\ a.frames <= MaxFrames
  /\ t = l.size + a.size /\ c \in Nat
  /\ Within(Grain * (a.time - HeadTime(a.vector)) - SymbolTime(a.vector) * (c - l.symbols),
            a.frames)
  /\ NumDataBitsPerSymbol(a.vector) * (c - l.symbols)
       <= Grain * PsduBits(a.vector, a.size) + NumDataBitsPerSymbol(a.vector) * a.frames

\* Between two A-MPDUs only what was left is counted.
DurationInv ==
  /\ left \in Left
  /\ ampdu = NoAmpdu => total = left.size /\ symbols = left.symbols
  /\ ampdu # NoAmpdu => Sending(ampdu, left, total, symbols)
  /\ last # NoAmpdu => Ended(last.sent, last.left)

\* The A-MPDU a with one more frame.
Extended(a, v, size, time) ==
  [vector |-> v, size |-> a.size + size, frames |-> a.frames + 1, time |-> a.time + time]

LEMMA First ==
  ASSUME NEW v, NEW size \in Int, NEW time \in Int
  PROVE  Extended(NoAmpdu, v, size, time)
           = [vector |-> v, size |-> size, frames |-> 1, time |-> time]
  BY DEF Extended, NoAmpdu

LEMMA NormalEnds ==
  ASSUME NEW v \in Vector, NEW size \in Nat \ {0}, NEW n \in NumSymbols(v, size, "NORMAL"),
         NEW time \in CalculateTxDuration(v, size, "NORMAL", n)
  PROVE  Ended(Extended(NoAmpdu, v, size, time), NothingLeft)
<1>1. PICK x \in Nat : x = NormalTime(v, size) /\ time = x
  BY NormalIs, NormalLonger
<1>2. PICK s \in Nat : s = SymbolTime(v)
  BY Times
<1>3. 0 + size = size /\ Grain * (x - x) - s * 0 = 0
  BY Parameters
<1>4. Within(0, 1)
  BY Parameters DEF Within
<1>5. Extended(NoAmpdu, v, size, time) = [vector |-> v, size |-> size, frames |-> 1, time |-> time]
  BY <1>1, First
<1> QED BY <1>1, <1>2, <1>3, <1>4, <1>5 DEF Ended, NothingLeft, Frames, Left

LEMMA FirstSent ==
  ASSUME NEW v \in Vector, Aggregates(v), NEW size \in Nat \ {0}, NEW l \in Left,
         NEW n \in NumSymbols(v, size, "FIRST"),
         NEW time \in CalculateTxDuration(v, size, "FIRST", n)
  PROVE  Sending(Extended(NoAmpdu, v, size, time), l, l.size + size, l.symbols + n)
<1>1. PICK d, s, e, h : Units(v, d, s, e, h)
  BY UnitsExist
<1>2. PICK b \in Nat : b = PsduBits(v, size)
  BY NesType DEF PsduBits
<1>3. n \in Nat /\ d * n < Grain * b + d
  BY <1>1, <1>2, FrameGrains
<1>4. PICK t \in Nat : /\ time = h + t
                       /\ s * n - Grain < Grain * t /\ Grain * t < s * n + Grain
  <2>1. \E t \in Nat : /\ time = h + t
                       /\ s * n - Grain < Grain * t /\ Grain * t < s * n + Grain
    BY <1>1, <1>3, FrameTime
  <2> QED BY <1>1, <2>1 DEF Units
<1>5. /\ d \in Nat \ {0} /\ d = NumDataBitsPerSymbol(v) /\ s \in Nat /\ s = SymbolTime(v)
      /\ h \in Nat /\ h = HeadTime(v)
  BY <1>1 DEF Units
<1>6. l.symbols \in Nat /\ (l.symbols + n) - l.symbols = n
  BY <1>3 DEF Left
<1>7. Within(Grain * (time - h) - s * n, 1)
  <2>1. time - h = t /\ Grain * 1 = Grain
    BY <1>4, <1>5, Parameters
  <2>2. PICK x \in Int, y \in Int : x = Grain * t /\ y = s * n
    BY <1>3, <1>5, Parameters
  <2> QED BY <1>4, <2>1, <2>2, Parameters DEF Within
<1>8. d * n <= Grain * b + d * 1
  <2>1. PICK x \in Int, y \in Int : x = Grain * b /\ y = d * n
    BY <1>3, <1>5, Parameters
  <2> QED BY <1>3, <1>5, <2>1
<1>9. time \in Int /\ 1 <= MaxFrames
  BY <1>4, <1>5, Parameters
<1>10. l.symbols + n \in Nat
  BY <1>3, <1>6
<1> DEFINE a == [vector |-> v, size |-> size, frames |-> 1, time |-> time]
<1>11. /\ a \in Frames /\ a.vector = v /\ a.size = size /\ a.frames = 1 /\ a.time = time
  BY <1>9 DEF Frames
<1> HIDE DEF a
<1>12. Sending(a, l, l.size + size, l.symbols + n)
  BY <1>2, <1>5, <1>6, <1>7, <1>8, <1>9, <1>10, <1>11 DEF Sending
<1> QED BY <1>9, <1>12, First DEF a

LEMMA MoreBits ==
  ASSUME NEW v \in Vector, NEW t \in Nat, NEW size \in Nat
  PROVE  PsduBits(v, t + size) = PsduBits(v, t) + 8 * size /\ PsduBits(v, t) \in Nat
  BY NesType DEF PsduBits

LEMMA NextSent ==
  ASSUME NEW a, NEW l \in Left, NEW t, NEW c, Sending(a, l, t, c), a.frames < MaxFrames - 1,
         NEW size \in Nat \ {0}, NEW n \in NumSymbols(a.vector, size, "NEXT"),
         NEW time \in CalculateTxDuration(a.vector, size, "NEXT", n)
  PROVE  Sending(Extended(a, a.vector, size, time), l, t + size, c + n)
<1>1. PICK v \in Vector : v = a.vector /\ Aggregates(v)
  BY DEF Sending, Frames
<1>2. PICK f \in Nat, z \in Nat \ {0}, u \in Int : f = a.frames /\ z = a.size /\ u = a.time
  BY DEF Sending, Frames
<1>3. PICK d, s, e, h : Units(v, d, s, e, h)
  BY <1>1, UnitsExist
<1>4. /\ d \in Nat \ {0} /\ d = NumDataBitsPerSymbol(v) /\ s \in Nat /\ s = SymbolTime(v)
      /\ h \in Nat /\ h = HeadTime(v)
  BY <1>3 DEF Units
<1>5. n \in Nat /\ d * n < Grain * (8 * size) + d
  BY <1>1, <1>3, FrameGrains
<1>6. PICK x \in Nat : /\ time = x
                       /\ s * n - Grain < Grain * x /\ Grain * x < s * n + Grain
  <2>0. time \in CalculateTxDuration(v, size, "NEXT", n)
    BY <1>1
  <2>1. \E x \in Nat : /\ time = x
                       /\ s * n - Grain < Grain * x /\ Grain * x < s * n + Grain
    BY <1>1, <1>3, <1>5, <2>0, NextTime
  <2> QED BY <2>1
<1>7. c \in Nat /\ l.symbols \in Nat /\ l.size \in Nat /\ t = l.size + z
  BY <1>2 DEF Sending, Left
<1>8. PICK k \in Int : k = c - l.symbols
  BY <1>7
<1>9. (c + n) - l.symbols = k + n /\ c + n \in Nat
  BY <1>5, <1>7, <1>8
<1>10. Within(Grain * ((u + time) - h) - s * (k + n), f + 1)
  <2>1. Within(Grain * (u - h) - s * k, f)
    BY <1>1, <1>2, <1>4, <1>8 DEF Sending
  <2>2. /\ Grain * ((u + x) - h) = Grain * x + Grain * (u - h)
        /\ s * (k + n) = s * k + s * n /\ Grain * (f + 1) = Grain + Grain * f
    <3>1. (u + x) - h = x + (u - h)
      BY <1>4
    <3> QED BY <1>4, <1>5, <3>1, Parameters, Products
  <2>3. PICK gx \in Int, gu \in Int, sk \in Int, sn \in Int, gf \in Int :
          gx = Grain * x /\ gu = Grain * (u - h) /\ sk = s * k /\ sn = s * n /\ gf = Grain * f
    BY <1>4, <1>5, Parameters, Products
  <2>4. gu - sk \in -gf .. gf
    BY <2>1, <2>3 DEF Within
  <2>5. sn - Grain < gx /\ gx < sn + Grain
    BY <1>6, <2>3
  <2>6. (gx + gu) - (sk + sn) \in -(Grain + gf) .. Grain + gf
    BY <2>3, <2>4, <2>5, Parameters
  <2> QED BY <1>6, <2>2, <2>3, <2>6 DEF Within
<1>11. d * (k + n) <= Grain * PsduBits(v, z + size) + d * (f + 1)
  <2>1. PICK b \in Nat : b = PsduBits(v, z) /\ PsduBits(v, z + size) = b + 8 * size
    <3>1. z + size = z + size
      OBVIOUS
    <3> QED BY <3>1, MoreBits
  <2>2. d * k <= Grain * b + d * f
    BY <1>1, <1>2, <1>4, <1>8, <2>1 DEF Sending
  <2>3. /\ d * (k + n) = d * k + d * n /\ d * (f + 1) = d + d * f
        /\ Grain * (b + 8 * size) = Grain * b + Grain * (8 * size)
    BY <1>4, <1>5, Parameters, Products
  <2>4. PICK dk \in Int, dn \in Int, gb \in Int, gs \in Int, df \in Int :
          /\ dk = d * k /\ dn = d * n /\ gb = Grain * b /\ gs = Grain * (8 * size) /\ df = d * f
    BY <1>4, <1>5, Parameters, Products
  <2> QED BY <1>4, <1>5, <2>1, <2>2, <2>3, <2>4
<1>12. /\ z + size \in Nat \ {0} /\ f + 1 \in Nat \ {0} /\ f + 1 <= MaxFrames
       /\ u + time \in Int /\ t + size = l.size + (z + size)
  BY <1>2, <1>6, <1>7, Parameters
<1>13. PICK g : g = Extended(a, v, size, time)
  OBVIOUS
<1>14. /\ g = [vector |-> v, size |-> z + size, frames |-> f + 1, time |-> u + time]
       /\ g.vector = v /\ g.size = z + size /\ g.frames = f + 1 /\ g.time = u + time
  BY <1>2, <1>13 DEF Extended
<1>15. g \in Frames
  BY <1>12, <1>14 DEF Frames
<1>16. Sending(g, l, t + size, c + n)
  BY <1>1, <1>4, <1>9, <1>10, <1>11, <1>12, <1>14, <1>15 DEF Sending
<1> QED BY <1>1, <1>13, <1>16

\* The last frame takes the grains that are missing.
LEMMA LastEnds ==
  ASSUME NEW a, NEW l \in Left, NEW t, NEW c, Sending(a, l, t, c), NEW size \in Nat \ {0},
         NEW n, n = Grain * WholeSymbols(a.vector, t + size) - c, n >= 0,
         NEW time \in CalculateTxDuration(a.vector, size, "LAST", n)
  PROVE  Ended(Extended(a, a.vector, size, time), l)
<1>1. PICK v \in Vector : v = a.vector /\ Aggregates(v)
  BY DEF Sending, Frames
<1>2. PICK f \in Nat, z \in Nat \ {0}, u \in Int : f = a.frames /\ z = a.size /\ u = a.time
  BY DEF Sending, Frames
<1>3. ~Dsss(v) /\ \E d, s, e, h : Units(v, d, s, e, h)
  BY <1>1, UnitsExist
<1>4. PICK d, s, e, h : Units(v, d, s, e, h)
  BY <1>3
<1>5. /\ s \in Nat /\ s = SymbolTime(v) /\ h \in Nat /\ h = HeadTime(v)
      /\ e \in Nat /\ e = Resolution * Extension(v, "NORMAL")
  BY <1>4 DEF Units
<1>6. c \in Nat /\ l.symbols \in Nat /\ l.size \in Nat /\ t = l.size + z
  BY <1>2 DEF Sending, Left
<1>7. PICK q \in Nat : q = t + size /\ q = l.size + (z + size)
  BY <1>2, <1>6
<1>8. PICK w \in Nat \ {0} : w = WholeSymbols(v, q)
  BY <1>3, SymbolsHold
<1>9. n \in Nat /\ n = Grain * w - c
  <2>1. Grain * w \in Nat
    BY Parameters
  <2> QED BY <1>1, <1>6, <1>7, <1>8, <2>1
<1>10. PICK x \in Nat : /\ time = x + e
                        /\ s * n - Grain < Grain * x /\ Grain * x < s * n + Grain
  <2>0. time \in CalculateTxDuration(v, size, "LAST", n)
    BY <1>1
  <2>1. \E x \in Nat : /\ time = x + e
                       /\ s * n - Grain < Grain * x /\ Grain * x < s * n + Grain
    BY <1>1, <1>4, <1>9, <2>0, LastTime
  <2> QED BY <2>1
<1>11. PICK y \in Nat : y = NormalTime(v, q) /\ y = h + (w * s + e)
  BY <1>3, <1>5, <1>8 DEF NormalTime
<1>12. PICK m \in Nat : m = l.symbols
  BY <1>6
<1>13. Within(Grain * (y - (u + time)) - s * m, f + 1)
  <2>1. Within(Grain * (u - h) - s * (c - m), f)
    BY <1>1, <1>2, <1>5, <1>12 DEF Sending
  <2>2. PICK r \in Int : r = w * s
    BY <1>5
  <2>3. /\ Grain * (y - (u + time)) = (Grain * r - Grain * x) - Grain * (u - h)
        /\ s * (c - m) = s * c - s * m /\ Grain * (f + 1) = Grain + Grain * f
        /\ s * n = Grain * r - s * c
    <3>1. y - (u + time) = (r - x) - (u - h)
      BY <1>5, <1>10, <1>11, <2>2
    <3>2. Grain * ((r - x) - (u - h)) = Grain * (r - x) - Grain * (u - h)
      BY <1>5, Parameters, Products
    <3>3. Grain * (r - x) = Grain * r - Grain * x
      BY <2>2, Parameters, Products
    <3>4. s * (Grain * w - c) = s * (Grain * w) - s * c /\ Grain * w \in Int
      BY <1>5, <1>6, Parameters, Products
    <3>5. s * (Grain * w) = Grain * (w * s)
      BY <1>5, Parameters
    <3> QED BY <1>5, <1>6, <1>9, <2>2, <3>1, <3>2, <3>3, <3>4, <3>5, Parameters, Products
  <2>4. PICK gr \in Int, gx \in Int, gu \in Int, sc \in Int, sm \in Int, gf \in Int :
          /\ gr = Grain * r /\ gx = Grain * x /\ gu = Grain * (u - h) /\ sc = s * c
          /\ sm = s * m /\ gf = Grain * f
    BY <1>5, <1>6, <2>2, Parameters, Products, SMTT(20), ZenonT(30)
  <2>5. gu - (sc - sm) \in -gf .. gf
    BY <2>1, <2>3, <2>4 DEF Within
  <2>6. (gr - sc) - Grain < gx /\ gx < (gr - sc) + Grain
    BY <1>10, <2>3, <2>4
  <2>7. ((gr - gx) - gu) - sm \in -(Grain + gf) .. Grain + gf
    BY <2>4, <2>5, <2>6, Parameters
  <2> QED BY <2>3, <2>4, <2>7 DEF Within
<1>14. PICK g : g = Extended(a, v, size, time)
  OBVIOUS
<1>15. /\ g = [vector |-> v, size |-> z + size, frames |-> f + 1, time |-> u + time]
       /\ g.vector = v /\ g.size = z + size /\ g.frames = f + 1 /\ g.time = u + time
  BY <1>2, <1>14 DEF Extended
<1>16. g \in Frames
  <2>1. z + size \in Nat \ {0} /\ f + 1 \in Nat \ {0} /\ u + time \in Int
    BY <1>2, <1>5, <1>10
  <2> QED BY <1>15, <2>1 DEF Frames
<1>17. Ended(g, l)
  BY <1>5, <1>7, <1>11, <1>12, <1>13, <1>15, <1>16 DEF Ended
<1> QED BY <1>1, <1>14, <1>17

-----------------------------------------------------------------------------
LEMMA DurationInvInit == DurationInit => DurationInv
  BY DEF DurationInit, DurationInv, NothingLeft, Left

\* What Send does, by the type of the frame.
LEMMA Sends ==
  ASSUME NEW v, NEW size, NEW type \in {"NORMAL", "FIRST", "NEXT", "LAST"}, Send(v, size, type)
  PROVE  \E n \in NumSymbols(v, size, type) : \E time \in CalculateTxDuration(v, size, type, n) :
           LET more == Extended(ampdu, v, size, time)
           IN  /\ Account(size, type, n)
               /\ type = "NORMAL" => /\ ampdu' = NoAmpdu /\ left' = left
                                     /\ last' = [sent |-> more, left |-> NothingLeft]
               /\ type = "LAST" => /\ ampdu' = NoAmpdu /\ left' = NothingLeft
                                   /\ last' = [sent |-> more, left |-> left]
               /\ type \in {"FIRST", "NEXT"} => ampdu' = more /\ left' = left /\ last' = NoAmpdu
  BY DEF Send, Extended

LEMMA DurationInvNext == DurationInv /\ [DurationNext]_durationVars => DurationInv'
<1> SUFFICES ASSUME DurationInv, [DurationNext]_durationVars PROVE DurationInv'
  OBVIOUS
<1>0. /\ left \in Left
      /\ ampdu = NoAmpdu => total = left.size /\ symbols = left.symbols
      /\ ampdu # NoAmpdu => Sending(ampdu, left, total, symbols)
  BY DEF DurationInv
<1>1. ASSUME NEW size \in Size PROVE size \in Nat \ {0}
  BY SizeAssumption
<1>2. CASE SendNormal
  <2>1. PICK v \in Vector, size \in Size : Send(v, size, "NORMAL")
    BY <1>2 DEF SendNormal
  <2>2. PICK n \in NumSymbols(v, size, "NORMAL") :
          \E time \in CalculateTxDuration(v, size, "NORMAL", n) :
            /\ left' = left /\ Account(size, "NORMAL", n) /\ ampdu' = NoAmpdu
            /\ last' = [sent |-> Extended(ampdu, v, size, time), left |-> NothingLeft]
    BY <2>1, Sends
  <2>3. PICK time \in CalculateTxDuration(v, size, "NORMAL", n) :
            /\ left' = left /\ Account(size, "NORMAL", n) /\ ampdu' = NoAmpdu
            /\ last' = [sent |-> Extended(ampdu, v, size, time), left |-> NothingLeft]
    BY <2>2
  <2>4. Ended(last'.sent, last'.left)
    BY <1>1, <1>2, <2>3, NormalEnds DEF SendNormal
  <2>5. total' = total /\ symbols' = symbols /\ ampdu = NoAmpdu
    BY <1>2, <2>3 DEF Account, SendNormal
  <2> QED BY <1>0, <2>3, <2>4, <2>5 DEF DurationInv
<1>3. CASE SendFirst
  <2>1. PICK v \in Vector, size \in Size : Aggregates(v) /\ Send(v, size, "FIRST")
    BY <1>3 DEF SendFirst
  <2>2. PICK n \in NumSymbols(v, size, "FIRST") :
          \E time \in CalculateTxDuration(v, size, "FIRST", n) :
            /\ left' = left /\ Account(size, "FIRST", n) /\ last' = NoAmpdu
            /\ ampdu' = Extended(ampdu, v, size, time)
    BY <2>1, Sends
  <2>3. PICK time \in CalculateTxDuration(v, size, "FIRST", n) :
            /\ left' = left /\ Account(size, "FIRST", n) /\ last' = NoAmpdu
            /\ ampdu' = Extended(ampdu, v, size, time)
    BY <2>2
  <2>4. total' = left.size + size /\ symbols' = left.symbols + n
    BY <1>0, <1>3, <2>3 DEF Account, SendFirst
  <2>5. Sending(ampdu', left', total', symbols')
    BY <1>0, <1>1, <1>3, <2>1, <2>3, <2>4, FirstSent DEF SendFirst
  <2>6. ampdu' # NoAmpdu
    BY <2>5 DEF Sending, Frames, NoAmpdu
  <2> QED BY <1>0, <2>3, <2>5, <2>6 DEF DurationInv
<1>4. CASE SendNext
  <2>1. PICK size \in Size : Send(ampdu.vector, size, "NEXT")
    BY <1>4 DEF SendNext
  <2>2. PICK n \in NumSymbols(ampdu.vector, size, "NEXT") :
          \E time \in CalculateTxDuration(ampdu.vector, size, "NEXT", n) :
            /\ left' = left /\ Account(size, "NEXT", n) /\ last' = NoAmpdu
            /\ ampdu' = Extended(ampdu, ampdu.vector, size, time)
    BY <2>1, Sends
  <2>3. PICK time \in CalculateTxDuration(ampdu.vector, size, "NEXT", n) :
            /\ left' = left /\ Account(size, "NEXT", n) /\ last' = NoAmpdu
            /\ ampdu' = Extended(ampdu, ampdu.vector, size, time)
    BY <2>2
  <2>4. total' = total + size /\ symbols' = symbols + n
    BY <2>3 DEF Account
  <2>5. Sending(ampdu', left', total', symbols')
    BY <1>0, <1>1, <1>4, <2>3, <2>4, NextSent DEF SendNext
  <2>6. ampdu' # NoAmpdu
    BY <2>5 DEF Sending, Frames, NoAmpdu
  <2> QED BY <1>0, <2>3, <2>5, <2>6 DEF DurationInv
<1>5. CASE SendLast
  <2>1. PICK size \in Size : Holds(size) /\ Send(ampdu.vector, size, "LAST")
    BY <1>5 DEF SendLast
  <2>2. PICK n \in NumSymbols(ampdu.vector, size, "LAST") :
          \E time \in CalculateTxDuration(ampdu.vector, size, "LAST", n) :
            /\ ampdu' = NoAmpdu /\ left' = NothingLeft /\ Account(size, "LAST", n)
            /\ last' = [sent |-> Extended(ampdu, ampdu.vector, size, time), left |-> left]
    BY <2>1, Sends
  <2>3. PICK time \in CalculateTxDuration(ampdu.vector, size, "LAST", n) :
            /\ ampdu' = NoAmpdu /\ left' = NothingLeft /\ Account(size, "LAST", n)
            /\ last' = [sent |-> Extended(ampdu, ampdu.vector, size, time), left |-> left]
    BY <2>2
  <2>4. Sending(ampdu, left, total, symbols)
    BY <1>0, <1>5 DEF SendLast
  <2>5. PICK w \in Nat : w = Grain * WholeSymbols(ampdu.vector, total + size)
    <3>1. PICK v \in Vector : v = ampdu.vector /\ ~Dsss(v)
      BY <2>4, UnitsExist DEF Sending, Frames
    <3>2. PICK q \in Nat : q = total + size
      BY <1>0, <1>1, <2>4 DEF Sending, Frames, Left
    <3>3. PICK k \in Nat : k = WholeSymbols(v, q)
      BY <3>1, SymbolsHold
    <3> QED BY <3>1, <3>2, <3>3, Parameters
  <2>6. n = w - symbols
    <3>1. ~Dsss(ampdu.vector)
      BY <2>4, UnitsExist DEF Sending, Frames
    <3> QED BY <2>5, <3>1 DEF NumSymbols
  <2>7. n >= 0
    BY <2>1, <2>4, <2>5, <2>6 DEF Holds, Sending
  <2>8. Ended(last'.sent, last'.left)
    BY <1>0, <1>1, <2>3, <2>4, <2>5, <2>6, <2>7, LastEnds
  <2>9. total' = 0 /\ symbols' = 0
    BY <2>3 DEF Account
  <2> QED BY <2>3, <2>8, <2>9 DEF DurationInv, NothingLeft, Left
<1>6. CASE DropRest
  <2>1. Sending(ampdu, left, total, symbols)
    BY <1>0, <1>6 DEF DropRest
  <2>2. total \in Nat /\ symbols \in Nat /\ left.cuts + 1 \in Nat
    BY <1>0, <2>1 DEF Sending, Frames, Left
  <2>3. /\ left' = [size |-> total, symbols |-> symbols, cuts |-> left.cuts + 1]
        /\ ampdu' = NoAmpdu /\ last' = NoAmpdu /\ total' = total /\ symbols' = symbols
    BY <1>6 DEF DropRest
  <2> QED BY <2>2, <2>3 DEF DurationInv, Left
<1>7. CASE UNCHANGED durationVars
  BY <1>7 DEF durationVars, DurationInv
<1> QED BY <1>2, <1>3, <1>4, <1>5, <1>6, <1>7 DEF DurationNext

-----------------------------------------------------------------------------
LEMMA EndedLasts == ASSUME NEW a, NEW l, Ended(a, l) PROVE Lasts(a, l)
<1>1. PICK v \in Vector : v = a.vector
  BY DEF Ended, Frames
<1>2. PICK size \in Nat \ {0} : size = l.size + a.size
  BY DEF Ended, Frames, Left
<1>3. GetPlcpHeaderDuration(v) * GetPlcpHeaderMode(v).kbps = 1000 * HeaderBits(v)
  BY HeaderLasts
<1>4. ASSUME NEW n \in NumSymbols(v, size, "NORMAL"),
             NEW whole \in CalculateTxDuration(v, size, "NORMAL", n)
      PROVE  /\ Within(Grain * (whole - a.time) - SymbolTime(v) * l.symbols, a.frames)
             /\ whole > Resolution * Micro(CalculatePlcpPreambleAndHeaderDuration(v))
  <2>1. whole = NormalTime(v, size) /\ whole > HeadTime(v)
    BY NormalIs, NormalLonger
  <2> QED BY <1>1, <1>2, <2>1 DEF Ended, HeadTime, HeadUnits
<1> QED BY <1>1, <1>2, <1>3, <1>4 DEF Lasts

\* With nothing left the symbols that went before fit.
LEMMA SymbolsFit ==
  ASSUME NEW a, NEW t, NEW c, Sending(a, NothingLeft, t, c), NEW size \in Nat \ {0}
  PROVE  c <= Grain * WholeSymbols(a.vector, t + size)
<1>1. PICK v \in Vector : v = a.vector /\ Aggregates(v)
  BY DEF Sending, Frames
<1>2. PICK f \in Nat, z \in Nat : f = a.frames /\ z = a.size /\ f <= MaxFrames
  BY DEF Sending, Frames
<1>3. t = z /\ c \in Nat /\ c - 0 = c
  BY <1>2 DEF Sending, NothingLeft
<1>4. ~Dsss(v)
  BY <1>1, UnitsExist
<1>5. PICK d \in Nat \ {0} : d = NumDataBitsPerSymbol(v)
  BY <1>4, SymbolTypes, DsssIs
<1>6. PICK b \in Nat : b = PsduBits(v, z) /\ PsduBits(v, z + size) = b + 8 * size
  BY MoreBits
<1>7. d * c <= Grain * b + d * f
  <2>1. NothingLeft.symbols = 0
    BY DEF NothingLeft
  <2> QED BY <1>1, <1>2, <1>3, <1>5, <1>6, <2>1 DEF Sending
<1>8. PICK w \in Nat : w = WholeSymbols(v, z + size) /\ b + 8 * size <= d * w
  <2>1. z + size \in Nat
    OBVIOUS
  <2> QED BY <1>4, <1>5, <1>6, <2>1, SymbolsHold
<1>9. d * f <= Grain * (8 * size)
  <2>1. d * f <= d * MaxFrames
    BY <1>2, <1>5, Parameters, Ordered
  <2>2. d * MaxFrames <= 8 * Grain
    BY <1>1, <1>5, GrainAssumption
  <2>3. Grain * 8 <= Grain * (8 * size)
    <3>1. 8 <= 8 * size /\ 8 * size \in Int
      OBVIOUS
    <3> QED BY <3>1, Parameters, Ordered
  <2>4. PICK x \in Int, y \in Int, q \in Int :
          x = d * f /\ y = d * MaxFrames /\ q = Grain * (8 * size)
    BY <1>5, Parameters, Products
  <2> QED BY <2>1, <2>2, <2>3, <2>4, Parameters
<1>10. Grain * (b + 8 * size) <= Grain * (d * w)
  <2>1. b + 8 * size \in Int /\ d * w \in Int
    BY <1>5
  <2> QED BY <1>8, <2>1, Parameters, Ordered
<1>11. d * c <= d * (Grain * w)
  <2>1. Grain * (b + 8 * size) = Grain * b + Grain * (8 * size) /\ Grain * (d * w) = d * (Grain * w)
    BY <1>5, Parameters, Products
  <2>2. PICK gb \in Int, gs \in Int, df \in Int, dc \in Int, gw \in Int :
          /\ gb = Grain * b /\ gs = Grain * (8 * size) /\ df = d * f /\ dc = d * c
          /\ gw = d * (Grain * w)
    BY <1>3, <1>5, Parameters, Products
  <2> QED BY <1>7, <1>9, <1>10, <2>1, <2>2
<1>12. Grain * w \in Int
  BY Parameters
<1>13. c <= Grain * w
  BY <1>3, <1>5, <1>11, <1>12, Ordered
<1> QED BY <1>1, <1>3, <1>8, <1>13

\* The frames of an A-MPDU together last as long as one frame of their size, but for
\* a step of the clock in each; after A-MPDUs that were cut short, as long as a frame
\* of the size of all, less the symbols that were left counted.  With nothing left the
\* symbols counted before the last frame are never more than the A-MPDU has, and a
\* header lasts as long as its bits take in its mode and ends before its frame: for
\* every set of vectors and sizes, every way to round and any number of frames.
THEOREM AmpduIsWholeCorrect == DurationSpec => []AmpduIsWhole
<1>1. DurationInv => AmpduIsWhole
  <2> SUFFICES ASSUME DurationInv PROVE AmpduIsWhole
    OBVIOUS
  <2>1. last # NoAmpdu => Ended(last.sent, last.left)
    BY DEF DurationInv
  <2>2. ASSUME ampdu # NoAmpdu, left = NothingLeft, NEW size \in Size PROVE Holds(size)
    <3>1. Sending(ampdu, NothingLeft, total, symbols)
      BY <2>2 DEF DurationInv
    <3>2. size \in Nat \ {0}
      BY SizeAssumption
    <3> QED BY <3>1, <3>2, SymbolsFit DEF Holds
  <2> QED BY <2>1, <2>2, EndedLasts DEF AmpduIsWhole
<1> QED BY <1>1, DurationInvInit, DurationInvNext, PTL DEF DurationSpec
-----------------------------------------------------------------------------
(* A second search finds the number again.                                 *)

FirstTable == InitialTable({"80211b", "80211_10MHZ", "UNSPECIFIED"})

\* The numbers that are defined, at first or by the script, and their rows.
Numbers == {k[1] : k \in DOMAIN FirstTable} \cup {d[1] : d \in Extra}

RowsOf(n) ==
  {FirstTable[k] : k \in {k \in DOMAIN FirstTable : k[1] = n}} \cup {d[3] : d \in {d \in Extra : d[1] = n}}

\* A number that has a row of a smaller one has no other: channels 54 and 126 of the
\* first table, which have the rows of 46 and 118, are such numbers.
Unambiguous ==
  \A m, n \in Numbers :
    m < n /\ RowsOf(m) \cap RowsOf(n) # {} => \A row, other \in RowsOf(n) : row = other

\* The rows of a radio are defined, or there are none.
DefinedRows(r) ==
  \A k \in DOMAIN r.channels : r.channels[k] = NoRow \/ r.channels[k] \in RowsOf(k[1])

\* What a search and the calls behind it do to the table of a radio.
Searched(r, q) ==
  /\ q.constructed = r.constructed
  /\ \A k \in DOMAIN q.channels :
       q.channels[k] = NoRow \/ (k \in DOMAIN r.channels /\ q.channels[k] = r.channels[k])

LEMMA SameSearched ==
  ASSUME NEW r, NEW q, q.constructed = r.constructed, q.channels = r.channels
  PROVE  Searched(r, q)
  BY DEF Searched

LEMMA SearchedTwice ==
  ASSUME NEW r, NEW q, NEW p, Searched(r, q), Searched(q, p)
  PROVE  Searched(r, p)
  BY DEF Searched

LEMMA SearchedDefined ==
  ASSUME NEW r, NEW q, Searched(r, q), DefinedRows(r)
  PROVE  DefinedRows(q)
  BY DEF Searched, DefinedRows

LEMMA DefineRows ==
  ASSUME NEW r \in Radio, NEW n, NEW s, NEW row
  PROVE  LET q == DefineChannelNumber(r, n, s, row)
         IN  /\ q.constructed = r.constructed /\ q.standard = r.standard
             /\ \A k \in DOMAIN q.channels :
                  \/ k \in DOMAIN r.channels /\ q.channels[k] = r.channels[k]
                  \/ k = <<n, s>> /\ q.channels[k] = row
<1>1. CASE <<n, s>> \in DOMAIN r.channels
  BY <1>1 DEF DefineChannelNumber
<1>2. CASE <<n, s>> \notin DOMAIN r.channels
  <2>1. PICK grown : grown = [k \in DOMAIN r.channels \cup {<<n, s>>} |->
                                IF k = <<n, s>> THEN row ELSE r.channels[k]]
    OBVIOUS
  <2>2. PICK q : q = [r EXCEPT !.channels = grown]
    OBVIOUS
  <2>3. DefineChannelNumber(r, n, s, row) = q
    BY <1>2, <2>1, <2>2 DEF DefineChannelNumber
  <2>4. q.channels = grown /\ q.constructed = r.constructed /\ q.standard = r.standard
    BY <2>2 DEF Radio
  <2>5. \A k \in DOMAIN grown : \/ k \in DOMAIN r.channels /\ grown[k] = r.channels[k]
                                \/ k = <<n, s>> /\ grown[k] = row
    BY <2>1
  <2> QED BY <2>3, <2>4, <2>5
<1> QED BY <1>1, <1>2

LEMMA AskedSearched ==
  ASSUME NEW r \in Radio, AlignedIn(r), NEW n \in Nat
  PROVE  Searched(r, Asked(r, n))
<1>1. r.standard \in WifiPhyStandard /\ "UNSPECIFIED" \in WifiPhyStandard /\ NoRow \in Nat \X Nat
  <2>1. r.standard \in WifiPhyStandard
    BY DEF Radio
  <2> QED BY <2>1 DEF WifiPhyStandard, NoRow
<1>2. PICK own : own = GetFrequencyWidthForChannelNumberStandard(r, n, r.standard)
  OBVIOUS
<1>3. PICK other : other = GetFrequencyWidthForChannelNumberStandard(own, n, "UNSPECIFIED")
  OBVIOUS
<1>4. Searched(r, own)
  BY <1>2, DefineRows DEF GetFrequencyWidthForChannelNumberStandard, Searched
<1>5. own \in Radio
  BY <1>1, <1>2, DefineTunes DEF GetFrequencyWidthForChannelNumberStandard, Tunes
<1>6. Searched(own, other)
  BY <1>3, <1>5, DefineRows DEF GetFrequencyWidthForChannelNumberStandard, Searched
<1>7. Searched(r, other)
  BY <1>4, <1>6, SearchedTwice
<1>8. Asked(r, n) = IF own.channels[<<n, r.standard>>][1] # 0 THEN own ELSE other
  BY <1>2, <1>3 DEF Asked
<1> QED BY <1>4, <1>7, <1>8

LEMMA FrequencySearched ==
  ASSUME NEW r \in Radio, NEW f
  PROVE  Searched(r, SetFrequency(r, f))
<1>1. PICK q : q = SetFrequency(r, f)
  OBVIOUS
<1>2. q.constructed = r.constructed /\ q.channels = r.channels
  BY <1>1 DEF SetFrequency, Radio
<1> QED BY <1>1, <1>2, SameSearched

LEMMA NumberSearched ==
  ASSUME NEW r \in Radio, AlignedIn(r), NEW n \in Nat
  PROVE  Searched(r, SetChannelNumber(r, n))
<1>1. PICK q : q = SetChannelNumber(r, n)
  OBVIOUS
<1>2. PICK asked : asked = Asked(r, n)
  OBVIOUS
<1>3. PICK row : row = RowFor(asked.channels, n, r.standard)
  OBVIOUS
<1>4. asked \in Radio /\ Searched(r, asked)
  BY <1>2, AskedTunes, AskedSearched DEF Tunes
<1>5. \/ q = [r EXCEPT !.initialNumber = n] \/ q = r \/ q = [r EXCEPT !.number = 0]
      \/ q = [asked EXCEPT !.fatal = TRUE]
      \/ q = SetChannelWidth([asked EXCEPT !.frequency = row[1], !.number = n], row[2])
  BY <1>1, <1>2, <1>3 DEF SetChannelNumber
<1>6. CASE q = [r EXCEPT !.initialNumber = n] \/ q = r \/ q = [r EXCEPT !.number = 0]
  <2>1. q.constructed = r.constructed /\ q.channels = r.channels
    BY <1>6 DEF Radio
  <2> QED BY <1>1, <2>1, SameSearched
<1>7. CASE q = [asked EXCEPT !.fatal = TRUE]
  <2>1. q.constructed = asked.constructed /\ q.channels = asked.channels
    BY <1>4, <1>7 DEF Radio
  <2> QED BY <1>1, <1>4, <2>1 DEF Searched
<1>8. CASE q = SetChannelWidth([asked EXCEPT !.frequency = row[1], !.number = n], row[2])
  <2>1. q.constructed = asked.constructed /\ q.channels = asked.channels
    BY <1>4, <1>8 DEF Radio, SetChannelWidth, AddSupportedChannelWidth
  <2> QED BY <1>1, <1>4, <2>1 DEF Searched
<1> QED BY <1>5, <1>6, <1>7, <1>8

LEMMA ReadySearched ==
  ASSUME NEW r \in Radio, AlignedIn(r)
  PROVE  Searched(r, InitializeFrequencyChannelNumber(r))
<1>1. PICK tuned : tuned = IF r.initialFrequency # 0 THEN SetFrequency(r, r.initialFrequency)
                           ELSE IF r.initialNumber = 0 THEN r
                           ELSE IF r.standard # "UNSPECIFIED" THEN SetChannelNumber(r, r.initialNumber)
                           ELSE [r EXCEPT !.fatal = TRUE]
  OBVIOUS
<1>2. r.initialFrequency \in Nat /\ r.initialNumber \in Nat
  BY DEF Radio
<1>3. Searched(r, SetFrequency(r, r.initialFrequency))
  BY FrequencySearched
<1>4. Searched(r, SetChannelNumber(r, r.initialNumber))
  BY <1>2, NumberSearched
<1>5. Searched(r, r)
  BY SameSearched
<1>6. Searched(r, [r EXCEPT !.fatal = TRUE])
  <2>1. PICK f : f = [r EXCEPT !.fatal = TRUE]
    OBVIOUS
  <2>2. f.constructed = r.constructed /\ f.channels = r.channels
    BY <2>1 DEF Radio
  <2> QED BY <2>1, <2>2, SameSearched
<1>7. Searched(r, tuned)
  BY <1>1, <1>3, <1>4, <1>5, <1>6
<1>8. tuned \in Radio
  <2>1. Tunes(r, SetFrequency(r, r.initialFrequency))
    BY <1>2, FrequencyTunes
  <2>2. Tunes(r, SetChannelNumber(r, r.initialNumber))
    BY <1>2, NumberTunes
  <2>3. [r EXCEPT !.fatal = TRUE] \in Radio
    BY DEF Radio
  <2> QED BY <1>1, <2>1, <2>2, <2>3 DEF Tunes
<1>9. PICK q : q = [tuned EXCEPT !.ready = TRUE]
  OBVIOUS
<1>10. q.constructed = tuned.constructed /\ q.channels = tuned.channels
  BY <1>8, <1>9 DEF Radio
<1>11. InitializeFrequencyChannelNumber(r) = q
  BY <1>1, <1>9 DEF InitializeFrequencyChannelNumber
<1> QED BY <1>7, <1>10, <1>11 DEF Searched

\* The number that a search answers is the least with the row.
LEMMA SearchLeast ==
  ASSUME NEW rows \in Rows, NEW f, NEW width, NEW k \in DOMAIN rows, rows[k] = <<f, width>>
  PROVE  /\ FindChannelNumberForFrequencyWidth(rows, f, width) <= k[1]
         /\ (\A l \in DOMAIN rows : rows[l] = <<f, width>> => k[1] <= l[1])
              => FindChannelNumberForFrequencyWidth(rows, f, width) = k[1]
<1>1. PICK found : found = {l[1] : l \in {l \in DOMAIN rows : rows[l] = <<f, width>>}}
  OBVIOUS
<1>2. found \in SUBSET Nat /\ k[1] \in found
  BY <1>1, RowsAre DEF Key
<1>3. FindChannelNumberForFrequencyWidth(rows, f, width) = Min(found)
  BY <1>1, <1>2 DEF FindChannelNumberForFrequencyWidth
<1>4. Min(found) \in found /\ \A x \in found : Min(found) <= x
  <2>1. \E x \in found : \A y \in found : x <= y
    BY <1>2, LeastNatural
  <2> QED BY <2>1 DEF Min
<1>5. ASSUME \A l \in DOMAIN rows : rows[l] = <<f, width>> => k[1] <= l[1]
      PROVE  Min(found) = k[1]
  <2>1. PICK l \in DOMAIN rows : rows[l] = <<f, width>> /\ l[1] = Min(found)
    BY <1>1, <1>4
  <2>2. k[1] <= Min(found) /\ Min(found) <= k[1]
    BY <1>2, <1>4, <1>5, <2>1
  <2>3. Min(found) \in Nat /\ k[1] \in Nat
    BY <1>2, <1>4
  <2> QED BY <2>2, <2>3
<1> QED BY <1>2, <1>3, <1>4, <1>5

\* A radio with a frequency and the number that a search for it finds.
Settled(r) ==
  /\ r.frequency # 0
  /\ r.number = FindChannelNumberForFrequencyWidth(r.channels, r.frequency, r.width)

LEMMA DefaultsSettle ==
  ASSUME NEW r \in Radio, AlignedIn(r), r.constructed, r.frequency = 0,
         NEW s \in WifiPhyStandard \ {"UNSPECIFIED"}
  PROVE  LET q == ConfigureDefaultsForStandard(r, s) IN Settled(q) /\ Searched(r, q)
<1>1. PICK d : d = Default(s)
  OBVIOUS
<1>2. d[1] \in Nat /\ d[2] \in Nat /\ d[1] # 0
  BY <1>1 DEF Default, WifiPhyStandard
<1>3. PICK t : t = SetChannelWidth(r, d[2])
  OBVIOUS
<1>4. t \in Radio /\ t.frequency = 0 /\ t.constructed /\ Searched(r, t)
  BY <1>2, <1>3, WidthTunes DEF Tunes, Searched
<1>5. PICK n : n = FindChannelNumberForFrequencyWidth(t.channels, d[1], t.width)
  OBVIOUS
<1>6. PICK q : q = SetFrequency(t, d[1])
  OBVIOUS
<1>7. q = [t EXCEPT !.frequency = d[1], !.number = n]
  BY <1>2, <1>4, <1>5, <1>6 DEF SetFrequency
<1>8. q.frequency = d[1] /\ q.number = n /\ q.channels = t.channels /\ q.width = t.width
  BY <1>4, <1>7 DEF Radio
<1>9. Searched(r, q)
  BY <1>4, <1>6, FrequencySearched, SearchedTwice
<1>10. Settled(q)
  BY <1>2, <1>5, <1>8 DEF Settled
<1>11. ConfigureDefaultsForStandard(r, s) = q
  BY <1>1, <1>3, <1>6 DEF ConfigureDefaultsForStandard
<1> QED BY <1>9, <1>10, <1>11

\* The row of a number that was found is the row that was searched, or one that no
\* smaller number has.
LEMMA RowSettles ==
  ASSUME Unambiguous, NEW r \in Radio, DefinedRows(r), NEW asked \in Radio, Searched(r, asked),
         NEW f \in Nat \ {0}, NEW width, NEW n \in Nat \ {0}, NEW row,
         n = FindChannelNumberForFrequencyWidth(r.channels, f, width),
         row = RowFor(asked.channels, n, r.standard), row[1] # 0
  PROVE  FindChannelNumberForFrequencyWidth(asked.channels, row[1], row[2]) = n
<1>1. r.channels \in Rows /\ asked.channels \in Rows /\ DefinedRows(asked)
  BY SearchedDefined DEF Radio
<1>2. PICK k \in DOMAIN r.channels : k[1] = n /\ r.channels[k] = <<f, width>>
  BY <1>1, SearchFinds
<1>3. PICK l \in DOMAIN asked.channels : l[1] = n /\ asked.channels[l] = row
  BY <1>1, RowIsThere
<1>4. row \in Nat \X Nat /\ row # NoRow /\ <<f, width>> # NoRow
  BY <1>1, RowIsThere DEF NoRow
<1>5. <<f, width>> \in RowsOf(n) /\ row \in RowsOf(n)
  BY <1>1, <1>2, <1>3, <1>4 DEF DefinedRows
<1>6. ASSUME NEW j \in DOMAIN asked.channels, asked.channels[j] = row
      PROVE  n <= j[1]
  <2>1. row \in RowsOf(j[1]) /\ j[1] \in Nat
    BY <1>1, <1>4, <1>6, RowsAre DEF DefinedRows, Key
  <2>2. ASSUME j[1] < n PROVE FALSE
    <3>1. \A m \in {j[1], n} : m \in Numbers
      BY <1>5, <2>1 DEF Numbers, RowsOf
    <3>2. row = <<f, width>>
      BY <1>5, <2>1, <2>2, <3>1 DEF Unambiguous
    <3>3. j \in DOMAIN r.channels /\ r.channels[j] = <<f, width>>
      BY <1>4, <1>6, <3>2 DEF Searched
    <3>4. n <= j[1]
      BY <1>1, <3>3, SearchLeast
    <3> QED BY <2>1, <2>2, <3>4
  <2> QED BY <2>1, <2>2
<1>7. row = <<row[1], row[2]>>
  BY <1>4
<1> QED BY <1>1, <1>3, <1>6, <1>7, SearchLeast

LEMMA ChannelSettles ==
  ASSUME Unambiguous, NEW r \in Radio, AlignedIn(r), DefinedRows(r), r.constructed,
         ~(r.frequency = 0 /\ r.number = 0), NEW s
  PROVE  LET q == ConfigureChannelForStandard(r, s)
         IN  Searched(r, q) /\ (~q.fatal => Settled(q))
<1>1. PICK n : n = FindChannelNumberForFrequencyWidth(r.channels, r.frequency, r.width)
  OBVIOUS
<1>2. r.channels \in Rows /\ r.frequency \in Nat /\ r.number \in Nat
  BY DEF Radio
<1>3. n \in Nat
  BY <1>1, <1>2, SearchFinds
<1>4. r.frequency \in Nat \ {0}
  BY <1>2 DEF AlignedIn
<1>5. PICK q : q = SetChannelNumber(r, n)
  OBVIOUS
<1>6. ConfigureChannelForStandard(r, s) = q
  BY <1>1, <1>5 DEF ConfigureChannelForStandard
<1>7. Searched(r, q)
  BY <1>3, <1>5, NumberSearched
<1>8. PICK asked : asked = Asked(r, n)
  OBVIOUS
<1>9. PICK row : row = RowFor(asked.channels, n, r.standard)
  OBVIOUS
<1>10. asked \in Radio /\ Searched(r, asked)
  BY <1>3, <1>8, AskedTunes, AskedSearched DEF Tunes
<1>11. q = IF n = r.number THEN r ELSE IF n = 0 THEN [r EXCEPT !.number = 0]
           ELSE IF row[1] = 0 THEN [asked EXCEPT !.fatal = TRUE]
           ELSE SetChannelWidth([asked EXCEPT !.frequency = row[1], !.number = n], row[2])
  BY <1>5, <1>8, <1>9 DEF SetChannelNumber
<1>12. ASSUME n = r.number PROVE Settled(q)
  BY <1>1, <1>4, <1>11, <1>12 DEF Settled
<1>13. ASSUME n # r.number, n = 0 PROVE Settled(q)
  <2>1. /\ q.number = n /\ q.frequency = r.frequency /\ q.channels = r.channels
        /\ q.width = r.width
    BY <1>11, <1>13 DEF Radio
  <2> QED BY <1>1, <1>4, <2>1 DEF Settled
<1>14. ASSUME n # r.number, n # 0, row[1] = 0 PROVE q.fatal
  BY <1>10, <1>11, <1>14 DEF Radio
<1>15. ASSUME n # r.number, n # 0, row[1] # 0 PROVE Settled(q)
  <2>1. PICK t : t = [asked EXCEPT !.frequency = row[1], !.number = n]
    OBVIOUS
  <2>2. /\ t.frequency = row[1] /\ t.number = n /\ t.channels = asked.channels
    BY <1>10, <2>1 DEF Radio
  <2>3. q = SetChannelWidth(t, row[2])
    BY <1>11, <1>15, <2>1
  <2>4. asked.channels \in Rows
    BY <1>10 DEF Radio
  <2>5. row \in Nat \X Nat
    BY <1>9, <2>4, RowIsThere
  <2>6. t \in Radio
    BY <1>3, <1>10, <2>1, <2>5 DEF Radio
  <2>7. /\ q.frequency = row[1] /\ q.number = n /\ q.channels = asked.channels
        /\ q.width = row[2]
    BY <2>2, <2>3, <2>6 DEF Radio, SetChannelWidth, AddSupportedChannelWidth
  <2>8. FindChannelNumberForFrequencyWidth(asked.channels, row[1], row[2]) = n
    BY <1>1, <1>3, <1>4, <1>9, <1>10, <1>15, RowSettles
  <2> QED BY <1>15, <2>7, <2>8 DEF Settled
<1>16. ~q.fatal => Settled(q)
  BY <1>12, <1>13, <1>14, <1>15
<1> QED BY <1>6, <1>7, <1>16

LEMMA StandardSettled ==
  ASSUME Unambiguous, NEW r, Sound(r), DefinedRows(r), r.standard = "UNSPECIFIED",
         NEW s \in WifiPhyStandard \ {"UNSPECIFIED"}
  PROVE  LET q == ConfigureStandard(r, s) IN DefinedRows(q) /\ (~q.fatal => Settled(q))
<1>1. PICK constructed : constructed = [r EXCEPT !.standard = s, !.constructed = TRUE]
  OBVIOUS
<1>2. /\ constructed \in Radio /\ SameChannel(r, constructed) /\ constructed.constructed
      /\ constructed.standard = s
      /\ constructed.mcs = r.mcs /\ constructed.selectors = r.selectors
      /\ constructed.streams = r.streams
  BY <1>1 DEF Sound, Radio, SameChannel
<1>3. Sound(constructed) /\ DefinedRows(constructed) /\ Range(constructed.selectors) = {}
  BY <1>2 DEF Sound, SameChannel, AlignedIn, ModesIn, DefinedRows
<1>4. PICK ready : ready = IF r.ready THEN constructed
                           ELSE InitializeFrequencyChannelNumber(constructed)
  OBVIOUS
<1>5. Tunes(constructed, ready) /\ Searched(constructed, ready)
  <2>1. constructed \in Radio /\ AlignedIn(constructed)
    BY <1>3 DEF Sound
  <2>2. Tunes(constructed, constructed) /\ Searched(constructed, constructed)
    BY <2>1, SameSearched DEF Tunes, SameModes
  <2> QED BY <1>4, <2>1, <2>2, ReadyTunes, ReadySearched
<1>6. /\ ready \in Radio /\ AlignedIn(ready) /\ DefinedRows(ready) /\ ready.constructed
      /\ Sound(ready)
  BY <1>2, <1>3, <1>5, SearchedDefined, TunesSound DEF Tunes, Searched
<1>7. PICK tuned : tuned = IF ready.frequency = 0 /\ ready.number = 0
                           THEN ConfigureDefaultsForStandard(ready, s)
                           ELSE ConfigureChannelForStandard(ready, s)
  OBVIOUS
<1>8. Tunes(ready, tuned) /\ DefinedRows(tuned) /\ (~tuned.fatal => Settled(tuned))
  <2>1. ASSUME ready.frequency = 0, ready.number = 0
        PROVE  Tunes(ready, tuned) /\ Searched(ready, tuned) /\ Settled(tuned)
    BY <1>6, <1>7, <2>1, DefaultsTune, DefaultsSettle
  <2>2. ASSUME ~(ready.frequency = 0 /\ ready.number = 0)
        PROVE  /\ Tunes(ready, tuned) /\ Searched(ready, tuned)
               /\ ~tuned.fatal => Settled(tuned)
    BY <1>6, <1>7, <2>2, ChannelTunes, ChannelSettles
  <2> QED BY <1>6, <2>1, <2>2, SearchedDefined
<1>9. PICK q : q = ConfigureModes(tuned, s)
  OBVIOUS
<1>10. ConfigureStandard(r, s) = IF ready.fatal THEN ready ELSE IF tuned.fatal THEN tuned ELSE q
  BY <1>1, <1>4, <1>7, <1>9 DEF ConfigureStandard
<1>11. Sound(tuned) /\ Range(tuned.selectors) = {}
  BY <1>3, <1>5, <1>6, <1>8, TunesSound DEF Tunes, SameModes
<1>12. PICK L : Selects(tuned, q, L)
  BY <1>9, <1>11, ModesSelect DEF Sound
<1>13. DefinedRows(q) /\ (Settled(tuned) => Settled(q))
  BY <1>8, <1>12 DEF Selects, SameChannel, Settled, DefinedRows
<1> QED BY <1>6, <1>8, <1>10, <1>13

\* A call other than ConfigureStandard.
Stays(r, q) == q.standard = r.standard /\ DefinedRows(q)

LEMMA TunesStays ==
  ASSUME NEW r, DefinedRows(r), NEW q, Tunes(r, q), Searched(r, q)
  PROVE  Stays(r, q)
  BY SearchedDefined DEF Tunes, SameModes, Stays

LEMMA StreamsStay ==
  ASSUME NEW r \in Radio, DefinedRows(r), NEW streams \in 1..4
  PROVE  Stays(r, SetMaxSupportedTxSpatialStreams(r, streams))
<1>1. PICK t : t = [r EXCEPT !.streams = streams]
  OBVIOUS
<1>2. t \in Radio /\ t.channels = r.channels /\ t.standard = r.standard
  BY <1>1 DEF Radio
<1>3. PICK q : q = ConfigureHtDeviceMcsSet(t)
  OBVIOUS
<1>4. q.channels = t.channels /\ q.standard = t.standard
  BY <1>2, <1>3 DEF ConfigureHtDeviceMcsSet, Radio
<1>5. SetMaxSupportedTxSpatialStreams(r, streams) = q
  BY <1>1, <1>3 DEF SetMaxSupportedTxSpatialStreams
<1> QED BY <1>2, <1>4, <1>5 DEF Stays, DefinedRows

LEMMA InitializeStays ==
  ASSUME NEW r, Sound(r), DefinedRows(r)
  PROVE  Stays(r, DoInitialize(r))
<1>1. PICK t : t = [r EXCEPT !.constructed = TRUE, !.initialized = TRUE]
  OBVIOUS
<1>2. /\ t \in Radio /\ t.channels = r.channels /\ t.standard = r.standard
      /\ t.number = r.number /\ t.frequency = r.frequency
  BY <1>1 DEF Sound, Radio
<1>3. AlignedIn(t) /\ DefinedRows(t)
  BY <1>2 DEF Sound, AlignedIn, DefinedRows
<1>4. Stays(t, InitializeFrequencyChannelNumber(t))
  BY <1>2, <1>3, ReadyTunes, ReadySearched, TunesStays
<1>5. DoInitialize(r) = IF r.ready THEN t ELSE InitializeFrequencyChannelNumber(t)
  BY <1>1 DEF DoInitialize
<1> QED BY <1>2, <1>3, <1>4, <1>5 DEF Stays

LEMMA DefineStays ==
  ASSUME NEW r \in Radio, DefinedRows(r), NEW d \in Extra
  PROVE  Stays(r, DefineChannelNumber(r, d[1], d[2], d[3]))
<1>1. PICK q : q = DefineChannelNumber(r, d[1], d[2], d[3])
  OBVIOUS
<1>2. /\ q.standard = r.standard
      /\ \A k \in DOMAIN q.channels :
           \/ k \in DOMAIN r.channels /\ q.channels[k] = r.channels[k]
           \/ k = <<d[1], d[2]>> /\ q.channels[k] = d[3]
  BY <1>1, DefineRows
<1>3. d[3] \in RowsOf(d[1])
  BY DEF RowsOf
<1> QED BY <1>1, <1>2, <1>3 DEF Stays, DefinedRows

LEMMA InitDefined == Init => DefinedRows(radio)
<1> SUFFICES ASSUME Init PROVE DefinedRows(radio)
  OBVIOUS
<1>1. radio.channels = FirstTable
  BY DEF Init, FirstTable
<1>2. \A k \in DOMAIN FirstTable : FirstTable[k] \in RowsOf(k[1])
  BY DEF RowsOf
<1> QED BY <1>1, <1>2 DEF DefinedRows

LEMMA NextSettles ==
  ASSUME Unambiguous, Sound(radio), DefinedRows(radio), [Next]_vars
  PROVE  /\ DefinedRows(radio')
         /\ radio'.standard # radio.standard /\ ~radio'.fatal => Settled(radio')
<1>1. radio \in Radio /\ AlignedIn(radio)
  BY DEF Sound
<1>2. ASSUME Stays(radio, radio')
      PROVE  DefinedRows(radio') /\ radio'.standard = radio.standard
  BY <1>2 DEF Stays
<1>3. ASSUME NEW f \in Frequency \cup {0}, Call(SetFrequency(radio, f))
      PROVE  Stays(radio, radio')
  <2>1. f \in Nat /\ radio' = SetFrequency(radio, f)
    BY <1>3, ChannelAssumption DEF Call
  <2> QED BY <1>1, <2>1, FrequencyTunes, FrequencySearched, TunesStays
<1>4. ASSUME NEW n \in Number \cup {0}, Call(SetChannelNumber(radio, n))
      PROVE  Stays(radio, radio')
  <2>1. n \in Nat /\ radio' = SetChannelNumber(radio, n)
    BY <1>4, ChannelAssumption DEF Call
  <2> QED BY <1>1, <2>1, NumberTunes, NumberSearched, TunesStays
<1>5. ASSUME NEW width \in Width, Call(SetChannelWidth(radio, width))
      PROVE  Stays(radio, radio')
  <2>1. width \in Nat /\ radio' = SetChannelWidth(radio, width)
    BY <1>5, ChannelAssumption DEF Call
  <2>2. Tunes(radio, radio') /\ Searched(radio, radio')
    BY <1>1, <2>1, WidthTunes, SameSearched
  <2> QED BY <2>2, TunesStays
<1>6. ASSUME NEW d \in Extra, Call(DefineChannelNumber(radio, d[1], d[2], d[3]))
      PROVE  Stays(radio, radio')
  BY <1>1, <1>6, DefineStays DEF Call
<1>7. ASSUME NEW streams \in Streams, Call(SetMaxSupportedTxSpatialStreams(radio, streams))
      PROVE  Stays(radio, radio')
  BY <1>1, <1>7, StreamsAssumption, StreamsStay DEF Call
<1>8. ASSUME NEW s \in Standard, radio.standard = "UNSPECIFIED", Call(ConfigureStandard(radio, s))
      PROVE  DefinedRows(radio') /\ (~radio'.fatal => Settled(radio'))
  <2>1. s \in WifiPhyStandard \ {"UNSPECIFIED"} /\ radio' = ConfigureStandard(radio, s)
    BY <1>8, StandardAssumption DEF Call
  <2> QED BY <1>8, <2>1, StandardSettled
<1>9. ASSUME Call(DoInitialize(radio)) PROVE Stays(radio, radio')
  BY <1>9, InitializeStays DEF Call
<1>10. ASSUME UNCHANGED vars PROVE Stays(radio, radio')
  BY <1>10 DEF vars, Stays
<1> QED BY <1>2, <1>3, <1>4, <1>5, <1>6, <1>7, <1>8, <1>9, <1>10 DEF Next

\* If no definition of the script lends a number a second row of another number,
\* ConfigureStandard ends, unless in a fatal error, with a frequency and with the
\* number that a search for it finds, whatever calls came before.
THEOREM StandardSettlesCorrect == ASSUME Unambiguous PROVE Spec => StandardSettles
<1> DEFINE Step == radio'.standard # radio.standard /\ ~radio'.fatal =>
                     /\ radio'.frequency # 0
                     /\ radio'.number =
                          FindChannelNumberForFrequencyWidth(radio'.channels, radio'.frequency,
                                                             radio'.width)
           Inv == Sound(radio) /\ DefinedRows(radio)
<1>1. Init => Inv
  BY InitSound, InitDefined
<1>2. Inv /\ [Next]_vars => Inv' /\ [Step]_vars
  <2> SUFFICES ASSUME Inv, [Next]_vars PROVE Inv' /\ Step
    OBVIOUS
  <2>1. Sound(radio)'
    BY NextSound
  <2>2. DefinedRows(radio')
    BY NextSettles
  <2>3. DefinedRows(radio)'
    BY <2>2 DEF DefinedRows, RowsOf, FirstTable
  <2>4. Step
    BY NextSettles DEF Settled
  <2> QED BY <2>1, <2>3, <2>4
<1> HIDE DEF Inv
<1>3. Spec => [][Step]_vars
  BY <1>1, <1>2, PTL DEF Spec
<1> QED BY <1>3 DEF StandardSettles
=============================================================================
