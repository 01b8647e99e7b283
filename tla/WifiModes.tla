------------------------------ MODULE WifiModes ------------------------------
(***************************************************************************)
(* The modes a WifiPhy can send with (the Get...Rate and Get...Mcs         *)
(* functions of ns-3 wifi/model/wifi-phy.cc).  A mode has the rate of its  *)
(* name in kbit/s, a coding rate and a constellation; an MCS has only its  *)
(* number.                                                                 *)
(***************************************************************************)
EXTENDS Integers, Sequences

\* Clauses 15 and 18: no coding rate.
DsssRates ==
  LET Dsss(class, kbps, size) ==
        [class |-> class, kbps |-> kbps, mandatory |-> TRUE, width |-> 22,
         code |-> <<1, 1>>, constellation |-> size]
  IN  << Dsss("DSSS", 1000, 2), Dsss("DSSS", 2000, 4),
         Dsss("HR_DSSS", 5500, 16), Dsss("HR_DSSS", 11000, 256) >>

\* The eight rates of OFDM: the first, third and fifth are mandatory.
Ofdm(class, width, kbps) ==
  [i \in 1..8 |->
     [class |-> class, kbps |-> kbps[i], mandatory |-> i \in {1, 3, 5}, width |-> width,
      code |-> <<<<1, 2>>, <<3, 4>>, <<1, 2>>, <<3, 4>>, <<1, 2>>, <<3, 4>>, <<2, 3>>, <<3, 4>>>>[i],
      constellation |-> <<2, 2, 4, 4, 16, 16, 64, 64>>[i]]]

ErpOfdmRates ==
  Ofdm("ERP_OFDM", 20, <<6000, 9000, 12000, 18000, 24000, 36000, 48000, 54000>>)
OfdmRates ==
  Ofdm("OFDM", 20, <<6000, 9000, 12000, 18000, 24000, 36000, 48000, 54000>>)
OfdmRatesBW10MHz ==
  Ofdm("OFDM", 10, <<3000, 4500, 6000, 9000, 12000, 18000, 24000, 27000>>)
OfdmRatesBW5MHz ==
  Ofdm("OFDM", 5, <<1500, 2250, 3000, 4500, 6000, 9000, 12000, 13500>>)

Mcs(class, numbers) == [i \in numbers |-> [class |-> class, mcs |-> i]]

\* Eight for each stream: those of one and two streams, of three and four.
HtMcsLow == Mcs("HT", 0..15)
HtMcsHigh == Mcs("HT", 16..31)
HtMcs == [i \in 0..31 |-> IF i < 16 THEN HtMcsLow[i] ELSE HtMcsHigh[i]]
VhtMcs == Mcs("VHT", 0..9)
HeMcs == Mcs("HE", 0..11)

\* g_constructor makes every mode before the program begins.
Modes ==
  LET Of(f) == {f[i] : i \in DOMAIN f}
  IN  (UNION {Of(f) : f \in {DsssRates, ErpOfdmRates, OfdmRates, OfdmRatesBW10MHz, OfdmRatesBW5MHz}})
      \cup (UNION {Of(f) : f \in {HtMcs, VhtMcs, HeMcs}})
-----------------------------------------------------------------------------
\* External (WifiMode::GetDataRate): what is in a symbol of one stream.

BitsPerPoint(constellation) ==
  CHOOSE b \in 1..8 : constellation = <<2, 4, 8, 16, 32, 64, 128, 256>>[b]

\* Bits in a symbol: 48 subcarriers carry data in an OFDM symbol of any width.
OfdmBits(mode) ==
  (48 * BitsPerPoint(mode.constellation) * mode.code[1]) \div mode.code[2]

\* MCS 0 to 11 of a stream, whatever the class.
McsBitsAndCode ==
  << <<1, 1, 2>>, <<2, 1, 2>>, <<2, 3, 4>>, <<4, 1, 2>>, <<4, 3, 4>>, <<6, 2, 3>>,
     <<6, 3, 4>>, <<6, 5, 6>>, <<8, 3, 4>>, <<8, 5, 6>>, <<10, 3, 4>>, <<10, 5, 6>> >>

\* Data subcarriers of a width.
Subcarriers(class, width) ==
  IF class = "HE"
  THEN CASE width = 20 -> 234 [] width = 40 -> 468 [] width = 80 -> 980 [] width = 160 -> 1960
  ELSE CASE width = 20 -> 52 [] width = 40 -> 108 [] width = 80 -> 234 [] width = 160 -> 468

McsBits(mode, width, streams) ==
  LET row == McsBitsAndCode[1 + IF mode.class = "HT" THEN mode.mcs % 8 ELSE mode.mcs]
  IN  (Subcarriers(mode.class, width) * row[1] * streams * row[2]) \div row[3]
=============================================================================
