----------------------------- MODULE WifiDuration -----------------------------
(***************************************************************************)
(* How long a frame lasts (the duration functions of ns-3                  *)
(* wifi/model/wifi-phy.cc), and what WifiPhy keeps to make the frames of   *)
(* an A-MPDU last as long together as if they were sent as one: the size   *)
(* and the symbols of those that went before.                              *)
(*                                                                         *)
(* A vector says how a frame is sent.  The code counts symbols in doubles  *)
(* and time in femtoseconds cut to whole steps of the clock.  Here symbols *)
(* are counted in grains, the parts of a symbol that the double with their *)
(* sum tells apart; what lies between two grains or two steps becomes      *)
(* either of them.                                                         *)
(***************************************************************************)
EXTENDS WifiModes

CONSTANTS
  Vector,    \* the vectors frames are sent with
  Size,      \* bytes of a frame
  MaxFrames, \* the frames of an A-MPDU
  MaxCuts,   \* bound of the model: A-MPDUs in a row that are cut short
  Grain,     \* grains of a symbol
  Resolution \* steps of the clock in 200 ns

TxVector ==
  [mode : Modes, preamble : {"LONG", "SHORT", "HT_MF", "HT_GF", "VHT", "HE_SU"}, width : Nat,
   streams : Nat \ {0}, ness : Nat, gi : Nat, stbc : BOOLEAN, ghz : {2, 5}]

\* The preambles of a class of modes.
Preambles(class) ==
  CASE class \in {"DSSS", "HR_DSSS"} -> {"LONG", "SHORT"}
    [] class \in {"OFDM", "ERP_OFDM"} -> {"LONG"}
    [] class = "HT" -> {"HT_MF", "HT_GF"}
    [] class = "VHT" -> {"VHT"}
    [] class = "HE" -> {"HE_SU"}

\* External (WifiTxVector, WifiMode::GetDataRate): an MCS has rates for four widths.
ASSUME VectorAssumption ==
  /\ Vector \subseteq TxVector
  /\ \A v \in Vector : /\ v.preamble \in Preambles(v.mode.class)
                       /\ v.mode.class \in {"HT", "VHT", "HE"} => v.width \in {20, 40, 80, 160}
ASSUME SizeAssumption == Size \subseteq Nat \ {0} /\ {MaxFrames, Grain, Resolution} \subseteq Nat \ {0}

VARIABLES
  total,   \* m_totalAmpduSize
  symbols, \* m_totalAmpduNumSymbols
  ampdu,   \* history: the A-MPDU being sent: its vector, size, frames and time
  left,    \* history: total and symbols when it began, and the A-MPDUs cut short before
  last     \* history: what was just sent to its end, how long it took, and its left

durationVars == <<total, symbols, ampdu, left, last>>
-----------------------------------------------------------------------------
Micro(n) == 5 * n
Ceil(n, d) == (n + d - 1) \div d

\* What n / d may be rounded to.
Rounded(n, d) == {n \div d, Ceil(n, d)}
-----------------------------------------------------------------------------
(* The preamble and the header, in microseconds.                           *)

GetPlcpTrainingSymbolDuration(v) ==
  LET ndltf == CASE v.streams < 3 -> v.streams [] v.streams \in 3..4 -> 4
                 [] v.streams \in 5..6 -> 6 [] OTHER -> 8
      neltf == IF v.ness < 3 THEN v.ness ELSE 4
  IN  CASE v.preamble = "HT_MF" -> 4 + 4 * ndltf + 4 * neltf
        [] v.preamble = "HT_GF" -> 4 * ndltf + 4 * neltf
        [] v.preamble = "VHT" -> 4 + 4 * ndltf
        [] v.preamble = "HE_SU" -> 4 + 8 * ndltf
        [] OTHER -> 0

GetPlcpHtSigHeaderDuration(preamble) == IF preamble \in {"HT_MF", "HT_GF"} THEN 8 ELSE 0

\* SIG-A1 and SIG-A2 are alike.
GetPlcpSigADuration(preamble) == IF preamble \in {"VHT", "HE_SU"} THEN 4 ELSE 0

GetPlcpSigBDuration(preamble) == IF preamble = "VHT" THEN 4 ELSE 0

\* An OFDM symbol is slower on a narrow channel.
Slow(width) == CASE width = 10 -> 2 [] width = 5 -> 4 [] OTHER -> 1

ShortDsss(v) == v.preamble = "SHORT" /\ v.mode.kbps > 1000

GetPlcpHeaderDuration(v) ==
  CASE v.preamble = "NONE" -> 0
    [] v.preamble # "NONE" /\ v.mode.class = "OFDM" -> 4 * Slow(v.width)
    [] v.preamble # "NONE" /\ v.mode.class = "HT" -> IF v.preamble = "HT_GF" THEN 0 ELSE 4
    [] v.preamble # "NONE" /\ v.mode.class \in {"ERP_OFDM", "VHT"} -> 4
    [] v.preamble # "NONE" /\ v.mode.class = "HE" -> 8
    [] v.preamble # "NONE" /\ v.mode.class \in {"DSSS", "HR_DSSS"} ->
         IF ShortDsss(v) THEN 24 ELSE 48

\* The mode of the header; DSSS rates have their own.
GetPlcpHeaderMode(v) ==
  CASE v.mode.class \in {"OFDM", "HT", "VHT", "HE"} ->
         (CASE v.width = 5 -> OfdmRatesBW5MHz [] v.width = 10 -> OfdmRatesBW10MHz
            [] OTHER -> OfdmRates)[1]
    [] v.mode.class = "ERP_OFDM" -> ErpOfdmRates[1]
    [] v.mode.class \in {"DSSS", "HR_DSSS"} ->
         IF v.preamble = "LONG" \/ v.mode = DsssRates[1] THEN DsssRates[1] ELSE DsssRates[2]

GetPlcpPreambleDuration(v) ==
  CASE v.preamble = "NONE" -> 0
    [] v.preamble # "NONE" /\ v.mode.class = "OFDM" -> 16 * Slow(v.width)
    [] v.preamble # "NONE" /\ v.mode.class \in {"HT", "VHT", "HE", "ERP_OFDM"} -> 16
    [] v.preamble # "NONE" /\ v.mode.class \in {"DSSS", "HR_DSSS"} ->
         IF ShortDsss(v) THEN 72 ELSE 144

CalculatePlcpPreambleAndHeaderDuration(v) ==
  GetPlcpPreambleDuration(v) + GetPlcpHeaderDuration(v)
  + GetPlcpHtSigHeaderDuration(v.preamble) + 2 * GetPlcpSigADuration(v.preamble)
  + GetPlcpTrainingSymbolDuration(v) + GetPlcpSigBDuration(v.preamble)
-----------------------------------------------------------------------------
(* The payload.                                                            *)

\* VHT: Nes of each MCS.
NesOfMcs(width, streams) ==
  CASE width = 40 /\ streams = 3 -> <<1, 1, 1, 1, 1, 1, 1, 1, 2, 2>>
    [] width = 80 /\ streams = 2 -> <<1, 1, 1, 1, 1, 1, 1, 2, 2, 2>>
    [] width = 80 /\ streams = 3 -> <<1, 1, 1, 1, 1, 1, 1, 2, 2, 3>>
    [] <<width, streams>> \in {<<80, 4>>, <<160, 2>>} -> <<1, 1, 1, 1, 2, 2, 2, 3, 3, 3>>
    [] width = 160 /\ streams = 3 -> <<1, 1, 1, 2, 2, 3, 3, 4, 4, 4>>
    [] width = 160 /\ streams = 4 -> <<1, 1, 2, 2, 3, 4, 4, 6, 6, 6>>
    [] width = 160 /\ streams \notin 2..4 -> <<1, 1, 1, 1, 1, 1, 1, 2, 2, 2>>
    [] OTHER -> <<1, 1, 1, 1, 1, 1, 1, 1, 1, 1>>

\* The number of encoders.
Nes(v) ==
  CASE v.mode.class = "HT" /\ v.mode.mcs \in (21..23) \cup (28..31) -> 2
    [] v.mode.class = "VHT" -> NesOfMcs(v.width, v.streams)[1 + v.mode.mcs]
    [] OTHER -> 1

Stbc(v) == IF v.stbc /\ v.mode.class \in {"HT", "VHT"} THEN 2 ELSE 1

SymbolDuration(v) ==
  CASE v.mode.class \in {"OFDM", "ERP_OFDM"} -> Micro(4 * Slow(v.width))
    [] v.mode.class \in {"HT", "VHT"} -> (3200 + v.gi) \div 200
    [] v.mode.class = "HE" -> (12800 + v.gi) \div 200
    [] OTHER -> 0

NumDataBitsPerSymbol(v) ==
  IF v.mode.class \in {"OFDM", "ERP_OFDM"} THEN OfdmBits(v.mode)
  ELSE McsBits(v.mode, v.width, v.streams)

\* What size bytes take when nothing went before, in whole symbols.
WholeSymbols(v, size) ==
  Stbc(v) * Ceil(16 + 8 * size + 6 * Nes(v), Stbc(v) * NumDataBitsPerSymbol(v))

Dsss(v) == v.mode.class \in {"DSSS", "HR_DSSS"}

\* The grains of a frame; DSSS does without.
NumSymbols(v, size, type) ==
  CASE Dsss(v) -> {0}
    [] ~Dsss(v) /\ type = "FIRST" ->
         Rounded(Grain * (16 + 8 * size + 6 * Nes(v)), NumDataBitsPerSymbol(v))
    [] ~Dsss(v) /\ type = "NEXT" -> Rounded(Grain * 8 * size, NumDataBitsPerSymbol(v))
    [] ~Dsss(v) /\ type = "LAST" -> {Grain * WholeSymbols(v, total + size) - symbols}
    [] ~Dsss(v) /\ type = "NORMAL" -> {Grain * WholeSymbols(v, size)}

\* The signal extension of 2.4 GHz, once for an A-MPDU.
Extension(v, type) ==
  IF v.mode.class = "ERP_OFDM"
     \/ (v.mode.class \in {"HT", "HE"} /\ v.ghz = 2 /\ type \in {"NORMAL", "LAST"})
  THEN Micro(6) ELSE 0

\* The steps of a symbol.
SymbolTime(v) == Resolution * SymbolDuration(v)

\* n grains; FemtoSeconds drops what is less than a step.
GetPayloadDuration(v, size, type, n) ==
  IF Dsss(v) THEN {Resolution * Micro(Ceil(8000 * size, v.mode.kbps))}
  ELSE {t + Resolution * Extension(v, type) : t \in Rounded(n * SymbolTime(v), Grain)}

\* The frames of an A-MPDU but the first have no preamble.
Sent(v, type) == IF type \in {"NEXT", "LAST"} THEN [v EXCEPT !.preamble = "NONE"] ELSE v

CalculateTxDuration(v, size, type, n) ==
  {Resolution * Micro(CalculatePlcpPreambleAndHeaderDuration(Sent(v, type))) + t :
     t \in GetPayloadDuration(v, size, type, n)}
-----------------------------------------------------------------------------
NoAmpdu == [size |-> 0, frames |-> 0, time |-> 0]
NothingLeft == [size |-> 0, symbols |-> 0, cuts |-> 0]

DurationInit ==
  /\ total = 0 /\ symbols = 0
  /\ ampdu = NoAmpdu /\ left = NothingLeft /\ last = NoAmpdu

\* Bug: the size of the A-MPDU is not forgotten after its last frame.
BugTotalKept(size, type, n) ==
  /\ total' = IF type = "NORMAL" THEN total ELSE total + size
  /\ symbols' = CASE type = "LAST" -> 0 [] type \in {"FIRST", "NEXT"} -> symbols + n
                  [] type = "NORMAL" -> symbols

\* What is kept when a frame of n grains is sent (incFlag).
Account(size, type, n) ==
  /\ total' = CASE type = "LAST" -> 0 [] type \in {"FIRST", "NEXT"} -> total + size
                [] type = "NORMAL" -> total
  /\ symbols' = CASE type = "LAST" -> 0 [] type \in {"FIRST", "NEXT"} -> symbols + n
                  [] type = "NORMAL" -> symbols

Send(v, size, type) ==
  \E n \in NumSymbols(v, size, type) : \E time \in CalculateTxDuration(v, size, type, n) :
    LET so_far == [vector |-> v, size |-> ampdu.size + size, frames |-> ampdu.frames + 1,
                   time |-> ampdu.time + time]
    IN  /\ Account(size, type, n)
        /\ last' = IF type \in {"NORMAL", "LAST"}
                   THEN [sent |-> so_far, left |-> IF type = "LAST" THEN left ELSE NothingLeft]
                   ELSE NoAmpdu
        /\ ampdu' = IF type \in {"FIRST", "NEXT"} THEN so_far ELSE NoAmpdu
        /\ left' = IF type = "LAST" THEN NothingLeft ELSE left

Aggregates(v) == v.mode.class \in {"HT", "VHT", "HE"}

\* A byte is more than what the frames of an A-MPDU lose to rounding.
ASSUME GrainAssumption ==
  \A v \in Vector : Aggregates(v) => NumDataBitsPerSymbol(v) * MaxFrames <= 8 * Grain

SendNormal == ampdu = NoAmpdu /\ \E v \in Vector, size \in Size : Send(v, size, "NORMAL")

SendFirst ==
  /\ ampdu = NoAmpdu
  /\ \E v \in {v \in Vector : Aggregates(v)}, size \in Size : Send(v, size, "FIRST")

SendNext ==
  /\ ampdu # NoAmpdu /\ ampdu.frames < MaxFrames - 1
  /\ \E size \in Size : Send(ampdu.vector, size, "NEXT")

\* NS_ASSERT: an A-MPDU has the symbols that are counted before its last frame.
Holds(size) == symbols <= Grain * WholeSymbols(ampdu.vector, total + size)

\* The program ends where the assertion fails.
SendLast ==
  ampdu # NoAmpdu /\ \E size \in Size : Holds(size) /\ Send(ampdu.vector, size, "LAST")

\* The radio sleeps before the last frame: what is left of the A-MPDU is dropped
\* before its duration is taken (SendPacket), and what went before stays counted.
DropRest ==
  /\ ampdu # NoAmpdu /\ left.cuts < MaxCuts
  /\ left' = [size |-> total, symbols |-> symbols, cuts |-> left.cuts + 1]
  /\ ampdu' = NoAmpdu /\ last' = NoAmpdu
  /\ UNCHANGED <<total, symbols>>

DurationNext == SendNormal \/ SendFirst \/ SendNext \/ SendLast \/ DropRest

DurationSpec == DurationInit /\ [][DurationNext]_durationVars
-----------------------------------------------------------------------------
\* The bits of a header: the signal field of OFDM, twice in HE; the header of DSSS.
HeaderBits(v) ==
  CASE v.preamble \in {"NONE", "HT_GF"} -> 0
    [] v.preamble \notin {"NONE", "HT_GF"} /\ v.mode.class \in {"HE", "DSSS", "HR_DSSS"} -> 48
    [] OTHER -> 24

\* Grain times a time is n, but for a step of the clock in each frame.
Within(n, frames) == n \in -(Grain * frames) .. Grain * frames

\* What was sent as a, with left as l when it began, lasted as long as one frame of
\* the size of both, less the symbols of l.
Lasts(a, l) ==
  LET v == a.vector
      size == l.size + a.size
  IN  /\ GetPlcpHeaderDuration(v) * GetPlcpHeaderMode(v).kbps = 1000 * HeaderBits(v)
      /\ \A n \in NumSymbols(v, size, "NORMAL") :
         \A whole \in CalculateTxDuration(v, size, "NORMAL", n) :
           /\ Within(Grain * (whole - a.time) - SymbolTime(v) * l.symbols, a.frames)
           /\ whole > Resolution * Micro(CalculatePlcpPreambleAndHeaderDuration(v))

\* The frames of an A-MPDU together last as long as one frame of their size, to a
\* step of the clock for each of them, though only the last is rounded up to a symbol
\* and gets the signal extension.  When the A-MPDUs before were cut short they last as
\* long as one frame of the size of all, less the symbols counted for those before.
\* With nothing left of those the symbols that went before are never more than the
\* A-MPDU has: the assertion at wifi-phy.cc 2210 holds.  A header lasts as long as its
\* bits take in the mode that is used to tell whether it can be decoded, and ends
\* before its frame.
AmpduIsWhole ==
  /\ last # NoAmpdu => Lasts(last.sent, last.left)
  /\ ampdu # NoAmpdu /\ left = NothingLeft => \A size \in Size : Holds(size)
=============================================================================
