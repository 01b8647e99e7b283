---------------------------- MODULE WifiPhyProofs ----------------------------
(***************************************************************************)
(* The radio's reception and its changes of channel, for any frames, times, *)
(* channels and postponed calls.                                           *)
(***************************************************************************)
EXTENDS WifiPhy, DataLemmas

Mode == {"LISTEN", "RX", "TX", "SWITCHING", "SLEEP", "OFF"}

Event == [frame : Frame \cup {None}, left : Nat]

Radio == [mode : Mode, left : Nat, cca : Nat, current : Frame \cup {None},
          plcp : BOOLEAN, mpdus : Int, plcpEnd : Event, rxEnd : Event]

\* The calls that may be put off.
Call == {<<"SetSleepMode">>}
        \cup {"SetChannelNumber"} \X (Number \cup {0})
        \cup {"SetFrequency"} \X (Frequency \cup {0})

Later == [call : Call, left : Int]

Tuning == [standard : Standard, number : Int, frequency : Int, width : Int, alone : BOOLEAN]

\* Every variable has its type.
PhyTypeOK ==
  /\ phy \in Radio
  /\ tuned \in Tuning
  /\ postponed \subseteq Later

\* ReceptionScheduled of a radio p.
Scheduled(p) ==
  /\ p.mode = "RX" <=> p.rxEnd.frame # None
  /\ p.mode = "RX" => p.current = p.rxEnd.frame /\ p.left = p.rxEnd.left
  /\ p.plcpEnd.frame # None =>
       p.plcpEnd.frame = p.rxEnd.frame /\ p.plcpEnd.left < p.rxEnd.left

PhyInv == PhyTypeOK /\ Scheduled(phy) /\ OwnHeader

-----------------------------------------------------------------------------
(* What the helpers make of a radio p.                                     *)

LEMMA IdleEvent == Idle \in Event
BY DEF Idle, Event

\* Only the end of a busy medium moves.
LEMMA BusyKeeps ==
  ASSUME NEW p \in Radio, Scheduled(p), NEW busy \in Nat
  PROVE  LET q == MaybeCcaBusy(p, busy)
         IN /\ q \in Radio /\ Scheduled(q)
            /\ q.rxEnd = p.rxEnd /\ q.plcpEnd = p.plcpEnd /\ q.plcp = p.plcp
BY DEF MaybeCcaBusy, Radio, Scheduled

\* A radio that gives up its reception has no event of it left, whatever it does next.
LEMMA CancelKeeps ==
  ASSUME NEW p \in Radio, NEW mode \in Mode \ {"RX"}, NEW duration \in Nat
  PROVE  LET q == SwitchTo(CancelReception(p), mode, duration)
         IN /\ q \in Radio /\ Scheduled(q)
            /\ q.mode = mode /\ q.rxEnd = Idle /\ q.plcpEnd = Idle
<1> DEFINE c == CancelReception(p)
<1> DEFINE q == SwitchTo(c, mode, duration)
<1>1. c \in Radio
  BY IdleEvent DEF CancelReception, Radio
<1>2. c.rxEnd = Idle /\ c.plcpEnd = Idle
  BY DEF CancelReception, Radio
<1>3. /\ q \in Radio /\ q.mode = mode
      /\ q.rxEnd = Idle /\ q.plcpEnd = Idle
  <2> HIDE DEF c
  <2> QED
    BY <1>1, <1>2 DEF SwitchTo, Radio
<1>4. Scheduled(q)
  <2> HIDE DEF q
  <2> QED
    BY <1>3 DEF Scheduled, Idle
<1> QED
  BY <1>3, <1>4

\* The header is forgotten.
LEMMA PlcpCleared ==
  ASSUME NEW p \in Radio, Scheduled(p)
  PROVE  LET q == [p EXCEPT !.plcp = FALSE]
         IN /\ q \in Radio /\ Scheduled(q) /\ q.mode = p.mode
            /\ q.rxEnd = p.rxEnd /\ q.plcpEnd = p.plcpEnd /\ ~q.plcp
BY DEF Radio, Scheduled

-----------------------------------------------------------------------------
(* A frame arrives.                                                        *)

\* What the arrival of f may make of the events of radio p: nothing, the end of its
\* reception, or the reception of f, whose header is still to come if it has one.
Arrived(p, q, f) ==
  /\ q \in Radio /\ Scheduled(q)
  /\ \/ q.rxEnd = p.rxEnd /\ q.plcpEnd = p.plcpEnd /\ (q.plcp => p.plcp)
     \/ q.rxEnd.frame = None
     \/ q.rxEnd.frame = f /\ (f.preamble => q.plcpEnd.frame = f)

LEMMA StartRxArrived ==
  ASSUME NEW p \in Radio, Scheduled(p), p.mode = "LISTEN", NEW f \in Frame, NEW busy \in Nat
  PROVE  Arrived(p, StartRx(p, f, busy), f)
<1>1. CASE ~f.strong
  <2> DEFINE r == [p EXCEPT !.plcp = FALSE]
  <2>1. r \in Radio /\ Scheduled(r) /\ r.rxEnd = p.rxEnd /\ r.plcpEnd = p.plcpEnd /\ ~r.plcp
    BY PlcpCleared
  <2>2. StartRx(p, f, busy) = MaybeCcaBusy(r, busy)
    BY <1>1 DEF StartRx
  <2> HIDE DEF r
  <2> QED
    BY <2>1, <2>2, BusyKeeps DEF Arrived
<1>2. CASE f.strong /\ ~f.preamble /\ (p.mpdus = 0 \/ ~p.plcp)
  <2> DEFINE r == [p EXCEPT !.plcp = FALSE, !.mpdus = 0]
  <2>0. /\ r \in Radio /\ r.mode = p.mode
        /\ r.rxEnd = p.rxEnd /\ r.plcpEnd = p.plcpEnd /\ ~r.plcp
    <3> DEFINE cleared == [p EXCEPT !.plcp = FALSE]
    <3>1. /\ cleared \in Radio /\ cleared.mode = p.mode
          /\ cleared.rxEnd = p.rxEnd /\ cleared.plcpEnd = p.plcpEnd /\ ~cleared.plcp
      BY PlcpCleared
    <3>2. r = [cleared EXCEPT !.mpdus = 0]
      OBVIOUS
    <3> HIDE DEF cleared, r
    <3> QED
      BY <3>1, <3>2 DEF Radio
  <2>1. Scheduled(r)
    <3> HIDE DEF r
    <3> QED
      BY <2>0 DEF Scheduled
  <2>2. StartRx(p, f, busy) = MaybeCcaBusy(r, busy)
    BY <1>2 DEF StartRx
  <2> HIDE DEF r
  <2> QED
    BY <2>0, <2>1, <2>2, BusyKeeps DEF Arrived
<1>3. CASE f.strong /\ ~(~f.preamble /\ (p.mpdus = 0 \/ ~p.plcp))
  <2> DEFINE q == Sync(p, f)
  <2>1. StartRx(p, f, busy) = q
    BY <1>3 DEF StartRx
  <2>2. /\ f.length \in Nat \ {0} /\ f.rest \in Nat /\ f.preamble \in BOOLEAN
        /\ f.preamble => f.length > Header
        /\ Header \in Nat /\ f # None
    BY FrameAssumption, DurationAssumption
  <2>3. MpdusAfter(p, f) \in Int
    BY <2>2 DEF MpdusAfter, Radio
  <2>4. /\ [frame |-> f, left |-> Header] \in Event
        /\ [frame |-> f, left |-> f.length] \in Event
        /\ p.plcpEnd \in Event /\ p.plcpEnd.frame = None
    BY <2>2 DEF Event, Radio, Scheduled
  <2>5. SwitchTo(p, "RX", f.length) \in Radio /\ SwitchTo(p, "RX", f.length).mode = "RX"
        /\ SwitchTo(p, "RX", f.length).left = f.length
        /\ SwitchTo(p, "RX", f.length).plcpEnd = p.plcpEnd
    BY <2>2 DEF SwitchTo, Radio, Mode
  <2>6. /\ q \in Radio /\ q.mode = "RX" /\ q.left = f.length /\ q.current = f
        /\ q.rxEnd = [frame |-> f, left |-> f.length]
        /\ q.plcpEnd = IF f.preamble THEN [frame |-> f, left |-> Header] ELSE p.plcpEnd
    BY <2>3, <2>4, <2>5 DEF Sync, Radio
  <2> HIDE DEF q
  <2> QED
    BY <2>1, <2>2, <2>4, <2>6 DEF Arrived, Scheduled
<1> QED
  BY <1>1, <1>2, <1>3

LEMMA NoiseArrived ==
  ASSUME NEW p \in Radio, Scheduled(p), NEW f \in Frame, NEW busy \in Nat
  PROVE  Arrived(p, Noise(p, f, busy), f)
BY BusyKeeps DEF Noise, Arrived

\* A radio that differs in its header only.
LEMMA ArrivedAfterFailed ==
  ASSUME NEW p, NEW q, NEW r, NEW f, Arrived(r, q, f),
         r.rxEnd = p.rxEnd, r.plcpEnd = p.plcpEnd, r.plcp => p.plcp
  PROVE  Arrived(p, q, f)
BY DEF Arrived

LEMMA ArriveArrived ==
  ASSUME NEW p \in Radio, Scheduled(p), p.mode # "OFF", NEW f \in Frame, NEW busy \in Nat,
         NEW captured \in BOOLEAN
  PROVE  Arrived(p, Arrive(p, f, busy, captured), f)
<1>0. p.mode \in Mode /\ p.cca \in Nat
  BY DEF Radio
<1>1. CASE p.mode = "LISTEN"
  <2>1. GetState(p) \in {"IDLE", "CCA_BUSY"}
    BY <1>1 DEF GetState
  <2>2. Arrive(p, f, busy, captured) = StartRx(p, f, busy)
    BY <2>1 DEF Arrive
  <2> QED
    BY <1>1, <2>2, StartRxArrived
<1>2. CASE p.mode = "RX"
  <2>0. GetState(p) = "RX"
    BY <1>2 DEF GetState
  <2>1. CASE captured
    <3> DEFINE c == SwitchTo(CancelReception(p), "LISTEN", 0)
    <3> DEFINE r == AbortCurrentReception(p)
    <3>1. c \in Radio /\ Scheduled(c) /\ c.mode = "LISTEN" /\ c.rxEnd = Idle /\ c.plcpEnd = Idle
      BY CancelKeeps DEF Mode
    <3>2. r = [c EXCEPT !.current = None]
      BY DEF AbortCurrentReception
    <3> HIDE DEF c, r
    <3>3. r \in Radio /\ Scheduled(r) /\ r.mode = "LISTEN" /\ r.rxEnd = Idle /\ r.plcpEnd = Idle
      BY <3>1, <3>2 DEF Radio, Scheduled
    <3>4. Arrive(p, f, busy, captured) = StartRx(r, f, busy)
      BY <2>0, <2>1 DEF Arrive, r
    <3>5. Arrived(r, StartRx(r, f, busy), f)
      BY <3>3, StartRxArrived
    <3> QED
      BY <3>3, <3>4, <3>5 DEF Arrived, Idle
  <2>2. CASE ~captured
    BY <2>0, <2>2, NoiseArrived DEF Arrive
  <2> QED
    BY <2>1, <2>2
<1>3. CASE p.mode = "TX"
  <2>0. GetState(p) = "TX"
    BY <1>3 DEF GetState
  <2> QED
    BY <2>0, NoiseArrived DEF Arrive
<1>4. CASE p.mode \in {"SWITCHING", "SLEEP"}
  <2>0. GetState(p) = p.mode
    BY <1>4 DEF GetState
  <2> DEFINE r == [p EXCEPT !.plcp = FALSE]
  <2>1. r \in Radio /\ Scheduled(r) /\ r.rxEnd = p.rxEnd /\ r.plcpEnd = p.plcpEnd /\ ~r.plcp
    BY PlcpCleared
  <2>2. Arrive(p, f, busy, captured) = IF p.mode = "SWITCHING" THEN Noise(r, f, busy) ELSE r
    BY <1>4, <2>0 DEF Arrive
  <2> HIDE DEF r
  <2>3. Arrived(p, Noise(r, f, busy), f)
    BY <2>1, NoiseArrived, ArrivedAfterFailed
  <2>4. Arrived(p, r, f)
    BY <2>1 DEF Arrived
  <2> QED
    BY <2>2, <2>3, <2>4
<1> QED
  BY <1>0, <1>1, <1>2, <1>3, <1>4 DEF Mode

LEMMA ArriveAnyArrived ==
  ASSUME NEW p \in Radio, Scheduled(p), NEW f \in Frame, NEW busy \in Nat,
         NEW captured \in BOOLEAN
  PROVE  Arrived(p, ArriveAny(p, f, busy, captured), f)
<1> DEFINE r == [p EXCEPT !.plcp = FALSE]
<1>1. /\ r \in Radio /\ Scheduled(r) /\ r.mode = p.mode
      /\ r.rxEnd = p.rxEnd /\ r.plcpEnd = p.plcpEnd /\ ~r.plcp
  BY PlcpCleared
<1>2. ArriveAny(p, f, busy, captured) =
        IF p.mode = "OFF" THEN p
        ELSE IF ~f.complete THEN r
        ELSE IF f.fits THEN Arrive(p, f, busy, captured)
        ELSE IF f.length > GetDelayUntilIdle(p) THEN MaybeCcaBusy(r, busy)
        ELSE Arrive(r, f, busy, captured)
  BY DEF ArriveAny
<1> HIDE DEF r
<1>3. Arrived(p, p, f) /\ Arrived(p, r, f)
  BY <1>1 DEF Arrived
<1>4. Arrived(p, MaybeCcaBusy(r, busy), f)
  BY <1>1, BusyKeeps DEF Arrived
<1>5. p.mode # "OFF" => Arrived(p, Arrive(p, f, busy, captured), f)
  BY ArriveArrived
<1>6. p.mode # "OFF" => Arrived(p, Arrive(r, f, busy, captured), f)
  BY <1>1, ArriveArrived, ArrivedAfterFailed
<1> QED
  BY <1>2, <1>3, <1>4, <1>5, <1>6

-----------------------------------------------------------------------------
(* The channel number and the row it has.                                  *)

\* A row has a number, a frequency that is not 0, and a width.
LEMMA TableRows ==
  /\ DOMAIN Table \subseteq (1..184) \X {"80211b", "80211_10MHZ", "UNSPECIFIED"}
  /\ \A k \in DOMAIN Table : Table[k] \in (Int \ {0}) \X Int
<1> DEFINE Names == {"80211b", "80211_10MHZ", "UNSPECIFIED"}
           D == {c \in (1..184) \X Names : \E width \in Widths : c[1] \in Channels(c[2], width)}
           W(k) == CHOOSE width \in Widths : k[1] \in Channels(k[2], width)
<1>1. Table = [k \in D |-> <<FrequencyOf(k[1]), W(k)>>]
  BY DEF Table, InitialTable
<1>2. D \subseteq (1..184) \X Names
  OBVIOUS
<1>3. \A n \in 1..184 : FrequencyOf(n) \in Int \ {0}
  BY DEF FrequencyOf
<1>4. \A k \in D : FrequencyOf(k[1]) \in Int \ {0} /\ W(k) \in Int
  BY <1>2, <1>3 DEF Widths
<1> HIDE DEF D, W
<1> QED
  BY <1>1, <1>2, <1>4

\* The row of a number, unless there is none, is one of that number.
LEMMA RowFound ==
  ASSUME NEW n, NEW s, RowFor(Table, n, s) # NoRow
  PROVE  \E k \in DOMAIN Table : k[1] = n /\ Table[k] = RowFor(Table, n, s)
<1>1. CASE RowFor(Table, n, s) = Table[<<n, s>>] /\ <<n, s>> \in DOMAIN Table
  <2> DEFINE k == <<n, s>>
  <2>1. k[1] = n
    OBVIOUS
  <2> QED
    BY <1>1, <2>1
<1>2. CASE /\ RowFor(Table, n, s) = Table[<<n, "UNSPECIFIED">>]
           /\ <<n, "UNSPECIFIED">> \in DOMAIN Table
  <2> DEFINE k == <<n, "UNSPECIFIED">>
  <2>1. k[1] = n
    OBVIOUS
  <2> QED
    BY <1>2, <2>1
<1>3. \/ RowFor(Table, n, s) = Table[<<n, s>>] /\ <<n, s>> \in DOMAIN Table
      \/ /\ RowFor(Table, n, s) = Table[<<n, "UNSPECIFIED">>]
         /\ <<n, "UNSPECIFIED">> \in DOMAIN Table
      \/ RowFor(Table, n, s) = NoRow
  BY DEF RowFor
<1> QED
  BY <1>1, <1>2, <1>3

\* A number that the search answers is that of a row that was searched.
LEMMA SearchFinds ==
  ASSUME NEW f, NEW width, FindChannelNumberForFrequencyWidth(Table, f, width) # 0
  PROVE  \E k \in DOMAIN Table :
           k[1] = FindChannelNumberForFrequencyWidth(Table, f, width) /\ Table[k] = <<f, width>>
<1> DEFINE found == {k[1] : k \in {k \in DOMAIN Table : Table[k] = <<f, width>>}}
<1>1. found \in SUBSET Nat
  BY TableRows
<1>2. found # {} /\ FindChannelNumberForFrequencyWidth(Table, f, width) = Min(found)
  BY DEF FindChannelNumberForFrequencyWidth
<1>3. Min(found) \in found
  <2> HIDE DEF found
  <2>1. \E x \in found : \A y \in found : x <= y
    BY <1>1, <1>2, LeastNatural
  <2> QED
    BY <2>1 DEF Min
<1> QED
  BY <1>2, <1>3

\* What SetChannelNumber and FindChannelNumberForFrequencyWidth answer.
LEMMA OnRowType ==
  ASSUME NEW s \in Standard, NEW n \in Int
  PROVE  OnRow(s, n) \in Tuning
<1>1. RowFor(Table, n, s) = NoRow \/ RowFor(Table, n, s) \in (Int \ {0}) \X Int
  BY RowFound, TableRows
<1>2. RowFor(Table, n, s)[1] \in Int /\ RowFor(Table, n, s)[2] \in Int
  BY <1>1 DEF NoRow
<1> QED
  BY <1>2 DEF OnRow, Tuning

LEMMA SearchType ==
  ASSUME NEW f, NEW width
  PROVE  FindChannelNumberForFrequencyWidth(Table, f, width) \in Int
<1>1. CASE FindChannelNumberForFrequencyWidth(Table, f, width) = 0
  BY <1>1
<1>2. CASE FindChannelNumberForFrequencyWidth(Table, f, width) # 0
  <2>1. PICK k \in DOMAIN Table : k[1] = FindChannelNumberForFrequencyWidth(Table, f, width)
    BY <1>2, SearchFinds
  <2>2. k \in (1..184) \X {"80211b", "80211_10MHZ", "UNSPECIFIED"}
    BY TableRows
  <2> QED
    BY <2>1, <2>2
<1> QED
  BY <1>1, <1>2

-----------------------------------------------------------------------------
(* The steps.                                                              *)

LEMMA PhyInit_Inv == Init => PhyInv
<1> SUFFICES ASSUME Init PROVE PhyInv
  OBVIOUS
<1>1. phy \in Radio
  BY IdleEvent DEF Init, Radio, Mode
<1>2. Scheduled(phy) /\ OwnHeader
  BY DEF Init, Scheduled, OwnHeader, Idle
<1>3. tuned \in Tuning
  <2>1. PICK s \in Standard, n \in Number : tuned = OnRow(s, n)
    BY DEF Init
  <2> QED
    BY <2>1, OnRowType, ChannelAssumption
<1> QED
  BY <1>1, <1>2, <1>3 DEF Init, PhyInv, PhyTypeOK

LEMMA ArriveInv ==
  ASSUME PhyInv, StartReceivePreambleAndHeader
  PROVE  PhyInv'
<1> PICK f \in Frame, busy \in 0..MaxBusy, captured \in BOOLEAN :
      /\ phy' = ArriveAny(phy, f, busy, captured)
      /\ header' = IF phy'.rxEnd # phy.rxEnd /\ f.preamble THEN None ELSE header
      /\ UNCHANGED <<tuned, postponed>>
  BY DEF StartReceivePreambleAndHeader
<1>1. busy \in Nat
  BY DurationAssumption
<1>2. Arrived(phy, phy', f)
  BY <1>1, ArriveAnyArrived DEF PhyInv, PhyTypeOK
<1>3. f # None
  BY FrameAssumption
<1>4. OwnHeader'
  BY <1>2, <1>3 DEF PhyInv, Arrived, OwnHeader
<1> QED
  BY <1>2, <1>4 DEF PhyInv, PhyTypeOK, Arrived

LEMMA HeaderInv ==
  ASSUME PhyInv, StartReceivePacket
  PROVE  PhyInv'
<1> PICK decoded \in BOOLEAN :
      /\ phy.plcpEnd.frame # None
      /\ phy' = [phy EXCEPT !.plcpEnd = Idle, !.plcp = decoded]
      /\ header' = IF decoded THEN phy.plcpEnd.frame ELSE header
      /\ UNCHANGED <<tuned, postponed>>
  BY DEF StartReceivePacket
<1>1. phy \in Radio /\ Scheduled(phy)
  BY DEF PhyInv, PhyTypeOK
<1>2. /\ phy' \in Radio /\ phy'.mode = phy.mode /\ phy'.left = phy.left
      /\ phy'.current = phy.current /\ phy'.rxEnd = phy.rxEnd
      /\ phy'.plcpEnd = Idle /\ phy'.plcp = decoded
  BY <1>1, IdleEvent DEF Radio
<1>3. Scheduled(phy')
  BY <1>1, <1>2 DEF Scheduled, Idle
<1>4. OwnHeader'
  BY <1>1, <1>2 DEF Scheduled, OwnHeader
<1> QED
  BY <1>2, <1>3, <1>4 DEF PhyInv, PhyTypeOK

LEMMA EndReceiveInv ==
  ASSUME PhyInv, EndReceive
  PROVE  PhyInv'
<1> DEFINE f == phy.rxEnd.frame
<1> DEFINE c == SwitchTo(phy, "LISTEN", 0)
<1> DEFINE decoded == phy.plcp /\ (f.preamble \/ ~f.last)
<1>1. phy \in Radio /\ Scheduled(phy) /\ f # None /\ phy.rxEnd.left = 0
  BY DEF PhyInv, PhyTypeOK, EndReceive
<1>2. c \in Radio /\ c.mode = "LISTEN" /\ c.plcpEnd = phy.plcpEnd /\ c.plcp = phy.plcp
  BY <1>1 DEF SwitchTo, Radio, Mode
<1>3. phy' = [c EXCEPT !.rxEnd = Idle, !.current = None, !.plcp = decoded]
  BY <1>2 DEF EndReceive
<1>4. phy.plcpEnd.frame = None
  BY <1>1 DEF Scheduled, Radio, Event
<1>5. decoded \in BOOLEAN
  OBVIOUS
<1>6. phy' \in Radio /\ phy'.mode = "LISTEN" /\ phy'.rxEnd = Idle /\ phy'.plcpEnd.frame = None
  <2> HIDE DEF c, decoded
  <2> QED
    BY <1>2, <1>3, <1>4, <1>5, IdleEvent DEF Radio
<1>7. Scheduled(phy') /\ OwnHeader'
  BY <1>6 DEF Scheduled, OwnHeader, Idle
<1> QED
  BY <1>6, <1>7 DEF PhyInv, PhyTypeOK, EndReceive

\* A step after which the radio has no reception.
LEMMA NoReceptionInv ==
  ASSUME PhyTypeOK', Scheduled(phy'), phy'.rxEnd.frame = None
  PROVE  PhyInv'
BY DEF PhyInv, OwnHeader

LEMMA SendPacketInv ==
  ASSUME PhyInv, SendPacket
  PROVE  PhyInv'
<1> PICK d \in TxDuration, off \in BOOLEAN :
      phy' = SwitchTo(CancelReception(phy), IF off THEN "OFF" ELSE "TX", IF off THEN 0 ELSE d)
  BY DEF SendPacket
<1>1. /\ (IF off THEN "OFF" ELSE "TX") \in Mode \ {"RX"}
      /\ (IF off THEN 0 ELSE d) \in Nat
  BY DurationAssumption DEF Mode
<1>2. phy' \in Radio /\ Scheduled(phy') /\ phy'.rxEnd = Idle
  BY <1>1, CancelKeeps DEF PhyInv, PhyTypeOK
<1> QED
  BY <1>2, NoReceptionInv DEF PhyInv, PhyTypeOK, SendPacket, Idle

LEMMA SetOffModeInv ==
  ASSUME PhyInv, SetOffMode
  PROVE  PhyInv'
<1>1. phy' \in Radio /\ Scheduled(phy') /\ phy'.rxEnd = Idle
  BY CancelKeeps DEF PhyInv, PhyTypeOK, SetOffMode, Mode
<1> QED
  BY <1>1, NoReceptionInv DEF PhyInv, PhyTypeOK, SetOffMode, Idle

LEMMA ResumeInv ==
  ASSUME PhyInv, NEW mode \in {"SLEEP", "OFF"}, Resume(mode)
  PROVE  PhyInv'
<1> PICK busy \in 0..MaxBusy : phy' = MaybeCcaBusy(SwitchTo(phy, "LISTEN", 0), busy)
  BY DEF Resume
<1> DEFINE c == SwitchTo(phy, "LISTEN", 0)
<1>1. phy \in Radio /\ Scheduled(phy) /\ phy.mode = mode /\ busy \in Nat
  BY DurationAssumption DEF PhyInv, PhyTypeOK, Resume
<1>2. c \in Radio /\ c.mode = "LISTEN" /\ c.rxEnd = phy.rxEnd /\ c.plcpEnd = phy.plcpEnd
  BY <1>1 DEF SwitchTo, Radio, Mode
<1>3. phy.rxEnd.frame = None
  BY <1>1 DEF Scheduled
<1> HIDE DEF c
<1>4. Scheduled(c)
  BY <1>1, <1>2, <1>3 DEF Scheduled
<1>5. phy' \in Radio /\ Scheduled(phy') /\ phy'.rxEnd.frame = None
  BY <1>1, <1>2, <1>3, <1>4, BusyKeeps DEF c
<1> QED
  BY <1>5, NoReceptionInv DEF PhyInv, PhyTypeOK, Resume

-----------------------------------------------------------------------------
(* Calls, and calls that come again.                                       *)

\* The step of RetuneSwitches.
Retunes ==
  tuned'.frequency \notin {tuned.frequency, 0} =>
    /\ phy.mode \notin {"TX", "SWITCHING"} /\ phy'.mode = "SWITCHING"
    /\ phy'.rxEnd = Idle /\ phy'.plcpEnd = Idle

LEMMA PostponeType ==
  ASSUME PhyTypeOK, NEW rest \in SUBSET Later, NEW call \in Call, Postpone(call, rest)
  PROVE  postponed' \subseteq Later
<1>1. GetDelayUntilIdle(phy) \in Nat
  BY DEF PhyTypeOK, GetDelayUntilIdle, Radio
<1> QED
  BY <1>1 DEF Postpone, Later

LEMMA SetSleepModeInv ==
  ASSUME PhyInv, NEW rest \in SUBSET Later, SetSleepMode(rest)
  PROVE  PhyInv' /\ Retunes
<1>0. phy \in Radio /\ Scheduled(phy) /\ UNCHANGED <<tuned, header>> /\ PhyTypeOK
  BY DEF PhyInv, PhyTypeOK, SetSleepMode
<1>1. Retunes
  BY <1>0 DEF Retunes
<1>2. postponed' \subseteq Later
  BY <1>0, PostponeType DEF SetSleepMode, Call
<1>3. CASE UNCHANGED phy
  BY <1>0, <1>1, <1>2, <1>3 DEF PhyInv, PhyTypeOK, OwnHeader
<1>4. CASE phy.mode = "LISTEN" /\ phy' = SwitchTo(phy, "SLEEP", 0)
  <2>1. /\ phy' \in Radio /\ phy'.mode = "SLEEP"
        /\ phy'.rxEnd = phy.rxEnd /\ phy'.plcpEnd = phy.plcpEnd
    BY <1>0, <1>4 DEF SwitchTo, Radio, Mode
  <2>2. Scheduled(phy') /\ phy'.rxEnd.frame = None
    BY <1>0, <1>4, <2>1 DEF Scheduled
  <2> QED
    BY <1>0, <1>1, <1>2, <2>1, <2>2, NoReceptionInv DEF PhyTypeOK
<1> QED
  BY <1>3, <1>4 DEF SetSleepMode

\* A switch gives up the reception there is, or nothing of the radio changes.
LEMMA SwitchInv ==
  ASSUME PhyInv, NEW rest \in SUBSET Later, NEW call \in Call, NEW retuned, NEW otherwise,
         retuned \in Tuning, otherwise \in Tuning, Switch(call, retuned, otherwise, rest),
         otherwise.frequency \in {tuned.frequency, 0}
  PROVE  PhyInv' /\ Retunes
<1>0. phy \in Radio /\ Scheduled(phy) /\ UNCHANGED header /\ PhyTypeOK
  BY DEF PhyInv, PhyTypeOK, Switch
<1>1. CASE /\ phy.mode \in {"RX", "LISTEN"}
           /\ phy' = [SwitchTo(CancelReception(phy), "SWITCHING", SwitchDelay) EXCEPT !.cca = 0]
           /\ tuned' = retuned
           /\ postponed' = rest
  <2> DEFINE c == SwitchTo(CancelReception(phy), "SWITCHING", SwitchDelay)
  <2>1. c \in Radio /\ Scheduled(c) /\ c.mode = "SWITCHING" /\ c.rxEnd = Idle /\ c.plcpEnd = Idle
    BY <1>0, CancelKeeps, DurationAssumption DEF Mode
  <2> HIDE DEF c
  <2>2. /\ phy' \in Radio /\ phy'.mode = "SWITCHING"
        /\ phy'.rxEnd = Idle /\ phy'.plcpEnd = Idle
    BY <1>1, <2>1 DEF Radio, c
  <2>3. Scheduled(phy')
    BY <2>2 DEF Scheduled, Idle
  <2>4. PhyTypeOK'
    BY <1>1, <2>2 DEF PhyTypeOK
  <2> QED
    BY <1>1, <2>2, <2>3, <2>4, NoReceptionInv DEF Retunes, Idle
<1>2. CASE UNCHANGED phy /\ tuned' = otherwise /\ (postponed' = rest \/ Postpone(call, rest))
  <2>1. postponed' \subseteq Later
    BY <1>0, <1>2, PostponeType
  <2> QED
    BY <1>0, <1>2, <2>1 DEF PhyInv, PhyTypeOK, OwnHeader, Retunes
<1> QED
  BY <1>1, <1>2 DEF Switch

LEMMA IgnoreInv ==
  ASSUME PhyInv, NEW rest \in SUBSET Later, Ignore(rest)
  PROVE  PhyInv' /\ Retunes
BY DEF Ignore, PhyInv, PhyTypeOK, OwnHeader, Retunes

LEMMA SetChannelNumberInv ==
  ASSUME PhyInv, NEW rest \in SUBSET Later, NEW n \in Number \cup {0}, SetChannelNumber(n, rest)
  PROVE  PhyInv' /\ Retunes
<1> DEFINE retuned == OnRow(tuned.standard, n)
<1>0. tuned \in Tuning /\ PhyTypeOK
  BY DEF PhyInv, PhyTypeOK
<1>1. CASE Ignore(rest)
  BY <1>1, IgnoreInv
<1>2. CASE /\ tuned' = [tuned EXCEPT !.number = 0] /\ postponed' = rest
           /\ UNCHANGED <<phy, header>>
  <2>1. tuned' \in Tuning /\ tuned'.frequency = tuned.frequency
    BY <1>0, <1>2 DEF Tuning
  <2> QED
    BY <1>0, <1>2, <2>1 DEF PhyInv, PhyTypeOK, OwnHeader, Retunes
<1>3. CASE Switch(<<"SetChannelNumber", n>>, retuned, tuned, rest)
  <2>1. retuned \in Tuning
    <3>1. tuned.standard \in Standard
      BY <1>0 DEF Tuning
    <3> QED
      BY <3>1, OnRowType, ChannelAssumption
  <2>2. <<"SetChannelNumber", n>> \in Call
    BY DEF Call
  <2> HIDE DEF retuned
  <2> QED
    BY <1>0, <1>3, <2>1, <2>2, SwitchInv
<1> QED
  BY <1>1, <1>2, <1>3 DEF SetChannelNumber, DoSwitch

\* The width alone changes neither what is received nor the frequency.
LEMMA SetChannelWidthInv ==
  ASSUME PhyInv, NEW width \in Width, SetChannelWidth(width)
  PROVE  PhyInv' /\ Retunes
<1>0. tuned \in Tuning /\ PhyTypeOK
  BY DEF PhyInv, PhyTypeOK
<1>1. width \in Int
  BY ChannelAssumption
<1>2. PICK alone \in BOOLEAN : alone = TRUE
  OBVIOUS
<1>3. tuned' = [tuned EXCEPT !.width = width, !.alone = alone]
  BY <1>2 DEF SetChannelWidth
<1>4. tuned' \in Tuning /\ tuned'.frequency = tuned.frequency
  BY <1>0, <1>1, <1>3 DEF Tuning
<1> QED
  BY <1>0, <1>4 DEF SetChannelWidth, PhyInv, PhyTypeOK, OwnHeader, Retunes

\* What SetFrequency makes of the record, for another frequency and for 0.
LEMMA RetunedType ==
  ASSUME tuned \in Tuning, NEW f \in Int
  PROVE  /\ Retuned(f) \in Tuning /\ Retuned(f).frequency = f
         /\ Retuned(f).number = FindChannelNumberForFrequencyWidth(Table, f, tuned.width)
         /\ Retuned(f).width = tuned.width
<1> DEFINE n == FindChannelNumberForFrequencyWidth(Table, f, tuned.width)
<1>1. n \in Int
  BY SearchType
<1>2. Retuned(f) = [tuned EXCEPT !.frequency = f, !.alone = FALSE, !.number = n]
  BY DEF Retuned
<1> HIDE DEF n
<1>3. /\ Retuned(f) \in Tuning /\ Retuned(f).frequency = f
      /\ Retuned(f).number = n /\ Retuned(f).width = tuned.width
  BY <1>1, <1>2 DEF Tuning
<1> QED
  BY <1>3 DEF n

LEMMA ZeroType ==
  ASSUME tuned \in Tuning, NEW zero, zero = [tuned EXCEPT !.frequency = 0, !.number = 0]
  PROVE  zero \in Tuning /\ zero.frequency = 0 /\ zero.number = 0
<1>1. PICK f \in Int : f = 0
  OBVIOUS
<1>2. zero = [tuned EXCEPT !.frequency = f, !.number = f]
  BY <1>1
<1>3. zero \in Tuning /\ zero.frequency = f /\ zero.number = f
  BY <1>2 DEF Tuning
<1> QED
  BY <1>1, <1>3

LEMMA SetFrequencyInv ==
  ASSUME PhyInv, NEW rest \in SUBSET Later, NEW f \in Frequency \cup {0}, SetFrequency(f, rest)
  PROVE  PhyInv' /\ Retunes
<1>0. tuned \in Tuning /\ <<"SetFrequency", f>> \in Call
  BY DEF PhyInv, PhyTypeOK, Call
<1>1. CASE Ignore(rest)
  BY <1>1, IgnoreInv
<1>2. CASE f = 0 /\ SwitchAnyway(<<"SetFrequency", 0>>,
                       [tuned EXCEPT !.frequency = 0, !.number = 0], rest)
  <2> DEFINE retuned == [tuned EXCEPT !.frequency = 0, !.number = 0]
  <2>1. retuned \in Tuning /\ retuned.frequency = 0
    BY <1>0, ZeroType
  <2>2. Switch(<<"SetFrequency", f>>, retuned, retuned, rest)
    BY <1>2 DEF SwitchAnyway
  <2> HIDE DEF retuned
  <2> QED
    BY <1>0, <2>1, <2>2, SwitchInv
<1>3. CASE DoSwitch(<<"SetFrequency", f>>, Retuned(f), rest)
  <2>1. Retuned(f) \in Tuning
    BY <1>0, RetunedType, ChannelAssumption
  <2> QED
    BY <1>0, <1>3, <2>1, SwitchInv DEF DoSwitch
<1> QED
  BY <1>1, <1>2, <1>3 DEF SetFrequency

LEMMA CalledInv ==
  ASSUME PhyInv, Called
  PROVE  PhyInv' /\ Retunes
<1>1. postponed \in SUBSET Later
  BY DEF PhyInv, PhyTypeOK
<1> QED
  BY <1>1, SetSleepModeInv, SetChannelNumberInv, SetFrequencyInv, SetChannelWidthInv DEF Called

LEMMA PostponedInv ==
  ASSUME PhyInv, Postponed
  PROVE  PhyInv' /\ Retunes
<1> PICK e \in postponed : Perform(e.call, postponed \ {e})
  BY DEF Postponed
<1> DEFINE rest == postponed \ {e}
<1>1. rest \in SUBSET Later /\ e.call \in Call
  BY DEF PhyInv, PhyTypeOK, Later
<1> HIDE DEF rest
<1>2. CASE e.call = <<"SetSleepMode">>
  <2>1. SetSleepMode(rest)
    BY <1>2 DEF Perform, rest
  <2> QED
    BY <1>1, <2>1, SetSleepModeInv
<1>3. ASSUME NEW n \in Number \cup {0}, e.call = <<"SetChannelNumber", n>>
      PROVE  PhyInv' /\ Retunes
  <2>1. SetChannelNumber(n, rest)
    BY <1>3 DEF Perform, rest
  <2> QED
    BY <1>1, <2>1, SetChannelNumberInv
<1>4. ASSUME NEW f \in Frequency \cup {0}, e.call = <<"SetFrequency", f>>
      PROVE  PhyInv' /\ Retunes
  <2>1. SetFrequency(f, rest)
    BY <1>4 DEF Perform, rest
  <2> QED
    BY <1>1, <2>1, SetFrequencyInv
<1> QED
  BY <1>1, <1>2, <1>3, <1>4 DEF Call

-----------------------------------------------------------------------------
(* What the radio is tuned to.                                             *)

\* Tuned of what the radio is tuned to.
TunedTo(t) == t.number # 0 =>
  \E k \in DOMAIN Table :
    /\ k[1] = t.number /\ Table[k][1] = t.frequency /\ t.frequency # 0
    /\ Table[k][2] = t.width \/ t.alone

LEMMA OnRowTuned ==
  ASSUME NEW s, NEW n, RowFor(Table, n, s) # NoRow
  PROVE  TunedTo(OnRow(s, n))
<1>1. PICK k \in DOMAIN Table : k[1] = n /\ Table[k] = RowFor(Table, n, s)
  BY RowFound
<1>2. Table[k][1] # 0
  BY TableRows
<1> QED
  BY <1>1, <1>2 DEF TunedTo, OnRow

LEMMA TunedIsTunedTo ==
  /\ Tuned <=> TunedTo(tuned)
  /\ Tuned' <=> TunedTo(tuned')
BY DEF Tuned, TunedTo

LEMMA SwitchTunes ==
  ASSUME NEW call, NEW rest, NEW retuned, NEW otherwise, TunedTo(retuned), TunedTo(otherwise),
         Switch(call, retuned, otherwise, rest)
  PROVE  TunedTo(tuned')
BY DEF Switch

LEMMA SetChannelNumberTunes ==
  ASSUME tuned \in Tuning, TunedTo(tuned), NEW rest, NEW n, SetChannelNumber(n, rest)
  PROVE  TunedTo(tuned')
<1> DEFINE retuned == OnRow(tuned.standard, n)
<1>1. CASE Ignore(rest)
  BY <1>1 DEF Ignore
<1>2. CASE tuned' = [tuned EXCEPT !.number = 0]
  BY <1>2 DEF Tuning, TunedTo
<1>3. CASE /\ RowFor(Table, n, tuned.standard) # NoRow
           /\ Switch(<<"SetChannelNumber", n>>, retuned, tuned, rest)
  <2>1. TunedTo(retuned)
    BY <1>3, OnRowTuned
  <2> HIDE DEF retuned
  <2> QED
    BY <1>3, <2>1, SwitchTunes
<1> QED
  BY <1>1, <1>2, <1>3 DEF SetChannelNumber, DoSwitch

LEMMA SetChannelWidthTunes ==
  ASSUME tuned \in Tuning, TunedTo(tuned), NEW width, SetChannelWidth(width)
  PROVE  TunedTo(tuned')
<1>1. /\ tuned'.number = tuned.number /\ tuned'.frequency = tuned.frequency
      /\ tuned'.alone = TRUE
  BY DEF Tuning, SetChannelWidth
<1> QED
  BY <1>1 DEF TunedTo

LEMMA SetFrequencyTunes ==
  ASSUME tuned \in Tuning, TunedTo(tuned), NEW rest, NEW f \in Frequency \cup {0}, SetFrequency(f, rest)
  PROVE  TunedTo(tuned')
<1>1. CASE Ignore(rest)
  BY <1>1 DEF Ignore
<1>2. CASE SwitchAnyway(<<"SetFrequency", 0>>, [tuned EXCEPT !.frequency = 0, !.number = 0], rest)
  <2> DEFINE retuned == [tuned EXCEPT !.frequency = 0, !.number = 0]
  <2>1. retuned.number = 0
    BY ZeroType
  <2>2. Switch(<<"SetFrequency", 0>>, retuned, retuned, rest)
    BY <1>2 DEF SwitchAnyway
  <2> HIDE DEF retuned
  <2>3. TunedTo(retuned)
    BY <2>1 DEF TunedTo
  <2> QED
    BY <2>2, <2>3, SwitchTunes
<1>3. CASE f # 0 /\ DoSwitch(<<"SetFrequency", f>>, Retuned(f), rest)
  <2>1. PICK n : n = FindChannelNumberForFrequencyWidth(Table, f, tuned.width)
    OBVIOUS
  <2>2. Retuned(f).number = n /\ Retuned(f).frequency = f /\ Retuned(f).width = tuned.width
    BY <2>1, RetunedType, ChannelAssumption
  <2>3. n # 0 => \E k \in DOMAIN Table : k[1] = n /\ Table[k] = <<f, tuned.width>>
    BY <2>1, SearchFinds
  <2>4. TunedTo(Retuned(f))
    BY <1>3, <2>2, <2>3 DEF TunedTo
  <2> QED
    BY <1>3, <2>4, SwitchTunes DEF DoSwitch
<1> QED
  BY <1>1, <1>2, <1>3 DEF SetFrequency

LEMMA PerformTunes ==
  ASSUME tuned \in Tuning, TunedTo(tuned), NEW rest, NEW call \in Call, Perform(call, rest)
  PROVE  TunedTo(tuned')
<1>1. CASE call = <<"SetSleepMode">>
  BY <1>1 DEF Perform, SetSleepMode
<1>2. ASSUME NEW n \in Number \cup {0}, call = <<"SetChannelNumber", n>>
      PROVE  TunedTo(tuned')
  BY <1>2, SetChannelNumberTunes DEF Perform
<1>3. ASSUME NEW f \in Frequency \cup {0}, call = <<"SetFrequency", f>>
      PROVE  TunedTo(tuned')
  BY <1>3, SetFrequencyTunes DEF Perform
<1> QED
  BY <1>1, <1>2, <1>3 DEF Call

-----------------------------------------------------------------------------
LEMMA CountType ==
  ASSUME NEW left \in Nat
  PROVE  /\ Count(left) \in Nat
         /\ left > 0 => Count(left) = left - 1
BY DEF Count

LEMMA TickInv ==
  ASSUME PhyInv, Tick
  PROVE  PhyInv' /\ Retunes
<1>0. phy \in Radio /\ Scheduled(phy) /\ PhyTypeOK /\ UNCHANGED <<tuned, header>>
  BY DEF PhyInv, PhyTypeOK, Tick
<1>1. /\ phy.rxEnd \in Event /\ phy.plcpEnd \in Event /\ phy.left \in Nat /\ phy.cca \in Nat
      /\ phy.rxEnd.left \in Nat /\ phy.plcpEnd.left \in Nat
      /\ phy.plcpEnd.frame # None => phy.plcpEnd.left > 0
      /\ phy.rxEnd.frame # None => phy.rxEnd.left > 0
  BY <1>0 DEF Tick, Radio, Event
<1> DEFINE mode == IF phy.mode \in {"TX", "SWITCHING"} /\ phy.left = 1 THEN "LISTEN" ELSE phy.mode
<1> DEFINE plcpEnd == [phy.plcpEnd EXCEPT !.left = Count(@)]
<1> DEFINE rxEnd == [phy.rxEnd EXCEPT !.left = Count(@)]
<1>2. /\ plcpEnd \in Event /\ plcpEnd.frame = phy.plcpEnd.frame
      /\ plcpEnd.left = Count(phy.plcpEnd.left)
      /\ rxEnd \in Event /\ rxEnd.frame = phy.rxEnd.frame
      /\ rxEnd.left = Count(phy.rxEnd.left)
  BY <1>1, CountType DEF Event
<1>3. mode \in Mode /\ (mode = "RX" <=> phy.mode = "RX")
  BY <1>0 DEF Radio, Mode
<1>4. phy' = [phy EXCEPT !.mode = mode, !.left = Count(phy.left), !.cca = Count(phy.cca),
                         !.plcpEnd = plcpEnd, !.rxEnd = rxEnd]
  BY <1>0 DEF Tick, Radio
<1> HIDE DEF mode, plcpEnd, rxEnd
<1>5. /\ phy' \in Radio
      /\ phy'.mode = mode /\ phy'.left = Count(phy.left) /\ phy'.current = phy.current
      /\ phy'.plcp = phy.plcp /\ phy'.plcpEnd = plcpEnd /\ phy'.rxEnd = rxEnd
  <2>1. Count(phy.left) \in Nat /\ Count(phy.cca) \in Nat
    BY <1>1, CountType
  <2> QED
    BY <1>0, <1>2, <1>3, <1>4, <2>1 DEF Radio
<1>6. Scheduled(phy')
  BY <1>0, <1>1, <1>2, <1>3, <1>5, CountType DEF Scheduled
<1>7. OwnHeader'
  BY <1>0, <1>2, <1>5 DEF PhyInv, OwnHeader
<1>8. postponed' \subseteq Later
  <2>1. ASSUME NEW e \in postponed
        PROVE  [e EXCEPT !.left = @ - 1] \in Later
    BY <1>0 DEF PhyTypeOK, Later
  <2> QED
    BY <2>1 DEF Tick
<1> QED
  BY <1>0, <1>5, <1>6, <1>7, <1>8 DEF PhyInv, PhyTypeOK, Retunes

LEMMA PhyNextInv == PhyInv /\ [Next]_vars => PhyInv' /\ Retunes
<1> SUFFICES ASSUME PhyInv, [Next]_vars PROVE PhyInv' /\ Retunes
  OBVIOUS
<1>1. CASE StartReceivePreambleAndHeader
  BY <1>1, ArriveInv DEF StartReceivePreambleAndHeader, Retunes
<1>2. CASE StartReceivePacket
  BY <1>2, HeaderInv DEF StartReceivePacket, Retunes
<1>3. CASE EndReceive
  BY <1>3, EndReceiveInv DEF EndReceive, Retunes
<1>4. CASE SendPacket
  BY <1>4, SendPacketInv DEF SendPacket, Retunes
<1>5. CASE SetOffMode
  BY <1>5, SetOffModeInv DEF SetOffMode, Retunes
<1>6. CASE ResumeFromSleep \/ ResumeFromOff
  BY <1>6, ResumeInv DEF ResumeFromSleep, ResumeFromOff, Resume, Retunes
<1>7. CASE Called
  BY <1>7, CalledInv
<1>8. CASE Postponed
  BY <1>8, PostponedInv
<1>9. CASE Tick
  BY <1>9, TickInv
<1>10. CASE UNCHANGED vars
  BY <1>10 DEF vars, PhyInv, PhyTypeOK, OwnHeader, Retunes
<1> QED
  BY <1>1, <1>2, <1>3, <1>4, <1>5, <1>6, <1>7, <1>8, <1>9, <1>10 DEF Next

\* A radio receives exactly while the end of its current frame is scheduled, with the
\* header's end before it, for any frames, times and channels (StartRx, EndReceive, and
\* every call that cancels m_endPlcpRxEvent and m_endRxEvent).
THEOREM ReceptionScheduledCorrect == Spec => []ReceptionScheduled
<1>1. PhyInv => ReceptionScheduled
  BY DEF PhyInv, Scheduled, ReceptionScheduled
<1>2. PhyInv /\ [Next]_vars => PhyInv'
  BY PhyNextInv
<1> QED
  BY PhyInit_Inv, <1>1, <1>2, PTL DEF Spec

\* m_plcpSuccess is that of the frame that is received, once its header is over, for
\* any frames and times (StartReceiveHeader, StartReceivePacket).
THEOREM OwnHeaderCorrect == Spec => []OwnHeader
<1>1. PhyInv => OwnHeader
  BY DEF PhyInv
<1>2. PhyInv /\ [Next]_vars => PhyInv'
  BY PhyNextInv
<1> QED
  BY PhyInit_Inv, <1>1, <1>2, PTL DEF Spec

\* The steps that leave alone what the radio is tuned to, and those that do not.
LEMMA TunedNext == PhyInv /\ Tuned /\ [Next]_vars => Tuned'
<1> SUFFICES ASSUME PhyInv, TunedTo(tuned), [Next]_vars PROVE TunedTo(tuned')
  BY TunedIsTunedTo
<1>0. tuned \in Tuning /\ \A e \in postponed : e.call \in Call
  BY DEF PhyInv, PhyTypeOK, Later
<1>1. CASE UNCHANGED tuned
  BY <1>1
<1>2. CASE Called
  BY <1>0, <1>2, SetChannelNumberTunes, SetFrequencyTunes, SetChannelWidthTunes
  DEF Called, SetSleepMode
<1>3. CASE Postponed
  BY <1>0, <1>3, PerformTunes DEF Postponed
<1> QED
  BY <1>1, <1>2, <1>3 DEF Next, vars, StartReceivePreambleAndHeader, StartReceivePacket, EndReceive,
     SendPacket, SetOffMode, ResumeFromSleep, ResumeFromOff, Resume, Tick

\* The channel number is 0 or one of the frequency that is set, and of the width
\* unless that was set alone since, for any standards, numbers, frequencies and widths
\* and however switches are refused and put off (SetChannelNumber, SetFrequency,
\* SetChannelWidth, FindChannelNumberForFrequencyWidth).
THEOREM TunedCorrect == Spec => []Tuned
<1>1. Init => Tuned
  <2> SUFFICES ASSUME Init PROVE TunedTo(tuned)
    BY TunedIsTunedTo
  <2>1. PICK s \in Standard, n \in Number :
          RowFor(Table, n, s) # NoRow /\ tuned = OnRow(s, n)
    BY DEF Init
  <2> QED
    BY <2>1, OnRowTuned
<1>2. PhyInv /\ [Next]_vars => PhyInv'
  BY PhyNextInv
<1> QED
  BY PhyInit_Inv, <1>1, <1>2, TunedNext, PTL DEF Spec

\* Only a switch changes the frequency to another than 0, and it gives up the
\* reception there is, for any channels and postponed calls (DoChannelSwitch,
\* DoFrequencySwitch).
THEOREM RetuneSwitchesCorrect == Spec => RetuneSwitches
<1>1. PhyInv /\ [Next]_vars =>
        [tuned'.frequency \notin {tuned.frequency, 0} =>
           /\ phy.mode \notin {"TX", "SWITCHING"} /\ phy'.mode = "SWITCHING"
           /\ phy'.rxEnd = Idle /\ phy'.plcpEnd = Idle]_vars
  BY PhyNextInv DEF Retunes
<1>2. PhyInv /\ [Next]_vars => PhyInv'
  BY PhyNextInv
<1> QED
  BY PhyInit_Inv, <1>1, <1>2, PTL DEF Spec, RetuneSwitches
=============================================================================
