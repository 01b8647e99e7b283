------------------------------- MODULE WifiPhy -------------------------------
(***************************************************************************)
(* The radio under a simulated node (ns-3 wifi/model/wifi-phy.cc), after   *)
(* its initialization: reception, transmission, sleep, and the change of   *)
(* channel.  It is driven by events of the simulator; every duration is    *)
(* counted down to its event by Tick, and events that are due at the same  *)
(* instant come in any order.                                              *)
(*                                                                         *)
(* External: the state helper, a mode with the time it lasts; the          *)
(* interference helper, which says how long the medium stays busy; the     *)
(* frame capture model; and whether a header or a payload can be decoded.  *)
(* Each of the last three may say anything.                                *)
(*                                                                         *)
(* NS_ASSERT stops a debug build and does nothing in an optimized one.     *)
(* The model goes on, as the second does: what it does not reach, neither  *)
(* build reaches.                                                          *)
(***************************************************************************)
EXTENDS WifiTable

CONSTANTS
  Frame,       \* frames that arrive: [preamble, rest, last, complete, fits,
               \* strong, length]; rest is what AmpduTag says, 0 without one
  Header,      \* the time from the start of a frame to the end of its header
  TxDuration,  \* durations of the frames that are sent
  SwitchDelay, \* GetChannelSwitchDelay
  MaxBusy,     \* bound of the model: how long the medium stays busy
  Standard,    \* the standards that it may have been configured with
  Number,      \* the channel numbers it is set to, other than 0
  Frequency,   \* the frequencies it is set to, other than 0
  Width,       \* the widths it is set to
  MaxPostponed, \* bound of the model: calls that are put off at a time
  None

ASSUME DurationAssumption ==
  /\ Header \in Nat \ {0} /\ SwitchDelay \in Nat \ {0} /\ MaxBusy \in Nat /\ MaxPostponed \in Nat
  /\ TxDuration \subseteq Nat \ {0}
ASSUME ChannelAssumption ==
  /\ Number \subseteq Nat \ {0} /\ Frequency \subseteq Nat \ {0}
  /\ Width \subseteq {5, 10, 20, 22, 40, 80, 160}
ASSUME FrameAssumption ==
  /\ \A f \in Frame : f.length \in Nat \ {0} /\ f.rest \in Nat
  /\ \A f \in Frame : {f.preamble, f.last, f.complete, f.fits, f.strong} \subseteq BOOLEAN
  /\ \A f \in Frame : f.preamble => f.length > Header
  /\ None \notin Frame

\* The channels of the constructor, on which a running radio is tuned.
Table == InitialTable({"80211b", "80211_10MHZ", "UNSPECIFIED"})

VARIABLES
  phy,       \* the radio: mode and left of the state helper, cca (busy for),
             \* current (m_currentEvent), plcp (m_plcpSuccess), mpdus
             \* (m_mpdusNum), plcpEnd and rxEnd (m_endPlcpRxEvent, m_endRxEvent)
  tuned,     \* standard (m_standard), number, frequency and width; alone is history:
             \* the width was set since the number was
  postponed, \* calls scheduled for GetDelayUntilIdle from now
  header     \* history: the frame of the reception whose header was decoded

vars == <<phy, tuned, postponed, header>>

Idle == [frame |-> None, left |-> 0]

\* Tuned to channel n as standard s knows it.
OnRow(s, n) ==
  LET row == RowFor(Table, n, s)
  IN  [standard |-> s, number |-> n, frequency |-> row[1], width |-> row[2], alone |-> FALSE]

Init ==
  /\ phy = [mode |-> "LISTEN", left |-> 0, cca |-> 0, current |-> None,
            plcp |-> FALSE, mpdus |-> 0, plcpEnd |-> Idle, rxEnd |-> Idle]
  /\ \E s \in Standard, n \in Number :
       /\ RowFor(Table, n, s) # NoRow
       /\ tuned = OnRow(s, n)
  /\ postponed = {} /\ header = None
-----------------------------------------------------------------------------
(* The state helper.                                                       *)

GetState(p) ==
  IF p.mode # "LISTEN" THEN p.mode ELSE IF p.cca > 0 THEN "CCA_BUSY" ELSE "IDLE"

GetDelayUntilIdle(p) == IF p.mode = "LISTEN" THEN p.cca ELSE p.left

SwitchTo(p, mode, duration) == [p EXCEPT !.mode = mode, !.left = duration]

MaybeCcaBusy(p, busy) == [p EXCEPT !.cca = IF busy > @ THEN busy ELSE @]

CancelReception(p) == [p EXCEPT !.plcpEnd = Idle, !.rxEnd = Idle]
-----------------------------------------------------------------------------
(* Reception.                                                              *)

AbortCurrentReception(p) ==
  [SwitchTo(CancelReception(p), "LISTEN", 0) EXCEPT !.current = None]

\* What a frame with a tag leaves to come of its A-MPDU.  One without a
\* preamble always has a tag.
MpdusAfter(p, f) ==
  IF f.preamble \/ f.rest < p.mpdus - 1 THEN f.rest ELSE p.mpdus - 1

Sync(p, f) ==
  [SwitchTo(p, "RX", f.length) EXCEPT
     !.mpdus = MpdusAfter(p, f), !.current = f,
     !.plcpEnd = IF f.preamble THEN [frame |-> f, left |-> Header] ELSE @,
     !.rxEnd = [frame |-> f, left |-> f.length]]

\* A frame that continues an A-MPDU needs the header of the first.
StartRx(p, f, busy) ==
  IF ~f.strong
  THEN MaybeCcaBusy([p EXCEPT !.plcp = FALSE], busy)
  ELSE IF ~f.preamble /\ (p.mpdus = 0 \/ ~p.plcp)
  THEN MaybeCcaBusy([p EXCEPT !.plcp = FALSE, !.mpdus = 0], busy)
  ELSE Sync(p, f)

\* The frame is not received, and is noise after what the radio is doing.
Noise(p, f, busy) == IF f.length > GetDelayUntilIdle(p) THEN MaybeCcaBusy(p, busy) ELSE p

Arrive(p, f, busy, captured) ==
  CASE GetState(p) \in {"IDLE", "CCA_BUSY"} -> StartRx(p, f, busy)
    [] GetState(p) = "RX" ->
         IF captured THEN StartRx(AbortCurrentReception(p), f, busy) ELSE Noise(p, f, busy)
    [] GetState(p) = "TX" -> Noise(p, f, busy)
    [] GetState(p) = "SWITCHING" -> Noise([p EXCEPT !.plcp = FALSE], f, busy)
    [] GetState(p) = "SLEEP" -> [p EXCEPT !.plcp = FALSE]

\* A frame for more antennas than there are is dropped; one that ends before the
\* radio is idle goes on to be received all the same.
ArriveAny(p, f, busy, captured) ==
  LET failed == [p EXCEPT !.plcp = FALSE]
  IN  IF p.mode = "OFF" THEN p
      ELSE IF ~f.complete THEN failed
      ELSE IF f.fits THEN Arrive(p, f, busy, captured)
      ELSE IF f.length > GetDelayUntilIdle(p) THEN MaybeCcaBusy(failed, busy)
      ELSE Arrive(failed, f, busy, captured)

StartReceivePreambleAndHeader ==
  \E f \in Frame, busy \in 0..MaxBusy, captured \in BOOLEAN :
    /\ phy' = ArriveAny(phy, f, busy, captured)
    /\ header' = IF phy'.rxEnd # phy.rxEnd /\ f.preamble THEN None ELSE header
    /\ UNCHANGED <<tuned, postponed>>

\* Bug: the flag says nothing of the header when that cannot be decoded.
BugHeaderNotReset ==
  /\ phy.plcpEnd.frame # None /\ phy.plcpEnd.left = 0
  /\ \E decoded \in BOOLEAN :
       /\ phy' = [phy EXCEPT !.plcpEnd = Idle, !.plcp = @ \/ decoded]
       /\ header' = IF decoded THEN phy.plcpEnd.frame ELSE header
  /\ UNCHANGED <<tuned, postponed>>

\* The end of the header.
StartReceivePacket ==
  /\ phy.plcpEnd.frame # None /\ phy.plcpEnd.left = 0
  /\ \E decoded \in BOOLEAN :
       /\ phy' = [phy EXCEPT !.plcpEnd = Idle, !.plcp = decoded]
       /\ header' = IF decoded THEN phy.plcpEnd.frame ELSE header
  /\ UNCHANGED <<tuned, postponed>>

\* The end of the frame: with m_plcpSuccess and a payload that can be decoded it is
\* delivered, tagged with the strength of its signal.
EndReceive ==
  LET f == phy.rxEnd.frame IN
  /\ f # None /\ phy.rxEnd.left = 0
  /\ phy' = [SwitchTo(phy, "LISTEN", 0) EXCEPT
               !.rxEnd = Idle, !.current = None, !.plcp = @ /\ (f.preamble \/ ~f.last)]
  /\ UNCHANGED <<tuned, postponed, header>>
-----------------------------------------------------------------------------
(* Transmission and sleep.  A call is put off with what it was called with. *)

Postpone(call, rest) ==
  postponed' = rest \cup {[call |-> call, left |-> GetDelayUntilIdle(phy)]}

\* Bug: sending leaves the end of the reception scheduled.
BugSendKeepsReception ==
  /\ phy.mode \notin {"TX", "SWITCHING", "OFF"}
  /\ phy.mode # "SLEEP"
  /\ \E d \in TxDuration, off \in BOOLEAN :
       phy' = SwitchTo(phy, IF off THEN "OFF" ELSE "TX", IF off THEN 0 ELSE d)
  /\ UNCHANGED <<tuned, postponed, header>>

\* The packet is dropped asleep.  Its energy may be the last there is, which
\* turns the radio off.  The radio under the MAC is never asked while it is off.
SendPacket ==
  /\ phy.mode \notin {"TX", "SWITCHING", "OFF"}
  /\ phy.mode # "SLEEP"
  /\ \E d \in TxDuration, off \in BOOLEAN :
       phy' = SwitchTo(CancelReception(phy),
                       IF off THEN "OFF" ELSE "TX", IF off THEN 0 ELSE d)
  /\ UNCHANGED <<tuned, postponed, header>>

SetSleepMode(rest) ==
  /\ \/ /\ phy.mode \in {"TX", "RX", "SWITCHING"}
        /\ Postpone(<<"SetSleepMode">>, rest)
        /\ UNCHANGED phy
     \/ /\ phy.mode = "LISTEN"
        /\ phy' = SwitchTo(phy, "SLEEP", 0)
        /\ postponed' = rest
     \/ /\ phy.mode \in {"SLEEP", "OFF"}
        /\ postponed' = rest
        /\ UNCHANGED phy
  /\ UNCHANGED <<tuned, header>>

SetOffMode ==
  /\ phy' = SwitchTo(CancelReception(phy), "OFF", 0)
  /\ UNCHANGED <<tuned, postponed, header>>

Resume(mode) ==
  /\ phy.mode = mode
  /\ \E busy \in 0..MaxBusy : phy' = MaybeCcaBusy(SwitchTo(phy, "LISTEN", 0), busy)
  /\ UNCHANGED <<tuned, postponed, header>>

ResumeFromSleep == Resume("SLEEP")
ResumeFromOff == Resume("OFF")
-----------------------------------------------------------------------------
(* The change of channel.                                                  *)

\* DoChannelSwitch and DoFrequencySwitch; retuned is what the caller sets when
\* the switch is made, otherwise when it is not.  A reception is given up, a
\* transmission is not.
Switch(call, retuned, otherwise, rest) ==
  /\ \/ /\ phy.mode \in {"RX", "LISTEN"}
        /\ phy' = [SwitchTo(CancelReception(phy), "SWITCHING", SwitchDelay) EXCEPT !.cca = 0]
        /\ tuned' = retuned
        /\ postponed' = rest
     \/ /\ phy.mode = "TX"
        /\ tuned' = otherwise
        /\ Postpone(call, rest)
        /\ UNCHANGED phy
     \/ /\ phy.mode \in {"SLEEP", "SWITCHING", "OFF"}
        /\ tuned' = otherwise
        /\ postponed' = rest
        /\ UNCHANGED phy
  /\ UNCHANGED header

DoSwitch(call, retuned, rest) == Switch(call, retuned, tuned, rest)
SwitchAnyway(call, retuned, rest) == Switch(call, retuned, retuned, rest)

Ignore(rest) == postponed' = rest /\ UNCHANGED <<phy, tuned, header>>

\* Bug: the width of the channel is not set.
BugWidthKept(n, rest) ==
  IF n = tuned.number THEN Ignore(rest)
  ELSE DoSwitch(<<"SetChannelNumber", n>>,
         [OnRow(tuned.standard, n) EXCEPT !.width = tuned.width], rest)

\* The number 0 is for a frequency without a channel.  A number without a row, of the
\* radio's own standard or of none, is a fatal error.
SetChannelNumber(n, rest) ==
  IF n = tuned.number THEN Ignore(rest)
  ELSE IF n = 0
  THEN /\ tuned' = [tuned EXCEPT !.number = 0] /\ postponed' = rest
       /\ UNCHANGED <<phy, header>>
  ELSE /\ RowFor(Table, n, tuned.standard) # NoRow
       /\ DoSwitch(<<"SetChannelNumber", n>>, OnRow(tuned.standard, n), rest)

\* The width alone, whatever the radio is doing.
SetChannelWidth(width) ==
  /\ tuned' = [tuned EXCEPT !.width = width, !.alone = TRUE]
  /\ UNCHANGED <<phy, postponed, header>>

\* The channel for a frequency is one of any standard that has the width that is set.
Retuned(f) ==
  [tuned EXCEPT !.frequency = f, !.alone = FALSE,
     !.number = FindChannelNumberForFrequencyWidth(Table, f, tuned.width)]

\* Bug: what the switch answers is ignored for every frequency.
BugRetuneAnyway(f, rest) ==
  IF f = tuned.frequency THEN Ignore(rest)
  ELSE SwitchAnyway(<<"SetFrequency", f>>, Retuned(f), rest)

\* Frequency 0 is set whatever the switch answers.
SetFrequency(f, rest) ==
  IF f = tuned.frequency THEN Ignore(rest)
  ELSE IF f = 0
  THEN SwitchAnyway(<<"SetFrequency", 0>>, [tuned EXCEPT !.frequency = 0, !.number = 0], rest)
  ELSE DoSwitch(<<"SetFrequency", f>>, Retuned(f), rest)

Perform(call, rest) ==
  CASE call[1] = "SetSleepMode" -> SetSleepMode(rest)
    [] call[1] = "SetChannelNumber" -> SetChannelNumber(call[2], rest)
    [] call[1] = "SetFrequency" -> SetFrequency(call[2], rest)

Called ==
  /\ Cardinality(postponed) < MaxPostponed
  /\ \/ SetSleepMode(postponed)
     \/ \E n \in Number \cup {0} : SetChannelNumber(n, postponed)
     \/ \E f \in Frequency \cup {0} : SetFrequency(f, postponed)
     \/ \E width \in Width : SetChannelWidth(width)

Postponed == \E e \in postponed : e.left = 0 /\ Perform(e.call, postponed \ {e})
-----------------------------------------------------------------------------
Count(left) == IF left > 0 THEN left - 1 ELSE 0

\* Time passes when no event is due.
Tick ==
  /\ \A e \in postponed : e.left > 0
  /\ \A e \in {phy.plcpEnd, phy.rxEnd} : e.frame # None => e.left > 0
  /\ phy' = [phy EXCEPT
       !.mode = IF @ \in {"TX", "SWITCHING"} /\ phy.left = 1 THEN "LISTEN" ELSE @,
       !.left = Count(@), !.cca = Count(@),
       !.plcpEnd.left = Count(@), !.rxEnd.left = Count(@)]
  /\ postponed' = {[e EXCEPT !.left = @ - 1] : e \in postponed}
  /\ UNCHANGED <<tuned, header>>

Next ==
  \/ StartReceivePreambleAndHeader \/ StartReceivePacket \/ EndReceive
  \/ SendPacket \/ SetOffMode \/ ResumeFromSleep \/ ResumeFromOff
  \/ Called \/ Postponed
  \/ Tick

Spec == Init /\ [][Next]_vars
-----------------------------------------------------------------------------
\* The radio receives exactly while the end of a frame is scheduled; it is the
\* current frame's end, and its header's end can only come before.  So the
\* handlers of both events find the radio receiving, as they assert, and a new
\* reception finds both expired, whatever send, sleep, off, capture and change
\* of channel came in between (wifi-phy.cc 2474, 2575-2576, 2612, 3746-3763).
ReceptionScheduled ==
  /\ phy.mode = "RX" <=> phy.rxEnd.frame # None
  /\ phy.mode = "RX" => phy.current = phy.rxEnd.frame /\ phy.left = phy.rxEnd.left
  /\ phy.plcpEnd.frame # None =>
       phy.plcpEnd.frame = phy.rxEnd.frame /\ phy.plcpEnd.left < phy.rxEnd.left

\* Past its header, a frame with a preamble counts as decodable only if its own
\* header was: the flag, which is shared by all receptions and seldom cleared,
\* says nothing of an earlier frame then.
OwnHeader ==
  phy.rxEnd.frame # None /\ phy.rxEnd.frame.preamble /\ phy.plcpEnd.frame = None
    /\ phy.plcp => header = phy.rxEnd.frame

\* A channel number other than 0 is one that some standard has at the frequency that
\* is set, and of the width that is set unless that was set alone since, though a
\* switch may be refused, put off, or come from either call.
Tuned == tuned.number # 0 =>
  \E k \in DOMAIN Table :
    /\ k[1] = tuned.number /\ Table[k][1] = tuned.frequency /\ tuned.frequency # 0
    /\ Table[k][2] = tuned.width \/ tuned.alone

\* A frequency other than 0 is only set by a switch: nothing is received or sent
\* then, and the reception there was is over.
RetuneSwitches ==
  [][tuned'.frequency \notin {tuned.frequency, 0} =>
       /\ phy.mode \notin {"TX", "SWITCHING"} /\ phy'.mode = "SWITCHING"
       /\ phy'.rxEnd = Idle /\ phy'.plcpEnd = Idle]_vars
=============================================================================
