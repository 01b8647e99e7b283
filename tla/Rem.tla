-------------------------------- MODULE Rem --------------------------------
(***************************************************************************)
(* REM, the regression-based network monitor (rem/rem.cc,                  *)
(* rem/rem_model.cc): every node fits models to the data it measures, its  *)
(* battery and the signal of each node it hears, and broadcasts a model    *)
(* when it has become another one.  The other nodes predict with the last  *)
(* model they got, so that no data has to be sent.                         *)
(*                                                                         *)
(* A value is the distance, in units of MIN_DEVIATION, from what a model   *)
(* that is not STABLE predicts (-1 for a battery, RSS_OUT_OF_RANGE for a   *)
(* signal).  The parameters of a model stand for the regression they came  *)
(* from: fit is the number of data points there were, 0 for none.  What a  *)
(* STABLE model predicts at a later time is any value: the line may rise   *)
(* or fall.                                                                *)
(***************************************************************************)
EXTENDS Integers, Sequences

CONSTANTS
  Node,
  Reach,         \* Reach[o]: the nodes that hear what o broadcasts
  Battery,       \* the nodes that measure their battery
  Signal,        \* pairs <<o, p>>: o measures the signal of p
  Value,         \* the values that are measured or predicted
  Sigma,         \* what a regression's points may deviate from it on average
  InitCount,     \* INIT_COUNT
  MaxDiffCount,  \* MAX_DIFF_COUNT
  MaxThreshDiff, \* MAX_THRESH_DIFF / MIN_DEVIATION
  NumDeviations, \* NUM_DEVIATIONS
  MaxPoints      \* bound of the model: data points per measurement

ASSUME NodeAssumption ==
  /\ Battery \subseteq Node /\ Signal \subseteq Node \X Node
  /\ Reach \in [Node -> SUBSET Node]
ASSUME ValueAssumption == Value \subseteq Nat /\ 0 \in Value /\ Sigma \subseteq Nat /\ 0 \in Sigma
ASSUME CountAssumption ==
  /\ InitCount \in Nat \ {0} /\ MaxDiffCount = InitCount + 1
  /\ MaxThreshDiff \in Nat /\ NumDeviations \in Nat /\ MaxPoints \in Nat

\* A measurement: <<o>> is the battery of o.
Key == {<<o>> : o \in Battery} \cup Signal
Owner(k) == k[1]
IsBattery(k) == k \in {<<o>> : o \in Battery}

State == {"INIT", "STABLE", "UNSTABLE", "BAD"}

VARIABLES
  model,   \* localBatteryModel, localRssModels: model[k] of its owner
  air,     \* air[<<o, n>>]: broadcasts of o on their way to n
  net,     \* netBatteryModels, netRssModels: the fit n has of k
  links,   \* RoutingProtocol::m_neighbors as updateLocalModels leaves it
  missed   \* missed[n]: the models whose last broadcast n has not got

vars == <<model, air, net, links, missed>>

\* initializeBatteryModel; a signal's model is made at the first value, STABLE
\* though it has no parameters (initializeRssModel).
NewModel(k) ==
  [state |-> IF IsBattery(k) THEN "INIT" ELSE "STABLE", count |-> 0, dif |-> 0,
   broadcast |-> FALSE, fit |-> 0, sigma |-> 0]

Init ==
  /\ model = [k \in Key |-> NewModel(k)]
  /\ air = [c \in Node \X Node |-> <<>>]
  /\ net = [n \in Node |-> [k \in Key |-> 0]]
  /\ links = [o \in Node |-> {}]
  /\ missed = [n \in Node |-> {}]
-----------------------------------------------------------------------------
(* One model.  m is the model with the new data point counted and stored,  *)
(* e what its line predicts for that time.                                 *)

GetDataPoint(m, e) == IF m.state = "STABLE" THEN e ELSE 0

Distance(i, j) == IF i > j THEN i - j ELSE j - i

\* withinExpectedValueRange.  The trend is never bad, for lastDeviation stays 0.
Verdict(m, value, e) ==
  LET deviation == Distance(value, GetDataPoint(m, e))
  IN  IF deviation > MaxThreshDiff THEN "BAD"
      ELSE IF deviation > 1 /\ deviation > NumDeviations * m.sigma
           THEN "UNSTABLE" ELSE "STABLE"

\* calculateDeviations: what the points deviate from what the model now predicts.
CalculateDeviations(m, sigma) == [m EXCEPT !.sigma = sigma]

\* performRegression: a battery's model becomes STABLE before its deviations are
\* taken, a signal's stays what it was.
RegressionOfBattery(m, sigma) ==
  CalculateDeviations([m EXCEPT !.fit = m.count, !.state = "STABLE"], sigma)

RegressionOfSignal(m, sigma) == CalculateDeviations([m EXCEPT !.fit = m.count], sigma)

Regression(m, k, sigma) ==
  IF IsBattery(k) THEN RegressionOfBattery(m, sigma) ELSE RegressionOfSignal(m, sigma)

\* fitModel: the first fit of a signal is not broadcast.
FitBattery(m, sigma) == [RegressionOfBattery(m, sigma) EXCEPT !.broadcast = TRUE]
FitSignal(m, sigma) == RegressionOfSignal(m, sigma)

\* Bug: the regression of a battery does not make it STABLE.
BugAdaptKeepsState(m, k, sigma) ==
  [Regression(m, k, sigma) EXCEPT !.broadcast = TRUE, !.state = m.state]

AdaptModel(m, k, sigma) ==
  [Regression(m, k, sigma) EXCEPT !.broadcast = TRUE]

\* A data point after initialization.
Compare(m, k, value, e, sigma) ==
  LET verdict == Verdict(m, value, e)
      dif == CASE verdict = "STABLE" -> 0
               [] verdict = "UNSTABLE" -> m.dif + 1
               [] verdict = "BAD" -> MaxDiffCount + 1
      judged == [m EXCEPT !.state = verdict, !.dif = dif]
  IN  IF dif >= MaxDiffCount THEN AdaptModel(judged, k, sigma) ELSE judged

AddDataPoint(m, k, value, e, sigma) ==
  LET n == [m EXCEPT !.count = @ + 1]
  IN  IF n.count < InitCount THEN n
      ELSE IF n.count = InitCount
           THEN IF IsBattery(k) THEN FitBattery(n, sigma) ELSE FitSignal(n, sigma)
      ELSE Compare(n, k, value, e, sigma)
-----------------------------------------------------------------------------
(* A node.                                                                 *)

\* createREMModelPacket.
ModelPacket(k, m) == [key |-> k, fit |-> m.fit]

\* sendUpdatedModel, and the flag is cleared.
SendUpdatedModel(k, m) ==
  /\ air' = [c \in DOMAIN air |->
       IF m.broadcast /\ c[1] = Owner(k) /\ c[2] \in Reach[c[1]]
       THEN Append(air[c], ModelPacket(k, m)) ELSE air[c]]
  /\ model' = [model EXCEPT ![k] = [m EXCEPT !.broadcast = FALSE]]

\* updateLocalRSSModel, from updatePairData.
UpdatePairData(k) ==
  /\ k \in Signal /\ model[k].count < MaxPoints
  /\ \E value, e \in Value, sigma \in Sigma :
       SendUpdatedModel(k, AddDataPoint(model[k], k, value, e, sigma))
  /\ UNCHANGED <<net, links, missed>>

UpdateLocalBatteryModel(o) ==
  \E value, e \in Value, sigma \in Sigma :
    SendUpdatedModel(<<o>>, AddDataPoint(model[<<o>>], <<o>>, value, e, sigma))

\* updateLocalModels: the battery's data point, then the links are made anew from
\* the signals that have a value, are STABLE and predicted to be in range.
UpdateLocalModels(o) ==
  /\ o \in Battery /\ model[<<o>>].count < MaxPoints
  /\ UpdateLocalBatteryModel(o)
  /\ \E predicted \in [{k \in Signal : Owner(k) = o} -> Value] :
       links' = [links EXCEPT ![o] =
         {k[2] : k \in {s \in DOMAIN predicted : /\ model[s].count > 0
                                                 /\ GetDataPoint(model[s], predicted[s]) > 0}}]
  /\ UNCHANGED <<net, missed>>

\* Bug: map::insert, which keeps the model there is.
BugInsert(c) ==
  /\ air[c] # <<>>
  /\ LET p == Head(air[c])
     IN  /\ net' = [net EXCEPT ![c[2]][p.key] = IF @ = 0 THEN p.fit ELSE @]
         /\ missed' = [missed EXCEPT ![c[2]] = @ \ {p.key}]
  /\ air' = [air EXCEPT ![c] = Tail(@)]
  /\ UNCHANGED <<model, links>>

\* Bug: the newest message is taken from the queue first.
BugNewestFirst(c) ==
  /\ air[c] # <<>>
  /\ LET p == air[c][Len(air[c])]
     IN  /\ net' = [net EXCEPT ![c[2]][p.key] = p.fit]
         /\ missed' = [missed EXCEPT ![c[2]] = @ \ {p.key}]
  /\ air' = [air EXCEPT ![c] = SubSeq(@, 1, Len(@) - 1)]
  /\ UNCHANGED <<model, links>>

\* handleMonitoringPacketBuffer: the model of the packet replaces the one before.
HandleMonitoringPacket(c) ==
  /\ air[c] # <<>>
  /\ LET p == Head(air[c])
     IN  /\ net' = [net EXCEPT ![c[2]][p.key] = p.fit]
         /\ missed' = [missed EXCEPT ![c[2]] = @ \ {p.key}]
  /\ air' = [air EXCEPT ![c] = Tail(@)]
  /\ UNCHANGED <<model, links>>

\* A broadcast is not repeated: the radio or a full queue loses it.
Lose(c) ==
  /\ air[c] # <<>>
  /\ missed' = [missed EXCEPT ![c[2]] = @ \cup {Head(air[c]).key}]
  /\ air' = [air EXCEPT ![c] = Tail(@)]
  /\ UNCHANGED <<model, net, links>>

Next ==
  \/ \E k \in Signal : UpdatePairData(k)
  \/ \E o \in Battery : UpdateLocalModels(o)
  \/ \E c \in Node \X Node : HandleMonitoringPacket(c) \/ Lose(c)

Spec == Init /\ [][Next]_vars

\* Nodes handle what they get.
FairSpec == Spec /\ \A c \in Node \X Node : WF_vars(HandleMonitoringPacket(c))
-----------------------------------------------------------------------------
\* The answer of a model that is not STABLE: -1 or RSS_OUT_OF_RANGE.
Unknown == -1

\* The fit that n predicts k with (getBatteryLevel, getRSSBetweenNodes, getDataPoint):
\* the owner's local model may have no answer, a copy is STABLE as it was made.
Predictor(n, k) ==
  IF n # Owner(k) THEN net[n][k]
  ELSE IF model[k].state = "STABLE" THEN model[k].fit ELSE Unknown

Model == [state : State, count : 0..MaxPoints, dif : Nat, broadcast : {FALSE},
          fit : 0..MaxPoints, sigma : Sigma]
Packet == [key : Key, fit : 0..MaxPoints]

\* Every field has its type, and no model waits to be broadcast between two calls.
TypeOK ==
  /\ model \in [Key -> Model]
  /\ air \in [Node \X Node -> Seq(Packet)]
  /\ net \in [Node -> [Key -> 0..MaxPoints]]
  /\ links \in [Node -> SUBSET Node]
  /\ missed \in [Node -> SUBSET Key]

\* A battery model that does not fit is given a new regression in time: it never
\* predicts "unknown" after MAX_DIFF_COUNT bad points in a row.
BatteryRecovers ==
  \A o \in Battery : LET m == model[<<o>>]
                     IN  m.fit > 0 /\ m.state # "STABLE" => m.dif \in 1..MaxDiffCount - 1

\* If nothing was lost or is under way, another node predicts with what the owner
\* last adapted, and so does the owner, unless it judged its last data point bad or
\* has no regression yet: then it alone has no answer (the first fit of a signal is
\* nobody else's business).
QuietAgrees ==
  \A k \in Key : \A n \in Reach[Owner(k)] \ {Owner(k)} :
    \/ k \in missed[n]
    \/ \E i \in DOMAIN air[<<Owner(k), n>>] : air[<<Owner(k), n>>][i].key = k
    \/ Predictor(n, k) = Predictor(Owner(k), k)
    \/ /\ Predictor(n, k) = model[k].fit /\ Predictor(Owner(k), k) = Unknown
       /\ model[k].dif > 0 \/ model[k].state = "INIT"
    \/ ~IsBattery(k) /\ model[k].fit = InitCount /\ net[n][k] = 0

\* A node never goes back from a model to an older one.
NeverOlder == [][\A n \in Node, k \in Key : net'[n][k] >= net[n][k]]_vars

\* Every model that was adapted is known to each node in reach in the end, or a
\* packet to it was lost.
Synced ==
  \A k \in Key : \A n \in Reach[Owner(k)] : \A f \in InitCount + 1..MaxPoints :
    model[k].fit = f ~> net[n][k] >= f \/ k \in missed[n]
=============================================================================
