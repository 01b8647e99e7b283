------------------------------ MODULE RemProofs ------------------------------
(***************************************************************************)
(* Proofs about Rem, for any nodes, measurements, regressions and losses.  *)
(*                                                                         *)
(* Ordered relates the three places where a model is kept: along the way   *)
(* from its owner through the air to another node the fits only get older, *)
(* and the last packet on the way is the owner's model.                    *)
(***************************************************************************)
EXTENDS Rem, TLAPS

\* A model has no more points than were counted, and is fitted to InitCount at least.
FitsCounted ==
  \A k \in Key : /\ model[k].fit <= model[k].count
                 /\ model[k].fit > 0 => model[k].fit >= InitCount

\* A channel carries the models of its sender to whom it reaches; what it carries of a signal was
\* adapted after the first fit.
OwnModels ==
  \A c \in Node \X Node : \A i \in 1..Len(air[c]) :
    /\ Owner(air[c][i].key) = c[1]
    /\ c[2] \in Reach[c[1]]
    /\ air[c][i].fit >= InitCount
    /\ ~IsBattery(air[c][i].key) => air[c][i].fit > InitCount

\* Packets about a measurement are in the order of their fits, the last one has the
\* owner's, and the receiver's is not newer than the first.
AirOrdered ==
  \A c \in Node \X Node : \A i \in 1..Len(air[c]) :
    /\ air[c][i].fit <= model[air[c][i].key].fit
    /\ net[c[2]][air[c][i].key] <= air[c][i].fit
    /\ \A j \in 1..Len(air[c]) :
         i < j /\ air[c][j].key = air[c][i].key => air[c][i].fit <= air[c][j].fit

NetOrdered ==
  \A n \in Node, k \in Key :
    /\ net[n][k] <= model[k].fit
    /\ ~IsBattery(k) => net[n][k] = 0 \/ net[n][k] > InitCount

\* What is the last to come of a measurement is the owner's model.
LastIsModel ==
  \A c \in Node \X Node : \A i \in 1..Len(air[c]) :
    (\A j \in 1..Len(air[c]) : i < j => air[c][j].key # air[c][i].key)
      => air[c][i].fit = model[air[c][i].key].fit

Ordered == OwnModels /\ AirOrdered /\ NetOrdered /\ LastIsModel

IInv == TypeOK /\ FitsCounted /\ Ordered

\* If nothing was lost or is under way, another node has the fit that the owner last
\* adapted.
CopiesAgree ==
  \A k \in Key : \A n \in Reach[Owner(k)] \ {Owner(k)} :
    \/ k \in missed[n]
    \/ \E i \in DOMAIN air[<<Owner(k), n>>] : air[<<Owner(k), n>>][i].key = k
    \/ net[n][k] = model[k].fit
    \/ ~IsBattery(k) /\ model[k].fit = InitCount /\ net[n][k] = 0

\* A model is in doubt only for a bad data point.
Doubt(m) == m.state \in {"STABLE", "INIT"} \/ m.dif > 0
DoubtsSeen == \A k \in Key : Doubt(model[k])

-----------------------------------------------------------------------------
(* One data point.                                                         *)

\* A model while a data point is added.
Judged == [state : State, count : 0..MaxPoints, dif : Nat, broadcast : BOOLEAN,
           fit : 0..MaxPoints, sigma : Sigma]

\* What a data point makes of m: r is counted, and has the fit of m or one of all its
\* points; a new fit is broadcast except the first of a signal.
Added(k, m, r) ==
  /\ r.count = m.count + 1
  /\ r.fit = m.fit \/ r.fit = r.count
  /\ r.fit > 0 => r.fit >= InitCount
  /\ r.broadcast => r.fit = r.count /\ (IsBattery(k) \/ r.fit > InitCount)
  /\ ~r.broadcast => r.fit = m.fit \/ (~IsBattery(k) /\ r.fit = InitCount)

LEMMA KeyOwner ==
  ASSUME NEW k \in Key
  PROVE  Owner(k) \in Node
BY NodeAssumption DEF Key, Owner

LEMMA RegressionType ==
  ASSUME NEW k \in Key, NEW m \in Judged, NEW sigma \in Sigma
  PROVE  LET r == Regression(m, k, sigma) IN
         /\ r \in Judged
         /\ r.count = m.count /\ r.fit = m.count /\ r.broadcast = m.broadcast
         /\ r.dif = m.dif /\ r.state \in {m.state, "STABLE"}
         /\ IsBattery(k) => r.state = "STABLE"
BY DEF Regression, RegressionOfBattery, RegressionOfSignal, CalculateDeviations, Judged, State

LEMMA CompareAdded ==
  ASSUME NEW k \in Key, NEW n \in Judged, ~n.broadcast, n.count > InitCount,
         n.fit > 0 => n.fit >= InitCount,
         NEW value, NEW e, NEW sigma \in Sigma
  PROVE  LET r == Compare(n, k, value, e, sigma) IN
         /\ r \in Judged
         /\ r.count = n.count
         /\ r.broadcast => r.fit = n.count
         /\ ~r.broadcast => r.fit = n.fit
         /\ IsBattery(k) /\ r.state # "STABLE" => r.dif \in 1..MaxDiffCount - 1
         /\ Doubt(r)
<1> DEFINE verdict == Verdict(n, value, e)
           dif == CASE verdict = "STABLE" -> 0
                    [] verdict = "UNSTABLE" -> n.dif + 1
                    [] verdict = "BAD" -> MaxDiffCount + 1
           judged == [n EXCEPT !.state = verdict, !.dif = dif]
           r == Compare(n, k, value, e, sigma)
<1>1. verdict \in {"STABLE", "UNSTABLE", "BAD"}
  BY DEF Verdict
<1>2. /\ dif \in Nat
      /\ verdict = "UNSTABLE" => dif > 0
      /\ verdict = "BAD" => dif >= MaxDiffCount /\ dif > 0
  <2>1. n.dif \in Nat /\ MaxDiffCount \in Nat
    BY CountAssumption DEF Judged
  <2> QED BY <1>1, <2>1
<1> HIDE DEF verdict, dif
<1>3. /\ judged \in Judged /\ judged.count = n.count /\ judged.fit = n.fit
      /\ judged.broadcast = FALSE /\ judged.state = verdict /\ judged.dif = dif
  BY <1>1, <1>2 DEF Judged, State
<1>4. r = IF dif >= MaxDiffCount THEN AdaptModel(judged, k, sigma) ELSE judged
  BY DEF Compare, verdict, dif
<1> HIDE DEF judged, r
<1>5. CASE dif >= MaxDiffCount
  <2> DEFINE fitted == Regression(judged, k, sigma)
  <2>1. /\ fitted \in Judged /\ fitted.count = n.count /\ fitted.fit = n.count
        /\ fitted.dif = dif /\ fitted.state \in {verdict, "STABLE"}
        /\ IsBattery(k) => fitted.state = "STABLE"
    BY <1>3, RegressionType
  <2>2. r = [fitted EXCEPT !.broadcast = TRUE]
    BY <1>4, <1>5 DEF AdaptModel
  <2> HIDE DEF fitted
  <2>3. /\ r \in Judged /\ r.count = n.count /\ r.fit = n.count /\ r.broadcast
        /\ r.state = fitted.state /\ r.dif = dif
    BY <2>1, <2>2 DEF Judged
  <2>4. Doubt(r)
    BY <1>1, <1>2, <2>1, <2>3 DEF Doubt
  <2> QED BY <2>1, <2>3, <2>4 DEF r
<1>6. CASE ~(dif >= MaxDiffCount)
  <2>1. r = judged
    BY <1>4, <1>6
  <2>2. r.state # "STABLE" => r.dif \in 1..MaxDiffCount - 1
    BY <1>1, <1>2, <1>3, <1>6, <2>1, CountAssumption
  <2>3. Doubt(r)
    BY <1>1, <1>2, <1>3, <2>1 DEF Doubt
  <2> QED BY <1>3, <2>1, <2>2, <2>3 DEF r
<1> QED BY <1>5, <1>6

LEMMA AddDataPointAdded ==
  ASSUME TypeOK, FitsCounted, DoubtsSeen,
         NEW k \in Key, model[k].count < MaxPoints, NEW value, NEW e, NEW sigma \in Sigma
  PROVE  LET r == AddDataPoint(model[k], k, value, e, sigma) IN
         /\ r \in Judged
         /\ Added(k, model[k], r)
         /\ IsBattery(k) /\ r.fit > 0 /\ r.state # "STABLE" => r.dif \in 1..MaxDiffCount - 1
         /\ Doubt(r)
<1> DEFINE m == model[k]
           n == [m EXCEPT !.count = @ + 1]
           r == AddDataPoint(m, k, value, e, sigma)
<1>1. m \in Model
  BY DEF TypeOK
<1>2. /\ m.count \in Nat /\ m.count < MaxPoints /\ MaxPoints \in Nat /\ m.fit \in Nat
      /\ InitCount \in Nat \ {0} /\ m.fit <= m.count /\ (m.fit > 0 => m.fit >= InitCount)
  <2>1. m.count \in 0..MaxPoints /\ m.fit \in 0..MaxPoints
    BY <1>1 DEF Model
  <2>2. m.fit <= m.count /\ (m.fit > 0 => m.fit >= InitCount)
    BY DEF FitsCounted
  <2>3. InitCount \in Nat \ {0} /\ MaxPoints \in Nat
    BY CountAssumption
  <2>4. m.count < MaxPoints
    OBVIOUS
  <2> HIDE DEF m
  <2> QED BY <2>1, <2>2, <2>3, <2>4
<1>3. /\ n \in Judged /\ n.count = m.count + 1 /\ n.fit = m.fit
      /\ n.broadcast = FALSE /\ n.state = m.state /\ n.dif = m.dif
  <2>1. /\ n = [m EXCEPT !.count = m.count + 1] /\ m.count + 1 \in 0..MaxPoints
    BY <1>2
  <2> HIDE DEF m, n
  <2> QED BY <1>1, <2>1 DEF Model, Judged
<1>4. r = IF n.count < InitCount THEN n
          ELSE IF n.count = InitCount
               THEN IF IsBattery(k) THEN FitBattery(n, sigma) ELSE FitSignal(n, sigma)
          ELSE Compare(n, k, value, e, sigma)
  BY Zenon DEF AddDataPoint
<1> HIDE DEF m, n, r
<1>10. Doubt(n)
  <2>1. Doubt(m)
    BY DEF DoubtsSeen, m
  <2> QED BY <1>3, <2>1 DEF Doubt
<1>5. CASE n.count < InitCount
  BY <1>2, <1>3, <1>4, <1>5, <1>10 DEF Added, m, r
<1>6. CASE n.count = InitCount /\ IsBattery(k)
  <2> DEFINE fitted == Regression(n, k, sigma)
  <2>1. /\ fitted \in Judged /\ fitted.count = n.count /\ fitted.fit = n.count
        /\ fitted.state = "STABLE"
    BY <1>3, <1>6, RegressionType, Zenon
  <2>2. r = [fitted EXCEPT !.broadcast = TRUE]
    <3>1. r = FitBattery(n, sigma)
      BY <1>2, <1>3, <1>4, <1>6
    <3> QED BY <1>6, <3>1 DEF FitBattery, Regression
  <2> HIDE DEF fitted
  <2>3. /\ r \in Judged /\ r.count = n.count /\ r.fit = n.count /\ r.broadcast
        /\ r.state = "STABLE"
    BY <2>1, <2>2 DEF Judged
  <2>4. Doubt(r)
    BY <2>3 DEF Doubt
  <2> QED BY <1>2, <1>3, <1>6, <2>3, <2>4 DEF Added, m, r
<1>7. CASE n.count = InitCount /\ ~IsBattery(k)
  <2> DEFINE fitted == Regression(n, k, sigma)
  <2>1. /\ fitted \in Judged /\ fitted.count = n.count /\ fitted.fit = n.count
        /\ fitted.broadcast = FALSE /\ fitted.dif = n.dif
        /\ fitted.state \in {n.state, "STABLE"}
    BY <1>3, RegressionType, Zenon
  <2>2. r = fitted
    <3>1. r = FitSignal(n, sigma)
      BY <1>2, <1>3, <1>4, <1>7
    <3> QED BY <1>7, <3>1 DEF FitSignal, Regression
  <2> HIDE DEF fitted
  <2>3. Doubt(r)
    BY <1>10, <2>1, <2>2 DEF Doubt
  <2> QED BY <1>2, <1>3, <1>7, <2>1, <2>2, <2>3 DEF Added, m, r
<1>8. CASE n.count > InitCount
  <2>1. r = Compare(n, k, value, e, sigma)
    BY <1>2, <1>3, <1>4, <1>8
  <2>0. (n.fit > 0 => n.fit >= InitCount) /\ ~n.broadcast
    BY <1>2, <1>3
  <2>2. /\ r \in Judged /\ r.count = n.count
        /\ r.broadcast => r.fit = n.count
        /\ ~r.broadcast => r.fit = n.fit
        /\ IsBattery(k) /\ r.state # "STABLE" => r.dif \in 1..MaxDiffCount - 1
        /\ Doubt(r)
    BY <1>3, <1>8, <2>0, <2>1, CompareAdded
  <2>3. r.broadcast \in BOOLEAN
    BY <2>2 DEF Judged
  <2> QED BY <1>2, <1>3, <1>8, <2>2, <2>3 DEF Added, m, r
<1>9. n.count \in Nat
  BY <1>2, <1>3
<1> QED BY <1>2, <1>5, <1>6, <1>7, <1>8, <1>9 DEF m, r

-----------------------------------------------------------------------------
(* The queues of the air.                                                  *)

LEMMA AppendElements ==
  ASSUME NEW S, NEW s \in Seq(S), NEW x \in S
  PROVE  /\ Append(s, x) \in Seq(S) /\ Len(s) \in Nat
         /\ Len(Append(s, x)) = Len(s) + 1
         /\ \A i \in 1..Len(s) : Append(s, x)[i] = s[i]
         /\ Append(s, x)[Len(s) + 1] = x
OBVIOUS

LEMMA TailElements ==
  ASSUME NEW S, NEW s \in Seq(S), s # <<>>
  PROVE  /\ Tail(s) \in Seq(S) /\ Head(s) \in S /\ Head(s) = s[1]
         /\ Len(s) \in Nat \ {0}
         /\ Len(Tail(s)) = Len(s) - 1
         /\ \A i \in 1..Len(Tail(s)) : Tail(s)[i] = s[i + 1]
OBVIOUS

-----------------------------------------------------------------------------
(* A model is updated and, if it has a new fit, broadcast.                 *)

\* The channels that a broadcast of the measurement uses.
Uses(c, k) == c[1] = Owner(k) /\ c[2] \in Reach[c[1]]

\* A step that adds one data point to the measurement k: r is the model.
Update(k, r) ==
  /\ SendUpdatedModel(k, r)
  /\ UNCHANGED <<net, missed>>
  /\ r \in Judged
  /\ Added(k, model[k], r)

LEMMA UpdateModels ==
  ASSUME TypeOK, NEW k \in Key, NEW r, Update(k, r)
  PROVE  /\ model' \in [Key -> Model]
         /\ model'[k].fit = r.fit /\ model'[k].count = r.count
         /\ model'[k].state = r.state /\ model'[k].dif = r.dif
         /\ \A x \in Key \ {k} : model'[x] = model[x]
         /\ model[k].fit \in Nat /\ r.fit \in Nat /\ r.broadcast \in BOOLEAN
<1>1. model' = [model EXCEPT ![k] = [r EXCEPT !.broadcast = FALSE]] /\ r \in Judged
  BY DEF Update, SendUpdatedModel
<1>2. /\ [r EXCEPT !.broadcast = FALSE] \in Model
      /\ [r EXCEPT !.broadcast = FALSE].fit = r.fit
      /\ [r EXCEPT !.broadcast = FALSE].count = r.count
      /\ [r EXCEPT !.broadcast = FALSE].state = r.state
      /\ [r EXCEPT !.broadcast = FALSE].dif = r.dif
  BY <1>1 DEF Judged, Model
<1>3. model[k] \in Model
  BY DEF TypeOK
<1>4. model[k].fit \in Nat /\ r.fit \in Nat /\ r.broadcast \in BOOLEAN
  <2>1. model[k].fit \in 0..MaxPoints /\ r.fit \in 0..MaxPoints
    BY <1>1, <1>3 DEF Judged, Model
  <2>2. r.broadcast \in BOOLEAN
    BY <1>1 DEF Judged
  <2> QED BY <2>1, <2>2, CountAssumption
<1> QED BY <1>1, <1>2, <1>4 DEF TypeOK

\* What the air holds after a broadcast.
LEMMA UpdateAir ==
  ASSUME TypeOK, NEW k \in Key, NEW r, Update(k, r), NEW c \in Node \X Node
  PROVE  /\ Len(air[c]) \in Nat
         /\ \/ /\ r.broadcast /\ Uses(c, k)
               /\ Len(air'[c]) = Len(air[c]) + 1
               /\ \A i \in 1..Len(air[c]) : air'[c][i] = air[c][i]
               /\ air'[c][Len(air[c]) + 1].key = k
               /\ air'[c][Len(air[c]) + 1].fit = r.fit
            \/ /\ ~(r.broadcast /\ Uses(c, k))
               /\ air'[c] = air[c]
         /\ air'[c] \in Seq(Packet)
<1>1. air[c] \in Seq(Packet)
  BY DEF TypeOK
<1>2. r \in Judged /\ ModelPacket(k, r) \in Packet
      /\ ModelPacket(k, r).key = k /\ ModelPacket(k, r).fit = r.fit
  BY DEF Update, Judged, ModelPacket, Packet
<1>3. air'[c] = IF r.broadcast /\ Uses(c, k)
                THEN Append(air[c], ModelPacket(k, r)) ELSE air[c]
  BY DEF Update, SendUpdatedModel, Uses, TypeOK
<1>4. CASE r.broadcast /\ Uses(c, k)
  <2>1. air'[c] = Append(air[c], ModelPacket(k, r))
    BY <1>3, <1>4
  <2> QED BY <1>1, <1>2, <1>4, <2>1, AppendElements
<1>5. CASE ~(r.broadcast /\ Uses(c, k))
  BY <1>1, <1>3, <1>5
<1> QED BY <1>4, <1>5

LEMMA Values ==
  ASSUME TypeOK
  PROVE  /\ \A c \in Node \X Node : Len(air[c]) \in Nat
         /\ \A c \in Node \X Node : \A i \in 1..Len(air[c]) :
              air[c][i].key \in Key /\ air[c][i].fit \in Nat
         /\ \A n \in Node, x \in Key : net[n][x] \in Nat
         /\ \A x \in Key : model[x].fit \in Nat /\ model[x].count \in Nat
         /\ InitCount \in Nat \ {0}
<1>1. ASSUME NEW c \in Node \X Node
      PROVE  /\ Len(air[c]) \in Nat
             /\ \A i \in 1..Len(air[c]) : air[c][i].key \in Key /\ air[c][i].fit \in Nat
  <2>1. air[c] \in Seq(Packet)
    BY DEF TypeOK
  <2>2. \A i \in 1..Len(air[c]) : air[c][i] \in Packet
    BY <2>1
  <2>3. MaxPoints \in Nat
    BY CountAssumption
  <2> QED BY <2>1, <2>2, <2>3 DEF Packet
<1>2. ASSUME NEW n \in Node, NEW x \in Key PROVE net[n][x] \in Nat
  <2>1. net[n][x] \in 0..MaxPoints
    BY DEF TypeOK
  <2> QED BY <2>1, CountAssumption
<1>3. ASSUME NEW x \in Key PROVE model[x].fit \in Nat /\ model[x].count \in Nat
  <2>1. model[x] \in Model
    BY DEF TypeOK
  <2>2. model[x].fit \in 0..MaxPoints /\ model[x].count \in 0..MaxPoints
    BY <2>1 DEF Model
  <2> QED BY <2>2, CountAssumption
<1> QED BY <1>1, <1>2, <1>3, CountAssumption

LEMMA UpdateGrows ==
  ASSUME TypeOK, FitsCounted, NEW k \in Key, NEW r, Update(k, r)
  PROVE  /\ model[k].fit <= r.fit
         /\ \A x \in Key : model[x].fit <= model'[x].fit
         /\ r.broadcast => r.fit >= InitCount /\ (~IsBattery(k) => r.fit > InitCount)
         /\ ~r.broadcast => r.fit = model[k].fit \/ (~IsBattery(k) /\ r.fit = InitCount)
         /\ FitsCounted'
<1>1. /\ r.count = model[k].count + 1
      /\ r.fit = model[k].fit \/ r.fit = r.count
      /\ r.fit > 0 => r.fit >= InitCount
      /\ r.broadcast => r.fit = r.count /\ (IsBattery(k) \/ r.fit > InitCount)
      /\ ~r.broadcast => r.fit = model[k].fit \/ (~IsBattery(k) /\ r.fit = InitCount)
  BY DEF Update, Added
<1>2. model[k].fit <= model[k].count
  BY DEF FitsCounted
<1>3. model[k].fit \in Nat /\ model[k].count \in Nat /\ InitCount \in Nat \ {0}
  BY Values
<1>4. /\ model'[k].fit = r.fit /\ model'[k].count = r.count
      /\ \A x \in Key \ {k} : model'[x] = model[x]
  BY UpdateModels
<1>5. model[k].fit <= r.fit /\ r.fit <= r.count /\ r.count > 0
  BY <1>1, <1>2, <1>3
<1>6. \A x \in Key : model[x].fit <= model'[x].fit
  BY <1>4, <1>5, Values
<1>7. FitsCounted'
  BY <1>1, <1>4, <1>5 DEF FitsCounted
<1>8. r.broadcast => r.fit >= InitCount /\ (~IsBattery(k) => r.fit > InitCount)
  BY <1>1, <1>3, <1>5
<1> QED BY <1>1, <1>5, <1>6, <1>7, <1>8

LEMMA UpdateOrdered ==
  ASSUME TypeOK, FitsCounted, Ordered, NEW k \in Key, NEW r, Update(k, r)
  PROVE  Ordered'
<1>1. net' = net
  BY DEF Update
<1>2. /\ model'[k].fit = r.fit
      /\ \A x \in Key \ {k} : model'[x] = model[x]
      /\ \A x \in Key : model[x].fit <= model'[x].fit
      /\ model[k].fit <= r.fit /\ model[k].fit \in Nat /\ r.fit \in Nat
  BY UpdateModels, UpdateGrows
<1>3. \A x \in Key : model'[x].fit \in Nat
  BY <1>2, Values
<1>4. ASSUME NEW c \in Node \X Node, NEW i \in 1..Len(air'[c])
      PROVE  \/ /\ i \in 1..Len(air[c]) /\ air'[c][i] = air[c][i]
             \/ /\ r.broadcast /\ Uses(c, k)
                /\ i = Len(air[c]) + 1 /\ Len(air'[c]) = Len(air[c]) + 1
                /\ air'[c][i].key = k /\ air'[c][i].fit = r.fit
  BY UpdateAir
<1>5. OwnModels'
  <2> SUFFICES ASSUME NEW c \in Node \X Node, NEW i \in 1..Len(air'[c])
               PROVE  /\ Owner(air'[c][i].key) = c[1]
                      /\ c[2] \in Reach[c[1]]
                      /\ air'[c][i].fit >= InitCount
                      /\ ~IsBattery(air'[c][i].key) => air'[c][i].fit > InitCount
    BY DEF OwnModels
  <2>1. CASE i \in 1..Len(air[c]) /\ air'[c][i] = air[c][i]
    BY <2>1 DEF Ordered, OwnModels
  <2>2. CASE /\ r.broadcast /\ Uses(c, k)
             /\ air'[c][i].key = k /\ air'[c][i].fit = r.fit
    BY <2>2, UpdateGrows DEF Uses
  <2> QED BY <1>4, <2>1, <2>2
<1>6. AirOrdered'
  <2> SUFFICES ASSUME NEW c \in Node \X Node, NEW i \in 1..Len(air'[c])
               PROVE  /\ air'[c][i].fit <= model'[air'[c][i].key].fit
                      /\ net'[c[2]][air'[c][i].key] <= air'[c][i].fit
                      /\ \A j \in 1..Len(air'[c]) :
                           i < j /\ air'[c][j].key = air'[c][i].key
                             => air'[c][i].fit <= air'[c][j].fit
    BY DEF AirOrdered
  <2>1. CASE i \in 1..Len(air[c]) /\ air'[c][i] = air[c][i]
    <3>1. /\ air[c][i].key \in Key /\ air[c][i].fit \in Nat
          /\ air[c][i].fit <= model[air[c][i].key].fit
          /\ net[c[2]][air[c][i].key] <= air[c][i].fit
      BY <2>1, Values DEF Ordered, AirOrdered
    <3>2. air[c][i].fit <= model'[air[c][i].key].fit
      <4>1. PICK x \in Key, fit \in Nat : x = air[c][i].key /\ fit = air[c][i].fit
        BY <3>1
      <4>2. model[x].fit \in Nat /\ model'[x].fit \in Nat
        BY <1>3, Values
      <4>3. fit <= model[x].fit /\ model[x].fit <= model'[x].fit
        BY <1>2, <3>1, <4>1
      <4> QED BY <4>1, <4>2, <4>3
    <3>3. ASSUME NEW j \in 1..Len(air'[c]), i < j, air'[c][j].key = air'[c][i].key
          PROVE  air'[c][i].fit <= air'[c][j].fit
      <4>1. CASE j \in 1..Len(air[c]) /\ air'[c][j] = air[c][j]
        BY <2>1, <3>3, <4>1 DEF Ordered, AirOrdered
      <4>2. CASE air'[c][j].key = k /\ air'[c][j].fit = r.fit
        BY <2>1, <3>1, <3>3, <4>2, <1>2
      <4> QED BY <1>4, <4>1, <4>2
    <3> QED BY <1>1, <2>1, <3>1, <3>2, <3>3
  <2>2. CASE /\ i = Len(air[c]) + 1 /\ Len(air'[c]) = Len(air[c]) + 1
             /\ air'[c][i].key = k /\ air'[c][i].fit = r.fit
    <3>1. \A j \in 1..Len(air'[c]) : ~(i < j)
      BY <2>2, Values
    <3>2. net[c[2]][k] <= model[k].fit /\ net[c[2]][k] \in Nat
      BY Values DEF Ordered, NetOrdered
    <3>3. net[c[2]][k] <= r.fit
      BY <1>2, <3>2
    <3> QED BY <1>1, <1>2, <2>2, <3>1, <3>3
  <2> QED BY <1>4, <2>1, <2>2
<1>7. NetOrdered'
  <2> SUFFICES ASSUME NEW n \in Node, NEW x \in Key
               PROVE  /\ net[n][x] <= model'[x].fit
                      /\ ~IsBattery(x) => net[n][x] = 0 \/ net[n][x] > InitCount
    BY <1>1 DEF NetOrdered
  <2> QED BY <1>2, <1>3, Values DEF Ordered, NetOrdered
<1>8. LastIsModel'
  <2> SUFFICES ASSUME NEW c \in Node \X Node, NEW i \in 1..Len(air'[c]),
                      \A j \in 1..Len(air'[c]) : i < j => air'[c][j].key # air'[c][i].key
               PROVE  air'[c][i].fit = model'[air'[c][i].key].fit
    BY DEF LastIsModel
  <2>1. CASE air'[c][i].key = k /\ air'[c][i].fit = r.fit
    BY <1>2, <2>1
  <2>2. CASE i \in 1..Len(air[c]) /\ air'[c][i] = air[c][i]
    <3>1. /\ air[c][i].key \in Key /\ air[c][i].fit \in Nat
          /\ air[c][i].fit <= model[air[c][i].key].fit
          /\ Owner(air[c][i].key) = c[1] /\ c[2] \in Reach[c[1]]
          /\ ~IsBattery(air[c][i].key) => air[c][i].fit > InitCount
      BY <2>2, Values DEF Ordered, AirOrdered, OwnModels
    <3>2. air[c][i].fit = model[air[c][i].key].fit
      <4>1. \A j \in 1..Len(air[c]) : j \in 1..Len(air'[c]) /\ air'[c][j] = air[c][j]
        BY UpdateAir
      <4>2. \A j \in 1..Len(air[c]) : i < j => air[c][j].key # air[c][i].key
        BY <2>2, <4>1
      <4> QED BY <2>2, <4>2 DEF Ordered, LastIsModel
    <3>3. CASE air[c][i].key # k
      BY <1>2, <2>2, <3>1, <3>2, <3>3
    <3>4. CASE air[c][i].key = k
      <4>1. Uses(c, k)
        BY <3>1, <3>4 DEF Uses
      <4>2. ~r.broadcast
        <5> SUFFICES ASSUME r.broadcast PROVE FALSE
          OBVIOUS
        <5>1. /\ Len(air'[c]) = Len(air[c]) + 1 /\ Len(air[c]) \in Nat
              /\ air'[c][Len(air[c]) + 1].key = k
          BY <4>1, UpdateAir
        <5>2. Len(air[c]) + 1 \in 1..Len(air'[c]) /\ i < Len(air[c]) + 1
          BY <2>2, <5>1
        <5> QED BY <2>2, <3>4, <5>1, <5>2
      <4>3. r.fit = model[k].fit \/ (~IsBattery(k) /\ r.fit = InitCount)
        BY <4>2, UpdateGrows
      <4>4. InitCount \in Nat
        BY Values
      <4> QED BY <1>2, <2>2, <3>1, <3>2, <3>4, <4>3, <4>4
    <3> QED BY <3>3, <3>4
  <2> QED BY <1>4, <2>1, <2>2
<1> QED BY <1>5, <1>6, <1>7, <1>8 DEF Ordered

\* A broadcast fit is on its way to every node in reach; one that is not broadcast is
\* the same as before or the first of a signal.
LEMMA UpdateQuiet ==
  ASSUME TypeOK, FitsCounted, Ordered, CopiesAgree, NEW k \in Key, NEW r, Update(k, r)
  PROVE  CopiesAgree'
<1> SUFFICES ASSUME NEW x \in Key, NEW n \in Reach[Owner(x)] \ {Owner(x)}
             PROVE  \/ x \in missed'[n]
                    \/ \E i \in DOMAIN air'[<<Owner(x), n>>] : air'[<<Owner(x), n>>][i].key = x
                    \/ net'[n][x] = model'[x].fit
                    \/ ~IsBattery(x) /\ model'[x].fit = InitCount /\ net'[n][x] = 0
  BY DEF CopiesAgree
<1> DEFINE c == <<Owner(x), n>>
<1>1. c \in Node \X Node /\ n \in Node /\ c[1] = Owner(x) /\ c[2] = n
  BY KeyOwner, NodeAssumption
<1>2. /\ net' = net /\ missed' = missed
      /\ model'[k].fit = r.fit
      /\ \A y \in Key \ {k} : model'[y] = model[y]
  BY UpdateModels DEF Update
<1>3. /\ air[c] \in Seq(Packet) /\ air'[c] \in Seq(Packet) /\ Len(air[c]) \in Nat
      /\ \A i \in 1..Len(air[c]) : i \in 1..Len(air'[c]) /\ air'[c][i] = air[c][i]
  <2> HIDE DEF c
  <2>1. air[c] \in Seq(Packet)
    BY <1>1 DEF TypeOK
  <2> QED BY <1>1, <2>1, UpdateAir
<1>5. CASE x \in missed[n]
  BY <1>2, <1>5
<1>6. CASE \E i \in DOMAIN air[c] : air[c][i].key = x
  BY <1>3, <1>6, SMTT(20), ZenonT(30)
<1>7. CASE net[n][x] = model[x].fit
  <2>1. CASE x # k
    BY <1>2, <1>7, <2>1
  <2>2. CASE x = k /\ r.broadcast
    <3>1. Uses(c, k)
      BY <1>1, <2>2 DEF Uses
    <3>2. /\ Len(air'[c]) = Len(air[c]) + 1
          /\ air'[c][Len(air[c]) + 1].key = k
      BY <1>1, <2>2, <3>1, UpdateAir
    <3>3. Len(air[c]) + 1 \in DOMAIN air'[c]
      BY <1>3, <3>2
    <3> QED BY <2>2, <3>2, <3>3
  <2>3. CASE x = k /\ ~r.broadcast
    <3>1. \/ r.fit = model[k].fit
          \/ ~IsBattery(k) /\ r.fit = InitCount /\ model[k].fit <= r.fit
      BY <2>3, UpdateGrows
    <3>2. CASE r.fit = model[k].fit
      BY <1>2, <1>7, <2>3, <3>2
    <3>3. CASE ~IsBattery(k) /\ r.fit = InitCount /\ model[k].fit <= r.fit
      <4>1. net[n][k] = 0 \/ net[n][k] > InitCount
        BY <1>1, <3>3 DEF Ordered, NetOrdered
      <4>2. net[n][k] <= InitCount /\ net[n][k] \in Nat /\ InitCount \in Nat
        BY <1>1, <1>7, <2>3, <3>3, Values
      <4> QED BY <1>2, <2>3, <3>3, <4>1, <4>2
    <3> QED BY <3>1, <3>2, <3>3
  <2> QED BY <2>1, <2>2, <2>3
<1>8. CASE ~IsBattery(x) /\ model[x].fit = InitCount /\ net[n][x] = 0
  <2>1. CASE x # k
    BY <1>2, <1>8, <2>1
  <2>2. CASE x = k /\ r.broadcast
    <3>1. Uses(c, k)
      BY <1>1, <2>2 DEF Uses
    <3>2. /\ Len(air'[c]) = Len(air[c]) + 1
          /\ air'[c][Len(air[c]) + 1].key = k
      BY <1>1, <2>2, <3>1, UpdateAir
    <3>3. Len(air[c]) + 1 \in DOMAIN air'[c]
      BY <1>3, <3>2
    <3> QED BY <2>2, <3>2, <3>3
  <2>3. CASE x = k /\ ~r.broadcast
    BY <1>2, <1>8, <2>3, UpdateGrows
  <2> QED BY <2>1, <2>2, <2>3
<1> QED BY <1>5, <1>6, <1>7, <1>8 DEF CopiesAgree

-----------------------------------------------------------------------------
(* The first packet of a channel is handled or lost.                       *)

Takes(c) == air[c] # <<>> /\ air' = [air EXCEPT ![c] = Tail(@)] /\ UNCHANGED model

\* Where the i-th packet of channel d was.
At(c, d, i) == IF d = c THEN i + 1 ELSE i

LEMMA TakesAir ==
  ASSUME TypeOK, NEW c \in Node \X Node, Takes(c), NEW d \in Node \X Node
  PROVE  /\ air'[d] \in Seq(Packet)
         /\ \A i \in 1..Len(air'[d]) :
              At(c, d, i) \in 1..Len(air[d]) /\ air'[d][i] = air[d][At(c, d, i)]
         /\ \A j \in 1..Len(air[d]) :
              (d = c /\ j = 1) \/ \E i \in 1..Len(air'[d]) : j = At(c, d, i)
<1>1. air[d] \in Seq(Packet)
  BY DEF TypeOK
<1>2. CASE d = c
  <2>1. air[d] # <<>> /\ air'[d] = Tail(air[d])
    BY <1>2 DEF Takes, TypeOK
  <2>2. /\ air'[d] \in Seq(Packet) /\ Len(air[d]) \in Nat
        /\ Len(air'[d]) = Len(air[d]) - 1
        /\ \A i \in 1..Len(air'[d]) : air'[d][i] = air[d][i + 1]
    BY <1>1, <2>1, TailElements
  <2>3. \A i : At(c, d, i) = i + 1
    BY <1>2 DEF At
  <2>4. ASSUME NEW j \in 1..Len(air[d]), j # 1
        PROVE  \E i \in 1..Len(air'[d]) : j = At(c, d, i)
    <3>1. j - 1 \in 1..Len(air'[d]) /\ j = At(c, d, j - 1)
      BY <2>2, <2>3, <2>4
    <3> QED BY <3>1
  <2>5. ASSUME NEW i \in 1..Len(air'[d])
        PROVE  At(c, d, i) \in 1..Len(air[d]) /\ air'[d][i] = air[d][At(c, d, i)]
    <3>1. i + 1 \in 1..Len(air[d]) /\ air'[d][i] = air[d][i + 1]
      BY <2>2
    <3> QED BY <2>3, <3>1
  <2>6. \A j \in 1..Len(air[d]) : (d = c /\ j = 1) \/ \E i \in 1..Len(air'[d]) : j = At(c, d, i)
    BY <1>2, <2>4
  <2> QED BY <2>2, <2>5, <2>6
<1>3. CASE d # c
  <2>1. air'[d] = air[d]
    BY <1>3 DEF Takes, TypeOK
  <2>2. \A i : At(c, d, i) = i
    BY <1>3 DEF At
  <2> QED BY <1>1, <1>3, <2>1, <2>2
<1> QED BY <1>2, <1>3

LEMMA TakesOrdered ==
  ASSUME TypeOK, Ordered, NEW c \in Node \X Node, Takes(c),
         \/ net' = net
         \/ net' = [net EXCEPT ![c[2]][air[c][1].key] = air[c][1].fit]
  PROVE  /\ Ordered'
         /\ \A n \in Node, x \in Key : net'[n][x] >= net[n][x]
<1> DEFINE p == air[c][1]
<1>1. /\ 1 \in 1..Len(air[c]) /\ p.key \in Key /\ p.fit \in Nat
      /\ Owner(p.key) = c[1] /\ p.fit <= model[p.key].fit
      /\ ~IsBattery(p.key) => p.fit > InitCount
      /\ net[c[2]][p.key] <= p.fit
  <2>1. air[c] \in Seq(Packet) /\ air[c] # <<>>
    BY DEF TypeOK, Takes
  <2>2. 1 \in 1..Len(air[c])
    BY <2>1
  <2> QED BY <2>2, Values DEF Ordered, OwnModels, AirOrdered
<1>2. model' = model
  BY DEF Takes
<1>3. /\ c = <<c[1], c[2]>> /\ c[2] \in Node
      /\ \A n \in Node, x \in Key :
           \/ net'[n][x] = net[n][x]
           \/ n = c[2] /\ x = p.key /\ net'[n][x] = p.fit
  <2>1. c = <<c[1], c[2]>> /\ c[2] \in Node
    OBVIOUS
  <2> QED BY <2>1, <1>1 DEF TypeOK
<1> HIDE DEF p
<1>4. ASSUME NEW d \in Node \X Node, NEW i \in 1..Len(air'[d])
      PROVE  /\ At(c, d, i) \in 1..Len(air[d]) /\ air'[d][i] = air[d][At(c, d, i)]
             /\ air'[d][i].key \in Key /\ air'[d][i].fit \in Nat
             /\ Len(air'[d]) \in Nat /\ Len(air[d]) \in Nat
  BY TakesAir, Values
<1>5. OwnModels'
  BY <1>4 DEF Ordered, OwnModels
<1>6. AirOrdered'
  <2> SUFFICES ASSUME NEW d \in Node \X Node, NEW i \in 1..Len(air'[d])
               PROVE  /\ air'[d][i].fit <= model[air'[d][i].key].fit
                      /\ net'[d[2]][air'[d][i].key] <= air'[d][i].fit
                      /\ \A j \in 1..Len(air'[d]) :
                           i < j /\ air'[d][j].key = air'[d][i].key
                             => air'[d][i].fit <= air'[d][j].fit
    BY <1>2 DEF AirOrdered
  <2>1. air'[d][i].fit <= model[air'[d][i].key].fit
    BY <1>4 DEF Ordered, AirOrdered
  <2>2. ASSUME NEW j \in 1..Len(air'[d]), i < j, air'[d][j].key = air'[d][i].key
        PROVE  air'[d][i].fit <= air'[d][j].fit
    <3>1. At(c, d, i) < At(c, d, j)
      BY <1>4, <2>2 DEF At
    <3>2. /\ At(c, d, i) \in 1..Len(air[d]) /\ air'[d][i] = air[d][At(c, d, i)]
          /\ At(c, d, j) \in 1..Len(air[d]) /\ air'[d][j] = air[d][At(c, d, j)]
      BY <1>4
    <3> QED BY <2>2, <3>1, <3>2 DEF Ordered, AirOrdered
  <2>3. net'[d[2]][air'[d][i].key] <= air'[d][i].fit
    <3>1. d = <<d[1], d[2]>> /\ d[2] \in Node
      OBVIOUS
    <3>2. CASE net'[d[2]][air'[d][i].key] = net[d[2]][air'[d][i].key]
      <4>1. net[d[2]][air[d][At(c, d, i)].key] <= air[d][At(c, d, i)].fit
        BY <1>4 DEF Ordered, AirOrdered
      <4> QED BY <1>4, <3>2, <4>1
    <3>3. CASE /\ d[2] = c[2] /\ air'[d][i].key = p.key
               /\ net'[d[2]][air'[d][i].key] = p.fit
      <4>1. Owner(air'[d][i].key) = d[1]
        BY <1>5 DEF OwnModels
      <4>2. d = c
        BY <1>1, <1>3, <3>1, <3>3, <4>1
      <4>3. At(c, d, i) = i + 1 /\ 1 < i + 1
        BY <1>4, <4>2 DEF At
      <4>4. /\ 1 \in 1..Len(air[c]) /\ i + 1 \in 1..Len(air[c])
            /\ air'[d][i] = air[c][i + 1]
        BY <1>1, <1>4, <4>2, <4>3
      <4>5. p.fit <= air[c][i + 1].fit
        BY <3>3, <4>3, <4>4 DEF Ordered, AirOrdered, p
      <4> QED BY <3>3, <4>4, <4>5
    <3> QED BY <1>3, <1>4, <3>1, <3>2, <3>3
  <2> QED BY <2>1, <2>2, <2>3
<1>7. NetOrdered'
  <2> SUFFICES ASSUME NEW n \in Node, NEW x \in Key
               PROVE  /\ net'[n][x] <= model[x].fit
                      /\ ~IsBattery(x) => net'[n][x] = 0 \/ net'[n][x] > InitCount
    BY <1>2 DEF NetOrdered
  <2> QED BY <1>1, <1>3 DEF Ordered, NetOrdered
<1>8. LastIsModel'
  <2> SUFFICES ASSUME NEW d \in Node \X Node, NEW i \in 1..Len(air'[d]),
                      \A j \in 1..Len(air'[d]) : i < j => air'[d][j].key # air'[d][i].key
               PROVE  air'[d][i].fit = model[air'[d][i].key].fit
    BY <1>2 DEF LastIsModel
  <2>1. /\ At(c, d, i) \in 1..Len(air[d]) /\ air'[d][i] = air[d][At(c, d, i)]
        /\ Len(air'[d]) \in Nat /\ Len(air[d]) \in Nat
    BY <1>4
  <2>2. ASSUME NEW j \in 1..Len(air[d]), At(c, d, i) < j
        PROVE  air[d][j].key # air[d][At(c, d, i)].key
    <3>1. ~(d = c /\ j = 1)
      BY <2>1, <2>2 DEF At
    <3>2. PICK q \in 1..Len(air'[d]) : j = At(c, d, q)
      BY <3>1, TakesAir
    <3>3. i < q
      BY <2>1, <2>2, <3>2 DEF At
    <3>4. air'[d][q] = air[d][j]
      BY <1>4, <3>2
    <3> QED BY <2>1, <3>3, <3>4
  <2> QED BY <2>1, <2>2 DEF Ordered, LastIsModel
<1>9. ASSUME NEW n \in Node, NEW x \in Key PROVE net'[n][x] >= net[n][x]
  BY <1>1, <1>3, Values
<1> QED BY <1>5, <1>6, <1>7, <1>8, <1>9 DEF Ordered

\* A packet leaves the air: its receiver has it, or missed it.
LEMMA TakesQuiet ==
  ASSUME TypeOK, Ordered, CopiesAgree, NEW c \in Node \X Node, Takes(c),
         \/ /\ net' = [net EXCEPT ![c[2]][air[c][1].key] = air[c][1].fit]
            /\ missed' = [missed EXCEPT ![c[2]] = @ \ {air[c][1].key}]
         \/ /\ net' = net
            /\ missed' = [missed EXCEPT ![c[2]] = @ \cup {air[c][1].key}]
  PROVE  CopiesAgree'
<1> DEFINE p == air[c][1]
<1> SUFFICES ASSUME NEW x \in Key, NEW n \in Reach[Owner(x)] \ {Owner(x)}
             PROVE  \/ x \in missed'[n]
                    \/ \E i \in DOMAIN air'[<<Owner(x), n>>] : air'[<<Owner(x), n>>][i].key = x
                    \/ net'[n][x] = model'[x].fit
                    \/ ~IsBattery(x) /\ model'[x].fit = InitCount /\ net'[n][x] = 0
  BY DEF CopiesAgree
<1> DEFINE d == <<Owner(x), n>>
<1>1. d \in Node \X Node /\ n \in Node
  BY KeyOwner, NodeAssumption
<1>2. /\ model' = model /\ c = <<c[1], c[2]>> /\ c[2] \in Node
      /\ 1 \in 1..Len(air[c]) /\ p.key \in Key /\ Owner(p.key) = c[1]
  <2>1. air[c] \in Seq(Packet) /\ air[c] # <<>>
    BY DEF TypeOK, Takes
  <2>2. 1 \in 1..Len(air[c])
    BY <2>1
  <2> QED BY <2>2, Values DEF Ordered, OwnModels, Takes
<1>3. \A j \in 1..Len(air[d]) : (d = c /\ j = 1) \/ \E i \in 1..Len(air'[d]) : air'[d][i] = air[d][j]
  BY <1>1, TakesAir
<1>4. air[d] \in Seq(Packet) /\ air'[d] \in Seq(Packet)
  BY <1>1, TakesAir DEF TypeOK
<1>5. CASE d = c /\ x = p.key
  <2>1. CASE /\ net' = net
             /\ missed' = [missed EXCEPT ![c[2]] = @ \cup {p.key}]
    BY <1>1, <1>2, <1>5, <2>1 DEF TypeOK
  <2>2. CASE net' = [net EXCEPT ![c[2]][p.key] = p.fit]
    <3>1. CASE \E j \in 1..Len(air[d]) : 1 < j /\ air[d][j].key = x
      <4>1. PICK j \in 1..Len(air[d]) : 1 < j /\ air[d][j].key = x
        BY <3>1
      <4>2. PICK i \in 1..Len(air'[d]) : air'[d][i] = air[d][j]
        <5>1. ~(d = c /\ j = 1)
          BY <4>1
        <5> QED BY <1>3, <5>1
      <4>3. i \in DOMAIN air'[d]
        BY <1>4
      <4> QED BY <4>1, <4>2, <4>3
    <3>2. CASE ~ \E j \in 1..Len(air[d]) : 1 < j /\ air[d][j].key = x
      <4>1. p.fit = model[x].fit
        <5>1. \A j \in 1..Len(air[c]) : 1 < j => air[c][j].key # air[c][1].key
          BY <1>5, <3>2
        <5>2. LastIsModel
          BY DEF Ordered
        <5>3. air[c][1].fit = model[air[c][1].key].fit
          BY <1>2, <5>1, <5>2 DEF LastIsModel
        <5> QED BY <1>5, <5>3
      <4>2. net'[n][x] = p.fit
        BY <1>1, <1>2, <1>5, <2>2 DEF TypeOK
      <4> QED BY <1>2, <4>1, <4>2
    <3> QED BY <3>1, <3>2
  <2> QED BY <2>1, <2>2
<1>6. CASE ~(d = c /\ x = p.key)
  <2>1. ~(n = c[2] /\ x = p.key)
    BY <1>2, <1>6
  <2>2. net'[n][x] = net[n][x] /\ (x \in missed[n] => x \in missed'[n])
    <3> HIDE DEF p
    <3>1. \/ /\ net' = [net EXCEPT ![c[2]][p.key] = p.fit]
             /\ missed' = [missed EXCEPT ![c[2]] = @ \ {p.key}]
          \/ /\ net' = net
             /\ missed' = [missed EXCEPT ![c[2]] = @ \cup {p.key}]
      BY DEF p
    <3>2. net'[n][x] = net[n][x]
      BY <1>1, <1>2, <2>1, <3>1 DEF TypeOK, p
    <3>3. x \in missed[n] => x \in missed'[n]
      BY <1>1, <1>2, <2>1, <3>1 DEF TypeOK
    <3> QED BY <3>2, <3>3
  <2>3. (\E j \in DOMAIN air[d] : air[d][j].key = x) => \E i \in DOMAIN air'[d] : air'[d][i].key = x
    <3> SUFFICES ASSUME NEW j \in DOMAIN air[d], air[d][j].key = x
                 PROVE  \E i \in DOMAIN air'[d] : air'[d][i].key = x
      OBVIOUS
    <3>1. DOMAIN air[d] = 1..Len(air[d]) /\ DOMAIN air'[d] = 1..Len(air'[d])
      BY <1>4
    <3>2. ~(d = c /\ j = 1)
      BY <1>6
    <3>3. PICK i \in 1..Len(air'[d]) : air'[d][i] = air[d][j]
      BY <1>3, <3>1, <3>2
    <3> QED BY <3>1, <3>3
  <2> QED BY <1>2, <2>2, <2>3 DEF CopiesAgree
<1> QED BY <1>5, <1>6

-----------------------------------------------------------------------------
(* Every step.                                                             *)

\* What the step of an action has to keep.
Kept ==
  /\ IInv' /\ CopiesAgree' /\ BatteryRecovers' /\ DoubtsSeen'
  /\ \A n \in Node, k \in Key : net'[n][k] >= net[n][k]

LEMMA BatteryKey ==
  ASSUME NEW o \in Battery
  PROVE  <<o>> \in Key /\ IsBattery(<<o>>)
BY DEF Key, IsBattery

\* A data point of a battery or a signal.
LEMMA UpdateKept ==
  ASSUME IInv, CopiesAgree, BatteryRecovers, DoubtsSeen,
         NEW k \in Key, model[k].count < MaxPoints,
         NEW value, NEW e, NEW sigma \in Sigma,
         SendUpdatedModel(k, AddDataPoint(model[k], k, value, e, sigma)),
         UNCHANGED <<net, missed>>, links' \in [Node -> SUBSET Node]
  PROVE  Kept
<1> DEFINE r == AddDataPoint(model[k], k, value, e, sigma)
<1>0. TypeOK /\ FitsCounted /\ Ordered
  BY DEF IInv
<1>1. /\ r \in Judged /\ Added(k, model[k], r) /\ Doubt(r)
      /\ IsBattery(k) /\ r.fit > 0 /\ r.state # "STABLE" => r.dif \in 1..MaxDiffCount - 1
  BY <1>0, AddDataPointAdded
<1>2. Update(k, r)
  BY <1>1 DEF Update
<1> HIDE DEF r
<1>3. TypeOK'
  <2>1. model' \in [Key -> Model]
    BY <1>0, <1>2, UpdateModels
  <2>2. \A c \in Node \X Node : air'[c] \in Seq(Packet)
    BY <1>0, <1>2, UpdateAir
  <2>3. air' = [c \in Node \X Node |-> air'[c]]
    BY <1>0, <1>2 DEF Update, SendUpdatedModel, TypeOK
  <2>4. air' \in [Node \X Node -> Seq(Packet)]
    BY <2>2, <2>3
  <2> QED BY <1>0, <2>1, <2>4 DEF TypeOK
<1>4. FitsCounted' /\ Ordered' /\ CopiesAgree'
  BY <1>0, <1>2, UpdateGrows, UpdateOrdered, UpdateQuiet
<1>5. BatteryRecovers'
  <2> SUFFICES ASSUME NEW o \in Battery, model'[<<o>>].fit > 0, model'[<<o>>].state # "STABLE"
               PROVE  model'[<<o>>].dif \in 1..MaxDiffCount - 1
    BY DEF BatteryRecovers
  <2>1. CASE k = <<o>>
    BY <1>0, <1>1, <1>2, <2>1, UpdateModels, BatteryKey
  <2>2. CASE k # <<o>>
    <3>1. model'[<<o>>] = model[<<o>>]
      BY <1>0, <1>2, <2>2, UpdateModels, BatteryKey
    <3> QED BY <3>1 DEF BatteryRecovers
  <2> QED BY <2>1, <2>2
<1>6. ASSUME NEW n \in Node, NEW x \in Key PROVE net'[n][x] >= net[n][x]
  BY <1>0, Values
<1>7. DoubtsSeen'
  <2> SUFFICES ASSUME NEW x \in Key PROVE Doubt(model'[x])
    BY DEF DoubtsSeen
  <2>1. CASE x = k
    BY <1>0, <1>1, <1>2, <2>1, UpdateModels DEF Doubt
  <2>2. CASE x # k
    <3>1. model'[x] = model[x]
      BY <1>0, <1>2, <2>2, UpdateModels
    <3> QED BY <3>1 DEF DoubtsSeen
  <2> QED BY <2>1, <2>2
<1> QED BY <1>3, <1>4, <1>5, <1>6, <1>7 DEF IInv, Kept

LEMMA TakesKept ==
  ASSUME IInv, CopiesAgree, BatteryRecovers, DoubtsSeen, NEW c \in Node \X Node, Takes(c),
         \/ /\ net' = [net EXCEPT ![c[2]][air[c][1].key] = air[c][1].fit]
            /\ missed' = [missed EXCEPT ![c[2]] = @ \ {air[c][1].key}]
         \/ /\ net' = net
            /\ missed' = [missed EXCEPT ![c[2]] = @ \cup {air[c][1].key}],
         UNCHANGED links
  PROVE  Kept
<1>0. TypeOK /\ FitsCounted /\ Ordered
  BY DEF IInv
<1>1. Ordered' /\ CopiesAgree' /\ \A n \in Node, x \in Key : net'[n][x] >= net[n][x]
  BY <1>0, TakesOrdered, TakesQuiet
<1>2. FitsCounted' /\ BatteryRecovers' /\ DoubtsSeen'
  BY <1>0 DEF Takes, FitsCounted, BatteryRecovers, DoubtsSeen
<1>3. TypeOK'
  <2>1. /\ air[c] \in Seq(Packet) /\ air[c] # <<>>
    BY <1>0 DEF Takes, TypeOK
  <2>2. air[c][1] \in Packet /\ Tail(air[c]) \in Seq(Packet)
    BY <2>1
  <2>3. air[c][1].key \in Key /\ air[c][1].fit \in 0..MaxPoints
    BY <2>2 DEF Packet
  <2>4. air' \in [Node \X Node -> Seq(Packet)]
    BY <1>0, <2>2 DEF Takes, TypeOK
  <2>5. net' \in [Node -> [Key -> 0..MaxPoints]]
    <3>1. CASE net' = net
      BY <1>0, <3>1 DEF TypeOK
    <3>2. CASE net' = [net EXCEPT ![c[2]][air[c][1].key] = air[c][1].fit]
      <4>1. c[2] \in Node /\ net[c[2]] \in [Key -> 0..MaxPoints]
        BY <1>0 DEF TypeOK
      <4>2. [net[c[2]] EXCEPT ![air[c][1].key] = air[c][1].fit] \in [Key -> 0..MaxPoints]
        BY <2>3, <4>1
      <4> QED BY <1>0, <3>2, <4>1, <4>2 DEF TypeOK
    <3> QED BY <3>1, <3>2
  <2>6. missed' \in [Node -> SUBSET Key]
    <3>1. c[2] \in Node /\ missed[c[2]] \in SUBSET Key
      BY <1>0 DEF TypeOK
    <3>2. /\ missed[c[2]] \ {air[c][1].key} \in SUBSET Key
          /\ missed[c[2]] \cup {air[c][1].key} \in SUBSET Key
      BY <2>3, <3>1
    <3>3. \E m \in SUBSET Key : missed' = [missed EXCEPT ![c[2]] = m]
      BY <3>2, Zenon
    <3> QED BY <1>0, <3>1, <3>3 DEF TypeOK
  <2> QED BY <1>0, <2>4, <2>5, <2>6 DEF TypeOK, Takes
<1> QED BY <1>0, <1>1, <1>2, <1>3 DEF IInv, Kept

LEMMA InitIInv ==
  ASSUME Init
  PROVE  IInv /\ CopiesAgree /\ BatteryRecovers /\ DoubtsSeen
<1>1. /\ MaxPoints \in Nat /\ InitCount \in Nat \ {0} /\ 0 \in Sigma
      /\ 0 \in 0..MaxPoints
  BY CountAssumption, ValueAssumption
<1>2. ASSUME NEW k \in Key
      PROVE  /\ NewModel(k) \in Model
             /\ NewModel(k).fit = 0 /\ NewModel(k).count = 0 /\ Doubt(NewModel(k))
  BY <1>1 DEF NewModel, Model, State, Doubt
<1>3. TypeOK
  BY <1>1, <1>2 DEF Init, TypeOK
<1>4. \A c \in Node \X Node : air[c] = <<>> /\ Len(air[c]) = 0
  BY DEF Init
<1>5. FitsCounted /\ BatteryRecovers /\ DoubtsSeen
  BY <1>2, BatteryKey DEF Init, FitsCounted, BatteryRecovers, DoubtsSeen
<1>6. OwnModels /\ AirOrdered /\ LastIsModel
  BY <1>4 DEF OwnModels, AirOrdered, LastIsModel
<1>7. NetOrdered
  BY <1>2 DEF Init, NetOrdered
<1>8. CopiesAgree
  BY <1>2, KeyOwner, NodeAssumption DEF Init, CopiesAgree
<1> QED BY <1>3, <1>5, <1>6, <1>7, <1>8 DEF IInv, Ordered

LEMMA NextKept ==
  ASSUME IInv, CopiesAgree, BatteryRecovers, DoubtsSeen, Next
  PROVE  Kept
<1>0. TypeOK
  BY DEF IInv
<1>1. ASSUME NEW k \in Signal, UpdatePairData(k) PROVE Kept
  <2>1. k \in Key
    BY DEF Key
  <2>2. PICK value \in Value, e \in Value, sigma \in Sigma :
          SendUpdatedModel(k, AddDataPoint(model[k], k, value, e, sigma))
    BY <1>1 DEF UpdatePairData
  <2> QED BY <1>0, <1>1, <2>1, <2>2, UpdateKept DEF UpdatePairData, TypeOK
<1>2. ASSUME NEW o \in Battery, UpdateLocalModels(o) PROVE Kept
  <2>1. PICK value \in Value, e \in Value, sigma \in Sigma :
          SendUpdatedModel(<<o>>, AddDataPoint(model[<<o>>], <<o>>, value, e, sigma))
    BY <1>2 DEF UpdateLocalModels, UpdateLocalBatteryModel
  <2>2. links' \in [Node -> SUBSET Node]
    <3>1. PICK predicted \in [{k \in Signal : Owner(k) = o} -> Value] :
            links' = [links EXCEPT ![o] =
              {k[2] : k \in {s \in DOMAIN predicted :
                 model[s].count > 0 /\ GetDataPoint(model[s], predicted[s]) > 0}}]
      BY <1>2 DEF UpdateLocalModels
    <3>2. \A s \in DOMAIN predicted : s[2] \in Node
      BY <3>1, NodeAssumption
    <3>3. PICK new \in SUBSET Node : links' = [links EXCEPT ![o] = new]
      BY <3>1, <3>2
    <3>4. links \in [Node -> SUBSET Node]
      BY <1>0 DEF TypeOK
    <3> QED BY <3>3, <3>4
  <2>3. <<o>> \in Key
    BY BatteryKey
  <2> QED BY <1>2, <2>1, <2>2, <2>3, UpdateKept DEF UpdateLocalModels
<1>3. ASSUME NEW c \in Node \X Node, HandleMonitoringPacket(c) PROVE Kept
  <2>1. Head(air[c]) = air[c][1]
    BY <1>0 DEF TypeOK
  <2> QED BY <1>3, <2>1, TakesKept DEF HandleMonitoringPacket, Takes
<1>4. ASSUME NEW c \in Node \X Node, Lose(c) PROVE Kept
  <2>1. Head(air[c]) = air[c][1]
    BY <1>0 DEF TypeOK
  <2> QED BY <1>4, <2>1, TakesKept DEF Lose, Takes
<1> QED BY <1>1, <1>2, <1>3, <1>4 DEF Next

LEMMA Invariant ==
  Spec => [](IInv /\ CopiesAgree /\ BatteryRecovers /\ DoubtsSeen)
<1>1. Init => IInv /\ CopiesAgree /\ BatteryRecovers /\ DoubtsSeen
  BY InitIInv
<1>2. IInv /\ CopiesAgree /\ BatteryRecovers /\ DoubtsSeen /\ [Next]_vars
        => (IInv /\ CopiesAgree /\ BatteryRecovers /\ DoubtsSeen)'
  <2> SUFFICES ASSUME IInv, CopiesAgree, BatteryRecovers, DoubtsSeen, [Next]_vars
               PROVE  (IInv /\ CopiesAgree /\ BatteryRecovers /\ DoubtsSeen)'
    OBVIOUS
  <2>1. CASE Next
    BY <2>1, NextKept DEF Kept
  <2>2. CASE UNCHANGED vars
    <3>1. model' = model /\ air' = air /\ net' = net /\ links' = links /\ missed' = missed
      BY <2>2 DEF vars
    <3>2. TypeOK' /\ FitsCounted'
      BY <3>1 DEF IInv, TypeOK, FitsCounted
    <3>3. Ordered'
      BY <3>1 DEF IInv, Ordered, OwnModels, AirOrdered, NetOrdered, LastIsModel
    <3>4. CopiesAgree' /\ BatteryRecovers' /\ DoubtsSeen'
      BY <3>1 DEF CopiesAgree, BatteryRecovers, DoubtsSeen
    <3> QED BY <3>2, <3>3, <3>4 DEF IInv
  <2> QED BY <2>1, <2>2
<1> QED BY <1>1, <1>2, PTL DEF Spec

-----------------------------------------------------------------------------
\* Every reachable state of REM is well typed: no model waits to be broadcast
\* between two calls (rem.cc sendUpdatedModel).
THEOREM TypeCorrect == Spec => []TypeOK
<1>1. IInv => TypeOK
  BY DEF IInv
<1> QED BY <1>1, Invariant, PTL

\* A battery model that stopped fitting is given a new regression after at most
\* MAX_DIFF_COUNT bad points (rem_model.cc addDataPoint, adaptModel).
THEOREM BatteryRecoversCorrect == Spec => []BatteryRecovers
BY Invariant, PTL

\* A node predicts with the regression that its owner last adapted, unless a packet
\* is on its way or was lost; the owner itself does while its model is STABLE, and it
\* is not only after a bad data point or before the first regression (rem.cc
\* sendUpdatedModel, handleMonitoringPacketBuffer, rem_model.cc getDataPoint).
THEOREM QuietAgreesCorrect == Spec => []QuietAgrees
<1>1. CopiesAgree /\ DoubtsSeen => QuietAgrees
  <2> SUFFICES ASSUME CopiesAgree, DoubtsSeen, NEW k \in Key,
                      NEW n \in Reach[Owner(k)] \ {Owner(k)}, net[n][k] = model[k].fit
               PROVE  \/ Predictor(n, k) = Predictor(Owner(k), k)
                      \/ /\ Predictor(n, k) = model[k].fit /\ Predictor(Owner(k), k) = Unknown
                         /\ model[k].dif > 0 \/ model[k].state = "INIT"
    BY DEF CopiesAgree, QuietAgrees
  <2>1. Predictor(n, k) = model[k].fit
    BY DEF Predictor
  <2>2. Doubt(model[k])
    BY DEF DoubtsSeen
  <2> QED BY <2>1, <2>2 DEF Predictor, Doubt
<1> QED BY <1>1, Invariant, PTL

\* No node goes back to an older model (rem.cc handleMonitoringPacketBuffer).
THEOREM NeverOlderCorrect == Spec => NeverOlder
<1>1. IInv /\ CopiesAgree /\ BatteryRecovers /\ DoubtsSeen /\ [Next]_vars
        => [\A n \in Node, k \in Key : net'[n][k] >= net[n][k]]_vars
  BY NextKept DEF Kept
<1> QED BY <1>1, Invariant, PTL DEF Spec, NeverOlder
=============================================================================
