--------------------------------- MODULE Los ---------------------------------
(***************************************************************************)
(* Line of sight between two spacecraft that orbit an asteroid             *)
(* (LOS_Determination/defineLOS.cpp).  The positions of every craft are    *)
(* read from a file, one per time step; a position between two steps is    *)
(* interpolated.  The asteroid is a sphere about the origin.               *)
(*                                                                         *)
(* All is kept in whole numbers: an interpolated position is multiplied by *)
(* the size of the step, a norm is squared, and the place t of the point   *)
(* nearest the origin is the fraction -numerator / denominator.  sqrtf     *)
(* works on floats: the norm it gives is off by up to one part in          *)
(* Precision, 2^23 in the code, and an answer that hangs on it can be      *)
(* either.  The rounding of doubles is left out.                           *)
(***************************************************************************)
EXTENDS Integers, Sequences

CONSTANTS
  File,       \* orbit files: [size, carrier, craft], the craft in the file's order
  Factor,     \* factors the testbed scales by
  Precision,  \* the error of sqrtf is up to 1 / Precision of its value
  MaxScalings \* bound of the model: calls of scalePositions

ASSUME FactorAssumption == Factor \subseteq Nat \ {0}
ASSUME PrecisionAssumption == Precision \in Nat \ {0}
Place == [1..3 -> Int]

\* Every path in a file has as many entries as its first line says, for two steps at
\* least.
ASSUME FileAssumption ==
  \A f \in File :
    /\ f.size \in Nat \ {0}
    /\ f.carrier \in Seq(Place) /\ Len(f.carrier) > 1
    /\ f.craft \in Seq(Seq(Place))
    /\ \A i \in DOMAIN f.craft : Len(f.craft[i]) = Len(f.carrier)

VARIABLES
  orbitData,       \* craft -> its positions, the carrier is craft 0
  timestep_size,
  asteroid_radius,
  scalings         \* bound of the model

losVars == <<orbitData, timestep_size, asteroid_radius, scalings>>

LosInit ==
  /\ orbitData = <<>>
  /\ timestep_size = 1
  /\ asteroid_radius = 1
  /\ scalings = 0
-----------------------------------------------------------------------------
Plus(u, v) == [c \in 1..3 |-> u[c] + v[c]]
Minus(u, v) == [c \in 1..3 |-> u[c] - v[c]]
Times(k, v) == [c \in 1..3 |-> k * v[c]]
Dot(u, v) == u[1] * v[1] + u[2] * v[2] + u[3] * v[3]

\* The times whose two steps are both in the file: at the last one the entry above
\* would be read past the end.
Time == 0 .. timestep_size * (Len(orbitData[0]) - 1) - 1

\* The position of a craft at a time, timestep_size times as long.
Position(id, time) ==
  LET below == orbitData[id][time \div timestep_size + 1]
      above == orbitData[id][time \div timestep_size + 2]
  IN Plus(Times(timestep_size, below), Times(time % timestep_size, Minus(above, below)))

Radius == timestep_size * asteroid_radius

Outside(v) == Dot(v, v) > Radius * Radius

\* value, a squared norm, n times as much, reaches the squared radius when the norm
\* is taken (1 + e / Precision) times as long.
Reaches(value, n, e) ==
  (Precision + e) * (Precision + e) * value >= Radius * Precision * (Radius * Precision) * n

\* What a comparison of the rounded norm with the radius can say.
NormReaches(value, n) == {answer \in BOOLEAN : IF answer THEN Reaches(value, n, 1)
                                                         ELSE ~Reaches(value, n, -1)}

\* Bug: the line is taken for endless.
BugEndlessLine(home, other, time) ==
  LET r1 == Position(home, time)
      r21 == Minus(Position(other, time), r1)
      numerator == Dot(r1, r21)
  IN NormReaches(Dot(r1, r1) * Dot(r21, r21) - numerator * numerator, Dot(r21, r21))

\* The answers there can be.  With both at one place the denominator is 0, t is not a
\* number, and neither comparison holds.
isThereLOS(home, other, time) ==
  LET r1 == Position(home, time)
      r2 == Position(other, time)
      r21 == Minus(r2, r1)
      denominator == Dot(r21, r21)
      numerator == Dot(r1, r21)
  IN IF denominator > 0 /\ -numerator \in 0..denominator
       THEN NormReaches(Dot(r1, r1) * denominator - numerator * numerator, denominator)
       ELSE {Outside(r1) /\ Outside(r2)}

\* The squared distance: the last product takes the y component for the z component.
distanceBetweenSC(home, other, time) ==
  LET r21 == Minus(Position(other, time), Position(home, time))
  IN r21[1] * r21[1] + r21[2] * r21[2] + r21[3] * r21[2]

\* The paths are numbered as they stand in the file, whatever id stands beside them.
pullOrbitData ==
  /\ orbitData = <<>>
  /\ \E f \in File :
       /\ orbitData' = [i \in 0..Len(f.craft) |-> IF i = 0 THEN f.carrier ELSE f.craft[i]]
       /\ timestep_size' = f.size
  /\ UNCHANGED <<asteroid_radius, scalings>>

scalePositions ==
  /\ orbitData # <<>>
  /\ scalings < MaxScalings
  /\ \E k \in Factor :
       /\ asteroid_radius' = k * asteroid_radius
       /\ orbitData' = [i \in DOMAIN orbitData |->
                          [j \in DOMAIN orbitData[i] |-> Times(k, orbitData[i][j])]]
  /\ scalings' = scalings + 1
  /\ UNCHANGED timestep_size

LosNext == pullOrbitData \/ scalePositions
LosSpec == LosInit /\ [][LosNext]_losVars
-----------------------------------------------------------------------------
Pairs == (DOMAIN orbitData) \X (DOMAIN orbitData)

\* No point of the way from one craft to the other is inside the asteroid, if each is
\* taken (1 + e / Precision) times as far out.  The nearest one stands at a multiple
\* of 1/n of the way.
Clear(r1, r2, e) ==
  LET n == Dot(Minus(r2, r1), Minus(r2, r1))
  IN \A k \in 0..n :
       LET p == Plus(Times(n - k, r1), Times(k, r2))
       IN Reaches(Dot(p, p), n * n, e)

SightsAreClear ==
  \A p \in Pairs : \A t \in Time :
    LET r1 == Position(p[1], t)
        r2 == Position(p[2], t)
        sight == isThereLOS(p[1], p[2], t)
    IN Outside(r1) /\ Outside(r2) =>
         /\ TRUE \in sight => Clear(r1, r2, 1)
         /\ FALSE \in sight => ~Clear(r1, r2, -1)

\* Of two craft above the surface, one sees the other only if the asteroid does not
\* cut the straight way between them, and does not only if it does, up to the error
\* of a float's root: wherever they are, at every time and however the positions were
\* scaled, both ways (LOS::isThereLOS, the four cases; LOS.h:35 has the answers the
\* other way round).
SightIsClear == [][orbitData' # orbitData => SightsAreClear']_losVars

\* The distance told is "the Euclidean distance between the two s/c" (comment of
\* LOS::distanceBetweenSC).
DistanceIsEuclidean ==
  orbitData # <<>> =>
    \A p \in Pairs : \A t \in Time :
      LET r21 == Minus(Position(p[2], t), Position(p[1], t))
      IN distanceBetweenSC(p[1], p[2], t) = Dot(r21, r21)
=============================================================================
