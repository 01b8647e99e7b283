---------------------------- MODULE DataLemmas ----------------------------
(***************************************************************************)
(* What the proofs need to know of numbers, sets, sequences and sums, with *)
(* nothing about the program in it: induction over natural numbers and     *)
(* finite sets as statements about sets, and what the operators of the     *)
(* community modules that the models use return.                           *)
(***************************************************************************)
EXTENDS Places, SequencesExt, FiniteSetTheorems, SequenceTheorems, TLAPS

\* Every nonempty set of natural numbers has a least element.
LEMMA LeastNatural ==
  ASSUME NEW T \in SUBSET Nat, T # {}
  PROVE  \E x \in T : \A y \in T : x <= y
<1> DEFINE R == {p \in Nat \X Nat : p[1] < p[2]}
<1>1. IsWellFoundedOn(R, Nat)
  BY NatLessThanWellFounded DEF OpToRel, IsWellFoundedOn
<1>2. PICK x \in T : \A y \in T : <<y, x>> \notin R
  <2> HIDE DEF R
  <2> QED BY <1>1, WFMin
<1>3. ASSUME NEW y \in T PROVE x <= y
  <2>1. <<y, x>> \in Nat \X Nat /\ <<y, x>>[1] = y /\ <<y, x>>[2] = x
    OBVIOUS
  <2>2. ~ (y < x)
    BY <1>2, <2>1
  <2> QED BY <2>2
<1> QED BY <1>3

\* Induction up to n: a set with 0 that goes on.
LEMMA UpTo ==
  ASSUME NEW n \in Nat, NEW T, 0 \in T, \A k \in 0 .. n - 1 : k \in T => k + 1 \in T
  PROVE  \A k \in 0 .. n : k \in T
<1> SUFFICES ASSUME NEW k \in 0 .. n, k \notin T PROVE FALSE
  OBVIOUS
<1> DEFINE U == {i \in 0 .. n : i \notin T}
<1>1. U \in SUBSET Nat /\ U # {}
  OBVIOUS
<1>2. PICK m \in U : \A i \in U : m <= i
  <2> HIDE DEF U
  <2> QED BY <1>1, LeastNatural
<1>3. m \in 1 .. n /\ m - 1 \in 0 .. n - 1 /\ m - 1 \notin U
  BY <1>2
<1> QED BY <1>2, <1>3

\* Induction over the subsets of a finite set.
LEMMA SubsetInduction ==
  ASSUME NEW S, IsFiniteSet(S), NEW K,
         \A T \in SUBSET S : (\A x \in T : T \ {x} \in K) => T \in K
  PROVE  \A T \in SUBSET S : T \in K
<1> DEFINE n == Cardinality(S)
           U == {k \in 0 .. n : \A T \in SUBSET S : Cardinality(T) <= k => T \in K}
<1>1. n \in Nat
  BY FS_CardinalityType
<1>2. ASSUME NEW T \in SUBSET S
      PROVE  /\ IsFiniteSet(T) /\ Cardinality(T) \in Nat /\ Cardinality(T) <= n
             /\ \A x \in T : Cardinality(T \ {x}) = Cardinality(T) - 1
  BY FS_Subset, FS_CardinalityType, FS_RemoveElement
<1> HIDE DEF n
<1>3. 0 \in U
  <2> SUFFICES ASSUME NEW T \in SUBSET S, Cardinality(T) <= 0 PROVE T \in K
    BY <1>1
  <2>1. T = {}
    BY <1>2, FS_EmptySet
  <2> QED BY <2>1
<1>4. ASSUME NEW k \in 0 .. n - 1, k \in U PROVE k + 1 \in U
  <2> SUFFICES ASSUME NEW T \in SUBSET S, Cardinality(T) <= k + 1 PROVE T \in K
    BY <1>1
  <2>1. ASSUME NEW x \in T PROVE T \ {x} \in K
    <3>1. Cardinality(T \ {x}) <= k
      BY <1>2
    <3> QED BY <1>4, <3>1
  <2> QED BY <2>1
<1>5. n \in U
  <2> HIDE DEF U
  <2> QED BY <1>1, <1>3, <1>4, UpTo
<1> QED BY <1>2, <1>5

\* A sequence without one element.
LEMMA RemoveAtElements ==
  ASSUME NEW S, NEW s \in Seq(S), NEW i \in 1 .. Len(s)
  PROVE  /\ RemoveAt(s, i) \in Seq(S)
         /\ Len(RemoveAt(s, i)) = Len(s) - 1
         /\ \A j \in 1 .. Len(s) - 1 : RemoveAt(s, i)[j] = s[j] \/ RemoveAt(s, i)[j] = s[j + 1]
<1> DEFINE u == SubSeq(s, 1, i - 1)
           v == SubSeq(s, i + 1, Len(s))
<1>0. Len(s) \in Nat
  OBVIOUS
<1>1. /\ u \in Seq(S) /\ Len(u) = i - 1
      /\ \A j \in 1 .. i - 1 : u[j] = s[j]
  BY <1>0, SubSeqProperties
<1>2. /\ v \in Seq(S) /\ Len(v) = Len(s) - i
      /\ \A j \in 1 .. Len(s) - i : v[j] = s[i + j]
  BY <1>0, SubSeqProperties
<1> HIDE DEF u, v
<1>3. /\ u \o v \in Seq(S) /\ Len(u \o v) = Len(s) - 1
      /\ \A j \in 1 .. Len(s) - 1 : (u \o v)[j] = IF j <= i - 1 THEN u[j] ELSE v[j - (i - 1)]
  <2>1. /\ u \o v \in Seq(S) /\ Len(u \o v) = Len(u) + Len(v)
        /\ \A j \in 1 .. Len(u) + Len(v) :
             (u \o v)[j] = IF j <= Len(u) THEN u[j] ELSE v[j - Len(u)]
    BY <1>1, <1>2, ConcatProperties
  <2>2. Len(u) + Len(v) = Len(s) - 1 /\ Len(u) = i - 1
    BY <1>0, <1>1, <1>2
  <2> QED BY <2>1, <2>2
<1>4. ASSUME NEW j \in 1 .. Len(s) - 1 PROVE (u \o v)[j] = s[j] \/ (u \o v)[j] = s[j + 1]
  <2>1. CASE j <= i - 1
    BY <1>1, <1>3, <2>1
  <2>2. CASE ~ (j <= i - 1)
    <3>1. j - (i - 1) \in 1 .. Len(s) - i /\ i + (j - (i - 1)) = j + 1
      BY <1>0, <2>2
    <3> QED BY <1>2, <1>3, <2>2, <3>1
  <2> QED BY <2>1, <2>2
<1> QED BY <1>3, <1>4 DEF RemoveAt, u, v

\* Taking away the first match leaves entries there were.
LEMMA RemoveMatchElements ==
  ASSUME NEW S, NEW s \in Seq(S), NEW T \in SUBSET (1 .. Len(s))
  PROVE  T # {} => /\ Min(T) \in 1 .. Len(s)
                   /\ RemoveAt(s, Min(T)) \in Seq(S)
                   /\ \A j \in DOMAIN RemoveAt(s, Min(T)) :
                        \E i \in DOMAIN s : RemoveAt(s, Min(T))[j] = s[i]
<1> SUFFICES ASSUME T # {} PROVE
      /\ Min(T) \in 1 .. Len(s)
      /\ RemoveAt(s, Min(T)) \in Seq(S)
      /\ \A j \in DOMAIN RemoveAt(s, Min(T)) :
           \E i \in DOMAIN s : RemoveAt(s, Min(T))[j] = s[i]
  OBVIOUS
<1>0. Len(s) \in Nat /\ DOMAIN s = 1 .. Len(s)
  OBVIOUS
<1>1. Min(T) \in T
  <2>1. T \in SUBSET Nat
    BY <1>0
  <2>2. \E x \in T : \A y \in T : x <= y
    BY <2>1, LeastNatural
  <2> QED BY <2>2 DEF Min
<1>2. PICK m \in 1 .. Len(s) : m = Min(T)
  BY <1>1
<1>3. /\ RemoveAt(s, m) \in Seq(S)
      /\ Len(RemoveAt(s, m)) = Len(s) - 1
      /\ \A j \in 1 .. Len(s) - 1 : RemoveAt(s, m)[j] = s[j] \/ RemoveAt(s, m)[j] = s[j + 1]
  BY RemoveAtElements
<1>4. DOMAIN RemoveAt(s, m) = 1 .. Len(s) - 1
  BY <1>3
<1>5. ASSUME NEW j \in 1 .. Len(s) - 1 PROVE \E i \in DOMAIN s : RemoveAt(s, m)[j] = s[i]
  <2>1. j \in DOMAIN s /\ j + 1 \in DOMAIN s
    BY <1>0
  <2> QED BY <1>3, <2>1
<1> QED BY <1>2, <1>3, <1>4, <1>5

\* One sequence after another, with no element in both.
LEMMA ConcatOnce ==
  ASSUME NEW S, NEW s \in Seq(S), NEW u \in Seq(S), IsInjective(s), IsInjective(u),
         Range(s) \cap Range(u) = {}
  PROVE  IsInjective(s \o u) /\ Range(s \o u) = Range(s) \cup Range(u)
<1>1. /\ s \o u \in Seq(S) /\ Len(s \o u) = Len(s) + Len(u)
      /\ \A i \in 1 .. Len(s) + Len(u) : (s \o u)[i] = IF i <= Len(s) THEN s[i] ELSE u[i - Len(s)]
  BY ConcatProperties
<1>2. /\ Len(s) \in Nat /\ Len(u) \in Nat /\ DOMAIN s = 1 .. Len(s) /\ DOMAIN u = 1 .. Len(u)
      /\ DOMAIN (s \o u) = 1 .. Len(s) + Len(u)
  BY <1>1
<1> DEFINE w == s \o u
<1>3. /\ \A i \in 1 .. Len(s) : w[i] = s[i] /\ w[i] \in Range(s)
      /\ \A i \in Len(s) + 1 .. Len(s) + Len(u) :
           /\ w[i] = u[i - Len(s)] /\ w[i] \in Range(u)
           /\ i - Len(s) \in 1 .. Len(u)
      /\ \A i \in 1 .. Len(u) : Len(s) + i \in DOMAIN w /\ w[Len(s) + i] = u[i]
  BY <1>1, <1>2 DEF Range
<1> HIDE DEF w
<1>4. DOMAIN w = 1 .. Len(s) + Len(u)
  BY <1>2 DEF w
<1>5. ASSUME NEW i \in DOMAIN w, NEW j \in DOMAIN w, w[i] = w[j] PROVE i = j
  <2>1. CASE i <= Len(s) /\ j <= Len(s)
    <3>1. i \in DOMAIN s /\ j \in DOMAIN s
      BY <1>2, <1>4, <2>1
    <3> QED BY <1>2, <1>3, <1>5, <3>1 DEF IsInjective
  <2>2. CASE ~(i <= Len(s)) /\ ~(j <= Len(s))
    <3>1. i \in Len(s) + 1 .. Len(s) + Len(u) /\ j \in Len(s) + 1 .. Len(s) + Len(u)
      BY <1>2, <1>4, <2>2
    <3>2. i - Len(s) = j - Len(s)
      BY <1>2, <1>3, <1>5, <3>1 DEF IsInjective
    <3> QED BY <1>2, <1>4, <3>2
  <2>3. CASE i <= Len(s) /\ ~(j <= Len(s))
    <3>1. i \in 1 .. Len(s) /\ j \in Len(s) + 1 .. Len(s) + Len(u)
      BY <1>2, <1>4, <2>3
    <3> QED BY <1>3, <1>5, <3>1
  <2>4. CASE ~(i <= Len(s)) /\ j <= Len(s)
    <3>1. j \in 1 .. Len(s) /\ i \in Len(s) + 1 .. Len(s) + Len(u)
      BY <1>2, <1>4, <2>4
    <3> QED BY <1>3, <1>5, <3>1
  <2> QED BY <2>1, <2>2, <2>3, <2>4
<1>6. Range(w) \subseteq Range(s) \cup Range(u)
  <2> SUFFICES ASSUME NEW i \in DOMAIN w PROVE w[i] \in Range(s) \cup Range(u)
    BY DEF Range
  <2>1. i \in 1 .. Len(s) \/ i \in Len(s) + 1 .. Len(s) + Len(u)
    BY <1>2, <1>4
  <2> QED BY <1>3, <2>1
<1>7. Range(s) \subseteq Range(w)
  <2>1. \A i \in DOMAIN s : i \in DOMAIN w /\ w[i] = s[i]
    BY <1>2, <1>3, <1>4
  <2> QED BY <2>1 DEF Range
<1>8. Range(u) \subseteq Range(w)
  <2>1. \A i \in DOMAIN u : Len(s) + i \in DOMAIN w /\ w[Len(s) + i] = u[i]
    BY <1>2, <1>3
  <2> QED BY <2>1 DEF Range
<1>9. Range(w) = Range(s) \cup Range(u)
  BY <1>6, <1>7, <1>8
<1>10. IsInjective(w)
  BY <1>5 DEF IsInjective
<1> QED BY <1>9, <1>10 DEF w

\* What InOrder has chosen when it has come to place i.
OrderedUpTo(g, C, n) ==
  g = [i \in 0 .. n |-> IF i = 0 THEN <<>>
                        ELSE IF i \in C THEN Append(g[i - 1], i) ELSE g[i - 1]]

LEMMA OrderedExists ==
  ASSUME NEW n \in Nat, NEW C
  PROVE  \E g : OrderedUpTo(g, C, n)
<1> DEFINE T == {k \in 0 .. n : \E g : OrderedUpTo(g, C, k)}
<1>1. 0 \in T
  <2>1. OrderedUpTo([i \in 0 .. 0 |-> <<>>], C, 0)
    BY DEF OrderedUpTo
  <2> QED BY <2>1
<1>2. ASSUME NEW k \in 0 .. n - 1, k \in T PROVE k + 1 \in T
  <2>1. PICK g : OrderedUpTo(g, C, k)
    BY <1>2
  <2> DEFINE h == [i \in 0 .. k + 1 |->
                     IF i = 0 THEN <<>>
                     ELSE IF i \in C THEN Append(g[i - 1], i) ELSE g[i - 1]]
  <2>2. ASSUME NEW i \in 0 .. k PROVE h[i] = g[i]
    <3>1. g[i] = IF i = 0 THEN <<>> ELSE IF i \in C THEN Append(g[i - 1], i) ELSE g[i - 1]
      BY <2>1 DEF OrderedUpTo
    <3>2. h[i] = IF i = 0 THEN <<>> ELSE IF i \in C THEN Append(g[i - 1], i) ELSE g[i - 1]
      OBVIOUS
    <3> QED BY <3>1, <3>2
  <2>3. \A i \in 0 .. k + 1 : i # 0 => h[i - 1] = g[i - 1]
    <3>1. \A i \in 0 .. k + 1 : i # 0 => i - 1 \in 0 .. k
      OBVIOUS
    <3> HIDE DEF h
    <3> QED BY <2>2, <3>1
  <2>4. OrderedUpTo(h, C, k + 1)
    <3>1. h = [i \in 0 .. k + 1 |->
                 IF i = 0 THEN <<>>
                 ELSE IF i \in C THEN Append(h[i - 1], i) ELSE h[i - 1]]
      BY <2>3
    <3> HIDE DEF h
    <3> QED BY <3>1 DEF OrderedUpTo
  <2>5. \E f : OrderedUpTo(f, C, k + 1)
    <3> HIDE DEF h
    <3> QED BY <2>4
  <2> QED BY <2>5
<1>3. n \in T
  <2> HIDE DEF T
  <2> QED BY <1>1, <1>2, UpTo
<1> QED BY <1>3

\* The places of C in order: each once and no other.
LEMMA InOrderElements ==
  ASSUME NEW n \in Nat, NEW C \in SUBSET (1 .. n)
  PROVE  /\ InOrder(C, n) \in Seq(C)
         /\ IsInjective(InOrder(C, n))
         /\ Range(InOrder(C, n)) = C
<1> DEFINE f == CHOOSE g : OrderedUpTo(g, C, n)
<1>1. InOrder(C, n) = f[n]
  BY DEF InOrder, OrderedUpTo
<1>2. OrderedUpTo(f, C, n)
  BY OrderedExists
<1> HIDE DEF f
<1> DEFINE Good(k) == /\ f[k] \in Seq(C)
                      /\ \A i, j \in DOMAIN f[k] : f[k][i] = f[k][j] => i = j
                      /\ {f[k][i] : i \in DOMAIN f[k]} = C \cap (1 .. k)
           T == {k \in 0 .. n : Good(k)}
<1>3. 0 \in T
  <2>1. f[0] = <<>>
    BY <1>2 DEF OrderedUpTo
  <2>2. <<>> \in Seq(C) /\ DOMAIN <<>> = {}
    BY EmptySeq
  <2>3. Good(0)
    BY <2>1, <2>2
  <2>4. 0 \in 0 .. n
    OBVIOUS
  <2> HIDE DEF Good
  <2> QED BY <2>3, <2>4
<1>4. ASSUME NEW k \in 0 .. n - 1, k \in T PROVE k + 1 \in T
  <2> DEFINE s == f[k]
             u == f[k + 1]
  <2>1. u = IF k + 1 \in C THEN Append(s, k + 1) ELSE s
    <3>1. k + 1 \in 0 .. n /\ k + 1 # 0 /\ (k + 1) - 1 = k
      OBVIOUS
    <3>2. f[k + 1] = IF k + 1 = 0 THEN <<>>
                     ELSE IF k + 1 \in C THEN Append(f[(k + 1) - 1], k + 1) ELSE f[(k + 1) - 1]
      BY <1>2, <3>1 DEF OrderedUpTo
    <3> QED BY <3>1, <3>2
  <2>2. Good(k)
    BY <1>4
  <2>3. CASE k + 1 \notin C
    <3>1. C \cap (1 .. k + 1) = C \cap (1 .. k)
      BY <2>3
    <3>2. f[k + 1] = f[k]
      BY <2>1, <2>3
    <3>3. Good(k + 1)
      BY <2>2, <3>1, <3>2
    <3> QED BY <3>3
  <2>4. CASE k + 1 \in C
    <3>1. u = Append(s, k + 1) /\ s \in Seq(C)
      BY <2>1, <2>2, <2>4
    <3>2. /\ u \in Seq(C) /\ DOMAIN s = 1 .. Len(s) /\ DOMAIN u = 1 .. Len(s) + 1
          /\ Len(s) \in Nat /\ u[Len(s) + 1] = k + 1
          /\ \A i \in 1 .. Len(s) : u[i] = s[i]
      <4> HIDE DEF s, u
      <4> QED BY <2>4, <3>1
    <3>3. \A i \in DOMAIN s : s[i] \in 1 .. k
      BY <2>2
    <3>4. \A i, j \in DOMAIN s : s[i] = s[j] => i = j
      BY <2>2
    <3>5. {s[i] : i \in DOMAIN s} = C \cap (1 .. k)
      BY <2>2
    <3>6. C \cap (1 .. k + 1) = (C \cap (1 .. k)) \cup {k + 1}
      BY <2>4
    <3> HIDE DEF s, u
    <3>7. \A i, j \in DOMAIN u : u[i] = u[j] => i = j
      BY <3>2, <3>3, <3>4
    <3>8. {u[i] : i \in DOMAIN u} = {s[i] : i \in DOMAIN s} \cup {k + 1}
      BY <3>2
    <3>9. {u[i] : i \in DOMAIN u} = C \cap (1 .. k + 1)
      BY <3>5, <3>6, <3>8
    <3>10. Good(k + 1)
      BY <3>2, <3>7, <3>9 DEF u
    <3> QED BY <3>10
  <2> QED BY <2>3, <2>4
<1>5. n \in T
  <2> HIDE DEF T
  <2> QED BY <1>3, <1>4, UpTo
<1>6. C \cap (1 .. n) = C
  OBVIOUS
<1> QED BY <1>1, <1>5, <1>6 DEF IsInjective, Range

\* The elements at the places of C: each once if none is there twice.
LEMMA ChosenElements ==
  ASSUME NEW S, NEW s \in Seq(S), IsInjective(s), NEW C \in SUBSET (1 .. Len(s))
  PROVE  /\ Chosen(s, C) \in Seq(S)
         /\ IsInjective(Chosen(s, C))
         /\ Range(Chosen(s, C)) = {s[i] : i \in C}
<1>1. PICK order : order = InOrder(C, Len(s))
  OBVIOUS
<1>2. Len(s) \in Nat /\ DOMAIN s = 1 .. Len(s) /\ \A i \in DOMAIN s : s[i] \in S
  OBVIOUS
<1>3. order \in Seq(C) /\ IsInjective(order) /\ Range(order) = C
  BY <1>1, <1>2, InOrderElements
<1>4. DOMAIN order = 1 .. Len(order) /\ Len(order) \in Nat /\ \A j \in DOMAIN order : order[j] \in C
  BY <1>3
<1> DEFINE t == [j \in DOMAIN order |-> s[order[j]]]
<1>5. Chosen(s, C) = t
  BY <1>1 DEF Chosen
<1>6. t \in Seq(S)
  <2>1. DOMAIN t = 1 .. Len(order) /\ \A j \in DOMAIN t : t[j] \in S
    BY <1>2, <1>4
  <2>2. t = [j \in 1 .. Len(order) |-> t[j]]
    BY <1>4
  <2>3. t \in [1 .. Len(order) -> S]
    <3> HIDE DEF t
    <3> QED BY <2>1, <2>2
  <2> HIDE DEF t
  <2> QED BY <1>4, <2>3
<1>7. IsInjective(t)
  <2>1. ASSUME NEW a \in DOMAIN t, NEW b \in DOMAIN t, t[a] = t[b] PROVE a = b
    <3>1. a \in DOMAIN order /\ b \in DOMAIN order /\ s[order[a]] = s[order[b]]
      BY <2>1
    <3>2. order[a] \in DOMAIN s /\ order[b] \in DOMAIN s
      BY <1>2, <1>4, <3>1
    <3>3. order[a] = order[b]
      BY <3>1, <3>2 DEF IsInjective
    <3> QED BY <1>3, <3>1, <3>3 DEF IsInjective
  <2> QED BY <2>1 DEF IsInjective
<1>8. Range(t) = {s[i] : i \in C}
  BY <1>3 DEF Range
<1> QED BY <1>5, <1>6, <1>7, <1>8

\* One more element.
LEMMA AppendElements ==
  ASSUME NEW S, NEW s \in Seq(S), NEW e \in S
  PROVE  Append(s, e) \in Seq(S) /\ Range(Append(s, e)) = Range(s) \cup {e}
<1>1. /\ Append(s, e) \in Seq(S) /\ Len(s) \in Nat /\ DOMAIN s = 1 .. Len(s)
      /\ DOMAIN Append(s, e) = 1 .. Len(s) + 1 /\ Append(s, e)[Len(s) + 1] = e
      /\ \A i \in 1 .. Len(s) : Append(s, e)[i] = s[i]
  OBVIOUS
<1>2. ASSUME NEW x \in Range(Append(s, e)) PROVE x \in Range(s) \cup {e}
  BY <1>1 DEF Range
<1>3. ASSUME NEW x \in Range(s) \cup {e} PROVE x \in Range(Append(s, e))
  BY <1>1 DEF Range
<1> QED BY <1>1, <1>2, <1>3

\* What \div and % are.
LEMMA Quotient ==
  ASSUME NEW t \in Nat, NEW z \in Nat \ {0}
  PROVE  /\ t \div z \in Nat /\ t % z \in 0 .. z - 1
         /\ t = z * (t \div z) + (t % z)
  OBVIOUS

LEMMA QuotientBelow ==
  ASSUME NEW t \in Nat, NEW z \in Nat \ {0}, NEW m \in Nat, t < z * m
  PROVE  t \div z < m
  OBVIOUS

-----------------------------------------------------------------------------
\* What SumFunctionOnSet computes: the sum of every subset, an element after the other.
Sums(g, D, f) ==
  g = [T \in D |-> IF T = {} THEN 0
                   ELSE f[CHOOSE x \in T : TRUE] + g[T \ {CHOOSE x \in T : TRUE}]]

LEMMA SumIs ==
  ASSUME NEW f, NEW S
  PROVE  SumFunctionOnSet(f, S) = (CHOOSE g : Sums(g, SUBSET S, f))[S]
  BY DEF SumFunctionOnSet, FoldFunctionOnSet, MapThenFoldSet, Sums

LEMMA SumsExist ==
  ASSUME NEW f, NEW S, IsFiniteSet(S)
  PROVE  \E g : Sums(g, SUBSET S, f)
<1> DEFINE n == Cardinality(S)
           Upto(k) == {T \in SUBSET S : Cardinality(T) <= k}
           U == {k \in 0 .. n : \E g : Sums(g, Upto(k), f)}
<1>1. n \in Nat
  BY FS_CardinalityType
<1>2. ASSUME NEW T \in SUBSET S
      PROVE  /\ IsFiniteSet(T) /\ Cardinality(T) \in Nat /\ Cardinality(T) <= n
             /\ \A x \in T : Cardinality(T \ {x}) = Cardinality(T) - 1
             /\ T # {} => (CHOOSE x \in T : TRUE) \in T
  BY FS_Subset, FS_CardinalityType, FS_RemoveElement
<1> HIDE DEF n
<1>3. 0 \in U
  <2>1. \A T \in Upto(0) : T = {}
    BY <1>2, FS_EmptySet
  <2> DEFINE g == [T \in Upto(0) |-> 0]
  <2>2. g = [T \in Upto(0) |->
               IF T = {} THEN 0
               ELSE f[CHOOSE x \in T : TRUE] + g[T \ {CHOOSE x \in T : TRUE}]]
    BY <2>1
  <2> HIDE DEF g, Upto
  <2>3. Sums(g, Upto(0), f)
    BY <2>2 DEF Sums
  <2> QED BY <1>1, <2>3
<1>4. ASSUME NEW k \in 0 .. n - 1, k \in U PROVE k + 1 \in U
  <2>1. PICK g : Sums(g, Upto(k), f)
    BY <1>4
  <2>0. PICK h : h = [T \in Upto(k + 1) |->
                       IF T = {} THEN 0
                       ELSE f[CHOOSE x \in T : TRUE] + g[T \ {CHOOSE x \in T : TRUE}]]
    OBVIOUS
  <2>2. Upto(k) \subseteq Upto(k + 1)
    BY <1>2
  <2>3. ASSUME NEW T \in Upto(k) PROVE h[T] = g[T]
    <3> DEFINE e == IF T = {} THEN 0
                    ELSE f[CHOOSE x \in T : TRUE] + g[T \ {CHOOSE x \in T : TRUE}]
    <3> HIDE DEF Upto
    <3>1. g[T] = e
      BY <2>1 DEF Sums
    <3>2. h[T] = e
      BY <2>0, <2>2
    <3> QED BY <3>1, <3>2
  <2>4. ASSUME NEW T \in Upto(k + 1), T # {}
        PROVE  h[T \ {CHOOSE x \in T : TRUE}] = g[T \ {CHOOSE x \in T : TRUE}]
    <3> DEFINE c == CHOOSE x \in T : TRUE
    <3>1. c \in T
      BY <2>4
    <3> HIDE DEF c
    <3>2. T \ {c} \in Upto(k)
      BY <1>2, <3>1
    <3> QED BY <2>3, <3>2 DEF c
  <2>5. h = [T \in Upto(k + 1) |->
               IF T = {} THEN 0
               ELSE f[CHOOSE x \in T : TRUE] + h[T \ {CHOOSE x \in T : TRUE}]]
    <3> HIDE DEF Upto
    <3>1. \A T \in Upto(k + 1) :
            (IF T = {} THEN 0
             ELSE f[CHOOSE x \in T : TRUE] + g[T \ {CHOOSE x \in T : TRUE}]) =
            (IF T = {} THEN 0
             ELSE f[CHOOSE x \in T : TRUE] + h[T \ {CHOOSE x \in T : TRUE}])
      BY <2>4
    <3> DEFINE e(T) == IF T = {} THEN 0
                       ELSE f[CHOOSE x \in T : TRUE] + g[T \ {CHOOSE x \in T : TRUE}]
               r(T) == IF T = {} THEN 0
                       ELSE f[CHOOSE x \in T : TRUE] + h[T \ {CHOOSE x \in T : TRUE}]
    <3>2. h = [T \in Upto(k + 1) |-> e(T)] /\ \A T \in Upto(k + 1) : e(T) = r(T)
      BY <2>0, <3>1
    <3>3. h = [T \in Upto(k + 1) |-> r(T)]
      <4> HIDE DEF e, r
      <4> QED BY <3>2
    <3> QED BY <3>3
  <2> HIDE DEF Upto
  <2>6. Sums(h, Upto(k + 1), f)
    BY <2>5 DEF Sums
  <2> QED BY <1>1, <2>6
<1>5. n \in U
  <2> HIDE DEF U
  <2> QED BY <1>1, <1>3, <1>4, UpTo
<1>6. Upto(n) = SUBSET S
  BY <1>2
<1> QED BY <1>5, <1>6

\* A sum does not depend on where it is part of another.
LEMMA SumsAgree ==
  ASSUME NEW S, IsFiniteSet(S), NEW f, NEW k, \A x \in S : f[x] = k[x],
         NEW D, NEW E, SUBSET S \subseteq D, SUBSET S \subseteq E,
         NEW g, NEW h, Sums(g, D, f), Sums(h, E, k)
  PROVE  g[S] = h[S]
<1> DEFINE K == {T \in SUBSET S : g[T] = h[T]}
<1>1. ASSUME NEW T \in SUBSET S, \A x \in T : T \ {x} \in K PROVE T \in K
  <2> DEFINE c == CHOOSE x \in T : TRUE
  <2>1. T \in D /\ T \in E
    OBVIOUS
  <2>2. g[T] = IF T = {} THEN 0 ELSE f[c] + g[T \ {c}]
    BY <2>1 DEF Sums
  <2>3. h[T] = IF T = {} THEN 0 ELSE k[c] + h[T \ {c}]
    BY <2>1 DEF Sums
  <2>4. T # {} => c \in T
    OBVIOUS
  <2> HIDE DEF c
  <2>5. T # {} => f[c] = k[c] /\ g[T \ {c}] = h[T \ {c}]
    BY <1>1, <2>4
  <2> QED BY <2>2, <2>3, <2>5
<1>2. S \in K
  <2> HIDE DEF K
  <2>1. \A T \in SUBSET S : T \in K
    BY <1>1, SubsetInduction
  <2> QED BY <2>1
<1> QED BY <1>2

LEMMA SumDef ==
  ASSUME NEW f, NEW S, IsFiniteSet(S)
  PROVE  \E g : Sums(g, SUBSET S, f) /\ SumFunctionOnSet(f, S) = g[S]
  BY SumIs, SumsExist

LEMMA SumSame ==
  ASSUME NEW S, IsFiniteSet(S), NEW f, NEW k, \A x \in S : f[x] = k[x]
  PROVE  SumFunctionOnSet(f, S) = SumFunctionOnSet(k, S)
<1>1. PICK g : Sums(g, SUBSET S, f) /\ SumFunctionOnSet(f, S) = g[S]
  BY SumDef
<1>2. PICK h : Sums(h, SUBSET S, k) /\ SumFunctionOnSet(k, S) = h[S]
  BY SumDef
<1> QED BY <1>1, <1>2, SumsAgree

LEMMA SumEmpty ==
  ASSUME NEW f
  PROVE  SumFunctionOnSet(f, {}) = 0
<1>1. IsFiniteSet({})
  BY FS_EmptySet
<1>2. PICK g : Sums(g, SUBSET {}, f) /\ SumFunctionOnSet(f, {}) = g[{}]
  BY <1>1, SumDef
<1> QED BY <1>2 DEF Sums

LEMMA SumStep ==
  ASSUME NEW f, NEW S, IsFiniteSet(S), S # {}
  PROVE  \E c \in S : SumFunctionOnSet(f, S) = f[c] + SumFunctionOnSet(f, S \ {c})
<1> DEFINE c == CHOOSE x \in S : TRUE
<1>1. c \in S
  OBVIOUS
<1>2. PICK g : Sums(g, SUBSET S, f) /\ SumFunctionOnSet(f, S) = g[S]
  BY SumDef
<1>3. g[S] = f[c] + g[S \ {c}]
  BY <1>2 DEF Sums
<1> HIDE DEF c
<1> DEFINE R == S \ {c}
<1>4. IsFiniteSet(R)
  BY FS_Subset
<1>5. PICK h : Sums(h, SUBSET R, f) /\ SumFunctionOnSet(f, R) = h[R]
  BY <1>4, SumDef
<1>6. g[R] = h[R]
  <2>1. SUBSET R \subseteq SUBSET S
    OBVIOUS
  <2> HIDE DEF R
  <2> QED BY <1>2, <1>4, <1>5, <2>1, SumsAgree
<1> QED BY <1>1, <1>2, <1>3, <1>5, <1>6

LEMMA SumNat ==
  ASSUME NEW f, NEW S, IsFiniteSet(S), \A x \in S : f[x] \in Nat
  PROVE  SumFunctionOnSet(f, S) \in Nat
<1> DEFINE K == {T \in SUBSET S : SumFunctionOnSet(f, T) \in Nat}
<1>1. ASSUME NEW T \in SUBSET S, \A x \in T : T \ {x} \in K PROVE T \in K
  <2>1. CASE T = {}
    BY <2>1, SumEmpty
  <2>2. CASE T # {}
    <3>1. IsFiniteSet(T)
      BY FS_Subset
    <3>2. PICK c \in T : SumFunctionOnSet(f, T) = f[c] + SumFunctionOnSet(f, T \ {c})
      BY <2>2, <3>1, SumStep
    <3>3. f[c] \in Nat /\ SumFunctionOnSet(f, T \ {c}) \in Nat
      BY <1>1
    <3> QED BY <3>2, <3>3
  <2> QED BY <2>1, <2>2
<1>2. S \in K
  <2> HIDE DEF K
  <2>1. \A T \in SUBSET S : T \in K
    BY <1>1, SubsetInduction
  <2> QED BY <2>1
<1> QED BY <1>2

\* Whichever element is taken out, the sum is what it has and the sum of the rest.
LEMMA SumRemove ==
  ASSUME NEW f, NEW S, IsFiniteSet(S), \A x \in S : f[x] \in Nat, NEW y \in S
  PROVE  SumFunctionOnSet(f, S) = f[y] + SumFunctionOnSet(f, S \ {y})
<1> DEFINE sum(T) == SumFunctionOnSet(f, T)
           K == {T \in SUBSET S : \A x \in T : sum(T) = f[x] + sum(T \ {x})}
<1>1. ASSUME NEW T \in SUBSET S, \A x \in T : T \ {x} \in K PROVE T \in K
  <2> SUFFICES ASSUME NEW x \in T PROVE sum(T) = f[x] + sum(T \ {x})
    OBVIOUS
  <2>1. IsFiniteSet(T)
    BY FS_Subset
  <2>2. PICK c \in T : sum(T) = f[c] + sum(T \ {c})
    BY <2>1, SumStep
  <2>3. CASE c = x
    BY <2>2, <2>3
  <2>4. CASE c # x
    <3>1. c \in T \ {x} /\ x \in T \ {c}
      BY <2>4
    <3>2. sum(T \ {c}) = f[x] + sum((T \ {c}) \ {x})
      BY <1>1, <3>1
    <3>3. sum(T \ {x}) = f[c] + sum((T \ {x}) \ {c})
      BY <1>1, <3>1
    <3>4. (T \ {c}) \ {x} = (T \ {x}) \ {c}
      OBVIOUS
    <3>5. sum((T \ {x}) \ {c}) \in Nat
      <4>1. IsFiniteSet((T \ {x}) \ {c})
        BY <2>1, FS_Subset
      <4> QED BY <4>1, SumNat
    <3>6. f[x] \in Nat /\ f[c] \in Nat
      OBVIOUS
    <3> HIDE DEF sum
    <3> QED BY <2>2, <3>2, <3>3, <3>4, <3>5, <3>6
  <2> QED BY <2>3, <2>4
<1>2. S \in K
  <2> HIDE DEF K
  <2>1. \A T \in SUBSET S : T \in K
    BY <1>1, SubsetInduction
  <2> QED BY <2>1
<1> QED BY <1>2

\* Every element has one of its own on the other side that is large enough.
LEMMA SumPaired ==
  ASSUME NEW f, NEW k, NEW S, NEW T, IsFiniteSet(S), IsFiniteSet(T),
         \A x \in S : f[x] \in Nat, \A x \in T : k[x] \in Nat,
         NEW m \in [S -> T], \A x, y \in S : m[x] = m[y] => x = y,
         NEW factor \in Nat, \A x \in S : f[x] <= factor * k[m[x]]
  PROVE  SumFunctionOnSet(f, S) <= factor * SumFunctionOnSet(k, T)
<1> DEFINE image(U) == {m[x] : x \in U}
           a(U) == SumFunctionOnSet(f, U)
           b(V) == SumFunctionOnSet(k, V)
           K == {U \in SUBSET S : \A V \in SUBSET T : image(U) \subseteq V => a(U) <= factor * b(V)}
<1>1. \A V \in SUBSET T : IsFiniteSet(V) /\ b(V) \in Nat
  <2> SUFFICES ASSUME NEW V \in SUBSET T PROVE IsFiniteSet(V) /\ b(V) \in Nat
    OBVIOUS
  <2>1. IsFiniteSet(V)
    BY FS_Subset
  <2> QED BY <2>1, SumNat
<1>2. \A U \in SUBSET S : IsFiniteSet(U) /\ a(U) \in Nat
  <2> SUFFICES ASSUME NEW U \in SUBSET S PROVE IsFiniteSet(U) /\ a(U) \in Nat
    OBVIOUS
  <2>1. IsFiniteSet(U)
    BY FS_Subset
  <2> QED BY <2>1, SumNat
<1>3. ASSUME NEW U \in SUBSET S, \A x \in U : U \ {x} \in K PROVE U \in K
  <2> SUFFICES ASSUME NEW V \in SUBSET T, image(U) \subseteq V PROVE a(U) <= factor * b(V)
    OBVIOUS
  <2>1. CASE U = {}
    <3>1. a(U) = 0
      BY <2>1, SumEmpty
    <3>2. \A x \in Nat : factor * x \in Nat
      OBVIOUS
    <3> HIDE DEF a, b
    <3> QED BY <1>1, <3>1, <3>2
  <2>2. CASE U # {}
    <3>1. PICK x \in U : TRUE
      BY <2>2
    <3>2. m[x] \in V /\ image(U \ {x}) \subseteq V \ {m[x]}
      OBVIOUS
    <3>3. a(U \ {x}) <= factor * b(V \ {m[x]})
      BY <1>3, <3>2
    <3>4. a(U) = f[x] + a(U \ {x})
      BY <1>2, SumRemove
    <3>5. b(V) = k[m[x]] + b(V \ {m[x]})
      BY <1>1, <3>2, SumRemove
    <3>6. /\ f[x] \in Nat /\ k[m[x]] \in Nat /\ f[x] <= factor * k[m[x]]
          /\ a(U \ {x}) \in Nat /\ b(V \ {m[x]}) \in Nat
      BY <1>1, <1>2
    <3>7. \A p, q, r, s \in Nat : p <= factor * q /\ r <= factor * s => p + r <= factor * (q + s)
      OBVIOUS
    <3> HIDE DEF a, b
    <3> QED BY <3>3, <3>4, <3>5, <3>6, <3>7
  <2> QED BY <2>1, <2>2
<1>4. S \in K
  <2> HIDE DEF K
  <2> QED BY <1>3, SubsetInduction
<1> QED BY <1>4
=============================================================================
