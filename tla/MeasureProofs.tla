--------------------------- MODULE MeasureProofs ---------------------------
(***************************************************************************)
(* What is proved of Energy, Codec and Blocks: the recovered energy is the *)
(* area under its readings, values survive their registers and blocks read *)
(* what they should, for every value of the constants.                     *)
(*                                                                         *)
(* Sums and folds are recursive functions.  That such a function exists    *)
(* and what it does is shown by induction over a set of numbers, or over   *)
(* the subsets of a finite set, that a well-founded order gives.           *)
(***************************************************************************)
EXTENDS MCMeasures, FiniteSetTheorems, SequenceTheorems, TLAPS

\* Induction over the natural numbers, for a set of them.
LEMMA Induction ==
  ASSUME NEW N \in SUBSET Nat, 0 \in N, \A n \in N : n + 1 \in N
  PROVE  N = Nat
<1>1. SUFFICES ASSUME Nat \ N # {} PROVE FALSE
  OBVIOUS
<1>2. PICK least \in Nat \ N : \A n \in Nat \ N : <<n, least>> \notin OpToRel(<, Nat)
  BY <1>1, NatLessThanWellFounded, WFMin, Zenon
<1>3. \A n \in Nat \ N : ~(n < least)
  BY <1>2 DEF OpToRel
<1>4. least - 1 \in Nat /\ least - 1 \notin N
  OBVIOUS
<1> QED
  BY <1>3, <1>4

\* C chooses an element of each subset of S.
Chooses(C, S) == \A s \in SUBSET S : s # {} => C[s] \in s

\* g folds F over each subset of S, taking the element first that C chooses.
Folds(g, start, F, C, S) ==
  \A s \in SUBSET S : g[s] = IF s = {} THEN start ELSE F[C[s]][g[s \ {C[s]}]]

\* A function on the subsets of a finite set may be defined by what it is
\* for a set without its chosen element.
LEMMA FoldExists ==
  ASSUME NEW S, IsFiniteSet(S), NEW Y, NEW start \in Y, NEW F \in [S -> [Y -> Y]],
         NEW C, Chooses(C, S)
  PROVE  \E g \in [SUBSET S -> Y] : Folds(g, start, F, C, S)
<1> DEFINE Step(g, s) == IF s = {} THEN start ELSE F[C[s]][g[s \ {C[s]}]]
           Upto(g, n) == \A s \in SUBSET S : Cardinality(s) <= n => g[s] = Step(g, s)
           N == {n \in Nat : \E g \in [SUBSET S -> Y] : Upto(g, n)}
<1>1. \A s \in SUBSET S : IsFiniteSet(s) /\ Cardinality(s) \in Nat
  BY FS_Subset, FS_CardinalityType
<1>2. ASSUME NEW g \in [SUBSET S -> Y], NEW s \in SUBSET S PROVE Step(g, s) \in Y
  <2>1. CASE s = {}
    BY <2>1
  <2>2. CASE s # {}
    <3>1. C[s] \in S /\ s \ {C[s]} \in SUBSET S
      BY <2>2 DEF Chooses
    <3>2. g[s \ {C[s]}] \in Y
      BY <3>1
    <3> QED
      BY <2>2, <3>1, <3>2
  <2> QED
    BY <2>1, <2>2
<1>3. 0 \in N
  <2>1. \A s \in SUBSET S : Cardinality(s) <= 0 => s = {}
    BY <1>1, FS_EmptySet
  <2>2. [s \in SUBSET S |-> start] \in [SUBSET S -> Y]
    OBVIOUS
  <2>3. Upto([s \in SUBSET S |-> start], 0)
    BY <2>1
  <2> QED
    BY <2>2, <2>3
<1>4. ASSUME NEW n \in N PROVE n + 1 \in N
  <2>1. PICK g \in [SUBSET S -> Y] : Upto(g, n)
    OBVIOUS
  <2> DEFINE h == [s \in SUBSET S |-> Step(g, s)]
  <2>2. h \in [SUBSET S -> Y]
    BY <1>2
  <2>3. ASSUME NEW s \in SUBSET S, Cardinality(s) <= n + 1 PROVE h[s] = Step(h, s)
    <3>1. CASE s = {}
      BY <3>1
    <3>2. CASE s # {}
      <4> DEFINE r == s \ {C[s]}
      <4>1. r \in SUBSET S /\ Cardinality(r) = Cardinality(s) - 1
        BY <3>2, <1>1, FS_RemoveElement DEF Chooses
      <4>2. Cardinality(r) <= n
        BY <4>1, <1>1, <2>3
      <4>3. g[r] = Step(g, r)
        BY <2>1, <4>1, <4>2
      <4>4. h[r] = g[r]
        BY <4>1, <4>3
      <4>5. h[s] = F[C[s]][g[r]] /\ Step(h, s) = F[C[s]][h[r]]
        BY <3>2
      <4> QED
        BY <4>4, <4>5
    <3> QED
      BY <3>1, <3>2
  <2>4. Upto(h, n + 1)
    BY <2>3
  <2> HIDE DEF h, Upto
  <2> QED
    BY <2>2, <2>4
<1>5. Cardinality(S) \in N
  <2>1. N \in SUBSET Nat
    OBVIOUS
  <2> HIDE DEF N
  <2>2. N = Nat
    BY <1>3, <1>4, <2>1, Induction
  <2> QED
    BY <2>2, FS_CardinalityType
<1>6. PICK g \in [SUBSET S -> Y] : Upto(g, Cardinality(S))
  BY <1>5
<1>7. \A s \in SUBSET S : Cardinality(s) <= Cardinality(S)
  BY FS_Subset
<1> QED
  BY <1>6, <1>7 DEF Folds

\* Induction over the subsets of a finite set, for a set of them.
LEMMA SubsetInduction ==
  ASSUME NEW S, IsFiniteSet(S), NEW B \in SUBSET SUBSET S,
         \A s \in SUBSET S : (\A r \in SUBSET s : r # s => r \in B) => s \in B
  PROVE  B = SUBSET S
<1>1. SUFFICES ASSUME (SUBSET S) \ B # {} PROVE FALSE
  OBVIOUS
<1>2. PICK s \in (SUBSET S) \ B :
        \A r \in (SUBSET S) \ B : <<r, s>> \notin StrictSubsetOrdering(S)
  <2>1. FiniteSubsetsOf(S) = SUBSET S
    BY FS_FiniteSubsetsOfFinite
  <2>2. IsWellFoundedOn(StrictSubsetOrdering(S), SUBSET S)
    BY <2>1, FS_StrictSubsetOrderingWellFounded
  <2> DEFINE R == StrictSubsetOrdering(S)
             All == SUBSET S
             T == All \ B
  <2>3. IsWellFoundedOn(R, All) /\ T \subseteq All /\ T # {}
    BY <1>1, <2>2
  <2> HIDE DEF R, All, T
  <2>4. \E s \in T : \A r \in T : <<r, s>> \notin R
    BY <2>3, WFMin
  <2> QED
    BY <2>4 DEF R, All, T
<1>3. ASSUME NEW r \in SUBSET s, r # s PROVE r \in B
  <2>1. r \in SUBSET S
    OBVIOUS
  <2>2. <<r, s>> \in StrictSubsetOrdering(S)
    BY <1>3, <2>1 DEF StrictSubsetOrdering
  <2> QED
    BY <1>2, <2>1, <2>2
<1> QED
  BY <1>2, <1>3

\* The sums g of f over the subsets of S, as SumFunctionOnSet takes them.
Sums(g, f, S) ==
  \A s \in SUBSET S :
    g[s] = IF s = {} THEN 0
           ELSE f[CHOOSE x \in s : TRUE] + g[s \ {CHOOSE x \in s : TRUE}]

\* There are sums.
LEMMA SumsExist ==
  ASSUME NEW S, IsFiniteSet(S), NEW f, \A x \in S : f[x] \in Int
  PROVE  \E g \in [SUBSET S -> Int] : Sums(g, f, S)
<1> DEFINE C == [s \in SUBSET S |-> CHOOSE x \in s : TRUE]
           F == [x \in S |-> [n \in Int |-> f[x] + n]]
<1>1. \A s \in SUBSET S : s # {} => C[s] \in s
  OBVIOUS
<1>2. F \in [S -> [Int -> Int]]
  OBVIOUS
<1>3. PICK g \in [SUBSET S -> Int] : Folds(g, 0, F, C, S)
  <2> DEFINE Y == Int
  <2>1. 0 \in Y /\ F \in [S -> [Y -> Y]]
    BY <1>2
  <2>2. Chooses(C, S)
    BY <1>1 DEF Chooses
  <2> HIDE DEF C, F, Y
  <2>3. \E g \in [SUBSET S -> Y] : Folds(g, 0, F, C, S)
    BY <2>1, <2>2, FoldExists
  <2> QED
    BY <2>3 DEF Y
<1>4. ASSUME NEW s \in SUBSET S, s # {}
      PROVE  F[C[s]][g[s \ {C[s]}]] = f[C[s]] + g[s \ {C[s]}]
  <2>1. C[s] \in S /\ g[s \ {C[s]}] \in Int
    BY <1>1, <1>4
  <2> HIDE DEF C
  <2> QED
    BY <2>1
<1>5. \A s \in SUBSET S : C[s] = CHOOSE x \in s : TRUE
  OBVIOUS
<1>6. Sums(g, f, S)
  <2> HIDE DEF C, F
  <2> QED
    BY <1>3, <1>4, <1>5 DEF Sums, Folds
<1> QED
  BY <1>6

\* Sums of what is the same are the same.
LEMMA SumsAgree ==
  ASSUME NEW S, IsFiniteSet(S), NEW T \in SUBSET S, NEW f, NEW g, NEW e, NEW h,
         Sums(g, f, S), Sums(h, e, T), \A x \in T : f[x] = e[x]
  PROVE  g[T] = h[T]
<1> DEFINE B == {s \in SUBSET T : g[s] = h[s]}
<1>1. ASSUME NEW s \in SUBSET T, \A r \in SUBSET s : r # s => r \in B PROVE s \in B
  <2>1. CASE s = {}
    BY <2>1 DEF Sums
  <2>2. CASE s # {}
    <3> DEFINE x == CHOOSE x \in s : TRUE
    <3>1. x \in s /\ s \ {x} \in SUBSET s /\ s \ {x} # s /\ s \in SUBSET S
      BY <2>2
    <3>2. g[s] = f[x] + g[s \ {x}] /\ h[s] = e[x] + h[s \ {x}]
      BY <2>2, <3>1 DEF Sums
    <3>3. g[s \ {x}] = h[s \ {x}] /\ f[x] = e[x]
      BY <1>1, <3>1
    <3> QED
      BY <3>2, <3>3
  <2> QED
    BY <2>1, <2>2
<1>2. IsFiniteSet(T)
  BY FS_Subset
<1>3. B = SUBSET T
  <2>1. B \in SUBSET SUBSET T
    OBVIOUS
  <2> HIDE DEF B
  <2> QED
    BY <1>1, <1>2, <2>1, SubsetInduction
<1> QED
  BY <1>3

\* What one element more adds to a sum.
Adds(g, f, S) ==
  \A s \in SUBSET S : \A y \in S \ s : g[s \union {y}] = f[y] + g[s]

\* One element more adds what is for it, whichever element is chosen first.
LEMMA SumsAdd ==
  ASSUME NEW S, IsFiniteSet(S), NEW f, \A x \in S : f[x] \in Int,
         NEW g \in [SUBSET S -> Int], Sums(g, f, S)
  PROVE  Adds(g, f, S)
<1> DEFINE B == {s \in SUBSET S : \A y \in S \ s : g[s \union {y}] = f[y] + g[s]}
<1>1. ASSUME NEW s \in SUBSET S, \A r \in SUBSET s : r # s => r \in B,
             NEW y \in S \ s
      PROVE  g[s \union {y}] = f[y] + g[s]
  <2> DEFINE t == s \union {y}
             x == CHOOSE x \in t : TRUE
  <2>1. x \in t /\ t \in SUBSET S /\ g[t] = f[x] + g[t \ {x}]
    <3>1. t # {} /\ t \in SUBSET S
      OBVIOUS
    <3>2. x \in t
      BY <3>1
    <3> QED
      BY <3>1, <3>2 DEF Sums
  <2> HIDE DEF x
  <2>2. CASE x = y
    <3>1. t \ {x} = s
      BY <2>2
    <3> QED
      BY <2>1, <2>2, <3>1
  <2>3. CASE x # y
    <3> DEFINE r == s \ {x}
    <3>1. x \in s /\ r \in SUBSET s /\ r # s /\ x \in S \ r /\ y \in S \ r
      BY <2>1, <2>3
    <3>2. r \in B
      BY <1>1, <3>1
    <3>3. g[r \union {y}] = f[y] + g[r] /\ g[r \union {x}] = f[x] + g[r]
      BY <3>1, <3>2
    <3>4. t \ {x} = r \union {y} /\ r \union {x} = s
      BY <2>3, <3>1
    <3>5. f[x] \in Int /\ f[y] \in Int /\ g[r] \in Int
      BY <3>1
    <3>6. g[t] = f[y] + g[s]
      <4> HIDE DEF r, t
      <4>1. g[t] = f[x] + (f[y] + g[r])
        BY <2>1, <3>3, <3>4
      <4>2. g[s] = f[x] + g[r]
        BY <3>3, <3>4
      <4> QED
        BY <4>1, <4>2, <3>5
    <3> QED
      BY <3>6
  <2> QED
    BY <2>2, <2>3
<1>2. B = SUBSET S
  <2>1. /\ B \in SUBSET SUBSET S
        /\ \A s \in SUBSET S : (\A r \in SUBSET s : r # s => r \in B) => s \in B
    BY <1>1
  <2> HIDE DEF B
  <2> QED
    BY <2>1, SubsetInduction
<1> QED
  BY <1>2 DEF Adds

\* g is what SumFunctionOnSet gives for the subsets of S.
Summing(g, f, S) ==
  /\ g \in [SUBSET S -> Int] /\ Sums(g, f, S)
  /\ \A T \in SUBSET S : SumFunctionOnSet(f, T) = g[T]

\* SumFunctionOnSet is the last of the sums over the subsets.
LEMMA SumIsASum ==
  ASSUME NEW S, IsFiniteSet(S), NEW f, \A x \in S : f[x] \in Int
  PROVE  \E g : Summing(g, f, S)
<1> DEFINE Choice(s) == CHOOSE x \in s : TRUE
<1>1. PICK g \in [SUBSET S -> Int] : Sums(g, f, S)
  BY SumsExist
<1>2. ASSUME NEW T \in SUBSET S PROVE SumFunctionOnSet(f, T) = g[T]
  <2> DEFINE Eq(h) == h = [s \in SUBSET T |->
                             IF s = {} THEN 0 ELSE f[Choice(s)] + h[s \ {Choice(s)}]]
             g0 == [s \in SUBSET T |-> g[s]]
             h == CHOOSE h : Eq(h)
  <2>1. Eq(g0)
    <3> SUFFICES ASSUME NEW s \in SUBSET T
                 PROVE  g[s] = IF s = {} THEN 0 ELSE f[Choice(s)] + g0[s \ {Choice(s)}]
      OBVIOUS
    <3>1. s \in SUBSET S /\ s \ {Choice(s)} \in SUBSET T
      OBVIOUS
    <3> QED
      BY <1>1, <3>1 DEF Sums
  <2>2. Eq(h)
    <3> HIDE DEF Eq
    <3> QED
      BY <2>1
  <2>3. SumFunctionOnSet(f, T) = h[T]
    BY DEF SumFunctionOnSet, FoldFunctionOnSet, MapThenFoldSet
  <2> HIDE DEF h
  <2>4. Sums(h, f, T)
    <3> SUFFICES ASSUME NEW s \in SUBSET T
                 PROVE  h[s] = IF s = {} THEN 0 ELSE f[Choice(s)] + h[s \ {Choice(s)}]
      BY DEF Sums
    <3> HIDE DEF Choice
    <3> QED
      BY <2>2
  <2>5. g[T] = h[T]
    BY <1>1, <2>4, SumsAgree
  <2> QED
    BY <2>3, <2>5
<1> QED
  BY <1>1, <1>2 DEF Summing

\* A sum of numbers is a number.
LEMMA SumType ==
  ASSUME NEW S, IsFiniteSet(S), NEW f, \A x \in S : f[x] \in Int
  PROVE  SumFunctionOnSet(f, S) \in Int
<1>1. PICK g : Summing(g, f, S)
  BY SumIsASum
<1> QED
  BY <1>1 DEF Summing

\* The sum over nothing.
LEMMA SumOfNothing == ASSUME NEW f PROVE SumFunctionOnSet(f, {}) = 0
<1>1. IsFiniteSet({}) /\ \A x \in {} : f[x] \in Int
  BY FS_EmptySet
<1>2. PICK g : Summing(g, f, {})
  BY <1>1, SumIsASum
<1> QED
  BY <1>2 DEF Summing, Sums

\* The sum over one element more.
LEMMA SumOfMore ==
  ASSUME NEW T, NEW y, y \notin T, IsFiniteSet(T \union {y}),
         NEW f, \A x \in T \union {y} : f[x] \in Int
  PROVE  SumFunctionOnSet(f, T \union {y}) = f[y] + SumFunctionOnSet(f, T)
<1> DEFINE S == T \union {y}
<1>1. PICK g : Summing(g, f, S)
  BY SumIsASum
<1>2. Adds(g, f, S)
  <2> HIDE DEF S
  <2>1. IsFiniteSet(S) /\ \A x \in S : f[x] \in Int
    BY DEF S
  <2> QED
    BY <1>1, <2>1, SumsAdd DEF Summing
<1>3. T \in SUBSET S /\ y \in S \ T
  OBVIOUS
<1> QED
  BY <1>1, <1>2, <1>3 DEF Adds, Summing

\* Sums of what is the same are the same.
LEMMA SumSame ==
  ASSUME NEW T, IsFiniteSet(T), NEW e, NEW f, \A x \in T : e[x] = f[x],
         \A x \in T : f[x] \in Int
  PROVE  SumFunctionOnSet(e, T) = SumFunctionOnSet(f, T)
<1>1. \A x \in T : e[x] \in Int
  OBVIOUS
<1>2. PICK g : Summing(g, f, T)
  BY SumIsASum
<1>3. PICK h : Summing(h, e, T)
  BY <1>1, SumIsASum
<1>4. g[T] = h[T]
  BY <1>2, <1>3, SumsAgree DEF Summing
<1> QED
  BY <1>2, <1>3, <1>4 DEF Summing

-----------------------------------------------------------------------------
\* What polls brought.
Readings == Seq([at : Nat, data : Polled])

\* The power of a reading that counts.
LEMMA PowerType == \A d \in Polled : Counts(d) => Recovered(d) \in Nat
<1> SUFFICES ASSUME NEW d \in Polled, Counts(d) PROVE Recovered(d) \in Nat
  OBVIOUS
<1>1. \A key \in Sources : d[key] \in Int
  BY PolledAssumption DEF Counts, ValidInput
<1>2. /\ d["airflow_supply"] \in Int /\ d["temp_supply_air"] \in Int
      /\ d["temp_air_intake"] \in Int /\ AirHeatCapacity \in Int
  BY <1>1, EnergyAssumption DEF Sources
<1> DEFINE heat == d["airflow_supply"] * AirHeatCapacity
                     * (d["temp_supply_air"] - d["temp_air_intake"])
<1>3. heat \in Int
  BY <1>2
<1>4. Rounded(heat, 100) \in Int
  <2> HIDE DEF heat
  <2> QED
    BY <1>3 DEF Rounded
<1> QED
  BY <1>4 DEF Recovered, HeatRecoveryPower

\* The areas of the intervals are numbers.
LEMMA AreasType ==
  ASSUME NEW rs \in Readings
  PROVE  IsFiniteSet(Intervals(rs)) /\ \A n \in Intervals(rs) : AreaOf(rs, n) \in Int
<1> DEFINE R == [at : Nat, data : Polled]
<1>1. rs \in Seq(R)
  BY DEF Readings
<1>2. IsFiniteSet(Intervals(rs))
  <2>1. Len(rs) - 1 \in Int /\ Intervals(rs) \in SUBSET (1..(Len(rs) - 1))
    BY <1>1 DEF Intervals
  <2>2. IsFiniteSet(1..(Len(rs) - 1))
    BY <2>1, FS_Interval
  <2> QED
    BY <2>1, <2>2, FS_Subset
<1>3. ASSUME NEW n \in Intervals(rs) PROVE AreaOf(rs, n) \in Int
  <2>1. n \in 1..Len(rs) /\ n + 1 \in 1..Len(rs)
    BY <1>1 DEF Intervals
  <2>2. rs[n] \in R /\ rs[n + 1] \in R
    <3> HIDE DEF R
    <3> QED
      BY <1>1, <2>1
  <2>3. Recovered(rs[n].data) \in Int /\ Recovered(rs[n + 1].data) \in Int
    BY <2>2, PowerType DEF Intervals
  <2> QED
    BY <2>2, <2>3 DEF AreaOf
<1> QED
  BY <1>2, <1>3

\* The area is a number.
LEMMA AreaType == ASSUME NEW rs \in Readings PROVE AreaUnder(rs) \in Int
<1> DEFINE f == [n \in Intervals(rs) |-> AreaOf(rs, n)]
<1>1. IsFiniteSet(Intervals(rs)) /\ \A n \in Intervals(rs) : f[n] \in Int
  BY AreasType
<1>2. AreaUnder(rs) = SumFunctionOnSet(f, Intervals(rs))
  BY DEF AreaUnder, SumFunction
<1> HIDE DEF f
<1> QED
  BY <1>1, <1>2, SumType

\* What a reading adds to the area: that of the interval it ends.
LEMMA AreaGrows ==
  ASSUME NEW rs \in Readings, rs # <<>>, NEW r \in [at : Nat, data : Polled]
  PROVE  LET before == rs[Len(rs)]
         IN AreaUnder(Append(rs, r)) =
              AreaUnder(rs) +
                IF Counts(before.data) /\ Counts(r.data) /\ r.at - before.at <= MaxGap
                THEN (Recovered(before.data) + Recovered(r.data)) * (r.at - before.at)
                ELSE 0
<1> DEFINE qs == Append(rs, r)
           k == Len(rs)
           I == Intervals(rs)
           J == Intervals(qs)
           e == [n \in I |-> AreaOf(rs, n)]
           f == [n \in J |-> AreaOf(qs, n)]
<1>1. /\ qs \in Readings /\ k \in Nat \ {0} /\ Len(qs) = k + 1
      /\ qs[k] = rs[k] /\ qs[k + 1] = r
      /\ \A n \in 1..k : qs[n] = rs[n]
  BY DEF Readings
<1>2. /\ I = J \ {k}
      /\ k \in J <=> /\ Counts(rs[k].data) /\ Counts(r.data)
                     /\ r.at - rs[k].at <= MaxGap
  <2> HIDE DEF qs, k
  <2>1. k \in J <=> Counts(rs[k].data) /\ Counts(r.data) /\ r.at - rs[k].at <= MaxGap
    BY <1>1 DEF Intervals
  <2>2. ASSUME NEW n \in 1..(k - 1) PROVE n \in I <=> n \in J
    <3>1. /\ n \in 1..(Len(qs) - 1) /\ n \in 1..(Len(rs) - 1)
          /\ qs[n] = rs[n] /\ qs[n + 1] = rs[n + 1]
      BY <1>1 DEF k
    <3> QED
      BY <3>1 DEF Intervals
  <2>3. I \subseteq 1..(k - 1) /\ J \subseteq 1..k
    BY <1>1 DEF Intervals, k
  <2>4. k \in Nat /\ \A n \in 1..k : n = k \/ n \in 1..(k - 1)
    BY <1>1
  <2> HIDE DEF I, J, e, f
  <2>5. k \notin I /\ \A n \in 1..k : n \in I <=> n \in J \ {k}
    BY <2>2, <2>3, <2>4
  <2>6. \A n : n \in I <=> n \in J \ {k}
    <3>1. 1..(k - 1) \subseteq 1..k
      BY <2>4
    <3> QED
      BY <2>3, <2>5, <3>1
  <2> QED
    BY <2>1, <2>6
<1>3. \A n \in I : e[n] = f[n]
  <2> SUFFICES ASSUME NEW n \in I PROVE AreaOf(rs, n) = AreaOf(qs, n)
    BY <1>2
  <2>1. n \in 1..(k - 1)
    BY DEF Intervals
  <2>2. qs[n] = rs[n] /\ qs[n + 1] = rs[n + 1]
    BY <1>1, <2>1
  <2> QED
    BY <2>2 DEF AreaOf
<1>4. k \in J => f[k] = (Recovered(rs[k].data) + Recovered(r.data)) * (r.at - rs[k].at)
  BY <1>1 DEF AreaOf
<1>5. IsFiniteSet(J) /\ \A n \in J : f[n] \in Int
  BY <1>1, AreasType
<1>6. /\ AreaUnder(rs) = SumFunctionOnSet(e, I)
      /\ AreaUnder(qs) = SumFunctionOnSet(f, J)
  BY DEF AreaUnder, SumFunction
<1> HIDE DEF e, f, I, J, k, qs
<1>7. SumFunctionOnSet(e, I) = SumFunctionOnSet(f, I) /\ AreaUnder(rs) \in Int
  <2>1. IsFiniteSet(I) /\ \A n \in I : f[n] \in Int
    BY <1>2, <1>5, FS_Subset
  <2> QED
    BY <1>3, <2>1, SumSame, AreaType
<1>8. CASE k \in J
  <2>1. I \union {k} = J /\ k \notin I
    BY <1>2, <1>8
  <2>2. SumFunctionOnSet(f, I \union {k}) = f[k] + SumFunctionOnSet(f, I)
    BY <1>5, <2>1, SumOfMore
  <2>3. f[k] \in Int
    BY <1>5, <1>8
  <2>4. AreaUnder(qs) = AreaUnder(rs) + f[k]
    <3>1. AreaUnder(qs) = SumFunctionOnSet(f, I \union {k})
      BY <1>6, <2>1
    <3>2. AreaUnder(rs) = SumFunctionOnSet(f, I)
      BY <1>6, <1>7
    <3> QED
      BY <1>7, <2>2, <2>3, <3>1, <3>2
  <2> QED
    BY <1>2, <1>4, <1>8, <2>4 DEF k, qs
<1>9. CASE k \notin J
  <2>1. I = J
    BY <1>2, <1>9
  <2>2. AreaUnder(qs) = AreaUnder(rs)
    BY <1>6, <1>7, <2>1
  <2> QED
    BY <1>2, <1>7, <1>9, <2>2 DEF k, qs
<1> QED
  BY <1>8, <1>9

\* One reading has no area under it.
\* The first reading ends no interval.
LEMMA NoArea == ASSUME NEW r \in [at : Nat, data : Polled] PROVE AreaUnder(<<r>>) = 0
<1> DEFINE f == [n \in Intervals(<<r>>) |-> AreaOf(<<r>>, n)]
<1>1. Intervals(<<r>>) = {}
  BY DEF Intervals
<1>2. AreaUnder(<<r>>) = SumFunctionOnSet(f, {})
  BY <1>1 DEF AreaUnder, SumFunction
<1> QED
  BY <1>2, SumOfNothing

-----------------------------------------------------------------------------
\* The reading of the last successful poll.
Reading0 == readings[Len(readings)]

\* What makes the total follow the area: the reading that the entity keeps is
\* the last one, and it is not in the future.
EnergyInv ==
  /\ now \in Nat /\ total \in Nat /\ base \in Nat
  /\ readings \in Readings /\ readings # <<>>
  /\ Reading0.at <= now
  /\ last = IF Counts(Reading0.data)
            THEN [at |-> Reading0.at, power |-> Recovered(Reading0.data)] ELSE NoReading
  /\ TotalIsTheArea

\* The first poll is a reading.
LEMMA EnergyInvAtTheStart == EnergyInit => EnergyInv
<1> SUFFICES ASSUME EnergyInit PROVE EnergyInv
  OBVIOUS
<1> DEFINE r == [at |-> 0, data |-> data]
<1>1. readings = <<r>> /\ r \in [at : Nat, data : Polled] /\ now = 0 /\ base = 0 /\ total = 0
  BY DEF EnergyInit
<1>2. AreaUnder(readings) = 0
  <2> HIDE DEF r
  <2> QED
    BY <1>1, NoArea
<1>3. readings \in Readings /\ readings # <<>> /\ Reading0 = r
  BY <1>1 DEF Readings, Reading0
<1> QED
  BY <1>1, <1>2, <1>3 DEF EnergyInit, EnergyInv, TotalIsTheArea

\* Rounding of a number that is not negative: at most half a unit away.
LEMMA RoundedIsNear ==
  ASSUME NEW n \in Nat, NEW unit \in Nat \ {0}
  PROVE  /\ Rounded(n, unit) \in Nat
         /\ 2 * (n - unit * Rounded(n, unit)) <= unit
         /\ 2 * (unit * Rounded(n, unit) - n) <= unit
<1> DEFINE q == n \div unit
           r == n % unit
<1>1. q \in Nat /\ r \in 0..(unit - 1) /\ n = unit * q + r
  OBVIOUS
<1>2. Rounded(n, unit) = IF 2 * r > unit \/ (2 * r = unit /\ q % 2 = 1) THEN q + 1 ELSE q
  BY DEF Rounded
<1> HIDE DEF q, r
<1>3. unit * (q + 1) = unit * q + unit /\ unit * q \in Nat
  BY <1>1
<1>4. CASE 2 * r > unit \/ (2 * r = unit /\ q % 2 = 1)
  <2>1. Rounded(n, unit) = q + 1 /\ 2 * r >= unit
    BY <1>1, <1>2, <1>4
  <2> QED
    BY <1>1, <1>3, <2>1
<1>5. CASE ~(2 * r > unit \/ (2 * r = unit /\ q % 2 = 1))
  <2>1. Rounded(n, unit) = q /\ 2 * r <= unit
    BY <1>1, <1>2, <1>5
  <2> QED
    BY <1>1, <1>3, <2>1
<1> QED
  BY <1>4, <1>5

\* A reading adds its interval to the total and to the area.
LEMMA ReadingAddsItsInterval ==
  EnergyInv /\ Reading => EnergyInv' /\ total' >= total
<1> SUFFICES ASSUME EnergyInv, Reading PROVE EnergyInv' /\ total' >= total
  OBVIOUS
<1>1. PICK d \in Polled : AddReading(d) /\ readings' = Append(readings, [at |-> now, data |-> d])
  BY DEF Reading
<1> DEFINE r == [at |-> now, data |-> d]
           b == Reading0
<1>2. /\ now' = now /\ base' = base /\ r \in [at : Nat, data : Polled]
      /\ b \in [at : Nat, data : Polled] /\ b.at <= now
  <2>1. b \in [at : Nat, data : Polled]
    <3> DEFINE R == [at : Nat, data : Polled]
    <3>1. readings \in Seq(R) /\ readings # <<>>
      BY DEF EnergyInv, Readings
    <3> HIDE DEF R
    <3>2. b \in R
      BY <3>1 DEF Reading0
    <3> QED
      BY <3>2 DEF R
  <2> HIDE DEF b
  <2>2. b.at <= now /\ now \in Nat
    BY DEF EnergyInv, b
  <2> QED
    BY <2>1, <2>2 DEF Reading
<1>3. readings' \in Readings /\ readings' # <<>> /\ Reading0' = r
  BY <1>1, <1>2 DEF EnergyInv, Readings, Reading0
<1>4. last' = IF Counts(r.data) THEN [at |-> r.at, power |-> Recovered(r.data)] ELSE NoReading
  BY <1>1 DEF AddReading
<1>5. AreaUnder(readings') =
        AreaUnder(readings) +
          IF Counts(b.data) /\ Counts(d) /\ now - b.at <= MaxGap
          THEN (Recovered(b.data) + Recovered(d)) * (now - b.at)
          ELSE 0
  BY <1>1, <1>2, AreaGrows DEF EnergyInv, Reading0
<1>6. /\ Counts(b.data) => /\ Recovered(b.data) \in Nat
                           /\ last # NoReading /\ last.power = Recovered(b.data)
                           /\ last.at = b.at
      /\ ~Counts(b.data) => last = NoReading
  BY <1>2, PowerType, PolledAssumption DEF EnergyInv
<1>7. total' = total +
        IF Counts(b.data) /\ Counts(d) /\ now - b.at <= MaxGap
        THEN (Recovered(b.data) + Recovered(d)) * (now - b.at)
        ELSE 0
  <2>1. total \in Nat
    BY DEF EnergyInv
  <2> QED
    BY <1>1, <1>6, <2>1 DEF AddReading, Gain
<1>8. Counts(b.data) /\ Counts(d) =>
        (Recovered(b.data) + Recovered(d)) * (now - b.at) \in Nat
  <2> SUFFICES ASSUME Counts(b.data), Counts(d)
               PROVE  (Recovered(b.data) + Recovered(d)) * (now - b.at) \in Nat
    OBVIOUS
  <2>1. Recovered(b.data) + Recovered(d) \in Nat /\ now - b.at \in Nat
    BY <1>2, PowerType DEF EnergyInv
  <2> QED
    BY <2>1
<1>9. total' \in Nat /\ total' >= total
  BY <1>7, <1>8 DEF EnergyInv
<1>10. AreaUnder(readings) \in Int /\ total = base + AreaUnder(readings)
  BY AreaType DEF EnergyInv, TotalIsTheArea
<1>11. TotalIsTheArea'
  <2>1. base \in Nat
    BY DEF EnergyInv
  <2> QED
    BY <1>2, <1>5, <1>7, <1>8, <1>10, <2>1 DEF TotalIsTheArea
<1> QED
  BY <1>2, <1>3, <1>4, <1>9, <1>11 DEF EnergyInv

\* A restart begins a new total from the old one, rounded.
LEMMA RestartRounds ==
  EnergyInv /\ Restart => EnergyInv' /\ 2 * (total - total') <= Shown
<1> SUFFICES ASSUME EnergyInv, Restart PROVE EnergyInv' /\ 2 * (total - total') <= Shown
  OBVIOUS
<1>1. PICK d \in Polled :
        /\ last' = IF Counts(d) THEN [at |-> 0, power |-> Recovered(d)] ELSE NoReading
        /\ readings' = <<[at |-> 0, data |-> d]>>
  BY DEF Restart
<1> DEFINE r == [at |-> 0, data |-> d]
<1>2. readings' = <<r>> /\ r \in [at : Nat, data : Polled] /\ now' = 0 /\ total' = base'
  BY <1>1 DEF Restart
<1>3. AreaUnder(readings') = 0
  <2> HIDE DEF r
  <2> QED
    BY <1>2, NoArea
<1>4. readings' \in Readings /\ readings' # <<>> /\ Reading0' = r
  BY <1>2 DEF Readings, Reading0
<1> DEFINE sum == Shown * Rounded(total, Shown)
<1>5. sum \in Nat /\ 2 * (total - sum) <= Shown
  <2>1. total \in Nat /\ Shown \in Nat \ {0}
    BY EnergyAssumption DEF EnergyInv
  <2>2. Rounded(total, Shown) \in Nat /\ 2 * (total - Shown * Rounded(total, Shown)) <= Shown
    BY <2>1, RoundedIsNear
  <2> QED
    BY <2>1, <2>2
<1>6. base' = sum /\ total' = sum
  BY DEF Restart
<1> HIDE DEF sum
<1>7. base' \in Nat /\ total' \in Nat /\ TotalIsTheArea' /\ 2 * (total - total') <= Shown
  BY <1>3, <1>5, <1>6 DEF TotalIsTheArea
<1>8. last' = IF Counts(r.data) THEN [at |-> r.at, power |-> Recovered(r.data)] ELSE NoReading
  BY <1>1
<1>9. now' \in Nat /\ r.at <= now'
  BY <1>2
<1> HIDE DEF r
<1> QED
  BY <1>4, <1>7, <1>8, <1>9 DEF EnergyInv

\* A restart restored the total, rounded to what is shown.
RestoredNear == now' = 0 /\ 2 * (total - total') <= Shown

\* Every step keeps it, and only a restart takes anything from the total.
LEMMA EnergyStep ==
  EnergyInv /\ [EnergyNext]_energyVars =>
    EnergyInv' /\ (total' >= total \/ RestoredNear)
<1> SUFFICES ASSUME EnergyInv, [EnergyNext]_energyVars
             PROVE  EnergyInv' /\ (total' >= total \/ RestoredNear)
  OBVIOUS
<1>1. CASE Reading
  BY <1>1, ReadingAddsItsInterval
<1>2. CASE Restart
  BY <1>2, RestartRounds DEF Restart, RestoredNear
<1>3. ASSUME UNCHANGED <<total, last, base, readings>>, now' \in Nat, now' >= now
      PROVE  EnergyInv' /\ total' >= total
  <2>1. total \in Nat /\ TotalIsTheArea'
    BY <1>3 DEF EnergyInv, TotalIsTheArea
  <2>2. Reading0' = Reading0
    BY <1>3 DEF Reading0
  <2>3. Reading0.at \in Nat /\ Reading0.at <= now /\ now \in Nat
    <3> DEFINE R == [at : Nat, data : Polled]
    <3>1. readings \in Seq(R) /\ readings # <<>>
      BY DEF EnergyInv, Readings
    <3> HIDE DEF R
    <3>2. Reading0 \in R
      BY <3>1 DEF Reading0
    <3> QED
      BY <3>2 DEF R, EnergyInv
  <2>4. Reading0.at <= now'
    BY <1>3, <2>3
  <2> QED
    BY <1>3, <2>1, <2>2, <2>4 DEF EnergyInv
<1>4. CASE PollFails
  BY <1>3, <1>4 DEF PollFails, NoNewReading, EnergyInv
<1>5. CASE Tick
  BY <1>3, <1>5 DEF Tick, EnergyInv
<1>6. CASE UNCHANGED energyVars
  BY <1>3, <1>6 DEF energyVars, EnergyInv
<1> QED
  BY <1>1, <1>2, <1>4, <1>5, <1>6 DEF EnergyNext

(***************************************************************************)
(* However polls succeed, fail and bring bad values, and however often the *)
(* entity is restored, the total is what was restored and the area under   *)
(* the readings since (_add_reading, async_added_to_hass).                 *)
(***************************************************************************)
THEOREM TotalIsAlwaysTheArea == EnergySpec => []TotalIsTheArea
<1>1. EnergyInv => TotalIsTheArea
  BY DEF EnergyInv
<1>2. EnergyInv /\ [EnergyNext]_energyVars => EnergyInv'
  BY EnergyStep
<1> QED
  BY <1>1, <1>2, EnergyInvAtTheStart, PTL DEF EnergySpec

(***************************************************************************)
(* The total grows but for a restart, where it may lose what rounding to   *)
(* the digits shown takes: half a unit at most (_add_reading, native_value *)
(* and async_added_to_hass).                                               *)
(***************************************************************************)
THEOREM TotalOnlyFallsByRounding ==
  EnergySpec => [][total' >= total \/ RestoredNear]_energyVars
<1>1. EnergyInv /\ [EnergyNext]_energyVars => EnergyInv'
  BY EnergyStep
<1>2. EnergyInv /\ [EnergyNext]_energyVars =>
        [total' >= total \/ RestoredNear]_energyVars
  BY EnergyStep
<1> QED
  BY <1>1, <1>2, EnergyInvAtTheStart, PTL DEF EnergySpec

-----------------------------------------------------------------------------
\* A set with one element more has twice the subsets.
LEMMA TwiceTheSubsets ==
  ASSUME NEW n \in Nat
  PROVE  2^(n + 1) = 2^n + 2^n /\ 2^n \in Nat
<1> DEFINE S == 1..n
           A == SUBSET S
           B == {s \union {n + 1} : s \in A}
           f == [s \in A |-> s \union {n + 1}]
<1>1. /\ IsFiniteSet(S) /\ Cardinality(S) = n
      /\ IsFiniteSet(1..(n + 1)) /\ Cardinality(1..(n + 1)) = n + 1
  BY FS_Interval
<1>2. IsFiniteSet(A) /\ Cardinality(A) = 2^n /\ Cardinality(SUBSET (1..(n + 1))) = 2^(n + 1)
  BY <1>1, FS_SUBSET
<1>3. n + 1 \notin S /\ 1..(n + 1) = S \union {n + 1}
  OBVIOUS
<1>4. f \in Bijection(A, B)
  <2> HIDE DEF S
  <2>1. f \in [A -> B]
    OBVIOUS
  <2>2. ASSUME NEW s \in A, NEW t \in A, f[s] = f[t] PROVE s = t
    <3>1. n + 1 \notin s /\ n + 1 \notin t
      BY <1>3
    <3>2. s \union {n + 1} = t \union {n + 1}
      BY <2>2
    <3> QED
      BY <3>1, <3>2
  <2>3. \A t \in B : \E s \in A : f[s] = t
    OBVIOUS
  <2> HIDE DEF f, A, B
  <2> QED
    BY <2>1, <2>2, <2>3 DEF Bijection, Injection, Surjection, IsInjective
<1>5. IsFiniteSet(B) /\ Cardinality(B) = Cardinality(A)
  <2>1. ExistsBijection(A, B)
    <3> HIDE DEF A, B, f
    <3> QED
      BY <1>4 DEF ExistsBijection
  <2> HIDE DEF A, B
  <2> QED
    BY <1>2, <2>1, FS_Bijection
<1>6. SUBSET (1..(n + 1)) = A \union B /\ A \intersect B = {}
  <2> HIDE DEF S
  <2>1. ASSUME NEW s \in SUBSET (S \union {n + 1}) PROVE s \in A \union B
    <3>1. CASE n + 1 \in s
      <4>1. s \ {n + 1} \in A /\ s = (s \ {n + 1}) \union {n + 1}
        BY <3>1
      <4> QED
        BY <4>1
    <3>2. CASE n + 1 \notin s
      BY <3>2
    <3> QED
      BY <3>1, <3>2
  <2>2. ASSUME NEW s \in A \union B PROVE s \in SUBSET (S \union {n + 1})
    OBVIOUS
  <2>3. A \intersect B = {}
    BY <1>3
  <2>4. SUBSET (S \union {n + 1}) = A \union B
    <3> HIDE DEF A, B
    <3> QED
      BY <2>1, <2>2
  <2> QED
    BY <1>3, <2>3, <2>4
<1>7. Cardinality(A) \in Nat
  <2> HIDE DEF A
  <2> QED
    BY <1>2, FS_CardinalityType
<1> HIDE DEF A, B
<1>8. Cardinality(A \union B) = Cardinality(A) + Cardinality(A)
  <2>1. Cardinality(A \union B) = Cardinality(A) + Cardinality(B) - Cardinality({})
    BY <1>2, <1>5, <1>6, FS_Union
  <2>2. Cardinality({}) = 0
    BY FS_EmptySet
  <2> QED
    BY <1>5, <1>7, <2>1, <2>2
<1>9. 2^(n + 1) = Cardinality(A \union B)
  BY <1>2, <1>6
<1> HIDE DEF S, f
<1> QED
  BY <1>2, <1>5, <1>6, <1>7, <1>8, <1>9, FS_EmptySet

\* Powers of two.
LEMMA Powers ==
  /\ 2^0 = 1
  /\ \A n \in Nat : 2^n \in Nat \ {0} /\ 2^(n + 1) = 2 * 2^n
  /\ \A m, n \in Nat : 2^(m + n) = 2^m * 2^n
<1>1. 2^0 = 1
  <2>1. Cardinality({}) = 0 /\ IsFiniteSet({}) /\ SUBSET {} = {{}}
    BY FS_EmptySet
  <2>2. Cardinality(SUBSET {}) = 2^0
    BY <2>1, FS_SUBSET
  <2> QED
    BY <2>1, <2>2, FS_Singleton
<1>2. \A n \in Nat : 2^n \in Nat /\ 2^(n + 1) = 2 * 2^n
  BY TwiceTheSubsets
<1>3. \A n \in Nat : 2^n # 0
  <2> DEFINE N == {n \in Nat : 2^n # 0}
  <2>1. 0 \in N /\ \A n \in N : n + 1 \in N
    BY <1>1, <1>2
  <2>2. N \in SUBSET Nat
    OBVIOUS
  <2> HIDE DEF N
  <2>3. N = Nat
    BY <2>1, <2>2, Induction
  <2> QED
    BY <2>3 DEF N
<1>4. ASSUME NEW m \in Nat PROVE \A n \in Nat : 2^(m + n) = 2^m * 2^n
  <2> DEFINE N == {n \in Nat : 2^(m + n) = 2^m * 2^n}
  <2>1. 0 \in N
    <3>1. 2^m \in Nat /\ m + 0 = m
      BY <1>2
    <3> QED
      BY <1>1, <3>1
  <2>2. ASSUME NEW n \in N PROVE n + 1 \in N
    <3>1. m + n \in Nat /\ m + (n + 1) = (m + n) + 1
      OBVIOUS
    <3>2. 2^(m + (n + 1)) = 2 * 2^(m + n) /\ 2^(n + 1) = 2 * 2^n
      BY <1>2, <3>1
    <3>3. 2^(m + n) = 2^m * 2^n
      OBVIOUS
    <3>4. \A a, b, c \in Nat : a = b * c => 2 * a = b * (2 * c)
      OBVIOUS
    <3>5. 2^m \in Nat /\ 2^n \in Nat /\ 2^(m + n) \in Nat
      BY <1>2, <3>1
    <3>6. 2 * 2^(m + n) = 2^m * (2 * 2^n)
      BY <3>3, <3>4, <3>5
    <3> QED
      BY <3>2, <3>6
  <2>3. N \in SUBSET Nat
    OBVIOUS
  <2> HIDE DEF N
  <2>4. N = Nat
    BY <2>1, <2>2, <2>3, Induction
  <2> QED
    BY <2>4 DEF N
<1> QED
  BY <1>1, <1>2, <1>3, <1>4

-----------------------------------------------------------------------------
\* Division with a remainder, and that there is only one.
LEMMA Division ==
  ASSUME NEW a \in Nat, NEW b \in Nat \ {0}
  PROVE  /\ a \div b \in Nat /\ a % b \in 0..(b - 1) /\ a = b * (a \div b) + (a % b)
         /\ \A q \in Nat, r \in 0..(b - 1) : a = b * q + r => q = a \div b /\ r = a % b
<1>1. a \div b \in Nat /\ a % b \in 0..(b - 1) /\ a = b * (a \div b) + (a % b)
  OBVIOUS
<1>2. ASSUME NEW q \in Nat, NEW r \in 0..(b - 1), NEW p \in Nat, NEW t \in 0..(b - 1),
             b * q + r = b * p + t
      PROVE  ~(q < p)
  <2> SUFFICES ASSUME q + 1 <= p PROVE FALSE
    OBVIOUS
  <2>1. \A x, y \in Nat : x <= y => b * x <= b * y
    OBVIOUS
  <2>2. b * (q + 1) <= b * p /\ b * (q + 1) = b * q + b
    BY <2>1
  <2>3. b * q \in Nat /\ b * p \in Nat
    OBVIOUS
  <2> QED
    BY <1>2, <2>2, <2>3
<1>3. ASSUME NEW q \in Nat, NEW r \in 0..(b - 1), a = b * q + r
      PROVE  q = a \div b /\ r = a % b
  <2> DEFINE p == a \div b
             t == a % b
  <2>1. p \in Nat /\ t \in 0..(b - 1) /\ a = b * p + t
    BY <1>1
  <2> HIDE DEF p, t
  <2>2. q = p
    BY <1>2, <1>3, <2>1
  <2>3. b * q \in Nat
    OBVIOUS
  <2>4. r = t
    BY <1>3, <2>1, <2>2, <2>3
  <2> QED
    BY <2>2, <2>4 DEF p, t
<1> QED
  BY <1>1, <1>3

\* Less than the divisor is its own remainder.
LEMMA RemainderOfLess == ASSUME NEW b \in Nat \ {0}, NEW a \in 0..(b - 1) PROVE a % b = a
<1>1. a \in Nat /\ 0 \in Nat /\ a = b * 0 + a
  OBVIOUS
<1> QED
  BY <1>1, Division

\* The raw number is the nearest step.
LEMMA RawIsNearest ==
  ASSUME NEW number \in Int, NEW step \in Nat \ {0}
  PROVE  /\ ToRaw(number, step) \in -Magnitude(number)..Magnitude(number)
         /\ Nearest(number, ToRaw(number, step), step)
<1> DEFINE m == Magnitude(number)
           q == (2 * m + step) \div (2 * step)
           r == (2 * m + step) % (2 * step)
           p == step * q
<1>1. /\ m \in Nat /\ (number = m \/ number = -m)
      /\ (number < 0 => number = -m) /\ (number >= 0 => number = m)
  BY DEF Magnitude
<1>2. q \in Nat /\ r \in 0..(2 * step - 1) /\ 2 * m + step = (2 * step) * q + r
  <2>1. 2 * m + step \in Nat /\ 2 * step \in Nat \ {0}
    BY <1>1
  <2> HIDE DEF m
  <2> QED
    BY <2>1, Division
<1> HIDE DEF m, q, r
<1>3. p \in Nat /\ 2 * p = 2 * m + step - r
  <2>1. (2 * step) * q = 2 * (step * q)
    BY <1>2
  <2> QED
    BY <1>1, <1>2, <2>1
<1>4. q <= m
  <2> SUFFICES ASSUME q >= m + 1 PROVE FALSE
    BY <1>1, <1>2
  <2>1. \A a, b \in Nat : a >= b => step * a >= step * b
    OBVIOUS
  <2>2. p >= step * (m + 1)
    BY <1>1, <1>2, <2>1
  <2>3. step * (m + 1) = step * m + step /\ step * m >= m /\ step * m \in Nat
    BY <1>1
  <2> HIDE DEF p
  <2> QED
    BY <1>1, <1>2, <1>3, <2>2, <2>3
<1>5. ToRaw(number, step) = IF number < 0 THEN -q ELSE q
  BY DEF ToRaw, q, m
<1>6. (-q) * step = -p /\ q * step = p
  BY <1>2
<1> HIDE DEF p
<1>7. /\ Magnitude(number - ToRaw(number, step) * step) = Magnitude(m - p)
      /\ Magnitude(ToRaw(number, step) * step) = p
  <2>1. CASE number < 0
    <3>1. ToRaw(number, step) * step = -p /\ number = -m
      BY <1>1, <1>5, <1>6, <2>1
    <3> QED
      BY <1>1, <1>3, <3>1 DEF Magnitude
  <2>2. CASE number >= 0
    <3>1. ToRaw(number, step) * step = p /\ number = m
      BY <1>1, <1>5, <1>6, <2>2
    <3> QED
      BY <1>1, <1>3, <3>1 DEF Magnitude
  <2> QED
    BY <2>1, <2>2
<1>8. /\ 2 * Magnitude(m - p) <= step
      /\ 2 * Magnitude(m - p) = step => p > m
  BY <1>1, <1>2, <1>3 DEF Magnitude
<1>9. Nearest(number, ToRaw(number, step), step)
  BY <1>7, <1>8 DEF Nearest, m
<1>10. ToRaw(number, step) \in -m..m
  BY <1>1, <1>2, <1>4, <1>5
<1> QED
  BY <1>9, <1>10 DEF m

-----------------------------------------------------------------------------
\* The number of values of a word and of a kind.
LEMMA Sizes ==
  ASSUME NEW kind \in Types
  PROVE  /\ 2^WordBits \in Nat \ {0} /\ kind.words \in {1, 2} /\ kind.signed \in BOOLEAN
         /\ 2^Bits(kind) = IF kind.words = 1 THEN 2^WordBits ELSE 2^WordBits * 2^WordBits
         /\ 2^Bits(kind) \in Nat /\ 2^(Bits(kind) - 1) \in Nat
         /\ 2^Bits(kind) = 2 * 2^(Bits(kind) - 1)
<1>1. kind.words \in {1, 2} /\ kind.signed \in BOOLEAN
  BY DEF Types
<1>2. WordBits * 1 = WordBits /\ WordBits * 2 = WordBits + WordBits /\ WordBits \in Nat
  BY WordAssumption
<1>3. Bits(kind) = IF kind.words = 1 THEN WordBits ELSE WordBits + WordBits
  BY <1>1, <1>2 DEF Bits
<1>4. Bits(kind) \in Nat /\ Bits(kind) - 1 \in Nat /\ (Bits(kind) - 1) + 1 = Bits(kind)
  BY <1>3, WordAssumption
<1>5. 2^(WordBits + WordBits) = 2^WordBits * 2^WordBits
  BY <1>2, Powers
<1>6. 2^((Bits(kind) - 1) + 1) = 2 * 2^(Bits(kind) - 1) /\ 2^(Bits(kind) - 1) \in Nat
  BY <1>4, Powers
<1>7. 2^WordBits \in Nat \ {0} /\ 2^Bits(kind) \in Nat
  BY <1>2, <1>4, Powers
<1> QED
  BY <1>1, <1>3, <1>4, <1>5, <1>6, <1>7

\* The number that one or two words stand for.
LEMMA UnsignedIs ==
  ASSUME NEW words, \/ words \in [1..1 -> Word]
                    \/ words \in [1..2 -> Word]
  PROVE  /\ words \in [1..1 -> Word] => Unsigned(words) = words[1]
         /\ words \in [1..2 -> Word] => Unsigned(words) = words[1] * 2^WordBits + words[2]
<1> DEFINE B == 2^WordBits
           Eq(g) == g = [n \in 0..Len(words) |-> IF n = 0 THEN 0 ELSE g[n - 1] * B + words[n]]
           g == CHOOSE g : Eq(g)
<1>1. B \in Nat /\ Word \subseteq Nat
  BY Powers, WordAssumption DEF Word
<1>2. Unsigned(words) = g[Len(words)]
  BY DEF Unsigned
<1>3. Len(words) \in {1, 2} /\ DOMAIN words = 1..Len(words)
  OBVIOUS
<1>4. \A n \in 1..Len(words) : words[n] \in Nat
  BY <1>1, <1>3
<1> HIDE DEF B
<1>5. Eq(g)
  <2> DEFINE h == [n \in 0..Len(words) |->
                     IF n = 0 THEN 0 ELSE IF n = 1 THEN words[1] ELSE words[1] * B + words[2]]
  <2>1. ASSUME NEW n \in 0..Len(words)
        PROVE  h[n] = IF n = 0 THEN 0 ELSE h[n - 1] * B + words[n]
    <3>1. CASE n = 0
      BY <3>1
    <3>2. CASE n = 1
      <4>1. h[0] = 0 /\ h[1] = words[1] /\ words[1] \in Nat
        BY <1>3, <1>4
      <4>2. 0 * B = 0
        BY <1>1
      <4> HIDE DEF h
      <4> QED
        BY <3>2, <4>1, <4>2
    <3>3. CASE n = 2
      <4>1. h[1] = words[1] /\ h[2] = words[1] * B + words[2]
        BY <1>3, <3>3
      <4> HIDE DEF h
      <4> QED
        BY <3>3, <4>1
    <3> QED
      BY <1>3, <3>1, <3>2, <3>3
  <2>2. Eq(h)
    BY <2>1
  <2> HIDE DEF h, Eq
  <2> QED
    BY <2>2
<1> HIDE DEF g
<1>6. g[0] = 0 /\ g[1] = words[1]
  <2>1. g[0] = 0 /\ g[1] = g[0] * B + words[1]
    BY <1>3, <1>5
  <2>2. 0 * B = 0 /\ words[1] \in Nat
    BY <1>1, <1>3, <1>4
  <2> QED
    BY <2>1, <2>2
<1>7. Len(words) = 2 => g[2] = g[1] * B + words[2]
  BY <1>5
<1>8. /\ words \in [1..1 -> Word] => Len(words) = 1
      /\ words \in [1..2 -> Word] => Len(words) = 2
  OBVIOUS
<1> QED
  BY <1>2, <1>6, <1>7, <1>8 DEF B

\* What decode takes the words for.
Meant(words, kind) ==
  IF kind.signed /\ Unsigned(words) >= 2^(Bits(kind) - 1) THEN Unsigned(words) - 2^Bits(kind)
  ELSE Unsigned(words)

\* Words are read as a raw number of the kind.
LEMMA DecodedInRange ==
  ASSUME NEW kind \in Types, NEW words \in [1..kind.words -> Word]
  PROVE  /\ Unsigned(words) \in 0..(2^Bits(kind) - 1)
         /\ Meant(words, kind) \in RawRange(kind)
<1> DEFINE B == 2^WordBits
           M == 2^Bits(kind)
           H == 2^(Bits(kind) - 1)
           U == Unsigned(words)
<1>1. /\ B \in Nat \ {0} /\ M \in Nat /\ H \in Nat /\ M = 2 * H
      /\ kind.words \in {1, 2} /\ kind.signed \in BOOLEAN
      /\ M = IF kind.words = 1 THEN B ELSE B * B
  BY Sizes
<1>2. U \in 0..(M - 1)
  <2>1. CASE kind.words = 1
    <3>1. words \in [1..1 -> Word]
      BY <2>1
    <3>2. U = words[1] /\ words[1] \in Word
      <4>1. Unsigned(words) = words[1]
        BY <3>1, UnsignedIs
      <4>2. 1 \in 1..1
        OBVIOUS
      <4>3. words[1] \in Word
        BY <3>1, <4>2, Zenon
      <4> QED
        BY <4>1, <4>3
    <3> QED
      BY <1>1, <2>1, <3>2 DEF Word
  <2>2. CASE kind.words = 2
    <3>1. words \in [1..2 -> Word]
      BY <2>2
    <3>2. U = words[1] * B + words[2] /\ words[1] \in Word /\ words[2] \in Word
      <4>1. Unsigned(words) = words[1] * 2^WordBits + words[2]
        BY <3>1, UnsignedIs
      <4>2. 1 \in 1..2 /\ 2 \in 1..2
        OBVIOUS
      <4>3. words[1] \in Word /\ words[2] \in Word
        BY <3>1, <4>2, Zenon
      <4> QED
        BY <4>1, <4>3
    <3> DEFINE a == words[1]
               b == words[2]
    <3>3. a \in 0..(B - 1) /\ b \in 0..(B - 1) /\ U = a * B + b /\ M = B * B
      BY <1>1, <2>2, <3>2 DEF Word
    <3> HIDE DEF a, b, B, M, U
    <3>4. a * B \in Nat /\ a * B <= (B - 1) * B /\ (B - 1) * B = B * B - B /\ B * B \in Nat
      BY <1>1, <3>3
    <3> QED
      BY <1>1, <3>3, <3>4
  <2> QED
    BY <1>1, <2>1, <2>2
<1> HIDE DEF U, M, H
<1>3. Meant(words, kind) = IF kind.signed /\ U >= H THEN U - M ELSE U
  BY DEF Meant, U, M, H
<1>4. RawRange(kind) = IF kind.signed THEN -H..(H - 1) ELSE 0..(M - 1)
  BY DEF RawRange, M, H
<1> QED
  BY <1>1, <1>2, <1>3, <1>4 DEF U, M

\* A raw number of the kind is read back from the words written for it.
LEMMA EncodedIsDecoded ==
  ASSUME NEW kind \in Types, NEW number, NEW step, Encodable(number, kind, step)
  PROVE  LET words == Encode(number, kind, step)
         IN words \in [1..kind.words -> Word] /\ Meant(words, kind) = ToRaw(number, step)
<1> DEFINE B == 2^WordBits
           M == 2^Bits(kind)
           H == 2^(Bits(kind) - 1)
           raw == ToRaw(number, step)
           U == IF raw < 0 THEN raw + M ELSE raw
           words == Encode(number, kind, step)
<1>1. /\ B \in Nat \ {0} /\ M \in Nat /\ H \in Nat /\ M = 2 * H
      /\ kind.words \in {1, 2} /\ kind.signed \in BOOLEAN
      /\ M = IF kind.words = 1 THEN B ELSE B * B
  BY Sizes
<1>2. raw \in IF kind.signed THEN -H..(H - 1) ELSE 0..(M - 1)
  BY DEF Encodable, RawRange
<1>3. words = [n \in 1..kind.words |-> (U \div 2^(WordBits * (kind.words - n))) % B]
  BY DEF Encode
<1> HIDE DEF B, M, H, raw, words
<1>4. U \in 0..(M - 1) /\ raw = IF kind.signed /\ U >= H THEN U - M ELSE U
  BY <1>1, <1>2
<1> HIDE DEF U
<1>5. words \in [1..kind.words -> Word] /\ Unsigned(words) = U
  <2>1. CASE kind.words = 1
    <3>1. 2^(WordBits * (1 - 1)) = 1
      BY Powers, WordAssumption
    <3>2. U \div 1 = U /\ U % B = U
      <4>1. U \in Nat /\ U = 1 * U + 0 /\ U = B * 0 + U /\ U \in 0..(B - 1)
        BY <1>1, <1>4, <2>1
      <4> QED
        BY <1>1, <4>1, Division
    <3>3. words \in [1..1 -> Word] /\ words[1] = U
      <4>1. words = [n \in 1..1 |-> (U \div 2^(WordBits * (1 - n))) % B]
        BY <1>3, <2>1
      <4>2. \A n \in 1..1 : words[n] = U
        BY <3>1, <3>2, <4>1
      <4>3. U \in Word
        BY <1>1, <1>4, <2>1 DEF Word, B
      <4> QED
        BY <4>1, <4>2, <4>3
    <3> QED
      BY <2>1, <3>3, UnsignedIs
  <2>2. CASE kind.words = 2
    <3>1. 2^(WordBits * (2 - 1)) = B /\ 2^(WordBits * (2 - 2)) = 1
      BY Powers, WordAssumption DEF B
    <3> DEFINE q == U \div B
               r == U % B
    <3>2. q \in 0..(B - 1) /\ r \in 0..(B - 1) /\ U = B * q + r
      <4>1. U \in Nat /\ M = B * B
        BY <1>1, <1>4, <2>2
      <4>2. q \in Nat /\ r \in 0..(B - 1) /\ U = B * q + r
        BY <1>1, <4>1, Division
      <4> HIDE DEF q, r
      <4>3. q < B
        <5> SUFFICES ASSUME q >= B PROVE FALSE
          BY <1>1, <4>2
        <5>1. B * q >= B * B /\ B * q \in Nat /\ B * B \in Nat
          BY <1>1, <4>2
        <5> QED
          BY <1>4, <4>1, <4>2, <5>1
      <4> QED
        BY <1>1, <4>2, <4>3
    <3>3. U \div 1 = U /\ q % B = q
      <4>1. U \in Nat /\ U = 1 * U + 0 /\ q \in Nat /\ q = B * 0 + q
        BY <1>1, <1>4, <3>2
      <4>2. U \div 1 = U
        <5>1. 1 \in Nat \ {0} /\ 0 \in 0..(1 - 1)
          OBVIOUS
        <5> QED
          BY <4>1, <5>1, Division
      <4> HIDE DEF q
      <4>3. q % B = q
        BY <1>1, <3>2, RemainderOfLess
      <4> QED
        BY <4>2, <4>3
    <3>4. words \in [1..2 -> Word] /\ words[1] = q /\ words[2] = r
      <4>1. words = [n \in 1..2 |-> (U \div 2^(WordBits * (2 - n))) % B]
        BY <1>3, <2>2
      <4>2. words[1] = q /\ words[2] = r
        BY <3>1, <3>3, <4>1
      <4>3. q \in Word /\ r \in Word
        BY <3>2 DEF Word, B
      <4> HIDE DEF q, r
      <4>4. \A n \in 1..2 : words[n] \in Word
        BY <4>2, <4>3
      <4> QED
        BY <4>1, <4>2, <4>4
    <3> HIDE DEF q, r
    <3>5. Unsigned(words) = q * B + r
      BY <3>4, UnsignedIs DEF B
    <3>6. B * q = q * B
      BY <1>1, <3>2
    <3> QED
      BY <2>2, <3>2, <3>4, <3>5, <3>6
  <2> QED
    BY <1>1, <2>1, <2>2
<1>6. Meant(words, kind) = raw
  BY <1>4, <1>5 DEF Meant, M, H
<1> QED
  BY <1>5, <1>6 DEF words, raw

\* The bits of a number below a bit add up to its remainder.
BitsBelow(raw, n) == {bit \in 0..(n - 1) : (raw \div 2^bit) % 2 = 1}

\* The lowest bits add up to the remainder.
LEMMA BitsAddUp ==
  ASSUME NEW raw \in Nat, NEW f, \A bit \in Nat : f[bit] = 2^bit
  PROVE  \A n \in Nat : SumFunctionOnSet(f, BitsBelow(raw, n)) = raw % 2^n
<1> DEFINE N == {n \in Nat : SumFunctionOnSet(f, BitsBelow(raw, n)) = raw % 2^n}
<1>1. 0 \in N
  <2>1. BitsBelow(raw, 0) = {}
    BY DEF BitsBelow
  <2>2. raw % 1 = 0
    <3>1. raw % 1 \in 0..(1 - 1)
      <4>1. 1 \in Nat \ {0}
        OBVIOUS
      <4> QED
        BY <4>1, Division
    <3> QED
      BY <3>1
  <2> QED
    BY <2>1, <2>2, Powers, SumOfNothing
<1>2. ASSUME NEW n \in N PROVE n + 1 \in N
  <2> DEFINE P == 2^n
             q == raw \div P
             r == raw % P
             A == BitsBelow(raw, n)
             C == BitsBelow(raw, n + 1)
  <2>1. n \in Nat /\ P \in Nat \ {0} /\ 2^(n + 1) = 2 * P /\ SumFunctionOnSet(f, A) = r
    BY Powers
  <2>2. q \in Nat /\ r \in 0..(P - 1) /\ raw = P * q + r
    <3> HIDE DEF P
    <3> QED
      BY <2>1, Division
  <2>3. /\ n \notin A /\ A \subseteq 0..(n - 1)
        /\ C = IF q % 2 = 1 THEN A \union {n} ELSE A
    <3>1. n \notin A /\ A \subseteq 0..(n - 1)
      BY <2>1 DEF BitsBelow
    <3>2. ASSUME NEW bit PROVE bit \in 0..((n + 1) - 1) <=> bit \in 0..(n - 1) \/ bit = n
      BY <2>1
    <3>3. ASSUME NEW bit PROVE bit \in C <=> bit \in A \/ (bit = n /\ q % 2 = 1)
      BY <3>2 DEF BitsBelow
    <3> HIDE DEF A, C, q
    <3> QED
      BY <3>1, <3>3
  <2> HIDE DEF P, q, r, A, C
  <2>4. /\ q \div 2 \in Nat /\ q % 2 \in 0..1 /\ q = 2 * (q \div 2) + (q % 2)
    BY <2>2
  <2>5. raw % (2 * P) = P * (q % 2) + r
    <3> DEFINE p == q \div 2
               c == q % 2
    <3>1. p \in Nat /\ c \in 0..1 /\ q = 2 * p + c
      BY <2>4
    <3> HIDE DEF p, c
    <3>2. P * q = (2 * P) * p + P * c
      BY <2>1, <3>1
    <3>3. P * c \in {0, P} /\ (c = 0 => P * c = 0) /\ (c = 1 => P * c = P)
      BY <2>1, <3>1
    <3>4. P * c + r \in 0..(2 * P - 1) /\ (2 * P) * p \in Nat
      BY <2>1, <2>2, <3>1, <3>3
    <3>5. raw = (2 * P) * p + (P * c + r)
      BY <2>1, <2>2, <3>2, <3>3, <3>4
    <3>6. 2 * P \in Nat \ {0}
      BY <2>1
    <3> DEFINE Q == 2 * P
               t == P * c + r
    <3>7. Q \in Nat \ {0} /\ t \in 0..(Q - 1) /\ raw = Q * p + t
      BY <3>4, <3>5, <3>6
    <3> HIDE DEF Q, t
    <3>8. raw % Q = t
      BY <3>1, <3>7, Division
    <3> QED
      BY <3>8 DEF Q, t, c
  <2>6. CASE q % 2 = 1
    <3>1. C = A \union {n} /\ f[n] = P
      BY <2>1, <2>3, <2>6 DEF P
    <3>2. IsFiniteSet(A \union {n}) /\ \A x \in A \union {n} : f[x] \in Int
      <4>1. IsFiniteSet(0..(n - 1)) /\ 0..(n - 1) \subseteq Nat
        BY <2>1, FS_Interval
      <4>2. IsFiniteSet(A) /\ A \union {n} \subseteq Nat
        BY <2>1, <2>3, <4>1, FS_Subset
      <4>3. IsFiniteSet(A \union {n})
        BY <4>2, FS_AddElement
      <4>4. ASSUME NEW x \in Nat PROVE f[x] \in Int
        <5>1. 2^x \in Nat
          BY Powers
        <5> QED
          BY <5>1
      <4> HIDE DEF N
      <4> QED
        BY <4>2, <4>3, <4>4
    <3>3. SumFunctionOnSet(f, C) = f[n] + SumFunctionOnSet(f, A)
      BY <2>3, <3>1, <3>2, SumOfMore
    <3>4. P * (q % 2) = P
      BY <2>1, <2>6
    <3>5. SumFunctionOnSet(f, C) = P + r /\ raw % 2^(n + 1) = P + r
      BY <2>1, <2>5, <3>1, <3>3, <3>4
    <3> QED
      BY <2>1, <3>5 DEF C
  <2>7. CASE q % 2 # 1
    <3>1. C = A /\ q % 2 = 0
      BY <2>3, <2>4, <2>7
    <3>2. P * (q % 2) = 0
      BY <2>1, <3>1
    <3>3. SumFunctionOnSet(f, C) = r /\ raw % 2^(n + 1) = r
      BY <2>1, <2>2, <2>5, <3>1, <3>2
    <3> QED
      BY <2>1, <3>3 DEF C
  <2> QED
    BY <2>6, <2>7
<1>3. N \in SUBSET Nat
  OBVIOUS
<1> HIDE DEF N
<1>4. N = Nat
  BY <1>1, <1>2, <1>3, Induction
<1> QED
  BY <1>4 DEF N

\* A number that fits the kind comes back as the step nearest to it; one that
\* does not fit is the number of no words.
THEOREM ValuesSurvive ==
  \A number \in Int, kind \in Types, step \in Nat \ {0} : Agreed(number, kind, step)
<1> SUFFICES ASSUME NEW number \in Int, NEW kind \in Types, NEW step \in Nat \ {0}
             PROVE  Agreed(number, kind, step)
  OBVIOUS
<1> DEFINE raw == ToRaw(number, step)
           words == Encode(number, kind, step)
<1>1. raw \in -Magnitude(number)..Magnitude(number) /\ Nearest(number, raw, step)
  BY RawIsNearest
<1>2. raw \in Int
  <2>1. Magnitude(number) \in Int
    BY DEF Magnitude
  <2> QED
    BY <1>1, <2>1
<1>3. \A ws : Decode(ws, kind, step) = step * Meant(ws, kind)
  BY DEF Decode, Meant
<1>4. Encodable(number, kind, step) =>
        words \in [1..kind.words -> Word] /\ Meant(words, kind) = raw
  BY EncodedIsDecoded
<1>5. ASSUME NEW ws \in [1..kind.words -> Word], Decode(ws, kind, step) = raw * step
      PROVE  Encodable(number, kind, step)
  <2>1. Meant(ws, kind) \in RawRange(kind) /\ RawRange(kind) \subseteq Int
    BY DecodedInRange, Sizes DEF RawRange
  <2>2. \A a, b \in Int : step * a = b * step => a = b
    OBVIOUS
  <2>3. Meant(ws, kind) = raw
    BY <1>2, <1>3, <1>5, <2>1, <2>2
  <2> QED
    BY <2>1, <2>3 DEF Encodable
<1>6. step * raw = raw * step
  BY <1>2
<1>7. ASSUME Encodable(number, kind, step), ~kind.signed
      PROVE  raw = SumFunction([bit \in ActiveBits(raw, kind.words) |-> 2^bit])
  <2> DEFINE A == ActiveBits(raw, kind.words)
             f == [bit \in Nat |-> 2^bit]
             e == [bit \in A |-> 2^bit]
             n == Bits(kind)
  <2>1. raw \in 0..(2^n - 1) /\ n \in Nat
    BY <1>7, Sizes, WordAssumption DEF Encodable, RawRange, Bits
  <2>2. A = BitsBelow(raw, n)
    BY DEF ActiveBits, BitsBelow, Bits
  <2>3. 2^n \in Nat \ {0} /\ raw \in Nat
    BY <2>1, Powers
  <2>4. raw % 2^n = raw
    BY <2>1, <2>3, RemainderOfLess
  <2>5. SumFunctionOnSet(f, A) = raw
    <3>1. \A bit \in Nat : f[bit] = 2^bit
      OBVIOUS
    <3> HIDE DEF A, f, n
    <3> QED
      BY <2>1, <2>2, <2>3, <2>4, <3>1, BitsAddUp
  <2>6. IsFiniteSet(A) /\ A \subseteq Nat
    <3>1. n - 1 \in Int /\ A \in SUBSET (0..(n - 1))
      BY <2>1 DEF ActiveBits, Bits
    <3>2. IsFiniteSet(0..(n - 1))
      BY <3>1, FS_Interval
    <3>3. 0..(n - 1) \subseteq Nat
      BY <3>1
    <3> HIDE DEF A, e, f, n
    <3> QED
      BY <3>1, <3>2, <3>3, FS_Subset
  <2>7. \A bit \in A : e[bit] = f[bit] /\ f[bit] \in Int
    BY <2>6, Powers
  <2>8. SumFunction(e) = SumFunctionOnSet(e, A)
    BY DEF SumFunction
  <2> HIDE DEF e, f, A
  <2>9. SumFunctionOnSet(e, A) = SumFunctionOnSet(f, A)
    BY <2>6, <2>7, SumSame
  <2> QED
    BY <2>5, <2>8, <2>9 DEF e, A
<1> HIDE DEF raw, words
<1> QED
  BY <1>1, <1>3, <1>4, <1>5, <1>6, <1>7 DEF Agreed, words

-----------------------------------------------------------------------------
\* A finite set has an element with the greatest key.
LEMMA Greatest ==
  ASSUME NEW S, IsFiniteSet(S), NEW key, \A x \in S : key[x] \in Int
  PROVE  \A T \in SUBSET S : T # {} => \E x \in T : \A y \in T : key[y] <= key[x]
<1> DEFINE B == {T \in SUBSET S : T # {} => \E x \in T : \A y \in T : key[y] <= key[x]}
<1>1. ASSUME NEW T \in SUBSET S, \A R \in SUBSET T : R # T => R \in B, T # {}
      PROVE  \E x \in T : \A y \in T : key[y] <= key[x]
  <2>1. PICK t \in T : TRUE
    BY <1>1
  <2> DEFINE R == T \ {t}
  <2>2. R \in B
    BY <1>1
  <2>3. CASE R = {}
    <3>1. T = {t} /\ key[t] \in Int
      BY <2>3
    <3> QED
      BY <3>1
  <2>4. CASE R # {}
    <3>1. PICK r \in R : \A y \in R : key[y] <= key[r]
      BY <2>2, <2>4
    <3>2. key[r] \in Int /\ key[t] \in Int /\ \A y \in T : key[y] \in Int
      OBVIOUS
    <3>3. CASE key[r] <= key[t]
      <4>1. \A y \in T : key[y] <= key[t]
        BY <3>1, <3>2, <3>3
      <4> QED
        BY <4>1
    <3>4. CASE ~(key[r] <= key[t])
      <4>1. \A y \in T : key[y] <= key[r]
        BY <3>1, <3>2, <3>4
      <4> QED
        BY <4>1
    <3> QED
      BY <3>3, <3>4
  <2> QED
    BY <2>3, <2>4
<1>2. /\ B \in SUBSET SUBSET S
      /\ \A T \in SUBSET S : (\A R \in SUBSET T : R # T => R \in B) => T \in B
  BY <1>1
<1>3. B = SUBSET S
  <2> HIDE DEF B
  <2> QED
    BY <1>2, SubsetInduction
<1> QED
  BY <1>3

AllBlocks == Seq(Seq(Registers))

\* The top of a sequence replaced.
LEMMA ReplaceLast ==
  ASSUME NEW Y, NEW b \in Seq(Y), b # <<>>, NEW v \in Y
  PROVE  /\ Append(Front(b), v) \in Seq(Y)
         /\ Len(Append(Front(b), v)) = Len(b)
         /\ Append(Front(b), v)[Len(b)] = v
         /\ \A n \in 1..(Len(b) - 1) : Append(Front(b), v)[n] = b[n]
<1> DEFINE q == Front(b)
<1>1. Len(b) \in Nat \ {0} /\ \A n \in 1..Len(b) : b[n] \in Y
  OBVIOUS
<1>2. q \in Seq(Y) /\ Len(q) = Len(b) - 1 /\ \A n \in 1..(Len(b) - 1) : q[n] = b[n]
  <2>1. 1 \in Int /\ Len(b) - 1 \in Int /\ \A n \in 1..(Len(b) - 1) : b[n] \in Y
    BY <1>1
  <2>2. /\ SubSeq(b, 1, Len(b) - 1) \in Seq(Y)
        /\ Len(SubSeq(b, 1, Len(b) - 1)) = IF 1 <= Len(b) - 1 THEN (Len(b) - 1) - 1 + 1 ELSE 0
        /\ \A n \in 1..((Len(b) - 1) - 1 + 1) : SubSeq(b, 1, Len(b) - 1)[n] = b[1 + n - 1]
    BY <2>1, SubSeqProperties
  <2> DEFINE p == SubSeq(b, 1, Len(b) - 1)
             k == Len(b)
  <2>3. p \in Seq(Y) /\ Len(p) = k - 1
    <3>1. p \in Seq(Y) /\ Len(p) = IF 1 <= k - 1 THEN (k - 1) - 1 + 1 ELSE 0
      BY <2>2
    <3>2. k \in Nat \ {0}
      BY <1>1
    <3> HIDE DEF p, k
    <3> QED
      BY <3>1, <3>2
  <2>4. \A n \in 1..(k - 1) : p[n] = b[n]
    <3>1. \A n \in 1..((k - 1) - 1 + 1) : p[n] = b[1 + n - 1]
      BY <2>2
    <3>2. (k - 1) - 1 + 1 = k - 1 /\ \A n \in 1..(k - 1) : 1 + n - 1 = n
      BY <1>1
    <3> HIDE DEF p, k
    <3> QED
      BY <3>1, <3>2
  <2> QED
    BY <2>3, <2>4 DEF Front
<1> HIDE DEF q
<1>3. /\ Append(q, v) \in Seq(Y) /\ Len(Append(q, v)) = Len(b) /\ Append(q, v)[Len(b)] = v
      /\ \A n \in 1..(Len(b) - 1) : Append(q, v)[n] = b[n]
  BY <1>1, <1>2
<1> QED
  BY <1>3 DEF q

\* What Added makes are blocks.
LEMMA AddedType ==
  ASSUME NEW b \in AllBlocks, NEW reg \in Registers
  PROVE  Added(b, reg) \in AllBlocks
<1> DEFINE Y == Seq(Registers)
<1>1. b \in Seq(Y) /\ <<reg>> \in Y
  BY DEF AllBlocks
<1>2. ASSUME b # <<>> PROVE Append(Front(b), Append(Last(b), reg)) \in Seq(Y)
  <2>1. Last(b) \in Y
    <3> HIDE DEF Y
    <3> QED
      BY <1>1, <1>2 DEF Last
  <2>2. Append(Last(b), reg) \in Y
    BY <2>1
  <2> HIDE DEF Y
  <2> QED
    BY <1>1, <1>2, <2>2, ReplaceLast
<1>3. Append(b, <<reg>>) \in Seq(Y)
  <2> HIDE DEF Y
  <2> QED
    BY <1>1
<1> HIDE DEF Y
<1>4. Added(b, reg) \in Seq(Y)
  BY <1>2, <1>3 DEF Added
<1> QED
  BY <1>4 DEF Y, AllBlocks

\* FoldLeft takes the registers one by one.
LEMMA AddedOneByOne ==
  ASSUME NEW n \in Nat, NEW regs \in [1..n -> Registers]
  PROVE  \E g : /\ g[0] = <<>>
                /\ \A k \in 1..n : g[k] = Added(g[k - 1], regs[k])
                /\ FoldLeft(Added, <<>>, regs) = g[n]
<1> DEFINE D == 1..n
           F == [k \in D |-> [b \in AllBlocks |-> Added(b, regs[k])]]
           C == [T \in SUBSET D |-> Max(T)]
           Eq(h) == h = [T \in SUBSET D |->
                           IF T = {} THEN <<>> ELSE Added(h[T \ {Max(T)}], regs[Max(T)])]
           h == CHOOSE h : Eq(h)
<1>1. IsFiniteSet(D)
  BY FS_Interval
<1>2. ASSUME NEW T \in SUBSET D, T # {} PROVE Max(T) \in T /\ \A x \in T : x <= Max(T)
  <2> DEFINE key == [x \in D |-> x]
  <2>1. \A x \in D : key[x] \in Int
    OBVIOUS
  <2>2. \E x \in T : \A y \in T : key[y] <= key[x]
    <3> HIDE DEF key, D
    <3> QED
      BY <1>1, <1>2, <2>1, Greatest
  <2>3. \E x \in T : \A y \in T : x >= y
    BY <2>2
  <2> QED
    BY <2>3 DEF Max
<1>3. Chooses(C, D)
  BY <1>2 DEF Chooses
<1>4. F \in [D -> [AllBlocks -> AllBlocks]] /\ <<>> \in AllBlocks
  BY AddedType DEF AllBlocks
<1>5. PICK f \in [SUBSET D -> AllBlocks] : Folds(f, <<>>, F, C, D)
  <2> HIDE DEF C, D, F
  <2> QED
    BY <1>1, <1>3, <1>4, FoldExists
<1>6. Eq(f)
  <2> SUFFICES ASSUME NEW T \in SUBSET D
               PROVE  f[T] = IF T = {} THEN <<>> ELSE Added(f[T \ {Max(T)}], regs[Max(T)])
    BY <1>5
  <2>1. f[T] = IF T = {} THEN <<>> ELSE F[C[T]][f[T \ {C[T]}]]
    BY <1>5 DEF Folds
  <2>2. ASSUME T # {} PROVE F[C[T]][f[T \ {C[T]}]] = Added(f[T \ {Max(T)}], regs[Max(T)])
    <3>1. C[T] = Max(T) /\ Max(T) \in D /\ T \ {Max(T)} \in SUBSET D
      BY <1>2, <2>2
    <3>2. f[T \ {Max(T)}] \in AllBlocks
      BY <1>5, <3>1
    <3> HIDE DEF C, D
    <3> QED
      BY <3>1, <3>2
  <2> QED
    BY <2>1, <2>2
<1>7. Eq(h)
  <2> HIDE DEF Eq
  <2> QED
    BY <1>6
<1>8. FoldLeft(Added, <<>>, regs) = h[D]
  <2>1. DOMAIN regs = D
    OBVIOUS
  <2>2. FoldLeft(Added, <<>>, regs) =
          (CHOOSE e : e = [T \in SUBSET DOMAIN regs |->
                             IF T = {} THEN <<>>
                             ELSE Added(e[T \ {Max(T)}], regs[Max(T)])])[DOMAIN regs]
    BY DEF FoldLeft, MapThenFoldSet
  <2> QED
    BY <2>1, <2>2
<1> HIDE DEF h
<1> DEFINE g == [k \in 0..n |-> h[1..k]]
<1>9. g[0] = <<>>
  <2>1. 1..0 = {} /\ 1..0 \in SUBSET D /\ 0 \in 0..n
    OBVIOUS
  <2> QED
    BY <1>7, <2>1
<1>10. ASSUME NEW k \in 1..n PROVE g[k] = Added(g[k - 1], regs[k])
  <2> DEFINE T == 1..k
  <2>1. T \in SUBSET D /\ k \in T /\ T \ {k} = 1..(k - 1) /\ \A x \in T : x <= k
    OBVIOUS
  <2>2. Max(T) = k
    <3>1. Max(T) \in T /\ k <= Max(T)
      BY <1>2, <2>1
    <3> QED
      BY <2>1, <3>1
  <2>3. h[T] = Added(h[T \ {Max(T)}], regs[Max(T)])
    BY <1>7, <2>1
  <2>4. g[k] = h[T] /\ g[k - 1] = h[1..(k - 1)]
    OBVIOUS
  <2> HIDE DEF T, g
  <2> QED
    BY <2>1, <2>2, <2>3, <2>4
<1>11. FoldLeft(Added, <<>>, regs) = g[n]
  BY <1>8
<1> HIDE DEF g
<1> QED
  BY <1>9, <1>10, <1>11

-----------------------------------------------------------------------------
\* s orders the registers of given.
Orders(s, given) ==
  /\ s \in [1..Cardinality(given) -> given]
  /\ \A m, n \in 1..Cardinality(given) : m < n => s[m].address < s[n].address

\* Registers that do not overlap have an order.
LEMMA SomeOrder ==
  \A given \in SUBSET Registers : IsFiniteSet(given) /\ \E s : Orders(s, given)
<1> DEFINE N == {n \in Nat : \A given \in SUBSET Registers :
                               Cardinality(given) = n => \E s : Orders(s, given)}
           key == [reg \in Registers |-> reg.address]
<1>1. /\ IsFiniteSet(Registers) /\ \A reg \in Registers : reg.address \in Nat
      /\ \A a, b \in Registers : a # b => a.address # b.address
  <2>1. \A a, b \in Registers : a # b => a.address # b.address
    BY BlockAssumption DEF End
  <2> QED
    BY <2>1, BlockAssumption
<1>2. \A given \in SUBSET Registers : IsFiniteSet(given) /\ Cardinality(given) \in Nat
  BY <1>1, FS_Subset, FS_CardinalityType
<1>3. 0 \in N
  <2> SUFFICES ASSUME NEW given \in SUBSET Registers, Cardinality(given) = 0
               PROVE  \E s : Orders(s, given)
    OBVIOUS
  <2>1. [n \in 1..0 |-> n] \in [1..0 -> given]
    OBVIOUS
  <2>2. Orders([n \in 1..0 |-> n], given)
    BY <2>1 DEF Orders
  <2> QED
    BY <2>2
<1>4. ASSUME NEW n \in N PROVE n + 1 \in N
  <2> SUFFICES ASSUME NEW given \in SUBSET Registers, Cardinality(given) = n + 1
               PROVE  \E s : Orders(s, given)
    OBVIOUS
  <2>1. given # {}
    BY FS_EmptySet
  <2>2. PICK top \in given : \A reg \in given : key[reg] <= key[top]
    <3>1. \A reg \in Registers : key[reg] \in Int
      BY <1>1
    <3> HIDE DEF key
    <3> QED
      BY <1>1, <2>1, <3>1, Greatest
  <2> DEFINE rest == given \ {top}
  <2>3. Cardinality(rest) = n /\ rest \in SUBSET Registers
    <3>1. IsFiniteSet(given) /\ n \in Nat
      BY <1>2
    <3>2. Cardinality(rest) = Cardinality(given) - 1
      BY <3>1, FS_RemoveElement
    <3> QED
      BY <3>1, <3>2
  <2>4. PICK s : Orders(s, rest)
    BY <2>3
  <2> DEFINE t == [m \in 1..(n + 1) |-> IF m = n + 1 THEN top ELSE s[m]]
  <2>5. s \in [1..n -> rest] /\ \A k, m \in 1..n : k < m => s[k].address < s[m].address
    BY <2>3, <2>4 DEF Orders
  <2>6. \A reg \in rest : reg.address < top.address
    <3> SUFFICES ASSUME NEW reg \in rest PROVE reg.address < top.address
      OBVIOUS
    <3>1. reg \in Registers /\ top \in Registers /\ reg # top
      OBVIOUS
    <3>2. reg.address <= top.address
      BY <2>2, <3>1
    <3>3. reg.address \in Nat /\ top.address \in Nat /\ reg.address # top.address
      BY <1>1, <3>1
    <3> QED
      BY <3>2, <3>3
  <2>7. \A m \in 1..(n + 1) : m = n + 1 \/ m \in 1..n
    OBVIOUS
  <2>8. t \in [1..(n + 1) -> given]
    <3> SUFFICES ASSUME NEW m \in 1..(n + 1) PROVE t[m] \in given
      OBVIOUS
    <3> QED
      BY <2>5, <2>7
  <2>9. ASSUME NEW k \in 1..(n + 1), NEW m \in 1..(n + 1), k < m
        PROVE  t[k].address < t[m].address
    <3>1. k \in 1..n /\ t[k] = s[k] /\ s[k] \in rest
      BY <2>5, <2>9
    <3>2. CASE m = n + 1
      BY <2>6, <3>1, <3>2
    <3>3. CASE m \in 1..n
      <4>1. t[m] = s[m]
        BY <3>3
      <4> QED
        BY <2>5, <2>9, <3>1, <3>3, <4>1
    <3> QED
      BY <2>7, <3>2, <3>3
  <2> HIDE DEF t
  <2>10. Orders(t, given)
    BY <2>8, <2>9 DEF Orders
  <2> QED
    BY <2>10
<1>5. N \in SUBSET Nat
  OBVIOUS
<1>6. N = Nat
  <2> HIDE DEF N
  <2> QED
    BY <1>3, <1>4, <1>5, Induction
<1> QED
  BY <1>2, <1>6

\* sorted gives each register of given once, in the order of addresses.
LEMMA SortedOrders ==
  ASSUME NEW given \in SUBSET Registers
  PROVE  /\ Orders(Sorted(given), given) /\ Cardinality(given) \in Nat
         /\ \A reg \in given : \E n \in 1..Cardinality(given) : Sorted(given)[n] = reg
<1> DEFINE s == Sorted(given)
           D == 1..Cardinality(given)
<1>1. IsFiniteSet(given) /\ Cardinality(given) \in Nat
  BY SomeOrder, FS_CardinalityType
<1>2. Orders(s, given)
  <2>1. PICK t : Orders(t, given)
    BY SomeOrder
  <2>2. \E u \in [D -> given] : \A m, n \in D : m < n => u[m].address < u[n].address
    BY <2>1 DEF Orders
  <2>3. /\ s \in [D -> given]
        /\ \A m, n \in D : m < n => s[m].address < s[n].address
    BY <2>2 DEF Sorted
  <2> QED
    BY <2>3 DEF Orders
<1> HIDE DEF s
<1>3. s \in Injection(D, given)
  <2>1. s \in [D -> given]
    BY <1>2 DEF Orders
  <2>2. ASSUME NEW m \in D, NEW n \in D, m < n PROVE s[m] # s[n]
    <3>1. s[m].address < s[n].address /\ s[m] \in Registers /\ s[n] \in Registers
      BY <1>2, <2>2 DEF Orders
    <3>2. s[m].address \in Nat /\ s[n].address \in Nat
      BY <3>1, BlockAssumption
    <3> QED
      BY <3>1, <3>2
  <2>3. \A m, n \in D : m = n \/ m < n \/ n < m
    BY <1>1
  <2>4. \A m, n \in D : s[m] = s[n] => m = n
    <3> HIDE DEF D
    <3> QED
      BY <2>2, <2>3
  <2> HIDE DEF D
  <2> QED
    BY <2>1, <2>4 DEF Injection, IsInjective
<1>4. s \in Surjection(D, given)
  <2>1. Cardinality(D) = Cardinality(given)
    BY <1>1, FS_Interval
  <2> HIDE DEF D
  <2> QED
    BY <1>1, <1>3, <2>1, FS_Injection
<1>5. \A reg \in given : \E n \in D : s[n] = reg
  <2> HIDE DEF D
  <2> QED
    BY <1>4 DEF Surjection
<1> QED
  BY <1>1, <1>2, <1>5 DEF s

-----------------------------------------------------------------------------
\* A block of registers: not empty, and whole.
GoodBlock(block) == block \in Seq(Registers) /\ block # <<>> /\ Whole(block)

\* A register: its words.
LEMMA RegisterType ==
  ASSUME NEW reg \in Registers
  PROVE  /\ reg.address \in Nat /\ reg.words \in Nat \ {0} /\ reg.words <= MaxBlockSize
         /\ End(reg) \in Nat /\ reg.address < End(reg) /\ End(reg) - reg.address <= MaxBlockSize
         /\ MaxBlockSize \in Nat
BY BlockAssumption DEF End

\* A block of one register.
LEMMA NewBlock ==
  ASSUME NEW reg \in Registers
  PROVE  /\ GoodBlock(<<reg>>) /\ RegistersOf(<<reg>>) = {reg}
         /\ StartOf(<<reg>>) = reg.address /\ Head(<<reg>>) = reg /\ Last(<<reg>>) = reg
<1>1. RegistersOf(<<reg>>) = {reg} /\ Head(<<reg>>) = reg /\ Last(<<reg>>) = reg
  BY DEF RegistersOf, Last
<1>2. Covered({reg}) = reg.address..(End(reg) - 1)
  BY DEF Covered
<1> DEFINE block == <<reg>>
<1>3. block \in Seq(Registers) /\ block # <<>>
  OBVIOUS
<1> HIDE DEF block
<1>4. RegistersOf(block) = {reg} /\ Head(block) = reg /\ Last(block) = reg
  BY <1>1 DEF block
<1>5. StartOf(block) = reg.address /\ EndOf(block) = End(reg)
  BY <1>4 DEF StartOf, EndOf
<1>6. End(reg) - reg.address <= MaxBlockSize
  BY RegisterType
<1>7. Whole(block)
  BY <1>2, <1>4, <1>5, <1>6 DEF Whole
<1> QED
  BY <1>3, <1>4, <1>5, <1>7 DEF GoodBlock, block

\* A block goes on with a register that joins it.
LEMMA LongerBlock ==
  ASSUME NEW block, GoodBlock(block), NEW reg \in Registers, Joins(block, reg)
  PROVE  /\ GoodBlock(Append(block, reg))
         /\ RegistersOf(Append(block, reg)) = RegistersOf(block) \union {reg}
         /\ StartOf(Append(block, reg)) = StartOf(block)
         /\ Head(Append(block, reg)) = Head(block) /\ Last(Append(block, reg)) = reg
<1> DEFINE q == Append(block, reg)
<1>1. /\ block \in Seq(Registers) /\ Len(block) \in Nat \ {0} /\ block[1] \in Registers
      /\ Head(block) = block[1] /\ Last(block) \in Registers
  BY DEF GoodBlock, Last
<1>2. /\ q \in Seq(Registers) /\ q # <<>> /\ Len(q) = Len(block) + 1 /\ q[Len(q)] = reg
      /\ \A n \in 1..Len(block) : q[n] = block[n]
      /\ Head(q) = q[1] /\ q[1] = block[1]
      /\ DOMAIN q = 1..(Len(block) + 1) /\ DOMAIN block = 1..Len(block)
  BY <1>1
<1>3. Head(q) = Head(block) /\ Last(q) = reg
  BY <1>1, <1>2 DEF Last
<1>4. RegistersOf(q) = RegistersOf(block) \union {reg}
  <2>1. ASSUME NEW n \in DOMAIN q PROVE q[n] \in RegistersOf(block) \union {reg}
    <3>1. n \in 1..Len(block) \/ n = Len(q)
      BY <1>1, <1>2
    <3> HIDE DEF q
    <3> QED
      BY <1>2, <3>1 DEF RegistersOf
  <2>2. ASSUME NEW n \in DOMAIN block PROVE block[n] \in RegistersOf(q)
    <3>1. n \in DOMAIN q /\ q[n] = block[n]
      BY <1>1, <1>2
    <3> HIDE DEF q
    <3> QED
      BY <3>1 DEF RegistersOf
  <2>3. reg \in RegistersOf(q)
    <3>1. Len(q) \in DOMAIN q /\ q[Len(q)] = reg
      BY <1>1, <1>2
    <3> HIDE DEF q
    <3> QED
      BY <3>1 DEF RegistersOf
  <2> HIDE DEF q
  <2> QED
    BY <2>1, <2>2, <2>3 DEF RegistersOf
<1>5. /\ StartOf(q) = StartOf(block) /\ EndOf(q) = End(reg)
      /\ reg.address = EndOf(block) /\ End(reg) - StartOf(block) <= MaxBlockSize
  BY <1>3 DEF StartOf, EndOf, Joins
<1>6. Covered(RegistersOf(q)) = Covered(RegistersOf(block)) \union (reg.address..(End(reg) - 1))
  <2> HIDE DEF q
  <2> QED
    BY <1>4 DEF Covered
<1>7. /\ StartOf(block) \in Nat /\ EndOf(block) \in Nat /\ StartOf(block) <= EndOf(block)
      /\ Covered(RegistersOf(block)) = StartOf(block)..(EndOf(block) - 1)
  <2>1. StartOf(block) \in Nat /\ EndOf(block) \in Nat
    BY <1>1, RegisterType DEF StartOf, EndOf
  <2>2. Covered(RegistersOf(block)) = StartOf(block)..(EndOf(block) - 1)
    BY DEF GoodBlock, Whole
  <2>3. StartOf(block) \in Covered(RegistersOf(block))
    <3>1. block[1] \in RegistersOf(block)
      BY <1>1, <1>2 DEF RegistersOf
    <3>2. StartOf(block) \in block[1].address..(End(block[1]) - 1)
      BY <1>1, RegisterType DEF StartOf
    <3> QED
      BY <3>1, <3>2 DEF Covered
  <2> QED
    BY <2>1, <2>2, <2>3
<1>8. Covered(RegistersOf(q)) = StartOf(q)..(EndOf(q) - 1)
  <2>1. \A a, b, c \in Nat : a <= b /\ b < c => (a..(b - 1)) \union (b..(c - 1)) = a..(c - 1)
    OBVIOUS
  <2>2. End(reg) \in Nat /\ reg.address < End(reg)
    BY RegisterType
  <2> HIDE DEF q
  <2> QED
    BY <1>5, <1>6, <1>7, <2>1, <2>2
<1> QED
  BY <1>2, <1>3, <1>4, <1>5, <1>8 DEF GoodBlock, Whole

\* The blocks for the first k registers.
GoodBlocks(b, regs, k) ==
  /\ b \in AllBlocks
  /\ \A n \in DOMAIN b : GoodBlock(b[n])
  /\ \A n \in 1..(Len(b) - 1) : Apart(b[n], b[n + 1])
  /\ UNION {RegistersOf(b[n]) : n \in DOMAIN b} = {regs[m] : m \in 1..k}
  /\ b = <<>> <=> k = 0
  /\ b # <<>> => Last(Last(b)) = regs[k]

\* The next register joins the top block or begins the next one.
LEMMA OneRegisterMore ==
  ASSUME NEW n \in Nat, NEW regs \in [1..n -> Registers], NEW k \in 1..n,
         k > 1 => End(regs[k - 1]) <= regs[k].address,
         NEW b, GoodBlocks(b, regs, k - 1)
  PROVE  GoodBlocks(Added(b, regs[k]), regs, k)
<1> DEFINE reg == regs[k]
           q == Added(b, reg)
           l == Len(b)
<1>1. /\ reg \in Registers /\ k \in Nat /\ b \in AllBlocks /\ l \in Nat /\ DOMAIN b = 1..l
      /\ {regs[m] : m \in 1..k} = {regs[m] : m \in 1..(k - 1)} \union {reg}
  <2>1. \A m : m \in 1..k <=> m \in 1..(k - 1) \/ m = k
    OBVIOUS
  <2> QED
    BY <2>1 DEF GoodBlocks, AllBlocks
<1>2. q \in AllBlocks
  BY <1>1, AddedType
<1>3. CASE b # <<>> /\ Joins(Last(b), reg)
  <2> DEFINE v == Append(Last(b), reg)
  <2>1. q = Append(Front(b), v)
    BY <1>3 DEF Added
  <2>2. l \in Nat \ {0} /\ Last(b) = b[l] /\ GoodBlock(b[l])
    BY <1>1, <1>3 DEF GoodBlocks, AllBlocks, Last
  <2>3. /\ GoodBlock(v) /\ RegistersOf(v) = RegistersOf(b[l]) \union {reg}
        /\ StartOf(v) = StartOf(b[l]) /\ Head(v) = Head(b[l]) /\ Last(v) = reg
    BY <1>1, <1>3, <2>2, LongerBlock
  <2>4. v \in Seq(Registers)
    BY <2>3 DEF GoodBlock
  <2> HIDE DEF v
  <2>5. /\ Len(q) = l /\ q[l] = v /\ \A m \in 1..(l - 1) : q[m] = b[m]
        /\ DOMAIN q = 1..l /\ q # <<>>
    <3> DEFINE Y == Seq(Registers)
    <3>1. b \in Seq(Y) /\ v \in Y
      BY <1>1, <2>4 DEF AllBlocks
    <3> HIDE DEF Y
    <3>2. /\ Append(Front(b), v) \in Seq(Y) /\ Len(Append(Front(b), v)) = l
          /\ Append(Front(b), v)[l] = v
          /\ \A m \in 1..(l - 1) : Append(Front(b), v)[m] = b[m]
      BY <1>3, <3>1, ReplaceLast
    <3> DEFINE p == Append(Front(b), v)
    <3> HIDE DEF p
    <3>3. DOMAIN p = 1..l /\ p # <<>>
      BY <2>2, <3>2 DEF p
    <3> HIDE DEF q, l
    <3> QED
      BY <2>1, <3>2, <3>3 DEF p
  <2> HIDE DEF q, l, reg
  <2>6. \A m \in 1..l : m = l \/ m \in 1..(l - 1)
    BY <2>2
  <2>7. \A m \in DOMAIN q : GoodBlock(q[m])
    BY <1>1, <2>3, <2>5, <2>6 DEF GoodBlocks
  <2>8. ASSUME NEW m \in 1..(Len(q) - 1) PROVE Apart(q[m], q[m + 1])
    <3>1. m \in 1..(l - 1) /\ m + 1 \in 1..l /\ Apart(b[m], b[m + 1]) /\ q[m] = b[m]
      BY <1>1, <2>2, <2>5 DEF GoodBlocks, l
    <3>2. StartOf(q[m + 1]) = StartOf(b[m + 1]) /\ Head(q[m + 1]) = Head(b[m + 1])
      BY <2>3, <2>5, <2>6, <3>1
    <3> QED
      BY <3>1, <3>2 DEF Apart
  <2>9. UNION {RegistersOf(q[m]) : m \in DOMAIN q} = {regs[m] : m \in 1..k}
    <3>1. UNION {RegistersOf(b[m]) : m \in 1..l} = {regs[m] : m \in 1..(k - 1)}
      BY <1>1 DEF GoodBlocks
    <3>2. UNION {RegistersOf(q[m]) : m \in 1..l} =
            (UNION {RegistersOf(b[m]) : m \in 1..l}) \union {reg}
      <4>1. l \in 1..l
        BY <2>2
      <4>2. \A m \in 1..l : \/ RegistersOf(q[m]) = RegistersOf(b[m])
                            \/ m = l /\ RegistersOf(q[m]) = RegistersOf(b[m]) \union {reg}
        BY <2>3, <2>5, <2>6
      <4>3. RegistersOf(q[l]) = RegistersOf(b[l]) \union {reg}
        BY <2>3, <2>5
      <4> QED
        BY <4>1, <4>2, <4>3
    <3> QED
      BY <1>1, <2>5, <3>1, <3>2
  <2>10. Last(Last(q)) = reg
    BY <2>3, <2>5 DEF Last
  <2>11. q # <<>> /\ k # 0
    BY <1>1, <2>5
  <2> QED
    <3> HIDE DEF q
    <3>1. Last(Last(q)) = regs[k]
      BY <2>10 DEF reg
    <3> HIDE DEF reg
    <3>2. q = <<>> <=> k = 0
      BY <2>11
    <3>3. GoodBlocks(q, regs, k)
      BY <1>2, <2>7, <2>8, <2>9, <3>1, <3>2 DEF GoodBlocks
    <3> QED
      BY <3>3 DEF q, reg
<1>4. CASE ~(b # <<>> /\ Joins(Last(b), reg))
  <2>1. q = Append(b, <<reg>>)
    BY <1>4 DEF Added
  <2>2. /\ GoodBlock(<<reg>>) /\ RegistersOf(<<reg>>) = {reg}
        /\ StartOf(<<reg>>) = reg.address /\ Head(<<reg>>) = reg /\ Last(<<reg>>) = reg
    BY <1>1, NewBlock
  <2>3. /\ Len(q) = l + 1 /\ q[l + 1] = <<reg>> /\ \A m \in 1..l : q[m] = b[m]
        /\ DOMAIN q = 1..(l + 1) /\ q # <<>>
    <3> DEFINE Y == Seq(Registers)
               v == <<reg>>
    <3>1. b \in Seq(Y) /\ v \in Y /\ q = Append(b, v)
      BY <1>1, <2>1 DEF AllBlocks
    <3> HIDE DEF Y, v, q
    <3>2. /\ Len(q) = l + 1 /\ q[l + 1] = v /\ \A m \in 1..l : q[m] = b[m]
          /\ DOMAIN q = 1..(l + 1) /\ q # <<>>
      BY <3>1
    <3> QED
      BY <3>2 DEF v
  <2> HIDE DEF q, l
  <2>4. \A m \in 1..(l + 1) : m = l + 1 \/ m \in 1..l
    BY <1>1
  <2>5. \A m \in DOMAIN q : GoodBlock(q[m])
    <3> HIDE DEF reg
    <3> QED
      BY <1>1, <2>2, <2>3, <2>4 DEF GoodBlocks
  <2>6. ASSUME NEW m \in 1..(Len(q) - 1) PROVE Apart(q[m], q[m + 1])
    <3>1. CASE m \in 1..(l - 1)
      <4>1. m \in 1..l /\ m + 1 \in 1..l
        BY <1>1, <3>1
      <4> QED
        BY <2>3, <3>1, <4>1 DEF GoodBlocks, l
    <3>2. CASE m = l
      <4>1. l \in Nat \ {0} /\ q[m] = b[l] /\ q[m + 1] = <<reg>>
        BY <1>1, <2>3, <3>2
      <4>2. b # <<>> /\ Last(b) = b[l] /\ GoodBlock(b[l])
        BY <1>1, <4>1 DEF GoodBlocks, l, Last
      <4>3. k > 1 /\ Last(b[l]) = regs[k - 1]
        BY <4>2 DEF GoodBlocks
      <4>4. EndOf(b[l]) <= reg.address /\ EndOf(b[l]) \in Nat /\ reg.address \in Nat
        <5>1. regs[k - 1] \in Registers
          BY <4>3
        <5> QED
          BY <1>1, <4>3, <5>1, RegisterType DEF EndOf
      <4>5. ~Joins(b[l], reg)
        BY <1>4, <4>2
      <4>6. StartOf(b[l]) \in Nat /\ End(reg) \in Nat /\ MaxBlockSize \in Nat
        <5>1. Head(b[l]) \in Registers
          BY <4>2 DEF GoodBlock
        <5> QED
          BY <1>1, <5>1, RegisterType DEF StartOf
      <4>7. reg.address # EndOf(b[l]) \/ ~(End(reg) - StartOf(b[l]) <= MaxBlockSize)
        BY <4>5 DEF Joins, EndOf, StartOf
      <4> HIDE DEF reg
      <4> QED
        BY <2>2, <4>1, <4>4, <4>6, <4>7 DEF Apart
    <3>3. m \in 1..(l - 1) \/ m = l
      BY <1>1, <2>3
    <3> QED
      BY <3>1, <3>2, <3>3
  <2>7. UNION {RegistersOf(q[m]) : m \in DOMAIN q} = {regs[m] : m \in 1..k}
    <3>1. UNION {RegistersOf(b[m]) : m \in 1..l} = {regs[m] : m \in 1..(k - 1)}
      BY <1>1 DEF GoodBlocks
    <3>2. UNION {RegistersOf(q[m]) : m \in 1..(l + 1)} =
            (UNION {RegistersOf(b[m]) : m \in 1..l}) \union {reg}
      <4>1. l + 1 \in 1..(l + 1) /\ \A m \in 1..l : m \in 1..(l + 1)
        BY <1>1
      <4>2. RegistersOf(q[l + 1]) = {reg} /\ \A m \in 1..l : RegistersOf(q[m]) = RegistersOf(b[m])
        BY <2>2, <2>3
      <4> HIDE DEF reg
      <4> QED
        BY <2>4, <4>1, <4>2
    <3> QED
      BY <1>1, <2>3, <3>1, <3>2
  <2>8. Last(Last(q)) = reg
    BY <2>2, <2>3 DEF Last
  <2> HIDE DEF reg
  <2>9. q # <<>> /\ k # 0
    BY <1>1, <2>3
  <2> QED
    <3> HIDE DEF q
    <3>1. Last(Last(q)) = regs[k]
      BY <2>8 DEF reg
    <3> HIDE DEF reg
    <3>2. q = <<>> <=> k = 0
      BY <2>9
    <3>3. GoodBlocks(q, regs, k)
      BY <1>2, <2>5, <2>6, <2>7, <3>1, <3>2 DEF GoodBlocks
    <3> QED
      BY <3>3 DEF q, reg
<1> QED
  BY <1>3, <1>4

(***************************************************************************)
(* The blocks that build_blocks makes read each register once and no word  *)
(* between registers; none is too long, and no two could be one.           *)
(***************************************************************************)
THEOREM BlocksAreRight == \A given \in SUBSET Registers : Blocked(BuildBlocks(given), given)
<1> SUFFICES ASSUME NEW given \in SUBSET Registers PROVE Blocked(BuildBlocks(given), given)
  OBVIOUS
<1> DEFINE regs == Sorted(given)
           n == Cardinality(given)
<1>1. /\ n \in Nat /\ regs \in [1..n -> given]
      /\ \A k, m \in 1..n : k < m => regs[k].address < regs[m].address
      /\ \A reg \in given : \E k \in 1..n : regs[k] = reg
  BY SortedOrders DEF Orders
<1>2. BuildBlocks(given) = FoldLeft(Added, <<>>, regs)
  BY DEF BuildBlocks
<1> HIDE DEF n, regs
<1>3. regs \in [1..n -> Registers]
  BY <1>1
<1>4. PICK g : /\ g[0] = <<>>
               /\ \A k \in 1..n : g[k] = Added(g[k - 1], regs[k])
               /\ FoldLeft(Added, <<>>, regs) = g[n]
  BY <1>1, <1>3, AddedOneByOne
<1>5. ASSUME NEW k \in 1..n, k > 1 PROVE End(regs[k - 1]) <= regs[k].address
  <2>1. k - 1 \in 1..n /\ k - 1 < k
    BY <1>1, <1>5
  <2>2. regs[k - 1].address < regs[k].address /\ regs[k - 1] \in Registers /\ regs[k] \in Registers
    BY <1>1, <1>3, <2>1
  <2> DEFINE a == regs[k - 1]
             b == regs[k]
  <2>3. a.address < b.address /\ a \in Registers /\ b \in Registers
    BY <2>2
  <2> HIDE DEF a, b
  <2>4. a.address \in Nat /\ b.address \in Nat /\ End(b) \in Nat /\ b.address < End(b)
    BY <2>3, RegisterType
  <2>5. End(a) <= b.address \/ End(b) <= a.address
    BY <2>3, <2>4, BlockAssumption
  <2>6. End(a) <= b.address
    BY <2>3, <2>4, <2>5
  <2> QED
    BY <2>6 DEF a, b
<1> DEFINE N == {k \in Nat : k <= n => GoodBlocks(g[k], regs, k)}
<1>6. 0 \in N
  <2>1. <<>> \in AllBlocks /\ DOMAIN <<>> = {} /\ Len(<<>>) = 0 /\ 1..0 = {}
    BY DEF AllBlocks
  <2> QED
    BY <1>4, <2>1 DEF GoodBlocks
<1>7. ASSUME NEW k \in N PROVE k + 1 \in N
  <2> SUFFICES ASSUME k + 1 <= n PROVE GoodBlocks(g[k + 1], regs, k + 1)
    OBVIOUS
  <2>1. k + 1 \in 1..n /\ (k + 1) - 1 = k /\ GoodBlocks(g[k], regs, k)
    BY <1>1
  <2>2. g[k + 1] = Added(g[k], regs[k + 1])
    BY <1>4, <2>1
  <2>3. GoodBlocks(g[(k + 1) - 1], regs, (k + 1) - 1)
    BY <2>1
  <2>4. GoodBlocks(Added(g[(k + 1) - 1], regs[k + 1]), regs, k + 1)
    BY <1>1, <1>3, <1>5, <2>1, <2>3, OneRegisterMore
  <2> QED
    BY <2>1, <2>2, <2>4
<1>8. N = Nat
  <2>1. N \in SUBSET Nat
    OBVIOUS
  <2> HIDE DEF N
  <2> QED
    BY <1>6, <1>7, <2>1, Induction
<1>9. GoodBlocks(g[n], regs, n)
  BY <1>1, <1>8
<1>10. {regs[m] : m \in 1..n} = given
  BY <1>1
<1> QED
  BY <1>2, <1>4, <1>9, <1>10 DEF GoodBlocks, GoodBlock, Blocked

-----------------------------------------------------------------------------
\* The inputs of the run are values, types and scales.
InputsInv ==
  /\ topic \in {"energy", "codec", "blocks"}
  /\ topic = "codec" => value \in Int /\ type \in Types /\ scale \in Scales
  /\ topic = "blocks" => defs \in SUBSET Registers

\* A step goes from inputs to inputs.
LEMMA InputsStep == InputsInv /\ [Next]_vars => InputsInv'
<1> SUFFICES ASSUME InputsInv, [Next]_vars PROVE InputsInv'
  OBVIOUS
<1>1. ValueLimit \in Int
  BY InputsAssumption
<1>2. ASSUME UNCHANGED <<topic, type, scale, value, defs>> PROVE InputsInv'
  BY <1>2 DEF InputsInv
<1>3. ASSUME topic = "codec", value' \in Int, UNCHANGED <<topic, type, scale, defs>>
      PROVE  InputsInv'
  BY <1>3 DEF InputsInv
<1>4. ASSUME topic = "blocks", UNCHANGED <<topic, type, scale, value>>,
             NEW reg \in Registers, defs' = (defs \ {reg}) \union ({reg} \ defs)
      PROVE  InputsInv'
  BY <1>4 DEF InputsInv
<1>5. topic = "codec" => value + 1 \in Int /\ -ValueLimit \in Int
  BY <1>1 DEF InputsInv
<1> QED
  BY <1>2, <1>3, <1>4, <1>5 DEF Next, vars

\* The inputs are in their sets.
LEMMA InputsAlways == Spec => []InputsInv
<1>1. Init => InputsInv
  BY InputsAssumption DEF Init, InputsInv
<1> QED
  BY <1>1, InputsStep, PTL DEF Spec

(***************************************************************************)
(* The codec agrees with itself on every value, type and scale that a run  *)
(* may try, with words of any width (encode, decode, active_bits).         *)
(***************************************************************************)
THEOREM CodecAlwaysAgrees == Spec => []CodecAgrees
<1>1. InputsInv => CodecAgrees
  <2> SUFFICES ASSUME InputsInv, topic = "codec" PROVE Agreed(value, type, scale)
    BY DEF CodecAgrees
  <2>1. value \in Int /\ type \in Types /\ scale \in Nat \ {0}
    BY InputsAssumption DEF InputsInv
  <2> QED
    BY <2>1, ValuesSurvive
<1> QED
  BY <1>1, InputsAlways, PTL

(***************************************************************************)
(* The blocks are right for every set of registers that a unit may have,   *)
(* of any table of registers and with any limit (build_blocks).            *)
(***************************************************************************)
THEOREM BlocksAlwaysAgree == Spec => []BlocksAgree
<1>1. InputsInv => BlocksAgree
  BY BlocksAreRight DEF InputsInv, BlocksAgree
<1> QED
  BY <1>1, InputsAlways, PTL

\* The run of the energy is one of its specification.
THEOREM EnergyRuns == Spec => EnergySpec
<1>1. Init => EnergyInit
  BY DEF Init
<1>2. [Next]_vars => [EnergyNext]_energyVars
  BY DEF Next, vars
<1> QED
  BY <1>1, <1>2, PTL DEF Spec, EnergySpec
=============================================================================
