--------------------------- MODULE ColdChainProofs ---------------------------
(***************************************************************************)
(* The detector for every configuration and every history: the loop counts *)
(* the excursions of the readings, the alert is not below the documented   *)
(* one where no reading undercut the minimum, and a reading that is added  *)
(* does not lower it.                                                      *)
(*                                                                         *)
(* The loop is a fold, which the library defines by a function that solves *)
(* an equation over the subsets of the domain.  That there is a solution   *)
(* is FoldDefined; what it holds after each reading then follows by taking *)
(* the least number of readings for which it would not hold.               *)
(***************************************************************************)
EXTENDS ColdChain, FiniteSetTheorems, WellFoundedInduction, TLAPS

\* The principle of the least number, which stands in for induction.
LEMMA LeastNatural ==
    ASSUME NEW I \in SUBSET Nat, I # {}
    PROVE  \E m \in I : \A k \in I : m <= k
<1>1. \E m \in I : \A k \in I : <<k, m>> \notin OpToRel(<, Nat)
  BY NatLessThanWellFounded, WFMin
<1>2. ASSUME NEW m \in Nat, NEW k \in Nat, <<k, m>> \notin OpToRel(<, Nat)
      PROVE  m <= k
  BY <1>2 DEF OpToRel
<1> QED
  BY <1>1, <1>2

\* What a fold over the subsets of S needs: pick takes an element away, and g
\* says what is done with the result for the rest.
Foldable(S, V, base, pick, g) ==
    /\ IsFiniteSet(S) /\ base \in V
    /\ \A T \in SUBSET S : T # {} => pick[T] \in T
    /\ \A T \in SUBSET S : \A v \in V : T # {} => g[T][v] \in V

\* The equation of the fold.
IsFold(f, S, base, pick, g) ==
    f = [T \in SUBSET S |-> IF T = {} THEN base ELSE g[T][f[T \ {pick[T]}]]]

\* The equation of a fold has a solution.
LEMMA FoldDefined ==
    ASSUME NEW S, NEW V, NEW base, NEW pick, NEW g, Foldable(S, V, base, pick, g)
    PROVE  \E f \in [SUBSET S -> V] : IsFold(f, S, base, pick, g)
<1> DEFINE L(n) == {T \in SUBSET S : Cardinality(T) < n}
           Solves(f, D) == /\ f \in [D -> V]
                           /\ \A T \in D : f[T] = IF T = {} THEN base ELSE g[T][f[T \ {pick[T]}]]
           Bad == {n \in Nat : \A f : ~Solves(f, L(n))}
<1>f. /\ IsFiniteSet(S) /\ base \in V
      /\ \A T \in SUBSET S : T # {} => pick[T] \in T
      /\ \A T \in SUBSET S : \A v \in V : T # {} => g[T][v] \in V
  BY DEF Foldable
<1>1. ASSUME NEW T \in SUBSET S
      PROVE  /\ IsFiniteSet(T) /\ Cardinality(T) \in Nat /\ Cardinality(T) <= Cardinality(S)
             /\ \A x \in T : Cardinality(T \ {x}) = Cardinality(T) - 1
  <2>1. IsFiniteSet(T) /\ Cardinality(T) <= Cardinality(S)
    BY <1>f, FS_Subset
  <2> QED
    BY <2>1, FS_CardinalityType, FS_RemoveElement
<1>b. /\ Bad \in SUBSET Nat
      /\ \A n \in Nat : n \notin Bad <=> \E f : Solves(f, L(n))
  OBVIOUS
<1>2. ASSUME Bad # {}
      PROVE  FALSE
  <2> HIDE DEF Bad
  <2> PICK m \in Bad : \A k \in Bad : m <= k
    BY <1>2, <1>b, LeastNatural
  <2>0. m \in Nat
    BY <1>b
  <2>1. m # 0
    <3>1. L(0) = {}
      BY <1>1
    <3> DEFINE e == [T \in {} |-> base]
    <3>2. e \in [{} -> V]
      OBVIOUS
    <3>3. Solves(e, {})
      BY <3>2
    <3>4. Solves(e, L(0))
      BY <3>1, <3>3
    <3>5. 0 \notin Bad
      BY <3>4, <1>b
    <3> QED
      BY <3>5
  <2>2. m - 1 \in Nat /\ m - 1 \notin Bad
    BY <2>0, <2>1
  <2> PICK f : Solves(f, L(m - 1))
    BY ONLY <2>2, <1>b
  <2> DEFINE F == [T \in L(m) |-> IF T = {} THEN base ELSE g[T][f[T \ {pick[T]}]]]
  <2>3. ASSUME NEW T \in L(m), T # {}
        PROVE  T \ {pick[T]} \in L(m - 1) /\ T \ {pick[T]} \in L(m)
    <3> DEFINE U == T \ {pick[T]}
    <3>1. Cardinality(U) = Cardinality(T) - 1 /\ Cardinality(T) \in Nat /\ Cardinality(T) < m
      BY <1>1, <1>f, <2>3
    <3>2. U \in SUBSET S
      OBVIOUS
    <3> HIDE DEF U
    <3>3. Cardinality(U) < m - 1 /\ Cardinality(U) < m
      BY ONLY <3>1, <2>0
    <3>4. U \in L(m - 1) /\ U \in L(m)
      BY ONLY <3>2, <3>3
    <3> QED
      BY <3>4 DEF U
  <2>4. F \in [L(m) -> V]
    <3>1. ASSUME NEW T \in L(m)
          PROVE  F[T] \in V
      <4>1. CASE T = {}
        BY <1>f, <4>1
      <4>2. CASE T # {}
        <5>1. f[T \ {pick[T]}] \in V
          BY <2>3, <4>2
        <5> QED
          BY <1>f, <4>2, <5>1
      <4> QED
        BY <4>1, <4>2
    <3> QED
      BY <3>1
  <2>5. ASSUME NEW T \in L(m - 1)
        PROVE  F[T] = f[T]
    <3>1. Cardinality(T) \in Nat /\ Cardinality(T) < m - 1
      BY <1>1
    <3>2. Cardinality(T) < m
      BY ONLY <2>0, <3>1
    <3>3. T \in L(m)
      BY <3>2
    <3> QED
      BY <3>3
  <2>6. ASSUME NEW T \in L(m)
        PROVE  F[T] = IF T = {} THEN base ELSE g[T][F[T \ {pick[T]}]]
    BY <2>3, <2>5
  <2>7. Solves(F, L(m))
    BY <2>4, <2>6
  <2> QED
    BY ONLY <2>0, <2>7, <1>b
<1>3. Cardinality(S) \in Nat /\ L(Cardinality(S) + 1) = SUBSET S
  BY <1>1
<1>4. PICK f : Solves(f, SUBSET S)
  <2>1. Cardinality(S) + 1 \in Nat /\ Cardinality(S) + 1 \notin Bad
    <3> HIDE DEF L, Solves, Bad
    <3> QED
      BY <1>2, <1>3
  <2>2. \E f : Solves(f, L(Cardinality(S) + 1))
    BY ONLY <2>1, <1>b
  <2> HIDE DEF Solves, L
  <2>3. L(Cardinality(S) + 1) = SUBSET S
    BY <1>3
  <2> HIDE DEF L, Solves, Bad
  <2> QED
    BY ONLY <2>2, <2>3
<1>5. f \in [SUBSET S -> V]
  BY <1>4
<1>6. ASSUME NEW T \in SUBSET S
      PROVE  f[T] = IF T = {} THEN base ELSE g[T][f[T \ {pick[T]}]]
  BY <1>4
<1> HIDE DEF Solves, L, Bad
<1>7. f = [T \in SUBSET S |-> f[T]]
  BY <1>5
<1>8. IsFold(f, S, base, pick, g)
  BY <1>6, <1>7 DEF IsFold
<1> QED
  BY <1>5, <1>8

\* A finite set of integers that is not empty has a largest element.
LEMMA MaxOfIntegers ==
    ASSUME NEW S \in SUBSET Int, IsFiniteSet(S), S # {}
    PROVE  Max(S) \in S /\ \A y \in S : Max(S) >= y
<1> DEFINE Bounded(T) == \E x \in T : \A y \in T : x >= y
           Bad == {n \in Nat : \E T \in SUBSET Int : /\ IsFiniteSet(T) /\ T # {}
                                                    /\ Cardinality(T) = n /\ ~Bounded(T)}
<1>1. ASSUME Bad # {}
      PROVE  FALSE
  <2>1. Bad \in SUBSET Nat
    OBVIOUS
  <2> PICK m \in Bad : \A k \in Bad : m <= k
    BY <1>1, <2>1, LeastNatural
  <2> PICK T \in SUBSET Int : IsFiniteSet(T) /\ T # {} /\ Cardinality(T) = m /\ ~Bounded(T)
    OBVIOUS
  <2> PICK x \in T : TRUE
    OBVIOUS
  <2> DEFINE U == T \ {x}
  <2>2. IsFiniteSet(U) /\ Cardinality(U) = m - 1 /\ m \in Nat /\ U \in SUBSET Int
    BY FS_RemoveElement
  <2>3. U # {}
    <3>1. SUFFICES ASSUME U = {}
                   PROVE  FALSE
      OBVIOUS
    <3>2. T = {x}
      BY <3>1
    <3> QED
      BY <3>2
  <2>4. m - 1 \in Nat
    BY <2>2, FS_CardinalityType
  <2>5. m - 1 \notin Bad
    BY <2>2, <2>4
  <2>6. Bounded(U)
    BY <2>2, <2>3, <2>4, <2>5
  <2> PICK z \in U : \A y \in U : z >= y
    BY <2>6
  <2>7. CASE x >= z
    <3>1. \A y \in T : x >= y
      BY <2>7
    <3> QED
      BY <3>1
  <2>8. CASE ~(x >= z)
    <3>1. \A y \in T : z >= y
      BY <2>8
    <3> QED
      BY <3>1
  <2> QED
    BY <2>7, <2>8
<1>2. Cardinality(S) \in Nat
  BY FS_CardinalityType
<1>3. Bounded(S)
  BY <1>1, <1>2
<1> QED
  BY <1>3 DEF Max

-----------------------------------------------------------------------------
(* The loop over the readings *)

\* What the loop carries from reading to reading.
Acc == [minutes : Nat, count : Nat, open : BOOLEAN, current : Nat]

\* What it starts from.
Fresh == [minutes |-> 0, count |-> 0, open |-> FALSE, current |-> 0]

\* A turn of the loop keeps the accumulator well typed.
LEMMA ScanType ==
    ASSUME NEW cfg, NEW acc \in Acc, NEW t
    PROVE  Scan(cfg, acc, t) \in Acc
<1>1. acc.count + 1 \in Nat /\ acc.current + 30 \in Nat /\ acc.minutes + acc.current \in Nat /\ 30 \in Nat
  BY DEF Acc
<1> QED
  BY <1>1 DEF Scan, Acc

\* The largest index of a set of indices.
LEMMA LastIndex ==
    ASSUME NEW n \in Nat, NEW T \in SUBSET (1 .. n), T # {}
    PROVE  Max(T) \in T /\ \A y \in T : Max(T) >= y
<1>1. IsFiniteSet(T)
  BY FS_Interval, FS_Subset, 1 \in Int, n \in Int
<1> QED
  BY <1>1, MaxOfIntegers

\* The fold is a run of the loop: one accumulator for each number of readings.
LEMMA ScannedRun ==
    ASSUME NEW cfg, NEW h \in Seq(Int)
    PROVE  \E r : /\ r[0] = Fresh
                  /\ \A i \in 1 .. Len(h) : r[i] = Scan(cfg, r[i - 1], h[i])
                  /\ Scanned(cfg, h) = r[Len(h)]
<1> DEFINE S == DOMAIN h
           Fits(f) == f = [T \in SUBSET S |-> IF T = {} THEN Fresh
                                              ELSE Scan(cfg, f[T \ {Max(T)}], h[Max(T)])]
           pick == [T \in SUBSET S |-> Max(T)]
           g == [T \in SUBSET S |-> [v \in Acc |-> Scan(cfg, v, h[Max(T)])]]
<1>1. S = 1 .. Len(h) /\ Len(h) \in Nat
  OBVIOUS
<1>2. IsFiniteSet(S)
  BY <1>1, FS_Interval
<1>3. Fresh \in Acc
  BY DEF Fresh, Acc
<1>4. \A T \in SUBSET S : T # {} => pick[T] \in T
  BY <1>1, LastIndex
<1>5. \A T \in SUBSET S : \A v \in Acc : T # {} => g[T][v] \in Acc
  BY ScanType
<1>6. PICK f \in [SUBSET S -> Acc] : IsFold(f, S, Fresh, pick, g)
  <2> HIDE DEF S, pick, g
  <2>1. Foldable(S, Acc, Fresh, pick, g)
    BY <1>2, <1>3, <1>4, <1>5 DEF Foldable
  <2> QED
    BY ONLY <2>1, FoldDefined
<1>7. Fits(f)
  <2>1. ASSUME NEW T \in SUBSET S
        PROVE  f[T] = IF T = {} THEN Fresh ELSE Scan(cfg, f[T \ {Max(T)}], h[Max(T)])
    <3>1. f[T \ {Max(T)}] \in Acc
      OBVIOUS
    <3>2. f[T] = IF T = {} THEN Fresh ELSE g[T][f[T \ {pick[T]}]]
      BY <1>6 DEF IsFold
    <3> QED
      BY <3>1, <3>2
  <2>2. f = [T \in SUBSET S |-> f[T]]
    BY <1>6 DEF IsFold
  <2> QED
    BY <2>1, <2>2
<1> DEFINE c == CHOOSE e : Fits(e)
<1>8. Fits(c)
  BY <1>7
<1>9. Scanned(cfg, h) = c[S]
  BY DEF Scanned, FoldLeft, MapThenFoldSet, Fresh
<1> DEFINE r == [i \in 0 .. Len(h) |-> c[1 .. i]]
<1> HIDE DEF c
<1>10. r[0] = Fresh
  <2>1. 1 .. 0 = {} /\ 0 \in 0 .. Len(h) /\ {} \in SUBSET S
    BY <1>1
  <2>2. c[{}] = Fresh
    BY <1>8, <2>1
  <2> QED
    BY <2>1, <2>2
<1>11. ASSUME NEW i \in 1 .. Len(h)
       PROVE  r[i] = Scan(cfg, r[i - 1], h[i])
  <2> DEFINE T == 1 .. i
  <2>1. T \in SUBSET S /\ T # {} /\ i \in T /\ \A y \in T : i >= y
    BY <1>1
  <2>2. Max(T) = i
    <3>0. i \in Nat /\ T \in SUBSET (1 .. i)
      OBVIOUS
    <3>1. Max(T) \in T /\ \A y \in T : Max(T) >= y
      <4> HIDE DEF T
      <4> QED
        BY ONLY <2>1, <3>0, LastIndex
    <3>2. T \in SUBSET Int
      OBVIOUS
    <3> QED
      BY ONLY <2>1, <3>1, <3>2
  <2>3. T \ {i} = 1 .. i - 1
    OBVIOUS
  <2>4. c[T] = Scan(cfg, c[T \ {Max(T)}], h[Max(T)])
    BY <1>8, <2>1
  <2>5. r[i] = c[T] /\ r[i - 1] = c[1 .. i - 1]
    BY <1>1
  <2> QED
    BY <2>2, <2>3, <2>4, <2>5
<1>12. Scanned(cfg, h) = r[Len(h)]
  BY <1>1, <1>9
<1> QED
  BY <1>10, <1>11, <1>12

\* The readings outside the limits among the first n, and those of them that
\* begin an excursion.
OutIn(cfg, h, n) == {i \in 1 .. n : Outside(cfg, h[i])}

StartsIn(cfg, h, n) ==
    {i \in OutIn(cfg, h, n) : i = 1 \/ i - 1 \notin OutIn(cfg, h, n)}

\* What the accumulator holds after n readings.
Counted(cfg, h, n, acc) ==
    /\ acc \in Acc
    /\ acc.minutes + (IF acc.open THEN acc.current ELSE 0) = 30 * Cardinality(OutIn(cfg, h, n))
    /\ acc.count = Cardinality(StartsIn(cfg, h, n))
    /\ acc.open <=> n \in OutIn(cfg, h, n)

\* Both are finite.
LEMMA OutFinite ==
    ASSUME NEW cfg, NEW h, NEW n \in Nat
    PROVE  /\ IsFiniteSet(OutIn(cfg, h, n)) /\ IsFiniteSet(StartsIn(cfg, h, n))
           /\ Cardinality(OutIn(cfg, h, n)) \in Nat /\ Cardinality(StartsIn(cfg, h, n)) \in Nat
<1>1. IsFiniteSet(1 .. n)
  BY FS_Interval
<1>2. OutIn(cfg, h, n) \subseteq 1 .. n /\ StartsIn(cfg, h, n) \subseteq 1 .. n
  BY DEF OutIn, StartsIn
<1> QED
  BY <1>1, <1>2, FS_Subset, FS_CardinalityType

\* Before the first reading nothing is counted.
LEMMA CountedFirst ==
    ASSUME NEW cfg, NEW h
    PROVE  Counted(cfg, h, 0, Fresh)
<1>1. OutIn(cfg, h, 0) = {} /\ StartsIn(cfg, h, 0) = {}
  BY DEF OutIn, StartsIn
<1> QED
  BY <1>1, FS_EmptySet DEF Counted, Fresh, Acc

\* One turn of the loop counts one more reading.
LEMMA CountedNext ==
    ASSUME NEW cfg, NEW h, NEW n \in Nat, NEW acc, Counted(cfg, h, n, acc)
    PROVE  Counted(cfg, h, n + 1, Scan(cfg, acc, h[n + 1]))
<1> DEFINE out == OutIn(cfg, h, n)
           starts == StartsIn(cfg, h, n)
           next == Scan(cfg, acc, h[n + 1])
<1>1. IsFiniteSet(out) /\ IsFiniteSet(starts) /\ Cardinality(out) \in Nat /\ Cardinality(starts) \in Nat
  BY OutFinite
<1>2. n + 1 \notin out /\ n + 1 \notin starts
  BY DEF OutIn, StartsIn
<1>3. acc \in Acc /\ next \in Acc
  BY ScanType DEF Counted
<1>4. CASE ~Outside(cfg, h[n + 1])
  <2>1. OutIn(cfg, h, n + 1) = out
    BY <1>4 DEF OutIn
  <2>2. StartsIn(cfg, h, n + 1) = starts
    BY <2>1 DEF StartsIn
  <2>3. /\ next.minutes = IF acc.open THEN acc.minutes + acc.current ELSE acc.minutes
        /\ next.open = FALSE /\ next.count = acc.count
    BY <1>3, <1>4 DEF Scan, Acc
  <2> QED
    BY <1>2, <1>3, <2>1, <2>2, <2>3 DEF Counted, Acc
<1>5. CASE Outside(cfg, h[n + 1])
  <2>1. OutIn(cfg, h, n + 1) = out \cup {n + 1}
    BY <1>5 DEF OutIn
  <2>2. Cardinality(OutIn(cfg, h, n + 1)) = Cardinality(out) + 1
    BY <1>1, <1>2, <2>1, FS_AddElement
  <2>3. /\ next.minutes = acc.minutes /\ next.open = TRUE
        /\ next.count = IF acc.open THEN acc.count ELSE acc.count + 1
        /\ next.current = IF acc.open THEN acc.current + 30 ELSE 30
    BY <1>3, <1>5 DEF Scan, Acc
  <2>4. CASE acc.open
    <3>1. n \in out
      BY <2>4 DEF Counted
    <3>2. StartsIn(cfg, h, n + 1) = starts
      BY <2>1, <3>1 DEF StartsIn, OutIn
    <3> QED
      BY <1>1, <1>3, <2>1, <2>2, <2>3, <2>4, <3>2 DEF Counted, Acc
  <2>5. CASE ~acc.open
    <3>1. n \notin out
      BY <2>5 DEF Counted
    <3>2. StartsIn(cfg, h, n + 1) = starts \cup {n + 1}
      BY <2>1, <3>1 DEF StartsIn, OutIn
    <3>3. Cardinality(StartsIn(cfg, h, n + 1)) = Cardinality(starts) + 1
      BY <1>1, <1>2, <3>2, FS_AddElement
    <3> QED
      BY <1>1, <1>3, <2>1, <2>2, <2>3, <2>5, <3>3 DEF Counted, Acc
  <2> QED
    BY <2>4, <2>5
<1> QED
  BY <1>4, <1>5

\* So the single pass counts what the reference counts, for every history.
LEMMA ScanCounts ==
    ASSUME NEW cfg, NEW h \in Seq(Int)
    PROVE  Excursions(cfg, h) = [minutes |-> 30 * Cardinality(OutIn(cfg, h, Len(h))),
                                 count   |-> Cardinality(StartsIn(cfg, h, Len(h)))]
<1> PICK r : /\ r[0] = Fresh
             /\ \A i \in 1 .. Len(h) : r[i] = Scan(cfg, r[i - 1], h[i])
             /\ Scanned(cfg, h) = r[Len(h)]
  BY ScannedRun
<1> DEFINE Bad == {i \in 0 .. Len(h) : ~Counted(cfg, h, i, r[i])}
<1>1. ASSUME Bad # {}
      PROVE  FALSE
  <2>1. Bad \in SUBSET Nat
    OBVIOUS
  <2> PICK m \in Bad : \A k \in Bad : m <= k
    BY <1>1, <2>1, LeastNatural
  <2>2. m \in 0 .. Len(h) /\ m # 0
    BY CountedFirst
  <2>3. m - 1 \notin Bad /\ m - 1 \in 0 .. Len(h)
    BY <2>2
  <2>4. Counted(cfg, h, m - 1, r[m - 1])
    BY <2>3
  <2>5. r[m] = Scan(cfg, r[m - 1], h[m]) /\ m - 1 \in Nat /\ (m - 1) + 1 = m
    BY <2>2
  <2>6. Counted(cfg, h, m, r[m])
    BY ONLY <2>4, <2>5, CountedNext
  <2> QED
    BY <2>6
<1>2. Len(h) \in 0 .. Len(h)
  OBVIOUS
<1>3. Counted(cfg, h, Len(h), Scanned(cfg, h))
  BY <1>1, <1>2
<1> QED
  BY <1>3 DEF Excursions, Counted, Acc

-----------------------------------------------------------------------------
(* The readings *)

\* The table holds a sequence of temperatures for each shipment.
TypeOK == readings \in [Shipments -> Seq(Int)]

\* Readings are added to, replaced and deleted; they stay sequences of integers.
LEMMA ColdChainType == Spec => []TypeOK
<1>1. Init => TypeOK
  BY ColdChainAssumption DEF Init, TypeOK
<1>2. TypeOK /\ [Next]_readings => TypeOK'
  <2> SUFFICES ASSUME TypeOK, [Next]_readings
               PROVE  TypeOK'
    OBVIOUS
  <2>1. ExcursionSeries \in Seq(Int) /\ <<>> \in Seq(Int)
    BY DEF ExcursionSeries
  <2>2. ASSUME NEW s \in Shipments, NEW t \in Sensed[s], AddReading(s, t)
        PROVE  TypeOK'
    <3>1. readings[s] \in Seq(Int) /\ t \in Int
      BY ColdChainAssumption DEF TypeOK
    <3>2. Append(readings[s], t) \in Seq(Int)
      BY <3>1
    <3> QED
      BY <2>2, <3>2 DEF AddReading, TypeOK
  <2>3. ASSUME NEW s \in Shipments, ApplyTemperatureExcursion(s)
        PROVE  TypeOK'
    BY <2>1, <2>3 DEF ApplyTemperatureExcursion, TypeOK
  <2>4. ASSUME NEW s \in Shipments, ExcursionHalfApplied(s)
        PROVE  TypeOK'
    BY <2>1, <2>4 DEF ExcursionHalfApplied, TypeOK
  <2>5. CASE ResetToSeedState
    BY <2>5, ColdChainAssumption DEF ResetToSeedState, TypeOK
  <2>6. CASE UNCHANGED readings
    BY <2>6 DEF TypeOK
  <2> QED
    BY <2>2, <2>3, <2>4, <2>5, <2>6 DEF Next
<1> QED
  BY <1>1, <1>2, PTL DEF Spec

\* The excursions counted for a shipment are those of its readings: 30 minutes
\* for every reading outside the limits, the open excursion included, and one
\* excursion for each maximal run.
THEOREM SpecScan == Spec => []ScanIsReference
<1>1. TypeOK => ScanIsReference
  <2> SUFFICES ASSUME TypeOK, NEW s \in Shipments
               PROVE  LET out == {i \in Index(s) : OutsideAt(s, i)}
                          starts == {i \in out : i = 1 \/ i - 1 \notin out}
                      IN  Excursions(ConfigOf(s), readings[s]) =
                              [minutes |-> 30 * Cardinality(out), count |-> Cardinality(starts)]
    BY DEF ScanIsReference
  <2> DEFINE h == readings[s]
             cfg == ConfigOf(s)
             out == {i \in Index(s) : OutsideAt(s, i)}
             starts == {i \in out : i = 1 \/ i - 1 \notin out}
  <2>1. h \in Seq(Int) /\ DOMAIN h = 1 .. Len(h)
    BY DEF TypeOK
  <2>2. out = OutIn(cfg, h, Len(h))
    BY <2>1 DEF OutIn, Index, OutsideAt
  <2>3. starts = StartsIn(cfg, h, Len(h))
    BY <2>2 DEF StartsIn
  <2> QED
    BY <2>1, <2>2, <2>3, ScanCounts
<1> QED
  BY <1>1, ColdChainType, PTL

-----------------------------------------------------------------------------
(* The classification *)

\* Above the minimum a higher peak is not closer to the limits.
LEMMA MagnitudeGrows ==
    ASSUME NEW cfg \in Limits, NEW p \in Int, NEW q \in Int,
           cfg.min <= p, p <= q
    PROVE  /\ Magnitude(cfg, p) \in Int
           /\ Magnitude(cfg, q) \in Int
           /\ Magnitude(cfg, p) <= Magnitude(cfg, q)
BY DEF Limits, Magnitude

\* The clauses for CRITICAL stay true when an excursion gets worse.
LEMMA CriticalPersists ==
    ASSUME NEW cfg \in Limits, NEW p \in Int, NEW q \in Int, NEW due \in Int,
           NEW m \in Nat, NEW n \in Nat, NEW c \in Nat, NEW d \in Nat,
           cfg.min <= p, p <= q, m <= n, c <= d,
           IsCritical(cfg, p, m, c, due)
    PROVE  IsCritical(cfg, q, n, d, due)
BY MagnitudeGrows DEF Limits, IsCritical

\* So do those for HIGH.
LEMMA HighPersists ==
    ASSUME NEW cfg \in Limits, NEW p \in Int, NEW q \in Int,
           NEW m \in Nat, NEW n \in Nat, NEW c \in Nat, NEW d \in Nat,
           cfg.min <= p, p <= q, m <= n, c <= d,
           IsHigh(cfg, p, m, c)
    PROVE  IsHigh(cfg, q, n, d)
BY MagnitudeGrows DEF Limits, IsHigh

\* A worse excursion is never classified lower, for any limits, as long as
\* the peak was not below the minimum: the step behind AlertsOnlyEscalate.
THEOREM ClassifyMonotone ==
    ASSUME NEW cfg \in Limits, NEW p \in Int, NEW q \in Int, NEW due \in Int,
           NEW m \in Nat, NEW n \in Nat, NEW c \in Nat, NEW d \in Nat,
           cfg.min <= p, p <= q, m <= n, c <= d
    PROVE  Classify(cfg, p, m, c, due) <= Classify(cfg, q, n, d, due)
<1>1. CASE m = 0
  BY <1>1 DEF Classify, NORMAL, WARNING, HIGH, CRITICAL
<1>2. CASE m # 0 /\ IsCritical(cfg, p, m, c, due)
  <2>1. IsCritical(cfg, q, n, d, due)
    BY <1>2, CriticalPersists
  <2>2. n # 0
    BY <1>2
  <2> QED
    BY <1>2, <2>1, <2>2 DEF Classify, CRITICAL
<1>3. CASE m # 0 /\ ~IsCritical(cfg, p, m, c, due) /\ IsHigh(cfg, p, m, c)
  <2>1. IsHigh(cfg, q, n, d)
    BY <1>3, HighPersists
  <2>2. n # 0
    BY <1>3
  <2> QED
    BY <1>3, <2>1, <2>2 DEF Classify, HIGH, CRITICAL
<1>4. CASE m # 0 /\ ~IsCritical(cfg, p, m, c, due) /\ ~IsHigh(cfg, p, m, c)
  <2>1. n # 0
    BY <1>4
  <2> QED
    BY <1>4, <2>1 DEF Classify, WARNING, HIGH, CRITICAL
<1> QED
  BY <1>1, <1>2, <1>3, <1>4
-----------------------------------------------------------------------------

\* Margins and the allowed duration are positive in every row, and in the
\* defaults.
Sound(cfg) == /\ cfg \in Limits
              /\ cfg.warning > 0 /\ cfg.critical > 0 /\ cfg.allowed > 0

\* The limits of every shipment are of this kind.
LEMMA ConfigSound ==
    ASSUME NEW s
    PROVE  Sound(ConfigOf(s))
BY ColdChainAssumption, MarginAssumption DEF Sound, ConfigOf, Limits

\* The excess of a reading that is not below the minimum.
LEMMA ExcessAbove ==
    ASSUME NEW cfg \in Limits, NEW t \in Int, t >= cfg.min
    PROVE  Excess(cfg, t) = Magnitude(cfg, t)
<1> DEFINE S == {0, t - cfg.max, cfg.min - t}
<1>1. S \in SUBSET Int /\ S # {}
  BY DEF Limits
<1>2. IsFiniteSet(S)
  <2>1. IsFiniteSet({0}) /\ IsFiniteSet({0} \cup {t - cfg.max})
    BY FS_Singleton, FS_AddElement
  <2>2. IsFiniteSet(({0} \cup {t - cfg.max}) \cup {cfg.min - t})
    BY <2>1, FS_AddElement
  <2>3. S = ({0} \cup {t - cfg.max}) \cup {cfg.min - t}
    OBVIOUS
  <2> QED
    BY <2>2, <2>3
<1>3. Max(S) \in S /\ \A y \in S : Max(S) >= y
  <2> HIDE DEF S
  <2> QED
    BY <1>1, <1>2, MaxOfIntegers
<1> QED
  BY <1>3 DEF Excess, Magnitude, Limits

\* The values of a function on a finite set are a finite set.
LEMMA ImageFinite ==
    ASSUME NEW S, IsFiniteSet(S), NEW f
    PROVE  IsFiniteSet({f[x] : x \in S})
<1> DEFINE T == {f[x] : x \in S}
           g == [x \in S |-> f[x]]
<1>1. g \in Surjection(S, T)
  BY DEF Surjection
<1> QED
  BY <1>1, FS_Surjection

\* The highest reading is one of the readings, and at least each of them.
LEMMA PeakIsHighest ==
    ASSUME NEW h \in Seq(Int), h # <<>>
    PROVE  /\ Peak(h) \in Int
           /\ \E i \in 1 .. Len(h) : Peak(h) = h[i]
           /\ \A i \in 1 .. Len(h) : Peak(h) >= h[i]
<1>1. ToSet(h) = {h[i] : i \in 1 .. Len(h)}
  BY DEF ToSet
<1>2. IsFiniteSet(ToSet(h))
  <2>1. IsFiniteSet(1 .. Len(h))
    BY FS_Interval
  <2> QED
    BY <1>1, <2>1, ImageFinite
<1>3. ToSet(h) \in SUBSET Int /\ ToSet(h) # {}
  BY <1>1
<1>4. Peak(h) \in ToSet(h) /\ \A y \in ToSet(h) : Peak(h) >= y
  BY <1>2, <1>3, MaxOfIntegers DEF Peak
<1> QED
  BY <1>1, <1>3, <1>4

\* One shipment at one moment: whether minutes are counted or not, the answer
\* reaches the documented class.
LEMMA HeatDocumented ==
    ASSUME NEW s \in Shipments, TypeOK, readings[s] # <<>>, NeverBelow(s)
    PROVE  Severity(s) >= DocumentedSeverity(s)
<1> DEFINE h == readings[s]
           cfg == ConfigOf(s)
           out == OutIn(cfg, h, Len(h))
           excesses == {Excess(cfg, h[i]) : i \in Index(s)}
           magnitude == Max(excesses)
           n == Cardinality(out)
           m == 30 * n
           c == Cardinality(StartsIn(cfg, h, Len(h)))
           due == MinutesToDelivery(s)
           p == Peak(h)
<1>1. h \in Seq(Int) /\ Index(s) = 1 .. Len(h) /\ Len(h) \in Nat /\ Len(h) # 0
  BY DEF TypeOK, Index
<1>2. Sound(cfg) /\ cfg \in Limits
  BY ConfigSound DEF Sound
<1>3. out = {i \in Index(s) : OutsideAt(s, i)}
  BY <1>1 DEF OutIn, OutsideAt
<1>4. /\ p \in Int
      /\ \E i \in 1 .. Len(h) : p = h[i]
      /\ \A i \in 1 .. Len(h) : p >= h[i]
  BY <1>1, PeakIsHighest
<1>5. \A i \in 1 .. Len(h) : h[i] \in Int /\ h[i] >= cfg.min
  BY <1>1 DEF NeverBelow
<1>6. p >= cfg.min
  BY <1>4, <1>5
<1>7. PICK j \in 1 .. Len(h) : magnitude = Magnitude(cfg, h[j])
  <2>1. IsFiniteSet(1 .. Len(h))
    BY <1>1, FS_Interval
  <2>2. \A i \in 1 .. Len(h) : Excess(cfg, h[i]) = Magnitude(cfg, h[i]) /\ Excess(cfg, h[i]) \in Int
    <3> SUFFICES ASSUME NEW i \in 1 .. Len(h)
                 PROVE  Excess(cfg, h[i]) = Magnitude(cfg, h[i]) /\ Excess(cfg, h[i]) \in Int
      OBVIOUS
    <3>1. Excess(cfg, h[i]) = Magnitude(cfg, h[i])
      BY <1>2, <1>5, ExcessAbove
    <3> QED
      BY <1>2, <1>5, <3>1, MagnitudeGrows
  <2>3. IsFiniteSet(excesses)
    <3> DEFINE e == [i \in 1 .. Len(h) |-> Excess(cfg, h[i])]
    <3>1. excesses = {e[i] : i \in 1 .. Len(h)}
      BY <1>1
    <3>2. IsFiniteSet({e[i] : i \in 1 .. Len(h)})
      <4> HIDE DEF e
      <4> QED
        BY ONLY <2>1, ImageFinite
    <3> QED
      BY ONLY <3>1, <3>2
  <2>4. excesses \in SUBSET Int /\ excesses # {}
    BY <1>1, <2>2
  <2>5. magnitude \in excesses
    <3> HIDE DEF excesses
    <3> QED
      BY <2>3, <2>4, MaxOfIntegers
  <2> QED
    BY <1>1, <2>2, <2>5
<1>8. /\ magnitude \in Int /\ Magnitude(cfg, p) \in Int
      /\ magnitude <= Magnitude(cfg, p)
  BY <1>2, <1>4, <1>5, <1>7, MagnitudeGrows
<1>9. n \in Nat /\ c \in Nat /\ IsFiniteSet(out)
  BY <1>1, OutFinite
<1>10. Severity(s) = Classify(cfg, p, m, c, due)
  <2>1. Excursions(cfg, h) = [minutes |-> m, count |-> c]
    BY <1>1, ScanCounts
  <2> QED
    BY <2>1 DEF Severity, SeverityOf
<1>11. DocumentedSeverity(s) =
          IF magnitude >= cfg.critical \/ m >= 3 * cfg.allowed THEN CRITICAL
          ELSE IF magnitude >= 2 * cfg.warning \/ m >= cfg.allowed THEN HIGH
          ELSE IF magnitude >= cfg.warning THEN WARNING
          ELSE NORMAL
  BY <1>3 DEF DocumentedSeverity
<1> HIDE DEF magnitude, p, c, n, due, cfg
<1>12. CASE n = 0
  <2>1. out = {}
    BY <1>9, <1>12, FS_EmptySet DEF n
  <2>2. ~Outside(cfg, h[j])
    BY <2>1 DEF OutIn
  <2>3. magnitude = 0
    BY <1>2, <1>5, <1>7, <2>2 DEF Outside, Magnitude, Limits
  <2>4. m = 0
    BY <1>12
  <2>5. DocumentedSeverity(s) = NORMAL
    BY <1>2, <1>11, <2>3, <2>4 DEF Sound, Limits
  <2>6. Severity(s) = NORMAL
    BY <1>10, <2>4 DEF Classify
  <2> QED
    BY <2>5, <2>6 DEF NORMAL
<1>13. CASE n # 0
  <2>1. m \in Nat /\ m # 0
    BY <1>9, <1>13
  <2> HIDE DEF m
  <2>2. CASE magnitude >= cfg.critical \/ m >= 3 * cfg.allowed
    <3>1. IsCritical(cfg, p, m, c, due)
      BY <1>2, <1>8, <2>1, <2>2 DEF IsCritical, Limits
    <3> QED
      BY <1>10, <1>11, <2>1, <2>2, <3>1 DEF Classify, CRITICAL
  <2>3. CASE /\ ~(magnitude >= cfg.critical \/ m >= 3 * cfg.allowed)
             /\ (magnitude >= 2 * cfg.warning \/ m >= cfg.allowed)
    <3>1. IsHigh(cfg, p, m, c)
      BY <1>2, <1>8, <2>1, <2>3 DEF IsHigh, Limits
    <3>2. DocumentedSeverity(s) = HIGH
      BY <1>11, <2>3
    <3>3. Severity(s) \in {HIGH, CRITICAL}
      BY <1>10, <2>1, <3>1 DEF Classify
    <3> QED
      BY <3>2, <3>3 DEF CRITICAL, HIGH
  <2>4. CASE /\ ~(magnitude >= cfg.critical \/ m >= 3 * cfg.allowed)
             /\ ~(magnitude >= 2 * cfg.warning \/ m >= cfg.allowed)
    BY <1>10, <1>11, <2>1, <2>4 DEF Classify, CRITICAL, HIGH, WARNING, NORMAL
  <2> QED
    BY <2>2, <2>3, <2>4
<1> QED
  BY <1>9, <1>12, <1>13

\* No history of too high temperatures, however long, gets a severity below
\* the documented one.
THEOREM SpecHeat == Spec => []HeatAtLeastDocumented
<1>1. TypeOK => HeatAtLeastDocumented
  BY HeatDocumented DEF HeatAtLeastDocumented
<1> QED
  BY <1>1, ColdChainType, PTL

\* The counts of a history and of one that continues it.
LEMMA CountsGrow ==
    ASSUME NEW cfg, NEW h \in Seq(Int), NEW k \in Seq(Int),
           Len(h) <= Len(k), \A i \in 1 .. Len(h) : k[i] = h[i]
    PROVE  /\ Cardinality(OutIn(cfg, h, Len(h))) <= Cardinality(OutIn(cfg, k, Len(k)))
           /\ Cardinality(StartsIn(cfg, h, Len(h))) <= Cardinality(StartsIn(cfg, k, Len(k)))
<1>1. OutIn(cfg, h, Len(h)) \subseteq OutIn(cfg, k, Len(k))
  BY DEF OutIn
<1>2. StartsIn(cfg, h, Len(h)) \subseteq StartsIn(cfg, k, Len(k))
  <2> SUFFICES ASSUME NEW i \in StartsIn(cfg, h, Len(h))
               PROVE  i \in StartsIn(cfg, k, Len(k))
    OBVIOUS
  <2>1. i \in OutIn(cfg, k, Len(k)) /\ i \in 1 .. Len(h)
    BY <1>1 DEF StartsIn, OutIn
  <2>2. CASE i = 1
    BY <2>1, <2>2 DEF StartsIn
  <2>3. CASE i # 1
    <3>1. i - 1 \notin OutIn(cfg, h, Len(h)) /\ i - 1 \in 1 .. Len(h)
      BY <2>1, <2>3 DEF StartsIn
    <3>2. i - 1 \notin OutIn(cfg, k, Len(k))
      BY <3>1 DEF OutIn
    <3> QED
      BY <2>1, <3>2 DEF StartsIn
  <2> QED
    BY <2>2, <2>3
<1>3. Len(k) \in Nat
  OBVIOUS
<1>4. IsFiniteSet(OutIn(cfg, k, Len(k))) /\ IsFiniteSet(StartsIn(cfg, k, Len(k)))
  BY <1>3, OutFinite
<1> QED
  BY <1>1, <1>2, <1>4, FS_Subset

\* A continued history is not classified lower.
LEMMA LongerIsWorse ==
    ASSUME NEW s \in Shipments, NEW h \in Seq(Int), NEW k \in Seq(Int),
           h # <<>>, IsPrefix(h, k), Peak(h) >= ConfigOf(s).min
    PROVE  SeverityOf(s, k) >= SeverityOf(s, h)
<1> DEFINE cfg == ConfigOf(s)
           m(l) == 30 * Cardinality(OutIn(cfg, l, Len(l)))
           c(l) == Cardinality(StartsIn(cfg, l, Len(l)))
           due == MinutesToDelivery(s)
<1>1. /\ Len(h) <= Len(k) /\ k # <<>>
      /\ \A i \in 1 .. Len(h) : k[i] = h[i]
  BY DEF IsPrefix
<1>2. cfg \in Limits /\ due \in Int
  BY ConfigSound, ColdChainAssumption DEF Sound, MinutesToDelivery
<1>3. ASSUME NEW l \in Seq(Int), l # <<>>
      PROVE  /\ SeverityOf(s, l) = Classify(cfg, Peak(l), m(l), c(l), due)
             /\ m(l) \in Nat /\ c(l) \in Nat /\ Peak(l) \in Int
  <2>1. Excursions(cfg, l) = [minutes |-> m(l), count |-> c(l)]
    BY ScanCounts
  <2>2. Len(l) \in Nat
    OBVIOUS
  <2>3. Cardinality(OutIn(cfg, l, Len(l))) \in Nat /\ Cardinality(StartsIn(cfg, l, Len(l))) \in Nat
    BY <2>2, OutFinite
  <2> QED
    BY <1>3, <2>1, <2>3, PeakIsHighest DEF SeverityOf
<1>4. Peak(h) <= Peak(k)
  <2> PICK i \in 1 .. Len(h) : Peak(h) = h[i]
    BY PeakIsHighest
  <2>1. i \in 1 .. Len(k) /\ k[i] = h[i]
    BY <1>1
  <2>2. Peak(k) >= k[i]
    BY <1>1, <2>1, PeakIsHighest
  <2> QED
    BY <1>1, <1>3, <2>1, <2>2
<1>5. m(h) <= m(k) /\ c(h) <= c(k)
  <2>1. Cardinality(OutIn(cfg, h, Len(h))) <= Cardinality(OutIn(cfg, k, Len(k))) /\ c(h) <= c(k)
    BY <1>1, CountsGrow
  <2>2. Cardinality(OutIn(cfg, h, Len(h))) \in Nat /\ Cardinality(OutIn(cfg, k, Len(k))) \in Nat
    BY OutFinite
  <2> QED
    BY <2>1, <2>2
<1>6. cfg.min <= Peak(h)
  BY <1>2, <1>3 DEF Limits
<1> HIDE DEF cfg, m, c, due
<1>7. Classify(cfg, Peak(h), m(h), c(h), due) <= Classify(cfg, Peak(k), m(k), c(k), due)
  BY <1>1, <1>2, <1>3, <1>4, <1>5, <1>6, ClassifyMonotone
<1>8. Classify(cfg, Peak(h), m(h), c(h), due) \in Int /\ Classify(cfg, Peak(k), m(k), c(k), due) \in Int
  BY DEF Classify, NORMAL, WARNING, HIGH, CRITICAL
<1> QED
  BY <1>1, <1>3, <1>7, <1>8

\* No reading that is added lowers an alert.
THEOREM SpecEscalate == Spec => AlertsOnlyEscalate
<1>1. ASSUME TypeOK, TypeOK', NEW s \in Shipments,
             readings[s] # <<>>, IsPrefix(readings[s], readings'[s]),
             Peak(readings[s]) >= ConfigOf(s).min
      PROVE  SeverityOf(s, readings'[s]) >= SeverityOf(s, readings[s])
  BY <1>1, LongerIsWorse DEF TypeOK
<1>2. TypeOK /\ TypeOK' =>
          [\A s \in Shipments :
              /\ readings[s] # <<>>
              /\ readings'[s] # readings[s] /\ IsPrefix(readings[s], readings'[s])
              /\ Peak(readings[s]) >= ConfigOf(s).min
              => SeverityOf(s, readings'[s]) >= SeverityOf(s, readings[s])]_readings
  BY <1>1
<1> QED
  BY <1>2, ColdChainType, PTL DEF AlertsOnlyEscalate
=============================================================================
