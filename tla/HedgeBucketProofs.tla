------------------------- MODULE HedgeBucketProofs --------------------------
(***************************************************************************)
(* Proofs about the bucket of the hedging client (TokenBucket) for any     *)
(* number of goroutines and for any burst and rate: no token is given out  *)
(* twice, and how often concurrent calls refill for a moment is bounded.   *)
(***************************************************************************)
EXTENDS Buckets, FiniteSetTheorems, TLAPS

\* The times a goroutine holds: never ahead of the clock, and strictly apart
\* while it refills.
HedgeTimes ==
    /\ lastRefill <= clock
    /\ \A g \in Goroutines :
          /\ now[g] <= clock
          /\ at[g] \in {"loadRefill", "casRefill", "casLast"} => last[g] < now[g]
          /\ at[g] = "casTake" => cur[g] >= OneToken

\* The inductive invariant: tokens stay in range because what is added is
\* positive and cut off, and what is granted was there.
HedgeInv == T!TypeOK /\ HedgeTimes /\ T!TokensConserved

\* A product of naturals is a natural.
LEMMA ProductNat == \A a, b \in Nat : a * b \in Nat
OBVIOUS

\* The capacity and the converted rate are natural numbers.
LEMMA HedgeSizes == T!capacity \in Nat /\ T!refillRate \in Nat /\ OneToken \in Nat /\ OneToken > 0
<1>1. T!capacity \in Nat
  BY Zenon, SizesAssumption, ProductNat DEF T!capacity
<1>2. HedgeRateNum \div HedgeRateDen \in Nat
  BY SizesAssumption
<1>3. QED
  BY <1>1, <1>2, SizesAssumption DEF T!refillRate

\* What a refill swaps in lies between what was there and the capacity.
LEMMA HedgeRefilled ==
    ASSUME NEW g \in Goroutines, T!TypeOK, last[g] < now[g]
    PROVE  T!Refilled(g) \in cur[g]..T!capacity
<1>1. now[g] - last[g] \in Nat /\ cur[g] \in 0..T!capacity
  BY DEF T!TypeOK
<1>2. (now[g] - last[g]) * T!refillRate \in Nat
  BY Zenon, <1>1, HedgeSizes, ProductNat
<1>3. PICK r \in Nat : r = (now[g] - last[g]) * T!refillRate
  BY Zenon, <1>2
<1>4. T!Refilled(g) = IF cur[g] + r > T!capacity THEN T!capacity ELSE cur[g] + r
  BY Zenon, <1>3 DEF T!Refilled
<1>5. QED
  BY <1>1, <1>4, HedgeSizes

\* Every step keeps the invariant and moves lastRefill forward only.
LEMMA HedgeStepKeeps ==
    ASSUME HedgeInv, [T!Next]_(T!vars)
    PROVE  HedgeInv' /\ lastRefill' >= lastRefill
<1> USE DEF T!Goto, T!bucketVars, T!localVars, T!historyVars
<1>0. /\ tokens \in 0..T!capacity /\ lastRefill \in Nat /\ clock \in Nat /\ at \in [Goroutines -> T!Labels]
      /\ now \in [Goroutines -> Nat] /\ last \in [Goroutines -> Nat]
      /\ cur \in [Goroutines -> 0..T!capacity] /\ granted \in Nat /\ credited \in Nat
      /\ HedgeTimes /\ T!TokensConserved
  BY Zenon DEF HedgeInv, T!TypeOK
<1>1. ASSUME NEW g \in Goroutines, T!ReadNow(g) PROVE HedgeInv' /\ lastRefill' >= lastRefill
  BY <1>0, <1>1 DEF T!ReadNow, HedgeInv, T!TypeOK, HedgeTimes, T!TokensConserved, T!Labels
<1>2. ASSUME NEW g \in Goroutines, T!LoadLast(g) PROVE HedgeInv' /\ lastRefill' >= lastRefill
  BY <1>0, <1>2 DEF T!LoadLast, HedgeInv, T!TypeOK, HedgeTimes, T!TokensConserved, T!Labels
<1>3. ASSUME NEW g \in Goroutines, T!LoadRefill(g) PROVE HedgeInv' /\ lastRefill' >= lastRefill
  BY <1>0, <1>3 DEF T!LoadRefill, HedgeInv, T!TypeOK, HedgeTimes, T!TokensConserved, T!Labels
<1>4. ASSUME NEW g \in Goroutines, T!CasRefill(g) PROVE HedgeInv' /\ lastRefill' >= lastRefill
  <2>1. last[g] < now[g]
    BY Zenon, <1>0, <1>4 DEF T!CasRefill, HedgeTimes
  <2>2. PICK r \in cur[g]..T!capacity : r = T!Refilled(g)
    BY Zenon, <2>1, HedgeRefilled DEF HedgeInv
  <2>3. PICK spent \in Nat : spent = granted * OneToken
    BY Zenon, <1>0, HedgeSizes, ProductNat
  <2>4. UNCHANGED <<lastRefill, clock, now, last, cur, granted>>
    BY Zenon, <1>4 DEF T!CasRefill
  <2>5. CASE tokens = cur[g]
    <3>1. tokens' = r /\ credited' = credited + (r - cur[g]) /\ at' = [at EXCEPT ![g] = "casLast"]
      BY Zenon, <1>4, <2>2, <2>5 DEF T!CasRefill
    <3>2. tokens' \in 0..T!capacity /\ credited' \in Nat
      BY <1>0, <2>2, <3>1, HedgeSizes
    <3>3. T!TypeOK'
      BY Zenon, <1>0, <2>4, <3>1, <3>2 DEF T!TypeOK, T!Labels
    <3>4. HedgeTimes'
      BY Zenon, <1>0, <2>1, <2>4, <3>1 DEF HedgeTimes
    <3>5. spent + tokens' = T!capacity + credited'
      BY <1>0, <2>2, <2>3, <2>5, <3>1, HedgeSizes DEF T!TokensConserved
    <3>6. QED
      BY <1>0, <2>3, <2>4, <3>3, <3>4, <3>5 DEF HedgeInv, T!TokensConserved
  <2>6. CASE tokens # cur[g]
    <3>1. at' = [at EXCEPT ![g] = "loadRefill"] /\ UNCHANGED <<tokens, credited>>
      BY Zenon, <1>4, <2>6 DEF T!CasRefill
    <3>2. QED
      BY <1>0, <2>1, <2>4, <3>1 DEF HedgeInv, T!TypeOK, HedgeTimes, T!TokensConserved, T!Labels
  <2>7. QED
    BY Zenon, <2>5, <2>6
<1>5. ASSUME NEW g \in Goroutines, T!CasLast(g) PROVE HedgeInv' /\ lastRefill' >= lastRefill
  <2>1. last[g] < now[g] /\ now[g] <= clock
    BY Zenon, <1>0, <1>5 DEF T!CasLast, HedgeTimes
  <2>2. lastRefill' = lastRefill \/ (lastRefill = last[g] /\ lastRefill' = now[g])
    BY Zenon, <1>5 DEF T!CasLast
  <2>3. lastRefill' \in Nat /\ lastRefill' >= lastRefill /\ lastRefill' <= clock
    BY <1>0, <2>1, <2>2 DEF HedgeTimes
  <2>4. at' = [at EXCEPT ![g] = "loadTake"] /\ UNCHANGED <<tokens, clock, now, last, cur, granted, credited>>
    BY Zenon, <1>5 DEF T!CasLast
  <2>5. QED
    BY Zenon, <1>0, <2>3, <2>4 DEF HedgeInv, T!TypeOK, HedgeTimes, T!TokensConserved, T!Labels
<1>6. ASSUME NEW g \in Goroutines, T!LoadTake(g) PROVE HedgeInv' /\ lastRefill' >= lastRefill
  <2>1. UNCHANGED <<tokens, lastRefill, clock, granted, credited>>
    BY Zenon, <1>6 DEF T!LoadTake
  <2>2. CASE tokens < OneToken
    BY <1>0, <1>6, <2>1, <2>2, HedgeSizes
       DEF T!LoadTake, T!Return, HedgeInv, T!TypeOK, HedgeTimes, T!TokensConserved, T!Labels
  <2>3. CASE ~(tokens < OneToken)
    BY <1>0, <1>6, <2>1, <2>3, HedgeSizes
       DEF T!LoadTake, HedgeInv, T!TypeOK, HedgeTimes, T!TokensConserved, T!Labels
  <2>4. QED
    BY Zenon, <2>2, <2>3
<1>7. ASSUME NEW g \in Goroutines, T!CasTake(g) PROVE HedgeInv' /\ lastRefill' >= lastRefill
  <2>1. cur[g] >= OneToken /\ cur[g] \in 0..T!capacity
    BY Zenon, <1>0, <1>7 DEF T!CasTake, HedgeTimes
  <2>2. UNCHANGED <<lastRefill, clock, credited>>
    BY Zenon, <1>7 DEF T!CasTake
  <2>3. CASE tokens = cur[g]
    <3>1. tokens' = cur[g] - OneToken /\ granted' = granted + 1 /\ T!Return(g)
      BY Zenon, <1>7, <2>3 DEF T!CasTake
    <3>2. tokens' \in 0..T!capacity /\ granted' \in Nat
      BY <1>0, <2>1, <3>1, HedgeSizes
    <3>3. T!TypeOK'
      BY <1>0, <2>2, <3>1, <3>2, HedgeSizes DEF T!TypeOK, T!Labels, T!Return
    <3>4. HedgeTimes'
      BY <1>0, <2>2, <3>1 DEF HedgeTimes, T!Return
    <3>5. granted' * OneToken = granted * OneToken + OneToken
      BY <1>0, <3>1, HedgeSizes
    <3>6. PICK spent \in Nat : spent = granted * OneToken
      BY Zenon, <1>0, HedgeSizes, ProductNat
    <3>7. spent + OneToken + tokens' = T!capacity + credited'
      BY <1>0, <2>1, <2>2, <2>3, <3>1, <3>6, HedgeSizes DEF T!TokensConserved
    <3>8. T!TokensConserved'
      BY Zenon, <3>5, <3>6, <3>7 DEF T!TokensConserved
    <3>9. QED
      BY <1>0, <2>2, <3>3, <3>4, <3>8 DEF HedgeInv
  <2>4. CASE tokens # cur[g]
    <3>1. at' = [at EXCEPT ![g] = "loadTake"] /\ UNCHANGED <<tokens, granted, now, last, cur>>
      BY Zenon, <1>7, <2>4 DEF T!CasTake
    <3>2. QED
      BY <1>0, <2>2, <3>1 DEF HedgeInv, T!TypeOK, HedgeTimes, T!TokensConserved, T!Labels
  <2>5. QED
    BY Zenon, <2>3, <2>4
<1>8. CASE T!Tick
  BY <1>0, <1>8 DEF T!Tick, HedgeInv, T!TypeOK, HedgeTimes, T!TokensConserved
<1>9. CASE UNCHANGED T!vars
  BY <1>0, <1>9 DEF T!vars, HedgeInv, T!TypeOK, HedgeTimes, T!TokensConserved
<1>10. QED
  BY Zenon, <1>1, <1>2, <1>3, <1>4, <1>5, <1>6, <1>7, <1>8, <1>9 DEF T!Next, T!Continue

\* The bucket of a hedging client, in a behaviour of any of the buckets.
LEMMA HedgeInvariant == BucketsSpec => [](which = "hedge" => HedgeInv)
<1>1. BucketsInit => (which = "hedge" => HedgeInv)
  <2> SUFFICES ASSUME T!Init PROVE HedgeInv
    BY Zenon DEF BucketsInit
  <2>1. 0 * OneToken = 0
    BY HedgeSizes
  <2>2. QED
    BY <2>1, HedgeSizes DEF T!Init, HedgeInv, T!TypeOK, HedgeTimes, T!TokensConserved, T!Labels
<1>2. (which = "hedge" => HedgeInv) /\ [BucketsNext]_bucketsVars => (which = "hedge" => HedgeInv)'
  <2> SUFFICES ASSUME which = "hedge" => HedgeInv, [BucketsNext]_bucketsVars, which' = "hedge"
               PROVE  HedgeInv'
    OBVIOUS
  <2>1. which = "hedge" /\ [T!Next]_(T!vars)
    BY Zenon DEF BucketsNext, HedgeStep, ClientStep, RedisStep, bucketsVars, common, hedgeOnly, T!vars
  <2>2. QED
    BY Zenon, <2>1, HedgeStepKeeps
<1>3. QED
  BY <1>1, <1>2, PTL DEF BucketsSpec

\* No call of Consume gets a token that another one got, and no refill is lost.
THEOREM HedgeTokensAreConserved == BucketsSpec => []HedgeTokensConserved
<1>1. (which = "hedge" => HedgeInv) => HedgeTokensConserved
  BY Zenon DEF HedgeInv, HedgeTokensConserved
<1>2. QED
  BY <1>1, HedgeInvariant, PTL

\* The swap of lastRefill in Consume moves it forward only, and never past
\* the clock.
THEOREM HedgeRefillTimeNeverGoesBack == BucketsSpec => HedgeRefillTimeAdvances
<1> DEFINE A == which = "hedge" => lastRefill' >= lastRefill /\ lastRefill' <= clock
<1>1. (which = "hedge" => HedgeInv) /\ [BucketsNext]_bucketsVars => [A]_bucketsVars
  <2>1. SUFFICES ASSUME HedgeInv, which = "hedge", BucketsNext
                 PROVE  lastRefill' >= lastRefill /\ lastRefill' <= clock
    OBVIOUS
  <2>2. T!Next
    BY Zenon, <2>1 DEF BucketsNext, HedgeStep, ClientStep, RedisStep
  <2>3. HedgeInv' /\ lastRefill' >= lastRefill
    BY Zenon, <2>1, <2>2, HedgeStepKeeps
  <2>4. CASE clock' = clock
    BY Zenon, <2>3, <2>4 DEF HedgeInv, HedgeTimes
  <2>5. CASE T!Tick
    BY <2>1, <2>5 DEF T!Tick, HedgeInv, HedgeTimes, T!TypeOK
  <2>6. clock' = clock \/ T!Tick
    BY Zenon, <2>2 DEF T!Next, T!Continue, T!ReadNow, T!LoadLast, T!LoadRefill, T!CasRefill, T!CasLast, T!LoadTake,
                T!CasTake, T!bucketVars
  <2>7. QED
    BY Zenon, <2>3, <2>4, <2>5, <2>6
<1>2. QED
  BY <1>1, HedgeInvariant, PTL DEF BucketsSpec, HedgeRefillTimeAdvances

\* The bucket of a hedging client never holds less than nothing or more than its
\* capacity, whatever calls interleave.
THEOREM HedgeTypeCorrect == BucketsSpec => [](which = "hedge" => T!TypeOK)
<1>1. (which = "hedge" => HedgeInv) => (which = "hedge" => T!TypeOK)
  BY Zenon DEF HedgeInv
<1>2. QED
  BY <1>1, HedgeInvariant, PTL

-----------------------------------------------------------------------------
(* How often calls of Consume refill for the same moment.                  *)
(*                                                                         *)
(* A moment m is the unit of time that ends at m.  A call covers it when   *)
(* it loaded a lastRefill before m and read a time not before it.  Who has *)
(* refilled for m pays with a mark: with its own, <<g, g>>, as long as its *)
(* swap of lastRefill is still to come or has moved lastRefill past m; and *)
(* when that swap fails and leaves lastRefill before m, so that g may      *)
(* cover m again, with <<g, h>> instead, where h is a call that moved      *)
(* lastRefill meanwhile.  h had read a time before m, and does so once     *)
(* only: later it reads a later time.  So g never pays with the same h     *)
(* twice, and never with <<g, h>> when h has paid with <<h, g>>.           *)

Mark(g, h, m) == <<<<g, h>>, m>>

Marks(c) == (Goroutines \X Goroutines) \X (1..c)

\* Products of integers: distributive, commutative and monotone.
LEMMA Products ==
    \A a, b, c \in Int : /\ a * b \in Int
                         /\ a * (b + c) = a * b + a * c
                         /\ a * b = b * a
                         /\ a >= 0 /\ b <= c => a * b <= a * c
OBVIOUS

\* A mark determines its goroutines and its moment.
LEMMA MarkEqual == \A g, h, m, x, y, n : Mark(g, h, m) = Mark(x, y, n) <=> g = x /\ h = y /\ m = n
BY DEF Mark

\* The marks of the first c moments.
LEMMA MarkIn ==
    \A c \in Nat : \A g, h, m : Mark(g, h, m) \in Marks(c) <=> g \in Goroutines /\ h \in Goroutines /\ m \in 1..c
BY DEF Mark, Marks

\* Every element of Marks is a mark.
LEMMA MarkOf ==
    ASSUME NEW c \in Nat, NEW p \in Marks(c)
    PROVE  \E g, h \in Goroutines : \E m \in 1..c : p = Mark(g, h, m)
BY DEF Mark, Marks

\* There are finitely many marks, n * n for each moment.
LEMMA MarksFinite ==
    ASSUME NEW c \in Nat, NEW C \in SUBSET Marks(c)
    PROVE  /\ IsFiniteSet(C) /\ Cardinality(C) \in Nat
           /\ Cardinality(C) <= Cardinality(Marks(c))
           /\ Cardinality(Marks(c)) = Cardinality(Goroutines) * Cardinality(Goroutines) * c
           /\ Cardinality(Marks(c)) \in Nat
<1>1. IsFiniteSet(1..c) /\ Cardinality(1..c) = c
  BY FS_Interval
<1>2. IsFiniteSet(Goroutines \X Goroutines)
      /\ Cardinality(Goroutines \X Goroutines) = Cardinality(Goroutines) * Cardinality(Goroutines)
  BY Zenon, FS_Product, SizesAssumption
<1>3. IsFiniteSet(Marks(c))
      /\ Cardinality(Marks(c)) = Cardinality(Goroutines) * Cardinality(Goroutines) * c
  <2> DEFINE GG == Goroutines \X Goroutines
             I == 1..c
  <2>1. IsFiniteSet(GG) /\ Cardinality(GG) = Cardinality(Goroutines) * Cardinality(Goroutines)
    BY Zenon, <1>2
  <2>2. IsFiniteSet(I) /\ Cardinality(I) = c /\ Marks(c) = GG \X I
    BY Zenon, <1>1 DEF Marks
  <2> HIDE DEF GG, I
  <2>3. IsFiniteSet(GG \X I) /\ Cardinality(GG \X I) = Cardinality(GG) * Cardinality(I)
    BY Zenon, <2>1, <2>2, FS_Product
  <2>4. QED
    BY <2>1, <2>2, <2>3
<1>4. QED
  BY Zenon, <1>3, FS_Subset, FS_CardinalityType

\* The moments after a, up to b, with the mark that w gives for each.
Column(g, w, a, b) == {Mark(g, w[m], m) : m \in a + 1..b}

\* The marks in a column.
LEMMA ColumnMarks ==
    ASSUME NEW g, NEW w, NEW a \in Nat, NEW b \in Nat
    PROVE  \A x, y, m : Mark(x, y, m) \in Column(g, w, a, b) <=>
                          m \in Nat /\ a < m /\ m <= b /\ x = g /\ y = w[m]
<1> DEFINE I == a + 1..b
<1>1. \A m : m \in I <=> m \in Nat /\ a < m /\ m <= b
  OBVIOUS
<1>2. Column(g, w, a, b) = {Mark(g, w[n], n) : n \in I}
  BY Zenon DEF Column
<1> HIDE DEF I
<1>3. ASSUME NEW x, NEW y, NEW m
      PROVE  Mark(x, y, m) \in Column(g, w, a, b) <=> m \in I /\ x = g /\ y = w[m]
  BY <1>2, MarkEqual
<1>4. QED
  BY Zenon, <1>1, <1>3

\* A column has one mark for each moment.
LEMMA ColumnSize ==
    ASSUME NEW g \in Goroutines, NEW w \in [Nat -> Goroutines],
           NEW a \in Nat, NEW b \in Nat, NEW c \in Nat, a <= b, b <= c
    PROVE  /\ IsFiniteSet(Column(g, w, a, b)) /\ Cardinality(Column(g, w, a, b)) = b - a
           /\ Column(g, w, a, b) \in SUBSET Marks(c)
<1> DEFINE I == a + 1..b
           S == Column(g, w, a, b)
           f == [m \in I |-> Mark(g, w[m], m)]
<1>1. IsFiniteSet(I) /\ Cardinality(I) = b - a
  <2>1. a + 1 \in Int /\ b \in Int
    OBVIOUS
  <2>2. IsFiniteSet(I) /\ Cardinality(I) = IF a + 1 > b THEN 0 ELSE b - (a + 1) + 1
    BY <2>1, FS_Interval, Zenon
  <2> HIDE DEF I
  <2>3. QED
    BY <2>2
<1>2. f \in Bijection(I, S)
  <2>1. S = {Mark(g, w[m], m) : m \in I}
    BY Zenon DEF Column
  <2> HIDE DEF I, S
  <2>2. f \in [I -> S] /\ \A p \in S : \E m \in I : f[m] = p
    BY Zenon, <2>1
  <2>3. \A m, n \in I : f[m] = f[n] => m = n
    BY MarkEqual
  <2> HIDE DEF f
  <2>4. QED
    BY <2>2, <2>3 DEF Bijection, Injection, Surjection, IsInjective
<1>3. IsFiniteSet(S) /\ Cardinality(S) = b - a
  <2> HIDE DEF I, S, f
  <2>1. ExistsBijection(I, S)
    BY Zenon, <1>2 DEF ExistsBijection
  <2>2. QED
    BY Zenon, <1>1, <2>1, FS_Bijection
<1>4. ASSUME NEW m \in I PROVE Mark(g, w[m], m) \in Marks(c)
  <2>1. m \in 1..c /\ m \in Nat
    OBVIOUS
  <2>2. w[m] \in Goroutines
    BY Zenon, <2>1
  <2>3. QED
    BY <2>1, <2>2, MarkIn, Zenon
<1>5. S \in SUBSET Marks(c)
  BY Zenon, <1>4 DEF Column
<1>6. QED
  BY Zenon, <1>3, <1>5

\* g has no mark of its own in C for the moments after a, up to b; D adds these.
Unmarked(C, g, a, b) == \A m \in Nat : a < m /\ m <= b => Mark(g, g, m) \notin C

Added(C, D, g, a, b) ==
    \A x, y \in Goroutines, m \in Nat :
        Mark(x, y, m) \in D <=> Mark(x, y, m) \in C \/ (x = g /\ y = g /\ a < m /\ m <= b)

\* Marks of its own can be added for g, one for each moment.
LEMMA OwnMarks ==
    ASSUME NEW c \in Nat, NEW C \in SUBSET Marks(c), NEW g \in Goroutines,
           NEW a \in Nat, NEW b \in Nat, a <= b, b <= c,
           Unmarked(C, g, a, b)
    PROVE  \E D \in SUBSET Marks(c) : Cardinality(D) = Cardinality(C) + (b - a) /\ Added(C, D, g, a, b)
<1> DEFINE w == [m \in Nat |-> g]
           S == Column(g, w, a, b)
           D == C \cup S
<1>1. w \in [Nat -> Goroutines]
  OBVIOUS
<1>2. IsFiniteSet(S) /\ Cardinality(S) = b - a /\ S \in SUBSET Marks(c)
  <2> HIDE DEF w
  <2>1. QED
    BY <1>1, ColumnSize, Zenon
<1>3. \A x, y, m : Mark(x, y, m) \in S <=> m \in Nat /\ a < m /\ m <= b /\ x = g /\ y = g
  <2>1. \A m \in Nat : w[m] = g
    OBVIOUS
  <2> HIDE DEF w
  <2>2. \A x, y, m : Mark(x, y, m) \in S <=> m \in Nat /\ a < m /\ m <= b /\ x = g /\ y = w[m]
    BY ColumnMarks, SMT
  <2> HIDE DEF S
  <2>3. QED
    BY Zenon, <2>1, <2>2
<1> HIDE DEF S
<1>4. C \cap S = {}
  <2> SUFFICES ASSUME NEW p \in S, p \in C PROVE FALSE
    BY Zenon
  <2>1. p \in Marks(c)
    BY Zenon, <1>2
  <2>2. PICK x \in Goroutines, y \in Goroutines, m \in 1..c : p = Mark(x, y, m)
    BY <2>1, MarkOf
  <2>3. QED
    BY Zenon, <1>3, <2>2 DEF Unmarked
<1>5. Cardinality(D) = Cardinality(C) + (b - a)
  <2>1. IsFiniteSet(C) /\ Cardinality(C) \in Nat
    BY Zenon, MarksFinite
  <2>2. Cardinality(C \cap S) = 0
    BY Zenon, <1>4, FS_EmptySet
  <2>3. Cardinality(D) = Cardinality(C) + Cardinality(S) - Cardinality(C \cap S)
    BY Zenon, <1>2, <2>1, FS_Union
  <2> HIDE DEF D
  <2>4. QED
    BY <1>2, <2>1, <2>2, <2>3
<1>6. D \in SUBSET Marks(c)
  BY Zenon, <1>2
<1>7. Added(C, D, g, a, b)
  BY Zenon, <1>3 DEF Added
<1> HIDE DEF D
<1>8. QED
  BY Zenon, <1>5, <1>6, <1>7

\* The marks of w are free for g, and D has them in the place of those of its own.
Unused(C, g, w, a, b) ==
    \A m \in Nat : a < m /\ m <= b => w[m] # g /\ Mark(g, w[m], m) \notin C

Replaced(C, D, g, w, a, b) ==
    \A x, y \in Goroutines, m \in Nat :
        Mark(x, y, m) \in D <=>
            \/ Mark(x, y, m) \in C /\ ~(x = g /\ y = g /\ a < m /\ m <= b)
            \/ x = g /\ y = w[m] /\ a < m /\ m <= b

\* The marks of g can be replaced without a loss.
LEMMA MarksReplaced ==
    ASSUME NEW c \in Nat, NEW C \in SUBSET Marks(c), NEW g \in Goroutines,
           NEW w \in [Nat -> Goroutines],
           NEW a \in Nat, NEW b \in Nat, a <= b, b <= c,
           Unused(C, g, w, a, b)
    PROVE  \E D \in SUBSET Marks(c) : Cardinality(D) >= Cardinality(C) /\ Replaced(C, D, g, w, a, b)
<1> DEFINE own == [m \in Nat |-> g]
           Q == Column(g, own, a, b)
           S == Column(g, w, a, b)
           K == C \ Q
           D == K \cup S
<1>1. own \in [Nat -> Goroutines]
  OBVIOUS
<1>2. IsFiniteSet(Q) /\ Cardinality(Q) = b - a
  <2> HIDE DEF own
  <2>1. QED
    BY <1>1, ColumnSize, SMT
<1>3. \A x, y, m : Mark(x, y, m) \in Q <=> m \in Nat /\ a < m /\ m <= b /\ x = g /\ y = g
  <2>1. \A m \in Nat : own[m] = g
    OBVIOUS
  <2> HIDE DEF own
  <2>2. \A x, y, m : Mark(x, y, m) \in Q <=> m \in Nat /\ a < m /\ m <= b /\ x = g /\ y = own[m]
    BY ColumnMarks, SMT
  <2> HIDE DEF Q
  <2>3. QED
    BY Zenon, <2>1, <2>2
<1>4. /\ IsFiniteSet(S) /\ Cardinality(S) = b - a /\ S \in SUBSET Marks(c)
      /\ \A x, y, m : Mark(x, y, m) \in S <=> m \in Nat /\ a < m /\ m <= b /\ x = g /\ y = w[m]
  <2>1. IsFiniteSet(S) /\ Cardinality(S) = b - a /\ S \in SUBSET Marks(c)
    BY ColumnSize, Zenon
  <2>2. \A x, y, m : Mark(x, y, m) \in S <=> m \in Nat /\ a < m /\ m <= b /\ x = g /\ y = w[m]
    BY ColumnMarks, SMT
  <2>3. QED
    BY Zenon, <2>1, <2>2
<1> HIDE DEF Q, S
<1>5. K \cap S = {}
  <2> SUFFICES ASSUME NEW p \in S, p \in C PROVE FALSE
    BY Zenon
  <2>1. p \in Marks(c)
    BY Zenon, <1>4
  <2>2. PICK x \in Goroutines, y \in Goroutines, m \in 1..c : p = Mark(x, y, m)
    BY <2>1, MarkOf
  <2>3. QED
    BY Zenon, <1>4, <2>2 DEF Unused
<1>6. Cardinality(D) >= Cardinality(C)
  <2>1. IsFiniteSet(C) /\ Cardinality(C) \in Nat
    BY Zenon, MarksFinite
  <2>2. IsFiniteSet(K) /\ Cardinality(K) = Cardinality(C) - Cardinality(C \cap Q)
    BY Zenon, <2>1, FS_Difference
  <2>3. Cardinality(C \cap Q) <= Cardinality(Q) /\ Cardinality(C \cap Q) \in Nat
    BY Zenon, <1>2, FS_Intersection, FS_CardinalityType
  <2> HIDE DEF K
  <2>4. Cardinality(K \cap S) = 0
    BY Zenon, <1>5, FS_EmptySet
  <2>5. Cardinality(D) = Cardinality(K) + Cardinality(S) - Cardinality(K \cap S)
    BY Zenon, <1>4, <2>2, FS_Union
  <2> HIDE DEF D
  <2>6. QED
    BY <1>2, <1>4, <2>1, <2>2, <2>3, <2>4, <2>5
<1>7. D \in SUBSET Marks(c)
  BY Zenon, <1>4
<1>8. Replaced(C, D, g, w, a, b)
  BY Zenon, <1>3, <1>4 DEF Replaced
<1> HIDE DEF D
<1>9. QED
  BY Zenon, <1>6, <1>7, <1>8

\* Of the marks <<g, h>> and <<h, g>> for a moment one is used at most.
OneWay(C) ==
    \A g, h \in Goroutines : \A m \in Nat : g # h /\ Mark(g, h, m) \in C => Mark(h, g, m) \notin C

Swapped(p) == Mark(p[1][2], p[1][1], p[2])

\* Swapping exchanges the two goroutines of a mark.
LEMMA SwappedMark == \A g, h, m : Swapped(Mark(g, h, m)) = Mark(h, g, m)
BY DEF Swapped, Mark

\* So there are at most n * (n + 1) / 2 marks for each moment.
LEMMA MarksCount ==
    ASSUME NEW c \in Nat, NEW C \in SUBSET Marks(c), OneWay(C)
    PROVE  LET n == Cardinality(Goroutines) IN 2 * Cardinality(C) <= n * (n + 1) * c
<1> DEFINE n == Cardinality(Goroutines)
           I == 1..c
           GI == Goroutines \X I
           own == [q \in GI |-> Mark(q[1], q[1], q[2])]
           K == {own[q] : q \in GI}
           D == C \ K
           sw == [p \in D |-> Swapped(p)]
           S == {sw[p] : p \in D}
<1>1. IsFiniteSet(I) /\ Cardinality(I) = c /\ n \in Nat
  <2>1. IsFiniteSet(I) /\ Cardinality(I) = c
    BY FS_Interval
  <2>2. n \in Nat
    BY Zenon, FS_CardinalityType, SizesAssumption
  <2>3. QED
    BY Zenon, <2>1, <2>2
<1>2. IsFiniteSet(K) /\ Cardinality(K) <= n * c
  <2>1. IsFiniteSet(GI) /\ Cardinality(GI) = n * c
    <3> HIDE DEF I
    <3>1. IsFiniteSet(GI) /\ Cardinality(GI) = Cardinality(Goroutines) * Cardinality(I)
      BY Zenon, <1>1, FS_Product, SizesAssumption
    <3>2. QED
      BY Zenon, <1>1, <3>1
  <2> HIDE DEF GI
  <2>2. own \in [GI -> K] /\ \A t \in K : \E q \in GI : own[q] = t
    BY Zenon
  <2> HIDE DEF own, K
  <2>3. own \in Surjection(GI, K)
    BY <2>2 DEF Surjection
  <2>4. IsFiniteSet(K) /\ Cardinality(K) <= Cardinality(GI)
    BY Zenon, <2>1, <2>3, FS_Surjection
  <2>5. QED
    BY Zenon, <2>1, <2>4
<1>3. \A g \in Goroutines : \A m \in I : Mark(g, g, m) \in K
  <2> SUFFICES ASSUME NEW g \in Goroutines, NEW m \in I PROVE Mark(g, g, m) \in K
    OBVIOUS
  <2>1. <<g, m>> \in GI
    BY Zenon
  <2> HIDE DEF GI
  <2>2. own[<<g, m>>] = Mark(g, g, m)
    BY <2>1
  <2> HIDE DEF own
  <2>3. QED
    BY Zenon, <2>1, <2>2
<1>4. IsFiniteSet(C) /\ Cardinality(C) \in Nat
  BY Zenon, MarksFinite
<1> HIDE DEF K
<1>5. ASSUME NEW p \in D
      PROVE  \E g \in Goroutines, h \in Goroutines, m \in I :
                g # h /\ m \in Nat /\ p = Mark(g, h, m) /\ Swapped(p) = Mark(h, g, m)
  <2>1. p \in Marks(c)
    BY Zenon
  <2>2. PICK g \in Goroutines, h \in Goroutines, m \in I : p = Mark(g, h, m)
    BY <2>1, MarkOf
  <2>3. g # h
    BY Zenon, <1>3, <2>2
  <2>4. m \in Nat
    OBVIOUS
  <2> HIDE DEF D, I
  <2>5. Swapped(p) = Mark(h, g, m)
    BY Zenon, <2>2, SwappedMark
  <2>6. QED
    BY Zenon, <2>2, <2>3, <2>4, <2>5
<1>6. IsFiniteSet(D) /\ Cardinality(D) = Cardinality(C) - Cardinality(C \cap K) /\ Cardinality(D) \in Nat
  BY Zenon, <1>4, FS_Difference, FS_CardinalityType
<1>7. Cardinality(C \cap K) <= Cardinality(K) /\ Cardinality(C \cap K) \in Nat /\ Cardinality(K) \in Nat
  BY Zenon, <1>2, FS_Intersection, FS_CardinalityType
<1>8. S \in SUBSET Marks(c) /\ C \cap S = {}
  <2> SUFFICES ASSUME NEW p \in D PROVE Swapped(p) \in Marks(c) /\ Swapped(p) \notin C
    BY Zenon
  <2>1. PICK g \in Goroutines, h \in Goroutines, m \in I :
              g # h /\ m \in Nat /\ p = Mark(g, h, m) /\ Swapped(p) = Mark(h, g, m)
    BY Zenon, <1>5
  <2>2. Mark(h, g, m) \in Marks(c)
    BY <2>1, MarkIn
  <2>3. p \in C
    BY Zenon
  <2> HIDE DEF D, I
  <2>4. QED
    BY Zenon, <2>1, <2>2, <2>3 DEF OneWay
<1>9. IsFiniteSet(S) /\ Cardinality(S) = Cardinality(D)
  <2>1. ASSUME NEW p \in D, NEW q \in D, Swapped(p) = Swapped(q) PROVE p = q
    <3> HIDE DEF D, I
    <3>1. PICK g \in Goroutines, h \in Goroutines, m \in I :
                g # h /\ m \in Nat /\ p = Mark(g, h, m) /\ Swapped(p) = Mark(h, g, m)
      BY Zenon, <1>5
    <3>2. PICK x \in Goroutines, y \in Goroutines, k \in I :
                x # y /\ k \in Nat /\ q = Mark(x, y, k) /\ Swapped(q) = Mark(y, x, k)
      BY Zenon, <1>5
    <3>3. Mark(h, g, m) = Mark(y, x, k)
      BY Zenon, <2>1, <3>1, <3>2
    <3>4. h = y /\ g = x /\ m = k
      BY <3>3, MarkEqual
    <3>5. QED
      BY Zenon, <3>1, <3>2, <3>4
  <2> HIDE DEF D
  <2>2. sw \in [D -> S] /\ (\A s \in S : \E p \in D : sw[p] = s) /\ \A p, q \in D : sw[p] = sw[q] => p = q
    BY Zenon, <2>1
  <2> HIDE DEF sw, S
  <2>3. sw \in Bijection(D, S)
    BY <2>2 DEF Bijection, Injection, Surjection, IsInjective
  <2>4. ExistsBijection(D, S)
    BY Zenon, <2>3 DEF ExistsBijection
  <2>5. QED
    BY Zenon, <1>6, <2>4, FS_Bijection
<1>10. Cardinality(C \cup S) = Cardinality(C) + Cardinality(D) /\ Cardinality(C \cup S) <= n * n * c
  <2> HIDE DEF S, D
  <2>1. C \cup S \in SUBSET Marks(c)
    BY Zenon, <1>8
  <2>2. Cardinality(C \cup S) <= n * n * c
    <3>1. Cardinality(C \cup S) <= Cardinality(Marks(c)) /\ Cardinality(Marks(c)) = n * n * c
      BY <2>1, MarksFinite, Zenon
    <3>2. QED
      BY Zenon, <3>1
  <2>3. Cardinality(C \cap S) = 0
    BY Zenon, <1>8, FS_EmptySet
  <2>4. Cardinality(C \cup S) = Cardinality(C) + Cardinality(S) - Cardinality(C \cap S)
    BY Zenon, <1>4, <1>9, FS_Union
  <2>5. QED
    BY <1>4, <1>6, <1>9, <2>2, <2>3, <2>4
<1> HIDE DEF S, D, n
<1>11. n * c \in Nat /\ n * n * c \in Nat /\ n * (n + 1) * c = n * n * c + n * c
  BY <1>1
<1>12. 2 * Cardinality(C) <= n * (n + 1) * c
  BY <1>2, <1>4, <1>6, <1>7, <1>10, <1>11
<1>13. QED
  BY <1>12, Zenon DEF n

Loop == {"loadRefill", "casRefill"}
Flight == Loop \cup {"casLast"}
Begun == Flight \cup {"loadLast"}

Covers(g, m) == last[g] < m /\ m <= now[g]

\* g may still refill for m: in the loop it is in, or in one to come.
MayCover(g, m) ==
    \/ at[g] \in Loop /\ Covers(g, m)
    \/ lastRefill < m /\ ~(at[g] = "casLast" /\ Covers(g, m))

\* g read a time before m, and has not yet come past the swap of lastRefill.
Slow(g, m) == at[g] \in Begun /\ now[g] < m

\* While g refills for m, lastRefill moved, but not up to m.
Overtaken(g, m) == at[g] \in Flight /\ last[g] < lastRefill /\ lastRefill < m /\ m <= now[g]

OwnFree(C) == \A g \in Goroutines : \A m \in Nat : MayCover(g, m) => Mark(g, g, m) \notin C

SlowFree(C) ==
    \A g, h \in Goroutines : \A m \in Nat : Slow(h, m) => Mark(g, h, m) \notin C /\ Mark(h, g, m) \notin C

\* W[g][m] moved lastRefill while g was on its way, and g has not paid with it.
Witnessed(C, W) ==
    \A g \in Goroutines : \A m \in Nat :
        Overtaken(g, m) =>
            /\ W[g][m] # g /\ ~Slow(W[g][m], m)
            /\ Mark(g, W[g][m], m) \notin C /\ Mark(W[g][m], g, m) \notin C
            /\ Overtaken(W[g][m], m) => W[W[g][m]][m] # g

Accounted(C, W) == OwnFree(C) /\ SlowFree(C) /\ OneWay(C) /\ Witnessed(C, W)

Witnesses == [Goroutines -> [Nat -> Goroutines]]

\* A witness is a goroutine.
LEMMA WitnessIs == ASSUME NEW W \in Witnesses PROVE \A g \in Goroutines : \A m \in Nat : W[g][m] \in Goroutines
BY Zenon DEF Witnesses

LoadedBefore == \A g \in Goroutines : at[g] \in Flight => last[g] <= lastRefill

HedgePaid ==
    /\ LoadedBefore
    /\ \E C \in SUBSET Marks(clock) : \E W \in Witnesses :
          Accounted(C, W) /\ credited <= T!refillRate * Cardinality(C)

\* A step that lets nobody cover more.
LEMMA AccountKept ==
    ASSUME NEW c \in Nat, NEW C \in SUBSET Marks(c), NEW W \in Witnesses, Accounted(C, W),
           \A g \in Goroutines : \A m \in Nat :
               /\ MayCover(g, m)' => MayCover(g, m)
               /\ Slow(g, m)' => Slow(g, m) \/ m > c
               /\ Overtaken(g, m)' => Overtaken(g, m) /\ ~(m > c)
    PROVE  Accounted(C, W)'
<1>1. \A g, h \in Goroutines : \A m \in Nat : m > c => Mark(g, h, m) \notin C
  <2> SUFFICES ASSUME NEW g \in Goroutines, NEW h \in Goroutines, NEW m \in Nat, m > c, Mark(g, h, m) \in C
               PROVE FALSE
    BY Zenon
  <2>1. m \in 1..c
    BY MarkIn
  <2>2. QED
    BY <2>1
<1>2. \A g \in Goroutines : \A m \in Nat : W[g][m] \in Goroutines
  BY Zenon DEF Witnesses
<1>3. OwnFree(C)'
  BY Zenon DEF Accounted, OwnFree
<1>4. SlowFree(C)'
  BY Zenon, <1>1 DEF Accounted, SlowFree
<1>5. OneWay(C)'
  BY Zenon DEF Accounted, OneWay
<1>6. Witnessed(C, W)'
  BY Zenon, <1>2 DEF Accounted, Witnessed
<1>7. QED
  BY Zenon, <1>3, <1>4, <1>5, <1>6 DEF Accounted

\* g refills for the moments it covers.
LEMMA AccountRefill ==
    ASSUME NEW C, NEW D, NEW W \in Witnesses, Accounted(C, W), NEW g \in Goroutines,
           \A x, y \in Goroutines, m \in Nat :
               Mark(x, y, m) \in D <=> Mark(x, y, m) \in C \/ (x = g /\ y = g /\ Covers(g, m)),
           \A m \in Nat : Covers(g, m) => ~Slow(g, m),
           \A x \in Goroutines : \A m \in Nat :
               /\ MayCover(x, m)' => MayCover(x, m) /\ ~(x = g /\ Covers(g, m))
               /\ Slow(x, m)' => Slow(x, m)
               /\ Overtaken(x, m)' => Overtaken(x, m)
    PROVE  Accounted(D, W)'
<1>1. \A x \in Goroutines : \A m \in Nat : W[x][m] \in Goroutines
  BY Zenon DEF Witnesses
<1>2. OwnFree(D)'
  BY Zenon DEF Accounted, OwnFree
<1>3. SlowFree(D)'
  <2> SUFFICES ASSUME NEW x \in Goroutines, NEW h \in Goroutines, NEW m \in Nat, Slow(h, m)'
               PROVE  Mark(x, h, m) \notin D /\ Mark(h, x, m) \notin D
    BY Zenon DEF SlowFree
  <2>1. Slow(h, m) /\ ~(h = g /\ Covers(g, m))
    BY Zenon
  <2>2. Mark(x, h, m) \notin C /\ Mark(h, x, m) \notin C
    BY Zenon, <2>1 DEF Accounted, SlowFree
  <2>3. QED
    BY Zenon, <2>1, <2>2
<1>4. OneWay(D)'
  <2> SUFFICES ASSUME NEW x \in Goroutines, NEW y \in Goroutines, NEW m \in Nat, x # y,
                      Mark(x, y, m) \in D, Mark(y, x, m) \in D
               PROVE  FALSE
    BY Zenon DEF OneWay
  <2>1. Mark(x, y, m) \in C /\ Mark(y, x, m) \in C
    BY Zenon
  <2>2. QED
    BY Zenon, <2>1 DEF Accounted, OneWay
<1>5. Witnessed(D, W)'
  <2> SUFFICES ASSUME NEW x \in Goroutines, NEW m \in Nat, Overtaken(x, m)'
               PROVE  /\ W[x][m] # x /\ ~Slow(W[x][m], m)'
                      /\ Mark(x, W[x][m], m) \notin D /\ Mark(W[x][m], x, m) \notin D
                      /\ Overtaken(W[x][m], m)' => W[W[x][m]][m] # x
    BY Zenon DEF Witnessed
  <2>1. Overtaken(x, m) /\ W[x][m] \in Goroutines
    BY Zenon, <1>1
  <2>2. /\ W[x][m] # x /\ ~Slow(W[x][m], m) /\ Mark(x, W[x][m], m) \notin C /\ Mark(W[x][m], x, m) \notin C
        /\ Overtaken(W[x][m], m) => W[W[x][m]][m] # x
    BY Zenon, <2>1 DEF Accounted, Witnessed
  <2>3. Mark(x, W[x][m], m) \notin D /\ Mark(W[x][m], x, m) \notin D
    BY Zenon, <2>1, <2>2
  <2>4. QED
    BY Zenon, <2>1, <2>2, <2>3
<1>6. QED
  BY Zenon, <1>2, <1>3, <1>4, <1>5 DEF Accounted

\* The swap of g fails: it pays with who moved lastRefill instead of its own mark.
Failed(g, a, b) ==
    \A x \in Goroutines : \A m \in Nat :
        /\ MayCover(x, m)' => MayCover(x, m) \/ (x = g /\ a < m /\ m <= b)
        /\ Slow(x, m)' => Slow(x, m) /\ x # g
        /\ Overtaken(x, m)' => Overtaken(x, m) /\ x # g

LEMMA AccountFailed ==
    ASSUME NEW C, NEW D, NEW W \in Witnesses, Accounted(C, W), NEW g \in Goroutines,
           NEW a \in Nat, NEW b \in Nat,
           Replaced(C, D, g, W[g], a, b),
           \A m \in Nat : a < m /\ m <= b => Overtaken(g, m), Failed(g, a, b)
    PROVE  Accounted(D, W)'
<1> DEFINE In(m) == a < m /\ m <= b
<1>1. \A x \in Goroutines : \A m \in Nat : W[x][m] \in Goroutines
  BY WitnessIs
<1>2. \A x, y \in Goroutines, m \in Nat :
          Mark(x, y, m) \in D <=> \/ Mark(x, y, m) \in C /\ ~(x = g /\ y = g /\ In(m))
                                  \/ x = g /\ y = W[g][m] /\ In(m)
  BY Zenon DEF Replaced
<1>3. \A m \in Nat : In(m) =>
          /\ W[g][m] # g /\ ~Slow(W[g][m], m) /\ Mark(W[g][m], g, m) \notin C
          /\ Overtaken(W[g][m], m) => W[W[g][m]][m] # g
  BY Zenon DEF Accounted, Witnessed
<1>4. \A x \in Goroutines : \A m \in Nat : MayCover(x, m)' => MayCover(x, m) \/ (x = g /\ In(m))
  BY Zenon DEF Failed
<1> HIDE DEF In
<1>5. OwnFree(D)'
  BY Zenon, <1>2, <1>3, <1>4 DEF Accounted, OwnFree
<1>6. SlowFree(D)'
  <2> SUFFICES ASSUME NEW x \in Goroutines, NEW h \in Goroutines, NEW m \in Nat, Slow(h, m)'
               PROVE  Mark(x, h, m) \notin D /\ Mark(h, x, m) \notin D
    BY Zenon DEF SlowFree
  <2>1. Slow(h, m) /\ h # g
    BY Zenon DEF Failed
  <2>2. Mark(x, h, m) \notin C /\ Mark(h, x, m) \notin C
    BY Zenon, <2>1 DEF Accounted, SlowFree
  <2>3. Mark(h, x, m) \notin D
    BY Zenon, <1>2, <2>1, <2>2
  <2>4. ASSUME x = g, h = W[g][m], In(m) PROVE FALSE
    BY Zenon, <1>3, <2>1, <2>4
  <2>5. QED
    BY Zenon, <1>2, <2>2, <2>3, <2>4
<1>7. OneWay(D)'
  <2> SUFFICES ASSUME NEW x \in Goroutines, NEW y \in Goroutines, NEW m \in Nat, x # y,
                      Mark(x, y, m) \in D, Mark(y, x, m) \in D
               PROVE  FALSE
    BY Zenon DEF OneWay
  <2>1. ~(Mark(x, y, m) \in C /\ Mark(y, x, m) \in C)
    BY Zenon DEF Accounted, OneWay
  <2>2. QED
    BY Zenon, <1>2, <1>3, <2>1
<1>8. Witnessed(D, W)'
  <2> SUFFICES ASSUME NEW x \in Goroutines, NEW m \in Nat, Overtaken(x, m)'
               PROVE  /\ W[x][m] # x /\ ~Slow(W[x][m], m)'
                      /\ Mark(x, W[x][m], m) \notin D /\ Mark(W[x][m], x, m) \notin D
                      /\ Overtaken(W[x][m], m)' => W[W[x][m]][m] # x
    BY Zenon DEF Witnessed
  <2>1. Overtaken(x, m) /\ x # g /\ W[x][m] \in Goroutines
    BY Zenon, <1>1 DEF Failed
  <2>2. /\ W[x][m] # x /\ ~Slow(W[x][m], m) /\ Mark(x, W[x][m], m) \notin C /\ Mark(W[x][m], x, m) \notin C
        /\ Overtaken(W[x][m], m) => W[W[x][m]][m] # x
    BY Zenon, <2>1 DEF Accounted, Witnessed
  <2>3. Mark(x, W[x][m], m) \notin D
    BY Zenon, <1>2, <2>1, <2>2
  <2>4. Mark(W[x][m], x, m) \notin D
    <3> SUFFICES ASSUME Mark(W[x][m], x, m) \in D PROVE FALSE
      BY Zenon
    <3>1. W[x][m] = g /\ x = W[g][m] /\ In(m)
      BY Zenon, <1>2, <2>1, <2>2
    <3>2. Overtaken(W[g][m], m) => W[W[g][m]][m] # g
      BY Zenon, <1>3, <3>1
    <3>3. QED
      BY Zenon, <2>1, <3>1, <3>2
  <2>5. QED
    BY Zenon, <2>1, <2>2, <2>3, <2>4 DEF Failed
<1>9. QED
  BY Zenon, <1>5, <1>6, <1>7, <1>8 DEF Accounted

\* The swap of g succeeds: it is a witness for whom it overtakes.
LEMMA AccountMoved ==
    ASSUME NEW C, NEW W \in Witnesses, Accounted(C, W), NEW g \in Goroutines,
           \A x \in Goroutines : \A m \in Nat :
               /\ MayCover(x, m)' => MayCover(x, m)
               /\ Slow(x, m)' => Slow(x, m) /\ x # g
               /\ Overtaken(x, m)' => x # g /\ (Overtaken(x, m) \/ Slow(g, m))
    PROVE  \E V \in Witnesses : Accounted(C, V)'
<1>1. PICK V \in Witnesses : \A x \in Goroutines : \A m \in Nat :
              V[x][m] = IF Overtaken(x, m) THEN W[x][m] ELSE g
  <2> DEFINE F == [x \in Goroutines |-> [m \in Nat |-> IF Overtaken(x, m) THEN W[x][m] ELSE g]]
  <2>1. F \in Witnesses
    BY DEF Witnesses
  <2>2. \A x \in Goroutines : \A m \in Nat : F[x][m] = IF Overtaken(x, m) THEN W[x][m] ELSE g
    BY Zenon
  <2> HIDE DEF F
  <2>3. QED
    BY Zenon, <2>1, <2>2
<1>2. \A x \in Goroutines : \A m \in Nat : W[x][m] \in Goroutines
  BY WitnessIs
<1>3. OwnFree(C)' /\ SlowFree(C)' /\ OneWay(C)'
  BY Zenon DEF Accounted, OwnFree, SlowFree, OneWay
<1>4. Witnessed(C, V)'
  <2> SUFFICES ASSUME NEW x \in Goroutines, NEW m \in Nat, Overtaken(x, m)'
               PROVE  /\ V[x][m] # x /\ ~Slow(V[x][m], m)'
                      /\ Mark(x, V[x][m], m) \notin C /\ Mark(V[x][m], x, m) \notin C
                      /\ Overtaken(V[x][m], m)' => V[V[x][m]][m] # x
    BY Zenon DEF Witnessed
  <2>1. x # g
    BY Zenon
  <2>2. CASE Overtaken(x, m)
    <3>1. V[x][m] = W[x][m] /\ W[x][m] \in Goroutines
      BY Zenon, <1>1, <1>2, <2>2
    <3>2. /\ W[x][m] # x /\ ~Slow(W[x][m], m) /\ Mark(x, W[x][m], m) \notin C /\ Mark(W[x][m], x, m) \notin C
          /\ Overtaken(W[x][m], m) => W[W[x][m]][m] # x
      BY Zenon, <2>2 DEF Accounted, Witnessed
    <3>3. V[W[x][m]][m] # x
      BY <1>1, <2>1, <3>1, <3>2
    <3>4. QED
      BY Zenon, <3>1, <3>2, <3>3
  <2>3. CASE ~Overtaken(x, m)
    <3>1. V[x][m] = g /\ Slow(g, m)
      BY Zenon, <1>1, <2>3
    <3>2. Mark(x, g, m) \notin C /\ Mark(g, x, m) \notin C
      BY Zenon, <3>1 DEF Accounted, SlowFree
    <3>3. QED
      BY Zenon, <2>1, <3>1, <3>2
  <2>4. QED
    BY Zenon, <2>2, <2>3
<1>5. QED
  BY Zenon, <1>3, <1>4 DEF Accounted

\* A step after which nobody can refill more than before needs no further marks.
LEMMA PaidKept ==
    ASSUME HedgeInv, HedgePaid, LoadedBefore', credited' = credited, clock' \in Nat, clock' >= clock,
           \A x \in Goroutines : \A m \in Nat :
               /\ MayCover(x, m)' => MayCover(x, m)
               /\ Slow(x, m)' => Slow(x, m) \/ m > clock
               /\ Overtaken(x, m)' => Overtaken(x, m)
    PROVE  HedgePaid'
<1>1. clock \in Nat /\ \A x \in Goroutines : now[x] \in Nat /\ now[x] <= clock
  BY Zenon DEF HedgeInv, HedgeTimes, T!TypeOK
<1>2. PICK C \in SUBSET Marks(clock) : \E W \in Witnesses :
              Accounted(C, W) /\ credited <= T!refillRate * Cardinality(C)
  BY Zenon DEF HedgePaid
<1>3. PICK W \in Witnesses : Accounted(C, W) /\ credited <= T!refillRate * Cardinality(C)
  BY Zenon, <1>2
<1>4. \A x \in Goroutines : \A m \in Nat : Overtaken(x, m) => ~(m > clock)
  BY <1>1 DEF Overtaken
<1>5. PICK c \in Nat : c = clock
  BY Zenon, <1>1
<1>6. Accounted(C, W)'
  <2>1. C \in SUBSET Marks(c)
    BY Zenon, <1>5
  <2>2. \A x \in Goroutines : \A m \in Nat :
            /\ MayCover(x, m)' => MayCover(x, m)
            /\ Slow(x, m)' => Slow(x, m) \/ m > c
            /\ Overtaken(x, m)' => Overtaken(x, m) /\ ~(m > c)
    BY Zenon, <1>4, <1>5
  <2>3. QED
    BY <1>3, <2>1, <2>2, AccountKept, Zenon
<1>7. C \in SUBSET Marks(clock')
  <2>1. 1..clock \subseteq 1..clock'
    BY <1>1
  <2>2. QED
    BY <2>1, Zenon DEF Marks
<1>8. QED
  BY Zenon, <1>3, <1>6, <1>7 DEF HedgePaid

\* The steps of g that leave lastRefill and its times alone.
LEMMA QuietStep ==
    ASSUME HedgeInv, HedgePaid, NEW g \in Goroutines, UNCHANGED <<lastRefill, clock, credited>>,
           \A x \in Goroutines : x # g => at'[x] = at[x] /\ now'[x] = now[x] /\ last'[x] = last[x],
           \/ at[g] \in Loop /\ at'[g] \in Loop /\ now'[g] = now[g] /\ last'[g] = last[g]
           \/ at[g] \notin Begun /\ at'[g] \notin Begun
    PROVE  HedgePaid'
<1>1. LoadedBefore'
  BY DEF HedgePaid, LoadedBefore, Loop, Flight, Begun
<1>2. \A x \in Goroutines : \A m \in Nat :
               /\ MayCover(x, m)' => MayCover(x, m)
               /\ Slow(x, m)' => Slow(x, m) \/ m > clock
               /\ Overtaken(x, m)' => Overtaken(x, m)
  BY DEF MayCover, Covers, Slow, Overtaken, Loop, Flight, Begun
<1>3. clock' \in Nat /\ clock' >= clock
  BY DEF HedgeInv, T!TypeOK
<1>4. QED
  BY Zenon, <1>1, <1>2, <1>3, PaidKept

\* ReadNow: the time g reads is later than all moments marked, so it is not slow for them.
LEMMA ReadNowPaid == ASSUME HedgeInv, HedgePaid, NEW g \in Goroutines, T!ReadNow(g) PROVE HedgePaid'
<1>1. /\ at \in [Goroutines -> T!Labels] /\ now \in [Goroutines -> Nat] /\ clock \in Nat
      /\ at[g] = "idle" /\ at' = [at EXCEPT ![g] = "loadLast"] /\ now' = [now EXCEPT ![g] = clock]
      /\ UNCHANGED <<lastRefill, clock, credited, last>>
  BY Zenon DEF HedgeInv, T!TypeOK, T!ReadNow, T!Goto, T!bucketVars, T!historyVars
<1>2. LoadedBefore'
  BY <1>1 DEF HedgePaid, LoadedBefore, Loop, Flight
<1>3. \A x \in Goroutines : \A m \in Nat :
               /\ MayCover(x, m)' => MayCover(x, m)
               /\ Slow(x, m)' => Slow(x, m) \/ m > clock
               /\ Overtaken(x, m)' => Overtaken(x, m)
  BY <1>1 DEF MayCover, Covers, Slow, Overtaken, Loop, Flight, Begun
<1>4. clock' \in Nat /\ clock' >= clock
  BY <1>1
<1>5. QED
  BY Zenon, <1>1, <1>2, <1>3, <1>4, PaidKept

\* LoadLast: g covers only what it might cover before.
LEMMA LoadLastPaid == ASSUME HedgeInv, HedgePaid, NEW g \in Goroutines, T!LoadLast(g) PROVE HedgePaid'
<1>1. /\ at \in [Goroutines -> T!Labels] /\ now \in [Goroutines -> Nat] /\ last \in [Goroutines -> Nat]
      /\ clock \in Nat /\ lastRefill \in Nat
      /\ at[g] = "loadLast" /\ last' = [last EXCEPT ![g] = lastRefill]
      /\ UNCHANGED <<lastRefill, clock, credited, now>>
  BY Zenon DEF HedgeInv, T!TypeOK, T!LoadLast, T!Goto, T!bucketVars, T!historyVars
<1>2. at' = [at EXCEPT ![g] = "loadRefill"] \/ at' = [at EXCEPT ![g] = "loadTake"]
  BY Zenon DEF T!LoadLast, T!Goto
<1>3. LoadedBefore'
  BY <1>1, <1>2 DEF HedgePaid, LoadedBefore, Loop, Flight
<1>4. \A x \in Goroutines : \A m \in Nat :
               /\ MayCover(x, m)' => MayCover(x, m)
               /\ Slow(x, m)' => Slow(x, m) \/ m > clock
               /\ Overtaken(x, m)' => Overtaken(x, m)
  BY <1>1, <1>2 DEF MayCover, Covers, Slow, Overtaken, Loop, Flight, Begun
<1>5. clock' \in Nat /\ clock' >= clock
  BY <1>1
<1>6. QED
  BY Zenon, <1>1, <1>3, <1>4, <1>5, PaidKept

\* The swap of tokens adds no more than the rate for each moment that g covers.
LEMMA CasRefillPaid ==
    ASSUME HedgeInv, HedgePaid, NEW g \in Goroutines, T!CasRefill(g), tokens = cur[g]
    PROVE  HedgePaid'
<1>1. /\ at \in [Goroutines -> T!Labels] /\ now \in [Goroutines -> Nat] /\ last \in [Goroutines -> Nat]
      /\ clock \in Nat /\ lastRefill \in Nat /\ credited \in Nat /\ cur[g] \in 0..T!capacity
      /\ at[g] = "casRefill" /\ at' = [at EXCEPT ![g] = "casLast"]
      /\ credited' = credited + (T!Refilled(g) - cur[g])
      /\ UNCHANGED <<lastRefill, clock, now, last>>
  BY Zenon DEF HedgeInv, T!TypeOK, T!CasRefill, T!Goto, T!localVars
<1>2. last[g] < now[g] /\ now[g] <= clock
  BY Zenon, <1>1 DEF HedgeInv, HedgeTimes
<1>3. PICK C \in SUBSET Marks(clock) : \E W \in Witnesses :
              Accounted(C, W) /\ credited <= T!refillRate * Cardinality(C)
  BY Zenon DEF HedgePaid
<1>4. PICK W \in Witnesses : Accounted(C, W) /\ credited <= T!refillRate * Cardinality(C)
  BY Zenon, <1>3
<1>5. PICK a \in Nat, b \in Nat, c \in Nat : a = last[g] /\ b = now[g] /\ c = clock
  BY Zenon, <1>1
<1>6. Unmarked(C, g, a, b)
  <2>1. \A m \in Nat : a < m /\ m <= b => MayCover(g, m)
    BY Zenon, <1>1, <1>5 DEF MayCover, Covers, Loop
  <2>2. QED
    BY Zenon, <1>4, <2>1 DEF Accounted, OwnFree, Unmarked
<1>7. PICK D \in SUBSET Marks(c) : Cardinality(D) = Cardinality(C) + (b - a) /\ Added(C, D, g, a, b)
  <2>1. C \in SUBSET Marks(c) /\ a <= b /\ b <= c
    BY <1>2, <1>5
  <2>2. QED
    BY <1>6, <2>1, OwnMarks, Zenon
<1>8. Accounted(D, W)'
  <2>1. \A x, y \in Goroutines, m \in Nat :
            Mark(x, y, m) \in D <=> Mark(x, y, m) \in C \/ (x = g /\ y = g /\ Covers(g, m))
    BY Zenon, <1>5, <1>7 DEF Covers, Added
  <2>2. \A m \in Nat : Covers(g, m) => ~Slow(g, m)
    BY <1>1 DEF Covers, Slow
  <2>3. \A x \in Goroutines : \A m \in Nat :
               /\ MayCover(x, m)' => MayCover(x, m) /\ ~(x = g /\ Covers(g, m))
               /\ Slow(x, m)' => Slow(x, m)
               /\ Overtaken(x, m)' => Overtaken(x, m)
    BY <1>1 DEF MayCover, Covers, Slow, Overtaken, Loop, Flight, Begun
  <2>4. QED
    BY <1>4, <2>1, <2>2, <2>3, AccountRefill, Zenon
<1>9. credited' <= T!refillRate * Cardinality(D)
  <2> DEFINE r == T!refillRate
             k == Cardinality(C)
             e == b - a
             filled == T!Refilled(g)
  <2>1. r \in Nat /\ e \in Nat /\ k \in Nat /\ T!capacity \in Nat
    <3>1. k \in Nat
      BY Zenon, <1>1, MarksFinite
    <3>2. QED
      BY <1>2, <1>5, <3>1, HedgeSizes
  <2>2. filled = IF cur[g] + e * r > T!capacity THEN T!capacity ELSE cur[g] + e * r
    BY Zenon, <1>5 DEF T!Refilled
  <2>3. credited <= r * k /\ credited' = credited + (filled - cur[g]) /\ Cardinality(D) = k + e
    BY Zenon, <1>1, <1>4, <1>7
  <2> HIDE DEF r, k, e, filled
  <2>4. r * (k + e) = r * k + e * r /\ r * k \in Int /\ e * r \in Nat
    BY <2>1
  <2>5. filled \in Int /\ filled <= cur[g] + e * r
    BY <1>1, <2>1, <2>2, <2>4
  <2>6. credited' <= r * (k + e)
    BY <1>1, <2>1, <2>3, <2>4, <2>5
  <2>7. QED
    BY Zenon, <2>3, <2>6 DEF r
<1>10. LoadedBefore'
  BY <1>1 DEF HedgePaid, LoadedBefore, Loop, Flight
<1>11. D \in SUBSET Marks(clock')
  BY Zenon, <1>1, <1>5
<1>12. QED
  BY Zenon, <1>8, <1>9, <1>10, <1>11 DEF HedgePaid

\* The swap of lastRefill, whether it succeeds or not.
LEMMA CasLastPaid == ASSUME HedgeInv, HedgePaid, NEW g \in Goroutines, T!CasLast(g) PROVE HedgePaid'
<1>1. /\ at \in [Goroutines -> T!Labels] /\ now \in [Goroutines -> Nat] /\ last \in [Goroutines -> Nat]
      /\ clock \in Nat /\ lastRefill \in Nat
      /\ at[g] = "casLast" /\ at' = [at EXCEPT ![g] = "loadTake"]
      /\ lastRefill' = IF lastRefill = last[g] THEN now[g] ELSE lastRefill
      /\ UNCHANGED <<clock, now, last, credited>>
  BY Zenon DEF HedgeInv, T!TypeOK, T!CasLast, T!Goto, T!localVars, T!historyVars
<1>2. last[g] < now[g] /\ now[g] <= clock
  BY Zenon, <1>1 DEF HedgeInv, HedgeTimes
<1>3. LoadedBefore /\ last[g] <= lastRefill
  BY Zenon, <1>1 DEF HedgePaid, LoadedBefore, Flight
<1>4. LoadedBefore'
  BY <1>1, <1>2, <1>3 DEF LoadedBefore, Loop, Flight
<1>5. PICK C \in SUBSET Marks(clock) : \E W \in Witnesses :
              Accounted(C, W) /\ credited <= T!refillRate * Cardinality(C)
  BY Zenon DEF HedgePaid
<1>6. PICK W \in Witnesses : Accounted(C, W) /\ credited <= T!refillRate * Cardinality(C)
  BY Zenon, <1>5
<1>7. CASE lastRefill = last[g]
  <2>1. lastRefill' = now[g]
    BY Zenon, <1>1, <1>7
  <2>2. \A x \in Goroutines : \A m \in Nat :
               /\ MayCover(x, m)' => MayCover(x, m)
               /\ Slow(x, m)' => Slow(x, m) /\ x # g
               /\ Overtaken(x, m)' => x # g /\ (Overtaken(x, m) \/ Slow(g, m))
    <3> SUFFICES ASSUME NEW x \in Goroutines, NEW m \in Nat
                 PROVE  /\ MayCover(x, m)' => MayCover(x, m)
                        /\ Slow(x, m)' => Slow(x, m) /\ x # g
                        /\ Overtaken(x, m)' => x # g /\ (Overtaken(x, m) \/ Slow(g, m))
      BY Zenon
    <3>1. MayCover(x, m)' => MayCover(x, m)
      BY <1>1, <1>2, <1>7, <2>1 DEF MayCover, Covers, Loop
    <3>2. Slow(x, m)' => Slow(x, m) /\ x # g
      BY <1>1 DEF Slow, Begun, Flight, Loop
    <3>3. Overtaken(x, m)' => x # g /\ (Overtaken(x, m) \/ Slow(g, m))
      BY <1>1, <1>2, <1>3, <1>7, <2>1 DEF LoadedBefore, Overtaken, Slow, Begun, Flight, Loop
    <3>4. QED
      BY Zenon, <3>1, <3>2, <3>3
  <2>3. PICK V \in Witnesses : Accounted(C, V)'
    BY <1>6, <2>2, AccountMoved, Zenon
  <2>4. C \in SUBSET Marks(clock') /\ credited' <= T!refillRate * Cardinality(C)
    BY Zenon, <1>1, <1>6
  <2>5. QED
    BY Zenon, <1>4, <2>3, <2>4 DEF HedgePaid
<1>8. CASE lastRefill # last[g] /\ lastRefill >= now[g]
  <2>1. lastRefill' = lastRefill
    BY Zenon, <1>1, <1>8
  <2>2. \A x \in Goroutines : \A m \in Nat :
               /\ MayCover(x, m)' => MayCover(x, m)
               /\ Slow(x, m)' => Slow(x, m) \/ m > clock
               /\ Overtaken(x, m)' => Overtaken(x, m)
    BY <1>1, <1>8, <2>1 DEF MayCover, Covers, Slow, Overtaken, Loop, Flight, Begun
  <2>3. clock' \in Nat /\ clock' >= clock
    BY <1>1
  <2>4. QED
    BY Zenon, <1>1, <1>4, <2>2, <2>3, PaidKept
<1>9. CASE lastRefill # last[g] /\ lastRefill < now[g]
  <2>1. lastRefill' = lastRefill /\ last[g] < lastRefill
    BY <1>1, <1>3, <1>9
  <2>2. PICK a \in Nat, b \in Nat, c \in Nat : a = lastRefill /\ b = now[g] /\ c = clock
    BY Zenon, <1>1
  <2>3. \A m \in Nat : a < m /\ m <= b => Overtaken(g, m)
    BY Zenon, <1>1, <2>1, <2>2 DEF Overtaken, Flight
  <2>4. PICK w \in [Nat -> Goroutines] : w = W[g]
    BY Zenon DEF Witnesses
  <2>5. Unused(C, g, w, a, b)
    BY Zenon, <1>6, <2>3, <2>4 DEF Accounted, Witnessed, Unused
  <2>6. PICK D \in SUBSET Marks(c) : Cardinality(D) >= Cardinality(C) /\ Replaced(C, D, g, w, a, b)
    <3>1. C \in SUBSET Marks(c) /\ a <= b /\ b <= c
      BY <1>2, <1>9, <2>2
    <3>2. QED
      BY <2>5, <3>1, MarksReplaced, Zenon
  <2>7. Failed(g, a, b)
    BY <1>1, <2>1, <2>2 DEF Failed, MayCover, Covers, Slow, Overtaken, Loop, Flight, Begun
  <2>8. Replaced(C, D, g, W[g], a, b)
    BY Zenon, <2>4, <2>6
  <2>9. Accounted(D, W)'
    BY <1>6, <2>3, <2>7, <2>8, AccountFailed, Zenon
  <2>10. credited' <= T!refillRate * Cardinality(D)
    <3> DEFINE r == T!refillRate
    <3>1. Cardinality(C) \in Nat /\ Cardinality(D) \in Nat /\ credited \in Nat
      BY Zenon, <1>1, <2>2, MarksFinite DEF HedgeInv, T!TypeOK
    <3>2. r \in Nat /\ credited <= r * Cardinality(C) /\ credited' = credited
      BY Zenon, <1>1, <1>6, HedgeSizes
    <3> HIDE DEF r
    <3>3. r * Cardinality(C) <= r * Cardinality(D) /\ r * Cardinality(C) \in Int /\ r * Cardinality(D) \in Int
      BY <2>6, <3>1, <3>2, Products
    <3>4. credited' <= r * Cardinality(D)
      BY <3>1, <3>2, <3>3
    <3>5. QED
      BY Zenon, <3>4 DEF r
  <2>11. D \in SUBSET Marks(clock')
    BY Zenon, <1>1, <2>2
  <2>12. QED
    BY Zenon, <1>4, <2>9, <2>10, <2>11 DEF HedgePaid
<1>10. QED
  BY <1>1, <1>7, <1>8, <1>9

\* Every step keeps the account.
LEMMA PaidStep == ASSUME HedgeInv, HedgePaid, [T!Next]_(T!vars) PROVE HedgePaid'
<1>0. at \in [Goroutines -> T!Labels] /\ clock \in Nat
  BY Zenon DEF HedgeInv, T!TypeOK
<1>1. ASSUME NEW g \in Goroutines, T!LoadRefill(g) PROVE HedgePaid'
  <2>1. at[g] = "loadRefill" /\ at' = [at EXCEPT ![g] = "casRefill"]
        /\ UNCHANGED <<lastRefill, clock, credited, now, last>>
    BY Zenon, <1>1 DEF T!LoadRefill, T!Goto, T!bucketVars, T!historyVars
  <2>2. at'[g] = "casRefill" /\ \A x \in Goroutines : x # g => at'[x] = at[x] /\ now'[x] = now[x] /\ last'[x] = last[x]
    BY Zenon, <1>0, <2>1
  <2>3. at[g] \in Loop /\ at'[g] \in Loop /\ now'[g] = now[g] /\ last'[g] = last[g]
    BY Zenon, <2>1, <2>2 DEF Loop
  <2>4. QED
    BY <2>1, <2>2, <2>3, QuietStep, Zenon
<1>2. ASSUME NEW g \in Goroutines, T!CasRefill(g), tokens # cur[g] PROVE HedgePaid'
  <2>1. at[g] = "casRefill" /\ at' = [at EXCEPT ![g] = "loadRefill"]
        /\ UNCHANGED <<lastRefill, clock, credited, now, last>>
    BY Zenon, <1>2 DEF T!CasRefill, T!Goto, T!localVars
  <2>2. at'[g] = "loadRefill" /\ \A x \in Goroutines : x # g => at'[x] = at[x] /\ now'[x] = now[x] /\ last'[x] = last[x]
    BY Zenon, <1>0, <2>1
  <2>3. at[g] \in Loop /\ at'[g] \in Loop /\ now'[g] = now[g] /\ last'[g] = last[g]
    BY Zenon, <2>1, <2>2 DEF Loop
  <2>4. QED
    BY <2>1, <2>2, <2>3, QuietStep, Zenon
<1>3. ASSUME NEW g \in Goroutines, T!LoadTake(g) \/ T!CasTake(g) PROVE HedgePaid'
  <2>1. at[g] \in {"loadTake", "casTake"} /\ UNCHANGED <<lastRefill, clock, credited>>
    BY Zenon, <1>3 DEF T!LoadTake, T!CasTake, T!bucketVars, T!historyVars
  <2>2. /\ \E l \in {"idle", "casTake", "loadTake"} : at' = [at EXCEPT ![g] = l]
        /\ now' = now \/ now' = [now EXCEPT ![g] = 0]
        /\ last' = last \/ last' = [last EXCEPT ![g] = 0]
    BY Zenon, <1>3 DEF T!LoadTake, T!CasTake, T!Goto, T!Return, T!localVars
  <2>3. at'[g] \in {"idle", "casTake", "loadTake"}
        /\ \A x \in Goroutines : x # g => at'[x] = at[x] /\ now'[x] = now[x] /\ last'[x] = last[x]
    BY <1>0, <2>2 DEF HedgeInv, T!TypeOK
  <2>4. at[g] \notin Begun /\ at'[g] \notin Begun
    BY <2>1, <2>3 DEF Begun, Flight, Loop
  <2>5. QED
    BY <2>1, <2>3, <2>4, QuietStep, Zenon
<1>4. CASE T!Tick \/ UNCHANGED T!vars
  <2>1. UNCHANGED <<lastRefill, credited, at, now, last>> /\ clock' \in Nat /\ clock' >= clock
    BY <1>0, <1>4 DEF T!Tick, T!vars, T!localVars, T!historyVars
  <2>2. LoadedBefore'
    BY Zenon, <2>1 DEF HedgePaid, LoadedBefore
  <2>3. \A x \in Goroutines : \A m \in Nat :
               /\ MayCover(x, m)' => MayCover(x, m)
               /\ Slow(x, m)' => Slow(x, m) \/ m > clock
               /\ Overtaken(x, m)' => Overtaken(x, m)
    BY Zenon, <2>1 DEF MayCover, Covers, Slow, Overtaken
  <2>4. QED
    BY Zenon, <2>1, <2>2, <2>3, PaidKept
<1>5. QED
  BY Zenon, <1>1, <1>2, <1>3, <1>4, ReadNowPaid, LoadLastPaid, CasRefillPaid, CasLastPaid DEF T!Next, T!Continue

\* However calls of Consume interleave, all of them together refill the bucket for
\* a moment at most n * (n + 1) / 2 times, for n goroutines, although a failed swap
\* of lastRefill is ignored.
THEOREM HedgeRefillsAreBounded == BucketsSpec => []HedgeRefillsBounded
<1> DEFINE Inv == which = "hedge" => HedgePaid
<1>1. BucketsInit => Inv
  <2> SUFFICES ASSUME T!Init PROVE HedgePaid
    BY Zenon DEF BucketsInit
  <2>1. clock \in Nat /\ credited = 0 /\ \A g \in Goroutines : at[g] = "idle"
    BY DEF T!Init
  <2>2. LoadedBefore /\ \A g \in Goroutines : \A m \in Nat : ~Overtaken(g, m)
    BY <2>1 DEF LoadedBefore, Overtaken, Flight, Loop
  <2>3. \A W : Accounted({}, W)
    BY Zenon, <2>2 DEF Accounted, OwnFree, SlowFree, OneWay, Witnessed
  <2>4. \E W \in Witnesses : TRUE
    <3>1. [g \in Goroutines |-> [m \in Nat |-> g]] \in Witnesses
      BY DEF Witnesses
    <3>2. QED
      BY Zenon, <3>1
  <2>5. Cardinality({}) = 0 /\ T!refillRate * 0 = 0
    BY FS_EmptySet, HedgeSizes
  <2>6. credited <= T!refillRate * Cardinality({})
    BY <2>1, <2>5
  <2>7. QED
    BY Zenon, <2>2, <2>3, <2>4, <2>6 DEF HedgePaid
<1>2. Inv /\ (which = "hedge" => HedgeInv) /\ [BucketsNext]_bucketsVars => Inv'
  <2> SUFFICES ASSUME Inv, which = "hedge" => HedgeInv, [BucketsNext]_bucketsVars, which' = "hedge"
               PROVE  HedgePaid'
    OBVIOUS
  <2>1. which = "hedge" /\ [T!Next]_(T!vars)
    BY Zenon DEF BucketsNext, HedgeStep, ClientStep, RedisStep, bucketsVars, common, hedgeOnly, T!vars
  <2>2. QED
    BY Zenon, <2>1, PaidStep
<1>3. Inv /\ (which = "hedge" => HedgeInv) => HedgeRefillsBounded
  <2> SUFFICES ASSUME HedgePaid, HedgeInv PROVE T!RefillsBounded
    BY Zenon DEF HedgeRefillsBounded
  <2> DEFINE n == Cardinality(Goroutines)
             r == T!refillRate
  <2>1. PICK C \in SUBSET Marks(clock) : \E W \in Witnesses : Accounted(C, W) /\ credited <= r * Cardinality(C)
    BY Zenon DEF HedgePaid
  <2> DEFINE k == Cardinality(C)
  <2>2. clock \in Nat /\ credited \in Nat /\ r \in Nat /\ k \in Nat /\ n \in Nat
    <3>1. clock \in Nat /\ credited \in Nat
      BY Zenon DEF HedgeInv, T!TypeOK
    <3>2. k \in Nat /\ n \in Nat
      BY Zenon, <3>1, MarksFinite, FS_CardinalityType, SizesAssumption
    <3>3. QED
      BY Zenon, <3>1, <3>2, HedgeSizes
  <2>3. 2 * k <= n * (n + 1) * clock
    BY Zenon, <2>1, <2>2, MarksCount DEF Accounted
  <2>4. credited <= r * k
    BY Zenon, <2>1
  <2> HIDE DEF n, r, k
  <2>5. PICK t \in Nat : t = n * (n + 1) * clock
    BY <2>2
  <2>6. r * (2 * k) <= r * t /\ r * (2 * k) = 2 * (r * k) /\ r * k \in Int /\ r * t \in Int
    BY <2>2, <2>3, <2>5, Products
  <2>7. 2 * credited <= r * t
    BY <2>2, <2>4, <2>6
  <2>8. r * t = n * (n + 1) * r * clock
    BY <2>2, <2>5
  <2>9. 2 * credited <= n * (n + 1) * r * clock
    BY Zenon, <2>7, <2>8
  <2>10. T!Cardinality(Goroutines) = n
    BY Zenon DEF Cardinality, T!Cardinality, n
  <2>11. QED
    BY Zenon, <2>9, <2>10 DEF T!RefillsBounded, r
<1>4. QED
  BY <1>1, <1>2, <1>3, HedgeInvariant, PTL DEF BucketsSpec

=============================================================================
