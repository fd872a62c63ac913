---------------------------- MODULE BucketProofs ----------------------------
(***************************************************************************)
(* Proofs about the token buckets of servers (RateLimiter and RedisBucket) *)
(* for any number of goroutines, clients and servers and for any burst and *)
(* rate: no token is given out twice, and what requests can add beyond the *)
(* rate is bounded.                                                        *)
(***************************************************************************)
EXTENDS Buckets, FiniteSetTheorems, TLAPS

\* A product of naturals is a natural.
LEMMA ProductNat == \A a, b \in Nat : a * b \in Nat
OBVIOUS

\* Products of integers: distributive, commutative and monotone.
LEMMA Products ==
    \A a, b, c \in Int : /\ a * b \in Int
                         /\ a * (b + c) = a * b + a * c
                         /\ a * b = b * a
                         /\ a >= 0 /\ b <= c => a * b <= a * c
OBVIOUS

-----------------------------------------------------------------------------
(* Moments.  A call that was delayed turns the time of a bucket back, and  *)
(* the next one refills for the same moments again.  A goroutine does so   *)
(* at most once for a moment: when it reads the time again, it reads a     *)
(* later one.  U holds the pairs of a goroutine and a moment that are used *)
(* up, for all moments up to M, the latest that the bucket's time ever     *)
(* was.                                                                    *)

LEMMA PairsFinite ==
    ASSUME NEW M \in Nat, NEW U \in SUBSET (Goroutines \X (1..M))
    PROVE  IsFiniteSet(U) /\ Cardinality(U) \in Nat /\ Cardinality(U) <= Cardinality(Goroutines) * M
<1>1. IsFiniteSet(1..M) /\ Cardinality(1..M) = M
  BY FS_Interval
<1>2. IsFiniteSet(Goroutines \X (1..M)) /\ Cardinality(Goroutines \X (1..M)) = Cardinality(Goroutines) * M
  BY Zenon, <1>1, FS_Product, SizesAssumption
<1>3. QED
  BY Zenon, <1>2, FS_Subset, FS_CardinalityType

\* The moments after a, up to b, are used up for g too.
With(U, g, a, b) == U \cup ({g} \X (a + 1..b))

LEMMA ColumnAdded ==
    ASSUME NEW U, IsFiniteSet(U), NEW g, NEW a \in Nat, NEW b \in Nat, a <= b,
           \A t \in Nat : <<g, t>> \in U => t <= a
    PROVE  Cardinality(With(U, g, a, b)) = Cardinality(U) + (b - a)
<1> DEFINE C == {g} \X (a + 1..b)
<1> DEFINE I == a + 1..b
<1>1. IsFiniteSet(I) /\ Cardinality(I) = b - a
  <2>1. a + 1 \in Int /\ b \in Int
    OBVIOUS
  <2>2. IsFiniteSet(I) /\ Cardinality(I) = IF a + 1 > b THEN 0 ELSE b - (a + 1) + 1
    BY <2>1, FS_Interval, Zenon
  <2> HIDE DEF I
  <2>3. QED
    BY <2>2
<1>2. IsFiniteSet({g}) /\ Cardinality({g}) = 1
  BY Zenon, FS_Singleton
<1>3. IsFiniteSet(C) /\ Cardinality(C) = b - a
  <2>1. IsFiniteSet({g} \X I) /\ Cardinality({g} \X I) = Cardinality({g}) * Cardinality(I)
    BY <1>1, <1>2, FS_Product, Zenon
  <2>2. C = {g} \X I
    OBVIOUS
  <2> HIDE DEF C, I
  <2>3. QED
    BY <1>1, <1>2, <2>1, <2>2
<1>4. U \cap C = {}
  <2> SUFFICES ASSUME NEW p \in U, p \in C PROVE FALSE
    OBVIOUS
  <2>1. PICK t \in a + 1..b : p = <<g, t>>
    OBVIOUS
  <2>2. QED
    BY <2>1
<1>5. IsFiniteSet(U \cup C) /\ Cardinality(U \cup C) = Cardinality(U) + (b - a)
  <2> HIDE DEF C, I
  <2>1. Cardinality(U \cap C) = 0 /\ Cardinality(U) \in Nat
    BY Zenon, <1>4, FS_EmptySet, FS_CardinalityType
  <2>2. IsFiniteSet(U \cup C)
        /\ Cardinality(U \cup C) = Cardinality(U) + Cardinality(C) - Cardinality(U \cap C)
    BY <1>3, FS_Union, Zenon
  <2>3. QED
    BY <1>3, <2>1, <2>2
<1>6. QED
  BY <1>5, Zenon DEF With

\* The pairs V up to N come after the pairs U up to M, when g moves the time of a
\* bucket from s to n: whether forward or back, they grow by as many as are
\* refilled for.
Moves(M, U, s, g, n, N, V) ==
    /\ n <= N /\ N \in {M, n}
    /\ \A h \in Goroutines \ {g} : \A t \in Nat : <<h, t>> \in V => <<h, t>> \in U
    /\ Cardinality(V) - (N - n) = Cardinality(U) - (M - s) + (IF n > s THEN n - s ELSE 0)

LEMMA TimeMoved ==
    ASSUME NEW M \in Nat, NEW U \in SUBSET (Goroutines \X (1..M)), NEW s \in 0..M,
           NEW g \in Goroutines, NEW n \in Nat,
           \A t \in 1..M : <<g, t>> \in U => t <= n
    PROVE  \E N \in Nat : \E V \in SUBSET (Goroutines \X (1..N)) : Moves(M, U, s, g, n, N, V)
<1>1. IsFiniteSet(U) /\ Cardinality(U) \in Nat
  BY Zenon, PairsFinite
<1>2. CASE n < s
  <2> DEFINE V == With(U, g, n, s)
  <2>1. Cardinality(V) = Cardinality(U) + (s - n)
    <3>1. s \in Nat /\ n <= s /\ \A t \in Nat : <<g, t>> \in U => t <= n
      BY <1>2
    <3>2. QED
      BY <1>1, <3>1, ColumnAdded, SMT
  <2>2. V \in SUBSET (Goroutines \X (1..M))
    BY DEF With
  <2>3. \A h \in Goroutines \ {g} : \A t \in Nat : <<h, t>> \in V => <<h, t>> \in U
    BY Zenon DEF With
  <2> HIDE DEF V
  <2>4. n <= M /\ Cardinality(V) - (M - n) = Cardinality(U) - (M - s) + (IF n > s THEN n - s ELSE 0)
    BY <1>1, <1>2, <2>1
  <2>5. QED
    BY Zenon, <2>2, <2>3, <2>4 DEF Moves
<1>3. CASE s <= n /\ n <= M
  <2>1. Cardinality(U) - (M - n) = Cardinality(U) - (M - s) + (IF n > s THEN n - s ELSE 0)
    BY <1>1, <1>3
  <2>2. QED
    BY Zenon, <1>3, <2>1 DEF Moves
<1>4. CASE M < n
  <2> DEFINE V == With(U, g, M, n)
  <2>1. \A t \in Nat : <<g, t>> \in U => t <= M
    OBVIOUS
  <2>2. Cardinality(V) = Cardinality(U) + (n - M)
    <3>1. M <= n
      BY <1>4
    <3>2. QED
      BY ZenonT(60), <1>1, <2>1, <3>1, ColumnAdded
  <2>3. V \in SUBSET (Goroutines \X (1..n))
    BY <1>4 DEF With
  <2>4. \A h \in Goroutines \ {g} : \A t \in Nat : <<h, t>> \in V => <<h, t>> \in U
    BY Zenon DEF With
  <2> HIDE DEF V
  <2>5. Cardinality(V) - (n - n) = Cardinality(U) - (M - s) + (IF n > s THEN n - s ELSE 0)
    BY <1>1, <1>4, <2>2
  <2>6. QED
    BY <1>4, <2>3, <2>4, <2>5 DEF Moves
<1>5. QED
  BY <1>2, <1>3, <1>4

-----------------------------------------------------------------------------
(* The bucket that servers share. *)

\* The bucket holds no more than the burst, and it is charged for every request.
RedisCharged ==
    /\ clock \in Nat /\ at \in [Goroutines -> {"idle", "script"}] /\ now \in [Goroutines -> Nat]
    /\ granted \in Nat /\ credited \in Int
    /\ bucket \in [tokens : 0..RedisBurst, ts : Nat, expires : Int]
    /\ IF bucket = R!Absent THEN granted = 0 /\ credited = 0
       ELSE granted * OneToken + bucket.tokens = RedisBurst + credited

\* While the key had expired for X moments in all, the refills were paid for by
\* these and by the pairs used up, less those the time stamp is turned back by.
RedisPaid(M, X, U) ==
    /\ M <= clock /\ bucket.ts <= M
    /\ IF bucket = R!Absent THEN X = 0
       ELSE X <= bucket.expires - R!Ttl /\ bucket.expires - R!Ttl <= clock
    /\ \A s \in Goroutines : at[s] = "script" =>
          now[s] <= clock /\ \A t \in 1..M : <<s, t>> \in U => t <= now[s]
    /\ credited <= RedisRate * (Cardinality(U) - (M - bucket.ts) + X)

RedisInv ==
    /\ RedisCharged
    /\ (\A s \in Goroutines : Skew[s] = 0) =>
          \E M \in 0..clock : \E X \in 0..clock : \E U \in SUBSET (Goroutines \X (1..M)) :
              RedisPaid(M, X, U)

\* The time to live is long enough to fill a bucket.
LEMMA TtlFills == R!Ttl \in Nat /\ RedisBurst <= RedisRate * R!Ttl
<1> DEFINE b == RedisBurst  r == RedisRate  q == (b + r - 1) \div r
<1>1. b \in Nat /\ r \in Nat /\ r > 0
  BY SizesAssumption
<1>2. q = R!Ttl
  BY Zenon DEF R!Ttl
<1>3. q \in Nat /\ b + r - 1 < r * q + r
  <2> HIDE DEF b, r
  <2>1. QED
    BY <1>1
<1>4. r * q \in Int
  BY <1>1, <1>3, Products
<1>5. b <= r * q
  <2> HIDE DEF b, r, q
  <2>1. QED
    BY <1>1, <1>3, <1>4
<1>6. QED
  BY Zenon, <1>2, <1>3, <1>5

\* The script fills the bucket for the moments since the time stamp, or whole
\* when the key had expired, and takes one token from it.
LEMMA ScriptDoes ==
    ASSUME RedisCharged, NEW s \in Goroutines, R!Script(s)
    PROVE  \E filled \in 0..RedisBurst :
              /\ bucket' = [tokens |-> IF filled >= OneToken THEN filled - OneToken ELSE filled,
                            ts |-> now[s], expires |-> clock + R!Ttl]
              /\ granted' = IF filled >= OneToken THEN granted + 1 ELSE granted
              /\ bucket = R!Absent => filled = RedisBurst /\ credited' = credited
              /\ bucket # R!Absent => credited' = credited + (filled - bucket.tokens)
              /\ bucket.expires > clock =>
                    filled <= bucket.tokens + RedisRate * (IF now[s] > bucket.ts THEN now[s] - bucket.ts ELSE 0)
<1> DEFINE held == bucket.expires > clock
           lst == IF held THEN bucket.tokens ELSE RedisBurst
           delta == IF held THEN IF now[s] > bucket.ts THEN now[s] - bucket.ts ELSE 0 ELSE now[s]
           filled == R!Filled(lst, delta)
<1>1. /\ clock \in Nat /\ now[s] \in Nat /\ bucket.ts \in Nat /\ bucket.tokens \in 0..RedisBurst
      /\ bucket.expires \in Int /\ credited \in Int
  BY Zenon DEF RedisCharged
<1>2. RedisRate \in Nat /\ RedisBurst \in Nat
  BY Zenon, SizesAssumption
<1>3. lst \in 0..RedisBurst /\ delta \in Nat
  BY <1>1, <1>2
<1>4. bucket = R!Absent => ~held
  BY <1>1 DEF R!Absent
<1>5. /\ bucket' = [tokens |-> IF filled >= OneToken THEN filled - OneToken ELSE filled,
                    ts |-> now[s], expires |-> clock + R!Ttl]
      /\ granted' = IF filled >= OneToken THEN granted + 1 ELSE granted
      /\ credited' = credited + (filled - (IF bucket = R!Absent THEN RedisBurst ELSE bucket.tokens))
  BY Zenon DEF R!Script
<1>6. PICK added \in Nat : added = delta * RedisRate
  <2> HIDE DEF delta
  <2>1. QED
    BY Zenon, <1>2, <1>3, ProductNat
<1>7. filled = IF RedisBurst < lst + added THEN RedisBurst ELSE lst + added
  BY Zenon, <1>6 DEF R!Filled, R!Least
<1>8. filled \in 0..RedisBurst /\ filled <= lst + added /\ (lst = RedisBurst => filled = RedisBurst)
  <2> HIDE DEF filled, lst
  <2>1. QED
    BY <1>2, <1>3, <1>6, <1>7
<1>9. bucket = R!Absent => filled = RedisBurst /\ credited' = credited
  <2>1. bucket = R!Absent => filled = RedisBurst
    BY Zenon, <1>4, <1>8
  <2> HIDE DEF filled
  <2>2. QED
    BY <1>1, <1>2, <1>5, <2>1
<1>10. held => filled <= bucket.tokens + RedisRate * (IF now[s] > bucket.ts THEN now[s] - bucket.ts ELSE 0)
  <2>1. SUFFICES ASSUME held PROVE filled <= bucket.tokens + RedisRate * delta
    OBVIOUS
  <2>2. lst = bucket.tokens
    BY Zenon, <2>1
  <2> HIDE DEF filled, delta, held, lst
  <2>3. added = RedisRate * delta
    BY <1>2, <1>3, <1>6, Products
  <2>4. QED
    BY Zenon, <1>8, <2>2, <2>3
<1> HIDE DEF filled, held
<1>11. QED
  BY Zenon, <1>5, <1>8, <1>9, <1>10 DEF held

LEMMA RedisChargedStep ==
    ASSUME RedisCharged, [R!Next]_(R!vars)
    PROVE  RedisCharged'
<1>1. ASSUME NEW s \in Goroutines, R!Allow(s) PROVE RedisCharged'
  <2>1. clock + Skew[s] \in Nat
    BY SizesAssumption DEF RedisCharged
  <2>2. QED
    BY Zenon, <1>1, <2>1 DEF R!Allow, RedisCharged
<1>2. ASSUME NEW s \in Goroutines, R!Script(s) PROVE RedisCharged'
  <2>1. PICK filled \in 0..RedisBurst :
              /\ bucket' = [tokens |-> IF filled >= OneToken THEN filled - OneToken ELSE filled,
                            ts |-> now[s], expires |-> clock + R!Ttl]
              /\ granted' = IF filled >= OneToken THEN granted + 1 ELSE granted
              /\ bucket = R!Absent => filled = RedisBurst /\ credited' = credited
              /\ bucket # R!Absent => credited' = credited + (filled - bucket.tokens)
    BY Zenon, <1>2, ScriptDoes
  <2>2. /\ clock \in Nat /\ now[s] \in Nat /\ bucket.tokens \in 0..RedisBurst
        /\ granted \in Nat /\ credited \in Int
    BY Zenon DEF RedisCharged
  <2>3. RedisBurst \in Nat /\ OneToken \in Nat
    BY Zenon, SizesAssumption
  <2>4. bucket'.expires = clock + R!Ttl /\ bucket' # R!Absent
    BY <2>1, <2>2, TtlFills DEF R!Absent
  <2>5. bucket' \in [tokens : 0..RedisBurst, ts : Nat, expires : Int]
    BY <2>1, <2>2, <2>3, TtlFills
  <2>6. granted' \in Nat /\ credited' \in Int
    BY <2>1, <2>2, <2>3
  <2>7. clock' = clock /\ at' \in [Goroutines -> {"idle", "script"}] /\ now' \in [Goroutines -> Nat]
    BY Zenon, <1>2 DEF R!Script, RedisCharged
  <2>8. PICK spent \in Nat : spent = granted * OneToken
    BY Zenon, <2>2, <2>3, ProductNat
  <2>9. spent + filled = RedisBurst + credited'
    <3>1. CASE bucket = R!Absent
      <4>1. granted = 0 /\ credited = 0
        BY Zenon, <3>1 DEF RedisCharged
      <4>2. spent = 0
        BY <2>3, <2>8, <4>1
      <4>3. QED
        BY <2>1, <2>3, <3>1, <4>1, <4>2
    <3>2. CASE bucket # R!Absent
      BY <2>1, <2>2, <2>3, <2>8, <3>2 DEF RedisCharged
    <3>3. QED
      BY Zenon, <3>1, <3>2
  <2>10. granted' * OneToken + bucket'.tokens = RedisBurst + credited'
    <3>1. CASE filled >= OneToken
      <4>1. granted' * OneToken = spent + OneToken
        <5>1. granted' = granted + 1
          BY Zenon, <2>1, <3>1
        <5>2. QED
          BY <2>2, <2>3, <2>8, <5>1
      <4>2. bucket'.tokens = filled - OneToken
        BY Zenon, <2>1, <3>1
      <4>3. QED
        BY <2>3, <2>6, <2>8, <2>9, <4>1, <4>2
    <3>2. CASE ~(filled >= OneToken)
      BY Zenon, <2>1, <2>8, <2>9, <3>2
    <3>3. QED
      BY Zenon, <3>1, <3>2
  <2>11. QED
    BY Zenon, <2>2, <2>4, <2>5, <2>6, <2>7, <2>10 DEF RedisCharged
<1>3. ASSUME NEW s \in Goroutines, R!RedisFails(s) PROVE RedisCharged'
  BY Zenon, <1>3 DEF R!RedisFails, RedisCharged
<1>4. CASE R!Tick
  BY <1>4 DEF R!Tick, RedisCharged
<1>5. CASE UNCHANGED R!vars
  BY Zenon, <1>5 DEF R!vars, RedisCharged
<1>6. QED
  BY Zenon, <1>1, <1>2, <1>3, <1>4, <1>5 DEF R!Next

\* A script, delayed or not, pays for what it adds.
LEMMA ScriptPaid ==
    ASSUME RedisCharged, NEW M \in 0..clock, NEW X \in 0..clock,
           NEW U \in SUBSET (Goroutines \X (1..M)), RedisPaid(M, X, U),
           NEW s \in Goroutines, R!Script(s)
    PROVE  \E N \in 0..clock' : \E Y \in 0..clock' : \E V \in SUBSET (Goroutines \X (1..N)) :
              RedisPaid(N, Y, V)'
<1> DEFINE n == now[s]  add == IF n > bucket.ts THEN n - bucket.ts ELSE 0
<1>1. /\ clock \in Nat /\ n \in Nat /\ bucket.tokens \in 0..RedisBurst /\ bucket.ts \in 0..M
      /\ bucket.expires \in Int /\ credited \in Int
  BY DEF RedisCharged, RedisPaid
<1>2. RedisBurst \in Nat /\ OneToken \in Nat /\ RedisRate \in Nat
  BY Zenon, SizesAssumption
<1>3. at[s] = "script" /\ clock' = clock /\ at' = [at EXCEPT ![s] = "idle"] /\ now' = [now EXCEPT ![s] = 0]
  BY Zenon DEF R!Script
<1>4. n <= clock /\ \A t \in 1..M : <<s, t>> \in U => t <= n
  BY Zenon, <1>3 DEF RedisPaid
<1>5. PICK filled \in 0..RedisBurst :
              /\ bucket' = [tokens |-> IF filled >= OneToken THEN filled - OneToken ELSE filled,
                            ts |-> n, expires |-> clock + R!Ttl]
              /\ bucket = R!Absent => filled = RedisBurst /\ credited' = credited
              /\ bucket # R!Absent => credited' = credited + (filled - bucket.tokens)
              /\ bucket.expires > clock => filled <= bucket.tokens + RedisRate * add
  BY Zenon, ScriptDoes
<1>a. PICK N \in Nat : \E V \in SUBSET (Goroutines \X (1..N)) : Moves(M, U, bucket.ts, s, n, N, V)
  <2>1. M \in Nat
    BY <1>1
  <2>2. QED
    BY <1>1, <1>4, <2>1, TimeMoved, Zenon
<1>b. PICK V \in SUBSET (Goroutines \X (1..N)) : Moves(M, U, bucket.ts, s, n, N, V)
  BY Zenon, <1>a
<1>6. /\ n <= N /\ N \in {M, n}
      /\ \A h \in Goroutines \ {s} : \A t \in Nat : <<h, t>> \in V => <<h, t>> \in U
      /\ Cardinality(V) - (N - n) = Cardinality(U) - (M - bucket.ts) + add
  BY Zenon, <1>b DEF Moves
<1>7. N \in 0..clock
  BY <1>1, <1>4, <1>6
<1>8. bucket'.ts = n /\ bucket'.expires = clock + R!Ttl /\ bucket' # R!Absent
  BY <1>1, <1>5, TtlFills DEF R!Absent
<1>9. \A h \in Goroutines : at'[h] = "script" =>
          now'[h] <= clock /\ \A t \in 1..N : <<h, t>> \in V => t <= now'[h]
  <2> SUFFICES ASSUME NEW h \in Goroutines, at'[h] = "script"
               PROVE  now'[h] <= clock /\ \A t \in 1..N : <<h, t>> \in V => t <= now'[h]
    OBVIOUS
  <2>1. h # s /\ at[h] = "script" /\ now'[h] = now[h]
    BY Zenon, <1>3 DEF RedisCharged
  <2>2. now[h] <= clock /\ \A t \in 1..M : <<h, t>> \in U => t <= now[h]
    BY Zenon, <2>1 DEF RedisPaid
  <2>3. ASSUME NEW t \in 1..N, <<h, t>> \in V PROVE t <= now[h]
    <3>1. <<h, t>> \in U
      BY <1>6, <2>1, <2>3
    <3>2. t \in 1..M
      BY Zenon, <3>1
    <3>3. QED
      BY Zenon, <2>2, <3>1, <3>2
  <2>4. QED
    BY Zenon, <2>1, <2>2, <2>3
<1> DEFINE was == Cardinality(U) - (M - bucket.ts) + X
           Pays(Y) == /\ Y \in 0..clock
                      /\ credited' <= RedisRate * (Cardinality(V) - (N - n) + Y)
<1>10. was \in Int /\ add \in Nat /\ credited <= RedisRate * was /\ Cardinality(V) \in Nat /\ Cardinality(U) \in Nat
  BY <1>1, <1>6, PairsFinite DEF RedisPaid
<1>11. \E Y \in 0..clock : Pays(Y)
  <2>1. CASE bucket = R!Absent \/ bucket.expires > clock
    <3>1. credited' <= credited + RedisRate * add
      <4>1. RedisRate * add \in Nat
        BY Zenon, <1>2, <1>10, ProductNat
      <4>2. CASE bucket = R!Absent
        BY <1>1, <1>5, <4>1, <4>2
      <4>3. CASE bucket # R!Absent
        BY <1>1, <1>2, <1>5, <2>1, <4>1, <4>3
      <4>4. QED
        BY Zenon, <4>2, <4>3
    <3>2. RedisRate * (was + add) = RedisRate * was + RedisRate * add
      BY <1>2, <1>10, Products
    <3>3. Cardinality(V) - (N - n) + X = was + add
      BY <1>1, <1>6, <1>10
    <3>4. credited' \in Int /\ RedisRate * add \in Int /\ RedisRate * was \in Int
      BY <1>1, <1>2, <1>5, <1>10, Products
    <3>5. Pays(X)
      <4> HIDE DEF was, add
      <4>1. QED
        BY <1>1, <1>10, <3>1, <3>2, <3>3, <3>4
    <3>6. QED
      BY Zenon, <3>5
  <2>2. CASE bucket # R!Absent /\ ~(bucket.expires > clock)
    <3>1. credited' <= credited + RedisRate * R!Ttl
      BY <1>1, <1>2, <1>5, <2>2, TtlFills, Products
    <3>2. X + R!Ttl \in 0..clock
      BY <1>1, <2>2, TtlFills DEF RedisPaid
    <3>3. Cardinality(V) - (N - n) + (X + R!Ttl) = was + (add + R!Ttl)
      BY <1>1, <1>6, <1>10, TtlFills
    <3>4. RedisRate * (was + (add + R!Ttl)) = RedisRate * was + (RedisRate * add + RedisRate * R!Ttl)
      BY <1>2, <1>10, TtlFills, Products
    <3>5. RedisRate * add \in Nat /\ RedisRate * R!Ttl \in Nat /\ RedisRate * was \in Int /\ credited' \in Int
      BY <1>1, <1>2, <1>5, <1>10, <2>2, TtlFills, Products, ProductNat
    <3>6. Pays(X + R!Ttl)
      <4> HIDE DEF was, add
      <4>1. QED
        BY <1>1, <1>10, <3>1, <3>2, <3>3, <3>4, <3>5
    <3>7. QED
      BY Zenon, <3>2, <3>6
  <2>3. QED
    BY Zenon, <2>1, <2>2
<1>12. PICK Y \in 0..clock : Pays(Y)
  BY Zenon, <1>11
<1>13. Y <= bucket'.expires - R!Ttl /\ bucket'.expires - R!Ttl <= clock
  BY <1>1, <1>8, TtlFills
<1>14. RedisPaid(N, Y, V)'
  BY Zenon, <1>3, <1>6, <1>7, <1>8, <1>9, <1>12, <1>13 DEF RedisPaid
<1>15. QED
  BY Zenon, <1>3, <1>7, <1>14

LEMMA RedisStepKeeps ==
    ASSUME RedisInv, [R!Next]_(R!vars)
    PROVE  RedisInv'
<1>1. RedisCharged /\ RedisCharged'
  BY Zenon, RedisChargedStep DEF RedisInv
<1>2. SUFFICES ASSUME \A s \in Goroutines : Skew[s] = 0
               PROVE  \E M \in 0..clock' : \E X \in 0..clock' : \E U \in SUBSET (Goroutines \X (1..M)) :
                         RedisPaid(M, X, U)'
  BY Zenon, <1>1 DEF RedisInv
<1>3. PICK M \in 0..clock, X \in 0..clock : \E U \in SUBSET (Goroutines \X (1..M)) : RedisPaid(M, X, U)
  BY Zenon, <1>2 DEF RedisInv
<1>4. PICK U \in SUBSET (Goroutines \X (1..M)) : RedisPaid(M, X, U)
  BY Zenon, <1>3
<1>5. clock \in Nat /\ at \in [Goroutines -> {"idle", "script"}] /\ now \in [Goroutines -> Nat]
  BY Zenon, <1>1 DEF RedisCharged
<1>6. ASSUME NEW s \in Goroutines, R!Script(s)
      PROVE  \E N \in 0..clock' : \E Y \in 0..clock' : \E V \in SUBSET (Goroutines \X (1..N)) :
                RedisPaid(N, Y, V)'
  BY Zenon, <1>1, <1>4, <1>6, ScriptPaid
<1>7. ASSUME NEW s \in Goroutines, R!Allow(s)
      PROVE  M \in 0..clock' /\ X \in 0..clock' /\ RedisPaid(M, X, U)'
  <2>1. /\ now' = [now EXCEPT ![s] = clock + Skew[s]] /\ at' = [at EXCEPT ![s] = "script"]
        /\ UNCHANGED <<clock, bucket, granted, credited>>
    BY Zenon, <1>7 DEF R!Allow
  <2>2. Skew[s] = 0
    BY Zenon, <1>2
  <2>3. \A h \in Goroutines : at'[h] = "script" =>
            now'[h] <= clock' /\ \A t \in 1..M : <<h, t>> \in U => t <= now'[h]
    BY <1>4, <1>5, <2>1, <2>2 DEF RedisPaid
  <2>4. QED
    BY Zenon, <1>4, <2>1, <2>3 DEF RedisPaid
<1>8. ASSUME NEW s \in Goroutines, R!RedisFails(s)
      PROVE  M \in 0..clock' /\ X \in 0..clock' /\ RedisPaid(M, X, U)'
  <2>1. /\ now' = [now EXCEPT ![s] = 0] /\ at' = [at EXCEPT ![s] = "idle"]
        /\ UNCHANGED <<clock, bucket, granted, credited>>
    BY Zenon, <1>8 DEF R!RedisFails
  <2>2. QED
    BY Zenon, <1>4, <1>5, <2>1 DEF RedisPaid
<1>9. ASSUME R!Tick \/ UNCHANGED R!vars
      PROVE  M \in 0..clock' /\ X \in 0..clock' /\ RedisPaid(M, X, U)'
  <2>1. clock' \in {clock, clock + 1} /\ UNCHANGED <<bucket, at, now, granted, credited>>
    BY Zenon, <1>9 DEF R!Tick, R!vars
  <2>2. M <= clock /\ bucket.expires - R!Ttl \in Int
    BY <1>1, <1>4, <1>5, TtlFills DEF RedisCharged
  <2>3. QED
    BY <1>4, <1>5, <2>1, <2>2 DEF RedisPaid
<1>10. QED
  BY Zenon, <1>6, <1>7, <1>8, <1>9 DEF R!Next

LEMMA RedisInvInit == ASSUME R!Init PROVE RedisInv
<1>1. RedisCharged
  BY SizesAssumption DEF R!Init, R!Absent, RedisCharged
<1>2. Cardinality({}) = 0 /\ RedisRate * (0 - (0 - 0) + 0) = 0
  BY SizesAssumption, FS_EmptySet
<1>3. RedisPaid(0, 0, {})
  BY <1>2 DEF R!Init, R!Absent, RedisPaid
<1>4. {} \in SUBSET (Goroutines \X (1..0)) /\ 0 \in 0..clock
  BY DEF R!Init
<1>5. QED
  BY Zenon, <1>1, <1>3, <1>4 DEF RedisInv

LEMMA RedisInvShared == ASSUME RedisInv PROVE R!SharedRate
<1>1. RedisCharged
  BY Zenon DEF RedisInv
<1>2. granted * OneToken <= RedisBurst + credited /\ bucket.tokens \in 0..RedisBurst
  <2>1. /\ bucket.tokens \in 0..RedisBurst /\ credited \in Int /\ RedisBurst \in Nat
        /\ granted \in Nat /\ OneToken \in Nat
    BY Zenon, <1>1, SizesAssumption DEF RedisCharged
  <2>2. PICK spent \in Nat : spent = granted * OneToken
    BY Zenon, <2>1, ProductNat
  <2>3. CASE bucket = R!Absent
    <3>1. granted = 0 /\ credited = 0
      BY Zenon, <1>1, <2>3 DEF RedisCharged
    <3>2. spent = 0
      BY <2>1, <2>2, <3>1
    <3>3. QED
      BY <2>1, <2>2, <3>1, <3>2
  <2>4. CASE bucket # R!Absent
    BY <1>1, <2>1, <2>2, <2>4 DEF RedisCharged
  <2>5. QED
    BY Zenon, <2>3, <2>4
<1>3. ASSUME \A s \in Goroutines : Skew[s] = 0
      PROVE  credited <= (Cardinality(Goroutines) + 1) * RedisRate * clock
  <2>1. PICK M \in 0..clock, X \in 0..clock : \E U \in SUBSET (Goroutines \X (1..M)) : RedisPaid(M, X, U)
    BY Zenon, <1>3 DEF RedisInv
  <2>2. PICK U \in SUBSET (Goroutines \X (1..M)) : RedisPaid(M, X, U)
    BY Zenon, <2>1
  <2> DEFINE c == Cardinality(Goroutines)  used == Cardinality(U) - (M - bucket.ts) + X
  <2>3. clock \in Nat /\ bucket.ts \in 0..M /\ RedisRate \in Nat /\ c \in Nat /\ credited \in Int
    BY <1>1, <2>2, SizesAssumption, FS_CardinalityType DEF RedisCharged, RedisPaid
  <2>4. Cardinality(U) \in Nat /\ Cardinality(U) <= c * M /\ M \in Nat
    BY <2>3, PairsFinite
  <2>5. credited <= RedisRate * used
    BY Zenon, <2>2 DEF RedisPaid
  <2> HIDE DEF c
  <2>6. c * M <= c * clock /\ c * M \in Int /\ c * clock \in Int
    BY <2>3, <2>4, Products
  <2>7. used \in Int /\ used <= c * clock + clock
    BY <2>3, <2>4, <2>6
  <2> HIDE DEF used
  <2>8. RedisRate * used <= RedisRate * (c * clock + clock) /\ RedisRate * used \in Int
    BY <2>3, <2>6, <2>7, Products
  <2>9. RedisRate * (c * clock + clock) = (c + 1) * RedisRate * clock
    BY <2>3
  <2>10. RedisRate * (c * clock + clock) \in Int
    BY <2>3, <2>6, Products
  <2>11. credited <= (c + 1) * RedisRate * clock
    BY <2>3, <2>5, <2>8, <2>9, <2>10
  <2>12. QED
    BY Zenon, <2>11 DEF c
<1>4. R!Cardinality(Goroutines) = Cardinality(Goroutines)
  BY Zenon DEF Cardinality, R!Cardinality
<1>5. QED
  BY Zenon, <1>2, <1>3, <1>4 DEF R!SharedRate

\* Servers that share a bucket in Redis and whose clocks agree admit no more
\* than the burst and, for every moment, one refill per server and one for the
\* expiry of the key, however their scripts are delayed and reordered.
THEOREM ServersShareRate == BucketsSpec => []SharedRate
<1>1. BucketsInit => (which = "redis" => RedisInv)
  BY Zenon, RedisInvInit DEF BucketsInit
<1>2. (which = "redis" => RedisInv) /\ [BucketsNext]_bucketsVars => (which = "redis" => RedisInv)'
  <2> SUFFICES ASSUME which = "redis" => RedisInv, [BucketsNext]_bucketsVars, which' = "redis"
               PROVE  RedisInv'
    OBVIOUS
  <2>1. which = "redis" /\ [R!Next]_(R!vars)
    BY Zenon DEF BucketsNext, HedgeStep, ClientStep, RedisStep, bucketsVars, common, R!vars
  <2>2. QED
    BY Zenon, <2>1, RedisStepKeeps
<1>3. (which = "redis" => RedisInv) => SharedRate
  BY RedisInvShared, Zenon DEF SharedRate
<1>4. QED
  BY <1>1, <1>2, <1>3, PTL DEF BucketsSpec

-----------------------------------------------------------------------------
(* The bucket of a client of a server *)

\* The types that survive sums that wrap: a bucket may then be below zero.
ClientTyped ==
    /\ buckets \in [Keys -> [tokens : Int, lastSeen : Int]]
    /\ clock \in Nat
    /\ at \in [Goroutines -> L!Labels]
    /\ key \in [Goroutines -> Keys]
    /\ now \in [Goroutines -> Nat]
    /\ refill \in [Goroutines -> Int]
    /\ cur \in [Goroutines -> Int]
    /\ granted \in [Keys -> Int]
    /\ credited \in [Keys -> Int]

\* The sizes derived from the configuration, and sums that wrap, are integers.
LEMMA ClientSizes ==
    L!capacity \in Int /\ L!refillNs \in Int /\ \A n \in Int : L!Wrap(n) \in Int
<1>1. L!refillNs \in Int
  BY SizesAssumption DEF L!refillNs
<1>2. L!BurstSize \in Int
  BY <1>1, SizesAssumption DEF L!BurstSize
<1>3. L!capacity \in Int
  BY <1>2, SizesAssumption DEF L!capacity
<1>4. \A n \in Int : L!Wrap(n) \in Int
  BY SizesAssumption DEF L!Wrap
<1>5. QED
  BY Zenon, <1>1, <1>3, <1>4

\* Serving one request more is charging one token more.
LEMMA OneMore ==
    ASSUME NEW n \in Int
    PROVE  (n + 1) * OneToken = n * OneToken + OneToken /\ n * OneToken \in Int
BY SizesAssumption

\* Every atomic operation of Allow keeps the types.
LEMMA ClientTypedStep ==
    ASSUME ClientTyped, L!Next
    PROVE  ClientTyped'
<1> USE DEF ClientTyped, L!Labels, L!Goto, L!localVars, L!historyVars
<1>1. CASE L!Tick
  BY <1>1 DEF L!Tick
<1>2. ASSUME NEW g \in Goroutines, NEW k \in Keys, L!Request(g, k)
      PROVE  ClientTyped'
  BY Zenon, <1>2 DEF L!Request
<1>3. ASSUME NEW g \in Goroutines, L!Continue(g)
      PROVE  ClientTyped'
  <2>1. CASE L!Create(g)
    BY Zenon, <2>1 DEF L!Create
  <2>2. CASE L!LoadOrStore(g)
    BY <2>2, ClientSizes DEF L!LoadOrStore
  <2>3. CASE L!ReadNow(g)
    BY Zenon, <2>3 DEF L!ReadNow
  <2>4. CASE L!Swap(g)
    <3>1. buckets' \in [Keys -> [tokens : Int, lastSeen : Int]] /\ at' \in [Goroutines -> L!Labels]
      BY <2>4 DEF L!Swap
    <3>2. ASSUME NEW elapsed \in Int PROVE elapsed * L!refillNs \in Int
      BY ClientSizes
    <3>3. refill' \in [Goroutines -> Int]
      BY <2>4, <3>2, ClientSizes DEF L!Swap
    <3>4. QED
      BY Zenon, <2>4, <3>1, <3>3 DEF L!Swap
  <2>5. CASE L!LoadRefill(g)
    BY Zenon, <2>5 DEF L!LoadRefill, L!Tokens
  <2>6. CASE L!CasRefill(g)
    <3>1. L!Refilled(g) \in Int
      BY ClientSizes DEF L!Refilled, L!AtMost
    <3>2. buckets' \in [Keys -> [tokens : Int, lastSeen : Int]]
      BY <2>6, <3>1 DEF L!CasRefill, L!SetTokens
    <3>3. credited' \in [Keys -> Int]
      BY <2>6, <3>1 DEF L!CasRefill
    <3>4. at' \in [Goroutines -> L!Labels]
      BY Zenon, <2>6 DEF L!CasRefill
    <3>5. QED
      BY Zenon, <2>6, <3>2, <3>3, <3>4 DEF L!CasRefill
  <2>7. CASE L!LoadTake(g)
    <3>1. at' \in [Goroutines -> L!Labels]
      BY Zenon, <2>7 DEF L!LoadTake, L!Return
    <3>2. cur' \in [Goroutines -> Int]
      BY <2>7 DEF L!LoadTake, L!Return, L!Tokens
    <3>3. /\ now' = now \/ now' = [now EXCEPT ![g] = 0]
          /\ refill' = refill \/ refill' = [refill EXCEPT ![g] = 0]
      BY Zenon, <2>7 DEF L!LoadTake, L!Return
    <3>4. QED
      BY <2>7, <3>1, <3>2, <3>3 DEF L!LoadTake
  <2>8. CASE L!CasTake(g)
    <3>1. at' \in [Goroutines -> L!Labels]
      BY Zenon, <2>8 DEF L!CasTake, L!Return
    <3>2. cur' \in [Goroutines -> Int]
      BY <2>8 DEF L!CasTake, L!Return
    <3>3. now' \in [Goroutines -> Nat] /\ refill' \in [Goroutines -> Int]
      BY <2>8 DEF L!CasTake, L!Return
    <3>4. buckets' \in [Keys -> [tokens : Int, lastSeen : Int]]
      <4>1. cur[g] - OneToken \in Int
        BY SizesAssumption
      <4>2. buckets' = buckets \/ buckets' = [buckets EXCEPT ![key[g]].tokens = cur[g] - OneToken]
        BY Zenon, <2>8 DEF L!CasTake, L!SetTokens
      <4>3. QED
        BY <4>1, <4>2
    <3>5. granted' \in [Keys -> Int]
      BY <2>8 DEF L!CasTake
    <3>6. QED
      BY Zenon, <2>8, <3>1, <3>2, <3>3, <3>4, <3>5 DEF L!CasTake
  <2>9. QED
    BY Zenon, <1>3, <2>1, <2>2, <2>3, <2>4, <2>5, <2>6, <2>7, <2>8 DEF L!Continue
<1>4. QED
  BY Zenon, <1>1, <1>2, <1>3 DEF L!Next

-----------------------------------------------------------------------------
\* The first operations of a request: it moves on only with a bucket, and only
\* the first LoadOrStore of a key stores one, which is full.
LEMMA LookupStep ==
    ASSUME ClientTyped, L!Charged, NEW g \in Goroutines,
           (\E k \in Keys : L!Request(g, k)) \/ L!Create(g) \/ L!LoadOrStore(g) \/ L!ReadNow(g)
    PROVE  L!Charged'
<1> USE DEF ClientTyped, L!Charged, L!Goto, L!localVars, L!historyVars
<1>1. ASSUME NEW k \in Keys, L!Request(g, k)
      PROVE  L!Charged'
  BY Zenon, <1>1 DEF L!Request
<1>2. CASE L!Create(g)
  BY Zenon, <1>2 DEF L!Create
<1>3. CASE L!LoadOrStore(g)
  <2> DEFINE full == [tokens |-> L!capacity, lastSeen |-> now[g]]
  <2>1. full # L!NoBucket /\ full.lastSeen >= 0 /\ full.tokens = L!capacity
    BY DEF L!NoBucket
  <2>2. buckets' = IF buckets[key[g]] = L!NoBucket THEN [buckets EXCEPT ![key[g]] = full] ELSE buckets
    BY Zenon, <1>3 DEF L!LoadOrStore
  <2>3. at' = [at EXCEPT ![g] = "now"] /\ UNCHANGED <<key, granted, credited>>
    BY Zenon, <1>3 DEF L!LoadOrStore
  <2> HIDE DEF full
  <2>4. \A k \in Keys : buckets[k] # L!NoBucket => buckets'[k] = buckets[k]
    BY Zenon, <2>2
  <2>5. buckets'[key[g]] # L!NoBucket
    BY Zenon, <2>1, <2>2
  <2>6. \A h \in Goroutines :
           at'[h] \in {"now", "swap", "loadRefill", "casRefill", "loadTake", "casTake"} =>
               buckets'[key'[h]] # L!NoBucket
    BY Zenon, <2>3, <2>4, <2>5
  <2>7. ASSUME NEW k \in Keys
        PROVE  IF buckets'[k] = L!NoBucket THEN granted'[k] = 0 /\ credited'[k] = 0
               ELSE /\ buckets'[k].lastSeen >= 0
                    /\ granted'[k] * OneToken + buckets'[k].tokens = L!capacity + credited'[k]
    <3>1. CASE buckets[k] = L!NoBucket /\ k = key[g]
      BY <2>1, <2>2, <2>3, <3>1, ClientSizes, SizesAssumption
    <3>2. CASE buckets[k] # L!NoBucket \/ k # key[g]
      BY Zenon, <2>2, <2>3, <3>2
    <3>3. QED
      BY Zenon, <3>1, <3>2
  <2>8. QED
    BY Zenon, <2>6, <2>7 DEF L!capacity, L!BurstSize, L!refillNs
<1>4. CASE L!ReadNow(g)
  BY Zenon, <1>4 DEF L!ReadNow
<1>5. QED
  BY Zenon, <1>1, <1>2, <1>3, <1>4

\* A step that moves g on, keeps its key and gives its bucket b, with the
\* accounts balanced, keeps all clients' accounts.
LEMMA BucketStep ==
    ASSUME ClientTyped, L!Charged, NEW g \in Goroutines,
           buckets[key[g]] # L!NoBucket,
           NEW label, at' = [at EXCEPT ![g] = label], key' = key,
           NEW b \in [tokens : Int, lastSeen : Int], b.lastSeen >= 0,
           buckets' = [buckets EXCEPT ![key[g]] = b],
           \A k \in Keys : k # key[g] => granted'[k] = granted[k] /\ credited'[k] = credited[k],
           granted'[key[g]] * OneToken + b.tokens = L!capacity + credited'[key[g]]
    PROVE  L!Charged'
<1> USE DEF ClientTyped, L!Charged
<1>1. b # L!NoBucket
  BY DEF L!NoBucket
<1>2. \A k \in Keys : (buckets[k] # L!NoBucket => buckets'[k] # L!NoBucket)
                      /\ (k # key[g] => buckets'[k] = buckets[k])
  BY Zenon, <1>1
<1>3. \A h \in Goroutines :
         at'[h] \in {"now", "swap", "loadRefill", "casRefill", "loadTake", "casTake"} =>
             buckets'[key'[h]] # L!NoBucket
  BY <1>2
<1>4. ASSUME NEW k \in Keys
      PROVE  IF buckets'[k] = L!NoBucket THEN granted'[k] = 0 /\ credited'[k] = 0
             ELSE /\ buckets'[k].lastSeen >= 0
                  /\ granted'[k] * OneToken + buckets'[k].tokens = L!capacity + credited'[k]
  <2>1. CASE k = key[g]
    BY Zenon, <1>1, <2>1
  <2>2. CASE k # key[g]
    BY Zenon, <1>2, <2>2
  <2>3. QED
    BY Zenon, <2>1, <2>2
<1>5. QED
  BY Zenon, <1>3, <1>4 DEF L!capacity, L!BurstSize, L!refillNs

\* The operations of allow: lastSeen is swapped, a refill is credited as it is
\* added, a served request is charged one token; a swap that failed changes
\* nothing.
LEMMA AllowStep ==
    ASSUME ClientTyped, L!Charged, NEW g \in Goroutines,
           L!Swap(g) \/ L!LoadRefill(g) \/ L!CasRefill(g) \/ L!LoadTake(g) \/ L!CasTake(g)
    PROVE  L!Charged'
<1> DEFINE old == buckets[key[g]]
<1>1. /\ key[g] \in Keys /\ old # L!NoBucket /\ old.lastSeen >= 0
      /\ old \in [tokens : Int, lastSeen : Int]
      /\ granted[key[g]] * OneToken + old.tokens = L!capacity + credited[key[g]]
  BY Zenon DEF ClientTyped, L!Charged, L!Swap, L!LoadRefill, L!CasRefill, L!LoadTake, L!CasTake
<1>2. CASE L!Swap(g)
  <2> DEFINE b == [old EXCEPT !.lastSeen = now[g]]
  <2>1. buckets' = [buckets EXCEPT ![key[g]] = b] /\ UNCHANGED <<key, granted, credited>>
    BY Zenon, <1>2 DEF L!Swap, ClientTyped
  <2>2. b \in [tokens : Int, lastSeen : Int] /\ b.lastSeen >= 0 /\ b.tokens = old.tokens
    BY <1>1 DEF ClientTyped
  <2>3. \E label : at' = [at EXCEPT ![g] = label]
    BY Zenon, <1>2 DEF L!Swap, L!Goto
  <2> HIDE DEF b
  <2>4. QED
    BY Zenon, <1>1, <2>1, <2>2, <2>3, BucketStep
<1>3. CASE L!LoadRefill(g)
  BY Zenon, <1>1, <1>3 DEF L!LoadRefill, L!Goto, ClientTyped, L!Charged, L!historyVars
<1>4. CASE L!CasRefill(g)
  <2>1. CASE L!Tokens(g) = cur[g]
    <3> DEFINE b == [old EXCEPT !.tokens = L!Refilled(g)]
    <3>1. /\ buckets' = [buckets EXCEPT ![key[g]] = b]
          /\ credited' = [credited EXCEPT ![key[g]] = @ + (L!Refilled(g) - cur[g])]
          /\ at' = [at EXCEPT ![g] = "loadTake"] /\ UNCHANGED <<key, granted>>
      BY Zenon, <1>4, <2>1 DEF L!CasRefill, L!SetTokens, L!Goto, ClientTyped
    <3>2. L!Refilled(g) \in Int
      BY ClientSizes DEF L!Refilled, L!AtMost, ClientTyped
    <3>3. b \in [tokens : Int, lastSeen : Int] /\ b.lastSeen >= 0 /\ b.tokens = L!Refilled(g)
      BY Zenon, <1>1, <3>2
    <3>4. old.tokens = cur[g]
      BY Zenon, <2>1 DEF L!Tokens
    <3>5. /\ credited'[key[g]] = credited[key[g]] + (L!Refilled(g) - cur[g])
          /\ \A k \in Keys : k # key[g] => credited'[k] = credited[k]
      BY Zenon, <1>1, <3>1 DEF ClientTyped
    <3>6. granted[key[g]] * OneToken + L!Refilled(g) = L!capacity + credited'[key[g]]
      <4> DEFINE charge == granted[key[g]] * OneToken
      <4>1. charge \in Int /\ cur[g] \in Int /\ credited[key[g]] \in Int /\ L!capacity \in Int
        BY Zenon, <1>1, OneMore, ClientSizes DEF ClientTyped
      <4>2. charge + cur[g] = L!capacity + credited[key[g]]
        BY Zenon, <1>1, <3>4
      <4> HIDE DEF charge
      <4>3. charge + L!Refilled(g) = L!capacity + credited'[key[g]]
        BY SMTT(30), <3>2, <3>5, <4>1, <4>2
      <4>4. QED
        BY Zenon, <4>3 DEF charge
    <3> HIDE DEF b
    <3>7. QED
      BY Zenon, <1>1, <3>1, <3>3, <3>5, <3>6, BucketStep
  <2>2. CASE L!Tokens(g) # cur[g]
    BY Zenon, <1>1, <1>4, <2>2 DEF L!CasRefill, L!Goto, ClientTyped, L!Charged
  <2>3. QED
    BY Zenon, <2>1, <2>2
<1>5. CASE L!LoadTake(g)
  BY Zenon, <1>1, <1>5 DEF L!LoadTake, L!Return, L!Goto, ClientTyped, L!Charged
<1>6. CASE L!CasTake(g)
  <2>1. CASE L!Tokens(g) = cur[g]
    <3> DEFINE b == [old EXCEPT !.tokens = cur[g] - OneToken]
    <3>1. /\ buckets' = [buckets EXCEPT ![key[g]] = b]
          /\ granted' = [granted EXCEPT ![key[g]] = @ + 1]
          /\ at' = [at EXCEPT ![g] = "idle"] /\ UNCHANGED <<key, credited>>
      BY Zenon, <1>6, <2>1 DEF L!CasTake, L!SetTokens, L!Return, L!Goto, ClientTyped
    <3>2. cur[g] \in Int /\ OneToken \in Int /\ cur[g] - OneToken \in Int
      BY SizesAssumption DEF ClientTyped
    <3>3. b \in [tokens : Int, lastSeen : Int] /\ b.lastSeen >= 0 /\ b.tokens = cur[g] - OneToken
      BY Zenon, <1>1, <3>2
    <3>4. old.tokens = cur[g]
      BY Zenon, <2>1 DEF L!Tokens
    <3>5. /\ granted'[key[g]] = granted[key[g]] + 1
          /\ \A k \in Keys : k # key[g] => granted'[k] = granted[k]
      BY Zenon, <1>1, <3>1 DEF ClientTyped
    <3>6. granted'[key[g]] * OneToken + (cur[g] - OneToken) = L!capacity + credited[key[g]]
      <4> DEFINE charge == granted[key[g]] * OneToken
      <4>1. charge \in Int /\ granted'[key[g]] * OneToken = charge + OneToken
        BY Zenon, <1>1, <3>5, OneMore DEF ClientTyped
      <4>2. charge + cur[g] = L!capacity + credited[key[g]]
        BY Zenon, <1>1, <3>4
      <4> HIDE DEF charge
      <4>3. QED
        BY <3>2, <4>1, <4>2
    <3> HIDE DEF b
    <3>7. QED
      BY Zenon, <1>1, <3>1, <3>3, <3>5, <3>6, BucketStep
  <2>2. CASE L!Tokens(g) # cur[g]
    BY Zenon, <1>1, <1>6, <2>2 DEF L!CasTake, L!Goto, ClientTyped, L!Charged
  <2>3. QED
    BY Zenon, <2>1, <2>2
<1>7. QED
  BY Zenon, <1>2, <1>3, <1>4, <1>5, <1>6

LEMMA ClientStepCharged ==
    ASSUME ClientTyped, L!Charged, [L!Next]_(L!vars)
    PROVE  ClientTyped' /\ L!Charged'
<1>1. CASE L!Tick
  BY Zenon, <1>1, ClientTypedStep DEF L!Tick, L!Next, L!Charged, L!capacity, L!BurstSize, L!refillNs, L!historyVars
<1>2. CASE \E g \in Goroutines : L!Continue(g) \/ \E k \in Keys : L!Request(g, k)
  BY Zenon, <1>2, ClientTypedStep, LookupStep, AllowStep DEF L!Next, L!Continue
<1>3. CASE UNCHANGED L!vars
  BY Zenon, <1>3 DEF L!vars, ClientTyped, L!Charged, L!capacity, L!BurstSize, L!refillNs
<1>4. QED
  BY Zenon, <1>1, <1>2, <1>3 DEF L!Next

LEMMA ClientAccounts == BucketsSpec => [](which = "client" => ClientTyped /\ L!Charged)
<1>1. BucketsInit => (which = "client" => ClientTyped /\ L!Charged)
  <2>1. ASSUME L!Init PROVE ClientTyped /\ L!Charged
    BY <2>1 DEF L!Init, ClientTyped, L!Charged, L!Labels, L!NoBucket
  <2>2. QED
    BY Zenon, <2>1 DEF BucketsInit
<1>2. (which = "client" => ClientTyped /\ L!Charged) /\ [BucketsNext]_bucketsVars
      => (which = "client" => ClientTyped /\ L!Charged)'
  <2> SUFFICES ASSUME which = "client" => ClientTyped /\ L!Charged, [BucketsNext]_bucketsVars, which' = "client"
               PROVE  ClientTyped' /\ L!Charged'
    OBVIOUS
  <2>1. which = "client" /\ [L!Next]_(L!vars)
    BY Zenon DEF BucketsNext, HedgeStep, ClientStep, RedisStep, bucketsVars, common, clientOnly, L!vars
  <2>2. QED
    BY Zenon, <2>1, ClientStepCharged
<1>3. QED
  BY <1>1, <1>2, PTL DEF BucketsSpec

\* However the requests of a client create and use its bucket at once, all are
\* charged to the one bucket that was stored first, and what was granted and
\* what is left add up to the burst and the refills: also where the sum of a
\* refill wraps (ratelimit.go, bucket and allow).
THEOREM ClientTokensConserved == BucketsSpec => [](which = "client" => L!TokensConserved)
<1>1. L!Charged => L!TokensConserved
  BY Zenon DEF L!Charged, L!TokensConserved
<1>2. QED
  BY <1>1, ClientAccounts, PTL

-----------------------------------------------------------------------------
(* The refills of a client's bucket, where no sum wraps *)

\* Neither the burst in parts of a token nor what a wait adds to it is as large as
\* 2^63.
NoOverflow == L!capacity + MaxTime * L!refillNs < IntHalf

\* Between the swap of lastSeen and the addition to the tokens, a request owes its
\* bucket a refill for the e[g] moments that it saw elapse.
Owing(k) == {g \in Goroutines : at[g] \in {"loadRefill", "casRefill"} /\ key[g] = k}

Owed(e, W) == {p \in Goroutines \X (1..MaxTime) : p[1] \in W /\ p[2] <= e[p[1]]}

ClientPaid(k, M, U, e) ==
    /\ M <= clock /\ buckets[k].lastSeen <= M
    /\ \A g \in Goroutines : at[g] = "swap" /\ key[g] = k =>
          \A t \in 1..M : <<g, t>> \in U => t <= now[g]
    /\ \A g \in Owing(k) : refill[g] = e[g] * L!refillNs
    /\ credited[k] <= L!refillNs * (Cardinality(U) - (M - buckets[k].lastSeen) - Cardinality(Owed(e, Owing(k))))

Account(k) ==
    \E M \in 0..clock : \E U \in SUBSET (Goroutines \X (1..M)) :
        \E e \in [Goroutines -> 0..MaxTime] : ClientPaid(k, M, U, e)

InRange ==
    /\ L!TypeOK
    /\ \A g \in Goroutines : now[g] <= clock /\ (at[g] = "casTake" => cur[g] >= OneToken)

ClientInv ==
    /\ InRange /\ L!Charged
    /\ \A k \in Keys : buckets[k] # L!NoBucket => Account(k)

\* A request that found the key left alone is the only one to change the bucket,
\* until another swaps lastSeen: it finds what the wait has added.
Lone(g) ==
    gap[g] > 0 =>
        /\ at[g] \in {"loadRefill", "casRefill", "loadTake", "casTake"}
        /\ at[g] \in {"loadRefill", "casRefill"} => refill[g] = gap[g] * L!refillNs
        /\ at[g] \in {"loadTake", "casTake"} =>
              L!Tokens(g) >= L!AtMost(gap[g] * L!refillNs, L!capacity)
        /\ \A h \in Goroutines \ {g} :
              key[h] = key[g] => at[h] \in {"idle", "create", "store", "now", "swap"}

LEMMA ClientRates ==
    /\ L!refillNs \in Nat /\ L!capacity \in Nat /\ L!capacity >= OneToken
    /\ OneToken \in Nat /\ IntHalf \in Nat /\ MaxTime \in Nat
<1>1. L!refillNs \in Nat
  BY SizesAssumption DEF L!refillNs
<1>2. L!BurstSize \in Nat /\ L!BurstSize >= 1
  BY <1>1, SizesAssumption DEF L!BurstSize
<1>3. PICK b \in Nat : L!BurstSize = b + 1
  BY <1>2
<1>4. PICK more \in Nat : more = b * OneToken
  BY Zenon, SizesAssumption, ProductNat
<1>5. (b + 1) * OneToken = more + OneToken
  BY <1>4, SizesAssumption
<1>6. L!capacity = more + OneToken
  BY Zenon, <1>3, <1>5 DEF L!capacity
<1>7. QED
  BY <1>1, <1>6, SizesAssumption

\* A number that fits does not wrap.
\* A clock reading less an earlier one.
LEMMA Elapsed ==
    ASSUME NEW n \in 0..MaxTime, NEW m \in 0..MaxTime, n - m > 0
    PROVE  n - m \in 0..MaxTime
BY ClientRates

\* A bucket without a whole token was refilled with less than one.
LEMMA TooLittle ==
    ASSUME NEW t \in Nat, NEW r \in Nat, t >= L!AtMost(r, L!capacity), t < OneToken
    PROVE  r < OneToken
BY ClientRates DEF L!AtMost

LEMMA ZeroNotPositive == ~(0 > 0)
OBVIOUS

LEMMA WrapFits == ASSUME NEW n \in 0..IntHalf - 1 PROVE L!Wrap(n) = n
<1> DEFINE w == 2 * IntHalf  m == n + IntHalf
<1>1. IntHalf \in Nat /\ w \in Nat /\ w > 0 /\ m \in 0..w - 1
  BY ClientRates, SizesAssumption
<1>2. \A a \in Nat : \A b \in 0..a - 1 : a > 0 => b % a = b
  OBVIOUS
<1>3. m % w = m
  BY Zenon, <1>1, <1>2
<1>4. QED
  BY <1>1, <1>3 DEF L!Wrap

LEMMA RefillFits ==
    ASSUME NoOverflow, NEW e \in 0..MaxTime, NEW c \in 0..L!capacity
    PROVE  /\ e * L!refillNs \in Nat
           /\ L!Wrap(e * L!refillNs) = e * L!refillNs
           /\ L!Wrap(c + e * L!refillNs) = c + e * L!refillNs
<1> DEFINE r == e * L!refillNs  most == MaxTime * L!refillNs
<1>1. r \in Nat /\ most \in Nat
  BY ClientRates, ProductNat
<1>2. r <= most
  BY ClientRates, Products
<1>3. L!capacity + most < IntHalf
  BY Zenon DEF NoOverflow
<1> HIDE DEF r, most
<1>4. r \in 0..IntHalf - 1 /\ c + r \in 0..IntHalf - 1
  BY <1>1, <1>2, <1>3, ClientRates
<1>5. L!Wrap(r) = r /\ L!Wrap(c + r) = c + r
  BY Zenon, <1>4, WrapFits
<1>6. QED
  BY Zenon, <1>1, <1>5 DEF r

\* What a refill swaps in lies between what was there and the capacity, and adds
\* no more than was owed.
LEMMA ClientRefilled ==
    ASSUME NoOverflow, L!TypeOK, NEW g \in Goroutines, NEW e \in 0..MaxTime, refill[g] = e * L!refillNs
    PROVE  /\ refill[g] \in Nat
           /\ L!Refilled(g) \in cur[g]..L!capacity /\ L!Refilled(g) - cur[g] <= refill[g]
           /\ L!Refilled(g) >= L!AtMost(refill[g], L!capacity)
<1>1. cur[g] \in 0..L!capacity
  BY Zenon DEF L!TypeOK
<1>2. refill[g] \in Nat /\ L!Wrap(cur[g] + refill[g]) = cur[g] + refill[g]
  BY Zenon, <1>1, RefillFits
<1>3. QED
  BY <1>1, <1>2, ClientRates DEF L!Refilled, L!AtMost

LEMMA OwedRefill ==
    ASSUME ClientInv, NEW g \in Goroutines, at[g] \in {"loadRefill", "casRefill"}
    PROVE  \E e \in 0..MaxTime : refill[g] = e * L!refillNs
<1>1. key[g] \in Keys /\ buckets[key[g]] # L!NoBucket
  BY Zenon DEF ClientInv, InRange, L!TypeOK, L!Charged
<1>2. PICK M \in 0..clock : \E U \in SUBSET (Goroutines \X (1..M)) :
              \E e \in [Goroutines -> 0..MaxTime] : ClientPaid(key[g], M, U, e)
  BY Zenon, <1>1 DEF ClientInv, Account
<1>3. PICK U \in SUBSET (Goroutines \X (1..M)), e \in [Goroutines -> 0..MaxTime] : ClientPaid(key[g], M, U, e)
  BY Zenon, <1>2
<1>4. refill[g] = e[g] * L!refillNs
  BY Zenon, <1>3 DEF ClientPaid, Owing
<1>5. QED
  BY Zenon, <1>4

\* Every atomic operation keeps the tokens between nothing and the capacity.
LEMMA InRangeStep ==
    ASSUME NoOverflow, ClientInv, [L!Next]_(L!vars)
    PROVE  InRange'
<1> DEFINE Held == [tokens : 0..L!capacity, lastSeen : 0..MaxTime]
<1>0. InRange /\ L!Charged
  BY Zenon DEF ClientInv
<1>a. /\ buckets \in [Keys -> Held \cup {L!NoBucket}] /\ clock \in 0..MaxTime
      /\ at \in [Goroutines -> L!Labels] /\ key \in [Goroutines -> Keys] /\ now \in [Goroutines -> 0..MaxTime]
      /\ refill \in [Goroutines -> -IntHalf..IntHalf - 1] /\ cur \in [Goroutines -> 0..L!capacity]
      /\ granted \in [Keys -> Nat] /\ credited \in [Keys -> Int] /\ gap \in [Goroutines -> 0..MaxTime]
  BY Zenon, <1>0 DEF InRange, L!TypeOK
<1>b. \A g \in Goroutines : now[g] <= clock /\ (at[g] = "casTake" => cur[g] >= OneToken)
  BY Zenon, <1>0 DEF InRange
<1>c. IntHalf \in Nat /\ IntHalf > 0 /\ 0 \in -IntHalf..IntHalf - 1 /\ 0 \in 0..L!capacity /\ MaxTime \in Nat
  BY ClientRates, SizesAssumption
<1>e. 0 \in 0..MaxTime /\ 0 <= clock
  BY <1>a, <1>c
<1> DEFINE Kept == /\ buckets' \in [Keys -> Held \cup {L!NoBucket}] /\ clock' \in 0..MaxTime
                   /\ at' \in [Goroutines -> L!Labels] /\ key' \in [Goroutines -> Keys]
                   /\ now' \in [Goroutines -> 0..MaxTime]
                   /\ refill' \in [Goroutines -> -IntHalf..IntHalf - 1] /\ cur' \in [Goroutines -> 0..L!capacity]
                   /\ granted' \in [Keys -> Nat] /\ credited' \in [Keys -> Int]
                   /\ gap' \in [Goroutines -> 0..MaxTime]
                   /\ \A g \in Goroutines : now'[g] <= clock' /\ (at'[g] = "casTake" => cur'[g] >= OneToken)
<1>d. SUFFICES Kept
  BY Zenon DEF InRange, L!TypeOK
<1> USE DEF L!Labels, L!Goto, L!localVars, L!historyVars
<1>1. CASE L!Tick
  BY <1>1, <1>a, <1>b, <1>c DEF L!Tick
<1>2. ASSUME NEW g \in Goroutines, NEW k \in Keys, L!Request(g, k) PROVE Kept
  BY Zenon, <1>2, <1>a, <1>b DEF L!Request
<1>3. ASSUME NEW g \in Goroutines, L!Create(g) PROVE Kept
  BY <1>3, <1>a, <1>b, <1>c DEF L!Create
<1>4. ASSUME NEW g \in Goroutines, L!LoadOrStore(g) PROVE Kept
  <2>1. [tokens |-> L!capacity, lastSeen |-> now[g]] \in Held
    BY <1>a, ClientRates
  <2>2. buckets' \in [Keys -> Held \cup {L!NoBucket}]
    BY Zenon, <1>4, <1>a, <2>1 DEF L!LoadOrStore
  <2>3. QED
    BY Zenon, <1>4, <1>a, <1>b, <2>2 DEF L!LoadOrStore
<1>5. ASSUME NEW g \in Goroutines, L!ReadNow(g) PROVE Kept
  BY <1>5, <1>a, <1>b, <1>c DEF L!ReadNow
<1>6. ASSUME NEW g \in Goroutines, L!Swap(g) PROVE Kept
  <2> DEFINE b == buckets[key[g]]  elapsed == now[g] - b.lastSeen
  <2>1. b \in Held /\ b # L!NoBucket
    BY Zenon, <1>0, <1>6, <1>a DEF L!Charged, L!Swap
  <2>2. elapsed \in Int /\ elapsed <= MaxTime
    BY <1>a, <1>c, <2>1
  <2>3. buckets' = [buckets EXCEPT ![key[g]] = [b EXCEPT !.lastSeen = now[g]]]
    BY Zenon, <1>6, <1>a DEF L!Swap
  <2>4. [b EXCEPT !.lastSeen = now[g]] \in Held
    BY Zenon, <1>a, <2>1
  <2>5. buckets' \in [Keys -> Held \cup {L!NoBucket}]
    BY Zenon, <1>a, <2>3, <2>4
  <2>6. refill' \in [Goroutines -> -IntHalf..IntHalf - 1]
    <3>1. refill' = [refill EXCEPT ![g] = IF elapsed > 0 THEN L!Wrap(elapsed * L!refillNs) ELSE 0]
      BY Zenon, <1>6 DEF L!Swap
    <3>2. elapsed > 0 => L!Wrap(elapsed * L!refillNs) \in -IntHalf..IntHalf - 1
      <4> HIDE DEF elapsed
      <4>1. elapsed * L!refillNs \in Int
        BY <2>2, ClientRates, Products
      <4>2. QED
        BY <1>c, <4>1 DEF L!Wrap
    <3> HIDE DEF elapsed
    <3>3. QED
      BY Zenon, <1>a, <1>c, <3>1, <3>2
  <2>7. gap' \in [Goroutines -> 0..MaxTime]
    <3>1. gap' = [h \in Goroutines |->
                 IF h = g THEN IF L!Rivals(g) = {} /\ elapsed > 0 THEN elapsed ELSE 0
                 ELSE IF h \in L!Rivals(g) THEN 0 ELSE gap[h]]
      BY Zenon, <1>6 DEF L!Swap
    <3> HIDE DEF elapsed
    <3>2. QED
      BY <1>a, <1>c, <2>2, <3>1
  <2>8. at' \in [Goroutines -> L!Labels] /\ \A h \in Goroutines : at'[h] = "casTake" => at[h] = "casTake"
    <3>1. \E l \in {"loadRefill", "loadTake"} : at' = [at EXCEPT ![g] = l]
      BY Zenon, <1>6 DEF L!Swap
    <3>2. QED
      BY Zenon, <1>a, <3>1
  <2>9. UNCHANGED <<clock, key, now, cur, granted, credited>>
    BY Zenon, <1>6 DEF L!Swap
  <2>10. QED
    BY Zenon, <1>a, <1>b, <2>5, <2>6, <2>7, <2>8, <2>9
<1>7. ASSUME NEW g \in Goroutines, L!LoadRefill(g) PROVE Kept
  <2>1. L!Tokens(g) \in 0..L!capacity
    BY Zenon, <1>0, <1>7, <1>a DEF L!Charged, L!LoadRefill, L!Tokens
  <2>2. QED
    BY Zenon, <1>7, <1>a, <1>b, <2>1 DEF L!LoadRefill
<1>8. ASSUME NEW g \in Goroutines, L!CasRefill(g) PROVE Kept
  <2> DEFINE b == buckets[key[g]]
  <2>1. b \in Held
    BY Zenon, <1>0, <1>8, <1>a DEF L!Charged, L!CasRefill
  <2>2. PICK e \in 0..MaxTime : refill[g] = e * L!refillNs
    BY Zenon, <1>8, OwedRefill DEF L!CasRefill
  <2>3. L!Refilled(g) \in cur[g]..L!capacity
    BY Zenon, <1>0, <2>2, ClientRefilled DEF InRange
  <2>4. [b EXCEPT !.tokens = L!Refilled(g)] \in Held
    BY <1>a, <2>1, <2>3
  <2>5. buckets' = buckets \/ buckets' = [buckets EXCEPT ![key[g]] = [b EXCEPT !.tokens = L!Refilled(g)]]
    BY Zenon, <1>8, <1>a DEF L!CasRefill, L!SetTokens
  <2>6. buckets' \in [Keys -> Held \cup {L!NoBucket}]
    BY Zenon, <1>a, <2>4, <2>5
  <2>7. credited' \in [Keys -> Int]
    <3>1. credited' = credited \/ credited' = [credited EXCEPT ![key[g]] = @ + (L!Refilled(g) - cur[g])]
      BY Zenon, <1>8 DEF L!CasRefill
    <3>2. QED
      BY <1>a, <2>3, <3>1
  <2>8. at' \in [Goroutines -> L!Labels] /\ \A h \in Goroutines : at'[h] = "casTake" => at[h] = "casTake"
    <3>1. \E l \in {"loadRefill", "loadTake"} : at' = [at EXCEPT ![g] = l]
      BY Zenon, <1>8 DEF L!CasRefill
    <3>2. QED
      BY Zenon, <1>a, <3>1
  <2>9. UNCHANGED <<clock, key, now, refill, cur, granted, gap>>
    BY Zenon, <1>8 DEF L!CasRefill
  <2>10. QED
    BY Zenon, <1>a, <1>b, <2>6, <2>7, <2>8, <2>9
<1>9. ASSUME NEW g \in Goroutines, L!LoadTake(g) PROVE Kept
  <2>1. L!Tokens(g) \in 0..L!capacity
    BY Zenon, <1>0, <1>9, <1>a DEF L!Charged, L!LoadTake, L!Tokens
  <2>2. UNCHANGED <<buckets, clock, key, granted, credited>>
    BY Zenon, <1>9 DEF L!LoadTake
  <2>3. CASE L!Tokens(g) < OneToken
    <3>1. L!Return(g)
      BY Zenon, <1>9, <2>3 DEF L!LoadTake
    <3>2. QED
      BY Zenon, <1>a, <1>b, <1>c, <1>e, <2>2, <3>1 DEF L!Return
  <2>4. CASE ~(L!Tokens(g) < OneToken)
    <3>1. /\ cur' = [cur EXCEPT ![g] = L!Tokens(g)] /\ at' = [at EXCEPT ![g] = "casTake"]
          /\ UNCHANGED <<now, refill, gap>>
      BY Zenon, <1>9, <2>4 DEF L!LoadTake
    <3>2. L!Tokens(g) >= OneToken
      BY <2>1, <2>4, ClientRates
    <3>3. QED
      BY Zenon, <1>a, <1>b, <2>1, <2>2, <3>1, <3>2
  <2>5. QED
    BY Zenon, <2>3, <2>4
<1>10. ASSUME NEW g \in Goroutines, L!CasTake(g) PROVE Kept
  <2> DEFINE b == buckets[key[g]]
  <2>1. b \in Held /\ cur[g] >= OneToken
    BY Zenon, <1>0, <1>10, <1>a, <1>b DEF L!Charged, L!CasTake
  <2>2. UNCHANGED <<clock, key, credited>>
    BY Zenon, <1>10 DEF L!CasTake
  <2>3. CASE L!Tokens(g) = cur[g]
    <3>1. /\ buckets' = [buckets EXCEPT ![key[g]] = [b EXCEPT !.tokens = cur[g] - OneToken]]
          /\ granted' = [granted EXCEPT ![key[g]] = @ + 1] /\ L!Return(g)
      BY Zenon, <1>10, <1>a, <2>3 DEF L!CasTake, L!SetTokens
    <3>2. [b EXCEPT !.tokens = cur[g] - OneToken] \in Held
      BY <1>a, <2>1, ClientRates
    <3>3. buckets' \in [Keys -> Held \cup {L!NoBucket}]
      BY Zenon, <1>a, <3>1, <3>2
    <3>4. granted' \in [Keys -> Nat]
      BY <1>a, <3>1
    <3>5. QED
      BY Zenon, <1>a, <1>b, <1>c, <1>e, <2>2, <3>1, <3>3, <3>4 DEF L!Return
  <2>4. CASE L!Tokens(g) # cur[g]
    BY Zenon, <1>10, <1>a, <1>b, <2>2, <2>4 DEF L!CasTake
  <2>5. QED
    BY Zenon, <2>3, <2>4
<1>11. CASE UNCHANGED L!vars
  BY Zenon, <1>11, <1>a, <1>b DEF L!vars
<1>12. QED
  BY Zenon, <1>1, <1>2, <1>3, <1>4, <1>5, <1>6, <1>7, <1>8, <1>9, <1>10, <1>11 DEF L!Next, L!Continue

-----------------------------------------------------------------------------
\* A request that starts to owe, or that pays, changes what is owed by its e[g].
LEMMA OwedMore ==
    ASSUME NEW W \in SUBSET Goroutines, NEW g \in Goroutines, g \notin W,
           NEW e \in [Goroutines -> 0..MaxTime], NEW f \in [Goroutines -> 0..MaxTime],
           \A h \in W : f[h] = e[h]
    PROVE  /\ Cardinality(Owed(e, W)) \in Nat
           /\ Cardinality(Owed(f, W \cup {g})) = Cardinality(Owed(e, W)) + f[g]
<1>1. Owed(e, W) \in SUBSET (Goroutines \X (1..MaxTime))
  BY Zenon DEF Owed
<1>2. IsFiniteSet(Owed(e, W)) /\ Cardinality(Owed(e, W)) \in Nat
  BY Zenon, <1>1, PairsFinite, ClientRates
<1>3. \A t \in Nat : <<g, t>> \in Owed(e, W) => t <= 0
  BY Zenon DEF Owed
<1>4. f[g] \in 0..MaxTime
  OBVIOUS
<1>5. Cardinality(With(Owed(e, W), g, 0, f[g])) = Cardinality(Owed(e, W)) + (f[g] - 0)
  <2>1. f[g] \in Nat /\ 0 <= f[g] /\ 0 \in Nat
    BY <1>4
  <2>2. QED
    BY Zenon, <1>2, <1>3, <2>1, ColumnAdded
<1>6. Owed(f, W \cup {g}) = With(Owed(e, W), g, 0, f[g])
  <2>1. ASSUME NEW p \in Owed(f, W \cup {g}) PROVE p \in With(Owed(e, W), g, 0, f[g])
    <3>1. PICK h \in Goroutines, t \in 1..MaxTime : p = <<h, t>>
      BY DEF Owed
    <3>2. h \in W \cup {g} /\ t <= f[h]
      BY Zenon, <3>1 DEF Owed
    <3>3. CASE h = g
      BY <1>4, <3>1, <3>2, <3>3 DEF With
    <3>4. CASE h \in W
      BY Zenon, <3>1, <3>2, <3>4 DEF With, Owed
    <3>5. QED
      BY Zenon, <3>2, <3>3, <3>4
  <2>2. ASSUME NEW p \in With(Owed(e, W), g, 0, f[g]) PROVE p \in Owed(f, W \cup {g})
    <3>1. CASE p \in Owed(e, W)
      BY Zenon, <3>1 DEF Owed
    <3>2. CASE p \in {g} \X (1..f[g])
      <4>1. PICK t \in 1..f[g] : p = <<g, t>>
        BY <3>2
      <4>2. t \in 1..MaxTime /\ t <= f[g]
        BY <1>4, <4>1, ClientRates
      <4>3. QED
        BY Zenon, <4>1, <4>2 DEF Owed
    <3>3. QED
      BY <2>2, <3>1, <3>2 DEF With
  <2>3. QED
    BY Zenon, <2>1, <2>2
<1>7. QED
  BY <1>2, <1>4, <1>5, <1>6

\* A step that neither moves lastSeen nor credits the bucket of k, nor changes who
\* owes it a refill.
LEMMA PaidSame ==
    ASSUME InRange, NEW k \in Keys, NEW M \in 0..clock, NEW U \in SUBSET (Goroutines \X (1..M)),
           NEW e \in [Goroutines -> 0..MaxTime], ClientPaid(k, M, U, e),
           clock' \in {clock, clock + 1}, buckets'[k].lastSeen = buckets[k].lastSeen, credited'[k] = credited[k],
           Owing(k)' = Owing(k), \A g \in Owing(k) : refill'[g] = refill[g],
           \A g \in Goroutines : at'[g] = "swap" /\ key'[g] = k =>
               (at[g] = "swap" /\ key[g] = k /\ now'[g] = now[g]) \/ now'[g] = clock
    PROVE  M \in 0..clock' /\ ClientPaid(k, M, U, e)'
<1>1. clock \in Nat /\ M <= clock'
  BY SMTT(30) DEF InRange, L!TypeOK
<1>2. \A g \in Goroutines : at'[g] = "swap" /\ key'[g] = k => \A t \in 1..M : <<g, t>> \in U => t <= now'[g]
  BY <1>1 DEF ClientPaid
<1>3. \A g \in Owing(k) : refill'[g] = e[g] * L!refillNs
  BY Zenon DEF ClientPaid
<1>4. credited'[k] <= L!refillNs * (Cardinality(U) - (M - buckets'[k].lastSeen) - Cardinality(Owed(e, Owing(k))))
  BY Zenon DEF ClientPaid
<1>5. buckets'[k].lastSeen <= M
  BY Zenon DEF ClientPaid
<1>6. ClientPaid(k, M, U, e)'
  BY Zenon, <1>1, <1>2, <1>3, <1>4, <1>5 DEF ClientPaid
<1>7. M \in 0..clock'
  BY <1>1
<1>8. QED
  BY Zenon, <1>6, <1>7

\* A bucket that is stored owes nothing and is owed nothing.
LEMMA StorePaid ==
    ASSUME InRange, L!Charged, NEW g \in Goroutines, L!LoadOrStore(g), NEW k \in Keys, k = key[g],
           buckets[k] = L!NoBucket
    PROVE  Account(k)'
<1> DEFINE e == [h \in Goroutines |-> 0]
<1>1. PICK n \in Nat : n = now[g]
  BY DEF InRange, L!TypeOK
<1>2. n <= clock /\ clock \in Nat /\ e \in [Goroutines -> 0..MaxTime]
  BY <1>1, ClientRates DEF InRange, L!TypeOK
<1>3. buckets'[k].lastSeen = n /\ credited'[k] = 0 /\ clock' = clock
  BY Zenon, <1>1 DEF L!LoadOrStore, L!Charged, L!historyVars, InRange, L!TypeOK
<1>4. Owing(k)' = {}
  BY Zenon DEF Owing, L!LoadOrStore, L!Goto, L!Charged, InRange, L!TypeOK
<1>5. Owed(e, {}) = {} /\ Cardinality({}) = 0
  BY Zenon, FS_EmptySet DEF Owed
<1>6. L!refillNs * (0 - (n - n) - 0) = 0
  BY <1>1, ClientRates
<1> HIDE DEF e
<1>7. ClientPaid(k, n, {}, e)'
  <2>1. Cardinality(Owed(e, Owing(k)')) = 0
    BY Zenon, <1>4, <1>5
  <2>2. L!refillNs * (Cardinality({}) - (n - buckets'[k].lastSeen) - Cardinality(Owed(e, Owing(k)'))) = 0
    BY Zenon, <1>3, <1>5, <1>6, <2>1
  <2>3. \A h \in Owing(k)' : refill'[h] = e[h] * L!refillNs
    BY Zenon, <1>4
  <2>4. QED
    BY <1>2, <1>3, <2>2, <2>3 DEF ClientPaid
<1>8. {} \in SUBSET (Goroutines \X (1..n)) /\ n \in 0..clock'
  BY <1>1, <1>2, <1>3
<1>9. QED
  BY Zenon, <1>2, <1>7, <1>8 DEF Account

\* The swap of lastSeen, forward or back, is paid for by the pairs used up, and
\* what it saw elapse is owed.
LEMMA SwapPaid ==
    ASSUME NoOverflow, InRange, L!Charged, NEW g \in Goroutines, L!Swap(g), NEW k \in Keys, k = key[g],
           NEW M \in 0..clock, NEW U \in SUBSET (Goroutines \X (1..M)),
           NEW e \in [Goroutines -> 0..MaxTime], ClientPaid(k, M, U, e)
    PROVE  Account(k)'
<1>1. PICK n \in 0..MaxTime : n = now[g]
  BY Zenon DEF InRange, L!TypeOK
<1>2. PICK s \in 0..MaxTime : s = buckets[k].lastSeen
  BY Zenon DEF InRange, L!TypeOK, L!Charged, L!Swap
<1>3. /\ at[g] = "swap" /\ key' = key /\ clock' = clock /\ now' = now /\ credited' = credited
      /\ at' = [at EXCEPT ![g] = IF n - s > 0 THEN "loadRefill" ELSE "loadTake"]
      /\ refill' = [refill EXCEPT ![g] = IF n - s > 0 THEN L!Wrap((n - s) * L!refillNs) ELSE 0]
  BY Zenon, <1>1, <1>2 DEF L!Swap, L!Goto
<1>4. buckets'[k].lastSeen = n
  BY <1>1 DEF L!Swap, InRange, L!TypeOK
<1>5. /\ clock \in Nat /\ n <= clock /\ s <= M /\ M \in Nat /\ L!refillNs \in Nat
      /\ at \in [Goroutines -> L!Labels] /\ refill \in [Goroutines -> Int]
  BY <1>1, <1>2, ClientRates DEF InRange, L!TypeOK, ClientPaid
<1>6. \A t \in 1..M : <<g, t>> \in U => t <= n
  BY Zenon, <1>1, <1>3 DEF ClientPaid
<1>7. PICK N \in Nat : \E V \in SUBSET (Goroutines \X (1..N)) : Moves(M, U, s, g, n, N, V)
  <2>1. s \in 0..M /\ n \in Nat
    BY <1>5
  <2>2. QED
    BY <1>5, <1>6, <2>1, TimeMoved, Zenon
<1>8. PICK V \in SUBSET (Goroutines \X (1..N)) : Moves(M, U, s, g, n, N, V)
  BY Zenon, <1>7
<1> DEFINE el == IF n > s THEN n - s ELSE 0
<1>9. /\ n <= N /\ N \in 0..clock
      /\ \A h \in Goroutines \ {g} : \A t \in Nat : <<h, t>> \in V => <<h, t>> \in U
      /\ Cardinality(V) - (N - n) = Cardinality(U) - (M - s) + el
  BY <1>5, <1>8 DEF Moves
<1>10. \A h \in Goroutines : at'[h] = "swap" /\ key'[h] = k =>
           \A t \in 1..N : <<h, t>> \in V => t <= now'[h]
  <2> SUFFICES ASSUME NEW h \in Goroutines, at'[h] = "swap", key'[h] = k, NEW t \in 1..N, <<h, t>> \in V
               PROVE  t <= now'[h]
    OBVIOUS
  <2>1. h # g /\ at[h] = "swap" /\ key[h] = k
    BY Zenon, <1>3, <1>5
  <2>2. <<h, t>> \in U
    BY <1>9, <2>1
  <2>3. QED
    BY Zenon, <1>3, <2>1, <2>2 DEF ClientPaid
<1>11. g \notin Owing(k)
  BY Zenon, <1>3 DEF Owing
<1> DEFINE W == Owing(k)  f == [e EXCEPT ![g] = el]
<1>12. el \in 0..MaxTime /\ W \in SUBSET Goroutines
  BY ClientRates DEF Owing
<1>13. f \in [Goroutines -> 0..MaxTime] /\ f[g] = el /\ \A h \in W : f[h] = e[h]
  <2> HIDE DEF el
  <2>1. QED
    BY Zenon, <1>11, <1>12
<1>14. W' = IF n > s THEN W \cup {g} ELSE W
  <2>1. CASE n > s
    <3>1. at' = [at EXCEPT ![g] = "loadRefill"]
      <4>1. n - s > 0
        BY <2>1, ClientRates
      <4>2. QED
        BY <1>3, <4>1, Zenon
    <3>2. QED
      BY Zenon, <1>3, <1>5, <2>1, <3>1 DEF Owing
  <2>2. CASE ~(n > s)
    <3>1. at' = [at EXCEPT ![g] = "loadTake"]
      <4>1. ~(n - s > 0)
        BY <2>2, ClientRates
      <4>2. QED
        BY <1>3, <4>1, Zenon
    <3>2. QED
      BY Zenon, <1>3, <1>5, <2>2, <3>1 DEF Owing
  <2>3. QED
    BY Zenon, <2>1, <2>2
<1>15. \A h \in W' : refill'[h] = f[h] * L!refillNs
  <2> SUFFICES ASSUME NEW h \in W' PROVE refill'[h] = f[h] * L!refillNs
    OBVIOUS
  <2>1. CASE h = g
    <3>1. n > s
      BY Zenon, <1>11, <1>14, <2>1
    <3>2. L!Wrap((n - s) * L!refillNs) = (n - s) * L!refillNs
      <4>1. n - s \in 0..MaxTime /\ 0 \in 0..L!capacity
        BY <3>1, ClientRates
      <4>2. QED
        BY Zenon, <4>1, RefillFits
    <3>3. refill'[g] = (n - s) * L!refillNs
      BY <1>3, <1>5, <3>1, <3>2
    <3>4. QED
      BY Zenon, <1>13, <2>1, <3>1, <3>3
  <2>2. CASE h # g
    <3>1. h \in W /\ refill'[h] = refill[h]
      BY <1>3, <1>5, <1>14, <2>2
    <3>2. QED
      BY Zenon, <1>13, <3>1 DEF ClientPaid
  <2>3. QED
    BY Zenon, <2>1, <2>2
<1>16. Cardinality(Owed(f, W')) = Cardinality(Owed(e, W)) + el /\ Cardinality(Owed(e, W)) \in Nat
  <2>1. /\ Cardinality(Owed(e, W)) \in Nat
        /\ Cardinality(Owed(f, W \cup {g})) = Cardinality(Owed(e, W)) + f[g]
    <3>1. g \notin W
      BY Zenon, <1>11
    <3> HIDE DEF W, f, el
    <3>2. QED
      BY <1>12, <1>13, <3>1, OwedMore, Zenon
  <2>2. Owed(f, W) = Owed(e, W)
    BY Zenon, <1>13 DEF Owed
  <2> HIDE DEF W, f
  <2>3. QED
    BY <1>13, <1>14, <2>1, <2>2
<1>17. credited'[k] <= L!refillNs * (Cardinality(V) - (N - n) - Cardinality(Owed(f, W')))
  <2>1. Cardinality(U) \in Nat /\ Cardinality(V) \in Nat
    BY Zenon, <1>5, PairsFinite
  <2>2. Cardinality(V) - (N - n) - Cardinality(Owed(f, W')) = Cardinality(U) - (M - s) - Cardinality(Owed(e, W))
    <3> HIDE DEF W, f
    <3>1. el \in Nat
      BY <1>12, ClientRates
    <3> HIDE DEF el
    <3>2. QED
      BY <1>5, <1>9, <1>16, <2>1, <3>1
  <2>3. credited[k] <= L!refillNs * (Cardinality(U) - (M - s) - Cardinality(Owed(e, W)))
    BY Zenon, <1>2 DEF ClientPaid
  <2>4. QED
    BY Zenon, <1>3, <2>2, <2>3
<1> HIDE DEF f
<1>18. ClientPaid(k, N, V, f)'
  BY SMTT(30), <1>3, <1>4, <1>9, <1>10, <1>15, <1>17 DEF ClientPaid
<1>19. QED
  BY Zenon, <1>3, <1>9, <1>13, <1>18 DEF Account

\* A refill pays what was owed, or less where the bucket is full.
LEMMA RefillPaid ==
    ASSUME NoOverflow, InRange, L!Charged, NEW g \in Goroutines, L!CasRefill(g), L!Tokens(g) = cur[g],
           NEW k \in Keys, k = key[g],
           NEW M \in 0..clock, NEW U \in SUBSET (Goroutines \X (1..M)),
           NEW e \in [Goroutines -> 0..MaxTime], ClientPaid(k, M, U, e)
    PROVE  Account(k)'
<1> DEFINE W == Owing(k)  x == e[g]  d == L!Refilled(g) - cur[g]
<1>1. /\ at[g] = "casRefill" /\ key' = key /\ clock' = clock /\ now' = now /\ refill' = refill
      /\ at' = [at EXCEPT ![g] = "loadTake"]
      /\ credited' = [credited EXCEPT ![k] = @ + d]
      /\ buckets' = [buckets EXCEPT ![k].tokens = L!Refilled(g)]
  BY Zenon DEF L!CasRefill, L!Goto, L!SetTokens, L!localVars
<1>2. /\ clock \in Nat /\ M \in Nat /\ L!refillNs \in Nat /\ x \in 0..MaxTime /\ x \in Nat /\ cur[g] \in Int
      /\ at \in [Goroutines -> L!Labels] /\ credited \in [Keys -> Int]
  BY ClientRates DEF InRange, L!TypeOK
<1>3. buckets'[k].lastSeen = buckets[k].lastSeen /\ buckets[k].lastSeen \in 0..M
  <2>1. buckets[k] # L!NoBucket /\ buckets[k] \in [tokens : 0..L!capacity, lastSeen : 0..MaxTime]
    BY Zenon, <1>1 DEF L!Charged, InRange, L!TypeOK
  <2>2. QED
    BY <1>1, <1>2, <2>1, ClientRates DEF ClientPaid, InRange, L!TypeOK
<1>4. g \in W /\ refill[g] = x * L!refillNs
  BY Zenon, <1>1 DEF ClientPaid, Owing
<1>5. d \in Int /\ d <= x * L!refillNs
  <2>1. L!Refilled(g) \in cur[g]..L!capacity /\ L!Refilled(g) - cur[g] <= refill[g]
    BY Zenon, <1>2, <1>4, ClientRefilled DEF InRange
  <2>2. QED
    BY <1>2, <1>4, <2>1, ClientRates
<1>6. W' = W \ {g}
  BY Zenon, <1>1, <1>2 DEF Owing
<1>7. Cardinality(Owed(e, W)) = Cardinality(Owed(e, W')) + x /\ Cardinality(Owed(e, W')) \in Nat
  <2>1. W' \in SUBSET Goroutines /\ g \notin W' /\ W = W' \cup {g}
    BY Zenon, <1>4, <1>6 DEF Owing
  <2> HIDE DEF W
  <2>2. QED
    BY <2>1, OwedMore, Zenon
<1> DEFINE A == Cardinality(U) - (M - buckets[k].lastSeen) - Cardinality(Owed(e, W))
           B == Cardinality(U) - (M - buckets'[k].lastSeen) - Cardinality(Owed(e, W'))
<1>8. credited'[k] <= L!refillNs * B
  <2>1. Cardinality(U) \in Nat
    BY Zenon, <1>2, PairsFinite
  <2>2. A \in Int /\ B = A + x
    <3> HIDE DEF W, x
    <3> DEFINE u == Cardinality(U)  t == buckets[k].lastSeen  s == buckets'[k].lastSeen
               o == Cardinality(Owed(e, W))  b == Cardinality(Owed(e, W'))
    <3>1. u \in Nat /\ M \in Nat /\ t \in 0..M /\ s = t /\ b \in Nat /\ x \in Nat /\ o = b + x
      BY Zenon, <1>2, <1>3, <1>7, <2>1
    <3> HIDE DEF u, t, s, o, b
    <3>2. u - (M - t) - o \in Int /\ u - (M - s) - b = (u - (M - t) - o) + x
      BY <3>1
    <3>3. QED
      BY Zenon, <3>2 DEF u, t, s, o, b
  <2>3. credited[k] <= L!refillNs * A
    BY Zenon DEF ClientPaid
  <2>4. credited'[k] = credited[k] + d /\ credited[k] \in Int
    BY Zenon, <1>1, <1>2
  <2> HIDE DEF A, B, d, x
  <2>5. /\ L!refillNs * (A + x) = L!refillNs * A + L!refillNs * x /\ L!refillNs * x = x * L!refillNs
        /\ L!refillNs * A \in Int /\ L!refillNs * x \in Int
    BY <1>2, <2>2, Products
  <2>6. QED
    BY SMTT(30), <1>5, <2>2, <2>3, <2>4, <2>5
<1>9. \A h \in Goroutines : at'[h] = "swap" /\ key'[h] = k =>
          \A t \in 1..M : <<h, t>> \in U => t <= now'[h]
  BY Zenon, <1>1, <1>2 DEF ClientPaid
<1>10. \A h \in W' : refill'[h] = e[h] * L!refillNs
  BY Zenon, <1>1, <1>6 DEF ClientPaid
<1>11. ClientPaid(k, M, U, e)'
  BY Zenon, <1>1, <1>3, <1>8, <1>9, <1>10 DEF ClientPaid
<1>12. QED
  BY Zenon, <1>1, <1>11 DEF Account

LEMMA AccountStep ==
    ASSUME NoOverflow, ClientInv, [L!Next]_(L!vars), NEW k \in Keys, buckets'[k] # L!NoBucket
    PROVE  Account(k)'
<1>0. /\ InRange /\ L!Charged /\ clock \in Nat
      /\ at \in [Goroutines -> L!Labels] /\ key \in [Goroutines -> Keys] /\ now \in [Goroutines -> 0..MaxTime]
      /\ refill \in [Goroutines -> -IntHalf..IntHalf - 1] /\ credited \in [Keys -> Int]
      /\ buckets \in [Keys -> [tokens : 0..L!capacity, lastSeen : 0..MaxTime] \cup {L!NoBucket}]
  BY SMTT(30), ClientRates DEF ClientInv, InRange, L!TypeOK
<1>1. CASE buckets[k] = L!NoBucket
  <2>1. ASSUME NEW g \in Goroutines, L!Swap(g) \/ L!CasRefill(g) \/ L!CasTake(g) PROVE key[g] # k
    BY Zenon, <1>0, <1>1, <2>1 DEF L!Charged, L!Swap, L!CasRefill, L!CasTake
  <2>2. \E g \in Goroutines : L!LoadOrStore(g) /\ key[g] = k
    BY ZenonT(60), <1>0, <1>1, <2>1
       DEF L!Next, L!Continue, L!vars, L!Tick, L!Request, L!Create, L!LoadOrStore, L!ReadNow, L!Swap,
           L!LoadRefill, L!CasRefill, L!SetTokens, L!LoadTake, L!CasTake
  <2>3. QED
    BY Zenon, <1>0, <1>1, <2>2, StorePaid
<1>2. CASE buckets[k] # L!NoBucket
  <2>1. PICK M \in 0..clock : \E U \in SUBSET (Goroutines \X (1..M)) :
                \E e \in [Goroutines -> 0..MaxTime] : ClientPaid(k, M, U, e)
    BY Zenon, <1>2 DEF ClientInv, Account
  <2>2. PICK U \in SUBSET (Goroutines \X (1..M)), e \in [Goroutines -> 0..MaxTime] : ClientPaid(k, M, U, e)
    BY Zenon, <2>1
  <2> DEFINE Same == /\ clock' \in {clock, clock + 1} /\ buckets'[k].lastSeen = buckets[k].lastSeen
                     /\ credited'[k] = credited[k] /\ Owing(k)' = Owing(k)
                     /\ \A g \in Owing(k) : refill'[g] = refill[g]
                     /\ \A g \in Goroutines : at'[g] = "swap" /\ key'[g] = k =>
                            (at[g] = "swap" /\ key[g] = k /\ now'[g] = now[g]) \/ now'[g] = clock
  <2>3. ASSUME Same PROVE Account(k)'
    <3>1. M \in 0..clock' /\ ClientPaid(k, M, U, e)'
      BY Zenon, <1>0, <2>2, <2>3, PaidSame
    <3>2. QED
      BY Zenon, <3>1 DEF Account
  <2> USE DEF L!Goto, L!localVars, L!historyVars
  <2>4. CASE L!Tick
    BY Zenon, <1>0, <2>3, <2>4 DEF L!Tick, Owing
  <2>5. ASSUME NEW g \in Goroutines, NEW j \in Keys, L!Request(g, j) PROVE Account(k)'
    BY Zenon, <1>0, <2>3, <2>5 DEF L!Request, Owing
  <2>6. ASSUME NEW g \in Goroutines, L!Create(g) PROVE Account(k)'
    BY Zenon, <1>0, <2>3, <2>6 DEF L!Create, Owing
  <2>7. ASSUME NEW g \in Goroutines, L!LoadOrStore(g) PROVE Account(k)'
    <3>1. buckets'[k] = buckets[k]
      BY Zenon, <1>0, <1>2, <2>7 DEF L!LoadOrStore
    <3>2. QED
      BY Zenon, <1>0, <2>3, <2>7, <3>1 DEF L!LoadOrStore, Owing
  <2>8. ASSUME NEW g \in Goroutines, L!ReadNow(g) PROVE Account(k)'
    BY Zenon, <1>0, <2>3, <2>8 DEF L!ReadNow, Owing
  <2>9. ASSUME NEW g \in Goroutines, L!Swap(g) PROVE Account(k)'
    <3>1. CASE key[g] = k
      BY Zenon, <1>0, <2>2, <2>9, <3>1, SwapPaid
    <3>2. CASE key[g] # k
      <4>1. buckets'[k] = buckets[k] /\ UNCHANGED <<clock, key, now, credited>>
        BY Zenon, <1>0, <2>9, <3>2 DEF L!Swap
      <4>2. \A h \in Goroutines : h # g => at'[h] = at[h] /\ refill'[h] = refill[h]
        BY Zenon, <1>0, <2>9 DEF L!Swap
      <4>3. QED
        BY Zenon, <2>3, <3>2, <4>1, <4>2 DEF Owing
    <3>3. QED
      BY Zenon, <3>1, <3>2
  <2>10. ASSUME NEW g \in Goroutines, L!LoadRefill(g) PROVE Account(k)'
    BY Zenon, <1>0, <2>3, <2>10 DEF L!LoadRefill, Owing
  <2>11. ASSUME NEW g \in Goroutines, L!CasRefill(g) PROVE Account(k)'
    <3>1. CASE key[g] = k /\ L!Tokens(g) = cur[g]
      BY Zenon, <1>0, <2>2, <2>11, <3>1, RefillPaid
    <3>2. CASE key[g] # k
      <4>1. buckets'[k] = buckets[k] /\ credited'[k] = credited[k] /\ UNCHANGED <<clock, key, now, refill>>
        BY Zenon, <1>0, <2>11, <3>2 DEF L!CasRefill, L!SetTokens
      <4>2. \A h \in Goroutines : h # g => at'[h] = at[h]
        BY Zenon, <1>0, <2>11 DEF L!CasRefill
      <4>3. QED
        BY Zenon, <2>3, <3>2, <4>1, <4>2 DEF Owing
    <3>3. CASE L!Tokens(g) # cur[g]
      BY Zenon, <1>0, <2>3, <2>11, <3>3 DEF L!CasRefill, Owing
    <3>4. QED
      BY Zenon, <3>1, <3>2, <3>3
  <2>12. ASSUME NEW g \in Goroutines, L!LoadTake(g) PROVE Account(k)'
    <3>1. at[g] = "loadTake" /\ UNCHANGED <<buckets, clock, key, credited>>
      BY Zenon, <2>12 DEF L!LoadTake
    <3>2. /\ \A h \in Goroutines : h # g => at'[h] = at[h] /\ refill'[h] = refill[h] /\ now'[h] = now[h]
          /\ at'[g] \in {"idle", "casTake"}
      BY Zenon, <1>0, <2>12 DEF L!LoadTake, L!Return
    <3>3. QED
      BY Zenon, <2>3, <3>1, <3>2 DEF Owing
  <2>13. ASSUME NEW g \in Goroutines, L!CasTake(g) PROVE Account(k)'
    <3>1. at[g] = "casTake" /\ UNCHANGED <<clock, key, credited>>
      BY Zenon, <2>13 DEF L!CasTake
    <3>2. /\ \A h \in Goroutines : h # g => at'[h] = at[h] /\ refill'[h] = refill[h] /\ now'[h] = now[h]
          /\ at'[g] \in {"idle", "loadTake"}
      BY Zenon, <1>0, <2>13 DEF L!CasTake, L!Return
    <3>3. buckets'[k].lastSeen = buckets[k].lastSeen
      BY <1>0, <1>2, <2>13 DEF L!CasTake, L!SetTokens
    <3>4. QED
      BY Zenon, <2>3, <3>1, <3>2, <3>3 DEF Owing
  <2>14. CASE UNCHANGED L!vars
    BY Zenon, <2>3, <2>14 DEF L!vars, Owing
  <2>15. QED
    BY Zenon, <2>4, <2>5, <2>6, <2>7, <2>8, <2>9, <2>10, <2>11, <2>12, <2>13, <2>14 DEF L!Next, L!Continue
<1>3. QED
  BY Zenon, <1>1, <1>2

LEMMA ClientStepKeeps ==
    ASSUME NoOverflow, ClientInv, [L!Next]_(L!vars)
    PROVE  ClientInv'
<1>1. InRange'
  BY Zenon, InRangeStep
<1>2. ClientTyped /\ L!Charged
  BY ClientRates DEF ClientInv, InRange, L!TypeOK, ClientTyped, L!NoBucket
<1>3. L!Charged'
  BY Zenon, <1>2, ClientStepCharged
<1>4. \A k \in Keys : buckets'[k] # L!NoBucket => Account(k)'
  BY Zenon, AccountStep
<1>5. QED
  BY Zenon, <1>1, <1>3, <1>4 DEF ClientInv, L!NoBucket

LEMMA ClientInvInit == ASSUME L!Init PROVE ClientInv /\ \A g \in Goroutines : Lone(g)
<1>1. InRange
  BY ClientRates, SizesAssumption DEF L!Init, InRange, L!TypeOK, L!Labels
<1>2. L!Charged /\ \A k \in Keys : buckets[k] = L!NoBucket
  BY Zenon DEF L!Init, L!Charged
<1>3. \A g \in Goroutines : Lone(g)
  BY DEF L!Init, Lone
<1>4. QED
  BY Zenon, <1>1, <1>2, <1>3 DEF ClientInv

LEMMA ClientInvariant ==
    ASSUME NoOverflow
    PROVE  BucketsSpec => [](which = "client" => ClientInv)
<1>1. BucketsInit => (which = "client" => ClientInv)
  BY Zenon, ClientInvInit DEF BucketsInit
<1>2. (which = "client" => ClientInv) /\ [BucketsNext]_bucketsVars => (which = "client" => ClientInv)'
  <2> SUFFICES ASSUME which = "client" => ClientInv, [BucketsNext]_bucketsVars, which' = "client"
               PROVE  ClientInv'
    OBVIOUS
  <2>1. which = "client" /\ [L!Next]_(L!vars)
    BY Zenon DEF BucketsNext, HedgeStep, ClientStep, RedisStep, bucketsVars, common, clientOnly, L!vars
  <2>2. QED
    BY Zenon, <2>1, ClientStepKeeps
<1>3. QED
  BY <1>1, <1>2, PTL DEF BucketsSpec

LEMMA ClientInvBounds == ASSUME ClientInv PROVE L!RefillsBounded
<1>0. clock \in Nat /\ L!refillNs \in Nat
  BY ClientRates DEF ClientInv, InRange, L!TypeOK
<1> DEFINE c == Cardinality(Goroutines)
<1>1. c \in Nat
  BY Zenon, FS_CardinalityType, SizesAssumption
<1>2. ASSUME NEW k \in Keys PROVE credited[k] <= c * L!refillNs * clock
  <2>1. CASE buckets[k] = L!NoBucket
    <3>1. credited[k] = 0
      BY Zenon, <2>1 DEF ClientInv, L!Charged
    <3> HIDE DEF c
    <3>2. c * L!refillNs \in Nat
      BY Zenon, <1>0, <1>1, ProductNat
    <3>3. c * L!refillNs * clock \in Nat
      BY Zenon, <1>0, <3>2, ProductNat
    <3>4. QED
      BY <3>1, <3>3
  <2>2. CASE buckets[k] # L!NoBucket
    <3>1. PICK M \in 0..clock : \E U \in SUBSET (Goroutines \X (1..M)) :
                  \E e \in [Goroutines -> 0..MaxTime] : ClientPaid(k, M, U, e)
      BY Zenon, <2>2 DEF ClientInv, Account
    <3>2. PICK U \in SUBSET (Goroutines \X (1..M)), e \in [Goroutines -> 0..MaxTime] : ClientPaid(k, M, U, e)
      BY Zenon, <3>1
    <3> DEFINE owed == Cardinality(Owed(e, Owing(k)))
               used == Cardinality(U) - (M - buckets[k].lastSeen) - owed
    <3>3. buckets[k].lastSeen \in 0..M /\ M \in Nat /\ credited[k] \in Int
      BY <1>0, <2>2, <3>2, ClientRates DEF ClientInv, InRange, L!TypeOK, ClientPaid
    <3>4. Cardinality(U) \in Nat /\ Cardinality(U) <= c * M
      BY Zenon, <3>3, PairsFinite
    <3>5. owed \in Nat
      <4>1. Owed(e, Owing(k)) \in SUBSET (Goroutines \X (1..MaxTime))
        BY Zenon DEF Owed
      <4>2. QED
        BY Zenon, <4>1, PairsFinite, ClientRates
    <3>6. credited[k] <= L!refillNs * used
      BY Zenon, <3>2 DEF ClientPaid
    <3> HIDE DEF c, owed
    <3>7. c * M <= c * clock /\ c * M \in Int /\ c * clock \in Int
      BY <1>0, <1>1, <3>3, Products
    <3>8. used \in Int /\ used <= c * clock
      BY <3>3, <3>4, <3>5, <3>7
    <3> HIDE DEF used
    <3>9. L!refillNs * used <= L!refillNs * (c * clock) /\ L!refillNs * used \in Int
          /\ L!refillNs * (c * clock) \in Int
      BY <1>0, <3>7, <3>8, Products
    <3>10. L!refillNs * (c * clock) = c * L!refillNs * clock
      BY <1>0, <1>1
    <3>11. QED
      BY <3>3, <3>6, <3>9, <3>10
  <2>3. QED
    BY Zenon, <2>1, <2>2
<1>3. L!Cardinality(Goroutines) = c
  BY Zenon DEF Cardinality, L!Cardinality
<1>4. QED
  BY <1>2, <1>3, Zenon DEF L!RefillsBounded

\* A server charges all requests of a client to one bucket, never lets it run
\* below nothing or above its capacity, and refills it for a moment at most once
\* per goroutine, although delayed requests turn lastSeen back: where no sum is as
\* large as 2^63.
THEOREM ClientsBucket ==
    ASSUME NoOverflow
    PROVE  BucketsSpec => []ClientBucket
<1>1. ClientInv => L!TypeOK /\ L!TokensConserved /\ L!Charged /\ L!RefillsBounded
  <2> SUFFICES ASSUME ClientInv PROVE L!TypeOK /\ L!TokensConserved /\ L!Charged /\ L!RefillsBounded
    OBVIOUS
  <2>1. L!TypeOK /\ L!Charged
    BY Zenon DEF ClientInv, InRange
  <2>2. L!TokensConserved
    BY Zenon, <2>1 DEF L!Charged, L!TokensConserved
  <2>3. QED
    BY Zenon, <2>1, <2>2, ClientInvBounds
<1>2. (which = "client" => ClientInv) => ClientBucket
  BY Zenon, <1>1 DEF ClientBucket
<1>3. QED
  BY <1>2, ClientInvariant, PTL

-----------------------------------------------------------------------------
(* The sustained rate of a client *)

\* RequestsPerSecond has no fraction for int() to lose.
WholeRate == ClientRateNum = L!refillNs * ClientRateDen

Early == {"idle", "create", "store", "now", "swap"}

\* A step of h, who is not g, that leaves the bucket of g alone and keeps h from
\* its tokens, if they share it.
LEMMA LoneOther ==
    ASSUME InRange, NEW g \in Goroutines, NEW h \in Goroutines, g # h, Lone(g),
           gap'[g] \in {gap[g], 0}, at'[g] = at[g], refill'[g] = refill[g], key'[g] = key[g],
           buckets'[key[g]].tokens = buckets[key[g]].tokens,
           \A i \in Goroutines : i # h => at'[i] = at[i] /\ key'[i] = key[i],
           gap'[g] > 0 /\ key'[h] = key[g] => at'[h] \in Early
    PROVE  Lone(g)'
<1>1. SUFFICES ASSUME gap'[g] > 0 PROVE Lone(g)'
  BY Zenon DEF Lone
<1>2. gap'[g] = gap[g] /\ gap[g] > 0
  BY <1>1
<1>3. L!Tokens(g)' = L!Tokens(g)
  BY Zenon DEF L!Tokens
<1>4. \A i \in Goroutines \ {g} : key'[i] = key'[g] => at'[i] \in Early
  BY Zenon, <1>1, <1>2 DEF Lone, Early
<1>5. QED
  BY Zenon, <1>2, <1>3, <1>4 DEF Lone, Early, L!AtMost, L!capacity, L!refillNs, L!BurstSize

LEMMA LoneStep ==
    ASSUME NoOverflow, ClientInv, \A g \in Goroutines : Lone(g), [L!Next]_(L!vars), NEW g \in Goroutines
    PROVE  Lone(g)'
<1>0. /\ InRange /\ L!Charged /\ clock \in Nat
      /\ at \in [Goroutines -> L!Labels] /\ key \in [Goroutines -> Keys] /\ gap \in [Goroutines -> 0..MaxTime]
      /\ refill \in [Goroutines -> -IntHalf..IntHalf - 1]
      /\ buckets \in [Keys -> [tokens : 0..L!capacity, lastSeen : 0..MaxTime] \cup {L!NoBucket}]
      /\ gap[g] \in Int
  BY ClientRates DEF ClientInv, InRange, L!TypeOK
<1>1. CASE UNCHANGED <<buckets, at, key, refill, gap>>
  BY Zenon, <1>1 DEF Lone, L!Tokens, L!AtMost, L!capacity, L!refillNs, L!BurstSize
<1> USE DEF L!Goto, L!localVars, L!historyVars
<1>2. ASSUME NEW h \in Goroutines, h # g, L!Continue(h) \/ \E k \in Keys : L!Request(h, k)
      PROVE  Lone(g)'
  <2>1. /\ \A i \in Goroutines : i # h => at'[i] = at[i] /\ key'[i] = key[i] /\ refill'[i] = refill[i]
        /\ (\E k \in Keys : L!Request(h, k)) \/ key'[h] = key[h]
    <3>1. CASE \E k \in Keys : L!Request(h, k)
      BY Zenon, <1>0, <3>1 DEF L!Request
    <3>2. CASE L!Create(h) \/ L!LoadOrStore(h) \/ L!ReadNow(h) \/ L!Swap(h) \/ L!LoadRefill(h) \/ L!CasRefill(h)
      BY Zenon, <1>0, <3>2 DEF L!Create, L!LoadOrStore, L!ReadNow, L!Swap, L!LoadRefill, L!CasRefill
    <3>3. CASE L!LoadTake(h) \/ L!CasTake(h)
      BY Zenon, <1>0, <3>3 DEF L!LoadTake, L!CasTake, L!Return
    <3>4. QED
      BY Zenon, <1>2, <3>1, <3>2, <3>3 DEF L!Continue
  <2>2. Lone(g) /\ (gap[g] > 0 /\ key[h] = key[g] => at[h] \in Early)
    BY Zenon, <1>2 DEF Lone, Early
  <2>3. CASE (\E k \in Keys : L!Request(h, k)) \/ L!Create(h) \/ L!LoadOrStore(h) \/ L!ReadNow(h)
    <3>1. gap' = gap /\ at'[h] \in Early
      BY Zenon, <1>0, <2>3 DEF L!Request, L!Create, L!LoadOrStore, L!ReadNow, Early
    <3>2. gap[g] > 0 => buckets'[key[g]].tokens = buckets[key[g]].tokens
      <4>1. gap[g] > 0 => buckets[key[g]] # L!NoBucket
        BY Zenon, <1>0, <2>2 DEF Lone, L!Charged
      <4>2. QED
        BY <1>0, <2>3, <4>1 DEF L!Request, L!Create, L!LoadOrStore, L!ReadNow
    <3>3. CASE gap[g] > 0
      BY Zenon, <1>0, <1>2, <2>1, <2>2, <3>1, <3>2, <3>3, LoneOther
    <3>4. CASE ~(gap[g] > 0)
      BY Zenon, <3>1, <3>4 DEF Lone
    <3>5. QED
      BY Zenon, <3>3, <3>4
  <2>4. CASE L!Swap(h)
    <3>1. gap'[g] = IF g \in L!Rivals(h) THEN 0 ELSE gap[g]
      BY Zenon, <1>2, <2>4 DEF L!Swap
    <3>2. buckets'[key[g]].tokens = buckets[key[g]].tokens
      BY <1>0, <2>4 DEF L!Swap
    <3>3. gap'[g] > 0 => key[h] # key[g]
      BY <1>0, <1>2, <2>2, <3>1 DEF L!Rivals, Lone
    <3>4. key'[h] = key[h]
      BY Zenon, <2>4 DEF L!Swap
    <3>5. QED
      BY Zenon, <1>0, <1>2, <2>1, <2>2, <3>1, <3>2, <3>3, <3>4, LoneOther
  <2>5. CASE L!LoadRefill(h) \/ L!CasRefill(h) \/ L!LoadTake(h) \/ L!CasTake(h)
    <3>1. at[h] \notin Early /\ key'[h] = key[h]
      BY Zenon, <2>5 DEF L!LoadRefill, L!CasRefill, L!LoadTake, L!CasTake, Early
    <3>2. gap'[g] = gap[g]
      BY Zenon, <1>0, <1>2, <2>5 DEF L!LoadRefill, L!CasRefill, L!LoadTake, L!CasTake, L!Return
    <3>3. key[h] # key[g] => buckets'[key[g]].tokens = buckets[key[g]].tokens
      BY Zenon, <1>0, <2>5 DEF L!LoadRefill, L!CasRefill, L!LoadTake, L!CasTake, L!SetTokens
    <3>4. CASE gap[g] > 0
      BY Zenon, <1>0, <1>2, <2>1, <2>2, <3>1, <3>2, <3>3, <3>4, LoneOther
    <3>5. CASE ~(gap[g] > 0)
      BY Zenon, <3>2, <3>5 DEF Lone
    <3>6. QED
      BY Zenon, <3>4, <3>5
  <2>6. QED
    BY Zenon, <1>2, <2>3, <2>4, <2>5 DEF L!Continue
<1>3. ASSUME L!Continue(g) \/ \E k \in Keys : L!Request(g, k)
      PROVE  Lone(g)'
  <2>1. CASE (\E k \in Keys : L!Request(g, k)) \/ L!Create(g) \/ L!LoadOrStore(g) \/ L!ReadNow(g)
    <3>1. gap' = gap /\ at[g] \in {"idle", "create", "store", "now"}
      BY Zenon, <2>1 DEF L!Request, L!Create, L!LoadOrStore, L!ReadNow
    <3>2. QED
      BY Zenon, <3>1 DEF Lone
  <2>2. CASE L!Swap(g)
    <3> DEFINE b == buckets[key[g]]  elapsed == now[g] - b.lastSeen
    <3>1. /\ at[g] = "swap" /\ key' = key
          /\ at' = [at EXCEPT ![g] = IF elapsed > 0 THEN "loadRefill" ELSE "loadTake"]
          /\ refill' = [refill EXCEPT ![g] = IF elapsed > 0 THEN L!Wrap(elapsed * L!refillNs) ELSE 0]
          /\ gap'[g] = IF L!Rivals(g) = {} /\ elapsed > 0 THEN elapsed ELSE 0
      BY Zenon, <2>2 DEF L!Swap
    <3>2. SUFFICES ASSUME gap'[g] > 0 PROVE Lone(g)'
      BY Zenon DEF Lone
    <3>3. L!Rivals(g) = {} /\ elapsed > 0 /\ gap'[g] = elapsed
      <4>1. gap'[g] # 0
        BY Zenon, <3>2, ZeroNotPositive
      <4>2. QED
        BY Zenon, <3>1, <4>1
    <3>4. elapsed \in 0..MaxTime
      <4>1. b \in [tokens : 0..L!capacity, lastSeen : 0..MaxTime] /\ now[g] \in 0..MaxTime
        BY Zenon, <1>0, <3>1 DEF L!Charged, InRange, L!TypeOK
      <4>2. QED
        <5>1. b.lastSeen \in 0..MaxTime
          BY Zenon, <4>1
        <5>2. QED
          BY Zenon, <3>3, <4>1, <5>1, Elapsed
    <3>5. at'[g] = "loadRefill" /\ refill'[g] = L!Wrap(elapsed * L!refillNs)
      BY Zenon, <1>0, <3>1, <3>3
    <3>6. L!Wrap(elapsed * L!refillNs) = elapsed * L!refillNs
      <4> HIDE DEF elapsed
      <4>1. 0 \in 0..L!capacity
        BY ClientRates
      <4>2. QED
        BY Zenon, <3>4, <4>1, RefillFits
    <3>7. \A h \in Goroutines \ {g} : key'[h] = key'[g] => at'[h] = "idle"
      BY Zenon, <1>0, <3>1, <3>3 DEF L!Rivals
    <3> HIDE DEF elapsed
    <3>8. QED
      BY Zenon, <3>3, <3>5, <3>6, <3>7 DEF Lone
  <2>3. CASE L!LoadRefill(g)
    <3>1. /\ at[g] = "loadRefill" /\ at' = [at EXCEPT ![g] = "casRefill"]
          /\ UNCHANGED <<buckets, key, refill, gap>>
      BY Zenon, <2>3 DEF L!LoadRefill
    <3>2. QED
      BY Zenon, <1>0, <3>1 DEF Lone
  <2>4. CASE L!CasRefill(g)
    <3>1. at[g] = "casRefill" /\ UNCHANGED <<key, refill, gap>>
      BY Zenon, <2>4 DEF L!CasRefill
    <3>2. CASE L!Tokens(g) = cur[g]
      <4>1. at' = [at EXCEPT ![g] = "loadTake"] /\ L!Tokens(g)' = L!Refilled(g)
        BY <1>0, <2>4, <3>1, <3>2 DEF L!CasRefill, L!SetTokens, L!Tokens, L!Charged
      <4>2. SUFFICES ASSUME gap[g] > 0 PROVE Lone(g)'
        BY Zenon, <3>1 DEF Lone
      <4>3. refill[g] = gap[g] * L!refillNs /\ gap[g] \in 0..MaxTime
        BY Zenon, <1>0, <3>1, <4>2 DEF Lone
      <4>4. L!Refilled(g) >= L!AtMost(gap[g] * L!refillNs, L!capacity)
        BY Zenon, <1>0, <4>3, ClientRefilled DEF InRange
      <4>5. L!Tokens(g)' >= L!AtMost(gap[g] * L!refillNs, L!capacity)
        BY Zenon, <4>1, <4>4
      <4>6. at'[g] = "loadTake" /\ \A h \in Goroutines \ {g} : at'[h] = at[h]
        BY Zenon, <1>0, <4>1
      <4>7. QED
        BY Zenon, <3>1, <4>2, <4>5, <4>6 DEF Lone
    <3>3. CASE L!Tokens(g) # cur[g]
      <4>1. at' = [at EXCEPT ![g] = "loadRefill"] /\ buckets' = buckets
        BY Zenon, <2>4, <3>3 DEF L!CasRefill
      <4>2. QED
        BY Zenon, <1>0, <3>1, <4>1 DEF Lone
    <3>4. QED
      BY Zenon, <3>2, <3>3
  <2>5. CASE gap'[g] = 0
    BY Zenon, <2>5, ZeroNotPositive DEF Lone
  <2>6. CASE (L!LoadTake(g) \/ L!CasTake(g)) /\ gap'[g] # 0
    <3>1. /\ at[g] \in {"loadTake", "casTake"} /\ UNCHANGED <<buckets, key, gap>>
          /\ \E l \in {"loadTake", "casTake"} : at' = [at EXCEPT ![g] = l]
      BY Zenon, <1>0, <2>6 DEF L!LoadTake, L!CasTake, L!Return
    <3>2. L!Tokens(g)' = L!Tokens(g)
      BY Zenon, <3>1 DEF L!Tokens
    <3>3. at'[g] \in {"loadTake", "casTake"} /\ \A h \in Goroutines \ {g} : at'[h] = at[h]
      BY Zenon, <1>0, <3>1
    <3>4. QED
      BY Zenon, <3>1, <3>2, <3>3 DEF Lone
  <2>7. QED
    BY Zenon, <1>3, <2>1, <2>2, <2>3, <2>4, <2>5, <2>6 DEF L!Continue
<1>4. CASE L!Tick \/ UNCHANGED L!vars
  BY Zenon, <1>1, <1>4 DEF L!Tick, L!vars
<1>5. QED
  BY Zenon, <1>2, <1>3, <1>4 DEF L!Next

\* A client that lets as long pass since its last request as Retry-After says, and
\* whose requests do not overlap, is served: where RequestsPerSecond is a whole
\* number and no sum is as large as 2^63.
THEOREM ClientsSustainTheirRate ==
    ASSUME NoOverflow, WholeRate
    PROVE  BucketsSpec => ClientSustainedRate
<1> DEFINE I == which = "client" => ClientInv /\ \A g \in Goroutines : Lone(g)
<1>1. BucketsInit => I
  BY Zenon, ClientInvInit DEF BucketsInit
<1>2. I /\ [BucketsNext]_bucketsVars => I'
  <2> SUFFICES ASSUME I, [BucketsNext]_bucketsVars, which' = "client"
               PROVE  ClientInv' /\ \A g \in Goroutines : Lone(g)'
    OBVIOUS
  <2>1. which = "client" /\ [L!Next]_(L!vars)
    BY Zenon DEF BucketsNext, HedgeStep, ClientStep, RedisStep, bucketsVars, common, clientOnly, L!vars
  <2>2. QED
    BY Zenon, <2>1, ClientStepKeeps, LoneStep
<1>3. ASSUME ClientInv, \A g \in Goroutines : Lone(g), L!Next PROVE L!RefusesEarlyOnly
  <2> SUFFICES ASSUME NEW g \in Goroutines, at[g] = "loadTake", at'[g] = "idle"
               PROVE  gap[g] * ClientRateNum < OneToken * ClientRateDen
    BY Zenon DEF L!RefusesEarlyOnly
  <2>1. at \in [Goroutines -> L!Labels] /\ gap[g] \in Nat /\ L!Tokens(g) \in Nat
    BY <1>3, ClientRates DEF ClientInv, InRange, L!TypeOK, L!Charged, L!Tokens
  <2>2. L!LoadTake(g)
    <3>1. ASSUME NEW h \in Goroutines, L!Continue(h) \/ \E k \in Keys : L!Request(h, k), ~L!LoadTake(g)
          PROVE  FALSE
      <4>1. CASE h = g
        BY Zenon, <2>1, <3>1, <4>1 DEF L!Continue, L!Request, L!Create, L!LoadOrStore, L!ReadNow, L!Swap, L!LoadRefill, L!CasRefill, L!CasTake
      <4>2. CASE h # g
        BY Zenon, <2>1, <3>1, <4>2 DEF L!Continue, L!Request, L!Create, L!LoadOrStore, L!ReadNow, L!Swap, L!LoadRefill, L!CasRefill, L!LoadTake, L!CasTake, L!Return, L!Goto
      <4>3. QED
        BY Zenon, <4>1, <4>2
    <3>2. ~L!Tick
      BY Zenon DEF L!Tick
    <3>3. QED
      BY Zenon, <1>3, <3>1, <3>2 DEF L!Next
  <2>3. L!Tokens(g) < OneToken
    BY Zenon, <2>1, <2>2 DEF L!LoadTake, L!Goto
  <2>4. PICK r \in Nat : r = gap[g] * L!refillNs
    BY Zenon, <2>1, ClientRates, ProductNat
  <2>5. r < OneToken
    <3>1. CASE gap[g] > 0
      <4>1. L!Tokens(g) >= L!AtMost(r, L!capacity)
        BY Zenon, <1>3, <2>4, <3>1 DEF Lone
      <4>2. QED
        BY Zenon, <2>1, <2>3, <4>1, TooLittle
    <3>2. CASE ~(gap[g] > 0)
      <4>1. gap[g] = 0
        BY <2>1, <3>2
      <4>2. QED
        BY <2>4, <4>1, ClientRates, SizesAssumption
    <3>3. QED
      BY Zenon, <3>1, <3>2
  <2>6. gap[g] * ClientRateNum = r * ClientRateDen
    <3>1. ClientRateDen \in Nat /\ L!refillNs \in Nat /\ ClientRateNum = L!refillNs * ClientRateDen
      BY Zenon, SizesAssumption, ClientRates DEF WholeRate
    <3>2. gap[g] * (L!refillNs * ClientRateDen) = (gap[g] * L!refillNs) * ClientRateDen
      BY <2>1, <3>1
    <3>3. QED
      BY Zenon, <2>4, <3>1, <3>2
  <2>7. \A a, b, c \in Nat : a < b /\ c > 0 => a * c < b * c
    OBVIOUS
  <2>8. QED
    BY <2>4, <2>5, <2>6, <2>7, SizesAssumption
<1>4. I /\ [BucketsNext]_bucketsVars => [which = "client" => L!RefusesEarlyOnly]_bucketsVars
  BY Zenon, <1>3 DEF BucketsNext, HedgeStep, ClientStep, RedisStep
<1>5. QED
  BY <1>1, <1>2, <1>4, PTL DEF BucketsSpec, ClientSustainedRate

=============================================================================
