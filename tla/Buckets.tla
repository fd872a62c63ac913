------------------------------- MODULE Buckets -------------------------------
(***************************************************************************)
(* The three token buckets of the Go runtime: of the hedging client        *)
(* (TokenBucket), of a server per client (RateLimiter) and of a client     *)
(* shared by servers (RedisBucket).  They share no state, so a behaviour   *)
(* is one of the bucket named by which; what they have in common, the      *)
(* goroutines, the clock and the locals, is kept in the same variables,    *)
(* and a variable the bucket does not have is Off.                         *)
(***************************************************************************)
EXTENDS Integers, FiniteSets

CONSTANTS
    Goroutines, OneToken, MaxTime,
    HedgeBurst, HedgeRateNum, HedgeRateDen,                   \* of TokenBucket
    Keys, ClientBurst, ClientRateNum, ClientRateDen, IntHalf, \* of RateLimiter
    Skew, RedisBurst, RedisRate, RedisTime                    \* of RedisBucket

ASSUME SizesAssumption ==
    /\ IsFiniteSet(Goroutines)
    /\ OneToken \in Nat \ {0} /\ MaxTime \in Nat
    /\ HedgeBurst \in Nat /\ HedgeRateNum \in Nat /\ HedgeRateDen \in Nat \ {0}
    /\ ClientBurst \in Nat /\ ClientRateNum \in Nat /\ ClientRateDen \in Nat \ {0}
    /\ IntHalf \in Nat \ {0}
    /\ Skew \in [Goroutines -> Nat]             \* no clock is before the epoch
    /\ RedisBurst \in Nat /\ RedisRate \in Nat \ {0} /\ RedisTime \in Nat

VARIABLES
    which,
    at, clock, now, cur, granted, credited,
    tokens, lastRefill, last,          \* TokenBucket only
    buckets, key, refill, gap,         \* RateLimiter only
    bucket                             \* RedisBucket only

hedgeOnly == <<tokens, lastRefill, last>>
clientOnly == <<buckets, key, refill, gap>>
common == <<at, clock, now, cur, granted, credited>>
hedgeVars == <<common, hedgeOnly>>
bucketsVars == <<which, common, hedgeOnly, clientOnly, bucket>>

T == INSTANCE TokenBucket WITH
        BurstCapacity <- HedgeBurst, RateNum <- HedgeRateNum, RateDen <- HedgeRateDen,
        pc <- at, taken <- granted

L == INSTANCE RateLimiter WITH
        Burst <- ClientBurst, RateNum <- ClientRateNum, RateDen <- ClientRateDen, pc <- at

R == INSTANCE RedisBucket WITH
        Servers <- Goroutines, BurstParts <- RedisBurst, Rate <- RedisRate, MaxTime <- RedisTime,
        pc <- at

Off == "off"

HedgeOff == tokens = Off /\ lastRefill = Off /\ last = Off
ClientOff == buckets = Off /\ key = Off /\ refill = Off /\ gap = Off

BucketsInit ==
    \/ which = "hedge" /\ T!Init /\ ClientOff /\ bucket = Off
    \/ which = "client" /\ L!Init /\ HedgeOff /\ bucket = Off
    \/ which = "redis" /\ R!Init /\ cur = Off /\ HedgeOff /\ ClientOff

HedgeStep == which = "hedge" /\ T!Next /\ UNCHANGED <<which, clientOnly, bucket>>
ClientStep == which = "client" /\ L!Next /\ UNCHANGED <<which, hedgeOnly, bucket>>
RedisStep == which = "redis" /\ R!Next /\ UNCHANGED <<which, cur, hedgeOnly, clientOnly>>

BucketsNext == HedgeStep \/ ClientStep \/ RedisStep

\* The scheduler runs every goroutine that is inside Consume.
BucketsFairness == \A g \in Goroutines : WF_hedgeVars(which = "hedge" /\ T!Continue(g))

BucketsSpec == BucketsInit /\ [][BucketsNext]_bucketsVars

-----------------------------------------------------------------------------
(* Properties: those of the buckets, each about its own behaviours. *)

\* TokenBucket!TokensConserved: the tokens taken and the tokens left add up.
HedgeTokensConserved == which = "hedge" => T!TokensConserved

\* TokenBucket!RefillsBounded: how often concurrent calls refill for a moment.
HedgeRefillsBounded == which = "hedge" => T!RefillsBounded

\* TokenBucket!RefillTimeAdvances: lastRefill moves forward only.
HedgeRefillTimeAdvances ==
    [][which = "hedge" => lastRefill' >= lastRefill /\ lastRefill' <= clock]_bucketsVars

\* TokenBucket!LockFree: never are all calls stuck in Consume.
HedgeLockFree == []<>(which = "hedge" => \E g \in Goroutines : at[g] = "idle")

\* RateLimiter!TokensConserved and RefillsBounded: all requests of a client
\* use one bucket, and what a lastSeen set back can add to it; and Charged, the
\* inductive form of the first.
ClientBucket == which = "client" => L!TypeOK /\ L!TokensConserved /\ L!Charged /\ L!RefillsBounded

\* RateLimiter!SustainedRate: who waits as Retry-After says is served.
ClientSustainedRate == [][which = "client" => L!RefusesEarlyOnly]_bucketsVars

\* RedisBucket!SharedRate: what servers admit together.
SharedRate == which = "redis" => R!SharedRate

=============================================================================
