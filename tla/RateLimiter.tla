----------------------------- MODULE RateLimiter -----------------------------
(***************************************************************************)
(* The per-client rate limiter of runtimes/go/ratelimit.go: a map from     *)
(* keys to buckets that requests create on first use, and the lock-free    *)
(* bucket allow works on.  A request runs in a goroutine; every atomic     *)
(* operation of Allow is one action, and the interceptor or middleware     *)
(* around it serves or refuses the request by its answer.                  *)
(*                                                                         *)
(* Amounts are counted in parts of a token, OneToken to the token (10^9 in *)
(* the code), time in units that add refillNs parts.  Sums and products    *)
(* wrap as int64 does: IntHalf stands for 2^63.                            *)
(***************************************************************************)
EXTENDS Integers, FiniteSets

CONSTANTS
    Goroutines, Keys,
    Burst,               \* cfg.BurstSize, 0 when unset
    RateNum, RateDen,    \* cfg.RequestsPerSecond, a float, is RateNum / RateDen
    OneToken, IntHalf,
    MaxTime              \* bound on the clock

VARIABLES
    buckets,             \* rl.buckets: the bucket of each key, or NoBucket
    clock,
    pc,                  \* the next atomic operation of each goroutine
    key,                 \* the key of its request
    now,                 \* the local now, or the time stamp of a new bucket
    refill, cur,         \* the other locals of allow
    granted,             \* history: requests served for each key
    credited,            \* history: what refills have added for each key
    gap                  \* history: how long the key was left alone before this
                         \* request, 0 when another request overlaps with it

localVars == <<now, refill, cur>>
historyVars == <<granted, credited, gap>>
vars == <<buckets, clock, pc, key, now, refill, cur, granted, credited, gap>>

Wrap(n) == ((n + IntHalf) % (2 * IntHalf)) - IntHalf

AtMost(n, limit) == IF n > limit THEN limit ELSE n

\* int(cfg.RequestsPerSecond): the fraction is lost.
refillNs == RateNum \div RateDen

\* NewRateLimiter's default for an unset BurstSize.
BurstSize == IF Burst # 0 THEN Burst ELSE IF refillNs > 1 THEN refillNs ELSE 1

capacity == BurstSize * OneToken

NoBucket == [tokens |-> 0, lastSeen |-> -1]

Labels == {"idle", "create", "store", "now", "swap", "loadRefill", "casRefill",
           "loadTake", "casTake"}

TypeOK ==
    /\ buckets \in [Keys -> [tokens : 0..capacity, lastSeen : 0..MaxTime] \cup {NoBucket}]
    /\ clock \in 0..MaxTime
    /\ pc \in [Goroutines -> Labels]
    /\ key \in [Goroutines -> Keys]
    /\ now \in [Goroutines -> 0..MaxTime]
    /\ refill \in [Goroutines -> -IntHalf..IntHalf - 1]
    /\ cur \in [Goroutines -> 0..capacity]
    /\ granted \in [Keys -> Nat]
    /\ credited \in [Keys -> Int]
    /\ gap \in [Goroutines -> 0..MaxTime]

Init ==
    /\ buckets = [k \in Keys |-> NoBucket]
    /\ clock = 0
    /\ pc = [g \in Goroutines |-> "idle"]
    /\ key \in [Goroutines -> Keys]
    /\ now = [g \in Goroutines |-> 0]
    /\ refill = [g \in Goroutines |-> 0]
    /\ cur = [g \in Goroutines |-> 0]
    /\ granted = [k \in Keys |-> 0]
    /\ credited = [k \in Keys |-> 0]
    /\ gap = [g \in Goroutines |-> 0]

Goto(g, label) == pc' = [pc EXCEPT ![g] = label]

Tokens(g) == buckets[key[g]].tokens

SetTokens(g, n) == buckets' = [buckets EXCEPT ![key[g]].tokens = n]

\* Allow returns, and the interceptor or the middleware refuses or serves.
Return(g) ==
    /\ Goto(g, "idle")
    /\ now' = [now EXCEPT ![g] = 0]
    /\ refill' = [refill EXCEPT ![g] = 0]
    /\ cur' = [cur EXCEPT ![g] = 0]
    /\ gap' = [gap EXCEPT ![g] = 0]

-----------------------------------------------------------------------------
(* bucket *)

\* A request for key k arrives and looks the key up.
Request(g, k) ==
    /\ pc[g] = "idle"
    /\ key' = [key EXCEPT ![g] = k]
    /\ Goto(g, IF buckets[k] = NoBucket THEN "create" ELSE "now")
    /\ UNCHANGED <<buckets, clock, localVars, historyVars>>

\* newClientBucket reads the time for lastSeen.
Create(g) ==
    /\ pc[g] = "create"
    /\ now' = [now EXCEPT ![g] = clock]
    /\ Goto(g, "store")
    /\ UNCHANGED <<buckets, clock, key, refill, cur, historyVars>>

\* Mutant: a plain store replaces a bucket that another request has stored.
LoadOrStore_Overwrites(g) ==
    /\ pc[g] = "store"
    /\ buckets' = [buckets EXCEPT ![key[g]] = [tokens |-> capacity, lastSeen |-> now[g]]]
    /\ Goto(g, "now")
    /\ UNCHANGED <<clock, key, localVars, historyVars>>

\* LoadOrStore: the first bucket stays.
LoadOrStore(g) ==
    /\ pc[g] = "store"
    /\ buckets' = IF buckets[key[g]] = NoBucket
                  THEN [buckets EXCEPT ![key[g]] = [tokens |-> capacity, lastSeen |-> now[g]]]
                  ELSE buckets
    /\ Goto(g, "now")
    /\ UNCHANGED <<clock, key, localVars, historyVars>>

-----------------------------------------------------------------------------
(* allow *)

ReadNow(g) ==
    /\ pc[g] = "now"
    /\ now' = [now EXCEPT ![g] = clock]
    /\ Goto(g, "swap")
    /\ UNCHANGED <<buckets, clock, key, refill, cur, historyVars>>

\* Requests for the same key that are past the lookup.
Rivals(g) == {h \in Goroutines \ {g} : key[h] = key[g] /\ pc[h] # "idle"}

\* Mutant: only a wait of more than a token's time refills the bucket.
Swap_LongWaits(g) ==
    LET elapsed == now[g] - buckets[key[g]].lastSeen IN
    /\ pc[g] = "swap"
    /\ buckets' = [buckets EXCEPT ![key[g]].lastSeen = now[g]]
    /\ refill' = [refill EXCEPT ![g] = Wrap(elapsed * refillNs)]
    /\ Goto(g, IF elapsed > OneToken THEN "loadRefill" ELSE "loadTake")
    /\ gap' = [h \in Goroutines |->
                 IF h = g THEN IF Rivals(g) = {} /\ elapsed > 0 THEN elapsed ELSE 0
                 ELSE IF h \in Rivals(g) THEN 0 ELSE gap[h]]
    /\ UNCHANGED <<clock, key, now, cur, granted, credited>>

Swap(g) ==
    LET elapsed == now[g] - buckets[key[g]].lastSeen IN
    /\ pc[g] = "swap"
    /\ buckets' = [buckets EXCEPT ![key[g]].lastSeen = now[g]]
    /\ refill' = [refill EXCEPT ![g] = IF elapsed > 0 THEN Wrap(elapsed * refillNs) ELSE 0]
    /\ Goto(g, IF elapsed > 0 THEN "loadRefill" ELSE "loadTake")
    /\ gap' = [h \in Goroutines |->
                 IF h = g THEN IF Rivals(g) = {} /\ elapsed > 0 THEN elapsed ELSE 0
                 ELSE IF h \in Rivals(g) THEN 0 ELSE gap[h]]
    /\ UNCHANGED <<clock, key, now, cur, granted, credited>>

LoadRefill(g) ==
    /\ pc[g] = "loadRefill"
    /\ cur' = [cur EXCEPT ![g] = Tokens(g)]
    /\ Goto(g, "casRefill")
    /\ UNCHANGED <<buckets, clock, key, now, refill, historyVars>>

Refilled(g) == AtMost(Wrap(cur[g] + refill[g]), capacity)

CasRefill(g) ==
    /\ pc[g] = "casRefill"
    /\ IF Tokens(g) = cur[g]
       THEN /\ SetTokens(g, Refilled(g))
            /\ credited' = [credited EXCEPT ![key[g]] = @ + (Refilled(g) - cur[g])]
            /\ Goto(g, "loadTake")
       ELSE Goto(g, "loadRefill") /\ UNCHANGED <<buckets, credited>>
    /\ UNCHANGED <<clock, key, localVars, granted, gap>>

\* Refuses when there is no whole token.
LoadTake(g) ==
    /\ pc[g] = "loadTake"
    /\ IF Tokens(g) < OneToken
       THEN Return(g)
       ELSE /\ cur' = [cur EXCEPT ![g] = Tokens(g)]
            /\ Goto(g, "casTake")
            /\ UNCHANGED <<now, refill, gap>>
    /\ UNCHANGED <<buckets, clock, key, granted, credited>>

\* Serves when the swap succeeds.
CasTake(g) ==
    /\ pc[g] = "casTake"
    /\ IF Tokens(g) = cur[g]
       THEN /\ SetTokens(g, cur[g] - OneToken)
            /\ granted' = [granted EXCEPT ![key[g]] = @ + 1]
            /\ Return(g)
       ELSE Goto(g, "loadTake") /\ UNCHANGED <<buckets, granted, localVars, gap>>
    /\ UNCHANGED <<clock, key, credited>>

-----------------------------------------------------------------------------
Tick ==
    /\ clock < MaxTime
    /\ clock' = clock + 1
    /\ UNCHANGED <<buckets, pc, key, localVars, historyVars>>

Continue(g) ==
    \/ Create(g)
    \/ LoadOrStore(g)
    \/ ReadNow(g)
    \/ Swap(g)
    \/ LoadRefill(g)
    \/ CasRefill(g)
    \/ LoadTake(g)
    \/ CasTake(g)

Next ==
    \/ \E g \in Goroutines : Continue(g) \/ \E k \in Keys : Request(g, k)
    \/ Tick

Spec == Init /\ [][Next]_vars

-----------------------------------------------------------------------------
(* Properties *)

\* Every request of a client is charged to one bucket, although several
\* requests may create one at the same time, and no token is given out twice:
\* what was granted and what is left add up to the burst and the refills.
TokensConserved ==
    \A k \in Keys : buckets[k] # NoBucket =>
        granted[k] * OneToken + buckets[k].tokens = capacity + credited[k]

\* Why: a goroutine past the lookup has a bucket, a key without one was charged
\* nothing, and a bucket, once stored, is told from none by its time stamp.
Charged ==
    /\ \A g \in Goroutines :
          pc[g] \in {"now", "swap", "loadRefill", "casRefill", "loadTake", "casTake"} =>
              buckets[key[g]] # NoBucket
    /\ \A k \in Keys :
          IF buckets[k] = NoBucket THEN granted[k] = 0 /\ credited[k] = 0
          ELSE /\ buckets[k].lastSeen >= 0
               /\ granted[k] * OneToken + buckets[k].tokens = capacity + credited[k]

\* A request that was suspended after it read the time sets lastSeen back, and
\* the next one refills for the same time again.  A goroutine can do so once
\* for a moment, so the refills exceed the rate at most Cardinality(Goroutines)
\* times.
RefillsBounded ==
    \A k \in Keys : credited[k] <= Cardinality(Goroutines) * refillNs * clock

\* A request is refused only when less time than Retry-After has passed.
RefusesEarlyOnly ==
    \A g \in Goroutines :
        pc[g] = "loadTake" /\ pc'[g] = "idle" => gap[g] * RateNum < OneToken * RateDen

\* A client whose requests do not overlap and who waits as long as Retry-After
\* says, 1 / RequestsPerSecond, is served ("the sustained request rate per
\* client").
SustainedRate == [][RefusesEarlyOnly]_vars
=============================================================================
