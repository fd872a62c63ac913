----------------------------- MODULE RedisBucket -----------------------------
(***************************************************************************)
(* The distributed limiter of runtimes/go/ratelimit.go: RedisRateLimiter   *)
(* and the Lua script that Redis runs for it, atomically, on the bucket of *)
(* one key.  Several servers share the key; each reads its own clock       *)
(* before the script runs.                                                 *)
(*                                                                         *)
(* Amounts are counted in parts of a token, OneToken to the token; a unit  *)
(* of time adds Rate parts.                                                *)
(***************************************************************************)
EXTENDS Integers, FiniteSets

CONSTANTS
    Servers,
    Skew,                \* what the clock of each server is off by
    BurstParts,          \* cfg.BurstSize
    Rate,                \* cfg.RequestsPerSecond
    OneToken,
    MaxTime              \* bound on the clock

VARIABLES
    clock,
    bucket,              \* the two values of the key, or Absent
    pc, now,             \* of each server
    granted, credited    \* history: requests allowed, parts added

vars == <<clock, bucket, pc, now, granted, credited>>

Absent == [tokens |-> 0, ts |-> 0, expires |-> -1]

Init ==
    /\ clock = 0
    /\ bucket = Absent
    /\ pc = [s \in Servers |-> "idle"]
    /\ now = [s \in Servers |-> 0]
    /\ granted = 0
    /\ credited = 0

\* The time to live of both values: math.ceil(burst / rate).
Ttl == (BurstParts + Rate - 1) \div Rate

\* Allow reads the time and sends the script.
Allow(s) ==
    /\ pc[s] = "idle"
    /\ now' = [now EXCEPT ![s] = clock + Skew[s]]
    /\ pc' = [pc EXCEPT ![s] = "script"]
    /\ UNCHANGED <<clock, bucket, granted, credited>>

Least(a, b) == IF a < b THEN a ELSE b

\* Mutant: the sum is not cut off at the burst.
FilledUncapped(last, delta) == last + delta * Rate

\* filled_tokens
Filled(last, delta) == Least(BurstParts, last + delta * Rate)

\* The script.  The time stamp becomes the caller's, even when that is
\* earlier than the one it replaces.
Script(s) ==
    LET held == bucket.expires > clock
        last == IF held THEN bucket.tokens ELSE BurstParts
        delta == IF held THEN IF now[s] > bucket.ts THEN now[s] - bucket.ts ELSE 0 ELSE now[s]
        filled == Filled(last, delta)
        allowed == filled >= OneToken
    IN  /\ pc[s] = "script"
        /\ bucket' = [tokens |-> IF allowed THEN filled - OneToken ELSE filled,
                      ts |-> now[s], expires |-> clock + Ttl]
        /\ granted' = IF allowed THEN granted + 1 ELSE granted
        /\ credited' = credited + (filled - (IF bucket = Absent THEN BurstParts ELSE bucket.tokens))
        /\ pc' = [pc EXCEPT ![s] = "idle"]
        /\ now' = [now EXCEPT ![s] = 0]
        /\ UNCHANGED clock

\* An error of Redis refuses the request.
RedisFails(s) ==
    /\ pc[s] = "script"
    /\ pc' = [pc EXCEPT ![s] = "idle"]
    /\ now' = [now EXCEPT ![s] = 0]
    /\ UNCHANGED <<clock, bucket, granted, credited>>

Tick ==
    /\ clock < MaxTime
    /\ clock' = clock + 1
    /\ UNCHANGED <<bucket, pc, now, granted, credited>>

Next ==
    \/ \E s \in Servers : Allow(s) \/ Script(s) \/ RedisFails(s)
    \/ Tick

Spec == Init /\ [][Next]_vars

-----------------------------------------------------------------------------

\* Servers whose clocks agree admit together no more than the burst and the
\* refills, and every moment is refilled at most once per server, by scripts
\* that are delayed and turn the time stamp back, and once more by the expiry
\* of the key.  However long they wait, and whatever the key lost by expiring,
\* they never find more than one burst saved up (ratelimit.go, luaTokenBucket).
SharedRate ==
    /\ granted * OneToken <= BurstParts + credited
    /\ bucket.tokens \in 0..BurstParts
    /\ (\A s \in Servers : Skew[s] = 0) => credited <= (Cardinality(Servers) + 1) * Rate * clock
=============================================================================
