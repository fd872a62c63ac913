----------------------------- MODULE TokenBucket -----------------------------
(***************************************************************************)
(* The lock-free token bucket of runtimes/go/retry.go that limits hedged   *)
(* requests.  Consume refills the bucket for the time since lastRefill and *)
(* then takes one token; each of its atomic operations is one action here. *)
(*                                                                         *)
(* Amounts are counted in the parts of a token the code works with: a      *)
(* token is OneToken parts (10^9 in the code) and a unit of time adds      *)
(* refillRate parts.  The product elapsed * refillRate stays below 2^63    *)
(* for as long as the bucket is not idle for 2^63 / refillRate ns, which   *)
(* is 29 years at the default rate.                                        *)
(***************************************************************************)
EXTENDS Integers, FiniteSets

CONSTANTS
    Goroutines,
    BurstCapacity,       \* tokens
    RateNum, RateDen,    \* hedgesPerSecond, a float in the code, is RateNum / RateDen
    OneToken,
    MaxTime              \* bound on the clock

VARIABLES
    tokens, lastRefill,
    clock,               \* time.Now().UnixNano()
    pc,                  \* the next atomic operation of each goroutine
    now, last, cur,      \* the locals of Consume
    taken,               \* history: number of calls that got a token
    credited             \* history: parts that refills have added

bucketVars == <<tokens, lastRefill, clock>>
localVars == <<now, last, cur>>
historyVars == <<taken, credited>>
vars == <<tokens, lastRefill, clock, pc, now, last, cur, taken, credited>>

capacity == BurstCapacity * OneToken

\* The conversion of the rate to an integer: it truncates, but not to zero.
refillRate ==
    IF RateNum \div RateDen = 0 /\ RateNum > 0 THEN 1 ELSE RateNum \div RateDen

Labels == {"idle", "loadLast", "loadRefill", "casRefill", "casLast", "loadTake", "casTake"}

TypeOK ==
    /\ tokens \in 0..capacity
    /\ lastRefill \in Nat
    /\ clock \in Nat
    /\ pc \in [Goroutines -> Labels]
    /\ now \in [Goroutines -> Nat]
    /\ last \in [Goroutines -> Nat]
    /\ cur \in [Goroutines -> 0..capacity]
    /\ taken \in Nat
    /\ credited \in Nat

\* NewHedgingTokenBucket, and NewTokenBucket for a whole number of tokens.
Init ==
    /\ tokens = capacity
    /\ lastRefill = 0
    /\ clock = 0
    /\ pc = [g \in Goroutines |-> "idle"]
    /\ now = [g \in Goroutines |-> 0]
    /\ last = [g \in Goroutines |-> 0]
    /\ cur = [g \in Goroutines |-> 0]
    /\ taken = 0
    /\ credited = 0

Goto(g, label) == pc' = [pc EXCEPT ![g] = label]

Return(g) ==
    /\ Goto(g, "idle")
    /\ now' = [now EXCEPT ![g] = 0]
    /\ last' = [last EXCEPT ![g] = 0]
    /\ cur' = [cur EXCEPT ![g] = 0]

-----------------------------------------------------------------------------
(* Consume *)

ReadNow(g) ==
    /\ pc[g] = "idle"
    /\ now' = [now EXCEPT ![g] = clock]
    /\ Goto(g, "loadLast")
    /\ UNCHANGED <<bucketVars, last, cur, historyVars>>

LoadLast(g) ==
    /\ pc[g] = "loadLast"
    /\ last' = [last EXCEPT ![g] = lastRefill]
    /\ Goto(g, IF now[g] > lastRefill /\ refillRate > 0 THEN "loadRefill" ELSE "loadTake")
    /\ UNCHANGED <<bucketVars, now, cur, historyVars>>

LoadRefill(g) ==
    /\ pc[g] = "loadRefill"
    /\ cur' = [cur EXCEPT ![g] = tokens]
    /\ Goto(g, "casRefill")
    /\ UNCHANGED <<bucketVars, now, last, historyVars>>

Refilled(g) ==
    LET next == cur[g] + (now[g] - last[g]) * refillRate
    IN  IF next > capacity THEN capacity ELSE next

\* Mutant: the loop is not left after a successful swap.
CasRefill_NoBreak(g) ==
    /\ pc[g] = "casRefill"
    /\ IF tokens = cur[g]
       THEN tokens' = Refilled(g) /\ credited' = credited + (Refilled(g) - cur[g])
       ELSE UNCHANGED <<tokens, credited>>
    /\ Goto(g, "loadRefill")
    /\ UNCHANGED <<lastRefill, clock, localVars, taken>>

\* The swap of tokens; when it fails the loop loads them again.
CasRefill(g) ==
    /\ pc[g] = "casRefill"
    /\ IF tokens = cur[g]
       THEN /\ tokens' = Refilled(g)
            /\ credited' = credited + (Refilled(g) - cur[g])
            /\ Goto(g, "casLast")
       ELSE Goto(g, "loadRefill") /\ UNCHANGED <<tokens, credited>>
    /\ UNCHANGED <<lastRefill, clock, localVars, taken>>

\* Mutant: lastRefill is not moved.
CasLast_Missing(g) ==
    /\ pc[g] = "casLast"
    /\ Goto(g, "loadTake")
    /\ UNCHANGED <<bucketVars, localVars, historyVars>>

\* Mutant: a plain store instead of the swap.
CasLast_Store(g) ==
    /\ pc[g] = "casLast"
    /\ lastRefill' = now[g]
    /\ Goto(g, "loadTake")
    /\ UNCHANGED <<tokens, clock, localVars, historyVars>>

\* The swap of lastRefill, whose result nobody looks at.
CasLast(g) ==
    /\ pc[g] = "casLast"
    /\ lastRefill' = IF lastRefill = last[g] THEN now[g] ELSE lastRefill
    /\ Goto(g, "loadTake")
    /\ UNCHANGED <<tokens, clock, localVars, historyVars>>

\* Returns false when there is no whole token.
LoadTake(g) ==
    /\ pc[g] = "loadTake"
    /\ IF tokens < OneToken
       THEN Return(g)
       ELSE Goto(g, "casTake") /\ cur' = [cur EXCEPT ![g] = tokens] /\ UNCHANGED <<now, last>>
    /\ UNCHANGED <<bucketVars, historyVars>>

\* Mutant: a plain store instead of the swap.
CasTake_Store(g) ==
    /\ pc[g] = "casTake"
    /\ tokens' = cur[g] - OneToken
    /\ taken' = taken + 1
    /\ Return(g)
    /\ UNCHANGED <<lastRefill, clock, credited>>

\* Returns true when the swap succeeds.
CasTake(g) ==
    /\ pc[g] = "casTake"
    /\ IF tokens = cur[g]
       THEN tokens' = cur[g] - OneToken /\ taken' = taken + 1 /\ Return(g)
       ELSE Goto(g, "loadTake") /\ UNCHANGED <<tokens, taken, localVars>>
    /\ UNCHANGED <<lastRefill, clock, credited>>

-----------------------------------------------------------------------------
Tick ==
    /\ clock < MaxTime
    /\ clock' = clock + 1
    /\ UNCHANGED <<tokens, lastRefill, pc, localVars, historyVars>>

Continue(g) ==
    \/ LoadLast(g)
    \/ LoadRefill(g)
    \/ CasRefill(g)
    \/ CasLast(g)
    \/ LoadTake(g)
    \/ CasTake(g)

Next ==
    \/ \E g \in Goroutines : ReadNow(g) \/ Continue(g)
    \/ Tick

Spec == Init /\ [][Next]_vars

\* The scheduler runs every goroutine that is inside Consume.
FairSpec == Spec /\ \A g \in Goroutines : WF_vars(Continue(g))

-----------------------------------------------------------------------------
(* Properties *)

\* No token is handed out twice and no refill is lost: whatever the loops of
\* concurrent calls overwrite or repeat, the tokens taken and the tokens left
\* add up to the burst and the refills.
TokensConserved == taken * OneToken + tokens = capacity + credited

\* Calls that load the same lastRefill all refill for the same time, since the
\* result of the swap of lastRefill is ignored; a call may even refill twice for
\* the same time, when a slower call has meanwhile moved lastRefill by less.
\* With n goroutines every moment is refilled for at most n * (n + 1) / 2 times.
RefillsBounded ==
    LET n == Cardinality(Goroutines)
    IN  2 * credited <= n * (n + 1) * refillRate * clock

\* lastRefill never goes back, and never runs ahead of the clock.
RefillTimeAdvances == [][lastRefill' >= lastRefill /\ lastRefill' <= clock]_vars

\* The two loops of Consume are lock-free: a swap fails only because another
\* call got on, so never are all goroutines inside Consume for good.
LockFree == []<>(\E g \in Goroutines : pc[g] = "idle")
=============================================================================
