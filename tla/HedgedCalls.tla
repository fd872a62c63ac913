----------------------------- MODULE HedgedCalls -----------------------------
(***************************************************************************)
(* ExecuteWithRetry of runtimes/go/retry.go: a call asks the circuit       *)
(* breaker, runs its operation with retries, and, when hedging is on,      *)
(* starts a second worker if the first has not answered within HedgeDelay  *)
(* and takes the first success.  Calls run concurrently and share the      *)
(* breaker and the hedge bucket.                                           *)
(*                                                                         *)
(* The breaker is atomic here (module CircuitBreaker has its steps); the   *)
(* hedge bucket may grant or refuse a hedge (module TokenBucket).          *)
(***************************************************************************)
EXTENDS Integers, Sequences, FiniteSets

CONSTANTS
    Calls,
    Hedged,                           \* the calls whose policy has HedgeDelay > 0
    Policies,                         \* what the calls' RetryPolicy may be
    DurationLimit,                    \* a time.Duration is below it: 2^63
    MaxFailures, HalfOpenProbes       \* of the breaker

Kinds == {"primary", "hedge"}

\* MaxAttempts, InitialBackoff, MaxBackoff and BackoffMultiplier of a policy:
\* nothing validates them.  The multiplier is the fraction num / den.
Durations == -DurationLimit..(DurationLimit - 1)
RetryPolicy == [attempts : Int, initial : Durations, max : Durations,
                num : Int, den : Nat \ {0}]

VARIABLES
    policy,          \* the policy of each call, chosen once
    breaker,         \* state and counters of the circuit breaker
    ctxDone,         \* the caller's context has ended
    callPc,          \* where each call is
    returned,        \* what it returned
    resultCh,        \* the results sent to it
    workPc,          \* where each worker is
    attempt, backoff,
    result,          \* what the worker's executeRetriesOnly returned
    faulty           \* history: the backend has failed an operation, or a
                     \* caller has given up

callVars == <<callPc, returned, ctxDone>>
workVars == <<workPc, attempt, backoff, result>>
vars == <<policy, breaker, ctxDone, callPc, returned, resultCh, workPc, attempt, backoff,
          result, faulty>>

\* "zero": the zero value and no error, of a loop that made no attempt.
Results == {"ok", "zero", "err", "ctx"}
NoError == {"ok", "zero"}

TypeOK ==
    /\ policy \in Policies
    /\ breaker \in [state : {"Closed", "Open", "HalfOpen"}, failures : 0..MaxFailures,
                    successes : 0..HalfOpenProbes]
    /\ ctxDone \in [Calls -> BOOLEAN]
    /\ callPc \in [Calls -> {"idle", "direct", "select", "refused", "first", "second", "returned"}]
    /\ returned \in [Calls -> Results \cup {"none", "open"}]
    /\ \A c \in Calls : resultCh[c] \in Seq(Results) /\ Len(resultCh[c]) <= 2
    /\ workPc \in [Calls -> [Kinds -> {"none", "skipping", "operating", "sleeping", "done",
                                   "panicked"}]]
    /\ attempt \in [Calls -> [Kinds -> Nat]]
    /\ backoff \in [Calls -> [Kinds -> Durations]]
    /\ result \in [Calls -> [Kinds -> Results \cup {"none"}]]
    /\ faulty \in BOOLEAN

PerWorker(v) == [c \in Calls |-> [k \in Kinds |-> v]]

Init ==
    /\ policy \in Policies
    /\ breaker = [state |-> "Closed", failures |-> 0, successes |-> 0]
    /\ ctxDone = [c \in Calls |-> FALSE]
    /\ callPc = [c \in Calls |-> "idle"]
    /\ returned = [c \in Calls |-> "none"]
    /\ resultCh = [c \in Calls |-> <<>>]
    /\ workPc = PerWorker("none")
    /\ attempt = PerWorker(0)
    /\ backoff = PerWorker(0)
    /\ result = PerWorker("none")
    /\ faulty = FALSE

-----------------------------------------------------------------------------
(* The breaker, one operation at a time *)

UpTo(n, limit) == IF n < limit THEN n ELSE limit

AfterSuccess(b) ==
    IF b.state = "Closed" THEN [b EXCEPT !.failures = 0]
    ELSE IF b.state = "HalfOpen" /\ b.successes + 1 >= HalfOpenProbes
    THEN [b EXCEPT !.state = "Closed", !.successes = HalfOpenProbes, !.failures = 0]
    ELSE IF b.state = "HalfOpen" THEN [b EXCEPT !.successes = @ + 1]
    ELSE b

AfterFailure(b) ==
    [b EXCEPT !.failures = UpTo(@ + 1, MaxFailures),
              !.state = IF b.failures + 1 >= MaxFailures THEN "Open" ELSE @]

-----------------------------------------------------------------------------
(* ExecuteWithRetry *)

\* Starts executeRetriesOnly: in the call itself, or in a new goroutine.  With
\* MaxAttempts below 1 the loop is skipped.
StartWorker(c, k) ==
    /\ workPc' = [workPc EXCEPT ![c][k] =
                     IF policy[c].attempts >= 1 THEN "operating" ELSE "skipping"]
    /\ attempt' = [attempt EXCEPT ![c][k] = 1]
    /\ backoff' = [backoff EXCEPT ![c][k] = policy[c].initial]
    /\ UNCHANGED result

ReturnCall(c, value) ==
    /\ callPc' = [callPc EXCEPT ![c] = "returned"]
    /\ returned' = [returned EXCEPT ![c] = value]

\* Allow: an Open breaker refuses, or lets the call probe after its timeout.
Execute(c) ==
    /\ callPc[c] = "idle"
    /\ \/ /\ breaker.state = "Open"
          /\ ReturnCall(c, "open")
          /\ UNCHANGED <<breaker, workVars>>
       \/ /\ breaker' = IF breaker.state = "Open"
                        THEN [breaker EXCEPT !.state = "HalfOpen", !.successes = 0]
                        ELSE breaker
          /\ StartWorker(c, "primary")
          /\ callPc' = [callPc EXCEPT ![c] = IF c \in Hedged THEN "select" ELSE "direct"]
          /\ UNCHANGED returned
    /\ UNCHANGED <<ctxDone, resultCh, faulty>>

CtxEnds(c) ==
    /\ callPc[c] # "returned"
    /\ ~ctxDone[c]
    /\ ctxDone' = [ctxDone EXCEPT ![c] = TRUE]
    /\ faulty' = TRUE
    /\ UNCHANGED <<breaker, callPc, returned, resultCh, workVars>>

-----------------------------------------------------------------------------
(* executeRetriesOnly *)

\* A worker's context ends with the caller's, or when the call returns and
\* its deferred cancels run.
Cancelled(c) == ctxDone[c] \/ callPc[c] = "returned"

\* Mutant: a worker sends only a success.
EndWorker_SuccessOnly(c, k, r) ==
    /\ workPc' = [workPc EXCEPT ![c][k] = "done"]
    /\ result' = [result EXCEPT ![c][k] = r]
    /\ IF c \in Hedged
       THEN /\ resultCh' = [resultCh EXCEPT ![c] = IF r = "ok" THEN Append(@, r) ELSE @]
            /\ UNCHANGED <<callPc, returned>>
       ELSE ReturnCall(c, r) /\ UNCHANGED resultCh

\* The worker returns r: without hedging that ends the call, with hedging it
\* is sent on the channel.
EndWorker(c, k, r) ==
    /\ workPc' = [workPc EXCEPT ![c][k] = "done"]
    /\ result' = [result EXCEPT ![c][k] = r]
    /\ IF c \in Hedged
       THEN resultCh' = [resultCh EXCEPT ![c] = Append(@, r)] /\ UNCHANGED <<callPc, returned>>
       ELSE ReturnCall(c, r) /\ UNCHANGED resultCh

\* No attempt was made: lastErr is nil.
SkipLoop(c, k) ==
    /\ workPc[c][k] = "skipping"
    /\ EndWorker(c, k, "zero")
    /\ UNCHANGED <<breaker, ctxDone, attempt, backoff, faulty>>

OperationSucceeds(c, k) ==
    /\ workPc[c][k] = "operating"
    /\ breaker' = AfterSuccess(breaker)
    /\ EndWorker(c, k, "ok")
    /\ UNCHANGED <<ctxDone, attempt, backoff, faulty>>

\* The operation fails with e: "err" from the backend, "ctx" when it was
\* cancelled.  The failure is recorded; then the error is final, or it was the
\* last attempt, or the worker sleeps, for which rand.Int63n panics unless
\* the backoff is positive.
OperationFails(c, k, e) ==
    /\ workPc[c][k] = "operating"
    /\ e = "ctx" => Cancelled(c)
    /\ breaker' = AfterFailure(breaker)
    /\ faulty' = (faulty \/ e = "err")
    /\ \/ EndWorker(c, k, e)
       \/ /\ attempt[c][k] < policy[c].attempts
          /\ workPc' = [workPc EXCEPT ![c][k] = IF backoff[c][k] > 0 THEN "sleeping" ELSE "panicked"]
          /\ UNCHANGED <<result, resultCh, callPc, returned>>
    /\ UNCHANGED <<ctxDone, attempt, backoff>>

\* The product is truncated toward zero.  One that is no time.Duration becomes
\* what the build makes of it: the conversion saturates, or yields the least value.
Truncated(n, d) == IF n >= 0 THEN n \div d ELSE -((-n) \div d)

Converted(n) == IF n \in Durations THEN {n} ELSE {-DurationLimit, DurationLimit - 1}

NextBackoffs(p, b) == {UpTo(n, p.max) : n \in Converted(Truncated(b * p.num, p.den))}

\* The sleep is over: the next attempt, even if the context has ended as well.
WakeUp(c, k) ==
    /\ workPc[c][k] = "sleeping"
    /\ workPc' = [workPc EXCEPT ![c][k] = "operating"]
    /\ attempt' = [attempt EXCEPT ![c][k] = @ + 1]
    /\ \E b \in NextBackoffs(policy[c], backoff[c][k]) :
          backoff' = [backoff EXCEPT ![c][k] = b]
    /\ UNCHANGED <<breaker, callVars, resultCh, result, faulty>>

SleepCancelled(c, k) ==
    /\ workPc[c][k] = "sleeping"
    /\ Cancelled(c)
    /\ EndWorker(c, k, "ctx")
    /\ UNCHANGED <<breaker, ctxDone, attempt, backoff, faulty>>

-----------------------------------------------------------------------------
(* executeWithHedging *)

\* Returns with the first result, before or without a hedge.
ReceiveOnly(c) ==
    /\ callPc[c] \in {"select", "refused"}
    /\ resultCh[c] # <<>>
    /\ ReturnCall(c, Head(resultCh[c]))
    /\ resultCh' = [resultCh EXCEPT ![c] = Tail(@)]
    /\ UNCHANGED <<breaker, ctxDone, workVars, faulty>>

\* The call notices its context before it has started a hedge, not after.
CallCtx(c) ==
    /\ callPc[c] \in {"select", "refused"}
    /\ ctxDone[c]
    /\ ReturnCall(c, "ctx")
    /\ UNCHANGED <<breaker, ctxDone, resultCh, workVars, faulty>>

HedgeDelayPasses(c) ==
    /\ callPc[c] = "select"
    /\ \/ callPc' = [callPc EXCEPT ![c] = "first"] /\ StartWorker(c, "hedge")
       \/ callPc' = [callPc EXCEPT ![c] = "refused"] /\ UNCHANGED workVars
    /\ UNCHANGED <<breaker, ctxDone, returned, resultCh, faulty>>

\* Mutant: the first result is taken even if it is an error.
ReceiveFirst_AnyResult(c) ==
    /\ callPc[c] = "first"
    /\ resultCh[c] # <<>>
    /\ ReturnCall(c, Head(resultCh[c]))
    /\ resultCh' = [resultCh EXCEPT ![c] = Tail(@)]
    /\ UNCHANGED <<breaker, ctxDone, workVars, faulty>>

ReceiveFirst(c) ==
    /\ callPc[c] = "first"
    /\ resultCh[c] # <<>>
    /\ IF Head(resultCh[c]) \in NoError
       THEN ReturnCall(c, Head(resultCh[c]))
       ELSE callPc' = [callPc EXCEPT ![c] = "second"] /\ UNCHANGED returned
    /\ resultCh' = [resultCh EXCEPT ![c] = Tail(@)]
    /\ UNCHANGED <<breaker, ctxDone, workVars, faulty>>

\* Both failed: errors.Join of the two.
ReceiveSecond(c) ==
    /\ callPc[c] = "second"
    /\ resultCh[c] # <<>>
    /\ ReturnCall(c, IF Head(resultCh[c]) \in NoError THEN Head(resultCh[c]) ELSE "err")
    /\ resultCh' = [resultCh EXCEPT ![c] = Tail(@)]
    /\ UNCHANGED <<breaker, ctxDone, workVars, faulty>>

-----------------------------------------------------------------------------
OperationReturns(c, k) ==
    OperationSucceeds(c, k) \/ \E e \in {"err", "ctx"} : OperationFails(c, k, e)

Continuing(c, k) == SkipLoop(c, k) \/ WakeUp(c, k) \/ SleepCancelled(c, k)

Waiting(c) ==
    \/ ReceiveOnly(c)
    \/ CallCtx(c)
    \/ HedgeDelayPasses(c)
    \/ ReceiveFirst(c)
    \/ ReceiveSecond(c)

Panicked == \E c \in Calls, k \in Kinds : workPc[c][k] = "panicked"

\* A panic in a worker ends the process.
Next ==
    /\ ~Panicked
    /\ \E c \in Calls :
          \/ Execute(c)
          \/ CtxEnds(c)
          \/ Waiting(c)
          \/ \E k \in Kinds : OperationReturns(c, k) \/ Continuing(c, k)
    /\ UNCHANGED policy

Spec == Init /\ [][Next]_vars

-----------------------------------------------------------------------------
(* Properties *)

Launched(c) == {k \in Kinds : workPc[c][k] # "none"}

\* The results of c's workers allow it to return v.
Justified(c, v) ==
    /\ v \in NoError => \E k \in Kinds : result[c][k] = v
    /\ v = "err" => /\ Launched(c) # {}
                    /\ \A k \in Launched(c) : result[c][k] \in {"err", "ctx"}

\* A call succeeds only with the success of one of its workers, and reports
\* an error of the backend only when every worker it started has failed: a
\* hedge that is still running, or has succeeded, is waited for.  Without a
\* call of the backend it returns no error only if its policy allows no attempt.
NoSuccessWasted ==
    \A c \in Calls :
        /\ Justified(c, returned[c])
        /\ returned[c] = "zero" => policy[c].attempts < 1
        /\ returned[c] \in {"ok", "err"} => policy[c].attempts >= 1

\* Why: at every point of a call, what the channel holds is what the workers
\* that ended have sent and the call has not yet received.
Done(c, k) == workPc[c][k] = "done"
Other(k) == IF k = "primary" THEN "hedge" ELSE "primary"
Only(c, k) == Len(resultCh[c]) = 1 /\ resultCh[c][1] = result[c][k]
SentBy(c, k) == IF Done(c, k) THEN Only(c, k) ELSE resultCh[c] = <<>>

\* Both workers run, and k is the first to end if one has.
SentFirstBy(c, k) ==
    IF ~Done(c, k) THEN ~Done(c, Other(k)) /\ resultCh[c] = <<>>
    ELSE IF ~Done(c, Other(k)) THEN Only(c, k)
    ELSE /\ Len(resultCh[c]) = 2
         /\ resultCh[c][1] = result[c][k] /\ resultCh[c][2] = result[c][Other(k)]

CallTracked(c) ==
    /\ \A k \in Kinds : Done(c, k) <=> result[c][k] # "none"
    /\ callPc[c] = "idle" => (\A k \in Kinds : workPc[c][k] = "none") /\ resultCh[c] = <<>>
    /\ c \in Hedged => callPc[c] # "direct"
    /\ c \notin Hedged =>
          /\ callPc[c] \in {"idle", "direct", "returned"}
          /\ workPc[c]["hedge"] = "none"
          /\ callPc[c] = "returned" => workPc[c]["primary"] \in {"none", "done"}
    /\ callPc[c] \in {"select", "refused"} => workPc[c]["hedge"] = "none" /\ SentBy(c, "primary")
    /\ callPc[c] = "first" => \E k \in Kinds : SentFirstBy(c, k)
    /\ callPc[c] = "second" =>
          \E k \in Kinds : Done(c, k) /\ result[c][k] \in {"err", "ctx"} /\ SentBy(c, Other(k))
    /\ callPc[c] # "returned" => returned[c] = "none"
    /\ Justified(c, returned[c])

\* A policy whose backoffs are positive and do not shrink, and whose largest
\* product is a time.Duration.
Steady(p) ==
    LET top == IF p.initial > p.max THEN p.initial ELSE p.max IN
    /\ p.initial > 0 /\ p.max > 0 /\ p.num >= p.den
    /\ top * p.num < DurationLimit * p.den

\* The backoff a worker sleeps on is positive and bounded under a steady policy,
\* so that rand.Int63n panics only under another.
BackoffInRange ==
    \A c \in Calls : Steady(policy[c]) =>
        \A k \in Launched(c) :
            /\ backoff[c][k] > 0
            /\ backoff[c][k] <= policy[c].initial \/ backoff[c][k] <= policy[c].max
            /\ workPc[c][k] # "panicked"

\* While no operation has failed by itself and no caller has given up, the
\* breaker counts no failure but those of the cancelled losers of hedges that
\* were won: neither starting a hedge nor waiting for it costs a failure.
OnlyLosersFail ==
    ~faulty /\ breaker.failures > 0 =>
        \E c \in Calls : returned[c] = "ok" /\ Launched(c) = Kinds
=============================================================================
