------------------------------ MODULE Retries ------------------------------
(***************************************************************************)
(* The two halves of runtimes/go/retry.go that a Go client puts around an  *)
(* operation: hedged calls with retries, which use the breaker as a whole  *)
(* (HedgedCalls), and the steps of the breaker for one goroutine, Caller,  *)
(* whose calls do not overlap (CircuitBreaker).  A behaviour is one of the *)
(* half named by which; the variables of the other are Off.                *)
(***************************************************************************)
EXTENDS Integers, Sequences, FiniteSets

CONSTANTS
    Calls, Hedged, Policies, DurationLimit,
    HedgeFailures, HedgeProbes,                 \* of the breaker of the hedged calls
    Caller, MaxFailures, OpenTimeout, HalfOpenProbes

ASSUME PolicyAssumption ==
    /\ DurationLimit \in Nat \ {0}
    /\ Policies \subseteq
          [Calls -> [attempts : Int, initial : -DurationLimit..(DurationLimit - 1),
                     max : -DurationLimit..(DurationLimit - 1), num : Int, den : Nat \ {0}]]
    /\ HedgeFailures \in Nat \ {0} /\ HedgeProbes \in Nat \ {0}

ASSUME BreakerAssumption ==
    MaxFailures \in Nat \ {0} /\ OpenTimeout \in Nat \ {0} /\ HalfOpenProbes \in Nat \ {0}

VARIABLES
    which, policy,
    breaker, ctxDone, callPc, returned, resultCh, workPc, attempt, backoff, result, faulty,
    state, failures, successes, lastOpenTime, at, stamp, admission, openFor, probesPassed

hedgeVars == <<breaker, ctxDone, callPc, returned, resultCh, workPc, attempt, backoff, result, faulty>>
breakerVars == <<state, failures, successes, lastOpenTime, at, stamp, admission, openFor, probesPassed>>
retriesVars == <<which, policy, hedgeVars, breakerVars>>

H == INSTANCE HedgedCalls WITH MaxFailures <- HedgeFailures, HalfOpenProbes <- HedgeProbes

B == INSTANCE CircuitBreaker WITH Goroutines <- {Caller}, Operators <- {}, pc <- at

Off == "off"

HedgeOff ==
    /\ policy = Off
    /\ breaker = Off /\ ctxDone = Off /\ callPc = Off /\ returned = Off /\ resultCh = Off
    /\ workPc = Off /\ attempt = Off /\ backoff = Off /\ result = Off /\ faulty = Off

BreakerOff ==
    /\ state = Off /\ failures = Off /\ successes = Off /\ lastOpenTime = Off /\ at = Off
    /\ stamp = Off /\ admission = Off /\ openFor = Off /\ probesPassed = Off

RetriesInit ==
    \/ which = "hedge" /\ H!Init /\ BreakerOff
    \/ which = "breaker" /\ B!Init /\ HedgeOff

HedgeStep == which = "hedge" /\ H!Next /\ UNCHANGED <<which, breakerVars>>
BreakerStep == which = "breaker" /\ B!Next /\ UNCHANGED <<which, policy, hedgeVars>>

RetriesNext == HedgeStep \/ BreakerStep

Running == which = "hedge" /\ ~H!Panicked

\* Until a panic ends the process, goroutines that can run do run and timers fire;
\* an operation whose context has ended returns.
RetriesFairness ==
    \A c \in Calls :
        /\ WF_hedgeVars(Running /\ H!Waiting(c))
        /\ \A k \in H!Kinds :
              /\ WF_hedgeVars(Running /\ H!Continuing(c, k))
              /\ WF_hedgeVars(Running /\ H!Cancelled(c) /\ H!OperationReturns(c, k))

RetriesSpec == RetriesInit /\ [][RetriesNext]_retriesVars

-----------------------------------------------------------------------------
(* Properties: those of the two halves, each about its own behaviours. *)

\* HedgedCalls!NoSuccessWasted, OnlyLosersFail and BackoffInRange: what a hedged
\* call returns, what it costs the breaker and how its workers back off; and
\* CallTracked, which is inductive.
HedgeOutcome ==
    which = "hedge" =>
        /\ H!TypeOK /\ H!NoSuccessWasted /\ H!OnlyLosersFail /\ H!BackoffInRange
        /\ \A c \in Calls : H!CallTracked(c)

\* CircuitBreaker!DocumentedTransitions and ProbeFailureReopens, for calls that
\* do not overlap.
SerialTransitions ==
    [][which = "breaker" => B!DocumentedStep /\ B!ProbeFailureReopens']_retriesVars

HedgeOperationsEnd ==
    \A c \in Calls, k \in H!Kinds : WF_hedgeVars(Running /\ H!OperationReturns(c, k))

\* A call returns when its operations do, or when its context ends, with a hedge
\* running or not; and no worker outlives its call for good: its workers are
\* cancelled, end, and their sends never block.  Stated as what holds in the end,
\* since every call is made once and does not leave "returned".
HedgesEnd ==
    /\ HedgeOperationsEnd =>
          <>[](Running => \A c \in Calls : callPc[c] \in {"idle", "returned"})
    /\ <>[](Running => \A c \in Calls : ctxDone[c] => callPc[c] \in {"idle", "returned"})
    /\ <>[](Running => \A c \in Calls, k \in H!Kinds :
              callPc[c] = "returned" => workPc[c][k] \in {"none", "done"})
=============================================================================
