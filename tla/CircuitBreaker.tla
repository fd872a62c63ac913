--------------------------- MODULE CircuitBreaker ---------------------------
(***************************************************************************)
(* The lock-free circuit breaker of runtimes/go/retry.go.  Every method is *)
(* a sequence of separate atomic operations on four words, so every atomic *)
(* operation is one action here and the calls of different goroutines      *)
(* interleave between them.                                                *)
(*                                                                         *)
(* Two exact abstractions keep the state finite without bounding a run.    *)
(* A time stamp is represented by its age, counted up to OpenTimeout: the  *)
(* code only asks whether OpenTimeout has passed.  failures and successes  *)
(* are counted up to their thresholds: the code only compares them with >=.*)
(***************************************************************************)
EXTENDS Naturals, FiniteSets

CONSTANTS
    Goroutines,      \* goroutines that send requests through the breaker
    Operators,       \* goroutines of the debug handler (ForceOpen, ForceClose)
    MaxFailures, OpenTimeout, HalfOpenProbes

ASSUME ConfigAssumption ==
    /\ MaxFailures \in Nat \ {0}
    /\ OpenTimeout \in Nat \ {0}
    /\ HalfOpenProbes \in Nat \ {0}

ASSUME ActorAssumption == Goroutines \cap Operators = {}

VARIABLES
    state,           \* cb.state
    failures,        \* cb.failures, counted up to MaxFailures
    successes,       \* cb.successes, counted up to HalfOpenProbes
    lastOpenTime,    \* age of the stamp in cb.lastOpenTime
    pc,              \* the next atomic operation of each goroutine
    stamp,           \* age of the time stamp a goroutine holds in a local
    admission,       \* "admitted" while its request is one that Allow let in
    openFor,         \* history: age of the latest switch to Open
    probesPassed     \* history: successes recorded since the switch to HalfOpen

cbVars == <<state, failures, successes, lastOpenTime>>
historyVars == <<openFor, probesPassed>>
vars == <<state, failures, successes, lastOpenTime, pc, stamp, admission,
          openFor, probesPassed>>

Procs == Goroutines \cup Operators

CircuitState == {"Closed", "Open", "HalfOpen"}

Ages == 0..OpenTimeout

Labels == {"idle", "loadOpenTime", "since", "casHalfOpen", "resetSuccesses",
           "addSuccess", "storeClosed", "resetFailures",
           "casFromClosed", "casFromHalfOpen", "readNow", "storeOpenTime"}

Admissions == {"none", "admitted"}

UpTo(n, limit) == IF n < limit THEN n ELSE limit

TypeOK ==
    /\ state \in CircuitState
    /\ failures \in 0..MaxFailures
    /\ successes \in 0..HalfOpenProbes
    /\ lastOpenTime \in Ages
    /\ pc \in [Procs -> Labels]
    /\ stamp \in [Procs -> Ages]
    /\ admission \in [Goroutines -> Admissions]
    /\ openFor \in Ages
    /\ probesPassed \in 0..HalfOpenProbes

\* NewCircuitBreaker leaves the four words zero.  The zero stamp is the Unix
\* epoch, which is older than any OpenTimeout.
Init ==
    /\ state = "Closed"
    /\ failures = 0
    /\ successes = 0
    /\ lastOpenTime = OpenTimeout
    /\ pc = [g \in Procs |-> "idle"]
    /\ stamp = [g \in Procs |-> 0]
    /\ admission = [g \in Goroutines |-> "none"]
    /\ openFor = OpenTimeout
    /\ probesPassed = 0

Goto(g, label) == pc' = [pc EXCEPT ![g] = label]

-----------------------------------------------------------------------------
(* Allow *)

\* The switch on cb.State(): only an Open circuit needs further operations.
AllowLoad(g) ==
    /\ pc[g] = "idle"
    /\ IF state = "Open"
       THEN Goto(g, "loadOpenTime") /\ admission' = [admission EXCEPT ![g] = "none"]
       ELSE /\ Goto(g, "idle")
            /\ admission' = [admission EXCEPT ![g] = "admitted"]
    /\ UNCHANGED <<cbVars, stamp, historyVars>>

AllowLoadOpenTime(g) ==
    /\ pc[g] = "loadOpenTime"
    /\ stamp' = [stamp EXCEPT ![g] = lastOpenTime]
    /\ Goto(g, "since")
    /\ UNCHANGED <<cbVars, admission, historyVars>>

AllowSince(g) ==
    /\ pc[g] = "since"
    /\ IF stamp[g] >= OpenTimeout
       THEN Goto(g, "casHalfOpen") /\ UNCHANGED admission
       ELSE Goto(g, "idle") /\ admission' = [admission EXCEPT ![g] = "none"]
    /\ UNCHANGED <<cbVars, stamp, historyVars>>

\* Mutant: the winner of the swap does not reset the success counter.
AllowCasHalfOpen_NoReset(g) ==
    /\ pc[g] = "casHalfOpen"
    /\ IF state = "Open"
       THEN state' = "HalfOpen" /\ probesPassed' = 0
       ELSE UNCHANGED <<state, probesPassed>>
    /\ admission' = [admission EXCEPT ![g] = "admitted"]
    /\ Goto(g, "idle")
    /\ UNCHANGED <<failures, successes, lastOpenTime, stamp, openFor>>

\* Mutant: the old and the new state of the swap are exchanged.
AllowCasHalfOpen_Exchanged(g) ==
    /\ pc[g] = "casHalfOpen"
    /\ IF state = "HalfOpen"
       THEN state' = "Open" /\ openFor' = 0
       ELSE UNCHANGED <<state, openFor>>
    /\ admission' = [admission EXCEPT ![g] = "admitted"]
    /\ Goto(g, "idle")
    /\ UNCHANGED <<failures, successes, lastOpenTime, stamp, probesPassed>>

\* The request is admitted whether or not this goroutine wins the swap; only
\* the winner goes on to reset the success counter.
AllowCasHalfOpen(g) ==
    /\ pc[g] = "casHalfOpen"
    /\ IF state = "Open"
       THEN /\ state' = "HalfOpen"
            /\ probesPassed' = 0
            /\ Goto(g, "resetSuccesses")
            /\ UNCHANGED admission
       ELSE /\ Goto(g, "idle")
            /\ admission' = [admission EXCEPT ![g] = "admitted"]
            /\ UNCHANGED <<state, probesPassed>>
    /\ UNCHANGED <<failures, successes, lastOpenTime, stamp, openFor>>

AllowResetSuccesses(g) ==
    /\ pc[g] = "resetSuccesses"
    /\ successes' = 0
    /\ admission' = [admission EXCEPT ![g] = "admitted"]
    /\ Goto(g, "idle")
    /\ UNCHANGED <<state, failures, lastOpenTime, stamp, historyVars>>

-----------------------------------------------------------------------------
(* RecordSuccess *)

Admitted(g) == admission[g] = "admitted"

\* Mutant: a success in HalfOpen is treated like one in Closed.
SuccessLoad_NoProbeCount(g) ==
    /\ pc[g] = "idle"
    /\ Admitted(g)
    /\ admission' = [admission EXCEPT ![g] = "none"]
    /\ Goto(g, IF state = "Open" THEN "idle" ELSE "resetFailures")
    /\ UNCHANGED <<cbVars, stamp, historyVars>>

\* A success ends the request.
SuccessLoad(g) ==
    /\ pc[g] = "idle"
    /\ Admitted(g)
    /\ admission' = [admission EXCEPT ![g] = "none"]
    /\ Goto(g, CASE state = "HalfOpen" -> "addSuccess"
                 [] state = "Closed"   -> "resetFailures"
                 [] state = "Open"     -> "idle")
    /\ UNCHANGED <<cbVars, stamp, historyVars>>

SuccessAdd(g) ==
    /\ pc[g] = "addSuccess"
    /\ successes' = UpTo(successes + 1, HalfOpenProbes)
    /\ probesPassed' = UpTo(probesPassed + 1, HalfOpenProbes)
    /\ Goto(g, IF successes' >= HalfOpenProbes THEN "storeClosed" ELSE "idle")
    /\ UNCHANGED <<state, failures, lastOpenTime, stamp, admission, openFor>>

\* Mutant: closing the circuit leaves the failure counter as it is.
SuccessStoreClosed_NoReset(g) ==
    /\ pc[g] = "storeClosed"
    /\ state' = "Closed"
    /\ Goto(g, "idle")
    /\ UNCHANGED <<failures, successes, lastOpenTime, stamp, admission, historyVars>>

\* A plain store: it does not look at what the state has become.
SuccessStoreClosed(g) ==
    /\ pc[g] = "storeClosed"
    /\ state' = "Closed"
    /\ Goto(g, "resetFailures")
    /\ UNCHANGED <<failures, successes, lastOpenTime, stamp, admission, historyVars>>

\* The last operation of RecordSuccess and of ForceClose.
ResetFailures(g) ==
    /\ pc[g] = "resetFailures"
    /\ failures' = 0
    /\ Goto(g, "idle")
    /\ UNCHANGED <<state, successes, lastOpenTime, stamp, admission, historyVars>>

-----------------------------------------------------------------------------
(* RecordFailure *)

\* A failed request may be retried, and record again, under the same Allow.
FailureAdd(g) ==
    /\ pc[g] = "idle"
    /\ Admitted(g)
    /\ failures' = UpTo(failures + 1, MaxFailures)
    /\ Goto(g, IF failures' >= MaxFailures THEN "casFromClosed" ELSE "idle")
    /\ UNCHANGED <<state, successes, lastOpenTime, stamp, admission, historyVars>>

\* One of the two swaps to Open; when it fails control goes to otherwise.
CasOpen(g, from, otherwise) ==
    IF state = from
    THEN state' = "Open" /\ openFor' = 0 /\ Goto(g, "readNow")
    ELSE Goto(g, otherwise) /\ UNCHANGED <<state, openFor>>

FailureCasFromClosed(g) ==
    /\ pc[g] = "casFromClosed"
    /\ CasOpen(g, "Closed", "casFromHalfOpen")
    /\ UNCHANGED <<failures, successes, lastOpenTime, stamp, admission, probesPassed>>

FailureCasFromHalfOpen(g) ==
    /\ pc[g] = "casFromHalfOpen"
    /\ CasOpen(g, "HalfOpen", "idle")
    /\ UNCHANGED <<failures, successes, lastOpenTime, stamp, admission, probesPassed>>

\* time.Now() and the store of its value end RecordFailure and ForceOpen.
ReadNow(g) ==
    /\ pc[g] = "readNow"
    /\ stamp' = [stamp EXCEPT ![g] = 0]
    /\ Goto(g, "storeOpenTime")
    /\ UNCHANGED <<cbVars, admission, historyVars>>

StoreOpenTime(g) ==
    /\ pc[g] = "storeOpenTime"
    /\ lastOpenTime' = stamp[g]
    /\ Goto(g, "idle")
    /\ UNCHANGED <<state, failures, successes, stamp, admission, historyVars>>

-----------------------------------------------------------------------------
(* ForceOpen and ForceClose, called by the debug handler *)

ForceOpen(g) ==
    /\ pc[g] = "idle"
    /\ state' = "Open"
    /\ openFor' = 0
    /\ Goto(g, "readNow")
    /\ UNCHANGED <<failures, successes, lastOpenTime, stamp, admission, probesPassed>>

ForceClose(g) ==
    /\ pc[g] = "idle"
    /\ state' = "Closed"
    /\ Goto(g, "resetFailures")
    /\ UNCHANGED <<failures, successes, lastOpenTime, stamp, admission, historyVars>>

-----------------------------------------------------------------------------
Older(age) == UpTo(age + 1, OpenTimeout)

\* One unit of time passes.
Tick ==
    /\ lastOpenTime' = Older(lastOpenTime)
    /\ stamp' = [g \in Procs |-> Older(stamp[g])]
    /\ openFor' = Older(openFor)
    /\ UNCHANGED <<state, failures, successes, pc, admission, probesPassed>>

\* The operations of a call that has begun.
Continue(g) ==
    \/ AllowLoadOpenTime(g)
    \/ AllowSince(g)
    \/ AllowCasHalfOpen(g)
    \/ AllowResetSuccesses(g)
    \/ SuccessAdd(g)
    \/ SuccessStoreClosed(g)
    \/ ResetFailures(g)
    \/ FailureCasFromClosed(g)
    \/ FailureCasFromHalfOpen(g)
    \/ ReadNow(g)
    \/ StoreOpenTime(g)

Request(g) == AllowLoad(g) \/ SuccessLoad(g) \/ FailureAdd(g)

Operate(g) == ForceOpen(g) \/ ForceClose(g)

Next ==
    \/ \E g \in Goroutines : Request(g)
    \/ \E g \in Operators : Operate(g)
    \/ \E g \in Procs : Continue(g)
    \/ Tick

Spec == Init /\ [][Next]_vars

\* The scheduler runs every goroutine whose call has begun and time passes;
\* goroutines keep sending requests and some requests succeed.
Fairness ==
    /\ WF_vars(Tick)
    /\ \A g \in Procs : WF_vars(Continue(g))
    /\ \A g \in Goroutines : SF_vars(AllowLoad(g)) /\ SF_vars(SuccessLoad(g))

FairSpec == Spec /\ Fairness

-----------------------------------------------------------------------------
(* Properties *)

Quiescent == \A g \in Procs : pc[g] = "idle"

\* Whatever the interleaving, no trip is lost: RecordFailure counts and swaps
\* in separate operations and RecordSuccess and ForceClose close and reset in
\* separate operations, yet once no call is in progress a Closed circuit has
\* fewer than MaxFailures failures on its counter.
NoMissedTrip ==
    Quiescent => ~(state = "Closed" /\ failures >= MaxFailures)

\* Why no trip is lost: while a Closed circuit shows MaxFailures failures,
\* some RecordFailure has its swap from Closed still to come, or some
\* RecordSuccess or ForceClose has its reset still to come.
TripPending ==
    state = "Closed" /\ failures >= MaxFailures =>
        \E g \in Procs : pc[g] \in {"casFromClosed", "resetFailures"}

\* Allow moves the circuit to HalfOpen only when it has been Open for
\* OpenTimeout ("how long to stay Open before probing").
StaysOpen == state = "Open" /\ state' = "HalfOpen" => openFor >= OpenTimeout

\* RecordSuccess closes the circuit only when HalfOpenProbes successes were
\* recorded since it became HalfOpen ("successes required in HalfOpen to
\* re-close").
EnoughProbes ==
    state = "HalfOpen" /\ state' = "Closed" /\ (\A g \in Operators : ~ForceClose(g))
        => probesPassed >= HalfOpenProbes

\* RecordSuccess closes a HalfOpen circuit and never an Open one; only
\* ForceClose does that.
ClosesFromHalfOpen ==
    state = "Open" /\ state' = "Closed" => \E g \in Operators : ForceClose(g)

\* The documented state machine: a step of Allow, RecordSuccess or
\* RecordFailure changes the state only by the three rules above.  It holds
\* when calls do not overlap.
DocumentedStep == StaysOpen /\ EnoughProbes /\ ClosesFromHalfOpen

DocumentedTransitions == [][DocumentedStep]_vars

\* A circuit that tripped keeps its failure count until it closes, so that one
\* failed probe is enough for RecordFailure to open it again.
ProbeFailureReopens == state = "HalfOpen" => failures >= MaxFailures

OperatorsRest == <>[][\A g \in Operators : ~Operate(g)]_vars

\* The circuit is never Open for good: as long as requests arrive, time passes
\* and no operator forces it, Allow lets it leave Open, whatever failures are
\* recorded.
LeavesOpen == OperatorsRest => []<>(state # "Open")

\* Recovery: when from some moment on no request fails and no operator
\* interferes, the circuit ends up Closed for good.
RecoversWhenHealthy ==
    OperatorsRest /\ <>[][\A g \in Goroutines : ~FailureAdd(g)]_vars
        => <>[](state = "Closed")
=============================================================================
