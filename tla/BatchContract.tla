---------------------------- MODULE BatchContract ----------------------------
(***************************************************************************)
(* What the batch scheduler promises its callers, without channels, timer  *)
(* or goroutines: a call is executed at most once, in a batch of at most   *)
(* MaxBatchSize calls that share one outcome, and returns its own answer   *)
(* or the batch's error if it was executed, or its context's error.        *)
(***************************************************************************)
EXTENDS Naturals, FiniteSets

CONSTANTS Requests, MaxBatchSize

VARIABLES
    call,       \* where each call is
    exec,       \* how the batch of the call ended, "no" before
    result      \* what the call returned

contractVars == <<call, exec, result>>

NoResult  == [kind |-> "nothing"]
Error     == [kind |-> "failed"]
Cancelled == [kind |-> "ctxErr"]
AnswerTo(r) == [kind |-> "answer", to |-> r]

ContractInit ==
    /\ call = [r \in Requests |-> "idle"]
    /\ exec = [r \in Requests |-> "no"]
    /\ result = [r \in Requests |-> NoResult]

Call(r) ==
    /\ call[r] = "idle"
    /\ call' = [call EXCEPT ![r] = "called"]
    /\ UNCHANGED <<exec, result>>

\* A cancelled call may still be executed, but no call is executed twice.
Execute(S, outcome) ==
    /\ S # {}
    /\ Cardinality(S) <= MaxBatchSize
    /\ \A r \in S : call[r] # "idle" /\ exec[r] = "no"
    /\ exec' = [r \in Requests |-> IF r \in S THEN outcome ELSE exec[r]]
    /\ UNCHANGED <<call, result>>

Finish(r, value) ==
    /\ call[r] = "called"
    /\ call' = [call EXCEPT ![r] = "returned"]
    /\ result' = [result EXCEPT ![r] = value]
    /\ UNCHANGED exec

Deliver(r) ==
    \/ exec[r] = "ok" /\ Finish(r, AnswerTo(r))
    \/ exec[r] = "error" /\ Finish(r, Error)

Cancel(r) == Finish(r, Cancelled)

Renew(r) ==
    /\ call[r] = "returned"
    /\ call' = [call EXCEPT ![r] = "idle"]
    /\ exec' = [exec EXCEPT ![r] = "no"]
    /\ result' = [result EXCEPT ![r] = NoResult]

ContractNext ==
    \/ \E r \in Requests : Call(r) \/ Deliver(r) \/ Cancel(r) \/ Renew(r)
    \/ \E S \in SUBSET Requests, outcome \in {"ok", "error"} : Execute(S, outcome)

ContractSpec == ContractInit /\ [][ContractNext]_contractVars
=============================================================================
