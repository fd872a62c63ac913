------------------------------ MODULE MCClient ------------------------------
(***************************************************************************)
(* Model-checking instances of the Go client: the least-connections        *)
(* balancer (LeastConnBalancer) and what retry.go puts around a call       *)
(* (Retries).  A behaviour is one of the balancer or one of Retries.       *)
(***************************************************************************)
EXTENDS LeastConnBalancer, Retries, TLC

CONSTANTS t1, t2, hedger, retrier

\* One address alone, and both in either order.
MCLists == {<<t1>>, <<t1, t2>>, <<t2, t1>>}

\* Policies of the hedged call and of the other: steady ones, one that shrinks
\* the backoff to 0, one without an attempt, and one whose product overflows.
MCPolicy(attempts, initial, num, den) ==
    [attempts |-> attempts, initial |-> initial, max |-> 3, num |-> num, den |-> den]

MCPolicies ==
    {[c \in Calls |-> MCPolicy(3, 1, 2, 1)],
     (hedger :> MCPolicy(3, 1, 1, 2) @@ retrier :> MCPolicy(0, 1, 2, 1)),
     (hedger :> MCPolicy(0, 1, 2, 1) @@ retrier :> MCPolicy(3, 7, 3, 2))}

allVars == <<vars, retriesVars>>

MCInit ==
    /\ Init
    /\ RetriesInit \/ (which = "balancer" /\ HedgeOff /\ BreakerOff)

BalancerStep == which = "balancer" /\ Next /\ UNCHANGED retriesVars

MCNext ==
    \/ BalancerStep
    \/ RetriesNext /\ UNCHANGED vars

\* The balancer's Fairness.
BalancerFairness ==
    \A c \in Clients :
        /\ SF_vars(which = "balancer" /\ Lock(c))
        /\ WF_vars(which = "balancer" /\ (AddTarget(c) \/ Publish(c)))
        /\ WF_vars(which = "balancer" /\ Selecting(c))
        /\ WF_vars(which = "balancer" /\ Decrement(c))

MCSpec == MCInit /\ [][MCNext]_allVars /\ BalancerFairness /\ RetriesFairness
=============================================================================
