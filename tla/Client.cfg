SPECIFICATION MCSpec
CONSTANTS
    Clients = {c1, c2}
    Targets = {t1, t2}
    TargetLists <- MCLists
    t1 = t1
    t2 = t2
    Calls = {c1, c2}
    Hedged = {c1}
    hedger = c1
    retrier = c2
    Policies <- MCPolicies
    DurationLimit = 8
    HedgeFailures = 2
    HedgeProbes = 1
    Caller = g
    MaxFailures = 3
    OpenTimeout = 3
    HalfOpenProbes = 2
INVARIANTS
    CountsInFlight
    HedgeOutcome
PROPERTIES
    SlotsAreStable
    CallsReturn
    SerialTransitions
    HedgesEnd
CHECK_DEADLOCK FALSE
