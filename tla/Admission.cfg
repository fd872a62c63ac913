SPECIFICATION MCSpec
CONSTANTS
    Goroutines = {g1, g2}
    HedgeBurst = 2
    HedgeRateNum = 3
    HedgeRateDen = 2
    OneToken = 2
    MaxTime = 3
    Reqs <- MCReqs
    Requests <- MCRequests
    Methods <- MCMethods
    Routes <- MCRoutes
    Deployments <- MCDeployments
    MinLimit = 1
    MaxLimit = 2
    Alpha = 1
    Beta = 1
    MaxSends = 1
    Keys = {k}
    ClientBurst = 2
    ClientRateNum = 1
    ClientRateDen = 1
    IntHalf = 64
    Skew <- MCSkew
    RedisBurst = 4
    RedisRate = 1
    RedisTime = 5
    r1 = r1
    r2 = r2
INVARIANTS
    HedgeTokensConserved
    HedgeRefillsBounded
    ClientBucket
    SharedRate
    ClientLearnsOutcome
    HandlerInsideChain
    SlotAccounting
    OneLimiterPerTenant
PROPERTIES
    HedgeRefillTimeAdvances
    HedgeLockFree
    ClientSustainedRate
    RequestsEnd
CHECK_DEADLOCK FALSE
