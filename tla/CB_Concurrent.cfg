SPECIFICATION FairSpec
CONSTANTS
    Goroutines = {g1, g2}
    Operators = {op}
    MaxFailures = 2
    OpenTimeout = 1
    HalfOpenProbes = 1
INVARIANTS NoMissedTrip
PROPERTIES LeavesOpen RecoversWhenHealthy
