SPECIFICATION Spec
CONSTANTS
    Goroutines = {g1, g2}
    Operators = {}
    MaxFailures = 1
    OpenTimeout = 2
    HalfOpenProbes = 2
PROPERTIES DocumentedTransitions
