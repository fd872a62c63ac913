SPECIFICATION Spec
CONSTANTS
    Goroutines = {g1}
    Keys = {k1}
    Burst = 1
    RateNum = 1
    RateDen = 2
    OneToken = 1
    IntHalf = 64
    MaxTime = 4
PROPERTY SustainedRate
