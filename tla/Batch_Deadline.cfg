SPECIFICATION FairSpec
CONSTANTS
    Requests = {r1, r2, r3}
    MaxBatchSize = 1
    QueueFactor = 1
PROPERTIES DeadlineEndsCall
