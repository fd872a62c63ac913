SPECIFICATION FairSpec
CONSTANTS
    Requests = {r1, r2, r3}
    MaxBatchSize = 2
    QueueFactor = 1
INVARIANTS OwnAnswer NoLostCall SendsNeverBlock CallTracking
PROPERTIES ImplementsContract EveryCallReturns
