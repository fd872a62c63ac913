SPECIFICATION FairSpec
CONSTANTS
    GrpcConns = {g1}
    RestConns = {}
    ThriftConns = {t1}
    Callers = {s1, s2}
    QueueSize = 1
    Processors = 2
CHECK_DEADLOCK FALSE
INVARIANTS ShutdownDrains
PROPERTIES ShutdownEndsWithCtx ShutdownCompletes
