SPECIFICATION Spec
CONSTANTS
    GrpcConns = {g1}
    RestConns = {}
    ThriftConns = {}
    Callers = {s1}
    QueueSize = 1
    Processors = 1
CHECK_DEADLOCK FALSE
INVARIANT GrpcDrained
