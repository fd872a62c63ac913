SPECIFICATION MCSpec
CONSTANTS
    t1 = t1
    t2 = t2
    c1 = c1
    c2 = c2
    k1 = k1
    k2 = k2
    Clients = {t1, t2, c1}
    MaxIdle = 1
    MaxDials = 3
    ShmConns = {1, 2}
    ShmSize = 2
    Lengths = {0, 1, 2, 3}
    Buffers = {2}
    MaxMessages = 2
    StreamKeys = {k1, k2}
    StreamCap = 1
    ReadCap = 1
    MaxDatagrams = 3
INVARIANTS
    OneOwner
    PingPongIntact
    StreamInOrder
    WireFaithful
    HookShowsLatest
    SchemasFaithful
    UpgradesCompatible
PROPERTIES
    KeyAffinity
    ListenerStops
    LoopsCatchUp
CHECK_DEADLOCK FALSE
