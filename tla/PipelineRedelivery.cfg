SPECIFICATION FairSpec
CONSTANTS
    s1 = s1
    Sessions = {s1}
    Messages = {m1}
    SessionOf <- MCSessionOf
    Workers = {w1, w2}
    NoWorker = NoWorker
    Dispatchers = {d1}
    LeaseTtl = 2
    BatchSize = 2
    MaxInFlight = 2
    MaxAttempts = 2
    MaxOffset = 6
    MaxFaults = 3
    FaultKinds = {"dispatch", "gateway_restart", "crash", "dlq", "offset", "pool", "model", "database"}
INVARIANTS
    NothingLost
PROPERTIES
    AcceptedEventuallySettled
CHECK_DEADLOCK FALSE
