SPECIFICATION Spec
CONSTANTS
    s1 = s1
    Sessions = {s1}
    Messages = {m1, m2}
    SessionOf <- MCSessionOf
    Workers = {w1, w2}
    NoWorker = NoWorker
    Dispatchers = {d1}
    LeaseTtl = 2
    BatchSize = 2
    MaxInFlight = 2
    MaxAttempts = 2
    MaxOffset = 6
    MaxFaults = 1
    FaultKinds = {"dispatch", "gateway_restart", "rebalance", "crash", "dlq", "offset", "pool", "model", "database"}
SYMMETRY Symmetry
INVARIANTS
    FenceInv
    HistoryInv
PROPERTIES
    ImplementsSessionLog
CHECK_DEADLOCK FALSE
