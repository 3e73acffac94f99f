SPECIFICATION OutboxFairSpec
CONSTANTS
    Messages = {m1, m2, m3}
    Dispatchers = {d1, d2}
    BatchSize = 2
    MaxFailures = 2
INVARIANTS
    DuplicatesOnlyAfterFailure
CHECK_DEADLOCK FALSE
