SPECIFICATION FairSpec
CONSTANTS
    w1 = w1
    w2 = w2
    Scopes = {"direct", "group"}
    Owners = {u1, Nothing}
    Bounds <- BoundChoices
    Nothing = Nothing
    Sessions = {s1}
    MaxVersion = 3
    Replicas = {w1, w2}
    Subjects = {u1, u2}
    Room = 2
    MaxAttempts = 2
    Commands = 3
    MaxRuns = 2
INVARIANTS
    NoLostUpdate
    MemoryStaysPrivate
PROPERTIES
    ProjectionsStand
    RecordSettles
CHECK_DEADLOCK FALSE
