SPECIFICATION FairSpec
CONSTANTS
    Profiles = {a, b}
    Primary = a
    Migrations = {m1, m2}
    Keys = {k1}
    Admins = {ann, bob}
    Requesters = {ann}
    Nothing = Nothing
    MaxWrites = 2
    MaxFailures = 1
INVARIANTS
    DifferencesAfterCheckpoint
    
PROPERTIES
    ForwardPhasesEnd
CHECK_DEADLOCK FALSE
