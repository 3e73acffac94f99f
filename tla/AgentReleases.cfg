SPECIFICATION Spec
CONSTANTS
    a1 = a1
    a2 = a2
    Admins = {a1, a2}
    Contents = {"first", "second", "blank"}
    Blank = {"blank"}
    MaxReleases = 1
    MaxVersion = 3
    MaxLives = 2
    MaxEdits = 2
    Nobody = Nobody
    None = None
    Published <- PublishedReleases
    SuiteBodies <- SuiteSet
    Evidences <- EvidenceSet
    MaxDeployments = 3
    MaxRuns = 2
    MaxBundles = 3
SYMMETRY AdminSymmetry
INVARIANTS
    
    NothingActiveBetween
    StaysGoverned
PROPERTIES
    EvidenceStands
CHECK_DEADLOCK FALSE
