SPECIFICATION FairSpec
CONSTANTS
    MaxRequests = 3
    Intents = {i1, i2}
    None = None
INVARIANTS
    ChainVerifies
    DispatchedExactlyOnce
    ManifestsCoverChain
PROPERTIES
    RequestsEnd
CHECK_DEADLOCK FALSE
