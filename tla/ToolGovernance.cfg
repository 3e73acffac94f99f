SPECIFICATION Spec
CONSTANTS
    Sessions = {s1}
    Messages = {}
    SessionOf <- MCSessionOf
    Workers <- MCWorkers
    NoWorker = NoWorker
    LeaseTtl = 1
    Calls = {c1, c2}
    Resumers = {r1, r2}
    Admins = {rita, ann}
    Developers = {}
    Auditors = {}
    Requester = rita
    Operators = {o1, o2}
    DirectKeyed = {TRUE}
    Releases = {v1, v2}
    Effects = {"READ_ONLY", "IDEMPOTENT_WRITE", "NON_IDEMPOTENT_WRITE", "HIGH_RISK"}
    ApprovalTtl = 2
    MaxAttempts = 2
    MaxActive = 4
    MaxApprovals = 1
    MaxFailures = 1
SYMMETRY Symmetry
INVARIANTS
    ApprovalSpentOnce
    SendsArePaidFor
    
CHECK_DEADLOCK FALSE
