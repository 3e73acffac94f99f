SPECIFICATION FairSpec
CONSTANTS
    Admins = {ann, bob, cam}
    Initiators = {ann}
    Holds = {h1}
    Changes = {c1}
    Days = {1, 2}
    DefaultDays = 2
    Nobody = Nobody
    Workers = {w1, w2}
    Requests = {r1}
    Backends <- BackendOrder
    MaxWrites = 2
    MaxAge = 2
    MaxFailures = 1
    Artifact = {a1}
    Subjects = {u1, u2}
    MaxAborts = 1
    Deployments <- DeploymentChoices
INVARIANTS
    CompletedMeansErased
    ServedToOwnerAndAudited
PROPERTIES
    HoldKeepsContent
    RequestCompletes
CHECK_DEADLOCK FALSE
