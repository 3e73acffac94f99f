SPECIFICATION FairSpec
CONSTANTS
    r1 = r1
    r2 = r2
    Runners <- TwoRunners
    Scenes <- MCScenes
    Updates = 2
    MaxAttempts = 2
    Outcomes = {"delivered", "rate_limited", "failed", "timeout", "raised"}
INVARIANTS
    AttemptsCounted
PROPERTIES
    NotBlindlyResent
    
CHECK_DEADLOCK FALSE
