SPECIFICATION FairSpec
CONSTANTS
    c1 = c1
    c2 = c2
    c3 = c3
    agent = agent
    tenant = tenant
    execution = execution
    a1 = a1
    app1 = app1
    app2 = app2
    main = main
    spare = spare
    Calls <- ThreeCalls
    Budgets <- ThreeBudgets
    Order <- AgentFirst
    Scope <- Scopes
    Adjustments <- OneAdjustment
    Target <- AdjustTenant
    Settings <- Scenes
    MaxTries = 1
    MaxDays = 2
    Profiles <- TwoProfiles
    Threshold = 2
    ResetTime = 2
    Window = 2
INVARIANTS
    LedgerBalances
    SpendBounded
    ChargedAsServed
PROPERTIES
    NoOverdraw
    EveryCallEnds
    
CHECK_DEADLOCK FALSE
