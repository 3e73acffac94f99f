SPECIFICATION IngressFairSpec
CONSTANTS
    Gateways = {g1, g2}
    NoGateway = NoGateway
    ConnectionTtl = 1
    MaxToken = 2
    MaxCrashes = 1
    Payloads = {p1, p2}
    Releases = {v1, v2}
    Nothing = Nothing
    MaxChanges = 2
INVARIANTS
    
    ExecutionIsLedgerPayload
    AcknowledgedIsExecuted
CHECK_DEADLOCK FALSE
