SPECIFICATION FairSpec
CONSTANTS
    p1 = p1
    N = 1
    Payloads = {p1}
    Origins = {"send_to", "report", "external"}
    Disturbances = {"pause", "gone"}
    MaxCrashes = 1
    MaxSaveFailures = 1
    MaxRetries = 1
    MaxFaults = 1
    ChunkAttempts = 2
    AttentionAfter = 2
    GoneAfter = 1
INVARIANTS
    TypeOK
    NoReplay
    DrainableIsUntyped
PROPERTIES
    SweepKeepsTerminal
    ConfirmedNotPending
    Settles
