SPECIFICATION Spec
CONSTANTS
    p1 = p1
    N = 1
    Payloads = {p1}
    Origins = {"send_to"}
    Disturbances = {"pause", "gone"}
    MaxCrashes = 0
    MaxSaveFailures = 0
    MaxRetries = 1
    MaxFaults = 2
    ChunkAttempts = 3
    AttentionAfter = 1
    GoneAfter = 1
INVARIANTS
    RetriesNeverRetype
