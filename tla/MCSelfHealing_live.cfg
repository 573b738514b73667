SPECIFICATION FairSpec
CONSTANTS
    m1 = m1
    r1 = r1
    Calls = {m1, r1}
    Mutations = {m1}
    Clients = {1, 2}
    MaxAttempts = 2
    Events = {"denial", "stop"}
INVARIANTS
    TypeOK
    DuplicatesExplained
    FailuresAreCurrent
PROPERTIES
    CallsSettle
    Recovers
CHECK_DEADLOCK FALSE
