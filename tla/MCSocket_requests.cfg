SPECIFICATION FairSpec
CONSTANTS
    a = a
    b = b
    c = c
    Lines = {a, b}
    Calls = {c}
    Sockets = {1, 2, 3}
    MaxInFlight = 2
    Events = {"disconnect", "status", "malformed", "denial"}
INVARIANTS
    Consistent
    UnsentPhasesAreHonest
PROPERTIES
    MixupsExplained
    StalePollsUnsent
    RequestsSettle
