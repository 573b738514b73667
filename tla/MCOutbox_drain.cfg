SPECIFICATION FairSpec
CONSTANTS
    p1 = p1
    a = a
    b = b
    Procs = {p1}
    Bodies = {a, b}
    MaxAppends = 2
    MaxTrims = 1
    MaxCrashes = 2
    MaxLost = 2
INVARIANTS
    Accounted
PROPERTIES
    LegacyBacklogNeverSent
    EventuallySent
