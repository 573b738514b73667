SPECIFICATION FairSpec
CONSTANTS
    d1 = d1
    d2 = d2
    Daemons = {d1, d2}
    Inodes = {1, 2, 3, 4, 5, 6, 7, 8, 9, 10, 11, 12, 13}
    MaxStops = 3
    MaxFiles = 1
INVARIANTS
    PathKept
    RetirementsExit
PROPERTIES
    Recovers
CHECK_DEADLOCK FALSE
