SPECIFICATION FairSpec
CONSTANTS
    l1 = l1
    c1 = c1
    s1 = s1
    Scanners = {l1}
    Mutators = {c1}
    Sweeps = {s1}
    MaxSteps = 1
INVARIANTS
    TypeOK
    ScansAreCurrent
    DiagnosticsTruthful
PROPERTIES
    ImplementsQueue
    WaitersResolved
