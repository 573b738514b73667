SPECIFICATION Spec
CONSTANTS
    c1 = c1
    s1 = s1
    Scanners = {}
    Mutators = {c1}
    Sweeps = {s1}
    MaxSteps = 2
INVARIANTS
    MutationsSerialized
