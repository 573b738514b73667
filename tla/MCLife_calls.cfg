SPECIFICATION Spec
CONSTANTS
    c1 = c1
    c2 = c2
    s1 = s1
    N = 3
    Stoppers = {s1}
    Resumers = {c1, c2}
    Made = {{c1, c2}, {c1, s1}}
    MaxFaults = 1
INVARIANTS
    TypeOK
    CreatingAttended
    OneProcessPerSession
PROPERTIES
    SessionRowsKept
    LivePanesKept
