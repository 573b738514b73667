SPECIFICATION InboxFairSpec
CONSTANTS
    m1 = m1
    rec = rec
    p1 = p1
    p2 = p2
    r1 = r1
    r2 = r2
    None = None
    Plain = {m1}
    Once = {p1, p2}
    Recovery = rec
    Readers = {r1, r2}
    MaxDeaths = 1
INVARIANTS
    NothingSkipped
PROPERTIES
    CursorNeverBack
    EventuallyHandled
