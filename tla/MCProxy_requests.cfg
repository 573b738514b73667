SPECIFICATION FairSpec
CONSTANTS
    r1 = r1
    Requests = {r1}
    MaxBuffered = 1
    MaxConns = 2
    MaxBumps = 1
    MaxReexecs = 1
INVARIANTS
    Consistent
    AnsweredOnce
PROPERTIES
    HandshakeFirst
    ExecLosesNothing
    RequestsAnswered
CHECK_DEADLOCK FALSE
