SPECIFICATION Spec
CONSTANTS
    m1 = m1
    m2 = m2
    Calls = {m1, m2}
    Mutations = {m1, m2}
    Clients = {1, 2, 3}
    MaxAttempts = 2
    Events = {"denial", "stop"}
INVARIANTS
    MutationsOnce
CHECK_DEADLOCK FALSE
