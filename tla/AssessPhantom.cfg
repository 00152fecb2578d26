\* An event published by a request that then rolls back.
CONSTANTS
    r1 = r1
    r2 = r2
    r3 = r3
    r4 = r4
    r5 = r5
    Requests = {r1, r2, r3, r4}
    u1 = u1
    u2 = u2
    Users = {u1, u2}
    UserOf <- MCUserOf
    Scores <- MCScores
    MaxSessions = 2
    None = None
SPECIFICATION Spec
INVARIANT NoPhantomEvent
CHECK_DEADLOCK FALSE
