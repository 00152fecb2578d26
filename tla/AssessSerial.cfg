\* One session at a time: the row keeps the documented lifecycle.
CONSTANTS
    r1 = r1
    r2 = r2
    r3 = r3
    r4 = r4
    r5 = r5
    Requests = {r1, r2, r3, r4, r5}
    u1 = u1
    u2 = u2
    Users = {u1, u2}
    UserOf <- MCUserOf
    Scores <- MCScores
    MaxSessions = 1
    None = None
SPECIFICATION Spec
SYMMETRY Symmetry
PROPERTY LifecycleKept
CHECK_DEADLOCK FALSE
