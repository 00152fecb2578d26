\* Four requests that may overlap. All of them may be served, and then nothing is left to do.
CONSTANTS
    r1 = r1
    r2 = r2
    r3 = r3
    r4 = r4
    r5 = r5
    Requests = {r1, r2, r3, r4}
    u1 = u1
    u2 = u2
    Users = {u1, u2}
    UserOf <- MCUserOf
    Scores <- MCScores
    MaxSessions = 3
    None = None
SPECIFICATION FairSpec
INVARIANT TypeOK
INVARIANT OnlyCommittedWork
INVARIANT EventsFollowWrites
PROPERTY OvertakenAlone
PROPERTY RequestsEnd
CHECK_DEADLOCK FALSE
