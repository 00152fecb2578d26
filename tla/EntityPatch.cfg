\* Two stored entities, both inactive, and two requests, one after the other.
CONSTANTS
    e1 = e1
    n1 = n1
    n2 = n2
    Requests = {r1, r2}
    Seeds = {e1, e2}
    Names = {n1, n2}
    SeedName <- MCSeedName
    ActiveSeeds = {}
    MaxSessions = 1
    None = None
SPECIFICATION Spec
CHECK_DEADLOCK FALSE
PROPERTY PatchMovesOnly
