\* Three requests, two at a time, on one stored entity and those they create.
\* All of them may be served, and then nothing is left to do.
CONSTANTS
    e1 = e1
    n1 = n1
    n2 = n2
    Requests = {r1, r2, r3}
    Seeds = {e1}
    Names = {n1, n2}
    SeedName <- MCSeedName
    ActiveSeeds = {e1}
    MaxSessions = 2
    None = None
SPECIFICATION FairSpec
INVARIANT TypeOK
INVARIANT NamesUnique
INVARIANT HierarchyAcyclic
INVARIANT OnlyRenamesDeadlock
INVARIANT OnlyRenamesRefused
PROPERTY DirectoryKept
PROPERTY RequestsEnd
CHECK_DEADLOCK FALSE
