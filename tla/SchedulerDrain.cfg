\* A cancelled task is not drained.
CONSTANTS
    n1 = n1
    n2 = n2
    MaxTasks = 2
    MaxLoops = 2
    MaxRuns = 2
    Names = {n1, n2}
    Retries = 1
    MaxPolls = 2
    None = None
SPECIFICATION FairSpec
PROPERTY DrainsActive
CHECK_DEADLOCK FALSE
