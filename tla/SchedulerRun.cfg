\* Two tasks, two names, two starts. When all is run and stopped, nothing is left to do.
CONSTANTS
    n1 = n1
    n2 = n2
    MaxTasks = 2
    MaxLoops = 2
    MaxRuns = 2
    Names = {n1, n2}
    Retries = 1
    MaxPolls = 2
    None = None
SPECIFICATION FairSpec
INVARIANT TypeOK
INVARIANT Accounted
PROPERTY NoRunAfterStop
PROPERTY DrainsListed
PROPERTY RetiredForGood
PROPERTY ShutdownEnds
PROPERTY LoopsEnd
PROPERTY EveryTaskRuns
CHECK_DEADLOCK FALSE
