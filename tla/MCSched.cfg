SPECIFICATION FairSpec
CONSTANTS
    N = 3
    Low = 15
INVARIANTS AgeBounded Exclusion
PROPERTIES EveryTaskRuns MutexReleased
