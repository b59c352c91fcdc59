CONSTANTS
    MaxTime = 2
    MaxSeq = 2
    MaxFile = 1
    MaxFaults = 2
    PendingLimit = 1

SPECIFICATION FairSpec
INVARIANT NothingSkipped
PROPERTY EveryRowArrives
