CONSTANTS
    FileCount = 1
    VersionLimit = 1
    JobLimit = 3
    ProcessCount = 2
    RestartLimit = 1
    FaultLimit = 2

SPECIFICATION FairSpec
INVARIANT TypeOK
INVARIANT InstallIsRecorded
PROPERTY RollbackRestores
PROPERTY ComesBack
PROPERTY UpdateEnds
PROPERTY JudgementEnds
