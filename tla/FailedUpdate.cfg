CONSTANTS
    FileCount = 2
    VersionLimit = 1
    JobLimit = 3
    ProcessCount = 1
    RestartLimit = 1
    FaultLimit = 0

SPECIFICATION Spec
PROPERTY DoneIsInstalled
