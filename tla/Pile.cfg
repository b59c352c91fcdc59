CONSTANTS
    Tests <- StartAndPower
    FrameCount = 2
    Resends = 2
    CompletionLimit = 2
    FaultLimit = 2
SPECIFICATION TurnsSpec
INVARIANT TypeOK
INVARIANT AckedIsPublished
PROPERTY CompletionGetsThrough
PROPERTY CommandReaches
PROPERTY ResendsAreMade
PROPERTY StartAfterHandshake
