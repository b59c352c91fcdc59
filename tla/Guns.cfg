CONSTANTS
    GunCount = 2
    CardAutoWait = TRUE
    CardFeeFallback = FALSE
    StopMargin = 0
    Cards = {k1, k2}
    Whitelist = {k1}
    NoCard = NoCard
    MaxOrder = 1
    MaxReading = 0
    Inputs <- GunsInputs
    StartCmds <- MergeStart
    YxPackets <- PlugPackets
    EndReasons <- PlainEnd
    Voltages <- NoVoltage

SPECIFICATION Spec
INVARIANT AutoWaitSole
PROPERTY OrderOpensInPrepare
PROPERTY RecordNamesCard
INVARIANT MergedInLockstep
PROPERTY MergeStopsTogether
