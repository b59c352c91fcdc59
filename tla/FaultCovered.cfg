CONSTANTS
    GunCount = 1
    CardAutoWait = FALSE
    CardFeeFallback = FALSE
    StopMargin = 0
    Cards = {k1, k2}
    Whitelist = {k1}
    NoCard = NoCard
    MaxOrder = 1
    MaxReading = 0
    Inputs <- AuthInputs
    StartCmds <- PlainStart
    YxPackets <- FaultPackets
    EndReasons <- NormalEnd
    Voltages <- NoVoltage

SPECIFICATION Spec
PROPERTY FaultKept
