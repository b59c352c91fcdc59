CONSTANTS
    GunCount = 1
    CardAutoWait = FALSE
    CardFeeFallback = FALSE
    StopMargin = 0
    Cards = {k1, k2}
    Whitelist = {k1}
    NoCard = NoCard
    MaxOrder = 2
    MaxReading = 0
    Inputs <- AuthInputs
    StartCmds <- PlainStart
    YxPackets <- FaultPackets
    EndReasons <- AnyEnd
    Voltages <- NoVoltage

SPECIFICATION Spec
INVARIANT NoServiceOnDeadLink
INVARIANT RetryRepeatsOrder
PROPERTY SettlementUninterrupted
PROPERTY ReasonKept
PROPERTY StopCompleteRemembered
