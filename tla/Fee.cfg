CONSTANTS
    GunCount = 1
    CardAutoWait = FALSE
    CardFeeFallback = FALSE
    StopMargin = 0
    Cards = {k1, k2}
    Whitelist = {k1}
    NoCard = NoCard
    MaxOrder = 2
    MaxReading = 2
    Inputs <- FeeInputs
    StartCmds <- PaidStart
    YxPackets <- QuietPackets
    EndReasons <- AnyEnd
    Voltages <- AnyVoltage

SPECIFICATION Spec
INVARIANT TypeOK
INVARIANT EnergyIsBooked
INVARIANT IdleIsClean
INVARIANT BookedOnce
PROPERTY EnergyNeverDropped
