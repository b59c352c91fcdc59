CONSTANTS
    GunCount = 1
    CardAutoWait = FALSE
    CardFeeFallback = FALSE
    StopMargin = 0
    Cards = {k1}
    Whitelist = {k1}
    NoCard = NoCard
    MaxOrder = 1
    MaxReading = 1
    Inputs <- LocalInputs
    StartCmds <- DuePaid
    YxPackets <- PlugPackets
    EndReasons <- AnyEnd
    Voltages <- NoVoltage

SPECIFICATION FairSpec
PROPERTY StoppingIsBooked
PROPERTY PrepaidStops
PROPERTY StartingEnds
PROPERTY PlatformSparesCard
