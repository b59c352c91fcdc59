CONSTANTS
    r1 = r1
    r2 = r2
    r3 = r3
    g1 = g1
    NoRecord = NoRecord
    Records = {r1, r2, r3}
    Guns = {g1}
    GunOf <- OneGun
    Local = {r1}
    Refused = {r2}
    HeartbeatLimit = 2
    MaxAsks = 1
    MaxFaults = 1
    QueueLimit = 3
    BufferLimit = 1
    QueryLimit = 2
    MaxRetry = 1

SPECIFICATION StartsSpec
INVARIANT TypeOK
INVARIANT NoStaleOffline
INVARIANT OnlineMeansReplayed
PROPERTY KeptIsSettled
PROPERTY SettledIsLeftAlone
PROPERTY ImplementsLedger
PROPERTY ReturnsOnline
