SPECIFICATION FairSpec
CONSTANTS
    Record = {r1, r2}
    Endpoint = {e1}
    NoTarget = NoTarget
    QueueCapacity = 1
    BatchMax = 2
    Width = {1, 2}
    MaxReloads = 2
    StderrMayFail = FALSE
INVARIANTS
    Conservation
    PermitAccounting
    InflightGauge
    ClientNotOlderThanTarget
    ShutdownShipsEverything
PROPERTIES
    ImplementsSink
    EveryRecordBooked
    WidthConverges
