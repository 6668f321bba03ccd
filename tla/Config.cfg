SPECIFICATION ServingSpec
CHECK_DEADLOCK FALSE
CONSTANTS
    HotKey <- MCHotKey
    StructuralKey <- MCStructuralKey
    ApplyOrder <- MCApplyOrder
    Config <- MCConfig
    Unreadable = Unreadable
    Request = {r1, r2}
    NoSnapshot = NoSnapshot
    StderrMayFail = TRUE
    MaxWrites = 2
    MaxHangups = 2
    MaxRestarts = 1
    UpstreamKey = "upstream"
    Resolves <- MCResolves
    Plain = Plain
    None = None
INVARIANTS
    RestartRequiredExact
    ComponentsFollow
    RelayPinned
PROPERTIES
    HangupServed
