SPECIFICATION Spec
CONSTANTS
    Size = {0, 1, 3}
    RecordCap = {1, 3}
    ByteCap = {2, 4}
    MaxPushes = 5
    MaxReloads = 2
    Limit = {0, 1, 2}
    MaxPulls = 1
INVARIANTS
    StoreExact
PROPERTIES
    PushKeepsLongestFit
    PullMissesNothing
