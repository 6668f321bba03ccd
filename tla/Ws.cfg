SPECIFICATION Spec
CONSTANTS
    Turns = 2
    MaxEvents = 1
    PayloadLen <- MCPayloadLen
    Short = 1
    Medium = 2
    Cap = {0, 1}
INVARIANTS
    TurnsPaired
    BufferBounded
CHECK_DEADLOCK FALSE
