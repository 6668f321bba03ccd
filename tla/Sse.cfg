SPECIFICATION SseSpec
CONSTANTS
    Stream <- MCStream
INVARIANTS
    DrainEqualsWhole
    TailIsOneFrame
    ToolsAssembled
    UsageComplete
    RestEqualsStream
CHECK_DEADLOCK FALSE
