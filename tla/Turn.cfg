SPECIFICATION FairSpec
CONSTANTS
    ChunkLen = {1, 2}
    MaxBytes = 5
    CapMax = {1, 3}
    Continuation <- MCContinuation
    MaxReloads = 2
INVARIANTS
    BytesAccounted
    StreamParsedWhole
    DisconnectClassified
    FailedRelayRecorded
    TruncationTold
PROPERTIES
    DrainEnds
