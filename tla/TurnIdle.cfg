SPECIFICATION Spec
CONSTANTS
    ChunkLen = {1, 2}
    MaxBytes = 5
    CapMax = {1, 3}
    Continuation <- MCContinuation
    MaxReloads = 0
INVARIANTS
    TruncatedNeverClean
