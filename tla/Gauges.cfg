SPECIFICATION RecordingSpec
CONSTANTS
    Request = {r1, r2}
    Buckets = 2
    Upgraded = {r1}
INVARIANTS
    GaugesExact
    HighWaterExact
PROPERTIES
    ScrapeErrorBounded
    BookedWithinTurns
