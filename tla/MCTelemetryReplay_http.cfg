SPECIFICATION Spec
CONSTANTS
    Readings = 3
    Stream <- TwoStreams
    NullReading = {2}
    Poison = {}
    Transports = {"http"}
    PollSize = 2
    ReplayLimit = 2
    BackoffCap = 4
    PermanentBackoff = 5
    MaxAttempts = 2
    CycleSeconds = 2
    MaxFailures = 2
    MaxFaults = 1
    MaxCrashes = 1
INVARIANTS
    TypeOK
    NoLoss
    EarlyRetriesBounded
PROPERTIES ImplementsPipe OrderedUntilFailure
