SPECIFICATION FairSpec
CONSTANTS
    Readings = 2
    Stream <- OneStream
    NullReading = {}
    Poison = {1}
    Transports = {"http", "mqtt", "mock"}
    PollSize = 2
    ReplayLimit = 1
    BackoffCap = 2
    PermanentBackoff = 5
    MaxAttempts = 1
    CycleSeconds = 2
    MaxFailures = 1
    MaxFaults = 1
    MaxCrashes = 1
PROPERTIES Accounted Drains
