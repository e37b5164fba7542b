SPECIFICATION Spec
CONSTANTS
    c1 = c1
    c2 = c2
    r1 = r1
    r2 = r2
    d1 = d1
    k1 = k1
    NoKey = NoKey
    NoCommand = NoCommand
    Command = {c1, c2}
    Caller = {r1, r2}
    Device = {d1}
    Key = {k1}
    NoCaller = NoCaller
    Windows = {0, 1}
    MaxAge = 2
    MaxRetries = 3
    MaxFaults = 1
    MaxCrashes = 1
INVARIANTS TypeOK OnePerCaller NoOrphan
PROPERTIES AckSticks ImplementsLedger
SYMMETRY Ids
CHECK_DEADLOCK FALSE
