SPECIFICATION FairSpec
CONSTANTS
    c1 = c1
    c2 = c2
    c3 = c3
    s1 = s1
    s2 = s2
    k1 = k1
    NoKey = NoKey
    NoCommand = NoCommand
    Command = {c1, c2, c3}
    Submitter = {s1}
    Submits <- SerialSubmits
    KeyOf <- MCKeyOf
    Effect <- MCEffect
    Target <- MCTarget
    BacklogLimit = 2
    MaxCrashes = 1
    MaxFaults = 1
INVARIANT OneOutstanding
PROPERTY Converges
