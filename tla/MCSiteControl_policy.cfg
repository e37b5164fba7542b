SPECIFICATION Spec
CONSTANTS
    Stream = {"pv_generation_kw", "battery_soc"}
    Critical = {"pv_generation_kw", "battery_soc"}
    Aliases <- MCAliases
    Interval = 1
    Old = 3
    Skew = 1
    Engines = {"request", "kept"}
    Duration = 3
    Gap = 5
    Cap = 8
    HardReserve = 15
    SocTarget = 85
    SocMax = 95
    Limit = 30
    TempMax = 45
    DerateStart = 40
    Input <- MCInput
INVARIANTS TypeOK FreshMoves ReserveKept PowerCapped
PROPERTY ReversalSpaced

