SPECIFICATION FairSpec
CONSTANTS
    Point = {"pv_generation_kw", "battery_soc"}
    Group = {"fast", "medium", "verify"}
    GroupOf <- MCGroupOf
    Period <- MCPeriod
    Interval = 1
    CommandEvery = 1
    StatusEvery = 2
    Slack = 1
    Faults = 1
    Crashes = 1
    Continue = TRUE
INVARIANTS TypeOK CleanFileMeansCleanReads FileIsRecent
CHECK_DEADLOCK FALSE
PROPERTIES DeadPointIsReported HealthReturns
