SPECIFICATION Spec
CONSTANTS
    Base = 16
    Required = {"battery_soc"}
    Known = {"battery_soc", "pv_generation_kw"}
    Base0 <- MCBase0
    Artifacts <- MCArtifacts
    Commands <- MCCommands
    Powers <- MCPowers
    Mappings <- MCMappings
    Max = 2
    Window = 2
    Reboots = 1
INVARIANTS TypeOK AckedHolds WriteRate ValidatedProfileRuns DecodesLayout
