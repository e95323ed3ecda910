SPECIFICATION DeviceSpec
CONSTANTS
    Configs = {plain, demanding, broken}
    Broken = {broken}
    Required = {demanding}
    Reapply = FALSE
    MaxJobs = 3
    MaxFaults = 2
    Versions = {fac, good, sick, stall, panic}
    Healthy = {fac, good}
    Sick = {sick}
    Stalling = {stall}
    Factory = fac
    Torn = torn
    Tries = 3
    BootFaults = 7
    MaxInstalls = 3
INVARIANTS
    TypeOK
    ImportedSeedKept
    SlotsSurvive
PROPERTIES
    FallbackJustified
    ReturnsToService
    ScriptEnds
CHECK_DEADLOCK FALSE
