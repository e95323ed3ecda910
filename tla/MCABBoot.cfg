SPECIFICATION Spec
CONSTANTS
    Versions = {fac, good, sick, stall, panic}
    Healthy = {fac, good}
    Sick = {sick}
    Stalling = {stall}
    Factory = fac
    Torn = torn
    Board = "rock64"
    Tries = 3
    MaxFaults = 7
    MaxInstalls = 3
INVARIANTS
    KnownGoodKept
    OutageBounded
CHECK_DEADLOCK FALSE
