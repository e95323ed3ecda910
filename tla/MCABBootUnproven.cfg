SPECIFICATION FairSpec
CONSTANTS
    Versions = {fac, good, sick, stall, panic}
    Healthy = {fac, good}
    Sick = {sick}
    Stalling = {stall}
    Factory = fac
    Torn = torn
    Board = "cm3"
    Tries = 2
    MaxFaults = 1
    MaxInstalls = 1
PROPERTY
    UnprovenFallsBack
CHECK_DEADLOCK FALSE
