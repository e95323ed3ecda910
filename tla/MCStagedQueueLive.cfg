SPECIFICATION Spec
CONSTANTS
    Jobs = {f1, p1}
    Partial = {p1}
    Local = {f1}
    MaxPending = 2
    MaxFaults = 2
PROPERTIES
    PublishedJobSettles
    WaiterAnswered
CHECK_DEADLOCK FALSE
