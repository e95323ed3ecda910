SPECIFICATION Spec
CONSTANTS
    Jobs = {f1, f2, p1}
    Partial = {p1}
    Local = {f1, f2}
    MaxPending = 2
    MaxFaults = 1
SYMMETRY FullJobs
INVARIANTS
    CapacityBound
    AbandonedNeverApplied
PROPERTIES
    ClaimedInOrder
    PartialOnCurrent
    RefinesJobLine
CHECK_DEADLOCK FALSE
