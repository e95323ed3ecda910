SPECIFICATION Spec
CONSTANTS
    ExportIds = {a, b}
    MaxExports = 1
    MaxVersion = 2
    ExportFaults = 1
    JobIds = {f1, p1, l1}
    Exclusive = {p1}
    Local = {l1}
    MaxPending = 2
    MaxRetained = 1
    MaxReservations = 2
    MaxObjects = 2
    JobFaults = 1
INVARIANTS
    ExportsSound
    AcceptedFindable
PROPERTIES
    SlotReleasedOnce
    JobStepsSound
    ExportsServed
    PendingSettles
CHECK_DEADLOCK FALSE
