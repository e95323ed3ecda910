SPECIFICATION Spec
CONSTANTS
    GuardHandlers = {h1, h2}
    WorkerHandlers = {h3}
    MaxOutstanding = 2
    PerClient = 1
    MaxFaults = 1
    CommandCap = 2
    MaxTimeout = 4
    MaxSettle = 3
    ServiceChanges = 1
    OpKeys = {"dns"}
    OpDepth = 3
    OpScalars = {"x", "y"}
    OpNames = {"n1", "n2"}
    OpTables = {"container", "volume"}
    OpChanges = 2
    PatchKeys = {"dns", "lan"}
    PatchDepth = 2
    PatchScalars = {"x"}
    PatchNames = {"n1"}
    PatchTables = {"container"}
    PatchChanges = 1
SYMMETRY HandlerSymmetry
INVARIANTS
    AppliedOnce
    AppliedByTrustedKey
    UpdatesSound
    PatchMerges
    ActivationSound
PROPERTY
    NoncesSound
CHECK_DEADLOCK FALSE
