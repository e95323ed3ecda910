\* A worker or finalizer is killed while it restores the rollback root.
SPECIFICATION Spec
CONSTANTS
    Jobs = {j1}
    Base = base
    None = None
    TornSteps <- NoTorn
    MaxFaults = 1
INVARIANTS
    RollbackMergesRecords
