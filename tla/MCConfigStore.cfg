SPECIFICATION Spec
CONSTANTS
    Jobs = {j1, j2}
    Base = base
    None = None
    TornSteps <- TornRepeatable
    MaxFaults = 3
INVARIANTS
    TypeOK
    StoreIsCommitted
    CleanWhenIdle
    ResultsTruthful
    DiscardKeepsRecord
PROPERTIES
    ResultAfterActivation
    EveryClaimAnswered
    RefinesAtomicApply
