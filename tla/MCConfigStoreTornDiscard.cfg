\* An rmtree of a discarded initial root stops half way.
SPECIFICATION Spec
CONSTANTS
    Jobs = {j1}
    Base = base
    None = None
    TornSteps <- TornDiscard
    MaxFaults = 1
INVARIANTS
    UncommittedInitialDiscarded
