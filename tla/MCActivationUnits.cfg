SPECIFICATION Spec
CONSTANTS
    Users = {u1, u2}
    ImageUsers = {nobody}
    Protected = {appsvc}
    Bits = 3
    MinPrefix = 1
    MaxPrefix = 2
    EthKeys = {"eth0", "eth1"}
    PhysicalKeys = {"eth0"}
    MaxApplies = 3
    UserFaults = 3
    SyncFaults = 2
    NetworkFaults = 3
INVARIANTS
    AccountsFollowConfig
    RestoredAdmitted
    QuadletsFollowTree
    NetworkFollowsTree
    ValidatorsAgree
CHECK_DEADLOCK FALSE
