CONSTANTS
    i1 = i1  i2 = i2
    refresh1 = refresh1  refresh2 = refresh2
    deletion = deletion  task = task
    Instances <- TwoInstances
    Accounts <- TwoAccounts
    TaskNames <- OneTask
    AssignmentKey <- Assignment
    Ops <- LiveOps
    InstanceOf <- MCInstanceOf
    KindOf <- MCKindOf
    KeysOf <- MCKeysOf
    Connections = 2
    RefreshConcurrency = 2
    Unreliable <- JustRefresh1
    Nobody = Nobody
    Gone = Gone
SPECIFICATION FairSpec
PROPERTIES
    OperationEnds
