CONSTANTS
    r1 = r1  r2 = r2
    i1 = i1  i2 = i2
    a1 = a1  a2 = a2
    Requests <- TwoRequests
    Accounts <- TwoAccounts
    Instances <- TwoInstances
    InstanceOf <- MCInstanceOf
    Rank <- MCRank
    Concurrency = 1
    Timeout = 1
    Slack = 2
    MaxLag = 1
    NoLease = NoLease
    Orphan = Orphan
    NoSlot = NoSlot
SPECIFICATION FairSpec
INVARIANTS
    SlotLimit
    LeaseCoversUse
PROPERTIES
    RequestEnds
    OrphanIsReclaimed
