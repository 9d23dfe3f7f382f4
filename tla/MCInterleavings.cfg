CONSTANTS
    i1 = i1  i2 = i2
    refresh1 = refresh1  settings = settings  deletion = deletion
    other = other  task = task  edit = edit
    uri1 = uri1  uri2 = uri2  f1 = f1  f2 = f2
    l1 = l1  l2 = l2
    NoSize = NoSize
    NoLength = NoLength
    Responses <- MCResponses
    Origins = {"a", "b"}
    Home = "a"
    MaxRedirects = 2
    Writes = {1, 2, 3, 5}
    MaxWritten = 6
    MaxPayload = 2
    SaltLength = 2
    TagLength = 1
    PlanAccounts = {1, 2, 3}
    PlanNodes = {1, 2, 3}
    Regions = {1}
    BlockSizes = {1, 2}
    Refreshers <- MCRefreshers
    Uris <- MCUris
    MaxFetches = 2
    Loads <- MCLoads
    Stored <- MCStored
    Retries = 1
    MaxBuilds = 2
    Instances <- TwoInstances
    Accounts = {2, 3}
    TaskNames = {1}
    AssignmentKey = 4
    Ops <- SafetyOps
    InstanceOf <- MCInstanceOf
    KindOf <- MCKindOf
    KeysOf <- MCKeysOf
    Connections = 2
    RefreshConcurrency = 2
    Unreliable <- OneEach
    Nobody = Nobody
    Hosts <- TwoInstances
    MaxRuns = 3
    MaxWrites = 2
    MaxFaults = 1
    Gone = Gone
SPECIFICATION MCSpec
CHECK_DEADLOCK FALSE
INVARIANTS
    LockIsExclusive
    NothingLeaks
    NoCircularWait
    BodyIsWhole
    EndsClean
    StreamIsFaithful
    PlanIsSound
    ListIsWhole
    FinalReportStands
PROPERTIES
    CacheKeepsModules
