CONSTANTS
    r1 = r1  r2 = r2  r3 = r3  r4 = r4
    Requests <- MCRequests
    MinWorkers = 1
    MaxWorkers = 2
    QueueLimit = 2
    MaxWorkerId = 4
    NoWorker = NoWorker
    Connections <- MCConnections
    Workers = 1
    Slots = 1
    MinCount = 2
    MaxCount = 20
    IdleSamples = 2
    MaxWaiting = 2
    MaxSubscriptions = 2
    MaxMishaps = 2
SPECIFICATION MCSpec
INVARIANTS
    NoWorkerLost
    ExclusiveWorkers
    WorkConserving
    GivenBackOnce
    LoggedOnce
    AnswerNamesItsCause
    ResizeLeavesRoom
    RecordIsTrue
PROPERTIES
    ImplementsAdmission
    WaiterIsServed
    ShrinkCompletes
    CallEnds
    IdlePoolShrinks
    StoredBecomesTrue
    RenewalStopsHere
    PanelCatchesUp
