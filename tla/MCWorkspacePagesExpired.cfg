SPECIFICATION MCSpec
CONSTANTS
    Loads = {p, q}
    Stored = {p}
    Retries = 1
    MaxBuilds = 2
INVARIANTS
    ExpiredMeansRejected
CHECK_DEADLOCK FALSE
