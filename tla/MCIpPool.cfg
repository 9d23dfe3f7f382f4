CONSTANTS
    PlanAccounts = {}
    PlanNodes = {}
    Regions = {1}
    BlockSizes = {1}
    Accounts = {1, 2}
    Scheduled = {1}
    Nodes = {1, 2}
    HomeRegion <- MCHomeRegion
    MaxPings = 3
    MaxEvents = 3
SPECIFICATION MCSpec
CHECK_DEADLOCK FALSE
PROPERTIES
    PlacementIsStable
    StrandedAccountMoves
    JudgementIsMended
