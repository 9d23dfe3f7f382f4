CONSTANTS
    r1 = r1  r2 = r2
    c1 = c1  c2 = c2
    i1 = i1  i2 = i2
    Requests <- MCRequests
    Cookies <- MCCookies
    None = None
    reward = reward
    Servers <- MCServers
    Rewards <- MCRewards
    MaxTime = 3
SPECIFICATION MCSpec
SYMMETRY Alike
CHECK_DEADLOCK FALSE
INVARIANTS
    RowIsCoherent
    KeyOfCookie
    SelectsFromNewest
PROPERTIES
    ManualDisableStands
    ManualMarkOutlivesRefresh
    RefreshKeepsConviction
