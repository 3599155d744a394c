SPECIFICATION FairSpec
CONSTANTS
    Process = {p1, p2}
    NoProcess = NoProcess
    port = port
    repo = repo
    Port = {port}
    PortOf <- OnePort
    ApiReq = {q1}
    AdminReq = {m1}
    Expired = {a1}
    RepoOf <- OneRepository
    NoItem = NoItem
    MaxClock = 0
    MaxFaults = 1
CHECK_DEADLOCK FALSE
INVARIANTS
    StopLosesNoRequest
    StartsAfterAnyEnd
    AdminReachable
PROPERTIES
    StopEnds
    ExpiredGo
