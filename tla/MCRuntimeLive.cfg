SPECIFICATION FairSpec
CONSTANTS
    c1 = c1
    c2 = c2
    c3 = c3
    s1 = s1
    AllServices = {s1}
    Callers = {c1, c2, c3}
    Offered <- OneService
PROPERTIES
    RunReturns
    ShutdownFollowsRun
CHECK_DEADLOCK FALSE
