SPECIFICATION MCSpec
CONSTANTS
    \* recalculation
    Writers = {w1}
    Goroutines = {g1, g2}
    MaxRevision = 1
    Faults <- AnyFault
    MaxFaults = 1
    \* queue
    Hosts = {h1, h2}
    NoHost = NoHost
    ReqIds = {1, 2}
    NoReq = NoReq
    Revs = 0
    OtherTypes = {"manual"}
    AgentOutcome = {"completed"}
    MaxEnqueue = 2
    MaxClock = 6
    QueueFaults = 1
    \* responses
    Pollers = {p1, p2}
    Scopes = {s1, s2}
    MaxEntries = 1
    MaxUpdates = 1
INVARIANTS OkPassIsComplete
PROPERTIES PromiseKept EveryChangeIsRecalculated  RequestsSettle 
CHECK_DEADLOCK FALSE
