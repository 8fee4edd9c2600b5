SPECIFICATION Spec
CONSTANTS
    h1 = h1
    h2 = h2
    Hosts = {h1, h2}
    NoHost = NoHost
    ReqIds <- TwoReqIds
    NoReq = NoReq
    OtherTypes = {"manual"}
    AgentOutcome = {"completed", "failed"}
    MaxRevision = 0
    MaxEnqueue = 2
    MaxClock = 4
    MaxFaults = 1
SYMMETRY Symmetry
INVARIANTS UniquePendingRescan SweepKeepsARescan OutcomeFromHolder
CHECK_DEADLOCK FALSE
