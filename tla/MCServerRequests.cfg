SPECIFICATION MCSpec
CONSTANTS
    \* reports
    MaxScans = 3
    NSections = 2
    SpoolMax = 2
    MaxAttempts = 2
    Budget <- SafetyBudget
    \* users
    UserIds = {u1, u2}
    UserRequests = {q1, q2}
    UserFaults = 1
    \* sessions
    Users = {u1}
    Clients = {c1, c2}
    MaxFailures = 2
    MaxEntries = 3
    MaxPassword = 2
    SessionFaults = 1
    \* access
    Names = {n1}
    Hosts = {"h1"}
    Container = "c"
    Image = "i"
    Owner = "o"
    Star = "*"
    Offers <- AllOffers
    MaxPolicies = 2
    MaxChanges = 1
    \* trivy
    Versions = {v1, v2}
    None = none
    DiskFaults = 2
    \* imports
    CveIds = {cve1}
    Feeds = {feed1, feed2}
    Items = {item1}
    Importers = {i1, i2}
    Rebuilders = {r1}
    MaxTxs = 3
    MaxTries = 2
    ImportFaults = 1
INVARIANTS    LockoutHolds   DatabaseIsKept IndexIsComplete
PROPERTY AnAdminRemains
CHECK_DEADLOCK FALSE
