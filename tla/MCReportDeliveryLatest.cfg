SPECIFICATION Spec
CONSTANTS
    MaxScans = 2
    NSections = 1
    SpoolMax = 1
    MaxAttempts = 1
    Budget <- ReplayBudget
INVARIANT LatestIsNewest
