SPECIFICATION LiveSpec
CONSTANTS
    MaxScans = 2
    NSections = 1
    SpoolMax = 2
    MaxAttempts = 2
    Budget <- CutBudget
PROPERTY SpooledReportsLeave
