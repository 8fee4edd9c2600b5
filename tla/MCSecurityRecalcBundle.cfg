SPECIFICATION LiveSpec
CONSTANTS
    Writers = {w1}
    Goroutines = {g1}
    MaxRevision = 1
    Faults <- WriterFaults
    MaxFaults = 1
PROPERTY EveryCommitIsRecalculated
