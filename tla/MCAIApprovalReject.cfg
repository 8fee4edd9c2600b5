SPECIFICATION Spec
CONSTANTS
    Findings = {f1, f2}
    Admins = {a1, a2}
    MaxRows = 2
    Budget = 0
PROPERTY ConflictMeansDecided
