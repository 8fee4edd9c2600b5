SPECIFICATION Spec
CONSTANTS
    Calendar <- SmallCalendar
    FieldRange <- SmallRange
    MaxIter = 5
    Expressions <- OnlyYearly
    Schedules = {s1}
    Hosts = {h1}
    Admins = {a1}
    Hour = 2
    MaxClock = 14
    MaxEdits = 0
    MaxFaults = 0
INVARIANT ScansAreDue
CHECK_DEADLOCK FALSE
