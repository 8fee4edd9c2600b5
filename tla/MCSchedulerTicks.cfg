SPECIFICATION Spec
CONSTANTS
    Calendar <- SmallCalendar
    FieldRange <- SmallRange
    MaxIter = 5
    Expressions <- OftenAndYearly
    Schedules = {s1}
    Hosts = {h1, h2}
    Admins = {a1}
    Hour = 2
    MaxClock = 3
    MaxEdits = 1
    MaxFaults = 1
INVARIANTS OncePerOccurrence ScansAreDue
PROPERTY DueSchedulesRun
CHECK_DEADLOCK FALSE
