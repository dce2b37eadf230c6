SPECIFICATION ScheduleSpec
CONSTANTS
    c1 = c1
    c2 = c2
    t1 = t1
    Callers = {c1, c2}
    Times = {1, 2}
    Starts <- PlanStarts
    MaxLength = 3
    MaxApp = 1
    MaxCalls = 2
    MaxFaults = 1
    MaxRestarts = 1
INVARIANT
    NoOrphans
PROPERTIES
    OnlyTheTarget
    MirrorFollows
    ParkedGoesHome
    CatchUpResolves
