SPECIFICATION Spec
CONSTANTS
    c1 = c1
    Callers = {c1}
    Times = {1, 2}
    Starts <- FileStarts
    MaxLength = 2
    MaxApp = 1
    MaxCalls = 0
    MaxFaults = 0
    MaxRestarts = 0
PROPERTY
    MirrorFollows
