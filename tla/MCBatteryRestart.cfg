SPECIFICATION Spec
CONSTANTS
    Guard = 2
    Resume = 2
    Limit = 3
    MaxRestarts = 1
    Starts <- RestartedStarts
INVARIANT CycleSurvives
