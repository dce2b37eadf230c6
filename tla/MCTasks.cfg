SPECIFICATION TasksSpec
CONSTANTS
    Poses = {1, 2, 3}
    Maps = {1, 2}
    Plausible <- PosesOnMaps
    Coarse <- LooksAlike
    PositionAge = 0
    LastAge = 1
    DockAge = 2
    MaxReports = 2
    MaxOpens = 1
    Guard = 2
    Resume = 2
    Limit = 3
    MaxRestarts = 1
    BatteryStarts <- SaverStarts
    MaxPaths = 2
    MaxTimes = 3
    PathStarts <- GenieStarts
INVARIANTS
    OldPoseShownStanding
    MapIsShown
    TypesOK
    KeptAwake
    PoweredWhenDisabled
PROPERTIES
    StaysBetweenLevels
    TaskResumes
    RainHolds
    
    
