SPECIFICATION CardsSpec
CONSTANTS
    Place <- Places
    Tasks <- TaskIds
    Window = 3
    Sent <- Pieces
    Uploaded <- Files
    MaxPieces = 2
    MaxFiles = 2
    Cards = {c1, c2}
    MaxEdits = 3
    MaxFaults = 1
    MaxPlugs = 1
    Tabs = {t1, t2}
    MaxEvents = 3
INVARIANTS
    
    CardDrawsThePath
PROPERTIES
    
    
    DurationGrows
    CompleteUntilMowing
    
