SPECIFICATION Spec
CONSTANTS
    c1 = c1
    c2 = c2
    Ids = {1, 2}
    Versions = {1, 2}
    Cards = {c1, c2}
    Timer = timer
    MaxEdits = 1
    MaxFaults = 1
    Starts <- FirstFeeds
INVARIANT
    AckDurable
PROPERTIES
    ClosedStaysClosed
    MarkerNotReverted
    CardFollowsBackend
    PopupAppears
