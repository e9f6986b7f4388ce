SPECIFICATION PipeSpec
CONSTANTS
    e1 = e1
    e2 = e2
    e3 = e3
    e4 = e4
    Elements = {e1, e2, e3, e4}
    Score <- MCScore
    MinElements = 2
    MaxWait = FALSE
    Tasks = 4
    Size = 2
    MaxItems = 3
    Failures = 2
    Nothing = Nothing
INVARIANTS
    PermitsAccounted
PROPERTIES
    LoopEnds
CHECK_DEADLOCK FALSE
