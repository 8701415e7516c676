SPECIFICATION IntakeSpec
CONSTANTS
    Keys = {k1}
    Limit = 2
    Second = 1
    Window = 2
    MaxTime = 5
    Requests = {r1}
    Shapes <- MCShapes
    MaxFiles = 3
    MaxBytes = 1
INVARIANTS EveryFileIsListed
CHECK_DEADLOCK FALSE
