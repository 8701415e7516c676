SPECIFICATION Spec
CONSTANTS
    Keys = {k1}
    Limit = 2
    Second = 2
    Window = 4
    MaxTime = 11
PROPERTIES ResetIsKept
CHECK_DEADLOCK FALSE
