SPECIFICATION Spec
CONSTANTS
    N = 2
    MaxParallel = 2
    Threshold = 3
    Shapes <- FewShapes
INVARIANTS PagesFailedFailed
CHECK_DEADLOCK FALSE
