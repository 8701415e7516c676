SPECIFICATION FairSpec
CONSTANTS
    N = 3
    MaxParallel = 2
    Threshold = 2
    Shapes <- AllShapes
INVARIANTS TypeOK TextPreserved OrderIrrelevant SuccessCounts
PROPERTIES Terminates
CHECK_DEADLOCK FALSE
