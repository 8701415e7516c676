\* One sentence at a time: TLC stops at the first that is violated.
SPECIFICATION Spec
CONSTANTS
    Jobs = {1, 2, 3}
    Mine = {1, 3}
    Limit = 1
    Restarts = {1}
    Expired = {1}
    MaxRuns = 2
    NoJob = NoJob
INVARIANTS
    TotalIsEnough
    \* SideFileIsWhole
    \* GoneIsSaid
CHECK_DEADLOCK FALSE
