SPECIFICATION Spec
CONSTANTS
    Jobs = {j1}
    Entries = {e1}
    MaxTries = 2
    MaxJobs = 2
    Operations = {"stop"}
    NoJob = NoJob
INVARIANTS ErrorOnlyWhenFailed
CHECK_DEADLOCK FALSE
