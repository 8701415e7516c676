SPECIFICATION Spec
CONSTANTS
    Jobs = {j1, j2}
    Entries = {e1, e2}
    MaxTries = 1
    MaxJobs = 2
    Operations = {"sync", "stop", "delete", "cleanup", "cleanercrash"}
    NoJob = NoJob
SYMMETRY Symmetry
INVARIANTS SettledRowsComplete
CHECK_DEADLOCK FALSE
