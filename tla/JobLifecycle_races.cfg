SPECIFICATION Spec
CONSTANTS
    Jobs = {j1}
    Entries = {e1, e2}
    MaxTries = 2
    MaxJobs = 2
    Operations = {"sync", "stop", "restart", "delete", "cleanup",
                  "apicrash", "workercrash", "cleanercrash"}
    NoJob = NoJob
SYMMETRY Symmetry
INVARIANTS TypeOK NoLostJob ResultServable
PROPERTIES DeletedStaysDeleted RerunOnlyOnRedelivery
CHECK_DEADLOCK FALSE
