SPECIFICATION FairSpec
CONSTANTS
    Jobs = {j1}
    Entries = {e1, e2}
    MaxTries = 2
    MaxJobs = 2
    Operations = {"sync", "stop", "restart", "delete",
                  "apicrash", "workercrash"}
    NoJob = NoJob
PROPERTIES PromiseKept
CHECK_DEADLOCK FALSE
