SPECIFICATION Spec
CONSTANTS
    Jobs = {j1}
    Entries = {e1, e2}
    MaxTries = 2
    MaxJobs = 2
    Operations = {"restart", "cleanup"}
    NoJob = NoJob
PROPERTIES NeverDeleteInFlight
CHECK_DEADLOCK FALSE
