SPECIFICATION FleetSpec
CONSTANTS
    N = 1
    BootMinutes = 5
    MaxJobs = 1
    BoxFaults = {}
PROPERTIES WarmUpIsNotKilled
