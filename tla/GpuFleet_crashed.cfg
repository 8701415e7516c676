SPECIFICATION FairFleetSpec
CONSTANTS
    N = 1
    BootMinutes = 2
    MaxJobs = 1
    BoxFaults = {"vllm"}
PROPERTIES StopsWhenIdle
