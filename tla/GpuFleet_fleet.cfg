SPECIFICATION FairFleetSpec
CONSTANTS
    N = 2
    BootMinutes = 2
    MaxJobs = 2
    BoxFaults = {"stock", "api", "revert", "vllm", "probe"}
INVARIANTS FleetTypeOK NoCandidateSkipped
PROPERTIES SearchEnds BillingStops
