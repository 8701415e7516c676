SPECIFICATION Spec
CONSTANTS
    Docs = {"digital", "sparse", "scan", "image"}
    Requests = {"auto", "opendataloader", "vllm"}
    Modes = {"sync", "async"}
    MaxRuns = 2
    Faults = {}
INVARIANTS ModelServedTheJob
CHECK_DEADLOCK FALSE
