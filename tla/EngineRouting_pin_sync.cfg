SPECIFICATION Spec
CONSTANTS
    Docs = {"digital", "sparse", "scan", "image"}
    Requests = {"auto", "opendataloader", "vllm"}
    Modes = {"sync", "async"}
    MaxRuns = 2
    Faults = {}
INVARIANTS PinHonoured
CHECK_DEADLOCK FALSE
