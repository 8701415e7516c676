SPECIFICATION Spec
CONSTANTS
    Docs = {"digital", "sparse", "scan", "image"}
    Requests = {"auto", "opendataloader", "vllm"}
    Modes = {"async"}
    MaxRuns = 2
    Faults = {}
INVARIANTS StructureNotFoundForVision
CHECK_DEADLOCK FALSE
