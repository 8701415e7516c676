SPECIFICATION Spec
CONSTANTS
    Docs = {"digital", "sparse", "scan", "image"}
    Requests = {"auto", "opendataloader", "vllm"}
    Modes = {"sync", "async"}
    MaxRuns = 3
    Faults = {"probe", "parser", "sidecar", "gpu", "vision", "pages", "save", "preview", "entities", "crash"}
INVARIANTS TypeOK PinNeverStartsGpu RejectedTextIsNotServed EngineNamesResult SidecarsCatchUp
CHECK_DEADLOCK FALSE
