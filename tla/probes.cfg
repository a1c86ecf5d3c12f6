\* The five contracts of engines, two tokens, one restart, a detection that
\* is reset after two failures; two polls at a time, two upsets, two partitions
\* of one device and one of another; two jobs of ComfyUI, two edits or faults.
\* The bounds may be used up: deadlock is not checked.
CONSTANTS
    s1 = s1
    s2 = s2
    x1 = x1
    x2 = x2
    y1 = y1
    d1 = d1
    d2 = d2
    Kinds = {"vllm", "ds4", "exl3", "sglang", "llama.cpp"}
    MaxWork = 2
    MaxFaults = 1
    FailReset = 2
    Pollers = {s1, s2}
    DiskOf <- Partitions
    MaxUnits = 2
    MaxUpsets = 2
    Jobs = {j1, j2}
    NoJob = NoJob
    Target = Target
    Other = Other
    Nowhere = Nowhere
    MaxComfyEvents = 2
SPECIFICATION Spec
INVARIANTS
    ProbeTypesOK
    

    
CHECK_DEADLOCK FALSE
