\* Liveness: a serve job and an agent install on one spark that may be removed;
\* a page with two calls under way, answers of one trace and room for two;
\* three days of which two are kept.  Traces and samples are bounded: deadlock
\* is not checked.
CONSTANTS
    jA = jA
    jB = jB
    nA = nA
    fA = fA
    Jobs = {jA, jB}
    Nodes = {nA}
    Folders = {fA}
    Serve = {jA}
    Install = {jB}
    NodeOf <- OnOneNode
    FolderOf <- OnOneFolder
    MaxPersisted = 1
    MaxCrashes = 1
    Cancelled = {}
    Removed = {nA}
    Kinds = {"x", "y"}
    Chosen = {"x"}
    MaxCalls = 2
    PageLimit = 1
    KeepLimit = 2
    MaxTraces = 2
    MaxTurns = 2
    MaxRate = 2
    KeepDays = 2
    LastDay = 3
    MaxSamples = 2
    MaxTroubles = 2
    Parts = {"jobs", "traces", "daily"}
SPECIFICATION RecordsSpec
PROPERTIES
    RecordsAreKept
CHECK_DEADLOCK FALSE
