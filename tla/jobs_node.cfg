\* Two node-gated jobs on one spark, one of them an agent install.
CONSTANTS
    jA = jA
    jB = jB
    nA = nA
    fA = fA
    Jobs = {jA, jB}
    Nodes = {nA}
    Folders = {fA}
    Serve = {}
    Install = {jB}
    NodeOf <- OnOneNode
    FolderOf <- OnOneFolder
    MaxPersisted = 1
    MaxCrashes = 1
    Cancelled = {jB}
    Removed = {}
    Kinds = {"x", "y"}
    Chosen = {"x"}
    MaxCalls = 2
    PageLimit = 1
    KeepLimit = 2
    MaxTraces = 2
    MaxTurns = 2
    MaxRate = 2
    KeepDays = 2
    LastDay = 3
    MaxSamples = 2
    MaxTroubles = 1
    Parts = {"jobs"}
SPECIFICATION RecordsSpec
INVARIANTS
    JobsTypeOK
    RunningOnDisk
    HonestOutcome
    GateUpToOverlap
PROPERTIES
    ImplementsLifecycle
