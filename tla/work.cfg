\* Two starts of a script, one of another and a stop, with room for one path
\* and one restart; a benchmark and a showcase on one spark, a benchmark on
\* another, one benchmark at a time, histories of one record and two boots; a
\* benchmark of two levels with two tokens a stream; two requests about a model,
\* with one transfer and one fault.  All requests may be done: deadlock is not
\* checked.
CONSTANTS
    kA = kA
    kB = kB
    p1 = p1
    p2 = p2
    p3 = p3
    x1 = x1
    decA = decA
    preB = preB
    showA = showA
    sA = sA
    sB = sB
    Starts = {p1, p2, p3}
    Stops = {x1}
    Scripts = {kA, kB}
    ScriptOf <- PathOf
    None = None
    KeepPaths = 1
    MaxRestarts = 1
    Runs = {decA, preB, showA}
    Sparks = {sA, sB}
    KindOf <- LoadOf
    SparkOf <- PlaceOf
    NoRun = NoRun
    Cap = 1
    Limit = 1
    MaxBoots = 2
    Waves <- WaveSizes
    MaxPieces = 2
    r1 = r1
    r2 = r2
    Nodes = {sA, sB}
    Nas = "nas"
    Asks = {r1, r2}
    Wishes <- TwoWishes
    Stocks <- TwoStocks
    Transfers = {"sync", "push", "queue", "nas-delete"}
    Tight = {sA}
    MaxJobs = 1
    MaxFaults = 1
SPECIFICATION Spec
INVARIANTS
    WorkTypesOK
    
    LoadIsKept
PROPERTIES
    ReportsHold
CHECK_DEADLOCK FALSE
