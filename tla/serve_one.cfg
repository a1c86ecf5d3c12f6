\* One recipe: a start, a stop and a restart, its deletion and return, the
\* removal of its spark and a crash.  A recipe folder with two contents, one
\* edit and three requests.
CONSTANTS
    rA = rA
    rB = rB
    sA = sA
    pA = pA
    qA = qA
    qB = qB
    qC = qC
    Recipes = {rA}
    Sparks = {sA}
    Ports = {pA}
    SparkOf <- SameSpark
    PortOf <- SamePort
    Requests = {qA, qB, qC}
    Starts = {qA, qC}
    Stops = {qB, qC}
    TargetOf <- OneRecipe
    UserPorts = {}
    Removable = {sA}
    Cancellable = {qA}
    CanCrash = TRUE
    Sides = {"engine", "shelf"}
    Contents <- Folders
    MaxEdits = 1
    MaxAsks = 3
SPECIFICATION ServingSpec
INVARIANTS
    TypeOK
    StopIsFinal
    DeletedIsIdle
    OrphanIsStopped

    
