\* One recipe that is started twice and deleted; its folder rests.
CONSTANTS
    rA = rA
    rB = rB
    sA = sA
    pA = pA
    qA = qA
    qB = qB
    qC = qC
    Recipes = {rA}
    Sparks = {sA}
    Ports = {pA}
    SparkOf <- SameSpark
    PortOf <- SamePort
    Requests = {qA, qB, qC}
    Starts = {qA, qC}
    Stops = {qB}
    TargetOf <- OneRecipe
    UserPorts = {}
    Removable = {}
    Cancellable = {}
    CanCrash = FALSE
    Sides = {"engine"}
    Contents <- Folders
    MaxEdits = 1
    MaxAsks = 3
SPECIFICATION ServingSpec
INVARIANTS
    AddedPortLeaves
