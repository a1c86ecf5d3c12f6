\* Two recipes that share a port of one spark; the spark may go and come back.
\* Two owners of passwords, a key in the environment or none, three boots, three
\* values, three mishaps.  Three commands over one connection that breaks once.  The parts may
\* come to rest: deadlock is not checked.
CONSTANTS
    g = g
    h = h
    s1 = s1
    p1 = p1
    q1 = q1
    q2 = q2
    q3 = q3
    Recipes = {g, h}
    Sparks = {s1}
    Ports = {p1}
    SparkOf <- OneSpark
    PortOf <- OnePort
    Requests = {q1, q2, q3}
    Starts = {q1, q3}
    Stops = {q2}
    TargetOf <- LastIsH
    UserPorts = {}
    Removable = {s1}
    Cancellable = {}
    CanCrash = FALSE
    Owners = {"u1", "u2"}
    EnvKeys = {0, 1}
    MaxBoots = 3
    MaxValues = 3
    MaxMishaps = 3
    Execs = {"e1", "e2", "e3"}
    Persist = 2
    MaxNow = 4
    MaxBreaks = 1
SPECIFICATION HouseSpec
INVARIANTS
    
    HouseHolds
CHECK_DEADLOCK FALSE
