\* Three requests to one port under a cap of one: a probe, slow clients and
\* one whose dispatch throws.  One deployment with one start, its port alone or
\* second in the list, two things that happen on its node.  Three deployments
\* of one name with two requests each.  The parts may come to rest: deadlock is
\* not checked.
CONSTANTS
    r1 = r1
    r2 = r2
    r3 = r3
    t = t
    p = p
    q = q
    m1 = m1
    m2 = m2
    m3 = m3
    Reqs = {r1, r2, r3}
    Targets = {t}
    TargetOf <- OneTarget
    Cap = 1
    Probes = {r1}
    Bad = {r3}
    Slow = {r1, r2}
    Port = p
    PortLists <- Lists
    Keyed = FALSE
    MaxJobs = 1
    MaxChanges = 2
    Members <- Three
    MaxRequests = 2
SPECIFICATION FrontSpec
INVARIANTS
    TypeOK
    OneTraceUnlessOutrun
    CancelIsTold
    CapHolds
    NobodyGeneratesForNobody
    
PROPERTIES
    EveryRequestSettles
    DownIsPolled
CHECK_DEADLOCK FALSE
