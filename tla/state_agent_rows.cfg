\* The instance of proxy_races.cfg, for the documented way of rows over the
\* agent.
CONSTANTS
    r1 = r1
    r2 = r2
    r3 = r3
    t = t
    p = p
    q = q
    m1 = m1
    m2 = m2
    m3 = m3
    Reqs = {r1, r2, r3}
    Targets = {t}
    TargetOf <- OneTarget
    Cap = 1
    Probes = {r1}
    Bad = {r3}
    Slow = {r1, r2}
    Port = p
    PortLists <- Lists
    Keyed = FALSE
    MaxJobs = 1
    MaxChanges = 2
    Members <- Three
    MaxRequests = 2
SPECIFICATION FrontSpec
PROPERTIES
    DownIsSeen
CHECK_DEADLOCK FALSE
