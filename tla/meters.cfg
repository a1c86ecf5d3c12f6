\* One spark with two ports, two registrations, two tokens, two faults; two
\* models, two requests, two days; two nodes, two engines, two minutes of two
\* ticks, files with and without a high-water mark.  All bounds may be used up:
\* deadlock is not checked.
CONSTANTS
    a = a
    p = p
    q = q
    m1 = m1
    m2 = m2
    n1 = n1
    n2 = n2
    s1 = s1
    s2 = s2
    Ids = {a}
    Ports = {p, q}
    MaxAdds = 2
    MaxTokens = 2
    MaxFaults = 2
    Models = {m1, m2}
    Unnamed = Unnamed
    MaxDelta = 9
    Jump = 20
    KeepDays = 1
    Faults <- SomeFaults
    MaxServed = 2
    MaxDays = 1
    MaxEvents = 2
    Nodes = {n1, n2}
    Sources = {s1, s2}
    FreshSets = {{}, {n1}, {n1, n2}}
    MinuteLen = 2
    MaxGap = 2
    Retention = 2
    Never = Never
    MaxClock = 3
    MaxProduced = 1
    MaxUpsets = 2
SPECIFICATION Spec
INVARIANTS
    MeterTypesOK
    MetersAddUp
PROPERTIES
    StoreHolds
CHECK_DEADLOCK FALSE
