\* Two connections, so that one replaces the other; two events of any kind and
\* one fault.  Two showcases of one page, a piece of text each, two requests
\* under way.  Two sparks, a client two snapshots behind, and two edits or
\* faults of the live view.  Two pids, three runs of a script and two mishaps.  The connection may be down for good, deadlock is not checked.
CONSTANTS
    s1 = s1
    s2 = s2
    q1 = q1
    q2 = q2
    Sockets = {s1, s2}
    NoSocket = NoSocket
    Requests = {q1, q2}
    vA = vA
    vB = vB
    Sessions = {vA, vB}
    NoSession = NoSession
    MaxText = 1
    MaxWire = 2
    MaxEvents = 2
    MaxFaults = 1
    nA = nA
    nB = nB
    Nodes = {nA, nB}
    HistoryMax = 2
    Retention = 2
    Backlog = 2
    MaxTime = 3
    MaxEdits = 2
    p1 = p1
    p2 = p2
    Pids = {p1, p2}
    NoPid = NoPid
    MaxRuns = 3
    MaxMishaps = 2
SPECIFICATION Spec
INVARIANTS
    ChannelTypesOK
    OneConnection
    ExchangesHold
PROPERTIES
    NothingIsUndone
    GoneIsSeen
CHECK_DEADLOCK FALSE
