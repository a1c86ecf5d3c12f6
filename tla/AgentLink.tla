----------------------------- MODULE AgentLink -----------------------------
(***************************************************************************)
(* The WebSocket between the command agent of one spark                    *)
(* (agent/src/main.js) and the dashboard (server/agent/agentRegistry.js    *)
(* and the /agent-ws endpoint of server/index.js): hello and replacement   *)
(* of a connection, token rotation, pushes of metrics, requests and their  *)
(* timeouts, reconnects.                                                   *)
(*                                                                         *)
(* A socket has two ends that notice its death one after the other, and a  *)
(* FIFO channel in each direction.  An end is "open", "closing" (the close *)
(* was sent or received, readyState is no longer 1) or "closed" (the close *)
(* event has run).  Sockets are slots, used again once both ends closed.   *)
(* The reconnect delays, 250 ms or the backoff, are not told apart.        *)
(***************************************************************************)
EXTENDS Naturals, Sequences, FiniteSets

CONSTANTS
    Sockets,    \* slots for connections
    NoSocket,   \* no connection
    Requests,   \* requests the dashboard makes to the agent
    MaxEvents,  \* bound: rotations, changes of ports, pushes and requests together
    MaxFaults   \* bound: cut connections and agent crashes

ASSUME LinkAssumption ==
    /\ NoSocket \notin Sockets
    /\ IsFiniteSet(Requests) /\ MaxEvents \in Nat /\ MaxFaults \in Nat

VARIABLES
    token,      \* the dashboard's agent token (a rotation counts up)
    known,      \* the spark is in the registry
    ports,      \* spark.llmPorts, as a version
    conn,       \* connections.get(sparkId)
    near,       \* near[s]: dashboard end of s
    registered, \* registered[s]: the handler's flag
    pending,    \* pending[q]: state of request q
    seen,       \* the last push the monitor was given
    far,        \* far[s]: agent end of s
    sock,       \* the agent's ws
    cfgToken,   \* the agent's token, in memory and in config.json
    agentPorts, \* the agent's llmPorts
    saving,     \* tokens received whose handler still awaits its probes
    process,    \* process[q]: the command of q on the node
    sent,       \* pushes so far
    up, down,   \* channels, to the dashboard and to the agent
    cut,        \* cut[s]: nothing passes any more
    faults,     \* cuts and crashes so far
    silent      \* history: the ports changed and the agent was not told

dashVars  == <<token, known, ports, conn, near, registered, pending, seen>>
agentVars == <<far, sock, cfgToken, agentPorts, saving, process, sent>>
netVars   == <<up, down, cut, faults>>
linkVars  == <<dashVars, agentVars, netVars, silent>>

Ends == {"open", "closing", "closed"}

LinkInit ==
    /\ token = 0 /\ known = TRUE /\ ports = 0
    /\ conn = NoSocket /\ sock = NoSocket
    /\ near = [s \in Sockets |-> "closed"] /\ far = near
    /\ registered = [s \in Sockets |-> FALSE]
    /\ pending = [q \in Requests |-> "idle"]
    /\ process = [q \in Requests |-> "none"]
    /\ seen = 0 /\ sent = 0
    /\ cfgToken = 0 /\ agentPorts = 0 /\ saving = <<>>
    /\ up = [s \in Sockets |-> <<>>] /\ down = up
    /\ cut = [s \in Sockets |-> FALSE]
    /\ faults = 0 /\ silent = FALSE

Frame(t, v) == [type |-> t, val |-> v]

\* A frame sent on s is lost if the network is cut or the other end is gone.
ToAgent(s, f) ==
    IF cut[s] \/ far[s] = "closed" THEN down ELSE [down EXCEPT ![s] = Append(@, f)]
ToDashboard(s, f) ==
    IF cut[s] \/ near[s] = "closed" THEN up ELSE [up EXCEPT ![s] = Append(@, f)]

MoreEvents ==
    token + ports + sent + Cardinality({q \in Requests : pending[q] # "idle"}) < MaxEvents

-----------------------------------------------------------------------------
(* The dashboard *)

\* AgentRegistry.isConnected
IsConnected == conn # NoSocket /\ near[conn] = "open"

\* AgentRegistry.send
SendIfConnected(f) == down' = IF IsConnected THEN ToAgent(conn, f) ELSE down

\* POST /api/agent/token/rotate
RotateToken ==
    /\ MoreEvents
    /\ token' = token + 1
    /\ SendIfConnected(Frame("token", token'))
    /\ UNCHANGED <<known, ports, conn, near, registered, pending, seen, agentVars, up, cut, faults, silent>>

\* The serve engine adds or drops a probe port and tells the agent.
PushPorts ==
    /\ MoreEvents /\ known
    /\ ports' = ports + 1
    /\ SendIfConnected(Frame("ports", ports'))
    /\ UNCHANGED <<token, known, conn, near, registered, pending, seen, agentVars, up, cut, faults, silent>>

\* The routes that change llmPorts or the spark tell the monitor only.
EditPorts ==
    /\ MoreEvents /\ known
    /\ ports' = ports + 1
    /\ silent' = TRUE
    /\ UNCHANGED <<token, known, conn, near, registered, pending, seen, agentVars, netVars>>

\* The spark is deleted, or added again; its connection is left alone.
ToggleSpark ==
    /\ known' = ~known
    /\ UNCHANGED <<token, ports, conn, near, registered, pending, seen, agentVars, netVars, silent>>

\* AgentRegistry.request
Request(q) ==
    /\ pending[q] = "idle" /\ MoreEvents
    /\ pending' = [pending EXCEPT ![q] = IF IsConnected THEN "pending" ELSE "refused"]
    /\ SendIfConnected(Frame("job-run", q))
    /\ UNCHANGED <<token, known, ports, conn, near, registered, seen, agentVars, up, cut, faults, silent>>

\* The timer of a request; a disconnect does not settle it.
RequestTimesOut(q) ==
    /\ pending[q] = "pending"
    /\ pending' = [pending EXCEPT ![q] = "timed out"]
    /\ UNCHANGED <<token, known, ports, conn, near, registered, seen, agentVars, netVars, silent>>

\* The next frame on the dashboard end of s.
Arrives(s, t) ==
    /\ near[s] # "closed" /\ up[s] # <<>> /\ Head(up[s]).type = t
    /\ up' = [up EXCEPT ![s] = Tail(@)]

Accepts(f) == f.val = token /\ known

\* register() refuses: 4001 or 4002.
HelloRefused(s) ==
    /\ Arrives(s, "hello") /\ ~Accepts(Head(up[s]))
    /\ near' = [near EXCEPT ![s] = "closing"]
    /\ UNCHANGED <<token, known, ports, conn, registered, pending, seen, agentVars, down, cut, faults, silent>>

\* register() replaces the connection there is, and the agent is welcomed
\* with the current configuration.
HelloAccepted(s) ==
    /\ Arrives(s, "hello") /\ Accepts(Head(up[s]))
    /\ near' = [t \in Sockets |-> IF t = conn /\ near[t] = "open" THEN "closing" ELSE near[t]]
    /\ conn' = s
    /\ registered' = [registered EXCEPT ![s] = TRUE]
    /\ down' = IF near[s] = "open" THEN ToAgent(s, Frame("welcome", ports)) ELSE down
    /\ silent' = FALSE
    /\ UNCHANGED <<token, known, ports, pending, seen, agentVars, cut, faults>>

\* Mutated form: frames of a replaced connection count too.
AppliedBug(s, f) == f.val

\* A push reaches the monitor only over the registered connection.
Applied(s, f) == IF conn = s THEN f.val ELSE seen

MetricsArrive(s) ==
    /\ Arrives(s, "metrics")
    /\ seen' = IF registered[s] THEN Applied(s, Head(up[s])) ELSE seen
    /\ UNCHANGED <<token, known, ports, conn, near, registered, pending, agentVars, down, cut, faults, silent>>

\* Mutated form: the entry is deleted from the wrong map.
ForgottenBug(q) == [p \in Requests \ {q} |-> pending[p]]

\* _resolvePending: the request the frame names, if it still waits.
Resolved(q) ==
    IF pending[q] = "pending" THEN [pending EXCEPT ![q] = "answered"] ELSE pending

ResponseArrives(s) ==
    /\ Arrives(s, "resp")
    /\ pending' = IF registered[s] THEN Resolved(Head(up[s]).val) ELSE pending
    /\ UNCHANGED <<token, known, ports, conn, near, registered, seen, agentVars, down, cut, faults, silent>>

\* The close of the other end arrives, or the network error is noticed.
NearSees(s) ==
    /\ near[s] = "open"
    /\ cut[s] \/ (far[s] # "open" /\ up[s] = <<>>)
    /\ near' = [near EXCEPT ![s] = "closing"]
    /\ UNCHANGED <<token, known, ports, conn, registered, pending, seen, agentVars, netVars, silent>>

\* Mutated form: the entry is deleted whatever socket it holds.
UnregisteredBug(s) == NoSocket

\* unregister(ws), by the identity of the socket.
Unregistered(s) == IF conn = s THEN NoSocket ELSE conn

NearCloses(s) ==
    /\ near[s] = "closing"
    /\ near' = [near EXCEPT ![s] = "closed"]
    /\ conn' = Unregistered(s)
    /\ registered' = [registered EXCEPT ![s] = FALSE]
    /\ up' = [up EXCEPT ![s] = <<>>]
    /\ UNCHANGED <<token, known, ports, pending, seen, agentVars, down, cut, faults, silent>>

-----------------------------------------------------------------------------
(* The agent *)

\* send(): over the socket of the moment, or nowhere.
AgentSends(f) == up' = IF sock # NoSocket /\ far[sock] = "open" THEN ToDashboard(sock, f) ELSE up

\* connect() and its open handler.
Connect(s) ==
    /\ sock # NoSocket => far[sock] = "closed"
    /\ near[s] = "closed" /\ far[s] = "closed"
    /\ sock' = s
    /\ far' = [far EXCEPT ![s] = "open"]
    /\ near' = [near EXCEPT ![s] = "open"]
    /\ cut' = [cut EXCEPT ![s] = FALSE]
    /\ up' = [up EXCEPT ![s] = <<Frame("hello", cfgToken)>>]
    /\ down' = [down EXCEPT ![s] = <<>>]
    /\ UNCHANGED <<token, known, ports, conn, registered, pending, seen,
                   cfgToken, agentPorts, saving, process, sent, faults, silent>>

\* A tick of a metrics loop; the loops also run before the welcome.
Push ==
    /\ MoreEvents
    /\ sent' = sent + 1
    /\ AgentSends(Frame("metrics", sent'))
    /\ UNCHANGED <<dashVars, far, sock, cfgToken, agentPorts, saving, process, down, cut, faults, silent>>

Reaches(s, t) ==
    /\ far[s] # "closed" /\ down[s] # <<>> /\ Head(down[s]).type = t
    /\ down' = [down EXCEPT ![s] = Tail(@)]

\* welcome, and a config-update that carries ports.
PortsReach(s) ==
    /\ Reaches(s, "welcome") \/ Reaches(s, "ports")
    /\ agentPorts' = Head(down[s]).val
    /\ UNCHANGED <<dashVars, far, sock, cfgToken, saving, process, sent, up, cut, faults, silent>>

\* A config-update that carries a token first awaits the probes ...
TokenReaches(s) ==
    /\ Reaches(s, "token")
    /\ saving' = Append(saving, Head(down[s]).val)
    /\ UNCHANGED <<dashVars, far, sock, cfgToken, agentPorts, process, sent, up, cut, faults, silent>>

\* ... then saves the token and closes the socket of that moment.
SaveToken ==
    /\ saving # <<>>
    /\ cfgToken' = Head(saving)
    /\ saving' = Tail(saving)
    /\ far' = [s \in Sockets |-> IF s = sock /\ far[s] = "open" THEN "closing" ELSE far[s]]
    /\ UNCHANGED <<dashVars, sock, agentPorts, process, sent, netVars, silent>>

\* JobRunner.run
JobReaches(s) ==
    /\ Reaches(s, "job-run")
    /\ process' = [process EXCEPT ![Head(down[s]).val] = "running"]
    /\ UNCHANGED <<dashVars, far, sock, cfgToken, agentPorts, saving, sent, up, cut, faults, silent>>

\* The exit is reported over the socket of that moment, once.
JobExits(q) ==
    /\ process[q] = "running"
    /\ process' = [process EXCEPT ![q] = "ended"]
    /\ AgentSends(Frame("resp", q))
    /\ UNCHANGED <<dashVars, far, sock, cfgToken, agentPorts, saving, sent, down, cut, faults, silent>>

FarSees(s) ==
    /\ far[s] = "open"
    /\ cut[s] \/ (near[s] # "open" /\ down[s] = <<>>)
    /\ far' = [far EXCEPT ![s] = "closing"]
    /\ UNCHANGED <<dashVars, sock, cfgToken, agentPorts, saving, process, sent, netVars, silent>>

FarCloses(s) ==
    /\ far[s] = "closing"
    /\ far' = [far EXCEPT ![s] = "closed"]
    /\ down' = [down EXCEPT ![s] = <<>>]
    /\ UNCHANGED <<dashVars, sock, cfgToken, agentPorts, saving, process, sent, up, cut, faults, silent>>

\* The agent dies and systemd starts it again: what was not saved is lost,
\* and nobody reports the exit of its commands.
AgentCrash ==
    /\ faults < MaxFaults
    /\ faults' = faults + 1
    /\ sock' = NoSocket
    /\ far' = [s \in Sockets |-> "closed"]
    /\ down' = [s \in Sockets |-> <<>>]
    /\ saving' = <<>>
    /\ process' = [q \in Requests |-> IF process[q] = "running" THEN "orphaned" ELSE process[q]]
    /\ UNCHANGED <<dashVars, cfgToken, agentPorts, sent, up, cut, silent>>

\* The network path of a connection breaks; neither end knows yet.
Cut(s) ==
    /\ faults < MaxFaults
    /\ far[s] # "closed" /\ near[s] # "closed" /\ ~cut[s]
    /\ faults' = faults + 1
    /\ cut' = [cut EXCEPT ![s] = TRUE]
    /\ up' = [up EXCEPT ![s] = <<>>] /\ down' = [down EXCEPT ![s] = <<>>]
    /\ UNCHANGED <<dashVars, agentVars, silent>>

-----------------------------------------------------------------------------
\* Steps on the dashboard that the monitor hears of.
LinkEvent == \E s \in Sockets : HelloAccepted(s) \/ MetricsArrive(s) \/ NearCloses(s)

LinkQuiet ==
    \/ RotateToken \/ PushPorts \/ EditPorts \/ ToggleSpark
    \/ Push \/ SaveToken \/ AgentCrash
    \/ \E q \in Requests : Request(q) \/ RequestTimesOut(q) \/ JobExits(q)
    \/ \E s \in Sockets :
          \/ HelloRefused(s) \/ ResponseArrives(s) \/ NearSees(s)
          \/ Connect(s) \/ PortsReach(s) \/ TokenReaches(s) \/ JobReaches(s)
          \/ FarSees(s) \/ FarCloses(s) \/ Cut(s)

LinkNext == LinkEvent \/ LinkQuiet

\* Both ends go on with their frames and closes, and the agent reconnects.
\* Which frame or close comes first is left open.
DashboardRuns ==
    \E s \in Sockets :
        \/ HelloAccepted(s) \/ HelloRefused(s) \/ MetricsArrive(s) \/ ResponseArrives(s)
        \/ NearSees(s) \/ NearCloses(s)

AgentRuns ==
    \/ SaveToken
    \/ \E s \in Sockets : PortsReach(s) \/ TokenReaches(s) \/ JobReaches(s) \/ FarSees(s) \/ FarCloses(s)

Reconnects == \E s \in Sockets : Connect(s)

LinkFairness == WF_linkVars(DashboardRuns) /\ WF_linkVars(AgentRuns) /\ WF_linkVars(Reconnects)

LinkSpec == LinkInit /\ [][LinkNext]_linkVars /\ LinkFairness

-----------------------------------------------------------------------------
LinkTypeOK ==
    /\ token \in 0..MaxEvents /\ cfgToken \in 0..MaxEvents /\ saving \in Seq(1..MaxEvents)
    /\ known \in BOOLEAN /\ silent \in BOOLEAN
    /\ ports \in 0..MaxEvents /\ agentPorts \in 0..MaxEvents
    /\ conn \in Sockets \union {NoSocket} /\ sock \in Sockets \union {NoSocket}
    /\ near \in [Sockets -> Ends] /\ far \in [Sockets -> Ends]
    /\ registered \in [Sockets -> BOOLEAN] /\ cut \in [Sockets -> BOOLEAN]
    /\ pending \in [Requests -> {"idle", "pending", "answered", "timed out", "refused"}]
    /\ process \in [Requests -> {"none", "running", "ended", "orphaned"}]
    /\ seen \in 0..MaxEvents /\ sent \in 0..MaxEvents /\ faults \in 0..MaxFaults
    /\ up \in [Sockets -> Seq([type : {"hello", "metrics", "resp"}, val : Nat \union Requests])]
    /\ down \in [Sockets -> Seq([type : {"welcome", "ports", "token", "job-run"}, val : Nat \union Requests])]

\* The registry holds exactly the connection that is welcome: one whose hello
\* was accepted and that is still open is the registered one, so the close of
\* a replaced socket that comes late never drops its successor; and what is
\* registered has said hello and has not closed.
OneConnection ==
    /\ conn # NoSocket => registered[conn] /\ near[conn] # "closed"
    /\ \A s \in Sockets : registered[s] /\ near[s] = "open" => s = conn

Linked == sock # NoSocket /\ conn = sock /\ near[sock] = "open" /\ far[sock] = "open" /\ ~cut[sock]

TokensOnTheWay ==
    {saving[i] : i \in DOMAIN saving}
    \union {f.val : f \in {down[sock][i] : i \in {j \in DOMAIN down[sock] : down[sock][j].type = "token"}}}

\* A rotation does not lock out an agent that is connected: while the link
\* stands the agent has the current token or the token is on its way to it,
\* so that its next hello is accepted.
RotationReaches == Linked => cfgToken = token \/ token \in TokensOnTheWay

\* While the link stands and nothing is on its way, the agent probes the
\* ports of the spark, unless a route changed them without telling it since
\* the last welcome.
AgentProbesPorts == Linked /\ down[sock] = <<>> /\ ~silent => agentPorts = ports

\* What the monitor shows goes back in time only if the registered
\* connection is not the one the agent uses: frames of a replaced socket
\* that are still on their way are not applied.
MetricsInOrder == [][seen' < seen => conn # sock]_linkVars

\* A request is answered only by the end of its own command: an answer that
\* comes after the timeout, or over a later connection, settles nothing else.
AnswerIsItsOwn == \A q \in Requests : pending[q] = "answered" => process[q] = "ended"

\* An agent that holds the current token and whose spark is in the registry
\* gets connected, whatever cuts, crashes and replacements went before.
MayLink == known /\ cfgToken = token /\ saving = <<>>

AgentComesBack == <>[]MayLink => <>[]Linked
=============================================================================
