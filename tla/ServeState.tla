----------------------------- MODULE ServeState -----------------------------
(***************************************************************************)
(* What the dashboard says of one deployment: ServeEngine.stateFor of      *)
(* server/serving/deployments.js joins the driver job, the row that the    *)
(* monitor has of the recipe's port, and a probe of the containers with a  *)
(* cache of five seconds.  All three may be old.  Rows carry no port: they *)
(* are matched with the configured ports by their position.  While an      *)
(* agent is connected they stay as they are: the monitor suspends its      *)
(* polls, and the agent's pushes of rows carry no domain, so that the      *)
(* monitor ignores them.                                                   *)
(*                                                                         *)
(* Every row here remembers the port it is of, every probe what ran when   *)
(* it was taken; the code knows neither.  The node (containers, who        *)
(* answers on the ports) and the users are the environment.                *)
(***************************************************************************)
EXTENDS Naturals, Sequences, SequencesExt

CONSTANTS
    Port,            \* the port of the recipe
    PortLists,       \* the lists of ports that users may configure
    Keyed,           \* TRUE iff the engine answers only to requests with its key
    MaxJobs,         \* bound on starts
    MaxChanges       \* bound on what happens on the node and on edits of the ports

AllPorts == UNION {ToSet(l) : l \in PortLists}

ASSUME StateAssumption ==
    /\ <<Port>> \in PortLists
    /\ \A l \in PortLists : l \in Seq(ToSet(l)) /\ IsInjective(l)
    /\ MaxJobs \in Nat /\ MaxChanges \in Nat

VARIABLES
    agent,       \* TRUE iff the spark's agent is connected
    head,        \* TRUE iff the recipe's container of the head runs
    worker,      \* TRUE iff that of the worker does
    onPort,      \* who answers on each port: "none", "own", by the recipe's served name, or "other"
    desired,     \* desired of the deployment
    job,         \* the status of each driver job, the last one being the deployment's
    ports,       \* spark.llmPorts
    rows,        \* metrics.llm
    listed,      \* the ports when the rows were made
    cache,       \* _probeCache
    fresh,       \* TRUE iff the cached probe is younger than its TTL
    read,        \* the call of stateFor that awaits its probe
    report,      \* the joined state that this step answers, with what it was joined from
    changes

stateVars == <<agent, head, worker, onPort, desired, job, ports, rows, listed,
               cache, fresh, read, report, changes>>

world == <<head, worker, onPort>>

Statuses == {"running", "failed", "completed"}
States == {"healthy", "healthy-keyed", "foreign", "starting", "stopping",
           "up", "failed", "unknown", "stopped"}

Row(p) == [port |-> p, up |-> onPort[p] # "none", own |-> onPort[p] = "own"]
AllRows == [port : AllPorts, up : BOOLEAN, own : BOOLEAN]

NoRow   == [port |-> Port, up |-> FALSE, own |-> FALSE]
NoProbe == [head |-> FALSE, worker |-> FALSE, answer |-> "none", reach |-> "offline"]
NoReport == [state |-> "none", desired |-> "stopped", row |-> NoRow, aligned |-> TRUE, probe |-> NoProbe]
NoRead  == [busy |-> FALSE, job |-> 0, row |-> NoRow, aligned |-> TRUE]

-----------------------------------------------------------------------------
\* A row belongs to the port at its position in the list of now.
RowOf(p) ==
    IF \E i \in DOMAIN rows : i \in DOMAIN ports /\ ports[i] = p
    THEN rows[CHOOSE i \in DOMAIN rows : i \in DOMAIN ports /\ ports[i] = p]
    ELSE NoRow

\* What a probe may find out: "all", the "head" alone when neither the peer nor
\* the hop to it works, everything but the head's containers when its docker
\* refuses, nothing when the spark is offline.
Reaches == {"all", "head", "docker", "offline"}

Probe(reach) == [head |-> head, worker |-> worker, answer |-> onPort[Port], reach |-> reach]

\* Whether the probe's command got a 200 of /health, or a 401 for want of the key.
Health(probe)    == probe.reach # "offline" /\ probe.answer # "none"
Health401(probe) == Health(probe) /\ Keyed /\ probe.answer = "own"
Health200(probe) == Health(probe) /\ ~Health401(probe)

\* rankStates: a rank that could not be asked is an error, not a running one.
SomeRankRuns(probe) ==
    \/ probe.reach \in {"all", "head"} /\ probe.head
    \/ probe.reach \in {"all", "docker"} /\ probe.worker

\* The state is unknown if the head's containers are; the worker's may hide.
RanksUnknownBug(probe) == probe.reach = "offline"

RanksUnknown(probe) == probe.reach \in {"docker", "offline"}

JobIs(j, statuses) == j # 0 /\ job[j] \in statuses

\* joinServeState, in the order of its tests.  The model ids of row and probe
\* are taken together: one that fits is enough.
ApiUp(row, probe)  == row.up \/ Health200(probe)
IdFits(row, probe) == (row.up /\ row.own) \/ (Health200(probe) /\ probe.answer = "own")

Joined(j, row, probe) ==
    IF JobIs(j, {"running"}) /\ desired = "stopped" THEN "stopping"
    ELSE IF ApiUp(row, probe) THEN IF IdFits(row, probe) THEN "healthy" ELSE "foreign"
    ELSE IF JobIs(j, {"running"}) THEN "starting"
    ELSE IF Health401(probe) /\ SomeRankRuns(probe) THEN "healthy-keyed"
    ELSE IF RanksUnknown(probe) THEN "unknown"
    ELSE IF SomeRankRuns(probe) THEN IF desired = "stopped" THEN "stopping" ELSE "up"
    ELSE IF desired = "running" /\ JobIs(j, {"failed"}) THEN "failed"
    ELSE "stopped"

-----------------------------------------------------------------------------
StateInit ==
    /\ agent = FALSE
    /\ head = FALSE /\ worker = FALSE
    /\ onPort = [p \in AllPorts |-> "none"]
    /\ desired = "stopped" /\ job = <<>>
    /\ ports = <<Port>> /\ rows = <<>> /\ listed = <<Port>>
    /\ cache = NoProbe /\ fresh = FALSE
    /\ read = NoRead
    /\ report = NoReport
    /\ changes = 0

Change == changes < MaxChanges /\ changes' = changes + 1

\* Only the step that answers a request has a report.
Silent == report' = NoReport

-----------------------------------------------------------------------------
\* The node.

\* The driver, while it lives, brings up the containers, and later the engine
\* answers.
Containers ==
    /\ JobIs(Len(job), {"running"}) /\ ~(head /\ worker)
    /\ head' = TRUE /\ worker' = TRUE
    /\ UNCHANGED <<agent, onPort, desired, job, ports, rows, listed, cache, fresh, read, changes>>
    /\ Silent

Answers ==
    /\ head /\ worker /\ onPort[Port] = "none"
    /\ onPort' = [onPort EXCEPT ![Port] = "own"]
    /\ UNCHANGED <<agent, head, worker, desired, job, ports, rows, listed, cache, fresh, read, changes>>
    /\ Silent

\* Containers die, one or both, and the engine with any of them.
Dies ==
    /\ Change
    /\ head' \in {FALSE, head} /\ worker' \in {FALSE, worker}
    /\ <<head', worker'>> # <<head, worker>>
    /\ onPort' = [onPort EXCEPT ![Port] = IF @ = "own" THEN "none" ELSE @]
    /\ UNCHANGED <<agent, desired, job, ports, rows, listed, cache, fresh, read>>
    /\ Silent

\* Another server takes or leaves a port, it may serve the same name.
Other(p, a) ==
    /\ Change /\ a # onPort[p] /\ (p = Port => head = FALSE)
    /\ onPort' = [onPort EXCEPT ![p] = a]
    /\ UNCHANGED <<agent, head, worker, desired, job, ports, rows, listed, cache, fresh, read>>
    /\ Silent

\* The driver ends, known at the next poll of its job.
JobEnds(s) ==
    /\ JobIs(Len(job), {"running"}) /\ s # "running"
    /\ job' = [job EXCEPT ![Len(job)] = s]
    /\ UNCHANGED <<agent, world, desired, ports, rows, listed, cache, fresh, read, changes>>
    /\ Silent

-----------------------------------------------------------------------------
\* The deployment.

Start ==
    /\ Len(job) < MaxJobs /\ ~JobIs(Len(job), {"running"})
    /\ job' = Append(job, "running")
    /\ desired' = "running"
    /\ UNCHANGED <<agent, world, ports, rows, listed, cache, fresh, read, changes>>
    /\ Silent

\* The driver is cancelled; the stop verb removes the containers, or fails.
Stop(works) ==
    /\ desired = "running" /\ desired' = "stopped"
    /\ job' = IF JobIs(Len(job), {"running"}) THEN [job EXCEPT ![Len(job)] = "failed"] ELSE job
    /\ head' = (head /\ ~works) /\ worker' = (worker /\ ~works)
    /\ onPort' = IF works /\ onPort[Port] = "own" THEN [onPort EXCEPT ![Port] = "none"] ELSE onPort
    /\ UNCHANGED <<agent, ports, rows, listed, cache, fresh, read, changes>>
    /\ Silent

-----------------------------------------------------------------------------
\* Rows.

\* The agent connects, or its connection closes.
Agent ==
    /\ Change
    /\ agent' = ~agent
    /\ UNCHANGED <<world, desired, job, ports, rows, listed, cache, fresh, read>>
    /\ Silent

\* updateConfig of the monitor: a new list of ports, the rows stay.
SetPorts(l) ==
    /\ Change /\ l # ports
    /\ ports' = l
    /\ UNCHANGED <<agent, world, desired, job, rows, listed, cache, fresh, read>>
    /\ Silent

\* _pollDomain("llm"), suspended while the agent is connected.
PollsBug == agent
Polls == ~agent

PollRows ==
    /\ Polls
    /\ rows' = [i \in DOMAIN ports |-> Row(ports[i])]
    /\ listed' = ports
    /\ <<rows', listed'>> # <<rows, listed>>
    /\ UNCHANGED <<agent, world, desired, job, ports, cache, fresh, read, changes>>
    /\ Silent

-----------------------------------------------------------------------------
\* stateFor.

Aligned == listed = ports

Says(j, row, aligned, probe) ==
    report' = [state |-> Joined(j, row, probe), desired |-> desired, row |-> row,
               aligned |-> aligned, probe |-> probe]

\* Without a forced refresh a young probe is used again.  The row is read now,
\* the job is the deployment's last one of now: both before the probe.
UsesCache ==
    /\ ~read.busy /\ fresh
    /\ Says(Len(job), RowOf(Port), Aligned, cache)
    /\ UNCHANGED <<agent, world, desired, job, ports, rows, listed, cache, fresh, read, changes>>

ReadBegins ==
    /\ ~read.busy
    /\ read' = [busy |-> TRUE, job |-> Len(job), row |-> RowOf(Port), aligned |-> Aligned]
    /\ UNCHANGED <<agent, world, desired, job, ports, rows, listed, cache, fresh, changes>>
    /\ Silent

\* A probe of a spark that does not answer is not cached, one that docker
\* refused is.
ReadReturns(reach) ==
    /\ read.busy /\ read' = NoRead
    /\ Says(read.job, read.row, read.aligned, Probe(reach))
    /\ IF reach = "offline" THEN UNCHANGED <<cache, fresh>>
       ELSE cache' = Probe(reach) /\ fresh' = TRUE
    /\ UNCHANGED <<agent, world, desired, job, ports, rows, listed, changes>>

Expires ==
    /\ fresh /\ fresh' = FALSE
    /\ cache' = NoProbe
    /\ UNCHANGED <<agent, world, desired, job, ports, rows, listed, read, changes>>
    /\ Silent

StateNext ==
    \/ Containers \/ Answers \/ Dies
    \/ \E p \in AllPorts, a \in {"none", "own", "other"} : Other(p, a)
    \/ \E s \in Statuses : JobEnds(s)
    \/ Start
    \/ \E works \in BOOLEAN : Stop(works)
    \/ \E l \in PortLists : SetPorts(l)
    \/ Agent \/ PollRows
    \/ UsesCache \/ ReadBegins \/ Expires
    \/ \E reach \in Reaches : ReadReturns(reach)

\* The monitor's interval, the cache's clock and the timeouts of the probes.
StateFairness ==
    /\ WF_stateVars(PollRows) /\ WF_stateVars(Expires)
    /\ WF_stateVars(\E reach \in Reaches : ReadReturns(reach))

-----------------------------------------------------------------------------
StateTypeOK ==
    /\ agent \in BOOLEAN /\ head \in BOOLEAN /\ worker \in BOOLEAN
    /\ onPort \in [AllPorts -> {"none", "own", "other"}]
    /\ desired \in {"running", "stopped"}
    /\ job \in Seq(Statuses)
    /\ ports \in PortLists /\ listed \in PortLists
    /\ rows \in Seq(AllRows)
    /\ fresh \in BOOLEAN
    /\ read.busy \in BOOLEAN /\ read.job \in 0..Len(job) /\ read.row \in AllRows
    /\ report.state \in States \cup {"none"}

\* What is called stopped or failed had no running container when its probe
\* was taken, but for a worker that could not be asked; a probe that failed
\* is "unknown" instead.
StoppedIsHonest ==
    report.state \in {"stopped", "failed"} =>
        /\ ~report.probe.head
        /\ (report.probe.worker => report.probe.reach = "head")

\* What is called healthy answered by its own name on its own port, by its row
\* or by its probe, unless the row may be of another port: the list of ports
\* was edited since the rows were made.
HealthyAnswered ==
    report.state = "healthy" /\ report.aligned =>
        \/ report.row.own /\ report.row.port = Port
        \/ report.probe.answer = "own"

\* A deployment that somebody stopped is never said to have failed, to start
\* or to be up: its remains are "stopping".
StopOutranks ==
    report.desired = "stopped" => report.state \notin {"failed", "starting", "up"}

\* The documented way of rows, over the agent if there is one: an engine that
\* stays down ends being called healthy.
Down == onPort[Port] = "none"
DownIsSeen == <>[]Down => <>[][report'.state # "healthy"]_stateVars

\* It does when no agent keeps the rows from being polled.
DownIsPolled == <>[](Down /\ ~agent) => <>[][report'.state # "healthy"]_stateVars
=============================================================================
