----------------------------- MODULE FleetPower -----------------------------
(***************************************************************************)
(* Power management (the /shutdown and /wake routes of server/index.js,    *)
(* server/shutdown.js, server/wol.js) and the end of the dashboard's own   *)
(* process (shutdown at the end of index.js).  Local is the node that the  *)
(* dashboard runs on: when it goes down, the process goes with it, and     *)
(* with the process every request that is under way.                       *)
(*                                                                         *)
(* A remote node is shut down over ssh, by a command that looks for the    *)
(* helper, checks that it may run it, and starts it in the background; the *)
(* connection may break at any point.  The local one is shut down after    *)
(* the request was answered, in a setImmediate.  Wake packets are UDP.     *)
(***************************************************************************)
EXTENDS Naturals, Sequences, FiniteSets

CONSTANTS
    Remotes, Local,    \* the nodes; Remotes in the order of the registry
    Helpless,          \* nodes without the helper, or without the right to run it
    Overridden,        \* nodes whose MAC address was set by a user
    Calls,             \* requests
    MaxCuts            \* bound: connections that break and packets that are lost

ASSUME PowerAssumption ==
    /\ Remotes \in Seq(STRING) /\ Local \notin {Remotes[i] : i \in DOMAIN Remotes}
    /\ MaxCuts \in Nat

VARIABLES
    host,       \* host[s]: "on", "halting", "off" or "booting"
    seen,       \* seen[s]: monitor.online
    detected,   \* nodes whose MAC address the collectors have found
    server,     \* the process: "up", "closing" (awaits the dispatcher), "draining", "down"
    call,       \* call[c]: a request
    immediate,  \* the setImmediate of a local shutdown is queued
    cuts,
    told,       \* history: nodes whose helper was started
    cut         \* history: nodes whose last connection broke after the command was sent

powerVars == <<host, seen, detected, server, call, immediate, cuts, told, cut>>

Units == {Remotes[i] : i \in DOMAIN Remotes} \cup {Local}

\* Remotes first, local last.
ShutdownOrder == Remotes \o <<Local>>

NoResults == [s \in Units |-> "none"]
NotAsked == [kind |-> "none", todo |-> <<>>, ssh |-> "none", result |-> NoResults]

CallIsOver == [NotAsked EXCEPT !.kind = "over"]

PowerInit ==
    /\ host \in [Units -> {"on", "off"}] /\ host[Local] = "on"
    /\ seen = [s \in Units |-> host[s] = "on"]
    /\ detected = {} /\ server = "up"
    /\ call = [c \in Calls |-> NotAsked]
    /\ immediate = FALSE /\ cuts = 0 /\ told = {} /\ cut = {}

\* The server takes requests, and the monitors run, until the process drains.
Watches == server \in {"up", "closing"}

\* What becomes of a node, and of the process if it is the process's own.
Process(next) ==
    /\ server' = next
    /\ IF next = "down"
       THEN /\ call' = [c \in Calls |-> IF call[c].kind = "none" THEN call[c] ELSE CallIsOver]
            /\ immediate' = FALSE
       ELSE UNCHANGED <<call, immediate>>

-----------------------------------------------------------------------------
(* The nodes and their monitors *)

Reachable(s) == host[s] \in {"on", "halting"}

\* A check: whether the node answers, and the address of its interface.
Watched(s) ==
    /\ Watches
    /\ seen' = [seen EXCEPT ![s] = Reachable(s)]
    /\ detected' = IF Reachable(s) THEN detected \cup ({s} \ Overridden) ELSE detected
    /\ <<seen, detected>>' # <<seen, detected>>
    /\ UNCHANGED <<host, server, call, immediate, cuts, told, cut>>

Halts(s) ==
    /\ host[s] = "halting" /\ host' = [host EXCEPT ![s] = "off"]
    /\ IF s = Local THEN Process("down") ELSE UNCHANGED <<server, call, immediate>>
    /\ UNCHANGED <<seen, detected, cuts, told, cut>>

\* The local node is not woken by the dashboard that it carries.
Boots(s) ==
    /\ host[s] = "booting" /\ host' = [host EXCEPT ![s] = "on"]
    /\ UNCHANGED <<seen, detected, server, call, immediate, cuts, told, cut>>

-----------------------------------------------------------------------------
(* Shutdown *)

Asks(c, kind, todo) ==
    /\ Watches /\ call[c].kind = "none"
    /\ call' = [call EXCEPT ![c] = [NotAsked EXCEPT !.kind = kind, !.todo = todo]]
    /\ UNCHANGED <<host, seen, detected, server, immediate, cuts, told, cut>>

ShutdownAll(c) == Asks(c, "all", ShutdownOrder)
ShutdownOne(c, s) == Asks(c, "one", <<s>>)

\* A node was handled: its result is known, and the next one is due.
Handled(c, s, result) ==
    [call EXCEPT ![c].todo = Tail(@), ![c].ssh = "none", ![c].result[s] = result]

\* The local node is acknowledged at once, and its shutdown queued; a batch
\* skips who is not online.
HandlesHere(c) ==
    LET s == Head(call[c].todo) IN
    /\ call[c].kind \in {"all", "one"} /\ call[c].todo # <<>> /\ call[c].ssh = "none"
    /\ IF call[c].kind = "all" /\ ~seen[s]
       THEN call' = Handled(c, s, "skipped") /\ UNCHANGED immediate
       ELSE IF s = Local
       THEN call' = Handled(c, s, "ok") /\ immediate' = TRUE
       ELSE call' = [call EXCEPT ![c].ssh = "sent"] /\ UNCHANGED immediate
    /\ UNCHANGED <<host, seen, detected, server, cuts, told, cut>>

\* The command reaches the node: test -x, sudo -n --check, and then the helper
\* in the background; what fails before that is an answer.
MayRun(s) == s \notin Helpless

CommandRuns(c) ==
    LET s == Head(call[c].todo) IN
    /\ call[c].ssh = "sent" /\ host[s] = "on"
    /\ call' = [call EXCEPT ![c].ssh = IF MayRun(s) THEN "started" ELSE "refused"]
    /\ IF s \in Helpless THEN UNCHANGED <<host, told>>
       ELSE host' = [host EXCEPT ![s] = "halting"] /\ told' = told \cup {s}
    /\ UNCHANGED <<seen, detected, server, immediate, cuts, cut>>

\* The exit of the command; nohup lets the session end before the node does.
CommandReturns(c) ==
    LET s == Head(call[c].todo) IN
    /\ call[c].ssh \in {"started", "refused"}
    /\ call' = Handled(c, s, IF call[c].ssh = "started" THEN "ok" ELSE "failed")
    /\ UNCHANGED <<host, seen, detected, server, immediate, cuts, told, cut>>

\* No route, refused or timed out: an error, also if the command was started.
\* A session that is closed or reset counts as a node that goes down.
Benign(s, how) == how = "reset"

CommandFails(c, how) ==
    LET s == Head(call[c].todo) IN
    /\ call[c].ssh # "none"
    /\ \/ host[s] # "on" /\ UNCHANGED <<cuts, cut>>
       \/ host[s] = "on" /\ cuts < MaxCuts /\ cuts' = cuts + 1
          /\ cut' = IF how = "reset" THEN cut \cup {s} ELSE cut
    \* A node that is off when the command is sent cannot reset it.
    /\ how = "reset" => Reachable(s) \/ call[c].ssh # "sent"
    /\ call' = Handled(c, s, IF Benign(s, how) THEN "ok" ELSE "failed")
    /\ UNCHANGED <<host, seen, detected, server, immediate, told>>

\* The queued local shutdown: spawned in the host's namespace, unheard.
LocalShutdown ==
    /\ immediate /\ immediate' = FALSE
    /\ IF Local \notin Helpless /\ host[Local] = "on"
       THEN host' = [host EXCEPT ![Local] = "halting"] /\ told' = told \cup {Local}
       ELSE UNCHANGED <<host, told>>
    /\ UNCHANGED <<seen, detected, server, call, cuts, cut>>

-----------------------------------------------------------------------------
(* Wake *)

\* effectiveMac
Addressed(s) == s \in Overridden \cup detected

WakeAll(c) == Asks(c, "wake", Remotes)
WakeOne(c, s) == Asks(c, "wake", <<s>>)

\* sendWol: a packet that was sent may be lost; one that reaches a node that is
\* off starts it.
Wakes(c) ==
    LET s == Head(call[c].todo) IN
    /\ call[c].kind = "wake" /\ call[c].todo # <<>>
    /\ call' = Handled(c, s, IF Addressed(s) THEN "ok" ELSE "failed")
    /\ \/ /\ Addressed(s) /\ host[s] = "off"
          /\ host' = [host EXCEPT ![s] = "booting"] /\ UNCHANGED cuts
       \/ /\ Addressed(s) /\ host[s] = "off" /\ cuts < MaxCuts
          /\ cuts' = cuts + 1 /\ UNCHANGED host
       \/ ~(Addressed(s) /\ host[s] = "off") /\ UNCHANGED <<host, cuts>>
    /\ UNCHANGED <<seen, detected, server, immediate, told, cut>>

Answered(c) == call[c].kind \in {"all", "one", "wake"} /\ call[c].todo = <<>>

Answers(c) ==
    /\ Answered(c)
    /\ call' = [call EXCEPT ![c] = CallIsOver]
    /\ UNCHANGED <<host, seen, detected, server, immediate, cuts, told, cut>>

-----------------------------------------------------------------------------
(* The end of the process *)

\* SIGTERM, of an operator or of the host that goes down; a second one does
\* nothing.  Benchmarks are finalized and files flushed, and the dispatcher of
\* the streams is closed.
Signal ==
    /\ server = "up" /\ Process("closing")
    /\ UNCHANGED <<host, seen, detected, cuts, told, cut>>

\* The dispatcher is closed, or destroyed after 2 s: monitors, the trace store
\* and the sockets of the pages follow, and the server takes no more requests.
Closes ==
    /\ server = "closing" /\ Process("draining")
    /\ UNCHANGED <<host, seen, detected, cuts, told, cut>>

\* server.close has waited for the requests, or the safety net of 3 s exits.
Exits ==
    /\ server = "draining" /\ Process("down")
    /\ UNCHANGED <<host, seen, detected, cuts, told, cut>>

-----------------------------------------------------------------------------
PowerNext ==
    \/ \E s \in Units : Watched(s) \/ Halts(s) \/ Boots(s)
    \/ \E c \in Calls :
         \/ ShutdownAll(c) \/ WakeAll(c) \/ HandlesHere(c)
         \/ CommandRuns(c) \/ CommandReturns(c) \/ Wakes(c) \/ Answers(c)
         \/ \E s \in Units : ShutdownOne(c, s) \/ WakeOne(c, s)
         \/ \E how \in {"reset", "timeout"} : CommandFails(c, how)
    \/ LocalShutdown
    \/ Signal \/ Closes \/ Exits

CommandsEnd == \E c \in Calls :
    CommandRuns(c) \/ CommandReturns(c) \/ \E how \in {"reset", "timeout"} : CommandFails(c, how)
LoopsRun == \E c \in Calls : HandlesHere(c) \/ Wakes(c) \/ Answers(c)
NodesMove == \E s \in Units : Halts(s) \/ Boots(s)

\* Commands return or time out, loops go on, nodes go where they were sent, and
\* a process that was told to end ends: timers and awaits with a bound.
Settles == CommandsEnd \/ LoopsRun \/ NodesMove \/ LocalShutdown \/ Closes \/ Exits
PowerFairness == WF_powerVars(Settles)

-----------------------------------------------------------------------------
PowerTypeOK ==
    /\ host \in [Units -> {"on", "halting", "off", "booting"}]
    /\ seen \in [Units -> BOOLEAN] /\ detected \subseteq Units
    /\ server \in {"up", "closing", "draining", "down"} /\ immediate \in BOOLEAN
    /\ cuts \in 0..MaxCuts /\ told \subseteq Units /\ cut \subseteq Units
    /\ \A c \in Calls :
        /\ call[c].kind \in {"none", "all", "one", "wake", "over"}
        /\ call[c].ssh \in {"none", "sent", "started", "refused"}
        /\ call[c].result \in [Units -> {"none", "ok", "failed", "skipped"}]

\* A batch takes its own host down only when every other node has a result: none
\* is skipped because the dashboard went first ("Remotes first, local last").
LocalLast ==
    \A c \in Calls : call[c].kind = "all" /\ call[c].result[Local] # "none" =>
        \A s \in Units : call[c].result[s] # "none"

\* A remote node that is reported as going down was told to, unless the
\* connection was reset by something else.
OkWasTold ==
    \A c \in Calls : call[c].kind \in {"all", "one"} =>
        \A s \in Units \ {Local} : call[c].result[s] = "ok" => s \in told \cup cut

\* Every request is answered, unless the process ends; a process that was told
\* to end does, whatever is under way.  (A request is made once.)
AtRest == server \in {"up", "down"} /\ \A c \in Calls : call[c].kind \in {"none", "over"}
CallsEnd == []<>AtRest
=============================================================================
