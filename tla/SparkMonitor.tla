---------------------------- MODULE SparkMonitor ----------------------------
(***************************************************************************)
(* The monitor of one spark (server/sparks/SparkMonitor.js): polls of its  *)
(* metric domains and of its liveness over SSH, pushes by its agent, hot   *)
(* updates of the configuration, restarts, Hermes updates.                 *)
(*                                                                         *)
(* A poll is split at its await.  The generation it captured is also its   *)
(* token in _inflight: within one generation a domain is polled once at a  *)
(* time.  A restart makes a new monitor; it counts on with the generations *)
(* of the old one, whose late results only reach the object thrown away.   *)
(* A metric is known by where it came from and by the configuration it was *)
(* read under, which counts the generations.                               *)
(***************************************************************************)
EXTENDS Naturals

CONSTANTS
    Domains,    \* metric domains
    Pushed,     \* those the agent pushes
    OptIn,      \* those polled only if the configuration says so
    Manual,     \* those refreshDomain reads also while the agent pushes
    Hermes,     \* the domain of the Hermes checks, one of OptIn
    MaxGen,     \* bound: restarts and updates of the configuration
    MaxUpdates  \* bound: Hermes updates under way

ASSUME MonitorAssumption ==
    /\ Pushed \subseteq Domains /\ OptIn \subseteq Domains /\ Manual \subseteq Domains
    /\ Hermes \in OptIn /\ Pushed \intersect OptIn = {}
    /\ MaxGen \in Nat \ {0} /\ MaxUpdates \in Nat

VARIABLES
    running,    \* _running
    gen,        \* _runGeneration
    enabled,    \* opt-in domains the configuration switches on
    guard,      \* guard[d]: _inflight[d], the generation of the poll, or 0
    polls,      \* collections that have not returned
    metrics,    \* metrics[d]: _metrics[d]
    okay,       \* okay[d]: _metricCollectionSuccessful[d]
    transport,  \* "agent" also stands for _agentSuspended
    online,
    fresh,      \* lastOnlineOk is not older than the grace of 10 s
    checks,     \* liveness checks that have not returned
    checking,   \* _inflight.online
    fired,      \* this step called onOnlineChange
    hermes,     \* _hermes.status
    updating,   \* Hermes updates this monitor still awaits
    linked,     \* the registry has a connection of the spark's agent
    rebuilt     \* history: the monitor is newer than that connection

pollVars == <<guard, polls, metrics, okay>>
liveVars == <<online, fresh, checks, checking>>
regVars == <<linked, rebuilt>>
monVars  == <<running, gen, enabled, pollVars, transport, liveVars, fired, hermes, updating, regVars>>

Metric(src, read, put) == [src |-> src, read |-> read, put |-> put]
Nothing == Metric("none", 0, 0)

Poll(d, g)   == [dom |-> d, gen |-> g]
Check(g, was) == [gen |-> g, was |-> was]

\* Domains whose poll passes the guards of _pollDomain.
Due(on, mode) == {d \in Domains : (d \in OptIn => d \in on) /\ ~(mode = "agent" /\ d \in Pushed)}

\* A new monitor: start() begins a check and a poll of every domain.
MonitorInit ==
    /\ running = TRUE /\ gen = 1 /\ transport = "ssh"
    /\ enabled \in SUBSET OptIn
    /\ guard = [d \in Domains |-> IF d \in Due(enabled, "ssh") THEN 1 ELSE 0]
    /\ polls = {Poll(d, 1) : d \in Due(enabled, "ssh")}
    /\ metrics = [d \in Domains |-> Nothing]
    /\ okay = [d \in Domains |-> FALSE]
    /\ online = FALSE /\ fresh = FALSE /\ checks = {Check(1, FALSE)} /\ checking = 1
    /\ fired = FALSE /\ hermes = "idle" /\ updating = 0
    /\ linked = FALSE /\ rebuilt = FALSE

-----------------------------------------------------------------------------
(* Life cycle *)

\* startMonitor, for a spark without one or, after a PATCH, in place of one.
Start ==
    /\ gen < MaxGen
    /\ running' = TRUE /\ gen' = gen + 1 /\ transport' = "ssh"
    /\ enabled' \in SUBSET OptIn
    /\ guard' = [d \in Domains |-> IF d \in Due(enabled', "ssh") THEN gen' ELSE 0]
    /\ polls' = polls \union {Poll(d, gen') : d \in Due(enabled', "ssh")}
    /\ metrics' = [d \in Domains |-> Nothing]
    /\ okay' = [d \in Domains |-> FALSE]
    /\ online' = FALSE /\ fresh' = FALSE
    /\ checks' = checks \union {Check(gen', FALSE)} /\ checking' = gen'
    /\ fired' = FALSE /\ hermes' = "idle" /\ updating' = 0
    /\ rebuilt' = linked /\ UNCHANGED linked

\* stopMonitor
Stop ==
    /\ running /\ gen < MaxGen
    /\ running' = FALSE /\ gen' = gen + 1
    /\ guard' = [d \in Domains |-> 0] /\ checking' = 0
    /\ okay' = [d \in Domains |-> FALSE]
    /\ fired' = FALSE
    /\ UNCHANGED <<enabled, polls, metrics, transport, online, fresh, checks, hermes, updating, regVars>>

\* updateConfig: guards are dropped and late results will be discarded; what
\* is switched off is cleared, what is switched on is polled at once.
UpdateConfig ==
    LET switchedOn == enabled' \ enabled IN
    /\ running /\ gen < MaxGen
    /\ gen' = gen + 1
    /\ enabled' \in SUBSET OptIn
    /\ guard' = [d \in Domains |-> IF d \in switchedOn THEN gen' ELSE 0]
    /\ polls' = polls \union {Poll(d, gen') : d \in switchedOn}
    /\ metrics' = [d \in Domains |-> IF d \in OptIn \ enabled' THEN Nothing ELSE metrics[d]]
    /\ okay' = [d \in Domains |-> FALSE]
    /\ checking' = 0
    /\ hermes' = IF Hermes \in enabled' THEN hermes ELSE "idle"
    /\ fired' = FALSE
    /\ UNCHANGED <<running, transport, online, fresh, checks, updating, regVars>>

-----------------------------------------------------------------------------
(* Polls *)

\* _pollDomain; refreshDomain reads a manual domain whatever the transport.
PollBegins(d) ==
    /\ running /\ guard[d] = 0
    /\ d \in Due(enabled, transport) \union Manual
    /\ guard' = [guard EXCEPT ![d] = gen]
    /\ polls' = polls \union {Poll(d, gen)}
    /\ fired' = FALSE
    /\ UNCHANGED <<running, gen, enabled, metrics, okay, transport, liveVars, hermes, updating, regVars>>

\* Mutated form: the generation is not compared.
CurrentBug(g) == running

\* Whether a collection that returns belongs to this life of the monitor.
Current(g) == running /\ g = gen

\* Mutated form: the entry is deleted.
DeletedBug(p) == IF guard[p.dom] = p.gen THEN [d \in Domains \ {p.dom} |-> guard[d]] ELSE guard

\* The token check of the finally block.
Released(p) == IF guard[p.dom] = p.gen THEN [guard EXCEPT ![p.dom] = 0] ELSE guard

PollReturns(p, good) ==
    LET d == p.dom IN
    /\ polls' = polls \ {p}
    /\ guard' = Released(p)
    /\ metrics' = IF Current(p.gen) THEN [metrics EXCEPT ![d] = Metric("ssh", p.gen, gen)] ELSE metrics
    /\ okay' = IF Current(p.gen) THEN [okay EXCEPT ![d] = good] ELSE okay
    /\ hermes' = IF Current(p.gen) /\ d = Hermes /\ good /\ hermes # "running" THEN "idle" ELSE hermes
    /\ fired' = FALSE
    /\ UNCHANGED <<running, gen, enabled, transport, liveVars, updating, regVars>>

\* A manual refresh that throws clears the flag of whatever life it meets.
PollThrows(p, manual) ==
    /\ manual => p.dom \in Manual
    /\ polls' = polls \ {p}
    /\ guard' = Released(p)
    /\ okay' = IF manual \/ Current(p.gen) THEN [okay EXCEPT ![p.dom] = FALSE] ELSE okay
    /\ fired' = FALSE
    /\ UNCHANGED <<running, gen, enabled, metrics, transport, liveVars, hermes, updating, regVars>>

-----------------------------------------------------------------------------
(* The agent *)

\* setAgentConnected(true)
AgentConnected ==
    /\ transport' = IF running THEN "agent" ELSE transport
    /\ online' = (online \/ running)
    /\ fired' = (running /\ ~online)
    /\ linked' = TRUE /\ rebuilt' = FALSE
    /\ UNCHANGED <<running, gen, enabled, pollVars, fresh, checks, checking, hermes, updating>>

Resumed == IF running THEN "ssh" ELSE transport

\* setAgentConnected(false)
AgentDisconnected ==
    /\ linked
    /\ linked' = FALSE /\ rebuilt' = FALSE
    /\ transport' = Resumed
    /\ fired' = FALSE
    /\ UNCHANGED <<running, gen, enabled, pollVars, liveVars, hermes, updating>>

\* applyAgentData
AgentData(d) ==
    /\ linked
    /\ metrics' = IF running THEN [metrics EXCEPT ![d] = Metric("agent", gen, gen)] ELSE metrics
    /\ okay' = IF running THEN [okay EXCEPT ![d] = TRUE] ELSE okay
    /\ fresh' = (fresh \/ running)
    /\ fired' = FALSE
    /\ UNCHANGED <<running, gen, enabled, guard, polls, transport, online, checks, checking, hermes, updating, regVars>>

-----------------------------------------------------------------------------
(* Liveness of the spark *)

\* _checkOnline remembers what online was when it began.
CheckBegins ==
    /\ running /\ checking = 0
    /\ checks' = checks \union {Check(gen, online)} /\ checking' = gen
    /\ fired' = FALSE
    /\ UNCHANGED <<running, gen, enabled, pollVars, transport, online, fresh, hermes, updating, regVars>>

CheckEnds(c) ==
    /\ checks' = checks \ {c}
    /\ checking' = IF checking = c.gen THEN 0 ELSE checking
    /\ UNCHANGED <<running, gen, enabled, pollVars, transport, hermes, updating, regVars>>

\* Mutated form: the transition is left to the agent while one is connected.
ComesOnlineBug(c) == Current(c.gen) /\ ~c.was /\ transport = "ssh"

\* A check compares with what online was when it began.
ComesOnline(c) == Current(c.gen) /\ ~c.was

CheckSucceeds(c) ==
    /\ CheckEnds(c)
    /\ online' = (online \/ Current(c.gen))
    /\ fresh' = (fresh \/ Current(c.gen))
    /\ fired' = ComesOnline(c)

CheckFails(c) ==
    /\ CheckEnds(c)
    /\ online' = (online /\ ~(Current(c.gen) /\ ~fresh))
    /\ fired' = FALSE
    /\ UNCHANGED fresh

GraceEnds ==
    /\ fresh /\ fresh' = FALSE
    /\ fired' = FALSE
    /\ UNCHANGED <<running, gen, enabled, pollVars, transport, online, checks, checking, hermes, updating, regVars>>

-----------------------------------------------------------------------------
(* Hermes *)

\* runHermesUpdate
UpdateBegins ==
    /\ running /\ Hermes \in enabled /\ hermes # "running" /\ updating < MaxUpdates
    /\ hermes' = "running" /\ updating' = updating + 1
    /\ fired' = FALSE
    /\ UNCHANGED <<running, gen, enabled, pollVars, transport, liveVars, regVars>>

Settled == IF running THEN {"success", "error"} ELSE {hermes}

\* The update returns or throws; only a stopped monitor ignores it.
UpdateEnds ==
    /\ updating > 0
    /\ updating' = updating - 1
    /\ hermes' \in Settled
    /\ fired' = FALSE
    /\ UNCHANGED <<running, gen, enabled, pollVars, transport, liveVars, regVars>>

-----------------------------------------------------------------------------
\* What the monitor does by itself or for its routes.
MonitorStep ==
    \/ CheckBegins \/ GraceEnds \/ UpdateBegins \/ UpdateEnds
    \/ \E d \in Domains : PollBegins(d)
    \/ \E p \in polls :
          \/ \E good \in BOOLEAN : PollReturns(p, good)
          \/ \E manual \in BOOLEAN : PollThrows(p, manual)
    \/ \E c \in checks : CheckSucceeds(c) \/ CheckFails(c)

MonitorNext ==
    \/ Start \/ Stop \/ UpdateConfig \/ MonitorStep
    \/ AgentConnected \/ AgentDisconnected
    \/ \E d \in Pushed : AgentData(d)

\* An update has a timeout.
MonitorFairness == WF_monVars(UpdateEnds)

MonitorSpec == MonitorInit /\ [][MonitorNext]_monVars /\ MonitorFairness

-----------------------------------------------------------------------------
MonitorTypeOK ==
    /\ running \in BOOLEAN /\ gen \in 1..MaxGen
    /\ enabled \subseteq OptIn
    /\ guard \in [Domains -> 0..MaxGen] /\ checking \in 0..MaxGen
    /\ polls \subseteq [dom : Domains, gen : 1..MaxGen]
    /\ metrics \in [Domains -> [src : {"none", "ssh", "agent"}, read : 0..MaxGen, put : 0..MaxGen]]
    /\ okay \in [Domains -> BOOLEAN] /\ transport \in {"ssh", "agent"}
    /\ online \in BOOLEAN /\ fresh \in BOOLEAN /\ fired \in BOOLEAN
    /\ checks \subseteq [gen : 1..MaxGen, was : BOOLEAN]
    /\ hermes \in {"idle", "running", "success", "error"} /\ updating \in 0..MaxUpdates
    /\ linked \in BOOLEAN /\ rebuilt \in BOOLEAN

\* The freshness contract with the energy meter: a domain counts as collected
\* only if what is shown was put there since the last change of the
\* configuration and, over SSH, also read under it.  A poll that straddles
\* updateConfig or a restart can neither show old data nor vouch for it.
FreshIsCurrent == \A d \in Domains :
    okay[d] => metrics[d].put = gen /\ (metrics[d].src = "ssh" => metrics[d].read = gen)

\* Nothing read over SSH under one configuration is put under another, so a
\* list of probe results always belongs to the ports it is recorded for.
CommitsItsOwn == \A d \in Domains : metrics[d].src = "ssh" => metrics[d].read = metrics[d].put

\* One poll per domain and generation: the guard is set exactly while a poll
\* of this life is on its way, however many older ones still return.
GuardIsExact == running => \A d \in Domains :
    guard[d] # 0 <=> Poll(d, gen) \in polls

\* Every change from offline to online re-applies the clocks, also when a
\* check and a connect overlap.  (The converse does not hold: a check that
\* began before a connect fires a second time.)
ComingOnlineFires == [][~online /\ online' => fired']_monVars

\* The monitor polls over SSH what the agent pushes exactly while no agent is
\* connected: on every connect, replacement and disconnect its transport is
\* that of the registry.  A monitor made anew while the agent stays connected
\* (a PATCH of the spark, or its deletion and return) is left out: it does not
\* hear of the connection.
TransportFollows == running /\ ~rebuilt => (transport = "agent" <=> linked)

\* The same without that exception, as the comments of the class say:
\* transport is "agent" while a Spark Command Agent holds a connection.
TransportFollowsAgent == running => (transport = "agent" <=> linked)

\* The status of a Hermes update does not stay "running" for ever, whatever
\* happens to the configuration meanwhile.
HermesSettles == running /\ hermes = "running" ~> hermes # "running" \/ ~running
=============================================================================
