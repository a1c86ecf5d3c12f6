---------------------------- MODULE ServeEngine ----------------------------
(***************************************************************************)
(* The serve engine (server/serving/deployments.js) with the recipe store, *)
(* the probe ports of the sparks and the routes that drive them            *)
(* (server/index.js): start, stop and restart of a recipe, deletion and    *)
(* registration of recipes, removal and return of a spark.                 *)
(*                                                                         *)
(* A request is split where it awaits: a start first looks for the model   *)
(* on the node, then launches the driver as a remote job; a stop cancels   *)
(* the live jobs one by one, then runs the recipe's own stop verb.  The    *)
(* job of a start request is known here by its life cycle only (module     *)
(* JobLifecycle, which RemoteJobs implements).  On the node a driver is a  *)
(* process that sooner or later launches the recipe's containers.          *)
(*                                                                         *)
(* A recipe stands for its folder (one record per spark and path, its id   *)
(* is a hash of them).  Its parsed port does not change.  Saves succeed.   *)
(***************************************************************************)
CONSTANTS
    Recipes,    \* recipe folders
    Sparks,
    Ports,
    SparkOf,    \* the spark of a recipe
    PortOf,     \* recipe.meta.port
    Requests,   \* requests; also the ids of the jobs they start
    Starts,     \* the requests that start, or restart
    Stops,      \* the requests that stop, or restart
    TargetOf,   \* the recipe a request is about
    UserPorts,  \* <<spark, port>> the operator configured
    Removable,  \* bound: the sparks somebody may remove
    Cancellable, \* bound: the jobs somebody cancels through the job API
    CanCrash    \* bound: whether the dashboard may crash

ASSUME ServeAssumption ==
    /\ SparkOf \in [Recipes -> Sparks] /\ PortOf \in [Recipes -> Ports]
    /\ Requests = Starts \union Stops /\ TargetOf \in [Requests -> Recipes]
    /\ UserPorts \subseteq Sparks \X Ports
    /\ Removable \subseteq Sparks /\ Cancellable \subseteq Requests /\ CanCrash \in BOOLEAN

VARIABLES
    known,      \* sparks in the registry
    ports,      \* the llmPorts of all sparks, as <<spark, port>>
    recipe,     \* recipe[r]: its record
    desired,    \* desired[r]: deployment.desired ("none": no deployment)
    portAdded,  \* portAdded[r]: deployment.portAdded
    phase,      \* phase[q]: where the handler of q is
    added,      \* added[q]: the local portAdded of start q
    todo,       \* todo[q]: live jobs that stop q has still to cancel
    job,        \* job[q]: life-cycle state of the job of start q
    driver,     \* driver[q]: the process of that job on the node
    engine,     \* engine[r]: the containers of r are up
    raced,      \* history: recipes with a start overtaken by another request
    loose,      \* history: recipes with a process no stop could reach
    autoPort    \* history: recipes whose deployment registered their port

node    == <<driver, engine>>
store   == <<recipe, desired, portAdded>>
fleet   == <<known, ports>>
handler == <<phase, added, todo>>
hist    == <<raced, loose, autoPort>>
vars    == <<fleet, store, handler, job, node, hist>>

JobEnd == {"completed", "failed", "interrupted", "cancelled"}

PortPair(r) == <<SparkOf[r], PortOf[r]>>

\* listActiveJobsForResource
ActiveJobs(r) == {q \in Requests : TargetOf[q] = r /\ job[q] = "running"}

\* Starts of r between their checks and their record; stops of r under way.
Starting(r) == {q \in Starts : TargetOf[q] = r /\ phase[q] \in {"placing", "launching", "launched"}}
Stopping(r) == {q \in Stops : TargetOf[q] = r /\ phase[q] = "cancelling"}
Alive(r)    == {q \in Starts : TargetOf[q] = r /\ driver[q] = "alive"}

Overtaken(R) == raced \union {r \in R : Starting(r) # {}}

Init ==
    /\ known = Sparks /\ ports = UserPorts
    /\ recipe = [r \in Recipes |-> "live"]
    /\ desired = [r \in Recipes |-> "none"]
    /\ portAdded = [r \in Recipes |-> FALSE]
    /\ phase = [q \in Requests |-> "idle"]
    /\ added = [q \in Requests |-> FALSE]
    /\ todo = [q \in Requests |-> {}]
    /\ job = [q \in Requests |-> "none"]
    /\ driver = [q \in Requests |-> "absent"]
    /\ engine = [r \in Recipes |-> FALSE]
    /\ raced = {} /\ loose = {} /\ autoPort = {}

-----------------------------------------------------------------------------
(* Start *)

Goto(q, p) == phase' = [phase EXCEPT ![q] = p]

Startable(r) ==
    /\ recipe[r] = "live" /\ SparkOf[r] \in known
    /\ ActiveJobs(r) = {}

\* The checks of start(), in one step up to the first await.  A restart
\* comes here when its stop is over.
StartBegins(q) ==
    /\ \/ q \in Starts \ Stops /\ phase[q] = "idle"
       \/ phase[q] = "settled"
    /\ Goto(q, IF Startable(TargetOf[q]) THEN "placing" ELSE "done")
    /\ UNCHANGED <<fleet, store, added, todo, job, node, hist>>

\* placementCheck proved the model absent and force was not given.
StartBlocked(q) ==
    /\ phase[q] = "placing"
    /\ Goto(q, "done")
    /\ UNCHANGED <<fleet, store, added, todo, job, node, hist>>

\* ensureSparkLlmPort
Ensured(r) == IF SparkOf[r] \in known THEN ports \union {PortPair(r)} ELSE ports

\* The node may host it: ensureLlmPort, then the launch is awaited.  Nothing
\* that was checked is checked again.
StartLaunches(q) ==
    LET r == TargetOf[q] IN
    /\ phase[q] = "placing"
    /\ Goto(q, "launching")
    /\ ports' = Ensured(r)
    /\ added' = [added EXCEPT ![q] = ports' # ports]
    /\ UNCHANGED <<known, store, todo, job, node, hist>>

LaunchRuns(q) ==
    /\ phase[q] = "launching"
    /\ Goto(q, "launched")
    /\ driver' = [driver EXCEPT ![q] = "alive"]
    /\ UNCHANGED <<fleet, store, added, todo, job, engine, hist>>

\* The job is recorded and the deployment upserted; portAdded is overwritten
\* also when this start found the port already there.
Launched(q) ==
    LET r == TargetOf[q] IN
    /\ phase[q] = "launched"
    /\ Goto(q, "done")
    /\ job' = [job EXCEPT ![q] = "running"]
    /\ desired' = [desired EXCEPT ![r] = "running"]
    /\ portAdded' = [portAdded EXCEPT ![r] = added[q]]
    /\ autoPort' = IF added[q] THEN autoPort \union {r} ELSE autoPort
    /\ UNCHANGED <<fleet, recipe, added, todo, node, raced, loose>>

\* The launch threw; the driver may run all the same, with no job.
LaunchFails(q) ==
    /\ phase[q] \in {"launching", "launched"}
    /\ Goto(q, "done")
    /\ loose' = IF phase[q] = "launched" THEN loose \union {TargetOf[q]} ELSE loose
    /\ UNCHANGED <<fleet, store, added, todo, job, node, raced, autoPort>>

-----------------------------------------------------------------------------
(* Stop *)

\* Mutated form: the stop forgets the jobs that are live.
LiveJobsBug(r) == {}

\* Mutated form: it collects their resources.
LiveKeysBug(r) == {r : q \in ActiveJobs(r)}

\* The jobs a stop has to cancel, read once.
LiveJobs(r) == ActiveJobs(r)

\* desired=stopped is saved before anything runs, and the live jobs are read.
StopBegins(q) ==
    LET r == TargetOf[q]
        can == recipe[r] # "gone" /\ desired[r] # "none" /\ SparkOf[r] \in known
    IN
    /\ q \in Stops /\ phase[q] = "idle"
    /\ IF can
       THEN /\ Goto(q, "cancelling")
            /\ desired' = [desired EXCEPT ![r] = "stopped"]
            /\ todo' = [todo EXCEPT ![q] = LiveJobs(r)]
            /\ raced' = Overtaken({r})
       ELSE Goto(q, "done") /\ UNCHANGED <<desired, todo, raced>>
    /\ UNCHANGED <<fleet, recipe, portAdded, added, job, node, loose, autoPort>>

Marked(state) == IF state = "running" THEN "cancelled" ELSE state

\* A job is cancelled: it is marked so whether or not the TERM reached the
\* driver.
Kill(j) ==
    LET r == TargetOf[j] IN
    /\ job' = [job EXCEPT ![j] = Marked(@)]
    /\ \/ /\ driver' = [driver EXCEPT ![j] = IF @ = "alive" THEN "over" ELSE @]
          /\ UNCHANGED loose
       \/ /\ loose' = loose \union {r}
          /\ UNCHANGED driver

StopCancels(q) ==
    /\ phase[q] = "cancelling"
    /\ \E j \in todo[q] :
          /\ Kill(j)
          /\ todo' = [todo EXCEPT ![q] = @ \ {j}]
    /\ UNCHANGED <<fleet, store, phase, added, engine, raced, autoPort>>

\* The recipe's stop verb runs, or its exec fails (a partial stop).
StopVerb(q) ==
    LET r == TargetOf[q] IN
    /\ phase[q] = "cancelling" /\ todo[q] = {}
    /\ Goto(q, IF q \in Starts THEN "settled" ELSE "done")
    /\ \/ engine' = [engine EXCEPT ![r] = FALSE] /\ UNCHANGED loose
       \/ loose' = loose \union {r} /\ UNCHANGED engine
    /\ UNCHANGED <<fleet, store, added, todo, job, driver, raced, autoPort>>

\* POST /api/jobs/:id/cancel on a serve job
CancelJob(j) ==
    /\ j \in Cancellable /\ job[j] = "running" /\ SparkOf[TargetOf[j]] \in known
    /\ Kill(j)
    /\ UNCHANGED <<fleet, store, handler, engine, raced, autoPort>>

-----------------------------------------------------------------------------
(* The node and the job layer *)

DriverLaunches(q) ==
    /\ driver[q] = "alive" /\ ~engine[TargetOf[q]]
    /\ engine' = [engine EXCEPT ![TargetOf[q]] = TRUE]
    /\ UNCHANGED <<fleet, store, handler, job, driver, hist>>

DriverEnds(q) ==
    /\ driver[q] = "alive"
    /\ driver' = [driver EXCEPT ![q] = "over"]
    /\ UNCHANGED <<fleet, store, handler, job, engine, hist>>

\* A poll finds the driver's process gone.
JobEnds(q) ==
    /\ job[q] = "running" /\ driver[q] = "over" /\ SparkOf[TargetOf[q]] \in known
    /\ \E e \in JobEnd \ {"cancelled"} : job' = [job EXCEPT ![q] = e]
    /\ UNCHANGED <<fleet, store, handler, node, hist>>

-----------------------------------------------------------------------------
(* Recipes, sparks and the dashboard process *)

\* Mutated form: nobody else is asked.
StillUsedBug(r) == FALSE

\* dropSparkLlmPortIfUnused: somebody else runs on the port of r.
StillUsed(r) ==
    \E x \in Recipes \ {r} :
        recipe[x] # "gone" /\ PortPair(x) = PortPair(r) /\ desired[x] = "running"

\* Mutated form: the deployment is removed without a look at its jobs.
DeletableBug(r) == TRUE

\* A recipe with a deployment is deleted only if no job of its folder is
\* active; one without a deployment always.
Deletable(r) == desired[r] = "none" \/ ActiveJobs(r) = {}

DeleteRecipe(r) ==
    LET drops == portAdded[r] /\ SparkOf[r] \in known /\ ~StillUsed(r) IN
    /\ recipe[r] # "gone" /\ Deletable(r)
    /\ recipe' = [recipe EXCEPT ![r] = "gone"]
    /\ desired' = [desired EXCEPT ![r] = "none"]
    /\ portAdded' = [portAdded EXCEPT ![r] = FALSE]
    /\ ports' = IF drops THEN ports \ {PortPair(r)} ELSE ports
    /\ autoPort' = IF drops THEN {x \in autoPort : PortPair(x) # PortPair(r)} ELSE autoPort
    /\ raced' = Overtaken({x \in Recipes : x = r \/ (drops /\ PortPair(x) = PortPair(r))})
    /\ UNCHANGED <<known, handler, job, node, loose>>

\* The same folder gets the same record id again.
RegisterRecipe(r) ==
    /\ recipe[r] = "gone" /\ SparkOf[r] \in known
    /\ recipe' = [recipe EXCEPT ![r] = "live"]
    /\ UNCHANGED <<fleet, desired, portAdded, handler, job, node, hist>>

OnSpark(s) == {r \in Recipes : SparkOf[r] = s}

\* Mutated form: the recipes are marked, their deployments stay as they are.
StoppedByBug(s) == {}

\* The deployments orphanSpark turns to desired=stopped.
StoppedBy(s) == {r \in OnSpark(s) : recipe[r] # "gone" /\ desired[r] # "none"}

\* registry "remove": orphanSpark
RemoveSpark(s) ==
    /\ s \in known \cap Removable
    /\ known' = known \ {s}
    /\ ports' = {p \in ports : p[1] # s}
    /\ desired' = [r \in Recipes |-> IF r \in StoppedBy(s) THEN "stopped" ELSE desired[r]]
    /\ recipe' = [r \in Recipes |->
                    IF r \in OnSpark(s) /\ recipe[r] = "live" THEN "orphaned" ELSE recipe[r]]
    /\ raced' = Overtaken(OnSpark(s))
    /\ loose' = loose \union {r \in OnSpark(s) : engine[r] \/ Alive(r) # {}}
    /\ autoPort' = autoPort \ OnSpark(s)
    /\ UNCHANGED <<portAdded, handler, job, node>>

\* registry "add" with the same id: adoptSpark.  The ports start anew.
AddSpark(s) ==
    /\ s \notin known
    /\ known' = known \union {s}
    /\ recipe' = [r \in Recipes |->
                    IF r \in OnSpark(s) /\ recipe[r] = "orphaned" THEN "live" ELSE recipe[r]]
    /\ UNCHANGED <<ports, desired, portAdded, handler, job, node, hist>>

\* The process dies and comes back: stores and job records are on disk, the
\* handlers are gone (reconcileOnBoot starts nothing).
Crash ==
    /\ CanCrash
    /\ phase' = [q \in Requests |-> IF phase[q] = "idle" THEN "idle" ELSE "done"]
    /\ loose' = loose \union {r \in Recipes : Stopping(r) # {}}
                      \union {TargetOf[q] : q \in {x \in Starts : phase[x] = "launched"}}
    /\ UNCHANGED <<fleet, store, added, todo, job, node, raced, autoPort>>

-----------------------------------------------------------------------------
Next ==
    \/ \E q \in Requests :
          \/ StartBegins(q) \/ StartBlocked(q) \/ StartLaunches(q)
          \/ LaunchRuns(q) \/ Launched(q) \/ LaunchFails(q)
          \/ StopBegins(q) \/ StopCancels(q) \/ StopVerb(q) \/ CancelJob(q)
          \/ DriverLaunches(q) \/ DriverEnds(q) \/ JobEnds(q)
    \/ \E r \in Recipes : DeleteRecipe(r) \/ RegisterRecipe(r)
    \/ \E s \in Sparks : RemoveSpark(s) \/ AddSpark(s)
    \/ Crash

Spec == Init /\ [][Next]_vars

-----------------------------------------------------------------------------
(* Properties.  `raced` names the recipes for which a start was overtaken   *)
(* by a stop, a deletion or a removal while it awaited the node: start()    *)
(* checks nothing again, and what is promised below is lost for them.       *)

\* Every variable stays in its type.
TypeOK ==
    /\ known \subseteq Sparks /\ ports \subseteq Sparks \X Ports
    /\ recipe \in [Recipes -> {"live", "orphaned", "gone"}]
    /\ desired \in [Recipes -> {"none", "stopped", "running"}]
    /\ portAdded \in [Recipes -> BOOLEAN]
    /\ phase \in [Requests -> {"idle", "placing", "launching", "launched",
                               "cancelling", "settled", "done"}]
    /\ added \in [Requests -> BOOLEAN]
    /\ todo \in [Requests -> SUBSET Requests]
    /\ job \in [Requests -> {"none", "running"} \union JobEnd]
    /\ driver \in [Requests -> {"absent", "alive", "over"}]
    /\ engine \in [Recipes -> BOOLEAN]
    /\ raced \subseteq Recipes /\ loose \subseteq Recipes /\ autoPort \subseteq Recipes

\* A stopped recipe stays down: once its stop is over no driver is left that
\* could launch containers later, and none are up.  It takes the cancels
\* before the stop verb, and the list of live jobs to be complete.
StopIsFinal ==
    \A r \in Recipes \ (raced \union loose) :
        (desired[r] = "stopped" /\ Stopping(r) = {} /\ Starting(r) = {})
            => ~engine[r] /\ Alive(r) = {}

\* No driver job without a deployment to stop it by, and a deleted recipe
\* has neither.
DeletedIsIdle ==
    \A r \in Recipes \ raced :
        /\ recipe[r] = "gone" => desired[r] = "none"
        /\ desired[r] = "none" => ActiveJobs(r) = {}

\* Nothing on a removed spark is wanted: its recipes are orphans and no
\* deployment of theirs is desired=running (it would start to route again
\* when the spark returns).
OrphanIsStopped ==
    \A r \in Recipes \ raced :
        SparkOf[r] \notin known => recipe[r] # "live" /\ desired[r] # "running"

\* The port of a recipe that should run is probed, although recipes share
\* ports and the deletion of another one drops them.
DesiredIsProbed ==
    \A r \in Recipes \ raced : desired[r] = "running" => PortPair(r) \in ports

\* The engine moves jobs only as the job layer promises.
Lifecycle == INSTANCE JobLifecycle WITH Jobs <- Requests, out <- job
JobsFollowLifecycle == Lifecycle!Spec

\* dropSparkLlmPortIfUnused: a port is kept while others use it, also when
\* one of them is just starting.  It does not hold.
UsedPortIsProbed ==
    \A r \in Recipes :
        (desired[r] = "running" /\ SparkOf[r] \in known) => PortPair(r) \in ports

\* DELETE /api/serve/recipes/:id: a port the deployment registered leaves
\* with it.  It does not hold after a second start.
AddedPortLeaves ==
    \A r \in autoPort \ raced :
        recipe[r] = "gone" => StillUsed(r) \/ PortPair(r) \notin ports
=============================================================================
