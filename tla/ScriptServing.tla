--------------------------- MODULE ScriptServing ---------------------------
(***************************************************************************)
(* Serving scripts on one spark: the start, stop and status routes of      *)
(* server/index.js and the shell commands server/serving/serving.js builds *)
(* for them, which keep a pid file per script on the node.                 *)
(*                                                                         *)
(* The dashboard awaits a command; on its timeout the command runs on.  On *)
(* the node a start looks for a live pid, launches, and writes the pid     *)
(* file; a stop looks for a live pid, kills its group, and removes the     *)
(* file: three steps each.  A process stands for the start that launched   *)
(* it, a port for the start that asked for it.  Uploads and logs are left  *)
(* out, and so are the old runs directory and reused pids.                 *)
(***************************************************************************)
EXTENDS Naturals, Sequences, FiniteSets

CONSTANTS
    Starts,     \* requests to start a script
    Stops,      \* requests to stop one
    Scripts,    \* scripts run by their path on the node
    ScriptOf,   \* ScriptOf[r]: script of start r
    None,
    KeepPaths,  \* PATH_SCRIPTS_KEEP
    MaxRestarts \* bound: restarts of the dashboard

ASSUME ServingAssumption ==
    /\ ScriptOf \in [Starts -> Scripts] /\ None \notin Starts \union Scripts
    /\ KeepPaths \in Nat \ {0} /\ MaxRestarts \in Nat

VARIABLES
    stage,      \* stage[r]: the handler of start r
    starting,   \* startingSparks
    runPort,    \* run-ports file
    paths,      \* path-scripts file, the oldest entry first
    shell,      \* shell[r]: the command of start r on the node
    alive,      \* processes that run
    pid,        \* pid[k]: pid file of script k
    halting,    \* halting[x]: script that stop x is for
    haltStage,  \* haltStage[x]: the handler of stop x
    halt,       \* halt[x]: the command of stop x on the node
    found,      \* found[x]: the process it found
    restarts,
    crossed     \* history: starts that overlapped a stop or another start of their script

dashboard   == <<stage, starting, runPort, paths>>
node        == <<shell, alive, pid>>
stopVars    == <<halting, haltStage, halt, found>>
servingVars == <<dashboard, node, stopVars, restarts, crossed>>

ServingInit ==
    /\ stage = [r \in Starts |-> "idle"] /\ starting = {}
    /\ runPort = [k \in Scripts |-> None] /\ paths = <<>>
    /\ shell = [r \in Starts |-> "none"] /\ alive = {} /\ pid = [k \in Scripts |-> None]
    /\ halting = [x \in Stops |-> None] /\ haltStage = [x \in Stops |-> "idle"]
    /\ halt = [x \in Stops |-> "none"] /\ found = halting
    /\ restarts = 0 /\ crossed = {}

StartsUnderway(k) ==
    {r \in Starts : ScriptOf[r] = k /\ (stage[r] = "sent" \/ shell[r] \in {"sent", "launched"})}
StopsUnderway(k) ==
    {x \in Stops : halting[x] = k /\ (haltStage[x] = "sent" \/ halt[x] \in {"sent", "found", "killed"})}

-----------------------------------------------------------------------------
(* POST /api/serving/start *)

StartBegins(r) ==
    /\ stage[r] = "idle"
    /\ stage' = [stage EXCEPT ![r] = "placing"]
    /\ UNCHANGED <<starting, runPort, paths, node, stopVars, restarts, crossed>>

\* The model is not on the node, or a start of the script is in progress.
StartRefused(r) ==
    /\ stage[r] = "placing"
    /\ stage' = [stage EXCEPT ![r] = "done"]
    /\ UNCHANGED <<starting, runPort, paths, node, stopVars, restarts, crossed>>

\* recordPathScript: the oldest entries drop, also of scripts that run.
PathRecorded(k) ==
    LET longer == IF \E i \in DOMAIN paths : paths[i] = k THEN paths ELSE Append(paths, k)
    IN  IF Len(longer) > KeepPaths THEN Tail(longer) ELSE longer

\* The guard is taken, path and port are recorded, the command is sent.
StartSent(r) ==
    LET k == ScriptOf[r] IN
    /\ stage[r] = "placing" /\ k \notin starting
    /\ stage' = [stage EXCEPT ![r] = "sent"]
    /\ starting' = starting \union {k}
    /\ paths' = PathRecorded(k)
    /\ runPort' = [runPort EXCEPT ![k] = r]
    /\ shell' = [shell EXCEPT ![r] = "sent"]
    /\ crossed' = IF StartsUnderway(k) \union StopsUnderway(k) = {} THEN crossed
                  ELSE crossed \union {r} \union StartsUnderway(k)
    /\ UNCHANGED <<alive, pid, stopVars, restarts>>

\* The command answered, failed or timed out; whichever it was, the guard is
\* released and the port stays recorded.
StartReturns(r) ==
    /\ stage[r] = "sent"
    /\ stage' = [stage EXCEPT ![r] = "done"]
    /\ starting' = starting \ {ScriptOf[r]}
    /\ UNCHANGED <<runPort, paths, node, stopVars, restarts, crossed>>

-----------------------------------------------------------------------------
(* The start command on the node *)

\* Mutated form: the pid file itself counts, for nothing.
AlreadyRunningBug(k) == FALSE

\* alreadyRunningGuard
AlreadyRunning(k) == pid[k] # None /\ pid[k] \in alive

ShellRefuses(r) ==
    /\ shell[r] = "sent" /\ AlreadyRunning(ScriptOf[r])
    /\ shell' = [shell EXCEPT ![r] = "over"]
    /\ UNCHANGED <<dashboard, alive, pid, stopVars, restarts, crossed>>

ShellLaunches(r) ==
    /\ shell[r] = "sent" /\ ~AlreadyRunning(ScriptOf[r])
    /\ shell' = [shell EXCEPT ![r] = "launched"]
    /\ alive' = alive \union {r}
    /\ UNCHANGED <<dashboard, pid, stopVars, restarts, crossed>>

ShellWritesPid(r) ==
    /\ shell[r] = "launched"
    /\ shell' = [shell EXCEPT ![r] = "over"]
    /\ pid' = [pid EXCEPT ![ScriptOf[r]] = r]
    /\ UNCHANGED <<dashboard, alive, stopVars, restarts, crossed>>

\* The command never reached the node, or there is no script at the path.
ShellLost(r) ==
    /\ shell[r] = "sent"
    /\ shell' = [shell EXCEPT ![r] = "over"]
    /\ UNCHANGED <<dashboard, alive, pid, stopVars, restarts, crossed>>

\* A process ends by itself; its pid file stays.
ProcessEnds(r) ==
    /\ r \in alive /\ alive' = alive \ {r}
    /\ UNCHANGED <<dashboard, shell, pid, stopVars, restarts, crossed>>

-----------------------------------------------------------------------------
(* POST /api/serving/stop and its command *)

\* resolveAnyScriptId
Resolves(k) == \E i \in DOMAIN paths : paths[i] = k

StopSent(x, k) ==
    /\ haltStage[x] = "idle" /\ Resolves(k)
    /\ haltStage' = [haltStage EXCEPT ![x] = "sent"]
    /\ halting' = [halting EXCEPT ![x] = k]
    /\ halt' = [halt EXCEPT ![x] = "sent"]
    /\ crossed' = crossed \union StartsUnderway(k)
    /\ UNCHANGED <<dashboard, node, found, restarts>>

StopLooks(x) ==
    /\ halt[x] = "sent"
    /\ halt' = [halt EXCEPT ![x] = IF AlreadyRunning(halting[x]) THEN "found" ELSE "killed"]
    /\ found' = [found EXCEPT ![x] = IF AlreadyRunning(halting[x]) THEN pid[halting[x]] ELSE None]
    /\ UNCHANGED <<dashboard, node, halting, haltStage, restarts, crossed>>

StopKills(x) ==
    /\ halt[x] = "found"
    /\ halt' = [halt EXCEPT ![x] = "killed"]
    /\ alive' = alive \ {found[x]}
    /\ UNCHANGED <<dashboard, shell, pid, halting, haltStage, found, restarts, crossed>>

\* The pid file goes, whoever wrote it.
StopRemoves(x) ==
    /\ halt[x] = "killed"
    /\ halt' = [halt EXCEPT ![x] = "over"]
    /\ pid' = [pid EXCEPT ![halting[x]] = None]
    /\ UNCHANGED <<dashboard, shell, alive, halting, haltStage, found, restarts, crossed>>

StopLost(x) ==
    /\ halt[x] = "sent"
    /\ halt' = [halt EXCEPT ![x] = "lost"]
    /\ UNCHANGED <<dashboard, node, halting, haltStage, found, restarts, crossed>>

\* forgetRunPort
PortForgotten(k) == [runPort EXCEPT ![k] = None]

StopReturns(x) ==
    /\ haltStage[x] = "sent" /\ halt[x] = "over"
    /\ haltStage' = [haltStage EXCEPT ![x] = "stopped"]
    /\ runPort' = PortForgotten(halting[x])
    /\ UNCHANGED <<stage, starting, paths, node, halting, halt, found, restarts, crossed>>

\* A timeout or an error: the port is kept.
StopFails(x) ==
    /\ haltStage[x] = "sent"
    /\ haltStage' = [haltStage EXCEPT ![x] = "failed"]
    /\ UNCHANGED <<dashboard, node, halting, halt, found, restarts, crossed>>

-----------------------------------------------------------------------------
\* The dashboard restarts: its requests and its guard are gone.
DashboardRestarts ==
    /\ restarts < MaxRestarts /\ restarts' = restarts + 1
    /\ stage' = [r \in Starts |-> IF stage[r] = "idle" THEN "idle" ELSE "done"]
    /\ starting' = {}
    /\ haltStage' = [x \in Stops |-> IF haltStage[x] = "sent" THEN "failed" ELSE haltStage[x]]
    /\ UNCHANGED <<runPort, paths, node, halting, halt, found, crossed>>

ServingNext ==
    \/ DashboardRestarts
    \/ \E r \in Starts :
          \/ StartBegins(r) \/ StartRefused(r) \/ StartSent(r) \/ StartReturns(r)
          \/ ShellRefuses(r) \/ ShellLaunches(r) \/ ShellWritesPid(r) \/ ShellLost(r)
          \/ ProcessEnds(r)
    \/ \E x \in Stops :
          \/ \E k \in Scripts : StopSent(x, k)
          \/ StopLooks(x) \/ StopKills(x) \/ StopRemoves(x) \/ StopLost(x)
          \/ StopReturns(x) \/ StopFails(x)

ServingSpec == ServingInit /\ [][ServingNext]_servingVars

-----------------------------------------------------------------------------
ServingTypeOK ==
    /\ stage \in [Starts -> {"idle", "placing", "sent", "done"}]
    /\ starting \subseteq Scripts
    /\ runPort \in [Scripts -> Starts \union {None}]
    /\ paths \in Seq(Scripts) /\ Len(paths) <= KeepPaths
    /\ shell \in [Starts -> {"none", "sent", "launched", "over"}]
    /\ alive \subseteq Starts /\ crossed \subseteq Starts
    /\ pid \in [Scripts -> Starts \union {None}]
    /\ halting \in [Stops -> Scripts \union {None}]
    /\ haltStage \in [Stops -> {"idle", "sent", "stopped", "failed"}]
    /\ halt \in [Stops -> {"none", "sent", "found", "killed", "over", "lost"}]
    /\ found \in [Stops -> Starts \union {None}]
    /\ restarts \in 0..MaxRestarts

\* The documented role of the pid file: it forbids starting a script twice.
NoDoubleStart == \A r, q \in alive : ScriptOf[r] = ScriptOf[q] => r = q

\* It does so among starts that overlapped neither each other nor a stop,
\* timeouts, retries and restarts of the dashboard notwithstanding.
OneInstance == \A r, q \in alive \ crossed : ScriptOf[r] = ScriptOf[q] => r = q

\* A process that runs can be found: unless its start overlapped another
\* command, its pid file is there for the next stop, and a port is on record.
RunIsKnown == \A r \in alive \ crossed :
    shell[r] = "over" => pid[ScriptOf[r]] = r /\ runPort[ScriptOf[r]] # None

\* A stop that returned has stopped what ran: no process whose start was over
\* before the stop outlives it.
StopStops ==
    [][\A x \in Stops : haltStage[x] = "sent" /\ haltStage'[x] = "stopped" =>
          \A r \in alive \ crossed : ScriptOf[r] = halting[x] => shell[r] # "over"]_servingVars
=============================================================================
