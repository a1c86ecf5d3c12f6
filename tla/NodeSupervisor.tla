--------------------------- MODULE NodeSupervisor ---------------------------
(***************************************************************************)
(* ServingSupervisor of the node agent (agent/src/main.js) and one serving *)
(* script: its processes, the pid file by which it is found, and what the  *)
(* agent has in memory.  The agent may stop or crash and come back, its    *)
(* children live on; the same script may be started over SSH, with the     *)
(* same pid file; the node gives pids anew.                                *)
(***************************************************************************)
EXTENDS Naturals, FiniteSets

CONSTANTS
    Pids,         \* the pids of the node
    NoPid,
    MaxRuns,      \* bound on starts
    MaxMishaps    \* bound on ends of the agent, and on pids that others get

ASSUME SupervisorAssumption == NoPid \notin Pids /\ {MaxRuns, MaxMishaps} \subseteq Nat

VARIABLES
    agentUp,      \* the agent runs
    proc,         \* what runs under a pid: "script", "other", "none"
    child,        \* the process that the agent has started and not seen exit
    exits,        \* processes whose exit it has not handled
    pidFile,
    tails,        \* timers that follow the log as long as a pid lives
    kills,        \* SIGKILLs to come, 1.5 s after a stop
    runs, mishaps,
    asked,        \* history: the child was signalled to stop
    signalled,    \* history: processes that a stop by the pid file has signalled
    doubled,      \* history: the script was started beside a process of it
    stale,        \* history: the process of the pid file ended, and the agent did not see it
    stray         \* history: a signal went to a process of somebody else

supVars == <<agentUp, proc, child, exits, pidFile, tails, kills, runs, mishaps,
             asked, signalled, doubled, stale, stray>>

Running == {p \in Pids : proc[p] = "script"}
Free == {p \in Pids : proc[p] = "none" /\ p \notin exits}

SupInit ==
    /\ agentUp = TRUE
    /\ proc = [p \in Pids |-> "none"]
    /\ child = NoPid /\ exits = {} /\ pidFile = NoPid
    /\ tails = [p \in Pids |-> 0]
    /\ kills = {}
    /\ runs = 0 /\ mishaps = 0 /\ asked = FALSE
    /\ signalled = {} /\ doubled = FALSE /\ stale = FALSE /\ stray = FALSE

Mishap == mishaps < MaxMishaps /\ mishaps' = mishaps + 1

\* A process of the script runs under p, and its pid is written.
Spawned(p) ==
    /\ runs < MaxRuns /\ runs' = runs + 1
    /\ p \in Free
    /\ proc' = [proc EXCEPT ![p] = "script"]
    /\ pidFile' = p /\ stale' = FALSE
    /\ signalled' = signalled \ {p}
    /\ doubled' = (doubled \/ Running # {})

\* handleServe, start: only a child of its own keeps the agent from starting.
AgentStarts(p) ==
    /\ agentUp /\ child = NoPid
    /\ Spawned(p)
    /\ child' = p /\ asked' = FALSE
    /\ UNCHANGED <<agentUp, exits, tails, kills, mishaps, stray>>

\* The shell command of the SSH path looks whether the pid of the file lives.
SshStarts(p) ==
    /\ pidFile # NoPid => proc[pidFile] = "none"
    /\ Spawned(p)
    /\ UNCHANGED <<agentUp, child, exits, tails, kills, mishaps, asked, stray>>

\* A set of processes ends: the agent will see it of its child.
EndOf(P) ==
    /\ proc' = [p \in Pids |-> IF p \in P THEN "none" ELSE proc[p]]
    /\ exits' = exits \cup (P \cap {child})
    /\ stale' = (stale \/ (pidFile \in P /\ pidFile # child))

EndsAlone(p) ==
    /\ p \in Running
    /\ EndOf({p})
    /\ UNCHANGED <<agentUp, child, pidFile, tails, kills, runs, mishaps, asked, signalled, doubled, stray>>

\* The exit event: the file is removed if it is still that of the child.
Unfiled(p) == IF pidFile = p THEN NoPid ELSE pidFile

ExitSeen(p) ==
    /\ agentUp /\ p \in exits
    /\ exits' = exits \ {p} /\ child' = NoPid
    /\ pidFile' = Unfiled(p)
    /\ UNCHANGED <<agentUp, proc, tails, kills, runs, mishaps, asked, signalled, doubled, stale, stray>>

\* SIGTERM to the group of p: it ends, or takes no notice.
Signal(p) ==
    /\ stray' = (stray \/ proc[p] = "other")
    /\ \/ EndOf({p}) /\ proc[p] # "none"
       \/ UNCHANGED <<proc, exits, stale>>

\* handleServe, stop, of a child: SIGKILL follows.
StopsChild ==
    /\ agentUp /\ child # NoPid
    /\ Signal(child)
    /\ kills' = kills \cup {child}
    /\ asked' = TRUE
    /\ UNCHANGED <<agentUp, child, pidFile, tails, runs, mishaps, signalled, doubled>>

Kills(p) ==
    /\ p \in kills /\ kills' = kills \ {p}
    /\ EndOf({p})
    /\ stray' = (stray \/ proc[p] = "other")
    /\ UNCHANGED <<agentUp, child, pidFile, tails, runs, mishaps, asked, signalled, doubled>>

\* A stop of a process that is known by its file only: the file is removed at
\* once, and no SIGKILL follows.
StopsFiled ==
    /\ agentUp /\ child = NoPid /\ pidFile # NoPid
    /\ Signal(pidFile)
    /\ signalled' = signalled \cup {pidFile}
    /\ pidFile' = NoPid
    /\ UNCHANGED <<agentUp, child, tails, kills, runs, mishaps, asked, doubled>>

\* reattach, with every welcome: the log of a process of the file is followed,
\* also when it already is.
Reattaches ==
    /\ agentUp /\ child = NoPid /\ pidFile # NoPid /\ proc[pidFile] # "none"
    /\ tails[pidFile] < 2
    /\ tails' = [tails EXCEPT ![pidFile] = @ + 1]
    /\ UNCHANGED <<agentUp, proc, child, exits, pidFile, kills, runs, mishaps, asked, signalled, doubled, stale, stray>>

TailEnds(p) ==
    /\ tails[p] > 0 /\ proc[p] = "none"
    /\ tails' = [tails EXCEPT ![p] = 0]
    /\ UNCHANGED <<agentUp, proc, child, exits, pidFile, kills, runs, mishaps, asked, signalled, doubled, stale, stray>>

\* The agent ends, by a signal, which it passes on to its child, or by a crash.
AgentEnds(passedOn) ==
    /\ agentUp /\ Mishap /\ agentUp' = FALSE
    /\ \E P \in SUBSET (IF passedOn THEN {child} \cap Running ELSE {}) :
        /\ proc' = [p \in Pids |-> IF p \in P THEN "none" ELSE proc[p]]
        /\ stale' = (stale \/ pidFile \in P \cup exits)
    /\ child' = NoPid /\ exits' = {} /\ kills' = {}
    /\ tails' = [p \in Pids |-> 0]
    /\ UNCHANGED <<pidFile, runs, asked, signalled, doubled, stray>>

AgentStartsUp ==
    /\ ~agentUp /\ agentUp' = TRUE
    /\ UNCHANGED <<proc, child, exits, pidFile, tails, kills, runs, mishaps, asked, signalled, doubled, stale, stray>>

\* The pid of a process that has ended is given to another.
Reused(p) ==
    /\ Mishap /\ p \in Free
    /\ proc' = [proc EXCEPT ![p] = "other"]
    /\ UNCHANGED <<agentUp, child, exits, pidFile, tails, kills, runs, asked, signalled, doubled, stale, stray>>

SupNext ==
    \/ \E p \in Pids :
        \/ AgentStarts(p) \/ SshStarts(p) \/ EndsAlone(p) \/ ExitSeen(p) \/ Kills(p) \/ TailEnds(p) \/ Reused(p)
    \/ StopsChild \/ StopsFiled \/ Reattaches \/ AgentStartsUp
    \/ \E b \in BOOLEAN : AgentEnds(b)

\* Timers fire, and events are handled.
TimersFire == \E p \in Pids : Kills(p)
ExitsHandled == \E p \in Pids : ExitSeen(p)

SupFairness == WF_supVars(TimersFire) /\ WF_supVars(ExitsHandled)

-----------------------------------------------------------------------------
SupTypeOK ==
    /\ agentUp \in BOOLEAN
    /\ proc \in [Pids -> {"none", "script", "other"}]
    /\ child \in Pids \cup {NoPid} /\ pidFile \in Pids \cup {NoPid}
    /\ exits \subseteq {child} /\ kills \subseteq Pids
    /\ tails \in [Pids -> 0..2]

\* The pid file is that of a process of the script, unless that has ended
\* without the agent as its parent.
PidFileIsTrue ==
    pidFile # NoPid /\ ~stale => proc[pidFile] = "script" \/ pidFile \in exits

\* Every process of the script can be found by the file, but for a second one
\* beside it and those that a stop has signalled.
RunIsFiled == \A p \in Running : p = pidFile \/ p \in signalled \/ doubled

\* A signal goes astray only when a pid was given anew between a stop and its
\* SIGKILL, or under a file that nobody removed.
SignalsItsOwn == stray => mishaps > 0

\* A child that was signalled to stop, by an agent that goes on, has not ended yet.
Overdue == agentUp /\ child # NoPid /\ asked
=============================================================================
