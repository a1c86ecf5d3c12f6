----------------------------- MODULE RemoteJobs -----------------------------
(***************************************************************************)
(* The remote-job layer: RemoteJobManager (server/jobs/remoteJobs.js) with *)
(* the two admission gates in front of it (POST /api/jobs in               *)
(* server/index.js, and the folder lock the serve engine asks for).        *)
(*                                                                         *)
(* A job is a script that runs detached on a node while the dashboard      *)
(* polls it.  Every handler is split where it awaits a node command, so    *)
(* that other handlers, the 30 s sweeper, an agent's hello or a crash of   *)
(* the dashboard may come in between.  A node command is three steps: it   *)
(* is sent, it runs on the node, and its result (or an error, which says   *)
(* nothing about whether it ran) comes back.                               *)
(*                                                                         *)
(* Log tails, scripts, names and messages are left out.  60 s since a      *)
(* job's start is the flag `late`.  Writes of the state file succeed       *)
(* (atomicWrite); a pid is not recycled on the node.                       *)
(***************************************************************************)
EXTENDS Naturals, FiniteSets

CONSTANTS
    Jobs,           \* job ids, one per admitted request (random, never reused)
    Nodes,          \* sparks
    Folders,        \* recipe folders (the `resource` of a serve job)
    Serve,          \* jobs of kind recipe-run
    Install,        \* jobs of kind install-agent / update-agent
    NodeOf,         \* the spark a job runs on
    FolderOf,       \* the folder of a serve job
    MaxPersisted,   \* MAX_PERSISTED_JOBS
    MaxCrashes,     \* bound: crashes of the dashboard process
    Cancelled,      \* bound: the jobs somebody asks to cancel
    Removed         \* bound: the sparks somebody may remove

ASSUME JobsAssumption ==
    /\ IsFiniteSet(Jobs)
    /\ Serve \subseteq Jobs /\ Install \subseteq Jobs /\ Serve \cap Install = {}
    /\ NodeOf \in [Jobs -> Nodes] /\ FolderOf \in [Jobs -> Folders]
    /\ MaxPersisted \in Nat /\ MaxCrashes \in Nat
    /\ Cancelled \subseteq Jobs /\ Removed \subseteq Nodes

VARIABLES
    up,         \* the dashboard process runs
    crashes,    \* how often it has crashed (bounded by MaxCrashes)
    known,      \* sparks in the registry
    req,        \* req[j]: the request that starts j
    st,         \* st[j]: job.status in memory ("none": no such record)
    expect,     \* expect[j]: job.expectAgentConnect in memory
    born,       \* born[j]: job.createdAt, as the order of recording
    late,       \* late[j]: more than 60 s since job.startedAt, for a job that expects a hello
    disk,       \* disk[j]: job.status in modelctl-jobs.json
    diskExpect, \* diskExpect[j]: job.expectAgentConnect in that file
    poll,       \* poll[j]: the poll in flight for j, if any
    kill,       \* kill[j]: the cancel in flight for j, if any
    proc,       \* proc[j]: the process on the node
    heard,      \* history: a hello of j's agent came while install job j ran
    overlap     \* history: overlap[j] are the requests past their gate when j passed it

dash  == <<up, crashes, known>>
rec   == <<st, expect, born, disk, diskExpect>>
calls == <<req, poll, kill>>
hist  == <<heard, overlap>>
jobsVars == <<dash, rec, calls, late, proc, hist>>

Terminal == {"completed", "failed", "interrupted", "cancelled"}
Status   == {"none", "running"} \union Terminal
Replies  == {"alive", "exit0", "exitN", "dead"}   \* what parsePollOutput reads
Ended    == {"exit0", "exitN", "dead"}

Active(j) == st[j] = "running"

\* hasActiveJobForNode looks at non-serve jobs only, hasActiveJobForResource
\* at serve jobs only: each job is gated by its node or by its folder.
Gate(j) == IF j \in Serve THEN <<"folder", FolderOf[j]>> ELSE <<"node", NodeOf[j]>>

\* Mutated form: a job waiting for its hello does not count as active.
BusyBug(j) == \E k \in Jobs : Active(k) /\ ~expect[k] /\ Gate(k) = Gate(j)

Busy(j) == \E k \in Jobs : Active(k) /\ Gate(k) = Gate(j)

Newer(s, j) == {k \in Jobs : s[k] \in Terminal /\ born[k] > born[j]}

\* Mutated form: the newest records are kept whatever their status.
KeptBug(s, j) == Cardinality({k \in Jobs : s[k] # "none" /\ born[k] > born[j]}) < MaxPersisted

Kept(s, j) == s[j] = "running" \/ Cardinality(Newer(s, j)) < MaxPersisted

\* _persist of the records s with hello flags e
Persist(s, e) ==
    /\ disk' = [j \in Jobs |-> IF Kept(s, j) THEN s[j] ELSE "none"]
    /\ diskExpect' = [j \in Jobs |-> Kept(s, j) /\ e[j]]

JobsInit ==
    /\ up = TRUE /\ crashes = 0 /\ known = Nodes
    /\ req = [j \in Jobs |-> "idle"]
    /\ st = [j \in Jobs |-> "none"]
    /\ expect = [j \in Jobs |-> FALSE]
    /\ born = [j \in Jobs |-> 0]
    /\ late = [j \in Jobs |-> FALSE]
    /\ disk = [j \in Jobs |-> "none"]
    /\ diskExpect = [j \in Jobs |-> FALSE]
    /\ poll = [j \in Jobs |-> "none"]
    /\ kill = [j \in Jobs |-> "none"]
    /\ proc = [j \in Jobs |-> "absent"]
    /\ heard = [j \in Jobs |-> FALSE]
    /\ overlap = [j \in Jobs |-> {}]

-----------------------------------------------------------------------------
(* Starting a job *)

InFlight == {k \in Jobs : req[k] \in {"sent", "ran"}}

\* The handler passes its gate and awaits the launch command; nothing is
\* recorded yet.
Admit(j) ==
    /\ up /\ req[j] = "idle" /\ NodeOf[j] \in known
    /\ ~Busy(j)
    /\ req' = [req EXCEPT ![j] = "sent"]
    /\ overlap' = [overlap EXCEPT ![j] = InFlight]
    /\ UNCHANGED <<dash, rec, late, poll, kill, proc, heard>>

\* The launch command runs on the node: script written, nohup'ed, pid kept.
LaunchRuns(j) ==
    /\ req[j] = "sent"
    /\ req' = [req EXCEPT ![j] = "ran"]
    /\ proc' = [proc EXCEPT ![j] = "alive"]
    /\ UNCHANGED <<dash, rec, late, poll, kill, hist>>

\* The launch returned: record the job, save, and (install jobs) raise the
\* hello expectation, which is not saved by this step.
Launched(j) ==
    /\ up /\ req[j] = "ran"
    /\ req' = [req EXCEPT ![j] = "done"]
    /\ st' = [st EXCEPT ![j] = "running"]
    /\ born' = [born EXCEPT ![j] = 1 + Cardinality({k \in Jobs : req[k] = "done"})]
    /\ Persist(st', expect)
    /\ expect' = [expect EXCEPT ![j] = j \in Install]
    /\ UNCHANGED <<dash, late, poll, kill, proc, hist>>

\* The launch threw (offline, 15 s timeout): nothing is recorded, although
\* the command may have run.
LaunchFails(j) ==
    /\ up /\ j \in InFlight
    /\ req' = [req EXCEPT ![j] = "failed"]
    /\ UNCHANGED <<dash, rec, late, poll, kill, proc, hist>>

-----------------------------------------------------------------------------
(* The agent's hello and its deadline *)

\* A set of records gets an outcome, and the hello flag goes.
Finish(S, outcome) ==
    /\ st' = [j \in Jobs |-> IF j \in S THEN outcome ELSE st[j]]
    /\ expect' = [j \in Jobs |-> expect[j] /\ j \notin S]
    /\ IF S = {} THEN UNCHANGED <<disk, diskExpect>> ELSE Persist(st', expect')
    /\ UNCHANGED born

\* Mutated form: the status is not read again after the await.
StillRunningBug(j) == {j}

\* What is left of {j} when a command for j comes back: the status is read
\* again, another handler may have ended the job meanwhile.
StillRunning(j) == {k \in {j} : Active(k)}

Stale == {j \in Jobs : Active(j) /\ expect[j] /\ late[j]}

HelloTime(j) ==
    /\ Active(j) /\ expect[j] /\ ~late[j]
    /\ late' = [late EXCEPT ![j] = TRUE]
    /\ UNCHANGED <<dash, rec, calls, proc, hist>>

\* The jobs that wait for a hello of node n.
Awaited(n) == {j \in Jobs : Active(j) /\ expect[j] /\ NodeOf[j] = n}

\* agentConnected: an agent of node n completed its handshake.
Hello(n) ==
    /\ up /\ n \in known
    /\ Finish(Awaited(n), "completed")
    /\ heard' = [j \in Jobs |-> heard[j] \/ (j \in Install /\ Active(j) /\ NodeOf[j] = n)]
    /\ UNCHANGED <<dash, calls, late, proc, overlap>>

-----------------------------------------------------------------------------
(* Polling *)

Pollable == {j \in Jobs : Active(j) /\ NodeOf[j] \in known}

\* The jobs in S are polled now.  If one of W expects a hello, the deadline
\* is enforced first, on every job; a poll is then sent for each of S that
\* still runs and has none in flight.
PollAll(S, W) ==
    /\ Finish(IF \E j \in W : expect[j] THEN Stale ELSE {}, "failed")
    /\ poll' = [j \in Jobs |->
                  IF j \in S /\ poll[j] = "none" /\ st'[j] = "running"
                  THEN "sent" ELSE poll[j]]
    /\ UNCHANGED <<dash, req, kill, late, proc, hist>>

\* GET /api/jobs/:id.  A caller that finds a poll in flight shares it.
PollOne(j) == up /\ j \in Pollable /\ poll[j] = "none" /\ PollAll({j}, {j})

\* One tick of the sweeper: it polls what it can, and watches the deadline of
\* every running job, on a known spark or not.
Sweep == up /\ PollAll(Pollable, {j \in Jobs : Active(j)})

\* The poll command runs on the node.
PollRuns(j) ==
    /\ poll[j] = "sent"
    /\ poll' = [poll EXCEPT ![j] = proc[j]]
    /\ UNCHANGED <<dash, rec, req, kill, late, proc, hist>>

\* The poll threw: only lastError is set, and the records are saved.
PollFails(j) ==
    /\ up /\ poll[j] # "none"
    /\ poll' = [poll EXCEPT ![j] = "none"]
    /\ Persist(st, expect)
    /\ UNCHANGED <<dash, st, expect, born, req, kill, late, proc, hist>>

\* Mutated form: the status is what the poll read.
ReplyBug(reply) == reply

\* Mutated form: a dead process without a trailer counts as completed.
OutcomeBug(reply) == IF reply = "exitN" THEN "failed" ELSE "completed"

Outcome(reply) ==
    CASE reply = "exit0" -> "completed"
      [] reply = "exitN" -> "failed"
      [] OTHER           -> "interrupted"

\* The reply of the poll is applied: exit 0 alone does not complete a job
\* that expects a hello.
PollAnswers(j) ==
    /\ up /\ poll[j] \in Replies
    /\ poll' = [poll EXCEPT ![j] = "none"]
    /\ IF expect[j] /\ poll[j] = "exit0"
       THEN Persist(st, expect) /\ UNCHANGED <<st, expect, born>>
       ELSE Finish(IF poll[j] = "alive" THEN {} ELSE StillRunning(j), Outcome(poll[j]))
    /\ UNCHANGED <<dash, req, kill, late, proc, hist>>

-----------------------------------------------------------------------------
(* Cancelling *)

\* POST /api/jobs/:id/cancel: any record will do, ended or not.
CancelSent(j) ==
    /\ up /\ j \in Cancelled /\ st[j] # "none" /\ NodeOf[j] \in known /\ kill[j] = "none"
    /\ kill' = [kill EXCEPT ![j] = "sent"]
    /\ UNCHANGED <<dash, rec, req, poll, late, proc, hist>>

\* The cancel command runs: kill -9 ends the wrapper before it can write its
\* exit line; TERM alone (serve jobs) may be caught.
CancelRuns(j) ==
    /\ kill[j] = "sent"
    /\ kill' = [kill EXCEPT ![j] = "ran"]
    /\ \/ proc' = [proc EXCEPT ![j] = IF @ = "alive" THEN "dead" ELSE @]
       \/ j \in Serve /\ UNCHANGED proc
    /\ UNCHANGED <<dash, rec, req, poll, late, hist>>

\* The cancel command returned or threw: a job still running is marked
\* cancelled, also when the node was never reached.
CancelReturns(j) ==
    /\ up /\ kill[j] # "none"
    /\ kill' = [kill EXCEPT ![j] = "none"]
    /\ Finish(StillRunning(j), "cancelled")
    /\ UNCHANGED <<dash, req, poll, late, proc, hist>>

-----------------------------------------------------------------------------
(* The node, the registry and the dashboard process *)

\* The script ends by itself, or its process is killed before its trailer.
ProcEnds(j) ==
    /\ proc[j] = "alive"
    /\ \E e \in Ended : proc' = [proc EXCEPT ![j] = e]
    /\ UNCHANGED <<dash, rec, calls, late, hist>>

RemoveSpark(n) ==
    /\ up /\ n \in known \cap Removed
    /\ known' = known \ {n}
    /\ UNCHANGED <<up, crashes, rec, calls, late, proc, hist>>

\* Everything in memory is lost, and so are the calls in flight.
Crash ==
    /\ up /\ crashes < MaxCrashes
    /\ up' = FALSE /\ crashes' = crashes + 1
    /\ st' = [j \in Jobs |-> "none"]
    /\ expect' = [j \in Jobs |-> FALSE]
    /\ req' = [j \in Jobs |-> IF j \in InFlight THEN "failed" ELSE req[j]]
    /\ poll' = [j \in Jobs |-> "none"]
    /\ kill' = [j \in Jobs |-> "none"]
    /\ UNCHANGED <<known, born, disk, diskExpect, late, proc, hist>>

\* _load: running records stay running and are resolved by a poll.
Restart ==
    /\ ~up
    /\ up' = TRUE
    /\ st' = disk
    /\ expect' = diskExpect
    /\ UNCHANGED <<crashes, known, born, disk, diskExpect, calls, late, proc, hist>>

-----------------------------------------------------------------------------
JobsNext ==
    \/ \E j \in Jobs :
          \/ Admit(j) \/ LaunchRuns(j) \/ Launched(j) \/ LaunchFails(j)
          \/ HelloTime(j)
          \/ PollOne(j) \/ PollRuns(j) \/ PollFails(j) \/ PollAnswers(j)
          \/ CancelSent(j) \/ CancelRuns(j) \/ CancelReturns(j)
          \/ ProcEnds(j)
    \/ \E n \in Nodes : Hello(n) \/ RemoveSpark(n)
    \/ Sweep \/ Crash \/ Restart

JobsSpec == JobsInit /\ [][JobsNext]_jobsVars

\* The sweeper's timer keeps firing, 60 s pass, the process manager restarts
\* the dashboard, and an exec returns (it has a timeout).  A node that is
\* polled again and again answers in the end: strong fairness, because each
\* single poll may fail.
JobsFairness ==
    /\ WF_jobsVars(Sweep) /\ WF_jobsVars(Restart)
    /\ \A j \in Jobs :
          /\ WF_jobsVars(HelloTime(j))
          /\ SF_jobsVars(PollRuns(j))
          /\ SF_jobsVars(PollAnswers(j))

JobsFairSpec == JobsSpec /\ JobsFairness

-----------------------------------------------------------------------------
(* Properties *)

\* Every variable stays in its type.
JobsTypeOK ==
    /\ up \in BOOLEAN /\ crashes \in Nat /\ known \subseteq Nodes
    /\ req \in [Jobs -> {"idle", "sent", "ran", "done", "failed"}]
    /\ st \in [Jobs -> Status] /\ disk \in [Jobs -> Status]
    /\ expect \in [Jobs -> BOOLEAN] /\ diskExpect \in [Jobs -> BOOLEAN]
    /\ born \in [Jobs -> Nat] /\ late \in [Jobs -> BOOLEAN]
    /\ poll \in [Jobs -> {"none", "sent"} \union Replies]
    /\ kill \in [Jobs -> {"none", "sent", "ran"}]
    /\ proc \in [Jobs -> {"absent", "alive"} \union Ended]
    /\ heard \in [Jobs -> BOOLEAN]
    /\ overlap \in [Jobs -> SUBSET Jobs]

\* The state file and the memory never disagree about whether a job is over:
\* a running job is on disk as running however many records were trimmed
\* (a running serve driver must never be evicted), and the file holds no job
\* as running that the manager has already ended (a restart would revive it).
RunningOnDisk ==
    up => \A j \in Jobs : Active(j) <=> disk[j] = "running"

\* An outcome tells the truth about the node: completed means exit 0 or an
\* agent's hello, interrupted means the process died without its trailer,
\* failed means a non-zero exit or a hello that missed its deadline.  The
\* reply a poll brings back is old when it is applied.
HonestOutcome ==
    \A j \in Jobs :
        /\ st[j] = "completed"   => proc[j] = "exit0" \/ heard[j]
        /\ st[j] = "interrupted" => proc[j] = "dead"
        /\ st[j] = "failed"      => proc[j] = "exitN" \/ (j \in Install /\ late[j])

\* Two jobs of the same node (or folder) are active together only if the
\* later one passed its gate while the earlier one's launch was in flight:
\* the gates hold except in that window, across cancels and restarts.
GateUpToOverlap ==
    \A j, k \in Jobs :
        (j # k /\ Active(j) /\ Active(k) /\ Gate(j) = Gate(k))
            => j \in overlap[k] \/ k \in overlap[j]

\* Header of remoteJobs.js and README: one active job per node, and one active
\* serve job per recipe folder.  It does not hold: the gate is passed before the
\* launch and the job is recorded after it.
OneJobPerGate ==
    \A j, k \in Jobs : (Active(j) /\ Active(k) /\ Gate(j) = Gate(k)) => j = k

\* CHANGELOG: an install-agent job completes only when the agent's hello
\* lands.  It does not hold across a restart.
InstallNeedsHello ==
    \A j \in Install : st[j] = "completed" => heard[j]

\* The record of a job as a reader of the dashboard sees it through restarts.
Record(j) ==
    IF req[j] # "done" THEN "none"
    ELSE LET s == IF up THEN st[j] ELSE disk[j]
         IN  IF s = "none" THEN "gone" ELSE s

\* The manager implements the job life cycle: one recording, one outcome,
\* never revised, also when a cancel, a poll reply, a hello, a deadline and a
\* restart race; only ended records are forgotten.
Lifecycle == INSTANCE JobLifecycle WITH out <- [j \in Jobs |-> Record(j)]
ImplementsLifecycle == Lifecycle!Spec

\* A recorded job whose process is over is resolved in the end, through
\* failing polls and restarts of the dashboard, as long as its spark stays
\* in the registry.
EndedIsResolved ==
    \A j \in Jobs :
        (Record(j) = "running" /\ proc[j] \in Ended)
            ~> (Record(j) # "running" \/ NodeOf[j] \notin known)
=============================================================================
