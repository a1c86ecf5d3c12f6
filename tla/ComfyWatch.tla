----------------------------- MODULE ComfyWatch -----------------------------
(***************************************************************************)
(* ComfyProbe, its ComfyProgressSocket and the cancel route, beside the    *)
(* ComfyUI server they watch: watch of the queue with caches of history    *)
(* and models, a socket that is open while the queue is busy, and the      *)
(* three requests of a cancel.  All jobs are on the first target and their *)
(* frames go to whoever is connected.  Nodes, steps, durations and the     *)
(* estimate from them are left out.                                        *)
(***************************************************************************)
EXTENDS Naturals, Sequences, FiniteSets

CONSTANTS
    Jobs, NoJob,
    Target, Other,       \* what the probe may be aimed at; the jobs are at Target
    Nowhere,
    MaxComfyEvents       \* bound on edits and faults

ASSUME ComfyAssumption == NoJob \notin Jobs /\ Cardinality({Target, Other, Nowhere}) = 3

VARIABLES
    comfy,         \* per job: "none", "pending", "running" or "over"
    aim,           \* the target of the probe
    disposed,      \* dispose(): the monitoring was switched off
    socket,        \* _ws: "none", "connecting" or "open"
    wantOpen, retrying, idling,   \* _wantOpen and the two timers
    wire,          \* frames on their way to the open socket
    progress,      \* the job of the last frame
    cached,         \* whose history and models are cached, and if within the TTL
    watch,         \* per generation: a poll under way
    cancel,        \* a cancel under way
    comfyEvents,
    missed,        \* history: a frame did not arrive
    strayed,       \* history: the aim changed under a fetch of history
    slipped        \* history: a cancel that could not take

jobVars == <<comfy>>
socketVars == <<socket, wantOpen, retrying, idling>>
probeVars == <<aim, disposed, cached, watch>>
comfyVars == <<jobVars, socketVars, probeVars, wire, progress, cancel, comfyEvents,
               missed, strayed, slipped>>

NoPoll == [phase |-> "idle", of |-> Nowhere]
NoCancel == [step |-> "idle", job |-> NoJob, ok |-> FALSE]

ComfyInit ==
    /\ comfy = [p \in Jobs |-> "none"] /\ aim = Target /\ disposed = FALSE
    /\ socket = "none" /\ wantOpen = FALSE /\ retrying = FALSE /\ idling = FALSE
    /\ wire = <<>> /\ progress = NoJob
    /\ cached = [of |-> Nowhere, fresh |-> FALSE]
    /\ watch = [old |-> NoPoll, current |-> NoPoll]
    /\ cancel = NoCancel /\ comfyEvents = 0
    /\ missed = FALSE /\ strayed = FALSE /\ slipped = FALSE

Event == comfyEvents < MaxComfyEvents /\ comfyEvents' = comfyEvents + 1

-----------------------------------------------------------------------------
(* The server *)

Pending == {p \in Jobs : comfy[p] = "pending"}
Working == {p \in Jobs : comfy[p] = "running"}

Submit(p) ==
    /\ comfy[p] = "none" /\ comfy' = [comfy EXCEPT ![p] = "pending"]
    /\ UNCHANGED <<socketVars, probeVars, wire, progress, cancel, comfyEvents, missed, strayed, slipped>>

\* A frame to the socket, if it is open and to this server.
Hears == socket = "open" /\ aim = Target
Say(p, over) ==
    /\ wire' = IF Hears THEN Append(wire, [job |-> p, over |-> over]) ELSE wire
    /\ missed' = (missed \/ ~Hears)

\* One job at a time; a job that leaves the queue as a cancel is at work slips.
JobStarts(p) ==
    /\ comfy[p] = "pending" /\ Working = {} /\ Len(wire) < 2
    /\ comfy' = [comfy EXCEPT ![p] = "running"] /\ Say(p, FALSE)
    /\ slipped' = (slipped \/ (cancel.job = p /\ cancel.step = "delete"))
    /\ UNCHANGED <<socketVars, probeVars, progress, cancel, comfyEvents, strayed>>

JobEnds(p) ==
    /\ comfy[p] = "running" /\ Len(wire) < 2
    /\ comfy' = [comfy EXCEPT ![p] = "over"] /\ Say(p, TRUE)
    /\ UNCHANGED <<socketVars, probeVars, progress, cancel, comfyEvents, strayed, slipped>>

-----------------------------------------------------------------------------
(* ComfyProgressSocket *)

\* reduceComfyProgressMessage: a frame names the job at work, or clears it.
Reduced(p, over) == IF over THEN NoJob ELSE p

FrameIn ==
    /\ wire # <<>> /\ socket = "open"
    /\ wire' = Tail(wire) /\ progress' = Reduced(Head(wire).job, Head(wire).over)
    /\ UNCHANGED <<jobVars, socketVars, probeVars, cancel, comfyEvents, missed, strayed, slipped>>

\* What is on its way to a socket that goes is lost.
Lose == wire' = <<>> /\ missed' = (missed \/ wire # <<>>)

\* _closed is final.
MayOpen == ~disposed

\* open(), where a socket in any state but closed stays.
Open ==
    IF MayOpen
    THEN wantOpen' = TRUE /\ socket' = IF socket = "none" THEN "connecting" ELSE socket
    ELSE UNCHANGED <<wantOpen, socket>>

\* disconnect(): what was last heard stays.
Disconnect ==
    /\ wantOpen' = FALSE /\ retrying' = FALSE /\ idling' = FALSE /\ socket' = "none"
    /\ Lose

SocketOpens ==
    /\ socket = "connecting" /\ socket' = "open"
    /\ UNCHANGED <<jobVars, wantOpen, retrying, idling, probeVars, wire, progress, cancel,
                   comfyEvents, missed, strayed, slipped>>

\* The handshake fails or the connection breaks; _scheduleReconnect.
SocketBreaks ==
    /\ socket # "none" /\ Event /\ socket' = "none" /\ Lose
    /\ retrying' = (retrying \/ wantOpen)
    /\ UNCHANGED <<jobVars, wantOpen, idling, probeVars, progress, cancel, strayed, slipped>>

\* The timer connects anew, whatever there is by then.
Retry ==
    /\ retrying /\ retrying' = FALSE
    /\ IF MayOpen /\ wantOpen THEN socket' = "connecting" /\ Lose ELSE UNCHANGED <<socket, wire, missed>>
    /\ UNCHANGED <<jobVars, wantOpen, idling, probeVars, progress, cancel, comfyEvents, strayed, slipped>>

IdleCloses ==
    /\ idling /\ idling' = FALSE /\ wantOpen' = FALSE /\ socket' = "none" /\ Lose
    /\ UNCHANGED <<jobVars, retrying, probeVars, progress, cancel, comfyEvents, strayed, slipped>>

\* touchActivity
Touch(busy) ==
    IF busy
    THEN Open /\ idling' = FALSE
    ELSE idling' = (idling \/ wantOpen) /\ UNCHANGED <<wantOpen, socket>>

-----------------------------------------------------------------------------
(* ComfyProbe *)

Forget == cached' = [of |-> Nowhere, fresh |-> FALSE]

\* updateConfig: polls under way belong to the old generation; setTarget, with
\* a new connection if the host or the port is another one.
SetTarget ==
    /\ ~disposed /\ Event
    /\ aim' \in {Target, Other} /\ Forget
    /\ IF aim' = aim THEN UNCHANGED <<socketVars, wire, missed>>
       ELSE /\ retrying' = FALSE /\ idling' = FALSE /\ Lose
            /\ socket' = (IF wantOpen THEN "connecting" ELSE "none") /\ UNCHANGED wantOpen
    /\ strayed' = (strayed \/ \E g \in DOMAIN watch : watch[g].phase = "history")
    /\ watch' = [old |-> watch.current, current |-> NoPoll]
    /\ UNCHANGED <<jobVars, disposed, progress, cancel, slipped>>

\* Monitoring is switched off.
Dispose ==
    /\ ~disposed /\ Event /\ disposed' = TRUE
    /\ Disconnect /\ progress' = NoJob
    /\ watch' = [old |-> watch.current, current |-> NoPoll]
    /\ UNCHANGED <<jobVars, aim, cached, cancel, strayed, slipped>>

\* _pollDomain, once a generation; stats and queue are asked for.
ComfyPollBegins ==
    /\ ~disposed /\ watch.current.phase = "idle"
    /\ watch' = [watch EXCEPT !.current = [NoPoll EXCEPT !.phase = "stats", !.of = aim]]
    /\ UNCHANGED <<jobVars, socketVars, aim, disposed, cached, wire, progress, cancel,
                   comfyEvents, missed, strayed, slipped>>

\* The server does not answer, or not with what was asked for.
ComfyPollFails(g) ==
    /\ watch[g].phase = "stats" /\ Event
    /\ Disconnect
    /\ watch' = [watch EXCEPT ![g] = NoPoll]
    /\ UNCHANGED <<jobVars, aim, disposed, cached, progress, cancel, strayed, slipped>>

\* The queue is read; history and models are asked for where the probe is
\* aimed by now.
QueueRead(g) ==
    /\ watch[g].phase = "stats"
    /\ Touch(watch[g].of = Target /\ Working \union Pending # {})
    /\ watch' = [watch EXCEPT ![g] = [phase |-> "history", of |-> aim]]
    /\ UNCHANGED <<jobVars, retrying, aim, disposed, cached, wire, progress, cancel,
                   comfyEvents, missed, strayed, slipped>>

\* The answer is cached, unless the cache was fresh.
ComfyPollReturns(g) ==
    /\ watch[g].phase = "history"
    /\ \E answered \in BOOLEAN :
          cached' = IF cached.fresh \/ ~answered THEN cached ELSE [of |-> watch[g].of, fresh |-> TRUE]
    /\ watch' = [watch EXCEPT ![g] = NoPoll]
    /\ UNCHANGED <<jobVars, socketVars, aim, disposed, wire, progress, cancel, comfyEvents,
                   missed, strayed, slipped>>

CacheAges ==
    /\ cached.fresh /\ cached' = [cached EXCEPT !.fresh = FALSE]
    /\ UNCHANGED <<jobVars, socketVars, aim, disposed, watch, wire, progress, cancel,
                   comfyEvents, missed, strayed, slipped>>

-----------------------------------------------------------------------------
(* comfyCancelJob: the jobs API, else an interrupt and then the queue *)

ServerOnly == UNCHANGED <<socketVars, probeVars, wire, progress, comfyEvents, missed, strayed>>

AskCancel(p) ==
    /\ ~disposed /\ cancel.step = "idle" /\ comfy[p] \in {"pending", "running"}
    /\ cancel' = [step |-> "api", job |-> p, ok |-> FALSE]
    /\ ServerOnly /\ UNCHANGED <<jobVars, slipped>>

\* The server drops the job: it leaves the queue, or ends with its frame.
Dropped(p, states) == comfy' = IF comfy[p] \in states THEN [comfy EXCEPT ![p] = "over"] ELSE comfy
Ended(p, states) ==
    /\ Dropped(p, states)
    /\ IF comfy[p] = "running" /\ comfy' # comfy THEN Len(wire) < 2 /\ Say(p, TRUE)
       ELSE UNCHANGED <<wire, missed>>
    /\ UNCHANGED <<socketVars, probeVars, progress, comfyEvents, strayed>>

\* It knows the call; it fails at it; it does not know it or is not reached.
ViaApi ==
    /\ cancel.step = "api"
    /\ \/ Ended(cancel.job, {"pending", "running"}) /\ cancel' = [cancel EXCEPT !.step = "done", !.ok = TRUE]
       \/ cancel' = [cancel EXCEPT !.step = "done"] /\ ServerOnly /\ UNCHANGED jobVars
       \/ cancel' = [cancel EXCEPT !.step = "interrupt"] /\ ServerOnly /\ UNCHANGED jobVars
    /\ UNCHANGED slipped

\* Only the job at work is interrupted; that the request fails is ignored.
Interrupt ==
    /\ cancel.step = "interrupt" /\ cancel' = [cancel EXCEPT !.step = "delete"]
    /\ \/ Ended(cancel.job, {"running"}) /\ UNCHANGED slipped
       \/ ServerOnly /\ UNCHANGED jobVars /\ slipped' = (slipped \/ comfy[cancel.job] = "running")

Queue == {"pending"}

\* An answer that is not good still counts as an interrupt that was asked for.
DeletePending ==
    /\ cancel.step = "delete"
    /\ \/ Ended(cancel.job, Queue) /\ cancel' = [cancel EXCEPT !.step = "done", !.ok = TRUE] /\ UNCHANGED slipped
       \/ /\ ServerOnly /\ UNCHANGED jobVars
          /\ cancel' = [cancel EXCEPT !.step = "done", !.ok = TRUE]
          /\ slipped' = (slipped \/ comfy[cancel.job] = "pending")
       \/ ServerOnly /\ UNCHANGED <<jobVars, slipped>> /\ cancel' = [cancel EXCEPT !.step = "done"]

ComfyNext ==
    \/ \E p \in Jobs : Submit(p) \/ JobStarts(p) \/ JobEnds(p) \/ AskCancel(p)
    \/ FrameIn \/ SocketOpens \/ SocketBreaks \/ Retry \/ IdleCloses
    \/ SetTarget \/ Dispose \/ ComfyPollBegins \/ CacheAges
    \/ \E g \in DOMAIN watch : ComfyPollFails(g) \/ QueueRead(g) \/ ComfyPollReturns(g)
    \/ ViaApi \/ Interrupt \/ DeletePending

\* The poll timer and its answers; the timers and the handshake of the socket.
ComfyPolls == ComfyPollBegins \/ QueueRead("current") \/ ComfyPollReturns("current")
ComfySocket == SocketOpens \/ Retry \/ IdleCloses

ComfyFairness == WF_comfyVars(ComfyPolls) /\ WF_comfyVars(ComfySocket)

-----------------------------------------------------------------------------
ComfyTypeOK ==
    /\ comfy \in [Jobs -> {"none", "pending", "running", "over"}]
    /\ aim \in {Target, Other} /\ cached.of \in {Target, Other, Nowhere}
    /\ socket \in {"none", "connecting", "open"} /\ Len(wire) <= 2
    /\ {wantOpen, retrying, idling, disposed, cached.fresh, missed, strayed, slipped} \subseteq BOOLEAN
    /\ \A g \in DOMAIN watch : watch[g].phase \in {"idle", "stats", "history"}
    /\ progress \in Jobs \union {NoJob}
    /\ cancel.step \in {"idle", "api", "interrupt", "delete", "done"}

\* If no frame was missed, the job whose progress is kept is at work, or the
\* frame of its end is still to come.
ProgressIsLive ==
    progress # NoJob /\ ~missed =>
        comfy[progress] = "running" \/ \E i \in DOMAIN wire : wire[i] = [job |-> progress, over |-> TRUE]

\* What is cached is of the server the probe is aimed at, unless that changed
\* under a fetch.
CacheIsOfTarget == strayed \/ cached.of \in {Nowhere, aim}

\* A poll that returns after the monitoring was switched off leaves no socket
\* and no timer behind.
DisposedIsQuiet == disposed => socket = "none" /\ ~wantOpen /\ ~retrying /\ ~idling

\* A cancel that was answered with success took, unless the job slipped from
\* the queue between its requests, or one of them failed.
CancelTakes == cancel.ok /\ ~slipped => comfy[cancel.job] = "over"

\* The socket comes to be open while the queue is busy, and shut when idle.
Follows ==
    \/ disposed
    \/ socket = (IF aim = Target /\ Working \union Pending # {} THEN "open" ELSE "none")

SocketFollows == []<>Follows
=============================================================================
