----------------------------- MODULE HermesRepo -----------------------------
(***************************************************************************)
(* HermesProbe on one node: checks, previews and updates as processes over *)
(* one git checkout with its lock and one venv, commands whose caller      *)
(* gives up while they run on, interruptions that leave a lock or half a   *)
(* venv, and the row the dashboard shows.  Polls and their generations are *)
(* in SparkMonitor.                                                        *)
(***************************************************************************)
EXTENDS Naturals, FiniteSets

CONSTANTS MaxCommits, MaxHermesEvents   \* bounds: commits upstream; uses and mishaps

ASSUME HermesAssumption == MaxCommits \in Nat \ {0} /\ MaxHermesEvents \in Nat

VARIABLES
    origin, head,  \* commits upstream, and in the checkout
    lock,          \* the process whose lock file is there, "stale", or "free"
    venv,          \* "ok" or "broken": the launcher of hermes
    mode,          \* "local": commands run as the user of the node, as over SSH,
                   \* "root" if that user is not known
    foreign,       \* files of root in the checkout
    proc,          \* per slot a command: its kind, how far it is, what it printed
    trying,         \* update(): "off", "first", "repair", "probe", "second", "recheck"
    row,           \* _hermes: what the last check said, error, status
    hermesEvents,
    since,         \* history: readings from before the last update
    hurt           \* history: the venv was broken by a command nobody awaits

repoVars == <<origin, head, lock, venv, mode, foreign>>
hermesVars == <<repoVars, proc, trying, row, hermesEvents, since, hurt>>

Slots == {"poll", "route", "preview", "update", "ghost"}
Off == [kind |-> "none", at |-> "off", out |-> "none"]

HermesInit ==
    /\ origin \in 0..1 /\ head = 0 /\ lock = "free" /\ venv \in {"ok", "broken"}
    /\ mode \in {"local", "root"} /\ foreign = FALSE
    /\ proc = [p \in Slots |-> Off] /\ trying = "off"
    /\ row = [avail |-> "unknown", error |-> FALSE, status |-> "idle"]
    /\ hermesEvents = 0 /\ since = {} /\ hurt = FALSE

Happens == hermesEvents < MaxHermesEvents /\ hermesEvents' = hermesEvents + 1

Commit ==
    /\ origin < MaxCommits /\ origin' = origin + 1
    /\ UNCHANGED <<head, lock, venv, mode, foreign, proc, trying, row, hermesEvents, since, hurt>>

\* The user of the node is configured.
Identified ==
    /\ mode = "root" /\ mode' = "local"
    /\ UNCHANGED <<origin, head, lock, venv, foreign, proc, trying, row, hermesEvents, since, hurt>>

-----------------------------------------------------------------------------
(* Commands *)

\* A preview is git alone, a repair alone uv; the others go through hermes.
FirstStep(kind) == CASE kind = "preview" -> "git" [] kind = "repair" -> "build" [] OTHER -> "sweep"

\* _execLocal gives the files of root back before each command.
Launch(p, kind) ==
    /\ proc' = [proc EXCEPT ![p] = [kind |-> kind, at |-> FirstStep(kind), out |-> "none"]]
    /\ foreign' = (foreign /\ mode # "local")

Over(p, out) == proc' = [proc EXCEPT ![p].at = "over", ![p].out = out]
At(p, step) == proc' = [proc EXCEPT ![p].at = step]

\* Mutated form: locks are left alone.
SweptBug == lock

\* buildHermesCmd deletes every lock, whoever's it is, since no git is running
\* yet.
Swept == "free"

Sweep(p) ==
    /\ proc[p].at = "sweep" /\ lock' = Swept
    /\ IF venv = "broken" THEN Over(p, "broken")
       ELSE IF proc[p].kind = "probe" THEN Over(p, "done") ELSE At(p, "git")
    /\ UNCHANGED <<origin, head, venv, mode, foreign, trying, row, hermesEvents, since, hurt>>

\* git takes its lock, or cannot write; as root it leaves files of root.
GitBegins(p) ==
    /\ proc[p].at = "git"
    /\ IF lock # "free" \/ (foreign /\ mode # "root") THEN Over(p, "failed") /\ UNCHANGED <<lock, foreign>>
       ELSE /\ lock' = p /\ At(p, "held")
            /\ foreign' = (foreign \/ mode = "root")
    /\ UNCHANGED <<origin, head, venv, mode, trying, row, hermesEvents, since, hurt>>

Behind == head < origin

\* git is done; who has lost the lock may fail.  An update of what is up to
\* date is done, another builds the venv anew.
GitEnds(p) ==
    /\ proc[p].at = "held"
    /\ lock' = IF lock = p THEN "free" ELSE lock
    /\ \/ /\ proc[p].kind # "update" \/ ~Behind
          /\ Over(p, IF proc[p].kind = "check" THEN IF Behind THEN "yes" ELSE "no" ELSE "done")
          /\ since' = since \ {p} /\ UNCHANGED <<head, venv, hurt>>
       \/ /\ proc[p].kind = "update" /\ Behind
          /\ head' = origin /\ venv' = "broken" /\ At(p, "build")
          /\ since' = Slots \union {"row"} /\ hurt' = (p = "ghost")
       \/ lock # p /\ Over(p, "failed") /\ UNCHANGED <<head, venv, since, hurt>>
    /\ UNCHANGED <<origin, mode, foreign, trying, row, hermesEvents>>

\* The venv is built; the output may hold a word of failure all the same.  A
\* repair does without hermes, and may lack uv.
VenvBuilt(p) ==
    /\ proc[p].at = "build"
    /\ \/ venv' = "ok" /\ hurt' = FALSE /\ \E out \in {"done", "noise"} : Over(p, out)
       \/ proc[p].kind = "repair" /\ Over(p, "done") /\ UNCHANGED <<venv, hurt>>
    /\ UNCHANGED <<origin, head, lock, mode, foreign, trying, row, hermesEvents, since>>

\* The command is killed: its lock and half a venv stay.
Interrupted(p) ==
    /\ proc[p].at \in {"git", "held", "build"} /\ Happens
    /\ Over(p, "lost") /\ lock' = IF lock = p THEN "stale" ELSE lock
    /\ UNCHANGED <<origin, head, venv, mode, foreign, trying, row, since, hurt>>

\* Its caller has waited long enough, and it runs on.
TimesOut(p) ==
    /\ p # "ghost" /\ proc.ghost = Off /\ proc[p].at \in {"git", "held", "build"} /\ Happens
    /\ proc' = [proc EXCEPT !.ghost = proc[p], ![p].at = "over", ![p].out = "lost"]
    /\ lock' = (IF lock = p THEN "ghost" ELSE lock)
    /\ hurt' = (hurt \/ (proc[p].at = "build" /\ venv = "broken"))
    /\ UNCHANGED <<origin, head, venv, mode, foreign, trying, row, since>>

GhostEnds ==
    /\ proc.ghost.at = "over" /\ proc' = [proc EXCEPT !.ghost = Off]
    /\ UNCHANGED <<repoVars, trying, row, hermesEvents, since, hurt>>

-----------------------------------------------------------------------------
(* Checks and previews *)

\* The poll, the check route, the preview in the dialog.
PollStarts ==
    /\ proc.poll = Off /\ Launch("poll", "check")
    /\ UNCHANGED <<origin, head, lock, venv, mode, trying, row, hermesEvents, since, hurt>>
Asked(p, kind) ==
    /\ proc[p] = Off /\ Happens /\ Launch(p, kind)
    /\ UNCHANGED <<origin, head, lock, venv, mode, trying, row, since, hurt>>
PreviewEnds ==
    /\ proc.preview.at = "over" /\ proc' = [proc EXCEPT !.preview = Off]
    /\ UNCHANGED <<repoVars, trying, row, hermesEvents, since, hurt>>

\* parseCheck: what is not said explicitly is not known.
Parsed(out) == IF out \in {"yes", "no"} THEN out ELSE "unknown"

Reading(p) ==
    /\ since' = (since \ {"row"}) \union (IF p \in since THEN {"row"} ELSE {})
    /\ row' = [row EXCEPT !.avail = Parsed(proc[p].out), !.error = proc[p].out \notin {"yes", "no"},
                  !.status = IF p # "update" /\ proc[p].out \in {"yes", "no"} /\ row.status # "running"
                             THEN "idle" ELSE row.status]

\* applyHermesCheck
CheckApplies(p) ==
    /\ proc[p].at = "over" /\ Reading(p)
    /\ proc' = [proc EXCEPT ![p] = Off]
    /\ UNCHANGED <<repoVars, trying, hermesEvents, hurt>>

-----------------------------------------------------------------------------
(* runHermesUpdate, HermesProbe.update *)

UpdateStarts ==
    /\ trying = "off" /\ row.status # "running" /\ Happens
    /\ row' = [row EXCEPT !.status = "running", !.error = FALSE]
    /\ trying' = "first" /\ Launch("update", "update")
    /\ UNCHANGED <<origin, head, lock, venv, mode, since, hurt>>

Goes(next, kind) ==
    /\ trying' = next /\ Launch("update", kind)
    /\ UNCHANGED <<origin, head, lock, venv, mode, hermesEvents, since, hurt>>

\* looksFailed, or the command was rejected.
LooksFailed(out) == out \in {"failed", "noise", "lost", "broken"}

\* A launcher that is broken is repaired, whether that works or not, and the
\* update is tried once more.
Repairs ==
    /\ proc.update.at = "over" /\ UNCHANGED row
    /\ \/ trying = "first" /\ proc.update.out = "broken" /\ Goes("repair", "repair")
       \/ trying = "repair" /\ Goes("probe", "probe")
       \/ trying = "probe" /\ Goes("second", "update")

UpdateFails ==
    /\ proc.update.at = "over"
    /\ \/ trying = "first" /\ proc.update.out # "broken"
       \/ trying = "second"
    /\ LooksFailed(proc.update.out)
    /\ row' = [row EXCEPT !.status = "error", !.error = TRUE]
    /\ trying' = "off" /\ proc' = [proc EXCEPT !.update = Off]
    /\ UNCHANGED <<repoVars, hermesEvents, since, hurt>>

UpdateSucceeds ==
    /\ proc.update.at = "over"
    /\ \/ trying = "first" /\ proc.update.out # "broken"
       \/ trying = "second"
    /\ ~LooksFailed(proc.update.out)
    /\ row' = [row EXCEPT !.status = "success", !.error = FALSE]
    /\ Goes("recheck", "check")

Rechecked ==
    /\ trying = "recheck" /\ proc.update.at = "over"
    /\ Reading("update") /\ trying' = "off"
    /\ proc' = [proc EXCEPT !.update = Off]
    /\ UNCHANGED <<repoVars, hermesEvents, hurt>>

OnNode(p) == Sweep(p) \/ GitBegins(p) \/ GitEnds(p) \/ VenvBuilt(p)

HermesNext ==
    \/ Commit \/ Identified
    \/ \E p \in Slots : OnNode(p) \/ Interrupted(p) \/ TimesOut(p)
    \/ GhostEnds \/ PollStarts \/ Asked("route", "check") \/ Asked("preview", "preview")
    \/ PreviewEnds \/ CheckApplies("poll") \/ CheckApplies("route")
    \/ UpdateStarts \/ Repairs \/ UpdateFails \/ UpdateSucceeds \/ Rechecked

\* The poll with its interval; all that was begun comes to its end.
HermesPolls == PollStarts \/ OnNode("poll") \/ CheckApplies("poll")
HermesEnds ==
    \/ \E p \in Slots \ {"poll"} : OnNode(p)
    \/ GhostEnds \/ PreviewEnds \/ CheckApplies("route")
    \/ Repairs \/ UpdateFails \/ UpdateSucceeds \/ Rechecked

HermesFairness == WF_hermesVars(HermesPolls) /\ WF_hermesVars(HermesEnds)

-----------------------------------------------------------------------------
HermesTypeOK ==
    /\ head <= origin /\ origin <= MaxCommits
    /\ lock \in Slots \union {"free", "stale"} /\ venv \in {"ok", "broken"}
    /\ mode \in {"local", "root"} /\ {foreign, hurt, row.error} \subseteq BOOLEAN
    /\ \A p \in Slots : proc[p].at \in {"off", "sweep", "git", "held", "build", "over"}
    /\ trying = "off" <=> proc.update = Off
    /\ row.avail \in {"unknown", "yes", "no"} /\ row.status \in {"idle", "running", "success", "error"}
    /\ since \subseteq Slots \union {"row"}

\* An update is announced only if there is one, unless the checkout was
\* updated since it was read: a fetch that fails is never a phantom update.
NoPhantomUpdate == row.avail = "yes" /\ "row" \notin since => Behind

\* An update that is called a success leaves a hermes that starts, through
\* repairs and second tries, unless a command that nobody awaits broke it.
SuccessStarts == [][row'.status = "success" /\ row.status # "success" => venv = "ok" \/ hurt]_hermesVars

\* What is shown of updates comes to be right, after stale locks and files of
\* root, unless hermes is broken.
Told == venv = "broken" \/ row.avail = (IF Behind THEN "yes" ELSE "no")
RowIsTold == []<>Told
=============================================================================
