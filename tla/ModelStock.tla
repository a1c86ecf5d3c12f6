----------------------------- MODULE ModelStock -----------------------------
(***************************************************************************)
(* Where the weights of a model are, and what the dashboard believes of it *)
(* (modelctlService.js): the lists of the nodes and of the NAS are caches, *)
(* answered for five times their time to live, dropped when a job of the   *)
(* transfer kind ends, and filled by reads that anybody may have under     *)
(* way.  The starts of recipes and of scripts decide by them whether the   *)
(* model is on the node, and which transfer would bring it.                *)
(***************************************************************************)
EXTENDS Naturals, FiniteSets

CONSTANTS
    Nodes, Nas,   \* the nodes with modelctl, and the store of record
    Asks,         \* requests of the dashboard
    Wishes,       \* what they may be: functions to [kind, place, nodes, forced]
    Tight,        \* nodes without the room for the model
    Stocks,       \* the contents of the stores at the start
    Transfers,    \* kinds of jobs
    MaxJobs,      \* bound on transfer jobs
    MaxFaults     \* bound on commands that fail, caches that age, and changes by hand

Places == Nodes \cup {Nas}
Shelves == {"catalog", "detail"}     \* of the NAS as well, with their own caches
Cells  == Places \cup Shelves

StoreKinds == {"queue", "download", "nas-delete"}

ASSUME StockAssumption ==
    /\ IsFiniteSet(Nodes) /\ Nas \notin Nodes /\ Tight \subseteq Nodes
    /\ Wishes \subseteq [Asks -> [kind : {"start", "script", "list", "matrix"}, place : Cells,
                            nodes : Nat, forced : BOOLEAN]]
    /\ \A w \in Wishes, r \in Asks : w[r].kind \in {"start", "script", "matrix"} => w[r].place \in Nodes
    /\ Stocks \subseteq [Places -> {"none", "bare", "full"}]
    /\ {MaxJobs, MaxFaults} \subseteq Nat

VARIABLES
    wish,
    stock,        \* the row of the model in the store of a place
    catalog,      \* whether the NAS's catalog.json has it
    cells,        \* the caches: values with their age
    tools,        \* the cache of the probes for modelctl
    ask,          \* requests: their phase and answer
    reading,      \* the read of a cell by a request
    seen,         \* what the request was told of a cell
    job,          \* the transfer that is recorded as running
    jobs, faults,
    behind        \* history: cells that may tell what was before a change nobody dropped them for

stockVars == <<wish, stock, catalog, cells, tools, ask, reading, seen, job, jobs, faults, behind>>

\* The model is not listed; listed under its store name only; or with the
\* repository as well, which is what recipes call it.
Rows == {"none", "bare", "full"}
Told == Rows \cup {"error"}

NoCell == [age |-> "gone", value |-> "none"]
NoJob  == [kind |-> "none", at |-> Nas, to |-> Nas, phase |-> "none"]
NoAnswer == [verdict |-> "none", plan |-> "none", from |-> Nas, tight |-> FALSE, busy |-> FALSE]

Source(c) == CASE c \in Places   -> stock[c]
               [] c = "catalog"  -> catalog
               [] OTHER          -> stock[Nas]

Peers(p) == Nodes \ {p}

-----------------------------------------------------------------------------
\* _cacheGet: an entry is given out, as stale, for long after its time to live,
\* and nothing reads it anew meanwhile.
Usable(c) == cells[c].age \in {"fresh", "stale"}

Bypasses(r, c) == wish[r].forced /\ c \notin Nodes /\ wish[r].kind = "list"

\* What a failure leaves: the lists keep the error as if it were a value, the
\* catalog and the details of a model keep nothing.
AfterError(c) == IF c \in Places THEN [age |-> "fresh", value |-> "error"] ELSE cells[c]

Hit(r, c)     == Usable(c) /\ ~Bypasses(r, c)
Missing(r, c) == ~Hit(r, c) /\ c \in Places /\ tools[c] = "no"

\* The request turns to the cells C at once.
Look(r, C) ==
    /\ seen' = [seen EXCEPT ![r] = [c \in Cells |->
                    CASE c \in C /\ Hit(r, c)     -> cells[c].value
                      [] c \in C /\ Missing(r, c) -> "error"
                      [] c \in C /\ ~Hit(r, c) /\ ~Missing(r, c) -> "unread"
                      [] OTHER                    -> @[c]]]
    /\ reading' = [reading EXCEPT ![r] = [c \in Cells |->
                    CASE c \notin C \/ Hit(r, c) \/ Missing(r, c) -> @[c]
                      [] OTHER                                    -> "listing"]]
    /\ cells' = [c \in Cells |-> IF c \in C /\ Missing(r, c) THEN AfterError(c) ELSE cells[c]]

Reads(r) == {c \in Cells : reading[r][c] # "no"}

-----------------------------------------------------------------------------
StockInit ==
    /\ wish \in Wishes /\ stock \in Stocks
    /\ catalog = stock[Nas]
    /\ cells = [c \in Cells |-> NoCell]
    /\ tools = [p \in Places |-> "unknown"]
    /\ ask = [r \in Asks |-> [phase |-> "idle", answer |-> NoAnswer]]
    /\ reading = [r \in Asks |-> [c \in Cells |-> "no"]]
    /\ seen = [r \in Asks |-> [c \in Cells |-> "unread"]]
    /\ job = NoJob
    /\ jobs = 0 /\ faults = 0
    /\ behind = {}

Fault == faults < MaxFaults /\ faults' = faults + 1

-----------------------------------------------------------------------------
\* Reads.

\* checkModelctl: a probe that fails is kept as an absence of modelctl.
NotFound(r, c) ==
    /\ reading[r][c] = "listing" /\ c \in Places /\ tools[c] # "yes"
    /\ Fault
    /\ tools' = [tools EXCEPT ![c] = "no"]
    /\ reading' = [reading EXCEPT ![r][c] = "no"]
    /\ cells' = [cells EXCEPT ![c] = AfterError(c)]
    /\ seen' = [seen EXCEPT ![r][c] = "error"]
    /\ UNCHANGED <<wish, stock, catalog, ask, job, jobs, behind>>

\* The command runs on the node, after the probe where it is due, or does not.
Listed(r, c) ==
    /\ reading[r][c] = "listing"
    /\ tools' = IF c \in Places THEN [tools EXCEPT ![c] = "yes"] ELSE tools
    /\ \/ reading' = [reading EXCEPT ![r][c] = Source(c)] /\ UNCHANGED faults
       \/ Fault /\ reading' = [reading EXCEPT ![r][c] = "error"]
    /\ UNCHANGED <<wish, stock, catalog, cells, ask, seen, job, jobs, behind>>

\* Its output is back: it is cached, whatever was dropped meanwhile.
Cached(r, c) ==
    /\ reading[r][c] \in Told
    /\ cells' = [cells EXCEPT ![c] =
                    IF reading[r][c] = "error" THEN AfterError(c)
                    ELSE [age |-> "fresh", value |-> reading[r][c]]]
    /\ seen' = [seen EXCEPT ![r][c] = reading[r][c]]
    /\ reading' = [reading EXCEPT ![r][c] = "no"]
    /\ UNCHANGED <<wish, stock, catalog, tools, ask, job, jobs, faults, behind>>

\* Time passes for an entry.
Aged(c) ==
    /\ Fault /\ Usable(c)
    /\ cells' = [cells EXCEPT ![c] = IF @.age = "fresh" THEN [@ EXCEPT !.age = "stale"] ELSE NoCell]
    /\ UNCHANGED <<wish, stock, catalog, tools, ask, reading, seen, job, jobs, behind>>

-----------------------------------------------------------------------------
\* Jobs.

\* Where the job is recorded: a push runs on the node that has the model.
JobStarts(k, at, to) ==
    /\ job = NoJob /\ jobs < MaxJobs
    /\ CASE k \in StoreKinds    -> at = Nas /\ to = Nas
         [] k = "push"          -> at \in Nodes /\ to \in Peers(at)
         [] OTHER               -> at \in Nodes /\ to = at
    /\ job' = [kind |-> k, at |-> at, to |-> to, phase |-> "running"]
    /\ jobs' = jobs + 1
    /\ UNCHANGED <<wish, stock, catalog, cells, tools, ask, reading, seen, faults, behind>>

Brings(k) == CASE k \in {"queue", "download"} -> "full"
               [] k = "sync"                  -> stock[Nas]
               [] k = "push"                  -> stock[job.at]
               [] OTHER                       -> "none"

\* The transfer does its work on the node; with a change of the store the
\* catalog is written anew, and that may fail without failing the job.
JobWorks ==
    /\ job.phase = "running"
    /\ job.kind \in {"sync", "push"} => Brings(job.kind) # "none"
    /\ stock' = [stock EXCEPT ![job.to] = Brings(job.kind)]
    /\ \/ catalog' = (IF job.kind \in StoreKinds THEN Brings(job.kind) ELSE catalog) /\ UNCHANGED faults
       \/ job.kind \in StoreKinds /\ Fault /\ UNCHANGED catalog
    /\ job' = [job EXCEPT !.phase = "worked"]
    /\ UNCHANGED <<wish, cells, tools, ask, reading, seen, jobs, behind>>

\* onJobTerminal: what is dropped when the record becomes terminal.
Drops(k, at) == {Nas} \cup (IF k = "queue" THEN Shelves ELSE {}) \cup ({at} \cap Nodes)

Touched(k, to) == {to} \cup (IF k \in StoreKinds THEN Shelves ELSE {})

UnderWay(c) == \E r \in Asks : reading[r][c] \in Told

JobEnds ==
    /\ job.phase \in {"running", "worked"}
    /\ LET dropped == Drops(job.kind, job.at)
           changed == IF job.phase = "worked" THEN Touched(job.kind, job.to) ELSE {}
       IN  /\ cells' = [c \in Cells |-> IF c \in dropped THEN NoCell ELSE cells[c]]
           /\ tools' = [p \in Places |-> IF p = job.at THEN "unknown" ELSE tools[p]]
           /\ behind' = (behind \ {c \in dropped : ~UnderWay(c)})
                         \cup {c \in changed : UnderWay(c)}
                         \cup {c \in changed : job.kind = "push" \/ (c \in Shelves /\ job.kind # "queue")}
    /\ job' = NoJob
    /\ UNCHANGED <<wish, stock, catalog, ask, reading, seen, jobs, faults>>

\* Somebody works on a store with modelctl itself.
ByHand(p, row) ==
    /\ Fault /\ stock[p] # row
    /\ stock' = [stock EXCEPT ![p] = row]
    /\ behind' = behind \cup {p} \cup (IF p = Nas THEN Shelves ELSE {})
    /\ UNCHANGED <<wish, catalog, cells, tools, ask, reading, seen, job, jobs>>

-----------------------------------------------------------------------------
\* Requests.

Turns(r, phase) == ask' = [ask EXCEPT ![r].phase = phase]

Answers(r, verdict, plan, from) ==
    ask' = [ask EXCEPT ![r] = [phase |-> "done",
        answer |-> [verdict |-> verdict, plan |-> plan, from |-> from,
                    tight |-> /\ wish[r].kind = "start" /\ (verdict = "blocked" \/ wish[r].forced)
                              /\ wish[r].place \in Tight /\ seen[r][Nas] = "full",
                    busy |-> wish[r].kind = "start" /\ job # NoJob /\ job.at = wish[r].place]]]

Waits(r, phase) == ask[r].phase = phase /\ Reads(r) = {}

\* checkTopology: a variant for more nodes than there are never starts.
FitsFleet(n) == n <= 1 \/ Cardinality(Nodes) >= n

Begins(r) ==
    /\ ask[r].phase = "idle"
    /\ IF wish[r].kind = "start" /\ ~FitsFleet(wish[r].nodes)
       THEN Answers(r, "refused", "none", Nas) /\ UNCHANGED <<wish, seen, reading, cells>>
       ELSE /\ Turns(r, "first")
            /\ Look(r, CASE wish[r].kind = "matrix" -> Nodes
                         [] wish[r].kind = "start" /\ wish[r].forced -> {Nas}
                         [] wish[r].kind = "script" /\ wish[r].forced -> {}
                         [] OTHER -> {wish[r].place})
    /\ UNCHANGED <<wish, stock, catalog, tools, job, jobs, faults, behind>>

\* A list is answered; a forced start goes on without the check.
Passes(r) ==
    /\ Waits(r, "first")
    /\ wish[r].kind = "list" \/ wish[r].forced
    /\ Answers(r, IF wish[r].kind = "list" THEN "listed" ELSE "started", "none", Nas)
    /\ UNCHANGED <<wish, stock, catalog, cells, tools, reading, seen, job, jobs, faults, behind>>

\* modelInInventory for recipes, which know the repository; an unread list does
\* not stop them.
ProvenAbsent(told) == told \in {"none", "bare"}

\* Scripts name the model as the stores do; a list that could not be read is
\* empty for them.
NotListed(told) == told \in {"none", "error"}

Absent(r) == LET told == seen[r][wish[r].place]
             IN  IF wish[r].kind = "start" THEN ProvenAbsent(told) ELSE NotListed(told)

Starting(r) == wish[r].kind \in {"start", "script"} /\ ~wish[r].forced

Present(r) ==
    /\ Waits(r, "first") /\ Starting(r) /\ ~Absent(r)
    /\ Answers(r, "started", "none", Nas)
    /\ UNCHANGED <<wish, stock, catalog, cells, tools, reading, seen, job, jobs, faults, behind>>

\* placementCheck asks the peers, and then the NAS; planPlacementFor all of them
\* and the node once more.
AsksOthers(r) ==
    /\ Waits(r, "first") /\ Starting(r) /\ Absent(r)
    /\ Look(r, IF wish[r].kind = "start" THEN Peers(wish[r].place) ELSE Places)
    /\ Turns(r, IF wish[r].kind = "start" THEN "peers" ELSE "nas")
    /\ UNCHANGED <<wish, stock, catalog, tools, job, jobs, faults, behind>>

AsksNas(r) ==
    /\ \/ Waits(r, "peers")
       \/ Waits(r, "first") /\ wish[r].kind = "matrix"
    /\ Look(r, {Nas})
    /\ Turns(r, "nas")
    /\ UNCHANGED <<wish, stock, catalog, tools, job, jobs, faults, behind>>

Has(r, p) == seen[r][p] \in {"bare", "full"}

\* The name that the stores use is found where a list has the repository.
Named(r) == wish[r].kind = "script" \/ \E p \in Places : seen[r][p] = "full"

\* planPlacement.
Plan(r, p) ==
    IF ~Named(r) THEN "unavailable"
    ELSE IF Has(r, p) THEN "present"
    ELSE IF Has(r, Nas) THEN "sync"
    ELSE IF \E q \in Peers(p) : Has(r, q) THEN "push"
    ELSE "unavailable"

Blocks(r) ==
    /\ Waits(r, "nas") /\ Starting(r)
    /\ LET p == wish[r].place
           from == CHOOSE q \in Peers(p) : Has(r, q)
       IN  Answers(r, "blocked", Plan(r, p), IF Plan(r, p) = "push" THEN from ELSE Nas)
    /\ UNCHANGED <<wish, stock, catalog, cells, tools, reading, seen, job, jobs, faults, behind>>

\* matrix: a node whose list could not be read does not have the model.
Shows(r) ==
    /\ Waits(r, "nas") /\ wish[r].kind = "matrix"
    /\ Answers(r, "shown", "none", Nas)
    /\ UNCHANGED <<wish, stock, catalog, cells, tools, reading, seen, job, jobs, faults, behind>>

StockNext ==
    \/ \E r \in Asks :
        \/ Begins(r) \/ Passes(r) \/ Present(r) \/ AsksOthers(r) \/ AsksNas(r) \/ Blocks(r) \/ Shows(r)
        \/ \E c \in Cells : NotFound(r, c) \/ Listed(r, c) \/ Cached(r, c)
    \/ \E c \in Cells : Aged(c)
    \/ \E k \in Transfers, at, to \in Places : JobStarts(k, at, to)
    \/ JobWorks \/ JobEnds
    \/ \E p \in Places, row \in {"none", "full"} : ByHand(p, row)

-----------------------------------------------------------------------------
StockTypeOK ==
    /\ stock \in [Places -> Rows] /\ catalog \in Rows
    /\ \A c \in Cells : cells[c].age \in {"gone", "fresh", "stale"} /\ cells[c].value \in Told
    /\ tools \in [Places -> {"unknown", "no", "yes"}]
    /\ \A r \in Asks, c \in Cells :
        /\ reading[r][c] \in Told \cup {"no", "listing"}
        /\ seen[r][c] \in Told \cup {"unread"}
    /\ behind \subseteq Cells

\* When no job is at work, a list that is given out is what the store has: an
\* ended job leaves no older one behind, but for the caches that its end does
\* not drop, reads that were under way, and what is done by hand.
InventoryIsFresh ==
    \A c \in Cells \ (behind \cup {"catalog"}) :
        Usable(c) /\ cells[c].value # "error" /\ job.phase # "worked" => cells[c].value = Source(c)

\* A recipe is kept from starting only by a list that was read and has not the
\* model; the transfer that is then proposed can be done, as far as was seen.
BlockedIsProven ==
    \A r \in Asks :
        ask[r].phase = "done" /\ ask[r].answer.verdict = "blocked" =>
            LET p == wish[r].place IN
            /\ wish[r].kind = "start" => seen[r][p] \in {"none", "bare"}
            /\ ask[r].answer.plan = "sync" => Has(r, Nas)
            /\ ask[r].answer.plan = "push" => Has(r, ask[r].answer.from) /\ ~Has(r, Nas)
            /\ ask[r].answer.plan = "unavailable" /\ seen[r][p] # "bare" => \A q \in Places : seen[r][q] # "full"
            /\ ask[r].answer.plan = "present" /\ wish[r].kind = "start" => seen[r][p] = "bare"

=============================================================================
