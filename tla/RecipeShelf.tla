----------------------------- MODULE RecipeShelf -----------------------------
(***************************************************************************)
(* What the dashboard knows of one recipe folder of a node: RecipeStore    *)
(* and DeploymentStore of server/serving, the probe that reads the folder, *)
(* and the routes of /api/serve/recipes.  The folder is edited on the node *)
(* at any time; a probe reads it once and is written to the record when    *)
(* its command returns.  The list and the refresh share one probe at a     *)
(* time, a registration runs its own.  A record that could not be saved is *)
(* known until the next restart only.                                      *)
(*                                                                         *)
(* A reading remembers which edition of the folder it is of; the code does *)
(* not know it.  What runs of the recipe is ServeEngine's: here a run      *)
(* starts and ends in one step.                                            *)
(***************************************************************************)
EXTENDS Integers, Sequences, SequencesExt

CONSTANTS
    Contents,      \* what the folder may contain: records of Content
    MaxEdits,      \* bound on edits of the folder and failures of its node
    MaxAsks        \* bound on registrations, refreshes, deletions and runs

Start    == "start.sh"
Scripts  == {Start, "start-tp4.sh"}
Public   == {"PORT", "NNODES", "WORKER_IP"}
Secret   == {"API_KEY"}
NoEntry  == "none"
Empty    == -1         \* the value of KEY=
Unset    == -2
Values   == Nat \cup {Empty}
PortRange == 1..65535
Setting  == [key : Public \cup Secret, value : Values]

\* The scripts of the folder, its .env and .env.example, the names of the
\* containers in each script, and its version: HEAD and whether what the image
\* is built of has been touched.
IsContent(c) ==
    /\ c.scripts \subseteq Scripts
    /\ c.env \in Seq(Setting) /\ c.example \in Seq(Setting)
    /\ c.head \in Nat /\ c.dirty \in BOOLEAN

ASSUME ShelfAssumption ==
    /\ \A c \in Contents : IsContent(c)
    /\ MaxEdits \in Nat /\ MaxAsks \in Nat

VARIABLES
    folder,      \* what the folder contains now
    edition,     \* how often it was edited
    reachable,   \* TRUE iff commands on the node return
    shelf,       \* the record of the folder
    board,       \* the deployment of the record
    saved,       \* both as in their files
    probing,     \* the probes under way: the shared one, and that of a registration
    asks,
    mingled,     \* history: two probes were under way at the same time
    strayed,     \* history: meta.entry was not that of the record, or changed during a run
    unsaved      \* history: a save failed

shelfVars == <<folder, edition, reachable, shelf, board, saved, probing, asks,
               mingled, strayed, unsaved>>

\* A folder that is not there, or not a recipe's.
Nothing == [scripts |-> {}, env |-> <<>>, example |-> <<>>, head |-> 0, dirty |-> FALSE]

\* The record: the entry it was registered with, the edition its meta is of and
\* the entry in meta, and whether the last probe failed.
NoRecipe == [known |-> FALSE, entry |-> NoEntry, at |-> 0, of |-> Nothing, meta |-> NoEntry, error |-> FALSE]
NoRun    == [known |-> FALSE, live |-> FALSE, variant |-> NoEntry, ran |-> NoEntry,
             version |-> Nothing, at |-> 0, really |-> Nothing]
NoProbe  == [busy |-> FALSE, entry |-> NoEntry, at |-> 0, of |-> Nothing]

\* Who may probe: the list and the refreshes, one at a time, and a registration.
Polls   == {"shared", "second"}
Callers == Polls \cup {"register"}

-----------------------------------------------------------------------------
\* parseEnvText: the last assignment of a public key wins; of a secret only
\* that some assignment is not empty is kept, never a value.
EnvLine(acc, l) ==
    IF l.key \in Public THEN [acc EXCEPT !.vars[l.key] = l.value]
    ELSE IF l.value # Empty THEN [acc EXCEPT !.secrets = @ \cup {l.key}]
    ELSE acc

ParsedEnv(lines) ==
    FoldLeft(EnvLine, [vars |-> [k \in Public |-> Unset], secrets |-> {}], lines)

\* .env over .env.example, key by key.
Vars(c) ==
    [k \in Public |-> IF ParsedEnv(c.env).vars[k] # Unset THEN ParsedEnv(c.env).vars[k]
                      ELSE ParsedEnv(c.example).vars[k]]

Secrets(c) == ParsedEnv(c.env).secrets \cup ParsedEnv(c.example).secrets

\* parseRecipeProbe: what it makes of a folder.
HasRecipe(c) == c.scripts # {}

DefaultEntry(c) == IF Start \in c.scripts THEN Start ELSE CHOOSE s \in c.scripts : TRUE

Variants(c) == c.scripts \ {Start}

MetaPort(c) == IF Vars(c)["PORT"] \in PortRange THEN Vars(c)["PORT"] ELSE 0

MetaNodes(c) ==
    IF Vars(c)["NNODES"] >= 0 THEN IF Vars(c)["NNODES"] > 1 THEN Vars(c)["NNODES"] ELSE 1
    ELSE IF Vars(c)["WORKER_IP"] >= 0 THEN 2
    ELSE 1

\* versionDrift: HEAD moved, or what the image is built of became dirty.
Drift(started, now) == started.head # now.head \/ (now.dirty /\ ~started.dirty)

-----------------------------------------------------------------------------
ShelfInit ==
    /\ folder \in Contents /\ edition = 1
    /\ reachable = TRUE
    /\ shelf = NoRecipe /\ board = NoRun
    /\ saved = [shelf |-> NoRecipe, board |-> NoRun]
    /\ probing = [c \in Callers |-> NoProbe]
    /\ asks = 0
    /\ mingled = FALSE /\ strayed = FALSE /\ unsaved = FALSE

Ask == asks < MaxAsks /\ asks' = asks + 1

\* _persist of both stores; an error is logged, and the file is as it was.
SaveBoth ==
    \/ saved' = [shelf |-> shelf', board |-> board'] /\ UNCHANGED unsaved
    \/ /\ ~unsaved /\ unsaved' = TRUE
       /\ saved' \in [shelf : {shelf', saved.shelf}, board : {board', saved.board}]

\* A record whose meta names another entry than its own, and a run whose
\* record changes its entry.
Strays ==
    strayed' = (\/ strayed
                \/ shelf'.at > 0 /\ shelf'.entry # shelf'.meta
                \/ board'.live /\ shelf'.meta # shelf.meta)

-----------------------------------------------------------------------------
\* The node.

Edit(c) ==
    /\ edition <= MaxEdits /\ c # folder
    /\ folder' = c /\ edition' = edition + 1
    /\ UNCHANGED <<reachable, shelf, board, saved, probing, asks, mingled, strayed, unsaved>>

\* The node goes, or returns.
Reach ==
    /\ ~reachable \/ edition <= MaxEdits
    /\ reachable' = ~reachable
    /\ edition' = IF reachable THEN edition + 1 ELSE edition
    /\ UNCHANGED <<folder, shelf, board, saved, probing, asks, mingled, strayed, unsaved>>

-----------------------------------------------------------------------------
\* Probes.

Probe(caller, entry) ==
    /\ probing' = [probing EXCEPT ![caller] = [NoProbe EXCEPT !.busy = TRUE, !.entry = entry]]
    /\ mingled' = (\/ mingled
                   \/ caller = "register" /\ \E c \in Polls : probing[c].busy
                   \/ caller # "register" /\ probing["register"].busy)

\* probeRecipe: one at a time.
Free == IF \E c \in Polls : probing[c].busy THEN {} ELSE {"shared"}

\* The command reads the folder as it is.
ProbeReads(caller) ==
    /\ probing[caller].busy /\ probing[caller].at = 0 /\ reachable
    /\ probing' = [probing EXCEPT ![caller].at = edition, ![caller].of = folder]
    /\ UNCHANGED <<folder, edition, reachable, shelf, board, saved, asks, mingled, strayed, unsaved>>

\* updateFromProbe: a record that was deleted meanwhile is left alone, and one
\* whose folder cannot be read keeps its meta.  A registration puts the entry it
\* asks for in meta if the folder has it, every other probe the folder's own.
Updated(rec, p) ==
    IF ~HasRecipe(p.of) THEN [rec EXCEPT !.error = TRUE]
    ELSE [rec EXCEPT
            !.at = p.at, !.of = p.of, !.error = FALSE,
            !.meta = IF p.entry \in Variants(p.of) THEN p.entry ELSE DefaultEntry(p.of),
            !.entry = IF p.entry # NoEntry THEN p.entry
                      ELSE IF @ = NoEntry THEN DefaultEntry(p.of) ELSE @]

RevivedBug(rec, p) == [Updated(rec, p) EXCEPT !.known = TRUE]

Written(rec, p) == IF rec.known THEN Updated(rec, p) ELSE rec

\* The probe returns with what it read, or its command failed.
ProbeEnds(caller) ==
    /\ probing[caller].busy /\ (probing[caller].at = 0 => ~reachable)
    /\ probing' = [probing EXCEPT ![caller] = NoProbe]
    /\ shelf' = Written(shelf, probing[caller]) /\ board' = board
    /\ IF shelf.known THEN SaveBoth ELSE UNCHANGED <<saved, unsaved>>
    /\ Strays
    /\ UNCHANGED <<folder, edition, reachable, asks, mingled>>

-----------------------------------------------------------------------------
\* The routes.

\* POST: the folder's record, new or as it is, and a probe of its own.
Register(entry) ==
    /\ Ask /\ ~probing["register"].busy
    /\ shelf' = IF shelf.known THEN shelf ELSE [NoRecipe EXCEPT !.known = TRUE, !.entry = entry]
    /\ board' = board
    /\ IF shelf.known THEN UNCHANGED <<saved, unsaved>> ELSE SaveBoth
    /\ Probe("register", entry) /\ Strays
    /\ UNCHANGED <<folder, edition, reachable>>

\* A refresh while the shared probe is under way answers at once.
Refresh ==
    /\ Ask /\ shelf.known
    /\ \E c \in Free : Probe(c, NoEntry)
    /\ UNCHANGED <<folder, edition, reachable, shelf, board, saved, strayed, unsaved>>

\* The poll of the list probes a record that has no meta.
ListProbes == shelf.known /\ shelf.at = 0

List ==
    /\ ListProbes
    /\ \E c \in Free : Probe(c, NoEntry)
    /\ UNCHANGED <<folder, edition, reachable, shelf, board, saved, asks, strayed, unsaved>>

\* Refused while the recipe runs; the deployment goes with its record.
Forgettable == shelf.known /\ ~board.live

Delete ==
    /\ Ask /\ Forgettable
    /\ shelf' = NoRecipe /\ board' = NoRun
    /\ SaveBoth
    /\ UNCHANGED <<folder, edition, reachable, probing, mingled, strayed>>

Run(variant) ==
    /\ Ask /\ shelf.known /\ reachable /\ ~board.live
    /\ variant # NoEntry => variant \in Variants(shelf.of) \cup {shelf.meta}
    /\ shelf' = shelf
    /\ board' = [known |-> TRUE, live |-> TRUE, variant |-> variant,
                 ran |-> IF variant # NoEntry THEN variant
                         ELSE IF shelf.entry # NoEntry THEN shelf.entry
                         ELSE Start,
                 version |-> shelf.of, at |-> shelf.at, really |-> folder]
    /\ SaveBoth
    /\ UNCHANGED <<folder, edition, reachable, probing, mingled, strayed>>

RunEnds ==
    /\ board.live
    /\ board' = [board EXCEPT !.live = FALSE] /\ saved' = [saved EXCEPT !.board.live = FALSE]
    /\ UNCHANGED <<folder, edition, reachable, shelf, probing, asks, mingled, strayed, unsaved>>

\* The server starts again with what its files say.
ServerBoots ==
    /\ Ask
    /\ shelf' = saved.shelf /\ board' = saved.board
    /\ probing' = [c \in Callers |-> NoProbe]
    /\ UNCHANGED <<folder, edition, reachable, saved, mingled, strayed, unsaved>>

ShelfNext ==
    \/ \E c \in Contents \cup {Nothing} : Edit(c)
    \/ Reach
    \/ \E c \in Callers : ProbeReads(c) \/ ProbeEnds(c)
    \/ \E e \in Scripts \cup {NoEntry} : Register(e) \/ Run(e)
    \/ Refresh \/ List \/ Delete \/ RunEnds \/ ServerBoots

\* The page polls the list; commands return or time out.
ShelfFairness ==
    WF_shelfVars(List \/ \E c \in Callers : ProbeReads(c) \/ ProbeEnds(c))

-----------------------------------------------------------------------------
\* _expectedContainers: those of the script that the record says was run.
ExpectedEntry == IF board.variant # NoEntry THEN board.variant ELSE shelf.meta

ShelfTypeOK ==
    /\ folder \in Contents \cup {Nothing} /\ edition \in Nat \ {0}
    /\ shelf.entry \in Scripts \cup {NoEntry} /\ shelf.meta \in Scripts \cup {NoEntry}
    /\ shelf.at \in 0..edition /\ (shelf.at > 0 <=> shelf.of # Nothing)
    /\ saved.shelf.known \in BOOLEAN
    /\ DOMAIN probing = Callers

\* Sourcing .env.example and then .env, as the recipe's scripts do.
Sourced(c, k) ==
    LET lines == c.example \o c.env
        at    == {i \in DOMAIN lines : lines[i].key = k}
    IN  IF at = {} THEN Unset ELSE lines[Max(at)].value

\* The port that the dashboard has of a recipe is the one its scripts will use,
\* and a secret that they will find is known to be there.
MetaIsSourced ==
    /\ MetaPort(shelf.of) # 0 => MetaPort(shelf.of) = Sourced(shelf.of, "PORT")
    /\ Sourced(shelf.of, "PORT") \in PortRange => MetaPort(shelf.of) = Sourced(shelf.of, "PORT")
    /\ \A k \in Secret : Sourced(shelf.of, k) \in Nat => k \in Secrets(shelf.of)
    /\ Sourced(shelf.of, "NNODES") > 0 => MetaNodes(shelf.of) = Sourced(shelf.of, "NNODES")

\* The containers that a run is judged by are those of the script it runs, as
\* long as meta names the entry of the record and a run does not see it change.
RunIsExpected == board.live /\ shelf.at > 0 /\ ~strayed => ExpectedEntry = board.ran

\* A run that was started from a record that knew the folder as it was, and of
\* which a later record shows no drift, is of the HEAD that the folder has.
NoDriftIsSame ==
    /\ board.known /\ board.version = board.really /\ HasRecipe(board.version)
    /\ shelf.at = edition
    /\ ~Drift(board.version, shelf.of)
    => board.really.head = folder.head

\* A restart changes nothing that is known, and a deployment has its record,
\* unless a save failed.
RestartIsHarmless ==
    ~unsaved => saved.shelf = shelf /\ saved.board = board /\ (board.known => shelf.known)

\* A record is not replaced by an older reading of its folder, unless the
\* probe of a registration mingled with another.
ReadingsAdvance ==
    [][shelf.known /\ shelf'.known /\ ~mingled' /\ ~unsaved => shelf'.at >= shelf.at]_shelfVars

\* A deleted record stays deleted, whatever probe was under way, until the
\* folder is registered again.
DeletedStays ==
    [][~shelf.known /\ shelf'.known /\ ~unsaved => probing'["register"].busy /\ asks' > asks]_shelfVars

\* A registered recipe that can be read comes to have its meta.
RecipeIsRead ==
    ~<>[](shelf.known /\ shelf.at = 0 /\ reachable /\ HasRecipe(folder))
=============================================================================
