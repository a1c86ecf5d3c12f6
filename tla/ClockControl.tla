---------------------------- MODULE ClockControl ----------------------------
(***************************************************************************)
(* The clocks of one spark (server/clocks/clockControl.js and its routes   *)
(* in server/index.js): the clocks an operator sets, the file that         *)
(* remembers them, and the reconcile that applies them again when the      *)
(* spark comes online.                                                     *)
(*                                                                         *)
(* A handler, a request to set clocks or the reconcile, awaits the status  *)
(* of the node and then the apply script, which runs one command per       *)
(* domain without set -e: its exit status is that of the last one, and     *)
(* over the agent no exit status is looked at.  A target is a frequency or *)
(* Default, what a reset gives; bounds and formats are left out.           *)
(***************************************************************************)
EXTENDS Naturals

CONSTANTS
    Sets,       \* requests to set clocks
    Reconcile,  \* the reconcile of this spark
    Targets,    \* parts a request may ask for, as functions from domains
    Unset,      \* no target remembered
    Default,    \* the clocks after a boot
    MaxBoots    \* bound: reboots of the node

Handlers == Sets \union {Reconcile}
ClockDomains == {"gpu", "cpu"}
Freqs == UNION {{t[d] : d \in DOMAIN t} : t \in Targets}

ASSUME ClockAssumption ==
    /\ Reconcile \notin Sets
    /\ \A t \in Targets : DOMAIN t \in (SUBSET ClockDomains) \ {{}}
    /\ Unset \notin Freqs \union {Default} /\ MaxBoots \in Nat

VARIABLES
    desired,    \* desired[d], in spark-clocks.json
    applied,    \* lastApplied[d], in spark-clocks.json
    clocks,     \* clocks[d]: what the node runs at
    helper,     \* spark-clock and its sudoers entry are installed
    stage,      \* stage[h]: where handler h is
    parts,      \* parts[h]: what it applies
    outcome,    \* outcome[h]: how the script ended
    boots,      \* reboots so far
    due,        \* the node came up and was not reconciled since
    clash,      \* history: domains two handlers applied at a time
    loose       \* history: domains with a command that failed or was lost, or met a reboot

file      == <<desired, applied>>
clockVars == <<file, clocks, helper, stage, parts, outcome, boots, due, clash, loose>>

ClockInit ==
    /\ desired = [d \in ClockDomains |-> Unset] /\ applied = desired
    /\ clocks = [d \in ClockDomains |-> Default]
    /\ helper \in BOOLEAN
    /\ stage = [h \in Handlers |-> "idle"]
    /\ parts = [h \in Handlers |-> <<>>]
    /\ outcome = [h \in Handlers |-> "none"]
    /\ boots = 0 /\ due = FALSE /\ clash = {} /\ loose = {}

\* Stages in which a handler has settled what it will apply.
Underway(h) == stage[h] \in {"applying", "ran"} \/ (h = Reconcile /\ stage[h] = "status")

Clashing(h, ds) == {d \in ds : \E g \in Handlers \ {h} : Underway(g) /\ d \in DOMAIN parts[g]}

ClockMoves(h, s) == stage' = [stage EXCEPT ![h] = s]

-----------------------------------------------------------------------------
(* POST /api/sparks/:id/clocks *)

SetBegins(h, t) ==
    /\ stage[h] = "idle"
    /\ ClockMoves(h, "status")
    /\ parts' = [parts EXCEPT ![h] = t]
    /\ UNCHANGED <<file, clocks, helper, outcome, boots, due, clash, loose>>

\* The status failed, or the bounds refuse the request.
SetRefused(h) ==
    /\ h \in Sets /\ stage[h] = "status"
    /\ ClockMoves(h, "done")
    /\ UNCHANGED <<file, clocks, helper, parts, outcome, boots, due, clash, loose>>

SetApplies(h) ==
    /\ h \in Sets /\ stage[h] = "status"
    /\ ClockMoves(h, "applying")
    /\ clash' = clash \union Clashing(h, DOMAIN parts[h])
    /\ UNCHANGED <<file, clocks, helper, parts, outcome, boots, due, loose>>

\* recordApply: desired and lastApplied of the parts.
Recorded(h, f) == [d \in ClockDomains |-> IF d \in DOMAIN parts[h] THEN parts[h][d] ELSE f[d]]

SetReturns(h) ==
    /\ h \in Sets /\ stage[h] = "ran" /\ outcome[h] = "ok"
    /\ ClockMoves(h, "done")
    /\ desired' = Recorded(h, desired) /\ applied' = Recorded(h, applied)
    /\ UNCHANGED <<clocks, helper, parts, outcome, boots, due, clash, loose>>

-----------------------------------------------------------------------------
(* The script on the node *)

\* The commands that succeed; without the helper the script ends before them.
\* gpu goes before cpu.
LastOf(t) == IF "cpu" \in DOMAIN t THEN "cpu" ELSE "gpu"

ApplyRuns(h) ==
    LET t == parts[h] IN
    /\ stage[h] = "applying"
    /\ ClockMoves(h, "ran")
    /\ \E good \in IF helper THEN SUBSET DOMAIN t ELSE {{}} :
          /\ clocks' = [d \in ClockDomains |-> IF d \in good THEN t[d] ELSE clocks[d]]
          /\ outcome' \in {[outcome EXCEPT ![h] = o] :
                              o \in IF LastOf(t) \in good THEN {"ok"} ELSE {"ok", "error"}}
          /\ loose' = IF good = DOMAIN t THEN loose ELSE loose \union DOMAIN t
    /\ UNCHANGED <<file, helper, parts, boots, due, clash>>

\* The script failed, or its result was lost: nothing is recorded.
ApplyFails(h) ==
    /\ stage[h] \in {"applying", "ran"}
    /\ ClockMoves(h, IF h = Reconcile THEN "idle" ELSE "done")
    /\ loose' = IF stage[h] = "ran" THEN loose \union DOMAIN parts[h] ELSE loose
    /\ UNCHANGED <<file, clocks, helper, parts, outcome, boots, due, clash>>

\* POST /api/sparks/:id/clocks/install
Install ==
    /\ ~helper /\ helper' = TRUE
    /\ UNCHANGED <<file, clocks, stage, parts, outcome, boots, due, clash, loose>>

Reboot ==
    /\ boots < MaxBoots /\ boots' = boots + 1
    /\ clocks' = [d \in ClockDomains |-> Default]
    /\ due' = TRUE
    /\ loose' = IF \E h \in Handlers : Underway(h) THEN ClockDomains ELSE loose
    /\ UNCHANGED <<file, helper, stage, parts, outcome, clash>>

-----------------------------------------------------------------------------
(* reconcileSpark, called when the spark comes online *)

Remembered == {d \in ClockDomains : desired[d] # Unset}

\* What is remembered now is what will be applied; one run at a time.
ReconcileBegins ==
    LET ds == Remembered IN
    /\ stage[Reconcile] = "idle" /\ ds # {}
    /\ ClockMoves(Reconcile, "status")
    /\ parts' = [parts EXCEPT ![Reconcile] = [d \in ds |-> desired[d]]]
    /\ clash' = clash \union Clashing(Reconcile, ds)
    /\ UNCHANGED <<file, clocks, helper, outcome, boots, due, loose>>

ReconcileApplies ==
    /\ stage[Reconcile] = "status" /\ helper
    /\ ClockMoves(Reconcile, "applying")
    /\ UNCHANGED <<file, clocks, helper, parts, outcome, boots, due, clash, loose>>

\* No helper on the node, or its status cannot be read.
ReconcileGivesUp ==
    /\ stage[Reconcile] = "status"
    /\ ClockMoves(Reconcile, "idle")
    /\ UNCHANGED <<file, clocks, helper, parts, outcome, boots, due, clash, loose>>

\* lastApplied is stamped; what is desired is left as it is by now.
ReconcileReturns ==
    /\ stage[Reconcile] = "ran" /\ outcome[Reconcile] = "ok"
    /\ ClockMoves(Reconcile, "idle")
    /\ applied' = Recorded(Reconcile, applied)
    /\ due' = FALSE
    /\ UNCHANGED <<desired, clocks, helper, parts, outcome, boots, clash, loose>>

-----------------------------------------------------------------------------
ClockNext ==
    \/ Install \/ Reboot
    \/ ReconcileBegins \/ ReconcileApplies \/ ReconcileGivesUp \/ ReconcileReturns
    \/ \E h \in Sets : (\E t \in Targets : SetBegins(h, t)) \/ SetRefused(h) \/ SetApplies(h) \/ SetReturns(h)
    \/ \E h \in Handlers : ApplyRuns(h) \/ ApplyFails(h)

ClockSpec == ClockInit /\ [][ClockNext]_clockVars

ClockTypeOK ==
    /\ desired \in [ClockDomains -> Freqs \union {Unset}]
    /\ applied \in [ClockDomains -> Freqs \union {Unset}]
    /\ clocks \in [ClockDomains -> Freqs \union {Default}]
    /\ helper \in BOOLEAN /\ due \in BOOLEAN /\ boots \in 0..MaxBoots
    /\ stage \in [Handlers -> {"idle", "status", "applying", "ran", "done"}]
    /\ outcome \in [Handlers -> {"none", "ok", "error"}]
    /\ clash \subseteq ClockDomains /\ loose \subseteq ClockDomains

\* Once nobody applies anything and the node was reconciled since its boot,
\* it runs at what is remembered and shown as applied, unless two handlers
\* applied the same domain at a time (their records may land in another order
\* than their commands) or a command failed or was lost.
ClocksAgree ==
    ~due /\ (\A h \in Handlers : ~Underway(h)) =>
        \A d \in Remembered \ (clash \union loose) : clocks[d] = desired[d] /\ applied[d] = desired[d]

\* What the file calls applied was applied: the node ran at it after the last
\* record of the domain.  The code's comment says so; a command whose failure
\* the exit status hides is recorded all the same.
AppliedWasApplied == [][\A d \in ClockDomains : applied'[d] # applied[d] => clocks[d] = applied'[d]]_clockVars
=============================================================================
