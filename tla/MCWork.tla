------------------------------- MODULE MCWork -------------------------------
(***************************************************************************)
(* Instances of ScriptServing, LoadRuns, BenchStreams and ModelStock, side *)
(* by side: part says which of them this behaviour is about, the others    *)
(* rest.                                                                   *)
(***************************************************************************)
EXTENDS ScriptServing, LoadRuns, BenchStreams, ModelStock, TLC

CONSTANTS kA, kB, p1, p2, p3, x1, decA, preB, showA, sA, sB, r1, r2

VARIABLE part

PathOf  == p1 :> kA @@ p2 :> kA @@ p3 :> kB
LoadOf  == decA :> "decode" @@ preB :> "prefill" @@ showA :> "showcase"
PlaceOf == decA :> sA @@ preB :> sB @@ showA :> sA

WaveSizes == <<1, 2>>

\* A start with a look at the list, a script with a forced look, the matrix with
\* a start that is too large, and a forced start with the catalog.
Wish(k, p, n, f) == [kind |-> k, place |-> p, nodes |-> n, forced |-> f]
TwoWishes ==
    {r1 :> Wish("start", sA, 2, FALSE) @@ r2 :> Wish("list", sA, 0, FALSE),
     r1 :> Wish("script", sA, 0, FALSE) @@ r2 :> Wish("list", Nas, 0, TRUE),
     r1 :> Wish("matrix", sA, 0, FALSE) @@ r2 :> Wish("start", sA, 3, FALSE),
     r1 :> Wish("start", sA, 0, TRUE) @@ r2 :> Wish("list", "catalog", 0, TRUE)}
RowsAre(a, b, c) == sA :> a @@ sB :> b @@ Nas :> c
TwoStocks == {RowsAre("none", "full", "full"), RowsAre("bare", "none", "full")}

vars == <<part, servingVars, loadVars, benchVars, stockVars>>

\* The benchmark that rests is of one kind only.
Init ==
    /\ part \in {"scripts", "load", "bench", "stock"}
    /\ ServingInit /\ LoadInit /\ BenchInit /\ StockInit
    /\ part # "bench" => benchKind = "decode" /\ refused = {}
    /\ part # "stock" =>
        /\ stock = RowsAre("none", "full", "full")
        /\ wish = r1 :> Wish("start", sA, 0, TRUE) @@ r2 :> Wish("list", "catalog", 0, TRUE)

Next ==
    \/ part = "scripts" /\ ServingNext /\ UNCHANGED <<part, loadVars, benchVars, stockVars>>
    \/ part = "load" /\ LoadNext /\ UNCHANGED <<part, servingVars, benchVars, stockVars>>
    \/ part = "bench" /\ BenchNext /\ UNCHANGED <<part, servingVars, loadVars, stockVars>>
    \/ part = "stock" /\ StockNext /\ UNCHANGED <<part, servingVars, loadVars, benchVars>>

Spec ==
    /\ Init /\ [][Next]_vars
    /\ part # "bench" \/ BenchFairness

-----------------------------------------------------------------------------
\* Type correctness of the four.
WorkTypesOK == ServingTypeOK /\ LoadTypeOK /\ BenchTypeOK /\ StockTypeOK

\* The pid file of a script stands for its process: it runs once, and can be
\* found and stopped, unless its commands overlapped.  What is believed of the
\* model it needs is what the stores have, and nothing less keeps a recipe from
\* starting.
ScriptsAreKnown == OneInstance /\ RunIsKnown /\ InventoryIsFresh /\ BlockedIsProven

\* Runs keep to their spark and their cap, managers know what runs, and every
\* benchmark is reported; its rows are those of its levels, each measured to
\* its end, with requests that the engine takes; no tunnel stays open.
LoadIsKept ==
    /\ BenchIsActive /\ KeepsOff /\ EveryBenchReported
    /\ CompletedIsWhole /\ CutIsDropped /\ AskedInItsWords /\ NothingLeft

\* What was reported is so, and stays so: a stopped script has ended, and the
\* outcome of a run is not revised.  A benchmark ends by its timers.
ReportsHold ==
    /\ StopStops /\ ReportIsFinal /\ ReportStays
    /\ part = "bench" => BenchEnds
=============================================================================
