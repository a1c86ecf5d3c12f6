----------------------------- MODULE MCServing -----------------------------
(***************************************************************************)
(* Instances of ServeEngine, and of RecipeShelf with two contents of the   *)
(* folder, side by side: side says which of them this behaviour is of, the *)
(* other rests.                                                            *)
(***************************************************************************)
EXTENDS ServeEngine, RecipeShelf, TLC

CONSTANTS
    rA, rB, sA, pA, qA, qB, qC,
    Sides    \* the parts that a run is about

VARIABLE side

SameSpark == [r \in Recipes |-> sA]
SamePort  == [r \in Recipes |-> pA]
OneRecipe == [q \in Requests |-> rA]

Set(k, v) == [key |-> k, value |-> v]

\* Both scripts with a port that is corrected and a secret that is cleared, and
\* the variant alone with settings that only the example has.
Both ==
    [scripts |-> Scripts, head |-> 1, dirty |-> FALSE,
     env |-> <<Set("PORT", 70000), Set("PORT", 8000), Set("API_KEY", Empty), Set("WORKER_IP", 5)>>,
     example |-> <<Set("PORT", 9000), Set("API_KEY", 7)>>]
VariantOnly ==
    [scripts |-> {"start-tp4.sh"}, head |-> 2, dirty |-> FALSE,
     env |-> <<Set("PORT", Empty), Set("API_KEY", 3)>>,
     example |-> <<Set("PORT", 9000), Set("NNODES", 2)>>]

Folders == {Both, VariantOnly}

servingVars == <<side, vars, shelfVars>>

ServingInit ==
    /\ side \in Sides
    /\ Init /\ ShelfInit
    /\ side # "shelf" => folder = Both

ServingNext ==
    \/ side = "engine" /\ Next /\ UNCHANGED <<side, shelfVars>>
    \/ side = "shelf" /\ ShelfNext /\ UNCHANGED <<side, vars>>
    \/ side = "shelf" /\ UNCHANGED servingVars   \* all requests may be done

ServingSpec ==
    ServingInit /\ [][ServingNext]_servingVars /\ (side = "shelf" => ShelfFairness)

-----------------------------------------------------------------------------
\* The jobs of ServeEngine keep to the life cycle of RemoteJobs.  What is known
\* of a recipe folder is what it contained, in the order of its readings, and
\* survives a restart; a run is judged by the script it runs; a recipe that can
\* be read is.
ServingKeepsWord ==
    /\ JobsFollowLifecycle
    /\ [](ShelfTypeOK /\ MetaIsSourced /\ RunIsExpected /\ NoDriftIsSame /\ RestartIsHarmless)
    /\ ReadingsAdvance /\ DeletedStays
    /\ side = "shelf" => RecipeIsRead
=============================================================================
