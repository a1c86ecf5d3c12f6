------------------------------ MODULE MCSpark ------------------------------
(***************************************************************************)
(* Instances of SparkMonitor, ClockControl, HermesRepo and FleetPower,     *)
(* side by side: part says which of them this behaviour is about, the      *)
(* others rest.                                                            *)
(***************************************************************************)
EXTENDS SparkMonitor, ClockControl, HermesRepo, FleetPower, TLC

CONSTANTS storage, hermesChecks, h1, h2, low

VARIABLE part

\* The gpu alone, and both domains with the cpu at its default.
TwoTargets == {"gpu" :> low, "gpu" :> Default @@ "cpu" :> low}

TwoRemotes == <<"one", "two">>

vars == <<part, monVars, clockVars, hermesVars, powerVars>>

Init ==
    /\ part \in {"monitor", "clocks", "repo", "power"}
    /\ MonitorInit /\ ClockInit /\ HermesInit /\ PowerInit
    /\ part # "monitor" => enabled = {}
    /\ part # "clocks" => ~helper
    /\ part # "repo" => mode = "local" /\ venv = "ok" /\ origin = 0
    /\ host["one"] = "on" /\ (part # "power" => host["two"] = "on")

OnMonitor(step) == part = "monitor" /\ step /\ UNCHANGED <<part, clockVars, hermesVars, powerVars>>
OnClocks(step) == part = "clocks" /\ step /\ UNCHANGED <<part, monVars, hermesVars, powerVars>>
OnRepo(step) == part = "repo" /\ step /\ UNCHANGED <<part, monVars, clockVars, powerVars>>
OnPower(step) == part = "power" /\ step /\ UNCHANGED <<part, monVars, clockVars, hermesVars>>

Next ==
    \/ OnMonitor(MonitorNext) \/ OnClocks(ClockNext)
    \/ OnRepo(HermesNext) \/ OnPower(PowerNext)

\* MonitorFairness, HermesFairness or PowerFairness, of the part that runs.
Spec ==
    /\ Init /\ [][Next]_vars
    /\ WF_vars(OnMonitor(UpdateEnds) \/ OnRepo(HermesPolls) \/ OnPower(Settles))
    /\ WF_vars(OnRepo(HermesEnds))

-----------------------------------------------------------------------------
\* Type correctness of the four.
SparkTypesOK == MonitorTypeOK /\ ClockTypeOK /\ HermesTypeOK /\ PowerTypeOK

\* What is shown and recorded of a spark is of now: polls that return late
\* neither bring back what is out of date nor unlock the poll of another
\* generation, the transport is that of the connection, the clocks of the
\* node are those of the file, and a fetch of Hermes that failed announces
\* no update.  A batch shuts its own host down last, and a node that is
\* reported as going down was told to.
SparkAgrees ==
    /\ FreshIsCurrent /\ CommitsItsOwn /\ GuardIsExact /\ TransportFollows
    /\ ClocksAgree /\ NoPhantomUpdate
    /\ LocalLast /\ OkWasTold

\* What is announced is so: a spark that comes online has its clocks applied
\* again (ComingOnlineFires), an update of Hermes that is called a success
\* leaves a Hermes that starts (SuccessStarts).
NewsIsTrue == ComingOnlineFires /\ SuccessStarts

\* An update does not stay "running" (HermesSettles), the row comes to tell
\* of the updates there are (RowIsTold), and every request about the power of
\* nodes, and a process that ends, come to their ends (CallsEnd).
SparkComesRight ==
    []<>~(\/ part = "monitor" /\ running /\ hermes = "running"
          \/ part = "repo" /\ ~Told
          \/ part = "power" /\ ~AtRest)
=============================================================================
