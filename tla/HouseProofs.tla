----------------------------- MODULE HouseProofs -----------------------------
(***************************************************************************)
(* Proofs about MCHouse and MCServing.  First the starts and stops of      *)
(* recipes (ServeEngine), for any recipes, sparks, ports and requests,     *)
(* whoever may be removed or cancelled, and with crashes or without.  Then *)
(* what the dashboard keeps of its secrets and its settings                *)
(* (DashboardConfig), and the shared connection (SshMux), for any owners,  *)
(* keys, calls and bounds. Last what is known of a recipe folder           *)
(* (RecipeShelf), for any contents, and what its .env parses to, for any   *)
(* lines.                                                                  *)
(***************************************************************************)
EXTENDS MCHouse, MCServing, Sums, SequenceTheorems

\* A start that is past its checks and has not returned.
Begun(q) == phase[q] \in {"placing", "launching", "launched"}

\* Which requests get where, and what is there of them by then: nothing on the
\* node before the launch ran, no job before it returned.
Phases ==
    \A q \in Requests :
        /\ Begun(q) \/ phase[q] = "settled" \/ driver[q] # "absent" => q \in Starts
        /\ phase[q] = "cancelling" => q \in Stops
        /\ phase[q] \notin {"launched", "done"} => driver[q] = "absent"
        /\ phase[q] = "launched" => driver[q] # "absent"
        /\ job[q] # "none" => phase[q] = "done" /\ driver[q] # "absent"

\* A driver that lives is being launched, or has a job that runs.
AliveIsHeld ==
    \A q \in Requests : driver[q] = "alive" =>
        phase[q] = "launched" \/ job[q] = "running" \/ TargetOf[q] \in loose

\* While a recipe is stopped, a driver that lives has been launched by a start
\* that came after, or some stop will still cancel it; containers that are up
\* will be stopped, or belong to such a start.
StopsTake ==
    \A r \in Recipes \ (raced \union loose) : desired[r] = "stopped" =>
        /\ \A d \in Requests : TargetOf[d] = r /\ driver[d] = "alive" =>
              \/ phase[d] = "launched"
              \/ \E q \in Requests : TargetOf[q] = r /\ phase[q] = "cancelling" /\ d \in todo[q]
        /\ engine[r] =>
              \E q \in Requests : TargetOf[q] = r /\ phase[q] \in {"cancelling", "launched"}

\* What a start has checked is still so when it returns, unless it was
\* overtaken, and the port it has ensured is still probed.
StartsHold ==
    \A q \in Requests : Begun(q) /\ TargetOf[q] \notin raced =>
        /\ recipe[TargetOf[q]] = "live" /\ SparkOf[TargetOf[q]] \in known
        /\ phase[q] # "placing" => PortPair(TargetOf[q]) \in ports

IInv ==
    /\ TypeOK /\ Phases /\ AliveIsHeld /\ StopsTake /\ StartsHold
    /\ DeletedIsIdle /\ OrphanIsStopped /\ DesiredIsProbed

-----------------------------------------------------------------------------
\* The initial states satisfy the invariant.
LEMMA InitIInv == Init => IInv
  BY ServeAssumption DEF Init, IInv, TypeOK, Phases, Begun, AliveIsHeld, StopsTake, StartsHold,
     DeletedIsIdle, ActiveJobs, OrphanIsStopped, DesiredIsProbed, JobEnd

\* The invariant implies that stops are final.
LEMMA IInvImplies == IInv => StopIsFinal
  BY ServeAssumption DEF IInv, Phases, Begun, StopsTake, StopIsFinal, Stopping, Starting, Alive, TypeOK

-----------------------------------------------------------------------------
(* Starts *)

\* The checks of a start.
LEMMA StartBeginsStep ==
  ASSUME IInv, NEW q \in Requests, StartBegins(q)
  PROVE  IInv'
<1> USE ServeAssumption DEF StartBegins, Goto, fleet, store, node, hist, Begun
<1>1. TypeOK'
  BY DEF IInv, TypeOK
<1>2. Phases'
  BY DEF IInv, TypeOK, Phases
<1>3. AliveIsHeld'
  BY DEF IInv, TypeOK, Phases, AliveIsHeld
<1>4. StopsTake'
  BY DEF IInv, TypeOK, Phases, StopsTake
<1>5. StartsHold'
  BY DEF IInv, TypeOK, StartsHold, Startable, PortPair
<1>6. DeletedIsIdle' /\ OrphanIsStopped' /\ DesiredIsProbed'
  BY DEF IInv, DeletedIsIdle, ActiveJobs, OrphanIsStopped, DesiredIsProbed, PortPair
<1> QED
  BY <1>1, <1>2, <1>3, <1>4, <1>5, <1>6 DEF IInv
\* A start that is blocked.
LEMMA StartBlockedStep ==
  ASSUME IInv, NEW q \in Requests, StartBlocked(q)
  PROVE  IInv'
<1> USE ServeAssumption DEF StartBlocked, fleet, store, node, handler, hist, Begun, Goto
<1>1. TypeOK'
  BY DEF IInv, TypeOK
<1>2. Phases'
  BY DEF IInv, TypeOK, Phases
<1>3. AliveIsHeld'
  BY DEF IInv, TypeOK, Phases, AliveIsHeld
<1>4. StopsTake'
  BY DEF IInv, TypeOK, Phases, AliveIsHeld, StopsTake
<1>5. StartsHold'
  BY DEF IInv, TypeOK, Phases, StartsHold, PortPair, Startable
<1>6. DeletedIsIdle' /\ OrphanIsStopped' /\ DesiredIsProbed'
  BY DEF IInv, TypeOK, Phases, StartsHold, DeletedIsIdle, ActiveJobs, OrphanIsStopped, DesiredIsProbed, PortPair
<1> QED
  BY <1>1, <1>2, <1>3, <1>4, <1>5, <1>6 DEF IInv

\* A start that ensures its port.
LEMMA StartLaunchesStep ==
  ASSUME IInv, NEW q \in Requests, StartLaunches(q)
  PROVE  IInv'
<1> USE ServeAssumption DEF StartLaunches, fleet, store, node, handler, hist, Begun, Goto, Ensured
<1>1. TypeOK'
  BY DEF IInv, TypeOK, PortPair
<1>2. Phases'
  BY DEF IInv, TypeOK, Phases
<1>3. AliveIsHeld'
  BY DEF IInv, TypeOK, Phases, AliveIsHeld
<1>4. StopsTake'
  BY DEF IInv, TypeOK, Phases, AliveIsHeld, StopsTake
<1>5. StartsHold'
  BY DEF IInv, TypeOK, Phases, StartsHold, PortPair, Startable
<1>6. DeletedIsIdle' /\ OrphanIsStopped' /\ DesiredIsProbed'
  BY DEF IInv, TypeOK, Phases, StartsHold, DeletedIsIdle, ActiveJobs, OrphanIsStopped, DesiredIsProbed, PortPair
<1> QED
  BY <1>1, <1>2, <1>3, <1>4, <1>5, <1>6 DEF IInv

\* The launch runs on the node.
LEMMA LaunchRunsStep ==
  ASSUME IInv, NEW q \in Requests, LaunchRuns(q)
  PROVE  IInv'
<1> USE ServeAssumption DEF LaunchRuns, fleet, store, node, handler, hist, Begun, Goto
<1>1. TypeOK'
  BY DEF IInv, TypeOK
<1>2. Phases'
  BY DEF IInv, TypeOK, Phases
<1>3. AliveIsHeld'
  BY DEF IInv, TypeOK, Phases, AliveIsHeld
<1>4. StopsTake'
  BY DEF IInv, TypeOK, Phases, AliveIsHeld, StopsTake
<1>5. StartsHold'
  BY DEF IInv, TypeOK, Phases, StartsHold, PortPair, Startable
<1>6. DeletedIsIdle' /\ OrphanIsStopped' /\ DesiredIsProbed'
  BY DEF IInv, TypeOK, Phases, StartsHold, DeletedIsIdle, ActiveJobs, OrphanIsStopped, DesiredIsProbed, PortPair
<1> QED
  BY <1>1, <1>2, <1>3, <1>4, <1>5, <1>6 DEF IInv

\* The job and the deployment are recorded.
LEMMA LaunchedStep ==
  ASSUME IInv, NEW q \in Requests, Launched(q)
  PROVE  IInv'
<1> USE ServeAssumption DEF Launched, fleet, store, node, handler, hist, Begun, Goto, JobEnd
<1>1. TypeOK'
  BY DEF IInv, TypeOK
<1>2. Phases'
  BY DEF IInv, TypeOK, Phases
<1>3. AliveIsHeld'
  BY DEF IInv, TypeOK, Phases, AliveIsHeld
<1>4. StopsTake'
  BY DEF IInv, TypeOK, Phases, AliveIsHeld, StopsTake
<1>5. StartsHold'
  BY DEF IInv, TypeOK, Phases, StartsHold, PortPair, Startable
<1>6. DeletedIsIdle'
  BY DEF IInv, TypeOK, Phases, StartsHold, DeletedIsIdle, ActiveJobs
<1>7. OrphanIsStopped'
  BY DEF IInv, TypeOK, Phases, StartsHold, OrphanIsStopped
<1>8. DesiredIsProbed'
  BY DEF IInv, TypeOK, Phases, StartsHold, DesiredIsProbed, PortPair
<1> QED
  BY <1>1, <1>2, <1>3, <1>4, <1>5, <1>6, <1>7, <1>8 DEF IInv

\* The launch fails.
LEMMA LaunchFailsStep ==
  ASSUME IInv, NEW q \in Requests, LaunchFails(q)
  PROVE  IInv'
<1> USE ServeAssumption DEF LaunchFails, fleet, store, node, handler, hist, Begun, Goto
<1>1. TypeOK'
  BY DEF IInv, TypeOK
<1>2. Phases'
  BY DEF IInv, TypeOK, Phases
<1>3. AliveIsHeld'
  BY DEF IInv, TypeOK, Phases, AliveIsHeld
<1>4. StopsTake'
  BY DEF IInv, TypeOK, Phases, AliveIsHeld, StopsTake
<1>5. StartsHold'
  BY DEF IInv, TypeOK, Phases, StartsHold, PortPair, Startable
<1>6. DeletedIsIdle' /\ OrphanIsStopped' /\ DesiredIsProbed'
  BY DEF IInv, TypeOK, Phases, StartsHold, DeletedIsIdle, ActiveJobs, OrphanIsStopped, DesiredIsProbed, PortPair
<1> QED
  BY <1>1, <1>2, <1>3, <1>4, <1>5, <1>6 DEF IInv

-----------------------------------------------------------------------------
(* Stops *)

\* A stop begins.
LEMMA StopBeginsStep ==
  ASSUME IInv, NEW q \in Requests, StopBegins(q)
  PROVE  IInv'
<1> USE ServeAssumption DEF StopBegins, fleet, store, node, handler, hist, Begun, Goto, LiveJobs, ActiveJobs, Overtaken, Starting
<1>1. TypeOK'
  BY DEF IInv, TypeOK
<1>2. Phases'
  BY DEF IInv, TypeOK, Phases
<1>3. AliveIsHeld'
  BY DEF IInv, TypeOK, Phases, AliveIsHeld
<1>4. StopsTake'
  BY DEF IInv, TypeOK, Phases, AliveIsHeld, StopsTake
<1>5. StartsHold'
  BY DEF IInv, TypeOK, Phases, StartsHold, PortPair, Startable
<1>6. DeletedIsIdle' /\ OrphanIsStopped' /\ DesiredIsProbed'
  BY DEF IInv, TypeOK, Phases, StartsHold, DeletedIsIdle, ActiveJobs, OrphanIsStopped, DesiredIsProbed, PortPair
<1> QED
  BY <1>1, <1>2, <1>3, <1>4, <1>5, <1>6 DEF IInv

\* A stop cancels one job.
LEMMA StopCancelsStep ==
  ASSUME IInv, NEW q \in Requests, StopCancels(q)
  PROVE  IInv'
<1> USE ServeAssumption DEF StopCancels, fleet, store, node, handler, hist, Begun, Kill, Marked, JobEnd
<1>1. TypeOK'
  BY DEF IInv, TypeOK
<1>2. Phases'
  BY DEF IInv, TypeOK, Phases
<1>3. AliveIsHeld'
  BY DEF IInv, TypeOK, Phases, AliveIsHeld
<1>4. StopsTake'
  BY DEF IInv, TypeOK, Phases, AliveIsHeld, StopsTake
<1>5. StartsHold'
  BY DEF IInv, TypeOK, Phases, StartsHold, PortPair, Startable
<1>6. DeletedIsIdle' /\ OrphanIsStopped' /\ DesiredIsProbed'
  BY DEF IInv, TypeOK, Phases, StartsHold, DeletedIsIdle, ActiveJobs, OrphanIsStopped, DesiredIsProbed, PortPair
<1> QED
  BY <1>1, <1>2, <1>3, <1>4, <1>5, <1>6 DEF IInv

\* The stop verb runs.
LEMMA StopVerbStep ==
  ASSUME IInv, NEW q \in Requests, StopVerb(q)
  PROVE  IInv'
<1> USE ServeAssumption DEF StopVerb, fleet, store, node, handler, hist, Begun, Goto
<1>1. TypeOK'
  BY DEF IInv, TypeOK
<1>2. Phases'
  BY DEF IInv, TypeOK, Phases
<1>3. AliveIsHeld'
  BY DEF IInv, TypeOK, Phases, AliveIsHeld
<1>4. StopsTake'
  BY DEF IInv, TypeOK, Phases, AliveIsHeld, StopsTake
<1>5. StartsHold'
  BY DEF IInv, TypeOK, Phases, StartsHold, PortPair, Startable
<1>6. DeletedIsIdle' /\ OrphanIsStopped' /\ DesiredIsProbed'
  BY DEF IInv, TypeOK, Phases, StartsHold, DeletedIsIdle, ActiveJobs, OrphanIsStopped, DesiredIsProbed, PortPair
<1> QED
  BY <1>1, <1>2, <1>3, <1>4, <1>5, <1>6 DEF IInv

\* A job is cancelled by itself.
LEMMA CancelJobStep ==
  ASSUME IInv, NEW q \in Requests, CancelJob(q)
  PROVE  IInv'
<1> USE ServeAssumption DEF CancelJob, fleet, store, node, handler, hist, Begun, Kill, Marked, JobEnd
<1>1. TypeOK'
  BY DEF IInv, TypeOK
<1>2. Phases'
  BY DEF IInv, TypeOK, Phases
<1>3. AliveIsHeld'
  BY DEF IInv, TypeOK, Phases, AliveIsHeld
<1>4. StopsTake'
  BY DEF IInv, TypeOK, Phases, AliveIsHeld, StopsTake
<1>5. StartsHold'
  BY DEF IInv, TypeOK, Phases, StartsHold, PortPair, Startable
<1>6. DeletedIsIdle' /\ OrphanIsStopped' /\ DesiredIsProbed'
  BY DEF IInv, TypeOK, Phases, StartsHold, DeletedIsIdle, ActiveJobs, OrphanIsStopped, DesiredIsProbed, PortPair
<1> QED
  BY <1>1, <1>2, <1>3, <1>4, <1>5, <1>6 DEF IInv

-----------------------------------------------------------------------------
(* The node and the job layer *)

\* A driver launches the containers.
LEMMA DriverLaunchesStep ==
  ASSUME IInv, NEW q \in Requests, DriverLaunches(q)
  PROVE  IInv'
<1> USE ServeAssumption DEF DriverLaunches, fleet, store, node, handler, hist, Begun
<1>1. TypeOK'
  BY DEF IInv, TypeOK
<1>2. Phases'
  BY DEF IInv, TypeOK, Phases
<1>3. AliveIsHeld'
  BY DEF IInv, TypeOK, Phases, AliveIsHeld
<1>4. StopsTake'
  BY DEF IInv, TypeOK, Phases, AliveIsHeld, StopsTake
<1>5. StartsHold'
  BY DEF IInv, TypeOK, Phases, StartsHold, PortPair, Startable
<1>6. DeletedIsIdle' /\ OrphanIsStopped' /\ DesiredIsProbed'
  BY DEF IInv, TypeOK, Phases, StartsHold, DeletedIsIdle, ActiveJobs, OrphanIsStopped, DesiredIsProbed, PortPair
<1> QED
  BY <1>1, <1>2, <1>3, <1>4, <1>5, <1>6 DEF IInv

\* A driver ends.
LEMMA DriverEndsStep ==
  ASSUME IInv, NEW q \in Requests, DriverEnds(q)
  PROVE  IInv'
<1> USE ServeAssumption DEF DriverEnds, fleet, store, node, handler, hist, Begun
<1>1. TypeOK'
  BY DEF IInv, TypeOK
<1>2. Phases'
  BY DEF IInv, TypeOK, Phases
<1>3. AliveIsHeld'
  BY DEF IInv, TypeOK, Phases, AliveIsHeld
<1>4. StopsTake'
  BY DEF IInv, TypeOK, Phases, AliveIsHeld, StopsTake
<1>5. StartsHold'
  BY DEF IInv, TypeOK, Phases, StartsHold, PortPair, Startable
<1>6. DeletedIsIdle' /\ OrphanIsStopped' /\ DesiredIsProbed'
  BY DEF IInv, TypeOK, Phases, StartsHold, DeletedIsIdle, ActiveJobs, OrphanIsStopped, DesiredIsProbed, PortPair
<1> QED
  BY <1>1, <1>2, <1>3, <1>4, <1>5, <1>6 DEF IInv

\* The end of a job is seen.
LEMMA JobEndsStep ==
  ASSUME IInv, NEW q \in Requests, JobEnds(q)
  PROVE  IInv'
<1> USE ServeAssumption DEF JobEnds, fleet, store, node, handler, hist, Begun, JobEnd
<1>1. TypeOK'
  BY DEF IInv, TypeOK
<1>2. Phases'
  BY DEF IInv, TypeOK, Phases
<1>3. AliveIsHeld'
  BY DEF IInv, TypeOK, Phases, AliveIsHeld
<1>4. StopsTake'
  BY DEF IInv, TypeOK, Phases, AliveIsHeld, StopsTake
<1>5. StartsHold'
  BY DEF IInv, TypeOK, Phases, StartsHold, PortPair, Startable
<1>6. DeletedIsIdle' /\ OrphanIsStopped' /\ DesiredIsProbed'
  BY DEF IInv, TypeOK, Phases, StartsHold, DeletedIsIdle, ActiveJobs, OrphanIsStopped, DesiredIsProbed, PortPair
<1> QED
  BY <1>1, <1>2, <1>3, <1>4, <1>5, <1>6 DEF IInv

-----------------------------------------------------------------------------
(* Recipes, sparks and the dashboard process *)

\* A recipe is deleted.
LEMMA DeleteRecipeStep ==
  ASSUME IInv, NEW r \in Recipes, DeleteRecipe(r)
  PROVE  IInv'
<1> USE ServeAssumption DEF DeleteRecipe, fleet, store, node, handler, hist, Begun, Deletable, ActiveJobs, StillUsed, PortPair, Overtaken, Starting
<1>1. TypeOK'
  BY DEF IInv, TypeOK
<1>2. Phases'
  BY DEF IInv, TypeOK, Phases
<1>3. AliveIsHeld'
  BY DEF IInv, TypeOK, Phases, AliveIsHeld
<1>4. StopsTake'
  BY DEF IInv, TypeOK, Phases, AliveIsHeld, StopsTake
<1>5. StartsHold'
  BY DEF IInv, TypeOK, Phases, StartsHold, PortPair, Startable
<1>6. DeletedIsIdle' /\ OrphanIsStopped' /\ DesiredIsProbed'
  BY DEF IInv, TypeOK, Phases, StartsHold, DeletedIsIdle, ActiveJobs, OrphanIsStopped, DesiredIsProbed, PortPair
<1> QED
  BY <1>1, <1>2, <1>3, <1>4, <1>5, <1>6 DEF IInv

\* A recipe is registered again.
LEMMA RegisterRecipeStep ==
  ASSUME IInv, NEW r \in Recipes, RegisterRecipe(r)
  PROVE  IInv'
<1> USE ServeAssumption DEF RegisterRecipe, fleet, store, node, handler, hist, Begun
<1>1. TypeOK'
  BY DEF IInv, TypeOK
<1>2. Phases'
  BY DEF IInv, TypeOK, Phases
<1>3. AliveIsHeld'
  BY DEF IInv, TypeOK, Phases, AliveIsHeld
<1>4. StopsTake'
  BY DEF IInv, TypeOK, Phases, AliveIsHeld, StopsTake
<1>5. StartsHold'
  BY DEF IInv, TypeOK, Phases, StartsHold, PortPair, Startable
<1>6. DeletedIsIdle' /\ OrphanIsStopped' /\ DesiredIsProbed'
  BY DEF IInv, TypeOK, Phases, StartsHold, DeletedIsIdle, ActiveJobs, OrphanIsStopped, DesiredIsProbed, PortPair
<1> QED
  BY <1>1, <1>2, <1>3, <1>4, <1>5, <1>6 DEF IInv

\* A spark is removed.
LEMMA RemoveSparkStep ==
  ASSUME IInv, NEW s \in Sparks, RemoveSpark(s)
  PROVE  IInv'
<1> USE ServeAssumption DEF RemoveSpark, fleet, store, node, handler, hist, Begun, OnSpark, StoppedBy, Overtaken, Starting, Alive, PortPair
<1>1. TypeOK'
  BY DEF IInv, TypeOK
<1>2. Phases'
  BY DEF IInv, TypeOK, Phases
<1>3. AliveIsHeld'
  BY DEF IInv, TypeOK, Phases, AliveIsHeld
<1>4. StopsTake'
  BY DEF IInv, TypeOK, Phases, AliveIsHeld, StopsTake
<1>5. StartsHold'
  BY DEF IInv, TypeOK, Phases, StartsHold, PortPair, Startable
<1>6. DeletedIsIdle' /\ OrphanIsStopped' /\ DesiredIsProbed'
  BY DEF IInv, TypeOK, Phases, StartsHold, DeletedIsIdle, ActiveJobs, OrphanIsStopped, DesiredIsProbed, PortPair
<1> QED
  BY <1>1, <1>2, <1>3, <1>4, <1>5, <1>6 DEF IInv

\* A spark is added.
LEMMA AddSparkStep ==
  ASSUME IInv, NEW s \in Sparks, AddSpark(s)
  PROVE  IInv'
<1> USE ServeAssumption DEF AddSpark, fleet, store, node, handler, hist, Begun, OnSpark
<1>1. TypeOK'
  BY DEF IInv, TypeOK
<1>2. Phases'
  BY DEF IInv, TypeOK, Phases
<1>3. AliveIsHeld'
  BY DEF IInv, TypeOK, Phases, AliveIsHeld
<1>4. StopsTake'
  BY DEF IInv, TypeOK, Phases, AliveIsHeld, StopsTake
<1>5. StartsHold'
  BY DEF IInv, TypeOK, Phases, StartsHold, PortPair, Startable
<1>6. DeletedIsIdle' /\ OrphanIsStopped' /\ DesiredIsProbed'
  BY DEF IInv, TypeOK, Phases, StartsHold, DeletedIsIdle, ActiveJobs, OrphanIsStopped, DesiredIsProbed, PortPair
<1> QED
  BY <1>1, <1>2, <1>3, <1>4, <1>5, <1>6 DEF IInv

\* The dashboard dies.
LEMMA CrashStep ==
  ASSUME IInv, Crash
  PROVE  IInv'
<1> USE ServeAssumption DEF Crash, fleet, store, node, handler, hist, Begun, Stopping
<1>1. TypeOK'
  BY DEF IInv, TypeOK
<1>2. Phases'
  BY DEF IInv, TypeOK, Phases
<1>3. AliveIsHeld'
  BY DEF IInv, TypeOK, Phases, AliveIsHeld
<1>4. StopsTake'
  BY DEF IInv, TypeOK, Phases, AliveIsHeld, StopsTake
<1>5. StartsHold'
  BY DEF IInv, TypeOK, Phases, StartsHold, PortPair, Startable
<1>6. DeletedIsIdle' /\ OrphanIsStopped' /\ DesiredIsProbed'
  BY DEF IInv, TypeOK, Phases, StartsHold, DeletedIsIdle, ActiveJobs, OrphanIsStopped, DesiredIsProbed, PortPair
<1> QED
  BY <1>1, <1>2, <1>3, <1>4, <1>5, <1>6 DEF IInv

-----------------------------------------------------------------------------
(* The theorems *)

\* Every step keeps the invariant.
LEMMA NextStep == IInv /\ [Next]_vars => IInv'
<1> SUFFICES ASSUME IInv, [Next]_vars PROVE IInv'
  OBVIOUS
<1>1. ASSUME NEW q \in Requests,
             \/ StartBegins(q) \/ StartBlocked(q) \/ StartLaunches(q)
             \/ LaunchRuns(q) \/ Launched(q) \/ LaunchFails(q)
      PROVE  IInv'
  BY <1>1, StartBeginsStep, StartBlockedStep, StartLaunchesStep, LaunchRunsStep, LaunchedStep,
     LaunchFailsStep
<1>2. ASSUME NEW q \in Requests,
             StopBegins(q) \/ StopCancels(q) \/ StopVerb(q) \/ CancelJob(q)
      PROVE  IInv'
  BY <1>2, StopBeginsStep, StopCancelsStep, StopVerbStep, CancelJobStep
<1>3. ASSUME NEW q \in Requests, DriverLaunches(q) \/ DriverEnds(q) \/ JobEnds(q)
      PROVE  IInv'
  BY <1>3, DriverLaunchesStep, DriverEndsStep, JobEndsStep
<1>4. ASSUME NEW r \in Recipes, DeleteRecipe(r) \/ RegisterRecipe(r)
      PROVE  IInv'
  BY <1>4, DeleteRecipeStep, RegisterRecipeStep
<1>5. ASSUME NEW s \in Sparks, RemoveSpark(s) \/ AddSpark(s)
      PROVE  IInv'
  BY <1>5, RemoveSparkStep, AddSparkStep
<1>6. CASE Crash
  BY <1>6, CrashStep
<1>7. CASE UNCHANGED vars
  BY <1>7 DEF vars, fleet, store, handler, node, hist, IInv, TypeOK, Phases, Begun, AliveIsHeld,
     StopsTake, StartsHold, DeletedIsIdle, ActiveJobs, OrphanIsStopped, DesiredIsProbed
<1> QED
  BY <1>1, <1>2, <1>3, <1>4, <1>5, <1>6, <1>7 DEF Next

\* The inductive invariant holds in every behaviour.
THEOREM Invariance == Spec => []IInv
<1> QED
  BY InitIInv, NextStep, PTL DEF Spec

\* Every variable of the engine keeps its type.
THEOREM TypeCorrect == Spec => []TypeOK
<1>1. IInv => TypeOK
  BY DEF IInv
<1> QED
  BY <1>1, Invariance, PTL

\* A stop is final: once it is over, and no start came after, neither a driver
\* nor containers of the recipe are left, unless a request overtook a start or
\* the node could not be reached.
THEOREM StopsAreFinal == Spec => []StopIsFinal
<1> QED
  BY IInvImplies, Invariance, PTL

\* A deleted recipe has no deployment, and no job runs without one.
THEOREM DeletedHasNoJob == Spec => []DeletedIsIdle
<1>1. IInv => DeletedIsIdle
  BY DEF IInv
<1> QED
  BY <1>1, Invariance, PTL

\* Nothing is wanted on a spark that was removed.
THEOREM OrphansAreStopped == Spec => []OrphanIsStopped
<1>1. IInv => OrphanIsStopped
  BY DEF IInv
<1> QED
  BY <1>1, Invariance, PTL

\* The port of a recipe that should run stays probed whatever is deleted.
THEOREM WantedPortsAreProbed == Spec => []DesiredIsProbed
<1>1. IInv => DesiredIsProbed
  BY DEF IInv
<1> QED
  BY <1>1, Invariance, PTL

-----------------------------------------------------------------------------
(* The engine against the job layer *)

\* A step of the engine records one job that was not recorded, ends some that
\* run, or leaves all as they are.
LEMMA JobStep ==
  ASSUME IInv, [Next]_vars
  PROVE  [Lifecycle!Next]_job
<1> USE DEF Lifecycle!Next, Lifecycle!Advance, Lifecycle!Record, Lifecycle!Move,
        Lifecycle!States, Lifecycle!Terminal, JobEnd
<1>1. ASSUME NEW q \in Requests, Launched(q)
      PROVE  Lifecycle!Next
  BY <1>1 DEF Launched, IInv, Phases
<1>2. ASSUME NEW j \in Requests, Kill(j), job[j] # "none"
      PROVE  Lifecycle!Advance
  BY <1>2 DEF Kill, Marked, IInv, TypeOK
<1>3. ASSUME NEW q \in Requests, JobEnds(q)
      PROVE  Lifecycle!Advance
  BY <1>3 DEF JobEnds, IInv, TypeOK
<1>4. ASSUME NEW q \in Requests, StopCancels(q)
      PROVE  [Lifecycle!Next]_job
  <2>1. PICK j \in todo[q] : Kill(j)
    BY <1>4 DEF StopCancels
  <2>2. j \in Requests
    BY <2>1 DEF IInv, TypeOK
  <2>3. CASE job[j] = "none"
    BY <2>1, <2>2, <2>3 DEF Kill, Marked, IInv, TypeOK
  <2> QED
    BY <1>2, <2>1, <2>2, <2>3
<1>5. ASSUME NEW j \in Requests, CancelJob(j)
      PROVE  Lifecycle!Next
  BY <1>2, <1>5 DEF CancelJob
<1>6. ASSUME NEW q \in Requests,
             \/ StartBegins(q) \/ StartBlocked(q) \/ StartLaunches(q) \/ LaunchRuns(q)
             \/ LaunchFails(q) \/ StopBegins(q) \/ StopVerb(q)
             \/ DriverLaunches(q) \/ DriverEnds(q)
      PROVE  UNCHANGED job
  BY <1>6 DEF StartBegins, StartBlocked, StartLaunches, LaunchRuns, LaunchFails, StopBegins,
     StopVerb, DriverLaunches, DriverEnds, handler, node
<1>7. ASSUME NEW r \in Recipes, DeleteRecipe(r) \/ RegisterRecipe(r)
      PROVE  UNCHANGED job
  BY <1>7 DEF DeleteRecipe, RegisterRecipe
<1>8. ASSUME NEW s \in Sparks, RemoveSpark(s) \/ AddSpark(s)
      PROVE  UNCHANGED job
  BY <1>8 DEF RemoveSpark, AddSpark
<1>9. CASE Crash \/ UNCHANGED vars
  BY <1>9 DEF Crash, vars
<1> QED
  BY <1>1, <1>3, <1>4, <1>5, <1>6, <1>7, <1>8, <1>9 DEF Next

\* Whatever is started, stopped or deleted, and wherever a launch or a cancel
\* fails, a job of the engine is recorded once and ends once.
THEOREM EngineRefinesLifecycle == Spec => JobsFollowLifecycle
<1>1. Init => Lifecycle!Init
  BY DEF Init, Lifecycle!Init
<1>2. IInv /\ [Next]_vars => [Lifecycle!Next]_job
  BY JobStep
<1> QED
  BY <1>1, <1>2, Invariance, PTL DEF Spec, JobsFollowLifecycle, Lifecycle!Spec

-----------------------------------------------------------------------------
(* DashboardConfig: the invariant *)

BlobRecord == [key : Nat, val : Nat]
SettingRecord == [poll : 1..2, root : Nat, bin : Nat]

SecretTypes ==
    /\ envKey \in EnvKeys /\ keyFile \in Nat /\ cachedKey \in Nat
    /\ vault \in [token : BlobRecord, pw : [Owners -> BlobRecord]]
    /\ passwords \in [Owners -> Nat] /\ entered \in [Owners -> Nat]
    /\ issued \in Nat /\ values \in Nat /\ boots \in Nat
    /\ life \in {"down", "loaded", "keyed", "up"} /\ (life # "down" => boots # 0)

FlagTypes == writable \in BOOLEAN /\ lost \in BOOLEAN /\ behind \in BOOLEAN /\ skewed \in BOOLEAN

SettingTypes ==
    /\ settings \in SettingRecord /\ cadence \in 0..2
    /\ settingsFile \in SettingRecord \cup {Missing, Unparsed, Edited}

\* Nothing is encrypted with no key, or from nothing.
SealedIsWhole == \A b \in Blobs : b.val = 0 <=> b.key = 0

\* A generated key that is in use is that of the file; the file is missing, or
\* torn, or has the one key that ever encrypted.
KeysOK ==
    /\ keyFile \in {0, Torn} \/ keyFile >= Generated(0)
    /\ cachedKey # Torn
    /\ life # "down" /\ cachedKey >= Generated(0) => keyFile = cachedKey
    /\ life \in {"keyed", "up"} => cachedKey # 0
    /\ \A b \in Blobs : b.key >= Generated(0) => keyFile \in {0, Torn, b.key}

\* What was issued and entered is on file, and in memory once that is loaded.
SecretsKept == ~lost =>
    /\ vault.token.val = issued
    /\ \A u \in Owners : vault.pw[u].val = entered[u]
    /\ life # "down" => \A u \in Owners :
          passwords[u] = entered[u] /\ (entered[u] # 0 => Opens(FoundKey, vault.pw[u]))
    /\ life = "up" => Opens(FoundKey, vault.token)

SettingsKept ==
    /\ life # "down" /\ ~behind => settingsFile = settings
    /\ life = "up" /\ ~skewed => cadence = settings.poll

ConfigInv ==
    /\ SecretTypes /\ FlagTypes /\ SettingTypes
    /\ SealedIsWhole /\ KeysOK /\ OneKeyIsMade /\ SecretsKept /\ SettingsKept

-----------------------------------------------------------------------------
(* DashboardConfig: the proof *)

LEMMA ConfigInitInv == ConfigInit => ConfigInv
<1> SUFFICES ASSUME ConfigInit PROVE ConfigInv
  OBVIOUS
<1> USE ConfigAssumption DEF ConfigInit
<1>1. SecretTypes /\ FlagTypes
  BY DEF SecretTypes, FlagTypes, BlobRecord, NoVault, Blob
<1>2. SettingTypes
  BY DEF SettingTypes, SettingRecord, Defaults
<1>3. \A b \in Blobs : b = Blob
  BY DEF Blobs, NoVault
<1>4. SealedIsWhole /\ KeysOK /\ OneKeyIsMade
  BY <1>3 DEF SealedIsWhole, KeysOK, OneKeyIsMade, Blob, Generated, Torn
<1>5. SecretsKept /\ SettingsKept
  BY DEF SecretsKept, SettingsKept, NoVault, Blob
<1> QED
  BY <1>1, <1>2, <1>4, <1>5 DEF ConfigInv

\* The key that is found, and what it takes to make one.
LEMMA KeyFacts ==
  ASSUME SecretTypes, KeysOK
  PROVE  /\ KeyWith(0) \in Nat /\ FoundKey \in Nat /\ FoundKey # Torn /\ KeyWith(0) # Torn
         /\ cachedKey # 0 => FoundKey = cachedKey
         /\ KeyWith(0) >= Generated(0) => keyFile = KeyWith(0)
         /\ life # "down" /\ FoundKey >= Generated(0) => keyFile = FoundKey
         /\ FoundKey = 0 => keyFile \in {0, Torn}
  BY ConfigAssumption DEF SecretTypes, KeysOK, KeyWith, FoundKey, Torn, Generated

\* Where a key is needed, it is the one that is found, or a new one, and then
\* nothing was encrypted yet.
LEMMA KeyIsResolved ==
  ASSUME SecretTypes, KeysOK, KeyResolved, ~KeyThrows
  PROVE  /\ cachedKey' \in Nat /\ cachedKey' # 0 /\ cachedKey' # Torn /\ keyFile' \in Nat
         /\ \/ FoundKey # 0 /\ cachedKey' = FoundKey /\ keyFile' = keyFile
            \/ /\ FoundKey = 0 /\ ~Exists /\ cachedKey' = keyFile' /\ cachedKey' >= Generated(0)
  BY KeyFacts DEF SecretTypes, KeyResolved, KeyThrows, MayGenerate, Generated, Torn

\* A write to the file with the key at hand.
LEMMA VaultWritten ==
  ASSUME SecretTypes, KeysOK, SealedIsWhole, OneKeyIsMade, keyFile' = keyFile,
         vault' \in [token : BlobRecord, pw : [Owners -> BlobRecord]],
         NEW k \in Nat, k # 0, k # Torn, k >= Generated(0) => keyFile = k,
         \A b \in Blobs' : b \in Blobs \/ b = Blob \/ (b.key = k /\ b.val # 0)
  PROVE  /\ SealedIsWhole' /\ OneKeyIsMade'
         /\ \A b \in Blobs' : b.key >= Generated(0) => keyFile' \in {0, Torn, b.key}
<1>1. \A b \in Blobs : b \in BlobRecord
  BY DEF Blobs, SecretTypes, BlobRecord
<1>2. \A b \in Blobs' : b.key >= Generated(0) => keyFile \in {0, Torn, b.key}
  BY DEF KeysOK, Blob, Generated
<1>3. SealedIsWhole'
  BY DEF SealedIsWhole, Blob
<1>4. OneKeyIsMade'
  <2> SUFFICES ASSUME NEW b \in Blobs', NEW c \in Blobs', b.key >= Generated(0), c.key >= Generated(0)
               PROVE  b.key = c.key
    BY DEF OneKeyIsMade
  <2>1. b \in Blobs \/ b.key = k
    BY DEF Blob, Generated
  <2>2. c \in Blobs \/ c.key = k
    BY DEF Blob, Generated
  <2>3. \A d \in Blobs : d.key >= Generated(0) => keyFile \in {0, Torn, d.key}
    BY DEF KeysOK
  <2>4. k >= Generated(0) => k # 0 /\ k # Torn
    OBVIOUS
  <2> QED
    BY <2>1, <2>2, <2>3, <2>4 DEF OneKeyIsMade
<1> QED
  BY <1>2, <1>3, <1>4

\* The parts that say nothing of the secrets' contents, for a step that leaves
\* the vault and the keys alone.
LEMMA KeysRest ==
  ASSUME ConfigInv, UNCHANGED <<keyFile, vault, cachedKey>>,
         life' = "down" \/ (life # "down" /\ (life' \in {"keyed", "up"} => cachedKey # 0))
  PROVE  SealedIsWhole' /\ KeysOK' /\ OneKeyIsMade'
<1>1. Blobs' = Blobs
  BY DEF Blobs
<1> QED
  BY <1>1 DEF ConfigInv, SealedIsWhole, KeysOK, OneKeyIsMade

LEMMA SetPasswordStep == ASSUME ConfigInv, NEW u \in Owners, SetPassword(u) PROVE ConfigInv'
<1> USE DEF ConfigInv
<1>1. /\ life = "up" /\ life' = "up" /\ values' = values + 1
      /\ UNCHANGED <<envKey, writable, settings, settingsFile, cadence, behind, skewed, boots, issued>>
  BY DEF SetPassword, envVars, settingVars
<1>2. cachedKey # 0 /\ FoundKey = cachedKey
  BY <1>1, KeyFacts DEF KeysOK
<1>3. SettingTypes' /\ SettingsKept'
  BY <1>1 DEF SettingTypes, SettingsKept
<1>4. CASE UNCHANGED <<keyFile, vault, cachedKey, passwords, entered, lost>>
  <2>1. SecretTypes' /\ FlagTypes'
    BY <1>1, <1>4 DEF SecretTypes, FlagTypes
  <2>2. SealedIsWhole' /\ KeysOK' /\ OneKeyIsMade'
    BY <1>1, <1>2, <1>4, KeysRest
  <2>3. SecretsKept'
    BY <1>1, <1>4 DEF SecretsKept, FoundKey, KeyWith, Opens
  <2> QED
    BY <1>3, <2>1, <2>2, <2>3
<1>5. CASE /\ KeyResolved
           /\ passwords' = [passwords EXCEPT ![u] = values + 1]
           /\ vault' = WithPasswords(cachedKey', passwords')
           /\ entered' = [entered EXCEPT ![u] = values + 1]
           /\ lost' = (lost \/ Unread)
  <2>1. cachedKey' = cachedKey /\ keyFile' = keyFile
    BY <1>2, <1>5 DEF KeyResolved
  <2>2. passwords' \in [Owners -> Nat] /\ entered' \in [Owners -> Nat]
    BY <1>5 DEF SecretTypes
  <2>3. vault' = [vault EXCEPT !.pw = [v \in Owners |-> IF passwords'[v] = 0 THEN Blob ELSE Seal(cachedKey, passwords'[v])]]
    BY <1>5, <2>1 DEF WithPasswords
  <2> DEFINE pw == [v \in Owners |-> IF passwords'[v] = 0 THEN Blob ELSE Seal(cachedKey, passwords'[v])]
  <2>4. pw \in [Owners -> BlobRecord]
    BY <2>2 DEF SecretTypes, BlobRecord, Blob, Seal
  <2>5. \A v \in Owners : pw[v] = (IF passwords'[v] = 0 THEN Blob ELSE Seal(cachedKey, passwords'[v]))
    OBVIOUS
  <2> HIDE DEF pw
  <2>12. \A v \in Owners : /\ passwords'[v] = 0 => pw[v] = Blob
                           /\ passwords'[v] # 0 => pw[v].key = cachedKey /\ pw[v].val = passwords'[v]
    <3> SUFFICES ASSUME NEW v \in Owners
                 PROVE /\ passwords'[v] = 0 => pw[v] = Blob
                       /\ passwords'[v] # 0 => pw[v].key = cachedKey /\ pw[v].val = passwords'[v]
      OBVIOUS
    <3>1. CASE passwords'[v] = 0
      BY <2>5, <3>1
    <3>2. CASE passwords'[v] # 0
      <4>1. pw[v] = Seal(cachedKey, passwords'[v])
        BY <2>5, <3>2
      <4>2. pw[v] = [key |-> cachedKey, val |-> passwords'[v]]
        BY <4>1 DEF Seal
      <4>3. \A k, x : [key |-> k, val |-> x].key = k /\ [key |-> k, val |-> x].val = x
        OBVIOUS
      <4> QED
        BY <3>2, <4>2, <4>3
    <3> QED
      BY <3>1, <3>2
  <2>6. vault' \in [token : BlobRecord, pw : [Owners -> BlobRecord]] /\ vault'.token = vault.token /\ vault'.pw = pw
    BY <2>3, <2>4 DEF SecretTypes, pw
  <2>7. SecretTypes' /\ FlagTypes'
    BY <1>1, <1>5, <2>1, <2>2, <2>6 DEF SecretTypes, FlagTypes, Unread
  <2>8. \A b \in Blobs' : b \in Blobs \/ b = Blob \/ (b.key = cachedKey /\ b.val # 0)
    BY <2>12, <2>6 DEF Blobs
  <2>9. SealedIsWhole' /\ OneKeyIsMade' /\ \A b \in Blobs' : b.key >= Generated(0) => keyFile' \in {0, Torn, b.key}
    BY <1>1, <1>2, <2>1, <2>6, <2>8, VaultWritten DEF KeysOK, SecretTypes
  <2>10. KeysOK'
    BY <1>1, <2>1, <2>9 DEF KeysOK
  <2>11. SecretsKept'
    <3>1. FoundKey' = cachedKey
      BY <1>2, <2>1 DEF FoundKey, KeyWith
    <3>2. ASSUME ~lost' PROVE ~lost /\ \A v \in Owners : passwords'[v] = entered'[v]
      BY <1>1, <1>5, <3>2 DEF SecretsKept, SecretTypes
    <3>3. \A v \in Owners : vault'.pw[v].val = passwords'[v] /\ (passwords'[v] # 0 => vault'.pw[v].key = cachedKey)
      BY <2>12, <2>6 DEF Blob
    <3> QED
      BY <1>1, <1>2, <2>6, <3>1, <3>2, <3>3 DEF SecretsKept, Opens
  <2> QED
    BY <1>3, <2>7, <2>9, <2>10, <2>11
<1> QED
  BY <1>4, <1>5 DEF SetPassword

LEMMA RotateStep == ASSUME ConfigInv, Rotate PROVE ConfigInv'
<1> USE DEF ConfigInv
<1>1. /\ life = "up" /\ life' = "up" /\ values' = values + 1
      /\ UNCHANGED <<envKey, writable, settings, settingsFile, cadence, behind, skewed, boots, passwords, entered, lost>>
  BY DEF Rotate, envVars, settingVars
<1>2. cachedKey # 0 /\ FoundKey = cachedKey
  BY <1>1, KeyFacts DEF KeysOK
<1>3. SettingTypes' /\ SettingsKept' /\ FlagTypes'
  BY <1>1 DEF SettingTypes, SettingsKept, FlagTypes
<1>4. CASE UNCHANGED <<keyFile, vault, cachedKey, issued>>
  <2>1. SecretTypes'
    BY <1>1, <1>4 DEF SecretTypes
  <2>2. SealedIsWhole' /\ KeysOK' /\ OneKeyIsMade'
    BY <1>1, <1>2, <1>4, KeysRest
  <2>3. SecretsKept'
    BY <1>1, <1>4 DEF SecretsKept, FoundKey, KeyWith, Opens
  <2> QED
    BY <1>3, <2>1, <2>2, <2>3
<1>5. CASE KeyResolved /\ vault' = WithToken(cachedKey', values + 1) /\ issued' = values + 1
  <2>1. cachedKey' = cachedKey /\ keyFile' = keyFile
    BY <1>2, <1>5 DEF KeyResolved
  <2> DEFINE t == Seal(cachedKey, values + 1)
  <2>2. vault' = [vault EXCEPT !.token = t]
    BY <1>5, <2>1 DEF WithToken
  <2>3. t \in BlobRecord /\ t.key = cachedKey /\ t.val = values + 1 /\ t.val # 0
    BY DEF SecretTypes, BlobRecord, Seal
  <2> HIDE DEF t
  <2>4. vault' \in [token : BlobRecord, pw : [Owners -> BlobRecord]] /\ vault'.token = t /\ vault'.pw = vault.pw
    BY <2>2, <2>3 DEF SecretTypes
  <2>5. SecretTypes'
    BY <1>1, <1>5, <2>1, <2>4 DEF SecretTypes
  <2>6. \A b \in Blobs' : b \in Blobs \/ b = Blob \/ (b.key = cachedKey /\ b.val # 0)
    BY <2>3, <2>4 DEF Blobs
  <2>7. SealedIsWhole' /\ OneKeyIsMade' /\ \A b \in Blobs' : b.key >= Generated(0) => keyFile' \in {0, Torn, b.key}
    BY <1>1, <1>2, <2>1, <2>4, <2>6, VaultWritten DEF KeysOK, SecretTypes
  <2>8. KeysOK'
    BY <1>1, <2>1, <2>7 DEF KeysOK
  <2>9. SecretsKept'
    <3>1. FoundKey' = cachedKey
      BY <1>2, <2>1 DEF FoundKey, KeyWith
    <3> QED
      BY <1>1, <1>2, <1>5, <2>3, <2>4, <3>1 DEF SecretsKept, Opens
  <2> QED
    BY <1>3, <2>5, <2>7, <2>8, <2>9
<1> QED
  BY <1>4, <1>5 DEF Rotate

\* What _clampSettings returns is a valid setting.
LEMMA ClampedIs ==
  ASSUME NEW n \in 0..2, NEW i \in Nat, NEW j \in Nat
  PROVE  Clamped([poll |-> n, root |-> i, bin |-> j]) \in SettingRecord
  BY DEF Clamped, SettingRecord

LEMMA PutSettingsStep ==
  ASSUME ConfigInv, NEW patch \in Patches, NEW of \in {"poll", "modelctl"}, PutSettings(patch, of)
  PROVE  ConfigInv'
<1> USE DEF ConfigInv
<1> DEFINE changed == IF of = "poll" THEN [settings EXCEPT !.poll = patch.poll]
                      ELSE [settings EXCEPT !.root = patch.root, !.bin = patch.bin]
           next == Clamped(changed)
<1>1. /\ life = "up" /\ life' = life /\ settings' = next /\ behind' = ~writable
      /\ settingsFile' = (IF writable THEN next ELSE settingsFile)
      /\ UNCHANGED <<envKey, writable, keyFile, vault, cachedKey, passwords, values, issued, entered, lost, boots>>
  BY DEF PutSettings, envVars, secretVars
<1>2. patch.poll \in 0..2 /\ patch.root \in Nat /\ patch.bin \in Nat
  BY DEF Patches, Defaults
<1>3. \/ /\ of = "poll" /\ patch.poll # 0 /\ cadence' = next.poll /\ skewed' = FALSE
      \/ /\ ~(of = "poll" /\ patch.poll # 0) /\ cadence' = cadence
         /\ skewed' = (skewed \/ (of = "poll" /\ patch.poll = 0))
  BY <1>2 DEF PutSettings, RestartsTimer
<1>4. \E n \in 0..2, i, j \in Nat : changed = [poll |-> n, root |-> i, bin |-> j]
  <2>1. CASE of = "poll"
    <3>1. changed = [poll |-> patch.poll, root |-> settings.root, bin |-> settings.bin]
      BY <2>1 DEF SettingTypes, SettingRecord
    <3>2. settings.root \in Nat /\ settings.bin \in Nat
      BY DEF SettingTypes, SettingRecord
    <3> QED
      BY <1>2, <3>1, <3>2
  <2>2. CASE of # "poll"
    <3>1. changed = [poll |-> settings.poll, root |-> patch.root, bin |-> patch.bin]
      BY <2>2 DEF SettingTypes, SettingRecord
    <3>2. settings.poll \in 0..2
      BY DEF SettingTypes, SettingRecord
    <3> QED
      BY <1>2, <3>1, <3>2
  <2> QED
    BY <2>1, <2>2
<1>5. of # "poll" => changed.poll = settings.poll
  BY DEF SettingTypes, SettingRecord
<1> HIDE DEF changed
<1>6. next \in SettingRecord
  BY <1>4, ClampedIs
<1>7. of # "poll" => next.poll = settings.poll
  BY <1>4, <1>5 DEF Clamped, SettingTypes, SettingRecord
<1> HIDE DEF next
<1>8. SettingTypes'
  BY <1>1, <1>3, <1>6 DEF SettingTypes, SettingRecord
<1>9. FlagTypes'
  BY <1>1, <1>3 DEF FlagTypes
<1>10. SettingsKept'
  BY <1>1, <1>3, <1>7 DEF SettingsKept, FlagTypes
<1>11. SecretTypes'
  BY <1>1 DEF SecretTypes
<1>12. SealedIsWhole' /\ KeysOK' /\ OneKeyIsMade'
  BY <1>1, KeysRest DEF KeysOK
<1>13. SecretsKept'
  BY <1>1 DEF SecretsKept, FoundKey, KeyWith, Opens
<1> QED
  BY <1>8, <1>9, <1>10, <1>11, <1>12, <1>13

\* What was not opened at boot is lost; else the passwords are those that were entered.
LEMMA BootStep == ASSUME ConfigInv, Boot PROVE ConfigInv'
<1> USE DEF ConfigInv
<1> DEFINE k == KeyWith(0)
<1>1. /\ life = "down" /\ life' = "loaded" /\ boots' = boots + 1
      /\ cachedKey' = (IF Exists THEN k ELSE 0)
      /\ passwords' = [u \in Owners |-> IF Opens(k, vault.pw[u]) THEN vault.pw[u].val ELSE 0]
      /\ settings' = Clamped(IF settingsFile \in {Missing, Unparsed} THEN Defaults ELSE settingsFile)
      /\ settingsFile' = (IF settingsFile = Missing /\ writable THEN settings' ELSE settingsFile)
      /\ behind' = (settingsFile' # settings')
      /\ lost' = (lost \/ \E u \in Owners : vault.pw[u].val # 0 /\ passwords'[u] = 0)
      /\ UNCHANGED <<envKey, writable, keyFile, vault, values, issued, entered, cadence, skewed>>
  BY DEF Boot, envVars
<1>2. /\ k \in Nat /\ k # Torn /\ (k >= Generated(0) => keyFile = k)
  BY KeyFacts
<1>3. FoundKey' = k
  BY <1>1 DEF FoundKey, KeyWith
<1> HIDE DEF k
<1>4. \A u \in Owners : vault.pw[u] \in BlobRecord
  BY DEF SecretTypes
<1>5. \A u \in Owners : vault.pw[u].val \in Nat
  BY <1>4 DEF BlobRecord
<1>6. SecretTypes'
  <2>1. passwords' \in [Owners -> Nat]
    BY <1>1, <1>5
  <2> QED
    BY <1>1, <1>2, <2>1 DEF SecretTypes
<1>7. FlagTypes'
  BY <1>1 DEF FlagTypes
<1>8. SettingTypes'
  <2> DEFINE raw == IF settingsFile \in {Missing, Unparsed} THEN Defaults ELSE settingsFile
  <2>1. \E n \in 0..2, i, j \in Nat : raw = [poll |-> n, root |-> i, bin |-> j]
    <3>1. CASE settingsFile \in {Missing, Unparsed}
      BY <3>1 DEF Defaults
    <3>2. CASE settingsFile = Edited
      BY <3>2, SMTT(30) DEF Edited, Defaults, Missing, Unparsed
    <3>3. CASE settingsFile \in SettingRecord /\ settingsFile \notin {Missing, Unparsed}
      <4>1. raw = [poll |-> settingsFile.poll, root |-> settingsFile.root, bin |-> settingsFile.bin]
        BY <3>3 DEF SettingRecord
      <4>2. settingsFile.poll \in 0..2 /\ settingsFile.root \in Nat /\ settingsFile.bin \in Nat
        BY <3>3 DEF SettingRecord
      <4> QED
        BY <4>1, <4>2
    <3> QED
      BY <3>1, <3>2, <3>3 DEF SettingTypes
  <2>2. settings' = Clamped(raw)
    BY <1>1
  <2> HIDE DEF raw
  <2>3. settings' \in SettingRecord
    BY <2>1, <2>2, ClampedIs
  <2> QED
    BY <1>1, <2>3 DEF SettingTypes
<1>9. SettingsKept'
  BY <1>1, <1>8 DEF SettingsKept
<1>10. Blobs' = Blobs
  BY <1>1 DEF Blobs
<1>11. SealedIsWhole' /\ OneKeyIsMade'
  BY <1>10 DEF SealedIsWhole, OneKeyIsMade
<1>12. KeysOK'
  BY <1>1, <1>2, <1>10 DEF KeysOK, Torn, Generated
<1>13. SecretsKept'
  <2>1. ASSUME ~lost'
        PROVE  ~lost /\ \A u \in Owners : vault.pw[u].val # 0 => passwords'[u] # 0
    BY <1>1, <2>1
  <2>2. ASSUME ~lost', NEW u \in Owners
        PROVE  passwords'[u] = vault.pw[u].val /\ (vault.pw[u].val # 0 => Opens(k, vault.pw[u]))
    <3>1. passwords'[u] = IF Opens(k, vault.pw[u]) THEN vault.pw[u].val ELSE 0
      BY <1>1
    <3>2. vault.pw[u].val # 0 => passwords'[u] # 0
      BY <2>1, <2>2
    <3> QED
      BY <3>1, <3>2
  <2>3. ~lost' => vault.token.val = issued /\ \A u \in Owners : vault.pw[u].val = entered[u]
    BY <2>1 DEF SecretsKept
  <2>4. life' # "up"
    BY <1>1
  <2> QED
    BY <1>1, <1>3, <2>2, <2>3, <2>4 DEF SecretsKept, Opens
<1> QED
  BY <1>6, <1>7, <1>8, <1>9, <1>11, <1>12, <1>13

\* The process ends: memory is as good as gone.
LEMMA EndStep ==
  ASSUME ConfigInv, life' = "down",
         envKey' \in EnvKeys, writable' \in BOOLEAN, keyFile' \in {keyFile, 0, Torn},
         UNCHANGED <<vault, cachedKey, passwords, values, issued, entered, lost, boots>>,
         UNCHANGED settingVars
  PROVE  ConfigInv'
<1> USE DEF ConfigInv, settingVars
<1>1. SecretTypes'
  BY DEF SecretTypes, Torn
<1>2. FlagTypes' /\ SettingTypes' /\ SettingsKept'
  BY DEF FlagTypes, SettingTypes, SettingsKept
<1>3. Blobs' = Blobs
  BY DEF Blobs
<1>4. SealedIsWhole' /\ KeysOK' /\ OneKeyIsMade'
  BY <1>3 DEF SealedIsWhole, KeysOK, OneKeyIsMade
<1>5. SecretsKept'
  BY DEF SecretsKept
<1> QED
  BY <1>1, <1>2, <1>4, <1>5

LEMMA ListenFacts ==
  ASSUME ConfigInv, Listens, life # "down"
  PROVE  /\ life' = "up" /\ SettingTypes' /\ SettingsKept'
         /\ skewed' = FALSE /\ UNCHANGED <<envKey, writable, boots, behind>>
<1>1. /\ life' = "up" /\ cadence' = settings.poll /\ skewed' = FALSE
      /\ UNCHANGED <<envKey, writable, settings, settingsFile, behind, boots>>
  BY DEF Listens, envVars
<1>2. SettingTypes'
  BY <1>1 DEF ConfigInv, SettingTypes, SettingRecord
<1>3. SettingsKept'
  BY <1>1 DEF ConfigInv, SettingsKept
<1> QED
  BY <1>1, <1>2, <1>3

LEMMA TokenIsThereStep == ASSUME ConfigInv, TokenIsThere PROVE ConfigInv'
<1> USE DEF ConfigInv
<1>1. /\ life = "loaded" /\ Opens(FoundKey, vault.token) /\ cachedKey' = FoundKey
      /\ UNCHANGED <<keyFile, vault, passwords, values, issued, entered, lost>>
      /\ \/ Listens
         \/ life' = "down" /\ UNCHANGED <<envVars, settingVars, boots, mishaps>>
  BY DEF TokenIsThere
<1>2. FoundKey \in Nat /\ FoundKey # Torn /\ (FoundKey >= Generated(0) => keyFile = FoundKey)
  BY <1>1, KeyFacts
<1>3. vault.token.key = FoundKey /\ vault.token.val # 0 /\ vault.token \in Blobs
  BY <1>1 DEF Opens, Blobs
<1>4. FoundKey # 0
  BY <1>3 DEF SealedIsWhole
<1>5. FoundKey' = FoundKey
  BY <1>1, <1>4 DEF FoundKey, KeyWith
<1>6. /\ life' \in {"up", "down"} /\ SettingTypes' /\ SettingsKept' /\ FlagTypes'
      /\ UNCHANGED <<envKey, boots>>
  <2>1. CASE Listens
    <3>1. life' = "up" /\ SettingTypes' /\ SettingsKept' /\ skewed' = FALSE
          /\ UNCHANGED <<envKey, writable, boots, behind>>
      BY <1>1, <2>1, ListenFacts
    <3> QED
      BY <1>1, <3>1 DEF FlagTypes
  <2>2. CASE life' = "down" /\ UNCHANGED <<envVars, settingVars, boots, mishaps>>
    BY <1>1, <2>2 DEF envVars, settingVars, SettingTypes, SettingsKept, FlagTypes
  <2> QED
    BY <1>1, <2>1, <2>2
<1>7. SecretTypes'
  BY <1>1, <1>2, <1>6 DEF SecretTypes
<1>8. Blobs' = Blobs
  BY <1>1 DEF Blobs
<1>9. SealedIsWhole' /\ KeysOK' /\ OneKeyIsMade'
  BY <1>1, <1>2, <1>4, <1>8 DEF SealedIsWhole, KeysOK, OneKeyIsMade
<1>10. SecretsKept'
  BY <1>1, <1>5 DEF SecretsKept, Opens
<1> QED
  BY <1>6, <1>7, <1>9, <1>10

LEMMA TokenNeedsKeyStep == ASSUME ConfigInv, TokenNeedsKey PROVE ConfigInv'
<1> USE DEF ConfigInv
<1>1. /\ life = "loaded"
      /\ UNCHANGED <<envVars, settingVars, vault, passwords, values, issued, entered, lost, boots>>
      /\ \/ KeyThrows /\ life' = "down" /\ UNCHANGED <<keyFile, cachedKey>>
         \/ ~KeyThrows /\ life' = "keyed" /\ KeyResolved
  BY DEF TokenNeedsKey
<1>2. CASE KeyThrows /\ life' = "down" /\ UNCHANGED <<keyFile, cachedKey>>
  BY <1>1, <1>2, EndStep DEF envVars, SecretTypes, FlagTypes
<1>3. CASE ~KeyThrows /\ life' = "keyed" /\ KeyResolved
  <2>1. /\ cachedKey' \in Nat /\ cachedKey' # 0 /\ cachedKey' # Torn /\ keyFile' \in Nat
        /\ \/ FoundKey # 0 /\ cachedKey' = FoundKey /\ keyFile' = keyFile
           \/ FoundKey = 0 /\ ~Exists /\ cachedKey' = keyFile' /\ cachedKey' >= Generated(0)
    BY <1>3, KeyIsResolved
  <2>2. FoundKey \in Nat /\ (FoundKey >= Generated(0) => keyFile = FoundKey)
    BY <1>1, KeyFacts
  <2>3. FoundKey' = cachedKey'
    BY <2>1 DEF FoundKey, KeyWith
  <2>4. SecretTypes'
    BY <1>1, <1>3, <2>1 DEF SecretTypes, envVars
  <2>5. FlagTypes' /\ SettingTypes'
    BY <1>1 DEF FlagTypes, SettingTypes, envVars, settingVars
  <2>6. SettingsKept'
    BY <1>1, <1>3 DEF SettingsKept, settingVars
  <2>7. Blobs' = Blobs
    BY <1>1 DEF Blobs
  <2>8. \A b \in Blobs : b.key >= Generated(0) => keyFile' \in {0, Torn, b.key}
    <3>1. CASE ~Exists
      BY <3>1 DEF Exists, SealedIsWhole, Generated
    <3>2. CASE keyFile' = keyFile
      BY <3>2 DEF KeysOK
    <3> QED
      BY <2>1, <3>1, <3>2
  <2>9. keyFile' \in {0, Torn} \/ keyFile' >= Generated(0)
    BY <2>1 DEF KeysOK
  <2>10. cachedKey' >= Generated(0) => keyFile' = cachedKey'
    BY <2>1, <2>2
  <2>11. SealedIsWhole' /\ OneKeyIsMade'
    BY <2>7 DEF SealedIsWhole, OneKeyIsMade
  <2>12. KeysOK'
    BY <2>1, <2>7, <2>8, <2>9, <2>10 DEF KeysOK
  <2>13. SecretsKept'
    <3>1. CASE cachedKey' = FoundKey
      BY <1>1, <1>3, <2>3, <3>1 DEF SecretsKept, Opens
    <3>2. CASE ~Exists
      <4>1. \A u \in Owners : vault.pw[u] \in Blobs
        BY DEF Blobs
      <4>2. \A u \in Owners : vault.pw[u].val = 0
        BY <3>2, <4>1 DEF Exists
      <4> QED
        BY <1>1, <1>3, <4>2 DEF SecretsKept
    <3> QED
      BY <2>1, <3>1, <3>2
  <2> QED
    BY <2>4, <2>5, <2>6, <2>11, <2>12, <2>13
<1> QED
  BY <1>1, <1>2, <1>3

\* A token that is replaced although nothing was lost is no token.
LEMMA TokenIsNewStep == ASSUME ConfigInv, TokenIsNew PROVE ConfigInv'
<1> USE DEF ConfigInv
<1> DEFINE n == MaxValues + boots
<1>1. /\ life = "keyed"
      /\ UNCHANGED <<keyFile, cachedKey, passwords, values, entered>>
      /\ \/ /\ vault' = WithToken(cachedKey, n) /\ lost' = (lost \/ vault.token.val # 0)
            /\ issued' = (IF lost' \/ issued = 0 THEN n ELSE issued) /\ Listens
         \/ life' = "down" /\ UNCHANGED <<envVars, settingVars, boots, mishaps, vault, lost, issued>>
  BY DEF TokenIsNew
<1>2. CASE life' = "down" /\ UNCHANGED <<envVars, settingVars, boots, mishaps, vault, lost, issued>>
  BY <1>1, <1>2, EndStep DEF envVars, SecretTypes, FlagTypes
<1>3. CASE /\ vault' = WithToken(cachedKey, n) /\ lost' = (lost \/ vault.token.val # 0)
           /\ issued' = (IF lost' \/ issued = 0 THEN n ELSE issued) /\ Listens
  <2>1. /\ life' = "up" /\ SettingTypes' /\ SettingsKept'
        /\ skewed' = FALSE /\ UNCHANGED <<envKey, writable, boots, behind>>
    BY <1>1, <1>3, ListenFacts
  <2>2. cachedKey # 0 /\ cachedKey \in Nat /\ cachedKey # Torn /\ FoundKey = cachedKey
        /\ (cachedKey >= Generated(0) => keyFile = cachedKey)
    BY <1>1, KeyFacts DEF KeysOK, SecretTypes
  <2>3. n \in Nat /\ n # 0
    BY <1>1, ConfigAssumption DEF SecretTypes
  <2> HIDE DEF n
  <2> DEFINE t == Seal(cachedKey, n)
  <2>4. vault' = [vault EXCEPT !.token = t]
    BY <1>3 DEF WithToken
  <2>5. t \in BlobRecord /\ t.key = cachedKey /\ t.val = n
    BY <2>2, <2>3 DEF BlobRecord, Seal
  <2> HIDE DEF t
  <2>6. vault' \in [token : BlobRecord, pw : [Owners -> BlobRecord]] /\ vault'.token = t /\ vault'.pw = vault.pw
    BY <2>4, <2>5 DEF SecretTypes
  <2>7. SecretTypes'
    BY <1>1, <1>3, <2>1, <2>3, <2>6 DEF SecretTypes
  <2>8. FlagTypes'
    BY <1>3, <2>1 DEF FlagTypes
  <2>9. \A b \in Blobs' : b \in Blobs \/ b = Blob \/ (b.key = cachedKey /\ b.val # 0)
    BY <2>3, <2>5, <2>6 DEF Blobs
  <2>10. SealedIsWhole' /\ OneKeyIsMade' /\ \A b \in Blobs' : b.key >= Generated(0) => keyFile' \in {0, Torn, b.key}
    BY <1>1, <2>2, <2>6, <2>9, VaultWritten
  <2>11. KeysOK'
    BY <1>1, <2>1, <2>2, <2>10 DEF KeysOK
  <2>12. SecretsKept'
    <3>1. FoundKey' = cachedKey
      BY <1>1, <2>2 DEF FoundKey, KeyWith
    <3>2. ASSUME ~lost' PROVE ~lost /\ vault.token.val = 0
      BY <1>3, <3>2
    <3>3. ASSUME ~lost' PROVE issued' = n
      BY <1>3, <3>2, <3>3 DEF SecretsKept
    <3> QED
      BY <1>1, <2>1, <2>2, <2>3, <2>5, <2>6, <3>1, <3>2, <3>3 DEF SecretsKept, Opens
  <2> QED
    BY <2>1, <2>7, <2>8, <2>10, <2>11, <2>12
<1> QED
  BY <1>1, <1>2, <1>3

LEMMA ConfigNextInv == ConfigInv /\ [ConfigNext]_configVars => ConfigInv'
<1> SUFFICES ASSUME ConfigInv, [ConfigNext]_configVars PROVE ConfigInv'
  OBVIOUS
<1>1. CASE Boot
  BY <1>1, BootStep
<1>2. CASE TokenIsThere
  BY <1>2, TokenIsThereStep
<1>3. CASE TokenNeedsKey
  BY <1>3, TokenNeedsKeyStep
<1>4. CASE TokenIsNew
  BY <1>4, TokenIsNewStep
<1>5. CASE \E u \in Owners : SetPassword(u)
  BY <1>5, SetPasswordStep
<1>6. CASE Rotate
  BY <1>6, RotateStep
<1>7. CASE \E patch \in Patches, of \in {"poll", "modelctl"} : PutSettings(patch, of)
  BY <1>7, PutSettingsStep
<1>8. CASE Dies \/ DiesInKeyWrite
  BY <1>8, EndStep DEF ConfigInv, Dies, DiesInKeyWrite, envVars, secretVars, SecretTypes, FlagTypes
<1>9. CASE Reinstalled
  <2>1. envKey' \in EnvKeys /\ writable' \in BOOLEAN /\ keyFile' \in {keyFile, 0}
    BY <1>9 DEF Reinstalled, envVars, ConfigInv, SecretTypes, FlagTypes
  <2>2. life' = "down" /\ UNCHANGED <<vault, cachedKey, passwords, values, issued, entered, lost, boots>>
        /\ UNCHANGED settingVars
    BY <1>9 DEF Reinstalled
  <2> QED
    BY <2>1, <2>2, EndStep
<1>10. CASE UNCHANGED configVars
  <2>1. /\ UNCHANGED <<envKey, writable, keyFile, vault, cachedKey, passwords, values, issued, entered, lost>>
        /\ UNCHANGED <<settings, settingsFile, cadence, behind, skewed, life, boots>>
    BY <1>10 DEF configVars, envVars, secretVars, settingVars
  <2>2. Blobs' = Blobs
    BY <2>1 DEF Blobs
  <2>3. SealedIsWhole' /\ KeysOK' /\ OneKeyIsMade'
    BY <2>1, <2>2 DEF ConfigInv, SealedIsWhole, KeysOK, OneKeyIsMade
  <2>4. SecretTypes' /\ FlagTypes' /\ SettingTypes' /\ SettingsKept'
    BY <2>1 DEF ConfigInv, SecretTypes, FlagTypes, SettingTypes, SettingsKept
  <2>5. SecretsKept'
    BY <2>1 DEF ConfigInv, SecretsKept, FoundKey, KeyWith, Opens
  <2> QED
    BY <2>3, <2>4, <2>5 DEF ConfigInv
<1> QED
  BY <1>1, <1>2, <1>3, <1>4, <1>5, <1>6, <1>7, <1>8, <1>9, <1>10 DEF ConfigNext

\* The invariant says all that the run checks of the configuration.
LEMMA ConfigHolds ==
  ConfigInv => ConfigTypeOK /\ SecretsStay /\ OneKeyIsMade /\ SettingsAreKept
<1> SUFFICES ASSUME ConfigInv PROVE ConfigTypeOK /\ SecretsStay /\ OneKeyIsMade /\ SettingsAreKept
  OBVIOUS
<1>1. ConfigTypeOK
  BY DEF ConfigInv, ConfigTypeOK, SecretTypes, FlagTypes, SettingTypes, SettingRecord, SealedIsWhole
<1>2. SecretsStay
  BY DEF ConfigInv, SecretsStay, SecretsKept
<1> QED
  BY <1>1, <1>2 DEF ConfigInv, SettingsAreKept, SettingsKept

-----------------------------------------------------------------------------
(* SshMux: the invariant *)

ProbeStates == {"dialing", "joined", "ready", "failed"}
ExecStates == {"idle", "waiting", "dialing", "joined", "done", "failed"}
Count == Cardinality(Started)
Under == {"dialing", "joined"}

\* The probes are numbered; gate and calls name one of them, or none.
MuxTypes ==
    /\ Count \in Nat /\ Started = 1..Count /\ probes \in [Started -> ProbeStates]
    /\ gate \in [probe : 0..Count, expires : Nat]
    /\ exec \in [Execs -> [st : ExecStates, of : 0..Count]]
    /\ master \in {"none", "up", "hung"} /\ failedAt \in 0..Count
    /\ now \in Nat /\ idleAt \in Nat

MuxFlags == crossed \in BOOLEAN /\ bereft \in BOOLEAN

Ready == gate.probe # 0 /\ probes[gate.probe] = "ready"

\* The gate has a probe that did not fail, and that is in time.
GateOK ==
    gate.probe # 0 =>
        /\ probes[gate.probe] # "failed" /\ gate.expires <= now + Persist
        /\ probes[gate.probe] \in Under => now < gate.expires
        /\ gate.probe > failedAt

\* Nobody has the master.
Unused ==
    /\ \A n \in Started : probes[n] # "joined"
    /\ \A c \in Execs : exec[c].st # "joined"

\* The trust ends before the master does, unless that broke.
TrustIsBacked ==
    ~bereft /\ Ready => /\ Unused => gate.expires <= idleAt + Persist
                        /\ master # "none" \/ now >= gate.expires

\* Whoever dials is the probe of the gate.
GateDials ==
    /\ \A n \in Started : probes[n] = "dialing" => n = gate.probe
    /\ \A c \in Execs : exec[c].st # "dialing"
DialsAreGates == ~crossed /\ ~bereft => GateDials

WaitsOK == \A c \in Execs : exec[c].st = "waiting" => exec[c].of # 0 /\ probes[exec[c].of] \in Under

MuxInv == MuxTypes /\ MuxFlags /\ GateOK /\ TrustIsBacked /\ DialsAreGates /\ WaitsOK

-----------------------------------------------------------------------------
(* SshMux: the proof *)

LEMMA MuxInitInv == MuxInit => MuxInv
<1> SUFFICES ASSUME MuxInit PROVE MuxInv
  OBVIOUS
<1> USE DEF MuxInit
<1>1. Started = {}
  BY DEF Started
<1>2. Count = 0
  BY <1>1, FS_EmptySet DEF Count
<1>3. MuxTypes
  <2>1. Started = 1..Count
    BY <1>1, <1>2
  <2>2. probes \in [Started -> ProbeStates]
    BY <1>1
  <2> QED
    BY <1>2, <2>1, <2>2 DEF MuxTypes, NoGate, NotCalled, ExecStates
<1>4. MuxFlags
  BY DEF MuxFlags
<1>5. GateOK /\ TrustIsBacked
  BY DEF GateOK, TrustIsBacked, Ready, NoGate
<1>6. DialsAreGates /\ WaitsOK
  BY <1>1 DEF DialsAreGates, GateDials, WaitsOK, NotCalled
<1> QED
  BY <1>3, <1>4, <1>5, <1>6 DEF MuxInv

\* Unused and GateDials say what the sets of sessions say.
LEMMA JoinedIs == Joined = {} <=> Unused
  BY DEF Joined, Sessions, Unused

LEMMA DialingIs == /\ GateDials => Dialing \subseteq {<<"probe", gate.probe>>}
                   /\ Dialing = {} => GateDials
  BY DEF Dialing, Sessions, GateDials

\* As many probes as there are numbers.
LEMMA CountIs == ASSUME NEW n \in Nat, Started' = 1..n PROVE Count' = n
<1>1. Cardinality(1..n) = n
  BY FS_Interval
<1> QED
  BY <1>1 DEF Count

\* Where the probes keep their numbers.
LEMMA CountStays == ASSUME Started' = Started PROVE Count' = Count
  BY DEF Count

LEMMA NewProbeStep ==
  ASSUME MuxInv, NEW c \in Execs, EnsureReady(c), gate.probe = 0 \/ Expired
  PROVE  MuxInv'
<1> USE DEF MuxInv
<1> DEFINE n == Count + 1
<1>1. /\ probes' = [m \in 1..n |-> IF m = n THEN Spawned ELSE probes[m]]
      /\ gate' = [probe |-> n, expires |-> now + Persist]
      /\ exec' = [exec EXCEPT ![c] = [st |-> "waiting", of |-> n]]
      /\ crossed' = (crossed /\ Dialing # {}) /\ bereft' = (bereft /\ Dialing # {})
      /\ UNCHANGED <<master, idleAt, now, breaks, failedAt>>
  BY DEF EnsureReady, Count
<1>2. Count \in Nat /\ n \in Nat /\ n = Count + 1 /\ Started = 1..Count
  BY DEF MuxTypes
<1> HIDE DEF n
<1>3. Started' = 1..n
  BY <1>1 DEF Started
<1>4. Count' = n
  BY <1>2, <1>3, CountIs
<1>5. /\ Spawned \in Under /\ probes'[n] = Spawned
      /\ \A m \in Started : probes'[m] = probes[m]
      /\ \A m \in Started' : m \in Started \/ m = n
      /\ n \notin Started
  BY <1>1, <1>2, <1>3 DEF Spawned, Under
<1>6. MuxTypes'
  <2>1. probes' \in [Started' -> ProbeStates]
    BY <1>1, <1>2, <1>3, <1>5 DEF MuxTypes, ProbeStates, Under
  <2>2. gate' \in [probe : 0..n, expires : Nat]
    BY <1>1, <1>2, MuxAssumption DEF MuxTypes
  <2>3. exec' \in [Execs -> [st : ExecStates, of : 0..n]]
    BY <1>1, <1>2 DEF MuxTypes, ExecStates
  <2> QED
    BY <1>1, <1>2, <1>3, <1>4, <2>1, <2>2, <2>3 DEF MuxTypes
<1>7. MuxFlags'
  BY <1>1 DEF MuxFlags
<1>8. gate'.probe = n /\ gate'.expires = now + Persist
  BY <1>1
<1>9. GateOK'
  BY <1>1, <1>2, <1>5, <1>8, MuxAssumption DEF GateOK, MuxTypes, Under
<1>10. TrustIsBacked'
  BY <1>5, <1>8 DEF TrustIsBacked, Ready, Under
<1>11. exec'[c].st = "waiting" /\ exec'[c].of = n /\ \A d \in Execs \ {c} : exec'[d] = exec[d]
  BY <1>1 DEF MuxTypes
<1>12. DialsAreGates'
  <2> SUFFICES ASSUME ~crossed', ~bereft' PROVE GateDials'
    BY DEF DialsAreGates
  <2>1. (~crossed /\ ~bereft) \/ Dialing = {}
    BY <1>1
  <2>2. GateDials
    BY <2>1, DialingIs DEF DialsAreGates
  <2>3. \A m \in Started : probes[m] # "dialing"
    BY <2>2, <1>2 DEF GateDials, Expired, GateOK, Under, MuxTypes
  <2> QED
    BY <1>5, <1>8, <1>11, <2>2, <2>3 DEF GateDials
<1>13. WaitsOK'
  BY <1>2, <1>5, <1>11 DEF WaitsOK, MuxTypes
<1> QED
  BY <1>6, <1>7, <1>9, <1>10, <1>12, <1>13

LEMMA KnownProbeStep ==
  ASSUME MuxInv, NEW c \in Execs, EnsureReady(c), ~(gate.probe = 0 \/ Expired)
  PROVE  MuxInv'
<1> USE DEF MuxInv
<1> DEFINE st == IF probes[gate.probe] = "ready" THEN Spawned ELSE "waiting"
<1>1. /\ exec' = [exec EXCEPT ![c] = [st |-> st, of |-> gate.probe]]
      /\ UNCHANGED <<probes, gate, crossed, bereft, master, idleAt, now, breaks, failedAt>>
  BY DEF EnsureReady
<1>2. gate.probe # 0 /\ now < gate.expires
  BY DEF Expired, MuxTypes
<1>3. /\ st \in {"waiting", "joined", "dialing"} /\ (st = "waiting" <=> ~Ready)
      /\ (st = "dialing" => Ready /\ master = "none")
  BY <1>2 DEF Spawned, Ready
<1> HIDE DEF st
<1>4. exec'[c].st = st /\ exec'[c].of = gate.probe /\ \A d \in Execs \ {c} : exec'[d] = exec[d]
  BY <1>1 DEF MuxTypes
<1>5. Started' = Started /\ Count' = Count
  BY <1>1, CountStays DEF Started
<1>6. MuxTypes'
  <2>1. gate.probe \in 0..Count
    BY DEF MuxTypes
  <2>2. exec' \in [Execs -> [st : ExecStates, of : 0..Count]]
    BY <1>1, <1>3, <2>1 DEF MuxTypes, ExecStates
  <2> QED
    BY <1>1, <1>5, <2>2 DEF MuxTypes
<1>7. MuxFlags' /\ GateOK'
  BY <1>1 DEF MuxFlags, GateOK
<1>8. TrustIsBacked'
  BY <1>1, <1>2, <1>3, <1>4, <1>5 DEF TrustIsBacked, Ready, Unused, MuxTypes
<1>9. DialsAreGates'
  BY <1>1, <1>2, <1>3, <1>4, <1>5 DEF DialsAreGates, GateDials, TrustIsBacked, MuxTypes
<1>10. WaitsOK'
  <2>1. gate.probe \in Started
    BY <1>2 DEF MuxTypes
  <2>2. st = "waiting" => probes[gate.probe] \in Under
    BY <1>2, <1>3, <2>1 DEF Ready, GateOK, MuxTypes, ProbeStates, Under
  <2> QED
    BY <1>1, <1>2, <1>4, <2>2 DEF WaitsOK
<1> QED
  BY <1>6, <1>7, <1>8, <1>9, <1>10

LEMMA EnsureReadyStep == ASSUME MuxInv, NEW c \in Execs, EnsureReady(c) PROVE MuxInv'
<1>1. CASE gate.probe = 0 \/ Expired
  BY <1>1, NewProbeStep
<1>2. CASE ~(gate.probe = 0 \/ Expired)
  BY <1>2, KnownProbeStep
<1> QED
  BY <1>1, <1>2

\* What the end of one session leaves: if nobody has the master any more, it
\* is idle from now on.
LEMMA LeavesFacts ==
  ASSUME MuxTypes, NEW s, Leaves(s), \A x \in Joined : x = s
  PROVE  idleAt' = now
<1>1. Joined \ {s} = {}
  OBVIOUS
<1> QED
  BY <1>1 DEF Leaves

LEMMA ProbeReturnsStep == ASSUME MuxInv, NEW n \in Started, ProbeReturns(n) PROVE MuxInv'
<1> USE DEF MuxInv
<1>1. /\ probes' = [probes EXCEPT ![n] = "ready"]
      /\ exec' = [c \in Execs |-> IF exec[c] = [st |-> "waiting", of |-> n]
                                  THEN [exec[c] EXCEPT !.st = "joined"] ELSE exec[c]]
      /\ Leaves(<<"probe", n>>)
      /\ UNCHANGED <<gate, failedAt, crossed, bereft>>
      /\ probes[n] \in Under
      /\ master' \in {"up", master} /\ (probes[n] = "joined" => master = "up") /\ master' # "none"
  BY DEF ProbeReturns, Under
<1>2. Started' = Started /\ Count' = Count
  BY <1>1, CountStays DEF Started, MuxTypes
<1>3. probes'[n] = "ready" /\ \A m \in Started \ {n} : probes'[m] = probes[m]
  BY <1>1 DEF MuxTypes
<1>4. \A c \in Execs : \/ /\ exec[c].st = "waiting" /\ exec[c].of = n
                          /\ exec'[c].st = "joined" /\ exec'[c].of = n
                       \/ exec'[c] = exec[c] /\ ~(exec[c].st = "waiting" /\ exec[c].of = n)
  BY <1>1 DEF MuxTypes
<1>5. now' = now /\ idleAt' \in {idleAt, now}
  BY <1>1 DEF Leaves
<1>6. MuxTypes'
  <2>1. probes' \in [Started -> ProbeStates]
    BY <1>1 DEF MuxTypes, ProbeStates
  <2>2. exec' \in [Execs -> [st : ExecStates, of : 0..Count]]
    BY <1>1 DEF MuxTypes, ExecStates
  <2> QED
    BY <1>1, <1>2, <1>5, <2>1, <2>2 DEF MuxTypes
<1>7. MuxFlags'
  BY <1>1 DEF MuxFlags
<1>8. gate.probe # 0 => gate.probe \in Started
  BY DEF MuxTypes
<1>9. GateOK'
  BY <1>1, <1>3, <1>5, <1>8 DEF GateOK, Under
<1>10. TrustIsBacked'
  <2> SUFFICES ASSUME ~bereft', Ready'
               PROVE  (Unused' => gate'.expires <= idleAt' + Persist) /\ master' # "none"
    BY DEF TrustIsBacked
  <2>1. ASSUME Unused' PROVE gate'.expires <= idleAt' + Persist
    <3>1. \A m \in Started \ {n} : probes[m] # "joined"
      BY <1>2, <1>3, <2>1 DEF Unused
    <3>2. \A c \in Execs : exec[c].st # "joined"
      BY <1>4, <2>1 DEF Unused
    <3>3. \A x \in Joined : x = <<"probe", n>>
      BY <3>1, <3>2 DEF Joined, Sessions
    <3>4. idleAt' = now
      BY <1>1, <3>3, LeavesFacts
    <3>5. gate.probe # 0 /\ gate'.expires = gate.expires
      BY <1>1 DEF Ready
    <3> QED
      BY <3>4, <3>5 DEF GateOK
  <2> QED
    BY <1>1, <2>1
<1>11. DialsAreGates'
  BY <1>1, <1>2, <1>3, <1>4 DEF DialsAreGates, GateDials
<1>12. WaitsOK'
  <2> SUFFICES ASSUME NEW c \in Execs, exec'[c].st = "waiting"
               PROVE  exec'[c].of # 0 /\ probes'[exec'[c].of] \in Under
    BY DEF WaitsOK
  <2>1. exec'[c] = exec[c] /\ exec[c].of # n
    BY <1>4
  <2>2. exec[c].of \in Started
    BY <2>1 DEF WaitsOK, MuxTypes
  <2> QED
    BY <1>3, <2>1, <2>2 DEF WaitsOK
<1> QED
  BY <1>6, <1>7, <1>9, <1>10, <1>11, <1>12

\* A gate that is dropped, or stays.
LEMMA DroppedIs ==
  ASSUME MuxTypes, NEW n \in Started
  PROVE  /\ gate.probe = n => Dropped(n) = NoGate
         /\ gate.probe # n => Dropped(n) = gate
         /\ NoGate \in [probe : 0..Count, expires : Nat] /\ NoGate.probe = 0
  BY DEF Dropped, NoGate, MuxTypes

LEMMA ProbeFailsStep == ASSUME MuxInv, NEW n \in Started, ProbeFails(n) PROVE MuxInv'
<1> USE DEF MuxInv
<1>1. /\ probes' = [probes EXCEPT ![n] = "failed"]
      /\ exec' = [c \in Execs |-> IF exec[c] = [st |-> "waiting", of |-> n]
                                  THEN [exec[c] EXCEPT !.st = "failed"] ELSE exec[c]]
      /\ gate' = Dropped(n) /\ Leaves(<<"probe", n>>)
      /\ UNCHANGED <<master, failedAt, crossed, bereft>>
      /\ probes[n] \in Under
  BY DEF ProbeFails, Under
<1>2. Started' = Started /\ Count' = Count
  BY <1>1, CountStays DEF Started, MuxTypes
<1>3. probes'[n] = "failed" /\ \A m \in Started \ {n} : probes'[m] = probes[m]
  BY <1>1 DEF MuxTypes
<1>4. \A c \in Execs : \/ exec'[c].st = "failed" /\ exec[c].st = "waiting"
                       \/ exec'[c] = exec[c] /\ ~(exec[c].st = "waiting" /\ exec[c].of = n)
  BY <1>1 DEF MuxTypes
<1>5. now' = now /\ idleAt' \in {idleAt, now}
  BY <1>1 DEF Leaves
<1>6. \/ gate' = NoGate /\ gate'.probe = 0 /\ gate.probe = n
      \/ gate' = gate /\ gate.probe # n
  BY <1>1, DroppedIs
<1>7. MuxTypes'
  <2>1. probes' \in [Started -> ProbeStates]
    BY <1>1 DEF MuxTypes, ProbeStates
  <2>2. exec' \in [Execs -> [st : ExecStates, of : 0..Count]]
    BY <1>1 DEF MuxTypes, ExecStates
  <2>3. gate' \in [probe : 0..Count, expires : Nat]
    BY <1>6, DroppedIs DEF MuxTypes
  <2> QED
    BY <1>1, <1>2, <1>5, <2>1, <2>2, <2>3 DEF MuxTypes
<1>8. MuxFlags'
  BY <1>1 DEF MuxFlags
<1>9. gate.probe # 0 => gate.probe \in Started
  BY DEF MuxTypes
<1>10. GateOK'
  BY <1>1, <1>3, <1>5, <1>6, <1>9 DEF GateOK, Under
<1>11. TrustIsBacked'
  <2> SUFFICES ASSUME ~bereft', Ready'
               PROVE  /\ Unused' => gate'.expires <= idleAt' + Persist
                      /\ master' # "none" \/ now' >= gate'.expires
    BY DEF TrustIsBacked
  <2>1. gate' = gate /\ gate.probe # n /\ gate.probe # 0 /\ Ready
    BY <1>3, <1>6, <1>9 DEF Ready
  <2>2. ASSUME Unused' PROVE gate'.expires <= idleAt' + Persist
    <3>1. \A m \in Started \ {n} : probes[m] # "joined"
      BY <1>2, <1>3, <2>2 DEF Unused
    <3>2. \A c \in Execs : exec[c].st # "joined"
      BY <1>4, <2>2 DEF Unused
    <3>3. \A x \in Joined : x = <<"probe", n>>
      BY <3>1, <3>2 DEF Joined, Sessions
    <3>4. idleAt' = now
      BY <1>1, <3>3, LeavesFacts
    <3> QED
      BY <2>1, <3>4 DEF GateOK
  <2> QED
    BY <1>1, <1>5, <2>1, <2>2 DEF TrustIsBacked
<1>12. DialsAreGates'
  <2> SUFFICES ASSUME ~crossed', ~bereft' PROVE GateDials'
    BY DEF DialsAreGates
  <2>1. GateDials
    BY <1>1 DEF DialsAreGates
  <2> QED
    BY <1>2, <1>3, <1>4, <1>6, <2>1 DEF GateDials
<1>13. WaitsOK'
  <2> SUFFICES ASSUME NEW c \in Execs, exec'[c].st = "waiting"
               PROVE  exec'[c].of # 0 /\ probes'[exec'[c].of] \in Under
    BY DEF WaitsOK
  <2>1. exec'[c] = exec[c] /\ exec[c].of # n
    BY <1>4
  <2>2. exec[c].of \in Started
    BY <2>1 DEF WaitsOK, MuxTypes
  <2> QED
    BY <1>3, <2>1, <2>2 DEF WaitsOK
<1> QED
  BY <1>7, <1>8, <1>10, <1>11, <1>12, <1>13

LEMMA RunReturnsStep == ASSUME MuxInv, NEW c \in Execs, RunReturns(c) PROVE MuxInv'
<1> USE DEF MuxInv
<1>1. /\ exec' = [exec EXCEPT ![c].st = "done"] /\ exec[c].st \in Under
      /\ Leaves(<<"exec", c>>) /\ UNCHANGED <<gate, probes, failedAt, crossed, bereft>>
      /\ master' \in {"up", master} /\ (exec[c].st = "joined" => master = "up") /\ master' # "none"
  BY DEF RunReturns, Under
<1>2. Started' = Started /\ Count' = Count
  BY <1>1, CountStays DEF Started
<1>3. exec'[c].st = "done" /\ \A d \in Execs \ {c} : exec'[d] = exec[d]
  BY <1>1 DEF MuxTypes
<1>4. now' = now /\ idleAt' \in {idleAt, now}
  BY <1>1 DEF Leaves
<1>5. MuxTypes'
  <2>1. exec' \in [Execs -> [st : ExecStates, of : 0..Count]]
    BY <1>1 DEF MuxTypes, ExecStates
  <2> QED
    BY <1>1, <1>2, <1>4, <2>1 DEF MuxTypes
<1>6. MuxFlags' /\ GateOK'
  BY <1>1, <1>4 DEF MuxFlags, GateOK
<1>7. TrustIsBacked'
  <2> SUFFICES ASSUME ~bereft', Ready'
               PROVE  (Unused' => gate'.expires <= idleAt' + Persist) /\ master' # "none"
    BY DEF TrustIsBacked
  <2>1. ASSUME Unused' PROVE gate'.expires <= idleAt' + Persist
    <3>1. \A m \in Started : probes[m] # "joined"
      BY <1>1, <1>2, <2>1 DEF Unused
    <3>2. \A d \in Execs \ {c} : exec[d].st # "joined"
      BY <1>3, <2>1 DEF Unused
    <3>3. \A x \in Joined : x = <<"exec", c>>
      BY <3>1, <3>2 DEF Joined, Sessions
    <3>4. idleAt' = now
      BY <1>1, <3>3, LeavesFacts
    <3>5. gate.probe # 0 /\ gate'.expires = gate.expires
      BY <1>1 DEF Ready
    <3> QED
      BY <3>4, <3>5 DEF GateOK
  <2> QED
    BY <1>1, <2>1
<1>8. DialsAreGates' /\ WaitsOK'
  BY <1>1, <1>2, <1>3 DEF DialsAreGates, GateDials, WaitsOK
<1> QED
  BY <1>5, <1>6, <1>7, <1>8

\* Where the gate is forgotten, there is nothing to trust.
LEMMA ForgottenFacts ==
  ASSUME MuxInv, gate' = Forgotten
  PROVE  /\ gate'.probe = 0 /\ GateOK' /\ TrustIsBacked'
         /\ gate' \in [probe : 0..Count, expires : Nat]
  BY DEF Forgotten, NoGate, GateOK, TrustIsBacked, Ready, MuxInv, MuxTypes

LEMMA RunFailsStep == ASSUME MuxInv, NEW c \in Execs, RunFails(c) PROVE MuxInv'
<1> USE DEF MuxInv
<1>1. /\ exec' = [exec EXCEPT ![c].st = "failed"] /\ exec[c].st \in Under
      /\ gate' = Forgotten /\ failedAt' = Count
      /\ crossed' = (crossed \/ (gate.probe # 0 /\ probes[gate.probe] \in Under))
      /\ Leaves(<<"exec", c>>) /\ UNCHANGED <<probes, master, bereft>>
  BY DEF RunFails, Under, Count
<1>2. Started' = Started /\ Count' = Count
  BY <1>1, CountStays DEF Started
<1>3. exec'[c].st = "failed" /\ \A d \in Execs \ {c} : exec'[d] = exec[d]
  BY <1>1 DEF MuxTypes
<1>4. now' = now /\ idleAt' \in {idleAt, now}
  BY <1>1 DEF Leaves
<1>5. gate'.probe = 0 /\ GateOK' /\ TrustIsBacked' /\ gate' \in [probe : 0..Count, expires : Nat]
  BY <1>1, ForgottenFacts
<1>6. MuxTypes'
  <2>1. exec' \in [Execs -> [st : ExecStates, of : 0..Count]]
    BY <1>1 DEF MuxTypes, ExecStates
  <2>2. failedAt' \in 0..Count
    BY <1>1 DEF MuxTypes
  <2> QED
    BY <1>1, <1>2, <1>4, <1>5, <2>1, <2>2 DEF MuxTypes
<1>7. MuxFlags'
  BY <1>1 DEF MuxFlags
<1>8. DialsAreGates'
  <2> SUFFICES ASSUME ~crossed', ~bereft' PROVE GateDials'
    BY DEF DialsAreGates
  <2>1. GateDials /\ ~(gate.probe # 0 /\ probes[gate.probe] \in Under)
    BY <1>1 DEF DialsAreGates
  <2>2. \A m \in Started : probes[m] # "dialing"
    BY <2>1 DEF GateDials, Under, MuxTypes
  <2> QED
    BY <1>1, <1>2, <1>3, <2>1, <2>2 DEF GateDials
<1>9. WaitsOK'
  BY <1>1, <1>3 DEF WaitsOK
<1> QED
  BY <1>5, <1>6, <1>7, <1>8, <1>9

\* The idle time of the master, and the trust of the gate, end in this order.
LEMMA ExpiresStep == ASSUME MuxInv, Expires PROVE MuxInv'
<1> USE DEF MuxInv
<1>1. /\ Joined = {} /\ now >= idleAt + Persist /\ master' = "none"
      /\ UNCHANGED <<gate, probes, exec, idleAt, now, failedAt, crossed, bereft>>
  BY DEF Expires
<1>2. Started' = Started /\ Count' = Count
  BY <1>1, CountStays DEF Started
<1>3. MuxTypes' /\ MuxFlags' /\ GateOK'
  BY <1>1, <1>2 DEF MuxTypes, MuxFlags, GateOK
<1>4. DialsAreGates' /\ WaitsOK'
  BY <1>1, <1>2 DEF DialsAreGates, GateDials, WaitsOK
<1>5. TrustIsBacked'
  <2> SUFFICES ASSUME ~bereft', Ready'
               PROVE  gate'.expires <= idleAt' + Persist /\ now' >= gate'.expires
    BY DEF TrustIsBacked
  <2>1. ~bereft /\ Ready /\ Unused
    BY <1>1, JoinedIs DEF Ready
  <2>2. gate.expires <= idleAt + Persist
    BY <2>1 DEF TrustIsBacked
  <2>3. gate.expires \in Nat /\ idleAt \in Nat /\ now \in Nat
    BY DEF MuxTypes
  <2> QED
    BY <1>1, <2>2, <2>3, MuxAssumption
<1> QED
  BY <1>3, <1>4, <1>5

\* It hangs: nobody is told.
LEMMA HangsStep == ASSUME MuxInv, Breaks("hung") PROVE MuxInv'
<1> USE DEF MuxInv
<1>1. /\ master = "up" /\ master' = "hung" /\ bereft' = (bereft \/ gate.probe # 0)
      /\ UNCHANGED <<gate, probes, exec, idleAt, now, failedAt, crossed>>
  BY DEF Breaks
<1>2. Started' = Started /\ Count' = Count
  BY <1>1, CountStays DEF Started
<1>3. MuxTypes' /\ MuxFlags' /\ GateOK'
  BY <1>1, <1>2 DEF MuxTypes, MuxFlags, GateOK
<1>4. TrustIsBacked'
  BY <1>1 DEF TrustIsBacked, Ready
<1>5. DialsAreGates' /\ WaitsOK'
  BY <1>1, <1>2 DEF DialsAreGates, GateDials, WaitsOK
<1> QED
  BY <1>3, <1>4, <1>5

\* It breaks: all who have it fail.
LEMMA BreaksStep == ASSUME MuxInv, Breaks("none") PROVE MuxInv'
<1> USE DEF MuxInv
<1>1. /\ master' = "none" /\ bereft' = (bereft \/ gate.probe # 0)
      /\ UNCHANGED <<crossed, idleAt, now>>
      /\ probes' = [n \in Started |-> IF probes[n] = "joined" THEN "failed" ELSE probes[n]]
      /\ exec' = [c \in Execs |->
                    IF \/ exec[c].st = "joined"
                       \/ exec[c].st = "waiting" /\ probes[exec[c].of] = "joined"
                    THEN [exec[c] EXCEPT !.st = "failed"] ELSE exec[c]]
  BY DEF Breaks
<1>2. \/ gate' = Forgotten /\ failedAt' = Count
      \/ /\ UNCHANGED failedAt
         /\ \/ gate' = Forgotten
            \/ gate' = gate /\ ~(gate.probe # 0 /\ probes[gate.probe] = "joined")
  BY DEF Breaks, Count, Forgotten
<1>3. Started' = Started
  BY <1>1 DEF Started
<1>4. Count' = Count
  BY <1>3, CountStays
<1>5. \A n \in Started : /\ probes'[n] = probes[n] \/ (probes[n] = "joined" /\ probes'[n] = "failed")
                         /\ probes'[n] # "joined"
  BY <1>1
<1>6. \A c \in Execs : \/ exec'[c].st = "failed"
                       \/ /\ exec'[c] = exec[c]
                          /\ exec[c].st = "waiting" => probes[exec[c].of] # "joined"
  BY <1>1 DEF MuxTypes
<1>7. \/ /\ gate'.probe = 0 /\ GateOK' /\ TrustIsBacked'
         /\ gate' \in [probe : 0..Count, expires : Nat]
      \/ /\ gate' = gate /\ ~(gate.probe # 0 /\ probes[gate.probe] = "joined")
         /\ gate' \in [probe : 0..Count, expires : Nat] /\ failedAt' = failedAt
  BY <1>2, ForgottenFacts DEF MuxTypes
<1>8. MuxTypes'
  <2>1. probes' \in [Started -> ProbeStates]
    BY <1>1 DEF MuxTypes, ProbeStates
  <2>2. exec' \in [Execs -> [st : ExecStates, of : 0..Count]]
    BY <1>1 DEF MuxTypes, ExecStates
  <2>3. failedAt' \in 0..Count
    BY <1>2 DEF MuxTypes
  <2> QED
    BY <1>1, <1>3, <1>4, <1>7, <2>1, <2>2, <2>3 DEF MuxTypes
<1>9. MuxFlags'
  BY <1>1 DEF MuxFlags
<1>10. gate.probe # 0 => gate.probe \in Started
  BY DEF MuxTypes
<1>11. GateOK'
  <2>1. CASE gate' = gate /\ failedAt' = failedAt /\ ~(gate.probe # 0 /\ probes[gate.probe] = "joined")
    <3>1. gate.probe # 0 => probes'[gate.probe] = probes[gate.probe]
      BY <1>5, <1>10, <2>1
    <3> QED
      BY <1>1, <2>1, <3>1 DEF GateOK
  <2> QED
    BY <1>7, <2>1
<1>12. TrustIsBacked'
  BY <1>1, <1>7 DEF TrustIsBacked, Ready
<1>13. DialsAreGates'
  <2> SUFFICES ASSUME ~crossed', ~bereft' PROVE GateDials'
    BY DEF DialsAreGates
  <2>1. GateDials /\ gate.probe = 0 /\ gate'.probe = 0
    BY <1>1, <1>7 DEF DialsAreGates
  <2> QED
    BY <1>3, <1>5, <1>6, <2>1 DEF GateDials
<1>14. WaitsOK'
  <2> SUFFICES ASSUME NEW c \in Execs, exec'[c].st = "waiting"
               PROVE  exec'[c].of # 0 /\ probes'[exec'[c].of] \in Under
    BY DEF WaitsOK
  <2>1. exec'[c] = exec[c] /\ probes[exec[c].of] # "joined"
    BY <1>6
  <2>2. exec[c].of \in Started
    BY <2>1 DEF WaitsOK, MuxTypes
  <2> QED
    BY <1>5, <2>1, <2>2 DEF WaitsOK
<1> QED
  BY <1>8, <1>9, <1>11, <1>12, <1>13, <1>14

LEMMA TicksStep == ASSUME MuxInv, MuxTicks PROVE MuxInv'
<1> USE DEF MuxInv
<1>1. /\ now' = now + 1
      /\ gate.probe # 0 /\ probes[gate.probe] \in Under => now' < gate.expires
      /\ UNCHANGED <<gate, probes, exec, master, idleAt, failedAt, crossed, bereft>>
  BY DEF MuxTicks, Under
<1>2. Started' = Started /\ Count' = Count
  BY <1>1, CountStays DEF Started
<1>3. MuxTypes' /\ MuxFlags'
  BY <1>1, <1>2 DEF MuxTypes, MuxFlags
<1>4. now \in Nat /\ gate.expires \in Nat /\ Persist \in Nat
  BY MuxAssumption DEF MuxTypes
<1>5. GateOK' /\ TrustIsBacked'
  BY <1>1, <1>2, <1>4 DEF GateOK, TrustIsBacked, Ready, Unused
<1>6. DialsAreGates' /\ WaitsOK'
  BY <1>1, <1>2 DEF DialsAreGates, GateDials, WaitsOK
<1> QED
  BY <1>3, <1>5, <1>6

LEMMA MuxNextInv == MuxInv /\ [MuxNext]_muxVars => MuxInv'
<1> SUFFICES ASSUME MuxInv, [MuxNext]_muxVars PROVE MuxInv'
  OBVIOUS
<1>1. CASE \E c \in Execs : EnsureReady(c) \/ RunReturns(c) \/ RunFails(c)
  BY <1>1, EnsureReadyStep, RunReturnsStep, RunFailsStep
<1>2. CASE \E n \in Started : ProbeReturns(n) \/ ProbeFails(n)
  BY <1>2, ProbeReturnsStep, ProbeFailsStep
<1>3. CASE Expires \/ MuxTicks
  BY <1>3, ExpiresStep, TicksStep
<1>4. CASE \E next \in {"none", "hung"} : Breaks(next)
  BY <1>4, BreaksStep, HangsStep
<1>5. CASE UNCHANGED muxVars
  <2>1. UNCHANGED <<gate, probes, exec, master, idleAt, now, failedAt, crossed, bereft>>
    BY <1>5 DEF muxVars
  <2>2. Started' = Started /\ Count' = Count
    BY <2>1, CountStays DEF Started
  <2>3. MuxTypes' /\ MuxFlags' /\ GateOK'
    BY <2>1, <2>2 DEF MuxInv, MuxTypes, MuxFlags, GateOK
  <2>4. TrustIsBacked' /\ DialsAreGates' /\ WaitsOK'
    BY <2>1, <2>2 DEF MuxInv, TrustIsBacked, Ready, Unused, DialsAreGates, GateDials, WaitsOK
  <2> QED
    BY <2>3, <2>4 DEF MuxInv
<1> QED
  BY <1>1, <1>2, <1>3, <1>4, <1>5 DEF MuxNext

LEMMA MuxHolds == MuxInv => MuxTypeOK /\ OneDials /\ TrustIsNew /\ NobodyWaits
<1> SUFFICES ASSUME MuxInv PROVE MuxTypeOK /\ OneDials /\ TrustIsNew /\ NobodyWaits
  OBVIOUS
<1> USE DEF MuxInv
<1>1. MuxTypeOK
  BY DEF MuxTypeOK, MuxTypes, ProbeStates, ExecStates
<1>2. OneDials
  <2> SUFFICES ASSUME ~crossed, ~bereft PROVE Cardinality(Dialing) <= 1
    BY DEF OneDials
  <2> DEFINE one == {<<"probe", gate.probe>>}
  <2>1. Dialing \subseteq one
    BY DialingIs DEF DialsAreGates
  <2>2. IsFiniteSet(one) /\ Cardinality(one) = 1
    BY FS_Singleton
  <2> HIDE DEF one
  <2>3. Cardinality(Dialing) <= Cardinality(one)
    BY <2>1, <2>2, FS_Subset
  <2> QED
    BY <2>2, <2>3
<1>3. TrustIsNew
  BY DEF TrustIsNew, GateOK
<1>4. NobodyWaits
  BY DEF NobodyWaits, WaitsOK, Under
<1> QED
  BY <1>1, <1>2, <1>3, <1>4

-----------------------------------------------------------------------------
(* The parts, side by side *)

HouseInv == ConfigInv /\ MuxInv

\* The invariants of the two parts are inductive: each step is a step of one of
\* them, or of neither.
THEOREM HouseInvariance == HouseSpec => []HouseInv
<1>1. HouseInit => HouseInv
  BY ConfigInitInv, MuxInitInv DEF HouseInit, HouseInv
<1>2. HouseInv /\ [HouseNext]_houseVars => HouseInv'
  <2> SUFFICES ASSUME HouseInv, [HouseNext]_houseVars PROVE HouseInv'
    OBVIOUS
  <2>1. [ConfigNext]_configVars
    BY DEF HouseNext, houseVars
  <2>2. [MuxNext]_muxVars
    BY DEF HouseNext, houseVars
  <2> QED
    BY <2>1, <2>2, ConfigNextInv, MuxNextInv DEF HouseInv
<1> QED
  BY <1>1, <1>2, PTL DEF HouseSpec

\* Tokens, passwords and settings are read as they were given, through saves,
\* crashes and boots (secretsStore.js, settings.js); one connection is opened
\* to a spark at a time, and nobody trusts or awaits a probe that is over (ssh.js).
THEOREM TheHouseHolds == HouseSpec => []HouseHolds
<1>1. HouseInv => HouseHolds
  BY ConfigHolds, MuxHolds DEF HouseInv, HouseHolds
<1> QED
  BY <1>1, HouseInvariance, PTL

-----------------------------------------------------------------------------
(* What is known of a recipe folder *)

Entries  == Scripts \cup {NoEntry}
AnyFolder == Contents \cup {Nothing}
Records  == [known : BOOLEAN, entry : Entries, at : Nat, of : AnyFolder, meta : Entries, error : BOOLEAN]
Boards   == [known : BOOLEAN, live : BOOLEAN, variant : Entries, ran : Entries,
             version : AnyFolder, at : Nat, really : AnyFolder]
Probes   == [busy : BOOLEAN, entry : Entries, at : Nat, of : AnyFolder]

\* A record, or a reading, is of an edition that there was, of what the folder
\* was then, and has no folder without one.
ReadOK(r, e, c)   == r.at <= e /\ (r.at = 0 => r.of = Nothing) /\ (r.at = e => r.of = c)
RecordOK(r, e, c) ==
    /\ r \in Records /\ ReadOK(r, e, c)
    /\ IF r.at > 0 THEN HasRecipe(r.of) /\ r.meta \in Scripts ELSE r.meta = NoEntry
    /\ ~r.known => r.at = 0
ProbeOK(p, e, c)  == p \in Probes /\ ReadOK(p, e, c) /\ (~p.busy => p.at = 0)
BoardOK(b) == b \in Boards /\ (b.live => b.known)

NodeOK  == folder \in AnyFolder /\ edition \in Nat \ {0} /\ asks \in Nat
NotesOK == mingled \in BOOLEAN /\ strayed \in BOOLEAN /\ unsaved \in BOOLEAN
KnownOK == RecordOK(shelf, edition, folder) /\ BoardOK(board)
SavedOK ==
    /\ RecordOK(saved.shelf, edition, folder) /\ BoardOK(saved.board)
ProbesOK == DOMAIN probing = Callers /\ \A c \in Callers : ProbeOK(probing[c], edition, folder)

\* Unless they mingled there is one probe at a time, and it reads nothing older
\* than the record.
OneProbe ==
    ~mingled =>
        /\ \A c, d \in Callers : probing[c].busy /\ probing[d].busy => c = d
        /\ \A c \in Callers : probing[c].at > 0 => probing[c].at >= shelf.at

\* What a record says of the script that a run runs, in memory or on file, if
\* the entry in meta did not stray.
Agrees(r, b, s) ==
    /\ b.live /\ b.variant # NoEntry => b.variant = b.ran
    /\ r.at > 0 /\ ~s => r.entry = r.meta
    /\ b.live /\ b.variant = NoEntry /\ r.at > 0 /\ ~s => r.meta = b.ran

\* Memory and file as a whole.
PairOK(r, b, s, u, sv) ==
    /\ Agrees(r, b, s) /\ Agrees(sv.shelf, sv.board, s)
    /\ sv = [shelf |-> sv.shelf, board |-> sv.board] /\ (sv.board.live => b.live)
    /\ ~u => sv.shelf = r /\ sv.board = b /\ (b.known => r.known)

Paired == PairOK(shelf, board, strayed, unsaved, saved)

ShelfInv == NodeOK /\ NotesOK /\ KnownOK /\ SavedOK /\ ProbesOK /\ OneProbe /\ Paired

LEMMA Nobody ==
  /\ NoRecipe \in Records /\ NoRun \in Boards /\ NoProbe \in Probes
  /\ NoRecipe.at = 0 /\ NoRecipe.of = Nothing /\ ~NoRecipe.known /\ NoRecipe.meta = NoEntry
  /\ ~NoRun.known /\ ~NoRun.live /\ ~NoProbe.busy /\ NoProbe.at = 0 /\ NoProbe.of = Nothing
<1>1. NoRecipe \in Records /\ NoRecipe.at = 0 /\ NoRecipe.of = Nothing /\ ~NoRecipe.known /\ NoRecipe.meta = NoEntry
  BY DEF NoRecipe, Records, Entries, AnyFolder
<1>2. NoRun \in Boards /\ ~NoRun.known /\ ~NoRun.live
  BY DEF NoRun, Boards, Entries, AnyFolder
<1>3. NoProbe \in Probes /\ ~NoProbe.busy /\ NoProbe.at = 0 /\ NoProbe.of = Nothing
  BY DEF NoProbe, Probes, Entries, AnyFolder
<1> QED
  BY <1>1, <1>2, <1>3

LEMMA ShelfInitInv == ShelfInit => ShelfInv
<1> SUFFICES ASSUME ShelfInit PROVE ShelfInv
  OBVIOUS
<1>1. NodeOK /\ NotesOK
  <2>1. NodeOK
    BY DEF ShelfInit, NodeOK, AnyFolder
  <2>2. NotesOK
    BY DEF ShelfInit, NotesOK
  <2> QED
    BY <2>1, <2>2
<1>2. KnownOK /\ SavedOK
  BY Nobody DEF ShelfInit, KnownOK, SavedOK, RecordOK, ReadOK, BoardOK
<1>3. ProbesOK /\ OneProbe
  BY Nobody DEF ShelfInit, ProbesOK, ProbeOK, ReadOK, OneProbe
<1>4. Paired
  BY Nobody DEF ShelfInit, Paired, PairOK, Agrees
<1> QED
  BY <1>1, <1>2, <1>3, <1>4 DEF ShelfInv

\* What a probe makes of a record.
LEMMA UpdatedIs ==
  ASSUME NEW r \in Records, NEW p \in Probes, HasRecipe(p.of), NEW u, u = Updated(r, p)
  PROVE  u \in Records /\ u.known = r.known /\ u.at = p.at /\ u.of = p.of /\ u.meta \in Scripts
<1>1. p.of \in AnyFolder /\ p.entry \in Entries /\ p.at \in Nat
  BY DEF Probes
<1>2. p.of.scripts \subseteq Scripts /\ p.of.scripts # {}
  BY <1>1, ShelfAssumption DEF AnyFolder, Nothing, IsContent, HasRecipe
<1>3. DefaultEntry(p.of) \in Scripts
  BY <1>2 DEF DefaultEntry
<1>4. p.entry \in Variants(p.of) => p.entry \in Scripts
  BY <1>2 DEF Variants
<1> DEFINE me == IF p.entry \in Variants(p.of) THEN p.entry ELSE DefaultEntry(p.of)
           en == IF p.entry # NoEntry THEN p.entry ELSE IF r.entry = NoEntry THEN DefaultEntry(p.of) ELSE r.entry
<1>5. me \in Scripts /\ en \in Entries
  BY <1>1, <1>3, <1>4 DEF Entries, Records
<1>6. u = [r EXCEPT !.at = p.at, !.of = p.of, !.error = FALSE, !.meta = me, !.entry = en]
  BY DEF Updated
<1> HIDE DEF me, en
<1> QED
  BY <1>1, <1>5, <1>6 DEF Records, Entries

-----------------------------------------------------------------------------
\* What a save keeps.

\* If what is in memory after a step may be paired with what was in memory
\* before, it makes no difference which of the two files is written.
LEMMA SaveKeeps ==
  ASSUME ShelfInv, SaveBoth, UNCHANGED <<folder, edition>>, strayed => strayed',
         RecordOK(shelf, edition, folder)', BoardOK(board)',
         Agrees(shelf, board, strayed)', Agrees(shelf, board', strayed'), Agrees(shelf', board, strayed'),
         board.live => board'.live, board'.known => shelf'.known \/ unsaved
  PROVE  SavedOK' /\ Paired' /\ unsaved' \in BOOLEAN
<1>1. CASE saved' = [shelf |-> shelf', board |-> board'] /\ UNCHANGED unsaved
  BY <1>1 DEF ShelfInv, NotesOK, SavedOK, Paired, PairOK
<1>2. CASE /\ ~unsaved /\ unsaved' = TRUE
           /\ saved' \in [shelf : {shelf', saved.shelf}, board : {board', saved.board}]
  <2>1. saved.shelf = shelf /\ saved.board = board
    BY <1>2 DEF ShelfInv, Paired, PairOK
  <2>2. saved'.shelf \in {shelf', shelf} /\ saved'.board \in {board', board}
        /\ saved' = [shelf |-> saved'.shelf, board |-> saved'.board]
    BY <1>2, <2>1
  <2>3. RecordOK(shelf, edition', folder') /\ BoardOK(board)
    BY DEF ShelfInv, KnownOK
  <2>4. SavedOK'
    BY <2>2, <2>3 DEF SavedOK
  <2>5. Agrees(shelf, board, strayed')
    BY DEF ShelfInv, Paired, PairOK, Agrees
  <2>6. Agrees(saved.shelf, saved.board, strayed)'
    BY <2>2, <2>5
  <2>7. Paired'
    BY <1>2, <2>2, <2>6 DEF Paired, PairOK
  <2> QED
    BY <1>2, <2>4, <2>7
<1> QED
  BY <1>1, <1>2 DEF SaveBoth

\* A step that leaves the record, the run and the files alone.
LEMMA KnownRests ==
  ASSUME ShelfInv, UNCHANGED <<shelf, board, saved, strayed, unsaved>>,
         edition' \in Nat, edition' >= edition, edition' = edition => folder' = folder
  PROVE  KnownOK' /\ SavedOK' /\ Paired' /\ strayed' \in BOOLEAN /\ unsaved' \in BOOLEAN
<1>1. \A r : RecordOK(r, edition, folder) => RecordOK(r, edition', folder')
  BY DEF ShelfInv, NodeOK, RecordOK, ReadOK, Records
<1> QED
  BY <1>1 DEF ShelfInv, KnownOK, SavedOK, Paired, NotesOK

LEMMA ProbesRest ==
  ASSUME ShelfInv, UNCHANGED <<probing, mingled>>, edition' \in Nat, edition' >= edition, edition' = edition => folder' = folder
  PROVE  ProbesOK' /\ mingled' \in BOOLEAN
<1>1. \A p : ProbeOK(p, edition, folder) => ProbeOK(p, edition', folder')
  BY DEF ShelfInv, NodeOK, ProbeOK, ReadOK, Probes
<1> QED
  BY <1>1 DEF ShelfInv, ProbesOK, NotesOK

-----------------------------------------------------------------------------
(* The steps *)

LEMMA EditStep == ASSUME ShelfInv, NEW c \in Contents \cup {Nothing}, Edit(c) PROVE ShelfInv'
<1>1. NodeOK'
  BY DEF ShelfInv, NodeOK, Edit, AnyFolder
<1>2. UNCHANGED <<shelf, board, saved, strayed, unsaved, probing, mingled>> /\ edition' \in Nat /\ edition' >= edition
      /\ (edition' = edition => folder' = folder)
  BY DEF ShelfInv, NodeOK, Edit
<1>3. OneProbe'
  BY <1>2 DEF ShelfInv, OneProbe
<1> QED
  BY <1>1, <1>2, <1>3, KnownRests, ProbesRest DEF ShelfInv, NotesOK

LEMMA ReachStep == ASSUME ShelfInv, Reach PROVE ShelfInv'
<1>1. NodeOK'
  BY DEF ShelfInv, NodeOK, Reach
<1>2. UNCHANGED <<shelf, board, saved, strayed, unsaved, probing, mingled>> /\ edition' \in Nat /\ edition' >= edition
      /\ (edition' = edition => folder' = folder)
  BY DEF ShelfInv, NodeOK, Reach
<1>3. OneProbe'
  BY <1>2 DEF ShelfInv, OneProbe
<1> QED
  BY <1>1, <1>2, <1>3, KnownRests, ProbesRest DEF ShelfInv, NotesOK

LEMMA ProbeReadsStep == ASSUME ShelfInv, NEW k \in Callers, ProbeReads(k) PROVE ShelfInv'
<1>1. NodeOK'
  BY DEF ShelfInv, NodeOK, ProbeReads
<1>2. UNCHANGED <<shelf, board, saved, strayed, unsaved, mingled, folder>> /\ edition' = edition /\ edition \in Nat \ {0}
  BY DEF ShelfInv, NodeOK, ProbeReads
<1> DEFINE p == [probing[k] EXCEPT !.at = edition, !.of = folder]
<1>3. DOMAIN probing = Callers /\ \A c \in Callers : ProbeOK(probing[c], edition, folder)
  BY DEF ShelfInv, ProbesOK
<1>4. probing' = [probing EXCEPT ![k] = p]
  BY <1>3 DEF ProbeReads
<1>5. p.at = edition /\ p.busy /\ ProbeOK(p, edition, folder)
  <2>1. probing[k] \in Probes /\ probing[k].busy /\ folder \in AnyFolder
    BY <1>3 DEF ShelfInv, NodeOK, ProbeReads, ProbeOK
  <2>2. p \in Probes /\ p.at = edition /\ p.of = folder /\ p.busy
    BY <1>2, <2>1 DEF Probes
  <2> HIDE DEF p
  <2> QED
    BY <1>2, <2>2 DEF ProbeOK, ReadOK
<1>6. \A c \in Callers : probing'[c].busy = probing[c].busy /\ (c # k => probing'[c] = probing[c])
  BY <1>3, <1>4, <1>5 DEF ProbeReads
<1>7. probing'[k] = p /\ DOMAIN probing' = Callers
  BY <1>3, <1>4
<1> HIDE DEF p
<1>8. ProbesOK'
  BY <1>2, <1>3, <1>5, <1>6, <1>7 DEF ProbesOK
<1>9. shelf.at <= edition
  BY DEF ShelfInv, KnownOK, RecordOK, ReadOK
<1>10. OneProbe'
  BY <1>2, <1>5, <1>6, <1>7, <1>9 DEF ShelfInv, OneProbe
<1> QED
  BY <1>1, <1>2, <1>8, <1>10, KnownRests DEF ShelfInv, NotesOK

\* A probe begins.
LEMMA ProbeBegins ==
  ASSUME ShelfInv, NEW k \in Callers, NEW e \in Entries, Probe(k, e), ~probing[k].busy,
         k # "register" => \A c \in Polls : ~probing[c].busy,
         UNCHANGED <<folder, edition>>, shelf'.at = shelf.at
  PROVE  ProbesOK' /\ OneProbe' /\ mingled' \in BOOLEAN
<1> DEFINE p == [NoProbe EXCEPT !.busy = TRUE, !.entry = e]
<1>1. p \in Probes /\ p.busy /\ p.at = 0 /\ p.of = Nothing
  BY Nobody DEF Probes, NoProbe
<1>2. DOMAIN probing = Callers /\ \A c \in Callers : ProbeOK(probing[c], edition, folder)
  BY DEF ShelfInv, ProbesOK
<1>3. probing' = [probing EXCEPT ![k] = p]
  BY DEF Probe
<1> HIDE DEF p
<1>4. DOMAIN probing' = Callers /\ probing'[k] = p /\ \A c \in Callers : c # k => probing'[c] = probing[c]
  BY <1>2, <1>3
<1>5. ProbeOK(p, edition, folder)
  BY <1>1 DEF ProbeOK, ReadOK, ShelfInv, NodeOK
<1>6. ProbesOK'
  BY <1>2, <1>4, <1>5 DEF ProbesOK
<1>7. mingled' \in BOOLEAN /\ (mingled => mingled')
  BY DEF Probe, ShelfInv, NotesOK
<1>8. ASSUME ~mingled' PROVE \A c \in Callers : ~probing[c].busy
  <2>1. CASE k = "register"
    BY <1>8, <2>1 DEF Probe, Callers
  <2>2. CASE k # "register"
    BY <1>8, <2>2 DEF Probe, Callers
  <2> QED
    BY <2>1, <2>2
<1>9. OneProbe'
  BY <1>1, <1>4, <1>7, <1>8 DEF OneProbe, ShelfInv
<1> QED
  BY <1>6, <1>7, <1>9

LEMMA ListedProbe ==
  ASSUME ShelfInv, NEW c \in Free, Probe(c, NoEntry), UNCHANGED <<folder, edition, shelf, board, saved, strayed, unsaved>>,
         asks' \in Nat
  PROVE  ShelfInv'
<1>1. c = "shared" /\ c \in Callers /\ \A k \in Polls : ~probing[k].busy
  BY DEF Free, Callers, Polls
<1>2. ProbesOK' /\ OneProbe' /\ mingled' \in BOOLEAN
  BY <1>1, ProbeBegins DEF Entries, Polls
<1>3. NodeOK' /\ edition' \in Nat /\ edition' >= edition
      /\ (edition' = edition => folder' = folder)
  BY DEF ShelfInv, NodeOK
<1>4. KnownOK' /\ SavedOK' /\ Paired' /\ strayed' \in BOOLEAN /\ unsaved' \in BOOLEAN
  BY <1>3, KnownRests
<1> QED
  BY <1>2, <1>3, <1>4 DEF ShelfInv, NotesOK

LEMMA RefreshStep == ASSUME ShelfInv, Refresh PROVE ShelfInv'
<1>1. PICK c \in Free : Probe(c, NoEntry)
  BY DEF Refresh
<1> QED
  BY <1>1, ListedProbe DEF Refresh, Ask, ShelfInv, NodeOK

LEMMA ListStep == ASSUME ShelfInv, List PROVE ShelfInv'
<1>1. PICK c \in Free : Probe(c, NoEntry)
  BY DEF List
<1> QED
  BY <1>1, ListedProbe DEF List, ShelfInv, NodeOK

LEMMA DeleteStep == ASSUME ShelfInv, Delete PROVE ShelfInv'
<1>1. shelf' = NoRecipe /\ board' = NoRun /\ ~board.live /\ edition' = edition
      /\ UNCHANGED <<folder, probing, mingled, strayed>>
  BY DEF Delete, Forgettable
<1>2. NodeOK' /\ edition' \in Nat /\ edition' >= edition
      /\ (edition' = edition => folder' = folder)
  BY DEF ShelfInv, NodeOK, Delete, Ask
<1>3. KnownOK'
  BY <1>1, <1>2, Nobody DEF KnownOK, RecordOK, ReadOK, BoardOK, NodeOK
<1>4. /\ Agrees(shelf, board, strayed)' /\ Agrees(shelf, board', strayed') /\ Agrees(shelf', board, strayed')
      /\ (board.live => board'.live) /\ ~board'.known
  BY <1>1, Nobody DEF ShelfInv, Paired, PairOK, Agrees
<1>5. SavedOK' /\ Paired' /\ unsaved' \in BOOLEAN
  BY <1>1, <1>3, <1>4, SaveKeeps DEF Delete, KnownOK
<1>6. ProbesOK' /\ mingled' \in BOOLEAN
  BY <1>1, <1>2, ProbesRest
<1>7. OneProbe'
  BY <1>1, Nobody DEF ShelfInv, OneProbe, ProbesOK, ProbeOK, Probes
<1> QED
  BY <1>1, <1>2, <1>3, <1>5, <1>6, <1>7 DEF ShelfInv, NotesOK

LEMMA RunStep == ASSUME ShelfInv, NEW e \in Entries, Run(e) PROVE ShelfInv'
<1>1. shelf' = shelf /\ edition' = edition /\ ~board.live /\ shelf.known
      /\ UNCHANGED <<folder, probing, mingled, strayed>>
  BY DEF Run
<1>2. NodeOK' /\ edition' \in Nat /\ edition' >= edition
      /\ (edition' = edition => folder' = folder)
  BY DEF ShelfInv, NodeOK, Run, Ask
<1> DEFINE script == IF e # NoEntry THEN e ELSE IF shelf.entry # NoEntry THEN shelf.entry ELSE Start
<1>3. script \in Entries /\ shelf.of \in AnyFolder /\ shelf.at \in Nat /\ shelf.entry \in Entries /\ shelf.meta \in Entries
  BY DEF ShelfInv, KnownOK, RecordOK, Records, Entries, Scripts
<1>4. board' = [known |-> TRUE, live |-> TRUE, variant |-> e, ran |-> script,
                version |-> shelf.of, at |-> shelf.at, really |-> folder]
  BY DEF Run
<1>5. BoardOK(board)'
  <2>1. folder \in AnyFolder
    BY DEF ShelfInv, NodeOK
  <2> HIDE DEF script
  <2> QED
    BY <1>3, <1>4, <2>1 DEF BoardOK, Boards
<1>6. KnownOK' /\ RecordOK(shelf, edition, folder)'
  BY <1>1, <1>5 DEF ShelfInv, KnownOK
<1>7. Agrees(shelf, board', strayed')
  <2>1. Agrees(shelf, board, strayed) /\ (shelf.at > 0 => shelf.meta \in Scripts) /\ NoEntry \notin Scripts
    BY DEF ShelfInv, Paired, PairOK, KnownOK, RecordOK, Scripts, NoEntry, Start
  <2>2. board'.variant = e /\ board'.ran = script
    BY <1>4
  <2> QED
    BY <1>1, <2>1, <2>2 DEF Agrees
<1>8. Agrees(shelf', board, strayed')
  BY <1>1 DEF ShelfInv, Paired, PairOK
<1>9. board.live => board'.live
  BY <1>1
<1>10. SavedOK' /\ Paired' /\ unsaved' \in BOOLEAN
  BY <1>1, <1>5, <1>6, <1>7, <1>8, <1>9, SaveKeeps DEF Run
<1>11. ProbesOK' /\ mingled' \in BOOLEAN
  BY <1>1, <1>2, ProbesRest
<1>12. OneProbe'
  BY <1>1 DEF ShelfInv, OneProbe
<1> QED
  BY <1>1, <1>2, <1>6, <1>10, <1>11, <1>12 DEF ShelfInv, NotesOK

LEMMA RunEndsStep == ASSUME ShelfInv, RunEnds PROVE ShelfInv'
<1>1. shelf' = shelf /\ edition' = edition /\ board.live
      /\ UNCHANGED <<folder, probing, mingled, strayed, unsaved, asks>>
  BY DEF RunEnds
<1>2. NodeOK' /\ edition' \in Nat /\ edition' >= edition
      /\ (edition' = edition => folder' = folder)
  BY <1>1 DEF ShelfInv, NodeOK
<1>3. board \in Boards /\ saved.board \in Boards /\ saved = [shelf |-> saved.shelf, board |-> saved.board]
  BY DEF ShelfInv, KnownOK, SavedOK, BoardOK, Paired, PairOK
<1>4. board' \in Boards /\ ~board'.live /\ board'.known = board.known
  BY <1>3 DEF RunEnds, Boards
<1> DEFINE file == [saved.board EXCEPT !.live = FALSE]
<1>5. file \in Boards /\ ~file.live
  BY <1>3 DEF Boards
<1> HIDE DEF file
<1>6. saved' = [shelf |-> saved.shelf, board |-> file]
  BY <1>3 DEF RunEnds, file
<1>7. KnownOK'
  BY <1>1, <1>4 DEF ShelfInv, KnownOK, BoardOK
<1>8. SavedOK'
  BY <1>1, <1>5, <1>6 DEF ShelfInv, SavedOK, BoardOK
<1>9. saved.board = board => file = board'
  BY DEF file, RunEnds
<1>10. Paired'
  BY <1>1, <1>4, <1>5, <1>6, <1>9 DEF ShelfInv, Paired, PairOK, Agrees
<1>11. ProbesOK' /\ mingled' \in BOOLEAN
  BY <1>1, <1>2, ProbesRest
<1>12. OneProbe'
  BY <1>1 DEF ShelfInv, OneProbe
<1> QED
  BY <1>1, <1>2, <1>7, <1>8, <1>10, <1>11, <1>12 DEF ShelfInv, NotesOK

LEMMA ServerBootsStep == ASSUME ShelfInv, ServerBoots PROVE ShelfInv'
<1>1. shelf' = saved.shelf /\ board' = saved.board /\ saved' = saved /\ edition' = edition
      /\ UNCHANGED <<folder, mingled, strayed, unsaved>>
  BY DEF ServerBoots
<1>2. NodeOK'
  BY DEF ShelfInv, NodeOK, ServerBoots, Ask
<1>3. KnownOK' /\ SavedOK'
  BY <1>1 DEF ShelfInv, KnownOK, SavedOK
<1>4. Paired'
  BY <1>1 DEF ShelfInv, Paired, PairOK
<1>5. DOMAIN probing' = Callers /\ \A c \in Callers : probing'[c] = NoProbe
  BY DEF ServerBoots
<1>6. ProbeOK(NoProbe, edition', folder')
  BY <1>1, <1>2, Nobody DEF ProbeOK, ReadOK, NodeOK
<1>7. ProbesOK' /\ OneProbe'
  BY <1>5, <1>6, Nobody DEF ProbesOK, OneProbe
<1> QED
  BY <1>1, <1>2, <1>3, <1>4, <1>7 DEF ShelfInv, NotesOK

LEMMA RegisterStep == ASSUME ShelfInv, NEW e \in Entries, Register(e) PROVE ShelfInv'
<1>1. board' = board /\ UNCHANGED <<folder, edition>> /\ Probe("register", e) /\ ~probing["register"].busy /\ Strays
  BY DEF Register
<1>2. NodeOK'
  BY <1>1 DEF ShelfInv, NodeOK, Register, Ask
<1>3. strayed' \in BOOLEAN /\ (strayed => strayed')
  BY <1>1 DEF Strays, ShelfInv, NotesOK
<1>4. KnownOK' /\ shelf'.at = shelf.at /\ SavedOK' /\ Paired' /\ unsaved' \in BOOLEAN
  <2>1. CASE shelf.known
    <3>1. shelf' = shelf /\ UNCHANGED <<saved, unsaved>>
      BY <2>1 DEF Register
    <3> QED
      BY <1>1, <1>3, <3>1 DEF ShelfInv, KnownOK, SavedOK, Paired, PairOK, Agrees, NotesOK
  <2>2. CASE ~shelf.known
    <3>1. shelf' = [NoRecipe EXCEPT !.known = TRUE, !.entry = e] /\ SaveBoth
      BY <2>2 DEF Register
    <3>2. /\ shelf' \in Records /\ shelf'.at = 0 /\ shelf'.of = Nothing /\ shelf'.meta = NoEntry /\ shelf'.known
      BY <3>1, Nobody DEF Records, NoRecipe
    <3>3. shelf.at = 0 /\ RecordOK(shelf, edition, folder) /\ BoardOK(board)
      BY <2>2 DEF ShelfInv, KnownOK, RecordOK
    <3>4. RecordOK(shelf, edition, folder)' /\ BoardOK(board)'
      BY <1>1, <3>2, <3>3 DEF RecordOK, ReadOK, ShelfInv, NodeOK
    <3>5. Agrees(shelf, board, strayed') /\ Agrees(shelf', board, strayed')
      BY <1>3, <3>2, <3>3 DEF ShelfInv, Paired, PairOK, Agrees
    <3>6. SavedOK' /\ Paired' /\ unsaved' \in BOOLEAN
      BY <1>1, <1>3, <3>1, <3>2, <3>4, <3>5, SaveKeeps
    <3> QED
      BY <3>2, <3>3, <3>4, <3>6 DEF KnownOK
  <2> QED
    BY <2>1, <2>2
<1>5. ProbesOK' /\ OneProbe' /\ mingled' \in BOOLEAN
  BY <1>1, <1>4, ProbeBegins DEF Callers
<1> QED
  BY <1>2, <1>3, <1>4, <1>5 DEF ShelfInv, NotesOK

\* What is written when a probe ends: the record as it was, or as it was read.
LEMMA WrittenIs ==
  ASSUME ShelfInv, NEW k \in Callers, shelf' = Written(shelf, probing[k])
  PROVE  /\ RecordOK(shelf', edition, folder) /\ shelf'.known = shelf.known
         /\ \/ shelf'.at = shelf.at /\ shelf'.meta = shelf.meta /\ shelf'.entry = shelf.entry
            \/ shelf'.at = probing[k].at /\ probing[k].at > 0 /\ shelf'.meta \in Scripts
<1>1. RecordOK(shelf, edition, folder) /\ ProbeOK(probing[k], edition, folder)
  BY DEF ShelfInv, KnownOK, ProbesOK
<1> DEFINE p == probing[k]
<1>2. shelf \in Records /\ p \in Probes
  BY <1>1 DEF RecordOK, ProbeOK
<1>3. CASE ~shelf.known
  BY <1>1, <1>3 DEF Written
<1>4. CASE shelf.known /\ ~HasRecipe(p.of)
  <2>1. shelf' = Updated(shelf, p)
    BY <1>4 DEF Written
  <2>2. shelf' \in Records /\ shelf'.known = shelf.known /\ shelf'.at = shelf.at /\ shelf'.of = shelf.of
        /\ shelf'.meta = shelf.meta /\ shelf'.entry = shelf.entry
    <3>1. shelf' = [shelf EXCEPT !.error = TRUE]
      BY <1>4, <2>1 DEF Updated
    <3> QED
      BY <1>2, <3>1 DEF Records
  <2>3. RecordOK(shelf', edition, folder)
    BY <1>1, <2>2 DEF RecordOK, ReadOK
  <2> QED
    BY <2>2, <2>3
<1>5. CASE shelf.known /\ HasRecipe(p.of)
  <2>1. shelf' = Updated(shelf, p)
    BY <1>5 DEF Written
  <2>2. shelf' \in Records /\ shelf'.known = shelf.known /\ shelf'.at = p.at /\ shelf'.of = p.of /\ shelf'.meta \in Scripts
    BY <1>2, <1>5, <2>1, UpdatedIs
  <2>3. p.at > 0 /\ p.at <= edition /\ (p.at = edition => p.of = folder)
    BY <1>1, <1>2, <1>5 DEF ProbeOK, ReadOK, Probes, HasRecipe, Nothing
  <2> QED
    BY <1>5, <2>2, <2>3 DEF RecordOK, ReadOK
<1> QED
  BY <1>3, <1>4, <1>5

LEMMA ProbeEndsStep == ASSUME ShelfInv, NEW k \in Callers, ProbeEnds(k) PROVE ShelfInv'
<1>1. board' = board /\ UNCHANGED <<folder, edition, asks, mingled>> /\ Strays /\ shelf' = Written(shelf, probing[k])
      /\ probing' = [probing EXCEPT ![k] = NoProbe] /\ probing[k].busy
  BY DEF ProbeEnds
<1>2. NodeOK'
  BY <1>1 DEF ShelfInv, NodeOK
<1>3. strayed' \in BOOLEAN /\ (strayed => strayed')
  BY <1>1 DEF Strays, ShelfInv, NotesOK
<1>4. /\ RecordOK(shelf', edition, folder) /\ shelf'.known = shelf.known
      /\ \/ shelf'.at = shelf.at /\ shelf'.meta = shelf.meta /\ shelf'.entry = shelf.entry
         \/ shelf'.at = probing[k].at /\ probing[k].at > 0 /\ shelf'.meta \in Scripts
  BY <1>1, WrittenIs
<1>5. RecordOK(shelf, edition, folder) /\ BoardOK(board) /\ KnownOK'
  BY <1>1, <1>4 DEF ShelfInv, KnownOK
<1>6. Agrees(shelf, board, strayed') /\ Agrees(shelf', board, strayed')
  <2>1. Agrees(shelf, board, strayed)
    BY DEF ShelfInv, Paired, PairOK
  <2>2. Agrees(shelf, board, strayed')
    BY <1>3, <2>1 DEF Agrees
  <2>3. ASSUME ~strayed' PROVE /\ shelf'.at > 0 => shelf'.entry = shelf'.meta
                               /\ board.live => shelf'.meta = shelf.meta
    BY <1>1, <2>3 DEF Strays
  <2>4. ASSUME shelf'.at > 0, shelf'.meta = shelf.meta PROVE shelf.at > 0
    <3>1. shelf'.meta \in Scripts /\ NoEntry \notin Scripts
      BY <1>4, <2>4 DEF RecordOK, Scripts, NoEntry, Start
    <3>2. shelf.meta # NoEntry
      BY <2>4, <3>1
    <3> QED
      BY <1>5, <3>2 DEF RecordOK
  <2> QED
    BY <2>1, <2>2, <2>3, <2>4, <1>3 DEF Agrees
<1>7. SavedOK' /\ Paired' /\ unsaved' \in BOOLEAN
  <2>1. CASE shelf.known
    <3>1. SaveBoth
      BY <2>1 DEF ProbeEnds
    <3>2. RecordOK(shelf, edition, folder)' /\ BoardOK(board)'
      BY <1>5 DEF KnownOK
    <3>3. board'.known => shelf'.known
      BY <1>4, <2>1
    <3> QED
      BY <1>1, <1>3, <1>6, <3>1, <3>2, <3>3, SaveKeeps
  <2>2. CASE ~shelf.known
    <3>1. shelf' = shelf /\ UNCHANGED <<saved, unsaved>>
      BY <1>1, <2>2 DEF ProbeEnds, Written
    <3> QED
      BY <1>1, <1>3, <3>1 DEF ShelfInv, SavedOK, Paired, PairOK, Agrees, NotesOK
  <2> QED
    BY <2>1, <2>2
<1>8. DOMAIN probing' = Callers /\ probing'[k] = NoProbe /\ \A c \in Callers : c # k => probing'[c] = probing[c]
  BY <1>1 DEF ShelfInv, ProbesOK
<1>9. ProbesOK'
  <2>1. ProbeOK(NoProbe, edition, folder)
    BY Nobody DEF ProbeOK, ReadOK, ShelfInv, NodeOK
  <2> QED
    BY <1>1, <1>8, <2>1 DEF ShelfInv, ProbesOK
<1>10. OneProbe'
  <2> SUFFICES ASSUME ~mingled PROVE \A c \in Callers : ~probing'[c].busy /\ probing'[c].at = 0
    BY <1>1, Nobody DEF OneProbe
  <2>1. \A c \in Callers : c # k => ~probing[c].busy /\ probing[c].at = 0
    BY <1>1 DEF ShelfInv, OneProbe, ProbesOK, ProbeOK
  <2> QED
    BY <1>8, <2>1, Nobody
<1> QED
  BY <1>1, <1>2, <1>3, <1>5, <1>7, <1>9, <1>10 DEF ShelfInv, NotesOK

LEMMA ShelfNextInv == ShelfInv /\ [ShelfNext]_shelfVars => ShelfInv'
<1> SUFFICES ASSUME ShelfInv, [ShelfNext]_shelfVars PROVE ShelfInv'
  OBVIOUS
<1>1. CASE \E c \in Contents \cup {Nothing} : Edit(c)
  BY <1>1, EditStep
<1>2. CASE Reach
  BY <1>2, ReachStep
<1>3. CASE \E c \in Callers : ProbeReads(c) \/ ProbeEnds(c)
  BY <1>3, ProbeReadsStep, ProbeEndsStep
<1>4. CASE \E e \in Scripts \cup {NoEntry} : Register(e) \/ Run(e)
  BY <1>4, RegisterStep, RunStep DEF Entries
<1>5. CASE Refresh \/ List \/ Delete \/ RunEnds \/ ServerBoots
  BY <1>5, RefreshStep, ListStep, DeleteStep, RunEndsStep, ServerBootsStep
<1>6. CASE UNCHANGED shelfVars
  BY <1>6 DEF ShelfInv, NodeOK, NotesOK, KnownOK, SavedOK, ProbesOK, OneProbe, Paired, shelfVars
<1> QED
  BY <1>1, <1>2, <1>3, <1>4, <1>5, <1>6 DEF ShelfNext

-----------------------------------------------------------------------------
(* What it implies *)

LEMMA ShelfHolds ==
  ShelfInv => ShelfTypeOK /\ RunIsExpected /\ NoDriftIsSame /\ RestartIsHarmless
<1> SUFFICES ASSUME ShelfInv PROVE ShelfTypeOK /\ RunIsExpected /\ NoDriftIsSame /\ RestartIsHarmless
  OBVIOUS
<1>1. RecordOK(shelf, edition, folder) /\ BoardOK(board) /\ NodeOK /\ ProbesOK /\ RecordOK(saved.shelf, edition, folder)
  BY DEF ShelfInv, KnownOK, SavedOK
<1>2. ShelfTypeOK
  <2>1. shelf.at \in 0..edition /\ (shelf.at > 0 <=> shelf.of # Nothing)
    BY <1>1 DEF RecordOK, ReadOK, Records, NodeOK, HasRecipe, Nothing
  <2>2. saved.shelf.known \in BOOLEAN /\ shelf.entry \in Entries /\ shelf.meta \in Entries
    BY <1>1 DEF RecordOK, Records
  <2> QED
    BY <1>1, <2>1, <2>2 DEF ShelfTypeOK, NodeOK, ProbesOK, AnyFolder, Entries
<1>3. RunIsExpected
  BY DEF ShelfInv, Paired, PairOK, Agrees, RunIsExpected, ExpectedEntry
<1>4. NoDriftIsSame
  BY <1>1 DEF RecordOK, ReadOK, NoDriftIsSame, Drift
<1>5. RestartIsHarmless
  BY DEF ShelfInv, Paired, PairOK, RestartIsHarmless
<1> QED
  BY <1>2, <1>3, <1>4, <1>5

\* No step replaces a record by an older reading of its folder.
LEMMA ReadingsStep ==
  ASSUME ShelfInv, [ShelfNext]_shelfVars, shelf.known, shelf'.known, ~mingled', ~unsaved
  PROVE  shelf'.at >= shelf.at
<1> USE DEF ShelfInv
<1>1. shelf.at \in Nat
  BY DEF KnownOK, RecordOK, Records
<1>2. CASE shelf' = shelf
  BY <1>1, <1>2
<1>3. ASSUME NEW k \in Callers, ProbeEnds(k) PROVE shelf'.at >= shelf.at
  <2>1. shelf'.at = shelf.at \/ (shelf'.at = probing[k].at /\ probing[k].at > 0)
    BY <1>3, WrittenIs DEF ProbeEnds
  <2>2. ~mingled
    BY <1>3 DEF ProbeEnds
  <2> QED
    BY <1>1, <2>1, <2>2 DEF OneProbe
<1>4. CASE ServerBoots
  BY <1>1, <1>4 DEF ServerBoots, Paired, PairOK
<1>5. CASE Delete
  BY <1>5, Nobody DEF Delete
<1>6. ASSUME NEW e \in Entries, Register(e) PROVE shelf' = shelf
  BY <1>6 DEF Register
<1>7. CASE \/ \E c \in Contents \cup {Nothing} : Edit(c)
           \/ Reach \/ Refresh \/ List \/ RunEnds \/ (\E c \in Callers : ProbeReads(c)) \/ (\E e \in Entries : Run(e))
           \/ UNCHANGED shelfVars
  BY <1>2, <1>7 DEF Edit, Reach, Refresh, List, RunEnds, ProbeReads, Run, shelfVars
<1> QED
  BY <1>2, <1>3, <1>4, <1>5, <1>6, <1>7 DEF ShelfNext, Entries

\* No step but a registration brings a deleted record back.
LEMMA DeletedStep ==
  ASSUME ShelfInv, [ShelfNext]_shelfVars, ~shelf.known, shelf'.known, ~unsaved
  PROVE  probing'["register"].busy /\ asks' > asks
<1> USE DEF ShelfInv
<1>1. ASSUME shelf' = shelf PROVE FALSE
  BY <1>1
<1>2. ASSUME NEW k \in Callers, ProbeEnds(k) PROVE FALSE
  BY <1>2, WrittenIs DEF ProbeEnds
<1>3. ASSUME ServerBoots PROVE FALSE
  BY <1>3 DEF ServerBoots, Paired, PairOK
<1>4. ASSUME Delete PROVE FALSE
  BY <1>4, Nobody DEF Delete
<1>5. ASSUME NEW e \in Entries, Register(e) PROVE probing'["register"].busy /\ asks' > asks
  BY <1>5 DEF Register, Ask, Probe, ProbesOK, NoProbe, NodeOK, Callers
<1>6. CASE \/ \E c \in Contents \cup {Nothing} : Edit(c)
           \/ Reach \/ Refresh \/ List \/ RunEnds \/ (\E c \in Callers : ProbeReads(c)) \/ (\E e \in Entries : Run(e))
           \/ UNCHANGED shelfVars
  BY <1>1, <1>6 DEF Edit, Reach, Refresh, List, RunEnds, ProbeReads, Run, shelfVars
<1> QED
  BY <1>2, <1>3, <1>4, <1>5, <1>6 DEF ShelfNext, Entries

-----------------------------------------------------------------------------
(* What parsing an .env gives *)

Blank  == [vars |-> [k \in Public |-> Unset], secrets |-> {}]
Parsed == [vars : [Public -> Values \cup {Unset}], secrets : SUBSET Secret]

\* f is the recursive function by which FoldLeft reads lines.
Reads(lines, f) ==
    f = [S \in SUBSET DOMAIN lines |->
            IF S = {} THEN Blank ELSE EnvLine(f[S \ {Max(S)}], lines[Max(S)])]

\* The last of the lines with key k, of the first n of them.
Assigning(lines, k, n) == {i \in 1..n : lines[i].key = k}
LastOf(lines, k, n) ==
    IF Assigning(lines, k, n) = {} THEN Unset ELSE lines[Max(Assigning(lines, k, n))].value

\* A parse of the first n lines.
IsParse(lines, n, acc) ==
    /\ acc \in Parsed
    /\ \A k \in Public : acc.vars[k] = LastOf(lines, k, n)
    /\ \A k \in Secret : k \in acc.secrets <=> \E i \in Assigning(lines, k, n) : lines[i].value # Empty

LEMMA KindsApart == Public \cap Secret = {} /\ "PORT" \in Public /\ "NNODES" \in Public /\ "WORKER_IP" \in Public
  BY DEF Public, Secret

LEMMA LineIsParsed ==
  ASSUME NEW acc \in Parsed, NEW l \in Setting
  PROVE  EnvLine(acc, l) \in Parsed
<1>1. l.key \in Public \cup Secret /\ l.value \in Values
  BY DEF Setting
<1>2. CASE l.key \in Public
  <2>1. EnvLine(acc, l) = [acc EXCEPT !.vars[l.key] = l.value]
    BY <1>2 DEF EnvLine
  <2>2. acc.vars \in [Public -> Values \cup {Unset}] /\ acc = [vars |-> acc.vars, secrets |-> acc.secrets]
        /\ acc.secrets \subseteq Secret
    BY DEF Parsed
  <2>3. [acc.vars EXCEPT ![l.key] = l.value] \in [Public -> Values \cup {Unset}]
    BY <1>1, <2>2
  <2> QED
    BY <2>1, <2>2, <2>3 DEF Parsed
<1>3. CASE l.key \notin Public
  BY <1>1, <1>3 DEF EnvLine, Parsed
<1> QED
  BY <1>2, <1>3

LEMMA GreatestIs ==
  ASSUME NEW n \in Nat, NEW S \in SUBSET (1..n), S # {}
  PROVE  Max(S) \in S /\ \A i \in S : i <= Max(S)
<1> DEFINE N == {m \in Nat : \A T \in SUBSET (1..m) : T # {} => \E x \in T : \A y \in T : x >= y}
<1>1. 0 \in N
  <2>1. \A T \in SUBSET (1..0) : T = {}
    OBVIOUS
  <2> QED
    BY <2>1
<1>2. ASSUME NEW m \in Nat, m \in N PROVE m + 1 \in N
  <2> SUFFICES ASSUME NEW T \in SUBSET (1..(m + 1)), T # {} PROVE \E x \in T : \A y \in T : x >= y
    OBVIOUS
  <2>1. CASE m + 1 \in T
    BY <2>1
  <2>2. CASE m + 1 \notin T
    <3>1. T \in SUBSET (1..m)
      BY <2>2
    <3> QED
      BY <1>2, <3>1
  <2> QED
    BY <2>1, <2>2
<1> HIDE DEF N
<1>3. n \in N
  BY <1>1, <1>2, Induction
<1>4. \E x \in S : \A y \in S : x >= y
  BY <1>3 DEF N
<1> QED
  BY <1>4 DEF Max

\* The largest of 1..n, and what is left without it.
LEMMA LastOfAll ==
  ASSUME NEW n \in Nat, n > 0
  PROVE  Max(1..n) = n /\ (1..n) \ {Max(1..n)} = 1..(n - 1)
<1>1. 1..n \in SUBSET (1..n) /\ 1..n # {} /\ n \in 1..n
  OBVIOUS
<1>2. Max(1..n) \in 1..n /\ \A i \in 1..n : i <= Max(1..n)
  BY <1>1, GreatestIs
<1>3. Max(1..n) = n
  BY <1>1, <1>2
<1> QED
  BY <1>3

\* One line more.
LEMMA LineIsParse ==
  ASSUME NEW lines \in Seq(Setting), NEW n \in Nat, n < Len(lines), NEW acc, IsParse(lines, n, acc)
  PROVE  IsParse(lines, n + 1, EnvLine(acc, lines[n + 1]))
<1> DEFINE l == lines[n + 1]
           u == EnvLine(acc, l)
<1>1. l \in Setting /\ l.key \in Public \cup Secret /\ acc \in Parsed
  <2>1. n + 1 \in 1..Len(lines) /\ acc \in Parsed
    BY DEF IsParse
  <2>2. l \in Setting
    BY <2>1
  <2> QED
    BY <2>1, <2>2 DEF Setting
<1>2. u \in Parsed
  BY <1>1, LineIsParsed
<1>3. \A k : Assigning(lines, k, n + 1) = IF l.key = k THEN Assigning(lines, k, n) \cup {n + 1} ELSE Assigning(lines, k, n)
  BY DEF Assigning
<1>4. \A k : LastOf(lines, k, n + 1) = IF l.key = k THEN l.value ELSE LastOf(lines, k, n)
  <2> SUFFICES ASSUME NEW k PROVE LastOf(lines, k, n + 1) = IF l.key = k THEN l.value ELSE LastOf(lines, k, n)
    OBVIOUS
  <2>1. CASE l.key # k
    <3>1. Assigning(lines, k, n + 1) = Assigning(lines, k, n)
      BY <1>3, <2>1
    <3> QED
      BY <2>1, <3>1 DEF LastOf
  <2>2. CASE l.key = k
    <3> DEFINE A == Assigning(lines, k, n + 1)
    <3>1. n + 1 \in A /\ A \in SUBSET (1..(n + 1)) /\ n + 1 \in Nat
      BY <2>2 DEF Assigning
    <3> HIDE DEF A
    <3>2. Max(A) \in A /\ n + 1 <= Max(A)
      BY <3>1, GreatestIs
    <3>3. Max(A) = n + 1
      <4>1. Max(A) \in 1..(n + 1)
        BY <3>1, <3>2
      <4> QED
        BY <3>2, <4>1
    <3>4. LastOf(lines, k, n + 1) = lines[Max(A)].value
      BY <3>1 DEF LastOf, A
    <3> QED
      BY <2>2, <3>3, <3>4
  <2> QED
    BY <2>1, <2>2
<1>5. CASE l.key \in Public
  <2>1. u = [acc EXCEPT !.vars[l.key] = l.value]
    BY <1>5 DEF EnvLine
  <2>2. u.secrets = acc.secrets /\ \A k \in Public : u.vars[k] = IF k = l.key THEN l.value ELSE acc.vars[k]
    BY <1>1, <2>1 DEF Parsed
  <2>3. \A k \in Secret : Assigning(lines, k, n + 1) = Assigning(lines, k, n)
    BY <1>3, <1>5, KindsApart
  <2> HIDE DEF u, l
  <2> QED
    BY <1>2, <1>4, <2>2, <2>3 DEF IsParse, u, l
<1>6. CASE l.key \in Secret
  <2>1. u.vars = acc.vars /\ u.secrets = IF l.value # Empty THEN acc.secrets \cup {l.key} ELSE acc.secrets
    BY <1>1, <1>6, KindsApart DEF EnvLine, Parsed
  <2>2. \A k \in Public : LastOf(lines, k, n + 1) = LastOf(lines, k, n)
    BY <1>4, <1>6, KindsApart
  <2>3. \A k \in Secret : k \in u.secrets <=> \E i \in Assigning(lines, k, n + 1) : lines[i].value # Empty
    <3> SUFFICES ASSUME NEW k \in Secret
                 PROVE  k \in u.secrets <=> \E i \in Assigning(lines, k, n + 1) : lines[i].value # Empty
      OBVIOUS
    <3>1. k \in acc.secrets <=> \E i \in Assigning(lines, k, n) : lines[i].value # Empty
      BY DEF IsParse
    <3> HIDE DEF u
    <3> QED
      BY <1>3, <2>1, <3>1
  <2> HIDE DEF u, l
  <2> QED
    BY <1>2, <2>1, <2>2, <2>3 DEF IsParse, u, l
<1> QED
  BY <1>1, <1>5, <1>6

LEMMA ReadsAre ==
  ASSUME NEW lines \in Seq(Setting), NEW f, Reads(lines, f)
  PROVE  \A n \in 0..Len(lines) : IsParse(lines, n, f[1..n])
<1> DEFINE N == {n \in Nat : n <= Len(lines) => IsParse(lines, n, f[1..n])}
<1>1. DOMAIN lines = 1..Len(lines) /\ Len(lines) \in Nat
  OBVIOUS
<1>2. \A S \in SUBSET DOMAIN lines : f[S] = IF S = {} THEN Blank ELSE EnvLine(f[S \ {Max(S)}], lines[Max(S)])
  BY DEF Reads
<1>3. 0 \in N
  <2>1. 1..0 = {} /\ {} \in SUBSET DOMAIN lines
    OBVIOUS
  <2>2. \A k : Assigning(lines, k, 0) = {}
    BY DEF Assigning
  <2>3. IsParse(lines, 0, Blank)
    BY <2>2 DEF IsParse, Blank, Parsed, LastOf
  <2>4. f[1..0] = Blank
    BY <1>2, <2>1
  <2> QED
    BY <2>3, <2>4
<1>4. ASSUME NEW n \in Nat, n \in N PROVE n + 1 \in N
  <2> SUFFICES ASSUME n + 1 <= Len(lines) PROVE IsParse(lines, n + 1, f[1..(n + 1)])
    OBVIOUS
  <2>1. IsParse(lines, n, f[1..n]) /\ n < Len(lines)
    BY <1>1, <1>4
  <2>2. Max(1..(n + 1)) = n + 1 /\ (1..(n + 1)) \ {Max(1..(n + 1))} = 1..n
    BY LastOfAll
  <2>3. 1..(n + 1) \in SUBSET DOMAIN lines /\ 1..(n + 1) # {}
    <3>1. 1..(n + 1) \subseteq 1..Len(lines) /\ 1 \in 1..(n + 1)
      BY <1>1, <2>1
    <3> QED
      BY <1>1, <3>1
  <2>4. f[1..(n + 1)] = EnvLine(f[1..n], lines[n + 1])
    BY <1>2, <2>2, <2>3
  <2> QED
    BY <2>1, <2>4, LineIsParse
<1> HIDE DEF N
<1>5. Nat \subseteq N
  BY <1>3, <1>4, Induction
<1> QED
  BY <1>1, <1>5 DEF N

LEMMA ReadsExists ==
  ASSUME NEW lines \in Seq(Setting)
  PROVE  \E f : Reads(lines, f)
<1> DEFINE D == DOMAIN lines
           Body(f, S) == IF S = {} THEN Blank ELSE EnvLine(f[S \ {Max(S)}], lines[Max(S)])
           N == {n \in Nat : \E f \in [SUBSET D -> Parsed] : \A S \in Upto(D, n) : f[S] = Body(f, S)}
<1>1. D = 1..Len(lines) /\ Len(lines) \in Nat /\ IsFiniteSet(D)
  BY FS_Interval
<1>2. \A S \in SUBSET D : IsFiniteSet(S) /\ Cardinality(S) \in Nat
  BY <1>1, FS_Subset, FS_CardinalityType
<1>3. \A S \in SUBSET D : S # {} => Max(S) \in S
  BY <1>1, GreatestIs
<1>4. Blank \in Parsed
  BY DEF Blank, Parsed
<1>5. ASSUME NEW f \in [SUBSET D -> Parsed], NEW S \in SUBSET D PROVE Body(f, S) \in Parsed
  <2>1. CASE S = {}
    BY <1>4, <2>1
  <2>2. CASE S # {}
    <3>1. f[S \ {Max(S)}] \in Parsed /\ lines[Max(S)] \in Setting
      BY <1>3, <2>2
    <3> QED
      BY <2>2, <3>1, LineIsParsed
  <2> QED
    BY <2>1, <2>2
<1>6. 0 \in N
  <2> DEFINE z == [S \in SUBSET D |-> Blank]
  <2>1. \A S \in Upto(D, 0) : S = {}
    BY <1>2, FS_EmptySet DEF Upto
  <2>2. z \in [SUBSET D -> Parsed] /\ \A S \in Upto(D, 0) : z[S] = Body(z, S)
    BY <1>4, <2>1 DEF Upto
  <2> QED
    BY <2>2
<1>7. ASSUME NEW n \in Nat, n \in N PROVE n + 1 \in N
  <2>1. PICK f \in [SUBSET D -> Parsed] : \A S \in Upto(D, n) : f[S] = Body(f, S)
    BY <1>7
  <2> DEFINE m == [S \in SUBSET D |-> IF Cardinality(S) <= n THEN f[S] ELSE Body(f, S)]
  <2>2. m \in [SUBSET D -> Parsed]
    BY <1>5
  <2>3. ASSUME NEW S \in Upto(D, n + 1) PROVE m[S] = Body(m, S)
    <3>1. S \in SUBSET D /\ Cardinality(S) <= n + 1 /\ Cardinality(S) \in Nat
      BY <1>2 DEF Upto
    <3>2. m[S] = Body(f, S)
      BY <2>1, <3>1 DEF Upto
    <3>3. CASE S = {}
      BY <3>2, <3>3
    <3>4. CASE S # {}
      <4>1. S \ {Max(S)} \in SUBSET D /\ Cardinality(S \ {Max(S)}) <= n
        <5>1. Cardinality(S \ {Max(S)}) = Cardinality(S) - 1
          BY <1>2, <1>3, <3>1, <3>4, FS_RemoveElement
        <5> QED
          BY <3>1, <5>1
      <4>2. m[S \ {Max(S)}] = f[S \ {Max(S)}]
        BY <4>1
      <4> HIDE DEF m
      <4> QED
        BY <3>2, <3>4, <4>2
    <3> QED
      BY <3>3, <3>4
  <2> HIDE DEF m, Body
  <2> QED
    BY <2>2, <2>3
<1> HIDE DEF N
<1>8. Cardinality(D) \in N
  BY <1>2, <1>6, <1>7, Induction
<1>9. PICK f \in [SUBSET D -> Parsed] : \A S \in Upto(D, Cardinality(D)) : f[S] = Body(f, S)
  BY <1>8 DEF N
<1>10. Upto(D, Cardinality(D)) = SUBSET D
  BY <1>1, FS_Subset DEF Upto
<1>11. f = [S \in SUBSET D |-> Body(f, S)]
  BY <1>9, <1>10
<1> QED
  BY <1>11 DEF Reads

LEMMA ParsedEnvIs ==
  ASSUME NEW lines \in Seq(Setting)
  PROVE  IsParse(lines, Len(lines), ParsedEnv(lines))
<1> DEFINE f == CHOOSE v : Reads(lines, v)
<1>1. Reads(lines, f)
  BY ReadsExists
<1>2. ParsedEnv(lines) = f[DOMAIN lines]
  BY DEF ParsedEnv, FoldLeft, MapThenFoldSet, Reads, Blank
<1> HIDE DEF f
<1>3. DOMAIN lines = 1..Len(lines) /\ Len(lines) \in 0..Len(lines)
  OBVIOUS
<1> QED
  BY <1>1, <1>2, <1>3, ReadsAre

\* Reading the example first and then .env: a key that .env assigns has the last
\* value it has there, any other that of the example.
LEMMA SourcedIs ==
  ASSUME NEW c, IsContent(c), NEW k
  PROVE  Sourced(c, k) = IF Assigning(c.env, k, Len(c.env)) # {} THEN LastOf(c.env, k, Len(c.env))
                         ELSE LastOf(c.example, k, Len(c.example))
<1> DEFINE ex == c.example
           en == c.env
           both == ex \o en
           at == {i \in DOMAIN both : both[i].key = k}
           A == Assigning(en, k, Len(en))
           B == Assigning(ex, k, Len(ex))
<1>1. ex \in Seq(Setting) /\ en \in Seq(Setting) /\ Len(ex) \in Nat /\ Len(en) \in Nat
  BY DEF IsContent
<1> HIDE DEF ex, en
<1>2. /\ DOMAIN both = 1..(Len(ex) + Len(en))
      /\ \A i \in 1..Len(ex) : both[i] = ex[i]
      /\ \A i \in 1..Len(en) : both[Len(ex) + i] = en[i]
  <2>1. both \in Seq(Setting) /\ Len(both) = Len(ex) + Len(en)
        /\ \A i \in 1..(Len(ex) + Len(en)) : both[i] = IF i <= Len(ex) THEN ex[i] ELSE en[i - Len(ex)]
    BY <1>1, ConcatProperties
  <2>2. DOMAIN both = 1..(Len(ex) + Len(en))
    BY <2>1
  <2>3. ASSUME NEW i \in 1..Len(en) PROVE both[Len(ex) + i] = en[i]
    <3>1. Len(ex) + i \in 1..(Len(ex) + Len(en)) /\ ~(Len(ex) + i <= Len(ex)) /\ (Len(ex) + i) - Len(ex) = i
      BY <1>1
    <3> QED
      BY <2>1, <3>1
  <2>4. ASSUME NEW i \in 1..Len(ex) PROVE both[i] = ex[i]
    <3>1. i \in 1..(Len(ex) + Len(en)) /\ i <= Len(ex)
      BY <1>1
    <3> QED
      BY <2>1, <3>1
  <2> QED
    BY <2>2, <2>3, <2>4
<1>3. Sourced(c, k) = IF at = {} THEN Unset ELSE both[Max(at)].value
  BY DEF Sourced, ex, en
<1> HIDE DEF both
<1>4. CASE A # {}
  <2>1. Len(en) \in Nat /\ A \in SUBSET (1..Len(en))
    BY <1>1 DEF Assigning
  <2>2. Max(A) \in A /\ \A i \in A : i <= Max(A)
    BY <1>4, <2>1, GreatestIs
  <2> DEFINE m == Len(ex) + Max(A)
  <2>3. Max(A) \in 1..Len(en) /\ en[Max(A)].key = k
    BY <2>2 DEF Assigning
  <2>4. m \in at /\ both[m] = en[Max(A)]
    BY <1>1, <1>2, <2>3
  <2>5. ASSUME NEW i \in at PROVE i <= m
    <3>1. i \in 1..(Len(ex) + Len(en)) /\ both[i].key = k
      BY <1>2
    <3>2. CASE i <= Len(ex)
      BY <1>1, <2>3, <3>1, <3>2
    <3>3. CASE i > Len(ex)
      <4>1. i - Len(ex) \in 1..Len(en) /\ Len(ex) + (i - Len(ex)) = i
        BY <1>1, <3>1, <3>3
      <4>2. en[i - Len(ex)].key = k
        BY <1>2, <3>1, <4>1
      <4>3. i - Len(ex) <= Max(A)
        BY <2>2, <4>1, <4>2 DEF Assigning
      <4> QED
        BY <1>1, <2>3, <3>1, <4>3
    <3> QED
      BY <1>1, <3>1, <3>2, <3>3
  <2>6. at \in SUBSET (1..(Len(ex) + Len(en))) /\ at # {} /\ Len(ex) + Len(en) \in Nat
    BY <1>1, <1>2, <2>4
  <2>7. \A i \in at : i \in Int
    BY <1>1, <1>2
  <2>8. Max(at) = m
    <3>0. m \in Int
      BY <1>1, <2>3
    <3> HIDE DEF at, m
    <3>1. Max(at) \in at /\ \A i \in at : i <= Max(at)
      BY <2>6, GreatestIs
    <3>2. Max(at) <= m /\ m <= Max(at)
      BY <2>4, <2>5, <3>1
    <3>3. Max(at) \in Int
      BY <2>7, <3>1
    <3> QED
      BY <3>0, <3>2, <3>3
  <2> HIDE DEF at, m
  <2>9. Sourced(c, k) = en[Max(A)].value
    BY <1>3, <2>4, <2>6, <2>8
  <2>10. LastOf(en, k, Len(en)) = en[Max(A)].value
    BY <1>4 DEF LastOf
  <2> QED
    BY <1>4, <2>9, <2>10 DEF en
<1>5. CASE A = {}
  <2>1. ASSUME NEW i PROVE i \in at <=> i \in B
    <3>1. ASSUME i \in at PROVE i \in B
      <4>1. i \in 1..(Len(ex) + Len(en)) /\ both[i].key = k
        BY <1>2, <3>1
      <4>2. CASE i <= Len(ex)
        BY <1>1, <1>2, <4>1, <4>2 DEF Assigning
      <4>3. CASE i > Len(ex)
        <5>1. i - Len(ex) \in 1..Len(en) /\ Len(ex) + (i - Len(ex)) = i
          BY <1>1, <4>1, <4>3
        <5>2. en[i - Len(ex)].key = k
          BY <1>2, <4>1, <5>1
        <5> QED
          BY <1>5, <5>1, <5>2 DEF Assigning
      <4> QED
        BY <1>1, <4>1, <4>2, <4>3
    <3>2. ASSUME i \in B PROVE i \in at
      <4>1. i \in 1..Len(ex) /\ ex[i].key = k
        BY <3>2 DEF Assigning
      <4>2. i \in 1..(Len(ex) + Len(en))
        BY <1>1, <4>1
      <4> QED
        BY <1>2, <4>1, <4>2
    <3> QED
      BY <3>1, <3>2
  <2>2. at = B
    BY <2>1
  <2>3. B # {} => both[Max(B)] = ex[Max(B)]
    <3>1. B \in SUBSET (1..Len(ex)) /\ Len(ex) \in Nat
      BY <1>1 DEF Assigning
    <3>2. B # {} => Max(B) \in 1..Len(ex)
      BY <3>1, GreatestIs
    <3> QED
      BY <1>2, <3>2
  <2>4. LastOf(ex, k, Len(ex)) = IF B = {} THEN Unset ELSE ex[Max(B)].value
    BY DEF LastOf
  <2> HIDE DEF at, B
  <2>5. Sourced(c, k) = LastOf(ex, k, Len(ex))
    BY <1>3, <2>2, <2>3, <2>4
  <2> QED
    BY <1>5, <2>5 DEF ex, en
<1> QED
  BY <1>4, <1>5

\* The values of the lines that assign a key.
LEMMA LastIs ==
  ASSUME NEW lines \in Seq(Setting), NEW k, Assigning(lines, k, Len(lines)) # {}
  PROVE  \E i \in Assigning(lines, k, Len(lines)) :
            LastOf(lines, k, Len(lines)) = lines[i].value /\ lines[i].value \in Values
<1> DEFINE A == Assigning(lines, k, Len(lines))
<1>1. A \in SUBSET (1..Len(lines)) /\ Len(lines) \in Nat
  BY DEF Assigning
<1>2. Max(A) \in A
  BY <1>1, GreatestIs
<1>3. lines[Max(A)] \in Setting
  BY <1>1, <1>2
<1>4. LastOf(lines, k, Len(lines)) = lines[Max(A)].value
  BY DEF LastOf
<1> QED
  BY <1>2, <1>3, <1>4 DEF Setting

LEMMA VarsAre ==
  ASSUME NEW c, IsContent(c), NEW k \in Public
  PROVE  Vars(c)[k] = Sourced(c, k)
<1>1. c.env \in Seq(Setting) /\ c.example \in Seq(Setting)
  BY DEF IsContent
<1>2. ParsedEnv(c.env).vars[k] = LastOf(c.env, k, Len(c.env))
  BY <1>1, ParsedEnvIs DEF IsParse
<1>3. ParsedEnv(c.example).vars[k] = LastOf(c.example, k, Len(c.example))
  BY <1>1, ParsedEnvIs DEF IsParse
<1>4. Assigning(c.env, k, Len(c.env)) # {} <=> LastOf(c.env, k, Len(c.env)) # Unset
  <2>1. Unset \notin Values
    BY DEF Unset, Values, Empty
  <2> QED
    BY <1>1, <2>1, LastIs DEF LastOf
<1>5. Vars(c)[k] = IF ParsedEnv(c.env).vars[k] # Unset THEN ParsedEnv(c.env).vars[k]
                   ELSE ParsedEnv(c.example).vars[k]
  BY DEF Vars
<1> QED
  BY <1>2, <1>3, <1>4, <1>5, SourcedIs

LEMMA SecretsAre ==
  ASSUME NEW c, IsContent(c), NEW k \in Secret, Sourced(c, k) \in Nat
  PROVE  k \in Secrets(c)
<1>1. c.env \in Seq(Setting) /\ c.example \in Seq(Setting)
  BY DEF IsContent
<1>2. ASSUME NEW lines \in Seq(Setting), Assigning(lines, k, Len(lines)) # {}, LastOf(lines, k, Len(lines)) \in Nat
      PROVE  k \in ParsedEnv(lines).secrets
  <2>1. PICK i \in Assigning(lines, k, Len(lines)) : lines[i].value \in Nat
    BY <1>2, LastIs
  <2>2. lines[i].value # Empty
    BY <2>1 DEF Empty
  <2>3. IsParse(lines, Len(lines), ParsedEnv(lines))
    BY ParsedEnvIs
  <2> QED
    BY <2>2, <2>3 DEF IsParse
<1>3. Unset \notin Nat
  BY DEF Unset
<1>4. CASE Assigning(c.env, k, Len(c.env)) # {}
  <2>1. LastOf(c.env, k, Len(c.env)) \in Nat
    BY <1>4, SourcedIs
  <2> QED
    BY <1>1, <1>2, <1>4, <2>1 DEF Secrets
<1>5. CASE Assigning(c.env, k, Len(c.env)) = {}
  <2>1. LastOf(c.example, k, Len(c.example)) \in Nat
    BY <1>5, SourcedIs
  <2>2. Assigning(c.example, k, Len(c.example)) # {}
    BY <1>3, <2>1 DEF LastOf
  <2> QED
    BY <1>1, <1>2, <2>1, <2>2 DEF Secrets
<1> QED
  BY <1>4, <1>5

\* What the dashboard makes of the settings of a folder is what its scripts will.
LEMMA MetaOfContent ==
  ASSUME NEW c, IsContent(c)
  PROVE  /\ MetaPort(c) # 0 => MetaPort(c) = Sourced(c, "PORT")
         /\ Sourced(c, "PORT") \in PortRange => MetaPort(c) = Sourced(c, "PORT")
         /\ \A k \in Secret : Sourced(c, k) \in Nat => k \in Secrets(c)
         /\ Sourced(c, "NNODES") > 0 => MetaNodes(c) = Sourced(c, "NNODES")
<1>1. Vars(c)["PORT"] = Sourced(c, "PORT") /\ Vars(c)["NNODES"] = Sourced(c, "NNODES")
  BY VarsAre, KindsApart
<1>2. \A k \in Secret : Sourced(c, k) \in Nat => k \in Secrets(c)
  BY SecretsAre
<1>3. Sourced(c, "NNODES") \in Int
  <2>1. ParsedEnv(c.env) \in Parsed /\ ParsedEnv(c.example) \in Parsed
    BY ParsedEnvIs DEF IsParse, IsContent
  <2>2. ParsedEnv(c.env).vars["NNODES"] \in Values \cup {Unset} /\ ParsedEnv(c.example).vars["NNODES"] \in Values \cup {Unset}
    BY <2>1, KindsApart DEF Parsed
  <2> QED
    BY <1>1, <2>2, KindsApart DEF Vars, Values, Empty, Unset
<1>4. Sourced(c, "NNODES") > 0 => MetaNodes(c) = Sourced(c, "NNODES")
  BY <1>1, <1>3 DEF MetaNodes
<1>5. MetaPort(c) = IF Sourced(c, "PORT") \in PortRange THEN Sourced(c, "PORT") ELSE 0
  BY <1>1 DEF MetaPort
<1> QED
  BY <1>2, <1>4, <1>5

-----------------------------------------------------------------------------
(* An engine or a folder *)

ServingInv == IInv /\ ShelfInv

\* The invariants of the two hold together, since a step of one leaves the
\* other alone.
THEOREM ServingInvariance == ServingSpec => []ServingInv
<1>1. ServingInit => ServingInv
  BY InitIInv, ShelfInitInv DEF ServingInit, ServingInv
<1>2. ServingInv /\ [ServingNext]_servingVars => ServingInv'
  <2> SUFFICES ASSUME ServingInv, [ServingNext]_servingVars PROVE ServingInv'
    OBVIOUS
  <2>1. [Next]_vars /\ [ShelfNext]_shelfVars
    BY DEF ServingNext, servingVars
  <2> QED
    BY <2>1, NextStep, ShelfNextInv DEF ServingInv
<1> QED
  BY <1>1, <1>2, PTL DEF ServingSpec

\* Whatever the folder has become, what is known of it is what its scripts will
\* find, and runs are judged by the script they run, as the state shows it.
LEMMA ServingHolds ==
  ServingInv =>
    /\ TypeOK /\ StopIsFinal /\ DeletedIsIdle /\ OrphanIsStopped
    /\ ShelfTypeOK /\ MetaIsSourced /\ RunIsExpected /\ NoDriftIsSame /\ RestartIsHarmless
<1> SUFFICES ASSUME ServingInv
             PROVE  /\ TypeOK /\ StopIsFinal /\ DeletedIsIdle /\ OrphanIsStopped
                    /\ ShelfTypeOK /\ MetaIsSourced /\ RunIsExpected /\ NoDriftIsSame /\ RestartIsHarmless
  OBVIOUS
<1>1. TypeOK /\ StopIsFinal /\ DeletedIsIdle /\ OrphanIsStopped
  BY IInvImplies DEF ServingInv, IInv
<1>2. ShelfTypeOK /\ RunIsExpected /\ NoDriftIsSame /\ RestartIsHarmless
  BY ShelfHolds DEF ServingInv
<1>3. IsContent(shelf.of)
  <2>1. shelf.of \in Contents \cup {Nothing}
    BY DEF ServingInv, ShelfInv, KnownOK, RecordOK, Records, AnyFolder
  <2>2. IsContent(Nothing)
    BY EmptySeq DEF IsContent, Nothing
  <2> QED
    BY <2>1, <2>2, ShelfAssumption
<1>4. MetaIsSourced
  BY <1>3, MetaOfContent DEF MetaIsSourced
<1> QED
  BY <1>1, <1>2, <1>4

\* What the runs of ServingSpec check of the engine and of the folder, but for
\* the liveness of ServingKeepsWord.
THEOREM TheServingHolds ==
  ServingSpec =>
    /\ [](TypeOK /\ StopIsFinal /\ DeletedIsIdle /\ OrphanIsStopped)
    /\ JobsFollowLifecycle
    /\ [](ShelfTypeOK /\ MetaIsSourced /\ RunIsExpected /\ NoDriftIsSame /\ RestartIsHarmless)
    /\ ReadingsAdvance /\ DeletedStays
<1>1. ServingSpec => []ServingInv
  BY ServingInvariance
<1>2. ServingInv => /\ TypeOK /\ StopIsFinal /\ DeletedIsIdle /\ OrphanIsStopped
                    /\ ShelfTypeOK /\ MetaIsSourced /\ RunIsExpected /\ NoDriftIsSame /\ RestartIsHarmless
  BY ServingHolds
<1>3. ServingInit => Lifecycle!Init
  BY DEF ServingInit, Init, Lifecycle!Init
<1>4. [ServingNext]_servingVars => [Next]_vars /\ [ShelfNext]_shelfVars
  BY DEF ServingNext, servingVars
<1>5. ServingInv /\ [ServingNext]_servingVars => [Lifecycle!Next]_job
  BY <1>4, JobStep DEF ServingInv
<1>6. ServingInv /\ [ServingNext]_servingVars
      => [shelf.known /\ shelf'.known /\ ~mingled' /\ ~unsaved => shelf'.at >= shelf.at]_shelfVars
  BY <1>4, ReadingsStep DEF ServingInv
<1>7. ServingInv /\ [ServingNext]_servingVars
      => [~shelf.known /\ shelf'.known /\ ~unsaved => probing'["register"].busy /\ asks' > asks]_shelfVars
  BY <1>4, DeletedStep DEF ServingInv
<1> QED
  BY <1>1, <1>2, <1>3, <1>5, <1>6, <1>7, PTL
     DEF ServingSpec, JobsFollowLifecycle, Lifecycle!Spec, ReadingsAdvance, DeletedStays
=============================================================================
