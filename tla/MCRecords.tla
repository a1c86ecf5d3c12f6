----------------------------- MODULE MCRecords -----------------------------
(***************************************************************************)
(* Instances of RemoteJobs, of TraceFeed and of DailyRates side by side:   *)
(* what the dashboard keeps of jobs, of requests and of the rates of its   *)
(* engines, and which job runs where.  area says which of the three this   *)
(* behaviour is about, the others rest.                                    *)
(***************************************************************************)
EXTENDS RemoteJobs, TraceFeed, DailyRates, TLC

CONSTANTS
    jA, jB, nA, fA,
    Parts    \* the parts that a run is about

VARIABLE area

OnOneNode   == jA :> nA @@ jB :> nA
OnOneFolder == jA :> fA @@ jB :> fA

recordsVars == <<area, jobsVars, traceVars, dailyVars>>

RecordsInit ==
    /\ area \in Parts
    /\ JobsInit /\ TracesInit /\ DailyInit

RecordsNext ==
    \/ area = "jobs" /\ JobsNext /\ UNCHANGED <<area, traceVars, dailyVars>>
    \/ area = "traces" /\ TracesNext /\ UNCHANGED <<area, jobsVars, dailyVars>>
    \/ area = "daily" /\ DailyNext /\ UNCHANGED <<area, jobsVars, traceVars>>

RecordsSpec ==
    /\ RecordsInit /\ [][RecordsNext]_recordsVars
    /\ \/ area = "jobs" /\ JobsFairness
       \/ area = "traces" /\ TracesFairness
       \/ area = "daily"

-----------------------------------------------------------------------------
\* A job whose process is over is resolved.  A page that follows the traces
\* shows each of its filter once, in order, and comes to the last one; the
\* rates of a day are of the same samples in memory and on file.
RecordsAreKept ==
    /\ EndedIsResolved
    /\ [](TracesTypeOK /\ ShownIsExact /\ NothingIsMissed)
    /\ [](DailyTypeOK /\ AverageIsInside /\ UnsavedIsPending)
    /\ area = "traces" => TracesAreSeen
=============================================================================
