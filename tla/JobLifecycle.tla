---------------------------- MODULE JobLifecycle ----------------------------
(***************************************************************************)
(* What the remote-job layer promises about one job record, whatever the  *)
(* node, the transport and the dashboard process do meanwhile: a job is   *)
(* recorded once, as running; it ends once, with one outcome; the outcome *)
(* is never revised; and only a record that has an outcome is ever        *)
(* forgotten (by the cap on persisted terminal records).                  *)
(* RemoteJobs implements this specification; the serve engine relies on   *)
(* nothing else of a job.                                                 *)
(***************************************************************************)
CONSTANTS Jobs

VARIABLES out       \* out[j]: the record's life-cycle state

Terminal == {"completed", "failed", "interrupted", "cancelled"}
States   == {"none", "running", "gone"} \union Terminal

TypeOK == out \in [Jobs -> States]

Init == out = [j \in Jobs |-> "none"]

Move(j, from, to) == out[j] \in from /\ out' = [out EXCEPT ![j] = to]

Record(j)  == Move(j, {"none"}, "running")

\* Several records may end, or be forgotten, in one step: failStaleHelloJobs
\* and agentConnected walk all jobs, and a restart forgets every record
\* that was past the cap.
Advance ==
    \E next \in [Jobs -> States] :
        /\ \A j \in Jobs :
              \/ next[j] = out[j]
              \/ out[j] = "running" /\ next[j] \in Terminal
              \/ out[j] \in Terminal /\ next[j] = "gone"
        /\ out' = next

Next == Advance \/ \E j \in Jobs : Record(j)

Spec == Init /\ [][Next]_out
=============================================================================
