------------------------------- MODULE SshMux -------------------------------
(***************************************************************************)
(* Commands over one shared ssh connection (server/collectors/ssh.js).     *)
(* Before a command runs, a gate makes sure that the master connection is  *)
(* there: the first caller sends a probe, the others wait for its result,  *)
(* which is trusted for as long as the master would stay when idle.  A     *)
(* command that fails drops what the gate knows.                           *)
(*                                                                         *)
(* One spark with one set of credentials: the gate and the socket have the *)
(* same key, a digest of these, so that no two keys meet.  ssh itself (it  *)
(* joins the master behind the socket, or becomes it) is external.         *)
(***************************************************************************)
EXTENDS Naturals, FiniteSets

CONSTANTS
    Execs,       \* calls of sshExec
    Persist,     \* controlPersistSeconds
    MaxNow, MaxBreaks   \* bounds

ASSUME MuxAssumption == {Persist, MaxNow, MaxBreaks} \subseteq Nat /\ Persist > 0

VARIABLES
    gate,      \* the entry of _multiplexStates: its probe and when it expires
    probes,    \* probe[n]: the probes, in the order in which they began
    exec,      \* exec[c]: where a call is, and the probe it waits for
    master,    \* the connection: "none", "up", or "hung" (no answer, no reset)
    idleAt,    \* since when the master has no session
    now, breaks,
    failedAt,  \* history: the number of probes when a call last failed
    crossed,   \* history: a failed call dropped a probe that had not returned
    bereft     \* history: the master broke under calls that trusted it

muxVars == <<gate, probes, exec, master, idleAt, now, breaks, failedAt, crossed, bereft>>

NoGate == [probe |-> 0, expires |-> 0]
NotCalled == [st |-> "idle", of |-> 0]

Started == DOMAIN probes
\* A process of ssh joins the master or dials; while it dials there is no socket.
Sessions(st) ==
    {<<"probe", n>> : n \in {m \in Started : probes[m] = st}}
    \cup {<<"exec", c>> : c \in {d \in Execs : exec[d].st = st}}
Dialing == Sessions("dialing")
Joined  == Sessions("joined")

MuxInit ==
    /\ gate = NoGate /\ probes = <<>>
    /\ exec = [c \in Execs |-> NotCalled]
    /\ master = "none" /\ idleAt = 0 /\ now = 0 /\ breaks = 0
    /\ failedAt = 0 /\ crossed = FALSE /\ bereft = FALSE

Spawned == IF master = "none" THEN "dialing" ELSE "joined"

-----------------------------------------------------------------------------
(* The gate *)

Expired == gate.probe # 0 /\ now >= gate.expires

\* ensureMultiplexReady: a caller sends the probe, waits for it, or goes on at
\* once if it has returned.
EnsureReady(c) ==
    /\ exec[c].st = "idle"
    /\ IF gate.probe = 0 \/ Expired
       THEN LET n == Cardinality(Started) + 1 IN
            /\ probes' = [m \in 1..n |-> IF m = n THEN Spawned ELSE probes[m]]
            /\ gate' = [probe |-> n, expires |-> now + Persist]
            /\ exec' = [exec EXCEPT ![c] = [st |-> "waiting", of |-> n]]
            /\ crossed' = (crossed /\ Dialing # {}) /\ bereft' = (bereft /\ Dialing # {})
       ELSE /\ exec' = [exec EXCEPT ![c] =
                            [st |-> IF probes[gate.probe] = "ready" THEN Spawned ELSE "waiting",
                             of |-> gate.probe]]
            /\ UNCHANGED <<probes, gate, crossed, bereft>>
    /\ UNCHANGED <<master, idleAt, now, breaks, failedAt>>

\* The entry is dropped only if it is still the one whose probe failed.
Dropped(n) == IF gate.probe = n THEN NoGate ELSE gate

\* Who leaves the master, and the idle time that begins then.
Leaves(s) ==
    /\ idleAt' = IF Joined \ {s} = {} THEN now ELSE idleAt
    /\ UNCHANGED <<now, breaks>>

\* The probe returns, and all who wait for it run in the same tick; whoever
\* dials is the master from then on.
ProbeReturns(n) ==
    /\ n \in Started /\ \/ probes[n] = "dialing" /\ master' = (IF master = "none" THEN "up" ELSE master)
                        \/ probes[n] = "joined" /\ master = "up" /\ UNCHANGED master
    /\ probes' = [probes EXCEPT ![n] = "ready"]
    /\ exec' = [c \in Execs |-> IF exec[c] = [st |-> "waiting", of |-> n]
                                THEN [exec[c] EXCEPT !.st = "joined"] ELSE exec[c]]
    /\ Leaves(<<"probe", n>>)
    /\ UNCHANGED <<gate, failedAt, crossed, bereft>>

\* It cannot connect, or it is killed by its timeout; so are those who wait.
ProbeFails(n) ==
    /\ n \in Started /\ \/ probes[n] = "dialing"
                        \/ probes[n] = "joined" /\ master = "hung"
    /\ probes' = [probes EXCEPT ![n] = "failed"]
    /\ exec' = [c \in Execs |-> IF exec[c] = [st |-> "waiting", of |-> n]
                                THEN [exec[c] EXCEPT !.st = "failed"] ELSE exec[c]]
    /\ gate' = Dropped(n)
    /\ Leaves(<<"probe", n>>)
    /\ UNCHANGED <<master, failedAt, crossed, bereft>>

-----------------------------------------------------------------------------
(* A command *)

RunReturns(c) ==
    /\ \/ exec[c].st = "dialing" /\ master' = (IF master = "none" THEN "up" ELSE master)
       \/ exec[c].st = "joined" /\ master = "up" /\ UNCHANGED master
    /\ exec' = [exec EXCEPT ![c].st = "done"]
    /\ Leaves(<<"exec", c>>)
    /\ UNCHANGED <<gate, probes, failedAt, crossed, bereft>>

\* invalidateMultiplex: whosever entry it is.
ForgottenBug == gate
Forgotten == NoGate

\* An exit that is not zero, a connection that broke, the timeout.
RunFails(c) ==
    /\ exec[c].st \in {"dialing", "joined"}
    /\ exec' = [exec EXCEPT ![c].st = "failed"]
    /\ gate' = Forgotten
    /\ failedAt' = Cardinality(Started)
    /\ crossed' = (crossed \/ (gate.probe # 0 /\ probes[gate.probe] \in {"dialing", "joined"}))
    /\ Leaves(<<"exec", c>>)
    /\ UNCHANGED <<probes, master, bereft>>

-----------------------------------------------------------------------------
(* The master *)

\* It ends when it had no session for Persist seconds.
Expires ==
    /\ master = "up" /\ Joined = {} /\ now >= idleAt + Persist
    /\ master' = "none"
    /\ UNCHANGED <<gate, probes, exec, idleAt, now, breaks, failedAt, crossed, bereft>>

\* The connection breaks, or hangs and is given up later; sessions fail.
Breaks(next) ==
    /\ \/ master = "up" /\ breaks < MaxBreaks /\ breaks' = breaks + 1 /\ next \in {"none", "hung"}
       \/ master = "hung" /\ next = "none" /\ UNCHANGED breaks
    /\ master' = next
    /\ bereft' = (bereft \/ gate.probe # 0)
    /\ IF next = "hung" THEN UNCHANGED <<probes, exec, gate, failedAt, crossed>>
       ELSE /\ probes' = [n \in Started |-> IF probes[n] = "joined" THEN "failed" ELSE probes[n]]
            /\ exec' = [c \in Execs |->
                          IF \/ exec[c].st = "joined"
                             \/ exec[c].st = "waiting" /\ probes[exec[c].of] = "joined"
                          THEN [exec[c] EXCEPT !.st = "failed"] ELSE exec[c]]
            /\ IF \E c \in Execs : exec[c].st = "joined"
               THEN gate' = Forgotten /\ failedAt' = Cardinality(Started)
               ELSE /\ UNCHANGED failedAt
                    /\ gate' = IF gate.probe # 0 /\ probes[gate.probe] = "joined" THEN NoGate ELSE gate
            /\ UNCHANGED crossed
    /\ UNCHANGED <<idleAt, now>>

\* A probe returns within Persist: ConnectTimeout is 5 s, the timeout of most
\* calls 10 s.
MuxTicks ==
    /\ now < MaxNow /\ now' = now + 1
    /\ gate.probe # 0 /\ probes[gate.probe] \in {"dialing", "joined"} => now' < gate.expires
    /\ UNCHANGED <<gate, probes, exec, master, idleAt, breaks, failedAt, crossed, bereft>>

-----------------------------------------------------------------------------
MuxNext ==
    \/ \E c \in Execs : EnsureReady(c) \/ RunReturns(c) \/ RunFails(c)
    \/ \E n \in Started : ProbeReturns(n) \/ ProbeFails(n)
    \/ Expires \/ MuxTicks
    \/ \E next \in {"none", "hung"} : Breaks(next)

-----------------------------------------------------------------------------
MuxTypeOK ==
    /\ master \in {"none", "up", "hung"} /\ gate.probe \in Started \cup {0}
    /\ \A n \in Started : probes[n] \in {"dialing", "joined", "ready", "failed"}
    /\ \A c \in Execs : exec[c].st \in {"idle", "waiting", "dialing", "joined", "done", "failed"}

\* One authentication at a time: the gate spares the node a connection per
\* command, however many callers there are and whenever the master goes idle,
\* unless a late failure dropped the probe under way or the master broke.
OneDials == ~crossed /\ ~bereft => Cardinality(Dialing) <= 1

\* What the gate trusts was probed after the last failure that was seen ("the
\* next caller must re-probe").
TrustIsNew == gate.probe # 0 => gate.probe > failedAt

\* Nobody waits for a probe that is over.
NobodyWaits ==
    \A c \in Execs : exec[c].st = "waiting" => probes[exec[c].of] \in {"dialing", "joined"}
=============================================================================
