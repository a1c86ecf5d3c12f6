----------------------------- MODULE LoadRuns -----------------------------
(***************************************************************************)
(* Runs that put load on the LLM of a spark: decode and prefill benchmarks *)
(* (DecodeBenchManager, PrefillBenchManager) and prompt showcases          *)
(* (ShowcaseManager), with their routes in server/index.js, their history  *)
(* files, the checkpoint of running benchmarks, shutdown and crashes.      *)
(*                                                                         *)
(* A run's loop is its async function; what it streams is left out.  A     *)
(* benchmark's history is on disk when it is in memory.  The rate limiters *)
(* of the routes only refuse more, and are left out.                       *)
(***************************************************************************)
EXTENDS Naturals, Sequences, FiniteSets

CONSTANTS
    Runs,       \* requests to start a run
    Sparks,
    KindOf,     \* KindOf[r]: "decode", "prefill" or "showcase"
    SparkOf,    \* SparkOf[r]: its spark
    NoRun,      \* no run
    Cap,        \* MAX_ACTIVE_BENCH_JOBS
    Limit,      \* HISTORY_LIMIT
    MaxBoots    \* bound: restarts of the dashboard

Benches == {"decode", "prefill"}
Kinds   == Benches \union {"showcase"}

ASSUME LoadAssumption ==
    /\ KindOf \in [Runs -> Kinds] /\ SparkOf \in [Runs -> Sparks]
    /\ NoRun \notin Runs /\ {Cap, Limit} \subseteq Nat \ {0} /\ MaxBoots \in Nat
    /\ IsFiniteSet(Runs) /\ IsFiniteSet(Sparks)

VARIABLES
    asked,      \* asked[r]: "idle", "resolving" its target, "started" or "refused"
    status,     \* status[r]: status of its job in memory, "none" without one
    loop,       \* runs whose loop has not returned
    active,     \* active[k][s]: activeBySpark of the managers
    aborted,    \* runs whose signal is aborted
    history,    \* history[k][s]: finished runs, the newest first
    checkpoint, \* checkpoint[k]: runs in the active file of a bench manager
    stopping,   \* the shutdown has begun
    boots,
    raced,      \* history: runs that started while another request resolved its target
    cleared     \* history: runs whose record was cleared

jobVars  == <<asked, status, loop, active, aborted>>
loadVars == <<jobVars, history, checkpoint, stopping, boots, raced, cleared>>

LoadInit ==
    /\ asked = [r \in Runs |-> "idle"] /\ status = [r \in Runs |-> "none"]
    /\ loop = {} /\ aborted = {} /\ raced = {} /\ cleared = {}
    /\ active = [k \in Kinds |-> [s \in Sparks |-> NoRun]]
    /\ history = [k \in Kinds |-> [s \in Sparks |-> <<>>]]
    /\ checkpoint = [k \in Benches |-> {}]
    /\ stopping = FALSE /\ boots = 0

IsBench(r) == KindOf[r] \in Benches

\* getActive(): a showcase counts only while its status is running.
Occupied(k, s) ==
    active[k][s] # NoRun /\ (k = "showcase" => status[active[k][s]] = "running")

Running(k) == {r \in Runs : KindOf[r] = k /\ status[r] = "running"}

Activated(r) == [active EXCEPT ![KindOf[r]][SparkOf[r]] = r]
Deleted(r)   == [active EXCEPT ![KindOf[r]][SparkOf[r]] = NoRun]

\* _checkpointActive, given the statuses after the step.
Checkpointed(k, st) ==
    [checkpoint EXCEPT ![k] = {r \in Runs : KindOf[r] = k /\ st[r] = "running"}]

Report(r, s) == [run |-> r, status |-> s]
RunsIn(h) == {h[i].run : i \in DOMAIN h}

Cut(h) == IF Len(h) > Limit THEN SubSeq(h, 1, Limit) ELSE h

\* _pushHistory, _archiveSession: replaces an older record of the same run.
Without(h, r) ==
    IF r \notin RunsIn(h) THEN h
    ELSE LET i == CHOOSE i \in DOMAIN h : h[i].run = r
         IN  SubSeq(h, 1, i - 1) \o SubSeq(h, i + 1, Len(h))

Pushed(h, rec) == Cut(<<rec>> \o Without(h, rec.run))

PushedTo(r, s) == [history EXCEPT ![KindOf[r]][SparkOf[r]] = Pushed(@, Report(r, s))]

-----------------------------------------------------------------------------
(* Start *)

\* What the bench routes check first.
Admitted(r) ==
    /\ Cardinality({ks \in Benches \X Sparks : active[ks[1]][ks[2]] # NoRun}) < Cap
    /\ \A k \in Kinds \ {KindOf[r]} : ~Occupied(k, SparkOf[r])

\* Then they await the target ...
BenchArrives(r) ==
    /\ asked[r] = "idle" /\ IsBench(r)
    /\ asked' = [asked EXCEPT ![r] = IF Admitted(r) THEN "resolving" ELSE "refused"]
    /\ UNCHANGED <<status, loop, active, aborted, history, checkpoint, stopping, boots, raced, cleared>>

Resolving == {r \in Runs : asked[r] = "resolving"}

\* ... and start the job if its own manager has none on the spark.  The prefill
\* manager also looks at the decode manager; the decode one looks at no other.
BenchStarts(r) ==
    /\ asked[r] = "resolving" /\ active[KindOf[r]][SparkOf[r]] = NoRun
    /\ KindOf[r] = "prefill" => ~Occupied("decode", SparkOf[r])
    /\ asked' = [asked EXCEPT ![r] = "started"]
    /\ status' = [status EXCEPT ![r] = "running"]
    /\ loop' = loop \union {r}
    /\ active' = Activated(r)
    /\ checkpoint' = Checkpointed(KindOf[r], status')
    /\ raced' = raced \union (Resolving \ {r})
    /\ UNCHANGED <<aborted, history, stopping, boots, cleared>>

BenchRefused(r) ==
    /\ asked[r] = "resolving"
    /\ asked' = [asked EXCEPT ![r] = "refused"]
    /\ UNCHANGED <<status, loop, active, aborted, history, checkpoint, stopping, boots, raced, cleared>>

\* The showcase route awaits nothing.
ShowcaseStarts(r) ==
    /\ asked[r] = "idle" /\ ~IsBench(r)
    /\ \A k \in Kinds : active[k][SparkOf[r]] = NoRun
    /\ asked' = [asked EXCEPT ![r] = "started"]
    /\ status' = [status EXCEPT ![r] = "running"]
    /\ loop' = loop \union {r}
    /\ active' = Activated(r)
    /\ raced' = raced \union Resolving
    /\ UNCHANGED <<aborted, history, checkpoint, stopping, boots, cleared>>

-----------------------------------------------------------------------------
(* End *)

\* Only a showcase frees its spark before its loop has returned.
Freed(r) == IF IsBench(r) THEN active ELSE Deleted(r)

\* Cancel; a showcase nobody polls is cancelled the same way.  It is settled
\* at once, a benchmark by its loop.
Cancel(r) ==
    /\ status[r] = "running"
    /\ aborted' = aborted \union {r}
    /\ active' = Freed(r)
    /\ status' = IF IsBench(r) THEN status ELSE [status EXCEPT ![r] = "cancelled"]
    /\ history' = IF IsBench(r) THEN history ELSE PushedTo(r, "cancelled")
    /\ UNCHANGED <<asked, loop, checkpoint, stopping, boots, raced, cleared>>

\* Mutated form: a loop that ends leaves its run as it is.
UnsettledBug(r, outcome) == status[r]

\* How the loop settles a run.
Settled(r, outcome) ==
    IF status[r] # "running" THEN status[r] ELSE IF r \in aborted THEN "cancelled" ELSE outcome

\* The finally of _runJob and of _runSession: the entry of the spark is
\* deleted whichever run it names.
LoopReturns(r, outcome) ==
    LET s == Settled(r, outcome) IN
    /\ r \in loop /\ loop' = loop \ {r}
    /\ status' = [status EXCEPT ![r] = IF @ = "none" THEN "none" ELSE s]
    /\ active' = Deleted(r)
    /\ history' = PushedTo(r, IF status[r] = "none" THEN "cancelled" ELSE s)
    /\ checkpoint' = IF IsBench(r) THEN Checkpointed(KindOf[r], status') ELSE checkpoint
    /\ UNCHANGED <<asked, aborted, stopping, boots, raced, cleared>>

\* DELETE of the collection: history and finished jobs; not while one runs.
Clear(k, s) ==
    LET gone == {r \in Runs : KindOf[r] = k /\ SparkOf[r] = s /\ status[r] # "running"} IN
    /\ ~Occupied(k, s) /\ history[k][s] # <<>>
    /\ cleared' = cleared \union gone \union RunsIn(history[k][s])
    /\ history' = [history EXCEPT ![k][s] = <<>>]
    /\ status' = [r \in Runs |-> IF r \in gone THEN "none" ELSE status[r]]
    /\ UNCHANGED <<asked, loop, active, aborted, checkpoint, stopping, boots, raced>>

-----------------------------------------------------------------------------
(* Shutdown, crash, boot *)

\* interruptAll: every running benchmark is reported as failed.
Interrupt ==
    LET hit == Running("decode") \union Running("prefill") IN
    /\ ~stopping /\ stopping' = TRUE
    /\ aborted' = aborted \union hit
    /\ status' = [r \in Runs |-> IF r \in hit THEN "failed" ELSE status[r]]
    /\ active' = [k \in Kinds |-> [s \in Sparks |-> IF active[k][s] \in hit THEN NoRun ELSE active[k][s]]]
    /\ history' = [k \in Kinds |-> [s \in Sparks |->
                     IF active[k][s] \in hit THEN Pushed(history[k][s], Report(active[k][s], "failed"))
                     ELSE history[k][s]]]
    /\ checkpoint' = [k \in Benches |-> {}]
    /\ UNCHANGED <<asked, loop, boots, raced, cleared>>

\* Runs of the active file that the history does not know.
LeftOver(k) == {r \in checkpoint[k] : r \notin RunsIn(history[k][SparkOf[r]])}

\* Leftovers of a kind on a spark, in some order: the file's, the last one first.
Orders(mine) == {o \in [1..Cardinality(mine) -> mine] : \A r \in mine : \E i \in DOMAIN o : o[i] = r}

Failures(o) == [i \in DOMAIN o |-> Report(o[i], "failed")]

\* The process ends, at whatever moment, and another one boots: leftovers of
\* the checkpoint are reported as failed.
LoadBoot ==
    LET left == LeftOver("decode") \union LeftOver("prefill") IN
    /\ boots < MaxBoots /\ boots' = boots + 1
    /\ stopping' = FALSE
    /\ asked' = [r \in Runs |-> IF asked[r] = "resolving" THEN "refused" ELSE asked[r]]
    /\ status' = [r \in Runs |-> IF r \in left THEN "failed" ELSE "none"]
    /\ loop' = {} /\ aborted' = {}
    /\ active' = [k \in Kinds |-> [s \in Sparks |-> NoRun]]
    /\ \E order \in [Benches -> [Sparks -> UNION {Orders(mine) : mine \in SUBSET left}]] :
          /\ \A k \in Benches, s \in Sparks : order[k][s] \in Orders({r \in LeftOver(k) : SparkOf[r] = s})
          /\ history' = [k \in Kinds |-> [s \in Sparks |->
                IF k \in Benches THEN Cut(Failures(order[k][s]) \o history[k][s]) ELSE history[k][s]]]
    /\ checkpoint' = [k \in Benches |-> {}]
    /\ UNCHANGED <<raced, cleared>>

LoadNext ==
    \/ Interrupt \/ LoadBoot
    \/ \E r \in Runs :
          \/ BenchArrives(r) \/ BenchStarts(r) \/ BenchRefused(r) \/ ShowcaseStarts(r)
          \/ Cancel(r)
          \/ \E outcome \in {"completed", "failed"} : LoopReturns(r, outcome)
    \/ \E k \in Kinds, s \in Sparks : Clear(k, s)

LoadSpec == LoadInit /\ [][LoadNext]_loadVars

-----------------------------------------------------------------------------
Ended == {"completed", "failed", "cancelled"}

LoadTypeOK ==
    /\ asked \in [Runs -> {"idle", "resolving", "started", "refused"}]
    /\ status \in [Runs -> {"none", "running"} \union Ended]
    /\ loop \subseteq Runs /\ aborted \subseteq Runs /\ raced \subseteq Runs /\ cleared \subseteq Runs
    /\ active \in [Kinds -> [Sparks -> Runs \union {NoRun}]]
    /\ history \in [Kinds -> [Sparks -> Seq([run : Runs, status : Ended])]]
    /\ \A k \in Kinds, s \in Sparks : Len(history[k][s]) <= Limit
    /\ checkpoint \in [Benches -> SUBSET Runs]
    /\ stopping \in BOOLEAN /\ boots \in 0..MaxBoots

\* The manager of a kind knows what runs: until the shutdown, a benchmark
\* that runs is the active one of its spark, so there is one per spark.
BenchIsActive == ~stopping => \A k \in Benches : \A r \in Running(k) : active[k][SparkOf[r]] = r

\* Showcases: the module promises one active session per spark.
OneSessionPerSpark ==
    \A r, q \in Running("showcase") : SparkOf[r] = SparkOf[q] => r = q

\* A showcase the manager has lost track of: the loop of an earlier, cancelled
\* session returned and deleted the entry of its successor.
Lost(r) == status[r] = "running" /\ active[KindOf[r]][SparkOf[r]] # r

\* Runs of different kinds keep off each other's spark, and benchmarks within
\* their common cap, except for requests that resolved their target while
\* another run started: their checks are not made again.
KeepsOff == ~stopping =>
    /\ \A r, q \in loop \ raced :
          r # q /\ SparkOf[r] = SparkOf[q] /\ status[r] = "running" /\ status[q] = "running" => Lost(r) \/ Lost(q)
    /\ Cardinality((Running("decode") \union Running("prefill")) \ raced) <= Cap

\* Nobody who polls a benchmark finds it gone: it is in memory or in the
\* history, or the next boot will put it there, whatever crash or shutdown
\* came; unless it was cleared or newer runs pushed it out.
EveryBenchReported == \A r \in Runs :
    IsBench(r) /\ asked[r] = "started" =>
        LET h == history[KindOf[r]][SparkOf[r]]
        IN  r \in RunsIn(h) \/ r \in checkpoint[KindOf[r]] \/ r \in cleared \/ Len(h) = Limit

\* What is reported about a run is not revised.
ReportIsFinal ==
    [][\A k \in Kinds, s \in Sparks : \A i \in DOMAIN history[k][s], j \in DOMAIN history'[k][s] :
          history[k][s][i].run = history'[k][s][j].run
             => history[k][s][i].status = history'[k][s][j].status]_loadVars
=============================================================================
