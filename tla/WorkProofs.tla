----------------------------- MODULE WorkProofs -----------------------------
(***************************************************************************)
(* Proofs about MCWork: scripts and their pid files (ScriptServing), runs  *)
(* that put load on a spark (LoadRuns), one benchmark from the inside      *)
(* (BenchStreams), and what is believed of a model (ModelStock), for any   *)
(* requests, scripts, runs, nodes and bounds.                              *)
(***************************************************************************)
EXTENDS MCWork, FiniteSetTheorems, SequenceTheorems, TLAPS

-----------------------------------------------------------------------------
(* ScriptServing: the invariant *)

StageTypes ==
    /\ stage \in [Starts -> {"idle", "placing", "sent", "done"}]
    /\ shell \in [Starts -> {"none", "sent", "launched", "over"}]
    /\ haltStage \in [Stops -> {"idle", "sent", "stopped", "failed"}]
    /\ halt \in [Stops -> {"none", "sent", "found", "killed", "over", "lost"}]

NameTypes ==
    /\ starting \subseteq Scripts /\ alive \subseteq Starts /\ crossed \subseteq Starts
    /\ runPort \in [Scripts -> Starts \union {None}]
    /\ pid \in [Scripts -> Starts \union {None}]
    /\ halting \in [Stops -> Scripts \union {None}]
    /\ found \in [Stops -> Starts \union {None}]

CountTypes == paths \in Seq(Scripts) /\ Len(paths) <= KeepPaths /\ restarts \in 0..MaxRestarts

StartUnder(r) == stage[r] = "sent" \/ shell[r] \in {"sent", "launched"}
StopUnder(x)  == haltStage[x] = "sent" \/ halt[x] \in {"sent", "found", "killed"}

ShellOK == \A r \in Starts :
    /\ stage[r] \in {"idle", "placing"} => shell[r] = "none"
    /\ r \in alive => shell[r] \in {"launched", "over"}

\* A start that overlapped nothing is alone with its script until it is over.
AloneOK == \A r \in Starts \ crossed : StartUnder(r) =>
    /\ \A q \in Starts : q # r /\ ScriptOf[q] = ScriptOf[r] => ~StartUnder(q)
    /\ \A x \in Stops : halting[x] = ScriptOf[r] => ~StopUnder(x)

\* Who launches found nobody, and who was there since has overlapped it.
LaunchOK == \A r \in Starts : shell[r] = "launched" =>
    \A q \in alive \ crossed : q # r /\ ScriptOf[q] = ScriptOf[r] => shell[q] # "over"

\* A stop finds all there is to find, and kills it.
HaltOK == \A x \in Stops : \A q \in alive \ crossed : ScriptOf[q] = halting[x] =>
    /\ halt[x] = "found" => q = found[x]
    /\ halt[x] # "killed"
    /\ halt[x] = "over" => haltStage[x] # "sent"

PortOK == \A r \in Starts \ crossed :
    shell[r] \in {"sent", "launched"} \/ r \in alive => runPort[ScriptOf[r]] # None

ScriptInv ==
    /\ StageTypes /\ NameTypes /\ CountTypes
    /\ ShellOK /\ AloneOK /\ LaunchOK /\ HaltOK /\ PortOK /\ RunIsKnown

-----------------------------------------------------------------------------
(* LoadRuns: the invariant *)

LoadTypes ==
    /\ asked \in [Runs -> {"idle", "resolving", "started", "refused"}]
    /\ status \in [Runs -> {"none", "running"} \union Ended]
    /\ loop \subseteq Runs /\ aborted \subseteq Runs /\ raced \subseteq Runs /\ cleared \subseteq Runs
    /\ active \in [Kinds -> [Sparks -> Runs \union {NoRun}]]
    /\ checkpoint \in [Benches -> SUBSET Runs]
    /\ stopping \in BOOLEAN /\ boots \in 0..MaxBoots

Reports == [run : Runs, status : Ended]

HistoryTypes ==
    /\ history \in [Kinds -> [Sparks -> Seq(Reports)]]
    /\ \A k \in Kinds, s \in Sparks : Len(history[k][s]) <= Limit

AskOK == \A r \in Runs :
    /\ asked[r] # "started" => status[r] = "none" /\ r \notin loop
    /\ asked[r] = "resolving" => IsBench(r)
    /\ status[r] = "running" => r \in loop

ActiveOK == \A k \in Kinds, s \in Sparks :
    active[k][s] # NoRun => KindOf[active[k][s]] = k /\ SparkOf[active[k][s]] = s

LoopsRun == ~stopping => \A r \in loop : IsBench(r) => status[r] = "running"

FileIsRunning == \A k \in Benches : checkpoint[k] = Running(k)

\* Two runs of different kinds have one spark only if a check was outrun.
Apart == \A k, l \in Kinds, s \in Sparks :
    /\ k # l /\ active[k][s] \in Runs \ raced /\ active[l][s] \in Runs \ raced
    => status[active[k][s]] # "running" \/ status[active[l][s]] # "running"

\* What a request was admitted for still holds, unless a run started since.
FreeOK == \A r \in Resolving \ raced :
    \A k \in Kinds \ {KindOf[r]} : ~Occupied(k, SparkOf[r])

Slots == {ks \in Benches \X Sparks : active[ks[1]][ks[2]] # NoRun}
SlotsOK == Resolving \ raced # {} => Cardinality(Slots) < Cap

Load == (Running("decode") \union Running("prefill")) \ raced
CapOK == ~stopping => Cardinality(Load) <= Cap

\* A report is of a run of its place, is the same whenever it is made, and what
\* its loop, if that is still there, will report again.
HistoryOK == \A k \in Kinds, s \in Sparks : \A i \in DOMAIN history[k][s] :
    LET e == history[k][s][i] IN
    /\ asked[e.run] = "started" /\ KindOf[e.run] = k /\ SparkOf[e.run] = s
    /\ e.run \in loop => status[e.run] = e.status
    /\ \A j \in DOMAIN history[k][s] : history[k][s][j].run = e.run => history[k][s][j].status = e.status

LoadInv ==
    /\ LoadTypes /\ HistoryTypes /\ AskOK /\ ActiveOK /\ LoopsRun /\ BenchIsActive /\ FileIsRunning
    /\ Apart /\ FreeOK /\ SlotsOK /\ CapOK /\ HistoryOK /\ EveryBenchReported

-----------------------------------------------------------------------------
(* BenchStreams: the invariant *)

Stream == [st : {"off", "asked", "open", "done"}, try : Nat, pieces : 0..MaxPieces,
           error : {"none", "400", "failed", "aborted"}]

BenchTypes ==
    /\ benchKind \in {"decode", "prefill"} /\ refused \subseteq AllParts
    /\ phase \in {"resolving", "warming", "waving", "over"}
    /\ level \in 0..Len(Waves)
    /\ abort \in BOOLEAN /\ waveTimedOut \in BOOLEAN
    /\ target \in {"none", "open", "closed"}
    /\ outcome \in {"running", "completed", "failed", "cancelled"}
    /\ results \in Seq([ok : Nat, failed : Nat])

\* Each of the bodies that were asked before was refused.
StreamsOK ==
    /\ stream \in [MaxStreams -> Stream]
    /\ \A i \in MaxStreams :
          /\ stream[i].try \in DOMAIN Bodies
          /\ \A m \in 1..(stream[i].try - 1) : Bodies[m] \cap refused # {}
          /\ stream[i].error = "400" => "template" \in refused
          /\ Live(i) => phase = "waving"

PhaseOK ==
    /\ reported = IF outcome = "running" THEN "none" ELSE outcome
    /\ outcome = "running" => ~abort \/ phase # "over"
    /\ phase = "over" => outcome # "running" /\ target # "open"
    /\ phase = "resolving" => target = "none"
    /\ phase # "over" /\ ~abort => outcome = "running"
    /\ phase \in {"resolving", "warming"} => level = 0 /\ results = <<>>
    /\ phase = "waving" => level > 0 /\ Len(results) = level - 1
    /\ level = 0 => results = <<>>
    /\ Len(results) <= level

RowsOK ==
    /\ \A n \in DOMAIN results : results[n].ok + results[n].failed = Concurrency(n)
    /\ outcome = "completed" => phase = "over" /\ Len(results) = Len(Waves) /\ ~abort

BenchInv == BenchTypes /\ StreamsOK /\ PhaseOK /\ RowsOK /\ CutIsDropped

-----------------------------------------------------------------------------
(* ModelStock: the invariant *)

Verdicts == {"none", "refused", "listed", "started", "blocked", "shown"}
Plans    == {"none", "unavailable", "present", "sync", "push"}
Phases   == {"idle", "first", "peers", "nas", "done"}
Answer   == [verdict : Verdicts, plan : Plans, from : Places, tight : BOOLEAN, busy : BOOLEAN]

StockTypes ==
    /\ wish \in Wishes /\ stock \in [Places -> Rows] /\ catalog \in Rows
    /\ cells \in [Cells -> [age : {"gone", "fresh", "stale"}, value : Told]]
    /\ tools \in [Places -> {"unknown", "no", "yes"}]
    /\ behind \subseteq Cells

AskTypes ==
    /\ ask \in [Asks -> [phase : Phases, answer : Answer]]
    /\ reading \in [Asks -> [Cells -> Told \cup {"no", "listing"}]]
    /\ seen \in [Asks -> [Cells -> Told \cup {"unread"}]]

JobOK ==
    /\ job \in [kind : Transfers \cup {"none"}, at : Places, to : Places,
                phase : {"none", "running", "worked"}]
    /\ job.phase = "none" => job = NoJob
    /\ job.phase # "none" =>
          /\ job.kind \in StoreKinds => job.at = Nas /\ job.to = Nas
          /\ job.kind = "push" => job.to \in Nodes
          /\ job.kind \notin StoreKinds \cup {"push"} => job.at \in Nodes /\ job.to = job.at

\* A transfer has changed what the cell tells, and has not ended.
Changing(c) == job.phase = "worked" /\ c \in Touched(job.kind, job.to)

Exact == Cells \ (behind \cup {"catalog"})

FreshOK == \A c \in Exact : ~Changing(c) =>
    /\ Usable(c) /\ cells[c].value # "error" => cells[c].value = Source(c)
    /\ \A r \in Asks : reading[r][c] \in Rows => reading[r][c] = Source(c)

\* A request that waits for nothing reads nothing; a start that asks the others
\* has seen that its model is not there.
AskOrder == \A r \in Asks :
    /\ ask[r].phase \in {"idle", "done"} => \A c \in Cells : reading[r][c] = "no"
    /\ ask[r].phase \in {"peers", "nas"} /\ wish[r].kind = "start" =>
          reading[r][wish[r].place] = "no" /\ seen[r][wish[r].place] \in {"none", "bare"}

StockInv == StockTypes /\ AskTypes /\ JobOK /\ FreshOK /\ AskOrder /\ BlockedIsProven

WorkInv == ScriptInv /\ LoadInv /\ BenchInv /\ StockInv

-----------------------------------------------------------------------------
(* ScriptServing: the proof *)

LEMMA ScriptInitInv == ServingInit => ScriptInv
<1> SUFFICES ASSUME ServingInit PROVE ScriptInv
  OBVIOUS
<1>1. StageTypes /\ NameTypes
  BY DEF ServingInit, StageTypes, NameTypes
<1>2. CountTypes
  BY ServingAssumption, EmptySeq DEF ServingInit, CountTypes
<1>3. ShellOK /\ AloneOK /\ LaunchOK /\ HaltOK /\ PortOK /\ RunIsKnown
  BY DEF ServingInit, ShellOK, AloneOK, LaunchOK, HaltOK, PortOK, RunIsKnown, StartUnder
<1> QED
  BY <1>1, <1>2, <1>3 DEF ScriptInv

LEMMA StageTypesStep == ScriptInv /\ ServingNext => StageTypes'
<1> SUFFICES ASSUME ScriptInv, ServingNext PROVE StageTypes'
  OBVIOUS
<1> USE DEF ScriptInv, StageTypes, dashboard, node, stopVars
<1>1. CASE DashboardRestarts
  BY <1>1 DEF DashboardRestarts
<1>2. ASSUME NEW r \in Starts,
             \/ StartBegins(r) \/ StartRefused(r) \/ StartSent(r) \/ StartReturns(r)
             \/ ShellRefuses(r) \/ ShellLaunches(r) \/ ShellWritesPid(r) \/ ShellLost(r)
             \/ ProcessEnds(r)
      PROVE StageTypes'
  BY <1>2 DEF StartBegins, StartRefused, StartSent, StartReturns, ShellRefuses, ShellLaunches,
              ShellWritesPid, ShellLost, ProcessEnds
<1>3. ASSUME NEW x \in Stops,
             \/ \E k \in Scripts : StopSent(x, k)
             \/ StopLooks(x) \/ StopKills(x) \/ StopRemoves(x) \/ StopLost(x)
             \/ StopReturns(x) \/ StopFails(x)
      PROVE StageTypes'
  BY <1>3 DEF StopSent, StopLooks, StopKills, StopRemoves, StopLost, StopReturns, StopFails
<1> QED
  BY <1>1, <1>2, <1>3 DEF ServingNext

LEMMA UndersStay ==
    ASSUME stage' = stage, shell' = shell
    PROVE  \A r : StartUnder(r)' = StartUnder(r)
BY DEF StartUnder

LEMMA NameTypesStep == ScriptInv /\ ServingNext => NameTypes'
<1> SUFFICES ASSUME ScriptInv, ServingNext PROVE NameTypes'
  OBVIOUS
<1> USE ServingAssumption DEF ScriptInv, NameTypes, dashboard, node, stopVars
<1>1. CASE DashboardRestarts
  BY <1>1 DEF DashboardRestarts
<1>2. ASSUME NEW r \in Starts, StartSent(r) PROVE NameTypes'
  BY <1>2 DEF StartSent, StartsUnderway
<1>3. ASSUME NEW r \in Starts,
             \/ StartBegins(r) \/ StartRefused(r) \/ StartReturns(r)
             \/ ShellRefuses(r) \/ ShellLaunches(r) \/ ShellWritesPid(r) \/ ShellLost(r)
             \/ ProcessEnds(r)
      PROVE NameTypes'
  BY <1>3 DEF StartBegins, StartRefused, StartReturns, ShellRefuses, ShellLaunches,
              ShellWritesPid, ShellLost, ProcessEnds
<1>4. ASSUME NEW x \in Stops, NEW k \in Scripts, StopSent(x, k) PROVE NameTypes'
  BY <1>4 DEF StopSent, StartsUnderway
<1>5. ASSUME NEW x \in Stops, StopLooks(x) PROVE NameTypes'
  BY <1>5 DEF StopLooks, AlreadyRunning
<1>6. ASSUME NEW x \in Stops,
             StopKills(x) \/ StopRemoves(x) \/ StopLost(x) \/ StopReturns(x) \/ StopFails(x)
      PROVE NameTypes'
  BY <1>6 DEF StopKills, StopRemoves, StopLost, StopReturns, StopFails, PortForgotten
<1> QED
  BY <1>1, <1>2, <1>3, <1>4, <1>5, <1>6 DEF ServingNext

\* recordPathScript keeps the list within its bound.
LEMMA PathsFit ==
    ASSUME NEW k \in Scripts, CountTypes
    PROVE  PathRecorded(k) \in Seq(Scripts) /\ Len(PathRecorded(k)) <= KeepPaths
<1> DEFINE longer == IF \E i \in DOMAIN paths : paths[i] = k THEN paths ELSE Append(paths, k)
<1>1. longer \in Seq(Scripts) /\ Len(longer) <= KeepPaths + 1
  BY ServingAssumption, AppendProperties DEF CountTypes
<1>2. ASSUME Len(longer) > KeepPaths
      PROVE  Tail(longer) \in Seq(Scripts) /\ Len(Tail(longer)) <= KeepPaths
  <2>1. longer # <<>>
    BY <1>2, ServingAssumption, EmptySeq
  <2> HIDE DEF longer
  <2> QED
    BY <1>1, <1>2, <2>1, ServingAssumption, HeadTailProperties
<1>3. PathRecorded(k) = IF Len(longer) > KeepPaths THEN Tail(longer) ELSE longer
  BY DEF PathRecorded
<1> HIDE DEF longer
<1> QED
  BY <1>1, <1>2, <1>3, ServingAssumption, LenProperties

LEMMA CountTypesStep == ScriptInv /\ ServingNext => CountTypes'
<1> SUFFICES ASSUME ScriptInv, ServingNext PROVE CountTypes'
  OBVIOUS
<1> USE DEF dashboard, node, stopVars
<1>0. CountTypes
  BY DEF ScriptInv
<1>1. CASE DashboardRestarts
  BY <1>0, <1>1, ServingAssumption DEF DashboardRestarts, CountTypes
<1>2. ASSUME NEW r \in Starts, StartSent(r) PROVE CountTypes'
  <2>1. paths' = PathRecorded(ScriptOf[r]) /\ restarts' = restarts
    BY <1>2 DEF StartSent
  <2>2. ScriptOf[r] \in Scripts
    BY ServingAssumption
  <2> QED
    BY <1>0, <2>1, <2>2, PathsFit DEF CountTypes
<1>3. CASE paths' = paths /\ restarts' = restarts
  BY <1>0, <1>3 DEF CountTypes
<1>4. DashboardRestarts \/ (\E r \in Starts : StartSent(r)) \/ (paths' = paths /\ restarts' = restarts)
  BY DEF ServingNext, StartBegins, StartRefused, StartReturns, ShellRefuses, ShellLaunches,
         ShellWritesPid, ShellLost, ProcessEnds, StopSent, StopLooks, StopKills, StopRemoves,
         StopLost, StopReturns, StopFails
<1> QED
  BY <1>1, <1>2, <1>3, <1>4

LEMMA ShellStep == ScriptInv /\ ServingNext => ShellOK'
<1> SUFFICES ASSUME ScriptInv, ServingNext PROVE ShellOK'
  OBVIOUS
<1> USE DEF ScriptInv, ShellOK, StageTypes, NameTypes, dashboard, node, stopVars
<1>1. CASE DashboardRestarts
  BY <1>1 DEF DashboardRestarts
<1>2. ASSUME NEW r \in Starts,
             \/ StartBegins(r) \/ StartRefused(r) \/ StartSent(r) \/ StartReturns(r)
      PROVE ShellOK'
  BY <1>2 DEF StartBegins, StartRefused, StartSent, StartReturns
<1>3. ASSUME NEW r \in Starts,
             \/ ShellRefuses(r) \/ ShellLaunches(r) \/ ShellWritesPid(r) \/ ShellLost(r)
             \/ ProcessEnds(r)
      PROVE ShellOK'
  BY <1>3 DEF ShellRefuses, ShellLaunches, ShellWritesPid, ShellLost, ProcessEnds
<1>4. ASSUME NEW x \in Stops,
             \/ \E k \in Scripts : StopSent(x, k)
             \/ StopLooks(x) \/ StopKills(x) \/ StopRemoves(x) \/ StopLost(x)
             \/ StopReturns(x) \/ StopFails(x)
      PROVE ShellOK'
  BY <1>4 DEF StopSent, StopLooks, StopKills, StopRemoves, StopLost, StopReturns, StopFails
<1> QED
  BY <1>1, <1>2, <1>3, <1>4 DEF ServingNext

\* The starts and stops that StartsUnderway and StopsUnderway name.
LEMMA Underway ==
    ASSUME NEW k
    PROVE  /\ StartsUnderway(k) = {r \in Starts : ScriptOf[r] = k /\ StartUnder(r)}
           /\ StopsUnderway(k) = {x \in Stops : halting[x] = k /\ StopUnder(x)}
BY DEF StartsUnderway, StopsUnderway, StartUnder, StopUnder

\* A step that makes nobody come under way, and forgets no overlap, keeps who
\* is alone.
LEMMA AloneStays ==
    ASSUME AloneOK, crossed \subseteq crossed', UNCHANGED halting,
           \A r \in Starts : StartUnder(r)' => StartUnder(r),
           \A x \in Stops : StopUnder(x)' => StopUnder(x)
    PROVE  AloneOK'
BY DEF AloneOK

LEMMA AloneStep == ScriptInv /\ ServingNext => AloneOK'
<1> SUFFICES ASSUME ScriptInv, ServingNext PROVE AloneOK'
  OBVIOUS
<1>0. AloneOK
  BY DEF ScriptInv
<1> USE DEF dashboard, node, stopVars
<1>1. CASE DashboardRestarts
  <2>1. \A r \in Starts : StartUnder(r)' => StartUnder(r)
    BY <1>1 DEF DashboardRestarts, StartUnder
  <2>2. \A x \in Stops : StopUnder(x)' => StopUnder(x)
    BY <1>1 DEF DashboardRestarts, StopUnder
  <2> QED
    BY <1>0, <1>1, <2>1, <2>2, AloneStays DEF DashboardRestarts
<1>2. ASSUME NEW r \in Starts, StartSent(r) PROVE AloneOK'
  <2> DEFINE k == ScriptOf[r]
             S == StartsUnderway(k)
             X == StopsUnderway(k)
  <2>1. S = {q \in Starts : ScriptOf[q] = k /\ StartUnder(q)} /\ X = {x \in Stops : halting[x] = k /\ StopUnder(x)}
    BY Underway
  <2>2. crossed' = IF S \union X = {} THEN crossed ELSE crossed \union {r} \union S
    BY <1>2 DEF StartSent
  <2>3. \A q \in Starts : StartUnder(q)' => StartUnder(q) \/ q = r
    BY <1>2 DEF StartSent, StartUnder, ScriptInv, StageTypes
  <2>4. \A x \in Stops : StopUnder(x)' = StopUnder(x)
    BY <1>2 DEF StartSent, StopUnder
  <2>5. halting' = halting
    BY <1>2 DEF StartSent
  <2> HIDE DEF S, X
  <2> SUFFICES ASSUME NEW q \in Starts \ crossed', StartUnder(q)'
               PROVE  /\ \A p \in Starts : p # q /\ ScriptOf[p] = ScriptOf[q] => ~StartUnder(p)'
                      /\ \A x \in Stops : halting[x] = ScriptOf[q] => ~StopUnder(x)'
    BY <2>5 DEF AloneOK
  <2>6. q \in Starts \ crossed
    BY <2>2
  <2>7. CASE q = r
    <3>1. S = {} /\ X = {}
      BY <2>2, <2>7
    <3> QED
      BY <2>1, <2>3, <2>4, <2>7, <3>1
  <2>8. CASE q # r
    <3>1. StartUnder(q)
      BY <2>3, <2>8
    <3>2. ScriptOf[q] # k
      BY <2>1, <2>2, <3>1
    <3> QED
      BY <1>0, <2>3, <2>4, <2>6, <3>1, <3>2 DEF AloneOK
  <2> QED
    BY <2>7, <2>8
<1>3. ASSUME NEW r \in Starts, \/ StartBegins(r) \/ StartRefused(r) \/ StartReturns(r)
      PROVE AloneOK'
  <2>1. \A q \in Starts : StartUnder(q)' => StartUnder(q)
    BY <1>3 DEF StartBegins, StartRefused, StartReturns, StartUnder, ScriptInv, StageTypes
  <2>2. \A x \in Stops : StopUnder(x)' => StopUnder(x)
    BY <1>3 DEF StartBegins, StartRefused, StartReturns, StopUnder
  <2>3. crossed' = crossed /\ halting' = halting
    BY <1>3 DEF StartBegins, StartRefused, StartReturns
  <2> QED
    BY <1>0, <2>1, <2>2, <2>3, AloneStays
<1>4. ASSUME NEW r \in Starts,
             \/ ShellRefuses(r) \/ ShellLaunches(r) \/ ShellWritesPid(r) \/ ShellLost(r) \/ ProcessEnds(r)
      PROVE AloneOK'
  <2>1. \A q \in Starts : StartUnder(q)' => StartUnder(q)
    BY <1>4 DEF ShellRefuses, ShellLaunches, ShellWritesPid, ShellLost, ProcessEnds, StartUnder,
                ScriptInv, StageTypes
  <2>2. \A x \in Stops : StopUnder(x)' => StopUnder(x)
    BY <1>4 DEF ShellRefuses, ShellLaunches, ShellWritesPid, ShellLost, ProcessEnds, StopUnder
  <2>3. crossed' = crossed /\ halting' = halting
    BY <1>4 DEF ShellRefuses, ShellLaunches, ShellWritesPid, ShellLost, ProcessEnds
  <2> QED
    BY <1>0, <2>1, <2>2, <2>3, AloneStays
<1>5. ASSUME NEW x \in Stops, NEW k \in Scripts, StopSent(x, k) PROVE AloneOK'
  <2>1. crossed' = crossed \union {r \in Starts : ScriptOf[r] = k /\ StartUnder(r)}
    BY <1>5, Underway DEF StopSent
  <2>2. \A r \in Starts : StartUnder(r)' = StartUnder(r)
    BY <1>5 DEF StopSent, StartUnder
  <2>3. \A y \in Stops : y # x => StopUnder(y)' = StopUnder(y) /\ halting'[y] = halting[y]
    BY <1>5 DEF StopSent, StopUnder, ScriptInv, StageTypes, NameTypes
  <2>4. halting'[x] = k
    BY <1>5 DEF StopSent, ScriptInv, NameTypes
  <2> QED
    BY <1>0, <2>1, <2>2, <2>3, <2>4 DEF AloneOK
<1>6. ASSUME NEW x \in Stops,
             StopLooks(x) \/ StopKills(x) \/ StopRemoves(x) \/ StopLost(x) \/ StopReturns(x) \/ StopFails(x)
      PROVE AloneOK'
  <2>1. \A r \in Starts : StartUnder(r)' => StartUnder(r)
    BY <1>6 DEF StopLooks, StopKills, StopRemoves, StopLost, StopReturns, StopFails, StartUnder
  <2>2. \A y \in Stops : StopUnder(y)' => StopUnder(y)
    BY <1>6 DEF StopLooks, StopKills, StopRemoves, StopLost, StopReturns, StopFails, StopUnder,
                ScriptInv, StageTypes
  <2>3. crossed' = crossed /\ halting' = halting
    BY <1>6 DEF StopLooks, StopKills, StopRemoves, StopLost, StopReturns, StopFails
  <2> QED
    BY <1>0, <2>1, <2>2, <2>3, AloneStays
<1> QED
  BY <1>1, <1>2, <1>3, <1>4, <1>5, <1>6 DEF ServingNext

\* Nobody else has a live process when a start finds no pid to forbid it.
LEMMA NobodyRuns ==
    ASSUME RunIsKnown, ScriptInv, NEW k \in Scripts, ~AlreadyRunning(k)
    PROVE  \A q \in alive \ crossed : ScriptOf[q] = k => shell[q] # "over"
BY ServingAssumption DEF RunIsKnown, AlreadyRunning, ScriptInv, NameTypes

LEMMA LaunchStep == ScriptInv /\ ServingNext => LaunchOK'
<1> SUFFICES ASSUME ScriptInv, ServingNext PROVE LaunchOK'
  OBVIOUS
<1> USE DEF dashboard, node, stopVars
<1>0. LaunchOK /\ AloneOK /\ ShellOK
  BY DEF ScriptInv
<1>1. ASSUME UNCHANGED shell, alive' \subseteq alive, crossed \subseteq crossed' PROVE LaunchOK'
  BY <1>0, <1>1 DEF LaunchOK
<1>2. ASSUME NEW r \in Starts, StartSent(r) PROVE LaunchOK'
  <2>1. shell' = [shell EXCEPT ![r] = "sent"] /\ alive' = alive /\ crossed \subseteq crossed'
    BY <1>2 DEF StartSent
  <2> QED
    BY <1>0, <2>1 DEF LaunchOK, ScriptInv, StageTypes
<1>3. ASSUME NEW r \in Starts, ShellRefuses(r) \/ ShellLost(r) PROVE LaunchOK'
  <2>1. /\ shell' = [shell EXCEPT ![r] = "over"] /\ alive' = alive /\ crossed' = crossed
        /\ r \notin alive
    BY <1>0, <1>3 DEF ShellRefuses, ShellLost, ShellOK
  <2> QED
    BY <1>0, <2>1 DEF LaunchOK, ScriptInv, StageTypes
<1>4. ASSUME NEW r \in Starts, ShellLaunches(r) PROVE LaunchOK'
  <2>1. /\ shell' = [shell EXCEPT ![r] = "launched"] /\ alive' = alive \union {r} /\ crossed' = crossed
        /\ ~AlreadyRunning(ScriptOf[r])
    BY <1>4 DEF ShellLaunches
  <2>2. \A q \in alive \ crossed : ScriptOf[q] = ScriptOf[r] => shell[q] # "over"
    BY <2>1, NobodyRuns, ServingAssumption DEF ScriptInv
  <2> QED
    BY <1>0, <2>1, <2>2 DEF LaunchOK, ScriptInv, StageTypes, NameTypes
<1>5. ASSUME NEW r \in Starts, ShellWritesPid(r) PROVE LaunchOK'
  <2>1. /\ shell[r] = "launched" /\ shell' = [shell EXCEPT ![r] = "over"]
        /\ alive' = alive /\ crossed' = crossed
    BY <1>5 DEF ShellWritesPid
  <2>2. ASSUME NEW q \in Starts, shell'[q] = "launched", r \notin crossed, ScriptOf[r] = ScriptOf[q]
        PROVE  FALSE
    BY <1>0, <2>1, <2>2 DEF AloneOK, StartUnder, ScriptInv, StageTypes
  <2> QED
    BY <1>0, <2>1, <2>2 DEF LaunchOK, ScriptInv, StageTypes
<1>6. \/ \E r \in Starts : StartSent(r) \/ ShellRefuses(r) \/ ShellLost(r) \/ ShellLaunches(r) \/ ShellWritesPid(r)
      \/ UNCHANGED shell /\ alive' \subseteq alive /\ crossed \subseteq crossed'
  BY DEF ServingNext, DashboardRestarts, StartBegins, StartRefused, StartReturns, ProcessEnds,
         StopSent, StopLooks, StopKills, StopRemoves, StopLost, StopReturns, StopFails
<1> QED
  BY <1>1, <1>2, <1>3, <1>4, <1>5, <1>6

LEMMA HaltStep == ScriptInv /\ ServingNext => HaltOK'
<1> SUFFICES ASSUME ScriptInv, ServingNext PROVE HaltOK'
  OBVIOUS
<1> USE DEF dashboard, node, stopVars
<1>0. HaltOK /\ AloneOK /\ ShellOK /\ RunIsKnown
  BY DEF ScriptInv
<1>1. ASSUME UNCHANGED <<halting, halt, found>>, alive' \subseteq alive, crossed \subseteq crossed',
             \A x \in Stops : haltStage'[x] = "sent" => haltStage[x] = "sent"
      PROVE HaltOK'
  BY <1>0, <1>1 DEF HaltOK
<1>2. ASSUME NEW r \in Starts, ShellLaunches(r) PROVE HaltOK'
  <2>1. /\ shell[r] = "sent" /\ alive' = alive \union {r} /\ crossed' = crossed
        /\ UNCHANGED <<halting, haltStage, halt, found>>
    BY <1>2 DEF ShellLaunches
  <2>2. r \notin crossed => \A x \in Stops : halting[x] = ScriptOf[r] => ~StopUnder(x)
    BY <1>0, <2>1 DEF AloneOK, StartUnder
  <2> QED
    BY <1>0, <2>1, <2>2 DEF HaltOK, StopUnder
<1>3. ASSUME NEW x \in Stops, NEW k \in Scripts, StopSent(x, k) PROVE HaltOK'
  <2>1. /\ haltStage' = [haltStage EXCEPT ![x] = "sent"] /\ halting' = [halting EXCEPT ![x] = k]
        /\ halt' = [halt EXCEPT ![x] = "sent"] /\ crossed \subseteq crossed'
        /\ alive' = alive /\ found' = found
    BY <1>3 DEF StopSent
  <2> QED
    BY <1>0, <2>1 DEF HaltOK, ScriptInv, StageTypes, NameTypes
<1>4. ASSUME NEW x \in Stops, StopLooks(x) PROVE HaltOK'
  <2> DEFINE k == halting[x]
  <2>1. /\ halt[x] = "sent" /\ UNCHANGED <<alive, crossed, halting, haltStage>>
        /\ halt' = [halt EXCEPT ![x] = IF AlreadyRunning(k) THEN "found" ELSE "killed"]
        /\ found' = [found EXCEPT ![x] = IF AlreadyRunning(k) THEN pid[k] ELSE None]
    BY <1>4 DEF StopLooks
  <2>2. ASSUME NEW q \in alive \ crossed, ScriptOf[q] = k PROVE AlreadyRunning(k) /\ q = pid[k]
    <3>1. q \in Starts /\ k \in Scripts /\ q # None
      BY <2>2, ServingAssumption DEF ScriptInv, NameTypes
    <3>2. shell[q] = "over"
      BY <1>0, <2>1, <2>2, <3>1 DEF AloneOK, ShellOK, StartUnder, StopUnder
    <3> QED
      BY <1>0, <2>2, <3>1, <3>2 DEF RunIsKnown, AlreadyRunning
  <2> HIDE DEF k
  <2>3. ASSUME NEW y \in Stops, NEW q \in alive \ crossed, ScriptOf[q] = halting[y], y # x
        PROVE  halt'[y] = halt[y] /\ found'[y] = found[y]
    BY <2>1, <2>3 DEF ScriptInv, StageTypes, NameTypes
  <2>4. halt'[x] = IF AlreadyRunning(k) THEN "found" ELSE "killed"
    BY <2>1 DEF ScriptInv, StageTypes
  <2>5. found'[x] = IF AlreadyRunning(k) THEN pid[k] ELSE None
    BY <2>1 DEF ScriptInv, NameTypes
  <2>6. \A q \in alive \ crossed : ScriptOf[q] = halting[x] => AlreadyRunning(k) /\ q = pid[k]
    BY <2>2 DEF k
  <2> QED
    BY <1>0, <2>1, <2>3, <2>4, <2>5, <2>6 DEF HaltOK
<1>5. ASSUME NEW x \in Stops, StopKills(x) PROVE HaltOK'
  BY <1>0, <1>5 DEF StopKills, HaltOK, ScriptInv, StageTypes
<1>6. ASSUME NEW x \in Stops, StopRemoves(x) PROVE HaltOK'
  BY <1>0, <1>6 DEF StopRemoves, HaltOK, ScriptInv, StageTypes
<1>7. ASSUME NEW x \in Stops, StopLost(x) PROVE HaltOK'
  BY <1>0, <1>7 DEF StopLost, HaltOK, ScriptInv, StageTypes
<1>8. \/ \E r \in Starts : ShellLaunches(r)
      \/ \E x \in Stops : (\E k \in Scripts : StopSent(x, k)) \/ StopLooks(x) \/ StopKills(x) \/ StopRemoves(x) \/ StopLost(x)
      \/ /\ UNCHANGED <<halting, halt, found>> /\ alive' \subseteq alive /\ crossed \subseteq crossed'
         /\ \A x \in Stops : haltStage'[x] = "sent" => haltStage[x] = "sent"
  BY DEF ServingNext, DashboardRestarts, StartBegins, StartRefused, StartSent, StartReturns, ProcessEnds,
         ShellRefuses, ShellWritesPid, ShellLost, StopReturns, StopFails, ScriptInv, StageTypes
<1> QED
  BY <1>1, <1>2, <1>3, <1>4, <1>5, <1>6, <1>7, <1>8

LEMMA PortStep == ScriptInv /\ ServingNext => PortOK'
<1> SUFFICES ASSUME ScriptInv, ServingNext PROVE PortOK'
  OBVIOUS
<1> USE DEF dashboard, node, stopVars
<1>0. PortOK /\ AloneOK /\ ShellOK /\ HaltOK
  BY DEF ScriptInv
<1>1. ASSUME UNCHANGED <<shell, runPort>>, alive' \subseteq alive, crossed \subseteq crossed' PROVE PortOK'
  BY <1>0, <1>1 DEF PortOK
<1>2. ASSUME NEW r \in Starts, StartSent(r) PROVE PortOK'
  <2>1. /\ shell' = [shell EXCEPT ![r] = "sent"] /\ alive' = alive /\ crossed \subseteq crossed'
        /\ runPort' = [runPort EXCEPT ![ScriptOf[r]] = r]
    BY <1>2 DEF StartSent
  <2>2. r # None /\ \A q \in Starts : ScriptOf[q] \in Scripts
    BY ServingAssumption
  <2> QED
    BY <1>0, <2>1, <2>2 DEF PortOK, ScriptInv, StageTypes, NameTypes
<1>3. ASSUME NEW r \in Starts, ShellRefuses(r) \/ ShellLost(r) PROVE PortOK'
  BY <1>0, <1>3 DEF ShellRefuses, ShellLost, PortOK, ScriptInv, StageTypes
<1>4. ASSUME NEW r \in Starts, ShellLaunches(r) \/ ShellWritesPid(r) PROVE PortOK'
  BY <1>0, <1>4 DEF ShellLaunches, ShellWritesPid, PortOK, ScriptInv, StageTypes
<1>5. ASSUME NEW x \in Stops, StopReturns(x) PROVE PortOK'
  <2>1. /\ haltStage[x] = "sent" /\ halt[x] = "over" /\ UNCHANGED <<shell, alive, crossed>>
        /\ runPort' = [runPort EXCEPT ![halting[x]] = None]
    BY <1>5 DEF StopReturns, PortForgotten
  <2> SUFFICES ASSUME NEW r \in Starts \ crossed, shell[r] \in {"sent", "launched"} \/ r \in alive
               PROVE  runPort'[ScriptOf[r]] # None
    BY <2>1 DEF PortOK
  <2>2. halting[x] # ScriptOf[r]
    BY <1>0, <2>1 DEF AloneOK, HaltOK, StartUnder, StopUnder, ScriptInv, NameTypes
  <2> QED
    BY <1>0, <2>1, <2>2, ServingAssumption DEF PortOK, ScriptInv, NameTypes
<1>6. \/ \E r \in Starts : StartSent(r) \/ ShellRefuses(r) \/ ShellLost(r) \/ ShellLaunches(r) \/ ShellWritesPid(r)
      \/ \E x \in Stops : StopReturns(x)
      \/ UNCHANGED <<shell, runPort>> /\ alive' \subseteq alive /\ crossed \subseteq crossed'
  BY DEF ServingNext, DashboardRestarts, StartBegins, StartRefused, StartReturns, ProcessEnds,
         StopSent, StopLooks, StopKills, StopRemoves, StopLost, StopFails
<1> QED
  BY <1>1, <1>2, <1>3, <1>4, <1>5, <1>6

LEMMA KnownStep == ScriptInv /\ ServingNext => RunIsKnown'
<1> SUFFICES ASSUME ScriptInv, ServingNext PROVE RunIsKnown'
  OBVIOUS
<1> USE DEF dashboard, node, stopVars
<1>0. RunIsKnown /\ AloneOK /\ ShellOK /\ HaltOK /\ LaunchOK /\ PortOK'
  BY PortStep DEF ScriptInv
<1>1. ASSUME UNCHANGED <<shell, pid>>, alive' \subseteq alive, crossed \subseteq crossed' PROVE RunIsKnown'
  BY <1>0, <1>1 DEF RunIsKnown, PortOK, ScriptInv, NameTypes
<1>2. ASSUME NEW r \in Starts, StartSent(r) \/ ShellRefuses(r) \/ ShellLost(r) PROVE RunIsKnown'
  <2>1. /\ shell'[r] \in {"sent", "over"} /\ \A q \in Starts : q # r => shell'[q] = shell[q]
        /\ r \notin alive /\ alive' = alive /\ crossed \subseteq crossed' /\ pid' = pid
    BY <1>0, <1>2 DEF StartSent, ShellRefuses, ShellLost, ShellOK, ScriptInv, StageTypes
  <2> QED
    BY <1>0, <2>1 DEF RunIsKnown, PortOK, ScriptInv, NameTypes
<1>3. ASSUME NEW r \in Starts, ShellLaunches(r) PROVE RunIsKnown'
  <2>1. /\ shell' = [shell EXCEPT ![r] = "launched"] /\ alive' = alive \union {r}
        /\ crossed' = crossed /\ pid' = pid
    BY <1>3 DEF ShellLaunches
  <2> QED
    BY <1>0, <2>1 DEF RunIsKnown, PortOK, ScriptInv, StageTypes, NameTypes
<1>4. ASSUME NEW r \in Starts, ShellWritesPid(r) PROVE RunIsKnown'
  <2>1. /\ shell[r] = "launched" /\ shell' = [shell EXCEPT ![r] = "over"]
        /\ pid' = [pid EXCEPT ![ScriptOf[r]] = r] /\ alive' = alive /\ crossed' = crossed
    BY <1>4 DEF ShellWritesPid
  <2>2. ASSUME NEW q \in alive \ crossed, shell'[q] = "over" PROVE pid'[ScriptOf[q]] = q
    <3>1. q \in Starts /\ \A z \in Starts : ScriptOf[z] \in Scripts
      BY <2>2, ServingAssumption DEF ScriptInv, NameTypes
    <3>2. CASE q = r
      BY <2>1, <3>1, <3>2 DEF ScriptInv, NameTypes
    <3>3. CASE q # r
      <4>1. shell[q] = "over"
        BY <2>1, <2>2, <3>1, <3>3 DEF ScriptInv, StageTypes
      <4>2. ScriptOf[q] # ScriptOf[r]
        BY <1>0, <2>1, <3>3, <4>1 DEF LaunchOK
      <4> QED
        BY <1>0, <2>1, <3>1, <4>1, <4>2 DEF RunIsKnown, ScriptInv, NameTypes
    <3> QED
      BY <3>2, <3>3
  <2> QED
    BY <1>0, <2>1, <2>2 DEF RunIsKnown, PortOK, ScriptInv, NameTypes
<1>5. ASSUME NEW x \in Stops, StopRemoves(x) PROVE RunIsKnown'
  <2>1. /\ halt[x] = "killed" /\ pid' = [pid EXCEPT ![halting[x]] = None]
        /\ UNCHANGED <<shell, alive, crossed>>
    BY <1>5 DEF StopRemoves
  <2>2. \A q \in alive \ crossed : ScriptOf[q] # halting[x]
    BY <1>0, <2>1 DEF HaltOK
  <2>3. \A q \in Starts : ScriptOf[q] \in Scripts
    BY ServingAssumption
  <2> QED
    BY <1>0, <2>1, <2>2, <2>3 DEF RunIsKnown, PortOK, ScriptInv, NameTypes
<1>6. \/ \E r \in Starts : StartSent(r) \/ ShellRefuses(r) \/ ShellLost(r) \/ ShellLaunches(r) \/ ShellWritesPid(r)
      \/ \E x \in Stops : StopRemoves(x)
      \/ UNCHANGED <<shell, pid>> /\ alive' \subseteq alive /\ crossed \subseteq crossed'
  BY DEF ServingNext, DashboardRestarts, StartBegins, StartRefused, StartReturns, ProcessEnds,
         StopSent, StopLooks, StopKills, StopLost, StopReturns, StopFails
<1> QED
  BY <1>1, <1>2, <1>3, <1>4, <1>5, <1>6

LEMMA ScriptNextInv == ScriptInv /\ [ServingNext]_servingVars => ScriptInv'
<1> SUFFICES ASSUME ScriptInv, [ServingNext]_servingVars PROVE ScriptInv'
  OBVIOUS
<1>1. CASE ServingNext
  BY <1>1, StageTypesStep, NameTypesStep, CountTypesStep, ShellStep, AloneStep, LaunchStep, HaltStep,
     PortStep, KnownStep DEF ScriptInv
<1>2. CASE UNCHANGED servingVars
  <2>1. UNCHANGED <<stage, starting, runPort, paths, shell, alive, pid, halting, haltStage, halt, found, restarts, crossed>>
    BY <1>2 DEF servingVars, dashboard, node, stopVars
  <2>2. StageTypes' /\ NameTypes' /\ CountTypes'
    BY <2>1 DEF ScriptInv, StageTypes, NameTypes, CountTypes
  <2>3. ShellOK' /\ AloneOK' /\ LaunchOK' /\ HaltOK' /\ PortOK' /\ RunIsKnown'
    BY <2>1 DEF ScriptInv, ShellOK, AloneOK, LaunchOK, HaltOK, PortOK, RunIsKnown, StartUnder, StopUnder
  <2> QED
    BY <2>2, <2>3 DEF ScriptInv
<1> QED
  BY <1>1, <1>2

LEMMA ScriptHolds == ScriptInv => ServingTypeOK /\ OneInstance /\ RunIsKnown
<1> SUFFICES ASSUME ScriptInv PROVE ServingTypeOK /\ OneInstance /\ RunIsKnown
  OBVIOUS
<1>1. ServingTypeOK
  BY DEF ScriptInv, ServingTypeOK, StageTypes, NameTypes, CountTypes
<1>2. OneInstance
  <2> SUFFICES ASSUME NEW r \in alive \ crossed, NEW q \in alive \ crossed, ScriptOf[r] = ScriptOf[q], r # q
               PROVE  FALSE
    BY DEF OneInstance
  <2>1. r \in Starts /\ q \in Starts /\ shell[r] \in {"launched", "over"} /\ shell[q] \in {"launched", "over"}
    BY DEF ScriptInv, ShellOK, NameTypes
  <2>2. CASE shell[r] = "launched"
    BY <2>1, <2>2 DEF ScriptInv, LaunchOK, AloneOK, StartUnder
  <2>3. CASE shell[q] = "launched"
    BY <2>1, <2>3 DEF ScriptInv, LaunchOK, AloneOK, StartUnder
  <2>4. CASE shell[r] = "over" /\ shell[q] = "over"
    BY <2>1, <2>4 DEF ScriptInv, RunIsKnown
  <2> QED
    BY <2>1, <2>2, <2>3, <2>4
<1> QED
  BY <1>1, <1>2 DEF ScriptInv

LEMMA ScriptStops ==
    ScriptInv /\ [ServingNext]_servingVars =>
        \A x \in Stops : haltStage[x] = "sent" /\ haltStage'[x] = "stopped" =>
            \A r \in alive \ crossed : ScriptOf[r] = halting[x] => shell[r] # "over"
<1> SUFFICES ASSUME ScriptInv, [ServingNext]_servingVars,
                    NEW x \in Stops, haltStage[x] = "sent", haltStage'[x] = "stopped",
                    NEW r \in alive \ crossed, ScriptOf[r] = halting[x]
             PROVE  FALSE
  OBVIOUS
<1>1. ServingNext
  BY DEF servingVars, stopVars
<1>2. StopReturns(x)
  BY <1>1 DEF ServingNext, DashboardRestarts, StartBegins, StartRefused, StartSent, StartReturns, ProcessEnds,
       ShellRefuses, ShellLaunches, ShellWritesPid, ShellLost, StopSent, StopLooks, StopKills, StopRemoves,
       StopLost, StopReturns, StopFails, stopVars, ScriptInv, StageTypes
<1> QED
  BY <1>2 DEF StopReturns, ScriptInv, HaltOK

-----------------------------------------------------------------------------
(* ModelStock: the proof *)

LEMMA StockInitInv == StockInit => StockInv
<1> SUFFICES ASSUME StockInit PROVE StockInv
  OBVIOUS
<1> USE StockAssumption DEF StockInit, Places
<1>1. StockTypes
  BY DEF StockTypes, NoCell, Told, Rows, Cells
<1>2. AskTypes
  BY DEF AskTypes, NoAnswer, Answer, Verdicts, Plans, Phases, Told, Rows
<1>3. JobOK
  BY DEF JobOK, NoJob
<1>4. FreshOK /\ AskOrder /\ BlockedIsProven
  BY DEF FreshOK, AskOrder, BlockedIsProven, Usable, NoCell, Rows, Exact, NoAnswer
<1> QED
  BY <1>1, <1>2, <1>3, <1>4 DEF StockInv

\* What a request that turns to some cells leaves of them.
LEMMA LookTypes ==
    ASSUME StockTypes, AskTypes, NEW r \in Asks, NEW C \in SUBSET Cells, Look(r, C)
    PROVE  /\ cells' \in [Cells -> [age : {"gone", "fresh", "stale"}, value : Told]]
           /\ reading' \in [Asks -> [Cells -> Told \cup {"no", "listing"}]]
           /\ seen' \in [Asks -> [Cells -> Told \cup {"unread"}]]
<1> USE DEF StockTypes, AskTypes, Look
<1>1. \A c \in Cells : cells'[c] \in [age : {"gone", "fresh", "stale"}, value : Told]
  BY DEF AfterError, Told
<1>2. ASSUME NEW c \in Cells
      PROVE (CASE c \in C /\ Hit(r, c)     -> cells[c].value
               [] c \in C /\ Missing(r, c) -> "error"
               [] c \in C /\ ~Hit(r, c) /\ ~Missing(r, c) -> "unread"
               [] OTHER                    -> seen[r][c]) \in Told \cup {"unread"}
  BY DEF Told, Missing
<1> QED
  BY <1>1, <1>2

LEMMA LookKeeps ==
    ASSUME StockTypes, AskTypes, NEW r \in Asks, NEW C \in SUBSET Cells, Look(r, C)
    PROVE  /\ \A c \in Cells : cells'[c] = cells[c] \/ (cells'[c].value = "error" /\ c \in C)
           /\ \A q \in Asks \ {r} : reading'[q] = reading[q] /\ seen'[q] = seen[q]
           /\ \A c \in Cells : reading'[r][c] = reading[r][c] \/ (reading'[r][c] = "listing" /\ c \in C)
           /\ \A c \in Cells \ C : seen'[r][c] = seen[r][c]
<1> USE DEF StockTypes, AskTypes, Look
<1>1. \A c \in Cells : cells'[c] = cells[c] \/ (cells'[c].value = "error" /\ c \in C)
  BY DEF AfterError, Missing
<1>2. \A q \in Asks \ {r} : reading'[q] = reading[q] /\ seen'[q] = seen[q]
  OBVIOUS
<1>3. \A c \in Cells : reading'[r][c] = reading[r][c] \/ (reading'[r][c] = "listing" /\ c \in C)
  OBVIOUS
<1>4. \A c \in Cells \ C : seen'[r][c] = seen[r][c]
  OBVIOUS
<1> QED
  BY <1>1, <1>2, <1>3, <1>4

\* The cells that a request turns to are cells.
LEMMA LooksAreCells ==
    ASSUME NEW r \in Asks, wish \in Wishes
    PROVE  /\ wish[r].place \in Cells /\ wish[r].kind \in {"start", "script", "list", "matrix"}
           /\ wish[r].forced \in BOOLEAN
           /\ wish[r].kind # "list" => wish[r].place \in Nodes
           /\ Nodes \subseteq Cells /\ {Nas} \subseteq Cells /\ Places \subseteq Cells
           /\ \A p : Peers(p) \subseteq Nodes
BY StockAssumption DEF Cells, Places, Peers

Quiet == UNCHANGED <<wish, stock, catalog, tools, job, jobs, faults, behind>>

\* The three ways of turning to cells.
LEMMA Looking ==
    ASSUME StockInv, NEW r \in Asks, Begins(r) \/ AsksOthers(r) \/ AsksNas(r)
    PROVE  /\ Quiet
           /\ \/ UNCHANGED <<cells, reading, seen>>
              \/ \E C \in SUBSET Cells : Look(r, C)
<1>1. CASE Begins(r)
  BY <1>1, LooksAreCells DEF Begins, Quiet, StockInv, StockTypes
<1>2. CASE AsksOthers(r)
  BY <1>2, LooksAreCells DEF AsksOthers, Quiet, StockInv, StockTypes
<1>3. CASE AsksNas(r)
  BY <1>3, LooksAreCells DEF AsksNas, Quiet, StockInv, StockTypes
<1> QED
  BY <1>1, <1>2, <1>3

\* The answers of one request.
LEMMA Answering ==
    ASSUME AskTypes, NEW r \in Asks, NEW v \in Verdicts, NEW pl \in Plans, NEW fr \in Places,
           Answers(r, v, pl, fr)
    PROVE  /\ ask' \in [Asks -> [phase : Phases, answer : Answer]]
           /\ \A q \in Asks \ {r} : ask'[q] = ask[q]
           /\ ask'[r].phase = "done" /\ ask'[r].answer.verdict = v
           /\ ask'[r].answer.plan = pl /\ ask'[r].answer.from = fr
<1> DEFINE tight == /\ wish[r].kind = "start" /\ (v = "blocked" \/ wish[r].forced)
                    /\ wish[r].place \in Tight /\ seen[r][Nas] = "full"
           busy == wish[r].kind = "start" /\ job # NoJob /\ job.at = wish[r].place
           new == [phase |-> "done",
                   answer |-> [verdict |-> v, plan |-> pl, from |-> fr, tight |-> tight, busy |-> busy]]
<1>1. ask' = [ask EXCEPT ![r] = new]
  BY DEF Answers
<1>2. tight \in BOOLEAN /\ busy \in BOOLEAN
  BY DEF AskTypes
<1> HIDE DEF tight, busy
<1>3. new \in [phase : Phases, answer : Answer]
  BY <1>2 DEF Phases, Answer
<1>4. ask'[r] = new
  BY <1>1 DEF AskTypes
<1>5. new.phase = "done" /\ new.answer.verdict = v /\ new.answer.plan = pl /\ new.answer.from = fr
  OBVIOUS
<1> HIDE DEF new
<1> QED
  BY <1>1, <1>3, <1>4, <1>5 DEF AskTypes

LEMMA Turning ==
    ASSUME AskTypes, NEW r \in Asks, NEW ph \in Phases, Turns(r, ph)
    PROVE  /\ ask' \in [Asks -> [phase : Phases, answer : Answer]]
           /\ \A q \in Asks \ {r} : ask'[q] = ask[q]
           /\ ask'[r].phase = ph
BY DEF AskTypes, Turns

\* What happens to a request's phase and answer.
LEMMA BeginsAsk ==
    ASSUME StockInv, NEW r \in Asks, Begins(r) \/ AsksOthers(r) \/ AsksNas(r)
    PROVE  /\ ask' \in [Asks -> [phase : Phases, answer : Answer]]
           /\ \A q \in Asks \ {r} : ask'[q] = ask[q]
           /\ \/ ask'[r].phase = "done" /\ ask'[r].answer.verdict = "refused"
                 /\ UNCHANGED <<cells, reading, seen>> /\ ask[r].phase = "idle"
              \/ ask'[r].phase \in {"first", "peers", "nas"} /\ ask[r].phase # "done"
<1> USE DEF StockInv
<1>0. "refused" \in Verdicts /\ "none" \in Plans /\ Nas \in Places /\ {"first", "peers", "nas"} \subseteq Phases
  BY DEF Verdicts, Plans, Places, Phases
<1>1. CASE Begins(r) /\ Answers(r, "refused", "none", Nas) /\ UNCHANGED <<wish, seen, reading, cells>>
  BY <1>0, <1>1, Answering DEF Begins
<1>2. CASE Begins(r) /\ Turns(r, "first")
  BY <1>0, <1>2, Turning DEF Begins
<1>3. CASE AsksOthers(r)
  <2>1. Turns(r, "peers") \/ Turns(r, "nas")
    BY <1>3 DEF AsksOthers
  <2> QED
    BY <1>0, <1>3, <2>1, Turning DEF AsksOthers, Waits
<1>4. CASE AsksNas(r)
  BY <1>0, <1>4, Turning DEF AsksNas, Waits
<1> QED
  BY <1>1, <1>2, <1>3, <1>4 DEF Begins

\* A step that changes no store and fills no cell keeps what is exact.
LEMMA FreshStays ==
    ASSUME FreshOK, UNCHANGED <<stock, catalog, job, behind>>,
           \A c \in Cells : cells'[c] = cells[c] \/ cells'[c].value = "error",
           \A r \in Asks, c \in Cells : reading'[r][c] = reading[r][c] \/ reading'[r][c] \notin Rows
    PROVE  FreshOK'
<1> SUFFICES ASSUME NEW c \in Exact, ~Changing(c)
             PROVE  /\ Usable(c)' /\ cells'[c].value # "error" => cells'[c].value = Source(c)
                    /\ \A r \in Asks : reading'[r][c] \in Rows => reading'[r][c] = Source(c)
  BY DEF FreshOK, Exact, Changing, Source
<1>1. c \in Cells
  BY DEF Exact
<1> QED
  BY <1>1 DEF FreshOK, Usable

\* A blocked answer stays true of what its request was told.
LEMMA BlockedStays ==
    ASSUME BlockedIsProven, UNCHANGED wish,
           \A q \in Asks : ask'[q].phase = "done" /\ ask'[q].answer.verdict = "blocked" =>
               ask'[q] = ask[q] /\ seen'[q] = seen[q]
    PROVE  BlockedIsProven'
BY DEF BlockedIsProven, Has

LEMMA LookStep ==
    ASSUME StockInv, NEW r \in Asks, Begins(r) \/ AsksOthers(r) \/ AsksNas(r)
    PROVE  StockInv'
<1> USE DEF StockInv
<1>1. Quiet /\ (UNCHANGED <<cells, reading, seen>> \/ \E C \in SUBSET Cells : Look(r, C))
  BY Looking
<1>2. /\ \A c \in Cells : cells'[c] = cells[c] \/ cells'[c].value = "error"
      /\ \A q \in Asks \ {r} : reading'[q] = reading[q] /\ seen'[q] = seen[q]
      /\ \A c \in Cells : reading'[r][c] = reading[r][c] \/ reading'[r][c] = "listing"
  BY <1>1, LookKeeps
<1>3. /\ cells' \in [Cells -> [age : {"gone", "fresh", "stale"}, value : Told]]
      /\ reading' \in [Asks -> [Cells -> Told \cup {"no", "listing"}]]
      /\ seen' \in [Asks -> [Cells -> Told \cup {"unread"}]]
  <2>1. CASE UNCHANGED <<cells, reading, seen>>
    BY <2>1 DEF StockTypes, AskTypes
  <2>2. CASE \E C \in SUBSET Cells : Look(r, C)
    BY <2>2, LookTypes
  <2> QED
    BY <1>1, <2>1, <2>2
<1>4. /\ ask' \in [Asks -> [phase : Phases, answer : Answer]]
      /\ \A q \in Asks \ {r} : ask'[q] = ask[q]
      /\ \/ ask'[r].phase = "done" /\ ask'[r].answer.verdict = "refused"
            /\ UNCHANGED <<cells, reading, seen>> /\ ask[r].phase = "idle"
         \/ ask'[r].phase \in {"first", "peers", "nas"} /\ ask[r].phase # "done"
  BY BeginsAsk
<1>5. StockTypes' /\ AskTypes'
  BY <1>1, <1>3, <1>4 DEF StockTypes, AskTypes, Quiet
<1>6. JobOK'
  BY <1>1 DEF JobOK, Quiet
<1>7. FreshOK'
  BY <1>1, <1>2, FreshStays DEF Quiet, Rows
<1>8. BlockedIsProven'
  BY <1>1, <1>2, <1>4, BlockedStays DEF Quiet
<1>9. ASSUME ask'[r].phase \in {"peers", "nas"}, wish[r].kind = "start"
      PROVE  reading'[r][wish[r].place] = "no" /\ seen'[r][wish[r].place] \in {"none", "bare"}
  <2> DEFINE p == wish[r].place
  <2>1. p \in Nodes /\ p \in Cells /\ p # Nas /\ p \notin Peers(p) /\ Nodes \subseteq Cells /\ Nas \in Cells
    BY <1>9, LooksAreCells, StockAssumption DEF Peers, StockTypes
  <2>2. ASSUME AsksOthers(r) PROVE reading'[r][p] = "no" /\ seen'[r][p] \in {"none", "bare"}
    <3>1. Look(r, Peers(p)) /\ reading[r][p] = "no" /\ seen[r][p] \in {"none", "bare"}
      BY <1>9, <2>1, <2>2 DEF AsksOthers, Waits, Reads, Absent, ProvenAbsent
    <3>2. Peers(p) \in SUBSET Cells
      BY <2>1, LooksAreCells DEF StockTypes
    <3> QED
      BY <2>1, <3>1, <3>2, LookKeeps
  <2>3. ASSUME AsksNas(r) PROVE reading'[r][p] = "no" /\ seen'[r][p] \in {"none", "bare"}
    <3>1. Look(r, {Nas}) /\ ask[r].phase = "peers"
      BY <1>9, <2>3 DEF AsksNas, Waits
    <3>2. reading[r][p] = "no" /\ seen[r][p] \in {"none", "bare"}
      BY <1>9, <3>1 DEF AskOrder
    <3>3. p \notin {Nas} /\ {Nas} \in SUBSET Cells
      BY <2>1
    <3> QED
      BY <2>1, <3>1, <3>2, <3>3, LookKeeps
  <2>4. ~Begins(r)
    BY <1>9 DEF Begins, Turns, Answers, AskTypes
  <2> QED
    BY <2>2, <2>3, <2>4
<1>10. AskOrder'
  <2> SUFFICES ASSUME NEW q \in Asks
               PROVE  /\ ask'[q].phase \in {"idle", "done"} => \A c \in Cells : reading'[q][c] = "no"
                      /\ ask'[q].phase \in {"peers", "nas"} /\ wish[q].kind = "start" =>
                            reading'[q][wish[q].place] = "no" /\ seen'[q][wish[q].place] \in {"none", "bare"}
    BY <1>1 DEF AskOrder, Quiet
  <2>1. CASE q = r
    BY <1>4, <1>9, <2>1 DEF AskOrder
  <2>2. CASE q # r
    BY <1>2, <1>4, <2>2 DEF AskOrder
  <2> QED
    BY <2>1, <2>2
<1> QED
  BY <1>5, <1>6, <1>7, <1>8, <1>10

LEMMA AnswerStep ==
    ASSUME StockInv, NEW r \in Asks, Passes(r) \/ Present(r) \/ Shows(r) \/ Blocks(r)
    PROVE  StockInv'
<1> USE DEF StockInv
<1>1. /\ UNCHANGED <<wish, stock, catalog, cells, tools, reading, seen, job, jobs, faults, behind>>
      /\ Reads(r) = {}
  BY DEF Passes, Present, Shows, Blocks, Waits
<1>2. PICK v \in Verdicts, pl \in Plans, fr \in Places :
         /\ Answers(r, v, pl, fr)
         /\ v = "blocked" => Blocks(r)
  <2>1. CASE Passes(r) \/ Present(r) \/ Shows(r)
    BY <2>1 DEF Passes, Present, Shows, Verdicts, Plans, Places
  <2>2. CASE Blocks(r)
    <3> DEFINE p == wish[r].place
               from == CHOOSE q \in Peers(p) : Has(r, q)
               fr == IF Plan(r, p) = "push" THEN from ELSE Nas
    <3>1. Plan(r, p) \in Plans /\ (Plan(r, p) = "push" => \E q \in Peers(p) : Has(r, q))
      BY DEF Plan, Plans
    <3>2. fr \in Places
      BY <3>1 DEF Places, Peers
    <3>3. Answers(r, "blocked", Plan(r, p), fr)
      BY <2>2 DEF Blocks
    <3> QED
      BY <2>2, <3>1, <3>2, <3>3 DEF Verdicts
  <2> QED
    BY <2>1, <2>2
<1>3. /\ ask' \in [Asks -> [phase : Phases, answer : Answer]]
      /\ \A q \in Asks \ {r} : ask'[q] = ask[q]
      /\ ask'[r].phase = "done" /\ ask'[r].answer.verdict = v
      /\ ask'[r].answer.plan = pl /\ ask'[r].answer.from = fr
  BY <1>2, Answering
<1>4. StockTypes' /\ AskTypes'
  BY <1>1, <1>3 DEF StockTypes, AskTypes
<1>5. JobOK' /\ FreshOK'
  BY <1>1, FreshStays DEF JobOK
<1>6. \A c \in Cells : reading[r][c] = "no"
  BY <1>1 DEF Reads
<1>7. AskOrder'
  BY <1>1, <1>3, <1>6 DEF AskOrder
<1>8. ASSUME v = "blocked"
      PROVE  LET p == wish[r].place IN
             /\ wish[r].kind = "start" => seen[r][p] \in {"none", "bare"}
             /\ pl = "sync" => Has(r, Nas)
             /\ pl = "push" => Has(r, fr) /\ ~Has(r, Nas)
             /\ pl = "unavailable" /\ seen[r][p] # "bare" => \A q \in Places : seen[r][q] # "full"
             /\ pl = "present" /\ wish[r].kind = "start" => seen[r][p] = "bare"
  <2> DEFINE p == wish[r].place
             from == CHOOSE q \in Peers(p) : Has(r, q)
  <2>1. Blocks(r) /\ Starting(r) /\ Waits(r, "nas")
    BY <1>2, <1>8 DEF Blocks
  <2>2. Answers(r, "blocked", Plan(r, p), IF Plan(r, p) = "push" THEN from ELSE Nas)
    BY <2>1 DEF Blocks
  <2>3. p \in Nodes
    BY <2>1, LooksAreCells DEF Starting, StockTypes
  <2>4. /\ ask'[r].answer.plan = Plan(r, p)
        /\ ask'[r].answer.from = IF Plan(r, p) = "push" THEN from ELSE Nas
    BY <2>2 DEF Answers, AskTypes
  <2>5. pl = Plan(r, p) /\ fr = IF Plan(r, p) = "push" THEN from ELSE Nas
    BY <1>3, <2>4
  <2>6. wish[r].kind = "start" => seen[r][p] \in {"none", "bare"}
    BY <2>1 DEF AskOrder, Waits
  <2>7. pl = "sync" => Has(r, Nas)
    BY <2>5 DEF Plan
  <2>8. pl = "push" => Has(r, fr) /\ ~Has(r, Nas)
    <3> SUFFICES ASSUME pl = "push" PROVE Has(r, fr) /\ ~Has(r, Nas)
      OBVIOUS
    <3>1. ~Has(r, Nas) /\ \E q \in Peers(p) : Has(r, q)
      BY <2>5 DEF Plan
    <3>2. Has(r, from)
      BY <3>1
    <3> QED
      BY <2>5, <3>1, <3>2
  <2>9. pl = "unavailable" /\ seen[r][p] # "bare" => \A q \in Places : seen[r][q] # "full"
    BY <2>3, <2>5 DEF Plan, Named, Has, Peers, Places
  <2>10. pl = "present" /\ wish[r].kind = "start" => seen[r][p] = "bare"
    BY <2>5, <2>6 DEF Plan, Has
  <2> QED
    BY <2>6, <2>7, <2>8, <2>9, <2>10
<1>9. BlockedIsProven'
  <2> SUFFICES ASSUME NEW q \in Asks, ask'[q].phase = "done" /\ ask'[q].answer.verdict = "blocked"
               PROVE  LET p == wish[q].place IN
                      /\ wish[q].kind = "start" => seen[q][p] \in {"none", "bare"}
                      /\ ask'[q].answer.plan = "sync" => Has(q, Nas)
                      /\ ask'[q].answer.plan = "push" => Has(q, ask'[q].answer.from) /\ ~Has(q, Nas)
                      /\ ask'[q].answer.plan = "unavailable" /\ seen[q][p] # "bare" => \A z \in Places : seen[q][z] # "full"
                      /\ ask'[q].answer.plan = "present" /\ wish[q].kind = "start" => seen[q][p] = "bare"
    BY <1>1 DEF BlockedIsProven, Has
  <2>1. CASE q = r
    BY <1>3, <1>8, <2>1
  <2>2. CASE q # r
    BY <1>3, <2>2 DEF BlockedIsProven
  <2> QED
    BY <2>1, <2>2
<1> QED
  BY <1>4, <1>5, <1>7, <1>9

LEMMA ReadStep ==
    ASSUME StockInv, NEW r \in Asks, NEW c \in Cells, NotFound(r, c) \/ Listed(r, c) \/ Cached(r, c)
    PROVE  StockInv'
<1> USE DEF StockInv
<1>1. UNCHANGED <<wish, stock, catalog, ask, job, jobs, behind>>
  BY DEF NotFound, Listed, Cached
<1>2. /\ reading[r][c] # "no"
      /\ \A q \in Asks, d \in Cells : q # r \/ d # c => reading'[q][d] = reading[q][d] /\ seen'[q][d] = seen[q][d]
      /\ \A d \in Cells \ {c} : cells'[d] = cells[d]
  BY DEF NotFound, Listed, Cached, Told, Rows, StockTypes, AskTypes
<1>3. Source(c) \in Rows
  BY StockAssumption DEF Source, StockTypes, Places
<1>4. /\ reading' \in [Asks -> [Cells -> Told \cup {"no", "listing"}]]
      /\ seen' \in [Asks -> [Cells -> Told \cup {"unread"}]]
  <2>1. PICK v \in Told \cup {"no", "listing"} : reading' = [reading EXCEPT ![r][c] = v]
    BY <1>3 DEF NotFound, Listed, Cached, Told
  <2>2. CASE NotFound(r, c) \/ Cached(r, c)
    <3>1. PICK u \in Told : seen' = [seen EXCEPT ![r][c] = u]
      BY <2>2 DEF NotFound, Cached, Told
    <3> QED
      BY <2>1, <3>1 DEF AskTypes
  <2>3. CASE Listed(r, c)
    BY <2>1, <2>3 DEF Listed, AskTypes
  <2> QED
    BY <2>2, <2>3
<1>5. cells' \in [Cells -> [age : {"gone", "fresh", "stale"}, value : Told]]
  BY DEF NotFound, Listed, Cached, AfterError, Told, StockTypes
<1>6. tools' \in [Places -> {"unknown", "no", "yes"}]
  BY DEF NotFound, Listed, Cached, StockTypes
<1>7. StockTypes' /\ AskTypes' /\ JobOK'
  BY <1>1, <1>4, <1>5, <1>6 DEF StockTypes, AskTypes, JobOK
<1>8. ASSUME c \in Exact, ~Changing(c)
      PROVE  /\ Usable(c)' /\ cells'[c].value # "error" => cells'[c].value = Source(c)
             /\ reading'[r][c] \in Rows => reading'[r][c] = Source(c)
  <2>1. /\ Usable(c) /\ cells[c].value # "error" => cells[c].value = Source(c)
        /\ reading[r][c] \in Rows => reading[r][c] = Source(c)
    BY <1>8 DEF FreshOK
  <2>2. CASE NotFound(r, c)
    BY <2>1, <2>2 DEF NotFound, AfterError, StockTypes, AskTypes, Rows
  <2>3. CASE Listed(r, c)
    BY <2>1, <2>3 DEF Listed, StockTypes, AskTypes, Rows, Usable
  <2>4. CASE Cached(r, c)
    BY <2>1, <2>4 DEF Cached, AfterError, StockTypes, AskTypes, Rows, Told, Usable
  <2> QED
    BY <2>2, <2>3, <2>4
<1>9. FreshOK'
  <2> SUFFICES ASSUME NEW d \in Exact, ~Changing(d)
               PROVE  /\ Usable(d)' /\ cells'[d].value # "error" => cells'[d].value = Source(d)
                      /\ \A q \in Asks : reading'[q][d] \in Rows => reading'[q][d] = Source(d)
    BY <1>1 DEF FreshOK, Exact, Changing, Source
  <2>1. d \in Cells
    BY DEF Exact
  <2> QED
    BY <1>2, <1>8, <2>1 DEF FreshOK, Usable
<1>10. AskOrder'
  <2> SUFFICES ASSUME NEW q \in Asks
               PROVE  /\ ask[q].phase \in {"idle", "done"} => \A d \in Cells : reading'[q][d] = "no"
                      /\ ask[q].phase \in {"peers", "nas"} /\ wish[q].kind = "start" =>
                            reading'[q][wish[q].place] = "no" /\ seen'[q][wish[q].place] \in {"none", "bare"}
    BY <1>1 DEF AskOrder
  <2>1. wish[q].place \in Cells
    BY LooksAreCells DEF StockTypes
  <2> QED
    BY <1>2, <2>1 DEF AskOrder
<1>11. BlockedIsProven'
  <2>1. ASSUME NEW q \in Asks, ask[q].phase = "done" PROVE seen'[q] = seen[q]
    <3>1. q # r
      BY <1>2, <2>1 DEF AskOrder
    <3> QED
      BY <3>1 DEF NotFound, Listed, Cached, AskTypes
  <2> QED
    BY <1>1, <2>1, BlockedStays
<1> QED
  BY <1>7, <1>9, <1>10, <1>11

LEMMA AgeStep == ASSUME StockInv, NEW c \in Cells, Aged(c) PROVE StockInv'
<1> USE DEF StockInv
<1>1. UNCHANGED <<wish, stock, catalog, tools, ask, reading, seen, job, jobs, behind>>
  BY DEF Aged
<1>2. /\ cells[c].age \in {"fresh", "stale"}
      /\ cells' = [cells EXCEPT ![c] = IF @.age = "fresh" THEN [@ EXCEPT !.age = "stale"] ELSE NoCell]
  BY DEF Aged, Usable
<1>3. /\ cells' \in [Cells -> [age : {"gone", "fresh", "stale"}, value : Told]]
      /\ cells'[c].age = "gone" \/ cells'[c].value = cells[c].value
      /\ \A d \in Cells \ {c} : cells'[d] = cells[d]
  BY <1>2 DEF StockTypes, NoCell, Told, Rows
<1>4. StockTypes' /\ AskTypes' /\ JobOK'
  BY <1>1, <1>3 DEF StockTypes, AskTypes, JobOK
<1>5. FreshOK'
  <2> SUFFICES ASSUME NEW d \in Exact, ~Changing(d)
               PROVE  /\ Usable(d)' /\ cells'[d].value # "error" => cells'[d].value = Source(d)
                      /\ \A q \in Asks : reading[q][d] \in Rows => reading[q][d] = Source(d)
    BY <1>1 DEF FreshOK, Exact, Changing, Source
  <2>1. d \in Cells
    BY DEF Exact
  <2> QED
    BY <1>2, <1>3, <2>1 DEF FreshOK, Usable
<1>6. AskOrder' /\ BlockedIsProven'
  BY <1>1, BlockedStays DEF AskOrder
<1> QED
  BY <1>4, <1>5, <1>6

LEMMA JobStartStep ==
    ASSUME StockInv, NEW k \in Transfers, NEW at \in Places, NEW to \in Places, JobStarts(k, at, to)
    PROVE  StockInv'
<1> USE DEF StockInv
<1>1. UNCHANGED <<wish, stock, catalog, cells, tools, ask, reading, seen, faults, behind>>
  BY DEF JobStarts
<1>2. job = NoJob /\ job' = [kind |-> k, at |-> at, to |-> to, phase |-> "running"]
  BY DEF JobStarts
<1>3. StockTypes' /\ AskTypes'
  BY <1>1 DEF StockTypes, AskTypes
<1>4. JobOK'
  BY <1>2 DEF JobStarts, JobOK, StoreKinds, Peers
<1>5. FreshOK'
  <2>1. \A c : ~Changing(c)
    BY <1>2 DEF Changing, NoJob
  <2>2. Exact' = Exact /\ \A c : Source(c)' = Source(c) /\ Usable(c)' = Usable(c)
    BY <1>1 DEF Exact, Source, Usable
  <2> QED
    BY <1>1, <2>1, <2>2 DEF FreshOK
<1>6. AskOrder' /\ BlockedIsProven'
  BY <1>1, BlockedStays DEF AskOrder
<1> QED
  BY <1>3, <1>4, <1>5, <1>6

LEMMA JobWorkStep == ASSUME StockInv, JobWorks PROVE StockInv'
<1> USE DEF StockInv
<1>1. UNCHANGED <<wish, cells, tools, ask, reading, seen, jobs, behind>>
  BY DEF JobWorks
<1>2. /\ job.phase = "running" /\ job' = [job EXCEPT !.phase = "worked"]
      /\ stock' = [stock EXCEPT ![job.to] = Brings(job.kind)]
      /\ catalog' = catalog \/ catalog' = Brings(job.kind)
  BY DEF JobWorks
<1>3. Brings(job.kind) \in Rows /\ job.to \in Places
  BY DEF Brings, JobOK, StockTypes, Rows, Places
<1>4. StockTypes' /\ AskTypes'
  BY <1>1, <1>2, <1>3 DEF StockTypes, AskTypes
<1>5. JobOK' /\ job'.kind = job.kind /\ job'.to = job.to /\ job'.phase = "worked"
  BY <1>2 DEF JobOK
<1>6. FreshOK'
  <2> SUFFICES ASSUME NEW c \in Exact, ~Changing(c)'
               PROVE  /\ Usable(c) /\ cells[c].value # "error" => cells[c].value = Source(c)'
                      /\ \A q \in Asks : reading[q][c] \in Rows => reading[q][c] = Source(c)'
    BY <1>1 DEF FreshOK, Exact, Usable
  <2>1. ~Changing(c)
    BY <1>2 DEF Changing
  <2>2. c \notin Touched(job.kind, job.to)
    BY <1>5 DEF Changing
  <2>3. c # job.to /\ (c \notin Places => Nas # job.to)
    <3>1. job.to = Nas => job.kind \in StoreKinds
      BY <1>2, StockAssumption DEF JobOK
    <3> QED
      BY <2>2, <3>1 DEF Touched, Exact, Cells
  <2>4. \A p \in Places : p # job.to => stock'[p] = stock[p]
    BY <1>2 DEF StockTypes
  <2>5. c # "catalog" /\ Nas \in Places
    BY DEF Exact, Places
  <2>6. Source(c)' = Source(c)
    BY <2>3, <2>4, <2>5 DEF Source
  <2> QED
    BY <2>1, <2>6 DEF FreshOK
<1>7. AskOrder' /\ BlockedIsProven'
  BY <1>1, BlockedStays DEF AskOrder
<1> QED
  BY <1>4, <1>5, <1>6, <1>7

LEMMA JobEndStep == ASSUME StockInv, JobEnds PROVE StockInv'
<1> USE DEF StockInv
<1> DEFINE dropped == Drops(job.kind, job.at)
           changed == IF job.phase = "worked" THEN Touched(job.kind, job.to) ELSE {}
<1>1. UNCHANGED <<wish, stock, catalog, ask, reading, seen, jobs, faults>>
  BY DEF JobEnds
<1>2. /\ job' = NoJob /\ job.phase \in {"running", "worked"}
      /\ cells' = [c \in Cells |-> IF c \in dropped THEN NoCell ELSE cells[c]]
      /\ tools' = [p \in Places |-> IF p = job.at THEN "unknown" ELSE tools[p]]
      /\ behind' = (behind \ {c \in dropped : ~UnderWay(c)})
                    \cup {c \in changed : UnderWay(c)}
                    \cup {c \in changed : job.kind = "push" \/ (c \in Shelves /\ job.kind # "queue")}
  BY DEF JobEnds
<1>3. changed \subseteq Cells
  BY DEF JobOK, Touched, Cells
<1> HIDE DEF dropped, changed
<1>4. StockTypes' /\ AskTypes'
  <2>0. NoCell \in [age : {"gone", "fresh", "stale"}, value : Told]
    BY DEF NoCell, Told, Rows
  <2>1. cells' \in [Cells -> [age : {"gone", "fresh", "stale"}, value : Told]]
    BY <1>2, <2>0 DEF StockTypes
  <2>2. tools' \in [Places -> {"unknown", "no", "yes"}]
    BY <1>2 DEF StockTypes
  <2>3. behind' \subseteq Cells
    BY <1>2, <1>3 DEF StockTypes
  <2> QED
    BY <1>1, <2>1, <2>2, <2>3 DEF StockTypes, AskTypes
<1>5. JobOK'
  BY <1>2 DEF JobOK, NoJob, Places
<1>6. ASSUME NEW c \in changed, c \notin dropped PROVE c \in behind'
  <2>1. job.phase = "worked" /\ c \in Touched(job.kind, job.to)
    BY <1>6 DEF changed
  <2>2. job.kind = "push" \/ (c \in Shelves /\ job.kind # "queue")
    BY <1>6, <2>1 DEF JobOK, Touched, Drops, dropped, StoreKinds
  <2> QED
    BY <1>2, <1>6, <2>2
<1>7. FreshOK'
  <2> SUFFICES ASSUME NEW c \in Cells, c \notin behind', c # "catalog"
               PROVE  /\ Usable(c)' /\ cells'[c].value # "error" => cells'[c].value = Source(c)
                      /\ \A q \in Asks : reading[q][c] \in Rows => reading[q][c] = Source(c)
    BY <1>1 DEF FreshOK, Exact, Source
  <2>1. CASE c \in dropped /\ ~UnderWay(c)
    <3>1. ~Usable(c)'
      BY <1>2, <2>1 DEF Usable, NoCell
    <3>2. \A q \in Asks : reading[q][c] \notin Rows
      BY <2>1 DEF UnderWay, Told
    <3> QED
      BY <3>1, <3>2
  <2>2. CASE c \notin dropped \/ UnderWay(c)
    <3>1. c \notin behind /\ c \notin changed
      BY <1>2, <1>6, <2>2
    <3>2. c \in Exact /\ ~Changing(c)
      BY <3>1 DEF Exact, Changing, changed
    <3>3. Usable(c)' => cells'[c] = cells[c]
      BY <1>2 DEF Usable, NoCell
    <3> QED
      BY <3>2, <3>3 DEF FreshOK, Usable
  <2> QED
    BY <2>1, <2>2
<1>8. AskOrder' /\ BlockedIsProven'
  BY <1>1, BlockedStays DEF AskOrder
<1> QED
  BY <1>4, <1>5, <1>7, <1>8

LEMMA ByHandStep ==
    ASSUME StockInv, NEW p \in Places, NEW row \in {"none", "full"}, ByHand(p, row)
    PROVE  StockInv'
<1> USE DEF StockInv
<1>1. UNCHANGED <<wish, catalog, cells, tools, ask, reading, seen, job, jobs>>
  BY DEF ByHand
<1>2. /\ stock' = [stock EXCEPT ![p] = row]
      /\ behind' = behind \cup {p} \cup (IF p = Nas THEN Shelves ELSE {})
  BY DEF ByHand
<1>3. StockTypes' /\ AskTypes' /\ JobOK'
  BY <1>1, <1>2 DEF StockTypes, AskTypes, JobOK, Rows, Cells
<1>4. FreshOK'
  <2> SUFFICES ASSUME NEW c \in Exact', ~Changing(c)
               PROVE  /\ Usable(c) /\ cells[c].value # "error" => cells[c].value = Source(c)'
                      /\ \A q \in Asks : reading[q][c] \in Rows => reading[q][c] = Source(c)'
    BY <1>1 DEF FreshOK, Changing, Usable
  <2>1. c \in Exact /\ c # p /\ (c \notin Places => Nas # p)
    BY <1>2 DEF Exact, Cells, Shelves
  <2>2. Source(c)' = Source(c)
    BY <1>2, <2>1 DEF Source, Exact, StockTypes, Places
  <2> QED
    BY <2>1, <2>2 DEF FreshOK
<1>5. AskOrder' /\ BlockedIsProven'
  BY <1>1, BlockedStays DEF AskOrder
<1> QED
  BY <1>3, <1>4, <1>5

LEMMA StockNextInv == StockInv /\ [StockNext]_stockVars => StockInv'
<1> SUFFICES ASSUME StockInv, [StockNext]_stockVars PROVE StockInv'
  OBVIOUS
<1>1. CASE StockNext
  BY <1>1, LookStep, AnswerStep, ReadStep, AgeStep, JobStartStep, JobWorkStep, JobEndStep, ByHandStep
     DEF StockNext
<1>2. CASE UNCHANGED stockVars
  <2>1. UNCHANGED <<wish, stock, catalog, cells, tools, ask, reading, seen, job, jobs, faults, behind>>
    BY <1>2 DEF stockVars
  <2>2. StockTypes' /\ AskTypes' /\ JobOK'
    BY <2>1 DEF StockInv, StockTypes, AskTypes, JobOK
  <2>3. FreshOK' /\ AskOrder' /\ BlockedIsProven'
    BY <2>1, FreshStays, BlockedStays DEF StockInv, AskOrder
  <2> QED
    BY <2>2, <2>3 DEF StockInv
<1> QED
  BY <1>1, <1>2

LEMMA StockHolds == StockInv => StockTypeOK /\ InventoryIsFresh /\ BlockedIsProven
<1> SUFFICES ASSUME StockInv PROVE StockTypeOK /\ InventoryIsFresh
  BY DEF StockInv
<1>1. StockTypeOK
  BY DEF StockInv, StockTypes, AskTypes, StockTypeOK
<1>2. InventoryIsFresh
  BY DEF StockInv, FreshOK, InventoryIsFresh, Exact, Changing, Usable
<1> QED
  BY <1>1, <1>2

-----------------------------------------------------------------------------
(* BenchStreams: the proof *)

\* The words in which a request is asked: the last but one leave out all that
\* can be left out.
LEMMA BodiesAre ==
    ASSUME benchKind \in {"decode", "prefill"}
    PROVE  /\ Len(Bodies) \in Nat /\ Len(Bodies) >= 2 /\ DOMAIN Bodies = 1..Len(Bodies)
           /\ Bodies[Len(Bodies) - 1] = {"template"}
<1>1. CASE benchKind = "prefill"
  <2>1. Bodies = <<{"template"}, {"template", "switch"}>>
    BY <1>1 DEF Bodies
  <2> QED
    BY <2>1
<1>2. CASE benchKind = "decode"
  <2>1. Bodies = <<{"template", "force"}, {"template", "switch", "force"}, {"template"}, {"template", "switch"}>>
    BY <1>2 DEF Bodies
  <2> QED
    BY <2>1
<1> QED
  BY <1>1, <1>2

LEMMA WavesAre ==
    ASSUME benchKind \in {"decode", "prefill"}, NEW n \in 1..Len(Waves)
    PROVE  Concurrency(n) \in Nat \ {0} /\ Len(Waves) \in Nat
BY BenchAssumption, ElementOfSeq, LenProperties DEF Concurrency

LEMMA OffIsStream == Off \in Stream /\ Asked \in Stream /\ Off.st = "off" /\ Asked.st = "asked"
                     /\ Off.try = 1 /\ Asked.try = 1 /\ Off.error = "none" /\ Asked.error = "none"
BY BenchAssumption DEF Off, Asked, Stream

\* A stream that has only been asked its first words.
LEMMA AskedAtMost ==
    ASSUME BenchTypes, UNCHANGED <<benchKind, refused>>,
           stream' \in [MaxStreams -> {Off, Asked}],
           (\E i \in MaxStreams : stream'[i] = Asked) => phase' = "waving"
    PROVE  StreamsOK'
<1>1. Bodies' = Bodies
  BY DEF Bodies
<1>2. 1 \in DOMAIN Bodies
  BY BodiesAre DEF BenchTypes
<1>3. 1..(1 - 1) = {}
  OBVIOUS
<1> QED
  BY <1>1, <1>2, <1>3, OffIsStream DEF StreamsOK, Live

LEMMA BenchInitInv == BenchInit => BenchInv
<1> SUFFICES ASSUME BenchInit PROVE BenchInv
  OBVIOUS
<1>1. BenchTypes
  <2>1. Len(Waves) \in Nat
    BY BenchAssumption, LenProperties
  <2>2. results \in Seq([ok : Nat, failed : Nat])
    BY EmptySeq DEF BenchInit
  <2>3. level \in 0..Len(Waves)
    BY <2>1 DEF BenchInit
  <2> QED
    BY <2>2, <2>3 DEF BenchInit, BenchTypes
<1>2. StreamsOK
  <2>1. 1 \in DOMAIN Bodies
    BY <1>1, BodiesAre DEF BenchTypes
  <2>2. 1..(1 - 1) = {}
    OBVIOUS
  <2> QED
    BY <2>1, <2>2, OffIsStream DEF BenchInit, AllOff, StreamsOK, Live
<1>3. PhaseOK /\ RowsOK /\ CutIsDropped
  BY EmptySeq, BenchAssumption, LenProperties DEF BenchInit, PhaseOK, RowsOK, CutIsDropped
<1> QED
  BY <1>1, <1>2, <1>3 DEF BenchInv

\* What is said of the job alone.
JobOfBench == <<benchKind, refused, phase, level, abort, target, outcome, results, reported>>

LEMMA JobStays ==
    ASSUME BenchInv, UNCHANGED JobOfBench, waveTimedOut' \in BOOLEAN
    PROVE  BenchTypes' /\ PhaseOK' /\ RowsOK' /\ CutIsDropped'
<1>1. UNCHANGED <<benchKind, refused, phase, level, abort, target, outcome, results, reported>>
  BY DEF JobOfBench
<1>2. \A n : Concurrency(n)' = Concurrency(n)
  BY <1>1 DEF Concurrency
<1> QED
  BY <1>1, <1>2 DEF BenchInv, BenchTypes, PhaseOK, RowsOK, CutIsDropped

\* A stream goes on.
LEMMA StreamStep ==
    ASSUME BenchInv, NEW i \in MaxStreams, NEW rec \in Stream,
           StreamIs(i, rec),
           rec.try \in DOMAIN Bodies,
           \A m \in 1..(rec.try - 1) : Bodies[m] \cap refused # {},
           rec.error = "400" => "template" \in refused,
           Live(i)
    PROVE  BenchInv'
<1>1. stream' = [stream EXCEPT ![i] = rec] /\ UNCHANGED JobOfBench /\ UNCHANGED waveTimedOut
  BY DEF StreamIs, Streams, JobOfBench
<1>2. phase = "waving" /\ UNCHANGED <<benchKind, refused, phase>>
  BY <1>1 DEF BenchInv, StreamsOK, JobOfBench
<1>3. Bodies' = Bodies
  BY <1>2 DEF Bodies
<1>4. StreamsOK'
  BY <1>1, <1>2, <1>3 DEF BenchInv, StreamsOK, Live
<1>5. waveTimedOut' \in BOOLEAN
  BY <1>1 DEF BenchInv, BenchTypes
<1> QED
  BY <1>1, <1>4, <1>5, JobStays DEF BenchInv

\* The ways in which a stream goes on in its words.
LEMMA StreamGoesOn ==
    ASSUME NEW x \in Stream
    PROVE  \A rec \in {[x EXCEPT !.st = "open"], [x EXCEPT !.st = "done"],
                       [x EXCEPT !.st = "done", !.error = "failed"],
                       [x EXCEPT !.st = "done", !.error = "aborted"]} :
              rec \in Stream /\ rec.try = x.try /\ (rec.error = "400" => x.error = "400")
<1>1. [x EXCEPT !.st = "open"] \in Stream /\ [x EXCEPT !.st = "done"] \in Stream
  BY DEF Stream
<1>2. [x EXCEPT !.st = "done", !.error = "failed"] \in Stream
  BY DEF Stream
<1>3. [x EXCEPT !.st = "done", !.error = "aborted"] \in Stream
  BY DEF Stream
<1>4. \A rec \in {[x EXCEPT !.st = "open"], [x EXCEPT !.st = "done"],
                  [x EXCEPT !.st = "done", !.error = "failed"],
                  [x EXCEPT !.st = "done", !.error = "aborted"]} :
         rec.try = x.try /\ (rec.error = "400" => x.error = "400")
  BY DEF Stream
<1> QED
  BY <1>1, <1>2, <1>3, <1>4

LEMMA PieceGoesOn ==
    ASSUME NEW x \in Stream, x.pieces < MaxPieces
    PROVE  LET rec == [x EXCEPT !.pieces = @ + 1]
           IN  rec \in Stream /\ rec.try = x.try /\ rec.error = x.error
<1>1. x.pieces + 1 \in 0..MaxPieces
  BY BenchAssumption DEF Stream
<1> QED
  BY <1>1 DEF Stream

LEMMA StreamSteps ==
    ASSUME BenchInv, NEW i \in MaxStreams,
           Accepts(i) \/ Refuses(i) \/ Piece(i) \/ StreamEnds(i) \/ StreamFails(i) \/ StreamTimesOut(i)
    PROVE  BenchInv'
<1>0. /\ stream[i] \in Stream /\ stream[i].try \in DOMAIN Bodies
      /\ \A m \in 1..(stream[i].try - 1) : Bodies[m] \cap refused # {}
      /\ stream[i].error = "400" => "template" \in refused
  BY DEF BenchInv, StreamsOK
<1>1. CASE Accepts(i) \/ Piece(i) \/ StreamEnds(i) \/ StreamFails(i) \/ StreamTimesOut(i)
  <2>1. PICK rec \in Stream : /\ StreamIs(i, rec) /\ rec.try = stream[i].try
                              /\ rec.error = "400" => stream[i].error = "400"
    <3>1. CASE Accepts(i)
      BY <1>0, <3>1, StreamGoesOn DEF Accepts
    <3>2. CASE Piece(i)
      BY <1>0, <3>2, PieceGoesOn DEF Piece
    <3>3. CASE StreamEnds(i)
      BY <1>0, <3>3, StreamGoesOn DEF StreamEnds
    <3>4. CASE StreamFails(i)
      BY <1>0, <3>4, StreamGoesOn DEF StreamFails
    <3>5. CASE StreamTimesOut(i)
      BY <1>0, <3>5, StreamGoesOn DEF StreamTimesOut, TimesOut, Aborted
    <3> QED
      BY <1>1, <3>1, <3>2, <3>3, <3>4, <3>5
  <2>2. Live(i)
    BY <1>1 DEF Accepts, Piece, StreamEnds, StreamFails, StreamTimesOut, TimesOut, Live
  <2> QED
    BY <1>0, <2>1, <2>2, StreamStep
<1>2. CASE Refuses(i)
  <2>0. /\ Len(Bodies) \in Nat /\ Len(Bodies) >= 2 /\ DOMAIN Bodies = 1..Len(Bodies)
        /\ Bodies[Len(Bodies) - 1] = {"template"}
    BY BodiesAre DEF BenchInv, BenchTypes
  <2>1. Live(i) /\ stream[i].st = "asked" /\ Bodies[stream[i].try] \cap refused # {}
    BY <1>2 DEF Refuses, Live
  <2>2. CASE stream[i].try < Len(Bodies)
    <3> DEFINE rec == [stream[i] EXCEPT !.try = @ + 1]
    <3>1. StreamIs(i, rec)
      BY <1>2, <2>2 DEF Refuses
    <3>2. rec \in Stream /\ rec.try = stream[i].try + 1 /\ rec.error = stream[i].error
      BY <1>0 DEF Stream
    <3>3. \A m \in 1..(rec.try - 1) : Bodies[m] \cap refused # {}
      BY <1>0, <2>0, <2>1, <3>2
    <3>4. rec.try \in DOMAIN Bodies
      BY <1>0, <2>0, <2>2, <3>2
    <3> HIDE DEF rec
    <3> QED
      BY <1>0, <2>1, <3>1, <3>2, <3>3, <3>4, StreamStep
  <2>3. CASE ~(stream[i].try < Len(Bodies))
    <3> DEFINE rec == [stream[i] EXCEPT !.st = "done", !.error = "400"]
    <3>1. StreamIs(i, rec)
      BY <1>2, <2>3 DEF Refuses
    <3>2. rec \in Stream /\ rec.try = stream[i].try
      BY <1>0 DEF Stream
    <3>3. "template" \in refused
      <4>1. Len(Bodies) - 1 \in 1..(stream[i].try - 1)
        BY <1>0, <2>0, <2>3
      <4> QED
        BY <1>0, <2>0, <4>1
    <3> HIDE DEF rec
    <3> QED
      BY <1>0, <2>1, <3>1, <3>2, <3>3, StreamStep
  <2> QED
    BY <2>2, <2>3
<1> QED
  BY <1>1, <1>2

LEMMA AbortedStreams ==
    ASSUME BenchInv, stream' = AllAborted, UNCHANGED <<benchKind, refused>>
    PROVE  StreamsOK'
<1>1. Bodies' = Bodies
  BY DEF Bodies
<1>2. ASSUME NEW i \in MaxStreams
      PROVE  /\ stream'[i] \in Stream /\ stream'[i].try = stream[i].try
             /\ stream'[i].error = "400" => stream[i].error = "400"
             /\ stream'[i].st \notin {"asked", "open"}
  <2>1. stream[i] \in Stream /\ stream'[i] = Aborted(i)
    BY DEF AllAborted, BenchInv, StreamsOK
  <2>2. CASE Live(i)
    <3>1. stream'[i] = [stream[i] EXCEPT !.st = "done", !.error = "aborted"]
      BY <2>1, <2>2 DEF Aborted
    <3>2. stream'[i].st = "done"
      BY <2>1, <3>1 DEF Stream
    <3> QED
      BY <2>1, <3>1, <3>2, StreamGoesOn
  <2>3. CASE ~Live(i)
    BY <2>1, <2>3 DEF Aborted, Live
  <2> QED
    BY <2>2, <2>3
<1>3. stream' \in [MaxStreams -> Stream]
  BY <1>2 DEF AllAborted
<1> QED
  BY <1>1, <1>2, <1>3 DEF BenchInv, StreamsOK, Live

LEMMA AbortSteps ==
    ASSUME BenchInv, WaveTimesOut \/ CancelBench \/ InterruptBench
    PROVE  BenchInv'
<1>1. StreamsOK'
  BY AbortedStreams DEF WaveTimesOut, CancelBench, InterruptBench
<1>2. CASE WaveTimesOut
  <2>1. UNCHANGED JobOfBench /\ waveTimedOut' \in BOOLEAN
    BY <1>2 DEF WaveTimesOut, JobOfBench
  <2> QED
    BY <1>1, <2>1, JobStays DEF BenchInv
<1>3. CASE CancelBench \/ InterruptBench
  <2>1. /\ UNCHANGED <<benchKind, refused, phase, level, waveTimedOut, results>>
        /\ outcome = "running" /\ abort' = TRUE
        /\ \/ outcome' = outcome /\ reported' = reported /\ target' = target
           \/ outcome' = "failed" /\ reported' = "failed" /\ target' = Closed(target)
    BY <1>3 DEF CancelBench, InterruptBench
  <2>2. phase # "over"
    BY <2>1 DEF BenchInv, PhaseOK
  <2>3. \A n : Concurrency(n)' = Concurrency(n)
    BY <2>1 DEF Concurrency
  <2>4. BenchTypes'
    BY <2>1 DEF BenchInv, BenchTypes, Closed
  <2>5. PhaseOK'
    BY <2>1, <2>2 DEF BenchInv, PhaseOK, Closed
  <2>6. RowsOK' /\ CutIsDropped'
    BY <2>1, <2>2, <2>3 DEF BenchInv, RowsOK, CutIsDropped
  <2> QED
    BY <1>1, <2>4, <2>5, <2>6 DEF BenchInv
<1> QED
  BY <1>2, <1>3

\* The loop goes on from rows that are in order: to its next level, or to its end.
LEMMA GoesOn ==
    ASSUME BenchInv, phase # "over",
           NEW rows \in Seq([ok : Nat, failed : Nat]), Goes(rows),
           Len(rows) <= level, ~abort => Len(rows) = level, level = 0 => rows = <<>>,
           \A n \in DOMAIN rows : rows[n].ok + rows[n].failed = Concurrency(n),
           abort /\ level > 0 /\ Len(rows) = level => rows[level].failed = 0,
           target' \in {"none", "open", "closed"}, phase' = "over" => target' # "open"
    PROVE  BenchInv'
<1>1. UNCHANGED <<benchKind, refused, abort>> /\ results' = rows /\ waveTimedOut' = FALSE
  BY DEF Goes
<1>2. \A n : Concurrency(n)' = Concurrency(n)
  BY <1>1 DEF Concurrency
<1>3. Len(rows) \in Nat /\ level \in Nat /\ level <= Len(Waves) /\ Len(Waves) \in Nat
  BY LenProperties, BenchAssumption DEF BenchInv, BenchTypes
<1>4. CASE phase' = "over"
  <2>1. /\ level' = level /\ reported' = outcome' /\ stream' = AllOff
        /\ \/ abort /\ outcome' = Settles("cancelled")
           \/ ~abort /\ level = Len(Waves) /\ outcome' = Settles("completed")
    BY <1>4 DEF Goes, Returns
  <2>2. outcome' \in {"completed", "failed", "cancelled"} /\ (outcome' = "completed" => ~abort /\ level = Len(Waves))
    BY <2>1 DEF Settles, BenchInv, BenchTypes, PhaseOK, RowsOK
  <2>3. BenchTypes'
    BY <1>1, <1>4, <2>1, <2>2 DEF BenchInv, BenchTypes
  <2>4. StreamsOK'
    <3>1. stream' \in [MaxStreams -> {Off, Asked}] /\ ~\E i \in MaxStreams : stream'[i] = Asked
      BY <2>1, OffIsStream DEF AllOff
    <3> QED
      BY <1>1, <3>1, AskedAtMost DEF BenchInv
  <2>5. PhaseOK'
    BY <1>1, <1>3, <1>4, <2>1, <2>2 DEF PhaseOK
  <2>6. RowsOK' /\ CutIsDropped'
    BY <1>1, <1>2, <1>3, <1>4, <2>1, <2>2 DEF RowsOK, CutIsDropped
  <2> QED
    BY <2>3, <2>4, <2>5, <2>6 DEF BenchInv
<1>5. CASE phase' # "over"
  <2>1. /\ ~abort /\ level < Len(Waves) /\ phase' = "waving" /\ level' = level + 1
        /\ stream' = [i \in MaxStreams |-> IF i <= Concurrency(level + 1) THEN Asked ELSE Off]
        /\ UNCHANGED <<outcome, reported>>
    BY <1>5 DEF Goes, Returns
  <2>2. BenchTypes'
    <3>1. level + 1 \in 0..Len(Waves)
      BY <1>3, <2>1
    <3> QED
      BY <1>1, <2>1, <3>1 DEF BenchInv, BenchTypes
  <2>3. StreamsOK'
    BY <1>1, <2>1, AskedAtMost DEF BenchInv
  <2>4. outcome = "running"
    BY <2>1 DEF BenchInv, PhaseOK
  <2>5. PhaseOK'
    BY <1>1, <1>3, <2>1, <2>4 DEF BenchInv, PhaseOK
  <2>6. RowsOK' /\ CutIsDropped'
    BY <1>1, <1>2, <2>1, <2>4 DEF RowsOK, CutIsDropped
  <2> QED
    BY <2>2, <2>3, <2>5, <2>6 DEF BenchInv
<1> QED
  BY <1>4, <1>5

LEMMA ResolveSteps ==
    ASSUME BenchInv, (\E via \in {"none", "open"} : TargetResolves(via)) \/ Unresolved
    PROVE  BenchInv'
<1>0. phase = "resolving" /\ level = 0 /\ results = <<>> /\ target = "none"
  BY DEF TargetResolves, Unresolved, BenchInv, PhaseOK
<1>1. ASSUME NEW via \in {"none", "open"}, TargetResolves(via), abort PROVE BenchInv'
  <2>1. Goes(results) /\ target' = Closed(via)
    BY <1>1 DEF TargetResolves
  <2>2. results \in Seq([ok : Nat, failed : Nat]) /\ Len(results) = 0 /\ DOMAIN results = {}
    BY <1>0, EmptySeq DEF BenchInv, BenchTypes
  <2>3. target' \in {"none", "open", "closed"} /\ target' # "open"
    BY <2>1 DEF Closed
  <2>4. /\ phase # "over" /\ Len(results) <= level /\ (~abort => Len(results) = level)
        /\ level = 0 => results = <<>>
        /\ \A n \in DOMAIN results : results[n].ok + results[n].failed = Concurrency(n)
        /\ abort /\ level > 0 /\ Len(results) = level => results[level].failed = 0
    BY <1>0, <1>1, <2>2
  <2> QED
    BY <2>1, <2>2, <2>3, <2>4, GoesOn
<1>2. ASSUME NEW via \in {"none", "open"}, TargetResolves(via), ~abort PROVE BenchInv'
  <2>1. /\ phase' = "warming" /\ target' = via
        /\ UNCHANGED <<benchKind, refused, level, stream, abort, waveTimedOut, outcome, results, reported>>
    BY <1>2 DEF TargetResolves
  <2>2. \A n : Concurrency(n)' = Concurrency(n)
    BY <2>1 DEF Concurrency
  <2>3. Bodies' = Bodies
    BY <2>1 DEF Bodies
  <2>4. BenchTypes'
    BY <2>1 DEF BenchInv, BenchTypes
  <2>5. StreamsOK'
    BY <1>0, <2>1, <2>3 DEF BenchInv, StreamsOK, Live
  <2>6. PhaseOK' /\ RowsOK' /\ CutIsDropped'
    BY <1>0, <1>2, <2>1, <2>2 DEF BenchInv, PhaseOK, RowsOK, CutIsDropped
  <2> QED
    BY <2>4, <2>5, <2>6 DEF BenchInv
<1>3. CASE Unresolved
  <2>1. /\ phase' = "over" /\ outcome' = Settles(IF abort THEN "cancelled" ELSE "failed")
        /\ reported' = outcome' /\ stream' = AllOff
        /\ UNCHANGED <<level, benchKind, refused, abort, waveTimedOut, target, results>>
    BY <1>3 DEF Unresolved, Returns
  <2>2. outcome' \in {"failed", "cancelled"}
    BY <1>0, <2>1 DEF Settles, BenchInv, BenchTypes, RowsOK
  <2>3. \A n : Concurrency(n)' = Concurrency(n)
    BY <2>1 DEF Concurrency
  <2>4. BenchTypes'
    BY <2>1, <2>2 DEF BenchInv, BenchTypes
  <2>5. StreamsOK'
    <3>1. stream' \in [MaxStreams -> {Off, Asked}] /\ ~\E i \in MaxStreams : stream'[i] = Asked
      BY <2>1, OffIsStream DEF AllOff
    <3> QED
      BY <2>1, <3>1, AskedAtMost DEF BenchInv
  <2>6. PhaseOK' /\ RowsOK' /\ CutIsDropped'
    BY <1>0, <2>1, <2>2, <2>3 DEF BenchInv, PhaseOK, RowsOK, CutIsDropped
  <2> QED
    BY <2>4, <2>5, <2>6 DEF BenchInv
<1> QED
  BY <1>1, <1>2, <1>3

LEMMA WarmStep == ASSUME BenchInv, Warmed PROVE BenchInv'
<1>1. /\ phase = "warming" /\ level = 0 /\ results = <<>> /\ Goes(results)
      /\ target' = IF phase' = "over" THEN Closed(target) ELSE target
  BY DEF Warmed, BenchInv, PhaseOK
<1>2. results \in Seq([ok : Nat, failed : Nat]) /\ Len(results) = 0 /\ DOMAIN results = {}
  BY <1>1, EmptySeq DEF BenchInv, BenchTypes
<1>3. target' \in {"none", "open", "closed"} /\ (phase' = "over" => target' # "open")
  BY <1>1 DEF Closed, BenchInv, BenchTypes
<1>4. /\ phase # "over" /\ Len(results) <= level /\ (~abort => Len(results) = level)
      /\ level = 0 => results = <<>>
      /\ \A n \in DOMAIN results : results[n].ok + results[n].failed = Concurrency(n)
      /\ abort /\ level > 0 /\ Len(results) = level => results[level].failed = 0
  BY <1>1, <1>2
<1> QED
  BY <1>1, <1>2, <1>3, <1>4, GoesOn

\* In the row of a level each of its streams counts once.
LEMMA RowIsWhole ==
    ASSUME BenchInv, level \in 1..Len(Waves)
    PROVE  Row \in [ok : Nat, failed : Nat] /\ Row.ok + Row.failed = Concurrency(level)
<1>1. Concurrency(level) \in Nat
  BY WavesAre DEF BenchInv, BenchTypes
<1>2. Cardinality(GoodOnes) \in Nat /\ Cardinality(GoodOnes) <= Concurrency(level)
  <2>1. GoodOnes \subseteq 1..Concurrency(level)
    BY DEF GoodOnes
  <2>2. IsFiniteSet(1..Concurrency(level)) /\ Cardinality(1..Concurrency(level)) = Concurrency(level)
    BY <1>1, FS_Interval
  <2>3. IsFiniteSet(GoodOnes) /\ Cardinality(GoodOnes) <= Cardinality(1..Concurrency(level))
    BY <2>1, <2>2, FS_Subset
  <2> QED
    BY <2>2, <2>3, FS_CardinalityType
<1> DEFINE c == Concurrency(level)
           n == Cardinality(GoodOnes)
<1>3. Row = [ok |-> 0, failed |-> c] \/ Row = [ok |-> n, failed |-> c - n]
  BY DEF Row, NoneOk
<1> HIDE DEF c, n
<1>4. c \in Nat /\ n \in Nat /\ n <= c
  BY <1>1, <1>2 DEF c, n
<1> QED
  BY <1>3, <1>4 DEF c

LEMMA LevelStep == ASSUME BenchInv, LevelEnds PROVE BenchInv'
<1> DEFINE rows == IF Keeps THEN Append(results, Row) ELSE results
<1>1. /\ phase = "waving" /\ Goes(rows)
      /\ target' = IF phase' = "over" THEN Closed(target) ELSE target
  BY DEF LevelEnds
<1>2. level \in 1..Len(Waves) /\ level \in Nat /\ Len(results) = level - 1 /\ results \in Seq([ok : Nat, failed : Nat])
  BY <1>1, BenchAssumption, LenProperties DEF BenchInv, BenchTypes, PhaseOK
<1>3. Row \in [ok : Nat, failed : Nat] /\ Row.ok + Row.failed = Concurrency(level)
  BY <1>2, RowIsWhole
<1>4. \A n \in DOMAIN results : results[n].ok + results[n].failed = Concurrency(n)
  BY DEF BenchInv, RowsOK
<1>5. CASE Keeps
  <2>1. /\ rows = Append(results, Row) /\ rows \in Seq([ok : Nat, failed : Nat])
        /\ Len(rows) = level /\ rows[level] = Row
        /\ \A n \in 1..Len(results) : rows[n] = results[n]
    BY <1>2, <1>3, <1>5, AppendProperties
  <2>2. \A n \in DOMAIN rows : n = level \/ n \in DOMAIN results
    BY <1>2, <2>1, LenProperties
  <2>3. \A n \in DOMAIN rows : rows[n].ok + rows[n].failed = Concurrency(n)
    BY <1>2, <1>3, <1>4, <2>1, <2>2, LenProperties
  <2>4. abort => rows[level].failed = 0
    BY <1>5, <2>1 DEF Keeps
  <2>5. target' \in {"none", "open", "closed"} /\ (phase' = "over" => target' # "open")
    BY <1>1 DEF Closed, BenchInv, BenchTypes
  <2> HIDE DEF rows
  <2>6. Len(rows) <= level /\ (~abort => Len(rows) = level) /\ (level = 0 => rows = <<>>) /\ phase # "over"
    BY <1>1, <1>2, <2>1
  <2> QED
    BY <1>1, <2>1, <2>3, <2>4, <2>5, <2>6, GoesOn
<1>6. CASE ~Keeps
  <2>1. rows = results /\ abort
    BY <1>6 DEF Keeps
  <2>2. target' \in {"none", "open", "closed"} /\ (phase' = "over" => target' # "open")
    BY <1>1 DEF Closed, BenchInv, BenchTypes
  <2> HIDE DEF rows
  <2>3. /\ Len(rows) <= level /\ (~abort => Len(rows) = level) /\ (level = 0 => rows = <<>>) /\ phase # "over"
        /\ abort /\ level > 0 /\ Len(rows) = level => rows[level].failed = 0
        /\ \A n \in DOMAIN rows : rows[n].ok + rows[n].failed = Concurrency(n)
        /\ rows \in Seq([ok : Nat, failed : Nat])
    BY <1>1, <1>2, <1>4, <2>1
  <2> QED
    BY <1>1, <2>2, <2>3, GoesOn
<1> QED
  BY <1>5, <1>6

LEMMA BenchNextInv == BenchInv /\ [BenchNext]_benchVars => BenchInv'
<1> SUFFICES ASSUME BenchInv, [BenchNext]_benchVars PROVE BenchInv'
  OBVIOUS
<1>1. CASE BenchNext
  BY <1>1, StreamSteps, AbortSteps, ResolveSteps, WarmStep, LevelStep DEF BenchNext
<1>2. CASE UNCHANGED benchVars
  <2>1. UNCHANGED JobOfBench /\ waveTimedOut' \in BOOLEAN /\ UNCHANGED <<benchKind, refused, phase, stream>>
    BY <1>2 DEF benchVars, JobOfBench, BenchInv, BenchTypes
  <2>2. Bodies' = Bodies
    BY <2>1 DEF Bodies
  <2>3. StreamsOK'
    BY <2>1, <2>2 DEF BenchInv, StreamsOK, Live
  <2> QED
    BY <2>1, <2>3, JobStays DEF BenchInv
<1> QED
  BY <1>1, <1>2

LEMMA BenchHolds ==
    BenchInv => BenchTypeOK /\ CompletedIsWhole /\ CutIsDropped /\ AskedInItsWords /\ NothingLeft
<1> SUFFICES ASSUME BenchInv
             PROVE  BenchTypeOK /\ CompletedIsWhole /\ CutIsDropped /\ AskedInItsWords /\ NothingLeft
  OBVIOUS
<1>1. BenchTypeOK
  <2>1. {outcome, reported} \subseteq {"none", "running", "completed", "failed", "cancelled"}
    BY DEF BenchInv, BenchTypes, PhaseOK
  <2>2. \A i \in MaxStreams :
          /\ stream[i].st \in {"off", "asked", "open", "done"}
          /\ stream[i].try \in DOMAIN Bodies /\ stream[i].pieces \in 0..MaxPieces
          /\ stream[i].error \in {"none", "400", "failed", "aborted"}
    BY DEF BenchInv, StreamsOK, Stream
  <2> QED
    BY <2>1, <2>2 DEF BenchInv, BenchTypes, BenchTypeOK
<1>2. CompletedIsWhole
  BY DEF BenchInv, RowsOK, CompletedIsWhole
<1>3. AskedInItsWords /\ NothingLeft
  BY DEF BenchInv, StreamsOK, PhaseOK, AskedInItsWords, NothingLeft
<1> QED
  BY <1>1, <1>2, <1>3 DEF BenchInv

\* What a benchmark was reported as is not revised.
LEMMA BenchReports == BenchInv /\ [BenchNext]_benchVars => (reported # "none" => reported' = reported)
<1> SUFFICES ASSUME BenchInv, [BenchNext]_benchVars, reported # "none" PROVE reported' = reported
  OBVIOUS
<1>1. outcome # "running" /\ reported = outcome
  BY DEF BenchInv, PhaseOK
<1>2. UNCHANGED reported \/ reported' = outcome
  BY <1>1 DEF BenchNext, Accepts, Refuses, Piece, StreamEnds, StreamFails, StreamTimesOut, StreamIs, Streams,
     WaveTimesOut, TargetResolves, Unresolved, Warmed, LevelEnds, CancelBench, InterruptBench, Goes, Returns,
     Settles, benchVars
<1> QED
  BY <1>1, <1>2

-----------------------------------------------------------------------------
(* LoadRuns: histories *)

LEMMA SeqFacts ==
    ASSUME NEW h \in Seq(Reports)
    PROVE  /\ Len(h) \in Nat /\ DOMAIN h = 1..Len(h) /\ \A i \in 1..Len(h) : h[i] \in Reports
           /\ RunsIn(h) = {h[i].run : i \in 1..Len(h)}
BY LenProperties DEF RunsIn

\* A run's report is taken out, the others stay.
LEMMA WithoutIs ==
    ASSUME NEW h \in Seq(Reports), NEW r
    PROVE  LET w == Without(h, r) IN
           /\ w \in Seq(Reports) /\ Len(w) <= Len(h) /\ Len(w) + 1 >= Len(h)
           /\ \A i \in 1..Len(w) : \E j \in 1..Len(h) : w[i] = h[j]
           /\ \A j \in 1..Len(h) : h[j].run = r \/ \E i \in 1..Len(w) : w[i] = h[j]
<1> DEFINE w == Without(h, r)
           at == CHOOSE i \in DOMAIN h : h[i].run = r
           left == SubSeq(h, 1, at - 1)
           right == SubSeq(h, at + 1, Len(h))
<1>0. Len(h) \in Nat /\ DOMAIN h = 1..Len(h) /\ \A i \in 1..Len(h) : h[i] \in Reports
  BY SeqFacts
<1>1. CASE r \notin RunsIn(h)
  BY <1>0, <1>1 DEF Without
<1>2. CASE r \in RunsIn(h)
  <2>1. at \in 1..Len(h) /\ h[at].run = r
    BY <1>0, <1>2 DEF RunsIn
  <2>2. w = left \o right
    BY <1>2 DEF Without
  <2> HIDE DEF at
  <2>3. left \in Seq(Reports) /\ Len(left) = at - 1 /\ \A i \in 1..(at - 1) : left[i] = h[i]
    <3>1. /\ left \in Seq(Reports) /\ Len(left) = IF 1 <= at - 1 THEN (at - 1) - 1 + 1 ELSE 0
          /\ \A i \in 1..(at - 1) - 1 + 1 : left[i] = h[1 + i - 1]
      BY <1>0, <2>1, SubSeqProperties
    <3> HIDE DEF left
    <3> QED
      BY <1>0, <2>1, <3>1
  <2>4. right \in Seq(Reports) /\ Len(right) = Len(h) - at /\ \A i \in 1..(Len(h) - at) : right[i] = h[at + i]
    <3>0. at + 1 \in Int /\ Len(h) \in Int /\ \A i \in (at + 1)..Len(h) : h[i] \in Reports
      BY <1>0, <2>1
    <3>1. /\ right \in Seq(Reports) /\ Len(right) = IF at + 1 <= Len(h) THEN Len(h) - (at + 1) + 1 ELSE 0
          /\ \A i \in 1..Len(h) - (at + 1) + 1 : right[i] = h[(at + 1) + i - 1]
      BY <3>0, SubSeqProperties
    <3> HIDE DEF right
    <3>2. Len(h) - (at + 1) + 1 = Len(h) - at /\ (at + 1 <= Len(h) \/ Len(h) - at = 0)
      <4>1. Len(h) \in Int /\ at \in Int /\ at <= Len(h)
        BY <1>0, <2>1
      <4> QED
        BY <4>1
    <3>3. ASSUME NEW i \in 1..(Len(h) - at) PROVE right[i] = h[at + i]
      <4>1. i \in 1..Len(h) - (at + 1) + 1 /\ (at + 1) + i - 1 = at + i
        BY <1>0, <2>1
      <4> QED
        BY <3>1, <4>1
    <3>4. Len(right) = Len(h) - at
      BY <1>0, <2>1, <3>1, <3>2
    <3> QED
      BY <3>1, <3>3, <3>4
  <2> HIDE DEF left, right
  <2>5. /\ left \o right \in Seq(Reports) /\ Len(left \o right) = Len(h) - 1
        /\ \A i \in 1..(Len(h) - 1) : (left \o right)[i] = IF i <= at - 1 THEN left[i] ELSE right[i - (at - 1)]
    <3>1. /\ left \o right \in Seq(Reports) /\ Len(left \o right) = Len(left) + Len(right)
          /\ \A i \in 1..Len(left) + Len(right) :
                (left \o right)[i] = IF i <= Len(left) THEN left[i] ELSE right[i - Len(left)]
      BY <2>3, <2>4, ConcatProperties
    <3>2. Len(left) + Len(right) = Len(h) - 1
      BY <1>0, <2>1, <2>3, <2>4
    <3> QED
      BY <2>3, <3>1, <3>2
  <2>6. \A i \in 1..(Len(h) - 1) : w[i] = IF i < at THEN h[i] ELSE h[i + 1]
    <3> SUFFICES ASSUME NEW i \in 1..(Len(h) - 1) PROVE w[i] = IF i < at THEN h[i] ELSE h[i + 1]
      OBVIOUS
    <3>1. CASE i < at
      BY <1>0, <2>1, <2>2, <2>3, <2>5, <3>1
    <3>2. CASE ~(i < at)
      <4>1. i - (at - 1) \in 1..(Len(h) - at) /\ at + (i - (at - 1)) = i + 1
        BY <1>0, <2>1, <3>2
      <4> QED
        BY <1>0, <2>1, <2>2, <2>4, <2>5, <3>2, <4>1
    <3> QED
      BY <3>1, <3>2
  <2>7. w \in Seq(Reports) /\ Len(w) = Len(h) - 1
    BY <2>2, <2>5
  <2> HIDE DEF w
  <2>8. \A i \in 1..Len(w) : \E j \in 1..Len(h) : w[i] = h[j]
    BY <1>0, <2>1, <2>6, <2>7
  <2>9. ASSUME NEW j \in 1..Len(h), h[j].run # r PROVE \E i \in 1..Len(w) : w[i] = h[j]
    <3>1. CASE j < at
      BY <1>0, <2>1, <2>6, <2>7, <3>1
    <3>2. CASE j > at
      <4>1. j - 1 \in 1..(Len(h) - 1) /\ ~(j - 1 < at) /\ (j - 1) + 1 = j
        BY <1>0, <2>1, <3>2
      <4> QED
        BY <2>6, <2>7, <4>1
    <3> QED
      BY <1>0, <2>1, <2>9, <3>1, <3>2
  <2> QED
    BY <1>0, <2>7, <2>8, <2>9 DEF w
<1> QED
  BY <1>1, <1>2

LEMMA CutIs ==
    ASSUME NEW h \in Seq(Reports)
    PROVE  /\ Cut(h) \in Seq(Reports) /\ Len(Cut(h)) <= Limit
           /\ Len(Cut(h)) = Len(h) \/ Len(Cut(h)) = Limit
           /\ \A i \in 1..Len(Cut(h)) : i \in 1..Len(h) /\ Cut(h)[i] = h[i]
<1>0. Len(h) \in Nat /\ Limit \in Nat \ {0} /\ \A i \in 1..Len(h) : h[i] \in Reports
  BY SeqFacts, LoadAssumption
<1>1. CASE Len(h) > Limit
  <2>1. /\ SubSeq(h, 1, Limit) \in Seq(Reports)
        /\ Len(SubSeq(h, 1, Limit)) = IF 1 <= Limit THEN Limit - 1 + 1 ELSE 0
        /\ \A i \in 1..Limit - 1 + 1 : SubSeq(h, 1, Limit)[i] = h[1 + i - 1]
    BY <1>0, <1>1, SubSeqProperties
  <2>2. Cut(h) = SubSeq(h, 1, Limit)
    BY <1>1 DEF Cut
  <2> QED
    BY <1>0, <1>1, <2>1, <2>2
<1>2. CASE ~(Len(h) > Limit)
  BY <1>0, <1>2 DEF Cut
<1> QED
  BY <1>1, <1>2

\* What a history becomes when new reports are made.
Grown(h, g, new) ==
    /\ g \in Seq(Reports) /\ Len(g) <= Limit /\ Len(g) >= Len(h)
    /\ \A i \in DOMAIN g : g[i] \in new \/ \E j \in DOMAIN h : g[i] = h[j]
    /\ \A j \in DOMAIN h : (\E e \in new : e.run = h[j].run) \/ Len(g) = Limit \/ h[j].run \in RunsIn(g)
    /\ \A e \in new : Len(g) = Limit \/ e.run \in RunsIn(g)

LEMMA SameIsGrown ==
    ASSUME NEW h \in Seq(Reports), Len(h) <= Limit
    PROVE  Grown(h, h, {})
BY SeqFacts DEF Grown

\* Both ways of reporting put new reports before old ones, and cut.
LEMMA CutIsGrown ==
    ASSUME NEW h \in Seq(Reports), Len(h) <= Limit,
           NEW a \in Seq(Reports), NEW w \in Seq(Reports), Len(a) + Len(w) >= Len(h),
           \A i \in 1..Len(w) : \E j \in 1..Len(h) : w[i] = h[j],
           \A j \in 1..Len(h) : (\E i \in 1..Len(a) : a[i].run = h[j].run) \/ \E i \in 1..Len(w) : w[i] = h[j]
    PROVE  Grown(h, Cut(a \o w), {a[i] : i \in 1..Len(a)})
<1> DEFINE all == a \o w
           g == Cut(all)
           new == {a[i] : i \in 1..Len(a)}
<1>0. /\ Len(h) \in Nat /\ DOMAIN h = 1..Len(h) /\ \A i \in 1..Len(h) : h[i] \in Reports
      /\ Len(a) \in Nat /\ Len(w) \in Nat /\ Limit \in Nat
  BY SeqFacts, LoadAssumption
<1>1. /\ all \in Seq(Reports) /\ Len(all) = Len(a) + Len(w)
      /\ \A i \in 1..(Len(a) + Len(w)) : all[i] = IF i <= Len(a) THEN a[i] ELSE w[i - Len(a)]
  BY ConcatProperties
<1> HIDE DEF all
<1>2. /\ g \in Seq(Reports) /\ Len(g) <= Limit /\ (Len(g) = Len(all) \/ Len(g) = Limit)
      /\ \A i \in 1..Len(g) : i \in 1..Len(all) /\ g[i] = all[i]
  BY <1>1, CutIs
<1>3. /\ Len(g) \in Nat /\ DOMAIN g = 1..Len(g) /\ RunsIn(g) = {g[i].run : i \in 1..Len(g)}
  BY <1>2, SeqFacts
<1> HIDE DEF g
<1>4. \A i \in 1..Len(a) : all[i] = a[i] /\ i \in 1..Len(all)
  BY <1>0, <1>1
<1>5. ASSUME NEW i \in 1..Len(w) PROVE all[Len(a) + i] = w[i] /\ Len(a) + i \in 1..Len(all)
  <2>1. Len(a) + i \in 1..(Len(a) + Len(w)) /\ ~(Len(a) + i <= Len(a)) /\ (Len(a) + i) - Len(a) = i
    BY <1>0
  <2> QED
    BY <1>1, <2>1
<1>6. ASSUME NEW i \in 1..Len(all) PROVE Len(g) = Limit \/ all[i].run \in RunsIn(g)
  BY <1>2, <1>3
<1>7. Len(g) >= Len(h)
  BY <1>0, <1>1, <1>2
<1>8. ASSUME NEW i \in 1..Len(g) PROVE g[i] \in new \/ \E j \in 1..Len(h) : g[i] = h[j]
  <2>1. i \in 1..(Len(a) + Len(w)) /\ g[i] = IF i <= Len(a) THEN a[i] ELSE w[i - Len(a)]
    BY <1>1, <1>2
  <2>2. CASE i <= Len(a)
    BY <1>0, <2>1, <2>2
  <2>3. CASE ~(i <= Len(a))
    <3>1. i - Len(a) \in 1..Len(w)
      BY <1>0, <2>1, <2>3
    <3> QED
      BY <2>1, <2>3, <3>1
  <2> QED
    BY <2>2, <2>3
<1>9. ASSUME NEW j \in 1..Len(h) PROVE (\E e \in new : e.run = h[j].run) \/ Len(g) = Limit \/ h[j].run \in RunsIn(g)
  <2>1. CASE \E i \in 1..Len(a) : a[i].run = h[j].run
    BY <2>1
  <2>2. CASE \E i \in 1..Len(w) : w[i] = h[j]
    <3>1. PICK i \in 1..Len(w) : w[i] = h[j]
      BY <2>2
    <3>2. all[Len(a) + i] = h[j] /\ Len(a) + i \in 1..Len(all)
      BY <1>5, <3>1
    <3> QED
      BY <1>6, <3>2
  <2> QED
    BY <2>1, <2>2
<1>10. ASSUME NEW e \in new PROVE Len(g) = Limit \/ e.run \in RunsIn(g)
  <2>1. PICK i \in 1..Len(a) : e = a[i]
    OBVIOUS
  <2>2. all[i] = a[i] /\ i \in 1..Len(all)
    BY <1>4
  <2> QED
    BY <1>6, <2>1, <2>2
<1> HIDE DEF new
<1>11. Grown(h, g, new)
  BY <1>0, <1>2, <1>3, <1>7, <1>8, <1>9, <1>10 DEF Grown
<1> QED
  BY <1>11 DEF g, all, new

LEMMA PushedIsGrown ==
    ASSUME NEW h \in Seq(Reports), Len(h) <= Limit, NEW r \in Runs, NEW st \in Ended
    PROVE  Grown(h, Pushed(h, Report(r, st)), {Report(r, st)})
<1> DEFINE a == <<Report(r, st)>>
           w == Without(h, r)
<1>1. Report(r, st) \in Reports /\ Report(r, st).run = r
  BY DEF Report, Reports
<1>2. a \in Seq(Reports) /\ Len(a) = 1 /\ a[1] = Report(r, st)
  BY <1>1
<1>3. /\ w \in Seq(Reports) /\ Len(w) + 1 >= Len(h)
      /\ \A i \in 1..Len(w) : \E j \in 1..Len(h) : w[i] = h[j]
      /\ \A j \in 1..Len(h) : h[j].run = r \/ \E i \in 1..Len(w) : w[i] = h[j]
  BY WithoutIs
<1>4. Len(h) \in Nat /\ Len(w) \in Nat
  BY <1>3, SeqFacts
<1>5. Pushed(h, Report(r, st)) = Cut(a \o w)
  BY <1>1 DEF Pushed
<1>6. {a[i] : i \in 1..Len(a)} = {Report(r, st)}
  BY <1>2
<1> HIDE DEF a, w
<1>7. \A j \in 1..Len(h) : (\E i \in 1..Len(a) : a[i].run = h[j].run) \/ \E i \in 1..Len(w) : w[i] = h[j]
  BY <1>1, <1>2, <1>3
<1>8. Len(a) + Len(w) >= Len(h)
  BY <1>2, <1>3, <1>4
<1>9. Grown(h, Cut(a \o w), {a[i] : i \in 1..Len(a)})
  BY <1>2, <1>3, <1>7, <1>8, CutIsGrown
<1> QED
  BY <1>5, <1>6, <1>9

LEMMA FailuresAreGrown ==
    ASSUME NEW h \in Seq(Reports), Len(h) <= Limit, NEW mine \in SUBSET Runs, NEW o \in Orders(mine)
    PROVE  Grown(h, Cut(Failures(o) \o h), {Report(r, "failed") : r \in mine})
<1> DEFINE a == Failures(o)
           n == Cardinality(mine)
<1>1. n \in Nat
  BY LoadAssumption, FS_Subset, FS_CardinalityType
<1>2. o \in [1..n -> mine] /\ \A r \in mine : \E i \in 1..n : o[i] = r
  BY DEF Orders
<1>3. a = [i \in 1..n |-> Report(o[i], "failed")]
  BY <1>2 DEF Failures
<1> HIDE DEF n, a
<1>4. a \in [1..n -> Reports]
  BY <1>2, <1>3 DEF Report, Reports, Ended
<1>5. a \in Seq(Reports) /\ Len(a) = n
  BY <1>1, <1>4, SeqDef
<1>6. {a[i] : i \in 1..Len(a)} = {Report(r, "failed") : r \in mine}
  BY <1>2, <1>3, <1>5
<1>7. Len(h) \in Nat
  BY SeqFacts
<1>8. Len(a) + Len(h) >= Len(h)
  BY <1>1, <1>5, <1>7
<1>9. Grown(h, Cut(a \o h), {a[i] : i \in 1..Len(a)})
  BY <1>5, <1>8, CutIsGrown
<1> QED
  BY <1>6, <1>9 DEF a

\* A step makes new reports, each at the place of its run, once, of a run that
\* has none or the same, and with the status its loop knows.
At(new, k, s) == {e \in new : KindOf[e.run] = k /\ SparkOf[e.run] = s}

NewsOK(new) == \A e \in new :
    /\ asked[e.run] = "started" /\ KindOf[e.run] \in Kinds /\ SparkOf[e.run] \in Sparks
    /\ \A d \in new : d.run = e.run => d.status = e.status
    /\ e.run \in loop' => status'[e.run] = e.status
    /\ LET h == history[KindOf[e.run]][SparkOf[e.run]]
       IN  \A i \in DOMAIN h : h[i].run = e.run => h[i].status = e.status

Extends(new) ==
    /\ history' \in [Kinds -> [Sparks -> Seq(Reports)]]
    /\ \A k \in Kinds, s \in Sparks : Grown(history[k][s], history'[k][s], At(new, k, s))

\* Who was asked stays so, and who still runs is who ran, as it was.
LoopsStay ==
    /\ \A r \in Runs : asked[r] = "started" => asked'[r] = "started"
    /\ \A r \in loop' : \/ r \in loop /\ (status[r] = "running" \/ status'[r] = status[r])
                        \/ asked[r] # "started"

FilesStay(new) ==
    /\ cleared \subseteq cleared'
    /\ \A r \in Runs : IsBench(r) /\ asked'[r] = "started" =>
          \/ r \in checkpoint'[KindOf[r]]
          \/ /\ asked[r] = "started"
             /\ r \in checkpoint[KindOf[r]] =>
                   r \in RunsIn(history[KindOf[r]][SparkOf[r]]) \/ \E e \in new : e.run = r

Final == \A k \in Kinds, s \in Sparks : \A i \in DOMAIN history[k][s], j \in DOMAIN history'[k][s] :
          history[k][s][i].run = history'[k][s][j].run
             => history[k][s][i].status = history'[k][s][j].status

LEMMA HistoryGrows ==
    ASSUME LoadInv, NEW new, NewsOK(new), Extends(new), LoopsStay, FilesStay(new)
    PROVE  HistoryTypes' /\ HistoryOK' /\ EveryBenchReported' /\ Final
<1>0. HistoryTypes /\ HistoryOK /\ AskOK /\ EveryBenchReported
  BY DEF LoadInv
<1>1. HistoryTypes'
  BY DEF Extends, Grown, HistoryTypes
<1>2. ASSUME NEW k \in Kinds, NEW s \in Sparks, NEW j \in DOMAIN history'[k][s]
      PROVE  \/ history'[k][s][j] \in At(new, k, s)
             \/ \E i \in DOMAIN history[k][s] : history'[k][s][j] = history[k][s][i]
  BY <1>2 DEF Extends, Grown
<1>3. ASSUME NEW k \in Kinds, NEW s \in Sparks, NEW i \in DOMAIN history[k][s]
      PROVE  LET e == history[k][s][i] IN
             /\ asked[e.run] = "started" /\ KindOf[e.run] = k /\ SparkOf[e.run] = s
             /\ e.run \in Runs /\ e.status \in Ended
             /\ e.run \in loop => status[e.run] = e.status
             /\ \A j \in DOMAIN history[k][s] : history[k][s][j].run = e.run => history[k][s][j].status = e.status
  <2>1. history[k][s][i] \in Reports
    BY <1>0, SeqFacts DEF HistoryTypes
  <2> QED
    BY <1>0, <2>1 DEF HistoryOK, Reports
<1>4. Final
  <2> SUFFICES ASSUME NEW k \in Kinds, NEW s \in Sparks, NEW i \in DOMAIN history[k][s],
                      NEW j \in DOMAIN history'[k][s], history[k][s][i].run = history'[k][s][j].run
               PROVE  history[k][s][i].status = history'[k][s][j].status
    BY DEF Final
  <2>1. CASE history'[k][s][j] \in At(new, k, s)
    BY <2>1 DEF At, NewsOK
  <2>2. CASE \E n \in DOMAIN history[k][s] : history'[k][s][j] = history[k][s][n]
    BY <1>3, <2>2
  <2> QED
    BY <1>2, <2>1, <2>2
<1>5. HistoryOK'
  <2> SUFFICES ASSUME NEW k \in Kinds, NEW s \in Sparks, NEW i \in DOMAIN history'[k][s]
               PROVE  LET e == history'[k][s][i] IN
                      /\ asked'[e.run] = "started" /\ KindOf[e.run] = k /\ SparkOf[e.run] = s
                      /\ e.run \in loop' => status'[e.run] = e.status
                      /\ \A j \in DOMAIN history'[k][s] :
                            history'[k][s][j].run = e.run => history'[k][s][j].status = e.status
    BY DEF HistoryOK
  <2> DEFINE e == history'[k][s][i]
  <2>1. e.run \in Runs
    <3>1. history'[k][s] \in Seq(Reports)
      BY <1>1 DEF HistoryTypes
    <3>2. e \in Reports
      BY <3>1, SeqFacts
    <3> QED
      BY <3>2 DEF Reports
  <2>2. CASE e \in At(new, k, s)
    <3>1. asked[e.run] = "started" /\ KindOf[e.run] = k /\ SparkOf[e.run] = s /\ (e.run \in loop' => status'[e.run] = e.status)
      BY <2>2 DEF At, NewsOK
    <3>2. ASSUME NEW j \in DOMAIN history'[k][s], history'[k][s][j].run = e.run PROVE history'[k][s][j].status = e.status
      <4>1. CASE history'[k][s][j] \in At(new, k, s)
        BY <2>2, <3>2, <4>1 DEF At, NewsOK
      <4>2. CASE \E n \in DOMAIN history[k][s] : history'[k][s][j] = history[k][s][n]
        BY <1>4, <3>2, <4>2 DEF Final
      <4> QED
        BY <1>2, <4>1, <4>2
    <3> QED
      BY <2>1, <3>1, <3>2 DEF LoopsStay
  <2>3. ASSUME NEW n \in DOMAIN history[k][s], e = history[k][s][n]
        PROVE  /\ asked'[e.run] = "started" /\ KindOf[e.run] = k /\ SparkOf[e.run] = s
               /\ e.run \in loop' => status'[e.run] = e.status
               /\ \A j \in DOMAIN history'[k][s] :
                     history'[k][s][j].run = e.run => history'[k][s][j].status = e.status
    <3>1. asked[e.run] = "started" /\ KindOf[e.run] = k /\ SparkOf[e.run] = s /\ e.status \in Ended
          /\ (e.run \in loop => status[e.run] = e.status)
      BY <1>3, <2>3
    <3>2. e.run \in loop' => status'[e.run] = e.status
      BY <3>1 DEF LoopsStay, Ended
    <3> QED
      BY <1>4, <2>1, <2>3, <3>1, <3>2 DEF LoopsStay, Final
  <2> QED
    BY <1>2, <2>2, <2>3
<1>6. EveryBenchReported'
  <2> SUFFICES ASSUME NEW r \in Runs, IsBench(r), asked'[r] = "started"
               PROVE  LET g == history'[KindOf[r]][SparkOf[r]] IN
                      r \in RunsIn(g) \/ r \in checkpoint'[KindOf[r]] \/ r \in cleared' \/ Len(g) = Limit
    BY DEF EveryBenchReported, IsBench
  <2> DEFINE k == KindOf[r]
             s == SparkOf[r]
             h == history[k][s]
             g == history'[k][s]
  <2>1. k \in Kinds /\ s \in Sparks
    BY LoadAssumption
  <2>2. Grown(h, g, At(new, k, s)) /\ h \in Seq(Reports) /\ Len(h) <= Limit
    BY <1>0, <2>1 DEF Extends, HistoryTypes
  <2>3. Len(h) \in Nat /\ Len(g) \in Nat /\ Limit \in Nat /\ DOMAIN h = 1..Len(h)
    BY <2>2, SeqFacts, LoadAssumption DEF Grown
  <2>4. CASE r \in checkpoint'[k]
    BY <2>4
  <2>5. CASE \E e \in new : e.run = r
    BY <2>2, <2>5 DEF At, Grown
  <2>6. CASE r \in RunsIn(h)
    <3>1. PICK j \in DOMAIN h : h[j].run = r
      BY <2>6 DEF RunsIn
    <3>2. (\E e \in At(new, k, s) : e.run = r) \/ Len(g) = Limit \/ r \in RunsIn(g)
      BY <2>2, <3>1 DEF Grown
    <3> QED
      BY <2>5, <3>2 DEF At
  <2>7. CASE Len(h) = Limit
    BY <2>2, <2>3, <2>7 DEF Grown
  <2>8. CASE r \in cleared
    BY <2>8 DEF FilesStay
  <2>9. CASE asked[r] = "started" /\ (r \in checkpoint[k] => r \in RunsIn(h) \/ \E e \in new : e.run = r)
    <3>1. r \in RunsIn(h) \/ r \in checkpoint[k] \/ r \in cleared \/ Len(h) = Limit
      BY <1>0, <2>9 DEF EveryBenchReported
    <3> QED
      BY <2>5, <2>6, <2>7, <2>8, <2>9, <3>1
  <2> QED
    BY <2>4, <2>9 DEF FilesStay
<1> QED
  BY <1>1, <1>4, <1>5, <1>6

-----------------------------------------------------------------------------
(* LoadRuns: who is active *)

LEMMA LoadInitInv == LoadInit => LoadInv
<1> SUFFICES ASSUME LoadInit PROVE LoadInv
  OBVIOUS
<1>1. LoadTypes
  <2>1. /\ asked \in [Runs -> {"idle", "resolving", "started", "refused"}]
        /\ status \in [Runs -> {"none", "running"} \union Ended]
    BY DEF LoadInit
  <2>2. active \in [Kinds -> [Sparks -> Runs \union {NoRun}]] /\ checkpoint \in [Benches -> SUBSET Runs]
    BY DEF LoadInit
  <2>3. stopping \in BOOLEAN
    BY DEF LoadInit
  <2>4. boots \in 0..MaxBoots
    BY LoadAssumption DEF LoadInit
  <2> QED
    BY <2>1, <2>2, <2>3, <2>4 DEF LoadInit, LoadTypes
<1>2. HistoryTypes
  BY LoadAssumption, EmptySeq DEF LoadInit, HistoryTypes
<1>3. Load = {}
  BY DEF LoadInit, Load, Running
<1>4. CapOK
  BY <1>3, LoadAssumption, FS_EmptySet DEF CapOK
<1>5. AskOK /\ ActiveOK /\ LoopsRun /\ BenchIsActive /\ FreeOK /\ SlotsOK /\ EveryBenchReported
  BY DEF LoadInit, AskOK, ActiveOK, LoopsRun, BenchIsActive, FreeOK, SlotsOK, EveryBenchReported, Running, Resolving
<1>6. Apart
  BY LoadAssumption DEF LoadInit, Apart
<1>7. FileIsRunning
  BY DEF LoadInit, FileIsRunning, Running
<1>8. HistoryOK
  <2>1. \A k \in Kinds, s \in Sparks : DOMAIN history[k][s] = {}
    BY EmptySeq DEF LoadInit
  <2> QED
    BY <2>1 DEF HistoryOK
<1> QED
  BY <1>1, <1>2, <1>4, <1>5, <1>6, <1>7, <1>8 DEF LoadInv

LEMMA PutIs ==
    ASSUME NEW S, NEW a \in [Kinds -> [Sparks -> S]], NEW k \in Kinds, NEW s \in Sparks, NEW v \in S
    PROVE  LET b == [a EXCEPT ![k][s] = v] IN
           /\ b \in [Kinds -> [Sparks -> S]]
           /\ \A l \in Kinds, q \in Sparks : b[l][q] = IF l = k /\ q = s THEN v ELSE a[l][q]
OBVIOUS

\* The slots, and the benchmarks under load, are finitely many.
LEMMA SlotsAreFinite ==
    /\ IsFiniteSet(Slots) /\ Cardinality(Slots) \in Nat
    /\ IsFiniteSet(Load) /\ Cardinality(Load) \in Nat
<1>1. Benches = {"decode"} \union {"prefill"}
  BY DEF Benches
<1>2. IsFiniteSet(Benches)
  BY <1>1, FS_Singleton, FS_AddElement
<1>3. IsFiniteSet(Benches \X Sparks)
  BY <1>2, LoadAssumption, FS_Product
<1>4. Slots \in SUBSET (Benches \X Sparks) /\ Load \in SUBSET Runs
  BY DEF Slots, Load, Running
<1> HIDE DEF Slots, Load
<1>5. IsFiniteSet(Slots) /\ IsFiniteSet(Load)
  BY <1>3, <1>4, LoadAssumption, FS_Subset
<1> QED
  BY <1>5, FS_CardinalityType

\* While the managers know what runs, no more benchmarks run than they have slots.
LEMMA LoadFits ==
    ASSUME LoadInv, ~stopping
    PROVE  Cardinality(Load) <= Cardinality(Slots)
<1> DEFINE f == [r \in Load |-> <<KindOf[r], SparkOf[r]>>]
<1>1. ASSUME NEW r \in Load
      PROVE  r \in Runs /\ KindOf[r] \in Benches /\ SparkOf[r] \in Sparks /\ active[KindOf[r]][SparkOf[r]] = r
  BY <1>1, LoadAssumption DEF LoadInv, BenchIsActive, Load, Running, Benches
<1>2. f \in [Load -> Slots]
  BY <1>1, LoadAssumption DEF Slots
<1>3. \A r, q \in Load : f[r] = f[q] => r = q
  BY <1>1
<1>4. f \in Injection(Load, Slots)
  BY <1>2, <1>3 DEF Injection, IsInjective
<1> HIDE DEF f
<1> QED
  BY <1>4, SlotsAreFinite, FS_Injection

\* What a step that starts nothing leaves true.
StartsNothing ==
    /\ \A r \in Runs : status'[r] = "running" => status[r] = "running"
    /\ \A k \in Kinds, s \in Sparks : active'[k][s] \in {NoRun, active[k][s]}
    /\ raced \subseteq raced' /\ (Resolving \ raced)' \subseteq Resolving \ raced

LEMMA QuietKeeps ==
    ASSUME LoadInv, LoadTypes', StartsNothing, ~stopping' => ~stopping
    PROVE  ActiveOK' /\ Apart' /\ FreeOK' /\ SlotsOK' /\ CapOK'
<1>1. ActiveOK'
  BY DEF StartsNothing, LoadInv, ActiveOK
<1>2. ASSUME NEW k \in Kinds, NEW s \in Sparks, Occupied(k, s)' PROVE Occupied(k, s)
  BY <1>2 DEF Occupied, StartsNothing, LoadInv, LoadTypes
<1>3. Apart'
  <2> SUFFICES ASSUME NEW k \in Kinds, NEW l \in Kinds, NEW s \in Sparks, k # l,
                      active'[k][s] \in Runs \ raced', active'[l][s] \in Runs \ raced'
               PROVE  status'[active'[k][s]] # "running" \/ status'[active'[l][s]] # "running"
    BY DEF Apart
  <2>1. active'[k][s] = active[k][s] /\ active'[l][s] = active[l][s]
    BY LoadAssumption DEF StartsNothing
  <2>2. active[k][s] \in Runs \ raced /\ active[l][s] \in Runs \ raced
    BY <2>1 DEF StartsNothing
  <2>3. status[active[k][s]] # "running" \/ status[active[l][s]] # "running"
    BY <2>2 DEF LoadInv, Apart
  <2> QED
    BY <2>1, <2>2, <2>3 DEF StartsNothing
<1>4. FreeOK'
  <2> SUFFICES ASSUME NEW r \in (Resolving \ raced)', NEW k \in Kinds \ {KindOf[r]}
               PROVE  ~Occupied(k, SparkOf[r])'
    BY DEF FreeOK
  <2>1. r \in Resolving \ raced /\ r \in Runs
    BY DEF StartsNothing, Resolving
  <2> QED
    BY <1>2, <2>1, LoadAssumption DEF LoadInv, FreeOK
<1>5. SlotsOK'
  <2>1. Slots' \in SUBSET Slots
    BY DEF Slots, StartsNothing, Kinds
  <2>2. IsFiniteSet(Slots) /\ Cardinality(Slots) \in Nat
    BY SlotsAreFinite
  <2>3. Cardinality(Slots') <= Cardinality(Slots) /\ Cardinality(Slots') \in Nat
    BY <2>1, <2>2, FS_Subset, FS_CardinalityType
  <2> QED
    BY <2>2, <2>3, LoadAssumption DEF SlotsOK, LoadInv, StartsNothing
<1>6. CapOK'
  <2>1. Load' \in SUBSET Load
    BY DEF Load, Running, StartsNothing
  <2>2. IsFiniteSet(Load) /\ Cardinality(Load) \in Nat
    BY SlotsAreFinite
  <2>3. Cardinality(Load') <= Cardinality(Load) /\ Cardinality(Load') \in Nat
    BY <2>1, <2>2, FS_Subset, FS_CardinalityType
  <2>4. CASE stopping' = FALSE
    BY <2>2, <2>3, <2>4, LoadAssumption DEF CapOK, LoadInv
  <2> QED
    BY <2>4 DEF CapOK, LoadTypes
<1> QED
  BY <1>1, <1>3, <1>4, <1>5, <1>6

LEMMA HistoryStays ==
    ASSUME LoadInv, history' = history, LoopsStay, FilesStay({})
    PROVE  HistoryTypes' /\ HistoryOK' /\ EveryBenchReported' /\ Final
<1>1. NewsOK({})
  BY DEF NewsOK
<1>2. Extends({})
  <2>1. \A k, s : At({}, k, s) = {}
    BY DEF At
  <2>2. \A k \in Kinds, s \in Sparks : Grown(history[k][s], history[k][s], {})
    BY SameIsGrown DEF LoadInv, HistoryTypes
  <2> QED
    BY <2>1, <2>2 DEF Extends, LoadInv, HistoryTypes
<1> QED
  BY <1>1, <1>2, HistoryGrows

LEMMA OneReport ==
    ASSUME LoadInv, NEW r \in Runs, NEW st \in Ended, history' = PushedTo(r, st)
    PROVE  Extends({Report(r, st)})
<1> DEFINE k == KindOf[r]
           s == SparkOf[r]
           p == Pushed(history[k][s], Report(r, st))
<1>0. k \in Kinds /\ s \in Sparks
  BY LoadAssumption
<1>1. history \in [Kinds -> [Sparks -> Seq(Reports)]] /\ \A l \in Kinds, q \in Sparks : Len(history[l][q]) <= Limit
  BY DEF LoadInv, HistoryTypes
<1>2. Grown(history[k][s], p, {Report(r, st)})
  BY <1>0, <1>1, PushedIsGrown
<1>3. history' = [history EXCEPT ![k][s] = p]
  BY DEF PushedTo
<1>4. p \in Seq(Reports)
  BY <1>2 DEF Grown
<1> HIDE DEF p
<1>5. /\ history' \in [Kinds -> [Sparks -> Seq(Reports)]]
      /\ \A l \in Kinds, q \in Sparks : history'[l][q] = IF l = k /\ q = s THEN p ELSE history[l][q]
  BY <1>0, <1>1, <1>3, <1>4, PutIs
<1>6. ASSUME NEW l \in Kinds, NEW q \in Sparks
      PROVE  Grown(history[l][q], history'[l][q], At({Report(r, st)}, l, q))
  <2>1. CASE l = k /\ q = s
    <3>1. At({Report(r, st)}, l, q) = {Report(r, st)}
      BY <2>1 DEF At, Report
    <3> QED
      BY <1>2, <1>5, <2>1, <3>1
  <2>2. CASE ~(l = k /\ q = s)
    <3>1. At({Report(r, st)}, l, q) = {}
      BY <2>2 DEF At, Report
    <3> QED
      BY <1>1, <1>5, <2>2, <3>1, SameIsGrown
  <2> QED
    BY <2>1, <2>2
<1> QED
  BY <1>5, <1>6 DEF Extends

-----------------------------------------------------------------------------
(* LoadRuns: the steps *)

LEMMA ArriveStep ==
    ASSUME LoadInv, NEW r \in Runs, BenchArrives(r)
    PROVE  LoadInv' /\ Final
<1>0. /\ asked[r] = "idle" /\ IsBench(r)
      /\ asked' = [asked EXCEPT ![r] = IF Admitted(r) THEN "resolving" ELSE "refused"]
      /\ UNCHANGED <<status, loop, active, aborted, history, checkpoint, stopping, boots, raced, cleared>>
  BY DEF BenchArrives
<1>1. LoadTypes'
  BY <1>0 DEF LoadInv, LoadTypes
<1>2. AskOK' /\ ActiveOK' /\ LoopsRun' /\ Apart'
  BY <1>0 DEF LoadInv, LoadTypes, AskOK, ActiveOK, LoopsRun, Apart, IsBench
<1>3. \A k : Running(k)' = Running(k)
  BY <1>0 DEF Running
<1>4. BenchIsActive' /\ FileIsRunning'
  BY <1>0, <1>3 DEF LoadInv, BenchIsActive, FileIsRunning
<1>5. Load' = Load
  BY <1>0, <1>3 DEF Load
<1>6. CapOK'
  BY <1>0, <1>5 DEF CapOK, LoadInv
<1>7. Resolving' \subseteq Resolving \union {r} /\ (r \in Resolving' => Admitted(r))
  BY <1>0 DEF Resolving, LoadInv, LoadTypes
<1>8. \A k, s : Occupied(k, s)' = Occupied(k, s)
  BY <1>0 DEF Occupied
<1>9. FreeOK'
  BY <1>0, <1>7, <1>8 DEF FreeOK, LoadInv, Admitted
<1>10. SlotsOK'
  <2>1. Slots' = Slots
    BY <1>0 DEF Slots
  <2>2. Admitted(r) => Cardinality(Slots) < Cap
    BY DEF Admitted, Slots
  <2> QED
    BY <1>0, <1>7, <2>1, <2>2 DEF SlotsOK, LoadInv
<1>11. LoopsStay /\ FilesStay({})
  BY <1>0 DEF LoopsStay, FilesStay, LoadInv, LoadTypes
<1> QED
  BY <1>0, <1>1, <1>2, <1>4, <1>6, <1>9, <1>10, <1>11, HistoryStays DEF LoadInv

LEMMA RestStep ==
    ASSUME LoadInv, UNCHANGED loadVars \/ \E r \in Runs : BenchRefused(r)
    PROVE  LoadInv' /\ Final
<1>0. /\ UNCHANGED <<status, loop, active, aborted, history, checkpoint, stopping, boots, raced, cleared>>
      /\ asked' = asked \/ \E r \in Runs : asked[r] = "resolving" /\ asked' = [asked EXCEPT ![r] = "refused"]
  BY DEF BenchRefused, loadVars, jobVars
<1>1. LoadTypes'
  <2>1. asked' \in [Runs -> {"idle", "resolving", "started", "refused"}]
    BY <1>0 DEF LoadInv, LoadTypes
  <2>2. UNCHANGED <<status, loop, active, aborted, checkpoint, stopping, boots, raced, cleared>>
    BY <1>0
  <2> QED
    BY <2>1, <2>2 DEF LoadInv, LoadTypes
<1>2. \A r \in Runs : asked'[r] = asked[r] \/ (asked[r] = "resolving" /\ asked'[r] = "refused")
  BY <1>0 DEF LoadInv, LoadTypes
<1>3. AskOK' /\ LoopsRun'
  BY <1>0, <1>2 DEF LoadInv, AskOK, LoopsRun, IsBench
<1>4. \A k : Running(k)' = Running(k)
  BY <1>0 DEF Running
<1>5. BenchIsActive' /\ FileIsRunning'
  BY <1>0, <1>4 DEF LoadInv, BenchIsActive, FileIsRunning
<1>6. StartsNothing /\ (~stopping' => ~stopping)
  BY <1>0, <1>2 DEF StartsNothing, Resolving
<1>7. LoopsStay /\ FilesStay({})
  BY <1>0, <1>2 DEF LoopsStay, FilesStay, LoadInv, LoadTypes
<1> QED
  BY <1>0, <1>1, <1>3, <1>5, <1>6, <1>7, HistoryStays, QuietKeeps DEF LoadInv

\* A run starts where nothing of its kind does, and what it was admitted for still holds.
RunBegins(r) ==
    /\ asked[r] # "started" /\ active[KindOf[r]][SparkOf[r]] = NoRun
    /\ asked' = [asked EXCEPT ![r] = "started"]
    /\ status' = [status EXCEPT ![r] = "running"]
    /\ loop' = loop \union {r}
    /\ active' = Activated(r)
    /\ raced' = raced \union (Resolving \ {r})
    /\ UNCHANGED <<aborted, history, stopping, boots, cleared>>
    /\ r \notin raced => \A k \in Kinds \ {KindOf[r]} : ~Occupied(k, SparkOf[r])
    /\ r \notin raced /\ IsBench(r) => Cardinality(Slots) < Cap
    /\ checkpoint' = IF IsBench(r) THEN Checkpointed(KindOf[r], status') ELSE checkpoint

LEMMA StartsAre ==
    ASSUME LoadInv, NEW r \in Runs, BenchStarts(r) \/ ShowcaseStarts(r)
    PROVE  RunBegins(r)
<1>1. CASE BenchStarts(r)
  <2>1. r \in Resolving /\ IsBench(r)
    BY <1>1 DEF BenchStarts, Resolving, LoadInv, AskOK
  <2>2. r \notin raced => Cardinality(Slots) < Cap /\ \A k \in Kinds \ {KindOf[r]} : ~Occupied(k, SparkOf[r])
    BY <2>1 DEF LoadInv, FreeOK, SlotsOK
  <2> QED
    BY <1>1, <2>1, <2>2 DEF BenchStarts, RunBegins
<1>2. CASE ShowcaseStarts(r)
  <2>1. r \notin Resolving /\ ~IsBench(r) /\ KindOf[r] \in Kinds
    BY <1>2, LoadAssumption DEF ShowcaseStarts, Resolving
  <2>2. \A k \in Kinds : ~Occupied(k, SparkOf[r])
    BY <1>2 DEF ShowcaseStarts, Occupied
  <2> QED
    BY <1>2, <2>1, <2>2 DEF ShowcaseStarts, RunBegins
<1> QED
  BY <1>1, <1>2

LEMMA StartStep ==
    ASSUME LoadInv, NEW r \in Runs, RunBegins(r)
    PROVE  LoadInv' /\ Final
<1> DEFINE k == KindOf[r]
           s == SparkOf[r]
<1>0. /\ k \in Kinds /\ s \in Sparks /\ r # NoRun /\ active[k][s] = NoRun
      /\ status[r] = "none" /\ r \notin loop
  BY LoadAssumption DEF RunBegins, LoadInv, AskOK
<1>1. /\ active' \in [Kinds -> [Sparks -> Runs \union {NoRun}]]
      /\ \A l \in Kinds, q \in Sparks : active'[l][q] = IF l = k /\ q = s THEN r ELSE active[l][q]
  <2>1. active \in [Kinds -> [Sparks -> Runs \union {NoRun}]] /\ r \in Runs \union {NoRun}
    BY DEF LoadInv, LoadTypes
  <2>2. active' = [active EXCEPT ![k][s] = r]
    BY DEF RunBegins, Activated
  <2> QED
    BY <1>0, <2>1, <2>2, PutIs
<1>2. /\ \A q \in Runs : asked'[q] = IF q = r THEN "started" ELSE asked[q]
      /\ \A q \in Runs : status'[q] = IF q = r THEN "running" ELSE status[q]
      /\ asked' \in [Runs -> {"idle", "resolving", "started", "refused"}]
      /\ status' \in [Runs -> {"none", "running"} \union Ended]
  BY DEF RunBegins, LoadInv, LoadTypes
<1>3. \A l : Running(l)' = IF l = k THEN Running(l) \union {r} ELSE Running(l)
  BY <1>2 DEF Running
<1>4. /\ checkpoint' \in [Benches -> SUBSET Runs]
      /\ \A l \in Benches : checkpoint'[l] = IF l = k THEN Running(l)' ELSE checkpoint[l]
  BY <1>0 DEF RunBegins, Checkpointed, IsBench, Running, LoadInv, LoadTypes
<1>5. LoadTypes'
  <2>1. /\ loop' \subseteq Runs /\ raced' \subseteq Runs
        /\ UNCHANGED <<aborted, cleared, stopping, boots>>
    BY DEF RunBegins, Resolving, LoadInv, LoadTypes
  <2> QED
    BY <1>1, <1>2, <1>4, <2>1 DEF LoadInv, LoadTypes
<1>6. AskOK'
  BY <1>2 DEF RunBegins, LoadInv, AskOK, IsBench
<1>7. ActiveOK'
  BY <1>1 DEF LoadInv, ActiveOK
<1>8. LoopsRun'
  BY <1>2 DEF RunBegins, LoadInv, LoopsRun, LoadTypes, IsBench
<1>9. BenchIsActive'
  <2> SUFFICES ASSUME ~stopping, NEW l \in Benches, NEW q \in Running(l)'
               PROVE  active'[l][SparkOf[q]] = q
    BY DEF BenchIsActive, RunBegins
  <2>1. q \in Runs /\ SparkOf[q] \in Sparks /\ l \in Kinds /\ KindOf[q] = l
    BY LoadAssumption DEF Running, Kinds
  <2>2. CASE q = r
    BY <1>1, <2>1, <2>2
  <2>3. CASE q # r
    <3>1. active[l][SparkOf[q]] = q
      BY <1>3, <2>3 DEF LoadInv, BenchIsActive
    <3> QED
      BY <1>0, <1>1, <2>1, <3>1, LoadAssumption
  <2> QED
    BY <2>2, <2>3
<1>10. FileIsRunning'
  BY <1>3, <1>4 DEF LoadInv, FileIsRunning
<1>11. Apart'
  <2> SUFFICES ASSUME NEW l \in Kinds, NEW m \in Kinds, NEW q \in Sparks, l # m,
                      active'[l][q] \in Runs \ raced', active'[m][q] \in Runs \ raced',
                      status'[active'[l][q]] = "running", status'[active'[m][q]] = "running"
               PROVE  FALSE
    BY DEF Apart
  <2>2. ASSUME NEW x \in Kinds, NEW y \in Kinds, x # y, x = k, q = s, active'[x][q] \notin raced',
               active'[y][q] \in Runs, status'[active'[y][q]] = "running"
        PROVE  FALSE
    <3>1. r \notin raced /\ active'[y][q] = active[y][q]
      BY <1>1, <2>2 DEF RunBegins
    <3>2. ~Occupied(y, s)
      BY <2>2, <3>1 DEF RunBegins
    <3>3. active[y][s] \in Runs /\ active[y][s] # r
      BY <1>0, <2>2, <3>1 DEF LoadInv, ActiveOK
    <3> QED
      BY <1>2, <2>2, <3>1, <3>2, <3>3, LoadAssumption DEF Occupied
  <2>3. ASSUME NEW x \in Kinds, active'[x][q] \in Runs, status'[active'[x][q]] = "running", ~(x = k /\ q = s)
        PROVE  active'[x][q] = active[x][q] /\ status[active[x][q]] = "running"
    <3>1. active'[x][q] = active[x][q]
      BY <1>1, <2>3
    <3>2. active[x][q] # r
      BY <1>0, <2>3, <3>1 DEF LoadInv, ActiveOK
    <3> QED
      BY <1>2, <2>3, <3>1, <3>2
  <2>4. CASE (l = k /\ q = s) \/ (m = k /\ q = s)
    BY <2>2, <2>4
  <2>5. CASE ~(l = k /\ q = s) /\ ~(m = k /\ q = s)
    <3>1. /\ active[l][q] \in Runs \ raced /\ status[active[l][q]] = "running"
          /\ active[m][q] \in Runs \ raced /\ status[active[m][q]] = "running"
      BY <2>3, <2>5 DEF RunBegins
    <3> QED
      BY <3>1 DEF LoadInv, Apart
  <2> QED
    BY <2>4, <2>5
<1>12. (Resolving \ raced)' = {}
  BY <1>2 DEF Resolving, RunBegins
<1>13. FreeOK' /\ SlotsOK'
  BY <1>12 DEF FreeOK, SlotsOK
<1>14. CapOK'
  <2>1. CASE IsBench(r) /\ r \notin raced
    <3>1. Load' \in SUBSET (Load \union {r})
      BY <1>3 DEF Load, RunBegins
    <3>2. IsFiniteSet(Load) /\ Cardinality(Load) \in Nat /\ Cardinality(Slots) \in Nat
      BY SlotsAreFinite
    <3>3. IsFiniteSet(Load \union {r}) /\ Cardinality(Load \union {r}) <= Cardinality(Load) + 1
          /\ Cardinality(Load \union {r}) \in Nat
      <4>1. /\ IsFiniteSet(Load \union {r})
            /\ Cardinality(Load \union {r}) = IF r \in Load THEN Cardinality(Load) ELSE Cardinality(Load) + 1
        BY <3>2, FS_AddElement
      <4> QED
        BY <3>2, <4>1
    <3>4. Cardinality(Load') <= Cardinality(Load \union {r}) /\ Cardinality(Load') \in Nat
      BY <3>1, <3>3, FS_Subset, FS_CardinalityType
    <3>5. Cardinality(Slots) < Cap
      BY <2>1 DEF RunBegins
    <3>6. ~stopping => Cardinality(Load) <= Cardinality(Slots)
      BY LoadFits
    <3>7. Cap \in Nat /\ (~stopping' => ~stopping)
      BY LoadAssumption DEF RunBegins
    <3>8. ~stopping' => Cardinality(Load') <= Cap
      BY <3>2, <3>3, <3>4, <3>5, <3>6, <3>7
    <3> QED
      BY <3>8 DEF CapOK
  <2>2. CASE ~(IsBench(r) /\ r \notin raced)
    <3>1. Load' \in SUBSET Load
      BY <1>3, <2>2 DEF Load, RunBegins, IsBench, Benches
    <3>2. IsFiniteSet(Load) /\ Cardinality(Load) \in Nat
      BY SlotsAreFinite
    <3>3. Cardinality(Load') <= Cardinality(Load) /\ Cardinality(Load') \in Nat
      BY <3>1, <3>2, FS_Subset, FS_CardinalityType
    <3>4. ~stopping' => ~stopping
      BY DEF RunBegins
    <3>5. ~stopping => Cardinality(Load) <= Cap
      BY DEF LoadInv, CapOK
    <3>6. ~stopping' => Cardinality(Load') <= Cap
      BY <3>2, <3>3, <3>4, <3>5, LoadAssumption
    <3> QED
      BY <3>6 DEF CapOK
  <2> QED
    BY <2>1, <2>2
<1>15. LoopsStay
  BY <1>2 DEF LoopsStay, RunBegins, LoadInv, LoadTypes
<1>16. FilesStay({})
  <2> SUFFICES ASSUME NEW q \in Runs, IsBench(q), asked'[q] = "started"
               PROVE  \/ q \in checkpoint'[KindOf[q]]
                      \/ asked[q] = "started" /\ q \notin checkpoint[KindOf[q]]
    BY DEF FilesStay, RunBegins, IsBench
  <2>1. CASE q = r
    BY <1>3, <1>4, <2>1 DEF IsBench
  <2>2. CASE q # r
    <3>1. KindOf[q] \in Benches /\ asked[q] = "started"
      BY <1>2, <2>2 DEF IsBench
    <3>2. q \in checkpoint[KindOf[q]] => q \in checkpoint'[KindOf[q]]
      BY <1>3, <1>4, <3>1 DEF LoadInv, FileIsRunning
    <3> QED
      BY <3>1, <3>2
  <2> QED
    BY <2>1, <2>2
<1>17. history' = history
  BY DEF RunBegins
<1> QED
  BY <1>5, <1>6, <1>7, <1>8, <1>9, <1>10, <1>11, <1>13, <1>14, <1>15, <1>16, <1>17, HistoryStays DEF LoadInv

\* A run that runs is in no history yet; nor is one whose record was cleared
\* before its loop returned.
LEMMA NotYetTold ==
    ASSUME LoadInv, NEW r \in loop, status[r] \notin Ended, NEW k \in Kinds, NEW s \in Sparks
    PROVE  r \notin RunsIn(history[k][s])
<1> SUFFICES ASSUME NEW i \in DOMAIN history[k][s], history[k][s][i].run = r PROVE FALSE
  BY DEF RunsIn
<1>1. history[k][s][i] \in Reports
  BY SeqFacts DEF LoadInv, HistoryTypes
<1>2. status[r] = history[k][s][i].status
  BY DEF LoadInv, HistoryOK
<1> QED
  BY <1>1, <1>2 DEF Reports

LEMMA CancelStep ==
    ASSUME LoadInv, NEW r \in Runs, Cancel(r)
    PROVE  LoadInv' /\ Final
<1>0. /\ status[r] = "running" /\ aborted' = aborted \union {r}
      /\ UNCHANGED <<asked, loop, checkpoint, stopping, boots, raced, cleared>>
      /\ KindOf[r] \in Kinds /\ SparkOf[r] \in Sparks /\ asked[r] = "started"
  BY LoadAssumption DEF Cancel, LoadInv, AskOK
<1>1. CASE IsBench(r)
  <2>1. UNCHANGED <<asked, loop, checkpoint, stopping, boots, raced, cleared, status, active, history>>
        /\ aborted' \subseteq Runs
    BY <1>0, <1>1 DEF Cancel, Freed, LoadInv, LoadTypes
  <2>2. LoadTypes'
    BY <2>1 DEF LoadInv, LoadTypes
  <2>3. /\ \A k : Running(k)' = Running(k)
        /\ AskOK' /\ LoopsRun'
    BY <2>1 DEF Running, LoadInv, AskOK, LoopsRun, IsBench
  <2>4. BenchIsActive' /\ FileIsRunning'
    BY <2>1, <2>3 DEF LoadInv, BenchIsActive, FileIsRunning
  <2>5. StartsNothing /\ (~stopping' => ~stopping)
    BY <2>1 DEF StartsNothing, Resolving
  <2>6. LoopsStay /\ FilesStay({})
    BY <2>1 DEF LoopsStay, FilesStay
  <2> QED
    BY <2>1, <2>2, <2>3, <2>4, <2>5, <2>6, HistoryStays, QuietKeeps DEF LoadInv
<1>2. CASE ~IsBench(r)
  <2> DEFINE k == KindOf[r]
             s == SparkOf[r]
             e == Report(r, "cancelled")
  <2>1. /\ active' = [active EXCEPT ![k][s] = NoRun] /\ status' = [status EXCEPT ![r] = "cancelled"]
        /\ history' = PushedTo(r, "cancelled") /\ k = "showcase"
    BY <1>0, <1>2 DEF Cancel, Freed, Deleted, IsBench, Kinds
  <2>2. /\ active' \in [Kinds -> [Sparks -> Runs \union {NoRun}]]
        /\ \A l \in Kinds, q \in Sparks : active'[l][q] = IF l = k /\ q = s THEN NoRun ELSE active[l][q]
    <3>1. active \in [Kinds -> [Sparks -> Runs \union {NoRun}]] /\ NoRun \in Runs \union {NoRun}
      BY DEF LoadInv, LoadTypes
    <3> QED
      BY <1>0, <2>1, <3>1, PutIs
  <2>3. /\ status' \in [Runs -> {"none", "running"} \union Ended]
        /\ \A q \in Runs : status'[q] = IF q = r THEN "cancelled" ELSE status[q]
    BY <2>1 DEF LoadInv, LoadTypes, Ended
  <2>4. LoadTypes'
    BY <1>0, <2>2, <2>3 DEF LoadInv, LoadTypes
  <2>5. \A l \in Benches : Running(l)' = Running(l)
    BY <1>2, <2>3 DEF Running, IsBench
  <2>6. AskOK' /\ LoopsRun'
    BY <1>0, <1>2, <2>3 DEF LoadInv, AskOK, LoopsRun, IsBench, LoadTypes
  <2>7. BenchIsActive'
    <3>1. \A l \in Benches, q \in Sparks : active'[l][q] = active[l][q]
      BY <2>1, <2>2 DEF Benches, Kinds
    <3>2. \A l : \A q \in Running(l) : SparkOf[q] \in Sparks
      BY LoadAssumption DEF Running
    <3> QED
      BY <1>0, <2>5, <3>1, <3>2 DEF LoadInv, BenchIsActive
  <2>8. FileIsRunning'
    BY <1>0, <2>5 DEF LoadInv, FileIsRunning
  <2>9. StartsNothing /\ (~stopping' => ~stopping)
    BY <1>0, <2>2, <2>3 DEF StartsNothing, Resolving
  <2>10. Extends({e})
    BY <2>1, OneReport DEF Ended
  <2>11. NewsOK({e})
    <3>1. \A i \in DOMAIN history[k][s] : history[k][s][i].run # r
      <4>1. r \in loop /\ status[r] \notin Ended
        BY <1>0 DEF LoadInv, AskOK, Ended
      <4>2. r \notin RunsIn(history[k][s])
        BY <1>0, <4>1, NotYetTold
      <4> QED
        BY <4>2 DEF RunsIn
    <3> QED
      BY <1>0, <2>3, <3>1 DEF NewsOK, Report
  <2>12. LoopsStay /\ FilesStay({e})
    BY <1>0, <2>3 DEF LoopsStay, FilesStay, LoadInv, LoadTypes
  <2> QED
    BY <2>4, <2>6, <2>7, <2>8, <2>9, <2>10, <2>11, <2>12, HistoryGrows, QuietKeeps DEF LoadInv
<1> QED
  BY <1>1, <1>2

LEMMA ReturnStep ==
    ASSUME LoadInv, NEW r \in Runs, NEW how \in {"completed", "failed"}, LoopReturns(r, how)
    PROVE  LoadInv' /\ Final
<1> DEFINE k == KindOf[r]
           s == SparkOf[r]
           st == IF status[r] = "none" THEN "cancelled" ELSE Settled(r, how)
           e == Report(r, st)
<1>0. /\ r \in loop /\ loop' = loop \ {r} /\ active' = [active EXCEPT ![k][s] = NoRun]
      /\ history' = PushedTo(r, st) /\ k \in Kinds /\ s \in Sparks /\ asked[r] = "started"
      /\ checkpoint' = IF IsBench(r) THEN Checkpointed(k, status') ELSE checkpoint
      /\ UNCHANGED <<asked, aborted, stopping, boots, raced, cleared>>
  BY LoadAssumption DEF LoopReturns, Deleted, LoadInv, AskOK
<1>1. st \in Ended /\ (status[r] \in Ended => st = status[r]) /\ status[r] \in {"none", "running"} \union Ended
  BY DEF Settled, Ended, LoadInv, LoadTypes
<1>2. /\ status' \in [Runs -> {"none", "running"} \union Ended] /\ status'[r] # "running"
      /\ \A q \in Runs \ {r} : status'[q] = status[q]
  <2>1. status' = [status EXCEPT ![r] = IF @ = "none" THEN "none" ELSE Settled(r, how)]
    BY DEF LoopReturns
  <2>2. status' = [status EXCEPT ![r] = IF status[r] = "none" THEN "none" ELSE st]
    BY <2>1
  <2> HIDE DEF st
  <2> QED
    BY <1>1, <2>2 DEF LoadInv, LoadTypes, Ended
<1> HIDE DEF st
<1>3. /\ active' \in [Kinds -> [Sparks -> Runs \union {NoRun}]]
      /\ \A l \in Kinds, q \in Sparks : active'[l][q] = IF l = k /\ q = s THEN NoRun ELSE active[l][q]
  <2>1. active \in [Kinds -> [Sparks -> Runs \union {NoRun}]] /\ NoRun \in Runs \union {NoRun}
    BY DEF LoadInv, LoadTypes
  <2> QED
    BY <1>0, <2>1, PutIs
<1>4. \A l : Running(l)' = Running(l) \ {r}
  BY <1>2 DEF Running
<1>5. \A l : l # k => r \notin Running(l)
  BY DEF Running
<1>6. /\ checkpoint' \in [Benches -> SUBSET Runs]
      /\ \A l \in Benches : checkpoint'[l] = IF l = k THEN Running(l)' ELSE checkpoint[l]
  BY <1>0 DEF Checkpointed, IsBench, Running, LoadInv, LoadTypes
<1>7. LoadTypes'
  BY <1>0, <1>2, <1>3, <1>6 DEF LoadInv, LoadTypes
<1>8. AskOK' /\ LoopsRun'
  BY <1>0, <1>2 DEF LoadInv, AskOK, LoopsRun, IsBench, LoadTypes
<1>9. BenchIsActive'
  <2> SUFFICES ASSUME ~stopping, NEW l \in Benches, NEW q \in Running(l)'
               PROVE  active'[l][SparkOf[q]] = q
    BY <1>0 DEF BenchIsActive
  <2>1. q \in Running(l) /\ q # r /\ q \in Runs /\ SparkOf[q] \in Sparks /\ l \in Kinds /\ KindOf[q] = l
    BY <1>4, LoadAssumption DEF Running, Kinds
  <2>2. active[l][SparkOf[q]] = q
    BY <2>1 DEF LoadInv, BenchIsActive
  <2>3. ASSUME l = k PROVE active[k][s] = r
    <3>1. r \in Running(k)
      BY <1>0, <2>3 DEF LoadInv, LoopsRun, IsBench, Running
    <3> QED
      BY <2>3, <3>1 DEF LoadInv, BenchIsActive
  <2> QED
    BY <1>3, <2>1, <2>2, <2>3
<1>10. FileIsRunning'
  BY <1>4, <1>5, <1>6 DEF LoadInv, FileIsRunning
<1>11. StartsNothing /\ (~stopping' => ~stopping)
  BY <1>0, <1>2, <1>3 DEF StartsNothing, Resolving
<1>12. Extends({e})
  BY <1>0, <1>1, OneReport
<1>13. NewsOK({e})
  <2>1. ASSUME NEW i \in DOMAIN history[k][s], history[k][s][i].run = r PROVE history[k][s][i].status = st
    <3>1. status[r] = history[k][s][i].status
      BY <1>0, <2>1 DEF LoadInv, HistoryOK
    <3>2. status[r] \in Ended
      BY <1>0, <2>1, NotYetTold DEF RunsIn
    <3> QED
      BY <1>1, <3>1, <3>2
  <2> QED
    BY <1>0, <2>1 DEF NewsOK, Report
<1>14. LoopsStay
  BY <1>0, <1>2 DEF LoopsStay, LoadInv, LoadTypes
<1>15. FilesStay({e})
  <2> SUFFICES ASSUME NEW q \in Runs, IsBench(q), asked'[q] = "started", q \in checkpoint[KindOf[q]]
               PROVE  q \in checkpoint'[KindOf[q]] \/ e.run = q
    BY <1>0 DEF FilesStay, IsBench
  <2>1. e.run = r
    BY DEF Report
  <2> QED
    BY <1>4, <1>6, <2>1 DEF LoadInv, FileIsRunning, IsBench
<1> QED
  BY <1>7, <1>8, <1>9, <1>10, <1>11, <1>12, <1>13, <1>14, <1>15, HistoryGrows, QuietKeeps DEF LoadInv

LEMMA ClearStep ==
    ASSUME LoadInv, NEW k \in Kinds, NEW s \in Sparks, Clear(k, s)
    PROVE  LoadInv' /\ Final
<1> DEFINE gone == {r \in Runs : KindOf[r] = k /\ SparkOf[r] = s /\ status[r] # "running"}
<1>0. /\ ~Occupied(k, s) /\ cleared' = cleared \union gone \union RunsIn(history[k][s])
      /\ history' = [history EXCEPT ![k][s] = <<>>]
      /\ status' = [r \in Runs |-> IF r \in gone THEN "none" ELSE status[r]]
      /\ UNCHANGED <<asked, loop, active, aborted, checkpoint, stopping, boots, raced>>
  BY DEF Clear
<1>1. /\ status' \in [Runs -> {"none", "running"} \union Ended]
      /\ \A r \in Runs : status[r] = "running" => status'[r] = "running"
      /\ \A r \in Runs : status'[r] = IF r \in gone THEN "none" ELSE status[r]
  BY <1>0 DEF LoadInv, LoadTypes
<1>2. history \in [Kinds -> [Sparks -> Seq(Reports)]]
  BY DEF LoadInv, HistoryTypes
<1>3. cleared' \subseteq Runs
  <2>1. \A i \in DOMAIN history[k][s] : history[k][s][i] \in Reports
    BY <1>2, SeqFacts
  <2>2. RunsIn(history[k][s]) \subseteq Runs
    BY <2>1 DEF RunsIn, Reports
  <2> QED
    BY <1>0, <2>2 DEF LoadInv, LoadTypes
<1>4. LoadTypes'
  BY <1>0, <1>1, <1>3 DEF LoadInv, LoadTypes
<1>5. /\ history' \in [Kinds -> [Sparks -> Seq(Reports)]]
      /\ \A l \in Kinds, q \in Sparks : history'[l][q] = IF l = k /\ q = s THEN <<>> ELSE history[l][q]
  <2>1. <<>> \in Seq(Reports)
    BY EmptySeq
  <2> QED
    BY <1>0, <1>2, <2>1, PutIs
<1>6. Len(<<>>) = 0 /\ DOMAIN <<>> = {}
  BY EmptySeq
<1>7. HistoryTypes'
  BY <1>5, <1>6, LoadAssumption DEF LoadInv, HistoryTypes
<1>8. HistoryOK'
  <2> SUFFICES ASSUME NEW l \in Kinds, NEW q \in Sparks, NEW i \in DOMAIN history'[l][q]
               PROVE  LET e == history'[l][q][i] IN
                      /\ asked'[e.run] = "started" /\ KindOf[e.run] = l /\ SparkOf[e.run] = q
                      /\ e.run \in loop' => status'[e.run] = e.status
                      /\ \A j \in DOMAIN history'[l][q] :
                            history'[l][q][j].run = e.run => history'[l][q][j].status = e.status
    BY DEF HistoryOK
  <2>1. history'[l][q] = history[l][q] /\ ~(l = k /\ q = s)
    BY <1>5, <1>6
  <2> DEFINE e == history[l][q][i]
  <2>2. /\ asked[e.run] = "started" /\ KindOf[e.run] = l /\ SparkOf[e.run] = q
        /\ e.run \in loop => status[e.run] = e.status
        /\ \A j \in DOMAIN history[l][q] : history[l][q][j].run = e.run => history[l][q][j].status = e.status
    BY <2>1 DEF LoadInv, HistoryOK
  <2>3. e.run \in loop => status'[e.run] = status[e.run]
    BY <1>1, <2>1, <2>2 DEF LoadInv, LoadTypes
  <2> QED
    <3>1. /\ asked'[e.run] = "started" /\ KindOf[e.run] = l /\ SparkOf[e.run] = q
          /\ e.run \in loop' => status'[e.run] = e.status
      BY <1>0, <2>2, <2>3
    <3>2. \A j \in DOMAIN history[l][q] : history[l][q][j].run = e.run => history[l][q][j].status = e.status
      BY <2>2
    <3>3. history'[l][q] = history[l][q]
      BY <2>1
    <3> QED
      BY <3>1, <3>2, <3>3
<1>9. Final
  BY <1>5, <1>6 DEF Final, LoadInv, HistoryOK
<1>10. AskOK' /\ LoopsRun'
  BY <1>0, <1>1 DEF LoadInv, AskOK, LoopsRun, IsBench, LoadTypes
<1>11. \A l : Running(l)' = Running(l)
  BY <1>1 DEF Running
<1>12. BenchIsActive' /\ FileIsRunning'
  BY <1>0, <1>11 DEF LoadInv, BenchIsActive, FileIsRunning
<1>13. StartsNothing /\ (~stopping' => ~stopping)
  BY <1>0, <1>1 DEF StartsNothing, Resolving
<1>14. EveryBenchReported'
  <2> SUFFICES ASSUME NEW r \in Runs, IsBench(r), asked[r] = "started",
                      r \notin checkpoint[KindOf[r]], r \notin cleared'
               PROVE  LET g == history'[KindOf[r]][SparkOf[r]] IN r \in RunsIn(g) \/ Len(g) = Limit
    BY <1>0 DEF EveryBenchReported, IsBench
  <2>1. KindOf[r] \in Kinds /\ SparkOf[r] \in Sparks /\ KindOf[r] \in Benches
    BY LoadAssumption DEF IsBench
  <2>2. status[r] # "running"
    BY <2>1 DEF LoadInv, FileIsRunning, Running
  <2>3. ~(KindOf[r] = k /\ SparkOf[r] = s)
    BY <1>0, <2>2
  <2>4. history'[KindOf[r]][SparkOf[r]] = history[KindOf[r]][SparkOf[r]] /\ r \notin cleared
    BY <1>0, <1>5, <2>1, <2>3
  <2> QED
    BY <2>4 DEF LoadInv, EveryBenchReported
<1> QED
  BY <1>4, <1>7, <1>8, <1>9, <1>10, <1>12, <1>13, <1>14, QuietKeeps DEF LoadInv

LEMMA InterruptStep ==
    ASSUME LoadInv, Interrupt
    PROVE  LoadInv' /\ Final
<1> DEFINE hit == Running("decode") \union Running("prefill")
           new == {Report(r, "failed") : r \in {q \in hit : active[KindOf[q]][SparkOf[q]] = q}}
<1>0. /\ ~stopping /\ stopping' = TRUE /\ aborted' = aborted \union hit
      /\ status' = [r \in Runs |-> IF r \in hit THEN "failed" ELSE status[r]]
      /\ active' = [k \in Kinds |-> [s \in Sparks |-> IF active[k][s] \in hit THEN NoRun ELSE active[k][s]]]
      /\ history' = [k \in Kinds |-> [s \in Sparks |->
                     IF active[k][s] \in hit THEN Pushed(history[k][s], Report(active[k][s], "failed"))
                     ELSE history[k][s]]]
      /\ checkpoint' = [k \in Benches |-> {}]
      /\ UNCHANGED <<asked, loop, boots, raced, cleared>>
  BY DEF Interrupt
<1>1. \A r \in hit : /\ r \in Runs /\ status[r] = "running" /\ IsBench(r) /\ r \in loop /\ asked[r] = "started"
                     /\ KindOf[r] \in Kinds /\ SparkOf[r] \in Sparks /\ active[KindOf[r]][SparkOf[r]] = r
  BY <1>0, LoadAssumption DEF Running, IsBench, Benches, LoadInv, AskOK, BenchIsActive
<1>2. \A k \in Benches : Running(k) \subseteq hit
  BY DEF Benches
<1>3. \A r \in Runs : IsBench(r) /\ status[r] = "running" => r \in hit
  BY DEF IsBench, Benches, Running
<1> HIDE DEF hit
<1>4. /\ status' \in [Runs -> {"none", "running"} \union Ended]
      /\ \A r \in Runs : status'[r] = IF r \in hit THEN "failed" ELSE status[r]
  BY <1>0 DEF LoadInv, LoadTypes, Ended
<1>5. /\ active' \in [Kinds -> [Sparks -> Runs \union {NoRun}]]
      /\ \A k \in Kinds, s \in Sparks : active'[k][s] = IF active[k][s] \in hit THEN NoRun ELSE active[k][s]
  BY <1>0 DEF LoadInv, LoadTypes
<1>6. LoadTypes'
  <2>1. aborted' \subseteq Runs /\ checkpoint' \in [Benches -> SUBSET Runs]
    BY <1>0, <1>1 DEF LoadInv, LoadTypes
  <2>2. stopping' \in BOOLEAN
    BY <1>0
  <2>3. UNCHANGED <<asked, loop, boots, raced, cleared>>
    BY <1>0
  <2> QED
    BY <1>4, <1>5, <2>1, <2>2, <2>3 DEF LoadInv, LoadTypes
<1>7. AskOK'
  BY <1>0, <1>1, <1>4 DEF LoadInv, AskOK, IsBench
<1>8. LoopsRun' /\ BenchIsActive'
  BY <1>0 DEF LoopsRun, BenchIsActive
<1>9. FileIsRunning'
  BY <1>0, <1>3, <1>4 DEF FileIsRunning, Running, IsBench
<1>10. StartsNothing /\ (~stopping' => ~stopping)
  BY <1>0, <1>4, <1>5 DEF StartsNothing, Resolving
<1>11. \A k \in Kinds, s \in Sparks :
          At(new, k, s) = IF active[k][s] \in hit THEN {Report(active[k][s], "failed")} ELSE {}
  <2>1. ASSUME NEW k \in Kinds, NEW s \in Sparks, NEW e \in At(new, k, s)
        PROVE  active[k][s] \in hit /\ e = Report(active[k][s], "failed")
    BY <2>1 DEF At, Report
  <2>2. ASSUME NEW k \in Kinds, NEW s \in Sparks, active[k][s] \in hit
        PROVE  Report(active[k][s], "failed") \in At(new, k, s)
    <3>1. active[k][s] # NoRun
      BY <1>1, <2>2, LoadAssumption
    <3>2. KindOf[active[k][s]] = k /\ SparkOf[active[k][s]] = s
      BY <3>1 DEF LoadInv, ActiveOK
    <3> QED
      BY <2>2, <3>2 DEF At, Report
  <2> QED
    BY <2>1, <2>2
<1>12. Extends(new)
  <2>1. ASSUME NEW k \in Kinds, NEW s \in Sparks PROVE Grown(history[k][s], history'[k][s], At(new, k, s))
    <3>1. history[k][s] \in Seq(Reports) /\ Len(history[k][s]) <= Limit
      BY DEF LoadInv, HistoryTypes
    <3>2. CASE active[k][s] \in hit
      <4>1. history'[k][s] = Pushed(history[k][s], Report(active[k][s], "failed"))
        BY <1>0, <3>2
      <4>2. active[k][s] \in Runs /\ "failed" \in Ended
        BY <1>1, <3>2 DEF Ended
      <4> QED
        <5>1. Grown(history[k][s], Pushed(history[k][s], Report(active[k][s], "failed")), {Report(active[k][s], "failed")})
          BY <3>1, <4>2, PushedIsGrown
        <5>2. At(new, k, s) = {Report(active[k][s], "failed")}
          BY <1>11, <3>2
        <5> HIDE DEF new
        <5> QED
          BY <4>1, <5>1, <5>2
    <3>3. CASE active[k][s] \notin hit
      <4>1. history'[k][s] = history[k][s]
        BY <1>0, <3>3
      <4> QED
        BY <1>11, <3>1, <3>3, <4>1, SameIsGrown
    <3> QED
      BY <3>2, <3>3
  <2>2. \A k \in Kinds, s \in Sparks : history'[k][s] \in Seq(Reports)
    BY <2>1 DEF Grown
  <2>3. history' \in [Kinds -> [Sparks -> Seq(Reports)]]
    BY <1>0, <2>2
  <2> QED
    BY <2>1, <2>3 DEF Extends
<1>13. NewsOK(new)
  <2> SUFFICES ASSUME NEW e \in new
               PROVE  /\ asked[e.run] = "started" /\ KindOf[e.run] \in Kinds /\ SparkOf[e.run] \in Sparks
                      /\ \A d \in new : d.run = e.run => d.status = e.status
                      /\ e.run \in loop' => status'[e.run] = e.status
                      /\ LET h == history[KindOf[e.run]][SparkOf[e.run]]
                         IN  \A i \in DOMAIN h : h[i].run = e.run => h[i].status = e.status
    BY DEF NewsOK
  <2>1. e.run \in hit /\ e.status = "failed" /\ \A d \in new : d.status = "failed"
    BY DEF Report
  <2>2. e.run \notin RunsIn(history[KindOf[e.run]][SparkOf[e.run]])
    BY <1>1, <2>1, NotYetTold DEF Ended
  <2> QED
    <3>1. /\ asked[e.run] = "started" /\ KindOf[e.run] \in Kinds /\ SparkOf[e.run] \in Sparks
          /\ status'[e.run] = e.status
      BY <1>1, <1>4, <2>1
    <3>2. \A i \in DOMAIN history[KindOf[e.run]][SparkOf[e.run]] :
             history[KindOf[e.run]][SparkOf[e.run]][i].run # e.run
      BY <2>2 DEF RunsIn
    <3> HIDE DEF new
    <3> QED
      BY <2>1, <3>1, <3>2
<1>14. LoopsStay
  BY <1>0, <1>1, <1>4 DEF LoopsStay, LoadInv, LoadTypes
<1>15. FilesStay(new)
  <2> SUFFICES ASSUME NEW r \in Runs, IsBench(r), asked[r] = "started", r \in checkpoint[KindOf[r]]
               PROVE  \E e \in new : e.run = r
    BY <1>0 DEF FilesStay
  <2>1. r \in hit
    BY <1>2 DEF LoadInv, FileIsRunning, IsBench
  <2>2. Report(r, "failed") \in new /\ Report(r, "failed").run = r
    BY <1>1, <2>1 DEF Report
  <2> QED
    BY <2>2
<1> QED
  BY <1>6, <1>7, <1>8, <1>9, <1>10, <1>12, <1>13, <1>14, <1>15, HistoryGrows, QuietKeeps DEF LoadInv

LEMMA BootStep ==
    ASSUME LoadInv, LoadBoot
    PROVE  LoadInv' /\ Final
<1> DEFINE left == LeftOver("decode") \union LeftOver("prefill")
           mine(k, s) == {r \in LeftOver(k) : SparkOf[r] = s}
           new == {Report(r, "failed") : r \in left}
<1>0. /\ stopping' = FALSE /\ boots < MaxBoots /\ boots' = boots + 1
      /\ asked' = [r \in Runs |-> IF asked[r] = "resolving" THEN "refused" ELSE asked[r]]
      /\ status' = [r \in Runs |-> IF r \in left THEN "failed" ELSE "none"]
      /\ loop' = {} /\ aborted' = {}
      /\ active' = [k \in Kinds |-> [s \in Sparks |-> NoRun]]
      /\ checkpoint' = [k \in Benches |-> {}]
      /\ UNCHANGED <<raced, cleared>>
  BY DEF LoadBoot
<1>1. PICK order : /\ \A k \in Benches, s \in Sparks : order[k][s] \in Orders(mine(k, s))
                   /\ history' = [k \in Kinds |-> [s \in Sparks |->
                        IF k \in Benches THEN Cut(Failures(order[k][s]) \o history[k][s]) ELSE history[k][s]]]
  BY DEF LoadBoot
<1>2. ASSUME NEW k \in Benches, NEW r \in LeftOver(k)
      PROVE  /\ r \in Runs /\ KindOf[r] = k /\ asked[r] = "started" /\ SparkOf[r] \in Sparks
             /\ r \notin RunsIn(history[k][SparkOf[r]]) /\ r \in left
  <2>1. r \in checkpoint[k] /\ r \notin RunsIn(history[k][SparkOf[r]])
    BY <1>2 DEF LeftOver
  <2>2. r \in Runs /\ KindOf[r] = k /\ status[r] = "running"
    BY <2>1 DEF LoadInv, FileIsRunning, Running
  <2>3. asked[r] = "started" /\ SparkOf[r] \in Sparks
    BY <2>2, LoadAssumption DEF LoadInv, AskOK
  <2> QED
    BY <1>2, <2>1, <2>2, <2>3 DEF Benches
<1>3. ASSUME NEW r \in left PROVE KindOf[r] \in Benches /\ r \in LeftOver(KindOf[r])
  BY <1>2 DEF Benches
<1> HIDE DEF left
<1>4. LoadTypes'
  <2>1. /\ asked' \in [Runs -> {"idle", "resolving", "started", "refused"}]
        /\ status' \in [Runs -> {"none", "running"} \union Ended]
    BY <1>0 DEF LoadInv, LoadTypes, Ended
  <2>2. /\ active' \in [Kinds -> [Sparks -> Runs \union {NoRun}]] /\ checkpoint' \in [Benches -> SUBSET Runs]
        /\ loop' \subseteq Runs /\ aborted' \subseteq Runs /\ raced' \subseteq Runs /\ cleared' \subseteq Runs
    BY <1>0 DEF LoadInv, LoadTypes
  <2>3. stopping' \in BOOLEAN
    BY <1>0
  <2>4. boots' \in 0..MaxBoots
    BY <1>0, LoadAssumption DEF LoadInv, LoadTypes
  <2> QED
    BY <2>1, <2>2, <2>3, <2>4 DEF LoadTypes
<1>5. ASSUME NEW r \in Runs
      PROVE  /\ asked'[r] \notin {"resolving"} /\ (asked'[r] = "started" <=> asked[r] = "started")
             /\ status'[r] # "running" /\ (status'[r] # "none" => r \in left)
  BY <1>0
<1>6. AskOK'
  <2>1. \A r \in left : asked[r] = "started"
    BY <1>2, <1>3
  <2> QED
    BY <1>0, <1>5, <2>1 DEF AskOK, IsBench
<1>7. \A k : Running(k)' = {}
  BY <1>5 DEF Running
<1>8. \A k \in Kinds, s \in Sparks : active'[k][s] = NoRun
  BY <1>0
<1>9. ActiveOK' /\ LoopsRun' /\ BenchIsActive' /\ FileIsRunning'
  BY <1>0, <1>7, <1>8 DEF ActiveOK, LoopsRun, BenchIsActive, FileIsRunning
<1>10. Apart'
  BY <1>8, LoadAssumption DEF Apart
<1>11. Resolving' = {} /\ Load' = {}
  BY <1>5, <1>7 DEF Resolving, Load
<1>12. FreeOK' /\ SlotsOK' /\ CapOK'
  BY <1>11, LoadAssumption, FS_EmptySet DEF FreeOK, SlotsOK, CapOK
<1>13. ASSUME NEW k \in Kinds, NEW s \in Sparks
       PROVE  At(new, k, s) = IF k \in Benches THEN {Report(r, "failed") : r \in mine(k, s)} ELSE {}
  <2>1. ASSUME NEW e \in At(new, k, s)
        PROVE  k \in Benches /\ e \in {Report(r, "failed") : r \in mine(k, s)}
    <3>1. PICK r \in left : e = Report(r, "failed")
      BY DEF At
    <3>2. KindOf[r] = k /\ SparkOf[r] = s
      BY <2>1, <3>1 DEF At, Report
    <3> QED
      BY <1>3, <3>1, <3>2
  <2>2. ASSUME k \in Benches, NEW r \in mine(k, s)
        PROVE  Report(r, "failed") \in At(new, k, s)
    BY <1>2, <2>2 DEF At, Report
  <2> QED
    BY <2>1, <2>2
<1>14. Extends(new)
  <2>1. ASSUME NEW k \in Kinds, NEW s \in Sparks PROVE Grown(history[k][s], history'[k][s], At(new, k, s))
    <3>1. history[k][s] \in Seq(Reports) /\ Len(history[k][s]) <= Limit
      BY DEF LoadInv, HistoryTypes
    <3>2. CASE k \in Benches
      <4>1. history'[k][s] = Cut(Failures(order[k][s]) \o history[k][s])
        BY <1>1, <3>2
      <4>2. mine(k, s) \in SUBSET Runs
        BY <1>2, <3>2
      <4>3. order[k][s] \in Orders(mine(k, s))
        BY <1>1, <3>2
      <4>4. At(new, k, s) = {Report(r, "failed") : r \in mine(k, s)}
        BY <1>13, <3>2
      <4> HIDE DEF mine, new
      <4> QED
        BY <3>1, <4>1, <4>2, <4>3, <4>4, FailuresAreGrown
    <3>3. CASE k \notin Benches
      <4>1. history'[k][s] = history[k][s] /\ At(new, k, s) = {}
        BY <1>1, <1>13, <3>3
      <4> QED
        BY <3>1, <4>1, SameIsGrown
    <3> QED
      BY <3>2, <3>3
  <2>2. \A k \in Kinds, s \in Sparks : history'[k][s] \in Seq(Reports)
    BY <2>1 DEF Grown
  <2>3. history' \in [Kinds -> [Sparks -> Seq(Reports)]]
    BY <1>1, <2>2
  <2> QED
    BY <2>1, <2>3 DEF Extends
<1>15. NewsOK(new)
  <2> SUFFICES ASSUME NEW e \in new
               PROVE  /\ asked[e.run] = "started" /\ KindOf[e.run] \in Kinds /\ SparkOf[e.run] \in Sparks
                      /\ \A d \in new : d.run = e.run => d.status = e.status
                      /\ e.run \in loop' => status'[e.run] = e.status
                      /\ LET h == history[KindOf[e.run]][SparkOf[e.run]]
                         IN  \A i \in DOMAIN h : h[i].run = e.run => h[i].status = e.status
    BY DEF NewsOK
  <2>1. e.run \in left /\ e.status = "failed" /\ \A d \in new : d.status = "failed"
    BY DEF Report
  <2>2. /\ asked[e.run] = "started" /\ KindOf[e.run] \in Kinds /\ SparkOf[e.run] \in Sparks
        /\ e.run \notin RunsIn(history[KindOf[e.run]][SparkOf[e.run]])
    BY <1>2, <1>3, <2>1 DEF Kinds
  <2> QED
    BY <1>0, <2>1, <2>2 DEF RunsIn
<1>16. LoopsStay
  BY <1>0, <1>5 DEF LoopsStay
<1>17. FilesStay(new)
  <2> SUFFICES ASSUME NEW r \in Runs, IsBench(r), asked[r] = "started", r \in checkpoint[KindOf[r]],
                      r \notin RunsIn(history[KindOf[r]][SparkOf[r]])
               PROVE  \E e \in new : e.run = r
    BY <1>0, <1>5 DEF FilesStay
  <2>1. r \in LeftOver(KindOf[r]) /\ KindOf[r] \in Benches
    BY DEF LeftOver, IsBench
  <2>2. r \in left
    BY <1>2, <2>1
  <2>3. Report(r, "failed") \in new /\ Report(r, "failed").run = r
    BY <2>2 DEF Report
  <2> QED
    BY <2>3
<1> QED
  BY <1>4, <1>6, <1>9, <1>10, <1>12, <1>14, <1>15, <1>16, <1>17, HistoryGrows DEF LoadInv

LEMMA LoadNextInv == LoadInv /\ [LoadNext]_loadVars => LoadInv' /\ Final
<1> SUFFICES ASSUME LoadInv, [LoadNext]_loadVars PROVE LoadInv' /\ Final
  OBVIOUS
<1>1. CASE UNCHANGED loadVars
  BY <1>1, RestStep
<1>2. CASE Interrupt
  BY <1>2, InterruptStep
<1>3. CASE LoadBoot
  BY <1>3, BootStep
<1>4. ASSUME NEW r \in Runs, BenchArrives(r) \/ BenchStarts(r) \/ BenchRefused(r) \/ ShowcaseStarts(r) \/ Cancel(r)
      PROVE  LoadInv' /\ Final
  BY <1>4, ArriveStep, StartsAre, StartStep, RestStep, CancelStep
<1>5. ASSUME NEW r \in Runs, NEW how \in {"completed", "failed"}, LoopReturns(r, how)
      PROVE  LoadInv' /\ Final
  BY <1>5, ReturnStep
<1>6. ASSUME NEW k \in Kinds, NEW s \in Sparks, Clear(k, s) PROVE LoadInv' /\ Final
  BY <1>6, ClearStep
<1> QED
  BY <1>1, <1>2, <1>3, <1>4, <1>5, <1>6 DEF LoadNext

LEMMA LoadHolds == LoadInv => LoadTypeOK /\ BenchIsActive /\ KeepsOff /\ EveryBenchReported
<1> SUFFICES ASSUME LoadInv PROVE LoadTypeOK /\ BenchIsActive /\ KeepsOff /\ EveryBenchReported
  OBVIOUS
<1>1. LoadTypeOK
  BY DEF LoadInv, LoadTypes, HistoryTypes, Reports, LoadTypeOK
<1>2. ASSUME ~stopping, NEW r \in loop \ raced, NEW q \in loop \ raced, r # q, SparkOf[r] = SparkOf[q],
             status[r] = "running", status[q] = "running", ~Lost(r), ~Lost(q)
      PROVE  FALSE
  <2> DEFINE s == SparkOf[r]
  <2>1. r \in Runs /\ q \in Runs /\ KindOf[r] \in Kinds /\ KindOf[q] \in Kinds /\ s \in Sparks
    BY LoadAssumption DEF LoadInv, LoadTypes
  <2>2. active[KindOf[r]][s] = r /\ active[KindOf[q]][s] = q
    BY <1>2 DEF Lost
  <2> QED
    BY <1>2, <2>1, <2>2 DEF LoadInv, Apart
<1>3. ~stopping => Cardinality((Running("decode") \union Running("prefill")) \ raced) <= Cap
  BY DEF LoadInv, CapOK, Load
<1>4. KeepsOff
  BY <1>2, <1>3 DEF KeepsOff
<1> QED
  BY <1>1, <1>4 DEF LoadInv

-----------------------------------------------------------------------------
(* All four *)

LEMMA WorkInitInv == Init => WorkInv
BY ScriptInitInv, LoadInitInv, BenchInitInv, StockInitInv DEF Init, WorkInv

\* A step of all is one of each, or leaves it alone.
LEMMA WorkSteps ==
    [Next]_vars =>
        [ServingNext]_servingVars /\ [LoadNext]_loadVars /\ [BenchNext]_benchVars /\ [StockNext]_stockVars
BY DEF Next, vars

\* The invariant of all four: scripts are alone with their names, reports are
\* of runs that ended, streams of those that were asked, beliefs of the stock.
THEOREM WorkInvariance == Spec => []WorkInv
<1>1. WorkInv /\ [Next]_vars => WorkInv'
  BY WorkSteps, ScriptNextInv, LoadNextInv, BenchNextInv, StockNextInv DEF WorkInv
<1> QED
  BY <1>1, WorkInitInv, PTL DEF Spec

\* The state of scripts, runs, a benchmark's streams and what is believed of a
\* model keeps its shape: a history never outgrows its limit, a restart its count.
THEOREM WorkTypesAreOK == Spec => []WorkTypesOK
<1>1. WorkInv => WorkTypesOK
  BY ScriptHolds, LoadHolds, BenchHolds, StockHolds DEF WorkInv, WorkTypesOK
<1> QED
  BY <1>1, WorkInvariance, PTL

\* A script runs once and its pid file names it, unless its commands overlapped
\* (the shell commands of server/index.js); what the control service believes of
\* a model is what the stores have, when nothing is being moved, and a recipe is
\* blocked only for what is really missing (modelctlService.js).
THEOREM ScriptsStayKnown == Spec => []ScriptsAreKnown
<1>1. WorkInv => ScriptsAreKnown
  BY ScriptHolds, StockHolds DEF WorkInv, ScriptsAreKnown
<1> QED
  BY <1>1, WorkInvariance, PTL

\* Runs keep to their spark and, but for the requests whose checks were outrun,
\* within the common cap; every benchmark is reported, whatever crash or
\* shutdown came (DecodeBench.js, PrefillBench.js, Showcase.js); and the rows of
\* one that completed are those of its levels, each measured to its end.
THEOREM LoadStaysKept == Spec => []LoadIsKept
<1>1. WorkInv => LoadIsKept
  BY LoadHolds, BenchHolds DEF WorkInv, LoadIsKept
<1> QED
  BY <1>1, WorkInvariance, PTL

\* A stop that reports success has left nothing of its script behind, unless its
\* commands overlapped (the stop commands of server/index.js).
THEOREM StopsDoStop == Spec => StopStops
<1>1. WorkInv /\ [Next]_vars => [\A x \in Stops : haltStage[x] = "sent" /\ haltStage'[x] = "stopped" =>
          \A r \in alive \ crossed : ScriptOf[r] = halting[x] => shell[r] # "over"]_servingVars
  BY WorkSteps, ScriptStops DEF WorkInv
<1> QED
  BY <1>1, WorkInvariance, PTL DEF Spec, StopStops

\* The reported outcome of a run is not revised: not by its loop that returns
\* late, a second cancel, the shutdown, or a boot that reads the checkpoint
\* (_pushHistory, interruptAll and _recoverInterruptedActive of the managers).
THEOREM OutcomesAreFinal == Spec => ReportIsFinal
<1>1. WorkInv /\ [Next]_vars =>
        [\A k \in Kinds, s \in Sparks : \A i \in DOMAIN history[k][s], j \in DOMAIN history'[k][s] :
          history[k][s][i].run = history'[k][s][j].run
             => history[k][s][i].status = history'[k][s][j].status]_loadVars
  BY WorkSteps, LoadNextInv DEF WorkInv, Final
<1> QED
  BY <1>1, WorkInvariance, PTL DEF Spec, ReportIsFinal

\* Nor is that of the benchmark followed from the inside (_runJob of DecodeBench.js
\* and PrefillBench.js).
THEOREM ReportsStay == Spec => ReportStays
<1>1. WorkInv /\ [Next]_vars => [reported # "none" => reported' = reported]_benchVars
  BY WorkSteps, BenchReports DEF WorkInv
<1> QED
  BY <1>1, WorkInvariance, PTL DEF Spec, ReportStays
=============================================================================
