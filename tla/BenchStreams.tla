---------------------------- MODULE BenchStreams ----------------------------
(***************************************************************************)
(* One benchmark from the inside: _runJob of DecodeBench.js and of         *)
(* PrefillBench.js with the streaming requests of LlmStreaming.js.  The    *)
(* job resolves its target (a tunnel, maybe), warms the engine up, and     *)
(* runs its levels one after another: a wave of concurrent streams, or one *)
(* prefill.  A request that the engine refuses with 400 is asked again in  *)
(* other words; each stream has a timer that goes through its attempts,    *)
(* the wave another one; a cancel and a shutdown abort them all.           *)
(*                                                                         *)
(* An abort ends a stream within the step that aborts: nothing of the code *)
(* comes between.  The loop of the job goes on in a step of its own.       *)
(* Rates, times, prompts, samples of the hardware and traces are left out. *)
(* LoadRuns says which jobs may run beside each other.                     *)
(***************************************************************************)
EXTENDS Naturals, Sequences, FiniteSets

CONSTANTS
    Waves,        \* the concurrency of each level of a decode benchmark
    MaxPieces     \* bound on the tokens of a stream

ASSUME BenchAssumption == Waves \in Seq(Nat \ {0}) /\ MaxPieces \in Nat

VARIABLES
    benchKind,    \* "decode" or "prefill"
    refused,      \* the parts of a request that this engine does not take
    phase,        \* of _runJob: "resolving", "warming", "waving", "over"
    level,        \* levels begun
    stream,       \* the streams of the level
    abort,        \* the job's signal is aborted
    waveTimedOut,
    target,       \* "none", "open" or "closed"
    outcome,      \* job.status
    results,      \* job.results: per level the streams ok and failed
    reported      \* the status in the history, "none" before

benchVars == <<benchKind, refused, phase, level, stream, abort, waveTimedOut,
               target, outcome, results, reported>>

MaxStreams == 1..(LET tops == {Waves[i] : i \in DOMAIN Waves}
                  IN  CHOOSE n \in tops : \A m \in tops : m <= n)

Off == [st |-> "off", try |-> 1, pieces |-> 0, error |-> "none"]
AllOff == [i \in MaxStreams |-> Off]
Asked == [Off EXCEPT !.st = "asked"]

\* Parts of a request: the thinking switch of the chat template, the one of the
\* body, and what forces a full answer (min_tokens, ignore_eos, stop).
AllParts == {"template", "switch", "force"}

\* The bodies that are asked, one after another while the engine says 400: the
\* thinking fallback of runStreamingRequest, then the same two again without
\* what forces a full answer.
BodiesBug == <<{"template", "force"}, {"template", "switch", "force"}>>

Bodies ==
    IF benchKind = "prefill" THEN <<{"template"}, {"template", "switch"}>>
    ELSE <<{"template", "force"}, {"template", "switch", "force"},
           {"template"}, {"template", "switch"}>>

BenchInit ==
    /\ benchKind \in {"decode", "prefill"} /\ refused \in SUBSET AllParts
    /\ phase = "resolving" /\ level = 0
    /\ stream = AllOff
    /\ abort = FALSE /\ waveTimedOut = FALSE
    /\ target = "none" /\ outcome = "running" /\ results = <<>>
    /\ reported = "none"

Concurrency(n) == IF benchKind = "decode" THEN Waves[n] ELSE 1

-----------------------------------------------------------------------------
(* A stream *)

Live(i) == stream[i].st \in {"asked", "open"}

Streams(next) ==
    /\ stream' = next
    /\ UNCHANGED <<benchKind, refused, phase, level, abort, waveTimedOut,
                   target, outcome, results, reported>>

StreamIs(i, next) == Streams([stream EXCEPT ![i] = next])

\* The engine answers: it streams, or refuses the body, which is asked again
\* in the next words, if there are any.
Accepts(i) ==
    /\ stream[i].st = "asked" /\ Bodies[stream[i].try] \cap refused = {}
    /\ StreamIs(i, [stream[i] EXCEPT !.st = "open"])

Refuses(i) ==
    /\ stream[i].st = "asked" /\ Bodies[stream[i].try] \cap refused # {}
    /\ StreamIs(i, IF stream[i].try < Len(Bodies) THEN [stream[i] EXCEPT !.try = @ + 1]
                   ELSE [stream[i] EXCEPT !.st = "done", !.error = "400"])

Piece(i) ==
    /\ stream[i].st = "open" /\ stream[i].pieces < MaxPieces
    /\ StreamIs(i, [stream[i] EXCEPT !.pieces = @ + 1])

\* The stream ends, also after an error event: those are not looked at.
StreamEnds(i) ==
    /\ stream[i].st = "open"
    /\ StreamIs(i, [stream[i] EXCEPT !.st = "done"])

\* Another status, a connection that breaks.
StreamFails(i) ==
    /\ Live(i)
    /\ StreamIs(i, [stream[i] EXCEPT !.st = "done", !.error = "failed"])

Aborted(i) == IF Live(i) THEN [stream[i] EXCEPT !.st = "done", !.error = "aborted"] ELSE stream[i]
AllAborted == [i \in MaxStreams |-> Aborted(i)]

\* The timer of the stream, one for all its attempts.
TimesOutBug(i) == stream[i].st = "open"
TimesOut(i) == Live(i)

StreamTimesOut(i) ==
    /\ TimesOut(i)
    /\ StreamIs(i, Aborted(i))

\* The timer of the wave; the one stream of a prefill has no other.
WaveTimesOut ==
    /\ benchKind = "decode" /\ phase = "waving" /\ \E i \in MaxStreams : Live(i)
    /\ stream' = AllAborted /\ waveTimedOut' = TRUE
    /\ UNCHANGED <<benchKind, refused, phase, level, abort, target, outcome, results, reported>>

-----------------------------------------------------------------------------
(* The job *)

\* The target is closed when the loop returns, and by the shutdown.
Closed(t) == IF t = "open" THEN "closed" ELSE t

Settles(st) == IF outcome = "running" THEN st ELSE outcome

\* The loop returns and the job is reported.
Returns(st) ==
    /\ phase' = "over" /\ outcome' = Settles(st) /\ reported' = outcome'
    /\ stream' = AllOff
    /\ UNCHANGED level

\* The loop takes the next level, or has come to its end; it looks at the
\* signal first.
Goes(rows) ==
    /\ results' = rows /\ waveTimedOut' = FALSE
    /\ \/ abort /\ Returns("cancelled")
       \/ ~abort /\ level = Len(Waves) /\ Returns("completed")
       \/ /\ ~abort /\ level < Len(Waves)
          /\ phase' = "waving" /\ level' = level + 1
          /\ stream' = [i \in MaxStreams |-> IF i <= Concurrency(level + 1) THEN Asked ELSE Off]
          /\ UNCHANGED <<outcome, reported>>
    /\ UNCHANGED <<benchKind, refused, abort>>

\* The target is known.  Warming up is skipped after an abort; whatever comes
\* of it is ignored.
TargetResolves(via) ==
    /\ phase = "resolving"
    /\ IF abort THEN Goes(results) /\ target' = Closed(via)
       ELSE /\ phase' = "warming" /\ target' = via
            /\ UNCHANGED <<benchKind, refused, level, stream, abort, waveTimedOut, outcome, results, reported>>

\* No tunnel, no port: the job fails, or counts as cancelled.
Unresolved ==
    /\ phase = "resolving"
    /\ Returns(IF abort THEN "cancelled" ELSE "failed")
    /\ UNCHANGED <<benchKind, refused, abort, waveTimedOut, target, results>>

Warmed ==
    /\ phase = "warming"
    /\ Goes(results)
    /\ target' = IF phase' = "over" THEN Closed(target) ELSE target

\* A stream of a wave counts if it had no error and two tokens, a prefill if it
\* had no error: its prompt is estimated, so that it always has tokens.
Good(i) ==
    /\ stream[i].error = "none"
    /\ benchKind = "decode" => stream[i].pieces > 1

GoodOnes == {i \in 1..Concurrency(level) : Good(i)}

\* emptyWaveResult
NoneOk == [ok |-> 0, failed |-> Concurrency(level)]

Row == IF waveTimedOut /\ \A i \in 1..Concurrency(level) : stream[i].error # "none" THEN NoneOk
       ELSE [ok |-> Cardinality(GoodOnes), failed |-> Concurrency(level) - Cardinality(GoodOnes)]

\* A level is kept, one that was cut short by an abort only if it was a wave
\* that had come to its end, all streams well.
Keeps == ~abort \/ (benchKind = "decode" /\ Row.failed = 0)

LevelEnds ==
    /\ phase = "waving" /\ \A i \in MaxStreams : ~Live(i)
    /\ Goes(IF Keeps THEN Append(results, Row) ELSE results)
    /\ target' = IF phase' = "over" THEN Closed(target) ELSE target

\* DELETE of the running job: the loop settles it.
CancelBench ==
    /\ outcome = "running" /\ ~abort
    /\ abort' = TRUE /\ stream' = AllAborted
    /\ UNCHANGED <<benchKind, refused, phase, level, waveTimedOut, target, outcome, results, reported>>

\* interruptAll settles it at once and closes the target; the loop goes on
\* until the process ends.
InterruptBench ==
    /\ outcome = "running"
    /\ abort' = TRUE /\ stream' = AllAborted
    /\ outcome' = "failed" /\ reported' = "failed"
    /\ target' = Closed(target)
    /\ UNCHANGED <<benchKind, refused, phase, level, waveTimedOut, results>>

BenchNext ==
    \/ \E i \in MaxStreams :
          Accepts(i) \/ Refuses(i) \/ Piece(i) \/ StreamEnds(i) \/ StreamFails(i) \/ StreamTimesOut(i)
    \/ WaveTimesOut
    \/ \E via \in {"none", "open"} : TargetResolves(via)
    \/ Unresolved \/ Warmed \/ LevelEnds
    \/ CancelBench \/ InterruptBench

\* The timers, and the time limits of tunnels and of the warm-up.
BenchFairness ==
    /\ \A i \in MaxStreams : WF_benchVars(StreamTimesOut(i))
    /\ WF_benchVars(Unresolved) /\ WF_benchVars(Warmed) /\ WF_benchVars(LevelEnds)

-----------------------------------------------------------------------------
BenchTypeOK ==
    /\ benchKind \in {"decode", "prefill"} /\ refused \subseteq AllParts
    /\ phase \in {"resolving", "warming", "waving", "over"}
    /\ level \in 0..Len(Waves)
    /\ \A i \in MaxStreams :
          /\ stream[i].st \in {"off", "asked", "open", "done"}
          /\ stream[i].try \in DOMAIN Bodies /\ stream[i].pieces \in 0..MaxPieces
          /\ stream[i].error \in {"none", "400", "failed", "aborted"}
    /\ target \in {"none", "open", "closed"}
    /\ {outcome, reported} \subseteq {"none", "running", "completed", "failed", "cancelled"}

\* A completed benchmark has a row for each of its levels, in which every
\* stream counts once, and nobody cancelled it.
CompletedIsWhole ==
    /\ \A n \in DOMAIN results : results[n].ok + results[n].failed = Concurrency(n)
    /\ outcome = "completed" => Len(results) = Len(Waves) /\ ~abort

\* What an abort cut short is not measured: the row of the level in which it
\* came is there only if all its streams had come to their end.
CutIsDropped ==
    phase = "over" /\ abort /\ level > 0 /\ Len(results) = level => results[level].failed = 0

\* An engine that takes the switch of the template is asked in words it takes,
\* whatever else it refuses: no stream of it ends with 400.
AskedInItsWords == \A i \in MaxStreams : stream[i].error = "400" => "template" \in refused

\* The tunnel of a benchmark is closed when its loop returns, also if the
\* shutdown came while it was opened; no stream outlives the loop.
NothingLeft == phase = "over" => target # "open" /\ \A i \in MaxStreams : ~Live(i)

\* What a benchmark was reported as is not revised by its loop.
ReportStays == [][reported # "none" => reported' = reported]_benchVars

\* A benchmark ends by its timers alone, whatever the engine does.
BenchEnds == <>(phase = "over")
=============================================================================
