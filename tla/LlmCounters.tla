---------------------------- MODULE LlmCounters ----------------------------
(***************************************************************************)
(* server/collectors/LlmProbe.js for one port: which engine answers, and   *)
(* what the live rates are made of.  Engines publish counters since their  *)
(* start; a probe shows the difference to the counters that it kept from   *)
(* the sample before.  The engine may restart, another kind of engine may  *)
(* take the port, and each of the probe's requests may fail.               *)
(*                                                                         *)
(* A rate is modelled by its amount, the tokens that are divided by the    *)
(* seconds; of the seconds only counts whether they make a usable window   *)
(* (less than ten since the probe before).  Backends with the same         *)
(* contract stand for each other: ds4 for q27, exl3 for TensorFold.        *)
(***************************************************************************)
EXTENDS Naturals, Integers, FiniteSetsExt

CONSTANTS
    Kinds,       \* the engines that may run: of "vllm", "ds4", "exl3", "sglang", "llama.cpp"
    MaxWork,     \* bound on tokens
    MaxFaults,   \* bound on restarts, with another engine or the same
    FailReset    \* FAIL_RESET_THRESHOLD

ASSUME CountersAssumption ==
    /\ Kinds \subseteq {"vllm", "ds4", "exl3", "sglang", "llama.cpp"}
    /\ MaxWork \in Nat \ {0, 1} /\ MaxFaults \in Nat /\ FailReset \in Nat \ {0}

VARIABLES
    eng,         \* the engine: kind, tokens decoded, prefilled and served from
                 \* its cache, the out and in of finished requests, whether
                 \* a request runs, its throughput gauge; of SGLang whether
                 \* the build has totals in /server_info, and gauge and
                 \* modes in /metrics
    work,        \* tokens of all engines
    faults,
    api,         \* serverIsOpenAI: "unknown", "openai" or "slots"
    backend,     \* backendType
    near,        \* TRUE iff lastProbeTime is less than ten seconds ago
    fails,       \* _consecutiveFailures
    base,        \* lastTokenCounts, of llama.cpp slotState
    split,       \* lastPrefillKinds
    iter,        \* lastIterSum
    source,      \* _sglangTokenSource
    sticky,      \* _sglangStickyTps
    seen,        \* _lastSeenOutputTokens
    gen, prefill,                 \* generationTps, prefillTps
    cachedPrefill, freshPrefill,  \* cachedPrefillTps, uncachedPrefillTps
    made,        \* tokens decoded that no sample has counted
    quiet,       \* TRUE iff the engine did nothing since the last sample
    blind,       \* TRUE iff the counters were reset since the last sample
    report       \* what this step's sample showed

engVars  == <<eng, work, faults>>
baseVars == <<base, split, iter, source, sticky, seen>>
rateVars == <<gen, prefill, cachedPrefill, freshPrefill>>
counterVars == <<engVars, api, backend, near, fails, baseVars, rateVars, made, quiet, blind, report>>

None == -1
Zero == [out |-> 0, in |-> 0]
NoSplit == [cached |-> None, fresh |-> None]
NoSticky == [value |-> None, live |-> FALSE]
NoReport == [rated |-> FALSE, counted |-> FALSE, quiet |-> FALSE, made |-> 0, beat |-> FALSE]

PosBug(n) == n
Pos(n) == Max({0, n})

Builds == [kind : Kinds, totals : BOOLEAN, modes : BOOLEAN]
Buildable == {b \in Builds : b.kind = "sglang" \/ (b.totals /\ b.modes)}

Engine(b) == [kind |-> b.kind, totals |-> b.totals, modes |-> b.modes,
              out |-> 0, fill |-> 0, cached |-> 0, told |-> Zero,
              running |-> FALSE, gauge |-> 0]

-----------------------------------------------------------------------------
CountersInit ==
    /\ eng \in {Engine(b) : b \in Buildable} /\ work = 0 /\ faults = 0
    /\ api = "unknown" /\ backend = "none" /\ near = FALSE /\ fails = 0
    /\ base = Zero /\ split = NoSplit /\ iter = None
    /\ source = "none" /\ sticky = NoSticky /\ seen = None
    /\ gen = 0 /\ prefill = 0 /\ cachedPrefill = None /\ freshPrefill = None
    /\ made = 0 /\ quiet = TRUE /\ blind = FALSE /\ report = NoReport

Unread == UNCHANGED <<api, backend, near, fails, baseVars, rateVars, blind>>
          /\ quiet' = FALSE /\ report' = NoReport

\* A request arrives, some of its prompt is in the cache.
Takes(c) ==
    /\ ~eng.running /\ work + c <= MaxWork
    /\ eng' = [eng EXCEPT !.running = TRUE, !.cached = @ + c]
    /\ work' = work + c
    /\ UNCHANGED <<faults, made>> /\ Unread

Prefills ==
    /\ eng.running /\ work < MaxWork
    /\ eng' = [eng EXCEPT !.fill = @ + 1]
    /\ work' = work + 1 /\ UNCHANGED made
    /\ UNCHANGED faults /\ Unread

Decodes(g) ==
    /\ eng.running /\ work < MaxWork
    /\ eng' = [eng EXCEPT !.out = @ + 1, !.gauge = g]
    /\ work' = work + 1 /\ made' = made + 1
    /\ UNCHANGED faults /\ Unread

Finishes ==
    /\ eng.running
    /\ eng' = [eng EXCEPT !.running = FALSE, !.told = [out |-> eng.out, in |-> eng.fill + eng.cached]]
    /\ UNCHANGED <<work, faults, made>> /\ Unread

Restarts(b) ==
    /\ faults < MaxFaults /\ faults' = faults + 1
    /\ eng' = Engine(b)
    /\ UNCHANGED <<work, made>> /\ Unread

\* Ten seconds without a probe; six without a change of the sticky gauge.
Ages == /\ near /\ near' = FALSE
        /\ UNCHANGED <<engVars, api, backend, fails, baseVars, rateVars, made, quiet, blind>>
        /\ report' = NoReport

Cools == /\ sticky.live /\ sticky' = [sticky EXCEPT !.live = FALSE]
         /\ UNCHANGED <<engVars, api, backend, near, fails, base, split, iter, source, seen,
                       rateVars, made, quiet, blind>>
         /\ report' = NoReport

-----------------------------------------------------------------------------
\* Detection.  A known OpenAI-style backend is not asked for /slots again; an
\* engine that hides behind a key is vllm unless its own endpoints answer.
\* llama.cpp answers /v1/models as well.
Slots(b) == b \in {"none", "llama.cpp"} /\ eng.kind = "llama.cpp"

Classified(models) ==
    LET own == IF eng.kind = "llama.cpp" THEN "vllm" ELSE eng.kind
    IN  IF models = "ok" THEN {own} ELSE {own, "vllm"}

\* What owned_by corrects at every probe.
Healed(b) ==
    IF eng.kind = "ds4" THEN "ds4"
    ELSE IF eng.kind \in {"sglang", "exl3"} /\ b # "ds4" THEN eng.kind
    ELSE b

Detected(models) ==
    IF models = "down" THEN {[api |-> "unknown", backend |-> "none"]}
    ELSE IF Slots(backend) THEN {[api |-> "slots", backend |-> "llama.cpp"]}
    ELSE {[api |-> "openai", backend |-> b] : b \in Classified(models)}

-----------------------------------------------------------------------------
\* The rates of one sample.

\* _setPrefillTps: the last prefill rate stays while tokens still come.
Latched(amount, inflight) ==
    IF amount > 0 THEN amount ELSE IF inflight THEN prefill ELSE 0

\* The series of the prompt tokens, each summed over its labels.
ByKind == [cached |-> eng.cached, fresh |-> eng.fill]

\* The first sample seeds the split, the others show differences.
SplitRates ==
    /\ split' = ByKind
    /\ IF split = NoSplit THEN cachedPrefill' = 0 /\ freshPrefill' = 0
       ELSE IF near THEN /\ cachedPrefill' = Pos(ByKind.cached - split.cached)
                         /\ freshPrefill' = Pos(ByKind.fresh - split.fresh)
       ELSE UNCHANGED <<cachedPrefill, freshPrefill>>

\* The baseline moves outside the window as well.
Rebased(counts) == counts

OutDelta(counts) == counts.out - base.out
InDelta(counts)  == counts.in - base.in

\* Counters in which prefill is what was computed.
Computed == [out |-> eng.out, in |-> eng.fill]

\* ds4 and q27.
Ds4 ==
    LET counts == Computed
    IN  /\ gen' = IF near THEN Pos(OutDelta(counts)) ELSE gen
        /\ prefill' = IF near THEN Pos(InDelta(counts)) ELSE prefill
        /\ base' = Rebased(counts)
        /\ SplitRates
        /\ UNCHANGED <<iter, source, sticky>>

\* EXL3 and TensorFold, /health: no split.
Exl3 ==
    LET counts == [out |-> eng.out, in |-> eng.fill + eng.cached]
        kept(rate) == IF eng.running THEN rate ELSE 0
    IN  /\ gen' = IF near THEN Pos(OutDelta(counts)) ELSE kept(gen)
        /\ prefill' = IF near THEN Pos(InDelta(counts)) ELSE kept(prefill)
        /\ base' = Rebased(counts)
        /\ cachedPrefill' = None /\ freshPrefill' = None
        /\ UNCHANGED <<split, iter, source, sticky>>

\* vLLM publishes a prompt when its request is over: until then the tokens of
\* the engine's steps that are not output show it, unless they are few beside
\* the output (speculation).
Vllm ==
    LET counts == [out |-> eng.out, in |-> eng.told.in]
        steps   == eng.out + eng.fill
        surplus == Pos((IF iter = None THEN 0 ELSE steps - iter) - Pos(OutDelta(counts)))
        noise   == OutDelta(counts) > 0 /\ 2 * surplus < OutDelta(counts)
    IN  /\ gen' = IF near THEN Pos(OutDelta(counts)) ELSE gen
        /\ prefill' = IF ~near THEN prefill
                      ELSE IF surplus > 0 /\ ~noise THEN surplus ELSE Pos(InDelta(counts))
        /\ base' = Rebased(counts)
        /\ iter' = steps
        /\ UNCHANGED <<split, cachedPrefill, freshPrefill, source, sticky>>

\* llama.cpp, the slots of /slots as one.
LlamaCpp ==
    LET counts == Computed
        amount == IF near THEN OutDelta(counts) ELSE 0
    IN  /\ gen' = Pos(amount)
        /\ prefill' = Latched(IF near THEN InDelta(counts) ELSE 0, amount > 0)
        /\ base' = Rebased(counts)
        /\ SplitRates
        /\ UNCHANGED <<iter, source, sticky>>

\* SGLang with totals in /server_info; /metrics, if it answers, has the split.
SglangTotals(metrics) ==
    LET counts == [out |-> eng.out, in |-> eng.fill + eng.cached]
    IN  /\ gen' = IF near THEN Pos(OutDelta(counts)) ELSE gen
        /\ prefill' = IF near THEN Latched(InDelta(counts), OutDelta(counts) > 0) ELSE prefill
        /\ base' = Rebased(counts) /\ source' = "server_info"
        /\ IF metrics /\ eng.modes THEN SplitRates ELSE UNCHANGED <<split, cachedPrefill, freshPrefill>>
        /\ UNCHANGED <<iter, sticky>>

\* What /v1/loads or /get_load tells.
SglangInflight == eng.running

\* Without them, the throughput gauge, which holds its last value when idle:
\* it shows while it moves, and while a request runs.
StickyRate ==
    IF sticky.value # None /\ (eng.gauge # sticky.value \/ sticky.live) THEN eng.gauge
    ELSE IF SglangInflight THEN eng.gauge ELSE 0

Stuck ==
    [value |-> eng.gauge,
     live |-> IF sticky.value = None THEN SglangInflight /\ eng.gauge > 0
              ELSE eng.gauge # sticky.value \/ sticky.live]

\* /metrics counts a completion when its request is over; current builds have
\* the gauge and the prompt by modes.  After a sample of /server_info the
\* counters are of another series and only seed.
Own == source # "server_info"

SglangMetrics(shown) ==
    LET counts == eng.told
        diff   == Own /\ near
    IN  /\ gen' = IF ~diff THEN shown
                  ELSE IF eng.modes THEN IF SglangInflight THEN eng.gauge ELSE 0
                  ELSE Pos(OutDelta(counts))
        /\ IF eng.modes THEN SplitRates ELSE UNCHANGED <<split, cachedPrefill, freshPrefill>>
        /\ prefill' = IF ~diff THEN prefill
                      ELSE IF eng.modes THEN cachedPrefill' + freshPrefill'
                      ELSE Pos(InDelta(counts))
        /\ base' = Rebased(counts) /\ source' = "prometheus"
        /\ UNCHANGED iter

Totals(info) == info /\ eng.totals

Sglang(info, metrics) ==
    \/ Totals(info) /\ SglangTotals(metrics)
    \/ info /\ ~eng.totals /\ sticky' = Stuck
       /\ IF metrics THEN SglangMetrics(StickyRate)
          ELSE gen' = StickyRate /\ UNCHANGED <<base, split, iter, source, prefill, cachedPrefill, freshPrefill>>
    \/ ~info /\ UNCHANGED sticky
       /\ IF metrics THEN SglangMetrics(gen)
          ELSE UNCHANGED <<base, split, iter, source, rateVars>>

-----------------------------------------------------------------------------
\* _trackActivityHeartbeat, with the total of this sample.
Grew(total) == seen # None /\ total > seen

\* A sample of live or of told counters, or none.
Sampled(b, info, metrics) ==
    CASE b = "sglang" -> IF Totals(info) THEN "live" ELSE IF metrics THEN "told" ELSE "none"
      [] b = "llama.cpp" -> "live"
      [] OTHER -> IF metrics /\ b = eng.kind THEN "live" ELSE "none"

Noted(s, rated, counted) ==
    LET total == IF s = "told" THEN eng.told.out ELSE eng.out
    IN  IF s = "none"
        THEN /\ seen' = IF seen = None THEN 0 ELSE seen
             /\ UNCHANGED <<made, quiet, blind>> /\ report' = NoReport
        ELSE /\ seen' = IF seen = None \/ Grew(total) THEN total ELSE seen
             /\ made' = eng.out - total
             /\ quiet' = TRUE /\ blind' = FALSE
             /\ report' = [rated |-> rated /\ near /\ ~blind, quiet |-> quiet, made |-> made,
                           counted |-> counted, beat |-> Grew(total) /\ ~blind]

\* One answer of 200, to a probe that takes the engine for b.
Sample(b, info, metrics) ==
    /\ CASE b = "sglang" -> Sglang(info, metrics)
         [] b = "llama.cpp" -> LlamaCpp
         [] b = "ds4" /\ metrics /\ eng.kind = b -> Ds4
         [] b = "exl3" /\ metrics /\ eng.kind = b -> Exl3
         [] b = "vllm" /\ metrics /\ eng.kind = b -> Vllm
         [] OTHER -> UNCHANGED <<base, split, iter, source, sticky, rateVars>>
    /\ Noted(Sampled(b, info, metrics), b = "sglang" /\ ~Totals(info) => Own,
             b = "sglang" /\ ~Totals(info) => ~eng.modes)

-----------------------------------------------------------------------------
\* _resetDetection keeps nothing but the time of the last probe, and the
\* source of the baseline.
Forgets ==
    /\ api' = "unknown" /\ backend' = "none"
    /\ base' = Zero /\ split' = NoSplit /\ iter' = None /\ sticky' = NoSticky /\ seen' = None
    /\ gen' = 0 /\ prefill' = 0 /\ cachedPrefill' = None /\ freshPrefill' = None
    /\ blind' = TRUE
    /\ UNCHANGED source

Failure(d) ==
    /\ report' = NoReport /\ UNCHANGED <<made, quiet>>
    /\ fails' = Min({fails + 1, FailReset})
    /\ IF fails + 1 >= FailReset THEN Forgets
       ELSE /\ api' = d.api /\ backend' = d.backend
            /\ UNCHANGED <<baseVars, rateVars, blind>>

\* A 401 or 403 leaves the rates as they are; the row is not available then.
Refused(d) ==
    /\ fails' = 0 /\ api' = d.api /\ backend' = d.backend
    /\ seen' = IF seen = None THEN 0 ELSE seen
    /\ UNCHANGED <<base, split, iter, source, sticky, rateVars, made, quiet, blind>>
    /\ report' = NoReport

Answered(d, info, metrics) ==
    LET b == IF d.api = "slots" THEN "llama.cpp" ELSE Healed(d.backend)
        c == IF b = "sglang" \/ ~metrics THEN b ELSE IF eng.kind = "ds4" THEN "ds4" ELSE b
    IN  /\ fails' = 0 /\ api' = d.api /\ backend' = c
        /\ Sample(c, info, metrics)

\* A probe detects first if it knows no backend, and once a minute.
Known == {[api |-> api, backend |-> backend] : x \in IF api = "unknown" THEN {} ELSE {0}}

Probe(models, info, metrics) ==
    \E d \in Known \cup Detected(models) :
        /\ near' = (near \/ d.api # "unknown")
        /\ UNCHANGED engVars
        /\ IF models = "down" \/ (d.api = "slots" /\ eng.kind # "llama.cpp") THEN Failure(d)
           ELSE IF models = "auth" THEN Refused(d)
           ELSE Answered(d, info, metrics)

CountersNext ==
    \/ \E c \in 0..1 : Takes(c)
    \/ Prefills \/ Finishes
    \/ \E g \in 1..2 : Decodes(g)
    \/ \E b \in Buildable : Restarts(b)
    \/ Ages \/ Cools
    \/ \E models \in {"ok", "auth", "down"}, info, metrics \in BOOLEAN : Probe(models, info, metrics)

-----------------------------------------------------------------------------
CountersTypeOK ==
    /\ eng.kind \in Kinds /\ work \in 0..MaxWork /\ faults \in 0..MaxFaults
    /\ api \in {"unknown", "openai", "slots"} /\ backend \in Kinds \cup {"vllm", "none"}
    /\ (api = "unknown" <=> backend = "none")
    /\ fails \in 0..FailReset
    /\ base \in [out : 0..MaxWork, in : 0..MaxWork]
    /\ gen \in 0..MaxWork /\ prefill \in 0..2 * MaxWork
    /\ cachedPrefill \in None..MaxWork /\ freshPrefill \in None..MaxWork
    /\ source \in {"none", "server_info", "prometheus"}

\* A token is shown in the rate of one sample: the differences of counters
\* show no more than was decoded since they were read before, through
\* restarts of the engine, gaps and changes of the series.  (Gauges are the
\* engine's own; the samples after a reset of the probe are left out.)
RateIsNew == report.rated /\ report.counted => gen <= report.made

\* An engine that did nothing since the sample before shows no rate, neither
\* a latched one nor that of a gauge that holds its last value, but for the
\* seconds in which the gauge is still taken to be live.
IdleShowsNothing == report.rated /\ report.quiet /\ ~eng.running /\ ~sticky.live => gen = 0 /\ prefill = 0

\* The time of the last output is moved by tokens that were not counted
\* before, and never by an engine that restarted.
HeartbeatIsHonest == report.beat => report.made > 0
=============================================================================
