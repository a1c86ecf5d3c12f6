---------------------------- MODULE ProbesProofs ----------------------------
(***************************************************************************)
(* Proofs about the counters of the engines, the meters of a node and the  *)
(* watch of ComfyUI.  Nothing here depends on how much an engine or a node *)
(* does, how many partitions and devices there are, or how many jobs.      *)
(***************************************************************************)
EXTENDS MCProbes, Sums, SequenceTheorems

-----------------------------------------------------------------------------
(* LlmCounters: the invariant *)

Counts == [out : 0..MaxWork, in : 0..MaxWork]
Splits == {NoSplit} \cup [cached : 0..MaxWork, fresh : 0..MaxWork]
EngRecord == eng \in [kind : Kinds, totals : BOOLEAN, modes : BOOLEAN, out : Nat, fill : Nat, cached : Nat,
                      told : [out : Nat, in : Nat], running : BOOLEAN, gauge : 0..2]
EngTypes ==
    /\ EngRecord
    /\ work \in 0..MaxWork /\ faults \in 0..MaxFaults
    /\ eng.out + eng.fill + eng.cached <= work
    /\ eng.told.out <= eng.out /\ eng.told.in <= eng.fill + eng.cached
    /\ ~eng.running => eng.told = [out |-> eng.out, in |-> eng.fill + eng.cached]
\* What may be taken for the engine.
DetectedOK(a, b) ==
    /\ a \in {"unknown", "openai", "slots"} /\ b \in Kinds \cup {"vllm", "none"}
    /\ (a = "unknown" <=> b = "none") /\ (a = "slots" <=> b = "llama.cpp")
    /\ b = "sglang" => eng.kind = "sglang"
    /\ eng.kind = "sglang" => b \in {"none", "sglang", "vllm"}
Detection ==
    /\ DetectedOK(api, backend)
    /\ fails \in 0..FailReset
    /\ near \in BOOLEAN /\ quiet \in BOOLEAN /\ blind \in BOOLEAN
KeptTypes ==
    /\ base \in Counts /\ split \in Splits /\ iter \in None..MaxWork
    /\ source \in {"none", "server_info", "prometheus"}
    /\ sticky \in [value : None..2, live : BOOLEAN] /\ seen \in None..MaxWork
RateTypes ==
    /\ gen \in 0..MaxWork /\ prefill \in 0..2 * MaxWork
    /\ cachedPrefill \in None..MaxWork /\ freshPrefill \in None..MaxWork
LastSeen == IF seen = None THEN 0 ELSE seen
MadeOK == /\ made \in Nat
          /\ ~blind => eng.out - base.out <= made /\ eng.out - LastSeen <= made
AllIn == [out |-> eng.out, in |-> eng.fill + eng.cached]
\* What a sample leaves: the next one shows nothing if nothing happens.
Settled ==
    /\ eng.kind \in {"ds4", "llama.cpp"} => base = Computed
    /\ eng.kind = "exl3" => base = AllIn
    /\ eng.kind = "vllm" => base = [out |-> eng.out, in |-> eng.told.in] /\ iter \in {None, eng.out + eng.fill}
    /\ eng.kind = "sglang" =>
        /\ ~eng.running => base = AllIn
        /\ eng.modes /\ source # "server_info" => split \in {NoSplit, ByKind}
QuietOK == quiet /\ ~blind => Settled
LlmInv == EngTypes /\ Detection /\ KeptTypes /\ RateTypes /\ MadeOK /\ QuietOK
          /\ RateIsNew /\ IdleShowsNothing /\ HeartbeatIsHonest

-----------------------------------------------------------------------------
LEMMA PosIs ==
  ASSUME NEW n \in Int
  PROVE  Pos(n) \in Nat /\ Pos(n) >= n /\ (n >= 0 => Pos(n) = n) /\ (n <= 0 => Pos(n) = 0)
<1>1. \E x \in {0, n} : \A y \in {0, n} : x >= y
  OBVIOUS
<1>2. Max({0, n}) \in {0, n} /\ \A y \in {0, n} : Max({0, n}) >= y
  BY <1>1 DEF Max
<1> QED
  BY <1>2 DEF Pos

LEMMA MinIs ==
  ASSUME NEW n \in Int, NEW k \in Int
  PROVE  Min({n, k}) \in {n, k} /\ Min({n, k}) <= n /\ Min({n, k}) <= k
<1>1. \E x \in {n, k} : \A y \in {n, k} : x <= y
  OBVIOUS
<1>2. Min({n, k}) \in {n, k} /\ \A y \in {n, k} : Min({n, k}) <= y
  BY <1>1 DEF Min
<1> QED
  BY <1>2

\* The bounds of the engine's counters.
LEMMA EngBounds ==
  ASSUME EngTypes
  PROVE  /\ eng.out \in 0..MaxWork /\ eng.fill \in 0..MaxWork /\ eng.cached \in 0..MaxWork
         /\ eng.fill + eng.cached \in 0..MaxWork /\ eng.out + eng.fill \in 0..MaxWork
         /\ eng.told.out \in 0..MaxWork /\ eng.told.in \in 0..MaxWork /\ eng.told.out <= eng.out
         /\ eng.gauge \in 0..MaxWork /\ eng.gauge \in 0..2 /\ eng.running \in BOOLEAN /\ eng.modes \in BOOLEAN
         /\ eng.totals \in BOOLEAN /\ eng.kind \in Kinds
         /\ (~eng.running => eng.told.out = eng.out /\ eng.told.in = eng.fill + eng.cached)
  BY CountersAssumption DEF EngTypes, EngRecord

KeptNext ==
    /\ base' \in Counts /\ split' \in Splits /\ iter' \in None..MaxWork
    /\ source' \in {"none", "server_info", "prometheus"} /\ sticky' \in [value : None..2, live : BOOLEAN]

\* The split of the prompt, after a sample that has it.
LEMMA SplitStep ==
  ASSUME EngTypes, KeptTypes, RateTypes, near \in BOOLEAN, SplitRates
  PROVE  /\ split' = ByKind /\ split' \in Splits
         /\ cachedPrefill' \in None..MaxWork /\ freshPrefill' \in None..MaxWork
         /\ near \/ split = NoSplit => cachedPrefill' \in 0..MaxWork /\ freshPrefill' \in 0..MaxWork
         /\ near /\ split \in {NoSplit, ByKind} => cachedPrefill' = 0 /\ freshPrefill' = 0
<1>1. eng.fill \in 0..MaxWork /\ eng.cached \in 0..MaxWork /\ MaxWork \in Nat
  BY EngBounds, CountersAssumption
<1>2. split' = ByKind /\ ByKind \in [cached : 0..MaxWork, fresh : 0..MaxWork] /\ ByKind.cached = eng.cached /\ ByKind.fresh = eng.fill
  BY <1>1 DEF SplitRates, ByKind
<1>3. CASE split = NoSplit
  BY <1>1, <1>2, <1>3 DEF SplitRates, Splits, None
<1>4. CASE split # NoSplit
  <2>1. split.cached \in 0..MaxWork /\ split.fresh \in 0..MaxWork
    BY <1>4 DEF KeptTypes, Splits
  <2>2. /\ Pos(ByKind.cached - split.cached) \in 0..MaxWork /\ Pos(ByKind.fresh - split.fresh) \in 0..MaxWork
        /\ split = ByKind => Pos(ByKind.cached - split.cached) = 0 /\ Pos(ByKind.fresh - split.fresh) = 0
    BY <1>1, <1>2, <2>1, PosIs
  <2>3. CASE near
    BY <1>1, <1>2, <1>4, <2>2, <2>3 DEF SplitRates, Splits, None
  <2>4. CASE ~near
    BY <1>2, <1>4, <2>4 DEF SplitRates, RateTypes, Splits
  <2> QED
    BY <2>3, <2>4
<1> QED
  BY <1>3, <1>4

\* A rate that is a difference of counters.
LEMMA DeltaIs ==
  ASSUME KeptTypes, NEW counts \in Counts
  PROVE  /\ OutDelta(counts) = counts.out - base.out /\ InDelta(counts) = counts.in - base.in
         /\ OutDelta(counts) \in Int /\ InDelta(counts) \in Int
         /\ OutDelta(counts) <= MaxWork /\ InDelta(counts) <= MaxWork
         /\ Pos(OutDelta(counts)) \in 0..MaxWork /\ Pos(InDelta(counts)) \in 0..MaxWork
         /\ (base = counts => Pos(OutDelta(counts)) = 0 /\ Pos(InDelta(counts)) = 0)
<1>1. counts.out \in 0..MaxWork /\ counts.in \in 0..MaxWork /\ base.out \in 0..MaxWork /\ base.in \in 0..MaxWork /\ MaxWork \in Nat
  BY CountersAssumption DEF KeptTypes, Counts
<1>2. OutDelta(counts) = counts.out - base.out /\ InDelta(counts) = counts.in - base.in
  BY DEF OutDelta, InDelta
<1> QED
  BY <1>1, <1>2, PosIs

LEMMA Ds4Step ==
  ASSUME EngTypes, KeptTypes, RateTypes, near \in BOOLEAN, Ds4
  PROVE  /\ KeptNext /\ RateTypes' /\ base' = Computed
         /\ near => gen' = Pos(eng.out - base.out)
         /\ near /\ base = Computed => gen' = 0 /\ prefill' = 0
<1>1. Computed \in Counts /\ Computed.out = eng.out
  BY EngBounds DEF Computed, Counts
<1>2. SplitRates /\ base' = Computed /\ UNCHANGED <<iter, source, sticky>>
      /\ gen' = (IF near THEN Pos(OutDelta(Computed)) ELSE gen)
      /\ prefill' = (IF near THEN Pos(InDelta(Computed)) ELSE prefill)
  BY DEF Ds4, Rebased
<1>3. KeptNext
  BY <1>1, <1>2, SplitStep DEF KeptNext, KeptTypes
<1>4. RateTypes'
  BY <1>1, <1>2, SplitStep, DeltaIs, CountersAssumption DEF RateTypes
<1> QED
  BY <1>1, <1>2, <1>3, <1>4, DeltaIs

LEMMA Exl3Step ==
  ASSUME EngTypes, KeptTypes, RateTypes, near \in BOOLEAN, Exl3
  PROVE  /\ KeptNext /\ RateTypes' /\ base' = AllIn
         /\ near => gen' = Pos(eng.out - base.out)
         /\ near /\ base = AllIn => gen' = 0 /\ prefill' = 0
<1>1. AllIn \in Counts /\ AllIn.out = eng.out
  BY EngBounds DEF AllIn, Counts
<1>2. base' = AllIn /\ UNCHANGED <<split, iter, source, sticky>>
      /\ gen' = (IF near THEN Pos(OutDelta(AllIn)) ELSE IF eng.running THEN gen ELSE 0)
      /\ prefill' = (IF near THEN Pos(InDelta(AllIn)) ELSE IF eng.running THEN prefill ELSE 0)
      /\ cachedPrefill' = None /\ freshPrefill' = None
  BY DEF Exl3, Rebased, AllIn
<1>3. KeptNext
  BY <1>1, <1>2 DEF KeptNext, KeptTypes
<1>4. RateTypes'
  BY <1>1, <1>2, DeltaIs, CountersAssumption DEF RateTypes, None
<1> QED
  BY <1>1, <1>2, <1>3, <1>4, DeltaIs

\* What vLLM had told of its prompts.
TheirIn == [out |-> eng.out, in |-> eng.told.in]

LEMMA VllmStep ==
  ASSUME EngTypes, KeptTypes, RateTypes, near \in BOOLEAN, Vllm
  PROVE  /\ KeptNext /\ RateTypes' /\ base' = TheirIn /\ iter' = eng.out + eng.fill
         /\ near => gen' = Pos(eng.out - base.out)
         /\ near /\ base = TheirIn /\ iter \in {None, eng.out + eng.fill} => gen' = 0 /\ prefill' = 0
<1>1. TheirIn \in Counts /\ TheirIn.out = eng.out
  BY EngBounds DEF TheirIn, Counts
<1> DEFINE steps == eng.out + eng.fill
           since == IF iter = None THEN 0 ELSE steps - iter
           surplus == Pos(since - Pos(OutDelta(TheirIn)))
           noise == OutDelta(TheirIn) > 0 /\ 2 * surplus < OutDelta(TheirIn)
<1>2. base' = TheirIn /\ UNCHANGED <<split, cachedPrefill, freshPrefill, source, sticky>>
      /\ iter' = steps
      /\ gen' = (IF near THEN Pos(OutDelta(TheirIn)) ELSE gen)
      /\ prefill' = (IF ~near THEN prefill
                     ELSE IF surplus > 0 /\ ~noise THEN surplus ELSE Pos(InDelta(TheirIn)))
  BY DEF Vllm, Rebased, TheirIn
<1>3. since \in Int /\ since <= MaxWork /\ (iter \in {None, steps} => since = 0) /\ steps \in 0..MaxWork
  BY EngBounds, CountersAssumption DEF KeptTypes, None
<1> HIDE DEF since, steps
<1>4. surplus \in 0..MaxWork /\ (since = 0 => surplus = 0)
  <2>1. Pos(OutDelta(TheirIn)) \in 0..MaxWork /\ MaxWork \in Nat
    BY <1>1, DeltaIs, CountersAssumption
  <2> QED
    BY <1>3, <2>1, PosIs
<1> HIDE DEF surplus, noise
<1>5. KeptNext
  BY <1>1, <1>2, <1>3, CountersAssumption DEF KeptNext, KeptTypes, None
<1>6. RateTypes'
  BY <1>1, <1>2, <1>4, DeltaIs, CountersAssumption DEF RateTypes
<1>7. near /\ base = TheirIn /\ since = 0 => gen' = 0 /\ prefill' = 0
  BY <1>1, <1>2, <1>4, DeltaIs
<1> QED
  BY <1>1, <1>2, <1>3, <1>5, <1>6, <1>7, DeltaIs DEF steps

LEMMA LatchedIs ==
  ASSUME RateTypes, NEW amount \in Int, amount <= MaxWork, NEW inflight \in BOOLEAN
  PROVE  /\ Latched(amount, inflight) \in 0..2 * MaxWork
         /\ amount = 0 /\ ~inflight => Latched(amount, inflight) = 0
<1>1. CASE amount > 0
  BY <1>1, CountersAssumption DEF Latched, RateTypes
<1>2. CASE ~(amount > 0)
  BY <1>2, CountersAssumption DEF Latched, RateTypes
<1> QED
  BY <1>1, <1>2

LEMMA LlamaStep ==
  ASSUME EngTypes, KeptTypes, RateTypes, near \in BOOLEAN, LlamaCpp
  PROVE  /\ KeptNext /\ RateTypes' /\ base' = Computed
         /\ near => gen' = Pos(eng.out - base.out)
         /\ near /\ base = Computed => gen' = 0 /\ prefill' = 0
<1>1. Computed \in Counts /\ Computed.out = eng.out
  BY EngBounds DEF Computed, Counts
<1> DEFINE amount == IF near THEN OutDelta(Computed) ELSE 0
           came == IF near THEN InDelta(Computed) ELSE 0
<1>2. SplitRates /\ base' = Computed /\ UNCHANGED <<iter, source, sticky>>
      /\ gen' = Pos(amount) /\ prefill' = Latched(came, amount > 0)
  BY DEF LlamaCpp, Rebased
<1>3. amount \in Int /\ came \in Int /\ amount <= MaxWork /\ came <= MaxWork /\ (amount > 0) \in BOOLEAN
      /\ Pos(amount) \in 0..MaxWork
      /\ (near /\ base = Computed => amount = 0 /\ came = 0)
  <2>1. MaxWork \in Nat /\ Pos(0) = 0
    BY CountersAssumption, PosIs
  <2>2. base = Computed => OutDelta(Computed) = 0 /\ InDelta(Computed) = 0
    <3>1. Computed.out \in Int /\ Computed.in \in Int
      BY <1>1 DEF Counts
    <3> QED
      BY <1>1, <3>1, DeltaIs
  <2> QED
    BY <1>1, <2>1, <2>2, DeltaIs
<1>4. near => gen' = Pos(OutDelta(Computed))
  BY <1>2
<1> HIDE DEF amount, came
<1>5. KeptNext
  BY <1>1, <1>2, SplitStep DEF KeptNext, KeptTypes
<1>6. Latched(came, amount > 0) \in 0..2 * MaxWork /\ (came = 0 /\ ~(amount > 0) => Latched(came, amount > 0) = 0)
  BY <1>3, LatchedIs
<1>7. RateTypes'
  BY <1>2, <1>3, <1>6, SplitStep DEF RateTypes
<1>8. Pos(0) = 0
  BY PosIs
<1> QED
  BY <1>1, <1>2, <1>3, <1>4, <1>5, <1>6, <1>7, <1>8, DeltaIs
LEMMA TotalsStep ==
  ASSUME EngTypes, KeptTypes, RateTypes, near \in BOOLEAN, NEW metrics \in BOOLEAN, UNCHANGED sticky, SglangTotals(metrics)
  PROVE  /\ KeptNext /\ RateTypes' /\ base' = AllIn /\ source' = "server_info"
         /\ near => gen' = Pos(eng.out - base.out)
         /\ near /\ base = AllIn => gen' = 0 /\ prefill' = 0
<1>1. AllIn \in Counts /\ AllIn.out = eng.out
  BY EngBounds DEF AllIn, Counts
<1> DEFINE flows == OutDelta(AllIn) > 0
<1>2. base' = AllIn /\ source' = "server_info" /\ UNCHANGED <<iter, sticky>>
      /\ gen' = (IF near THEN Pos(OutDelta(AllIn)) ELSE gen)
      /\ prefill' = (IF near THEN Latched(InDelta(AllIn), flows) ELSE prefill)
      /\ (SplitRates \/ UNCHANGED <<split, cachedPrefill, freshPrefill>>)
  BY DEF SglangTotals, Rebased, AllIn
<1>3. KeptNext
  BY <1>1, <1>2, SplitStep DEF KeptNext, KeptTypes
<1>4. /\ OutDelta(AllIn) \in Int /\ InDelta(AllIn) \in Int /\ InDelta(AllIn) <= MaxWork /\ flows \in BOOLEAN
      /\ base = AllIn => OutDelta(AllIn) = 0 /\ InDelta(AllIn) = 0
  <2>1. AllIn.out \in Int /\ AllIn.in \in Int
    BY <1>1 DEF Counts
  <2> QED
    BY <1>1, <2>1, DeltaIs
<1>5. base = AllIn => ~flows
  BY <1>4
<1> HIDE DEF flows
<1>6. /\ Latched(InDelta(AllIn), flows) \in 0..2 * MaxWork
      /\ InDelta(AllIn) = 0 /\ ~flows => Latched(InDelta(AllIn), flows) = 0
  BY <1>4, LatchedIs
<1>7. gen' \in 0..MaxWork /\ prefill' \in 0..2 * MaxWork
  BY <1>1, <1>2, <1>6, DeltaIs DEF RateTypes
<1>8. cachedPrefill' \in None..MaxWork /\ freshPrefill' \in None..MaxWork
  BY <1>2, SplitStep DEF RateTypes
<1>9. RateTypes'
  BY <1>7, <1>8 DEF RateTypes
<1> QED
  BY <1>1, <1>2, <1>3, <1>4, <1>5, <1>6, <1>9, DeltaIs

\* A sample of /metrics alone: what it shows is a difference, if the build has
\* no gauge, and the gauge of a request that runs, if it has.
LEMMA MetricsStep ==
  ASSUME EngTypes, KeptTypes, RateTypes, near \in BOOLEAN, sticky' \in [value : None..2, live : BOOLEAN],
         NEW rate \in 0..MaxWork, SglangMetrics(rate)
  PROVE  /\ KeptNext /\ RateTypes' /\ base' = eng.told
         /\ source' = "prometheus"
         /\ eng.modes => split' = ByKind
         /\ Own /\ near /\ ~eng.modes => gen' = Pos(eng.told.out - base.out)
         /\ Own /\ near /\ ~eng.running /\ base = AllIn /\ (eng.modes => split \in {NoSplit, ByKind}) => gen' = 0 /\ prefill' = 0
<1>1. eng.told \in Counts
  <2>1. eng.told \in [out : Nat, in : Nat]
    BY DEF EngTypes, EngRecord
  <2> QED
    BY <2>1, EngBounds DEF Counts
<1> DEFINE diff == Own /\ near
<1>2. base' = eng.told /\ source' = "prometheus" /\ UNCHANGED iter
      /\ gen' = (IF ~diff THEN rate
                 ELSE IF eng.modes THEN IF eng.running THEN eng.gauge ELSE 0
                 ELSE Pos(OutDelta(eng.told)))
      /\ prefill' = (IF ~diff THEN prefill
                     ELSE IF eng.modes THEN cachedPrefill' + freshPrefill'
                     ELSE Pos(InDelta(eng.told)))
  BY DEF SglangMetrics, Rebased, SglangInflight
<1>3. (eng.modes => SplitRates) /\ (~eng.modes => UNCHANGED <<split, cachedPrefill, freshPrefill>>)
  BY DEF SglangMetrics
<1>4. KeptNext
  BY <1>1, <1>2, <1>3, SplitStep DEF KeptNext, KeptTypes
<1>5. eng.modes => /\ cachedPrefill' \in None..MaxWork /\ freshPrefill' \in None..MaxWork /\ split' = ByKind
                   /\ near => cachedPrefill' \in 0..MaxWork /\ freshPrefill' \in 0..MaxWork
                   /\ near /\ split \in {NoSplit, ByKind} => cachedPrefill' = 0 /\ freshPrefill' = 0
  BY <1>3, SplitStep
<1>6. cachedPrefill' \in None..MaxWork /\ freshPrefill' \in None..MaxWork
  BY <1>3, <1>5 DEF RateTypes
<1>7. gen' \in 0..MaxWork
  BY <1>1, <1>2, DeltaIs, EngBounds, CountersAssumption
<1>8. prefill' \in 0..2 * MaxWork
  BY <1>1, <1>2, <1>5, DeltaIs, CountersAssumption DEF RateTypes
<1>9. RateTypes'
  BY <1>6, <1>7, <1>8 DEF RateTypes
<1>10. ~eng.running => eng.told = AllIn
  BY DEF EngTypes, EngRecord, AllIn
<1>11. ASSUME diff, ~eng.running, base = AllIn, eng.modes => split \in {NoSplit, ByKind} PROVE gen' = 0 /\ prefill' = 0
  <2>1. CASE eng.modes
    BY <1>2, <1>5, <1>11, <2>1
  <2>2. CASE ~eng.modes
    BY <1>1, <1>2, <1>10, <1>11, <2>2, DeltaIs
  <2> QED
    BY <2>1, <2>2
<1>12. ASSUME diff, ~eng.modes PROVE gen' = Pos(eng.told.out - base.out)
  BY <1>1, <1>2, <1>12, DeltaIs
<1> QED
  BY <1>2, <1>4, <1>5, <1>9, <1>11, <1>12

LEMMA StickyIs ==
  ASSUME EngTypes, KeptTypes
  PROVE  StickyRate \in 0..MaxWork /\ Stuck \in [value : None..2, live : BOOLEAN]
<1>1. eng.gauge \in 0..2 /\ eng.gauge \in 0..MaxWork /\ MaxWork \in Nat /\ eng.running \in BOOLEAN
  BY EngBounds, CountersAssumption
<1>2. StickyRate \in 0..MaxWork
  BY <1>1 DEF StickyRate, SglangInflight
<1>3. sticky.live \in BOOLEAN
  BY DEF KeptTypes
<1>4. Stuck.live \in BOOLEAN
  BY <1>1, <1>3 DEF Stuck, SglangInflight
<1>5. Stuck = [value |-> eng.gauge, live |-> Stuck.live]
  BY DEF Stuck
<1>6. eng.gauge \in None..2
  BY <1>1 DEF None
<1> QED
  BY <1>2, <1>4, <1>5, <1>6

\* What SGLang's sample says: totals, told counters, or nothing.
LEMMA SglangStep ==
  ASSUME EngTypes, KeptTypes, RateTypes, near \in BOOLEAN, NEW info \in BOOLEAN, NEW metrics \in BOOLEAN, Sglang(info, metrics)
  PROVE  /\ KeptNext /\ RateTypes'
         /\ Totals(info) => /\ base' = AllIn /\ source' = "server_info"
                            /\ near => gen' = Pos(eng.out - base.out)
                            /\ near /\ base = AllIn => gen' = 0 /\ prefill' = 0
         /\ ~Totals(info) /\ metrics =>
               /\ base' = eng.told /\ source' = "prometheus" /\ (eng.modes => split' = ByKind)
               /\ Own /\ near /\ ~eng.modes => gen' = Pos(eng.told.out - base.out)
               /\ Own /\ near /\ ~eng.running /\ base = AllIn /\ (eng.modes => split \in {NoSplit, ByKind}) => gen' = 0 /\ prefill' = 0
         /\ ~Totals(info) /\ ~metrics => UNCHANGED <<base, split, iter, source>>
<1>1. CASE Totals(info) /\ SglangTotals(metrics)
  <2>1. UNCHANGED sticky
    BY <1>1 DEF SglangTotals
  <2> QED
    BY <1>1, <2>1, TotalsStep
<1>2. CASE info /\ ~eng.totals /\ sticky' = Stuck /\ metrics /\ SglangMetrics(StickyRate)
  BY <1>2, StickyIs, MetricsStep DEF Totals
<1>3. CASE info /\ ~eng.totals /\ sticky' = Stuck /\ ~metrics
           /\ gen' = StickyRate /\ UNCHANGED <<base, split, iter, source, prefill, cachedPrefill, freshPrefill>>
  <2>1. KeptNext
    BY <1>3, StickyIs DEF KeptNext, KeptTypes
  <2>2. RateTypes'
    BY <1>3, StickyIs DEF RateTypes
  <2> QED
    BY <1>3, <2>1, <2>2 DEF Totals
<1>4. CASE ~info /\ UNCHANGED sticky /\ metrics /\ SglangMetrics(gen)
  <2>1. sticky' \in [value : None..2, live : BOOLEAN] /\ gen \in 0..MaxWork
    BY <1>4 DEF KeptTypes, RateTypes
  <2> QED
    BY <1>4, <2>1, MetricsStep DEF Totals
<1>5. CASE ~info /\ UNCHANGED sticky /\ ~metrics /\ UNCHANGED <<base, split, iter, source, rateVars>>
  <2>1. KeptNext
    BY <1>5 DEF KeptNext, KeptTypes
  <2>2. RateTypes'
    BY <1>5 DEF RateTypes, rateVars
  <2> QED
    BY <1>5, <2>1, <2>2 DEF Totals
<1> QED
  BY <1>1, <1>2, <1>3, <1>4, <1>5 DEF Sglang

Backends == {"vllm", "ds4", "exl3", "sglang", "llama.cpp"}
IsRated(b, info) == b = "sglang" /\ ~Totals(info) => Own

\* What a sample changes, by what it is of.
SampleIs(b, info, metrics) ==
    /\ KeptNext /\ RateTypes'
    /\ Sampled(b, info, metrics) = "none" => UNCHANGED <<base, split, iter, source>>
    /\ Sampled(b, info, metrics) = "live" => base'.out = eng.out /\ (near => gen' = Pos(eng.out - base.out))
    /\ Sampled(b, info, metrics) = "told" =>
          base'.out = eng.told.out /\ (near /\ Own /\ ~eng.modes => gen' = Pos(eng.told.out - base.out))
    /\ Sampled(b, info, metrics) # "none" =>
          Settled' /\ (IsRated(b, info) /\ near /\ Settled /\ ~eng.running => gen' = 0 /\ prefill' = 0)

LEMMA SampleIsSo ==
  ASSUME EngTypes, KeptTypes, RateTypes, near \in BOOLEAN, UNCHANGED eng,
         NEW b \in Backends, NEW info \in BOOLEAN, NEW metrics \in BOOLEAN,
         b = "sglang" => eng.kind = "sglang", b = "llama.cpp" => eng.kind = "llama.cpp",
         Sample(b, info, metrics)
  PROVE  SampleIs(b, info, metrics) /\ Sampled(b, info, metrics) \in {"none", "live", "told"}
<1>1. CASE b = "sglang"
  <2>1. Sglang(info, metrics)
    BY <1>1 DEF Sample
  <2>2. Sampled(b, info, metrics) = IF Totals(info) THEN "live" ELSE IF metrics THEN "told" ELSE "none"
    BY <1>1 DEF Sampled
  <2>3. KeptNext /\ RateTypes'
    BY <2>1, SglangStep
  <2>4. CASE Totals(info)
    <3>1. /\ base' = AllIn /\ source' = "server_info"
          /\ near => gen' = Pos(eng.out - base.out)
          /\ near /\ base = AllIn => gen' = 0 /\ prefill' = 0
      BY <2>1, <2>4, SglangStep
    <3>2. Settled'
      BY <1>1, <3>1 DEF Settled, AllIn
    <3>3. near /\ Settled /\ ~eng.running => gen' = 0 /\ prefill' = 0
      BY <1>1, <3>1 DEF Settled
    <3>4. base'.out = eng.out
      BY <3>1 DEF AllIn
    <3> QED
      BY <2>2, <2>3, <2>4, <3>1, <3>2, <3>3, <3>4 DEF SampleIs
  <2>5. CASE ~Totals(info) /\ metrics
    <3>1. /\ base' = eng.told /\ source' = "prometheus" /\ (eng.modes => split' = ByKind)
          /\ Own /\ near /\ ~eng.modes => gen' = Pos(eng.told.out - base.out)
          /\ Own /\ near /\ ~eng.running /\ base = AllIn /\ (eng.modes => split \in {NoSplit, ByKind}) => gen' = 0 /\ prefill' = 0
      BY <2>1, <2>5, SglangStep
    <3>2. ~eng.running => eng.told = AllIn
      BY DEF EngTypes, EngRecord, AllIn
    <3>3. ByKind' = ByKind /\ AllIn' = AllIn
      BY DEF ByKind, AllIn
    <3>4. Settled'
      BY <1>1, <3>1, <3>2, <3>3 DEF Settled
    <3>5. Own /\ near /\ Settled /\ ~eng.running => gen' = 0 /\ prefill' = 0
      BY <1>1, <3>1 DEF Settled, Own
    <3>6. IsRated(b, info) => Own
      BY <1>1, <2>5 DEF IsRated
    <3> QED
      BY <2>2, <2>3, <2>5, <3>1, <3>4, <3>5, <3>6 DEF SampleIs
  <2>6. CASE ~Totals(info) /\ ~metrics
    <3>1. UNCHANGED <<base, split, iter, source>>
      BY <2>1, <2>6, SglangStep
    <3> QED
      BY <2>2, <2>3, <2>6, <3>1 DEF SampleIs
  <2> QED
    BY <2>4, <2>5, <2>6
<1>2. ByKind' = ByKind /\ AllIn' = AllIn /\ Computed' = Computed /\ Computed.out = eng.out /\ AllIn.out = eng.out
      /\ TheirIn = [out |-> eng.out, in |-> eng.told.in] /\ TheirIn' = TheirIn /\ TheirIn.out = eng.out
  BY DEF ByKind, AllIn, Computed, TheirIn
<1>3. CASE b = "llama.cpp"
  <2>1. LlamaCpp /\ Sampled(b, info, metrics) = "live"
    BY <1>3 DEF Sample, Sampled
  <2>2. Settled'
    BY <1>2, <1>3, <2>1, LlamaStep DEF Settled
  <2>3. near /\ Settled => gen' = 0 /\ prefill' = 0
    BY <1>3, <2>1, LlamaStep DEF Settled
  <2> QED
    BY <1>2, <2>1, <2>2, <2>3, LlamaStep DEF SampleIs
<1>4. CASE b = "ds4" /\ metrics /\ eng.kind = b
  <2>1. Ds4 /\ Sampled(b, info, metrics) = "live"
    BY <1>4 DEF Sample, Sampled
  <2>2. Settled'
    BY <1>2, <1>4, <2>1, Ds4Step DEF Settled
  <2>3. near /\ Settled => gen' = 0 /\ prefill' = 0
    BY <1>4, <2>1, Ds4Step DEF Settled
  <2> QED
    BY <1>2, <2>1, <2>2, <2>3, Ds4Step DEF SampleIs
<1>5. CASE b = "exl3" /\ metrics /\ eng.kind = b
  <2>1. Exl3 /\ Sampled(b, info, metrics) = "live"
    BY <1>5 DEF Sample, Sampled
  <2>2. Settled'
    BY <1>2, <1>5, <2>1, Exl3Step DEF Settled
  <2>3. near /\ Settled => gen' = 0 /\ prefill' = 0
    BY <1>5, <2>1, Exl3Step DEF Settled
  <2> QED
    BY <1>2, <2>1, <2>2, <2>3, Exl3Step DEF SampleIs
<1>6. CASE b = "vllm" /\ metrics /\ eng.kind = b
  <2>1. Vllm /\ Sampled(b, info, metrics) = "live"
    BY <1>6 DEF Sample, Sampled
  <2>2. Settled'
    BY <1>2, <1>6, <2>1, VllmStep DEF Settled
  <2>3. near /\ Settled => gen' = 0 /\ prefill' = 0
    BY <1>2, <1>6, <2>1, VllmStep DEF Settled
  <2> QED
    BY <1>2, <2>1, <2>2, <2>3, VllmStep DEF SampleIs
<1>7. CASE b \in {"ds4", "exl3", "vllm"} /\ ~(metrics /\ eng.kind = b)
  <2>1. UNCHANGED <<base, split, iter, source, sticky, rateVars>> /\ Sampled(b, info, metrics) = "none"
    BY <1>7 DEF Sample, Sampled
  <2>2. KeptNext
    BY <2>1 DEF KeptNext, KeptTypes
  <2>3. RateTypes'
    BY <2>1 DEF RateTypes, rateVars
  <2> QED
    BY <2>1, <2>2, <2>3 DEF SampleIs
<1> QED
  BY <1>1, <1>3, <1>4, <1>5, <1>6, <1>7 DEF Backends

\* The conditions on what is shown, after a step without a sample.
LEMMA NothingReported ==
  ASSUME report' = NoReport
  PROVE  RateIsNew' /\ IdleShowsNothing' /\ HeartbeatIsHonest'
  BY DEF NoReport, RateIsNew, IdleShowsNothing, HeartbeatIsHonest

LEMMA NotedStep ==
  ASSUME LlmInv, UNCHANGED <<eng, work>>, NEW b \in Backends, NEW info \in BOOLEAN, NEW metrics \in BOOLEAN,
         b = "sglang" => eng.kind = "sglang", b = "llama.cpp" => eng.kind = "llama.cpp",
         Sample(b, info, metrics)
  PROVE  KeptTypes' /\ RateTypes' /\ MadeOK' /\ QuietOK' /\ quiet' \in BOOLEAN /\ blind' \in BOOLEAN
         /\ RateIsNew' /\ IdleShowsNothing' /\ HeartbeatIsHonest'
<1> DEFINE s == Sampled(b, info, metrics)
           counted == b = "sglang" /\ ~Totals(info) => ~eng.modes
           total == IF s = "told" THEN eng.told.out ELSE eng.out
<1>1. EngTypes /\ KeptTypes /\ RateTypes /\ near \in BOOLEAN /\ quiet \in BOOLEAN /\ blind \in BOOLEAN
  BY DEF LlmInv, Detection
<1>2. SampleIs(b, info, metrics) /\ s \in {"none", "live", "told"}
  BY <1>1, SampleIsSo
<1>3. Noted(s, IsRated(b, info), counted)
  BY DEF Sample, IsRated
<1>4. KeptNext /\ RateTypes'
  BY <1>2 DEF SampleIs
<1>5. total \in 0..MaxWork /\ total <= eng.out /\ eng.out \in 0..MaxWork /\ MaxWork \in Nat
  BY <1>1, EngBounds, CountersAssumption
<1>6. seen \in Int /\ made \in Nat /\ base.out \in Int /\ seen \in None..MaxWork
  BY <1>1, CountersAssumption DEF LlmInv, MadeOK, KeptTypes, None, Counts
<1>7. MadeOK
  BY DEF LlmInv
<1>8. CASE s = "none"
  <2>1. seen' = (IF seen = None THEN 0 ELSE seen) /\ UNCHANGED <<made, quiet, blind>> /\ report' = NoReport
    BY <1>3, <1>8 DEF Noted
  <2>2. UNCHANGED <<base, split, iter, source>>
    BY <1>2, <1>8 DEF SampleIs
  <2>3. LastSeen' = LastSeen /\ seen' \in None..MaxWork
    BY <2>1, <1>5, <1>6 DEF LastSeen, None
  <2>4. KeptTypes'
    BY <1>4, <2>3 DEF KeptTypes, KeptNext
  <2>5. MadeOK'
    BY <1>7, <2>1, <2>2, <2>3 DEF MadeOK
  <2>6. Settled' = Settled
    BY <2>2 DEF Settled, Computed, AllIn, ByKind
  <2>7. QuietOK'
    BY <2>1, <2>6 DEF QuietOK, LlmInv
  <2> QED
    BY <1>1, <1>4, <2>1, <2>4, <2>5, <2>7, NothingReported
<1>9. CASE s # "none"
  <2>1. seen' = (IF seen = None \/ Grew(total) THEN total ELSE seen)
        /\ made' = eng.out - total /\ quiet' = TRUE /\ blind' = FALSE
    BY <1>3, <1>9 DEF Noted
  <2>2. report' = [rated |-> IsRated(b, info) /\ near /\ ~blind, quiet |-> quiet, made |-> made,
                   counted |-> counted, beat |-> Grew(total) /\ ~blind]
    BY <1>3, <1>9 DEF Noted
  <2>3. base'.out = total /\ Settled'
    BY <1>2, <1>9 DEF SampleIs
  <2>4. Grew(total) <=> seen # None /\ total > seen
    BY DEF Grew
  <2> HIDE DEF total, counted, s
  <2>5. seen' \in 0..MaxWork /\ total <= seen'
    BY <1>5, <1>6, <2>1, <2>4 DEF None
  <2>6. KeptTypes'
    BY <1>4, <1>5, <2>5 DEF KeptTypes, KeptNext, None
  <2>7. MadeOK'
    <3>1. made' \in Nat /\ eng.out - base'.out <= made'
      BY <1>5, <2>1, <2>3
    <3>2. LastSeen' = seen'
      BY <2>5, <1>5 DEF LastSeen, None
    <3>3. eng.out - seen' <= made'
      BY <1>5, <2>1, <2>5
    <3> QED
      BY <3>1, <3>2, <3>3 DEF MadeOK
  <2>8. QuietOK'
    BY <2>3 DEF QuietOK
  <2>9. RateIsNew'
    <3> SUFFICES ASSUME IsRated(b, info), near, ~blind, counted PROVE gen' <= made
      BY <2>2 DEF RateIsNew
    <3>1. gen' = Pos(total - base.out)
      <4>1. CASE s = "live"
        BY <1>2, <4>1 DEF SampleIs, s, total
      <4>2. CASE s = "told"
        <5>1. b = "sglang" /\ ~Totals(info)
          BY <4>2 DEF s, Sampled, Backends
        <5> QED
          BY <1>2, <4>2, <5>1 DEF SampleIs, s, total, IsRated, counted
      <4> QED
        BY <1>2, <1>9, <4>1, <4>2
    <3>2. eng.out - base.out <= made
      BY <1>7 DEF MadeOK
    <3>3. Pos(total - base.out) \in {0, total - base.out}
      BY <1>5, <1>6, PosIs
    <3> QED
      BY <1>5, <1>6, <3>1, <3>2, <3>3
  <2>10. IdleShowsNothing'
    <3> SUFFICES ASSUME IsRated(b, info), near, ~blind, quiet, ~eng.running PROVE gen' = 0 /\ prefill' = 0
      BY <2>2 DEF IdleShowsNothing
    <3>1. Settled
      BY DEF LlmInv, QuietOK
    <3> QED
      BY <1>2, <1>9, <3>1 DEF SampleIs, s
  <2>11. HeartbeatIsHonest'
    <3> SUFFICES ASSUME Grew(total), ~blind PROVE made > 0
      BY <2>2 DEF HeartbeatIsHonest
    <3>1. eng.out - seen <= made
      BY <1>7, <2>4 DEF MadeOK, LastSeen
    <3> QED
      BY <1>5, <1>6, <2>4, <3>1
  <2> QED
    BY <1>4, <2>1, <2>6, <2>7, <2>8, <2>9, <2>10, <2>11
<1> QED
  BY <1>8, <1>9

LEMMA DetectionIs ==
  ASSUME LlmInv, NEW models \in {"ok", "auth", "down"}, NEW d \in Known \cup Detected(models)
  PROVE  DetectedOK(d.api, d.backend) /\ (models # "down" => d.api # "unknown")
<1>1. DetectedOK(api, backend) /\ eng.kind \in Kinds /\ Kinds \subseteq Backends
  BY CountersAssumption DEF LlmInv, Detection, EngTypes, EngRecord, Backends
<1>2. CASE d \in Known
  <2>1. d = [api |-> api, backend |-> backend] /\ api # "unknown"
    BY <1>2 DEF Known
  <2> QED
    BY <1>1, <2>1
<1>3. CASE d \in Detected(models)
  <2>1. CASE models = "down"
    <3>1. d = [api |-> "unknown", backend |-> "none"]
      BY <1>3, <2>1 DEF Detected
    <3> QED
      BY <1>1, <2>1, <3>1 DEF DetectedOK
  <2>2. CASE models # "down" /\ Slots(backend)
    <3>1. d = [api |-> "slots", backend |-> "llama.cpp"] /\ eng.kind = "llama.cpp"
      BY <1>3, <2>2 DEF Detected, Slots
    <3> QED
      BY <1>1, <3>1 DEF DetectedOK
  <2>3. CASE models # "down" /\ ~Slots(backend)
    <3>1. PICK b \in Classified(models) : d = [api |-> "openai", backend |-> b]
      BY <1>3, <2>3 DEF Detected
    <3>2. b \in {IF eng.kind = "llama.cpp" THEN "vllm" ELSE eng.kind, "vllm"}
      BY DEF Classified
    <3>3. CASE b = "vllm"
      BY <1>1, <3>1, <3>3 DEF DetectedOK
    <3>4. CASE b = eng.kind /\ b # "llama.cpp"
      BY <1>1, <3>1, <3>4 DEF DetectedOK, Backends
    <3> QED
      BY <3>2, <3>3, <3>4
  <2> QED
    BY <2>1, <2>2, <2>3
<1> QED
  BY <1>2, <1>3

\* The engine itself rests in a probe.
LEMMA EngRests ==
  ASSUME EngTypes, UNCHANGED engVars
  PROVE  EngTypes' /\ UNCHANGED <<eng, work>>
  BY DEF EngTypes, EngRecord, engVars

LEMMA FailureStep ==
  ASSUME LlmInv, UNCHANGED engVars, near' \in BOOLEAN, NEW d, DetectedOK(d.api, d.backend), Failure(d)
  PROVE  LlmInv'
<1>1. EngTypes' /\ UNCHANGED <<eng, work>>
  BY EngRests DEF LlmInv
<1>2. /\ report' = NoReport /\ UNCHANGED <<made, quiet>>
      /\ fails' = Min({fails + 1, FailReset})
  BY DEF Failure
<1>3. fails' \in 0..FailReset
  <2>1. fails \in 0..FailReset /\ FailReset \in Nat \ {0}
    BY CountersAssumption DEF LlmInv, Detection
  <2>2. fails + 1 \in Int /\ FailReset \in Int
    BY <2>1
  <2>3. Min({fails + 1, FailReset}) \in {fails + 1, FailReset} /\ Min({fails + 1, FailReset}) <= FailReset
    BY <2>2, MinIs
  <2> QED
    BY <1>2, <2>1, <2>3
<1>4. CASE Forgets
  <2>1. DetectedOK("unknown", "none")
    BY DEF DetectedOK
  <2>2. DetectedOK(api, backend)'
    BY <1>1, <1>4, <2>1 DEF Forgets, DetectedOK
  <2>3. Detection'
    BY <1>2, <1>3, <1>4, <2>2 DEF Detection, Forgets, LlmInv
  <2>4. KeptTypes'
    BY <1>4, CountersAssumption DEF Forgets, KeptTypes, LlmInv, Zero, NoSplit, NoSticky, None, Counts, Splits
  <2>5. RateTypes'
    BY <1>4, CountersAssumption DEF Forgets, RateTypes, None
  <2>6. MadeOK' /\ QuietOK'
    BY <1>2, <1>4 DEF Forgets, MadeOK, QuietOK, LlmInv
  <2> QED
    BY <1>1, <1>2, <2>3, <2>4, <2>5, <2>6, NothingReported DEF LlmInv
<1>5. CASE api' = d.api /\ backend' = d.backend /\ UNCHANGED <<baseVars, rateVars, blind>>
  <2>1. DetectedOK(api, backend)'
    BY <1>1, <1>5 DEF DetectedOK
  <2>2. Detection'
    BY <1>2, <1>3, <1>5, <2>1 DEF Detection, LlmInv
  <2>3. KeptTypes' /\ RateTypes'
    BY <1>5 DEF KeptTypes, RateTypes, LlmInv, baseVars, rateVars
  <2>4. LastSeen' = LastSeen /\ Settled' = Settled
    BY <1>1, <1>5 DEF LastSeen, baseVars, Settled, Computed, AllIn, ByKind
  <2>5. MadeOK' /\ QuietOK'
    BY <1>1, <1>2, <1>5, <2>4 DEF MadeOK, QuietOK, LlmInv, baseVars
  <2> QED
    BY <1>1, <1>2, <2>2, <2>3, <2>5, NothingReported DEF LlmInv
<1> QED
  BY <1>4, <1>5 DEF Failure

LEMMA RefusedStep ==
  ASSUME LlmInv, UNCHANGED engVars, near' \in BOOLEAN, NEW d, DetectedOK(d.api, d.backend), Refused(d)
  PROVE  LlmInv'
<1>1. EngTypes' /\ UNCHANGED <<eng, work>>
  BY EngRests DEF LlmInv
<1>2. DetectedOK(api, backend)'
  BY <1>1 DEF DetectedOK, Refused
<1>3. Detection'
  BY <1>2, CountersAssumption DEF Detection, LlmInv, Refused
<1>4. seen' \in None..MaxWork /\ LastSeen' = LastSeen
  BY CountersAssumption DEF Refused, LastSeen, None, LlmInv, KeptTypes
<1>5. KeptTypes' /\ RateTypes'
  BY <1>4 DEF KeptTypes, RateTypes, LlmInv, Refused, rateVars
<1>6. Settled' = Settled
  BY <1>1 DEF Settled, Refused, Computed, AllIn, ByKind
<1>7. MadeOK' /\ QuietOK'
  BY <1>1, <1>4, <1>6 DEF MadeOK, QuietOK, LlmInv, Refused
<1> QED
  BY <1>1, <1>3, <1>5, <1>7, NothingReported DEF LlmInv, Refused

LEMMA AnsweredStep ==
  ASSUME LlmInv, UNCHANGED engVars, near' \in BOOLEAN, NEW info \in BOOLEAN, NEW metrics \in BOOLEAN,
         NEW d, DetectedOK(d.api, d.backend), d.api # "unknown", d.api = "slots" => eng.kind = "llama.cpp",
         Answered(d, info, metrics)
  PROVE  LlmInv'
<1> DEFINE b == IF d.api = "slots" THEN "llama.cpp" ELSE Healed(d.backend)
           c == IF b = "sglang" \/ ~metrics THEN b ELSE IF eng.kind = "ds4" THEN "ds4" ELSE b
<1>1. EngTypes' /\ UNCHANGED <<eng, work>> /\ eng.kind \in Kinds /\ Kinds \subseteq Backends
  BY EngRests, CountersAssumption DEF LlmInv, EngTypes, EngRecord, Backends
<1>2. fails' = 0 /\ api' = d.api /\ backend' = c /\ Sample(c, info, metrics)
  BY DEF Answered
<1>3. DetectedOK(d.api, b)
  <2>1. CASE d.api = "slots"
    BY <2>1 DEF DetectedOK
  <2>2. CASE d.api = "openai"
    <3>1. b = Healed(d.backend)
      BY <2>2
    <3>2. CASE eng.kind = "ds4"
      BY <1>1, <2>2, <3>1, <3>2 DEF DetectedOK, Healed
    <3>3. CASE eng.kind \in {"sglang", "exl3"} /\ d.backend # "ds4"
      BY <1>1, <2>2, <3>1, <3>3 DEF DetectedOK, Healed
    <3>4. CASE eng.kind # "ds4" /\ ~(eng.kind \in {"sglang", "exl3"} /\ d.backend # "ds4")
      BY <1>1, <2>2, <3>1, <3>4 DEF DetectedOK, Healed
    <3> QED
      BY <3>2, <3>3, <3>4
  <2> QED
    BY <2>1, <2>2 DEF DetectedOK
<1> HIDE DEF b
<1>4. DetectedOK(d.api, c)
  <2>1. CASE c = b
    BY <1>3, <2>1
  <2>2. CASE c = "ds4" /\ eng.kind = "ds4" /\ metrics /\ b # "ds4" /\ d.api # "slots"
    BY <1>1, <1>3, <2>2 DEF DetectedOK
  <2>3. CASE c = "ds4" /\ eng.kind = "ds4" /\ d.api = "slots"
    BY <2>3
  <2> QED
    BY <2>1, <2>2, <2>3
<1> HIDE DEF c
<1>5. c \in Backends /\ (c = "sglang" => eng.kind = "sglang") /\ (c = "llama.cpp" => eng.kind = "llama.cpp")
  BY <1>1, <1>4 DEF DetectedOK, Backends
<1>6. /\ KeptTypes' /\ RateTypes' /\ MadeOK' /\ QuietOK' /\ quiet' \in BOOLEAN /\ blind' \in BOOLEAN
      /\ RateIsNew' /\ IdleShowsNothing' /\ HeartbeatIsHonest'
  BY <1>1, <1>2, <1>5, NotedStep
<1>7. DetectedOK(api, backend)'
  BY <1>1, <1>2, <1>4 DEF DetectedOK
<1>8. Detection'
  BY <1>2, <1>6, <1>7, CountersAssumption DEF Detection
<1> QED
  BY <1>1, <1>6, <1>8 DEF LlmInv

LEMMA ProbeStep ==
  ASSUME LlmInv, NEW models \in {"ok", "auth", "down"}, NEW info \in BOOLEAN, NEW metrics \in BOOLEAN,
         Probe(models, info, metrics)
  PROVE  LlmInv'
<1>1. PICK d \in Known \cup Detected(models) :
        /\ near' = (near \/ d.api # "unknown")
        /\ UNCHANGED engVars
        /\ IF models = "down" \/ (d.api = "slots" /\ eng.kind # "llama.cpp") THEN Failure(d)
           ELSE IF models = "auth" THEN Refused(d)
           ELSE Answered(d, info, metrics)
  BY DEF Probe
<1>2. DetectedOK(d.api, d.backend) /\ (models # "down" => d.api # "unknown") /\ near' \in BOOLEAN
  BY <1>1, DetectionIs
<1>3. CASE models = "down" \/ (d.api = "slots" /\ eng.kind # "llama.cpp")
  BY <1>1, <1>2, <1>3, FailureStep
<1>4. CASE ~(models = "down" \/ (d.api = "slots" /\ eng.kind # "llama.cpp")) /\ models = "auth"
  BY <1>1, <1>2, <1>4, RefusedStep
<1>5. CASE ~(models = "down" \/ (d.api = "slots" /\ eng.kind # "llama.cpp")) /\ models # "auth"
  BY <1>1, <1>2, <1>5, AnsweredStep
<1> QED
  BY <1>3, <1>4, <1>5

\* A step of the engine, that the probe does not see.
LEMMA UnreadStep ==
  ASSUME LlmInv, EngTypes', Unread, made' \in Nat, eng'.out - made' <= eng.out - made \/ eng'.out = 0,
         eng'.kind = eng.kind \/ "sglang" \notin {eng.kind, eng'.kind}
  PROVE  LlmInv'
<1>1. UNCHANGED <<api, backend, near, fails, baseVars, rateVars, blind>> /\ quiet' = FALSE /\ report' = NoReport
  BY DEF Unread
<1>2. KeptTypes' /\ RateTypes' /\ LastSeen' = LastSeen /\ base' = base
  BY <1>1 DEF KeptTypes, RateTypes, LlmInv, baseVars, rateVars, LastSeen
<1>3. DetectedOK(api, backend)'
  BY <1>1 DEF DetectedOK, LlmInv, Detection
<1>4. Detection'
  BY <1>1, <1>3 DEF Detection, LlmInv
<1>5. QuietOK'
  BY <1>1 DEF QuietOK
<1>6. MadeOK'
  <2>1. eng.out \in Nat /\ made \in Nat
    BY DEF LlmInv, MadeOK, EngTypes, EngRecord
  <2>2. eng'.out \in Nat
    BY DEF EngTypes, EngRecord
  <2>3. base.out \in Nat /\ LastSeen \in Nat
    BY DEF LlmInv, KeptTypes, Counts, LastSeen, None
  <2>4. ~blind => eng.out - base.out <= made /\ eng.out - LastSeen <= made
    BY DEF LlmInv, MadeOK
  <2>5. ~blind => eng'.out - base.out <= made' /\ eng'.out - LastSeen <= made'
    BY <2>1, <2>2, <2>3, <2>4
  <2> QED
    BY <1>1, <1>2, <2>5 DEF MadeOK
<1> QED
  BY <1>1, <1>2, <1>4, <1>5, <1>6, NothingReported DEF LlmInv

LEMMA CountersStep ==
  ASSUME LlmInv, CountersNext, faults' = faults \/ "sglang" \notin {eng.kind, eng'.kind}
  PROVE  LlmInv'
<1>1. EngTypes /\ MaxWork \in Nat /\ MaxFaults \in Nat /\ made \in Nat
  BY CountersAssumption DEF LlmInv, MadeOK
<1>2. ASSUME NEW k \in 0..1, Takes(k) PROVE LlmInv'
  <2>1. EngTypes'
    <3>1. eng \in [kind : Kinds, totals : BOOLEAN, modes : BOOLEAN, out : Nat, fill : Nat, cached : Nat,
                   told : [out : Nat, in : Nat], running : BOOLEAN, gauge : 0..2]
      BY <1>1 DEF EngTypes, EngRecord
    <3>2. EngRecord'
      <4>1. eng' = [eng EXCEPT !.running = TRUE, !.cached = eng.cached + k]
        BY <1>2 DEF Takes
      <4>2. eng.cached + k \in Nat
        BY <3>1
      <4> QED
        BY <3>1, <4>1, <4>2 DEF EngRecord
    <3>3. eng'.out = eng.out /\ eng'.fill = eng.fill /\ eng'.cached = eng.cached + k /\ eng'.told = eng.told /\ eng'.running
      BY <1>2, <3>1 DEF Takes
    <3>4. work' = work + k /\ work' <= MaxWork /\ faults' = faults
      BY <1>1, <1>2 DEF Takes, EngTypes
    <3>5. eng.out \in Nat /\ eng.fill \in Nat /\ eng.cached \in Nat /\ eng.told.out \in Nat /\ eng.told.in \in Nat
      BY <3>1
    <3> QED
      BY <1>1, <3>2, <3>3, <3>4, <3>5 DEF EngTypes
  <2> QED
    BY <1>1, <1>2, <2>1, UnreadStep DEF Takes, EngTypes, EngRecord
<1>3. ASSUME Prefills PROVE LlmInv'
  <2>1. EngTypes'
    BY <1>1, <1>3 DEF EngTypes, EngRecord, Prefills
  <2> QED
    BY <1>1, <1>3, <2>1, UnreadStep DEF Prefills, EngTypes, EngRecord
<1>4. ASSUME NEW g \in 1..2, Decodes(g) PROVE LlmInv'
  <2>1. EngTypes'
    <3>1. eng \in [kind : Kinds, totals : BOOLEAN, modes : BOOLEAN, out : Nat, fill : Nat, cached : Nat,
                   told : [out : Nat, in : Nat], running : BOOLEAN, gauge : 0..2]
      BY <1>1 DEF EngTypes, EngRecord
    <3>2. EngRecord'
      <4>1. eng' = [eng EXCEPT !.out = eng.out + 1, !.gauge = g]
        BY <1>4 DEF Decodes
      <4>2. eng.out + 1 \in Nat /\ g \in 0..2
        BY <3>1
      <4> QED
        BY <3>1, <4>1, <4>2 DEF EngRecord
    <3>3. eng'.out = eng.out + 1 /\ eng'.fill = eng.fill /\ eng'.cached = eng.cached /\ eng'.told = eng.told /\ eng'.running
      BY <1>4, <3>1 DEF Decodes
    <3>4. work' = work + 1 /\ work' <= MaxWork /\ faults' = faults
      BY <1>1, <1>4 DEF Decodes, EngTypes
    <3>5. eng.out \in Nat /\ eng.fill \in Nat /\ eng.cached \in Nat /\ eng.told.out \in Nat /\ eng.told.in \in Nat
      BY <3>1
    <3> QED
      BY <1>1, <3>2, <3>3, <3>4, <3>5 DEF EngTypes
  <2> QED
    BY <1>1, <1>4, <2>1, UnreadStep DEF Decodes, EngTypes, EngRecord
<1>5. ASSUME Finishes PROVE LlmInv'
  <2>1. EngTypes'
    <3>1. eng \in [kind : Kinds, totals : BOOLEAN, modes : BOOLEAN, out : Nat, fill : Nat, cached : Nat,
                   told : [out : Nat, in : Nat], running : BOOLEAN, gauge : 0..2]
      BY <1>1 DEF EngTypes, EngRecord
    <3>2. EngRecord'
      <4>1. eng' = [eng EXCEPT !.running = FALSE, !.told = [out |-> eng.out, in |-> eng.fill + eng.cached]]
        BY <1>5 DEF Finishes
      <4>2. [out |-> eng.out, in |-> eng.fill + eng.cached] \in [out : Nat, in : Nat]
        BY <3>1
      <4> QED
        BY <3>1, <4>1, <4>2 DEF EngRecord
    <3>3. eng'.out = eng.out /\ eng'.fill = eng.fill /\ eng'.cached = eng.cached /\ eng'.told = [out |-> eng.out, in |-> eng.fill + eng.cached]
      BY <1>5, <3>1 DEF Finishes
    <3>4. work' = work /\ faults' = faults
      BY <1>1, <1>5 DEF Finishes, EngTypes
    <3>5. eng.out \in Nat /\ eng.fill \in Nat /\ eng.cached \in Nat /\ eng.told.out \in Nat /\ eng.told.in \in Nat
      BY <3>1
    <3> QED
      BY <1>1, <3>2, <3>3, <3>4, <3>5 DEF EngTypes
  <2> QED
    BY <1>1, <1>5, <2>1, UnreadStep DEF Finishes, EngTypes, EngRecord
<1>6. ASSUME NEW b \in Buildable, Restarts(b) PROVE LlmInv'
  <2>1. b \in [kind : Kinds, totals : BOOLEAN, modes : BOOLEAN]
    BY DEF Buildable, Builds
  <2>2. EngTypes'
    BY <1>1, <1>6, <2>1 DEF EngTypes, EngRecord, Restarts, Engine, Zero
  <2>3. "sglang" \notin {eng.kind, eng'.kind} /\ eng'.out = 0
    <3>1. faults' # faults
      BY <1>1, <1>6 DEF Restarts, EngTypes, EngRecord
    <3> QED
      BY <1>6, <3>1 DEF Restarts, Engine
  <2> QED
    BY <1>1, <1>6, <2>2, <2>3, UnreadStep DEF Restarts
<1>7. ASSUME Ages PROVE LlmInv'
  <2>1. /\ EngTypes' /\ KeptTypes' /\ RateTypes' /\ Detection' /\ LastSeen' = LastSeen /\ Settled' = Settled
    <3>1. EngTypes' /\ KeptTypes' /\ RateTypes'
      BY <1>7 DEF LlmInv, Ages, EngTypes, EngRecord, KeptTypes, RateTypes, engVars, baseVars, rateVars
    <3>2. DetectedOK(api, backend)' = DetectedOK(api, backend)
      BY <1>7 DEF Ages, engVars, DetectedOK
    <3> QED
      BY <1>7, <3>1, <3>2 DEF LlmInv, Ages, Detection, LastSeen, Settled, Computed, AllIn, ByKind, engVars, baseVars
  <2>2. MadeOK' /\ QuietOK'
    BY <1>7, <2>1 DEF LlmInv, Ages, MadeOK, QuietOK, engVars, baseVars
  <2> QED
    BY <1>7, <2>1, <2>2, NothingReported DEF LlmInv, Ages
<1>8. ASSUME Cools PROVE LlmInv'
  <2>1. /\ EngTypes' /\ KeptTypes' /\ RateTypes' /\ Detection' /\ LastSeen' = LastSeen /\ Settled' = Settled
    <3>1. EngTypes' /\ KeptTypes' /\ RateTypes'
      BY <1>8 DEF LlmInv, Cools, EngTypes, EngRecord, KeptTypes, RateTypes, engVars, rateVars
    <3>2. DetectedOK(api, backend)' = DetectedOK(api, backend)
      BY <1>8 DEF Cools, engVars, DetectedOK
    <3> QED
      BY <1>8, <3>1, <3>2 DEF LlmInv, Cools, Detection, LastSeen, Settled, Computed, AllIn, ByKind, engVars
  <2>2. MadeOK' /\ QuietOK'
    BY <1>8, <2>1 DEF LlmInv, Cools, MadeOK, QuietOK, engVars
  <2> QED
    BY <1>8, <2>1, <2>2, NothingReported DEF LlmInv, Cools
<1> QED
  BY <1>2, <1>3, <1>4, <1>5, <1>6, <1>7, <1>8, ProbeStep DEF CountersNext

LEMMA CountersStutter ==
  ASSUME LlmInv, UNCHANGED counterVars
  PROVE  LlmInv'
<1>1. UNCHANGED <<eng, work, faults, api, backend, near, fails, base, split, iter, source, sticky, seen,
                  gen, prefill, cachedPrefill, freshPrefill, made, quiet, blind, report>>
  BY DEF counterVars, engVars, baseVars, rateVars
<1>2. EngTypes' /\ KeptTypes' /\ RateTypes'
  BY <1>1 DEF LlmInv, EngTypes, EngRecord, KeptTypes, RateTypes
<1>3. DetectedOK(api, backend)' = DetectedOK(api, backend) /\ LastSeen' = LastSeen
  BY <1>1 DEF DetectedOK, LastSeen
<1>4. Settled' = Settled
  BY <1>1 DEF Settled, Computed, AllIn, ByKind
<1>5. Detection' /\ MadeOK' /\ QuietOK'
  BY <1>1, <1>3, <1>4 DEF LlmInv, Detection, MadeOK, QuietOK
<1>6. RateIsNew' /\ IdleShowsNothing' /\ HeartbeatIsHonest'
  BY <1>1 DEF LlmInv, RateIsNew, IdleShowsNothing, HeartbeatIsHonest
<1> QED
  BY <1>2, <1>5, <1>6 DEF LlmInv

LEMMA CountersStart == CountersInit => LlmInv
<1> SUFFICES ASSUME CountersInit PROVE LlmInv
  OBVIOUS
<1>1. PICK b \in Buildable : eng = Engine(b)
  BY DEF CountersInit
<1>2. b \in [kind : Kinds, totals : BOOLEAN, modes : BOOLEAN]
  BY DEF Buildable, Builds
<1>3. EngTypes
  BY <1>1, <1>2, CountersAssumption DEF EngTypes, EngRecord, CountersInit, Engine, Zero
<1>4. Detection
  <2>1. fails \in 0..FailReset
    BY CountersAssumption DEF CountersInit
  <2>2. DetectedOK(api, backend)
    BY DEF CountersInit, DetectedOK
  <2>3. near \in BOOLEAN /\ quiet \in BOOLEAN /\ blind \in BOOLEAN
    BY DEF CountersInit
  <2> QED
    BY <2>1, <2>2, <2>3 DEF Detection
<1>5. KeptTypes
  BY CountersAssumption DEF CountersInit, KeptTypes, Zero, NoSplit, NoSticky, None, Counts, Splits
<1>6. RateTypes
  BY CountersAssumption DEF CountersInit, RateTypes, None
<1>7. eng.out = 0 /\ eng.fill = 0 /\ eng.cached = 0 /\ eng.told = Zero
  BY <1>1 DEF Engine
<1>8. MadeOK
  BY <1>7 DEF CountersInit, MadeOK, LastSeen, Zero
<1>9. QuietOK
  BY <1>7 DEF CountersInit, QuietOK, Settled, Computed, AllIn, ByKind, NoSplit, Zero
<1>10. RateIsNew /\ IdleShowsNothing /\ HeartbeatIsHonest
  BY DEF CountersInit, NoReport, RateIsNew, IdleShowsNothing, HeartbeatIsHonest
<1> QED
  BY <1>3, <1>4, <1>5, <1>6, <1>8, <1>9, <1>10 DEF LlmInv

LEMMA CountersTyped == LlmInv => CountersTypeOK
<1> SUFFICES ASSUME LlmInv PROVE CountersTypeOK
  OBVIOUS
<1>1. eng.kind \in Kinds /\ work \in 0..MaxWork /\ faults \in 0..MaxFaults
  BY DEF LlmInv, EngTypes, EngRecord
<1>2. api \in {"unknown", "openai", "slots"} /\ backend \in Kinds \cup {"vllm", "none"} /\ (api = "unknown" <=> backend = "none")
  BY DEF LlmInv, Detection, DetectedOK
<1>3. fails \in 0..FailReset
  BY DEF LlmInv, Detection
<1>4. base \in [out : 0..MaxWork, in : 0..MaxWork] /\ source \in {"none", "server_info", "prometheus"}
  BY DEF LlmInv, KeptTypes, Counts
<1>5. RateTypes
  BY DEF LlmInv
<1> QED
  BY <1>1, <1>2, <1>3, <1>4, <1>5 DEF CountersTypeOK, RateTypes

-----------------------------------------------------------------------------
(* SystemMeters: the invariant *)

Stat == [total : Units \union {NoReading}, used : Units \union {NoReading}]
PollRow == [stage : {"idle", "sent", "read"}, current : BOOLEAN, stat : Stat, bytes : Units \union {NoReading}, ticks : Int]

RatesTypes ==
    /\ remote \in BOOLEAN /\ crossed \in BOOLEAN
    /\ cpu \in [total : Units, used : Units] /\ cpu.used <= cpu.total /\ net \in Units
    /\ polls \in [Pollers -> PollRow]
    /\ lastCpuStat \in Stat /\ lastNetworkStats \in Units \union {NoReading}
    /\ done \in [cpu : Nat, net : Nat] /\ shown \in [cpu : Nat, net : Nat]

\* One poll at a time is of the current lifecycle.
OneIsCurrent ==
    /\ \A s, o \in Pollers : polls[s].current /\ polls[o].current => s = o
    /\ \A s \in Pollers : polls[s].stage = "idle" => polls[s] = Idle

\* A reading leaves to be shown what was used since; so does the baseline.
KnownUsed(stat) == stat.used \notin {NoReading, 0}

CpuRow(p, now, last, told, ran) == p.current /\ p.stage = "read" =>
    /\ p.stat.used \in Nat /\ p.stat.used <= now
    /\ told + (now - p.stat.used) <= ran
    /\ p.ticks > 0 => KnownUsed(last) /\ p.ticks <= p.stat.used - last.used
CpuAgrees ==
    /\ shown.cpu <= done.cpu
    /\ KnownUsed(lastCpuStat) => shown.cpu + (cpu.used - lastCpuStat.used) <= done.cpu
    /\ \A s \in Pollers : CpuRow(polls[s], cpu.used, lastCpuStat, shown.cpu, done.cpu)

NetRow(p, now, told, ran) == p.current /\ p.stage = "read" =>
    p.bytes \in Nat /\ p.bytes <= now /\ told + (now - p.bytes) <= ran
NetAgrees == ~crossed =>
    /\ shown.net <= done.net
    /\ lastNetworkStats # NoReading => shown.net + (net - lastNetworkStats) <= done.net
    /\ \A s \in Pollers : NetRow(polls[s], net, shown.net, done.net)

RatesInv == RatesTypes /\ OneIsCurrent /\ CpuAgrees /\ NetAgrees

-----------------------------------------------------------------------------
LEMMA MaxIs ==
  ASSUME NEW n \in Int
  PROVE  Max({0, n}) \in Nat /\ Max({0, n}) >= n /\ (n <= 0 => Max({0, n}) = 0) /\ (n >= 0 => Max({0, n}) = n)
<1>1. \E x \in {0, n} : \A y \in {0, n} : x >= y
  OBVIOUS
<1>2. Max({0, n}) \in {0, n} /\ \A y \in {0, n} : Max({0, n}) >= y
  BY <1>1 DEF Max
<1> QED
  BY <1>2

LEMMA RowsAreEqual ==
  ASSUME NEW p \in PollRow, NEW q \in PollRow,
         p.stage = q.stage, p.current = q.current, p.stat = q.stat, p.bytes = q.bytes, p.ticks = q.ticks
  PROVE  p = q
<1>1. /\ p = [stage |-> p.stage, current |-> p.current, stat |-> p.stat, bytes |-> p.bytes, ticks |-> p.ticks]
      /\ q = [stage |-> q.stage, current |-> q.current, stat |-> q.stat, bytes |-> q.bytes, ticks |-> q.ticks]
  BY DEF PollRow
<1> QED
  BY <1>1

LEMMA IdleRow == Idle \in PollRow /\ ~Idle.current /\ Idle.stage = "idle"
  BY DEF Idle, PollRow, NoStat, NoReading, Stat

\* A slot that is given up.
LEMMA FreedKeeps ==
  ASSUME RatesInv, NEW s \in Pollers, polls' = [polls EXCEPT ![s] = Idle],
         UNCHANGED <<remote, cpu, net, lastCpuStat, lastNetworkStats, crossed, done, shown>>
  PROVE  RatesInv'
<1>1. polls'[s] = Idle /\ (\A o \in Pollers : o # s => polls'[o] = polls[o]) /\ polls' \in [Pollers -> PollRow]
  BY IdleRow DEF RatesInv, RatesTypes
<1>2. RatesTypes'
  BY <1>1 DEF RatesInv, RatesTypes
<1>3. OneIsCurrent'
  BY <1>1, IdleRow DEF RatesInv, OneIsCurrent
<1>4. \A o \in Pollers : /\ CpuRow(polls[o], cpu.used, lastCpuStat, shown.cpu, done.cpu)'
                         /\ (~crossed => NetRow(polls[o], net, shown.net, done.net))'
  BY <1>1, IdleRow DEF RatesInv, CpuAgrees, NetAgrees, CpuRow, NetRow
<1>5. CpuAgrees'
  BY <1>4 DEF RatesInv, CpuAgrees
<1>6. NetAgrees'
  BY <1>4 DEF RatesInv, NetAgrees
<1> QED
  BY <1>2, <1>3, <1>5, <1>6 DEF RatesInv

LEMMA TicksKeep ==
  ASSUME RatesInv, NEW busy \in BOOLEAN, Ticks(busy)
  PROVE  RatesInv'
<1> DEFINE n == IF busy THEN 1 ELSE 0
<1>1. n \in {0, 1} /\ cpu.total \in Nat /\ cpu.used \in Nat /\ cpu.total < MaxUnits /\ cpu.used <= cpu.total /\ MaxUnits \in Nat
  BY MetersAssumption DEF Ticks, RatesInv, RatesTypes, Units
<1>2. cpu' = [total |-> cpu.total + 1, used |-> cpu.used + n]
  BY DEF Ticks
<1>3. done' = [done EXCEPT !.cpu = @ + n]
  BY DEF Ticks
<1> HIDE DEF n
<1>4. done \in [cpu : Nat, net : Nat] /\ shown \in [cpu : Nat, net : Nat]
  BY DEF RatesInv, RatesTypes
<1>5. done' \in [cpu : Nat, net : Nat] /\ done'.cpu = done.cpu + n /\ done'.net = done.net
  BY <1>1, <1>3, <1>4
<1>6. cpu' \in [total : Units, used : Units] /\ cpu'.used <= cpu'.total /\ cpu'.used = cpu.used + n
  BY <1>1, <1>2 DEF Units
<1>7. UNCHANGED <<remote, net, polls, lastCpuStat, lastNetworkStats, crossed, shown>>
  BY DEF Ticks
<1>8. RatesTypes'
  BY <1>5, <1>6, <1>7 DEF RatesInv, RatesTypes
<1>9. OneIsCurrent'
  BY <1>7 DEF RatesInv, OneIsCurrent
<1>10. lastCpuStat.used \in Int
  BY DEF RatesInv, RatesTypes, Stat, Units, NoReading
<1>11. CpuAgrees'
  <2>1. (shown.cpu <= done.cpu)'
    BY <1>1, <1>4, <1>5, <1>7 DEF RatesInv, CpuAgrees
  <2>2. (KnownUsed(lastCpuStat) => shown.cpu + (cpu.used - lastCpuStat.used) <= done.cpu)'
    <3>1. KnownUsed(lastCpuStat) => shown.cpu + (cpu.used - lastCpuStat.used) <= done.cpu
      BY DEF RatesInv, CpuAgrees
    <3> QED
      BY <1>1, <1>4, <1>5, <1>6, <1>7, <1>10, <3>1
  <2>3. ASSUME NEW s \in Pollers PROVE CpuRow(polls[s], cpu'.used, lastCpuStat, shown.cpu, done'.cpu)
    <3>1. CpuRow(polls[s], cpu.used, lastCpuStat, shown.cpu, done.cpu)
      BY DEF RatesInv, CpuAgrees
    <3> QED
      BY <1>1, <1>4, <1>5, <1>6, <3>1 DEF CpuRow
  <2>4. \A s \in Pollers : CpuRow(polls[s], cpu.used, lastCpuStat, shown.cpu, done.cpu)'
    BY <1>7, <2>3
  <2> QED
    BY <2>1, <2>2, <2>4 DEF CpuAgrees
<1>12. NetAgrees'
  BY <1>5, <1>7 DEF RatesInv, NetAgrees
<1> QED
  BY <1>8, <1>9, <1>11, <1>12 DEF RatesInv

LEMMA PacketKeeps ==
  ASSUME RatesInv, Packet
  PROVE  RatesInv'
<1>1. net \in Nat /\ net < MaxUnits /\ MaxUnits \in Nat /\ net' = net + 1
  BY MetersAssumption DEF Packet, RatesInv, RatesTypes, Units
<1>2. done' = [done EXCEPT !.net = @ + 1]
  BY DEF Packet
<1>3. done \in [cpu : Nat, net : Nat] /\ shown \in [cpu : Nat, net : Nat]
  BY DEF RatesInv, RatesTypes
<1>4. done' \in [cpu : Nat, net : Nat] /\ done'.cpu = done.cpu /\ done'.net = done.net + 1
  BY <1>2, <1>3
<1>5. net' \in Units
  BY <1>1 DEF Units
<1>6. UNCHANGED <<remote, cpu, polls, lastCpuStat, lastNetworkStats, crossed, shown>>
  BY DEF Packet
<1>7. RatesTypes'
  BY <1>4, <1>5, <1>6 DEF RatesInv, RatesTypes
<1>8. OneIsCurrent'
  BY <1>6 DEF RatesInv, OneIsCurrent
<1>9. lastNetworkStats \in Int
  BY DEF RatesInv, RatesTypes, Units, NoReading
<1>10. CpuAgrees'
  BY <1>4, <1>6 DEF RatesInv, CpuAgrees
<1>11. ~crossed => NetAgrees'
  <2> SUFFICES ASSUME ~crossed PROVE NetAgrees'
    OBVIOUS
  <2>1. (shown.net <= done.net)'
    BY <1>3, <1>4, <1>6 DEF RatesInv, NetAgrees
  <2>2. (lastNetworkStats # NoReading => shown.net + (net - lastNetworkStats) <= done.net)'
    BY <1>1, <1>3, <1>4, <1>6, <1>9 DEF RatesInv, NetAgrees
  <2>3. ASSUME NEW s \in Pollers PROVE NetRow(polls[s], net', shown.net, done'.net)
    <3>1. NetRow(polls[s], net, shown.net, done.net)
      BY DEF RatesInv, NetAgrees
    <3> QED
      BY <1>1, <1>3, <1>4, <3>1 DEF NetRow
  <2>4. \A s \in Pollers : NetRow(polls[s], net, shown.net, done.net)'
    BY <1>6, <2>3
  <2> QED
    BY <2>1, <2>2, <2>4 DEF NetAgrees
<1>12. crossed => NetAgrees'
  BY <1>6 DEF NetAgrees
<1> QED
  BY <1>7, <1>8, <1>10, <1>11, <1>12 DEF RatesInv

LEMMA RebootsKeep ==
  ASSUME RatesInv, Reboots
  PROVE  RatesInv'
<1>1. polls' = [s \in Pollers |-> Idle] /\ cpu' = [total |-> 0, used |-> 0] /\ net' = 0
      /\ UNCHANGED <<remote, lastCpuStat, lastNetworkStats, crossed, done, shown>>
  BY DEF Reboots
<1>2. RatesTypes'
  BY <1>1, IdleRow, MetersAssumption DEF RatesInv, RatesTypes, Units
<1>3. OneIsCurrent'
  BY <1>1, IdleRow DEF OneIsCurrent
<1>4. lastCpuStat.used \in Int /\ lastNetworkStats \in Int /\ shown.cpu \in Nat /\ shown.net \in Nat /\ done.cpu \in Nat /\ done.net \in Nat
      /\ (KnownUsed(lastCpuStat) => lastCpuStat.used > 0) /\ (lastNetworkStats # NoReading => lastNetworkStats >= 0)
  BY DEF RatesInv, RatesTypes, Units, NoReading, Stat, KnownUsed
<1>5. \A s \in Pollers : ~polls'[s].current
  BY <1>1, IdleRow
<1>6. CpuAgrees'
  <2>1. shown.cpu <= done.cpu
    BY DEF RatesInv, CpuAgrees
  <2>2. KnownUsed(lastCpuStat) => shown.cpu + (0 - lastCpuStat.used) <= done.cpu
    BY <1>4, <2>1
  <2> QED
    BY <1>1, <1>5, <2>1, <2>2 DEF CpuAgrees, CpuRow
<1>7. NetAgrees'
  <2>1. ~crossed => shown.net <= done.net
    BY DEF RatesInv, NetAgrees
  <2>2. ~crossed /\ lastNetworkStats # NoReading => shown.net + (0 - lastNetworkStats) <= done.net
    BY <1>4, <2>1
  <2> QED
    BY <1>1, <1>5, <2>1, <2>2 DEF NetAgrees, NetRow
<1> QED
  BY <1>2, <1>3, <1>6, <1>7 DEF RatesInv

LEMMA InvalidatesKeeps ==
  ASSUME RatesInv, Invalidates
  PROVE  RatesInv'
<1>1. polls' = [s \in Pollers |-> [polls[s] EXCEPT !.current = FALSE]]
      /\ UNCHANGED <<remote, cpu, net, lastCpuStat, lastNetworkStats, crossed, done, shown>>
  BY DEF Invalidates
<1>2. \A s \in Pollers : polls[s] \in PollRow /\ (polls[s].stage = "idle" => polls[s] = Idle)
  BY DEF RatesInv, RatesTypes, OneIsCurrent
<1>3. \A s \in Pollers : polls'[s] \in PollRow /\ ~polls'[s].current /\ polls'[s].stage = polls[s].stage
                         /\ (polls[s] = Idle => polls'[s] = Idle)
  <2> SUFFICES ASSUME NEW s \in Pollers
               PROVE  LET p == [polls[s] EXCEPT !.current = FALSE]
                      IN  p \in PollRow /\ ~p.current /\ p.stage = polls[s].stage /\ (polls[s] = Idle => p = Idle)
    BY <1>1
  <2>1. polls[s] \in PollRow
    BY <1>2
  <2>2. /\ [polls[s] EXCEPT !.current = FALSE] \in PollRow /\ [polls[s] EXCEPT !.current = FALSE].current = FALSE
        /\ \A f \in {"stage", "stat", "bytes", "ticks"} : [polls[s] EXCEPT !.current = FALSE][f] = polls[s][f]
    BY <2>1 DEF PollRow
  <2>3. polls[s] = Idle => [polls[s] EXCEPT !.current = FALSE] = Idle
    <3>1. Idle.current = FALSE
      BY IdleRow, <2>1 DEF Idle
    <3> QED
      BY <2>1, <2>2, <3>1, IdleRow, RowsAreEqual
  <2> QED
    BY <2>2, <2>3
<1>4. polls' \in [Pollers -> PollRow]
  BY <1>1, <1>3
<1>5. RatesTypes'
  BY <1>1, <1>4 DEF RatesInv, RatesTypes
<1>6. OneIsCurrent'
  BY <1>2, <1>3 DEF OneIsCurrent
<1>7. CpuAgrees' /\ NetAgrees'
  BY <1>1, <1>3 DEF RatesInv, CpuAgrees, NetAgrees, CpuRow, NetRow
<1> QED
  BY <1>5, <1>6, <1>7 DEF RatesInv

LEMMA BeginsKeeps ==
  ASSUME RatesInv, NEW s \in Pollers, PollBegins(s)
  PROVE  RatesInv'
<1> DEFINE row == [Idle EXCEPT !.stage = "sent", !.current = TRUE]
<1>1. polls' = [polls EXCEPT ![s] = row] /\ polls[s] = Idle /\ (\A o \in Pollers : polls[o] # Idle => ~polls[o].current)
      /\ UNCHANGED <<remote, cpu, net, lastCpuStat, lastNetworkStats, crossed, done, shown>>
  BY DEF PollBegins
<1>2. row \in PollRow /\ row.stage = "sent"
  BY IdleRow DEF PollRow
<1> HIDE DEF row
<1>3. polls'[s] = row /\ (\A o \in Pollers : o # s => polls'[o] = polls[o]) /\ polls' \in [Pollers -> PollRow]
  BY <1>1, <1>2 DEF RatesInv, RatesTypes
<1>4. RatesTypes'
  BY <1>1, <1>3 DEF RatesInv, RatesTypes
<1>5. OneIsCurrent'
  BY <1>1, <1>2, <1>3, IdleRow DEF RatesInv, OneIsCurrent
<1>6. \A o \in Pollers : /\ CpuRow(polls[o], cpu.used, lastCpuStat, shown.cpu, done.cpu)'
                         /\ (~crossed => NetRow(polls[o], net, shown.net, done.net))'
  BY <1>1, <1>2, <1>3 DEF RatesInv, CpuAgrees, NetAgrees, CpuRow, NetRow
<1>7. CpuAgrees'
  BY <1>1, <1>6 DEF RatesInv, CpuAgrees
<1>8. NetAgrees'
  BY <1>1, <1>6 DEF RatesInv, NetAgrees
<1> QED
  BY <1>4, <1>5, <1>7, <1>8 DEF RatesInv

\* What TicksSince says of a reading that is not ahead of the counter.
LEMMA TicksAre ==
  ASSUME RatesTypes, NEW stat \in Stat
  PROVE  TicksSince(stat) \in Int
         /\ (TicksSince(stat) > 0 => KnownUsed(lastCpuStat) /\ TicksSince(stat) = stat.used - lastCpuStat.used)
<1>1. stat.used \in Int /\ stat.total \in Int /\ lastCpuStat.used \in Int /\ lastCpuStat.total \in Int
  BY DEF RatesTypes, Stat, Units, NoReading
<1>2. CASE lastCpuStat.used \in {NoReading, 0} \/ stat.total <= lastCpuStat.total
  BY <1>2 DEF TicksSince
<1>3. CASE ~(lastCpuStat.used \in {NoReading, 0} \/ stat.total <= lastCpuStat.total)
  BY <1>1, <1>3 DEF TicksSince, KnownUsed
<1> QED
  BY <1>2, <1>3

\* The rows with what slot s has read, said in two ways.
Filled(f, s, st, k, n) == [f EXCEPT ![s].stat = st, ![s].ticks = k, ![s].bytes = n, ![s].stage = "read"]
FullRow(f, s, st, k, n) == [stage |-> "read", current |-> f[s].current, stat |-> st, bytes |-> n, ticks |-> k]

LEMMA FilledIn ==
  ASSUME NEW f \in [Pollers -> PollRow], NEW s \in Pollers, NEW st \in Stat, NEW k \in Int, NEW n \in Units
  PROVE  Filled(f, s, st, k, n) = [f EXCEPT ![s] = FullRow(f, s, st, k, n)]
<1> DEFINE p == [[[[f[s] EXCEPT !.stat = st] EXCEPT !.ticks = k] EXCEPT !.bytes = n] EXCEPT !.stage = "read"]
           q == FullRow(f, s, st, k, n)
<1>1. p \in PollRow /\ q \in PollRow
  BY DEF PollRow, FullRow
<1>2. p.stage = q.stage /\ p.current = q.current /\ p.stat = q.stat /\ p.bytes = q.bytes /\ p.ticks = q.ticks
  BY DEF PollRow, FullRow
<1>3. p = q
  <2> HIDE DEF p, q
  <2> QED
    BY <1>1, <1>2, RowsAreEqual
<1> HIDE DEF q
<1> QED
  BY <1>3 DEF Filled, q

LEMMA ReadsKeeps ==
  ASSUME RatesInv, NEW s \in Pollers, PollReads(s)
  PROVE  RatesInv'
<1> DEFINE k == IF remote THEN 0 ELSE TicksSince(cpu)
           row == FullRow(polls, s, cpu, k, net)
<1>1. polls[s] \in PollRow /\ cpu \in Stat /\ cpu.used \in Nat /\ net \in Nat /\ net \in Units /\ RatesTypes
  BY DEF RatesInv, RatesTypes, Stat, Units
<1>2. k \in Int /\ (k > 0 => KnownUsed(lastCpuStat) /\ k = cpu.used - lastCpuStat.used)
  BY <1>1, TicksAre
<1>3. polls' = [polls EXCEPT ![s] = row]
  <2>1. polls' = Filled(polls, s, cpu, k, net)
    BY DEF PollReads, LocalReading, RemoteReading, Filled
  <2>2. polls \in [Pollers -> PollRow]
    BY DEF RatesInv, RatesTypes
  <2> HIDE DEF k
  <2> QED
    BY <1>1, <1>2, <2>1, <2>2, FilledIn
<1>4. UNCHANGED <<remote, cpu, net, lastCpuStat, lastNetworkStats, crossed, done, shown>>
  BY DEF PollReads
<1>5. row \in PollRow /\ row.stage = "read" /\ row.current = polls[s].current /\ row.stat = cpu /\ row.bytes = net /\ row.ticks = k
  BY <1>1, <1>2 DEF PollRow, FullRow
<1> HIDE DEF row, k
<1>6. polls'[s] = row /\ (\A o \in Pollers : o # s => polls'[o] = polls[o]) /\ polls' \in [Pollers -> PollRow]
  BY <1>3, <1>5 DEF RatesInv, RatesTypes
<1>7. RatesTypes'
  BY <1>4, <1>6 DEF RatesInv, RatesTypes
<1>8. OneIsCurrent'
  BY <1>5, <1>6 DEF RatesInv, OneIsCurrent
<1>9. shown.cpu \in Nat /\ done.cpu \in Nat /\ shown.net \in Nat /\ done.net \in Nat
  BY DEF RatesInv, RatesTypes
<1>10. CpuRow(row, cpu.used, lastCpuStat, shown.cpu, done.cpu)
  <2>1. shown.cpu <= done.cpu
    BY DEF RatesInv, CpuAgrees
  <2>2. lastCpuStat.used \in Int
    BY DEF RatesInv, RatesTypes, Stat, Units, NoReading
  <2> QED
    BY <1>1, <1>2, <1>5, <1>9, <2>1, <2>2 DEF CpuRow
<1>11. ~crossed => NetRow(row, net, shown.net, done.net)
  <2>1. ~crossed => shown.net <= done.net
    BY DEF RatesInv, NetAgrees
  <2> QED
    BY <1>1, <1>5, <1>9, <2>1 DEF NetRow
<1>12. CpuAgrees'
  BY <1>4, <1>6, <1>10 DEF RatesInv, CpuAgrees
<1>13. NetAgrees'
  BY <1>4, <1>6, <1>11 DEF RatesInv, NetAgrees
<1> QED
  BY <1>7, <1>8, <1>12, <1>13 DEF RatesInv

LEMMA ReturnsKeeps ==
  ASSUME RatesInv, NEW s \in Pollers, PollReturns(s)
  PROVE  RatesInv'
<1> DEFINE p == polls[s]
           ticks == IF remote THEN TicksSince(p.stat) ELSE p.ticks
           more == Max({0, ticks})
           since == p.bytes - (IF lastNetworkStats = NoReading THEN p.bytes ELSE lastNetworkStats)
           moved == Max({0, since})
<1>1. /\ p.stage = "read" /\ p.stat.total > 0
      /\ lastCpuStat' = (IF p.current THEN p.stat ELSE lastCpuStat)
      /\ lastNetworkStats' = p.bytes /\ crossed' = (crossed \/ ~p.current)
      /\ polls' = [polls EXCEPT ![s] = Idle]
      /\ UNCHANGED <<remote, cpu, net, done>>
  BY DEF PollReturns, Current
<1>2. shown' = IF p.current THEN [cpu |-> shown.cpu + more, net |-> shown.net + moved] ELSE shown
  BY DEF PollReturns, BytesSince, First, RemoteTicks
<1>3. p \in PollRow /\ RatesTypes
  BY DEF RatesInv, RatesTypes
<1>4. p.stat \in Stat /\ p.bytes \in Units \union {NoReading} /\ p.bytes \in Int /\ p.ticks \in Int /\ p.current \in BOOLEAN
  BY <1>3 DEF PollRow, Units, NoReading
<1>5. /\ shown \in [cpu : Nat, net : Nat] /\ done \in [cpu : Nat, net : Nat] /\ cpu.used \in Nat /\ net \in Nat
      /\ lastCpuStat.used \in Int /\ lastNetworkStats \in Int /\ p.stat.used \in Int /\ crossed \in BOOLEAN
      /\ (KnownUsed(lastCpuStat) => lastCpuStat.used > 0)
  BY <1>3, <1>4 DEF RatesTypes, Units, Stat, NoReading, KnownUsed
<1>6. ticks \in Int /\ since \in Int
  BY <1>3, <1>4, <1>5, TicksAre
<1>7. more \in Nat /\ moved \in Nat /\ (ticks <= 0 => more = 0) /\ (ticks >= 0 => more = ticks)
      /\ (since <= 0 => moved = 0) /\ (since >= 0 => moved = since)
  BY <1>6, MaxIs
<1>8. /\ CpuRow(p, cpu.used, lastCpuStat, shown.cpu, done.cpu) /\ shown.cpu <= done.cpu
      /\ KnownUsed(lastCpuStat) => shown.cpu + (cpu.used - lastCpuStat.used) <= done.cpu
  BY DEF RatesInv, CpuAgrees
<1>9. p.current => (ticks > 0 => KnownUsed(lastCpuStat) /\ ticks <= p.stat.used - lastCpuStat.used)
  BY <1>1, <1>3, <1>4, <1>8, TicksAre, <1>5, <1>6 DEF CpuRow
<1>10. since <= 0 \/ (lastNetworkStats # NoReading /\ since = p.bytes - lastNetworkStats)
  BY <1>4
<1> HIDE DEF ticks, more, since, moved, p
<1>11. shown' \in [cpu : Nat, net : Nat] /\ (p.current => shown'.cpu = shown.cpu + more /\ shown'.net = shown.net + moved)
       /\ (~p.current => shown' = shown)
  BY <1>2, <1>5, <1>7
<1>12. polls'[s] = Idle /\ (\A o \in Pollers : o # s => polls'[o] = polls[o]) /\ polls' \in [Pollers -> PollRow]
  BY <1>1, IdleRow DEF RatesInv, RatesTypes
<1>13. RatesTypes'
  BY <1>1, <1>3, <1>4, <1>11, <1>12 DEF RatesTypes
<1>14. OneIsCurrent'
  BY <1>12, IdleRow DEF RatesInv, OneIsCurrent
<1>15. p.current => \A o \in Pollers : ~polls'[o].current
  BY <1>12, IdleRow DEF RatesInv, OneIsCurrent, p
<1>16. CpuAgrees'
  <2>1. CASE p.current
    <3>1. p.stat.used \in Nat /\ p.stat.used <= cpu.used /\ shown.cpu + (cpu.used - p.stat.used) <= done.cpu
      BY <1>1, <1>8, <2>1 DEF CpuRow
    <3>2. shown.cpu + more <= done.cpu /\ shown.cpu + more + (cpu.used - p.stat.used) <= done.cpu
      <4>1. CASE ticks <= 0
        BY <1>5, <1>7, <1>8, <3>1, <4>1
      <4>2. CASE ticks > 0
        BY <1>5, <1>6, <1>7, <1>8, <1>9, <2>1, <3>1, <4>2
      <4> QED
        BY <1>6, <4>1, <4>2
    <3> QED
      BY <1>1, <1>11, <1>15, <2>1, <3>2 DEF CpuAgrees, CpuRow
  <2>2. CASE ~p.current
    <3>1. \A o \in Pollers : CpuRow(polls[o], cpu.used, lastCpuStat, shown.cpu, done.cpu)
      BY DEF RatesInv, CpuAgrees
    <3>2. \A o \in Pollers : CpuRow(polls'[o], cpu.used, lastCpuStat, shown.cpu, done.cpu)
      BY <1>12, <3>1, IdleRow DEF CpuRow
    <3> QED
      BY <1>1, <1>8, <1>11, <2>2, <3>2 DEF CpuAgrees
  <2> QED
    BY <2>1, <2>2
<1>17. NetAgrees'
  <2> SUFFICES ASSUME ~crossed, p.current PROVE NetAgrees'
    BY <1>1 DEF NetAgrees
  <2>1. /\ NetRow(p, net, shown.net, done.net) /\ shown.net <= done.net
        /\ lastNetworkStats # NoReading => shown.net + (net - lastNetworkStats) <= done.net
    BY DEF RatesInv, NetAgrees, p
  <2>2. p.bytes \in Nat /\ p.bytes <= net /\ shown.net + (net - p.bytes) <= done.net
    BY <1>1, <2>1 DEF NetRow
  <2>3. shown.net + moved <= done.net /\ shown.net + moved + (net - p.bytes) <= done.net
    <3>1. CASE since <= 0
      BY <1>5, <1>7, <2>1, <2>2, <3>1
    <3>2. CASE since > 0
      BY <1>5, <1>6, <1>7, <1>10, <2>1, <2>2, <3>2
    <3> QED
      BY <1>6, <3>1, <3>2
  <2> QED
    BY <1>1, <1>11, <1>15, <2>3 DEF NetAgrees, NetRow
<1> QED
  BY <1>13, <1>14, <1>16, <1>17 DEF RatesInv

LEMMA RatesStep ==
  ASSUME RatesInv, RatesNext
  PROVE  RatesInv'
<1>1. ASSUME NEW s \in Pollers, PollFails(s) PROVE RatesInv'
  BY <1>1, FreedKeeps DEF PollFails
<1> QED
  BY <1>1, TicksKeep, PacketKeeps, RebootsKeep, InvalidatesKeeps, BeginsKeeps, ReadsKeeps, ReturnsKeeps DEF RatesNext

LEMMA RatesStart == RatesInit => RatesInv
<1> SUFFICES ASSUME RatesInit PROVE RatesInv
  OBVIOUS
<1>1. RatesTypes
  <2>1. cpu \in [total : Units, used : Units] /\ cpu.used <= cpu.total /\ net \in Units
    BY MetersAssumption DEF RatesInit, Units
  <2>2. lastCpuStat \in Stat /\ lastNetworkStats \in Units \union {NoReading}
    BY DEF RatesInit, NoStat, Stat
  <2>3. polls \in [Pollers -> PollRow]
    BY IdleRow DEF RatesInit
  <2>4. remote \in BOOLEAN /\ crossed \in BOOLEAN
    BY DEF RatesInit
  <2>5. done \in [cpu : Nat, net : Nat] /\ shown \in [cpu : Nat, net : Nat]
    BY DEF RatesInit
  <2> QED
    BY <2>1, <2>2, <2>3, <2>4, <2>5 DEF RatesTypes
<1>2. OneIsCurrent
  BY IdleRow DEF RatesInit, OneIsCurrent
<1>3. \A s \in Pollers : ~polls[s].current
  BY IdleRow DEF RatesInit
<1>4. CpuAgrees
  BY <1>3 DEF RatesInit, CpuAgrees, CpuRow, KnownUsed, NoStat
<1>5. NetAgrees
  BY <1>3 DEF RatesInit, NetAgrees, NetRow
<1> QED
  BY <1>1, <1>2, <1>4, <1>5 DEF RatesInv
-----------------------------------------------------------------------------
(* The disks *)

\* What a baseline says was shown, at most; what the counters say was done.
UpToOf(b) == IF b = NoReading THEN 0 ELSE b - 1
UpTo(last) == [d \in Devices |-> UpToOf(last[d])]
Moved == [d \in Devices |-> sectors[d] - 1]

DiskTypes ==
    /\ sectors \in [Devices -> Units] /\ pass \subseteq Parts /\ speeds \in Nat
    /\ lastDiskIO \in [Devices -> Units \union {NoReading}]
    /\ \A d \in Devices : 1 <= sectors[d] /\ (lastDiskIO[d] # NoReading => 1 <= lastDiskIO[d] /\ lastDiskIO[d] <= sectors[d])
ShownUpTo(last, sum) == \A v : IsSum(UpTo(last), Devices, v) => sum <= v
DiskInv == DiskTypes /\ ShownUpTo(lastDiskIO, speeds)

LEMMA DevicesAreFew == IsFiniteSet(Devices) /\ IsFiniteSet(Parts)
<1> DEFINE f == [x \in Parts |-> DiskOf[x]]
<1>1. IsFiniteSet(Parts)
  BY MetersAssumption DEF Parts
<1>2. f \in Surjection(Parts, Devices)
  BY DEF Devices, Surjection
<1> QED
  BY <1>1, <1>2, FS_Surjection

LEMMA UpToIs ==
  ASSUME NEW last \in [Devices -> Units \union {NoReading}]
  PROVE  UpTo(last) \in [Devices -> Int] /\ \A d \in Devices : UpTo(last)[d] = UpToOf(last[d])
<1>1. ASSUME NEW d \in Devices PROVE UpToOf(last[d]) \in Int
  <2>1. last[d] \in Int
    BY DEF Units, NoReading
  <2> QED
    BY <2>1 DEF UpToOf
<1> QED
  BY <1>1 DEF UpTo

LEMMA SectorsMove ==
  ASSUME NEW a \in [Devices -> Int], NEW b \in [Devices -> Int], NEW v, IsSum(a, Devices, v), NEW w, IsSum(b, Devices, w),
         NEW d \in Devices, \A y \in Devices \ {d} : a[y] = b[y]
  PROVE  w = v + (b[d] - a[d]) /\ v \in Int
<1>1. IsFiniteSet(Devices)
  BY DevicesAreFew
<1>2. v \in Int
  BY <1>1, SumIsInt
<1>3. w = v + (b[d] - a[d])
  BY <1>1, SumMoves
<1> QED
  BY <1>2, <1>3

LEMMA UpToMoves ==
  ASSUME NEW last \in [Devices -> Units \union {NoReading}], NEW next \in [Devices -> Units \union {NoReading}],
         NEW d \in Devices, \A x \in Devices \ {d} : next[x] = last[x],
         NEW v, IsSum(UpTo(last), Devices, v), NEW w, IsSum(UpTo(next), Devices, w)
  PROVE  w = v + (UpTo(next)[d] - UpTo(last)[d]) /\ v \in Int
<1>1. /\ UpTo(last) \in [Devices -> Int] /\ UpTo(next) \in [Devices -> Int]
      /\ \A x \in Devices : UpTo(last)[x] = UpToOf(last[x]) /\ UpTo(next)[x] = UpToOf(next[x])
  BY UpToIs
<1>2. \A x \in Devices \ {d} : UpTo(last)[x] = UpTo(next)[x]
  BY <1>1
<1> QED
  BY <1>1, <1>2, SectorsMove

\* One device is read: as much more may be shown as was done since.
LEMMA ReadMoves ==
  ASSUME NEW last \in [Devices -> Units \union {NoReading}], NEW d \in Devices, NEW now \in Units, NEW sum \in Nat,
         NEW more \in Nat, ShownUpTo(last, sum), more <= (now - 1) - UpToOf(last[d]),
         NEW next \in [Devices -> Units \union {NoReading}], next[d] = now, \A x \in Devices \ {d} : next[x] = last[x]
  PROVE  ShownUpTo(next, sum + more)
<1> SUFFICES ASSUME NEW w, IsSum(UpTo(next), Devices, w) PROVE sum + more <= w
  BY DEF ShownUpTo
<1>1. next \in [Devices -> Units \union {NoReading}] /\ next[d] = now /\ \A x \in Devices \ {d} : next[x] = last[x]
  OBVIOUS
<1>2. /\ UpTo(last) \in [Devices -> Int] /\ UpTo(next) \in [Devices -> Int]
      /\ \A x \in Devices : UpTo(last)[x] = UpToOf(last[x]) /\ UpTo(next)[x] = UpToOf(next[x])
  BY <1>1, UpToIs
<1>3. now \in Int /\ UpToOf(now) = now - 1
  BY DEF UpToOf, Units, NoReading
<1>4. UpTo(last)[d] = UpToOf(last[d]) /\ UpTo(next)[d] = now - 1 /\ UpTo(last)[d] \in Int
  BY <1>1, <1>2, <1>3
<1>5. \A x \in Devices \ {d} : UpTo(last)[x] = UpTo(next)[x]
  BY <1>1, <1>2
<1>6. PICK v : IsSum(UpTo(last), Devices, v)
  BY <1>2, DevicesAreFew, AddsExists DEF IsSum
<1>7. w = v + (UpTo(next)[d] - UpTo(last)[d]) /\ v \in Int
  BY <1>1, <1>6, UpToMoves
<1>8. sum <= v
  BY <1>6 DEF ShownUpTo
<1> QED
  BY <1>3, <1>4, <1>7, <1>8

LEMMA PartitionKeeps ==
  ASSUME DiskInv, NEW x \in Parts, NEW tick \in BOOLEAN, PartitionReads(x, tick)
  PROVE  DiskInv'
<1> DEFINE d == DiskOf[x]
           more == IF tick THEN IoShown(lastDiskIO[d], sectors[d]) ELSE 0
<1>1. d \in Devices
  BY DEF Devices
<1>2. pass' = pass \ {x} /\ lastDiskIO' = [lastDiskIO EXCEPT ![d] = sectors[d]] /\ speeds' = speeds + more /\ sectors' = sectors
  BY DEF PartitionReads
<1>3. DiskTypes /\ sectors[d] \in Units /\ sectors[d] \in Nat /\ lastDiskIO[d] \in Int /\ 1 <= sectors[d]
      /\ (lastDiskIO[d] # NoReading => 1 <= lastDiskIO[d] /\ lastDiskIO[d] <= sectors[d])
  BY <1>1 DEF DiskInv, DiskTypes, Units, NoReading
<1>4. more \in Nat /\ more <= (sectors[d] - 1) - UpToOf(lastDiskIO[d])
  <2>1. CASE lastDiskIO[d] = NoReading
    BY <1>3, <2>1 DEF IoShown, UpToOf
  <2>2. CASE lastDiskIO[d] # NoReading
    BY <1>3, <2>2 DEF IoShown, UpToOf
  <2> QED
    BY <2>1, <2>2
<1> HIDE DEF more
<1>5. lastDiskIO \in [Devices -> Units \union {NoReading}] /\ speeds \in Nat
  BY <1>3 DEF DiskTypes
<1>6. lastDiskIO' \in [Devices -> Units \union {NoReading}] /\ lastDiskIO'[d] = sectors[d]
      /\ \A o \in Devices \ {d} : lastDiskIO'[o] = lastDiskIO[o]
  BY <1>1, <1>2, <1>3, <1>5
<1>7. speeds' \in Nat
  BY <1>2, <1>4, <1>5
<1>8. \A o \in Devices : 1 <= sectors'[o] /\ (lastDiskIO'[o] # NoReading => 1 <= lastDiskIO'[o] /\ lastDiskIO'[o] <= sectors'[o])
  BY <1>2, <1>3, <1>6 DEF DiskTypes
<1>9. DiskTypes'
  BY <1>2, <1>3, <1>6, <1>7, <1>8 DEF DiskTypes
<1>10. ShownUpTo(lastDiskIO, speeds)
  BY DEF DiskInv
<1> HIDE DEF d
<1>11. ShownUpTo(lastDiskIO', speeds + more)
  BY <1>1, <1>2, <1>3, <1>4, <1>5, <1>6, <1>10, ReadMoves
<1> QED
  BY <1>2, <1>9, <1>11 DEF DiskInv

LEMMA DisksStep ==
  ASSUME DiskInv, DisksNext
  PROVE  DiskInv'
<1>1. ASSUME NEW d \in Devices, Transfers(d) PROVE DiskInv'
  <2>1. sectors' = [sectors EXCEPT ![d] = @ + 1] /\ sectors[d] < MaxUnits /\ UNCHANGED <<lastDiskIO, pass, speeds>>
    BY <1>1 DEF Transfers
  <2>2. sectors \in [Devices -> Units] /\ sectors[d] \in Nat /\ MaxUnits \in Nat
    BY MetersAssumption DEF DiskInv, DiskTypes, Units
  <2>3. sectors[d] + 1 \in Units
    BY <2>1, <2>2 DEF Units
  <2>4. sectors' \in [Devices -> Units] /\ sectors'[d] = sectors[d] + 1 /\ \A o \in Devices \ {d} : sectors'[o] = sectors[o]
    BY <2>1, <2>2, <2>3
  <2>5. \A o \in Devices : 1 <= sectors'[o] /\ (lastDiskIO[o] # NoReading => 1 <= lastDiskIO[o] /\ lastDiskIO[o] <= sectors'[o])
    <3> SUFFICES ASSUME NEW o \in Devices
                 PROVE  1 <= sectors'[o] /\ (lastDiskIO[o] # NoReading => 1 <= lastDiskIO[o] /\ lastDiskIO[o] <= sectors'[o])
      OBVIOUS
    <3>1. sectors[o] \in Nat /\ sectors[o] <= sectors'[o] /\ sectors'[o] \in Nat /\ lastDiskIO[o] \in Int
      BY <2>2, <2>4 DEF DiskInv, DiskTypes, Units, NoReading
    <3> QED
      BY <3>1 DEF DiskInv, DiskTypes
  <2>6. DiskTypes'
    BY <2>1, <2>4, <2>5 DEF DiskInv, DiskTypes
  <2> QED
    BY <2>1, <2>6 DEF DiskInv
<1>2. ASSUME PassBegins PROVE DiskInv'
  BY <1>2 DEF PassBegins, DiskInv, DiskTypes
<1>3. ASSUME NEW x \in Parts, PartitionFails(x) PROVE DiskInv'
  BY <1>3 DEF PartitionFails, DiskInv, DiskTypes
<1> QED
  BY <1>1, <1>2, <1>3, PartitionKeeps DEF DisksNext

LEMMA DisksStart == DisksInit => DiskInv
<1> SUFFICES ASSUME DisksInit PROVE DiskInv
  OBVIOUS
<1>1. DiskTypes
  BY MetersAssumption DEF DisksInit, DiskTypes, Units
<1>2. lastDiskIO \in [Devices -> Units \union {NoReading}] /\ \A d \in Devices : lastDiskIO[d] = NoReading
  BY DEF DisksInit
<1>3. UpTo(lastDiskIO) \in [Devices -> Int] /\ \A d \in Devices : UpTo(lastDiskIO)[d] = 0
  BY <1>2, UpToIs DEF UpToOf
<1>4. speeds = 0
  BY DEF DisksInit
<1>5. ASSUME NEW v, IsSum(UpTo(lastDiskIO), Devices, v) PROVE speeds <= v
  BY <1>3, <1>4, <1>5, SumOfZeros, DevicesAreFew
<1> QED
  BY <1>1, <1>5 DEF DiskInv, ShownUpTo

\* The sum that the property states, as a sum.
SectorSum == FoldSet(LAMBDA d, acc : acc + sectors[d] - 1, 0, Devices)

LEMMA SectorsAreSum ==
  ASSUME sectors \in [Devices -> Units]
  PROVE  IsSum(Moved, Devices, SectorSum)
<1> DEFINE P(g) == g = [ss \in SUBSET Devices |-> IF ss = {} THEN 0
                          ELSE g[ss \ {CHOOSE x \in ss : TRUE}] + sectors[CHOOSE x \in ss : TRUE] - 1]
           G == CHOOSE g : P(g)
<1>1. SectorSum = G[Devices]
  BY DEF SectorSum, FoldSet, MapThenFoldSet
<1>2. Moved \in [Devices -> Int] /\ \A d \in Devices : Moved[d] = sectors[d] - 1 /\ sectors[d] \in Nat
  BY DEF Moved, Units
<1>3. PICK a : Adds(Moved, Devices, a)
  BY <1>2, DevicesAreFew, AddsExists
<1>4. /\ \A T : T = {} => a[T] = 0
      /\ \A T \in SUBSET Devices : T # {} => a[T] = Moved[Pick(T)] + a[T \ {Pick(T)}]
      /\ \A T \in SUBSET Devices : a[T] \in Int
  BY <1>2, <1>3, DevicesAreFew, AddsAre
<1>5. P(a)
  <2>1. ASSUME NEW T \in SUBSET Devices
        PROVE  a[T] = IF T = {} THEN 0 ELSE a[T \ {CHOOSE x \in T : TRUE}] + sectors[CHOOSE x \in T : TRUE] - 1
    <3>1. CASE T = {}
      BY <1>4, <3>1
    <3>2. CASE T # {}
      <4>1. Pick(T) \in Devices /\ T \ {Pick(T)} \in SUBSET Devices
        BY <3>2 DEF Pick
      <4>2. Moved[Pick(T)] = sectors[Pick(T)] - 1 /\ sectors[Pick(T)] \in Nat /\ a[T \ {Pick(T)}] \in Int
        BY <1>2, <1>4, <4>1
      <4>3. a[T] = Moved[Pick(T)] + a[T \ {Pick(T)}]
        BY <1>4, <3>2
      <4>4. a[T] = a[T \ {Pick(T)}] + sectors[Pick(T)] - 1
        BY <4>2, <4>3
      <4> QED
        BY <3>2, <4>4 DEF Pick
    <3> QED
      BY <3>1, <3>2
  <2>2. a = [ss \in SUBSET Devices |-> a[ss]]
    BY <1>3 DEF Adds
  <2> QED
    BY <2>1, <2>2
<1>6. P(G)
  BY <1>5
<1>7. ASSUME NEW T \in SUBSET Devices
      PROVE  G[T] = IF T = {} THEN 0 ELSE G[T \ {Pick(T)}] + sectors[Pick(T)] - 1
  <2> HIDE DEF G
  <2> QED
    BY <1>6 DEF Pick
<1> HIDE DEF P, G
<1> DEFINE N == {n \in Nat : \A T \in Upto(Devices, n) : G[T] = a[T]}
<1>8. \A T \in SUBSET Devices : IsFiniteSet(T) /\ Cardinality(T) \in Nat
  BY DevicesAreFew, FS_Subset, FS_CardinalityType
<1>9. 0 \in N
  <2>1. \A T \in Upto(Devices, 0) : T = {}
    BY <1>8, FS_EmptySet DEF Upto
  <2>2. \A T \in SUBSET Devices : T = {} => G[T] = 0 /\ a[T] = 0
    BY <1>4, <1>7
  <2> QED
    BY <2>1, <2>2 DEF Upto
<1>10. ASSUME NEW n \in Nat, n \in N PROVE n + 1 \in N
  <2> SUFFICES ASSUME NEW T \in Upto(Devices, n + 1) PROVE G[T] = a[T]
    OBVIOUS
  <2>1. T \in SUBSET Devices /\ Cardinality(T) <= n + 1
    BY DEF Upto
  <2>2. CASE T = {}
    BY <1>4, <1>7, <2>1, <2>2
  <2>3. CASE T # {}
    <3>1. Pick(T) \in Devices /\ T \ {Pick(T)} \in Upto(Devices, n) /\ T \ {Pick(T)} \in SUBSET Devices
      BY <2>1, <2>3, DevicesAreFew, PickIs DEF Upto
    <3>2. G[T \ {Pick(T)}] = a[T \ {Pick(T)}] /\ a[T \ {Pick(T)}] \in Int
      BY <1>4, <1>10, <3>1
    <3>3. Moved[Pick(T)] = sectors[Pick(T)] - 1 /\ sectors[Pick(T)] \in Nat
      BY <1>2, <3>1
    <3>4. G[T] = G[T \ {Pick(T)}] + sectors[Pick(T)] - 1 /\ a[T] = Moved[Pick(T)] + a[T \ {Pick(T)}]
      BY <1>4, <1>7, <2>1, <2>3
    <3> QED
      BY <3>2, <3>3, <3>4
  <2> QED
    BY <2>2, <2>3
<1> HIDE DEF N
<1>11. Nat \subseteq N
  BY <1>9, <1>10, Induction
<1>12. Cardinality(Devices) \in N /\ Devices \in Upto(Devices, Cardinality(Devices))
  BY <1>8, <1>11 DEF Upto
<1>13. G[Devices] = a[Devices]
  BY <1>12 DEF N
<1> QED
  BY <1>1, <1>3, <1>13 DEF IsSum

LEMMA DisksAreShownOnce == DiskInv => speeds <= SectorSum
<1> SUFFICES ASSUME DiskInv PROVE speeds <= SectorSum
  OBVIOUS
<1>1. DiskTypes /\ ShownUpTo(lastDiskIO, speeds) /\ sectors \in [Devices -> Units] /\ lastDiskIO \in [Devices -> Units \union {NoReading}]
  BY DEF DiskInv, DiskTypes
<1>2. UpTo(lastDiskIO) \in [Devices -> Int] /\ \A d \in Devices : UpTo(lastDiskIO)[d] = UpToOf(lastDiskIO[d])
  BY <1>1, UpToIs
<1>3. Moved \in [Devices -> Int] /\ \A d \in Devices : Moved[d] = sectors[d] - 1 /\ sectors[d] \in Nat /\ 1 <= sectors[d]
  BY <1>1 DEF Moved, Units, DiskTypes
<1>4. \A d \in Devices : UpTo(lastDiskIO)[d] <= Moved[d]
  <2> SUFFICES ASSUME NEW d \in Devices PROVE UpToOf(lastDiskIO[d]) <= sectors[d] - 1
    BY <1>2, <1>3
  <2>1. lastDiskIO[d] # NoReading => 1 <= lastDiskIO[d] /\ lastDiskIO[d] <= sectors[d]
    BY <1>1 DEF DiskTypes
  <2>2. lastDiskIO[d] \in Int /\ sectors[d] \in Nat /\ 1 <= sectors[d]
    BY <1>1, <1>3 DEF Units, NoReading
  <2> QED
    BY <2>1, <2>2 DEF UpToOf
<1>5. PICK v : IsSum(UpTo(lastDiskIO), Devices, v)
  BY <1>2, DevicesAreFew, AddsExists DEF IsSum
<1>6. IsSum(Moved, Devices, SectorSum)
  BY <1>1, SectorsAreSum
<1>7. v <= SectorSum /\ v \in Int /\ SectorSum \in Int
  BY <1>2, <1>3, <1>4, <1>5, <1>6, DevicesAreFew, SumGrows, SumIsInt
<1>8. speeds <= v /\ speeds \in Nat
  BY <1>1, <1>5 DEF ShownUpTo, DiskTypes
<1> QED
  BY <1>7, <1>8

-----------------------------------------------------------------------------
(* The memory of the GPU *)

VramTypes == held \in Units /\ file \in Units /\ cache \in Units /\ vram \in Units /\ unified \in Units

LEMMA VramStep ==
  ASSUME VramTypes, VramNext
  PROVE  VramTypes'
<1>1. 0 \in Units
  BY MetersAssumption DEF Units
<1> QED
  BY <1>1 DEF VramTypes, VramNext, Holds, LiveAnswer, NoLiveAnswer, NoGpu, PollUnified, CronWrites, RemoteGpu, RemoteUnified, Refilled

LEMMA VramStart == VramInit => VramTypes
  BY MetersAssumption DEF VramInit, VramTypes, Units

-----------------------------------------------------------------------------
LEMMA MetersTyped ==
  ASSUME RatesInv, DiskInv, VramTypes
  PROVE  MetersTypeOK
<1>1. RatesTypes /\ OneIsCurrent /\ MaxUnits \in Nat
  BY MetersAssumption DEF RatesInv
<1>2. \A s \in Pollers : polls[s].stage \in {"idle", "sent", "read"} /\ polls[s].current \in BOOLEAN
  BY <1>1 DEF RatesTypes, PollRow
<1>3. Cardinality({s \in Pollers : polls[s].current}) <= 1
  <2> DEFINE C == {s \in Pollers : polls[s].current}
  <2>1. CASE C = {}
    <3>1. \A T : T = {} => Cardinality(T) <= 1
      BY FS_EmptySet
    <3> QED
      BY <2>1, <3>1
  <2>2. CASE C # {}
    <3>1. PICK x : x \in C
      BY <2>2
    <3>2. C = {x}
      BY <1>1, <3>1 DEF OneIsCurrent
    <3>3. Cardinality({x}) = 1
      BY FS_Singleton
    <3> HIDE DEF C
    <3>4. Cardinality(C) <= 1
      BY <3>2, <3>3
    <3> QED
      BY <3>4 DEF C
  <2> QED
    BY <2>1, <2>2
<1>4. lastNetworkStats \in NoReading..MaxUnits
  BY <1>1 DEF RatesTypes, Units, NoReading
<1>5. lastDiskIO \in [Devices -> NoReading..MaxUnits] /\ pass \subseteq Parts
  <2>1. Units \union {NoReading} \subseteq NoReading..MaxUnits
    BY <1>1 DEF Units, NoReading
  <2> QED
    BY <2>1 DEF DiskInv, DiskTypes
<1>6. {held, file, cache, vram, unified} \subseteq Units
  BY DEF VramTypes
<1>7. remote \in BOOLEAN /\ crossed \in BOOLEAN /\ cpu \in [total : Units, used : Units] /\ cpu.used <= cpu.total /\ net \in Units
  BY <1>1 DEF RatesTypes
<1> QED
  BY <1>2, <1>3, <1>4, <1>5, <1>6, <1>7 DEF MetersTypeOK

LEMMA OnceIsShown ==
  ASSUME RatesInv, DiskInv
  PROVE  ShownOnce
<1>1. shown.cpu <= done.cpu /\ (~crossed => shown.net <= done.net)
  BY DEF RatesInv, CpuAgrees, NetAgrees
<1>2. speeds <= SectorSum
  BY DisksAreShownOnce
<1> QED
  BY <1>1, <1>2 DEF ShownOnce, SectorSum

-----------------------------------------------------------------------------
(* ComfyWatch: the invariant *)

Frames == [job : Jobs, over : BOOLEAN]
EndOf(j) == [job |-> j, over |-> TRUE]
PollOf == [phase : {"idle", "stats", "history"}, of : {Target, Other, Nowhere}]
Cancels == [step : {"idle", "api", "interrupt", "delete", "done"}, job : Jobs \union {NoJob}, ok : BOOLEAN]
Stages == {"none", "pending", "running", "over"}

\* The job is at work, or its end is among the frames still to come.
LiveFrom(c, w, j, i) == c[j] = "running" \/ \E k \in i..Len(w) : w[k] = EndOf(j)
FramesOK(c, w, p) ==
    /\ p # NoJob => LiveFrom(c, w, p, 1)
    /\ \A i \in 1..Len(w) : ~w[i].over => LiveFrom(c, w, w[i].job, i + 1)

JobsOK ==
    /\ comfy \in [Jobs -> Stages] /\ progress \in Jobs \union {NoJob} /\ missed \in BOOLEAN
    /\ wire \in Seq(Frames) /\ Len(wire) <= 2
    /\ ~missed => FramesOK(comfy, wire, progress)

SocketOK ==
    /\ socket \in {"none", "connecting", "open"}
    /\ wantOpen \in BOOLEAN /\ retrying \in BOOLEAN /\ idling \in BOOLEAN /\ disposed \in BOOLEAN
    /\ DisposedIsQuiet

CacheOK ==
    /\ aim \in {Target, Other} /\ cached \in [of : {Target, Other, Nowhere}, fresh : BOOLEAN]
    /\ watch \in [old : PollOf, current : PollOf] /\ strayed \in BOOLEAN
    /\ ~strayed => /\ cached.of \in {Nowhere, aim}
                   /\ \A g \in {"old", "current"} : watch[g].phase = "history" => watch[g].of = aim

CancelOK ==
    /\ cancel \in Cancels /\ slipped \in BOOLEAN
    /\ cancel.step # "idle" => cancel.job \in Jobs /\ comfy[cancel.job] # "none"
    /\ cancel.step = "idle" => cancel.job = NoJob
    /\ cancel.ok => cancel.step = "done"
    /\ cancel.step = "delete" /\ ~slipped => comfy[cancel.job] # "running"
    /\ cancel.ok /\ ~slipped => comfy[cancel.job] = "over"

ComfyInv == JobsOK /\ SocketOK /\ CacheOK /\ CancelOK

-----------------------------------------------------------------------------
(* Frames *)

LEMMA FramesStay ==
  ASSUME NEW c, NEW d, NEW w, NEW p, FramesOK(c, w, p), \A j : c[j] = "running" => d[j] = "running"
  PROVE  FramesOK(d, w, p)
  BY DEF FramesOK, LiveFrom

LEMMA FramesGrow ==
  ASSUME NEW c, NEW d, NEW w \in Seq(Frames), NEW p, FramesOK(c, w, p), NEW j \in Jobs, NEW over \in BOOLEAN,
         \A x \in Jobs \union {NoJob} : x # j /\ c[x] = "running" => d[x] = "running",
         ~over => d[j] = "running", p \in Jobs \union {NoJob}
  PROVE  FramesOK(d, Append(w, [job |-> j, over |-> over]), p)
<1> DEFINE f == [job |-> j, over |-> over]
           v == Append(w, f)
<1>1. Len(w) \in Nat /\ Len(v) = Len(w) + 1 /\ v[Len(w) + 1] = f /\ \A i \in 1..Len(w) : v[i] = w[i]
  <2>1. f \in Frames
    BY DEF Frames
  <2> HIDE DEF f
  <2> QED
    BY <2>1, AppendProperties, LenProperties
<1>2. f.job = j /\ f.over = over /\ (over => f = EndOf(j))
  BY DEF EndOf
<1> HIDE DEF v, f
<1>3. ASSUME NEW x \in Jobs \union {NoJob}, NEW i \in 1..(Len(w) + 1), LiveFrom(c, w, x, i) PROVE LiveFrom(d, v, x, i)
  <2>1. CASE \E k \in i..Len(w) : w[k] = EndOf(x)
    <3>1. PICK k \in i..Len(w) : w[k] = EndOf(x)
      BY <2>1
    <3>2. k \in 1..Len(w) /\ k \in i..Len(v)
      BY <1>1
    <3>3. v[k] = EndOf(x)
      BY <1>1, <3>1, <3>2
    <3> QED
      BY <3>2, <3>3 DEF LiveFrom
  <2>2. CASE c[x] = "running" /\ x # j
    BY <2>2 DEF LiveFrom
  <2>3. CASE x = j /\ over
    <3>1. Len(w) + 1 \in i..Len(v) /\ v[Len(w) + 1] = EndOf(x)
      BY <1>1, <1>2, <2>3
    <3> QED
      BY <3>1 DEF LiveFrom
  <2>4. CASE x = j /\ ~over
    BY <2>4 DEF LiveFrom
  <2> QED
    BY <1>3, <2>1, <2>2, <2>3, <2>4 DEF LiveFrom
<1>4. p # NoJob => LiveFrom(d, v, p, 1)
  BY <1>1, <1>3 DEF FramesOK
<1>5. ASSUME NEW i \in 1..Len(v), ~v[i].over PROVE LiveFrom(d, v, v[i].job, i + 1)
  <2>1. CASE i \in 1..Len(w)
    <3>0. w[i] \in Frames
      BY <2>1, ElementOfSeq
    <3>1. v[i] = w[i] /\ w[i].job \in Jobs /\ i + 1 \in 1..(Len(w) + 1)
      BY <1>1, <2>1, <3>0 DEF Frames
    <3>2. LiveFrom(c, w, w[i].job, i + 1)
      BY <1>5, <2>1, <3>1 DEF FramesOK
    <3> QED
      BY <1>3, <3>1, <3>2
  <2>2. CASE i = Len(w) + 1
    BY <1>1, <1>2, <1>5, <2>2 DEF LiveFrom
  <2> QED
    BY <1>1, <2>1, <2>2
<1>6. FramesOK(d, v, p)
  BY <1>4, <1>5 DEF FramesOK
<1> QED
  BY <1>6 DEF v, f

LEMMA FramesShrink ==
  ASSUME NEW c, NEW w \in Seq(Frames), w # <<>>, NEW p, FramesOK(c, w, p)
  PROVE  FramesOK(c, Tail(w), IF Head(w).over THEN NoJob ELSE Head(w).job)
<1> DEFINE v == Tail(w)
<1>1. Len(w) \in Nat /\ Len(w) > 0 /\ Len(v) = Len(w) - 1 /\ Head(w) = w[1] /\ \A i \in 1..Len(v) : v[i] = w[i + 1]
  BY HeadTailProperties, LenProperties
<1> HIDE DEF v
<1>2. ASSUME NEW x, NEW i \in 1..Len(w), LiveFrom(c, w, x, i + 1) PROVE LiveFrom(c, v, x, i)
  <2>1. CASE c[x] = "running"
    BY <2>1 DEF LiveFrom
  <2>2. CASE \E k \in (i + 1)..Len(w) : w[k] = EndOf(x)
    <3>1. PICK k \in (i + 1)..Len(w) : w[k] = EndOf(x)
      BY <2>2
    <3>2. k - 1 \in i..Len(v) /\ k - 1 \in 1..Len(v) /\ v[k - 1] = w[(k - 1) + 1] /\ (k - 1) + 1 = k
      BY <1>1
    <3> QED
      BY <3>1, <3>2 DEF LiveFrom
  <2> QED
    BY <1>2, <2>1, <2>2 DEF LiveFrom
<1>3. ~Head(w).over => LiveFrom(c, v, Head(w).job, 1)
  <2>1. 1 \in 1..Len(w)
    BY <1>1
  <2>2. ~w[1].over => LiveFrom(c, w, w[1].job, 1 + 1)
    BY <2>1 DEF FramesOK
  <2> QED
    BY <1>1, <1>2, <2>1, <2>2
<1>4. ASSUME NEW i \in 1..Len(v), ~v[i].over PROVE LiveFrom(c, v, v[i].job, i + 1)
  <2>1. i + 1 \in 1..Len(w) /\ v[i] = w[i + 1]
    BY <1>1
  <2>2. LiveFrom(c, w, v[i].job, (i + 1) + 1)
    BY <1>4, <2>1 DEF FramesOK
  <2> QED
    BY <1>2, <2>1, <2>2
<1> QED
  BY <1>3, <1>4 DEF FramesOK, v

LEMMA NoFrames ==
  ASSUME NEW c, NEW w, NEW p, w = <<>>, FramesOK(c, w, p)
  PROVE  FramesOK(c, <<>>, p)
  BY DEF FramesOK

\* A step that says something of a job.
LEMMA SayKeeps ==
  ASSUME JobsOK, NEW j \in Jobs, NEW over \in BOOLEAN, Say(j, over), Len(wire) < 2, progress' = progress,
         comfy' \in [Jobs -> Stages],
         \A x \in Jobs \union {NoJob} : x # j /\ comfy[x] = "running" => comfy'[x] = "running",
         ~over => comfy'[j] = "running"
  PROVE  JobsOK'
<1>1. wire \in Seq(Frames) /\ Len(wire) \in Nat /\ [job |-> j, over |-> over] \in Frames
  BY LenProperties DEF JobsOK, Frames
<1>2. CASE Hears
  <2>1. wire' = Append(wire, [job |-> j, over |-> over]) /\ missed' = missed
    BY <1>2 DEF Say, JobsOK
  <2>2. wire' \in Seq(Frames) /\ Len(wire') <= 2
    <3>1. Len(Append(wire, [job |-> j, over |-> over])) = Len(wire) + 1 /\ Append(wire, [job |-> j, over |-> over]) \in Seq(Frames)
      BY <1>1, AppendProperties
    <3> QED
      BY <1>1, <2>1, <3>1
  <2>3. ~missed => FramesOK(comfy', wire', progress)
    BY <1>1, <2>1, FramesGrow DEF JobsOK
  <2> QED
    BY <2>1, <2>2, <2>3 DEF JobsOK
<1>3. CASE ~Hears
  BY <1>3 DEF Say, JobsOK
<1> QED
  BY <1>2, <1>3

\* A socket that goes.
LEMMA LoseKeeps ==
  ASSUME JobsOK, Lose, comfy' = comfy, progress' \in {progress, NoJob}
  PROVE  JobsOK'
<1>1. wire' = <<>> /\ missed' = (missed \/ wire # <<>>)
  BY DEF Lose
<1>2. wire' \in Seq(Frames) /\ Len(wire') <= 2
  BY <1>1
<1>3. ~missed' => FramesOK(comfy', wire', progress')
  BY <1>1, NoFrames DEF JobsOK, FramesOK
<1>4. comfy' \in [Jobs -> Stages] /\ progress' \in Jobs \union {NoJob} /\ missed' \in BOOLEAN
  BY <1>1 DEF JobsOK
<1> QED
  BY <1>2, <1>3, <1>4 DEF JobsOK

LEMMA JobsRest ==
  ASSUME JobsOK, UNCHANGED <<comfy, wire, progress, missed>>
  PROVE  JobsOK'
  BY DEF JobsOK

LEMMA SocketRests ==
  ASSUME SocketOK, UNCHANGED <<socketVars, disposed>>
  PROVE  SocketOK'
  BY DEF SocketOK, socketVars, DisposedIsQuiet

LEMMA CacheRests ==
  ASSUME CacheOK, UNCHANGED <<aim, cached, watch, strayed>>
  PROVE  CacheOK'
  BY DEF CacheOK

LEMMA CancelRests ==
  ASSUME CancelOK, UNCHANGED <<cancel, slipped>>,
         \A j \in Jobs : comfy[j] # "none" => comfy'[j] # "none",
         \A j \in Jobs : comfy'[j] = "running" => comfy[j] = "running" \/ ~(cancel.job = j /\ cancel.step = "delete"),
         \A j \in Jobs : comfy[j] = "over" => comfy'[j] = "over"
  PROVE  CancelOK'
  BY DEF CancelOK

-----------------------------------------------------------------------------
(* The server *)

LEMMA SubmitKeeps ==
  ASSUME ComfyInv, NEW p \in Jobs, Submit(p)
  PROVE  ComfyInv'
<1>1. comfy' = [comfy EXCEPT ![p] = "pending"] /\ comfy[p] = "none" /\ comfy \in [Jobs -> Stages]
      /\ UNCHANGED <<socketVars, aim, disposed, cached, watch, wire, progress, cancel, missed, strayed, slipped>>
  BY DEF Submit, probeVars, ComfyInv, JobsOK
<1>2. comfy' \in [Jobs -> Stages] /\ comfy'[p] = "pending" /\ \A j : j # p => comfy'[j] = comfy[j]
  BY <1>1 DEF Stages
<1>3. ~missed => FramesOK(comfy', wire, progress)
  BY <1>1, <1>2, FramesStay DEF ComfyInv, JobsOK
<1>4. JobsOK'
  BY <1>1, <1>2, <1>3 DEF ComfyInv, JobsOK
<1>5. CancelOK'
  BY <1>1, <1>2, CancelRests DEF ComfyInv
<1> QED
  BY <1>1, <1>4, <1>5, SocketRests, CacheRests DEF ComfyInv

LEMMA StartKeeps ==
  ASSUME ComfyInv, NEW p \in Jobs, JobStarts(p)
  PROVE  ComfyInv'
<1>1. comfy' = [comfy EXCEPT ![p] = "running"] /\ comfy[p] = "pending" /\ comfy \in [Jobs -> Stages] /\ Len(wire) < 2 /\ Say(p, FALSE)
      /\ slipped' = (slipped \/ (cancel.job = p /\ cancel.step = "delete"))
      /\ UNCHANGED <<socketVars, aim, disposed, cached, watch, progress, cancel, strayed>>
  BY DEF JobStarts, probeVars, ComfyInv, JobsOK
<1>2. comfy' \in [Jobs -> Stages] /\ comfy'[p] = "running" /\ \A j : j # p => comfy'[j] = comfy[j]
  BY <1>1 DEF Stages
<1>3. JobsOK'
  BY <1>1, <1>2, SayKeeps DEF ComfyInv
<1>4. CancelOK'
  BY <1>1, <1>2 DEF ComfyInv, CancelOK
<1> QED
  BY <1>1, <1>3, <1>4, SocketRests, CacheRests DEF ComfyInv

LEMMA EndKeeps ==
  ASSUME ComfyInv, NEW p \in Jobs, JobEnds(p)
  PROVE  ComfyInv'
<1>1. comfy' = [comfy EXCEPT ![p] = "over"] /\ comfy[p] = "running" /\ comfy \in [Jobs -> Stages] /\ Len(wire) < 2 /\ Say(p, TRUE)
      /\ UNCHANGED <<socketVars, aim, disposed, cached, watch, progress, cancel, strayed, slipped>>
  BY DEF JobEnds, probeVars, ComfyInv, JobsOK
<1>2. comfy' \in [Jobs -> Stages] /\ comfy'[p] = "over" /\ \A j : j # p => comfy'[j] = comfy[j]
  BY <1>1 DEF Stages
<1>3. JobsOK'
  BY <1>1, <1>2, SayKeeps DEF ComfyInv
<1>4. CancelOK'
  BY <1>1, <1>2, CancelRests DEF ComfyInv
<1> QED
  BY <1>1, <1>3, <1>4, SocketRests, CacheRests DEF ComfyInv

-----------------------------------------------------------------------------
(* The socket *)

LEMMA FrameKeeps ==
  ASSUME ComfyInv, FrameIn
  PROVE  ComfyInv'
<1>1. wire # <<>> /\ wire' = Tail(wire) /\ progress' = Reduced(Head(wire).job, Head(wire).over)
      /\ UNCHANGED <<comfy, socketVars, aim, disposed, cached, watch, cancel, missed, strayed, slipped>>
  BY DEF FrameIn, jobVars, probeVars
<1>2. wire \in Seq(Frames) /\ Len(wire) <= 2 /\ comfy \in [Jobs -> Stages] /\ missed \in BOOLEAN
  BY DEF ComfyInv, JobsOK
<1>3. wire' \in Seq(Frames) /\ Len(wire') <= 2 /\ Head(wire) \in Frames
  <2>1. Tail(wire) \in Seq(Frames) /\ Len(Tail(wire)) = Len(wire) - 1 /\ Head(wire) \in Frames /\ Len(wire) \in Nat
    BY <1>1, <1>2, HeadTailProperties, LenProperties
  <2> QED
    BY <1>1, <1>2, <2>1
<1>4. progress' = (IF Head(wire).over THEN NoJob ELSE Head(wire).job) /\ progress' \in Jobs \union {NoJob}
  BY <1>1, <1>3 DEF Reduced, Frames
<1>5. ~missed => FramesOK(comfy, wire', progress')
  BY <1>1, <1>2, <1>4, FramesShrink DEF ComfyInv, JobsOK
<1>6. JobsOK'
  BY <1>1, <1>2, <1>3, <1>4, <1>5 DEF JobsOK
<1>7. CancelOK'
  BY <1>1, CancelRests DEF ComfyInv
<1> QED
  BY <1>1, <1>6, <1>7, SocketRests, CacheRests DEF ComfyInv

LEMMA OpensKeeps ==
  ASSUME ComfyInv, SocketOpens
  PROVE  ComfyInv'
<1>1. JobsOK' /\ CacheOK' /\ CancelOK'
  BY JobsRest, CacheRests, CancelRests DEF ComfyInv, SocketOpens, jobVars, probeVars
<1>2. SocketOK'
  BY DEF ComfyInv, SocketOK, SocketOpens, probeVars, DisposedIsQuiet
<1> QED
  BY <1>1, <1>2 DEF ComfyInv

LEMMA BreaksKeeps ==
  ASSUME ComfyInv, SocketBreaks
  PROVE  ComfyInv'
<1>1. JobsOK' /\ CacheOK' /\ CancelOK'
  BY LoseKeeps, CacheRests, CancelRests DEF ComfyInv, SocketBreaks, jobVars, probeVars
<1>2. SocketOK'
  BY DEF ComfyInv, SocketOK, SocketBreaks, probeVars, DisposedIsQuiet
<1> QED
  BY <1>1, <1>2 DEF ComfyInv

LEMMA RetryKeeps ==
  ASSUME ComfyInv, Retry
  PROVE  ComfyInv'
<1>1. UNCHANGED <<comfy, wantOpen, idling, disposed, aim, cached, watch, progress, cancel, strayed, slipped>>
      /\ retrying /\ retrying' = FALSE
      /\ ((Lose /\ socket' = "connecting" /\ ~disposed) \/ UNCHANGED <<socket, wire, missed>>)
  BY DEF Retry, jobVars, probeVars, MayOpen
<1>2. JobsOK'
  BY <1>1, LoseKeeps, JobsRest DEF ComfyInv
<1>3. CacheOK' /\ CancelOK'
  BY <1>1, CacheRests, CancelRests DEF ComfyInv
<1>4. SocketOK'
  BY <1>1 DEF ComfyInv, SocketOK, DisposedIsQuiet
<1> QED
  BY <1>2, <1>3, <1>4 DEF ComfyInv

LEMMA IdleKeeps ==
  ASSUME ComfyInv, IdleCloses
  PROVE  ComfyInv'
<1>1. JobsOK' /\ CacheOK' /\ CancelOK'
  BY LoseKeeps, CacheRests, CancelRests DEF ComfyInv, IdleCloses, jobVars, probeVars
<1>2. SocketOK'
  BY DEF ComfyInv, SocketOK, IdleCloses, probeVars, DisposedIsQuiet
<1> QED
  BY <1>1, <1>2 DEF ComfyInv

-----------------------------------------------------------------------------
(* The probe *)

LEMMA TargetKeeps ==
  ASSUME ComfyInv, SetTarget
  PROVE  ComfyInv'
<1>1. UNCHANGED <<comfy, disposed, progress, cancel, slipped, wantOpen>> /\ ~disposed
      /\ aim' \in {Target, Other} /\ cached' = [of |-> Nowhere, fresh |-> FALSE]
      /\ strayed' = (strayed \/ \E g \in DOMAIN watch : watch[g].phase = "history")
      /\ watch' = [old |-> watch.current, current |-> NoPoll]
  BY DEF SetTarget, jobVars, Forget, socketVars
<1>2. UNCHANGED <<socketVars, wire, missed>>
      \/ (Lose /\ retrying' = FALSE /\ idling' = FALSE /\ socket' \in {"connecting", "none"})
  BY DEF SetTarget
<1>3. JobsOK'
  BY <1>1, <1>2, LoseKeeps, JobsRest DEF ComfyInv
<1>4. SocketOK'
  BY <1>1, <1>2 DEF ComfyInv, SocketOK, DisposedIsQuiet, socketVars
<1>5. CancelOK'
  BY <1>1, CancelRests DEF ComfyInv
<1>6. watch \in [old : PollOf, current : PollOf] /\ DOMAIN watch = {"old", "current"}
  BY DEF ComfyInv, CacheOK
<1>7. NoPoll \in PollOf /\ NoPoll.phase = "idle"
  BY DEF NoPoll, PollOf
<1>8. watch' \in [old : PollOf, current : PollOf] /\ cached' \in [of : {Target, Other, Nowhere}, fresh : BOOLEAN]
      /\ watch'.old = watch.current /\ watch'.current = NoPoll /\ cached'.of = Nowhere
  BY <1>1, <1>6, <1>7
<1>9. ~strayed' => watch.current.phase # "history"
  BY <1>1, <1>6
<1>10. strayed' \in BOOLEAN
  BY <1>1 DEF ComfyInv, CacheOK
<1>11. CacheOK'
  BY <1>1, <1>7, <1>8, <1>9, <1>10 DEF CacheOK
<1> QED
  BY <1>3, <1>4, <1>5, <1>11 DEF ComfyInv

\* A step of the probe that changes its polls or its cache only.
LEMMA OldPolls ==
  ASSUME CacheOK
  PROVE  /\ watch \in [old : PollOf, current : PollOf] /\ DOMAIN watch = {"old", "current"}
         /\ NoPoll \in PollOf /\ NoPoll.phase = "idle"
         /\ watch.old \in PollOf /\ watch.current \in PollOf
  BY DEF CacheOK, NoPoll, PollOf

LEMMA PollSet ==
  ASSUME CacheOK, NEW g \in DOMAIN watch, NEW r \in PollOf, watch' = [watch EXCEPT ![g] = r],
         r.phase = "history" => r.of = aim, UNCHANGED <<aim, cached, strayed>>
  PROVE  CacheOK'
<1>1. watch \in [old : PollOf, current : PollOf] /\ g \in {"old", "current"}
  BY OldPolls
<1>2. watch' \in [old : PollOf, current : PollOf]
  BY <1>1
<1>3. watch'[g] = r /\ \A h \in {"old", "current"} : h # g => watch'[h] = watch[h]
  BY <1>1
<1>4. \A h \in {"old", "current"} : ~strayed /\ watch'[h].phase = "history" => watch'[h].of = aim
  BY <1>1, <1>3 DEF CacheOK
<1> QED
  BY <1>2, <1>4 DEF CacheOK

LEMMA DisposeKeeps ==
  ASSUME ComfyInv, Dispose
  PROVE  ComfyInv'
<1>1. UNCHANGED <<comfy, aim, cached, cancel, strayed, slipped>> /\ disposed' = TRUE /\ Disconnect /\ progress' = NoJob
      /\ watch' = [old |-> watch.current, current |-> NoPoll]
  BY DEF Dispose, jobVars
<1>2. JobsOK'
  BY <1>1, LoseKeeps DEF ComfyInv, Disconnect
<1>3. SocketOK'
  BY <1>1 DEF ComfyInv, SocketOK, DisposedIsQuiet, Disconnect
<1>4. CancelOK'
  BY <1>1, CancelRests DEF ComfyInv
<1>5. watch' \in [old : PollOf, current : PollOf] /\ watch'.old = watch.current /\ watch'.current = NoPoll /\ NoPoll.phase = "idle"
  BY <1>1, OldPolls DEF ComfyInv
<1>6. CacheOK'
  BY <1>1, <1>5 DEF ComfyInv, CacheOK
<1> QED
  BY <1>2, <1>3, <1>4, <1>6 DEF ComfyInv

LEMMA PollBeginsKeeps ==
  ASSUME ComfyInv, ComfyPollBegins
  PROVE  ComfyInv'
<1>1. UNCHANGED <<comfy, socketVars, aim, disposed, cached, wire, progress, cancel, missed, strayed, slipped>>
      /\ watch' = [watch EXCEPT !.current = [NoPoll EXCEPT !.phase = "stats", !.of = aim]]
  BY DEF ComfyPollBegins, jobVars
<1>2. NoPoll \in PollOf /\ aim \in {Target, Other, Nowhere}
  BY OldPolls DEF ComfyInv, CacheOK
<1>3. [NoPoll EXCEPT !.phase = "stats", !.of = aim] \in PollOf /\ [NoPoll EXCEPT !.phase = "stats", !.of = aim].phase = "stats"
  BY <1>2 DEF PollOf
<1>4. CacheOK'
  BY <1>1, <1>2, <1>3, PollSet, OldPolls DEF ComfyInv
<1> QED
  BY <1>1, <1>4, JobsRest, SocketRests, CancelRests DEF ComfyInv

LEMMA AgesKeeps ==
  ASSUME ComfyInv, CacheAges
  PROVE  ComfyInv'
<1>1. UNCHANGED <<comfy, socketVars, aim, disposed, watch, wire, progress, cancel, missed, strayed, slipped>>
      /\ cached' = [cached EXCEPT !.fresh = FALSE]
  BY DEF CacheAges, jobVars
<1>2. CacheOK'
  BY <1>1 DEF ComfyInv, CacheOK
<1> QED
  BY <1>1, <1>2, JobsRest, SocketRests, CancelRests DEF ComfyInv

LEMMA PollFailsKeeps ==
  ASSUME ComfyInv, NEW g \in DOMAIN watch, ComfyPollFails(g)
  PROVE  ComfyInv'
<1>1. UNCHANGED <<comfy, aim, disposed, cached, progress, cancel, strayed, slipped>> /\ Disconnect
      /\ watch' = [watch EXCEPT ![g] = NoPoll]
  BY DEF ComfyPollFails, jobVars
<1>2. JobsOK'
  BY <1>1, LoseKeeps DEF ComfyInv, Disconnect
<1>3. SocketOK'
  BY <1>1 DEF ComfyInv, SocketOK, DisposedIsQuiet, Disconnect
<1>4. CacheOK'
  BY <1>1, PollSet, OldPolls DEF ComfyInv
<1> QED
  BY <1>1, <1>2, <1>3, <1>4, CancelRests DEF ComfyInv

LEMMA TouchKeeps ==
  ASSUME SocketOK, NEW b \in BOOLEAN, Touch(b), UNCHANGED <<retrying, disposed>>
  PROVE  SocketOK'
  BY DEF Touch, Open, MayOpen, SocketOK, DisposedIsQuiet

LEMMA QueueKeeps ==
  ASSUME ComfyInv, NEW g \in DOMAIN watch, QueueRead(g)
  PROVE  ComfyInv'
<1>1. UNCHANGED <<comfy, retrying, aim, disposed, cached, wire, progress, cancel, missed, strayed, slipped>>
      /\ Touch(watch[g].of = Target /\ Working \union Pending # {})
      /\ watch' = [watch EXCEPT ![g] = [phase |-> "history", of |-> aim]]
  BY DEF QueueRead, jobVars
<1>2. [phase |-> "history", of |-> aim] \in PollOf
  BY DEF ComfyInv, CacheOK, PollOf
<1>3. CacheOK'
  BY <1>1, <1>2, PollSet DEF ComfyInv
<1>4. SocketOK'
  BY <1>1, TouchKeeps DEF ComfyInv
<1> QED
  BY <1>1, <1>3, <1>4, JobsRest, CancelRests DEF ComfyInv

LEMMA AnswerKeeps ==
  ASSUME ComfyInv, NEW g \in DOMAIN watch, ComfyPollReturns(g)
  PROVE  ComfyInv'
<1>1. UNCHANGED <<comfy, socketVars, aim, disposed, wire, progress, cancel, missed, strayed, slipped>>
      /\ watch[g].phase = "history" /\ watch' = [watch EXCEPT ![g] = NoPoll]
      /\ cached' \in {cached, [of |-> watch[g].of, fresh |-> TRUE]}
  BY DEF ComfyPollReturns, jobVars
<1>2. g \in {"old", "current"} /\ watch[g] \in PollOf /\ NoPoll \in PollOf /\ NoPoll.phase = "idle"
  BY OldPolls DEF ComfyInv
<1>3. cached' \in [of : {Target, Other, Nowhere}, fresh : BOOLEAN]
  <2>1. cached \in [of : {Target, Other, Nowhere}, fresh : BOOLEAN] /\ watch[g].of \in {Target, Other, Nowhere}
    BY <1>2 DEF ComfyInv, CacheOK, PollOf
  <2>2. [of |-> watch[g].of, fresh |-> TRUE] \in [of : {Target, Other, Nowhere}, fresh : BOOLEAN]
    BY <2>1
  <2> QED
    BY <1>1, <2>1, <2>2
<1>4. ~strayed => cached'.of \in {Nowhere, aim}
  BY <1>1, <1>2 DEF ComfyInv, CacheOK
<1>5. watch' \in [old : PollOf, current : PollOf] /\ watch'[g] = NoPoll /\ \A h \in {"old", "current"} : h # g => watch'[h] = watch[h]
  BY <1>1, <1>2, OldPolls DEF ComfyInv
<1>6. CacheOK'
  BY <1>1, <1>2, <1>3, <1>4, <1>5 DEF ComfyInv, CacheOK
<1> QED
  BY <1>1, <1>6, JobsRest, SocketRests, CancelRests DEF ComfyInv

-----------------------------------------------------------------------------
(* The cancel *)

LEMMA AskKeeps ==
  ASSUME ComfyInv, NEW p \in Jobs, AskCancel(p)
  PROVE  ComfyInv'
<1>1. cancel' = [step |-> "api", job |-> p, ok |-> FALSE] /\ comfy[p] \in {"pending", "running"}
      /\ UNCHANGED <<comfy, socketVars, aim, disposed, cached, watch, wire, progress, missed, strayed, slipped>>
  BY DEF AskCancel, ServerOnly, jobVars, probeVars
<1>2. CancelOK'
  BY <1>1 DEF ComfyInv, CancelOK, Cancels
<1> QED
  BY <1>1, <1>2, JobsRest, SocketRests, CacheRests DEF ComfyInv

\* The server drops the job a cancel is for.
LEMMA EndedKeeps ==
  ASSUME ComfyInv, NEW j \in Jobs, NEW S, Ended(j, S), S \subseteq Stages
  PROVE  /\ JobsOK' /\ SocketOK' /\ CacheOK'
         /\ comfy'[j] = (IF comfy[j] \in S THEN "over" ELSE comfy[j])
<1>1. comfy' = (IF comfy[j] \in S THEN [comfy EXCEPT ![j] = "over"] ELSE comfy) /\ comfy \in [Jobs -> Stages]
      /\ UNCHANGED <<socketVars, aim, disposed, cached, watch, progress, strayed>>
      /\ (IF comfy[j] = "running" /\ comfy' # comfy THEN Len(wire) < 2 /\ Say(j, TRUE) ELSE UNCHANGED <<wire, missed>>)
  BY DEF Ended, Dropped, probeVars, ComfyInv, JobsOK
<1>2. comfy' \in [Jobs -> Stages] /\ \A i : i # j => comfy'[i] = comfy[i]
  BY <1>1 DEF Stages
<1>3. comfy'[j] = (IF comfy[j] \in S THEN "over" ELSE comfy[j])
  BY <1>1
<1>4. JobsOK'
  <2>1. CASE comfy[j] = "running" /\ comfy' # comfy
    BY <1>1, <1>2, <2>1, SayKeeps DEF ComfyInv
  <2>2. CASE comfy' = comfy
    BY <1>1, <2>2, JobsRest DEF ComfyInv
  <2>3. CASE comfy[j] # "running" /\ comfy' # comfy
    <3>1. UNCHANGED <<wire, missed, progress>>
      BY <1>1, <2>3
    <3>2. \A i : comfy[i] = "running" => comfy'[i] = "running"
      BY <1>2, <2>3
    <3>3. ~missed => FramesOK(comfy', wire, progress)
      BY <3>2, FramesStay DEF ComfyInv, JobsOK
    <3> QED
      BY <1>2, <3>1, <3>3 DEF ComfyInv, JobsOK
  <2> QED
    BY <2>1, <2>2, <2>3
<1> QED
  BY <1>1, <1>3, <1>4, SocketRests, CacheRests DEF ComfyInv

LEMMA ServerKeeps ==
  ASSUME ComfyInv, ServerOnly, UNCHANGED jobVars
  PROVE  JobsOK' /\ SocketOK' /\ CacheOK' /\ comfy' = comfy
  BY JobsRest, SocketRests, CacheRests DEF ComfyInv, ServerOnly, jobVars, probeVars

LEMMA CancelJob ==
  ASSUME ComfyInv, cancel.step # "idle"
  PROVE  /\ cancel \in Cancels /\ cancel.job \in Jobs /\ comfy[cancel.job] \in {"pending", "running", "over"}
         /\ slipped \in BOOLEAN /\ (cancel.step # "done" => ~cancel.ok)
  BY DEF ComfyInv, CancelOK, JobsOK, Stages

LEMMA ApiKeeps ==
  ASSUME ComfyInv, ViaApi
  PROVE  ComfyInv'
<1>1. cancel.step = "api" /\ slipped' = slipped
  BY DEF ViaApi
<1>2. cancel \in Cancels /\ cancel.job \in Jobs /\ comfy[cancel.job] \in {"pending", "running", "over"}
      /\ slipped \in BOOLEAN /\ ~cancel.ok
  BY <1>1, CancelJob
<1>3. CASE Ended(cancel.job, {"pending", "running"}) /\ cancel' = [cancel EXCEPT !.step = "done", !.ok = TRUE]
  <2>1. JobsOK' /\ SocketOK' /\ CacheOK' /\ comfy'[cancel.job] = "over"
    BY <1>2, <1>3, EndedKeeps DEF Stages
  <2>2. cancel' \in Cancels /\ cancel'.job = cancel.job /\ cancel'.step = "done" /\ cancel'.ok
    BY <1>2, <1>3 DEF Cancels
  <2>3. CancelOK'
    BY <1>1, <1>2, <2>1, <2>2 DEF CancelOK
  <2> QED
    BY <2>1, <2>3 DEF ComfyInv
<1>4. CASE cancel' \in {[cancel EXCEPT !.step = "done"], [cancel EXCEPT !.step = "interrupt"]} /\ ServerOnly /\ UNCHANGED jobVars
  <2>1. JobsOK' /\ SocketOK' /\ CacheOK' /\ comfy' = comfy
    BY <1>4, ServerKeeps
  <2>2. cancel' \in Cancels /\ cancel'.job = cancel.job /\ cancel'.step \in {"done", "interrupt"} /\ ~cancel'.ok
    BY <1>2, <1>4 DEF Cancels
  <2>3. CancelOK'
    BY <1>1, <1>2, <2>1, <2>2 DEF CancelOK
  <2> QED
    BY <2>1, <2>3 DEF ComfyInv
<1> QED
  BY <1>3, <1>4 DEF ViaApi

LEMMA InterruptKeeps ==
  ASSUME ComfyInv, Interrupt
  PROVE  ComfyInv'
<1>1. cancel.step = "interrupt" /\ cancel' = [cancel EXCEPT !.step = "delete"]
  BY DEF Interrupt
<1>2. cancel \in Cancels /\ cancel.job \in Jobs /\ comfy[cancel.job] \in {"pending", "running", "over"}
      /\ slipped \in BOOLEAN /\ ~cancel.ok
  BY <1>1, CancelJob
<1>3. cancel' \in Cancels /\ cancel'.job = cancel.job /\ cancel'.step = "delete" /\ ~cancel'.ok
  BY <1>1, <1>2 DEF Cancels
<1>4. CASE Ended(cancel.job, {"running"}) /\ UNCHANGED slipped
  <2>1. JobsOK' /\ SocketOK' /\ CacheOK' /\ comfy'[cancel.job] \in {"pending", "over"}
    BY <1>2, <1>4, EndedKeeps DEF Stages
  <2>2. CancelOK'
    BY <1>2, <1>3, <1>4, <2>1 DEF CancelOK
  <2> QED
    BY <2>1, <2>2 DEF ComfyInv
<1>5. CASE ServerOnly /\ UNCHANGED jobVars /\ slipped' = (slipped \/ comfy[cancel.job] = "running")
  <2>1. JobsOK' /\ SocketOK' /\ CacheOK' /\ comfy' = comfy
    BY <1>5, ServerKeeps
  <2>2. CancelOK'
    BY <1>2, <1>3, <1>5, <2>1 DEF CancelOK
  <2> QED
    BY <2>1, <2>2 DEF ComfyInv
<1> QED
  BY <1>4, <1>5 DEF Interrupt

LEMMA DeleteKeeps ==
  ASSUME ComfyInv, DeletePending
  PROVE  ComfyInv'
<1>1. cancel.step = "delete"
  BY DEF DeletePending
<1>2. cancel \in Cancels /\ cancel.job \in Jobs /\ comfy[cancel.job] \in {"pending", "running", "over"}
      /\ slipped \in BOOLEAN /\ ~cancel.ok /\ (~slipped => comfy[cancel.job] # "running")
  BY <1>1, CancelJob DEF ComfyInv, CancelOK
<1>3. CASE Ended(cancel.job, Queue) /\ cancel' = [cancel EXCEPT !.step = "done", !.ok = TRUE] /\ UNCHANGED slipped
  <2>1. JobsOK' /\ SocketOK' /\ CacheOK' /\ comfy'[cancel.job] \in {"running", "over"}
        /\ (comfy[cancel.job] # "running" => comfy'[cancel.job] = "over")
    BY <1>2, <1>3, EndedKeeps DEF Stages, Queue
  <2>2. cancel' \in Cancels /\ cancel'.job = cancel.job /\ cancel'.step = "done" /\ cancel'.ok
    BY <1>2, <1>3 DEF Cancels
  <2>3. CancelOK'
    BY <1>2, <1>3, <2>1, <2>2 DEF CancelOK
  <2> QED
    BY <2>1, <2>3 DEF ComfyInv
<1>4. CASE /\ ServerOnly /\ UNCHANGED jobVars
           /\ cancel' = [cancel EXCEPT !.step = "done", !.ok = TRUE]
           /\ slipped' = (slipped \/ comfy[cancel.job] = "pending")
  <2>1. JobsOK' /\ SocketOK' /\ CacheOK' /\ comfy' = comfy
    BY <1>4, ServerKeeps
  <2>2. cancel' \in Cancels /\ cancel'.job = cancel.job /\ cancel'.step = "done" /\ cancel'.ok
    BY <1>2, <1>4 DEF Cancels
  <2>3. CancelOK'
    BY <1>2, <1>4, <2>1, <2>2 DEF CancelOK
  <2> QED
    BY <2>1, <2>3 DEF ComfyInv
<1>5. CASE ServerOnly /\ UNCHANGED <<jobVars, slipped>> /\ cancel' = [cancel EXCEPT !.step = "done"]
  <2>1. JobsOK' /\ SocketOK' /\ CacheOK' /\ comfy' = comfy
    BY <1>5, ServerKeeps
  <2>2. cancel' \in Cancels /\ cancel'.job = cancel.job /\ cancel'.step = "done" /\ ~cancel'.ok
    BY <1>2, <1>5 DEF Cancels
  <2>3. CancelOK'
    BY <1>2, <1>5, <2>1, <2>2 DEF CancelOK
  <2> QED
    BY <2>1, <2>3 DEF ComfyInv
<1> QED
  BY <1>3, <1>4, <1>5 DEF DeletePending

-----------------------------------------------------------------------------
LEMMA ComfyStart ==
  ASSUME ComfyInit
  PROVE  ComfyInv
<1>1. JobsOK
  <2>1. comfy = [p \in Jobs |-> "none"] /\ wire = <<>> /\ progress = NoJob /\ missed = FALSE
    BY DEF ComfyInit
  <2>2. comfy \in [Jobs -> Stages] /\ wire \in Seq(Frames) /\ Len(wire) = 0
    BY <2>1 DEF Stages
  <2>3. FramesOK(comfy, wire, progress)
    BY <2>1, <2>2 DEF FramesOK
  <2>4. progress \in Jobs \union {NoJob} /\ missed \in BOOLEAN
    BY <2>1
  <2>5. Len(wire) <= 2
    BY <2>2
  <2> QED
    BY <2>2, <2>3, <2>4, <2>5 DEF JobsOK
<1>2. SocketOK
  BY DEF ComfyInit, SocketOK, DisposedIsQuiet
<1>3. CacheOK
  <2>1. aim = Target /\ cached = [of |-> Nowhere, fresh |-> FALSE] /\ watch = [old |-> NoPoll, current |-> NoPoll] /\ strayed = FALSE
    BY DEF ComfyInit
  <2>2. NoPoll \in PollOf /\ NoPoll.phase = "idle"
    BY DEF NoPoll, PollOf
  <2>3. cached \in [of : {Target, Other, Nowhere}, fresh : BOOLEAN] /\ cached.of = Nowhere
    BY <2>1
  <2>4. watch \in [old : PollOf, current : PollOf] /\ watch.old = NoPoll /\ watch.current = NoPoll
    BY <2>1, <2>2
  <2>5. \A g \in {"old", "current"} : watch[g].phase # "history"
    BY <2>2, <2>4
  <2> QED
    BY <2>1, <2>3, <2>4, <2>5 DEF CacheOK
<1>4. CancelOK
  BY DEF ComfyInit, CancelOK, NoCancel, Cancels
<1> QED
  BY <1>1, <1>2, <1>3, <1>4 DEF ComfyInv

LEMMA ComfyStep ==
  ASSUME ComfyInv, ComfyNext
  PROVE  ComfyInv'
<1>1. CASE \E p \in Jobs : Submit(p) \/ JobStarts(p) \/ JobEnds(p) \/ AskCancel(p)
  BY <1>1, SubmitKeeps, StartKeeps, EndKeeps, AskKeeps
<1>2. CASE FrameIn \/ SocketOpens \/ SocketBreaks \/ Retry \/ IdleCloses
  BY <1>2, FrameKeeps, OpensKeeps, BreaksKeeps, RetryKeeps, IdleKeeps
<1>3. CASE SetTarget \/ Dispose \/ ComfyPollBegins \/ CacheAges
  BY <1>3, TargetKeeps, DisposeKeeps, PollBeginsKeeps, AgesKeeps
<1>4. CASE \E g \in DOMAIN watch : ComfyPollFails(g) \/ QueueRead(g) \/ ComfyPollReturns(g)
  BY <1>4, PollFailsKeeps, QueueKeeps, AnswerKeeps
<1>5. CASE ViaApi \/ Interrupt \/ DeletePending
  BY <1>5, ApiKeeps, InterruptKeeps, DeleteKeeps
<1> QED
  BY <1>1, <1>2, <1>3, <1>4, <1>5 DEF ComfyNext

LEMMA ComfyStutter ==
  ASSUME ComfyInv, UNCHANGED comfyVars
  PROVE  ComfyInv'
  BY JobsRest, SocketRests, CacheRests, CancelRests DEF ComfyInv, comfyVars, jobVars, probeVars

LEMMA ComfyTyped ==
  ASSUME ComfyInv
  PROVE  ComfyTypeOK
<1>1. /\ comfy \in [Jobs -> {"none", "pending", "running", "over"}] /\ progress \in Jobs \union {NoJob} /\ Len(wire) <= 2
      /\ missed \in BOOLEAN
  BY DEF ComfyInv, JobsOK, Stages
<1>2. aim \in {Target, Other} /\ cached.of \in {Target, Other, Nowhere} /\ cached.fresh \in BOOLEAN /\ strayed \in BOOLEAN
  BY DEF ComfyInv, CacheOK
<1>3. \A g \in DOMAIN watch : watch[g].phase \in {"idle", "stats", "history"}
  BY OldPolls DEF ComfyInv, PollOf
<1>4. socket \in {"none", "connecting", "open"}
      /\ wantOpen \in BOOLEAN /\ retrying \in BOOLEAN /\ idling \in BOOLEAN /\ disposed \in BOOLEAN
  BY DEF ComfyInv, SocketOK
<1>5. cancel.step \in {"idle", "api", "interrupt", "delete", "done"} /\ slipped \in BOOLEAN
  BY DEF ComfyInv, CancelOK, Cancels
<1> QED
  BY <1>1, <1>2, <1>3, <1>4, <1>5 DEF ComfyTypeOK

LEMMA ComfyIsHonest ==
  ASSUME ComfyInv
  PROVE  ProgressIsLive /\ CacheIsOfTarget /\ DisposedIsQuiet /\ CancelTakes
<1>1. ProgressIsLive
  <2>1. wire \in Seq(Frames) /\ DOMAIN wire = 1..Len(wire)
    BY LenProperties DEF ComfyInv, JobsOK
  <2> QED
    BY <2>1 DEF ProgressIsLive, ComfyInv, JobsOK, FramesOK, LiveFrom, EndOf
<1>2. CacheIsOfTarget /\ DisposedIsQuiet /\ CancelTakes
  BY DEF ComfyInv, CacheOK, SocketOK, CancelOK, CacheIsOfTarget, CancelTakes
<1> QED
  BY <1>1, <1>2

-----------------------------------------------------------------------------
(* The three side by side *)

LEMMA RatesStutter ==
  ASSUME RatesInv, UNCHANGED <<remote, ratesVars>>
  PROVE  RatesInv'
  BY DEF ratesVars, RatesInv, RatesTypes, OneIsCurrent, CpuAgrees, NetAgrees

LEMMA DisksStutter ==
  ASSUME DiskInv, UNCHANGED diskVars
  PROVE  DiskInv'
  BY DEF diskVars, DiskInv, DiskTypes, ShownUpTo, IsSum

LEMMA VramStutter ==
  ASSUME VramTypes, UNCHANGED vramVars
  PROVE  VramTypes'
  BY DEF vramVars, VramTypes

LEMMA VramIsOfNode ==
  ASSUME VramNext
  PROVE  remote' = remote
  BY DEF VramNext, Holds, LiveAnswer, NoLiveAnswer, NoGpu, PollUnified, CronWrites, RemoteGpu, RemoteUnified

ProbesInv == LlmInv /\ RatesInv /\ DiskInv /\ VramTypes /\ ComfyInv

LEMMA ProbesStart == Init => ProbesInv
  BY CountersStart, RatesStart, DisksStart, VramStart, ComfyStart DEF Init, ProbesInv

LEMMA ProbesRest ==
  ASSUME ProbesInv, UNCHANGED vars
  PROVE  ProbesInv'
  BY CountersStutter, RatesStutter, DisksStutter, VramStutter, ComfyStutter DEF ProbesInv, vars, meterVars

LEMMA ProbesStep ==
  ASSUME ProbesInv, Next
  PROVE  ProbesInv'
<1>1. CASE /\ CountersNext /\ (faults' = faults \/ "sglang" \notin {eng.kind, eng'.kind})
           /\ UNCHANGED <<remote, ratesVars, diskVars, vramVars, comfyVars>>
  BY <1>1, CountersStep, RatesStutter, DisksStutter, VramStutter, ComfyStutter DEF ProbesInv
<1>2. CASE RatesNext /\ UNCHANGED <<counterVars, diskVars, vramVars, comfyVars>>
  BY <1>2, CountersStutter, RatesStep, DisksStutter, VramStutter, ComfyStutter DEF ProbesInv
<1>3. CASE DisksNext /\ UNCHANGED <<remote, counterVars, ratesVars, vramVars, comfyVars>>
  BY <1>3, CountersStutter, RatesStutter, DisksStep, VramStutter, ComfyStutter DEF ProbesInv
<1>4. CASE VramNext /\ UNCHANGED <<counterVars, ratesVars, diskVars, comfyVars>>
  BY <1>4, CountersStutter, RatesStutter, DisksStutter, VramStep, VramIsOfNode, ComfyStutter DEF ProbesInv
<1>5. CASE ComfyNext /\ UNCHANGED meterVars
  BY <1>5, CountersStutter, RatesStutter, DisksStutter, VramStutter, ComfyStep DEF ProbesInv, meterVars
<1> QED
  BY <1>1, <1>2, <1>3, <1>4, <1>5 DEF Next

\* The invariants of the counters, the meters and the watch are inductive: each
\* step is a step of one of them.
THEOREM ProbesInvariance == Spec => []ProbesInv
<1>1. ProbesInv /\ [Next]_vars => ProbesInv'
  BY ProbesStep, ProbesRest
<1> QED
  BY <1>1, ProbesStart, PTL DEF Spec

\* Type correctness of the three; a rate is never negative.
THEOREM ProbesTypes == Spec => []ProbeTypesOK
<1>1. ProbesInv => ProbeTypesOK
  BY CountersTyped, MetersTyped, ComfyTyped DEF ProbesInv, ProbeTypesOK
<1> QED
  BY <1>1, ProbesInvariance, PTL

\* No token, tick, packet or sector is shown twice and an idle engine shows
\* nothing (LlmProbe.js, SystemCollector.js); the progress, the history and the
\* cancel of ComfyUI are of its job and of its server (ComfyProbe.js).
THEOREM TheRatesAreHonest == Spec => []RatesAreHonest
<1>1. LlmInv => RateIsNew /\ IdleShowsNothing /\ HeartbeatIsHonest
  BY DEF LlmInv
<1>2. ProbesInv => RatesAreHonest
  BY <1>1, OnceIsShown, ComfyIsHonest DEF ProbesInv, RatesAreHonest
<1> QED
  BY <1>2, ProbesInvariance, PTL
=============================================================================
