---------------------------- MODULE FleetEnergy ----------------------------
(***************************************************************************)
(* The energy accounts of the fleet (server/energy): every 2 s the sampler *)
(* integrates the estimated draw of each node, and of the fleet while all  *)
(* nodes are fresh, over the time since the previous sample, and counts    *)
(* the tokens of the head's engine.  Minute buckets are flushed to a file. *)
(*                                                                         *)
(* What is kept of a draw is which time it was credited for: a tick of the *)
(* wall clock.  The wall clock is set forward and back, nodes go stale,    *)
(* the process dies and boots, files of an old version lack the high-water *)
(* mark.  What snapshots derive from the buckets, and membership changes,  *)
(* which only blank them, are left out.                                    *)
(***************************************************************************)
EXTENDS Integers, FiniteSets, FiniteSetsExt

CONSTANTS
    Nodes,
    Sources,    \* engine ports a head may report, one at a time
    FreshSets,  \* sets of nodes that may be fresh at a sample
    MinuteLen,  \* MINUTE_MS, in ticks
    MaxGap,     \* MAX_GAP_MS
    Retention,  \* RETENTION_MS
    Never,      \* no time
    MaxClock,   \* bound: the last tick
    MaxProduced,  \* bound: tokens produced
    MaxUpsets   \* bound: settings of the clock, engine restarts, boots

ASSUME EnergyAssumption ==
    /\ Nodes # {} /\ IsFiniteSet(Nodes) /\ FreshSets \subseteq SUBSET Nodes /\ Never \notin Int
    /\ {MinuteLen, MaxGap} \subseteq Nat \ {0} /\ {Retention, MaxClock, MaxProduced, MaxUpsets} \subseteq Nat

VARIABLES
    clock,
    nodeTicks,  \* nodeTicks[n][t]: how often tick t was credited to n
    fleetTicks, \* and to the fleet
    nodeBase,   \* _nodeBaselines: times
    fleetBase,  \* _fleetBaseline
    highWater,  \* _integrationHighWaterMs
    lastRecord, \* _latestRecordAt
    engine,     \* counters of the sources
    tokenBase,  \* _tokenCounter
    rebase,     \* _tokenNeedsRebase
    tokens,     \* tokens[m]: output tokens credited in minute m, all and covered
    disk,       \* the file
    produced, upsets

accounts   == <<nodeTicks, fleetTicks, highWater, tokenBase, tokens>>
baselines  == <<nodeBase, fleetBase, lastRecord, rebase>>
energyVars == <<clock, accounts, baselines, engine, disk, produced, upsets>>

Ticks == 0..MaxClock
Start(t) == (t \div MinuteLen) * MinuteLen
Minutes == {Start(t) : t \in Ticks}
None0 == [t \in Ticks |-> 0]
NoTokens == [all |-> 0, covered |-> 0]
NoCount == [source |-> Never, total |-> 0, at |-> 0]

\* A file of the old version has credits and no mark.
OldFile(first) == [node |-> [n \in Nodes |-> [t \in Ticks |-> IF t < first THEN 1 ELSE 0]],
                   fleet |-> None0, high |-> Never, count |-> NoCount, tokens |-> [m \in Minutes |-> NoTokens]]

Covered(f) == {t \in Ticks : f.fleet[t] > 0 \/ \E n \in Nodes : f.node[n][t] > 0}

\* _load: the mark of the file if it lies in the last minute with credits,
\* behind them, or else the end of that minute.
HighWaterOf(f) ==
    IF Covered(f) = {} THEN Never
    ELSE LET first == Start(Max(Covered(f)))
             credit == Max({Cardinality({t \in Ticks : t >= first /\ f.node[n][t] > 0}) : n \in Nodes})
         IN  IF f.high # Never /\ f.high \in (first + credit)..(first + MinuteLen) THEN f.high
             ELSE first + MinuteLen

\* _pruneBuckets at time t
Drops(t, k) == k < Start(t - Retention)
Retained(ticks, t, empty) == [k \in DOMAIN ticks |-> IF Drops(t, k) THEN empty ELSE ticks[k]]

EnergyInit ==
    /\ clock = 0 /\ upsets = 0 /\ produced = 0
    /\ engine = [s \in Sources |-> 0]
    /\ disk \in {OldFile(0), OldFile(1)}
    /\ nodeTicks = disk.node /\ fleetTicks = disk.fleet /\ tokens = disk.tokens
    /\ highWater = HighWaterOf(disk) /\ tokenBase = NoCount /\ rebase = FALSE
    /\ nodeBase = [n \in Nodes |-> Never] /\ fleetBase = Never /\ lastRecord = Never

-----------------------------------------------------------------------------
(* record *)

\* The time since the previous sample that was not accounted for before.
Unaccounted(prev) ==
    IF prev = Never \/ clock - prev \notin 1..MaxGap THEN {}
    ELSE {t \in prev..(clock - 1) : highWater = Never \/ t >= highWater}

\* _recordTokens: only a baseline is taken.
Rebases(obs) ==
    \/ rebase \/ tokenBase.source # obs.source
    \/ obs.total < tokenBase.total
    \/ clock - tokenBase.at \notin 0..MaxGap

Whole(fresh) == fresh = Nodes

\* The interval is cut at the minutes, and each tick credited to its own.
Integrated(ticks, since) == [t \in Ticks |-> IF t \in since THEN ticks[t] + 1 ELSE ticks[t]]

\* A sample in which the nodes in fresh have fresh telemetry and the head
\* reports the engine at source, or no head or engine can be told.
Record(fresh, source) ==
    LET back    == lastRecord # Never /\ clock < lastRecord
        since   == [n \in fresh |-> Unaccounted(IF back THEN Never ELSE nodeBase[n])]
        fleet   == IF Whole(fresh) THEN Unaccounted(IF back THEN Never ELSE fleetBase) ELSE {}
        obs     == [source |-> source, total |-> engine[source], at |-> clock]
        resets  == rebase \/ back
        delta   == IF back \/ Rebases(obs) THEN 0 ELSE obs.total - tokenBase.total
        counted == [tokens EXCEPT ![Start(clock)] =
                      [all |-> @.all + delta, covered |-> IF fleet = {} THEN @.covered ELSE @.covered + delta]]
    IN  /\ lastRecord # clock /\ lastRecord' = clock
        /\ nodeTicks' = [n \in Nodes |-> Retained(
               IF n \in fresh THEN Integrated(nodeTicks[n], since[n]) ELSE nodeTicks[n], clock, 0)]
        /\ fleetTicks' = Retained(Integrated(fleetTicks, fleet), clock, 0)
        /\ nodeBase' = [n \in Nodes |-> IF n \in fresh THEN clock ELSE Never]
        /\ fleetBase' = IF Whole(fresh) THEN clock ELSE Never
        /\ highWater' = IF fleet = {} /\ \A n \in fresh : since[n] = {} THEN highWater ELSE clock
        /\ IF source = Never THEN tokens' = Retained(tokens, clock, NoTokens) /\ tokenBase' = tokenBase /\ rebase' = resets
           ELSE tokens' = Retained(counted, clock, NoTokens) /\ tokenBase' = obs /\ rebase' = FALSE
        /\ UNCHANGED <<clock, engine, disk, produced, upsets>>

-----------------------------------------------------------------------------
File == [node |-> nodeTicks, fleet |-> fleetTicks, high |-> highWater, count |-> tokenBase, tokens |-> tokens]

\* flush prunes first; the write is atomic.
EnergyFlush ==
    /\ disk' = [File EXCEPT !.node = [n \in Nodes |-> Retained(@[n], clock, 0)],
                            !.fleet = Retained(@, clock, 0), !.tokens = Retained(@, clock, NoTokens)]
    /\ nodeTicks' = disk'.node /\ fleetTicks' = disk'.fleet /\ tokens' = disk'.tokens
    /\ UNCHANGED <<clock, highWater, tokenBase, baselines, engine, produced, upsets>>

\* The process dies and boots.
EnergyBoot ==
    /\ upsets < MaxUpsets /\ upsets' = upsets + 1
    /\ nodeTicks' = [n \in Nodes |-> Retained(disk.node[n], clock, 0)]
    /\ fleetTicks' = Retained(disk.fleet, clock, 0)
    /\ tokens' = Retained(disk.tokens, clock, NoTokens)
    /\ highWater' = HighWaterOf(disk)
    /\ tokenBase' = disk.count /\ rebase' = (disk.count # NoCount)
    /\ nodeBase' = [n \in Nodes |-> Never] /\ fleetBase' = Never /\ lastRecord' = Never
    /\ UNCHANGED <<clock, engine, disk, produced>>

\* Time passes; several ticks between two samples are also the clock being
\* set forward.
Tick == clock < MaxClock /\ clock' = clock + 1
        /\ UNCHANGED <<accounts, baselines, engine, disk, produced, upsets>>

ClockSetBack(t) ==
    /\ upsets < MaxUpsets /\ upsets' = upsets + 1
    /\ clock' = t /\ t < clock
    /\ UNCHANGED <<accounts, baselines, engine, disk, produced>>

EngineMakes(s) ==
    /\ produced < MaxProduced /\ produced' = produced + 1
    /\ engine' = [engine EXCEPT ![s] = @ + 1]
    /\ UNCHANGED <<clock, accounts, baselines, disk, upsets>>

CountersReset(s) ==
    /\ upsets < MaxUpsets /\ upsets' = upsets + 1
    /\ engine' = [engine EXCEPT ![s] = 0]
    /\ UNCHANGED <<clock, accounts, baselines, disk, produced>>

EnergyNext ==
    \/ \E fresh \in FreshSets, source \in Sources \union {Never} : Record(fresh, source)
    \/ EnergyFlush \/ EnergyBoot \/ Tick
    \/ \E t \in Ticks : ClockSetBack(t)
    \/ \E s \in Sources : EngineMakes(s) \/ CountersReset(s)

EnergySpec == EnergyInit /\ [][EnergyNext]_energyVars

-----------------------------------------------------------------------------
Times == Ticks \union {Never}
TokenRow == [all : 0..MaxProduced, covered : 0..MaxProduced]

EnergyTypeOK ==
    /\ clock \in Ticks /\ nodeTicks \in [Nodes -> [Ticks -> Nat]] /\ fleetTicks \in [Ticks -> Nat]
    /\ nodeBase \in [Nodes -> Times] /\ fleetBase \in Times /\ lastRecord \in Times
    /\ highWater \in Times \union 0..(MaxClock + MinuteLen)
    /\ engine \in [Sources -> 0..MaxProduced]
    /\ tokenBase \in [source : Sources \union {Never}, total : 0..MaxProduced, at : Ticks]
    /\ rebase \in BOOLEAN /\ tokens \in [Minutes -> TokenRow]
    /\ disk \in [node : [Nodes -> [Ticks -> Nat]], fleet : [Ticks -> Nat],
                 high : Times \union 0..(MaxClock + MinuteLen), count : [source : Sources \union {Never}, total : 0..MaxProduced, at : Ticks],
                 tokens : [Minutes -> TokenRow]]
    /\ produced \in 0..MaxProduced /\ upsets \in 0..MaxUpsets

\* No time is paid for twice: a tick of the wall clock is credited once to a
\* node and once to the fleet, however often the clock was set back and the
\* tracker restarted, also from a file without a mark.
TimeCountsOnce ==
    /\ \A t \in Ticks : fleetTicks[t] <= 1
    /\ \A n \in Nodes, t \in Ticks : nodeTicks[n][t] <= 1

\* The fleet is credited only for time that was credited to each of its nodes,
\* so that no flushed bucket is rejected by the next load.
FleetIsCovered == \A n \in Nodes, t \in Ticks : fleetTicks[t] <= nodeTicks[n][t]

\* Tokens are not counted twice, nor from two engines at once, nor over a gap
\* or a restart; those held against the energy are among them.
TokensCountOnce ==
    /\ MapThenSumSet(LAMBDA m : tokens[m].all, Minutes) <= produced
    /\ \A m \in Minutes : tokens[m].covered <= tokens[m].all
=============================================================================
