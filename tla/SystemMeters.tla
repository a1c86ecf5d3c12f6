---------------------------- MODULE SystemMeters ----------------------------
(***************************************************************************)
(* server/collectors/SystemCollector.js: what is kept between the polls of *)
(* a node's hardware.  Rates of the CPU, the network and the disks are     *)
(* differences to a baseline of the poll before; polls take their time,    *)
(* and after a change of the configuration one of the old lifecycle may    *)
(* return beside those of the new one.  The memory that processes hold on  *)
(* the GPU comes from a query, from a cache of its last answer, or from a  *)
(* file that a cron job of the node writes (config/gpu-memory.sh).         *)
(*                                                                         *)
(* The four have nothing in common but the object, and each has actions of *)
(* its own.  A rate is modelled by its amount.  Readings without memory    *)
(* (temperatures, clocks, sizes, names) are left out.                      *)
(***************************************************************************)
EXTENDS Naturals, Integers, Sequences, FiniteSets, FiniteSetsExt

CONSTANTS
    Pollers,     \* polls that may be under way at a time
    DiskOf,      \* [partitions -> devices], as lsblk lists them
    MaxUnits,    \* bound on ticks, packets, sectors and memory
    MaxUpsets    \* bound on reboots and on changes of the configuration

ASSUME MetersAssumption ==
    MaxUnits \in Nat \ {0} /\ MaxUpsets \in Nat /\ IsFiniteSet(DOMAIN DiskOf)

VARIABLE remote  \* TRUE iff the node is read over SSH

VARIABLES
    cpu, net,    \* the counters of the node: cpu.total, cpu.used; net
    upsets,
    polls,       \* the poll in each slot: stage "idle", "sent" or "read"; current
                 \* iff its sequence is _cpuCollectionSequence, for the monitor
                 \* iff its generation is _runGeneration
    lastCpuStat, \* the baselines, as what is still NoStat if there is none
    lastNetworkStats,
    crossed,     \* TRUE iff a poll of an old lifecycle moved the net's baseline
    done,        \* history: ticks used and packets since the dashboard runs
    shown        \* history: ticks used and packets that the monitor was given

ratesVars == <<cpu, net, upsets, polls, lastCpuStat, lastNetworkStats, crossed, done, shown>>

VARIABLES
    sectors,     \* the counter of each device
    lastDiskIO,  \* the baselines
    pass,        \* the partitions that the pass under way has still to read
    speeds       \* history: sectors shown, of all partitions

diskVars == <<sectors, lastDiskIO, pass, speeds>>

VARIABLES
    held,        \* memory that the processes on the GPU hold
    file,        \* gpu-memory.json
    cache,       \* nvidiaComputeAppsCache
    vram,        \* used of the GPU panel
    unified      \* gpuUsed of the unified memory panel

vramVars == <<held, file, cache, vram, unified>>

Units == 0..MaxUnits
NoReading == -1
NoStat == [total |-> NoReading, used |-> NoReading]
Idle == [stage |-> "idle", current |-> FALSE, stat |-> NoStat, bytes |-> NoReading, ticks |-> 0]

Parts == DOMAIN DiskOf
Devices == {DiskOf[x] : x \in Parts}

-----------------------------------------------------------------------------
\* The CPU and the network.

RatesInit ==
    /\ remote \in BOOLEAN
    /\ cpu = [total |-> 1, used |-> 1] /\ net = 1
    /\ upsets = 0
    /\ polls = [s \in Pollers |-> Idle]
    /\ lastCpuStat = NoStat /\ lastNetworkStats = NoReading
    /\ crossed = FALSE
    /\ done = [cpu |-> 0, net |-> 0] /\ shown = [cpu |-> 0, net |-> 0]

\* A tick of the CPU, busy or not; a packet.
Ticks(busy) ==
    /\ cpu.total < MaxUnits
    /\ cpu' = [total |-> cpu.total + 1, used |-> cpu.used + (IF busy THEN 1 ELSE 0)]
    /\ done' = [done EXCEPT !.cpu = @ + (IF busy THEN 1 ELSE 0)]
    /\ UNCHANGED <<remote, net, upsets, polls, lastCpuStat, lastNetworkStats, crossed, shown>>

Packet ==
    /\ net < MaxUnits
    /\ net' = net + 1 /\ done' = [done EXCEPT !.net = @ + 1]
    /\ UNCHANGED <<remote, cpu, upsets, polls, lastCpuStat, lastNetworkStats, crossed, shown>>

\* The node starts again: its counters begin at zero, a poll of it fails.
Reboots ==
    /\ upsets < MaxUpsets /\ upsets' = upsets + 1
    /\ cpu' = [total |-> 0, used |-> 0] /\ net' = 0
    /\ polls' = [s \in Pollers |-> Idle]
    /\ UNCHANGED <<remote, lastCpuStat, lastNetworkStats, crossed, done, shown>>

\* updateConfig or stop of the monitor: polls under way are out of date.
Invalidates ==
    /\ upsets < MaxUpsets /\ upsets' = upsets + 1
    /\ polls' = [s \in Pollers |-> [polls[s] EXCEPT !.current = FALSE]]
    /\ UNCHANGED <<remote, cpu, net, lastCpuStat, lastNetworkStats, crossed, done, shown>>

\* The guard of the monitor lets one poll of the current lifecycle at a time.
PollBegins(s) ==
    /\ polls[s] = Idle
    /\ \A o \in Pollers : polls[o] # Idle => ~polls[o].current
    /\ polls' = [polls EXCEPT ![s] = [Idle EXCEPT !.stage = "sent", !.current = TRUE]]
    /\ UNCHANGED <<remote, cpu, net, upsets, lastCpuStat, lastNetworkStats, crossed, done, shown>>

\* The ticks used since the baseline; the first reading and a baseline of
\* zero show none, nor does a clock that stands or went back.
TicksSince(stat) ==
    IF lastCpuStat.used \in {NoReading, 0} \/ stat.total <= lastCpuStat.total THEN 0
    ELSE stat.used - lastCpuStat.used

\* The counters are read.  On the dashboard's own node they are compared with
\* the baseline at once, and the poll goes on to the temperature; over SSH
\* they travel first.
LocalReading  == [cpu |-> cpu, ticks |-> TicksSince(cpu)]
RemoteReading == [cpu |-> cpu, ticks |-> 0]

PollReads(s) ==
    LET reading == IF remote THEN RemoteReading ELSE LocalReading
    IN  /\ polls[s].stage = "sent"
        /\ polls' = [polls EXCEPT ![s].stat = reading.cpu, ![s].ticks = reading.ticks,
                                  ![s].bytes = net, ![s].stage = "read"]
        /\ UNCHANGED <<remote, cpu, net, upsets, lastCpuStat, lastNetworkStats, crossed, done, shown>>

RemoteTicks(poll) == TicksSince(poll.stat)

CurrentBug(poll) == TRUE
Current(poll) == poll.current

\* The first reading of an interface is its own baseline.
FirstBug(bytes) == 0
First(bytes) == bytes

BytesSince(bytes) ==
    Max({0, bytes - (IF lastNetworkStats = NoReading THEN First(bytes) ELSE lastNetworkStats)})

\* A poll returns.  The CPU's baseline is guarded by the sequence, those of the
\* interfaces are not; the monitor drops the answer of an old lifecycle.  A
\* percentage out of range is tagged as a failure and shows nothing.
PollReturns(s) ==
    LET poll  == polls[s]
        ticks == IF remote THEN RemoteTicks(poll) ELSE poll.ticks
    IN  /\ poll.stage = "read"
        /\ poll.stat.total > 0
        /\ IF Current(poll) THEN lastCpuStat' = poll.stat ELSE UNCHANGED lastCpuStat
        /\ lastNetworkStats' = poll.bytes
        /\ crossed' = (crossed \/ ~poll.current)
        /\ shown' = IF poll.current
                    THEN [cpu |-> shown.cpu + Max({0, ticks}), net |-> shown.net + BytesSince(poll.bytes)]
                    ELSE shown
        /\ polls' = [polls EXCEPT ![s] = Idle]
        /\ UNCHANGED <<remote, cpu, net, upsets, done>>

\* The command fails, times out, or brings no valid counters.
PollFails(s) ==
    /\ polls[s] # Idle
    /\ polls' = [polls EXCEPT ![s] = Idle]
    /\ UNCHANGED <<remote, cpu, net, upsets, lastCpuStat, lastNetworkStats, crossed, done, shown>>

RatesNext ==
    \/ \E busy \in BOOLEAN : Ticks(busy)
    \/ Packet \/ Reboots \/ Invalidates
    \/ \E s \in Pollers : PollBegins(s) \/ PollReads(s) \/ PollReturns(s) \/ PollFails(s)

-----------------------------------------------------------------------------
\* The disks of the dashboard's own node; over SSH there are sizes only.

DisksInit ==
    /\ sectors = [d \in Devices |-> 1]
    /\ lastDiskIO = [d \in Devices |-> NoReading]
    /\ pass = {} /\ speeds = 0

Transfers(d) ==
    /\ sectors[d] < MaxUnits
    /\ sectors' = [sectors EXCEPT ![d] = @ + 1]
    /\ UNCHANGED <<lastDiskIO, pass, speeds>>

PassBegins ==
    /\ pass = {} /\ pass' = Parts
    /\ UNCHANGED <<sectors, lastDiskIO, speeds>>

\* A partition shows the sectors of its device since this was read last, in
\* the same millisecond (tick FALSE) none; statfs may fail before that.
IoShown(last, now) == IF last = NoReading THEN 0 ELSE now - last

PartitionReads(x, tick) ==
    LET d == DiskOf[x]
    IN  /\ x \in pass /\ pass' = pass \ {x}
        /\ lastDiskIO' = [lastDiskIO EXCEPT ![d] = sectors[d]]
        /\ speeds' = speeds + (IF tick THEN IoShown(lastDiskIO[d], sectors[d]) ELSE 0)
        /\ UNCHANGED sectors

PartitionFails(x) ==
    /\ x \in pass /\ pass' = pass \ {x}
    /\ UNCHANGED <<sectors, lastDiskIO, speeds>>

DisksNext ==
    \/ \E d \in Devices : Transfers(d)
    \/ PassBegins
    \/ \E x \in Parts : PartitionFails(x) \/ \E tick \in BOOLEAN : PartitionReads(x, tick)

-----------------------------------------------------------------------------
\* The memory of the GPU, of a GB10: memory.used is N/A.

VramInit == held = 0 /\ file = 0 /\ cache = 0 /\ vram = 0 /\ unified = 0

Holds(n) ==
    /\ n # held /\ held' = n
    /\ UNCHANGED <<remote, file, cache, vram, unified>>

\* gpu-memory.sh: a query that fails on the node writes zero.
CronWrites(works) ==
    /\ file' = IF works THEN held ELSE 0
    /\ UNCHANGED <<remote, held, cache, vram, unified>>

\* A live answer of compute-apps.
RefilledBug(apps) == IF apps = 0 THEN cache ELSE apps
Refilled(apps) == apps

\* _queryNvidiaVram on the dashboard's own node.
LiveAnswer ==
    /\ ~remote
    /\ cache' = Refilled(held) /\ vram' = held
    /\ UNCHANGED <<remote, held, file, unified>>

\* Without an answer the file stands in, for the panel and for an empty cache.
NoLiveAnswer ==
    /\ ~remote
    /\ vram' = file
    /\ cache' = IF cache = 0 THEN file ELSE cache
    /\ UNCHANGED <<remote, held, file, unified>>

\* nvidia-smi does not run at all, or SSH fails: the default panel.
NoGpu ==
    /\ vram' = 0
    /\ UNCHANGED <<remote, held, file, cache, unified>>

\* _getUnifiedMemory: the cache, or the file if the cache sums up to nothing.
PollUnified ==
    /\ ~remote
    /\ unified' = IF cache > 0 THEN cache ELSE file
    /\ UNCHANGED <<remote, held, file, cache, vram>>

\* Over SSH both panels have queries of their own; one that fails on the node
\* is an empty answer.
RemoteGpu(works) ==
    /\ remote
    /\ cache' = Refilled(IF works THEN held ELSE 0)
    /\ vram' = IF works THEN held ELSE 0
    /\ UNCHANGED <<remote, held, file, unified>>

RemoteUnified(works) ==
    /\ remote
    /\ unified' = IF works THEN held ELSE 0
    /\ UNCHANGED <<remote, held, file, cache, vram>>

VramNext ==
    \/ \E n \in Units : Holds(n)
    \/ LiveAnswer \/ NoLiveAnswer \/ NoGpu \/ PollUnified
    \/ \E works \in BOOLEAN : CronWrites(works) \/ RemoteGpu(works) \/ RemoteUnified(works)

\* The cron job, the polls of either panel.
CronRuns == \E works \in BOOLEAN : CronWrites(works)
GpuPolls == LiveAnswer \/ \E works \in BOOLEAN : RemoteGpu(works)
UnifiedPolls == PollUnified \/ \E works \in BOOLEAN : RemoteUnified(works)

\* They go on, and the live query answers again and again.
VramFairness == WF_vramVars(CronRuns) /\ WF_vramVars(GpuPolls) /\ WF_vramVars(UnifiedPolls)

-----------------------------------------------------------------------------
MetersTypeOK ==
    /\ remote \in BOOLEAN /\ crossed \in BOOLEAN
    /\ cpu \in [total : Units, used : Units] /\ cpu.used <= cpu.total /\ net \in Units
    /\ \A s \in Pollers : polls[s].stage \in {"idle", "sent", "read"} /\ polls[s].current \in BOOLEAN
    /\ Cardinality({s \in Pollers : polls[s].current}) <= 1
    /\ lastNetworkStats \in NoReading..MaxUnits
    /\ lastDiskIO \in [Devices -> NoReading..MaxUnits] /\ pass \subseteq Parts
    /\ {held, file, cache, vram, unified} \subseteq Units

\* No tick, packet or sector is shown twice, nor one from before the dashboard
\* ran: baselines move with what is shown, through reboots, late polls and
\* partitions that share a device.  (For the network, unless a poll of an old
\* lifecycle moved the baseline back.)
ShownOnce ==
    /\ shown.cpu <= done.cpu
    /\ ~crossed => shown.net <= done.net
    /\ speeds <= FoldSet(LAMBDA d, acc : acc + sectors[d] - 1, 0, Devices)

\* Memory that was freed on the GPU disappears from both panels, although a
\* cache and a file of the minute before still have it.
Cleared == vram = 0 /\ unified = 0
ClearedIsSeen == <>[](held = 0) => <>[]Cleared
=============================================================================
