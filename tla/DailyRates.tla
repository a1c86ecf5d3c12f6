------------------------------ MODULE DailyRates ------------------------------
(***************************************************************************)
(* LlmDailyStore: for each UTC day the sum, the number and the largest of  *)
(* the rates that an engine was seen to decode at, for the last days.  A   *)
(* sample changes memory; a timer of 30 s that the first change sets       *)
(* writes the file, and so does a shutdown.  The clock of the server may   *)
(* be set back.  One series stands for all: they share nothing but the     *)
(* file and the timer.                                                     *)
(***************************************************************************)
EXTENDS Naturals, FiniteSets, FiniteSetsExt, Functions

CONSTANTS
    MaxRate,      \* rates are 0..MaxRate, 0 an idle sample
    KeepDays,     \* days that a series keeps (30)
    LastDay,      \* days are 1..LastDay
    MaxSamples,   \* bound on the busy samples of a day
    MaxTroubles   \* bound on failed writes, crashes and clocks set back

ASSUME DailyAssumption ==
    /\ {MaxRate, KeepDays, LastDay} \subseteq Nat \ {0}
    /\ {MaxSamples, MaxTroubles} \subseteq Nat

VARIABLES
    today,
    daily,        \* the days of the series: a function of some dates
    onFile,       \* what the file has of it
    dirty, timer,
    troubles

dailyVars == <<today, daily, onFile, dirty, timer, troubles>>

Dates == 1..LastDay
Day   == [max : 0..MaxRate, sum : Nat, n : 0..MaxSamples]
Empty == [max |-> 0, sum |-> 0, n |-> 0]

\* The day of a date, empty if the series has none.
DayOf(series, d) == IF d \in DOMAIN series THEN series[d] ELSE Empty

\* ingest.
Ingest(day, v) == [max |-> IF v > day.max THEN v ELSE day.max, sum |-> day.sum + v, n |-> day.n + 1]

\* pruneSeries: the dates that come last.
Pruned(series) ==
    LET Later(d) == {e \in DOMAIN series : e > d}
    IN  Restrict(series, {d \in DOMAIN series : Cardinality(Later(d)) < KeepDays})

-----------------------------------------------------------------------------
DailyInit ==
    /\ today = 1
    /\ daily = <<>> /\ onFile = <<>>
    /\ dirty = FALSE /\ timer = FALSE
    /\ troubles = 0

Trouble == troubles < MaxTroubles /\ troubles' = troubles + 1

\* An idle sample makes the day, and that is not worth a write.
IdleSample ==
    /\ daily' = [d \in DOMAIN daily \cup {today} |-> DayOf(daily, d)]
    /\ UNCHANGED <<today, onFile, dirty, timer, troubles>>

\* The timer that is running is not set again; after a write that failed there
\* is none until the next busy sample.
TimerAfter == TRUE

BusySample(v) ==
    /\ DayOf(daily, today).n < MaxSamples
    /\ daily' = Pruned([d \in DOMAIN daily \cup {today} |->
                            IF d = today THEN Ingest(DayOf(daily, d), v) ELSE daily[d]])
    /\ dirty' = TRUE /\ timer' = TimerAfter
    /\ UNCHANGED <<today, onFile, troubles>>

Write ==
    IF dirty THEN onFile' = daily /\ dirty' = FALSE ELSE UNCHANGED <<onFile, dirty>>

\* The timer is over.
Flush ==
    /\ timer /\ timer' = FALSE
    /\ Write
    /\ UNCHANGED <<today, daily, troubles>>

FlushFails ==
    /\ timer /\ timer' = FALSE
    /\ dirty /\ Trouble
    /\ UNCHANGED <<today, daily, onFile, dirty>>

\* The server is stopped, and started again.
Reboot ==
    /\ Trouble
    /\ Write /\ daily' = onFile'
    /\ timer' = FALSE
    /\ UNCHANGED today

\* It dies, and starts again with what the file has.
Killed ==
    /\ Trouble
    /\ daily' = onFile
    /\ dirty' = FALSE /\ timer' = FALSE
    /\ UNCHANGED <<today, onFile>>

NextDay ==
    /\ today < LastDay /\ today' = today + 1
    /\ UNCHANGED <<daily, onFile, dirty, timer, troubles>>

SetBack ==
    /\ Trouble /\ today > 1 /\ today' = today - 1
    /\ UNCHANGED <<daily, onFile, dirty, timer>>

DailyNext ==
    \/ IdleSample
    \/ \E v \in 1..MaxRate : BusySample(v)
    \/ Flush \/ FlushFails \/ Reboot \/ Killed
    \/ NextDay \/ SetBack

-----------------------------------------------------------------------------
DailyTypeOK ==
    /\ today \in Dates
    /\ DOMAIN daily \subseteq Dates /\ \A d \in DOMAIN daily : daily[d] \in Day
    /\ DOMAIN onFile \subseteq Dates /\ \A d \in DOMAIN onFile : onFile[d] \in Day
    /\ dirty \in BOOLEAN /\ timer \in BOOLEAN

\* The average of a day, its sum over its number, lies between one unit and its
\* largest rate: both are of the same samples, also after a restart.
AverageIsInside ==
    \A d \in DOMAIN daily : daily[d].n <= daily[d].sum /\ daily[d].sum <= daily[d].n * daily[d].max

\* What is not on file yet is on its way, unless a write failed or the server
\* was stopped: a day has no fewer samples in memory than on file, but for
\* days that memory drops, or begins anew after a clock was set back.
UnsavedIsPending ==
    /\ dirty /\ troubles = 0 => timer
    /\ \A d \in DOMAIN Pruned(daily) : daily[d].n >= DayOf(onFile, d).n
    /\ ~dirty => \A d \in DOMAIN daily : daily[d] = DayOf(onFile, d)
=============================================================================
