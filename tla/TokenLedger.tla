---------------------------- MODULE TokenLedger ----------------------------
(***************************************************************************)
(* Token totals per model of one engine port (server/llmtokens): every     *)
(* 15 s the ledger takes what the engine's counters have grown by since    *)
(* the last sample and credits it to the model the engine names, for ever  *)
(* and for the day.  The engine restarts, with another model; a sample     *)
(* misses fields or is absurd; the dashboard dies between two flushes.     *)
(*                                                                         *)
(* Series of several ports and rows of several models share nothing, so    *)
(* the limits on their number are left out.                                *)
(***************************************************************************)
EXTENDS Integers, FiniteSets, FiniteSetsExt

CONSTANTS
    Models,     \* models the engine may serve
    Unnamed,    \* no model id
    MaxDelta,   \* MAX_CREDITABLE_DELTA
    Jump,       \* what an absurd sample is too high by
    KeepDays,   \* MAX_DAILY_DAYS
    Faults,     \* faults of a sample: fields missing and fields too high
    MaxServed,  \* bound: requests served
    MaxDays,    \* bound: days
    MaxEvents   \* bound: engine restarts, faulty samples and crashes

ASSUME LedgerAssumption ==
    /\ Unnamed \notin Models /\ IsFiniteSet(Models)
    /\ {MaxServed, MaxDays, MaxEvents, MaxDelta, Jump} \subseteq Nat
    /\ Faults \subseteq [missing : SUBSET {"prompt", "cached"},
                         high : SUBSET {"output", "prompt", "cached"}]
    /\ KeepDays \in Nat \ {0} /\ Jump > MaxDelta + MaxServed

VARIABLES
    model,      \* model the engine serves
    counter,    \* its counters since it started
    made,       \* made[m]: tokens the engine made with model m
    ledger,     \* the series in memory
    file,       \* and as of the last flush
    today,
    served, events,
    guessed     \* history: a sample without model id was credited

ledgerVars == <<model, counter, made, ledger, file, today, served, events, guessed>>

Fields == {"output", "prompt", "cached"}
Named  == Models \union {Unnamed}
Days   == 0..MaxDays
Null   == -1    \* no counter
Zero   == [f \in Fields |-> 0]

\* counters and lastModelId of the series, its models, its daily buckets.
NewSeries == [base |-> [f \in Fields |-> Null], last |-> Unnamed,
              totals |-> [m \in Named |-> Zero],
              daily |-> [d \in Days |-> [m \in Named |-> Zero]]]

LedgerInit ==
    /\ model \in Models /\ counter = Zero /\ made = [m \in Models |-> Zero]
    /\ ledger = NewSeries /\ file = NewSeries
    /\ today = 0 /\ served = 0 /\ events = 0 /\ guessed = FALSE

-----------------------------------------------------------------------------
(* The engine *)

Plus(a, b) == [f \in Fields |-> a[f] + b[f]]

\* Cached tokens are prompt tokens.
Work == {w \in [Fields -> 0..1] : w.cached <= w.prompt /\ w # Zero}

EngineServes(w) ==
    /\ served < MaxServed /\ served' = served + 1
    /\ counter' = Plus(counter, w)
    /\ made' = [made EXCEPT ![model] = Plus(@, w)]
    /\ UNCHANGED <<model, ledger, file, today, events, guessed>>

EngineRestarts(m) ==
    /\ events < MaxEvents /\ events' = events + 1
    /\ model' = m /\ counter' = Zero
    /\ UNCHANGED <<made, ledger, file, today, served, guessed>>

-----------------------------------------------------------------------------
(* record *)

\* A counter that is missing, has gone back or has jumped credits nothing.
Delta(f, obs, s) ==
    IF obs[f] = Null \/ s.base[f] = Null THEN 0
    ELSE IF obs[f] - s.base[f] \in 0..MaxDelta THEN obs[f] - s.base[f] ELSE 0

\* The output counter decides for the sample.
Discarded(obs, s) == obs.output - s.base.output \notin 0..MaxDelta

\* Cached tokens beyond the prompt tokens are taken for prompt tokens.
Credited(row, d) ==
    LET sum == Plus(row, d)
    IN  [sum EXCEPT !.prompt = IF sum.cached > @ THEN sum.cached ELSE @]

\* Mutated form: it sticks to the model it knows.
CreditsToBug(name, s) == IF s.last = Unnamed THEN name ELSE s.last

\* The model named, or else the last one.
CreditsTo(name, s) == IF name # Unnamed THEN name ELSE s.last

UsedDays(s) == {d \in Days : s.daily[d] # NewSeries.daily[0]}

\* Mutated form: one day too few is kept.
KeptBug(s) == [s EXCEPT !.daily = [d \in Days |->
                 IF Cardinality({e \in UsedDays(s) : e > d}) < KeepDays - 1 THEN s.daily[d]
                 ELSE NewSeries.daily[0]]]

\* _prune
Kept(s) == [s EXCEPT !.daily = [d \in Days |->
              IF Cardinality({e \in UsedDays(s) : e > d}) < KeepDays THEN s.daily[d] ELSE NewSeries.daily[0]]]

Recorded(s, name, obs) ==
    LET m      == CreditsTo(name, s)
        delta  == [f \in Fields |-> Delta(f, obs, s)]
        seen   == [s EXCEPT !.base = obs, !.last = IF name # Unnamed THEN name ELSE @]
    IN  IF s.base.output = Null \/ Discarded(obs, s) \/ (delta.output = 0 /\ delta.prompt = 0)
        THEN seen
        ELSE Kept([seen EXCEPT !.totals[m] = Credited(@, delta), !.daily[today][m] = Credited(@, delta)])

\* A counter that the snapshot does not have is no reading.
Observed(missing, high) ==
    [f \in Fields |-> IF f \in missing THEN Null
                      ELSE IF f \in high THEN counter[f] + Jump ELSE counter[f]]

\* A sample in which a field is missing, or the counters in high are absurd.
\* Without an output counter there is no sample.
Sample(name, missing, high) ==
    LET faulty == name = Unnamed \/ missing # {} \/ high # {}
    IN  /\ faulty => events < MaxEvents
        /\ events' = IF faulty THEN events + 1 ELSE events
        /\ ledger' = Recorded(ledger, name, Observed(missing, high))
        /\ guessed' = (guessed \/ name = Unnamed)
        /\ UNCHANGED <<model, counter, made, file, today, served>>

-----------------------------------------------------------------------------
Flush == file' = ledger /\ UNCHANGED <<model, counter, made, ledger, today, served, events, guessed>>

\* What was not flushed is lost.
Restart ==
    /\ events < MaxEvents /\ events' = events + 1
    /\ ledger' = file
    /\ UNCHANGED <<model, counter, made, file, today, served, guessed>>

NextDay == today < MaxDays /\ today' = today + 1
           /\ UNCHANGED <<model, counter, made, ledger, file, served, events, guessed>>

LedgerNext ==
    \/ \E w \in Work : EngineServes(w)
    \/ \E m \in Models : EngineRestarts(m)
    \/ \E name \in {model, Unnamed}, fault \in Faults :
          Sample(name, fault.missing, fault.high)
    \/ Flush \/ Restart \/ NextDay

LedgerSpec == LedgerInit /\ [][LedgerNext]_ledgerVars

-----------------------------------------------------------------------------
Rows == [Fields -> Nat]

LedgerTypeOK ==
    /\ model \in Models /\ counter \in Rows /\ made \in [Models -> Rows]
    /\ \A s \in {ledger, file} :
          /\ s.base \in [Fields -> Nat \union {Null}] /\ s.last \in Named
          /\ s.totals \in [Named -> Rows] /\ s.daily \in [Days -> [Named -> Rows]]
          /\ Cardinality(UsedDays(s)) <= KeepDays
    /\ today \in Days /\ served \in 0..MaxServed /\ events \in 0..MaxEvents /\ guessed \in BOOLEAN

Total(rows, f, S) == MapThenSumSet(LAMBDA m : rows[m][f], S)

\* The ledger never counts a token that was not made, through restarts of the
\* engine and of the dashboard and absurd samples, and no token twice.
NeverOvercounts == \A f \in Fields : Total(ledger.totals, f, Named) <= Total(made, f, Models)

\* A model is credited only with tokens it made, whatever the engine served
\* before, as long as every sample names the model.
RightModel == ~guessed => \A m \in Models, f \in Fields : ledger.totals[m][f] <= made[m][f]

\* Cached tokens are among the prompt tokens, in total and for every day, so
\* the share the client shows is a share.
CachedIsPart ==
    /\ \A m \in Named : ledger.totals[m].cached <= ledger.totals[m].prompt
    /\ \A d \in Days, m \in Named : ledger.daily[d][m].cached <= ledger.daily[d][m].prompt

\* The ranges agree with the total: the days add up to it until one is
\* dropped, and never exceed it.
DaysAddUp == \A m \in Named :
    LET inDays == MapThenSumSet(LAMBDA d : ledger.daily[d][m].output, Days)
    IN  /\ inDays <= ledger.totals[m].output
        /\ today < KeepDays => inDays = ledger.totals[m].output
=============================================================================
