------------------------------ MODULE TraceFeed ------------------------------
(***************************************************************************)
(* The traces of proxied requests: TraceStore, a table whose sequence      *)
(* numbers are never given twice, and a page of the frontend that follows  *)
(* it (AnalysisPage.tsx).  The page loads the newest traces of its filter  *)
(* and then polls for those after the last number it was told.  Its calls  *)
(* are neither cancelled nor ordered: a poll may overtake another, and     *)
(* come back to a page that has chosen another filter since.               *)
(***************************************************************************)
EXTENDS Naturals, Sequences, FiniteSets, SequencesExt, FiniteSetsExt

CONSTANTS
    Kinds,        \* what a filter tells apart
    Chosen,       \* the kinds that the page filters for
    MaxCalls,     \* bound on the calls of the page under way
    PageLimit,    \* rows of an answer (200)
    KeepLimit,    \* rows that the page keeps (500)
    MaxTraces,    \* bound on traces
    MaxTurns      \* bound on choices, clears, purges and lost calls

AllKinds == "all"   \* the filter that takes every kind

ASSUME TraceAssumption ==
    /\ AllKinds \notin Kinds /\ Chosen \subseteq Kinds
    /\ MaxCalls \in Nat \ {0}
    /\ {PageLimit, KeepLimit} \subseteq Nat \ {0} /\ PageLimit <= KeepLimit
    /\ {MaxTraces, MaxTurns} \subseteq Nat

VARIABLES
    table,        \* the rows of the table
    sequence,     \* the last number given
    filter,       \* what the page asks for
    shown,        \* its rows, the newest first
    lastSeq,      \* the number it polls after
    call,         \* its calls
    turns,
    overlapped,   \* history: calls were under way together, or one was lost, since the last load alone
    cut           \* history: rows were left out by a limit since the last load

traceVars == <<table, sequence, filter, shown, lastSeq, call, turns, overlapped, cut>>

Filters == Chosen \cup {AllKinds}
Calls   == 1..MaxCalls
Traces  == [seq : 1..MaxTraces, kind : Kinds]

Idle == [kind |-> "none", for |-> AllKinds, since |-> 0, answered |-> FALSE,
         rows |-> <<>>, more |-> FALSE, last |-> 0]

Waiting == {c \in Calls : call[c].kind # "none"}

-----------------------------------------------------------------------------
\* TraceStore.list.
Matching(f, since) == {t \in table : f \in {AllKinds, t.kind} /\ t.seq > since}

Newest(rows, n) ==
    LET Newer(t) == {u \in rows : u.seq > t.seq}
        many     == Cardinality(rows)
    IN  [i \in 1..(IF many < n THEN many ELSE n) |->
            CHOOSE t \in rows : Cardinality(Newer(t)) = i - 1]

MaxSeq == IF table = {} THEN 0 ELSE Max({t.seq : t \in table})

-----------------------------------------------------------------------------
TracesInit ==
    /\ table = {} /\ sequence = 0
    /\ filter = AllKinds /\ shown = <<>> /\ lastSeq = 0
    /\ call = [c \in Calls |-> Idle]
    /\ turns = 0 /\ overlapped = FALSE /\ cut = FALSE

Turn == turns < MaxTurns /\ turns' = turns + 1

\* AUTOINCREMENT: not the largest number there is, the largest there ever was.
NextSeq == sequence + 1

Insert(k) ==
    /\ sequence < MaxTraces
    /\ table' = table \cup {[seq |-> NextSeq, kind |-> k]}
    /\ sequence' = sequence + 1
    /\ UNCHANGED <<filter, shown, lastSeq, call, turns, overlapped, cut>>

\* _purge: those older than the horizon; DELETE by another page: all of them.
Discard(s) ==
    /\ Turn
    /\ \E t \in table : t.seq <= s
    /\ table' = {t \in table : t.seq > s}
    /\ UNCHANGED <<sequence, filter, shown, lastSeq, call, overlapped, cut>>

-----------------------------------------------------------------------------
\* The page.

Ask(c, kind, f) ==
    /\ Calls \ Waiting # {} /\ c = Min(Calls \ Waiting)
    /\ call' = [call EXCEPT ![c] = [Idle EXCEPT !.kind = kind, !.for = f, !.since = lastSeq]]
    /\ overlapped' = (overlapped \/ Waiting # {})

\* Another filter: its rows are loaded, the calls under way go on.
Choose(c, f) ==
    /\ Turn /\ f # filter
    /\ filter' = f
    /\ Ask(c, "load", f)
    /\ UNCHANGED <<table, sequence, shown, lastSeq, cut>>

Clear(c) ==
    /\ Turn
    /\ Ask(c, "clear", filter)
    /\ UNCHANGED <<table, sequence, filter, shown, lastSeq, cut>>

\* The timer starts a poll whether or not the last one has returned.
Poll(c) ==
    /\ Ask(c, "poll", filter)
    /\ UNCHANGED <<table, sequence, filter, shown, lastSeq, turns, cut>>

\* The server answers.
Answer(c) ==
    /\ c \in Waiting /\ ~call[c].answered
    /\ table' = IF call[c].kind = "clear" THEN {} ELSE table
    /\ LET since == IF call[c].kind = "poll" THEN call[c].since ELSE 0
           found == Matching(call[c].for, since)
       IN  call' = [call EXCEPT ![c].answered = TRUE, ![c].last = MaxSeq,
                                ![c].rows = Newest(found, PageLimit),
                                ![c].more = (Cardinality(found) > PageLimit)]
    /\ UNCHANGED <<sequence, filter, shown, lastSeq, turns, overlapped, cut>>

Alone(c) == Waiting = {c}

\* loadFull: the page shows what it was answered.
Loaded(c) ==
    /\ call[c].kind = "load" /\ call[c].answered
    /\ shown' = call[c].rows /\ lastSeq' = call[c].last
    /\ call' = [call EXCEPT ![c] = Idle]
    /\ overlapped' = (overlapped /\ ~(Alone(c) /\ call[c].for = filter))
    /\ cut' = call[c].more
    /\ UNCHANGED <<table, sequence, filter, turns>>

\* The page polls after the last number stored, whether or not its filter took
\* the rows up to it.
SeenUpToBug(c) == IF call[c].rows # <<>> THEN call[c].last ELSE lastSeq

SeenUpTo(c) == IF call[c].rows # <<>> \/ call[c].last > lastSeq THEN call[c].last ELSE lastSeq

Polled(c) ==
    /\ call[c].kind = "poll" /\ call[c].answered
    /\ LET both == call[c].rows \o shown
       IN  shown' = SubSeq(both, 1, IF Len(both) < KeepLimit THEN Len(both) ELSE KeepLimit)
    /\ lastSeq' = SeenUpTo(c)
    /\ call' = [call EXCEPT ![c] = Idle]
    /\ cut' = (cut \/ call[c].more \/ Len(call[c].rows \o shown) > KeepLimit)
    /\ UNCHANGED <<table, sequence, filter, turns, overlapped>>

\* handleClear: after the DELETE the rows of the filter it was called with are
\* loaded.
Cleared(c) ==
    /\ call[c].kind = "clear" /\ call[c].answered
    /\ call' = [call EXCEPT ![c] = [Idle EXCEPT !.kind = "load", !.for = call[c].for]]
    /\ UNCHANGED <<table, sequence, filter, shown, lastSeq, turns, overlapped, cut>>

\* A call fails, and the page keeps what it has.
Lost(c) ==
    /\ Turn /\ c \in Waiting
    /\ call' = [call EXCEPT ![c] = Idle]
    /\ overlapped' = TRUE
    /\ UNCHANGED <<table, sequence, filter, shown, lastSeq, cut>>

Returns(c) == Loaded(c) \/ Polled(c) \/ Cleared(c)

TracesNext ==
    \/ \E k \in Kinds : Insert(k)
    \/ \E s \in 1..MaxTraces : Discard(s)
    \/ \E c \in Calls :
        \/ \E f \in Filters : Choose(c, f)
        \/ Clear(c) \/ Poll(c) \/ Answer(c) \/ Lost(c)
        \/ Loaded(c) \/ Polled(c) \/ Cleared(c)

\* The timer goes on, and calls return.
TracesFairness ==
    /\ WF_traceVars(\E c \in Calls : Poll(c))
    /\ \A c \in Calls : WF_traceVars(Answer(c) \/ Returns(c))

-----------------------------------------------------------------------------
TracesTypeOK ==
    /\ table \subseteq Traces /\ sequence \in 0..MaxTraces
    /\ filter \in Filters
    /\ shown \in Seq(Traces) /\ Len(shown) <= KeepLimit
    /\ lastSeq \in 0..MaxTraces
    /\ \A c \in Calls : call[c].kind \in {"none", "load", "poll", "clear"} /\ call[c].rows \in Seq(Traces)

Loading == \E c \in Waiting : call[c].kind \in {"load", "clear"}

\* The page shows no trace twice, the newest first and only those of its
\* filter, as long as its calls come one after the other.
ShownIsExact ==
    ~overlapped /\ ~Loading =>
        /\ \A i, j \in DOMAIN shown : i < j => shown[i].seq > shown[j].seq
        /\ \A t \in ToSet(shown) : filter \in {AllKinds, t.kind}

\* It has every stored trace of its filter up to the number it polls after, but
\* for those that a limit left out: no number is given a second time when the
\* table was cleared, so that a new trace is always after it.
NothingIsMissed ==
    ~overlapped /\ ~Loading /\ ~cut =>
        \A t \in Matching(filter, 0) : t.seq <= lastSeq => t \in ToSet(shown)

\* A stored trace does not stay ahead of a page that polls.
TracesAreSeen == ~<>[](\E t \in table : t.seq > lastSeq)
=============================================================================
