---------------------------- MODULE SnapshotFeed ----------------------------
(***************************************************************************)
(* The live view of the dashboard: the snapshots that index.js broadcasts  *)
(* over the WebSocket, the hook useSnapshot that receives them, connects   *)
(* again and feeds the charts of metricsStore, and what App shows: the     *)
(* sparks of the last snapshot, or a list that was fetched, in an order    *)
(* that a drag has just put them into.                                     *)
(*                                                                         *)
(* One page; the other pages edit the registry.  A snapshot is the order   *)
(* of its sparks and the time it was made at; a chart is the times of its  *)
(* samples.  The readings themselves are left out.                         *)
(***************************************************************************)
EXTENDS Naturals, Sequences, FiniteSets, SequencesExt

CONSTANTS
    Nodes,         \* sparks that may be in the registry
    HistoryMax, Retention,
    Backlog,       \* snapshots that a slow client may be behind
    MaxTime, MaxEdits

ASSUME FeedAssumption ==
    /\ IsFiniteSet(Nodes)
    /\ HistoryMax \in Nat \ {0} /\ Retention \in Nat /\ Backlog \in Nat \ {0}
    /\ MaxTime \in Nat /\ MaxEdits \in Nat

VARIABLES
    order,         \* of the registry
    now,           \* the server's clock
    client,        \* the server has an open client
    frames,        \* snapshots on their way to it
    ws,          \* the page's socket: "none", "connecting" or "open"
    sparks,        \* of the last snapshot
    charts,        \* per spark the times of its samples
    fallback,      \* fallbackSparks
    override,      \* orderOverride
    reordering,        \* the order of a PUT under way
    fetching,      \* a GET of the sparks under way
    edits,         \* bound on edits, faults and steps of the clock
    crossed        \* history: others edited while this page was ahead

feedVars == <<order, now, client, frames, ws, sparks, charts, fallback,
              override, reordering, fetching, edits, crossed>>

server == <<order, now>>
page == <<sparks, charts, fallback, override, reordering, fetching>>

\* The elements of a list that are in S, in its order.
Filtered(list, S) ==
    LET kept[i \in 0..Len(list)] ==
            IF i = 0 THEN <<>>
            ELSE IF list[i] \in S THEN Append(kept[i - 1], list[i]) ELSE kept[i - 1]
    IN  kept[Len(list)]

Orders == {o \in SeqOf(Nodes, Cardinality(Nodes)) : IsInjective(o)}
NoOrder == <<>>

\* Read at start: the page has no snapshot yet.
FeedInit ==
    /\ order \in Orders /\ now = 0
    /\ client = FALSE /\ frames = <<>> /\ ws = "none"
    /\ sparks = <<>> /\ charts = [n \in Nodes |-> <<>>]
    /\ fallback = <<>> /\ override = NoOrder /\ reordering = NoOrder /\ fetching = FALSE
    /\ edits = 0 /\ crossed = FALSE

-----------------------------------------------------------------------------
(* The server *)

Payload == [order |-> order, at |-> now]

\* broadcastPayload to the one client; one that is too far behind is closed.
Broadcast ==
    IF Len(frames) >= Backlog THEN client' = FALSE /\ UNCHANGED frames
    ELSE frames' = Append(frames, Payload) /\ UNCHANGED client

\* The interval and forceBroadcast.  A payload like the last one would not be
\* sent again, but the time in it is another one at each tick.
Tick ==
    /\ client
    /\ Broadcast
    /\ UNCHANGED <<server, ws, page, edits, crossed>>

\* Time passes; the clock is set back.
Passes == now < MaxTime /\ now' = now + 1 /\ UNCHANGED edits
SetBack == now > 0 /\ edits < MaxEdits /\ now' = now - 1 /\ edits' = edits + 1

Clock ==
    /\ Passes \/ SetBack
    /\ UNCHANGED <<order, client, frames, ws, page, crossed>>

\* The page has something that no snapshot has confirmed.
Ahead == override # NoOrder \/ reordering # NoOrder \/ fallback # <<>> \/ fetching

\* Another page adds, removes or moves a spark.
OthersEdit ==
    /\ edits < MaxEdits /\ edits' = edits + 1
    /\ order' \in Orders \ {order}
    /\ crossed' = (crossed \/ Ahead)
    /\ UNCHANGED <<now, client, frames, ws, page>>

\* reorderSparks: what is not named goes to the end.
Reordered(asked) ==
    Filtered(asked, Range(order)) \o Filtered(order, Nodes \ Range(asked))

-----------------------------------------------------------------------------
(* The link *)

\* connect, at first and from the timer of onclose.
WsConnects ==
    /\ ws = "none" /\ ~client
    /\ ws' = "connecting"
    /\ UNCHANGED <<server, client, frames, page, edits, crossed>>

\* The server sends the newcomer its first snapshot.
Accepted ==
    /\ ws = "connecting" /\ ~client /\ frames = <<>>
    /\ client' = TRUE /\ frames' = <<Payload>> /\ ws' = "open"
    /\ UNCHANGED <<server, page, edits, crossed>>

\* The connection breaks: what was under way is lost.  The server sees it.
WsBreaks ==
    /\ ws = "open" /\ edits < MaxEdits /\ edits' = edits + 1
    /\ frames' = <<>> /\ client' = FALSE
    /\ UNCHANGED <<server, ws, page, crossed>>

\* onclose, after what the server had sent.
Closes ==
    /\ ws = "open" /\ ~client /\ frames = <<>>
    /\ ws' = "none"
    /\ UNCHANGED <<server, client, frames, page, edits, crossed>>

-----------------------------------------------------------------------------
(* The page *)

\* pruneBefore: all before the first sample that is not too old.
Pruned(chart, at) ==
    LET first == CHOOSE i \in DOMAIN chart :
                     chart[i] + Retention >= at /\ \A j \in 1..(i - 1) : chart[j] + Retention < at
    IN  SubSeq(chart, first, Len(chart))

\* TimedRingBuffer: the last HistoryMax samples, none older than the retention.
Rung(chart, at) ==
    Pruned(IF Len(chart) = HistoryMax THEN Append(Tail(chart), at) ELSE Append(chart, at), at)

\* pushHistory: a sample of the same time replaces, an older one is dropped.
Pushed(chart, at) == IF chart # <<>> /\ at <= Last(chart) THEN chart ELSE Rung(chart, at)

\* ingestSnapshots: the series of a spark that is not in the snapshot go.
Ingested(frame) ==
    [n \in Nodes |-> IF n \in Range(frame.order) THEN Pushed(charts[n], frame.at) ELSE <<>>]

Live(list, fetched) == IF list # <<>> THEN list ELSE fetched

\* The override goes once the sparks are in its order.
Kept(o, live) == IF o = live THEN NoOrder ELSE o

\* onmessage, and the effects of App on the new sparks.
FrameArrives ==
    /\ frames # <<>> /\ ws = "open"
    /\ frames' = Tail(frames)
    /\ sparks' = Head(frames).order
    /\ charts' = Ingested(Head(frames))
    /\ fallback' = IF sparks' # <<>> THEN <<>> ELSE fallback
    /\ override' = Kept(override, Live(sparks', fallback))
    /\ UNCHANGED <<server, client, ws, reordering, fetching, edits, crossed>>

\* displaySparks
Shown ==
    LET live == Live(sparks, fallback)
    IN  Filtered(override, Range(live)) \o Filtered(live, Nodes \ Range(override))

\* A drag: shown at once, saved after it; one save at a time.
Drag ==
    /\ edits < MaxEdits /\ reordering = NoOrder /\ Shown # <<>>
    /\ \E next \in Orders \ {Shown} :
          Range(next) = Range(Shown) /\ override' = next /\ reordering' = next
    /\ edits' = edits + 1
    /\ crossed' = (crossed \/ Range(Shown) # Range(order))
    /\ UNCHANGED <<server, client, frames, ws, sparks, charts, fallback, fetching>>

\* The PUT is served, or it is lost and the override with it.
SaveServed ==
    /\ reordering # NoOrder /\ reordering' = NoOrder
    /\ order' = Reordered(reordering)
    /\ UNCHANGED <<now, client, frames, ws, sparks, charts, fallback, override,
                   fetching, edits, crossed>>

SaveFails ==
    /\ reordering # NoOrder /\ reordering' = NoOrder /\ override' = NoOrder
    /\ UNCHANGED <<server, client, frames, ws, sparks, charts, fallback, fetching, edits, crossed>>

\* This page has added or removed a spark and fetches the list.
EditHere ==
    /\ edits < MaxEdits /\ edits' = edits + 1 /\ ~fetching /\ fetching' = TRUE
    /\ \E n \in Nodes :
          order' = IF n \in Range(order) THEN Filtered(order, Nodes \ {n}) ELSE Append(order, n)
    /\ crossed' = (crossed \/ override # NoOrder)
    /\ UNCHANGED <<now, client, frames, ws, sparks, charts, fallback, override, reordering>>

Fetched ==
    /\ fetching /\ fetching' = FALSE
    /\ fallback' = order
    /\ override' = Kept(override, Live(sparks, fallback'))
    /\ UNCHANGED <<server, client, frames, ws, sparks, charts, reordering, edits, crossed>>

FeedNext ==
    \/ Tick \/ Clock \/ OthersEdit
    \/ WsConnects \/ Accepted \/ WsBreaks \/ Closes
    \/ FrameArrives \/ Drag \/ SaveServed \/ SaveFails \/ EditHere \/ Fetched

\* Timers of both sides; requests and the socket deliver or break.
PageSockets == FrameArrives \/ WsConnects \/ Accepted \/ Closes
PageRequests == SaveServed \/ SaveFails \/ Fetched

FeedFairness == WF_feedVars(Tick) /\ WF_feedVars(PageSockets) /\ WF_feedVars(PageRequests)

-----------------------------------------------------------------------------
FeedTypeOK ==
    /\ {order, sparks, fallback, override, reordering} \subseteq Orders
    /\ now \in 0..MaxTime /\ edits \in 0..MaxEdits
    /\ client \in BOOLEAN /\ fetching \in BOOLEAN /\ crossed \in BOOLEAN
    /\ ws \in {"none", "connecting", "open"}
    /\ Len(frames) <= Backlog
    /\ charts \in [Nodes -> BoundedSeq(0..MaxTime, HistoryMax)]

\* A chart never goes back in time, also when the clock does, keeps to its
\* size and its retention, and only sparks of the last snapshot have one.
ChartsInOrder ==
    \A n \in Nodes :
        /\ \A i, j \in DOMAIN charts[n] : i < j =>
              charts[n][i] < charts[n][j] /\ charts[n][j] <= charts[n][i] + Retention
        /\ charts[n] # <<>> => n \in Range(sparks)

\* The page comes to show what the registry has, through cuts, slow links,
\* drags and edits, unless others edited while it was ahead of its snapshots.
Behind == ~crossed /\ Shown # order

FeedAgrees == []<>~Behind
=============================================================================
