------------------------------ MODULE LlmProxy ------------------------------
(***************************************************************************)
(* The LLM reverse proxy (server/proxy/llmProxy.js) and the registry of    *)
(* its live requests (server/proxy/inflightRegistry.js): admission under   *)
(* the concurrency cap, forwarding, the terminal paths that race (end of   *)
(* the response, error of the request, error of the response, idle         *)
(* timeout) and cancellation by an operator or by a client that leaves.    *)
(*                                                                         *)
(* The code between two events of Node is one step.  What Node emits after *)
(* a socket dies is the operator Aftermath.  Bodies, headers, tokens and   *)
(* timings are left out; traceCapture is on, as by default.  The gateway   *)
(* that picks a target for a served name is left out: a request comes with *)
(* its target.                                                             *)
(***************************************************************************)
EXTENDS Naturals, FiniteSets, Sequences

CONSTANTS
    Reqs,       \* requests of clients
    Targets,    \* spark and port
    TargetOf,   \* the target of a request
    Cap,        \* proxyMaxInflightPerPort, 0 for none
    Probes,     \* successful GETs of probe-style paths
    Bad,        \* http.request throws (a stored key that is no header value)
    Slow        \* bound: clients that may read slower than the engine writes

ASSUME ProxyAssumption ==
    /\ IsFiniteSet(Reqs) /\ TargetOf \in [Reqs -> Targets] /\ Cap \in Nat
    /\ Probes \subseteq Reqs /\ Bad \subseteq Reqs /\ Slow \subseteq Reqs

VARIABLES
    entry,      \* requests in the registry
    by,         \* by[r]: cancelledBy (kept here when the entry goes)
    upstream,   \* upstream[r]: the upstream request
    events,     \* events[r]: what Node has still to emit for it
    finished,   \* requests whose local `finished` is set
    answer,     \* answer[r]: what the client got
    here,       \* clients whose connection is open
    traces,     \* traces[r]: the kinds of the traces recorded
    outrun      \* history: requests destroyed with their whole response in the buffers

registry == <<entry, by>>
wire     == <<upstream, events, outrun>>
client   == <<answer, here>>
vars     == <<registry, wire, client, finished, traces>>

Reasons == {"user", "stop-all", "client disconnect"}

Open(r) == upstream[r] \in {"waiting", "streaming", "buffered"}

Init ==
    /\ entry = {} /\ finished = {} /\ outrun = {} /\ here = Reqs
    /\ by = [r \in Reqs |-> "nobody"]
    /\ upstream = [r \in Reqs |-> "none"]
    /\ events = [r \in Reqs |-> {}]
    /\ answer = [r \in Reqs |-> "none"]
    /\ traces = [r \in Reqs |-> <<>>]

-----------------------------------------------------------------------------
(* Admission *)

\* Mutated form: the count is taken without the request itself.
OverCapBug(r) == Cap > 0 /\ Cardinality({x \in entry : TargetOf[x] = TargetOf[r]}) > Cap

\* The request is registered first and counts itself.
OverCap(r) ==
    Cap > 0 /\ Cardinality({x \in entry \union {r} : TargetOf[x] = TargetOf[r]}) > Cap

\* register(): before the engine is asked.
Registered(r) == entry' = entry \union {r}

Arriving(r) == answer[r] = "none" /\ upstream[r] = "none" /\ r \in here

\* 429, and the entry is taken back.
Refuse(r) ==
    /\ Arriving(r) /\ OverCap(r)
    /\ answer' = [answer EXCEPT ![r] = "429"]
    /\ UNCHANGED <<registry, wire, here, finished, traces>>

Dispatch(r) ==
    /\ Arriving(r) /\ ~OverCap(r) /\ r \notin Bad
    /\ Registered(r)
    /\ upstream' = [upstream EXCEPT ![r] = "waiting"]
    /\ UNCHANGED <<by, events, outrun, client, finished, traces>>

\* http.request throws.  finishError reads idleTimer and finished before
\* their declarations have run, throws in turn, and Express answers 500.
DispatchThrows(r) ==
    /\ Arriving(r) /\ ~OverCap(r) /\ r \in Bad
    /\ Registered(r)
    /\ answer' = [answer EXCEPT ![r] = "500"]
    /\ UNCHANGED <<by, wire, here, finished, traces>>

-----------------------------------------------------------------------------
(* The terminal paths *)

\* Mutated form: the reason itself is recorded.
MarkerBug(r, kind) == IF r \in entry /\ by[r] # "nobody" THEN by[r] ELSE kind

\* Mutated form: only the error of a request that got no answer is marked.
UnmarkedBug(r, kind) ==
    IF r \in entry /\ by[r] # "nobody" /\ answer[r] = "none" THEN "cancelled" ELSE kind

\* The mark of a cancelled entry overrides what the path would record.
Marker(r, kind) == IF r \in entry /\ by[r] # "nobody" THEN "cancelled" ELSE kind

\* Successful probes leave no trace.
Traced(r, kind) ==
    IF kind = "ok" /\ r \in Probes THEN traces
    ELSE [traces EXCEPT ![r] = Append(@, kind)]

\* Mutated form: the entry stays until the response has ended.
UnregisterBug(r) == IF answer[r] = "none" THEN entry ELSE entry \ {r}

Unregister(r) == entry \ {r}

EndAnswer(r) == answer' = [answer EXCEPT ![r] = "ended"]

\* upRes "end".  It does not look at `finished`.
ResponseEnd(r) ==
    /\ finished' = finished \union {r}
    /\ traces' = Traced(r, Marker(r, "ok"))
    /\ entry' = Unregister(r)
    /\ EndAnswer(r)

\* Mutated form: the path records again what another one has recorded.
SettleBug(r) ==
    /\ finished' = finished \union {r}
    /\ traces' = Traced(r, Marker(r, "error"))

\* An error path records unless another path has finished the request.
Settle(r) ==
    IF r \in finished THEN UNCHANGED <<finished, traces>>
    ELSE /\ finished' = finished \union {r}
         /\ traces' = Traced(r, Marker(r, "error"))

-----------------------------------------------------------------------------
(* The upstream *)

\* What Node emits, in this order, once the socket of r is dead: the error of
\* the request, and for a response under way its abort or, if all of it is
\* already in the buffers, its end.
Aftermath(r) ==
    IF Open(r) THEN {"req error"} \union {e \in {"res error"} : upstream[r] = "streaming"}
                                  \union {e \in {"end"} : upstream[r] = "buffered"}
    ELSE events[r]

\* The upstream requests of S are destroyed (those still open).
Destroy(S) ==
    /\ upstream' = [r \in Reqs |-> IF r \in S /\ Open(r) THEN "closed" ELSE upstream[r]]
    /\ events' = [r \in Reqs |-> IF r \in S THEN Aftermath(r) ELSE events[r]]
    /\ outrun' = outrun \union {r \in S : upstream[r] = "buffered"}

Responds(r) ==
    /\ upstream[r] = "waiting"
    /\ upstream' = [upstream EXCEPT ![r] = "streaming"]
    /\ answer' = [answer EXCEPT ![r] = "head"]
    /\ UNCHANGED <<registry, events, outrun, here, finished, traces>>

\* The last byte is here, the client has not read all of it.
LastByte(r) ==
    /\ r \in Slow \cap here /\ upstream[r] = "streaming"
    /\ upstream' = [upstream EXCEPT ![r] = "buffered"]
    /\ UNCHANGED <<registry, events, outrun, client, finished, traces>>

Ends(r) ==
    /\ upstream[r] \in {"streaming", "buffered"}
    /\ upstream' = [upstream EXCEPT ![r] = "closed"]
    /\ ResponseEnd(r)
    /\ UNCHANGED <<by, events, outrun, here>>

\* The engine resets the connection, or closes it in the middle of a response.
Breaks(r) ==
    /\ Open(r)
    /\ \/ Destroy({r})
       \/ /\ upstream[r] = "streaming"
          /\ upstream' = [upstream EXCEPT ![r] = "closed"]
          /\ events' = [events EXCEPT ![r] = {"res error"}]
          /\ UNCHANGED outrun
    /\ UNCHANGED <<registry, client, finished, traces>>

\* 600 s without a byte from upstream
IdleTimeout(r) ==
    /\ Open(r)
    /\ Destroy({r})
    /\ UNCHANGED <<registry, client, finished, traces>>

Taken(r, e) ==
    /\ e \in events[r] /\ (e # "req error" => "req error" \notin events[r])
    /\ events' = [events EXCEPT ![r] = @ \ {e}]

\* finishError: 502 unless the head of the response is out.
OnRequestError(r) ==
    /\ Taken(r, "req error")
    /\ Settle(r)
    /\ entry' = IF r \in finished THEN entry ELSE Unregister(r)
    /\ answer' = IF r \notin finished /\ answer[r] = "none"
                 THEN [answer EXCEPT ![r] = "502"] ELSE answer
    /\ UNCHANGED <<by, upstream, outrun, here>>

OnResponseError(r) ==
    /\ Taken(r, "res error")
    /\ Settle(r)
    /\ entry' = Unregister(r)
    /\ EndAnswer(r)
    /\ UNCHANGED <<by, upstream, outrun, here>>

OnLateEnd(r) ==
    /\ Taken(r, "end")
    /\ ResponseEnd(r)
    /\ UNCHANGED <<by, upstream, outrun, here>>

-----------------------------------------------------------------------------
(* Cancellation *)

\* cancel of each of S that is in the registry and not cancelled yet
Cancel(S, reason) ==
    LET C == {r \in S \cap entry : by[r] = "nobody"} IN
    /\ by' = [r \in Reqs |-> IF r \in C THEN reason ELSE by[r]]
    /\ Destroy(C)

\* DELETE /api/llm/inflight/:id
CancelOne(r) ==
    /\ r \in entry
    /\ Cancel({r}, "user")
    /\ UNCHANGED <<entry, client, finished, traces>>

\* POST /api/llm/stop-all; a flush does so for one client's requests.
StopAll ==
    /\ entry # {}
    /\ Cancel(Reqs, "stop-all")
    /\ UNCHANGED <<entry, client, finished, traces>>

\* Mutated form: the engine is left to finish.
LeaveBug(r) == UNCHANGED <<by, wire>>

Leave(r) ==
    IF r \in finished THEN UNCHANGED <<by, wire>> ELSE Cancel({r}, "client disconnect")

\* res "close" of a dispatched request
ClientGone(r) ==
    /\ r \in here /\ upstream[r] # "none"
    /\ here' = here \ {r}
    /\ Leave(r)
    /\ UNCHANGED <<entry, answer, finished, traces>>

-----------------------------------------------------------------------------
Next ==
    \/ \E r \in Reqs :
          \/ Refuse(r) \/ Dispatch(r) \/ DispatchThrows(r)
          \/ Responds(r) \/ LastByte(r) \/ Ends(r) \/ Breaks(r) \/ IdleTimeout(r)
          \/ OnRequestError(r) \/ OnResponseError(r) \/ OnLateEnd(r)
          \/ CancelOne(r) \/ ClientGone(r)
    \/ StopAll

Spec == Init /\ [][Next]_vars

\* Node emits what it owes, and the idle timer fires on a silent upstream.  An
\* engine that sends bytes for ever is left out: nothing ends its request.
Fairness ==
    \A r \in Reqs :
        /\ WF_vars(IdleTimeout(r))
        /\ WF_vars(OnRequestError(r)) /\ WF_vars(OnResponseError(r)) /\ WF_vars(OnLateEnd(r))

FairSpec == Spec /\ Fairness

-----------------------------------------------------------------------------
(* Properties *)

\* Every variable stays in its type.
TypeOK ==
    /\ entry \subseteq Reqs /\ finished \subseteq Reqs /\ here \subseteq Reqs
    /\ outrun \subseteq Reqs
    /\ by \in [Reqs -> Reasons \union {"nobody"}]
    /\ upstream \in [Reqs -> {"none", "waiting", "streaming", "buffered", "closed"}]
    /\ events \in [Reqs -> SUBSET {"req error", "res error", "end"}]
    /\ answer \in [Reqs -> {"none", "429", "500", "502", "head", "ended"}]
    /\ traces \in [Reqs -> Seq({"ok", "error", "cancelled"})]

\* However its end, its errors, the idle timer, a cancel and the client race, a
\* request leaves at most one trace, unless it was destroyed when its response
\* was complete.
OneTraceUnlessOutrun == \A r \in Reqs \ outrun : Len(traces[r]) <= 1

\* The first trace of a request says "cancelled" exactly if somebody cancelled
\* it before it was over: no terminal path loses the mark or invents it.
CancelIsTold ==
    \A r \in Reqs : traces[r] # <<>> => (traces[r][1] = "cancelled" <=> by[r] # "nobody")

\* The engine never works on more requests of one target than the cap allows.
CapHolds ==
    Cap > 0 => \A t \in Targets :
        Cardinality({r \in Reqs : Open(r) /\ TargetOf[r] = t}) <= Cap

\* A client that has left is not generated for: its upstream request is gone.
NobodyGeneratesForNobody == \A r \in Reqs : Open(r) => r \in here

\* A dispatched request leaves the registry and its client gets a complete
\* answer in the end, whatever dies first.
EveryRequestSettles ==
    \A r \in Reqs : Open(r) ~> (r \notin entry /\ answer[r] \in {"502", "ended"})

\* inflightRegistry.js: the registry holds the live requests.  It does not
\* hold when the dispatch throws: the entry counts for the cap for ever.
EntryIsLive == \A r \in entry : Open(r) \/ events[r] # {}
=============================================================================
