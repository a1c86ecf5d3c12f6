----------------------------- MODULE FrontProofs -----------------------------
(***************************************************************************)
(* Proofs about what the dashboard does for others: requests, deployments  *)
(* and jobs.  First the proxy (LlmProxy), for any set of requests and      *)
(* targets, any cap, any probes, failing dispatches and slow clients.      *)
(* Then which deployments a served name goes to, and what is said of one   *)
(* of them (MCLlmProxy), for any members of the name, ports, lists and     *)
(* bounds.  Then the jobs on the nodes (RemoteJobs), for any set of jobs,  *)
(* sparks and folders, any cap on the kept records and any crashes; and    *)
(* the traces and the rates that are kept beside them (MCRecords), for any *)
(* limits, calls that overtake each other, and clocks that are set back.   *)
(***************************************************************************)
EXTENDS MCLlmProxy, MCRecords, Sums, SequenceTheorems

\* A request that was never dispatched has no history; it is in the registry, and
\* may be marked there, only if its dispatch threw.
Untouched(r) ==
    upstream[r] = "none" =>
        /\ events[r] = {} /\ r \notin finished
        /\ r \in entry \/ by[r] # "nobody" => r \in Bad

\* A request the engine works on: nobody has cancelled it, nothing is pending,
\* no terminal path has run, its client is there.
Undisturbed(r) ==
    Open(r) => /\ by[r] = "nobody" /\ events[r] = {}
               /\ r \notin finished /\ r \in here

\* The first terminal path finds the entry, and with it the mark; it is the one
\* that takes the entry away.
EntryUntilFinished(r) ==
    /\ r \in finished => r \notin entry
    /\ r \notin finished => traces[r] = <<>> /\ (upstream[r] # "none" => r \in entry)

\* The error of the request comes before any other terminal path.  An end that
\* is still to come belongs to an outrun request, and that error comes, or came,
\* before it.
LateEnd(r) ==
    /\ "req error" \in events[r] => r \notin finished
    /\ "end" \in events[r] => r \in outrun /\ ("req error" \in events[r] \/ traces[r] # <<>>)

OneTrace(r) == r \notin outrun => Len(traces[r]) <= 1
Told(r)     == traces[r] # <<>> => (traces[r][1] = "cancelled" <=> by[r] # "nobody")

RInv(r) ==
    /\ Untouched(r) /\ Undisturbed(r) /\ EntryUntilFinished(r) /\ LateEnd(r)
    /\ OneTrace(r) /\ Told(r)

\* The entries of one target, live or not, are within the cap.
EntriesWithinCap ==
    Cap > 0 => \A tg \in Targets : Cardinality({r \in entry : TargetOf[r] = tg}) <= Cap

IInv == TypeOK /\ EntriesWithinCap /\ \A r \in Reqs : RInv(r)

-----------------------------------------------------------------------------
(* LlmProxy: the initial states, and what follows from the invariant *)

\* The initial states satisfy the invariant.
LEMMA InitIInv == Init => IInv
<1> SUFFICES ASSUME Init PROVE IInv
  OBVIOUS
<1>1. TypeOK
  BY DEF Init, TypeOK
<1>2. EntriesWithinCap
  <2>1. \A tg \in Targets : {r \in entry : TargetOf[r] = tg} = {}
    BY DEF Init
  <2> QED
    BY <2>1, FS_EmptySet, ProxyAssumption DEF EntriesWithinCap
<1>3. \A r \in Reqs : RInv(r)
  BY DEF Init, RInv, Untouched, Undisturbed, EntryUntilFinished, LateEnd, OneTrace, Told, Open
<1> QED BY <1>1, <1>2, <1>3 DEF IInv

\* A smaller registry is within the cap too.
LEMMA CapShrinks ==
  ASSUME EntriesWithinCap, NEW S \in SUBSET Reqs, NEW U, U \subseteq S, S = entry
  PROVE  Cap > 0 => \A tg \in Targets : Cardinality({r \in U : TargetOf[r] = tg}) <= Cap
<1> SUFFICES ASSUME Cap > 0, NEW tg \in Targets
             PROVE  Cardinality({r \in U : TargetOf[r] = tg}) <= Cap
  OBVIOUS
<1> DEFINE A == {r \in U : TargetOf[r] = tg}
           B == {r \in S : TargetOf[r] = tg}
<1>1. IsFiniteSet(B)
  BY FS_Subset, ProxyAssumption
<1>2. IsFiniteSet(A) /\ Cardinality(A) <= Cardinality(B)
  BY <1>1, FS_Subset
<1>3. Cardinality(A) \in Nat /\ Cardinality(B) \in Nat
  BY <1>1, <1>2, FS_CardinalityType
<1>4. Cardinality(B) <= Cap
  BY DEF EntriesWithinCap
<1> QED BY <1>2, <1>3, <1>4, ProxyAssumption

\* What the runs check follows from the invariant.
LEMMA IInvImplies ==
  IInv => TypeOK /\ OneTraceUnlessOutrun /\ CancelIsTold /\ CapHolds /\ NobodyGeneratesForNobody
<1> SUFFICES ASSUME IInv
             PROVE  OneTraceUnlessOutrun /\ CancelIsTold /\ CapHolds /\ NobodyGeneratesForNobody
  BY DEF IInv
<1>1. OneTraceUnlessOutrun /\ CancelIsTold
  BY DEF IInv, RInv, OneTrace, Told, OneTraceUnlessOutrun, CancelIsTold
<1>2. NobodyGeneratesForNobody
  BY DEF IInv, RInv, Undisturbed, NobodyGeneratesForNobody
<1>3. CapHolds
  <2> DEFINE U == {r \in Reqs : Open(r)}
  <2>1. U \subseteq entry /\ entry \in SUBSET Reqs
    BY DEF IInv, TypeOK, RInv, Undisturbed, EntryUntilFinished, Open
  <2>2. Cap > 0 => \A tg \in Targets : Cardinality({r \in U : TargetOf[r] = tg}) <= Cap
    BY <2>1, CapShrinks DEF IInv
  <2>3. \A tg : {r \in U : TargetOf[r] = tg} = {r \in Reqs : Open(r) /\ TargetOf[r] = tg}
    OBVIOUS
  <2> QED BY <2>2, <2>3 DEF CapHolds
<1> QED BY <1>1, <1>2, <1>3

-----------------------------------------------------------------------------
(* LlmProxy: the shapes the actions share *)

\* A request nothing happens to keeps its part of the invariant.
LEMMA Frame ==
  ASSUME NEW r \in Reqs, RInv(r),
         upstream'[r] = upstream[r], events'[r] = events[r], by'[r] = by[r],
         traces'[r] = traces[r], r \in entry' <=> r \in entry,
         r \in finished' <=> r \in finished, r \in here' <=> r \in here,
         r \in outrun' <=> r \in outrun
  PROVE  RInv(r)'
  BY DEF RInv, Untouched, Undisturbed, EntryUntilFinished, LateEnd, OneTrace, Told, Open

\* The registry only shrinks: it stays within the cap.
LEMMA CapKept == ASSUME IInv, entry' \subseteq entry PROVE EntriesWithinCap'
<1>1. entry \in SUBSET Reqs
  BY DEF IInv, TypeOK
<1> QED BY <1>1, CapShrinks DEF IInv, EntriesWithinCap

\* What recording a trace does to the traces of the request, and to no other.
LEMMA TracedFacts ==
  ASSUME TypeOK, NEW r \in Reqs, NEW k \in {"ok", "error"}, traces' = Traced(r, Marker(r, k))
  PROVE  /\ traces' \in [Reqs -> Seq({"ok", "error", "cancelled"})]
         /\ \A x \in Reqs \ {r} : traces'[x] = traces[x]
         /\ traces[r] = <<>> => Len(traces'[r]) <= 1
         /\ k = "error" => traces'[r] # <<>>
         /\ traces[r] # <<>> => traces'[r] # <<>> /\ traces'[r][1] = traces[r][1]
         /\ (traces[r] = <<>> /\ traces'[r] # <<>> /\ r \in entry /\ by[r] \in Reasons \union {"nobody"})
               => (traces'[r][1] = "cancelled" <=> by[r] # "nobody")
<1>1. traces \in [Reqs -> Seq({"ok", "error", "cancelled"})] /\ by[r] \in Reasons \union {"nobody"}
  BY DEF TypeOK
<1>2. Marker(r, k) \in {"ok", "error", "cancelled"} /\ (k = "error" => Marker(r, k) # "ok")
      /\ (r \in entry => (Marker(r, k) = "cancelled" <=> by[r] # "nobody"))
  BY DEF Marker
<1>3. CASE Marker(r, k) = "ok" /\ r \in Probes
  <2>1. traces' = traces
    BY <1>3 DEF Traced
  <2>2. traces[r] = <<>> => Len(traces[r]) = 0
    BY <1>1, EmptySeq
  <2> QED BY <1>1, <1>2, <1>3, <2>1, <2>2
<1>4. CASE ~(Marker(r, k) = "ok" /\ r \in Probes)
  <2>1. traces' = [traces EXCEPT ![r] = Append(@, Marker(r, k))]
    BY <1>4 DEF Traced
  <2>2. /\ traces' \in [Reqs -> Seq({"ok", "error", "cancelled"})]
        /\ \A x \in Reqs \ {r} : traces'[x] = traces[x]
        /\ traces'[r] = Append(traces[r], Marker(r, k))
    BY <1>1, <1>2, <2>1
  <2>3. /\ traces[r] = <<>> => Len(traces'[r]) = 1
        /\ traces'[r] # <<>>
        /\ traces[r] # <<>> => traces'[r][1] = traces[r][1]
        /\ traces[r] = <<>> => traces'[r][1] = Marker(r, k)
    BY <1>1, <1>2, <2>2
  <2> QED BY <1>2, <2>2, <2>3
<1> QED BY <1>3, <1>4

\* Destroying upstream requests that are in the registry and carry a mark from now
\* on, or have none: the shape of breaks, timeouts and cancels.
LEMMA DestroyStep ==
  ASSUME IInv, NEW S \in SUBSET Reqs, Destroy(S), UNCHANGED <<entry, finished, traces>>,
         by' \in [Reqs -> Reasons \union {"nobody"}],
         \A r \in Reqs : by'[r] # by[r] => r \in S \cap entry,
         here' \subseteq here,
         \A r \in here \ here' : ~Open(r) \/ r \in S,
         answer' = answer
  PROVE  IInv'
<1>1. /\ upstream' \in [Reqs -> {"none", "waiting", "streaming", "buffered", "closed"}]
      /\ \A r \in Reqs : upstream'[r] = IF r \in S /\ Open(r) THEN "closed" ELSE upstream[r]
  BY DEF Destroy, IInv, TypeOK, Open
<1>2. \A r \in Reqs : events'[r] = IF r \in S THEN Aftermath(r) ELSE events[r]
  BY DEF Destroy
<1>3. \A r \in Reqs : Aftermath(r) \in SUBSET {"req error", "res error", "end"}
  BY DEF Aftermath, IInv, TypeOK
<1>4. events' \in [Reqs -> SUBSET {"req error", "res error", "end"}]
  BY <1>2, <1>3 DEF Destroy, IInv, TypeOK
<1>5. outrun' = outrun \union {r \in S : upstream[r] = "buffered"}
  BY DEF Destroy
<1>6. TypeOK'
  BY <1>1, <1>4, <1>5 DEF IInv, TypeOK
<1>7. EntriesWithinCap'
  BY CapKept
<1>8. ASSUME NEW r \in Reqs PROVE RInv(r)'
  <2>1. RInv(r) /\ TypeOK
    BY DEF IInv
  <2>2. CASE r \in S /\ Open(r)
    <3>1. /\ upstream'[r] = "closed" /\ by[r] = "nobody" /\ r \notin finished
          /\ traces'[r] = <<>> /\ r \in entry'
      BY <1>1, <2>1, <2>2 DEF RInv, Undisturbed, EntryUntilFinished, Open
    <3>2. "req error" \in events'[r]
      BY <1>2, <2>2 DEF Open, Aftermath
    <3>3. "end" \in events'[r] => r \in outrun'
      <4>1. events'[r] = Aftermath(r)
        BY <1>2, <2>2
      <4>2. upstream[r] # "buffered" => "end" \notin Aftermath(r)
        BY <2>2, SMTT(20) DEF Open, Aftermath
      <4>3. upstream[r] = "buffered" => r \in outrun'
        BY <1>5, <2>2
      <4> QED BY <4>1, <4>2, <4>3
    <3>4. Untouched(r)' /\ Undisturbed(r)'
      BY <3>1 DEF Untouched, Undisturbed, Open
    <3>5. EntryUntilFinished(r)' /\ LateEnd(r)' /\ Told(r)'
      BY <3>1, <3>2, <3>3 DEF EntryUntilFinished, LateEnd, Told
    <3>6. OneTrace(r)'
      BY <3>1 DEF OneTrace
    <3> QED BY <3>4, <3>5, <3>6 DEF RInv
  <2>3. CASE r \notin S \/ ~Open(r)
    <3>1. upstream'[r] = upstream[r] /\ events'[r] = events[r]
      BY <1>1, <1>2, <2>1, <2>3 DEF Aftermath, Open
    <3>2. r \in outrun' <=> r \in outrun
      BY <1>5, <2>3 DEF Open
    <3>3. Untouched(r)' /\ EntryUntilFinished(r)' /\ LateEnd(r)' /\ OneTrace(r)'
      BY <3>1, <3>2, <2>1 DEF RInv, Untouched, EntryUntilFinished, LateEnd, OneTrace
    <3>4. Undisturbed(r)'
      BY <3>1, <2>1, <2>3 DEF RInv, Undisturbed, Open
    <3>5. Told(r)'
      BY <2>1 DEF RInv, Told, EntryUntilFinished
    <3> QED BY <3>3, <3>4, <3>5 DEF RInv
  <2> QED BY <2>2, <2>3
<1> QED BY <1>6, <1>7, <1>8 DEF IInv

\* A terminal path that finds the request unfinished: it records, with the mark of
\* the entry, and takes the entry away.
LEMMA SettleStep ==
  ASSUME IInv, NEW r \in Reqs, NEW k \in {"ok", "error"}, r \notin finished,
         upstream[r] # "none", upstream' = [upstream EXCEPT ![r] = "closed"],
         events' \in [Reqs -> SUBSET {"req error", "res error", "end"}],
         \A x \in Reqs \ {r} : events'[x] = events[x],
         events'[r] \subseteq events[r] \ {"req error"}, "end" \in events'[r] => k = "error",
         finished' = finished \union {r}, traces' = Traced(r, Marker(r, k)),
         entry' = Unregister(r), UNCHANGED <<by, here, outrun>>,
         answer' \in [Reqs -> {"none", "429", "500", "502", "head", "ended"}]
  PROVE  IInv'
<1>1. TypeOK /\ RInv(r) /\ \A x \in Reqs : RInv(x)
  BY DEF IInv
<1>2. /\ traces' \in [Reqs -> Seq({"ok", "error", "cancelled"})]
      /\ \A x \in Reqs \ {r} : traces'[x] = traces[x]
      /\ traces[r] = <<>> => Len(traces'[r]) <= 1
      /\ k = "error" => traces'[r] # <<>>
      /\ (traces[r] = <<>> /\ traces'[r] # <<>> /\ r \in entry /\ by[r] \in Reasons \union {"nobody"})
            => (traces'[r][1] = "cancelled" <=> by[r] # "nobody")
  BY <1>1, TracedFacts
<1>3. r \in entry /\ traces[r] = <<>> /\ by[r] \in Reasons \union {"nobody"}
  BY <1>1 DEF RInv, EntryUntilFinished, TypeOK
<1>4. entry' = entry \ {r}
  BY DEF Unregister
<1>5. TypeOK'
  BY <1>1, <1>2, <1>4 DEF TypeOK
<1>6. EntriesWithinCap'
  BY <1>4, CapKept
<1>7. \A x \in Reqs \ {r} : RInv(x)'
  <2>1. \A x \in Reqs \ {r} : upstream'[x] = upstream[x]
    BY <1>1 DEF TypeOK
  <2> QED BY <1>1, <1>2, <1>4, <2>1, Frame
<1>8. RInv(r)'
  <2>1. upstream'[r] = "closed" /\ r \in finished' /\ r \notin entry'
    BY <1>1, <1>4 DEF TypeOK
  <2>2. Untouched(r)' /\ Undisturbed(r)' /\ EntryUntilFinished(r)'
    BY <2>1 DEF Untouched, Undisturbed, EntryUntilFinished, Open
  <2>3. LateEnd(r)'
    BY <1>1, <1>2 DEF RInv, LateEnd
  <2>4. OneTrace(r)'
    BY <1>2, <1>3 DEF OneTrace
  <2>5. Told(r)'
    BY <1>2, <1>3 DEF Told
  <2> QED BY <2>2, <2>3, <2>4, <2>5 DEF RInv
<1> QED BY <1>5, <1>6, <1>7, <1>8 DEF IInv

\* A terminal path that comes after another one: an error adds nothing, an end adds
\* a trace to those of an outrun request.
LEMMA AfterSettledStep ==
  ASSUME IInv, NEW r \in Reqs, r \in finished,
         events' \in [Reqs -> SUBSET {"req error", "res error", "end"}],
         \A x \in Reqs \ {r} : events'[x] = events[x],
         events'[r] \subseteq events[r] \ {"req error"},
         \/ UNCHANGED traces /\ ("end" \in events'[r] => traces[r] # <<>>)
         \/ traces' = Traced(r, Marker(r, "ok")) /\ r \in outrun /\ traces[r] # <<>>,
         finished' = finished, entry' = entry, UNCHANGED <<by, here, outrun, upstream>>,
         answer' \in [Reqs -> {"none", "429", "500", "502", "head", "ended"}]
  PROVE  IInv'
<1>1. TypeOK /\ RInv(r) /\ \A x \in Reqs : RInv(x)
  BY DEF IInv
<1>2. /\ traces' \in [Reqs -> Seq({"ok", "error", "cancelled"})]
      /\ \A x \in Reqs \ {r} : traces'[x] = traces[x]
      /\ traces[r] # <<>> => traces'[r] # <<>> /\ traces'[r][1] = traces[r][1]
      /\ traces[r] = <<>> => traces'[r] = <<>>
      /\ r \notin outrun => traces'[r] = traces[r]
  <2>1. CASE UNCHANGED traces
    BY <2>1, <1>1 DEF TypeOK
  <2>2. CASE traces' = Traced(r, Marker(r, "ok")) /\ r \in outrun /\ traces[r] # <<>>
    BY <2>2, <1>1, TracedFacts
  <2> QED BY <2>1, <2>2
<1>3. TypeOK'
  BY <1>1, <1>2 DEF TypeOK
<1>4. EntriesWithinCap'
  BY CapKept
<1>5. \A x \in Reqs \ {r} : RInv(x)'
  BY <1>1, <1>2, Frame
<1>6. RInv(r)'
  <2>1. Untouched(r)' /\ Undisturbed(r)' /\ EntryUntilFinished(r)'
    BY <1>1 DEF RInv, Untouched, Undisturbed, EntryUntilFinished, Open
  <2>2. LateEnd(r)'
    BY <1>1, <1>2 DEF RInv, LateEnd
  <2>3. OneTrace(r)' /\ Told(r)'
    BY <1>1, <1>2 DEF RInv, OneTrace, Told
  <2> QED BY <2>1, <2>2, <2>3 DEF RInv
<1> QED BY <1>3, <1>4, <1>5, <1>6 DEF IInv

-----------------------------------------------------------------------------
(* LlmProxy: the actions *)

\* A refused request leaves the registry as it was.
LEMMA RefuseStep == ASSUME IInv, NEW r \in Reqs, Refuse(r) PROVE IInv'
<1>1. UNCHANGED <<entry, by, upstream, events, outrun, here, finished, traces>>
  BY DEF Refuse, registry, wire
<1>2. TypeOK'
  BY <1>1 DEF Refuse, IInv, TypeOK
<1>3. EntriesWithinCap'
  BY <1>1, CapKept
<1>4. \A x \in Reqs : RInv(x)'
  BY <1>1, Frame DEF IInv
<1> QED BY <1>2, <1>3, <1>4 DEF IInv

\* A request that is registered under the cap keeps its target within it.
LEMMA AdmittedWithinCap ==
  ASSUME IInv, NEW r \in Reqs, ~OverCap(r), entry' = entry \union {r}
  PROVE  EntriesWithinCap'
<1> SUFFICES ASSUME Cap > 0, NEW tg \in Targets
             PROVE  Cardinality({x \in entry' : TargetOf[x] = tg}) <= Cap
  BY DEF EntriesWithinCap
<1>1. CASE tg = TargetOf[r]
  <2>1. Cardinality({x \in entry \union {r} : TargetOf[x] = tg}) \in Nat
    <3>1. {x \in entry \union {r} : TargetOf[x] = tg} \subseteq Reqs
      BY DEF IInv, TypeOK
    <3> QED BY <3>1, ProxyAssumption, FS_Subset, FS_CardinalityType
  <2> QED BY <1>1, <2>1, ProxyAssumption DEF OverCap
<1>2. CASE tg # TargetOf[r]
  <2>1. {x \in entry' : TargetOf[x] = tg} = {x \in entry : TargetOf[x] = tg}
    BY <1>2
  <2> QED BY <2>1 DEF IInv, EntriesWithinCap
<1> QED BY <1>1, <1>2

\* A dispatched request is in the registry, unmarked, and works for its client.
LEMMA DispatchStep == ASSUME IInv, NEW r \in Reqs, Dispatch(r) PROVE IInv'
<1>1. /\ UNCHANGED <<by, events, outrun, answer, here, finished, traces>>
      /\ entry' = entry \union {r} /\ r \in here /\ upstream[r] = "none"
      /\ upstream' = [upstream EXCEPT ![r] = "waiting"]
  BY DEF Dispatch, Registered, Arriving, client
<1>2. TypeOK /\ \A x \in Reqs : RInv(x)
  BY DEF IInv
<1>3. TypeOK'
  BY <1>1, <1>2 DEF TypeOK
<1>4. EntriesWithinCap'
  BY <1>1, AdmittedWithinCap DEF Dispatch, Registered
<1>5. \A x \in Reqs \ {r} : RInv(x)'
  BY <1>1, <1>2, Frame DEF TypeOK
<1>6. RInv(r)'
  <2>1. upstream'[r] = "waiting" /\ r \in entry' /\ r \notin finished /\ events[r] = {}
    BY <1>1, <1>2 DEF TypeOK, RInv, Untouched
  <2>2. RInv(r)
    BY <1>2
  <2>3. Untouched(r)' /\ EntryUntilFinished(r)' /\ LateEnd(r)' /\ OneTrace(r)' /\ Told(r)'
    BY <1>1, <2>1, <2>2 DEF RInv, Untouched, EntryUntilFinished, LateEnd, OneTrace, Told
  <2>4. by[r] = "nobody"
    BY <1>1, <2>2 DEF RInv, Untouched, Dispatch, Registered
  <2>5. Undisturbed(r)'
    BY <1>1, <2>1, <2>4 DEF Undisturbed
  <2> QED BY <2>3, <2>5 DEF RInv
<1> QED BY <1>3, <1>4, <1>5, <1>6 DEF IInv

\* A dispatch that throws leaves its entry behind, within the cap.
LEMMA DispatchThrowsStep == ASSUME IInv, NEW r \in Reqs, DispatchThrows(r) PROVE IInv'
<1>1. /\ UNCHANGED <<by, upstream, events, outrun, here, finished, traces>>
      /\ entry' = entry \union {r} /\ upstream[r] = "none" /\ r \in Bad
  BY DEF DispatchThrows, Registered, Arriving, wire
<1>2. TypeOK /\ \A x \in Reqs : RInv(x)
  BY DEF IInv
<1>3. TypeOK'
  BY <1>1, <1>2 DEF TypeOK, DispatchThrows, Registered
<1>4. EntriesWithinCap'
  BY <1>1, AdmittedWithinCap DEF DispatchThrows, Registered
<1>5. \A x \in Reqs \ {r} : RInv(x)'
  BY <1>1, <1>2, Frame
<1>6. RInv(r)'
  BY <1>1, <1>2 DEF RInv, Untouched, Undisturbed, EntryUntilFinished, LateEnd, OneTrace, Told, Open
<1> QED BY <1>3, <1>4, <1>5, <1>6 DEF IInv

\* The upstream request moves on while it is open.
LEMMA ProgressStep ==
  ASSUME IInv, NEW r \in Reqs, Responds(r) \/ LastByte(r)
  PROVE  IInv'
<1>1. /\ UNCHANGED <<entry, by, events, outrun, here, finished, traces>>
      /\ Open(r) /\ \E u \in {"streaming", "buffered"} : upstream' = [upstream EXCEPT ![r] = u]
      /\ answer' = answer \/ answer' = [answer EXCEPT ![r] = "head"]
  BY DEF Responds, LastByte, registry, client, Open
<1>2. TypeOK /\ \A x \in Reqs : RInv(x)
  BY DEF IInv
<1>3. TypeOK'
  <2>1. /\ upstream' \in [Reqs -> {"none", "waiting", "streaming", "buffered", "closed"}]
        /\ answer' \in [Reqs -> {"none", "429", "500", "502", "head", "ended"}]
    <3>1. PICK u \in {"streaming", "buffered"} : upstream' = [upstream EXCEPT ![r] = u]
      BY <1>1
    <3>2. /\ upstream \in [Reqs -> {"none", "waiting", "streaming", "buffered", "closed"}]
          /\ answer \in [Reqs -> {"none", "429", "500", "502", "head", "ended"}]
      BY <1>2 DEF TypeOK
    <3>3. upstream' \in [Reqs -> {"none", "waiting", "streaming", "buffered", "closed"}]
      BY <3>1, <3>2
    <3>4. answer' \in [Reqs -> {"none", "429", "500", "502", "head", "ended"}]
      BY <1>1, <3>2
    <3> QED BY <3>3, <3>4
  <2> QED BY <1>1, <1>2, <2>1 DEF TypeOK
<1>4. EntriesWithinCap'
  BY <1>1, CapKept
<1>5. \A x \in Reqs \ {r} : RInv(x)'
  BY <1>1, <1>2, Frame DEF TypeOK
<1>6. Open(r)' /\ upstream'[r] # "none"
  BY <1>1, <1>2 DEF TypeOK, Open
<1>7. RInv(r)'
  BY <1>1, <1>2, <1>6 DEF RInv, Untouched, Undisturbed, EntryUntilFinished, LateEnd, OneTrace, Told, Open
<1> QED BY <1>3, <1>4, <1>5, <1>7 DEF IInv

\* The response ends.
LEMMA EndsStep == ASSUME IInv, NEW r \in Reqs, Ends(r) PROVE IInv'
<1>1. /\ TypeOK /\ RInv(r) /\ r \notin finished /\ events[r] = {} /\ upstream[r] # "none"
  BY DEF IInv, RInv, Undisturbed, Ends, Open
<1>2. /\ upstream' = [upstream EXCEPT ![r] = "closed"] /\ UNCHANGED <<by, here, outrun, events>>
      /\ finished' = finished \union {r} /\ traces' = Traced(r, Marker(r, "ok"))
      /\ entry' = Unregister(r) /\ answer' = [answer EXCEPT ![r] = "ended"]
  BY DEF Ends, ResponseEnd, EndAnswer
<1>3. answer' \in [Reqs -> {"none", "429", "500", "502", "head", "ended"}]
  BY <1>1, <1>2 DEF TypeOK
<1>4. events' \in [Reqs -> SUBSET {"req error", "res error", "end"}]
  BY <1>1, <1>2 DEF TypeOK
<1> QED BY <1>1, <1>2, <1>3, <1>4, SettleStep

\* What is left to emit when one event of r has been taken.
LEMMA TakenFacts ==
  ASSUME IInv, NEW r \in Reqs, NEW e \in {"req error", "res error", "end"}, Taken(r, e)
  PROVE  /\ events' \in [Reqs -> SUBSET {"req error", "res error", "end"}]
         /\ \A x \in Reqs \ {r} : events'[x] = events[x]
         /\ events'[r] = events[r] \ {e} /\ events'[r] \subseteq events[r] \ {"req error"}
         /\ e \in events[r] /\ upstream[r] # "none" /\ ~Open(r)
<1>1. events \in [Reqs -> SUBSET {"req error", "res error", "end"}] /\ RInv(r)
  BY DEF IInv, TypeOK
<1>2. events' = [events EXCEPT ![r] = @ \ {e}] /\ e \in events[r]
      /\ (e # "req error" => "req error" \notin events[r])
  BY DEF Taken
<1>3. upstream[r] # "none" /\ ~Open(r)
  BY <1>1, <1>2 DEF RInv, Untouched, Undisturbed
<1> QED BY <1>1, <1>2, <1>3

\* The error of the request comes first, and settles it.
LEMMA OnRequestErrorStep == ASSUME IInv, NEW r \in Reqs, OnRequestError(r) PROVE IInv'
<1>1. TypeOK /\ RInv(r) /\ Taken(r, "req error")
  BY DEF IInv, OnRequestError
<1>2. r \notin finished
  BY <1>1 DEF RInv, LateEnd, Taken
<1>3. /\ UNCHANGED <<by, here, outrun, upstream>> /\ entry' = Unregister(r)
      /\ finished' = finished \union {r} /\ traces' = Traced(r, Marker(r, "error"))
      /\ answer' = answer \/ answer' = [answer EXCEPT ![r] = "502"]
  BY <1>2 DEF OnRequestError, Settle
<1>4. answer' \in [Reqs -> {"none", "429", "500", "502", "head", "ended"}]
  BY <1>1, <1>3 DEF TypeOK
<1>5. upstream' = [upstream EXCEPT ![r] = "closed"]
  <2>1. upstream[r] = "closed"
    BY <1>1, TakenFacts DEF TypeOK, Open
  <2> QED BY <1>1, <1>3, <2>1 DEF TypeOK
<1> QED BY <1>1, <1>2, <1>3, <1>4, <1>5, TakenFacts, SettleStep

\* The error of the response settles the request, or comes after its settling.
LEMMA OnResponseErrorStep == ASSUME IInv, NEW r \in Reqs, OnResponseError(r) PROVE IInv'
<1>1. TypeOK /\ RInv(r) /\ Taken(r, "res error")
  BY DEF IInv, OnResponseError
<1>2. /\ UNCHANGED <<by, here, outrun, upstream>> /\ entry' = Unregister(r) /\ Settle(r)
      /\ answer' = [answer EXCEPT ![r] = "ended"]
  BY DEF OnResponseError, EndAnswer
<1>3. answer' \in [Reqs -> {"none", "429", "500", "502", "head", "ended"}]
  BY <1>1, <1>2 DEF TypeOK
<1>4. CASE r \notin finished
  <2>1. upstream' = [upstream EXCEPT ![r] = "closed"]
    <3>1. upstream[r] = "closed"
      BY <1>1, TakenFacts DEF TypeOK, Open
    <3> QED BY <1>1, <1>2, <3>1 DEF TypeOK
  <2>2. finished' = finished \union {r} /\ traces' = Traced(r, Marker(r, "error"))
    BY <1>2, <1>4 DEF Settle
  <2> QED BY <1>1, <1>2, <1>3, <1>4, <2>1, <2>2, TakenFacts, SettleStep
<1>5. CASE r \in finished
  <2>1. UNCHANGED <<finished, traces>> /\ entry' = entry
    BY <1>1, <1>2, <1>5 DEF Settle, Unregister, RInv, EntryUntilFinished
  <2>2. "end" \in events'[r] => traces[r] # <<>>
    BY <1>1, TakenFacts DEF RInv, LateEnd, Taken
  <2> QED BY <1>1, <1>2, <1>3, <1>5, <2>1, <2>2, TakenFacts, AfterSettledStep
<1> QED BY <1>4, <1>5

\* The end of an outrun response comes after the settling, and adds a trace.
LEMMA OnLateEndStep == ASSUME IInv, NEW r \in Reqs, OnLateEnd(r) PROVE IInv'
<1>1. TypeOK /\ RInv(r) /\ Taken(r, "end")
  BY DEF IInv, OnLateEnd
<1>2. r \in outrun /\ traces[r] # <<>> /\ r \in finished /\ r \notin entry
  BY <1>1 DEF RInv, LateEnd, EntryUntilFinished, Taken
<1>3. /\ UNCHANGED <<by, here, outrun, upstream>> /\ finished' = finished /\ entry' = entry
      /\ traces' = Traced(r, Marker(r, "ok")) /\ answer' = [answer EXCEPT ![r] = "ended"]
  BY <1>2 DEF OnLateEnd, ResponseEnd, EndAnswer, Unregister
<1>4. answer' \in [Reqs -> {"none", "429", "500", "502", "head", "ended"}]
  BY <1>1, <1>3 DEF TypeOK
<1> QED BY <1>1, <1>2, <1>3, <1>4, TakenFacts, AfterSettledStep

\* The idle timer destroys the upstream request; the engine breaks it, or closes it in
\* the middle of a response.
LEMMA DiesStep == ASSUME IInv, NEW r \in Reqs, Breaks(r) \/ IdleTimeout(r) PROVE IInv'
<1>1. /\ UNCHANGED <<entry, by, answer, here, finished, traces>> /\ Open(r)
      /\ \/ Destroy({r})
         \/ /\ upstream' = [upstream EXCEPT ![r] = "closed"] /\ UNCHANGED outrun
            /\ events' = [events EXCEPT ![r] = {"res error"}]
  BY DEF Breaks, IdleTimeout, registry, client
<1>2. TypeOK /\ \A x \in Reqs : RInv(x)
  BY DEF IInv
<1>3. CASE Destroy({r})
  BY <1>1, <1>2, <1>3, DestroyStep DEF TypeOK
<1>4. CASE /\ upstream' = [upstream EXCEPT ![r] = "closed"] /\ UNCHANGED outrun
           /\ events' = [events EXCEPT ![r] = {"res error"}]
  <2>1. TypeOK'
    BY <1>1, <1>2, <1>4 DEF TypeOK
  <2>2. EntriesWithinCap'
    BY <1>1, CapKept
  <2>3. \A x \in Reqs \ {r} : RInv(x)'
    BY <1>1, <1>2, <1>4, Frame DEF TypeOK
  <2>4. upstream'[r] = "closed" /\ events'[r] = {"res error"}
    BY <1>2, <1>4 DEF TypeOK
  <2>5. RInv(r)'
    BY <1>1, <1>2, <2>4, <1>4
       DEF RInv, Untouched, Undisturbed, EntryUntilFinished, LateEnd, OneTrace, Told, Open
  <2> QED BY <2>1, <2>2, <2>3, <2>5 DEF IInv
<1> QED BY <1>1, <1>3, <1>4

\* A cancel marks entries and destroys their upstream requests.
LEMMA CancelStep ==
  ASSUME IInv, NEW S \in SUBSET Reqs, NEW reason \in Reasons, Cancel(S, reason),
         UNCHANGED <<entry, answer, finished, traces>>,
         here' \subseteq here, \A r \in here \ here' : Open(r) => r \in S
  PROVE  IInv'
<1>1. TypeOK /\ \A x \in Reqs : RInv(x)
  BY DEF IInv
<1> DEFINE C == {r \in S \cap entry : by[r] = "nobody"}
<1>2. /\ by' = [r \in Reqs |-> IF r \in C THEN reason ELSE by[r]]
      /\ Destroy(C)
  BY DEF Cancel
<1>3. by' \in [Reqs -> Reasons \union {"nobody"}]
  BY <1>1, <1>2 DEF TypeOK
<1>4. \A r \in Reqs : by'[r] # by[r] => r \in C \cap entry
  BY <1>2
<1>5. \A r \in here \ here' : ~Open(r) \/ r \in C
  BY <1>1 DEF TypeOK, RInv, Undisturbed, EntryUntilFinished, Open
<1>6. C \in SUBSET Reqs
  OBVIOUS
<1> HIDE DEF C
<1> QED BY <1>2, <1>3, <1>4, <1>5, <1>6, DestroyStep

\* An operator cancels one request.
LEMMA CancelOneStep == ASSUME IInv, NEW r \in Reqs, CancelOne(r) PROVE IInv'
<1>1. Cancel({r}, "user") /\ UNCHANGED <<entry, answer, here, finished, traces>>
  BY DEF CancelOne, client
<1> QED BY <1>1, CancelStep DEF Reasons

\* An operator cancels all requests.
LEMMA StopAllStep == ASSUME IInv, StopAll PROVE IInv'
<1>1. Cancel(Reqs, "stop-all") /\ UNCHANGED <<entry, answer, here, finished, traces>>
  BY DEF StopAll, client
<1> QED BY <1>1, CancelStep DEF Reasons

\* A client that leaves takes its upstream request with it.
LEMMA ClientGoneStep == ASSUME IInv, NEW r \in Reqs, ClientGone(r) PROVE IInv'
<1>1. UNCHANGED <<entry, answer, finished, traces>> /\ here' = here \ {r} /\ Leave(r)
  BY DEF ClientGone
<1>2. TypeOK /\ \A x \in Reqs : RInv(x)
  BY DEF IInv
<1>3. CASE r \notin finished
  <2>1. Cancel({r}, "client disconnect")
    BY <1>1, <1>3 DEF Leave
  <2> QED BY <1>1, <2>1, CancelStep DEF Reasons
<1>4. CASE r \in finished
  <2>1. UNCHANGED <<by, upstream, events, outrun>>
    BY <1>1, <1>4 DEF Leave, wire
  <2>2. TypeOK'
    BY <1>1, <1>2, <2>1 DEF TypeOK
  <2>3. EntriesWithinCap'
    BY <1>1, CapKept
  <2>4. \A x \in Reqs \ {r} : RInv(x)'
    BY <1>1, <1>2, <2>1, Frame
  <2>5. RInv(r)'
    BY <1>1, <1>2, <1>4, <2>1
       DEF RInv, Untouched, Undisturbed, EntryUntilFinished, LateEnd, OneTrace, Told, Open
  <2> QED BY <2>2, <2>3, <2>4, <2>5 DEF IInv
<1> QED BY <1>3, <1>4

\* Every step preserves the invariant.
LEMMA NextStep == IInv /\ [Next]_vars => IInv'
<1> SUFFICES ASSUME IInv, [Next]_vars PROVE IInv'
  OBVIOUS
<1>1. ASSUME NEW r \in Reqs,
             \/ Refuse(r) \/ Dispatch(r) \/ DispatchThrows(r)
             \/ Responds(r) \/ LastByte(r) \/ Ends(r) \/ Breaks(r) \/ IdleTimeout(r)
             \/ OnRequestError(r) \/ OnResponseError(r) \/ OnLateEnd(r)
             \/ CancelOne(r) \/ ClientGone(r)
      PROVE  IInv'
  BY <1>1, RefuseStep, DispatchStep, DispatchThrowsStep, ProgressStep, EndsStep, DiesStep,
     OnRequestErrorStep, OnResponseErrorStep, OnLateEndStep, CancelOneStep, ClientGoneStep
<1>2. CASE StopAll
  BY <1>2, StopAllStep
<1>3. CASE UNCHANGED vars
  <2>1. UNCHANGED <<entry, by, upstream, events, outrun, answer, here, finished, traces>>
    BY <1>3 DEF vars, registry, wire, client
  <2>2. TypeOK' /\ EntriesWithinCap'
    BY <2>1, CapKept DEF IInv, TypeOK
  <2> QED BY <2>1, <2>2, Frame DEF IInv
<1> QED BY <1>1, <1>2, <1>3 DEF Next

-----------------------------------------------------------------------------
(* LlmProxy: the theorems *)

\* The inductive invariant holds in every reachable state, for any parameters.
THEOREM Invariance == Spec => []IInv
  BY InitIInv, NextStep, PTL DEF Spec

\* Every variable of the proxy stays in its type.
THEOREM TypeCorrect == Spec => []TypeOK
  BY Invariance, IInvImplies, PTL

\* Whatever terminal paths race, a request leaves at most one trace, unless it was
\* destroyed when its response was complete.
THEOREM TracesOnce == Spec => []OneTraceUnlessOutrun
  BY Invariance, IInvImplies, PTL

\* The first trace of a request says "cancelled" exactly if somebody cancelled it.
THEOREM CancelsAreTold == Spec => []CancelIsTold
  BY Invariance, IInvImplies, PTL

\* The engine never works on more requests of one target than the cap allows,
\* although entries of failed dispatches stay in the registry.
THEOREM CapIsKept == Spec => []CapHolds
  BY Invariance, IInvImplies, PTL

\* No upstream request outlives its client.
THEOREM NoGenerationWithoutClient == Spec => []NobodyGeneratesForNobody
  BY Invariance, IInvImplies, PTL

-----------------------------------------------------------------------------
(* ClusterGateway: the order of the pool *)

Size == Len(Members)

\* The beginnings of InOrder(S), by the number of members looked at.
IsFirst(f, S, n) ==
    f = [i \in 0..n |->
            IF i = 0 THEN <<>>
            ELSE IF Members[i] \in S THEN Append(f[i - 1], Members[i]) ELSE f[i - 1]]

First(S) == CHOOSE f : IsFirst(f, S, Size)

LEMMA MembersAre ==
  /\ Members \in Seq(All) /\ Size \in Nat
  /\ \A i \in 1..Size : Members[i] \in All
  /\ \A i, j \in 1..Size : Members[i] = Members[j] => i = j
  /\ \A m \in All : \E i \in 1..Size : Members[i] = m
<1>1. Members \in Seq(All) /\ IsInjective(Members)
  BY GatewayAssumption DEF All
<1>2. Size \in Nat /\ DOMAIN Members = 1..Size
  BY <1>1 DEF Size
<1>3. \A m \in All : \E i \in 1..Size : Members[i] = m
  BY <1>2 DEF All, ToSet
<1> QED
  BY <1>1, <1>2, <1>3 DEF IsInjective

\* The recursion has a solution.
LEMMA FirstIs == ASSUME NEW S PROVE InOrder(S) = First(S)[Size] /\ IsFirst(First(S), S, Size)
<1> DEFINE good == {n \in Nat : \E f : IsFirst(f, S, n)}
<1>1. 0 \in good
  <2> DEFINE f == [i \in 0..0 |-> <<>>]
  <2>1. IsFirst(f, S, 0)
    BY DEF IsFirst
  <2> QED
    BY <2>1
<1>2. ASSUME NEW n \in Nat, n \in good PROVE n + 1 \in good
  <2>1. PICK f : IsFirst(f, S, n)
    BY <1>2
  <2> DEFINE next == IF Members[n + 1] \in S THEN Append(f[n], Members[n + 1]) ELSE f[n]
             g == [i \in 0..(n + 1) |-> IF i = n + 1 THEN next ELSE f[i]]
  <2> HIDE DEF next
  <2>2. \A i \in 0..n : f[i] = IF i = 0 THEN <<>>
                               ELSE IF Members[i] \in S THEN Append(f[i - 1], Members[i]) ELSE f[i - 1]
    BY <2>1 DEF IsFirst
  <2>3. g[n + 1] = next /\ \A i \in 0..n : g[i] = f[i]
    OBVIOUS
  <2>4. ASSUME NEW i \in 0..(n + 1)
        PROVE  g[i] = IF i = 0 THEN <<>>
                      ELSE IF Members[i] \in S THEN Append(g[i - 1], Members[i]) ELSE g[i - 1]
    <3> HIDE DEF g
    <3>1. CASE i = n + 1
      BY <2>3, <3>1 DEF next
    <3>2. CASE i \in 0..n /\ i # 0
      <4>1. i - 1 \in 0..n
        BY <3>2
      <4> QED
        BY <2>2, <2>3, <3>2, <4>1
    <3>3. CASE i = 0
      BY <2>2, <2>3, <3>3
    <3> QED
      BY <3>1, <3>2, <3>3
  <2>5. g = [i \in 0..(n + 1) |-> g[i]]
    OBVIOUS
  <2>6. IsFirst(g, S, n + 1)
    <3> HIDE DEF g
    <3> QED
      BY <2>4, <2>5 DEF IsFirst
  <2> QED
    BY <2>6
<1> HIDE DEF good
<1>3. Size \in good
  BY <1>1, <1>2, Induction, MembersAre
<1>4. \E f : IsFirst(f, S, Size)
  BY <1>3 DEF good
<1> QED
  BY <1>4 DEF First, InOrder, IsFirst, Size

\* InOrder lists S, each of its members once.
LEMMA InOrderIs ==
  ASSUME NEW S, S \subseteq All
  PROVE  /\ InOrder(S) \in Seq(S) /\ Len(InOrder(S)) <= Size
         /\ \A i, j \in 1..Len(InOrder(S)) : InOrder(S)[i] = InOrder(S)[j] => i = j
         /\ \A m \in S : \E i \in 1..Len(InOrder(S)) : InOrder(S)[i] = m
<1> DEFINE f == First(S)
           Found(n) == /\ f[n] \in Seq(S) /\ Len(f[n]) <= n
                       /\ \A j \in 1..Len(f[n]) : \E i \in 1..n : f[n][j] = Members[i]
                       /\ \A i, j \in 1..Len(f[n]) : f[n][i] = f[n][j] => i = j
                       /\ \A i \in 1..n : Members[i] \in S => \E j \in 1..Len(f[n]) : f[n][j] = Members[i]
           good == {n \in Nat : n <= Size => Found(n)}
<1>1. \A i \in 0..Size : f[i] = IF i = 0 THEN <<>>
                                ELSE IF Members[i] \in S THEN Append(f[i - 1], Members[i]) ELSE f[i - 1]
  <2>1. IsFirst(f, S, Size)
    BY FirstIs
  <2> HIDE DEF f
  <2> QED
    BY <2>1, MembersAre DEF IsFirst
<1> HIDE DEF f
<1>2. 0 \in good
  <2>1. f[0] = <<>>
    BY <1>1, MembersAre
  <2>2. f[0] \in Seq(S) /\ Len(f[0]) = 0
    BY <2>1, EmptySeq
  <2> QED
    BY <2>2
<1>3. ASSUME NEW n \in Nat, n \in good PROVE n + 1 \in good
  <2> SUFFICES ASSUME n + 1 <= Size PROVE Found(n + 1)
    OBVIOUS
  <2>1. Found(n) /\ n + 1 \in 1..Size /\ n + 1 \in 0..Size /\ n \in 1..Size \cup {0}
    BY <1>3, MembersAre
  <2>2. CASE Members[n + 1] \notin S
    <3>1. f[n + 1] = f[n]
      BY <1>1, <2>1, <2>2
    <3>2. \A i \in 1..(n + 1) : Members[i] \in S => i \in 1..n
      BY <2>2
    <3>3. \A i \in 1..n : i \in 1..(n + 1)
      OBVIOUS
    <3> QED
      BY <2>1, <3>1, <3>2, <3>3
  <2>3. CASE Members[n + 1] \in S
    <3> DEFINE m == Members[n + 1]
               old == f[n]
               new == f[n + 1]
               k == Len(old)
    <3>1. new = Append(old, m)
      <4>1. n + 1 \in 0..Size /\ n + 1 # 0 /\ (n + 1) - 1 = n
        BY <2>1
      <4> QED
        BY <1>1, <2>3, <4>1
    <3>2. old \in Seq(S) /\ k \in Nat /\ k <= n /\ m \in S
      BY <2>1, <2>3
    <3> HIDE DEF m, old, new
    <3>3. /\ new \in Seq(S) /\ Len(new) = k + 1 /\ new[k + 1] = m
          /\ \A j \in 1..k : new[j] = old[j]
      BY <3>1, <3>2, AppendProperties
    <3>4. \A j \in 1..k : old[j] # m
      <4> SUFFICES ASSUME NEW j \in 1..k, old[j] = m PROVE FALSE
        OBVIOUS
      <4>1. PICK i \in 1..n : old[j] = Members[i]
        BY <2>1 DEF old
      <4>2. i \in 1..Size /\ Members[i] = Members[n + 1]
        BY <2>1, <4>1, MembersAre DEF m
      <4> QED
        BY <2>1, <4>2, MembersAre
    <3>5. \A j \in 1..Len(new) : \E i \in 1..(n + 1) : new[j] = Members[i]
      <4> SUFFICES ASSUME NEW j \in 1..(k + 1) PROVE \E i \in 1..(n + 1) : new[j] = Members[i]
        BY <3>3
      <4>1. CASE j = k + 1
        BY <3>3, <4>1 DEF m
      <4>2. CASE j \in 1..k
        <5>1. PICK i \in 1..n : old[j] = Members[i]
          BY <2>1, <4>2 DEF old
        <5> QED
          BY <3>3, <4>2, <5>1
      <4> QED
        BY <3>2, <4>1, <4>2
    <3>6. \A i, j \in 1..Len(new) : new[i] = new[j] => i = j
      <4>1. \A i, j \in 1..k : old[i] = old[j] => i = j
        BY <2>1 DEF old
      <4> SUFFICES ASSUME NEW i \in 1..(k + 1), NEW j \in 1..(k + 1), new[i] = new[j] PROVE i = j
        BY <3>3
      <4>2. CASE i \in 1..k /\ j \in 1..k
        BY <3>3, <4>1, <4>2
      <4>3. CASE i = k + 1 \/ j = k + 1
        BY <3>2, <3>3, <3>4, <4>3
      <4> QED
        BY <3>2, <4>2, <4>3
    <3>7. \A i \in 1..(n + 1) : Members[i] \in S => \E j \in 1..Len(new) : new[j] = Members[i]
      <4> SUFFICES ASSUME NEW i \in 1..(n + 1), Members[i] \in S PROVE \E j \in 1..(k + 1) : new[j] = Members[i]
        BY <3>3
      <4>1. CASE i = n + 1
        BY <3>2, <3>3, <4>1 DEF m
      <4>2. CASE i \in 1..n
        <5>1. PICK j \in 1..k : old[j] = Members[i]
          BY <2>1, <4>2 DEF old
        <5> QED
          BY <3>2, <3>3, <5>1
      <4> QED
        BY <4>1, <4>2
    <3> QED
      BY <3>2, <3>3, <3>5, <3>6, <3>7 DEF new
  <2> QED
    BY <2>2, <2>3
<1>4. Size \in good
  <2> HIDE DEF good
  <2> QED
    BY <1>2, <1>3, Induction, MembersAre
<1>5. Found(Size) /\ InOrder(S) = f[Size]
  BY <1>4, FirstIs, MembersAre DEF f
<1>6. \A m \in S : \E i \in 1..Size : Members[i] = m
  BY MembersAre
<1> DEFINE all == f[Size]
<1>7. /\ all \in Seq(S) /\ Len(all) <= Size
      /\ \A i, j \in 1..Len(all) : all[i] = all[j] => i = j
      /\ \A i \in 1..Size : Members[i] \in S => \E j \in 1..Len(all) : all[j] = Members[i]
  BY <1>5
<1> HIDE DEF all
<1>8. \A m \in S : \E j \in 1..Len(all) : all[j] = m
  BY <1>6, <1>7
<1> QED
  BY <1>5, <1>7, <1>8 DEF all

-----------------------------------------------------------------------------
(* ClusterGateway: the turns *)

\* Whose turn was between a and b, the latter excluded, round the pool.
InTurn(a, b, j) == IF a <= b THEN a <= j /\ j < b ELSE a <= j \/ j < b

\* Since somebody's turn, each of the pool has got n requests, and one more if
\* its turn was in the round that is under way; who is not in the pool has none.
Turns(list, c, sv) ==
    /\ \A m \in All : (\A j \in 1..Len(list) : list[j] # m) => sv[m] = 0
    /\ list # <<>> =>
         \E n \in Nat, a \in 0..(Len(list) - 1) :
            \A j \in 0..(Len(list) - 1) :
                sv[list[j + 1]] = IF InTurn(a, c % Len(list), j) THEN n + 1 ELSE n

GatewayInv == GatewayTypeOK /\ Turns(Pool, cursor, served)

\* The pool as a function of who serves, of now and of the next state.
PoolOf(sv) ==
    IF InOrder({m \in All : sv[m] = "up"}) = <<>> THEN InOrder({m \in All : sv[m] # "out"})
    ELSE InOrder({m \in All : sv[m] = "up"})

LEMMA PoolOfIs ==
  ASSUME NEW sv
  PROVE  /\ PoolOf(sv) \in Seq(All) /\ Len(PoolOf(sv)) <= Size
         /\ \A i, j \in 1..Len(PoolOf(sv)) : PoolOf(sv)[i] = PoolOf(sv)[j] => i = j
         /\ InOrder({m \in All : sv[m] # "out"}) # <<>> => PoolOf(sv) # <<>>
<1> DEFINE wanted == {m \in All : sv[m] # "out"}
           healthy == {m \in All : sv[m] = "up"}
<1>1. /\ InOrder(wanted) \in Seq(All) /\ Len(InOrder(wanted)) <= Size
      /\ \A i, j \in 1..Len(InOrder(wanted)) : InOrder(wanted)[i] = InOrder(wanted)[j] => i = j
  <2>1. wanted \subseteq All
    OBVIOUS
  <2> HIDE DEF wanted
  <2>2. InOrder(wanted) \in Seq(wanted) /\ Seq(wanted) \subseteq Seq(All)
    BY <2>1, InOrderIs
  <2> QED
    BY <2>1, <2>2, InOrderIs
<1>2. /\ InOrder(healthy) \in Seq(All) /\ Len(InOrder(healthy)) <= Size
      /\ \A i, j \in 1..Len(InOrder(healthy)) : InOrder(healthy)[i] = InOrder(healthy)[j] => i = j
  <2>1. healthy \subseteq All
    OBVIOUS
  <2> HIDE DEF healthy
  <2>2. InOrder(healthy) \in Seq(healthy) /\ Seq(healthy) \subseteq Seq(All)
    BY <2>1, InOrderIs
  <2> QED
    BY <2>1, <2>2, InOrderIs
<1>3. PoolOf(sv) = IF InOrder(healthy) = <<>> THEN InOrder(wanted) ELSE InOrder(healthy)
  BY DEF PoolOf
<1> HIDE DEF wanted, healthy
<1>4. CASE InOrder(healthy) = <<>>
  BY <1>1, <1>3, <1>4 DEF wanted
<1>5. CASE InOrder(healthy) # <<>>
  BY <1>2, <1>3, <1>5
<1> QED
  BY <1>4, <1>5 DEF wanted

LEMMA PoolIs ==
  /\ Pool \in Seq(All) /\ Len(Pool) <= Size
  /\ \A i, j \in 1..Len(Pool) : Pool[i] = Pool[j] => i = j
  /\ GatewayTargets # <<>> => Pool # <<>>
<1>1. Pool = PoolOf(serves) /\ GatewayTargets = InOrder({m \in All : serves[m] # "out"})
  BY DEF Pool, GatewayTargets, PoolOf
<1> QED
  BY <1>1, PoolOfIs

LEMMA NextTurn ==
  ASSUME NEW n \in Nat \ {0}, NEW i \in 0..(n - 1) PROVE (i + 1) % n = IF i + 1 = n THEN 0 ELSE i + 1
<1>1. CASE i + 1 = n
  BY <1>1
<1>2. CASE i + 1 # n
  BY <1>2
<1> QED
  BY <1>1, <1>2

\* One more request: the turns go on, or a new round begins.
LEMMA OneMoreTurn ==
  ASSUME NEW list \in Seq(All), list # <<>>,
         \A i, j \in 1..Len(list) : list[i] = list[j] => i = j,
         NEW c \in Nat, NEW sv \in [All -> Nat], Turns(list, c, sv),
         NEW i \in Nat, i = c % Len(list)
  PROVE  /\ i \in 0..(Len(list) - 1) /\ list[i + 1] \in All
         /\ Turns(list, i + 1, [sv EXCEPT ![list[i + 1]] = @ + 1])
<1> DEFINE L == Len(list)
           m == list[i + 1]
           new == [sv EXCEPT ![m] = @ + 1]
<1>1. L \in Nat \ {0}
  BY EmptySeq
<1> HIDE DEF L
<1>2. i \in 0..(L - 1) /\ i + 1 \in 1..L
  BY <1>1 DEF L
<1>3. m \in All
  BY <1>2 DEF L
<1>4. (i + 1) % L = IF i + 1 = L THEN 0 ELSE i + 1
  BY <1>1, <1>2, NextTurn
<1> DEFINE i2 == (i + 1) % L
<1>5. i2 \in 0..(L - 1) /\ i2 = IF i + 1 = L THEN 0 ELSE i + 1
  BY <1>1, <1>2, <1>4
<1> HIDE DEF i2
<1>6. \A x \in All : (\A j \in 1..L : list[j] # x) => new[x] = 0
  <2> SUFFICES ASSUME NEW x \in All, \A j \in 1..L : list[j] # x PROVE new[x] = 0
    OBVIOUS
  <2>1. x # m
    BY <1>2
  <2>2. sv[x] = 0
    BY DEF Turns, L
  <2> QED
    BY <2>1, <2>2
<1>7. PICK n \in Nat, a \in 0..(L - 1) :
         \A j \in 0..(L - 1) : sv[list[j + 1]] = IF InTurn(a, i, j) THEN n + 1 ELSE n
  BY DEF Turns, L
<1>8. \A j \in 0..(L - 1) : new[list[j + 1]] = IF j = i THEN sv[list[j + 1]] + 1 ELSE sv[list[j + 1]]
  <2> SUFFICES ASSUME NEW j \in 0..(L - 1)
               PROVE  new[list[j + 1]] = IF j = i THEN sv[list[j + 1]] + 1 ELSE sv[list[j + 1]]
    OBVIOUS
  <2>1. j + 1 \in 1..L /\ list[j + 1] \in All
    BY <1>1 DEF L
  <2>2. CASE j = i
    BY <1>3, <2>2
  <2>3. CASE j # i
    <3>1. j + 1 # i + 1
      BY <1>2, <2>1, <2>3
    <3>2. list[j + 1] # m
      BY <1>2, <2>1, <3>1 DEF L
    <3> QED
      BY <2>1, <2>3, <3>2
  <2> QED
    BY <2>2, <2>3
<1> HIDE DEF m, new
<1>9. ASSUME NEW j \in 0..(L - 1)
      PROVE  /\ i2 = a => (InTurn(a, i, j) <=> j # i)
             /\ i2 # a => (InTurn(a, i2, j) <=> InTurn(a, i, j) \/ j = i)
             /\ ~InTurn(a, i, i) /\ ~InTurn(a, a, j)
  <2>1. a \in 0..(L - 1)
    BY <1>7
  <2>2. CASE i + 1 = L
    BY SMTT(30), <1>1, <1>2, <1>5, <2>1, <2>2 DEF InTurn
  <2>3. CASE i + 1 # L
    BY SMTT(30), <1>1, <1>2, <1>5, <2>1, <2>3 DEF InTurn
  <2> QED
    BY <2>2, <2>3
<1>10. \E k \in Nat, b \in 0..(L - 1) :
         \A j \in 0..(L - 1) : new[list[j + 1]] = IF InTurn(b, i2, j) THEN k + 1 ELSE k
  <2>1. CASE i2 = a
    <3>1. \A j \in 0..(L - 1) : new[list[j + 1]] = n + 1
      <4> SUFFICES ASSUME NEW j \in 0..(L - 1) PROVE new[list[j + 1]] = n + 1
        OBVIOUS
      <4>1. InTurn(a, i, j) <=> j # i
        BY <1>9, <2>1
      <4> QED
        BY <1>7, <1>8, <4>1
    <3>2. \A j \in 0..(L - 1) : ~InTurn(a, i2, j)
      BY <1>9, <2>1
    <3> DEFINE k == n + 1
    <3>3. k \in Nat /\ a \in 0..(L - 1)
      OBVIOUS
    <3>4. \A j \in 0..(L - 1) : new[list[j + 1]] = IF InTurn(a, i2, j) THEN k + 1 ELSE k
      BY <3>1, <3>2
    <3> HIDE DEF k
    <3> QED
      BY <3>3, <3>4
  <2>2. CASE i2 # a
    <3>1. \A j \in 0..(L - 1) : new[list[j + 1]] = IF InTurn(a, i2, j) THEN n + 1 ELSE n
      <4> SUFFICES ASSUME NEW j \in 0..(L - 1) PROVE new[list[j + 1]] = IF InTurn(a, i2, j) THEN n + 1 ELSE n
        OBVIOUS
      <4>1. ~InTurn(a, i, i) /\ InTurn(a, i2, i)
        BY <1>2, <1>9, <2>2
      <4>2. j # i => (InTurn(a, i2, j) <=> InTurn(a, i, j))
        BY <1>2, <1>9, <2>2
      <4>3. CASE j = i
        BY <1>7, <1>8, <4>1, <4>3
      <4>4. CASE j # i
        BY <1>7, <1>8, <4>2, <4>4
      <4> QED
        BY <4>3, <4>4
    <3> QED
      BY <3>1
  <2> QED
    BY <2>1, <2>2
<1> QED
  BY <1>2, <1>3, <1>6, <1>10 DEF Turns, L, i2, m, new

\* A round that begins.
LEMMA NoTurnYet ==
  ASSUME NEW list \in Seq(All), NEW c \in Nat PROVE Turns(list, c, [m \in All |-> 0])
<1> DEFINE sv == [m \in All |-> 0]
<1>1. \A m \in All : sv[m] = 0
  OBVIOUS
<1> HIDE DEF sv
<1> SUFFICES ASSUME list # <<>>
             PROVE  \E n \in Nat, a \in 0..(Len(list) - 1) :
                        \A j \in 0..(Len(list) - 1) :
                            sv[list[j + 1]] = IF InTurn(a, c % Len(list), j) THEN n + 1 ELSE n
  BY <1>1 DEF Turns, sv
<1> DEFINE L == Len(list)
           a == c % L
<1>2. L \in Nat \ {0} /\ \A j \in 0..(L - 1) : list[j + 1] \in All
  BY EmptySeq
<1> HIDE DEF L
<1>3. a \in 0..(L - 1)
  BY <1>2
<1> HIDE DEF a
<1>4. \A j \in 0..(L - 1) : ~InTurn(a, a, j)
  BY <1>2, <1>3 DEF InTurn
<1>5. \A j \in 0..(L - 1) : sv[list[j + 1]] = IF InTurn(a, a, j) THEN 0 + 1 ELSE 0
  BY <1>1, <1>2, <1>4
<1> QED
  BY <1>3, <1>5 DEF L, a

LEMMA GatewayInitInv == GatewayInit => GatewayInv
<1> SUFFICES ASSUME GatewayInit PROVE GatewayInv
  OBVIOUS
<1>1. serves \in [All -> {"out", "warm", "up"}] /\ cursor = 0 /\ served = [m \in All |-> 0]
  BY DEF GatewayInit
<1>2. GatewayTypeOK
  BY <1>1, GatewayAssumption, MembersAre DEF GatewayTypeOK, Size
<1>3. Turns(Pool, cursor, served)
  BY <1>1, PoolIs, NoTurnYet
<1> QED
  BY <1>2, <1>3 DEF GatewayInv

LEMMA GatewayNextInv == ASSUME GatewayInv, [GatewayNext]_gatewayVars PROVE GatewayInv'
<1>1. /\ serves \in [All -> {"out", "warm", "up"}] /\ cursor \in 0..Size /\ served \in [All -> 0..MaxRequests]
      /\ Turns(Pool, cursor, served) /\ Size \in Nat /\ MaxRequests \in Nat
  BY MembersAre, GatewayAssumption DEF GatewayInv, GatewayTypeOK, Size
<1>2. CASE Request
  <2> DEFINE i == Index
             m == Pool[i + 1]
  <2>1. /\ GatewayTargets # <<>> /\ served[m] < MaxRequests /\ served' = [served EXCEPT ![m] = @ + 1]
        /\ cursor' = i + 1 /\ serves' = serves
    BY <1>2 DEF Request, Moved
  <2>2. Pool \in Seq(All) /\ Pool # <<>> /\ Len(Pool) <= Size /\ Len(Pool) \in Nat \ {0}
        /\ \A x, y \in 1..Len(Pool) : Pool[x] = Pool[y] => x = y
    BY <1>1, <2>1, PoolIs, EmptySeq
  <2>3. i \in Nat /\ i = cursor % Len(Pool) /\ cursor \in Nat /\ served \in [All -> Nat]
    BY <1>1, <2>2 DEF Index
  <2>4. Pool' = Pool
    BY <2>1 DEF Pool, GatewayTargets
  <2> HIDE DEF i
  <2>5. i \in 0..(Len(Pool) - 1) /\ m \in All /\ Turns(Pool, i + 1, served')
    BY <1>1, <2>1, <2>2, <2>3, OneMoreTurn
  <2> HIDE DEF m
  <2>6. Turns(Pool', cursor', served')
    BY <2>1, <2>4, <2>5
  <2>7. served' \in [All -> 0..MaxRequests] /\ cursor' \in 0..Size
    BY <1>1, <2>1, <2>2, <2>5
  <2> QED
    BY <1>1, <2>1, <2>6, <2>7 DEF GatewayInv, GatewayTypeOK, Size
<1>3. ASSUME NEW m \in All, NEW s \in {"out", "warm", "up"}, Changes(m, s) PROVE GatewayInv'
  <2>1. /\ serves' = [serves EXCEPT ![m] = s] /\ cursor' = cursor
        /\ served' = IF Pool' = Pool THEN served ELSE [x \in All |-> 0]
    BY <1>3 DEF Changes
  <2>2. serves' \in [All -> {"out", "warm", "up"}] /\ cursor \in Nat
    BY <1>1, <2>1
  <2>3. Pool' \in Seq(All)
    <3>1. Pool' = PoolOf(serves')
      BY DEF Pool, GatewayTargets, PoolOf
    <3> QED
      BY <3>1, PoolOfIs
  <2>4. Turns(Pool', cursor', served') /\ served' \in [All -> 0..MaxRequests]
    <3>1. CASE Pool' = Pool
      BY <1>1, <2>1, <3>1
    <3>2. CASE Pool' # Pool
      BY <1>1, <2>1, <2>2, <2>3, <3>2, NoTurnYet
    <3> QED
      BY <3>1, <3>2
  <2> QED
    BY <1>1, <2>1, <2>2, <2>4 DEF GatewayInv, GatewayTypeOK, Size
<1>4. CASE NoTarget \/ UNCHANGED gatewayVars
  <2>1. serves' = serves /\ cursor' = cursor /\ served' = served
    BY <1>4 DEF NoTarget, gatewayVars
  <2>2. Pool' = Pool
    BY <2>1 DEF Pool, GatewayTargets
  <2> QED
    BY <2>1, <2>2 DEF GatewayInv, GatewayTypeOK
<1> QED
  BY <1>2, <1>3, <1>4 DEF GatewayNext

LEMMA GatewayHolds == GatewayInv => GatewayTypeOK /\ FairShares
<1> SUFFICES ASSUME GatewayInv PROVE FairShares
  BY DEF GatewayInv
<1>1. /\ Turns(Pool, cursor, served) /\ served \in [All -> 0..MaxRequests] /\ MaxRequests \in Nat
      /\ Pool \in Seq(All)
  BY PoolIs, GatewayAssumption DEF GatewayInv, GatewayTypeOK
<1> SUFFICES ASSUME NEW m \in All, NEW o \in All, o \in ToSet(Pool) PROVE served[m] <= served[o] + 1
  BY DEF FairShares
<1> DEFINE L == Len(Pool)
<1>2. PICK x \in 1..L : Pool[x] = o
  BY <1>1 DEF ToSet
<1>3. L \in Nat /\ Pool # <<>>
  BY <1>1, <1>2, EmptySeq
<1>4. PICK n \in Nat, a \in 0..(L - 1) :
         \A j \in 0..(L - 1) : served[Pool[j + 1]] = IF InTurn(a, cursor % L, j) THEN n + 1 ELSE n
  BY <1>1, <1>3 DEF Turns
<1>5. \A y \in 1..L : served[Pool[y]] \in {n, n + 1}
  <2> SUFFICES ASSUME NEW y \in 1..L PROVE served[Pool[y]] \in {n, n + 1}
    OBVIOUS
  <2>1. y - 1 \in 0..(L - 1) /\ (y - 1) + 1 = y
    BY <1>3
  <2> QED
    BY <1>4, <2>1
<1> HIDE DEF L
<1>6. CASE \E y \in 1..L : Pool[y] = m
  BY <1>2, <1>5, <1>6
<1>7. CASE \A y \in 1..L : Pool[y] # m
  <2>1. served[m] = 0
    BY <1>1, <1>7 DEF Turns, L
  <2> QED
    BY <1>2, <1>5, <2>1
<1> QED
  BY <1>6, <1>7

-----------------------------------------------------------------------------
(* ServeState: the invariant *)

ProbeRecord == [head : BOOLEAN, worker : BOOLEAN, answer : {"none", "own", "other"}, reach : Reaches]

NodeTypes == agent \in BOOLEAN /\ head \in BOOLEAN /\ worker \in BOOLEAN
JobTypes  == desired \in {"running", "stopped"} /\ job \in Seq(Statuses)
PortTypes == /\ onPort \in [AllPorts -> {"none", "own", "other"}]
             /\ ports \in PortLists /\ listed \in PortLists /\ rows \in Seq(AllRows)

CacheTypes == fresh \in BOOLEAN /\ cache \in ProbeRecord
ReadTypes  == read.busy \in BOOLEAN /\ read.job \in 0..Len(job) /\ read.row \in AllRows

\* Each row is of the port at its place in the list that it was made for.
RowsAreOf == \A i \in 1..Len(rows) : i \in 1..Len(listed) /\ rows[i].port = listed[i]

\* A call that took its row under the list of ports of the rows has the row of
\* the recipe's port.
ReadIsOf == read.aligned = TRUE => read.row.port = Port

ReportOK ==
    /\ report.state \in States \cup {"none"}
    /\ StoppedIsHonest /\ HealthyAnswered /\ StopOutranks

StateInv ==
    /\ NodeTypes /\ JobTypes /\ PortTypes /\ CacheTypes /\ ReadTypes
    /\ RowsAreOf /\ ReadIsOf /\ ReportOK

-----------------------------------------------------------------------------
(* ServeState: the proof *)

LEMMA PortsAre ==
  /\ Port \in AllPorts /\ <<Port>> \in PortLists
  /\ \A l \in PortLists : /\ l \in Seq(AllPorts) /\ DOMAIN l = 1..Len(l) /\ Len(l) \in Nat
                          /\ \A i, j \in 1..Len(l) : l[i] = l[j] => i = j
<1>1. <<Port>> \in PortLists /\ \A l \in PortLists : l \in Seq(ToSet(l)) /\ IsInjective(l)
  BY StateAssumption
<1>2. Port \in AllPorts
  <2>1. Port \in ToSet(<<Port>>)
    BY DEF ToSet
  <2> QED
    BY <1>1, <2>1 DEF AllPorts
<1>3. ASSUME NEW l \in PortLists
      PROVE  /\ l \in Seq(AllPorts) /\ DOMAIN l = 1..Len(l) /\ Len(l) \in Nat
             /\ \A i, j \in 1..Len(l) : l[i] = l[j] => i = j
  <2>1. l \in Seq(ToSet(l)) /\ ToSet(l) \subseteq AllPorts
    BY <1>1, <1>3 DEF AllPorts
  <2>2. DOMAIN l = 1..Len(l) /\ Len(l) \in Nat
    BY <2>1
  <2>3. \A i \in 1..Len(l) : l[i] \in AllPorts
    <3> DEFINE S == ToSet(l)
    <3> HIDE DEF S
    <3>1. l \in Seq(S) /\ S \subseteq AllPorts
      BY <2>1 DEF S
    <3> QED
      BY <3>1
  <2>4. l \in Seq(AllPorts)
    BY <2>1, <2>2, <2>3
  <2> QED
    BY <1>1, <1>3, <2>2, <2>4 DEF IsInjective
<1> QED
  BY <1>1, <1>2, <1>3

LEMMA NothingIs ==
  /\ NoRow \in AllRows /\ NoRow.port = Port /\ NoProbe \in ProbeRecord
  /\ NoReport.state = "none" /\ NoRead.busy = FALSE /\ NoRead.job = 0 /\ NoRead.row = NoRow
<1>1. NoRow \in AllRows /\ NoRow.port = Port
  BY PortsAre DEF NoRow, AllRows
<1>2. NoProbe \in ProbeRecord
  BY DEF NoProbe, ProbeRecord, Reaches
<1>3. NoReport.state = "none"
  BY DEF NoReport
<1>4. NoRead.busy = FALSE /\ NoRead.job = 0 /\ NoRead.row = NoRow
  BY DEF NoRead
<1> QED
  BY <1>1, <1>2, <1>3, <1>4

\* A step without a report, and one whose report stays.
LEMMA Quiet == ASSUME report' = NoReport \/ (StateInv /\ report' = report) PROVE ReportOK'
<1>1. CASE report' = NoReport
  BY <1>1, NothingIs DEF ReportOK, StoppedIsHonest, HealthyAnswered, StopOutranks
<1>2. CASE StateInv /\ report' = report
  BY <1>2 DEF StateInv, ReportOK, StoppedIsHonest, HealthyAnswered, StopOutranks
<1> QED
  BY <1>1, <1>2

\* What is reported follows from the row, the job and the probe, whatever these are.
LEMMA SaysIsHonest ==
  ASSUME NEW j, NEW row, NEW aligned, NEW probe, probe \in ProbeRecord, row \in AllRows,
         desired \in {"running", "stopped"}, aligned = TRUE => row.port = Port, Says(j, row, aligned, probe)
  PROVE  ReportOK'
<1> DEFINE state == Joined(j, row, probe)
<1>1. /\ report'.state = state /\ report'.desired = desired /\ report'.row = row
      /\ report'.aligned = aligned /\ report'.probe = probe
  BY DEF Says
<1>2. state \in States
  BY DEF Joined, States
<1>3. state \in {"stopped", "failed"} => ~RanksUnknown(probe) /\ ~SomeRankRuns(probe)
  BY DEF Joined
<1>4. ~RanksUnknown(probe) /\ ~SomeRankRuns(probe) => ~probe.head /\ (probe.worker => probe.reach = "head")
  BY DEF RanksUnknown, SomeRankRuns, ProbeRecord, Reaches
<1>5. state = "healthy" => row.own \/ probe.answer = "own"
  BY DEF Joined, IdFits, AllRows
<1>6. desired = "stopped" => state \notin {"failed", "starting", "up"}
  BY DEF Joined
<1> HIDE DEF state
<1>7. StoppedIsHonest'
  BY <1>1, <1>3, <1>4 DEF StoppedIsHonest
<1>8. HealthyAnswered'
  BY <1>1, <1>5 DEF HealthyAnswered
<1>9. StopOutranks'
  BY <1>1, <1>6 DEF StopOutranks
<1> QED
  BY <1>1, <1>2, <1>7, <1>8, <1>9 DEF ReportOK

LEMMA StateInitInv == StateInit => StateInv
<1> SUFFICES ASSUME StateInit PROVE StateInv
  OBVIOUS
<1>1. /\ agent = FALSE /\ head = FALSE /\ worker = FALSE /\ onPort = [x \in AllPorts |-> "none"]
      /\ desired = "stopped" /\ job = <<>> /\ ports = <<Port>> /\ rows = <<>> /\ listed = <<Port>>
      /\ cache = NoProbe /\ fresh = FALSE /\ read = NoRead /\ report = NoReport
  BY DEF StateInit
<1>2. NodeTypes
  BY <1>1 DEF NodeTypes
<1>3. JobTypes /\ Len(job) = 0
  BY <1>1, EmptySeq DEF JobTypes
<1>4. PortTypes /\ Len(rows) = 0
  BY <1>1, EmptySeq, PortsAre DEF PortTypes
<1>5. CacheTypes
  BY <1>1, NothingIs DEF CacheTypes
<1>6. ReadTypes /\ ReadIsOf
  <2>1. read.busy = FALSE /\ read.job = 0 /\ read.row \in AllRows /\ read.row.port = Port
    BY <1>1, NothingIs
  <2>2. 0 \in 0..Len(job)
    BY <1>3
  <2> QED
    BY <2>1, <2>2 DEF ReadTypes, ReadIsOf
<1>7. RowsAreOf
  BY <1>4 DEF RowsAreOf
<1>8. ReportOK
  BY <1>1, NothingIs DEF ReportOK, StoppedIsHonest, HealthyAnswered, StopOutranks
<1> QED
  BY <1>2, <1>3, <1>4, <1>5, <1>6, <1>7, <1>8 DEF StateInv

\* The row of the recipe's port.
LEMMA RowOfIs == ASSUME StateInv PROVE RowOf(Port) \in AllRows /\ (Aligned => RowOf(Port).port = Port)
<1>1. /\ rows \in Seq(AllRows) /\ DOMAIN rows = 1..Len(rows) /\ ports \in PortLists
      /\ DOMAIN ports = 1..Len(ports)
  BY PortsAre DEF StateInv, PortTypes
<1>2. CASE \E i \in DOMAIN rows : i \in DOMAIN ports /\ ports[i] = Port
  <2> DEFINE k == CHOOSE i \in DOMAIN rows : i \in DOMAIN ports /\ ports[i] = Port
  <2>1. k \in DOMAIN rows /\ ports[k] = Port
    BY <1>2
  <2>2. RowOf(Port) = rows[k]
    BY <1>2 DEF RowOf
  <2> HIDE DEF k
  <2>3. Aligned => rows[k].port = Port
    BY <1>1, <2>1 DEF StateInv, RowsAreOf, Aligned
  <2> QED
    BY <1>1, <2>1, <2>2, <2>3
<1>3. CASE ~\E i \in DOMAIN rows : i \in DOMAIN ports /\ ports[i] = Port
  BY <1>3, NothingIs DEF RowOf
<1> QED
  BY <1>2, <1>3

\* Steps of the node, and of the ports: jobs, rows and reads stay.
LEMMA NodeGoes ==
  ASSUME StateInv, report' = NoReport, UNCHANGED <<job, desired, rows, listed, cache, fresh, read>>,
         NodeTypes', onPort' \in [AllPorts -> {"none", "own", "other"}], ports' \in PortLists
  PROVE  StateInv'
<1>1. job' = job /\ desired' = desired /\ rows' = rows /\ listed' = listed /\ cache' = cache /\ fresh' = fresh
      /\ read' = read
  OBVIOUS
<1>2. JobTypes' /\ PortTypes' /\ CacheTypes' /\ ReadTypes'
  BY <1>1 DEF StateInv, JobTypes, PortTypes, CacheTypes, ReadTypes
<1>3. RowsAreOf' /\ ReadIsOf'
  BY <1>1 DEF StateInv, RowsAreOf, ReadIsOf
<1>4. ReportOK'
  BY Quiet
<1> QED
  BY <1>2, <1>3, <1>4 DEF StateInv

\* Steps of the deployment: no job is forgotten.
LEMMA JobsGo ==
  ASSUME StateInv, report' = NoReport, UNCHANGED <<ports, rows, listed, cache, fresh, read>>,
         NodeTypes', JobTypes', Len(job) <= Len(job)', onPort' \in [AllPorts -> {"none", "own", "other"}]
  PROVE  StateInv'
<1>1. ports' = ports /\ rows' = rows /\ listed' = listed /\ cache' = cache /\ fresh' = fresh /\ read' = read
  OBVIOUS
<1>2. PortTypes' /\ CacheTypes'
  BY <1>1 DEF StateInv, PortTypes, CacheTypes
<1>3. Len(job) \in Nat /\ Len(job)' \in Nat
  BY DEF StateInv, JobTypes
<1>4. ReadTypes'
  BY <1>1, <1>3 DEF StateInv, ReadTypes
<1>5. RowsAreOf' /\ ReadIsOf'
  BY <1>1 DEF StateInv, RowsAreOf, ReadIsOf
<1>6. ReportOK'
  BY Quiet
<1> QED
  BY <1>2, <1>4, <1>5, <1>6 DEF StateInv

\* The last job changes.
LEMMA LastJob ==
  ASSUME StateInv, NEW s \in Statuses, JobIs(Len(job), {"running"}), job' = [job EXCEPT ![Len(job)] = s]
  PROVE  job' \in Seq(Statuses) /\ Len(job') = Len(job)
<1>1. job \in Seq(Statuses) /\ Len(job) # 0
  BY DEF StateInv, JobTypes, JobIs
<1>2. Len(job) \in 1..Len(job)
  BY <1>1
<1> QED
  BY <1>1, <1>2, ExceptSeq

\* Steps that only look: the row, the cache and the read under way.
LEMMA LooksGo ==
  ASSUME StateInv, UNCHANGED <<agent, world, onPort, desired, job>>, ports' = ports,
         listed' \in PortLists, rows' \in Seq(AllRows), RowsAreOf', CacheTypes', ReadTypes', ReadIsOf', ReportOK'
  PROVE  StateInv'
<1>1. agent' = agent /\ head' = head /\ worker' = worker /\ onPort' = onPort /\ desired' = desired /\ job' = job
  BY DEF world
<1>2. NodeTypes' /\ JobTypes' /\ PortTypes'
  BY <1>1 DEF StateInv, NodeTypes, JobTypes, PortTypes
<1> QED
  BY <1>2 DEF StateInv

LEMMA NodeSteps ==
  ASSUME StateInv,
         \/ Containers \/ Answers \/ Dies \/ Agent
         \/ \E x \in AllPorts, y \in {"none", "own", "other"} : Other(x, y)
         \/ \E l \in PortLists : SetPorts(l)
  PROVE  StateInv'
<1>1. /\ agent \in BOOLEAN /\ head \in BOOLEAN /\ worker \in BOOLEAN
      /\ onPort \in [AllPorts -> {"none", "own", "other"}] /\ ports \in PortLists
  BY DEF StateInv, NodeTypes, PortTypes
<1>2. CASE Containers
  <2>1. /\ report' = NoReport /\ UNCHANGED <<job, desired, rows, listed, cache, fresh, read>>
        /\ head' = TRUE /\ worker' = TRUE /\ agent' = agent /\ onPort' = onPort /\ ports' = ports
    BY <1>2 DEF Containers, Silent
  <2> QED
    BY <1>1, <2>1, NodeGoes DEF NodeTypes
<1>3. CASE Answers
  <2>1. /\ report' = NoReport /\ UNCHANGED <<job, desired, rows, listed, cache, fresh, read>>
        /\ head' = head /\ worker' = worker /\ agent' = agent /\ ports' = ports
        /\ onPort' = [onPort EXCEPT ![Port] = "own"]
    BY <1>3 DEF Answers, Silent
  <2> QED
    BY <1>1, <2>1, NodeGoes DEF NodeTypes
<1>4. CASE Dies
  <2>1. /\ report' = NoReport /\ UNCHANGED <<job, desired, rows, listed, cache, fresh, read>>
        /\ head' \in {FALSE, head} /\ worker' \in {FALSE, worker} /\ agent' = agent /\ ports' = ports
        /\ onPort' = [onPort EXCEPT ![Port] = IF @ = "own" THEN "none" ELSE @]
    BY <1>4 DEF Dies, Silent
  <2>2. onPort' \in [AllPorts -> {"none", "own", "other"}]
    BY <1>1, <2>1, PortsAre
  <2>3. NodeTypes'
    BY <1>1, <2>1 DEF NodeTypes
  <2> QED
    BY <1>1, <2>1, <2>2, <2>3, NodeGoes
<1>5. CASE Agent
  <2>1. /\ report' = NoReport /\ UNCHANGED <<job, desired, rows, listed, cache, fresh, read>>
        /\ head' = head /\ worker' = worker /\ agent' = ~agent /\ onPort' = onPort /\ ports' = ports
    BY <1>5 DEF Agent, Silent, world
  <2> QED
    BY <1>1, <2>1, NodeGoes DEF NodeTypes
<1>6. ASSUME NEW x \in AllPorts, NEW y \in {"none", "own", "other"}, Other(x, y) PROVE StateInv'
  <2>1. /\ report' = NoReport /\ UNCHANGED <<job, desired, rows, listed, cache, fresh, read>>
        /\ head' = head /\ worker' = worker /\ agent' = agent /\ ports' = ports
        /\ onPort' = [onPort EXCEPT ![x] = y]
    BY <1>6 DEF Other, Silent
  <2> QED
    BY <1>1, <2>1, NodeGoes DEF NodeTypes
<1>7. ASSUME NEW l \in PortLists, SetPorts(l) PROVE StateInv'
  <2>1. /\ report' = NoReport /\ UNCHANGED <<job, desired, rows, listed, cache, fresh, read>>
        /\ head' = head /\ worker' = worker /\ agent' = agent /\ onPort' = onPort /\ ports' = l
    BY <1>7 DEF SetPorts, Silent, world
  <2> QED
    BY <1>1, <2>1, NodeGoes DEF NodeTypes
<1> QED
  BY <1>2, <1>3, <1>4, <1>5, <1>6, <1>7

LEMMA JobSteps ==
  ASSUME StateInv,
         Start \/ (\E s \in Statuses : JobEnds(s)) \/ \E works \in BOOLEAN : Stop(works)
  PROVE  StateInv'
<1>1. /\ agent \in BOOLEAN /\ head \in BOOLEAN /\ worker \in BOOLEAN /\ desired \in {"running", "stopped"}
      /\ job \in Seq(Statuses) /\ Len(job) \in Nat /\ onPort \in [AllPorts -> {"none", "own", "other"}]
  BY DEF StateInv, NodeTypes, JobTypes, PortTypes
<1>2. CASE Start
  <2>1. /\ report' = NoReport /\ UNCHANGED <<ports, rows, listed, cache, fresh, read>>
        /\ head' = head /\ worker' = worker /\ agent' = agent /\ onPort' = onPort
        /\ job' = Append(job, "running") /\ desired' = "running"
    BY <1>2 DEF Start, Silent, world
  <2>2. job' \in Seq(Statuses) /\ Len(job') = Len(job) + 1
    <3>1. "running" \in Statuses
      BY DEF Statuses
    <3> QED
      BY <1>1, <2>1, <3>1, AppendProperties
  <2>3. NodeTypes' /\ JobTypes'
    BY <1>1, <2>1, <2>2 DEF NodeTypes, JobTypes
  <2> QED
    BY <1>1, <2>1, <2>2, <2>3, JobsGo
<1>3. ASSUME NEW s \in Statuses, JobEnds(s) PROVE StateInv'
  <2>1. /\ report' = NoReport /\ UNCHANGED <<ports, rows, listed, cache, fresh, read>>
        /\ head' = head /\ worker' = worker /\ agent' = agent /\ onPort' = onPort /\ desired' = desired
        /\ JobIs(Len(job), {"running"}) /\ job' = [job EXCEPT ![Len(job)] = s]
    BY <1>3 DEF JobEnds, Silent, world
  <2>2. job' \in Seq(Statuses) /\ Len(job') = Len(job)
    BY <2>1, LastJob
  <2>3. NodeTypes' /\ JobTypes'
    BY <1>1, <2>1, <2>2 DEF NodeTypes, JobTypes
  <2> QED
    BY <1>1, <2>1, <2>2, <2>3, JobsGo
<1>4. ASSUME NEW works \in BOOLEAN, Stop(works) PROVE StateInv'
  <2>1. /\ report' = NoReport /\ UNCHANGED <<ports, rows, listed, cache, fresh, read>>
        /\ agent' = agent /\ desired' = "stopped"
        /\ head' = (head /\ ~works) /\ worker' = (worker /\ ~works)
        /\ onPort' = IF works /\ onPort[Port] = "own" THEN [onPort EXCEPT ![Port] = "none"] ELSE onPort
        /\ job' = IF JobIs(Len(job), {"running"}) THEN [job EXCEPT ![Len(job)] = "failed"] ELSE job
    BY <1>4 DEF Stop, Silent
  <2>2. job' \in Seq(Statuses) /\ Len(job') = Len(job)
    <3>1. CASE JobIs(Len(job), {"running"})
      <4>1. "failed" \in Statuses /\ job' = [job EXCEPT ![Len(job)] = "failed"]
        BY <2>1, <3>1 DEF Statuses
      <4> QED
        BY <3>1, <4>1, LastJob
    <3>2. CASE ~JobIs(Len(job), {"running"})
      BY <1>1, <2>1, <3>2
    <3> QED
      BY <3>1, <3>2
  <2>3. NodeTypes'
    BY <1>1, <2>1 DEF NodeTypes
  <2>4. JobTypes'
    BY <2>1, <2>2 DEF JobTypes
  <2>5. onPort' \in [AllPorts -> {"none", "own", "other"}]
    BY <1>1, <2>1
  <2> QED
    BY <1>1, <2>1, <2>2, <2>3, <2>4, <2>5, JobsGo
<1> QED
  BY <1>2, <1>3, <1>4

LEMMA LookSteps ==
  ASSUME StateInv,
         PollRows \/ UsesCache \/ ReadBegins \/ Expires \/ \E reach \in Reaches : ReadReturns(reach)
  PROVE  StateInv'
<1>1. /\ ports \in PortLists /\ listed \in PortLists /\ rows \in Seq(AllRows) /\ RowsAreOf
      /\ CacheTypes /\ ReadTypes /\ ReadIsOf /\ job \in Seq(Statuses) /\ Len(job) \in Nat
      /\ desired \in {"running", "stopped"} /\ onPort \in [AllPorts -> {"none", "own", "other"}]
      /\ head \in BOOLEAN /\ worker \in BOOLEAN
  BY DEF StateInv, PortTypes, JobTypes, NodeTypes
<1>2. CASE PollRows
  <2>1. /\ rows' = [i \in DOMAIN ports |-> Row(ports[i])] /\ listed' = ports /\ report' = NoReport
        /\ UNCHANGED <<agent, world, onPort, desired, job>> /\ ports' = ports
        /\ cache' = cache /\ fresh' = fresh /\ read' = read /\ job' = job
    BY <1>2 DEF PollRows, Silent, world
  <2>2. DOMAIN ports = 1..Len(ports) /\ Len(ports) \in Nat /\ \A i \in 1..Len(ports) : ports[i] \in AllPorts
    BY <1>1, PortsAre
  <2>3. \A x \in AllPorts : Row(x) \in AllRows /\ Row(x).port = x
    BY DEF Row, AllRows
  <2>4. rows' \in Seq(AllRows) /\ Len(rows') = Len(ports)
    BY <2>1, <2>2, <2>3
  <2>5. RowsAreOf'
    BY <2>1, <2>2, <2>3, <2>4 DEF RowsAreOf
  <2>6. CacheTypes' /\ ReadTypes' /\ ReadIsOf'
    BY <1>1, <2>1 DEF CacheTypes, ReadTypes, ReadIsOf
  <2>7. ReportOK'
    BY <2>1, Quiet
  <2> QED
    BY <1>1, <2>1, <2>4, <2>5, <2>6, <2>7, LooksGo
<1>3. CASE UsesCache
  <2>1. /\ Says(Len(job), RowOf(Port), Aligned, cache)
        /\ UNCHANGED <<agent, world, onPort, desired, job>> /\ ports' = ports
        /\ rows' = rows /\ listed' = listed /\ cache' = cache /\ fresh' = fresh /\ read' = read /\ job' = job
    BY <1>3 DEF UsesCache, world
  <2>2. ReportOK'
    BY <1>1, <2>1, RowOfIs, SaysIsHonest DEF CacheTypes
  <2>3. RowsAreOf' /\ CacheTypes' /\ ReadTypes' /\ ReadIsOf'
    BY <1>1, <2>1 DEF RowsAreOf, CacheTypes, ReadTypes, ReadIsOf
  <2> QED
    BY <1>1, <2>1, <2>2, <2>3, LooksGo
<1>4. CASE ReadBegins
  <2>1. /\ read' = [busy |-> TRUE, job |-> Len(job), row |-> RowOf(Port), aligned |-> Aligned]
        /\ UNCHANGED <<agent, world, onPort, desired, job>> /\ ports' = ports
        /\ rows' = rows /\ listed' = listed /\ cache' = cache /\ fresh' = fresh /\ report' = NoReport /\ job' = job
    BY <1>4 DEF ReadBegins, Silent, world
  <2>2. ReadTypes' /\ ReadIsOf'
    <3>1. read'.busy = TRUE /\ read'.job = Len(job) /\ read'.row = RowOf(Port) /\ read'.aligned = Aligned
      BY <2>1
    <3>2. Len(job) \in 0..Len(job')
      BY <1>1, <2>1
    <3> QED
      BY <3>1, <3>2, RowOfIs DEF ReadTypes, ReadIsOf
  <2>3. ReportOK'
    BY <2>1, Quiet
  <2>4. RowsAreOf' /\ CacheTypes'
    BY <1>1, <2>1 DEF RowsAreOf, CacheTypes
  <2> QED
    BY <1>1, <2>1, <2>2, <2>3, <2>4, LooksGo
<1>5. CASE Expires
  <2>1. /\ fresh' = FALSE /\ cache' = NoProbe /\ report' = NoReport
        /\ UNCHANGED <<agent, world, onPort, desired, job>> /\ ports' = ports
        /\ rows' = rows /\ listed' = listed /\ read' = read /\ job' = job
    BY <1>5 DEF Expires, Silent, world
  <2>2. CacheTypes'
    BY <2>1, NothingIs DEF CacheTypes
  <2>3. RowsAreOf' /\ ReadTypes' /\ ReadIsOf'
    BY <1>1, <2>1 DEF RowsAreOf, ReadTypes, ReadIsOf
  <2>4. ReportOK'
    BY <2>1, Quiet
  <2> QED
    BY <1>1, <2>1, <2>2, <2>3, <2>4, LooksGo
<1>6. ASSUME NEW reach \in Reaches, ReadReturns(reach) PROVE StateInv'
  <2>1. /\ read' = NoRead /\ Says(read.job, read.row, read.aligned, Probe(reach))
        /\ \/ cache' = cache /\ fresh' = fresh
           \/ cache' = Probe(reach) /\ fresh' = TRUE
        /\ UNCHANGED <<agent, world, onPort, desired, job>> /\ ports' = ports
        /\ rows' = rows /\ listed' = listed /\ job' = job
    BY <1>6 DEF ReadReturns, world
  <2>2. Probe(reach) \in ProbeRecord
    BY <1>1, PortsAre DEF Probe, ProbeRecord
  <2>3. ReportOK'
    BY <1>1, <2>1, <2>2, SaysIsHonest DEF ReadTypes, ReadIsOf
  <2>4. CacheTypes'
    BY <1>1, <2>1, <2>2 DEF CacheTypes
  <2>5. ReadTypes' /\ ReadIsOf'
    <3>1. read'.busy = FALSE /\ read'.job = 0 /\ read'.row \in AllRows /\ read'.row.port = Port
      BY <2>1, NothingIs
    <3>2. 0 \in 0..Len(job')
      BY <1>1, <2>1
    <3> QED
      BY <3>1, <3>2 DEF ReadTypes, ReadIsOf
  <2>6. RowsAreOf'
    BY <1>1, <2>1 DEF RowsAreOf
  <2> QED
    BY <1>1, <2>1, <2>3, <2>4, <2>5, <2>6, LooksGo
<1> QED
  BY <1>2, <1>3, <1>4, <1>5, <1>6

LEMMA StateNextInv == ASSUME StateInv, [StateNext]_stateVars PROVE StateInv'
<1>1. CASE UNCHANGED stateVars
  <2>1. /\ UNCHANGED <<agent, world, onPort, desired, job>> /\ ports' = ports
        /\ rows' = rows /\ listed' = listed /\ cache' = cache /\ fresh' = fresh
        /\ read' = read /\ report' = report /\ job' = job
    BY <1>1 DEF stateVars, world
  <2>2. RowsAreOf' /\ CacheTypes' /\ ReadTypes' /\ ReadIsOf' /\ listed' \in PortLists /\ rows' \in Seq(AllRows)
    BY <2>1 DEF StateInv, RowsAreOf, CacheTypes, ReadTypes, ReadIsOf, PortTypes
  <2>3. ReportOK'
    BY <2>1, Quiet
  <2> QED
    BY <2>1, <2>2, <2>3, LooksGo
<1> QED
  BY <1>1, NodeSteps, JobSteps, LookSteps DEF StateNext

LEMMA StateHolds == StateInv => StateTypeOK /\ StoppedIsHonest /\ HealthyAnswered /\ StopOutranks
<1> SUFFICES ASSUME StateInv PROVE StateTypeOK /\ StoppedIsHonest /\ HealthyAnswered /\ StopOutranks
  OBVIOUS
<1>1. StateTypeOK
  BY DEF StateInv, StateTypeOK, NodeTypes, JobTypes, PortTypes, CacheTypes, ReadTypes, ReportOK
<1> QED
  BY <1>1 DEF StateInv, ReportOK

-----------------------------------------------------------------------------
(* The two, side by side *)

FrontInv == StateInv /\ GatewayInv

LEMMA EachSteps == ASSUME [FrontNext]_frontVars PROVE [StateNext]_stateVars /\ [GatewayNext]_gatewayVars
  BY DEF FrontNext, frontVars

\* What is kept of a deployment (stateFor and its probes) and of the turns of
\* a gateway is inductive, whatever the proxy does beside them.
THEOREM FrontInvariance == FrontSpec => []FrontInv
<1>1. FrontInit => FrontInv
  BY StateInitInv, GatewayInitInv DEF FrontInit, FrontInv
<1>2. FrontInv /\ [FrontNext]_frontVars => FrontInv'
  BY EachSteps, StateNextInv, GatewayNextInv DEF FrontInv
<1> QED
  BY <1>1, <1>2, PTL DEF FrontSpec

\* A deployment that is called stopped had no container, one that is called
\* healthy answered by its name, one that somebody stopped has not failed
\* (joinServeState); the gateway gives requests to the pool in turn, for as many
\* deployments as there are (the cluster route of llmProxy.js).
THEOREM FrontHonesty == FrontSpec => []FrontIsHonest
<1>1. FrontInv => FrontIsHonest
  BY StateHolds, GatewayHolds DEF FrontInv, FrontIsHonest
<1> QED
  BY <1>1, FrontInvariance, PTL

-----------------------------------------------------------------------------
(* RemoteJobs: the invariant *)

\* Nothing is in memory, and no call is in flight, while the process is down.
DownIsEmpty ==
    ~up => \A j \in Jobs :
              /\ st[j] = "none" /\ ~expect[j] /\ poll[j] = "none"
              /\ kill[j] = "none" /\ req[j] \notin {"sent", "ran"}

\* A record exists only after its launch returned, a process only after the
\* launch ran.
Recorded ==
    \A j \in Jobs :
        /\ req[j] # "done" => /\ st[j] = "none" /\ disk[j] = "none"
                              /\ ~expect[j] /\ ~diskExpect[j] /\ poll[j] = "none"
        /\ req[j] \in {"idle", "sent"} => proc[j] = "absent"
        /\ req[j] \in {"ran", "done"} => proc[j] # "absent"

\* Only install jobs expect a hello, in memory and on disk.
ExpectsInstall == \A j \in Jobs : expect[j] \/ diskExpect[j] => j \in Install

\* A reply that reports an end is still true when it is applied.
ReplyHolds == \A j \in Jobs : poll[j] \in Ended => proc[j] = poll[j]

\* The file holds a record of the memory as it is, or not at all.
FileMatches == up => \A j \in Jobs : disk[j] \in {st[j], "none"}

\* HonestOutcome, as a predicate on one status.
Honest(s, j) ==
    /\ s = "completed"   => proc[j] = "exit0" \/ heard[j]
    /\ s = "interrupted" => proc[j] = "dead"
    /\ s = "failed"      => proc[j] = "exitN" \/ (j \in Install /\ late[j])

HonestBoth == \A j \in Jobs : Honest(st[j], j) /\ Honest(disk[j], j)

\* A job that is past its gate, and not over.
Contends(j) == req[j] \in {"sent", "ran"} \/ disk[j] = "running"

ContendersOverlap ==
    \A j, k \in Jobs :
        (j # k /\ Contends(j) /\ Contends(k) /\ Gate(j) = Gate(k))
            => j \in overlap[k] \/ k \in overlap[j]

JobsIInv ==
    /\ JobsTypeOK /\ DownIsEmpty /\ Recorded /\ ExpectsInstall /\ ReplyHolds
    /\ RunningOnDisk /\ FileMatches /\ HonestBoth /\ ContendersOverlap

-----------------------------------------------------------------------------
(* RemoteJobs: the initial states, and what follows from the invariant *)

\* The initial states satisfy the invariant.
LEMMA JobsInitIInv == JobsInit => JobsIInv
  BY JobsAssumption DEF JobsInit, JobsIInv, JobsTypeOK, DownIsEmpty, Recorded, ExpectsInstall, ReplyHolds,
     RunningOnDisk, FileMatches, HonestBoth, Honest, ContendersOverlap, Contends, Active, Status, Terminal,
     Replies, Ended

\* The invariant implies what the runs check: on disk and in memory an outcome
\* is honest, and an active job is a contender for its gate.
LEMMA JobsIInvImplies == JobsIInv => JobsTypeOK /\ RunningOnDisk /\ HonestOutcome /\ GateUpToOverlap
<1> SUFFICES ASSUME JobsIInv PROVE HonestOutcome /\ GateUpToOverlap
  BY DEF JobsIInv
<1>1. HonestOutcome
  BY DEF JobsIInv, HonestBoth, Honest, HonestOutcome
<1>2. GateUpToOverlap
  <2>1. \A j \in Jobs : Active(j) => disk[j] = "running"
    BY DEF JobsIInv, DownIsEmpty, RunningOnDisk, FileMatches, Active
  <2> QED
    BY <2>1 DEF JobsIInv, ContendersOverlap, Contends, GateUpToOverlap
<1> QED BY <1>1, <1>2

-----------------------------------------------------------------------------
(* RemoteJobs: saving and ending records *)

\* What _persist writes: a record or nothing, and always the running ones.
LEMMA PersistFacts ==
  ASSUME NEW s \in [Jobs -> Status], NEW e \in [Jobs -> BOOLEAN], Persist(s, e)
  PROVE  /\ disk' \in [Jobs -> Status] /\ diskExpect' \in [Jobs -> BOOLEAN]
         /\ \A j \in Jobs : /\ disk'[j] \in {s[j], "none"}
                            /\ disk'[j] = "running" <=> s[j] = "running"
                            /\ diskExpect'[j] => e[j]
  BY SMT DEF Persist, Kept, Status, Terminal

\* Ending a set of running records, for a reason that is true, keeps the
\* invariant: the shape of every handler that comes back from an await.
LEMMA FinishStep ==
  ASSUME JobsIInv, up, NEW S \in SUBSET Jobs, NEW o \in Terminal,
         \A j \in S : Active(j), Finish(S, o),
         UNCHANGED <<up, crashes, known, req, late, proc, overlap>>,
         heard' \in [Jobs -> BOOLEAN], \A j \in Jobs : heard[j] => heard'[j],
         kill' \in [Jobs -> {"none", "sent", "ran"}],
         poll' \in [Jobs -> {"none", "sent"} \union Replies],
         \A j \in Jobs : /\ poll'[j] \in Ended => proc[j] = poll'[j]
                         /\ poll'[j] # "none" => req[j] = "done",
         \A j \in S : Honest(o, j)'
  PROVE  JobsIInv'
<1>1. /\ st' \in [Jobs -> Status] /\ expect' \in [Jobs -> BOOLEAN]
      /\ \A j \in Jobs : /\ st'[j] = IF j \in S THEN o ELSE st[j]
                         /\ expect'[j] => expect[j]
  BY DEF JobsIInv, JobsTypeOK, Finish, Status
<1>2. /\ disk' \in [Jobs -> Status] /\ diskExpect' \in [Jobs -> BOOLEAN]
      /\ \A j \in Jobs : /\ disk'[j] \in {st'[j], "none"}
                         /\ disk'[j] = "running" <=> st'[j] = "running"
                         /\ diskExpect'[j] => expect'[j] \/ diskExpect[j]
  <2>1. CASE S = {}
    <3>1. UNCHANGED <<st, expect, disk, diskExpect>>
      BY <2>1 DEF Finish, JobsIInv, JobsTypeOK
    <3> QED
      BY <2>1, <3>1 DEF JobsIInv, JobsTypeOK, RunningOnDisk, FileMatches, Active
  <2>2. CASE S # {}
    <3>1. Persist(st', expect')
      BY <2>2 DEF Finish
    <3> QED
      BY <1>1, <3>1, SMT DEF Persist, Kept, Status, Terminal
  <2> QED
    BY <2>1, <2>2
<1>3. \A j \in S : req[j] = "done"
  BY DEF JobsIInv, Recorded, Active
<1>4. o \in Status /\ o # "running" /\ o # "none"
  BY DEF Terminal, Status
<1>5. JobsTypeOK'
  BY <1>1, <1>2 DEF JobsIInv, JobsTypeOK, Finish
<1>6. DownIsEmpty'
  BY DEF DownIsEmpty
<1>7. Recorded'
  BY <1>1, <1>2, <1>3 DEF JobsIInv, Recorded, JobsTypeOK
<1>8. ExpectsInstall'
  BY <1>1, <1>2 DEF JobsIInv, ExpectsInstall
<1>9. ReplyHolds'
  BY DEF ReplyHolds
<1>10. RunningOnDisk' /\ FileMatches'
  BY <1>2 DEF RunningOnDisk, FileMatches, Active
<1>11. HonestBoth'
  BY <1>1, <1>2 DEF JobsIInv, HonestBoth, Honest
<1>12. ContendersOverlap'
  <2>1. \A j \in Jobs : Contends(j)' => Contends(j)
    BY <1>1, <1>2, <1>4 DEF Contends, JobsIInv, RunningOnDisk, FileMatches, Active
  <2> QED
    BY <2>1 DEF JobsIInv, ContendersOverlap, Gate
<1> QED
  BY <1>5, <1>6, <1>7, <1>8, <1>9, <1>10, <1>11, <1>12 DEF JobsIInv

\* Saving the records as they are keeps the invariant.
LEMMA SavedStep ==
  ASSUME JobsIInv, up, Persist(st, expect),
         UNCHANGED <<up, crashes, known, req, st, expect, born, late, kill, proc, heard, overlap>>,
         poll' \in [Jobs -> {"none", "sent"} \union Replies],
         \A j \in Jobs : /\ poll'[j] \in Ended => proc[j] = poll'[j]
                         /\ poll'[j] # "none" => req[j] = "done"
  PROVE  JobsIInv'
<1>1. /\ disk' \in [Jobs -> Status] /\ diskExpect' \in [Jobs -> BOOLEAN]
      /\ \A j \in Jobs : /\ disk'[j] \in {st[j], "none"}
                         /\ disk'[j] = "running" <=> st[j] = "running"
                         /\ diskExpect'[j] => expect[j]
  BY PersistFacts DEF JobsIInv, JobsTypeOK
<1>2. JobsTypeOK' /\ DownIsEmpty' /\ Recorded' /\ ExpectsInstall' /\ ReplyHolds' /\ RunningOnDisk' /\ FileMatches'
  BY <1>1 DEF JobsIInv, JobsTypeOK, DownIsEmpty, Recorded, ExpectsInstall, ReplyHolds, RunningOnDisk, FileMatches, Active
<1>3. HonestBoth'
  BY <1>1 DEF JobsIInv, HonestBoth, Honest
<1>4. ContendersOverlap'
  BY <1>1 DEF JobsIInv, ContendersOverlap, Contends, Gate, RunningOnDisk, FileMatches, Active
<1> QED BY <1>2, <1>3, <1>4 DEF JobsIInv

-----------------------------------------------------------------------------
(* RemoteJobs: every action preserves the invariant *)

\* Passing the gate: a contender of the same gate is either in flight, and so
\* recorded in overlap, or running, and then the gate is closed.
LEMMA AdmitStep == ASSUME JobsIInv, NEW j \in Jobs, Admit(j) PROVE JobsIInv'
<1>1. /\ req' = [req EXCEPT ![j] = "sent"] /\ overlap' = [overlap EXCEPT ![j] = InFlight]
      /\ InFlight \in SUBSET Jobs /\ req[j] = "idle" /\ up
      /\ UNCHANGED <<up, crashes, known, st, expect, born, disk, diskExpect, late, poll, kill, proc, heard>>
  BY DEF Admit, InFlight, dash, rec
<1>2. /\ JobsTypeOK' /\ DownIsEmpty' /\ Recorded' /\ ExpectsInstall' /\ ReplyHolds'
      /\ RunningOnDisk' /\ FileMatches' /\ HonestBoth'
  BY <1>1 DEF JobsIInv, JobsTypeOK, DownIsEmpty, Recorded, ExpectsInstall, ReplyHolds,
     RunningOnDisk, FileMatches, HonestBoth, Honest, Active
<1>3. ContendersOverlap'
  <2>1. \A k \in Jobs : k # j => (Contends(k)' <=> Contends(k)) /\ overlap'[k] = overlap[k]
    BY <1>1 DEF Contends, JobsIInv, JobsTypeOK
  <2>2. \A k \in Jobs : k # j /\ Contends(k) /\ Gate(k) = Gate(j) => k \in overlap'[j]
    BY <1>1 DEF Contends, InFlight, Admit, Busy, JobsIInv, RunningOnDisk, FileMatches, Active, JobsTypeOK
  <2> QED
    BY <2>1, <2>2 DEF JobsIInv, ContendersOverlap, Gate
<1> QED BY <1>2, <1>3 DEF JobsIInv

\* The process exists from here on.
LEMMA LaunchRunsStep == ASSUME JobsIInv, NEW j \in Jobs, LaunchRuns(j) PROVE JobsIInv'
<1>1. /\ req' = [req EXCEPT ![j] = "ran"] /\ proc' = [proc EXCEPT ![j] = "alive"]
      /\ req[j] = "sent" /\ st[j] = "none" /\ disk[j] = "none" /\ poll[j] = "none"
      /\ UNCHANGED <<up, crashes, known, st, expect, born, disk, diskExpect, late, poll, kill, heard, overlap>>
  BY DEF LaunchRuns, dash, rec, hist, JobsIInv, Recorded
<1>2. JobsTypeOK' /\ DownIsEmpty' /\ Recorded' /\ ExpectsInstall' /\ RunningOnDisk' /\ FileMatches'
  BY <1>1 DEF JobsIInv, JobsTypeOK, DownIsEmpty, Recorded, ExpectsInstall, RunningOnDisk, FileMatches, Active
<1>3. ReplyHolds' /\ HonestBoth'
  BY <1>1 DEF JobsIInv, JobsTypeOK, ReplyHolds, HonestBoth, Honest, Ended
<1>4. ContendersOverlap'
  BY <1>1 DEF JobsIInv, JobsTypeOK, ContendersOverlap, Contends, Gate
<1> QED BY <1>2, <1>3, <1>4 DEF JobsIInv

\* The record is made and saved; the hello expectation is raised after the save.
LEMMA LaunchedStep == ASSUME JobsIInv, NEW j \in Jobs, Launched(j) PROVE JobsIInv'
<1>1. /\ req' = [req EXCEPT ![j] = "done"] /\ st' = [st EXCEPT ![j] = "running"]
      /\ expect' = [expect EXCEPT ![j] = j \in Install]
      /\ req[j] = "ran" /\ st[j] = "none" /\ disk[j] = "none" /\ up /\ proc[j] # "absent"
      /\ UNCHANGED <<up, crashes, known, late, poll, kill, proc, heard, overlap>>
  BY DEF Launched, dash, hist, JobsIInv, Recorded
<1>2. st' \in [Jobs -> Status] /\ expect \in [Jobs -> BOOLEAN] /\ Persist(st', expect)
  BY <1>1 DEF JobsIInv, JobsTypeOK, Status, Launched
<1>3. /\ disk' \in [Jobs -> Status] /\ diskExpect' \in [Jobs -> BOOLEAN]
      /\ \A k \in Jobs : /\ disk'[k] \in {st'[k], "none"}
                         /\ disk'[k] = "running" <=> st'[k] = "running"
                         /\ diskExpect'[k] => expect[k]
  BY <1>2, SMT DEF Persist, Kept, Status, Terminal
<1>4. born' \in [Jobs -> Nat]
  <2>1. Cardinality({k \in Jobs : req[k] = "done"}) \in Nat
    BY JobsAssumption, FS_Subset, FS_CardinalityType, Zenon DEF JobsAssumption
  <2> QED
    BY <2>1 DEF Launched, JobsIInv, JobsTypeOK
<1>5. JobsTypeOK' /\ DownIsEmpty' /\ Recorded' /\ ExpectsInstall' /\ ReplyHolds' /\ RunningOnDisk' /\ FileMatches'
  <2>1. JobsTypeOK'
    BY <1>1, <1>2, <1>3, <1>4 DEF JobsIInv, JobsTypeOK
  <2>2. DownIsEmpty' /\ RunningOnDisk' /\ FileMatches' /\ ReplyHolds'
    BY <1>1, <1>3 DEF JobsIInv, DownIsEmpty, RunningOnDisk, FileMatches, ReplyHolds, Active
  <2>3. Recorded' /\ ExpectsInstall'
    BY <1>1, <1>3 DEF JobsIInv, JobsTypeOK, Recorded, ExpectsInstall
  <2> QED
    BY <2>1, <2>2, <2>3
<1>6. HonestBoth'
  BY <1>1, <1>3 DEF JobsIInv, JobsTypeOK, HonestBoth, Honest
<1>7. ContendersOverlap'
  <2>1. \A k \in Jobs : Contends(k)' => Contends(k)
    BY <1>1, <1>3 DEF Contends, JobsIInv, JobsTypeOK, RunningOnDisk, FileMatches, Active
  <2> QED
    BY <1>1, <2>1 DEF JobsIInv, ContendersOverlap, Gate
<1> QED BY <1>5, <1>6, <1>7 DEF JobsIInv

\* A failed launch, a deadline, a poll on its way to the node, a cancel on its
\* way: no record changes.
LEMMA LaunchFailsStep == ASSUME JobsIInv, NEW j \in Jobs, LaunchFails(j) PROVE JobsIInv'
<1>1. /\ req' = [req EXCEPT ![j] = "failed"] /\ req[j] \in {"sent", "ran"}
      /\ UNCHANGED <<up, crashes, known, st, expect, born, disk, diskExpect, late, poll, kill, proc, heard, overlap>>
  BY DEF LaunchFails, InFlight, dash, rec, hist
<1>2. /\ JobsTypeOK' /\ DownIsEmpty' /\ Recorded' /\ ExpectsInstall' /\ ReplyHolds'
      /\ RunningOnDisk' /\ FileMatches' /\ HonestBoth'
  BY <1>1 DEF JobsIInv, JobsTypeOK, DownIsEmpty, Recorded, ExpectsInstall, ReplyHolds, RunningOnDisk, FileMatches,
     HonestBoth, Honest, Active
<1>3. ContendersOverlap'
  BY <1>1, ZenonT(30) DEF JobsIInv, JobsTypeOK, ContendersOverlap, Contends, Gate
<1> QED BY <1>2, <1>3 DEF JobsIInv

\* Time passes.
LEMMA HelloTimeStep == ASSUME JobsIInv, NEW j \in Jobs, HelloTime(j) PROVE JobsIInv'
<1>1. /\ late' = [late EXCEPT ![j] = TRUE]
      /\ UNCHANGED <<up, crashes, known, req, st, expect, born, disk, diskExpect, poll, kill, proc, heard, overlap>>
  BY DEF HelloTime, dash, rec, calls, hist
<1>2. /\ JobsTypeOK' /\ DownIsEmpty' /\ Recorded' /\ ExpectsInstall' /\ ReplyHolds'
      /\ RunningOnDisk' /\ FileMatches' /\ ContendersOverlap'
  BY <1>1 DEF JobsIInv, JobsTypeOK, DownIsEmpty, Recorded, ExpectsInstall, ReplyHolds, RunningOnDisk, FileMatches,
     Active, ContendersOverlap, Contends, Gate
<1>3. HonestBoth'
  BY <1>1 DEF JobsIInv, JobsTypeOK, HonestBoth, Honest
<1> QED BY <1>2, <1>3 DEF JobsIInv

\* What a poll reads is true when it is read, and stays so if it is an end.
LEMMA PollRunsStep == ASSUME JobsIInv, NEW j \in Jobs, PollRuns(j) PROVE JobsIInv'
<1>1. /\ poll' = [poll EXCEPT ![j] = proc[j]] /\ poll[j] = "sent"
      /\ UNCHANGED <<up, crashes, known, req, st, expect, born, disk, diskExpect, late, kill, proc, heard, overlap>>
  BY DEF PollRuns, dash, rec, hist
<1>2. up /\ req[j] = "done" /\ proc[j] \in Replies
  BY <1>1 DEF JobsIInv, DownIsEmpty, Recorded, JobsTypeOK, Replies, Ended
<1>3. /\ JobsTypeOK' /\ DownIsEmpty' /\ Recorded' /\ ExpectsInstall' /\ ReplyHolds' /\ RunningOnDisk' /\ FileMatches'
  BY <1>1, <1>2 DEF JobsIInv, JobsTypeOK, DownIsEmpty, Recorded, ExpectsInstall, ReplyHolds, RunningOnDisk, FileMatches, Active
<1>4. HonestBoth' /\ ContendersOverlap'
  BY <1>1 DEF JobsIInv, HonestBoth, Honest, ContendersOverlap, Contends, Gate
<1> QED BY <1>3, <1>4 DEF JobsIInv

\* A cancel is on its way.
LEMMA CancelSentStep == ASSUME JobsIInv, NEW j \in Jobs, CancelSent(j) PROVE JobsIInv'
<1>1. /\ kill' = [kill EXCEPT ![j] = "sent"] /\ up
      /\ UNCHANGED <<up, crashes, known, req, st, expect, born, disk, diskExpect, late, poll, proc, heard, overlap>>
  BY DEF CancelSent, dash, rec, hist
<1>2. /\ JobsTypeOK' /\ DownIsEmpty' /\ Recorded' /\ ExpectsInstall' /\ ReplyHolds' /\ RunningOnDisk' /\ FileMatches'
  BY <1>1 DEF JobsIInv, JobsTypeOK, DownIsEmpty, Recorded, ExpectsInstall, ReplyHolds, RunningOnDisk, FileMatches, Active
<1>3. HonestBoth' /\ ContendersOverlap'
  BY <1>1 DEF JobsIInv, HonestBoth, Honest, ContendersOverlap, Contends, Gate
<1> QED BY <1>2, <1>3 DEF JobsIInv

\* A process that ends leaves every outcome and every reply as true as it was.
LEMMA ProcMoves ==
  ASSUME JobsIInv, NEW j \in Jobs, NEW e \in Ended, proc' = [proc EXCEPT ![j] = e], proc[j] = "alive",
         kill' \in [Jobs -> {"none", "sent", "ran"}], up \/ kill' = kill,
         UNCHANGED <<up, crashes, known, req, st, expect, born, disk, diskExpect, late, poll, heard, overlap>>
  PROVE  JobsIInv'
<1>1. JobsTypeOK' /\ DownIsEmpty' /\ ExpectsInstall' /\ RunningOnDisk' /\ FileMatches'
  BY DEF JobsIInv, JobsTypeOK, DownIsEmpty, ExpectsInstall, RunningOnDisk, FileMatches, Active
<1>3. Recorded'
  BY DEF JobsIInv, JobsTypeOK, Recorded, Ended
<1>4. ContendersOverlap'
  BY DEF JobsIInv, ContendersOverlap, Contends, Gate
<1>2. ReplyHolds' /\ HonestBoth'
  BY DEF JobsIInv, JobsTypeOK, ReplyHolds, HonestBoth, Honest, Ended
<1> QED BY <1>1, <1>2, <1>3, <1>4 DEF JobsIInv

\* A script ends.
LEMMA ProcEndsStep == ASSUME JobsIInv, NEW j \in Jobs, ProcEnds(j) PROVE JobsIInv'
<1>1. PICK e \in Ended : proc' = [proc EXCEPT ![j] = e]
  BY DEF ProcEnds
<1> QED
  BY <1>1, ProcMoves DEF ProcEnds, dash, rec, calls, hist, JobsIInv, JobsTypeOK

\* A cancel reaches the node.
LEMMA CancelRunsStep == ASSUME JobsIInv, NEW j \in Jobs, CancelRuns(j) PROVE JobsIInv'
<1>1. /\ kill' = [kill EXCEPT ![j] = "ran"] /\ kill[j] = "sent"
      /\ UNCHANGED <<up, crashes, known, req, st, expect, born, disk, diskExpect, late, poll, heard, overlap>>
  BY DEF CancelRuns, dash, rec, hist
<1>2. up /\ kill' \in [Jobs -> {"none", "sent", "ran"}]
  BY <1>1 DEF JobsIInv, DownIsEmpty, JobsTypeOK
<1>3. CASE proc[j] = "alive" /\ proc' = [proc EXCEPT ![j] = "dead"]
  <2>1. "dead" \in Ended
    BY DEF Ended
  <2> QED
    BY <1>1, <1>2, <1>3, <2>1, ProcMoves
<1>4. CASE UNCHANGED proc
  BY <1>1, <1>2, <1>4 DEF JobsIInv, JobsTypeOK, DownIsEmpty, Recorded, ExpectsInstall, ReplyHolds,
     RunningOnDisk, FileMatches, Active, HonestBoth, Honest, ContendersOverlap, Contends, Gate
<1> QED
  BY <1>3, <1>4 DEF CancelRuns, JobsIInv, JobsTypeOK

\* The handlers that come back from a command, and those that poll.
LEMMA PollAnswersStep == ASSUME JobsIInv, NEW j \in Jobs, PollAnswers(j) PROVE JobsIInv'
<1>1. /\ poll' = [poll EXCEPT ![j] = "none"] /\ up /\ poll[j] \in Replies
      /\ UNCHANGED <<up, crashes, known, req, late, kill, proc, heard, overlap>>
  BY DEF PollAnswers, dash, hist
<1>2. /\ poll' \in [Jobs -> {"none", "sent"} \union Replies]
      /\ \A k \in Jobs : /\ poll'[k] \in Ended => proc[k] = poll'[k]
                         /\ poll'[k] # "none" => req[k] = "done"
  BY <1>1 DEF JobsIInv, JobsTypeOK, ReplyHolds, Recorded, Ended
<1>3. CASE expect[j] /\ poll[j] = "exit0"
  <2>1. Persist(st, expect) /\ UNCHANGED <<st, expect, born>>
    BY <1>3 DEF PollAnswers
  <2> QED
    BY <1>1, <1>2, <2>1, SavedStep DEF JobsIInv, JobsTypeOK
<1>4. CASE ~(expect[j] /\ poll[j] = "exit0")
  <2>1. PICK o : o = Outcome(poll[j])
    OBVIOUS
  <2>2. PICK S : S = IF poll[j] = "alive" THEN {} ELSE StillRunning(j)
    OBVIOUS
  <2>3. Finish(S, o)
    BY <1>4, <2>1, <2>2 DEF PollAnswers
  <2>4. S \in SUBSET Jobs /\ \A k \in S : k = j /\ Active(k) /\ poll[j] # "alive"
    BY <2>2 DEF StillRunning
  <2>5. o \in Terminal
    BY <2>1 DEF Outcome, Terminal
  <2>6. \A k \in S : Honest(o, k)'
    BY <1>1, <2>1, <2>4 DEF Honest, Outcome, JobsIInv, ReplyHolds, Replies, Ended
  <2> QED
    BY <1>1, <1>2, <2>3, <2>4, <2>5, <2>6, FinishStep DEF JobsIInv, JobsTypeOK
<1> QED BY <1>3, <1>4

\* A poll throws, and the records are saved.
LEMMA PollFailsStep == ASSUME JobsIInv, NEW j \in Jobs, PollFails(j) PROVE JobsIInv'
<1>1. /\ poll' = [poll EXCEPT ![j] = "none"] /\ up /\ Persist(st, expect)
      /\ UNCHANGED <<up, crashes, known, st, expect, born, req, late, kill, proc, heard, overlap>>
  BY DEF PollFails, dash, hist
<1>2. /\ poll' \in [Jobs -> {"none", "sent"} \union Replies]
      /\ \A k \in Jobs : /\ poll'[k] \in Ended => proc[k] = poll'[k]
                         /\ poll'[k] # "none" => req[k] = "done"
  BY <1>1 DEF JobsIInv, JobsTypeOK, ReplyHolds, Recorded, Ended
<1> QED BY <1>1, <1>2, SavedStep

\* Polling a set of jobs, with the deadline enforced first.
LEMMA PollAllStep ==
  ASSUME JobsIInv, up, NEW P \in SUBSET Jobs, NEW W \in SUBSET Jobs, \A j \in P : Active(j), PollAll(P, W)
  PROVE  JobsIInv'
<1>1. PICK S : S = IF \E j \in W : expect[j] THEN Stale ELSE {}
  OBVIOUS
<1>2. /\ Finish(S, "failed") /\ S \in SUBSET Jobs
      /\ \A j \in S : Active(j) /\ expect[j] /\ late[j] /\ j \in Install
  BY <1>1 DEF PollAll, Stale, JobsIInv, ExpectsInstall
<1>3. UNCHANGED <<up, crashes, known, req, kill, late, proc, heard, overlap>>
  BY DEF PollAll, dash, hist
<1>4. poll' = [j \in Jobs |-> IF j \in P /\ poll[j] = "none" /\ st'[j] = "running"
                             THEN "sent" ELSE poll[j]]
  BY DEF PollAll
<1>5. /\ poll' \in [Jobs -> {"none", "sent"} \union Replies]
      /\ \A j \in Jobs : /\ poll'[j] \in Ended => proc[j] = poll'[j]
                         /\ poll'[j] # "none" => req[j] = "done"
  BY <1>4 DEF JobsIInv, JobsTypeOK, ReplyHolds, Recorded, Ended, Active
<1>6. "failed" \in Terminal /\ \A j \in S : Honest("failed", j)'
  BY <1>2, <1>3 DEF Honest, Terminal
<1> QED
  BY <1>2, <1>3, <1>5, <1>6, FinishStep DEF JobsIInv, JobsTypeOK

\* A poll of one job.
LEMMA PollOneStep == ASSUME JobsIInv, NEW j \in Jobs, PollOne(j) PROVE JobsIInv'
<1>1. PollAll({j}, {j}) /\ up /\ \A k \in {j} : Active(k)
  BY DEF PollOne, Pollable
<1> QED BY <1>1, PollAllStep

\* A tick of the sweeper.
LEMMA SweepStep == ASSUME JobsIInv, Sweep PROVE JobsIInv'
<1>1. PICK P : P = Pollable
  OBVIOUS
<1>2. PICK W : W = {j \in Jobs : Active(j)}
  OBVIOUS
<1>3. PollAll(P, W) /\ up /\ P \in SUBSET Jobs /\ W \in SUBSET Jobs /\ \A k \in P : Active(k)
  BY <1>1, <1>2 DEF Sweep, Pollable
<1> QED BY <1>3, PollAllStep

\* A hello completes the jobs that wait for it.
LEMMA HelloStep == ASSUME JobsIInv, NEW n \in Nodes, Hello(n) PROVE JobsIInv'
<1>1. PICK S : S = Awaited(n)
  OBVIOUS
<1>2. /\ Finish(S, "completed") /\ S \in SUBSET Jobs /\ up
      /\ \A j \in S : Active(j) /\ j \in Install /\ NodeOf[j] = n
  BY <1>1 DEF Hello, Awaited, JobsIInv, ExpectsInstall
<1>3. UNCHANGED <<up, crashes, known, req, poll, kill, late, proc, overlap>>
  BY DEF Hello, dash, calls
<1>4. heard' = [j \in Jobs |-> heard[j] \/ (j \in Install /\ Active(j) /\ NodeOf[j] = n)]
  BY DEF Hello
<1>5. heard' \in [Jobs -> BOOLEAN] /\ \A j \in Jobs : heard[j] => heard'[j]
  BY <1>4
<1>6. "completed" \in Terminal /\ \A j \in S : Honest("completed", j)'
  BY <1>2, <1>4 DEF Honest, Terminal
<1>7. \A j \in Jobs : /\ poll'[j] \in Ended => proc[j] = poll'[j]
                      /\ poll'[j] # "none" => req[j] = "done"
  BY <1>3 DEF JobsIInv, ReplyHolds, Recorded
<1> QED
  BY <1>2, <1>3, <1>5, <1>6, <1>7, FinishStep DEF JobsIInv, JobsTypeOK

\* A cancel returns.
LEMMA CancelReturnsStep == ASSUME JobsIInv, NEW j \in Jobs, CancelReturns(j) PROVE JobsIInv'
<1>1. PICK S : S = StillRunning(j)
  OBVIOUS
<1>2. /\ Finish(S, "cancelled") /\ S \in SUBSET Jobs /\ up /\ \A k \in S : Active(k)
      /\ kill' = [kill EXCEPT ![j] = "none"]
      /\ UNCHANGED <<up, crashes, known, req, poll, late, proc, heard, overlap>>
  BY <1>1 DEF CancelReturns, StillRunning, dash, hist
<1>3. /\ kill' \in [Jobs -> {"none", "sent", "ran"}]
      /\ \A k \in Jobs : /\ poll'[k] \in Ended => proc[k] = poll'[k]
                         /\ poll'[k] # "none" => req[k] = "done"
  BY <1>2 DEF JobsIInv, JobsTypeOK, ReplyHolds, Recorded
<1>4. "cancelled" \in Terminal /\ \A k \in S : Honest("cancelled", k)'
  BY DEF Honest, Terminal
<1> QED
  BY <1>2, <1>3, <1>4, FinishStep DEF JobsIInv, JobsTypeOK

\* A spark is removed; its jobs stay.
LEMMA RemoveSparkStep == ASSUME JobsIInv, NEW n \in Nodes, RemoveSpark(n) PROVE JobsIInv'
<1>1. /\ known' = known \ {n}
      /\ UNCHANGED <<up, crashes, req, st, expect, born, disk, diskExpect, late, poll, kill, proc, heard, overlap>>
  BY DEF RemoveSpark, rec, calls, hist
<1> QED
  BY <1>1 DEF JobsIInv, JobsTypeOK, DownIsEmpty, Recorded, ExpectsInstall, ReplyHolds,
     RunningOnDisk, FileMatches, Active, HonestBoth, Honest, ContendersOverlap, Contends, Gate

\* A crash empties the memory; what is on disk is as honest as before.
LEMMA CrashStep == ASSUME JobsIInv, Crash PROVE JobsIInv'
<1>1. /\ up' = FALSE /\ crashes' = crashes + 1
      /\ st' = [j \in Jobs |-> "none"] /\ expect' = [j \in Jobs |-> FALSE]
      /\ req' = [j \in Jobs |-> IF j \in InFlight THEN "failed" ELSE req[j]]
      /\ poll' = [j \in Jobs |-> "none"] /\ kill' = [j \in Jobs |-> "none"]
      /\ UNCHANGED <<known, born, disk, diskExpect, late, proc, heard, overlap>>
  BY DEF Crash, hist
<1>2. \A j \in Jobs : /\ req[j] \in {"sent", "ran"} => req'[j] = "failed"
                      /\ req[j] \notin {"sent", "ran"} => req'[j] = req[j]
  BY <1>1 DEF InFlight
<1>3. JobsTypeOK'
  <2>1. req' \in [Jobs -> {"idle", "sent", "ran", "done", "failed"}] /\ crashes' \in Nat
    BY <1>1 DEF JobsIInv, JobsTypeOK
  <2>2. /\ st' \in [Jobs -> Status] /\ expect' \in [Jobs -> BOOLEAN]
        /\ poll' \in [Jobs -> {"none", "sent"} \union Replies]
        /\ kill' \in [Jobs -> {"none", "sent", "ran"}]
    BY <1>1 DEF Status
  <2> QED
    BY <1>1, <2>1, <2>2 DEF JobsIInv, JobsTypeOK
<1>4. DownIsEmpty' /\ ReplyHolds' /\ RunningOnDisk' /\ FileMatches'
  BY <1>1, <1>2 DEF DownIsEmpty, ReplyHolds, RunningOnDisk, FileMatches, Ended
<1>5. Recorded' /\ ExpectsInstall'
  BY <1>1, <1>2 DEF JobsIInv, Recorded, ExpectsInstall, JobsTypeOK
<1>6. HonestBoth'
  BY <1>1 DEF JobsIInv, HonestBoth, Honest
<1>7. ContendersOverlap'
  <2>1. \A j \in Jobs : Contends(j)' => Contends(j)
    BY <1>1, <1>2 DEF Contends
  <2> QED
    BY <1>1, <2>1 DEF JobsIInv, ContendersOverlap, Gate
<1> QED BY <1>3, <1>4, <1>5, <1>6, <1>7 DEF JobsIInv

\* The records are what the state file holds.
LEMMA RestartStep == ASSUME JobsIInv, Restart PROVE JobsIInv'
<1>1. /\ up' = TRUE /\ st' = disk /\ expect' = diskExpect
      /\ UNCHANGED <<crashes, known, born, disk, diskExpect, req, poll, kill, late, proc, heard, overlap>>
  BY DEF Restart, calls, hist
<1>2. JobsTypeOK' /\ DownIsEmpty' /\ Recorded' /\ ExpectsInstall' /\ ReplyHolds' /\ RunningOnDisk' /\ FileMatches'
  BY <1>1 DEF JobsIInv, JobsTypeOK, DownIsEmpty, Recorded, ExpectsInstall, ReplyHolds, RunningOnDisk, FileMatches, Active
<1>3. HonestBoth' /\ ContendersOverlap'
  BY <1>1 DEF JobsIInv, HonestBoth, Honest, ContendersOverlap, Contends, Gate
<1> QED BY <1>2, <1>3 DEF JobsIInv

\* Every step preserves the invariant.
LEMMA JobsNextStep == JobsIInv /\ [JobsNext]_jobsVars => JobsIInv'
<1> SUFFICES ASSUME JobsIInv, [JobsNext]_jobsVars PROVE JobsIInv'
  OBVIOUS
<1>1. ASSUME NEW j \in Jobs,
             \/ Admit(j) \/ LaunchRuns(j) \/ Launched(j) \/ LaunchFails(j)
             \/ HelloTime(j)
             \/ PollOne(j) \/ PollRuns(j) \/ PollFails(j) \/ PollAnswers(j)
             \/ CancelSent(j) \/ CancelRuns(j) \/ CancelReturns(j)
             \/ ProcEnds(j)
      PROVE  JobsIInv'
  BY <1>1, AdmitStep, LaunchRunsStep, LaunchedStep, LaunchFailsStep, HelloTimeStep,
     PollOneStep, PollRunsStep, PollFailsStep, PollAnswersStep,
     CancelSentStep, CancelRunsStep, CancelReturnsStep, ProcEndsStep
<1>2. ASSUME NEW n \in Nodes, Hello(n) \/ RemoveSpark(n) PROVE JobsIInv'
  BY <1>2, HelloStep, RemoveSparkStep
<1>3. CASE Sweep \/ Crash \/ Restart
  BY <1>3, SweepStep, CrashStep, RestartStep
<1>4. CASE UNCHANGED jobsVars
  BY <1>4 DEF jobsVars, dash, rec, calls, hist, JobsIInv, JobsTypeOK, DownIsEmpty, Recorded, ExpectsInstall,
     ReplyHolds, RunningOnDisk, FileMatches, Active, HonestBoth, Honest, ContendersOverlap, Contends, Gate
<1> QED BY <1>1, <1>2, <1>3, <1>4 DEF JobsNext

-----------------------------------------------------------------------------
(* RemoteJobs: the theorems *)

\* The inductive invariant holds in every reachable state, for any parameters.
THEOREM JobsInvariance == JobsSpec => []JobsIInv
  BY JobsInitIInv, JobsNextStep, PTL DEF JobsSpec

\* Every variable of the manager stays in its type.
THEOREM JobsTypeCorrect == JobsSpec => []JobsTypeOK
  BY JobsInvariance, JobsIInvImplies, PTL

\* A running job is never evicted from the state file, and an ended job is
\* never running in it.
THEOREM ActiveJobsPersist == JobsSpec => []RunningOnDisk
  BY JobsInvariance, JobsIInvImplies, PTL

\* Completed, failed and interrupted are true of the node, however old the
\* poll reply and however many restarts lie between.
THEOREM OutcomesAreHonest == JobsSpec => []HonestOutcome
  BY JobsInvariance, JobsIInvImplies, PTL

\* The node gate and the folder gate hold except for requests whose launches
\* overlapped.
THEOREM GatesHoldUpToOverlap == JobsSpec => []GateUpToOverlap
  BY JobsInvariance, JobsIInvImplies, PTL

-----------------------------------------------------------------------------
(* RemoteJobs: the manager implements the job life cycle *)

\* One step of one record, as JobLifecycle allows it besides recording.
Moves(j) ==
    \/ Record(j)' = Record(j)
    \/ Record(j) = "running" /\ Record(j)' \in Terminal
    \/ Record(j) \in Terminal /\ Record(j)' = "gone"

\* Steps in which no record is created, ended or lost.
LEMMA SameRecords ==
  ASSUME UNCHANGED up, \A j \in Jobs : req'[j] = "done" <=> req[j] = "done",
         up => st' = st, ~up => disk' = disk
  PROVE  \A j \in Jobs : Record(j)' = Record(j)
  BY DEF Record

\* Ending running records is a move of each of them.
LEMMA FinishMoves ==
  ASSUME JobsIInv, up, UNCHANGED <<up, req>>, NEW S \in SUBSET Jobs, NEW o \in Terminal,
         \A j \in S : Active(j), Finish(S, o)
  PROVE  \A j \in Jobs : Moves(j)
<1>1. \A j \in Jobs : st'[j] = IF j \in S THEN o ELSE st[j]
  BY DEF Finish
<1>2. \A j \in Jobs : Active(j) => req[j] = "done"
  BY DEF JobsIInv, Recorded, Active
<1> QED
  BY <1>1, <1>2 DEF Moves, Record, Active, Terminal

\* Every step moves each record as the life cycle allows, or records one job.
LEMMA StepMoves ==
  ASSUME JobsIInv, [JobsNext]_jobsVars
  PROVE  \/ \A j \in Jobs : Moves(j)
         \/ \E j \in Jobs : /\ Record(j) = "none" /\ Record(j)' = "running"
                           /\ \A k \in Jobs \ {j} : Record(k)' = Record(k)
<1>1. ASSUME NEW j \in Jobs,
             \/ Admit(j) \/ LaunchRuns(j) \/ LaunchFails(j) \/ HelloTime(j)
             \/ PollRuns(j) \/ PollFails(j) \/ CancelSent(j) \/ CancelRuns(j) \/ ProcEnds(j)
      PROVE  \A k \in Jobs : Moves(k)
  <2>1. /\ UNCHANGED <<up, st>> /\ (~up => disk' = disk)
        /\ \A k \in Jobs : req'[k] = "done" <=> req[k] = "done"
    BY <1>1 DEF Admit, LaunchRuns, LaunchFails, HelloTime, PollRuns, PollFails, CancelSent,
       CancelRuns, ProcEnds, InFlight, dash, rec, calls, JobsIInv, JobsTypeOK
  <2> QED
    BY <2>1, SameRecords DEF Moves
<1>2. ASSUME NEW j \in Jobs, Launched(j)
      PROVE  /\ Record(j) = "none" /\ Record(j)' = "running"
             /\ \A k \in Jobs \ {j} : Record(k)' = Record(k)
  <2>1. /\ req' = [req EXCEPT ![j] = "done"] /\ st' = [st EXCEPT ![j] = "running"]
        /\ req[j] = "ran" /\ up /\ up' = up
    BY <1>2 DEF Launched, dash
  <2> QED
    BY <2>1 DEF Record, JobsIInv, JobsTypeOK
<1>3. ASSUME NEW j \in Jobs, PollAnswers(j) PROVE \A k \in Jobs : Moves(k)
  <2>1. up /\ UNCHANGED <<up, req>>
    BY <1>3 DEF PollAnswers, dash
  <2>2. CASE expect[j] /\ poll[j] = "exit0"
    <3>1. UNCHANGED st
      BY <1>3, <2>2 DEF PollAnswers
    <3> QED
      BY <2>1, <3>1, SameRecords DEF Moves
  <2>3. CASE ~(expect[j] /\ poll[j] = "exit0")
    <3>1. PICK S : S = IF poll[j] = "alive" THEN {} ELSE StillRunning(j)
      OBVIOUS
    <3>2. PICK o : o = Outcome(poll[j])
      OBVIOUS
    <3>3. Finish(S, o) /\ o \in Terminal /\ S \in SUBSET Jobs /\ \A k \in S : Active(k)
      BY <1>3, <2>3, <3>1, <3>2 DEF PollAnswers, Outcome, Terminal, StillRunning
    <3> QED
      BY <2>1, <3>3, FinishMoves
  <2> QED BY <2>2, <2>3
<1>4. ASSUME NEW j \in Jobs, CancelReturns(j) PROVE \A k \in Jobs : Moves(k)
  <2>1. PICK S : S = StillRunning(j)
    OBVIOUS
  <2>2. /\ Finish(S, "cancelled") /\ "cancelled" \in Terminal /\ S \in SUBSET Jobs
        /\ up /\ UNCHANGED <<up, req>> /\ \A k \in S : Active(k)
    BY <1>4, <2>1 DEF CancelReturns, StillRunning, Terminal, dash
  <2> QED
    BY <2>2, FinishMoves
<1>5. ASSUME NEW n \in Nodes, Hello(n) PROVE \A k \in Jobs : Moves(k)
  <2>1. PICK S : S = Awaited(n)
    OBVIOUS
  <2>2. /\ Finish(S, "completed") /\ "completed" \in Terminal /\ S \in SUBSET Jobs
        /\ up /\ UNCHANGED <<up, req>> /\ \A k \in S : Active(k)
    BY <1>5, <2>1 DEF Hello, Awaited, Terminal, dash, calls
  <2> QED
    BY <2>2, FinishMoves
<1>6. ASSUME NEW P, NEW W, PollAll(P, W), up PROVE \A k \in Jobs : Moves(k)
  <2>1. PICK S : S = IF \E j \in W : expect[j] THEN Stale ELSE {}
    OBVIOUS
  <2>2. /\ Finish(S, "failed") /\ "failed" \in Terminal /\ S \in SUBSET Jobs
        /\ up /\ UNCHANGED <<up, req>> /\ \A k \in S : Active(k)
    BY <1>6, <2>1 DEF PollAll, Stale, Terminal, dash
  <2> QED
    BY <2>2, FinishMoves
<1>7. ASSUME NEW n \in Nodes, RemoveSpark(n) PROVE \A k \in Jobs : Moves(k)
  <2>1. UNCHANGED <<up, req, st, disk>>
    BY <1>7 DEF RemoveSpark, rec, calls
  <2> QED
    BY <2>1, SameRecords DEF Moves
<1>8. CASE Crash
  <2>1. /\ up /\ ~up' /\ UNCHANGED disk
        /\ \A j \in Jobs : req'[j] = "done" <=> req[j] = "done"
    BY <1>8 DEF Crash, InFlight
  <2>2. \A j \in Jobs : /\ disk[j] \in {st[j], "none"} /\ st[j] \in Status
                        /\ disk[j] = "running" <=> st[j] = "running"
    BY <2>1 DEF JobsIInv, JobsTypeOK, FileMatches, RunningOnDisk, Active
  <2> QED
    BY <2>1, <2>2 DEF Moves, Record, Status, Terminal
<1>9. CASE Restart
  <2>1. /\ ~up /\ up' /\ st' = disk /\ UNCHANGED <<disk, req>>
    BY <1>9 DEF Restart, calls
  <2> QED
    BY <2>1 DEF Moves, Record
<1>10. CASE UNCHANGED jobsVars
  <2>1. UNCHANGED <<up, req, st, disk>>
    BY <1>10 DEF jobsVars, dash, rec, calls
  <2> QED
    BY <2>1, SameRecords DEF Moves
<1>11. CASE JobsNext
  BY <1>1, <1>2, <1>3, <1>4, <1>5, <1>6, <1>7, <1>8, <1>9, <1>11 DEF JobsNext, PollOne, Sweep
<1> QED BY <1>10, <1>11

\* The initial states map to the initial state of the life cycle.
LEMMA InitMaps == JobsInit => Lifecycle!Init
  BY DEF JobsInit, Lifecycle!Init, Record

\* Every step of the manager is a step, or a stutter, of the life cycle.
LEMMA StepMaps ==
  ASSUME JobsIInv, JobsIInv', [JobsNext]_jobsVars
  PROVE  [Lifecycle!Next]_[j \in Jobs |-> Record(j)]
<1> DEFINE out == [j \in Jobs |-> Record(j)]
<1>1. \A j \in Jobs : Record(j)' \in Lifecycle!States
  BY DEF JobsIInv, JobsTypeOK, Record, Status, Terminal, Lifecycle!States, Lifecycle!Terminal
<1>2. CASE \A j \in Jobs : Moves(j)
  <2>1. PICK next : next = out'
    OBVIOUS
  <2>2. next \in [Jobs -> Lifecycle!States]
    BY <1>1, <2>1
  <2>3. \A j \in Jobs : \/ next[j] = out[j]
                        \/ out[j] = "running" /\ next[j] \in Lifecycle!Terminal
                        \/ out[j] \in Lifecycle!Terminal /\ next[j] = "gone"
    BY <1>2, <2>1 DEF Moves, Terminal, Lifecycle!Terminal
  <2>4. Lifecycle!Advance
    BY <2>1, <2>2, <2>3 DEF Lifecycle!Advance
  <2> QED
    BY <2>4 DEF Lifecycle!Next
<1>3. ASSUME NEW j \in Jobs, Record(j) = "none", Record(j)' = "running",
             \A k \in Jobs \ {j} : Record(k)' = Record(k)
      PROVE  Lifecycle!Next
  <2>1. Lifecycle!Record(j)
    BY <1>3 DEF Lifecycle!Record, Lifecycle!Move
  <2> QED
    BY <2>1 DEF Lifecycle!Next
<1> QED
  BY <1>2, <1>3, StepMoves

\* RemoteJobs implements JobLifecycle: what the code does to one job, through
\* cancels, hellos, deadlines, stale replies and restarts, is one recording,
\* one outcome that is never revised, and forgetting only after it.
THEOREM Implementation == JobsSpec => ImplementsLifecycle
<1>1. JobsIInv /\ [JobsNext]_jobsVars => JobsIInv'
  BY JobsNextStep
<1>2. JobsIInv /\ JobsIInv' /\ [JobsNext]_jobsVars => [Lifecycle!Next]_[j \in Jobs |-> Record(j)]
  BY StepMaps
<1> QED
  BY <1>1, <1>2, JobsInitIInv, InitMaps, PTL DEF JobsSpec, ImplementsLifecycle, Lifecycle!Spec

(***************************************************************************)
(* The traces and the page that follows them                               *)
(***************************************************************************)

NewerRows(kept, row) == {u \in kept : u.seq > row.seq}

\* Rows of which each has a number of its own.
Numbered(kept) == IsFiniteSet(kept) /\ kept \subseteq Traces /\ \A row, u \in kept : row.seq = u.seq => row = u

Descending(s) == \A i, j \in DOMAIN s : i < j => s[i].seq > s[j].seq

\* The rows of an answer, or of the page: those of a filter after one number
\* and up to another.
RowsOK(s, f, since, last) ==
    /\ s \in Seq(Traces) /\ Descending(s)
    /\ \A i \in DOMAIN s : f \in {AllKinds, s[i].kind} /\ s[i].seq > since /\ s[i].seq <= last

\* They are all that is stored of them.
Has(stored, s, f, since, last) ==
    \A row \in stored : f \in {AllKinds, row.kind} /\ row.seq > since /\ row.seq <= last => \E i \in DOMAIN s : s[i] = row

\* The number that a call asks for rows after.
AskedAfter(x) == IF x.kind = "poll" THEN x.since ELSE 0

CallRecords ==
    [kind : {"none", "load", "poll", "clear"}, for : Filters, since : Nat, answered : BOOLEAN,
     rows : Seq(Traces), more : BOOLEAN, last : Nat]

\* What was answered is still true of the traces up to the last number then.
AnswerOK(x, stored, given) ==
    x.answered =>
        /\ x.last <= given
        /\ RowsOK(x.rows, x.for, AskedAfter(x), x.last) /\ Len(x.rows) <= PageLimit
        /\ ~x.more => Has(stored, x.rows, x.for, AskedAfter(x), x.last)

TableOK == Numbered(table) /\ sequence \in 0..MaxTraces /\ \A row \in table : row.seq <= sequence

PageOK ==
    /\ filter \in Filters /\ overlapped \in BOOLEAN /\ cut \in BOOLEAN /\ turns \in Nat
    /\ shown \in Seq(Traces) /\ Len(shown) <= KeepLimit
    /\ lastSeq \in Nat /\ lastSeq <= sequence

CallsOK == DOMAIN call = Calls /\ \A c \in Calls : call[c] \in CallRecords /\ AnswerOK(call[c], table, sequence)

\* Calls that come one after the other are of what the page shows.
CallsInTurn ==
    /\ \A c, d \in Waiting : c = d
    /\ \A c \in Waiting : call[c].for = filter /\ (call[c].kind = "poll" => call[c].since = lastSeq)
    /\ ~Loading => RowsOK(shown, filter, 0, lastSeq) /\ (~cut => Has(table, shown, filter, 0, lastSeq))

TraceInv == TableOK /\ PageOK /\ CallsOK /\ (~overlapped => CallsInTurn)

-----------------------------------------------------------------------------
\* Numbers up to a bound have a largest and a least one.
LEMMA LargestIs ==
  ASSUME NEW b \in Nat, NEW B \in SUBSET (0..b), B # {}
  PROVE  \E e \in B : \A f \in B : f <= e
<1> SUFFICES ASSUME \A e \in B : \E f \in B : f > e PROVE FALSE
  <2>1. \A e \in B : e \in Int
    OBVIOUS
  <2> QED
    BY <2>1
<1>1. \A e \in B : e \in Nat /\ e <= b
  OBVIOUS
<1> DEFINE N == {n \in Nat : \A e \in B : e + n <= b}
<1>2. 0 \in N
  BY <1>1
<1>3. ASSUME NEW n \in Nat, n \in N PROVE n + 1 \in N
  <2> SUFFICES ASSUME NEW e \in B PROVE e + (n + 1) <= b
    OBVIOUS
  <2>1. PICK f \in B : f > e
    OBVIOUS
  <2>2. f + n <= b
    BY <1>3
  <2> QED
    BY <1>1, <2>1, <2>2
<1> HIDE DEF N
<1>4. b + 1 \in N
  BY <1>2, <1>3, Induction
<1>5. PICK e \in B : TRUE
  OBVIOUS
<1>6. e + (b + 1) <= b
  BY <1>4 DEF N
<1> QED
  BY <1>1, <1>6

LEMMA LeastIs ==
  ASSUME NEW b \in Nat, NEW B \in SUBSET (0..b), B # {}
  PROVE  \E e \in B : \A f \in B : e <= f
<1> DEFINE C == {b - x : x \in B}
<1>1. C \in SUBSET (0..b) /\ C # {}
  <2>1. \A x \in B : b - x \in 0..b
    OBVIOUS
  <2> QED
    BY <2>1
<1>2. PICK g \in C : \A h \in C : h <= g
  <2> HIDE DEF C
  <2> QED
    BY <1>1, LargestIs
<1>3. PICK e \in B : g = b - e
  OBVIOUS
<1>4. ASSUME NEW f \in B PROVE e <= f
  <2>1. b - f <= b - e
    BY <1>2, <1>3
  <2>2. e \in Int /\ f \in Int
    OBVIOUS
  <2> QED
    BY <2>1, <2>2
<1> QED
  BY <1>4

LEMMA NumbersAre == ASSUME NEW row \in Traces PROVE row.seq \in 1..MaxTraces /\ row.seq \in Nat /\ row.seq >= 1 /\ MaxTraces \in Nat
  BY TraceAssumption DEF Traces

LEMMA NewestOne ==
  ASSUME NEW kept, Numbered(kept), kept # {}
  PROVE  \E m \in kept : \A row \in kept \ {m} : row.seq < m.seq
<1> DEFINE B == {row.seq : row \in kept}
<1>1. B \in SUBSET (0..MaxTraces) /\ B # {} /\ MaxTraces \in Nat
  BY NumbersAre, TraceAssumption DEF Numbered
<1>2. PICK e \in B : \A f \in B : f <= e
  <2> HIDE DEF B
  <2> QED
    BY <1>1, LargestIs
<1>3. PICK m \in kept : e = m.seq
  OBVIOUS
<1>4. ASSUME NEW row \in kept \ {m} PROVE row.seq < m.seq
  <2>1. row.seq <= m.seq /\ row.seq # m.seq
    BY <1>2, <1>3 DEF Numbered
  <2>2. row.seq \in Nat /\ m.seq \in Nat
    BY NumbersAre DEF Numbered
  <2> QED
    BY <2>1, <2>2
<1> QED
  BY <1>4

LEMMA NewerIs ==
  ASSUME NEW kept, Numbered(kept), NEW row \in kept
  PROVE  /\ IsFiniteSet(NewerRows(kept, row)) /\ Cardinality(NewerRows(kept, row)) \in Nat
         /\ Cardinality(NewerRows(kept, row)) < Cardinality(kept) /\ Cardinality(kept) \in Nat
<1>1. NewerRows(kept, row) \subseteq kept \ {row}
  BY NumbersAre DEF Numbered, NewerRows
<1>2. IsFiniteSet(kept) /\ IsFiniteSet(kept \ {row}) /\ Cardinality(kept \ {row}) = Cardinality(kept) - 1
  BY FS_RemoveElement DEF Numbered
<1>3. IsFiniteSet(NewerRows(kept, row)) /\ Cardinality(NewerRows(kept, row)) <= Cardinality(kept \ {row})
  BY <1>1, <1>2, FS_Subset
<1>4. Cardinality(NewerRows(kept, row)) \in Nat /\ Cardinality(kept) \in Nat
  BY <1>2, <1>3, FS_CardinalityType
<1> QED
  BY <1>2, <1>3, <1>4

\* The older of two rows has more that are newer.
LEMMA OlderHasMore ==
  ASSUME NEW kept, Numbered(kept), NEW row \in kept, NEW u \in kept, u.seq < row.seq
  PROVE  Cardinality(NewerRows(kept, row)) < Cardinality(NewerRows(kept, u))
<1>1. row \notin NewerRows(kept, row) /\ NewerRows(kept, row) \cup {row} \subseteq NewerRows(kept, u)
  <2>1. \A x \in kept : x.seq \in Nat
    BY NumbersAre DEF Numbered
  <2> QED
    BY <2>1 DEF NewerRows
<1>2. IsFiniteSet(NewerRows(kept, row)) /\ Cardinality(NewerRows(kept, row)) \in Nat
      /\ IsFiniteSet(NewerRows(kept, u)) /\ Cardinality(NewerRows(kept, u)) \in Nat
  BY NewerIs
<1>3. Cardinality(NewerRows(kept, row) \cup {row}) = Cardinality(NewerRows(kept, row)) + 1
  BY <1>1, <1>2, FS_AddElement
<1>4. Cardinality(NewerRows(kept, row) \cup {row}) <= Cardinality(NewerRows(kept, u))
  BY <1>1, <1>2, FS_Subset
<1> QED
  BY <1>2, <1>3, <1>4

\* Each place has a row: the one with as many newer.
LEMMA PlacesAreTaken ==
  ASSUME NEW kept, Numbered(kept), NEW i \in Nat, i < Cardinality(kept)
  PROVE  \E row \in kept : Cardinality(NewerRows(kept, row)) = i
<1> DEFINE Full(S) == \A j \in Nat : j < Cardinality(S) => \E row \in S : Cardinality(NewerRows(S, row)) = j
           N == {n \in Nat : \A S : Numbered(S) /\ Cardinality(S) = n => Full(S)}
<1>1. 0 \in N
  OBVIOUS
<1>2. ASSUME NEW n \in Nat, n \in N PROVE n + 1 \in N
  <2> SUFFICES ASSUME NEW S, Numbered(S), Cardinality(S) = n + 1,
                      NEW j \in Nat, j < n + 1
               PROVE  \E row \in S : Cardinality(NewerRows(S, row)) = j
    OBVIOUS
  <2>1. S # {}
    BY FS_EmptySet
  <2>2. PICK m \in S : \A row \in S \ {m} : row.seq < m.seq
    BY <2>1, NewestOne
  <2> DEFINE R == S \ {m}
  <2>3. Numbered(R) /\ Cardinality(R) = n
    <3>1. IsFiniteSet(S)
      BY DEF Numbered
    <3>2. IsFiniteSet(R) /\ Cardinality(R) = Cardinality(S) - 1
      BY <3>1, FS_RemoveElement
    <3>3. Cardinality(R) = n
      BY <3>2
    <3> QED
      BY <3>2, <3>3 DEF Numbered
  <2>4. CASE j = 0
    <3>1. \A x \in S : x.seq \in Nat
      BY NumbersAre DEF Numbered
    <3>2. NewerRows(S, m) = {}
      BY <2>2, <3>1 DEF NewerRows
    <3> QED
      <4>1. Cardinality(NewerRows(S, m)) = 0
        BY <3>2, FS_EmptySet
      <4> HIDE DEF R
      <4> QED
        BY <2>4, <4>1
  <2>5. CASE j > 0
    <3>1. Full(R)
      BY <1>2, <2>3
    <3>2. j - 1 \in Nat /\ j - 1 < n
      BY <2>5
    <3>3. PICK row \in R : Cardinality(NewerRows(R, row)) = j - 1
      BY <2>3, <3>1, <3>2
    <3>4. NewerRows(S, row) = NewerRows(R, row) \cup {m} /\ m \notin NewerRows(R, row)
      BY <2>2, <3>3 DEF NewerRows
    <3>5. IsFiniteSet(NewerRows(R, row))
      BY <2>3, <3>3, NewerIs
    <3>6. Cardinality(NewerRows(S, row)) = j - 1 + 1
      BY <3>3, <3>4, <3>5, FS_AddElement
    <3> QED
      BY <3>2, <3>6
  <2> QED
    BY <2>4, <2>5
<1> HIDE DEF N
<1>3. Nat \subseteq N
  BY <1>1, <1>2, Induction
<1>4. Cardinality(kept) \in N
  BY <1>3, FS_CardinalityType DEF Numbered
<1> QED
  BY <1>4 DEF N

\* What the newest rows are: in order, and all of them if there is room.
LEMMA NewestIs ==
  ASSUME NEW kept, Numbered(kept), NEW n \in Nat, NEW s, s = Newest(kept, n)
  PROVE  /\ s \in Seq(kept) /\ Descending(s) /\ Len(s) <= n
         /\ Cardinality(kept) <= n => \A row \in kept : \E i \in DOMAIN s : s[i] = row
<1> DEFINE many == Cardinality(kept)
           k == IF many < n THEN many ELSE n
<1>1. many \in Nat
  BY FS_CardinalityType DEF Numbered
<1>2. k \in Nat /\ k <= many /\ k <= n /\ (many <= n => k = many)
  BY <1>1
<1>3. s = [i \in 1..k |-> CHOOSE row \in kept : Cardinality(NewerRows(kept, row)) = i - 1]
  BY DEF Newest, NewerRows
<1> HIDE DEF k, many
<1>4. ASSUME NEW i \in 1..k PROVE s[i] \in kept /\ Cardinality(NewerRows(kept, s[i])) = i - 1
  <2>1. i - 1 \in Nat /\ i - 1 < many
    BY <1>1, <1>2
  <2>2. \E row \in kept : Cardinality(NewerRows(kept, row)) = i - 1
    BY <2>1, PlacesAreTaken DEF many
  <2> QED
    BY <1>3, <2>2
<1>5. s \in Seq(kept) /\ Len(s) = k /\ DOMAIN s = 1..k
  <2>1. s \in [1..k -> kept]
    BY <1>3, <1>4
  <2> QED
    BY <1>2, <2>1, SeqDef
<1>6. ASSUME NEW i \in 1..k, NEW j \in 1..k, i < j PROVE s[i].seq > s[j].seq
  <2>1. s[i] \in kept /\ s[j] \in kept /\ Cardinality(NewerRows(kept, s[i])) < Cardinality(NewerRows(kept, s[j]))
    BY <1>2, <1>4, <1>6
  <2>2. ~(s[i].seq < s[j].seq)
    <3> SUFFICES ASSUME s[i].seq < s[j].seq PROVE FALSE
      OBVIOUS
    <3>1. Cardinality(NewerRows(kept, s[j])) < Cardinality(NewerRows(kept, s[i]))
      BY <2>1, OlderHasMore
    <3> QED
      BY <2>1, <3>1, NewerIs
  <2>3. s[i].seq # s[j].seq
    <3> SUFFICES ASSUME s[i].seq = s[j].seq PROVE FALSE
      OBVIOUS
    <3>1. s[i] = s[j]
      BY <2>1 DEF Numbered
    <3> QED
      BY <2>1, <3>1, NewerIs
  <2>4. s[i].seq \in Nat /\ s[j].seq \in Nat
    BY <2>1, NumbersAre DEF Numbered
  <2> QED
    BY <2>2, <2>3, <2>4
<1>7. ASSUME Cardinality(kept) <= n, NEW row \in kept PROVE \E i \in DOMAIN s : s[i] = row
  <2> DEFINE r == Cardinality(NewerRows(kept, row))
  <2>1. r \in Nat /\ r < many /\ k = many
    BY <1>2, <1>7, NewerIs DEF many
  <2>2. r + 1 \in 1..k
    BY <1>1, <2>1
  <2>3. s[r + 1] \in kept /\ Cardinality(NewerRows(kept, s[r + 1])) = (r + 1) - 1
    BY <1>4, <2>2
  <2>4. Cardinality(NewerRows(kept, s[r + 1])) = r
    BY <2>1, <2>3
  <2> HIDE DEF r
  <2>5. ~(s[r + 1].seq < row.seq) /\ ~(row.seq < s[r + 1].seq)
    <3>1. s[r + 1].seq < row.seq => r < r
      BY <2>3, <2>4, OlderHasMore DEF r
    <3>2. row.seq < s[r + 1].seq => r < r
      BY <2>3, <2>4, OlderHasMore DEF r
    <3> QED
      BY <2>1, <3>1, <3>2
  <2>6. s[r + 1].seq \in Nat /\ row.seq \in Nat
    BY <2>3, NumbersAre DEF Numbered
  <2>7. s[r + 1] = row
    BY <2>3, <2>5, <2>6 DEF Numbered
  <2> QED
    BY <1>5, <2>2, <2>7
<1> QED
  BY <1>2, <1>5, <1>6, <1>7 DEF Descending

-----------------------------------------------------------------------------
\* New rows come after the last number, and rows that are gone are not missed.
LEMMA HasStays ==
  ASSUME NEW given \in Nat, NEW stored, NEW later, later \subseteq Traces,
         \A row \in later : row \in stored \/ row.seq > given,
         NEW s, NEW f, NEW since, NEW last \in Nat, last <= given, Has(stored, s, f, since, last)
  PROVE  Has(later, s, f, since, last)
<1> SUFFICES ASSUME NEW row \in later, f \in {AllKinds, row.kind}, row.seq > since, row.seq <= last
             PROVE  \E i \in DOMAIN s : s[i] = row
  BY DEF Has
<1>1. row.seq \in Nat
  BY NumbersAre
<1>2. row \in stored
  BY <1>1
<1> QED
  BY <1>2 DEF Has

LEMMA AnswerStays ==
  ASSUME NEW given \in Nat, NEW next \in Nat, given <= next,
         NEW stored, NEW later, later \subseteq Traces, \A row \in later : row \in stored \/ row.seq > given,
         NEW x \in CallRecords, AnswerOK(x, stored, given)
  PROVE  AnswerOK(x, later, next)
<1> SUFFICES ASSUME x.answered PROVE AnswerOK(x, later, next)
  BY DEF AnswerOK
<1>1. x.last \in Nat /\ x.last <= given /\ Len(x.rows) <= PageLimit /\ RowsOK(x.rows, x.for, AskedAfter(x), x.last)
      /\ (~x.more => Has(stored, x.rows, x.for, AskedAfter(x), x.last))
  BY DEF AnswerOK, CallRecords
<1>2. x.last <= next
  BY <1>1
<1>3. ~x.more => Has(later, x.rows, x.for, AskedAfter(x), x.last)
  BY <1>1, HasStays
<1> QED
  BY <1>1, <1>2, <1>3 DEF AnswerOK

LEMMA SequenceIs == ASSUME TableOK PROVE sequence \in Nat /\ table \subseteq Traces
  BY TraceAssumption DEF TableOK, Numbered

\* The calls stay as they are when traces are recorded or discarded.
LEMMA CallsStay ==
  ASSUME TableOK, CallsOK, call' = call, sequence' \in Nat, sequence <= sequence', table' \subseteq Traces,
         \A row \in table' : row \in table \/ row.seq > sequence
  PROVE  CallsOK'
<1> SUFFICES ASSUME NEW c \in Calls PROVE call[c] \in CallRecords /\ AnswerOK(call[c], table', sequence')
  BY DEF CallsOK
<1> DEFINE x == call[c]
<1>1. x \in CallRecords /\ AnswerOK(x, table, sequence)
  BY DEF CallsOK
<1> HIDE DEF x
<1>2. AnswerOK(x, table', sequence')
  BY <1>1, SequenceIs, AnswerStays
<1> QED
  BY <1>1, <1>2 DEF x

LEMMA TurnStays ==
  ASSUME TableOK, PageOK, CallsInTurn, UNCHANGED <<call, filter, shown, lastSeq, cut>>, table' \subseteq Traces,
         \A row \in table' : row \in table \/ row.seq > sequence
  PROVE  CallsInTurn'
<1>1. Has(table, shown, filter, 0, lastSeq) => Has(table', shown, filter, 0, lastSeq)
  BY SequenceIs, HasStays DEF PageOK
<1> QED
  BY <1>1 DEF CallsInTurn, Loading, Waiting

LEMMA TraceInitInv == TracesInit => TraceInv
<1> SUFFICES ASSUME TracesInit PROVE TraceInv
  OBVIOUS
<1>1. table = {} /\ sequence = 0 /\ filter = AllKinds /\ shown = <<>> /\ lastSeq = 0
      /\ call = [c \in Calls |-> Idle] /\ turns = 0 /\ overlapped = FALSE /\ cut = FALSE
  BY DEF TracesInit
<1>2. <<>> \in Seq(Traces) /\ Len(<<>>) = 0 /\ DOMAIN <<>> = {}
  OBVIOUS
<1>3. TableOK
  BY <1>1, FS_EmptySet, TraceAssumption DEF TableOK, Numbered
<1>4. PageOK
  <2>1. KeepLimit \in Nat /\ 0 <= KeepLimit
    BY TraceAssumption
  <2> QED
    <3>1. shown \in Seq(Traces) /\ Len(shown) <= KeepLimit
      BY <1>1, <1>2, <2>1
    <3>2. lastSeq \in Nat /\ lastSeq <= sequence /\ turns \in Nat
      BY <1>1
    <3> QED
      BY <1>1, <3>1, <3>2 DEF PageOK, Filters
<1>5. Idle \in CallRecords /\ Idle.answered = FALSE /\ Idle.kind = "none"
  BY <1>2 DEF Idle, CallRecords, Filters
<1>6. CallsOK
  BY <1>1, <1>5 DEF CallsOK, AnswerOK
<1>7. CallsInTurn
  <2>1. Waiting = {}
    BY <1>1, <1>5 DEF Waiting
  <2>2. RowsOK(shown, filter, 0, lastSeq) /\ Has(table, shown, filter, 0, lastSeq)
    BY <1>1, <1>2 DEF RowsOK, Has, Descending
  <2> QED
    BY <2>1, <2>2 DEF CallsInTurn
<1> QED
  BY <1>3, <1>4, <1>6, <1>7 DEF TraceInv

LEMMA InsertKeeps == ASSUME TraceInv, NEW k \in Kinds, Insert(k) PROVE TraceInv'
<1> DEFINE new == [seq |-> sequence + 1, kind |-> k]
<1>1. /\ sequence < MaxTraces /\ sequence' = sequence + 1 /\ table' = table \cup {new}
      /\ UNCHANGED <<filter, shown, lastSeq, call, turns, overlapped, cut>>
  BY DEF Insert, NextSeq
<1>2. sequence \in Nat /\ MaxTraces \in Nat /\ sequence' \in Nat /\ sequence <= sequence'
  BY <1>1, SequenceIs, TraceAssumption DEF TraceInv
<1>3. new \in Traces /\ new.seq = sequence + 1
  BY <1>1, <1>2 DEF Traces
<1> HIDE DEF new
<1>4. \A row \in table : row.seq \in Nat /\ row.seq <= sequence /\ row \in Traces
  BY NumbersAre DEF TraceInv, TableOK, Numbered
<1>5. TableOK'
  <2>1. IsFiniteSet(table')
    BY <1>1, FS_AddElement DEF TraceInv, TableOK, Numbered
  <2>2. \A row \in table : row.seq # new.seq
    BY <1>2, <1>3, <1>4
  <2>3. table' \subseteq Traces /\ \A row, u \in table' : row.seq = u.seq => row = u
    BY <1>1, <1>3, <1>4, <2>2 DEF TraceInv, TableOK, Numbered
  <2>4. \A row \in table' : row.seq <= sequence'
    BY <1>1, <1>2, <1>3, <1>4
  <2>5. sequence' \in 0..MaxTraces
    BY <1>1, <1>2
  <2> QED
    BY <2>1, <2>3, <2>4, <2>5 DEF TableOK, Numbered
<1>6. table' \subseteq Traces /\ \A row \in table' : row \in table \/ row.seq > sequence
  BY <1>1, <1>2, <1>3, <1>4
<1>7. CallsOK'
  BY <1>1, <1>2, <1>6, CallsStay DEF TraceInv
<1>8. PageOK'
  <2>1. lastSeq \in Nat /\ lastSeq <= sequence
    BY DEF TraceInv, PageOK
  <2>2. lastSeq <= sequence'
    BY <1>2, <2>1
  <2> QED
    BY <1>1, <2>2 DEF TraceInv, PageOK
<1>9. ~overlapped' => CallsInTurn'
  BY <1>1, <1>6, TurnStays DEF TraceInv
<1> QED
  BY <1>5, <1>7, <1>8, <1>9 DEF TraceInv

LEMMA FewerIsOK ==
  ASSUME TraceInv, table' \subseteq table, sequence' = sequence
  PROVE  /\ TableOK' /\ table' \subseteq Traces /\ \A row \in table' : row \in table \/ row.seq > sequence
         /\ sequence' \in Nat /\ sequence <= sequence'
<1>1. IsFiniteSet(table')
  BY FS_Subset DEF TraceInv, TableOK, Numbered
<1>2. sequence \in Nat
  BY SequenceIs DEF TraceInv
<1>3. table' \subseteq Traces
  BY SequenceIs DEF TraceInv
<1>4. TableOK'
  BY <1>1, <1>3 DEF TraceInv, TableOK, Numbered
<1> QED
  BY <1>2, <1>3, <1>4

LEMMA TurnIs == ASSUME PageOK, Turn PROVE turns' \in Nat
  BY DEF PageOK, Turn

LEMMA DiscardKeeps == ASSUME TraceInv, NEW s, Discard(s) PROVE TraceInv'
<1>1. table' \subseteq table /\ UNCHANGED <<sequence, filter, shown, lastSeq, call, overlapped, cut>> /\ turns' \in Nat
  BY TurnIs DEF Discard, TraceInv
<1>2. /\ TableOK' /\ table' \subseteq Traces /\ \A row \in table' : row \in table \/ row.seq > sequence
      /\ sequence' \in Nat /\ sequence <= sequence'
  BY <1>1, FewerIsOK
<1>3. CallsOK'
  BY <1>1, <1>2, CallsStay DEF TraceInv
<1>4. PageOK'
  BY <1>1 DEF TraceInv, PageOK
<1>5. ~overlapped' => CallsInTurn'
  BY <1>1, <1>2, TurnStays DEF TraceInv
<1> QED
  BY <1>2, <1>3, <1>4, <1>5 DEF TraceInv

-----------------------------------------------------------------------------
\* A call of the page takes a free place.
LEMMA AskIs ==
  ASSUME CallsOK, NEW c \in Calls, NEW kind \in {"load", "poll", "clear"}, NEW f \in Filters,
         Ask(c, kind, f), lastSeq \in Nat, UNCHANGED <<table, sequence>>
  PROVE  /\ CallsOK' /\ Waiting' = Waiting \cup {c}
         /\ call'[c].kind = kind /\ call'[c].for = f /\ call'[c].since = lastSeq
         /\ overlapped' = (overlapped \/ Waiting # {})
<1> DEFINE x == [Idle EXCEPT !.kind = kind, !.for = f, !.since = lastSeq]
<1>1. call' = [call EXCEPT ![c] = x] /\ overlapped' = (overlapped \/ Waiting # {})
  BY DEF Ask
<1>2. /\ x \in CallRecords /\ x.kind = kind /\ x.for = f /\ x.since = lastSeq /\ ~x.answered
  <2>1. <<>> \in Seq(Traces)
    OBVIOUS
  <2> QED
    BY <2>1 DEF Idle, CallRecords, Filters
<1> HIDE DEF x
<1>3. DOMAIN call' = Calls /\ call'[c] = x /\ \A d \in Calls \ {c} : call'[d] = call[d]
  BY <1>1 DEF CallsOK
<1>4. CallsOK'
  <2>1. AnswerOK(x, table', sequence')
    BY <1>2 DEF AnswerOK
  <2> SUFFICES ASSUME NEW d \in Calls PROVE call'[d] \in CallRecords /\ AnswerOK(call'[d], table', sequence')
    BY <1>3 DEF CallsOK
  <2>2. CASE d = c
    BY <1>2, <1>3, <2>1, <2>2
  <2>3. CASE d # c
    BY <1>3, <2>3 DEF CallsOK
  <2> QED
    BY <2>2, <2>3
<1>5. Waiting' = Waiting \cup {c}
  BY <1>2, <1>3 DEF Waiting
<1> QED
  BY <1>1, <1>2, <1>3, <1>4, <1>5

\* A call that is asked for alone is of what the page shows.
LEMMA AskKeeps ==
  ASSUME TraceInv, NEW c \in Calls, NEW kind \in {"load", "poll", "clear"}, NEW f \in Filters,
         Ask(c, kind, f), filter' = f, UNCHANGED <<table, sequence, shown, lastSeq, cut>>, turns' \in Nat,
         kind = "poll" => f = filter
  PROVE  TraceInv'
<1>1. lastSeq \in Nat
  BY DEF TraceInv, PageOK
<1>2. /\ CallsOK' /\ Waiting' = Waiting \cup {c}
      /\ call'[c].kind = kind /\ call'[c].for = f /\ call'[c].since = lastSeq
      /\ overlapped' = (overlapped \/ Waiting # {})
  BY <1>1, AskIs DEF TraceInv
<1>3. TableOK'
  BY DEF TraceInv, TableOK, Numbered
<1>4. PageOK'
  BY <1>2 DEF TraceInv, PageOK
<1>5. ASSUME ~overlapped' PROVE CallsInTurn'
  <2>1. ~overlapped /\ Waiting = {} /\ Waiting' = {c}
    BY <1>2, <1>5
  <2>2. CallsInTurn /\ ~Loading
    BY <2>1 DEF TraceInv, Loading
  <2>3. CASE kind = "poll"
    BY <1>2, <2>1, <2>2, <2>3 DEF CallsInTurn
  <2>4. CASE kind # "poll"
    <3>1. Loading'
      BY <1>2, <2>1, <2>4 DEF Loading
    <3> QED
      BY <1>2, <2>1, <2>4, <3>1 DEF CallsInTurn
  <2> QED
    BY <2>3, <2>4
<1> QED
  BY <1>2, <1>3, <1>4, <1>5 DEF TraceInv

LEMMA AskingKeeps ==
  ASSUME TraceInv, NEW c \in Calls, Clear(c) \/ Poll(c) \/ \E f \in Filters : Choose(c, f)
  PROVE  TraceInv'
<1>1. filter \in Filters /\ turns \in Nat
  BY DEF TraceInv, PageOK
<1>2. CASE Clear(c)
  <2>1. turns' \in Nat /\ Ask(c, "clear", filter) /\ UNCHANGED <<table, sequence, filter, shown, lastSeq, cut>>
    BY <1>2, TurnIs DEF Clear, TraceInv
  <2> QED
    BY <1>1, <2>1, AskKeeps
<1>3. CASE Poll(c)
  <2>1. turns' \in Nat /\ Ask(c, "poll", filter) /\ UNCHANGED <<table, sequence, filter, shown, lastSeq, cut>>
    BY <1>1, <1>3 DEF Poll
  <2> QED
    BY <1>1, <2>1, AskKeeps
<1>4. ASSUME NEW f \in Filters, Choose(c, f) PROVE TraceInv'
  <2>1. turns' \in Nat /\ Ask(c, "load", f) /\ filter' = f /\ UNCHANGED <<table, sequence, shown, lastSeq, cut>>
    BY <1>4, TurnIs DEF Choose, TraceInv
  <2> QED
    BY <2>1, AskKeeps
<1> QED
  BY <1>2, <1>3, <1>4

-----------------------------------------------------------------------------
LEMMA MaxSeqIs ==
  ASSUME TableOK
  PROVE  MaxSeq \in Nat /\ MaxSeq <= sequence /\ \A row \in table : row.seq <= MaxSeq
<1> DEFINE B == {row.seq : row \in table}
<1>1. sequence \in Nat /\ \A row \in table : row.seq \in Nat /\ row.seq <= sequence
  BY SequenceIs, NumbersAre DEF TableOK, Numbered
<1>2. CASE table = {}
  BY <1>1, <1>2 DEF MaxSeq
<1>3. CASE table # {}
  <2>1. B \in SUBSET (0..sequence) /\ B # {}
    BY <1>1, <1>3
  <2>2. MaxSeq = Max(B)
    BY <1>3 DEF MaxSeq
  <2> HIDE DEF B
  <2>3. PICK e \in B : \A f \in B : f <= e
    BY <1>1, <2>1, LargestIs
  <2>4. \A f \in B : e >= f
    BY <1>1, <2>1, <2>3
  <2>5. MaxSeq \in B /\ \A f \in B : MaxSeq >= f
    BY <2>2, <2>4 DEF Max
  <2>6. MaxSeq \in Nat /\ MaxSeq <= sequence
    BY <1>1, <2>1, <2>5
  <2>7. \A f \in B : f <= MaxSeq
    BY <1>1, <2>1, <2>5, <2>6
  <2> QED
    BY <2>6, <2>7 DEF B
<1> QED
  BY <1>2, <1>3

\* What the server answers is true of the traces when it answers.
LEMMA AnsweredIs ==
  ASSUME TableOK, NEW f, NEW since \in Nat, NEW found, found = Matching(f, since),
         NEW s, s = Newest(found, PageLimit)
  PROVE  /\ RowsOK(s, f, since, MaxSeq) /\ Len(s) <= PageLimit
         /\ ~(Cardinality(found) > PageLimit) => Has(table, s, f, since, MaxSeq)
<1>1. found \subseteq table /\ \A row \in table : row \in found <=> f \in {AllKinds, row.kind} /\ row.seq > since
  BY DEF Matching
<1>2. Numbered(found)
  BY <1>1, FS_Subset DEF TableOK, Numbered
<1>3. PageLimit \in Nat
  BY TraceAssumption
<1>4. /\ s \in Seq(found) /\ Descending(s) /\ Len(s) <= PageLimit
      /\ Cardinality(found) <= PageLimit => \A row \in found : \E i \in DOMAIN s : s[i] = row
  BY <1>2, <1>3, NewestIs
<1>5. s \in Seq(Traces) /\ \A i \in DOMAIN s : s[i] \in found
  <2>1. \A i \in DOMAIN s : s[i] \in found
    BY <1>4, ElementOfSeq
  <2>2. found \subseteq Traces
    BY <1>2 DEF Numbered
  <2> QED
    BY <1>4, <2>1, <2>2, SeqMonotonic
<1>6. RowsOK(s, f, since, MaxSeq)
  BY <1>1, <1>4, <1>5, MaxSeqIs DEF RowsOK
<1>7. ASSUME ~(Cardinality(found) > PageLimit) PROVE Has(table, s, f, since, MaxSeq)
  <2>1. Cardinality(found) <= PageLimit
    BY <1>2, <1>3, <1>7, FS_CardinalityType DEF Numbered
  <2> QED
    BY <1>1, <1>4, <2>1 DEF Has
<1> QED
  BY <1>4, <1>6, <1>7

LEMMA AnswerKeeps == ASSUME TraceInv, NEW c \in Calls, Answer(c) PROVE TraceInv'
<1> DEFINE x == call[c]
           since == IF x.kind = "poll" THEN x.since ELSE 0
           found == Matching(x.for, since)
           s == Newest(found, PageLimit)
           more == Cardinality(found) > PageLimit
           y == [x EXCEPT !.answered = TRUE, !.last = MaxSeq, !.rows = s, !.more = more]
<1>1. /\ c \in Waiting /\ table' = (IF x.kind = "clear" THEN {} ELSE table)
      /\ call' = [call EXCEPT ![c] = y]
      /\ UNCHANGED <<sequence, filter, shown, lastSeq, turns, overlapped, cut>>
  BY DEF Answer
<1>2. x \in CallRecords
  BY DEF TraceInv, CallsOK
<1>3. since \in Nat /\ since = AskedAfter(x)
  BY <1>2 DEF CallRecords, AskedAfter
<1> HIDE DEF since
<1>4. RowsOK(s, x.for, since, MaxSeq) /\ Len(s) <= PageLimit /\ (~more => Has(table, s, x.for, since, MaxSeq))
  <2> HIDE DEF x
  <2> QED
    BY <1>3, AnsweredIs DEF TraceInv
<1>5. s \in Seq(Traces) /\ more \in BOOLEAN
  BY <1>4 DEF RowsOK
<1> HIDE DEF s, more, found
<1>6. MaxSeq \in Nat /\ MaxSeq <= sequence /\ sequence \in Nat
  BY MaxSeqIs, SequenceIs DEF TraceInv
<1>7. y \in CallRecords /\ y.kind = x.kind /\ y.for = x.for /\ y.since = x.since
      /\ y.answered /\ y.last = MaxSeq /\ y.rows = s /\ y.more = more
  <2> HIDE DEF x
  <2> QED
    BY <1>2, <1>5, <1>6 DEF CallRecords
<1> HIDE DEF y
<1>8. AnswerOK(y, table, sequence)
  <2>1. AskedAfter(y) = since
    BY <1>3, <1>7 DEF AskedAfter
  <2> QED
    BY <1>4, <1>6, <1>7, <2>1 DEF AnswerOK
<1>9. table' \subseteq table /\ sequence' = sequence
  BY <1>1
<1>10. /\ TableOK' /\ table' \subseteq Traces /\ \A row \in table' : row \in table \/ row.seq > sequence
       /\ sequence' \in Nat /\ sequence <= sequence'
  BY <1>9, FewerIsOK
<1>11. DOMAIN call' = Calls /\ call'[c] = y /\ \A d \in Calls \ {c} : call'[d] = call[d]
  BY <1>1 DEF TraceInv, CallsOK
<1>12. CallsOK'
  <2> SUFFICES ASSUME NEW d \in Calls PROVE call'[d] \in CallRecords /\ AnswerOK(call'[d], table', sequence')
    BY <1>11 DEF CallsOK
  <2> DEFINE z == call'[d]
  <2>1. z \in CallRecords /\ AnswerOK(z, table, sequence)
    BY <1>7, <1>8, <1>11 DEF TraceInv, CallsOK
  <2> HIDE DEF z
  <2>2. AnswerOK(z, table', sequence')
    BY <1>6, <1>10, <2>1, AnswerStays
  <2> QED
    BY <2>1, <2>2 DEF z
<1>13. PageOK'
  BY <1>1 DEF TraceInv, PageOK
<1>14. ASSUME ~overlapped' PROVE CallsInTurn'
  <2>1. Waiting' = Waiting /\ (Loading' <=> Loading)
    <3>1. \A d \in Calls : call'[d].kind = call[d].kind
      BY <1>7, <1>11 DEF x
    <3> QED
      BY <3>1 DEF Waiting, Loading
  <2>2. \A d \in Waiting : call'[d].kind = call[d].kind /\ call'[d].for = call[d].for /\ call'[d].since = call[d].since
    BY <1>7, <1>11 DEF Waiting, x
  <2>3. Has(table, shown, filter, 0, lastSeq) => Has(table', shown, filter, 0, lastSeq)
    BY <1>6, <1>10, HasStays DEF TraceInv, PageOK
  <2>4. CallsInTurn
    BY <1>1, <1>14 DEF TraceInv
  <2> QED
    BY <1>1, <2>1, <2>2, <2>3, <2>4 DEF CallsInTurn
<1> QED
  BY <1>10, <1>12, <1>13, <1>14 DEF TraceInv

-----------------------------------------------------------------------------
\* A call is over, or another begins in its place.
LEMMA PlaceIs ==
  ASSUME TraceInv, NEW c \in Calls, NEW x, call' = [call EXCEPT ![c] = x],
         x \in CallRecords, ~x.answered, UNCHANGED <<table, sequence>>
  PROVE  /\ CallsOK' /\ TableOK' /\ call'[c] = x /\ \A d \in Calls \ {c} : call'[d] = call[d]
         /\ x.kind = "none" => Waiting' = Waiting \ {c}
<1>1. DOMAIN call' = Calls /\ call'[c] = x /\ \A d \in Calls \ {c} : call'[d] = call[d]
  BY DEF TraceInv, CallsOK
<1>2. CallsOK'
  <2> SUFFICES ASSUME NEW d \in Calls PROVE call'[d] \in CallRecords /\ AnswerOK(call'[d], table', sequence')
    BY <1>1 DEF CallsOK
  <2>1. AnswerOK(x, table', sequence')
    BY DEF AnswerOK
  <2>2. CASE d = c
    BY <1>1, <2>1, <2>2
  <2>3. CASE d # c
    BY <1>1, <2>3 DEF TraceInv, CallsOK
  <2> QED
    BY <2>2, <2>3
<1>3. TableOK'
  BY DEF TraceInv, TableOK, Numbered
<1>4. x.kind = "none" => Waiting' = Waiting \ {c}
  BY <1>1 DEF Waiting
<1> QED
  BY <1>1, <1>2, <1>3, <1>4

LEMMA IdleIs == Idle \in CallRecords /\ ~Idle.answered /\ Idle.kind = "none"
<1>1. <<>> \in Seq(Traces)
  OBVIOUS
<1> QED
  BY <1>1 DEF Idle, CallRecords, Filters

LEMMA LoadedKeeps == ASSUME TraceInv, NEW c \in Calls, Loaded(c) PROVE TraceInv'
<1> DEFINE x == call[c]
<1>1. /\ x.kind = "load" /\ x.answered /\ shown' = x.rows /\ lastSeq' = x.last /\ cut' = x.more
      /\ call' = [call EXCEPT ![c] = Idle]
      /\ overlapped' = (overlapped /\ ~(Alone(c) /\ x.for = filter))
      /\ UNCHANGED <<table, sequence, filter, turns>>
  BY DEF Loaded
<1>2. CallsOK' /\ TableOK' /\ Waiting' = Waiting \ {c}
  BY <1>1, IdleIs, PlaceIs
<1>3. /\ x \in CallRecords /\ x.last <= sequence /\ Len(x.rows) <= PageLimit
      /\ RowsOK(x.rows, x.for, 0, x.last) /\ (~x.more => Has(table, x.rows, x.for, 0, x.last))
  BY <1>1 DEF TraceInv, CallsOK, AnswerOK, AskedAfter
<1>4. x.rows \in Seq(Traces) /\ x.last \in Nat /\ x.more \in BOOLEAN
  BY <1>3 DEF CallRecords
<1>5. Len(x.rows) <= KeepLimit
  <2>1. Len(x.rows) \in Nat /\ PageLimit \in Nat /\ KeepLimit \in Nat /\ PageLimit <= KeepLimit
    BY <1>4, TraceAssumption
  <2> QED
    BY <1>3, <2>1
<1>6. PageOK'
  <2>1. overlapped' \in BOOLEAN
    BY <1>1
  <2> HIDE DEF x
  <2> QED
    BY <1>1, <1>3, <1>4, <1>5, <2>1 DEF TraceInv, PageOK
<1>7. ASSUME ~overlapped' PROVE CallsInTurn'
  <2>1. c \in Waiting
    BY <1>1 DEF Waiting
  <2>2. Waiting = {c} /\ x.for = filter
    <3>1. CASE ~overlapped
      BY <2>1, <3>1 DEF TraceInv, CallsInTurn
    <3>2. CASE Alone(c) /\ x.for = filter
      BY <3>2 DEF Alone
    <3> QED
      BY <1>1, <1>7, <3>1, <3>2
  <2>3. Waiting' = {}
    BY <1>2, <2>2
  <2> HIDE DEF x
  <2>4. RowsOK(shown', filter', 0, lastSeq') /\ (~cut' => Has(table', shown', filter', 0, lastSeq'))
    BY <1>1, <1>3, <2>2
  <2> QED
    BY <2>3, <2>4 DEF CallsInTurn
<1> QED
  BY <1>2, <1>6, <1>7 DEF TraceInv

LEMMA LesserIs ==
  ASSUME NEW l \in Nat, NEW n \in Nat, NEW k, k = (IF l < n THEN l ELSE n)
  PROVE  k \in 0..l /\ k \in Nat /\ k <= n /\ k <= l /\ (~(l > n) => k = l)
  OBVIOUS

\* The beginning of two sequences, one after the other.
LEMMA JoinIs ==
  ASSUME NEW T, NEW new \in Seq(T), NEW old \in Seq(T), NEW n \in Nat, NEW both, both = new \o old,
         NEW s, s = SubSeq(both, 1, IF Len(both) < n THEN Len(both) ELSE n)
  PROVE  /\ s \in Seq(T) /\ Len(s) \in Nat /\ Len(s) <= n /\ Len(s) <= Len(new) + Len(old) /\ DOMAIN s = 1..Len(s)
         /\ ~(Len(both) > n) => Len(s) = Len(new) + Len(old)
         /\ \A i \in 1..Len(s) : s[i] = IF i <= Len(new) THEN new[i] ELSE old[i - Len(new)]
<1> DEFINE l == Len(both)
           k == IF l < n THEN l ELSE n
<1>1. /\ both \in Seq(T) /\ l = Len(new) + Len(old) /\ l \in Nat /\ Len(new) \in Nat
      /\ \A i \in 1..Len(new) : both[i] = new[i]
      /\ \A i \in (Len(new) + 1)..(Len(new) + Len(old)) : both[i] = old[i - Len(new)]
  BY ConcatProperties
<1>2. s = SubSeq(both, 1, k)
  OBVIOUS
<1>3. k \in 0..l /\ k \in Nat /\ k <= n /\ k <= l /\ (~(l > n) => k = l)
  <2> HIDE DEF l
  <2> QED
    BY <1>1, LesserIs
<1> HIDE DEF k
<1>4. s \in Seq(T) /\ Len(s) = k /\ \A i \in 1..k : s[i] = both[i]
  <2>1. k \in 0..Len(both)
    BY <1>3
  <2> QED
    BY <1>1, <1>2, <1>3, <2>1, SubSeqProperties
<1>5. DOMAIN s = 1..Len(s)
  BY <1>4
<1> HIDE DEF l
<1>6. ASSUME NEW i \in 1..k PROVE s[i] = IF i <= Len(new) THEN new[i] ELSE old[i - Len(new)]
  <2>1. s[i] = both[i]
    BY <1>4
  <2>2. i <= Len(new) => i \in 1..Len(new)
    BY <1>1, <1>3
  <2>3. ~(i <= Len(new)) => i \in (Len(new) + 1)..l
    BY <1>1, <1>3
  <2> QED
    BY <1>1, <2>1, <2>2, <2>3
<1>7. Len(s) <= n /\ Len(s) <= Len(new) + Len(old) /\ (~(Len(both) > n) => Len(s) = Len(new) + Len(old))
  BY <1>1, <1>3, <1>4 DEF l
<1> QED
  BY <1>3, <1>4, <1>5, <1>6, <1>7

\* s is the beginning, of length k, of new and then old.
Joins(s, k, new, a, old, b) ==
    /\ s \in Seq(Traces) /\ k \in Nat /\ a \in Nat /\ b \in Nat /\ k <= a + b
    /\ DOMAIN s = 1..k /\ DOMAIN new = 1..a /\ DOMAIN old = 1..b
    /\ \A i \in 1..k : s[i] = IF i <= a THEN new[i] ELSE old[i - a]

\* New rows before those shown: a page of its filter up to the later number.
LEMMA JoinedIs ==
  ASSUME NEW f, NEW since \in Nat, NEW last \in Nat,
         NEW new, RowsOK(new, f, since, last), NEW old, RowsOK(old, f, 0, since),
         NEW s, NEW k, NEW a, NEW b, Joins(s, k, new, a, old, b),
         NEW next, next = (IF a > 0 \/ last > since THEN last ELSE since)
  PROVE  /\ RowsOK(s, f, 0, next)
         /\ \A stored : /\ k = a + b /\ stored \subseteq Traces
                        /\ Has(stored, new, f, since, last) /\ Has(stored, old, f, 0, since)
                => Has(stored, s, f, 0, next)
<1> USE DEF Joins
<1>5. ASSUME NEW i \in 1..a
      PROVE  new[i].seq \in Nat /\ f \in {AllKinds, new[i].kind} /\ new[i].seq > since /\ new[i].seq <= last
  <2>1. new[i] \in Traces
    BY ElementOfSeq DEF RowsOK
  <2>2. new[i].seq \in Nat
    BY <2>1, NumbersAre
  <2> QED
    BY <2>2 DEF RowsOK
<1>6. ASSUME NEW i \in 1..b
      PROVE  old[i].seq \in Nat /\ f \in {AllKinds, old[i].kind} /\ old[i].seq > 0 /\ old[i].seq <= since
  <2>1. old[i] \in Traces
    BY ElementOfSeq DEF RowsOK
  <2>2. old[i].seq \in Nat
    BY <2>1, NumbersAre
  <2> QED
    BY <2>2 DEF RowsOK
<1>7. next \in Nat /\ since <= next /\ (a > 0 => next = last) /\ (last > since => next = last) /\ (~(last > since) => next = since)
  <2>1. CASE a = 0
    BY <2>1
  <2>2. CASE a > 0
    <3>1. 1 \in 1..a
      BY <2>2
    <3>2. last > since
      BY <1>5, <3>1
    <3> QED
      BY <2>2, <3>2
  <2> QED
    BY <2>1, <2>2
<1>8. ASSUME NEW i \in 1..k
      PROVE  s[i].seq \in Nat /\ f \in {AllKinds, s[i].kind} /\ s[i].seq > 0 /\ s[i].seq <= next
  <2>1. CASE i <= a
    <3>1. i \in 1..a /\ a > 0
      BY <2>1
    <3>2. s[i] = new[i] /\ next = last
      BY <1>7, <2>1, <3>1
    <3> QED
      BY <1>5, <3>1, <3>2
  <2>2. CASE ~(i <= a)
    <3>1. i - a \in 1..b
      BY <2>2
    <3>2. s[i] = old[i - a]
      BY <2>2
    <3> QED
      BY <1>6, <1>7, <3>1, <3>2
  <2> QED
    BY <2>1, <2>2
<1>9. ASSUME NEW i \in 1..k, NEW j \in 1..k, i < j PROVE s[i].seq > s[j].seq
  <2>1. CASE j <= a
    <3>1. i \in 1..a /\ j \in 1..a
      BY <1>9, <2>1
    <3>2. s[i] = new[i] /\ s[j] = new[j]
      BY <3>1
    <3> QED
      BY <1>9, <3>1, <3>2 DEF RowsOK, Descending
  <2>2. CASE ~(i <= a)
    <3>1. i - a \in 1..b /\ j - a \in 1..b /\ i - a < j - a /\ ~(j <= a)
      BY <1>9, <2>2
    <3>2. s[i] = old[i - a] /\ s[j] = old[j - a]
      BY <2>2, <3>1
    <3> QED
      BY <3>1, <3>2 DEF RowsOK, Descending
  <2>3. CASE i <= a /\ ~(j <= a)
    <3>1. i \in 1..a /\ j - a \in 1..b
      BY <2>3
    <3>2. s[i] = new[i] /\ s[j] = old[j - a]
      BY <2>3
    <3> QED
      BY <1>5, <1>6, <3>1, <3>2
  <2> QED
    BY <2>1, <2>2, <2>3
<1>11. RowsOK(s, f, 0, next)
  BY <1>8, <1>9 DEF RowsOK, Descending
<1>12. ASSUME NEW stored, k = a + b, stored \subseteq Traces,
              Has(stored, new, f, since, last), Has(stored, old, f, 0, since)
       PROVE  Has(stored, s, f, 0, next)
  <2> SUFFICES ASSUME NEW row \in stored, f \in {AllKinds, row.kind}, row.seq > 0, row.seq <= next
               PROVE  \E i \in 1..k : s[i] = row
    BY DEF Has
  <2>1. row.seq \in Nat
    BY <1>12, NumbersAre
  <2>2. CASE row.seq <= since
    <3>1. PICK i \in 1..b : old[i] = row
      BY <1>12, <2>2 DEF Has
    <3>2. a + i \in 1..k /\ ~(a + i <= a) /\ (a + i) - a = i
      BY <1>12, <3>1
    <3>3. s[a + i] = row
      BY <3>1, <3>2
    <3> QED
      BY <3>2, <3>3
  <2>3. CASE row.seq > since
    <3>1. row.seq <= last
      BY <1>7, <2>1, <2>3
    <3>2. PICK i \in 1..a : new[i] = row
      BY <1>12, <2>3, <3>1 DEF Has
    <3>3. i \in 1..k /\ i <= a
      BY <1>12, <3>2
    <3>4. s[i] = row
      BY <3>2, <3>3
    <3> QED
      BY <3>3, <3>4
  <2> QED
    BY <2>1, <2>2, <2>3
<1> QED
  BY <1>11, <1>12

LEMMA PolledKeeps == ASSUME TraceInv, NEW c \in Calls, Polled(c) PROVE TraceInv'
<1> DEFINE x == call[c]
           both == x.rows \o shown
           k == IF Len(both) < KeepLimit THEN Len(both) ELSE KeepLimit
<1>1. /\ x.kind = "poll" /\ x.answered /\ shown' = SubSeq(both, 1, k)
      /\ lastSeq' = (IF x.rows # <<>> \/ x.last > lastSeq THEN x.last ELSE lastSeq)
      /\ call' = [call EXCEPT ![c] = Idle]
      /\ cut' = (cut \/ x.more \/ Len(both) > KeepLimit)
      /\ UNCHANGED <<table, sequence, filter, turns, overlapped>>
  BY DEF Polled, SeenUpTo
<1>2. CallsOK' /\ TableOK' /\ Waiting' = Waiting \ {c}
  BY <1>1, IdleIs, PlaceIs
<1>3. /\ x \in CallRecords /\ x.last <= sequence
      /\ RowsOK(x.rows, x.for, x.since, x.last) /\ (~x.more => Has(table, x.rows, x.for, x.since, x.last))
  BY <1>1 DEF TraceInv, CallsOK, AnswerOK, AskedAfter
<1>4. x.rows \in Seq(Traces) /\ x.last \in Nat /\ x.more \in BOOLEAN
  BY <1>3 DEF CallRecords
<1>5. /\ shown \in Seq(Traces) /\ lastSeq \in Nat /\ lastSeq <= sequence /\ cut \in BOOLEAN
      /\ filter \in Filters /\ overlapped \in BOOLEAN /\ turns \in Nat
  BY DEF TraceInv, PageOK
<1>6. table \subseteq Traces /\ KeepLimit \in Nat
  BY SequenceIs, TraceAssumption DEF TraceInv
<1> HIDE DEF x
<1>7. shown' \in Seq(Traces) /\ Len(shown') <= KeepLimit
  BY <1>1, <1>4, <1>5, <1>6, JoinIs
<1>8. lastSeq' \in Nat /\ lastSeq' <= sequence
  BY <1>1, <1>3, <1>4, <1>5
<1>9. cut' \in BOOLEAN
  BY <1>1
<1>10. PageOK'
  BY <1>1, <1>5, <1>7, <1>8, <1>9 DEF PageOK
<1>11. ASSUME ~overlapped' PROVE CallsInTurn'
  <2>1. c \in Waiting
    BY <1>1 DEF Waiting, x
  <2>2. Waiting = {c} /\ x.for = filter /\ x.since = lastSeq
    BY <1>1, <1>11, <2>1 DEF TraceInv, CallsInTurn, x
  <2>3. Waiting' = {} /\ ~Loading
    BY <1>1, <1>2, <2>2 DEF Loading, x
  <2>4. RowsOK(shown, filter, 0, lastSeq) /\ (~cut => Has(table, shown, filter, 0, lastSeq))
    BY <1>1, <1>11, <2>3 DEF TraceInv, CallsInTurn
  <2>5. RowsOK(x.rows, filter, lastSeq, x.last) /\ (~x.more => Has(table, x.rows, filter, lastSeq, x.last))
    BY <1>3, <2>2
  <2>6. /\ RowsOK(shown', filter, 0, lastSeq')
        /\ ~(Len(both) > KeepLimit) /\ Has(table, x.rows, filter, lastSeq, x.last) /\ Has(table, shown, filter, 0, lastSeq)
           => Has(table, shown', filter, 0, lastSeq')
    <3> DEFINE a == Len(x.rows)
               b == Len(shown)
               j == Len(shown')
               w == shown'
               n == lastSeq'
    <3>1. /\ w \in Seq(Traces) /\ j \in Nat /\ j <= a + b /\ DOMAIN w = 1..j
          /\ ~(Len(both) > KeepLimit) => j = a + b
          /\ \A i \in 1..j : w[i] = IF i <= a THEN x.rows[i] ELSE shown[i - a]
      <4> DEFINE r == x.rows
      <4>1. r \in Seq(Traces) /\ both = r \o shown
        BY <1>4
      <4>2. w = SubSeq(both, 1, IF Len(both) < KeepLimit THEN Len(both) ELSE KeepLimit)
        BY <1>1
      <4> HIDE DEF r, both, w
      <4>3. /\ w \in Seq(Traces) /\ Len(w) \in Nat /\ Len(w) <= Len(r) + Len(shown) /\ DOMAIN w = 1..Len(w)
            /\ ~(Len(both) > KeepLimit) => Len(w) = Len(r) + Len(shown)
            /\ \A i \in 1..Len(w) : w[i] = IF i <= Len(r) THEN r[i] ELSE shown[i - Len(r)]
        BY <1>5, <1>6, <4>1, <4>2, JoinIs
      <4> QED
        BY <4>3 DEF w, r
    <3>2. a \in Nat /\ DOMAIN x.rows = 1..a /\ b \in Nat /\ DOMAIN shown = 1..b
      BY <1>4, <1>5
    <3>3. x.rows # <<>> <=> a > 0
      <4>1. x.rows = <<>> <=> a = 0
        BY <1>4, EmptySeq
      <4> HIDE DEF a
      <4> QED
        BY <3>2, <4>1
    <3>4. n = (IF a > 0 \/ x.last > lastSeq THEN x.last ELSE lastSeq)
      BY <1>1, <3>3
    <3> DEFINE new == x.rows
               last == x.last
    <3>5. /\ RowsOK(new, filter, lastSeq, last) /\ last \in Nat /\ DOMAIN new = 1..a
          /\ n = (IF a > 0 \/ last > lastSeq THEN last ELSE lastSeq)
          /\ \A i \in 1..j : w[i] = IF i <= a THEN new[i] ELSE shown[i - a]
      BY <1>4, <2>5, <3>1, <3>2, <3>4
    <3>6. Joins(w, j, new, a, shown, b)
      BY <3>1, <3>2, <3>5 DEF Joins
    <3>7. lastSeq \in Nat /\ RowsOK(shown, filter, 0, lastSeq) /\ table \subseteq Traces
      BY <1>5, <1>6, <2>4
    <3> HIDE DEF a, b, j, w, n, both, new, last
    <3>8. /\ RowsOK(w, filter, 0, n)
          /\ /\ j = a + b
             /\ Has(table, new, filter, lastSeq, last) /\ Has(table, shown, filter, 0, lastSeq)
             => Has(table, w, filter, 0, n)
      <4>1. /\ RowsOK(w, filter, 0, n)
            /\ \A stored : /\ j = a + b /\ stored \subseteq Traces
                           /\ Has(stored, new, filter, lastSeq, last) /\ Has(stored, shown, filter, 0, lastSeq)
                   => Has(stored, w, filter, 0, n)
        BY <3>5, <3>7, <3>6, JoinedIs
      <4> QED
        BY <3>7, <4>1
    <3> QED
      BY <3>1, <3>8 DEF w, n, new, last
  <2> HIDE DEF both
  <2>7. ~cut' => Has(table, shown', filter, 0, lastSeq')
    BY <1>1, <2>4, <2>5, <2>6
  <2>8. RowsOK(shown', filter', 0, lastSeq') /\ (~cut' => Has(table', shown', filter', 0, lastSeq'))
    BY <1>1, <2>6, <2>7
  <2> QED
    BY <2>3, <2>8 DEF CallsInTurn
<1> QED
  BY <1>2, <1>10, <1>11 DEF TraceInv

LEMMA ClearedKeeps == ASSUME TraceInv, NEW c \in Calls, Cleared(c) PROVE TraceInv'
<1> DEFINE x == [Idle EXCEPT !.kind = "load", !.for = call[c].for]
<1>1. /\ call[c].kind = "clear" /\ call' = [call EXCEPT ![c] = x]
      /\ UNCHANGED <<table, sequence, filter, shown, lastSeq, turns, overlapped, cut>>
  BY DEF Cleared
<1>2. call[c] \in CallRecords
  BY DEF TraceInv, CallsOK
<1>3. x \in CallRecords /\ ~x.answered /\ x.kind = "load" /\ x.for = call[c].for
  <2>1. call[c].for \in Filters
    BY <1>2 DEF CallRecords
  <2>2. <<>> \in Seq(Traces)
    OBVIOUS
  <2> QED
    BY <2>1, <2>2 DEF CallRecords, Idle
<1> HIDE DEF x
<1>4. CallsOK' /\ TableOK' /\ call'[c] = x /\ \A d \in Calls \ {c} : call'[d] = call[d]
  BY <1>1, <1>3, PlaceIs
<1>5. PageOK'
  BY <1>1 DEF TraceInv, PageOK
<1>6. ASSUME ~overlapped' PROVE CallsInTurn'
  <2>1. CallsInTurn
    BY <1>1, <1>6 DEF TraceInv
  <2>2. Waiting' = Waiting /\ c \in Waiting
    BY <1>1, <1>3, <1>4 DEF Waiting
  <2>3. Loading'
    BY <1>3, <1>4, <2>2 DEF Loading
  <2>4. ASSUME NEW d \in Waiting PROVE call'[d].for = filter' /\ (call'[d].kind = "poll" => call'[d].since = lastSeq')
    BY <1>1, <1>3, <1>4, <2>1 DEF CallsInTurn, Waiting
  <2> QED
    BY <2>1, <2>2, <2>3, <2>4 DEF CallsInTurn
<1> QED
  BY <1>4, <1>5, <1>6 DEF TraceInv

LEMMA LostKeeps == ASSUME TraceInv, NEW c \in Calls, Lost(c) PROVE TraceInv'
<1>1. /\ call' = [call EXCEPT ![c] = Idle] /\ overlapped' = TRUE /\ turns' \in Nat
      /\ UNCHANGED <<table, sequence, filter, shown, lastSeq, cut>>
  BY TurnIs DEF Lost, TraceInv
<1>2. CallsOK' /\ TableOK'
  BY <1>1, IdleIs, PlaceIs
<1>3. PageOK'
  BY <1>1 DEF TraceInv, PageOK
<1> QED
  BY <1>1, <1>2, <1>3 DEF TraceInv

LEMMA TraceStutters == ASSUME TraceInv, UNCHANGED traceVars PROVE TraceInv'
<1>1. TableOK' /\ PageOK' /\ CallsOK'
  BY DEF TraceInv, traceVars, TableOK, Numbered, PageOK, CallsOK
<1>2. CallsInTurn => CallsInTurn'
  BY DEF traceVars, CallsInTurn, Loading, Waiting
<1> QED
  BY <1>1, <1>2 DEF TraceInv, traceVars

LEMMA TraceStep == TraceInv /\ [TracesNext]_traceVars => TraceInv'
  BY InsertKeeps, DiscardKeeps, AskingKeeps, AnswerKeeps, LoadedKeeps, PolledKeeps, ClearedKeeps,
     LostKeeps, TraceStutters DEF TracesNext

LEMMA TraceInvImplies == TraceInv => TracesTypeOK /\ ShownIsExact /\ NothingIsMissed
<1> SUFFICES ASSUME TraceInv PROVE TracesTypeOK /\ ShownIsExact /\ NothingIsMissed
  OBVIOUS
<1>1. TracesTypeOK
  <2>1. sequence \in 0..MaxTraces /\ MaxTraces \in Nat /\ lastSeq \in Nat /\ lastSeq <= sequence
    BY TraceAssumption DEF TraceInv, TableOK, PageOK
  <2>2. lastSeq \in 0..MaxTraces
    BY <2>1
  <2>3. \A c \in Calls : call[c].kind \in {"none", "load", "poll", "clear"} /\ call[c].rows \in Seq(Traces)
    BY DEF TraceInv, CallsOK, CallRecords
  <2> QED
    BY <2>1, <2>2, <2>3 DEF TracesTypeOK, TraceInv, PageOK, TableOK, Numbered
<1>2. \A row : row \in ToSet(shown) <=> \E i \in DOMAIN shown : shown[i] = row
  BY DEF ToSet
<1>3. ShownIsExact
  BY <1>2 DEF ShownIsExact, TraceInv, CallsInTurn, RowsOK, Descending
<1>4. NothingIsMissed
  BY <1>2 DEF NothingIsMissed, TraceInv, CallsInTurn, Has, Matching
<1> QED
  BY <1>1, <1>3, <1>4

(***************************************************************************)
(* The days of the rates                                                   *)
(***************************************************************************)

After(D, d) == {e \in D : e > d}

\* A day that is recent among those of D.
Recent(D, d) == Cardinality(After(D, d)) < KeepDays

DayIsOK(day) == day \in Day /\ day.n <= day.sum /\ day.sum <= day.n * day.max
SeriesOK(s)  == DOMAIN s \subseteq Dates /\ \A d \in DOMAIN s : DayIsOK(s[d])

\* A day that only the file has is too old to be kept in memory, and one that
\* is not has in memory what it has on file.
FileIsBehind ==
    /\ \A d \in DOMAIN onFile \ DOMAIN daily : ~Recent(DOMAIN daily, d)
    /\ \A d \in DOMAIN daily : Recent(DOMAIN daily, d) => daily[d].n >= DayOf(onFile, d).n

FileIsSame ==
    /\ DOMAIN onFile \subseteq DOMAIN daily
    /\ \A d \in DOMAIN daily : daily[d] = DayOf(onFile, d)

DailyInv ==
    /\ today \in Dates /\ troubles \in Nat /\ dirty \in BOOLEAN /\ timer \in BOOLEAN
    /\ SeriesOK(daily) /\ SeriesOK(onFile)
    /\ FileIsBehind
    /\ ~dirty => FileIsSame
    /\ dirty /\ troubles = 0 => timer

LEMMA Larger ==
  ASSUME NEW n \in Nat, NEW a \in Nat, NEW b \in Nat, a <= b
  PROVE  n * a <= n * b
<1>1. PICK c \in Nat : b = a + c
  <2>1. b - a \in Nat /\ b = a + (b - a)
    OBVIOUS
  <2> QED
    BY <2>1
<1>2. n * b = n * a + n * c
  BY <1>1
<1>3. n * a \in Nat /\ n * c \in Nat
  BY <1>1
<1> QED
  BY <1>2, <1>3

LEMMA IngestIs ==
  ASSUME NEW day, DayIsOK(day), day.n < MaxSamples, NEW v \in 1..MaxRate
  PROVE  DayIsOK(Ingest(day, v)) /\ Ingest(day, v).n = day.n + 1
<1> DEFINE m == IF v > day.max THEN v ELSE day.max
<1>1. day.max \in 0..MaxRate /\ day.sum \in Nat /\ day.n \in 0..MaxSamples
  BY DEF DayIsOK, Day
<1>2. MaxSamples \in Nat /\ MaxRate \in Nat
  BY DailyAssumption
<1>3. m \in 0..MaxRate /\ day.max <= m /\ v <= m /\ v \in Nat /\ v >= 1
  BY <1>1, <1>2
<1>4. Ingest(day, v) = [max |-> m, sum |-> day.sum + v, n |-> day.n + 1]
  BY DEF Ingest
<1> HIDE DEF m
<1>5. day.n * day.max <= day.n * m
  BY <1>1, <1>2, <1>3, Larger
<1>6. (day.n + 1) * m = day.n * m + m
  BY <1>1, <1>2, <1>3
<1>7. day.n <= day.sum /\ day.sum <= day.n * day.max
  BY DEF DayIsOK
<1>8. day.n * m \in Nat /\ day.n * day.max \in Nat
  BY <1>1, <1>2, <1>3
<1>9. day.n + 1 <= day.sum + v /\ day.sum + v <= (day.n + 1) * m
  BY <1>1, <1>2, <1>3, <1>5, <1>6, <1>7, <1>8
<1>10. [max |-> m, sum |-> day.sum + v, n |-> day.n + 1] \in Day
  BY <1>1, <1>2, <1>3 DEF Day
<1> QED
  BY <1>4, <1>9, <1>10 DEF DayIsOK

LEMMA EmptyIs == DayIsOK(Empty) /\ Empty.n = 0
<1>1. MaxRate \in Nat /\ MaxSamples \in Nat
  BY DailyAssumption
<1>2. Empty \in Day /\ Empty.n = 0 /\ Empty.sum = 0 /\ Empty.max = 0
  BY <1>1 DEF Empty, Day
<1> QED
  BY <1>2 DEF DayIsOK

LEMMA DayOfIs ==
  ASSUME NEW s, SeriesOK(s), NEW d
  PROVE  DayIsOK(DayOf(s, d)) /\ DayOf(s, d).n \in Nat
<1>1. DayIsOK(DayOf(s, d))
  BY EmptyIs DEF SeriesOK, DayOf
<1> QED
  BY <1>1, DailyAssumption DEF DayIsOK, Day

-----------------------------------------------------------------------------
\* A set of days has a last one.
LEMMA LastIs ==
  ASSUME NEW B \in SUBSET Dates, B # {}
  PROVE  \E e \in B : \A f \in B : f <= e
<1>1. LastDay \in Nat /\ B \in SUBSET (0..LastDay)
  BY DailyAssumption DEF Dates
<1> QED
  BY <1>1, LargestIs

LEMMA AfterIs ==
  ASSUME NEW D \in SUBSET Dates, NEW d
  PROVE  IsFiniteSet(After(D, d)) /\ Cardinality(After(D, d)) \in Nat
<1>1. IsFiniteSet(Dates)
  BY FS_Interval, DailyAssumption DEF Dates
<1>2. After(D, d) \subseteq Dates
  BY DEF After
<1> QED
  BY <1>1, <1>2, FS_Subset, FS_CardinalityType

\* A day that is recent among many is recent among fewer.
LEMMA RecentAmongFewer ==
  ASSUME NEW D \in SUBSET Dates, NEW E \in SUBSET D, NEW d, Recent(D, d)
  PROVE  Recent(E, d)
<1>1. After(E, d) \subseteq After(D, d)
  BY DEF After
<1>2. Cardinality(After(E, d)) <= Cardinality(After(D, d))
  BY <1>1, AfterIs, FS_Subset
<1>3. Cardinality(After(E, d)) \in Nat /\ Cardinality(After(D, d)) \in Nat /\ KeepDays \in Nat
  BY AfterIs, DailyAssumption
<1> QED
  BY <1>2, <1>3 DEF Recent

\* What is not recent among all days is not among the recent ones.
LEMMA RecentAmongRecent ==
  ASSUME NEW D \in SUBSET Dates, NEW E, E = {e \in D : Recent(D, e)}, NEW d \in Dates, Recent(E, d)
  PROVE  Recent(D, d)
<1> SUFFICES ASSUME ~Recent(D, d) PROVE FALSE
  OBVIOUS
<1> DEFINE B == After(D, d) \ E
<1>1. \A e \in Dates : e \in Int
  BY DailyAssumption DEF Dates
<1>2. B # {}
  <2> SUFFICES ASSUME B = {} PROVE FALSE
    OBVIOUS
  <2>1. After(E, d) = After(D, d)
    BY DEF After
  <2> QED
    BY <2>1 DEF Recent
<1>3. PICK e \in B : \A f \in B : f <= e
  <2>1. B \in SUBSET Dates
    BY DEF After
  <2> HIDE DEF B
  <2> QED
    BY <1>2, <2>1, LastIs
<1>4. After(D, e) \subseteq After(E, d)
  <2> SUFFICES ASSUME NEW f \in D, f > e PROVE f \in E /\ f > d
    BY DEF After
  <2>1. e > d /\ d \in Int /\ e \in Int /\ f \in Int
    BY <1>1, <1>3 DEF After
  <2>2. f > d /\ ~(f <= e)
    BY <2>1
  <2>3. f \notin B
    BY <1>3, <2>2
  <2> QED
    BY <2>2, <2>3 DEF After
<1>5. Recent(D, e)
  <2>1. E \in SUBSET Dates
    OBVIOUS
  <2>2. Cardinality(After(D, e)) <= Cardinality(After(E, d))
    BY <1>4, <2>1, AfterIs, FS_Subset
  <2>3. Cardinality(After(D, e)) \in Nat /\ Cardinality(After(E, d)) \in Nat /\ KeepDays \in Nat
    BY <2>1, AfterIs, DailyAssumption
  <2> QED
    BY <2>2, <2>3 DEF Recent
<1> QED
  BY <1>3, <1>5 DEF After

LEMMA PrunedDays ==
  ASSUME NEW s
  PROVE  /\ DOMAIN Pruned(s) = {d \in DOMAIN s : Recent(DOMAIN s, d)}
         /\ \A d \in DOMAIN Pruned(s) : Pruned(s)[d] = s[d]
  BY DEF Pruned, Restrict, Recent, After

-----------------------------------------------------------------------------
LEMMA DailyInitInv == DailyInit => DailyInv
<1> SUFFICES ASSUME DailyInit PROVE DailyInv
  OBVIOUS
<1>1. DOMAIN daily = {} /\ DOMAIN onFile = {} /\ dirty = FALSE /\ timer = FALSE /\ troubles = 0 /\ today = 1
  BY DEF DailyInit
<1>2. today \in Dates
  BY <1>1, DailyAssumption DEF Dates
<1>3. SeriesOK(daily) /\ SeriesOK(onFile) /\ FileIsBehind /\ FileIsSame
  BY <1>1 DEF SeriesOK, FileIsBehind, FileIsSame
<1> QED
  BY <1>1, <1>2, <1>3 DEF DailyInv

LEMMA IdleSampleKeeps == ASSUME DailyInv, IdleSample PROVE DailyInv'
<1> DEFINE D == DOMAIN daily
           E == D \cup {today}
<1>1. /\ DOMAIN daily' = E
      /\ \A d \in D : daily'[d] = daily[d]
      /\ \A d \in E \ D : daily'[d] = Empty
  BY DEF IdleSample, DayOf
<1>2. today \in Dates /\ D \in SUBSET Dates /\ E \in SUBSET Dates /\ D \subseteq E
  BY DEF DailyInv, SeriesOK
<1>3. SeriesOK(daily)'
  <2>1. \A d \in E : DayIsOK(daily'[d])
    BY <1>1, EmptyIs DEF DailyInv, SeriesOK
  <2> QED
    BY <1>1, <1>2, <2>1 DEF SeriesOK
<1>4. UNCHANGED <<today, onFile, dirty, timer, troubles>>
  BY DEF IdleSample
<1>5. SeriesOK(onFile)'
  BY <1>4 DEF DailyInv, SeriesOK
<1>6. FileIsBehind'
  <2>1. ASSUME NEW d \in DOMAIN onFile \ E PROVE ~Recent(E, d)
    <3>1. ~Recent(D, d)
      BY <2>1 DEF DailyInv, FileIsBehind
    <3> QED
      BY <1>2, <3>1, RecentAmongFewer
  <2>2. ASSUME NEW d \in E, Recent(E, d) PROVE daily'[d].n >= DayOf(onFile, d).n
    <3>1. Recent(D, d)
      BY <1>2, <2>2, RecentAmongFewer
    <3>2. CASE d \in D
      BY <1>1, <3>1, <3>2 DEF DailyInv, FileIsBehind
    <3>3. CASE d \notin D
      <4>1. d \notin DOMAIN onFile
        BY <3>1, <3>3 DEF DailyInv, FileIsBehind
      <4>2. DayOf(onFile, d) = Empty /\ daily'[d] = Empty
        BY <1>1, <2>2, <3>3, <4>1 DEF DayOf
      <4> QED
        BY <4>2, EmptyIs
    <3> QED
      BY <3>2, <3>3
  <2>3. DOMAIN onFile' = DOMAIN onFile /\ \A d : DayOf(onFile', d) = DayOf(onFile, d)
    BY <1>4
  <2> QED
    BY <1>1, <2>1, <2>2, <2>3 DEF FileIsBehind
<1>7. ASSUME ~dirty' PROVE FileIsSame'
  <2>1. FileIsSame
    BY <1>4, <1>7 DEF DailyInv
  <2>2. \A d \in E : daily'[d] = DayOf(onFile, d)
    <3>1. \A d \in E \ D : DayOf(onFile, d) = Empty
      BY <2>1 DEF FileIsSame, DayOf
    <3> QED
      BY <1>1, <2>1, <3>1 DEF FileIsSame
  <2> QED
    BY <1>1, <1>4, <2>1, <2>2 DEF FileIsSame
<1> QED
  BY <1>3, <1>4, <1>5, <1>6, <1>7 DEF DailyInv

LEMMA BusySampleKeeps == ASSUME DailyInv, NEW v \in 1..MaxRate, BusySample(v) PROVE DailyInv'
<1> DEFINE D == DOMAIN daily
           E == D \cup {today}
           s == [d \in E |-> IF d = today THEN Ingest(DayOf(daily, d), v) ELSE daily[d]]
           F == {d \in E : Recent(E, d)}
<1>1. daily' = Pruned(s) /\ DayOf(daily, today).n < MaxSamples
  BY DEF BusySample
<1>2. dirty' = TRUE /\ timer' = TRUE /\ UNCHANGED <<today, onFile, troubles>>
  BY DEF BusySample, TimerAfter
<1>3. today \in Dates /\ D \in SUBSET Dates /\ E \in SUBSET Dates /\ D \subseteq E /\ F \subseteq E
  BY DEF DailyInv, SeriesOK
<1>4. DOMAIN s = E /\ s[today] = Ingest(DayOf(daily, today), v) /\ \A d \in E \ {today} : s[d] = daily[d]
  OBVIOUS
<1>5. DayIsOK(s[today]) /\ s[today].n = DayOf(daily, today).n + 1
  <2>1. DayIsOK(DayOf(daily, today))
    BY DayOfIs DEF DailyInv
  <2> QED
    BY <1>1, <1>4, <2>1, IngestIs
<1> HIDE DEF s
<1>6. DOMAIN daily' = F /\ \A d \in F : daily'[d] = s[d]
  <2>1. /\ DOMAIN Pruned(s) = {d \in DOMAIN s : Recent(DOMAIN s, d)}
        /\ \A d \in DOMAIN Pruned(s) : Pruned(s)[d] = s[d]
    BY PrunedDays
  <2>2. DOMAIN Pruned(s) = F
    BY <1>4, <2>1
  <2> QED
    BY <1>1, <2>1, <2>2
<1>7. SeriesOK(daily)'
  <2>1. \A d \in E : DayIsOK(s[d])
    BY <1>4, <1>5 DEF DailyInv, SeriesOK
  <2> QED
    BY <1>3, <1>6, <2>1 DEF SeriesOK
<1>8. SeriesOK(onFile)'
  BY <1>2 DEF DailyInv, SeriesOK
<1>9. FileIsBehind'
  <2>1. ASSUME NEW d \in DOMAIN onFile \ F PROVE ~Recent(F, d)
    <3> SUFFICES ASSUME Recent(F, d) PROVE FALSE
      OBVIOUS
    <3>1. d \in Dates
      BY DEF DailyInv, SeriesOK
    <3>2. Recent(E, d)
      BY <1>3, <3>1, RecentAmongRecent
    <3>3. d \notin D /\ Recent(D, d)
      BY <1>3, <2>1, <3>2, RecentAmongFewer
    <3> QED
      BY <3>3 DEF DailyInv, FileIsBehind
  <2>2. ASSUME NEW d \in F PROVE daily'[d].n >= DayOf(onFile, d).n
    <3>1. Recent(E, d) /\ Recent(D, d) /\ d \in E
      BY <1>3, RecentAmongFewer
    <3>2. CASE d # today
      BY <1>4, <1>6, <3>1, <3>2 DEF DailyInv, FileIsBehind
    <3>3. CASE d = today
      <4>1. DayOf(daily, today).n >= DayOf(onFile, today).n
        <5>1. CASE today \in D
          BY <3>1, <3>3, <5>1 DEF DailyInv, FileIsBehind, DayOf
        <5>2. CASE today \notin D
          <6>1. today \notin DOMAIN onFile
            BY <3>1, <3>3, <5>2 DEF DailyInv, FileIsBehind
          <6> QED
            BY <5>2, <6>1, EmptyIs DEF DayOf
        <5> QED
          BY <5>1, <5>2
      <4>2. DayOf(daily, today).n \in Nat /\ DayOf(onFile, today).n \in Nat
        BY DayOfIs DEF DailyInv
      <4>3. daily'[d].n = DayOf(daily, today).n + 1
        BY <1>5, <1>6, <3>3
      <4> HIDE DEF F
      <4> QED
        BY <3>3, <4>1, <4>2, <4>3
    <3> QED
      BY <3>2, <3>3
  <2>3. DOMAIN onFile' = DOMAIN onFile /\ \A d : DayOf(onFile', d) = DayOf(onFile, d)
    BY <1>2
  <2> HIDE DEF F
  <2> QED
    BY <1>6, <2>1, <2>2, <2>3 DEF FileIsBehind
<1> QED
  BY <1>2, <1>7, <1>8, <1>9 DEF DailyInv

\* Memory and file are the same again: a write, or a start from the file.
LEMMA SameKeeps ==
  ASSUME DailyInv, daily' = onFile', onFile' = daily \/ onFile' = onFile, ~dirty', dirty' \in BOOLEAN,
         timer' \in BOOLEAN, today' = today, troubles' \in Nat
  PROVE  DailyInv'
<1>1. SeriesOK(onFile)' /\ SeriesOK(daily)'
  BY DEF DailyInv, SeriesOK
<1>2. FileIsSame'
  BY DEF FileIsSame, DayOf
<1>3. FileIsBehind'
  <2>1. \A d \in DOMAIN daily' : daily'[d].n \in Nat /\ daily'[d] = DayOf(onFile', d)
    BY <1>1, DailyAssumption DEF SeriesOK, DayIsOK, Day, DayOf
  <2>2. DOMAIN onFile' \ DOMAIN daily' = {}
    OBVIOUS
  <2>3. \A d \in DOMAIN daily' : daily'[d].n >= DayOf(onFile', d).n
    BY <2>1
  <2> QED
    BY <2>2, <2>3 DEF FileIsBehind
<1> QED
  BY <1>1, <1>2, <1>3 DEF DailyInv

LEMMA FlushKeeps == ASSUME DailyInv, Flush PROVE DailyInv'
<1>1. timer' = FALSE /\ UNCHANGED <<today, daily, troubles>>
  BY DEF Flush
<1>2. CASE dirty
  <2>1. onFile' = daily /\ dirty' = FALSE
    BY <1>2 DEF Flush, Write
  <2> QED
    BY <1>1, <2>1, SameKeeps DEF DailyInv
<1>3. CASE ~dirty
  <2>1. UNCHANGED <<onFile, dirty>>
    BY <1>3 DEF Flush, Write
  <2> QED
    BY <1>1, <1>3, <2>1 DEF DailyInv, SeriesOK, FileIsBehind, FileIsSame
<1> QED
  BY <1>2, <1>3

LEMMA RestartKeeps == ASSUME DailyInv, Reboot \/ Killed PROVE DailyInv'
<1>1. troubles' \in Nat /\ today' = today /\ timer' = FALSE
  BY DEF DailyInv, Reboot, Killed, Trouble
<1>2. CASE Reboot
  <2>1. daily' = onFile' /\ (onFile' = daily \/ onFile' = onFile) /\ ~dirty' /\ dirty' \in BOOLEAN
    BY <1>2 DEF Reboot, Write, DailyInv
  <2> QED
    BY <1>1, <2>1, SameKeeps
<1>3. CASE Killed
  <2>1. daily' = onFile' /\ onFile' = onFile /\ dirty' = FALSE
    BY <1>3 DEF Killed
  <2> QED
    BY <1>1, <2>1, SameKeeps
<1> QED
  BY <1>2, <1>3

LEMMA TimesKeep ==
  ASSUME DailyInv, FlushFails \/ NextDay \/ SetBack \/ UNCHANGED dailyVars
  PROVE  DailyInv'
<1>1. UNCHANGED <<daily, onFile, dirty>>
  BY DEF FlushFails, NextDay, SetBack, dailyVars
<1>2. today' \in Dates
  <2>1. LastDay \in Nat
    BY DailyAssumption
  <2>2. CASE NextDay
    BY <2>1, <2>2 DEF NextDay, DailyInv, Dates
  <2>3. CASE SetBack
    BY <2>1, <2>3 DEF SetBack, DailyInv, Dates
  <2> QED
    BY <2>2, <2>3 DEF FlushFails, dailyVars, DailyInv
<1>3. troubles' \in Nat /\ timer' \in BOOLEAN /\ (dirty' /\ troubles' = 0 => timer')
  <2>1. CASE FlushFails
    <3>1. troubles' \in Nat /\ troubles' # 0
      BY <2>1 DEF FlushFails, DailyInv, Trouble
    <3>2. timer' = FALSE
      BY <2>1 DEF FlushFails
    <3> QED
      BY <3>1, <3>2
  <2>2. CASE NextDay \/ UNCHANGED dailyVars
    BY <2>2 DEF NextDay, dailyVars, DailyInv
  <2>3. CASE SetBack
    <3>1. troubles' \in Nat /\ troubles' # 0
      BY <2>3 DEF SetBack, DailyInv, Trouble
    <3>2. UNCHANGED <<dirty, timer>>
      BY <2>3 DEF SetBack
    <3> QED
      BY <3>1, <3>2 DEF DailyInv
  <2> QED
    BY <2>1, <2>2, <2>3
<1>4. (SeriesOK(daily) /\ SeriesOK(onFile) /\ FileIsBehind /\ (~dirty => FileIsSame))'
  BY <1>1 DEF DailyInv, SeriesOK, FileIsBehind, FileIsSame
<1> QED
  BY <1>1, <1>2, <1>3, <1>4 DEF DailyInv

LEMMA DailyStep == DailyInv /\ [DailyNext]_dailyVars => DailyInv'
  BY IdleSampleKeeps, BusySampleKeeps, FlushKeeps, RestartKeeps, TimesKeep DEF DailyNext

LEMMA DailyInvImplies == DailyInv => DailyTypeOK /\ AverageIsInside /\ UnsavedIsPending
<1> SUFFICES ASSUME DailyInv PROVE DailyTypeOK /\ AverageIsInside /\ UnsavedIsPending
  OBVIOUS
<1>1. DailyTypeOK /\ AverageIsInside
  BY DEF DailyInv, SeriesOK, DayIsOK, DailyTypeOK, AverageIsInside
<1>2. \A d \in DOMAIN Pruned(daily) : d \in DOMAIN daily /\ Recent(DOMAIN daily, d)
  BY PrunedDays
<1>3. UnsavedIsPending
  BY <1>2 DEF DailyInv, FileIsBehind, FileIsSame, UnsavedIsPending
<1> QED
  BY <1>1, <1>3

(***************************************************************************)
(* The three side by side                                                  *)
(***************************************************************************)

\* The invariants of the three parts hold together: a step of one is a stutter
\* of the others.
THEOREM RecordsInvariance == RecordsSpec => [](JobsIInv /\ TraceInv /\ DailyInv)
<1>1. RecordsInit => JobsIInv /\ TraceInv /\ DailyInv
  BY JobsInitIInv, TraceInitInv, DailyInitInv DEF RecordsInit
<1>2. ASSUME JobsIInv, TraceInv, DailyInv, [RecordsNext]_recordsVars
      PROVE  JobsIInv' /\ TraceInv' /\ DailyInv'
  <2>1. [JobsNext]_jobsVars /\ [TracesNext]_traceVars /\ [DailyNext]_dailyVars
    BY <1>2 DEF RecordsNext, recordsVars
  <2> QED
    BY <1>2, <2>1, JobsNextStep, TraceStep, DailyStep
<1> QED
  BY <1>1, <1>2, PTL DEF RecordsSpec

\* A page that follows the traces one call at a time shows those of its filter
\* once, the newest first, and misses none up to the number it polls after, for
\* any limits, clears and purges (TraceStore.js, AnalysisPage.tsx).  The average
\* of a day lies inside what was seen, and what memory would keep of a day has
\* at least the samples on file, for any writes that fail, crashes and clocks
\* set back (LlmDaily.js).
THEOREM RecordsAreExact ==
  RecordsSpec => /\ [](TracesTypeOK /\ ShownIsExact /\ NothingIsMissed)
                 /\ [](DailyTypeOK /\ AverageIsInside /\ UnsavedIsPending)
  BY RecordsInvariance, TraceInvImplies, DailyInvImplies, PTL

\* What the runs check of the jobs holds of the whole.
THEOREM RecordsOfJobs == RecordsSpec => [](JobsTypeOK /\ RunningOnDisk /\ HonestOutcome /\ GateUpToOverlap)
  BY RecordsInvariance, JobsIInvImplies, PTL
=============================================================================
