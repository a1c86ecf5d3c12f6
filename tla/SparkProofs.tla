----------------------------- MODULE SparkProofs -----------------------------
(***************************************************************************)
(* Proofs about MCSpark: the monitor of a spark, its clocks, its checkout  *)
(* of Hermes, and the power of the fleet, for any domains, requests,       *)
(* nodes and bounds.                                                       *)
(***************************************************************************)
EXTENDS MCSpark, SequenceTheorems, TLAPS

-----------------------------------------------------------------------------
(* SparkMonitor: the invariant *)

MetricRecord == [src : {"none", "ssh", "agent"}, read : 0..MaxGen, put : 0..MaxGen]

\* The parts of MonitorTypeOK.
MonitorTypes ==
    /\ gen \in 1..MaxGen /\ enabled \subseteq OptIn
    /\ guard \in [Domains -> 0..MaxGen] /\ checking \in 0..MaxGen
    /\ transport \in {"ssh", "agent"} /\ updating \in 0..MaxUpdates
    /\ hermes \in {"idle", "running", "success", "error"}

PollTypes ==
    /\ polls \subseteq [dom : Domains, gen : 1..MaxGen]
    /\ metrics \in [Domains -> MetricRecord]
    /\ checks \subseteq [gen : 1..MaxGen, was : BOOLEAN]

MonitorFlags ==
    /\ running \in BOOLEAN /\ online \in BOOLEAN /\ fresh \in BOOLEAN /\ fired \in BOOLEAN
    /\ linked \in BOOLEAN /\ rebuilt \in BOOLEAN /\ okay \in [Domains -> BOOLEAN]

\* Whatever returns belongs to this generation or to an earlier one, and the
\* guards are of this one.
GensArePast ==
    /\ \A p \in polls : p.gen <= gen
    /\ \A c \in checks : c.gen <= gen
    /\ \A d \in Domains : guard[d] \in {0, gen}
    /\ checking \in {0, gen}

\* One check of this life at a time; while it is under way the spark does not
\* go offline.
OneCheck == running =>
    /\ \A c \in checks : c.gen = gen => checking = gen /\ (c.was => online)
    /\ \A c, b \in checks : c.gen = gen /\ b.gen = gen => c = b

MonitorInv ==
    /\ MonitorTypes /\ PollTypes /\ MonitorFlags
    /\ GensArePast /\ OneCheck
    /\ FreshIsCurrent /\ CommitsItsOwn /\ GuardIsExact /\ TransportFollows

-----------------------------------------------------------------------------
(* SparkMonitor: the proof *)

LEMMA DueIsDomains == ASSUME NEW on, NEW how PROVE Due(on, how) \subseteq Domains
  BY DEF Due

LEMMA MetricIs ==
  ASSUME NEW a \in {"none", "ssh", "agent"}, NEW r \in 0..MaxGen, NEW t \in 0..MaxGen
  PROVE  Metric(a, r, t) \in MetricRecord
  BY DEF Metric, MetricRecord

LEMMA NothingIs == /\ Nothing \in MetricRecord /\ Nothing.src = "none"
  BY MonitorAssumption DEF Nothing, Metric, MetricRecord

LEMMA MonitorInitInv == MonitorInit => MonitorInv
<1> SUFFICES ASSUME MonitorInit PROVE MonitorInv
  OBVIOUS
<1> USE MonitorAssumption DEF MonitorInit
<1> DEFINE asked == Due(enabled, "ssh")
<1>1. asked \subseteq Domains
  BY DueIsDomains
<1>2. /\ guard = [d \in Domains |-> IF d \in asked THEN 1 ELSE 0]
      /\ polls = {Poll(d, 1) : d \in asked}
  OBVIOUS
<1> HIDE DEF asked
<1>3. MonitorTypes /\ MonitorFlags
  <2>1. MonitorTypes
    BY <1>2 DEF MonitorTypes
  <2>2. MonitorFlags
    BY DEF MonitorFlags
  <2> QED
    BY <2>1, <2>2
<1>4. PollTypes
  BY <1>1, <1>2, NothingIs DEF PollTypes, Poll, Check
<1>5. GensArePast
  BY <1>1, <1>2 DEF GensArePast, Poll, Check
<1>6. OneCheck
  BY DEF OneCheck, Check
<1>7. FreshIsCurrent /\ CommitsItsOwn /\ TransportFollows
  BY NothingIs DEF FreshIsCurrent, CommitsItsOwn, TransportFollows
<1>8. GuardIsExact
  <2> SUFFICES ASSUME NEW d \in Domains PROVE guard[d] # 0 <=> Poll(d, gen) \in polls
    BY DEF GuardIsExact
  <2>1. Poll(d, 1) \in {Poll(e, 1) : e \in asked} <=> d \in asked
    BY DEF Poll
  <2> QED
    BY <1>2, <2>1
<1> QED
  BY <1>3, <1>4, <1>5, <1>6, <1>7, <1>8 DEF MonitorInv

LEMMA StartStep == ASSUME MonitorInv, Start PROVE MonitorInv'
<1> USE MonitorAssumption DEF MonitorInv
<1> DEFINE asked == Due(enabled', "ssh")
<1>1. asked \subseteq Domains
  BY DueIsDomains
<1>2. /\ gen < MaxGen /\ gen' = gen + 1 /\ running' = TRUE /\ transport' = "ssh"
      /\ enabled' \subseteq OptIn
      /\ guard' = [d \in Domains |-> IF d \in asked THEN gen' ELSE 0]
      /\ polls' = polls \union {Poll(d, gen') : d \in asked}
      /\ metrics' = [d \in Domains |-> Nothing] /\ okay' = [d \in Domains |-> FALSE]
      /\ online' = FALSE /\ fresh' = FALSE /\ fired' = FALSE
      /\ checks' = checks \union {Check(gen', FALSE)} /\ checking' = gen'
      /\ hermes' = "idle" /\ updating' = 0 /\ rebuilt' = linked /\ linked' = linked
  BY DEF Start
<1> HIDE DEF asked
<1>3. gen \in Nat /\ gen' \in 1..MaxGen /\ gen' # gen /\ gen' > gen
  BY <1>2 DEF MonitorTypes
<1>4. \A p \in polls' : p \in polls \/ (p.gen = gen' /\ p.dom \in asked /\ p = Poll(p.dom, gen'))
  BY <1>2 DEF Poll
<1>5. MonitorTypes'
  BY <1>2, <1>3 DEF MonitorTypes
<1>6. MonitorFlags'
  BY <1>2 DEF MonitorFlags
<1>7. PollTypes'
  <2>1. polls' \subseteq [dom : Domains, gen : 1..MaxGen]
    BY <1>1, <1>2, <1>3 DEF PollTypes, Poll
  <2>2. metrics' \in [Domains -> MetricRecord]
    BY <1>2, NothingIs
  <2>3. checks' \subseteq [gen : 1..MaxGen, was : BOOLEAN]
    <3>1. Check(gen', FALSE) \in [gen : 1..MaxGen, was : BOOLEAN]
      BY <1>3 DEF Check
    <3> QED
      BY <1>2, <3>1 DEF PollTypes
  <2> QED
    BY <2>1, <2>2, <2>3 DEF PollTypes
<1>8. GensArePast'
  BY <1>2, <1>3, <1>4 DEF GensArePast, PollTypes, Check
<1>9. OneCheck'
  <2>1. \A c \in checks' : c.gen = gen' => c = Check(gen', FALSE)
    <3>1. \A c \in checks : c.gen # gen'
      <4> SUFFICES ASSUME NEW c \in checks PROVE c.gen # gen'
        OBVIOUS
      <4>1. c.gen <= gen /\ c.gen \in 1..MaxGen
        BY DEF GensArePast, PollTypes
      <4> QED
        BY <1>3, <4>1
    <3> QED
      BY <1>2, <3>1
  <2>2. Check(gen', FALSE).was = FALSE
    BY DEF Check
  <2> QED
    BY <1>2, <2>1, <2>2 DEF OneCheck
<1>10. FreshIsCurrent' /\ CommitsItsOwn' /\ TransportFollows'
  BY <1>2, NothingIs DEF FreshIsCurrent, CommitsItsOwn, TransportFollows, MonitorFlags
<1>11. GuardIsExact'
  <2> SUFFICES ASSUME NEW d \in Domains PROVE guard'[d] # 0 <=> Poll(d, gen') \in polls'
    BY DEF GuardIsExact
  <2>1. Poll(d, gen') \notin polls
    BY <1>3 DEF GensArePast, Poll
  <2>2. Poll(d, gen') \in {Poll(e, gen') : e \in asked} <=> d \in asked
    BY DEF Poll
  <2>3. guard'[d] # 0 <=> d \in asked
    BY <1>2, <1>3
  <2> QED
    BY <1>2, <2>1, <2>2, <2>3
<1> QED
  BY <1>5, <1>6, <1>7, <1>8, <1>9, <1>10, <1>11

LEMMA StopStep == ASSUME MonitorInv, Stop PROVE MonitorInv'
<1> USE MonitorAssumption DEF MonitorInv
<1>1. /\ gen < MaxGen /\ gen' = gen + 1 /\ running' = FALSE
      /\ guard' = [d \in Domains |-> 0] /\ checking' = 0
      /\ okay' = [d \in Domains |-> FALSE] /\ fired' = FALSE
      /\ UNCHANGED <<enabled, polls, metrics, transport, online, fresh, checks, hermes, updating, linked, rebuilt>>
  BY DEF Stop, regVars
<1>2. gen \in Nat /\ gen' \in 1..MaxGen
  BY <1>1 DEF MonitorTypes
<1>3. MonitorTypes' /\ MonitorFlags' /\ PollTypes'
  <2>1. MonitorTypes'
    BY <1>1, <1>2 DEF MonitorTypes
  <2>2. MonitorFlags'
    BY <1>1 DEF MonitorFlags
  <2>3. PollTypes'
    BY <1>1 DEF PollTypes
  <2> QED
    BY <2>1, <2>2, <2>3
<1>4. GensArePast'
  BY <1>1, <1>2 DEF GensArePast, PollTypes
<1>5. OneCheck' /\ FreshIsCurrent' /\ CommitsItsOwn' /\ TransportFollows' /\ GuardIsExact'
  BY <1>1 DEF OneCheck, FreshIsCurrent, CommitsItsOwn, TransportFollows, GuardIsExact
<1> QED
  BY <1>3, <1>4, <1>5

LEMMA UpdateConfigStep == ASSUME MonitorInv, UpdateConfig PROVE MonitorInv'
<1> USE MonitorAssumption DEF MonitorInv
<1> DEFINE on == enabled' \ enabled
<1>1. /\ gen < MaxGen /\ gen' = gen + 1 /\ running' = running /\ enabled' \subseteq OptIn
      /\ guard' = [d \in Domains |-> IF d \in on THEN gen' ELSE 0]
      /\ polls' = polls \union {Poll(d, gen') : d \in on}
      /\ metrics' = [d \in Domains |-> IF d \in OptIn \ enabled' THEN Nothing ELSE metrics[d]]
      /\ okay' = [d \in Domains |-> FALSE] /\ checking' = 0 /\ fired' = FALSE
      /\ hermes' \in {hermes, "idle"}
      /\ UNCHANGED <<transport, online, fresh, checks, updating, linked, rebuilt>>
  BY DEF UpdateConfig, regVars
<1>2. on \subseteq Domains
  BY <1>1
<1> HIDE DEF on
<1>3. gen \in Nat /\ gen' \in 1..MaxGen /\ gen' # gen /\ gen' > gen
  BY <1>1 DEF MonitorTypes
<1>4. \A p \in polls' : p \in polls \/ (p.gen = gen' /\ p.dom \in on)
  BY <1>1 DEF Poll
<1>5. MonitorTypes'
  BY <1>1, <1>3 DEF MonitorTypes
<1>6. MonitorFlags'
  BY <1>1 DEF MonitorFlags
<1>7. PollTypes'
  BY <1>1, <1>2, <1>3, NothingIs DEF PollTypes, Poll
<1>8. GensArePast'
  BY <1>1, <1>3, <1>4 DEF GensArePast, PollTypes
<1>9. OneCheck'
  BY <1>1, <1>3 DEF OneCheck, GensArePast, PollTypes
<1>10. FreshIsCurrent' /\ CommitsItsOwn' /\ TransportFollows'
  BY <1>1, NothingIs DEF FreshIsCurrent, CommitsItsOwn, TransportFollows
<1>11. GuardIsExact'
  <2> SUFFICES ASSUME NEW d \in Domains PROVE guard'[d] # 0 <=> Poll(d, gen') \in polls'
    BY DEF GuardIsExact
  <2>1. Poll(d, gen') \notin polls
    BY <1>3 DEF GensArePast, Poll
  <2>2. Poll(d, gen') \in {Poll(e, gen') : e \in on} <=> d \in on
    BY DEF Poll
  <2>3. guard'[d] # 0 <=> d \in on
    BY <1>1, <1>3
  <2> QED
    BY <1>1, <2>1, <2>2, <2>3
<1> QED
  BY <1>5, <1>6, <1>7, <1>8, <1>9, <1>10, <1>11

LEMMA PollBeginsStep == ASSUME MonitorInv, NEW d \in Domains, PollBegins(d) PROVE MonitorInv'
<1> USE DEF MonitorInv
<1>1. /\ running /\ guard[d] = 0 /\ guard' = [guard EXCEPT ![d] = gen]
      /\ polls' = polls \union {Poll(d, gen)} /\ fired' = FALSE
      /\ UNCHANGED <<running, gen, enabled, metrics, okay, transport, online, fresh, checks, checking>>
      /\ UNCHANGED <<hermes, updating, linked, rebuilt>>
  BY DEF PollBegins, liveVars, regVars
<1>2. gen \in 1..MaxGen
  BY DEF MonitorTypes
<1>3. MonitorTypes'
  BY <1>1, <1>2 DEF MonitorTypes
<1>4. MonitorFlags'
  BY <1>1 DEF MonitorFlags
<1>5. PollTypes'
  BY <1>1, <1>2 DEF PollTypes, Poll
<1>6. GensArePast'
  BY <1>1, <1>2 DEF GensArePast, Poll, MonitorTypes
<1>7. OneCheck' /\ FreshIsCurrent' /\ CommitsItsOwn' /\ TransportFollows'
  BY <1>1 DEF OneCheck, FreshIsCurrent, CommitsItsOwn, TransportFollows
<1>8. GuardIsExact'
  <2> SUFFICES ASSUME NEW e \in Domains PROVE guard'[e] # 0 <=> Poll(e, gen) \in polls'
    BY <1>1 DEF GuardIsExact
  <2>1. CASE e = d
    BY <1>1, <1>2, <2>1 DEF MonitorTypes
  <2>2. CASE e # d
    <3>1. guard'[e] = guard[e]
      BY <1>1, <2>2 DEF MonitorTypes
    <3>2. Poll(e, gen) # Poll(d, gen)
      BY <2>2 DEF Poll
    <3> QED
      BY <1>1, <3>1, <3>2 DEF GuardIsExact
  <2> QED
    BY <2>1, <2>2
<1> QED
  BY <1>3, <1>4, <1>5, <1>6, <1>7, <1>8

\* A poll that is over frees the guard of its own generation only.
LEMMA ReleasedFacts ==
  ASSUME MonitorInv, NEW p \in polls, polls' = polls \ {p}, guard' = Released(p),
         UNCHANGED <<gen, running>>
  PROVE  /\ p.dom \in Domains /\ p.gen \in 1..gen
         /\ guard' \in [Domains -> 0..MaxGen]
         /\ polls' \subseteq [dom : Domains, gen : 1..MaxGen]
         /\ \A d \in Domains : guard'[d] \in {0, gen'}
         /\ \A q \in polls' : q.gen <= gen'
         /\ GuardIsExact'
<1> USE DEF MonitorInv
<1>1. /\ p \in [dom : Domains, gen : 1..MaxGen] /\ p.dom \in Domains /\ p.gen \in 1..gen
      /\ p = [dom |-> p.dom, gen |-> p.gen]
  BY DEF PollTypes, GensArePast, MonitorTypes
<1>2. \A d \in Domains : d # p.dom => guard'[d] = guard[d]
  BY <1>1 DEF Released, MonitorTypes
<1>3. /\ guard[p.dom] = p.gen => guard'[p.dom] = 0
      /\ guard[p.dom] # p.gen => guard'[p.dom] = guard[p.dom]
  BY <1>1 DEF Released, MonitorTypes
<1>4. guard' \in [Domains -> 0..MaxGen]
  BY <1>1, MonitorAssumption DEF Released, MonitorTypes
<1>5. \A d \in Domains : guard'[d] \in {0, gen'}
  BY <1>2, <1>3 DEF GensArePast
<1>6. GuardIsExact'
  <2> SUFFICES ASSUME running, NEW d \in Domains PROVE guard'[d] # 0 <=> Poll(d, gen) \in polls'
    BY DEF GuardIsExact
  <2>1. guard[d] # 0 <=> Poll(d, gen) \in polls
    BY DEF GuardIsExact
  <2>2. CASE d # p.dom
    <3>1. Poll(d, gen) # p
      BY <1>1, <2>2 DEF Poll
    <3> QED
      BY <1>2, <2>1, <2>2, <3>1
  <2>3. CASE d = p.dom /\ p.gen = gen
    <3>1. Poll(d, gen) = p
      BY <1>1, <2>3 DEF Poll
    <3>2. guard[d] = gen
      BY <2>1, <3>1 DEF GensArePast
    <3> QED
      BY <1>3, <2>3, <3>1, <3>2
  <2>4. CASE d = p.dom /\ p.gen # gen
    <3>1. Poll(d, gen) # p
      BY <1>1, <2>4 DEF Poll
    <3>2. guard'[d] = guard[d] \/ guard[d] = p.gen
      BY <1>3, <2>4
    <3>3. guard[d] # p.gen
      BY <1>1, <2>4 DEF GensArePast
    <3> QED
      BY <2>1, <3>1, <3>2, <3>3
  <2> QED
    BY <2>2, <2>3, <2>4
<1> QED
  BY <1>1, <1>4, <1>5, <1>6 DEF GensArePast, PollTypes

LEMMA PollReturnsStep ==
  ASSUME MonitorInv, NEW p \in polls, NEW good \in BOOLEAN, PollReturns(p, good) PROVE MonitorInv'
<1> USE DEF MonitorInv
<1> DEFINE now == Current(p.gen)
<1>1. /\ polls' = polls \ {p} /\ guard' = Released(p) /\ fired' = FALSE
      /\ metrics' = (IF now THEN [metrics EXCEPT ![p.dom] = Metric("ssh", p.gen, gen)] ELSE metrics)
      /\ okay' = (IF now THEN [okay EXCEPT ![p.dom] = good] ELSE okay)
      /\ hermes' \in {hermes, "idle"}
      /\ UNCHANGED <<running, gen, enabled, transport, online, fresh, checks, checking>>
      /\ UNCHANGED <<updating, linked, rebuilt>>
  BY DEF PollReturns, liveVars, regVars
<1>2. now => p.gen = gen
  BY DEF Current
<1> HIDE DEF now
<1>3. /\ p.dom \in Domains /\ p.gen \in 1..gen /\ guard' \in [Domains -> 0..MaxGen]
      /\ polls' \subseteq [dom : Domains, gen : 1..MaxGen]
      /\ \A d \in Domains : guard'[d] \in {0, gen'}
      /\ \A q \in polls' : q.gen <= gen'
      /\ GuardIsExact'
  BY <1>1, ReleasedFacts
<1>4. MonitorTypes'
  BY <1>1, <1>3 DEF MonitorTypes
<1>5. MonitorFlags'
  <2>1. okay' \in [Domains -> BOOLEAN]
    BY <1>1, <1>3 DEF MonitorFlags
  <2> QED
    BY <1>1, <2>1 DEF MonitorFlags
<1> DEFINE m == Metric("ssh", p.gen, gen)
<1>6. m.src = "ssh" /\ m.read = p.gen /\ m.put = gen
  BY DEF Metric
<1>7. m \in MetricRecord
  <2>1. p.gen \in 0..MaxGen /\ gen \in 0..MaxGen
    BY <1>3, MonitorAssumption DEF MonitorTypes
  <2> QED
    BY <2>1, MetricIs
<1>8. metrics' = (IF now THEN [metrics EXCEPT ![p.dom] = m] ELSE metrics)
  BY <1>1
<1> HIDE DEF m
<1>9. PollTypes'
  BY <1>1, <1>3, <1>7, <1>8 DEF PollTypes
<1>10. GensArePast'
  BY <1>1, <1>3 DEF GensArePast
<1>11. OneCheck' /\ TransportFollows'
  BY <1>1 DEF OneCheck, TransportFollows
<1>12. \A d \in Domains : \/ metrics'[d] = metrics[d] /\ okay'[d] = okay[d]
                          \/ now /\ metrics'[d] = m
  BY <1>1, <1>3, <1>8 DEF PollTypes, MonitorFlags
<1>13. FreshIsCurrent' /\ CommitsItsOwn'
  BY <1>1, <1>2, <1>6, <1>12 DEF FreshIsCurrent, CommitsItsOwn
<1> QED
  BY <1>3, <1>4, <1>5, <1>9, <1>10, <1>11, <1>13

LEMMA PollThrowsStep ==
  ASSUME MonitorInv, NEW p \in polls, NEW manual \in BOOLEAN, PollThrows(p, manual) PROVE MonitorInv'
<1> USE DEF MonitorInv
<1>1. /\ polls' = polls \ {p} /\ guard' = Released(p) /\ fired' = FALSE
      /\ okay' = [okay EXCEPT ![p.dom] = FALSE] \/ okay' = okay
      /\ UNCHANGED <<running, gen, enabled, metrics, transport, online, fresh, checks, checking>>
      /\ UNCHANGED <<hermes, updating, linked, rebuilt>>
  BY DEF PollThrows, liveVars, regVars
<1>2. /\ p.dom \in Domains /\ guard' \in [Domains -> 0..MaxGen]
      /\ polls' \subseteq [dom : Domains, gen : 1..MaxGen]
      /\ \A d \in Domains : guard'[d] \in {0, gen'}
      /\ \A q \in polls' : q.gen <= gen'
      /\ GuardIsExact'
  BY <1>1, ReleasedFacts
<1>3. MonitorTypes'
  BY <1>1, <1>2 DEF MonitorTypes
<1>4. okay' \in [Domains -> BOOLEAN] /\ \A d \in Domains : okay'[d] => okay[d]
  BY <1>1, <1>2 DEF MonitorFlags
<1>5. MonitorFlags'
  BY <1>1, <1>4 DEF MonitorFlags
<1>6. PollTypes' /\ GensArePast'
  BY <1>1, <1>2 DEF PollTypes, GensArePast
<1>7. OneCheck' /\ TransportFollows'
  BY <1>1 DEF OneCheck, TransportFollows
<1>8. FreshIsCurrent' /\ CommitsItsOwn'
  BY <1>1, <1>4 DEF FreshIsCurrent, CommitsItsOwn
<1> QED
  BY <1>2, <1>3, <1>5, <1>6, <1>7, <1>8

LEMMA ConnectionStep ==
  ASSUME MonitorInv, AgentConnected \/ AgentDisconnected PROVE MonitorInv'
<1> USE DEF MonitorInv
<1>1. /\ UNCHANGED <<running, gen, enabled, guard, polls, metrics, okay, fresh, checks, checking>>
      /\ UNCHANGED <<hermes, updating>> /\ transport' \in {"ssh", "agent"}
  BY DEF AgentConnected, AgentDisconnected, Resumed, pollVars, liveVars, MonitorTypes
<1>2. /\ (online => online') /\ online' \in BOOLEAN /\ fired' \in BOOLEAN
      /\ linked' \in BOOLEAN /\ rebuilt' = FALSE
      /\ running => (transport' = "agent" <=> linked')
  BY DEF AgentConnected, AgentDisconnected, Resumed, liveVars, MonitorFlags
<1>3. MonitorTypes' /\ PollTypes'
  BY <1>1 DEF MonitorTypes, PollTypes
<1>4. MonitorFlags'
  BY <1>1, <1>2 DEF MonitorFlags
<1>5. GensArePast' /\ GuardIsExact' /\ FreshIsCurrent' /\ CommitsItsOwn'
  BY <1>1 DEF GensArePast, GuardIsExact, FreshIsCurrent, CommitsItsOwn
<1>6. OneCheck' /\ TransportFollows'
  BY <1>1, <1>2 DEF OneCheck, TransportFollows
<1> QED
  BY <1>3, <1>4, <1>5, <1>6

LEMMA AgentDataStep == ASSUME MonitorInv, NEW d \in Pushed, AgentData(d) PROVE MonitorInv'
<1> USE MonitorAssumption DEF MonitorInv
<1> DEFINE m == Metric("agent", gen, gen)
<1>1. /\ metrics' = (IF running THEN [metrics EXCEPT ![d] = m] ELSE metrics)
      /\ okay' = (IF running THEN [okay EXCEPT ![d] = TRUE] ELSE okay)
      /\ fresh' = (fresh \/ running) /\ fired' = FALSE
      /\ UNCHANGED <<running, gen, enabled, guard, polls, transport, online, checks, checking>>
      /\ UNCHANGED <<hermes, updating, linked, rebuilt>>
  BY DEF AgentData, regVars
<1>2. m.src = "agent" /\ m.put = gen
  BY DEF Metric
<1>3. m \in MetricRecord
  <2>1. gen \in 0..MaxGen
    BY DEF MonitorTypes
  <2> QED
    BY <2>1, MetricIs
<1> HIDE DEF m
<1>4. MonitorTypes' /\ GensArePast'
  BY <1>1 DEF MonitorTypes, GensArePast
<1>5. MonitorFlags'
  BY <1>1 DEF MonitorFlags
<1>6. PollTypes'
  BY <1>1, <1>3 DEF PollTypes
<1>7. \A e \in Domains : \/ metrics'[e] = metrics[e] /\ okay'[e] = okay[e]
                        \/ metrics'[e] = m
  BY <1>1 DEF PollTypes, MonitorFlags
<1>8. FreshIsCurrent' /\ CommitsItsOwn'
  BY <1>1, <1>2, <1>7 DEF FreshIsCurrent, CommitsItsOwn
<1>9. OneCheck' /\ TransportFollows' /\ GuardIsExact'
  BY <1>1 DEF OneCheck, TransportFollows, GuardIsExact
<1> QED
  BY <1>4, <1>5, <1>6, <1>8, <1>9

LEMMA CheckBeginsStep == ASSUME MonitorInv, CheckBegins PROVE MonitorInv'
<1> USE DEF MonitorInv
<1> DEFINE c == Check(gen, online)
<1>1. /\ running /\ checking = 0 /\ checks' = checks \union {c} /\ checking' = gen /\ fired' = FALSE
      /\ UNCHANGED <<running, gen, enabled, guard, polls, metrics, okay, transport, online, fresh>>
      /\ UNCHANGED <<hermes, updating, linked, rebuilt>>
  BY DEF CheckBegins, pollVars, regVars
<1>2. gen \in 1..MaxGen /\ c.gen = gen /\ c.was = online /\ c \in [gen : 1..MaxGen, was : BOOLEAN]
  BY DEF MonitorTypes, MonitorFlags, Check
<1> HIDE DEF c
<1>3. MonitorTypes'
  BY <1>1, <1>2 DEF MonitorTypes
<1>4. MonitorFlags'
  BY <1>1 DEF MonitorFlags
<1>5. PollTypes'
  BY <1>1, <1>2 DEF PollTypes
<1>6. GensArePast'
  BY <1>1, <1>2 DEF GensArePast
<1>7. \A b \in checks : b.gen # gen
  BY <1>1, <1>2 DEF OneCheck
<1>8. OneCheck'
  BY <1>1, <1>2, <1>7 DEF OneCheck
<1>9. FreshIsCurrent' /\ CommitsItsOwn' /\ TransportFollows' /\ GuardIsExact'
  BY <1>1 DEF FreshIsCurrent, CommitsItsOwn, TransportFollows, GuardIsExact
<1> QED
  BY <1>3, <1>4, <1>5, <1>6, <1>8, <1>9

LEMMA CheckEndsStep ==
  ASSUME MonitorInv, NEW c \in checks, CheckSucceeds(c) \/ CheckFails(c) PROVE MonitorInv'
<1> USE DEF MonitorInv
<1>1. /\ checks' = checks \ {c} /\ checking' = (IF checking = c.gen THEN 0 ELSE checking)
      /\ UNCHANGED <<running, gen, enabled, guard, polls, metrics, okay, transport>>
      /\ UNCHANGED <<hermes, updating, linked, rebuilt>>
  BY DEF CheckSucceeds, CheckFails, CheckEnds, pollVars, regVars
<1>2. /\ online' \in BOOLEAN /\ fresh' \in BOOLEAN /\ fired' \in BOOLEAN
      /\ online /\ ~online' => running /\ c.gen = gen
  BY DEF CheckSucceeds, CheckFails, Current, ComesOnline, MonitorFlags
<1>3. c.gen \in 1..MaxGen /\ gen \in 1..MaxGen
  BY DEF PollTypes, MonitorTypes
<1>4. MonitorTypes'
  BY <1>1, MonitorAssumption DEF MonitorTypes
<1>5. MonitorFlags'
  BY <1>1, <1>2 DEF MonitorFlags
<1>6. PollTypes' /\ GensArePast'
  BY <1>1 DEF PollTypes, GensArePast
<1>7. OneCheck'
  <2> SUFFICES ASSUME running, NEW b \in checks', b.gen = gen
               PROVE  checking' = gen /\ (b.was => online') /\ \A a \in checks' : a.gen = gen => a = b
    BY <1>1 DEF OneCheck
  <2>1. b \in checks /\ c # b
    BY <1>1
  <2>2. c.gen # gen
    BY <2>1 DEF OneCheck
  <2>3. checking = gen /\ (b.was => online) /\ \A a \in checks : a.gen = gen => a = b
    BY <2>1 DEF OneCheck
  <2>4. online => online'
    BY <1>2, <2>2
  <2> QED
    BY <1>1, <2>2, <2>3, <2>4
<1>8. FreshIsCurrent' /\ CommitsItsOwn' /\ TransportFollows' /\ GuardIsExact'
  BY <1>1 DEF FreshIsCurrent, CommitsItsOwn, TransportFollows, GuardIsExact
<1> QED
  BY <1>4, <1>5, <1>6, <1>7, <1>8

\* The grace of the last check, and the updates of Hermes.
LEMMA RestStep ==
  ASSUME MonitorInv, GraceEnds \/ UpdateBegins \/ UpdateEnds PROVE MonitorInv'
<1> USE DEF MonitorInv
<1>1. /\ UNCHANGED <<running, gen, enabled, guard, polls, metrics, okay, transport, online, checks>>
      /\ UNCHANGED <<checking, linked, rebuilt>>
  BY DEF GraceEnds, UpdateBegins, UpdateEnds, pollVars, liveVars, regVars
<1>2. fresh' \in BOOLEAN /\ fired' \in BOOLEAN
  BY DEF GraceEnds, UpdateBegins, UpdateEnds, liveVars, MonitorFlags
<1>3. updating' \in 0..MaxUpdates /\ hermes' \in {"idle", "running", "success", "error"}
  <2>1. CASE GraceEnds
    BY <2>1 DEF GraceEnds, MonitorTypes
  <2>2. CASE UpdateBegins
    BY <2>2, MonitorAssumption DEF UpdateBegins, MonitorTypes
  <2>3. CASE UpdateEnds
    BY <2>3, MonitorAssumption DEF UpdateEnds, Settled, MonitorTypes
  <2> QED
    BY <2>1, <2>2, <2>3
<1>4. MonitorTypes' /\ PollTypes' /\ GensArePast'
  BY <1>1, <1>3 DEF MonitorTypes, PollTypes, GensArePast
<1>5. MonitorFlags'
  BY <1>1, <1>2 DEF MonitorFlags
<1>6. OneCheck' /\ FreshIsCurrent' /\ CommitsItsOwn' /\ TransportFollows' /\ GuardIsExact'
  BY <1>1 DEF OneCheck, FreshIsCurrent, CommitsItsOwn, TransportFollows, GuardIsExact
<1> QED
  BY <1>4, <1>5, <1>6

LEMMA MonitorNextInv == MonitorInv /\ [MonitorNext]_monVars => MonitorInv'
<1> SUFFICES ASSUME MonitorInv, [MonitorNext]_monVars PROVE MonitorInv'
  OBVIOUS
<1>1. CASE Start \/ Stop \/ UpdateConfig
  BY <1>1, StartStep, StopStep, UpdateConfigStep
<1>2. CASE CheckBegins \/ \E c \in checks : CheckSucceeds(c) \/ CheckFails(c)
  BY <1>2, CheckBeginsStep, CheckEndsStep
<1>3. CASE GraceEnds \/ UpdateBegins \/ UpdateEnds
  BY <1>3, RestStep
<1>4. CASE \E d \in Domains : PollBegins(d)
  BY <1>4, PollBeginsStep
<1>5. CASE \E p \in polls : \/ \E good \in BOOLEAN : PollReturns(p, good)
                            \/ \E manual \in BOOLEAN : PollThrows(p, manual)
  BY <1>5, PollReturnsStep, PollThrowsStep
<1>6. CASE AgentConnected \/ AgentDisconnected
  BY <1>6, ConnectionStep
<1>7. CASE \E d \in Pushed : AgentData(d)
  BY <1>7, AgentDataStep
<1>8. CASE UNCHANGED monVars
  <2>1. /\ UNCHANGED <<running, gen, enabled, guard, polls, metrics, okay, transport, online, fresh>>
        /\ UNCHANGED <<checks, checking, fired, hermes, updating, linked, rebuilt>>
    BY <1>8 DEF monVars, pollVars, liveVars, regVars
  <2>2. MonitorTypes' /\ PollTypes' /\ MonitorFlags' /\ GensArePast'
    BY <2>1 DEF MonitorInv, MonitorTypes, PollTypes, MonitorFlags, GensArePast
  <2>3. OneCheck' /\ FreshIsCurrent' /\ CommitsItsOwn' /\ TransportFollows' /\ GuardIsExact'
    BY <2>1 DEF MonitorInv, OneCheck, FreshIsCurrent, CommitsItsOwn, TransportFollows, GuardIsExact
  <2> QED
    BY <2>2, <2>3 DEF MonitorInv
<1> QED
  BY <1>1, <1>2, <1>3, <1>4, <1>5, <1>6, <1>7, <1>8 DEF MonitorNext, MonitorStep

LEMMA MonitorTypesHold == MonitorInv => MonitorTypeOK
<1> SUFFICES ASSUME MonitorInv PROVE MonitorTypeOK
  OBVIOUS
<1>1. MonitorTypes /\ PollTypes /\ MonitorFlags
  BY DEF MonitorInv
<1> QED
  BY <1>1 DEF MonitorTypeOK, MonitorTypes, PollTypes, MonitorFlags, MetricRecord

\* Whoever brings the spark online calls onOnlineChange.
LEMMA OnlineFires ==
  ASSUME MonitorInv, [MonitorNext]_monVars, ~online, online' PROVE fired'
<1>1. CASE Start \/ Stop \/ UpdateConfig
  BY <1>1 DEF Start, Stop, UpdateConfig
<1>2. CASE CheckBegins \/ GraceEnds \/ UpdateBegins \/ UpdateEnds
  BY <1>2 DEF CheckBegins, GraceEnds, UpdateBegins, UpdateEnds, liveVars
<1>3. CASE \E d \in Domains : PollBegins(d)
  BY <1>3 DEF PollBegins, liveVars
<1>4. CASE \E p \in polls : \/ \E good \in BOOLEAN : PollReturns(p, good)
                            \/ \E manual \in BOOLEAN : PollThrows(p, manual)
  BY <1>4 DEF PollReturns, PollThrows, liveVars
<1>5. CASE \E c \in checks : CheckSucceeds(c) \/ CheckFails(c)
  <2> PICK c \in checks : CheckSucceeds(c) \/ CheckFails(c)
    BY <1>5
  <2>1. c.gen = gen /\ running => ~c.was
    BY DEF MonitorInv, OneCheck
  <2> QED
    BY <2>1 DEF CheckSucceeds, CheckFails, Current, ComesOnline
<1>6. CASE AgentConnected \/ AgentDisconnected
  BY <1>6 DEF AgentConnected, AgentDisconnected, liveVars
<1>7. CASE \E d \in Pushed : AgentData(d)
  BY <1>7 DEF AgentData
<1>8. CASE UNCHANGED monVars
  BY <1>8 DEF monVars, liveVars
<1> QED
  BY <1>1, <1>2, <1>3, <1>4, <1>5, <1>6, <1>7, <1>8 DEF MonitorNext, MonitorStep

-----------------------------------------------------------------------------
(* ClockControl: the invariant *)

ClockTypes ==
    /\ desired \in [ClockDomains -> Freqs \union {Unset}]
    /\ applied \in [ClockDomains -> Freqs \union {Unset}]
    /\ clocks \in [ClockDomains -> Freqs \union {Default}]
    /\ stage \in [Handlers -> {"idle", "status", "applying", "ran", "done"}]
    /\ outcome \in [Handlers -> {"none", "ok", "error"}]
    /\ clash \subseteq ClockDomains /\ loose \subseteq ClockDomains /\ boots \in 0..MaxBoots

ClockFlags == helper \in BOOLEAN /\ due \in BOOLEAN

\* What a handler applies; the reconcile and the requests have stages of their own.
PartsOK ==
    /\ DOMAIN parts = Handlers
    /\ \A h \in Handlers : \A d \in DOMAIN parts[h] : d \in ClockDomains /\ parts[h][d] \in Freqs
    /\ stage[Reconcile] # "done"

Busy(h, d) == Underway(h) /\ d \in DOMAIN parts[h]
Ran(h, d) == stage[h] = "ran" /\ d \in DOMAIN parts[h]
Sure == ClockDomains \ (clash \union loose)

\* Who settles on a domain alone has it alone.
OneIsBusy == \A d \in Sure : \A h, k \in Handlers : Busy(h, d) /\ Busy(k, d) => h = k

\* A domain whose commands went well runs at what its handler asked for.
RanIsSo == \A d \in Sure : \A h \in Handlers : Ran(h, d) => clocks[d] = parts[h][d]

\* What the reconcile applies is what is remembered; it applies all of that.
ReconcileIsTrue == Underway(Reconcile) =>
    \A d \in Sure \intersect DOMAIN parts[Reconcile] : parts[Reconcile][d] = desired[d]

Agrees(d) == desired[d] = Unset \/ (clocks[d] = desired[d] /\ applied[d] = desired[d])

\* A domain on which no command is out agrees with the file, unless the node
\* came up and the reconcile is still to reach it.
FileIsTrue == \A d \in Sure :
    /\ ~due \/ (Underway(Reconcile) /\ d \notin DOMAIN parts[Reconcile])
    /\ \A h \in Handlers : ~Ran(h, d)
    => Agrees(d)

ClockInv == ClockTypes /\ ClockFlags /\ PartsOK /\ OneIsBusy /\ RanIsSo /\ ReconcileIsTrue /\ FileIsTrue

-----------------------------------------------------------------------------
(* ClockControl: the proof *)

LEMMA ClockConstants ==
  /\ Reconcile \notin Sets /\ Reconcile \in Handlers /\ Sets \subseteq Handlers
  /\ Unset \notin Freqs /\ Unset # Default
  /\ \A t \in Targets : \A d \in DOMAIN t : d \in ClockDomains /\ t[d] \in Freqs
<1>1. \A t \in Targets : \A d \in DOMAIN t : t[d] \in Freqs
  BY DEF Freqs
<1> QED
  BY <1>1, ClockAssumption DEF Handlers

LEMMA ClockInitInv == ClockInit => ClockInv
<1> SUFFICES ASSUME ClockInit PROVE ClockInv
  OBVIOUS
<1> USE ClockAssumption DEF ClockInit
<1>1. ClockTypes /\ ClockFlags
  <2>1. desired \in [ClockDomains -> Freqs \union {Unset}] /\ clocks \in [ClockDomains -> Freqs \union {Default}]
    OBVIOUS
  <2>2. /\ stage \in [Handlers -> {"idle", "status", "applying", "ran", "done"}]
        /\ outcome \in [Handlers -> {"none", "ok", "error"}]
    OBVIOUS
  <2>3. ClockTypes
    BY <2>1, <2>2 DEF ClockTypes
  <2>4. ClockFlags
    BY DEF ClockFlags
  <2> QED
    BY <2>3, <2>4
<1>2. \A h \in Handlers : DOMAIN parts[h] = {} /\ stage[h] = "idle"
  OBVIOUS
<1>3. PartsOK
  BY <1>2, ClockConstants DEF PartsOK
<1>4. OneIsBusy /\ RanIsSo /\ ReconcileIsTrue
  BY <1>2, ClockConstants DEF OneIsBusy, RanIsSo, ReconcileIsTrue, Busy, Ran, Underway
<1>5. FileIsTrue
  BY DEF FileIsTrue, Agrees, Sure
<1> QED
  BY <1>1, <1>3, <1>4, <1>5 DEF ClockInv

\* A step that leaves the file and the clocks alone.
LEMMA QuietStep ==
  ASSUME ClockInv, UNCHANGED <<desired, applied, clocks, due>>, Sure' \subseteq Sure,
         \A g \in Handlers : \A d \in Sure' : Ran(g, d)' <=> Ran(g, d),
         \A g \in Handlers : stage'[g] = "ran" => parts'[g] = parts[g],
         Underway(Reconcile)' => Underway(Reconcile) /\ parts'[Reconcile] = parts[Reconcile]
  PROVE  RanIsSo' /\ ReconcileIsTrue' /\ FileIsTrue'
<1> USE DEF ClockInv
<1>1. RanIsSo'
  BY DEF RanIsSo, Ran
<1>2. ReconcileIsTrue'
  BY DEF ReconcileIsTrue
<1>3. FileIsTrue'
  <2> SUFFICES ASSUME NEW d \in Sure',
                      ~due' \/ (Underway(Reconcile)' /\ d \notin DOMAIN parts'[Reconcile]),
                      \A h \in Handlers : ~Ran(h, d)'
               PROVE  Agrees(d)'
    BY DEF FileIsTrue
  <2>1. d \in Sure /\ \A h \in Handlers : ~Ran(h, d)
    OBVIOUS
  <2>2. ~due \/ (Underway(Reconcile) /\ d \notin DOMAIN parts[Reconcile])
    OBVIOUS
  <2>3. Agrees(d)
    BY <2>1, <2>2 DEF FileIsTrue
  <2> QED
    BY <2>3 DEF Agrees
<1> QED
  BY <1>1, <1>2, <1>3

\* Nobody settles on anything new.
LEMMA BusyStep ==
  ASSUME ClockInv, Sure' \subseteq Sure,
         \A g \in Handlers : Underway(g)' => Underway(g) /\ parts'[g] = parts[g]
  PROVE  OneIsBusy'
  BY DEF ClockInv, OneIsBusy, Busy

LEMMA SetBeginsStep == ASSUME ClockInv, NEW h \in Sets, NEW t \in Targets, SetBegins(h, t) PROVE ClockInv'
<1> USE DEF ClockInv
<1>1. /\ stage[h] = "idle" /\ stage' = [stage EXCEPT ![h] = "status"] /\ parts' = [parts EXCEPT ![h] = t]
      /\ UNCHANGED <<desired, applied, clocks, helper, outcome, boots, due, clash, loose>>
  BY DEF SetBegins, ClockMoves, file
<1>2. h \in Handlers /\ h # Reconcile
  BY ClockConstants
<1>3. stage'[h] = "status" /\ \A g \in Handlers \ {h} : stage'[g] = stage[g] /\ parts'[g] = parts[g]
  BY <1>1, <1>2 DEF ClockTypes, PartsOK
<1>4. ClockTypes' /\ ClockFlags'
  BY <1>1, <1>2 DEF ClockTypes, ClockFlags
<1>5. PartsOK'
  <2>1. parts'[h] = t /\ DOMAIN parts' = Handlers
    BY <1>1, <1>2 DEF PartsOK
  <2> QED
    BY <1>2, <1>3, <2>1, ClockConstants DEF PartsOK
<1>6. Sure' = Sure
  BY <1>1 DEF Sure
<1>7. \A g \in Handlers : Underway(g)' => Underway(g) /\ parts'[g] = parts[g]
  BY <1>2, <1>3 DEF Underway
<1>8. OneIsBusy'
  BY <1>6, <1>7, BusyStep
<1>9. \A g \in Handlers : stage'[g] = "ran" => parts'[g] = parts[g]
  BY <1>3
<1>10. \A g \in Handlers : \A d \in Sure' : Ran(g, d)' <=> Ran(g, d)
  BY <1>1, <1>3 DEF Ran
<1>11. RanIsSo' /\ ReconcileIsTrue' /\ FileIsTrue'
  BY <1>1, <1>6, <1>7, <1>9, <1>10, ClockConstants, QuietStep
<1> QED
  BY <1>4, <1>5, <1>8, <1>11

\* A handler that gives up before its script has run, or after.
LEMMA EndsStep ==
  ASSUME ClockInv, NEW h \in Handlers, NEW s \in {"idle", "done"},
         h = Reconcile <=> s = "idle",
         stage' = [stage EXCEPT ![h] = s],
         loose' = IF stage[h] = "ran" THEN loose \union DOMAIN parts[h] ELSE loose,
         UNCHANGED <<desired, applied, clocks, helper, parts, outcome, boots, due, clash>>
  PROVE  ClockInv'
<1> USE DEF ClockInv
<1>1. stage'[h] = s /\ \A g \in Handlers \ {h} : stage'[g] = stage[g]
  BY DEF ClockTypes
<1>2. DOMAIN parts[h] \subseteq ClockDomains
  BY DEF PartsOK
<1>3. ClockTypes' /\ ClockFlags'
  <2>1. stage' \in [Handlers -> {"idle", "status", "applying", "ran", "done"}]
    BY DEF ClockTypes
  <2> QED
    BY <1>2, <2>1 DEF ClockTypes, ClockFlags
<1>4. PartsOK'
  BY <1>1, ClockConstants DEF PartsOK
<1>5. Sure' \subseteq Sure /\ (stage[h] = "ran" => \A d \in Sure' : d \notin DOMAIN parts[h])
  BY DEF Sure
<1>6. \A g \in Handlers : Underway(g)' => Underway(g) /\ parts'[g] = parts[g]
  BY <1>1 DEF Underway
<1>7. \A g \in Handlers : \A d \in Sure' : Ran(g, d)' <=> Ran(g, d)
  BY <1>1, <1>5 DEF Ran
<1>8. OneIsBusy'
  BY <1>5, <1>6, BusyStep
<1>9. RanIsSo' /\ ReconcileIsTrue' /\ FileIsTrue'
  BY <1>5, <1>6, <1>7, ClockConstants, QuietStep
<1> QED
  BY <1>3, <1>4, <1>8, <1>9

LEMMA SetAppliesStep == ASSUME ClockInv, NEW h \in Sets, SetApplies(h) PROVE ClockInv'
<1> USE DEF ClockInv
<1>1. /\ stage[h] = "status" /\ stage' = [stage EXCEPT ![h] = "applying"]
      /\ clash' = clash \union Clashing(h, DOMAIN parts[h])
      /\ UNCHANGED <<desired, applied, clocks, helper, parts, outcome, boots, due, loose>>
  BY DEF SetApplies, ClockMoves, file
<1>2. h \in Handlers /\ h # Reconcile
  BY ClockConstants
<1>3. stage'[h] = "applying" /\ \A g \in Handlers \ {h} : stage'[g] = stage[g]
  BY <1>1, <1>2 DEF ClockTypes
<1>4. Clashing(h, DOMAIN parts[h]) \subseteq ClockDomains
  BY <1>2 DEF Clashing, PartsOK
<1>5. ClockTypes' /\ ClockFlags'
  <2>1. stage' \in [Handlers -> {"idle", "status", "applying", "ran", "done"}]
    BY <1>1 DEF ClockTypes
  <2> QED
    BY <1>1, <1>4, <2>1 DEF ClockTypes, ClockFlags
<1>6. PartsOK'
  BY <1>1, <1>2, <1>3, ClockConstants DEF PartsOK
<1>7. Sure' \subseteq Sure
  BY <1>1 DEF Sure
<1>8. \A d \in Sure', g \in Handlers \ {h} : d \in DOMAIN parts[h] => ~Busy(g, d)
  BY <1>1 DEF Sure, Clashing, Busy
<1>9. \A g \in Handlers \ {h} : \A d : Busy(g, d)' <=> Busy(g, d)
  BY <1>1, <1>3 DEF Busy, Underway
<1>10. \A d : Busy(h, d)' => d \in DOMAIN parts[h]
  BY <1>1 DEF Busy
<1>11. OneIsBusy'
  <2> SUFFICES ASSUME NEW d \in Sure', NEW g \in Handlers, NEW k \in Handlers, Busy(g, d)', Busy(k, d)'
               PROVE  g = k
    BY DEF OneIsBusy
  <2>1. CASE g = h \/ k = h
    BY <1>8, <1>9, <1>10, <2>1
  <2>2. CASE g # h /\ k # h
    BY <1>7, <1>9, <2>2 DEF OneIsBusy
  <2> QED
    BY <2>1, <2>2
<1>12. \A g \in Handlers : \A d \in Sure' : Ran(g, d)' <=> Ran(g, d)
  BY <1>1, <1>3 DEF Ran
<1>13. Underway(Reconcile)' => Underway(Reconcile)
  BY <1>2, <1>3, ClockConstants DEF Underway
<1>14. RanIsSo' /\ ReconcileIsTrue' /\ FileIsTrue'
  BY <1>1, <1>7, <1>12, <1>13, QuietStep
<1> QED
  BY <1>5, <1>6, <1>11, <1>14

\* The commands that succeed, of one handler.
LEMMA ApplyRunsStep == ASSUME ClockInv, NEW h \in Handlers, ApplyRuns(h) PROVE ClockInv'
<1> USE DEF ClockInv
<1> DEFINE t == parts[h]
<1>1. PICK good \in SUBSET DOMAIN t :
        /\ clocks' = [d \in ClockDomains |-> IF d \in good THEN t[d] ELSE clocks[d]]
        /\ outcome' \in {[outcome EXCEPT ![h] = o] : o \in {"ok", "error"}}
        /\ loose' = IF good = DOMAIN t THEN loose ELSE loose \union DOMAIN t
  BY DEF ApplyRuns
<1>2. /\ stage[h] = "applying" /\ stage' = [stage EXCEPT ![h] = "ran"]
      /\ UNCHANGED <<desired, applied, helper, parts, boots, due, clash>>
  BY DEF ApplyRuns, ClockMoves, file
<1>3. stage'[h] = "ran" /\ \A g \in Handlers \ {h} : stage'[g] = stage[g]
  BY <1>2 DEF ClockTypes
<1>4. \A d \in DOMAIN t : d \in ClockDomains /\ t[d] \in Freqs
  BY DEF PartsOK
<1>5. ClockTypes' /\ ClockFlags'
  <2>1. stage' \in [Handlers -> {"idle", "status", "applying", "ran", "done"}]
    BY <1>2 DEF ClockTypes
  <2>2. clocks' \in [ClockDomains -> Freqs \union {Default}]
    BY <1>1, <1>4 DEF ClockTypes
  <2>3. outcome' \in [Handlers -> {"none", "ok", "error"}]
    BY <1>1 DEF ClockTypes
  <2>4. loose' \subseteq ClockDomains
    BY <1>1, <1>4 DEF ClockTypes
  <2> QED
    BY <1>2, <2>1, <2>2, <2>3, <2>4 DEF ClockTypes, ClockFlags
<1>6. PartsOK'
  BY <1>2, <1>3, ClockConstants DEF PartsOK
<1>7. Sure' \subseteq Sure
  BY <1>1, <1>2 DEF Sure
<1>8. \A d \in Sure' : d \in DOMAIN t => d \in good
  BY <1>1 DEF Sure
<1>9. \A d \in Sure' : /\ d \in DOMAIN t => clocks'[d] = t[d]
                       /\ d \notin DOMAIN t => clocks'[d] = clocks[d]
  BY <1>1, <1>8 DEF Sure
<1>10. \A g \in Handlers : Underway(g)' <=> Underway(g)
  BY <1>2, <1>3 DEF Underway
<1>11. OneIsBusy'
  BY <1>2, <1>7, <1>10, BusyStep
<1>12. \A g \in Handlers : \A d : Ran(g, d)' <=> Ran(g, d) \/ (g = h /\ d \in DOMAIN t)
  BY <1>2, <1>3 DEF Ran
<1>13. RanIsSo'
  <2> SUFFICES ASSUME NEW d \in Sure', NEW g \in Handlers, Ran(g, d)' PROVE clocks'[d] = parts[g][d]
    BY <1>2 DEF RanIsSo
  <2>1. CASE g = h
    BY <1>9, <1>2, <2>1 DEF Ran
  <2>2. CASE g # h
    <3>1. Ran(g, d) /\ Busy(g, d)
      BY <1>12, <2>2 DEF Ran, Busy, Underway
    <3>2. d \notin DOMAIN t
      BY <1>2, <1>7, <2>2, <3>1 DEF OneIsBusy, Busy, Underway
    <3> QED
      BY <1>7, <1>9, <3>1, <3>2 DEF RanIsSo
  <2> QED
    BY <2>1, <2>2
<1>14. ReconcileIsTrue'
  BY <1>2, <1>7, <1>10, ClockConstants DEF ReconcileIsTrue
<1>15. FileIsTrue'
  <2> SUFFICES ASSUME NEW d \in Sure',
                      ~due \/ (Underway(Reconcile)' /\ d \notin DOMAIN parts[Reconcile]),
                      \A g \in Handlers : ~Ran(g, d)'
               PROVE  Agrees(d)'
    BY <1>2 DEF FileIsTrue
  <2>1. d \in Sure /\ d \notin DOMAIN t /\ \A g \in Handlers : ~Ran(g, d)
    BY <1>7, <1>12
  <2>2. Agrees(d)
    BY <1>10, <2>1, ClockConstants DEF FileIsTrue
  <2>3. clocks'[d] = clocks[d]
    BY <1>9, <2>1
  <2> QED
    BY <1>2, <2>2, <2>3 DEF Agrees
<1> QED
  BY <1>5, <1>6, <1>11, <1>13, <1>14, <1>15

\* What is recorded of the domains of a handler.
LEMMA RecordedIs ==
  ASSUME NEW h \in Handlers, NEW f \in [ClockDomains -> Freqs \union {Unset}], PartsOK
  PROVE  /\ Recorded(h, f) \in [ClockDomains -> Freqs \union {Unset}]
         /\ \A d \in ClockDomains : /\ d \in DOMAIN parts[h] => Recorded(h, f)[d] = parts[h][d]
                                    /\ d \notin DOMAIN parts[h] => Recorded(h, f)[d] = f[d]
  BY DEF Recorded, PartsOK

\* A handler that records what its commands did; what it did not touch agrees
\* if it agreed.
LEMMA RecordStep ==
  ASSUME ClockInv, NEW h \in Handlers, NEW s \in {"idle", "done"}, h = Reconcile <=> s = "idle",
         stage[h] = "ran", stage' = [stage EXCEPT ![h] = s],
         applied' = Recorded(h, applied),
         \/ desired' = Recorded(h, desired) /\ due' = due /\ h # Reconcile
         \/ desired' = desired /\ due' = FALSE /\ h = Reconcile,
         UNCHANGED <<clocks, helper, parts, outcome, boots, clash, loose>>
  PROVE  ClockInv'
<1> USE DEF ClockInv
<1> DEFINE ps == DOMAIN parts[h]
<1>1. stage'[h] = s /\ \A g \in Handlers \ {h} : stage'[g] = stage[g]
  BY DEF ClockTypes
<1>2. /\ applied' \in [ClockDomains -> Freqs \union {Unset}]
      /\ \A d \in ClockDomains : /\ d \in ps => applied'[d] = parts[h][d]
                                 /\ d \notin ps => applied'[d] = applied[d]
  BY RecordedIs DEF ClockTypes
<1>3. /\ desired' \in [ClockDomains -> Freqs \union {Unset}]
      /\ \A d \in ClockDomains : d \notin ps => desired'[d] = desired[d]
      /\ h # Reconcile => \A d \in ClockDomains : d \in ps => desired'[d] = parts[h][d]
  <2>1. CASE desired' = Recorded(h, desired)
    BY <2>1, RecordedIs DEF ClockTypes
  <2>2. CASE desired' = desired /\ h = Reconcile
    BY <2>2 DEF ClockTypes
  <2> QED
    BY <2>1, <2>2
<1>4. ClockTypes' /\ ClockFlags'
  <2>1. stage' \in [Handlers -> {"idle", "status", "applying", "ran", "done"}]
    BY DEF ClockTypes
  <2> QED
    BY <1>2, <1>3, <2>1 DEF ClockTypes, ClockFlags
<1>5. PartsOK'
  BY <1>1, ClockConstants DEF PartsOK
<1>6. Sure' = Sure /\ \A d \in Sure : d \in ClockDomains
  BY DEF Sure
<1>7. \A g \in Handlers : Underway(g)' => Underway(g) /\ g # h
  BY <1>1 DEF Underway
<1>8. OneIsBusy'
  BY <1>6, <1>7, BusyStep
<1>9. \A g \in Handlers : \A d : Ran(g, d)' <=> Ran(g, d) /\ g # h
  BY <1>1 DEF Ran
<1>10. RanIsSo'
  BY <1>6, <1>9 DEF RanIsSo
<1>11. \A d \in Sure : d \in ps => \A g \in Handlers \ {h} : ~Busy(g, d) /\ ~Ran(g, d)
  BY DEF OneIsBusy, Busy, Ran, Underway
<1>12. ReconcileIsTrue'
  <2> SUFFICES ASSUME Underway(Reconcile)', NEW d \in Sure, d \in DOMAIN parts[Reconcile]
               PROVE  parts[Reconcile][d] = desired'[d]
    BY <1>6 DEF ReconcileIsTrue
  <2>1. Underway(Reconcile) /\ Reconcile # h
    BY <1>7, ClockConstants
  <2>2. d \notin ps
    BY <1>11, <2>1, ClockConstants DEF Busy
  <2> QED
    BY <1>3, <1>6, <2>1, <2>2 DEF ReconcileIsTrue
<1>13. \A d \in Sure : d \in ps => Agrees(d)'
  <2> SUFFICES ASSUME NEW d \in Sure, d \in ps PROVE Agrees(d)'
    OBVIOUS
  <2>1. clocks[d] = parts[h][d]
    BY DEF RanIsSo, Ran
  <2>2. h = Reconcile => parts[h][d] = desired[d]
    BY DEF ReconcileIsTrue, Underway
  <2>3. desired'[d] = parts[h][d] /\ applied'[d] = parts[h][d]
    BY <1>2, <1>3, <1>6, <2>2
  <2> QED
    BY <2>1, <2>3 DEF Agrees
<1>14. FileIsTrue'
  <2> SUFFICES ASSUME NEW d \in Sure, d \notin ps,
                      ~due' \/ (Underway(Reconcile)' /\ d \notin DOMAIN parts[Reconcile]),
                      \A g \in Handlers : ~Ran(g, d)'
               PROVE  Agrees(d)'
    BY <1>6, <1>13 DEF FileIsTrue
  <2>1. \A g \in Handlers : ~Ran(g, d)
    BY <1>9 DEF Ran
  <2>2. ~due \/ (Underway(Reconcile) /\ d \notin DOMAIN parts[Reconcile])
    BY <1>7, ClockConstants DEF Underway
  <2>3. Agrees(d)
    BY <2>1, <2>2 DEF FileIsTrue
  <2> QED
    BY <1>2, <1>3, <1>6, <2>3 DEF Agrees
<1> QED
  BY <1>4, <1>5, <1>8, <1>10, <1>12, <1>14

\* The node comes up at its defaults; a handler that is under way meets that.
LEMMA RebootStep == ASSUME ClockInv, Reboot PROVE ClockInv'
<1> USE DEF ClockInv
<1>1. /\ boots < MaxBoots /\ boots' = boots + 1
      /\ clocks' = [d \in ClockDomains |-> Default] /\ due' = TRUE
      /\ loose' = (IF \E h \in Handlers : Underway(h) THEN ClockDomains ELSE loose)
      /\ UNCHANGED <<desired, applied, helper, stage, parts, outcome, clash>>
  BY DEF Reboot, file
<1>2. ClockTypes' /\ ClockFlags'
  BY <1>1, ClockAssumption DEF ClockTypes, ClockFlags
<1>3. PartsOK'
  BY <1>1 DEF PartsOK
<1>4. Sure' \subseteq Sure /\ \A d \in Sure' : \A h \in Handlers : ~Underway(h)
  BY <1>1 DEF Sure
<1>5. \A h \in Handlers : Underway(h)' <=> Underway(h)
  BY <1>1 DEF Underway
<1>6. OneIsBusy'
  BY <1>4, <1>5 DEF OneIsBusy, Busy
<1>7. RanIsSo'
  BY <1>1, <1>4 DEF RanIsSo, Ran, Underway
<1>8. ReconcileIsTrue'
  BY <1>4, <1>5, ClockConstants DEF ReconcileIsTrue
<1>9. FileIsTrue'
  BY <1>1, <1>4, <1>5, ClockConstants DEF FileIsTrue
<1> QED
  BY <1>2, <1>3, <1>6, <1>7, <1>8, <1>9

\* The reconcile takes all that is remembered.
LEMMA ReconcileBeginsStep == ASSUME ClockInv, ReconcileBegins PROVE ClockInv'
<1> USE DEF ClockInv
<1> DEFINE ds == Remembered
<1> DEFINE ps == [d \in ds |-> desired[d]]
<1>1. /\ stage[Reconcile] = "idle" /\ stage' = [stage EXCEPT ![Reconcile] = "status"]
      /\ parts' = [parts EXCEPT ![Reconcile] = ps]
      /\ clash' = clash \union Clashing(Reconcile, ds)
      /\ UNCHANGED <<desired, applied, clocks, helper, outcome, boots, due, loose>>
  BY DEF ReconcileBegins, ClockMoves, file
<1>2. /\ ds \subseteq ClockDomains /\ DOMAIN ps = ds
      /\ \A d \in ds : ps[d] = desired[d] /\ desired[d] \in Freqs
      /\ \A d \in ClockDomains : d \notin ds => desired[d] = Unset
  BY DEF Remembered, ClockTypes
<1> HIDE DEF ds
<1>3. /\ stage'[Reconcile] = "status" /\ parts'[Reconcile] = ps
      /\ \A g \in Handlers \ {Reconcile} : stage'[g] = stage[g] /\ parts'[g] = parts[g]
      /\ DOMAIN parts' = Handlers
  BY <1>1, ClockConstants DEF ClockTypes, PartsOK
<1>4. Clashing(Reconcile, ds) \subseteq ClockDomains
  BY <1>2 DEF Clashing
<1>5. ClockTypes' /\ ClockFlags'
  <2>1. stage' \in [Handlers -> {"idle", "status", "applying", "ran", "done"}]
    BY <1>1, ClockConstants DEF ClockTypes
  <2> QED
    BY <1>1, <1>4, <2>1 DEF ClockTypes, ClockFlags
<1> HIDE DEF ps
<1>6. PartsOK'
  BY <1>2, <1>3 DEF PartsOK
<1>7. Sure' \subseteq Sure /\ \A d \in Sure' : d \in ClockDomains
  BY <1>1 DEF Sure
<1>8. \A g \in Handlers \ {Reconcile} : \A d : (Busy(g, d)' <=> Busy(g, d)) /\ (Ran(g, d)' <=> Ran(g, d))
  BY <1>3 DEF Busy, Ran, Underway
<1>9. \A d : ~Ran(Reconcile, d)' /\ ~Ran(Reconcile, d) /\ (Busy(Reconcile, d)' => d \in ds)
  BY <1>1, <1>2, <1>3 DEF Ran, Busy
<1>10. \A d \in Sure', g \in Handlers \ {Reconcile} : d \in ds => ~Busy(g, d)
  BY <1>1 DEF Sure, Clashing, Busy
<1>11. OneIsBusy'
  <2> SUFFICES ASSUME NEW d \in Sure', NEW g \in Handlers, NEW k \in Handlers, Busy(g, d)', Busy(k, d)'
               PROVE  g = k
    BY DEF OneIsBusy
  <2>1. CASE g = Reconcile \/ k = Reconcile
    BY <1>8, <1>9, <1>10, <2>1
  <2>2. CASE g # Reconcile /\ k # Reconcile
    BY <1>7, <1>8, <2>2 DEF OneIsBusy
  <2> QED
    BY <2>1, <2>2
<1>12. RanIsSo'
  <2> SUFFICES ASSUME NEW d \in Sure', NEW g \in Handlers, Ran(g, d)' PROVE clocks[d] = parts'[g][d]
    BY <1>1 DEF RanIsSo
  <2>1. g # Reconcile /\ Ran(g, d)
    BY <1>8, <1>9
  <2> QED
    BY <1>3, <1>7, <2>1 DEF RanIsSo
<1>13. ReconcileIsTrue'
  BY <1>1, <1>2, <1>3 DEF ReconcileIsTrue
<1>14. FileIsTrue'
  <2> SUFFICES ASSUME NEW d \in Sure', ~due \/ d \notin ds, \A g \in Handlers : ~Ran(g, d)'
               PROVE  Agrees(d)
    BY <1>1, <1>2, <1>3 DEF FileIsTrue, Agrees
  <2>1. CASE d \notin ds
    BY <1>2, <1>7, <2>1 DEF Agrees
  <2>2. CASE ~due
    BY <1>7, <1>8, <1>9, <2>2 DEF FileIsTrue
  <2> QED
    BY <2>1, <2>2
<1> QED
  BY <1>5, <1>6, <1>11, <1>12, <1>13, <1>14

\* The helper is found, or it is installed.
LEMMA HelperStep == ASSUME ClockInv, Install \/ ReconcileApplies \/ UNCHANGED clockVars PROVE ClockInv'
<1> USE DEF ClockInv
<1>1. /\ UNCHANGED <<desired, applied, clocks, parts, outcome, boots, due, clash, loose>> /\ helper' \in BOOLEAN
      /\ \/ stage' = stage
         \/ stage[Reconcile] = "status" /\ stage' = [stage EXCEPT ![Reconcile] = "applying"]
  BY DEF Install, ReconcileApplies, ClockMoves, file, clockVars, ClockFlags
<1>2. \A g \in Handlers : stage'[g] = stage[g]
                          \/ (g = Reconcile /\ stage[g] = "status" /\ stage'[g] = "applying")
  BY <1>1, ClockConstants DEF ClockTypes
<1>3. ClockTypes' /\ ClockFlags'
  <2>1. stage' \in [Handlers -> {"idle", "status", "applying", "ran", "done"}]
    BY <1>1, ClockConstants DEF ClockTypes
  <2> QED
    BY <1>1, <2>1 DEF ClockTypes, ClockFlags
<1>4. PartsOK'
  BY <1>1, <1>2, ClockConstants DEF PartsOK
<1>5. Sure' = Sure
  BY <1>1 DEF Sure
<1>6. \A g \in Handlers : Underway(g)' => Underway(g) /\ parts'[g] = parts[g]
  BY <1>1, <1>2 DEF Underway
<1>7. \A g \in Handlers : \A d \in Sure' : Ran(g, d)' <=> Ran(g, d)
  BY <1>1, <1>2 DEF Ran
<1>8. OneIsBusy'
  BY <1>5, <1>6, BusyStep
<1>9. RanIsSo' /\ ReconcileIsTrue' /\ FileIsTrue'
  BY <1>1, <1>5, <1>6, <1>7, ClockConstants, QuietStep
<1> QED
  BY <1>3, <1>4, <1>8, <1>9

LEMMA ClockNextInv == ClockInv /\ [ClockNext]_clockVars => ClockInv'
<1> SUFFICES ASSUME ClockInv, [ClockNext]_clockVars PROVE ClockInv'
  OBVIOUS
<1>1. CASE Install \/ ReconcileApplies \/ UNCHANGED clockVars
  BY <1>1, HelperStep
<1>2. CASE Reboot \/ ReconcileBegins
  BY <1>2, RebootStep, ReconcileBeginsStep
<1>3. CASE ReconcileGivesUp
  BY <1>3, EndsStep, ClockConstants DEF ReconcileGivesUp, ClockMoves, file
<1>4. CASE ReconcileReturns
  BY <1>4, RecordStep, ClockConstants DEF ReconcileReturns, ClockMoves
<1>5. CASE \E h \in Sets : \E t \in Targets : SetBegins(h, t)
  BY <1>5, SetBeginsStep
<1>6. CASE \E h \in Sets : SetRefused(h)
  BY <1>6, EndsStep, ClockConstants DEF SetRefused, ClockMoves, file
<1>7. CASE \E h \in Sets : SetApplies(h)
  BY <1>7, SetAppliesStep
<1>8. CASE \E h \in Sets : SetReturns(h)
  BY <1>8, RecordStep, ClockConstants DEF SetReturns, ClockMoves
<1>9. CASE \E h \in Handlers : ApplyRuns(h)
  BY <1>9, ApplyRunsStep
<1>10. CASE \E h \in Handlers : ApplyFails(h)
  <2> PICK h \in Handlers : ApplyFails(h)
    BY <1>10
  <2>1. CASE h = Reconcile
    BY <2>1, EndsStep DEF ApplyFails, ClockMoves, file
  <2>2. CASE h # Reconcile
    BY <2>2, EndsStep DEF ApplyFails, ClockMoves, file
  <2> QED
    BY <2>1, <2>2
<1> QED
  BY <1>1, <1>2, <1>3, <1>4, <1>5, <1>6, <1>7, <1>8, <1>9, <1>10 DEF ClockNext

LEMMA ClockHolds == ClockInv => ClockTypeOK /\ ClocksAgree
<1> SUFFICES ASSUME ClockInv PROVE ClockTypeOK /\ ClocksAgree
  OBVIOUS
<1>1. ClockTypeOK
  BY DEF ClockInv, ClockTypeOK, ClockTypes, ClockFlags
<1>2. ClocksAgree
  <2> SUFFICES ASSUME ~due, \A h \in Handlers : ~Underway(h),
                      NEW d \in Remembered \ (clash \union loose)
               PROVE  clocks[d] = desired[d] /\ applied[d] = desired[d]
    BY DEF ClocksAgree
  <2>1. d \in Sure /\ desired[d] # Unset /\ \A h \in Handlers : ~Ran(h, d)
    BY DEF Remembered, Sure, Ran, Underway
  <2> QED
    BY <2>1 DEF ClockInv, FileIsTrue, Agrees
<1> QED
  BY <1>1, <1>2

-----------------------------------------------------------------------------
(* HermesRepo: the invariant *)

Kinds == {"none", "check", "preview", "update", "repair", "probe"}
Ats == {"off", "sweep", "git", "held", "build", "over"}
Outs == {"none", "broken", "done", "failed", "yes", "no", "noise", "lost"}
ProcRecord == [kind : Kinds, at : Ats, out : Outs]

RepoTypes ==
    /\ origin \in 0..MaxCommits /\ head \in 0..MaxCommits /\ head <= origin
    /\ lock \in Slots \union {"free", "stale"} /\ venv \in {"ok", "broken"} /\ mode \in {"local", "root"}
    /\ trying \in {"off", "first", "repair", "probe", "second", "recheck"}
    /\ since \subseteq Slots \union {"row"}

RepoFlags == foreign \in BOOLEAN /\ hurt \in BOOLEAN

RowTypes ==
    row \in [avail : {"unknown", "yes", "no"}, error : BOOLEAN, status : {"idle", "running", "success", "error"}]

ProcTypes == proc \in [Slots -> ProcRecord]

\* The slot of the updates is in use while one is tried; only it and what it
\* left behind update.
SlotsOK ==
    /\ trying = "off" <=> proc["update"].at = "off"
    /\ \A p \in Slots : proc[p].at = "off" => proc[p] = Off
    /\ \A p \in Slots : proc[p].kind = "update" => p \in {"update", "ghost"}
    /\ trying \in {"first", "second"} => proc["update"].kind = "update"

\* What a check printed, and what the row says, is of the checkout as it is,
\* unless it was updated since.
ReadingsAreTrue ==
    /\ \A p \in Slots : proc[p].at = "over" /\ proc[p].out = "yes" /\ p \notin since => head < origin
    /\ row.avail = "yes" /\ "row" \notin since => head < origin

\* An update that is past its sweep, and one that ends well, has a venv that
\* works, unless a command that nobody awaits broke it.
UpdatesAreSound ==
    trying \in {"first", "second"} /\
    \/ proc["update"].at \in {"git", "held"}
    \/ proc["update"].at = "over" /\ ~LooksFailed(proc["update"].out)
    => venv = "ok" \/ hurt

RepoInv == RepoTypes /\ RepoFlags /\ RowTypes /\ ProcTypes /\ SlotsOK /\ ReadingsAreTrue /\ UpdatesAreSound

-----------------------------------------------------------------------------
(* HermesRepo: the proof *)

LEMMA OffIs == Off \in ProcRecord /\ Off.kind = "none" /\ Off.at = "off" /\ Off.out = "none"
  BY DEF Off, ProcRecord, Kinds, Ats, Outs

LEMMA HermesInitInv == HermesInit => RepoInv
<1> SUFFICES ASSUME HermesInit PROVE RepoInv
  OBVIOUS
<1>1. /\ origin \in 0..1 /\ head = 0 /\ lock = "free" /\ venv \in {"ok", "broken"}
      /\ mode \in {"local", "root"} /\ foreign = FALSE
      /\ proc = [p \in Slots |-> Off] /\ trying = "off"
      /\ row = [avail |-> "unknown", error |-> FALSE, status |-> "idle"]
      /\ since = {} /\ hurt = FALSE
  BY DEF HermesInit
<1>2. \A p \in Slots : proc[p] = Off
  BY <1>1
<1>3. RepoTypes
  BY <1>1, HermesAssumption DEF RepoTypes
<1>4. RepoFlags /\ RowTypes
  BY <1>1 DEF RepoFlags, RowTypes
<1>5. ProcTypes
  BY <1>1, OffIs DEF ProcTypes
<1>6. SlotsOK
  BY <1>1, <1>2, OffIs DEF SlotsOK, Slots
<1>7. ReadingsAreTrue
  BY <1>1, <1>2, OffIs DEF ReadingsAreTrue
<1>8. UpdatesAreSound
  BY <1>1 DEF UpdatesAreSound
<1> QED
  BY <1>3, <1>4, <1>5, <1>6, <1>7, <1>8 DEF RepoInv

\* What the steps do to their command.
LEMMA OverIs ==
  ASSUME ProcTypes, NEW p \in Slots, NEW out \in Outs, Over(p, out)
  PROVE  /\ ProcTypes' /\ proc'[p].at = "over" /\ proc'[p].out = out /\ proc'[p].kind = proc[p].kind
         /\ \A q \in Slots \ {p} : proc'[q] = proc[q]
  BY DEF ProcTypes, Over, ProcRecord, Ats

LEMMA AtIs ==
  ASSUME ProcTypes, NEW p \in Slots, NEW step \in Ats, At(p, step)
  PROVE  /\ ProcTypes' /\ proc'[p].at = step /\ proc'[p].kind = proc[p].kind
         /\ \A q \in Slots \ {p} : proc'[q] = proc[q]
  BY DEF ProcTypes, At, ProcRecord

LEMMA LaunchIs ==
  ASSUME RepoFlags, ProcTypes, NEW p \in Slots, NEW kind \in Kinds \ {"none"}, Launch(p, kind)
  PROVE  /\ ProcTypes' /\ proc'[p].kind = kind /\ proc'[p].at \in {"sweep", "git", "build"}
         /\ proc'[p].at = "git" => kind = "preview"
         /\ \A q \in Slots \ {p} : proc'[q] = proc[q]
         /\ foreign' \in BOOLEAN
<1> DEFINE new == [kind |-> kind, at |-> FirstStep(kind), out |-> "none"]
<1>1. proc' = [proc EXCEPT ![p] = new] /\ foreign' \in BOOLEAN
  BY DEF Launch, RepoFlags
<1>2. FirstStep(kind) \in {"sweep", "git", "build"} /\ (FirstStep(kind) = "git" => kind = "preview")
  BY DEF FirstStep
<1>3. new \in ProcRecord /\ new.kind = kind /\ new.at = FirstStep(kind)
  BY <1>2 DEF ProcRecord, Ats, Outs
<1> HIDE DEF new
<1> QED
  BY <1>1, <1>2, <1>3 DEF ProcTypes

LEMMA LeavesSlot ==
  ASSUME ProcTypes, NEW p \in Slots, proc' = [proc EXCEPT ![p] = Off]
  PROVE  ProcTypes' /\ proc'[p] = Off /\ \A q \in Slots \ {p} : proc'[q] = proc[q]
  BY OffIs DEF ProcTypes

\* A command goes on, or ends.
LEMMA MovesSlot ==
  ASSUME RepoInv, NEW p \in Slots, proc[p].at # "off", proc'[p].at # "off",
         proc'[p].kind = proc[p].kind, \A q \in Slots \ {p} : proc'[q] = proc[q], trying' = trying
  PROVE  SlotsOK'
<1>1. "update" \in Slots
  BY DEF Slots
<1> QED
  BY <1>1 DEF RepoInv, SlotsOK

\* A step of a command that neither prints that there is an update nor moves
\* the checkout.
LEMMA QuietRepo ==
  ASSUME RepoInv, NEW p \in Slots, \A q \in Slots \ {p} : proc'[q] = proc[q],
         proc'[p].at = "over" => proc'[p].out # "yes",
         UNCHANGED <<origin, head, row, since>>
  PROVE  ReadingsAreTrue'
  BY DEF RepoInv, ReadingsAreTrue

LEMMA WorldStep == ASSUME RepoInv, Commit \/ Identified PROVE RepoInv'
<1> USE DEF RepoInv
<1>1. /\ UNCHANGED <<head, lock, venv, foreign, proc, trying, row, since, hurt>>
      /\ mode' \in {"local", "root"}
      /\ origin' = origin \/ (origin < MaxCommits /\ origin' = origin + 1)
  BY DEF Commit, Identified, RepoTypes
<1>2. origin' \in 0..MaxCommits /\ (head < origin => head < origin') /\ head <= origin'
  BY <1>1, HermesAssumption DEF RepoTypes
<1>3. RepoTypes'
  BY <1>1, <1>2 DEF RepoTypes
<1>4. RepoFlags' /\ RowTypes' /\ ProcTypes' /\ SlotsOK' /\ UpdatesAreSound'
  BY <1>1 DEF RepoFlags, RowTypes, ProcTypes, SlotsOK, UpdatesAreSound
<1>5. ReadingsAreTrue'
  BY <1>1, <1>2 DEF ReadingsAreTrue
<1> QED
  BY <1>3, <1>4, <1>5

LEMMA SweepStep == ASSUME RepoInv, NEW p \in Slots, Sweep(p) PROVE RepoInv'
<1> USE DEF RepoInv
<1>1. /\ proc[p].at = "sweep" /\ lock' = "free"
      /\ UNCHANGED <<origin, head, venv, mode, foreign, trying, row, since, hurt>>
      /\ \/ Over(p, "broken")
         \/ venv # "broken" /\ proc[p].kind = "probe" /\ Over(p, "done")
         \/ venv # "broken" /\ At(p, "git")
  BY DEF Sweep, Swept
<1>2. /\ ProcTypes' /\ proc'[p].kind = proc[p].kind /\ \A q \in Slots \ {p} : proc'[q] = proc[q]
      /\ \/ proc'[p].at = "over" /\ proc'[p].out = "broken"
         \/ proc[p].kind = "probe" /\ proc'[p].at = "over" /\ proc'[p].out = "done"
         \/ venv = "ok" /\ proc'[p].at = "git"
  <2>1. CASE Over(p, "broken")
    BY <2>1, OverIs DEF Outs
  <2>2. CASE proc[p].kind = "probe" /\ Over(p, "done")
    BY <2>2, OverIs DEF Outs
  <2>3. CASE venv # "broken" /\ At(p, "git")
    BY <2>3, AtIs DEF Ats, RepoTypes
  <2> QED
    BY <1>1, <2>1, <2>2, <2>3
<1>3. RepoTypes' /\ RepoFlags' /\ RowTypes'
  BY <1>1 DEF RepoTypes, RepoFlags, RowTypes
<1>4. SlotsOK'
  BY <1>1, <1>2, MovesSlot
<1>5. ReadingsAreTrue'
  BY <1>1, <1>2, QuietRepo
<1>6. UpdatesAreSound'
  <2>1. CASE p = "update"
    BY <1>1, <1>2, <2>1 DEF UpdatesAreSound, SlotsOK, LooksFailed
  <2>2. CASE p # "update"
    BY <1>1, <1>2, <2>2 DEF UpdatesAreSound, Slots
  <2> QED
    BY <2>1, <2>2
<1> QED
  BY <1>2, <1>3, <1>4, <1>5, <1>6

LEMMA GitBeginsStep == ASSUME RepoInv, NEW p \in Slots, GitBegins(p) PROVE RepoInv'
<1> USE DEF RepoInv
<1>1. /\ proc[p].at = "git" /\ lock' \in {lock, p} /\ foreign' \in BOOLEAN
      /\ UNCHANGED <<origin, head, venv, mode, trying, row, since, hurt>>
      /\ Over(p, "failed") \/ At(p, "held")
  BY DEF GitBegins, RepoFlags
<1>2. /\ ProcTypes' /\ proc'[p].kind = proc[p].kind /\ \A q \in Slots \ {p} : proc'[q] = proc[q]
      /\ \/ proc'[p].at = "over" /\ proc'[p].out = "failed"
         \/ proc'[p].at = "held"
  <2>1. CASE Over(p, "failed")
    BY <2>1, OverIs DEF Outs
  <2>2. CASE At(p, "held")
    BY <2>2, AtIs DEF Ats
  <2> QED
    BY <1>1, <2>1, <2>2
<1>3. RepoTypes' /\ RowTypes'
  BY <1>1 DEF RepoTypes, RowTypes
<1>4. RepoFlags'
  BY <1>1 DEF RepoFlags
<1>5. SlotsOK'
  BY <1>1, <1>2, MovesSlot
<1>6. ReadingsAreTrue'
  BY <1>1, <1>2, QuietRepo
<1>7. UpdatesAreSound'
  <2>1. CASE p = "update"
    BY <1>1, <1>2, <2>1 DEF UpdatesAreSound, LooksFailed
  <2>2. CASE p # "update"
    BY <1>1, <1>2, <2>2 DEF UpdatesAreSound, Slots
  <2> QED
    BY <2>1, <2>2
<1> QED
  BY <1>2, <1>3, <1>4, <1>5, <1>6, <1>7

\* git has read what there is, has lost its lock, or has moved the checkout:
\* what was read before is then of another one.
LEMMA GitEndsStep == ASSUME RepoInv, NEW p \in Slots, GitEnds(p) PROVE RepoInv'
<1> USE DEF RepoInv
<1>1. /\ proc[p].at = "held" /\ lock' \in {lock, "free"}
      /\ UNCHANGED <<origin, mode, foreign, trying, row>>
  BY DEF GitEnds
<1> DEFINE out == IF proc[p].kind = "check" THEN IF Behind THEN "yes" ELSE "no" ELSE "done"
<1>2. CASE /\ Over(p, out) /\ since' = since \ {p} /\ UNCHANGED <<head, venv, hurt>>
  <2>1. out \in Outs /\ (out = "yes" => head < origin)
    BY DEF Outs, Behind
  <2> HIDE DEF out
  <2>2. /\ ProcTypes' /\ proc'[p].at = "over" /\ proc'[p].out = out /\ proc'[p].kind = proc[p].kind
        /\ \A q \in Slots \ {p} : proc'[q] = proc[q]
    BY <1>2, <2>1, OverIs
  <2>3. RepoTypes' /\ RowTypes' /\ RepoFlags'
    BY <1>1, <1>2 DEF RepoTypes, RowTypes, RepoFlags
  <2>4. SlotsOK'
    BY <1>1, <2>2, MovesSlot
  <2>5. "row" \notin Slots
    BY DEF Slots
  <2>6. ReadingsAreTrue'
    BY <1>1, <1>2, <2>1, <2>2, <2>5 DEF ReadingsAreTrue
  <2>7. UpdatesAreSound'
    <3>1. CASE p = "update"
      BY <1>1, <1>2, <2>2, <3>1 DEF UpdatesAreSound
    <3>2. CASE p # "update"
      BY <1>1, <1>2, <2>2, <3>2 DEF UpdatesAreSound, Slots
    <3> QED
      BY <3>1, <3>2
  <2> QED
    BY <2>2, <2>3, <2>4, <2>6, <2>7
<1>3. CASE /\ proc[p].kind = "update" /\ head' = origin /\ venv' = "broken" /\ At(p, "build")
           /\ since' = Slots \union {"row"} /\ hurt' = (p = "ghost")
  <2>1. /\ ProcTypes' /\ proc'[p].at = "build" /\ proc'[p].kind = proc[p].kind
        /\ \A q \in Slots \ {p} : proc'[q] = proc[q]
    BY <1>3, AtIs DEF Ats
  <2>2. RepoTypes' /\ RowTypes' /\ RepoFlags'
    BY <1>1, <1>3 DEF RepoTypes, RowTypes, RepoFlags
  <2>3. SlotsOK'
    BY <1>1, <2>1, MovesSlot
  <2>4. ReadingsAreTrue'
    BY <1>3 DEF ReadingsAreTrue
  <2>5. UpdatesAreSound'
    BY <1>1, <1>3, <2>1 DEF UpdatesAreSound, SlotsOK, Slots
  <2> QED
    BY <2>1, <2>2, <2>3, <2>4, <2>5
<1>4. CASE Over(p, "failed") /\ UNCHANGED <<head, venv, since, hurt>>
  <2>1. /\ ProcTypes' /\ proc'[p].at = "over" /\ proc'[p].out = "failed" /\ proc'[p].kind = proc[p].kind
        /\ \A q \in Slots \ {p} : proc'[q] = proc[q]
    BY <1>4, OverIs DEF Outs
  <2>2. RepoTypes' /\ RowTypes' /\ RepoFlags'
    BY <1>1, <1>4 DEF RepoTypes, RowTypes, RepoFlags
  <2>3. SlotsOK'
    BY <1>1, <2>1, MovesSlot
  <2>4. ReadingsAreTrue'
    BY <1>1, <1>4, <2>1, QuietRepo
  <2>5. UpdatesAreSound'
    BY <1>1, <1>4, <2>1 DEF UpdatesAreSound, LooksFailed, Slots
  <2> QED
    BY <2>1, <2>2, <2>3, <2>4, <2>5
<1> QED
  BY <1>2, <1>3, <1>4 DEF GitEnds

LEMMA VenvBuiltStep == ASSUME RepoInv, NEW p \in Slots, VenvBuilt(p) PROVE RepoInv'
<1> USE DEF RepoInv
<1>1. /\ proc[p].at = "build" /\ UNCHANGED <<origin, head, lock, mode, foreign, trying, row, since>>
      /\ \/ venv' = "ok" /\ hurt' = FALSE
         \/ proc[p].kind = "repair" /\ UNCHANGED <<venv, hurt>>
  BY DEF VenvBuilt
<1>2. PICK out \in {"done", "noise"} : Over(p, out)
  BY DEF VenvBuilt
<1>3. /\ ProcTypes' /\ proc'[p].at = "over" /\ proc'[p].out = out /\ proc'[p].kind = proc[p].kind
      /\ \A q \in Slots \ {p} : proc'[q] = proc[q]
  BY <1>2, OverIs DEF Outs
<1>4. RepoTypes' /\ RowTypes' /\ RepoFlags'
  <2>1. venv' \in {"ok", "broken"} /\ hurt' \in BOOLEAN
    BY <1>1 DEF RepoTypes, RepoFlags
  <2>2. RepoTypes' /\ RowTypes'
    BY <1>1, <2>1 DEF RepoTypes, RowTypes
  <2> QED
    BY <1>1, <2>1, <2>2 DEF RepoFlags
<1>5. SlotsOK'
  BY <1>1, <1>3, MovesSlot
<1>6. ReadingsAreTrue'
  BY <1>1, <1>2, <1>3, QuietRepo
<1>7. UpdatesAreSound'
  BY <1>1, <1>3 DEF UpdatesAreSound, SlotsOK, Slots
<1> QED
  BY <1>3, <1>4, <1>5, <1>6, <1>7

\* Killed, or given up by its caller: then it runs on as the ghost.
LEMMA InterruptedStep == ASSUME RepoInv, NEW p \in Slots, Interrupted(p) PROVE RepoInv'
<1> USE DEF RepoInv
<1>1. /\ proc[p].at # "off" /\ Over(p, "lost") /\ lock' \in {lock, "stale"}
      /\ UNCHANGED <<origin, head, venv, mode, foreign, trying, row, since, hurt>>
  BY DEF Interrupted
<1>2. /\ ProcTypes' /\ proc'[p].at = "over" /\ proc'[p].out = "lost" /\ proc'[p].kind = proc[p].kind
      /\ \A q \in Slots \ {p} : proc'[q] = proc[q]
  BY <1>1, OverIs DEF Outs
<1>3. RepoTypes' /\ RowTypes' /\ RepoFlags'
  BY <1>1 DEF RepoTypes, RowTypes, RepoFlags
<1>4. SlotsOK'
  BY <1>1, <1>2, MovesSlot
<1>5. ReadingsAreTrue'
  BY <1>1, <1>2, QuietRepo
<1>6. UpdatesAreSound'
  BY <1>1, <1>2 DEF UpdatesAreSound, LooksFailed, Slots
<1> QED
  BY <1>2, <1>3, <1>4, <1>5, <1>6

LEMMA TimesOutStep == ASSUME RepoInv, NEW p \in Slots, TimesOut(p) PROVE RepoInv'
<1> USE DEF RepoInv
<1>1. /\ p # "ghost" /\ proc["ghost"] = Off /\ proc[p].at \in {"git", "held", "build"}
      /\ proc' = [proc EXCEPT !["ghost"] = proc[p], ![p].at = "over", ![p].out = "lost"]
      /\ lock' \in {lock, "ghost"}
      /\ hurt' = (hurt \/ (proc[p].at = "build" /\ venv = "broken"))
      /\ UNCHANGED <<origin, head, venv, mode, foreign, trying, row, since>>
  BY DEF TimesOut
<1>2. "ghost" \in Slots /\ "update" \in Slots
  BY DEF Slots
<1>3. /\ proc'["ghost"] = proc[p] /\ proc'[p].at = "over" /\ proc'[p].out = "lost" /\ proc'[p].kind = proc[p].kind
      /\ \A q \in Slots \ {p, "ghost"} : proc'[q] = proc[q]
  BY <1>1, <1>2 DEF ProcTypes, ProcRecord
<1>4. ProcTypes'
  <2> DEFINE lost == [proc[p] EXCEPT !.at = "over", !.out = "lost"]
  <2>1. proc[p] \in ProcRecord
    BY DEF ProcTypes
  <2>2. lost \in ProcRecord
    BY <2>1 DEF ProcRecord, Ats, Outs
  <2>3. proc' = [proc EXCEPT !["ghost"] = proc[p], ![p] = lost]
    BY <1>1
  <2> HIDE DEF lost
  <2> QED
    BY <1>2, <2>1, <2>2, <2>3 DEF ProcTypes
<1>5. RepoTypes' /\ RowTypes'
  BY <1>1, <1>2 DEF RepoTypes, RowTypes
<1>6. RepoFlags'
  BY <1>1 DEF RepoFlags
<1>7. SlotsOK'
  <2>1. \A q \in Slots : proc'[q].at = "off" => proc'[q] = proc[q] /\ proc[q].at = "off"
    BY <1>1, <1>3
  <2>2. \A q \in Slots : q # "ghost" => proc'[q].kind = proc[q].kind /\ (proc'[q].at = "off" <=> proc[q].at = "off")
    BY <1>1, <1>3
  <2>3. \A q \in Slots : proc'[q].kind = "update" => q \in {"update", "ghost"}
    BY <2>2 DEF SlotsOK
  <2> QED
    BY <1>1, <1>2, <2>1, <2>2, <2>3, ZenonT(30) DEF SlotsOK
<1>8. ReadingsAreTrue'
  <2>1. \A q \in Slots : proc'[q].at = "over" /\ proc'[q].out = "yes" => q # p /\ q # "ghost"
    BY <1>1, <1>3
  <2> QED
    BY <1>1, <1>3, <2>1 DEF ReadingsAreTrue
<1>9. UpdatesAreSound'
  <2>1. CASE p = "update"
    BY <1>3, <2>1 DEF UpdatesAreSound, LooksFailed
  <2>2. CASE p # "update"
    BY <1>1, <1>2, <1>3, <2>2 DEF UpdatesAreSound
  <2> QED
    BY <2>1, <2>2
<1> QED
  BY <1>4, <1>5, <1>6, <1>7, <1>8, <1>9

\* A slot is free again, or a command begins in it, with nothing read yet.
LEMMA SlotStep ==
  ASSUME RepoInv, NEW p \in Slots \ {"update"}, ProcTypes', foreign' \in BOOLEAN,
         \A q \in Slots \ {p} : proc'[q] = proc[q],
         proc'[p] = Off \/ (proc'[p].kind # "update" /\ proc'[p].at \in {"sweep", "git", "build"}),
         UNCHANGED <<origin, head, lock, venv, mode, trying, row, since, hurt>>
  PROVE  RepoInv'
<1> USE DEF RepoInv
<1>1. "update" \in Slots
  BY DEF Slots
<1>2. RepoTypes' /\ RowTypes'
  BY DEF RepoTypes, RowTypes
<1>3. RepoFlags'
  BY DEF RepoFlags
<1>4. SlotsOK'
  BY <1>1, OffIs DEF SlotsOK
<1>5. ReadingsAreTrue'
  BY OffIs, QuietRepo
<1>6. UpdatesAreSound'
  BY <1>1 DEF UpdatesAreSound
<1> QED
  BY <1>2, <1>3, <1>4, <1>5, <1>6

\* What a command printed goes to the row.
LEMMA ReadingIs ==
  ASSUME RepoInv, NEW p \in Slots, proc[p].at = "over", Reading(p)
  PROVE  /\ RowTypes' /\ since' \subseteq Slots \union {"row"} /\ since' \ {"row"} = since \ {"row"}
         /\ row'.avail = "yes" /\ "row" \notin since' => head < origin
         /\ row'.status = "success" => row.status = "success"
<1> USE DEF RepoInv
<1>1. /\ since' = (since \ {"row"}) \union (IF p \in since THEN {"row"} ELSE {})
      /\ row' = [row EXCEPT !.avail = Parsed(proc[p].out), !.error = proc[p].out \notin {"yes", "no"},
                  !.status = IF p # "update" /\ proc[p].out \in {"yes", "no"} /\ row.status # "running"
                             THEN "idle" ELSE row.status]
  BY DEF Reading
<1>2. Parsed(proc[p].out) \in {"unknown", "yes", "no"} /\ (Parsed(proc[p].out) = "yes" => proc[p].out = "yes")
  BY DEF Parsed
<1>3. row'.avail = Parsed(proc[p].out) /\ row'.status \in {"idle", row.status}
  BY <1>1 DEF RowTypes
<1>4. RowTypes'
  BY <1>1, <1>2 DEF RowTypes
<1>5. p # "row"
  BY DEF Slots
<1> QED
  BY <1>1, <1>2, <1>3, <1>4, <1>5 DEF ReadingsAreTrue, RepoTypes

LEMMA CheckAppliesStep ==
  ASSUME RepoInv, NEW p \in Slots \ {"update"}, CheckApplies(p) PROVE RepoInv'
<1> USE DEF RepoInv
<1>1. /\ proc[p].at = "over" /\ Reading(p) /\ proc' = [proc EXCEPT ![p] = Off]
      /\ UNCHANGED <<origin, head, lock, venv, mode, foreign, trying, hurt>>
  BY DEF CheckApplies, repoVars
<1>2. /\ RowTypes' /\ since' \subseteq Slots \union {"row"} /\ since' \ {"row"} = since \ {"row"}
      /\ row'.avail = "yes" /\ "row" \notin since' => head < origin
  BY <1>1, ReadingIs
<1>3. ProcTypes' /\ proc'[p] = Off /\ \A q \in Slots \ {p} : proc'[q] = proc[q]
  BY <1>1, LeavesSlot
<1>4. "row" \notin Slots /\ "update" \in Slots
  BY DEF Slots
<1>5. RepoTypes' /\ RepoFlags'
  BY <1>1, <1>2 DEF RepoTypes, RepoFlags
<1>6. SlotsOK'
  BY <1>1, <1>3, <1>4, OffIs DEF SlotsOK
<1>7. ReadingsAreTrue'
  BY <1>1, <1>2, <1>3, <1>4, OffIs DEF ReadingsAreTrue
<1>8. UpdatesAreSound'
  BY <1>1, <1>3, <1>4 DEF UpdatesAreSound
<1> QED
  BY <1>2, <1>3, <1>5, <1>6, <1>7, <1>8

\* The next command of an update.
LEMMA GoesStep ==
  ASSUME RepoInv, Launch("update", "update") \/ Launch("update", "repair")
                  \/ Launch("update", "probe") \/ Launch("update", "check"),
         trying' \in {"first", "repair", "probe", "second", "recheck"},
         trying' \in {"first", "second"} => Launch("update", "update"),
         UNCHANGED <<origin, head, lock, venv, mode, since, hurt>>, RowTypes', row'.avail = row.avail
  PROVE  RepoInv'
<1> USE DEF RepoInv
<1>1. "update" \in Slots /\ "ghost" \in Slots
  BY DEF Slots
<1>2. \A kind \in {"update", "repair", "probe", "check"} : Launch("update", kind) =>
        /\ ProcTypes' /\ proc'["update"].kind = kind /\ proc'["update"].at \in {"sweep", "build"}
        /\ \A q \in Slots \ {"update"} : proc'[q] = proc[q]
        /\ foreign' \in BOOLEAN
  BY <1>1, LaunchIs DEF Kinds
<1>3. /\ ProcTypes' /\ proc'["update"].at \in {"sweep", "build"} /\ foreign' \in BOOLEAN
      /\ \A q \in Slots \ {"update"} : proc'[q] = proc[q]
      /\ trying' \in {"first", "second"} => proc'["update"].kind = "update"
  BY <1>2
<1>4. RepoTypes'
  BY DEF RepoTypes
<1>5. RepoFlags'
  BY <1>3 DEF RepoFlags
<1>6. SlotsOK'
  BY <1>1, <1>3 DEF SlotsOK
<1>7. ReadingsAreTrue'
  BY <1>3 DEF ReadingsAreTrue
<1>8. UpdatesAreSound'
  BY <1>3 DEF UpdatesAreSound
<1> QED
  BY <1>3, <1>4, <1>5, <1>6, <1>7, <1>8

\* The update is over.
LEMMA UpdateOver ==
  ASSUME RepoInv, proc' = [proc EXCEPT !["update"] = Off], trying' = "off",
         UNCHANGED <<origin, head, lock, venv, mode, foreign, hurt>>, RowTypes',
         since' \subseteq Slots \union {"row"}, since' \ {"row"} = since \ {"row"},
         row'.avail = "yes" /\ "row" \notin since' => head < origin
  PROVE  RepoInv'
<1> USE DEF RepoInv
<1>1. "update" \in Slots /\ "ghost" \in Slots /\ "row" \notin Slots
  BY DEF Slots
<1>2. ProcTypes' /\ proc'["update"] = Off /\ \A q \in Slots \ {"update"} : proc'[q] = proc[q]
  BY <1>1, LeavesSlot
<1>3. RepoTypes' /\ RepoFlags'
  BY DEF RepoTypes, RepoFlags
<1>4. SlotsOK'
  BY <1>1, <1>2, OffIs DEF SlotsOK
<1>5. ReadingsAreTrue'
  BY <1>1, <1>2, OffIs DEF ReadingsAreTrue
<1>6. UpdatesAreSound'
  BY DEF UpdatesAreSound
<1> QED
  BY <1>2, <1>3, <1>4, <1>5, <1>6

LEMMA StatusIs ==
  ASSUME RowTypes, NEW s \in {"idle", "running", "success", "error"}, NEW e \in BOOLEAN,
         row' = [row EXCEPT !.status = s, !.error = e]
  PROVE  RowTypes' /\ row'.avail = row.avail /\ row'.status = s
  BY DEF RowTypes

LEMMA UpdateSteps ==
  ASSUME RepoInv, UpdateStarts \/ Repairs \/ UpdateFails \/ UpdateSucceeds \/ Rechecked PROVE RepoInv'
<1>1. CASE UpdateStarts
  <2>1. row' = [row EXCEPT !.status = "running", !.error = FALSE]
    BY <1>1 DEF UpdateStarts
  <2>2. RowTypes' /\ row'.avail = row.avail
    BY <2>1, StatusIs DEF RepoInv
  <2> QED
    BY <1>1, <2>2, GoesStep DEF UpdateStarts
<1>2. CASE Repairs
  <2>1. RowTypes' /\ row'.avail = row.avail
    BY <1>2 DEF Repairs, RepoInv, RowTypes
  <2> QED
    BY <1>2, <2>1, GoesStep DEF Repairs, Goes
<1>3. CASE UpdateFails
  <2>1. row' = [row EXCEPT !.status = "error", !.error = TRUE]
    BY <1>3 DEF UpdateFails
  <2>2. RowTypes' /\ row'.avail = row.avail
    BY <2>1, StatusIs DEF RepoInv
  <2>3. /\ proc' = [proc EXCEPT !["update"] = Off] /\ trying' = "off"
        /\ UNCHANGED <<origin, head, lock, venv, mode, foreign, hurt, since>>
    BY <1>3 DEF UpdateFails, repoVars
  <2>4. since' \subseteq Slots \union {"row"} /\ since' \ {"row"} = since \ {"row"}
    BY <2>3 DEF RepoInv, RepoTypes
  <2>5. row'.avail = "yes" /\ "row" \notin since' => head < origin
    BY <2>2, <2>3 DEF RepoInv, ReadingsAreTrue
  <2> QED
    BY <2>2, <2>3, <2>4, <2>5, UpdateOver
<1>4. CASE UpdateSucceeds
  <2>1. row' = [row EXCEPT !.status = "success", !.error = FALSE]
    BY <1>4 DEF UpdateSucceeds
  <2>2. RowTypes' /\ row'.avail = row.avail
    BY <2>1, StatusIs DEF RepoInv
  <2> QED
    BY <1>4, <2>2, GoesStep DEF UpdateSucceeds, Goes
<1>5. CASE Rechecked
  <2>1. /\ proc["update"].at = "over" /\ Reading("update") /\ trying' = "off"
        /\ proc' = [proc EXCEPT !["update"] = Off]
        /\ UNCHANGED <<origin, head, lock, venv, mode, foreign, hurt>>
    BY <1>5 DEF Rechecked, repoVars
  <2>2. "update" \in Slots
    BY DEF Slots
  <2> QED
    BY <2>1, <2>2, ReadingIs, UpdateOver
<1> QED
  BY <1>1, <1>2, <1>3, <1>4, <1>5

LEMMA SlotSteps ==
  ASSUME RepoInv,
         GhostEnds \/ PollStarts \/ Asked("route", "check") \/ Asked("preview", "preview") \/ PreviewEnds
  PROVE  RepoInv'
<1> USE DEF RepoInv
<1>1. {"ghost", "poll", "route", "preview"} \subseteq Slots \ {"update"}
  BY DEF Slots
<1>2. CASE GhostEnds
  <2>1. proc' = [proc EXCEPT !["ghost"] = Off] /\ UNCHANGED <<origin, head, lock, venv, mode, foreign, trying, row, since, hurt>>
    BY <1>2 DEF GhostEnds, repoVars
  <2> QED
    BY <1>1, <2>1, LeavesSlot, SlotStep DEF RepoFlags
<1>3. CASE PreviewEnds
  <2>1. proc' = [proc EXCEPT !["preview"] = Off] /\ UNCHANGED <<origin, head, lock, venv, mode, foreign, trying, row, since, hurt>>
    BY <1>3 DEF PreviewEnds, repoVars
  <2> QED
    BY <1>1, <2>1, LeavesSlot, SlotStep DEF RepoFlags
<1>4. \A p \in Slots \ {"update"}, kind \in {"check", "preview"} :
        Launch(p, kind) /\ UNCHANGED <<origin, head, lock, venv, mode, trying, row, since, hurt>> => RepoInv'
  <2> SUFFICES ASSUME NEW p \in Slots \ {"update"}, NEW kind \in {"check", "preview"}, Launch(p, kind),
                      UNCHANGED <<origin, head, lock, venv, mode, trying, row, since, hurt>>
               PROVE  RepoInv'
    OBVIOUS
  <2>1. kind \in Kinds \ {"none"} /\ kind # "update"
    BY DEF Kinds
  <2>2. /\ ProcTypes' /\ proc'[p].kind = kind /\ proc'[p].at \in {"sweep", "git", "build"}
        /\ \A q \in Slots \ {p} : proc'[q] = proc[q]
        /\ foreign' \in BOOLEAN
    BY <2>1, LaunchIs
  <2> QED
    BY <2>1, <2>2, SlotStep
<1>5. CASE PollStarts
  BY <1>1, <1>4, <1>5 DEF PollStarts
<1>6. CASE Asked("route", "check") \/ Asked("preview", "preview")
  BY <1>1, <1>4, <1>6 DEF Asked
<1> QED
  BY <1>2, <1>3, <1>5, <1>6

LEMMA RepoNextInv == RepoInv /\ [HermesNext]_hermesVars => RepoInv'
<1> SUFFICES ASSUME RepoInv, [HermesNext]_hermesVars PROVE RepoInv'
  OBVIOUS
<1>1. CASE Commit \/ Identified
  BY <1>1, WorldStep
<1>2. CASE \E p \in Slots : OnNode(p) \/ Interrupted(p) \/ TimesOut(p)
  BY <1>2, SweepStep, GitBeginsStep, GitEndsStep, VenvBuiltStep, InterruptedStep, TimesOutStep DEF OnNode
<1>3. CASE GhostEnds \/ PollStarts \/ Asked("route", "check") \/ Asked("preview", "preview") \/ PreviewEnds
  BY <1>3, SlotSteps
<1>4. CASE CheckApplies("poll") \/ CheckApplies("route")
  BY <1>4, CheckAppliesStep DEF Slots
<1>5. CASE UpdateStarts \/ Repairs \/ UpdateFails \/ UpdateSucceeds \/ Rechecked
  BY <1>5, UpdateSteps
<1>6. CASE UNCHANGED hermesVars
  <2>1. UNCHANGED <<origin, head, lock, venv, mode, foreign, proc, trying, row, since, hurt>>
    BY <1>6 DEF hermesVars, repoVars
  <2> QED
    BY <2>1 DEF RepoInv, RepoTypes, RepoFlags, RowTypes, ProcTypes, SlotsOK, ReadingsAreTrue, UpdatesAreSound
<1> QED
  BY <1>1, <1>2, <1>3, <1>4, <1>5, <1>6 DEF HermesNext

LEMMA RepoHolds == RepoInv => HermesTypeOK /\ NoPhantomUpdate
<1> SUFFICES ASSUME RepoInv PROVE HermesTypeOK /\ NoPhantomUpdate
  OBVIOUS
<1> USE DEF RepoInv
<1>1. HermesTypeOK
  <2>1. trying = "off" <=> proc["update"] = Off
    BY OffIs DEF SlotsOK, Slots
  <2>2. head <= origin /\ origin <= MaxCommits
    BY DEF RepoTypes
  <2>3. \A p \in Slots : proc[p].at \in {"off", "sweep", "git", "held", "build", "over"}
    BY DEF ProcTypes, ProcRecord, Ats
  <2>4. {foreign, hurt, row.error} \subseteq BOOLEAN
    BY DEF RepoFlags, RowTypes
  <2> QED
    BY <2>1, <2>2, <2>3, <2>4 DEF HermesTypeOK, RepoTypes, RowTypes
<1>2. NoPhantomUpdate
  BY DEF NoPhantomUpdate, ReadingsAreTrue, Behind
<1> QED
  BY <1>1, <1>2

\* Only an update that ended well is called a success.
LEMMA SuccessIsSound ==
  ASSUME RepoInv, [HermesNext]_hermesVars, row'.status = "success", row.status # "success"
  PROVE  venv = "ok" \/ hurt
<1>1. CASE Commit \/ Identified
  BY <1>1 DEF Commit, Identified
<1>2. CASE \E p \in Slots : OnNode(p) \/ Interrupted(p) \/ TimesOut(p)
  BY <1>2 DEF OnNode, Sweep, GitBegins, GitEnds, VenvBuilt, Interrupted, TimesOut
<1>3. CASE GhostEnds \/ PollStarts \/ Asked("route", "check") \/ Asked("preview", "preview") \/ PreviewEnds
  BY <1>3 DEF GhostEnds, PollStarts, Asked, PreviewEnds
<1>4. CASE CheckApplies("poll") \/ CheckApplies("route") \/ Rechecked
  <2>1. PICK p \in Slots : proc[p].at = "over" /\ Reading(p)
    BY <1>4 DEF CheckApplies, Rechecked, Slots
  <2> QED
    BY <2>1, ReadingIs
<1>5. CASE UpdateStarts \/ Repairs \/ UpdateFails
  BY <1>5 DEF UpdateStarts, Repairs, UpdateFails, RepoInv, RowTypes
<1>6. CASE UpdateSucceeds
  BY <1>6 DEF UpdateSucceeds, RepoInv, UpdatesAreSound
<1>7. CASE UNCHANGED hermesVars
  BY <1>7 DEF hermesVars
<1> QED
  BY <1>1, <1>2, <1>3, <1>4, <1>5, <1>6, <1>7 DEF HermesNext

-----------------------------------------------------------------------------
(* FleetPower: the invariant *)

Results == {"none", "ok", "failed", "skipped"}
CallRecord == [kind : {"none", "all", "one", "wake", "over"}, todo : Seq(Units),
               ssh : {"none", "sent", "started", "refused"}, result : [Units -> Results]]

PowerTypes ==
    /\ host \in [Units -> {"on", "halting", "off", "booting"}]
    /\ seen \in [Units -> BOOLEAN] /\ detected \subseteq Units
    /\ server \in {"up", "closing", "draining", "down"} /\ immediate \in BOOLEAN
    /\ cuts \in 0..MaxCuts /\ told \subseteq Units /\ cut \subseteq Units

CallTypes == call \in [Calls -> CallRecord]

\* A command is that of the node that is due.
CommandsOK == \A c \in Calls :
    call[c].ssh # "none" =>
        /\ call[c].kind \in {"all", "one"} /\ call[c].todo # <<>>
        /\ call[c].ssh = "started" => Head(call[c].todo) \in told
        /\ call[c].ssh = "refused" => Head(call[c].todo) \in Helpless /\ host[Head(call[c].todo)] = "on"

\* Who goes down was told to, and could be.
HaltsAreTold == \A s \in Units : host[s] = "halting" => s \in told /\ s \notin Helpless

\* A batch has a result of whoever is not due any more, and the local node is
\* the last one.
BatchOK == \A c \in Calls : call[c].kind = "all" =>
    LET todo == call[c].todo IN
    /\ \A s \in Units : call[c].result[s] = "none" => \E i \in 1..Len(todo) : todo[i] = s
    /\ \A i \in 1..Len(todo) : todo[i] = Local => i = Len(todo)
    /\ call[c].result[Local] # "none" => todo = <<>>

PowerInv == PowerTypes /\ CallTypes /\ CommandsOK /\ HaltsAreTold /\ BatchOK /\ OkWasTold

-----------------------------------------------------------------------------
(* FleetPower: the proof *)

LEMMA OrderIs ==
  /\ Local \in Units /\ Remotes \in Seq(Units) /\ ShutdownOrder \in Seq(Units)
  /\ Len(ShutdownOrder) = Len(Remotes) + 1
  /\ \A s \in Units : \E i \in 1..Len(ShutdownOrder) : ShutdownOrder[i] = s
  /\ \A i \in 1..Len(ShutdownOrder) : ShutdownOrder[i] = Local => i = Len(ShutdownOrder)
<1>1. Local \in Units /\ \A i \in DOMAIN Remotes : Remotes[i] \in Units
  BY DEF Units
<1>2. Remotes \in Seq(Units) /\ DOMAIN Remotes = 1..Len(Remotes) /\ Len(Remotes) \in Nat
  BY <1>1, PowerAssumption
<1>3. <<Local>> \in Seq(Units) /\ Len(<<Local>>) = 1 /\ <<Local>>[1] = Local
  BY <1>1
<1> DEFINE last == <<Local>>
<1> HIDE DEF last
<1>4. last \in Seq(Units) /\ Len(last) = 1 /\ last[1] = Local /\ ShutdownOrder = Remotes \o last
  BY <1>3 DEF last, ShutdownOrder
<1>5. /\ ShutdownOrder \in Seq(Units) /\ Len(ShutdownOrder) = Len(Remotes) + 1
      /\ \A i \in 1..Len(Remotes) + 1 :
            ShutdownOrder[i] = IF i <= Len(Remotes) THEN Remotes[i] ELSE last[i - Len(Remotes)]
  <2>1. /\ Remotes \o last \in Seq(Units) /\ Len(Remotes \o last) = Len(Remotes) + Len(last)
        /\ \A i \in 1..Len(Remotes) + Len(last) :
              (Remotes \o last)[i] = IF i <= Len(Remotes) THEN Remotes[i] ELSE last[i - Len(Remotes)]
    BY <1>2, <1>4, ConcatProperties
  <2> QED
    BY <1>4, <2>1
<1>6. /\ \A i \in 1..Len(Remotes) : ShutdownOrder[i] = Remotes[i] /\ Remotes[i] # Local
      /\ ShutdownOrder[Len(Remotes) + 1] = Local
  <2>1. \A i \in 1..Len(Remotes) : Remotes[i] # Local
    BY <1>2, PowerAssumption
  <2>2. \A i \in 1..Len(Remotes) : ShutdownOrder[i] = Remotes[i]
    BY <1>2, <1>5
  <2>3. ShutdownOrder[Len(Remotes) + 1] = last[1]
    BY <1>2, <1>5
  <2> QED
    BY <1>4, <2>1, <2>2, <2>3
<1>7. \A s \in Units : \E i \in 1..Len(ShutdownOrder) : ShutdownOrder[i] = s
  <2> SUFFICES ASSUME NEW s \in Units PROVE \E i \in 1..Len(Remotes) + 1 : ShutdownOrder[i] = s
    BY <1>5
  <2>1. CASE s = Local
    BY <1>2, <1>6, <2>1
  <2>2. CASE s # Local
    <3>1. PICK i \in 1..Len(Remotes) : Remotes[i] = s
      BY <1>2, <2>2 DEF Units
    <3>2. i \in 1..Len(Remotes) + 1
      BY <1>2
    <3> QED
      BY <1>6, <3>1, <3>2
  <2> QED
    BY <2>1, <2>2
<1>8. \A i \in 1..Len(ShutdownOrder) : ShutdownOrder[i] = Local => i = Len(ShutdownOrder)
  BY <1>2, <1>5, <1>6
<1> QED
  BY <1>1, <1>2, <1>5, <1>7, <1>8

LEMMA CallsAre ==
  /\ NotAsked \in CallRecord /\ NotAsked.kind = "none" /\ NotAsked.ssh = "none" /\ NotAsked.result = NoResults
  /\ CallIsOver \in CallRecord /\ CallIsOver.kind = "over" /\ CallIsOver.ssh = "none"
  /\ \A s \in Units : NoResults[s] = "none"
<1>1. <<>> \in Seq(Units) /\ NoResults \in [Units -> Results]
  BY EmptySeq DEF NoResults, Results
<1>2. NotAsked \in CallRecord /\ NotAsked.kind = "none" /\ NotAsked.ssh = "none" /\ NotAsked.result = NoResults
  BY <1>1 DEF NotAsked, CallRecord
<1>3. CallIsOver \in CallRecord /\ CallIsOver.kind = "over" /\ CallIsOver.ssh = "none"
  BY <1>2 DEF CallIsOver, CallRecord
<1> QED
  BY <1>2, <1>3 DEF NoResults

LEMMA PowerInitInv == PowerInit => PowerInv
<1> SUFFICES ASSUME PowerInit PROVE PowerInv
  OBVIOUS
<1>1. /\ host \in [Units -> {"on", "off"}]
      /\ seen = [s \in Units |-> host[s] = "on"]
      /\ detected = {} /\ server = "up"
      /\ call = [c \in Calls |-> NotAsked]
      /\ immediate = FALSE /\ cuts = 0 /\ told = {} /\ cut = {}
  BY DEF PowerInit
<1>2. PowerTypes
  <2>1. host \in [Units -> {"on", "halting", "off", "booting"}]
    BY <1>1
  <2>2. seen \in [Units -> BOOLEAN] /\ detected \subseteq Units /\ told \subseteq Units /\ cut \subseteq Units
    BY <1>1, Zenon
  <2>3. server \in {"up", "closing", "draining", "down"} /\ cuts \in 0..MaxCuts
    BY <1>1, PowerAssumption
  <2>4. immediate \in BOOLEAN
    BY <1>1
  <2> QED
    BY <2>1, <2>2, <2>3, <2>4 DEF PowerTypes
<1>3. CallTypes
  BY <1>1, CallsAre DEF CallTypes
<1>4. \A c \in Calls : call[c].kind = "none" /\ call[c].ssh = "none"
  BY <1>1, CallsAre
<1>5. CommandsOK /\ BatchOK /\ OkWasTold
  BY <1>4 DEF CommandsOK, BatchOK, OkWasTold
<1>6. HaltsAreTold
  BY <1>1 DEF HaltsAreTold
<1> QED
  BY <1>2, <1>3, <1>5, <1>6 DEF PowerInv

\* What a step may do to the nodes without breaking what is said of the calls.
NodesGo ==
    /\ PowerTypes' /\ HaltsAreTold' /\ told \subseteq told' /\ cut \subseteq cut'
    /\ \A s \in Units : s \in Helpless /\ host[s] = "on" => host'[s] = "on"

\* A call that stays as it is, or is new, or is over.
LEMMA OneCallStays ==
  ASSUME PowerInv, NodesGo, NEW c \in Calls, call'[c] = call[c]
  PROVE  /\ call'[c].ssh # "none" =>
              /\ call'[c].kind \in {"all", "one"} /\ call'[c].todo # <<>>
              /\ call'[c].ssh = "started" => Head(call'[c].todo) \in told'
              /\ call'[c].ssh = "refused" =>
                    Head(call'[c].todo) \in Helpless /\ host'[Head(call'[c].todo)] = "on"
         /\ call'[c].kind = "all" =>
              /\ \A s \in Units : call'[c].result[s] = "none" =>
                    \E i \in 1..Len(call'[c].todo) : call'[c].todo[i] = s
              /\ \A i \in 1..Len(call'[c].todo) : call'[c].todo[i] = Local => i = Len(call'[c].todo)
              /\ call'[c].result[Local] # "none" => call'[c].todo = <<>>
         /\ call'[c].kind \in {"all", "one"} =>
              \A s \in Units \ {Local} : call'[c].result[s] = "ok" => s \in told' \cup cut'
<1>1. call[c].todo # <<>> => Head(call[c].todo) \in Units
  BY HeadTailProperties DEF PowerInv, CallTypes, CallRecord
<1>2. call[c].ssh # "none" =>
              /\ call[c].kind \in {"all", "one"} /\ call[c].todo # <<>>
              /\ call[c].ssh = "started" => Head(call[c].todo) \in told'
              /\ call[c].ssh = "refused" => Head(call[c].todo) \in Helpless /\ host'[Head(call[c].todo)] = "on"
  BY <1>1 DEF PowerInv, CommandsOK, NodesGo
<1>3. call[c].kind = "all" =>
              /\ \A s \in Units : call[c].result[s] = "none" => \E i \in 1..Len(call[c].todo) : call[c].todo[i] = s
              /\ \A i \in 1..Len(call[c].todo) : call[c].todo[i] = Local => i = Len(call[c].todo)
              /\ call[c].result[Local] # "none" => call[c].todo = <<>>
  BY DEF PowerInv, BatchOK
<1>4. call[c].kind \in {"all", "one"} =>
              \A s \in Units \ {Local} : call[c].result[s] = "ok" => s \in told' \cup cut'
  BY DEF PowerInv, OkWasTold, NodesGo
<1> QED
  BY <1>2, <1>3, <1>4

\* A step that leaves the calls alone, or ends them.
LEMMA NodesStep ==
  ASSUME PowerInv, NodesGo, CallTypes', \A c \in Calls : call'[c] = call[c] \/ call'[c] = CallIsOver
  PROVE  PowerInv'
<1>1. \A c \in Calls : call'[c] = CallIsOver => call'[c].kind = "over" /\ call'[c].ssh = "none"
  BY CallsAre
<1>2. CommandsOK'
  BY <1>1, OneCallStays DEF CommandsOK
<1>3. BatchOK'
  BY <1>1, OneCallStays DEF BatchOK
<1>4. OkWasTold'
  BY <1>1, OneCallStays DEF OkWasTold
<1> QED
  BY <1>2, <1>3, <1>4 DEF NodesGo, PowerInv

\* A node was handled, by one request.
LEMMA HandledStep ==
  ASSUME PowerInv, NodesGo, NEW c \in Calls, call[c].todo # <<>>, NEW r \in Results \ {"none"},
         call' = Handled(c, Head(call[c].todo), r),
         r = "ok" /\ call[c].kind \in {"all", "one"} /\ Head(call[c].todo) # Local =>
            Head(call[c].todo) \in told' \cup cut'
  PROVE  PowerInv'
<1> DEFINE s == Head(call[c].todo)
           todo == call[c].todo
           rest == Tail(todo)
<1>1. todo \in Seq(Units) /\ call[c] \in CallRecord /\ call[c].result \in [Units -> Results]
  BY DEF PowerInv, CallTypes, CallRecord
<1>2. /\ s \in Units /\ rest \in Seq(Units) /\ Len(rest) = Len(todo) - 1 /\ Len(todo) \in Nat /\ Len(todo) > 0
      /\ \A i \in 1..Len(rest) : rest[i] = todo[i + 1]
      /\ s = todo[1]
  <2>1. s \in Units /\ rest \in Seq(Units) /\ Len(rest) = Len(todo) - 1 /\ \A i \in 1..Len(rest) : rest[i] = todo[i + 1]
    BY <1>1, HeadTailProperties
  <2>2. Len(todo) \in Nat /\ Len(todo) > 0 /\ s = todo[1]
    BY <1>1, EmptySeq
  <2> QED
    BY <2>1, <2>2
<1> HIDE DEF s, todo, rest
<1>3. call' = [call EXCEPT ![c].todo = rest, ![c].ssh = "none", ![c].result[s] = r]
  BY DEF Handled, s, todo, rest
<1>4. /\ call'[c].todo = rest /\ call'[c].ssh = "none" /\ call'[c].kind = call[c].kind
      /\ call'[c].result = [call[c].result EXCEPT ![s] = r]
      /\ call'[c] \in CallRecord
      /\ \A b \in Calls \ {c} : call'[b] = call[b]
  <2>1. call'[c] = [call[c] EXCEPT !.todo = rest, !.ssh = "none", !.result[s] = r]
    BY <1>3 DEF PowerInv, CallTypes
  <2>2. [call[c].result EXCEPT ![s] = r] \in [Units -> Results]
    BY <1>1
  <2>3. /\ call'[c].todo = rest /\ call'[c].ssh = "none" /\ call'[c].kind = call[c].kind
        /\ call'[c].result = [call[c].result EXCEPT ![s] = r]
    BY <1>1, <2>1 DEF CallRecord
  <2>4. call'[c] \in CallRecord
    BY <1>1, <1>2, <2>1, <2>2 DEF CallRecord
  <2>5. \A b \in Calls \ {c} : call'[b] = call[b]
    BY <1>3 DEF PowerInv, CallTypes
  <2> QED
    BY <2>3, <2>4, <2>5
<1>5. /\ call'[c].result[s] = r
      /\ \A u \in Units \ {s} : call'[c].result[u] = call[c].result[u]
  BY <1>1, <1>2, <1>4
<1>6. CallTypes'
  BY <1>3, <1>4 DEF PowerInv, CallTypes
<1>7. CommandsOK'
  <2> SUFFICES ASSUME NEW b \in Calls, call'[b].ssh # "none"
               PROVE  /\ call'[b].kind \in {"all", "one"} /\ call'[b].todo # <<>>
                      /\ call'[b].ssh = "started" => Head(call'[b].todo) \in told'
                      /\ call'[b].ssh = "refused" =>
                            Head(call'[b].todo) \in Helpless /\ host'[Head(call'[b].todo)] = "on"
    BY DEF CommandsOK
  <2>1. b # c
    BY <1>4
  <2>2. call'[b] = call[b]
    BY <1>4, <2>1
  <2> QED
    BY <2>2, OneCallStays
<1>8. OkWasTold'
  <2>1. \A b \in Calls \ {c} : call'[b].kind \in {"all", "one"} =>
              \A u \in Units \ {Local} : call'[b].result[u] = "ok" => u \in told' \cup cut'
    BY <1>4, OneCallStays
  <2>2. call[c].kind \in {"all", "one"} =>
              \A u \in Units \ {Local} : call'[c].result[u] = "ok" => u \in told' \cup cut'
    BY <1>5 DEF PowerInv, OkWasTold, NodesGo, s
  <2> QED
    BY <1>4, <2>1, <2>2 DEF OkWasTold
<1>9. BatchOK'
  <2>1. ASSUME call[c].kind = "all", NEW u \in Units, call'[c].result[u] = "none"
        PROVE  \E i \in 1..Len(rest) : rest[i] = u
    <3>1. u # s /\ call[c].result[u] = "none"
      BY <1>5, <2>1
    <3>2. PICK i \in 1..Len(todo) : todo[i] = u
      BY <2>1, <3>1 DEF PowerInv, BatchOK, todo
    <3>3. i # 1
      BY <1>2, <3>1, <3>2
    <3>4. i - 1 \in 1..Len(rest) /\ rest[i - 1] = u
      BY <1>2, <3>2, <3>3
    <3> QED
      BY <3>4
  <2>2. ASSUME call[c].kind = "all", NEW i \in 1..Len(rest), rest[i] = Local
        PROVE  i = Len(rest)
    <3>1. i + 1 \in 1..Len(todo) /\ todo[i + 1] = Local
      BY <1>2, <2>2
    <3>2. i + 1 = Len(todo)
      BY <2>2, <3>1 DEF PowerInv, BatchOK, todo
    <3> QED
      BY <1>2, <3>2
  <2>3. ASSUME call[c].kind = "all", call'[c].result[Local] # "none"
        PROVE  rest = <<>>
    <3>1. s = Local
      BY <1>5, <2>3, OrderIs DEF PowerInv, BatchOK, todo
    <3>2. \A i \in 1..Len(todo) : todo[i] = Local => i = Len(todo)
      BY <2>3 DEF PowerInv, BatchOK, todo
    <3>3. 1 \in 1..Len(todo) /\ todo[1] = Local
      BY <1>2, <3>1
    <3>4. 1 = Len(todo)
      BY <3>2, <3>3
    <3>5. Len(rest) = Len(todo) - 1
      BY <1>2
    <3>6. Len(rest) = 0
      BY <3>4, <3>5
    <3> QED
      BY <1>2, <3>6, EmptySeq
  <2> SUFFICES ASSUME NEW b \in Calls, call'[b].kind = "all"
               PROVE  /\ \A u \in Units : call'[b].result[u] = "none" =>
                            \E i \in 1..Len(call'[b].todo) : call'[b].todo[i] = u
                      /\ \A i \in 1..Len(call'[b].todo) : call'[b].todo[i] = Local => i = Len(call'[b].todo)
                      /\ call'[b].result[Local] # "none" => call'[b].todo = <<>>
    BY DEF BatchOK
  <2>4. CASE b = c
    <3>1. call'[b].todo = rest /\ call'[b].result = call'[c].result /\ call[c].kind = "all"
      BY <1>4, <2>4
    <3> QED
      BY <2>1, <2>2, <2>3, <3>1, ZenonT(30)
  <2>5. CASE b # c
    <3>1. call'[b] = call[b]
      BY <1>4, <2>5
    <3> QED
      BY <3>1, OneCallStays
  <2> QED
    BY <2>4, <2>5
<1> QED
  BY <1>6, <1>7, <1>8, <1>9 DEF NodesGo, PowerInv

\* A step that leaves the hosts alone.
LEMMA HostsStay ==
  ASSUME PowerInv, UNCHANGED <<host, cuts, told, cut>>, seen' \in [Units -> BOOLEAN], detected' \subseteq Units,
         server' \in {"up", "closing", "draining", "down"}, immediate' \in BOOLEAN
  PROVE  NodesGo
<1>1. host' = host /\ cuts' = cuts /\ told' = told /\ cut' = cut
  OBVIOUS
<1>2. PowerTypes'
  BY <1>1 DEF PowerInv, PowerTypes
<1>3. HaltsAreTold'
  BY <1>1 DEF PowerInv, HaltsAreTold
<1> QED
  BY <1>1, <1>2, <1>3 DEF NodesGo

\* A step of one host: it goes down only when it was told to, and one without
\* the helper does not.
LEMMA OneHostGoes ==
  ASSUME PowerInv, UNCHANGED <<seen, detected>>, NEW s \in Units,
         NEW h \in {"on", "halting", "off", "booting"}, host' = [host EXCEPT ![s] = h],
         server' \in {"up", "closing", "draining", "down"}, immediate' \in BOOLEAN, cuts' \in 0..MaxCuts,
         told \subseteq told', told' \subseteq Units, cut \subseteq cut', cut' \subseteq Units,
         h = "halting" => s \in told' /\ s \notin Helpless,
         host[s] = "on" => s \notin Helpless
  PROVE  NodesGo
<1>1. seen' = seen /\ detected' = detected
  OBVIOUS
<1>2. /\ host' \in [Units -> {"on", "halting", "off", "booting"}]
      /\ host'[s] = h /\ \A u \in Units \ {s} : host'[u] = host[u]
  BY DEF PowerInv, PowerTypes
<1>3. PowerTypes'
  BY <1>1, <1>2 DEF PowerInv, PowerTypes
<1>4. HaltsAreTold'
  BY <1>2 DEF PowerInv, HaltsAreTold
<1>5. \A u \in Units : u \in Helpless /\ host[u] = "on" => host'[u] = "on"
  BY <1>2
<1> QED
  BY <1>3, <1>4, <1>5 DEF NodesGo

\* The process goes on, or ends with its requests.
LEMMA ProcessGoes ==
  ASSUME PowerInv, NEW next \in {"up", "closing", "draining", "down"}, Process(next)
  PROVE  /\ server' \in {"up", "closing", "draining", "down"} /\ immediate' \in BOOLEAN
         /\ CallTypes' /\ \A c \in Calls : call'[c] = call[c] \/ call'[c] = CallIsOver
<1>1. server' \in {"up", "closing", "draining", "down"}
  BY DEF Process
<1>2. CASE next = "down"
  <2>1. call' = [c \in Calls |-> IF call[c].kind = "none" THEN call[c] ELSE CallIsOver] /\ immediate' = FALSE
    BY <1>2 DEF Process
  <2>2. CallTypes'
    BY <2>1, CallsAre DEF PowerInv, CallTypes
  <2> QED
    BY <1>1, <2>1, <2>2
<1>3. CASE next # "down"
  <2>1. call' = call /\ immediate' = immediate
    BY <1>3 DEF Process
  <2> QED
    BY <1>1, <2>1 DEF PowerInv, CallTypes, PowerTypes
<1> QED
  BY <1>2, <1>3

\* A new request.
LEMMA AskStep ==
  ASSUME PowerInv, NEW c \in Calls, NEW kind \in {"all", "one", "wake"}, NEW todo \in Seq(Units), Asks(c, kind, todo),
         kind = "all" => /\ \A s \in Units : \E i \in 1..Len(todo) : todo[i] = s
                         /\ \A i \in 1..Len(todo) : todo[i] = Local => i = Len(todo)
  PROVE  PowerInv'
<1>1. UNCHANGED <<host, cuts, told, cut>> /\ seen' = seen /\ detected' = detected /\ server' = server
      /\ immediate' = immediate /\ call' = [call EXCEPT ![c] = [NotAsked EXCEPT !.kind = kind, !.todo = todo]]
  BY DEF Asks
<1>2. NodesGo
  BY <1>1, HostsStay DEF PowerInv, PowerTypes
<1> DEFINE new == [NotAsked EXCEPT !.kind = kind, !.todo = todo]
<1>3. new \in CallRecord /\ new.kind = kind /\ new.todo = todo /\ new.ssh = "none" /\ new.result = NoResults
  BY CallsAre DEF CallRecord
<1>4. call' = [call EXCEPT ![c] = new]
  BY <1>1
<1> HIDE DEF new
<1>5. call'[c] = new /\ CallTypes' /\ \A b \in Calls \ {c} : call'[b] = call[b]
  BY <1>3, <1>4 DEF PowerInv, CallTypes
<1>6. CommandsOK'
  <2> SUFFICES ASSUME NEW b \in Calls, call'[b].ssh # "none"
               PROVE  /\ call'[b].kind \in {"all", "one"} /\ call'[b].todo # <<>>
                      /\ call'[b].ssh = "started" => Head(call'[b].todo) \in told'
                      /\ call'[b].ssh = "refused" =>
                            Head(call'[b].todo) \in Helpless /\ host'[Head(call'[b].todo)] = "on"
    BY DEF CommandsOK
  <2>1. call'[b] = call[b]
    BY <1>3, <1>5
  <2> QED
    BY <1>2, <2>1, OneCallStays
<1>7. BatchOK'
  <2> SUFFICES ASSUME NEW b \in Calls, call'[b].kind = "all"
               PROVE  /\ \A u \in Units : call'[b].result[u] = "none" =>
                            \E i \in 1..Len(call'[b].todo) : call'[b].todo[i] = u
                      /\ \A i \in 1..Len(call'[b].todo) : call'[b].todo[i] = Local => i = Len(call'[b].todo)
                      /\ call'[b].result[Local] # "none" => call'[b].todo = <<>>
    BY DEF BatchOK
  <2>1. CASE b = c
    BY <1>3, <1>5, <2>1, CallsAre, OrderIs, ZenonT(30)
  <2>2. CASE b # c
    <3>1. call'[b] = call[b]
      BY <1>5, <2>2
    <3> QED
      BY <1>2, <3>1, OneCallStays
  <2> QED
    BY <2>1, <2>2
<1>8. OkWasTold'
  <2> SUFFICES ASSUME NEW b \in Calls, call'[b].kind \in {"all", "one"}
               PROVE  \A u \in Units \ {Local} : call'[b].result[u] = "ok" => u \in told' \cup cut'
    BY DEF OkWasTold
  <2>1. CASE b = c
    BY <1>3, <1>5, <2>1, CallsAre
  <2>2. CASE b # c
    <3>1. call'[b] = call[b]
      BY <1>5, <2>2
    <3> QED
      BY <1>2, <3>1, OneCallStays
  <2> QED
    BY <2>1, <2>2
<1> QED
  BY <1>2, <1>5, <1>6, <1>7, <1>8 DEF NodesGo, PowerInv

\* A command is sent, or arrives.
LEMMA CommandStep ==
  ASSUME PowerInv, NodesGo, NEW c \in Calls, NEW h \in {"sent", "started", "refused"},
         call' = [call EXCEPT ![c].ssh = h], call[c].kind \in {"all", "one"}, call[c].todo # <<>>,
         h = "started" => Head(call[c].todo) \in told',
         h = "refused" => Head(call[c].todo) \in Helpless /\ host'[Head(call[c].todo)] = "on"
  PROVE  PowerInv'
<1>1. /\ call'[c].ssh = h /\ call'[c].kind = call[c].kind /\ call'[c].todo = call[c].todo
      /\ call'[c].result = call[c].result /\ call'[c] \in CallRecord
      /\ \A b \in Calls \ {c} : call'[b] = call[b]
  BY DEF PowerInv, CallTypes, CallRecord
<1>2. CallTypes'
  BY <1>1 DEF PowerInv, CallTypes
<1>3. CommandsOK'
  <2> SUFFICES ASSUME NEW b \in Calls, call'[b].ssh # "none"
               PROVE  /\ call'[b].kind \in {"all", "one"} /\ call'[b].todo # <<>>
                      /\ call'[b].ssh = "started" => Head(call'[b].todo) \in told'
                      /\ call'[b].ssh = "refused" =>
                            Head(call'[b].todo) \in Helpless /\ host'[Head(call'[b].todo)] = "on"
    BY DEF CommandsOK
  <2>1. CASE b = c
    BY <1>1, <2>1
  <2>2. CASE b # c
    <3>1. call'[b] = call[b]
      BY <1>1, <2>2
    <3> QED
      BY <3>1, OneCallStays
  <2> QED
    BY <2>1, <2>2
<1>4. BatchOK'
  <2> SUFFICES ASSUME NEW b \in Calls, call'[b].kind = "all"
               PROVE  /\ \A u \in Units : call'[b].result[u] = "none" =>
                            \E i \in 1..Len(call'[b].todo) : call'[b].todo[i] = u
                      /\ \A i \in 1..Len(call'[b].todo) : call'[b].todo[i] = Local => i = Len(call'[b].todo)
                      /\ call'[b].result[Local] # "none" => call'[b].todo = <<>>
    BY DEF BatchOK
  <2>1. call'[b].kind = call[b].kind /\ call'[b].todo = call[b].todo /\ call'[b].result = call[b].result
    BY <1>1
  <2> QED
    BY <2>1 DEF PowerInv, BatchOK
<1>5. OkWasTold'
  <2> SUFFICES ASSUME NEW b \in Calls, call'[b].kind \in {"all", "one"}
               PROVE  \A u \in Units \ {Local} : call'[b].result[u] = "ok" => u \in told' \cup cut'
    BY DEF OkWasTold
  <2>1. call'[b].kind = call[b].kind /\ call'[b].result = call[b].result
    BY <1>1
  <2> QED
    BY <2>1 DEF PowerInv, OkWasTold, NodesGo
<1> QED
  BY <1>2, <1>3, <1>4, <1>5 DEF NodesGo, PowerInv

LEMMA WatchedInv == ASSUME PowerInv, NEW s \in Units, Watched(s) PROVE PowerInv'
<1>1. /\ UNCHANGED <<host, cuts, told, cut>> /\ server' = server /\ immediate' = immediate /\ call' = call
      /\ seen' = [seen EXCEPT ![s] = Reachable(s)]
      /\ detected' = IF Reachable(s) THEN detected \cup ({s} \ Overridden) ELSE detected
  BY DEF Watched
<1>2. Reachable(s) \in BOOLEAN
  BY DEF Reachable
<1>3. seen' \in [Units -> BOOLEAN] /\ detected' \subseteq Units
  BY <1>1, <1>2, Zenon DEF PowerInv, PowerTypes
<1>4. NodesGo
  BY <1>1, <1>3, HostsStay DEF PowerInv, PowerTypes
<1> QED
  BY <1>1, <1>4, NodesStep DEF PowerInv, CallTypes

LEMMA HaltsInv == ASSUME PowerInv, NEW s \in Units, Halts(s) PROVE PowerInv'
<1>1. /\ host[s] = "halting" /\ host' = [host EXCEPT ![s] = "off"]
      /\ IF s = Local THEN Process("down") ELSE UNCHANGED <<server, call, immediate>>
      /\ UNCHANGED <<seen, detected>> /\ cuts' = cuts /\ told' = told /\ cut' = cut
  BY DEF Halts
<1>2. /\ server' \in {"up", "closing", "draining", "down"} /\ immediate' \in BOOLEAN
      /\ CallTypes' /\ \A c \in Calls : call'[c] = call[c] \/ call'[c] = CallIsOver
  <2>1. CASE s = Local
    BY <1>1, <2>1, ProcessGoes
  <2>2. CASE s # Local
    BY <1>1, <2>2 DEF PowerInv, PowerTypes, CallTypes
  <2> QED
    BY <2>1, <2>2
<1>3. NodesGo
  BY <1>1, <1>2, OneHostGoes DEF PowerInv, PowerTypes
<1> QED
  BY <1>2, <1>3, NodesStep

LEMMA BootsInv == ASSUME PowerInv, NEW s \in Units, Boots(s) PROVE PowerInv'
<1>1. /\ host[s] = "booting" /\ host' = [host EXCEPT ![s] = "on"] /\ UNCHANGED <<seen, detected>>
      /\ server' = server /\ call' = call /\ immediate' = immediate
      /\ cuts' = cuts /\ told' = told /\ cut' = cut
  BY DEF Boots
<1>2. NodesGo
  BY <1>1, OneHostGoes DEF PowerInv, PowerTypes
<1> QED
  BY <1>1, <1>2, NodesStep DEF PowerInv, CallTypes

LEMMA ProcessInv ==
  ASSUME PowerInv, NEW next \in {"up", "closing", "draining", "down"}, Process(next),
         UNCHANGED <<host, seen, detected, cuts, told, cut>>
  PROVE  PowerInv'
<1>1. NodesGo
  BY ProcessGoes, HostsStay DEF PowerInv, PowerTypes
<1> QED
  BY <1>1, ProcessGoes, NodesStep

LEMMA LocalShutdownInv == ASSUME PowerInv, LocalShutdown PROVE PowerInv'
<1>1. /\ immediate' = FALSE /\ seen' = seen /\ detected' = detected /\ server' = server /\ call' = call
      /\ cuts' = cuts /\ cut' = cut
  BY DEF LocalShutdown
<1>2. NodesGo
  <2>1. CASE Local \notin Helpless /\ host[Local] = "on"
    <3>1. host' = [host EXCEPT ![Local] = "halting"] /\ told' = told \cup {Local}
      BY <2>1 DEF LocalShutdown
    <3>2. told \subseteq told' /\ told' \subseteq Units /\ Local \in told'
      BY <3>1, OrderIs DEF PowerInv, PowerTypes
    <3> QED
      BY <1>1, <2>1, <3>1, <3>2, OrderIs, OneHostGoes DEF PowerInv, PowerTypes
  <2>2. CASE ~(Local \notin Helpless /\ host[Local] = "on")
    <3>1. host' = host /\ told' = told
      BY <2>2 DEF LocalShutdown
    <3> QED
      BY <1>1, <3>1, HostsStay DEF PowerInv, PowerTypes
  <2> QED
    BY <2>1, <2>2
<1> QED
  BY <1>1, <1>2, NodesStep DEF PowerInv, CallTypes

LEMMA AsksInv ==
  ASSUME PowerInv, NEW c \in Calls,
         \/ ShutdownAll(c) \/ WakeAll(c)
         \/ \E s \in Units : ShutdownOne(c, s) \/ WakeOne(c, s)
  PROVE  PowerInv'
<1>1. CASE ShutdownAll(c)
  BY <1>1, OrderIs, AskStep DEF ShutdownAll
<1>2. CASE WakeAll(c)
  BY <1>2, OrderIs, AskStep DEF WakeAll
<1>3. ASSUME NEW s \in Units, ShutdownOne(c, s) \/ WakeOne(c, s) PROVE PowerInv'
  <2>1. <<s>> \in Seq(Units)
    OBVIOUS
  <2>2. CASE ShutdownOne(c, s)
    <3>1. PICK todo \in Seq(Units) : Asks(c, "one", todo)
      BY <2>1, <2>2 DEF ShutdownOne
    <3> QED
      BY <3>1, AskStep
  <2>3. CASE WakeOne(c, s)
    <3>1. PICK todo \in Seq(Units) : Asks(c, "wake", todo)
      BY <2>1, <2>3 DEF WakeOne
    <3> QED
      BY <3>1, AskStep
  <2> QED
    BY <1>3, <2>2, <2>3
<1> QED
  BY <1>1, <1>2, <1>3

\* Who is due is a node, and one that is commanded is due.
LEMMA DueIs ==
  ASSUME PowerInv, NEW c \in Calls
  PROVE  /\ call[c].todo # <<>> => Head(call[c].todo) \in Units
         /\ call[c].ssh # "none" => call[c].todo # <<>> /\ call[c].kind \in {"all", "one"}
<1>1. call[c].todo \in Seq(Units)
  BY DEF PowerInv, CallTypes, CallRecord
<1> QED
  BY <1>1, HeadTailProperties DEF PowerInv, CommandsOK

LEMMA HandlesHereInv == ASSUME PowerInv, NEW c \in Calls, HandlesHere(c) PROVE PowerInv'
<1> DEFINE s == Head(call[c].todo)
<1>1. /\ call[c].kind \in {"all", "one"} /\ call[c].todo # <<>>
      /\ UNCHANGED <<host, cuts, told, cut>> /\ seen' = seen /\ detected' = detected /\ server' = server
      /\ \/ call' = Handled(c, s, "skipped") /\ immediate' = immediate
         \/ s = Local /\ call' = Handled(c, s, "ok") /\ immediate' = TRUE
         \/ call' = [call EXCEPT ![c].ssh = "sent"] /\ immediate' = immediate
  BY DEF HandlesHere
<1>2. NodesGo
  BY <1>1, HostsStay DEF PowerInv, PowerTypes
<1>3. CASE call' = Handled(c, s, "skipped")
  BY <1>1, <1>2, <1>3, HandledStep DEF Results
<1>4. CASE s = Local /\ call' = Handled(c, s, "ok")
  BY <1>1, <1>2, <1>4, HandledStep DEF Results
<1>5. CASE call' = [call EXCEPT ![c].ssh = "sent"]
  BY <1>1, <1>2, <1>5, CommandStep
<1> QED
  BY <1>1, <1>3, <1>4, <1>5

LEMMA CommandRunsInv == ASSUME PowerInv, NEW c \in Calls, CommandRuns(c) PROVE PowerInv'
<1> DEFINE s == Head(call[c].todo)
<1>1. /\ call[c].ssh = "sent" /\ host[s] = "on"
      /\ call' = [call EXCEPT ![c].ssh = IF MayRun(s) THEN "started" ELSE "refused"]
      /\ seen' = seen /\ detected' = detected /\ server' = server /\ immediate' = immediate
      /\ cuts' = cuts /\ cut' = cut
  BY DEF CommandRuns
<1>2. s \in Units /\ call[c].todo # <<>> /\ call[c].kind \in {"all", "one"}
  BY <1>1, DueIs
<1>3. CASE s \in Helpless
  <2>1. host' = host /\ told' = told
    BY <1>3 DEF CommandRuns
  <2>2. call' = [call EXCEPT ![c].ssh = "refused"]
    BY <1>1, <1>3 DEF MayRun
  <2>3. NodesGo
    BY <1>1, <2>1, HostsStay DEF PowerInv, PowerTypes
  <2> QED
    BY <1>1, <1>2, <1>3, <2>1, <2>2, <2>3, CommandStep
<1>4. CASE s \notin Helpless
  <2>1. host' = [host EXCEPT ![s] = "halting"] /\ told' = told \cup {s}
    BY <1>4 DEF CommandRuns
  <2>2. call' = [call EXCEPT ![c].ssh = "started"]
    BY <1>1, <1>4 DEF MayRun
  <2>3. told \subseteq told' /\ told' \subseteq Units /\ s \in told'
    BY <1>2, <2>1 DEF PowerInv, PowerTypes
  <2>4. NodesGo
    <3> HIDE DEF s
    <3> QED
      BY <1>1, <1>2, <1>4, <2>1, <2>3, OneHostGoes DEF PowerInv, PowerTypes
  <2> QED
    BY <1>1, <1>2, <2>2, <2>3, <2>4, CommandStep
<1> QED
  BY <1>3, <1>4

LEMMA CommandReturnsInv == ASSUME PowerInv, NEW c \in Calls, CommandReturns(c) PROVE PowerInv'
<1> DEFINE s == Head(call[c].todo)
<1>1. /\ call[c].ssh \in {"started", "refused"}
      /\ call' = Handled(c, s, IF call[c].ssh = "started" THEN "ok" ELSE "failed")
      /\ UNCHANGED <<host, cuts, told, cut>>
      /\ seen' = seen /\ detected' = detected /\ server' = server /\ immediate' = immediate
  BY DEF CommandReturns
<1>2. call[c].todo # <<>> /\ (call[c].ssh = "started" => s \in told)
  BY <1>1 DEF PowerInv, CommandsOK
<1>3. NodesGo
  BY <1>1, HostsStay DEF PowerInv, PowerTypes
<1>4. CASE call[c].ssh = "started"
  BY <1>1, <1>2, <1>3, <1>4, HandledStep DEF Results
<1>5. CASE call[c].ssh = "refused"
  BY <1>1, <1>2, <1>3, <1>5, HandledStep DEF Results
<1> QED
  BY <1>1, <1>4, <1>5

\* A session that is reset: the node was told to go down, or is one whose
\* connection broke.
LEMMA CommandFailsInv ==
  ASSUME PowerInv, NEW c \in Calls, NEW how \in {"reset", "timeout"}, CommandFails(c, how)
  PROVE  PowerInv'
<1> DEFINE s == Head(call[c].todo)
<1>1. /\ call[c].ssh # "none" /\ host' = host /\ told' = told
      /\ seen' = seen /\ detected' = detected /\ server' = server /\ immediate' = immediate
      /\ \/ host[s] # "on" /\ cuts' = cuts /\ cut' = cut
         \/ /\ host[s] = "on" /\ cuts < MaxCuts /\ cuts' = cuts + 1
            /\ cut' = IF how = "reset" THEN cut \cup {s} ELSE cut
      /\ (how = "reset" => Reachable(s) \/ call[c].ssh # "sent")
      /\ call' = Handled(c, s, IF how = "reset" THEN "ok" ELSE "failed")
  BY DEF CommandFails, Benign
<1>2. s \in Units /\ call[c].todo # <<>>
  BY <1>1, DueIs
<1> HIDE DEF s
<1>3. cut \subseteq cut' /\ cut' \subseteq Units
  BY <1>1, <1>2 DEF PowerInv, PowerTypes
<1>4. cuts' \in 0..MaxCuts
  BY <1>1, PowerAssumption DEF PowerInv, PowerTypes
<1>5. NodesGo
  <2>1. PowerTypes'
    BY <1>1, <1>3, <1>4 DEF PowerInv, PowerTypes
  <2>2. HaltsAreTold'
    BY <1>1 DEF PowerInv, HaltsAreTold
  <2> QED
    BY <1>1, <1>3, <2>1, <2>2 DEF NodesGo
<1>6. how = "reset" => s \in told' \cup cut'
  <2>1. CASE how = "reset" /\ host[s] = "on"
    BY <1>1, <2>1
  <2>2. CASE how = "reset" /\ host[s] = "halting"
    BY <1>1, <1>2, <2>2 DEF PowerInv, HaltsAreTold
  <2>3. CASE how = "reset" /\ host[s] # "on" /\ host[s] # "halting"
    <3>1. call[c].ssh \in {"started", "refused"}
      BY <1>1, <2>3 DEF Reachable, PowerInv, CallTypes, CallRecord
    <3> QED
      BY <1>1, <2>3, <3>1 DEF PowerInv, CommandsOK, s
  <2> QED
    BY <2>1, <2>2, <2>3
<1>7. CASE how = "reset"
  BY <1>1, <1>2, <1>5, <1>6, <1>7, HandledStep DEF Results, s
<1>8. CASE how # "reset"
  BY <1>1, <1>2, <1>5, <1>8, HandledStep DEF Results, s
<1> QED
  BY <1>7, <1>8

LEMMA WakesInv == ASSUME PowerInv, NEW c \in Calls, Wakes(c) PROVE PowerInv'
<1> DEFINE s == Head(call[c].todo)
<1>1. /\ call[c].kind = "wake" /\ call[c].todo # <<>>
      /\ call' = Handled(c, s, IF Addressed(s) THEN "ok" ELSE "failed")
      /\ \/ host[s] = "off" /\ host' = [host EXCEPT ![s] = "booting"] /\ cuts' = cuts
         \/ cuts < MaxCuts /\ cuts' = cuts + 1 /\ host' = host
         \/ host' = host /\ cuts' = cuts
      /\ UNCHANGED <<seen, detected>> /\ server' = server /\ immediate' = immediate
      /\ told' = told /\ cut' = cut
  BY DEF Wakes
<1>2. s \in Units
  BY <1>1, DueIs
<1> HIDE DEF s
<1>3. cuts' \in 0..MaxCuts
  BY <1>1, PowerAssumption DEF PowerInv, PowerTypes
<1>4. NodesGo
  <2>1. CASE host' = host
    <3>1. PowerTypes'
      BY <1>1, <1>3, <2>1 DEF PowerInv, PowerTypes
    <3>2. HaltsAreTold'
      BY <1>1, <2>1 DEF PowerInv, HaltsAreTold
    <3> QED
      BY <1>1, <2>1, <3>1, <3>2 DEF NodesGo
  <2>2. CASE host[s] = "off" /\ host' = [host EXCEPT ![s] = "booting"]
    BY <1>1, <1>2, <1>3, <2>2, OneHostGoes DEF PowerInv, PowerTypes
  <2> QED
    BY <1>1, <2>1, <2>2
<1>5. PICK r \in Results \ {"none"} : call' = Handled(c, s, r)
  BY <1>1 DEF Results
<1> QED
  BY <1>1, <1>4, <1>5, HandledStep DEF s

LEMMA AnswersInv == ASSUME PowerInv, NEW c \in Calls, Answers(c) PROVE PowerInv'
<1>1. /\ call' = [call EXCEPT ![c] = CallIsOver] /\ UNCHANGED <<host, cuts, told, cut>>
      /\ seen' = seen /\ detected' = detected /\ server' = server /\ immediate' = immediate
  BY DEF Answers
<1>2. NodesGo
  BY <1>1, HostsStay DEF PowerInv, PowerTypes
<1>3. CallTypes' /\ \A b \in Calls : call'[b] = call[b] \/ call'[b] = CallIsOver
  BY <1>1, CallsAre DEF PowerInv, CallTypes
<1> QED
  BY <1>2, <1>3, NodesStep

LEMMA PowerNextInv == ASSUME PowerInv, [PowerNext]_powerVars PROVE PowerInv'
<1>1. ASSUME NEW s \in Units, Watched(s) \/ Halts(s) \/ Boots(s) PROVE PowerInv'
  BY <1>1, WatchedInv, HaltsInv, BootsInv
<1>2. ASSUME NEW c \in Calls,
             \/ ShutdownAll(c) \/ WakeAll(c) \/ HandlesHere(c)
             \/ CommandRuns(c) \/ CommandReturns(c) \/ Wakes(c) \/ Answers(c)
             \/ \E s \in Units : ShutdownOne(c, s) \/ WakeOne(c, s)
             \/ \E how \in {"reset", "timeout"} : CommandFails(c, how)
      PROVE  PowerInv'
  <2>1. CASE ShutdownAll(c) \/ WakeAll(c) \/ \E s \in Units : ShutdownOne(c, s) \/ WakeOne(c, s)
    BY <2>1, AsksInv
  <2>2. CASE HandlesHere(c) \/ CommandRuns(c) \/ CommandReturns(c) \/ Wakes(c) \/ Answers(c)
    BY <2>2, HandlesHereInv, CommandRunsInv, CommandReturnsInv, WakesInv, AnswersInv
  <2>3. CASE \E how \in {"reset", "timeout"} : CommandFails(c, how)
    BY <2>3, CommandFailsInv
  <2> QED
    BY <1>2, <2>1, <2>2, <2>3
<1>3. CASE LocalShutdown
  BY <1>3, LocalShutdownInv
<1>4. CASE Signal \/ Closes \/ Exits
  BY <1>4, ProcessInv DEF Signal, Closes, Exits
<1>5. CASE UNCHANGED powerVars
  <2>1. /\ UNCHANGED <<host, cuts, told, cut>> /\ seen' = seen /\ detected' = detected
        /\ server' = server /\ immediate' = immediate /\ call' = call
    BY <1>5 DEF powerVars
  <2>2. NodesGo
    BY <2>1, HostsStay DEF PowerInv, PowerTypes
  <2> QED
    BY <2>1, <2>2, NodesStep DEF PowerInv, CallTypes
<1> QED
  BY <1>1, <1>2, <1>3, <1>4, <1>5 DEF PowerNext

LEMMA PowerHolds == PowerInv => PowerTypeOK /\ LocalLast /\ OkWasTold
<1> SUFFICES ASSUME PowerInv PROVE PowerTypeOK /\ LocalLast /\ OkWasTold
  OBVIOUS
<1>1. PowerTypeOK
  <2>1. \A c \in Calls :
          /\ call[c].kind \in {"none", "all", "one", "wake", "over"}
          /\ call[c].ssh \in {"none", "sent", "started", "refused"}
          /\ call[c].result \in [Units -> {"none", "ok", "failed", "skipped"}]
    BY DEF PowerInv, CallTypes, CallRecord, Results
  <2> QED
    BY <2>1 DEF PowerInv, PowerTypes, PowerTypeOK
<1>2. LocalLast
  <2> SUFFICES ASSUME NEW c \in Calls, call[c].kind = "all", call[c].result[Local] # "none", NEW s \in Units,
                      call[c].result[s] = "none"
               PROVE  FALSE
    BY DEF LocalLast
  <2>1. call[c].todo = <<>> /\ \E i \in 1..Len(call[c].todo) : call[c].todo[i] = s
    BY DEF PowerInv, BatchOK
  <2>2. Len(call[c].todo) = 0
    BY <2>1, EmptySeq
  <2> QED
    BY <2>1, <2>2
<1> QED
  BY <1>1, <1>2 DEF PowerInv

-----------------------------------------------------------------------------
(* The four, side by side *)

SparkInv == MonitorInv /\ ClockInv /\ RepoInv /\ PowerInv

\* A step is one of one part, and the others rest.
LEMMA EachSteps ==
  ASSUME [Next]_vars
  PROVE  /\ [MonitorNext]_monVars /\ [ClockNext]_clockVars
         /\ [HermesNext]_hermesVars /\ [PowerNext]_powerVars
<1>1. CASE OnMonitor(MonitorNext)
  BY <1>1 DEF OnMonitor
<1>2. CASE OnClocks(ClockNext)
  BY <1>2 DEF OnClocks
<1>3. CASE OnRepo(HermesNext)
  BY <1>3 DEF OnRepo
<1>4. CASE OnPower(PowerNext)
  BY <1>4 DEF OnPower
<1>5. CASE UNCHANGED vars
  BY <1>5 DEF vars
<1> QED
  BY <1>1, <1>2, <1>3, <1>4, <1>5 DEF Next

\* The invariants of the monitor of a spark (SparkMonitor.js), of its clocks
\* (the /clocks routes), of its checkout of Hermes (the hermes routes and
\* probe) and of the power of the fleet (shutdown.js, wol.js) are inductive.
THEOREM SparkInvariance == Spec => []SparkInv
<1>1. Init => SparkInv
  <2> SUFFICES ASSUME Init PROVE SparkInv
    OBVIOUS
  <2>1. MonitorInit /\ ClockInit /\ HermesInit /\ PowerInit
    BY DEF Init
  <2> QED
    BY <2>1, MonitorInitInv, ClockInitInv, HermesInitInv, PowerInitInv DEF SparkInv
<1>2. SparkInv /\ [Next]_vars => SparkInv'
  BY EachSteps, MonitorNextInv, ClockNextInv, RepoNextInv, PowerNextInv DEF SparkInv
<1> QED
  BY <1>1, <1>2, PTL DEF Spec

\* Type correctness of the four components of a spark: the generations of the
\* monitor and its polls, the file of clocks, the row of Hermes, the requests
\* about power and their results.
THEOREM SparkTypesAreOK == Spec => []SparkTypesOK
<1>1. SparkInv => SparkTypesOK
  BY MonitorTypesHold, ClockHolds, RepoHolds, PowerHolds DEF SparkInv, SparkTypesOK
<1> QED
  BY <1>1, SparkInvariance, PTL

\* What is shown of a spark is of now, whatever returns late: no poll of
\* another generation commits or unlocks, the transport follows the
\* connection, the clocks of the node are those of the file, a fetch that
\* failed announces no update; a batch shuts its own host down last, and who
\* is reported as going down was told to.
THEOREM SparkAgreement == Spec => []SparkAgrees
<1>1. SparkInv => SparkAgrees
  BY ClockHolds, RepoHolds, PowerHolds DEF SparkInv, SparkAgrees, MonitorInv
<1> QED
  BY <1>1, SparkInvariance, PTL

\* A spark that comes online has its clocks applied again, by a check or by a
\* connect (onOnlineTransition), and an update of Hermes that is called a
\* success leaves a Hermes that starts, unless a command nobody awaits broke it.
THEOREM News == Spec => NewsIsTrue
<1>1. SparkInv /\ [Next]_vars => [~online /\ online' => fired']_monVars
  BY EachSteps, OnlineFires DEF SparkInv
<1>2. SparkInv /\ [Next]_vars =>
        [row'.status = "success" /\ row.status # "success" => venv = "ok" \/ hurt]_hermesVars
  BY EachSteps, SuccessIsSound DEF SparkInv
<1> QED
  BY <1>1, <1>2, SparkInvariance, PTL DEF Spec, NewsIsTrue, ComingOnlineFires, SuccessStarts
=============================================================================
