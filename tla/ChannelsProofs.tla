--------------------------- MODULE ChannelsProofs ---------------------------
(***************************************************************************)
(* Proofs about the channels of MCChannels, for any sockets, requests,     *)
(* pids and bounds.                                                        *)
(***************************************************************************)
EXTENDS MCChannels, Sums, SequenceTheorems

-----------------------------------------------------------------------------
(* ShowcaseView: whatever the delays and the losses, the page shows the     *)
(* beginning of its session's text, each piece once, and the history of a   *)
(* session is not revised.                                                  *)

ViewSpec == ViewInit /\ [][ViewNext]_viewVars /\ ViewFairness

-----------------------------------------------------------------------------
(* The inductive invariant *)

Statuses == Final \union {"none", "running"}

SessionRecord ==
    [status : Statuses, flow : {"none", "streaming", "over"}, text : 0..MaxText, sent : 0..MaxText]

Messages ==
    [kind : {"start", "poll", "stop"}, at : {"server", "page"}, sid : Sessions \union {NoSession},
     first : BOOLEAN, whole : BOOLEAN, from : 0..MaxText, to : 0..MaxText,
     status : Statuses \union {"refused"}]

SessionsOK ==
    /\ session \in [Sessions -> SessionRecord]
    /\ \A s \in Sessions : session[s].sent <= session[s].text
    /\ archive \in [Sessions -> Final \union {"none"}]
    /\ activeSession \in Sessions \union {NoSession}

PageOK ==
    /\ sid \in Sessions \union {NoSession} /\ timer \in Sessions \union {NoSession}
    /\ shown \in Seq(Sessions \X (1..MaxText)) /\ shownStatus \in Statuses

PageFlagsOK ==
    /\ mounted \in BOOLEAN /\ launching \in BOOLEAN /\ since \in BOOLEAN
    /\ overtaken \in BOOLEAN /\ leaked \in BOOLEAN

WireOK == wire \subseteq Messages

WireBounded == IsFiniteSet(wire) /\ Cardinality(wire) <= MaxWire

\* A session of which the page knows was started.
KnownIsStarted ==
    /\ sid # NoSession => session[sid].status # "none"
    /\ timer # NoSession => session[timer].status # "none"

\* What a message says of its session; a session that has ended grows no more.
MessageIsTrue(m) ==
    /\ m.kind = "start" => m.first
    /\ m.kind = "stop" => ~m.first
    /\ m.kind # "start" => m.sid # NoSession
    /\ m.sid # NoSession => session[m.sid].status # "none"
    /\ m.kind = "start" => (m.at = "page" /\ m.status # "refused" <=> m.sid # NoSession)
    /\ m.kind = "start" => m.status \notin Final
    /\ m.kind # "start" => m.status # "refused"
    /\ m.at = "page" /\ m.status \in Final =>
          session[m.sid].status \in Final /\ m.to = session[m.sid].text

MessagesAreTrue == \A m \in wire : MessageIsTrue(m)

\* What is in the history has ended like that.
ArchiveIsTrue == \A s \in Sessions :
    archive[s] # "none" => archive[s] = session[s].status

\* A run that the page has asked for and that nobody polls yet is one, and
\* until it is answered the session is nobody's.
OneLaunch == mounted =>
    /\ \A m, n \in wire : m.first /\ n.first => m = n
    /\ (\E m \in wire : m.first) <=> launching
    /\ \A m, n \in wire : m.kind = "start" /\ m.sid # NoSession /\ n # m => n.sid # m.sid
    /\ \A m \in wire : m.kind = "start" /\ m.sid # NoSession => m.sid # sid /\ m.sid # timer

OnTime == mounted /\ ~overtaken

Mine == {m \in wire : m.kind # "start" /\ m.sid = sid}

\* While a run is launched, the page is empty; its first poll is alone.
Launch == OnTime /\ launching =>
    /\ shown = <<>> /\ ~since
    /\ (\E m \in wire : m.kind = "start") => shownStatus # "running"
    /\ \A m \in wire : m.kind # "start" /\ m.first =>
          /\ m.sid = sid /\ m.kind = "poll" /\ m.whole /\ Mine = {m} /\ timer # sid
          /\ shownStatus = "running"
          /\ m.at = "page" => m.to = session[sid].sent

\* Who asks for the text of the page's session: one poll, or the stop, or the
\* timer will; a poll continues where the page is.
Follows == OnTime /\ ~launching =>
    /\ shown = Pieces(sid, 0, Len(shown))
    /\ sid # NoSession => since
    /\ \A m, n \in Mine : m = n
    /\ timer = sid /\ sid # NoSession => Mine = {} /\ session[sid].sent = Len(shown)
    /\ \A m \in Mine :
          /\ m.kind = "poll" => ~m.whole
          /\ m.kind = "poll" /\ m.at = "server" => session[sid].sent = Len(shown)
          /\ m.kind = "poll" /\ m.at = "page" => m.from = Len(shown) /\ m.to = session[sid].sent /\ m.from <= m.to
          /\ m.kind = "stop" /\ m.at = "page" => m.whole /\ m.status \in Final

\* A page that shows the end of its session has all of it.
EndIsWhole == OnTime /\ ~launching /\ shownStatus \in Final =>
    /\ sid # NoSession /\ timer # sid /\ Mine = {}
    /\ session[sid].status \in Final /\ Len(shown) = session[sid].text

ViewInv ==
    /\ SessionsOK /\ PageOK /\ PageFlagsOK /\ WireOK /\ WireBounded /\ KnownIsStarted
    /\ MessagesAreTrue /\ ArchiveIsTrue /\ OneLaunch
    /\ Launch /\ Follows /\ EndIsWhole

-----------------------------------------------------------------------------
(* Pieces of a text *)

LEMMA PiecesAre ==
  ASSUME NEW s \in Sessions, NEW i \in 0..MaxText, NEW j \in 0..MaxText
  PROVE  /\ Pieces(s, i, j) \in Seq(Sessions \X (1..MaxText))
         /\ i <= j => Len(Pieces(s, i, j)) = j - i
<1> USE ViewAssumption
<1> DEFINE n == IF i <= j THEN j - i ELSE 0
<1>1. n \in Nat /\ 1..n = 1..(j - i)
  OBVIOUS
<1>2. \A k \in 1..n : i + k \in 1..MaxText
  OBVIOUS
<1> HIDE DEF n
<1>3. Pieces(s, i, j) = [k \in 1..n |-> <<s, i + k>>]
  BY <1>1 DEF Pieces
<1>4. [k \in 1..n |-> <<s, i + k>>] \in [1..n -> Sessions \X (1..MaxText)]
  BY <1>2
<1>5. Pieces(s, i, j) \in Seq(Sessions \X (1..MaxText)) /\ Len(Pieces(s, i, j)) = n
  BY <1>1, <1>3, <1>4, LenProperties, IsASeq
<1> QED
  BY <1>5 DEF n

\* Pieces that continue where a text is make it longer.
LEMMA PiecesJoin ==
  ASSUME NEW s \in Sessions, NEW i \in 0..MaxText, NEW j \in 0..MaxText, i <= j
  PROVE  Pieces(s, 0, i) \o Pieces(s, i, j) = Pieces(s, 0, j)
<1> USE ViewAssumption
<1>1. 0 \in 0..MaxText
  OBVIOUS
<1> DEFINE S == Sessions \X (1..MaxText)
<1>2. /\ Pieces(s, 0, i) \in Seq(S) /\ Len(Pieces(s, 0, i)) = i
      /\ Pieces(s, i, j) \in Seq(S) /\ Len(Pieces(s, i, j)) = j - i
      /\ Pieces(s, 0, j) \in Seq(S) /\ Len(Pieces(s, 0, j)) = j
  <2>1. 0 <= i /\ 0 <= j /\ i - 0 = i /\ j - 0 = j
    OBVIOUS
  <2>2. Pieces(s, 0, i) \in Seq(S) /\ Len(Pieces(s, 0, i)) = i - 0
    BY <1>1, <2>1, PiecesAre
  <2>3. Pieces(s, 0, j) \in Seq(S) /\ Len(Pieces(s, 0, j)) = j - 0
    BY <1>1, <2>1, PiecesAre
  <2>4. Pieces(s, i, j) \in Seq(S) /\ Len(Pieces(s, i, j)) = j - i
    BY PiecesAre
  <2> QED
    BY <2>1, <2>2, <2>3, <2>4
<1> HIDE DEF S
<1>5. /\ Pieces(s, 0, i) \o Pieces(s, i, j) \in Seq(S)
      /\ Len(Pieces(s, 0, i) \o Pieces(s, i, j)) = i + (j - i)
      /\ \A k \in 1..(i + (j - i)) : (Pieces(s, 0, i) \o Pieces(s, i, j))[k]
            = IF k <= i THEN Pieces(s, 0, i)[k] ELSE Pieces(s, i, j)[k - i]
  BY <1>2, ConcatProperties
<1>3. \A k \in 1..j : (Pieces(s, 0, i) \o Pieces(s, i, j))[k] = Pieces(s, 0, j)[k]
  <2> SUFFICES ASSUME NEW k \in 1..j PROVE (Pieces(s, 0, i) \o Pieces(s, i, j))[k] = Pieces(s, 0, j)[k]
    OBVIOUS
  <2>1. Pieces(s, 0, j)[k] = <<s, k>>
    <3>1. k \in 1..(j - 0) /\ 0 + k = k
      OBVIOUS
    <3> QED
      BY <3>1 DEF Pieces
  <2>2. CASE k <= i
    <3>1. k \in 1..(i + (j - i)) /\ k \in 1..(i - 0) /\ 0 + k = k
      BY <2>2
    <3>2. Pieces(s, 0, i)[k] = <<s, k>>
      BY <3>1 DEF Pieces
    <3> QED
      BY <1>5, <2>1, <2>2, <3>1, <3>2
  <2>3. CASE k > i
    <3>1. k - i \in 1..(j - i)
      BY <2>3
    <3>2. Pieces(s, i, j)[k - i] = <<s, i + (k - i)>>
      BY <3>1 DEF Pieces
    <3>3. i + (k - i) = k
      OBVIOUS
    <3>4. k \in 1..(i + (j - i)) /\ ~(k <= i)
      BY <2>3
    <3> QED
      BY <1>5, <2>1, <2>3, <3>2, <3>3, <3>4
  <2>4. k <= i \/ k > i
    OBVIOUS
  <2> QED
    BY <2>2, <2>3, <2>4
<1>4. Pieces(s, 0, i) \o Pieces(s, i, j) \in Seq(S)
      /\ Len(Pieces(s, 0, i) \o Pieces(s, i, j)) = j
  <2>1. i + (j - i) = j
    OBVIOUS
  <2> QED
    BY <1>5, <2>1
<1> QED
  BY <1>2, <1>3, <1>4, SeqEqual

-----------------------------------------------------------------------------
(* Initially, and types *)

LEMMA ViewInitInv == ViewInit => ViewInv
<1> SUFFICES ASSUME ViewInit PROVE ViewInv
  OBVIOUS
<1> USE ViewAssumption DEF ViewInit, Statuses, Final
<1>1. SessionsOK
  BY DEF SessionsOK, SessionRecord, Unstarted
<1>2. PageOK /\ PageFlagsOK
  BY EmptySeq DEF PageOK, PageFlagsOK
<1>3. WireOK /\ KnownIsStarted /\ MessagesAreTrue /\ ArchiveIsTrue /\ OneLaunch
  BY DEF MessageIsTrue, WireOK, KnownIsStarted, MessagesAreTrue, ArchiveIsTrue, OneLaunch
<1>7. WireBounded
  BY FS_EmptySet DEF WireBounded
<1>4. Launch /\ EndIsWhole
  BY DEF Launch, EndIsWhole
<1>5. shown = Pieces(sid, 0, Len(shown))
  BY EmptySeq DEF Pieces
<1>6. Follows
  BY <1>5 DEF Follows, Mine
<1> QED
  BY <1>1, <1>2, <1>3, <1>4, <1>6, <1>7 DEF ViewInv

LEMMA SessionsStep == SessionsOK /\ WireOK /\ MessagesAreTrue /\ ViewNext => SessionsOK'
<1> SUFFICES ASSUME SessionsOK, WireOK, MessagesAreTrue, ViewNext PROVE SessionsOK'
  OBVIOUS
<1> USE ViewAssumption DEF SessionsOK, SessionRecord, Statuses, Final
<1>1. ASSUME NEW s \in Sessions, Grows(s) PROVE SessionsOK'
  BY <1>1 DEF Grows
<1>2. ASSUME NEW s \in Sessions, Heartbeat(s) PROVE SessionsOK'
  BY <1>2 DEF Heartbeat, Cancels, Cancelled, Going
<1>3. ASSUME NEW s \in Sessions, NEW ok \in BOOLEAN, Settle(s, ok) PROVE SessionsOK'
  BY <1>3 DEF Settle, Verdict, Going
<1>4. ASSUME NEW m \in wire, ServesStart(m) PROVE SessionsOK'
  <2>1. Fresh # {} => (CHOOSE fresh \in Fresh : TRUE) \in Fresh
    OBVIOUS
  <2> DEFINE s == CHOOSE fresh \in Fresh : TRUE
  <2> HIDE DEF s
  <2>2. CASE activeSession # NoSession
    BY <1>4, <2>2 DEF ServesStart
  <2>3. CASE activeSession = NoSession
    <3>1. /\ s \in Sessions /\ activeSession' = s /\ archive' = archive
          /\ session' = [session EXCEPT ![s].status = "running", ![s].flow = "streaming"]
      BY <1>4, <2>1, <2>3 DEF ServesStart, s, Fresh
    <3> QED
      BY <3>1, ZenonT(30)
  <2> QED
    BY <2>2, <2>3
<1>5. ASSUME NEW m \in wire, ServesPoll(m) PROVE SessionsOK'
  <2>1. m.sid \in Sessions
    BY <1>5 DEF MessageIsTrue, ServesPoll, WireOK, Messages, MessagesAreTrue
  <2>2. session' = [session EXCEPT ![m.sid].sent = session[m.sid].text]
        /\ UNCHANGED <<activeSession, archive>>
    BY <1>5 DEF ServesPoll
  <2> QED
    BY <2>1, <2>2
<1>6. ASSUME NEW m \in wire, ServesStop(m) PROVE SessionsOK'
  <2>1. m.sid \in Sessions
    BY <1>6 DEF MessageIsTrue, ServesStop, WireOK, Messages, MessagesAreTrue
  <2>2. session' = [session EXCEPT ![m.sid] = [Cancelled(m.sid) EXCEPT !.sent = session[m.sid].text]]
        /\ Cancels(m.sid)
    BY <1>6 DEF ServesStop
  <2> DEFINE r == [Cancelled(m.sid) EXCEPT !.sent = session[m.sid].text]
  <2>3. r \in SessionRecord /\ r.sent <= r.text
    BY <2>1 DEF Cancelled, Going
  <2>4. session' = [session EXCEPT ![m.sid] = r]
    BY <2>2
  <2> HIDE DEF r
  <2>5. archive' \in [Sessions -> Final \union {"none"}] /\ activeSession' \in Sessions \union {NoSession}
    BY <2>1, <2>2 DEF Cancels
  <2> QED
    BY <2>1, <2>3, <2>4, <2>5
<1>7. ASSUME UNCHANGED serverVars PROVE SessionsOK'
  BY <1>7 DEF serverVars
<1> QED
  BY <1>1, <1>2, <1>3, <1>4, <1>5, <1>6, <1>7
     DEF ViewNext, Started, PollArrives, StopArrives, RequestLost, PressRun, PressStop, TimerFires, Unmount

\* What a step does to sessions: one that has started stays so, and one that
\* has ended is not touched.
LEMMA SessionsMove ==
  ASSUME SessionsOK, WireOK, MessagesAreTrue, ViewNext, NEW s \in Sessions
  PROVE  /\ session[s].status # "none" => session'[s].status # "none"
         /\ session[s].status \in Final =>
               session'[s].status = session[s].status /\ session'[s].text = session[s].text
<1> USE DEF SessionsOK, SessionRecord, Statuses, Final
<1> DEFINE Goal == /\ session[s].status # "none" => session'[s].status # "none"
                   /\ session[s].status \in Final =>
                         session'[s].status = session[s].status /\ session'[s].text = session[s].text
<1>1. ASSUME NEW t \in Sessions, Grows(t) PROVE Goal
  BY <1>1 DEF Grows, Going
<1>2. ASSUME NEW t \in Sessions, Heartbeat(t) PROVE Goal
  BY <1>2 DEF Heartbeat, Cancelled, Going
<1>3. ASSUME NEW t \in Sessions, NEW ok \in BOOLEAN, Settle(t, ok) PROVE Goal
  BY <1>3 DEF Settle, Verdict, Going
<1>4. ASSUME NEW m \in wire, ServesStart(m) PROVE Goal
  <2>1. Fresh # {} => (CHOOSE fresh \in Fresh : TRUE) \in Fresh
    OBVIOUS
  <2> DEFINE t == CHOOSE fresh \in Fresh : TRUE
  <2> HIDE DEF t
  <2>2. CASE activeSession # NoSession
    BY <1>4, <2>2 DEF ServesStart
  <2>3. CASE activeSession = NoSession
    <3>1. /\ t \in Sessions /\ session[t].status = "none"
          /\ session' = [session EXCEPT ![t].status = "running", ![t].flow = "streaming"]
      BY <1>4, <2>1, <2>3 DEF ServesStart, t, Fresh
    <3> QED
      BY <3>1
  <2> QED
    BY <2>2, <2>3
<1>5. ASSUME NEW m \in wire, ServesPoll(m) PROVE Goal
  <2>1. m.sid \in Sessions
    BY <1>5 DEF MessageIsTrue, ServesPoll, WireOK, Messages, MessagesAreTrue
  <2> QED
    BY <1>5, <2>1 DEF ServesPoll
<1>6. ASSUME NEW m \in wire, ServesStop(m) PROVE Goal
  <2>1. m.sid \in Sessions
    BY <1>6 DEF MessageIsTrue, ServesStop, WireOK, Messages, MessagesAreTrue
  <2> QED
    BY <1>6, <2>1 DEF ServesStop, Cancelled, Going
<1>7. ASSUME UNCHANGED serverVars PROVE Goal
  BY <1>7 DEF serverVars
<1> HIDE DEF Goal
<1>8. Goal
  BY <1>1, <1>2, <1>3, <1>4, <1>5, <1>6, <1>7
     DEF ViewNext, Started, PollArrives, StopArrives, RequestLost, PressRun, PressStop, TimerFires, Unmount
<1> QED
  BY <1>8 DEF Goal

\* Steps of the sessions themselves leave the requests, the page and what was
\* sent alone.
LEMMA InnerSteps ==
  ASSUME SessionsOK, NEW s \in Sessions, Grows(s) \/ Heartbeat(s) \/ \E ok \in BOOLEAN : Settle(s, ok)
  PROVE  UNCHANGED <<wire, mounted, launching, sid, since, shown, shownStatus, timer, overtaken, leaked>>
         /\ \A t \in Sessions : session'[t].sent = session[t].sent
<1> USE DEF SessionsOK, SessionRecord, pageVars
<1>1. CASE Grows(s)
  BY <1>1 DEF Grows
<1>2. CASE Heartbeat(s)
  BY <1>2 DEF Heartbeat, Cancelled
<1>3. ASSUME NEW ok \in BOOLEAN, Settle(s, ok)
      PROVE UNCHANGED <<wire, mounted, launching, sid, since, shown, shownStatus, timer, overtaken, leaked>>
            /\ \A t \in Sessions : session'[t].sent = session[t].sent
  <2> DEFINE v == Verdict(s, ok)
  <2> HIDE DEF v
  <2>1. session' = [session EXCEPT ![s].status = v, ![s].flow = "over"] /\ UNCHANGED <<wire, pageVars>>
    BY <1>3 DEF Settle, v
  <2> QED
    BY <2>1
<1> QED
  BY <1>1, <1>2, <1>3

\* The answer to a request.
LEMMA AnswerIs ==
  ASSUME NEW m \in Messages, NEW whole \in BOOLEAN, NEW i \in 0..MaxText, NEW j \in 0..MaxText,
         NEW st \in Statuses \union {"refused"}
  PROVE  Answer(m, whole, i, j, st) \in Messages
  BY DEF Answer, Messages

\* A start is refused, or begins a session that nobody knows.
LEMMA StartServed ==
  ASSUME SessionsOK, WireOK, KnownIsStarted, MessagesAreTrue, NEW m \in wire, ServesStart(m)
  PROVE  /\ m.kind = "start" /\ m.at = "server" /\ m.sid = NoSession /\ m.first
         /\ UNCHANGED <<mounted, launching, sid, since, shown, shownStatus, timer, overtaken, leaked>>
         /\ \A s \in Sessions : session'[s].sent = session[s].sent /\ session'[s].text = session[s].text
         /\ \E a \in Messages :
               /\ wire' = (wire \ {m}) \union {a}
               /\ a.kind = "start" /\ a.at = "page" /\ a.first
               /\ \/ a.sid = NoSession /\ a.status = "refused"
                  \/ /\ a.sid \in Sessions /\ a.status = "running" /\ session'[a.sid].status = "running"
                     /\ a.sid # sid /\ a.sid # timer /\ \A n \in wire : n.sid # a.sid
<1> USE ViewAssumption DEF SessionsOK, SessionRecord, Statuses
<1>1. /\ m.kind = "start" /\ m.at = "server" /\ m.sid = NoSession /\ m.first /\ m \in Messages
      /\ UNCHANGED <<mounted, launching, sid, since, shown, shownStatus, timer, overtaken, leaked>>
  BY DEF MessageIsTrue, ServesStart, MessagesAreTrue, WireOK, pageVars
<1>2. Fresh # {} => (CHOOSE fresh \in Fresh : TRUE) \in Fresh
  OBVIOUS
<1> DEFINE t == CHOOSE fresh \in Fresh : TRUE
<1> HIDE DEF t
<1> DEFINE no == Answer(m, FALSE, 0, 0, "refused")
           an == Answer(m, FALSE, 0, 0, "running")
           yes == [an EXCEPT !.sid = t]
<1>3. no \in Messages /\ no.kind = "start" /\ no.at = "page" /\ no.first /\ no.sid = NoSession /\ no.status = "refused"
  <2>1. 0 \in 0..MaxText /\ "refused" \in Statuses \union {"refused"} /\ FALSE \in BOOLEAN
    OBVIOUS
  <2>2. no \in Messages
    BY <1>1, <2>1, AnswerIs
  <2>3. no.kind = m.kind /\ no.at = "page" /\ no.sid = m.sid /\ no.status = "refused"
    BY <1>1 DEF Answer, Messages
  <2>4. no.first <=> m.first
    BY <1>1 DEF Answer, Messages
  <2> HIDE DEF no
  <2> QED
    BY <1>1, <2>2, <2>3, <2>4
<1>4. t \in Sessions => yes \in Messages /\ yes.kind = "start" /\ yes.at = "page" /\ yes.first /\ yes.sid = t /\ yes.status = "running"
  <2>1. 0 \in 0..MaxText /\ "running" \in Statuses \union {"refused"} /\ FALSE \in BOOLEAN
    BY DEF Statuses
  <2>2. an \in Messages
    BY <1>1, <2>1, AnswerIs
  <2>3. an.kind = m.kind /\ an.at = "page" /\ (an.first <=> m.first) /\ an.status = "running"
    BY <1>1 DEF Answer, Messages
  <2> HIDE DEF an
  <2>4. t \in Sessions => yes \in Messages /\ yes.kind = an.kind /\ yes.at = an.at /\ (yes.first <=> an.first)
                          /\ yes.sid = t /\ yes.status = an.status
    BY <2>2 DEF Messages
  <2> QED
    BY <1>1, <2>2, <2>3, <2>4
<1>5. CASE activeSession # NoSession
  <2>1. wire' = (wire \ {m}) \union {no} /\ session' = session
    BY <1>5 DEF ServesStart, Handled
  <2> HIDE DEF no
  <2> QED
    BY <1>1, <1>3, <2>1
<1>6. CASE activeSession = NoSession
  <2>1. /\ t \in Sessions /\ session[t].status = "none"
        /\ session' = [session EXCEPT ![t].status = "running", ![t].flow = "streaming"]
        /\ wire' = (wire \ {m}) \union {yes}
    BY <1>2, <1>6 DEF ServesStart, t, Fresh, Handled
  <2>2. t # sid /\ t # timer /\ \A n \in wire : n.sid # t
    BY <2>1 DEF MessageIsTrue, KnownIsStarted, MessagesAreTrue
  <2> HIDE DEF yes
  <2>3. session'[t].status = "running"
        /\ \A s \in Sessions : session'[s].sent = session[s].sent /\ session'[s].text = session[s].text
    BY <2>1
  <2> QED
    BY <1>1, <1>4, <2>1, <2>2, <2>3
<1> QED
  BY <1>5, <1>6

\* A poll gets what was not sent yet, or everything.
LEMMA PollServed ==
  ASSUME SessionsOK, WireOK, MessagesAreTrue, NEW m \in wire, ServesPoll(m)
  PROVE  /\ m.kind = "poll" /\ m.at = "server" /\ m.sid \in Sessions
         /\ UNCHANGED <<mounted, launching, sid, since, shown, shownStatus, timer, overtaken, leaked>>
         /\ \A s \in Sessions : session'[s].text = session[s].text
                                /\ (s # m.sid => session'[s].sent = session[s].sent)
         /\ session'[m.sid].sent = session[m.sid].text
         /\ \E a \in Messages :
               /\ wire' = (wire \ {m}) \union {a}
               /\ a.kind = "poll" /\ a.at = "page" /\ (a.first <=> m.first) /\ (a.whole <=> m.whole) /\ a.sid = m.sid
               /\ a.from = (IF m.whole THEN 0 ELSE session[m.sid].sent)
               /\ a.to = session[m.sid].text /\ a.from <= a.to
               /\ a.status = session[m.sid].status /\ session'[m.sid].status = a.status
<1> USE ViewAssumption DEF SessionsOK, SessionRecord, Statuses
<1>1. /\ m.kind = "poll" /\ m.at = "server" /\ m.sid \in Sessions /\ m \in Messages
      /\ UNCHANGED <<mounted, launching, sid, since, shown, shownStatus, timer, overtaken, leaked>>
  BY DEF MessageIsTrue, ServesPoll, MessagesAreTrue, WireOK, pageVars, Messages
<1>2. session' = [session EXCEPT ![m.sid].sent = session[m.sid].text]
  BY DEF ServesPoll
<1> DEFINE a == Answer(m, m.whole, From(m), session[m.sid].text, session[m.sid].status)
<1>3. wire' = (wire \ {m}) \union {a}
  BY DEF ServesPoll, Handled
<1>4. From(m) \in 0..MaxText /\ From(m) <= session[m.sid].text
  BY <1>1 DEF From
<1>5. /\ a \in Messages
      /\ a.kind = "poll" /\ a.at = "page" /\ (a.first <=> m.first) /\ (a.whole <=> m.whole) /\ a.sid = m.sid
      /\ a.from = From(m) /\ a.to = session[m.sid].text /\ a.status = session[m.sid].status
  BY <1>1, <1>4 DEF Answer, Messages
<1> HIDE DEF a
<1> QED
  BY <1>1, <1>2, <1>3, <1>4, <1>5 DEF From

\* A stop gets everything, and a session that it stops has ended.
LEMMA StopServed ==
  ASSUME SessionsOK, WireOK, MessagesAreTrue, NEW m \in wire, ServesStop(m)
  PROVE  /\ m.kind = "stop" /\ m.at = "server" /\ m.sid \in Sessions
         /\ UNCHANGED <<mounted, launching, sid, since, shown, shownStatus, timer, overtaken, leaked>>
         /\ \A s \in Sessions : session'[s].text = session[s].text
                                /\ (s # m.sid => session'[s].sent = session[s].sent)
         /\ \E a \in Messages :
               /\ wire' = (wire \ {m}) \union {a}
               /\ a.kind = "stop" /\ a.at = "page" /\ (a.first <=> m.first) /\ a.whole /\ a.sid = m.sid
               /\ a.to = session[m.sid].text
               /\ a.status \in Final /\ session'[m.sid].status = a.status
<1> USE ViewAssumption DEF SessionsOK, SessionRecord, Statuses
<1>1. /\ m.kind = "stop" /\ m.at = "server" /\ m.sid \in Sessions /\ m \in Messages
      /\ session[m.sid].status # "none"
      /\ UNCHANGED <<mounted, launching, sid, since, shown, shownStatus, timer, overtaken, leaked>>
  BY DEF MessageIsTrue, ServesStop, MessagesAreTrue, WireOK, pageVars, Messages
<1> DEFINE r == [Cancelled(m.sid) EXCEPT !.sent = session[m.sid].text]
<1>2. session' = [session EXCEPT ![m.sid] = r]
  BY DEF ServesStop
<1>3. r \in SessionRecord /\ r.status \in Final /\ r.text = session[m.sid].text
  BY <1>1 DEF Cancelled, Going, Final
<1> HIDE DEF r
<1>4. session'[m.sid] = r
  BY <1>1, <1>2
<1> DEFINE a == Answer(m, TRUE, 0, session[m.sid].text, session'[m.sid].status)
<1>5. wire' = (wire \ {m}) \union {a}
  BY DEF ServesStop, Handled
<1>6. /\ a \in Messages
      /\ a.kind = "stop" /\ a.at = "page" /\ (a.first <=> m.first) /\ a.whole /\ a.sid = m.sid
      /\ a.to = session[m.sid].text /\ a.status = r.status
  <2>1. r.status \in Statuses \union {"refused"} /\ session[m.sid].text \in 0..MaxText /\ 0 \in 0..MaxText
        /\ TRUE \in BOOLEAN /\ session'[m.sid].status = r.status
    BY <1>1, <1>3, <1>4
  <2>2. a \in Messages
    BY <1>1, <2>1, AnswerIs
  <2>3. /\ a.kind = "stop" /\ a.at = "page" /\ a.sid = m.sid
        /\ a.to = session[m.sid].text /\ a.status = session'[m.sid].status
    BY <1>1 DEF Answer, Messages
  <2>4. (a.first <=> m.first) /\ a.whole
    BY <1>1 DEF Answer, Messages
  <2> HIDE DEF a
  <2> QED
    BY <1>1, <2>1, <2>2, <2>3, <2>4
<1> HIDE DEF a
<1> QED
  BY <1>1, <1>2, <1>3, <1>4, <1>5, <1>6

\* What the page asks.
LEMMA AsksIs ==
  ASSUME PageFlagsOK, NEW kind \in {"start", "poll", "stop"}, NEW s \in Sessions \union {NoSession},
         NEW first \in BOOLEAN
  PROVE  Asks(kind, s, first) \in Messages /\ [Asks(kind, s, first) EXCEPT !.whole = TRUE] \in Messages
<1> USE ViewAssumption DEF Messages, Statuses
<1>1. since \in BOOLEAN /\ 0 \in 0..MaxText
  BY DEF PageFlagsOK
<1>2. Asks(kind, s, first) \in Messages
  BY <1>1 DEF Asks
<1> DEFINE a == Asks(kind, s, first)
<1> HIDE DEF a
<1>3. a \in Messages => [a EXCEPT !.whole = TRUE] \in Messages
  OBVIOUS
<1> QED
  BY <1>2, <1>3 DEF a

LEMMA FlagsStep == PageFlagsOK /\ WireOK /\ SessionsOK /\ KnownIsStarted /\ MessagesAreTrue /\ ViewNext => PageFlagsOK'
<1> SUFFICES ASSUME PageFlagsOK, WireOK, SessionsOK, KnownIsStarted, MessagesAreTrue, ViewNext PROVE PageFlagsOK'
  OBVIOUS
<1> USE DEF PageFlagsOK
<1>1. ASSUME NEW s \in Sessions, Grows(s) \/ Heartbeat(s) \/ \E ok \in BOOLEAN : Settle(s, ok) PROVE PageFlagsOK'
  BY <1>1, InnerSteps
<1>2. ASSUME NEW m \in wire, ServesStart(m) \/ ServesPoll(m) \/ ServesStop(m) PROVE PageFlagsOK'
  BY <1>2 DEF ServesStart, ServesPoll, ServesStop, pageVars
<1>3. ASSUME NEW m \in wire, Started(m) PROVE PageFlagsOK'
  BY <1>3 DEF Started
<1>4. ASSUME NEW m \in wire, PollArrives(m) PROVE PageFlagsOK'
  BY <1>4 DEF PollArrives
<1>5. ASSUME NEW m \in wire, StopArrives(m) PROVE PageFlagsOK'
  BY <1>5 DEF StopArrives
<1>6. ASSUME NEW m \in wire, RequestLost(m) PROVE PageFlagsOK'
  BY <1>6 DEF RequestLost
<1>7. CASE PressRun
  BY <1>7 DEF PressRun
<1>8. CASE PressStop
  BY <1>8 DEF PressStop
<1>9. CASE TimerFires \/ Unmount
  BY <1>9 DEF TimerFires, Unmount
<1> QED
  BY <1>1, <1>2, <1>3, <1>4, <1>5, <1>6, <1>7, <1>8, <1>9 DEF ViewNext

LEMMA WireStep == PageFlagsOK /\ WireOK /\ SessionsOK /\ PageOK /\ KnownIsStarted /\ MessagesAreTrue /\ ViewNext => WireOK'
<1> SUFFICES ASSUME PageFlagsOK, WireOK, SessionsOK, PageOK, KnownIsStarted, MessagesAreTrue, ViewNext PROVE WireOK'
  OBVIOUS
<1> USE DEF WireOK
<1>1. ASSUME NEW s \in Sessions, Grows(s) \/ Heartbeat(s) \/ \E ok \in BOOLEAN : Settle(s, ok) PROVE WireOK'
  BY <1>1, InnerSteps
<1>2. ASSUME NEW m \in wire, ServesStart(m) PROVE WireOK'
  BY <1>2, StartServed
<1>3. ASSUME NEW m \in wire, ServesPoll(m) PROVE WireOK'
  BY <1>3, PollServed
<1>4. ASSUME NEW m \in wire, ServesStop(m) PROVE WireOK'
  BY <1>4, StopServed
<1>5. ASSUME NEW m \in wire, Started(m) PROVE WireOK'
  <2>1. Asks("poll", m.sid, TRUE) \in Messages
    BY AsksIs, ZenonT(30) DEF Messages
  <2> QED
    BY <1>5, <2>1 DEF Started
<1>6. ASSUME NEW m \in wire, PollArrives(m) \/ StopArrives(m) \/ RequestLost(m) PROVE WireOK'
  BY <1>6 DEF PollArrives, StopArrives, RequestLost
<1>7. CASE PressRun
  <2>1. [Asks("start", NoSession, TRUE) EXCEPT !.whole = TRUE] \in Messages
    BY AsksIs
  <2> QED
    BY <1>7, <2>1 DEF PressRun, Sends
<1>8. CASE PressStop \/ TimerFires
  <2>1. Asks("poll", sid, FALSE) \in Messages /\ Asks("stop", sid, FALSE) \in Messages
    BY AsksIs DEF PageOK
  <2> QED
    BY <1>8, <2>1 DEF PressStop, TimerFires, Sends
<1>9. CASE Unmount
  BY <1>9 DEF Unmount
<1> QED
  BY <1>1, <1>2, <1>3, <1>4, <1>5, <1>6, <1>7, <1>8, <1>9 DEF ViewNext

\* A request is answered, or is lost, or one of few is sent.
LEMMA BoundedStep == PageFlagsOK /\ WireOK /\ WireBounded /\ SessionsOK /\ PageOK /\ KnownIsStarted /\ MessagesAreTrue /\ ViewNext => WireBounded'
<1> SUFFICES ASSUME PageFlagsOK, WireOK, WireBounded, SessionsOK, PageOK, KnownIsStarted, MessagesAreTrue, ViewNext
             PROVE WireBounded'
  OBVIOUS
<1> USE ViewAssumption
<1>1. IsFiniteSet(wire) /\ Cardinality(wire) \in Nat /\ Cardinality(wire) <= MaxWire
  BY FS_CardinalityType DEF WireBounded
<1>2. ASSUME NEW m \in wire
      PROVE  IsFiniteSet(wire \ {m}) /\ Cardinality(wire \ {m}) \in Nat /\ Cardinality(wire \ {m}) = Cardinality(wire) - 1
  BY <1>1, FS_RemoveElement, FS_CardinalityType
<1>3. ASSUME NEW m \in wire, wire' = wire \ {m} PROVE WireBounded'
  BY <1>1, <1>2, <1>3 DEF WireBounded
<1>4. ASSUME NEW m \in wire, NEW a, wire' = (wire \ {m}) \union {a} PROVE WireBounded'
  <2> DEFINE rest == wire \ {m}
  <2>3. IsFiniteSet(rest) /\ Cardinality(rest) \in Nat /\ Cardinality(rest) = Cardinality(wire) - 1
    BY <1>2
  <2> HIDE DEF rest
  <2>4. IsFiniteSet(rest \union {a})
        /\ (Cardinality(rest \union {a}) = Cardinality(rest) \/ Cardinality(rest \union {a}) = Cardinality(rest) + 1)
    BY <2>3, FS_AddElement
  <2>1. IsFiniteSet(wire') /\ Cardinality(wire') <= Cardinality(rest) + 1
    BY <1>4, <2>3, <2>4 DEF rest
  <2>2. Cardinality(wire') \in Nat
    BY <2>1, FS_CardinalityType
  <2> QED
    BY <1>1, <2>1, <2>2, <2>3 DEF WireBounded
<1>5. ASSUME NEW a, wire' = wire \union {a}, Cardinality(wire) < MaxWire PROVE WireBounded'
  <2>1. IsFiniteSet(wire') /\ Cardinality(wire') <= Cardinality(wire) + 1
    <3>1. IsFiniteSet(wire \union {a})
          /\ (Cardinality(wire \union {a}) = Cardinality(wire) \/ Cardinality(wire \union {a}) = Cardinality(wire) + 1)
      BY <1>1, FS_AddElement
    <3> QED
      BY <1>1, <1>5, <3>1
  <2>2. Cardinality(wire') \in Nat
    BY <2>1, FS_CardinalityType
  <2> QED
    BY <1>1, <1>5, <2>1, <2>2 DEF WireBounded
<1>6. wire' = wire => WireBounded'
  BY <1>1 DEF WireBounded
<1>7. ASSUME NEW s \in Sessions, Grows(s) \/ Heartbeat(s) \/ \E ok \in BOOLEAN : Settle(s, ok) PROVE WireBounded'
  BY <1>6, <1>7, InnerSteps
<1>8. ASSUME NEW m \in wire, ServesStart(m) \/ ServesPoll(m) \/ ServesStop(m) PROVE WireBounded'
  <2>1. PICK a : wire' = (wire \ {m}) \union {a}
    BY <1>8 DEF ServesStart, ServesPoll, ServesStop, Handled
  <2> QED
    BY <1>4, <2>1
<1>9. ASSUME NEW m \in wire, Started(m) \/ PollArrives(m) \/ StopArrives(m) \/ RequestLost(m) PROVE WireBounded'
  <2>1. wire' = wire \ {m} \/ \E a : wire' = (wire \ {m}) \union {a}
    BY <1>9 DEF Started, PollArrives, StopArrives, RequestLost
  <2> QED
    BY <1>3, <1>4, <2>1
<1>10. CASE PressRun \/ PressStop \/ TimerFires \/ Unmount
  <2>1. wire' = wire \/ \E a : wire' = wire \union {a} /\ Cardinality(wire) < MaxWire
    BY <1>10 DEF PressRun, PressStop, TimerFires, Unmount, Sends
  <2> QED
    BY <1>5, <1>6, <2>1
<1> QED
  BY <1>7, <1>8, <1>9, <1>10 DEF ViewNext

\* What a poll or a stop makes of the text on the page.
LEMMA TextTyped ==
  ASSUME PageOK, WireOK, NEW m \in wire, m.sid \in Sessions
  PROVE  TextAfter(m) \in Seq(Sessions \X (1..MaxText))
<1> USE ViewAssumption
<1>1. m.from \in 0..MaxText /\ m.to \in 0..MaxText /\ 0 \in 0..MaxText
  BY DEF WireOK, Messages
<1>2. Pieces(m.sid, 0, m.to) \in Seq(Sessions \X (1..MaxText))
      /\ Pieces(m.sid, m.from, m.to) \in Seq(Sessions \X (1..MaxText))
  BY <1>1, PiecesAre
<1>3. shown \o Pieces(m.sid, m.from, m.to) \in Seq(Sessions \X (1..MaxText))
  BY <1>2, ConcatProperties DEF PageOK
<1> QED
  BY <1>2, <1>3 DEF TextAfter

LEMMA PageStep == PageFlagsOK /\ WireOK /\ SessionsOK /\ PageOK /\ KnownIsStarted /\ MessagesAreTrue /\ ViewNext => PageOK'
<1> SUFFICES ASSUME PageFlagsOK, WireOK, SessionsOK, PageOK, KnownIsStarted, MessagesAreTrue, ViewNext PROVE PageOK'
  OBVIOUS
<1> DEFINE Texts == Seq(Sessions \X (1..MaxText))
<1>0. /\ sid \in Sessions \union {NoSession} /\ timer \in Sessions \union {NoSession}
      /\ shown \in Texts /\ <<>> \in Texts /\ shownStatus \in Statuses
      /\ "none" \in Statuses /\ "running" \in Statuses
  BY EmptySeq DEF PageOK, Statuses
<1>9. (/\ sid' \in Sessions \union {NoSession} /\ timer' \in Sessions \union {NoSession}
      /\ shown' \in Texts /\ shownStatus' \in Statuses) => PageOK'
  BY DEF PageOK, Statuses, Final
<1> HIDE DEF Texts
<1>1. ASSUME NEW s \in Sessions, Grows(s) \/ Heartbeat(s) \/ \E ok \in BOOLEAN : Settle(s, ok) PROVE PageOK'
  BY <1>0, <1>9, <1>1, InnerSteps
<1>2. ASSUME NEW m \in wire, ServesStart(m) \/ ServesPoll(m) \/ ServesStop(m) PROVE PageOK'
  BY <1>0, <1>9, <1>2 DEF ServesStart, ServesPoll, ServesStop, pageVars
<1>3. ASSUME NEW m \in wire, Started(m) PROVE PageOK'
  <2>1. m.sid \in Sessions \union {NoSession}
    BY DEF WireOK, Messages
  <2> QED
    BY <1>0, <1>9, <1>3, <2>1 DEF Started, Shows
<1>4. ASSUME NEW m \in wire, PollArrives(m) \/ StopArrives(m) PROVE PageOK'
  <2>1. m.sid \in Sessions /\ m.status \in Statuses
    BY <1>4 DEF MessageIsTrue, WireOK, Messages, MessagesAreTrue, PollArrives, StopArrives
  <2>2. TextAfter(m) \in Texts
    BY <2>1, TextTyped DEF Texts
  <2> QED
    BY <1>0, <1>9, <1>4, <2>1, <2>2 DEF PollArrives, StopArrives, Shows
<1>5. ASSUME NEW m \in wire, RequestLost(m) PROVE PageOK'
  BY <1>0, <1>9, <1>5 DEF RequestLost, Shows
<1>6. CASE PressRun \/ PressStop \/ TimerFires \/ Unmount
  BY <1>0, <1>9, <1>6 DEF PressRun, PressStop, TimerFires, Unmount
<1> QED
  BY <1>1, <1>2, <1>3, <1>4, <1>5, <1>6 DEF ViewNext

LEMMA KnownStep == PageFlagsOK /\ WireOK /\ SessionsOK /\ PageOK /\ KnownIsStarted /\ MessagesAreTrue /\ ViewNext => KnownIsStarted'
<1> SUFFICES ASSUME PageFlagsOK, WireOK, SessionsOK, PageOK, KnownIsStarted, MessagesAreTrue, ViewNext PROVE KnownIsStarted'
  OBVIOUS
<1>0. \A s \in Sessions : session[s].status # "none" => session'[s].status # "none"
  BY SessionsMove
<1>1. \A m \in wire : m.sid # NoSession => m.sid \in Sessions /\ session[m.sid].status # "none"
  BY DEF MessageIsTrue, WireOK, Messages, MessagesAreTrue
<1>2. sid' \in {sid, NoSession} \union {m.sid : m \in wire} /\ timer' \in {timer, NoSession} \union {m.sid : m \in wire}
  <2>1. ASSUME NEW s \in Sessions, Grows(s) \/ Heartbeat(s) \/ \E ok \in BOOLEAN : Settle(s, ok)
        PROVE  sid' = sid /\ timer' = timer
    BY <2>1, InnerSteps
  <2>2. ASSUME NEW m \in wire,
               ServesStart(m) \/ ServesPoll(m) \/ ServesStop(m) \/ Started(m) \/ PollArrives(m)
               \/ StopArrives(m) \/ RequestLost(m)
        PROVE  sid' \in {sid, NoSession, m.sid} /\ timer' \in {timer, NoSession, m.sid}
    BY <2>2 DEF ServesStart, ServesPoll, ServesStop, Started, PollArrives, StopArrives, RequestLost, pageVars
  <2>3. CASE PressRun \/ PressStop \/ TimerFires \/ Unmount
    BY <2>3 DEF PressRun, PressStop, TimerFires, Unmount
  <2> QED
    BY <2>1, <2>2, <2>3 DEF ViewNext
<1> QED
  BY <1>0, <1>1, <1>2 DEF KnownIsStarted, PageOK

LEMMA MessagesStep ==
  PageFlagsOK /\ WireOK /\ SessionsOK /\ PageOK /\ KnownIsStarted /\ MessagesAreTrue /\ ViewNext => MessagesAreTrue'
<1> SUFFICES ASSUME PageFlagsOK, WireOK, SessionsOK, PageOK, KnownIsStarted, MessagesAreTrue, ViewNext
             PROVE MessagesAreTrue'
  OBVIOUS
<1>1. ASSUME NEW n \in wire PROVE MessageIsTrue(n)'
  <2>1. n.sid \in Sessions \union {NoSession} /\ MessageIsTrue(n)
    BY DEF WireOK, Messages, MessagesAreTrue
  <2>2. n.sid \in Sessions =>
          /\ session[n.sid].status # "none" => session'[n.sid].status # "none"
          /\ session[n.sid].status \in Final =>
               session'[n.sid].status = session[n.sid].status /\ session'[n.sid].text = session[n.sid].text
    BY SessionsMove
  <2>3. CASE n.sid \in Sessions
    BY <2>1, <2>2, <2>3 DEF MessageIsTrue
  <2>4. CASE n.sid = NoSession
    BY <2>1, <2>4 DEF MessageIsTrue
  <2> QED
    BY <2>1, <2>3, <2>4
<1>2. ASSUME NEW a \in wire', wire' \subseteq wire \union {a}, MessageIsTrue(a)' PROVE MessagesAreTrue'
  BY <1>1, <1>2 DEF MessagesAreTrue
<1>3. wire' \subseteq wire => MessagesAreTrue'
  BY <1>1 DEF MessagesAreTrue
<1>4. ASSUME NEW s \in Sessions, Grows(s) \/ Heartbeat(s) \/ \E ok \in BOOLEAN : Settle(s, ok) PROVE MessagesAreTrue'
  BY <1>3, <1>4, InnerSteps
<1>5. ASSUME NEW m \in wire, ServesStart(m) PROVE MessagesAreTrue'
  <2>1. PICK a \in Messages :
               /\ wire' = (wire \ {m}) \union {a}
               /\ a.kind = "start" /\ a.at = "page" /\ a.first
               /\ \/ a.sid = NoSession /\ a.status = "refused"
                  \/ a.sid \in Sessions /\ a.status = "running" /\ session'[a.sid].status = "running"
    BY <1>5, StartServed
  <2>2. MessageIsTrue(a)'
    BY <2>1, ViewAssumption DEF MessageIsTrue, Final
  <2> QED
    BY <1>2, <2>1, <2>2
<1>6. ASSUME NEW m \in wire, ServesPoll(m) PROVE MessagesAreTrue'
  <2>1. m.kind = "poll" /\ m.sid \in Sessions /\ MessageIsTrue(m)
        /\ session[m.sid].status # "none" /\ session'[m.sid].text = session[m.sid].text
    BY <1>6, PollServed, ViewAssumption DEF MessagesAreTrue, MessageIsTrue
  <2>2. PICK a \in Messages :
               /\ wire' = (wire \ {m}) \union {a}
               /\ a.kind = "poll" /\ a.at = "page" /\ a.sid = m.sid
               /\ a.to = session[m.sid].text
               /\ a.status = session[m.sid].status /\ session'[m.sid].status = a.status
    BY <1>6, PollServed
  <2>3. a.status # "refused"
    BY <2>1, <2>2 DEF SessionsOK, SessionRecord, Statuses, Final
  <2>4. MessageIsTrue(a)'
    BY <2>1, <2>2, <2>3, ViewAssumption DEF MessageIsTrue
  <2> QED
    BY <1>2, <2>2, <2>4
<1>7. ASSUME NEW m \in wire, ServesStop(m) PROVE MessagesAreTrue'
  <2>1. m.kind = "stop" /\ m.sid \in Sessions /\ MessageIsTrue(m)
        /\ session'[m.sid].text = session[m.sid].text
    BY <1>7, StopServed, ViewAssumption DEF MessagesAreTrue, MessageIsTrue
  <2>2. PICK a \in Messages :
               /\ wire' = (wire \ {m}) \union {a}
               /\ a.kind = "stop" /\ a.at = "page" /\ (a.first <=> m.first) /\ a.sid = m.sid
               /\ a.to = session[m.sid].text
               /\ a.status \in Final /\ session'[m.sid].status = a.status
    BY <1>7, StopServed
  <2>3. MessageIsTrue(a)'
    BY <2>1, <2>2, ViewAssumption DEF MessageIsTrue, Final
  <2> QED
    BY <1>2, <2>2, <2>3
<1>8. ASSUME NEW m \in wire, Started(m) PROVE MessagesAreTrue'
  <2>3. PICK a : a = Asks("poll", m.sid, TRUE)
    OBVIOUS
  <2>1. CASE m.status = "refused"
    BY <1>3, <1>8, <2>1 DEF Started
  <2>2. CASE m.status # "refused"
    <3>1. m.kind = "start" /\ m.at = "page" /\ wire' = (wire \ {m}) \union {a} /\ session' = session
      BY <1>8, <2>2, <2>3 DEF Started, serverVars
    <3>2. m.sid # NoSession /\ session[m.sid].status # "none"
      BY <2>2, <3>1 DEF MessagesAreTrue, MessageIsTrue
    <3>3. MessageIsTrue(a)'
      BY <2>3, <3>1, <3>2 DEF MessageIsTrue, Asks
    <3> QED
      BY <1>2, <3>1, <3>3
  <2> QED
    BY <2>1, <2>2
<1>9. ASSUME NEW m \in wire, PollArrives(m) \/ StopArrives(m) \/ RequestLost(m) PROVE MessagesAreTrue'
  BY <1>3, <1>9 DEF PollArrives, StopArrives, RequestLost
<1>10. CASE PressRun
  <2>3. PICK a : a = [Asks("start", NoSession, TRUE) EXCEPT !.whole = TRUE]
    OBVIOUS
  <2>1. wire' = wire \union {a}
    BY <1>10, <2>3 DEF PressRun, Sends
  <2>2. MessageIsTrue(a)'
    BY <2>3 DEF MessageIsTrue, Asks, Final
  <2> QED
    BY <1>2, <2>1, <2>2
<1>11. CASE PressStop
  <2>3. PICK a : a = Asks("stop", sid, FALSE)
    OBVIOUS
  <2>1. wire' = wire \union {a} /\ session' = session /\ session[sid].status # "none" /\ sid # NoSession
    BY <1>11, <2>3 DEF PressStop, Sends, serverVars, KnownIsStarted
  <2>2. MessageIsTrue(a)'
    BY <2>1, <2>3 DEF MessageIsTrue, Asks
  <2> QED
    BY <1>2, <2>1, <2>2
<1>12. CASE TimerFires
  <2>3. PICK a : a = Asks("poll", sid, FALSE)
    OBVIOUS
  <2>1. CASE sid # timer
    BY <1>3, <1>12, <2>1 DEF TimerFires
  <2>2. CASE sid = timer
    <3>1. wire' = wire \union {a} /\ session' = session /\ session[sid].status # "none" /\ sid # NoSession
      BY <1>12, <2>2, <2>3 DEF TimerFires, Sends, serverVars, KnownIsStarted
    <3>2. MessageIsTrue(a)'
      BY <2>3, <3>1 DEF MessageIsTrue, Asks
    <3> QED
      BY <1>2, <3>1, <3>2
  <2> QED
    BY <2>1, <2>2
<1>13. CASE Unmount
  BY <1>3, <1>13 DEF Unmount
<1> QED
  BY <1>4, <1>5, <1>6, <1>7, <1>8, <1>9, <1>10, <1>11, <1>12, <1>13 DEF ViewNext

LEMMA ArchiveStep ==
  SessionsOK /\ WireOK /\ KnownIsStarted /\ MessagesAreTrue /\ ArchiveIsTrue /\ ViewNext =>
      ArchiveIsTrue' /\ \A s \in Sessions : archive[s] # "none" => archive'[s] = archive[s]
<1> SUFFICES ASSUME SessionsOK, WireOK, KnownIsStarted, MessagesAreTrue, ArchiveIsTrue, ViewNext,
                    NEW s \in Sessions
             PROVE /\ archive'[s] # "none" => archive'[s] = session'[s].status
                   /\ archive[s] # "none" => archive'[s] = archive[s]
  BY DEF ArchiveIsTrue
<1> DEFINE Goal == /\ archive'[s] # "none" => archive'[s] = session'[s].status
                   /\ archive[s] # "none" => archive'[s] = archive[s]
<1>0. /\ archive[s] # "none" => archive[s] = session[s].status
      /\ archive[s] \in Final \union {"none"}
  BY DEF ArchiveIsTrue, SessionsOK
<1>9. /\ session[s].status \in Final =>
               session'[s].status = session[s].status /\ session'[s].text = session[s].text
  BY SessionsMove
<1>1. ASSUME NEW t \in Sessions, Grows(t) PROVE Goal
  BY <1>0, <1>9, <1>1 DEF Grows, Final
<1>2. ASSUME NEW t \in Sessions, Heartbeat(t) PROVE Goal
  BY <1>0, <1>9, <1>2 DEF Heartbeat, Cancels, Cancelled, Going, Final, SessionsOK, SessionRecord
<1>3. ASSUME NEW t \in Sessions, NEW ok \in BOOLEAN, Settle(t, ok) PROVE Goal
  <2> DEFINE v == Verdict(t, ok)
  <2>1. session[t].status \in Final => v = session[t].status
    BY DEF Verdict, Going, Final
  <2> HIDE DEF v
  <2>2. session' = [session EXCEPT ![t].status = v, ![t].flow = "over"] /\ archive' = [archive EXCEPT ![t] = v]
    BY <1>3 DEF Settle, v
  <2> QED
    BY <1>0, <2>1, <2>2 DEF Final, SessionsOK, SessionRecord
<1>4. ASSUME NEW m \in wire, ServesStart(m) \/ ServesPoll(m) PROVE Goal
  BY <1>0, <1>9, <1>4 DEF ServesStart, ServesPoll, Final
<1>5. ASSUME NEW m \in wire, ServesStop(m) PROVE Goal
  <2>1. m.sid \in Sessions /\ Cancels(m.sid)
        /\ session' = [session EXCEPT ![m.sid] = [Cancelled(m.sid) EXCEPT !.sent = session[m.sid].text]]
    BY <1>5, StopServed DEF ServesStop
  <2> QED
    BY <1>0, <1>9, <2>1 DEF Cancels, Cancelled, Going, Final, SessionsOK, SessionRecord
<1>6. ASSUME UNCHANGED serverVars PROVE Goal
  BY <1>0, <1>6 DEF serverVars
<1> HIDE DEF Goal
<1>7. Goal
  BY <1>1, <1>2, <1>3, <1>4, <1>5, <1>6
     DEF ViewNext, Started, PollArrives, StopArrives, RequestLost, PressRun, PressStop, TimerFires, Unmount
<1> QED
  BY <1>7 DEF Goal

LEMMA OneLaunchStep ==
  PageFlagsOK /\ WireOK /\ SessionsOK /\ PageOK /\ KnownIsStarted /\ MessagesAreTrue /\ OneLaunch /\ ViewNext => OneLaunch'
<1> SUFFICES ASSUME PageFlagsOK, WireOK, SessionsOK, PageOK, KnownIsStarted, MessagesAreTrue, OneLaunch, ViewNext,
                    mounted'
             PROVE OneLaunch'
  BY DEF OneLaunch
<1> USE ViewAssumption
<1>0. \A n \in wire : /\ n.kind = "start" => n.first
                      /\ n.kind = "stop" => ~n.first
                      /\ n.kind # "start" => n.sid \in Sessions /\ n.sid # NoSession
                      /\ n.first \in BOOLEAN
  BY DEF MessagesAreTrue, MessageIsTrue, WireOK, Messages
<1>1. ASSUME NEW s \in Sessions, Grows(s) \/ Heartbeat(s) \/ \E ok \in BOOLEAN : Settle(s, ok) PROVE OneLaunch'
  BY <1>1, InnerSteps DEF OneLaunch
<1>2. ASSUME NEW m \in wire, ServesStart(m) PROVE OneLaunch'
  <2>1. PICK a \in Messages :
               /\ wire' = (wire \ {m}) \union {a}
               /\ a.kind = "start" /\ a.at = "page" /\ a.first
               /\ \/ a.sid = NoSession
                  \/ a.sid # sid /\ a.sid # timer /\ \A n \in wire : n.sid # a.sid
    BY <1>2, StartServed
  <2>2. m.first /\ m.kind = "start" /\ UNCHANGED <<mounted, launching, sid, timer>>
    BY <1>2, StartServed
  <2> QED
    BY <1>0, <2>1, <2>2 DEF OneLaunch
<1>3. ASSUME NEW m \in wire, ServesPoll(m) \/ ServesStop(m) PROVE OneLaunch'
  <2>1. PICK a \in Messages :
               /\ wire' = (wire \ {m}) \union {a}
               /\ a.kind = m.kind /\ (a.first <=> m.first) /\ a.sid = m.sid
    <3>1. CASE ServesPoll(m)
      <4>1. m.kind = "poll"
        BY <3>1 DEF ServesPoll
      <4>2. PICK a \in Messages :
              wire' = (wire \ {m}) \union {a} /\ a.kind = "poll" /\ (a.first <=> m.first) /\ a.sid = m.sid
        BY <3>1, PollServed
      <4> QED
        BY <4>1, <4>2
    <3>2. CASE ServesStop(m)
      <4>1. m.kind = "stop"
        BY <3>2 DEF ServesStop
      <4>2. PICK a \in Messages :
              wire' = (wire \ {m}) \union {a} /\ a.kind = "stop" /\ (a.first <=> m.first) /\ a.sid = m.sid
        BY <3>2, StopServed
      <4> QED
        BY <4>1, <4>2
    <3> QED
      BY <1>3, <3>1, <3>2
  <2>2. m.kind # "start" /\ UNCHANGED <<mounted, launching, sid, timer>>
    BY <1>3, PollServed, StopServed
  <2> QED
    BY <1>0, <2>1, <2>2 DEF OneLaunch
<1>4. ASSUME NEW m \in wire, Started(m) PROVE OneLaunch'
  <2>1. m.kind = "start" /\ m.first /\ mounted
    BY <1>0, <1>4 DEF Started
  <2>2. \A n \in wire : n # m => ~n.first /\ n.kind # "start"
    BY <1>0, <2>1 DEF OneLaunch
  <2>3. CASE m.status = "refused"
    <3>1. wire' = wire \ {m} /\ launching' = FALSE
      BY <1>4, <2>3 DEF Started
    <3> QED
      BY <2>2, <3>1 DEF OneLaunch
  <2>4. CASE m.status # "refused"
    <3>1. PICK a : a = Asks("poll", m.sid, TRUE)
      OBVIOUS
    <3>2. wire' = (wire \ {m}) \union {a} /\ launching' = launching
      BY <1>4, <2>4, <3>1 DEF Started
    <3>3. a.first /\ a.kind # "start"
      BY <3>1 DEF Asks
    <3> QED
      BY <2>1, <2>2, <3>2, <3>3 DEF OneLaunch
  <2> QED
    BY <2>3, <2>4
<1>5. ASSUME NEW m \in wire, PollArrives(m) PROVE OneLaunch'
  <2>1. /\ mounted /\ m.kind = "poll" /\ wire' = wire \ {m} /\ sid' = sid
        /\ timer' \in {timer, m.sid, NoSession} /\ launching' = (launching /\ ~m.first)
    BY <1>5 DEF PollArrives
  <2> QED
    BY <1>0, <2>1, ZenonT(30) DEF OneLaunch
<1>6. ASSUME NEW m \in wire, StopArrives(m) PROVE OneLaunch'
  <2>1. /\ mounted /\ ~m.first /\ wire' = wire \ {m} /\ sid' = sid
        /\ timer' = timer /\ launching' = launching
    BY <1>0, <1>6 DEF StopArrives
  <2> QED
    BY <1>0, <2>1 DEF OneLaunch
<1>7. ASSUME NEW m \in wire, RequestLost(m) PROVE OneLaunch'
  <2>1. /\ mounted /\ wire' = wire \ {m} /\ sid' \in {sid, NoSession} /\ timer' \in {timer, NoSession}
        /\ m.first => launching' = FALSE
        /\ ~m.first => launching' = launching
    BY <1>7 DEF RequestLost
  <2> QED
    BY <1>0, <2>1 DEF OneLaunch
<1>8. CASE PressRun
  <2>1. PICK a : a = [Asks("start", NoSession, TRUE) EXCEPT !.whole = TRUE]
    OBVIOUS
  <2>2. /\ mounted /\ ~launching /\ wire' = wire \union {a} /\ UNCHANGED <<sid, timer>>
        /\ launching' = TRUE
    BY <1>8, <2>1 DEF PressRun, Sends, Locked
  <2>3. a.first /\ a.sid = NoSession
    BY <2>1 DEF Asks
  <2> QED
    BY <1>0, <2>2, <2>3 DEF OneLaunch
<1>9. CASE PressStop \/ TimerFires
  <2>1. mounted /\ UNCHANGED <<launching, sid>> /\ timer' = NoSession
    BY <1>9 DEF PressStop, TimerFires
  <2>2. CASE wire' = wire
    BY <2>1, <2>2 DEF OneLaunch
  <2>3. ASSUME NEW a, wire' = wire \union {a}, a.sid = sid, a.kind # "start", ~a.first PROVE OneLaunch'
    BY <1>0, <2>1, <2>3 DEF OneLaunch
  <2>4. CASE wire' # wire
    <3>1. PICK a : wire' = wire \union {a} /\ a \in {Asks("poll", sid, FALSE), Asks("stop", sid, FALSE)}
      BY <1>9, <2>4 DEF PressStop, TimerFires, Sends
    <3>2. a.sid = sid /\ a.kind # "start" /\ ~a.first
      BY <3>1 DEF Asks
    <3> QED
      BY <2>3, <3>1, <3>2
  <2> QED
    BY <2>2, <2>4
<1>10. CASE Unmount
  BY <1>10 DEF Unmount
<1> QED
  BY <1>1, <1>2, <1>3, <1>4, <1>5, <1>6, <1>7, <1>8, <1>9, <1>10 DEF ViewNext


\* The parts of the invariant but for the last three.
Base == PageFlagsOK /\ WireOK /\ SessionsOK /\ PageOK /\ KnownIsStarted /\ MessagesAreTrue /\ OneLaunch

LEMMA BaseFacts ==
  ASSUME Base
  PROVE  /\ \A n \in wire : /\ n.kind = "start" => n.first
                            /\ n.kind = "stop" => ~n.first
                            /\ n.kind # "start" => n.sid \in Sessions /\ n.sid # NoSession
                            /\ n.first \in BOOLEAN /\ n.kind \in {"start", "poll", "stop"}
         /\ mounted /\ launching => \E n \in wire : n.first
         /\ mounted => \A n \in wire : n.first => launching /\ \A k \in wire : k.first => k = n
<1>1. \A n \in wire : /\ n.kind = "start" => n.first
                      /\ n.kind = "stop" => ~n.first
                      /\ n.kind # "start" => n.sid \in Sessions /\ n.sid # NoSession
                      /\ n.first \in BOOLEAN /\ n.kind \in {"start", "poll", "stop"}
  BY ViewAssumption DEF Base, MessagesAreTrue, MessageIsTrue, WireOK, Messages
<1> QED
  BY <1>1 DEF Base, OneLaunch

\* When a poll or a stop arrives in time, the page shows the beginning of its
\* session's text, and nothing of it is under way any more.
LEMMA TextArrives ==
  ASSUME Base, Launch, Follows, NEW m \in wire, PollArrives(m) \/ StopArrives(m),
         mounted', ~overtaken', ~launching'
  PROVE  /\ m.sid = sid /\ sid' = sid /\ sid \in Sessions /\ session' = session
         /\ shown' = Pieces(sid, 0, m.to) /\ Len(shown') = m.to
         /\ shownStatus' = m.status /\ since' = TRUE
         /\ Mine' = {} /\ timer' \in {timer, NoSession, sid}
         /\ timer' = sid => session[sid].sent = m.to
         /\ m.status \in Final => timer' # sid
<1> USE ViewAssumption
<1>1. /\ mounted /\ wire' = wire \ {m} /\ sid' = sid /\ session' = session /\ since' = TRUE
      /\ m.kind \in {"poll", "stop"} /\ m.at = "page" /\ overtaken' = (overtaken \/ Late(m))
      /\ shown' = TextAfter(m) /\ shownStatus' = m.status
      /\ m.kind = "poll" => launching' = (launching /\ ~m.first)
      /\ m.kind = "stop" => launching' = launching /\ timer' = timer
      /\ m.kind = "poll" => timer' = IF ~m.first /\ sid # m.sid THEN timer
                ELSE IF m.status = "running" THEN m.sid
                ELSE IF m.first THEN timer ELSE NoSession
  BY DEF PollArrives, StopArrives, Shows, serverVars
<1>2. ~overtaken /\ OnTime /\ sid = m.sid /\ (launching => m.first)
  BY <1>1 DEF Late, OnTime
<1>3. sid \in Sessions /\ sid # NoSession /\ m \in Mine /\ m.to \in 0..MaxText /\ m.from \in 0..MaxText
  BY <1>1, <1>2, BaseFacts DEF Mine, Base, WireOK, Messages
<1>4. m.first <=> launching
  BY <1>1, <1>2, BaseFacts
<1>5. Mine = {m}
  <2>1. CASE launching
    BY <1>1, <1>2, <1>4, <2>1 DEF Launch
  <2>2. CASE ~launching
    BY <1>2, <1>3, <2>2 DEF Follows
  <2> QED
    BY <2>1, <2>2
<1>6. Mine' = {}
  BY <1>1, <1>5 DEF Mine
<1>7. TextAfter(m) = Pieces(sid, 0, m.to)
  <2>1. CASE m.whole
    BY <1>2, <2>1 DEF TextAfter
  <2>2. CASE ~m.whole
    <3>1. ~launching /\ m.kind = "poll"
      BY <1>1, <1>2, <1>3, <1>4, <2>2 DEF Launch, Follows
    <3>2. shown = Pieces(sid, 0, m.from) /\ m.from <= m.to
      BY <1>1, <1>2, <1>3, <3>1 DEF Follows
    <3>3. Pieces(sid, 0, m.from) \o Pieces(sid, m.from, m.to) = Pieces(sid, 0, m.to)
      BY <1>3, <3>2, PiecesJoin
    <3> QED
      BY <1>2, <2>2, <3>2, <3>3 DEF TextAfter
  <2> QED
    BY <2>1, <2>2
<1>8. Len(Pieces(sid, 0, m.to)) = m.to
  <2>1. 0 \in 0..MaxText /\ 0 <= m.to /\ m.to - 0 = m.to
    BY <1>3
  <2> QED
    BY <1>3, <2>1, PiecesAre
<1>9. timer' = sid => session[sid].sent = m.to /\ m.status \notin Final
  <2>1. CASE launching
    <3>1. m.kind = "poll" /\ timer # sid /\ m.to = session[sid].sent
      BY <1>1, <1>2, <1>4, <2>1 DEF Launch
    <3> QED
      BY <1>1, <1>2, <1>3, <3>1 DEF Final
  <2>2. CASE ~launching
    <3>1. timer # sid
      BY <1>2, <1>3, <2>2 DEF Follows
    <3>2. m.kind = "poll" => m.to = session[sid].sent
      BY <1>1, <1>2, <1>3, <2>2 DEF Follows
    <3> QED
      BY <1>1, <1>2, <1>3, <3>1, <3>2 DEF Final
  <2> QED
    BY <2>1, <2>2
<1>10. timer' \in {timer, NoSession, sid}
  BY <1>1, <1>2
<1> QED
  BY <1>1, <1>2, <1>3, <1>6, <1>7, <1>8, <1>9, <1>10

\* What a request that is served changes for a page: its own session's poll or
\* stop is answered, nothing else.
LEMMA ServedForPage ==
  ASSUME Base, NEW m \in wire, ServesPoll(m) \/ ServesStop(m)
  PROVE  /\ UNCHANGED <<mounted, launching, sid, since, shown, shownStatus, timer, overtaken>>
         /\ m.kind \in {"poll", "stop"} /\ m.at = "server" /\ m.sid \in Sessions
         /\ \A s \in Sessions : s # m.sid => session'[s].sent = session[s].sent
         /\ \E a \in Messages :
               /\ wire' = (wire \ {m}) \union {a}
               /\ a.kind = m.kind /\ a.at = "page" /\ (a.first <=> m.first) /\ a.sid = m.sid
               /\ m.kind = "poll" => /\ a.whole <=> m.whole
                                     /\ ~m.whole => a.from = session[m.sid].sent
                                     /\ a.from <= a.to /\ a.to = session'[m.sid].sent
               /\ m.kind = "stop" => a.whole /\ a.status \in Final
<1> USE DEF Base
<1>1. CASE ServesPoll(m)
  <2>1. /\ UNCHANGED <<mounted, launching, sid, since, shown, shownStatus, timer, overtaken>>
        /\ m.kind = "poll" /\ m.at = "server" /\ m.sid \in Sessions
        /\ \A s \in Sessions : s # m.sid => session'[s].sent = session[s].sent
        /\ session'[m.sid].sent = session[m.sid].text
    BY <1>1, PollServed
  <2>2. PICK a \in Messages :
               /\ wire' = (wire \ {m}) \union {a}
               /\ a.kind = "poll" /\ a.at = "page" /\ (a.first <=> m.first) /\ (a.whole <=> m.whole) /\ a.sid = m.sid
               /\ a.from = (IF m.whole THEN 0 ELSE session[m.sid].sent)
               /\ a.to = session[m.sid].text /\ a.from <= a.to
    BY <1>1, PollServed
  <2> QED
    BY <2>1, <2>2
<1>2. CASE ServesStop(m)
  <2>1. /\ UNCHANGED <<mounted, launching, sid, since, shown, shownStatus, timer, overtaken>>
        /\ m.kind = "stop" /\ m.at = "server" /\ m.sid \in Sessions
        /\ \A s \in Sessions : s # m.sid => session'[s].sent = session[s].sent
    BY <1>2, StopServed
  <2>2. PICK a \in Messages :
               /\ wire' = (wire \ {m}) \union {a}
               /\ a.kind = "stop" /\ a.at = "page" /\ (a.first <=> m.first) /\ a.whole /\ a.sid = m.sid
               /\ a.status \in Final
    BY <1>2, StopServed
  <2> QED
    BY <2>1, <2>2
<1> QED
  BY <1>1, <1>2

LEMMA LaunchStep == Base /\ Launch /\ Follows /\ ViewNext => Launch'
<1> SUFFICES ASSUME Base, Launch, Follows, ViewNext, mounted', ~overtaken', launching' PROVE Launch'
  BY DEF Launch, OnTime
<1> USE ViewAssumption
<1>0. \A n \in wire : /\ n.kind = "start" => n.first
                      /\ n.kind # "start" => n.sid \in Sessions /\ n.sid # NoSession
  BY BaseFacts
<1>12. mounted => \A n \in wire : n.first => launching /\ \A k \in wire : k.first => k = n
  BY BaseFacts
<1>1. ASSUME NEW s \in Sessions, Grows(s) \/ Heartbeat(s) \/ \E ok \in BOOLEAN : Settle(s, ok) PROVE Launch'
  <2>1. UNCHANGED <<wire, mounted, launching, sid, since, shown, shownStatus, timer, overtaken>>
        /\ \A t \in Sessions : session'[t].sent = session[t].sent
    BY <1>1, InnerSteps DEF Base
  <2>2. Mine' = Mine
    BY <2>1 DEF Mine
  <2> QED
    BY <1>0, <2>1, <2>2 DEF Launch, OnTime
<1>2. ASSUME NEW m \in wire, ServesStart(m) PROVE Launch'
  <2>1. /\ m.kind = "start" /\ m.first
        /\ UNCHANGED <<mounted, launching, since, shown, shownStatus, overtaken>>
    BY <1>2, StartServed DEF Base
  <2>2. PICK a \in Messages : wire' = (wire \ {m}) \union {a} /\ a.kind = "start"
    BY <1>2, StartServed DEF Base
  <2>3. \A n \in wire' : n.first => n.kind = "start"
    BY <1>12, <2>1, <2>2
  <2> QED
    BY <2>1, <2>3 DEF Launch, OnTime
<1>3. ASSUME NEW m \in wire, ServesPoll(m) \/ ServesStop(m) PROVE Launch'
  <2>1. /\ UNCHANGED <<mounted, launching, sid, since, shown, shownStatus, timer, overtaken>>
        /\ m.kind \in {"poll", "stop"} /\ m.sid \in Sessions
        /\ \A s \in Sessions : s # m.sid => session'[s].sent = session[s].sent
    BY <1>3, ServedForPage
  <2>2. PICK a \in Messages :
               /\ wire' = (wire \ {m}) \union {a}
               /\ a.kind = m.kind /\ (a.first <=> m.first) /\ a.sid = m.sid
               /\ m.kind = "poll" => (a.whole <=> m.whole) /\ a.to = session'[m.sid].sent
    BY <1>3, ServedForPage
  <2>3. OnTime /\ launching
    BY <2>1 DEF OnTime
  <2>4. /\ shown' = <<>> /\ ~since'
        /\ (\E n \in wire' : n.kind = "start") => shownStatus' # "running"
    BY <2>1, <2>2, <2>3 DEF Launch
  <2>5. ASSUME NEW f \in wire', f.kind # "start", f.first
        PROVE  /\ f.sid = sid' /\ f.kind = "poll" /\ f.whole /\ Mine' = {f} /\ timer' # sid'
               /\ shownStatus' = "running" /\ (f.at = "page" => f.to = session'[sid'].sent)
    <3>1. CASE f = a
      <4>1. m.first /\ m.kind # "start"
        BY <2>2, <2>5, <3>1
      <4>2. m.sid = sid /\ m.kind = "poll" /\ m.whole /\ Mine = {m} /\ timer # sid /\ shownStatus = "running"
        BY <2>3, <4>1 DEF Launch
      <4>3. Mine' = {a}
        BY <2>1, <2>2, <4>2 DEF Mine
      <4> QED
        BY <2>1, <2>2, <3>1, <4>2, <4>3
    <3>2. CASE f # a
      <4>1. f \in wire /\ f # m
        BY <2>2, <3>2
      <4>2. f.sid = sid /\ f.kind = "poll" /\ f.whole /\ Mine = {f} /\ timer # sid /\ shownStatus = "running"
            /\ (f.at = "page" => f.to = session[sid].sent)
        BY <2>3, <2>5, <4>1 DEF Launch
      <4>3. m.sid # sid
        BY <2>1, <4>1, <4>2 DEF Mine
      <4>4. Mine' = {f}
        BY <2>1, <2>2, <4>1, <4>2, <4>3 DEF Mine
      <4> QED
        BY <1>0, <2>1, <2>5, <4>1, <4>2, <4>3, <4>4
    <3> QED
      BY <3>1, <3>2
  <2> QED
    BY <2>4, <2>5 DEF Launch
<1>4. ASSUME NEW m \in wire, Started(m) PROVE Launch'
  <2>1. /\ m.kind = "start" /\ m.status # "refused" /\ m.at = "page"
        /\ mounted /\ launching /\ ~overtaken /\ UNCHANGED <<since, timer, shown>>
        /\ sid' = m.sid /\ shownStatus' = "running"
    BY <1>4 DEF Started, Shows
  <2>2. PICK a : a = Asks("poll", m.sid, TRUE)
    OBVIOUS
  <2>3. wire' = (wire \ {m}) \union {a}
    BY <1>4, <2>1, <2>2 DEF Started
  <2>4. shown = <<>> /\ ~since
    BY <2>1 DEF Launch, OnTime
  <2>5. a.kind = "poll" /\ a.sid = m.sid /\ a.first /\ a.whole /\ a.at = "server"
    BY <2>2, <2>4 DEF Asks
  <2>6. m.sid # NoSession /\ m.first
    BY <2>1 DEF Base, MessagesAreTrue, MessageIsTrue
  <2>7. m.sid # timer /\ \A n \in wire : n # m => n.sid # m.sid /\ ~n.first /\ n.kind # "start"
    BY <1>0, <1>12, <2>1, <2>6 DEF Base, OneLaunch
  <2>8. Mine' = {a}
    BY <2>1, <2>3, <2>5, <2>7 DEF Mine
  <2>9. \A n \in wire' : n.kind # "start" /\ (n.first => n = a)
    BY <2>3, <2>5, <2>7
  <2> QED
    BY <2>1, <2>4, <2>5, <2>7, <2>8, <2>9 DEF Launch
<1>5. ASSUME NEW m \in wire, PollArrives(m) PROVE Launch'
  <2>1. launching /\ ~m.first
    BY <1>5 DEF PollArrives
  <2> QED
    BY <1>5, <2>1 DEF PollArrives, Late
<1>6. ASSUME NEW m \in wire, StopArrives(m) PROVE Launch'
  <2>1. launching /\ ~m.first
    BY <1>6 DEF StopArrives, Base, MessagesAreTrue, MessageIsTrue
  <2> QED
    BY <1>6, <2>1 DEF StopArrives, Late
<1>7. ASSUME NEW m \in wire, RequestLost(m) PROVE Launch'
  <2>1. ~m.first
    BY <1>7 DEF RequestLost
  <2>2. /\ wire' = wire \ {m} /\ UNCHANGED <<mounted, launching, sid, since, shown, shownStatus, overtaken, session>>
        /\ timer' \in {timer, NoSession}
    BY <1>7, <2>1 DEF RequestLost, serverVars
  <2>3. OnTime /\ launching
    BY <2>2 DEF OnTime
  <2>4. ASSUME NEW f \in wire', f.kind # "start", f.first PROVE Mine' = Mine
    <3>1. f \in wire /\ f # m
      BY <2>1, <2>2, <2>4
    <3>2. Mine = {f}
      BY <2>3, <2>4, <3>1 DEF Launch
    <3> QED
      BY <2>2, <3>1, <3>2 DEF Mine
  <2> QED
    BY <1>0, <2>2, <2>3, <2>4 DEF Launch
<1>8. CASE PressRun
  <2>1. PICK a : a = [Asks("start", NoSession, TRUE) EXCEPT !.whole = TRUE]
    OBVIOUS
  <2>2. /\ mounted /\ ~launching /\ shownStatus # "running" /\ wire' = wire \union {a}
        /\ since' = FALSE /\ shown' = <<>> /\ shownStatus' = shownStatus
        /\ \A n \in wire : n.kind = "start"
    BY <1>8, <2>1 DEF PressRun, Sends, Locked
  <2>3. wire = {}
    BY <1>0, <1>12, <2>2
  <2>4. a.kind = "start"
    BY <2>1 DEF Asks
  <2> QED
    BY <2>2, <2>3, <2>4 DEF Launch
<1>9. CASE PressStop
  <2>1. mounted /\ launching /\ ~overtaken /\ shownStatus = "running" /\ \A n \in wire : n.kind # "poll"
    BY <1>9 DEF PressStop
  <2>2. PICK f \in wire : f.first
    BY <2>1, BaseFacts
  <2>3. f.kind = "start"
    BY <2>1, <2>2 DEF Launch, OnTime
  <2> QED
    BY <2>1, <2>3 DEF Launch, OnTime
<1>10. CASE TimerFires
  <2>1. /\ UNCHANGED <<mounted, launching, sid, since, shown, shownStatus, overtaken, session>>
        /\ timer # NoSession /\ timer' = NoSession
    BY <1>10 DEF TimerFires, serverVars
  <2>2. OnTime /\ launching
    BY <2>1 DEF OnTime
  <2>3. CASE sid # timer
    <3>1. wire' = wire /\ Mine' = Mine
      BY <1>10, <2>1, <2>3 DEF TimerFires, Mine
    <3> QED
      BY <1>0, <2>1, <2>2, <3>1 DEF Launch
  <2>4. CASE sid = timer
    <3>1. PICK a : a = Asks("poll", sid, FALSE)
      OBVIOUS
    <3>2. wire' = wire \union {a}
      BY <1>10, <2>4, <3>1 DEF TimerFires, Sends
    <3>3. ~a.first /\ a.kind = "poll"
      BY <3>1 DEF Asks
    <3>4. \A n \in wire : n.first => n.kind = "start"
      BY <2>2, <2>4 DEF Launch
    <3> QED
      BY <2>1, <2>2, <3>2, <3>3, <3>4 DEF Launch
  <2> QED
    BY <2>3, <2>4
<1>11. CASE Unmount
  BY <1>11 DEF Unmount
<1> QED
  BY <1>1, <1>2, <1>3, <1>4, <1>5, <1>6, <1>7, <1>8, <1>9, <1>10, <1>11 DEF ViewNext

LEMMA FollowsStep == Base /\ Launch /\ Follows /\ ViewNext => Follows'
<1> SUFFICES ASSUME Base, Launch, Follows, ViewNext, mounted', ~overtaken', ~launching' PROVE Follows'
  BY DEF Follows, OnTime
<1> USE ViewAssumption
<1>0. \A n \in wire : n.kind # "start" => n.sid \in Sessions /\ n.sid # NoSession
  BY BaseFacts
<1>12. mounted => \A n \in wire : n.first => launching /\ \A k \in wire : k.first => k = n
  BY BaseFacts
<1>13. /\ sid' = NoSession /\ shown' = <<>> /\ timer' \in Sessions \union {NoSession}
       /\ \A n \in wire' : n.kind # "start" => n.sid # NoSession
       => Follows'
  <2> SUFFICES ASSUME sid' = NoSession, shown' = <<>>, \A n \in wire' : n.kind # "start" => n.sid # NoSession
               PROVE Follows'
    OBVIOUS
  <2>1. Mine' = {}
    BY DEF Mine
  <2>2. shown' = Pieces(sid', 0, Len(shown'))
    BY EmptySeq DEF Pieces
  <2> QED
    BY <2>1, <2>2 DEF Follows
<1>1. ASSUME NEW s \in Sessions, Grows(s) \/ Heartbeat(s) \/ \E ok \in BOOLEAN : Settle(s, ok) PROVE Follows'
  <2>1. UNCHANGED <<wire, mounted, launching, sid, since, shown, shownStatus, timer, overtaken>>
        /\ \A t \in Sessions : session'[t].sent = session[t].sent
    BY <1>1, InnerSteps DEF Base
  <2>2. Mine' = Mine /\ (sid # NoSession => sid \in Sessions)
    BY <2>1 DEF Mine, Base, PageOK
  <2>3. \A n \in Mine : sid # NoSession
    BY <1>0 DEF Mine
  <2> QED
    BY <2>1, <2>2, <2>3 DEF Follows, OnTime
<1>2. ASSUME NEW m \in wire, ServesStart(m) PROVE Follows'
  <2>1. m.first /\ UNCHANGED <<mounted, launching>>
    BY <1>2, StartServed DEF Base
  <2> QED
    BY <1>12, <2>1
<1>3. ASSUME NEW m \in wire, ServesPoll(m) \/ ServesStop(m) PROVE Follows'
  <2>1. /\ UNCHANGED <<mounted, launching, sid, since, shown, shownStatus, timer, overtaken>>
        /\ m.kind \in {"poll", "stop"} /\ m.at = "server" /\ m.sid \in Sessions
        /\ \A s \in Sessions : s # m.sid => session'[s].sent = session[s].sent
    BY <1>3, ServedForPage
  <2>2. PICK a \in Messages :
               /\ wire' = (wire \ {m}) \union {a}
               /\ a.kind = m.kind /\ a.at = "page" /\ (a.first <=> m.first) /\ a.sid = m.sid
               /\ m.kind = "poll" => /\ a.whole <=> m.whole
                                     /\ ~m.whole => a.from = session[m.sid].sent
                                     /\ a.from <= a.to /\ a.to = session'[m.sid].sent
               /\ m.kind = "stop" => a.whole /\ a.status \in Final
    BY <1>3, ServedForPage
  <2>3. OnTime /\ ~launching
    BY <2>1 DEF OnTime
  <2>4. shown' = Pieces(sid', 0, Len(shown')) /\ (sid' # NoSession => since')
    BY <2>1, <2>3 DEF Follows
  <2>5. CASE m.sid = sid
    <3>1. Mine = {m}
      BY <2>1, <2>3, <2>5 DEF Follows, Mine
    <3>2. Mine' = {a} /\ timer # sid
      <4>1. Mine' = {a}
        BY <2>1, <2>2, <2>5, <3>1 DEF Mine
      <4>2. sid # NoSession
        BY <2>1, <2>5
      <4> QED
        BY <2>3, <3>1, <4>1, <4>2 DEF Follows
    <3>3. m.kind = "poll" => ~m.whole /\ session[sid].sent = Len(shown)
      BY <2>1, <2>3, <3>1 DEF Follows
    <3>4. a.kind = "poll" => ~a.whole /\ a.from = Len(shown') /\ a.to = session'[sid'].sent /\ a.from <= a.to
      BY <2>1, <2>2, <2>5, <3>3
    <3>5. a.at = "page" /\ (a.kind = "stop" => a.whole /\ a.status \in Final)
      BY <2>2
    <3> QED
      BY <2>1, <2>4, <3>2, <3>4, <3>5 DEF Follows
  <2>6. CASE m.sid # sid
    <3>1. Mine' = Mine
      BY <2>1, <2>2, <2>6 DEF Mine
    <3>2. sid # NoSession => sid \in Sessions
      BY DEF Base, PageOK
    <3>3. \A n \in Mine : sid # NoSession
      BY <1>0 DEF Mine
    <3>4. sid # NoSession => session'[sid].sent = session[sid].sent
      BY <2>1, <2>6, <3>2
    <3> QED
      BY <2>1, <2>3, <2>4, <3>1, <3>3, <3>4 DEF Follows
  <2> QED
    BY <2>5, <2>6
<1>4. ASSUME NEW m \in wire, Started(m) PROVE Follows'
  <2>1. /\ m.kind = "start" /\ mounted /\ ~overtaken /\ timer' = timer
    BY <1>4 DEF Started
  <2>2. m.first /\ launching
    BY <1>12, <2>1, BaseFacts
  <2>3. m.status = "refused" /\ sid' = NoSession /\ shown' = shown /\ wire' = wire \ {m}
    BY <1>4, <2>2 DEF Started, Shows
  <2>4. shown = <<>>
    BY <2>1, <2>2 DEF Launch, OnTime
  <2> QED
    BY <1>0, <1>13, <2>1, <2>3, <2>4 DEF Base, PageOK
<1>5. ASSUME NEW m \in wire, PollArrives(m) \/ StopArrives(m) PROVE Follows'
  BY <1>5, TextArrives DEF Follows
<1>6. ASSUME NEW m \in wire, RequestLost(m) PROVE Follows'
  <2>1. wire' = wire \ {m} /\ mounted /\ ~overtaken /\ since' = since /\ session' = session
    BY <1>6 DEF RequestLost, serverVars
  <2>2. CASE m.first
    <3>1. sid' = NoSession /\ shown' = shown /\ timer' \in {timer, NoSession}
      BY <1>6, <2>2 DEF RequestLost, Shows
    <3>2. launching
      BY <1>12, <2>1, <2>2
    <3>3. shown = <<>>
      BY <2>1, <3>2 DEF Launch, OnTime
    <3> QED
      BY <1>0, <1>13, <2>1, <3>1, <3>3 DEF Base, PageOK
  <2>3. CASE ~m.first
    <3>1. UNCHANGED <<launching, sid, shown, shownStatus>> /\ timer' \in {timer, NoSession}
      BY <1>6, <2>3 DEF RequestLost
    <3>2. Mine' \subseteq Mine /\ (sid # NoSession /\ timer' = sid => timer = sid)
      BY <2>1, <3>1 DEF Mine
    <3> QED
      BY <2>1, <3>1, <3>2 DEF Follows, OnTime
  <2> QED
    BY <2>2, <2>3
<1>7. CASE PressRun
  BY <1>7 DEF PressRun
<1>8. CASE PressStop
  <2>1. /\ mounted /\ ~launching /\ ~overtaken /\ sid # NoSession /\ timer' = NoSession
        /\ UNCHANGED <<sid, since, shown, session>>
        /\ \A n \in wire : n.kind # "stop" /\ n.kind # "poll"
    BY <1>8 DEF PressStop, serverVars
  <2>2. PICK a : a = Asks("stop", sid, FALSE)
    OBVIOUS
  <2>3. wire' = wire \union {a}
    BY <1>8, <2>2 DEF PressStop, Sends
  <2>4. a.kind = "stop" /\ a.at = "server" /\ a.sid = sid
    BY <2>2 DEF Asks
  <2>5. Mine' = {a}
    BY <2>1, <2>3, <2>4, BaseFacts DEF Mine
  <2> QED
    BY <2>1, <2>4, <2>5 DEF Follows, OnTime
<1>9. CASE TimerFires
  <2>1. /\ mounted /\ ~launching /\ ~overtaken /\ timer # NoSession /\ timer' = NoSession
        /\ UNCHANGED <<sid, since, shown, session>>
    BY <1>9 DEF TimerFires, serverVars
  <2>2. CASE sid # timer
    <3>1. wire' = wire /\ Mine' = Mine
      BY <1>9, <2>1, <2>2 DEF TimerFires, Mine
    <3> QED
      BY <2>1, <3>1 DEF Follows, OnTime
  <2>3. CASE sid = timer
    <3>1. PICK a : a = Asks("poll", sid, FALSE)
      OBVIOUS
    <3>2. wire' = wire \union {a}
      BY <1>9, <2>3, <3>1 DEF TimerFires, Sends
    <3>3. since /\ Mine = {} /\ session[sid].sent = Len(shown)
      BY <2>1, <2>3 DEF Follows, OnTime
    <3>4. a.kind = "poll" /\ a.at = "server" /\ a.sid = sid /\ ~a.whole
      BY <3>1, <3>3 DEF Asks
    <3>5. Mine' = {a}
      BY <2>1, <3>2, <3>3, <3>4 DEF Mine
    <3> QED
      BY <2>1, <3>3, <3>4, <3>5 DEF Follows, OnTime
  <2> QED
    BY <2>2, <2>3
<1>10. CASE Unmount
  BY <1>10 DEF Unmount
<1> QED
  BY <1>1, <1>2, <1>3, <1>4, <1>5, <1>6, <1>7, <1>8, <1>9, <1>10 DEF ViewNext

LEMMA EndStep == Base /\ Launch /\ Follows /\ EndIsWhole /\ ViewNext => EndIsWhole'
<1> SUFFICES ASSUME Base, Launch, Follows, EndIsWhole, ViewNext,
                    mounted', ~overtaken', ~launching', shownStatus' \in Final
             PROVE EndIsWhole'
  BY DEF EndIsWhole, OnTime
<1> USE ViewAssumption
<1>12. mounted => \A n \in wire : n.first => launching /\ \A k \in wire : k.first => k = n
  BY BaseFacts
<1>13. ASSUME sid # NoSession, timer # sid, session[sid].status \in Final, Len(shown) = session[sid].text,
              UNCHANGED <<sid, shown>>, timer' \in {timer, NoSession}, Mine' = {}
       PROVE EndIsWhole'
  <2>1. sid \in Sessions
    BY <1>13 DEF Base, PageOK
  <2>2. session'[sid].status = session[sid].status /\ session'[sid].text = session[sid].text
    BY <1>13, <2>1, SessionsMove DEF Base
  <2> QED
    BY <1>13, <2>2 DEF EndIsWhole
<1>14. ASSUME UNCHANGED <<mounted, overtaken, launching, shownStatus>>
       PROVE /\ sid # NoSession /\ timer # sid /\ Mine = {}
             /\ session[sid].status \in Final /\ Len(shown) = session[sid].text
  BY <1>14 DEF EndIsWhole, OnTime
<1>1. ASSUME NEW s \in Sessions, Grows(s) \/ Heartbeat(s) \/ \E ok \in BOOLEAN : Settle(s, ok) PROVE EndIsWhole'
  <2>1. UNCHANGED <<wire, mounted, launching, sid, shown, shownStatus, timer, overtaken>>
    BY <1>1, InnerSteps DEF Base
  <2>2. Mine' = Mine
    BY <2>1 DEF Mine
  <2> QED
    BY <1>13, <1>14, <2>1, <2>2
<1>2. ASSUME NEW m \in wire, ServesStart(m) PROVE EndIsWhole'
  <2>1. m.first /\ UNCHANGED <<mounted, launching>>
    BY <1>2, StartServed DEF Base
  <2> QED
    BY <1>12, <2>1
<1>3. ASSUME NEW m \in wire, ServesPoll(m) \/ ServesStop(m) PROVE EndIsWhole'
  <2>1. /\ UNCHANGED <<mounted, launching, sid, shown, shownStatus, timer, overtaken>>
        /\ m.kind \in {"poll", "stop"}
    BY <1>3, ServedForPage
  <2>2. PICK a \in Messages : wire' = (wire \ {m}) \union {a} /\ a.sid = m.sid
    BY <1>3, ServedForPage
  <2>3. Mine = {}
    BY <1>14, <2>1
  <2>4. Mine' = {}
    BY <2>1, <2>2, <2>3 DEF Mine
  <2> QED
    BY <1>13, <1>14, <2>1, <2>4
<1>4. ASSUME NEW m \in wire, Started(m) PROVE EndIsWhole'
  BY <1>4 DEF Started, Shows, Final
<1>5. ASSUME NEW m \in wire, PollArrives(m) \/ StopArrives(m) PROVE EndIsWhole'
  <2>1. /\ m.sid = sid /\ sid' = sid /\ sid \in Sessions /\ session' = session
        /\ Len(shown') = m.to /\ shownStatus' = m.status /\ Mine' = {}
        /\ m.status \in Final => timer' # sid
    BY <1>5, TextArrives
  <2>2. m.at = "page"
    BY <1>5 DEF PollArrives, StopArrives
  <2>3. session[sid].status \in Final /\ m.to = session[sid].text
    BY <2>1, <2>2 DEF Base, MessagesAreTrue, MessageIsTrue
  <2> QED
    BY <2>1, <2>3 DEF EndIsWhole
<1>6. ASSUME NEW m \in wire, RequestLost(m) PROVE EndIsWhole'
  <2>1. ~m.first
    BY <1>6 DEF RequestLost, Shows, Final
  <2>2. wire' = wire \ {m} /\ UNCHANGED <<mounted, launching, sid, shown, shownStatus, overtaken>>
        /\ timer' \in {timer, NoSession}
    BY <1>6, <2>1 DEF RequestLost
  <2>3. Mine' \subseteq Mine
    BY <2>2 DEF Mine
  <2> QED
    BY <1>13, <1>14, <2>2, <2>3
<1>7. CASE PressRun
  BY <1>7 DEF PressRun
<1>8. CASE PressStop
  BY <1>8 DEF PressStop, Final
<1>9. CASE TimerFires
  <2>1. UNCHANGED <<mounted, launching, sid, shown, shownStatus, overtaken>> /\ timer' = NoSession
    BY <1>9 DEF TimerFires
  <2>2. wire' = wire
    BY <1>9, <1>14, <2>1 DEF TimerFires
  <2>3. Mine' = Mine
    BY <2>1, <2>2 DEF Mine
  <2> QED
    BY <1>13, <1>14, <2>1, <2>3
<1>10. CASE Unmount
  BY <1>10 DEF Unmount
<1> QED
  BY <1>1, <1>2, <1>3, <1>4, <1>5, <1>6, <1>7, <1>8, <1>9, <1>10 DEF ViewNext

-----------------------------------------------------------------------------
(* Theorems *)

\* Every step, and every rest, keeps the invariant.
LEMMA ViewNextInv == ViewInv /\ [ViewNext]_viewVars => ViewInv'
<1> SUFFICES ASSUME ViewInv, [ViewNext]_viewVars PROVE ViewInv'
  OBVIOUS
<1>1. CASE ViewNext
  BY <1>1, SessionsStep, FlagsStep, WireStep, BoundedStep, PageStep, KnownStep, MessagesStep, ArchiveStep, OneLaunchStep,
     LaunchStep, FollowsStep, EndStep DEF ViewInv, Base
<1>2. CASE UNCHANGED viewVars
  <2> UNCHANGED <<session, activeSession, archive, wire, mounted, launching, sid, since, shown, shownStatus,
                  timer, overtaken, leaked>>
    BY <1>2 DEF viewVars, pageVars
  <2>1. SessionsOK' /\ PageOK' /\ PageFlagsOK' /\ WireOK' /\ WireBounded' /\ KnownIsStarted'
    BY DEF ViewInv, SessionsOK, PageOK, PageFlagsOK, WireOK, WireBounded, KnownIsStarted
  <2>2. MessagesAreTrue' /\ ArchiveIsTrue' /\ OneLaunch'
    BY DEF ViewInv, MessagesAreTrue, MessageIsTrue, ArchiveIsTrue, OneLaunch
  <2>3. Launch' /\ Follows' /\ EndIsWhole'
    BY DEF ViewInv, Launch, Follows, EndIsWhole, OnTime, Mine
  <2> QED
    BY <2>1, <2>2, <2>3 DEF ViewInv
<1> QED
  BY <1>1, <1>2

\* The invariant holds of every behaviour of the page and its sessions.
THEOREM ViewInvariance == ViewSpec => []ViewInv
<1> QED
  BY ViewInitInv, ViewNextInv, PTL DEF ViewSpec

\* The types that follow from the invariant.
LEMMA ViewInvTypes == ViewInv => ViewTypeOK
<1> SUFFICES ASSUME ViewInv PROVE ViewTypeOK
  OBVIOUS
<1>1. ASSUME NEW s \in Sessions
      PROVE  /\ session[s].status \in Final \union {"none", "running"}
             /\ session[s].flow \in {"none", "streaming", "over"}
             /\ session[s].text \in 0..MaxText /\ session[s].sent \in 0..session[s].text
             /\ archive[s] \in Final \union {"none"}
  BY ViewAssumption DEF ViewInv, SessionsOK, SessionRecord, Statuses
<1>2. {sid, timer, activeSession} \subseteq Sessions \union {NoSession}
  BY DEF ViewInv, PageOK, SessionsOK
<1>3. Cardinality(wire) <= MaxWire
  BY DEF ViewInv, WireBounded
<1>4. {mounted, launching, since, overtaken, leaked} \subseteq BOOLEAN
  BY DEF ViewInv, PageFlagsOK
<1> QED
  BY <1>1, <1>2, <1>3, <1>4 DEF ViewTypeOK

\* Every variable of the page and its sessions keeps its type, and no more
\* requests are under way than the browser sends.
THEOREM ViewTypes == ViewSpec => []ViewTypeOK
<1> QED
  BY ViewInvTypes, ViewInvariance, PTL

\* What the page shows, in an invariant state.
LEMMA ViewInvImplies == ViewInv => ShownIsText
  BY DEF ViewInv, Follows, EndIsWhole, OnTime, ShownIsText

\* The page shows the beginning of its session's text, each piece once, and all
\* of it when it shows that the session has ended, unless a poll came back late.
THEOREM PageShowsItsText == ViewSpec => []ShownIsText
<1> QED
  BY ViewInvariance, ViewInvImplies, PTL

\* What the history says of a session is not revised.
THEOREM HistoryIsFinal == ViewSpec => ArchiveIsFinal
<1>1. ViewInv /\ [ViewNext]_viewVars =>
        [\A s \in Sessions : archive[s] # "none" => archive'[s] = archive[s]]_viewVars
  BY ArchiveStep DEF ViewInv
<1> QED
  BY <1>1, ViewInvariance, PTL DEF ViewSpec, ArchiveIsFinal
-----------------------------------------------------------------------------
(* AgentLink *)

\* What is on its way.
UpFrames ==
    [type : {"hello"}, val : 0..MaxEvents] \union [type : {"metrics"}, val : 1..MaxEvents]
    \union [type : {"resp"}, val : Requests]
DownFrames ==
    [type : {"token"}, val : 1..MaxEvents] \union [type : {"welcome", "ports"}, val : 0..MaxEvents]
    \union [type : {"job-run"}, val : Requests]

FramesOK == up \in [Sockets -> Seq(UpFrames)] /\ down \in [Sockets -> Seq(DownFrames)]

\* The types of the other variables, by their kinds: the provers take few at a
\* time.
CountsOK ==
    /\ token \in 0..MaxEvents /\ cfgToken \in 0..MaxEvents
    /\ ports \in 0..MaxEvents /\ agentPorts \in 0..MaxEvents
    /\ seen \in 0..MaxEvents /\ sent \in 0..MaxEvents /\ faults \in 0..MaxFaults
SavingOK == saving \in Seq(1..MaxEvents)
FlagsOK == known \in BOOLEAN /\ silent \in BOOLEAN
SocketsOK ==
    /\ conn \in Sockets \union {NoSocket} /\ sock \in Sockets \union {NoSocket}
    /\ near \in [Sockets -> Ends] /\ far \in [Sockets -> Ends]
    /\ registered \in [Sockets -> BOOLEAN] /\ cut \in [Sockets -> BOOLEAN]
RequestsOK ==
    /\ pending \in [Requests -> {"idle", "pending", "answered", "timed out", "refused"}]
    /\ process \in [Requests -> {"none", "running", "ended", "orphaned"}]

LinkVarsOK == CountsOK /\ SavingOK /\ FlagsOK /\ SocketsOK /\ RequestsOK

\* A registered socket has not closed on the dashboard; one that has not closed
\* on the agent is the agent's, and nothing is on its way to another.
EndsHeld ==
    /\ \A s \in Sockets : registered[s] => near[s] # "closed"
    /\ \A s \in Sockets : far[s] # "closed" => s = sock
    /\ \A s \in Sockets : far[s] = "closed" => Len(down[s]) = 0

\* As long as the agent's end is open, its hello carries the token it has.
HelloIsCurrent ==
    \A s \in Sockets : \A i \in 1..Len(up[s]) :
        up[s][i].type = "hello" /\ far[s] = "open" => up[s][i].val = cfgToken

\* RotationReaches, by positions.
TokenComes ==
    Linked => \/ cfgToken = token
              \/ \E i \in 1..Len(saving) : saving[i] = token
              \/ \E i \in 1..Len(down[sock]) : down[sock][i] = Frame("token", token)

IsPorts(f) == f.type \in {"welcome", "ports"}

\* The last ports on their way are those of the spark; if none are, the agent
\* has them.
PortsCome ==
    Linked /\ ~silent =>
        \/ /\ agentPorts = ports
           /\ \A i \in 1..Len(down[sock]) : ~IsPorts(down[sock][i])
        \/ \E i \in 1..Len(down[sock]) :
              /\ IsPorts(down[sock][i]) /\ down[sock][i].val = ports
              /\ \A j \in i+1..Len(down[sock]) : ~IsPorts(down[sock][j])

\* A command is sent once and starts once, and its end is reported after it.
CommandsOnce ==
    \A q \in Requests :
        /\ pending[q] = "idle" => process[q] = "none"
        /\ \A s \in Sockets : \A i \in 1..Len(down[s]) : down[s][i] = Frame("job-run", q) =>
              /\ pending[q] # "idle" /\ process[q] = "none"
              /\ \A j \in 1..Len(down[s]) : down[s][j] = Frame("job-run", q) => j = i
        /\ \A s \in Sockets : \A i \in 1..Len(up[s]) :
              up[s][i] = Frame("resp", q) => process[q] = "ended"

LinkInv ==
    /\ LinkVarsOK /\ FramesOK /\ EndsHeld /\ OneConnection
    /\ HelloIsCurrent /\ TokenComes /\ PortsCome /\ CommandsOnce /\ AnswerIsItsOwn

\* A channel after a frame was put in, and after one was taken out.
Grown(new, old, f) ==
    /\ Len(new) = Len(old) + 1 /\ new[Len(old) + 1] = f
    /\ \A i \in 1..Len(old) : new[i] = old[i]
Shifted(new, old) ==
    /\ Len(new) = Len(old) - 1
    /\ \A i \in 1..Len(new) : new[i] = old[i + 1]

\* All of type t that is in a channel was there before, k places further back.
Carried(new, old, k, t) ==
    \A i \in 1..Len(new) : new[i].type = t => i + k \in 1..Len(old) /\ old[i + k] = new[i]

\* What Append and Tail do to a channel.
LEMMA AppendGrows ==
  ASSUME NEW S, NEW ch \in Seq(S), NEW f \in S
  PROVE  /\ Append(ch, f) \in Seq(S) /\ Len(ch) \in Nat /\ Len(Append(ch, f)) \in Nat
         /\ Grown(Append(ch, f), ch, f)
  BY AppendProperties, LenProperties DEF Grown

LEMMA TailShifts ==
  ASSUME NEW S, NEW ch \in Seq(S), ch # <<>>
  PROVE  /\ Tail(ch) \in Seq(S) /\ Len(ch) \in Nat \ {0} /\ Head(ch) \in S /\ Head(ch) = ch[1]
         /\ Len(Tail(ch)) \in Nat /\ Shifted(Tail(ch), ch)
  BY HeadTailProperties, LenProperties, EmptySeq DEF Shifted

LEMMA GrownCarries ==
  ASSUME NEW new, NEW old, NEW f, NEW t, Grown(new, old, f), Len(old) \in Nat, f.type # t
  PROVE  Carried(new, old, 0, t)
  BY DEF Grown, Carried

LEMMA ShiftedCarries ==
  ASSUME NEW new, NEW old, NEW t, Shifted(new, old), Len(old) \in Nat \ {0}
  PROVE  Carried(new, old, 1, t)
  BY DEF Shifted, Carried

LEMMA SameCarries ==
  ASSUME NEW old, NEW t, Len(old) \in Nat
  PROVE  Carried(old, old, 0, t)
  BY DEF Carried

LEMMA EmptyCarries ==
  ASSUME NEW new, NEW old, NEW t, Len(new) = 0
  PROVE  Carried(new, old, 0, t)
  BY DEF Carried

\* The initial states of the link.
LEMMA LinkInitInv == LinkInit => LinkInv
<1> SUFFICES ASSUME LinkInit PROVE LinkInv
  OBVIOUS
<1> USE LinkAssumption DEF LinkInit
<1>1. \A s \in Sockets : up[s] = <<>> /\ down[s] = <<>> /\ Len(up[s]) = 0 /\ Len(down[s]) = 0
  BY EmptySeq
<1>2. CountsOK /\ SavingOK /\ SocketsOK /\ RequestsOK
  BY EmptySeq DEF CountsOK, SavingOK, SocketsOK, RequestsOK, Ends
<1>3. FlagsOK
  BY DEF FlagsOK
<1>4. FramesOK
  BY EmptySeq DEF FramesOK
<1>5. EndsHeld /\ OneConnection /\ HelloIsCurrent
  BY <1>1 DEF EndsHeld, OneConnection, HelloIsCurrent
<1>6. TokenComes /\ PortsCome
  BY <1>1 DEF TokenComes, PortsCome, Linked
<1>7. CommandsOnce /\ AnswerIsItsOwn
  BY <1>1 DEF CommandsOnce, AnswerIsItsOwn
<1> QED
  BY <1>2, <1>3, <1>4, <1>5, <1>6, <1>7 DEF LinkInv, LinkVarsOK

\* One more event keeps the counters within their bound.
LEMMA OneMoreEvent ==
  ASSUME CountsOK, MoreEvents
  PROVE  token + 1 \in 1..MaxEvents /\ ports + 1 \in 1..MaxEvents /\ sent + 1 \in 1..MaxEvents
<1> DEFINE waiting == {q \in Requests : pending[q] # "idle"}
<1>1. Cardinality(waiting) \in Nat
  BY LinkAssumption, FS_Subset, FS_CardinalityType
<1> HIDE DEF waiting
<1>2. token + ports + sent + Cardinality(waiting) < MaxEvents
  BY DEF MoreEvents, waiting
<1> QED
  BY <1>1, <1>2, LinkAssumption DEF CountsOK

\* What the link keeps in order, without its counters.
LinkShape == SocketsOK /\ FramesOK /\ EndsHeld

\* The frame that arrives, and what is left of the channel.
LEMMA Arrived ==
  ASSUME FramesOK, NEW s \in Sockets, NEW t, Arrives(s, t)
  PROVE  /\ up' \in [Sockets -> Seq(UpFrames)]
         /\ \A r \in Sockets \ {s} : up'[r] = up[r]
         /\ Shifted(up'[s], up[s]) /\ Len(up[s]) \in Nat \ {0} /\ Len(up'[s]) \in Nat
         /\ Head(up[s]) = up[s][1] /\ up[s][1].type = t /\ up[s][1] \in UpFrames
  BY TailShifts, up[s] \in Seq(UpFrames) DEF FramesOK, Arrives

LEMMA Reached ==
  ASSUME FramesOK, NEW s \in Sockets, NEW t, Reaches(s, t)
  PROVE  /\ down' \in [Sockets -> Seq(DownFrames)]
         /\ \A r \in Sockets \ {s} : down'[r] = down[r]
         /\ Shifted(down'[s], down[s]) /\ Len(down[s]) \in Nat \ {0} /\ Len(down'[s]) \in Nat
         /\ Head(down[s]) = down[s][1] /\ down[s][1].type = t /\ down[s][1] \in DownFrames
  BY TailShifts, down[s] \in Seq(DownFrames) DEF FramesOK, Reaches

\* A frame to the agent is put behind those that wait, or is lost; it is not lost
\* while the link stands.
LEMMA SentDown ==
  ASSUME FramesOK, NEW s \in Sockets, NEW f \in DownFrames, NEW d, d = ToAgent(s, f)
  PROVE  /\ d \in [Sockets -> Seq(DownFrames)]
         /\ \A r \in Sockets \ {s} : d[r] = down[r]
         /\ Len(down[s]) \in Nat /\ Len(d[s]) \in Nat
         /\ \/ d[s] = down[s] /\ (cut[s] \/ far[s] = "closed")
            \/ Grown(d[s], down[s], f) /\ ~cut[s] /\ far[s] # "closed"
  BY AppendGrows, down[s] \in Seq(DownFrames), LenProperties DEF FramesOK, ToAgent

\* So is one over the connection of the registry.
LEMMA SentIfConnected ==
  ASSUME SocketsOK, FramesOK, NEW f \in DownFrames, SendIfConnected(f)
  PROVE  /\ down' \in [Sockets -> Seq(DownFrames)]
         /\ \A s \in Sockets :
               /\ Len(down[s]) \in Nat /\ Len(down'[s]) \in Nat
               /\ \/ down'[s] = down[s] /\ ~(s = sock /\ Linked)
                  \/ Grown(down'[s], down[s], f) /\ s = conn /\ far[s] # "closed"
<1>1. \A s \in Sockets : Len(down[s]) \in Nat
  BY LenProperties DEF FramesOK
<1>2. CASE IsConnected
  <2>1. conn \in Sockets
    BY <1>2 DEF IsConnected, SocketsOK
  <2>2. down' = ToAgent(conn, f)
    BY <1>2 DEF SendIfConnected
  <2> QED
    BY <1>1, <1>2, <2>1, <2>2, SentDown DEF Linked
<1>3. CASE ~IsConnected
  BY <1>1, <1>3 DEF SendIfConnected, FramesOK, IsConnected, Linked, SocketsOK
<1> QED
  BY <1>2, <1>3

\* What the agent sends is put behind what waits on its socket, or is lost.
LEMMA AgentSent ==
  ASSUME SocketsOK, FramesOK, NEW f \in UpFrames, AgentSends(f)
  PROVE  /\ up' \in [Sockets -> Seq(UpFrames)]
         /\ \A s \in Sockets :
               /\ Len(up[s]) \in Nat /\ Len(up'[s]) \in Nat
               /\ up'[s] = up[s] \/ Grown(up'[s], up[s], f)
<1>1. \A s \in Sockets : Len(up[s]) \in Nat
  BY LenProperties DEF FramesOK
<1>2. CASE sock # NoSocket /\ far[sock] = "open"
  <2>1. sock \in Sockets /\ up[sock] \in Seq(UpFrames)
    BY <1>2 DEF SocketsOK, FramesOK
  <2> QED
    BY <1>1, <1>2, <2>1, AppendGrows DEF AgentSends, ToDashboard, FramesOK
<1>3. CASE ~(sock # NoSocket /\ far[sock] = "open")
  BY <1>1, <1>3 DEF AgentSends, FramesOK
<1> QED
  BY <1>2, <1>3

\* Nothing of type t is new in a channel after a step.
CarriedUp(t)   == \A s \in Sockets : \E k \in 0..1 : Carried(up'[s], up[s], k, t)
CarriedDown(t) == \A s \in Sockets : \E k \in 0..1 : Carried(down'[s], down[s], k, t)

\* A step keeps the types of what is on its way to the dashboard; a hello is
\* sent by Connect alone, the end of a command by its exit.
LEMMA UpStep ==
  ASSUME SocketsOK, CountsOK, FramesOK, LinkNext
  PROVE  /\ up' \in [Sockets -> Seq(UpFrames)]
         /\ CarriedUp("hello") \/ \E s \in Sockets : Connect(s)
         /\ CarriedUp("resp") \/ \E q \in Requests : JobExits(q)
<1> DEFINE FramesGo == up' \in [Sockets -> Seq(UpFrames)] /\ CarriedUp("hello") /\ CarriedUp("resp")
<1>0. \A s \in Sockets : up[s] \in Seq(UpFrames) /\ Len(up[s]) \in Nat
  BY LenProperties DEF FramesOK
<1>1. ASSUME NEW s \in Sockets, NEW t, Arrives(s, t)
      PROVE  FramesGo
  BY <1>0, <1>1, Arrived, ShiftedCarries, SameCarries DEF CarriedUp
<1>2. ASSUME NEW s \in Sockets,
             HelloRefused(s) \/ HelloAccepted(s) \/ MetricsArrive(s) \/ ResponseArrives(s)
      PROVE  FramesGo
  BY <1>1, <1>2 DEF HelloRefused, HelloAccepted, MetricsArrive, ResponseArrives
<1>3. ASSUME Push PROVE FramesGo
  <2>1. Frame("metrics", sent') \in UpFrames /\ Frame("metrics", sent').type = "metrics"
    BY <1>3, OneMoreEvent DEF Push, UpFrames, Frame
  <2>2. \A s \in Sockets : up'[s] = up[s] \/ Grown(up'[s], up[s], Frame("metrics", sent'))
    BY <1>3, <2>1, AgentSent DEF Push
  <2>3. up' \in [Sockets -> Seq(UpFrames)]
    BY <1>3, <2>1, AgentSent DEF Push
  <2>4. \A s \in Sockets : Carried(up'[s], up[s], 0, "hello") /\ Carried(up'[s], up[s], 0, "resp")
    BY <1>0, <2>1, <2>2, GrownCarries, SameCarries
  <2> QED
    BY <2>3, <2>4 DEF CarriedUp
<1>4. ASSUME NEW q \in Requests, JobExits(q)
      PROVE  up' \in [Sockets -> Seq(UpFrames)] /\ CarriedUp("hello")
  <2>1. Frame("resp", q) \in UpFrames /\ Frame("resp", q).type = "resp"
    BY DEF UpFrames, Frame
  <2>2. \A s \in Sockets : up'[s] = up[s] \/ Grown(up'[s], up[s], Frame("resp", q))
    BY <1>4, <2>1, AgentSent DEF JobExits
  <2>3. up' \in [Sockets -> Seq(UpFrames)]
    BY <1>4, <2>1, AgentSent DEF JobExits
  <2>4. \A s \in Sockets : Carried(up'[s], up[s], 0, "hello")
    BY <1>0, <2>1, <2>2, GrownCarries, SameCarries
  <2> QED
    BY <2>3, <2>4 DEF CarriedUp
<1>5. ASSUME NEW s \in Sockets, Connect(s)
      PROVE  up' \in [Sockets -> Seq(UpFrames)] /\ CarriedUp("resp")
  <2> DEFINE f == Frame("hello", cfgToken)
  <2>1. f \in UpFrames /\ f.type = "hello"
    BY DEF UpFrames, Frame, CountsOK
  <2>2. <<f>> \in Seq(UpFrames) /\ Len(<<f>>) = 1 /\ <<f>>[1] = f
    BY <2>1
  <2> HIDE DEF f
  <2>3. up' = [up EXCEPT ![s] = <<f>>]
    BY <1>5 DEF Connect, f
  <2>4. Carried(<<f>>, up[s], 0, "resp")
    BY <2>1, <2>2 DEF Carried
  <2> QED
    BY <1>0, <2>2, <2>3, <2>4, SameCarries DEF CarriedUp, FramesOK
<1>6. ASSUME NEW s \in Sockets, up' = [up EXCEPT ![s] = <<>>]
      PROVE  FramesGo
  BY <1>0, <1>6, EmptySeq, EmptyCarries, SameCarries DEF CarriedUp, FramesOK
<1>7. ASSUME UNCHANGED up
      PROVE  FramesGo
  BY <1>0, <1>7, SameCarries DEF CarriedUp, FramesOK
<1>8. ASSUME NEW s \in Sockets, NearCloses(s) \/ Cut(s)
      PROVE  FramesGo
  BY <1>6, <1>8 DEF NearCloses, Cut
<1>9. ASSUME NEW s \in Sockets,
             \/ NearSees(s) \/ PortsReach(s) \/ TokenReaches(s) \/ JobReaches(s)
             \/ FarSees(s) \/ FarCloses(s)
      PROVE  UNCHANGED up
  BY <1>9 DEF NearSees, PortsReach, TokenReaches, JobReaches, FarSees, FarCloses, netVars
<1>10. ASSUME NEW q \in Requests, Request(q) \/ RequestTimesOut(q)
      PROVE  UNCHANGED up
  BY <1>10 DEF Request, RequestTimesOut, netVars
<1>11. ASSUME RotateToken \/ PushPorts \/ EditPorts \/ ToggleSpark \/ SaveToken \/ AgentCrash
      PROVE  UNCHANGED up
  BY <1>11 DEF RotateToken, PushPorts, EditPorts, ToggleSpark, SaveToken, AgentCrash, netVars
<1> HIDE DEF FramesGo
<1>12. FramesGo \/ (\E s \in Sockets : Connect(s)) \/ (\E q \in Requests : JobExits(q))
  <2>1. CASE LinkEvent
    BY <1>2, <1>8, <2>1 DEF LinkEvent
  <2>2. CASE \E q \in Requests : Request(q) \/ RequestTimesOut(q) \/ JobExits(q)
    BY <1>7, <1>10, <2>2
  <2>3. CASE RotateToken \/ PushPorts \/ EditPorts \/ ToggleSpark \/ SaveToken \/ AgentCrash
    BY <1>7, <1>11, <2>3
  <2>4. ASSUME NEW s \in Sockets,
          \/ HelloRefused(s) \/ ResponseArrives(s) \/ NearSees(s)
          \/ PortsReach(s) \/ TokenReaches(s) \/ JobReaches(s)
          \/ FarSees(s) \/ FarCloses(s) \/ Cut(s)
        PROVE FramesGo
    BY <1>2, <1>7, <1>8, <1>9, <2>4
  <2> QED
    BY <1>3, <2>1, <2>2, <2>3, <2>4 DEF LinkNext, LinkQuiet
<1> QED
  BY <1>4, <1>5, <1>12 DEF FramesGo

\* So it does of what is on its way to the agent; a command is sent by its
\* request alone.
LEMMA DownStep ==
  ASSUME SocketsOK, CountsOK, FramesOK, LinkNext
  PROVE  /\ down' \in [Sockets -> Seq(DownFrames)]
         /\ CarriedDown("job-run") \/ \E q \in Requests : Request(q)
<1> DEFINE FramesGo == down' \in [Sockets -> Seq(DownFrames)] /\ CarriedDown("job-run")
<1>0. \A s \in Sockets : down[s] \in Seq(DownFrames) /\ Len(down[s]) \in Nat
  BY LenProperties DEF FramesOK
<1>1. ASSUME NEW s \in Sockets, NEW t, Reaches(s, t)
      PROVE  FramesGo
  BY <1>0, <1>1, Reached, ShiftedCarries, SameCarries DEF CarriedDown
<1>2. ASSUME NEW s \in Sockets, PortsReach(s) \/ TokenReaches(s) \/ JobReaches(s)
      PROVE  FramesGo
  BY <1>1, <1>2 DEF PortsReach, TokenReaches, JobReaches
<1>3. ASSUME NEW f \in DownFrames, f.type # "job-run", SendIfConnected(f)
      PROVE  FramesGo
  BY <1>0, <1>3, SentIfConnected, GrownCarries, SameCarries DEF CarriedDown
<1>4. ASSUME RotateToken \/ PushPorts PROVE FramesGo
  <2>1. Frame("token", token + 1) \in DownFrames /\ Frame("ports", ports + 1) \in DownFrames
    BY <1>4, OneMoreEvent DEF RotateToken, PushPorts, DownFrames, Frame
  <2> QED
    BY <1>3, <1>4, <2>1 DEF RotateToken, PushPorts, Frame
<1>5. ASSUME NEW s \in Sockets, HelloAccepted(s)
      PROVE  FramesGo
  <2>1. Frame("welcome", ports) \in DownFrames /\ Frame("welcome", ports).type = "welcome"
    BY DEF DownFrames, Frame, CountsOK
  <2>2. down' = down \/ down' = ToAgent(s, Frame("welcome", ports))
    BY <1>5 DEF HelloAccepted
  <2>3. /\ down' \in [Sockets -> Seq(DownFrames)]
        /\ \A r \in Sockets : down'[r] = down[r] \/ Grown(down'[r], down[r], Frame("welcome", ports))
    BY <1>0, <2>1, <2>2, SentDown DEF FramesOK
  <2>4. \A r \in Sockets : Carried(down'[r], down[r], 0, "job-run")
    BY <1>0, <2>1, <2>3, GrownCarries, SameCarries
  <2> QED
    BY <2>3, <2>4 DEF CarriedDown
<1>6. ASSUME NEW q \in Requests, Request(q)
      PROVE  down' \in [Sockets -> Seq(DownFrames)]
  <2>1. Frame("job-run", q) \in DownFrames
    BY DEF DownFrames, Frame
  <2> QED
    BY <1>6, <2>1, SentIfConnected DEF Request
<1>7. ASSUME NEW s \in Sockets, down' = [down EXCEPT ![s] = <<>>]
      PROVE  FramesGo
  BY <1>0, <1>7, EmptySeq, EmptyCarries, SameCarries DEF CarriedDown, FramesOK
<1>8. ASSUME NEW s \in Sockets, Connect(s) \/ FarCloses(s) \/ Cut(s)
      PROVE  FramesGo
  BY <1>7, <1>8 DEF Connect, FarCloses, Cut
<1>9. ASSUME AgentCrash PROVE FramesGo
  BY <1>0, <1>9, EmptySeq, EmptyCarries DEF AgentCrash, CarriedDown, FramesOK
<1>10. ASSUME UNCHANGED down
      PROVE  FramesGo
  BY <1>0, <1>10, SameCarries DEF CarriedDown, FramesOK
<1>11. ASSUME NEW s \in Sockets,
             \/ HelloRefused(s) \/ MetricsArrive(s) \/ ResponseArrives(s)
             \/ NearSees(s) \/ NearCloses(s) \/ FarSees(s)
      PROVE  UNCHANGED down
  BY <1>11 DEF HelloRefused, MetricsArrive, ResponseArrives, NearSees, NearCloses, FarSees, netVars
<1>12. ASSUME NEW q \in Requests, RequestTimesOut(q) \/ JobExits(q)
      PROVE  UNCHANGED down
  BY <1>12 DEF RequestTimesOut, JobExits, netVars
<1>13. ASSUME EditPorts \/ ToggleSpark \/ Push \/ SaveToken
      PROVE  UNCHANGED down
  BY <1>13 DEF EditPorts, ToggleSpark, Push, SaveToken, netVars
<1> HIDE DEF FramesGo
<1>14. FramesGo \/ \E q \in Requests : Request(q)
  BY <1>2, <1>4, <1>5, <1>8, <1>9, <1>10, <1>11, <1>12, <1>13 DEF LinkNext, LinkEvent, LinkQuiet
<1> QED
  BY <1>6, <1>14 DEF FramesGo

\* The variables keep their types.
LEMMA LinkVarsStep ==
  ASSUME LinkVarsOK, FramesOK, LinkNext
  PROVE  LinkVarsOK'
<1> USE DEF LinkVarsOK
<1>1. CountsOK'
  <2>1. ASSUME RotateToken \/ PushPorts \/ EditPorts \/ Push PROVE CountsOK'
    <3>1. \/ token' = token + 1 /\ UNCHANGED <<ports, sent>>
          \/ ports' = ports + 1 /\ UNCHANGED <<token, sent>>
          \/ sent' = sent + 1 /\ UNCHANGED <<token, ports>>
      BY <2>1 DEF RotateToken, PushPorts, EditPorts, Push, dashVars, agentVars
    <3>2. MoreEvents /\ UNCHANGED <<cfgToken, agentPorts, seen, faults>>
      BY <2>1 DEF RotateToken, PushPorts, EditPorts, Push, dashVars, agentVars, netVars
    <3> QED
      BY <3>1, <3>2, OneMoreEvent, LinkAssumption DEF CountsOK
  <2>2. ASSUME SaveToken PROVE CountsOK'
    <3>1. Head(saving) \in 1..MaxEvents
      BY <2>2, HeadTailProperties DEF SavingOK, SaveToken
    <3>2. cfgToken' = Head(saving) /\ UNCHANGED <<token, ports, agentPorts, seen, sent, faults>>
      BY <2>2 DEF SaveToken, dashVars, netVars
    <3> QED
      BY <3>1, <3>2, LinkAssumption DEF CountsOK
  <2>3. ASSUME NEW s \in Sockets, MetricsArrive(s) PROVE CountsOK'
    <3>1. Head(up[s]).val \in 1..MaxEvents
      BY <2>3, Arrived DEF MetricsArrive, UpFrames
    <3> QED
      BY <2>3, <3>1, LinkAssumption DEF CountsOK, MetricsArrive, Applied, agentVars
  <2>4. ASSUME NEW s \in Sockets, PortsReach(s) PROVE CountsOK'
    <3>1. Head(down[s]).val \in 0..MaxEvents
      BY <2>4, Reached DEF PortsReach, DownFrames
    <3> QED
      BY <2>4, <3>1, LinkAssumption DEF CountsOK, PortsReach, dashVars
  <2>5. ASSUME AgentCrash \/ \E s \in Sockets : Cut(s) PROVE CountsOK'
    BY <2>5, LinkAssumption DEF CountsOK, AgentCrash, Cut, dashVars, agentVars
  <2>6. ASSUME ToggleSpark
               \/ \E q \in Requests : Request(q) \/ RequestTimesOut(q) \/ JobExits(q)
        PROVE  CountsOK'
    BY <2>6 DEF CountsOK, ToggleSpark, Request, RequestTimesOut, JobExits, dashVars, agentVars, netVars
  <2>7. ASSUME NEW s \in Sockets,
               \/ HelloAccepted(s) \/ HelloRefused(s) \/ ResponseArrives(s) \/ NearSees(s)
               \/ NearCloses(s) \/ Connect(s)
        PROVE  CountsOK'
    BY <2>7 DEF CountsOK, HelloAccepted, HelloRefused, ResponseArrives, NearSees, NearCloses,
       Connect, agentVars, netVars
  <2>8. ASSUME NEW s \in Sockets, TokenReaches(s) \/ JobReaches(s) \/ FarSees(s) \/ FarCloses(s)
        PROVE  CountsOK'
    BY <2>8 DEF CountsOK, TokenReaches, JobReaches, FarSees, FarCloses, dashVars, netVars
  <2> QED
    BY <2>1, <2>2, <2>3, <2>4, <2>5, <2>6, <2>7, <2>8 DEF LinkNext, LinkEvent, LinkQuiet
<1>2. SavingOK'
  <2>1. ASSUME SaveToken PROVE SavingOK'
    BY <2>1, HeadTailProperties DEF SavingOK, SaveToken
  <2>2. ASSUME NEW s \in Sockets, TokenReaches(s) PROVE SavingOK'
    <3>1. Head(down[s]).val \in 1..MaxEvents
      BY <2>2, Reached DEF TokenReaches, DownFrames
    <3> QED
      BY <2>2, <3>1, AppendProperties DEF SavingOK, TokenReaches
  <2>3. ASSUME AgentCrash PROVE SavingOK'
    BY <2>3, EmptySeq DEF SavingOK, AgentCrash
  <2>4. \/ SaveToken \/ AgentCrash \/ (\E s \in Sockets : TokenReaches(s)) \/ UNCHANGED saving
    BY DEF LinkNext, LinkEvent, LinkQuiet, HelloAccepted, HelloRefused, ResponseArrives, NearSees,
       NearCloses, Connect, FarSees, FarCloses, PortsReach, JobReaches, MetricsArrive, RotateToken,
       PushPorts, EditPorts, ToggleSpark, Push, Request, RequestTimesOut, JobExits, Cut,
       dashVars, agentVars, netVars
  <2> QED
    BY <2>1, <2>2, <2>3, <2>4 DEF SavingOK
<1>3. FlagsOK'
  BY ZenonT(30) DEF FlagsOK, LinkNext, LinkEvent, LinkQuiet, HelloAccepted, HelloRefused, ResponseArrives,
     NearSees, NearCloses, Connect, FarSees, FarCloses, PortsReach, TokenReaches, JobReaches,
     MetricsArrive, RotateToken, PushPorts, EditPorts, ToggleSpark, Push, SaveToken, AgentCrash,
     Request, RequestTimesOut, JobExits, Cut, dashVars, agentVars, netVars
<1>4. RequestsOK'
  <2>1. ASSUME NEW q \in Requests, Request(q) \/ RequestTimesOut(q) \/ JobExits(q)
        PROVE  RequestsOK'
    BY <2>1 DEF RequestsOK, Request, RequestTimesOut, JobExits, dashVars, agentVars
  <2>2. ASSUME NEW s \in Sockets, ResponseArrives(s) \/ JobReaches(s)
        PROVE  RequestsOK'
    BY <2>2 DEF RequestsOK, ResponseArrives, JobReaches, Resolved, dashVars, agentVars
  <2>3. ASSUME AgentCrash PROVE RequestsOK'
    BY <2>3 DEF RequestsOK, AgentCrash, dashVars
  <2>4. \/ AgentCrash \/ (\E q \in Requests : Request(q) \/ RequestTimesOut(q) \/ JobExits(q))
        \/ (\E s \in Sockets : ResponseArrives(s) \/ JobReaches(s))
        \/ UNCHANGED <<pending, process>>
    BY DEF LinkNext, LinkEvent, LinkQuiet, HelloAccepted, HelloRefused, NearSees,
       NearCloses, Connect, FarSees, FarCloses, PortsReach, TokenReaches, MetricsArrive, RotateToken,
       PushPorts, EditPorts, ToggleSpark, Push, SaveToken, Cut, dashVars, agentVars, netVars
  <2> QED
    BY <2>1, <2>2, <2>3, <2>4 DEF RequestsOK
<1>5. SocketsOK'
  <2>1. ASSUME NEW s \in Sockets,
               \/ HelloAccepted(s) \/ HelloRefused(s) \/ NearSees(s) \/ NearCloses(s) \/ Connect(s)
               \/ FarSees(s) \/ FarCloses(s) \/ Cut(s)
        PROVE  SocketsOK'
    BY <2>1 DEF SocketsOK, Ends, HelloAccepted, HelloRefused, NearSees, NearCloses, Unregistered,
       Connect, FarSees, FarCloses, Cut, dashVars, agentVars, netVars
  <2>2. ASSUME SaveToken \/ AgentCrash PROVE SocketsOK'
    BY <2>2 DEF SocketsOK, Ends, SaveToken, AgentCrash, dashVars, netVars
  <2>3. \/ SaveToken \/ AgentCrash
        \/ \E s \in Sockets :
             \/ HelloAccepted(s) \/ HelloRefused(s) \/ NearSees(s) \/ NearCloses(s) \/ Connect(s)
             \/ FarSees(s) \/ FarCloses(s) \/ Cut(s)
        \/ UNCHANGED <<conn, sock, near, far, registered, cut>>
    BY DEF LinkNext, LinkEvent, LinkQuiet, PortsReach, TokenReaches, JobReaches, MetricsArrive,
       ResponseArrives, RotateToken, PushPorts, EditPorts, ToggleSpark, Push, Request,
       RequestTimesOut, JobExits, dashVars, agentVars, netVars
  <2> QED
    BY <2>1, <2>2, <2>3 DEF SocketsOK
<1> QED
  BY <1>1, <1>2, <1>3, <1>4, <1>5

\* The two ends of a socket, and the registry.
LEMMA EndsStep ==
  ASSUME LinkInv, LinkNext
  PROVE  EndsHeld' /\ OneConnection'
<1> SocketsOK /\ FramesOK /\ EndsHeld /\ OneConnection
  BY DEF LinkInv, LinkVarsOK
<1> DEFINE Held == EndsHeld' /\ OneConnection'
<1>0. \A s \in Sockets : Len(down[s]) \in Nat
  BY LenProperties DEF FramesOK
<1>1. ASSUME NEW s \in Sockets, HelloAccepted(s) PROVE Held
  <2>1. \A r \in Sockets : far[r] = "closed" => down'[r] = down[r]
    BY <1>1 DEF HelloAccepted, ToAgent, FramesOK
  <2> QED
    BY <1>1, <2>1 DEF HelloAccepted, Arrives, SocketsOK, Ends, EndsHeld, OneConnection, agentVars
<1>2. ASSUME NEW s \in Sockets, HelloRefused(s) \/ NearSees(s) \/ NearCloses(s) PROVE Held
  BY <1>2 DEF HelloRefused, NearSees, NearCloses, Unregistered, Arrives, SocketsOK, Ends, EndsHeld,
     OneConnection, agentVars, netVars
<1>3. ASSUME NEW s \in Sockets, Connect(s) PROVE Held
  <2>1. Len(<<>>) = 0
    BY EmptySeq
  <2>2. \A r \in Sockets : Len(down'[r]) = 0
    BY <1>3, <2>1, LinkAssumption DEF Connect, SocketsOK, EndsHeld, FramesOK
  <2> QED
    BY <1>3, <2>2, LinkAssumption DEF Connect, SocketsOK, Ends, EndsHeld, OneConnection
<1>4. ASSUME NEW s \in Sockets, FarSees(s) \/ FarCloses(s) \/ Cut(s) PROVE Held
  <2>1. Len(<<>>) = 0
    BY EmptySeq
  <2> QED
    BY <1>4, <2>1 DEF FarSees, FarCloses, Cut, SocketsOK, Ends, EndsHeld, OneConnection, FramesOK,
       dashVars, agentVars, netVars
<1>5. ASSUME SaveToken \/ AgentCrash PROVE Held
  <2>1. Len(<<>>) = 0
    BY EmptySeq
  <2> QED
    BY <1>5, <2>1 DEF SaveToken, AgentCrash, SocketsOK, Ends, EndsHeld, OneConnection, dashVars, netVars
<1>6. ASSUME NEW s \in Sockets, PortsReach(s) \/ TokenReaches(s) \/ JobReaches(s) PROVE Held
  <2>1. \A r \in Sockets : far[r] = "closed" => down'[r] = down[r]
    BY <1>6 DEF PortsReach, TokenReaches, JobReaches, Reaches, FramesOK
  <2> QED
    BY <1>6, <2>1 DEF PortsReach, TokenReaches, JobReaches, EndsHeld, OneConnection, dashVars
<1>7. ASSUME RotateToken \/ PushPorts \/ \E q \in Requests : Request(q) PROVE Held
  <2>1. \A r \in Sockets : far[r] = "closed" => down'[r] = down[r]
    BY <1>7 DEF RotateToken, PushPorts, Request, SendIfConnected, ToAgent, FramesOK
  <2> QED
    BY <1>7, <2>1 DEF RotateToken, PushPorts, Request, EndsHeld, OneConnection, agentVars
<1> HIDE DEF Held
<1>8. \/ Held
      \/ UNCHANGED <<conn, sock, near, far, registered, down>>
  BY <1>1, <1>2, <1>3, <1>4, <1>5, <1>6, <1>7 DEF LinkNext, LinkEvent, LinkQuiet, MetricsArrive,
     ResponseArrives, EditPorts, ToggleSpark, Push, RequestTimesOut, JobExits,
     dashVars, agentVars, netVars
<1> QED
  BY <1>8 DEF Held, EndsHeld, OneConnection

\* A hello that is on its way stays the one that counts: a new token closes the
\* agent's end.
LEMMA HelloStep ==
  ASSUME LinkInv, LinkNext
  PROVE  HelloIsCurrent'
<1> SocketsOK /\ CountsOK /\ FramesOK /\ EndsHeld /\ HelloIsCurrent
  BY DEF LinkInv, LinkVarsOK
<1>1. ASSUME NEW s \in Sockets, Connect(s)
      PROVE  HelloIsCurrent'
  <2>1. Len(<<Frame("hello", cfgToken)>>) = 1
        /\ <<Frame("hello", cfgToken)>>[1] = Frame("hello", cfgToken)
    OBVIOUS
  <2>2. \A r \in Sockets : far[r] = "closed"
    BY <1>1, LinkAssumption DEF Connect, EndsHeld, SocketsOK
  <2>3. cfgToken' = cfgToken
    BY <1>1 DEF Connect
  <2>4. \A r \in Sockets \ {s} : far'[r] = "closed"
    BY <1>1, <2>2 DEF Connect, SocketsOK
  <2>5. up'[s] = <<Frame("hello", cfgToken)>>
    BY <1>1 DEF Connect, FramesOK
  <2> QED
    BY <2>1, <2>3, <2>4, <2>5 DEF HelloIsCurrent, Frame
<1>2. ASSUME SaveToken
      PROVE  HelloIsCurrent'
  <2>1. \A s \in Sockets : far'[s] # "open"
    BY <1>2 DEF SaveToken, EndsHeld, SocketsOK
  <2> QED
    BY <2>1 DEF HelloIsCurrent
<1>3. ASSUME CarriedUp("hello"), cfgToken' = cfgToken,
             \A s \in Sockets : far'[s] = "open" => far[s] = "open"
      PROVE  HelloIsCurrent'
  <2> SUFFICES ASSUME NEW s \in Sockets, NEW i \in 1..Len(up'[s]),
                      up'[s][i].type = "hello", far'[s] = "open"
               PROVE  up'[s][i].val = cfgToken'
    BY DEF HelloIsCurrent
  <2>1. PICK k \in 0..1 : i + k \in 1..Len(up[s]) /\ up[s][i + k] = up'[s][i]
    BY <1>3 DEF CarriedUp, Carried
  <2> QED
    BY <1>3, <2>1 DEF HelloIsCurrent
<1>4. \/ SaveToken \/ \E s \in Sockets : Connect(s)
      \/ cfgToken' = cfgToken /\ \A s \in Sockets : far'[s] = "open" => far[s] = "open"
  BY DEF LinkNext, LinkEvent, LinkQuiet, HelloAccepted, HelloRefused, NearSees, NearCloses, FarSees,
     FarCloses, PortsReach, TokenReaches, JobReaches, MetricsArrive, ResponseArrives, RotateToken,
     PushPorts, EditPorts, ToggleSpark, Push, AgentCrash, Request, RequestTimesOut, JobExits, Cut,
     SocketsOK, dashVars, agentVars, netVars
<1> QED
  BY <1>1, <1>2, <1>3, <1>4, UpStep

\* While the link stands, what was behind the head of the channel to the agent
\* stays there, and what is sent is added.
LinkStays == Linked /\ Linked' /\ sock' = sock

\* The link comes to stand by a hello alone.
LEMMA LinkComes ==
  ASSUME SocketsOK, EndsHeld, OneConnection, LinkNext, Linked'
  PROVE  LinkStays \/ \E s \in Sockets : HelloAccepted(s) /\ s = sock /\ sock' = sock
<1>1. ASSUME NEW s \in Sockets, Connect(s)
      PROVE  ~Linked'
  <2>1. near[s] = "closed" /\ conn' = conn /\ sock' = s
    BY <1>1 DEF Connect
  <2> QED
    BY <2>1 DEF Linked, OneConnection
<1>2. ASSUME NEW s \in Sockets, HelloAccepted(s)
      PROVE  s = sock /\ sock' = sock
  BY <1>2 DEF HelloAccepted, Linked, agentVars
<1>3. ASSUME NEW s \in Sockets,
             \/ HelloRefused(s) \/ NearSees(s) \/ NearCloses(s) \/ FarSees(s) \/ FarCloses(s) \/ Cut(s)
      PROVE  LinkStays
  BY <1>3 DEF HelloRefused, NearSees, NearCloses, Unregistered, FarSees, FarCloses, Cut, LinkStays,
     Linked, SocketsOK, dashVars, agentVars, netVars
<1>4. ASSUME SaveToken \/ AgentCrash
      PROVE  LinkStays
  BY <1>4 DEF SaveToken, AgentCrash, LinkStays, Linked, SocketsOK, dashVars, netVars
<1>5. ASSUME UNCHANGED <<conn, sock, near, far, cut>>
      PROVE  LinkStays
  BY <1>5 DEF LinkStays, Linked
<1>6. \/ SaveToken \/ AgentCrash
      \/ \E s \in Sockets : Connect(s) \/ HelloAccepted(s)
      \/ \E s \in Sockets :
           \/ HelloRefused(s) \/ NearSees(s) \/ NearCloses(s) \/ FarSees(s) \/ FarCloses(s) \/ Cut(s)
      \/ UNCHANGED <<conn, sock, near, far, cut>>
  BY DEF LinkNext, LinkEvent, LinkQuiet, PortsReach, TokenReaches, JobReaches, MetricsArrive,
     ResponseArrives, RotateToken, PushPorts, EditPorts, ToggleSpark, Push, Request,
     RequestTimesOut, JobExits, dashVars, agentVars, netVars
<1> QED
  BY <1>1, <1>2, <1>3, <1>4, <1>5, <1>6

\* A rotated token stays on its way until the agent has it.
LEMMA TokenStep ==
  ASSUME LinkInv, LinkNext
  PROVE  TokenComes'
<1> SocketsOK /\ CountsOK /\ FramesOK /\ EndsHeld /\ OneConnection /\ SavingOK
  BY DEF LinkInv, LinkVarsOK
<1> SUFFICES ASSUME Linked'
             PROVE  TokenComes'
  BY DEF TokenComes
<1>1. ASSUME NEW s \in Sockets, HelloAccepted(s), s = sock
      PROVE  cfgToken' = token'
  <2>1. up[s][1].type = "hello" /\ Head(up[s]) = up[s][1] /\ Len(up[s]) \in Nat \ {0}
    BY <1>1, Arrived DEF HelloAccepted
  <2>2. far[s] = "open"
    BY <1>1 DEF HelloAccepted, Linked, agentVars
  <2>3. up[s][1].val = cfgToken
    BY <2>1, <2>2 DEF LinkInv, HelloIsCurrent
  <2> QED
    BY <1>1, <2>1, <2>3 DEF HelloAccepted, Accepts, agentVars
<1>2. ASSUME LinkStays
      PROVE  TokenComes'
  <2> sock \in Sockets /\ conn = sock /\ Linked /\ sock' = sock
    BY <1>2 DEF LinkStays, Linked, SocketsOK
  <2>0. \A r \in Sockets : Len(down[r]) \in Nat
    BY LenProperties DEF FramesOK
  <2>1. ASSUME RotateToken
        PROVE  TokenComes'
    <3>1. Frame("token", token') \in DownFrames
      BY <2>1, OneMoreEvent DEF RotateToken, DownFrames, Frame
    <3>2. Grown(down'[sock], down[sock], Frame("token", token')) /\ Len(down'[sock]) \in Nat
      BY <2>1, <3>1, SentIfConnected DEF RotateToken
    <3>3. \E i \in 1..Len(down'[sock]) : down'[sock][i] = Frame("token", token')
      BY <2>0, <3>2 DEF Grown
    <3> QED
      BY <3>3 DEF TokenComes
  <2>2. ASSUME SaveToken
        PROVE  FALSE
    BY <1>2, <2>2 DEF SaveToken, LinkStays, Linked, SocketsOK
  <2>3. ASSUME NEW s \in Sockets, TokenReaches(s)
        PROVE  TokenComes'
    <3>1. /\ Shifted(down'[s], down[s]) /\ Head(down[s]) = down[s][1] /\ Len(down'[s]) \in Nat
          /\ down[s][1].type = "token" /\ Len(down[s]) \in Nat \ {0}
          /\ down[s][1] \in DownFrames
      BY <2>3, Reached DEF TokenReaches
    <3>2. s = sock
      BY <2>3 DEF TokenReaches, Reaches, EndsHeld
    <3>3. down[s][1].val \in 1..MaxEvents
      BY <3>1 DEF DownFrames
    <3>4. /\ saving' = Append(saving, down[s][1].val) /\ Len(saving) \in Nat
          /\ Len(saving') = Len(saving) + 1 /\ saving'[Len(saving) + 1] = down[s][1].val
          /\ \A i \in 1..Len(saving) : saving'[i] = saving[i]
      BY <2>3, <3>1, <3>3, AppendProperties, LenProperties DEF TokenReaches, SavingOK
    <3>5. cfgToken' = cfgToken /\ token' = token
      BY <2>3 DEF TokenReaches, dashVars
    <3>6. CASE \E i \in 1..Len(saving) : saving[i] = token
      BY <3>4, <3>5, <3>6 DEF TokenComes
    <3>7. ASSUME NEW i \in 1..Len(down[sock]), down[sock][i] = Frame("token", token)
          PROVE  TokenComes'
      <4>1. CASE i = 1
        <5>1. saving'[Len(saving) + 1] = token'
          BY <3>2, <3>4, <3>5, <3>7, <4>1 DEF Frame
        <5> QED
          BY <3>4, <5>1 DEF TokenComes
      <4>2. CASE i # 1
        <5>1. i - 1 \in 1..Len(down'[sock]) /\ down'[sock][i - 1] = Frame("token", token')
          BY <3>1, <3>2, <3>5, <3>7, <4>2 DEF Shifted
        <5> QED
          BY <5>1 DEF TokenComes
      <4> QED
        BY <4>1, <4>2
    <3>8. CASE cfgToken = token
      BY <3>5, <3>8 DEF TokenComes
    <3> QED
      BY <3>6, <3>7, <3>8 DEF LinkInv, TokenComes
  <2>4. ASSUME UNCHANGED <<token, cfgToken, saving>>,
               \A i \in 1..Len(down[sock]) : down[sock][i] = Frame("token", token) =>
                   \E j \in 1..Len(down'[sock]) : down'[sock][j] = Frame("token", token)
        PROVE  TokenComes'
    BY <2>4 DEF LinkInv, TokenComes
  <2>5. ASSUME NEW s \in Sockets, PortsReach(s) \/ JobReaches(s)
        PROVE  TokenComes'
    <3>1. Reaches(s, "welcome") \/ Reaches(s, "ports") \/ Reaches(s, "job-run")
      BY <2>5 DEF PortsReach, JobReaches
    <3>2. /\ Shifted(down'[s], down[s]) /\ Len(down[s]) \in Nat \ {0} /\ Len(down'[s]) \in Nat
          /\ down[s][1].type # "token"
      BY <3>1, Reached
    <3>3. s = sock
      BY <3>1 DEF Reaches, EndsHeld
    <3>4. ASSUME NEW i \in 1..Len(down[sock]), down[sock][i] = Frame("token", token)
          PROVE  i - 1 \in 1..Len(down'[sock]) /\ down'[sock][i - 1] = Frame("token", token)
      BY <3>2, <3>3, <3>4 DEF Shifted, Frame
    <3> QED
      BY <2>4, <2>5, <3>4 DEF PortsReach, JobReaches, dashVars
  <2>6. ASSUME PushPorts \/ \E q \in Requests : Request(q)
        PROVE  TokenComes'
    <3>1. \E f \in DownFrames : SendIfConnected(f)
      <4>1. ASSUME PushPorts PROVE Frame("ports", ports') \in DownFrames
        BY <4>1, OneMoreEvent DEF PushPorts, DownFrames, Frame
      <4>2. \A q \in Requests : Frame("job-run", q) \in DownFrames
        BY DEF DownFrames, Frame
      <4> QED
        BY <2>6, <4>1, <4>2 DEF PushPorts, Request
    <3>2. \E f : Grown(down'[sock], down[sock], f)
      BY <3>1, SentIfConnected
    <3>3. \A i \in 1..Len(down[sock]) : i \in 1..Len(down'[sock]) /\ down'[sock][i] = down[sock][i]
      BY <2>0, <3>2 DEF Grown
    <3> QED
      BY <2>4, <2>6, <3>3 DEF PushPorts, Request, agentVars
  <2>7. ASSUME NEW s \in Sockets, FarCloses(s) \/ Cut(s)
        PROVE  TokenComes'
    <3>1. s # sock
      BY <1>2, <2>7 DEF FarCloses, Cut, LinkStays, Linked, SocketsOK
    <3>2. down'[sock] = down[sock]
      BY <2>7, <3>1 DEF FarCloses, Cut, FramesOK
    <3> QED
      BY <2>4, <2>7, <3>2 DEF FarCloses, Cut, dashVars, agentVars
  <2>8. ASSUME NEW s \in Sockets, Connect(s) \/ HelloAccepted(s)
        PROVE  TokenComes'
    BY <1>1, <1>2, <2>8 DEF TokenComes, Connect, HelloAccepted, LinkStays, Linked, agentVars
  <2>9. ASSUME UNCHANGED <<token, cfgToken, saving, down>>
        PROVE  TokenComes'
    BY <2>4, <2>9
  <2>10. ASSUME AgentCrash
        PROVE  FALSE
    BY <1>2, <2>10 DEF AgentCrash, LinkStays, Linked
  <2> QED
    BY <2>1, <2>2, <2>3, <2>5, <2>6, <2>7, <2>8, <2>9, <2>10 DEF LinkNext, LinkEvent, LinkQuiet,
       MetricsArrive, ResponseArrives, HelloRefused, NearSees, NearCloses, FarSees, EditPorts,
       ToggleSpark, Push, RequestTimesOut, JobExits, dashVars, agentVars, netVars
<1> QED
  BY <1>1, <1>2, LinkComes DEF TokenComes

\* The ports that were sent last are the last to come.
LEMMA PortsStep ==
  ASSUME LinkInv, LinkNext
  PROVE  PortsCome'
<1> SocketsOK /\ CountsOK /\ FramesOK /\ EndsHeld /\ OneConnection
  BY DEF LinkInv, LinkVarsOK
<1> SUFFICES ASSUME Linked', ~silent'
             PROVE  PortsCome'
  BY DEF PortsCome
<1>0. \A s \in Sockets : Len(down[s]) \in Nat
  BY LenProperties DEF FramesOK
<1>1. ASSUME NEW f, Grown(down'[sock], down[sock], f), Len(down[sock]) \in Nat, sock' = sock,
             IsPorts(f), f.val = ports'
      PROVE  PortsCome'
  <2>1. /\ Len(down[sock]) + 1 \in 1..Len(down'[sock])
        /\ Len(down'[sock]) = Len(down[sock]) + 1
        /\ down'[sock][Len(down[sock]) + 1] = f
    BY <1>1 DEF Grown
  <2> QED
    BY <1>1, <2>1 DEF PortsCome
<1>2. ASSUME NEW s \in Sockets, HelloAccepted(s), s = sock, sock' = sock
      PROVE  PortsCome'
  <2>1. near[s] = "open" /\ ~cut[s] /\ far[s] # "closed"
    BY <1>2 DEF HelloAccepted, Linked, SocketsOK, Ends, agentVars
  <2>2. Frame("welcome", ports) \in DownFrames /\ IsPorts(Frame("welcome", ports))
        /\ Frame("welcome", ports).val = ports
    BY DEF DownFrames, Frame, CountsOK, IsPorts
  <2>3. down' = ToAgent(s, Frame("welcome", ports)) /\ ports' = ports
    BY <1>2, <2>1 DEF HelloAccepted
  <2>4. Grown(down'[s], down[s], Frame("welcome", ports))
    BY <2>1, <2>2, <2>3, SentDown
  <2> QED
    BY <1>0, <1>1, <1>2, <2>2, <2>3, <2>4
<1>3. ASSUME LinkStays
      PROVE  PortsCome'
  <2> sock \in Sockets /\ conn = sock /\ Linked /\ sock' = sock
    BY <1>3 DEF LinkStays, Linked, SocketsOK
  <2>1. ASSUME PushPorts
        PROVE  PortsCome'
    <3>1. Frame("ports", ports') \in DownFrames /\ IsPorts(Frame("ports", ports'))
          /\ Frame("ports", ports').val = ports'
      BY <2>1, OneMoreEvent DEF PushPorts, DownFrames, Frame, IsPorts
    <3>2. Grown(down'[sock], down[sock], Frame("ports", ports'))
      BY <2>1, <3>1, SentIfConnected DEF PushPorts
    <3> QED
      BY <1>0, <1>1, <3>1, <3>2
  <2>2. ASSUME UNCHANGED <<ports, agentPorts, silent>>, UNCHANGED down[sock]
        PROVE  PortsCome'
    BY <2>2 DEF LinkInv, PortsCome
  <2>3. ASSUME NEW f, Grown(down'[sock], down[sock], f), ~IsPorts(f),
               UNCHANGED <<ports, agentPorts, silent>>
        PROVE  PortsCome'
    <3>1. /\ Len(down'[sock]) = Len(down[sock]) + 1 /\ down'[sock][Len(down'[sock])] = f
          /\ \A i \in 1..Len(down[sock]) : down'[sock][i] = down[sock][i]
      BY <1>0, <2>3 DEF Grown
    <3>2. CASE /\ agentPorts = ports
               /\ \A i \in 1..Len(down[sock]) : ~IsPorts(down[sock][i])
      BY <1>0, <2>3, <3>1, <3>2 DEF PortsCome
    <3>3. ASSUME NEW i \in 1..Len(down[sock]),
                 IsPorts(down[sock][i]), down[sock][i].val = ports,
                 \A j \in i+1..Len(down[sock]) : ~IsPorts(down[sock][j])
          PROVE  PortsCome'
      <4>1. i \in 1..Len(down'[sock]) /\ IsPorts(down'[sock][i]) /\ down'[sock][i].val = ports'
        BY <1>0, <2>3, <3>1, <3>3
      <4>2. ASSUME NEW j \in i+1..Len(down'[sock])
            PROVE  ~IsPorts(down'[sock][j])
        BY <1>0, <2>3, <3>1, <3>3
      <4> QED
        BY <4>1, <4>2 DEF PortsCome
    <3> QED
      BY <2>3, <3>2, <3>3 DEF LinkInv, PortsCome
  <2>4. ASSUME RotateToken \/ \E q \in Requests : Request(q)
        PROVE  PortsCome'
    <3>1. ASSUME RotateToken
          PROVE  Frame("token", token') \in DownFrames /\ ~IsPorts(Frame("token", token'))
      BY <3>1, OneMoreEvent DEF RotateToken, DownFrames, Frame, IsPorts
    <3>2. \A q \in Requests : Frame("job-run", q) \in DownFrames /\ ~IsPorts(Frame("job-run", q))
      BY DEF DownFrames, Frame, IsPorts
    <3>3. PICK f \in DownFrames : SendIfConnected(f) /\ ~IsPorts(f)
      BY <2>4, <3>1, <3>2 DEF RotateToken, Request
    <3>4. Grown(down'[sock], down[sock], f)
      BY <3>3, SentIfConnected
    <3> QED
      BY <2>3, <2>4, <3>3, <3>4 DEF RotateToken, Request, agentVars
  <2>5. ASSUME NEW s \in Sockets, NEW t, Reaches(s, t)
        PROVE  /\ s = sock
               /\ Shifted(down'[sock], down[sock]) /\ Len(down[sock]) \in Nat \ {0}
               /\ Len(down'[sock]) \in Nat
               /\ Head(down[sock]) = down[sock][1] /\ down[sock][1].type = t
    BY <2>5, Reached DEF Reaches, EndsHeld
  <2>6. ASSUME NEW s \in Sockets, TokenReaches(s) \/ JobReaches(s)
        PROVE  PortsCome'
    <3>1. /\ Shifted(down'[sock], down[sock]) /\ Len(down[sock]) \in Nat \ {0}
          /\ Len(down'[sock]) \in Nat
          /\ ~IsPorts(down[sock][1])
      BY <2>5, <2>6 DEF TokenReaches, JobReaches, IsPorts
    <3>2. UNCHANGED <<ports, agentPorts, silent>>
      BY <2>6 DEF TokenReaches, JobReaches, dashVars
    <3>3. CASE /\ agentPorts = ports
               /\ \A i \in 1..Len(down[sock]) : ~IsPorts(down[sock][i])
      BY <3>1, <3>2, <3>3 DEF Shifted, PortsCome
    <3>4. ASSUME NEW i \in 1..Len(down[sock]),
                 IsPorts(down[sock][i]), down[sock][i].val = ports,
                 \A j \in i+1..Len(down[sock]) : ~IsPorts(down[sock][j])
          PROVE  PortsCome'
      <4>1. i - 1 \in 1..Len(down'[sock])
        BY <3>1, <3>4 DEF Shifted
      <4>2. IsPorts(down'[sock][i - 1]) /\ down'[sock][i - 1].val = ports'
        <5>1. down'[sock][i - 1] = down[sock][i]
          BY <3>1, <3>4, <4>1 DEF Shifted
        <5> QED
          BY <3>2, <3>4, <5>1
      <4>3. ASSUME NEW j \in (i - 1)+1..Len(down'[sock])
            PROVE  ~IsPorts(down'[sock][j])
        <5>1. j \in 1..Len(down'[sock]) /\ j + 1 \in i+1..Len(down[sock])
          BY <3>1, <3>4, <4>3 DEF Shifted
        <5> QED
          BY <3>1, <3>4, <5>1 DEF Shifted
      <4> QED
        BY <4>1, <4>2, <4>3 DEF PortsCome
    <3> QED
      BY <2>6, <3>2, <3>3, <3>4 DEF LinkInv, PortsCome
  <2>7. ASSUME NEW s \in Sockets, PortsReach(s)
        PROVE  PortsCome'
    <3>1. /\ Shifted(down'[sock], down[sock]) /\ Len(down[sock]) \in Nat \ {0}
          /\ Len(down'[sock]) \in Nat
          /\ agentPorts' = down[sock][1].val /\ IsPorts(down[sock][1])
      BY <2>5, <2>7 DEF PortsReach, IsPorts
    <3>2. UNCHANGED <<ports, silent>>
      BY <2>7 DEF PortsReach, dashVars
    <3>3. PICK i \in 1..Len(down[sock]) :
             /\ IsPorts(down[sock][i]) /\ down[sock][i].val = ports
             /\ \A j \in i+1..Len(down[sock]) : ~IsPorts(down[sock][j])
      BY <3>1, <3>2 DEF LinkInv, PortsCome
    <3>4. CASE i = 1
      BY <3>1, <3>2, <3>3, <3>4 DEF Shifted, PortsCome
    <3>5. CASE i # 1
      <4>1. i - 1 \in 1..Len(down'[sock])
        BY <3>1, <3>3, <3>5 DEF Shifted
      <4>2. IsPorts(down'[sock][i - 1]) /\ down'[sock][i - 1].val = ports'
        BY <3>1, <3>2, <3>3, <4>1 DEF Shifted
      <4>3. ASSUME NEW j \in (i - 1)+1..Len(down'[sock])
            PROVE  ~IsPorts(down'[sock][j])
        <5>1. j \in 1..Len(down'[sock]) /\ j + 1 \in i+1..Len(down[sock])
          BY <3>1, <3>3, <4>3 DEF Shifted
        <5> QED
          BY <3>1, <3>3, <5>1 DEF Shifted
      <4> QED
        BY <4>1, <4>2, <4>3 DEF PortsCome
    <3> QED
      BY <3>4, <3>5
  <2>8. ASSUME NEW s \in Sockets, FarCloses(s) \/ Cut(s)
        PROVE  PortsCome'
    <3>1. s # sock
      BY <1>3, <2>8 DEF FarCloses, Cut, LinkStays, Linked, SocketsOK
    <3>2. down'[sock] = down[sock]
      BY <2>8, <3>1 DEF FarCloses, Cut, FramesOK
    <3> QED
      BY <2>2, <2>8, <3>2 DEF FarCloses, Cut, dashVars, agentVars
  <2>9. ASSUME NEW s \in Sockets, Connect(s)
        PROVE  FALSE
    BY <1>3, <2>9 DEF Connect, LinkStays, Linked
  <2>10. ASSUME NEW s \in Sockets, HelloAccepted(s)
        PROVE  PortsCome'
    BY <1>2, <1>3, <2>10 DEF HelloAccepted, LinkStays, Linked, agentVars
  <2>11. ASSUME EditPorts \/ AgentCrash
        PROVE  FALSE
    BY <1>3, <2>11 DEF EditPorts, AgentCrash, LinkStays, Linked
  <2>12. ASSUME UNCHANGED <<ports, agentPorts, silent, down>>
        PROVE  PortsCome'
    BY <2>2, <2>12
  <2> QED
    BY <2>1, <2>4, <2>6, <2>7, <2>8, <2>9, <2>10, <2>11, <2>12 DEF LinkNext, LinkEvent, LinkQuiet,
       MetricsArrive, ResponseArrives, HelloRefused, NearSees, NearCloses, FarSees,
       ToggleSpark, Push, SaveToken, RequestTimesOut, JobExits, dashVars, agentVars, netVars
<1> QED
  BY <1>2, <1>3, LinkComes

\* A command starts once, and is answered by its own end.
LEMMA CommandsStep ==
  ASSUME LinkInv, LinkNext
  PROVE  CommandsOnce' /\ AnswerIsItsOwn'
<1> SocketsOK /\ CountsOK /\ RequestsOK /\ FramesOK /\ EndsHeld /\ CommandsOnce /\ AnswerIsItsOwn
  BY DEF LinkInv, LinkVarsOK
<1> DEFINE Asked(s, i, q) == i \in 1..Len(down[s]) /\ down[s][i] = Frame("job-run", q)
           Ended(s, i, q) == i \in 1..Len(up[s]) /\ up[s][i] = Frame("resp", q)
<1>0. \A s \in Sockets : Len(down[s]) \in Nat /\ Len(up[s]) \in Nat
  BY LenProperties DEF FramesOK
<1>1. ASSUME CarriedDown("job-run"), CarriedUp("resp"),
             \A q \in Requests :
                /\ process'[q] = process[q]
                /\ pending'[q] = "idle" => pending[q] = "idle"
                /\ pending'[q] = "answered" => process[q] = "ended"
      PROVE  CommandsOnce' /\ AnswerIsItsOwn'
  <2>1. ASSUME NEW q \in Requests, NEW s \in Sockets, NEW i \in 1..Len(down'[s]),
               down'[s][i] = Frame("job-run", q)
        PROVE  /\ pending'[q] # "idle" /\ process'[q] = "none"
               /\ \A j \in 1..Len(down'[s]) : down'[s][j] = Frame("job-run", q) => j = i
    <3>1. PICK k \in 0..1 : Carried(down'[s], down[s], k, "job-run")
      BY <1>1 DEF CarriedDown
    <3>2. \A j \in 1..Len(down'[s]) : down'[s][j] = Frame("job-run", q) =>
             j + k \in 1..Len(down[s]) /\ down[s][j + k] = Frame("job-run", q)
      BY <3>1 DEF Carried, Frame
    <3>3. i + k \in 1..Len(down[s]) /\ down[s][i + k] = Frame("job-run", q)
      BY <2>1, <3>2
    <3>4. pending[q] # "idle" /\ process[q] = "none"
      BY <3>3 DEF CommandsOnce
    <3>5. ASSUME NEW j \in 1..Len(down'[s]), down'[s][j] = Frame("job-run", q)
          PROVE  j = i
      <4>1. j + k = i + k
        BY <3>2, <3>3, <3>5 DEF CommandsOnce
      <4> QED
        BY <1>0, <4>1
    <3> QED
      BY <1>1, <3>4, <3>5
  <2>2. ASSUME NEW q \in Requests, NEW s \in Sockets, NEW i \in 1..Len(up'[s]),
               up'[s][i] = Frame("resp", q)
        PROVE  process'[q] = "ended"
    <3>1. PICK k \in 0..1 : i + k \in 1..Len(up[s]) /\ up[s][i + k] = Frame("resp", q)
      BY <1>1, <2>2 DEF CarriedUp, Carried, Frame
    <3> QED
      BY <1>1, <3>1 DEF CommandsOnce
  <2> QED
    BY <1>1, <2>1, <2>2 DEF CommandsOnce, AnswerIsItsOwn
<1>2. ASSUME NEW q \in Requests, Request(q)
      PROVE  CommandsOnce' /\ AnswerIsItsOwn'
  <2> DEFINE f == Frame("job-run", q)
  <2>1. f \in DownFrames
    BY DEF DownFrames, Frame
  <2>2. \A s \in Sockets : down'[s] = down[s] \/ Grown(down'[s], down[s], f)
    BY <1>2, <2>1, SentIfConnected DEF Request
  <2>3. /\ pending[q] = "idle" /\ process[q] = "none" /\ UNCHANGED <<process, up>>
        /\ pending'[q] \in {"pending", "refused"}
        /\ \A p \in Requests \ {q} : pending'[p] = pending[p]
    BY <1>2 DEF Request, agentVars, CommandsOnce, RequestsOK
  <2>4. \A s \in Sockets : \A i \in 1..Len(down[s]) : down[s][i] # f
    BY <2>3 DEF CommandsOnce
  <2>5. ASSUME NEW s \in Sockets, NEW i \in 1..Len(down'[s]), down'[s][i] = f
        PROVE  \A j \in 1..Len(down'[s]) : down'[s][j] = f => j = i
    BY <1>0, <2>2, <2>4, <2>5 DEF Grown
  <2>6. ASSUME NEW p \in Requests \ {q}, NEW s \in Sockets, NEW i \in 1..Len(down'[s]),
               down'[s][i] = Frame("job-run", p)
        PROVE  /\ pending'[p] # "idle" /\ process'[p] = "none"
               /\ \A j \in 1..Len(down'[s]) : down'[s][j] = Frame("job-run", p) => j = i
    <3>1. Frame("job-run", p) # f
      BY DEF Frame
    <3> HIDE DEF f
    <3>2. \A j \in 1..Len(down'[s]) : down'[s][j] = Frame("job-run", p) =>
             j \in 1..Len(down[s]) /\ down[s][j] = Frame("job-run", p)
      BY <1>0, <2>2, <3>1 DEF Grown
    <3> QED
      BY <2>3, <2>6, <3>2 DEF CommandsOnce
  <2> QED
    BY <2>3, <2>5, <2>6 DEF CommandsOnce, AnswerIsItsOwn
<1>3. ASSUME NEW s \in Sockets, JobReaches(s)
      PROVE  CommandsOnce' /\ AnswerIsItsOwn'
  <2>1. /\ Shifted(down'[s], down[s]) /\ Len(down[s]) \in Nat \ {0} /\ Len(down'[s]) \in Nat
        /\ Head(down[s]) = down[s][1] /\ down[s][1].type = "job-run" /\ down[s][1] \in DownFrames
        /\ \A r \in Sockets \ {s} : down'[r] = down[r]
    BY <1>3, Reached DEF JobReaches
  <2>2. PICK q \in Requests : down[s][1] = Frame("job-run", q)
    BY <2>1 DEF DownFrames, Frame
  <2>3. /\ process' = [process EXCEPT ![q] = "running"] /\ UNCHANGED <<pending, up>>
    <3>1. Head(down[s]).val = q
      BY <2>1, <2>2 DEF Frame
    <3> QED
      BY <1>3, <3>1 DEF JobReaches, dashVars
  <2>4. process[q] = "none" /\ pending[q] # "idle"
    BY <2>1, <2>2 DEF CommandsOnce
  <2>5. far[s] # "closed" /\ \A r \in Sockets \ {s} : Len(down[r]) = 0
    BY <1>3 DEF JobReaches, Reaches, EndsHeld
  <2>6. ASSUME NEW p \in Requests, NEW r \in Sockets, NEW i \in 1..Len(down'[r]),
               down'[r][i] = Frame("job-run", p)
        PROVE  /\ pending'[p] # "idle" /\ process'[p] = "none"
               /\ \A j \in 1..Len(down'[r]) : down'[r][j] = Frame("job-run", p) => j = i
    <3>1. r = s
      BY <1>0, <2>1, <2>5
    <3>2. \A j \in 1..Len(down'[s]) : j + 1 \in 1..Len(down[s]) /\ down'[s][j] = down[s][j + 1]
      BY <2>1 DEF Shifted
    <3>3. i + 1 \in 1..Len(down[s]) /\ down[s][i + 1] = Frame("job-run", p)
      BY <2>6, <3>1, <3>2
    <3>4. pending[p] # "idle" /\ process[p] = "none"
      BY <3>3 DEF CommandsOnce
    <3>5. p # q
      BY <2>1, <2>2, <3>3 DEF CommandsOnce
    <3>6. ASSUME NEW j \in 1..Len(down'[s]), down'[s][j] = Frame("job-run", p)
          PROVE  j = i
      <4>1. j + 1 = i + 1
        BY <3>2, <3>3, <3>6, ZenonT(30) DEF CommandsOnce
      <4> QED
        BY <2>1, <4>1, <2>6, <3>1
    <3> QED
      BY <2>3, <3>1, <3>4, <3>5, <3>6 DEF RequestsOK
  <2>7. \A p \in Requests : process[p] = "ended" => process'[p] = "ended"
    BY <2>3, <2>4 DEF RequestsOK
  <2>8. pending'[q] # "idle" /\ \A p \in Requests \ {q} : process'[p] = process[p]
    BY <2>3, <2>4 DEF RequestsOK
  <2> QED
    BY <2>3, <2>6, <2>7, <2>8 DEF CommandsOnce, AnswerIsItsOwn
<1>4. ASSUME NEW q \in Requests, JobExits(q)
      PROVE  CommandsOnce' /\ AnswerIsItsOwn'
  <2> DEFINE f == Frame("resp", q)
  <2>1. f \in UpFrames
    BY DEF UpFrames, Frame
  <2>2. \A s \in Sockets : up'[s] = up[s] \/ Grown(up'[s], up[s], f)
    BY <1>4, <2>1, AgentSent DEF JobExits
  <2>3. process[q] = "running" /\ process' = [process EXCEPT ![q] = "ended"]
        /\ UNCHANGED <<pending, down>>
    BY <1>4 DEF JobExits, dashVars
  <2>4. ASSUME NEW p \in Requests, NEW s \in Sockets, NEW i \in 1..Len(up'[s]),
               up'[s][i] = Frame("resp", p)
        PROVE  process'[p] = "ended"
    <3>1. CASE p = q
      BY <2>3, <3>1 DEF RequestsOK
    <3>2. CASE p # q
      <4>1. Frame("resp", p) # f
        BY <3>2 DEF Frame
      <4> HIDE DEF f
      <4>2. i \in 1..Len(up[s]) /\ up[s][i] = Frame("resp", p)
        BY <1>0, <2>2, <2>4, <4>1 DEF Grown
      <4> QED
        BY <2>3, <3>2, <4>2 DEF CommandsOnce, RequestsOK
    <3> QED
      BY <3>1, <3>2
  <2>5. \A p \in Requests : process[p] = "none" <=> process'[p] = "none"
    BY <2>3 DEF RequestsOK
  <2>6. \A p \in Requests : pending'[p] = "answered" => process'[p] = "ended"
    BY <2>3 DEF AnswerIsItsOwn, RequestsOK
  <2> QED
    BY <2>3, <2>4, <2>5, <2>6 DEF CommandsOnce, AnswerIsItsOwn
<1>5. ASSUME AgentCrash
      PROVE  CommandsOnce' /\ AnswerIsItsOwn'
  <2>1. \A s \in Sockets : Len(down'[s]) = 0
    BY <1>5, EmptySeq DEF AgentCrash
  <2>2. UNCHANGED <<pending, up>>
        /\ \A q \in Requests : process'[q] = IF process[q] = "running" THEN "orphaned" ELSE process[q]
    BY <1>5 DEF AgentCrash, dashVars
  <2> QED
    BY <2>1, <2>2 DEF CommandsOnce, AnswerIsItsOwn
<1>6. ASSUME NEW s \in Sockets, ResponseArrives(s)
      PROVE  \A q \in Requests :
                /\ process'[q] = process[q]
                /\ pending'[q] = "idle" => pending[q] = "idle"
                /\ pending'[q] = "answered" => process[q] = "ended"
  <2>1. /\ Len(up[s]) \in Nat \ {0} /\ Head(up[s]) = up[s][1]
        /\ up[s][1].type = "resp" /\ up[s][1] \in UpFrames
    BY <1>6, Arrived DEF ResponseArrives
  <2>2. PICK p \in Requests : up[s][1] = Frame("resp", p)
    BY <2>1 DEF UpFrames, Frame
  <2>3. process[p] = "ended"
    BY <2>1, <2>2 DEF CommandsOnce
  <2>4. Head(up[s]).val = p
    BY <2>1, <2>2 DEF Frame
  <2> QED
    BY <1>6, <2>3, <2>4 DEF ResponseArrives, Resolved, RequestsOK, AnswerIsItsOwn, agentVars
<1>7. ASSUME NEW q \in Requests, RequestTimesOut(q)
      PROVE  \A p \in Requests :
                /\ process'[p] = process[p]
                /\ pending'[p] = "idle" => pending[p] = "idle"
                /\ pending'[p] = "answered" => process[p] = "ended"
  BY <1>7 DEF RequestTimesOut, RequestsOK, AnswerIsItsOwn, agentVars
<1>8. ASSUME UNCHANGED <<pending, process>>
      PROVE  \A p \in Requests :
                /\ process'[p] = process[p]
                /\ pending'[p] = "idle" => pending[p] = "idle"
                /\ pending'[p] = "answered" => process[p] = "ended"
  BY <1>8 DEF AnswerIsItsOwn
<1>9. \/ \E q \in Requests : Request(q) \/ JobExits(q) \/ RequestTimesOut(q)
      \/ \E s \in Sockets : JobReaches(s) \/ ResponseArrives(s)
      \/ AgentCrash
      \/ UNCHANGED <<pending, process>>
  BY DEF LinkNext, LinkEvent, LinkQuiet, HelloAccepted, MetricsArrive, HelloRefused, NearSees,
     NearCloses, Connect, PortsReach, TokenReaches, FarSees, FarCloses, Cut, RotateToken, PushPorts,
     EditPorts, ToggleSpark, Push, SaveToken, dashVars, agentVars, netVars
<1> QED
  BY <1>1, <1>2, <1>3, <1>4, <1>5, <1>6, <1>7, <1>8, <1>9, UpStep, DownStep

\* Every step of the link, and every rest, keeps the invariant.
LEMMA LinkNextStep == LinkInv /\ [LinkNext]_linkVars => LinkInv'
<1> SUFFICES ASSUME LinkInv, [LinkNext]_linkVars PROVE LinkInv'
  OBVIOUS
<1>1. CASE LinkNext
  <2>1. FramesOK'
    BY <1>1, UpStep, DownStep DEF LinkInv, LinkVarsOK, FramesOK
  <2> QED
    BY <1>1, <2>1, LinkVarsStep, EndsStep, HelloStep, TokenStep, PortsStep, CommandsStep DEF LinkInv
<1>2. CASE UNCHANGED linkVars
  <2> UNCHANGED <<token, known, ports, conn, near, registered, pending, seen, far, sock, cfgToken,
                  agentPorts, saving, process, sent, up, down, cut, faults, silent>>
    BY <1>2 DEF linkVars, dashVars, agentVars, netVars
  <2>1. LinkVarsOK' /\ FramesOK'
    BY DEF LinkInv, LinkVarsOK, CountsOK, SavingOK, FlagsOK, SocketsOK, RequestsOK, FramesOK
  <2>2. EndsHeld' /\ OneConnection'
    BY DEF LinkInv, EndsHeld, OneConnection
  <2>3. HelloIsCurrent' /\ TokenComes' /\ PortsCome'
    BY DEF LinkInv, HelloIsCurrent, TokenComes, PortsCome, Linked
  <2>4. CommandsOnce' /\ AnswerIsItsOwn'
    BY DEF LinkInv, CommandsOnce, AnswerIsItsOwn
  <2> QED
    BY <2>1, <2>2, <2>3, <2>4 DEF LinkInv
<1> QED
  BY <1>1, <1>2

\* What is said of the agent's configuration follows from the invariant.
LEMMA LinkInvImplies ==
  ASSUME LinkInv
  PROVE  RotationReaches /\ AgentProbesPorts /\ AnswerIsItsOwn /\ OneConnection
<1>1. RotationReaches
  <2> SUFFICES ASSUME Linked, cfgToken # token
               PROVE  token \in TokensOnTheWay
    BY DEF RotationReaches
  <2>1. sock \in Sockets /\ saving \in Seq(1..MaxEvents) /\ down[sock] \in Seq(DownFrames)
    BY DEF LinkInv, LinkVarsOK, Linked, SocketsOK, SavingOK, FramesOK
  <2>2. DOMAIN saving = 1..Len(saving) /\ DOMAIN down[sock] = 1..Len(down[sock])
    BY <2>1, LenProperties
  <2>3. CASE \E i \in 1..Len(saving) : saving[i] = token
    BY <2>2, <2>3 DEF TokensOnTheWay
  <2>4. ASSUME NEW i \in 1..Len(down[sock]), down[sock][i] = Frame("token", token)
        PROVE  token \in TokensOnTheWay
    <3>1. down[sock][i].type = "token" /\ down[sock][i].val = token
      BY <2>4 DEF Frame
    <3> QED
      BY <2>2, <3>1 DEF TokensOnTheWay
  <2> QED
    BY <2>3, <2>4 DEF LinkInv, TokenComes
<1>2. AgentProbesPorts
  <2>1. Len(<<>>) = 0
    BY EmptySeq
  <2> QED
    BY <2>1 DEF AgentProbesPorts, LinkInv, PortsCome
<1> QED
  BY <1>1, <1>2 DEF LinkInv

\* The invariant holds of the link, and with it the types.
THEOREM LinkInvariance == LinkSpec => []LinkInv
<1> QED
  BY LinkInitInv, LinkNextStep, PTL DEF LinkSpec

\* The types that follow from the invariant.
LEMMA LinkInvTypes == LinkInv => LinkTypeOK
<1> SUFFICES ASSUME LinkInv PROVE LinkTypeOK
  OBVIOUS
<1> DEFINE Up == [type : {"hello", "metrics", "resp"}, val : Nat \union Requests]
           Down == [type : {"welcome", "ports", "token", "job-run"}, val : Nat \union Requests]
<1>1. UpFrames \subseteq Up /\ DownFrames \subseteq Down
  BY LinkAssumption DEF UpFrames, DownFrames
<1> HIDE DEF Up, Down
<1>2. \A s \in Sockets : up[s] \in Seq(Up) /\ down[s] \in Seq(Down)
  BY <1>1, SeqMonotonic DEF LinkInv, FramesOK
<1>3. up \in [Sockets -> Seq(Up)] /\ down \in [Sockets -> Seq(Down)]
  BY <1>2 DEF LinkInv, FramesOK
<1>4. FlagsOK
  BY DEF LinkInv, LinkVarsOK
<1>5. known \in BOOLEAN /\ silent \in BOOLEAN
  BY <1>4 DEF FlagsOK
<1>6. CountsOK /\ SavingOK /\ SocketsOK /\ RequestsOK
  BY DEF LinkInv, LinkVarsOK
<1> QED
  BY <1>3, <1>5, <1>6 DEF LinkTypeOK, CountsOK, SavingOK, SocketsOK, RequestsOK, Up, Down

\* Every variable of the link, and every frame on its way, keeps its type.
THEOREM LinkTypes == LinkSpec => []LinkTypeOK
<1> QED
  BY LinkInvTypes, LinkInvariance, PTL

-----------------------------------------------------------------------------
(* AgentLink: the order of the pushes *)

\* What is pushed over the agent's socket is newer than what the monitor has
\* and than all that waits on other sockets, and it waits in its order.
PushesCounted ==
    /\ seen <= sent
    /\ \A s \in Sockets : \A i \in 1..Len(up[s]) : up[s][i].type = "metrics" => up[s][i].val <= sent
NewerThanSeen ==
    sock # NoSocket =>
        \A j \in 1..Len(up[sock]) : up[sock][j].type = "metrics" => seen < up[sock][j].val
InTheirOrder ==
    sock # NoSocket =>
        \A i, j \in 1..Len(up[sock]) :
            up[sock][i].type = "metrics" /\ up[sock][j].type = "metrics" /\ i < j =>
                up[sock][i].val < up[sock][j].val
NewerThanOthers ==
    sock # NoSocket =>
        \A j \in 1..Len(up[sock]) : \A s \in Sockets \ {sock} : \A i \in 1..Len(up[s]) :
            up[sock][j].type = "metrics" /\ up[s][i].type = "metrics" => up[s][i].val < up[sock][j].val

PushesOK == PushesCounted /\ NewerThanSeen /\ InTheirOrder /\ NewerThanOthers

\* The initial states of the pushes.
LEMMA PushesInit == LinkInit => PushesOK
<1> SUFFICES ASSUME LinkInit PROVE PushesOK
  OBVIOUS
<1>1. \A s \in Sockets : Len(up[s]) = 0
  BY EmptySeq DEF LinkInit
<1>2. sock = NoSocket /\ seen = 0 /\ sent = 0
  BY DEF LinkInit
<1> QED
  BY <1>1, <1>2 DEF PushesOK, PushesCounted, NewerThanSeen, InTheirOrder, NewerThanOthers

\* A push is sent by Push alone.
LEMMA PushesCarried ==
  ASSUME SocketsOK, CountsOK, FramesOK, LinkNext
  PROVE  CarriedUp("metrics") \/ Push
<1> DEFINE Gone == CarriedUp("metrics")
<1>0. \A s \in Sockets : up[s] \in Seq(UpFrames) /\ Len(up[s]) \in Nat
  BY LenProperties DEF FramesOK
<1>1. ASSUME NEW s \in Sockets, NEW t, Arrives(s, t)
      PROVE  Gone
  BY <1>0, <1>1, Arrived, ShiftedCarries, SameCarries DEF CarriedUp
<1>2. ASSUME NEW s \in Sockets,
             HelloRefused(s) \/ HelloAccepted(s) \/ MetricsArrive(s) \/ ResponseArrives(s)
      PROVE  Gone
  BY <1>1, <1>2 DEF HelloRefused, HelloAccepted, MetricsArrive, ResponseArrives
<1>3. ASSUME NEW q \in Requests, JobExits(q)
      PROVE  Gone
  <2>1. Frame("resp", q) \in UpFrames /\ Frame("resp", q).type = "resp"
    BY DEF UpFrames, Frame
  <2>2. \A s \in Sockets : up'[s] = up[s] \/ Grown(up'[s], up[s], Frame("resp", q))
    BY <1>3, <2>1, AgentSent DEF JobExits
  <2>3. \A s \in Sockets : Carried(up'[s], up[s], 0, "metrics")
    BY <1>0, <2>1, <2>2, GrownCarries, SameCarries
  <2> QED
    BY <2>3 DEF CarriedUp
<1>4. ASSUME NEW s \in Sockets, Connect(s)
      PROVE  Gone
  <2> DEFINE f == Frame("hello", cfgToken)
  <2>1. f.type = "hello" /\ Len(<<f>>) = 1 /\ <<f>>[1] = f
    BY DEF Frame
  <2> HIDE DEF f
  <2>2. up' = [up EXCEPT ![s] = <<f>>]
    BY <1>4 DEF Connect, f
  <2>3. Carried(<<f>>, up[s], 0, "metrics")
    BY <2>1 DEF Carried
  <2> QED
    BY <1>0, <2>2, <2>3, SameCarries DEF CarriedUp, FramesOK
<1>5. ASSUME NEW s \in Sockets, NearCloses(s) \/ Cut(s)
      PROVE  Gone
  <2>1. up' = [up EXCEPT ![s] = <<>>]
    BY <1>5 DEF NearCloses, Cut
  <2> QED
    BY <1>0, <2>1, EmptySeq, EmptyCarries, SameCarries DEF CarriedUp, FramesOK
<1>6. ASSUME UNCHANGED up PROVE Gone
  BY <1>0, <1>6, SameCarries DEF CarriedUp
<1> HIDE DEF Gone
<1>7. \/ Push
      \/ \E q \in Requests : JobExits(q)
      \/ \E s \in Sockets : \/ HelloRefused(s) \/ HelloAccepted(s) \/ MetricsArrive(s) \/ ResponseArrives(s)
                            \/ Connect(s) \/ NearCloses(s) \/ Cut(s)
      \/ UNCHANGED up
  BY DEF LinkNext, LinkEvent, LinkQuiet, NearSees, FarSees, FarCloses, PortsReach, TokenReaches, JobReaches,
     RotateToken, PushPorts, EditPorts, ToggleSpark, SaveToken, AgentCrash, Request, RequestTimesOut, netVars
<1> QED
  BY <1>2, <1>3, <1>4, <1>5, <1>6, <1>7 DEF Gone

\* What a push is, by its value.
LEMMA PushIs ==
  ASSUME FramesOK, NEW s \in Sockets, NEW i \in 1..Len(up[s]), up[s][i].type = "metrics"
  PROVE  up[s][i].val \in Nat /\ i \in Nat /\ Len(up[s]) \in Nat
<1>1. up[s] \in Seq(UpFrames)
  BY DEF FramesOK
<1>2. up[s][i] \in UpFrames /\ Len(up[s]) \in Nat
  BY <1>1, ElementOfSeq, LenProperties
<1>3. up[s][i].val \in 1..MaxEvents
  BY <1>2 DEF UpFrames
<1> QED
  BY <1>2, <1>3

\* A new push is the newest.
LEMMA PushStep ==
  ASSUME SocketsOK, CountsOK, FramesOK, PushesOK, Push
  PROVE  PushesOK'
<1> DEFINE f == Frame("metrics", sent + 1)
<1>1. f \in UpFrames /\ f.type = "metrics" /\ f.val = sent + 1
  BY OneMoreEvent DEF Push, UpFrames, Frame
<1>2. /\ sent' = sent + 1 /\ seen' = seen /\ sock' = sock /\ sent \in Nat /\ seen \in Nat
  BY DEF Push, dashVars, CountsOK
<1>3. \A s \in Sockets : Len(up[s]) \in Nat /\ (up'[s] = up[s] \/ Grown(up'[s], up[s], f))
  BY <1>1, AgentSent DEF Push
<1>4. \A s \in Sockets \ {sock} : up'[s] = up[s]
  <2>1. sock # NoSocket => sock \in Sockets
    BY DEF SocketsOK
  <2> QED
    BY <2>1 DEF Push, AgentSends, ToDashboard, FramesOK
<1> HIDE DEF f
<1>5. ASSUME NEW s \in Sockets, NEW i \in 1..Len(up'[s]), up'[s][i].type = "metrics"
      PROVE  /\ i \in Nat
             /\ \/ i \in 1..Len(up[s]) /\ up[s][i].type = "metrics" /\ up'[s][i].val = up[s][i].val
                   /\ up'[s][i].val <= sent /\ up'[s][i].val \in Nat
                \/ i = Len(up[s]) + 1 /\ up'[s][i].val = sent + 1 /\ s = sock
  <2>1. CASE i \in 1..Len(up[s])
    <3>1. up'[s][i] = up[s][i]
      BY <1>3, <2>1 DEF Grown
    <3>2. up[s][i].val \in Nat
      BY <1>5, <2>1, <3>1, PushIs
    <3>3. up[s][i].val <= sent
      BY <1>5, <2>1, <3>1 DEF PushesOK, PushesCounted
    <3> QED
      BY <1>5, <2>1, <3>1, <3>2, <3>3
  <2>2. CASE i \notin 1..Len(up[s])
    <3>1. Grown(up'[s], up[s], f) /\ s = sock
      BY <1>3, <1>4, <1>5, <2>2
    <3>2. i = Len(up[s]) + 1 /\ up'[s][i] = f
      BY <1>3, <2>2, <3>1 DEF Grown
    <3> QED
      BY <1>1, <1>3, <3>1, <3>2
  <2> QED
    BY <2>1, <2>2
<1>6. PushesCounted'
  <2>1. seen' <= sent'
    BY <1>2 DEF PushesOK, PushesCounted
  <2>2. \A s \in Sockets : \A i \in 1..Len(up'[s]) : up'[s][i].type = "metrics" => up'[s][i].val <= sent'
    BY <1>2, <1>5
  <2> QED
    BY <2>1, <2>2 DEF PushesCounted
<1>7. sock # NoSocket => sock \in Sockets
  BY DEF SocketsOK
<1>8. NewerThanSeen'
  <2> SUFFICES ASSUME sock # NoSocket, NEW j \in 1..Len(up'[sock]), up'[sock][j].type = "metrics"
               PROVE  seen < up'[sock][j].val
    BY <1>2 DEF NewerThanSeen
  <2>1. CASE j \in 1..Len(up[sock]) /\ up[sock][j].type = "metrics" /\ up'[sock][j].val = up[sock][j].val
    BY <2>1 DEF PushesOK, NewerThanSeen
  <2>2. CASE up'[sock][j].val = sent + 1
    BY <1>2, <2>2 DEF PushesOK, PushesCounted
  <2> QED
    BY <1>5, <1>7, <2>1, <2>2
<1>9. InTheirOrder'
  <2> SUFFICES ASSUME sock # NoSocket, NEW i \in 1..Len(up'[sock]), NEW j \in 1..Len(up'[sock]), i < j,
                      up'[sock][i].type = "metrics", up'[sock][j].type = "metrics"
               PROVE  up'[sock][i].val < up'[sock][j].val
    BY <1>2 DEF InTheirOrder
  <2>1. CASE j \in 1..Len(up[sock]) /\ up[sock][j].type = "metrics" /\ up'[sock][j].val = up[sock][j].val
    <3>1. i # Len(up[sock]) + 1
      BY <1>3, <1>7, <2>1
    <3>2. i \in 1..Len(up[sock]) /\ up[sock][i].type = "metrics" /\ up'[sock][i].val = up[sock][i].val
      BY <1>5, <1>7, <3>1
    <3> QED
      BY <2>1, <3>2 DEF PushesOK, InTheirOrder
  <2>2. CASE j = Len(up[sock]) + 1 /\ up'[sock][j].val = sent + 1
    <3>1. i # Len(up[sock]) + 1
      BY <1>3, <1>7, <2>2
    <3>2. up'[sock][i].val <= sent /\ up'[sock][i].val \in Nat
      BY <1>5, <1>7, <3>1
    <3> QED
      BY <1>2, <2>2, <3>2
  <2> QED
    BY <1>5, <1>7, <2>1, <2>2
<1>10. NewerThanOthers'
  <2> SUFFICES ASSUME sock # NoSocket, NEW j \in 1..Len(up'[sock]), NEW s \in Sockets \ {sock}, NEW i \in 1..Len(up'[s]),
                      up'[s][i].type = "metrics", up'[sock][j].type = "metrics"
               PROVE  up'[s][i].val < up'[sock][j].val
    BY <1>2 DEF NewerThanOthers
  <2>1. i \in 1..Len(up[s]) /\ up[s][i].type = "metrics" /\ up'[s][i].val = up[s][i].val
        /\ up'[s][i].val <= sent /\ up'[s][i].val \in Nat
    BY <1>5
  <2>2. CASE j \in 1..Len(up[sock]) /\ up[sock][j].type = "metrics" /\ up'[sock][j].val = up[sock][j].val
    BY <2>1, <2>2 DEF PushesOK, NewerThanOthers
  <2>3. CASE up'[sock][j].val = sent + 1
    BY <1>2, <2>1, <2>3
  <2> QED
    BY <1>5, <1>7, <2>2, <2>3
<1> QED
  BY <1>6, <1>8, <1>9, <1>10 DEF PushesOK

\* A step that pushes nothing: what arrives was before all that still waits.
LEMMA CarriedStep ==
  ASSUME SocketsOK, CountsOK, FramesOK, PushesOK, CarriedUp("metrics"), sent' = sent,
         sock' = sock \/ sock' = NoSocket,
         seen' \in Nat, seen' <= sent,
         sock # NoSocket => \A j \in 1..Len(up'[sock]) : up'[sock][j].type = "metrics" => seen' < up'[sock][j].val
  PROVE  PushesOK'
<1>1. ASSUME NEW s \in Sockets
      PROVE  \E k \in 0..1 : \A i \in 1..Len(up'[s]) : up'[s][i].type = "metrics" =>
                i + k \in 1..Len(up[s]) /\ up[s][i + k] = up'[s][i]
  BY DEF CarriedUp, Carried
<1>2. PushesCounted'
  <2>1. ASSUME NEW s \in Sockets, NEW i \in 1..Len(up'[s]), up'[s][i].type = "metrics"
        PROVE  up'[s][i].val <= sent
    <3>1. PICK k \in 0..1 : i + k \in 1..Len(up[s]) /\ up[s][i + k] = up'[s][i]
      BY <1>1, <2>1
    <3> QED
      BY <2>1, <3>1 DEF PushesOK, PushesCounted
  <2> QED
    BY <2>1 DEF PushesCounted
<1>3. NewerThanSeen'
  BY DEF NewerThanSeen
<1>4. sock # NoSocket => sock \in Sockets
  BY DEF SocketsOK
<1>5. InTheirOrder'
  <2> SUFFICES ASSUME sock # NoSocket, NEW i \in 1..Len(up'[sock]), NEW j \in 1..Len(up'[sock]), i < j,
                      up'[sock][i].type = "metrics", up'[sock][j].type = "metrics"
               PROVE  up'[sock][i].val < up'[sock][j].val
    BY DEF InTheirOrder
  <2>1. PICK k \in 0..1 : \A n \in 1..Len(up'[sock]) : up'[sock][n].type = "metrics" =>
                n + k \in 1..Len(up[sock]) /\ up[sock][n + k] = up'[sock][n]
    BY <1>1, <1>4
  <2>2. i + k < j + k
    OBVIOUS
  <2>3. i + k \in 1..Len(up[sock]) /\ j + k \in 1..Len(up[sock]) /\ up[sock][i + k] = up'[sock][i] /\ up[sock][j + k] = up'[sock][j]
    BY <2>1
  <2> QED
    BY <2>2, <2>3 DEF PushesOK, InTheirOrder
<1>6. NewerThanOthers'
  <2> SUFFICES ASSUME sock # NoSocket, NEW j \in 1..Len(up'[sock]), NEW s \in Sockets \ {sock}, NEW i \in 1..Len(up'[s]),
                      up'[s][i].type = "metrics", up'[sock][j].type = "metrics"
               PROVE  up'[s][i].val < up'[sock][j].val
    BY DEF NewerThanOthers
  <2>1. PICK k \in 0..1 : j + k \in 1..Len(up[sock]) /\ up[sock][j + k] = up'[sock][j]
    BY <1>1, <1>4
  <2>2. PICK l \in 0..1 : i + l \in 1..Len(up[s]) /\ up[s][i + l] = up'[s][i]
    BY <1>1
  <2> QED
    BY <2>1, <2>2 DEF PushesOK, NewerThanOthers
<1> QED
  BY <1>2, <1>3, <1>5, <1>6 DEF PushesOK

\* What the monitor is given is not older than what it had, if it comes over
\* the agent's socket, and older than what still waits there.
LEMMA GivenIs ==
  ASSUME SocketsOK, CountsOK, FramesOK, PushesOK, NEW s \in Sockets, MetricsArrive(s)
  PROVE  /\ seen' \in Nat /\ seen' <= sent
         /\ sock # NoSocket => \A j \in 1..Len(up'[sock]) : up'[sock][j].type = "metrics" => seen' < up'[sock][j].val
         /\ seen' < seen => conn # sock
<1> DEFINE f == up[s][1]
<1>1. /\ \A r \in Sockets \ {s} : up'[r] = up[r]
      /\ Shifted(up'[s], up[s]) /\ Len(up[s]) \in Nat \ {0} /\ Len(up'[s]) \in Nat
      /\ Head(up[s]) = f /\ f.type = "metrics"
  BY Arrived DEF MetricsArrive
<1>2. f.val \in Nat /\ f.val <= sent /\ 1 \in 1..Len(up[s])
  <2>1. 1 \in 1..Len(up[s])
    BY <1>1
  <2> QED
    BY <1>1, <2>1, PushIs DEF PushesOK, PushesCounted
<1>3. seen' = seen \/ (seen' = f.val /\ conn = s)
  BY <1>1 DEF MetricsArrive, Applied
<1>4. seen \in Nat /\ seen <= sent
  BY DEF CountsOK, PushesOK, PushesCounted
<1>5. \A i \in 1..Len(up'[s]) : i + 1 \in 1..Len(up[s]) /\ up'[s][i] = up[s][i + 1] /\ 1 < i + 1
  BY <1>1 DEF Shifted
<1> HIDE DEF f
<1>6. sock # NoSocket => sock \in Sockets
  BY DEF SocketsOK
<1>7. ASSUME sock # NoSocket, NEW j \in 1..Len(up'[sock]), up'[sock][j].type = "metrics"
      PROVE  seen' < up'[sock][j].val
  <2>1. CASE sock = s
    <3>1. j + 1 \in 1..Len(up[s]) /\ up'[s][j] = up[s][j + 1] /\ 1 < j + 1
      BY <1>5, <1>7, <2>1
    <3>2. seen < up[s][j + 1].val
      BY <1>7, <2>1, <3>1 DEF PushesOK, NewerThanSeen
    <3>3. f.val < up[s][j + 1].val
      BY <1>1, <1>2, <1>7, <2>1, <3>1 DEF PushesOK, InTheirOrder, f
    <3> QED
      BY <1>3, <2>1, <3>1, <3>2, <3>3
  <2>2. CASE sock # s
    <3>1. up'[sock] = up[sock] /\ j \in 1..Len(up[sock])
      BY <1>1, <1>6, <1>7, <2>2
    <3>2. seen < up[sock][j].val
      BY <1>7, <3>1 DEF PushesOK, NewerThanSeen
    <3>3. f.val < up[sock][j].val
      BY <1>1, <1>2, <1>7, <2>2, <3>1 DEF PushesOK, NewerThanOthers, f
    <3> QED
      BY <1>3, <3>1, <3>2, <3>3
  <2> QED
    BY <2>1, <2>2
<1>8. ASSUME seen' < seen, conn = sock PROVE FALSE
  <2>1. seen' = f.val /\ sock = s /\ s # NoSocket
    BY <1>3, <1>4, <1>8, LinkAssumption
  <2>2. seen < f.val
    BY <1>1, <1>2, <2>1 DEF PushesOK, NewerThanSeen, f
  <2> QED
    BY <1>2, <1>4, <1>8, <2>1, <2>2
<1> QED
  BY <1>2, <1>3, <1>4, <1>7, <1>8

\* Every step keeps the order of the pushes, and gives the monitor no older one
\* over the agent's socket.
LEMMA PushesNext ==
  ASSUME LinkInv, PushesOK, [LinkNext]_linkVars
  PROVE  PushesOK' /\ (seen' < seen => conn # sock)
<1>0. SocketsOK /\ CountsOK /\ FramesOK
  BY DEF LinkInv, LinkVarsOK
<1>1. seen \in Nat /\ sent \in Nat /\ seen <= sent
  BY <1>0 DEF CountsOK, PushesOK, PushesCounted
<1>2. CASE UNCHANGED linkVars
  <2>1. UNCHANGED <<up, seen, sent, sock>>
    BY <1>2 DEF linkVars, dashVars, agentVars, netVars
  <2> QED
    BY <1>1, <2>1 DEF PushesOK, PushesCounted, NewerThanSeen, InTheirOrder, NewerThanOthers
<1>3. CASE Push
  BY <1>0, <1>1, <1>3, PushStep DEF Push, dashVars
<1>4. ASSUME NEW s \in Sockets, MetricsArrive(s)
      PROVE  PushesOK' /\ (seen' < seen => conn # sock)
  <2>1. sent' = sent /\ sock' = sock
    BY <1>4 DEF MetricsArrive, agentVars
  <2>2. CarriedUp("metrics")
    <3>1. LinkNext /\ ~Push
      BY <1>1, <1>4, <2>1 DEF LinkNext, LinkEvent, Push
    <3> QED
      BY <1>0, <3>1, PushesCarried
  <2> QED
    BY <1>0, <1>4, <2>1, <2>2, CarriedStep, GivenIs
<1>5. ASSUME NEW s \in Sockets, Connect(s)
      PROVE  PushesOK' /\ (seen' < seen => conn # sock)
  <2> DEFINE f == Frame("hello", cfgToken)
  <2>1. f.type = "hello" /\ Len(<<f>>) = 1 /\ <<f>>[1] = f
    BY DEF Frame
  <2>2. up' = [up EXCEPT ![s] = <<f>>] /\ sock' = s /\ seen' = seen /\ sent' = sent
    BY <1>5 DEF Connect
  <2> HIDE DEF f
  <2>3. up'[s] = <<f>> /\ \A r \in Sockets \ {s} : up'[r] = up[r]
    BY <1>0, <2>2 DEF FramesOK
  <2>4. \A j \in 1..Len(up'[s]) : up'[s][j].type # "metrics"
    BY <2>1, <2>3
  <2>5. PushesCounted'
    BY <2>2, <2>3, <2>4 DEF PushesOK, PushesCounted
  <2>6. NewerThanSeen' /\ InTheirOrder' /\ NewerThanOthers'
    BY <2>2, <2>4 DEF NewerThanSeen, InTheirOrder, NewerThanOthers
  <2> QED
    BY <1>1, <2>2, <2>5, <2>6 DEF PushesOK
<1>6. CASE LinkNext /\ ~Push /\ ~(\E s \in Sockets : MetricsArrive(s) \/ Connect(s))
  <2>1. seen' = seen /\ sent' = sent /\ (sock' = sock \/ sock' = NoSocket)
    BY <1>6 DEF LinkNext, LinkEvent, LinkQuiet, HelloAccepted, HelloRefused, ResponseArrives, NearSees, NearCloses,
       FarSees, FarCloses, PortsReach, TokenReaches, JobReaches, RotateToken, PushPorts, EditPorts, ToggleSpark,
       SaveToken, AgentCrash, Request, RequestTimesOut, JobExits, Cut, dashVars, agentVars, netVars
  <2>2. CarriedUp("metrics")
    BY <1>0, <1>6, PushesCarried
  <2>3. ASSUME sock # NoSocket, NEW j \in 1..Len(up'[sock]), up'[sock][j].type = "metrics"
        PROVE  seen' < up'[sock][j].val
    <3>1. sock \in Sockets
      BY <1>0, <2>3 DEF SocketsOK
    <3>2. PICK k \in 0..1 : j + k \in 1..Len(up[sock]) /\ up[sock][j + k] = up'[sock][j]
      BY <2>2, <2>3, <3>1 DEF CarriedUp, Carried
    <3> QED
      BY <2>1, <2>3, <3>2 DEF PushesOK, NewerThanSeen
  <2>4. PushesOK'
    BY <1>0, <1>1, <2>1, <2>2, <2>3, CarriedStep
  <2> QED
    BY <1>1, <2>1, <2>4
<1> QED
  BY <1>2, <1>3, <1>4, <1>5, <1>6


-----------------------------------------------------------------------------
(* NodeSupervisor *)

\* An exit that was not handled is that of the child, which has ended; a pid
\* becomes somebody else's by a mishap.
SupInv ==
    /\ exits \subseteq Pids
    /\ \A p \in exits : proc[p] = "none"
    /\ \A p \in Pids : proc[p] = "other" => mishaps > 0
    /\ mishaps \in Nat
    /\ SupTypeOK /\ PidFileIsTrue /\ RunIsFiled /\ SignalsItsOwn

SupSpec == SupInit /\ [][SupNext]_supVars

\* The initial states of the supervisor.
LEMMA SupInitInv == SupInit => SupInv
  BY SupervisorAssumption DEF SupInit, SupInv, SupTypeOK, PidFileIsTrue, RunIsFiled, SignalsItsOwn, Running

\* Every step keeps its invariant.
LEMMA SupNextStep == SupInv /\ [SupNext]_supVars => SupInv'
<1> SUFFICES ASSUME SupInv, [SupNext]_supVars PROVE SupInv'
  OBVIOUS
<1> USE SupervisorAssumption
        DEF SupInv, SupTypeOK, PidFileIsTrue, RunIsFiled, SignalsItsOwn, Running, Free
<1>1. ASSUME NEW p \in Pids, AgentStarts(p) \/ SshStarts(p) PROVE SupInv'
  <2>1. p \in Free /\ proc' = [proc EXCEPT ![p] = "script"] /\ pidFile' = p
        /\ signalled' = signalled \ {p} /\ doubled' = (doubled \/ Running # {})
    BY <1>1 DEF AgentStarts, SshStarts, Spawned
  <2>2. UNCHANGED <<agentUp, exits, kills, tails, mishaps, stray>>
    BY <1>1 DEF AgentStarts, SshStarts
  <2>3. child' = child \/ (child = NoPid /\ child' = p)
    BY <1>1 DEF AgentStarts, SshStarts
  <2>4. SupTypeOK'
    BY <2>1, <2>2, <2>3
  <2>5. RunIsFiled' /\ PidFileIsTrue'
    BY <2>1
  <2>6. SignalsItsOwn' /\ mishaps' \in Nat /\ \A q \in Pids : proc'[q] = "other" => mishaps' > 0
    BY <2>1, <2>2
  <2> QED
    BY <2>1, <2>2, <2>4, <2>5, <2>6
<1>2. ASSUME NEW p \in Pids, EndsAlone(p) PROVE SupInv'
  BY <1>2 DEF EndsAlone, EndOf
<1>3. ASSUME NEW p \in Pids, Kills(p) PROVE SupInv'
  BY <1>3 DEF Kills, EndOf
<1>4. ASSUME NEW p \in Pids, ExitSeen(p) PROVE SupInv'
  BY <1>4 DEF ExitSeen, Unfiled
<1>5. ASSUME NEW p \in Pids, TailEnds(p) PROVE SupInv'
  BY <1>5 DEF TailEnds
<1>6. ASSUME NEW p \in Pids, Reused(p) PROVE SupInv'
  BY <1>6 DEF Reused, Mishap
<1>7. CASE StopsChild
  <2>1. child \in Pids /\ kills' \subseteq Pids /\ agentUp' = agentUp /\ tails' = tails /\ child' = child
        /\ pidFile' = pidFile /\ mishaps' = mishaps /\ doubled' = doubled /\ signalled' = signalled
    BY <1>7 DEF StopsChild
  <2>2. /\ stray' = (stray \/ proc[child] = "other")
        /\ \/ EndOf({child}) /\ proc[child] # "none"
           \/ UNCHANGED <<proc, exits, stale>>
    BY <1>7 DEF StopsChild, Signal
  <2>3. proc' \in [Pids -> {"none", "script", "other"}] /\ exits' \subseteq {child}
        /\ \A q \in exits' : proc'[q] = "none"
    BY <2>1, <2>2 DEF EndOf
  <2>4. \A q \in Pids : proc'[q] \in {"none", proc[q]}
    BY <2>1, <2>2 DEF EndOf
  <2>5. SupTypeOK'
    BY <2>1, <2>3
  <2>6. PidFileIsTrue'
    BY <2>1, <2>2 DEF EndOf
  <2>7. RunIsFiled'
    BY <2>1, <2>4
  <2>8. SignalsItsOwn' /\ (\A q \in Pids : proc'[q] = "other" => mishaps' > 0)
    BY <2>1, <2>2, <2>4
  <2> QED
    BY <2>1, <2>3, <2>5, <2>6, <2>7, <2>8
<1>8. CASE StopsFiled
  BY <1>8 DEF StopsFiled, Signal, EndOf
<1>9. CASE Reattaches
  <2>1. UNCHANGED <<agentUp, proc, child, exits, pidFile, kills, mishaps, signalled, doubled, stale, stray>>
    BY <1>9 DEF Reattaches
  <2>2. tails' \in [Pids -> 0..2]
    BY <1>9 DEF Reattaches
  <2> QED
    BY <2>1, <2>2
<1>10. ASSUME NEW b \in BOOLEAN, AgentEnds(b) PROVE SupInv'
  <2>1. mishaps' \in Nat /\ mishaps' > 0
    BY <1>10 DEF AgentEnds, Mishap
  <2>2. PICK P \in SUBSET Running :
          /\ proc' = [p \in Pids |-> IF p \in P THEN "none" ELSE proc[p]]
          /\ stale' = (stale \/ pidFile \in P \cup exits)
    BY <1>10 DEF AgentEnds
  <2>3. /\ agentUp' = FALSE /\ child' = NoPid /\ exits' = {} /\ kills' = {} /\ pidFile' = pidFile
        /\ signalled' = signalled /\ doubled' = doubled
    BY <1>10 DEF AgentEnds
  <2>4. tails' \in [Pids -> 0..2]
    BY <1>10 DEF AgentEnds
  <2>5. proc' \in [Pids -> {"none", "script", "other"}]
    BY <2>2
  <2>6. SupTypeOK'
    BY <2>3, <2>4, <2>5
  <2>7. PidFileIsTrue' /\ RunIsFiled'
    BY <2>2, <2>3
  <2> QED
    BY <2>1, <2>3, <2>6, <2>7
<1>11. CASE AgentStartsUp
  <2>1. UNCHANGED <<proc, child, exits, pidFile, tails, kills, mishaps, signalled, doubled, stale, stray>>
        /\ agentUp' = TRUE
    BY <1>11 DEF AgentStartsUp
  <2> QED
    BY <2>1
<1>12. CASE UNCHANGED supVars
  BY <1>12 DEF supVars
<1> QED
  BY <1>1, <1>2, <1>3, <1>4, <1>5, <1>6, <1>7, <1>8, <1>9, <1>10, <1>11, <1>12 DEF SupNext

\* The invariant holds of the supervisor.
THEOREM SupInvariance == SupSpec => []SupInv
<1> QED
  BY SupInitInv, SupNextStep, PTL DEF SupSpec

-----------------------------------------------------------------------------
(* SnapshotFeed: lists that are filtered *)

\* f is the recursive function of Filtered on a list of n.
IsFilter(f, list, S, n) ==
    f = [i \in 0..n |-> IF i = 0 THEN <<>>
                        ELSE IF list[i] \in S THEN Append(f[i - 1], list[i]) ELSE f[i - 1]]
Filter(list, S) == CHOOSE f : IsFilter(f, list, S, Len(list))

\* The recursion has a solution.
LEMMA FilterIs ==
  ASSUME NEW list, NEW S, Len(list) \in Nat
  PROVE  Filtered(list, S) = Filter(list, S)[Len(list)] /\ IsFilter(Filter(list, S), list, S, Len(list))
<1> DEFINE good == {n \in Nat : \E f : IsFilter(f, list, S, n)}
<1>1. 0 \in good
  <2> DEFINE f == [i \in 0..0 |-> <<>>]
  <2>1. IsFilter(f, list, S, 0)
    BY DEF IsFilter
  <2> QED
    BY <2>1
<1>2. ASSUME NEW n \in Nat, n \in good PROVE n + 1 \in good
  <2>1. PICK f : IsFilter(f, list, S, n)
    BY <1>2
  <2> DEFINE last == IF list[n + 1] \in S THEN Append(f[n], list[n + 1]) ELSE f[n]
             h == [i \in 0..(n + 1) |-> IF i = n + 1 THEN last ELSE f[i]]
  <2> HIDE DEF last
  <2>2. \A i \in 0..n : f[i] = IF i = 0 THEN <<>>
                               ELSE IF list[i] \in S THEN Append(f[i - 1], list[i]) ELSE f[i - 1]
    BY <2>1 DEF IsFilter
  <2>3. h[n + 1] = last /\ \A i \in 0..n : h[i] = f[i]
    OBVIOUS
  <2>4. ASSUME NEW i \in 0..(n + 1)
        PROVE  h[i] = IF i = 0 THEN <<>>
                      ELSE IF list[i] \in S THEN Append(h[i - 1], list[i]) ELSE h[i - 1]
    <3> HIDE DEF h
    <3>1. CASE i = n + 1
      BY <2>3, <3>1 DEF last
    <3>2. CASE i \in 0..n /\ i # 0
      <4>1. i - 1 \in 0..n
        BY <3>2
      <4> QED
        BY <2>2, <2>3, <3>2, <4>1
    <3>3. CASE i = 0
      BY <2>2, <2>3, <3>3
    <3> QED
      BY <3>1, <3>2, <3>3
  <2>5. h = [i \in 0..(n + 1) |-> h[i]]
    OBVIOUS
  <2>6. IsFilter(h, list, S, n + 1)
    <3> HIDE DEF h
    <3> QED
      BY <2>4, <2>5 DEF IsFilter
  <2> QED
    BY <2>6
<1> HIDE DEF good
<1>3. Len(list) \in good
  BY <1>1, <1>2, Induction
<1>4. \E f : IsFilter(f, list, S, Len(list))
  BY <1>3 DEF good
<1> QED
  BY <1>4 DEF Filter, Filtered, IsFilter

\* A list that names nobody twice.
Distinct(list) == \A i, j \in 1..Len(list) : list[i] = list[j] => i = j
Named(list) == {list[i] : i \in 1..Len(list)}

\* What has been filtered up to position n of the list.
FilteredTo(w, list, S, n) ==
    /\ w \in Seq(S \intersect Named(list)) /\ Distinct(w)
    /\ \A j \in 1..Len(w) : \E i \in 1..n : w[j] = list[i]

LEMMA FilteredOn ==
  ASSUME NEW T, NEW list \in Seq(T), NEW S, Distinct(list), NEW n \in 0..(Len(list) - 1), NEW w, FilteredTo(w, list, S, n),
         NEW v, v = IF list[n + 1] \in S THEN Append(w, list[n + 1]) ELSE w
  PROVE  FilteredTo(v, list, S, n + 1)
<1>1. Len(list) \in Nat /\ n + 1 \in 1..Len(list) /\ \A i \in 1..n : i \in 1..Len(list) /\ i \in 1..(n + 1)
  BY LenProperties
<1>2. CASE list[n + 1] \notin S
  BY <1>1, <1>2 DEF FilteredTo
<1>3. CASE list[n + 1] \in S
  <2> DEFINE m == list[n + 1]
             k == Len(w)
             U == S \intersect Named(list)
  <2>1. m \in U
    BY <1>1, <1>3 DEF Named
  <2>2. w \in Seq(U) /\ k \in Nat /\ v = Append(w, m)
    BY <1>3, LenProperties DEF FilteredTo
  <2> HIDE DEF m, U
  <2>3. v \in Seq(U) /\ Len(v) = k + 1 /\ v[k + 1] = m /\ \A j \in 1..k : v[j] = w[j]
    BY <2>1, <2>2, AppendProperties
  <2> HIDE DEF k
  <2>4. \A j \in 1..k : w[j] # m
    <3> SUFFICES ASSUME NEW j \in 1..k, w[j] = m PROVE FALSE
      OBVIOUS
    <3>1. PICK i \in 1..n : w[j] = list[i]
      BY DEF FilteredTo, k
    <3>2. i \in 1..Len(list) /\ list[i] = list[n + 1] /\ i # n + 1
      BY <1>1, <3>1 DEF m
    <3> QED
      BY <1>1, <3>2 DEF Distinct
  <2>5. \A j \in 1..Len(v) : \E i \in 1..(n + 1) : v[j] = list[i]
    <3> SUFFICES ASSUME NEW j \in 1..(k + 1) PROVE \E i \in 1..(n + 1) : v[j] = list[i]
      BY <2>3
    <3>1. CASE j = k + 1
      BY <2>3, <3>1 DEF m
    <3>2. CASE j \in 1..k
      <4>1. PICK i \in 1..n : w[j] = list[i]
        BY <3>2 DEF FilteredTo, k
      <4> QED
        BY <2>3, <3>2, <4>1
    <3>3. j = k + 1 \/ j \in 1..k
      BY <2>2
    <3> QED
      BY <3>1, <3>2, <3>3
  <2>6. Distinct(v)
    <3>1. \A i, j \in 1..k : w[i] = w[j] => i = j
      BY DEF FilteredTo, Distinct, k
    <3> SUFFICES ASSUME NEW i \in 1..(k + 1), NEW j \in 1..(k + 1), v[i] = v[j] PROVE i = j
      BY <2>3 DEF Distinct
    <3>2. CASE i \in 1..k /\ j \in 1..k
      BY <2>3, <3>1, <3>2
    <3>3. CASE i = k + 1 \/ j = k + 1
      BY <2>2, <2>3, <2>4, <3>3
    <3> QED
      BY <2>2, <3>2, <3>3
  <2> QED
    BY <2>3, <2>5, <2>6 DEF FilteredTo, U
<1> QED
  BY <1>2, <1>3

\* A filter keeps a list of distinct members distinct, and members of both.
LEMMA FilteredIs ==
  ASSUME NEW T, NEW list \in Seq(T), NEW S, Distinct(list)
  PROVE  Filtered(list, S) \in Seq(S \intersect Named(list)) /\ Distinct(Filtered(list, S))
<1> DEFINE f == Filter(list, S)
           good == {n \in Nat : n <= Len(list) => FilteredTo(f[n], list, S, n)}
<1>0. Len(list) \in Nat
  BY LenProperties
<1>1. \A i \in 0..Len(list) : f[i] = IF i = 0 THEN <<>>
                                     ELSE IF list[i] \in S THEN Append(f[i - 1], list[i]) ELSE f[i - 1]
  <2>1. IsFilter(f, list, S, Len(list))
    BY <1>0, FilterIs
  <2> HIDE DEF f
  <2> QED
    BY <2>1 DEF IsFilter
<1> HIDE DEF f
<1>2. 0 \in good
  <2>1. f[0] = <<>>
    BY <1>0, <1>1
  <2>2. f[0] \in Seq(S \intersect Named(list)) /\ Len(f[0]) = 0
    BY <2>1, EmptySeq
  <2> QED
    BY <2>2 DEF FilteredTo, Distinct
<1>3. ASSUME NEW n \in Nat, n \in good PROVE n + 1 \in good
  <2> SUFFICES ASSUME n + 1 <= Len(list) PROVE FilteredTo(f[n + 1], list, S, n + 1)
    OBVIOUS
  <2>1. FilteredTo(f[n], list, S, n) /\ n \in 0..(Len(list) - 1)
    BY <1>0, <1>3
  <2>2. f[n + 1] = IF list[n + 1] \in S THEN Append(f[n], list[n + 1]) ELSE f[n]
    <3>1. n + 1 \in 0..Len(list) /\ n + 1 # 0 /\ (n + 1) - 1 = n
      BY <1>0
    <3> QED
      BY <1>1, <3>1
  <2> QED
    BY <2>1, <2>2, FilteredOn
<1>4. Len(list) \in good
  <2> HIDE DEF good
  <2> QED
    BY <1>0, <1>2, <1>3, Induction
<1>5. FilteredTo(f[Len(list)], list, S, Len(list)) /\ Filtered(list, S) = f[Len(list)]
  BY <1>0, <1>4, FilterIs DEF f
<1> QED
  BY <1>5 DEF FilteredTo

LEMMA DistinctJoin ==
  ASSUME NEW A, NEW B, A \intersect B = {}, NEW v \in Seq(A), NEW w \in Seq(B), Distinct(v), Distinct(w)
  PROVE  v \o w \in Seq(A \union B) /\ Distinct(v \o w)
<1>1. v \in Seq(A \union B) /\ w \in Seq(A \union B)
  BY SeqMonotonic
<1>2. /\ v \o w \in Seq(A \union B) /\ Len(v \o w) = Len(v) + Len(w) /\ Len(v) \in Nat /\ Len(w) \in Nat
      /\ \A i \in 1..(Len(v) + Len(w)) : (v \o w)[i] = IF i <= Len(v) THEN v[i] ELSE w[i - Len(v)]
  BY <1>1, ConcatProperties, LenProperties
<1>3. (\A i \in 1..Len(v) : v[i] \in A) /\ (\A i \in 1..Len(w) : w[i] \in B)
  BY ElementOfSeq
<1>4. ASSUME NEW i \in 1..(Len(v) + Len(w)), NEW j \in 1..(Len(v) + Len(w)), (v \o w)[i] = (v \o w)[j] PROVE i = j
  <2>1. CASE i <= Len(v) /\ j <= Len(v)
    <3>1. i \in 1..Len(v) /\ j \in 1..Len(v) /\ v[i] = v[j]
      BY <1>2, <1>4, <2>1
    <3> QED
      BY <3>1 DEF Distinct
  <2>2. CASE i <= Len(v) /\ j > Len(v)
    <3>1. i \in 1..Len(v) /\ j - Len(v) \in 1..Len(w) /\ v[i] = w[j - Len(v)]
      BY <1>2, <1>4, <2>2
    <3> QED
      BY <1>3, <3>1
  <2>3. CASE i > Len(v) /\ j <= Len(v)
    <3>1. j \in 1..Len(v) /\ i - Len(v) \in 1..Len(w) /\ v[j] = w[i - Len(v)]
      BY <1>2, <1>4, <2>3
    <3> QED
      BY <1>3, <3>1
  <2>4. CASE i > Len(v) /\ j > Len(v)
    <3>1. i - Len(v) \in 1..Len(w) /\ j - Len(v) \in 1..Len(w) /\ w[i - Len(v)] = w[j - Len(v)]
      BY <1>2, <1>4, <2>4
    <3>2. i - Len(v) = j - Len(v)
      BY <3>1 DEF Distinct
    <3> QED
      BY <1>2, <3>2
  <2> QED
    BY <1>2, <2>1, <2>2, <2>3, <2>4
<1> QED
  BY <1>2, <1>4 DEF Distinct

-----------------------------------------------------------------------------
(* Orders *)

LEMMA OrdersAre ==
  ASSUME NEW o \in Orders
  PROVE  o \in Seq(Nodes) /\ Distinct(o) /\ Range(o) = Named(o) /\ Named(o) \subseteq Nodes
<1>1. PICK m \in 0..Cardinality(Nodes) : o \in [1..m -> Nodes]
  BY DEF Orders, SeqOf
<1>2. Cardinality(Nodes) \in Nat
  BY FeedAssumption, FS_CardinalityType
<1>3. m \in Nat
  BY <1>2
<1>4. o \in Seq(Nodes) /\ Len(o) = m /\ DOMAIN o = 1..m
  BY <1>1, <1>3
<1>5. IsInjective(o)
  BY DEF Orders
<1> QED
  BY <1>1, <1>4, <1>5 DEF Distinct, Named, Range, IsInjective

LEMMA DistinctIsOrder ==
  ASSUME NEW o \in Seq(Nodes), Distinct(o)
  PROVE  o \in Orders
<1>1. Len(o) \in Nat /\ DOMAIN o = 1..Len(o) /\ o \in [1..Len(o) -> Nodes]
  BY LenProperties
<1>2. IsInjective(o)
  BY <1>1 DEF Distinct, IsInjective
<1>3. Cardinality(1..Len(o)) = Len(o) /\ IsFiniteSet(1..Len(o))
  BY <1>1, FS_Interval
<1>4. Len(o) <= Cardinality(Nodes)
  <2>1. o \in Injection(1..Len(o), Nodes)
    BY <1>1, <1>2 DEF Injection
  <2> QED
    BY <1>3, <2>1, FeedAssumption, FS_Injection
<1>5. Cardinality(Nodes) \in Nat
  BY FeedAssumption, FS_CardinalityType
<1> QED
  BY <1>1, <1>2, <1>4, <1>5 DEF Orders, SeqOf

LEMMA FilteredOrder ==
  ASSUME NEW o \in Orders, NEW S
  PROVE  Filtered(o, S) \in Orders /\ Filtered(o, S) \in Seq(S \intersect Range(o)) /\ Distinct(Filtered(o, S))
<1>1. o \in Seq(Nodes) /\ Distinct(o) /\ Range(o) = Named(o) /\ Named(o) \subseteq Nodes
  BY OrdersAre
<1>2. Filtered(o, S) \in Seq(S \intersect Range(o)) /\ Distinct(Filtered(o, S))
  BY <1>1, FilteredIs
<1>3. Filtered(o, S) \in Seq(Nodes)
  BY <1>1, <1>2, SeqMonotonic
<1> QED
  BY <1>2, <1>3, DistinctIsOrder

LEMMA JoinedOrder ==
  ASSUME NEW o \in Orders, NEW u \in Orders
  PROVE  Filtered(o, Range(u)) \o Filtered(u, Nodes \ Range(o)) \in Orders
<1> DEFINE v == Filtered(o, Range(u))
           w == Filtered(u, Nodes \ Range(o))
           A == Range(o)
           B == Nodes \ Range(o)
<1>1. v \in Seq(Range(u) \intersect Range(o)) /\ Distinct(v) /\ w \in Seq((Nodes \ Range(o)) \intersect Range(u)) /\ Distinct(w)
  BY FilteredOrder
<1>2. Range(o) \subseteq Nodes
  BY OrdersAre
<1>3. v \in Seq(A) /\ w \in Seq(B)
  BY <1>1, SeqMonotonic
<1>4. A \intersect B = {} /\ A \union B = Nodes
  BY <1>2
<1> HIDE DEF v, w, A, B
<1>5. v \o w \in Seq(Nodes) /\ Distinct(v \o w)
  BY <1>1, <1>3, <1>4, DistinctJoin
<1> QED
  BY <1>5, DistinctIsOrder DEF v, w

LEMMA AppendedOrder ==
  ASSUME NEW o \in Orders, NEW x \in Nodes, x \notin Range(o)
  PROVE  Append(o, x) \in Orders
<1>1. o \in Seq(Nodes) /\ Distinct(o) /\ Range(o) = Named(o)
  BY OrdersAre
<1>2. Len(o) \in Nat /\ Append(o, x) \in Seq(Nodes) /\ Len(Append(o, x)) = Len(o) + 1
      /\ Append(o, x)[Len(o) + 1] = x /\ \A i \in 1..Len(o) : Append(o, x)[i] = o[i]
  BY <1>1, AppendProperties, LenProperties
<1> DEFINE a == Append(o, x)
<1> HIDE DEF a
<1>3. \A i \in 1..Len(o) : o[i] # x
  BY <1>1 DEF Named
<1>4. Distinct(a)
  <2> SUFFICES ASSUME NEW i \in 1..(Len(o) + 1), NEW j \in 1..(Len(o) + 1), a[i] = a[j] PROVE i = j
    BY <1>2 DEF Distinct, a
  <2>1. CASE i \in 1..Len(o) /\ j \in 1..Len(o)
    BY <1>1, <1>2, <2>1 DEF Distinct, a
  <2>2. CASE i = Len(o) + 1 \/ j = Len(o) + 1
    BY <1>2, <1>3, <2>2 DEF a
  <2> QED
    BY <1>2, <2>1, <2>2
<1> QED
  BY <1>2, <1>4, DistinctIsOrder DEF a

LEMMA EmptyOrder == <<>> \in Orders
<1>1. <<>> \in Seq(Nodes) /\ Len(<<>>) = 0
  BY EmptySeq
<1>2. Distinct(<<>>)
  BY <1>1 DEF Distinct
<1> QED
  BY <1>1, <1>2, DistinctIsOrder

-----------------------------------------------------------------------------
(* Charts *)

Times == 0..MaxTime

Rising(c) == \A i, j \in 1..Len(c) : i < j => c[i] < c[j]
Spans(c) == \A i, j \in 1..Len(c) : i < j => c[j] <= c[i] + Retention

ChartOK(c) == c \in Seq(Times) /\ Len(c) <= HistoryMax /\ Rising(c) /\ Spans(c)

LEMMA EmptyChart == ChartOK(<<>>)
  BY EmptySeq, FeedAssumption DEF ChartOK, Rising, Spans

\* A newer sample at the end of a chart.
LEMMA RisesOn ==
  ASSUME NEW u \in Seq(Times), NEW at \in Times, Rising(u), \A i \in 1..Len(u) : u[i] < at
  PROVE  /\ Append(u, at) \in Seq(Times) /\ Rising(Append(u, at)) /\ Len(Append(u, at)) = Len(u) + 1
         /\ Append(u, at)[Len(u) + 1] = at
<1> DEFINE v == Append(u, at)
           k == Len(u)
<1>1. v \in Seq(Times) /\ Len(v) = k + 1 /\ v[k + 1] = at /\ \A i \in 1..k : v[i] = u[i]
  BY AppendProperties
<1>2. k \in Nat /\ \A i \in 1..k : u[i] < at
  BY LenProperties
<1>3. \A i, j \in 1..k : i < j => u[i] < u[j]
  BY DEF Rising
<1> HIDE DEF v, k
<1>4. ASSUME NEW i \in 1..(k + 1), NEW j \in 1..(k + 1), i < j PROVE v[i] < v[j]
  <2>1. i \in 1..k
    BY <1>2, <1>4
  <2>2. j \in 1..k \/ j = k + 1
    BY <1>2
  <2> QED
    BY <1>1, <1>2, <1>3, <1>4, <2>1, <2>2
<1>5. Rising(v)
  BY <1>1, <1>4 DEF Rising
<1> QED
  BY <1>1, <1>5 DEF v, k

\* The ring without its oldest sample.
LEMMA TailRises ==
  ASSUME NEW c \in Seq(Times), NEW at \in Times, Rising(c), Len(c) # 0, \A i \in 1..Len(c) : c[i] < at
  PROVE  /\ Tail(c) \in Seq(Times) /\ Len(Tail(c)) = Len(c) - 1 /\ Rising(Tail(c))
         /\ \A i \in 1..Len(Tail(c)) : Tail(c)[i] < at
<1> DEFINE v == Tail(c)
           k == Len(c)
<1>1. k \in Nat /\ c # <<>>
  BY LenProperties, EmptySeq
<1>2. v \in Seq(Times) /\ Len(v) = k - 1 /\ \A i \in 1..Len(v) : v[i] = c[i + 1]
  BY <1>1, HeadTailProperties
<1>3. (\A i, j \in 1..k : i < j => c[i] < c[j]) /\ \A i \in 1..k : c[i] < at
  BY DEF Rising
<1> HIDE DEF v, k
<1>4. \A i \in 1..Len(v) : i + 1 \in 1..k /\ v[i] = c[i + 1]
  BY <1>1, <1>2
<1>5. ASSUME NEW i \in 1..Len(v), NEW j \in 1..Len(v), i < j PROVE v[i] < v[j]
  <2>1. i + 1 \in 1..k /\ j + 1 \in 1..k /\ i + 1 < j + 1
    BY <1>1, <1>4, <1>5
  <2> QED
    BY <1>3, <1>4, <2>1
<1>6. Rising(v)
  BY <1>5 DEF Rising
<1>7. \A i \in 1..Len(v) : v[i] < at
  BY <1>3, <1>4
<1> QED
  BY <1>2, <1>6, <1>7 DEF v, k

\* The newest sample at the end, the oldest gone when the ring is full.
Added(c, at) == IF Len(c) = HistoryMax THEN Append(Tail(c), at) ELSE Append(c, at)

LEMMA AddedIs ==
  ASSUME NEW c \in Seq(Times), NEW at \in Times, Rising(c), Len(c) <= HistoryMax,
         \A i \in 1..Len(c) : c[i] < at
  PROVE  /\ Added(c, at) \in Seq(Times) /\ Len(Added(c, at)) \in Nat \ {0} /\ Len(Added(c, at)) <= HistoryMax
         /\ Rising(Added(c, at)) /\ Added(c, at)[Len(Added(c, at))] = at
<1>1. Len(c) \in Nat /\ HistoryMax \in Nat \ {0}
  BY LenProperties, FeedAssumption
<1>2. CASE Len(c) = HistoryMax
  <2>1. Tail(c) \in Seq(Times) /\ Len(Tail(c)) = Len(c) - 1 /\ Rising(Tail(c)) /\ \A i \in 1..Len(Tail(c)) : Tail(c)[i] < at
    BY <1>1, <1>2, TailRises
  <2> DEFINE v == Append(Tail(c), at)
  <2>2. v \in Seq(Times) /\ Rising(v) /\ Len(v) = Len(Tail(c)) + 1 /\ v[Len(Tail(c)) + 1] = at
    BY <2>1, RisesOn
  <2>3. Added(c, at) = v
    BY <1>2 DEF Added
  <2> HIDE DEF v
  <2>4. Len(v) = Len(c)
    BY <1>1, <2>1, <2>2
  <2> QED
    BY <1>1, <1>2, <2>2, <2>3, <2>4
<1>3. CASE Len(c) # HistoryMax
  <2> DEFINE v == Append(c, at)
  <2>2. v \in Seq(Times) /\ Rising(v) /\ Len(v) = Len(c) + 1 /\ v[Len(c) + 1] = at
    BY RisesOn
  <2>3. Added(c, at) = v
    BY <1>3 DEF Added
  <2> HIDE DEF v
  <2> QED
    BY <1>1, <1>3, <2>2, <2>3
<1> QED
  BY <1>2, <1>3

\* The first sample that is young enough.
First(c, at, i) == i \in 1..Len(c) /\ c[i] + Retention >= at /\ \A j \in 1..(i - 1) : c[j] + Retention < at

LEMMA FirstExists ==
  ASSUME NEW c \in Seq(Times), NEW at \in Times, Len(c) # 0, c[Len(c)] = at
  PROVE  \E i : First(c, at, i)
<1> DEFINE m == Len(c)
           young(i) == c[i] + Retention >= at
           S == {n \in Nat : n <= m => (\E i : First(c, at, i)) \/ \A j \in 1..n : c[j] + Retention < at}
<1>1. m \in Nat /\ m # 0 /\ Retention \in Nat /\ at \in Nat /\ \A i \in 1..m : c[i] \in Nat
  BY LenProperties, ElementOfSeq, FeedAssumption DEF Times
<1> HIDE DEF m
<1>2. 0 \in S
  OBVIOUS
<1>3. ASSUME NEW n \in Nat, n \in S PROVE n + 1 \in S
  <2> SUFFICES ASSUME n + 1 <= m, \A j \in 1..n : c[j] + Retention < at
               PROVE  (\E i : First(c, at, i)) \/ \A j \in 1..(n + 1) : c[j] + Retention < at
    BY <1>1, <1>3
  <2>1. n + 1 \in 1..m /\ (n + 1) - 1 = n
    BY <1>1
  <2>2. CASE c[n + 1] + Retention >= at
    <3>1. First(c, at, n + 1)
      BY <2>1, <2>2 DEF First, m
    <3> QED
      BY <3>1
  <2>3. CASE c[n + 1] + Retention < at
    BY <2>1, <2>3
  <2> QED
    BY <1>1, <2>1, <2>2, <2>3
<1>4. m \in S
  <2> HIDE DEF S
  <2> QED
    BY <1>1, <1>2, <1>3, Induction
<1>5. ~(c[m] + Retention < at) /\ m \in 1..m
  BY <1>1 DEF m
<1> QED
  BY <1>1, <1>4, <1>5

LEMMA PrunedIs ==
  ASSUME NEW c \in Seq(Times), NEW at \in Times, Rising(c), Len(c) \in Nat \ {0}, Len(c) <= HistoryMax, c[Len(c)] = at
  PROVE  ChartOK(Pruned(c, at))
<1> DEFINE f == CHOOSE i : First(c, at, i)
           v == Pruned(c, at)
           m == Len(c)
<1>1. First(c, at, f)
  <2>1. \E i : First(c, at, i)
    BY FirstExists
  <2> QED
    BY <2>1
<1>2. DOMAIN c = 1..Len(c)
  BY LenProperties
<1>3. v = SubSeq(c, f, m)
  <2>1. \A i : (i \in DOMAIN c /\ c[i] + Retention >= at /\ \A j \in 1..(i - 1) : c[j] + Retention < at) <=> First(c, at, i)
    BY <1>2 DEF First
  <2>2. (CHOOSE i \in DOMAIN c : c[i] + Retention >= at /\ \A j \in 1..(i - 1) : c[j] + Retention < at) = f
    BY <2>1
  <2> QED
    BY <2>2 DEF Pruned
<1> HIDE DEF f, v
<1>4. f \in 1..m /\ c[f] + Retention >= at /\ m \in Nat \ {0} /\ Retention \in Nat /\ at \in Nat /\ HistoryMax \in Nat
  BY <1>1, FeedAssumption DEF First, Times
<1>5. \A i \in 1..m : c[i] \in Times /\ c[i] \in Nat
  <2>1. \A i \in 1..m : c[i] \in Times
    BY ElementOfSeq
  <2> QED
    BY <2>1 DEF Times
<1> HIDE DEF m
<1>6. v \in Seq(Times) /\ Len(v) = m - f + 1 /\ \A i \in 1..(m - f + 1) : v[i] = c[f + i - 1]
  <2>1. \A i \in f..m : c[i] \in Times
    BY <1>4, <1>5
  <2>2. f \in Int /\ m \in Int /\ f <= m
    BY <1>4
  <2> QED
    BY <1>3, <2>1, <2>2, SubSeqProperties
<1>7. ASSUME NEW i \in 1..Len(v), NEW j \in 1..Len(v), i < j
      PROVE  v[i] < v[j] /\ v[j] <= v[i] + Retention
  <2>1. PICK a \in 1..m, b \in 1..m : a < b /\ f <= a /\ v[i] = c[a] /\ v[j] = c[b]
    <3>1. f + i - 1 \in 1..m /\ f + j - 1 \in 1..m /\ f + i - 1 < f + j - 1 /\ f <= f + i - 1
      BY <1>4, <1>6, <1>7
    <3>2. v[i] = c[f + i - 1] /\ v[j] = c[f + j - 1]
      BY <1>6
    <3> QED
      BY <3>1, <3>2
  <2>2. c[a] \in Nat /\ c[b] \in Nat /\ c[f] \in Nat
    BY <1>4, <1>5
  <2>3. c[m] \in Nat /\ c[m] = at /\ m \in 1..m
    BY <1>4 DEF m, Times
  <2>4. \A x, y \in 1..m : x < y => c[x] < c[y]
    BY DEF Rising, m
  <2>5. c[a] < c[b]
    BY <2>1, <2>4
  <2>6. c[f] <= c[a]
    <3>1. f = a \/ f < a
      BY <1>4, <2>1
    <3>2. f < a => c[f] < c[a]
      BY <1>4, <2>4
    <3> QED
      BY <2>2, <3>1, <3>2
  <2>7. c[b] <= c[m]
    <3>1. b = m \/ b < m
      BY <1>4, <2>1
    <3>2. b < m => c[b] < c[m]
      BY <2>3, <2>4
    <3> QED
      BY <2>2, <2>3, <3>1, <3>2
  <2>8. v[i] < v[j]
    BY <2>1, <2>5
  <2>9. c[b] <= c[a] + Retention
    BY <1>4, <2>2, <2>3, <2>6, <2>7
  <2> QED
    BY <2>1, <2>8, <2>9
<1>8. Len(v) <= HistoryMax
  BY <1>4, <1>6 DEF m
<1> QED
  BY <1>6, <1>7, <1>8 DEF ChartOK, Rising, Spans, v

LEMMA PushedIs ==
  ASSUME NEW c, ChartOK(c), NEW at \in Times
  PROVE  ChartOK(Pushed(c, at))
<1>1. CASE c # <<>> /\ at <= Last(c)
  BY <1>1 DEF Pushed
<1>2. CASE ~(c # <<>> /\ at <= Last(c))
  <2> DEFINE k == Len(c)
  <2>0. c \in Seq(Times) /\ k \in Nat /\ (\A i \in 1..k : c[i] \in Times) /\ (\A i, j \in 1..k : i < j => c[i] < c[j])
    <3>1. c \in Seq(Times)
      BY DEF ChartOK
    <3> QED
      BY <3>1, LenProperties, ElementOfSeq DEF ChartOK, Rising
  <2>1. \A i \in 1..k : c[i] < at
    <3> SUFFICES ASSUME NEW i \in 1..k PROVE c[i] < at
      OBVIOUS
    <3>1. c # <<>>
      BY <2>0, EmptySeq
    <3>2. ~(at <= c[k])
      BY <1>2, <3>1 DEF Last
    <3> HIDE DEF k
    <3>3. k \in 1..k /\ (i = k \/ i < k)
      BY <2>0
    <3>4. c[i] \in Times /\ c[k] \in Times
      BY <2>0, <3>3
    <3>5. c[i] = c[k] \/ c[i] < c[k]
      BY <2>0, <3>3
    <3> QED
      BY <3>2, <3>4, <3>5 DEF Times
  <2> DEFINE v == Added(c, at)
  <2>2. v \in Seq(Times) /\ Len(v) \in Nat \ {0} /\ Len(v) <= HistoryMax /\ Rising(v) /\ v[Len(v)] = at
    BY <2>1, AddedIs DEF ChartOK
  <2>3. Pushed(c, at) = Pruned(v, at)
    BY <1>2 DEF Pushed, Rung, Added
  <2> HIDE DEF v
  <2> QED
    BY <2>2, <2>3, PrunedIs
<1> QED
  BY <1>1, <1>2

-----------------------------------------------------------------------------
(* SnapshotFeed: its inductive invariant *)

Payloads == [order : Orders, at : Times]

OrdersOK == {order, sparks, fallback, override, reordering} \subseteq Orders
FeedCountsOK == now \in Times /\ edits \in 0..MaxEdits
FeedFlagsOK ==
    /\ client \in BOOLEAN /\ fetching \in BOOLEAN /\ crossed \in BOOLEAN
    /\ ws \in {"none", "connecting", "open"}
BacklogOK == frames \in Seq(Payloads) /\ Len(frames) <= Backlog
ChartsOK ==
    /\ DOMAIN charts = Nodes /\ charts = [n \in Nodes |-> charts[n]]
    /\ \A n \in Nodes : ChartOK(charts[n]) /\ (charts[n] # <<>> => n \in Range(sparks))

FeedInv == OrdersOK /\ FeedCountsOK /\ FeedFlagsOK /\ BacklogOK /\ ChartsOK

LEMMA FeedInitInv == FeedInit => FeedInv
<1> SUFFICES ASSUME FeedInit PROVE FeedInv
  OBVIOUS
<1>1. OrdersOK
  BY EmptyOrder DEF FeedInit, OrdersOK, NoOrder
<1>2. FeedCountsOK /\ FeedFlagsOK
  <2>1. FeedCountsOK
    BY FeedAssumption DEF FeedInit, FeedCountsOK, Times
  <2>2. FeedFlagsOK
    BY DEF FeedInit, FeedFlagsOK
  <2> QED
    BY <2>1, <2>2
<1>3. BacklogOK
  BY EmptySeq, FeedAssumption DEF FeedInit, BacklogOK
<1>4. ChartsOK
  BY EmptyChart DEF FeedInit, ChartsOK
<1> QED
  BY <1>1, <1>2, <1>3, <1>4 DEF FeedInv

\* Which list is which after a step.
LEMMA OrdersStep == OrdersOK /\ BacklogOK /\ [FeedNext]_feedVars => OrdersOK'
<1> SUFFICES ASSUME OrdersOK, BacklogOK, [FeedNext]_feedVars PROVE OrdersOK'
  OBVIOUS
<1> DEFINE Is(o) == o \in Orders
<1>0. order \in Orders /\ sparks \in Orders /\ fallback \in Orders /\ override \in Orders /\ reordering \in Orders
      /\ NoOrder \in Orders
  BY EmptyOrder DEF OrdersOK, NoOrder
<1>1. CASE Tick \/ Clock \/ WsConnects \/ Accepted \/ WsBreaks \/ Closes \/ UNCHANGED feedVars
  BY <1>0, <1>1 DEF OrdersOK, Tick, Clock, WsConnects, Accepted, WsBreaks, Closes, feedVars, server, page
<1>2. CASE OthersEdit
  BY <1>0, <1>2 DEF OrdersOK, OthersEdit, page
<1>3. CASE FrameArrives
  <2>1. Head(frames) \in Payloads
    BY <1>3, HeadTailProperties DEF BacklogOK, FrameArrives
  <2>2. sparks' \in Orders
    BY <1>3, <2>1 DEF FrameArrives, Payloads
  <2> QED
    BY <1>0, <1>3, <2>2, EmptyOrder DEF OrdersOK, FrameArrives, Kept, server
<1>4. CASE Drag
  BY <1>0, <1>4 DEF OrdersOK, Drag, server
<1>5. CASE SaveServed
  <2>1. order' \in Orders
    BY <1>0, <1>5, JoinedOrder DEF SaveServed, Reordered
  <2> QED
    BY <1>0, <1>5, <2>1 DEF OrdersOK, SaveServed
<1>6. CASE SaveFails
  BY <1>0, <1>6 DEF OrdersOK, SaveFails, server
<1>7. CASE EditHere
  <2>1. PICK n \in Nodes : order' = IF n \in Range(order) THEN Filtered(order, Nodes \ {n}) ELSE Append(order, n)
    BY <1>7 DEF EditHere
  <2>2. order' \in Orders
    BY <1>0, <2>1, FilteredOrder, AppendedOrder
  <2> QED
    BY <1>0, <1>7, <2>2 DEF OrdersOK, EditHere
<1>8. CASE Fetched
  BY <1>0, <1>8 DEF OrdersOK, Fetched, Kept, server
<1> QED
  BY <1>1, <1>2, <1>3, <1>4, <1>5, <1>6, <1>7, <1>8 DEF FeedNext

\* The clock and the flags.
LEMMA FeedTypesStep == FeedCountsOK /\ FeedFlagsOK /\ [FeedNext]_feedVars => FeedCountsOK' /\ FeedFlagsOK'
<1> SUFFICES ASSUME FeedCountsOK, FeedFlagsOK, [FeedNext]_feedVars PROVE FeedCountsOK' /\ FeedFlagsOK'
  OBVIOUS
<1>1. FeedCountsOK'
  <2> USE FeedAssumption DEF FeedCountsOK, Times, server
  <2>1. CASE Clock
    BY <2>1 DEF Clock, Passes, SetBack
  <2>2. CASE OthersEdit \/ WsBreaks \/ Drag \/ EditHere
    BY <2>2 DEF OthersEdit, WsBreaks, Drag, EditHere
  <2>3. CASE Tick \/ WsConnects \/ Accepted \/ Closes \/ FrameArrives \/ SaveServed \/ SaveFails \/ Fetched \/ UNCHANGED feedVars
    <3>1. now' = now /\ edits' = edits
      BY <2>3 DEF Tick, WsConnects, Accepted, Closes, FrameArrives, SaveServed, SaveFails, Fetched, feedVars
    <3> QED
      BY <3>1
  <2> QED
    BY <2>1, <2>2, <2>3 DEF FeedNext
<1>2. FeedFlagsOK'
  <2> USE DEF FeedFlagsOK
  <2>1. CASE Tick \/ Clock \/ OthersEdit
    <3>1. client' \in {client, FALSE} /\ crossed' \in BOOLEAN /\ fetching' = fetching /\ ws' = ws
      BY <2>1 DEF Tick, Broadcast, Clock, OthersEdit, page
    <3> QED
      BY <3>1
  <2>2. CASE WsConnects \/ Accepted \/ WsBreaks \/ Closes
    <3>1. client' \in BOOLEAN /\ crossed' = crossed /\ fetching' = fetching /\ ws' \in {"none", "connecting", "open"}
      BY <2>2 DEF WsConnects, Accepted, WsBreaks, Closes, page
    <3> QED
      BY <3>1
  <2>3. CASE FrameArrives \/ Drag \/ SaveServed \/ SaveFails \/ EditHere \/ Fetched \/ UNCHANGED feedVars
    <3>1. client' = client /\ crossed' \in BOOLEAN /\ fetching' \in BOOLEAN /\ ws' = ws
      BY <2>3 DEF FrameArrives, Drag, SaveServed, SaveFails, EditHere, Fetched, feedVars
    <3> QED
      BY <3>1
  <2> QED
    BY <2>1, <2>2, <2>3 DEF FeedNext
<1> QED
  BY <1>1, <1>2

\* What waits for the client.
LEMMA BacklogStep == BacklogOK /\ OrdersOK /\ FeedCountsOK /\ [FeedNext]_feedVars => BacklogOK'
<1> SUFFICES ASSUME BacklogOK, OrdersOK, FeedCountsOK, [FeedNext]_feedVars PROVE BacklogOK'
  OBVIOUS
<1>0. Payload \in Payloads /\ Backlog \in Nat \ {0} /\ Len(frames) \in Nat
  BY LenProperties, FeedAssumption DEF Payload, Payloads, OrdersOK, FeedCountsOK, BacklogOK
<1>1. CASE UNCHANGED frames
  BY <1>1 DEF BacklogOK
<1>2. CASE frames' = Append(frames, Payload) /\ Len(frames) < Backlog
  <2>1. Append(frames, Payload) \in Seq(Payloads) /\ Len(Append(frames, Payload)) = Len(frames) + 1
    BY <1>0, AppendProperties DEF BacklogOK
  <2> QED
    BY <1>0, <1>2, <2>1 DEF BacklogOK
<1>3. CASE frames' = <<Payload>>
  <2>1. Append(<<>>, Payload) \in Seq(Payloads) /\ Len(Append(<<>>, Payload)) = 0 + 1
    BY <1>0, EmptySeq, AppendProperties
  <2>2. <<Payload>> = Append(<<>>, Payload)
    OBVIOUS
  <2> QED
    BY <1>0, <1>3, <2>1, <2>2 DEF BacklogOK
<1>4. CASE frames' = <<>>
  BY <1>0, <1>4, EmptySeq DEF BacklogOK
<1>5. CASE frames # <<>> /\ frames' = Tail(frames)
  <2>1. Tail(frames) \in Seq(Payloads) /\ Len(Tail(frames)) = Len(frames) - 1
    BY <1>5, HeadTailProperties DEF BacklogOK
  <2> QED
    BY <1>0, <1>5, <2>1 DEF BacklogOK
<1>6. CASE Tick
  <2>1. frames' = frames \/ (frames' = Append(frames, Payload) /\ ~(Len(frames) >= Backlog))
    BY <1>6 DEF Tick, Broadcast
  <2> QED
    BY <1>0, <1>1, <1>2, <2>1
<1>7. CASE Accepted
  BY <1>3, <1>7 DEF Accepted
<1>8. CASE WsBreaks
  BY <1>4, <1>8 DEF WsBreaks
<1>9. CASE FrameArrives
  BY <1>5, <1>9 DEF FrameArrives
<1>10. CASE Clock \/ OthersEdit \/ WsConnects \/ Closes \/ Drag \/ SaveServed \/ SaveFails \/ EditHere \/ Fetched \/ UNCHANGED feedVars
  <2>1. frames' = frames
    BY <1>10 DEF Clock, OthersEdit, WsConnects, Closes, Drag, SaveServed, SaveFails, EditHere, Fetched, feedVars
  <2> QED
    BY <1>1, <2>1
<1> QED
  BY <1>6, <1>7, <1>8, <1>9, <1>10 DEF FeedNext

\* The charts change only when a snapshot arrives.
LEMMA ChartsStep == ChartsOK /\ BacklogOK /\ [FeedNext]_feedVars => ChartsOK'
<1> SUFFICES ASSUME ChartsOK, BacklogOK, [FeedNext]_feedVars PROVE ChartsOK'
  OBVIOUS
<1>1. CASE FrameArrives
  <2>1. Head(frames) \in Payloads /\ sparks' = Head(frames).order /\ charts' = Ingested(Head(frames))
    BY <1>1, HeadTailProperties DEF BacklogOK, FrameArrives
  <2>2. Head(frames).at \in Times
    BY <2>1 DEF Payloads
  <2>3. /\ DOMAIN charts' = Nodes /\ charts' = [n \in Nodes |-> charts'[n]]
        /\ \A n \in Nodes : charts'[n] = IF n \in Range(sparks') THEN Pushed(charts[n], Head(frames).at) ELSE <<>>
    BY <2>1 DEF Ingested
  <2>4. ASSUME NEW n \in Nodes PROVE ChartOK(charts'[n]) /\ (charts'[n] # <<>> => n \in Range(sparks'))
    <3>1. ChartOK(charts[n])
      BY DEF ChartsOK
    <3>2. ChartOK(Pushed(charts[n], Head(frames).at))
      BY <2>2, <3>1, PushedIs
    <3> QED
      BY <2>3, <3>2, EmptyChart
  <2>5. \A n \in Nodes : ChartOK(charts'[n]) /\ (charts'[n] # <<>> => n \in Range(sparks'))
    BY <2>4
  <2> QED
    BY <2>3, <2>5 DEF ChartsOK, ChartOK, Rising, Spans
<1>2. CASE ~FrameArrives
  <2>1. charts' = charts /\ sparks' = sparks
    BY <1>2 DEF FeedNext, Tick, Clock, OthersEdit, WsConnects, Accepted, WsBreaks, Closes, Drag, SaveServed,
                SaveFails, EditHere, Fetched, feedVars, page
  <2> QED
    BY <2>1 DEF ChartsOK, ChartOK, Rising, Spans
<1> QED
  BY <1>1, <1>2

LEMMA FeedNextStep == FeedInv /\ [FeedNext]_feedVars => FeedInv'
  BY OrdersStep, FeedTypesStep, BacklogStep, ChartsStep DEF FeedInv

LEMMA FeedInvImplies == FeedInv => FeedTypeOK /\ ChartsInOrder
<1> SUFFICES ASSUME FeedInv PROVE FeedTypeOK /\ ChartsInOrder
  OBVIOUS
<1>1. ASSUME NEW n \in Nodes
      PROVE  /\ charts[n] \in BoundedSeq(0..MaxTime, HistoryMax) /\ (charts[n] # <<>> => n \in Range(sparks))
             /\ \A i, j \in DOMAIN charts[n] : i < j =>
                   charts[n][i] < charts[n][j] /\ charts[n][j] <= charts[n][i] + Retention
  <2>1. ChartOK(charts[n]) /\ (charts[n] # <<>> => n \in Range(sparks))
    BY DEF FeedInv, ChartsOK
  <2> DEFINE c == charts[n]
             k == Len(c)
  <2> HIDE DEF c
  <2>2. ChartOK(c)
    BY <2>1 DEF c
  <2>3. c \in Seq(Times) /\ k <= HistoryMax /\ Rising(c) /\ Spans(c)
    BY <2>2 DEF ChartOK
  <2>4. k \in Nat /\ c \in [1..k -> Times] /\ DOMAIN c = 1..k
    BY <2>3, LenProperties
  <2> HIDE DEF k
  <2>5. k \in 0..HistoryMax
    BY <2>3, <2>4, FeedAssumption
  <2>6. c \in BoundedSeq(0..MaxTime, HistoryMax)
    BY <2>4, <2>5 DEF BoundedSeq, SeqOf, Times
  <2>7. \A i, j \in DOMAIN c : i < j => c[i] < c[j] /\ c[j] <= c[i] + Retention
    BY <2>3, <2>4 DEF Rising, Spans, k
  <2> QED
    BY <2>1, <2>6, <2>7 DEF c
<1>2. charts \in [Nodes -> BoundedSeq(0..MaxTime, HistoryMax)]
  <2>1. charts = [n \in Nodes |-> charts[n]]
    BY DEF FeedInv, ChartsOK
  <2> QED
    BY <1>1, <2>1
<1>3. {order, sparks, fallback, override, reordering} \subseteq Orders /\ now \in 0..MaxTime /\ edits \in 0..MaxEdits
  BY DEF FeedInv, OrdersOK, FeedCountsOK, Times
<1>4. client \in BOOLEAN /\ fetching \in BOOLEAN /\ crossed \in BOOLEAN /\ ws \in {"none", "connecting", "open"}
  BY DEF FeedInv, FeedFlagsOK
<1>5. Len(frames) <= Backlog
  BY DEF FeedInv, BacklogOK
<1>6. FeedTypeOK
  BY <1>2, <1>3, <1>4, <1>5 DEF FeedTypeOK
<1>7. ChartsInOrder
  BY <1>1 DEF ChartsInOrder
<1> QED
  BY <1>6, <1>7

-----------------------------------------------------------------------------
(* The four side by side *)

ChannelsInv == LinkInv /\ PushesOK /\ SupInv /\ ViewInv /\ FeedInv

LEMMA ChannelsInit == Init => ChannelsInv
  BY LinkInitInv, PushesInit, SupInitInv, ViewInitInv, FeedInitInv DEF Init, ChannelsInv

\* One of them steps, the others rest.
LEMMA OneSteps ==
  ASSUME [Next]_vars
  PROVE  [LinkNext]_linkVars /\ [SupNext]_supVars /\ [ViewNext]_viewVars /\ [FeedNext]_feedVars
  BY DEF Next, vars

\* The one whose turn it is keeps its invariant, the others rest.
LEMMA ChannelsNext == ChannelsInv /\ [Next]_vars => ChannelsInv'
<1> SUFFICES ASSUME ChannelsInv, [Next]_vars PROVE ChannelsInv'
  OBVIOUS
<1>1. [LinkNext]_linkVars /\ [SupNext]_supVars /\ [ViewNext]_viewVars /\ [FeedNext]_feedVars
  BY OneSteps
<1> QED
  BY <1>1, LinkNextStep, PushesNext, SupNextStep, ViewNextInv, FeedNextStep DEF ChannelsInv

LEMMA ChannelsInvariance == Spec => []ChannelsInv
<1> QED
  BY ChannelsInit, ChannelsNext, PTL DEF Spec

\* Every variable of the channel to the agent, the supervisor, the page of the
\* showcases and the live view keeps its type, and so does all that is on its
\* way between them.
THEOREM ChannelTypes == Spec => []ChannelTypesOK
<1>1. SupInv => SupTypeOK
  BY DEF SupInv
<1>2. ChannelsInv => ChannelTypesOK
  BY <1>1, LinkInvTypes, ViewInvTypes, FeedInvImplies DEF ChannelsInv, ChannelTypesOK
<1> QED
  BY <1>2, ChannelsInvariance, PTL

\* What has arrived is not undone by what was sent before: the monitor's metrics
\* go back only while an agent has left its registered connection, the history
\* of a showcase is not revised, and a chart never goes back in time.
THEOREM NothingUndone == Spec => NothingIsUndone
<1>1. ChannelsInv /\ [Next]_vars => [seen' < seen => conn # sock]_linkVars
  <2> SUFFICES ASSUME ChannelsInv, [Next]_vars PROVE seen' < seen => conn # sock
    OBVIOUS
  <2>1. [LinkNext]_linkVars
    BY OneSteps
  <2> QED
    BY <2>1, PushesNext DEF ChannelsInv
<1>2. ChannelsInv /\ [Next]_vars =>
        [\A s \in Sessions : archive[s] # "none" => archive'[s] = archive[s]]_viewVars
  <2> SUFFICES ASSUME ChannelsInv, [Next]_vars
               PROVE  [\A s \in Sessions : archive[s] # "none" => archive'[s] = archive[s]]_viewVars
    OBVIOUS
  <2>1. [ViewNext]_viewVars
    BY OneSteps
  <2> QED
    BY <2>1, ArchiveStep DEF ChannelsInv, ViewInv
<1>3. ChannelsInv => ChartsInOrder
  BY FeedInvImplies DEF ChannelsInv
<1>4. Spec => MetricsInOrder
  BY <1>1, ChannelsInvariance, PTL DEF Spec, MetricsInOrder
<1>5. Spec => ArchiveIsFinal
  BY <1>2, ChannelsInvariance, PTL DEF Spec, ArchiveIsFinal
<1>6. Spec => []ChartsInOrder
  BY <1>3, ChannelsInvariance, PTL
<1> QED
  BY <1>4, <1>5, <1>6 DEF NothingIsUndone

\* An agent has one connection at a time that the dashboard believes in, whose
\* frames reach it.
THEOREM ConnectionIsOne == Spec => []OneConnection
<1>1. ChannelsInv => OneConnection
  BY LinkInvImplies DEF ChannelsInv
<1> QED
  BY <1>1, ChannelsInvariance, PTL

\* What is pushed to an agent that stays connected reaches it or is on the way,
\* a command is answered by its own end; a pid file is true and signals go to
\* the script's processes; a page shows its session's text.
THEOREM Exchanges == Spec => []ExchangesHold
<1>1. SupInv => PidFileIsTrue /\ RunIsFiled /\ SignalsItsOwn
  BY DEF SupInv
<1>2. ChannelsInv => ExchangesHold
  BY <1>1, LinkInvImplies, ViewInvImplies DEF ChannelsInv, ExchangesHold
<1> QED
  BY <1>2, ChannelsInvariance, PTL
=============================================================================
