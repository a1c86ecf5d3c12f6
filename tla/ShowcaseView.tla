---------------------------- MODULE ShowcaseView ----------------------------
(***************************************************************************)
(* A prompt showcase and the page that shows it: a session of              *)
(* ShowcaseManager.js, whose text grows while it runs, and the polls of    *)
(* ShowcasePage.tsx.  A poll with a revision is answered with what the     *)
(* manager has not sent yet, to whomever; one without, and a stop, with    *)
(* the whole text.  The page appends what it gets.  A session that nobody  *)
(* polls is cancelled.                                                     *)
(*                                                                         *)
(* Each session here has one stream, a text is the number of its pieces.   *)
(* The cap on texts, rates and the list of past sessions are left out.     *)
(* LoadRuns says which sessions may run beside other loads.                *)
(***************************************************************************)
EXTENDS Naturals, Sequences, FiniteSets

CONSTANTS
    Sessions,      \* in the order in which they are started
    NoSession,
    MaxText,       \* bound on the pieces of a text
    MaxWire        \* bound on requests under way

ASSUME ViewAssumption ==
    /\ NoSession \notin Sessions /\ MaxText \in Nat /\ MaxWire \in Nat

VARIABLES
    session,       \* [status, flow: of its requests, text, sent: _sentContentLengths]
    activeSession, \* activeBySpark, of the one spark
    archive,       \* the status in the history, "none" before
    wire,          \* requests and their answers under way
    mounted,       \* the page is shown
    launching,      \* handleRun awaits
    sid,           \* sessionIdRef
    since,         \* revRef is set
    shown,         \* the text on the page: session and number of each piece
    shownStatus,   \* sessionStatus
    timer,         \* the session that pollTimer will poll
    overtaken,     \* history: a poll came back when the page had gone on
    leaked         \* history: the page was left with a poll under way

pageVars == <<mounted, launching, sid, since, shown, shownStatus, timer, overtaken, leaked>>
viewVars == <<session, activeSession, archive, wire, pageVars>>

Final == {"completed", "error", "cancelled"}
Unstarted == [status |-> "none", flow |-> "none", text |-> 0, sent |-> 0]

ViewInit ==
    /\ session = [s \in Sessions |-> Unstarted]
    /\ activeSession = NoSession
    /\ archive = [s \in Sessions |-> "none"]
    /\ wire = {}
    /\ mounted = TRUE /\ launching = FALSE /\ sid = NoSession /\ since = FALSE
    /\ shown = <<>> /\ shownStatus = "none" /\ timer = NoSession
    /\ overtaken = FALSE /\ leaked = FALSE

Going(s) == session[s].status = "running"
Fresh == {s \in Sessions : session[s].status = "none"}

-----------------------------------------------------------------------------
(* The session *)

Grows(s) ==
    /\ Going(s) /\ session[s].flow = "streaming" /\ session[s].text < MaxText
    /\ session' = [session EXCEPT ![s].text = @ + 1]
    /\ UNCHANGED <<activeSession, archive, wire, pageVars>>

\* The request of the stream has come back and the loop returns, also after a
\* cancel: that status stays.  The loop takes whichever session is the active
\* one off.
Verdict(s, ok) ==
    IF ~Going(s) THEN session[s].status
    ELSE IF ok /\ session[s].text > 0 THEN "completed" ELSE "error"

Settle(s, ok) ==
    /\ session[s].flow = "streaming"
    /\ session' = [session EXCEPT ![s].status = Verdict(s, ok), ![s].flow = "over"]
    /\ archive' = [archive EXCEPT ![s] = Verdict(s, ok)]
    /\ activeSession' = NoSession
    /\ UNCHANGED <<wire, pageVars>>

\* cancel: of a session that runs; it is in the history at once.
Cancelled(s) == IF Going(s) THEN [session[s] EXCEPT !.status = "cancelled"] ELSE session[s]

Cancels(s) ==
    IF Going(s) THEN archive' = [archive EXCEPT ![s] = "cancelled"] /\ activeSession' = NoSession
    ELSE UNCHANGED <<archive, activeSession>>

\* Five seconds without a poll.  The page's timer is much faster; a request may
\* take that long.
Heartbeat(s) ==
    /\ Going(s) /\ timer # s
    /\ session' = [session EXCEPT ![s] = Cancelled(s)]
    /\ Cancels(s)
    /\ UNCHANGED <<wire, pageVars>>

-----------------------------------------------------------------------------
(* Requests *)

Asks(kind, s, first) ==
    [kind |-> kind, at |-> "server", sid |-> s, first |-> first, whole |-> ~since,
     from |-> 0, to |-> 0, status |-> "none"]

Answer(m, whole, from, to, status) ==
    [m EXCEPT !.at = "page", !.whole = whole, !.from = from, !.to = to, !.status = status]

Handled(m, answer) == wire' = (wire \ {m}) \union {answer}

\* POST: one session at a time on the spark.
ServesStart(m) ==
    LET s == CHOOSE fresh \in Fresh : TRUE
    IN  /\ m.kind = "start" /\ m.at = "server"
        /\ IF activeSession # NoSession
           THEN /\ Handled(m, Answer(m, FALSE, 0, 0, "refused"))
                /\ UNCHANGED <<session, activeSession>>
           ELSE /\ Fresh # {}
                /\ session' = [session EXCEPT ![s].status = "running", ![s].flow = "streaming"]
                /\ activeSession' = s
                /\ Handled(m, [Answer(m, FALSE, 0, 0, "running") EXCEPT !.sid = s])
        /\ UNCHANGED <<archive, pageVars>>

\* The part of the text that a poll gets, and what the manager notes as sent.
From(m) == IF m.whole THEN 0 ELSE session[m.sid].sent

ServesPoll(m) ==
    /\ m.kind = "poll" /\ m.at = "server"
    /\ Handled(m, Answer(m, m.whole, From(m), session[m.sid].text, session[m.sid].status))
    /\ session' = [session EXCEPT ![m.sid].sent = session[m.sid].text]
    /\ UNCHANGED <<activeSession, archive, pageVars>>

ServesStop(m) ==
    /\ m.kind = "stop" /\ m.at = "server"
    /\ session' = [session EXCEPT ![m.sid] = [Cancelled(m.sid) EXCEPT !.sent = session[m.sid].text]]
    /\ Cancels(m.sid)
    /\ Handled(m, Answer(m, TRUE, 0, session[m.sid].text, session'[m.sid].status))
    /\ UNCHANGED pageVars

-----------------------------------------------------------------------------
(* The page *)

serverVars == <<session, activeSession, archive>>

Locked == shownStatus = "running" \/ launching

Sends(m) == Cardinality(wire) < MaxWire /\ wire' = wire \union {m}

\* The state of a component that is gone stays as it is.
Shows(text, status) ==
    IF mounted THEN shown' = text /\ shownStatus' = status ELSE UNCHANGED <<shown, shownStatus>>

\* handleRun up to its first await; the status on the page stays.  Sessions
\* are bounded.
PressRun ==
    /\ mounted /\ ~Locked /\ Fresh # {}
    /\ launching' = TRUE /\ since' = FALSE /\ shown' = <<>>
    /\ Sends([Asks("start", NoSession, TRUE) EXCEPT !.whole = TRUE])
    /\ overtaken' = \E m \in wire : m.kind # "start"
    /\ UNCHANGED <<serverVars, mounted, sid, shownStatus, timer, leaked>>

\* ... the session is there and is polled at once; or the start was refused.
Started(m) ==
    /\ m.kind = "start" /\ m.at = "page"
    /\ IF m.status = "refused"
       THEN /\ launching' = FALSE /\ sid' = NoSession /\ Shows(shown, "none")
            /\ wire' = wire \ {m}
       ELSE /\ sid' = m.sid /\ Shows(shown, "running")
            /\ wire' = (wire \ {m}) \union {Asks("poll", m.sid, TRUE)}
            /\ UNCHANGED launching
    /\ UNCHANGED <<serverVars, mounted, since, timer, overtaken, leaked>>

Pieces(s, from, to) == [k \in 1..(to - from) |-> <<s, from + k>>]

\* applySession.  It does not ask which session the page is on.
TextAfterBug(m) == Pieces(m.sid, m.from, m.to)
TextAfter(m) ==
    IF m.whole THEN Pieces(m.sid, 0, m.to) ELSE shown \o Pieces(m.sid, m.from, m.to)

\* The page has gone on: to another session, to a new run, or to a stop.
Late(m) ==
    \/ sid # m.sid
    \/ ~m.first /\ launching
    \/ m.kind = "poll" /\ shownStatus # "running"

\* The answer of a poll; the next one is scheduled if the session runs, by the
\* timer's poll only if the page is still on it.
PollArrives(m) ==
    /\ m.kind = "poll" /\ m.at = "page"
    /\ wire' = wire \ {m}
    /\ Shows(TextAfter(m), m.status) /\ since' = TRUE
    /\ launching' = (launching /\ ~m.first)
    /\ overtaken' = (overtaken \/ Late(m))
    /\ timer' = IF ~m.first /\ sid # m.sid THEN timer
                ELSE IF m.status = "running" THEN m.sid
                ELSE IF m.first THEN timer ELSE NoSession
    /\ UNCHANGED <<serverVars, mounted, sid, leaked>>

StopArrives(m) ==
    /\ m.kind = "stop" /\ m.at = "page"
    /\ wire' = wire \ {m}
    /\ Shows(TextAfter(m), m.status) /\ since' = TRUE
    /\ overtaken' = (overtaken \/ Late(m))
    /\ UNCHANGED <<serverVars, mounted, launching, sid, timer, leaked>>

\* A request or its answer is lost: the error is shown, nobody polls on; after
\* a start or the first poll the page is on no session.
RequestLost(m) ==
    /\ wire' = wire \ {m}
    /\ IF m.first THEN launching' = FALSE /\ sid' = NoSession /\ Shows(shown, "none")
       ELSE UNCHANGED <<launching, sid, shown, shownStatus>>
    /\ timer' = IF m.kind = "poll" /\ ~m.first THEN NoSession ELSE timer
    /\ UNCHANGED <<serverVars, mounted, since, overtaken, leaked>>

TimerFires ==
    /\ timer # NoSession /\ timer' = NoSession
    /\ IF sid = timer THEN Sends(Asks("poll", sid, FALSE)) ELSE UNCHANGED wire
    /\ UNCHANGED <<serverVars, mounted, launching, sid, since, shown, shownStatus, overtaken, leaked>>

\* handleStop: no more polls, but for the one under way.
PressStop ==
    /\ mounted /\ sid # NoSession /\ shownStatus = "running" /\ ~\E m \in wire : m.kind = "stop"
    /\ timer' = NoSession
    /\ Sends(Asks("stop", sid, FALSE))
    /\ overtaken' = (overtaken \/ \E m \in wire : m.kind = "poll")
    /\ UNCHANGED <<serverVars, mounted, launching, sid, since, shown, shownStatus, leaked>>

\* Another page of the dashboard: the state goes with the component, and the
\* timer; the refs stay, and a poll under way.
Unmount ==
    /\ mounted /\ mounted' = FALSE
    /\ timer' = NoSession
    /\ shown' = <<>> /\ shownStatus' = "none" /\ launching' = FALSE
    /\ leaked' = \E m \in wire : m.kind \in {"start", "poll"}
    /\ UNCHANGED <<serverVars, wire, sid, since, overtaken>>

ViewNext ==
    \/ \E s \in Sessions :
          \/ Grows(s) \/ Heartbeat(s)
          \/ \E ok \in BOOLEAN : Settle(s, ok)
    \/ \E m \in wire :
          \/ ServesStart(m) \/ ServesPoll(m) \/ ServesStop(m)
          \/ Started(m) \/ PollArrives(m) \/ StopArrives(m) \/ RequestLost(m)
    \/ PressRun \/ PressStop \/ TimerFires \/ Unmount

\* The heartbeat's interval; requests end, by an answer or an error.
HeartbeatRuns == \E s \in Sessions : Heartbeat(s)
RequestsRun == \E m \in wire : ServesStart(m) \/ ServesPoll(m) \/ ServesStop(m)
AnswersRun == \E m \in wire : Started(m) \/ PollArrives(m) \/ StopArrives(m)

ViewFairness == WF_viewVars(HeartbeatRuns) /\ WF_viewVars(RequestsRun) /\ WF_viewVars(AnswersRun)

-----------------------------------------------------------------------------
ViewTypeOK ==
    /\ \A s \in Sessions :
          /\ session[s].status \in Final \union {"none", "running"}
          /\ session[s].flow \in {"none", "streaming", "over"}
          /\ session[s].text \in 0..MaxText /\ session[s].sent \in 0..session[s].text
          /\ archive[s] \in Final \union {"none"}
    /\ {sid, timer, activeSession} \subseteq Sessions \union {NoSession}
    /\ Cardinality(wire) <= MaxWire
    /\ {mounted, launching, since, overtaken, leaked} \subseteq BOOLEAN

\* The page shows the beginning of its session's text, each piece once and
\* nothing of another session, unless a poll came back late; and the whole
\* text when it shows that the session has ended.
ShownIsText == mounted /\ ~overtaken =>
    /\ shown # <<>> /\ ~launching => shown = Pieces(sid, 0, Len(shown))
    /\ shownStatus \in Final /\ ~launching => Len(shown) = session[sid].text

\* What the history says of a session is not revised.
ArchiveIsFinal ==
    [][\A s \in Sessions : archive[s] # "none" => archive'[s] = archive[s]]_viewVars

\* A session whose page was left ends, whatever the engine does, unless a poll
\* was under way when it was left.
Abandoned == ~mounted /\ ~leaked /\ \E s \in Sessions : Going(s)
AbandonedEnds == []<>~Abandoned
=============================================================================
