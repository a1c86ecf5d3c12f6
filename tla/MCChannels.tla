----------------------------- MODULE MCChannels -----------------------------
(***************************************************************************)
(* Instances of AgentLink, NodeSupervisor, ShowcaseView and SnapshotFeed,  *)
(* side by side: the channel to an agent, the scripts that the agent runs, *)
(* the polls of a page, and the live view.  part says which of them this   *)
(* behaviour is about, the others rest; the live view is checked with      *)
(* drags and fetches, and with a clock that moves.                         *)
(***************************************************************************)
EXTENDS AgentLink, NodeSupervisor, ShowcaseView, SnapshotFeed

CONSTANTS s1, s2, q1, q2, vA, vB, nA, nB, p1, p2

VARIABLE part

vars == <<part, linkVars, supVars, viewVars, feedVars>>

Init ==
    /\ part \in {"link", "sup", "view", "feed", "charts"}
    /\ LinkInit /\ SupInit /\ ViewInit /\ FeedInit
    /\ part \in {"link", "sup", "view"} => order = <<>>

Next ==
    \/ part = "link" /\ LinkNext /\ UNCHANGED <<part, supVars, viewVars, feedVars>>
    \/ part = "sup" /\ SupNext /\ UNCHANGED <<part, linkVars, viewVars, feedVars>>
    \/ part = "view" /\ ViewNext /\ UNCHANGED <<part, linkVars, supVars, feedVars>>
    \/ part = "feed" /\ FeedNext /\ UNCHANGED <<part, linkVars, supVars, viewVars>> /\ now' = now
    \/ part = "charts" /\ FeedNext /\ UNCHANGED <<part, linkVars, supVars, viewVars, override, fetching>>

OnLink(step) == part = "link" /\ step /\ UNCHANGED <<part, supVars, viewVars, feedVars>>
OnSup(step)  == part = "sup" /\ step /\ UNCHANGED <<part, linkVars, viewVars, feedVars>>
OnView(step) == part = "view" /\ step /\ UNCHANGED <<part, linkVars, supVars, feedVars>>
OnFeed(step) == part = "feed" /\ step /\ UNCHANGED <<part, linkVars, supVars, viewVars>>

\* The fairness of the part that runs: LinkFairness, SupFairness,
\* ViewFairness or FeedFairness.
Spec ==
    /\ Init /\ [][Next]_vars
    /\ WF_vars(OnLink(DashboardRuns) \/ OnSup(TimersFire) \/ OnView(HeartbeatRuns) \/ OnFeed(Tick))
    /\ WF_vars(OnLink(AgentRuns) \/ OnSup(ExitsHandled) \/ OnView(RequestsRun) \/ OnFeed(PageSockets))
    /\ WF_vars(OnLink(Reconnects) \/ OnView(AnswersRun) \/ OnFeed(PageRequests))

-----------------------------------------------------------------------------
\* Type correctness of the four.
ChannelTypesOK == LinkTypeOK /\ SupTypeOK /\ ViewTypeOK /\ FeedTypeOK

\* What the dashboard pushes reaches an agent that stays connected, a rotated
\* token and the ports to probe, and what it asks is answered by the end of
\* the command it asked for; a page shows the text of its showcase.  The pid
\* file by which the agent knows a script is that of its process, and signals
\* go to no other.
ExchangesHold ==
    /\ RotationReaches /\ AgentProbesPorts /\ AnswerIsItsOwn
    /\ PidFileIsTrue /\ RunIsFiled /\ SignalsItsOwn
    /\ ShownIsText

\* What has arrived is not undone by what was sent before: metrics come in
\* their order, the history of a showcase is not revised, and a chart never
\* goes back in time.
NothingIsUndone == MetricsInOrder /\ ArchiveIsFinal /\ []ChartsInOrder

\* Who has gone is seen to: an agent comes back, a script that was told to stop
\* does, a showcase that its page has left ends, and a live view that was cut shows the sparks there are.
GoneIsSeen ==
    <>[](\/ part = "link" /\ MayLink
         \/ part = "sup" /\ Overdue
         \/ part = "view" /\ Abandoned
         \/ part = "feed" /\ Behind)
        => <>[](part = "link" /\ Linked)
=============================================================================
