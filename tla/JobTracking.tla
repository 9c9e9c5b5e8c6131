----------------------------- MODULE JobTracking -----------------------------
(***************************************************************************)
(* How the browser follows a job: useJobTracking around the jobReducer,    *)
(* inside the dashboard (an analysis) or a feature's gate (topics, journey *)
(* and custom classification).  One of the two transports drives the state *)
(* at a time: the EventSource, or a poll of the row once it failed.        *)
(***************************************************************************)
EXTENDS JobEvents

CONSTANT Page           \* the job of the page the browser shows
ASSUME PageAssumption == Page \in Jobs

VARIABLES
  tracked, view,        \* the id given to the hook, and the reducer's state
  confirming, poll, polls,  \* the confirmation is out; the poll's answer on its way; TanStack's last answers
  gate, blocked, starting,  \* a feature's gate; its hint that the snapshot is not there; its POST is out
  snapshot, live        \* the dashboard: its GET of the analysis, and the hook's status as others see it

hookVars == <<tracked, view, confirming, poll, polls>>
pageVars == <<gate, blocked, starting, snapshot, live>>
vars     == <<kind, serverVars, eventVars, linkVars, hookVars, pageVars>>

Settled    == Over \cup {"not_found"}
Statuses   == DbStatus \cup {"confirming", "not_found"}
NotFound   == [kind |-> "not_found"]
Unavailable == [kind |-> "unavailable"]
Ok(s)      == [kind |-> "ok", status |-> s]
Fetches    == {NotFound, Unavailable} \cup {Ok(s) : s \in DbStatus}
NoFetch    == [kind |-> None]
NoPoll     == [job |-> None]
Fresh      == [status |-> "queued", transport |-> "sse"]    \* initialJobState

Init ==
  /\ JobEventsInit
  /\ tracked = None /\ view = Fresh /\ confirming = FALSE /\ poll = NoPoll
  /\ polls = [j \in Jobs |-> NoFetch]
  /\ gate = "closed" /\ blocked = FALSE /\ starting = FALSE
  /\ snapshot = NoFetch /\ live = None

TypeOK ==
  /\ kind \in Kinds /\ rows \in [Jobs -> DbStatus \cup {"absent"}] /\ jobs \in [Jobs -> {None, "waiting", "active", "written"}]
  /\ runs \in [Jobs -> 0..MaxRuns] /\ past \in [Jobs -> SUBSET DbStatus]
  /\ events \in Seq([job : Jobs, type : {"progress", "completed", "failed"}])
  /\ subjects \in [Jobs -> {None, "open", "closed"}] /\ terminatedOrder \in Seq(Jobs) /\ Len(terminatedOrder) <= MaxRetained
  /\ link \in Links /\ inbox \in Seq({"open", "progress", "completed", "failed", "end"})
  /\ tracked \in {Page, None} /\ view \in [status : Statuses, transport : {"sse", "poll", None}]
  /\ confirming \in BOOLEAN /\ polls \in [Jobs -> Fetches \cup {NoFetch}]
  /\ poll \in {NoPoll} \cup [job : Jobs, answer : Fetches]
  /\ gate \in {"closed", "dashboard", "not_generated", "running", "ready", "failed"} /\ blocked \in BOOLEAN /\ starting \in BOOLEAN
  /\ snapshot \in Fetches \cup {NoFetch} /\ live \in Statuses \cup {None}

-----------------------------------------------------------------------------
(* lib/jobState: the reducer. *)

Progressable(s) == s \in {"queued", "running"}

\* Mutant: the completed event is taken for the end of the job.
CompletesAtOnce(s) == IF Progressable(s.status) THEN [status |-> "completed", transport |-> None] ELSE s
SseCompleted(s)    == IF Progressable(s.status) THEN [s EXCEPT !.status = "confirming"] ELSE s
\* Mutant: an error is left to EventSource's own reconnection.
KeepsConnection(s) == s
FallBack(s)        == IF s.status \in Settled THEN s ELSE [s EXCEPT !.transport = "poll"]
SettleAs(s, end)   == IF s.status \in Settled THEN s ELSE [status |-> end, transport |-> None]

JobReducer(s, e) ==
  CASE e.type = "reset"         -> Fresh
    [] e.type = "sse_open"      -> IF s.status \in Settled THEN s ELSE [s EXCEPT !.transport = "sse"]
    [] e.type = "progress"      -> IF Progressable(s.status) THEN [s EXCEPT !.status = "running"] ELSE s
    [] e.type = "sse_completed" -> SseCompleted(s)
    [] e.type = "sse_failed"    -> SettleAs(s, "failed")
    [] e.type \in {"sse_error", "heartbeat_timeout"} -> FallBack(s)
    [] e.type = "cancel"        -> SettleAs(s, "canceled")
    [] e.type = "not_found"     -> SettleAs(s, "not_found")
    [] e.type = "db_status"     -> IF e.status \in Settled THEN SettleAs(s, e.status)
                                   ELSE IF s.status \in Settled THEN s ELSE [s EXCEPT !.status = e.status]

ToJobEvent(message) ==
  CASE message = "open"      -> [type |-> "sse_open"]      [] message = "progress" -> [type |-> "progress"]
    [] message = "completed" -> [type |-> "sse_completed"] [] message = "failed"   -> [type |-> "sse_failed"]
    [] message = "end"       -> [type |-> "sse_error"]

\* A poll that finds the API unavailable changes nothing, a confirmation falls back to the poll.
PollEvents(res) == CASE res.kind = "ok" -> {[type |-> "db_status", status |-> res.status]}
                     [] res.kind = "not_found" -> {[type |-> "not_found"]}
                     [] res.kind \in {"unavailable", None} -> {}
ConfirmEvent(res) == IF res.kind = "unavailable" THEN [type |-> "sse_error"] ELSE CHOOSE e \in PollEvents(res) : TRUE

-----------------------------------------------------------------------------
(* The effects of useJobTracking: React runs them after every dispatch. *)

\* The EventSource lives while the transport is sse; the confirmation while the status is confirming.
Effects(s, l, box) ==
  /\ view' = s
  /\ link' = IF s.transport = "sse" THEN l ELSE NoLink
  /\ inbox' = IF s.transport = "sse" THEN box ELSE <<>>
  /\ confirming' = (s.status = "confirming" /\ (confirming \/ view.status # "confirming"))
  /\ live' = IF kind = "analysis" THEN s.status ELSE live

Dispatch(e) == Effects(JobReducer(view, e), link, inbox)

\* A new id resets the state; an answer of the poll that TanStack still has for the id is applied at once.
Follow(j) ==
  LET cached == IF j = None THEN {} ELSE PollEvents(polls[j])
      s == IF cached = {} THEN Fresh ELSE JobReducer(Fresh, CHOOSE e \in cached : TRUE) IN
  /\ tracked' = j /\ view' = s /\ confirming' = FALSE /\ inbox' = <<>>
  /\ link' = IF j # None /\ s.transport = "sse" THEN Asked(j) ELSE NoLink
  /\ live' = IF kind = "analysis" /\ j # None THEN s.status ELSE live

Receive ==
  /\ tracked # None /\ inbox # <<>>
  /\ Effects(JobReducer(view, ToJobEvent(Head(inbox))), link, Tail(inbox))
  /\ UNCHANGED <<kind, serverVars, eventVars, tracked, poll, polls, gate, blocked, starting, snapshot>>

\* The connection breaks, or has been silent for too long: heartbeats are not listened to.
SilentOrBroken ==
  /\ link # NoLink
  /\ \E type \in {"heartbeat_timeout"} \cup IF "breaks" \in Faults THEN {"sse_error"} ELSE {} : Dispatch([type |-> type])
  /\ UNCHANGED <<kind, serverVars, eventVars, tracked, poll, polls, gate, blocked, starting, snapshot>>

-----------------------------------------------------------------------------
(* The status fetchers.  A status that is not one of an analysis's, a body *)
(* that does not parse and an error other than 404 are all "unavailable".  *)

Answer(status) == IF status = "absent" THEN NotFound ELSE Ok(status)
GetKeywordAnalysisStatus(j)        == Answer(rows[j])
FetchTopicsStatus(j)               == Answer(rows[j])
FetchJourneyStatus(j)              == Answer(rows[j])
FetchCustomClassifyAssignStatus(j) == Answer(rows[j])

StatusFetcher(j) ==
  {CASE kind = "analysis" -> GetKeywordAnalysisStatus(j) [] kind = "topics" -> FetchTopicsStatus(j)
     [] kind = "journey" -> FetchJourneyStatus(j) [] kind = "custom" -> FetchCustomClassifyAssignStatus(j)}
  \cup IF "unavailable" \in Faults THEN {Unavailable} ELSE {}

Confirm ==
  /\ tracked # None /\ confirming
  /\ \E res \in StatusFetcher(tracked) :
       LET s == JobReducer(view, ConfirmEvent(res)) IN
       /\ view' = s /\ confirming' = FALSE
       /\ link' = IF s.transport = "sse" THEN link ELSE NoLink
       /\ inbox' = IF s.transport = "sse" THEN inbox ELSE <<>>
       /\ live' = IF kind = "analysis" THEN s.status ELSE live
  /\ UNCHANGED <<kind, serverVars, eventVars, tracked, poll, polls, gate, blocked, starting, snapshot>>

PollAsk ==
  /\ tracked # None /\ view.transport = "poll" /\ poll = NoPoll
  /\ \E res \in StatusFetcher(tracked) : poll' = [job |-> tracked, answer |-> res]
  /\ UNCHANGED <<kind, serverVars, eventVars, linkVars, tracked, view, confirming, polls, pageVars>>

\* The answer goes into the cache under its key; the effect runs when it is news for the tracked id.
PollArrives ==
  /\ poll # NoPoll /\ poll' = NoPoll
  /\ polls' = [polls EXCEPT ![poll.job] = poll.answer]
  /\ IF poll.job = tracked /\ polls[tracked] # poll.answer /\ PollEvents(poll.answer) # {}
     THEN \E e \in PollEvents(poll.answer) : Dispatch(e)
     ELSE UNCHANGED <<linkVars, view, confirming, live>>
  /\ UNCHANGED <<kind, serverVars, eventVars, tracked, gate, blocked, starting, snapshot>>

\* TanStack forgets answers nobody uses.
CacheForgets(j) ==
  /\ "evictedPoll" \in Faults /\ j # tracked /\ polls[j] # NoFetch
  /\ polls' = [polls EXCEPT ![j] = NoFetch]
  /\ UNCHANGED <<kind, serverVars, eventVars, linkVars, tracked, view, confirming, poll, pageVars>>

\* cancel of the hook: whatever the DELETE answers; only a rejected fetch leaves the state alone.
Cancel ==
  /\ kind = "analysis" /\ tracked # None /\ view.status \notin Settled
  /\ \/ Canceled(tracked)
     \/ /\ \/ rows[tracked] \notin {"queued", "running"} \/ "deleteFails" \in Faults
        /\ UNCHANGED serverVars
  /\ Dispatch([type |-> "cancel"])
  /\ UNCHANGED <<kind, eventVars, tracked, poll, polls, gate, blocked, starting, snapshot>>

-----------------------------------------------------------------------------
(* The gate of a feature: useTopics, useJourney and CustomClassifyJob.     *)

\* What GET :id says of the feature when the page loads.
FeatureStatusOf(status) ==
  CASE status \in {"absent", "canceled"}  -> "not_generated" [] status \in {"queued", "running"} -> "running"
    [] status \in Done                   -> "ready"         [] status = "failed"               -> "failed"

JobPhase(status) == CASE status \in Done -> "ready" [] status \in {"failed", "not_found"} -> "failed"
                      [] OTHER -> "running"

OpenGate ==
  /\ kind # "analysis" /\ gate = "closed"
  /\ gate' = IF kind = "custom" THEN "not_generated" ELSE FeatureStatusOf(rows[Page])
  /\ IF gate' = "running" THEN Follow(Page) ELSE UNCHANGED <<linkVars, tracked, view, confirming, live>>
  /\ UNCHANGED <<kind, serverVars, eventVars, poll, polls, blocked, starting, snapshot>>

\* useInFlightGuard: one POST at a time.  A classification is confirmed once.
PressStart ==
  /\ kind # "analysis" /\ ~starting
  /\ gate = "not_generated" \/ (gate = "failed" /\ kind # "custom")
  /\ starting' = TRUE /\ blocked' = FALSE
  /\ UNCHANGED <<kind, serverVars, eventVars, linkVars, hookVars, gate, snapshot, live>>

StartAccepted ==
  /\ starting /\ starting' = FALSE
  /\ Enqueued(Page)
  /\ IF gate = "closed" THEN UNCHANGED <<gate, linkVars, tracked, view, confirming, live>>
                        ELSE gate' = "running" /\ Follow(Page)
  /\ UNCHANGED <<kind, eventVars, poll, polls, blocked, snapshot>>

\* 409 and 425 are a hint, any other refusal (or a lost answer) is a failure.
StartRefused ==
  /\ starting /\ starting' = FALSE
  /\ \/ /\ "notReady" \in Faults /\ rows[Page] = "absent"
        /\ IF gate = "closed" THEN UNCHANGED <<gate, blocked>> ELSE gate' = "not_generated" /\ blocked' = TRUE
        /\ UNCHANGED serverVars
     \/ /\ "startFails" \in Faults
        /\ gate' = (IF gate = "closed" THEN gate ELSE "failed") /\ UNCHANGED blocked
        /\ UNCHANGED serverVars \/ Enqueued(Page)
  /\ UNCHANGED <<kind, eventVars, linkVars, hookVars, snapshot, live>>

\* The gate follows the tracked job and lets go of it.
GateFollows ==
  /\ kind # "analysis" /\ gate = "running" /\ JobPhase(view.status) # "running"
  /\ gate' = JobPhase(view.status)
  /\ Follow(None)
  /\ UNCHANGED <<kind, serverVars, eventVars, poll, polls, blocked, starting, snapshot>>

-----------------------------------------------------------------------------
(* AnalysisDashboard. *)

Viewable(status) == status \in Done
SnapshotViewable == snapshot.kind = "ok" /\ Viewable(snapshot.status)

DashboardShows ==
  CASE snapshot = NoFetch -> "loading"
    [] snapshot = NotFound \/ (snapshot # NoFetch /\ live = "not_found") -> "not_found"
    [] SnapshotViewable /\ live # "not_found" -> "results"
    [] snapshot = Unavailable /\ live = None -> "error"
    [] OTHER -> "panel"

OpenDashboard ==
  /\ kind = "analysis" /\ gate = "closed" /\ gate' = "dashboard"
  /\ UNCHANGED <<kind, serverVars, eventVars, linkVars, hookVars, blocked, starting, snapshot, live>>

\* The first GET, a retry, or the refetches while the live job is viewable and the snapshot is not.
\* A refetch that fails leaves the data as they were.
SnapshotArrives ==
  /\ gate = "dashboard"
  /\ DashboardShows \in {"loading", "error"} \/ (live # None /\ Viewable(live) /\ ~SnapshotViewable)
  /\ \E res \in StatusFetcher(Page) : snapshot' = IF res = Unavailable /\ snapshot # NoFetch THEN snapshot ELSE res
  /\ UNCHANGED <<kind, serverVars, eventVars, linkVars, hookVars, gate, blocked, starting, live>>

\* The tracking panel is mounted while it is what the dashboard shows.
PanelFollows ==
  /\ gate = "dashboard" /\ (DashboardShows = "panel") # (tracked # None)
  /\ Follow(IF tracked = None THEN Page ELSE None)
  /\ UNCHANGED <<kind, serverVars, eventVars, poll, polls, gate, blocked, starting, snapshot>>

ClosePage ==
  /\ gate # "closed" /\ gate' = "closed"
  /\ Follow(None)
  /\ UNCHANGED <<kind, serverVars, eventVars, poll, polls, blocked, starting, snapshot>>

-----------------------------------------------------------------------------
HookSteps == Receive \/ SilentOrBroken \/ Confirm \/ PollAsk \/ PollArrives \/ Cancel \/ \E j \in Jobs : CacheForgets(j)
PageSteps == OpenGate \/ PressStart \/ StartAccepted \/ StartRefused \/ GateFollows
             \/ OpenDashboard \/ SnapshotArrives \/ PanelFollows \/ ClosePage

Next == ((RunSteps \/ StreamSteps) /\ UNCHANGED <<hookVars, pageVars>>) \/ HookSteps \/ PageSteps

\* Events, messages and answers arrive, and the API answers a request again and again.
Fairness ==
  /\ WF_vars(StreamSteps /\ UNCHANGED <<hookVars, pageVars>>) /\ WF_vars(Receive) /\ WF_vars(SilentOrBroken)
  /\ SF_vars(Confirm /\ view'.transport # "poll") /\ WF_vars(Confirm)
  /\ WF_vars(PollAsk) /\ SF_vars(PollAsk /\ poll'.answer # Unavailable) /\ WF_vars(PollArrives)
  /\ WF_vars(GateFollows) /\ WF_vars(PanelFollows)
  /\ WF_vars(SnapshotArrives) /\ SF_vars(SnapshotArrives /\ snapshot'.kind = "ok")

Spec == Init /\ [][Next]_vars /\ Fairness

-----------------------------------------------------------------------------
(* Properties *)

\* What is shown as completed or as partial is exactly that in the run's row: the completed event
\* of a partial run never passes for a complete one.
ShownResultIsTrue ==
  /\ tracked # None /\ view.status \in Done => view.status \in past[tracked]
  /\ gate = "ready" => past[Page] \cap Done # {}

\* A page that follows a run learns how the run ended, whatever events it missed: those of an
\* evicted subject, of a subject that completed before the stream subscribed, of a broken stream,
\* of a waiting job that somebody else cancelled.  The first run of an id is shown as it ended:
\* with results when it is done, unless the user cancelled it on this page, and with an end when it
\* was cancelled (a stream opened later sends "failed" for it).  A later run of the id may meet
\* answers about an earlier one (RetryStartsFresh): of it, the page only stops waiting.
Follows  == gate = "running" \/ (gate = "dashboard" /\ DashboardShows # "not_found")
RunEnded == rows[Page] \in Done \/ (rows[Page] = "canceled" /\ runs[Page] = 1)

ShownAsItEnded ==
  IF rows[Page] \in Done THEN gate = "ready" \/ (gate = "dashboard" /\ (DashboardShows = "results" \/ live = "canceled"))
                         ELSE gate = "dashboard" /\ live \in {"canceled", "failed"}
StopsWaiting ==
  IF kind = "analysis" THEN DashboardShows \in {"results", "not_found"} \/ live \in Over ELSE gate # "running"

ScreenCatchesUp ==
  Follows /\ RunEnded ~> \/ gate = "closed"
                         \/ IF runs[Page] = 1 THEN ShownAsItEnded ELSE RunEnded => StopsWaiting

\* useJobTracking resets the state when it is given an id, so that tracking starts afresh: a run
\* that was just started is not shown as failed.
RetryStartsFresh == [][StartAccepted => view'.status # "failed"]_vars
=============================================================================
