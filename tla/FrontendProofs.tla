---------------------------- MODULE FrontendProofs -----------------------------
(***************************************************************************)
(* The two pages: what the page that follows a job shows as its result,    *)
(* for any jobs, any number of runs under one id, any number of retained   *)
(* subjects and any faults; and what the rows and the panel of the         *)
(* tracking lists show, for any lists, members, limit, requests and        *)
(* faults.                                                                 *)
(***************************************************************************)
EXTENDS JobTracking, TrackingScreen, SequenceTheorems, TLAPS

\* The type invariant, in the parts that change together.
ServerTypes ==
  /\ kind \in Kinds /\ rows \in [Jobs -> DbStatus \cup {"absent"}] /\ jobs \in [Jobs -> {None, "waiting", "active", "written"}]
  /\ runs \in [Jobs -> 0..MaxRuns] /\ past \in [Jobs -> SUBSET DbStatus]
EventTypes ==
  /\ events \in Seq([job : Jobs, type : {"progress", "completed", "failed"}])
  /\ subjects \in [Jobs -> {None, "open", "closed"}] /\ terminatedOrder \in Seq(Jobs) /\ Len(terminatedOrder) <= MaxRetained
LinkTypes == link \in Links /\ inbox \in Seq({"open", "progress", "completed", "failed", "end"})
View == [status : Statuses, transport : {"sse", "poll", None}]
HookTypes ==
  /\ tracked \in {Page, None} /\ view \in View /\ confirming \in BOOLEAN
  /\ polls \in [Jobs -> Fetches \cup {NoFetch}] /\ poll \in {NoPoll} \cup [job : Jobs, answer : Fetches]
PageTypes ==
  /\ gate \in {"closed", "dashboard", "not_generated", "running", "ready", "failed"} /\ blocked \in BOOLEAN /\ starting \in BOOLEAN
  /\ snapshot \in Fetches \cup {NoFetch} /\ live \in Statuses \cup {None}

-----------------------------------------------------------------------------
\* A run that is done has left the queue's hands: nobody writes its row again.
Finished == \A j \in Jobs : rows[j] \in Done => jobs[j] \notin {"waiting", "active"}
\* Of the current run the row has been done in one way at most, and still is.
Recorded == \A j \in Jobs : past[j] \cap Done \subseteq {rows[j]} /\ (rows[j] \in Done => rows[j] \in past[j])
\* An answer that says done, out or kept, is true of the run it was asked for, however late it is used.
Honest(j, res) == res.kind = "ok" /\ res.status \in Done => res.status \in past[j]
AnswersAreHonest == /\ \A j \in Jobs : Honest(j, polls[j])
                    /\ poll # NoPoll => Honest(poll.job, poll.answer)
Untracked == tracked = None => view = Fresh /\ link = NoLink

ServerInv == ServerTypes /\ Finished /\ Recorded
BrowserInv == AnswersAreHonest /\ Untracked /\ ShownResultIsTrue
Typed == ServerTypes /\ EventTypes /\ LinkTypes /\ HookTypes /\ PageTypes
IInv == Typed /\ Finished /\ Recorded /\ BrowserInv

\* What was done in the current run stays so.
DoneStays == \A j \in Jobs : past[j] \cap Done \subseteq past'[j]

-----------------------------------------------------------------------------
LEMMA Parts == Typed <=> TypeOK
BY DEF Typed, TypeOK, ServerTypes, EventTypes, LinkTypes, HookTypes, PageTypes, View

LEMMA InitIInv == Init => IInv
<1>. SUFFICES ASSUME Init PROVE IInv
  OBVIOUS
<1>. USE JobsAssumption, PageAssumption DEF Init, JobEventsInit
<1>1. ServerTypes
  BY DEF ServerTypes, DbStatus
<1>2. EventTypes
  BY DEF EventTypes
<1>3. LinkTypes
  BY DEF LinkTypes, Links, NoLink
<1>4. HookTypes
  BY DEF HookTypes, View, Fresh, Statuses, DbStatus, NoPoll, NoFetch, Fetches
<1>5. PageTypes
  BY DEF PageTypes, NoFetch
<1>6. Finished /\ Recorded
  BY DEF Finished, Recorded, Done
<1>7. BrowserInv
  BY DEF BrowserInv, AnswersAreHonest, Honest, Untracked, ShownResultIsTrue, NoFetch, NoPoll, Fresh, None, Done
<1>. QED
  BY <1>1, <1>2, <1>3, <1>4, <1>5, <1>6, <1>7 DEF IInv, Typed

-----------------------------------------------------------------------------
(* The server: a run that is done stays done.                              *)

LEMMA IdleServer ==
  ASSUME ServerInv, UNCHANGED <<kind, serverVars>>
  PROVE  ServerInv' /\ DoneStays
BY DEF ServerInv, ServerTypes, Finished, Recorded, DoneStays, serverVars

LEMMA EnqueuedKeeps ==
  ASSUME ServerInv, NEW j \in Jobs, Enqueued(j), UNCHANGED kind
  PROVE  ServerInv' /\ DoneStays
<1>. USE JobsAssumption DEF ServerInv
<1>1. CASE UNCHANGED serverVars
  BY <1>1, IdleServer
<1>2. CASE /\ rows[j] \notin Done /\ runs[j] < MaxRuns
           /\ runs' = [runs EXCEPT ![j] = @ + 1] /\ WriteRow(j, "queued") /\ jobs' = [jobs EXCEPT ![j] = "waiting"]
  <2>1. ServerTypes'
    BY <1>2 DEF ServerTypes, WriteRow, DbStatus
  <2>2. \A i \in Jobs : i # j => rows'[i] = rows[i] /\ past'[i] = past[i] /\ jobs'[i] = jobs[i]
    BY <1>2 DEF ServerTypes, WriteRow
  <2>3. rows'[j] = "queued" /\ past'[j] = {"queued"} /\ past[j] \cap Done = {}
    BY <1>2 DEF ServerTypes, WriteRow, Recorded
  <2>4. "queued" \notin Done
    BY DEF Done
  <2>. QED
    BY <2>1, <2>2, <2>3, <2>4 DEF Finished, Recorded, DoneStays
<1>. QED
  BY <1>1, <1>2 DEF Enqueued, Done

\* A row that is not done becomes something, or a job that is over leaves the queue.
LEMMA WriteKeeps ==
  ASSUME ServerInv, NEW j \in Jobs, NEW s \in DbStatus, rows[j] \notin Done, s # "queued",
         WriteRow(j, s), UNCHANGED <<kind, runs>>, jobs' \in [Jobs -> {None, "waiting", "active", "written"}],
         \A i \in Jobs : i # j => jobs'[i] = jobs[i], s \in Done => jobs'[j] \notin {"waiting", "active"}
  PROVE  ServerInv' /\ DoneStays
<1>. USE DEF ServerInv
<1>1. ServerTypes'
  BY DEF ServerTypes, WriteRow
<1>2. \A i \in Jobs : i # j => rows'[i] = rows[i] /\ past'[i] = past[i]
  BY DEF ServerTypes, WriteRow
<1>3. rows'[j] = s /\ past'[j] = past[j] \cup {s} /\ past[j] \cap Done = {}
  BY DEF ServerTypes, WriteRow, Recorded
<1>. QED
  BY <1>1, <1>2, <1>3 DEF Finished, Recorded, DoneStays

LEMMA LeavesQueue ==
  ASSUME ServerInv, NEW j \in Jobs, NEW q \in {None, "written"}, jobs' = [jobs EXCEPT ![j] = q],
         UNCHANGED <<kind, rows, runs, past>>
  PROVE  ServerInv' /\ DoneStays
BY DEF ServerInv, ServerTypes, Finished, Recorded, DoneStays, None

LEMMA CanceledKeeps ==
  ASSUME ServerInv, NEW j \in Jobs, Canceled(j), UNCHANGED kind
  PROVE  ServerInv' /\ DoneStays
<1>1. jobs' \in [Jobs -> {None, "waiting", "active", "written"}] /\ \A i \in Jobs : i # j => jobs'[i] = jobs[i]
  BY DEF Canceled, ServerInv, ServerTypes, None
<1>2. rows[j] \notin Done /\ WriteRow(j, "canceled") /\ UNCHANGED <<kind, runs>>
  BY DEF Canceled, Done
<1>. QED
  BY <1>1, <1>2, WriteKeeps DEF DbStatus, Done

LEMMA RunStepKeeps ==
  ASSUME ServerInv, RunSteps
  PROVE  ServerInv' /\ DoneStays
<1>1. PICK j \in Jobs : OthersStart(j) \/ OthersCancel(j) \/ JobProgresses(j) \/ RowEnds(j) \/ JobEnds(j) \/ JobStalls(j)
  BY DEF RunSteps
<1>2. CASE OthersStart(j)
  BY <1>2, EnqueuedKeeps DEF OthersStart
<1>3. CASE OthersCancel(j)
  BY <1>3, CanceledKeeps DEF OthersCancel
<1>4. CASE JobProgresses(j)
  <2>1. rows[j] \notin Done
    BY <1>4 DEF JobProgresses, ServerInv, Finished
  <2>2. jobs' \in [Jobs -> {None, "waiting", "active", "written"}] /\ \A i \in Jobs : i # j => jobs'[i] = jobs[i]
    BY <1>4 DEF JobProgresses, ServerInv, ServerTypes
  <2>3. CASE rows[j] = "queued"
    BY <2>3, <2>1, <2>2, <1>4, WriteKeeps DEF JobProgresses, DbStatus, Done
  <2>4. CASE rows[j] # "queued"
    BY <2>4, <2>1, <2>2, <1>4 DEF JobProgresses, ServerInv, ServerTypes, Finished, Recorded, DoneStays
  <2>. QED
    BY <2>3, <2>4
<1>5. CASE RowEnds(j)
  <2>1. rows[j] \notin Done
    BY <1>5 DEF RowEnds, ServerInv, Finished
  <2>2. jobs' \in [Jobs -> {None, "waiting", "active", "written"}] /\ jobs'[j] = "written" /\ \A i \in Jobs : i # j => jobs'[i] = jobs[i]
    BY <1>5 DEF RowEnds, ServerInv, ServerTypes
  <2>3. CASE rows[j] = "canceled"
    BY <2>3, <1>5, LeavesQueue DEF RowEnds
  <2>4. CASE rows[j] # "canceled"
    <3>1. PICK s \in Endings(kind) : WriteRow(j, s)
      BY <2>4, <1>5 DEF RowEnds
    <3>2. s \in DbStatus /\ s # "queued"
      BY DEF Endings, DbStatus
    <3>. QED
      BY <3>1, <3>2, <2>1, <2>2, <1>5, WriteKeeps DEF RowEnds
  <2>. QED
    BY <2>3, <2>4
<1>6. CASE JobEnds(j)
  BY <1>6, LeavesQueue DEF JobEnds
<1>7. CASE JobStalls(j)
  BY <1>7, LeavesQueue DEF JobStalls
<1>. QED
  BY <1>1, <1>2, <1>3, <1>4, <1>5, <1>6, <1>7

LEMMA CancelKeeps ==
  ASSUME ServerInv, HookTypes, Cancel
  PROVE  ServerInv' /\ DoneStays
<1>1. CASE UNCHANGED serverVars
  BY <1>1, IdleServer DEF Cancel
<1>2. CASE Canceled(tracked)
  <2>1. tracked \in Jobs
    BY PageAssumption DEF Cancel, HookTypes
  <2>. QED
    BY <2>1, <1>2, CanceledKeeps DEF Cancel
<1>. QED
  BY <1>1, <1>2 DEF Cancel

-----------------------------------------------------------------------------
(* The browser: what it learns, and what becomes of it.                    *)

Plain  == {"reset", "sse_open", "progress", "sse_completed", "sse_failed", "sse_error", "heartbeat_timeout", "cancel", "not_found"}
Events == [type : Plain] \cup [type : {"db_status"}, status : DbStatus]

\* A status is done in the state only if it was, or if the row said so.
LEMMA ReducerIsHonest ==
  ASSUME NEW s \in View, NEW e \in Events
  PROVE  /\ JobReducer(s, e) \in View
         /\ JobReducer(s, e).status \in Done =>
              \/ JobReducer(s, e).status = s.status
              \/ e.type = "db_status" /\ e.status = JobReducer(s, e).status
<1>. USE DEF View, Statuses, DbStatus, Done, Over, Settled
<1>1. CASE e \in [type : {"db_status"}, status : DbStatus]
  BY <1>1 DEF JobReducer, SettleAs
<1>2. CASE e \in [type : Plain]
  <2>1. CASE e.type = "reset"
    BY <2>1 DEF JobReducer, Fresh
  <2>2. CASE e.type \in {"sse_open", "progress"}
    BY <2>2 DEF JobReducer, Progressable
  <2>3. CASE e.type = "sse_completed"
    BY <2>3 DEF JobReducer, SseCompleted, Progressable
  <2>4. CASE e.type \in {"sse_error", "heartbeat_timeout"}
    BY <2>4 DEF JobReducer, FallBack
  <2>5. CASE e.type \in {"sse_failed", "cancel", "not_found"}
    BY <2>5 DEF JobReducer, SettleAs
  <2>. QED
    BY <1>2, <2>1, <2>2, <2>3, <2>4, <2>5 DEF Plain
<1>. QED
  BY <1>1, <1>2 DEF Events

LEMMA MessagesAreEvents ==
  ASSUME NEW m \in {"open", "progress", "completed", "failed", "end"}
  PROVE  ToJobEvent(m) \in [type : Plain]
BY DEF ToJobEvent, Plain

LEMMA PollEventsAreHonest ==
  ASSUME NEW res \in Fetches \cup {NoFetch}, NEW e \in PollEvents(res)
  PROVE  e \in Events /\ (e.type = "db_status" => res.kind = "ok" /\ e.status = res.status)
<1>1. CASE res.kind = "ok"
  BY <1>1 DEF PollEvents, Fetches, NoFetch, NotFound, Unavailable, Ok, Events, Plain, None
<1>2. CASE res.kind = "not_found"
  BY <1>2 DEF PollEvents, Events, Plain
<1>3. CASE res.kind \in {"unavailable", None}
  BY <1>3 DEF PollEvents, None
<1>. QED
  BY <1>1, <1>2, <1>3 DEF Fetches, NoFetch, NotFound, Unavailable, Ok

LEMMA ConfirmEventIsHonest ==
  ASSUME NEW res \in Fetches
  PROVE  ConfirmEvent(res) \in Events /\ (ConfirmEvent(res).type = "db_status" => res.kind = "ok" /\ ConfirmEvent(res).status = res.status)
<1>1. CASE res.kind = "unavailable"
  BY <1>1 DEF ConfirmEvent, Events, Plain
<1>2. CASE res.kind # "unavailable"
  <2>1. PollEvents(res) # {}
    <3>1. CASE res.kind = "ok"
      BY <3>1 DEF PollEvents, None
    <3>2. CASE res.kind = "not_found"
      BY <3>2 DEF PollEvents, None
    <3>. QED
      BY <1>2, <3>1, <3>2 DEF Fetches, NotFound, Unavailable, Ok
  <2>2. ConfirmEvent(res) \in PollEvents(res)
    BY <1>2, <2>1 DEF ConfirmEvent
  <2>. QED
    BY <2>2, PollEventsAreHonest
<1>. QED
  BY <1>1, <1>2

LEMMA FetchersAreHonest ==
  ASSUME ServerInv, NEW j \in Jobs, NEW res \in StatusFetcher(j)
  PROVE  res \in Fetches /\ Honest(j, res)
<1>1. kind \in Kinds /\ rows[j] \in DbStatus \cup {"absent"} /\ (rows[j] \in Done => rows[j] \in past[j])
  BY DEF ServerInv, ServerTypes, Recorded
<1>2. res \in {Answer(rows[j]), Unavailable}
  BY <1>1 DEF StatusFetcher, Kinds, GetKeywordAnalysisStatus, FetchTopicsStatus, FetchJourneyStatus, FetchCustomClassifyAssignStatus
<1>. QED
  BY <1>1, <1>2 DEF Answer, NotFound, Ok, Unavailable, Fetches, Honest

-----------------------------------------------------------------------------
ViewIsTrue == tracked # None /\ view.status \in Done => view.status \in past[tracked]
GateIsTrue == gate = "ready" => past[Page] \cap Done # {}

\* A dispatch whose event is honest about the tracked job.
LEMMA EffectsAreHonest ==
  ASSUME HookTypes, PageTypes, LinkTypes, ViewIsTrue, tracked # None, UNCHANGED tracked, DoneStays,
         NEW e \in Events, e.type = "db_status" /\ e.status \in Done => e.status \in past[tracked],
         NEW box \in Seq({"open", "progress", "completed", "failed", "end"}),
         Effects(JobReducer(view, e), link, box)
  PROVE  /\ view' \in View /\ confirming' \in BOOLEAN /\ live' \in Statuses \cup {None} /\ LinkTypes'
         /\ ViewIsTrue' /\ Untracked'
<1>. DEFINE s == JobReducer(view, e)
<1>1. tracked \in Jobs /\ view \in View
  BY PageAssumption DEF HookTypes
<1>2. s \in View /\ (s.status \in Done => s.status = view.status \/ (e.type = "db_status" /\ e.status = s.status))
  BY <1>1, ReducerIsHonest
<1>3. view' = s /\ s.status \in Statuses
  BY <1>2 DEF Effects, View
<1>4. s.status \in Done => s.status \in past[tracked]
  BY <1>2, <1>1 DEF ViewIsTrue
<1>5. ViewIsTrue'
  BY <1>3, <1>4, <1>1 DEF ViewIsTrue, DoneStays
<1>6. LinkTypes'
  BY DEF Effects, LinkTypes, Links
<1>7. confirming' \in BOOLEAN /\ live' \in Statuses \cup {None}
  BY <1>3 DEF Effects, HookTypes, PageTypes
<1>. QED
  BY <1>2, <1>3, <1>5, <1>6, <1>7 DEF Untracked

LEMMA FollowIsHonest ==
  ASSUME ServerTypes, HookTypes, PageTypes, AnswersAreHonest, DoneStays, NEW j \in {Page, None}, Follow(j)
  PROVE  /\ tracked' \in {Page, None} /\ view' \in View /\ confirming' \in BOOLEAN /\ live' \in Statuses \cup {None} /\ LinkTypes'
         /\ ViewIsTrue' /\ Untracked'
<1>. DEFINE cached == IF j = None THEN {} ELSE PollEvents(polls[j])
            s == IF cached = {} THEN Fresh ELSE JobReducer(Fresh, CHOOSE e \in cached : TRUE)
<1>1. Fresh \in View /\ Fresh.status \notin Done
  BY DEF Fresh, View, Statuses, DbStatus, Done
<1>2. s \in View /\ (s.status \in Done => j # None /\ s.status \in past[j])
  <2>1. CASE cached = {}
    BY <2>1, <1>1
  <2>2. CASE cached # {}
    <3>. DEFINE e == CHOOSE x \in cached : TRUE
    <3>1. j \in Jobs /\ polls[j] \in Fetches \cup {NoFetch} /\ Honest(j, polls[j]) /\ e \in PollEvents(polls[j]) /\ j # None
      BY <2>2, PageAssumption DEF HookTypes, AnswersAreHonest
    <3>2. e \in Events /\ (e.type = "db_status" => polls[j].kind = "ok" /\ e.status = polls[j].status)
      BY <3>1, PollEventsAreHonest
    <3>3. s = JobReducer(Fresh, e)
      BY <2>2
    <3>4. s \in View /\ (s.status \in Done => e.type = "db_status" /\ e.status = s.status)
      <4>. HIDE DEF e
      <4>. QED
        BY <3>2, <3>3, <1>1, ReducerIsHonest
    <3>. QED
      BY <3>1, <3>2, <3>4 DEF Honest
  <2>. QED
    BY <2>1, <2>2
<1>3. /\ tracked' = j /\ view' = s /\ confirming' = FALSE /\ inbox' = <<>>
      /\ link' = IF j # None /\ s.transport = "sse" THEN Asked(j) ELSE NoLink
      /\ live' = IF kind = "analysis" /\ j # None THEN s.status ELSE live
  BY DEF Follow
<1>4. LinkTypes'
  BY <1>3, PageAssumption DEF LinkTypes, Links, Asked
<1>5. ViewIsTrue'
  BY <1>2, <1>3, PageAssumption DEF ViewIsTrue, DoneStays
<1>6. Untracked'
  BY <1>3 DEF Untracked
<1>7. live' \in Statuses \cup {None}
  BY <1>2, <1>3 DEF View, PageTypes
<1>. QED
  BY <1>2, <1>3, <1>4, <1>5, <1>6, <1>7

-----------------------------------------------------------------------------
(* Steps that leave the browser alone.                                     *)

\* What the page shows outlives every change of the rows.
LEMMA BrowserStays ==
  ASSUME IInv, DoneStays, UNCHANGED <<tracked, view, poll, polls, gate>>, tracked = None => link' = NoLink
  PROVE  BrowserInv'
<1>1. HookTypes /\ BrowserInv
  BY DEF IInv, Typed
<1>2. poll # NoPoll => poll.job \in Jobs
  BY <1>1 DEF HookTypes
<1>. QED
  BY <1>1, <1>2, PageAssumption DEF BrowserInv, AnswersAreHonest, Honest, Untracked, ShownResultIsTrue, DoneStays, HookTypes

LEMMA RunStepsKeepIInv ==
  ASSUME IInv, RunSteps, UNCHANGED <<hookVars, pageVars>>
  PROVE  IInv'
<1>1. ServerInv /\ ServerTypes /\ EventTypes /\ LinkTypes /\ HookTypes /\ PageTypes
  BY DEF IInv, Typed, ServerInv
<1>2. ServerInv' /\ DoneStays
  BY <1>1, RunStepKeeps
<1>3. PICK j \in Jobs : OthersStart(j) \/ OthersCancel(j) \/ JobProgresses(j) \/ RowEnds(j) \/ JobEnds(j) \/ JobStalls(j)
  BY DEF RunSteps
<1>4. UNCHANGED <<subjects, terminatedOrder, linkVars>>
  BY <1>3 DEF OthersStart, OthersCancel, JobProgresses, RowEnds, JobEnds, JobStalls, eventVars
<1>5. events' = events \/ \E t \in {"progress", "completed", "failed"} : Emit(j, t)
  BY <1>3 DEF OthersStart, OthersCancel, JobProgresses, RowEnds, JobEnds, JobStalls, eventVars
<1>. DEFINE QueueEvents == [job : Jobs, type : {"progress", "completed", "failed"}]
<1>6. EventTypes'
  <2>1. events' \in Seq(QueueEvents)
    <3>1. CASE events' = events
      BY <3>1, <1>1 DEF EventTypes
    <3>2. ASSUME NEW t \in {"progress", "completed", "failed"}, Emit(j, t) PROVE events' \in Seq(QueueEvents)
      <4>1. [job |-> j, type |-> t] \in QueueEvents
        OBVIOUS
      <4>2. events' = Append(events, [job |-> j, type |-> t]) /\ events \in Seq(QueueEvents)
        BY <3>2, <1>1 DEF EventTypes, Emit
      <4>. HIDE DEF QueueEvents
      <4>. QED
        BY <4>1, <4>2, AppendProperties
    <3>. QED
      BY <1>5, <3>1, <3>2
  <2>. QED
    BY <2>1, <1>1, <1>4 DEF EventTypes
<1>7. LinkTypes' /\ HookTypes' /\ PageTypes'
  BY <1>1, <1>4 DEF LinkTypes, HookTypes, PageTypes, linkVars, hookVars, pageVars
<1>8. BrowserInv'
  BY <1>2, <1>4, BrowserStays DEF hookVars, pageVars, linkVars, IInv, BrowserInv, Untracked
<1>. QED
  BY <1>2, <1>6, <1>7, <1>8 DEF IInv, Typed, ServerInv

LEMMA StreamStepsKeepIInv ==
  ASSUME IInv, StreamSteps, UNCHANGED <<hookVars, pageVars>>
  PROVE  IInv'
<1>. USE JobsAssumption
<1>1. ServerInv /\ ServerTypes /\ EventTypes /\ LinkTypes /\ HookTypes /\ PageTypes
  BY DEF IInv, Typed, ServerInv
<1>2. UNCHANGED <<kind, serverVars>>
  BY DEF StreamSteps, Route, LookUp, Subscribe
<1>3. ServerInv' /\ DoneStays
  BY <1>1, <1>2, IdleServer
<1>. DEFINE Messages == {"open", "progress", "completed", "failed", "end"}
<1>4. EventTypes' /\ LinkTypes'
  <2>1. CASE Route
    <3>. DEFINE e == Head(events)
                retained == RetainTerminated(e.job)
                final == e.type \in {"completed", "failed"}
                QueueEvents == [job : Jobs, type : {"progress", "completed", "failed"}]
    <3>1. e \in QueueEvents /\ events' \in Seq(QueueEvents)
      <4>1. events \in Seq(QueueEvents) /\ events # <<>> /\ events' = Tail(events)
        BY <2>1, <1>1 DEF Route, EventTypes
      <4>. HIDE DEF QueueEvents
      <4>. QED
        BY <4>1, HeadTailProperties
    <3>2. retained.kept \in Seq(Jobs) /\ Len(retained.kept) <= MaxRetained
      <4>. DEFINE all == Append(terminatedOrder, e.job)
      <4>1. all \in Seq(Jobs) /\ Len(all) = Len(terminatedOrder) + 1 /\ all # <<>>
        BY <1>1, <3>1, AppendProperties DEF EventTypes
      <4>2. Tail(all) \in Seq(Jobs) /\ Len(Tail(all)) = Len(all) - 1
        BY <4>1, HeadTailProperties
      <4>3. retained.kept = IF Len(all) > MaxRetained THEN Tail(all) ELSE all
        BY DEF RetainTerminated
      <4>. HIDE DEF all
      <4>4. Len(all) \in Nat /\ Len(terminatedOrder) \in Nat /\ Len(terminatedOrder) <= MaxRetained
        BY <4>1, <1>1 DEF EventTypes
      <4>5. CASE Len(all) > MaxRetained
        <5>1. retained.kept = Tail(all)
          BY <4>3, <4>5
        <5>2. Len(Tail(all)) <= MaxRetained
          BY <4>1, <4>2, <4>4
        <5>. QED
          BY <5>1, <5>2, <4>2
      <4>6. CASE ~(Len(all) > MaxRetained)
        <5>1. retained.kept = all
          BY <4>3, <4>6
        <5>2. Len(all) <= MaxRetained
          BY <4>4, <4>6
        <5>. QED
          BY <5>1, <5>2, <4>1
      <4>. QED
        BY <4>5, <4>6
    <3>3. SubjectFor(e.job) \in {"open", "closed"}
      BY <1>1, <3>1 DEF SubjectFor, EventTypes, None
    <3>4. subjects' \in [Jobs -> {None, "open", "closed"}] /\ terminatedOrder' \in Seq(Jobs) /\ Len(terminatedOrder') <= MaxRetained
      BY <2>1, <3>2, <3>3, <1>1 DEF Route, EventTypes
    <3>5. Delivered(e.type) \in Seq(Messages)
      <4>1. e.type \in Messages /\ "end" \in Messages
        BY <3>1
      <4>. HIDE DEF Messages, e
      <4>. QED
        BY <4>1 DEF Delivered
    <3>6. inbox' = inbox \/ inbox' = inbox \o Delivered(e.type)
      BY <2>1 DEF Route, linkVars
    <3>7. inbox' \in Seq(Messages)
      <4>1. inbox \in Seq(Messages)
        BY <1>1 DEF LinkTypes
      <4>. HIDE DEF Messages, e
      <4>. QED
        BY <4>1, <3>5, <3>6, ConcatProperties
    <3>8. link' = link \/ (link' = [link EXCEPT !.at = "served"] /\ link = [at |-> "live", job |-> e.job])
      BY <2>1 DEF Route, linkVars
    <3>9. link' \in Links
      BY <3>8, <3>1, <1>1 DEF LinkTypes, Links
    <3>. QED
      BY <3>1, <3>4, <3>7, <3>9 DEF EventTypes, LinkTypes
  <2>2. CASE LookUp
    <3>1. PICK status \in DbStatus \cup {"absent"} : /\ inbox' = Plan(status)
                                                     /\ link' = IF Plan(status) = <<"open">> THEN [link EXCEPT !.at = "found"] ELSE [link EXCEPT !.at = "served"]
      <4>1. link.job \in Jobs
        BY <2>2, <1>1 DEF LookUp, LinkTypes, Links, NoLink, None
      <4>. QED
        BY <2>2, <4>1, <1>1 DEF LookUp, ServerTypes
    <3>2. PlanSseResponse(status) \in Seq(Messages) /\ <<"open">> \in Seq(Messages)
      <4>1. {"open", "end", SnapshotOf(status)} \subseteq Messages
        BY DEF SnapshotOf
      <4>. HIDE DEF Messages
      <4>. QED
        BY <4>1 DEF PlanSseResponse
    <3>3. Plan(status) \in {PlanSseResponse(status), <<"open">>}
      BY <1>1 DEF Plan, AnalysisPlan, TopicsPlan, JourneyPlan, CustomPlan, ServerTypes, Kinds
    <3>4. link' \in Links
      BY <3>1, <2>2, <1>1 DEF LookUp, LinkTypes, Links, NoLink, None
    <3>. QED
      BY <3>1, <3>2, <3>3, <3>4, <2>2, <1>1 DEF LookUp, EventTypes, LinkTypes, eventVars
  <2>3. CASE Subscribe
    <3>1. link.job \in Jobs /\ link' \in Links
      BY <2>3, <1>1 DEF Subscribe, LinkTypes, Links, NoLink, None
    <3>2. inbox' \in Seq(Messages)
      BY <2>3, <1>1 DEF Subscribe, LinkTypes
    <3>. QED
      BY <3>1, <3>2, <2>3, <1>1 DEF Subscribe, EventTypes, LinkTypes
  <2>. QED
    BY <2>1, <2>2, <2>3 DEF StreamSteps
<1>5. HookTypes' /\ PageTypes'
  BY <1>1 DEF HookTypes, PageTypes, hookVars, pageVars
<1>6. link = NoLink => link' = NoLink
  BY DEF StreamSteps, Route, LookUp, Subscribe, NoLink, None, linkVars
<1>7. BrowserInv'
  BY <1>3, <1>6, BrowserStays DEF hookVars, pageVars, IInv, BrowserInv, Untracked
<1>. QED
  BY <1>3, <1>4, <1>5, <1>7 DEF IInv, Typed, ServerInv

-----------------------------------------------------------------------------
(* Steps of the hook and of the pages.                                     *)

LEMMA AnswersStay ==
  ASSUME HookTypes, AnswersAreHonest, DoneStays, UNCHANGED <<poll, polls>>
  PROVE  AnswersAreHonest'
<1>1. poll # NoPoll => poll.job \in Jobs
  BY DEF HookTypes
<1>. QED
  BY <1>1 DEF AnswersAreHonest, Honest, DoneStays

LEMMA GateStays ==
  ASSUME GateIsTrue, DoneStays, gate' = gate \/ gate' # "ready"
  PROVE  GateIsTrue'
BY PageAssumption DEF GateIsTrue, DoneStays

\* What a step shows, put together with what it leaves alone.
LEMMA Together ==
  ASSUME IInv, ServerInv', DoneStays, UNCHANGED eventVars,
         tracked' \in {Page, None}, view' \in View, confirming' \in BOOLEAN, LinkTypes', ViewIsTrue', Untracked',
         polls' \in [Jobs -> Fetches \cup {NoFetch}], poll' \in {NoPoll} \cup [job : Jobs, answer : Fetches], AnswersAreHonest',
         PageTypes', GateIsTrue'
  PROVE  IInv'
BY DEF IInv, Typed, ServerInv, EventTypes, eventVars, HookTypes, BrowserInv, ShownResultIsTrue, ViewIsTrue, GateIsTrue

LEMMA HookStepsKeepIInv ==
  ASSUME IInv, HookSteps
  PROVE  IInv'
<1>1. /\ ServerInv /\ ServerTypes /\ EventTypes /\ LinkTypes /\ HookTypes /\ PageTypes
      /\ AnswersAreHonest /\ Untracked /\ ViewIsTrue /\ GateIsTrue
  BY DEF IInv, Typed, ServerInv, BrowserInv, ShownResultIsTrue, ViewIsTrue, GateIsTrue
<1>2. ASSUME UNCHANGED <<kind, serverVars>> PROVE ServerInv' /\ DoneStays
  BY <1>1, <1>2, IdleServer
<1>. DEFINE Messages == {"open", "progress", "completed", "failed", "end"}
\* A dispatch: who is tracked stays, the page's gate too.
<1>3. ASSUME ServerInv', DoneStays, UNCHANGED <<kind, eventVars, tracked, gate, blocked, starting, snapshot>>, tracked # None,
             NEW e \in Events, e.type = "db_status" /\ e.status \in Done => e.status \in past[tracked],
             NEW box \in Seq(Messages), Effects(JobReducer(view, e), link, box),
             polls' \in [Jobs -> Fetches \cup {NoFetch}], poll' \in {NoPoll} \cup [job : Jobs, answer : Fetches], AnswersAreHonest'
      PROVE  IInv'
  <2>1. /\ view' \in View /\ confirming' \in BOOLEAN /\ live' \in Statuses \cup {None} /\ LinkTypes'
        /\ ViewIsTrue' /\ Untracked'
    BY <1>1, <1>3, EffectsAreHonest
  <2>2. PageTypes' /\ GateIsTrue' /\ tracked' \in {Page, None}
    BY <1>1, <1>3, <2>1, GateStays DEF PageTypes, HookTypes
  <2>. QED
    BY <1>3, <2>1, <2>2, Together
<1>4. \A type \in Plain : [type |-> type] \in Events /\ type # "db_status"
  BY DEF Events, Plain
<1>5. inbox \in Seq(Messages)
  BY <1>1 DEF LinkTypes
<1>6. CASE Receive
  <2>. DEFINE e == ToJobEvent(Head(inbox))
  <2>1. inbox # <<>>
    BY <1>6 DEF Receive
  <2>2. Head(inbox) \in Messages /\ Tail(inbox) \in Seq(Messages)
    <3>. HIDE DEF Messages
    <3>. QED
      BY <1>5, <2>1, HeadTailProperties
  <2>3. e \in Events /\ e.type # "db_status"
    BY <2>2, MessagesAreEvents DEF Events, Plain
  <2>4. ServerInv' /\ DoneStays /\ AnswersAreHonest' /\ UNCHANGED <<poll, polls>>
    BY <1>6, <1>1, <1>2, AnswersStay DEF Receive
  <2>5. /\ UNCHANGED <<kind, eventVars, tracked, gate, blocked, starting, snapshot>> /\ tracked # None
        /\ Effects(JobReducer(view, e), link, Tail(inbox))
    BY <1>6 DEF Receive
  <2>6. polls' \in [Jobs -> Fetches \cup {NoFetch}] /\ poll' \in {NoPoll} \cup [job : Jobs, answer : Fetches]
    BY <2>4, <1>1 DEF HookTypes
  <2>. HIDE DEF e
  <2>. QED
    BY <2>2, <2>3, <2>4, <2>5, <2>6, <1>3
<1>7. CASE SilentOrBroken
  <2>1. PICK type \in {"heartbeat_timeout", "sse_error"} : Effects(JobReducer(view, [type |-> type]), link, inbox)
    BY <1>7 DEF SilentOrBroken, Dispatch
  <2>2. UNCHANGED <<kind, eventVars, tracked, gate, blocked, starting, snapshot>> /\ tracked # None /\ UNCHANGED <<poll, polls>>
    BY <1>7, <1>1 DEF SilentOrBroken, Untracked
  <2>3. ServerInv' /\ DoneStays /\ AnswersAreHonest'
    BY <1>7, <1>1, <1>2, <2>2, AnswersStay DEF SilentOrBroken
  <2>4. polls' \in [Jobs -> Fetches \cup {NoFetch}] /\ poll' \in {NoPoll} \cup [job : Jobs, answer : Fetches]
    BY <2>2, <1>1 DEF HookTypes
  <2>5. [type |-> type] \in Events /\ [type |-> type].type # "db_status"
    BY <1>4 DEF Plain
  <2>. QED
    BY <2>1, <2>2, <2>3, <2>4, <2>5, <1>3, <1>5
<1>8. CASE Confirm
  <2>1. tracked \in Jobs /\ tracked # None
    BY <1>8, <1>1, PageAssumption DEF Confirm, HookTypes
  <2>2. PICK res \in StatusFetcher(tracked) :
          LET s == JobReducer(view, ConfirmEvent(res)) IN
          /\ view' = s /\ confirming' = FALSE
          /\ link' = IF s.transport = "sse" THEN link ELSE NoLink
          /\ inbox' = IF s.transport = "sse" THEN inbox ELSE <<>>
          /\ live' = IF kind = "analysis" THEN s.status ELSE live
    BY <1>8 DEF Confirm
  <2>. DEFINE e == ConfirmEvent(res)
              s == JobReducer(view, e)
  <2>3. res \in Fetches /\ Honest(tracked, res)
    BY <2>1, <1>1, FetchersAreHonest
  <2>4. e \in Events /\ (e.type = "db_status" => res.kind = "ok" /\ e.status = res.status)
    BY <2>3, ConfirmEventIsHonest
  <2>5. s \in View /\ (s.status \in Done => s.status = view.status \/ (e.type = "db_status" /\ e.status = s.status))
    <3>. HIDE DEF e
    <3>. QED
      BY <2>4, <1>1, ReducerIsHonest DEF HookTypes
  <2>6. s.status \in Done => s.status \in past[tracked]
    BY <2>3, <2>4, <2>5, <2>1, <1>1 DEF Honest, ViewIsTrue
  <2>7. ServerInv' /\ DoneStays /\ AnswersAreHonest' /\ UNCHANGED <<eventVars, tracked, poll, polls, gate, blocked, starting, snapshot>>
    BY <1>8, <1>1, <1>2, AnswersStay DEF Confirm
  <2>. HIDE DEF s
  <2>8. /\ view' = s /\ confirming' = FALSE /\ link' \in {link, NoLink} /\ inbox' \in {inbox, <<>>}
        /\ live' \in {s.status, live}
    BY <2>2 DEF s
  <2>9. LinkTypes' /\ PageTypes'
    <3>1. link' \in Links
      BY <2>8, <1>1 DEF LinkTypes, Links
    <3>3. inbox' \in Seq(Messages)
      <4>. HIDE DEF Messages
      <4>1. <<>> \in Seq(Messages)
        BY EmptySeq
      <4>. QED
        BY <4>1, <2>8, <1>5
    <3>2. live' \in Statuses \cup {None}
      BY <2>5, <2>8, <1>1 DEF PageTypes, View
    <3>. QED
      BY <3>1, <3>2, <3>3, <2>7, <1>1 DEF LinkTypes, PageTypes
  <2>10. ViewIsTrue' /\ Untracked' /\ GateIsTrue'
    BY <2>1, <2>6, <2>7, <2>8, <1>1, GateStays DEF ViewIsTrue, Untracked, DoneStays
  <2>. QED
    BY <2>5, <2>7, <2>8, <2>9, <2>10, <1>1, Together DEF HookTypes
<1>9. CASE PollAsk
  <2>1. tracked \in Jobs
    BY <1>9, <1>1, PageAssumption DEF PollAsk, HookTypes
  <2>2. PICK res \in StatusFetcher(tracked) : poll' = [job |-> tracked, answer |-> res]
    BY <1>9 DEF PollAsk
  <2>3. res \in Fetches /\ Honest(tracked, res)
    BY <2>1, <1>1, FetchersAreHonest
  <2>4. ServerInv' /\ DoneStays /\ UNCHANGED <<serverVars, eventVars, linkVars, tracked, view, confirming, polls, pageVars>>
    BY <1>9, <1>2 DEF PollAsk
  <2>5. AnswersAreHonest'
    BY <2>1, <2>2, <2>3, <2>4, <1>1 DEF AnswersAreHonest, Honest, serverVars
  <2>. QED
    BY <2>1, <2>2, <2>3, <2>4, <2>5, <1>1, Together
    DEF HookTypes, LinkTypes, PageTypes, linkVars, pageVars, ViewIsTrue, GateIsTrue, Untracked, serverVars
<1>10. CASE PollArrives
  <2>1. poll \in [job : Jobs, answer : Fetches] /\ Honest(poll.job, poll.answer)
    BY <1>10, <1>1 DEF PollArrives, HookTypes, AnswersAreHonest
  <2>2. poll' = NoPoll /\ polls' = [polls EXCEPT ![poll.job] = poll.answer] /\ UNCHANGED <<kind, serverVars, eventVars, tracked, gate, blocked, starting, snapshot>>
    BY <1>10 DEF PollArrives
  <2>3. ServerInv' /\ DoneStays
    BY <2>2, <1>2
  <2>4. polls' \in [Jobs -> Fetches \cup {NoFetch}] /\ poll' \in {NoPoll} \cup [job : Jobs, answer : Fetches]
    BY <2>1, <2>2, <1>1 DEF HookTypes
  <2>5. AnswersAreHonest'
    BY <2>1, <2>2, <1>1 DEF AnswersAreHonest, Honest, HookTypes, serverVars
  <2>6. CASE UNCHANGED <<linkVars, view, confirming, live>>
    BY <2>2, <2>3, <2>4, <2>5, <2>6, <1>1, Together
    DEF HookTypes, LinkTypes, PageTypes, linkVars, ViewIsTrue, GateIsTrue, Untracked, serverVars
  <2>7. CASE poll.job = tracked /\ \E e \in PollEvents(poll.answer) : Dispatch(e)
    <3>1. PICK e \in PollEvents(poll.answer) : Dispatch(e)
      BY <2>7
    <3>2. e \in Events /\ (e.type = "db_status" => poll.answer.kind = "ok" /\ e.status = poll.answer.status)
      BY <2>1, PollEventsAreHonest
    <3>3. e.type = "db_status" /\ e.status \in Done => e.status \in past[tracked]
      BY <3>2, <2>1, <2>7 DEF Honest
    <3>4. tracked # None
      BY <2>1, <2>7, JobsAssumption DEF None
    <3>5. Effects(JobReducer(view, e), link, inbox)
      BY <3>1 DEF Dispatch
    <3>. QED
      BY <3>2, <3>3, <3>4, <3>5, <2>2, <2>3, <2>4, <2>5, <1>3, <1>5
  <2>. QED
    BY <2>6, <2>7, <1>10 DEF PollArrives
<1>11. CASE Cancel
  <2>1. ServerInv' /\ DoneStays
    BY <1>11, <1>1, CancelKeeps
  <2>2. /\ UNCHANGED <<kind, eventVars, tracked, gate, blocked, starting, snapshot>> /\ tracked # None /\ UNCHANGED <<poll, polls>>
        /\ Effects(JobReducer(view, [type |-> "cancel"]), link, inbox)
    BY <1>11 DEF Cancel, Dispatch
  <2>3. AnswersAreHonest'
    BY <2>1, <2>2, <1>1, AnswersStay
  <2>4. polls' \in [Jobs -> Fetches \cup {NoFetch}] /\ poll' \in {NoPoll} \cup [job : Jobs, answer : Fetches]
    BY <2>2, <1>1 DEF HookTypes
  <2>5. [type |-> "cancel"] \in Events /\ [type |-> "cancel"].type # "db_status"
    BY <1>4 DEF Plain
  <2>. QED
    BY <2>1, <2>2, <2>3, <2>4, <2>5, <1>3, <1>5
<1>12. ASSUME NEW j \in Jobs, CacheForgets(j) PROVE IInv'
  <2>1. UNCHANGED <<kind, serverVars, eventVars, linkVars, tracked, view, confirming, poll, pageVars>> /\ polls' = [polls EXCEPT ![j] = NoFetch]
    BY <1>12 DEF CacheForgets
  <2>2. ServerInv' /\ DoneStays
    BY <2>1, <1>2
  <2>3. AnswersAreHonest'
    BY <2>1, <1>1 DEF AnswersAreHonest, Honest, HookTypes, serverVars, NoFetch, None
  <2>. QED
    BY <2>1, <2>2, <2>3, <1>1, Together
    DEF HookTypes, LinkTypes, PageTypes, linkVars, pageVars, ViewIsTrue, GateIsTrue, Untracked, serverVars
<1>. QED
  BY <1>6, <1>7, <1>8, <1>9, <1>10, <1>11, <1>12 DEF HookSteps

LEMMA PageStepsKeepIInv ==
  ASSUME IInv, PageSteps
  PROVE  IInv'
<1>1. /\ ServerInv /\ ServerTypes /\ EventTypes /\ LinkTypes /\ HookTypes /\ PageTypes
      /\ AnswersAreHonest /\ Untracked /\ ViewIsTrue /\ GateIsTrue
  BY DEF IInv, Typed, ServerInv, BrowserInv, ShownResultIsTrue, ViewIsTrue, GateIsTrue
<1>2. ASSUME UNCHANGED <<kind, serverVars>> PROVE ServerInv' /\ DoneStays
  BY <1>1, <1>2, IdleServer
\* The hook is given another id, or none.
<1>3. ASSUME ServerInv', DoneStays, UNCHANGED <<eventVars, poll, polls>>, NEW j \in {Page, None}, Follow(j),
             gate' \in {"closed", "dashboard", "not_generated", "running", "ready", "failed"}, blocked' \in BOOLEAN, starting' \in BOOLEAN,
             snapshot' \in Fetches \cup {NoFetch}, GateIsTrue'
      PROVE  IInv'
  <2>1. /\ tracked' \in {Page, None} /\ view' \in View /\ confirming' \in BOOLEAN /\ live' \in Statuses \cup {None} /\ LinkTypes'
        /\ ViewIsTrue' /\ Untracked'
    BY <1>1, <1>3, FollowIsHonest
  <2>2. AnswersAreHonest'
    BY <1>1, <1>3, AnswersStay
  <2>. QED
    BY <1>1, <1>3, <2>1, <2>2, Together DEF PageTypes, HookTypes
\* The hook is left alone.
<1>4. ASSUME ServerInv', DoneStays, UNCHANGED <<eventVars, linkVars, hookVars>>, PageTypes', GateIsTrue'
      PROVE  IInv'
  <2>1. AnswersAreHonest'
    BY <1>1, <1>4, AnswersStay DEF hookVars
  <2>2. LinkTypes' /\ Untracked' /\ ViewIsTrue'
    BY <1>1, <1>4, PageAssumption DEF LinkTypes, linkVars, hookVars, Untracked, ViewIsTrue, HookTypes, DoneStays
  <2>. QED
    BY <1>1, <1>4, <2>1, <2>2, Together DEF HookTypes, hookVars
<1>5. CASE OpenGate
  <2>1. rows[Page] \in DbStatus \cup {"absent"} /\ (rows[Page] \in Done => rows[Page] \in past[Page])
    BY <1>1, PageAssumption DEF ServerInv, ServerTypes, Recorded
  <2>2. gate' \in {"not_generated", "running", "ready", "failed"} /\ (gate' = "ready" => rows[Page] \in Done)
    BY <1>5, <2>1 DEF OpenGate, FeatureStatusOf, DbStatus, Done
  <2>3. ServerInv' /\ DoneStays
    BY <1>5, <1>2 DEF OpenGate
  <2>4. GateIsTrue'
    BY <1>5, <2>1, <2>2 DEF OpenGate, GateIsTrue, serverVars
  <2>5. CASE gate' = "running"
    BY <1>5, <2>2, <2>3, <2>4, <2>5, <1>1, <1>3 DEF OpenGate, PageTypes
  <2>6. CASE gate' # "running"
    <3>1. UNCHANGED <<eventVars, linkVars, hookVars, blocked, starting, snapshot, live>>
      BY <1>5, <2>6 DEF OpenGate, hookVars
    <3>. QED
      BY <3>1, <2>2, <2>3, <2>4, <1>1, <1>4 DEF PageTypes
  <2>. QED
    BY <2>5, <2>6
<1>6. CASE PressStart
  BY <1>6, <1>1, <1>2, <1>4, GateStays DEF PressStart, PageTypes
<1>7. CASE StartAccepted
  <2>1. ServerInv' /\ DoneStays
    BY <1>7, <1>1, EnqueuedKeeps, PageAssumption DEF StartAccepted
  <2>2. CASE gate = "closed"
    <3>1. UNCHANGED <<eventVars, linkVars, hookVars, gate, blocked, snapshot, live>> /\ starting' = FALSE
      BY <1>7, <2>2 DEF StartAccepted, hookVars
    <3>. QED
      BY <3>1, <2>1, <1>1, <1>4, GateStays DEF PageTypes
  <2>3. CASE gate # "closed"
    <3>1. gate' = "running" /\ Follow(Page) /\ UNCHANGED <<eventVars, poll, polls, blocked, snapshot>> /\ starting' = FALSE
      BY <1>7, <2>3 DEF StartAccepted
    <3>2. GateIsTrue'
      BY <3>1 DEF GateIsTrue
    <3>. QED
      BY <3>1, <3>2, <2>1, <1>1, <1>3 DEF PageTypes
  <2>. QED
    BY <2>2, <2>3
<1>8. CASE StartRefused
  <2>1. ServerInv' /\ DoneStays
    <3>1. UNCHANGED kind /\ (UNCHANGED serverVars \/ Enqueued(Page))
      BY <1>8 DEF StartRefused
    <3>. QED
      BY <3>1, <1>1, <1>2, EnqueuedKeeps, PageAssumption
  <2>2. gate' \in {gate, "not_generated", "failed"} /\ blocked' \in {blocked, TRUE} /\ starting' = FALSE
        /\ UNCHANGED <<eventVars, linkVars, hookVars, snapshot, live>>
    BY <1>8 DEF StartRefused
  <2>3. GateIsTrue'
    BY <2>1, <2>2, <1>1, GateStays
  <2>. QED
    BY <2>1, <2>2, <2>3, <1>1, <1>4 DEF PageTypes
<1>9. CASE GateFollows
  <2>1. gate' \in {"running", "ready", "failed"} /\ (gate' = "ready" => view.status \in Done)
    BY <1>9 DEF GateFollows, JobPhase
  <2>2. view.status \in Done => tracked = Page
    BY <1>1 DEF Untracked, Fresh, Done, HookTypes
  <2>3. ServerInv' /\ DoneStays
    BY <1>9, <1>2 DEF GateFollows
  <2>4. gate' = "ready" => past[Page] \cap Done # {}
    <3>1. CASE tracked = None
      BY <3>1, <2>1, <1>1 DEF Untracked, Fresh, Done
    <3>2. CASE tracked # None
      BY <3>2, <2>1, <2>2, <1>1 DEF ViewIsTrue
    <3>. QED
      BY <3>1, <3>2
  <2>5. GateIsTrue'
    BY <2>3, <2>4, PageAssumption DEF GateIsTrue, DoneStays
  <2>. QED
    BY <1>9, <2>1, <2>3, <2>5, <1>1, <1>3 DEF GateFollows, PageTypes
<1>10. CASE OpenDashboard
  BY <1>10, <1>1, <1>2, <1>4, GateStays DEF OpenDashboard, PageTypes
<1>11. CASE SnapshotArrives
  <2>1. PICK res \in StatusFetcher(Page) : snapshot' = IF res = Unavailable /\ snapshot # NoFetch THEN snapshot ELSE res
    BY <1>11 DEF SnapshotArrives
  <2>2. res \in Fetches
    BY <1>1, PageAssumption, FetchersAreHonest
  <2>3. UNCHANGED <<kind, serverVars, eventVars, linkVars, hookVars, gate, blocked, starting, live>>
    BY <1>11 DEF SnapshotArrives
  <2>4. PageTypes'
    BY <2>1, <2>2, <2>3, <1>1 DEF PageTypes
  <2>. QED
    BY <2>3, <2>4, <1>1, <1>2, <1>4, GateStays
<1>12. CASE PanelFollows
  <2>1. ServerInv' /\ DoneStays
    BY <1>12, <1>2 DEF PanelFollows
  <2>. QED
    BY <1>12, <2>1, <1>1, <1>3, GateStays DEF PanelFollows, PageTypes
<1>13. CASE ClosePage
  <2>1. ServerInv' /\ DoneStays
    BY <1>13, <1>2 DEF ClosePage
  <2>. QED
    BY <1>13, <2>1, <1>1, <1>3, GateStays DEF ClosePage, PageTypes
<1>. QED
  BY <1>5, <1>6, <1>7, <1>8, <1>9, <1>10, <1>11, <1>12, <1>13 DEF PageSteps

LEMMA NextKeepsIInv == IInv /\ [Next]_vars => IInv'
<1>. SUFFICES ASSUME IInv, [Next]_vars PROVE IInv'
  OBVIOUS
<1>1. CASE UNCHANGED vars
  BY <1>1 DEF vars, serverVars, eventVars, linkVars, hookVars, pageVars, IInv, Typed, ServerTypes, EventTypes, LinkTypes, HookTypes, PageTypes,
     Finished, Recorded, BrowserInv, AnswersAreHonest, Honest, Untracked, ShownResultIsTrue
<1>. QED
  BY <1>1, RunStepsKeepIInv, StreamStepsKeepIInv, HookStepsKeepIInv, PageStepsKeepIInv DEF Next

-----------------------------------------------------------------------------
LEMMA Invariance == Spec => []IInv
<1>. QED
  BY InitIInv, NextKeepsIInv, PTL DEF Spec

(* Rows, queue, events, streams, hook and pages stay well typed, and no    *)
(* more terminated subjects are retained than JobEventsService allows.     *)
THEOREM Typing == Spec => []TypeOK
<1>1. IInv => TypeOK
  BY Parts DEF IInv
<1>. QED
  BY <1>1, Invariance, PTL

(* ShownResultIsTrue: the browser shows a result only as the row has it in *)
(* its current run, however late an answer or an event is, whatever        *)
(* TanStack still has of the id, and however often the job is run again.   *)
THEOREM ShownResults == Spec => []ShownResultIsTrue
<1>1. IInv => ShownResultIsTrue
  BY DEF IInv, BrowserInv
<1>. QED
  BY <1>1, Invariance, PTL

-----------------------------------------------------------------------------
(* The page of the tracking lists. *)

USE ScreenAssumption

ScreenTypes == ScreenTypeOK /\ \A r \in requests : r.id <= sent

\* A request that is sent is new, waits, and is the only one of a guarded trigger.
LEMMA SendAdds ==
  ASSUME ScreenTypes, NEW op \in Guarded \cup {"lists", "detail"}, NEW l \in Lists, NEW n \in Names, NEW k \in Keys,
         Send(op, l, n, k)
  PROVE  \E q \in PageRequest :
           /\ q.id = sent + 1 /\ q.op = op /\ q.list = l /\ q.name = n /\ q.key = k /\ q.answer = Waiting
           /\ q.op = "delete" => q.open = selected
           /\ requests' = requests \cup {q} /\ q \notin requests
           /\ sent' = sent + 1 /\ sent < MaxRequests /\ UNCHANGED <<server, altered>>
           /\ raced' = (raced \/ (op = "lists" /\ \E o \in OfLists : Busy(o)) \/ (op \in OfLists /\ Busy("lists")))
           /\ overtaken' = (overtaken \/ (op \in OfMembers /\ \E o \in OfMembers : Busy(o)))
           /\ error' \in {error, "none"} /\ (op \in Guarded => ~Busy(op))
<1> USE DEF ScreenTypes, ScreenTypeOK
<1> DEFINE q == [NewRequest(sent + 1, op, l, n, k) EXCEPT !.open = IF op = "delete" THEN selected ELSE NoList]
<1>1. Waiting \in PageAnswer
  BY DEF Waiting, Refusal, PageAnswer
<1>2. sent + 1 \in 1..MaxRequests
  BY DEF Send, SendUnguarded
<1>3. /\ q.id = sent + 1 /\ q.op = op /\ q.list = l /\ q.name = n /\ q.key = k /\ q.answer = Waiting
      /\ q.op = "delete" => q.open = selected
  BY DEF NewRequest
<1>4. q \in PageRequest
  BY <1>1, <1>2 DEF NewRequest, PageRequest
<1>5. q \notin requests
  BY <1>3 DEF PageRequest
<1>6. requests' = requests \cup {q}
  BY DEF Send, SendUnguarded
<1> HIDE DEF q
<1>7. QED  BY <1>3, <1>4, <1>5, <1>6 DEF Send, SendUnguarded

\* An answer takes the place of its request, which no other request can be taken for.
LEMMA AnswerReplaces ==
  ASSUME ScreenTypes, NEW r \in requests, NEW a \in PageAnswer, Answered(r, a)
  PROVE  \E q \in PageRequest :
           /\ q.id = r.id /\ q.op = r.op /\ q.list = r.list /\ q.name = r.name /\ q.key = r.key /\ q.open = r.open /\ q.answer = a
           /\ requests' = (requests \ {r}) \cup {q}
<1> DEFINE q == [r EXCEPT !.answer = a]
<1>1. r \in PageRequest
  BY DEF ScreenTypes, ScreenTypeOK
<1>2. q \in PageRequest
  BY <1>1 DEF PageRequest
<1>3. /\ q.id = r.id /\ q.op = r.op /\ q.list = r.list /\ q.name = r.name /\ q.key = r.key /\ q.open = r.open /\ q.answer = a
  BY <1>1 DEF PageRequest
<1>4. QED  BY <1>2, <1>3 DEF Answered

\* What the requests are like after one was sent, answered or taken off.
LEMMA SentTypes ==
  ASSUME ScreenTypes, NEW q \in PageRequest, q.id = sent + 1, requests' = requests \cup {q}, q.op \in Guarded => ~Busy(q.op),
         sent' = sent + 1, sent < MaxRequests
  PROVE  /\ requests' \subseteq PageRequest /\ (\A r \in requests' : r.id <= sent') /\ sent' \in 1..MaxRequests
         /\ \A r, s \in requests' : r.id = s.id \/ (r.op = s.op /\ r.op \in Guarded) => r = s
BY DEF ScreenTypes, ScreenTypeOK, PageRequest, Busy

LEMMA ReplacedTypes ==
  ASSUME ScreenTypes, NEW r \in requests, NEW q \in PageRequest, q.id = r.id, q.op = r.op,
         requests' = (requests \ {r}) \cup {q}, sent' = sent
  PROVE  /\ requests' \subseteq PageRequest /\ (\A s \in requests' : s.id <= sent') /\ sent' \in 1..MaxRequests
         /\ \A s, t \in requests' : s.id = t.id \/ (s.op = t.op /\ s.op \in Guarded) => s = t
BY DEF ScreenTypes, ScreenTypeOK

LEMMA FewerTypes ==
  ASSUME ScreenTypes, requests' \subseteq requests, sent' \in {sent} \cup {n \in 1..MaxRequests : sent <= n}
  PROVE  /\ requests' \subseteq PageRequest /\ (\A s \in requests' : s.id <= sent') /\ sent' \in 1..MaxRequests
         /\ \A s, t \in requests' : s.id = t.id \/ (s.op = t.op /\ s.op \in Guarded) => s = t
BY DEF ScreenTypes, ScreenTypeOK, PageRequest

LEMMA InitScreenTypes ==
  ASSUME ScreenInit
  PROVE  ScreenTypes
<1>1. AnyOf(Lists) \in Lists /\ AnyOf(Names) \in Names /\ AnyOf(Keys) \in Keys
  BY DEF AnyOf
<1>2. Waiting \in PageAnswer
  BY DEF Waiting, Refusal, PageAnswer
<1>3. NewRequest(1, "lists", AnyOf(Lists), AnyOf(Names), AnyOf(Keys)) \in PageRequest
  BY <1>1, <1>2 DEF NewRequest, PageRequest
<1>4. server \in [Lists -> ListState]
  BY DEF ScreenInit, ListState
<1>5. \A r \in requests : r.id = 1
  BY DEF ScreenInit, NewRequest
<1>6. /\ requests \subseteq PageRequest /\ sent = 1 /\ sent \in 1..MaxRequests /\ \A r \in requests : r.id <= sent
      /\ \A r, s \in requests : r = s
  BY <1>3, <1>5 DEF ScreenInit
<1>7. \A l \in Lists : server[l].status = "live" => server[l].name \in Names
  BY DEF ScreenInit
<1>8. QED  BY <1>4, <1>6, <1>7 DEF ScreenInit, ScreenTypes, ScreenTypeOK, Prompts

LEMMA ClickTypes ==
  ASSUME ScreenTypes, Click
  PROVE  ScreenTypes'
<1> USE DEF ScreenTypes, ScreenTypeOK
<1>0. AnyOf(Lists) \in Lists /\ AnyOf(Names) \in Names /\ AnyOf(Keys) \in Keys
  BY DEF AnyOf
<1>1. ASSUME NEW op \in Guarded \cup {"lists", "detail"}, NEW l \in Lists, NEW n \in Names, NEW k \in Keys, Send(op, l, n, k)
      PROVE  /\ requests' \subseteq PageRequest /\ (\A r \in requests' : r.id <= sent') /\ sent' \in 1..MaxRequests
             /\ \A r, s \in requests' : r.id = s.id \/ (r.op = s.op /\ r.op \in Guarded) => r = s
             /\ raced' \in BOOLEAN /\ overtaken' \in BOOLEAN /\ error' \in Prompts /\ UNCHANGED <<server, altered>>
  <2>1. PICK q \in PageRequest :
          /\ q.id = sent + 1 /\ q.op = op /\ requests' = requests \cup {q} /\ sent' = sent + 1 /\ sent < MaxRequests
          /\ UNCHANGED <<server, altered>> /\ error' \in {error, "none"} /\ (op \in Guarded => ~Busy(op))
          /\ raced' = (raced \/ (op = "lists" /\ \E o \in OfLists : Busy(o)) \/ (op \in OfLists /\ Busy("lists")))
          /\ overtaken' = (overtaken \/ (op \in OfMembers /\ \E o \in OfMembers : Busy(o)))
    BY <1>1, SendAdds
  <2>2. raced' \in BOOLEAN /\ overtaken' \in BOOLEAN
    BY <2>1
  <2>3. error' \in Prompts
    BY <2>1 DEF Prompts
  <2>4. QED  BY <2>1, <2>2, <2>3, SentTypes
<1>2. CASE Reload
  BY <1>0, <1>1, <1>2 DEF Reload, panelVars, dialogVars
<1>3. CASE HandleCreate
  <2>1. \E n \in Names : Send("create", AnyOf(Lists), n, AnyOf(Keys))
    BY <1>3 DEF HandleCreate
  <2>2. QED  BY <1>0, <1>1, <1>3, <2>1 DEF HandleCreate, Guarded, listVars, panelVars, dialogVars
<1>4. CASE HandleRename
  <2>1. renaming \in Lists
    BY <1>4 DEF HandleRename, Shown, ListRow
  <2>2. QED  BY <1>0, <1>1, <1>4, <2>1 DEF HandleRename, Guarded, listVars, panelVars, dialogVars
<1>5. CASE HandleDeleteList
  BY <1>0, <1>1, <1>5 DEF HandleDeleteList, Guarded, listVars, panelVars, dialogVars
<1>6. CASE HandleRemoveMember
  BY <1>0, <1>1, <1>6 DEF HandleRemoveMember, Guarded, listVars, panelVars, dialogVars
<1>7. ASSUME NEW l \in Lists, SelectList(l)
      PROVE  ScreenTypes'
  BY <1>0, <1>1, <1>7 DEF SelectList, listVars, dialogVars
<1>8. ASSUME NEW l \in Lists, StartRename(l) \/ AskDelete(l)
      PROVE  ScreenTypes'
  BY <1>8 DEF StartRename, AskDelete, listVars, panelVars, ghostVars, Prompts
<1>9. CASE CancelRename \/ CancelDialog
  BY <1>9 DEF CancelRename, CancelDialog, listVars, panelVars, ghostVars
<1>10. ASSUME NEW k \in Keys, AskRemove(k)
       PROVE  ScreenTypes'
  <2>1. selected \in Lists
    BY <1>10 DEF AskRemove, Shown, ListRow
  <2>2. QED  BY <1>10, <2>1 DEF AskRemove, listVars, panelVars, ghostVars
<1>11. QED  BY <1>2, <1>3, <1>4, <1>5, <1>6, <1>7, <1>8, <1>9, <1>10 DEF Click

LEMMA RefusalIs ==
  ASSUME NEW status \in {0, 200, 201, 404, 409, 500}, NEW limit \in BOOLEAN
  PROVE  Refusal(status, limit) \in PageAnswer /\ Refusal(status, limit).status = status
BY DEF Refusal, PageAnswer

-----------------------------------------------------------------------------
(* What a step does to requests and server, the page's own variables apart. *)

\* r is answered by q, with or without an effect on the server.
Refused(r, q) == ~Succeeded(q) /\ q.list = r.list /\ UNCHANGED server
ListsTold(r, q) ==
  /\ r.op = "lists" /\ q.list = r.list /\ UNCHANGED server
  /\ q.answer.rows = {[list |-> m, name |-> server[m].name, from |-> r.id] : m \in ServerLists}
Created(r, q) ==
  /\ r.op = "create" /\ Succeeded(q) /\ server[q.list].status = "unborn"
  /\ server' = [server EXCEPT ![q.list] = [status |-> "live", name |-> r.name, members |-> {}]]
NamedAnew(r, q) ==
  /\ r.op = "rename" /\ Succeeded(q) /\ q.list = r.list /\ r.list \in ServerLists
  /\ server' = [server EXCEPT ![r.list].name = r.name]
Deleted(r, q) ==
  /\ r.op = "delete" /\ Succeeded(q) /\ q.list = r.list /\ r.list \in ServerLists
  /\ server' = [server EXCEPT ![r.list] = Gone]
Detailed(r, q) ==
  /\ r.op = "detail" /\ q.list = r.list /\ r.list \in ServerLists /\ UNCHANGED server
  /\ q.answer.members = server[r.list].members
Removed(r, q) ==
  /\ r.op = "remove" /\ Succeeded(q) /\ q.list = r.list /\ r.list \in ServerLists /\ r.key \in server[r.list].members
  /\ server' = [server EXCEPT ![r.list].members = @ \ {r.key}]
Effect(r, q) ==
  \/ Refused(r, q) \/ ListsTold(r, q) \/ Created(r, q) \/ NamedAnew(r, q) \/ Deleted(r, q) \/ Detailed(r, q) \/ Removed(r, q)

LEMMA AnswerEffects ==
  ASSUME ScreenTypes, NEW r \in requests, Serve(r) \/ Breaks(r)
  PROVE  /\ ~Succeeded(r) /\ r \in PageRequest /\ UNCHANGED <<listVars, panelVars, dialogVars, error, sent, ghostVars>>
         /\ \E q \in PageRequest :
              /\ q.id = r.id /\ q.op = r.op /\ q.name = r.name /\ q.key = r.key /\ q.open = r.open
              /\ requests' = (requests \ {r}) \cup {q}
              /\ r.op = "lists" /\ ~Succeeded(q) => q.answer.rows = {}
              /\ Effect(r, q)
<1> USE DEF ScreenTypes, ScreenTypeOK
<1>1. r \in PageRequest /\ r.list \in Lists /\ r.answer = Waiting
      /\ UNCHANGED <<listVars, panelVars, dialogVars, error, sent, ghostVars>>
  BY DEF Serve, Breaks, PageRequest
<1>2. ~Succeeded(r)
  BY <1>1 DEF Succeeded, Waiting, Refusal
<1> DEFINE Becomes(q) == /\ q.id = r.id /\ q.op = r.op /\ q.name = r.name /\ q.key = r.key /\ q.open = r.open
                         /\ requests' = (requests \ {r}) \cup {q}
           Good(q) == Becomes(q) /\ (r.op = "lists" /\ ~Succeeded(q) => q.answer.rows = {}) /\ Effect(r, q)
<1>3. ASSUME NEW a \in PageAnswer, Answered(r, a)
      PROVE  \E q \in PageRequest : Becomes(q) /\ q.list = r.list /\ q.answer = a
  BY <1>3, AnswerReplaces
<1>4. ASSUME NEW status \in {404, 409, 500}, NEW limit \in BOOLEAN, Answered(r, Refusal(status, limit)), UNCHANGED server
      PROVE  \E q \in PageRequest : Good(q)
  <2>1. PICK q \in PageRequest : Becomes(q) /\ q.list = r.list /\ q.answer = Refusal(status, limit)
    BY <1>3, <1>4, RefusalIs
  <2>2. q.answer.status \notin {200, 201} /\ q.answer.rows = {}
    BY <2>1 DEF Refusal
  <2>3. Good(q)
    BY <1>4, <2>1, <2>2 DEF Effect, Refused, Succeeded
  <2>4. QED  BY <2>3
<1>5. Agreed(200) \in PageAnswer /\ Agreed(201) \in PageAnswer /\ Agreed(200).status = 200 /\ Agreed(201).status = 201
  BY DEF Agreed, Refusal, PageAnswer
<1>6. \E q \in PageRequest : Good(q)
  <2>1. CASE Breaks(r)
    BY <2>1, <1>4 DEF Breaks
  <2>2. CASE ServeLists(r)
    <3> DEFINE told == {[list |-> m, name |-> server[m].name, from |-> r.id] : m \in ServerLists}
               a == [Agreed(200) EXCEPT !.rows = told]
    <3>1. \A m \in ServerLists : server[m].name \in Names /\ m \in Lists
      BY DEF ServerLists
    <3>2. told \in SUBSET ListRow
      BY <1>1, <3>1 DEF ListRow, PageRequest
    <3>3. a \in PageAnswer /\ a.rows = told /\ a.status = 200
      BY <3>2 DEF PageAnswer, Agreed, Refusal
    <3>4. Answered(r, a) /\ UNCHANGED server /\ r.op = "lists"
      BY <2>2 DEF ServeLists
    <3> HIDE DEF a
    <3>5. PICK q \in PageRequest : Becomes(q) /\ q.list = r.list /\ q.answer = a
      BY <1>3, <3>3, <3>4
    <3>6. Succeeded(q) /\ q.answer.rows = told
      BY <3>3, <3>5 DEF Succeeded
    <3>7. Good(q)
      BY <3>4, <3>5, <3>6 DEF Effect, ListsTold
    <3>8. QED  BY <3>7
  <2>3. CASE ServeCreate(r)
    <3>1. \/ UNCHANGED server /\ (Answered(r, Refusal(409, TRUE)) \/ Answered(r, Refusal(409, FALSE)))
          \/ \E m \in Lists : /\ server[m].status = "unborn"
                              /\ server' = [server EXCEPT ![m] = [status |-> "live", name |-> r.name, members |-> {}]]
                              /\ requests' = (requests \ {r}) \cup {[r EXCEPT !.list = m, !.answer = Agreed(201)]}
      BY <2>3 DEF ServeCreate
    <3>2. ASSUME NEW m \in Lists, server[m].status = "unborn",
                 server' = [server EXCEPT ![m] = [status |-> "live", name |-> r.name, members |-> {}]],
                 requests' = (requests \ {r}) \cup {[r EXCEPT !.list = m, !.answer = Agreed(201)]}
          PROVE  \E q \in PageRequest : Good(q)
      <4> DEFINE q == [r EXCEPT !.list = m, !.answer = Agreed(201)]
      <4>0. Agreed(201) \in PageAnswer
        BY <1>5
      <4>1. q \in PageRequest /\ q.answer = Agreed(201) /\ q.list = m
            /\ q.id = r.id /\ q.op = r.op /\ q.name = r.name /\ q.key = r.key /\ q.open = r.open
        BY <1>1, <4>0 DEF PageRequest
      <4>2. requests' = (requests \ {r}) \cup {q} /\ r.op = "create"
        BY <2>3, <3>2 DEF ServeCreate
      <4> HIDE DEF q
      <4>3. Succeeded(q)
        BY <1>5, <4>1 DEF Succeeded
      <4>4. Good(q)
        BY <3>2, <4>1, <4>2, <4>3 DEF Effect, Created
      <4>5. QED  BY <4>1, <4>4
    <3>3. CASE UNCHANGED server /\ Answered(r, Refusal(409, TRUE))
      BY <1>4, <3>3
    <3>4. CASE UNCHANGED server /\ Answered(r, Refusal(409, FALSE))
      BY <1>4, <3>4
    <3>5. QED  BY <3>1, <3>2, <3>3, <3>4
  <2>4. ASSUME UNCHANGED server, Answered(r, Refusal(404, FALSE)) \/ Answered(r, Refusal(409, FALSE))
        PROVE  \E q \in PageRequest : Good(q)
    <3>1. CASE Answered(r, Refusal(404, FALSE))
      BY <1>4, <2>4, <3>1
    <3>2. CASE Answered(r, Refusal(409, FALSE))
      BY <1>4, <2>4, <3>2
    <3>3. QED  BY <2>4, <3>1, <3>2
  <2>5. ASSUME Answered(r, Agreed(200))
        PROVE  \E q \in PageRequest : Becomes(q) /\ q.list = r.list /\ Succeeded(q)
    BY <1>3, <1>5, <2>5 DEF Succeeded
  <2>6. CASE ServeRename(r)
    <3>1. \/ UNCHANGED server /\ (Answered(r, Refusal(404, FALSE)) \/ Answered(r, Refusal(409, FALSE)))
          \/ /\ r.op = "rename" /\ r.list \in ServerLists /\ Answered(r, Agreed(200))
             /\ server' = [server EXCEPT ![r.list].name = r.name]
      BY <2>6 DEF ServeRename
    <3>2. QED  BY <2>4, <2>5, <3>1 DEF Effect, NamedAnew
  <2>7. CASE ServeDelete(r)
    <3>1. \/ UNCHANGED server /\ Answered(r, Refusal(404, FALSE))
          \/ /\ r.op = "delete" /\ r.list \in ServerLists /\ Answered(r, Agreed(200))
             /\ server' = [server EXCEPT ![r.list] = Gone]
      BY <2>7 DEF ServeDelete
    <3>2. QED  BY <2>4, <2>5, <3>1 DEF Effect, Deleted
  <2>8. CASE ServeRemove(r)
    <3>1. \/ UNCHANGED server /\ Answered(r, Refusal(404, FALSE))
          \/ /\ r.op = "remove" /\ r.list \in ServerLists /\ r.key \in server[r.list].members /\ Answered(r, Agreed(200))
             /\ server' = [server EXCEPT ![r.list].members = @ \ {r.key}]
      BY <2>8 DEF ServeRemove
    <3>2. QED  BY <2>4, <2>5, <3>1 DEF Effect, Removed
  <2>9. CASE ServeDetail(r)
    <3> DEFINE a == [Agreed(200) EXCEPT !.members = server[r.list].members]
    <3>1. a \in PageAnswer /\ a.members = server[r.list].members
      BY <1>1 DEF PageAnswer, Agreed, Refusal, ListState
    <3>2. UNCHANGED server /\ r.op = "detail" /\ (Answered(r, Refusal(404, FALSE)) \/ (r.list \in ServerLists /\ Answered(r, a)))
      BY <2>9 DEF ServeDetail
    <3> HIDE DEF a
    <3>3. CASE r.list \in ServerLists /\ Answered(r, a)
      BY <1>3, <3>1, <3>2, <3>3 DEF Effect, Detailed
    <3>4. QED  BY <2>4, <3>2, <3>3
  <2>10. QED  BY <2>1, <2>2, <2>3, <2>6, <2>7, <2>8, <2>9 DEF Serve
<1>7. QED  BY <1>1, <1>2, <1>6
LEMMA NetworkTypes ==
  ASSUME ScreenTypes, NEW r \in requests, Serve(r) \/ Breaks(r) \/ Rejects(r)
  PROVE  ScreenTypes'
<1> USE DEF ScreenTypes, ScreenTypeOK
<1>1. CASE Serve(r) \/ Breaks(r)
  <2>1. PICK q \in PageRequest : q.id = r.id /\ q.op = r.op /\ requests' = (requests \ {r}) \cup {q} /\ Effect(r, q)
    BY <1>1, AnswerEffects
  <2>2. UNCHANGED <<listVars, panelVars, dialogVars, error, sent, ghostVars>>
    BY <1>1, AnswerEffects
  <2>3. r.name \in Names /\ r.list \in Lists /\ q.list \in Lists
    BY DEF PageRequest
  <2>4. \/ UNCHANGED server
        \/ server' = [server EXCEPT ![q.list] = [status |-> "live", name |-> r.name, members |-> {}]]
        \/ server' = [server EXCEPT ![r.list].name = r.name]
        \/ server' = [server EXCEPT ![r.list] = Gone]
        \/ server' = [server EXCEPT ![r.list].members = @ \ {r.key}]
    BY <2>1 DEF Effect, Refused, ListsTold, Created, NamedAnew, Deleted, Detailed, Removed
  <2>5. server' \in [Lists -> ListState] /\ \A l \in Lists : server'[l].status = "live" => server'[l].name \in Names
    BY <2>3, <2>4 DEF Gone, ListState
  <2>6. QED  BY <2>1, <2>2, <2>5, ReplacedTypes DEF listVars, panelVars, dialogVars, ghostVars
<1>3. CASE Rejects(r)
  <2>1. requests' \subseteq requests /\ sent' = sent /\ altered' \subseteq Lists
    BY <1>3 DEF Rejects, PageRequest
  <2>2. UNCHANGED <<server, listVars, panelVars, dialogVars, error, raced, overtaken>>
    BY <1>3 DEF Rejects
  <2>3. QED  BY <2>1, <2>2, FewerTypes DEF listVars, panelVars, dialogVars
<1>4. QED  BY <1>1, <1>3

LEMMA ElsewhereTypes ==
  ASSUME ScreenTypes, NEW l \in Lists, Elsewhere(l)
  PROVE  ScreenTypes'
<1> USE DEF ScreenTypes, ScreenTypeOK
<1>1. Gone \in ListState
  BY DEF Gone, ListState
<1>2. \/ server' = [server EXCEPT ![l] = Gone]
      \/ \E k \in server[l].members : server' = [server EXCEPT ![l].members = @ \ {k}]
  BY DEF Elsewhere
<1>3. server' \in [Lists -> ListState] /\ \A m \in Lists : server'[m].status = "live" => server'[m].name \in Names
  <2>1. CASE server' = [server EXCEPT ![l] = Gone]
    BY <1>1, <2>1 DEF Gone
  <2>2. ASSUME NEW k \in server[l].members, server' = [server EXCEPT ![l].members = @ \ {k}]
        PROVE  server' \in [Lists -> ListState] /\ \A m \in Lists : server'[m].status = "live" => server'[m].name \in Names
    BY <2>2 DEF ListState
  <2>3. QED  BY <1>2, <2>1, <2>2
<1>4. /\ requests' = requests /\ sent < MaxRequests /\ sent' = sent + 1 /\ altered' \subseteq Lists
      /\ UNCHANGED <<listVars, panelVars, dialogVars, error, raced, overtaken>>
  BY DEF Elsewhere
<1>5. sent' \in 1..MaxRequests /\ sent <= sent'
  BY <1>4
<1>6. QED  BY <1>3, <1>4, <1>5, FewerTypes DEF listVars, panelVars, dialogVars

LEMMA ArrivalTypes ==
  ASSUME ScreenTypes, NEW r \in requests,
         ListsArrive(r) \/ CreateArrives(r) \/ RenameArrives(r) \/ DeleteArrives(r) \/ DetailArrives(r) \/ RemoveArrives(r)
  PROVE  ScreenTypes'
<1> USE DEF ScreenTypes, ScreenTypeOK
<1>1. r \in PageRequest /\ r.answer \in PageAnswer /\ r.answer.rows \subseteq ListRow /\ r.answer.members \subseteq Keys
      /\ r.list \in Lists /\ r.name \in Names /\ r.id \in 1..MaxRequests
  BY DEF PageRequest, PageAnswer
<1>2. requests' = requests \ {r} /\ UNCHANGED <<server, sent, ghostVars>>
  BY DEF ListsArrive, CreateArrives, RenameArrives, DeleteArrives, DetailArrives, RemoveArrives, Arrived
<1>3. /\ requests' \subseteq PageRequest /\ (\A s \in requests' : s.id <= sent') /\ sent' \in 1..MaxRequests
      /\ \A s, t \in requests' : s.id = t.id \/ (s.op = t.op /\ s.op \in Guarded) => s = t
  BY <1>2, FewerTypes
<1>4. ASSUME Tell(r)
      PROVE  error' \in Prompts
  BY <1>4 DEF Tell, TrackingListErrorMessage, Prompts
<1>5. CASE ListsArrive(r)
  BY <1>1, <1>2, <1>3, <1>5 DEF ListsArrive, panelVars, dialogVars, ghostVars
<1>6. CASE CreateArrives(r)
  <2>1. [list |-> r.list, name |-> r.name, from |-> r.id] \in ListRow
    BY <1>1 DEF ListRow
  <2>2. listRows' \subseteq ListRow
    BY <1>6, <2>1 DEF CreateArrives
  <2>3. QED  BY <1>2, <1>3, <1>4, <1>6, <2>2 DEF CreateArrives, panelVars, dialogVars, ghostVars
<1>7. CASE RenameArrives(r)
  <2>1. Renamed(r) \subseteq ListRow
    BY <1>1 DEF Renamed, ListRow
  <2>2. listRows' \subseteq ListRow
    BY <1>7, <2>1 DEF RenameArrives
  <2>3. QED  BY <1>2, <1>3, <1>4, <1>7, <2>2 DEF RenameArrives, panelVars, ghostVars
<1>8. CASE DeleteArrives(r)
  BY <1>2, <1>3, <1>4, <1>8 DEF DeleteArrives, ghostVars
<1>9. CASE DetailArrives(r)
  BY <1>1, <1>2, <1>3, <1>9 DEF DetailArrives, listVars, dialogVars, ghostVars
<1>10. CASE RemoveArrives(r)
  BY <1>2, <1>3, <1>4, <1>10 DEF RemoveArrives, listVars, ghostVars
<1>11. QED  BY <1>5, <1>6, <1>7, <1>8, <1>9, <1>10

LEMMA NextScreenTypes ==
  ASSUME ScreenTypes, [ScreenNext]_trackingVars
  PROVE  ScreenTypes'
<1>1. CASE UNCHANGED trackingVars
  BY <1>1 DEF ScreenTypes, ScreenTypeOK, trackingVars, listVars, panelVars, dialogVars, ghostVars
<1>2. QED  BY <1>1, ClickTypes, NetworkTypes, ElsewhereTypes, ArrivalTypes DEF ScreenNext, Network, Arrival

(* The page stays well typed, and a trigger that was clicked twice has one *)
(* request under way, for any lists, names, keys, limits and faults.       *)
THEOREM ScreenTyping == ScreenSpec => []ScreenTypeOK
<1>1. ScreenInit => ScreenTypes
  BY InitScreenTypes
<1>2. ScreenTypes /\ [ScreenNext]_trackingVars => ScreenTypes'
  BY NextScreenTypes
<1>3. ScreenTypes => ScreenTypeOK
  BY DEF ScreenTypes
<1>4. QED  BY <1>1, <1>2, <1>3, PTL DEF ScreenSpec

\* A click that sends nothing: a dialog or an input is opened on a row, or closed.
Quiet ==
  /\ UNCHANGED <<server, listVars, panelVars, requests, sent, ghostVars>>
  /\ renaming' \in Shown \cup {renaming, NoList} /\ deleting' \in Shown \cup {deleting, NoList}
  /\ \/ removing' \in {removing, NoTarget}
     \/ selected \in Shown /\ removing' # NoTarget /\ removing'.list = selected

\* A click that sends q.
Asks(q) ==
  /\ q.id = sent + 1 /\ q.answer = Waiting /\ requests' = requests \cup {q} /\ sent' = sent + 1
  /\ UNCHANGED <<server, listRows, dialogVars, altered>>
  /\ raced' = (raced \/ (q.op = "lists" /\ \E o \in OfLists : Busy(o)) \/ (q.op \in OfLists /\ Busy("lists")))
  /\ overtaken' = (overtaken \/ (q.op \in OfMembers /\ \E o \in OfMembers : Busy(o)))
  /\ \/ q.op = "lists" /\ failed /\ loading' = TRUE /\ failed' = FALSE
     \/ q.op # "lists" /\ UNCHANGED <<loading, failed>>
  /\ \/ /\ q.op = "detail" /\ removing = NoTarget /\ q.list \in Shown
        /\ selected' = q.list /\ members' = {} /\ filledBy' = NoList /\ membersLoading' = TRUE /\ detailFailed' = FALSE
     \/ q.op # "detail" /\ UNCHANGED panelVars
  /\ q.op = "rename" => q.list = renaming
  /\ q.op = "delete" => q.list = deleting
  /\ q.op = "remove" => removing # NoTarget /\ q.list = removing.list /\ q.key = removing.key

LEMMA ClickSteps ==
  ASSUME ScreenTypes, Click
  PROVE  Quiet \/ \E q \in PageRequest : Asks(q)
<1> USE DEF ScreenTypes, ScreenTypeOK
<1>0. AnyOf(Lists) \in Lists /\ AnyOf(Names) \in Names /\ AnyOf(Keys) \in Keys
  BY DEF AnyOf
<1>1. CASE Reload
  <2>1. Send("lists", AnyOf(Lists), AnyOf(Names), AnyOf(Keys)) /\ failed /\ loading' = TRUE /\ failed' = FALSE
        /\ UNCHANGED <<listRows, panelVars, dialogVars>>
    BY <1>1 DEF Reload
  <2>2. PICK q \in PageRequest :
          /\ q.id = sent + 1 /\ q.op = "lists" /\ q.answer = Waiting /\ requests' = requests \cup {q} /\ sent' = sent + 1
          /\ UNCHANGED <<server, altered>>
          /\ raced' = (raced \/ (q.op = "lists" /\ \E o \in OfLists : Busy(o)) \/ (q.op \in OfLists /\ Busy("lists")))
          /\ overtaken' = (overtaken \/ (q.op \in OfMembers /\ \E o \in OfMembers : Busy(o)))
    BY <1>0, <2>1, SendAdds
  <2>3. Asks(q)
    BY <2>1, <2>2 DEF Asks
  <2>4. QED  BY <2>3
<1>2. CASE HandleCreate
  <2>1. PICK n \in Names : Send("create", AnyOf(Lists), n, AnyOf(Keys))
    BY <1>2 DEF HandleCreate
  <2>2. UNCHANGED <<listVars, panelVars, dialogVars>>
    BY <1>2 DEF HandleCreate
  <2>3. \E q \in PageRequest : Asks(q)
    BY <1>0, <2>1, <2>2, SendAdds DEF Asks, Guarded, listVars
  <2>4. QED  BY <2>3
<1>3. CASE HandleRename
  <2>1. PICK n \in Names : Send("rename", renaming, n, AnyOf(Keys))
    BY <1>3 DEF HandleRename
  <2>2. UNCHANGED <<listVars, panelVars, dialogVars>> /\ renaming \in Lists
    BY <1>3 DEF HandleRename, Shown, ListRow
  <2>3. \E q \in PageRequest : Asks(q)
    BY <1>0, <2>1, <2>2, SendAdds DEF Asks, Guarded, listVars
  <2>4. QED  BY <2>3
<1>4. CASE HandleDeleteList
  <2>1. Send("delete", deleting, AnyOf(Names), AnyOf(Keys)) /\ deleting \in Lists /\ UNCHANGED <<listVars, panelVars, dialogVars>>
    BY <1>4 DEF HandleDeleteList
  <2>2. \E q \in PageRequest : Asks(q)
    BY <1>0, <2>1, SendAdds DEF Asks, Guarded, listVars
  <2>3. QED  BY <2>2
<1>5. CASE HandleRemoveMember
  <2>1. /\ Send("remove", removing.list, AnyOf(Names), removing.key) /\ removing # NoTarget
        /\ removing.list \in Lists /\ removing.key \in Keys /\ UNCHANGED <<listVars, panelVars, dialogVars>>
    BY <1>5 DEF HandleRemoveMember
  <2>2. \E q \in PageRequest : Asks(q)
    BY <1>0, <2>1, SendAdds DEF Asks, Guarded, listVars
  <2>3. QED  BY <2>2
<1>6. ASSUME NEW l \in Lists, SelectList(l)
      PROVE  \E q \in PageRequest : Asks(q)
  <2>1. /\ Send("detail", l, AnyOf(Names), AnyOf(Keys)) /\ removing = NoTarget /\ l \in Shown
        /\ selected' = l /\ members' = {} /\ filledBy' = NoList /\ membersLoading' = TRUE /\ detailFailed' = FALSE
        /\ UNCHANGED <<listVars, dialogVars>>
    BY <1>6 DEF SelectList, NoDialog
  <2>2. QED  BY <1>0, <2>1, SendAdds DEF Asks, listVars
<1>7. ASSUME NEW l \in Lists, StartRename(l) \/ AskDelete(l)
      PROVE  Quiet
  BY <1>7 DEF StartRename, AskDelete, Quiet
<1>8. CASE CancelRename \/ CancelDialog
  BY <1>8 DEF CancelRename, CancelDialog, Quiet
<1>9. ASSUME NEW k \in Keys, AskRemove(k)
      PROVE  Quiet
  <2>1. /\ removing' = [list |-> selected, key |-> k, of |-> filledBy] /\ selected \in Shown /\ selected \in Lists
        /\ UNCHANGED <<server, listVars, panelVars, renaming, deleting, error, requests, sent, ghostVars>>
    BY <1>9 DEF AskRemove, Shown, ListRow
  <2>2. removing'.list = selected /\ removing' # NoTarget
    BY <2>1 DEF NoTarget
  <2>3. QED  BY <2>1, <2>2 DEF Quiet
<1>10. QED  BY <1>1, <1>2, <1>3, <1>4, <1>5, <1>6, <1>7, <1>8, <1>9 DEF Click

Pending(op, l) == \E r \in requests : r.op = op /\ Succeeded(r) /\ r.list = l
Targeted(l) ==
  \/ l \in {renaming, deleting, selected, filledBy}
  \/ removing # NoTarget /\ removing.list = l
  \/ \E r \in requests : r.op \in {"rename", "delete", "detail", "remove"} /\ r.list = l

\* The lists are loaded once, and a successful answer to a create or a delete has left its mark on the server.
LoadInv ==
  /\ \A r, s \in requests : r.op = "lists" /\ s.op = "lists" => r = s
  /\ Busy("lists") => loading /\ ~failed
  /\ ~raced => ~(Busy("lists") /\ \E op \in OfLists : Busy(op))
  /\ \A r \in requests : r.op = "lists" /\ ~Succeeded(r) => r.answer.rows = {}
  /\ \A r \in requests : r.op = "create" /\ Succeeded(r) => server[r.list].status # "unborn"
  /\ \A r \in requests : r.op = "delete" /\ Succeeded(r) => server[r.list].status = "gone"

LEMMA Moves ==
  ASSUME ScreenTypes, NEW r \in requests, NEW q \in PageRequest, q.op = r.op, Effect(r, q)
  PROVE  /\ \A l \in Lists : /\ server'[l].status = "unborn" => server[l].status = "unborn"
                             /\ server[l].status = "gone" => server'[l] = server[l]
                             /\ server'[l].status = "gone" /\ server[l].status # "gone" => r.op = "delete" /\ Succeeded(q) /\ q.list = l
                             /\ server'[l].members \subseteq server[l].members
                                  \/ (server[l].status = "unborn" /\ server'[l].members = {})
         /\ r.op = "create" /\ Succeeded(q) => Created(r, q) /\ server'[q.list].status = "live" /\ server'[q.list].name = r.name
         /\ r.op # "create" => q.list = r.list
         /\ r.op = "rename" /\ Succeeded(q) => NamedAnew(r, q)
         /\ r.op = "delete" /\ Succeeded(q) => Deleted(r, q) /\ server'[q.list].status = "gone"
<1> USE DEF ScreenTypes, ScreenTypeOK
<1>1. r \in PageRequest /\ r.list \in Lists /\ q.list \in Lists
  BY DEF PageRequest
<1>2. CASE Refused(r, q) \/ ListsTold(r, q) \/ Detailed(r, q)
  BY <1>2 DEF Refused, ListsTold, Detailed
<1>3. CASE Created(r, q)
  BY <1>1, <1>3 DEF Created, ListState
<1>4. CASE NamedAnew(r, q)
  BY <1>1, <1>4 DEF NamedAnew, ListState, ServerLists
<1>5. CASE Deleted(r, q)
  BY <1>1, <1>5 DEF Deleted, ListState, ServerLists, Gone
<1>6. CASE Removed(r, q)
  BY <1>1, <1>6 DEF Removed, ListState, ServerLists
<1>7. QED  BY <1>2, <1>3, <1>4, <1>5, <1>6 DEF Effect

\* An answer that arrives, and one that is lost, only take their request off.
LEMMA OneLess ==
  ASSUME ScreenTypes, NEW r \in requests, Rejects(r) \/ Arrival
  PROVE  UNCHANGED <<server, raced, overtaken, sent>> /\ requests' \subseteq requests
BY DEF Arrival, ListsArrive, CreateArrives, RenameArrives, DeleteArrives, DetailArrives, RemoveArrives, Arrived, Rejects, ghostVars

LEMMA LoadKept ==
  ASSUME ScreenTypes, LoadInv, [ScreenNext]_trackingVars
  PROVE  LoadInv'
<1> USE DEF ScreenTypes, ScreenTypeOK
<1>1. ~Succeeded([answer |-> Waiting]) /\ Waiting.rows = {}
  BY DEF Succeeded, Waiting, Refusal
<1>2. CASE UNCHANGED trackingVars \/ Quiet
  BY <1>2 DEF LoadInv, Busy, Succeeded, Quiet, trackingVars, listVars, ghostVars
<1>3. ASSUME NEW q \in PageRequest, Asks(q)
      PROVE  LoadInv'
  <2>1. ~Succeeded(q) /\ q.answer.rows = {} /\ requests' = requests \cup {q} /\ UNCHANGED server
    BY <1>1, <1>3 DEF Asks, Succeeded
  <2>2. /\ raced' = (raced \/ (q.op = "lists" /\ \E o \in OfLists : Busy(o)) \/ (q.op \in OfLists /\ Busy("lists")))
        /\ \/ q.op = "lists" /\ failed /\ loading' = TRUE /\ failed' = FALSE
           \/ q.op # "lists" /\ UNCHANGED <<loading, failed>>
    BY <1>3 DEF Asks
  <2>3. \A o \in OfLists : Busy(o)' => Busy(o) \/ q.op = o
    BY <2>1 DEF Busy
  <2>4. Busy("lists")' => Busy("lists") \/ q.op = "lists"
    BY <2>1 DEF Busy
  <2>5. "lists" \notin OfLists
    BY DEF OfLists
  <2>6. ~raced' => ~(Busy("lists")' /\ \E op \in OfLists : Busy(op)')
    BY <2>2, <2>3, <2>4, <2>5 DEF LoadInv
  <2>7. \A r, s \in requests' : r.op = "lists" /\ s.op = "lists" => r = s
    BY <2>1, <2>2 DEF LoadInv, Busy
  <2>8. QED  BY <2>1, <2>2, <2>4, <2>6, <2>7 DEF LoadInv, Busy, Succeeded
<1>4. ASSUME NEW r \in requests, Serve(r) \/ Breaks(r)
      PROVE  LoadInv'
  <2>1. PICK q \in PageRequest : /\ q.id = r.id /\ q.op = r.op /\ requests' = (requests \ {r}) \cup {q} /\ Effect(r, q)
                                 /\ r.op = "lists" /\ ~Succeeded(q) => q.answer.rows = {}
    BY <1>4, AnswerEffects
  <2>2. UNCHANGED <<listVars, ghostVars>>
    BY <1>4, AnswerEffects
  <2>3. \A op \in OfLists \cup {"lists"} : Busy(op)' => Busy(op)
    BY <2>1 DEF Busy
  <2>4. \A l \in Lists : /\ server'[l].status = "unborn" => server[l].status = "unborn"
                         /\ server[l].status = "gone" => server'[l] = server[l]
    BY <2>1, Moves
  <2>5. /\ q.op = "create" /\ Succeeded(q) => server'[q.list].status = "live"
        /\ q.op = "delete" /\ Succeeded(q) => server'[q.list].status = "gone"
    BY <2>1, Moves
  <2>6. \A s \in requests : s.list \in Lists
    BY DEF PageRequest
  <2>7. \A s \in requests' : /\ s.op = "create" /\ Succeeded(s) => server'[s.list].status # "unborn"
                             /\ s.op = "delete" /\ Succeeded(s) => server'[s.list].status = "gone"
    BY <2>1, <2>4, <2>5, <2>6 DEF LoadInv
  <2>8. QED  BY <2>1, <2>2, <2>3, <2>7 DEF LoadInv, listVars, ghostVars, Succeeded, Busy
<1>5. ASSUME NEW r \in requests, Rejects(r) \/ Arrival, UNCHANGED <<loading, failed>>
      PROVE  LoadInv'
  <2>1. UNCHANGED <<server, raced>> /\ requests' \subseteq requests
    BY <1>5, OneLess
  <2>2. QED  BY <1>5, <2>1 DEF LoadInv, Busy, Succeeded
<1>6. ASSUME NEW r \in requests, ListsArrive(r)
      PROVE  LoadInv'
  <2>1. r.op = "lists" /\ requests' = requests \ {r} /\ UNCHANGED <<server, raced>>
    BY <1>6 DEF ListsArrive, Arrived, ghostVars
  <2>2. ~Busy("lists")'
    BY <2>1 DEF LoadInv, Busy
  <2>3. QED  BY <2>1, <2>2 DEF LoadInv, Busy, Succeeded
<1>7. ASSUME NEW l \in Lists, Elsewhere(l)
      PROVE  LoadInv'
  <2>1. UNCHANGED <<requests, loading, failed, raced>>
    BY <1>7 DEF Elsewhere, listVars
  <2>2. \A m \in Lists : /\ server'[m].status = "unborn" => server[m].status = "unborn"
                         /\ server[m].status = "gone" => server'[m].status = "gone"
    BY <1>7 DEF Elsewhere, Gone, ListState
  <2>3. QED  BY <2>1, <2>2 DEF LoadInv, Busy, Succeeded, PageRequest
<1>8. CASE Click
  BY <1>2, <1>3, <1>8, ClickSteps
<1>9. CASE Network
  BY <1>4, <1>5, <1>9 DEF Network, Rejects, listVars
<1>10. CASE Arrival
  BY <1>5, <1>6, <1>10 DEF Arrival, CreateArrives, RenameArrives, DeleteArrives, DetailArrives, RemoveArrives, listVars
<1>11. QED  BY <1>2, <1>7, <1>8, <1>9, <1>10 DEF ScreenNext

\* A list that is not there yet, or whose creation the page does not know of.
Unseen(l) == server[l].status = "unborn" \/ Pending("create", l)
UnseenInv ==
  \A l \in Lists : Unseen(l) =>
    /\ l \notin Shown /\ ~Targeted(l)
    /\ \A r \in requests : r.op = "lists" => \A row \in r.answer.rows : row.list # l

\* What is pending and what is targeted, by the kinds of steps.
LEMMA AskedPends ==
  ASSUME ScreenTypes, NEW q \in PageRequest, Asks(q)
  PROVE  /\ \A op, l : Pending(op, l)' <=> Pending(op, l)
         /\ \A l \in Lists : Targeted(l)' => Targeted(l) \/ l \in Shown
         /\ Shown' = Shown /\ ~Succeeded(q) /\ q.answer.rows = {}
<1>1. q.answer = Waiting /\ requests' = requests \cup {q} /\ UNCHANGED <<server, listRows, dialogVars>>
  BY DEF Asks
<1>2. ~Succeeded(q) /\ q.answer.rows = {}
  BY <1>1 DEF Succeeded, Waiting, Refusal
<1>3. \A op, l : Pending(op, l)' <=> Pending(op, l)
  BY <1>1, <1>2 DEF Pending, Succeeded
<1>4. /\ q.op \in {"rename", "delete", "detail", "remove"} => Targeted(q.list) \/ q.list \in Shown
      /\ UNCHANGED <<selected, filledBy>> \/ (selected' = q.list /\ filledBy' = NoList /\ q.list \in Shown)
  BY DEF Asks, Targeted, panelVars
<1>5. ASSUME NEW l \in Lists, Targeted(l)'
      PROVE  Targeted(l) \/ l \in Shown
  BY <1>1, <1>4, <1>5 DEF Targeted, dialogVars
<1>6. QED  BY <1>1, <1>2, <1>3, <1>5 DEF Shown

LEMMA AnsweredPends ==
  ASSUME ScreenTypes, NEW r \in requests, NEW q \in PageRequest, q.op = r.op, ~Succeeded(r), Effect(r, q),
         requests' = (requests \ {r}) \cup {q}, UNCHANGED <<listVars, panelVars, dialogVars>>
  PROVE  /\ \A op, l : Pending(op, l)' <=> Pending(op, l) \/ (q.op = op /\ Succeeded(q) /\ q.list = l)
         /\ \A l \in Lists : Targeted(l)' <=> Targeted(l)
         /\ Shown' = Shown
<1>1. \A op, l : Pending(op, l)' <=> Pending(op, l) \/ (q.op = op /\ Succeeded(q) /\ q.list = l)
  BY DEF Pending, Succeeded
<1>2. r.op # "create" => q.list = r.list
  BY Moves
<1>3. \A l \in Lists : Targeted(l)' <=> Targeted(l)
  BY <1>2 DEF Targeted, panelVars, dialogVars
<1>4. QED  BY <1>1, <1>3 DEF Shown, listVars

LEMMA LostPends ==
  ASSUME NEW r \in requests, requests' = requests \ {r}
  PROVE  /\ \A op, l : Pending(op, l)' => Pending(op, l)
         /\ \A op, l : Pending(op, l) => Pending(op, l)' \/ (r.op = op /\ Succeeded(r) /\ r.list = l)
BY DEF Pending, Succeeded

\* A guarded trigger's only request is gone with it.
LEMMA LastOfItsKind ==
  ASSUME ScreenTypes, NEW r \in requests, r.op \in Guarded, requests' = requests \ {r}
  PROVE  \A l : ~Pending(r.op, l)'
BY DEF Pending, ScreenTypes, ScreenTypeOK

LEMMA ArrivedPends ==
  ASSUME ScreenTypes, NEW r \in requests,
         Rejects(r) \/ ListsArrive(r) \/ CreateArrives(r) \/ RenameArrives(r) \/ DeleteArrives(r) \/ DetailArrives(r) \/ RemoveArrives(r)
  PROVE  /\ requests' = requests \ {r} /\ UNCHANGED <<server, raced, overtaken, sent>>
         /\ \A l \in Lists : Targeted(l)' => Targeted(l)
<1>1. requests' = requests \ {r} /\ UNCHANGED <<server, raced, overtaken, sent>>
  BY DEF ListsArrive, CreateArrives, RenameArrives, DeleteArrives, DetailArrives, RemoveArrives, Arrived, Rejects, ghostVars
<1>2. /\ renaming' \in {renaming, NoList} /\ deleting' \in {deleting, NoList} /\ removing' \in {removing, NoTarget}
      /\ selected' \in {selected, NoList} /\ (filledBy' \in {filledBy, NoList} \/ (r.op = "detail" /\ filledBy' = r.list))
  BY DEF ListsArrive, CreateArrives, RenameArrives, DeleteArrives, DetailArrives, RemoveArrives, Rejects, panelVars, dialogVars
<1>3. \A l \in Lists : Targeted(l)' => Targeted(l)
  BY <1>1, <1>2 DEF Targeted
<1>4. QED  BY <1>1, <1>3

LEMMA ElsewherePends ==
  ASSUME ScreenTypes, NEW l \in Lists, Elsewhere(l)
  PROVE  /\ \A op, m : Pending(op, m)' <=> Pending(op, m)
         /\ \A m \in Lists : Targeted(m)' <=> Targeted(m)
         /\ \A m \in Lists : server'[m].status = "unborn" => server[m].status = "unborn"
         /\ \A m \in Lists \ {l} : server'[m] = server[m]
         /\ \A m \in Lists : server'[m].members \subseteq server[m].members
         /\ UNCHANGED <<listVars, panelVars, dialogVars, requests, raced, overtaken>> /\ altered' = altered \cup {l}
<1>1. UNCHANGED <<listVars, panelVars, dialogVars, requests, raced, overtaken>> /\ altered' = altered \cup {l}
  BY DEF Elsewhere
<1>2. server' = [server EXCEPT ![l] = Gone] \/ \E k \in server[l].members : server' = [server EXCEPT ![l].members = @ \ {k}]
  BY DEF Elsewhere
<1>3. \A m \in Lists : server'[m].status = "unborn" => server[m].status = "unborn"
  BY <1>2 DEF Gone, ScreenTypes, ScreenTypeOK, ListState
<1>4. \A m \in Lists \ {l} : server'[m] = server[m]
  BY <1>2 DEF ScreenTypes, ScreenTypeOK
<1>5. \A m \in Lists : server'[m].members \subseteq server[m].members
  BY <1>2 DEF Gone, ScreenTypes, ScreenTypeOK, ListState
<1>6. QED  BY <1>1, <1>3, <1>4, <1>5 DEF Pending, Targeted, Succeeded, panelVars, dialogVars

LEMMA UnseenKept ==
  ASSUME ScreenTypes, LoadInv, UnseenInv, [ScreenNext]_trackingVars, ~raced, ~raced'
  PROVE  UnseenInv'
<1> SUFFICES ASSUME NEW l \in Lists, Unseen(l)'
             PROVE  /\ l \notin Shown' /\ ~Targeted(l)'
                    /\ \A r \in requests' : r.op = "lists" => \A row \in r.answer.rows : row.list # l
  BY DEF UnseenInv
<1>0. l # NoList
  OBVIOUS
<1>1. Unseen(l) => /\ l \notin Shown /\ ~Targeted(l)
                   /\ \A r \in requests : r.op = "lists" => \A row \in r.answer.rows : row.list # l
  BY DEF UnseenInv
<1>2. CASE UNCHANGED trackingVars
  BY <1>1, <1>2 DEF trackingVars, listVars, panelVars, dialogVars, ghostVars, Unseen, Pending, Succeeded, Shown, Targeted
<1>3. CASE Quiet
  <2>1. Unseen(l) /\ UNCHANGED <<requests, listRows, selected, filledBy>>
    BY <1>3 DEF Quiet, Unseen, Pending, Succeeded, listVars, panelVars
  <2>2. Targeted(l)' => Targeted(l) \/ l \in Shown
    BY <1>0, <1>3, <2>1 DEF Quiet, Targeted
  <2>3. QED  BY <1>1, <2>1, <2>2 DEF Shown
<1>4. ASSUME NEW q \in PageRequest, Asks(q)
      PROVE  /\ l \notin Shown' /\ ~Targeted(l)'
             /\ \A r \in requests' : r.op = "lists" => \A row \in r.answer.rows : row.list # l
  <2>1. Unseen(l) /\ requests' = requests \cup {q}
    BY <1>4, AskedPends DEF Unseen, Asks
  <2>2. QED  BY <1>1, <1>4, <2>1, AskedPends
<1>5. ASSUME NEW r \in requests, Serve(r) \/ Breaks(r)
      PROVE  /\ l \notin Shown' /\ ~Targeted(l)'
             /\ \A s \in requests' : s.op = "lists" => \A row \in s.answer.rows : row.list # l
  <2>1. PICK q \in PageRequest : /\ q.id = r.id /\ q.op = r.op /\ requests' = (requests \ {r}) \cup {q} /\ Effect(r, q)
                                 /\ r.op = "lists" /\ ~Succeeded(q) => q.answer.rows = {}
    BY <1>5, AnswerEffects
  <2>2. UNCHANGED <<listVars, panelVars, dialogVars>> /\ ~Succeeded(r)
    BY <1>5, AnswerEffects
  <2>3. Shown' = Shown /\ (Targeted(l)' => Targeted(l))
    BY <2>1, <2>2, AnsweredPends
  <2>4. Unseen(l)
    <3>1. CASE server'[l].status = "unborn"
      BY <2>1, <3>1, Moves DEF Unseen
    <3>2. CASE Pending("create", l)
      BY <3>2 DEF Unseen
    <3>3. CASE Succeeded(q) /\ q.op = "create" /\ q.list = l
      BY <2>1, <3>3, Moves DEF Unseen, Created
    <3>4. QED  BY <2>1, <2>2, <3>1, <3>2, <3>3, AnsweredPends DEF Unseen
  <2>5. r.op = "lists" /\ Succeeded(q) => \A row \in q.answer.rows : row.list # l
    <3>1. SUFFICES ASSUME r.op = "lists", Succeeded(q)
                   PROVE  \A row \in q.answer.rows : row.list # l
      OBVIOUS
    <3>2. ListsTold(r, q)
      BY <2>1, <3>1 DEF Effect, Refused, Created, NamedAnew, Deleted, Detailed, Removed
    <3>3. ~Busy("create")
      BY <3>1 DEF LoadInv, Busy, OfLists
    <3>4. server[l].status = "unborn"
      BY <2>4, <3>3 DEF Unseen, Pending, Busy
    <3>5. QED  BY <3>2, <3>4 DEF ListsTold, ServerLists
  <2>6. QED  BY <1>1, <2>1, <2>3, <2>4, <2>5
<1>6. ASSUME NEW r \in requests, requests' = requests \ {r}, UNCHANGED server
      PROVE  Unseen(l)
  BY <1>6, LostPends DEF Unseen
<1>7. ASSUME NEW r \in requests, requests' = requests \ {r}, UNCHANGED server, Targeted(l)' => Targeted(l), Shown' \subseteq Shown
      PROVE  /\ l \notin Shown' /\ ~Targeted(l)'
             /\ \A s \in requests' : s.op = "lists" => \A row \in s.answer.rows : row.list # l
  BY <1>1, <1>6, <1>7
<1>8. ASSUME NEW r \in requests, ListsArrive(r)
      PROVE  /\ l \notin Shown' /\ ~Targeted(l)'
             /\ \A s \in requests' : s.op = "lists" => \A row \in s.answer.rows : row.list # l
  <2>1. requests' = requests \ {r} /\ UNCHANGED server /\ (Targeted(l)' => Targeted(l))
    BY <1>8, ArrivedPends DEF ListsArrive, Arrived, dialogVars
  <2>2. r.op = "lists" /\ (listRows' = r.answer.rows \/ listRows' = listRows)
    BY <1>8 DEF ListsArrive
  <2>3. Unseen(l)
    BY <1>6, <2>1
  <2>4. QED  BY <1>1, <2>1, <2>2, <2>3 DEF Shown
<1>9. ASSUME NEW r \in requests, CreateArrives(r)
      PROVE  /\ l \notin Shown' /\ ~Targeted(l)'
             /\ \A s \in requests' : s.op = "lists" => \A row \in s.answer.rows : row.list # l
  <2>1. requests' = requests \ {r} /\ UNCHANGED server /\ (Targeted(l)' => Targeted(l))
    BY <1>9, ArrivedPends
  <2>2. Unseen(l)
    BY <1>6, <2>1
  <2>3. r.op = "create" /\ (listRows' = listRows \/ (Succeeded(r) /\ listRows' = listRows \cup {[list |-> r.list, name |-> r.name, from |-> r.id]}))
    BY <1>9 DEF CreateArrives
  <2>4. ~Pending("create", l)'
    BY <2>1, <2>3, LastOfItsKind DEF Guarded
  <2>5. server[l].status = "unborn"
    BY <2>1, <2>4 DEF Unseen
  <2>6. Succeeded(r) => r.list # l
    BY <2>3, <2>5 DEF LoadInv
  <2>7. l \notin Shown'
    BY <1>1, <2>2, <2>3, <2>6 DEF Shown
  <2>8. QED  BY <1>1, <2>1, <2>2, <2>7
<1>10. ASSUME NEW r \in requests, Rejects(r) \/ RenameArrives(r) \/ DeleteArrives(r) \/ DetailArrives(r) \/ RemoveArrives(r)
       PROVE  /\ l \notin Shown' /\ ~Targeted(l)'
              /\ \A s \in requests' : s.op = "lists" => \A row \in s.answer.rows : row.list # l
  <2>1. requests' = requests \ {r} /\ UNCHANGED server /\ (Targeted(l)' => Targeted(l))
    BY <1>10, ArrivedPends
  <2>2. listRows' = Renamed(r) \/ listRows' \subseteq listRows
    BY <1>10 DEF Rejects, RenameArrives, DeleteArrives, DetailArrives, RemoveArrives, listVars
  <2>3. \A row \in Renamed(r) : \E before \in listRows : before.list = row.list
    BY DEF Renamed, ScreenTypes, ScreenTypeOK, ListRow
  <2>4. Shown' \subseteq Shown
    BY <2>2, <2>3 DEF Shown
  <2>5. QED  BY <1>7, <2>1, <2>4
<1>11. ASSUME NEW m \in Lists, Elsewhere(m)
       PROVE  /\ l \notin Shown' /\ ~Targeted(l)'
              /\ \A s \in requests' : s.op = "lists" => \A row \in s.answer.rows : row.list # l
  BY <1>1, <1>11, ElsewherePends DEF Unseen, Shown, listVars
<1>12. CASE Click
  BY <1>3, <1>4, <1>12, ClickSteps
<1>13. CASE Network
  BY <1>5, <1>10, <1>13 DEF Network
<1>14. CASE Arrival
  BY <1>8, <1>9, <1>10, <1>14 DEF Arrival
<1>15. QED  BY <1>2, <1>11, <1>12, <1>13, <1>14 DEF ScreenNext

\* A list has one row, on the page and in an answer.
OneRowEach(R) == \A row, other \in R : row.list = other.list => row = other
OnceInv == OneRowEach(listRows) /\ \A r \in requests : r.op = "lists" => OneRowEach(r.answer.rows)

LEMMA OnceKept ==
  ASSUME ScreenTypes, LoadInv, UnseenInv, OnceInv, [ScreenNext]_trackingVars, ~raced, ~raced'
  PROVE  OnceInv'
<1>1. CASE UNCHANGED trackingVars \/ Quiet
  BY <1>1 DEF trackingVars, Quiet, listVars, OnceInv, OneRowEach
<1>2. ASSUME NEW q \in PageRequest, Asks(q)
      PROVE  OnceInv'
  <2>1. q.answer.rows = {} /\ requests' = requests \cup {q} /\ listRows' = listRows
    BY <1>2, AskedPends DEF Asks
  <2>2. QED  BY <2>1 DEF OnceInv, OneRowEach
<1>3. ASSUME NEW r \in requests, Serve(r) \/ Breaks(r)
      PROVE  OnceInv'
  <2>1. PICK q \in PageRequest : /\ q.id = r.id /\ q.op = r.op /\ requests' = (requests \ {r}) \cup {q} /\ Effect(r, q)
                                 /\ r.op = "lists" /\ ~Succeeded(q) => q.answer.rows = {}
    BY <1>3, AnswerEffects
  <2>2. UNCHANGED <<listVars, panelVars, dialogVars>> /\ ~Succeeded(r)
    BY <1>3, AnswerEffects
  <2>3. r.op = "lists" /\ Succeeded(q) => ListsTold(r, q)
    BY <2>1 DEF Effect, Refused, Created, NamedAnew, Deleted, Detailed, Removed
  <2>4. r.op = "lists" => OneRowEach(q.answer.rows)
    BY <2>1, <2>3 DEF ListsTold, OneRowEach
  <2>5. QED  BY <2>1, <2>2, <2>4 DEF OnceInv, OneRowEach, listVars
<1>4. ASSUME NEW r \in requests, requests' \subseteq requests, OneRowEach(listRows')
      PROVE  OnceInv'
  BY <1>4 DEF OnceInv, OneRowEach
<1>5. ASSUME NEW r \in requests, ListsArrive(r)
      PROVE  OnceInv'
  BY <1>4, <1>5 DEF ListsArrive, Arrived, OnceInv, OneRowEach
<1>6. ASSUME NEW r \in requests, CreateArrives(r)
      PROVE  OnceInv'
  <2>1. /\ requests' = requests \ {r} /\ r.op = "create"
        /\ listRows' = listRows \/ (Succeeded(r) /\ listRows' = listRows \cup {[list |-> r.list, name |-> r.name, from |-> r.id]})
    BY <1>6 DEF CreateArrives, Arrived
  <2>2. r.list \in Lists
    BY DEF ScreenTypes, ScreenTypeOK, PageRequest
  <2>3. Succeeded(r) => r.list \notin Shown
    BY <2>1, <2>2 DEF UnseenInv, Unseen, Pending
  <2>4. OneRowEach(listRows')
    BY <2>1, <2>3 DEF OnceInv, OneRowEach, Shown
  <2>5. QED  BY <1>4, <2>1, <2>4
<1>7. ASSUME NEW r \in requests, Rejects(r) \/ DeleteArrives(r) \/ DetailArrives(r) \/ RemoveArrives(r)
      PROVE  OnceInv'
  <2>1. requests' \subseteq requests /\ listRows' \subseteq listRows
    BY <1>7 DEF Rejects, DeleteArrives, DetailArrives, RemoveArrives, Arrived, listVars
  <2>2. OneRowEach(listRows')
    BY <2>1 DEF OnceInv, OneRowEach
  <2>3. QED  BY <1>4, <2>1, <2>2
<1>8. ASSUME NEW r \in requests, RenameArrives(r)
      PROVE  OnceInv'
  <2>1. requests' = requests \ {r} /\ (listRows' = listRows \/ listRows' = Renamed(r))
    BY <1>8 DEF RenameArrives, Arrived
  <2>2. \A row \in listRows : [row EXCEPT !.name = r.name].list = row.list
    BY DEF ScreenTypes, ScreenTypeOK, ListRow
  <2>3. ASSUME NEW row \in Renamed(r), NEW other \in Renamed(r), row.list = other.list
        PROVE  row = other
    <3>1. PICK before \in listRows :
            row = IF before.list = RenamedRow(r) THEN [before EXCEPT !.name = r.name] ELSE before
      BY DEF Renamed
    <3>2. PICK old \in listRows :
            other = IF old.list = RenamedRow(r) THEN [old EXCEPT !.name = r.name] ELSE old
      BY DEF Renamed
    <3>3. before.list = old.list
      BY <2>2, <2>3, <3>1, <3>2
    <3>4. QED  BY <3>1, <3>2, <3>3 DEF OnceInv, OneRowEach
  <2>4. OneRowEach(listRows')
    BY <2>1, <2>3 DEF OnceInv, OneRowEach
  <2>5. QED  BY <1>4, <2>1, <2>4
<1>9. ASSUME NEW l \in Lists, Elsewhere(l)
      PROVE  OnceInv'
  BY <1>9 DEF Elsewhere, listVars, OnceInv, OneRowEach
<1>10. CASE Click
  BY <1>1, <1>2, <1>10, ClickSteps
<1>11. CASE Network
  BY <1>3, <1>7, <1>11 DEF Network
<1>12. CASE Arrival
  BY <1>5, <1>6, <1>7, <1>8, <1>12 DEF Arrival
<1>13. QED  BY <1>1, <1>9, <1>10, <1>11, <1>12 DEF ScreenNext

\* An answer about the lists still tells what the server has, when nothing could change it meanwhile.
AnswerTells(R) ==
  /\ {row.list : row \in R} \ altered = ServerLists \ altered
  /\ \A row \in R : row.list \notin altered => row.name = server[row.list].name
AnswerInv == \A r \in requests : r.op = "lists" /\ Succeeded(r) => AnswerTells(r.answer.rows)

LEMMA TellsStill ==
  ASSUME NEW R \in SUBSET ListRow, AnswerTells(R), altered \subseteq altered',
         \A l \in Lists \ altered' : server'[l].status = server[l].status /\ server'[l].name = server[l].name
  PROVE  AnswerTells(R)'
BY DEF AnswerTells, ServerLists, ListRow

LEMMA AnswerKept ==
  ASSUME ScreenTypes, LoadInv, AnswerInv, [ScreenNext]_trackingVars, ~raced, ~raced'
  PROVE  AnswerInv'
<1>0. \A r \in requests : r.answer.rows \in SUBSET ListRow
  BY DEF ScreenTypes, ScreenTypeOK, PageRequest, PageAnswer
<1>1. ASSUME requests' \subseteq requests, altered \subseteq altered',
             \A l \in Lists \ altered' : server'[l].status = server[l].status /\ server'[l].name = server[l].name
      PROVE  AnswerInv'
  BY <1>0, <1>1, TellsStill DEF AnswerInv, Succeeded
<1>2. CASE UNCHANGED trackingVars \/ Quiet
  BY <1>1, <1>2 DEF trackingVars, Quiet, ghostVars
<1>3. ASSUME NEW q \in PageRequest, Asks(q)
      PROVE  AnswerInv'
  <2>1. ~Succeeded(q) /\ requests' = requests \cup {q} /\ UNCHANGED <<server, altered>>
    BY <1>3, AskedPends DEF Asks
  <2>2. QED  BY <1>0, <2>1, TellsStill DEF AnswerInv, Succeeded
<1>4. ASSUME NEW r \in requests, Serve(r) \/ Breaks(r)
      PROVE  AnswerInv'
  <2>1. PICK q \in PageRequest : /\ q.id = r.id /\ q.op = r.op /\ requests' = (requests \ {r}) \cup {q} /\ Effect(r, q)
    BY <1>4, AnswerEffects
  <2>2. altered' = altered
    BY <1>4, AnswerEffects DEF ghostVars
  <2>3. CASE r.op = "lists"
    <3>1. \A s \in requests' : s.op = "lists" => s = q
      BY <2>1, <2>3 DEF LoadInv
    <3>2. Succeeded(q) => ListsTold(r, q)
      BY <2>1, <2>3 DEF Effect, Refused, Created, NamedAnew, Deleted, Detailed, Removed
    <3>3. ASSUME ListsTold(r, q)
          PROVE  AnswerTells(q.answer.rows)'
      <4>1. q.answer.rows = {[list |-> m, name |-> server[m].name, from |-> r.id] : m \in ServerLists} /\ server' = server
        BY <3>3 DEF ListsTold
      <4>2. {row.list : row \in q.answer.rows} = ServerLists
        <5>1. \A row \in q.answer.rows : row.list \in ServerLists
          BY <4>1
        <5>2. ASSUME NEW m \in ServerLists
              PROVE  \E row \in q.answer.rows : row.list = m
          <6>1. [list |-> m, name |-> server[m].name, from |-> r.id] \in q.answer.rows
            BY <4>1
          <6>2. QED  BY <6>1
        <5>3. QED  BY <5>1, <5>2
      <4>3. \A row \in q.answer.rows : row.name = server[row.list].name
        BY <4>1
      <4>4. QED  BY <2>2, <4>1, <4>2, <4>3 DEF AnswerTells, ServerLists
    <3>4. QED  BY <3>1, <3>2, <3>3 DEF AnswerInv, Succeeded
  <2>4. CASE r.op # "lists" /\ Busy("lists")
    <3>1. r.op \notin OfLists
      BY <2>4 DEF LoadInv, Busy
    <3>2. Refused(r, q) \/ Detailed(r, q) \/ Removed(r, q)
      BY <2>1, <2>4, <3>1 DEF Effect, ListsTold, Created, NamedAnew, Deleted, OfLists
    <3>3. \A l \in Lists : server'[l].status = server[l].status /\ server'[l].name = server[l].name
      BY <3>2 DEF Refused, Detailed, Removed, ServerLists, ScreenTypes, ScreenTypeOK, ListState
    <3>4. QED  BY <1>0, <2>1, <2>2, <2>4, <3>3, TellsStill DEF AnswerInv, Succeeded
  <2>5. CASE r.op # "lists" /\ ~Busy("lists")
    BY <2>1, <2>5 DEF Busy, AnswerInv
  <2>6. QED  BY <2>3, <2>4, <2>5
<1>5. ASSUME NEW r \in requests, Rejects(r) \/ Arrival
      PROVE  AnswerInv'
  <2>1. altered \subseteq altered'
    BY <1>5 DEF Rejects, Arrival, ListsArrive, CreateArrives, RenameArrives, DeleteArrives, DetailArrives, RemoveArrives, Arrived,
                ghostVars
  <2>2. QED  BY <1>1, <1>5, <2>1, OneLess
<1>6. ASSUME NEW l \in Lists, Elsewhere(l)
      PROVE  AnswerInv'
  BY <1>1, <1>6, ElsewherePends
<1>7. CASE Click
  BY <1>2, <1>3, <1>7, ClickSteps
<1>8. CASE Network
  BY <1>4, <1>5, <1>8 DEF Network
<1>9. CASE Arrival
  BY <1>5, <1>9 DEF Arrival
<1>10. QED  BY <1>2, <1>6, <1>7, <1>8, <1>9 DEF ScreenNext

\* What the rows say of a list, and what the answers that are on their way will make of it.
RowsOf(l) ==
  /\ server[l].status = "live" /\ ~Pending("create", l) => l \in Shown
  /\ server[l].status = "gone" /\ l \in Shown => Pending("delete", l)
NamesOf(l) ==
  \A row \in listRows : row.list = l =>
    \/ row.name = server[l].name
    \/ server[l].status = "gone"
    \/ \E r \in requests : r.op = "rename" /\ Succeeded(r) /\ r.list = l /\ r.name = server[l].name
AnswersOf(l) ==
  /\ \A r \in requests : r.op = "create" /\ Succeeded(r) /\ r.list = l => server[l].status = "live" /\ server[l].name = r.name
  /\ \A r \in requests : r.op = "rename" /\ Succeeded(r) /\ r.list = l => r.name = server[l].name \/ server[l].status = "gone"
Told(l) == RowsOf(l) /\ NamesOf(l) /\ AnswersOf(l)
RowsInv == ~loading /\ ~failed => \A l \in Lists \ altered : Told(l)

LEMMA RowsKept ==
  ASSUME ScreenTypes, LoadInv, UnseenInv, AnswerInv, RowsInv, [ScreenNext]_trackingVars, ~raced, ~raced'
  PROVE  RowsInv'
<1> SUFFICES ASSUME ~loading', ~failed', NEW l \in Lists, l \notin altered'
             PROVE  Told(l)'
  BY DEF RowsInv
<1>1. ASSUME ~loading, ~failed, l \notin altered
      PROVE  Told(l)
  BY <1>1 DEF RowsInv
<1>2. ASSUME Told(l), server'[l].status = server[l].status, server'[l].name = server[l].name, listRows' = listRows,
             requests' \subseteq requests,
             \A op \in {"create", "rename", "delete"}, r \in requests \ requests' : r.op = op /\ Succeeded(r) => r.list # l
      PROVE  Told(l)'
  <2>1. \A op \in {"create", "delete"} : Pending(op, l) <=> Pending(op, l)'
    BY <1>2 DEF Pending, Succeeded
  <2>2. RowsOf(l)'
    BY <1>2, <2>1 DEF Told, RowsOf, Shown
  <2>3. NamesOf(l)'
    <3>1. SUFFICES ASSUME NEW row \in listRows, row.list = l, row.name # server[l].name, server[l].status # "gone"
                   PROVE  \E r \in requests' : r.op = "rename" /\ Succeeded(r) /\ r.list = l /\ r.name = server[l].name
      BY <1>2 DEF NamesOf, Succeeded
    <3>2. PICK r \in requests : r.op = "rename" /\ Succeeded(r) /\ r.list = l /\ r.name = server[l].name
      BY <1>2, <3>1 DEF Told, NamesOf
    <3>3. r \in requests'
      BY <1>2, <3>2
    <3>4. QED  BY <3>2, <3>3
  <2>4. AnswersOf(l)'
    BY <1>2 DEF Told, AnswersOf, Succeeded
  <2>5. QED  BY <2>2, <2>3, <2>4 DEF Told
<1>3. CASE UNCHANGED trackingVars \/ Quiet
  <2>1. UNCHANGED <<server, listRows, loading, failed, requests, altered>>
    BY <1>3 DEF trackingVars, Quiet, listVars, ghostVars
  <2>2. QED  BY <1>1, <1>2, <2>1
<1>4. ASSUME NEW q \in PageRequest, Asks(q)
      PROVE  Told(l)'
  <2>1. ~Succeeded(q) /\ requests' = requests \cup {q} /\ UNCHANGED <<server, listRows, altered>>
    BY <1>4, AskedPends DEF Asks
  <2>2. Told(l)
    BY <1>1, <1>4, <2>1 DEF Asks
  <2>3. \A op : Pending(op, l)' <=> Pending(op, l)
    BY <1>4, AskedPends
  <2>4. QED  BY <2>1, <2>2, <2>3 DEF Told, RowsOf, NamesOf, AnswersOf, Succeeded, Shown
<1>5. ASSUME NEW r \in requests, Serve(r) \/ Breaks(r)
      PROVE  Told(l)'
  <2>1. PICK q \in PageRequest : /\ q.id = r.id /\ q.op = r.op /\ q.name = r.name /\ requests' = (requests \ {r}) \cup {q}
                                 /\ Effect(r, q)
    BY <1>5, AnswerEffects
  <2>2. UNCHANGED <<listRows, loading, failed, altered>> /\ ~Succeeded(r) /\ r.list \in Lists /\ q.list \in Lists
        /\ UNCHANGED <<listVars, panelVars, dialogVars>>
    BY <1>5, AnswerEffects DEF listVars, ghostVars, PageRequest
  <2>3. Told(l)
    BY <1>1, <2>2
  <2>4. \A op : Pending(op, l)' <=> Pending(op, l) \/ (q.op = op /\ Succeeded(q) /\ q.list = l)
    BY <2>1, <2>2, AnsweredPends
  <2>5. ASSUME r.op \in {"rename", "delete"}, q.list = l
        PROVE  ~Pending("create", l) /\ q.list = r.list
    BY <2>1, <2>5, Moves DEF UnseenInv, Unseen, Targeted
  <2>6. ASSUME server'[l].status = server[l].status, server'[l].name = server[l].name,
               q.op \in {"create", "rename", "delete"} /\ Succeeded(q) => q.list # l
        PROVE  Told(l)'
    <3>1. RowsOf(l)'
      BY <2>2, <2>3, <2>4, <2>6 DEF Told, RowsOf, Shown
    <3>2. NamesOf(l)'
      BY <2>1, <2>2, <2>3, <2>6 DEF Told, NamesOf, Succeeded
    <3>3. AnswersOf(l)'
      BY <2>1, <2>3, <2>6 DEF Told, AnswersOf, Succeeded
    <3>4. QED  BY <3>1, <3>2, <3>3 DEF Told
  <2>7. CASE Refused(r, q) \/ ListsTold(r, q) \/ Detailed(r, q)
    BY <2>1, <2>6, <2>7 DEF Refused, ListsTold, Detailed
  <2>8. CASE Removed(r, q)
    BY <2>1, <2>2, <2>6, <2>8 DEF Removed, ScreenTypes, ScreenTypeOK, ListState
  <2>9. CASE Created(r, q) \/ NamedAnew(r, q) \/ Deleted(r, q)
    <3>1. CASE q.list # l
      BY <2>1, <2>2, <2>6, <2>9, <3>1 DEF Created, NamedAnew, Deleted, ScreenTypes, ScreenTypeOK
    <3>2. CASE Created(r, q) /\ q.list = l
      <4>1. server[l].status = "unborn" /\ server'[l].status = "live" /\ server'[l].name = q.name /\ q.op = "create" /\ Succeeded(q)
        BY <2>1, <3>2 DEF Created, ScreenTypes, ScreenTypeOK
      <4>2. l \notin Shown /\ ~Targeted(l)
        BY <4>1 DEF UnseenInv, Unseen
      <4>3. \A s \in requests : s.op = "rename" => s.list # l
        BY <4>2 DEF Targeted
      <4>4. \A s \in requests : s.op = "create" => s = r
        BY <2>1, <4>1 DEF ScreenTypes, ScreenTypeOK, Guarded
      <4>5. RowsOf(l)' /\ NamesOf(l)'
        BY <2>2, <2>4, <3>2, <4>1, <4>2 DEF RowsOf, NamesOf, Shown
      <4>6. AnswersOf(l)'
        BY <2>1, <4>1, <4>3, <4>4 DEF AnswersOf, Succeeded
      <4>7. QED  BY <4>5, <4>6 DEF Told
    <3>3. CASE NamedAnew(r, q) /\ q.list = l
      <4>1. server'[l].status = server[l].status /\ server'[l].name = q.name /\ q.op = "rename" /\ Succeeded(q)
            /\ server[l].status = "live"
        BY <2>1, <3>3 DEF NamedAnew, ServerLists, ScreenTypes, ScreenTypeOK, ListState
      <4>2. ~Pending("create", l)
        BY <2>1, <2>5, <3>3 DEF NamedAnew
      <4>3. \A s \in requests : s.op = "rename" => s = r
        BY <2>1, <4>1 DEF ScreenTypes, ScreenTypeOK, Guarded
      <4>4. RowsOf(l)'
        BY <2>2, <2>3, <2>4, <4>1 DEF Told, RowsOf, Shown
      <4>5. q \in requests' /\ q.op = "rename" /\ Succeeded(q)' /\ q.list = l /\ q.name = server'[l].name
        BY <2>1, <3>3, <4>1 DEF Succeeded
      <4>6. NamesOf(l)'
        BY <4>5 DEF NamesOf
      <4>7. AnswersOf(l)'
        BY <2>1, <4>1, <4>2, <4>3 DEF AnswersOf, Succeeded, Pending
      <4>8. QED  BY <4>4, <4>6, <4>7 DEF Told
    <3>4. CASE Deleted(r, q) /\ q.list = l
      <4>1. server'[l].status = "gone" /\ q.op = "delete" /\ Succeeded(q)
        BY <2>1, <2>2, <3>4 DEF Deleted, Gone, ScreenTypes, ScreenTypeOK
      <4>2. ~Pending("create", l)
        BY <2>1, <2>5, <3>4 DEF Deleted
      <4>3. RowsOf(l)' /\ NamesOf(l)'
        BY <2>2, <2>4, <3>4, <4>1 DEF RowsOf, NamesOf
      <4>4. AnswersOf(l)'
        BY <2>1, <4>1, <4>2 DEF AnswersOf, Succeeded, Pending
      <4>5. QED  BY <4>3, <4>4 DEF Told
    <3>5. QED  BY <2>9, <3>1, <3>2, <3>3, <3>4
  <2>10. QED  BY <2>1, <2>7, <2>8, <2>9 DEF Effect
<1>6. ASSUME NEW r \in requests, Rejects(r)
      PROVE  Told(l)'
  <2>1. /\ UNCHANGED <<server, listRows, loading, failed>> /\ requests' = requests \ {r}
        /\ altered' = IF Succeeded(r) THEN altered \cup {r.list} ELSE altered
    BY <1>6 DEF Rejects, listVars
  <2>2. l \notin altered /\ (Succeeded(r) => r.list # l)
    BY <2>1
  <2>3. QED  BY <1>1, <1>2, <2>1, <2>2
<1>7. ASSUME NEW m \in Lists, Elsewhere(m)
      PROVE  Told(l)'
  <2>1. UNCHANGED <<listVars, requests>> /\ altered' = altered \cup {m}
    BY <1>7, ElsewherePends
  <2>2. l \notin altered /\ server'[l] = server[l]
    BY <1>7, <2>1, ElsewherePends
  <2>3. QED  BY <1>1, <1>2, <2>1, <2>2 DEF listVars
<1>8. ASSUME NEW r \in requests, ListsArrive(r)
      PROVE  Told(l)'
  <2>1. /\ r.op = "lists" /\ requests' = requests \ {r} /\ UNCHANGED <<server, altered>>
        /\ listRows' = r.answer.rows /\ Succeeded(r) /\ UNCHANGED raced
    BY <1>8 DEF ListsArrive, Arrived, ghostVars
  <2>2. AnswerTells(r.answer.rows)
    BY <2>1 DEF AnswerInv
  <2>3. \A s \in requests : s.op \notin {"create", "rename", "delete"}
    BY <2>1 DEF LoadInv, Busy, OfLists
  <2>4. l \in Shown' <=> server'[l].status = "live"
    BY <2>1, <2>2 DEF AnswerTells, Shown, ServerLists
  <2>5. NamesOf(l)'
    BY <2>1, <2>2 DEF AnswerTells, NamesOf
  <2>6. RowsOf(l)' /\ AnswersOf(l)'
    BY <2>1, <2>3, <2>4 DEF RowsOf, AnswersOf
  <2>7. QED  BY <2>5, <2>6 DEF Told
<1>9. ASSUME NEW r \in requests, CreateArrives(r)
      PROVE  Told(l)'
  <2>1. /\ r.op = "create" /\ requests' = requests \ {r} /\ UNCHANGED <<server, altered, loading, failed>>
        /\ listRows' = IF Succeeded(r) THEN listRows \cup {[list |-> r.list, name |-> r.name, from |-> r.id]} ELSE listRows
    BY <1>9 DEF CreateArrives, Arrived, ghostVars
  <2>2. Told(l)
    BY <1>1, <2>1
  <2>3. CASE ~Succeeded(r) \/ r.list # l
    <3>1. \A op : Pending(op, l)' <=> Pending(op, l)
      BY <2>1, <2>3 DEF Pending, Succeeded
    <3>2. \A row : row \in listRows' /\ row.list = l <=> row \in listRows /\ row.list = l
      BY <2>1, <2>3
    <3>3. l \in Shown' <=> l \in Shown
      BY <3>2 DEF Shown
    <3>4. RowsOf(l)'
      BY <2>1, <2>2, <3>1, <3>3 DEF Told, RowsOf
    <3>5. NamesOf(l)'
      BY <2>1, <2>2, <3>2 DEF Told, NamesOf, Succeeded
    <3>6. AnswersOf(l)'
      BY <2>1, <2>2 DEF Told, AnswersOf, Succeeded
    <3>7. QED  BY <3>4, <3>5, <3>6 DEF Told
  <2>4. CASE Succeeded(r) /\ r.list = l
    <3>1. server[l].status = "live" /\ server[l].name = r.name
      BY <2>1, <2>2, <2>4 DEF Told, AnswersOf
    <3>2. l \notin Shown
      BY <2>1, <2>4 DEF UnseenInv, Unseen, Pending
    <3>3. \A s \in requests' : s.op # "create"
      BY <2>1 DEF ScreenTypes, ScreenTypeOK, Guarded
    <3>4. \A row \in listRows' : row.list = l => row = [list |-> r.list, name |-> r.name, from |-> r.id]
      BY <2>1, <2>4, <3>2 DEF Shown
    <3>5. [list |-> r.list, name |-> r.name, from |-> r.id] \in listRows'
      BY <2>1, <2>4
    <3>6. l \in Shown'
      BY <2>4, <3>5 DEF Shown
    <3>7. RowsOf(l)' /\ NamesOf(l)'
      BY <2>1, <3>1, <3>4, <3>6 DEF RowsOf, NamesOf
    <3>8. AnswersOf(l)'
      BY <2>1, <2>2, <3>3 DEF Told, AnswersOf, Succeeded
    <3>9. QED  BY <3>7, <3>8 DEF Told
  <2>5. QED  BY <2>3, <2>4
<1>10. ASSUME NEW r \in requests, RenameArrives(r)
       PROVE  Told(l)'
  <2>1. /\ r.op = "rename" /\ requests' = requests \ {r} /\ UNCHANGED <<server, altered, loading, failed>>
        /\ IF Succeeded(r) THEN listRows' = Renamed(r) ELSE listRows' = listRows
    BY <1>10 DEF RenameArrives, Arrived, ghostVars
  <2>2. Told(l)
    BY <1>1, <2>1
  <2>3. CASE ~Succeeded(r)
    BY <1>2, <2>1, <2>2, <2>3
  <2>4. CASE Succeeded(r)
    <3>1. ASSUME NEW row \in listRows
          PROVE  \E after \in listRows' : after.list = row.list
      <4> DEFINE after == IF row.list = RenamedRow(r) THEN [row EXCEPT !.name = r.name] ELSE row
      <4>1. after \in listRows'
        BY <2>1, <2>4 DEF Renamed
      <4>2. after.list = row.list
        BY DEF ScreenTypes, ScreenTypeOK, ListRow
      <4>3. QED  BY <4>1, <4>2
    <3>2. ASSUME NEW row \in listRows'
          PROVE  \E before \in listRows : /\ before.list = row.list
                                          /\ row.name = IF row.list = r.list THEN r.name ELSE before.name
      BY <2>1, <2>4, <3>2 DEF Renamed, RenamedRow, ScreenTypes, ScreenTypeOK, ListRow
    <3>3. Shown' = Shown
      BY <3>1, <3>2 DEF Shown
    <3>4. \A op \in {"create", "delete"} : Pending(op, l)' <=> Pending(op, l)
      BY <2>1 DEF Pending, Succeeded
    <3>5. RowsOf(l)'
      BY <2>1, <2>2, <3>3, <3>4 DEF Told, RowsOf
    <3>6. AnswersOf(l)'
      BY <2>1, <2>2 DEF Told, AnswersOf, Succeeded
    <3>7. NamesOf(l)'
      <4>1. SUFFICES ASSUME NEW row \in listRows', row.list = l, row.name # server[l].name, server[l].status # "gone"
                     PROVE  \E s \in requests' : s.op = "rename" /\ Succeeded(s) /\ s.list = l /\ s.name = server[l].name
        BY <2>1 DEF NamesOf, Succeeded
      <4>2. PICK before \in listRows : /\ before.list = row.list
                                       /\ row.name = IF row.list = r.list THEN r.name ELSE before.name
        BY <3>2
      <4>3. r.list # l
        BY <2>1, <2>2, <2>4, <4>1, <4>2 DEF Told, AnswersOf
      <4>4. PICK s \in requests : s.op = "rename" /\ Succeeded(s) /\ s.list = l /\ s.name = server[l].name
        BY <2>2, <4>1, <4>2, <4>3 DEF Told, NamesOf
      <4>5. QED  BY <2>1, <4>3, <4>4
    <3>8. QED  BY <3>5, <3>6, <3>7 DEF Told
  <2>5. QED  BY <2>3, <2>4
<1>11. ASSUME NEW r \in requests, DeleteArrives(r)
       PROVE  Told(l)'
  <2>1. /\ r.op = "delete" /\ requests' = requests \ {r} /\ UNCHANGED <<server, altered, loading, failed>>
        /\ listRows' = IF Succeeded(r) THEN {row \in listRows : row.list # r.list} ELSE listRows
    BY <1>11 DEF DeleteArrives, Arrived, ghostVars
  <2>2. Told(l)
    BY <1>1, <2>1
  <2>3. CASE ~Succeeded(r)
    BY <1>2, <2>1, <2>2, <2>3
  <2>4. CASE Succeeded(r) /\ r.list # l
    <3>1. \A op : Pending(op, l)' <=> Pending(op, l)
      BY <2>1, <2>4 DEF Pending, Succeeded
    <3>2. \A row : row \in listRows' /\ row.list = l <=> row \in listRows /\ row.list = l
      BY <2>1, <2>4
    <3>3. l \in Shown' <=> l \in Shown
      BY <3>2 DEF Shown
    <3>4. RowsOf(l)'
      BY <2>1, <2>2, <3>1, <3>3 DEF Told, RowsOf
    <3>5. NamesOf(l)'
      BY <2>1, <2>2, <3>2 DEF Told, NamesOf, Succeeded
    <3>6. AnswersOf(l)'
      BY <2>1, <2>2 DEF Told, AnswersOf, Succeeded
    <3>7. QED  BY <3>4, <3>5, <3>6 DEF Told
  <2>5. CASE Succeeded(r) /\ r.list = l
    <3>1. server[l].status = "gone"
      BY <2>1, <2>5 DEF LoadInv
    <3>2. l \notin Shown'
      BY <2>1, <2>5 DEF Shown
    <3>3. RowsOf(l)' /\ NamesOf(l)' /\ AnswersOf(l)'
      BY <2>1, <2>2, <3>1, <3>2 DEF Told, RowsOf, NamesOf, AnswersOf, Succeeded
    <3>4. QED  BY <3>3 DEF Told
  <2>6. QED  BY <2>3, <2>4, <2>5
<1>12. ASSUME NEW r \in requests, DetailArrives(r) \/ RemoveArrives(r)
       PROVE  Told(l)'
  <2>1. r.op \in OfMembers /\ requests' = requests \ {r} /\ UNCHANGED <<server, altered, loading, failed, listRows>>
    BY <1>12 DEF DetailArrives, RemoveArrives, OfMembers, Arrived, ghostVars, listVars
  <2>2. Told(l)
    BY <1>1, <2>1
  <2>3. QED  BY <1>2, <2>1, <2>2 DEF OfMembers
<1>13. CASE Click
  BY <1>3, <1>4, <1>13, ClickSteps
<1>14. CASE Network
  BY <1>5, <1>6, <1>14 DEF Network
<1>15. CASE Arrival
  BY <1>8, <1>9, <1>10, <1>11, <1>12, <1>15 DEF Arrival
<1>16. QED  BY <1>3, <1>7, <1>13, <1>14, <1>15 DEF ScreenNext

\* Of the lists that were there at the start none is touched before they are loaded; only they have members.
Untouched(l) == l \notin Shown /\ ~Targeted(l) /\ (l \notin altered => server[l].status = "live")
StartInv ==
  /\ \A l \in Existing : server[l].status # "unborn"
  /\ \A l \in Lists \ Existing : server[l].members = {}
  /\ \A r \in requests : r.op = "create" /\ Succeeded(r) => r.list \notin Existing
  /\ Busy("lists") \/ failed => \A l \in Existing : Untouched(l)
  /\ \A l \in Existing \ altered : server[l].status = "gone" /\ l \in Shown => Pending("delete", l)

LEMMA StartKept ==
  ASSUME ScreenTypes, LoadInv, StartInv, [ScreenNext]_trackingVars
  PROVE  StartInv'
<1>1. ASSUME UNCHANGED <<server, listVars>>, requests' \subseteq requests, altered \subseteq altered',
             \A r \in requests \ requests' : r.op = "delete" /\ Succeeded(r) => r.list \in altered',
             \A l \in Existing : Targeted(l)' => Targeted(l) \/ l \in Shown
      PROVE  StartInv'
  <2>1. Busy("lists")' => Busy("lists")
    BY <1>1 DEF Busy
  <2>2. \A l \in Existing \ altered' : Pending("delete", l) => Pending("delete", l)'
    BY <1>1 DEF Pending, Succeeded
  <2>3. \A l \in Existing : Untouched(l) => Untouched(l)'
    BY <1>1 DEF Untouched, Shown, listVars
  <2>4. QED  BY <1>1, <2>1, <2>2, <2>3 DEF StartInv, Succeeded, Shown, listVars
<1>2. CASE UNCHANGED trackingVars
  <2>1. \A l : Targeted(l)' <=> Targeted(l)
    BY <1>2 DEF trackingVars, panelVars, dialogVars, Targeted
  <2>2. QED  BY <1>1, <1>2, <2>1 DEF trackingVars, ghostVars
<1>3. CASE Quiet
  <2>1. \A l \in Existing : Targeted(l)' => Targeted(l) \/ l \in Shown
    BY <1>3 DEF Quiet, Targeted, panelVars
  <2>2. QED  BY <1>1, <1>3, <2>1 DEF Quiet, ghostVars
<1>4. ASSUME NEW q \in PageRequest, Asks(q)
      PROVE  StartInv'
  <2>1. ~Succeeded(q) /\ requests' = requests \cup {q} /\ UNCHANGED <<server, listRows, altered>> /\ Shown' = Shown
    BY <1>4, AskedPends DEF Asks
  <2>2. \A l \in Existing : Targeted(l)' => Targeted(l) \/ l \in Shown
    BY <1>4, AskedPends
  <2>3. Busy("lists")' \/ failed' => Busy("lists") \/ failed
    BY <1>4, <2>1 DEF Asks, Busy
  <2>4. \A l \in Existing : Untouched(l) => Untouched(l)'
    BY <2>1, <2>2 DEF Untouched
  <2>5. \A l : Pending("delete", l)' <=> Pending("delete", l)
    BY <1>4, AskedPends
  <2>6. QED  BY <2>1, <2>3, <2>4, <2>5 DEF StartInv, Succeeded
<1>5. ASSUME NEW r \in requests, Serve(r) \/ Breaks(r)
      PROVE  StartInv'
  <2>1. PICK q \in PageRequest : /\ q.id = r.id /\ q.op = r.op /\ requests' = (requests \ {r}) \cup {q} /\ Effect(r, q)
    BY <1>5, AnswerEffects
  <2>2. UNCHANGED <<listVars, panelVars, dialogVars, ghostVars>> /\ ~Succeeded(r) /\ r.list \in Lists /\ q.list \in Lists
    BY <1>5, AnswerEffects DEF PageRequest
  <2>3. /\ \A op, l : Pending(op, l)' <=> Pending(op, l) \/ (q.op = op /\ Succeeded(q) /\ q.list = l)
        /\ \A l \in Lists : Targeted(l)' <=> Targeted(l)
        /\ Shown' = Shown
    BY <2>1, <2>2, AnsweredPends
  <2>4. \A l \in Lists : /\ server'[l].status = "unborn" => server[l].status = "unborn"
                         /\ server'[l].status = "gone" /\ server[l].status # "gone" => r.op = "delete" /\ Succeeded(q) /\ q.list = l
                         /\ server'[l].members \subseteq server[l].members
                              \/ (server[l].status = "unborn" /\ server'[l].members = {})
    BY <2>1, Moves
  <2>5. q.op = "create" /\ Succeeded(q) => q.list \notin Existing
    BY <2>1, Moves DEF Created, StartInv
  <2>6. \A s \in requests' : s.op = "create" /\ Succeeded(s) => s.list \notin Existing
    BY <2>1, <2>5 DEF StartInv
  <2>7. Busy("lists")' => Busy("lists")
    BY <2>1 DEF Busy
  <2>8. ASSUME NEW l \in Existing, Untouched(l)
        PROVE  Untouched(l)'
    <3>1. r.op = "delete" => q.list # l
      BY <2>1, <2>8, Moves DEF Untouched, Targeted
    <3>2. server[l].status \in {"live", "gone"} /\ server'[l].status \in {"live", "gone", "unborn"}
      BY <2>1, NetworkTypes, <1>5 DEF StartInv, ScreenTypes, ScreenTypeOK, ListState
    <3>3. QED  BY <2>2, <2>3, <2>4, <2>8, <3>1, <3>2 DEF Untouched, ghostVars
  <2>9. ASSUME NEW l \in Existing \ altered', server'[l].status = "gone", l \in Shown'
        PROVE  Pending("delete", l)'
    BY <2>1, <2>2, <2>3, <2>4, <2>9 DEF StartInv, ghostVars
  <2>10. QED  BY <2>2, <2>4, <2>6, <2>7, <2>8, <2>9 DEF StartInv, Succeeded, listVars
<1>6. ASSUME NEW r \in requests, Rejects(r)
      PROVE  StartInv'
  <2>1. requests' = requests \ {r} /\ UNCHANGED <<server, listVars>> /\ (\A l \in Lists : Targeted(l)' => Targeted(l))
    BY <1>6, ArrivedPends DEF Rejects
  <2>2. altered \subseteq altered' /\ (Succeeded(r) => r.list \in altered')
    BY <1>6 DEF Rejects
  <2>3. QED  BY <1>1, <2>1, <2>2
<1>7. ASSUME NEW m \in Lists, Elsewhere(m)
      PROVE  StartInv'
  <2>1. /\ \A op, l : Pending(op, l)' <=> Pending(op, l)
        /\ \A l \in Lists : Targeted(l)' <=> Targeted(l)
        /\ \A l \in Lists : server'[l].status = "unborn" => server[l].status = "unborn"
        /\ \A l \in Lists \ {m} : server'[l] = server[l]
        /\ \A l \in Lists : server'[l].members \subseteq server[l].members
        /\ UNCHANGED <<listVars, requests>> /\ altered' = altered \cup {m}
    BY <1>7, ElsewherePends
  <2>2. \A l \in Existing : Untouched(l) => Untouched(l)'
    BY <2>1 DEF Untouched, Shown, listVars
  <2>3. QED  BY <2>1, <2>2 DEF StartInv, Succeeded, Busy, Shown, listVars
<1>8. ASSUME NEW r \in requests, ListsArrive(r)
      PROVE  StartInv'
  <2>1. /\ r.op = "lists" /\ requests' = requests \ {r} /\ UNCHANGED <<server, altered, dialogVars>>
        /\ \/ Succeeded(r) /\ UNCHANGED failed
           \/ UNCHANGED listRows
    BY <1>8 DEF ListsArrive, Arrived, ghostVars
  <2>2. \A l \in Existing : Untouched(l)
    BY <2>1 DEF StartInv, Busy
  <2>3. \A l \in Existing : Targeted(l)' => Targeted(l)
    BY <1>8, ArrivedPends
  <2>4. \A op \in {"create", "delete"} : \A l : Pending(op, l)' <=> Pending(op, l)
    BY <2>1 DEF Pending, Succeeded
  <2>5. CASE Succeeded(r) /\ UNCHANGED failed
    <3>1. ~failed /\ ~Busy("lists")'
      BY <2>1, <2>5 DEF LoadInv, Busy
    <3>2. \A l \in Existing \ altered : server[l].status = "live"
      BY <2>2 DEF Untouched
    <3>3. QED  BY <2>1, <2>5, <3>1, <3>2 DEF StartInv, Succeeded
  <2>6. CASE UNCHANGED listRows
    <3>1. Shown' = Shown
      BY <2>6 DEF Shown
    <3>2. \A l \in Existing : Untouched(l)'
      BY <2>1, <2>2, <2>3, <3>1 DEF Untouched
    <3>3. QED  BY <2>1, <2>4, <3>1, <3>2 DEF StartInv, Succeeded
  <2>7. QED  BY <2>1, <2>5, <2>6
<1>9. ASSUME NEW r \in requests, CreateArrives(r) \/ RenameArrives(r) \/ DeleteArrives(r) \/ DetailArrives(r) \/ RemoveArrives(r)
      PROVE  StartInv'
  <2>1. /\ requests' = requests \ {r} /\ UNCHANGED <<server, altered, failed>> /\ r.list \in Lists
        /\ \A l \in Existing : Targeted(l)' => Targeted(l)
    BY <1>9, ArrivedPends DEF CreateArrives, RenameArrives, DeleteArrives, DetailArrives, RemoveArrives, Arrived, listVars,
                              ghostVars, ScreenTypes, ScreenTypeOK, PageRequest
  <2>2. Busy("lists")' => Busy("lists")
    BY <2>1 DEF Busy
  <2>3. \A l \in Existing : l \in Shown' => l \in Shown /\ ~(DeleteArrives(r) /\ Succeeded(r) /\ r.list = l)
    <3>1. CASE CreateArrives(r)
      <4>1. r.op = "create" /\ (listRows' = listRows \/ (Succeeded(r) /\ listRows' = listRows \cup {[list |-> r.list, name |-> r.name, from |-> r.id]}))
        BY <3>1 DEF CreateArrives
      <4>2. Succeeded(r) => r.list \notin Existing
        BY <4>1 DEF StartInv
      <4>3. ~DeleteArrives(r)
        BY <4>1 DEF DeleteArrives
      <4>4. QED  BY <4>1, <4>2, <4>3 DEF Shown
    <3>2. CASE RenameArrives(r)
      <4>1. listRows' = listRows \/ listRows' = Renamed(r)
        BY <3>2 DEF RenameArrives
      <4>2. \A row \in Renamed(r) : \E before \in listRows : before.list = row.list
        BY DEF Renamed, ScreenTypes, ScreenTypeOK, ListRow
      <4>3. ~DeleteArrives(r)
        BY <3>2 DEF DeleteArrives, RenameArrives
      <4>4. QED  BY <4>1, <4>2, <4>3 DEF Shown
    <3>3. CASE DeleteArrives(r)
      BY <3>3 DEF DeleteArrives, Shown
    <3>4. CASE DetailArrives(r) \/ RemoveArrives(r)
      BY <3>4 DEF DetailArrives, RemoveArrives, DeleteArrives, Shown, listVars
    <3>5. QED  BY <1>9, <3>1, <3>2, <3>3, <3>4
  <2>4. \A l \in Existing : Untouched(l) => Untouched(l)'
    BY <2>1, <2>3 DEF Untouched
  <2>5. ASSUME NEW l \in Existing \ altered', server'[l].status = "gone", l \in Shown'
        PROVE  Pending("delete", l)'
    <3>1. Pending("delete", l)
      BY <2>1, <2>3, <2>5 DEF StartInv
    <3>2. r.op = "delete" /\ Succeeded(r) => r.list # l
      BY <1>9, <2>3, <2>5 DEF CreateArrives, RenameArrives, DetailArrives, RemoveArrives
    <3>3. QED  BY <2>1, <3>1, <3>2, LostPends
  <2>6. QED  BY <2>1, <2>2, <2>4, <2>5 DEF StartInv, Succeeded
<1>10. CASE Click
  BY <1>3, <1>4, <1>10, ClickSteps
<1>11. CASE Network
  BY <1>5, <1>6, <1>11 DEF Network
<1>12. CASE Arrival
  BY <1>8, <1>9, <1>12 DEF Arrival
<1>13. QED  BY <1>2, <1>7, <1>10, <1>11, <1>12 DEF ScreenNext

\* The members the panel will not show any more, once the answers are there.
Leaving == {r.key : r \in {s \in requests : s.op = "remove" /\ Succeeded(s)}}

\* Requests about members never overlap: each is about the list that is selected.
LoneInv ==
  /\ \A r, s \in requests : {r.op, s.op} \subseteq OfMembers => r = s
  /\ \A r \in requests : r.op \in OfMembers => r.list = selected \/ selected = NoList
  /\ removing # NoTarget => removing.list = selected \/ selected = NoList
  /\ \A r \in requests : r.op = "detail" => membersLoading
DetailInv ==
  \A r \in requests : r.op = "detail" /\ Succeeded(r) =>
    /\ r.list \notin Existing => r.answer.members = {}
    /\ r.list \notin altered => r.answer.members = server[r.list].members \/ server[r.list].status = "gone"
ShownInv ==
  /\ selected \in Lists \ Existing => members = {}
  /\ ~membersLoading /\ ~detailFailed /\ selected \in Lists \ altered =>
       server[selected].status = "gone" \/ members \ Leaving = server[selected].members
PanelInv == LoneInv /\ DetailInv /\ ShownInv

LEMMA PanelKept ==
  ASSUME ScreenTypes, StartInv, PanelInv, [ScreenNext]_trackingVars, ~overtaken, ~overtaken'
  PROVE  PanelInv'
<1>0. /\ \A r \in requests : r.list \in Lists /\ r \in PageRequest
      /\ "detail" \in OfMembers /\ "remove" \in OfMembers /\ \A op \in OfMembers : op \in {"detail", "remove"}
  BY DEF ScreenTypes, ScreenTypeOK, PageRequest, OfMembers
<1>1. CASE UNCHANGED trackingVars
  BY <1>1 DEF trackingVars, panelVars, dialogVars, ghostVars, PanelInv, LoneInv, DetailInv, ShownInv, Leaving, Succeeded
<1>2. CASE Quiet
  BY <1>2 DEF Quiet, panelVars, ghostVars, PanelInv, LoneInv, DetailInv, ShownInv, Leaving, Succeeded
<1>3. ASSUME NEW q \in PageRequest, Asks(q)
      PROVE  PanelInv'
  <2>1. ~Succeeded(q) /\ requests' = requests \cup {q} /\ UNCHANGED <<server, altered, dialogVars>>
    BY <1>3, AskedPends DEF Asks
  <2>2. Leaving' = Leaving /\ DetailInv'
    BY <2>1 DEF PanelInv, DetailInv, Leaving, Succeeded
  <2>3. CASE q.op = "detail"
    <3>1. /\ removing' = NoTarget /\ selected' = q.list /\ members' = {} /\ membersLoading' = TRUE
          /\ \A r \in requests : r.op \notin OfMembers
      BY <1>0, <1>3, <2>1, <2>3 DEF Asks, dialogVars, Busy
    <3>2. LoneInv'
      BY <1>0, <2>1, <3>1 DEF LoneInv
    <3>3. QED  BY <2>2, <3>1, <3>2 DEF PanelInv, ShownInv
  <2>4. CASE q.op = "remove"
    <3>1. /\ UNCHANGED panelVars /\ removing # NoTarget /\ q.list = removing.list
          /\ \A r \in requests : r.op \notin OfMembers
      BY <1>0, <1>3, <2>1, <2>4 DEF Asks, Busy
    <3>2. LoneInv'
      BY <1>0, <2>1, <2>4, <3>1 DEF LoneInv, PanelInv, panelVars, dialogVars
    <3>3. QED  BY <2>1, <2>2, <3>1, <3>2 DEF PanelInv, ShownInv, panelVars
  <2>5. CASE q.op \notin {"detail", "remove"}
    <3>1. UNCHANGED panelVars
      BY <1>3, <2>5 DEF Asks
    <3>2. LoneInv'
      BY <1>0, <2>1, <2>5, <3>1 DEF LoneInv, PanelInv, panelVars, dialogVars
    <3>3. QED  BY <2>1, <2>2, <3>1, <3>2 DEF PanelInv, ShownInv, panelVars
  <2>6. QED  BY <2>3, <2>4, <2>5
<1>4. ASSUME NEW r \in requests, Serve(r) \/ Breaks(r)
      PROVE  PanelInv'
  <2>1. PICK q \in PageRequest : /\ q.id = r.id /\ q.op = r.op /\ q.key = r.key /\ requests' = (requests \ {r}) \cup {q}
                                 /\ Effect(r, q)
    BY <1>4, AnswerEffects
  <2>2. UNCHANGED <<panelVars, dialogVars, altered>> /\ ~Succeeded(r) /\ r.list \in Lists /\ q.list \in Lists
    BY <1>4, AnswerEffects DEF ghostVars, PageRequest
  <2>3. r.op # "create" => q.list = r.list
    BY <2>1, Moves
  <2>4. LoneInv'
    BY <1>0, <2>1, <2>2, <2>3 DEF LoneInv, PanelInv, panelVars, dialogVars
  <2>5. Leaving' = Leaving \cup {k \in {q.key} : q.op = "remove" /\ Succeeded(q)}
    BY <2>1, <2>2 DEF Leaving, Succeeded
  <2>6. ASSUME NEW l \in Lists, ~(r.op = "remove" /\ r.list = l /\ Succeeded(q))
        PROVE  \/ server'[l].members = server[l].members
               \/ server'[l].status = "gone"
    <3>1. CASE Refused(r, q) \/ ListsTold(r, q) \/ Detailed(r, q)
      BY <3>1 DEF Refused, ListsTold, Detailed
    <3>2. CASE Created(r, q)
      BY <2>2, <3>2 DEF Created, StartInv, ScreenTypes, ScreenTypeOK
    <3>3. CASE NamedAnew(r, q)
      BY <2>2, <3>3 DEF NamedAnew, ScreenTypes, ScreenTypeOK, ListState
    <3>4. CASE Deleted(r, q)
      BY <2>2, <3>4 DEF Deleted, Gone, ScreenTypes, ScreenTypeOK
    <3>5. CASE Removed(r, q)
      BY <2>1, <2>2, <2>6, <3>5 DEF Removed, ScreenTypes, ScreenTypeOK
    <3>6. QED  BY <2>1, <3>1, <3>2, <3>3, <3>4, <3>5 DEF Effect
  <2>7. \A l \in Lists : server[l].status = "gone" => server'[l] = server[l]
    BY <2>1, Moves
  <2>8. DetailInv'
    <3>1. SUFFICES ASSUME NEW s \in requests', s.op = "detail", Succeeded(s)
                   PROVE  /\ s.list \notin Existing => s.answer.members = {}
                          /\ s.list \notin altered => \/ s.answer.members = server'[s.list].members
                                                      \/ server'[s.list].status = "gone"
      BY <2>2 DEF DetailInv, Succeeded
    <3>2. CASE s = q
      <4>1. Detailed(r, q)
        BY <2>1, <3>1, <3>2 DEF Effect, Refused, ListsTold, Created, NamedAnew, Deleted, Removed
      <4>2. QED  BY <2>2, <3>2, <4>1 DEF Detailed, StartInv
    <3>3. CASE s \in requests
      <4>1. r.op # "remove"
        <5>1. r.op = "remove" => s = r
          BY <1>0, <3>1, <3>3 DEF PanelInv, LoneInv
        <5>2. QED  BY <3>1, <5>1
      <4>2. s.list \in Lists
        BY <1>0, <3>3
      <4>3. \/ server'[s.list].members = server[s.list].members
            \/ server'[s.list].status = "gone"
        BY <2>6, <4>1, <4>2
      <4>4. QED  BY <2>7, <3>1, <3>3, <4>2, <4>3 DEF PanelInv, DetailInv
    <3>4. QED  BY <2>1, <3>2, <3>3
  <2>9. ShownInv'
    <3>1. selected \in Lists \ Existing => members' = {}
      BY <2>2 DEF PanelInv, ShownInv, panelVars
    <3>2. SUFFICES ASSUME ~membersLoading, ~detailFailed, selected \in Lists \ altered
                   PROVE  server'[selected].status = "gone" \/ members \ Leaving' = server'[selected].members
      BY <2>2, <3>1 DEF ShownInv, panelVars
    <3>3. server[selected].status = "gone" \/ members \ Leaving = server[selected].members
      BY <3>2 DEF PanelInv, ShownInv
    <3>4. CASE r.op = "remove" /\ Succeeded(q)
      <4>1. Removed(r, q)
        BY <2>1, <3>4 DEF Effect, Refused, ListsTold, Created, NamedAnew, Deleted, Detailed
      <4>2. r.list = selected
        BY <1>0, <3>2, <3>4 DEF PanelInv, LoneInv
      <4>3. server'[selected].members = server[selected].members \ {q.key}
        BY <2>1, <2>2, <4>1, <4>2 DEF Removed, ScreenTypes, ScreenTypeOK, ListState
      <4>4. Leaving' = Leaving \cup {q.key}
        BY <2>1, <2>5, <3>4
      <4>5. QED  BY <2>7, <3>2, <3>3, <4>3, <4>4
    <3>5. CASE ~(r.op = "remove" /\ Succeeded(q))
      <4>1. Leaving' = Leaving
        BY <2>1, <2>5, <3>5
      <4>2. server'[selected].members = server[selected].members \/ server'[selected].status = "gone"
        BY <2>6, <3>2, <3>5
      <4>3. QED  BY <2>7, <3>2, <3>3, <4>1, <4>2
    <3>6. QED  BY <3>4, <3>5
  <2>10. QED  BY <2>4, <2>8, <2>9 DEF PanelInv
<1>5. ASSUME NEW r \in requests, requests' = requests \ {r}
      PROVE  Leaving' = Leaving \/ (r.op = "remove" /\ Succeeded(r) /\ Leaving = Leaving' \cup {r.key})
  <2>1. CASE r.op = "remove" /\ Succeeded(r)
    BY <1>5, <2>1 DEF Leaving, Succeeded
  <2>2. CASE ~(r.op = "remove" /\ Succeeded(r))
    BY <1>5, <2>2 DEF Leaving, Succeeded
  <2>3. QED  BY <2>1, <2>2
<1>6. ASSUME NEW r \in requests, Rejects(r)
      PROVE  PanelInv'
  <2>1. /\ UNCHANGED <<server, panelVars, dialogVars>> /\ requests' = requests \ {r} /\ altered \subseteq altered'
        /\ Succeeded(r) => r.list \in altered'
    BY <1>6 DEF Rejects
  <2>2. LoneInv' /\ DetailInv'
    BY <2>1 DEF PanelInv, LoneInv, DetailInv, Succeeded, panelVars, dialogVars
  <2>3. selected \in Lists \ altered' => Leaving' = Leaving
    BY <1>0, <1>5, <2>1 DEF PanelInv, LoneInv
  <2>4. ShownInv'
    BY <2>1, <2>3 DEF PanelInv, ShownInv, panelVars
  <2>5. QED  BY <2>2, <2>4 DEF PanelInv
<1>7. ASSUME NEW m \in Lists, Elsewhere(m)
      PROVE  PanelInv'
  <2>1. /\ UNCHANGED <<panelVars, dialogVars, requests>> /\ altered' = altered \cup {m}
        /\ \A l \in Lists \ {m} : server'[l] = server[l]
    BY <1>7, ElsewherePends
  <2>2. Leaving' = Leaving
    BY <2>1 DEF Leaving, Succeeded
  <2>3. QED  BY <1>0, <2>1, <2>2 DEF PanelInv, LoneInv, DetailInv, ShownInv, Succeeded, panelVars, dialogVars
<1>8. ASSUME NEW r \in requests, requests' = requests \ {r}, UNCHANGED <<server, altered>>,
             removing' \in {removing, NoTarget},
             selected' = NoList \/ UNCHANGED panelVars, membersLoading' = membersLoading, ~(r.op = "remove" /\ Succeeded(r))
      PROVE  PanelInv'
  <2>1. Leaving' = Leaving /\ selected' \in {selected, NoList}
    BY <1>5, <1>8 DEF panelVars
  <2>2. LoneInv' /\ DetailInv'
    BY <1>8, <2>1 DEF PanelInv, LoneInv, DetailInv, Succeeded
  <2>3. ShownInv'
    BY <1>8, <2>1 DEF PanelInv, ShownInv, panelVars
  <2>4. QED  BY <2>2, <2>3 DEF PanelInv
<1>9. ASSUME NEW r \in requests, ListsArrive(r) \/ CreateArrives(r) \/ RenameArrives(r) \/ DeleteArrives(r)
      PROVE  PanelInv'
  BY <1>8, <1>9 DEF ListsArrive, CreateArrives, RenameArrives, DeleteArrives, Arrived, ghostVars, panelVars, dialogVars
<1>10. ASSUME NEW r \in requests, DetailArrives(r)
       PROVE  PanelInv'
  <2>1. /\ r.op = "detail" /\ requests' = requests \ {r} /\ UNCHANGED <<server, altered, selected, dialogVars>>
        /\ \/ Succeeded(r) /\ members' = r.answer.members
           \/ detailFailed' = TRUE /\ members' = members
    BY <1>10 DEF DetailArrives, Arrived, ghostVars
  <2>2. \A s \in requests' : s.op \notin OfMembers
    BY <1>0, <2>1 DEF PanelInv, LoneInv
  <2>3. LoneInv' /\ DetailInv'
    BY <1>0, <2>1, <2>2 DEF LoneInv, DetailInv, PanelInv, dialogVars
  <2>4. Leaving' = {}
    BY <1>0, <2>2 DEF Leaving
  <2>5. r.list = selected \/ selected = NoList
    BY <1>0, <2>1 DEF PanelInv, LoneInv
  <2>6. CASE Succeeded(r) /\ members' = r.answer.members
    BY <2>1, <2>3, <2>4, <2>5, <2>6 DEF PanelInv, DetailInv, ShownInv
  <2>7. CASE detailFailed' = TRUE /\ members' = members
    BY <2>1, <2>3, <2>7 DEF PanelInv, ShownInv
  <2>8. QED  BY <2>1, <2>3, <2>6, <2>7 DEF PanelInv
<1>11. ASSUME NEW r \in requests, RemoveArrives(r)
       PROVE  PanelInv'
  <2>1. /\ r.op = "remove" /\ requests' = requests \ {r} /\ UNCHANGED <<server, altered, selected, membersLoading, detailFailed>>
        /\ removing' = NoTarget /\ members' = IF Succeeded(r) THEN members \ {r.key} ELSE members
    BY <1>11 DEF RemoveArrives, Arrived, ghostVars
  <2>2. \A s \in requests' : s.op \notin OfMembers
    BY <1>0, <2>1 DEF PanelInv, LoneInv
  <2>3. LoneInv' /\ DetailInv'
    BY <1>0, <2>1, <2>2 DEF LoneInv, DetailInv
  <2>4. Leaving' = {}
    BY <1>0, <2>2 DEF Leaving
  <2>5. Leaving = IF Succeeded(r) THEN {r.key} ELSE {}
    BY <1>5, <2>1, <2>4 DEF Leaving
  <2>6. members' \ Leaving' = members \ Leaving
    BY <2>1, <2>4, <2>5
  <2>7. ShownInv'
    BY <2>1, <2>6 DEF PanelInv, ShownInv
  <2>8. QED  BY <2>3, <2>7 DEF PanelInv
<1>12. CASE Click
  BY <1>2, <1>3, <1>12, ClickSteps
<1>13. CASE Network
  BY <1>4, <1>6, <1>13 DEF Network
<1>14. CASE Arrival
  BY <1>9, <1>10, <1>11, <1>14 DEF Arrival
<1>15. QED  BY <1>1, <1>7, <1>12, <1>13, <1>14 DEF ScreenNext

\* The inductive invariant: what the rows say is kept while no load of the lists meets a change of one, and
\* what the panel says while no two requests about members meet.
ScreenInv ==
  /\ ScreenTypes /\ LoadInv /\ StartInv
  /\ raced \/ (UnseenInv /\ OnceInv /\ AnswerInv /\ RowsInv)
  /\ overtaken \/ PanelInv

LEMMA InitScreenInv ==
  ASSUME ScreenInit
  PROVE  ScreenInv
<1>1. ScreenTypes
  BY InitScreenTypes
<1>2. \A r \in requests : r.op = "lists" /\ r.answer = Waiting
  BY DEF ScreenInit, NewRequest
<1>3. \A r, s \in requests : r = s
  BY DEF ScreenInit
<1>4. ~Succeeded([answer |-> Waiting]) /\ Waiting.rows = {}
  BY DEF Succeeded, Waiting, Refusal
<1>5. \A r \in requests : ~Succeeded(r) /\ r.answer.rows = {}
  BY <1>2, <1>4 DEF Succeeded
<1>6. LoadInv
  BY <1>2, <1>3, <1>5 DEF ScreenInit, LoadInv, Busy, OfLists
<1>7. \A l \in Lists : ~Targeted(l) /\ l \notin Shown
  BY <1>2 DEF ScreenInit, Targeted, Shown
<1>8. StartInv
  BY <1>5, <1>7 DEF ScreenInit, StartInv, Untouched, Shown
<1>9. UnseenInv /\ OnceInv /\ AnswerInv /\ RowsInv
  BY <1>5, <1>7 DEF ScreenInit, UnseenInv, OnceInv, OneRowEach, AnswerInv, RowsInv
<1>10. LoneInv /\ DetailInv /\ ShownInv
  BY <1>2, <1>5 DEF ScreenInit, LoneInv, DetailInv, ShownInv, OfMembers
<1>11. QED  BY <1>1, <1>6, <1>8, <1>9, <1>10 DEF ScreenInv, PanelInv

\* What was raced or overtaken once stays so.
LEMMA GhostsStay ==
  ASSUME ScreenTypes, [ScreenNext]_trackingVars
  PROVE  (raced => raced') /\ (overtaken => overtaken')
<1>1. CASE UNCHANGED trackingVars \/ Quiet
  BY <1>1 DEF trackingVars, Quiet, ghostVars
<1>2. ASSUME NEW q \in PageRequest, Asks(q)
      PROVE  (raced => raced') /\ (overtaken => overtaken')
  BY <1>2 DEF Asks
<1>3. ASSUME NEW r \in requests, Serve(r) \/ Breaks(r) \/ Rejects(r) \/ Arrival
      PROVE  (raced => raced') /\ (overtaken => overtaken')
  BY <1>3, OneLess DEF Serve, Breaks, ghostVars
<1>4. ASSUME NEW l \in Lists, Elsewhere(l)
      PROVE  (raced => raced') /\ (overtaken => overtaken')
  BY <1>4 DEF Elsewhere
<1>5. QED  BY <1>1, <1>2, <1>3, <1>4, ClickSteps DEF ScreenNext, Network, Arrival

LEMMA NextScreenInv ==
  ASSUME ScreenInv, [ScreenNext]_trackingVars
  PROVE  ScreenInv'
<1> USE DEF ScreenInv
<1>1. ScreenTypes' /\ LoadInv' /\ StartInv'
  BY NextScreenTypes, LoadKept, StartKept
<1>2. raced' \/ (UnseenInv' /\ OnceInv' /\ AnswerInv' /\ RowsInv')
  BY GhostsStay, UnseenKept, OnceKept, AnswerKept, RowsKept
<1>3. overtaken' \/ PanelInv'
  BY GhostsStay, PanelKept
<1>4. QED  BY <1>1, <1>2, <1>3

LEMMA ScreenInvTells ==
  ASSUME ScreenInv
  PROVE  PageTellsTheServer
<1> USE DEF ScreenInv, ScreenTypes, ScreenTypeOK
<1>1. ASSUME requests = {}
      PROVE  \A op, l : ~Pending(op, l)
  BY <1>1 DEF Pending
<1>2. RowsTellTheServer
  <2>1. SUFFICES ASSUME requests = {}, ~loading, ~failed, ~raced
                 PROVE  /\ \A row, other \in listRows : row.list = other.list => row = other
                        /\ Shown \ altered = ServerLists \ altered
                        /\ \A row \in listRows : row.list \notin altered => row.name = server[row.list].name
    BY DEF RowsTellTheServer
  <2>2. \A l \in Lists \ altered : RowsOf(l) /\ NamesOf(l)
    BY <2>1 DEF RowsInv, Told
  <2>3. Shown \subseteq Lists /\ \A row \in listRows : row.list \in Shown
    BY DEF Shown, ListRow
  <2>4. \A l \in Shown \ altered : server[l].status = "live"
    BY <1>1, <2>1, <2>2, <2>3 DEF RowsOf, UnseenInv, Unseen, ListState
  <2>5. \A l \in ServerLists \ altered : l \in Shown
    BY <1>1, <2>1, <2>2 DEF RowsOf, ServerLists
  <2>6. Shown \ altered = ServerLists \ altered
    BY <2>3, <2>4, <2>5 DEF ServerLists
  <2>7. \A row \in listRows : row.list \notin altered => row.name = server[row.list].name
    BY <2>1, <2>2, <2>3, <2>4 DEF NamesOf
  <2>8. QED  BY <2>1, <2>6, <2>7 DEF OnceInv, OneRowEach
<1>3. PanelTellsTheServer
  <2>1. SUFFICES ASSUME requests = {}, ~overtaken, ~membersLoading, ~detailFailed, selected \in Shown \ altered
                 PROVE  members = server[selected].members
    BY DEF PanelTellsTheServer
  <2>2. selected \in Lists /\ Leaving = {}
    BY <2>1 DEF Shown, ListRow, Leaving
  <2>3. CASE selected \in Existing
    <3>1. server[selected].status # "gone"
      BY <1>1, <2>1, <2>3 DEF StartInv
    <3>2. QED  BY <2>1, <2>2, <3>1 DEF PanelInv, ShownInv
  <2>4. CASE selected \notin Existing
    BY <2>1, <2>2, <2>4 DEF StartInv, PanelInv, ShownInv
  <2>5. QED  BY <2>3, <2>4
<1>4. QED  BY <1>2, <1>3 DEF PageTellsTheServer

(* Once nothing is under way the rows and the panel tell what the server has, *)
(* however the clicks, the answers, their losses and the changes made          *)
(* elsewhere interleaved, unless a load of the lists met a change of one or    *)
(* requests about members overlapped: for any lists, names, members, limit     *)
(* and number of requests.                                                     *)
THEOREM PageTells == ScreenSpec => []PageTellsTheServer
<1>1. ScreenInit => ScreenInv
  BY InitScreenInv
<1>2. ScreenInv /\ [ScreenNext]_trackingVars => ScreenInv'
  BY NextScreenInv
<1>3. ScreenInv => PageTellsTheServer
  BY ScreenInvTells
<1>4. QED  BY <1>1, <1>2, <1>3, PTL DEF ScreenSpec

================================================================================
