--------------------------- MODULE SummaryColumn ---------------------------
(***************************************************************************)
(* The column of AI summaries in the keyword table: its cells are filled   *)
(* one by one, or by a batch over a stream of its own.  No controller of   *)
(* the server offers the endpoint yet: what it answers is what             *)
(* api/aiIntentSummary.ts expects.                                         *)
(***************************************************************************)
EXTENDS Integers

CONSTANTS PageKeys,          \* the pages of the table: sets of keywords
          MaxAsked,          \* bound on the single requests that are out for one keyword
          CellFaults         \* what may go wrong: "silence", "streamError", "noEventSource", "jobFails", "malformed", "throws"

VARIABLES page,      \* the keywords on the screen; {} while the table is not mounted
          cells,     \* AiBatchState.cells
          job,       \* AiBatchState.job
          posting,   \* the POST of a batch: "none", "sent", "accepted", "refused"
          asked,     \* single requests that are out, by keyword
          stream,    \* the EventSource of the batch: "closed", "connecting", "open", or "silent", held open by a proxy
          batch,     \* external: the keywords the batch on the server has yet to do, and how it stands
          missed     \* history: the keywords of the batch whose frame the page never took in

pageVars == <<page, cells, job, posting, asked, stream>>
tvars    == <<pageVars, batch, missed>>

Keywords == UNION PageKeys
OUTCOMES == {"summary", "invalid", "unavailable"}
CELL == {"idle", "loading", "done", "invalid", "unavailable"}

-----------------------------------------------------------------------------
(* aiCellState.ts and aiIntentBatch.ts.                                    *)

CanGenerate(status) == status \in {"idle", "invalid", "unavailable"}
Generate(c)     == IF CanGenerate(c) THEN "loading" ELSE c
Resolved(c)     == IF c = "loading" THEN "done" ELSE c
Rejected(c, kind) == IF c = "loading" THEN kind ELSE c

StartCells(cs, keys) == [k \in DOMAIN cs |-> IF k \in keys THEN Generate(cs[k]) ELSE cs[k]]
ApplyCell(cs, k, event) ==
  [cs EXCEPT ![k] = IF event = "summary" THEN Resolved(@) ELSE Rejected(@, event)]
FailLoadingCells(cs) == [k \in DOMAIN cs |-> Rejected(cs[k], "unavailable")]

\* Mutant: the header shows the failure and the cells keep waiting.
JobFailedHeaderOnly == IF job = "done" THEN UNCHANGED <<job, cells>> ELSE job' = "error" /\ UNCHANGED cells
\* A failure sweeps the cells that wait, unless the batch is done.
JobFailed == IF job = "done" THEN UNCHANGED <<job, cells>> ELSE job' = "error" /\ cells' = FailLoadingCells(cells)

\* The effect that holds the stream: it is closed when the batch is not running.
Stream == stream' = IF job' = "running" THEN stream ELSE "closed"

Init == /\ page \in PageKeys
        /\ cells = [k \in Keywords |-> "idle"]
        /\ job = "idle" /\ posting = "none" /\ stream = "closed"
        /\ asked = [k \in Keywords |-> 0]
        /\ batch = [todo |-> {}, status |-> "none"] /\ missed = {}

\* A page whose rows are there already: the table stays and so do its cells.
ShowPage(p) == page # {} /\ page' = p /\ UNCHANGED <<cells, job, posting, asked, stream, batch, missed>>
\* A page that has to be fetched: the table goes, its state with it, the answers that are out find nobody.
Unmount ==
  /\ page # {}
  /\ page' = {}
  /\ cells' = [k \in Keywords |-> "idle"]
  /\ job' = "idle" /\ posting' = "none" /\ stream' = "closed"
  /\ asked' = [k \in Keywords |-> 0]
  /\ UNCHANGED <<batch, missed>>
Mount(p) == page = {} /\ page' = p /\ UNCHANGED <<cells, job, posting, asked, stream, batch, missed>>

\* The mark in a cell that is masked or may be tried again.
GenerateOne(k) ==
  /\ k \in page /\ cells[k] \in {"idle", "unavailable"}
  /\ asked[k] < MaxAsked
  /\ cells' = [cells EXCEPT ![k] = Generate(@)]
  /\ asked' = [asked EXCEPT ![k] = @ + 1]
  /\ UNCHANGED <<page, job, posting, stream, batch, missed>>
\* The answer; when fetch rejects ("throws") nothing is dispatched.
SummarizeKeywordIntent(k, answer) ==
  /\ asked[k] > 0
  /\ asked' = [asked EXCEPT ![k] = @ - 1]
  /\ IF answer = "throws" THEN UNCHANGED cells ELSE cells' = ApplyCell(cells, k, answer)
  /\ UNCHANGED <<page, job, posting, stream, batch, missed>>

\* The mark in the header; useInFlightGuard lets one POST out at a time.
InFlight == posting # "none"
StartBatch ==
  /\ page # {} /\ job \in {"idle", "error"} /\ ~InFlight
  /\ posting' = "sent"
  /\ UNCHANGED <<page, cells, job, asked, stream, batch, missed>>
\* External: a batch over all keywords is begun, in the place of one that still runs, or the request is refused.
ServerAccepts ==
  /\ posting = "sent"
  /\ \/ /\ posting' = "accepted"
        /\ batch' = [todo |-> Keywords, status |-> "running"] /\ missed' = {}
     \/ posting' = "refused" /\ UNCHANGED <<batch, missed>>
  /\ UNCHANGED <<page, cells, job, asked, stream>>
\* The 202: every row on the screen waits.  The server has not waited for it.
BatchStarted ==
  /\ posting = "accepted"
  /\ posting' = "none"
  /\ cells' = StartCells(cells, page)
  /\ job' = "running"
  /\ UNCHANGED <<page, asked, stream, batch, missed>>
BatchRefused ==
  /\ posting = "refused"
  /\ posting' = "none"
  /\ JobFailed /\ Stream
  /\ UNCHANGED <<page, asked, batch, missed>>

\* The effect of a running batch makes the EventSource and starts the clock of the heartbeat.
OpenStream ==
  /\ job = "running" /\ stream = "closed"
  /\ \/ stream' = "connecting" /\ UNCHANGED <<cells, job>>
     \/ "noEventSource" \in CellFaults /\ JobFailed /\ Stream
  /\ UNCHANGED <<page, posting, asked, batch, missed>>
\* External: the connection is made; what was published before is not sent again.
Connected ==
  /\ stream = "connecting" /\ stream' = "open"
  /\ UNCHANGED <<page, cells, job, posting, asked, batch, missed>>

\* External: the server does a keyword and tells those who listen how it went; a frame that cannot be
\* read is ignored.
Progress(k, frame) ==
  /\ batch.status = "running" /\ k \in batch.todo
  /\ batch' = [batch EXCEPT !.todo = @ \ {k}]
  /\ IF stream = "open" /\ frame # "malformed" THEN cells' = ApplyCell(cells, k, frame) /\ UNCHANGED missed
                                                ELSE missed' = missed \cup {k} /\ UNCHANGED cells
  /\ UNCHANGED <<page, job, posting, asked, stream>>
\* A completed batch leaves the cells as they are.
BatchEnds(how) ==
  /\ batch.status = "running"
  /\ IF how = "completed" THEN batch.todo = {} ELSE "jobFails" \in CellFaults
  /\ batch' = [todo |-> {}, status |-> how]
  /\ CASE stream # "open"    -> UNCHANGED <<cells, job>>
       [] how = "completed" -> job' = "done" /\ UNCHANGED cells
       [] OTHER             -> JobFailed
  /\ Stream
  /\ UNCHANGED <<page, posting, asked, missed>>

OnError ==
  /\ "streamError" \in CellFaults /\ stream # "closed"
  /\ JobFailed /\ Stream
  /\ UNCHANGED <<page, posting, asked, batch, missed>>
Silence ==
  /\ "silence" \in CellFaults /\ stream \in {"connecting", "open"}
  /\ stream' = "silent"
  /\ UNCHANGED <<page, cells, job, posting, asked, batch, missed>>
\* No named event for the time allowed, since the effect ran or since the last one.
Heartbeat ==
  /\ stream # "closed"
  /\ JobFailed /\ Stream
  /\ UNCHANGED <<page, posting, asked, batch, missed>>
\* The page will hear nothing more: the interval must notice.
NothingComes == stream = "silent" \/ batch.status # "running"

-----------------------------------------------------------------------------
Next == \/ \E p \in PageKeys : ShowPage(p) \/ Mount(p)
        \/ Unmount \/ StartBatch \/ ServerAccepts \/ BatchStarted \/ BatchRefused
        \/ OpenStream \/ Connected
        \/ \E k \in Keywords : GenerateOne(k)
        \/ \E k \in Keywords, answer \in OUTCOMES \cup (CellFaults \cap {"throws"}) : SummarizeKeywordIntent(k, answer)
        \/ \E k \in Keywords, frame \in OUTCOMES \cup (CellFaults \cap {"malformed"}) : Progress(k, frame)
        \/ \E how \in {"completed", "failed"} : BatchEnds(how)
        \/ OnError \/ Silence \/ Heartbeat

\* Requests are answered, effects run, the server goes through the batch, the interval of the heartbeat
\* runs.  Nothing makes a connection come in time.
CellFairness ==
  /\ \A k \in Keywords : WF_tvars(\E answer \in OUTCOMES : SummarizeKeywordIntent(k, answer))
  /\ \A k \in Keywords : WF_tvars(\E frame \in OUTCOMES : Progress(k, frame))
  /\ WF_tvars(ServerAccepts) /\ WF_tvars(BatchStarted) /\ WF_tvars(BatchRefused)
  /\ WF_tvars(OpenStream)
  /\ WF_tvars(BatchEnds("completed")) /\ WF_tvars(NothingComes /\ Heartbeat)

Spec == Init /\ [][Next]_tvars /\ CellFairness

TypeOK ==
  /\ page \in PageKeys \cup {{}}
  /\ cells \in [Keywords -> CELL]
  /\ job \in {"idle", "running", "done", "error"}
  /\ posting \in {"none", "sent", "accepted", "refused"}
  /\ asked \in [Keywords -> 0..MaxAsked]
  /\ stream \in {"closed", "connecting", "open", "silent"} /\ missed \subseteq Keywords
  /\ batch.todo \subseteq Keywords /\ batch.status \in {"none", "running", "completed", "failed"}

\* A cell does not spin for ever: it gets its summary or can be tried again, also when the stream of the
\* batch is never made, breaks off, falls silent or opens when the batch is over (failLoadingCells, the
\* heartbeat of useAiIntentBatch).  One cell is left out, and only that one: its own frame was published before the
\* stream was open, or could not be read, and the batch was then completed: job_completed sweeps nothing.
EveryCellSettles ==
  \A k \in Keywords : cells[k] = "loading" ~> cells[k] # "loading" \/ (job = "done" /\ k \in missed)
=============================================================================
