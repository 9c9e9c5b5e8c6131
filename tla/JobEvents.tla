------------------------------ MODULE JobEvents ------------------------------
(***************************************************************************)
(* From a job's row and the queue's events to a browser's EventSource.     *)
(* One QueueEvents listener routes the events of all jobs to a Subject per *)
(* job id; a stream reads the row first and then subscribes.  The run      *)
(* itself is that of KeywordAnalysis and RunJob, here reduced to what its  *)
(* row and the queue let others see.                                       *)
(***************************************************************************)
EXTENDS Integers, SequencesExt

CONSTANTS
  Jobs, MaxRuns,        \* jobs, and how often each may be started
  MaxRetained,          \* MAX_RETAINED_TERMINATED
  Faults                \* subset of {"stalls", "lookupFails", "breaks", "unavailable", "evictedPoll", "notReady", "startFails", "deleteFails"}

ASSUME JobsAssumption == "none" \notin Jobs /\ MaxRuns \in Nat /\ MaxRetained \in Nat

VARIABLES
  kind,                 \* which of the four kinds of job the browser watches
  rows, jobs, runs, past,   \* status of the row; the queue's job; starts so far; what the row was in its current run
  events,               \* queue events not yet delivered
  subjects, terminatedOrder,
  link, inbox           \* the EventSource: its stream on the server, and what it has not handled

serverVars == <<rows, jobs, runs, past>>
eventVars  == <<events, subjects, terminatedOrder>>
linkVars   == <<link, inbox>>

Kinds     == {"analysis", "topics", "journey", "custom"}
None      == "none"
DbStatus  == {"queued", "running", "completed", "partial", "failed", "canceled"}
Done      == {"completed", "partial"}
Over      == Done \cup {"failed", "canceled"}
NoLink    == [at |-> None, job |-> None]
Asked(j)  == [at |-> "asked", job |-> j]
Links     == {NoLink} \cup [at : {"asked", "found", "live", "served"}, job : Jobs]

\* A custom classification ends completed or failed; only an analysis is cancelled.
Endings(k) == {"completed", "failed"} \cup IF k = "custom" THEN {} ELSE {"partial"}

JobEventsInit ==
  /\ kind \in Kinds
  /\ rows = [j \in Jobs |-> "absent"] /\ jobs = [j \in Jobs |-> None] /\ runs = [j \in Jobs |-> 0]
  /\ past = [j \in Jobs |-> {}]
  /\ events = <<>> /\ subjects = [j \in Jobs |-> None] /\ terminatedOrder = <<>>
  /\ link = NoLink /\ inbox = <<>>

-----------------------------------------------------------------------------
(* The run, as its row and the queue show it. *)

WriteRow(j, s) == /\ rows' = [rows EXCEPT ![j] = s]
                  /\ past' = [past EXCEPT ![j] = IF s = "queued" THEN {s} ELSE @ \cup {s}]
Emit(j, type)  == events' = Append(events, [job |-> j, type |-> type])

\* A POST creates the row, resets it, or finds it usable as it is.
Enqueued(j) ==
  IF rows[j] \in {"absent", "failed", "canceled"}
  THEN /\ jobs[j] = None /\ runs[j] < MaxRuns
       /\ runs' = [runs EXCEPT ![j] = @ + 1]
       /\ WriteRow(j, "queued")
       /\ jobs' = [jobs EXCEPT ![j] = "waiting"]
  ELSE UNCHANGED serverVars

\* Someone else's request.
OthersStart(j) == /\ rows[j] \in {"absent", "failed", "canceled"} /\ Enqueued(j)
                  /\ UNCHANGED <<kind, eventVars, linkVars>>

\* A cancellation marks the row, and takes a waiting job off the queue without an event.
Canceled(j) ==
  /\ rows[j] \in {"queued", "running"}
  /\ WriteRow(j, "canceled")
  /\ jobs' = IF jobs[j] = "waiting" THEN [jobs EXCEPT ![j] = None] ELSE jobs
  /\ UNCHANGED runs

\* Another tab's or another client's.
OthersCancel(j) == /\ kind = "analysis" /\ Canceled(j)
                   /\ UNCHANGED <<kind, eventVars, linkVars>>

JobProgresses(j) ==
  /\ jobs[j] = "waiting"
  /\ jobs' = [jobs EXCEPT ![j] = "active"]
  /\ IF rows[j] = "queued" THEN WriteRow(j, "running") ELSE UNCHANGED <<rows, past>>
  /\ Emit(j, "progress")
  /\ UNCHANGED <<kind, runs, subjects, terminatedOrder, linkVars>>

\* The processor writes the row, then the queue learns of it: two steps.
RowEnds(j) ==
  /\ jobs[j] = "active"
  /\ IF rows[j] = "canceled" THEN UNCHANGED <<rows, past>> ELSE \E s \in Endings(kind) : WriteRow(j, s)
  /\ jobs' = [jobs EXCEPT ![j] = "written"]
  /\ UNCHANGED <<kind, runs, eventVars, linkVars>>

JobEnds(j) ==
  /\ jobs[j] = "written"
  /\ jobs' = [jobs EXCEPT ![j] = None]
  /\ Emit(j, IF rows[j] = "failed" THEN "failed" ELSE "completed")
  /\ UNCHANGED <<kind, rows, runs, past, subjects, terminatedOrder, linkVars>>

\* A job over its stall limit is failed by the queue alone: the row keeps its status.
JobStalls(j) ==
  /\ "stalls" \in Faults /\ jobs[j] = "active"
  /\ jobs' = [jobs EXCEPT ![j] = None]
  /\ Emit(j, "failed")
  /\ UNCHANGED <<kind, rows, runs, past, subjects, terminatedOrder, linkVars>>

RunSteps == \E j \in Jobs : OthersStart(j) \/ OthersCancel(j) \/ JobProgresses(j) \/ RowEnds(j) \/ JobEnds(j) \/ JobStalls(j)

-----------------------------------------------------------------------------
(* JobEventsService. *)

SubjectFor(j) == IF subjects[j] = None THEN "open" ELSE subjects[j]

RetainTerminated(j) == LET all == Append(terminatedOrder, j) IN
  [evicted |-> IF Len(all) > MaxRetained THEN {Head(all)} ELSE {},
   kept    |-> IF Len(all) > MaxRetained THEN Tail(all) ELSE all]

\* What a subscriber of an open subject gets; takeWhile ends the stream with a terminal event.
Delivered(type) == IF type = "progress" THEN <<"progress">> ELSE <<type, "end">>

Route ==
  /\ events # <<>> /\ events' = Tail(events)
  /\ LET e == Head(events)
         retained == RetainTerminated(e.job)
         final == e.type \in {"completed", "failed"} IN
     /\ subjects' = [j \in Jobs |-> IF final /\ j \in retained.evicted THEN None
                                    ELSE IF j = e.job THEN IF final THEN "closed" ELSE SubjectFor(j)
                                    ELSE subjects[j]]
     /\ terminatedOrder' = IF final THEN retained.kept ELSE terminatedOrder
     /\ IF link = [at |-> "live", job |-> e.job] /\ SubjectFor(e.job) = "open"
        THEN /\ inbox' = inbox \o Delivered(e.type)
             /\ link' = IF final THEN [link EXCEPT !.at = "served"] ELSE link
        ELSE UNCHANGED linkVars
  /\ UNCHANGED <<kind, serverVars>>

-----------------------------------------------------------------------------
(* The SSE handlers: the row is read, the answer planned, and only then    *)
(* does a live stream subscribe.  A lookup that fails is an empty stream.  *)

SnapshotOf(status) == IF status \in Done THEN "completed" ELSE "failed"
PlanSseResponse(status) == IF status = "absent" THEN <<"open", "end">> ELSE <<"open", SnapshotOf(status), "end">>

AnalysisPlan(status) == IF status \in Over \cup {"absent"} THEN PlanSseResponse(status) ELSE <<"open">>
TopicsPlan(status)   == IF status \in Done \cup {"failed", "absent"} THEN PlanSseResponse(status) ELSE <<"open">>
JourneyPlan(status)  == IF status \in Done \cup {"failed", "absent"} THEN PlanSseResponse(status) ELSE <<"open">>
CustomPlan(status)   == IF status \in {"completed", "failed", "absent"} THEN PlanSseResponse(status) ELSE <<"open">>

Plan(status) == CASE kind = "analysis" -> AnalysisPlan(status) [] kind = "topics"  -> TopicsPlan(status)
                  [] kind = "journey"  -> JourneyPlan(status)  [] kind = "custom"  -> CustomPlan(status)

LookUp ==
  /\ link.at = "asked"
  /\ \E status \in {rows[link.job]} \cup IF "lookupFails" \in Faults THEN {"absent"} ELSE {} :
       /\ inbox' = Plan(status)
       /\ link' = IF Plan(status) = <<"open">> THEN [link EXCEPT !.at = "found"] ELSE [link EXCEPT !.at = "served"]
  /\ UNCHANGED <<kind, serverVars, eventVars>>

\* forJob, after the await of the lookup: a subject that has completed meanwhile ends at once.
Subscribe ==
  /\ link.at = "found"
  /\ IF SubjectFor(link.job) = "open"
     THEN /\ subjects' = [subjects EXCEPT ![link.job] = "open"]
          /\ link' = [link EXCEPT !.at = "live"] /\ UNCHANGED inbox
     ELSE /\ inbox' = Append(inbox, "end")
          /\ link' = [link EXCEPT !.at = "served"] /\ UNCHANGED subjects
  /\ UNCHANGED <<kind, serverVars, events, terminatedOrder>>

StreamSteps == Route \/ LookUp \/ Subscribe
=============================================================================
