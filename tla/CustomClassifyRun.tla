------------------------- MODULE CustomClassifyRun -------------------------
(***************************************************************************)
(* Stage two of a custom classification: its confirmed labels are written  *)
(* into its row and a run assigns one of them to every keyword.  The runs  *)
(* of the one classification modelled are told apart by the label set they *)
(* apply, so Ids stands for both; the assignments of all of them share one *)
(* place.  DELETE takes the jobs, then the rows, away while a run works.   *)
(***************************************************************************)
EXTENDS RunJob, Sequences

VARIABLES
  labels,     \* of the classification: drafted, the set confirmed last, or gone
  assigned,   \* whose labels keyword_custom_assignments holds
  created,    \* run rows in the order of created_at
  doomed,     \* per request, runs whose job its DELETE has still to remove
  late        \* a slot was past its last look at its run when the rows went

runRows == <<labels, assigned, created, doomed, late>>
vars    == <<runVars, runRows>>

CreateStage == {"resolve", "guard", "label"}
DeleteStage == {"findRuns", "dropJobs", "dropTables"}
WorkStage   == {"start", "load", "classify", "exists", "progress", "save", "markDone", "tick", "catch", "finish", "fail"}
InFlight    == {"queued", "running"}

TypeOK ==
  /\ QueueTypeOK
  /\ status \in [Ids -> InFlight \cup {"completed", "failed", NoRow}]
  /\ count \in [Ids -> Count]
  /\ stage \in [Clients -> {"idle"} \cup RequestStage \cup CreateStage \cup DeleteStage]
  /\ reqRun \in [Clients -> Ids \cup {NoId}]
  /\ wstage \in [Workers -> {"idle"} \cup WorkStage]
  /\ labels \in Ids \cup {"draft", "gone"}
  /\ assigned \in Ids \cup {NoId}
  /\ \A n \in DOMAIN created : created[n] \in Ids
  /\ doomed \in [Clients -> SUBSET Ids]

Init ==
  /\ RunInit
  /\ labels = "draft" /\ assigned = NoId /\ created = <<>>
  /\ doomed = [c \in Clients |-> {}]
  /\ late = FALSE

-----------------------------------------------------------------------------
(* POST: the labels are confirmed.  The body was validated and the input is *)
(* within its limits.                                                       *)

Confirm(c, i) ==
  /\ stage[c] = "idle"
  /\ stage' = [stage EXCEPT ![c] = "resolve"]
  /\ reqRun' = [reqRun EXCEPT ![c] = i]
  /\ UNCHANGED <<queueVars, rowVars, workerVars, runRows>>

Continue(c, ok, s) == IF ok THEN Goto(c, s) ELSE Done(c)

ResolveOwnedClassification(c) ==
  /\ stage[c] = "resolve"
  /\ Continue(c, labels # "gone", "guard")
  /\ UNCHANGED <<queueVars, rowVars, workerVars, runRows>>

Unguarded(i) == TRUE

\* The newest run in progress, if there is one, is the one asked for.
MayStart(i) ==
  LET busy == {n \in DOMAIN created : status[created[n]] \in InFlight} IN
  \A n \in busy : (\A m \in busy : m <= n) => created[n] = i

FindInProgress(c) ==
  /\ stage[c] = "guard"
  /\ Continue(c, MayStart(reqRun[c]), "label")
  /\ UNCHANGED <<queueVars, rowVars, workerVars, runRows>>

\* The update of a row that is gone throws.
WriteLabels(c) ==
  /\ stage[c] = "label"
  /\ labels' = IF labels = "gone" THEN labels ELSE reqRun[c]
  /\ Continue(c, labels # "gone", "find")
  /\ UNCHANGED <<queueVars, rowVars, workerVars, assigned, created, doomed, late>>

\* createRun and enqueueReusingJobId.
CreateRun(c) ==
  /\ RequestWork(c) \/ QueueCallFails(c)
  /\ created' = IF stage[c] = "insert" /\ ~Exists(reqRun[c]) THEN Append(created, reqRun[c]) ELSE created
  /\ UNCHANGED <<labels, assigned, doomed, late>>

Create(c) ==
  \/ \E i \in Ids : Confirm(c, i)
  \/ ResolveOwnedClassification(c) \/ FindInProgress(c) \/ WriteLabels(c)
  \/ CreateRun(c)

-----------------------------------------------------------------------------
(* DELETE *)

BeginDelete(c) ==
  /\ stage[c] = "idle" /\ labels # "gone"
  /\ Goto(c, "findRuns")
  /\ UNCHANGED <<queueVars, rowVars, workerVars, runRows>>

FindRuns(c) ==
  /\ stage[c] = "findRuns"
  /\ doomed' = [doomed EXCEPT ![c] = {i \in Ids : Exists(i)}]
  /\ Goto(c, "dropJobs")
  /\ UNCHANGED <<queueVars, rowVars, workerVars, labels, assigned, created, late>>

\* One queue.remove per run; a job that is locked stays, and no one is told.
DropJob(c) ==
  /\ stage[c] = "dropJobs"
  /\ IF doomed[c] = {} THEN Goto(c, "dropTables") /\ UNCHANGED <<queueVars, doomed>>
     ELSE \E i \in doomed[c] :
            /\ RemoveJob(i) \/ RemoveRefused(i) \/ ("queueFails" \in Faults /\ UNCHANGED queueVars)
            /\ doomed' = [doomed EXCEPT ![c] = @ \ {i}]
            /\ UNCHANGED reqVars
  /\ UNCHANGED <<rowVars, workerVars, labels, assigned, created, late>>

\* Mutant: without a foreign key the run rows survive their classification.
DropClassification(c) ==
  /\ stage[c] = "dropTables"
  /\ labels' = "gone" /\ assigned' = NoId
  /\ late' = (late \/ \E w \in Workers : wstage[w] = "save")
  /\ Done(c)
  /\ UNCHANGED <<queueVars, rowVars, workerVars, created, doomed>>

\* One transaction; the delete of a classification that is gone rolls it back.
DropTables(c) ==
  /\ stage[c] = "dropTables"
  /\ IF labels = "gone" THEN UNCHANGED <<rowVars, labels, assigned, created, late>>
     ELSE /\ labels' = "gone" /\ assigned' = NoId /\ created' = <<>>
          /\ status' = [i \in Ids |-> NoRow] /\ count' = [i \in Ids |-> "null"]
          /\ late' = (late \/ \E w \in Workers : wstage[w] = "save")
  /\ Done(c)
  /\ UNCHANGED <<queueVars, workerVars, doomed>>

Delete(c) == BeginDelete(c) \/ FindRuns(c) \/ DropJob(c) \/ DropTables(c)

-----------------------------------------------------------------------------
(* CustomClassifyAssignProcessor.process *)

Start(w) ==
  /\ wstage[w] = "start"
  /\ MarkStatus(wjob[w], "running", Undefined)
  /\ WGoto(w, "load")
  /\ UNCHANGED <<queueVars, reqVars, runRows>>

\* reportProgress: an update of the row, so it throws when the row is gone.
\* The classifier itself degrades to unclassified.
ReportProgress(w) ==
  /\ \/ wstage[w] = "load" /\ WGoto(w, "classify")
     \/ wstage[w] = "classify" /\ WGoto(w, "exists")
     \/ wstage[w] = "progress" /\ WGoto(w, "save")
  /\ Exists(wjob[w])
  /\ UNCHANGED <<queueVars, rowVars, reqVars, runRows>>

StillExists(w) ==
  /\ wstage[w] = "exists"
  /\ WGoto(w, IF Exists(wjob[w]) THEN "progress" ELSE "finish")
  /\ UNCHANGED <<queueVars, rowVars, reqVars, runRows>>

\* One transaction: the assignments of the classification are replaced.
SaveAssignments(w) ==
  /\ wstage[w] = "save"
  /\ assigned' = wjob[w]
  /\ WGoto(w, "markDone")
  /\ UNCHANGED <<queueVars, rowVars, reqVars, labels, created, doomed, late>>

MarkDone(w) ==
  /\ wstage[w] = "markDone"
  /\ MarkStatus(wjob[w], "completed", "some")
  /\ WGoto(w, "tick")
  /\ UNCHANGED <<queueVars, reqVars, runRows>>

\* reportProgressBestEffort: whatever becomes of it, the run is completed.
Tick(w) ==
  /\ wstage[w] = "tick"
  /\ WGoto(w, "finish")
  /\ UNCHANGED <<queueVars, rowVars, reqVars, runRows>>

Throw(w) ==
  /\ wstage[w] \in WorkStage \ {"tick", "catch", "finish", "fail"}
  /\ WGoto(w, "catch")
  /\ UNCHANGED <<queueVars, rowVars, reqVars, runRows>>

\* Only the last attempt closes the run, as a best effort.
Catch(w) ==
  LET final == wmade[w] + 1 >= JobAttempts IN
  /\ wstage[w] = "catch"
  /\ \/ final /\ MarkStatus(wjob[w], "failed", Undefined)
     \/ (~final \/ ~Exists(wjob[w]) \/ "writeLost" \in Faults) /\ UNCHANGED rowVars
  /\ WGoto(w, "fail")
  /\ UNCHANGED <<queueVars, reqVars, runRows>>

Process(w) == \/ Start(w) \/ ReportProgress(w) \/ StillExists(w) \/ SaveAssignments(w)
              \/ MarkDone(w) \/ Tick(w) \/ Throw(w) \/ Catch(w)

Slots == AnySlot /\ UNCHANGED runRows

Next == \/ \E c \in Clients : Create(c) \/ Delete(c)
        \/ \E w \in Workers : Process(w)
        \/ Slots

Spec == Init /\ [][Next]_vars

-----------------------------------------------------------------------------
(* The assignments have no run in their key, so two runs at work would     *)
(* overwrite each other: while requests come one after the other, no two   *)
(* slots are on their way to store for different label sets (M12-R8).      *)
OneSavesAtATime ==
  \A v, w \in Workers :
    {wstage[v], wstage[w]} \subseteq {"load", "classify", "exists", "progress", "save"}
    /\ Exists(wjob[v]) /\ Exists(wjob[w])
    => wjob[v] = wjob[w]

(* Nothing is stored for a classification that was deleted, by a job that  *)
(* waited, ran or came back after a failure, unless a slot had already     *)
(* passed its last look at the run (M12-R5, #512).                         *)
OrphansOnlyFromTheWindow == labels = "gone" /\ ~late => assigned = NoId

(* custom-classify-run.types.ts:9: labels that are changed start a new run *)
(* over.  Then, when nothing is under way and nothing has failed, what the *)
(* view shows was assigned from the labels that were confirmed.            *)
ConfirmedLabelsAreApplied ==
  /\ \A c \in Clients : stage[c] = "idle"
  /\ \A i \in Ids : status[i] \in {NoRow, "completed"} /\ job[i] \in {"absent", "completed"}
  => labels \in {"draft", "gone", assigned}
=============================================================================
