----------------------------- MODULE JourneyRun -----------------------------
(***************************************************************************)
(* Purchase-journey classification: JourneyRunService and                  *)
(* JourneyRunRepository on the request side (RunJob), and the body of      *)
(* JourneyProcessor, which loads a snapshot, has its keywords staged,      *)
(* stores them in one transaction and closes the run itself, also when its *)
(* last attempt has failed.                                                *)
(***************************************************************************)
EXTENDS RunJob

VARIABLE assigned       \* TRUE: keyword_journey_assignments has the run's snapshot

\* An instance has them as Resettable, and no AtomicReset.
ResetStatuses == {"failed", "canceled"}

vars == <<runVars, assigned>>

WorkStage == {"start", "load", "classify", "save", "markDone", "tick", "catch", "finish", "fail"}

TypeOK ==
  /\ RunTypeOK
  /\ wstage \in [Workers -> {"idle"} \cup WorkStage]
  /\ assigned \in [Ids -> BOOLEAN]

Init == RunInit /\ assigned = [i \in Ids |-> FALSE]

-----------------------------------------------------------------------------
(* JourneyProcessor.process.                                               *)

Start(w) ==
  /\ wstage[w] = "start"
  /\ MarkStatus(wjob[w], "running", Undefined)
  /\ WGoto(w, "load")
  /\ UNCHANGED <<queueVars, reqVars, assigned>>

MarkBeforeSave(w) ==
  /\ \/ wstage[w] = "load" /\ WGoto(w, "classify")
     \/ wstage[w] = "classify" /\ WGoto(w, "markDone")
  /\ UNCHANGED <<queueVars, rowVars, reqVars, assigned>>

\* Reads, progress writes and the classifier, which degrades rather than throw.
Read(w) ==
  /\ \/ wstage[w] = "load" /\ WGoto(w, "classify")
     \/ wstage[w] = "classify" /\ WGoto(w, "save")
  /\ UNCHANGED <<queueVars, rowVars, reqVars, assigned>>

Save(w) ==
  /\ wstage[w] = "save"
  /\ assigned' = [assigned EXCEPT ![wjob[w]] = TRUE]
  /\ WGoto(w, "markDone")
  /\ UNCHANGED <<queueVars, rowVars, reqVars>>

MarkDone(w) ==
  /\ wstage[w] = "markDone"
  /\ MarkStatus(wjob[w], "completed", "some")
  /\ WGoto(w, "tick")
  /\ UNCHANGED <<queueVars, reqVars, assigned>>

TickMayThrow(w) ==
  /\ wstage[w] = "tick"
  /\ WGoto(w, "finish") \/ WGoto(w, "catch")
  /\ UNCHANGED <<queueVars, rowVars, reqVars, assigned>>

\* The last progress report is a best effort: it cannot lead to the catch block.
Tick(w) ==
  /\ wstage[w] = "tick"
  /\ WGoto(w, "finish")
  /\ UNCHANGED <<queueVars, rowVars, reqVars, assigned>>

\* Any awaited call before that: Prisma or Redis.
Throw(w) ==
  /\ wstage[w] \in WorkStage \ {"tick", "catch", "finish", "fail"}
  /\ WGoto(w, "catch")
  /\ UNCHANGED <<queueVars, rowVars, reqVars, assigned>>

AnyAttempt(w) == TRUE

\* Foretells whether BullMQ will retry: the negation of its own test.
IsFinalAttempt(w) == wmade[w] + 1 >= JobAttempts

Catch(w) ==
  /\ wstage[w] = "catch"
  /\ \/ IsFinalAttempt(w) /\ MarkStatus(wjob[w], "failed", Undefined)
     \/ (IsFinalAttempt(w) => "writeLost" \in Faults) /\ UNCHANGED rowVars
  /\ WGoto(w, "fail")
  /\ UNCHANGED <<queueVars, reqVars, assigned>>

Process(w) == Start(w) \/ Read(w) \/ Save(w) \/ MarkDone(w) \/ Tick(w) \/ Catch(w)

\* JourneyRunService.create with createRun and enqueueReusingJobId.
Create == AnyRequest /\ UNCHANGED assigned
Slots  == AnySlot /\ UNCHANGED assigned

Next == \/ Create \/ Slots
        \/ \E w \in Workers : Process(w) \/ Throw(w)

Spec == Init /\ [][Next]_vars

\* As for TopicRun.
Fairness ==
  /\ \A c \in Clients : WF_vars(RequestWork(c) /\ UNCHANGED assigned)
  /\ \A w \in Workers : WF_vars((SlotWork(w) /\ UNCHANGED assigned) \/ Process(w))
  /\ \A i \in Ids : WF_vars(QueueWork(i) /\ UNCHANGED assigned)

FairSpec == Spec /\ Fairness

-----------------------------------------------------------------------------
InProgress(i) == \E c \in Clients : reqRun[c] = i

(* What getStatus reports as completed can be queried: the assignments are *)
(* stored and counted, whatever retries, doubles and restarts came before. *)
CompletedRunIsStored ==
  \A i \in Ids : status[i] = "completed" => assigned[i] /\ count[i] = "some"

(* M12-R9: a run is failed exactly when the queue will not try again.  One *)
(* that shows failed in the middle of a backoff would be reset by a        *)
(* request while it is still being worked on; one that is given up and not *)
(* failed could not be restarted.  The catch block foretells it.           *)
FailedWhenGivenUp ==
  \A i \in Ids :
    /\ status[i] = "failed" => job[i] # "wait" /\ \A w \in Workers : wjob[w] = i => wstage[w] = "fail"
    /\ job[i] = "failed" => status[i] = "failed" \/ InProgress(i)

(* INV-3: once completed is committed, nothing the same job still does     *)
(* turns the run into a failed one.                                        *)
CommittedRunStays == [][\A i \in Ids : status[i] = "completed" => status'[i] # "failed"]_vars

(* An accepted run ends: its last attempt completes it or closes it, and   *)
(* a request can restart a closed one however its job ended.               *)
EveryRunEnds == \A i \in Ids : status[i] = "queued" ~> status[i] \in {"completed", "failed"}

(* journey-run.repository.ts:47: two requests that both reset a failed run *)
(* do harmless double work, since the queue runs one job.  Then a run      *)
(* whose job has completed is completed once the requests are answered.    *)
DoubleResetIsBenign ==
  \A i \in Ids : job[i] = "completed" => status[i] = "completed" \/ InProgress(i)
=============================================================================
