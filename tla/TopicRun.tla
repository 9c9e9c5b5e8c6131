------------------------------ MODULE TopicRun ------------------------------
(***************************************************************************)
(* Topic clustering: TopicsService.create and TopicRepository on the       *)
(* request side (RunJob), and the body of TopicClusterProcessor, which     *)
(* loads a snapshot, embeds and clusters its keywords, names the clusters, *)
(* stores them in one transaction and closes the run.                      *)
(***************************************************************************)
EXTENDS RunJob

VARIABLE clusters       \* TRUE: topic_clusters has rows of the run

\* An instance has them as Resettable, and no AtomicReset.
ResetStatuses == {"failed"}

vars == <<runVars, clusters>>

WorkStage == {"start", "load", "cluster", "persist", "markSome", "markZero", "markDegraded",
              "finish", "fail"}

TypeOK ==
  /\ RunTypeOK
  /\ wstage \in [Workers -> {"idle"} \cup WorkStage]
  /\ clusters \in [Ids -> BOOLEAN]

Init == RunInit /\ clusters = [i \in Ids |-> FALSE]

-----------------------------------------------------------------------------
(* TopicClusterProcessor.process, one step per part that can fail alone.   *)

\* An unconditional update, whatever the row says.
Start(w) ==
  /\ wstage[w] = "start"
  /\ MarkStatus(wjob[w], "running", Undefined)
  /\ WGoto(w, "load")
  /\ UNCHANGED <<queueVars, reqVars, clusters>>

\* The snapshot's rows, and SERP context when asked for: a SERP failure degrades.
Load(w) ==
  /\ wstage[w] = "load"
  /\ WGoto(w, "cluster")
  /\ UNCHANGED <<queueVars, rowVars, reqVars, clusters>>

\* The embedding and clustering services answer, or are out of reach after retries.
Cluster(w) ==
  /\ wstage[w] = "cluster"
  /\ WGoto(w, "persist") \/ WGoto(w, "markDegraded")
  /\ UNCHANGED <<queueVars, rowVars, reqVars, clusters>>

PersistOnTop(w) ==
  /\ wstage[w] = "persist"
  /\ \E any \in BOOLEAN :
       /\ clusters' = [clusters EXCEPT ![wjob[w]] = @ \/ any]
       /\ WGoto(w, IF any THEN "markSome" ELSE "markZero")
  /\ UNCHANGED <<queueVars, rowVars, reqVars>>

\* The transaction deletes what an earlier attempt stored, then writes; every
\* keyword may have turned out to be noise.
Persist(w) ==
  /\ wstage[w] = "persist"
  /\ \E any \in BOOLEAN :
       /\ clusters' = [clusters EXCEPT ![wjob[w]] = any]
       /\ WGoto(w, IF any THEN "markSome" ELSE "markZero")
  /\ UNCHANGED <<queueVars, rowVars, reqVars>>

\* decideRunStatus: partial when SERP or a name degraded.
MarkDone(w) ==
  /\ \E s \in {"completed", "partial"} :
       \/ wstage[w] = "markSome" /\ MarkStatus(wjob[w], s, "some")
       \/ wstage[w] = "markZero" /\ MarkStatus(wjob[w], s, "zero")
  /\ WGoto(w, "finish")
  /\ UNCHANGED <<queueVars, reqVars, clusters>>

FinalizePartial(w) ==
  /\ wstage[w] = "markDegraded"
  /\ MarkStatus(wjob[w], "partial", "zero")
  /\ WGoto(w, "finish")
  /\ UNCHANGED <<queueVars, reqVars, clusters>>

\* A database error, or a clustering answer that breaks its contract.
Throw(w) ==
  /\ wstage[w] \in WorkStage \ {"finish", "fail"}
  /\ WGoto(w, "fail")
  /\ UNCHANGED <<queueVars, rowVars, reqVars, clusters>>

Process(w) == Start(w) \/ Load(w) \/ Cluster(w) \/ Persist(w) \/ MarkDone(w) \/ FinalizePartial(w)

\* TopicsService.create with createRun and enqueueReusingJobId.
Create == AnyRequest /\ UNCHANGED clusters
Slots  == AnySlot /\ UNCHANGED clusters

Next == \/ Create \/ Slots
        \/ \E w \in Workers : Process(w) \/ Throw(w)

Spec == Init /\ [][Next]_vars

\* As for the keyword analysis: accepted requests and taken jobs go on, waiting and
\* stalled jobs are given out.  Nobody has to send a request, and nothing has to fail.
Fairness ==
  /\ \A c \in Clients : WF_vars(RequestWork(c) /\ UNCHANGED clusters)
  /\ \A w \in Workers : WF_vars((SlotWork(w) /\ UNCHANGED clusters) \/ Process(w))
  /\ \A i \in Ids : WF_vars(QueueWork(i) /\ UNCHANGED clusters)

FairSpec == Spec /\ Fairness

-----------------------------------------------------------------------------
(* What a finished run reports is what is stored: getTopics joins the      *)
(* row's clusterCount with topic_clusters, and no retry, crash or repeated *)
(* request may let the two drift apart.                                    *)
DoneRunHasItsClusters ==
  \A i \in Ids :
    /\ status[i] = "completed" => (clusters[i] <=> count[i] = "some")
    /\ status[i] = "partial" /\ count[i] = "some" => clusters[i]

(* Every run that was accepted leaves the queue: a worker starts it, the   *)
(* request that could not queue it closes it, or the queue gives the job   *)
(* up because every attempt died before its first write.                   *)
EveryRunStarts ==
  \A i \in Ids : status[i] = "queued" ~> (status[i] # "queued" \/ job[i] = "failed")

(* topic-cluster.processor.ts:71: an infrastructure error or a broken      *)
(* contract surfaces as failed once the attempts are used up.              *)
ExhaustedRunIsFailed ==
  \A i \in Ids : job[i] = "failed" /\ status[i] # "queued" => status[i] = "failed"
=============================================================================
