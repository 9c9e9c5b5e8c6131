--------------------------- MODULE TopicRunProofs ---------------------------
(***************************************************************************)
(* Theorems about TopicRun, for any number of runs, requests and slots,    *)
(* any attempt and stall limits and any combination of faults.             *)
(***************************************************************************)
EXTENDS TopicRun, RunJobProofs

SlotStage == {"idle"} \cup WorkStage

TypeInv == TypeOK /\ RunLocals

LEMMA TypeInvIsRunTypes ==
  TypeInv <=> RunTypes(SlotStage) /\ clusters \in [Ids -> BOOLEAN]
BY DEF TypeInv, TypeOK, RunTypes, SlotStage

LEMMA InitTypeInv ==
  ASSUME Init
  PROVE  TypeInv
BY RunInitTypes, TypeInvIsRunTypes DEF Init, SlotStage

\* What a step of the processor's body does to the row and the slot.
LEMMA ProcessTypes ==
  ASSUME TypeInv, NEW w \in Workers, Process(w) \/ Throw(w)
  PROVE  TypeInv'
<1> USE DEF TypeInv, TypeOK, RunTypeOK, RunLocals, WorkStage, WGoto, queueVars, rowVars, reqVars,
        QueueTypeOK
<1>1. CASE Start(w) \/ MarkDone(w) \/ FinalizePartial(w)
  <2>1. wjob[w] \in Ids /\ wstage[w] # "idle"
    BY <1>1 DEF Start, MarkDone, FinalizePartial
  <2>2. status' \in [Ids -> RunStatus \cup {NoRow}] /\ count' \in [Ids -> Count]
    BY <1>1, <2>1, MarkStatusTypes DEF Start, MarkDone, FinalizePartial, RunStatus, Count
  <2>3. /\ wstage' \in [Workers -> {"idle"} \cup WorkStage]
        /\ \A v \in Workers : wstage'[v] # "idle" => wstage[v] # "idle"
        /\ UNCHANGED <<queueVars, reqVars, wjob, wmade, clusters>>
    BY <1>1, <2>1 DEF Start, MarkDone, FinalizePartial
  <2>4. QueueTypeOK'
    BY <2>3
  <2>5. RunLocals'
    BY <2>3
  <2>6. QED  BY <2>2, <2>3, <2>4, <2>5
<1>2. CASE Load(w) \/ Cluster(w) \/ Throw(w)
  BY <1>2 DEF Load, Cluster, Throw
<1>3. CASE Persist(w)
  BY <1>3 DEF Persist
<1>4. QED  BY <1>1, <1>2, <1>3 DEF Process

LEMMA NextTypeInv ==
  ASSUME TypeInv, [Next]_vars
  PROVE  TypeInv'
<1>1. CASE Create \/ Slots
  <2>1. RunTypes(SlotStage) /\ clusters \in [Ids -> BOOLEAN]
    BY TypeInvIsRunTypes
  <2>2. "idle" \in SlotStage /\ "start" \in SlotStage
    BY DEF SlotStage, WorkStage
  <2>3. RunTypes(SlotStage)'
    BY <1>1, <2>1, <2>2, RunStepTypes DEF Create, Slots, RunStep
  <2>4. QED  BY <1>1, <2>1, <2>3 DEF Create, Slots, TypeInv, TypeOK, RunTypes, SlotStage
<1>2. CASE \E w \in Workers : Process(w) \/ Throw(w)
  BY <1>2, ProcessTypes
<1>3. CASE UNCHANGED vars
  BY <1>3 DEF vars, runVars, queueVars, rowVars, reqVars, workerVars, TypeInv, TypeOK, RunTypeOK,
     QueueTypeOK, RunLocals
<1>4. QED  BY <1>1, <1>2, <1>3 DEF Next

(* Every reachable state is well typed: rows, jobs, clusters and the       *)
(* locals of createRun and of the processor.                               *)
THEOREM Typing == Spec => []TypeOK
<1>1. Spec => []TypeInv
  BY InitTypeInv, NextTypeInv, PTL DEF Spec
<1>2. TypeInv => TypeOK
  BY DEF TypeInv
<1>3. QED  BY <1>1, <1>2, PTL

-----------------------------------------------------------------------------
LEMMA ProcessIsBodyStep ==
  ASSUME TypeInv, NEW w \in Workers, Process(w) \/ Throw(w)
  PROVE  BodyStep(w)
<1> USE DEF TypeInv, TypeOK, RunTypeOK, RunLocals, WorkStage, WGoto, queueVars, rowVars, reqVars,
        QueueTypeOK, BodyStep, NotBegun
<1>1. CASE Start(w) \/ MarkDone(w) \/ FinalizePartial(w)
  BY <1>1 DEF Start, MarkDone, FinalizePartial, MarkStatus
<1>2. CASE Load(w) \/ Cluster(w) \/ Throw(w) \/ Persist(w)
  BY <1>2 DEF Load, Cluster, Throw, Persist
<1>3. QED  BY <1>1, <1>2 DEF Process

LEMMA NextOwner ==
  ASSUME TypeInv, OwnerInv, [Next]_vars
  PROVE  OwnerInv'
<1>1. RunTypes(SlotStage)
  BY TypeInvIsRunTypes
<1>2. CASE Create \/ Slots
  BY <1>1, <1>2, RunStepOwner DEF Create, Slots, RunStep
<1>3. CASE \E w \in Workers : Process(w) \/ Throw(w)
  BY <1>1, <1>3, ProcessIsBodyStep, BodyOwner
<1>4. CASE UNCHANGED vars
  BY <1>4 DEF vars, runVars, queueVars, rowVars, reqVars, workerVars, OwnerInv, LocksHeld, QueuedRows,
     JobIsAhead, RequestLooks
<1>5. QED  BY <1>2, <1>3, <1>4 DEF Next

(* However many requests create, reset and queue a run, whatever the queue *)
(* refuses and however slots crash or lose their locks: a queued run has a *)
(* job ahead of it or a request that still deals with it.                  *)
THEOREM QueuedRunsAreOwned == Spec => []QueuedHasOwner
<1>1. Init => TypeInv /\ OwnerInv
  BY InitTypeInv, RunInitOwner DEF Init
<1>2. TypeInv /\ OwnerInv /\ [Next]_vars => TypeInv' /\ OwnerInv'
  BY NextTypeInv, NextOwner
<1>3. OwnerInv => QueuedHasOwner
  BY OwnerInvGivesOwner
<1>4. QED  BY <1>1, <1>2, <1>3, PTL DEF Spec

-----------------------------------------------------------------------------
(* Why a done run has its clusters.  While a slot works towards its mark   *)
(* the row is not done, so what it stores is not on show yet; as the only  *)
(* slot with the job, it then reports exactly what it has stored; and a    *)
(* later delivery takes the row back to running before it stores anew.     *)
Working == {"load", "cluster", "persist", "markSome", "markZero", "markDegraded"}

Unmarked == \A w \in Workers : wstage[w] \in Working => status[wjob[w]] \notin {"completed", "partial"}
Counted  == \A w \in Workers : /\ wstage[w] = "markSome" => clusters[wjob[w]]
                               /\ wstage[w] = "markZero" => ~clusters[wjob[w]]

ClustersInv == Sole /\ Unmarked /\ Counted /\ DoneRunHasItsClusters

LEMMA ProcessClusters ==
  ASSUME TypeInv, OwnerInv, ClustersInv, NEW w \in Workers, Process(w) \/ Throw(w)
  PROVE  ClustersInv'
<1> USE DEF TypeInv, TypeOK, RunTypeOK, RunLocals, ClustersInv, WGoto, Working
<1>1. wstage[w] # "idle" /\ RunTypes(SlotStage)
  BY TypeInvIsRunTypes DEF Process, Start, Load, Cluster, Persist, MarkDone, FinalizePartial, Throw, WorkStage
<1>2. wjob[w] \in Ids /\ \A v \in Workers : wstage[v] # "idle" /\ wjob[v] = wjob[w] => v = w
  BY <1>1, LoneSlot
<1>3. Sole'
  BY <1>1, BodySole, ProcessIsBodyStep
<1>4. CASE Start(w)
  BY <1>2, <1>3, <1>4 DEF Start, MarkStatus, Undefined, Unmarked, Counted, DoneRunHasItsClusters
<1>5. CASE Load(w) \/ Cluster(w) \/ Throw(w)
  <2>1. /\ UNCHANGED <<status, count, clusters, wjob>>
        /\ \A v \in Workers \ {w} : wstage'[v] = wstage[v]
        /\ \/ wstage'[w] \in {"cluster", "persist", "markDegraded"} /\ wstage[w] \in Working
           \/ wstage'[w] = "fail"
    BY <1>5 DEF Load, Cluster, Throw, rowVars
  <2>2. QED  BY <1>3, <2>1 DEF Unmarked, Counted, DoneRunHasItsClusters
<1>6. CASE Persist(w)
  <2>1. PICK any \in BOOLEAN : /\ clusters' = [clusters EXCEPT ![wjob[w]] = any]
                               /\ wstage' = [wstage EXCEPT ![w] = IF any THEN "markSome" ELSE "markZero"]
    BY <1>6 DEF Persist
  <2>2. UNCHANGED <<status, count, wjob>> /\ status[wjob[w]] \notin {"completed", "partial"}
    BY <1>6 DEF Persist, rowVars, Unmarked
  <2>3. Unmarked' /\ Counted'
    BY <1>1, <1>2, <2>1, <2>2 DEF Unmarked, Counted
  <2>4. DoneRunHasItsClusters'
    BY <1>2, <2>1, <2>2 DEF DoneRunHasItsClusters
  <2>5. QED  BY <1>3, <2>3, <2>4
<1>7. CASE MarkDone(w) \/ FinalizePartial(w)
  <2>1. /\ UNCHANGED <<clusters, wjob>> /\ wstage' = [wstage EXCEPT ![w] = "finish"]
        /\ \A i \in Ids \ {wjob[w]} : status'[i] = status[i] /\ count'[i] = count[i]
        /\ \/ wstage[w] = "markSome" /\ count'[wjob[w]] = "some"
           \/ wstage[w] = "markZero" /\ count'[wjob[w]] = "zero"
           \/ status'[wjob[w]] = "partial" /\ count'[wjob[w]] = "zero"
    BY <1>2, <1>7 DEF MarkDone, FinalizePartial, MarkStatus, Undefined
  <2>2. Unmarked' /\ Counted'
    BY <1>2, <2>1 DEF Unmarked, Counted
  <2>3. DoneRunHasItsClusters'
    BY <1>2, <2>1 DEF DoneRunHasItsClusters, Counted
  <2>4. QED  BY <1>3, <2>2, <2>3
<1>8. QED  BY <1>4, <1>5, <1>6, <1>7 DEF Process

LEMMA NextClusters ==
  ASSUME TypeInv, OwnerInv, ClustersInv, [Next]_vars, "lockLost" \notin Faults
  PROVE  ClustersInv'
<1>1. RunTypes(SlotStage)
  BY TypeInvIsRunTypes
<1>2. CASE Create \/ Slots
  <2>1. RunStep /\ UNCHANGED clusters
    BY <1>2 DEF Create, Slots, RunStep
  <2>2. Sole'
    BY <1>1, <2>1, RunStepSole DEF ClustersInv
  <2>3. \A i \in Ids : status'[i] \in {"queued", "failed"} \/ (status'[i] = status[i] /\ count'[i] = count[i])
    BY <1>1, <2>1, RunStepRows
  <2>4. \A w \in Workers : wstage'[w] \in {"idle", "start"} \/ (wstage'[w] = wstage[w] /\ wjob'[w] = wjob[w])
    BY <1>1, <2>1, RunStepSlots
  <2>5. \A w \in Workers : wstage[w] # "idle" => wjob[w] \in Ids
    BY <1>1 DEF RunTypes, RunLocals
  <2>6. Unmarked'
    BY <2>3, <2>4, <2>5 DEF ClustersInv, Unmarked, Working
  <2>7. Counted'
    BY <2>1, <2>4 DEF ClustersInv, Counted
  <2>8. DoneRunHasItsClusters'
    BY <2>1, <2>3 DEF ClustersInv, DoneRunHasItsClusters
  <2>9. QED  BY <2>2, <2>6, <2>7, <2>8 DEF ClustersInv
<1>3. CASE \E w \in Workers : Process(w) \/ Throw(w)
  BY <1>3, ProcessClusters
<1>4. CASE UNCHANGED vars
  BY <1>4 DEF vars, runVars, queueVars, rowVars, workerVars, ClustersInv, Sole, Unmarked, Counted, DoneRunHasItsClusters
<1>5. QED  BY <1>2, <1>3, <1>4 DEF Next

(* A completed run has clusters exactly if it counts some, and a partial   *)
(* one has those it counts, whatever requests reset it and however often   *)
(* its job throws, crashes, stalls and is delivered again - provided no    *)
(* slot goes on without its lock: two slots with one job could each store  *)
(* what the other reports.                                                 *)
THEOREM DoneRunsHaveTheirClusters ==
  ASSUME "lockLost" \notin Faults
  PROVE  Spec => []DoneRunHasItsClusters
<1>1. Init => TypeInv /\ OwnerInv /\ ClustersInv
  BY InitTypeInv, RunInitOwner DEF Init, RunInit, ClustersInv, Sole, Unmarked, Counted, DoneRunHasItsClusters,
     Working, NoRow
<1>2. TypeInv /\ OwnerInv /\ ClustersInv /\ [Next]_vars => TypeInv' /\ OwnerInv' /\ ClustersInv'
  BY NextTypeInv, NextOwner, NextClusters
<1>3. ClustersInv => DoneRunHasItsClusters
  BY DEF ClustersInv
<1>4. QED  BY <1>1, <1>2, <1>3, PTL DEF Spec
=============================================================================
