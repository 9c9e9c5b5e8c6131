-------------------------- MODULE JourneyRunProofs --------------------------
(***************************************************************************)
(* Theorems about JourneyRun, for any number of runs, requests and slots   *)
(* and any attempt and stall limits.  Types, ownership and storage hold    *)
(* under any combination of faults; the last two theorems say which faults *)
(* they exclude.                                                           *)
(***************************************************************************)
EXTENDS JourneyRun, RunJobProofs

SlotStage == {"idle"} \cup WorkStage

TypeInv == TypeOK /\ RunLocals

LEMMA TypeInvIsRunTypes ==
  TypeInv <=> RunTypes(SlotStage) /\ assigned \in [Ids -> BOOLEAN]
BY DEF TypeInv, TypeOK, RunTypes, SlotStage

LEMMA InitTypeInv ==
  ASSUME Init
  PROVE  TypeInv
BY RunInitTypes, TypeInvIsRunTypes DEF Init, SlotStage

LEMMA ProcessTypes ==
  ASSUME TypeInv, NEW w \in Workers, Process(w) \/ Throw(w)
  PROVE  TypeInv'
<1> USE DEF TypeInv, TypeOK, RunTypeOK, RunLocals, WorkStage, WGoto, queueVars, rowVars, reqVars,
        QueueTypeOK
<1>1. CASE Start(w) \/ MarkDone(w) \/ Catch(w)
  <2>1. wjob[w] \in Ids /\ wstage[w] # "idle"
    BY <1>1 DEF Start, MarkDone, Catch
  <2>2. status' \in [Ids -> RunStatus \cup {NoRow}] /\ count' \in [Ids -> Count]
    BY <1>1, <2>1, MarkStatusTypes DEF Start, MarkDone, Catch, RunStatus, Count
  <2>3. /\ wstage' \in [Workers -> {"idle"} \cup WorkStage]
        /\ \A v \in Workers : wstage'[v] # "idle" => wstage[v] # "idle"
        /\ UNCHANGED <<queueVars, reqVars, wjob, wmade, assigned>>
    BY <1>1, <2>1 DEF Start, MarkDone, Catch
  <2>4. QueueTypeOK' /\ RunLocals'
    BY <2>3
  <2>5. QED  BY <2>2, <2>3, <2>4
<1>2. CASE Read(w) \/ Tick(w) \/ Throw(w)
  BY <1>2 DEF Read, Tick, Throw
<1>3. CASE Save(w)
  BY <1>3 DEF Save
<1>4. QED  BY <1>1, <1>2, <1>3 DEF Process

LEMMA NextTypeInv ==
  ASSUME TypeInv, [Next]_vars
  PROVE  TypeInv'
<1>1. CASE Create \/ Slots
  <2>1. RunTypes(SlotStage) /\ assigned \in [Ids -> BOOLEAN]
    BY TypeInvIsRunTypes
  <2>2. "idle" \in SlotStage /\ "start" \in SlotStage
    BY DEF SlotStage, WorkStage
  <2>3. RunTypes(SlotStage)'
    BY <1>1, <2>1, <2>2, RunStepTypes DEF Create, Slots, RunStep
  <2>4. QED  BY <1>1, <2>1, <2>3 DEF Create, Slots, TypeInv, TypeOK, RunTypes, SlotStage
<1>2. CASE \E w \in Workers : Process(w) \/ Throw(w)
  BY <1>2, ProcessTypes
<1>3. CASE UNCHANGED vars
  BY <1>3 DEF vars, runVars, queueVars, rowVars, reqVars, workerVars, TypeInv, TypeOK, RunTypeOK,
     QueueTypeOK, RunLocals
<1>4. QED  BY <1>1, <1>2, <1>3 DEF Next

(* Every reachable state is well typed: rows, jobs, assignments and the    *)
(* locals of createRun and of the processor.                               *)
THEOREM Typing == Spec => []TypeOK
<1>1. Spec => []TypeInv
  BY InitTypeInv, NextTypeInv, PTL DEF Spec
<1>2. TypeInv => TypeOK
  BY DEF TypeInv
<1>3. QED  BY <1>1, <1>2, PTL

-----------------------------------------------------------------------------
(* Why completed means stored: a slot that is about to write completed has *)
(* stored the assignments of its run, and nothing takes them away.         *)
SavedBeforeMark == \A w \in Workers : wstage[w] = "markDone" => assigned[wjob[w]]

StoredInv == SavedBeforeMark /\ CompletedRunIsStored

LEMMA ProcessStored ==
  ASSUME TypeInv, StoredInv, NEW w \in Workers, Process(w) \/ Throw(w)
  PROVE  StoredInv'
<1> USE DEF TypeInv, TypeOK, RunTypeOK, RunLocals, StoredInv, WGoto
<1>1. wstage[w] # "idle" => wjob[w] \in Ids
  OBVIOUS
<1>2. CASE Start(w) \/ Catch(w)
  BY <1>1, <1>2 DEF Start, Catch, MarkStatus, Undefined, SavedBeforeMark, CompletedRunIsStored, rowVars
<1>3. CASE MarkDone(w)
  BY <1>1, <1>3 DEF MarkDone, MarkStatus, Undefined, SavedBeforeMark, CompletedRunIsStored
<1>4. CASE Read(w) \/ Tick(w) \/ Throw(w)
  BY <1>4 DEF Read, Tick, Throw, SavedBeforeMark, CompletedRunIsStored, rowVars
<1>5. CASE Save(w)
  BY <1>1, <1>5 DEF Save, SavedBeforeMark, CompletedRunIsStored, rowVars
<1>6. QED  BY <1>2, <1>3, <1>4, <1>5 DEF Process

LEMMA NextStored ==
  ASSUME TypeInv, StoredInv, [Next]_vars
  PROVE  StoredInv'
<1>1. RunTypes(SlotStage)
  BY TypeInvIsRunTypes
<1>2. CASE Create \/ Slots
  <2>1. RunStep /\ UNCHANGED assigned
    BY <1>2 DEF Create, Slots, RunStep
  <2>2. SavedBeforeMark'
    BY <1>1, <2>1, RunStepSlots DEF StoredInv, SavedBeforeMark
  <2>3. CompletedRunIsStored'
    BY <1>1, <2>1, RunStepRows DEF StoredInv, CompletedRunIsStored
  <2>4. QED  BY <2>2, <2>3 DEF StoredInv
<1>3. CASE \E w \in Workers : Process(w) \/ Throw(w)
  BY <1>3, ProcessStored
<1>4. CASE UNCHANGED vars
  BY <1>4 DEF vars, runVars, rowVars, workerVars, StoredInv, SavedBeforeMark, CompletedRunIsStored
<1>5. QED  BY <1>2, <1>3, <1>4 DEF Next

(* However many requests reset a run and however its job is retried, run   *)
(* twice at a time or restarted after a crash: a run that reads completed  *)
(* has the assignments it counts.                                          *)
THEOREM CompletedIsStored == Spec => []CompletedRunIsStored
<1>1. Init => TypeInv /\ StoredInv
  BY InitTypeInv DEF Init, RunInit, StoredInv, SavedBeforeMark, CompletedRunIsStored, NoRow
<1>2. TypeInv /\ StoredInv /\ [Next]_vars => TypeInv' /\ StoredInv'
  BY NextTypeInv, NextStored
<1>3. StoredInv => CompletedRunIsStored
  BY DEF StoredInv
<1>4. QED  BY <1>1, <1>2, <1>3, PTL DEF Spec

-----------------------------------------------------------------------------
LEMMA ProcessIsBodyStep ==
  ASSUME TypeInv, NEW w \in Workers, Process(w) \/ Throw(w)
  PROVE  BodyStep(w)
<1> USE DEF TypeInv, TypeOK, RunTypeOK, RunLocals, WorkStage, WGoto, queueVars, rowVars, reqVars,
        QueueTypeOK, BodyStep, NotBegun
<1>1. CASE Start(w) \/ MarkDone(w) \/ Catch(w)
  BY <1>1 DEF Start, MarkDone, Catch, MarkStatus
<1>2. CASE Read(w) \/ Save(w) \/ Tick(w) \/ Throw(w)
  BY <1>2 DEF Read, Save, Tick, Throw
<1>3. QED  BY <1>1, <1>2 DEF Process

LEMMA NextOwner ==
  ASSUME TypeInv, OwnerInv, [Next]_vars
  PROVE  OwnerInv'
<1>1. RunTypes(SlotStage)
  BY TypeInvIsRunTypes
<1>2. CASE Create \/ Slots
  BY <1>1, <1>2, RunStepOwner DEF Create, Slots, RunStep
<1>3. CASE \E w \in Workers : Process(w) \/ Throw(w)
  BY <1>1, <1>3, ProcessIsBodyStep, BodyOwner
<1>4. CASE UNCHANGED vars
  BY <1>4 DEF vars, runVars, queueVars, rowVars, reqVars, workerVars, OwnerInv, LocksHeld, QueuedRows,
     JobIsAhead, RequestLooks
<1>5. QED  BY <1>2, <1>3, <1>4 DEF Next

(* A queued journey run has a job ahead of it or a request that still      *)
(* deals with it, as for the topic runs.                                   *)
THEOREM QueuedRunsAreOwned == Spec => []QueuedHasOwner
<1>1. Init => TypeInv /\ OwnerInv
  BY InitTypeInv, RunInitOwner DEF Init
<1>2. TypeInv /\ OwnerInv /\ [Next]_vars => TypeInv' /\ OwnerInv'
  BY NextTypeInv, NextOwner
<1>3. OwnerInv => QueuedHasOwner
  BY OwnerInvGivesOwner
<1>4. QED  BY <1>1, <1>2, <1>3, PTL DEF Spec

-----------------------------------------------------------------------------
(* Why a completed run stays, and a failed one has been given up.  Without *)
(* crashes and lost locks one slot works on a job and knows whether its    *)
(* attempt is the last.  As long as no two requests are about one run, a   *)
(* row that may be reset has no attempt left, also while a request resets  *)
(* and queues it; and a completed row has a slot past its last write, if   *)
(* it has one.                                                             *)
OneRequestPerRun ==
  \A c, d \in Clients :
    stage[c] # "idle" /\ stage[d] # "idle" /\ reqRun[c] = reqRun[d] => c = d

IdleHasNone == \A w \in Workers : wstage[w] = "idle" => wjob[w] = NoId

Over(i) ==
  /\ job[i] # "wait"
  /\ \A w \in Workers : wjob[w] = i => wstage[w] = "fail" /\ wmade[w] + 1 >= JobAttempts

ClosedOver == \A i \in Ids : status[i] \in ResetStatuses \cup {NoRow} => Over(i)

Requesting ==
  \A c \in Clients :
    /\ stage[c] = "reset" => status[reqRun[c]] \in ResetStatuses
    /\ stage[c] \in EnqueueStage => status[reqRun[c]] = "queued" /\ Over(reqRun[c])
    /\ stage[c] = "add" => job[reqRun[c]] = "absent"

Uncommitted ==
  \A i \in Ids : status[i] = "completed" =>
    /\ job[i] # "wait"
    /\ \A w \in Workers : wjob[w] = i => wstage[w] \in {"tick", "finish"}

CalmInv   == Sole /\ ActiveHeld /\ MadeKnown /\ IdleHasNone
CommitInv == CalmInv /\ ClosedOver /\ Requesting /\ Uncommitted

Calm == Resettable = ResetStatuses /\ Faults \subseteq CalmFaults

\* What a request leaves alone, and the run it is about.
LEMMA RequestFrame ==
  ASSUME TypeInv, NEW c \in Clients, RequestStep(c)
  PROVE  /\ UNCHANGED <<lock, wstage, wjob, wmade>>
         /\ \A d \in Clients \ {c} : stage'[d] = stage[d] /\ reqRun'[d] = reqRun[d]
         /\ stage[c] # "idle" => reqRun[c] \in Ids
         /\ \A i \in Ids : stage[c] = "idle" \/ i # reqRun[c] =>
              status'[i] = status[i] /\ job'[i] = job[i] /\ attempts'[i] = attempts[i]
<1> USE DEF TypeInv, TypeOK, RunTypeOK, RunLocals, QueueTypeOK, queueVars, rowVars, workerVars, Goto, Done
<1>1. CASE (\E i \in Ids : Request(c, i)) \/ Find(c) \/ GetJob(c) \/ GetState(c) \/ QueueCallFails(c)
  BY <1>1 DEF Request, Find, GetJob, GetState, QueueCallFails
<1>2. CASE Insert(c) \/ Reset(c)
  BY <1>2 DEF Insert, Reset, WriteQueued
<1>3. CASE Remove(c) \/ Add(c)
  BY <1>3 DEF Remove, RemoveJob, RemoveRefused, Add, AddJob
<1>4. CASE MarkFailed(c)
  BY <1>4 DEF MarkFailed, MarkStatus
<1>5. QED  BY <1>1, <1>2, <1>3, <1>4 DEF RequestStep, RequestWork

LEMMA RequestCommit ==
  ASSUME TypeInv, OwnerInv, CommitInv, OneRequestPerRun, Calm, NEW c \in Clients, RequestStep(c)
  PROVE  CommitInv'
<1> USE RunAssumption, QueueAssumption
    DEF TypeInv, TypeOK, RunTypeOK, RunLocals, QueueTypeOK, CommitInv, CalmInv
<1> DEFINE r == reqRun[c]
<1>1. RunTypes(SlotStage)
  BY TypeInvIsRunTypes
<1>2. /\ UNCHANGED <<lock, wstage, wjob, wmade>>
      /\ \A d \in Clients \ {c} : stage'[d] = stage[d] /\ reqRun'[d] = reqRun[d]
      /\ stage[c] # "idle" => r \in Ids
      /\ \A i \in Ids : stage[c] = "idle" \/ i # r =>
           status'[i] = status[i] /\ job'[i] = job[i] /\ attempts'[i] = attempts[i]
  BY RequestFrame
<1>3. \A d \in Clients \ {c} : stage[c] # "idle" /\ stage[d] # "idle" => reqRun[d] # r /\ reqRun[d] \in Ids
  BY DEF OneRequestPerRun
\* What happens to the one run the request is about.
<1> DEFINE Effect ==
      /\ \/ job'[r] \in {job[r], "absent"}
         \/ job'[r] = "wait" /\ job[r] = "absent" /\ stage[c] = "add" /\ stage'[c] = "idle"
      /\ job[r] = "active" => job'[r] = "active" /\ attempts'[r] = attempts[r]
      /\ stage'[c] # "idle" => reqRun'[c] = r
      /\ stage'[c] = "reset" => status[r] \in ResetStatuses /\ status'[r] = status[r]
      /\ stage'[c] = "add" => job'[r] = "absent"
      /\ stage'[c] \in EnqueueStage =>
           \/ stage[c] \in EnqueueStage \ {"add"} /\ status'[r] = status[r]
           \/ status[r] \in ResetStatuses \cup {NoRow} /\ status'[r] = "queued" /\ stage[c] # "add"
           \/ stage[c] = "add" /\ status'[r] = status[r] /\ job'[r] = job[r]
      /\ status'[r] # status[r] =>
           \/ status'[r] = "failed" /\ stage[c] = "markFailed" /\ job'[r] = job[r]
           \/ status'[r] = "queued" /\ stage'[c] = "getJob" /\ job'[r] = job[r]
<1>4. stage[c] # "idle" => Effect
  <2> HAVE stage[c] # "idle"
  <2> USE <1>2 DEF queueVars, rowVars, Goto, Done, EnqueueStage
  <2>1. ~(\E i \in Ids : Request(c, i))
    BY DEF Request
  <2>2. CASE Find(c)
    BY <2>2 DEF Find, Calm, ResetStatuses
  <2>3. CASE Insert(c) \/ Reset(c)
    BY <2>3 DEF Insert, Reset, WriteQueued, Exists, Requesting, NoRow
  <2>4. CASE GetJob(c) \/ GetState(c) \/ QueueCallFails(c)
    BY <2>4 DEF GetJob, GetState, AfterState, QueueCallFails
  <2>5. CASE Remove(c)
    BY <2>5 DEF Remove, RemoveJob, RemoveRefused, Locked, ActiveHeld
  <2>6. CASE Add(c)
    <3>1. "addReplyLost" \notin Faults
      BY DEF Calm, CalmFaults
    <3>2. job[r] = "absent"
      BY <2>6 DEF Add, Requesting
    <3>3. QED  BY <2>6, <3>1, <3>2 DEF Add, AddJob
  <2>7. CASE MarkFailed(c)
    BY <2>7 DEF MarkFailed, MarkStatus
  <2>8. QED
    BY <2>1, <2>2, <2>3, <2>4, <2>5, <2>6, <2>7 DEF RequestStep, RequestWork
<1>5. CalmInv'
  <2>1. Sole' /\ IdleHasNone'
    BY <1>2 DEF Sole, IdleHasNone
  <2>2. ActiveHeld'
    BY <1>2, <1>4 DEF ActiveHeld
  <2>3. MadeKnown'
    BY <1>1, <1>2, <1>4, LoneSlot DEF MadeKnown
  <2>4. QED  BY <2>1, <2>2, <2>3
<1>6. \A i \in Ids : Over(i) /\ job'[i] # "wait" => Over(i)'
  BY <1>2 DEF Over
<1>7. ClosedOver'
  <2> SUFFICES ASSUME NEW i \in Ids, status'[i] \in ResetStatuses \cup {NoRow}
               PROVE  Over(i)'
    BY DEF ClosedOver
  <2>1. CASE stage[c] = "idle" \/ i # r
    BY <2>1, <1>2, <1>6 DEF ClosedOver, Over
  <2>2. CASE stage[c] # "idle" /\ i = r /\ status'[r] = status[r]
    <3>1. Over(r) /\ stage[c] # "add"
      BY <2>2 DEF ClosedOver, Requesting, EnqueueStage, ResetStatuses, NoRow
    <3>2. job'[r] # "wait"
      BY <2>2, <3>1, <1>4 DEF Over
    <3>3. QED  BY <2>2, <3>1, <3>2, <1>6
  <2>3. CASE stage[c] # "idle" /\ i = r /\ status'[r] # status[r]
    <3>1. stage[c] = "markFailed" /\ job'[r] = job[r]
      BY <2>3, <1>4 DEF ResetStatuses, NoRow
    <3>2. Over(r)
      BY <3>1 DEF Requesting, EnqueueStage
    <3>3. QED  BY <2>3, <3>1, <3>2, <1>6 DEF Over
  <2>4. QED  BY <2>1, <2>2, <2>3
<1>8. Requesting'
  <2>1. ASSUME NEW d \in Clients, d # c, stage[d] # "idle"
        PROVE  /\ status'[reqRun[d]] = status[reqRun[d]] /\ job'[reqRun[d]] = job[reqRun[d]]
               /\ Over(reqRun[d]) => Over(reqRun[d])'
    <3>1. reqRun[d] \in Ids /\ (stage[c] # "idle" => reqRun[d] # r) /\ reqRun'[d] = reqRun[d]
      BY <2>1, <1>2, <1>3
    <3>2. status'[reqRun[d]] = status[reqRun[d]] /\ job'[reqRun[d]] = job[reqRun[d]]
      BY <3>1, <1>2
    <3>3. Over(reqRun[d]) => Over(reqRun[d])'
      BY <3>1, <3>2, <1>2 DEF Over
    <3>4. QED  BY <3>2, <3>3
  <2>2. ASSUME NEW d \in Clients, d # c
        PROVE  /\ stage'[d] = "reset" => status'[reqRun'[d]] \in ResetStatuses
               /\ stage'[d] \in EnqueueStage => status'[reqRun'[d]] = "queued" /\ Over(reqRun[d])'
               /\ stage'[d] = "add" => job'[reqRun'[d]] = "absent"
    BY <2>1, <2>2, <1>2 DEF Requesting, EnqueueStage
  <2>3. /\ stage'[c] = "reset" => status'[reqRun'[c]] \in ResetStatuses
        /\ stage'[c] \in EnqueueStage => status'[reqRun'[c]] = "queued" /\ Over(reqRun[c])'
        /\ stage'[c] = "add" => job'[reqRun'[c]] = "absent"
    <3>1. CASE stage[c] = "idle"
      BY <3>1 DEF RequestStep, RequestWork, Request, Find, Insert, Reset, GetJob, GetState, Remove, Add,
         MarkFailed, QueueCallFails, EnqueueStage
    <3>2. CASE stage[c] # "idle" /\ stage'[c] \in EnqueueStage
      <4>1. Effect /\ reqRun'[c] = r /\ r \in Ids
        BY <3>2, <1>2, <1>4 DEF EnqueueStage
      <4>2. status'[r] = "queued" /\ Over(r)
        BY <3>2, <4>1 DEF Requesting, ClosedOver, EnqueueStage
      <4>3. job'[r] # "wait"
        <5>1. job[r] # "wait" /\ stage'[c] # "idle"
          BY <3>2, <4>2 DEF Over, EnqueueStage
        <5>2. QED  BY <4>1, <5>1
      <4>4. Over(reqRun[c])'
        BY <4>1, <4>2, <4>3, <1>2 DEF Over
      <4>5. QED  BY <3>2, <4>1, <4>2, <4>4 DEF EnqueueStage
    <3>3. CASE stage[c] # "idle" /\ stage'[c] \notin EnqueueStage
      BY <3>3, <1>2, <1>4 DEF EnqueueStage
    <3>4. QED  BY <3>1, <3>2, <3>3
  <2>4. QED  BY <2>2, <2>3 DEF Requesting
<1>9. Uncommitted'
  <2>1. ASSUME NEW i \in Ids, status'[i] = "completed"
        PROVE  status[i] = "completed" /\ job'[i] # "wait"
    <3>1. CASE stage[c] = "idle" \/ i # r
      BY <2>1, <3>1, <1>2 DEF Uncommitted
    <3>2. CASE stage[c] # "idle" /\ i = r
      <4>1. status[r] = "completed"
        BY <2>1, <3>2, <1>4
      <4>2. stage[c] # "add" /\ job[r] # "wait"
        BY <2>1, <3>2, <4>1 DEF Uncommitted, Requesting, EnqueueStage
      <4>3. QED  BY <3>2, <4>1, <4>2, <1>4
    <3>3. QED  BY <3>1, <3>2
  <2>2. QED  BY <2>1, <1>2 DEF Uncommitted
<1>10. QED  BY <1>5, <1>7, <1>8, <1>9

LEMMA SlotCommit ==
  ASSUME TypeInv, OwnerInv, CommitInv, Calm, AnySlot
  PROVE  CommitInv'
<1> USE RunAssumption, QueueAssumption
    DEF TypeInv, TypeOK, RunTypeOK, RunLocals, QueueTypeOK, CommitInv, CalmInv
<1>1. RunTypes(SlotStage) /\ Faults \subseteq CalmFaults /\ "lockLost" \notin Faults
  BY TypeInvIsRunTypes DEF Calm, CalmFaults
<1>2. Sole' /\ ActiveHeld' /\ MadeKnown'
  BY <1>1, RunStepSole, CalmSlots DEF RunStep
<1>3. ASSUME NEW w \in Workers, SlotWork(w)
      PROVE  IdleHasNone' /\ ClosedOver' /\ Requesting' /\ Uncommitted'
  <2> DEFINE k == wjob[w]
  <2>1. /\ UNCHANGED <<status, stage, reqRun>>
        /\ wstage[w] \in {"finish", "fail"}
        /\ wstage' = [wstage EXCEPT ![w] = "idle"] /\ wjob' = [wjob EXCEPT ![w] = NoId]
        /\ wmade' = [wmade EXCEPT ![w] = 0]
        /\ \A i \in Ids \ {k} : job'[i] = job[i]
        /\ wstage[w] = "finish" => job'[k] = "completed"
        /\ wstage[w] = "fail" => job'[k] = IF attempts[k] + 1 < JobAttempts THEN "wait" ELSE "failed"
    BY <1>1, <1>3, AttemptEnds
  <2>2. k \in Ids /\ job[k] = "active" /\ wmade[w] = attempts[k]
    BY <1>1, <2>1, LoneSlot DEF MadeKnown
  <2>3. IdleHasNone'
    BY <2>1 DEF IdleHasNone
  <2>4. \A i \in Ids : Over(i) => Over(i)'
    BY <2>1, <2>2 DEF Over
  <2>5. ClosedOver'
    BY <2>1, <2>4 DEF ClosedOver
  <2>6. Requesting'
    <3>1. \A c \in Clients : stage[c] \in EnqueueStage => reqRun[c] \in Ids
      BY DEF EnqueueStage
    <3>2. \A c \in Clients : stage[c] \in EnqueueStage => Over(reqRun[c])'
      BY <2>1, <2>4, <3>1 DEF Requesting
    <3>3. \A c \in Clients : stage[c] = "add" => job'[reqRun[c]] = "absent"
      BY <2>1, <2>2, <3>1 DEF Requesting, EnqueueStage
    <3>4. QED  BY <2>1, <3>2, <3>3 DEF Requesting
  <2>7. Uncommitted'
    <3>1. status[k] = "completed" => wstage[w] = "finish"
      BY <2>1, <2>2 DEF Uncommitted
    <3>2. QED  BY <2>1, <2>2, <3>1 DEF Uncommitted
  <2>8. QED  BY <2>3, <2>5, <2>6, <2>7
<1>4. ASSUME NEW w \in Workers, NEW k \in Ids, Take(w, k)
      PROVE  IdleHasNone' /\ ClosedOver' /\ Requesting' /\ Uncommitted'
  <2>1. /\ UNCHANGED <<status, stage, reqRun>> /\ job[k] = "wait" /\ wstage[w] = "idle"
        /\ wstage' = [wstage EXCEPT ![w] = "start"] /\ wjob' = [wjob EXCEPT ![w] = k]
        /\ wmade' = [wmade EXCEPT ![w] = attempts[k]]
        /\ job' = [job EXCEPT ![k] = "active"]
    BY <1>4 DEF Take, TakeJob, rowVars, reqVars
  <2>2. IdleHasNone'
    BY <2>1 DEF IdleHasNone
  <2>3. \A i \in Ids : Over(i) => i # k /\ Over(i)'
    BY <2>1 DEF Over
  <2>4. ClosedOver'
    BY <2>1, <2>3 DEF ClosedOver
  <2>5. Requesting'
    <3>1. \A c \in Clients : stage[c] \in EnqueueStage => reqRun[c] \in Ids
      BY DEF EnqueueStage
    <3>2. \A c \in Clients : stage[c] \in EnqueueStage => reqRun[c] # k /\ Over(reqRun[c])'
      BY <2>1, <2>3, <3>1 DEF Requesting
    <3>3. \A c \in Clients : stage[c] = "add" => job'[reqRun[c]] = "absent"
      BY <2>1, <3>1, <3>2 DEF Requesting, EnqueueStage
    <3>4. QED  BY <2>1, <3>2, <3>3 DEF Requesting
  <2>6. Uncommitted'
    BY <2>1 DEF Uncommitted
  <2>7. QED  BY <2>2, <2>4, <2>5, <2>6
<1>5. QED  BY <1>1, <1>2, <1>3, <1>4, CalmSlots

LEMMA ProcessCommit ==
  ASSUME TypeInv, OwnerInv, CommitInv, Calm, NEW w \in Workers, Process(w) \/ Throw(w)
  PROVE  CommitInv'
<1> USE RunAssumption, QueueAssumption
    DEF TypeInv, TypeOK, RunTypeOK, RunLocals, QueueTypeOK, CommitInv, CalmInv
<1> DEFINE k == wjob[w]
<1>1. RunTypes(SlotStage) /\ wstage[w] # "idle"
  BY TypeInvIsRunTypes DEF Process, Start, Read, Save, MarkDone, Tick, Catch, Throw, WorkStage
<1>2. /\ k \in Ids /\ job[k] = "active"
      /\ \A v \in Workers : wstage[v] # "idle" /\ wjob[v] = k => v = w
  BY <1>1, LoneSlot
<1>3. /\ UNCHANGED <<queueVars, reqVars, wjob, wmade>> /\ wstage[w] # "fail"
      /\ wstage' = [wstage EXCEPT ![w] = wstage'[w]] /\ wstage'[w] # "idle"
      /\ \A i \in Ids \ {k} : status'[i] = status[i]
      /\ \/ status'[k] = status[k] /\ (wstage[w] = "tick" => wstage'[w] = "finish") /\ wstage[w] # "finish"
         \/ status'[k] = "running"
         \/ status'[k] = "completed" /\ wstage'[w] = "tick"
         \/ status'[k] = "failed" /\ wstage'[w] = "fail" /\ wmade[w] + 1 >= JobAttempts
  <2> USE <1>1, <1>2 DEF WGoto, MarkStatus, rowVars
  <2>1. CASE Start(w) \/ MarkDone(w)
    BY <2>1 DEF Start, MarkDone
  <2>2. CASE Catch(w)
    BY <2>2 DEF Catch, IsFinalAttempt
  <2>3. CASE Read(w) \/ Save(w) \/ Tick(w) \/ Throw(w)
    BY <2>3 DEF Read, Save, Tick, Throw, WorkStage
  <2>4. QED  BY <2>1, <2>2, <2>3 DEF Process
<1>4. CalmInv'
  BY <1>1, <1>3 DEF Sole, ActiveHeld, MadeKnown, IdleHasNone, queueVars
<1>5. \A i \in Ids : Over(i) => i # k /\ Over(i)'
  BY <1>3 DEF Over, queueVars
<1>6. ClosedOver'
  <2>1. status'[k] = "failed" => Over(k)' \/ status'[k] = status[k]
    BY <1>2, <1>3 DEF Over, queueVars, IdleHasNone
  <2>2. QED  BY <1>3, <1>5, <2>1 DEF ClosedOver, ResetStatuses, NoRow
<1>7. Requesting'
  <2>1. \A c \in Clients : stage[c] \in EnqueueStage => reqRun[c] \in Ids
    BY DEF EnqueueStage
  <2>2. \A c \in Clients : stage[c] \in EnqueueStage =>
          reqRun[c] # k /\ status'[reqRun[c]] = "queued" /\ Over(reqRun[c])'
    BY <1>3, <1>5, <2>1 DEF Requesting, reqVars
  <2>3. \A c \in Clients : stage[c] = "reset" => reqRun[c] # k /\ reqRun[c] \in Ids
    BY <1>5 DEF Requesting, ClosedOver
  <2>4. QED  BY <1>3, <2>2, <2>3 DEF Requesting, reqVars, queueVars, EnqueueStage
<1>8. Uncommitted'
  BY <1>2, <1>3 DEF Uncommitted, queueVars, IdleHasNone
<1>9. QED  BY <1>4, <1>6, <1>7, <1>8

LEMMA NextCommit ==
  ASSUME TypeInv, OwnerInv, CommitInv, OneRequestPerRun, Calm, [Next]_vars
  PROVE  CommitInv'
<1>1. CASE Create \/ Slots
  BY <1>1, RequestCommit, SlotCommit DEF Create, Slots, AnyRequest
<1>2. CASE \E w \in Workers : Process(w) \/ Throw(w)
  BY <1>2, ProcessCommit
<1>3. CASE UNCHANGED vars
  BY <1>3 DEF vars, runVars, queueVars, rowVars, reqVars, workerVars, CommitInv, CalmInv, Sole, ActiveHeld,
     MadeKnown, IdleHasNone, ClosedOver, Requesting, Uncommitted, Over
<1>4. QED  BY <1>1, <1>2, <1>3 DEF Next

LEMMA InitCommit ==
  ASSUME Init
  PROVE  CommitInv
BY RunAssumption DEF Init, RunInit, QueueInit, CommitInv, CalmInv, Sole, ActiveHeld, MadeKnown, IdleHasNone, ClosedOver,
   Requesting, Uncommitted, Over, NoRow, EnqueueStage

\* No step takes a completed run to failed.
LEMMA NextStays ==
  ASSUME TypeInv, OwnerInv, CommitInv, Calm, [Next]_vars
  PROVE  \A i \in Ids : status[i] = "completed" => status'[i] # "failed"
<1> SUFFICES ASSUME NEW i \in Ids, status[i] = "completed", status'[i] = "failed"
             PROVE  FALSE
  OBVIOUS
<1> USE DEF TypeInv, TypeOK, RunTypeOK, RunLocals, CommitInv
<1>1. ~UNCHANGED status
  OBVIOUS
<1>2. CASE AnyRequest
  <2>1. PICK c \in Clients : RequestStep(c)
    BY <1>2 DEF AnyRequest
  <2>2. MarkFailed(c)
    BY <1>1, <2>1 DEF RequestStep, RequestWork, Request, Find, Insert, Reset, WriteQueued, GetJob, GetState,
       Remove, Add, QueueCallFails, rowVars
  <2>3. i = reqRun[c] /\ stage[c] = "markFailed"
    BY <1>1, <2>2 DEF MarkFailed, MarkStatus, rowVars
  <2>4. QED  BY <2>3 DEF Requesting, EnqueueStage
<1>3. CASE AnySlot
  BY <1>1, <1>3 DEF AnySlot, SlotWork, SlotFault, QueueWork, Finish, FailAttempt, WorkerCrash, LockLost,
     Take, StallRequeue, StallFail, rowVars
<1>4. ASSUME NEW w \in Workers, Process(w) \/ Throw(w)
      PROVE  FALSE
  <2>1. Catch(w)
    BY <1>1, <1>4 DEF Process, Start, Read, Save, MarkDone, Tick, Throw, MarkStatus, rowVars
  <2>2. i = wjob[w] /\ wstage[w] = "catch"
    BY <1>1, <2>1 DEF Catch, MarkStatus, rowVars
  <2>3. QED  BY <2>2 DEF Uncommitted
<1>5. QED
  BY <1>1, <1>2, <1>3, <1>4 DEF Next, Create, Slots, vars, runVars, rowVars

(* INV-3, for any number of runs, requests and slots: while no two         *)
(* requests for one run overlap and no slot loses its lock or dies, a run  *)
(* that reads completed is never failed afterwards, neither by what its    *)
(* job still does nor by a request.                                        *)
THEOREM CommittedStays ==
  ASSUME Resettable = ResetStatuses, Faults \subseteq CalmFaults
  PROVE  Spec /\ []OneRequestPerRun => CommittedRunStays
<1>1. Init => TypeInv /\ OwnerInv /\ CommitInv
  BY InitTypeInv, RunInitOwner, InitCommit DEF Init
<1>2. TypeInv /\ OwnerInv /\ CommitInv /\ OneRequestPerRun /\ [Next]_vars
        => TypeInv' /\ OwnerInv' /\ CommitInv'
  BY NextTypeInv, NextOwner, NextCommit DEF Calm
<1>3. TypeInv /\ OwnerInv /\ CommitInv /\ [Next]_vars
        => [\A i \in Ids : status[i] = "completed" => status'[i] # "failed"]_vars
  BY NextStays DEF Calm
<1>4. QED  BY <1>1, <1>2, <1>3, PTL DEF Spec, CommittedRunStays

-----------------------------------------------------------------------------
(* The other direction: a slot whose last attempt has failed has closed    *)
(* the row, unless a request has reset it since and is about to find that  *)
(* it cannot queue the job, or that it can.                                *)
EnqueuedBy(i) == \E c \in Clients : reqRun[c] = i /\ stage[c] \in EnqueueStage

GivenUp ==
  /\ \A i \in Ids : job[i] = "failed" => status[i] = "failed" \/ EnqueuedBy(i)
  /\ \A w \in Workers : wstage[w] = "fail" /\ wmade[w] + 1 >= JobAttempts =>
       status[wjob[w]] = "failed" \/ EnqueuedBy(wjob[w])

LEMMA RequestGivenUp ==
  ASSUME TypeInv, OwnerInv, CommitInv, GivenUp, OneRequestPerRun, Calm, NEW c \in Clients, RequestStep(c)
  PROVE  GivenUp'
<1> USE RunAssumption, QueueAssumption
    DEF TypeInv, TypeOK, RunTypeOK, RunLocals, QueueTypeOK, CommitInv, CalmInv
<1> DEFINE r == reqRun[c]
<1>1. RunTypes(SlotStage)
  BY TypeInvIsRunTypes
<1>2. /\ UNCHANGED <<lock, wstage, wjob, wmade>>
      /\ \A d \in Clients \ {c} : stage'[d] = stage[d] /\ reqRun'[d] = reqRun[d]
      /\ stage[c] # "idle" => r \in Ids
      /\ \A i \in Ids : stage[c] = "idle" \/ i # r => status'[i] = status[i] /\ job'[i] = job[i]
  BY RequestFrame
\* A failed row that is not failed any more is being queued, and a request that
\* stops queueing has closed the row or queued the job.
<1>3. stage[c] # "idle" =>
        /\ job'[r] = "failed" => job[r] = "failed"
        /\ \/ stage[c] \notin EnqueueStage /\ status'[r] = status[r]
           \/ stage'[c] \in EnqueueStage /\ reqRun'[c] = r
           \/ status'[r] = "failed"
           \/ job[r] = "absent" /\ job'[r] = "wait"
  <2> HAVE stage[c] # "idle"
  <2> USE <1>2 DEF queueVars, rowVars, Goto, Done, EnqueueStage
  <2>1. ~(\E i \in Ids : Request(c, i))
    BY DEF Request
  <2>2. CASE Find(c)
    BY <2>2 DEF Find
  <2>3. CASE Insert(c) \/ Reset(c)
    BY <2>3 DEF Insert, Reset, WriteQueued
  <2>4. CASE GetJob(c) \/ GetState(c) \/ QueueCallFails(c)
    BY <2>4 DEF GetJob, GetState, AfterState, QueueCallFails
  <2>5. CASE Remove(c)
    BY <2>5 DEF Remove, RemoveJob, RemoveRefused
  <2>6. CASE Add(c)
    <3>1. "addReplyLost" \notin Faults /\ job[r] = "absent"
      BY <2>6 DEF Add, Requesting, Calm, CalmFaults
    <3>2. QED  BY <2>6, <3>1 DEF Add, AddJob
  <2>7. CASE MarkFailed(c)
    BY <2>7 DEF MarkFailed, MarkStatus, Requesting, Exists, NoRow
  <2>8. QED
    BY <2>1, <2>2, <2>3, <2>4, <2>5, <2>6, <2>7 DEF RequestStep, RequestWork
<1>4. stage[c] = "idle" => stage'[c] \notin EnqueueStage
  BY <1>2 DEF RequestStep, RequestWork, Request, Find, Insert, Reset, GetJob, GetState, Remove, Add,
     MarkFailed, QueueCallFails, EnqueueStage
<1>5. ASSUME NEW i \in Ids, status[i] = "failed" \/ EnqueuedBy(i), ~(job[i] = "absent" /\ job'[i] = "wait")
      PROVE  (status[i] = "failed" \/ EnqueuedBy(i))'
  <2>1. CASE stage[c] = "idle" \/ i # r
    BY <1>5, <2>1, <1>2 DEF EnqueuedBy, EnqueueStage
  <2>2. CASE stage[c] # "idle" /\ i = r /\ ~(stage[c] \notin EnqueueStage /\ status'[r] = status[r])
    BY <1>5, <2>2, <1>3 DEF EnqueuedBy
  <2>3. CASE stage[c] # "idle" /\ i = r /\ stage[c] \notin EnqueueStage /\ status'[r] = status[r]
    BY <1>5, <2>3, <1>2 DEF EnqueuedBy
  <2>4. QED  BY <2>1, <2>2, <2>3
<1>6. ASSUME NEW i \in Ids, job'[i] = "failed"
      PROVE  (status[i] = "failed" \/ EnqueuedBy(i))'
  <2>1. job[i] = "failed"
    BY <1>6, <1>2, <1>3
  <2>2. QED  BY <2>1, <1>5 DEF GivenUp
<1>7. ASSUME NEW w \in Workers, wstage[w] = "fail", wmade[w] + 1 >= JobAttempts
      PROVE  (status[wjob[w]] = "failed" \/ EnqueuedBy(wjob[w]))'
  <2>1. wjob[w] \in Ids /\ job[wjob[w]] = "active" /\ wjob'[w] = wjob[w]
    BY <1>1, <1>2, <1>7, LoneSlot
  <2>2. QED  BY <2>1, <1>5, <1>7 DEF GivenUp, EnqueuedBy
<1>8. QED  BY <1>2, <1>6, <1>7 DEF GivenUp

LEMMA NextGivenUp ==
  ASSUME TypeInv, OwnerInv, CommitInv, GivenUp, OneRequestPerRun, Calm, "writeLost" \notin Faults, [Next]_vars
  PROVE  GivenUp'
<1> USE RunAssumption, QueueAssumption
    DEF TypeInv, TypeOK, RunTypeOK, RunLocals, QueueTypeOK, CommitInv, CalmInv
<1>1. RunTypes(SlotStage) /\ Faults \subseteq CalmFaults
  BY TypeInvIsRunTypes DEF Calm
<1>2. ASSUME NEW w \in Workers, SlotWork(w)
      PROVE  GivenUp'
  <2>1. /\ UNCHANGED <<status, stage, reqRun>>
        /\ wstage[w] \in {"finish", "fail"}
        /\ wstage' = [wstage EXCEPT ![w] = "idle"] /\ wjob' = [wjob EXCEPT ![w] = NoId]
        /\ wmade' = [wmade EXCEPT ![w] = 0]
        /\ \A i \in Ids \ {wjob[w]} : job'[i] = job[i]
        /\ wstage[w] = "finish" => job'[wjob[w]] = "completed"
        /\ wstage[w] = "fail" =>
             job'[wjob[w]] = IF attempts[wjob[w]] + 1 < JobAttempts THEN "wait" ELSE "failed"
    BY <1>1, <1>2, AttemptEnds
  <2>2. wjob[w] \in Ids /\ wmade[w] = attempts[wjob[w]]
    BY <1>1, <2>1, LoneSlot DEF MadeKnown
  <2>3. QED  BY <2>1, <2>2 DEF GivenUp, EnqueuedBy
<1>3. ASSUME NEW w \in Workers, NEW k \in Ids, Take(w, k)
      PROVE  GivenUp'
  BY <1>3 DEF Take, TakeJob, rowVars, reqVars, GivenUp, EnqueuedBy
<1>4. ASSUME NEW w \in Workers, Process(w) \/ Throw(w)
      PROVE  GivenUp'
  <2>1. wstage[w] # "idle"
    BY <1>4 DEF Process, Start, Read, Save, MarkDone, Tick, Catch, Throw, WorkStage
  <2>2. /\ wjob[w] \in Ids /\ job[wjob[w]] = "active"
        /\ \A v \in Workers : wstage[v] # "idle" /\ wjob[v] = wjob[w] => v = w
    BY <1>1, <2>1, LoneSlot
  <2>3. /\ UNCHANGED <<queueVars, reqVars, wjob, wmade>>
        /\ \A v \in Workers \ {w} : wstage'[v] = wstage[v]
        /\ \A i \in Ids \ {wjob[w]} : status'[i] = status[i]
        /\ wstage'[w] = "fail" /\ wmade[w] + 1 >= JobAttempts => status'[wjob[w]] = "failed"
    <3> USE <1>4, <2>1, <2>2 DEF WGoto, MarkStatus, rowVars
    <3>1. CASE Start(w) \/ MarkDone(w)
      BY <3>1 DEF Start, MarkDone
    <3>2. CASE Catch(w)
      BY <3>2 DEF Catch, IsFinalAttempt
    <3>3. CASE Read(w) \/ Save(w) \/ Tick(w) \/ Throw(w)
      BY <3>3 DEF Read, Save, Tick, Throw, WorkStage
    <3>4. QED  BY <3>1, <3>2, <3>3 DEF Process
  <2>4. QED  BY <2>2, <2>3 DEF GivenUp, EnqueuedBy, queueVars, reqVars
<1>5. CASE UNCHANGED vars
  BY <1>5 DEF vars, runVars, queueVars, rowVars, reqVars, workerVars, GivenUp, EnqueuedBy
<1>6. QED
  BY <1>1, <1>2, <1>3, <1>4, <1>5, RequestGivenUp, CalmSlots DEF Next, Create, Slots, AnyRequest

(* M12-R9, for any number of runs, requests, slots and attempts: while no  *)
(* two requests for one run overlap and only the queue's calls fail, a run *)
(* reads failed only when the queue will not try again, and a job that was *)
(* given up leaves its run failed or in the hands of a request.  The catch *)
(* block, which foretells what BullMQ will decide, is never wrong.         *)
THEOREM FailedIsGivenUp ==
  ASSUME Resettable = ResetStatuses, Faults \subseteq {"queueFails"}
  PROVE  Spec /\ []OneRequestPerRun => []FailedWhenGivenUp
<1> DEFINE Inv == TypeInv /\ OwnerInv /\ CommitInv /\ GivenUp
<1>1. Calm /\ "writeLost" \notin Faults
  BY DEF Calm, CalmFaults
<1>2. Init => Inv
  BY InitTypeInv, RunInitOwner, InitCommit DEF Init, RunInit, QueueInit, GivenUp
<1>3. Inv /\ OneRequestPerRun /\ [Next]_vars => Inv'
  BY <1>1, NextTypeInv, NextOwner, NextCommit, NextGivenUp
<1>4. Inv => FailedWhenGivenUp
  <2> SUFFICES ASSUME Inv, NEW i \in Ids
               PROVE  /\ status[i] = "failed" =>
                           job[i] # "wait" /\ \A w \in Workers : wjob[w] = i => wstage[w] = "fail"
                      /\ job[i] = "failed" => status[i] = "failed" \/ InProgress(i)
    BY DEF FailedWhenGivenUp
  <2>1. status[i] = "failed" => Over(i)
    BY DEF CommitInv, ClosedOver, ResetStatuses
  <2>2. job[i] = "failed" => status[i] = "failed" \/ InProgress(i)
    BY DEF GivenUp, EnqueuedBy, InProgress
  <2>3. QED  BY <2>1, <2>2 DEF Over
<1>5. QED  BY <1>2, <1>3, <1>4, PTL DEF Spec
=============================================================================
