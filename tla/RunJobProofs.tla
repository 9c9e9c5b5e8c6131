---------------------------- MODULE RunJobProofs ----------------------------
(***************************************************************************)
(* Lemmas about the steps that topics, journey, custom classification and  *)
(* AI search share, for any number of runs, requests and slots and any     *)
(* combination of faults.  The proofs about one of them combine these with *)
(* lemmas about the body of its processor.                                 *)
(***************************************************************************)
EXTENDS RunJob, TLAPS

\* Which locals are set, by stage.  S stands for the stages of a component's slots.
RunLocals ==
  /\ \A c \in Clients : stage[c] # "idle" => reqRun[c] \in Ids
  /\ \A w \in Workers : wstage[w] # "idle" => wjob[w] \in Ids

RunTypes(S) == RunTypeOK /\ RunLocals /\ wstage \in [Workers -> S]

LEMMA RunInitTypes ==
  ASSUME NEW S, "idle" \in S, RunInit
  PROVE  RunTypes(S)
BY RunAssumption, QueueAssumption DEF RunTypes, RunTypeOK, RunLocals, QueueTypeOK, RunInit, QueueInit,
   JobState, NoRow, Count

\* Writing a row keeps its type.
LEMMA MarkStatusTypes ==
  ASSUME status \in [Ids -> RunStatus \cup {NoRow}], count \in [Ids -> Count],
         NEW i \in Ids, NEW s \in RunStatus, NEW n \in Count \cup {Undefined}, MarkStatus(i, s, n)
  PROVE  status' \in [Ids -> RunStatus \cup {NoRow}] /\ count' \in [Ids -> Count]
BY DEF MarkStatus, Undefined, Count

LEMMA RequestTypes ==
  ASSUME NEW S, RunTypes(S), NEW c \in Clients, RequestStep(c)
  PROVE  RunTypes(S)'
<1> USE RunAssumption, QueueAssumption
    DEF RunTypes, RunTypeOK, RunLocals, QueueTypeOK, RequestStage, EnqueueStage, workerVars
<1>1. CASE \E i \in Ids : Request(c, i)
  BY <1>1 DEF Request, queueVars, rowVars
<1>2. CASE Find(c)
  BY <1>2 DEF Find, Goto, Done, queueVars, rowVars
<1>3. CASE Insert(c)
  BY <1>3 DEF Insert, Goto, Done, WriteQueued, RunStatus, Count, queueVars, rowVars
<1>4. CASE Reset(c)
  BY <1>4 DEF Reset, Goto, Done, WriteQueued, RunStatus, Count, queueVars, rowVars
<1>5. CASE GetJob(c)
  BY <1>5 DEF GetJob, Goto, queueVars, rowVars
<1>6. CASE GetState(c)
  BY <1>6 DEF GetState, AfterState, Goto, queueVars, rowVars
<1>7. CASE Remove(c)
  BY <1>7 DEF Remove, RemoveJob, RemoveRefused, Goto, JobState, queueVars, rowVars
<1>8. CASE Add(c)
  <2>1. QueueTypeOK'
    BY <1>8 DEF Add, AddJob, JobState, queueVars
  <2>2. CASE Done(c)
    BY <1>8, <2>1, <2>2 DEF Add, Done, rowVars
  <2>3. CASE Goto(c, "markFailed")
    BY <1>8, <2>1, <2>3 DEF Add, Goto, rowVars
  <2>4. QED  BY <1>8, <2>2, <2>3 DEF Add
<1>9. CASE MarkFailed(c)
  <2>1. reqRun[c] \in Ids
    BY <1>9 DEF MarkFailed
  <2>2. status' \in [Ids -> RunStatus \cup {NoRow}] /\ count' \in [Ids -> Count]
    BY <1>9, <2>1, MarkStatusTypes DEF MarkFailed, RunStatus, rowVars
  <2>3. QED  BY <1>9, <2>2 DEF MarkFailed, Done, queueVars
<1>10. CASE QueueCallFails(c)
  BY <1>10 DEF QueueCallFails, Goto, queueVars, rowVars
<1>11. QED
  BY <1>1, <1>2, <1>3, <1>4, <1>5, <1>6, <1>7, <1>8, <1>9, <1>10 DEF RequestStep, RequestWork

LEMMA SlotTypes ==
  ASSUME NEW S, "idle" \in S, RunTypes(S), NEW w \in Workers, SlotWork(w) \/ SlotFault(w)
  PROVE  RunTypes(S)'
<1> USE RunAssumption, QueueAssumption DEF RunTypes, RunTypeOK, RunLocals, QueueTypeOK, rowVars, reqVars
<1>1. CASE Finish(w)
  BY <1>1 DEF Finish, CompleteJob, Release, WDone, JobState, queueVars
<1>2. CASE FailAttempt(w)
  <2>1. QueueTypeOK'
    BY <1>2 DEF FailAttempt, FailJob, Release, JobState, queueVars
  <2>2. QED  BY <1>2, <2>1 DEF FailAttempt, WDone
<1>3. CASE WorkerCrash(w)
  BY <1>3 DEF WorkerCrash, LoseLocksOf, WDone
<1>4. CASE LockLost(w)
  BY <1>4 DEF LockLost, LoseLock, workerVars
<1>5. QED  BY <1>1, <1>2, <1>3, <1>4 DEF SlotWork, SlotFault

LEMMA QueueTypes ==
  ASSUME NEW S, "start" \in S, RunTypes(S), NEW i \in Ids, QueueWork(i)
  PROVE  RunTypes(S)'
<1> USE RunAssumption, QueueAssumption DEF RunTypes, RunTypeOK, RunLocals, QueueTypeOK, rowVars, reqVars
<1>1. CASE \E w \in Workers : Take(w, i)
  BY <1>1 DEF Take, TakeJob, JobState
<1>2. CASE StallRequeue(i)
  BY <1>2 DEF StallRequeue, RequeueStalled, JobState, workerVars
<1>3. CASE StallFail(i)
  BY <1>3 DEF StallFail, FailStalled, JobState, workerVars
<1>4. QED  BY <1>1, <1>2, <1>3 DEF QueueWork

\* The shared steps keep the types.
LEMMA RunStepTypes ==
  ASSUME NEW S, "idle" \in S, "start" \in S, RunTypes(S), RunStep
  PROVE  RunTypes(S)'
BY RequestTypes, SlotTypes, QueueTypes DEF RunStep, AnyRequest, AnySlot

-----------------------------------------------------------------------------
(* Why a queued row is never left behind.  A lock is held only by the slot *)
(* that works on its active job.  And while a row is queued, either its    *)
(* job has not come past its first write - it waits, has stalled, or the   *)
(* slot that holds it has not begun or is on its way to failing -, or it   *)
(* has been given up, or it is absent and a request is there to add it, or *)
(* a request is still to look at the job that is there.                    *)
LocksHeld ==
  \A i \in Ids : lock[i] # NoWorker =>
    job[i] = "active" /\ wjob[lock[i]] = i /\ wstage[lock[i]] # "idle"

NotBegun == {"start", "catch", "fail"}
Looking  == {"getJob", "getState", "remove", "markFailed"}

JobIsAhead(i) ==
  \/ job[i] \in {"wait", "failed"}
  \/ job[i] = "active" /\ (lock[i] = NoWorker \/ wstage[lock[i]] \in NotBegun)
  \/ job[i] = "absent" /\ \E c \in Clients : reqRun[c] = i /\ stage[c] \in EnqueueStage

RequestLooks(i) == \E c \in Clients : reqRun[c] = i /\ stage[c] \in Looking

QueuedRows == \A i \in Ids : status[i] = "queued" => JobIsAhead(i) \/ RequestLooks(i)

OwnerInv == LocksHeld /\ QueuedRows

LEMMA OwnerInvGivesOwner ==
  ASSUME OwnerInv
  PROVE  QueuedHasOwner
BY DEF OwnerInv, QueuedRows, QueuedHasOwner, JobIsAhead, RequestLooks, Runnable, Looking, EnqueueStage

LEMMA RunInitOwner ==
  ASSUME RunInit
  PROVE  OwnerInv
BY DEF RunInit, QueueInit, OwnerInv, LocksHeld, QueuedRows, NoRow

LEMMA RequestOwner ==
  ASSUME NEW S, RunTypes(S), OwnerInv, NEW c \in Clients, RequestStep(c)
  PROVE  OwnerInv'
<1> USE RunAssumption, QueueAssumption DEF RunTypes, RunTypeOK, RunLocals, QueueTypeOK, OwnerInv
<1> DEFINE Others == \A d \in Clients \ {c} : stage'[d] = stage[d] /\ reqRun'[d] = reqRun[d]
<1>1. CASE (\E i \in Ids : Request(c, i)) \/ Find(c)
  <2>1. /\ UNCHANGED <<job, lock, status, wstage, wjob>> /\ Others
        /\ stage[c] \notin EnqueueStage
    BY <1>1 DEF Request, Find, Goto, Done, queueVars, rowVars, workerVars, EnqueueStage
  <2>2. QED
    BY <2>1 DEF LocksHeld, QueuedRows, JobIsAhead, RequestLooks, EnqueueStage, Looking
<1>2. CASE Insert(c) \/ Reset(c)
  <2>1. /\ UNCHANGED <<job, lock, wstage, wjob>> /\ Others
        /\ stage[c] \notin EnqueueStage
        /\ \/ UNCHANGED status
           \/ /\ \A i \in Ids : i # reqRun[c] => status'[i] = status[i]
              /\ stage'[c] = "getJob" /\ reqRun'[c] = reqRun[c]
    BY <1>2 DEF Insert, Reset, WriteQueued, Goto, Done, queueVars, rowVars, workerVars, EnqueueStage
  <2>2. QED
    BY <2>1 DEF LocksHeld, QueuedRows, JobIsAhead, RequestLooks, EnqueueStage, Looking
<1>3. CASE GetJob(c) \/ GetState(c) \/ QueueCallFails(c)
  <2>1. /\ UNCHANGED <<job, lock, status, wstage, wjob>> /\ Others /\ reqRun'[c] = reqRun[c]
        /\ stage'[c] \in EnqueueStage
        /\ stage'[c] \in Looking \/ job[reqRun[c]] = "absent" \/ stage[c] \notin Looking
    BY <1>3 DEF GetJob, GetState, AfterState, QueueCallFails, Goto, queueVars, rowVars, workerVars,
                EnqueueStage, Looking
  <2>2. QED
    BY <2>1 DEF LocksHeld, QueuedRows, JobIsAhead, RequestLooks, EnqueueStage, Looking
<1>4. CASE Remove(c)
  <2>1. /\ UNCHANGED <<lock, status, wstage, wjob>> /\ Others /\ reqRun'[c] = reqRun[c]
        /\ reqRun[c] \in Ids /\ stage'[c] \in EnqueueStage
        /\ \A i \in Ids : i # reqRun[c] => job'[i] = job[i]
        /\ \/ job'[reqRun[c]] = "absent" /\ lock[reqRun[c]] = NoWorker
           \/ UNCHANGED job /\ stage'[c] \in Looking
    BY <1>4 DEF Remove, RemoveJob, RemoveRefused, Locked, Goto, queueVars, rowVars, workerVars,
                EnqueueStage, Looking
  <2>2. LocksHeld'
    BY <2>1 DEF LocksHeld
  <2>3. QueuedRows'
    BY <2>1 DEF QueuedRows, JobIsAhead, RequestLooks, EnqueueStage, Looking
  <2>4. QED  BY <2>2, <2>3
<1>5. CASE Add(c)
  <2>1. /\ UNCHANGED <<lock, status, wstage, wjob>> /\ Others
        /\ stage[c] = "add" /\ reqRun[c] \in Ids
        /\ \A i \in Ids : i # reqRun[c] => job'[i] = job[i]
        /\ job'[reqRun[c]] = IF job[reqRun[c]] = "absent" THEN "wait" ELSE job[reqRun[c]]
    BY <1>5 DEF Add, AddJob, Goto, Done, queueVars, rowVars, workerVars
  <2>2. LocksHeld'
    BY <2>1 DEF LocksHeld
  <2>3. QueuedRows'
    BY <2>1 DEF QueuedRows, JobIsAhead, RequestLooks, EnqueueStage, Looking
  <2>4. QED  BY <2>2, <2>3
<1>6. CASE MarkFailed(c)
  <2>1. /\ UNCHANGED <<job, lock, wstage, wjob>> /\ Others
        /\ \A i \in Ids : status'[i] = "queued" => status[i] = "queued" /\ i # reqRun[c]
    BY <1>6 DEF MarkFailed, MarkStatus, Exists, NoRow, Done, queueVars, rowVars, workerVars
  <2>2. QED
    BY <2>1 DEF LocksHeld, QueuedRows, JobIsAhead, RequestLooks
<1>7. QED
  BY <1>1, <1>2, <1>3, <1>4, <1>5, <1>6 DEF RequestStep, RequestWork

LEMMA SlotOwner ==
  ASSUME NEW S, RunTypes(S), OwnerInv, NEW w \in Workers, SlotWork(w) \/ SlotFault(w)
  PROVE  OwnerInv'
<1> USE RunAssumption, QueueAssumption
    DEF RunTypes, RunTypeOK, RunLocals, QueueTypeOK, OwnerInv, rowVars, reqVars, workerVars
<1> DEFINE Others == \A v \in Workers \ {w} : wstage'[v] = wstage[v] /\ wjob'[v] = wjob[v]
<1>1. CASE Finish(w)
  <2>1. /\ UNCHANGED <<status, stage, reqRun>> /\ Others /\ wstage[w] = "finish" /\ wjob[w] \in Ids
        /\ \A i \in Ids : lock[i] = w => i = wjob[w] /\ lock'[i] = NoWorker
        /\ \A i \in Ids : lock[i] # w => lock'[i] = lock[i] /\ job'[i] = job[i]
    BY <1>1 DEF Finish, CompleteJob, Holds, Release, WDone, queueVars, LocksHeld
  <2>2. LocksHeld'
    BY <2>1 DEF LocksHeld
  <2>3. QueuedRows'
    BY <2>1 DEF QueuedRows, JobIsAhead, RequestLooks, NotBegun, LocksHeld
  <2>4. QED  BY <2>2, <2>3
<1>2. CASE FailAttempt(w)
  <2>1. /\ UNCHANGED <<status, stage, reqRun>> /\ Others /\ wjob[w] \in Ids
        /\ \A i \in Ids : lock[i] = w => /\ i = wjob[w] /\ lock'[i] = NoWorker
                                         /\ job'[i] \in {"wait", "failed"}
        /\ \A i \in Ids : lock[i] # w => lock'[i] = lock[i] /\ job'[i] = job[i]
    BY <1>2 DEF FailAttempt, FailJob, Holds, Release, WDone, queueVars, LocksHeld
  <2>2. LocksHeld'
    BY <2>1 DEF LocksHeld
  <2>3. QueuedRows'
    BY <2>1 DEF QueuedRows, JobIsAhead, RequestLooks, LocksHeld
  <2>4. QED  BY <2>2, <2>3
<1>3. CASE WorkerCrash(w)
  <2>1. /\ UNCHANGED <<status, stage, reqRun, job>> /\ Others
        /\ \A i \in Ids : lock[i] = w => lock'[i] = NoWorker
        /\ \A i \in Ids : lock[i] # w => lock'[i] = lock[i]
    BY <1>3 DEF WorkerCrash, LoseLocksOf, WDone
  <2>2. LocksHeld'
    BY <2>1 DEF LocksHeld
  <2>3. QueuedRows'
    BY <2>1 DEF QueuedRows, JobIsAhead, RequestLooks, LocksHeld
  <2>4. QED  BY <2>2, <2>3
<1>4. CASE LockLost(w)
  <2>1. /\ UNCHANGED <<status, stage, reqRun, job, wstage, wjob>>
        /\ \A i \in Ids : lock'[i] \in {lock[i], NoWorker}
    BY <1>4 DEF LockLost, LoseLock
  <2>2. LocksHeld'
    BY <2>1 DEF LocksHeld
  <2>3. QueuedRows'
    BY <2>1 DEF QueuedRows, JobIsAhead, RequestLooks, LocksHeld
  <2>4. QED  BY <2>2, <2>3
<1>5. QED  BY <1>1, <1>2, <1>3, <1>4 DEF SlotWork, SlotFault

LEMMA QueueOwner ==
  ASSUME NEW S, RunTypes(S), OwnerInv, NEW i \in Ids, QueueWork(i)
  PROVE  OwnerInv'
<1> USE RunAssumption, QueueAssumption
    DEF RunTypes, RunTypeOK, RunLocals, QueueTypeOK, OwnerInv, rowVars, reqVars, workerVars
<1>1. CASE \E w \in Workers : Take(w, i)
  <2> PICK w \in Workers : Take(w, i)
    BY <1>1
  <2>1. /\ UNCHANGED <<status, stage, reqRun>>
        /\ \A v \in Workers \ {w} : wstage'[v] = wstage[v] /\ wjob'[v] = wjob[v]
        /\ wstage[w] = "idle" /\ wstage'[w] = "start" /\ wjob'[w] = i
        /\ job'[i] = "active" /\ lock'[i] = w
        /\ \A k \in Ids \ {i} : job'[k] = job[k] /\ lock'[k] = lock[k]
    BY DEF Take, TakeJob
  <2>2. LocksHeld'
    BY <2>1 DEF LocksHeld
  <2>3. QueuedRows'
    BY <2>1 DEF QueuedRows, JobIsAhead, RequestLooks, LocksHeld, NotBegun
  <2>4. QED  BY <2>2, <2>3
<1>2. CASE StallRequeue(i) \/ StallFail(i)
  <2>1. /\ UNCHANGED <<status, stage, reqRun, wstage, wjob, lock>>
        /\ job'[i] \in {"wait", "failed"} /\ lock[i] = NoWorker
        /\ \A k \in Ids \ {i} : job'[k] = job[k]
    BY <1>2 DEF StallRequeue, StallFail, RequeueStalled, FailStalled, Stalled, Locked
  <2>2. LocksHeld'
    BY <2>1 DEF LocksHeld
  <2>3. QueuedRows'
    BY <2>1 DEF QueuedRows, JobIsAhead, RequestLooks
  <2>4. QED  BY <2>2, <2>3
<1>3. QED  BY <1>1, <1>2 DEF QueueWork

\* The shared steps never leave a queued row behind.
LEMMA RunStepOwner ==
  ASSUME NEW S, RunTypes(S), OwnerInv, RunStep
  PROVE  OwnerInv'
BY RequestOwner, SlotOwner, QueueOwner DEF RunStep, AnyRequest, AnySlot

\* A step of a processor's body: the slot stays busy with its job, and a slot that
\* has not begun begins by taking the row out of queued, or goes on to fail.
BodyStep(w) ==
  /\ UNCHANGED <<job, lock, stage, reqRun, wjob>>
  /\ \A v \in Workers \ {w} : wstage'[v] = wstage[v]
  /\ wstage'[w] # "idle"
  /\ \A i \in Ids : status'[i] = "queued" => status[i] = "queued"
  /\ \/ wstage[w] \notin NotBegun
     \/ wstage'[w] \in NotBegun
     \/ status'[wjob[w]] # "queued"

LEMMA BodyOwner ==
  ASSUME NEW S, RunTypes(S), OwnerInv, NEW w \in Workers, BodyStep(w)
  PROVE  OwnerInv'
<1> USE DEF RunTypes, RunTypeOK, QueueTypeOK, OwnerInv, BodyStep
<1>1. LocksHeld'
  BY DEF LocksHeld
<1>2. QueuedRows'
  BY DEF QueuedRows, JobIsAhead, RequestLooks, LocksHeld
<1>3. QED  BY <1>1, <1>2

-----------------------------------------------------------------------------
\* The shared steps write queued and failed only, and leave a row's count otherwise.
LEMMA RunStepRows ==
  ASSUME NEW S, RunTypes(S), RunStep, NEW i \in Ids
  PROVE  status'[i] \in {"queued", "failed"} \/ (status'[i] = status[i] /\ count'[i] = count[i])
<1> USE DEF RunTypes, RunTypeOK
<1>1. CASE AnyRequest
  <2>1. PICK c \in Clients : RequestStep(c)
    BY <1>1 DEF AnyRequest
  <2>2. CASE Insert(c) \/ Reset(c)
    BY <2>2 DEF Insert, Reset, WriteQueued, rowVars
  <2>3. CASE MarkFailed(c)
    BY <2>3 DEF MarkFailed, MarkStatus, rowVars
  <2>4. CASE UNCHANGED rowVars
    BY <2>4 DEF rowVars
  <2>5. QED
    BY <2>1, <2>2, <2>3, <2>4 DEF RequestStep, RequestWork, Request, Find, GetJob, GetState, Remove, Add,
       QueueCallFails, rowVars
<1>2. CASE AnySlot
  <2>1. UNCHANGED rowVars
    BY <1>2 DEF AnySlot, SlotWork, SlotFault, QueueWork, Finish, FailAttempt, WorkerCrash, LockLost,
       Take, StallRequeue, StallFail
  <2>2. QED  BY <2>1 DEF rowVars
<1>3. QED  BY <1>1, <1>2 DEF RunStep

\* They take a slot's job, or end its work, or leave the slot alone.
LEMMA RunStepSlots ==
  ASSUME NEW S, RunTypes(S), RunStep, NEW w \in Workers
  PROVE  wstage'[w] \in {"idle", "start"} \/ (wstage'[w] = wstage[w] /\ wjob'[w] = wjob[w])
<1> USE DEF RunTypes, RunTypeOK
<1>1. CASE AnyRequest
  <2>1. UNCHANGED workerVars
    BY <1>1 DEF AnyRequest, RequestStep, RequestWork, Request, Find, Insert, Reset, GetJob, GetState,
       Remove, Add, MarkFailed, QueueCallFails
  <2>2. QED  BY <2>1 DEF workerVars
<1>2. CASE \E v \in Workers : SlotWork(v) \/ SlotFault(v)
  BY <1>2 DEF SlotWork, SlotFault, Finish, FailAttempt, WorkerCrash, LockLost, WDone, workerVars
<1>3. CASE \E i \in Ids : QueueWork(i)
  BY <1>3 DEF QueueWork, Take, StallRequeue, StallFail, workerVars
<1>4. QED  BY <1>1, <1>2, <1>3 DEF RunStep, AnySlot

-----------------------------------------------------------------------------
(* One slot per job.  As long as no lock is lost, a slot that works on a   *)
(* job holds its lock, so it is the only one; as long as no slot dies      *)
(* either, an active job is held and its slot knows how many attempts were *)
(* made.                                                                   *)
Sole       == \A w \in Workers : wstage[w] # "idle" => lock[wjob[w]] = w
ActiveHeld == \A i \in Ids : job[i] = "active" => lock[i] # NoWorker
MadeKnown  == \A w \in Workers : wstage[w] # "idle" => wmade[w] = attempts[wjob[w]]

CalmFaults == {"queueFails", "writeLost"}

\* Only the slot that holds the lock of a job works on it, and the job is active.
LEMMA LoneSlot ==
  ASSUME NEW S, RunTypes(S), OwnerInv, Sole, NEW w \in Workers, wstage[w] # "idle"
  PROVE  /\ wjob[w] \in Ids /\ job[wjob[w]] = "active" /\ lock[wjob[w]] = w
         /\ \A v \in Workers : wstage[v] # "idle" /\ wjob[v] = wjob[w] => v = w
BY QueueAssumption DEF RunTypes, RunTypeOK, RunLocals, OwnerInv, LocksHeld, Sole

\* A slot that works alone ends an attempt.
LEMMA AttemptEnds ==
  ASSUME NEW S, RunTypes(S), OwnerInv, Sole, NEW w \in Workers, SlotWork(w)
  PROVE  /\ UNCHANGED <<status, count, stage, reqRun>>
         /\ wstage[w] \in {"finish", "fail"}
         /\ wstage' = [wstage EXCEPT ![w] = "idle"]
         /\ wjob' = [wjob EXCEPT ![w] = NoId]
         /\ wmade' = [wmade EXCEPT ![w] = 0]
         /\ \A i \in Ids \ {wjob[w]} : job'[i] = job[i] /\ lock'[i] = lock[i] /\ attempts'[i] = attempts[i]
         /\ lock'[wjob[w]] = NoWorker
         /\ wstage[w] = "finish" => job'[wjob[w]] = "completed"
         /\ wstage[w] = "fail" =>
              job'[wjob[w]] = IF attempts[wjob[w]] + 1 < JobAttempts THEN "wait" ELSE "failed"
<1> USE DEF RunTypes, RunTypeOK, QueueTypeOK
<1>1. wstage[w] # "idle"
  BY DEF SlotWork, Finish, FailAttempt
<1>2. wjob[w] \in Ids /\ lock[wjob[w]] = w
  BY <1>1, LoneSlot
<1>3. CASE Finish(w)
  BY <1>2, <1>3 DEF Finish, CompleteJob, Release, Holds, WDone, rowVars, reqVars
<1>4. CASE FailAttempt(w)
  BY <1>2, <1>4 DEF FailAttempt, FailJob, AttemptsLeft, Release, Holds, WDone, rowVars, reqVars
<1>5. QED  BY <1>3, <1>4 DEF SlotWork

LEMMA RunStepSole ==
  ASSUME NEW S, RunTypes(S), OwnerInv, Sole, RunStep, "lockLost" \notin Faults
  PROVE  Sole'
<1> USE RunAssumption, QueueAssumption DEF RunTypes, RunTypeOK, RunLocals, QueueTypeOK
<1>1. CASE AnyRequest
  <2>1. UNCHANGED <<lock, workerVars>>
    BY <1>1 DEF AnyRequest, RequestStep, RequestWork, Request, Find, Insert, Reset, GetJob, GetState,
       Remove, RemoveJob, RemoveRefused, Add, AddJob, MarkFailed, QueueCallFails, queueVars
  <2>2. QED  BY <2>1 DEF Sole, workerVars
<1>2. ASSUME NEW w \in Workers, SlotWork(w) \/ WorkerCrash(w)
      PROVE  Sole'
  <2>1. /\ wstage[w] # "idle"
        /\ wstage' = [wstage EXCEPT ![w] = "idle"] /\ wjob' = [wjob EXCEPT ![w] = NoId]
    BY <1>2 DEF SlotWork, Finish, FailAttempt, WorkerCrash, WDone
  <2>2. lock[wjob[w]] = w /\ wjob[w] \in Ids
    BY <2>1, LoneSlot
  <2>3. \A i \in Ids : lock'[i] = lock[i] \/ lock[i] = w
    BY <1>2, <2>2 DEF SlotWork, Finish, FailAttempt, WorkerCrash, CompleteJob, FailJob, Release, LoseLocksOf, Holds
  <2>4. QED  BY <2>1, <2>3 DEF Sole
<1>3. ASSUME NEW i \in Ids, QueueWork(i)
      PROVE  Sole'
  <2>1. ASSUME NEW w \in Workers, Take(w, i)
        PROVE  Sole'
    <3>1. /\ wstage[w] = "idle" /\ job[i] = "wait"
          /\ wstage' = [wstage EXCEPT ![w] = "start"] /\ wjob' = [wjob EXCEPT ![w] = i]
          /\ lock' = [lock EXCEPT ![i] = w]
      BY <2>1 DEF Take, TakeJob
    <3>2. \A v \in Workers : wstage[v] # "idle" => wjob[v] # i
      BY <3>1, LoneSlot
    <3>3. QED  BY <3>1, <3>2 DEF Sole
  <2>2. CASE StallRequeue(i) \/ StallFail(i)
    BY <2>2 DEF StallRequeue, StallFail, RequeueStalled, FailStalled, workerVars, Sole
  <2>3. QED  BY <1>3, <2>1, <2>2 DEF QueueWork
<1>4. QED
  BY <1>1, <1>2, <1>3 DEF RunStep, AnySlot, SlotFault, LockLost

LEMMA BodySole ==
  ASSUME NEW S, RunTypes(S), Sole, NEW w \in Workers, wstage[w] # "idle", BodyStep(w)
  PROVE  Sole'
BY DEF RunTypes, RunTypeOK, BodyStep, Sole

\* Without crashes and lost locks a job is ended or given back by its slot only.
LEMMA NoStalls ==
  ASSUME ActiveHeld, NEW i \in Ids
  PROVE  ~StallRequeue(i) /\ ~StallFail(i)
BY DEF ActiveHeld, StallRequeue, StallFail, RequeueStalled, FailStalled, Stalled, Locked

LEMMA CalmSlots ==
  ASSUME NEW S, RunTypes(S), OwnerInv, Sole, ActiveHeld, MadeKnown, AnySlot, Faults \subseteq CalmFaults
  PROVE  /\ ActiveHeld' /\ MadeKnown'
         /\ (\E w \in Workers : SlotWork(w)) \/ (\E w \in Workers, i \in Ids : Take(w, i))
<1> USE RunAssumption, QueueAssumption DEF RunTypes, RunTypeOK, RunLocals, QueueTypeOK
<1>1. (\E w \in Workers : SlotWork(w)) \/ (\E w \in Workers, i \in Ids : Take(w, i))
  BY NoStalls DEF AnySlot, SlotFault, WorkerCrash, LockLost, QueueWork, CalmFaults
<1>2. ASSUME NEW w \in Workers, SlotWork(w)
      PROVE  ActiveHeld' /\ MadeKnown'
  <2>1. wstage[w] # "idle"
    BY <1>2, AttemptEnds
  <2>2. wjob[w] \in Ids /\ \A v \in Workers : wstage[v] # "idle" /\ wjob[v] = wjob[w] => v = w
    BY <2>1, LoneSlot
  <2>3. /\ \A i \in Ids \ {wjob[w]} : job'[i] = job[i] /\ lock'[i] = lock[i] /\ attempts'[i] = attempts[i]
        /\ job'[wjob[w]] # "active"
        /\ wstage' = [wstage EXCEPT ![w] = "idle"] /\ wjob' = [wjob EXCEPT ![w] = NoId]
        /\ wmade' = [wmade EXCEPT ![w] = 0]
    BY <1>2, AttemptEnds
  <2>4. QED  BY <2>2, <2>3 DEF ActiveHeld, MadeKnown
<1>3. ASSUME NEW w \in Workers, NEW i \in Ids, Take(w, i)
      PROVE  ActiveHeld' /\ MadeKnown'
  BY <1>3 DEF Take, TakeJob, ActiveHeld, MadeKnown
<1>4. QED  BY <1>1, <1>2, <1>3
=============================================================================
