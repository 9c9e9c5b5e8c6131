-------------------------- MODULE AiSearchRunProofs --------------------------
(***************************************************************************)
(* Theorems about AiSearchRun, for any number of runs, requests and slots  *)
(* and any attempt and stall limits; which faults they allow is stated     *)
(* with each.                                                              *)
(***************************************************************************)
EXTENDS AiSearchRun, RunJobProofs

SlotStage == {"idle"} \cup WorkStage

StoreTypes ==
  /\ captures \in [Ids -> 0..MaxSets]
  /\ analysis \in [Ids -> Count]
  /\ charge \in [Ids -> Charge]
  /\ redelivered \in [Workers -> BOOLEAN]
  /\ hand \in [Workers -> Count]

TypeInv == TypeOK /\ RunLocals

LEMMA TypeInvIsRunTypes ==
  TypeInv <=> RunTypes(SlotStage) /\ StoreTypes
BY DEF TypeInv, TypeOK, RunTypes, SlotStage, StoreTypes

LEMMA InitTypeInv ==
  ASSUME Init
  PROVE  TypeInv
<1>1. RunTypes(SlotStage)
  BY RunInitTypes DEF Init, SlotStage
<1>2. StoreTypes
  BY AiSearchAssumption DEF Init, StoreTypes, Count, Charge
<1>3. QED  BY <1>1, <1>2, TypeInvIsRunTypes

\* What a step of the processor's body does to the run and the slot.
LEMMA ProcessRunTypes ==
  ASSUME TypeInv, NEW w \in Workers, Process(w) \/ Throw(w)
  PROVE  RunTypes(SlotStage)'
<1> USE DEF TypeInv, TypeOK, RunTypes, RunTypeOK, RunLocals, SlotStage, WorkStage, WGoto, queueVars,
        rowVars, reqVars, QueueTypeOK
<1>1. CASE Start(w) \/ MarkDone(w) \/ Catch(w)
  <2>1. wjob[w] \in Ids /\ wstage[w] # "idle"
    BY <1>1 DEF Start, MarkDone, Catch
  <2>2. hand[w] \in Count \cup {Undefined}
    OBVIOUS
  <2>3. status' \in [Ids -> RunStatus \cup {NoRow}] /\ count' \in [Ids -> Count]
    BY <1>1, <2>1, <2>2, MarkStatusTypes DEF Start, MarkDone, Catch, RunStatus
  <2>4. /\ wstage' \in [Workers -> {"idle"} \cup WorkStage]
        /\ \A v \in Workers : wstage'[v] # "idle" => wstage[v] # "idle"
        /\ UNCHANGED <<queueVars, reqVars, wjob, wmade>>
    BY <1>1, <2>1 DEF Start, MarkDone, Catch
  <2>5. QED  BY <2>3, <2>4
<1>2. CASE Reuse(w) \/ Fresh(w) \/ Clean(w) \/ Pull(w)
  BY <1>2 DEF Reuse, Fresh, Clean, Pull
<1>3. CASE Persist(w) \/ Analyze(w) \/ Tick(w) \/ Throw(w)
  BY <1>3 DEF Persist, Analyze, Tick, Throw
<1>4. QED  BY <1>1, <1>2, <1>3 DEF Process

LEMMA ProcessStoreTypes ==
  ASSUME TypeInv, NEW w \in Workers, Process(w) \/ Throw(w)
  PROVE  StoreTypes'
<1> USE AiSearchAssumption DEF TypeInv, TypeOK, RunTypeOK, RunLocals, WorkStage, StoreTypes, storeVars,
        slotVars
<1>1. wstage[w] # "idle" => wjob[w] \in Ids
  OBVIOUS
<1>2. CASE Start(w) \/ Fresh(w) \/ MarkDone(w) \/ Catch(w) \/ Tick(w) \/ Throw(w)
  BY <1>2 DEF Start, Fresh, MarkDone, Catch, Tick, Throw
<1>3. CASE Reuse(w) \/ Clean(w) \/ Analyze(w)
  BY <1>1, <1>3 DEF Reuse, Clean, Analyze, Count
<1>4. CASE Pull(w)
  <2>1. charge' = [charge EXCEPT ![wjob[w]] = Paid(@)] /\ wjob[w] \in Ids
    BY <1>1, <1>4 DEF Pull
  <2>2. Paid(charge[wjob[w]]) \in Charge
    BY <2>1 DEF Paid, Charge
  <2>3. charge' \in [Ids -> Charge]
    BY <2>1, <2>2
  <2>4. QED  BY <1>4, <2>3 DEF Pull, Count
<1>5. CASE Persist(w)
  <2>1. charge' = [charge EXCEPT ![wjob[w]] = Kept(@, hand[w])] /\ wjob[w] \in Ids
    BY <1>1, <1>5 DEF Persist
  <2>2. Kept(charge[wjob[w]], hand[w]) \in Charge
    BY <2>1 DEF Kept, Charge
  <2>3. charge' \in [Ids -> Charge]
    BY <2>1, <2>2
  <2>4. captures' \in [Ids -> 0..MaxSets]
    BY <1>5, <2>1 DEF Persist
  <2>5. QED  BY <1>5, <2>3, <2>4 DEF Persist
<1>6. QED  BY <1>2, <1>3, <1>4, <1>5 DEF Process

LEMMA NextTypeInv ==
  ASSUME TypeInv, [Next]_vars
  PROVE  TypeInv'
<1>1. CASE Create \/ Slots
  <2>1. RunTypes(SlotStage) /\ StoreTypes
    BY TypeInvIsRunTypes
  <2>2. "idle" \in SlotStage /\ "start" \in SlotStage
    BY DEF SlotStage, WorkStage
  <2>3. RunTypes(SlotStage)'
    BY <1>1, <2>1, <2>2, RunStepTypes DEF Create, Slots, RunStep
  <2>4. StoreTypes'
    BY <1>1, <2>1 DEF Create, Slots, Accounts, SlotTurns, StartedBefore, StoreTypes, storeVars,
       slotVars, Charge, Count
  <2>5. QED  BY <2>3, <2>4 DEF TypeInv, TypeOK, RunTypes, SlotStage, StoreTypes
<1>2. CASE \E w \in Workers : Process(w) \/ Throw(w)
  BY <1>2, ProcessRunTypes, ProcessStoreTypes DEF TypeInv, TypeOK, RunTypes, SlotStage, StoreTypes
<1>3. CASE UNCHANGED vars
  BY <1>3 DEF vars, runVars, queueVars, rowVars, reqVars, workerVars, storeVars, slotVars, TypeInv,
     TypeOK, RunTypeOK, QueueTypeOK, RunLocals
<1>4. QED  BY <1>1, <1>2, <1>3 DEF Next

(* Every reachable state is well typed: rows, jobs, stores, accounts and   *)
(* the locals of createRun and of the processor.                           *)
THEOREM Typing == Spec => []TypeOK
<1>1. Spec => []TypeInv
  BY InitTypeInv, NextTypeInv, PTL DEF Spec
<1>2. TypeInv => TypeOK
  BY DEF TypeInv
<1>3. QED  BY <1>1, <1>2, PTL

-----------------------------------------------------------------------------
LEMMA ProcessIsBodyStep ==
  ASSUME TypeInv, NEW w \in Workers, Process(w) \/ Throw(w)
  PROVE  BodyStep(w)
<1> USE DEF TypeInv, TypeOK, RunTypeOK, RunLocals, WorkStage, WGoto, queueVars, rowVars, reqVars,
        QueueTypeOK, BodyStep, NotBegun
<1>1. CASE Start(w) \/ MarkDone(w) \/ Catch(w)
  BY <1>1 DEF Start, MarkDone, Catch, MarkStatus
<1>2. CASE Reuse(w) \/ Fresh(w) \/ Clean(w) \/ Pull(w) \/ Persist(w) \/ Analyze(w) \/ Tick(w) \/ Throw(w)
  BY <1>2 DEF Reuse, Fresh, Clean, Pull, Persist, Analyze, Tick, Throw
<1>3. QED  BY <1>1, <1>2 DEF Process

LEMMA NextOwner ==
  ASSUME TypeInv, OwnerInv, [Next]_vars
  PROVE  OwnerInv'
<1>1. RunTypes(SlotStage)
  BY TypeInvIsRunTypes
<1>2. CASE Create \/ Slots
  BY <1>1, <1>2, RunStepOwner DEF Create, Slots, RunStep
<1>3. CASE \E w \in Workers : Process(w) \/ Throw(w)
  BY <1>1, <1>3, ProcessIsBodyStep, BodyOwner
<1>4. CASE UNCHANGED vars
  BY <1>4 DEF vars, runVars, queueVars, rowVars, reqVars, workerVars, OwnerInv, LocksHeld, QueuedRows,
     JobIsAhead, RequestLooks
<1>5. QED  BY <1>2, <1>3, <1>4 DEF Next

(* A queued AI-search run has a job ahead of it or a request that still    *)
(* deals with it, as for the topic runs.                                   *)
THEOREM QueuedRunsAreOwned == Spec => []QueuedHasOwner
<1>1. Init => TypeInv /\ OwnerInv
  BY InitTypeInv, RunInitOwner DEF Init
<1>2. TypeInv /\ OwnerInv /\ [Next]_vars => TypeInv' /\ OwnerInv'
  BY NextTypeInv, NextOwner
<1>3. OwnerInv => QueuedHasOwner
  BY OwnerInvGivesOwner
<1>4. QED  BY <1>1, <1>2, <1>3, PTL DEF Spec

-----------------------------------------------------------------------------
(* Why what is stored is paid for once, as long as a slot that works on a  *)
(* job holds its lock.  A job that has paid and waits has been delivered   *)
(* before, and the slot it goes to is told; stored captures stay while     *)
(* their job has an account; so the slot finds them and reuses them.       *)
Remembered == \A i \in Ids : job[i] = "wait" /\ charge[i] # "none" => attempts[i] + stalls[i] > 0
Told       == \A w \in Workers :
                wstage[w] \in {"start", "gather"} /\ charge[wjob[w]] # "none" => redelivered[w]
Spared     == \A w \in Workers : wstage[w] \in {"clean", "pull"} => charge[wjob[w]] # "stored"
StoredRows == \A i \in Ids : charge[i] = "stored" => captures[i] > 0

PayInv == Sole /\ Remembered /\ Told /\ Spared /\ StoredRows /\ NoRechargeOfStored

\* Only the slot that holds the lock of a job works on it, and the job is active.
LEMMA SoleSlot ==
  ASSUME TypeInv, OwnerInv, Sole, NEW w \in Workers, wstage[w] # "idle"
  PROVE  /\ wjob[w] \in Ids /\ job[wjob[w]] = "active"
         /\ \A v \in Workers : wstage[v] # "idle" /\ wjob[v] = wjob[w] => v = w
BY TypeInvIsRunTypes, LoneSlot

LEMMA ProcessPay ==
  ASSUME TypeInv, OwnerInv, PayInv, NEW w \in Workers, Process(w) \/ Throw(w)
  PROVE  PayInv'
<1> USE DEF TypeInv, TypeOK, RunTypeOK, RunLocals, PayInv, WGoto, queueVars, storeVars, slotVars
<1>1. wstage[w] # "idle"
  BY DEF Process, Start, Reuse, Fresh, Clean, Pull, Persist, Analyze, MarkDone, Tick, Catch, Throw, WorkStage
<1>2. /\ wjob[w] \in Ids /\ job[wjob[w]] = "active"
      /\ \A v \in Workers : wstage[v] # "idle" /\ wjob[v] = wjob[w] => v = w
  BY <1>1, SoleSlot
<1>3. CASE Start(w) \/ Reuse(w) \/ Analyze(w) \/ MarkDone(w) \/ Tick(w) \/ Catch(w) \/ Throw(w)
  BY <1>1, <1>2, <1>3 DEF Start, Reuse, Analyze, MarkDone, Tick, Catch, Throw, Sole, Remembered, Told, Spared,
     StoredRows, NoRechargeOfStored
<1>4. CASE Fresh(w)
  <2>1. charge[wjob[w]] # "stored"
    BY <1>2, <1>4 DEF Fresh, Told, StoredRows
  <2>2. QED
    BY <1>2, <1>4, <2>1 DEF Fresh, Sole, Remembered, Told, Spared, StoredRows, NoRechargeOfStored
<1>5. CASE Clean(w)
  BY <1>2, <1>5 DEF Clean, Sole, Remembered, Told, Spared, StoredRows, NoRechargeOfStored
<1>6. CASE Pull(w)
  <2>1. charge' = [charge EXCEPT ![wjob[w]] = Paid(@)] /\ charge[wjob[w]] # "stored"
    BY <1>6 DEF Pull, Spared
  <2>2. Paid(charge[wjob[w]]) \notin {"stored", "storedAgain"}
    BY <1>2, <2>1 DEF Paid, NoRechargeOfStored
  <2>3. UNCHANGED <<queueVars, captures, redelivered, wjob>> /\ wstage' = [wstage EXCEPT ![w] = "persist"]
    BY <1>6 DEF Pull
  <2>4. QED
    BY <1>1, <1>2, <2>1, <2>2, <2>3 DEF Sole, Remembered, Told, Spared, StoredRows, NoRechargeOfStored
<1>7. CASE Persist(w)
  <2>1. charge' = [charge EXCEPT ![wjob[w]] = Kept(@, hand[w])]
    BY <1>7 DEF Persist
  <2>2. /\ charge[wjob[w]] # "storedAgain"
        /\ hand[w] = "some" => captures'[wjob[w]] > 0
        /\ \A i \in Ids : captures[i] > 0 => captures'[i] > 0
    BY <1>2, <1>7 DEF Persist, NoRechargeOfStored
  <2>3. /\ Kept(charge[wjob[w]], hand[w]) # "storedAgain"
        /\ Kept(charge[wjob[w]], hand[w]) = "stored" => captures'[wjob[w]] > 0
    BY <1>2, <2>2 DEF Kept, StoredRows
  <2>4. UNCHANGED <<queueVars, redelivered, wjob>> /\ wstage' = [wstage EXCEPT ![w] = "analyze"]
    BY <1>7 DEF Persist
  <2>5. QED
    BY <1>1, <1>2, <2>1, <2>2, <2>3, <2>4 DEF Sole, Remembered, Told, Spared, StoredRows, NoRechargeOfStored
<1>8. QED  BY <1>3, <1>4, <1>5, <1>6, <1>7 DEF Process

LEMMA CreatePay ==
  ASSUME TypeInv, OwnerInv, PayInv, Create
  PROVE  PayInv'
<1> USE DEF TypeInv, TypeOK, RunTypeOK, PayInv
<1>1. PICK c \in Clients : RequestStep(c)
  BY DEF Create, AnyRequest
<1>2. UNCHANGED <<lock, wstage, wjob, captures, redelivered>>
  BY <1>1 DEF Create, RequestStep, RequestWork, Request, Find, Insert, Reset, GetJob, GetState, Remove, RemoveJob,
     RemoveRefused, Add, AddJob, MarkFailed, QueueCallFails, workerVars, queueVars, slotVars
<1>3. \A i \in Ids :
        \/ job'[i] = job[i] /\ attempts'[i] = attempts[i] /\ stalls'[i] = stalls[i]
        \/ job'[i] = "absent"
        \/ job[i] = "absent" /\ job'[i] = "wait"
  BY <1>1 DEF RequestStep, RequestWork, Request, Find, Insert, Reset, GetJob, GetState, Remove, RemoveJob,
     RemoveRefused, Add, AddJob, MarkFailed, QueueCallFails, queueVars, QueueTypeOK
<1>4. \A i \in Ids : charge'[i] = IF job[i] = "absent" /\ job'[i] = "wait" THEN "none" ELSE charge[i]
  BY DEF Create, Accounts
<1>5. Sole' /\ Told' /\ Spared'
  BY <1>2, <1>4 DEF Sole, Told, Spared, RunLocals
<1>6. Remembered'
  BY <1>3, <1>4 DEF Remembered
<1>7. StoredRows' /\ NoRechargeOfStored'
  BY <1>2, <1>4 DEF StoredRows, NoRechargeOfStored
<1>8. QED  BY <1>5, <1>6, <1>7

LEMMA SlotsPay ==
  ASSUME TypeInv, OwnerInv, PayInv, Slots, "lockLost" \notin Faults
  PROVE  PayInv'
<1> USE QueueAssumption DEF TypeInv, TypeOK, RunTypeOK, RunLocals, PayInv, QueueTypeOK
<1>1. UNCHANGED <<captures, charge>>
  BY DEF Slots, storeVars
<1>2. StoredRows' /\ NoRechargeOfStored'
  BY <1>1 DEF StoredRows, NoRechargeOfStored
<1>3. \A v \in Workers : redelivered'[v] =
        IF wstage[v] = "idle" THEN wjob'[v] # NoId /\ StartedBefore(wjob'[v])
        ELSE redelivered[v] /\ wstage'[v] # "idle"
  BY DEF Slots, SlotTurns
<1>4. ASSUME NEW w \in Workers, Finish(w) \/ FailAttempt(w) \/ WorkerCrash(w)
      PROVE  PayInv'
  <2>1. wstage[w] # "idle"
    BY <1>4 DEF Finish, FailAttempt, WorkerCrash
  <2>2. wjob[w] \in Ids /\ lock[wjob[w]] = w /\ \A v \in Workers : wstage[v] # "idle" /\ wjob[v] = wjob[w] => v = w
    BY <2>1, SoleSlot DEF Sole
  <2>3. wstage' = [wstage EXCEPT ![w] = "idle"] /\ wjob' = [wjob EXCEPT ![w] = NoId]
    BY <1>4 DEF Finish, FailAttempt, WorkerCrash, WDone
  <2>4. \A i \in Ids : lock'[i] = lock[i] \/ lock[i] = w
    BY <1>4, <2>2 DEF Finish, FailAttempt, WorkerCrash, CompleteJob, FailJob, Release, LoseLocksOf, Holds
  <2>5. \A i \in Ids : \/ job'[i] = job[i] /\ attempts'[i] = attempts[i] /\ stalls'[i] = stalls[i]
                       \/ job'[i] = "wait" /\ attempts'[i] = attempts[i] + 1 /\ stalls'[i] = stalls[i]
                       \/ job'[i] \in {"completed", "failed"}
    BY <1>4, <2>2 DEF Finish, FailAttempt, WorkerCrash, CompleteJob, FailJob, Release, LoseLocksOf, Holds, queueVars
  <2>6. Sole'
    BY <2>3, <2>4 DEF Sole
  <2>7. Remembered'
    BY <1>1, <2>5 DEF Remembered
  <2>8. Told' /\ Spared'
    BY <1>1, <1>3, <2>3 DEF Told, Spared
  <2>9. QED  BY <1>2, <2>6, <2>7, <2>8
<1>5. ASSUME NEW w \in Workers, NEW i \in Ids, Take(w, i)
      PROVE  PayInv'
  <2>1. /\ wstage[w] = "idle" /\ job[i] = "wait"
        /\ wstage' = [wstage EXCEPT ![w] = "start"] /\ wjob' = [wjob EXCEPT ![w] = i]
        /\ job' = [job EXCEPT ![i] = "active"] /\ lock' = [lock EXCEPT ![i] = w]
        /\ UNCHANGED <<attempts, stalls>>
    BY <1>5 DEF Take, TakeJob
  <2>2. \A v \in Workers : wstage[v] # "idle" => wjob[v] # i
    BY <2>1, SoleSlot
  <2>3. Sole'
    BY <2>1, <2>2 DEF Sole
  <2>4. Remembered'
    BY <1>1, <2>1 DEF Remembered
  <2>5. charge[i] # "none" => redelivered'[w]
    BY <1>3, <2>1, RunAssumption DEF Remembered, StartedBefore
  <2>6. Told' /\ Spared'
    BY <1>1, <1>3, <2>1, <2>2, <2>5 DEF Told, Spared
  <2>7. QED  BY <1>2, <2>3, <2>4, <2>6
<1>6. ASSUME NEW i \in Ids, StallRequeue(i) \/ StallFail(i)
      PROVE  PayInv'
  <2>1. UNCHANGED <<lock, wstage, wjob, attempts>>
    BY <1>6 DEF StallRequeue, StallFail, RequeueStalled, FailStalled, workerVars
  <2>2. \A k \in Ids : job'[k] = "wait" => \/ job[k] = "wait" /\ stalls'[k] = stalls[k]
                                          \/ stalls'[k] = stalls[k] + 1
    BY <1>6 DEF StallRequeue, StallFail, RequeueStalled, FailStalled
  <2>3. Sole' /\ Remembered'
    BY <1>1, <2>1, <2>2 DEF Sole, Remembered
  <2>4. Told' /\ Spared'
    BY <1>1, <1>3, <2>1 DEF Told, Spared
  <2>5. QED  BY <1>2, <2>3, <2>4
<1>7. QED
  BY <1>4, <1>5, <1>6 DEF Slots, AnySlot, SlotWork, SlotFault, LockLost, QueueWork

(* A job whose captures are stored does not pay for another pull, however  *)
(* often it throws, crashes, stalls and is delivered again, and whatever   *)
(* requests do meanwhile - provided no slot goes on without its lock.      *)
THEOREM StoredIsPaidOnce ==
  ASSUME "lockLost" \notin Faults
  PROVE  Spec => []NoRechargeOfStored
<1>1. Init => TypeInv /\ OwnerInv /\ PayInv
  BY InitTypeInv, RunInitOwner DEF Init, RunInit, QueueInit, PayInv, Sole, Remembered, Told, Spared,
     StoredRows, NoRechargeOfStored
<1>2. TypeInv /\ OwnerInv /\ PayInv /\ [Next]_vars => TypeInv' /\ OwnerInv' /\ PayInv'
  <2> SUFFICES ASSUME TypeInv, OwnerInv, PayInv, [Next]_vars
               PROVE  PayInv'
    BY NextTypeInv, NextOwner
  <2>1. CASE UNCHANGED vars
    BY <2>1 DEF vars, runVars, queueVars, workerVars, storeVars, slotVars, PayInv, Sole, Remembered,
       Told, Spared, StoredRows, NoRechargeOfStored
  <2>2. QED  BY <2>1, ProcessPay, CreatePay, SlotsPay DEF Next
<1>3. PayInv => NoRechargeOfStored
  BY DEF PayInv
<1>4. QED  BY <1>1, <1>2, <1>3, PTL DEF Spec

-----------------------------------------------------------------------------
(* Why one request queues the job, as long as no process dies, no lock is  *)
(* lost and no reply of add.  A run that can be reset, and one that a      *)
(* request is about to queue, is over: its job does not wait, and the slot *)
(* that still has it will only end it.  So nothing closes the row of such  *)
(* a request before it has queued the job, and no other request resets it. *)
Over(i) ==
  /\ job[i] # "wait"
  /\ \A w \in Workers : wstage[w] # "idle" /\ wjob[w] = i =>
       wstage[w] \in {"tick", "finish"} \/ (wstage[w] = "fail" /\ wmade[w] + 1 >= JobAttempts)

ClosedOver == \A i \in Ids : status[i] \in Resettable \cup {NoRow} => Over(i)
Enqueuing  == \A c \in Clients : stage[c] \in EnqueueStage => status[reqRun[c]] = "queued" /\ Over(reqRun[c])

EnqueueInv == Sole /\ ActiveHeld /\ MadeKnown /\ ClosedOver /\ Enqueuing /\ OneEnqueuer

LEMMA ProcessEnqueue ==
  ASSUME TypeInv, OwnerInv, EnqueueInv, NEW w \in Workers, Process(w) \/ Throw(w)
  PROVE  EnqueueInv'
<1> USE DEF TypeInv, TypeOK, RunTypeOK, RunLocals, EnqueueInv, queueVars, reqVars, WGoto
<1>1. wstage[w] # "idle"
  BY DEF Process, Start, Reuse, Fresh, Clean, Pull, Persist, Analyze, MarkDone, Tick, Catch, Throw, WorkStage
<1>2. /\ wjob[w] \in Ids /\ job[wjob[w]] = "active"
      /\ \A v \in Workers : wstage[v] # "idle" /\ wjob[v] = wjob[w] => v = w
  BY <1>1, SoleSlot
<1>3. /\ UNCHANGED <<queueVars, reqVars, wjob, wmade>>
      /\ \A v \in Workers : v # w => wstage'[v] = wstage[v]
      /\ wstage'[w] # "idle"
  BY DEF Process, Start, Reuse, Fresh, Clean, Pull, Persist, Analyze, MarkDone, Tick, Catch, Throw, WorkStage
<1>4. Sole' /\ ActiveHeld' /\ MadeKnown' /\ OneEnqueuer'
  BY <1>1, <1>3 DEF Sole, ActiveHeld, MadeKnown, OneEnqueuer
<1>5. \A i \in Ids : Over(i) => Over(i)'
  <2>1. wstage[w] \in {"tick", "finish", "fail"} => wstage'[w] = "finish"
    BY <1>1 DEF Process, Start, Reuse, Fresh, Clean, Pull, Persist, Analyze, MarkDone, Tick, Catch, Throw, WorkStage
  <2>2. QED  BY <1>1, <1>3, <2>1 DEF Over
<1>6. \A i \in Ids : status'[i] # status[i] =>
        i = wjob[w] /\ ~Over(i) /\ status[i] # NoRow /\ status'[i] # NoRow /\ (status'[i] \in Resettable => Over(i)')
  <2>1. CASE Start(w)
    BY <1>1, <1>2, <2>1, AiSearchAssumption DEF Start, MarkStatus, Exists, Over, NoRow, ResetStatuses
  <2>2. CASE MarkDone(w)
    BY <1>2, <1>3, <2>2 DEF MarkDone, MarkStatus, Exists, Over, NoRow
  <2>3. CASE Catch(w)
    BY <1>2, <1>3, <2>3 DEF Catch, IsFinalAttempt, MarkStatus, Exists, Over, NoRow, rowVars
  <2>4. CASE UNCHANGED rowVars
    BY <2>4 DEF rowVars
  <2>5. QED
    BY <2>1, <2>2, <2>3, <2>4 DEF Process, Reuse, Fresh, Clean, Pull, Persist, Analyze, Tick, Throw
<1>7. ClosedOver'
  BY <1>5, <1>6 DEF ClosedOver
<1>8. Enqueuing'
  <2>1. \A c \in Clients : stage[c] \in EnqueueStage => reqRun[c] \in Ids
    BY DEF EnqueueStage
  <2>2. QED  BY <1>3, <1>5, <1>6, <2>1 DEF Enqueuing
<1>9. QED  BY <1>4, <1>7, <1>8

LEMMA CreateEnqueue ==
  ASSUME TypeInv, OwnerInv, EnqueueInv, Create, Faults \subseteq CalmFaults
  PROVE  EnqueueInv'
<1> USE DEF TypeInv, TypeOK, RunTypeOK, RunLocals, EnqueueInv
<1>1. PICK c \in Clients : RequestStep(c)
  BY DEF Create, AnyRequest
<1>2. UNCHANGED <<lock, wstage, wjob, wmade>> /\ \A d \in Clients \ {c} : stage'[d] = stage[d] /\ reqRun'[d] = reqRun[d]
  BY <1>1 DEF RequestStep, RequestWork, Request, Find, Insert, Reset, GetJob, GetState, Remove, RemoveJob,
     RemoveRefused, Add, AddJob, MarkFailed, QueueCallFails, Goto, Done, workerVars, queueVars
<1>3. \A d \in Clients : stage[d] \in EnqueueStage => reqRun[d] \in Ids
  BY DEF EnqueueStage
<1>4. \A i \in Ids : Over(i) /\ job'[i] # "wait" => Over(i)'
  BY <1>2 DEF Over
<1>5. Sole'
  BY <1>2 DEF Sole
<1>6. CASE (\E i \in Ids : Request(c, i)) \/ Find(c) \/ GetJob(c) \/ GetState(c) \/ QueueCallFails(c)
  <2>1. /\ UNCHANGED <<queueVars, rowVars>>
        /\ stage'[c] \in EnqueueStage => stage[c] \in EnqueueStage /\ reqRun'[c] = reqRun[c]
    BY <1>6 DEF Request, Find, GetJob, GetState, AfterState, QueueCallFails, Goto, Done, EnqueueStage
  <2>2. QED
    BY <1>2, <1>3, <1>4, <1>5, <2>1 DEF ActiveHeld, MadeKnown, ClosedOver, Enqueuing, OneEnqueuer, queueVars, rowVars, Over
<1>7. CASE Insert(c) \/ Reset(c)
  <2>1. /\ UNCHANGED queueVars /\ stage[c] \notin EnqueueStage
        /\ \/ UNCHANGED status /\ stage'[c] = "idle"
           \/ /\ status[reqRun[c]] \in Resettable \cup {NoRow}
              /\ status' = [status EXCEPT ![reqRun[c]] = "queued"]
              /\ stage'[c] = "getJob" /\ reqRun'[c] = reqRun[c] /\ reqRun[c] \in Ids
    BY <1>7, AiSearchAssumption DEF Insert, Reset, MayReset, Exists, WriteQueued, Goto, Done, EnqueueStage, rowVars
  <2>2. "queued" \notin Resettable \cup {NoRow}
    BY AiSearchAssumption DEF ResetStatuses, NoRow
  <2>3. ActiveHeld' /\ MadeKnown'
    BY <1>2, <2>1 DEF ActiveHeld, MadeKnown, queueVars
  <2>4. \A i \in Ids : Over(i) => Over(i)'
    BY <1>4, <2>1 DEF queueVars, Over
  <2>5. ClosedOver'
    BY <2>1, <2>2, <2>4 DEF ClosedOver
  <2>6. CASE UNCHANGED status /\ stage'[c] = "idle"
    BY <1>2, <1>3, <1>5, <2>1, <2>3, <2>4, <2>5, <2>6 DEF Enqueuing, OneEnqueuer, EnqueueStage
  <2>7. CASE ~(UNCHANGED status /\ stage'[c] = "idle")
    <3>1. \A d \in Clients : stage[d] \in EnqueueStage => reqRun[d] # reqRun[c]
      BY <1>3, <2>1, <2>2, <2>7 DEF Enqueuing
    <3>2. Enqueuing'
      BY <1>2, <1>3, <2>1, <2>4, <2>7, <3>1 DEF Enqueuing, ClosedOver
    <3>3. OneEnqueuer'
      BY <1>2, <2>1, <2>7, <3>1 DEF OneEnqueuer
    <3>4. QED  BY <1>5, <2>3, <2>5, <3>2, <3>3
  <2>8. QED  BY <2>6, <2>7
<1>8. CASE Remove(c)
  <2>1. /\ UNCHANGED <<status, lock, attempts>> /\ reqRun'[c] = reqRun[c]
        /\ stage[c] \in EnqueueStage
        /\ \A i \in Ids : job'[i] = job[i] \/ job'[i] = "absent"
    BY <1>8 DEF Remove, RemoveJob, RemoveRefused, Goto, EnqueueStage, queueVars, rowVars, QueueTypeOK
  <2>2. \A i \in Ids : Over(i) => Over(i)'
    BY <1>4, <2>1 DEF Over
  <2>3. ActiveHeld' /\ MadeKnown' /\ ClosedOver'
    BY <1>2, <2>1, <2>2 DEF ActiveHeld, MadeKnown, ClosedOver
  <2>4. Enqueuing' /\ OneEnqueuer'
    BY <1>2, <1>3, <2>1, <2>2 DEF Enqueuing, OneEnqueuer
  <2>5. QED  BY <1>5, <2>3, <2>4
<1>9. CASE Add(c)
  <2>1. /\ UNCHANGED status /\ stage[c] \in EnqueueStage /\ stage'[c] = "idle" /\ reqRun[c] \in Ids
        /\ AddJob(reqRun[c])
    BY <1>3, <1>9 DEF Add, Done, CalmFaults, EnqueueStage, rowVars
  <2>2. /\ \A i \in Ids : i # reqRun[c] => job'[i] = job[i] /\ attempts'[i] = attempts[i]
        /\ \/ job'[reqRun[c]] = job[reqRun[c]] /\ attempts'[reqRun[c]] = attempts[reqRun[c]]
           \/ job[reqRun[c]] = "absent" /\ job'[reqRun[c]] = "wait"
    BY <2>1 DEF AddJob, queueVars, QueueTypeOK
  <2>3. status[reqRun[c]] = "queued" /\ "queued" \notin Resettable \cup {NoRow}
    BY <2>1, AiSearchAssumption DEF Enqueuing, ResetStatuses, NoRow
  <2>4. ActiveHeld'
    BY <1>2, <2>2 DEF ActiveHeld
  <2>5. MadeKnown'
    <3>1. \A w \in Workers : wstage[w] # "idle" => wjob[w] \in Ids /\ job[wjob[w]] = "active"
      BY SoleSlot
    <3>2. QED  BY <1>2, <2>2, <3>1 DEF MadeKnown
  <2>6. ClosedOver'
    <3>1. \A i \in Ids : i # reqRun[c] /\ Over(i) => Over(i)'
      BY <1>4, <2>2 DEF Over
    <3>2. QED  BY <2>1, <2>3, <3>1 DEF ClosedOver
  <2>7. Enqueuing'
    <3>1. \A d \in Clients : stage'[d] \in EnqueueStage =>
            d # c /\ stage[d] \in EnqueueStage /\ reqRun[d] # reqRun[c] /\ reqRun[d] \in Ids /\ reqRun'[d] = reqRun[d]
      BY <1>2, <1>3, <2>1 DEF OneEnqueuer, EnqueueStage
    <3>2. \A i \in Ids : i # reqRun[c] /\ Over(i) => Over(i)'
      BY <1>4, <2>2 DEF Over
    <3>3. QED  BY <2>1, <3>1, <3>2 DEF Enqueuing
  <2>8. OneEnqueuer'
    BY <1>2, <2>1 DEF OneEnqueuer, EnqueueStage
  <2>9. QED  BY <1>5, <2>4, <2>5, <2>6, <2>7, <2>8
<1>10. CASE MarkFailed(c)
  <2>1. /\ UNCHANGED queueVars /\ stage[c] \in EnqueueStage /\ stage'[c] = "idle" /\ reqRun[c] \in Ids
        /\ \A i \in Ids : i # reqRun[c] => status'[i] = status[i]
    BY <1>3, <1>10 DEF MarkFailed, MarkStatus, Done, EnqueueStage, rowVars
  <2>2. Over(reqRun[c])
    BY <2>1 DEF Enqueuing
  <2>3. \A i \in Ids : Over(i) => Over(i)'
    BY <1>4, <2>1 DEF queueVars, Over
  <2>4. ActiveHeld' /\ MadeKnown'
    BY <1>2, <2>1 DEF ActiveHeld, MadeKnown, queueVars
  <2>5. ClosedOver'
    BY <2>1, <2>2, <2>3 DEF ClosedOver
  <2>6. \A d \in Clients : stage'[d] \in EnqueueStage =>
          d # c /\ stage[d] \in EnqueueStage /\ reqRun[d] # reqRun[c] /\ reqRun[d] \in Ids /\ reqRun'[d] = reqRun[d]
    BY <1>2, <1>3, <2>1 DEF OneEnqueuer, EnqueueStage
  <2>7. Enqueuing'
    BY <2>1, <2>3, <2>6 DEF Enqueuing
  <2>8. OneEnqueuer'
    BY <1>2, <2>6 DEF OneEnqueuer
  <2>9. QED  BY <1>5, <2>4, <2>5, <2>7, <2>8
<1>11. QED
  BY <1>1, <1>6, <1>7, <1>8, <1>9, <1>10 DEF RequestStep, RequestWork

LEMMA SlotsEnqueue ==
  ASSUME TypeInv, OwnerInv, EnqueueInv, Slots, Faults \subseteq CalmFaults
  PROVE  EnqueueInv'
<1> USE QueueAssumption DEF TypeInv, TypeOK, RunTypeOK, RunLocals, EnqueueInv, QueueTypeOK
<1>1. UNCHANGED <<status, stage, reqRun>>
  BY DEF Slots, AnySlot, SlotWork, SlotFault, QueueWork, Finish, FailAttempt, WorkerCrash, LockLost, Take,
     StallRequeue, StallFail, rowVars, reqVars
<1>2. \A c \in Clients : stage[c] \in EnqueueStage => reqRun[c] \in Ids
  BY DEF EnqueueStage
<1>3. ASSUME \A i \in Ids : Over(i) => Over(i)', Sole', ActiveHeld', MadeKnown'
      PROVE  EnqueueInv'
  BY <1>1, <1>2, <1>3 DEF ClosedOver, Enqueuing, OneEnqueuer
<1>4. ASSUME NEW w \in Workers, Finish(w) \/ FailAttempt(w)
      PROVE  EnqueueInv'
  <2>1. wstage[w] # "idle"
    BY <1>4 DEF Finish, FailAttempt
  <2>2. /\ wjob[w] \in Ids /\ lock[wjob[w]] = w /\ job[wjob[w]] = "active" /\ wmade[w] = attempts[wjob[w]]
        /\ \A v \in Workers : wstage[v] # "idle" /\ wjob[v] = wjob[w] => v = w
    BY <2>1, SoleSlot DEF Sole, MadeKnown
  <2>3. wstage' = [wstage EXCEPT ![w] = "idle"] /\ wjob' = [wjob EXCEPT ![w] = NoId] /\ wmade' = [wmade EXCEPT ![w] = 0]
    BY <1>4 DEF Finish, FailAttempt, WDone
  <2>4. /\ \A i \in Ids : i # wjob[w] => job'[i] = job[i] /\ lock'[i] = lock[i] /\ attempts'[i] = attempts[i]
        /\ job'[wjob[w]] # "active"
        /\ job'[wjob[w]] = "wait" => wstage[w] = "fail" /\ wmade[w] + 1 < JobAttempts
    BY <1>4, <2>2 DEF Finish, FailAttempt, CompleteJob, FailJob, AttemptsLeft, Release, Holds
  <2>5. \A i \in Ids : Over(i) => Over(i)'
    BY <2>1, <2>2, <2>3, <2>4 DEF Over
  <2>6. Sole' /\ MadeKnown' /\ ActiveHeld'
    BY <2>2, <2>3, <2>4 DEF Sole, MadeKnown, ActiveHeld
  <2>7. QED  BY <1>3, <2>5, <2>6
<1>5. ASSUME NEW w \in Workers, NEW i \in Ids, Take(w, i)
      PROVE  EnqueueInv'
  <2>1. /\ wstage[w] = "idle" /\ job[i] = "wait"
        /\ wstage' = [wstage EXCEPT ![w] = "start"] /\ wjob' = [wjob EXCEPT ![w] = i]
        /\ wmade' = [wmade EXCEPT ![w] = attempts[i]]
        /\ job' = [job EXCEPT ![i] = "active"] /\ lock' = [lock EXCEPT ![i] = w]
        /\ UNCHANGED attempts
    BY <1>5 DEF Take, TakeJob
  <2>2. \A v \in Workers : wstage[v] # "idle" => wjob[v] # i
    BY <2>1, SoleSlot
  <2>3. \A k \in Ids : Over(k) => Over(k)'
    BY <2>1 DEF Over
  <2>4. Sole' /\ MadeKnown' /\ ActiveHeld'
    BY <2>1, <2>2 DEF Sole, MadeKnown, ActiveHeld
  <2>5. QED  BY <1>3, <2>3, <2>4
<1>6. ASSUME NEW i \in Ids, StallRequeue(i) \/ StallFail(i)
      PROVE  FALSE
  BY <1>6 DEF StallRequeue, StallFail, RequeueStalled, FailStalled, Stalled, Locked, ActiveHeld
<1>7. QED
  BY <1>4, <1>5, <1>6 DEF Slots, AnySlot, SlotWork, SlotFault, WorkerCrash, LockLost, QueueWork, CalmFaults

(* Of any number of requests that see a run in a final state only one      *)
(* resets it and is on its way to queue its job, because the reset is      *)
(* conditional on the status (M14-R3) - provided no process dies, no lock  *)
(* is lost and no reply of add: each of these lets the job of the first    *)
(* request close the row while that request is still under way.            *)
THEOREM OneRequestEnqueues ==
  ASSUME Faults \subseteq CalmFaults
  PROVE  Spec => []OneEnqueuer
<1>1. Init => TypeInv /\ OwnerInv /\ EnqueueInv
  BY InitTypeInv, RunInitOwner DEF Init, RunInit, QueueInit, EnqueueInv, Sole, ActiveHeld, MadeKnown, ClosedOver,
     Enqueuing, OneEnqueuer, Over, EnqueueStage
<1>2. TypeInv /\ OwnerInv /\ EnqueueInv /\ [Next]_vars => TypeInv' /\ OwnerInv' /\ EnqueueInv'
  <2> SUFFICES ASSUME TypeInv, OwnerInv, EnqueueInv, [Next]_vars
               PROVE  EnqueueInv'
    BY NextTypeInv, NextOwner
  <2>1. CASE UNCHANGED vars
    BY <2>1 DEF vars, runVars, queueVars, rowVars, reqVars, workerVars, EnqueueInv, Sole, ActiveHeld, MadeKnown,
       ClosedOver, Enqueuing, OneEnqueuer, Over
  <2>2. QED  BY <2>1, ProcessEnqueue, CreateEnqueue, SlotsEnqueue DEF Next
<1>3. EnqueueInv => OneEnqueuer
  BY DEF EnqueueInv
<1>4. QED  BY <1>1, <1>2, <1>3, PTL DEF Spec

-----------------------------------------------------------------------------
(* Why a done run matches its stores.  A slot that gathers has cleaned     *)
(* what earlier deliveries stored, or reuses their one set; it stores at   *)
(* most one and analyses what it has in hand; and until it marks the row,  *)
(* the row is not done.                                                    *)
Working == {"gather", "clean", "pull", "persist", "analyze", "markDone"}

Sets(n) == IF n = "some" THEN 1 ELSE 0

OneSet   == \A i \in Ids : captures[i] \in {0, 1}
Unmarked == \A w \in Workers : wstage[w] \in Working => status[wjob[w]] \notin {"completed", "partial"}
InHand   == \A w \in Workers :
              /\ wstage[w] \in {"pull", "persist"} => captures[wjob[w]] = 0
              /\ wstage[w] \in {"analyze", "markDone"} => captures[wjob[w]] = Sets(hand[w])
              /\ wstage[w] = "markDone" => analysis[wjob[w]] = hand[w]

StoreInv == Sole /\ OneSet /\ Unmarked /\ InHand /\ DoneRunMatchesStores

LEMMA ProcessStores ==
  ASSUME TypeInv, OwnerInv, StoreInv, NEW w \in Workers, Process(w) \/ Throw(w)
  PROVE  StoreInv'
<1> USE DEF TypeInv, TypeOK, RunTypeOK, RunLocals, StoreInv, WGoto, Working, Sets, storeVars, slotVars
<1>1. wstage[w] # "idle" /\ RunTypes(SlotStage)
  BY TypeInvIsRunTypes DEF Process, Start, Reuse, Fresh, Clean, Pull, Persist, Analyze, MarkDone, Tick, Catch, Throw,
     WorkStage
<1>2. wjob[w] \in Ids /\ \A v \in Workers : wstage[v] # "idle" /\ wjob[v] = wjob[w] => v = w
  BY <1>1, LoneSlot
<1>3. Sole'
  BY <1>1, BodySole, ProcessIsBodyStep
<1>4. CASE Start(w) \/ Catch(w)
  <2>1. /\ UNCHANGED <<captures, analysis, hand, wjob>>
        /\ \A i \in Ids : status'[i] \in {"running", "failed"} \/ (status'[i] = status[i] /\ count'[i] = count[i])
        /\ \A v \in Workers \ {w} : wstage'[v] = wstage[v]
        /\ \/ wstage'[w] = "gather" /\ status'[wjob[w]] = "running"
           \/ wstage'[w] = "fail"
    BY <1>2, <1>4 DEF Start, Catch, MarkStatus, Undefined, rowVars
  <2>2. Unmarked' /\ InHand' /\ OneSet'
    BY <2>1 DEF Unmarked, InHand, OneSet
  <2>3. DoneRunMatchesStores'
    BY <2>1 DEF DoneRunMatchesStores
  <2>4. QED  BY <1>3, <2>2, <2>3
<1>5. CASE Reuse(w)
  <2>1. captures[wjob[w]] = 1
    BY <1>2, <1>5 DEF Reuse, OneSet
  <2>2. QED  BY <1>2, <1>3, <1>5, <2>1 DEF Reuse, Unmarked, InHand, OneSet, DoneRunMatchesStores, rowVars
<1>6. CASE Fresh(w) \/ Tick(w) \/ Throw(w)
  <2>1. /\ UNCHANGED <<status, count, captures, analysis, hand, wjob>>
        /\ \A v \in Workers \ {w} : wstage'[v] = wstage[v]
        /\ \/ wstage'[w] = "clean" /\ wstage[w] = "gather"
           \/ wstage'[w] \in {"catch", "finish"}
    BY <1>6 DEF Fresh, Tick, Throw, rowVars
  <2>2. QED  BY <1>3, <2>1 DEF Unmarked, InHand, OneSet, DoneRunMatchesStores
<1>7. CASE Clean(w)
  <2>1. /\ UNCHANGED <<status, count, analysis, hand, wjob>> /\ status[wjob[w]] \notin {"completed", "partial"}
        /\ captures' = [captures EXCEPT ![wjob[w]] = 0] /\ wstage' = [wstage EXCEPT ![w] = "pull"]
        /\ wstage[w] = "clean"
    BY <1>7 DEF Clean, rowVars, Unmarked
  <2>2. QED  BY <1>2, <1>3, <2>1 DEF Unmarked, InHand, OneSet, DoneRunMatchesStores
<1>8. CASE Pull(w)
  <2>1. /\ UNCHANGED <<status, count, captures, analysis, wjob>>
        /\ \A v \in Workers \ {w} : wstage'[v] = wstage[v] /\ hand'[v] = hand[v]
        /\ wstage[w] = "pull" /\ wstage'[w] = "persist"
    BY <1>8 DEF Pull, rowVars
  <2>2. QED  BY <1>2, <1>3, <2>1 DEF Unmarked, InHand, OneSet, DoneRunMatchesStores
<1>9. CASE Persist(w)
  <2>1. /\ UNCHANGED <<status, count, analysis, hand, wjob>> /\ wstage[w] = "persist"
        /\ wstage' = [wstage EXCEPT ![w] = "analyze"]
        /\ captures' = IF hand[w] = "some" THEN [captures EXCEPT ![wjob[w]] = @ + 1] ELSE captures
    BY <1>9 DEF Persist, rowVars
  <2>2. captures[wjob[w]] = 0 /\ status[wjob[w]] \notin {"completed", "partial"}
    BY <2>1 DEF InHand, Unmarked
  <2>3. captures'[wjob[w]] = Sets(hand[w]) /\ \A i \in Ids \ {wjob[w]} : captures'[i] = captures[i]
    BY <1>2, <2>1, <2>2
  <2>4. QED  BY <1>2, <1>3, <2>1, <2>2, <2>3 DEF Unmarked, InHand, OneSet, DoneRunMatchesStores
<1>10. CASE Analyze(w)
  <2>1. /\ UNCHANGED <<status, count, captures, hand, wjob>> /\ wstage[w] = "analyze"
        /\ wstage' = [wstage EXCEPT ![w] = "markDone"]
        /\ analysis' = [analysis EXCEPT ![wjob[w]] = hand[w]]
        /\ status[wjob[w]] \notin {"completed", "partial"}
    BY <1>10 DEF Analyze, rowVars, Unmarked
  <2>2. QED  BY <1>2, <1>3, <2>1 DEF Unmarked, InHand, OneSet, DoneRunMatchesStores
<1>11. CASE MarkDone(w)
  <2>1. /\ UNCHANGED <<captures, analysis, hand, wjob>> /\ wstage[w] = "markDone"
        /\ wstage' = [wstage EXCEPT ![w] = "tick"]
        /\ \A i \in Ids \ {wjob[w]} : status'[i] = status[i] /\ count'[i] = count[i]
        /\ count'[wjob[w]] = hand[w]
    BY <1>2, <1>11 DEF MarkDone, MarkStatus, Undefined, Count
  <2>2. Unmarked' /\ InHand' /\ OneSet'
    BY <1>2, <2>1 DEF Unmarked, InHand, OneSet
  <2>3. DoneRunMatchesStores'
    BY <1>2, <2>1 DEF DoneRunMatchesStores, InHand
  <2>4. QED  BY <1>3, <2>2, <2>3
<1>12. QED
  BY <1>4, <1>5, <1>6, <1>7, <1>8, <1>9, <1>10, <1>11 DEF Process

LEMMA NextStores ==
  ASSUME TypeInv, OwnerInv, StoreInv, [Next]_vars, "lockLost" \notin Faults
  PROVE  StoreInv'
<1>1. RunTypes(SlotStage)
  BY TypeInvIsRunTypes
<1>2. CASE Create \/ Slots
  <2>1. RunStep /\ UNCHANGED <<captures, analysis>>
    BY <1>2 DEF Create, Slots, RunStep, storeVars
  <2>2. Sole'
    BY <1>1, <2>1, RunStepSole DEF StoreInv
  <2>3. \A i \in Ids : status'[i] \in {"queued", "failed"} \/ (status'[i] = status[i] /\ count'[i] = count[i])
    BY <1>1, <2>1, RunStepRows
  <2>4. \A w \in Workers : wstage'[w] \in {"idle", "start"} \/ (wstage'[w] = wstage[w] /\ wjob'[w] = wjob[w])
    BY <1>1, <2>1, RunStepSlots
  <2>5. \A w \in Workers : wstage[w] # "idle" => wjob[w] \in Ids
    BY <1>1 DEF RunTypes, RunLocals
  <2>6. \A w \in Workers : wstage'[w] # "idle" => hand'[w] = hand[w]
    BY <1>2, <1>1 DEF Create, Slots, SlotTurns, slotVars
  <2>7. Unmarked'
    BY <2>3, <2>4, <2>5 DEF StoreInv, Unmarked, Working
  <2>8. InHand' /\ OneSet'
    BY <2>1, <2>4, <2>6 DEF StoreInv, InHand, OneSet
  <2>9. DoneRunMatchesStores'
    BY <2>1, <2>3 DEF StoreInv, DoneRunMatchesStores
  <2>10. QED  BY <2>2, <2>7, <2>8, <2>9 DEF StoreInv
<1>3. CASE \E w \in Workers : Process(w) \/ Throw(w)
  BY <1>3, ProcessStores
<1>4. CASE UNCHANGED vars
  BY <1>4 DEF vars, runVars, queueVars, rowVars, workerVars, storeVars, slotVars, StoreInv, Sole, Unmarked, InHand,
     OneSet, DoneRunMatchesStores
<1>5. QED  BY <1>2, <1>3, <1>4 DEF Next

(* A done run has stored as many sets of captures as it says, one or none, *)
(* and the analysis of that set, whatever resets and deliveries came       *)
(* before - provided no slot goes on without its lock.                     *)
THEOREM DoneRunsMatchTheirStores ==
  ASSUME "lockLost" \notin Faults
  PROVE  Spec => []DoneRunMatchesStores
<1>1. Init => TypeInv /\ OwnerInv /\ StoreInv
  BY InitTypeInv, RunInitOwner DEF Init, RunInit, StoreInv, Sole, OneSet, Unmarked, InHand, DoneRunMatchesStores,
     Working, NoRow
<1>2. TypeInv /\ OwnerInv /\ StoreInv /\ [Next]_vars => TypeInv' /\ OwnerInv' /\ StoreInv'
  BY NextTypeInv, NextOwner, NextStores
<1>3. StoreInv => DoneRunMatchesStores
  BY DEF StoreInv
<1>4. QED  BY <1>1, <1>2, <1>3, PTL DEF Spec
=============================================================================
