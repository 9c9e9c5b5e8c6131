------------------------------- MODULE RunJob -------------------------------
(***************************************************************************)
(* A run row and the job that works on it.  Topic clustering, purchase     *)
(* journey, custom classification and AI search each have a service that   *)
(* creates or resets the row of an idempotency key, then queues a job      *)
(* under the row's id; a slot of the queue runs the job.  This module is   *)
(* the part the four have in common, step by awaited call; the modules     *)
(* that instantiate it add the body of the processor.                      *)
(***************************************************************************)
EXTENDS JobQueue

CONSTANTS
  Clients,      \* HTTP requests in progress at the same time
  NoId,         \* "no run"
  Resettable,   \* statuses from which a new request restarts the run
  AtomicReset,  \* TRUE: the reset is an update conditional on the status
  Faults        \* which of RunFaults the environment may show

RunFaults ==
  { "queueFails",    \* a call of getJob, getState, remove or add is refused
    "addReplyLost",  \* queue.add takes effect but the caller sees an error
    "workerCrash",   \* a worker process dies in the middle of a job
    "lockLost",      \* a worker goes on with a job whose lock has expired
    "writeLost" }    \* a write the processor makes as a best effort is refused

ASSUME RunAssumption == NoId \notin Ids /\ AtomicReset \in BOOLEAN /\ Faults \subseteq RunFaults

VARIABLES
  status, count,  \* run rows: status, and the number of results they report
  stage, reqRun,  \* one HTTP request
  wstage, wjob,   \* one job slot
  wmade           \* attemptsMade of the job object the slot was given

rowVars    == <<status, count>>
reqVars    == <<stage, reqRun>>
workerVars == <<wstage, wjob, wmade>>
runVars    == <<queueVars, rowVars, reqVars, workerVars>>

NoRow     == "none"
RunStatus == {"queued", "running", "completed", "partial", "failed", "canceled"}
Terminal  == {"completed", "partial", "failed", "canceled"}
Count     == {"null", "zero", "some"}
Undefined == "undefined"        \* Prisma leaves such a column alone

EnqueueStage == {"getJob", "getState", "remove", "add", "markFailed"}
RequestStage == {"find", "insert", "reset"} \cup EnqueueStage

RunTypeOK ==
  /\ QueueTypeOK
  /\ status \in [Ids -> RunStatus \cup {NoRow}]
  /\ count \in [Ids -> Count]
  /\ stage \in [Clients -> {"idle"} \cup RequestStage]
  /\ reqRun \in [Clients -> Ids \cup {NoId}]
  /\ wjob \in [Workers -> Ids \cup {NoId}]
  /\ wmade \in [Workers -> Nat]

RunInit ==
  /\ QueueInit
  /\ status = [i \in Ids |-> NoRow]
  /\ count = [i \in Ids |-> "null"]
  /\ stage = [c \in Clients |-> "idle"]
  /\ reqRun = [c \in Clients |-> NoId]
  /\ wstage = [w \in Workers |-> "idle"]
  /\ wjob = [w \in Workers |-> NoId]
  /\ wmade = [w \in Workers |-> 0]

Exists(i) == status[i] # NoRow

MarkStatusOverwriting(i, s, n) ==
  /\ Exists(i)
  /\ status' = [status EXCEPT ![i] = s]
  /\ count' = [count EXCEPT ![i] = n]

MarkStatus(i, s, n) ==
  /\ Exists(i)
  /\ status' = [status EXCEPT ![i] = s]
  /\ count' = IF n = Undefined THEN count ELSE [count EXCEPT ![i] = n]

-----------------------------------------------------------------------------
(* A request: createRun, then enqueueReusingJobId.                         *)

Goto(c, s) == stage' = [stage EXCEPT ![c] = s] /\ UNCHANGED reqRun

Done(c) == /\ stage' = [stage EXCEPT ![c] = "idle"]
           /\ reqRun' = [reqRun EXCEPT ![c] = NoId]

\* The checks on the analysis have passed; the key of the request names the run.
Request(c, i) ==
  /\ stage[c] = "idle"
  /\ stage' = [stage EXCEPT ![c] = "find"]
  /\ reqRun' = [reqRun EXCEPT ![c] = i]
  /\ UNCHANGED <<queueVars, rowVars, workerVars>>

Find(c) ==
  /\ stage[c] = "find"
  /\ LET s == status[reqRun[c]] IN
       \/ s = NoRow /\ Goto(c, "insert")
       \/ s \in Resettable /\ Goto(c, "reset")
       \/ s \notin Resettable \cup {NoRow} /\ Done(c)
  /\ UNCHANGED <<queueVars, rowVars, workerVars>>

WriteQueued(i) == /\ status' = [status EXCEPT ![i] = "queued"]
                  /\ count' = [count EXCEPT ![i] = "null"]

\* A unique violation (P2002) answers with the other request's run.
Insert(c) ==
  /\ stage[c] = "insert"
  /\ IF Exists(reqRun[c])
       THEN UNCHANGED rowVars /\ Done(c)
       ELSE WriteQueued(reqRun[c]) /\ Goto(c, "getJob")
  /\ UNCHANGED <<queueVars, workerVars>>

\* A conditional update hits no row once another request has reset it.
MayReset(i) == AtomicReset => status[i] \in Resettable

Reset(c) ==
  /\ stage[c] = "reset"
  /\ IF Exists(reqRun[c]) /\ MayReset(reqRun[c])
       THEN WriteQueued(reqRun[c]) /\ Goto(c, "getJob")
       ELSE UNCHANGED rowVars /\ Done(c)
  /\ UNCHANGED <<queueVars, workerVars>>

GetJob(c) ==
  /\ stage[c] = "getJob"
  /\ Goto(c, IF job[reqRun[c]] = "absent" THEN "add" ELSE "getState")
  /\ UNCHANGED <<queueVars, rowVars, workerVars>>

AddedBlindly(i) == "add"

\* An active job cannot be replaced: 503.  Any other is removed first, since an
\* add under a known id would do nothing.
AfterState(i) == IF job[i] = "active" THEN "markFailed" ELSE "remove"

GetState(c) ==
  /\ stage[c] = "getState"
  /\ Goto(c, AfterState(reqRun[c]))
  /\ UNCHANGED <<queueVars, rowVars, workerVars>>

Remove(c) ==
  /\ stage[c] = "remove"
  /\ \/ RemoveJob(reqRun[c]) /\ Goto(c, "add")
     \/ RemoveRefused(reqRun[c]) /\ Goto(c, "markFailed")
  /\ UNCHANGED <<rowVars, workerVars>>

Add(c) ==
  /\ stage[c] = "add"
  /\ AddJob(reqRun[c])
  /\ \/ Done(c)
     \/ "addReplyLost" \in Faults /\ Goto(c, "markFailed")
  /\ UNCHANGED <<rowVars, workerVars>>

QueueCallFails(c) ==
  /\ "queueFails" \in Faults
  /\ stage[c] \in EnqueueStage \ {"markFailed"}
  /\ Goto(c, "markFailed")
  /\ UNCHANGED <<queueVars, rowVars, workerVars>>

\* The row is kept and closed, so that a later request can reset it; the update
\* of a row that is gone throws, and the request ends either way.
MarkFailed(c) ==
  /\ stage[c] = "markFailed"
  /\ \/ MarkStatus(reqRun[c], "failed", Undefined)
     \/ ~Exists(reqRun[c]) /\ UNCHANGED rowVars
  /\ Done(c)
  /\ UNCHANGED <<queueVars, workerVars>>

RequestWork(c) ==
  \/ Find(c) \/ Insert(c) \/ Reset(c) \/ GetJob(c) \/ GetState(c) \/ Remove(c) \/ Add(c)
  \/ MarkFailed(c)

RequestStep(c) == (\E i \in Ids : Request(c, i)) \/ RequestWork(c) \/ QueueCallFails(c)

-----------------------------------------------------------------------------
(* A job slot, around the body of the processor.                           *)

WGoto(w, s) == wstage' = [wstage EXCEPT ![w] = s] /\ UNCHANGED <<wjob, wmade>>

WDone(w) == /\ wstage' = [wstage EXCEPT ![w] = "idle"]
            /\ wjob' = [wjob EXCEPT ![w] = NoId]
            /\ wmade' = [wmade EXCEPT ![w] = 0]

Take(w, i) ==
  /\ wstage[w] = "idle"
  /\ TakeJob(w, i)
  /\ wstage' = [wstage EXCEPT ![w] = "start"]
  /\ wjob' = [wjob EXCEPT ![w] = i]
  /\ wmade' = [wmade EXCEPT ![w] = attempts[i]]
  /\ UNCHANGED <<rowVars, reqVars>>

\* process returned.
Finish(w) ==
  /\ wstage[w] = "finish"
  /\ CompleteJob(w, wjob[w])
  /\ WDone(w)
  /\ UNCHANGED <<rowVars, reqVars>>

\* process threw.
FailAttempt(w) ==
  /\ wstage[w] = "fail"
  /\ \/ FailJob(w, wjob[w], ~AttemptsLeft(wjob[w]))
     \/ ~Holds(w, wjob[w]) /\ UNCHANGED queueVars
  /\ WDone(w)
  /\ UNCHANGED <<rowVars, reqVars>>

WorkerCrash(w) ==
  /\ "workerCrash" \in Faults
  /\ wstage[w] # "idle"
  /\ LoseLocksOf(w)
  /\ WDone(w)
  /\ UNCHANGED <<rowVars, reqVars>>

LockLost(w) ==
  /\ "lockLost" \in Faults
  /\ wstage[w] # "idle"
  /\ Holds(w, wjob[w]) /\ LoseLock(wjob[w])
  /\ UNCHANGED <<rowVars, reqVars, workerVars>>

StallRequeue(i) == RequeueStalled(i) /\ UNCHANGED <<rowVars, reqVars, workerVars>>

\* None of the four processors listens to the queue's "failed" event.
StallFail(i) == FailStalled(i) /\ UNCHANGED <<rowVars, reqVars, workerVars>>

SlotWork(w) == Finish(w) \/ FailAttempt(w)
SlotFault(w) == WorkerCrash(w) \/ LockLost(w)
QueueWork(i) == (\E w \in Workers : Take(w, i)) \/ StallRequeue(i) \/ StallFail(i)

AnyRequest == \E c \in Clients : RequestStep(c)
AnySlot    == \/ \E w \in Workers : SlotWork(w) \/ SlotFault(w)
              \/ \E i \in Ids : QueueWork(i)
RunStep    == AnyRequest \/ AnySlot

-----------------------------------------------------------------------------
(* A queued row is never left behind: the queue will run its job or has    *)
(* given it up, or a request is still on its way to queue it or to close   *)
(* the row.  BullMQ's silent dedup of a known job id is what makes this    *)
(* hard (enqueueReusingJobId).                                             *)
QueuedHasOwner ==
  \A i \in Ids : status[i] = "queued" =>
    \/ Runnable(i) \/ job[i] = "failed"
    \/ \E c \in Clients : reqRun[c] = i /\ stage[c] \in EnqueueStage
=============================================================================
