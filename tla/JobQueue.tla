------------------------------ MODULE JobQueue ------------------------------
(***************************************************************************)
(* What BullMQ does with the jobs of one queue, as far as the processors   *)
(* and services of this repository depend on it: a job is known by its id, *)
(* adding an id the queue still knows does nothing, a job is moved only by *)
(* the slot that holds its lock, and an active job without a lock is given *)
(* out again up to a limit.  Each operator is one atomic script of BullMQ. *)
(***************************************************************************)
EXTENDS Naturals

CONSTANTS
  Ids,          \* job ids: the id of the row the job works on
  Workers,      \* job slots: the queue's concurrency times the number of instances
  NoWorker,     \* "no lock holder"
  JobAttempts,  \* JOB_ATTEMPTS
  MaxStalls     \* bound: how often a stalled job is given back

ASSUME QueueAssumption ==
  /\ NoWorker \notin Workers
  /\ JobAttempts \in Nat \ {0}
  /\ MaxStalls \in Nat

VARIABLES
  job,       \* where the queue keeps the job; absent: it does not know the id
  attempts,  \* attemptsMade
  stalls,    \* stalledCounter
  lock       \* the slot whose lock token is stored with the job

queueVars == <<job, attempts, stalls, lock>>

JobState == {"absent", "wait", "active", "completed", "failed"}

QueueTypeOK ==
  /\ job \in [Ids -> JobState]
  /\ attempts \in [Ids -> Nat]
  /\ stalls \in [Ids -> Nat]
  /\ lock \in [Ids -> Workers \cup {NoWorker}]

QueueInit ==
  /\ job = [i \in Ids |-> "absent"]
  /\ attempts = [i \in Ids |-> 0]
  /\ stalls = [i \in Ids |-> 0]
  /\ lock = [i \in Ids |-> NoWorker]

Runnable(i) == job[i] \in {"wait", "active"}

\* Queue.add with a jobId: a known id is left as it is and no error is raised.
AddJob(i) ==
  IF job[i] = "absent"
    THEN /\ job' = [job EXCEPT ![i] = "wait"]
         /\ attempts' = [attempts EXCEPT ![i] = 0]
         /\ stalls' = [stalls EXCEPT ![i] = 0]
         /\ UNCHANGED lock
    ELSE UNCHANGED queueVars

Locked(i) == lock[i] # NoWorker

\* Queue.remove and Job.remove take a job out of any state, but not a locked one.
RemoveJob(i) == /\ ~Locked(i)
                /\ job' = [job EXCEPT ![i] = "absent"]
                /\ UNCHANGED <<attempts, stalls, lock>>

RemoveRefused(i) == Locked(i) /\ UNCHANGED queueVars

\* A waiting job, or one whose backoff is over, goes to a free slot.
TakeJob(w, i) == /\ job[i] = "wait"
                 /\ job' = [job EXCEPT ![i] = "active"]
                 /\ lock' = [lock EXCEPT ![i] = w]
                 /\ UNCHANGED <<attempts, stalls>>

Holds(w, i) == lock[i] = w

Release(i, s) == /\ job' = [job EXCEPT ![i] = s]
                 /\ lock' = [lock EXCEPT ![i] = NoWorker]
                 /\ UNCHANGED stalls

\* The processor returned; without the lock the slot may not move the job.
CompleteJob(w, i) == IF Holds(w, i) THEN Release(i, "completed") /\ UNCHANGED attempts
                                    ELSE UNCHANGED queueVars

AttemptsLeft(i) == attempts[i] + 1 < JobAttempts

\* The processor threw: another attempt, or the end.
FailJob(w, i, final) ==
  /\ Holds(w, i)
  /\ attempts' = [attempts EXCEPT ![i] = @ + 1]
  /\ Release(i, IF final THEN "failed" ELSE "wait")

\* The lock of a slot that was blocked too long expires; so does a dead slot's.
LoseLock(i) == /\ Locked(i)
               /\ lock' = [lock EXCEPT ![i] = NoWorker]
               /\ UNCHANGED <<job, attempts, stalls>>

LoseLocksOf(w) == /\ lock' = [i \in Ids |-> IF lock[i] = w THEN NoWorker ELSE lock[i]]
                  /\ UNCHANGED <<job, attempts, stalls>>

Stalled(i) == job[i] = "active" /\ ~Locked(i)

MayRequeue(i) == stalls[i] < MaxStalls

RequeueStalled(i) == /\ Stalled(i)
                     /\ MayRequeue(i)
                     /\ job' = [job EXCEPT ![i] = "wait"]
                     /\ stalls' = [stalls EXCEPT ![i] = @ + 1]
                     /\ UNCHANGED <<attempts, lock>>

\* "job stalled more than allowable limit": failed without a call of process.
FailStalled(i) == /\ Stalled(i)
                  /\ stalls[i] >= MaxStalls
                  /\ job' = [job EXCEPT ![i] = "failed"]
                  /\ UNCHANGED <<attempts, stalls, lock>>
=============================================================================
