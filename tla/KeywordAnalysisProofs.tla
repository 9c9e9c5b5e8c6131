------------------------ MODULE KeywordAnalysisProofs ------------------------
(***************************************************************************)
(* Theorems about KeywordAnalysis, for any number of analyses, requests,   *)
(* workers and keys, any time-to-live and any combination of faults.       *)
(***************************************************************************)
EXTENDS KeywordAnalysis, TLAPS

\* Which of a request's locals are set, by stage.
Locals ==
  /\ \A c \in Clients :
       /\ stage[c] \in CreateStage => reqHash[c] \in Hash /\ reqId[c] \in minted
       /\ stage[c] \in {"recache", "rotate", "rewin"} => reqOld[c] \in Ids
       /\ stage[c] \in CancelStage => reqId[c] \in Ids
  /\ \A w \in Workers : wstage[w] # "idle" => wjob[w] \in Ids

TypeInv == TypeOK /\ Locals

LEMMA InitTypeInv == Init => TypeInv
  BY ConstantsAssumption, QueueAssumption DEF Init, QueueInit, TypeInv, TypeOK, QueueTypeOK, Locals, JobStatus, Terminal, InFlightStatus, DoneStatus,
     NoRow, Phase, JobState, CreateStage, CancelStage, WorkStage

LEMMA CreateTypeInv ==
  ASSUME TypeInv, NEW c \in Clients, CreateStep(c)
  PROVE  TypeInv'
<1> USE ConstantsAssumption, QueueAssumption DEF TypeInv, TypeOK, QueueTypeOK, Locals, JobStatus, Terminal, InFlightStatus, DoneStatus,
     NoRow, Phase, JobState, CreateStage, CancelStage, WorkStage
<1>1. CASE \E h \in Hash : CreateHit(c, h)
  BY <1>1 DEF CreateHit, vars, rowVars, cacheVars, queueVars, reqVars, workerVars
<1>2. CASE \E h \in Hash, i \in Ids : CreateMiss(c, h, i)
  BY <1>2 DEF CreateMiss, rowVars, cacheVars, queueVars, workerVars
<1>3. CASE Insert(c)
  <2>1. CASE InsertRow(c)
    BY <1>3, <2>1 DEF Insert, InsertRow, Goto, cacheVars, queueVars, workerVars
  <2>2. CASE UniqueViolation(c, "lookup")
    BY <1>3, <2>2 DEF Insert, UniqueViolation, Goto, rowVars, cacheVars, queueVars, workerVars
  <2>3. QED  BY <1>3, <2>1, <2>2 DEF Insert
<1>4. CASE Lookup(c)
  BY <1>4 DEF Lookup, Done, GotoWithOld, Holders, rowVars, cacheVars, queueVars, workerVars
<1>5. CASE Recache(c)
  BY <1>5 DEF Recache, Done, SetCache, ExpiryOfWindow, rowVars, cacheVars, queueVars, workerVars
<1>6. CASE Rotate(c)
  BY <1>6 DEF Rotate, Done, Goto, rowVars, cacheVars, queueVars, workerVars
<1>7. CASE Reinsert(c)
  <2>1. CASE InsertRow(c)
    BY <1>7, <2>1 DEF Reinsert, InsertRow, Goto, cacheVars, queueVars, workerVars
  <2>2. CASE UniqueViolation(c, "winner")
    BY <1>7, <2>2 DEF Reinsert, UniqueViolation, Goto, rowVars, cacheVars, queueVars, workerVars
  <2>3. QED  BY <1>7, <2>1, <2>2 DEF Reinsert
<1>8. CASE Winner(c)
  BY <1>8 DEF Winner, Done, GotoWithOld, Holders, rowVars, cacheVars, queueVars, workerVars
<1>9. CASE CacheWinner(c)
  BY <1>9 DEF CacheWinner, Done, SetCache, rowVars, cacheVars, queueVars, workerVars
<1>10. CASE Enqueue(c)
  BY <1>10 DEF Enqueue, AddJob, Goto, rowVars, cacheVars, queueVars, workerVars
<1>11. CASE Compensate(c)
  BY <1>11 DEF Compensate, DeleteRow, Done, rowVars, cacheVars, queueVars, workerVars
<1>12. CASE Publish(c)
  BY <1>12 DEF Publish, Done, SetCache, rowVars, cacheVars, queueVars, workerVars
<1>13. QED
  BY <1>1, <1>2, <1>3, <1>4, <1>5, <1>6, <1>7, <1>8, <1>9, <1>10, <1>11, <1>12
     DEF CreateStep

LEMMA CancelTypeInv ==
  ASSUME TypeInv, NEW c \in Clients, CancelStep(c) \/ ApiCrash(c)
  PROVE  TypeInv'
<1> USE ConstantsAssumption, QueueAssumption DEF TypeInv, TypeOK, QueueTypeOK, Locals, JobStatus, Terminal, InFlightStatus, DoneStatus,
     NoRow, Phase, JobState, CreateStage, CancelStage, WorkStage
<1>1. CASE \E i \in Ids : CancelRead(c, i)
  BY <1>1 DEF CancelRead, rowVars, cacheVars, queueVars, workerVars, reqVars
<1>2. CASE CancelWrite(c)
  BY <1>2 DEF CancelWrite, Done, Goto, cacheVars, queueVars, workerVars
<1>3. CASE CancelRemove(c)
  BY <1>3 DEF CancelRemove, RemoveJob, RemoveRefused, queueVars, Done, rowVars, cacheVars, workerVars
<1>4. CASE ApiCrash(c)
  BY <1>4 DEF ApiCrash, Done, rowVars, cacheVars, queueVars, workerVars
<1>5. QED  BY <1>1, <1>2, <1>3, <1>4 DEF CancelStep

LEMMA RunTypeInv ==
  ASSUME TypeInv, NEW w \in Workers, RunStep(w)
  PROVE  TypeInv'
<1> USE ConstantsAssumption, QueueAssumption DEF TypeInv, TypeOK, QueueTypeOK, Locals, JobStatus, Terminal, InFlightStatus, DoneStatus,
     NoRow, Phase, JobState, CreateStage, CancelStage, WorkStage
<1>1. CASE Start(w)
  BY <1>1 DEF Start, MarkStatus, RunningStatus, WriteLost, WGoto, rowVars, cacheVars, queueVars, reqVars
<1>2. CASE Fetch(w)
  BY <1>2 DEF Fetch, MirrorProgress, WriteLost, rowVars, cacheVars, queueVars, reqVars
<1>3. CASE Metrics(w)
  BY <1>3 DEF Metrics, MirrorProgress, WriteLost, WGoto, rowVars, cacheVars, queueVars, reqVars
<1>4. CASE SaveRead(w)
  BY <1>4 DEF SaveRead, AfterSave, WGoto, rowVars, cacheVars, queueVars, reqVars
<1>5. CASE SaveCommit(w)
  <2>1. wstage' \in [Workers -> {"idle", "onFailed"} \cup WorkStage] /\ UNCHANGED <<wjob, wpartial>>
    BY <1>5 DEF SaveCommit, AfterSave, WGoto
  <2>2. /\ wstage[w] # "idle"
        /\ \A v \in Workers : v # w => wstage'[v] = wstage[v]
    BY <1>5 DEF SaveCommit, AfterSave, WGoto
  <2>3. CASE CommitResult(wjob[w], wpartial[w])
    BY <1>5, <2>1, <2>2, <2>3 DEF SaveCommit, CommitResult, cacheVars, queueVars, reqVars
  <2>4. CASE RolledBack(wjob[w])
    BY <1>5, <2>1, <2>2, <2>4 DEF SaveCommit, RolledBack, rowVars, cacheVars, queueVars, reqVars
  <2>5. QED  BY <1>5, <2>3, <2>4 DEF SaveCommit
<1>6. CASE Report(w)
  BY <1>6 DEF Report, MirrorProgress, WriteLost, WGoto, rowVars, cacheVars, queueVars, reqVars
<1>7. CASE Finish(w)
  BY <1>7 DEF Finish, CompleteJob, Release, WDone, rowVars, cacheVars, queueVars, reqVars
<1>8. CASE FailAttempt(w)
  <2>1. CASE ~Holds(w, wjob[w])
    <3>1. UNCHANGED <<job, attempts, stalls, lock>> /\ WDone(w)
      BY <1>8, <2>1 DEF FailAttempt, FailJob, queueVars
    <3>2. QED  BY <1>8, <3>1 DEF FailAttempt, WDone, rowVars, cacheVars, reqVars
  <2>2. CASE Holds(w, wjob[w])
    <3>1. /\ job' \in [Ids -> JobState]
          /\ lock' \in [Ids -> Workers \cup {NoWorker}]
          /\ attempts' \in [Ids -> Nat]
          /\ UNCHANGED stalls
      BY <1>8, <2>2 DEF FailAttempt, FailJob, Release
    <3>2. CASE WGoto(w, "onFailed")
      BY <1>8, <3>1, <3>2 DEF FailAttempt, WGoto, rowVars, cacheVars, reqVars
    <3>3. CASE WDone(w)
      BY <1>8, <3>1, <3>3 DEF FailAttempt, WDone, rowVars, cacheVars, reqVars
    <3>4. QED  BY <1>8, <2>2, <3>2, <3>3 DEF FailAttempt
  <2>3. QED  BY <2>1, <2>2
<1>9. CASE OnFailed(w)
  BY <1>9 DEF OnFailed, MarkStatus, WriteLost, WDone, rowVars, cacheVars, queueVars, reqVars
<1>10. QED
  BY <1>1, <1>2, <1>3, <1>4, <1>5, <1>6, <1>7, <1>8, <1>9 DEF RunStep

LEMMA SlotTypeInv ==
  ASSUME TypeInv, NEW w \in Workers, Throw(w) \/ WorkerCrash(w) \/ LockLost(w)
  PROVE  TypeInv'
<1> USE ConstantsAssumption, QueueAssumption DEF TypeInv, TypeOK, QueueTypeOK, Locals, JobStatus, Terminal, InFlightStatus, DoneStatus,
     NoRow, Phase, JobState, CreateStage, CancelStage, WorkStage
<1>1. CASE Throw(w)
  BY <1>1 DEF Throw, WGoto, rowVars, cacheVars, queueVars, reqVars
<1>2. CASE WorkerCrash(w)
  BY <1>2 DEF WorkerCrash, LoseLocksOf, WDone, rowVars, cacheVars, reqVars
<1>3. CASE LockLost(w)
  BY <1>3 DEF LockLost, LoseLock, rowVars, cacheVars, reqVars, workerVars
<1>4. QED  BY <1>1, <1>2, <1>3

LEMMA QueueTypeInv ==
  ASSUME TypeInv, NEW i \in Ids,
         (\E w \in Workers : Take(w, i) \/ StallFail(w, i)) \/ StallRequeue(i)
  PROVE  TypeInv'
<1> USE ConstantsAssumption, QueueAssumption DEF TypeInv, TypeOK, QueueTypeOK, Locals, JobStatus, Terminal, InFlightStatus, DoneStatus,
     NoRow, Phase, JobState, CreateStage, CancelStage, WorkStage
<1>1. ASSUME NEW w \in Workers, Take(w, i) PROVE TypeInv'
  BY <1>1 DEF Take, TakeJob, rowVars, cacheVars, reqVars
<1>2. ASSUME NEW w \in Workers, StallFail(w, i) PROVE TypeInv'
  BY <1>2 DEF StallFail, FailStalled, rowVars, cacheVars, reqVars
<1>3. CASE StallRequeue(i)
  BY <1>3 DEF StallRequeue, RequeueStalled, rowVars, cacheVars, reqVars, workerVars
<1>4. QED  BY <1>1, <1>2, <1>3

LEMMA TickTypeInv == TypeInv /\ Tick => TypeInv'
  BY ConstantsAssumption DEF Tick, TypeInv, TypeOK, QueueTypeOK, Locals, rowVars, queueVars, reqVars, workerVars

LEMMA NextTypeInv == TypeInv /\ [Next]_vars => TypeInv'
<1> SUFFICES ASSUME TypeInv, [Next]_vars PROVE TypeInv'
  OBVIOUS
<1>1. ASSUME NEW c \in Clients, CreateStep(c) \/ CancelStep(c) \/ ApiCrash(c)
      PROVE  TypeInv'
  BY <1>1, CreateTypeInv, CancelTypeInv
<1>2. ASSUME NEW w \in Workers, RunStep(w) \/ Throw(w) \/ WorkerCrash(w) \/ LockLost(w)
      PROVE  TypeInv'
  BY <1>2, RunTypeInv, SlotTypeInv
<1>3. ASSUME NEW i \in Ids,
             (\E w \in Workers : Take(w, i) \/ StallFail(w, i)) \/ StallRequeue(i)
      PROVE  TypeInv'
  BY <1>3, QueueTypeInv
<1>4. CASE Tick
  BY <1>4, TickTypeInv
<1>5. CASE UNCHANGED vars
  BY <1>5 DEF vars, TypeInv, TypeOK, QueueTypeOK, Locals, rowVars, cacheVars, queueVars, reqVars, workerVars
<1>6. QED
  BY <1>1, <1>2, <1>3, <1>4, <1>5 DEF Next

(* Every variable keeps its type, and a request or a worker that is under  *)
(* way has the locals its next step reads.                                 *)
THEOREM Typing == Spec => []TypeOK
<1>1. TypeInv => TypeOK
  BY DEF TypeInv
<1>2. QED
  BY <1>1, InitTypeInv, NextTypeInv, PTL DEF Spec

-----------------------------------------------------------------------------
(* The inductive invariant.  A request that has drawn an id and not yet    *)
(* used it keeps a fresh one to itself; the unique key of a row in flight  *)
(* is the key of its input; a rotation aims at a row that is over.         *)
Minting == {"insert", "lookup", "rotate", "reinsert"}

FreshIds ==
  /\ \A c \in Clients : stage[c] \in Minting =>
       status[reqId[c]] = NoRow /\ snaps[reqId[c]] = 0
  /\ \A c, d \in Clients :
       stage[c] \in Minting /\ stage[d] \in Minting /\ reqId[c] = reqId[d] => c = d
  /\ \A i \in Ids : i \notin minted => ~Exists(i) /\ snaps[i] = 0

UniqueKeys ==
  /\ \A i \in Ids : key[i] # Rotated => Exists(i) /\ key[i] = input[i]
  /\ \A i, j \in Ids : key[i] # Rotated /\ key[i] = key[j] => i = j
  /\ \A i \in Ids : InFlight(i) => key[i] # Rotated

RotationAimsAtTerminal ==
  \A c \in Clients : stage[c] = "rotate" =>
    /\ ~InFlight(reqOld[c])
    /\ reqOld[c] \in minted
    /\ \A d \in Clients : stage[d] \in Minting => reqId[d] # reqOld[c]

Snapshots ==
  /\ SnapshotMatchesStatus
  /\ \A i \in Ids : ~Exists(i) => ~attached[i]

IInv == TypeInv /\ FreshIds /\ UniqueKeys /\ RotationAimsAtTerminal /\ Snapshots

LEMMA MintingIds ==
  ASSUME TypeInv, NEW c \in Clients, stage[c] \in Minting
  PROVE  reqId[c] \in Ids /\ reqId[c] \in minted
  BY DEF TypeInv, TypeOK, Locals, Minting, CreateStage

LEMMA InitIInv == Init => IInv
<1>1. Init => FreshIds /\ UniqueKeys /\ RotationAimsAtTerminal /\ Snapshots
  BY DEF Init, FreshIds, UniqueKeys, RotationAimsAtTerminal, Snapshots,
     SnapshotMatchesStatus, Exists, InFlight, InFlightStatus, DoneStatus, NoRow, Minting
<1>2. QED  BY <1>1, InitTypeInv DEF IInv

\* No request starts to hold a fresh id or to aim at a row.
QuietRequests ==
  \A c \in Clients :
    /\ stage'[c] \in Minting => stage[c] \in Minting /\ reqId'[c] = reqId[c]
    /\ stage'[c] = "rotate" => stage[c] = "rotate" /\ reqOld'[c] = reqOld[c]

LEMMA QuietStep ==
  ASSUME IInv, TypeInv', QuietRequests,
         UNCHANGED <<status, input, key, attached, snaps, minted>>
  PROVE  IInv'
<1> USE DEF QuietRequests, Exists, InFlight
<1>1. FreshIds'
  BY DEF IInv, FreshIds
<1>2. UniqueKeys'
  BY DEF IInv, UniqueKeys
<1>3. RotationAimsAtTerminal'
  BY DEF IInv, RotationAimsAtTerminal, Minting
<1>4. Snapshots'
  BY DEF IInv, Snapshots, SnapshotMatchesStatus
<1>5. QED  BY <1>1, <1>2, <1>3, <1>4 DEF IInv

\* A row in flight moves to another status, with a snapshot exactly if it is done.
LEMMA MoveStep ==
  ASSUME IInv, TypeInv', QuietRequests, NEW i \in Ids, InFlight(i), NEW s \in JobStatus,
         status' = [status EXCEPT ![i] = s],
         UNCHANGED <<input, key, minted>>,
         \/ /\ s \in DoneStatus
            /\ attached' = [attached EXCEPT ![i] = TRUE]
            /\ snaps' = [snaps EXCEPT ![i] = @ + 1]
         \/ s \notin DoneStatus /\ UNCHANGED <<attached, snaps>>
  PROVE  IInv'
<1> USE DEF QuietRequests, Exists, InFlight
<1>1. /\ TypeOK /\ status[i] # NoRow /\ s # NoRow
      /\ status[i] \notin DoneStatus
  BY DEF IInv, TypeInv, InFlightStatus, NoRow, JobStatus, Terminal, DoneStatus
<1>2. FreshIds'
  <2>1. ASSUME NEW c \in Clients, stage'[c] \in Minting
        PROVE  status'[reqId'[c]] = NoRow /\ snaps'[reqId'[c]] = 0
    <3>1. stage[c] \in Minting /\ reqId'[c] = reqId[c] /\ status[reqId[c]] = NoRow
          /\ snaps[reqId[c]] = 0
      BY <2>1 DEF IInv, FreshIds
    <3>2. reqId[c] \in Ids /\ reqId[c] # i
      BY <1>1, <3>1, MintingIds DEF IInv, TypeInv
    <3>3. QED  BY <1>1, <3>1, <3>2 DEF TypeOK
  <2>2. QED  BY <1>1, <2>1 DEF IInv, FreshIds, TypeOK
<1>3. UniqueKeys'
  BY <1>1 DEF IInv, UniqueKeys, TypeOK
<1>4. RotationAimsAtTerminal'
  BY <1>1 DEF IInv, RotationAimsAtTerminal, Minting, TypeOK, TypeInv
<1>5. Snapshots'
  BY <1>1 DEF IInv, Snapshots, SnapshotMatchesStatus, TypeOK
<1>6. QED  BY <1>2, <1>3, <1>4, <1>5 DEF IInv

LEMMA InsertRowStep ==
  ASSUME IInv, TypeInv', NEW c \in Clients, stage[c] \in {"insert", "reinsert"},
         InsertRow(c), UNCHANGED minted
  PROVE  IInv'
<1> DEFINE i == reqId[c]
<1> USE DEF Exists, InFlight
<1>1. /\ i \in Ids /\ i \in minted /\ status[i] = NoRow /\ snaps[i] = 0 /\ ~attached[i]
      /\ TypeOK
      /\ reqHash[c] \in Hash /\ Rotated \notin Hash /\ stage[c] \in Minting
  BY ConstantsAssumption
     DEF IInv, TypeInv, TypeOK, Locals, FreshIds, Snapshots, Minting, CreateStage
<1>2. /\ status' = [status EXCEPT ![i] = "queued"]
      /\ input' = [input EXCEPT ![i] = reqHash[c]]
      /\ key' = [key EXCEPT ![i] = reqHash[c]]
      /\ stage' = [stage EXCEPT ![c] = "enqueue"]
      /\ UNCHANGED <<attached, snaps, reqId, reqOld, minted>>
      /\ \A j \in Ids : key[j] # reqHash[c]
  BY DEF InsertRow, Goto, Holders
<1>3. "queued" \in InFlightStatus /\ "queued" \notin DoneStatus /\ "queued" # NoRow
      /\ "enqueue" \notin Minting
  BY DEF InFlightStatus, DoneStatus, NoRow, Minting
<1>4. FreshIds'
  BY <1>1, <1>2, <1>3 DEF IInv, FreshIds, TypeOK
<1>5. UniqueKeys'
  BY <1>1, <1>2, <1>3 DEF IInv, UniqueKeys, TypeOK
<1>6. RotationAimsAtTerminal'
  BY <1>1, <1>2, <1>3 DEF IInv, RotationAimsAtTerminal, TypeOK
<1>7. Snapshots'
  BY <1>1, <1>2, <1>3 DEF IInv, Snapshots, SnapshotMatchesStatus, TypeOK
<1>8. QED  BY <1>4, <1>5, <1>6, <1>7 DEF IInv

LEMMA CreateMissStep ==
  ASSUME IInv, TypeInv', NEW c \in Clients, NEW h \in Hash, NEW i \in Ids, CreateMiss(c, h, i)
  PROVE  IInv'
<1> USE DEF Exists, InFlight
<1>1. /\ TypeOK /\ i \notin minted /\ status[i] = NoRow
      /\ minted' = minted \cup {i}
      /\ stage' = [stage EXCEPT ![c] = "insert"]
      /\ reqId' = [reqId EXCEPT ![c] = i]
      /\ UNCHANGED <<status, input, key, attached, snaps, reqOld>>
  BY DEF IInv, TypeInv, FreshIds, CreateMiss, rowVars
<1>2. FreshIds'
  <2>1. snaps[i] = 0
    BY <1>1 DEF IInv, FreshIds
  <2>2. \A d \in Clients : d # c /\ stage'[d] \in Minting =>
          stage[d] \in Minting /\ reqId'[d] = reqId[d] /\ reqId[d] # i
    BY <1>1, MintingIds DEF IInv, TypeOK
  <2>3. QED  BY <1>1, <2>1, <2>2 DEF IInv, FreshIds, TypeOK
<1>3. UniqueKeys'
  BY <1>1 DEF IInv, UniqueKeys
<1>4. RotationAimsAtTerminal'
  BY <1>1 DEF IInv, RotationAimsAtTerminal, TypeOK, Minting
<1>5. Snapshots'
  BY <1>1 DEF IInv, Snapshots, SnapshotMatchesStatus
<1>6. QED  BY <1>2, <1>3, <1>4, <1>5 DEF IInv

LEMMA LookupStep ==
  ASSUME IInv, TypeInv', NEW c \in Clients, Lookup(c)
  PROVE  IInv'
<1>1. TypeOK /\ UNCHANGED <<status, input, key, attached, snaps, minted>> /\ stage[c] = "lookup"
  BY DEF IInv, TypeInv, Lookup, rowVars
<1>2. CASE stage'[c] # "rotate"
  BY <1>1, <1>2, QuietStep DEF Lookup, Done, GotoWithOld, QuietRequests, Minting, TypeOK
<1>3. CASE stage'[c] = "rotate"
  <2>1. PICK i \in Holders(reqHash[c]) : ~Reusable(i) /\ GotoWithOld(c, "rotate", i)
    BY <1>1, <1>3 DEF Lookup, Done, GotoWithOld, TypeOK
  <2>2. /\ i \in Ids /\ ~InFlight(i) /\ i \in minted /\ Exists(i)
        /\ reqOld'[c] = i /\ UNCHANGED <<reqId, reqHash>>
        /\ \A d \in Clients : d # c => stage'[d] = stage[d] /\ reqOld'[d] = reqOld[d]
    <3>1. i \in Ids /\ key[i] # Rotated
      BY <1>1, <2>1, ConstantsAssumption DEF Holders, IInv, TypeInv, Locals, CreateStage
    <3>2. Exists(i) /\ i \in minted
      BY <3>1 DEF IInv, UniqueKeys, FreshIds
    <3>3. QED
      BY <1>1, <2>1, <3>1, <3>2 DEF Reusable, GotoWithOld, TypeOK
  <2>3. \A d \in Clients : stage'[d] \in Minting => stage[d] \in Minting
    BY <1>1, <1>3, <2>2 DEF Minting
  <2>4. FreshIds'
    BY <1>1, <2>2, <2>3 DEF IInv, FreshIds, Exists
  <2>5. UniqueKeys'
    BY <1>1 DEF IInv, UniqueKeys, Exists, InFlight
  <2>6. RotationAimsAtTerminal'
    BY <1>1, <2>2, <2>3 DEF IInv, RotationAimsAtTerminal, FreshIds, Exists, InFlight
  <2>7. Snapshots'
    BY <1>1 DEF IInv, Snapshots, SnapshotMatchesStatus, Exists
  <2>8. QED  BY <2>4, <2>5, <2>6, <2>7 DEF IInv
<1>4. QED  BY <1>2, <1>3

LEMMA RotateStep ==
  ASSUME IInv, TypeInv', NEW c \in Clients, Rotate(c)
  PROVE  IInv'
<1>1. /\ TypeOK /\ UNCHANGED <<status, input, attached, snaps, minted>>
      /\ stage[c] = "rotate" /\ stage'[c] \in {"reinsert", "idle"}
  BY DEF IInv, TypeInv, TypeOK, Rotate, Goto, Done
<1>2. CASE Exists(reqOld[c]) /\ key' = [key EXCEPT ![reqOld[c]] = Rotated] /\ Goto(c, "reinsert")
  <2>1. QuietRequests /\ UNCHANGED <<reqId, reqOld>>
    BY <1>1, <1>2 DEF QuietRequests, Goto, Minting, TypeOK
  <2>2. FreshIds'
    BY <1>1, <2>1 DEF IInv, FreshIds, QuietRequests, Exists
  <2>3. ~InFlight(reqOld[c])
    BY <1>1 DEF IInv, RotationAimsAtTerminal
  <2>4. UniqueKeys'
    BY <1>1, <1>2, <2>3 DEF IInv, UniqueKeys, Exists, InFlight, TypeOK
  <2>5. RotationAimsAtTerminal'
    BY <1>1, <2>1 DEF IInv, RotationAimsAtTerminal, QuietRequests, InFlight
  <2>6. Snapshots'
    BY <1>1 DEF IInv, Snapshots, SnapshotMatchesStatus, Exists
  <2>7. QED  BY <2>2, <2>4, <2>5, <2>6 DEF IInv
<1>3. CASE Done(c) /\ UNCHANGED key
  BY <1>1, <1>3, QuietStep DEF Done, QuietRequests, Minting, TypeOK
<1>4. QED  BY <1>2, <1>3 DEF Rotate

LEMMA CompensateStep ==
  ASSUME IInv, TypeInv', NEW c \in Clients, Compensate(c)
  PROVE  IInv'
<1> DEFINE i == reqId[c]
<1>1. /\ TypeOK /\ i \in Ids /\ QuietRequests /\ UNCHANGED minted
  BY DEF IInv, TypeInv, TypeOK, Locals, Compensate, Done, QuietRequests, Minting, CreateStage
<1>2. CASE UNCHANGED rowVars
  BY <1>1, <1>2, QuietStep DEF rowVars
<1>3. CASE DeleteRow(i)
  <2>1. /\ status' = [status EXCEPT ![i] = NoRow]
        /\ key' = [key EXCEPT ![i] = Rotated]
        /\ attached' = [attached EXCEPT ![i] = FALSE]
        /\ UNCHANGED <<input, snaps>>
    BY <1>3 DEF DeleteRow
  <2>2. NoRow \notin InFlightStatus
    BY DEF NoRow, InFlightStatus
  <2>3. FreshIds'
    <3>1. ASSUME NEW d \in Clients, stage'[d] \in Minting
          PROVE  status'[reqId'[d]] = NoRow /\ snaps'[reqId'[d]] = 0
      BY <1>1, <2>1, <3>1, MintingIds DEF IInv, FreshIds, QuietRequests, TypeOK
    <3>2. QED
      BY <1>1, <2>1, <3>1 DEF IInv, FreshIds, QuietRequests, TypeOK, Exists
  <2>4. UniqueKeys'
    BY <1>1, <2>1, <2>2 DEF IInv, UniqueKeys, TypeOK, Exists, InFlight
  <2>5. RotationAimsAtTerminal'
    BY <1>1, <2>1, <2>2 DEF IInv, RotationAimsAtTerminal, QuietRequests, TypeOK, InFlight, TypeInv, Minting
  <2>6. Snapshots'
    BY <1>1, <2>1 DEF IInv, Snapshots, SnapshotMatchesStatus, TypeOK, Exists
  <2>7. QED  BY <2>3, <2>4, <2>5, <2>6 DEF IInv
<1>4. QED  BY <1>2, <1>3 DEF Compensate

LEMMA MarkStatusStep ==
  ASSUME IInv, TypeInv', QuietRequests, UNCHANGED minted, NEW i \in Ids,
         NEW s \in JobStatus \ DoneStatus, MarkStatus(i, s) \/ WriteLost
  PROVE  IInv'
<1>1. CASE MarkStatus(i, s) /\ InFlight(i)
  BY <1>1, MoveStep DEF MarkStatus
<1>2. CASE (MarkStatus(i, s) /\ ~InFlight(i)) \/ WriteLost
  BY <1>2, QuietStep DEF MarkStatus, WriteLost, rowVars
<1>3. QED  BY <1>1, <1>2

LEMMA CreateIInv ==
  ASSUME IInv, TypeInv', NEW c \in Clients, CreateStep(c)
  PROVE  IInv'
<1> USE DEF QuietRequests, Minting
<1>0. TypeOK
  BY DEF IInv, TypeInv
<1>1. CASE \E h \in Hash : CreateHit(c, h)
  BY <1>0, <1>1, QuietStep DEF CreateHit, vars, rowVars, reqVars
<1>2. CASE \E h \in Hash, i \in Ids : CreateMiss(c, h, i)
  BY <1>2, CreateMissStep
<1>3. CASE Insert(c)
  <2>1. CASE InsertRow(c)
    BY <1>3, <2>1, InsertRowStep DEF Insert
  <2>2. CASE UniqueViolation(c, "lookup")
    BY <1>0, <1>3, <2>2, QuietStep DEF Insert, UniqueViolation, Goto, rowVars, TypeOK
  <2>3. QED  BY <1>3, <2>1, <2>2 DEF Insert
<1>4. CASE Lookup(c)
  BY <1>4, LookupStep
<1>5. CASE Recache(c)
  BY <1>0, <1>5, QuietStep DEF Recache, Done, rowVars, TypeOK
<1>6. CASE Rotate(c)
  BY <1>6, RotateStep
<1>7. CASE Reinsert(c)
  <2>1. CASE InsertRow(c)
    BY <1>7, <2>1, InsertRowStep DEF Reinsert
  <2>2. CASE UniqueViolation(c, "winner")
    BY <1>0, <1>7, <2>2, QuietStep DEF Reinsert, UniqueViolation, Goto, rowVars, TypeOK
  <2>3. QED  BY <1>7, <2>1, <2>2 DEF Reinsert
<1>8. CASE Winner(c)
  BY <1>0, <1>8, QuietStep DEF Winner, Done, GotoWithOld, rowVars, TypeOK
<1>9. CASE CacheWinner(c)
  BY <1>0, <1>9, QuietStep DEF CacheWinner, Done, rowVars, TypeOK
<1>10. CASE Enqueue(c)
  BY <1>0, <1>10, QuietStep DEF Enqueue, Goto, rowVars, TypeOK
<1>11. CASE Compensate(c)
  BY <1>11, CompensateStep
<1>12. CASE Publish(c)
  BY <1>0, <1>12, QuietStep DEF Publish, Done, rowVars, TypeOK
<1>13. QED
  BY <1>1, <1>2, <1>3, <1>4, <1>5, <1>6, <1>7, <1>8, <1>9, <1>10, <1>11, <1>12
     DEF CreateStep

LEMMA CancelIInv ==
  ASSUME IInv, TypeInv', NEW c \in Clients, CancelStep(c) \/ ApiCrash(c)
  PROVE  IInv'
<1> USE DEF QuietRequests, Minting
<1>0. TypeOK /\ TypeInv
  BY DEF IInv, TypeInv
<1>1. CASE \E i \in Ids : CancelRead(c, i)
  BY <1>0, <1>1, QuietStep DEF CancelRead, rowVars, reqVars, TypeOK
<1>2. CASE CancelWrite(c)
  <2>1. QuietRequests /\ reqId[c] \in Ids /\ UNCHANGED <<input, key, attached, snaps, minted>>
    BY <1>0, <1>2 DEF CancelWrite, Goto, Done, TypeOK, TypeInv, Locals, CancelStage
  <2>2. CASE InFlight(reqId[c])
    <3>1. "canceled" \in JobStatus /\ "canceled" \notin DoneStatus
      BY DEF JobStatus, Terminal, DoneStatus
    <3>2. QED  BY <1>2, <2>1, <2>2, <3>1, MoveStep DEF CancelWrite
  <2>3. CASE ~InFlight(reqId[c])
    BY <1>2, <2>1, <2>3, QuietStep DEF CancelWrite
  <2>4. QED  BY <2>2, <2>3
<1>3. CASE CancelRemove(c)
  BY <1>0, <1>3, QuietStep DEF CancelRemove, Done, rowVars, TypeOK
<1>4. CASE ApiCrash(c)
  BY <1>0, <1>4, QuietStep DEF ApiCrash, Done, rowVars, TypeOK
<1>5. QED  BY <1>1, <1>2, <1>3, <1>4 DEF CancelStep

LEMMA WorkerIInv ==
  ASSUME IInv, TypeInv', NEW w \in Workers,
         RunStep(w) \/ Throw(w) \/ WorkerCrash(w) \/ LockLost(w)
  PROVE  IInv'
<1>1. QuietRequests /\ UNCHANGED minted
  BY DEF RunStep, Start, Fetch, Metrics, SaveRead, SaveCommit, Report, Finish, FailAttempt, OnFailed,
         Throw, WorkerCrash, LockLost, QuietRequests, reqVars
<1>2. wstage[w] # "idle" => wjob[w] \in Ids
  BY DEF IInv, TypeInv, Locals
<1>3. CASE Start(w)
  <2>1. RunningStatus \in JobStatus \ DoneStatus
    BY DEF RunningStatus, JobStatus, InFlightStatus, DoneStatus
  <2>2. QED  BY <1>1, <1>2, <1>3, <2>1, MarkStatusStep DEF Start
<1>4. CASE OnFailed(w)
  <2>1. "failed" \in JobStatus \ DoneStatus
    BY DEF JobStatus, Terminal, DoneStatus
  <2>2. QED  BY <1>1, <1>2, <1>4, <2>1, MarkStatusStep DEF OnFailed
<1>5. CASE SaveCommit(w)
  <2> DEFINE i == wjob[w]
             s == IF wpartial[w] THEN "partial" ELSE "completed"
  <2>1. i \in Ids /\ s \in JobStatus /\ s \in DoneStatus
    BY <1>2, <1>5 DEF SaveCommit, JobStatus, Terminal, DoneStatus
  <2>2. CASE InFlight(i) /\ CommitResult(i, wpartial[w])
    <3> HIDE DEF s
    <3>1. status' = [status EXCEPT ![i] = s]
      BY <2>2 DEF CommitResult, s
    <3>2. QED  BY <1>1, <2>1, <2>2, <3>1, MoveStep DEF CommitResult
  <2>3. CASE RolledBack(i)
    BY <1>1, <2>3, QuietStep DEF RolledBack, rowVars
  <2>4. QED  BY <1>5, <2>2, <2>3 DEF SaveCommit
<1>6. CASE Fetch(w) \/ Metrics(w) \/ Report(w)
  BY <1>1, <1>6, QuietStep DEF Fetch, Metrics, Report, MirrorProgress, WriteLost, rowVars
<1>7. CASE SaveRead(w) \/ Finish(w) \/ FailAttempt(w) \/ Throw(w) \/ WorkerCrash(w) \/ LockLost(w)
  BY <1>1, <1>7, QuietStep DEF SaveRead, Finish, FailAttempt, Throw, WorkerCrash, LockLost, rowVars
<1>8. QED
  BY <1>3, <1>4, <1>5, <1>6, <1>7 DEF RunStep

LEMMA QueueIInv ==
  ASSUME IInv, TypeInv',
         \/ \E i \in Ids : (\E w \in Workers : Take(w, i) \/ StallFail(w, i)) \/ StallRequeue(i)
         \/ Tick
         \/ UNCHANGED vars
  PROVE  IInv'
<1>1. QuietRequests /\ UNCHANGED <<status, input, key, attached, snaps, minted>>
  BY DEF Take, StallFail, StallRequeue, Tick, QuietRequests, vars, rowVars, reqVars
<1>2. QED  BY <1>1, QuietStep

LEMMA NextIInv == IInv /\ [Next]_vars => IInv'
<1> SUFFICES ASSUME IInv, [Next]_vars PROVE IInv'
  OBVIOUS
<1>1. TypeInv'
  BY NextTypeInv DEF IInv
<1>2. ASSUME NEW c \in Clients, CreateStep(c) \/ CancelStep(c) \/ ApiCrash(c)
      PROVE  IInv'
  BY <1>1, <1>2, CreateIInv, CancelIInv
<1>3. ASSUME NEW w \in Workers, RunStep(w) \/ Throw(w) \/ WorkerCrash(w) \/ LockLost(w)
      PROVE  IInv'
  BY <1>1, <1>3, WorkerIInv
<1>4. QED
  BY <1>1, <1>2, <1>3, QueueIInv DEF Next

LEMMA Invariance == Spec => []IInv
  BY InitIInv, NextIInv, PTL DEF Spec

(* At most one row in flight per idempotency key, whatever the creates,    *)
(* rotations, cancellations, compensations and crashes do to each other:   *)
(* the paid fetch of a request is never started for two rows at once.      *)
THEOREM NoDuplicates == Spec => []NoDuplicateInFlight
<1>1. IInv => NoDuplicateInFlight
  BY DEF IInv, UniqueKeys, NoDuplicateInFlight
<1>2. QED  BY <1>1, Invariance, PTL

(* A row is done exactly when it has its one result snapshot, although     *)
(* doubles of a job, retries and cancels write to it at the same time.     *)
THEOREM SnapshotAtomicity == Spec => []SnapshotMatchesStatus
<1>1. IInv => SnapshotMatchesStatus
  BY DEF IInv, Snapshots
<1>2. QED  BY <1>1, Invariance, PTL

-----------------------------------------------------------------------------
(* Every step of the system is a step of the abstract life cycle of one    *)
(* analysis, or leaves all of them as they are.                            *)
LifecycleStep == [Lifecycle!LNext]_<<status, attached>>

LEMMA MarkStatusMaps ==
  ASSUME TypeOK, NEW i \in Ids, NEW s \in {"running", "failed"},
         MarkStatus(i, s) \/ WriteLost
  PROVE  LifecycleStep
<1>1. CASE MarkStatus(i, s) /\ InFlight(i)
  BY <1>1 DEF MarkStatus, InFlight, InFlightStatus, LifecycleStep, Lifecycle!LNext, Lifecycle!Run,
     Lifecycle!Close, Lifecycle!InFlightStates, Lifecycle!ClosedStates
<1>2. CASE (MarkStatus(i, s) /\ ~InFlight(i)) \/ WriteLost
  BY <1>2 DEF MarkStatus, WriteLost, rowVars, LifecycleStep
<1>3. QED  BY <1>1, <1>2

LEMMA InsertMaps ==
  ASSUME IInv, NEW c \in Clients, stage[c] \in {"insert", "reinsert"}, InsertRow(c)
  PROVE  LifecycleStep
<1>1. reqId[c] \in Ids /\ status[reqId[c]] = NoRow
  BY MintingIds DEF IInv, FreshIds, Minting
<1>2. Lifecycle!Submit(reqId[c])
  BY <1>1 DEF InsertRow, Lifecycle!Submit, Lifecycle!NoAnalysis, NoRow
<1>3. QED  BY <1>1, <1>2 DEF LifecycleStep, Lifecycle!LNext

LEMMA CreateMaps ==
  ASSUME IInv, NEW c \in Clients, CreateStep(c)
  PROVE  LifecycleStep
<1>1. CASE Insert(c) \/ Reinsert(c)
  BY <1>1, InsertMaps DEF Insert, Reinsert, UniqueViolation, rowVars, LifecycleStep
<1>2. CASE Compensate(c)
  <2>1. reqId[c] \in Ids
    BY <1>2 DEF Compensate, IInv, TypeInv, TypeOK, Locals, CreateStage
  <2>2. CASE DeleteRow(reqId[c])
    BY <2>1, <2>2 DEF DeleteRow, LifecycleStep, Lifecycle!LNext, Lifecycle!Withdraw,
       Lifecycle!NoAnalysis, NoRow
  <2>3. CASE UNCHANGED rowVars
    BY <2>3 DEF rowVars, LifecycleStep
  <2>4. QED  BY <1>2, <2>2, <2>3 DEF Compensate
<1>3. CASE ~Insert(c) /\ ~Reinsert(c) /\ ~Compensate(c)
  BY <1>3 DEF CreateStep, CreateHit, CreateMiss, Lookup, Recache, Rotate, Winner, CacheWinner,
     Enqueue, Publish, vars, rowVars, LifecycleStep
<1>4. QED  BY <1>1, <1>2, <1>3

LEMMA CancelMaps ==
  ASSUME IInv, NEW c \in Clients, CancelStep(c) \/ ApiCrash(c)
  PROVE  LifecycleStep
<1>1. CASE CancelWrite(c) /\ InFlight(reqId[c])
  <2>1. reqId[c] \in Ids
    BY <1>1 DEF CancelWrite, IInv, TypeInv, Locals, CancelStage
  <2>2. Lifecycle!Close(reqId[c])
    BY <1>1 DEF CancelWrite, InFlight, InFlightStatus, Lifecycle!Close, Lifecycle!InFlightStates,
       Lifecycle!ClosedStates
  <2>3. QED  BY <2>1, <2>2 DEF LifecycleStep, Lifecycle!LNext
<1>2. CASE ~(CancelWrite(c) /\ InFlight(reqId[c]))
  BY <1>2 DEF CancelStep, CancelRead, CancelWrite, CancelRemove, ApiCrash, rowVars, LifecycleStep
<1>3. QED  BY <1>1, <1>2

LEMMA WorkerMaps ==
  ASSUME IInv, NEW w \in Workers,
         RunStep(w) \/ Throw(w) \/ WorkerCrash(w) \/ LockLost(w)
  PROVE  LifecycleStep
<1>1. TypeOK /\ (wstage[w] # "idle" => wjob[w] \in Ids)
  BY DEF IInv, TypeInv, Locals
<1>2. CASE Start(w) \/ OnFailed(w)
  BY <1>1, <1>2, MarkStatusMaps DEF Start, OnFailed, RunningStatus
<1>3. CASE SaveCommit(w)
  <2>1. CASE InFlight(wjob[w]) /\ CommitResult(wjob[w], wpartial[w])
    <3>1. Lifecycle!Complete(wjob[w])
      BY <2>1 DEF CommitResult, InFlight, InFlightStatus, Lifecycle!Complete,
         Lifecycle!InFlightStates, Lifecycle!DoneStates
    <3>2. QED  BY <1>1, <1>3, <3>1 DEF SaveCommit, LifecycleStep, Lifecycle!LNext
  <2>2. CASE RolledBack(wjob[w])
    BY <2>2 DEF RolledBack, rowVars, LifecycleStep
  <2>3. QED  BY <1>3, <2>1, <2>2 DEF SaveCommit
<1>4. CASE ~Start(w) /\ ~OnFailed(w) /\ ~SaveCommit(w)
  BY <1>4 DEF RunStep, Fetch, Metrics, Report, MirrorProgress, WriteLost, SaveRead, Finish,
     FailAttempt, Throw, WorkerCrash, LockLost, rowVars, LifecycleStep
<1>5. QED  BY <1>2, <1>3, <1>4

LEMMA NextMaps == IInv /\ [Next]_vars => LifecycleStep
<1> SUFFICES ASSUME IInv, [Next]_vars PROVE LifecycleStep
  OBVIOUS
<1>1. CASE \/ \E i \in Ids : (\E w \in Workers : Take(w, i) \/ StallFail(w, i)) \/ StallRequeue(i)
           \/ Tick
           \/ UNCHANGED vars
  BY <1>1 DEF Take, StallFail, StallRequeue, Tick, vars, rowVars, LifecycleStep
<1>2. QED
  BY <1>1, CreateMaps, CancelMaps, WorkerMaps DEF Next

(* The database row is a correct AnalysisLifecycle for whoever polls it.   *)
THEOREM Refinement == Spec => RefinesLifecycle
<1>1. Init => Lifecycle!LInit
  BY DEF Init, Lifecycle!LInit, Lifecycle!NoAnalysis, NoRow
<1>2. IInv /\ [Next]_vars => [Lifecycle!LNext]_<<status, attached>>
  BY NextMaps DEF LifecycleStep
<1>3. QED
  BY <1>1, <1>2, Invariance, PTL DEF Spec, RefinesLifecycle, Lifecycle!LSpec, Lifecycle!lifecycleVars

(* A snapshot is only ever added to a row in flight.                       *)
LEMMA SnapshotsOnlyInFlight ==
  ASSUME IInv, [Next]_vars, NEW i \in Ids, ~InFlight(i)
  PROVE  snaps'[i] = snaps[i]
<1>1. CASE \E w \in Workers : SaveCommit(w)
  BY <1>1 DEF IInv, TypeInv, TypeOK, SaveCommit, CommitResult, RolledBack, rowVars
<1>2. CASE \E c \in Clients : CreateStep(c)
  BY <1>2 DEF CreateStep, CreateHit, CreateMiss, Insert, InsertRow, UniqueViolation, Lookup, Recache,
     Rotate, Reinsert, Winner, CacheWinner, Enqueue, Compensate, DeleteRow, Publish, vars, rowVars
<1>3. CASE \E w \in Workers : RunStep(w) /\ ~SaveCommit(w)
  BY <1>3 DEF RunStep, Start, Fetch, Metrics, SaveRead, Report, Finish, FailAttempt, OnFailed,
     MarkStatus, MirrorProgress, WriteLost, rowVars
<1>4. CASE \E c \in Clients : CancelStep(c) \/ ApiCrash(c)
  BY <1>4 DEF CancelStep, CancelRead, CancelWrite, CancelRemove, ApiCrash, rowVars
<1>5. CASE \E w \in Workers : Throw(w) \/ WorkerCrash(w) \/ LockLost(w)
  BY <1>5 DEF Throw, WorkerCrash, LockLost, rowVars
<1>6. CASE \E w \in Workers, k \in Ids : Take(w, k) \/ StallFail(w, k)
  BY <1>6 DEF Take, StallFail, rowVars
<1>7. CASE (\E k \in Ids : StallRequeue(k)) \/ Tick \/ UNCHANGED vars
  BY <1>7 DEF StallRequeue, Tick, vars, rowVars
<1>8. QED
  BY <1>1, <1>2, <1>3, <1>4, <1>5, <1>6, <1>7 DEF Next

(* Whatever commits first wins: a terminal row never changes status again  *)
(* and keeps its snapshot, unless the row itself is taken back.            *)
THEOREM TerminalRowsStay == Spec => TerminalIrreversible
<1>1. ASSUME IInv, [Next]_vars, NEW i \in Ids, status[i] \in Terminal
      PROVE  \/ status'[i] = NoRow
             \/ status'[i] = status[i] /\ attached'[i] = attached[i] /\ snaps'[i] = snaps[i]
  <2>1. LifecycleStep /\ TypeOK /\ ~InFlight(i) /\ status[i] # NoRow
    BY <1>1, NextMaps DEF IInv, TypeInv, InFlight, InFlightStatus, Terminal, DoneStatus, NoRow
  <2>2. snaps'[i] = snaps[i]
    BY <1>1, <2>1, SnapshotsOnlyInFlight
  <2>3. status'[i] = NoRow \/ (status'[i] = status[i] /\ attached'[i] = attached[i])
    BY <2>1 DEF LifecycleStep, Lifecycle!LNext, Lifecycle!Submit, Lifecycle!Run, Lifecycle!Complete,
       Lifecycle!Close, Lifecycle!Withdraw, Lifecycle!InFlightStates, Lifecycle!NoAnalysis,
       InFlight, InFlightStatus, NoRow, TypeOK
  <2>4. QED  BY <2>2, <2>3
<1>2. IInv /\ [Next]_vars =>
        [\A i \in Ids : status[i] \in Terminal =>
           \/ status'[i] = NoRow
           \/ status'[i] = status[i] /\ attached'[i] = attached[i] /\ snaps'[i] = snaps[i]]_vars
  BY <1>1
<1>3. QED
  BY <1>2, Invariance, PTL DEF Spec, TerminalIrreversible

-----------------------------------------------------------------------------
(* Who may touch a job.  Only the slot that works on an active job has its *)
(* lock.  An id that no request has drawn, or that a request has drawn and *)
(* not yet queued, has no job and no slot, and no other request has it.    *)
(* So a job that has ended, and whose failure is about to be written to    *)
(* the row, is not queued a second time; and work that has come past its   *)
(* save finds a row that is over and stays so.                             *)
Drawn == Minting \cup {"enqueue"}

Unused(i) == job[i] = "absent" /\ \A w \in Workers : wstage[w] # "idle" => wjob[w] # i

LocksHeld ==
  \A i \in Ids : lock[i] # NoWorker =>
    job[i] = "active" /\ wjob[lock[i]] = i /\ wstage[lock[i]] \in WorkStage

OwnIds ==
  /\ \A c \in Clients : stage[c] \in Drawn => Unused(reqId[c])
  /\ \A c, d \in Clients : stage[c] \in Drawn /\ stage[d] \in Drawn /\ reqId[c] = reqId[d] => c = d
  /\ \A i \in Ids : i \notin minted => Unused(i)

ClosedJobs ==
  /\ \A w \in Workers : wstage[w] = "onFailed" => job[wjob[w]] \in {"failed", "absent"}
  /\ \A c \in Clients : stage[c] = "enqueue" => status[reqId[c]] # "failed"

JobInv == LocksHeld /\ OwnIds /\ ClosedJobs /\ NoPrematureFailure

LEMMA InitJobInv == Init => JobInv
  BY DEF Init, QueueInit, JobInv, LocksHeld, OwnIds, Unused, ClosedJobs, NoPrematureFailure, Drawn,
     Minting, NoRow

\* What every step does to the status of a row: it never fails one of its own accord.
LEMMA RequestsNeverFail ==
  ASSUME IInv, NEW c \in Clients, CreateStep(c) \/ CancelStep(c) \/ ApiCrash(c), NEW i \in Ids
  PROVE  status'[i] = "failed" => status[i] = "failed"
<1> USE DEF IInv, TypeInv, TypeOK
<1>1. CASE Insert(c) \/ Reinsert(c)
  BY <1>1 DEF Insert, Reinsert, InsertRow, UniqueViolation, rowVars
<1>2. CASE Compensate(c) \/ CancelWrite(c)
  BY <1>2 DEF Compensate, DeleteRow, CancelWrite, rowVars, NoRow
<1>3. CASE ~Insert(c) /\ ~Reinsert(c) /\ ~Compensate(c) /\ ~CancelWrite(c)
  BY <1>3 DEF CreateStep, CreateHit, CreateMiss, Lookup, Recache, Rotate, Winner, CacheWinner, Enqueue,
     Publish, CancelStep, CancelRead, CancelRemove, ApiCrash, vars, rowVars
<1>4. QED  BY <1>1, <1>2, <1>3

\* A request that leaves the queue alone and draws no id.
LEMMA QuietRequestJobs ==
  ASSUME IInv, JobInv, NEW c \in Clients, CreateStep(c) \/ CancelStep(c) \/ ApiCrash(c),
         UNCHANGED <<queueVars, minted>>
  PROVE  JobInv'
<1> USE DEF IInv, TypeInv, TypeOK
<1>1. UNCHANGED <<job, lock, wstage, wjob>>
  BY DEF CreateStep, CreateHit, CreateMiss, Insert, Lookup, Recache, Rotate, Reinsert, Winner, CacheWinner,
     Enqueue, Compensate, Publish, CancelStep, CancelRead, CancelWrite, CancelRemove, ApiCrash, vars,
     queueVars, workerVars
<1>2. \A d \in Clients : d # c => stage'[d] = stage[d] /\ reqId'[d] = reqId[d]
  BY DEF CreateStep, CreateHit, CreateMiss, Insert, InsertRow, UniqueViolation, Lookup, Recache, Rotate,
     Reinsert, Winner, CacheWinner, Enqueue, Compensate, Publish, CancelStep, CancelRead, CancelWrite,
     CancelRemove, ApiCrash, Goto, GotoWithOld, Done, vars, reqVars
<1>3. stage'[c] \in Drawn => stage[c] \in Drawn /\ reqId'[c] = reqId[c]
  BY DEF CreateStep, CreateHit, CreateMiss, Insert, InsertRow, UniqueViolation, Lookup, Recache, Rotate,
     Reinsert, Winner, CacheWinner, Enqueue, Compensate, Publish, CancelStep, CancelRead, CancelWrite,
     CancelRemove, ApiCrash, Goto, GotoWithOld, Done, vars, reqVars, Drawn, Minting
<1>4. stage'[c] = "enqueue" => stage[c] = "enqueue" \/ status'[reqId[c]] = "queued"
  <2>1. CASE Insert(c) \/ Reinsert(c)
    <3>1. reqId[c] \in Ids
      BY <2>1, MintingIds DEF Insert, Reinsert, Minting
    <3>2. QED  BY <2>1, <3>1 DEF Insert, Reinsert, InsertRow, UniqueViolation, Goto
  <2>2. CASE ~Insert(c) /\ ~Reinsert(c)
    BY <2>2 DEF CreateStep, CreateHit, CreateMiss, Lookup, Recache, Rotate, Winner, CacheWinner, Enqueue,
       Compensate, Publish, CancelStep, CancelRead, CancelWrite, CancelRemove, ApiCrash, Goto, GotoWithOld,
       Done, vars, reqVars
  <2>3. QED  BY <2>1, <2>2
<1>5. LocksHeld' /\ OwnIds'
  BY <1>1, <1>2, <1>3 DEF JobInv, LocksHeld, OwnIds, Unused
<1>6. ClosedJobs'
  <2>1. \A d \in Clients : stage[d] = "enqueue" => reqId[d] \in Ids
    BY DEF Locals, CreateStage
  <2>2. stage'[c] = "enqueue" => status'[reqId'[c]] # "failed"
    BY <1>3, <1>4, <2>1, RequestsNeverFail DEF JobInv, ClosedJobs, Drawn
  <2>3. \A d \in Clients : stage'[d] = "enqueue" => status'[reqId'[d]] # "failed"
    BY <1>2, <2>1, <2>2, RequestsNeverFail DEF JobInv, ClosedJobs
  <2>4. QED  BY <1>1, <2>3 DEF JobInv, ClosedJobs
<1>7. NoPrematureFailure'
  BY <1>1, RequestsNeverFail DEF JobInv, NoPrematureFailure
<1>8. QED  BY <1>5, <1>6, <1>7 DEF JobInv

\* Drawing an id, queueing its job and removing a job.
LEMMA BusyRequestJobs ==
  ASSUME IInv, JobInv, NEW c \in Clients,
         (\E h \in Hash, i \in Ids : CreateMiss(c, h, i)) \/ Enqueue(c) \/ CancelRemove(c)
  PROVE  JobInv'
<1> USE DEF IInv, TypeInv, TypeOK, QueueTypeOK
<1>1. UNCHANGED <<status, lock, wstage, wjob>>
  BY DEF CreateMiss, Enqueue, AddJob, CancelRemove, RemoveJob, RemoveRefused, queueVars, rowVars, workerVars
<1>2. CASE \E h \in Hash, i \in Ids : CreateMiss(c, h, i)
  <2> PICK h \in Hash, i \in Ids : CreateMiss(c, h, i)
    BY <1>2
  <2>1. /\ UNCHANGED job /\ i \notin minted /\ minted' = minted \cup {i}
        /\ stage' = [stage EXCEPT ![c] = "insert"] /\ reqId' = [reqId EXCEPT ![c] = i]
    BY DEF CreateMiss, queueVars
  <2>2. \A d \in Clients : stage[d] \in Drawn => reqId[d] \in minted
    BY DEF Drawn, Minting, Locals, CreateStage
  <2>3. OwnIds'
    BY <1>1, <2>1, <2>2 DEF JobInv, OwnIds, Unused, Drawn, Minting
  <2>4. LocksHeld' /\ ClosedJobs' /\ NoPrematureFailure'
    BY <1>1, <2>1 DEF JobInv, LocksHeld, ClosedJobs, NoPrematureFailure
  <2>5. QED  BY <2>3, <2>4 DEF JobInv
<1>3. CASE Enqueue(c)
  <2>1. /\ stage[c] = "enqueue" /\ reqId[c] \in Ids /\ reqId[c] \in minted /\ job[reqId[c]] = "absent"
        /\ \A w \in Workers : wstage[w] # "idle" => wjob[w] # reqId[c]
        /\ status[reqId[c]] # "failed"
    BY <1>3 DEF Enqueue, JobInv, OwnIds, Unused, ClosedJobs, Drawn, Locals, CreateStage
  <2>2. /\ \A i \in Ids \ {reqId[c]} : job'[i] = job[i]
        /\ UNCHANGED <<reqId, minted>> /\ stage'[c] \notin Drawn
        /\ \A d \in Clients \ {c} : stage'[d] = stage[d]
        /\ job'[reqId[c]] \in {"absent", "wait"}
    BY <1>3, <2>1 DEF Enqueue, AddJob, Goto, queueVars, Drawn, Minting
  <2>3. \A d \in Clients : stage'[d] \in Drawn =>
          d # c /\ stage[d] \in Drawn /\ reqId[d] \in Ids /\ reqId[d] # reqId[c]
    BY <2>1, <2>2 DEF JobInv, OwnIds, Drawn, Minting, Locals, CreateStage
  <2>4. OwnIds'
    BY <1>1, <2>1, <2>2, <2>3 DEF JobInv, OwnIds, Unused
  <2>5. LocksHeld'
    BY <1>1, <2>1, <2>2 DEF JobInv, LocksHeld
  <2>6. ClosedJobs'
    BY <1>1, <2>1, <2>2, <2>3 DEF JobInv, ClosedJobs, Locals, Drawn
  <2>7. NoPrematureFailure'
    BY <1>1, <2>1, <2>2 DEF JobInv, NoPrematureFailure
  <2>8. QED  BY <2>4, <2>5, <2>6, <2>7 DEF JobInv
<1>4. CASE CancelRemove(c)
  <2>1. /\ \A i \in Ids : job'[i] = job[i] \/ (job'[i] = "absent" /\ lock[i] = NoWorker)
        /\ UNCHANGED minted /\ stage'[c] = "idle"
        /\ \A d \in Clients \ {c} : stage'[d] = stage[d] /\ reqId'[d] = reqId[d]
    BY <1>4 DEF CancelRemove, RemoveJob, RemoveRefused, Locked, Done, queueVars
  <2>2. \A d \in Clients : stage'[d] \in Drawn => d # c /\ reqId[d] \in Ids
    BY <2>1 DEF Drawn, Minting, Locals, CreateStage
  <2>3. OwnIds'
    BY <1>1, <2>1, <2>2 DEF JobInv, OwnIds, Unused
  <2>4. LocksHeld' /\ NoPrematureFailure'
    BY <1>1, <2>1 DEF JobInv, LocksHeld, NoPrematureFailure
  <2>5. ClosedJobs'
    BY <1>1, <2>1, <2>2 DEF JobInv, ClosedJobs, Locals, Drawn
  <2>6. QED  BY <2>3, <2>4, <2>5 DEF JobInv
<1>5. QED  BY <1>2, <1>3, <1>4

LEMMA RequestJobs ==
  ASSUME IInv, JobInv, NEW c \in Clients, CreateStep(c) \/ CancelStep(c) \/ ApiCrash(c)
  PROVE  JobInv'
<1>1. CASE (\E h \in Hash, i \in Ids : CreateMiss(c, h, i)) \/ Enqueue(c) \/ CancelRemove(c)
  BY <1>1, BusyRequestJobs
<1>2. CASE ~((\E h \in Hash, i \in Ids : CreateMiss(c, h, i)) \/ Enqueue(c) \/ CancelRemove(c))
  <2>1. UNCHANGED <<queueVars, minted>>
    BY <1>2 DEF CreateStep, CreateHit, Insert, Lookup, Recache, Rotate, Reinsert, Winner, CacheWinner,
       Compensate, Publish, CancelStep, CancelRead, CancelWrite, ApiCrash, vars
  <2>2. QED  BY <2>1, QuietRequestJobs
<1>3. QED  BY <1>1, <1>2

\* What the slots' steps have in common: requests stand still, other slots too.
LEMMA SlotFrame ==
  ASSUME IInv, NEW w \in Workers, RunStep(w) \/ Throw(w) \/ WorkerCrash(w) \/ LockLost(w)
  PROVE  /\ UNCHANGED <<stage, reqId, reqOld, reqHash, minted>>
         /\ wstage[w] # "idle" /\ wjob[w] \in Ids
         /\ \A v \in Workers \ {w} : wstage'[v] = wstage[v] /\ wjob'[v] = wjob[v]
         /\ wstage'[w] # "idle" => wjob'[w] = wjob[w]
<1> USE DEF IInv, TypeInv, TypeOK
<1>1. wstage[w] # "idle"
  BY DEF RunStep, Start, Fetch, Metrics, SaveRead, SaveCommit, Report, Finish, FailAttempt, OnFailed, Throw,
     WorkerCrash, LockLost, WorkStage
<1>2. UNCHANGED <<reqVars, minted>>
  BY DEF RunStep, Start, Fetch, Metrics, SaveRead, SaveCommit, Report, Finish, FailAttempt, OnFailed, Throw,
     WorkerCrash, LockLost
<1>3. WDone(w) \/ (UNCHANGED wjob /\ \A v \in Workers \ {w} : wstage'[v] = wstage[v])
  BY DEF RunStep, Start, Fetch, Metrics, SaveRead, SaveCommit, AfterSave, Report, Finish, FailAttempt,
     OnFailed, Throw, WorkerCrash, LockLost, WGoto, workerVars
<1>4. QED  BY <1>1, <1>2, <1>3 DEF WDone, reqVars, Locals

\* Work on a job that leaves the queue alone.
LEMMA QuietSlotJobs ==
  ASSUME IInv, JobInv, NEW w \in Workers,
         \/ Start(w) \/ Fetch(w) \/ Metrics(w) \/ SaveRead(w) \/ SaveCommit(w) \/ Report(w)
         \/ Throw(w)
  PROVE  JobInv'
<1> USE DEF IInv, TypeInv, TypeOK, QueueTypeOK
<1>1. /\ UNCHANGED <<stage, reqId, minted>>
      /\ wstage[w] # "idle" /\ wjob[w] \in Ids
      /\ \A v \in Workers \ {w} : wstage'[v] = wstage[v] /\ wjob'[v] = wjob[v]
  BY SlotFrame DEF RunStep
<1>2. /\ UNCHANGED <<job, lock, wjob>> /\ wstage'[w] \in WorkStage
  BY DEF Start, Fetch, Metrics, SaveRead, SaveCommit, AfterSave, Report, Throw, WGoto, queueVars, WorkStage
<1>3. wstage'[w] # "idle" /\ wstage'[w] # "onFailed"
  BY <1>2 DEF WorkStage
<1>4. \A i \in Ids : status'[i] = "failed" => status[i] = "failed"
  BY <1>1 DEF Start, Fetch, Metrics, SaveRead, SaveCommit, Report, Throw, MarkStatus, RunningStatus,
     MirrorProgress, WriteLost, CommitResult, RolledBack, rowVars
<1>5. LocksHeld' /\ OwnIds'
  BY <1>1, <1>2, <1>3 DEF JobInv, LocksHeld, OwnIds, Unused
<1>6. ClosedJobs'
  BY <1>1, <1>2, <1>3, <1>4 DEF JobInv, ClosedJobs, Locals, CreateStage
<1>7. NoPrematureFailure'
  BY <1>2, <1>4 DEF JobInv, NoPrematureFailure
<1>8. QED  BY <1>5, <1>6, <1>7 DEF JobInv

\* The ends of an attempt: a slot lets go of its job, or turns to closing the row.
LEMMA BusySlotJobs ==
  ASSUME IInv, JobInv, NEW w \in Workers,
         Finish(w) \/ FailAttempt(w) \/ OnFailed(w) \/ WorkerCrash(w) \/ LockLost(w)
  PROVE  JobInv'
<1> USE QueueAssumption DEF IInv, TypeInv, TypeOK, QueueTypeOK
<1> DEFINE i == wjob[w]
<1>1. /\ UNCHANGED <<stage, reqId, minted>>
      /\ wstage[w] # "idle" /\ i \in Ids
      /\ \A v \in Workers \ {w} : wstage'[v] = wstage[v] /\ wjob'[v] = wjob[v]
      /\ wstage'[w] # "idle" => wjob'[w] = i
  BY SlotFrame DEF RunStep
<1>2. \A v \in Workers : wstage'[v] # "idle" => wstage[v] # "idle" /\ wjob'[v] = wjob[v]
  BY <1>1
<1>3. \A k \in Ids : lock[k] = w => k = i /\ job[k] = "active" /\ wstage[w] \in WorkStage
  BY DEF JobInv, LocksHeld
<1>4. \A k \in Ids : \/ job'[k] = job[k] /\ lock'[k] \in {lock[k], NoWorker}
                     \/ k = i /\ lock[k] = w /\ job'[k] # "absent" /\ lock'[k] = NoWorker
  BY <1>1, <1>3 DEF Finish, FailAttempt, OnFailed, WorkerCrash, LockLost, CompleteJob, FailJob, Release,
     LoseLocksOf, LoseLock, Holds, queueVars
<1>5. \A k \in Ids : lock'[k] # NoWorker => lock'[k] # w \/ (wstage'[w] \in WorkStage /\ wstage'[w] # "idle")
  BY <1>1, <1>3 DEF Finish, FailAttempt, OnFailed, WorkerCrash, LockLost, CompleteJob, FailJob, Release,
     LoseLocksOf, LoseLock, Holds, queueVars, WDone, WGoto, workerVars, WorkStage
<1>6. LocksHeld'
  BY <1>1, <1>3, <1>4, <1>5 DEF JobInv, LocksHeld
<1>7. OwnIds'
  <2>1. \A k \in Ids : Unused(k) => Unused(k)'
    BY <1>1, <1>2, <1>4 DEF Unused
  <2>2. QED  BY <1>1, <2>1 DEF JobInv, OwnIds, Drawn, Minting, Locals, CreateStage
<1>8. \A k \in Ids : job[k] \in {"failed", "absent"} => job'[k] = job[k]
  BY <1>3, <1>4
<1>9. \A k \in Ids : status'[k] = "failed" => status[k] = "failed" \/ (k = i /\ job[k] \in {"failed", "absent"})
  BY <1>1 DEF Finish, FailAttempt, OnFailed, WorkerCrash, LockLost, MarkStatus, WriteLost, rowVars, JobInv,
     ClosedJobs
<1>10. wstage'[w] = "onFailed" => wstage[w] = "onFailed" \/ job'[i] = "failed"
  BY <1>1 DEF Finish, FailAttempt, OnFailed, WorkerCrash, LockLost, WDone, WGoto, FailJob, Release, FinalAttempt,
     workerVars
<1>11. ClosedJobs'
  <2>1. \A v \in Workers : wstage'[v] = "onFailed" => job'[wjob'[v]] \in {"failed", "absent"}
    BY <1>1, <1>2, <1>8, <1>10 DEF JobInv, ClosedJobs, Locals
  <2>2. \A c \in Clients : stage[c] = "enqueue" => reqId[c] \in Ids /\ reqId[c] # i
    BY <1>1 DEF JobInv, OwnIds, Unused, Drawn, Locals, CreateStage
  <2>3. QED  BY <1>1, <1>9, <2>1, <2>2 DEF JobInv, ClosedJobs
<1>12. NoPrematureFailure'
  BY <1>8, <1>9 DEF JobInv, NoPrematureFailure
<1>13. QED  BY <1>6, <1>7, <1>11, <1>12 DEF JobInv

\* BullMQ gives out a job, or ends one that has stalled too often.
LEMMA QueueJobs ==
  ASSUME IInv, JobInv, NEW i \in Ids,
         (\E w \in Workers : Take(w, i) \/ StallFail(w, i)) \/ StallRequeue(i)
  PROVE  JobInv'
<1> USE QueueAssumption DEF IInv, TypeInv, TypeOK, QueueTypeOK
<1>1. /\ UNCHANGED <<stage, reqId, minted, status>>
      /\ job[i] \in {"wait", "active"} /\ lock[i] = NoWorker
      /\ \A k \in Ids \ {i} : job'[k] = job[k] /\ lock'[k] = lock[k]
      /\ job'[i] # "absent"
  BY DEF Take, TakeJob, StallFail, FailStalled, StallRequeue, RequeueStalled, Stalled, Locked, rowVars,
     reqVars, JobInv, LocksHeld
<1>2. ~Unused(i)
  BY <1>1 DEF Unused
<1>3. NoPrematureFailure'
  BY <1>1 DEF JobInv, NoPrematureFailure
<1>4. \A c \in Clients : stage[c] \in Drawn => reqId[c] \in Ids
  BY DEF Drawn, Minting, Locals, CreateStage
<1>5. CASE \E w \in Workers : Take(w, i) \/ StallFail(w, i)
  <2> PICK w \in Workers : Take(w, i) \/ StallFail(w, i)
    BY <1>5
  <2>1. /\ wstage[w] = "idle" /\ wjob'[w] = i
        /\ \/ wstage'[w] = "start" /\ job'[i] = "active" /\ lock'[i] = w
           \/ wstage'[w] = "onFailed" /\ job'[i] = "failed" /\ UNCHANGED lock
        /\ \A v \in Workers \ {w} : wstage'[v] = wstage[v] /\ wjob'[v] = wjob[v]
    BY DEF Take, TakeJob, StallFail, FailStalled
  <2>2. LocksHeld'
    BY <1>1, <2>1 DEF JobInv, LocksHeld, WorkStage
  <2>3. \A k \in Ids : Unused(k) => Unused(k)'
    BY <1>1, <1>2, <2>1 DEF Unused
  <2>4. OwnIds'
    BY <1>1, <1>4, <2>3 DEF JobInv, OwnIds
  <2>5. ClosedJobs'
    BY <1>1, <2>1 DEF JobInv, ClosedJobs, Locals
  <2>6. QED  BY <1>3, <2>2, <2>4, <2>5 DEF JobInv
<1>6. CASE StallRequeue(i)
  <2>1. UNCHANGED <<lock, wstage, wjob>> /\ job[i] = "active"
    BY <1>6 DEF StallRequeue, RequeueStalled, Stalled, workerVars
  <2>2. LocksHeld'
    BY <1>1, <2>1 DEF JobInv, LocksHeld
  <2>3. \A k \in Ids : Unused(k) => Unused(k)'
    BY <1>1, <1>2, <2>1 DEF Unused
  <2>4. OwnIds'
    BY <1>1, <1>4, <2>3 DEF JobInv, OwnIds
  <2>5. ClosedJobs'
    BY <1>1, <2>1 DEF JobInv, ClosedJobs, Locals
  <2>6. QED  BY <1>3, <2>2, <2>4, <2>5 DEF JobInv
<1>7. QED  BY <1>5, <1>6

LEMMA NextJobInv == IInv /\ JobInv /\ [Next]_vars => JobInv'
<1> SUFFICES ASSUME IInv, JobInv, [Next]_vars PROVE JobInv'
  OBVIOUS
<1>1. CASE Tick \/ UNCHANGED vars
  BY <1>1 DEF Tick, vars, rowVars, queueVars, reqVars, workerVars, JobInv, LocksHeld, OwnIds, Unused, ClosedJobs,
     NoPrematureFailure
<1>2. ASSUME NEW w \in Workers, RunStep(w) \/ Throw(w) \/ WorkerCrash(w) \/ LockLost(w)
      PROVE  JobInv'
  BY <1>2, QuietSlotJobs, BusySlotJobs DEF RunStep
<1>3. QED
  BY <1>1, <1>2, RequestJobs, QueueJobs DEF Next

LEMMA JobInvariance == Spec => [](IInv /\ JobInv)
  BY InitIInv, NextIInv, InitJobInv, NextJobInv, PTL DEF Spec

(* An attempt that will be retried never ends the row: a row that says     *)
(* failed has no job that waits or runs, whatever attempts throw, stall,   *)
(* lose their lock or their "failed" event, and whatever requests do.      *)
THEOREM FailureIsFinal == Spec => []NoPrematureFailure
<1>1. JobInv => NoPrematureFailure
  BY DEF JobInv
<1>2. QED  BY <1>1, JobInvariance, PTL

-----------------------------------------------------------------------------
(* Why progress is honest.  A slot reports full progress only behind a     *)
(* save, when its row is over; a row comes into flight only by the insert  *)
(* of an id on which no slot works, so it is still over when the report is *)
(* written, and the report then changes nothing.                           *)
LEMMA EntersFlight ==
  ASSUME IInv, [Next]_vars, NEW i \in Ids, ~InFlight(i), InFlight(i)'
  PROVE  \E c \in Clients : /\ stage[c] \in Minting /\ reqId[c] = i
                            /\ stage'[c] = "enqueue" /\ reqId'[c] = i
<1> USE DEF IInv, TypeInv, TypeOK, InFlight, InFlightStatus
<1>1. ASSUME NEW c \in Clients, Insert(c) \/ Reinsert(c)
      PROVE  /\ stage[c] \in Minting /\ reqId[c] = i
             /\ stage'[c] = "enqueue" /\ reqId'[c] = i
  BY <1>1 DEF Insert, Reinsert, InsertRow, UniqueViolation, rowVars, Goto, Minting
<1>2. ASSUME NEW c \in Clients, CreateStep(c) \/ CancelStep(c) \/ ApiCrash(c), ~Insert(c), ~Reinsert(c)
      PROVE  FALSE
  <2>1. CASE Compensate(c) \/ CancelWrite(c)
    BY <2>1 DEF Compensate, DeleteRow, CancelWrite, rowVars, NoRow
  <2>2. CASE ~Compensate(c) /\ ~CancelWrite(c)
    BY <1>2, <2>2 DEF CreateStep, CreateHit, CreateMiss, Lookup, Recache, Rotate, Winner, CacheWinner, Enqueue,
       Publish, CancelStep, CancelRead, CancelRemove, ApiCrash, vars, rowVars
  <2>3. QED  BY <2>1, <2>2
<1>3. ASSUME NEW w \in Workers, RunStep(w) \/ Throw(w) \/ WorkerCrash(w) \/ LockLost(w)
      PROVE  FALSE
  <2>1. CASE Start(w) \/ OnFailed(w)
    BY <2>1 DEF Start, OnFailed, MarkStatus, WriteLost, rowVars
  <2>2. CASE SaveCommit(w)
    BY <2>2 DEF SaveCommit, CommitResult, RolledBack, rowVars
  <2>3. CASE ~Start(w) /\ ~OnFailed(w) /\ ~SaveCommit(w)
    BY <1>3, <2>3 DEF RunStep, Fetch, Metrics, Report, MirrorProgress, WriteLost, SaveRead, Finish, FailAttempt,
       Throw, WorkerCrash, LockLost, rowVars
  <2>4. QED  BY <2>1, <2>2, <2>3
<1>4. ~((\E k \in Ids : (\E w \in Workers : Take(w, k) \/ StallFail(w, k)) \/ StallRequeue(k))
        \/ Tick \/ UNCHANGED vars)
  BY DEF Take, StallFail, StallRequeue, Tick, vars, rowVars
<1>5. QED
  BY <1>1, <1>2, <1>3, <1>4 DEF Next

WorkIsOver == \A w \in Workers : wstage[w] \in {"report", "finish"} => ~InFlight(wjob[w])

LEMMA NextWorkIsOver ==
  ASSUME IInv, JobInv, WorkIsOver, [Next]_vars
  PROVE  WorkIsOver'
<1> USE DEF IInv, TypeInv, TypeOK
<1>1. ASSUME NEW w \in Workers, wstage[w] # "idle"
      PROVE  ~InFlight(wjob[w]) => ~InFlight(wjob[w])'
             \/ wjob'[w] # wjob[w]
  <2>1. wjob[w] \in Ids
    BY <1>1 DEF Locals
  <2>2. \A c \in Clients : stage[c] \in Minting => reqId[c] # wjob[w]
    BY <1>1 DEF JobInv, OwnIds, Unused, Drawn
  <2>3. ~InFlight(wjob[w]) => status'[wjob[w]] \notin InFlightStatus
    BY <2>1, <2>2, EntersFlight DEF InFlight
  <2>4. QED  BY <2>3 DEF InFlight
<1>2. ASSUME NEW w \in Workers, wstage'[w] \in {"report", "finish"}
      PROVE  ~InFlight(wjob[w])'
  <2>1. CASE SaveRead(w) \/ SaveCommit(w) \/ Report(w)
    <3>1. wjob'[w] = wjob[w] /\ wjob[w] \in Ids
      BY <2>1 DEF SaveRead, SaveCommit, AfterSave, Report, WGoto, Locals
    <3>2. CASE SaveRead(w)
      BY <1>2, <3>1, <3>2 DEF SaveRead, AfterSave, WGoto, rowVars, InFlight, InFlightStatus, Terminal, DoneStatus
    <3>3. CASE SaveCommit(w)
      BY <3>1, <3>3 DEF SaveCommit, CommitResult, RolledBack, rowVars, InFlight, InFlightStatus
    <3>4. CASE Report(w)
      BY <3>1, <3>4 DEF Report, MirrorProgress, WriteLost, rowVars, WorkIsOver, InFlight
    <3>5. QED  BY <2>1, <3>2, <3>3, <3>4
  <2>2. CASE ~(SaveRead(w) \/ SaveCommit(w) \/ Report(w))
    <3>1. wstage[w] = wstage'[w] /\ wjob'[w] = wjob[w]
      <4>1. CASE \E c \in Clients : CreateStep(c) \/ CancelStep(c) \/ ApiCrash(c)
        BY <4>1 DEF CreateStep, CreateHit, CreateMiss, Insert, Lookup, Recache, Rotate, Reinsert, Winner,
           CacheWinner, Enqueue, Compensate, Publish, CancelStep, CancelRead, CancelWrite, CancelRemove,
           ApiCrash, vars, workerVars
      <4>2. ASSUME NEW v \in Workers, v # w, RunStep(v) \/ Throw(v) \/ WorkerCrash(v) \/ LockLost(v)
            PROVE  wstage'[w] = wstage[w] /\ wjob'[w] = wjob[w]
        BY <4>2, SlotFrame
      <4>3. CASE RunStep(w) \/ Throw(w) \/ WorkerCrash(w) \/ LockLost(w)
        BY <1>2, <2>2, <4>3 DEF RunStep, Start, Fetch, Metrics, Finish, FailAttempt, OnFailed, Throw, WorkerCrash,
           LockLost, WGoto, WDone, workerVars
      <4>4. CASE (\E k \in Ids : (\E v \in Workers : Take(v, k) \/ StallFail(v, k)) \/ StallRequeue(k))
                 \/ Tick \/ UNCHANGED vars
        BY <1>2, <4>4 DEF Take, StallFail, StallRequeue, Tick, vars, workerVars
      <4>5. QED  BY <4>1, <4>2, <4>3, <4>4 DEF Next
    <3>2. wstage[w] # "idle" /\ ~InFlight(wjob[w])
      BY <1>2, <3>1 DEF WorkIsOver
    <3>3. QED  BY <1>1, <3>1, <3>2
  <2>3. QED  BY <2>1, <2>2
<1>3. QED  BY <1>2 DEF WorkIsOver

LEMMA NextProgress ==
  ASSUME IInv, WorkIsOver, ProgressHonest, [Next]_vars
  PROVE  ProgressHonest'
<1> USE DEF IInv, TypeInv, TypeOK, ProgressHonest, Exists, InFlight, InFlightStatus, NoRow
<1>1. ASSUME NEW c \in Clients, CreateStep(c) \/ CancelStep(c) \/ ApiCrash(c)
      PROVE  ProgressHonest'
  <2>1. CASE Insert(c) \/ Reinsert(c)
    BY <2>1 DEF Insert, Reinsert, InsertRow, UniqueViolation, rowVars
  <2>2. CASE Compensate(c) \/ CancelWrite(c)
    BY <2>2 DEF Compensate, DeleteRow, CancelWrite, rowVars
  <2>3. CASE ~Insert(c) /\ ~Reinsert(c) /\ ~Compensate(c) /\ ~CancelWrite(c)
    BY <1>1, <2>3 DEF CreateStep, CreateHit, CreateMiss, Lookup, Recache, Rotate, Winner, CacheWinner, Enqueue,
       Publish, CancelStep, CancelRead, CancelRemove, ApiCrash, vars, rowVars
  <2>4. QED  BY <2>1, <2>2, <2>3
<1>2. ASSUME NEW w \in Workers, RunStep(w) \/ Throw(w) \/ WorkerCrash(w) \/ LockLost(w)
      PROVE  ProgressHonest'
  <2>1. CASE Start(w) \/ OnFailed(w)
    BY <2>1 DEF Start, OnFailed, MarkStatus, RunningStatus, WriteLost, rowVars
  <2>2. CASE SaveCommit(w)
    BY <2>2 DEF SaveCommit, CommitResult, RolledBack, rowVars
  <2>3. CASE Fetch(w) \/ Metrics(w)
    BY <2>3 DEF Fetch, Metrics, MirrorProgress, WriteLost, rowVars
  <2>4. CASE Report(w)
    BY <2>4 DEF Report, MirrorProgress, WriteLost, WorkIsOver, rowVars
  <2>5. CASE ~Start(w) /\ ~OnFailed(w) /\ ~SaveCommit(w) /\ ~Fetch(w) /\ ~Metrics(w) /\ ~Report(w)
    BY <1>2, <2>5 DEF RunStep, SaveRead, Finish, FailAttempt, Throw, WorkerCrash, LockLost, rowVars
  <2>6. QED  BY <2>1, <2>2, <2>3, <2>4, <2>5
<1>3. CASE (\E i \in Ids : (\E w \in Workers : Take(w, i) \/ StallFail(w, i)) \/ StallRequeue(i))
           \/ Tick \/ UNCHANGED vars
  BY <1>3 DEF Take, StallFail, StallRequeue, Tick, vars, rowVars
<1>4. QED  BY <1>1, <1>2, <1>3 DEF Next

LEMMA WorkInvariance == Spec => [](IInv /\ JobInv /\ WorkIsOver /\ ProgressHonest)
<1>1. Init => WorkIsOver /\ ProgressHonest
  BY DEF Init, WorkIsOver, ProgressHonest, Exists, NoRow
<1>2. IInv /\ JobInv /\ WorkIsOver /\ ProgressHonest /\ [Next]_vars => WorkIsOver' /\ ProgressHonest'
  BY NextWorkIsOver, NextProgress
<1>3. QED  BY <1>1, <1>2, JobInvariance, PTL DEF Spec

(* A row shows full progress exactly when it is completed, whichever of    *)
(* two slots with the same job, or a late report of either, wrote last.    *)
THEOREM ProgressIsHonest == Spec => []ProgressHonest
BY WorkInvariance, PTL

-----------------------------------------------------------------------------
(* Why a row in flight has an owner.  Its job leaves the queue by the hand *)
(* of a cancel that has closed the row, of a slot that has saved, or of a  *)
(* failure whose handler then closes the row; a request that could not     *)
(* queue the job takes the row back.                                       *)
CancelsAim ==
  \A c \in Clients : stage[c] \in CancelStage =>
    /\ reqId[c] \in minted
    /\ \A d \in Clients : stage[d] \in Minting => reqId[d] # reqId[c]
    /\ stage[c] = "cancelRemove" => ~InFlight(reqId[c])

LEMMA NextCancelsAim ==
  ASSUME IInv, CancelsAim, [Next]_vars
  PROVE  CancelsAim'
<1> USE DEF IInv, TypeInv, TypeOK
<1>1. \A c \in Clients : stage[c] \in CancelStage => reqId[c] \in Ids
  BY DEF Locals
<1>2. minted \subseteq minted'
  BY DEF Next, CreateStep, CreateHit, CreateMiss, Insert, Lookup, Recache, Rotate, Reinsert, Winner, CacheWinner,
     Enqueue, Compensate, Publish, CancelStep, CancelRead, CancelWrite, CancelRemove, ApiCrash, RunStep, Start,
     Fetch, Metrics, SaveRead, SaveCommit, Report, Finish, FailAttempt, OnFailed, Throw, WorkerCrash, LockLost,
     Take, StallFail, StallRequeue, Tick, vars
<1>3. \A i \in Ids : i \in minted /\ (\A d \in Clients : stage[d] \in Minting => reqId[d] # i)
        => /\ \A d \in Clients : stage'[d] \in Minting => reqId'[d] # i
           /\ ~InFlight(i) => ~InFlight(i)'
  <2> SUFFICES ASSUME NEW i \in Ids, i \in minted,
                      \A d \in Clients : stage[d] \in Minting => reqId[d] # i
               PROVE  /\ \A d \in Clients : stage'[d] \in Minting => reqId'[d] # i
                      /\ ~InFlight(i) => ~InFlight(i)'
    OBVIOUS
  <2>1. ~InFlight(i) => ~InFlight(i)'
    BY EntersFlight
  <2>2. \A d \in Clients : stage'[d] \in Minting =>
          (stage[d] \in Minting /\ reqId'[d] = reqId[d]) \/ reqId'[d] \notin minted
    <3>1. ASSUME NEW c \in Clients, CreateStep(c) \/ CancelStep(c) \/ ApiCrash(c), NEW d \in Clients,
                 stage'[d] \in Minting
          PROVE  (stage[d] \in Minting /\ reqId'[d] = reqId[d]) \/ reqId'[d] \notin minted
      BY <3>1 DEF CreateStep, CreateHit, CreateMiss, Insert, InsertRow, UniqueViolation, Lookup, Recache, Rotate,
         Reinsert, Winner, CacheWinner, Enqueue, Compensate, Publish, CancelStep, CancelRead, CancelWrite,
         CancelRemove, ApiCrash, Goto, GotoWithOld, Done, vars, reqVars, Minting
    <3>2. CASE \/ \E w \in Workers : RunStep(w) \/ Throw(w) \/ WorkerCrash(w) \/ LockLost(w)
               \/ \E w \in Workers, k \in Ids : Take(w, k) \/ StallFail(w, k)
               \/ (\E k \in Ids : StallRequeue(k)) \/ Tick \/ UNCHANGED vars
      BY <3>2, SlotFrame DEF Take, StallFail, StallRequeue, Tick, vars, reqVars
    <3>3. QED  BY <3>1, <3>2 DEF Next
  <2>3. QED  BY <2>1, <2>2
<1>4. ASSUME NEW c \in Clients, stage'[c] \in CancelStage
      PROVE  /\ reqId'[c] \in Ids /\ reqId'[c] \in minted
             /\ \A d \in Clients : stage[d] \in Minting => reqId[d] # reqId'[c]
             /\ stage'[c] = "cancelRemove" =>
                  status[reqId'[c]] \notin InFlightStatus \/ status'[reqId'[c]] \notin InFlightStatus
  <2>1. CASE \E i \in Ids : CancelRead(c, i)
    <3> PICK i \in Ids : CancelRead(c, i)
      BY <2>1
    <3>1. stage'[c] = "cancelWrite" /\ reqId'[c] = i /\ Exists(i)
      BY <1>4 DEF CancelRead, reqVars, CancelStage
    <3>2. QED  BY <3>1 DEF FreshIds, Exists
  <2>2. CASE CancelWrite(c)
    <3>1. /\ reqId'[c] = reqId[c] /\ reqId[c] \in Ids /\ stage[c] \in CancelStage
          /\ status'[reqId[c]] = "canceled"
      BY <1>1, <1>4, <2>2 DEF CancelWrite, Goto, Done, CancelStage
    <3>2. QED  BY <3>1 DEF CancelsAim, InFlightStatus
  <2>3. CASE stage'[c] = stage[c] /\ reqId'[c] = reqId[c]
    BY <1>1, <1>4, <2>3 DEF CancelsAim, InFlight
  <2>4. \/ \E i \in Ids : CancelRead(c, i)
        \/ CancelWrite(c)
        \/ stage'[c] = stage[c] /\ reqId'[c] = reqId[c]
    <3>1. ASSUME NEW d \in Clients, CreateStep(d) \/ CancelStep(d) \/ ApiCrash(d), d # c
          PROVE  stage'[c] = stage[c] /\ reqId'[c] = reqId[c]
      BY <3>1 DEF CreateStep, CreateHit, CreateMiss, Insert, InsertRow, UniqueViolation, Lookup, Recache, Rotate,
         Reinsert, Winner, CacheWinner, Enqueue, Compensate, Publish, CancelStep, CancelRead, CancelWrite,
         CancelRemove, ApiCrash, Goto, GotoWithOld, Done, vars, reqVars
    <3>2. CASE CreateStep(c) \/ CancelRemove(c) \/ ApiCrash(c)
      BY <1>4, <3>2 DEF CreateStep, CreateHit, CreateMiss, Insert, InsertRow, UniqueViolation, Lookup, Recache,
         Rotate, Reinsert, Winner, CacheWinner, Enqueue, Compensate, Publish, CancelRemove, ApiCrash, Goto,
         GotoWithOld, Done, vars, reqVars, CancelStage
    <3>3. CASE \/ \E w \in Workers : RunStep(w) \/ Throw(w) \/ WorkerCrash(w) \/ LockLost(w)
               \/ \E w \in Workers, k \in Ids : Take(w, k) \/ StallFail(w, k)
               \/ (\E k \in Ids : StallRequeue(k)) \/ Tick \/ UNCHANGED vars
      BY <3>3, SlotFrame DEF Take, StallFail, StallRequeue, Tick, vars, reqVars
    <3>4. QED  BY <3>1, <3>2, <3>3 DEF Next, CancelStep
  <2>5. QED  BY <2>1, <2>2, <2>3, <2>4
<1>5. QED
  <2>1. ASSUME NEW c \in Clients, stage'[c] \in CancelStage
        PROVE  /\ reqId'[c] \in minted'
               /\ \A d \in Clients : stage'[d] \in Minting => reqId'[d] # reqId'[c]
               /\ stage'[c] = "cancelRemove" => status'[reqId'[c]] \notin InFlightStatus
    BY <1>2, <1>3, <1>4, <2>1 DEF InFlight
  <2>2. QED  BY <2>1 DEF CancelsAim, InFlight

Owned(i) ==
  \/ Runnable(i)
  \/ \E c \in Clients : reqId[c] = i /\ stage[c] \in {"enqueue", "compensate"}
  \/ \E w \in Workers : wjob[w] = i /\ wstage[w] = "onFailed"

OwnerFaults == {"addFails", "addReplyLost", "workerCrash", "lockLost"}

\* A request that owns a row queues its job or takes the row back.
LEMMA RequestOwner ==
  ASSUME IInv, JobInv, CancelsAim, Faults \subseteq OwnerFaults, NEW c \in Clients,
         CreateStep(c) \/ CancelStep(c) \/ ApiCrash(c),
         NEW i \in Ids, InFlight(i), InFlight(i)', Owned(i)
  PROVE  Owned(i)'
<1> USE DEF IInv, TypeInv, TypeOK, QueueTypeOK, OwnerFaults
<1>1. UNCHANGED workerVars /\ \A d \in Clients \ {c} : stage'[d] = stage[d] /\ reqId'[d] = reqId[d]
  BY DEF CreateStep, CreateHit, CreateMiss, Insert, InsertRow, UniqueViolation, Lookup, Recache, Rotate,
     Reinsert, Winner, CacheWinner, Enqueue, Compensate, Publish, CancelStep, CancelRead, CancelWrite,
     CancelRemove, ApiCrash, Goto, GotoWithOld, Done, vars, reqVars
<1>2. CASE Enqueue(c)
  <2>1. reqId[c] \in Ids /\ job[reqId[c]] = "absent"
    BY <1>2 DEF Enqueue, Locals, CreateStage, JobInv, OwnIds, Unused, Drawn
  <2>2. /\ \A k \in Ids : Runnable(k) => Runnable(k)'
        /\ job'[reqId[c]] = "wait" \/ (stage'[c] = "compensate" /\ reqId'[c] = reqId[c])
    BY <1>2, <2>1 DEF Enqueue, AddJob, Goto, Runnable, queueVars
  <2>3. CASE i = reqId[c]
    BY <2>1, <2>2, <2>3 DEF Owned, Runnable
  <2>4. CASE i # reqId[c]
    BY <1>1, <2>2, <2>4 DEF Owned, workerVars
  <2>5. QED  BY <2>3, <2>4
<1>3. CASE Compensate(c)
  <2>1. /\ UNCHANGED job /\ reqId[c] \in Ids /\ status'[reqId[c]] = NoRow
    BY <1>3 DEF Compensate, DeleteRow, Locals, CreateStage, queueVars
  <2>2. i # reqId[c]
    BY <2>1 DEF InFlight, InFlightStatus, NoRow
  <2>3. QED  BY <1>1, <2>1, <2>2 DEF Owned, Runnable, workerVars
<1>4. CASE CancelRemove(c)
  <2>1. /\ stage[c] = "cancelRemove" /\ reqId[c] # i /\ \A k \in Ids : k # reqId[c] => job'[k] = job[k]
    BY <1>4 DEF CancelRemove, RemoveJob, RemoveRefused, queueVars, CancelsAim, CancelStage
  <2>2. QED  BY <1>1, <2>1 DEF Owned, Runnable, workerVars
<1>5. CASE ~Enqueue(c) /\ ~Compensate(c) /\ ~CancelRemove(c)
  <2>1. UNCHANGED job /\ stage[c] \notin {"enqueue", "compensate"}
    BY <1>5 DEF CreateStep, CreateHit, CreateMiss, Insert, Lookup, Recache, Rotate, Reinsert, Winner, CacheWinner,
       Publish, CancelStep, CancelRead, CancelWrite, ApiCrash, vars, queueVars
  <2>2. QED  BY <1>1, <2>1 DEF Owned, Runnable, workerVars
<1>6. QED  BY <1>2, <1>3, <1>4, <1>5

\* A slot gives a job back, has ended the row, or goes on to close it.
LEMMA SlotOwner ==
  ASSUME IInv, WorkIsOver, Faults \subseteq OwnerFaults, NEW w \in Workers,
         RunStep(w) \/ Throw(w) \/ WorkerCrash(w) \/ LockLost(w),
         NEW i \in Ids, InFlight(i), InFlight(i)', Owned(i)
  PROVE  Owned(i)'
<1> USE DEF IInv, TypeInv, TypeOK, QueueTypeOK, OwnerFaults
<1>1. /\ UNCHANGED <<stage, reqId>> /\ wjob[w] \in Ids /\ wstage[w] # "idle"
      /\ \A v \in Workers \ {w} : wstage'[v] = wstage[v] /\ wjob'[v] = wjob[v]
  BY SlotFrame
<1>2. CASE Finish(w)
  <2>1. wjob[w] # i /\ wstage[w] = "finish" /\ \A k \in Ids \ {wjob[w]} : job'[k] = job[k]
    BY <1>2 DEF Finish, CompleteJob, Release, queueVars, WorkIsOver
  <2>2. QED  BY <1>1, <2>1 DEF Owned, Runnable
<1>3. CASE FailAttempt(w)
  <2>1. /\ \A k \in Ids \ {wjob[w]} : job'[k] = job[k]
        /\ \/ UNCHANGED job
           \/ job'[wjob[w]] = "wait"
           \/ wstage'[w] = "onFailed" /\ wjob'[w] = wjob[w]
        /\ wstage[w] # "onFailed"
    BY <1>1, <1>3 DEF FailAttempt, FailJob, Release, FinalAttempt, WGoto, queueVars
  <2>2. QED  BY <1>1, <2>1 DEF Owned, Runnable
<1>4. CASE OnFailed(w)
  <2>1. UNCHANGED job /\ status'[wjob[w]] \notin InFlightStatus
    BY <1>1, <1>4 DEF OnFailed, MarkStatus, WriteLost, queueVars, InFlight, InFlightStatus
  <2>2. wjob[w] # i
    BY <2>1 DEF InFlight
  <2>3. QED  BY <1>1, <2>1, <2>2 DEF Owned, Runnable
<1>5. CASE ~Finish(w) /\ ~FailAttempt(w) /\ ~OnFailed(w)
  <2>1. UNCHANGED job /\ wstage[w] # "onFailed"
    BY <1>5 DEF RunStep, Start, Fetch, Metrics, SaveRead, SaveCommit, Report, Throw, WorkerCrash, LoseLocksOf,
       LockLost, LoseLock, queueVars, WorkStage
  <2>2. QED  BY <1>1, <2>1 DEF Owned, Runnable
<1>6. QED  BY <1>2, <1>3, <1>4, <1>5

LEMMA QueueOwner ==
  ASSUME IInv, NEW i \in Ids, Owned(i),
         \/ \E k \in Ids : (\E w \in Workers : Take(w, k) \/ StallFail(w, k)) \/ StallRequeue(k)
         \/ Tick
         \/ UNCHANGED vars
  PROVE  Owned(i)'
<1> USE DEF IInv, TypeInv, TypeOK, QueueTypeOK
<1>1. UNCHANGED reqVars
  BY DEF Take, StallFail, StallRequeue, Tick, vars
<1>2. ASSUME NEW k \in Ids, NEW w \in Workers, Take(w, k) \/ StallFail(w, k)
      PROVE  Owned(i)'
  <2>1. /\ \A l \in Ids \ {k} : job'[l] = job[l]
        /\ \A v \in Workers \ {w} : wstage'[v] = wstage[v] /\ wjob'[v] = wjob[v]
        /\ job'[k] = "active" \/ (wstage'[w] = "onFailed" /\ wjob'[w] = k)
        /\ wstage[w] = "idle"
    BY <1>2 DEF Take, TakeJob, StallFail, FailStalled
  <2>2. QED  BY <1>1, <2>1 DEF Owned, Runnable, reqVars
<1>3. ASSUME NEW k \in Ids, StallRequeue(k)
      PROVE  Owned(i)'
  BY <1>1, <1>3 DEF StallRequeue, RequeueStalled, Owned, Runnable, reqVars, workerVars
<1>4. CASE Tick \/ UNCHANGED vars
  BY <1>4 DEF Tick, vars, queueVars, reqVars, workerVars, Owned, Runnable
<1>5. QED  BY <1>2, <1>3, <1>4

(* A row in flight is somebody's business: whatever requests, retries,     *)
(* stalls, crashes of workers and lost locks do to it, a client that polls *)
(* it does not wait for nobody - provided the API process does not die     *)
(* between insert and add, the delete of a compensation goes through, and  *)
(* no "failed" event nor its one write is lost.  Each of the three leaves  *)
(* a row behind.                                                           *)
THEOREM RowsInFlightAreOwned ==
  ASSUME Faults \subseteq OwnerFaults
  PROVE  Spec => []InFlightHasOwner
<1> DEFINE Own == IInv /\ JobInv /\ WorkIsOver /\ CancelsAim /\ InFlightHasOwner
<1>1. Init => CancelsAim /\ InFlightHasOwner /\ WorkIsOver
  BY DEF Init, CancelsAim, InFlightHasOwner, InFlight, InFlightStatus, NoRow, CancelStage, WorkIsOver
<1>2. Own /\ [Next]_vars => Own'
  <2> SUFFICES ASSUME Own, [Next]_vars
               PROVE  InFlightHasOwner'
    BY NextIInv, NextJobInv, NextWorkIsOver, NextCancelsAim
  <2>1. ASSUME NEW i \in Ids, InFlight(i)'
        PROVE  Owned(i)'
    <3>1. CASE ~InFlight(i)
      BY <2>1, <3>1, EntersFlight DEF Owned
    <3>2. CASE InFlight(i)
      <4>1. Owned(i)
        BY <3>2 DEF InFlightHasOwner, Owned
      <4>2. QED  BY <2>1, <3>2, <4>1, RequestOwner, SlotOwner, QueueOwner DEF Next
    <3>3. QED  BY <3>1, <3>2
  <2>2. QED  BY <2>1 DEF InFlightHasOwner, Owned
<1>3. QED  BY <1>1, <1>2, InitIInv, InitJobInv, PTL DEF Spec

-----------------------------------------------------------------------------
(* Why the fast path is fresh.  An entry never outlives the window of the  *)
(* row it names.  A request that caches for a whole window holds a row of  *)
(* this very instant: its own, or the one another request has put in the   *)
(* place of the expired row - since requests are prompt, every row that    *)
(* took the key since is of this instant too.                              *)
EntriesExpire ==
  \A h \in Hash : CacheHit(h) => now < cacheExp[h] /\ cacheExp[h] <= born[cachedId[h]] + IdempTtl

BornInThePast == \A i \in Ids : born[i] <= now

BornNow ==
  \A c \in Clients :
    /\ stage[c] \in {"enqueue", "publish"} => born[reqId[c]] = now
    /\ stage[c] = "rotate" => \A i \in Holders(reqHash[c]) : i = reqOld[c] \/ born[i] = now
    /\ stage[c] \in {"reinsert", "winner"} => \A i \in Holders(reqHash[c]) : born[i] = now
    /\ stage[c] = "rewin" => born[reqOld[c]] = now

FreshInv == EntriesExpire /\ BornInThePast /\ BornNow

LEMMA InitFreshInv == Init => FreshInv
  BY DEF Init, FreshInv, EntriesExpire, BornInThePast, BornNow, CacheHit

\* Rows, cache and clock stay; a client that moves brings its own case of BornNow.
LEMMA InsertFresh ==
  ASSUME IInv, FreshInv, NEW c \in Clients, stage[c] \in {"insert", "reinsert"}, InsertRow(c),
         UNCHANGED <<cacheVars, now>>
  PROVE  FreshInv'
<1> USE ConstantsAssumption DEF IInv, TypeInv, TypeOK
<1>1. /\ reqId[c] \in Ids
      /\ key' = [key EXCEPT ![reqId[c]] = reqHash[c]]
      /\ born' = [born EXCEPT ![reqId[c]] = now]
      /\ stage' = [stage EXCEPT ![c] = "enqueue"]
      /\ UNCHANGED <<reqId, reqOld, reqHash, cachedId, cacheExp, now>>
  BY MintingIds DEF InsertRow, Goto, Minting, cacheVars
<1>2. BornInThePast'
  BY <1>1 DEF FreshInv, BornInThePast
<1>3. EntriesExpire'
  BY <1>1 DEF FreshInv, EntriesExpire, BornInThePast, CacheHit
<1>4. BornNow'
  BY <1>1 DEF FreshInv, BornNow, Holders, Locals, CreateStage
<1>5. QED  BY <1>2, <1>3, <1>4 DEF FreshInv

\* A request that only moves: no row and no entry changes.
LEMMA MoveFresh ==
  ASSUME IInv, FreshInv, NEW c \in Clients, UNCHANGED <<key, born, cacheVars, now, reqHash>>,
         \A d \in Clients \ {c} : stage'[d] = stage[d] /\ reqId'[d] = reqId[d] /\ reqOld'[d] = reqOld[d],
         stage'[c] \in {"enqueue", "publish"} => born[reqId'[c]] = now,
         stage'[c] = "rotate" => \A i \in Holders(reqHash[c]) : i = reqOld'[c] \/ born[i] = now,
         stage'[c] \in {"reinsert", "winner"} => \A i \in Holders(reqHash[c]) : born[i] = now,
         stage'[c] = "rewin" => born[reqOld'[c]] = now
  PROVE  FreshInv'
BY DEF IInv, TypeInv, TypeOK, FreshInv, EntriesExpire, BornInThePast, BornNow, CacheHit, Holders, cacheVars

LEMMA CacheFresh ==
  ASSUME IInv, FreshInv, NEW c \in Clients, Recache(c) \/ CacheWinner(c) \/ Publish(c)
  PROVE  FreshInv'
<1> USE ConstantsAssumption DEF IInv, TypeInv, TypeOK
<1>1. /\ UNCHANGED <<key, born, now>> /\ stage'[c] = "idle"
      /\ \A d \in Clients \ {c} : stage'[d] = stage[d] /\ reqId'[d] = reqId[d] /\ reqOld'[d] = reqOld[d]
                                  /\ reqHash'[d] = reqHash[d]
  BY DEF Recache, CacheWinner, Publish, Done, rowVars
<1>2. BornInThePast' /\ BornNow'
  BY <1>1 DEF FreshInv, BornInThePast, BornNow, Holders
<1>3. ASSUME NEW h \in Hash, NEW i \in Ids \cup {NoId}, NEW e \in Nat, SetCache(h, i, e),
             i # NoId => now < e /\ e <= born[i] + IdempTtl
      PROVE  EntriesExpire'
  BY <1>1, <1>3 DEF SetCache, FreshInv, EntriesExpire, CacheHit
<1>4. reqHash[c] \in Hash
  BY DEF Recache, CacheWinner, Publish, Locals, CreateStage
<1>5. EntriesExpire'
  <2>1. CASE Recache(c)
    <3>1. reqOld[c] \in Ids /\ born[reqOld[c]] + IdempTtl \in Nat
      BY <2>1 DEF Recache, Locals
    <3>2. CASE ExpiryOfWindow(reqOld[c]) > now
      BY <1>3, <1>4, <2>1, <3>1, <3>2 DEF Recache, ExpiryOfWindow
    <3>3. CASE ~(ExpiryOfWindow(reqOld[c]) > now)
      BY <1>1, <2>1, <3>3 DEF Recache, FreshInv, EntriesExpire, CacheHit, cacheVars
    <3>4. QED  BY <3>2, <3>3
  <2>2. CASE CacheWinner(c)
    <3>1. reqOld[c] \in Ids /\ born[reqOld[c]] = now /\ now + IdempTtl \in Nat
      BY <2>2 DEF CacheWinner, Locals, FreshInv, BornNow
    <3>2. QED  BY <1>3, <1>4, <2>2, <3>1 DEF CacheWinner
  <2>3. CASE Publish(c)
    <3>1. reqId[c] \in Ids /\ born[reqId[c]] = now /\ now + IdempTtl \in Nat
      BY <2>3 DEF Publish, Locals, CreateStage, FreshInv, BornNow
    <3>2. QED  BY <1>3, <1>4, <2>3, <3>1 DEF Publish
  <2>4. QED  BY <2>1, <2>2, <2>3
<1>6. QED  BY <1>2, <1>5 DEF FreshInv

LEMMA RotateFresh ==
  ASSUME IInv, FreshInv, NEW c \in Clients, Rotate(c)
  PROVE  FreshInv'
<1> USE ConstantsAssumption DEF IInv, TypeInv, TypeOK
<1>1. /\ stage[c] = "rotate" /\ reqHash[c] \in Hash /\ reqHash[c] # Rotated /\ reqOld[c] \in Ids
      /\ UNCHANGED <<born, now, cachedId, cacheExp>>
      /\ \A d \in Clients \ {c} : stage'[d] = stage[d] /\ reqId'[d] = reqId[d] /\ reqOld'[d] = reqOld[d]
                                  /\ reqHash'[d] = reqHash[d]
      /\ \/ stage'[c] = "idle" /\ UNCHANGED key
         \/ stage'[c] = "reinsert" /\ key' = [key EXCEPT ![reqOld[c]] = Rotated] /\ UNCHANGED reqHash
  BY DEF Rotate, Done, Goto, Locals, CreateStage, cacheVars
<1>2. EntriesExpire' /\ BornInThePast'
  BY <1>1 DEF FreshInv, EntriesExpire, BornInThePast, CacheHit
<1>3. \A h \in Hash, i \in Ids : key'[i] = h => key[i] = h
  BY <1>1
<1>4. \A d \in Clients \ {c} :
        stage[d] \in {"rotate", "reinsert", "winner"} => reqHash[d] \in Hash
  BY DEF Locals, CreateStage
<1>5. \A i \in Ids : stage'[c] = "reinsert" /\ key'[i] = reqHash'[c] => born[i] = now
  BY <1>1 DEF FreshInv, BornNow, Holders
<1>6. BornNow'
  BY <1>1, <1>3, <1>4, <1>5 DEF FreshInv, BornNow, Holders
<1>7. QED  BY <1>2, <1>6 DEF FreshInv

LEMMA DeleteFresh ==
  ASSUME IInv, FreshInv, NEW c \in Clients, Compensate(c)
  PROVE  FreshInv'
<1> USE ConstantsAssumption DEF IInv, TypeInv, TypeOK
<1>1. /\ UNCHANGED <<born, now, cachedId, cacheExp>> /\ stage'[c] = "idle"
      /\ \A d \in Clients \ {c} : stage'[d] = stage[d] /\ reqId'[d] = reqId[d] /\ reqOld'[d] = reqOld[d]
                                  /\ reqHash'[d] = reqHash[d]
      /\ \A h \in Hash, i \in Ids : key'[i] = h => key[i] = h
  BY DEF Compensate, DeleteRow, Done, Locals, rowVars, cacheVars
<1>2. \A d \in Clients : stage[d] \in {"rotate", "reinsert", "winner"} => reqHash[d] \in Hash
  BY DEF Locals, CreateStage
<1>3. QED
  BY <1>1, <1>2 DEF FreshInv, EntriesExpire, BornInThePast, CacheHit, BornNow, Holders

LEMMA RequestFresh ==
  ASSUME IInv, FreshInv, NEW c \in Clients, CreateStep(c) \/ CancelStep(c) \/ ApiCrash(c)
  PROVE  FreshInv'
<1> USE ConstantsAssumption DEF IInv, TypeInv, TypeOK
<1>1. CASE Insert(c) \/ Reinsert(c)
  <2>1. CASE InsertRow(c)
    BY <1>1, <2>1, InsertFresh DEF Insert, Reinsert
  <2>2. CASE Insert(c) /\ UniqueViolation(c, "lookup")
    BY <2>2, MoveFresh DEF Insert, UniqueViolation, Goto, rowVars
  <2>3. CASE Reinsert(c) /\ UniqueViolation(c, "winner")
    BY <2>3, MoveFresh DEF Reinsert, UniqueViolation, Goto, rowVars, FreshInv, BornNow
  <2>4. QED  BY <1>1, <2>1, <2>2, <2>3 DEF Insert, Reinsert
<1>2. CASE Lookup(c)
  <2>1. CASE Done(c)
    BY <1>2, <2>1 DEF Lookup, Done, rowVars, cacheVars, FreshInv, EntriesExpire, BornInThePast, CacheHit, BornNow, Holders
  <2>2. CASE \E i \in Holders(reqHash[c]) : GotoWithOld(c, "recache", i)
    BY <1>2, <2>2, MoveFresh DEF Lookup, GotoWithOld, rowVars
  <2>3. ASSUME NEW i \in Holders(reqHash[c]), GotoWithOld(c, "rotate", i)
        PROVE  FreshInv'
    <3>1. reqHash[c] # Rotated
      BY <1>2 DEF Lookup, Locals, CreateStage
    <3>2. \A j \in Holders(reqHash[c]) : j = i
      BY <3>1 DEF UniqueKeys, Holders
    <3>3. QED  BY <1>2, <2>3, <3>2, MoveFresh DEF Lookup, GotoWithOld, rowVars
  <2>4. QED  BY <1>2, <2>1, <2>2, <2>3 DEF Lookup
<1>3. CASE Winner(c)
  <2>1. CASE Done(c)
    BY <1>3, <2>1 DEF Winner, Done, rowVars, cacheVars, FreshInv, EntriesExpire, BornInThePast, CacheHit, BornNow, Holders
  <2>2. CASE \E i \in Holders(reqHash[c]) : GotoWithOld(c, "rewin", i)
    BY <1>3, <2>2, MoveFresh DEF Winner, GotoWithOld, rowVars, FreshInv, BornNow
  <2>3. QED  BY <1>3, <2>1, <2>2 DEF Winner
<1>4. CASE Enqueue(c)
  BY <1>4, MoveFresh DEF Enqueue, Goto, rowVars, FreshInv, BornNow
<1>5. CASE (\E h \in Hash, i \in Ids : CreateMiss(c, h, i)) \/ (\E h \in Hash : CreateHit(c, h)) \/ CancelStep(c) \/ ApiCrash(c)
  <2>1. /\ UNCHANGED <<key, born, cachedId, cacheExp, now>>
        /\ \A d \in Clients \ {c} : stage'[d] = stage[d] /\ reqId'[d] = reqId[d] /\ reqOld'[d] = reqOld[d]
                                    /\ reqHash'[d] = reqHash[d]
        /\ \/ stage'[c] \in {"idle", "insert"} \cup CancelStage
           \/ stage'[c] = stage[c] /\ reqId'[c] = reqId[c] /\ reqOld'[c] = reqOld[c] /\ reqHash'[c] = reqHash[c]
    BY <1>5 DEF CreateMiss, CreateHit, CancelStep, CancelRead, CancelWrite, CancelRemove, ApiCrash, Goto, Done, vars,
       rowVars, cacheVars, reqVars, CancelStage
  <2>2. QED
    BY <2>1 DEF FreshInv, EntriesExpire, BornInThePast, CacheHit, BornNow, Holders, CancelStage
<1>6. QED
  BY <1>1, <1>2, <1>3, <1>4, <1>5, CacheFresh, RotateFresh, DeleteFresh DEF CreateStep

LEMMA NextFresh ==
  ASSUME PromptRequests, IInv, FreshInv, [Next]_vars
  PROVE  FreshInv'
<1> USE ConstantsAssumption DEF IInv, TypeInv, TypeOK
<1>1. CASE \/ \E w \in Workers : RunStep(w) \/ Throw(w) \/ WorkerCrash(w) \/ LockLost(w)
           \/ \E w \in Workers, i \in Ids : Take(w, i) \/ StallFail(w, i)
           \/ (\E i \in Ids : StallRequeue(i)) \/ UNCHANGED vars
  <2>1. UNCHANGED <<key, born, cacheVars, reqVars, now>>
    BY <1>1 DEF RunStep, Start, Fetch, Metrics, SaveRead, SaveCommit, Report, Finish, FailAttempt, OnFailed, Throw,
       WorkerCrash, LockLost, MarkStatus, MirrorProgress, WriteLost, CommitResult, RolledBack, Take, StallFail,
       StallRequeue, vars, rowVars
  <2>2. QED
    BY <2>1 DEF FreshInv, EntriesExpire, BornInThePast, CacheHit, BornNow, Holders, cacheVars, reqVars
<1>2. CASE Tick
  <2>1. /\ now' = now + 1 /\ UNCHANGED <<born, stage>>
        /\ \A c \in Clients : stage[c] \notin CreateStage
    BY <1>2 DEF Tick, rowVars, reqVars
  <2>2. BornInThePast'
    BY <2>1 DEF FreshInv, BornInThePast
  <2>3. BornNow'
    BY <2>1 DEF BornNow, CreateStage
  <2>4. EntriesExpire'
    BY <1>2, <2>1 DEF Tick, FreshInv, EntriesExpire, CacheHit
  <2>5. QED  BY <2>2, <2>3, <2>4 DEF FreshInv
<1>3. QED  BY <1>1, <1>2, RequestFresh DEF Next

(* The fast path never answers with a row that the database path would     *)
(* find expired: of all the writes of an entry - publish, re-cache of a    *)
(* coalesced request, adoption of the winner of a rotation - none outlives *)
(* the window of its row.  The clock is taken to stand still during a      *)
(* request: a window is a day, a request some milliseconds.                *)
THEOREM FastPathIsFresh ==
  ASSUME PromptRequests
  PROVE  Spec => []FastPathFresh
<1>1. IInv /\ FreshInv => FastPathFresh
  BY ConstantsAssumption DEF IInv, TypeInv, TypeOK, FreshInv, EntriesExpire, FastPathFresh, CacheHit, WithinWindow
<1>2. IInv /\ FreshInv /\ [Next]_vars => FreshInv'
  BY NextFresh
<1>3. QED  BY <1>1, <1>2, InitFreshInv, Invariance, PTL DEF Spec
=============================================================================
