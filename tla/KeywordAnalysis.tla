--------------------------- MODULE KeywordAnalysis ---------------------------
(***************************************************************************)
(* The keyword-analysis job: the HTTP handlers that create and cancel an   *)
(* analysis, the BullMQ queue that carries it, the workers that run it and *)
(* the database row, idempotency cache entry and result snapshot they all  *)
(* write.  A handler is cut into one step per awaited call, because any    *)
(* other handler or worker of any instance may run in between.             *)
(***************************************************************************)
EXTENDS JobQueue

CONSTANTS
  Clients,        \* HTTP requests that may be in progress at the same time
  Hash,           \* idempotency keys: owner, normalized seeds and params
  Rotated,        \* any "<hash>#expired#<id>" key; also the key of no row
  NoId,           \* "no analysis"
  IdempTtl,       \* IDEMP_TTL_MS, in ticks of the clock
  MaxTime,        \* bound on the clock
  PromptRequests, \* TRUE: no tick passes while a create request is under way
  Faults          \* which of AllFaults the environment may show

AllFaults ==
  { "addFails",      \* queue.add is refused
    "addReplyLost",  \* queue.add takes effect but the caller sees an error
    "apiCrash",      \* the API process dies, or a step of the handler throws
    "workerCrash",   \* a worker process dies in the middle of a job
    "lockLost",      \* a worker goes on with a job whose lock has expired
    "eventLost",     \* a worker dies between moveToFailed and its handler
    "writeFails" }   \* a best-effort status write or the compensating delete fails

ASSUME ConstantsAssumption ==
  /\ Rotated \notin Hash
  /\ NoId \notin Ids
  /\ IdempTtl \in Nat /\ MaxTime \in Nat
  /\ PromptRequests \in BOOLEAN
  /\ Faults \subseteq AllFaults

VARIABLES
  status, input, key, born, progress, attached,  \* table keyword_analyses
  snaps,                             \* result_snapshots rows per analysis
  minted,                            \* uuids drawn so far
  cachedId, cacheExp,                \* Redis idemp:{hash} and its expiry
  stage, reqHash, reqId, reqOld,     \* one HTTP request
  wstage, wjob, wpartial,            \* one worker slot
  now

rowVars    == <<status, input, key, born, progress, attached, snaps>>
cacheVars  == <<cachedId, cacheExp>>
reqVars    == <<stage, reqHash, reqId, reqOld>>
workerVars == <<wstage, wjob, wpartial>>
vars == <<rowVars, minted, cacheVars, queueVars, reqVars, workerVars, now>>

InFlightStatus == {"queued", "running"}
DoneStatus     == {"completed", "partial"}
Terminal       == DoneStatus \cup {"failed", "canceled"}
JobStatus      == InFlightStatus \cup Terminal
NoRow          == "none"
Phase          == {"queued", "fetch", "metrics", "intent"}
CreateStage    == {"insert", "lookup", "recache", "rotate", "reinsert", "winner",
                   "rewin", "enqueue", "compensate", "publish"}
CancelStage    == {"cancelWrite", "cancelRemove"}
WorkStage      == {"start", "fetch", "metrics", "saveRead", "saveCommit", "report",
                   "finish", "retry", "giveUp"}

TypeOK ==
  /\ status \in [Ids -> JobStatus \cup {NoRow}]
  /\ input \in [Ids -> Hash \cup {Rotated}]
  /\ key \in [Ids -> Hash \cup {Rotated}]
  /\ born \in [Ids -> Nat]
  /\ progress \in [Ids -> Phase]
  /\ attached \in [Ids -> BOOLEAN]
  /\ snaps \in [Ids -> Nat]
  /\ minted \subseteq Ids
  /\ cachedId \in [Hash -> Ids \cup {NoId}]
  /\ cacheExp \in [Hash -> Nat]
  /\ QueueTypeOK
  /\ stage \in [Clients -> {"idle"} \cup CreateStage \cup CancelStage]
  /\ reqHash \in [Clients -> Hash \cup {Rotated}]
  /\ reqId \in [Clients -> Ids \cup {NoId}]
  /\ reqOld \in [Clients -> Ids \cup {NoId}]
  /\ wstage \in [Workers -> {"idle", "onFailed"} \cup WorkStage]
  /\ wjob \in [Workers -> Ids \cup {NoId}]
  /\ wpartial \in [Workers -> BOOLEAN]
  /\ now \in Nat

Exists(i)   == status[i] # NoRow
InFlight(i) == status[i] \in InFlightStatus
Holders(h)  == {i \in Ids : key[i] = h}     \* at most one: idempotencyKey @unique
WithinWindow(i) == now <= born[i] + IdempTtl
CacheHit(h) == cachedId[h] # NoId           \* Tick drops an entry that expires

Init ==
  /\ status = [i \in Ids |-> NoRow]
  /\ input = [i \in Ids |-> Rotated]
  /\ key = [i \in Ids |-> Rotated]
  /\ born = [i \in Ids |-> 0]
  /\ progress = [i \in Ids |-> "queued"]
  /\ attached = [i \in Ids |-> FALSE]
  /\ snaps = [i \in Ids |-> 0]
  /\ minted = {}
  /\ cachedId = [h \in Hash |-> NoId]
  /\ cacheExp = [h \in Hash |-> 0]
  /\ QueueInit
  /\ stage = [c \in Clients |-> "idle"]
  /\ reqHash = [c \in Clients |-> Rotated]
  /\ reqId = [c \in Clients |-> NoId]
  /\ reqOld = [c \in Clients |-> NoId]
  /\ wstage = [w \in Workers |-> "idle"]
  /\ wjob = [w \in Workers |-> NoId]
  /\ wpartial = [w \in Workers |-> FALSE]
  /\ now = 0

-----------------------------------------------------------------------------
(* Creating an analysis: KeywordAnalysisService.create.                    *)

Goto(c, s) == /\ stage' = [stage EXCEPT ![c] = s]
              /\ UNCHANGED <<reqHash, reqId, reqOld>>

\* The request ends, with a reply or an exception; its locals are gone.
Done(c) == /\ stage' = [stage EXCEPT ![c] = "idle"]
           /\ reqHash' = [reqHash EXCEPT ![c] = Rotated]
           /\ reqId' = [reqId EXCEPT ![c] = NoId]
           /\ reqOld' = [reqOld EXCEPT ![c] = NoId]

GotoWithOld(c, s, old) == /\ stage' = [stage EXCEPT ![c] = s]
                          /\ reqOld' = [reqOld EXCEPT ![c] = old]
                          /\ UNCHANGED <<reqHash, reqId>>

SetCache(h, i, exp) == /\ cachedId' = [cachedId EXCEPT ![h] = i]
                       /\ cacheExp' = [cacheExp EXCEPT ![h] = exp]

\* A cache hit answers at once, whatever became of the row it names.
CreateHit(c, h) ==
  /\ stage[c] = "idle"
  /\ CacheHit(h)
  /\ UNCHANGED vars

CreateMiss(c, h, i) ==
  /\ stage[c] = "idle"
  /\ ~CacheHit(h)
  /\ i \notin minted
  /\ minted' = minted \cup {i}
  /\ stage' = [stage EXCEPT ![c] = "insert"]
  /\ reqHash' = [reqHash EXCEPT ![c] = h]
  /\ reqId' = [reqId EXCEPT ![c] = i]
  /\ UNCHANGED <<rowVars, cacheVars, queueVars, workerVars, reqOld, now>>

\* buildQueuedRow, written when the unique key is free.
InsertRow(c) ==
  /\ Holders(reqHash[c]) = {}
  /\ status' = [status EXCEPT ![reqId[c]] = "queued"]
  /\ input' = [input EXCEPT ![reqId[c]] = reqHash[c]]
  /\ key' = [key EXCEPT ![reqId[c]] = reqHash[c]]
  /\ born' = [born EXCEPT ![reqId[c]] = now]
  /\ progress' = [progress EXCEPT ![reqId[c]] = "queued"]
  /\ Goto(c, "enqueue")
  /\ UNCHANGED <<attached, snaps>>

UniqueViolation(c, next) ==
  /\ Holders(reqHash[c]) # {}
  /\ Goto(c, next)
  /\ UNCHANGED rowVars

Insert(c) ==
  /\ stage[c] = "insert"
  /\ InsertRow(c) \/ UniqueViolation(c, "lookup")
  /\ UNCHANGED <<minted, cacheVars, queueVars, workerVars, now>>

ReusableByAgeAlone(i) == WithinWindow(i)

\* isWithinIdempotencyWindow or isInFlight: the row answers the new request too.
Reusable(i) == WithinWindow(i) \/ InFlight(i)

\* After P2002: no row any more is an error; a row of the window, or one still in
\* flight, is the answer; an expired terminal row makes way for a new one.
Lookup(c) ==
  /\ stage[c] = "lookup"
  /\ \/ Holders(reqHash[c]) = {} /\ Done(c)
     \/ \E i \in Holders(reqHash[c]) :
          IF Reusable(i)
            THEN GotoWithOld(c, "recache", i)
            ELSE GotoWithOld(c, "rotate", i)
  /\ UNCHANGED <<rowVars, minted, cacheVars, queueVars, workerVars, now>>

ExpiryOfFullTtl(i) == now + IdempTtl

ExpiryOfWindow(i) == born[i] + IdempTtl

\* recacheIdempWithinWindow: the entry keeps only what is left of the row's window.
Recache(c) ==
  /\ stage[c] = "recache"
  /\ LET exp == ExpiryOfWindow(reqOld[c]) IN
       IF exp > now THEN SetCache(reqHash[c], reqOld[c], exp)
                    ELSE UNCHANGED cacheVars
  /\ Done(c)
  /\ UNCHANGED <<rowVars, minted, queueVars, workerVars, now>>

\* rotateExpiredAndCreate: the update is by id alone.  A row deleted meanwhile
\* makes it throw (P2025).
Rotate(c) ==
  /\ stage[c] = "rotate"
  /\ \/ /\ Exists(reqOld[c])
        /\ key' = [key EXCEPT ![reqOld[c]] = Rotated]
        /\ Goto(c, "reinsert")
     \/ /\ ~Exists(reqOld[c])
        /\ Done(c)
        /\ UNCHANGED key
  /\ UNCHANGED <<status, input, born, progress, attached, snaps,
                 minted, cacheVars, queueVars, workerVars, now>>

Reinsert(c) ==
  /\ stage[c] = "reinsert"
  /\ InsertRow(c) \/ UniqueViolation(c, "winner")
  /\ UNCHANGED <<minted, cacheVars, queueVars, workerVars, now>>

Winner(c) ==
  /\ stage[c] = "winner"
  /\ \/ Holders(reqHash[c]) = {} /\ Done(c)
     \/ \E i \in Holders(reqHash[c]) : GotoWithOld(c, "rewin", i)
  /\ UNCHANGED <<rowVars, minted, cacheVars, queueVars, workerVars, now>>

\* The loser of a rotation race caches the winner's id for a whole window.
CacheWinner(c) ==
  /\ stage[c] = "rewin"
  /\ IF IdempTtl > 0 THEN SetCache(reqHash[c], reqOld[c], now + IdempTtl)
                     ELSE SetCache(reqHash[c], NoId, 0)
  /\ Done(c)
  /\ UNCHANGED <<rowVars, minted, queueVars, workerVars, now>>

Enqueue(c) ==
  /\ stage[c] = "enqueue"
  /\ \/ AddJob(reqId[c]) /\ Goto(c, "publish")
     \/ "addFails" \in Faults /\ UNCHANGED queueVars /\ Goto(c, "compensate")
     \/ "addReplyLost" \in Faults /\ AddJob(reqId[c]) /\ Goto(c, "compensate")
  /\ UNCHANGED <<rowVars, minted, cacheVars, workerVars, now>>

KeepRow(i) == UNCHANGED rowVars

DeleteRow(i) == /\ status' = [status EXCEPT ![i] = NoRow]
                /\ key' = [key EXCEPT ![i] = Rotated]
                /\ attached' = [attached EXCEPT ![i] = FALSE]
                /\ UNCHANGED <<input, born, progress, snaps>>

\* The compensating delete; the enqueue error is thrown to the caller either way.
Compensate(c) ==
  /\ stage[c] = "compensate"
  /\ \/ DeleteRow(reqId[c])
     \/ "writeFails" \in Faults /\ UNCHANGED rowVars
  /\ Done(c)
  /\ UNCHANGED <<minted, cacheVars, queueVars, workerVars, now>>

Publish(c) ==
  /\ stage[c] = "publish"
  /\ IF IdempTtl > 0 THEN SetCache(reqHash[c], reqId[c], now + IdempTtl)
                     ELSE SetCache(reqHash[c], NoId, 0)
  /\ Done(c)
  /\ UNCHANGED <<rowVars, minted, queueVars, workerVars, now>>

-----------------------------------------------------------------------------
(* Cancelling: KeywordAnalysisService.cancel.                              *)

\* 404 and an already terminal status answer without a write.
CancelRead(c, i) ==
  /\ stage[c] = "idle"
  /\ Exists(i)
  /\ IF InFlight(i)
       THEN /\ stage' = [stage EXCEPT ![c] = "cancelWrite"]
            /\ reqId' = [reqId EXCEPT ![c] = i]
            /\ UNCHANGED <<reqHash, reqOld>>
       ELSE UNCHANGED reqVars
  /\ UNCHANGED <<rowVars, minted, cacheVars, queueVars, workerVars, now>>

\* updateMany where status notIn terminal; no row hit: read back and answer.
CancelWrite(c) ==
  /\ stage[c] = "cancelWrite"
  /\ IF InFlight(reqId[c])
       THEN status' = [status EXCEPT ![reqId[c]] = "canceled"] /\ Goto(c, "cancelRemove")
       ELSE UNCHANGED status /\ Done(c)
  /\ UNCHANGED <<input, key, born, progress, attached, snaps,
                 minted, cacheVars, queueVars, workerVars, now>>

\* queue.remove, best effort: a job locked by a worker cannot be removed.
CancelRemove(c) ==
  /\ stage[c] = "cancelRemove"
  /\ RemoveJob(reqId[c]) \/ RemoveRefused(reqId[c])
  /\ Done(c)
  /\ UNCHANGED <<rowVars, minted, cacheVars, workerVars, now>>

\* The process dies, or an awaited call rejects, wherever the handler is.
ApiCrash(c) ==
  /\ "apiCrash" \in Faults
  /\ stage[c] # "idle"
  /\ Done(c)
  /\ UNCHANGED <<rowVars, minted, cacheVars, queueVars, workerVars, now>>

-----------------------------------------------------------------------------
(* Running a job: KeywordAnalysisProcessor, ResultSnapshotService and what *)
(* BullMQ does with a job between two calls of process.                    *)

WGoto(w, s) == /\ wstage' = [wstage EXCEPT ![w] = s]
               /\ UNCHANGED <<wjob, wpartial>>

WDone(w) == /\ wstage' = [wstage EXCEPT ![w] = "idle"]
            /\ wjob' = [wjob EXCEPT ![w] = NoId]
            /\ wpartial' = [wpartial EXCEPT ![w] = FALSE]

MarkStatusAlways(i, s) ==
  /\ status' = IF Exists(i) THEN [status EXCEPT ![i] = s] ELSE status
  /\ UNCHANGED <<input, key, born, progress, attached, snaps>>

\* markStatus: conditional on a status that is not terminal, and best effort.
MarkStatus(i, s) ==
  /\ status' = IF InFlight(i) THEN [status EXCEPT ![i] = s] ELSE status
  /\ UNCHANGED <<input, key, born, progress, attached, snaps>>

MirrorProgressAlways(i, p) ==
  /\ progress' = [progress EXCEPT ![i] = p]
  /\ UNCHANGED <<status, input, key, born, attached, snaps>>

MirrorProgress(i, p) ==
  /\ progress' = IF InFlight(i) THEN [progress EXCEPT ![i] = p] ELSE progress
  /\ UNCHANGED <<status, input, key, born, attached, snaps>>

WriteLost == "writeFails" \in Faults /\ UNCHANGED rowVars

Take(w, i) ==
  /\ wstage[w] = "idle"
  /\ TakeJob(w, i)
  /\ wstage' = [wstage EXCEPT ![w] = "start"]
  /\ wjob' = [wjob EXCEPT ![w] = i]
  /\ UNCHANGED <<rowVars, minted, cacheVars, reqVars, wpartial, now>>

RunningStatus == "running"

Start(w) ==
  /\ wstage[w] = "start"
  /\ MarkStatus(wjob[w], RunningStatus) \/ WriteLost
  /\ WGoto(w, "fetch")
  /\ UNCHANGED <<minted, cacheVars, queueVars, reqVars, now>>

\* fetchAndLabel returns everything, or in expand mode what it had before an error
\* that no retry can cure.
Fetch(w) ==
  /\ wstage[w] = "fetch"
  /\ MirrorProgress(wjob[w], "fetch") \/ WriteLost
  /\ \E partial \in BOOLEAN : wpartial' = [wpartial EXCEPT ![w] = partial]
  /\ wstage' = [wstage EXCEPT ![w] = "metrics"]
  /\ UNCHANGED <<wjob, minted, cacheVars, queueVars, reqVars, now>>

Metrics(w) ==
  /\ wstage[w] = "metrics"
  /\ MirrorProgress(wjob[w], "metrics") \/ WriteLost
  /\ WGoto(w, "saveRead")
  /\ UNCHANGED <<minted, cacheVars, queueVars, reqVars, now>>

AfterSave(w) == WGoto(w, IF wpartial[w] THEN "finish" ELSE "report")

\* The transaction of saveResult: a status read first, one conditional write last.
SaveRead(w) ==
  /\ wstage[w] = "saveRead"
  /\ IF status[wjob[w]] \in Terminal THEN AfterSave(w) ELSE WGoto(w, "saveCommit")
  /\ UNCHANGED <<rowVars, minted, cacheVars, queueVars, reqVars, now>>

CommitResult(i, partial) ==
  /\ snaps' = [snaps EXCEPT ![i] = @ + 1]
  /\ attached' = [attached EXCEPT ![i] = TRUE]
  /\ status' = [status EXCEPT ![i] = IF partial THEN "partial" ELSE "completed"]
  /\ progress' = [progress EXCEPT ![i] = IF partial THEN "metrics" ELSE "intent"]
  /\ UNCHANGED <<input, key, born>>

SnapshotKept(i) ==
  /\ snaps' = [snaps EXCEPT ![i] = @ + 1]
  /\ UNCHANGED <<status, input, key, born, progress, attached>>

\* TerminalRaceError rolls the whole transaction back, the snapshot included.
RolledBack(i) == UNCHANGED rowVars

SaveCommit(w) ==
  /\ wstage[w] = "saveCommit"
  /\ \/ InFlight(wjob[w]) /\ CommitResult(wjob[w], wpartial[w])
     \/ ~InFlight(wjob[w]) /\ RolledBack(wjob[w])
  /\ AfterSave(w)
  /\ UNCHANGED <<minted, cacheVars, queueVars, reqVars, now>>

Report(w) ==
  /\ wstage[w] = "report"
  /\ MirrorProgress(wjob[w], "intent") \/ WriteLost
  /\ WGoto(w, "finish")
  /\ UNCHANGED <<minted, cacheVars, queueVars, reqVars, now>>

\* An infrastructure or unknown error may come from any awaited call; a terminal
\* one (UnrecoverableError) only from the calls to Ads and to the LLM.
Throw(w) ==
  /\ \/ wstage[w] \in {"fetch", "metrics", "saveRead", "saveCommit", "report"}
        /\ WGoto(w, "retry")
     \/ wstage[w] \in {"fetch", "metrics"} /\ WGoto(w, "giveUp")
  /\ UNCHANGED <<rowVars, minted, cacheVars, queueVars, reqVars, now>>

Finish(w) ==
  /\ wstage[w] = "finish"
  /\ CompleteJob(w, wjob[w])
  /\ WDone(w)
  /\ UNCHANGED <<rowVars, minted, cacheVars, reqVars, now>>

\* moveToFailed either ends the job or gives it back for another attempt.
AttemptsExhausted(w) == wstage[w] = "giveUp" \/ ~AttemptsLeft(wjob[w])

AnyAttempt(w) == TRUE

\* Mutant: finishedOn is not looked at, so an unrecoverable failure before the last attempt is not the end.
OutOfAttempts(w) == ~AttemptsLeft(wjob[w])

\* isTerminalFailure: finishedOn is set only when the job was ended.
FinalAttempt(w) == AttemptsExhausted(w)

\* The "failed" event comes after every attempt, and its handler returns early
\* unless this attempt was the last.
FailAttempt(w) ==
  /\ wstage[w] \in {"retry", "giveUp"}
  /\ \/ /\ ~Holds(w, wjob[w])
        /\ UNCHANGED queueVars /\ WDone(w)
     \/ /\ FailJob(w, wjob[w], AttemptsExhausted(w))
        /\ IF FinalAttempt(w) THEN WGoto(w, "onFailed") ELSE WDone(w)
  /\ UNCHANGED <<rowVars, minted, cacheVars, reqVars, now>>

OnFailed(w) ==
  /\ wstage[w] = "onFailed"
  /\ MarkStatus(wjob[w], "failed") \/ WriteLost
  /\ WDone(w)
  /\ UNCHANGED <<minted, cacheVars, queueVars, reqVars, now>>

WorkerCrash(w) ==
  /\ \/ "workerCrash" \in Faults /\ wstage[w] \in WorkStage
     \/ "eventLost" \in Faults /\ wstage[w] = "onFailed"
  /\ LoseLocksOf(w)
  /\ WDone(w)
  /\ UNCHANGED <<rowVars, minted, cacheVars, reqVars, now>>

\* The slot's event loop was blocked for longer than the lock; it goes on.
LockLost(w) ==
  /\ "lockLost" \in Faults
  /\ wstage[w] \in WorkStage
  /\ Holds(w, wjob[w]) /\ LoseLock(wjob[w])
  /\ UNCHANGED <<rowVars, minted, cacheVars, reqVars, workerVars, now>>

StallRequeue(i) ==
  /\ RequeueStalled(i)
  /\ UNCHANGED <<rowVars, minted, cacheVars, reqVars, workerVars, now>>

\* Past the limit a free slot fails the job and runs the "failed" handler.
StallFail(w, i) ==
  /\ FailStalled(i)
  /\ wstage[w] = "idle"
  /\ wstage' = [wstage EXCEPT ![w] = "onFailed"]
  /\ wjob' = [wjob EXCEPT ![w] = i]
  /\ UNCHANGED <<rowVars, minted, cacheVars, reqVars, wpartial, now>>

Tick ==
  /\ now < MaxTime
  /\ PromptRequests => \A c \in Clients : stage[c] \notin CreateStage
  /\ now' = now + 1
  /\ cachedId' = [h \in Hash |-> IF cacheExp[h] <= now + 1 THEN NoId ELSE cachedId[h]]
  /\ cacheExp' = [h \in Hash |-> IF cacheExp[h] <= now + 1 THEN 0 ELSE cacheExp[h]]
  /\ UNCHANGED <<rowVars, minted, queueVars, reqVars, workerVars>>

-----------------------------------------------------------------------------
CreateStep(c) ==
  \/ \E h \in Hash : CreateHit(c, h)
  \/ \E h \in Hash, i \in Ids : CreateMiss(c, h, i)
  \/ Insert(c) \/ Lookup(c) \/ Recache(c) \/ Rotate(c) \/ Reinsert(c)
  \/ Winner(c) \/ CacheWinner(c) \/ Enqueue(c) \/ Compensate(c) \/ Publish(c)

CancelStep(c) == (\E i \in Ids : CancelRead(c, i)) \/ CancelWrite(c) \/ CancelRemove(c)

RunStep(w) == Start(w) \/ Fetch(w) \/ Metrics(w) \/ SaveRead(w) \/ SaveCommit(w)
              \/ Report(w) \/ Finish(w) \/ FailAttempt(w) \/ OnFailed(w)

Next ==
  \/ \E c \in Clients : CreateStep(c) \/ CancelStep(c) \/ ApiCrash(c)
  \/ \E w \in Workers : RunStep(w) \/ Throw(w) \/ WorkerCrash(w) \/ LockLost(w)
  \/ \E w \in Workers, i \in Ids : Take(w, i) \/ StallFail(w, i)
  \/ \E i \in Ids : StallRequeue(i)
  \/ Tick

Spec == Init /\ [][Next]_vars

\* A request that was accepted runs to its end, a slot that has a job works on it,
\* and BullMQ keeps giving out waiting and stalled jobs.  Nothing obliges a client
\* to send a request, a fault to happen or a call to throw.
Fairness ==
  /\ \A c \in Clients : WF_vars(stage[c] # "idle" /\ (CreateStep(c) \/ CancelStep(c)))
  /\ \A w \in Workers : WF_vars(RunStep(w))
  /\ \A i \in Ids : WF_vars(StallRequeue(i))
  /\ \A i \in Ids : WF_vars(\E w \in Workers : Take(w, i) \/ StallFail(w, i))

FairSpec == Spec /\ Fairness

-----------------------------------------------------------------------------
(* Two rows still to be worked on never answer the same request: however   *)
(* creates race, a key is only rotated away from a terminal row, so the    *)
(* paid Google Ads work of a request in flight is never started twice.     *)
NoDuplicateInFlight ==
  \A i, j \in Ids : InFlight(i) /\ InFlight(j) /\ input[i] = input[j] => i = j

(* A row points to a result snapshot exactly when its status announces one,*)
(* and retries, stalled doubles of a job and cancellations leave neither a *)
(* second snapshot nor an orphan one (saveResult's transaction).           *)
SnapshotMatchesStatus ==
  \A i \in Ids : Exists(i) =>
    /\ attached[i] <=> status[i] \in DoneStatus
    /\ snaps[i] = IF attached[i] THEN 1 ELSE 0

(* The row never says failed while the queue may still run the job: an     *)
(* attempt that will be retried must not end the row (isTerminalFailure).  *)
NoPrematureFailure ==
  \A i \in Ids : status[i] = "failed" => job[i] \in {"failed", "absent"}

(* Polling never shows full progress for work that is not complete, nor a  *)
(* completed row at less: whichever of two workers wrote last.             *)
ProgressHonest ==
  \A i \in Ids : Exists(i) => (status[i] = "completed" <=> progress[i] = "intent")

(* A terminal row keeps its status and its snapshot for as long as it      *)
(* exists: cancel, saveResult, progress and failure writes race, and the   *)
(* first to commit wins.                                                   *)
TerminalIrreversible ==
  [][\A i \in Ids : status[i] \in Terminal =>
       \/ status'[i] = NoRow
       \/ status'[i] = status[i] /\ attached'[i] = attached[i] /\ snaps'[i] = snaps[i]]_vars

(* The cache fast path never answers with a row older than the freshness   *)
(* window that the database path applies: the re-cache of a coalesced      *)
(* request must not prolong the entry.                                     *)
FastPathFresh ==
  \A h \in Hash : CacheHit(h) => WithinWindow(cachedId[h])

(* A row in flight is somebody's business: a request still creating it, a  *)
(* job the queue will run, or a failure handler about to close it.         *)
InFlightHasOwner ==
  \A i \in Ids : InFlight(i) =>
    \/ Runnable(i)
    \/ \E c \in Clients : reqId[c] = i /\ stage[c] \in {"enqueue", "compensate"}
    \/ \E w \in Workers : wjob[w] = i /\ wstage[w] = "onFailed"

(* Whatever the requests, workers and crashes do, a client that polls sees *)
(* no more than AnalysisLifecycle: the row is its state, the foreign key   *)
(* to the snapshot its result.                                             *)
Lifecycle == INSTANCE AnalysisLifecycle WITH st <- status, result <- attached

RefinesLifecycle == Lifecycle!LSpec

(* Every analysis that was accepted ends: its row leaves queued and        *)
(* running, whatever retries, stalls and worker crashes come first.        *)
EventuallyTerminal == \A i \in Ids : InFlight(i) ~> ~InFlight(i)

(* keyword-analysis.service.spec.ts:385 of an enqueue that fails: the      *)
(* idempotency entry must not point at a job that was never enqueued.      *)
CachedJobExists ==
  \A h \in Hash : CacheHit(h) => Exists(cachedId[h])
=============================================================================
