----------------------------- MODULE AiSearchRun -----------------------------
(***************************************************************************)
(* AI search: AiSearchRunService and AiSearchRunRepository on the request  *)
(* side (RunJob, with a reset that is conditional on the status), and the  *)
(* body of AiSearchProcessor, which gathers captures - those pushed by the *)
(* browser extension and those of a paid SerpAPI pull -, stores them,      *)
(* analyses them and closes the run.  A redelivered job reuses what was    *)
(* stored rather than paying twice.                                        *)
(***************************************************************************)
EXTENDS RunJob

CONSTANT MaxSets        \* bound: sets of captures stored for one run

VARIABLES
  captures,     \* how many times the merged captures are in ai_search_captures
  analysis,     \* rows of the three analysis tables: Count
  charge,       \* what the job has paid for, and whether that was stored
  redelivered,  \* attemptsStarted > 1, as the job object of the slot says
  hand          \* the captures the slot works with: Count

ResetStatuses == {"failed", "canceled", "partial"}

ASSUME AiSearchAssumption ==
  /\ Resettable = ResetStatuses /\ AtomicReset
  /\ MaxSets \in Nat \ {0}

storeVars == <<captures, analysis, charge>>
slotVars  == <<redelivered, hand>>
vars      == <<runVars, storeVars, slotVars>>

WorkStage == {"start", "gather", "clean", "pull", "persist", "analyze", "markDone", "tick",
              "catch", "finish", "fail"}
Charge    == {"none", "paid", "stored", "nothing", "storedAgain", "nothingAgain"}

TypeOK ==
  /\ RunTypeOK
  /\ wstage \in [Workers -> {"idle"} \cup WorkStage]
  /\ captures \in [Ids -> 0..MaxSets]
  /\ analysis \in [Ids -> Count]
  /\ charge \in [Ids -> Charge]
  /\ redelivered \in [Workers -> BOOLEAN]
  /\ hand \in [Workers -> Count]

Init == /\ RunInit
        /\ captures = [i \in Ids |-> 0]
        /\ analysis = [i \in Ids |-> "null"]
        /\ charge = [i \in Ids |-> "none"]
        /\ redelivered = [w \in Workers |-> FALSE]
        /\ hand = [w \in Workers |-> "null"]

-----------------------------------------------------------------------------
(* AiSearchProcessor.process.                                              *)

Start(w) ==
  /\ wstage[w] = "start"
  /\ MarkStatus(wjob[w], "running", Undefined)
  /\ WGoto(w, "gather")
  /\ UNCHANGED <<queueVars, reqVars, storeVars, slotVars>>

\* gatherCaptures of a redelivered job takes what an earlier delivery stored.
Reuse(w) ==
  /\ wstage[w] = "gather"
  /\ redelivered[w] /\ captures[wjob[w]] > 0
  /\ hand' = [hand EXCEPT ![w] = "some"]
  /\ WGoto(w, "analyze")
  /\ UNCHANGED <<queueVars, rowVars, reqVars, storeVars, redelivered>>

Fresh(w) ==
  /\ wstage[w] = "gather"
  /\ ~(redelivered[w] /\ captures[wjob[w]] > 0)
  /\ WGoto(w, "clean")
  /\ UNCHANGED <<queueVars, rowVars, reqVars, storeVars, slotVars>>

CleanNothing(w) ==
  /\ wstage[w] = "clean"
  /\ WGoto(w, "pull")
  /\ UNCHANGED <<queueVars, rowVars, reqVars, storeVars, slotVars>>

\* deleteByJobId, and the read of what the extension pushed.
Clean(w) ==
  /\ wstage[w] = "clean"
  /\ captures' = [captures EXCEPT ![wjob[w]] = 0]
  /\ WGoto(w, "pull")
  /\ UNCHANGED <<queueVars, rowVars, reqVars, analysis, charge, slotVars>>

Paid(ch) == CASE ch = "stored" -> "storedAgain"
              [] ch = "nothing" -> "nothingAgain"
              [] ch = "none" -> "paid"
              [] OTHER -> ch

\* The paid pull; the merged captures may turn out to be none at all.
Pull(w) ==
  /\ wstage[w] = "pull"
  /\ charge' = [charge EXCEPT ![wjob[w]] = Paid(@)]
  /\ \E n \in {"zero", "some"} : hand' = [hand EXCEPT ![w] = n]
  /\ WGoto(w, "persist")
  /\ UNCHANGED <<queueVars, rowVars, reqVars, captures, analysis, redelivered>>

Kept(ch, n) == IF ch = "paid" THEN (IF n = "some" THEN "stored" ELSE "nothing") ELSE ch

Persist(w) ==
  /\ wstage[w] = "persist"
  /\ LET i == wjob[w] IN
       /\ hand[w] = "some" => captures[i] < MaxSets
       /\ captures' = IF hand[w] = "some" THEN [captures EXCEPT ![i] = @ + 1] ELSE captures
       /\ charge' = [charge EXCEPT ![i] = Kept(@, hand[w])]
  /\ WGoto(w, "analyze")
  /\ UNCHANGED <<queueVars, rowVars, reqVars, analysis, slotVars>>

\* analyzeAndPersist: replaceForJob is one transaction over the three tables.
Analyze(w) ==
  /\ wstage[w] = "analyze"
  /\ analysis' = [analysis EXCEPT ![wjob[w]] = hand[w]]
  /\ WGoto(w, "markDone")
  /\ UNCHANGED <<queueVars, rowVars, reqVars, captures, charge, slotVars>>

\* Partial when a channel has no capture or a line of the analysis degraded.
MarkDone(w) ==
  /\ wstage[w] = "markDone"
  /\ \/ MarkStatus(wjob[w], "partial", hand[w])
     \/ hand[w] = "some" /\ MarkStatus(wjob[w], "completed", hand[w])
  /\ WGoto(w, "tick")
  /\ UNCHANGED <<queueVars, reqVars, storeVars, slotVars>>

Tick(w) ==
  /\ wstage[w] = "tick"
  /\ WGoto(w, "finish")
  /\ UNCHANGED <<queueVars, rowVars, reqVars, storeVars, slotVars>>

\* Between the pull and the write nothing can throw: the tick there is a best
\* effort.  A throw at "persist" is the write itself that fails.
Throw(w) ==
  /\ wstage[w] \in WorkStage \ {"tick", "catch", "finish", "fail"}
  /\ WGoto(w, "catch")
  /\ UNCHANGED <<queueVars, rowVars, reqVars, storeVars, slotVars>>

IsFinalAttempt(w) == wmade[w] + 1 >= JobAttempts

Catch(w) ==
  /\ wstage[w] = "catch"
  /\ \/ IsFinalAttempt(w) /\ MarkStatus(wjob[w], "failed", Undefined)
     \/ (IsFinalAttempt(w) => "writeLost" \in Faults) /\ UNCHANGED rowVars
  /\ WGoto(w, "fail")
  /\ UNCHANGED <<queueVars, reqVars, storeVars, slotVars>>

Process(w) ==
  \/ Start(w) \/ Reuse(w) \/ Fresh(w) \/ Clean(w) \/ Pull(w) \/ Persist(w) \/ Analyze(w)
  \/ MarkDone(w) \/ Tick(w) \/ Catch(w)

StartedByAttempts(i) == attempts[i] > 0

\* The counter of deliveries grows with every take, after a throw or a stall.
StartedBefore(i) == attempts[i] + stalls[i] > 0

\* A slot that takes a job gets its object; a slot that is done forgets it.
SlotTurns ==
  /\ redelivered' = [w \in Workers |->
       IF wstage[w] = "idle" THEN wjob'[w] # NoId /\ StartedBefore(wjob'[w])
       ELSE redelivered[w] /\ wstage'[w] # "idle"]
  /\ hand' = [w \in Workers |-> IF wstage'[w] = "idle" THEN "null" ELSE hand[w]]

\* A new job starts a new account.
Accounts ==
  charge' = [i \in Ids |-> IF job[i] = "absent" /\ job'[i] = "wait" THEN "none" ELSE charge[i]]

\* AiSearchRunService.create with createRun and enqueueReusingJobId.
Create == AnyRequest /\ Accounts /\ UNCHANGED <<captures, analysis, slotVars>>
Slots  == AnySlot /\ SlotTurns /\ UNCHANGED storeVars

Next == \/ Create \/ Slots
        \/ \E w \in Workers : Process(w) \/ Throw(w)

Spec == Init /\ [][Next]_vars

-----------------------------------------------------------------------------
(* What a finished run shows is what is stored: one set of captures, as    *)
(* counted, and the analysis of exactly that set, whatever deliveries and  *)
(* resets of a partial run came before.                                    *)
DoneRunMatchesStores ==
  \A i \in Ids : status[i] \in {"completed", "partial"} =>
    /\ captures[i] = IF count[i] = "some" THEN 1 ELSE 0
    /\ analysis[i] = count[i]

(* M15-R1 and #706: a job whose captures are stored never pays SerpAPI     *)
(* again, be it delivered again after a throw or after a crash.            *)
NoRechargeOfStored == \A i \in Ids : charge[i] # "storedAgain"

(* ai-search-run.repository.ts createRun: of the requests that see a run   *)
(* in a final state only one resets it and queues its job.                 *)
OneEnqueuer ==
  \A c, d \in Clients : stage[c] \in EnqueueStage /\ stage[d] \in EnqueueStage => c = d \/ reqRun[c] # reqRun[d]

(* ai-search.processor.ts:145: the only way left to pay twice is a write   *)
(* of the captures that throws.                                            *)
RechargeOnlyIfPersistFailed == \A i \in Ids : charge[i] \notin {"storedAgain", "nothingAgain"}
=============================================================================
