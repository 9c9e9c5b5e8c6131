--------------------------- MODULE MCTopicsAndCells ---------------------------
(***************************************************************************)
(* Liveness of the purchase journey, of topic clustering and of the        *)
(* summary column of the keywords table, side by side: "which" picks the   *)
(* one that runs.                                                          *)
(***************************************************************************)
EXTENDS JourneyRun

CONSTANTS TwoClients, OneSlot     \* the requests and the job slots of the topics

JourneyFaults == {"queueFails"}

VARIABLES which,
  tJob, tAttempts, tStalls, tLock, tStatus, tCount, tStage, tReqRun, tWstage, tWjob, tWmade, clusters,   \* TopicRun
  page, cells, cellJob, posting, asked, stream, batch, missed                            \* SummaryColumn
topicVars == <<tJob, tAttempts, tStalls, tLock, tStatus, tCount, tStage, tReqRun, tWstage, tWjob, tWmade, clusters>>
cellVars == <<page, cells, cellJob, posting, asked, stream, batch, missed>>

Topics == INSTANCE TopicRun WITH
  Clients <- TwoClients, Workers <- OneSlot, JobAttempts <- 2,
  Resettable <- {"failed"}, Faults <- {"queueFails", "addReplyLost", "workerCrash", "lockLost"},
  job <- tJob, attempts <- tAttempts, stalls <- tStalls, lock <- tLock, status <- tStatus, count <- tCount, stage <- tStage, reqRun <- tReqRun, wstage <- tWstage, wjob <- tWjob, wmade <- tWmade
Column == INSTANCE SummaryColumn WITH
  PageKeys <- {{1, 2}, {2}}, MaxAsked <- 1, CellFaults <- {"silence", "streamError", "noEventSource", "jobFails", "malformed"}, job <- cellJob

SumInit ==
  /\ which \in {"topics", "journey", "cells"}
  /\ Init /\ Topics!Init /\ Column!Init
  /\ (which # "cells" => page = {2})
SumNext ==
  \/ which = "journey" /\ Next /\ UNCHANGED <<which, topicVars, cellVars>>
  \/ which = "topics" /\ Topics!Next /\ UNCHANGED <<which, vars, cellVars>>
  \/ which = "cells" /\ Column!Next /\ UNCHANGED <<which, vars, topicVars>>
SumSpec ==
  /\ SumInit /\ [][SumNext]_<<which, vars, topicVars, cellVars>>
  /\ \/ which = "journey" /\ Fairness
     \/ which = "topics" /\ Topics!Fairness
     \/ which = "cells" /\ Column!CellFairness

EveryRunStarts == Topics!EveryRunStarts
EveryCellSettles == Column!EveryCellSettles
=============================================================================
