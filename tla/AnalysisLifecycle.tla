-------------------------- MODULE AnalysisLifecycle --------------------------
(***************************************************************************)
(* What an analysis promises the client that polls it, and nothing of how  *)
(* it is done: the state machine behind JobStatus.  An analysis is         *)
(* submitted, may be seen running, and ends exactly once; it carries a     *)
(* result from the moment it ends as completed or partial, and only then.  *)
(***************************************************************************)
CONSTANT Ids

VARIABLES st, result

lifecycleVars == <<st, result>>

InFlightStates == {"queued", "running"}
DoneStates     == {"completed", "partial"}
ClosedStates   == {"failed", "canceled"}
NoAnalysis     == "none"

LInit == /\ st = [i \in Ids |-> NoAnalysis]
         /\ result = [i \in Ids |-> FALSE]

Submit(i) == /\ st[i] = NoAnalysis
             /\ st' = [st EXCEPT ![i] = "queued"]
             /\ UNCHANGED result

Run(i) == /\ st[i] \in InFlightStates
          /\ st' = [st EXCEPT ![i] = "running"]
          /\ UNCHANGED result

Complete(i) == /\ st[i] \in InFlightStates
               /\ \E s \in DoneStates : st' = [st EXCEPT ![i] = s]
               /\ result' = [result EXCEPT ![i] = TRUE]

Close(i) == /\ st[i] \in InFlightStates
            /\ \E s \in ClosedStates : st' = [st EXCEPT ![i] = s]
            /\ UNCHANGED result

\* The submission could not be queued after all and is taken back.
Withdraw(i) == /\ st' = [st EXCEPT ![i] = NoAnalysis]
               /\ result' = [result EXCEPT ![i] = FALSE]

LNext == \E i \in Ids : Submit(i) \/ Run(i) \/ Complete(i) \/ Close(i) \/ Withdraw(i)

LSpec == LInit /\ [][LNext]_lifecycleVars
=============================================================================
