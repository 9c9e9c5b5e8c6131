-------------------------- MODULE MCKeywordAnalysis --------------------------
(* TLC instances of KeywordAnalysis: the sets of faults each run allows,   *)
(* and the bound on the run of the rows.                                   *)
EXTENDS KeywordAnalysis, TLC

RowFaults  == {"addFails", "apiCrash", "workerCrash", "lockLost", "eventLost", "writeFails"}
LiveFaults == {"addFails", "addReplyLost", "workerCrash", "lockLost"}
AddFaults  == {"addFails"}

\* Either one analysis and everything its slots and requests can do to it ...
OneAnalysis == now = 0 /\ \A i, j \in minted : i = j
\* ... or several that follow and race each other, each worked on by one slot and without a redelivery.
OneDelivery ==
  /\ \A i \in Ids : attempts[i] <= 1 /\ stalls[i] = 0
  /\ \A v, w \in Workers : wstage[v] # "idle" /\ wstage[w] # "idle" => v = w
  /\ minted = Ids => \A w \in Workers : wstage[w] = "idle"
Narrow == OneAnalysis \/ OneDelivery

Symmetry == Permutations(Ids) \cup Permutations(Clients) \cup Permutations(Workers)
=============================================================================
