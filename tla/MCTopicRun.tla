----------------------------- MODULE MCTopicRun -----------------------------
(* TLC instance of TopicRun for the finding: nothing fails but what the       *)
(* attempts themselves do.                                                *)
EXTENDS TopicRun

NoFaults == {}
=============================================================================
