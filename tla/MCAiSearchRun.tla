----------------------------- MODULE MCAiSearchRun --------------------------
(* TLC instance of AiSearchRun for the finding: nothing fails but what the       *)
(* attempts themselves do.                                                *)
EXTENDS AiSearchRun

NoFaults == {}
=============================================================================
