----------------------------- MODULE MCJourneyRun ---------------------------
(* TLC instance of JourneyRun for the finding: nothing fails but what the       *)
(* attempts themselves do.                                                *)
EXTENDS JourneyRun

NoFaults == {}
=============================================================================
