----------------------------- MODULE StageColumn -----------------------------
(***************************************************************************)
(* The column of journey stages in the keyword table: the rows of the      *)
(* table are joined with the rows of the journey view, which are gathered  *)
(* page by page until the API has no more.                                 *)
(***************************************************************************)
EXTENDS KeywordViews

CONSTANTS TableRows,                        \* the keywords, as the journey view has them
          RunStage(_),                      \* the stage the journey run gave a keyword, or Null
          QueryPageSize, MAX_QUERY_PAGES

VARIABLES page,      \* the keywords on the screen
          journey,   \* the status of the journey feature
          stages     \* journeyStagesQuery

svars == <<page, journey, stages>>

Keywords == {r.nt : r \in TableRows}
NoStages == [status |-> "idle", rows |-> {}, cursor |-> Null, page |-> 0]

Init == /\ page \in {{k} : k \in Keywords}
        /\ journey = "not_generated"
        /\ stages = NoStages

ShowPage(k) == page' = {k} /\ UNCHANGED <<journey, stages>>

-----------------------------------------------------------------------------
(* useJourney, postQueryAllPages, keywordDimensions.                       *)

DimensionHeaderPhase(status) ==
  CASE status = "running" -> "generating" [] status = "ready" -> "ready" [] OTHER -> "generatable"
StartJourney ==
  /\ DimensionHeaderPhase(journey) = "generatable"
  /\ journey' = "running"
  /\ UNCHANGED <<page, stages>>
JourneyEnds ==
  /\ journey = "running"
  /\ journey' \in {"ready", "failed"}
  /\ UNCHANGED <<page, stages>>

StageRows == {r \in TableRows : RunStage(r.nt) # Null}
\* The answer to one request: the page after the cursor, or the first.
PostQuery(cursor) ==
  SelectPage(StageRows, DEFAULT_SORT,
             [pageSize |-> QueryPageSize] @@ (IF cursor = Null THEN <<>> ELSE [cursor |-> cursor]))
\* Mutant: the first page is taken for all of them.
GatheredFirst(s, answer) ==
  [rows |-> ToSet(answer.rows), cursor |-> answer.cursor, page |-> s.page + 1, status |-> "ok"]
Gathered(s, answer) ==
  [rows |-> s.rows \cup ToSet(answer.rows), cursor |-> answer.cursor, page |-> s.page + 1,
   status |-> IF answer.cursor = Null THEN "ok" ELSE IF s.page + 1 = MAX_QUERY_PAGES THEN "failed" ELSE "loading"]
PostQueryAllPages ==
  /\ journey = "ready" /\ stages.status \in {"idle", "loading"}
  /\ \E answer \in {PostQuery(stages.cursor)} :
       stages' \in {Gathered(stages, answer), [stages EXCEPT !.status = "failed"]}
  /\ UNCHANGED <<page, journey>>
\* A window that gets the focus asks again; what it has stays until the answer is there.
RefetchStages ==
  /\ stages.status = "failed"
  /\ stages' = NoStages
  /\ UNCHANGED <<page, journey>>

JourneyStageByKey == [k \in {r.nt : r \in stages.rows} |-> RunStage(k)]
DimensionCellState(status, label, loaded) ==
  CASE status = "running" -> "generating"
    [] status = "ready"   -> IF label # Null THEN "value" ELSE IF loaded THEN "empty" ELSE "generating"
    [] OTHER              -> "masked"
CellStateForRow(status, k, labels, loaded) ==
  DimensionCellState(status, IF k \in DOMAIN labels THEN labels[k] ELSE Null, loaded)
\* The journey column of the table; until all pages are there it has no rows to join with.
JourneyCell(k) ==
  LET loaded == stages.status = "ok"
  IN CellStateForRow(journey, k, IF loaded THEN JourneyStageByKey ELSE <<>>, loaded)

Next == \/ \E k \in Keywords : ShowPage(k)
        \/ StartJourney \/ JourneyEnds \/ PostQueryAllPages \/ RefetchStages

Spec == Init /\ [][Next]_svars

TypeOK ==
  /\ page \subseteq Keywords
  /\ journey \in {"not_generated", "running", "ready", "failed"}
  /\ stages.status \in {"idle", "loading", "ok", "failed"}

\* A keyword the run gave a stage is never shown as one without: the dash appears only when the stages of
\* all keywords are there (postQueryAllPages, cellStateForRow).
DashMeansNoStage == \A k \in page : JourneyCell(k) = "empty" => RunStage(k) = Null
=============================================================================
