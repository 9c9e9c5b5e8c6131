---------------------------- MODULE SnapshotQuery ----------------------------
(***************************************************************************)
(* Reading the results of one analysis: SnapshotQueryService and           *)
(* AiViewRepository, and AiInsightService on top of them.  A snapshot      *)
(* never changes, but what its rows are joined with does: the stages of    *)
(* the journey runs, the labels of the custom runs, the tables of the AI   *)
(* search runs.  A request reads the status of a run, then the data, then  *)
(* - for an insight - caches what a model made of it.                      *)
(***************************************************************************)
EXTENDS ViewRegistry, OwnerScope, ReadState

CONSTANTS
  Rows,                 \* the rows of the snapshot
  Kinds,                \* subset of {"journey", "custom", "ai"}: the runs the analysis may get
  Requests,             \* what is asked: of /keywords, /query and /ai-insight
  Readers, Actor,       \* clients, and who they are
  Limits,               \* [maxPageSize, aggMaxBuckets, aggMaxGroups]
  MaxPerKind, MaxSaves, \* bounds: runs of a kind; sets of data that runs store
  StageOf(_, _), AiRows(_, _)   \* what a set of data says: the stage of a keyword, the rows of an AI table

VARIABLES
  analysis,             \* the analysis: [status, snapshot, owner]
  linked,               \* per kind its runs, oldest first: [status, owner, data]
  merged,               \* per kind the set of data its joined table holds
  saves,                \* sets of data stored so far; each is told by its ordinal
  insights,             \* the cache: key |-> the data an insight was made of
  ask,                  \* per reader what it asked for and what it has read so far
  walk                  \* per reader the rows it has seen on the pages of one table

readVars  == <<analysis, linked, merged, saves, insights, ask, shown, walk>>
storeVars == <<linked, merged, saves>>

AllKinds   == {"journey", "custom", "ai"}
RunStatus  == {"queued", "running", "completed", "partial", "failed", "canceled"}
InProgress == {"queued", "running"}
NoRun      == [status |-> "none", owner |-> Shared, data |-> 0]
NoAsk      == [at |-> "idle"]
NoAnswer   == [status |-> 0]

Init ==
  /\ analysis \in [status : {"running"}, snapshot : {FALSE}, owner : Owners]
  /\ linked = [k \in AllKinds |-> <<>>] /\ merged = [k \in AllKinds |-> 0] /\ saves = 0
  /\ insights = <<>> /\ ask = [c \in Readers |-> NoAsk] /\ shown = [c \in Readers |-> NoAnswer]
  /\ walk = [c \in Readers |-> <<>>]

Version == 0..MaxPerKind

TypeOK ==
  /\ analysis \in [status : RunStatus, snapshot : BOOLEAN, owner : Owners]
  /\ \A k \in AllKinds : linked[k] \in Seq([status : RunStatus, owner : Owners, data : 0..MaxSaves])
  /\ merged \in [AllKinds -> 0..MaxSaves] /\ saves \in 0..MaxSaves
  /\ \A key \in DOMAIN insights : insights[key] \in 0..MaxSaves
  /\ \A c \in Readers : ask[c].at \in {"idle", "load", "version", "lookup", "gate", "rows", "summarize"}
  /\ \A c \in Readers : shown[c].status \in {0, 200, 400, 404, 409, 502}
  /\ walk \in [Readers -> Seq({r.nt : r \in Rows})]

-----------------------------------------------------------------------------
(* features.ts.                                                            *)

KeywordMetricsStatus == IF analysis.snapshot THEN "ready"
                        ELSE CASE analysis.status = "failed"   -> "failed"
                               [] analysis.status = "canceled" -> "not_generated"
                               [] OTHER                        -> "running"
RunFeature(status) == CASE status \in {"completed", "partial"} -> "ready"
                        [] status \in InProgress               -> "running"
                        [] status = "failed"                   -> "failed"
                        [] OTHER                               -> "not_generated"
\* Mutant: a run that is running counts as ready.
RunningIsReady(status) == IF status = "running" THEN "ready" ELSE RunFeature(status)
JourneyFeatureStatus(status)  == RunFeature(status)
AiSearchFeatureStatus(status) == RunFeature(status)
TopicsFeatureStatus(status)   == RunFeature(status)

ComputeFeatures(journeyStatus, aiSearchStatus, topicsStatus) ==
  [keyword_metrics |-> KeywordMetricsStatus, serp |-> "not_generated", topics |-> TopicsFeatureStatus(topicsStatus),
   journey |-> JourneyFeatureStatus(journeyStatus), ai_search |-> AiSearchFeatureStatus(aiSearchStatus)]

-----------------------------------------------------------------------------
(* What the run modules do to what is read here: a run is created, works,  *)
(* stores its data and closes; some that have ended may be reset, and keep *)
(* their id and their place among the runs.                                *)

ResetStatuses == [journey |-> {"failed", "canceled"}, custom |-> {"failed"}, ai |-> {"failed", "canceled", "partial"}]

FinishAnalysis ==
  /\ analysis.status = "running"
  /\ \E ok \in BOOLEAN : analysis' = [analysis EXCEPT !.status = IF ok THEN "completed" ELSE "failed", !.snapshot = ok]
  /\ UNCHANGED <<storeVars, insights, ask, shown, walk>>

\* One journey or custom run is in progress at a time.
CreateRun(k, owner) ==
  /\ analysis.snapshot /\ Len(linked[k]) < MaxPerKind
  /\ k = "ai" \/ \A i \in DOMAIN linked[k] : linked[k][i].status \notin InProgress
  /\ linked' = [linked EXCEPT ![k] = Append(@, [status |-> "queued", owner |-> owner, data |-> 0])]
  /\ UNCHANGED <<analysis, merged, saves, insights, ask, shown, walk>>

\* A journey run is found again by the schema version it was created under: only the newest can be.
ResetRun(k, i) ==
  /\ k = "journey" => i = Len(linked[k])
  /\ linked[k][i].status \in ResetStatuses[k]
  /\ k = "ai" \/ \A j \in DOMAIN linked[k] : linked[k][j].status \notin InProgress
  /\ linked' = [linked EXCEPT ![k][i].status = "queued"]
  /\ UNCHANGED <<analysis, merged, saves, insights, ask, shown, walk>>

StartRun(k, i) ==
  /\ linked[k][i].status = "queued"
  /\ linked' = [linked EXCEPT ![k][i].status = "running"]
  /\ UNCHANGED <<analysis, merged, saves, insights, ask, shown, walk>>

SaveRun(k, i) ==
  /\ linked[k][i].status = "running" /\ saves < MaxSaves
  /\ saves' = saves + 1
  /\ linked' = [linked EXCEPT ![k][i].data = saves + 1]
  /\ merged' = [merged EXCEPT ![k] = saves + 1]
  /\ UNCHANGED <<analysis, insights, ask, shown, walk>>

CloseRun(k, i) ==
  /\ linked[k][i].status \in InProgress
  /\ \E status \in {"completed", "partial", "failed", "canceled"} :
       /\ linked[k][i].status = "queued" \/ linked[k][i].data = 0 => status \in {"failed", "canceled"}
       /\ k = "custom" => status \in {"completed", "failed"}
       /\ linked' = [linked EXCEPT ![k][i].status = status]
  /\ UNCHANGED <<analysis, merged, saves, insights, ask, shown, walk>>

-----------------------------------------------------------------------------
(* SnapshotQueryService.                                                   *)

\* The newest run of a kind that a test on its status and owner lets through, or 0.
Newest(k, Test(_)) == LET S == {i \in DOMAIN linked[k] : Test(linked[k][i])} IN IF S = {} THEN 0 ELSE Max(S)
RunAt(k, i)        == IF i = 0 THEN NoRun ELSE linked[k][i]

LatestJourneyStatus   == RunAt("journey", Newest("journey", LAMBDA r : TRUE)).status
LatestCustomRunStatus == RunAt("custom", Newest("custom", LAMBDA r : TRUE)).status
FindLatestLinkedRun(actor) == Newest("ai", LAMBDA r : r.owner \in OwnerWhere(actor))

KindOf(view) == CASE view \in JOURNEY_VIEWS        -> "journey"
                  [] view = "custom"               -> "custom"
                  [] view \in AI_SEARCH_VIEW_NAMES -> "ai"
                  [] OTHER                         -> "static"

\* Which data a cached insight of a view belongs to; an AI view takes the newest run of any status.
ResolveViewDataVersion(view, actor) ==
  CASE KindOf(view) = "custom"  -> Newest("custom", LAMBDA r : r.status = "completed")
    [] KindOf(view) = "journey" -> Newest("journey", LAMBDA r : r.status \in {"completed", "partial"})
    [] KindOf(view) = "ai"      -> FindLatestLinkedRun(actor)
    [] OTHER                    -> 0

Answer(c, answer) == /\ shown' = [shown EXCEPT ![c] = answer]
                     /\ ask' = [ask EXCEPT ![c] = NoAsk]
Goto(c, at) == ask' = [ask EXCEPT ![c].at = at] /\ UNCHANGED shown

\* The controllers: getKeywords and postQuery ask for rows, generate asks for an insight.
Send(c, request) ==
  /\ ask[c].at = "idle" /\ shown[c] = NoAnswer
  /\ QueryDto(request) /\ (request.what = "list" => FilterKeywordsQueryDto(request) /\ request.view = "keywords")
  /\ ask' = [ask EXCEPT ![c] = [at |-> "load", request |-> request,
                                version |-> 0, run |-> 0, due |-> 0]]
  /\ UNCHANGED <<analysis, storeVars, insights, shown, walk>>

\* loadAnalysis and its two callers' answers to an analysis without results.
\* A row of another owner is answered like one that does not exist.
Owned == CanAccess(analysis.owner, Actor)
LoadAnalysis(c) ==
  /\ ask[c].at = "load"
  /\ IF ~Owned THEN Answer(c, [status |-> 404])
     ELSE IF ~analysis.snapshot THEN Answer(c, [status |-> 409])
     ELSE Goto(c, IF ask[c].request.what = "insight" THEN "version" ELSE "gate")
  /\ UNCHANGED <<analysis, storeVars, insights, walk>>

\* Of which data the view would show at this moment: what an insight must not be older than.
DataShown(view) ==
  CASE view \in JOURNEY_VIEWS /\ RunFeature(LatestJourneyStatus) = "ready" -> merged["journey"]
    [] view = "custom" /\ LatestCustomRunStatus = "completed" -> merged["custom"]
    [] view \in AI_SEARCH_VIEW_NAMES /\ RunFeature(RunAt("ai", FindLatestLinkedRun(Actor)).status) = "ready"
         -> RunAt("ai", FindLatestLinkedRun(Actor)).data
    [] OTHER -> 0

ResolveVersion(c) ==
  /\ ask[c].at = "version"
  /\ ask' = [ask EXCEPT ![c] = [@ EXCEPT !.at = "lookup", !.due = DataShown(ask[c].request.view),
                                         !.version = ResolveViewDataVersion(ask[c].request.view, Actor)]]
  /\ UNCHANGED <<analysis, storeVars, insights, shown, walk>>

\* Mutant: an insight is cached whatever the version of the data.
UnversionedKey(request, version) == <<request.view, request.filters>>
CacheKey(request, version) == <<request.view, request.filters, version>>

Lookup(c) ==
  LET key == CacheKey(ask[c].request, ask[c].version)
  IN /\ ask[c].at = "lookup"
     /\ IF key \in DOMAIN insights
        THEN Answer(c, [status |-> 200, insight |-> insights[key], due |-> ask[c].due])
        ELSE Goto(c, "gate")
     /\ UNCHANGED <<analysis, storeVars, insights, walk>>

\* assertExecutable: a view nobody knows is refused with 400, one whose feature is not ready with 409.
ViewOf(view)   == IF view = "custom" THEN CustomView ELSE BuiltinViews[view]
Known(view)    == view \in DOMAIN BuiltinViews \cup {"custom"}
Executable(view, features) == features[ViewOf(view).requiresFeature] = "ready"

QueryCustomView(c) == LatestCustomRunStatus = "completed"
QueryAiSearchView(c, run) ==
  Executable(ask[c].request.view, ComputeFeatures("none", RunAt("ai", run).status, "none")) /\ run # 0

Gate(c) ==
  LET view == ask[c].request.view
      run  == IF KindOf(view) = "ai" THEN FindLatestLinkedRun(Actor) ELSE 0
      ok   == CASE KindOf(view) = "custom" -> QueryCustomView(c)
                [] KindOf(view) = "ai"     -> QueryAiSearchView(c, run)
                [] KindOf(view) = "journey" -> Executable(view, ComputeFeatures(LatestJourneyStatus, "none", "none"))
                [] OTHER                    -> Executable(view, ComputeFeatures("none", "none", "none"))
  IN /\ ask[c].at = "gate"
     /\ IF ~Known(view) THEN Answer(c, [status |-> 400])
        ELSE IF ok THEN ask' = [ask EXCEPT ![c] = [@ EXCEPT !.at = "rows", !.run = run]] /\ UNCHANGED shown
             ELSE Answer(c, [status |-> 409])
     /\ UNCHANGED <<analysis, storeVars, insights, walk>>

\* mergeJourneyStage and mergeCustomLabel: a row the joined table does not name stays without.
MergeJourneyStage == {IF merged["journey"] = 0 THEN r ELSE r @@ [stage |-> StageOf(merged["journey"], r.nt)] : r \in Rows}
MergeCustomLabel  == {IF merged["custom"] = 0 THEN r ELSE r @@ [label |-> StageOf(merged["custom"], r.nt)] : r \in Rows}
\* The rows of an AI table come in any order.
LoadAiRows(view, run) == LET data == RunAt("ai", run).data
                         IN IF data = 0 THEN {} ELSE AiRows(AI_VIEW_SOURCE[view], data)

LoadRows(c) ==
  CASE KindOf(ask[c].request.view) = "journey" -> MergeJourneyStage
    [] KindOf(ask[c].request.view) = "custom"  -> MergeCustomLabel
    [] OTHER -> Rows

PageSizeOf(request) == IF "pageSize" \in DOMAIN request.pagination THEN request.pagination.pageSize ELSE DEFAULT_PAGE_SIZE
AssertPageSizeWithinMax(request) == PageSizeOf(request) <= Limits.maxPageSize
\* The columns of GET /keywords: nt stands for the text, and intent is called by its outer name.
ToResultRow(row) == [f \in {"nt", "avgMonthlySearches", "competition", "competitionIndex", "cpcLow", "cpcHigh"} |-> row[f]]
                    @@ [intentLabels |-> row.intent]
ListKeywords(request) ==
  LET page == SelectPage(ApplyFilter(Rows, request.filters), SortOf(request), request.pagination)
  IN IF AssertPageSizeWithinMax(request)
     THEN [status |-> 200, result |-> [page EXCEPT !.rows = [i \in DOMAIN @ |-> ToResultRow(@[i])]]]
     ELSE [status |-> 400]
\* The data the answer was read from, with the answer.
DataRead(c) == LET k == KindOf(ask[c].request.view)
               IN CASE k = "ai" -> RunAt("ai", ask[c].run).data [] k = "static" -> 0 [] OTHER -> merged[k]

AnswerTo(request, rows) == IF request.what = "list" THEN ListKeywords(request)
                           ELSE QueryWithView(rows, request, ViewOf(request.view), Limits)
OrdersOf(c) == IF KindOf(ask[c].request.view) = "ai"
               THEN SetToSeqs(LoadAiRows(ask[c].request.view, ask[c].run)) ELSE {LoadRows(c)}

Query(c) ==
  /\ ask[c].at = "rows"
  /\ \E answer \in {AnswerTo(ask[c].request, rows) : rows \in OrdersOf(c)}, read \in {DataRead(c)} :
       IF ask[c].request.what = "insight" /\ answer.status = 200
       THEN ask' = [ask EXCEPT ![c] = [@ EXCEPT !.at = "summarize", !.run = read]] /\ UNCHANGED <<shown, walk>>
       ELSE /\ Answer(c, IF answer.status # 200 THEN answer
                         ELSE [status |-> 200, result |-> answer.result, data |-> read, request |-> ask[c].request])
            /\ walk' = IF answer.status = 200 /\ "rows" \in DOMAIN answer.result /\ KindOf(ask[c].request.view) # "ai"
                       THEN [walk EXCEPT ![c] = @ \o [i \in DOMAIN answer.result.rows |-> answer.result.rows[i].nt]]
                       ELSE walk
  /\ UNCHANGED <<analysis, storeVars, insights>>

\* summarize: an answer of the model that is of no use is an error, and is not cached.
Cached(key, insight) == [k \in DOMAIN insights \cup {key} |-> IF k = key THEN insight ELSE insights[k]]
Summarize(c) ==
  /\ ask[c].at = "summarize"
  /\ \/ /\ Answer(c, [status |-> 200, insight |-> ask[c].run, due |-> ask[c].due])
        /\ insights' = Cached(CacheKey(ask[c].request, ask[c].version), ask[c].run)
     \/ /\ Answer(c, [status |-> 502])
        /\ UNCHANGED insights
  /\ UNCHANGED <<analysis, storeVars, walk>>

\* The reader goes on to the page the cursor leads to, or is done with the answer.
NextPage(c) ==
  /\ shown[c].status = 200 /\ "result" \in DOMAIN shown[c] /\ ask[c].at = "idle"
  /\ "cursor" \in DOMAIN shown[c].result /\ shown[c].result.cursor # Null
  /\ ask' = [ask EXCEPT ![c] = [at |-> "load", version |-> 0, run |-> 0, due |-> 0,
                request |-> [shown[c].request EXCEPT !.pagination = ("cursor" :> shown[c].result.cursor) @@ @]]]
  /\ shown' = [shown EXCEPT ![c] = NoAnswer]
  /\ UNCHANGED <<analysis, storeVars, insights, walk>>

Leave(c) ==
  /\ shown[c] # NoAnswer
  /\ shown' = [shown EXCEPT ![c] = NoAnswer] /\ walk' = [walk EXCEPT ![c] = <<>>]
  /\ UNCHANGED <<analysis, storeVars, insights, ask>>

Next ==
  \/ FinishAnalysis
  \/ \E k \in Kinds :
       \/ \E owner \in Owners : (k = "ai" \/ owner = Shared) /\ CreateRun(k, owner)
       \/ \E i \in DOMAIN linked[k] : ResetRun(k, i) \/ StartRun(k, i) \/ SaveRun(k, i) \/ CloseRun(k, i)
  \/ \E c \in Readers :
       \/ \E request \in Requests : Send(c, request)
       \/ LoadAnalysis(c) \/ ResolveVersion(c) \/ Lookup(c) \/ Gate(c) \/ Query(c) \/ Summarize(c)
       \/ NextPage(c) \/ Leave(c)

Spec == Init /\ [][Next]_readVars

\* The requests that the properties of the answers are about: insights of the journey's views and of
\* those that read the snapshot alone.
RequestsOK ==
  \A request \in Requests :
    /\ DOMAIN request = {"what", "view", "filters", "sort", "pagination", "select"}
    /\ request.what = "insight" => KindOf(request.view) \in {"journey", "static"}

-----------------------------------------------------------------------------
(* Properties.                                                             *)

\* Following the cursors of a table from its first page, while runs come and go, shows every row
\* that passes the filter exactly once.
WalkShowsEachRowOnce ==
  \A c \in Readers :
    LET a == shown[c]
    IN a.status = 200 /\ "result" \in DOMAIN a /\ "cursor" \in DOMAIN a.result /\ KindOf(a.request.view) # "ai"
         => /\ \A i, j \in DOMAIN walk[c] : walk[c][i] = walk[c][j] => i = j
            /\ a.result.cursor = Null => ToSet(walk[c]) = {r.nt : r \in ApplyFilter(Rows, a.request.filters)}
=============================================================================
