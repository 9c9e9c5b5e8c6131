---------------------------- MODULE ViewRegistry ----------------------------
(***************************************************************************)
(* The views a client may ask for, and QueryViewService, which refuses a   *)
(* request its view does not allow and otherwise lets the view build its   *)
(* result from the rows it is given.                                       *)
(***************************************************************************)
EXTENDS KeywordViews

\* The seven stages, in the order of the journey.
JOURNEY_STAGES == 1..7

Table(select, sort, feature) ==
  [kind |-> "table", allowedSelect |-> select, allowedSort |-> sort, requiresFeature |-> feature]
Chart(feature) == [kind |-> "chart", allowedSelect |-> {}, allowedSort |-> {}, requiresFeature |-> feature]
Trend          == [kind |-> "trend", allowedSelect |-> {}, allowedSort |-> {}, requiresFeature |-> "keyword_metrics"]
Summary        == [kind |-> "summary", allowedSelect |-> {}, allowedSort |-> {}, requiresFeature |-> "ai_search"]

AnswerColumns     == {"channel", "query", "answerText", "brands", "positive", "negative"}
CitedMediaColumns == {"mediaType", "count", "share"}
CitedPagesColumns == {"channel", "query", "link", "domain", "title", "mediaType"}
VisibilityColumns == {"channel", "groupKey", "brand", "mentions", "shareOfVoice", "citations", "exposure"}
QuestionColumns   == {"questionText", "intentType", "appearedKeywords", "estimatedImpressions"}
TopicColumns      == {"topic", "parentTopic", "keywordCount", "intentLabel"}

KeywordsView == Table({"text", "normalizedText", "avgMonthlySearches", "competition", "competitionIndex", "cpcLow",
                       "cpcHigh", "intent", "monthlyVolumes"}, SORT_FIELDS, "keyword_metrics")
JourneyView  == Table({"text", "normalizedText", "stage", "avgMonthlySearches"}, SORT_FIELDS, "journey")
CustomView   == Table({"text", "normalizedText", "label", "avgMonthlySearches"}, SORT_FIELDS, "keyword_metrics")
PlaceholderTableView(columns, feature) == Table(columns, columns, feature)
AiTableView(columns) == Table(columns, columns, "ai_search")

BuiltinViews ==
  [keywords |-> KeywordsView, trend |-> Trend, intent_distribution |-> Chart("keyword_metrics"),
   cpc_histogram |-> Chart("keyword_metrics"), journey |-> JourneyView, journey_funnel |-> Chart("journey"),
   serp_questions |-> PlaceholderTableView(QuestionColumns, "serp"),
   intent_topics  |-> PlaceholderTableView(TopicColumns, "topics"),
   ai_answers     |-> AiTableView(AnswerColumns), ai_cited_media |-> AiTableView(CitedMediaColumns),
   ai_cited_pages |-> AiTableView(CitedPagesColumns), brand_ai_visibility |-> AiTableView(VisibilityColumns),
   intent_ai_visibility |-> AiTableView(VisibilityColumns), journey_ai_visibility |-> AiTableView(VisibilityColumns),
   brand_ai_visibility_summary |-> Summary, intent_ai_visibility_summary |-> Summary,
   journey_ai_visibility_summary |-> Summary]

AI_VIEW_SOURCE ==
  [ai_answers |-> "answers", ai_cited_media |-> "cited", ai_cited_pages |-> "cited",
   brand_ai_visibility |-> "keyword", intent_ai_visibility |-> "intent", journey_ai_visibility |-> "journey",
   brand_ai_visibility_summary |-> "keyword", intent_ai_visibility_summary |-> "intent",
   journey_ai_visibility_summary |-> "journey"]
AI_SEARCH_VIEW_NAMES == DOMAIN AI_VIEW_SOURCE

Metadata == [v \in DOMAIN BuiltinViews |->
               [allowedSelect |-> BuiltinViews[v].allowedSelect, allowedFilters |-> FILTER_KEYS,
                allowedSort |-> BuiltinViews[v].allowedSort, responseShape |-> BuiltinViews[v].kind,
                requiresFeature |-> BuiltinViews[v].requiresFeature]]

-----------------------------------------------------------------------------
(* Building.  A request is [view, filters, sort, pagination, select]; sort *)
(* is a sequence, pagination a record of what is given.                    *)

SortOf(request) == IF request.sort = <<>> THEN DEFAULT_SORT ELSE request.sort[1]
\* The columns asked for, or all the view has.
SelectOf(request, allowed) == IF request.select = {} THEN allowed ELSE request.select
TableOf(request, allowed, page) == page @@ [columns |-> SelectOf(request, allowed)]

BuildKeywords(rows, request, view) ==
  TableOf(request, view.allowedSelect, SelectPage(ApplyFilter(rows, request.filters), SortOf(request), request.pagination))

CpcHistogram(rows, request, limits) ==
  Aggregate(ApplyFilter(rows, request.filters),
            [dimensions |-> <<[field |-> "cpcLow", kind |-> "bucket", width |-> 1]>>,
             measures |-> {[as |-> "count", fn |-> "count"]}, by |-> "bucket", dir |-> "asc"], limits)

\* Labels are told apart by a number, as the keywords are.
IntentDistribution(rows, request, limits) ==
  Aggregate(ApplyFilter(rows, request.filters),
            [dimensions |-> <<[field |-> "intent", kind |-> "explode"]>>,
             measures |-> {[as |-> "count", fn |-> "count"], [as |-> "keywords", fn |-> "countDistinct"]},
             by |-> "count", dir |-> "desc"], limits)

\* Every stage is shown, the ones that have no keyword with a zero.
JourneyFunnel(rows, request, limits) ==
  LET res == Aggregate(ApplyFilter(rows, request.filters),
                       [dimensions |-> <<[field |-> "stage", kind |-> "value"]>>,
                        measures |-> {[as |-> "count", fn |-> "count"]}, by |-> "none", dir |-> "asc"], limits)
  IN [groups |-> [stage \in JOURNEY_STAGES |->
        LET at == {g \in ToSet(res.groups) : g.key = <<stage>>}
        IN IF at = {} THEN 0 ELSE (CHOOSE g \in at : TRUE).measures["count"]]]

-----------------------------------------------------------------------------
(* ai-view-shape.ts.  rows is a sequence, in the order the table gave it.  *)

TextRow(words) == [avgMonthlySearches |-> Null, competition |-> "", competitionIndex |-> Null,
                   cpcLow |-> Null, cpcHigh |-> Null, intent |-> {}, words |-> words]
FilterByText(rows, f) == SelectSeq(rows, LAMBDA r : BuildPredicate(f, TextRow(r.words)))

AiSortRows(rows, sort) ==
  SetToSortSeq(ToSet(rows), LAMBDA a, b : Before(a, b, a[sort.field], b[sort.field], sort.direction, a.id, b.id))

\* Without a sort the rows stay as they came.
BuildTable(rows, request, view) ==
  LET filtered == FilterByText(rows, request.filters)
      sorted   == IF request.sort = <<>> THEN filtered ELSE AiSortRows(filtered, request.sort[1])
  IN TableOf(request, view.allowedSelect, PageOf(sorted, [i \in DOMAIN sorted |-> sorted[i].id], request.pagination))

BuildCitedMediaTable(rows, request, view) ==
  LET types == SetToSortSeq({r.mediaType : r \in ToSet(rows)}, <)
      Count(t) == Cardinality({i \in DOMAIN rows : rows[i].mediaType = t})
  IN BuildTable([i \in DOMAIN types |-> [id |-> types[i], mediaType |-> types[i], words |-> {},
                                         count |-> Count(types[i]), share |-> Count(types[i])]], request, view)

\* The exposure of a group is counted once, however many brands and channels its rows are about.
SumExposure(values) ==
  IF \A i \in DOMAIN values : values[i] = Null THEN Null
  ELSE FoldSeq(LAMBDA v, acc : acc + (IF v = Null THEN 0 ELSE v), 0, values)
BuildVisibilitySummary(rows, request) ==
  LET kept   == FilterByText(rows, request.filters)
      groups == SetToSeq({r.groupKey : r \in ToSet(kept)})
      First(g) == kept[Min({i \in DOMAIN kept : kept[i].groupKey = g})]
  IN [groups    |-> Len(groups),
      mentions  |-> FoldSeq(LAMBDA r, acc : acc + r.mentions, 0, kept),
      citations |-> FoldSeq(LAMBDA r, acc : acc + r.citations, 0, kept),
      exposure  |-> SumExposure([i \in DOMAIN groups |-> First(groups[i]).exposure])]

-----------------------------------------------------------------------------
(* QueryViewService.                                                       *)

RangeErrors(f) == {p \in RANGE_PAIRS : p[1] \in DOMAIN f /\ p[2] \in DOMAIN f /\ f[p[1]] > f[p[2]]}

\* FilterKeywordsQueryDto, FilterSpecDto and QueryDto: what the validation pipe lets through.
FilterSpecDto(f) == DOMAIN f \subseteq FILTER_KEYS /\ RangeErrors(f) = {}
PaginationDto(p) == \A k \in DOMAIN p \cap {"page", "pageSize"} : p[k] >= 1
FilterKeywordsQueryDto(request) == FilterSpecDto(request.filters) /\ PaginationDto(request.pagination)
                                   /\ \A s \in ToSet(request.sort) : s.field \in SORT_FIELDS
QueryDto(request) == FilterSpecDto(request.filters) /\ PaginationDto(request.pagination)

Refused(request, view, limits) ==
  \/ ~(request.select \subseteq view.allowedSelect)
  \/ ~(DOMAIN request.filters \subseteq FILTER_KEYS)
  \/ \E s \in ToSet(request.sort) : s.field \notin view.allowedSort
  \/ Len(request.sort) > 1
  \/ "pageSize" \in DOMAIN request.pagination /\ request.pagination.pageSize > limits.maxPageSize
  \/ RangeErrors(request.filters) # {}

Build(rows, request, view, limits) ==
  LET name == request.view
  IN CASE name \in {"keywords", "journey", "custom"} -> BuildKeywords(rows, request, view)
       [] name = "trend"               -> BuildTrend(ApplyFilter(rows, request.filters), 10)
       [] name = "intent_distribution" -> IntentDistribution(rows, request, limits)
       [] name = "cpc_histogram"       -> CpcHistogram(rows, request, limits)
       [] name = "journey_funnel"      -> JourneyFunnel(rows, request, limits)
       [] name = "ai_cited_media"      -> BuildCitedMediaTable(rows, request, view)
       [] view.kind = "summary"        -> BuildVisibilitySummary(rows, request)
       [] name \in AI_SEARCH_VIEW_NAMES -> BuildTable(rows, request, view)
       [] OTHER                        -> SelectPage({}, DEFAULT_SORT, request.pagination)

QueryWithView(rows, request, view, limits) ==
  IF Refused(request, view, limits) THEN [status |-> 400]
  ELSE LET result == Build(rows, request, view, limits)
       IN IF result = BoundsError THEN [status |-> 400] ELSE [status |-> 200, result |-> result]
=============================================================================
