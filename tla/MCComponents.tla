----------------------------- MODULE MCComponents -----------------------------
(***************************************************************************)
(* The components whose safety is checked, side by side: "which" picks the *)
(* one that runs, the others stay as they are.  AI search, the rate        *)
(* limiter, the state of the tracking lists and their page come with       *)
(* EXTENDS, the other components as instances, with their constants; topic *)
(* clustering and the custom classification share the variables of RunJob. *)
(***************************************************************************)
EXTENDS AiSearchRun, AdsThrottle, TrackedState, ReadState, TrackingScreen, MCSamples

VARIABLES
  which,
  rJob, rAttempts, rStalls, rLock, rStatus, rCount, rStage, rReqRun, rWstage, rWjob, rWmade,   \* RunJob, of the next two
  clusters,                                                              \* TopicRun
  labels, assigned, created, doomed, late,                               \* CustomClassifyRun
  client, refreshJob, sweepJobs, leasedUntil, trackedNow, events,        \* Tracking
  line, size, limit, stream, taken, known, misses, cursor, tasks, labelRedis, labelRows,                     \* LabelBatches
  metricRedis, metricRows, fetch,                                        \* AdsMetrics
  tables, analyses,                                                      \* AiVisibility
  run, rows, reader,                                                     \* TopicContents
  keywordAnalysis, linked, merged, saves, insights, ask, walk,           \* SnapshotQuery
  url, answers, trail,                                                   \* KeywordsScreen
  page, journey, stages                                                  \* StageColumn

OwnedFaults == RunFaults \ {"lockLost"}
Null == -1
MCOffset == [x \in Callers |-> IF x = 1 THEN 1 ELSE 0]

TopicRuns == INSTANCE TopicRun WITH
  Resettable <- {"failed"}, AtomicReset <- FALSE, Faults <- {"queueFails", "workerCrash"},
  job <- rJob, attempts <- rAttempts, stalls <- rStalls, lock <- rLock, status <- rStatus, count <- rCount, stage <- rStage, reqRun <- rReqRun, wstage <- rWstage, wjob <- rWjob, wmade <- rWmade

CustomRuns == INSTANCE CustomClassifyRun WITH
  Ids <- {"a", "b"}, Clients <- {"c"}, Resettable <- {"failed"}, AtomicReset <- FALSE, Faults <- {"queueFails"},
  job <- rJob, attempts <- rAttempts, stalls <- rStalls, lock <- rLock, status <- rStatus, count <- rCount, stage <- rStage, reqRun <- rReqRun, wstage <- rWstage, wjob <- rWjob, wmade <- rWmade

\* Two instances of the tracking lists, on the same variables: the requests of two clients, and the sweeps.
TrackedLists == INSTANCE Tracking WITH
  Callers <- {"u", "machine"},
  Lists <- {"l1", "l2"}, Existing <- {"l1"}, Names <- {"n", "m"}, Contexts <- {"x", "y"}, Keys <- {1, 2},
  Values <- {0, 1}, NoVolume <- 0, Topics <- {[owner |-> "u", context |-> "x", keys |-> {1, 2}]},
  Clients <- {"c1", "c2"}, Workers <- {}, Operations <- {"create", "add", "rename", "delete"}, Faults <- {"addFails"},
  MaxItems <- 1, BatchSize <- 1, LeaseTime <- 1, KeepSeries <- TRUE, MaxTime <- 1, MaxEvents <- 3, now <- trackedNow
TrackSweeps == INSTANCE Tracking WITH
  Callers <- {"u"},
  Lists <- {"l1"}, Existing <- {"l1"}, Names <- {"n"}, Contexts <- {"x"}, Keys <- {1}, Values <- {0, 1}, NoVolume <- 0, Topics <- {},
  Clients <- {"c1"}, Operations <- {"add", "remove", "refresh"}, Faults <- {"workerDies", "fetchFails"},
  MaxItems <- 1, BatchSize <- 1, LeaseTime <- 1, KeepSeries <- FALSE, MaxTime <- 2, MaxEvents <- 4, now <- trackedNow
ASSUME TrackingAssumption == TrackedLists!ConstantsOK /\ TrackSweeps!ConstantsOK

\* Three instances of labelling, on the same variables: whatever an answer may name, calls that overlap
\* the rest of a rejected one, and three items in chunks of one or in one chunk that is halved.
LabelLines == INSTANCE LabelBatches WITH
  Streams <- {<< <<1>>, <<2>> >>, << <<1, 2>> >>}, Sizes <- {0, 1}, Limits <- {0, 1}, DefaultSize <- 2, DefaultLimit <- 2,
  MaxStrays <- 1, MaxOrphans <- 0, LlmFaults <- {"refusal", "length", "error", "cacheFails"}, redis <- labelRedis, rows <- labelRows
LabelCalls == INSTANCE LabelBatches WITH
  Streams <- {<< <<1>>, <<2>> >>}, Sizes <- {1, 2}, Limits <- {2}, DefaultSize <- 1, DefaultLimit <- 1,
  MaxStrays <- 0, MaxOrphans <- 1, LlmFaults <- {"length", "error"}, redis <- labelRedis, rows <- labelRows
LabelChunks == INSTANCE LabelBatches WITH
  Streams <- {<< <<1>>, <<2, 3>> >>}, Sizes <- {1, 3}, Limits <- {2}, DefaultSize <- 1, DefaultLimit <- 1,
  MaxStrays <- 0, MaxOrphans <- 0, LlmFaults <- {"length", "error"}, redis <- labelRedis, rows <- labelRows

-----------------------------------------------------------------------------
AdsRequests ==
  {[mode |-> "exact", seeds |-> <<<<1, 1>>, <<2, 1>>, <<3, 1>>>>, geo |-> 1],
   [mode |-> "exact", seeds |-> <<<<2, 2>>>>, geo |-> 1],
   [mode |-> "expand", seeds |-> <<<<3, 1>>>>, geo |-> 1]}
RawMetrics(nt, geo) ==
  CASE nt = 1 -> [avg_monthly_searches |-> 0, bid_micros |-> -2, competition |-> 5,
                  monthly_search_volumes |-> {[year |-> 9, month |-> 2, monthly_searches |-> Null], [year |-> 9, month |-> 1, monthly_searches |-> 3]}]
    [] nt = 2 -> <<>>
    [] nt = 3 -> [avg_monthly_searches |-> -3, bid_micros |-> Null, competition |-> 0, monthly_search_volumes |-> {}]
    [] nt = 4 -> [avg_monthly_searches |-> Null, bid_micros |-> 5, competition |-> 2, monthly_search_volumes |-> {}]
RelatedTo(nt) == IF nt = 3 THEN {1} ELSE {4}
Metrics == INSTANCE AdsMetrics WITH
  Runs <- {1, 2}, Requests <- AdsRequests, Variants <- {{1, 2}, {3}, {4}}, Raw <- RawMetrics, Related <- RelatedTo,
  SeedBatchSize <- 1, HistoricalBatchSize <- 2, CacheFaults <- {"redis", "db", "ads"},
  redis <- metricRedis, db <- metricRows, run <- fetch

Contents == INSTANCE TopicContents WITH
  Keywords <- <<[nt |-> "k1", volume |-> 5], [nt |-> "k2", volume |-> Null], [nt |-> "k3", volume |-> 3], [nt |-> "k4", volume |-> 0]>>,
  Probability <- <<1, 3, 2, 2>>,
  Labelings <- {<<0, 1, 0, -1>>, <<2, 0, 1, 1>>, <<-1, -1, -1, -1>>},
  Names <- {"", "a", "b"}, ClusterRetries <- 1, TopK <- 1, BatchClusters <- 2, MaxAttempts <- 2

Visibility == INSTANCE AiVisibility WITH
  CaptureSets <- CaptureLists, BrandSets <- BrandLists,
  BrandsIn <- FoundBrands, SentimentOf <- FoundSentiment, MediaOf <- FoundMedia,
  IntentOf <- StoredIntent, StageOf <- StoredStage, VolumeOf <- StoredVolume, MaxAnalyses <- 2, Overlap <- FALSE

-----------------------------------------------------------------------------
\* Two instances of the queries: views of the journey, and views of the AI answers.
Queries == INSTANCE SnapshotQuery WITH
  Actor <- "u", Readers <- {"c"}, Kinds <- {"journey"},
  Rows <- SnapshotRows,
  Requests <- Asked, Limits <- ApiLimits, MaxPerKind <- 2, MaxSaves <- 2, StageOf <- StageInSnapshot, AiRows <- NoAiRows,
  analysis <- keywordAnalysis
AiQueries == INSTANCE SnapshotQuery WITH
  Actor <- "u", Readers <- {"c"}, Kinds <- {"ai"},
  Rows <- SnapshotRows,
  Requests <- AskedOfAi, Limits <- ApiLimits, MaxPerKind <- 2, MaxSaves <- 1, StageOf <- StageInSnapshot, AiRows <- AiRowsOf,
  analysis <- keywordAnalysis

\* The requests meet the premise under which the properties of the answers are proved.
ASSUME ReadingAssumption == Queries!RequestsOK /\ AiQueries!RequestsOK

ScreenRow(nt, volume, index, words) ==
  [nt |-> nt, text |-> nt, words |-> words, avgMonthlySearches |-> volume, competition |-> "LOW", competitionIndex |-> index,
   cpcLow |-> 1, cpcHigh |-> 2, intent |-> {1}, monthly |-> (1 :> volume)]
Given(given, wrong) == [given |-> given, wrong |-> wrong]
Screen == INSTANCE KeywordsScreen WITH
  Rows <- {ScreenRow(1, 5, 1, {1}), ScreenRow(2, Null, 0, {1}), ScreenRow(3, 5, 2, {})},
  Limits <- ApiLimits, ServerPageSize <- 1, Config <- [pageSize |-> 1, maxPageSize |-> 2, offsetMaxPage |-> 1],
  Links <- {Given(<<>>, {}), Given([cursor |-> 1, page |-> 2, pageSize |-> 1], {}),
            Given([page |-> 1, filters |-> Given([volumeMin |-> 1, competitionIndexMin |-> 1, q |-> 1], {"q"})], {"page"})},
  Drafts <- {[volumeMin |-> 2, q |-> 1, intent |-> {1}], [volumeMax |-> 1]}, Fields <- {"volume", "competitionIndex"},
  PageSizes <- {1}, Sorts <- {[field |-> "text", direction |-> "asc"]}, MaxCached <- 2, MaxTrail <- 2

TableRow(nt) == [nt |-> nt, text |-> nt, avgMonthlySearches |-> nt]
StageInRun(nt) == IF nt = 2 THEN Null ELSE nt
Column == INSTANCE StageColumn WITH
  TableRows <- {TableRow(1), TableRow(2), TableRow(3), TableRow(4)}, RunStage <- StageInRun, QueryPageSize <- 1, MAX_QUERY_PAGES <- 3

-----------------------------------------------------------------------------
sharedVars     == <<rJob, rAttempts, rStalls, rLock, rStatus, rCount, rStage, rReqRun, rWstage, rWjob, rWmade>>
customVars     == <<labels, assigned, created, doomed, late>>
trackVars      == <<list, member, series, client, slot, refreshJob, sweepJobs, leasedUntil, disturbed, trackedNow, events>>
labelVars      == <<line, size, limit, stream, taken, known, misses, cursor, tasks, labelRedis, labelRows>>
metricVars     == <<metricRedis, metricRows, fetch>>
visibilityVars == <<tables, analyses>>
contentVars    == <<run, rows, reader>>
queryVars      == <<keywordAnalysis, linked, merged, saves, insights, ask, shown, walk>>
screenVars     == <<url, answers, trail>>
columnVars     == <<page, journey, stages>>
searchVars     == <<runVars, storeVars, slotVars>>
rowSide        == <<sharedVars, clusters, customVars, trackVars>>
readSide       == <<queryVars, screenVars, columnVars, trackingVars>>
answerSide     == <<visibilityVars, contentVars>>
adsSide        == <<labelVars, avars, metricVars>>

\* A component that does not run stays in its initial state, or is nowhere.
SumInit ==
  /\ which \in {"search", "topics", "custom", "lists", "sweeps", "labels", "labelCalls", "labelChunks", "throttle", "metrics",
                "visibility", "contents", "queries", "aiQueries", "screen", "column", "page"}
  /\ Init /\ ThrottleInit
  /\ CASE which = "topics" -> TopicRuns!Init  /\ labels = Nil /\ assigned = Nil /\ created = Nil /\ doomed = Nil /\ late = Nil
       [] which = "custom" -> CustomRuns!Init /\ clusters = Nil
       [] OTHER            -> /\ rJob = Nil /\ rAttempts = Nil /\ rStalls = Nil /\ rLock = Nil /\ rStatus = Nil /\ rCount = Nil
                              /\ rStage = Nil /\ rReqRun = Nil /\ rWstage = Nil /\ rWjob = Nil /\ rWmade = Nil
                              /\ clusters = Nil /\ labels = Nil /\ assigned = Nil /\ created = Nil /\ doomed = Nil
                              /\ late = Nil
  /\ CASE which = "lists"  -> TrackedLists!Init
       [] which = "sweeps" -> TrackSweeps!Init
       [] OTHER            -> /\ list = Nil /\ member = Nil /\ series = Nil /\ client = Nil /\ slot = Nil /\ refreshJob = Nil
                              /\ sweepJobs = Nil /\ leasedUntil = Nil /\ disturbed = {} /\ trackedNow = Nil /\ events = Nil
  /\ CASE which = "labels"      -> LabelLines!Init
       [] which = "labelCalls"  -> LabelCalls!Init
       [] which = "labelChunks" -> LabelChunks!Init
       [] OTHER -> /\ line = Nil /\ size = Nil /\ limit = Nil /\ stream = Nil /\ taken = Nil /\ known = Nil /\ misses = Nil
                   /\ cursor = Nil /\ tasks = Nil /\ labelRedis = Nil /\ labelRows = Nil
  /\ IF which = "metrics" THEN Metrics!Init
     ELSE /\ metricRedis = Nil /\ metricRows = Nil /\ fetch = Nil
  /\ IF which = "visibility" THEN Visibility!Init
     ELSE /\ tables = Nil /\ analyses = Nil
  /\ IF which = "contents" THEN Contents!Init
     ELSE /\ run = Nil /\ rows = Nil /\ reader = Nil
  /\ CASE which = "queries"   -> Queries!Init
       [] which = "aiQueries" -> AiQueries!Init
       [] OTHER -> /\ keywordAnalysis = Nil /\ linked = Nil /\ merged = Nil /\ saves = Nil /\ insights = Nil /\ ask = Nil /\ shown = Nil
                   /\ walk = Nil
  /\ IF which = "screen" THEN Screen!Init
     ELSE /\ url = Nil /\ answers = Nil /\ trail = Nil
  /\ IF which = "column" THEN Column!Init
     ELSE /\ page = Nil /\ journey = Nil /\ stages = Nil
  /\ IF which = "page" THEN ScreenInit
     ELSE /\ server = Nil /\ listRows = {} /\ loading = TRUE /\ failed = Nil /\ renaming = Nil /\ selected = Nil /\ members = Nil
          /\ membersLoading = TRUE /\ detailFailed = Nil /\ deleting = Nil /\ removing = Nil /\ error = Nil /\ requests = {}
          /\ sent = Nil /\ filledBy = Nil /\ raced = TRUE /\ overtaken = TRUE /\ altered = Nil
SumNext ==
  /\ UNCHANGED which
  /\ \/ which = "search" /\ Next /\ UNCHANGED <<rowSide, adsSide, answerSide, readSide>>
     \/ /\ \/ which = "topics" /\ TopicRuns!Next    /\ UNCHANGED <<customVars, trackVars>>
           \/ which = "custom" /\ CustomRuns!Next   /\ UNCHANGED <<clusters, trackVars>>
           \/ which = "lists"  /\ TrackedLists!Next /\ UNCHANGED <<sharedVars, clusters, customVars>>
           \/ which = "sweeps" /\ TrackSweeps!Next  /\ UNCHANGED <<sharedVars, clusters, customVars>>
        /\ UNCHANGED <<searchVars, adsSide, answerSide, readSide>>
     \/ /\ \/ which = "labels"   /\ LabelLines!Next /\ UNCHANGED <<avars, metricVars>>
           \/ which = "labelCalls"  /\ LabelCalls!Next  /\ UNCHANGED <<avars, metricVars>>
           \/ which = "labelChunks" /\ LabelChunks!Next /\ UNCHANGED <<avars, metricVars>>
           \/ which = "throttle" /\ ThrottleNext   /\ UNCHANGED <<labelVars, metricVars>>
           \/ which = "metrics"  /\ Metrics!Next    /\ UNCHANGED <<labelVars, avars>>
        /\ UNCHANGED <<searchVars, rowSide, answerSide, readSide>>
     \/ /\ \/ which = "visibility" /\ Visibility!Next /\ UNCHANGED contentVars
           \/ which = "contents"   /\ Contents!Next   /\ UNCHANGED visibilityVars
        /\ UNCHANGED <<searchVars, rowSide, adsSide, readSide>>
     \/ /\ \/ which = "queries"   /\ Queries!Next   /\ UNCHANGED <<screenVars, columnVars, trackingVars>>
           \/ which = "aiQueries" /\ AiQueries!Next /\ UNCHANGED <<screenVars, columnVars, trackingVars>>
           \/ which = "screen"    /\ Screen!Next    /\ UNCHANGED <<queryVars, columnVars, trackingVars>>
           \/ which = "column"    /\ Column!Next    /\ UNCHANGED <<queryVars, screenVars, trackingVars>>
           \/ which = "page"      /\ ScreenNext      /\ UNCHANGED <<queryVars, screenVars, columnVars>>
        /\ UNCHANGED <<searchVars, rowSide, adsSide, answerSide>>
SumSpec == SumInit /\ [][SumNext]_<<which, searchVars, rowSide, adsSide, answerSide, readSide>>

-----------------------------------------------------------------------------
(* The properties of the components, each stated in its module.            *)
TypesOK ==
  /\ which = "search"     => TypeOK
  /\ which = "topics"     => TopicRuns!TypeOK
  /\ which = "custom"     => CustomRuns!TypeOK
  /\ which = "lists"      => TrackedLists!TypeOK
  /\ which = "sweeps"     => TrackSweeps!TypeOK
  /\ which = "labels"     => LabelLines!TypeOK
  /\ which = "labelCalls" => LabelCalls!TypeOK
  /\ which = "labelChunks" => LabelChunks!TypeOK
  /\ which = "throttle"   => ThrottleTypeOK
  /\ which = "metrics"    => Metrics!TypeOK
  /\ which = "visibility" => Visibility!TypeOK
  /\ which = "contents"   => Contents!TypeOK
  /\ which = "queries"    => Queries!TypeOK
  /\ which = "aiQueries"  => AiQueries!TypeOK
  /\ which = "screen"     => Screen!TypeOK
  /\ which = "column"     => Column!TypeOK
  /\ which = "page"       => ScreenTypeOK

DoneRunHasItsClusters == which = "topics" => TopicRuns!DoneRunHasItsClusters
TopicsAddUp == which = "contents" => Contents!TopicsAddUp

OneSavesAtATime == which = "custom" => CustomRuns!OneSavesAtATime
OrphansOnlyFromTheWindow == which = "custom" => CustomRuns!OrphansOnlyFromTheWindow

SeriesTellsTheChecks == which = "sweeps" => TrackSweeps!SeriesTellsTheChecks

EachItemIsSettledOnce ==
  /\ which = "labels"      => LabelLines!EachItemIsSettledOnce
  /\ which = "labelCalls"  => LabelCalls!EachItemIsSettledOnce
  /\ which = "labelChunks" => LabelChunks!EachItemIsSettledOnce

CacheAnswersItsKey == which = "metrics" => Metrics!CacheAnswersItsKey
ExactAnswersTheSeeds == which = "metrics" => Metrics!ExactAnswersTheSeeds

FiguresAgreeWithAnswers == which = "visibility" => Visibility!FiguresAgreeWithAnswers
AnswersHaveTheirOwnBrands == which = "visibility" => Visibility!AnswersHaveTheirOwnBrands

WalkShowsEachRowOnce == which = "queries" => Queries!WalkShowsEachRowOnce

FooterNamesTheRows == which = "screen" => Screen!FooterNamesTheRows
DashMeansNoStage == which = "column" => Column!DashMeansNoStage

Symmetry == Permutations(Clients) \cup Permutations(Workers)
=============================================================================
