---------------------------- MODULE LabelBatches ----------------------------
(***************************************************************************)
(* Labelling keywords, text blocks and references with an LLM.  A caller's *)
(* items arrive in one batch, or in several while it is still producing    *)
(* them; what the cache does not know is cut into chunks that are sent a   *)
(* few at a time; a chunk that is too long is halved; what cannot be       *)
(* labelled gets a fallback and never enters the cache.  The lines differ  *)
(* in what they cache and in how an answer is read back.                   *)
(***************************************************************************)
EXTENDS Integers, SequencesExt, FiniteSetsExt

CONSTANTS
  Streams,                \* what a caller may send: a sequence of batches of items
  Sizes, Limits,          \* configured batch sizes and concurrencies, as they come
  DefaultSize, DefaultLimit,
  MaxStrays,              \* bound on the results in a call about items that were not asked, or asked of another chunk
  MaxOrphans,             \* bound on the chunks of a rejected call that still run when the next call begins
  LlmFaults               \* subset of {"refusal", "length", "error", "cacheFails"}

VARIABLES
  line, size, limit,      \* the service, and its settings
  stream, taken,          \* batches to come; items that have come
  known, misses, cursor,  \* items the cache answered; the others; how many of these are in chunks
  tasks,                  \* per chunk of misses, how far it is; those of a rejected call come first and are not heard
  redis, rows             \* cached labels: in Redis, in keyword_intents

service   == <<line, size, limit>>
callVars  == <<stream, taken, known, misses, cursor, tasks>>
labelVars == <<service, callVars, redis, rows>>

Lines       == {"intent", "journey", "custom", "media", "sentiment", "brands", "topics"}
None        == "none"

\* What the services differ in: their caches, whether batches may come one by one, and whether an
\* answer names the item it is about or is matched by its place.
IntentService      == [caches |-> {"redis", "rows"}, streamed |-> TRUE, byId |-> TRUE]
JourneyService     == [caches |-> {"redis"}, streamed |-> FALSE, byId |-> TRUE]
CustomClassifyAssignService == [caches |-> {"redis"}, streamed |-> FALSE, byId |-> TRUE]
MediaClassifierService == [caches |-> {}, streamed |-> FALSE, byId |-> TRUE]
SentimentService       == [caches |-> {}, streamed |-> FALSE, byId |-> TRUE]
BrandExtractionService == [caches |-> {}, streamed |-> FALSE, byId |-> TRUE]
TopicNamingService     == [caches |-> {}, streamed |-> FALSE, byId |-> FALSE]
Service == [intent |-> IntentService, journey |-> JourneyService, custom |-> CustomClassifyAssignService,
            media |-> MediaClassifierService, sentiment |-> SentimentService, brands |-> BrandExtractionService,
            topics |-> TopicNamingService]
CachedLines == {n \in Lines : "redis" \in Service[n].caches}
Label       == {"valid", "junk"}          \* a value, in the enum of its line or not
\* What an answer says of an item it names, once or several times: its last result is usable, none
\* is, or a usable one is followed by one that is not.
Results     == Label \cup {"spoilt"}
LastOf(v)   == IF v = "spoilt" THEN "junk" ELSE v
BestOf(v)   == IF v = "spoilt" THEN "valid" ELSE v
Items       == UNION {ToSet(FlattenSeq(s)) : s \in Streams}
Labelled    == UNION {[d -> Results] : d \in SUBSET Items}

SanitizePositiveInt(value, fallback) == IF value >= 1 THEN value ELSE fallback

Task   == [at: {"waiting", "running", "writing", "done", "threw"}, heard: BOOLEAN, of: Seq(Items),
           chunks: Seq(Seq(Items)), asked: Seq(Items), collected: Labelled, review: SUBSET Items]
NoAnswer == [i \in {} |-> "junk"]
Queued(chunk) == [at |-> "waiting", heard |-> TRUE, of |-> chunk, chunks |-> <<chunk>>, asked |-> <<>>, collected |-> NoAnswer, review |-> {}]

Init ==
  /\ line = None /\ size = 1 /\ limit = 1
  /\ stream = <<>> /\ taken = <<>> /\ known = [i \in {} |-> "valid"]
  /\ misses = <<>> /\ cursor = 0 /\ tasks = <<>>
  /\ redis = [i \in Items |-> None]
  /\ rows = [i \in Items |-> None]

TypeOK ==
  /\ line \in Lines \cup {None} /\ size >= 1 /\ limit >= 1
  /\ stream \in Seq(Seq(Items)) /\ {taken, misses} \subseteq Seq(Items)
  /\ DOMAIN known \subseteq Items /\ cursor \in 0..Len(misses)
  /\ \A t \in DOMAIN tasks : tasks[t] \in Task
  /\ {redis, rows} \subseteq [Items -> Label \cup {None}]

-----------------------------------------------------------------------------
(* What an answer, or a cached value, is worth. *)

\* cleanLabels and cleanLabel keep what is in the enum; an empty rest is no label.
CleanLabels(v) == IF v = "valid" THEN v ELSE None
CleanStage(v)  == IF v = "valid" THEN v ELSE None
CleanLabel(v)  == IF v = "valid" THEN v ELSE None
CleanType(v)   == IF v = "valid" THEN v ELSE None
ToBinary(v)    == IF v = "valid" THEN v ELSE None
\* A mention of a brand is kept in the model's words unless the profile knows it better.
MatchBrand(v)  == "valid"
CleanNaming(v) == IF v = "valid" THEN v ELSE None

Clean(n, v) ==
  CASE n = "intent"  -> CleanLabels(v) [] n = "journey"   -> CleanStage(v) [] n = "custom" -> CleanLabel(v)
    [] n = "media"   -> CleanType(v)   [] n = "sentiment" -> ToBinary(v)   [] n = "brands" -> MatchBrand(v)
    [] n = "topics"  -> CleanNaming(v)

-----------------------------------------------------------------------------
(* The caches: reads and writes are best efforts, only usable labels count. *)

Usable(n, values, batch) == {i \in ToSet(batch) : values[i] # None /\ Clean(n, values[i]) # None}

\* IntentCache.mget falls back to the table and warms Redis from it.
IntentHits(batch)  == Usable("intent", [i \in Items |-> IF redis[i] # None THEN redis[i] ELSE rows[i]], batch)
WarmIntents(batch) == [i \in Items |-> IF i \in ToSet(batch) /\ redis[i] = None THEN rows[i] ELSE redis[i]]
JourneyHits(batch) == Usable("journey", redis, batch)
CustomHits(batch)  == Usable("custom", redis, batch)

Hits(batch) ==
  CASE line = "intent"  -> IntentHits(batch)
    [] line = "journey" -> JourneyHits(batch)
    [] line = "custom"  -> CustomHits(batch)
    [] line \notin CachedLines -> {}

\* mset takes every result for itself, also one about an item that was not asked or that a later one overrides.
Good(n, collected) == {i \in DOMAIN collected : Clean(n, BestOf(collected[i])) # None}
Stored(n, collected) == [i \in Items |-> IF i \in Good(n, collected) THEN BestOf(collected[i]) ELSE redis[i]]
StoredRows(collected) == [i \in Items |-> IF i \in Good("intent", collected) THEN BestOf(collected[i]) ELSE rows[i]]

-----------------------------------------------------------------------------
(* A call: batches come in and are cut into chunks. *)

Construct ==
  /\ line = None
  /\ line' \in Lines
  /\ \E n \in Sizes, m \in Limits : size' = SanitizePositiveInt(n, DefaultSize) /\ limit' = SanitizePositiveInt(m, DefaultLimit)
  /\ UNCHANGED <<callVars, redis, rows>>

Call ==
  /\ line # None /\ taken = <<>> /\ stream = <<>> /\ Len(tasks) <= MaxOrphans
  /\ \E s \in Streams : stream' = IF Service[line].streamed THEN s ELSE <<FlattenSeq(s)>>
  /\ UNCHANGED <<service, taken, known, misses, cursor, tasks, redis, rows>>

FullChunks(rest, from) == [n \in 1..((Len(rest) - from) \div size) |-> SubSeq(rest, from + (n - 1) * size + 1, from + n * size)]

TakeBatch ==
  LET batch == Head(stream) IN
  /\ stream # <<>>
  /\ \E hits \in {Hits(batch)} \cup IF "cacheFails" \in LlmFaults THEN {{}} ELSE {} :
       LET m == misses \o SelectSeq(batch, LAMBDA i : i \notin hits)
           full == FullChunks(m, cursor) IN
       /\ known' = [i \in DOMAIN known \cup hits |-> "valid"]
       /\ misses' = m
       /\ cursor' = cursor + Len(full) * size
       /\ tasks' = tasks \o [n \in DOMAIN full |-> Queued(full[n])]
       /\ redis' = IF "rows" \in Service[line].caches /\ hits # {} THEN WarmIntents(batch) ELSE redis
  /\ stream' = Tail(stream)
  /\ taken' = taken \o batch
  /\ UNCHANGED <<service, rows>>

LastChunk ==
  /\ stream = <<>> /\ cursor < Len(misses)
  /\ tasks' = Append(tasks, Queued(SubSeq(misses, cursor + 1, Len(misses))))
  /\ cursor' = Len(misses)
  /\ UNCHANGED <<service, stream, taken, known, misses, redis, rows>>

-----------------------------------------------------------------------------
(* A chunk: the pLimit of the service lets a few run, those that nobody hears any more included. *)

Running == {t \in DOMAIN tasks : tasks[t].at \in {"running", "writing"}}

StartTask(t) ==
  /\ tasks[t].at = "waiting" /\ Cardinality(Running) < limit
  /\ tasks' = [tasks EXCEPT ![t].at = "running"]
  /\ UNCHANGED <<service, stream, taken, known, misses, cursor, redis, rows>>

\* Results in their order: of an item named twice the later result counts.
Then(v, w) == IF w = "junk" /\ v # "junk" THEN "spoilt" ELSE w
Joined(c, d) == [i \in DOMAIN c \cup DOMAIN d |-> IF i \notin DOMAIN d THEN c[i]
                                                ELSE IF i \notin DOMAIN c THEN d[i] ELSE Then(c[i], d[i])]

\* The last chunk of a task, or the next of its halves.
Settle(t, collected, review) ==
  LET rest == Tail(tasks[t].chunks) IN
  tasks' = [tasks EXCEPT ![t] = [@ EXCEPT !.chunks = rest, !.asked = @ \o Head(tasks[t].chunks),
                                          !.collected = Joined(@, collected), !.review = @ \cup review,
                                          !.at = IF rest # <<>> THEN "running" ELSE "writing"]]

\* An answer may leave items out, name them again and name others.  Topic names come without ids: as
\* many as there are clusters, or none counts.
Strays(task) == DOMAIN task.collected \ ToSet(task.of)
Answers(t) ==
  LET items == ToSet(Head(tasks[t].chunks))
      strays == MapThenSumSet(LAMBDA u : Cardinality(Strays(tasks[u])), DOMAIN tasks) IN
  IF ~Service[line].byId THEN {[i \in items |-> v] : v \in Label} \cup {NoAnswer}
  ELSE UNION {[d -> Results] : d \in {e \in SUBSET Items : strays + Cardinality(e \ ToSet(tasks[t].of)) <= MaxStrays}}

HalvedInPlace(chunk) == <<SubSeq(chunk, 1, Len(chunk) \div 2), SubSeq(chunk, Len(chunk) \div 2 + 2, Len(chunk))>>
Halved(chunk) == LET mid == (Len(chunk) + 1) \div 2 IN <<SubSeq(chunk, 1, mid), SubSeq(chunk, mid + 1, Len(chunk))>>

ResilientChunk(t) ==
  LET chunk == Head(tasks[t].chunks) IN
  /\ tasks[t].at = "running"
  /\ \/ \E answer \in Answers(t) : Settle(t, answer, {})
     \/ /\ "refusal" \in LlmFaults            \* refused, malformed or filtered
        /\ Settle(t, NoAnswer, ToSet(chunk))
     \/ /\ "length" \in LlmFaults
        /\ IF Len(chunk) = 1 THEN Settle(t, NoAnswer, ToSet(chunk))
           ELSE tasks' = [tasks EXCEPT ![t].chunks = Halved(chunk) \o Tail(@)]
     \/ /\ "error" \in LlmFaults
        /\ tasks' = IF tasks[t].heard THEN [tasks EXCEPT ![t].at = "threw"] ELSE RemoveAt(tasks, t)
  /\ UNCHANGED <<service, stream, taken, known, misses, cursor, redis, rows>>

\* labelChunkAndCache and its siblings, after the answer.
WriteCache(t) ==
  LET c == tasks[t].collected IN
  /\ tasks[t].at = "writing"
  /\ tasks' = IF tasks[t].heard THEN [tasks EXCEPT ![t].at = "done"] ELSE RemoveAt(tasks, t)
  /\ \/ redis' = IF line \in CachedLines THEN Stored(line, c) ELSE redis
     \/ "cacheFails" \in LlmFaults /\ UNCHANGED redis
  /\ \/ rows' = IF "rows" \in Service[line].caches THEN StoredRows(c) ELSE rows
     \/ "cacheFails" \in LlmFaults /\ UNCHANGED rows
  /\ UNCHANGED <<service, stream, taken, known, misses, cursor>>

Heard    == {t \in DOMAIN tasks : tasks[t].heard}
AllSent  == stream = <<>> /\ cursor = Len(misses)
Threw    == \E t \in Heard : tasks[t].at = "threw"
Returned == AllSent /\ \A t \in Heard : tasks[t].at = "done"

\* The results of the cache first, then those of the chunks; the last one about an item counts, and
\* when it is no usable label the item gets the fallback.
PostProcess ==
  LET answered(i) == {t \in Heard : i \in DOMAIN tasks[t].collected} IN
  [n \in DOMAIN taken |->
     LET i == taken[n] IN
     IF answered(i) = {} THEN IF i \in DOMAIN known THEN "valid" ELSE "fallback"
     ELSE IF Clean(line, LastOf(tasks[Max(answered(i))].collected[i])) # None THEN "valid" ELSE "fallback"]

\* The call returns, or the first error rejects it: the other chunks go on, also those that still
\* wait for their turn, and write the caches though nobody hears of them.
Unheard(task) == [task EXCEPT !.heard = FALSE, !.asked = <<>>, !.review = {}]
Return ==
  /\ taken # <<>> /\ AllSent
  /\ Returned \/ Threw
  /\ LET going == SelectSeq(tasks, LAMBDA task : task.at \in {"waiting", "running", "writing"}) IN
     tasks' = [t \in DOMAIN going |-> Unheard(going[t])]
  /\ taken' = <<>> /\ known' = [i \in {} |-> "valid"]
  /\ misses' = <<>> /\ cursor' = 0
  /\ UNCHANGED <<service, stream, redis, rows>>

Next == Construct \/ Call \/ TakeBatch \/ LastChunk \/ Return \/ \E t \in DOMAIN tasks : StartTask(t) \/ ResilientChunk(t) \/ WriteCache(t)

Spec == Init /\ [][Next]_labelVars

-----------------------------------------------------------------------------
(* However the batches arrive, whatever the cache knows and however often  *)
(* a chunk is halved, the chunks of a call hold every item the cache did   *)
(* not answer once and in order, and the model is asked about each of them *)
(* once.  No more chunks run than the service allows, those that outlive a *)
(* rejected call counted.  Whatever an answer names, and however often,    *)
(* neither cache takes in a label that is not one.  A result is a label    *)
(* only where the cache or the model had one for that item, and is that    *)
(* label unless some result about the item was unusable.                   *)
EachItemIsSettledOnce ==
  LET heard == SelectSeq(tasks, LAMBDA task : task.heard)
      usable == DOMAIN known \cup UNION {Good(line, tasks[t].collected) : t \in Heard}
      doubted == UNION {{i \in DOMAIN tasks[t].collected : tasks[t].collected[i] # "valid"} : t \in Heard} IN
  /\ FlattenSeq([t \in DOMAIN heard |-> heard[t].of]) = SubSeq(misses, 1, cursor)
  /\ \A t \in DOMAIN heard : heard[t].asked \o FlattenSeq(heard[t].chunks) = heard[t].of
  /\ Cardinality(Running) <= limit
  /\ \A i \in Items : {redis[i], rows[i]} \subseteq {None, "valid"}
  /\ Returned => \A n \in DOMAIN taken :
       /\ PostProcess[n] = "valid" => taken[n] \in usable
       /\ taken[n] \in usable \ doubted => PostProcess[n] = "valid"
=============================================================================
