----------------------------- MODULE AdsMetrics ------------------------------
(***************************************************************************)
(* Where the metrics of a keyword come from: Google Ads, in batches, and   *)
(* before that the cache, which is Redis with the table keywords behind    *)
(* it.  Analyses read and write the cache at the same time.                *)
(***************************************************************************)
EXTENDS Integers, Sequences, SequencesExt, FiniteSetsExt, Functions

CONSTANTS Runs,                \* the analyses
          Requests,            \* [mode, seeds, geo] an analysis may be started with
          Variants,            \* external: Ads answers for one of a set of close variants, the least
          Raw(_, _),           \* external: the raw metrics Ads has for a keyword in a place, or None
          Related(_),          \* external: what Ads proposes for a keyword
          SeedBatchSize, HistoricalBatchSize,
          CacheFaults          \* what may go wrong: "redis", "db", "ads"

VARIABLES redis,    \* metrics:{geo}:{lang}:{nt}
          db,       \* keywords, by [geo, language, normalizedText]
          run       \* how far each analysis is

mvars == <<redis, db, run>>

Null == -1
None == <<>>        \* no metrics at all
Blank == -2         \* a string of white space
Nan == -3

-----------------------------------------------------------------------------
(* chunk.ts, normalize.ts.  A text is a keyword and one of its spellings.  *)

MAX_SEED_BATCH_SIZE == 20
DEFAULT_SEED_BATCH_SIZE == 15
MAX_HISTORICAL_BATCH_SIZE == 10000
DEFAULT_HISTORICAL_BATCH_SIZE == 1000
Chunk(items, batchSize, cap, fallback) ==
  LET size == Min({Max({IF batchSize = Nan THEN fallback ELSE batchSize, 1}), cap})
  IN [i \in 1..((Len(items) + size - 1) \div size) |-> SubSeq(items, (i - 1) * size + 1, Min({i * size, Len(items)}))]
ChunkSeeds(seeds) == Chunk(seeds, SeedBatchSize, MAX_SEED_BATCH_SIZE, DEFAULT_SEED_BATCH_SIZE)
ChunkHistorical(keywords) == Chunk(keywords, HistoricalBatchSize, MAX_HISTORICAL_BATCH_SIZE, DEFAULT_HISTORICAL_BATCH_SIZE)

NormalizeText(text) == text[1]

\* A candidate is [text, source, metrics, seedOrigins]; no metrics and no origins are None and {}.
PickRepresentative(existing, incoming) ==
  CASE existing.source # incoming.source -> IF incoming.source = "seed" THEN incoming ELSE existing
    [] existing.metrics = None /\ incoming.metrics # None -> incoming
    [] OTHER -> existing
MergeInto(existing, incoming) ==
  [PickRepresentative(existing, incoming) EXCEPT
     !.metrics = IF existing.metrics # None THEN existing.metrics ELSE incoming.metrics,
     !.seedOrigins = existing.seedOrigins \cup incoming.seedOrigins]
DedupeMerge(candidates) ==
  FoldLeft(LAMBDA byKey, c : IF NormalizeText(c.text) \in DOMAIN byKey
                             THEN [byKey EXCEPT ![NormalizeText(c.text)] = MergeInto(@, c)]
                             ELSE [k \in {NormalizeText(c.text)} |-> c] @@ byKey,
           <<>>, candidates)

-----------------------------------------------------------------------------
(* mapping/: a value that is missing stays missing, and is never 0.        *)

ParseCount(v) == IF v \in {Null, Blank, Nan} THEN Null ELSE v
MicrosToAmount(micros) == IF micros \in {Null, Blank} THEN Null ELSE micros
UNSPECIFIED == 0
MapCompetition(raw) == IF raw \in 1..4 THEN raw ELSE UNSPECIFIED
\* January is 2 in the protocol.
ResolveMonth(month) == IF month \in 2..13 THEN month - 1 ELSE Null
MapMonthlyVolumes(raw) ==
  {[year |-> e.year, month |-> ResolveMonth(e.month), searches |-> ParseCount(e.monthly_searches)] :
     e \in {x \in raw : ResolveMonth(x.month) # Null /\ ParseCount(x.year) # Null}}
ToMetrics(raw) ==
  IF raw = None THEN None
  ELSE [avgMonthlySearches |-> ParseCount(raw.avg_monthly_searches), cpcMicros |-> MicrosToAmount(raw.bid_micros),
        competition |-> MapCompetition(raw.competition), monthlyVolumes |-> MapMonthlyVolumes(raw.monthly_search_volumes)]
NoMetrics == [avgMonthlySearches |-> Null, cpcMicros |-> Null, competition |-> UNSPECIFIED, monthlyVolumes |-> {}]
HasMetrics(kw) == kw.metrics # NoMetrics

Flatten(byKey) ==
  {[nt |-> k, source |-> byKey[k].source, seedOrigins |-> byKey[k].seedOrigins,
    metrics |-> IF byKey[k].metrics = None THEN NoMetrics ELSE byKey[k].metrics] : k \in DOMAIN byKey}

-----------------------------------------------------------------------------
(* google-ads.service.ts.                                                  *)

VariantsOf(nt) == UNION {v \in Variants : nt \in v}
Canonical(nt) == Min(VariantsOf(nt))
NormalizedIn(texts) == {NormalizeText(t) : t \in ToSet(texts)}
Candidate(nt, source, raw, origins) == [text |-> <<nt, 1>>, source |-> source, metrics |-> ToMetrics(raw), seedOrigins |-> origins]

\* External: an idea for each seed and for what is related to it.
GenerateKeywordIdeas(batch) == UNION {{Canonical(nt)} \cup Related(nt) : nt \in NormalizedIn(batch)}
\* External: one row for the close variants among the keywords; a row nobody asked for may be among them.
GenerateKeywordHistoricalMetrics(batch) == {Canonical(nt) : nt \in NormalizedIn(batch)} \cup {Min(UNION Variants)}

SeedCandidates(texts) == [i \in DOMAIN texts |-> [text |-> texts[i], source |-> "seed", metrics |-> None, seedOrigins |-> {}]]
ExpandBatch(r, batch) ==
  SetToSeq({Candidate(nt, IF nt \in NormalizedIn(r.seeds) THEN "seed" ELSE "expanded", Raw(nt, r.geo),
                      IF nt \in NormalizedIn(r.seeds) THEN {} ELSE NormalizedIn(batch)) : nt \in GenerateKeywordIdeas(batch)})
HistoricalBatch(r, batch) ==
  SetToSeq({Candidate(nt, "seed", Raw(nt, r.geo), NormalizedIn(batch) \cap VariantsOf(nt)) :
              nt \in {x \in GenerateKeywordHistoricalMetrics(batch) : NormalizedIn(batch) \cap VariantsOf(x) # {}}})
\* What no answer covered is kept, without metrics.
Uncovered(texts, candidates) ==
  SeedCandidates(SelectSeq(texts, LAMBDA t : \A c \in ToSet(candidates) : NormalizeText(t) \notin c.seedOrigins))

-----------------------------------------------------------------------------
(* The analyses.                                                           *)

Idle == [phase |-> "idle"]
Init == /\ redis = <<>> /\ db = <<>>
        /\ run = [r \in Runs |-> Idle]

Goto(r, next) == run' = [run EXCEPT ![r] = next]
Start(r, req) ==
  /\ run[r] = Idle
  /\ Goto(r, IF req.mode = "expand"
             THEN [phase |-> "fetch", mode |-> "expand", seeds |-> req.seeds, geo |-> req.geo,
                   todo |-> ChunkSeeds(req.seeds), found |-> SeedCandidates(req.seeds), hits |-> {}]
             ELSE [phase |-> "lookup", mode |-> "exact", seeds |-> req.seeds, geo |-> req.geo])
  /\ UNCHANGED <<redis, db>>

\* mget: Redis first, then the table for what Redis does not have.  A read that fails is a miss.
KeyFor(r, nt) == <<r.geo, nt>>
MgetRedis(r) ==
  /\ run[r].phase = "lookup"
  /\ \E failed \in {FALSE} \cup ({"redis" \in CacheFaults} \cap {TRUE}) :
       Goto(r, [run[r] EXCEPT !.phase = "fallback"] @@
               [cached |-> [nt \in {n \in NormalizedIn(run[r].seeds) : ~failed /\ KeyFor(run[r], n) \in DOMAIN redis}
                            |-> redis[KeyFor(run[r], nt)]]])
  /\ UNCHANGED <<redis, db>>
RowToKeyword(nt, row) == [nt |-> nt, source |-> "seed", seedOrigins |-> {}, metrics |-> row]
MgetDb(r) ==
  /\ run[r].phase = "fallback"
  /\ \E failed \in {FALSE} \cup ({"db" \in CacheFaults} \cap {TRUE}) :
       \E rows \in {[nt \in {n \in NormalizedIn(run[r].seeds) \ DOMAIN run[r].cached :
                               ~failed /\ KeyFor(run[r], n) \in DOMAIN db} |-> RowToKeyword(nt, db[KeyFor(run[r], nt)])]} :
         \* The rows found warm Redis.
         /\ \E warmed \in {rows} \cup (IF "redis" \in CacheFaults THEN {<<>>} ELSE {}) :
              redis' = [k \in {KeyFor(run[r], nt) : nt \in DOMAIN warmed} |-> warmed[k[2]]] @@ redis
         \* fetchExactCached: the seeds neither has are fetched.
         /\ \E missed \in {SelectSeq(run[r].seeds, LAMBDA t : NormalizeText(t) \notin DOMAIN run[r].cached \cup DOMAIN rows)} :
              Goto(r, [phase |-> "fetch", mode |-> "exact", seeds |-> missed, geo |-> run[r].geo, todo |-> ChunkHistorical(missed),
                       found |-> <<>>, hits |-> Range(run[r].cached) \cup Range(rows), asked |-> run[r].seeds])
  /\ UNCHANGED db

FetchBatch(r) ==
  /\ run[r].phase = "fetch" /\ run[r].todo # <<>>
  /\ Goto(r, [run[r] EXCEPT !.todo = Tail(@),
              !.found = @ \o (IF run[r].mode = "expand" THEN ExpandBatch(run[r], Head(run[r].todo))
                                                        ELSE HistoricalBatch(run[r], Head(run[r].todo)))])
  /\ UNCHANGED <<redis, db>>
\* An error that is not to be tried again: an expansion goes on with what it has, an exact analysis ends.
AdsFails(r) ==
  /\ "ads" \in CacheFaults
  /\ run[r].phase = "fetch" /\ run[r].todo # <<>>
  /\ Goto(r, IF run[r].mode = "expand" /\ run[r].found # <<>> THEN [run[r] EXCEPT !.todo = <<>>] ELSE [phase |-> "failed"])
  /\ UNCHANGED <<redis, db>>

\* mset puts a keyword under each input it answers, msetByText under its own text.
MsetKeys(kw) == IF kw.seedOrigins = {} THEN {kw.nt} ELSE kw.seedOrigins
\* Mutant: an expansion is written like the answer to an exact request.
WriteKeysAlike(r, kw) == MsetKeys(kw)
WriteKeys(r, kw) == IF r.mode = "expand" THEN {kw.nt} ELSE MsetKeys(kw)
Persistable(keywords) == {kw \in keywords : HasMetrics(kw)}
KeywordToRow(kw) == kw.metrics
UpsertDb(r, keywords) ==
  [k \in {KeyFor(r, kw.nt) : kw \in keywords} |-> KeywordToRow(CHOOSE kw \in keywords : kw.nt = k[2])] @@ db
SetRedis(r, keywords) ==
  [k \in {KeyFor(r, nt) : nt \in UNION {WriteKeys(r, kw) : kw \in keywords}}
   |-> CHOOSE kw \in keywords : k[2] \in WriteKeys(r, kw)] @@ redis

\* One row for each keyword; hits come first.
OfEach(keywords) == {CHOOSE kw \in keywords : kw.nt = nt : nt \in {kw.nt : kw \in keywords}}
\* Mutant: two hits may be the same keyword, cached under two of its variants.
DedupeFetchedOnly(hits, fetched) == hits \cup {kw \in fetched : \A h \in hits : h.nt # kw.nt}
DedupeByNormalizedText(hits, fetched) == OfEach(hits) \cup {kw \in fetched : \A h \in hits : h.nt # kw.nt}
Finish(r) ==
  /\ run[r].phase = "fetch" /\ run[r].todo = <<>>
  /\ \E keywords \in {Flatten(DedupeMerge(run[r].found \o
                        (IF run[r].mode = "exact" THEN Uncovered(run[r].seeds, run[r].found) ELSE <<>>)))} :
       /\ Goto(r, [phase |-> "done", mode |-> run[r].mode, geo |-> run[r].geo,
                   seeds |-> IF run[r].mode = "exact" THEN run[r].asked ELSE run[r].seeds,
                   result |-> DedupeByNormalizedText(run[r].hits, keywords)])
       \* The two writes stand or fall alone.
       /\ redis' \in {SetRedis(run[r], Persistable(keywords))} \cup (IF "redis" \in CacheFaults THEN {redis} ELSE {})
       /\ db' \in {UpsertDb(run[r], Persistable(keywords))} \cup (IF "db" \in CacheFaults THEN {db} ELSE {})

\* A finished analysis makes room for another.
Forget(r) == run[r].phase \in {"done", "failed"} /\ Goto(r, Idle) /\ UNCHANGED <<redis, db>>
\* Redis drops a key.
Expire == /\ \E k \in DOMAIN redis : redis' = [x \in DOMAIN redis \ {k} |-> redis[x]]
          /\ UNCHANGED <<db, run>>

Next == \/ \E r \in Runs, req \in Requests : Start(r, req)
        \/ \E r \in Runs : MgetRedis(r) \/ MgetDb(r) \/ FetchBatch(r) \/ AdsFails(r) \/ Finish(r) \/ Forget(r)
        \/ Expire

Spec == Init /\ [][Next]_mvars

-----------------------------------------------------------------------------
TypeOK ==
  /\ \A k \in DOMAIN redis : k[2] \in UNION Variants /\ redis[k].nt \in UNION Variants
  /\ \A k \in DOMAIN db : k[2] \in UNION Variants
  /\ \A r \in Runs : run[r].phase \in {"idle", "lookup", "fallback", "fetch", "done", "failed"}

\* What is cached under a keyword is what Ads says of it or of its close variant in that place, and says
\* something: neither an expansion, nor a seed without metrics, nor a concurrent analysis can spoil it
\* (mset, msetByText, hasMetrics).
CacheAnswersItsKey ==
  /\ \A k \in DOMAIN redis : /\ redis[k].nt \in VariantsOf(k[2])
                             /\ redis[k].metrics = ToMetrics(Raw(redis[k].nt, k[1]))
                             /\ HasMetrics(redis[k])
  /\ \A k \in DOMAIN db : db[k] = ToMetrics(Raw(k[2], k[1])) /\ db[k] # NoMetrics

\* An exact analysis has a row for every seed, or for its close variant, with the metrics Ads has, no row
\* twice and none that was not asked for, whatever came from the cache (fetchExactCached).
ExactAnswersTheSeeds ==
  \A r \in Runs : run[r].phase = "done" /\ run[r].mode = "exact" =>
    /\ \A s \in NormalizedIn(run[r].seeds) : \E kw \in run[r].result :
         kw.nt \in VariantsOf(s) /\ (HasMetrics(kw) \/ ToMetrics(Raw(Canonical(s), run[r].geo)) \in {None, NoMetrics})
    /\ \A kw \in run[r].result : \E s \in NormalizedIn(run[r].seeds) : kw.nt \in VariantsOf(s)
    /\ \A kw, other \in run[r].result : kw.nt = other.nt => kw = other
=============================================================================
