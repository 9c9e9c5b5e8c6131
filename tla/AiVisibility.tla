---------------------------- MODULE AiVisibility -----------------------------
(***************************************************************************)
(* The analysis of what AI assistants answered: the captures of a job go   *)
(* through three LLM lines, are put together with the brands of the owner  *)
(* and what is known of the keywords, and replace what the job had stored. *)
(* A job may be analysed again, with other captures, and by two workers at *)
(* once when the first lost its lock.                                      *)
(***************************************************************************)
EXTENDS Integers, Sequences, SequencesExt, FiniteSetsExt, Functions, FiniteSets

CONSTANTS CaptureSets,           \* what a job may have captured: sequences of [channel, query, blocks, references]
          BrandSets,             \* the brand of the owner and its competitors: sequences of [name, aliases, sites]
          BrandsIn(_), SentimentOf(_), MediaOf(_),   \* external: the answers of the LLM to a text or a link
          IntentOf(_), StageOf(_), VolumeOf(_),      \* what is stored of a keyword; no stage, no volume are Null
          MaxAnalyses,           \* bound on the analyses of the job
          Overlap                \* whether a worker may lose its lock and go on

VARIABLES tables,    \* ai_answers, ai_cited_references, ai_visibility_metrics: what is committed for the job
          analyses   \* the analyses of the job: [phase, captures, review, rows, deleted, waits, step]

vvars == <<tables, analyses>>

Null == -1
Tables == <<"answers", "cited", "metrics">>
\* A text is a word and its spelling; the word 0 is blank.
NormalizeText(text) == text[1]

-----------------------------------------------------------------------------
(* ai-analysis.service.ts: the captures laid flat.                         *)

\* A text block of an AI overview is the sequence of the snippets in it; other objects have a text or none.
FlattenTextBlock(snippets) == SelectSeq(snippets, LAMBDA s : s # "")
CoerceBlockText(block) ==
  CASE block.kind = "string" -> <<block.value>>
    [] block.kind = "overview" /\ FlattenTextBlock(block.value) # <<>> -> FlattenTextBlock(block.value)
    [] block.kind = "object" -> <<block.value>>
    [] block.kind = "overview" -> <<"json">>
    [] OTHER -> <<>>

\* Mutant: the blocks of every capture are counted from one.
IdOfBlock(c, b) == <<1, b>>
BlockId(c, b) == <<c, b>>
Blocks(captures) == UNION {{<<c, b>> : b \in DOMAIN captures[c].blocks} : c \in DOMAIN captures}
TextBlocks(captures) ==
  [id \in {BlockId(p[1], p[2]) : p \in Blocks(captures)} |->
     LET at == CHOOSE p \in Blocks(captures) : BlockId(p[1], p[2]) = id
     IN CoerceBlockText(captures[at[1]].blocks[at[2]])]

\* A line answers each of its inputs, or has the default for those it lost and leaves them for review:
\* a refused batch loses its inputs, a line that throws all of them.
RunLine(answers, lost, default) == [i \in DOMAIN answers |-> IF i \in lost THEN default ELSE answers[i]]

\* brand-match.ts: the names a mention may have; a brand nobody listed keeps the name it was mentioned by.
NormalizedAliasUnion(brand) == {NormalizeText(t) : t \in {brand.name} \cup brand.aliases} \ {0}
MatchBrand(brands, mention) ==
  LET matches == {i \in DOMAIN brands : NormalizeText(mention) \in NormalizedAliasUnion(brands[i])}
  IN IF matches = {} THEN mention ELSE brands[Min(matches)].name
PostProcessBrands(brands, raw) ==
  LET named == SelectSeq(raw, LAMBDA m : NormalizeText(m) # 0)
  IN [i \in DOMAIN named |-> MatchBrand(brands, named[i])]
ToBinary(n) == IF n = 1 THEN 1 ELSE 0
PostProcessSentiment(raw) == <<ToBinary(raw[1]), ToBinary(raw[2])>>
MediaTypes == {"news", "video", "other"}
CleanType(raw) == IF raw \in MediaTypes THEN raw ELSE "other"

BrandLine(captures, brands, lost) ==
  LET texts == TextBlocks(captures)
  IN RunLine([id \in DOMAIN texts |-> PostProcessBrands(brands, BrandsIn(texts[id]))], lost, <<>>)
SentimentLine(captures, lost) ==
  LET texts == TextBlocks(captures)
  IN RunLine([id \in DOMAIN texts |-> PostProcessSentiment(SentimentOf(texts[id]))], lost, <<0, 0>>)
MediaLine(captures, lost) ==
  [c \in DOMAIN captures |->
     LET links == captures[c].references
     IN RunLine([i \in DOMAIN links |-> CleanType(MediaOf(links[i]))], lost, "other")]

Flat(seqs) == FoldLeft(LAMBDA acc, s : acc \o s, <<>>, seqs)
AnswerBrands(captures, c, line) == Flat([b \in DOMAIN captures[c].blocks |-> line[BlockId(c, b)]])
AnswerSentiment(captures, c, line) ==
  FoldLeft(LAMBDA acc, s : <<acc[1] + s[1], acc[2] + s[2]>>, <<0, 0>>, [b \in DOMAIN captures[c].blocks |-> line[BlockId(c, b)]])

-----------------------------------------------------------------------------
(* visibility-metrics.ts.  A host is the sequence of its labels from the   *)
(* top, a share a pair of numbers.                                         *)

DeriveDomain(link) == link.host
NormalizeDomain(link) ==
  LET host == DeriveDomain(link) IN IF host # <<>> /\ Last(host) = "www" THEN Front(host) ELSE host
CitationHitsBrand(link, sites) ==
  NormalizeDomain(link) # <<>> /\
  \E s \in sites : NormalizeDomain(s) # <<>> /\ IsPrefix(NormalizeDomain(s), NormalizeDomain(link))
CountIn(seq, Test(_)) == Cardinality({i \in DOMAIN seq : Test(seq[i])})
CountCitations(links, sites) == CountIn(links, LAMBDA l : CitationHitsBrand(l, sites))
CountMentions(mentions, name) == CountIn(mentions, LAMBDA m : m = name)
ShareOfVoice(part, whole) == IF whole <= 0 THEN <<Null, Null>> ELSE <<part, whole>>
SumExposure(nts) ==
  LET known == {nt \in nts : VolumeOf(nt) # Null}
  IN IF known = {} THEN Null ELSE FoldSet(LAMBDA nt, acc : acc + VolumeOf(nt), 0, known)

\* assembleAnalysis: a capture counts for its keyword, for each of its intents and for its stage.
DimensionsOf(query) ==
  {<<"keyword", query>>} \cup {<<"intent", <<i, 1>>>> : i \in IntentOf(NormalizeText(query))}
    \cup (IF StageOf(NormalizeText(query)) = Null THEN {} ELSE {<<"journey", <<StageOf(NormalizeText(query)), 1>>>>})
\* Mutant: two spellings of a keyword are two groups.
ScopeBySpelling(capture, d) == <<capture.channel, d[1], d[2]>>
ScopeKey(capture, d) == <<capture.channel, d[1], NormalizeText(d[2])>>
ScopeKeys(captures) == UNION {{ScopeKey(captures[c], d) : d \in DimensionsOf(captures[c].query)} : c \in DOMAIN captures}

Metric(captures, key, brand, line) ==
  LET of       == SetToSortSeq({c \in DOMAIN captures : \E d \in DimensionsOf(captures[c].query) : ScopeKey(captures[c], d) = key}, <)
      group    == CHOOSE d \in DimensionsOf(captures[of[1]].query) : ScopeKey(captures[of[1]], d) = key
      mentions == Flat([i \in DOMAIN of |-> AnswerBrands(captures, of[i], line)])
      links    == Flat([i \in DOMAIN of |-> captures[of[i]].references])
  IN [channel |-> key[1], dimension |-> key[2], group |-> group[2], brand |-> brand.name,
      mentions |-> CountMentions(mentions, brand.name),
      shareOfVoice |-> ShareOfVoice(CountMentions(mentions, brand.name), Len(mentions)),
      citations |-> CountCitations(links, brand.sites),
      exposure |-> SumExposure({NormalizeText(captures[c].query) : c \in Range(of)})]
BuildAiVisibility(captures, brands, line) == {Metric(captures, key, brands[i], line) : key \in ScopeKeys(captures), i \in DOMAIN brands}

\* The rows of one analysis: who wrote a row stands for its id.
AiAnswerRow(a, captures, c, brandLine, sentimentLine) ==
  [by |-> a, capture |-> c, channel |-> captures[c].channel, query |-> captures[c].query,
   brands |-> AnswerBrands(captures, c, brandLine), sentiment |-> AnswerSentiment(captures, c, sentimentLine)]
AiCitedReferenceRow(a, captures, c, r, mediaLine) ==
  [by |-> a, capture |-> c, nth |-> r, channel |-> captures[c].channel, query |-> captures[c].query,
   link |-> captures[c].references[r], domain |-> NormalizeDomain(captures[c].references[r]), mediaType |-> mediaLine[c][r]]
AiVisibilityMetricRow(a, cell) == [by |-> a, metric |-> cell]
AssembleAnalysis(a, captures, brands, brandLine, sentimentLine, mediaLine) ==
  [answers |-> {AiAnswerRow(a, captures, c, brandLine, sentimentLine) : c \in DOMAIN captures},
   cited |-> UNION {{AiCitedReferenceRow(a, captures, c, r, mediaLine) : r \in DOMAIN captures[c].references} : c \in DOMAIN captures},
   metrics |-> {AiVisibilityMetricRow(a, cell) : cell \in BuildAiVisibility(captures, brands, brandLine)}]

-----------------------------------------------------------------------------
(* The analyses of the job.  replaceForJob is one transaction, read        *)
(* committed: a statement sees what was committed when it started and ends *)
(* when the transactions that had deleted one of its rows before are over. *)

None == [t \in Range(Tables) |-> {}]
Unused == [phase |-> "unused", captures |-> <<>>, review |-> FALSE, rows |-> None, deleted |-> None, waits |-> {}, step |-> 0]
Init == /\ tables = None
        /\ analyses = [a \in 1..MaxAnalyses |-> Unused]

Busy(a) == analyses[a].phase \in {"assembled", "writing"}

\* analyzeAndPersist up to the write.  The profile may be none, gone or another owner's; without it there
\* is nothing to judge the sentiment about.
LossesOf(inputs) == {{}, inputs} \cup {{i} : i \in inputs}
AnalyzeAndPersist(a) ==
  /\ analyses[a] = Unused
  /\ \A b \in 1..(a - 1) : analyses[b] # Unused /\ (Overlap \/ ~Busy(b))
  /\ \E captures \in CaptureSets, brands \in BrandSets :
     \E brandsLost \in LossesOf(DOMAIN TextBlocks(captures)), sentimentLost, mediaLost \in {{}, DOMAIN TextBlocks(captures)} :
     \E brandLine     \in {BrandLine(captures, brands, brandsLost)},
        sentimentLine \in {SentimentLine(captures, IF brands = <<>> THEN DOMAIN TextBlocks(captures) ELSE sentimentLost)},
        mediaLine     \in {MediaLine(captures, IF mediaLost = {} THEN {} ELSE 1..2)} :
       analyses' = [analyses EXCEPT ![a] =
         [Unused EXCEPT !.phase = "assembled", !.captures = captures,
                        !.review = brandsLost # {} \/ (brands # <<>> /\ sentimentLost # {}) \/ mediaLost # {},
                        !.rows = AssembleAnalysis(a, captures, brands, brandLine, sentimentLine, mediaLine)]]
  /\ UNCHANGED tables

Begin(a) ==
  /\ analyses[a].phase = "assembled"
  /\ analyses' = [analyses EXCEPT ![a].phase = "writing"]
  /\ UNCHANGED tables
Deleted(t) == tables[t]
Free(a) == \A b \in analyses[a].waits : analyses[b].phase # "writing"
DeleteMany(a) ==
  /\ analyses[a].phase = "writing" /\ analyses[a].step < 3 /\ Free(a)
  /\ \E t \in {Tables[analyses[a].step + 1]} :
     \E before \in {{b \in DOMAIN analyses \ {a} : analyses[b].phase = "writing" /\ analyses[b].deleted[t] \cap tables[t] # {}}} :
       analyses' = [analyses EXCEPT ![a].step = @ + 1, ![a].deleted[t] = Deleted(t), ![a].waits = before]
  /\ UNCHANGED tables
\* createMany, three times: nobody else sees the rows before the commit.
Commit(a) ==
  /\ analyses[a].phase = "writing" /\ analyses[a].step = 3 /\ Free(a)
  /\ tables' = [t \in DOMAIN tables |-> (tables[t] \ analyses[a].deleted[t]) \cup analyses[a].rows[t]]
  /\ analyses' = [analyses EXCEPT ![a].phase = "done", ![a].rows = None, ![a].deleted = None, ![a].waits = {}]
\* The worker dies or the database refuses: the transaction is rolled back.
Fails(a) ==
  /\ Busy(a)
  /\ analyses' = [analyses EXCEPT ![a] = [Unused EXCEPT !.phase = "failed"]]
  /\ UNCHANGED tables

Next == \E a \in 1..MaxAnalyses : AnalyzeAndPersist(a) \/ Begin(a) \/ DeleteMany(a) \/ Commit(a) \/ Fails(a)
Spec == Init /\ [][Next]_vvars

-----------------------------------------------------------------------------
TypeOK ==
  /\ DOMAIN tables = Range(Tables)
  /\ \A a \in DOMAIN analyses : /\ analyses[a].phase \in {"unused", "assembled", "writing", "done", "failed"}
                                /\ analyses[a].step \in 0..3

\* The figures agree with the answers and the citations they are figures of, also after the job was analysed
\* again with other captures: every mention and citation under a keyword is counted once in its row, and its
\* search volume once however many captures it has (assembleAnalysis, replaceForJob).
FiguresAgreeWithAnswers ==
  \A row \in tables["metrics"] : row.metric.dimension = "keyword" =>
    \E of \in {NormalizeText(row.metric.group)} :
    \E under \in {{x \in tables["answers"] : x.channel = row.metric.channel /\ NormalizeText(x.query) = of}} :
      /\ row.metric.mentions = FoldSet(LAMBDA x, acc : acc + CountMentions(x.brands, row.metric.brand), 0, under)
      /\ under # {} /\ row.metric.exposure = VolumeOf(of)
      /\ \E b \in UNION {Range(brands) : brands \in BrandSets} : b.name = row.metric.brand /\
           row.metric.citations = Cardinality({x \in tables["cited"] : /\ x.channel = row.metric.channel
                                                                       /\ NormalizeText(x.query) = of
                                                                       /\ CitationHitsBrand(x.link, b.sites)})

\* An answer has the brands of its own text, in the order of its blocks; where a block has none of its own
\* the analysis was left for review (flattenCaptures, runLine, assembleAnalysis).
AnswersHaveTheirOwnBrands ==
  \A x \in tables["answers"] : \E blocks \in {analyses[x.by].captures[x.capture].blocks} :
    \E lost \in SUBSET DOMAIN blocks, brands \in BrandSets :
      /\ x.brands = Flat([b \in DOMAIN blocks |-> IF b \in lost THEN <<>> ELSE PostProcessBrands(brands, BrandsIn(CoerceBlockText(blocks[b])))])
      /\ lost # {} => analyses[x.by].review

\* To analyse a job again does not store its answers twice (AiAnalysisService, AiAnalysisRepository).
AnswersStoredOnce == \A x, y \in tables["answers"] : x.capture = y.capture => x = y
=============================================================================
