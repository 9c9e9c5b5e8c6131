------------------------------- MODULE MCSamples -------------------------------
(* The captures, brands, snapshot rows and requests of the instances.      *)
EXTENDS Integers, Sequences, TLC

\* Two platforms and three queries; a text in several blocks, an empty one, and a link without a host.
Link(h) == [host |-> h]
SomeCaptures ==
  <<[channel |-> "chatGpt", query |-> <<1, 1>>, blocks |-> <<[kind |-> "string", value |-> "ab"], [kind |-> "overview", value |-> <<"", "a">>]>>,
     references |-> <<Link(<<"com", "x", "www">>), Link(<<>>)>>],
    [channel |-> "chatGpt", query |-> <<1, 2>>, blocks |-> <<[kind |-> "object", value |-> "b"]>>, references |-> <<Link(<<"com", "x", "blog">>)>>],
    [channel |-> "aiMode", query |-> <<2, 1>>, blocks |-> <<[kind |-> "none"], [kind |-> "overview", value |-> <<>>]>>, references |-> <<>>]>>
CaptureLists == {SomeCaptures, Tail(SomeCaptures), <<>>}
Brands ==
  <<[name |-> <<1, 1>>, aliases |-> {<<3, 1>>}, sites |-> {Link(<<"com", "x">>), Link(<<>>)}], [name |-> <<2, 1>>, aliases |-> {}, sites |-> {}]>>
BrandLists == {Brands, <<>>}
FoundBrands(text) ==
  CASE text = <<"ab">> -> <<<<3, 2>>, <<9, 1>>, <<0, 1>>>>
    [] text = <<"a">>  -> <<<<1, 2>>>>
    [] text = <<"b">>  -> <<<<2, 1>>, <<2, 1>>>>
    [] OTHER           -> <<>>
FoundSentiment(text) == IF text = <<"a">> THEN <<1, 2>> ELSE <<1, 1>>
FoundMedia(reference) == IF reference.host = <<>> THEN "blog" ELSE "news"
StoredIntent(nt) == IF nt = 1 THEN {1, 2} ELSE {1}
StoredStage(nt) == IF nt = 1 THEN 3 ELSE -1
StoredVolume(nt) == IF nt = 1 THEN 7 ELSE -1

-----------------------------------------------------------------------------
ApiLimits == [maxPageSize |-> 2, aggMaxBuckets |-> 2, aggMaxGroups |-> 2]

SnapshotRow(nt, volume, low, high, intent) ==
  [nt |-> nt, text |-> nt, words |-> {nt % 2}, avgMonthlySearches |-> volume, competition |-> "LOW", competitionIndex |-> volume,
   cpcLow |-> low, cpcHigh |-> high, intent |-> intent, monthly |-> (1 :> volume) @@ (2 :> 3)]
SnapshotRows == {SnapshotRow(1, 5, 1, 2, {1}), SnapshotRow(2, -1, 0, -1, {1, 2}), SnapshotRow(3, 5, -1, 3, {})}
Ask(what, name, filters, sort, pagination) ==
  [what |-> what, view |-> name, filters |-> filters, sort |-> sort, pagination |-> pagination, select |-> {}]
One == [pageSize |-> 1]
Nil == <<>>
Asked ==
  {Ask("insight", "journey", Nil, <<>>, One),
   Ask("query", "journey", [cpcMin |-> 2], <<[field |-> "cpcLow", direction |-> "asc"]>>, One),
   Ask("query", "journey_funnel", Nil, <<>>, Nil),
   Ask("list", "keywords", [q |-> 1], <<>>, One),
   Ask("list", "keywords", Nil, <<>>, [pageSize |-> 3]),
   Ask("query", "trend", [intent |-> {1}, intentMode |-> "all"], <<>>, Nil),
   Ask("query", "intent_distribution", [competition |-> {"LOW"}], <<>>, Nil),
   Ask("query", "cpc_histogram", Nil, <<>>, Nil),
   Ask("query", "serp_questions", Nil, <<>>, Nil),
   Ask("query", "none", Nil, <<>>, Nil)}
AskedOfAi ==
  {Ask("query", "ai_answers", Nil, <<>>, One),
   Ask("query", "ai_answers", Nil, <<[field |-> "positive", direction |-> "desc"]>>, One),
   Ask("query", "ai_cited_media", Nil, <<[field |-> "count", direction |-> "desc"]>>, Nil),
   Ask("query", "brand_ai_visibility_summary", Nil, <<>>, Nil)}
StageInSnapshot(d, nt) == 1 + ((d + nt) % 7)
NoAiRows(t, d) == {}
AiRowsOf(t, d) ==
  CASE t = "answers" -> {[id |-> 2 * d + i, words |-> {}, positive |-> d] : i \in 0..1}
    [] t = "cited"   -> {[id |-> d, words |-> {}, mediaType |-> d]}
    [] OTHER         -> {[id |-> d, words |-> {}, groupKey |-> d, mentions |-> 1, citations |-> 1, exposure |-> -1]}
=============================================================================
