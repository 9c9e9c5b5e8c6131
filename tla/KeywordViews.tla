---------------------------- MODULE KeywordViews ----------------------------
(***************************************************************************)
(* What a view shows of a set of rows: the filters, the order, the pages,  *)
(* the groups of a chart, the series of a trend, and the views themselves. *)
(* Everything here is a function of the rows and of the request; the rows  *)
(* and what they are joined with come from SnapshotQuery.                  *)
(***************************************************************************)
EXTENDS Integers, SequencesExt, FiniteSetsExt

\* Metrics are natural numbers; one that is missing is Null.  A keyword is told from the others by
\* nt, its normalized text, whose values stand for the alphabetical order.
Null == -1

-----------------------------------------------------------------------------
(* filter-spec.ts.  A filter is a record of the keys that are given.       *)

FILTER_KEYS == {"volumeMin", "volumeMax", "q", "intent", "intentMode", "competition",
                "competitionIndexMin", "competitionIndexMax", "cpcMin", "cpcMax"}
RANGE_PAIRS == {<<"volumeMin", "volumeMax">>, <<"competitionIndexMin", "competitionIndexMax">>,
                <<"cpcMin", "cpcMax">>}
Given(f, keys) == keys \cap DOMAIN f # {}

InRange(value, f, min, max) ==
  /\ value # Null
  /\ min \in DOMAIN f => value >= f[min]
  /\ max \in DOMAIN f => value <= f[max]

\* A row without the metric fails every range on it; the CPC range asks for an overlap.
BuildPredicate(f, r) ==
  /\ Given(f, {"volumeMin", "volumeMax"}) => InRange(r.avgMonthlySearches, f, "volumeMin", "volumeMax")
  /\ "q" \in DOMAIN f => f.q \in r.words
  /\ Given(f, {"intent"}) /\ f["intent"] # {} =>
       IF "intentMode" \in DOMAIN f /\ f["intentMode"] = "all" THEN f["intent"] \subseteq r.intent
                                                             ELSE f["intent"] \cap r.intent # {}
  /\ Given(f, {"competition"}) /\ f["competition"] # {} => r.competition \in f["competition"]
  /\ Given(f, {"competitionIndexMin", "competitionIndexMax"}) =>
       InRange(r.competitionIndex, f, "competitionIndexMin", "competitionIndexMax")
  /\ "cpcMin" \in DOMAIN f => r.cpcHigh # Null /\ r.cpcHigh >= f["cpcMin"]
  /\ "cpcMax" \in DOMAIN f => r.cpcLow # Null /\ r.cpcLow <= f["cpcMax"]

ApplyFilter(rows, f) == {r \in rows : BuildPredicate(f, r)}

-----------------------------------------------------------------------------
(* paginate.ts.                                                            *)

SORT_FIELDS       == {"avgMonthlySearches", "competitionIndex", "cpcLow", "cpcHigh", "text"}
DEFAULT_SORT      == [field |-> "avgMonthlySearches", direction |-> "desc"]
DEFAULT_PAGE_SIZE == 50

\* Whether a comes before b: rows without a value last whatever the direction, ties by key.
Before(a, b, va, vb, direction, ka, kb) ==
  IF va = vb THEN ka < kb
  ELSE /\ va # Null
       /\ vb = Null \/ (IF direction = "asc" THEN va < vb ELSE va > vb)
CompareField(a, b, sort) == Before(a, b, a[sort.field], b[sort.field], sort.direction, a.nt, b.nt)

SortRows(rows, sort) == SetToSortSeq(rows, LAMBDA a, b : CompareField(a, b, sort))

\* A cursor names the last row that was seen; NoCursor stands for one that does not decode.
NoCursor == 0
\* Mutant: the next page begins with the row the cursor names.
IndexBeforeCursor(keys, cursor) == {i - 1 : i \in {j \in DOMAIN keys : keys[j] = cursor}}
IndexOfCursor(keys, cursor) == {i \in DOMAIN keys : cursor # NoCursor /\ keys[i] = cursor}

\* keys[i] is what the cursor calls sorted[i].
PageOf(sorted, keys, page) ==
  LET total    == Len(sorted)
      pageSize == Max({1, IF "pageSize" \in DOMAIN page THEN page.pageSize ELSE DEFAULT_PAGE_SIZE})
      start    == IF "cursor" \in DOMAIN page
                  THEN LET at == IndexOfCursor(keys, page.cursor)
                       IN IF at = {} THEN total ELSE Min(at)
                  ELSE (Max({1, IF "page" \in DOMAIN page THEN page.page ELSE 1}) - 1) * pageSize
      rows     == SubSeq(sorted, start + 1, Min({total, start + pageSize}))
      endIndex == start + Len(rows)
  IN [rows  |-> rows,
      total |-> total, page |-> start \div pageSize + 1, pageSize |-> pageSize,
      cursor |-> IF rows # <<>> /\ endIndex < total THEN keys[endIndex] ELSE Null]

SelectPage(rows, sort, page) ==
  LET sorted == SortRows(rows, sort) IN PageOf(sorted, [i \in DOMAIN sorted |-> sorted[i].nt], page)

-----------------------------------------------------------------------------
(* aggregate.ts.  A dimension takes its values from a field: the field     *)
(* itself, the members of a set, or the bucket a number falls in.          *)

DimensionValues(r, dim) ==
  IF dim.field \notin DOMAIN r THEN {}
  ELSE CASE dim.kind = "explode" -> r[dim.field]
         [] dim.kind = "bucket"  -> IF r[dim.field] = Null THEN {} ELSE {(r[dim.field] \div dim.width) * dim.width}
         [] OTHER                -> {r[dim.field]} \ {Null}

FIELD_MEASURES == {"sum", "avg", "min", "max", "median"}

\* avg and median are given as a pair: a sum, and what it is to be divided by.
Median(value) ==
  LET s == SetToSortSeq(DOMAIN value, LAMBDA a, b : value[a] < value[b] \/ (value[a] = value[b] /\ a.nt < b.nt))
      m == Len(s) \div 2
  IN IF Len(s) % 2 = 0 THEN <<value[s[m]] + value[s[m + 1]], 2>> ELSE <<value[s[m + 1]], 1>>

ComputeMeasure(units, m) ==
  LET V(r)  == r[m.field]
      with  == IF m.fn \in FIELD_MEASURES THEN {r \in units : m.field \in DOMAIN r /\ V(r) # Null} ELSE {}
      total == FoldSet(LAMBDA r, acc : acc + V(r), 0, with)
  IN CASE m.fn = "count"         -> Cardinality(units)
       [] m.fn = "countDistinct" -> Cardinality({r.nt : r \in units})
       [] m.fn = "sum"           -> total
       [] with = {}              -> Null
       [] m.fn = "avg"           -> <<total, Cardinality(with)>>
       [] m.fn = "min"           -> Min({V(r) : r \in with})
       [] m.fn = "max"           -> Max({V(r) : r \in with})
       [] OTHER                  -> Median([r \in with |-> V(r)])

AssertBounds(spec, limits) ==
  /\ Len(spec.dimensions) \in 1..2
  /\ \A d \in ToSet(spec.dimensions) : d.kind = "bucket" => d.width > 0
  /\ \A m \in spec.measures : m.fn \in FIELD_MEASURES => "field" \in DOMAIN m
  /\ "limit" \in DOMAIN spec => spec["limit"] <= limits.aggMaxGroups

BoundsError == [view |-> "AggregateBoundsError"]

\* The key of a row under one dimension, or under two.
KeysOf(r, dims) ==
  IF Len(dims) = 1 THEN {<<v>> : v \in DimensionValues(r, dims[1])}
  ELSE DimensionValues(r, dims[1]) \X DimensionValues(r, dims[2])

\* Groups are ordered (SortGroups), then cut at the limit; which ones are left depends on the order.
KeyBefore(a, b) == a[1] < b[1] \/ (a[1] = b[1] /\ Len(a) = 2 /\ a[2] < b[2])
GroupBefore(a, b, spec) ==
  LET va == IF spec.by \in DOMAIN a.measures THEN a.measures[spec.by] ELSE a.key
      vb == IF spec.by \in DOMAIN b.measures THEN b.measures[spec.by] ELSE b.key
  IN IF va = vb THEN KeyBefore(a.key, b.key)
     ELSE LET less == IF spec.by \in DOMAIN a.measures THEN va < vb ELSE KeyBefore(va, vb)
          IN IF spec.dir = "asc" THEN less ELSE ~less

\* The groups in their order, up to the limit.
Cut(groups, spec, limits) ==
  LET sorted == SetToSortSeq(groups, LAMBDA a, b : GroupBefore(a, b, spec))
      limit  == Min({limits.aggMaxGroups, IF "limit" \in DOMAIN spec THEN spec["limit"] ELSE limits.aggMaxGroups})
  IN [groups |-> SubSeq(sorted, 1, Min({limit, Len(sorted)})),
      total |-> Cardinality(groups), truncated |-> Cardinality(groups) > limit]

Aggregate(rows, spec, limits) ==
  LET keys    == UNION {KeysOf(r, spec.dimensions) : r \in rows}
      buckets == {d \in DOMAIN spec.dimensions :
                    /\ spec.dimensions[d].kind = "bucket"
                    /\ Cardinality({k[d] : k \in keys}) > limits.aggMaxBuckets}
      Group(k) == LET units == {r \in rows : k \in KeysOf(r, spec.dimensions)}
                  IN [key |-> k, measures |-> [as \in {m.as : m \in spec.measures} |->
                           ComputeMeasure(units, CHOOSE m \in spec.measures : m.as = as)]]
  IN IF ~AssertBounds(spec, limits) \/ buckets # {} THEN BoundsError
     ELSE Cut({Group(k) : k \in keys}, spec, limits)

-----------------------------------------------------------------------------
(* build-trend.ts.  monthly is a function from months to searches.         *)

RankTopN(rows, topN) ==
  LET sorted == SortRows(rows, DEFAULT_SORT) IN SubSeq(sorted, 1, Min({Len(sorted), topN}))

BuildTrend(rows, topN) ==
  LET months == UNION {DOMAIN r.monthly : r \in rows}
      axis   == SetToSortSeq(months, <)
      Of(r, m) == IF m \in DOMAIN r.monthly THEN r.monthly[m] ELSE Null
      Sum(m) == FoldSet(LAMBDA r, acc : acc + (IF Of(r, m) = Null THEN 0 ELSE Of(r, m)), 0, rows)
      top    == RankTopN(rows, topN)
  IN [axis   |-> axis,
      total  |-> [i \in DOMAIN axis |-> Sum(axis[i])],
      series |-> [k \in DOMAIN top |-> [keyword |-> top[k].nt, points |-> [i \in DOMAIN axis |-> Of(top[k], axis[i])]]]]
=============================================================================
