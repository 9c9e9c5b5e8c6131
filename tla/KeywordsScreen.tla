--------------------------- MODULE KeywordsScreen ---------------------------
(***************************************************************************)
(* The keyword table in the browser.  What it asks for is in the URL alone *)
(* (filters, page, order); the answers are kept by the query client, the   *)
(* way back by the pager, which lives only as long as it is on the screen. *)
(* The API answers as ViewRegistry says.                                   *)
(***************************************************************************)
EXTENDS ViewRegistry

CONSTANTS Rows, Limits,            \* what the API has, and its limits
          ServerPageSize,          \* the size of a page the API takes when none is asked for
          Config,                  \* [pageSize, maxPageSize, offsetMaxPage] of the front end
          Links,                   \* URLs a user may arrive by
          Drafts, Fields,          \* what may be typed in a popover, and the filters on the bar
          PageSizes, Sorts,        \* what the controls of the pager offer
          MaxCached, MaxTrail      \* bounds: the answers kept at once, the length of the trail

VARIABLES url,      \* the search parameters: a record of those that are given
          answers,  \* what the query client has, by key
          trail     \* KeywordsPagination: the cursors of the pages it came from

kvars == <<url, answers, trail>>

Only(f, keys) == [k \in DOMAIN f \cap keys |-> f[k]]
Without(f, keys) == Only(f, DOMAIN f \ keys)
Or(f, k, default) == IF k \in DOMAIN f THEN f[k] ELSE default
Blank == 0

-----------------------------------------------------------------------------
(* filterSpec.ts.  A chip is a field of the bar and the part of the filter *)
(* it stands for.                                                          *)

IsValidRange(f, pair) == ~(ToSet(pair) \subseteq DOMAIN f /\ f[pair[1]] > f[pair[2]])
CleanOptions(values) == values \ {Blank}
NormalizeSpec(raw) ==
  LET clean == [k \in DOMAIN raw |-> IF k \in {"intent", "competition"} THEN CleanOptions(raw[k]) ELSE raw[k]]
      empty == {k \in DOMAIN clean : \/ k \in {"intent", "competition"} /\ clean[k] = {}
                                     \/ k = "q" /\ clean[k] = Blank}
      wrong == UNION {ToSet(p) : p \in {q \in RANGE_PAIRS : ~IsValidRange(raw, q)}}
      alone == IF "intent" \in DOMAIN raw \ empty THEN {} ELSE {"intentMode"}
  IN Without(clean, empty \cup wrong \cup alone)

\* The topics and the two fields that are not built yet have no part in a filter.
FieldKeys == [keyword |-> {"q"}, volume |-> {"volumeMin", "volumeMax"}, intent |-> {"intent", "intentMode"},
              competition |-> {"competition"}, competitionIndex |-> {"competitionIndexMin", "competitionIndexMax"},
              cpc |-> {"cpcMin", "cpcMax"}, intentTopic |-> {}, journeyTopic |-> {}, trend |-> {}, aiIntent |-> {}]
ROADMAP_FILTER_FIELDS == {"trend", "aiIntent"}
FilterFieldType == [keyword |-> "inex", aiIntent |-> "inex", volume |-> "range", competitionIndex |-> "range",
                    cpc |-> "range", intent |-> "options", competition |-> "options", trend |-> "options",
                    intentTopic |-> "menukw", journeyTopic |-> "menukw"]

SpecToChips(spec) ==
  {[field |-> f, part |-> Only(spec, FieldKeys[f])] : f \in {g \in DOMAIN FieldKeys : Given(spec, FieldKeys[g])}}
ChipsToSpec(chips) == NormalizeSpec(FoldSet(LAMBDA c, acc : c.part @@ acc, <<>>, chips))
ApplyChip(spec, chip) == ChipsToSpec({c \in SpecToChips(spec) : c.field # chip.field} \cup {chip})
ClearField(spec, field) == ChipsToSpec({c \in SpecToChips(spec) : c.field # field})

\* The filter in a URL: what parses, and the keys whose value has the wrong type.
SerializeFiltersToUrl(spec) == [given |-> NormalizeSpec(spec), wrong |-> {}]
RawFilterSchema(raw) == Without(raw.given, raw.wrong)
DeserializeFiltersFromUrl(u) == IF "filters" \in DOMAIN u THEN NormalizeSpec(RawFilterSchema(u["filters"])) ELSE <<>>

\* A draft is what the inputs of a popover hold; an input that is empty is Null.
PopoverSeed(spec, field) == Only(spec, FieldKeys[field])
RangeValid(field, draft) ==
  FilterFieldType[field] = "range" => \A p \in RANGE_PAIRS : IsValidRange(Only(draft, FieldKeys[field]), p)
BuildChip(spec, field, draft) ==
  [field |-> field,
   part |-> IF field = "intent" THEN Only(draft, {"intent"}) @@ Only(spec, {"intentMode"}) ELSE Only(draft, FieldKeys[field])]

-----------------------------------------------------------------------------
(* urlState.ts and pagination.ts.                                          *)

SEARCH_KEYS == {"filters", "page", "pageSize", "cursor", "sortBy", "sortDir"}
Serialize(state) == Only(state, SEARCH_KEYS)
\* A link is a record of what it has, and the keys whose value does not parse.
Deserialize(link) == Serialize(Without(link.given, link.wrong))

ClampPageSize(requested, max) == Min({Max({1, requested}), max})
TotalPages(total, pageSize) == Max({1, (total + Max({1, pageSize}) - 1) \div Max({1, pageSize})})
ShowingRange(page, pageSize, total) ==
  IF total <= 0 THEN <<0, 0>> ELSE <<Min({(page - 1) * pageSize + 1, total}), Min({page * pageSize, total})>>
PageWindow(current, total, size) ==
  LET end   == Min({total, Max({1, current - size \div 2}) + size - 1})
      start == Max({1, end - size + 1})
  IN IF total < 1 THEN {} ELSE {1, total} \cup (start..end)

ToPaginationState(u) ==
  Only(u, {"cursor"}) @@ [page |-> Or(u, "page", 1), pageSize |-> ClampPageSize(Or(u, "pageSize", Config.pageSize), Config.maxPageSize),
                          sortBy |-> Or(u, "sortBy", DEFAULT_SORT.field), sortDir |-> Or(u, "sortDir", DEFAULT_SORT.direction)]

ResolveMode(page) == IF page > Config.offsetMaxPage THEN "keyset" ELSE "offset"
OffsetAt(state, page) == [Without(state, {"cursor"}) EXCEPT !.page = page]
OffsetFirstPage(state) == OffsetAt(state, 1)
KeysetAt(state, page, cursor) == [cursor |-> cursor] @@ [state EXCEPT !.page = page]

\* Mutant: the order changes and the cursor of the old order is kept.
OnSortKeepsCursor(state, sort) == [state EXCEPT !.page = 1, !.sortBy = sort.field, !.sortDir = sort.direction]
OnSort(state, sort) == [OffsetFirstPage(state) EXCEPT !.sortBy = sort.field, !.sortDir = sort.direction]
OnPageSize(state, requested) == [OffsetFirstPage(state) EXCEPT !.pageSize = ClampPageSize(requested, Config.maxPageSize)]
OnNext(state, nextCursor) ==
  LET target == state.page + 1
  IN IF "cursor" \notin DOMAIN state /\ ResolveMode(target) = "offset" THEN OffsetAt(state, target)
     ELSE IF nextCursor = Null THEN state ELSE KeysetAt(state, target, nextCursor)
OnPrev(state, prevCursor) ==
  LET target == state.page - 1
  IN CASE target < 1                     -> state
       [] target \in 1..Config.offsetMaxPage -> OffsetAt(state, target)
       [] OTHER -> IF prevCursor = Null THEN state ELSE KeysetAt(state, target, prevCursor)

-----------------------------------------------------------------------------
(* api/query.ts and api/keywords.ts.                                       *)

PostQuery(view, filters, sort, pagination, select) ==
  QueryWithView(Rows, [view |-> view, filters |-> filters, sort |-> sort, select |-> select,
                       pagination |-> pagination @@ [pageSize |-> ServerPageSize]], BuiltinViews[view], Limits)
KEYWORDS_VIEW_SELECT == {"text", "normalizedText", "intent", "avgMonthlySearches", "competition", "competitionIndex",
                         "cpcLow", "cpcHigh", "monthlyVolumes"}
GetKeywordsView(u) ==
  PostQuery("keywords", DeserializeFiltersFromUrl(u),
            IF "sortBy" \in DOMAIN u THEN <<[field |-> u.sortBy, direction |-> Or(u, "sortDir", "desc")]>> ELSE <<>>,
            Only(u, {"page", "pageSize", "cursor"}), KEYWORDS_VIEW_SELECT)

\* KeywordsView: the key of the query, and what is on the screen.
QueryKey(u) == Only(u, SEARCH_KEYS)
Pending(u, known) == QueryKey(u) \notin DOMAIN known
TableShown(u, known) == /\ ~Pending(u, known)
                        /\ known[QueryKey(u)].status = 200
                        /\ known[QueryKey(u)].result.rows # <<>>
Shown == answers[QueryKey(url)].result
State == ToPaginationState(url)
Mode  == IF "cursor" \in DOMAIN State THEN "keyset" ELSE "offset"
Pages == TotalPages(Shown.total, State.pageSize)
PrevDisabled == IF Mode = "keyset" THEN trail = <<>> ELSE State.page <= 1
NextDisabled == IF Mode = "keyset" THEN Shown.cursor = Null ELSE State.page >= Pages
CurrentPage == IF Mode = "keyset" THEN Shown.page ELSE State.page

-----------------------------------------------------------------------------
Init == /\ url \in {Deserialize(l) : l \in Links}
        /\ answers = <<>>
        /\ trail = <<>>

\* The pager, and the trail with it, goes when the table does.
Navigate(to, kept) ==
  /\ url' = to
  /\ trail' = IF TableShown(to, answers) THEN kept ELSE <<>>
  /\ UNCHANGED answers
\* A record has no undefined fields: those the reducer cleared leave the URL.
ApplyState(next, kept) == Navigate(next @@ Without(url, {"cursor"}), kept)

Visit(link) ==
  /\ url' = Deserialize(link)
  /\ trail' = <<>>
  /\ answers' = <<>>

\* The request of the current key is answered, or it fails.
Fetched ==
  /\ Pending(url, answers)
  /\ Cardinality(DOMAIN answers) < MaxCached
  /\ \E a \in {GetKeywordsView(url), [status |-> 500]} : answers' = (QueryKey(url) :> a) @@ answers
  /\ UNCHANGED <<url, trail>>

\* The user asks again after an error.
Refetch ==
  /\ ~Pending(url, answers) /\ answers[QueryKey(url)].status # 200
  /\ answers' = [answers EXCEPT ![QueryKey(url)] = GetKeywordsView(url)]
  /\ UNCHANGED <<url, trail>>

\* An answer that no screen uses is dropped after a while.
Collect ==
  /\ \E k \in DOMAIN answers \ {QueryKey(url)} : answers' = Without(answers, {k})
  /\ UNCHANGED <<url, trail>>

HandleNext ==
  /\ TableShown(url, answers) /\ ~NextDisabled /\ Len(trail) < MaxTrail
  /\ \E next \in {OnNext(State, Shown.cursor)} :
       ApplyState(next, IF "cursor" \in DOMAIN next THEN Append(trail, Or(State, "cursor", Null)) ELSE trail)
HandlePrev ==
  /\ TableShown(url, answers) /\ ~PrevDisabled
  /\ IF Mode = "keyset" THEN ApplyState(OnPrev(State, Last(trail)), Front(trail))
                        ELSE ApplyState(OnPrev(State, Null), trail)
HandleGoto(page) ==
  /\ TableShown(url, answers) /\ Mode = "offset"
  /\ page \in PageWindow(CurrentPage, Min({Pages, Config.offsetMaxPage}), 3)
  /\ ApplyState(OffsetAt(State, page), <<>>)
HandleSort(sort) == TableShown(url, answers) /\ ApplyState(OnSort(State, sort), <<>>)
HandlePageSize(size) == TableShown(url, answers) /\ ApplyState(OnPageSize(State, size), <<>>)

\* The filter bar: it stays whatever the table shows, and leaves the trail as it is.
Spec0 == DeserializeFiltersFromUrl(url)
HandleChange(next) ==
  Navigate((IF NormalizeSpec(next) = <<>> THEN <<>> ELSE [filters |-> SerializeFiltersToUrl(next)])
             @@ Without(url, {"filters", "page", "cursor"}), trail)
\* The popover starts from the filter there is, and what the user typed is on top of it.
HandleApply(field, draft) ==
  /\ field \notin ROADMAP_FILTER_FIELDS
  /\ \E typed \in {Only(draft, FieldKeys[field]) @@ PopoverSeed(Spec0, field)} :
       RangeValid(field, typed) /\ HandleChange(ApplyChip(Spec0, BuildChip(Spec0, field, typed)))
HandleClear(field) == field \notin ROADMAP_FILTER_FIELDS /\ HandleChange(ClearField(Spec0, field))
ClearAll == HandleChange(<<>>)

Next == \/ \E l \in Links : Visit(l)
        \/ Fetched \/ Refetch \/ Collect
        \/ HandleNext \/ HandlePrev
        \/ \E p \in 1..Config.offsetMaxPage : HandleGoto(p)
        \/ \E s \in Sorts : HandleSort(s)
        \/ \E n \in PageSizes : HandlePageSize(n)
        \/ \E f \in Fields, d \in Drafts : HandleApply(f, d)
        \/ \E f \in Fields : HandleClear(f)
        \/ ClearAll

Spec == Init /\ [][Next]_kvars

-----------------------------------------------------------------------------
TypeOK ==
  /\ DOMAIN url \subseteq SEARCH_KEYS
  /\ \A k \in DOMAIN answers : answers[k].status \in {200, 400, 500}
  /\ Len(trail) <= MaxTrail

\* What the pager says is on the screen is on the screen: the rows of the page the URL names are the rows
\* of the table, in its order and under its filter, whether they were asked for by number or by cursor
\* (KeywordsPagination, showingRange).
FooterNamesTheRows ==
  TableShown(url, answers) =>
    \E sorted \in {SortRows(ApplyFilter(Rows, Spec0), [field |-> State.sortBy, direction |-> State.sortDir])} :
      \E range \in {ShowingRange(State.page, State.pageSize, Shown.total)} :
        Shown.rows = SubSeq(sorted, range[1], range[2])

\* To apply or clear one filter leaves every other filter of the bar as it was (applyChip, clearField).
EditsKeepOthers ==
  [][\A f \in Fields :
       (\E d \in Drafts : HandleApply(f, d)) \/ HandleClear(f)
         => {c \in SpecToChips(Spec0') : c.field # f} = {c \in SpecToChips(Spec0) : c.field # f}]_kvars
=============================================================================
