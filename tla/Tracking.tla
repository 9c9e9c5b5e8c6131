------------------------------- MODULE Tracking -------------------------------
(* Tracking lists, the volume series of their members, and the jobs that     *)
(* refresh them.  A request and a refresh are sequences of awaited database  *)
(* calls: client[c] and slot[w] say which one comes next.  A transaction     *)
(* that holds an advisory lock is two steps, the read under the lock and the *)
(* write with which it commits.                                              *)
EXTENDS TrackedState, SequencesExt, FiniteSetsExt

CONSTANTS
  Lists, Names, Contexts,
  Existing,      \* lists of nobody that are there at the start, without members
  Keys,          \* normalized texts, ordered as the database orders them
  Values,        \* observations; NoVolume is one without a volume
  NoVolume,
  Topics,        \* [analysis owner, context, keys] of a topic of an analysis
  Clients, Workers, Operations,
  Callers,       \* the actors that send requests
  MaxItems, BatchSize,
  LeaseTime, KeepSeries,
  Faults,        \* subset of {"fetchFails", "workerDies", "addFails"}
  MaxTime, MaxEvents

VARIABLES
  client,
  refreshJob,    \* per list, the job with the id of its manual refresh
  sweepJobs,     \* scheduled jobs that wait
  leasedUntil,
  now,
  events         \* calls, firings of the scheduler and deaths so far

rowVars == <<list, member, series>>
jobVars == <<refreshJob, sweepJobs, leasedUntil>>
vars    == <<rowVars, jobVars, client, slot, disturbed, now, events>>

Time   == 0..MaxTime
Row    == [status: {"unborn", "live", "gone"}, owner: Owners, name: Names, context: Contexts]
Snapshot  == [at: Time, value: Values]
KeywordItems == [kind: {"keyword"}, owner: {Shared}, context: Contexts, keys: {{k} : k \in Keys}]
TopicItems   == {[kind |-> "topic", owner |-> t.owner, context |-> t.context, keys |-> t.keys] : t \in Topics}
Items        == KeywordItems \cup TopicItems

Idle == [at |-> "idle"]
Resting == [at |-> "idle", todo |-> {}, list |-> CHOOSE l \in Lists : TRUE, keys |-> {}, batch |-> {}, when |-> NoTime,
            got |-> [k \in {} |-> NoVolume], lease |-> NoTime, sweep |-> FALSE]

\* What the constants are: texts are numbered in the order of the database.
ConstantsOK ==
  /\ IsFiniteSet(Lists) /\ Lists # {} /\ Names # {} /\ Contexts # {}
  /\ IsFiniteSet(Keys) /\ Keys \subseteq Int /\ Keys # {}
  /\ Existing \subseteq Lists /\ Cardinality(Existing) <= MaxLists
  /\ Callers \subseteq Actors /\ Machine \notin Users
  /\ Operations \subseteq {"create", "add", "remove", "rename", "delete", "refresh"}
  /\ \A t \in Topics : t.owner \in Owners /\ t.context \in Contexts /\ t.keys \subseteq Keys
  /\ {MaxLists, MaxMembers, MaxItems, LeaseTime, MaxEvents} \subseteq Nat /\ {BatchSize, MaxTime} \subseteq Nat \ {0}
  /\ {KeepSeries, SweepFits} \subseteq BOOLEAN

Members(l) == {k \in Keys : member[l][k] # NotMember}

TypeOK ==
  /\ list \in [Lists -> Row]
  /\ member \in [Lists -> [Keys -> [added: Time, checked: Time]]]
  /\ \A l \in Lists, k \in Keys : \A i \in DOMAIN series[l][k] : series[l][k][i] \in Snapshot
  /\ refreshJob \in [Lists -> {"absent", "wait", "active"}]
  /\ sweepJobs \in 0..MaxEvents
  /\ leasedUntil \in 0..(MaxTime + LeaseTime)
  /\ disturbed \subseteq Lists
  /\ now \in Time \ {NoTime}
  /\ events \in 0..MaxEvents

Init ==
  /\ list = [l \in Lists |-> [status |-> IF l \in Existing THEN "live" ELSE "unborn", owner |-> Shared,
                              name |-> CHOOSE n \in Names : TRUE, context |-> CHOOSE x \in Contexts : TRUE]]
  /\ member = [l \in Lists |-> [k \in Keys |-> NotMember]]
  /\ series = [l \in Lists |-> [k \in Keys |-> <<>>]]
  /\ client = [c \in Clients |-> Idle]
  /\ slot = [w \in Workers |-> Resting]
  /\ refreshJob = [l \in Lists |-> "absent"]
  /\ sweepJobs = 0 /\ leasedUntil = NoTime
  /\ disturbed = {}
  /\ now = 1
  /\ events = 0

\* The bound on what comes from outside.
Count == events < MaxEvents /\ events' = events + 1

\* {l} if a refresh or a removal is under way on l.
Refreshing(l) == \E w \in Workers : slot[w].when # NoTime /\ slot[w].list = l
Removing(l)   == \E c \in Clients : client[c].at = "deleteSeries" /\ client[c].list = l
Meets(l)      == IF Refreshing(l) \/ Removing(l) THEN {l} ELSE {}

-----------------------------------------------------------------------------
(* Requests *)

Goto(c, stage) == client' = [client EXCEPT ![c].at = stage]
Done(c)        == client' = [client EXCEPT ![c] = Idle]
Continue(c, ok, stage) == IF ok THEN Goto(c, stage) ELSE Done(c)

\* What a request names, as far as its operation reads it, and its first awaited call:
\* every operation but create reads the list and checks the actor.
Arguments(op) ==
  LET some(set, ops) == IF op \in ops THEN set ELSE {CHOOSE x \in set : TRUE} IN
  [at : {IF op = "create" THEN "count" ELSE "find"}, op : {op}, actor : Callers, toAdd : {{}},
   list : some(Lists, Operations \ {"create"}), name : some(Names, {"create", "rename"}),
   context : some(Contexts, {"create"}), key : some(Keys, {"remove"}),
   items : IF op = "add" THEN {s \in SUBSET Items : s # {} /\ Cardinality(s) <= MaxItems} ELSE {{}}]

Call(c) ==
  /\ client[c] = Idle
  /\ Count
  /\ \E op \in Operations : \E q \in Arguments(op) : client' = [client EXCEPT ![c] = q]
  /\ UNCHANGED <<rowVars, jobVars, slot, disturbed, now>>

AssertOwnedRow(l, actor) == Live(l) /\ CanAccess(list[l].owner, actor)

Find(c) ==
  LET q == client[c] IN
  /\ q.at = "find"
  /\ Continue(c, AssertOwnedRow(q.list, q.actor),
       CASE q.op = "add"     -> "expand"
         [] q.op = "remove"  -> "deleteMember"
         [] q.op = "rename"  -> "update"
         [] q.op = "delete"  -> IF KeepSeries THEN "deleteList" ELSE "deleteAllSeries"
         [] q.op = "refresh" -> "enqueue")
  /\ UNCHANGED <<rowVars, jobVars, slot, disturbed, now, events>>

\* A name is unique per owner; the index lets the lists of nobody share one.
NameTaken(l, owner, name) ==
  owner # Shared /\ \E m \in Lists \ {l} : Live(m) /\ list[m].owner = owner /\ list[m].name = name

Owned(owner) == {l \in Lists : Live(l) /\ list[l].owner = owner}

CreateCount(c) ==
  LET q == client[c]
      owner == OwnerIdOf(q.actor) IN
  /\ q.at = "count"
  /\ ~\E d \in Clients : client[d].at = "insert" /\ OwnerIdOf(client[d].actor) = owner
  /\ Continue(c, Cardinality(Owned(owner)) < MaxLists, "insert")
  /\ UNCHANGED <<rowVars, jobVars, slot, disturbed, now, events>>

CreateInsert(c) ==
  LET q == client[c]
      owner == OwnerIdOf(q.actor) IN
  /\ q.at = "insert"
  /\ \E l \in Lists :
       /\ list[l].status = "unborn"
       /\ list' = IF NameTaken(l, owner, q.name) THEN list
                  ELSE [list EXCEPT ![l] = [status |-> "live", owner |-> owner, name |-> q.name, context |-> q.context]]
  /\ Done(c)
  /\ UNCHANGED <<member, series, jobVars, slot, disturbed, now, events>>

\* A topic of an analysis the actor may not see contributes nothing.
ExpandItems(items, actor) == {i \in items : i.kind = "keyword" \/ CanAccess(i.owner, actor)}

Expand(c) ==
  LET q == client[c]
      candidates == ExpandItems(q.items, q.actor) IN
  /\ q.at = "expand"
  /\ IF \A i \in candidates : i.context = list[q.list].context
     THEN client' = [client EXCEPT ![c].at = "lock", ![c].toAdd = UNION {i.keys : i \in candidates}]
     ELSE Done(c)
  /\ UNCHANGED <<rowVars, jobVars, slot, disturbed, now, events>>

\* Mutant: the members are counted without the lock of the list.
AddCountUnlocked(c) ==
  LET q == client[c]
      toAdd == q.toAdd \ Members(q.list) IN
  /\ q.at = "lock"
  /\ IF Cardinality(Members(q.list)) + Cardinality(toAdd) > MaxMembers
     THEN Done(c)
     ELSE client' = [client EXCEPT ![c].at = "createMany", ![c].toAdd = toAdd]
  /\ UNCHANGED <<rowVars, jobVars, slot, disturbed, now, events>>

AddCount(c) ==
  LET q == client[c]
      toAdd == q.toAdd \ Members(q.list) IN
  /\ q.at = "lock"
  /\ ~\E d \in Clients : client[d].at = "createMany" /\ client[d].list = q.list
  /\ IF Cardinality(Members(q.list)) + Cardinality(toAdd) > MaxMembers
     THEN Done(c)
     ELSE client' = [client EXCEPT ![c].at = "createMany", ![c].toAdd = toAdd]
  /\ UNCHANGED <<rowVars, jobVars, slot, disturbed, now, events>>

\* skipDuplicates; the foreign key refuses members of a list that is gone.
AddInsert(c) ==
  LET q == client[c] IN
  /\ q.at = "createMany"
  /\ member' = IF ~Live(q.list) THEN member
               ELSE [member EXCEPT ![q.list] = [k \in Keys |->
                       IF k \in q.toAdd \ Members(q.list) THEN [added |-> now, checked |-> NoTime] ELSE @[k]]]
  /\ disturbed' = IF Removing(q.list) THEN disturbed \cup {q.list} ELSE disturbed
  /\ Done(c)
  /\ UNCHANGED <<list, series, jobVars, slot, now, events>>

RemoveMember(c) ==
  LET q == client[c] IN
  /\ q.at = "deleteMember"
  /\ member' = [member EXCEPT ![q.list][q.key] = NotMember]
  /\ Continue(c, q.key \in Members(q.list), "deleteSeries")
  /\ disturbed' = disturbed \cup Meets(q.list)
  /\ UNCHANGED <<list, series, jobVars, slot, now, events>>

RemoveSeries(c) ==
  LET q == client[c] IN
  /\ q.at = "deleteSeries"
  /\ series' = [series EXCEPT ![q.list][q.key] = <<>>]
  /\ Done(c)
  /\ UNCHANGED <<list, member, jobVars, slot, disturbed, now, events>>

Rename(c) ==
  LET q == client[c] IN
  /\ q.at = "update"
  /\ list' = IF Live(q.list) /\ ~NameTaken(q.list, list[q.list].owner, q.name)
             THEN [list EXCEPT ![q.list].name = q.name] ELSE list
  /\ Done(c)
  /\ UNCHANGED <<member, series, jobVars, slot, disturbed, now, events>>

DeleteSeries(c) ==
  LET q == client[c] IN
  /\ q.at = "deleteAllSeries"
  /\ series' = [series EXCEPT ![q.list] = [k \in Keys |-> <<>>]]
  /\ Goto(c, "deleteList")
  /\ disturbed' = disturbed \cup {q.list}
  /\ UNCHANGED <<list, member, jobVars, slot, now, events>>

\* The members go with the list, the series do not.
DeleteList(c) ==
  LET q == client[c] IN
  /\ q.at = "deleteList"
  /\ list' = [list EXCEPT ![q.list].status = "gone"]
  /\ member' = [member EXCEPT ![q.list] = [k \in Keys |-> NotMember]]
  /\ Done(c)
  /\ UNCHANGED <<series, jobVars, slot, disturbed, now, events>>

\* A job id that waits or runs swallows the second add.
EnqueueManualRefresh(c) ==
  LET q == client[c] IN
  /\ q.at = "enqueue"
  /\ \/ refreshJob' = [refreshJob EXCEPT ![q.list] = IF @ = "absent" THEN "wait" ELSE @]
     \/ "addFails" \in Faults /\ UNCHANGED refreshJob
  /\ Done(c)
  /\ UNCHANGED <<rowVars, sweepJobs, leasedUntil, slot, disturbed, now, events>>

-----------------------------------------------------------------------------
(* Refresh jobs *)

Step(w, stage) == slot' = [slot EXCEPT ![w].at = stage]

\* The scheduler adds a job per firing of the cron pattern.
Schedule ==
  /\ Count
  /\ sweepJobs' = sweepJobs + 1
  /\ UNCHANGED <<rowVars, client, slot, refreshJob, leasedUntil, disturbed, now>>

TakeRefresh(w) ==
  /\ slot[w] = Resting
  /\ \E l \in Lists :
       /\ refreshJob[l] = "wait"
       /\ refreshJob' = [refreshJob EXCEPT ![l] = "active"]
       /\ slot' = [slot EXCEPT ![w] = [Resting EXCEPT !.at = "next", !.todo = {l}, !.list = l]]
  /\ UNCHANGED <<rowVars, client, sweepJobs, leasedUntil, disturbed, now, events>>

TakeSweep(w) ==
  /\ slot[w] = Resting
  /\ sweepJobs > 0
  /\ sweepJobs' = sweepJobs - 1
  /\ slot' = [slot EXCEPT ![w].at = "acquire", ![w].sweep = TRUE]
  /\ UNCHANGED <<rowVars, client, refreshJob, leasedUntil, disturbed, now, events>>

\* One statement: insert, or take over a row whose time has passed.
LeaseFree == leasedUntil = NoTime \/ leasedUntil < now

\* Mutant: a job that did not get the lease gives it back all the same.
AcquireFinally(w) ==
  /\ slot[w].at = "acquire"
  /\ IF LeaseFree
     THEN leasedUntil' = now + LeaseTime /\ slot' = [slot EXCEPT ![w].at = "lists", ![w].lease = now + LeaseTime]
     ELSE slot' = [slot EXCEPT ![w] = Resting] /\ leasedUntil' = now
  /\ UNCHANGED <<rowVars, client, refreshJob, sweepJobs, disturbed, now, events>>

Acquire(w) ==
  /\ slot[w].at = "acquire"
  /\ IF LeaseFree
     THEN leasedUntil' = now + LeaseTime /\ slot' = [slot EXCEPT ![w].at = "lists", ![w].lease = now + LeaseTime]
     ELSE slot' = [slot EXCEPT ![w] = Resting] /\ UNCHANGED leasedUntil
  /\ UNCHANGED <<rowVars, client, refreshJob, sweepJobs, disturbed, now, events>>

SweepLists(w) ==
  /\ slot[w].at = "lists"
  /\ slot' = [slot EXCEPT ![w].at = "next", ![w].todo = {l \in Lists : Live(l)}]
  /\ UNCHANGED <<rowVars, jobVars, client, disturbed, now, events>>

\* refreshLists: one list after the other, whatever becomes of each.
NextList(w) ==
  LET s == slot[w] IN
  /\ s.at = "next" /\ s.todo # {}
  /\ \E l \in s.todo :
       IF Live(l)
       THEN /\ slot' = [slot EXCEPT ![w].at = "fetch", ![w].todo = @ \ {l}, ![w].list = l,
                                    ![w].keys = Members(l), ![w].when = now]
            /\ disturbed' = disturbed \cup Meets(l)
       ELSE slot' = [slot EXCEPT ![w].todo = @ \ {l}] /\ UNCHANGED disturbed
  /\ UNCHANGED <<rowVars, jobVars, client, now, events>>

FirstKeys(keys) == {k \in keys : Cardinality({j \in keys : j < k}) < BatchSize}

\* A batch that cannot be fetched is counted and left out.
Fetch(w) ==
  LET s == slot[w]
      batch == FirstKeys(s.keys) IN
  /\ s.at = "fetch"
  /\ IF s.keys = {} THEN slot' = [slot EXCEPT ![w].at = "next", ![w].when = NoTime]
     ELSE \/ \E got \in [batch -> Values] :
               slot' = [slot EXCEPT ![w].at = "latest", ![w].keys = @ \ batch, ![w].batch = batch, ![w].got = got]
          \/ "fetchFails" \in Faults /\ slot' = [slot EXCEPT ![w].keys = @ \ batch]
  /\ UNCHANGED <<rowVars, jobVars, client, disturbed, now, events>>

\* The newest snapshot of a key.
Latest(rows) == Max({rows[i].at : i \in DOMAIN rows})
\* Mutant: the oldest snapshot stands for the newest one.
SameAsFirst(rows, value) == rows # <<>> /\ rows[1].value = value
SameAsLatest(rows, value) == rows # <<>> /\ \E i \in DOMAIN rows : rows[i].at = Latest(rows) /\ rows[i].value = value

FindLatest(w) ==
  LET s == slot[w]
      k == Min(s.batch) IN
  /\ s.at = "latest"
  /\ Step(w, IF SameAsLatest(series[s.list][k], s.got[k]) THEN "touch" ELSE "append")
  /\ UNCHANGED <<rowVars, jobVars, client, disturbed, now, events>>

AppendSnapshot(w) ==
  LET s == slot[w]
      k == Min(s.batch) IN
  /\ s.at = "append"
  /\ series' = [series EXCEPT ![s.list][k] = Append(@, [at |-> s.when, value |-> s.got[k]])]
  /\ Step(w, "touch")
  /\ UNCHANGED <<list, member, jobVars, client, disturbed, now, events>>

\* Refused, and counted, when the member was removed meanwhile.
Touch(w) ==
  LET s == slot[w]
      k == Min(s.batch) IN
  /\ s.at = "touch"
  /\ member' = IF k \in Members(s.list) THEN [member EXCEPT ![s.list][k].checked = s.when] ELSE member
  /\ slot' = [slot EXCEPT ![w].at = IF s.batch = {k} THEN "fetch" ELSE "latest", ![w].batch = @ \ {k},
                          ![w].got = IF s.batch = {k} THEN Resting.got ELSE @]
  /\ UNCHANGED <<list, series, jobVars, client, disturbed, now, events>>

\* A manual job is removed when it ends; a sweep gives its lease back.
Finish(w) ==
  LET s == slot[w] IN
  /\ s.at = "next" /\ s.todo = {}
  /\ IF s.sweep THEN leasedUntil' = now /\ UNCHANGED refreshJob
     ELSE refreshJob' = [refreshJob EXCEPT ![s.list] = "absent"] /\ UNCHANGED leasedUntil
  /\ slot' = [slot EXCEPT ![w] = Resting]
  /\ UNCHANGED <<rowVars, client, sweepJobs, disturbed, now, events>>

\* The stalled check gives the job of a dead worker out again; its lease stays.
WorkerDies(w) ==
  LET s == slot[w] IN
  /\ "workerDies" \in Faults
  /\ Count
  /\ s.at # "idle"
  /\ IF s.sweep THEN sweepJobs' = sweepJobs + 1 /\ UNCHANGED refreshJob
     ELSE refreshJob' = [refreshJob EXCEPT ![s.list] = "wait"] /\ UNCHANGED sweepJobs
  /\ slot' = [slot EXCEPT ![w] = Resting]
  /\ UNCHANGED <<rowVars, client, leasedUntil, disturbed, now>>

Tick ==
  /\ now < MaxTime
  /\ SweepFits => \A w \in Workers : slot[w].lease # NoTime => now < slot[w].lease
  /\ now' = now + 1
  /\ UNCHANGED <<rowVars, jobVars, client, slot, disturbed, events>>

Request(c) == Find(c) \/ CreateCount(c) \/ CreateInsert(c) \/ Expand(c) \/ AddCount(c) \/ AddInsert(c)
              \/ RemoveMember(c) \/ RemoveSeries(c) \/ Rename(c) \/ DeleteSeries(c) \/ DeleteList(c)
              \/ EnqueueManualRefresh(c)
Work(w) == Acquire(w) \/ SweepLists(w) \/ NextList(w) \/ Fetch(w) \/ FindLatest(w) \/ AppendSnapshot(w)
           \/ Touch(w) \/ Finish(w)
Take(w) == TakeRefresh(w) \/ TakeSweep(w)

Next ==
  \/ \E c \in Clients : Call(c) \/ Request(c)
  \/ \E w \in Workers : Take(w) \/ Work(w) \/ WorkerDies(w)
  \/ Schedule
  \/ Tick

Spec == Init /\ [][Next]_vars

-----------------------------------------------------------------------------
(* The series of a list as a client gets it: a common axis of the times at   *)
(* which anything was stored, per member the points on it and the newest     *)
(* snapshot whatever the range, and the sum of the volumes there are.        *)
NoPoint == [at |-> NoTime, value |-> NoVolume]
Volume(v) == IF v = NoVolume THEN 0 ELSE v

SeriesWhere(l, k, from, to) == SelectSeq(series[l][k], LAMBDA r : from <= r.at /\ r.at <= to)

LatestPoint(rows) == IF rows = <<>> THEN NoPoint ELSE SelectSeq(rows, LAMBDA r : r.at = Latest(rows))[1]

\* Mutant: the newest snapshot is looked for in the range only.
RangedVolumeSeries(l, from, to) ==
  LET rows(k) == SeriesWhere(l, k, from, to)
      axis    == SetToSortSeq(UNION {{r.at : r \in ToSet(rows(k))} : k \in Members(l)}, <)
      present(k, t) == SelectSeq(rows(k), LAMBDA r : r.at = t)
      point(k, t) == IF present(k, t) = <<>> THEN NoPoint ELSE Last(present(k, t))
  IN [axis    |-> axis,
      total   |-> [i \in DOMAIN axis |-> MapThenSumSet(LAMBDA k : Volume(point(k, axis[i]).value), Members(l))],
      points  |-> [k \in Members(l) |-> [i \in DOMAIN axis |-> point(k, axis[i])]],
      latest  |-> [k \in Members(l) |-> LatestPoint(rows(k))],
      checked |-> [k \in Members(l) |-> member[l][k].checked]]

AssembleVolumeSeries(l, from, to) ==
  LET rows(k)     == SeriesWhere(l, k, from, to)
      axis        == SetToSortSeq(UNION {{r.at : r \in ToSet(rows(k))} : k \in Members(l)}, <)
      present(k, t) == SelectSeq(rows(k), LAMBDA r : r.at = t)
      point(k, t) == IF present(k, t) = <<>> THEN NoPoint ELSE Last(present(k, t))
  IN [axis    |-> axis,
      total   |-> [i \in DOMAIN axis |-> MapThenSumSet(LAMBDA k : Volume(point(k, axis[i]).value), Members(l))],
      points  |-> [k \in Members(l) |-> [i \in DOMAIN axis |-> point(k, axis[i])]],
      latest  |-> [k \in Members(l) |-> LatestPoint(series[l][k])],
      checked |-> [k \in Members(l) |-> member[l][k].checked]]

-----------------------------------------------------------------------------
(* Properties *)

(* What the series of an undisturbed list tells a client agrees with itself: *)
(* a member that was checked has a newest snapshot, which is not newer than  *)
(* the check unless the check is about to be written; the axis rises; no     *)
(* point in any range is newer than the newest snapshot; and the total of    *)
(* the whole range at its end is at least the volume of any member there.    *)
SeriesTellsTheChecks ==
  \A l \in Lists \ disturbed : \A from, to \in Time : Live(l) /\ from <= to =>
    LET s == AssembleVolumeSeries(l, from, to) IN
    /\ \A i, j \in DOMAIN s.axis : i < j => s.axis[i] < s.axis[j]
    /\ \A k \in Members(l) :
         /\ s.checked[k] # NoTime => s.latest[k] # NoPoint
         /\ s.latest[k].at <= s.checked[k] \/ Refreshing(l) \/ "workerDies" \in Faults
         /\ \A i \in DOMAIN s.axis : s.points[k][i].at <= s.latest[k].at /\ s.total[i] >= Volume(s.points[k][i].value)

(* A member that is added again does not bring back the series of the one    *)
(* that was removed: its snapshots are not older than itself                 *)
(* (tracking-list.service.ts:352).                                           *)
ReaddedStartsFresh ==
  \A l \in Lists, k \in Keys : \A i \in DOMAIN series[l][k] :
    Live(l) /\ k \in Members(l) /\ ~Removing(l) => series[l][k][i].at >= member[l][k].added
=============================================================================
