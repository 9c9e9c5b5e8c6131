---------------------------- MODULE TrackingProofs ----------------------------
(***************************************************************************)
(* Theorems about Tracking, for any number of lists, members, requests and *)
(* workers, and any limits.                                                *)
(***************************************************************************)
EXTENDS Tracking, FiniteSetTheorems, WellFoundedInduction, TLAPS

CallStage    == {"count", "insert", "find", "expand", "lock", "createMany", "deleteMember", "deleteSeries",
                 "update", "deleteAllSeries", "deleteList", "enqueue"}
RefreshStage == {"fetch", "latest", "append", "touch"}
SlotStage    == {"idle", "acquire", "lists", "next"} \cup RefreshStage

RequestType ==
  [at : CallStage, op : Operations, actor : Callers, toAdd : SUBSET Keys, list : Lists, name : Names,
   context : Contexts, key : Keys, items : SUBSET Items]
Fetched  == UNION {[b -> Values] : b \in SUBSET Keys}
SlotType ==
  [at : SlotStage, todo : SUBSET Lists, list : Lists, keys : SUBSET Keys, batch : SUBSET Keys, when : Time,
   got : Fetched, lease : 0..(MaxTime + LeaseTime), sweep : BOOLEAN]

\* A worker that stores a batch has a value for each of its keys.
HandsFull ==
  \A w \in Workers : slot[w].at \in {"latest", "append", "touch"} =>
    slot[w].batch # {} /\ slot[w].batch \subseteq DOMAIN slot[w].got

RowTypes ==
  /\ list \in [Lists -> Row]
  /\ member \in [Lists -> [Keys -> [added: Time, checked: Time]]]
  /\ series \in [Lists -> [Keys -> Seq(Snapshot)]]
ClientTypes ==
  /\ client \in [Clients -> {Idle} \cup RequestType]
  /\ \A c \in Clients : client[c].at = "find" => client[c].op # "create"
SlotTypes   == slot \in [Workers -> SlotType] /\ HandsFull
JobTypes ==
  /\ refreshJob \in [Lists -> {"absent", "wait", "active"}]
  /\ sweepJobs \in Nat /\ events \in 0..MaxEvents /\ sweepJobs <= events
  /\ leasedUntil \in 0..(MaxTime + LeaseTime)
  /\ disturbed \subseteq Lists
  /\ now \in Time \ {NoTime}

TypeInv == RowTypes /\ ClientTypes /\ SlotTypes /\ JobTypes

LEMMA TypeInvGivesTypeOK ==
  ASSUME ConstantsOK, TypeInv
  PROVE  TypeOK
BY DEF ConstantsOK, TypeInv, RowTypes, JobTypes, TypeOK, Time, NoTime

\* A set of texts has a first one: one that leaves as few as possible before it.
LEMMA FirstKey ==
  ASSUME NEW S \in SUBSET Int, IsFiniteSet(S), S # {}
  PROVE  Min(S) \in S /\ \A k \in S : Min(S) <= k
<1> DEFINE Before(m) == {k \in S : k < m}
           All       == {Before(m) : m \in S}
<1>1. IsWellFoundedOn(StrictSubsetOrdering(S), SUBSET S)
  BY FS_StrictSubsetOrderingWellFounded, FS_FiniteSubsetsOfFinite
<1>2. All \subseteq SUBSET S /\ All # {}
  OBVIOUS
<1>3. \E b \in All : \A d \in All : ~(<<d, b>> \in StrictSubsetOrdering(S))
  BY <1>1, <1>2, WFMin
<1>4. PICK m \in S : \A k \in S : ~(<<Before(k), Before(m)>> \in StrictSubsetOrdering(S))
  BY <1>3
<1>5. ASSUME NEW k \in S, k < m
      PROVE  FALSE
  <2>1. Before(k) \subseteq Before(m) /\ k \in Before(m) /\ k \notin Before(k)
    <3>1. \A j \in S : j \in Int
      OBVIOUS
    <3>2. k \in Before(m)
      BY <1>5
    <3>3. ~(k < k) /\ \A j \in S : j < k => j < m
      BY <1>5, <3>1
    <3>4. QED  BY <3>2, <3>3
  <2>2. <<Before(k), Before(m)>> \in StrictSubsetOrdering(S)
    BY <2>1 DEF StrictSubsetOrdering
  <2>3. QED  BY <1>4, <2>2
<1>6. \A k \in S : m <= k
  BY <1>5
<1>7. QED  BY <1>6 DEF Min

LEMMA FirstBatch ==
  ASSUME ConstantsOK, NEW S \in SUBSET Keys, S # {}
  PROVE  FirstKeys(S) # {} /\ FirstKeys(S) \subseteq S
<1>1. IsFiniteSet(S) /\ S \in SUBSET Int /\ BatchSize \in Nat \ {0}
  BY FS_Subset DEF ConstantsOK
<1>2. Min(S) \in S /\ \A k \in S : Min(S) <= k /\ k \in Int
  BY <1>1, FirstKey
<1>3. {j \in S : j < Min(S)} = {}
  BY <1>2
<1>4. Cardinality({}) = 0
  BY FS_EmptySet
<1>5. Cardinality({j \in S : j < Min(S)}) < BatchSize
  BY <1>1, <1>3, <1>4
<1>6. QED  BY <1>2, <1>5 DEF FirstKeys

-----------------------------------------------------------------------------
(* Types.                                                                  *)

LEMMA RestingType ==
  ASSUME ConstantsOK
  PROVE  Resting \in SlotType /\ Resting.lease = NoTime /\ Resting.when = NoTime /\ Resting.at = "idle" /\ ~Resting.sweep
<1>1. Resting.got \in [{} -> Values]
  BY DEF Resting
<1>2. Resting.got \in Fetched
  BY <1>1 DEF Fetched
<1>3. (CHOOSE l \in Lists : TRUE) \in Lists
  BY DEF ConstantsOK
<1>4. NoTime \in Time /\ NoTime \in 0..(MaxTime + LeaseTime)
  BY DEF NoTime, Time, ConstantsOK
<1>5. QED  BY <1>2, <1>3, <1>4 DEF Resting, SlotType, SlotStage

LEMMA InitTypes ==
  ASSUME ConstantsOK, Init
  PROVE  TypeInv
<1>1. RowTypes
  <2>1. (CHOOSE n \in Names : TRUE) \in Names /\ (CHOOSE x \in Contexts : TRUE) \in Contexts
    BY DEF ConstantsOK
  <2>2. list \in [Lists -> Row]
    BY <2>1 DEF Init, Row, Owners
  <2>3. NotMember \in [added: Time, checked: Time] /\ <<>> \in Seq(Snapshot)
    BY DEF NotMember, Time, NoTime, ConstantsOK
  <2>4. QED  BY <2>2, <2>3 DEF Init, RowTypes
<1>2. ClientTypes
  BY DEF Init, ClientTypes, Idle
<1>3. SlotTypes
  <2>1. Resting \in SlotType
    BY RestingType
  <2>2. QED  BY <2>1 DEF Init, SlotTypes, HandsFull, Resting
<1>4. JobTypes
  BY DEF Init, JobTypes, Time, NoTime, ConstantsOK
<1>5. QED  BY <1>1, <1>2, <1>3, <1>4 DEF TypeInv

\* A busy client has a request, and Goto and Done change no other one.
LEMMA Busy ==
  ASSUME ClientTypes, NEW c \in Clients, client[c].at # "idle"
  PROVE  client[c] \in RequestType
BY DEF ClientTypes, Idle

LEMMA GotoTypes ==
  ASSUME ClientTypes, NEW c \in Clients, client[c].at # "idle", NEW s \in CallStage \ {"find"}, Goto(c, s)
  PROVE  /\ ClientTypes'
         /\ client'[c].at = s /\ client'[c].list = client[c].list /\ client'[c].actor = client[c].actor
         /\ client'[c].toAdd = client[c].toAdd
         /\ \A d \in Clients \ {c} : client'[d] = client[d]
<1>1. client[c] \in RequestType
  BY Busy
<1>2. QED  BY <1>1 DEF Goto, ClientTypes, RequestType

LEMMA DoneTypes ==
  ASSUME ClientTypes, NEW c \in Clients, Done(c)
  PROVE  /\ ClientTypes' /\ client'[c] = Idle /\ client'[c].at = "idle"
         /\ \A d \in Clients \ {c} : client'[d] = client[d]
BY DEF Done, ClientTypes, Idle

LEMMA CallTypes ==
  ASSUME ConstantsOK, TypeInv, NEW c \in Clients, Call(c)
  PROVE  TypeInv' /\ client'[c].at \in {"count", "find"} /\ \A d \in Clients \ {c} : client'[d] = client[d]
<1>0. PICK op \in Operations : \E q \in Arguments(op) : client' = [client EXCEPT ![c] = q]
  BY DEF Call
<1>1. PICK q \in Arguments(op) : client' = [client EXCEPT ![c] = q]
  BY <1>0
<1>2. q \in RequestType /\ q.at \in {"count", "find"} /\ (q.at = "find" => q.op # "create")
  <2> DEFINE any(set) == CHOOSE x \in set : TRUE
  <2>1. any(Lists) \in Lists /\ any(Names) \in Names /\ any(Contexts) \in Contexts /\ any(Keys) \in Keys
    BY DEF ConstantsOK
  <2>2. QED  BY <2>1 DEF Arguments, RequestType, CallStage
<1>3. ClientTypes' /\ client'[c] = q /\ \A d \in Clients \ {c} : client'[d] = client[d]
  BY <1>1, <1>2 DEF TypeInv, ClientTypes
<1>4. JobTypes'
  BY DEF Call, Count, TypeInv, JobTypes, jobVars, ConstantsOK
<1>5. RowTypes' /\ SlotTypes'
  BY DEF Call, TypeInv, RowTypes, SlotTypes, HandsFull, rowVars
<1>6. QED  BY <1>2, <1>3, <1>4, <1>5 DEF TypeInv

\* A topic or a keyword brings texts only.
LEMMA ItemKeys ==
  ASSUME ConstantsOK, NEW S \in SUBSET Items
  PROVE  UNION {i.keys : i \in S} \subseteq Keys
<1>1. \A i \in KeywordItems : i.keys \subseteq Keys
  BY DEF KeywordItems
<1>2. \A i \in TopicItems : i.keys \subseteq Keys
  BY DEF TopicItems, ConstantsOK
<1>3. QED  BY <1>1, <1>2 DEF Items

\* The two steps that fill in what is to be added.
LEMMA ToAddTypes ==
  ASSUME ClientTypes, NEW c \in Clients, client[c].at # "idle", NEW s \in {"lock", "createMany"},
         NEW K \in SUBSET Keys, client' = [client EXCEPT ![c].at = s, ![c].toAdd = K]
  PROVE  /\ ClientTypes'
         /\ client'[c].at = s /\ client'[c].list = client[c].list /\ client'[c].actor = client[c].actor
         /\ client'[c].toAdd = K
         /\ \A d \in Clients \ {c} : client'[d] = client[d]
<1>1. client[c] \in RequestType
  BY Busy
<1>2. QED  BY <1>1 DEF ClientTypes, RequestType, CallStage

\* The calls of a request that read only: the client goes on or is done.
LEMMA ReadTypes ==
  ASSUME ConstantsOK, TypeInv, NEW c \in Clients,
         Find(c) \/ CreateCount(c) \/ Expand(c) \/ AddCount(c)
  PROVE  TypeInv' /\ \A d \in Clients \ {c} : client'[d] = client[d]
<1> USE DEF TypeInv
<1>1. client[c].at # "idle" /\ client[c] \in RequestType
  BY Busy DEF Find, CreateCount, Expand, AddCount
<1>2. ClientTypes' /\ \A d \in Clients \ {c} : client'[d] = client[d]
  <2>1. CASE Find(c)
    <3>1. client[c].op \in {"add", "remove", "rename", "delete", "refresh"}
      BY <1>1, <2>1 DEF Find, ClientTypes, RequestType, ConstantsOK
    <3>2. \/ Done(c)
          \/ \E s \in {"expand", "deleteMember", "update", "deleteList", "deleteAllSeries", "enqueue"} : Goto(c, s)
      BY <2>1, <3>1 DEF Find, Continue
    <3>3. QED  BY <1>1, <3>2, GotoTypes, DoneTypes DEF CallStage
  <2>2. CASE CreateCount(c)
    BY <1>1, <2>2, GotoTypes, DoneTypes DEF CreateCount, Continue, CallStage
  <2>3. CASE Expand(c)
    <3> DEFINE some == ExpandItems(client[c].items, client[c].actor)
    <3>1. some \in SUBSET Items
      BY <1>1 DEF ExpandItems, RequestType
    <3>2. UNION {i.keys : i \in some} \in SUBSET Keys
      BY <3>1, ItemKeys
    <3>3. Done(c) \/ client' = [client EXCEPT ![c].at = "lock", ![c].toAdd = UNION {i.keys : i \in some}]
      BY <2>3 DEF Expand
    <3> HIDE DEF some
    <3>4. QED  BY <1>1, <3>2, <3>3, ToAddTypes, DoneTypes
  <2>4. CASE AddCount(c)
    <3> DEFINE new == client[c].toAdd \ Members(client[c].list)
    <3>1. new \in SUBSET Keys
      BY <1>1 DEF RequestType
    <3>2. Done(c) \/ client' = [client EXCEPT ![c].at = "createMany", ![c].toAdd = new]
      BY <2>4 DEF AddCount
    <3> HIDE DEF new
    <3>3. QED  BY <1>1, <3>1, <3>2, ToAddTypes, DoneTypes
  <2>5. QED  BY <2>1, <2>2, <2>3, <2>4
<1>3. RowTypes' /\ SlotTypes' /\ JobTypes'
  BY DEF Find, CreateCount, Expand, AddCount, RowTypes, SlotTypes, HandsFull, JobTypes, rowVars, jobVars
<1>4. QED  BY <1>2, <1>3

LEMMA WriteTypes ==
  ASSUME ConstantsOK, TypeInv, NEW c \in Clients,
         \/ CreateInsert(c) \/ AddInsert(c) \/ RemoveMember(c) \/ RemoveSeries(c) \/ Rename(c)
         \/ DeleteSeries(c) \/ DeleteList(c) \/ EnqueueManualRefresh(c)
  PROVE  /\ TypeInv' /\ \A d \in Clients \ {c} : client'[d] = client[d]
         /\ client'[c].at \in {"idle", "deleteSeries", "deleteList"}
<1> USE DEF TypeInv
<1>1. client[c].at # "idle" /\ client[c] \in RequestType
  BY Busy DEF CreateInsert, AddInsert, RemoveMember, RemoveSeries, Rename, DeleteSeries, DeleteList,
     EnqueueManualRefresh
<1>2. /\ ClientTypes' /\ \A d \in Clients \ {c} : client'[d] = client[d]
      /\ client'[c].at \in {"idle", "deleteSeries", "deleteList"}
  <2>1. Done(c) \/ Goto(c, "deleteSeries") \/ Goto(c, "deleteList")
    BY DEF CreateInsert, AddInsert, RemoveMember, RemoveSeries, Rename, DeleteSeries, DeleteList,
       EnqueueManualRefresh, Continue
  <2>2. QED  BY <1>1, <2>1, GotoTypes, DoneTypes DEF CallStage
<1>3. RowTypes'
  <2> USE <1>1 DEF RequestType, RowTypes
  <2>1. CASE CreateInsert(c)
    <3>1. OwnerIdOf(client[c].actor) \in Owners
      BY DEF OwnerIdOf, Owners, Actors, ConstantsOK
    <3>2. QED  BY <2>1, <3>1 DEF CreateInsert, Row
  <2>2. CASE AddInsert(c)
    BY <2>2 DEF AddInsert, JobTypes, Time, NoTime, ConstantsOK
  <2>3. CASE RemoveMember(c) \/ DeleteList(c)
    <3>1. NotMember \in [added: Time, checked: Time]
      BY DEF NotMember, Time, NoTime, ConstantsOK
    <3>2. CASE RemoveMember(c)
      BY <3>1, <3>2 DEF RemoveMember
    <3>3. CASE DeleteList(c)
      BY <3>1, <3>3 DEF DeleteList, Row
    <3>4. QED  BY <2>3, <3>2, <3>3
  <2>4. CASE RemoveSeries(c) \/ DeleteSeries(c)
    <3>1. <<>> \in Seq(Snapshot)
      OBVIOUS
    <3>2. CASE RemoveSeries(c)
      BY <3>1, <3>2 DEF RemoveSeries
    <3>3. CASE DeleteSeries(c)
      BY <3>1, <3>3 DEF DeleteSeries
    <3>4. QED  BY <2>4, <3>2, <3>3
  <2>5. CASE Rename(c)
    BY <2>5 DEF Rename, Row
  <2>6. CASE EnqueueManualRefresh(c)
    BY <2>6 DEF EnqueueManualRefresh, rowVars
  <2>7. QED  BY <2>1, <2>2, <2>3, <2>4, <2>5, <2>6
<1>4. SlotTypes' /\ JobTypes'
  BY <1>1 DEF CreateInsert, AddInsert, RemoveMember, RemoveSeries, Rename, DeleteSeries, DeleteList,
     EnqueueManualRefresh, SlotTypes, HandsFull, JobTypes, rowVars, jobVars, RequestType, Meets
<1>5. QED  BY <1>2, <1>3, <1>4

LEMMA WorkTypes ==
  ASSUME ConstantsOK, TypeInv, NEW w \in Workers, Take(w) \/ Work(w) \/ WorkerDies(w)
  PROVE  TypeInv' /\ \A v \in Workers \ {w} : slot'[v] = slot[v]
<1> USE DEF TypeInv
<1>1. slot[w] \in SlotType /\ Resting \in SlotType /\ Resting.at = "idle"
  BY RestingType DEF SlotTypes
<1>2. ASSUME NEW r \in SlotType, slot' = [slot EXCEPT ![w] = r],
             r.at \in {"latest", "append", "touch"} => r.batch # {} /\ r.batch \subseteq DOMAIN r.got
      PROVE  SlotTypes' /\ \A v \in Workers \ {w} : slot'[v] = slot[v]
  BY <1>2 DEF SlotTypes, HandsFull
<1>3. SlotTypes' /\ \A v \in Workers \ {w} : slot'[v] = slot[v]
  <2> USE <1>1 DEF SlotType, SlotStage, RefreshStage, HandsFull, SlotTypes
  <2>1. CASE TakeRefresh(w)
    <3>1. PICK l \in Lists : slot' = [slot EXCEPT ![w] = [Resting EXCEPT !.at = "next", !.todo = {l}, !.list = l]]
      BY <2>1 DEF TakeRefresh
    <3>2. [Resting EXCEPT !.at = "next", !.todo = {l}, !.list = l] \in SlotType
      OBVIOUS
    <3>3. QED  BY <1>2, <3>1, <3>2
  <2>0. CASE TakeSweep(w)
    BY <2>0 DEF TakeSweep
  <2>2. CASE Acquire(w)
    <3>1. now + LeaseTime \in 0..(MaxTime + LeaseTime)
      BY DEF JobTypes, Time, NoTime, ConstantsOK
    <3>2. QED  BY <2>2, <3>1 DEF Acquire
  <2>3. CASE SweepLists(w)
    BY <2>3 DEF SweepLists
  <2>4. CASE NextList(w)
    <3>1. PICK l \in slot[w].todo :
            \/ slot' = [slot EXCEPT ![w].at = "fetch", ![w].todo = @ \ {l}, ![w].list = l,
                                    ![w].keys = Members(l), ![w].when = now]
            \/ slot' = [slot EXCEPT ![w].todo = @ \ {l}]
      BY <2>4 DEF NextList
    <3>2. Members(l) \in SUBSET Keys /\ now \in Time /\ l \in Lists
      BY DEF Members, JobTypes
    <3>3. QED  BY <2>4, <3>1, <3>2 DEF NextList
  <2>5. CASE Fetch(w)
    <3> DEFINE b == FirstKeys(slot[w].keys)
    <3>1. CASE slot[w].keys = {}
      BY <2>5, <3>1 DEF Fetch, NoTime, Time, ConstantsOK
    <3>2. CASE slot[w].keys # {} /\ slot' = [slot EXCEPT ![w].keys = @ \ b]
      BY <2>5, <3>2 DEF Fetch
    <3>3. ASSUME NEW got \in [b -> Values], slot[w].keys # {},
                 slot' = [slot EXCEPT ![w].at = "latest", ![w].keys = @ \ b, ![w].batch = b, ![w].got = got]
          PROVE  SlotTypes' /\ \A v \in Workers \ {w} : slot'[v] = slot[v]
      <4>1. b # {} /\ b \subseteq slot[w].keys
        BY <3>3, FirstBatch
      <4>2. b \in SUBSET Keys /\ got \in Fetched /\ DOMAIN got = b
        BY <4>1 DEF Fetched
      <4> HIDE DEF b
      <4>3. QED  BY <3>3, <4>1, <4>2
    <3>4. QED  BY <2>5, <3>1, <3>2, <3>3 DEF Fetch
  <2>6. CASE FindLatest(w)
    BY <2>6 DEF FindLatest, Step
  <2>7. CASE AppendSnapshot(w)
    BY <2>7 DEF AppendSnapshot, Step
  <2>8. CASE Touch(w)
    <3> DEFINE k == Min(slot[w].batch)
    <3>1. CASE slot[w].batch = {k}
      BY <2>8, <3>1 DEF Touch
    <3>2. CASE slot[w].batch # {k}
      <4>1. slot[w].batch # {}
        BY <2>8 DEF Touch
      <4>2. slot[w].batch \ {k} # {} /\ slot[w].batch \ {k} \subseteq DOMAIN slot[w].got
        BY <2>8, <3>2, <4>1 DEF Touch
      <4>3. slot' = [slot EXCEPT ![w].at = "latest", ![w].batch = @ \ {k}, ![w].got = @]
        BY <2>8, <3>2 DEF Touch
      <4> HIDE DEF k
      <4>4. QED  BY <4>2, <4>3
    <3>3. QED  BY <3>1, <3>2
  <2>9. CASE Finish(w) \/ WorkerDies(w)
    BY <2>9 DEF Finish, WorkerDies
  <2>10. QED
    BY <2>0, <2>1, <2>2, <2>3, <2>4, <2>5, <2>6, <2>7, <2>8, <2>9 DEF Take, Work
<1>4. RowTypes'
  <2> DEFINE k == Min(slot[w].batch)
             l == slot[w].list
  <2>0. slot[w].when \in Time /\ l \in Lists
    BY <1>1 DEF SlotType
  <2>1. CASE AppendSnapshot(w)
    <3>1. k \in slot[w].batch /\ k \in Keys
      <4>1. slot[w].batch # {} /\ slot[w].batch \in SUBSET Keys
        BY <1>1, <2>1 DEF AppendSnapshot, SlotTypes, HandsFull, SlotType
      <4>2. slot[w].batch \in SUBSET Int /\ IsFiniteSet(slot[w].batch)
        BY <4>1, FS_Subset DEF ConstantsOK
      <4>3. QED  BY <4>1, <4>2, FirstKey
    <3>2. slot[w].got[k] \in Values
      <4>1. PICK b \in SUBSET Keys : slot[w].got \in [b -> Values]
        BY <1>1 DEF SlotType, Fetched
      <4>2. k \in b
        BY <2>1, <3>1, <4>1 DEF AppendSnapshot, SlotTypes, HandsFull
      <4>3. QED  BY <4>1, <4>2
    <3>3. [at |-> slot[w].when, value |-> slot[w].got[k]] \in Snapshot
      BY <2>0, <3>2 DEF Snapshot
    <3>4. Append(series[l][k], [at |-> slot[w].when, value |-> slot[w].got[k]]) \in Seq(Snapshot)
      BY <2>0, <3>1, <3>3 DEF RowTypes
    <3>5. series' = [series EXCEPT ![l][k] = Append(series[l][k], [at |-> slot[w].when, value |-> slot[w].got[k]])]
      BY <2>1 DEF AppendSnapshot
    <3>6. UNCHANGED <<list, member>>
      BY <2>1 DEF AppendSnapshot
    <3> HIDE DEF k, l
    <3>7. QED  BY <2>0, <3>1, <3>4, <3>5, <3>6 DEF RowTypes
  <2>2. CASE Touch(w)
    <3>1. UNCHANGED <<list, series>>
      BY <2>2 DEF Touch
    <3>2. \/ member' = member
          \/ k \in Members(l) /\ member' = [member EXCEPT ![l][k].checked = slot[w].when]
      BY <2>2 DEF Touch
    <3> HIDE DEF k, l
    <3> DEFINE M == [added: Time, checked: Time]
               r == [member[l][k] EXCEPT !.checked = slot[w].when]
    <3>3. member \in [Lists -> [Keys -> M]] /\ list \in [Lists -> Row] /\ series \in [Lists -> [Keys -> Seq(Snapshot)]]
      BY DEF RowTypes
    <3>4. k \in Keys => member[l][k] \in M
      BY <2>0, <3>3
    <3>5. k \in Keys => r \in M
      BY <2>0, <3>4
    <3>6. \/ member' = member
          \/ k \in Keys /\ member' = [member EXCEPT ![l] = [member[l] EXCEPT ![k] = r]]
      BY <2>0, <3>2, <3>3 DEF Members
    <3> HIDE DEF r, M
    <3>7. member' \in [Lists -> [Keys -> M]]
      <4>1. member[l] \in [Keys -> M]
        BY <2>0, <3>3
      <4>2. k \in Keys => [member[l] EXCEPT ![k] = r] \in [Keys -> M]
        BY <3>5, <4>1
      <4>3. QED  BY <2>0, <3>3, <3>6, <4>2
    <3>8. QED  BY <3>1, <3>3, <3>7 DEF RowTypes, M
  <2>3. CASE ~AppendSnapshot(w) /\ ~Touch(w)
    BY <2>3 DEF Take, Work, TakeRefresh, TakeSweep, Acquire, SweepLists, NextList, Fetch, FindLatest, Finish,
       WorkerDies, RowTypes, rowVars
  <2>4. QED  BY <2>1, <2>2, <2>3
<1>5. ClientTypes'
  BY DEF Take, Work, TakeRefresh, TakeSweep, Acquire, SweepLists, NextList, Fetch, FindLatest, AppendSnapshot,
     Touch, Finish, WorkerDies, ClientTypes
<1>6. JobTypes'
  <2> USE <1>1 DEF SlotType, JobTypes, ConstantsOK, Time, NoTime
  <2>1. CASE Take(w)
    <3>1. CASE TakeRefresh(w)
      BY <3>1 DEF TakeRefresh
    <3>2. CASE TakeSweep(w)
      BY <3>2 DEF TakeSweep
    <3>3. QED  BY <2>1, <3>1, <3>2 DEF Take
  <2>2. CASE Acquire(w) \/ Finish(w)
    BY <2>2 DEF Acquire, Finish
  <2>3. CASE NextList(w)
    BY <2>3 DEF NextList, jobVars, Meets
  <2>4. CASE WorkerDies(w)
    BY <2>4 DEF WorkerDies, Count
  <2>5. CASE SweepLists(w) \/ Fetch(w) \/ FindLatest(w) \/ AppendSnapshot(w) \/ Touch(w)
    BY <2>5 DEF SweepLists, Fetch, FindLatest, AppendSnapshot, Touch, jobVars
  <2>6. QED  BY <2>1, <2>2, <2>3, <2>4, <2>5 DEF Work
<1>7. QED  BY <1>3, <1>4, <1>5, <1>6

LEMMA NextTypes ==
  ASSUME ConstantsOK, TypeInv, [Next]_vars
  PROVE  TypeInv'
<1>1. CASE \E c \in Clients : Call(c) \/ Request(c)
  BY <1>1, CallTypes, ReadTypes, WriteTypes DEF Request
<1>2. CASE \E w \in Workers : Take(w) \/ Work(w) \/ WorkerDies(w)
  BY <1>2, WorkTypes
<1>3. CASE Schedule \/ Tick \/ UNCHANGED vars
  <2>1. UNCHANGED <<rowVars, client, slot>>
    BY <1>3 DEF Schedule, Tick, vars
  <2>2. RowTypes' /\ ClientTypes' /\ SlotTypes'
    BY <2>1 DEF TypeInv, RowTypes, ClientTypes, SlotTypes, HandsFull, rowVars
  <2>3. JobTypes'
    BY <1>3 DEF Schedule, Tick, Count, vars, jobVars, TypeInv, JobTypes, ConstantsOK, Time, NoTime
  <2>4. QED  BY <2>2, <2>3 DEF TypeInv
<1>4. QED  BY <1>1, <1>2, <1>3 DEF Next

(* Every reachable state is well typed: the rows, the requests and jobs in *)
(* progress, and a worker that stores a batch has a value for each of its  *)
(* keys.                                                                   *)
THEOREM Typing == ASSUME ConstantsOK PROVE Spec => []TypeOK
<1>1. Init => TypeInv
  BY InitTypes
<1>2. TypeInv /\ [Next]_vars => TypeInv'
  BY NextTypes
<1>3. TypeInv => TypeOK
  BY TypeInvGivesTypeOK
<1>4. QED  BY <1>1, <1>2, <1>3, PTL DEF Spec

-----------------------------------------------------------------------------
(* Why two sweeps never run at once.  A sweep past acquire holds a lease;  *)
(* the row of the lease is not over before the lease is, and as long as a  *)
(* sweep ends before its lease does no one finds the row free.             *)
LeaseInv ==
  /\ \A w \in Workers :
       /\ slot[w].lease # NoTime <=> slot[w].sweep /\ slot[w].at # "acquire"
       /\ slot[w].at = "acquire" => slot[w].sweep
  /\ SweepFits => \A w \in Workers : slot[w].lease # NoTime => now <= slot[w].lease /\ slot[w].lease <= leasedUntil

LoneSweep == SweepFits => \A v, w \in Workers : slot[v].lease # NoTime /\ slot[w].lease # NoTime => v = w

SweepInv == LeaseInv /\ LoneSweep

\* What the steps of a worker do to its lease.
LEMMA WorkLease ==
  ASSUME ConstantsOK, TypeInv, NEW w \in Workers, Take(w) \/ Work(w) \/ WorkerDies(w), LeaseInv, ~Acquire(w)
  PROVE  /\ UNCHANGED now /\ (slot'[w].lease # NoTime <=> slot'[w].sweep /\ slot'[w].at # "acquire")
         /\ slot'[w].at = "acquire" => slot'[w].sweep
         /\ slot'[w].lease \in {slot[w].lease, NoTime}
         /\ UNCHANGED leasedUntil \/ (slot[w].lease # NoTime /\ slot'[w].lease = NoTime)
<1> USE DEF TypeInv, SlotTypes, LeaseInv
<1>1. slot[w] \in SlotType /\ Resting.lease = NoTime /\ ~Resting.sweep /\ Resting.at = "idle"
  BY RestingType
<1> USE <1>1 DEF SlotType
<1>2. CASE TakeRefresh(w)
  BY <1>2 DEF TakeRefresh
<1>3. CASE TakeSweep(w)
  BY <1>3 DEF TakeSweep
<1>4. CASE SweepLists(w) \/ Fetch(w) \/ FindLatest(w)
  BY <1>4 DEF SweepLists, Fetch, FindLatest, Step, jobVars
<1>5. CASE NextList(w)
  BY <1>5 DEF NextList, jobVars
<1>6. CASE AppendSnapshot(w) \/ Touch(w)
  <2>1. CASE AppendSnapshot(w)
    BY <2>1 DEF AppendSnapshot, Step, jobVars
  <2>2. CASE Touch(w)
    BY <2>2 DEF Touch, jobVars
  <2>3. QED  BY <1>6, <2>1, <2>2
<1>7. CASE Finish(w) \/ WorkerDies(w)
  BY <1>7 DEF Finish, WorkerDies
<1>8. QED  BY <1>2, <1>3, <1>4, <1>5, <1>6, <1>7 DEF Take, Work

LEMMA NextSweep ==
  ASSUME ConstantsOK, TypeInv, SweepInv, [Next]_vars
  PROVE  SweepInv'
<1> USE DEF SweepInv
<1>1. TypeInv'
  BY NextTypes
<1>2. CASE \E w \in Workers : Acquire(w)
  <2>1. PICK w \in Workers : Acquire(w)
    BY <1>2
  <2>2. slot[w] \in SlotType /\ slot[w].at = "acquire" /\ \A v \in Workers \ {w} : slot'[v] = slot[v]
    BY <2>1, WorkTypes DEF TypeInv, SlotTypes, Work, Acquire
  <2>3. CASE ~LeaseFree
    <3>1. slot' = [slot EXCEPT ![w] = Resting] /\ UNCHANGED <<leasedUntil, now>>
      BY <2>1, <2>3 DEF Acquire
    <3>2. slot'[w] = Resting /\ Resting.lease = NoTime /\ ~Resting.sweep /\ Resting.at = "idle"
      BY <3>1, RestingType DEF TypeInv, SlotTypes
    <3>3. QED  BY <2>2, <3>1, <3>2 DEF LeaseInv, LoneSweep
  <2>4. CASE LeaseFree
    <3>1. /\ leasedUntil' = now + LeaseTime /\ now' = now
          /\ slot' = [slot EXCEPT ![w].at = "lists", ![w].lease = now + LeaseTime]
      BY <2>1, <2>4 DEF Acquire
    <3>2. slot'[w].lease = now + LeaseTime /\ slot'[w].at = "lists" /\ slot'[w].sweep = slot[w].sweep
      BY <2>2, <3>1 DEF TypeInv, SlotTypes, SlotType
    <3>3. now \in Nat \ {0} /\ LeaseTime \in Nat /\ leasedUntil \in Nat
      BY DEF TypeInv, JobTypes, Time, NoTime, ConstantsOK
    <3>4. slot[w].sweep
      BY <2>2 DEF LeaseInv
    <3>5. SweepFits => \A v \in Workers : slot[v].lease = NoTime
      <4> SUFFICES ASSUME SweepFits, NEW v \in Workers, slot[v].lease # NoTime
                   PROVE  FALSE
        OBVIOUS
      <4>1. now <= slot[v].lease /\ slot[v].lease <= leasedUntil /\ slot[v].lease \in Nat
        BY DEF LeaseInv, TypeInv, SlotTypes, SlotType, ConstantsOK
      <4>2. QED  BY <2>4, <3>3, <4>1 DEF LeaseFree, NoTime
    <3>6. LoneSweep'
      BY <2>2, <3>5 DEF LoneSweep
    <3>7. slot'[w].lease # NoTime /\ now' <= slot'[w].lease /\ slot'[w].lease <= leasedUntil'
      BY <3>1, <3>2, <3>3 DEF NoTime
    <3>8. LeaseInv'
      BY <2>2, <3>2, <3>4, <3>5, <3>7 DEF LeaseInv
    <3>9. QED  BY <3>6, <3>8
  <2>5. QED  BY <2>3, <2>4
<1>3. ASSUME NEW w \in Workers, Take(w) \/ Work(w) \/ WorkerDies(w), ~Acquire(w)
      PROVE  SweepInv'
  <2>1. \A v \in Workers \ {w} : slot'[v] = slot[v]
    BY <1>3, WorkTypes
  <2>2. /\ UNCHANGED now /\ (slot'[w].lease # NoTime <=> slot'[w].sweep /\ slot'[w].at # "acquire")
        /\ slot'[w].at = "acquire" => slot'[w].sweep
        /\ slot'[w].lease \in {slot[w].lease, NoTime}
        /\ UNCHANGED leasedUntil \/ (slot[w].lease # NoTime /\ slot'[w].lease = NoTime)
    BY <1>3, WorkLease
  <2>3. QED  BY <2>1, <2>2 DEF LeaseInv, LoneSweep
<1>4. CASE Tick
  <2>1. SweepFits => \A w \in Workers : slot[w].lease # NoTime => now < slot[w].lease
    BY <1>4 DEF Tick
  <2>2. now \in Nat /\ now' = now + 1 /\ UNCHANGED <<slot, leasedUntil>>
    BY <1>4 DEF Tick, jobVars, TypeInv, JobTypes, Time
  <2>3. \A w \in Workers : slot[w].lease \in Nat
    BY DEF TypeInv, SlotTypes, SlotType, ConstantsOK
  <2>4. QED  BY <2>1, <2>2, <2>3 DEF LeaseInv, LoneSweep
<1>5. CASE (\E c \in Clients : Call(c) \/ Request(c)) \/ Schedule \/ UNCHANGED vars
  <2>1. UNCHANGED <<slot, leasedUntil, now>>
    BY <1>5 DEF Call, Request, Find, CreateCount, CreateInsert, Expand, AddCount, AddInsert, RemoveMember,
       RemoveSeries, Rename, DeleteSeries, DeleteList, EnqueueManualRefresh, Schedule, vars, jobVars
  <2>2. QED  BY <2>1 DEF LeaseInv, LoneSweep
<1>6. QED  BY <1>2, <1>3, <1>4, <1>5 DEF Next

(* For any number of workers and any lease: as long as every sweep ends    *)
(* before its lease does, two sweeps never run at once, whichever worker   *)
(* dies with the lease in hand and however often the scheduler fires.      *)
THEOREM SweepsAlone == ASSUME ConstantsOK PROVE Spec => []OneSweep
<1>1. Init => TypeInv /\ SweepInv
  <2>1. ASSUME Init
        PROVE  SweepInv
    <3>1. \A w \in Workers : slot[w].lease = NoTime /\ ~slot[w].sweep /\ slot[w].at = "idle"
      BY <2>1, RestingType DEF Init
    <3>2. QED  BY <3>1 DEF SweepInv, LeaseInv, LoneSweep
  <2>2. QED  BY <2>1, InitTypes
<1>2. TypeInv /\ SweepInv /\ [Next]_vars => TypeInv' /\ SweepInv'
  BY NextTypes, NextSweep
<1>3. TypeInv /\ SweepInv => OneSweep
  BY DEF SweepInv, LoneSweep, OneSweep, TypeInv, SlotTypes
<1>4. QED  BY <1>1, <1>2, <1>3, PTL DEF Spec

-----------------------------------------------------------------------------
(* Why the limits hold.  A request that counts under the lock of a list,   *)
(* or of an owner, and the insert with which it commits are two steps.  In *)
(* between no other request is between them for the same list or owner, so *)
(* the room that was counted is still there: all that others can do is     *)
(* remove.                                                                 *)
AddsTo(c, l)   == client[c].at = "createMany" /\ client[c].list = l
Creates(c, o)  == client[c].at = "insert" /\ OwnerIdOf(client[c].actor) = o

Room ==
  /\ \A l \in Lists, c \in Clients : AddsTo(c, l) => Cardinality(Members(l) \cup client[c].toAdd) <= MaxMembers
  /\ \A o \in Owners, c \in Clients : Creates(c, o) => Cardinality(Owned(o)) < MaxLists
OneAtATime ==
  /\ \A l \in Lists, c, d \in Clients : AddsTo(c, l) /\ AddsTo(d, l) => c = d
  /\ \A o \in Owners, c, d \in Clients : Creates(c, o) /\ Creates(d, o) => c = d

WithinLimits ==
  /\ \A l \in Lists : Cardinality(Members(l)) <= MaxMembers
  /\ \A o \in Owners : Cardinality(Owned(o)) <= MaxLists
  /\ \A l, m \in Lists : l # m /\ Live(l) /\ Live(m) /\ list[l].owner = list[m].owner /\ list[l].owner # Shared
                          => list[l].name # list[m].name

LimitsInv == Room /\ OneAtATime /\ WithinLimits

LEMMA FiniteRows ==
  ASSUME ConstantsOK
  PROVE  /\ \A l : IsFiniteSet(Members(l)) /\ \A K \in SUBSET Keys : IsFiniteSet(Members(l) \cup K)
         /\ \A o : IsFiniteSet(Owned(o))
         /\ \A K \in SUBSET Keys : IsFiniteSet(K)
<1>1. \A K \in SUBSET Keys : IsFiniteSet(K)
  BY FS_Subset DEF ConstantsOK
<1>2. \A L \in SUBSET Lists : IsFiniteSet(L)
  BY FS_Subset DEF ConstantsOK
<1>3. QED  BY <1>1, <1>2 DEF Members, Owned

\* A step that only takes members and lists away, and leaves no client about to
\* insert that was not, keeps the limits.
LEMMA FewerIsFine ==
  ASSUME ConstantsOK, TypeInv, LimitsInv,
         \A l \in Lists : Members(l)' \subseteq Members(l),
         \A l \in Lists : Live(l)' => Live(l) /\ list'[l].owner = list[l].owner /\ list'[l].name = list[l].name,
         \A c \in Clients : client'[c] = client[c] \/ client'[c].at \notin {"createMany", "insert"}
  PROVE  LimitsInv'
<1> USE DEF LimitsInv
<1>1. \A o \in Owners : Owned(o)' \subseteq Owned(o)
  BY DEF Owned
<1>2. \A o \in Owners : Cardinality(Owned(o)') <= Cardinality(Owned(o))
  BY <1>1, FiniteRows, FS_Subset
<1>3. \A o \in Owners : Cardinality(Owned(o)) \in Nat /\ Cardinality(Owned(o)') \in Nat
  BY <1>1, FiniteRows, FS_Subset, FS_CardinalityType
<1>4. \A l \in Lists : /\ Cardinality(Members(l)') <= Cardinality(Members(l))
                       /\ Cardinality(Members(l)) \in Nat /\ Cardinality(Members(l)') \in Nat
  BY FiniteRows, FS_Subset, FS_CardinalityType
<1>5. ASSUME NEW l \in Lists, NEW c \in Clients, AddsTo(c, l)'
      PROVE  Cardinality(Members(l)' \cup client'[c].toAdd) <= MaxMembers /\ AddsTo(c, l) /\ client'[c] = client[c]
  <2>1. client'[c] = client[c] /\ AddsTo(c, l)
    BY <1>5 DEF AddsTo
  <2>2. client[c].toAdd \in SUBSET Keys
    BY <2>1, Busy DEF TypeInv, AddsTo, RequestType
  <2>3. Members(l)' \cup client[c].toAdd \subseteq Members(l) \cup client[c].toAdd
    OBVIOUS
  <2>4. IsFiniteSet(Members(l) \cup client[c].toAdd)
    BY <2>2, FiniteRows
  <2>5. /\ Cardinality(Members(l)' \cup client[c].toAdd) <= Cardinality(Members(l) \cup client[c].toAdd)
        /\ Cardinality(Members(l)' \cup client[c].toAdd) \in Nat /\ Cardinality(Members(l) \cup client[c].toAdd) \in Nat
    BY <2>3, <2>4, FS_Subset, FS_CardinalityType
  <2>6. Cardinality(Members(l) \cup client[c].toAdd) <= MaxMembers /\ MaxMembers \in Nat
    BY <2>1 DEF Room, ConstantsOK
  <2>7. QED  BY <2>1, <2>5, <2>6
<1>6. ASSUME NEW o \in Owners, NEW c \in Clients, Creates(c, o)'
      PROVE  Cardinality(Owned(o)') < MaxLists /\ Creates(c, o)
  <2>1. Creates(c, o)
    BY <1>6 DEF Creates
  <2>2. Cardinality(Owned(o)) < MaxLists /\ MaxLists \in Nat
    BY <2>1 DEF Room, ConstantsOK
  <2>3. QED  BY <2>1, <2>2, <1>2, <1>3
<1>7. Room' /\ OneAtATime'
  BY <1>5, <1>6 DEF Room, OneAtATime
<1>8. WithinLimits'
  <2>1. \A l \in Lists : Cardinality(Members(l)') <= MaxMembers
    BY <1>4 DEF WithinLimits, ConstantsOK
  <2>2. \A o \in Owners : Cardinality(Owned(o)') <= MaxLists
    BY <1>2, <1>3 DEF WithinLimits, ConstantsOK
  <2>3. \A l, m \in Lists : l # m /\ Live(l)' /\ Live(m)' /\ list'[l].owner = list'[m].owner /\ list'[l].owner # Shared
                              => list'[l].name # list'[m].name
    BY DEF WithinLimits
  <2>4. QED  BY <2>1, <2>2, <2>3 DEF WithinLimits
<1>9. QED  BY <1>7, <1>8

\* The two counts.
LEMMA CountLimits ==
  ASSUME ConstantsOK, TypeInv, LimitsInv, NEW c \in Clients, CreateCount(c) \/ AddCount(c)
  PROVE  LimitsInv'
<1> USE DEF LimitsInv
<1>1. client[c] \in RequestType /\ client[c].at # "idle" /\ ClientTypes
  BY Busy DEF CreateCount, AddCount, TypeInv
<1>2. UNCHANGED <<list, member>> /\ \A d \in Clients \ {c} : client'[d] = client[d]
  BY ReadTypes DEF CreateCount, AddCount, rowVars
<1>3. WithinLimits' /\ (\A l \in Lists : Members(l)' = Members(l)) /\ (\A o \in Owners : Owned(o)' = Owned(o))
  BY <1>2 DEF WithinLimits, Members, Owned, Live
<1>4. CASE Done(c)
  BY <1>1, <1>2, <1>3, <1>4, DoneTypes, FewerIsFine DEF Live
<1>5. CASE CreateCount(c) /\ ~Done(c)
  <2> DEFINE owner == OwnerIdOf(client[c].actor)
  <2>1. /\ \A d \in Clients : ~(client[d].at = "insert" /\ OwnerIdOf(client[d].actor) = owner)
        /\ Cardinality(Owned(owner)) < MaxLists /\ Goto(c, "insert")
    BY <1>5 DEF CreateCount, Continue
  <2>2. client'[c].at = "insert" /\ client'[c].actor = client[c].actor
    BY <1>1, <2>1, GotoTypes DEF CallStage
  <2>3. Room'
    BY <1>2, <1>3, <2>1, <2>2 DEF Room, AddsTo, Creates
  <2>4. OneAtATime'
    BY <1>2, <2>1, <2>2 DEF OneAtATime, AddsTo, Creates
  <2>5. QED  BY <1>3, <2>3, <2>4
<1>6. CASE AddCount(c) /\ ~Done(c)
  <2> DEFINE l   == client[c].list
             new == client[c].toAdd \ Members(l)
  <2>1. /\ \A d \in Clients : ~(client[d].at = "createMany" /\ client[d].list = l)
        /\ ~(Cardinality(Members(l)) + Cardinality(new) > MaxMembers)
        /\ client' = [client EXCEPT ![c].at = "createMany", ![c].toAdd = new]
    BY <1>6 DEF AddCount
  <2>2. new \in SUBSET Keys /\ l \in Lists
    BY <1>1 DEF RequestType
  <2>3. Cardinality(Members(l) \cup new) <= MaxMembers
    <3>1. IsFiniteSet(Members(l)) /\ IsFiniteSet(new)
      BY <2>2, FiniteRows
    <3>2. Members(l) \cap new = {}
      OBVIOUS
    <3> HIDE DEF new, l
    <3>3. Cardinality(Members(l) \cup new) = Cardinality(Members(l)) + Cardinality(new) - Cardinality({})
      BY <3>1, <3>2, FS_Union
    <3>4. Cardinality({}) = 0 /\ Cardinality(Members(l)) \in Nat /\ Cardinality(new) \in Nat /\ MaxMembers \in Nat
      BY <3>1, FS_EmptySet, FS_CardinalityType DEF ConstantsOK
    <3>5. QED  BY <2>1, <3>3, <3>4
  <2>4. client'[c].at = "createMany" /\ client'[c].list = l /\ client'[c].toAdd = new
    <3> HIDE DEF new
    <3>1. QED  BY <1>1, <2>1, <2>2, ToAddTypes
  <2>5. Room'
    BY <1>2, <1>3, <2>3, <2>4 DEF Room, AddsTo, Creates
  <2>6. \A m \in Lists, d, e \in Clients : AddsTo(d, m)' /\ AddsTo(e, m)' => d = e
    <3>1. \A m \in Lists, d \in Clients \ {c} : AddsTo(d, m)' => AddsTo(d, m) /\ m # l
      BY <1>2, <2>1 DEF AddsTo
    <3>2. \A m \in Lists : AddsTo(c, m)' => m = l
      BY <2>4 DEF AddsTo
    <3> HIDE DEF l
    <3>3. QED  BY <3>1, <3>2 DEF OneAtATime
  <2>7. \A o \in Owners, d \in Clients : Creates(d, o)' => Creates(d, o)
    BY <1>2, <2>4 DEF Creates
  <2>8. OneAtATime'
    BY <2>6, <2>7 DEF OneAtATime
  <2>9. QED  BY <1>3, <2>5, <2>8
<1>7. QED  BY <1>4, <1>5, <1>6

\* The two inserts.
LEMMA CreateLimits ==
  ASSUME ConstantsOK, TypeInv, LimitsInv, NEW c \in Clients, CreateInsert(c)
  PROVE  LimitsInv'
<1> USE DEF LimitsInv
<1>1. client[c] \in RequestType /\ client[c].at = "insert"
  BY Busy DEF CreateInsert, TypeInv
<1> PICK owner \in Owners : owner = OwnerIdOf(client[c].actor)
  BY <1>1 DEF RequestType, OwnerIdOf, Owners, Actors, ConstantsOK
<1>2. Creates(c, owner)
  BY <1>1 DEF Creates
<1>3. client'[c].at = "idle" /\ UNCHANGED member /\ \A d \in Clients \ {c} : client'[d] = client[d]
  BY DoneTypes DEF CreateInsert, TypeInv
<1>4. CASE list' = list
  BY <1>3, <1>4, FewerIsFine DEF Members, Live
<1>5. CASE list' # list
  <2>1. PICK l \in Lists :
          /\ list[l].status = "unborn" /\ ~NameTaken(l, owner, client[c].name)
          /\ list' = [list EXCEPT ![l] = [status |-> "live", owner |-> owner, name |-> client[c].name,
                                         context |-> client[c].context]]
    BY <1>5 DEF CreateInsert
  <2>2. \A m \in Lists : Members(m)' = Members(m)
    BY <1>3 DEF Members
  <2>3. \A m \in Lists \ {l} : list'[m] = list[m]
    BY <2>1 DEF TypeInv, RowTypes
  <2>4. ~Live(l) /\ Live(l)' /\ list'[l].owner = owner /\ list'[l].name = client[c].name
    BY <2>1 DEF Live, TypeInv, RowTypes
  <2>5. \A o \in Owners \ {owner} : Owned(o)' = Owned(o)
    BY <2>3, <2>4 DEF Owned, Live
  <2>6. Owned(owner)' = Owned(owner) \cup {l} /\ l \notin Owned(owner)
    BY <2>3, <2>4 DEF Owned, Live
  <2>7. Cardinality(Owned(owner)') <= MaxLists
    <3>1. IsFiniteSet(Owned(owner)) /\ Cardinality(Owned(owner)) \in Nat
      BY FiniteRows, FS_CardinalityType
    <3>2. Cardinality(Owned(owner) \cup {l}) = Cardinality(Owned(owner)) + 1
      BY <2>6, <3>1, FS_AddElement
    <3>3. Cardinality(Owned(owner)) < MaxLists /\ MaxLists \in Nat
      BY <1>2 DEF Room, ConstantsOK
    <3>4. QED  BY <2>6, <3>1, <3>2, <3>3
  <2>8. \A d \in Clients, o \in Owners : Creates(d, o)' => Creates(d, o) /\ o # owner
    BY <1>2, <1>3 DEF Creates, OneAtATime
  <2>9. \A d \in Clients, m \in Lists : AddsTo(d, m)' => AddsTo(d, m) /\ client'[d] = client[d]
    BY <1>3 DEF AddsTo
  <2>10. Room' /\ OneAtATime'
    BY <2>2, <2>5, <2>8, <2>9 DEF Room, OneAtATime
  <2>11. \A m \in Lists \ {l} : owner # Shared /\ Live(m) /\ list[m].owner = owner => list[m].name # client[c].name
    BY <2>1 DEF NameTaken
  <2>12. \A m, n \in Lists : m # n /\ Live(m)' /\ Live(n)' /\ list'[m].owner = list'[n].owner /\ list'[m].owner # Shared
                               => list'[m].name # list'[n].name
    BY <2>3, <2>4, <2>11 DEF WithinLimits, Live
  <2>13. \A o \in Owners : Cardinality(Owned(o)') <= MaxLists
    BY <2>5, <2>7 DEF WithinLimits
  <2>14. WithinLimits'
    BY <2>2, <2>12, <2>13 DEF WithinLimits
  <2>15. QED  BY <2>10, <2>14
<1>6. QED  BY <1>4, <1>5

LEMMA AddLimits ==
  ASSUME ConstantsOK, TypeInv, LimitsInv, NEW c \in Clients, AddInsert(c)
  PROVE  LimitsInv'
<1> USE DEF LimitsInv
<1>0. client[c] \in RequestType /\ client[c].at = "createMany"
  BY Busy DEF AddInsert, TypeInv
<1> PICK l \in Lists : l = client[c].list
  BY <1>0 DEF RequestType
<1>1. client[c] \in RequestType /\ AddsTo(c, l)
  BY <1>0 DEF AddsTo
<1>2. client'[c].at = "idle" /\ UNCHANGED list /\ \A d \in Clients \ {c} : client'[d] = client[d]
  BY DoneTypes DEF AddInsert, TypeInv
<1>3. /\ \A m \in Lists \ {l} : member'[m] = member[m]
      /\ Members(l)' \subseteq Members(l) \cup client[c].toAdd
  BY DEF AddInsert, Members, TypeInv, RowTypes
<1>4. Cardinality(Members(l)') <= MaxMembers
  <2>1. client[c].toAdd \in SUBSET Keys
    BY <1>1 DEF RequestType
  <2>2. IsFiniteSet(Members(l) \cup client[c].toAdd)
    BY <2>1, FiniteRows
  <2>3. /\ Cardinality(Members(l)') <= Cardinality(Members(l) \cup client[c].toAdd)
        /\ Cardinality(Members(l)') \in Nat /\ Cardinality(Members(l) \cup client[c].toAdd) \in Nat
    BY <1>3, <2>2, FS_Subset, FS_CardinalityType
  <2>4. Cardinality(Members(l) \cup client[c].toAdd) <= MaxMembers /\ MaxMembers \in Nat
    BY <1>1 DEF Room, ConstantsOK
  <2>5. QED  BY <2>3, <2>4
<1>5. \A o \in Owners : Owned(o)' = Owned(o)
  BY <1>2 DEF Owned, Live
<1>6. \A m \in Lists \ {l} : Members(m)' = Members(m)
  BY <1>3 DEF Members
<1>7. \A d \in Clients, o \in Owners : Creates(d, o)' => Creates(d, o)
  BY <1>2 DEF Creates
<1>8. \A d \in Clients, m \in Lists : AddsTo(d, m)' => AddsTo(d, m) /\ m # l /\ client'[d] = client[d]
  BY <1>1, <1>2 DEF AddsTo, OneAtATime
<1>9. Room' /\ OneAtATime'
  BY <1>5, <1>6, <1>7, <1>8 DEF Room, OneAtATime
<1>10. WithinLimits'
  BY <1>2, <1>4, <1>5, <1>6 DEF WithinLimits, Live
<1>11. QED  BY <1>9, <1>10

LEMMA RenameLimits ==
  ASSUME ConstantsOK, TypeInv, LimitsInv, NEW c \in Clients, Rename(c)
  PROVE  LimitsInv'
<1> USE DEF LimitsInv
<1> DEFINE l == client[c].list
<1>1. client'[c].at = "idle" /\ UNCHANGED member /\ \A d \in Clients \ {c} : client'[d] = client[d]
  BY DoneTypes DEF Rename, TypeInv
<1>2. CASE list' = list
  BY <1>1, <1>2, FewerIsFine DEF Members, Live
<1>3. CASE list' # list
  <2>1. client[c] \in RequestType /\ l \in Lists
    BY Busy DEF Rename, TypeInv, RequestType
  <2>2. ~NameTaken(l, list[l].owner, client[c].name) /\ list' = [list EXCEPT ![l].name = client[c].name]
    BY <1>3 DEF Rename
  <2>3. /\ \A m \in Lists \ {l} : list'[m] = list[m]
        /\ list'[l].status = list[l].status /\ list'[l].owner = list[l].owner /\ list'[l].name = client[c].name
    BY <2>1, <2>2 DEF TypeInv, RowTypes, Row
  <2> HIDE DEF l
  <2>4. \A o \in Owners : Owned(o)' = Owned(o)
    BY <2>3 DEF Owned, Live
  <2>5. \A m \in Lists : Members(m)' = Members(m)
    BY <1>1 DEF Members
  <2>6. Room' /\ OneAtATime'
    BY <1>1, <2>4, <2>5 DEF Room, OneAtATime, AddsTo, Creates
  <2>7. \A m \in Lists \ {l} : list[l].owner # Shared /\ Live(m) /\ list[m].owner = list[l].owner => list[m].name # client[c].name
    BY <2>2 DEF NameTaken
  <2>8. \A m, n \in Lists : m # n /\ Live(m)' /\ Live(n)' /\ list'[m].owner = list'[n].owner /\ list'[m].owner # Shared
                              => list'[m].name # list'[n].name
    BY <2>3, <2>7 DEF WithinLimits, Live
  <2>9. WithinLimits'
    BY <2>4, <2>5, <2>8 DEF WithinLimits
  <2>10. QED  BY <2>6, <2>9
<1>4. QED  BY <1>2, <1>3

LEMMA NextLimits ==
  ASSUME ConstantsOK, TypeInv, LimitsInv, [Next]_vars
  PROVE  LimitsInv'
<1> USE DEF TypeInv
<1>1. ASSUME NEW c \in Clients, Call(c) \/ Find(c) \/ Expand(c) \/ RemoveSeries(c) \/ DeleteSeries(c) \/ EnqueueManualRefresh(c)
      PROVE  LimitsInv'
  <2>1. UNCHANGED <<list, member>>
    BY <1>1 DEF Call, Find, Expand, RemoveSeries, DeleteSeries, EnqueueManualRefresh, rowVars
  <2>2. \A d \in Clients \ {c} : client'[d] = client[d]
    BY <1>1, CallTypes, ReadTypes, WriteTypes
  <2>3. client'[c].at \notin {"createMany", "insert"}
    <3>1. CASE Call(c)
      BY <3>1, CallTypes
    <3>2. CASE Find(c)
      <4>1. client[c] \in RequestType /\ client[c].at = "find" /\ client[c].op # "create"
        BY <3>2, Busy DEF Find, ClientTypes
      <4>2. client[c].op \in {"add", "remove", "rename", "delete", "refresh"}
        BY <4>1 DEF RequestType, ConstantsOK
      <4>3. \/ Done(c)
            \/ \E s \in {"expand", "deleteMember", "update", "deleteList", "deleteAllSeries", "enqueue"} : Goto(c, s)
        BY <3>2, <4>2 DEF Find, Continue
      <4>4. QED  BY <4>1, <4>3, GotoTypes, DoneTypes DEF CallStage
    <3>3. CASE Expand(c)
      <4>1. client[c] \in RequestType /\ client[c].at # "idle"
        BY <3>3, Busy DEF Expand
      <4>2. \/ Done(c)
            \/ client' = [client EXCEPT ![c].at = "lock",
                     ![c].toAdd = UNION {i.keys : i \in ExpandItems(client[c].items, client[c].actor)}]
        BY <3>3 DEF Expand
      <4>3. CASE Done(c)
        BY <4>3, DoneTypes
      <4>4. CASE ~Done(c)
        BY <4>1, <4>2, <4>4 DEF ClientTypes, RequestType
      <4>5. QED  BY <4>3, <4>4
    <3>4. CASE RemoveSeries(c) \/ DeleteSeries(c) \/ EnqueueManualRefresh(c)
      BY <3>4, WriteTypes
    <3>5. QED  BY <1>1, <3>1, <3>2, <3>3, <3>4
  <2>4. QED  BY <2>1, <2>2, <2>3, FewerIsFine DEF Members, Live
<1>2. ASSUME NEW c \in Clients, RemoveMember(c) \/ DeleteList(c)
      PROVE  LimitsInv'
  <2>1. client[c] \in RequestType
    BY <1>2, Busy DEF RemoveMember, DeleteList
  <2>2. \A l \in Lists : Members(l)' \subseteq Members(l)
    <3>1. CASE RemoveMember(c)
      BY <2>1, <3>1 DEF RemoveMember, Members, RequestType, RowTypes
    <3>2. CASE DeleteList(c)
      BY <2>1, <3>2 DEF DeleteList, Members, RequestType, RowTypes
    <3>3. QED  BY <1>2, <3>1, <3>2
  <2>3. \A l \in Lists : Live(l)' => Live(l) /\ list'[l].owner = list[l].owner /\ list'[l].name = list[l].name
    <3>1. CASE RemoveMember(c)
      BY <3>1 DEF RemoveMember, Live
    <3>2. CASE DeleteList(c)
      BY <2>1, <3>2 DEF DeleteList, Live, RequestType, RowTypes, Row
    <3>3. QED  BY <1>2, <3>1, <3>2
  <2>4. \A d \in Clients : client'[d] = client[d] \/ client'[d].at \notin {"createMany", "insert"}
    BY <1>2, WriteTypes
  <2>5. QED  BY <2>2, <2>3, <2>4, FewerIsFine
<1>3. ASSUME NEW w \in Workers, Take(w) \/ Work(w) \/ WorkerDies(w)
      PROVE  LimitsInv'
  <2>1. UNCHANGED <<list, client>>
    BY <1>3 DEF Take, Work, TakeRefresh, TakeSweep, Acquire, SweepLists, NextList, Fetch, FindLatest,
       AppendSnapshot, Touch, Finish, WorkerDies, rowVars
  <2>2. \A l \in Lists : Members(l)' \subseteq Members(l)
    <3>1. CASE UNCHANGED member
      BY <3>1 DEF Members
    <3>2. CASE Touch(w)
      <4> DEFINE k == Min(slot[w].batch)
                 m == slot[w].list
      <4>1. member' = member \/ (k \in Members(m) /\ member' = [member EXCEPT ![m][k].checked = slot[w].when])
        BY <3>2 DEF Touch
      <4>2. m \in Lists
        BY DEF SlotTypes, SlotType
      <4> HIDE DEF k, m
      <4>3. CASE member' = member
        BY <4>3 DEF Members
      <4>4. ASSUME k \in Members(m), member' = [member EXCEPT ![m][k].checked = slot[w].when],
                   NEW l \in Lists, NEW j \in Keys, member[l][j] = NotMember
            PROVE  member'[l][j] = NotMember
        <5>1. member' = [member EXCEPT ![m] = [member[m] EXCEPT ![k] = [member[m][k] EXCEPT !.checked = slot[w].when]]]
          BY <4>4
        <5>2. CASE l # m
          BY <4>4, <5>1, <5>2
        <5>3. CASE l = m
          BY <4>2, <4>4, <5>1, <5>3 DEF Members, RowTypes
        <5>4. QED  BY <5>2, <5>3
      <4>5. QED  BY <4>1, <4>3, <4>4 DEF Members
    <3>3. QED
      BY <1>3, <3>1, <3>2 DEF Take, Work, TakeRefresh, TakeSweep, Acquire, SweepLists, NextList, Fetch,
         FindLatest, AppendSnapshot, Finish, WorkerDies, rowVars
  <2>3. QED  BY <2>1, <2>2, FewerIsFine DEF Live
<1>4. CASE Schedule \/ Tick \/ UNCHANGED vars
  <2>1. UNCHANGED <<list, member, client>>
    BY <1>4 DEF Schedule, Tick, vars, rowVars
  <2>2. QED  BY <2>1, FewerIsFine DEF Members, Live
<1>5. QED
  BY <1>1, <1>2, <1>3, <1>4, CountLimits, CreateLimits, AddLimits, RenameLimits DEF Next, Request

(* For any number of clients and any limits: however requests interleave,  *)
(* a list never has more members and an owner never more lists than the    *)
(* limits allow, and the lists of an owner differ in name.                 *)
THEOREM LimitsKept == ASSUME ConstantsOK PROVE Spec => []LimitsHold
<1>1. Init => TypeInv /\ LimitsInv
  <2>1. ASSUME Init
        PROVE  LimitsInv
    <3>1. \A c \in Clients : client[c].at = "idle"
      BY <2>1 DEF Init, Idle
    <3>2. Room /\ OneAtATime
      BY <3>1 DEF Room, OneAtATime, AddsTo, Creates
    <3>3. \A l \in Lists : Members(l) = {}
      BY <2>1 DEF Init, Members
    <3>4. \A l \in Lists : Cardinality(Members(l)) <= MaxMembers
      BY <3>3, FS_EmptySet DEF ConstantsOK
    <3>5. \A l \in Lists : (Live(l) => l \in Existing) /\ list[l].owner = Shared
      BY <2>1 DEF Init, Live
    <3>6. ASSUME NEW o \in Owners
          PROVE  Cardinality(Owned(o)) <= MaxLists
      <4>1. Owned(o) \subseteq Existing /\ IsFiniteSet(Existing)
        BY <3>5, FS_Subset DEF Owned, ConstantsOK
      <4>2. /\ Cardinality(Owned(o)) <= Cardinality(Existing) /\ Cardinality(Existing) <= MaxLists
            /\ Cardinality(Owned(o)) \in Nat /\ Cardinality(Existing) \in Nat /\ MaxLists \in Nat
        BY <4>1, FS_Subset, FS_CardinalityType DEF ConstantsOK
      <4>3. QED  BY <4>2
    <3>7. WithinLimits
      BY <3>4, <3>5, <3>6 DEF WithinLimits
    <3>8. QED  BY <3>2, <3>7 DEF LimitsInv
  <2>2. QED  BY <2>1, InitTypes
<1>2. TypeInv /\ LimitsInv /\ [Next]_vars => TypeInv' /\ LimitsInv'
  BY NextTypes, NextLimits
<1>3. TypeInv /\ LimitsInv => LimitsHold
  BY DEF LimitsInv, WithinLimits, LimitsHold, Members, Owned, TypeInv, RowTypes
<1>4. QED  BY <1>1, <1>2, <1>3, PTL DEF Spec

-----------------------------------------------------------------------------
(* Why snapshots are changes.  Unless a refresh meets another one or a     *)
(* removal, a list is refreshed by one worker at a time and nothing else   *)
(* writes its series, so what FindLatest read is still the end of the      *)
(* series when the snapshot is appended.                                   *)
Refreshes(w, l) == slot[w].when # NoTime /\ slot[w].list = l
Ordered(s, t)   == \A i \in DOMAIN s : s[i].at <= t /\ \A j \in DOMAIN s : i < j => s[i].at <= s[j].at
Changing(s)     == \A i \in 2..Len(s) : s[i].value # s[i - 1].value
\* The worker has found that what it holds differs from the newest snapshot.
News(w, l)      == slot[w].at = "append" =>
  ~SameAsLatest(series[l][Min(slot[w].batch)], slot[w].got[Min(slot[w].batch)])

CalmList(l) ==
  /\ \A v, w \in Workers : Refreshes(v, l) /\ Refreshes(w, l) => v = w
  /\ ~(Refreshing(l) /\ Removing(l))
  /\ \A k \in Keys : Ordered(series[l][k], now) /\ Changing(series[l][k])
  /\ \A w \in Workers : Refreshes(w, l) =>
       slot[w].when <= now /\ News(w, l) /\ \A k \in Keys : Ordered(series[l][k], slot[w].when)

ChangesInv ==
  /\ \A w \in Workers : slot[w].when # NoTime <=> slot[w].at \in RefreshStage
  /\ \A l \in Lists \ disturbed : CalmList(l)

LEMMA SnapshotTimes ==
  ASSUME ConstantsOK, NEW s \in Seq(Snapshot)
  PROVE  \A i \in DOMAIN s : s[i].at \in Int
<1>1. \A r \in Snapshot : r.at \in Int
  BY DEF Snapshot, Time, ConstantsOK
<1>2. \A i \in DOMAIN s : s[i] \in Snapshot
  <2> HIDE DEF Snapshot
  <2>1. QED  OBVIOUS
<1>3. QED  BY <1>1, <1>2

\* The newest snapshot of a series in order is its last one.
LEMMA LatestIsLast ==
  ASSUME ConstantsOK, NEW s \in Seq(Snapshot), s # <<>>, NEW t, Ordered(s, t), NEW v, ~SameAsLatest(s, v)
  PROVE  s[Len(s)].value # v
<1> DEFINE times == {s[i].at : i \in DOMAIN s}
<1>1. Len(s) \in DOMAIN s /\ \A i \in DOMAIN s : i = Len(s) \/ i < Len(s)
  OBVIOUS
<1>2. \A i \in DOMAIN s : s[i].at \in Int
  BY SnapshotTimes
<1>3. s[Len(s)].at \in times /\ \A x \in times : x \in Int /\ s[Len(s)].at >= x
  BY <1>1, <1>2 DEF Ordered
<1>4. Max(times) \in times /\ \A x \in times : Max(times) >= x
  BY <1>3 DEF Max
<1>5. Latest(s) = s[Len(s)].at
  <2>1. Latest(s) = Max(times)
    BY DEF Latest
  <2> HIDE DEF times
  <2>2. QED  BY <1>3, <1>4, <2>1
<1>6. QED  BY <1>1, <1>5 DEF SameAsLatest

LEMMA AppendNews ==
  ASSUME ConstantsOK, NEW s \in Seq(Snapshot), NEW r \in Snapshot,
         Ordered(s, r.at), Changing(s), ~SameAsLatest(s, r.value)
  PROVE  Ordered(Append(s, r), r.at) /\ Changing(Append(s, r))
<1> DEFINE a == Append(s, r)
<1>1. /\ a \in Seq(Snapshot) /\ Len(a) = Len(s) + 1 /\ Len(s) \in Nat /\ DOMAIN s = 1..Len(s) /\ DOMAIN a = 1..(Len(s) + 1)
      /\ a[Len(s) + 1] = r /\ \A i \in 1..Len(s) : a[i] = s[i]
  OBVIOUS
<1>2. r.at \in Int
  BY DEF Snapshot, Time, ConstantsOK
<1> HIDE DEF a
<1>3. Ordered(a, r.at)
  BY <1>1, <1>2 DEF Ordered
<1>4. Changing(a)
  <2> SUFFICES ASSUME NEW i \in 2..Len(a)
               PROVE  a[i].value # a[i - 1].value
    BY DEF Changing
  <2>1. CASE i <= Len(s)
    BY <1>1, <2>1 DEF Changing
  <2>2. CASE i = Len(s) + 1
    <3>1. s # <<>> /\ a[i] = r /\ a[i - 1] = s[Len(s)]
      BY <1>1, <2>2
    <3>2. QED  BY <3>1, LatestIsLast
  <2>3. QED  BY <1>1, <2>1, <2>2
<1>5. QED  BY <1>3, <1>4 DEF a

\* What a step leaves a calm list: its series, and a refresh that goes on with news only.
LEMMA StaysCalm ==
  ASSUME ConstantsOK, TypeInv, now \in Int, now' \in Int, now <= now',
         NEW l \in Lists, CalmList(l), series'[l] = series[l],
         \A w \in Workers : ~Refreshes(w, l)' \/ slot'[w] = slot[w]
                            \/ (Refreshes(w, l) /\ slot'[w].when = slot[w].when /\ News(w, l)'),
         ~(Refreshing(l)' /\ Removing(l)') \/ (Removing(l)' => Removing(l))
  PROVE  CalmList(l)'
<1>1. \A w \in Workers : Refreshes(w, l)' => Refreshes(w, l) /\ slot'[w].when = slot[w].when
  BY DEF Refreshes
<1>2. \A v, w \in Workers : Refreshes(v, l)' /\ Refreshes(w, l)' => v = w
  BY <1>1 DEF CalmList
<1>3. ~(Refreshing(l)' /\ Removing(l)')
  BY <1>1 DEF CalmList, Refreshing, Refreshes
<1>4. ASSUME NEW k \in Keys
      PROVE  Ordered(series'[l][k], now') /\ Changing(series'[l][k])
  <2>1. series[l][k] \in Seq(Snapshot) /\ \A i \in DOMAIN series[l][k] : series[l][k][i].at \in Int
    BY SnapshotTimes DEF TypeInv, RowTypes
  <2>2. Ordered(series[l][k], now) /\ Changing(series[l][k])
    BY DEF CalmList
  <2>3. QED  BY <2>1, <2>2 DEF Ordered
<1>5. ASSUME NEW w \in Workers, Refreshes(w, l)'
      PROVE  slot'[w].when <= now' /\ News(w, l)' /\ \A k \in Keys : Ordered(series'[l][k], slot'[w].when)
  <2>1. Refreshes(w, l) /\ slot'[w].when = slot[w].when
    BY <1>1, <1>5
  <2>2. slot[w].when <= now /\ News(w, l) /\ \A k \in Keys : Ordered(series[l][k], slot[w].when)
    BY <2>1 DEF CalmList
  <2>3. slot[w].when \in Int
    BY DEF TypeInv, SlotTypes, SlotType, Time, ConstantsOK
  <2>4. News(w, l)'
    BY <1>5, <2>2 DEF News
  <2>5. QED  BY <2>1, <2>2, <2>3, <2>4
<1>6. QED  BY <1>2, <1>3, <1>4, <1>5 DEF CalmList

\* Only RemoveMember begins a removal.
LEMMA NoNewRemoval ==
  ASSUME ConstantsOK, TypeInv, NEW c \in Clients, Call(c) \/ Request(c), ~RemoveMember(c), NEW l \in Lists, Removing(l)'
  PROVE  Removing(l)
<1> USE DEF TypeInv
<1>1. /\ \A d \in Clients \ {c} : client'[d] = client[d]
      /\ client'[c].at # "deleteSeries"
  <2>1. CASE Call(c)
    BY <2>1, CallTypes
  <2>2. CASE Find(c)
    <3>1. client[c] \in RequestType /\ client[c].at = "find" /\ client[c].op # "create"
      BY <2>2, Busy DEF Find, ClientTypes
    <3>2. client[c].op \in {"add", "remove", "rename", "delete", "refresh"}
      BY <3>1 DEF RequestType, ConstantsOK
    <3>3. \/ Done(c)
          \/ \E s \in {"expand", "deleteMember", "update", "deleteList", "deleteAllSeries", "enqueue"} : Goto(c, s)
      BY <2>2, <3>2 DEF Find, Continue
    <3>4. QED  BY <3>1, <3>3, GotoTypes, DoneTypes DEF CallStage
  <2>3. CASE CreateCount(c)
    <3>1. client[c].at # "idle" /\ (Done(c) \/ Goto(c, "insert"))
      BY <2>3 DEF CreateCount, Continue
    <3>2. QED  BY <3>1, GotoTypes, DoneTypes DEF CallStage
  <2>4. CASE Expand(c) \/ AddCount(c)
    <3>1. client[c] \in RequestType
      BY <2>4, Busy DEF Expand, AddCount
    <3>2. \/ Done(c)
          \/ \E s \in {"lock", "createMany"} : \E K : client' = [client EXCEPT ![c].at = s, ![c].toAdd = K]
      <4>1. CASE Expand(c)
        BY <4>1 DEF Expand
      <4>2. CASE AddCount(c)
        BY <4>2 DEF AddCount
      <4>3. QED  BY <2>4, <4>1, <4>2
    <3>3. QED  BY <3>1, <3>2, DoneTypes DEF ClientTypes, RequestType
  <2>5. CASE DeleteSeries(c)
    <3>1. client[c].at # "idle" /\ Goto(c, "deleteList")
      BY <2>5 DEF DeleteSeries
    <3>2. QED  BY <3>1, GotoTypes DEF CallStage
  <2>6. CASE CreateInsert(c) \/ AddInsert(c) \/ RemoveSeries(c) \/ Rename(c) \/ DeleteList(c) \/ EnqueueManualRefresh(c)
    <3>1. Done(c)
      BY <2>6 DEF CreateInsert, AddInsert, RemoveSeries, Rename, DeleteList, EnqueueManualRefresh
    <3>2. QED  BY <3>1, DoneTypes
  <2>7. QED  BY <2>1, <2>2, <2>3, <2>4, <2>5, <2>6 DEF Request
<1>2. QED  BY <1>1 DEF Removing

LEMMA RequestChanges ==
  ASSUME ConstantsOK, TypeInv, ChangesInv, NEW c \in Clients, Call(c) \/ Request(c)
  PROVE  ChangesInv'
<1>1. /\ UNCHANGED <<slot, now>> /\ now \in Int /\ disturbed \subseteq disturbed'
  BY DEF Call, Request, Find, CreateCount, CreateInsert, Expand, AddCount, AddInsert, RemoveMember, RemoveSeries,
     Rename, DeleteSeries, DeleteList, EnqueueManualRefresh, TypeInv, JobTypes, Time, ConstantsOK
<1>2. ASSUME NEW l \in Lists, l \notin disturbed'
      PROVE  CalmList(l)'
  <2>0. CalmList(l) /\ \A w \in Workers : slot'[w] = slot[w]
    BY <1>1, <1>2 DEF ChangesInv
  <2>1. CASE RemoveMember(c)
    <3>1. client[c] \in RequestType /\ (Done(c) \/ Goto(c, "deleteSeries"))
      BY <2>1, Busy DEF RemoveMember, Continue, TypeInv
    <3>2. client'[c].at = "idle" \/ client'[c].list = client[c].list
      BY <2>1, <3>1, GotoTypes, DoneTypes DEF CallStage, RemoveMember, TypeInv
    <3>3. \A d \in Clients \ {c} : client'[d] = client[d]
      BY <2>1, WriteTypes
    <3>4. l \notin Meets(client[c].list) /\ UNCHANGED series
      BY <1>2, <2>1 DEF RemoveMember
    <3>5. CASE l = client[c].list
      <4>1. ~Refreshing(l)
        BY <3>4, <3>5 DEF Meets
      <4>2. ~Refreshing(l)'
        BY <1>1, <4>1 DEF Refreshing
      <4>3. QED  BY <1>1, <2>0, <3>4, <4>2, StaysCalm
    <3>6. CASE l # client[c].list
      <4>1. Removing(l)' => Removing(l)
        BY <3>2, <3>3, <3>6 DEF Removing
      <4>2. QED  BY <1>1, <2>0, <3>4, <4>1, StaysCalm
    <3>7. QED  BY <3>5, <3>6
  <2>2. CASE ~RemoveMember(c)
    <3>1. Removing(l)' => Removing(l)
      BY <2>2, NoNewRemoval
    <3>2. CASE series'[l] = series[l]
      BY <1>1, <2>0, <3>1, <3>2, StaysCalm
    <3>3. CASE series'[l] # series[l]
      <4>1. ~DeleteSeries(c)
        <5>1. DeleteSeries(c) => client[c].list \in disturbed' /\ series' = [series EXCEPT ![client[c].list] = [k \in Keys |-> <<>>]]
          BY DEF DeleteSeries
        <5>2. QED  BY <1>2, <3>3, <5>1 DEF TypeInv, RowTypes
      <4>2. RemoveSeries(c)
        BY <2>2, <3>3, <4>1 DEF Call, Request, Find, CreateCount, CreateInsert, Expand, AddCount, AddInsert,
           Rename, DeleteList, EnqueueManualRefresh, rowVars
      <4>3. client[c].at = "deleteSeries" /\ series' = [series EXCEPT ![client[c].list][client[c].key] = <<>>]
        BY <4>2 DEF RemoveSeries
      <4>4. l = client[c].list
        BY <3>3, <4>3 DEF TypeInv, RowTypes
      <4>5. ~Refreshing(l)
        BY <2>0, <4>3, <4>4 DEF CalmList, Removing
      <4>6. ~Refreshing(l)' /\ \A w \in Workers : ~Refreshes(w, l)'
        BY <1>1, <4>5 DEF Refreshing, Refreshes
      <4>7. \A k \in Keys : Ordered(series'[l][k], now') /\ Changing(series'[l][k])
        <5>1. \A k \in Keys : series'[l][k] = series[l][k] \/ series'[l][k] = <<>>
          BY <4>3, <4>4 DEF TypeInv, RowTypes
        <5>2. \A t : Ordered(<<>>, t) /\ Changing(<<>>)
          BY DEF Ordered, Changing
        <5>3. QED  BY <1>1, <2>0, <5>1, <5>2 DEF CalmList
      <4>8. QED  BY <4>6, <4>7 DEF CalmList
    <3>4. QED  BY <3>2, <3>3
  <2>3. QED  BY <2>1, <2>2
<1>3. QED  BY <1>1, <1>2 DEF ChangesInv

\* A series may be written by the worker that refreshes its list.
LEMMA AppendChanges ==
  ASSUME ConstantsOK, TypeInv, ChangesInv, NEW w \in Workers, AppendSnapshot(w)
  PROVE  ChangesInv'
<1> DEFINE s == slot[w]
           k == Min(s.batch)
           r == [at |-> s.when, value |-> s.got[k]]
<1>1. /\ s.at = "append" /\ slot' = [slot EXCEPT ![w].at = "touch"]
      /\ series' = [series EXCEPT ![s.list][k] = Append(series[s.list][k], r)]
      /\ UNCHANGED <<client, disturbed, now>>
  BY DEF AppendSnapshot, Step
<1>2. s \in SlotType /\ s.list \in Lists /\ s.when \in Time
  BY DEF TypeInv, SlotTypes, SlotType
<1> PICK m \in Lists : m = s.list
  BY <1>2
<1>3. /\ slot'[w].at = "touch" /\ slot'[w].list = m /\ slot'[w].when = s.when
      /\ \A v \in Workers \ {w} : slot'[v] = slot[v]
  BY <1>1, <1>2 DEF TypeInv, SlotTypes, SlotType
<1>4. k \in Keys /\ r \in Snapshot
  <2>1. s.batch # {} /\ s.batch \in SUBSET Keys /\ s.batch \subseteq DOMAIN s.got
    BY <1>1, <1>2 DEF TypeInv, SlotTypes, HandsFull, SlotType
  <2>2. s.batch \in SUBSET Int /\ IsFiniteSet(s.batch)
    BY <2>1, FS_Subset DEF ConstantsOK
  <2>3. k \in s.batch
    BY <2>1, <2>2, FirstKey
  <2>4. PICK b \in SUBSET Keys : s.got \in [b -> Values]
    BY <1>2 DEF SlotType, Fetched
  <2>5. s.got[k] \in Values
    BY <2>1, <2>3, <2>4
  <2>6. QED  BY <1>2, <2>1, <2>3, <2>5 DEF Snapshot
<1>5. Refreshes(w, m)
  BY <1>1 DEF ChangesInv, RefreshStage, Refreshes
<1>6. /\ \A l \in Lists \ {m} : series'[l] = series[l]
      /\ \A j \in Keys \ {k} : series'[m][j] = series[m][j]
      /\ series'[m][k] = Append(series[m][k], r)
  <2> HIDE DEF k, r, s
  <2>1. QED  BY <1>1, <1>2, <1>4 DEF TypeInv, RowTypes
<1>7. now \in Int /\ \A l \in Lists : (Removing(l)' => Removing(l)) /\ (Refreshing(l)' => Refreshing(l))
  <2>1. \A l \in Lists : Refreshing(l)' => Refreshing(l)
    BY <1>3 DEF Refreshing
  <2>2. QED  BY <1>1, <2>1 DEF Removing, TypeInv, JobTypes, Time, ConstantsOK
<1>8. ASSUME NEW l \in Lists \ disturbed', l # m
      PROVE  CalmList(l)'
  <2>1. CalmList(l) /\ series'[l] = series[l]
    BY <1>1, <1>6, <1>8 DEF ChangesInv
  <2>2. \A v \in Workers : ~Refreshes(v, l)' \/ slot'[v] = slot[v]
    BY <1>3, <1>8 DEF Refreshes
  <2>3. QED  BY <1>1, <1>7, <2>1, <2>2, StaysCalm
<1>9. ASSUME m \notin disturbed'
      PROVE  CalmList(m)'
  <2>1. CalmList(m) /\ News(w, m)
    BY <1>1, <1>2, <1>5, <1>9 DEF ChangesInv, CalmList
  <2>2. /\ s.when <= now /\ ~SameAsLatest(series[m][k], r.value)
        /\ \A j \in Keys : Ordered(series[m][j], s.when) /\ Changing(series[m][j]) /\ series[m][j] \in Seq(Snapshot)
    BY <1>1, <1>2, <1>5, <2>1 DEF CalmList, News, TypeInv, RowTypes
  <2>3. Ordered(series'[m][k], s.when) /\ Changing(series'[m][k])
    <3>1. Ordered(series[m][k], r.at) /\ Changing(series[m][k]) /\ series[m][k] \in Seq(Snapshot)
      BY <1>4, <2>2
    <3> HIDE DEF k
    <3>2. QED  BY <1>4, <1>6, <2>2, <3>1, AppendNews
  <2>4. \A j \in Keys : Ordered(series'[m][j], s.when) /\ Changing(series'[m][j])
    BY <1>6, <2>2, <2>3
  <2>5. \A j \in Keys : Ordered(series'[m][j], now')
    <3>1. ASSUME NEW j \in Keys
          PROVE  Ordered(series'[m][j], now)
      <4>1. series'[m][j] \in Seq(Snapshot)
        BY <1>2, <3>1, WorkTypes DEF Work, TypeInv, RowTypes
      <4>2. \A i \in DOMAIN series'[m][j] : series'[m][j][i].at \in Int
        BY <4>1, SnapshotTimes
      <4>3. s.when \in Int
        BY <1>2 DEF Time, ConstantsOK
      <4>4. QED  BY <1>7, <2>2, <2>4, <3>1, <4>2, <4>3 DEF Ordered
    <3>2. QED  BY <1>1, <3>1
  <2>6. \A v \in Workers : Refreshes(v, m)' => v = w
    BY <1>3, <1>5, <2>1 DEF CalmList, Refreshes
  <2>7. ~(Refreshing(m)' /\ Removing(m)')
    BY <1>2, <1>7, <2>1 DEF CalmList
  <2>8. slot'[w].when <= now' /\ News(w, m)'
    BY <1>1, <1>3, <2>2 DEF News
  <2>9. QED  BY <1>3, <2>4, <2>5, <2>6, <2>7, <2>8 DEF CalmList
<1>10. \A v \in Workers : slot'[v].when # NoTime <=> slot'[v].at \in RefreshStage
  BY <1>1, <1>3 DEF ChangesInv, RefreshStage
<1>11. QED  BY <1>8, <1>9, <1>10 DEF ChangesInv

\* A refresh of a list begins: it met no other one and no removal, or the list is disturbed.
LEMMA NextListChanges ==
  ASSUME ConstantsOK, TypeInv, ChangesInv, NEW w \in Workers, NextList(w)
  PROVE  ChangesInv'
<1>1. slot[w] \in SlotType /\ slot[w].at = "next" /\ slot[w].when = NoTime
  BY DEF NextList, TypeInv, SlotTypes, ChangesInv, RefreshStage
<1>2. UNCHANGED <<series, client, now>> /\ now \in Time \ {NoTime} /\ now \in Int
  BY DEF NextList, rowVars, TypeInv, JobTypes, Time, ConstantsOK
<1>3. PICK l \in slot[w].todo :
        IF Live(l)
        THEN /\ slot' = [slot EXCEPT ![w].at = "fetch", ![w].todo = @ \ {l}, ![w].list = l,
                                     ![w].keys = Members(l), ![w].when = now]
             /\ disturbed' = disturbed \cup Meets(l)
        ELSE slot' = [slot EXCEPT ![w].todo = @ \ {l}] /\ UNCHANGED disturbed
  BY DEF NextList
<1>4. l \in Lists /\ \A v \in Workers \ {w} : slot'[v] = slot[v]
  BY <1>1, WorkTypes DEF SlotType, Work
<1>5. \/ slot'[w].when = NoTime /\ slot'[w].at = "next"
      \/ /\ slot'[w].when = now /\ slot'[w].at = "fetch" /\ slot'[w].list = l
         /\ disturbed' = disturbed \cup Meets(l)
  BY <1>1, <1>3 DEF TypeInv, SlotTypes, SlotType
<1>6. disturbed \subseteq disturbed'
  BY <1>3
<1>7. \A m \in Lists : Removing(m)' = Removing(m)
  BY <1>2 DEF Removing
<1>8. ASSUME NEW m \in Lists \ disturbed', m # l \/ slot'[w].when = NoTime
      PROVE  CalmList(m)'
  <2>1. CalmList(m) /\ series'[m] = series[m]
    BY <1>2, <1>6, <1>8 DEF ChangesInv
  <2>2. \A v \in Workers : ~Refreshes(v, m)' \/ slot'[v] = slot[v]
    BY <1>4, <1>5, <1>8 DEF Refreshes
  <2>3. QED  BY <1>2, <1>7, <2>1, <2>2, StaysCalm
<1>9. ASSUME l \notin disturbed', slot'[w].when # NoTime
      PROVE  CalmList(l)'
  <2>1. ~Refreshing(l) /\ ~Removing(l) /\ slot'[w].when = now /\ slot'[w].at = "fetch"
    BY <1>5, <1>9 DEF Meets
  <2>2. CalmList(l) /\ ~Removing(l)'
    BY <1>4, <1>6, <1>7, <1>9, <2>1 DEF ChangesInv
  <2>3. \A v \in Workers : Refreshes(v, l)' => v = w
    BY <1>4, <2>1 DEF Refreshes, Refreshing
  <2>4. \A k \in Keys : Ordered(series'[l][k], now') /\ Changing(series'[l][k])
    BY <1>2, <2>2 DEF CalmList
  <2>5. slot'[w].when <= now' /\ News(w, l)' /\ \A k \in Keys : Ordered(series'[l][k], slot'[w].when)
    BY <1>2, <2>1, <2>4 DEF News
  <2>6. QED  BY <2>2, <2>3, <2>4, <2>5 DEF CalmList
<1>10. \A v \in Workers : slot'[v].when # NoTime <=> slot'[v].at \in RefreshStage
  BY <1>2, <1>4, <1>5 DEF ChangesInv, RefreshStage
<1>11. QED  BY <1>8, <1>9, <1>10 DEF ChangesInv

LEMMA WorkChanges ==
  ASSUME ConstantsOK, TypeInv, ChangesInv, NEW w \in Workers, Take(w) \/ Work(w) \/ WorkerDies(w)
  PROVE  ChangesInv'
<1>1. CASE AppendSnapshot(w) \/ NextList(w)
  BY <1>1, AppendChanges, NextListChanges
<1>2. CASE ~AppendSnapshot(w) /\ ~NextList(w)
  <2>1. UNCHANGED <<series, client, disturbed, now>> /\ now \in Int
    <3>1. now \in Int
      BY DEF TypeInv, JobTypes, Time, ConstantsOK
    <3>2. CASE Take(w) \/ WorkerDies(w)
      BY <3>1, <3>2 DEF Take, TakeRefresh, TakeSweep, WorkerDies, rowVars
    <3>3. CASE Work(w)
      BY <1>2, <3>1, <3>3 DEF Work, Acquire, SweepLists, Fetch, FindLatest, Touch, Finish, rowVars
    <3>4. QED  BY <3>1, <3>2, <3>3
  <2>2. \A v \in Workers \ {w} : slot'[v] = slot[v]
    BY WorkTypes
  <2>3. slot[w] \in SlotType /\ Resting.when = NoTime /\ Resting.at = "idle"
    BY RestingType DEF TypeInv, SlotTypes
  <2>4. /\ slot'[w].when # NoTime <=> slot'[w].at \in RefreshStage
        /\ \/ slot'[w].when = NoTime
           \/ /\ slot[w].when # NoTime /\ slot'[w].when = slot[w].when /\ slot'[w].list = slot[w].list
              /\ slot'[w].at = "append" => slot'[w].batch = slot[w].batch /\ slot'[w].got = slot[w].got
              /\ slot'[w].at = "append" => ~SameAsLatest(series[slot[w].list][Min(slot[w].batch)], slot[w].got[Min(slot[w].batch)])
    <3> USE <2>3 DEF TypeInv, SlotTypes, SlotType, ChangesInv, RefreshStage
    <3>1. CASE TakeRefresh(w) \/ TakeSweep(w)
      <4>1. CASE TakeRefresh(w)
        BY <4>1 DEF TakeRefresh
      <4>2. CASE TakeSweep(w)
        BY <4>2 DEF TakeSweep
      <4>3. QED  BY <3>1, <4>1, <4>2
    <3>2. CASE Acquire(w) \/ SweepLists(w) \/ Finish(w) \/ WorkerDies(w)
      BY <3>2 DEF Acquire, SweepLists, Finish, WorkerDies
    <3>3. CASE Fetch(w)
      BY <3>3 DEF Fetch
    <3>4. CASE FindLatest(w)
      <4>1. slot[w].at = "latest" /\ slot[w].when # NoTime
        BY <3>4 DEF FindLatest
      <4>2. PICK st \in {"touch", "append"} :
              /\ slot' = [slot EXCEPT ![w].at = st]
              /\ st = "append" => ~SameAsLatest(series[slot[w].list][Min(slot[w].batch)], slot[w].got[Min(slot[w].batch)])
        BY <3>4 DEF FindLatest, Step
      <4>3. QED  BY <4>1, <4>2
    <3>5. CASE Touch(w)
      BY <3>5 DEF Touch
    <3>6. QED  BY <1>2, <3>1, <3>2, <3>3, <3>4, <3>5 DEF Take, Work
  <2>5. ASSUME NEW l \in Lists \ disturbed'
        PROVE  CalmList(l)'
    <3>1. CalmList(l) /\ series'[l] = series[l]
      BY <2>1, <2>5 DEF ChangesInv
    <3>2. ~Refreshes(w, l)' \/ (Refreshes(w, l) /\ slot'[w].when = slot[w].when /\ News(w, l)')
      <4>1. CASE slot'[w].when = NoTime
        BY <4>1 DEF Refreshes
      <4>2. CASE slot'[w].when # NoTime /\ slot[w].list = l
        BY <2>1, <2>4, <4>2 DEF Refreshes, News
      <4>3. CASE slot'[w].when # NoTime /\ slot[w].list # l
        BY <2>4, <4>3 DEF Refreshes
      <4>4. QED  BY <4>1, <4>2, <4>3
    <3>3. Removing(l)' => Removing(l)
      BY <2>1 DEF Removing
    <3>4. QED  BY <2>1, <2>2, <3>1, <3>2, <3>3, StaysCalm
  <2>6. \A v \in Workers : slot'[v].when # NoTime <=> slot'[v].at \in RefreshStage
    BY <2>2, <2>4 DEF ChangesInv
  <2>7. QED  BY <2>5, <2>6 DEF ChangesInv
<1>3. QED  BY <1>1, <1>2

LEMMA NextChanges ==
  ASSUME ConstantsOK, TypeInv, ChangesInv, [Next]_vars
  PROVE  ChangesInv'
<1>1. CASE \E c \in Clients : Call(c) \/ Request(c)
  BY <1>1, RequestChanges
<1>2. CASE \E w \in Workers : Take(w) \/ Work(w) \/ WorkerDies(w)
  BY <1>2, WorkChanges
<1>3. CASE Schedule \/ Tick \/ UNCHANGED vars
  <2>1. UNCHANGED <<series, client, slot, disturbed>> /\ now \in Int /\ now' \in Int /\ now <= now'
    BY <1>3 DEF Schedule, Tick, vars, rowVars, TypeInv, JobTypes, Time, ConstantsOK
  <2>2. ASSUME NEW l \in Lists \ disturbed'
        PROVE  CalmList(l)'
    <3>1. CalmList(l) /\ series'[l] = series[l] /\ \A w \in Workers : slot'[w] = slot[w]
      BY <2>1, <2>2 DEF ChangesInv
    <3>2. Removing(l)' => Removing(l)
      BY <2>1 DEF Removing
    <3>3. QED  BY <2>1, <3>1, <3>2, StaysCalm
  <2>3. QED  BY <2>1, <2>2 DEF ChangesInv
<1>4. QED  BY <1>1, <1>2, <1>3 DEF Next

(* Store on change, for any lists, keys, workers, limits and faults: two   *)
(* neighbouring snapshots of a member differ, unless a refresh of its list *)
(* ever met another one or a removal.                                      *)
THEOREM ChangesStored == ASSUME ConstantsOK PROVE Spec => []SnapshotsAreChanges
<1>1. Init => TypeInv /\ ChangesInv
  <2>1. ASSUME Init
        PROVE  ChangesInv
    <3>1. \A w \in Workers : slot[w].when = NoTime /\ slot[w].at = "idle"
      BY <2>1, RestingType DEF Init
    <3>2. \A l \in Lists, k \in Keys : series[l][k] = <<>>
      BY <2>1 DEF Init
    <3>3. \A l \in Lists, k \in Keys : Ordered(series[l][k], now) /\ Changing(series[l][k])
      BY <3>2 DEF Ordered, Changing
    <3>4. \A l \in Lists : ~Refreshing(l) /\ \A w \in Workers : ~Refreshes(w, l)
      BY <3>1 DEF Refreshing, Refreshes
    <3>5. QED  BY <3>1, <3>3, <3>4 DEF ChangesInv, CalmList, RefreshStage
  <2>2. QED  BY <2>1, InitTypes
<1>2. TypeInv /\ ChangesInv /\ [Next]_vars => TypeInv' /\ ChangesInv'
  BY NextTypes, NextChanges
<1>3. TypeInv /\ ChangesInv => SnapshotsAreChanges
  BY DEF TypeInv, RowTypes, ChangesInv, CalmList, Changing, SnapshotsAreChanges
<1>4. QED  BY <1>1, <1>2, <1>3, PTL DEF Spec
=============================================================================
