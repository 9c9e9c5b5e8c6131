---------------------------- MODULE ServicesProofs ----------------------------
(***************************************************************************)
(* Two services that many requests go through.  The interval between two   *)
(* calls to Google Ads, for any number of callers, any rate, any clocks,   *)
(* any lateness of the timers.  And what a reader of the results is told   *)
(* while the runs behind them come, go and are reset.                      *)
(***************************************************************************)
EXTENDS AdsThrottle, SnapshotQuery, FiniteSetTheorems, WellFoundedInduction, TLAPS

-----------------------------------------------------------------------------
(* AdsThrottle.                                                            *)

\* What lies between two slots in the time of Redis.
Gap == MinTimeMs - MaxSkew
\* The clocks and the timers are good enough for the interval to say anything.
Synchronised == MaxSkew + MaxLate < MinTimeMs
Waiting(c) == pc[c] = "waiting"

\* Nobody is due later than the slot the key holds, and the key outlives every slot by an interval.
KeyCovers ==
  /\ \A c \in Callers : Waiting(c) => /\ at[c] + Offset[c] <= last
                                      /\ at[c] + MinTimeMs <= expires
  /\ lastCall - MaxLate <= last
  /\ lastCall - MaxLate + MinTimeMs <= expires
SlotsAreSpaced ==
  \A c, d \in Callers : c # d /\ Waiting(c) /\ Waiting(d) => at[c] + Gap <= at[d] \/ at[d] + Gap <= at[c]
\* Who waits is not late by more than a timer may be, and is due an interval after the call before.
DueAfterTheLastCall ==
  \A c \in Callers : Waiting(c) => /\ now <= at[c] + MaxLate
                                   /\ lastCall + Gap - MaxLate <= at[c]

IInv == /\ ThrottleTypeOK
        /\ lastCall <= now
        /\ Synchronised => KeyCovers /\ SlotsAreSpaced /\ DueAfterTheLastCall

-----------------------------------------------------------------------------
LEMMA MinTimeIsNat == MinTimeMs \in Nat /\ MinTimeMs >= 1
<1>1. PICK q \in Int : q > 0 /\ q = (IF Qps > 0 THEN Qps ELSE 1)
  BY ThrottleAssumption
<1>2. (Second + q - 1) \div q \in Int
  BY <1>1, ThrottleAssumption
<1>. QED
  BY <1>1, <1>2 DEF MinTimeMs

LEMMA InitIInv == ThrottleInit => IInv
  BY MinTimeIsNat, ThrottleAssumption DEF ThrottleInit, IInv, ThrottleTypeOK, Synchronised, KeyCovers, SlotsAreSpaced, DueAfterTheLastCall, Waiting

\* A reservation keeps the invariant: the new slot is an interval after all others.
LEMMA AcquireSlotKeepsIInv ==
  ASSUME IInv, NEW c \in Callers, ~Waiting(c), AcquireSlot(c),
         attempt' \in [Callers -> 0..AdsMaxRetries], UNCHANGED <<now, lastCall>>
  PROVE  IInv'
<1>. DEFINE local == now + Offset[c]
            slot  == Slot(local)
<1>. USE MinTimeIsNat, ThrottleAssumption
<1>1. ThrottleTypeOK /\ lastCall <= now
  BY DEF IInv
<1>2. Offset[c] \in Nat /\ Offset[c] <= MaxSkew /\ local \in Nat /\ local >= now
  BY <1>1 DEF ThrottleTypeOK
<1>3. /\ slot \in Nat /\ slot >= local
      /\ now < expires => slot >= last + MinTimeMs
  BY <1>1, <1>2 DEF Slot, ThrottleTypeOK
<1>4. /\ last' = slot
      /\ expires' = now + Ttl(slot - local)
      /\ at' = [at EXCEPT ![c] = slot - Offset[c]]
      /\ pc' = [pc EXCEPT ![c] = "waiting"]
  BY DEF AcquireSlot
<1>5. /\ at'[c] = slot - Offset[c] /\ at'[c] >= now
      /\ expires' = at'[c] + MinTimeMs + SlotTtlBuffer
      /\ \A d \in Callers \ {c} : at'[d] = at[d] /\ (Waiting(d)' <=> Waiting(d))
  BY <1>1, <1>2, <1>3, <1>4 DEF ThrottleTypeOK, Ttl, Waiting
<1>6. ThrottleTypeOK'
  BY <1>1, <1>2, <1>3, <1>4, <1>5 DEF ThrottleTypeOK
<1>7. lastCall' <= now'
  BY <1>1
<1>8. ASSUME Synchronised PROVE KeyCovers' /\ SlotsAreSpaced' /\ DueAfterTheLastCall'
  <2>1. KeyCovers /\ SlotsAreSpaced /\ DueAfterTheLastCall
    BY <1>8 DEF IInv
  <2>2. ASSUME NEW d \in Callers \ {c}, Waiting(d)
        PROVE  /\ at[d] + Gap <= at'[c]
               /\ at[d] + Offset[d] <= slot
               /\ at[d] + MinTimeMs <= expires'
    <3>1. /\ at[d] \in Int /\ Offset[d] \in Nat /\ Offset[d] <= MaxSkew
          /\ at[d] + Offset[d] <= last /\ at[d] + MinTimeMs <= expires
      BY <1>1, <2>1, <2>2 DEF ThrottleTypeOK, KeyCovers
    <3>2. CASE now < expires
      BY <1>1, <1>2, <1>3, <1>5, <1>8, <3>1, <3>2 DEF ThrottleTypeOK, Gap, Synchronised
    <3>3. CASE ~(now < expires)
      BY <1>1, <1>2, <1>3, <1>5, <1>8, <3>1, <3>3 DEF ThrottleTypeOK, Gap, Synchronised
    <3>. QED
      BY <3>2, <3>3
  <2>3. lastCall + Gap - MaxLate <= at'[c] /\ lastCall - MaxLate <= slot
    <3>1. lastCall - MaxLate <= last /\ lastCall - MaxLate + MinTimeMs <= expires
      BY <2>1 DEF KeyCovers
    <3>2. CASE now < expires
      BY <1>1, <1>2, <1>3, <1>5, <3>1, <3>2 DEF ThrottleTypeOK, Gap
    <3>3. CASE ~(now < expires)
      BY <1>1, <1>2, <1>3, <1>5, <3>1, <3>3 DEF ThrottleTypeOK, Gap
    <3>. QED
      BY <3>2, <3>3
  <2>4. KeyCovers'
    <3>1. ASSUME NEW d \in Callers, Waiting(d)'
          PROVE  at'[d] + Offset[d] <= last' /\ at'[d] + MinTimeMs <= expires'
      <4>1. CASE d = c
        BY <1>1, <1>2, <1>3, <1>4, <1>5, <4>1 DEF ThrottleTypeOK
      <4>2. CASE d # c
        BY <1>4, <1>5, <2>2, <3>1, <4>2
      <4>. QED
        BY <4>1, <4>2
    <3>2. lastCall - MaxLate + MinTimeMs <= expires'
      BY <1>1, <1>2, <1>3, <1>5, <1>8, <2>3 DEF ThrottleTypeOK, Gap, Synchronised
    <3>. QED
      BY <1>4, <2>3, <3>1, <3>2 DEF KeyCovers
  <2>5. SlotsAreSpaced'
    BY <1>5, <2>1, <2>2 DEF SlotsAreSpaced, Gap
  <2>6. DueAfterTheLastCall'
    <3>1. ASSUME NEW d \in Callers, Waiting(d)'
          PROVE  now <= at'[d] + MaxLate /\ lastCall + Gap - MaxLate <= at'[d]
      <4>1. CASE d = c
        BY <1>1, <1>2, <1>3, <1>5, <2>3, <4>1 DEF ThrottleTypeOK
      <4>2. CASE d # c
        BY <1>5, <2>1, <3>1, <4>2 DEF DueAfterTheLastCall
      <4>. QED
        BY <4>1, <4>2
    <3>. QED
      BY <3>1 DEF DueAfterTheLastCall, Gap
  <2>. QED
    BY <2>4, <2>5, <2>6
<1>. QED
  BY <1>6, <1>7, <1>8 DEF IInv, Synchronised

\* Who leaves the line disturbs nobody in it.
LEMMA LeavingKeepsIInv ==
  ASSUME IInv, NEW c \in Callers, NEW to \in {"idle", "calling", "backoff"},
         pc' = [pc EXCEPT ![c] = to], ThrottleTypeOK',
         \A d \in Callers \ {c} : at'[d] = at[d],
         UNCHANGED <<now, last, expires, lastCall>>
  PROVE  IInv'
<1>1. \A d \in Callers : Waiting(d)' => d # c /\ Waiting(d) /\ at'[d] = at[d]
  BY DEF IInv, ThrottleTypeOK, Waiting
<1>. QED
  BY <1>1 DEF IInv, Synchronised, KeyCovers, SlotsAreSpaced, DueAfterTheLastCall, Gap

LEMMA NextKeepsIInv == IInv /\ [ThrottleNext]_avars => IInv'
<1>. SUFFICES ASSUME IInv, [ThrottleNext]_avars PROVE IInv'
  OBVIOUS
<1>. USE MinTimeIsNat, ThrottleAssumption
<1>0. ThrottleTypeOK /\ lastCall <= now
  BY DEF IInv
<1>1. CASE Elapse
  <2>1. ThrottleTypeOK' /\ lastCall' <= now'
    BY <1>0, <1>1 DEF Elapse, ThrottleTypeOK
  <2>2. ASSUME Synchronised PROVE DueAfterTheLastCall'
    BY <1>0, <1>1, <2>2 DEF IInv, Elapse, ThrottleTypeOK, DueAfterTheLastCall, Waiting, Gap
  <2>. QED
    BY <1>1, <2>1, <2>2 DEF IInv, Elapse, Synchronised, KeyCovers, SlotsAreSpaced, Waiting, Gap
<1>2. ASSUME NEW c \in Callers, Schedule(c) PROVE IInv'
  <2>1. ~Waiting(c) /\ attempt' \in [Callers -> 0..AdsMaxRetries]
    BY <1>0, <1>2 DEF Schedule, Waiting, ThrottleTypeOK
  <2>. QED
    BY <1>2, <2>1, AcquireSlotKeepsIInv DEF Schedule
<1>3. ASSUME NEW c \in Callers, Call(c) PROVE IInv'
  <2>1. ThrottleTypeOK' /\ lastCall' <= now'
    BY <1>0, <1>3 DEF Call, ThrottleTypeOK
  <2>2. \A d \in Callers : Waiting(d)' => d # c /\ Waiting(d) /\ at'[d] = at[d]
    BY <1>0, <1>3 DEF Call, Waiting, ThrottleTypeOK
  <2>3. ASSUME Synchronised PROVE KeyCovers' /\ SlotsAreSpaced' /\ DueAfterTheLastCall'
    <3>1. KeyCovers /\ SlotsAreSpaced /\ DueAfterTheLastCall
      BY <2>3 DEF IInv
    <3>2. Waiting(c) /\ at[c] \in Int /\ now >= at[c] /\ now <= at[c] + MaxLate
      BY <1>0, <1>3, <3>1 DEF Call, Waiting, ThrottleTypeOK, DueAfterTheLastCall
    <3>3. KeyCovers'
      <4>1. now - MaxLate <= last /\ now - MaxLate + MinTimeMs <= expires
        BY <1>0, <3>1, <3>2 DEF KeyCovers, ThrottleTypeOK
      <4>. QED
        BY <1>3, <2>2, <3>1, <4>1 DEF Call, KeyCovers
    <3>4. SlotsAreSpaced'
      BY <2>2, <3>1 DEF SlotsAreSpaced, Gap
    <3>5. ASSUME NEW d \in Callers, Waiting(d)'
          PROVE  now <= at'[d] + MaxLate /\ now + Gap - MaxLate <= at'[d]
      <4>1. d # c /\ Waiting(d) /\ at'[d] = at[d] /\ at[d] \in Int
        BY <1>0, <2>2, <3>5 DEF ThrottleTypeOK
      <4>2. now <= at[d] + MaxLate
        BY <3>1, <4>1 DEF DueAfterTheLastCall
      <4>3. at[c] + Gap <= at[d] \/ at[d] + Gap <= at[c]
        BY <3>1, <3>2, <4>1 DEF SlotsAreSpaced
      <4>4. at[c] + Gap <= at[d]
        BY <1>0, <2>3, <3>2, <4>1, <4>2, <4>3 DEF Synchronised, Gap, ThrottleTypeOK
      <4>. QED
        BY <1>0, <3>2, <4>1, <4>2, <4>4 DEF Gap, ThrottleTypeOK
    <3>. QED
      BY <1>3, <3>3, <3>4, <3>5 DEF Call, DueAfterTheLastCall, Gap
  <2>. QED
    BY <2>1, <2>3 DEF IInv, Synchronised
<1>4. ASSUME NEW c \in Callers, Returns(c) PROVE IInv'
  <2>1. ThrottleTypeOK'
    BY <1>0, <1>4 DEF Returns, ThrottleTypeOK
  <2>. QED
    BY <1>4, <2>1, LeavingKeepsIInv DEF Returns
<1>5. ASSUME NEW c \in Callers, Retries(c) PROVE IInv'
  <2>1. BackoffMs(attempt[c]) \in Int /\ BackoffMs(attempt[c]) \div 5 \in Int
    BY <1>0 DEF BackoffMs, ThrottleTypeOK
  <2>2. ThrottleTypeOK'
    BY <1>0, <1>5, <2>1 DEF Retries, ThrottleTypeOK
  <2>. QED
    BY <1>0, <1>5, <2>2, LeavingKeepsIInv DEF Retries, ThrottleTypeOK
<1>6. ASSUME NEW c \in Callers, BackedOff(c) PROVE IInv'
  <2>1. ~Waiting(c) /\ attempt' \in [Callers -> 0..AdsMaxRetries]
    BY <1>0, <1>6 DEF BackedOff, Waiting, ThrottleTypeOK
  <2>. QED
    BY <1>6, <2>1, AcquireSlotKeepsIInv DEF BackedOff
<1>7. ASSUME NEW c \in Callers, Crash(c) PROVE IInv'
  <2>1. ThrottleTypeOK'
    BY <1>0, <1>7 DEF Crash, ThrottleTypeOK
  <2>. QED
    BY <1>0, <1>7, <2>1, LeavingKeepsIInv DEF Crash, ThrottleTypeOK
<1>8. CASE UNCHANGED avars
  BY <1>8 DEF avars, IInv, ThrottleTypeOK, Synchronised, KeyCovers, SlotsAreSpaced, DueAfterTheLastCall, Waiting, Gap
<1>. QED
  BY <1>1, <1>2, <1>3, <1>4, <1>5, <1>6, <1>7, <1>8 DEF ThrottleNext, CallFails

-----------------------------------------------------------------------------
\* Every variable of the limiter stays in its type, whatever the rate and the number of callers.
THEOREM TypeCorrect == ThrottleSpec => []ThrottleTypeOK
<1>1. IInv => ThrottleTypeOK
  BY DEF IInv
<1>. QED
  BY <1>1, InitIInv, NextKeepsIInv, PTL DEF ThrottleSpec

\* Two calls reach Google Ads at least an interval apart, less what the clocks differ and the timers are
\* late: acquireSlot and RESERVE_SLOT for any rate, any number of workers and any retries.
THEOREM CallsSpaced == ThrottleSpec => CallsAreSpaced
<1>1. IInv /\ [ThrottleNext]_avars => [Spaced]_avars
  <2>. SUFFICES ASSUME IInv, NEW c \in Callers, Call(c)
                PROVE  now >= lastCall + MinTimeMs - MaxSkew - MaxLate
    BY DEF Spaced
  <2>. USE MinTimeIsNat, ThrottleAssumption
  <2>1. now \in Nat /\ lastCall \in Int /\ at[c] \in Int /\ lastCall <= now /\ now >= at[c] /\ Waiting(c)
    BY DEF IInv, ThrottleTypeOK, Call, Waiting
  <2>2. CASE Synchronised
    BY <2>1, <2>2 DEF IInv, DueAfterTheLastCall, Gap
  <2>3. CASE ~Synchronised
    BY <2>1, <2>3 DEF Synchronised
  <2>. QED
    BY <2>2, <2>3
<1>. QED
  BY <1>1, InitIInv, NextKeepsIInv, PTL DEF ThrottleSpec, CallsAreSpaced

-----------------------------------------------------------------------------
(* SnapshotQuery.                                                          *)

Ready(run) == run.status \in {"completed", "partial"}
Run      == [status : RunStatus, owner : Owners, data : Nat]
Journeys == linked["journey"]
Stored   == merged["journey"]

\* The newest journey run is the only one in progress and the only one that comes back; what it has
\* stored is what the views are joined with.
RunsInv ==
  /\ linked \in [AllKinds -> Seq(Run)] /\ merged \in [AllKinds -> Nat] /\ saves \in Nat
  /\ Stored <= saves
  /\ \A i \in DOMAIN Journeys :
       /\ Journeys[i].data <= Stored
       /\ Journeys[i].status \in InProgress => i = Len(Journeys)
       /\ Ready(Journeys[i]) => Journeys[i].data # 0
       /\ i = Len(Journeys) /\ Journeys[i].data # 0 => Journeys[i].data = Stored

\* A version names a run that is ready.
Versioned(version, runs) == version # 0 => version \in DOMAIN runs /\ Ready(runs[version])
\* A cached insight is not older than what the run stored whose version it has.
CachedOK(key, insight, runs) ==
  /\ insight \in Nat
  /\ key[1] \in JOURNEY_VIEWS /\ key[3] # 0 => Versioned(key[3], runs) /\ insight >= runs[key[3]].data

\* A reader that has a version waits for nothing newer than what the run of that version stored.
WaitsFor(a, runs) ==
  /\ a.due \in Nat
  /\ IF a.request.view \in JOURNEY_VIEWS
     THEN /\ a.version = 0 => a.due = 0
          /\ Versioned(a.version, runs) /\ (a.version # 0 => a.due <= runs[a.version].data)
     ELSE a.due = 0
MadeOf(a, runs) ==
  /\ a.run \in Nat
  /\ a.request.view \in JOURNEY_VIEWS /\ a.version # 0 => a.run >= runs[a.version].data

\* What a reader asks for and has read so far; what passed the gate finds rows that are labelled.
AskKeys == {"at", "request", "version", "run", "due"}
RequestOf(r) == {"what", "view"} \subseteq DOMAIN r
AskOK(a, runs, stored) ==
  \/ a = NoAsk
  \/ /\ DOMAIN a = AskKeys /\ RequestOf(a.request)
     /\ a.at \in {"load", "version", "lookup", "gate", "rows", "summarize"}
     /\ a.at \in {"version", "lookup", "summarize"} => a.request.what = "insight"
     /\ a.request.what = "insight" => KindOf(a.request.view) \in {"journey", "static"}
     /\ a.at \in {"lookup", "gate", "rows", "summarize"} /\ a.request.what = "insight" => WaitsFor(a, runs)
     /\ a.at = "summarize" => MadeOf(a, runs)
     /\ a.at = "rows" /\ a.request.view \in JOURNEY_VIEWS => stored # 0
AnswerOK(b) ==
  /\ "result" \in DOMAIN b => "request" \in DOMAIN b
  /\ "request" \in DOMAIN b => RequestOf(b.request) /\ b.request.what # "insight"
  /\ "insight" \in DOMAIN b => b.insight >= b.due
  /\ b.status = 200 /\ "request" \in DOMAIN b /\ b.request.view \in JOURNEY_VIEWS => b.data # 0

InsightsInv == \A key \in DOMAIN insights : CachedOK(key, insights[key], Journeys)
ReadersInv  == /\ ask = [c \in Readers |-> ask[c]] /\ shown = [c \in Readers |-> shown[c]]
               /\ \A c \in Readers : AskOK(ask[c], Journeys, Stored) /\ AnswerOK(shown[c])
ReadInv == RunsInv /\ InsightsInv /\ ReadersInv

-----------------------------------------------------------------------------
(* The newest run.                                                         *)

\* Of finitely many places in a sequence one is the last.
LEMMA LastPlace ==
  ASSUME NEW n \in Nat, NEW S \in SUBSET (1..n), S # {}
  PROVE  Max(S) \in S /\ \A k \in S : k <= Max(S)
<1> DEFINE Behind(m) == {k \in S : m < k}
           All       == {Behind(m) : m \in S}
<1>0. IsFiniteSet(S)
  <2>1. IsFiniteSet(1..n)
    BY FS_Interval
  <2>2. QED  BY <2>1, FS_Subset
<1>1. IsWellFoundedOn(StrictSubsetOrdering(S), SUBSET S)
  BY <1>0, FS_StrictSubsetOrderingWellFounded, FS_FiniteSubsetsOfFinite
<1>2. All \subseteq SUBSET S /\ All # {}
  OBVIOUS
<1>3. \E b \in All : \A d \in All : ~(<<d, b>> \in StrictSubsetOrdering(S))
  BY <1>1, <1>2, WFMin
<1>4. PICK m \in S : \A k \in S : ~(<<Behind(k), Behind(m)>> \in StrictSubsetOrdering(S))
  BY <1>3
<1>5. ASSUME NEW k \in S, m < k
      PROVE  FALSE
  <2>1. \A j \in S : j \in Int
    OBVIOUS
  <2>0. k \in Behind(m) /\ ~(k < k) /\ \A j \in S : k < j => m < j
    BY <1>5, <2>1
  <2>2. Behind(k) \subseteq Behind(m) /\ k \in Behind(m) /\ k \notin Behind(k)
    BY <2>0
  <2>3. <<Behind(k), Behind(m)>> \in StrictSubsetOrdering(S)
    BY <2>2 DEF StrictSubsetOrdering
  <2>4. QED  BY <1>4, <2>3
<1>6. \A k \in S : k <= m
  BY <1>5
<1>7. QED  BY <1>6 DEF Max

LEMMA JourneyKind ==
  ASSUME NEW view
  PROVE  /\ view \in JOURNEY_VIEWS <=> KindOf(view) = "journey"
         /\ view \in JOURNEY_VIEWS =>
              ViewOf(view) = BuiltinViews[view] /\ BuiltinViews[view].requiresFeature = "journey"
         /\ KindOf(view) = "static" => view # "custom" /\ view \notin AI_SEARCH_VIEW_NAMES
         /\ view \in JOURNEY_VIEWS => view # "custom" /\ view \notin AI_SEARCH_VIEW_NAMES
<1>1. view \in JOURNEY_VIEWS => view # "custom" /\ view \notin AI_SEARCH_VIEW_NAMES
  BY DEF JOURNEY_VIEWS, AI_SEARCH_VIEW_NAMES, AI_VIEW_SOURCE
<1>2. "custom" \notin AI_SEARCH_VIEW_NAMES
  BY DEF AI_SEARCH_VIEW_NAMES, AI_VIEW_SOURCE
<1>3. CASE view \in JOURNEY_VIEWS
  <2>1. BuiltinViews.journey.requiresFeature = "journey"
    BY DEF BuiltinViews, JourneyView, Table
  <2>2. BuiltinViews.journey_funnel.requiresFeature = "journey"
    BY DEF BuiltinViews, Chart
  <2>3. BuiltinViews[view].requiresFeature = "journey"
    BY <1>3, <2>1, <2>2 DEF JOURNEY_VIEWS
  <2>4. KindOf(view) = "journey" /\ ViewOf(view) = BuiltinViews[view]
    BY <1>1, <1>3 DEF KindOf, ViewOf
  <2>5. QED  BY <1>1, <1>3, <2>3, <2>4
<1>4. CASE view \notin JOURNEY_VIEWS
  BY <1>2, <1>4 DEF KindOf
<1>5. QED  BY <1>3, <1>4

\* The newest run of all, and the newest whose results are there.
LEMMA NewestJourney ==
  ASSUME RunsInv
  PROVE  /\ RunFeature(LatestJourneyStatus) = "ready" <=> Len(Journeys) # 0 /\ Ready(Journeys[Len(Journeys)])
         /\ \A view \in JOURNEY_VIEWS :
              /\ ResolveViewDataVersion(view, Actor) \in Nat
              /\ Versioned(ResolveViewDataVersion(view, Actor), Journeys)
              /\ Len(Journeys) # 0 /\ Ready(Journeys[Len(Journeys)]) =>
                   ResolveViewDataVersion(view, Actor) = Len(Journeys)
<1> DEFINE n == Len(Journeys)
           R == {i \in DOMAIN Journeys : Journeys[i].status \in {"completed", "partial"}}
<1>1. Journeys \in Seq(Run) /\ n \in Nat /\ DOMAIN Journeys = 1..n /\ \A i \in 1..n : Journeys[i] \in Run
  BY DEF RunsInv, AllKinds, Journeys
<1>2. LatestJourneyStatus = IF n = 0 THEN "none" ELSE Journeys[n].status
  <2>1. Newest("journey", LAMBDA r : TRUE) = IF 1..n = {} THEN 0 ELSE Max(1..n)
    BY <1>1 DEF Newest, Journeys
  <2>2. n # 0 => Max(1..n) \in 1..n /\ \A k \in 1..n : k <= Max(1..n)
    <3>1. n # 0 => 1 \in 1..n
      BY <1>1
    <3>2. QED  BY <1>1, <3>1, LastPlace
  <2>3. n # 0 => Max(1..n) = n
    BY <1>1, <2>2
  <2>4. Newest("journey", LAMBDA r : TRUE) = n
    BY <1>1, <2>1, <2>3
  <2>5. QED  BY <2>4 DEF LatestJourneyStatus, RunAt, NoRun, Journeys
<1>3. \A s : RunFeature(s) = "ready" <=> s \in {"completed", "partial"}
  BY DEF RunFeature, InProgress
<1>4. RunFeature(LatestJourneyStatus) = "ready" <=> n # 0 /\ Ready(Journeys[n])
  BY <1>2, <1>3 DEF Ready
<1>5. ASSUME NEW view \in JOURNEY_VIEWS
      PROVE  /\ ResolveViewDataVersion(view, Actor) \in Nat
             /\ Versioned(ResolveViewDataVersion(view, Actor), Journeys)
             /\ n # 0 /\ Ready(Journeys[n]) => ResolveViewDataVersion(view, Actor) = n
  <2>1. ResolveViewDataVersion(view, Actor) = Newest("journey", LAMBDA r : r.status \in {"completed", "partial"})
    BY JourneyKind DEF ResolveViewDataVersion
  <2>2. ResolveViewDataVersion(view, Actor) = IF R = {} THEN 0 ELSE Max(R)
    BY <2>1 DEF Newest, Journeys
  <2>3. R # {} => Max(R) \in R /\ \A k \in R : k <= Max(R)
    BY <1>1, LastPlace
  <2>4. n # 0 /\ Ready(Journeys[n]) => n \in R
    BY <1>1 DEF Ready
  <2>5. R # {} => Max(R) \in 1..n /\ Ready(Journeys[Max(R)])
    BY <1>1, <2>3 DEF Ready
  <2>6. n \in R => Max(R) = n
    <3>1. n \in R => n <= Max(R) /\ Max(R) \in 1..n
      BY <1>1, <2>3
    <3>2. QED  BY <1>1, <3>1
  <2>7. QED  BY <1>1, <2>2, <2>4, <2>5, <2>6 DEF Versioned
<1>6. QED  BY <1>4, <1>5

-----------------------------------------------------------------------------
(* The runs go on.                                                         *)

\* What the readers rely on: nothing that was stored is lost, and a run that is ready stays as it is.
Kept ==
  /\ Stored <= Stored'
  /\ \A v \in DOMAIN Journeys : Ready(Journeys[v]) => v \in DOMAIN Journeys' /\ Journeys'[v] = Journeys[v]

LEMMA InitRuns ==
  ASSUME Init
  PROVE  RunsInv
<1>1. linked = [k \in AllKinds |-> <<>>] /\ merged = [k \in AllKinds |-> 0] /\ saves = 0
  BY DEF Init
<1>2. linked \in [AllKinds -> Seq(Run)] /\ merged \in [AllKinds -> Nat]
  BY <1>1
<1>3. Journeys = <<>> /\ Stored = 0
  BY <1>1 DEF Journeys, Stored, AllKinds
<1>4. QED  BY <1>1, <1>2, <1>3 DEF RunsInv

\* One run of a kind becomes another one, or one is added.
LEMMA RunChanges ==
  ASSUME RunsInv, NEW k \in AllKinds, NEW i \in DOMAIN linked[k], NEW r \in Run,
         linked' = [linked EXCEPT ![k][i] = r]
  PROVE  /\ linked' \in [AllKinds -> Seq(Run)]
         /\ k # "journey" => Journeys' = Journeys
         /\ k = "journey" => /\ i \in 1..Len(Journeys) /\ Len(Journeys') = Len(Journeys)
                             /\ \A j \in 1..Len(Journeys) : Journeys'[j] = IF j = i THEN r ELSE Journeys[j]
<1>1. linked[k] \in Seq(Run) /\ "journey" \in AllKinds
  BY DEF RunsInv, AllKinds
<1>2. linked' = [linked EXCEPT ![k] = [linked[k] EXCEPT ![i] = r]]
  OBVIOUS
<1>3. [linked[k] EXCEPT ![i] = r] \in Seq(Run)
  BY <1>1
<1>4. linked' \in [AllKinds -> Seq(Run)]
  BY <1>2, <1>3 DEF RunsInv
<1>5. k # "journey" => Journeys' = Journeys
  BY <1>1, <1>2 DEF Journeys, RunsInv
<1>6. ASSUME k = "journey"
      PROVE  /\ i \in 1..Len(Journeys) /\ Len(Journeys') = Len(Journeys)
             /\ \A j \in 1..Len(Journeys) : Journeys'[j] = IF j = i THEN r ELSE Journeys[j]
  <2>1. Journeys' = [Journeys EXCEPT ![i] = r] /\ Journeys \in Seq(Run) /\ i \in DOMAIN Journeys
    BY <1>1, <1>2, <1>6 DEF Journeys, RunsInv
  <2>2. QED  BY <2>1
<1>7. QED  BY <1>4, <1>5, <1>6

RunStep ==
  \/ FinishAnalysis
  \/ \E k \in Kinds :
       \/ \E owner \in Owners : (k = "ai" \/ owner = Shared) /\ CreateRun(k, owner)
       \/ \E i \in DOMAIN linked[k] : ResetRun(k, i) \/ StartRun(k, i) \/ SaveRun(k, i) \/ CloseRun(k, i)

LEMMA RunsGoOn ==
  ASSUME RunsInv, Kinds \subseteq AllKinds, RunStep
  PROVE  RunsInv' /\ Kept /\ UNCHANGED <<insights, ask, shown>>
<1> DEFINE n == Len(Journeys)
<1>1. /\ linked \in [AllKinds -> Seq(Run)] /\ merged \in [AllKinds -> Nat] /\ saves \in Nat
      /\ "journey" \in AllKinds /\ Journeys \in Seq(Run) /\ n \in Nat /\ DOMAIN Journeys = 1..n
      /\ Stored \in Nat /\ \A j \in 1..n : Journeys[j] \in Run
  BY DEF RunsInv, AllKinds, Journeys, Stored
<1>2. CASE FinishAnalysis
  BY <1>1, <1>2 DEF FinishAnalysis, storeVars, RunsInv, Kept, Journeys, Stored, Ready
<1>3. ASSUME NEW k \in Kinds, NEW owner \in Owners, CreateRun(k, owner)
      PROVE  RunsInv' /\ Kept /\ UNCHANGED <<insights, ask, shown>>
  <2> DEFINE r == [status |-> "queued", owner |-> owner, data |-> 0]
  <2>1. /\ linked' = [linked EXCEPT ![k] = Append(linked[k], r)] /\ r \in Run
        /\ UNCHANGED <<merged, saves, insights, ask, shown>> /\ k \in AllKinds
    BY <1>3 DEF CreateRun, Run, RunStatus
  <2>2. Append(linked[k], r) \in Seq(Run)
    BY <1>1, <2>1
  <2>3. linked' \in [AllKinds -> Seq(Run)] /\ Stored' = Stored
    BY <1>1, <2>1, <2>2 DEF Stored
  <2>4. CASE k # "journey"
    <3>1. Journeys' = Journeys
      BY <1>1, <2>1, <2>4 DEF Journeys
    <3>2. QED  BY <1>1, <2>1, <2>3, <3>1 DEF RunsInv, Kept, Ready
  <2>5. CASE k = "journey"
    <3>1. Journeys' = Append(Journeys, r)
      BY <1>1, <2>1, <2>5 DEF Journeys
    <3>2. /\ Len(Journeys') = n + 1 /\ DOMAIN Journeys' = 1..(n + 1) /\ Journeys'[n + 1] = r
          /\ \A j \in 1..n : Journeys'[j] = Journeys[j]
      BY <1>1, <2>1, <3>1
    <3>3. \A j \in 1..n : Journeys[j].status \notin InProgress
      BY <1>1, <1>3, <2>5 DEF CreateRun, Journeys
    <3>4. r.data = 0 /\ ~Ready(r)
      BY DEF Ready
    <3>5. ASSUME NEW j \in 1..(n + 1)
          PROVE  /\ Journeys'[j].data <= Stored
                 /\ Journeys'[j].status \in InProgress => j = n + 1
                 /\ Ready(Journeys'[j]) => Journeys'[j].data # 0
                 /\ j = n + 1 /\ Journeys'[j].data # 0 => Journeys'[j].data = Stored
      <4>1. CASE j = n + 1
        BY <1>1, <3>2, <3>4, <4>1
      <4>2. CASE j # n + 1
        <5>1. j \in 1..n
          BY <1>1, <4>2
        <5>2. QED  BY <1>1, <3>2, <3>3, <4>2, <5>1 DEF RunsInv
      <4>3. QED  BY <4>1, <4>2
    <3>6. RunsInv'
      BY <1>1, <2>1, <2>3, <3>2, <3>5 DEF RunsInv, Ready
    <3>7. Kept
      BY <1>1, <2>3, <3>2 DEF Kept
    <3>8. QED  BY <2>1, <3>6, <3>7
  <2>6. QED  BY <2>4, <2>5
<1>4. ASSUME NEW k \in Kinds, NEW i \in DOMAIN linked[k], ResetRun(k, i) \/ StartRun(k, i) \/ CloseRun(k, i)
      PROVE  RunsInv' /\ Kept /\ UNCHANGED <<insights, ask, shown>>
  <2>1. k \in AllKinds /\ linked[k] \in Seq(Run) /\ linked[k][i] \in Run /\ UNCHANGED <<merged, saves, insights, ask, shown>>
    BY <1>1, <1>4 DEF ResetRun, StartRun, CloseRun
  <2>2. PICK s \in RunStatus :
          /\ linked' = [linked EXCEPT ![k][i].status = s]
          /\ s \in InProgress => linked[k][i].status \in InProgress \/ (k = "journey" => i = Len(linked[k]))
          /\ k = "journey" => linked[k][i].status \notin {"completed", "partial"}
          /\ s \in {"completed", "partial"} => linked[k][i].data # 0
    BY <1>4 DEF ResetRun, StartRun, CloseRun, RunStatus, InProgress, ResetStatuses
  <2> DEFINE r == [linked[k][i] EXCEPT !.status = s]
  <2>3. r \in Run /\ r.status = s /\ r.data = linked[k][i].data
    BY <2>1 DEF Run
  <2>4. linked' = [linked EXCEPT ![k][i] = r] /\ Stored' = Stored
    BY <2>1, <2>2 DEF Stored
  <2> HIDE DEF r
  <2>5. /\ linked' \in [AllKinds -> Seq(Run)]
        /\ k # "journey" => Journeys' = Journeys
        /\ k = "journey" => /\ i \in 1..n /\ Len(Journeys') = n
                            /\ \A j \in 1..n : Journeys'[j] = IF j = i THEN r ELSE Journeys[j]
    BY <2>1, <2>3, <2>4, RunChanges
  <2>6. CASE k # "journey"
    BY <1>1, <2>1, <2>4, <2>5, <2>6 DEF RunsInv, Kept, Ready
  <2>7. CASE k = "journey"
    <3>1. Journeys[i] = linked[k][i] /\ Journeys' \in Seq(Run) /\ DOMAIN Journeys' = 1..n
      BY <1>1, <2>5, <2>7 DEF Journeys
    <3>2. ASSUME NEW j \in 1..n
          PROVE  /\ Journeys'[j].data <= Stored
                 /\ Journeys'[j].status \in InProgress => j = n
                 /\ Ready(Journeys'[j]) => Journeys'[j].data # 0
                 /\ j = n /\ Journeys'[j].data # 0 => Journeys'[j].data = Stored
                 /\ Ready(Journeys[j]) => j # i
      BY <1>1, <2>2, <2>3, <2>5, <2>7, <3>1 DEF RunsInv, Ready, Journeys
    <3>3. RunsInv'
      BY <1>1, <2>1, <2>4, <2>5, <2>7, <3>1, <3>2 DEF RunsInv
    <3>4. Kept
      BY <1>1, <2>4, <2>5, <2>7, <3>1, <3>2 DEF Kept
    <3>5. QED  BY <2>1, <3>3, <3>4
  <2>8. QED  BY <2>6, <2>7
<1>5. ASSUME NEW k \in Kinds, NEW i \in DOMAIN linked[k], SaveRun(k, i)
      PROVE  RunsInv' /\ Kept /\ UNCHANGED <<insights, ask, shown>>
  <2> DEFINE r == [linked[k][i] EXCEPT !.data = saves + 1]
  <2>1. /\ k \in AllKinds /\ linked[k] \in Seq(Run) /\ linked[k][i] \in Run /\ linked[k][i].status = "running"
        /\ saves' = saves + 1 /\ merged' = [merged EXCEPT ![k] = saves + 1] /\ UNCHANGED <<insights, ask, shown>>
        /\ linked' = [linked EXCEPT ![k][i] = r]
    BY <1>1, <1>5 DEF SaveRun
  <2>2. r \in Run /\ r.status = "running" /\ r.data = saves + 1
    <3>1. saves + 1 \in Nat /\ linked[k][i] \in [status : RunStatus, owner : Owners, data : Nat]
      BY <1>1, <2>1 DEF Run
    <3>2. r \in [status : RunStatus, owner : Owners, data : Nat] /\ r.status = linked[k][i].status /\ r.data = saves + 1
      BY <3>1
    <3>3. QED  BY <2>1, <3>2 DEF Run
  <2>3. merged' \in [AllKinds -> Nat] /\ saves' \in Nat /\ Stored' = IF k = "journey" THEN saves + 1 ELSE Stored
    BY <1>1, <2>1 DEF Stored
  <2> HIDE DEF r
  <2>4. /\ linked' \in [AllKinds -> Seq(Run)]
        /\ k # "journey" => Journeys' = Journeys
        /\ k = "journey" => /\ i \in 1..n /\ Len(Journeys') = n
                            /\ \A j \in 1..n : Journeys'[j] = IF j = i THEN r ELSE Journeys[j]
    BY <2>1, <2>2, RunChanges
  <2>5. Stored <= saves
    BY DEF RunsInv
  <2>6. CASE k # "journey"
    <3>1. Stored' <= saves' /\ Stored' = Stored
      BY <1>1, <2>1, <2>3, <2>5, <2>6
    <3>2. RunsInv'
      BY <1>1, <2>3, <2>4, <2>6, <3>1 DEF RunsInv, Ready
    <3>3. Kept
      BY <1>1, <2>4, <2>6, <3>1 DEF Kept
    <3>4. QED  BY <2>1, <3>2, <3>3
  <2>7. CASE k = "journey"
    <3>1. Journeys[i] = linked[k][i] /\ Journeys' \in Seq(Run) /\ DOMAIN Journeys' = 1..n
      BY <1>1, <2>4, <2>7 DEF Journeys
    <3>2. i = n /\ ~Ready(Journeys[i]) /\ ~Ready(r)
      BY <1>1, <2>1, <2>2, <2>4, <2>7, <3>1 DEF RunsInv, Ready, InProgress
    <3>3. ASSUME NEW j \in 1..n
          PROVE  /\ Journeys'[j].data <= saves + 1
                 /\ Journeys'[j].status \in InProgress => j = n
                 /\ Ready(Journeys'[j]) => Journeys'[j].data # 0
                 /\ j = n /\ Journeys'[j].data # 0 => Journeys'[j].data = saves + 1
                 /\ Ready(Journeys[j]) => j # i
      <4>1. CASE j = i
        BY <1>1, <2>2, <2>4, <2>7, <3>2, <4>1
      <4>2. CASE j # i
        <5>1. Journeys'[j] = Journeys[j] /\ Journeys[j].data <= Stored /\ Journeys[j].data \in Nat
          BY <1>1, <2>4, <2>7, <4>2 DEF RunsInv, Run
        <5>2. Journeys[j].data <= saves + 1
          BY <1>1, <2>5, <5>1
        <5>3. QED  BY <1>1, <3>2, <4>2, <5>1, <5>2 DEF RunsInv
      <4>3. QED  BY <4>1, <4>2
    <3>4. RunsInv'
      BY <1>1, <2>1, <2>3, <2>4, <2>7, <3>1, <3>3 DEF RunsInv
    <3>5. Stored <= saves + 1
      BY <1>1, <2>5
    <3>6. Kept
      BY <1>1, <2>3, <2>4, <2>7, <3>1, <3>3, <3>5 DEF Kept
    <3>7. QED  BY <2>1, <3>4, <3>6
  <2>8. QED  BY <2>6, <2>7
<1>6. QED  BY <1>2, <1>3, <1>4, <1>5 DEF RunStep

-----------------------------------------------------------------------------
(* The readers.                                                            *)

\* What holds of the readers and of the cache goes on holding while nothing that was stored is lost.
LEMMA Carried ==
  ASSUME NEW runs, NEW stored \in Nat, NEW runsNow, NEW storedNow \in Nat, stored <= storedNow,
         \A v \in DOMAIN runs : Ready(runs[v]) => v \in DOMAIN runsNow /\ runsNow[v] = runs[v]
  PROVE  /\ \A key, insight : CachedOK(key, insight, runs) => CachedOK(key, insight, runsNow)
         /\ \A a : AskOK(a, runs, stored) => AskOK(a, runsNow, storedNow)
<1>1. \A v : Versioned(v, runs) => Versioned(v, runsNow) /\ (v # 0 => runsNow[v] = runs[v])
  BY DEF Versioned
<1>2. \A key, insight : CachedOK(key, insight, runs) => CachedOK(key, insight, runsNow)
  BY <1>1 DEF CachedOK
<1>3. \A a : WaitsFor(a, runs) => WaitsFor(a, runsNow) /\ (MadeOf(a, runs) => MadeOf(a, runsNow))
  BY <1>1 DEF WaitsFor, MadeOf
<1>4. ASSUME NEW a, AskOK(a, runs, stored)
      PROVE  AskOK(a, runsNow, storedNow)
  BY <1>3, <1>4 DEF AskOK
<1>5. QED  BY <1>2, <1>4

LEMMA RunStepKeeps ==
  ASSUME ReadInv, Kinds \subseteq AllKinds, RunStep
  PROVE  ReadInv'
<1>1. RunsInv' /\ Kept /\ UNCHANGED <<insights, ask, shown>>
  BY RunsGoOn DEF ReadInv
<1>2. Stored \in Nat /\ Stored' \in Nat
  BY <1>1 DEF ReadInv, RunsInv, Stored, AllKinds
<1>3. /\ \A key, insight : CachedOK(key, insight, Journeys) => CachedOK(key, insight, Journeys')
      /\ \A a : AskOK(a, Journeys, Stored) => AskOK(a, Journeys', Stored')
  BY <1>1, <1>2, Carried DEF Kept
<1>4. InsightsInv'
  BY <1>1, <1>3 DEF ReadInv, InsightsInv
<1>5. ReadersInv'
  BY <1>1, <1>3 DEF ReadInv, ReadersInv
<1>6. QED  BY <1>1, <1>4, <1>5 DEF ReadInv

\* A step of one reader has to look after that reader alone, and after what it adds to the cache.
LEMMA OneReader ==
  ASSUME ReadInv, NEW c \in Readers, NEW a, NEW b,
         ask' = [ask EXCEPT ![c] = a], shown' = [shown EXCEPT ![c] = b],
         AskOK(a, Journeys, Stored), AnswerOK(b), UNCHANGED storeVars, InsightsInv'
  PROVE  ReadInv'
<1>1. UNCHANGED <<Journeys, Stored>> /\ RunsInv'
  BY DEF ReadInv, RunsInv, storeVars, Journeys, Stored
<1>2. ReadersInv'
  BY <1>1 DEF ReadInv, ReadersInv
<1>3. QED  BY <1>1, <1>2 DEF ReadInv

LEMMA SendKeeps ==
  ASSUME ReadInv, RequestsOK, NEW c \in Readers, NEW request \in Requests, Send(c, request)
  PROVE  ReadInv'
<1> DEFINE a == [at |-> "load", request |-> request, version |-> 0, run |-> 0, due |-> 0]
<1>1. /\ ask' = [ask EXCEPT ![c] = a] /\ shown' = [shown EXCEPT ![c] = shown[c]]
      /\ UNCHANGED <<storeVars, insights>>
  BY DEF Send, ReadInv, ReadersInv
<1>2. RequestOf(request) /\ (request.what = "insight" => KindOf(request.view) \in {"journey", "static"})
  BY DEF RequestsOK, RequestOf
<1>3. AskOK(a, Journeys, Stored)
  BY <1>2 DEF AskOK, AskKeys
<1>4. AnswerOK(shown[c])
  BY DEF ReadInv, ReadersInv
<1>5. InsightsInv'
  BY <1>1 DEF ReadInv, InsightsInv, storeVars, Journeys
<1>6. QED  BY <1>1, <1>3, <1>4, <1>5, OneReader

\* An answer ends what was asked; one that says no more than a status, or an insight that keeps up, is in order.
LEMMA AnswerKeeps ==
  ASSUME ReadInv, NEW c \in Readers, NEW b, Answer(c, b), AnswerOK(b), UNCHANGED storeVars, InsightsInv'
  PROVE  ReadInv'
<1>1. ask' = [ask EXCEPT ![c] = NoAsk] /\ shown' = [shown EXCEPT ![c] = b]
  BY DEF Answer
<1>2. AskOK(NoAsk, Journeys, Stored)
  BY DEF AskOK
<1>3. QED  BY <1>1, <1>2, OneReader

LEMMA AnswersInOrder ==
  /\ \A s : AnswerOK([status |-> s])
  /\ \A insight, due : insight >= due => AnswerOK([status |-> 200, insight |-> insight, due |-> due])
  /\ \A request, data, result :
       /\ RequestOf(request) /\ request.what # "insight"
       /\ request.view \in JOURNEY_VIEWS => data # 0
       => AnswerOK([status |-> 200, result |-> result, data |-> data, request |-> request])
  BY DEF AnswerOK

LEMMA CacheStays ==
  ASSUME ReadInv, UNCHANGED <<storeVars, insights>>
  PROVE  InsightsInv'
  BY DEF ReadInv, InsightsInv, storeVars, Journeys

\* A reader goes on with what it asked for.
LEMMA GoOnKeeps ==
  ASSUME ReadInv, NEW c \in Readers, NEW a, ask' = [ask EXCEPT ![c] = a], AskOK(a, Journeys, Stored),
         UNCHANGED <<shown, storeVars, insights>>
  PROVE  ReadInv'
<1>1. shown' = [shown EXCEPT ![c] = shown[c]] /\ AnswerOK(shown[c])
  BY DEF ReadInv, ReadersInv
<1>2. QED  BY <1>1, CacheStays, OneReader

LEMMA AskAt ==
  ASSUME ReadInv, NEW c \in Readers, ask[c].at # "idle"
  PROVE  /\ DOMAIN ask[c] = AskKeys /\ RequestOf(ask[c].request)
         /\ ask[c].at \in {"version", "lookup", "summarize"} => ask[c].request.what = "insight"
         /\ ask[c].request.what = "insight" => KindOf(ask[c].request.view) \in {"journey", "static"}
         /\ ask[c].at \in {"lookup", "gate", "rows", "summarize"} /\ ask[c].request.what = "insight" =>
              WaitsFor(ask[c], Journeys)
         /\ ask[c].at = "summarize" => MadeOf(ask[c], Journeys)
         /\ ask[c].at = "rows" /\ ask[c].request.view \in JOURNEY_VIEWS => Stored # 0
<1>1. AskOK(ask[c], Journeys, Stored) /\ ask[c] # NoAsk
  BY DEF ReadInv, ReadersInv, NoAsk
<1>2. QED  BY <1>1 DEF AskOK

LEMMA LoadAnalysisKeeps ==
  ASSUME ReadInv, NEW c \in Readers, LoadAnalysis(c)
  PROVE  ReadInv'
<1>1. ask[c].at = "load" /\ UNCHANGED <<storeVars, insights>>
  BY DEF LoadAnalysis
<1>2. CASE \E s \in {404, 409} : Answer(c, [status |-> s])
  BY <1>1, <1>2, AnswersInOrder, AnswerKeeps, CacheStays
<1>3. CASE Goto(c, IF ask[c].request.what = "insight" THEN "version" ELSE "gate")
  <2> DEFINE next == IF ask[c].request.what = "insight" THEN "version" ELSE "gate"
             a    == [ask[c] EXCEPT !.at = next]
  <2>1. ask' = [ask EXCEPT ![c] = a] /\ UNCHANGED shown
    BY <1>3 DEF Goto
  <2>2. DOMAIN a = AskKeys /\ a.at = next /\ a.request = ask[c].request
    BY <1>1, AskAt DEF AskKeys
  <2>3. AskOK(a, Journeys, Stored)
    BY <1>1, <2>2, AskAt DEF AskOK
  <2>4. QED  BY <1>1, <2>1, <2>3, GoOnKeeps
<1>4. QED  BY <1>2, <1>3 DEF LoadAnalysis

LEMMA ResolveVersionKeeps ==
  ASSUME ReadInv, NEW c \in Readers, ResolveVersion(c)
  PROVE  ReadInv'
<1> DEFINE view    == ask[c].request.view
           version == ResolveViewDataVersion(view, Actor)
           due     == DataShown(view)
           a       == [ask[c] EXCEPT !.at = "lookup", !.due = due, !.version = version]
<1>1. ask[c].at = "version" /\ ask' = [ask EXCEPT ![c] = a] /\ UNCHANGED <<shown, storeVars, insights>>
  BY DEF ResolveVersion
<1>2. ask[c].request.what = "insight" /\ KindOf(view) \in {"journey", "static"}
  BY <1>1, AskAt
<1>3. DOMAIN a = AskKeys /\ a.at = "lookup" /\ a.due = due /\ a.version = version /\ a.request = ask[c].request
  BY <1>1, AskAt DEF AskKeys
<1>4. ASSUME view \in JOURNEY_VIEWS
      PROVE  WaitsFor(a, Journeys)
  <2>1. view # "custom" /\ view \notin AI_SEARCH_VIEW_NAMES
    BY <1>4, JourneyKind
  <2>2. due = IF RunFeature(LatestJourneyStatus) = "ready" THEN Stored ELSE 0
    BY <1>4, <2>1 DEF DataShown, Stored
  <2>3. /\ version \in Nat /\ Versioned(version, Journeys)
        /\ Len(Journeys) # 0 /\ Ready(Journeys[Len(Journeys)]) => version = Len(Journeys)
        /\ RunFeature(LatestJourneyStatus) = "ready" <=> Len(Journeys) # 0 /\ Ready(Journeys[Len(Journeys)])
    BY <1>4, NewestJourney DEF ReadInv
  <2>4. Stored \in Nat /\ Journeys \in Seq(Run)
    BY DEF ReadInv, RunsInv, Stored, Journeys, AllKinds
  <2>5. CASE RunFeature(LatestJourneyStatus) = "ready"
    <3>1. version = Len(Journeys) /\ version # 0 /\ version \in DOMAIN Journeys /\ Ready(Journeys[version])
      BY <2>3, <2>4, <2>5
    <3>2. Journeys[version].data = Stored
      BY <3>1 DEF ReadInv, RunsInv
    <3>3. due \in Nat /\ due <= Journeys[version].data
      BY <2>2, <2>4, <2>5, <3>2
    <3>4. WaitsFor(a, Journeys)
      BY <1>3, <1>4, <2>3, <3>1, <3>3 DEF WaitsFor
    <3>5. QED  BY <3>4
  <2>6. CASE RunFeature(LatestJourneyStatus) # "ready"
    <3>1. due = 0
      BY <2>2, <2>6
    <3>2. version # 0 => Journeys[version].data \in Nat
      <4>1. version # 0 => version \in DOMAIN Journeys
        BY <2>3 DEF Versioned
      <4>2. (\A r \in Run : r.data \in Nat) /\ \A i \in DOMAIN Journeys : Journeys[i] \in Run
        <5>1. \A r \in Run : r.data \in Nat
          BY DEF Run
        <5>2. QED  BY <2>4, <5>1
      <4>3. QED  BY <4>1, <4>2
    <3>3. WaitsFor(a, Journeys)
      BY <1>3, <1>4, <2>3, <3>1, <3>2 DEF WaitsFor
    <3>4. QED  BY <3>3
  <2>7. QED  BY <2>5, <2>6
<1>5. ASSUME view \notin JOURNEY_VIEWS
      PROVE  WaitsFor(a, Journeys)
  <2>1. view # "custom" /\ view \notin AI_SEARCH_VIEW_NAMES
    BY <1>2, <1>5, JourneyKind
  <2>2. due = 0
    BY <1>5, <2>1 DEF DataShown
  <2>3. QED  BY <1>3, <1>5, <2>2 DEF WaitsFor
<1>6. WaitsFor(a, Journeys)
  BY <1>4, <1>5
<1>7. AskOK(a, Journeys, Stored)
  BY <1>1, <1>2, <1>3, <1>6, AskAt DEF AskOK
<1>8. QED  BY <1>1, <1>7, GoOnKeeps

LEMMA DataIsNat ==
  ASSUME ReadInv
  PROVE  /\ Stored \in Nat
         /\ \A i \in DOMAIN Journeys : Journeys[i].data \in Nat /\ Journeys[i].data <= Stored
<1>1. Journeys \in Seq(Run) /\ Stored \in Nat
  BY DEF ReadInv, RunsInv, Journeys, Stored, AllKinds
<1>2. \A r \in Run : r.data \in Nat
  BY DEF Run
<1>3. \A i \in DOMAIN Journeys : Journeys[i].data \in Nat
  BY <1>1, <1>2
<1>4. QED  BY <1>1, <1>3 DEF ReadInv, RunsInv

LEMMA LookupKeeps ==
  ASSUME ReadInv, NEW c \in Readers, Lookup(c)
  PROVE  ReadInv'
<1> DEFINE key == CacheKey(ask[c].request, ask[c].version)
           a   == [ask[c] EXCEPT !.at = "gate"]
<1>1. ask[c].at = "lookup" /\ UNCHANGED <<storeVars, insights>>
  BY DEF Lookup
<1>2. WaitsFor(ask[c], Journeys)
  BY <1>1, AskAt
<1>3. CASE key \in DOMAIN insights /\ Answer(c, [status |-> 200, insight |-> insights[key], due |-> ask[c].due])
  <2>1. CachedOK(key, insights[key], Journeys)
    BY <1>3 DEF ReadInv, InsightsInv
  <2>2. key[1] = ask[c].request.view /\ key[3] = ask[c].version
    BY DEF CacheKey
  <2>3. insights[key] >= ask[c].due
    <3>1. CASE ask[c].request.view \in JOURNEY_VIEWS /\ ask[c].version # 0
      <4>1. ask[c].due <= Journeys[ask[c].version].data /\ insights[key] >= Journeys[ask[c].version].data
        BY <1>2, <2>1, <2>2, <3>1 DEF WaitsFor, CachedOK
      <4>2. Journeys[ask[c].version].data \in Nat /\ insights[key] \in Nat /\ ask[c].due \in Nat
        BY <1>2, <2>1, <3>1, DataIsNat DEF WaitsFor, CachedOK, Versioned
      <4>3. QED  BY <4>1, <4>2
    <3>2. CASE ~(ask[c].request.view \in JOURNEY_VIEWS /\ ask[c].version # 0)
      BY <1>2, <2>1, <3>2 DEF WaitsFor, CachedOK
    <3>3. QED  BY <3>1, <3>2
  <2>4. QED  BY <1>1, <1>3, <2>3, AnswersInOrder, AnswerKeeps, CacheStays
<1>4. CASE Goto(c, "gate")
  <2>1. ask' = [ask EXCEPT ![c] = a] /\ UNCHANGED shown
    BY <1>4 DEF Goto
  <2>2. /\ DOMAIN a = AskKeys /\ a.at = "gate" /\ a.request = ask[c].request
        /\ a.version = ask[c].version /\ a.due = ask[c].due
    BY <1>1, AskAt DEF AskKeys
  <2>3. WaitsFor(a, Journeys)
    BY <1>2, <2>2 DEF WaitsFor
  <2>4. AskOK(a, Journeys, Stored)
    BY <1>1, <2>2, <2>3, AskAt DEF AskOK
  <2>5. QED  BY <1>1, <2>1, <2>4, GoOnKeeps
<1>5. QED  BY <1>3, <1>4 DEF Lookup

\* A view of the journey that passes the gate is joined with what the newest run stored.
LEMMA GatePassed ==
  ASSUME ReadInv, NEW view \in JOURNEY_VIEWS, Executable(view, ComputeFeatures(LatestJourneyStatus, "none", "none"))
  PROVE  Stored # 0
<1>1. ViewOf(view).requiresFeature = "journey"
  BY JourneyKind
<1>2. RunFeature(LatestJourneyStatus) = "ready"
  BY <1>1 DEF Executable, ComputeFeatures, JourneyFeatureStatus
<1>3. Len(Journeys) # 0 /\ Ready(Journeys[Len(Journeys)])
  BY <1>2, NewestJourney DEF ReadInv
<1>4. Len(Journeys) \in DOMAIN Journeys
  <2>1. Journeys \in Seq(Run)
    BY DEF ReadInv, RunsInv, Journeys, AllKinds
  <2>2. QED  BY <1>3, <2>1
<1>5. QED  BY <1>3, <1>4 DEF ReadInv, RunsInv

LEMMA GateKeeps ==
  ASSUME ReadInv, NEW c \in Readers, Gate(c)
  PROVE  ReadInv'
<1> DEFINE view == ask[c].request.view
           run  == IF KindOf(view) = "ai" THEN FindLatestLinkedRun(Actor) ELSE 0
           ok   == CASE KindOf(view) = "custom" -> QueryCustomView(c)
                     [] KindOf(view) = "ai"     -> QueryAiSearchView(c, run)
                     [] KindOf(view) = "journey" -> Executable(view, ComputeFeatures(LatestJourneyStatus, "none", "none"))
                     [] OTHER                    -> Executable(view, ComputeFeatures("none", "none", "none"))
           a    == [ask[c] EXCEPT !.at = "rows", !.run = run]
<1>1. ask[c].at = "gate" /\ UNCHANGED <<storeVars, insights>>
  BY DEF Gate
<1>2. CASE \E s \in {400, 409} : Answer(c, [status |-> s])
  BY <1>1, <1>2, AnswersInOrder, AnswerKeeps, CacheStays
<1>3. CASE ok /\ ask' = [ask EXCEPT ![c] = a] /\ UNCHANGED shown
  <2>1. ASSUME view \in JOURNEY_VIEWS
        PROVE  Stored # 0
    <3>1. KindOf(view) = "journey"
      BY <2>1, JourneyKind
    <3>2. Executable(view, ComputeFeatures(LatestJourneyStatus, "none", "none"))
      BY <1>3, <3>1
    <3>3. QED  BY <2>1, <3>2, GatePassed
  <2>2. /\ DOMAIN a = AskKeys /\ a.at = "rows" /\ a.request = ask[c].request
        /\ a.version = ask[c].version /\ a.due = ask[c].due
    BY <1>1, AskAt DEF AskKeys
  <2>3. a.request.what = "insight" => WaitsFor(a, Journeys)
    BY <1>1, <2>2, AskAt DEF WaitsFor
  <2>4. AskOK(a, Journeys, Stored)
    BY <1>1, <2>1, <2>2, <2>3, AskAt DEF AskOK
  <2>5. QED  BY <1>1, <1>3, <2>4, GoOnKeeps
<1>4. QED  BY <1>2, <1>3 DEF Gate

\* What a view answers is a result or a refusal that says no more than its status.
LEMMA AnswerShape ==
  ASSUME NEW request, NEW rows
  PROVE  AnswerTo(request, rows).status = 200 \/ AnswerTo(request, rows) = [status |-> 400]
<1>1. ListKeywords(request).status = 200 \/ ListKeywords(request) = [status |-> 400]
  BY DEF ListKeywords
<1>2. \A view : QueryWithView(rows, request, view, Limits).status = 200
                \/ QueryWithView(rows, request, view, Limits) = [status |-> 400]
  BY DEF QueryWithView
<1>3. QED  BY <1>1, <1>2 DEF AnswerTo

LEMMA QueryKeeps ==
  ASSUME ReadInv, NEW c \in Readers, Query(c)
  PROVE  ReadInv'
<1> DEFINE read == DataRead(c)
           view == ask[c].request.view
           a    == [ask[c] EXCEPT !.at = "summarize", !.run = read]
<1>1. ask[c].at = "rows" /\ UNCHANGED <<storeVars, insights>>
  BY DEF Query
<1>2. PICK answer : /\ answer.status = 200 \/ answer = [status |-> 400]
                    /\ IF ask[c].request.what = "insight" /\ answer.status = 200
                       THEN ask' = [ask EXCEPT ![c] = a] /\ UNCHANGED shown
                       ELSE Answer(c, IF answer.status # 200 THEN answer
                                      ELSE [status |-> 200, result |-> answer.result, data |-> read,
                                            request |-> ask[c].request])
  BY AnswerShape DEF Query
<1>3. view \in JOURNEY_VIEWS => read = Stored /\ Stored # 0
  BY <1>1, AskAt, JourneyKind DEF DataRead, Stored
<1>4. CASE ask[c].request.what = "insight" /\ answer.status = 200
  <2>1. WaitsFor(ask[c], Journeys) /\ KindOf(view) \in {"journey", "static"}
    BY <1>1, <1>4, AskAt
  <2>2. /\ DOMAIN a = AskKeys /\ a.at = "summarize" /\ a.request = ask[c].request
        /\ a.version = ask[c].version /\ a.due = ask[c].due /\ a.run = read
    BY <1>1, AskAt DEF AskKeys
  <2>3. read \in Nat
    <3>1. KindOf(view) = "static" => read = 0
      BY DEF DataRead
    <3>2. Stored \in Nat
      BY DEF ReadInv, RunsInv, Stored, AllKinds
    <3>3. QED  BY <1>3, <2>1, <3>1, <3>2, JourneyKind
  <2>4. view \in JOURNEY_VIEWS /\ ask[c].version # 0 => read >= Journeys[ask[c].version].data
    BY <1>3, <2>1, DataIsNat DEF WaitsFor, Versioned
  <2>5. WaitsFor(a, Journeys) /\ MadeOf(a, Journeys)
    BY <2>1, <2>2, <2>3, <2>4 DEF WaitsFor, MadeOf
  <2>6. AskOK(a, Journeys, Stored)
    BY <1>1, <1>4, <2>2, <2>5, AskAt DEF AskOK
  <2>7. QED  BY <1>1, <1>2, <1>4, <2>6, GoOnKeeps
<1>5. CASE ask[c].request.what # "insight" /\ answer.status = 200
  <2>1. RequestOf(ask[c].request)
    BY <1>1, AskAt
  <2>2. Answer(c, [status |-> 200, result |-> answer.result, data |-> read, request |-> ask[c].request])
    BY <1>2, <1>5
  <2>3. AnswerOK([status |-> 200, result |-> answer.result, data |-> read, request |-> ask[c].request])
    BY <1>3, <1>5, <2>1, AnswersInOrder
  <2>4. QED  BY <1>1, <2>2, <2>3, AnswerKeeps, CacheStays
<1>6. CASE answer.status # 200
  <2>1. Answer(c, [status |-> 400])
    BY <1>2, <1>6
  <2>2. QED  BY <1>1, <2>1, AnswersInOrder, AnswerKeeps, CacheStays
<1>7. QED  BY <1>4, <1>5, <1>6

LEMMA SummarizeKeeps ==
  ASSUME ReadInv, NEW c \in Readers, Summarize(c)
  PROVE  ReadInv'
<1> DEFINE key == CacheKey(ask[c].request, ask[c].version)
           run == ask[c].run
<1>1. ask[c].at = "summarize" /\ UNCHANGED storeVars
  BY DEF Summarize
<1>2. WaitsFor(ask[c], Journeys) /\ MadeOf(ask[c], Journeys)
  BY <1>1, AskAt
<1>3. CASE Answer(c, [status |-> 200, insight |-> run, due |-> ask[c].due]) /\ insights' = Cached(key, run)
  <2>1. key[1] = ask[c].request.view /\ key[3] = ask[c].version
    BY DEF CacheKey
  <2>2. CachedOK(key, run, Journeys)
    BY <1>2, <2>1 DEF CachedOK, WaitsFor, MadeOf
  <2>3. UNCHANGED Journeys
    BY <1>1 DEF Journeys, storeVars
  <2>4. \A k \in DOMAIN insights : CachedOK(k, insights[k], Journeys)
    BY DEF ReadInv, InsightsInv
  <2>5. \A k \in DOMAIN insights' : CachedOK(k, insights'[k], Journeys)
    BY <1>3, <2>2, <2>4 DEF Cached
  <2>6. InsightsInv'
    BY <2>3, <2>5 DEF InsightsInv
  <2>7. run >= ask[c].due
    <3>1. CASE ask[c].request.view \in JOURNEY_VIEWS /\ ask[c].version # 0
      BY <1>2, <3>1, DataIsNat DEF WaitsFor, MadeOf, Versioned
    <3>2. CASE ~(ask[c].request.view \in JOURNEY_VIEWS /\ ask[c].version # 0)
      BY <1>2, <3>2 DEF WaitsFor, MadeOf
    <3>3. QED  BY <3>1, <3>2
  <2>8. QED  BY <1>1, <1>3, <2>6, <2>7, AnswersInOrder, AnswerKeeps
<1>4. CASE Answer(c, [status |-> 502]) /\ UNCHANGED insights
  BY <1>1, <1>4, AnswersInOrder, AnswerKeeps, CacheStays
<1>5. QED  BY <1>3, <1>4 DEF Summarize

LEMMA NextPageKeeps ==
  ASSUME ReadInv, NEW c \in Readers, NextPage(c)
  PROVE  ReadInv'
<1>1. PICK more :
        /\ ask' = [ask EXCEPT ![c] = [at |-> "load", version |-> 0, run |-> 0, due |-> 0,
                                      request |-> [shown[c].request EXCEPT !.pagination = more]]]
        /\ shown' = [shown EXCEPT ![c] = NoAnswer] /\ UNCHANGED <<storeVars, insights>>
        /\ "request" \in DOMAIN shown[c]
  BY DEF NextPage, ReadInv, ReadersInv, AnswerOK
<1> DEFINE request == [shown[c].request EXCEPT !.pagination = more]
           a       == [at |-> "load", version |-> 0, run |-> 0, due |-> 0, request |-> request]
<1>2. RequestOf(shown[c].request) /\ shown[c].request.what # "insight"
  BY <1>1 DEF ReadInv, ReadersInv, AnswerOK
<1>3. RequestOf(request) /\ request.what # "insight"
  BY <1>2 DEF RequestOf
<1>4. AskOK(a, Journeys, Stored)
  BY <1>3 DEF AskOK, AskKeys
<1>5. AnswerOK(NoAnswer)
  BY AnswersInOrder DEF NoAnswer
<1>6. QED  BY <1>1, <1>4, <1>5, CacheStays, OneReader

LEMMA LeaveKeeps ==
  ASSUME ReadInv, NEW c \in Readers, Leave(c)
  PROVE  ReadInv'
<1>1. /\ ask' = [ask EXCEPT ![c] = ask[c]] /\ shown' = [shown EXCEPT ![c] = NoAnswer]
      /\ UNCHANGED <<storeVars, insights>> /\ AskOK(ask[c], Journeys, Stored)
  BY DEF Leave, ReadInv, ReadersInv
<1>2. AnswerOK(NoAnswer)
  BY AnswersInOrder DEF NoAnswer
<1>3. QED  BY <1>1, <1>2, CacheStays, OneReader

-----------------------------------------------------------------------------
(* The theorems.                                                           *)

LEMMA InitReadInv == ASSUME Init PROVE ReadInv
<1>1. RunsInv
  BY InitRuns
<1>2. InsightsInv
  BY DEF Init, InsightsInv
<1>3. AskOK(NoAsk, Journeys, Stored) /\ AnswerOK(NoAnswer)
  BY AnswersInOrder DEF AskOK, NoAnswer
<1>4. ReadersInv
  BY <1>3 DEF Init, ReadersInv
<1>5. QED  BY <1>1, <1>2, <1>4 DEF ReadInv

LEMMA ReadInvInductive ==
  ASSUME RequestsOK, Kinds \subseteq AllKinds, ReadInv, [Next]_readVars
  PROVE  ReadInv'
<1>1. CASE RunStep
  BY <1>1, RunStepKeeps
<1>2. ASSUME NEW c \in Readers, NEW request \in Requests, Send(c, request)
      PROVE  ReadInv'
  BY <1>2, SendKeeps
<1>3. ASSUME NEW c \in Readers,
             LoadAnalysis(c) \/ ResolveVersion(c) \/ Lookup(c) \/ Gate(c) \/ Query(c) \/ Summarize(c) \/ NextPage(c) \/ Leave(c)
      PROVE  ReadInv'
  BY <1>3, LoadAnalysisKeeps, ResolveVersionKeeps, LookupKeeps, GateKeeps, QueryKeeps, SummarizeKeeps, NextPageKeeps, LeaveKeeps
<1>4. CASE UNCHANGED readVars
  BY <1>4 DEF readVars, ReadInv, RunsInv, InsightsInv, ReadersInv, Journeys, Stored
<1>5. QED  BY <1>1, <1>2, <1>3, <1>4 DEF Next, RunStep

LEMMA ReadInvShows ==
  ASSUME ReadInv
  PROVE  InsightKeepsUp /\ GatedAnswerIsLabelled
  BY DEF ReadInv, ReadersInv, AnswerOK, InsightKeepsUp, GatedAnswerIsLabelled

LEMMA ReadInvHolds ==
  ASSUME RequestsOK, Kinds \subseteq AllKinds
  PROVE  Spec => []ReadInv
<1>1. Init => ReadInv
  BY InitReadInv
<1>2. ReadInv /\ [Next]_readVars => ReadInv'
  BY ReadInvInductive
<1>3. QED  BY <1>1, <1>2, PTL DEF Spec

\* An insight about a view of the journey, or of the snapshot alone, is never about older data than the view
\* showed when the version was resolved: aiInsight resolves the version before it looks into the cache, and
\* only the newest journey run is ever reset.
THEOREM InsightsKeepUp ==
  ASSUME RequestsOK, Kinds \subseteq AllKinds
  PROVE  Spec => []InsightKeepsUp
<1>1. ReadInv => InsightKeepsUp
  BY ReadInvShows
<1>2. QED  BY <1>1, ReadInvHolds, PTL

\* A journey view never answers with rows without stages, whatever runs come, go and are reset between the
\* gate and the join.
THEOREM GatedAnswersAreLabelled ==
  ASSUME RequestsOK, Kinds \subseteq AllKinds
  PROVE  Spec => []GatedAnswerIsLabelled
<1>1. ReadInv => GatedAnswerIsLabelled
  BY ReadInvShows
<1>2. QED  BY <1>1, ReadInvHolds, PTL
=============================================================================
