----------------------------- MODULE TrackedState -----------------------------
(* What the rows, the series and the sweeps of the tracking lists promise to *)
(* the users of a list, said of the state alone: Tracking has the steps.     *)
EXTENDS Integers, Sequences, FiniteSets, OwnerScope

CONSTANTS
  MaxLists, MaxMembers,
  SweepFits      \* whether a sweep always ends before its lease does

VARIABLES
  list,          \* the list rows
  member,        \* per list and key, when it was added and last checked
  series,        \* per list and key, the snapshots in the order of insertion
  slot,          \* the refresh workers
  disturbed      \* lists of which a refresh ever met another one, or a removal

NoTime    == 0
NotMember == [added |-> NoTime, checked |-> NoTime]

Live(l) == list[l].status = "live"

(* However requests interleave, a list never has more members and an owner   *)
(* never more lists than the limits, and an owner's lists differ in name.    *)
LimitsHold ==
  /\ \A l \in DOMAIN member : Cardinality({k \in DOMAIN member[l] : member[l][k] # NotMember}) <= MaxMembers
  /\ \A o \in Owners : Cardinality({l \in DOMAIN list : Live(l) /\ list[l].owner = o}) <= MaxLists
  /\ \A l, m \in DOMAIN list : l # m /\ Live(l) /\ Live(m) /\ list[l].owner = list[m].owner /\ list[l].owner # Shared
                               => list[l].name # list[m].name

(* Two sweeps never run at once as long as each ends before its lease does,  *)
(* also when a worker dies with the lease in hand.                           *)
OneSweep ==
  SweepFits => \A v, w \in DOMAIN slot : slot[v].lease # NoTime /\ slot[w].lease # NoTime => v = w

(* Store on change: neighbouring snapshots of a member differ, through       *)
(* retries, dead workers, re-added members and scheduled and manual jobs,    *)
(* unless a refresh of the list met another one or a removal.                *)
SnapshotsAreChanges ==
  \A l \in DOMAIN series \ disturbed : \A k \in DOMAIN series[l] : \A i \in 2..Len(series[l][k]) :
    series[l][k][i].value # series[l][k][i - 1].value
=============================================================================
