----------------------------- MODULE AdsThrottle -----------------------------
(***************************************************************************)
(* The Google Ads rate limiter: before every call a worker reserves the    *)
(* next free slot of the account in Redis and sleeps until then.  Each     *)
(* worker reads its own clock, and its timers may fire late.  Accounts     *)
(* have keys of their own; this is one of them.                            *)
(***************************************************************************)
EXTENDS AdsRate

VARIABLES now,        \* the time, as Redis has it
          last,       \* ads:ratelimit:{cid}: the slot reserved last, by the clock of who reserved it
          expires,    \* when Redis drops the key
          pc, at,     \* where a caller is, and when its timer is due
          attempt,
          lastCall    \* external: when Google Ads last got a call

avars == <<now, last, expires, pc, at, attempt, lastCall>>

ThrottleInit ==
  /\ now = 0 /\ last = 0 /\ expires = 0
  /\ pc = [c \in Callers |-> "idle"]
  /\ at = [c \in Callers |-> 0]
  /\ attempt = [c \in Callers |-> 0]
  /\ lastCall = -MinTimeMs

\* RESERVE_SLOT, by the clock of the worker.  A key that is gone reads as 0.
Slot(local) == LET taken == IF now < expires THEN last ELSE 0
               IN IF taken + MinTimeMs > local THEN taken + MinTimeMs ELSE local
\* Mutant: the key lives for one interval, whatever slot it holds.
TtlOfAnInterval(wait) == MinTimeMs + SlotTtlBuffer
Ttl(wait) == wait + MinTimeMs + SlotTtlBuffer
AcquireSlot(c) ==
  \E slot \in {Slot(now + Offset[c])} :
    /\ slot <= MaxTime
    /\ last' = slot
    /\ expires' = now + Ttl(slot - (now + Offset[c]))
    /\ at' = [at EXCEPT ![c] = slot - Offset[c]]
    /\ pc' = [pc EXCEPT ![c] = "waiting"]

Schedule(c) ==
  /\ pc[c] = "idle"
  /\ AcquireSlot(c)
  /\ UNCHANGED attempt
  /\ UNCHANGED <<now, lastCall>>

\* fn(): the call itself.
Call(c) ==
  /\ pc[c] = "waiting" /\ now >= at[c]
  /\ pc' = [pc EXCEPT ![c] = "calling"]
  /\ lastCall' = now
  /\ at' = [at EXCEPT ![c] = 0]
  /\ UNCHANGED <<now, last, expires, attempt>>

\* An answer, or an error that is not to be tried again, ends schedule().
Returns(c) ==
  /\ pc[c] = "calling"
  /\ pc' = [pc EXCEPT ![c] = "idle"]
  /\ attempt' = [attempt EXCEPT ![c] = 0]
  /\ UNCHANGED <<now, last, expires, at, lastCall>>
Retries(c) ==
  /\ pc[c] = "calling"
  /\ attempt[c] < AdsMaxRetries
  /\ \E jitter \in {0, BackoffMs(attempt[c]) \div 5} :
       at' = [at EXCEPT ![c] = now + BackoffMs(attempt[c]) + jitter]
  /\ attempt' = [attempt EXCEPT ![c] = @ + 1]
  /\ pc' = [pc EXCEPT ![c] = "backoff"]
  /\ UNCHANGED <<now, last, expires, lastCall>>
CallFails(c, err) == IF IsRetryableAdsError(err) /\ attempt[c] < AdsMaxRetries THEN Retries(c) ELSE Returns(c)

BackedOff(c) ==
  /\ pc[c] = "backoff" /\ now >= at[c]
  /\ AcquireSlot(c)
  /\ UNCHANGED <<now, attempt, lastCall>>

\* The worker dies; what it had reserved stays reserved.
Crash(c) ==
  /\ pc[c] # "idle"
  /\ pc' = [pc EXCEPT ![c] = "idle"]
  /\ at' = [at EXCEPT ![c] = 0]
  /\ attempt' = [attempt EXCEPT ![c] = 0]
  /\ UNCHANGED <<now, last, expires, lastCall>>

\* A timer is at most MaxLate late.
Elapse ==
  /\ now < MaxTime
  /\ \A c \in Callers : pc[c] \in {"waiting", "backoff"} => now < at[c] + MaxLate
  /\ now' = now + 1
  /\ UNCHANGED <<last, expires, pc, at, attempt, lastCall>>

ThrottleNext ==
  \/ Elapse
  \/ \E c \in Callers : Schedule(c) \/ Call(c) \/ Returns(c) \/ BackedOff(c) \/ Crash(c)
  \/ \E c \in Callers, err \in {"resource_exhausted", "invalid_argument"} : CallFails(c, err)

ThrottleSpec == ThrottleInit /\ [][ThrottleNext]_avars

-----------------------------------------------------------------------------
ThrottleTypeOK ==
  /\ now \in Nat /\ last \in Nat /\ expires \in Nat /\ lastCall \in Int
  /\ pc \in [Callers -> {"idle", "waiting", "calling", "backoff"}]
  /\ at \in [Callers -> Int]
  /\ attempt \in [Callers -> 0..AdsMaxRetries]

\* Two calls reach Google Ads at least an interval apart, less what the clocks differ and the timers are
\* late, whichever workers make them and however long they slept: no burst, also after the key of a slot
\* far ahead might have expired (acquireSlot, RESERVE_SLOT).
Spaced == \A c \in Callers : Call(c) => now >= lastCall + MinTimeMs - MaxSkew - MaxLate
CallsAreSpaced == [][Spaced]_avars
=============================================================================
