------------------------------- MODULE AdsRate -------------------------------
(***************************************************************************)
(* The parameters of the Google Ads rate limiter and what it computes from *)
(* them alone.                                                             *)
(***************************************************************************)
EXTENDS Integers

CONSTANTS Callers,              \* calls of schedule() that may be under way, on any workers
          Offset,               \* how far the clock of each is ahead of Redis, in 0..MaxSkew
          Second, Qps,          \* a second in units of the clock, and the configured rate
          BackoffBase, AdsMaxRetries,
          SlotTtlBuffer,        \* SLOT_TTL_BUFFER_MS
          MaxSkew, MaxLate,     \* bounds: how far two clocks are apart, how late a timer fires
          MaxTime               \* bound: the time the model runs, and the last slot

MinTimeMs == LET qps == IF Qps > 0 THEN Qps ELSE 1
                 ms  == (Second + qps - 1) \div qps
             IN IF ms < 1 THEN 1 ELSE ms

ASSUME ThrottleAssumption ==
  /\ Second \in Nat /\ Qps \in Int /\ BackoffBase \in Nat /\ AdsMaxRetries \in Nat
  /\ SlotTtlBuffer \in Nat /\ MaxSkew \in Nat /\ MaxLate \in Nat /\ MaxTime \in Nat
  /\ Offset \in [Callers -> 0..MaxSkew]

\* base * 2^min(attempt, 2), and up to a fifth of it on top.
BackoffMs(n) == BackoffBase * (IF n = 0 THEN 1 ELSE IF n = 1 THEN 2 ELSE 4)
IsRetryableAdsError(err) == err = "resource_exhausted"
==============================================================================
