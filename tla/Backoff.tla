------------------------------- MODULE Backoff -------------------------------
(***************************************************************************)
(* retryDelay of config.go: how far away a failed baseline row is due      *)
(* again.  Durations are int64 nanoseconds in the code; here they are      *)
(* integers of a width the constant MaxDuration gives, and doubling wraps  *)
(* as two's complement does.                                               *)
(***************************************************************************)
EXTENDS Integers

CONSTANT MaxDuration    \* the largest representable duration (2^63 - 1 ns in Go)

ASSUME MaxDurationAssumption == MaxDuration \in Nat

Wrap(d) == IF d > MaxDuration THEN d - 2 * (MaxDuration + 1) ELSE d

(***************************************************************************)
(* The loop: entry i is the delay after i doublings.  The early return of  *)
(* max is absorbing, because doubling max either reaches max or wraps      *)
(* below zero.                                                             *)
(***************************************************************************)
MutPastCap(d, max) == d >= max

PastCap(d, max) == d <= 0 \/ d >= max

Doubled(base, max) ==
  LET d[i \in Nat] == IF i = 0 THEN base
                      ELSE LET twice == Wrap(2 * d[i - 1])
                           IN  IF PastCap(twice, max) THEN max ELSE twice
  IN  d

FirstAttempt(attempt) == IF attempt < 1 THEN 1 ELSE attempt

RetryDelay(base, max, attempt) ==
  LET d == Doubled(base, max)[FirstAttempt(attempt) - 1]
  IN  IF d > max THEN max ELSE d

-------------------------------------------------------------------------------
(* What the delay is *)

PowerOfTwo[n \in Nat] == IF n = 0 THEN 1 ELSE 2 * PowerOfTwo[n - 1]

(***************************************************************************)
(* min(base * 2^(attempt - 1), max), computed without a width: "base       *)
(* doubled once per further attempt, capped at max" (config.go             *)
(* retryDelay).  An attempt below 1 counts as the first.                   *)
(***************************************************************************)
CappedDoubling(base, max, attempt) ==
  LET full == base * PowerOfTwo[IF attempt < 1 THEN 0 ELSE attempt - 1]
  IN  IF full < max THEN full ELSE max
=============================================================================
