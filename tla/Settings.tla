------------------------------ MODULE Settings ------------------------------
(***************************************************************************)
(* The durations a worker is configured with: what Validate accepts and    *)
(* what the worker then runs with (config.go Validate, normalized,         *)
(* workLease).  Sums and products wrap at the width of a duration.         *)
(***************************************************************************)
EXTENDS Backoff

CONSTANTS
  Second, Minute, Day,         \* time.Second, time.Minute, 24 * time.Hour
  DefaultDruidTimeout, DefaultHashScanTTL, DefaultWorkerTTL,
  DefaultRetrainRetry, DefaultRetrainRetryMax

ASSUME UnitAssumption ==
  /\ Second \in 1 .. MaxDuration
  /\ Minute \in Second .. MaxDuration
  /\ Day \in Minute .. MaxDuration
ASSUME DefaultAssumption ==
  /\ DefaultDruidTimeout \in 1 .. MaxDuration
  /\ DefaultHashScanTTL \in 1 .. MaxDuration
  /\ DefaultWorkerTTL \in 1 .. MaxDuration
  /\ DefaultRetrainRetry \in 1 .. MaxDuration
  /\ DefaultRetrainRetryMax \in (DefaultRetrainRetry + 1) .. MaxDuration

MinDuration == -MaxDuration - 1

Duration == MinDuration .. MaxDuration

(* A field that is zero, or negative, is unset. *)
Config ==
  [ Lookback : Duration, Interval : Duration, DruidMaxRange : Duration,
    DruidTimeout : Duration, HashScanTTL : Duration, ScanRange : Duration,
    WorkerTTL : Duration, RetrainRetry : Duration, RetrainLease : Duration,
    RetrainRetryMax : Duration, StaleAfter : Duration ]

(* Two's complement, for a value any number of widths away. *)
WrapAll(d) == ((d - MinDuration) % (2 * (MaxDuration + 1))) + MinDuration

Longer(a, b) == IF a > b THEN a ELSE b

OrDefault(d, default) == IF d <= 0 THEN default ELSE d

RetryBase(c) == OrDefault(c.RetrainRetry, DefaultRetrainRetry)

TTLOf(c) == OrDefault(c.WorkerTTL, Longer(DefaultWorkerTTL, Wrap(2 * c.Interval)))

ScanTTLOf(c) == OrDefault(c.HashScanTTL, DefaultHashScanTTL)

(***************************************************************************)
(* The checks of Validate that speak of durations, but for SNAPSHOT_TTL.   *)
(***************************************************************************)
MutScanSlack(c) == Wrap(c.Lookback + c.Interval)

ScanSlack(c) == Wrap(c.Lookback + Wrap(2 * c.Interval))

StaleSlack(c) == Wrap(ScanTTLOf(c) + c.Interval)

Accepted(c) ==
  /\ c.Lookback >= Minute
  /\ c.Interval >= Second
  /\ c.DruidMaxRange = 0 \/ c.DruidMaxRange >= Minute
  /\ c.ScanRange > 0 => c.ScanRange >= ScanSlack(c)
  /\ c.RetrainLease >= 0
  /\ c.RetrainRetryMax > 0 => c.RetrainRetryMax > RetryBase(c)
  /\ TTLOf(c) > c.Interval
  /\ c.StaleAfter >= 0
  /\ c.StaleAfter > 0 => c.StaleAfter >= StaleSlack(c)

(***************************************************************************)
(* One DRUID_TIMEOUT for each window of a LOOKBACK, and a minute.  The     *)
(* rounding up may overflow, which the clamp at one window mends.          *)
(***************************************************************************)
Quotient(a, b) == IF a >= 0 THEN a \div b ELSE -((-a) \div b)

MutSlices(c) ==
  IF c.DruidMaxRange > 0 /\ c.Lookback > 0
  THEN Quotient(WrapAll(c.Lookback + c.DruidMaxRange - 1), c.DruidMaxRange) ELSE 1

Slices(c) ==
  IF c.DruidMaxRange > 0 /\ c.Lookback > 0
  THEN Longer(1, Quotient(WrapAll(c.Lookback + c.DruidMaxRange - 1), c.DruidMaxRange))
  ELSE 1

WorkLease(c) == Longer(RetryBase(c), WrapAll(Slices(c) * c.DruidTimeout + Minute))

(***************************************************************************)
(* A default cap that collides with a large base moves above it.           *)
(***************************************************************************)
MutCapOf(c) == OrDefault(c.RetrainRetryMax, DefaultRetrainRetryMax)

CapOf(c) ==
  LET cap == OrDefault(c.RetrainRetryMax, DefaultRetrainRetryMax)
  IN  IF cap <= RetryBase(c) THEN Wrap(2 * RetryBase(c)) ELSE cap

Normalized(c) ==
  LET filled == [c EXCEPT !.DruidTimeout = OrDefault(@, DefaultDruidTimeout),
                          !.HashScanTTL = ScanTTLOf(c),
                          !.ScanRange = OrDefault(@, Longer(Wrap(2 * c.Lookback), Day)),
                          !.WorkerTTL = TTLOf(c),
                          !.RetrainRetry = RetryBase(c),
                          !.RetrainRetryMax = CapOf(c)]
  IN  [filled EXCEPT !.RetrainLease = OrDefault(@, WorkLease(filled))]

-------------------------------------------------------------------------------
(* What the parts of the worker need of settings that Validate accepted *)

(***************************************************************************)
(* The retrain queue needs a lease and a backoff that spaces out, and      *)
(* membership a heartbeat that outlives the tick that writes it            *)
(* (RetrainQueue's DurationAssumption, Fleet's TTLAssumption), whatever    *)
(* was left unset (config.go Validate: "checked against the default they   *)
(* will actually run with").  Of the backoff this is said only where twice *)
(* its base is representable: normalized gives a colliding cap that value  *)
(* and does not look at its overflow.                                      *)
(***************************************************************************)
ServesQueueAndFleet(c) ==
  LET n == Normalized(c)
  IN  Accepted(c) =>
        /\ n.RetrainLease >= 1
        /\ n.WorkerTTL > n.Interval
        /\ 2 * RetryBase(c) <= MaxDuration =>
             /\ 1 <= n.RetrainRetry
             /\ n.RetrainRetry < n.RetrainRetryMax

(***************************************************************************)
(* A lease that was left to be derived covers one timeout for every window *)
(* of a LOOKBACK, also where rounding up the number of windows overflows,  *)
(* as long as a LOOKBACK is at most half a duration and the work itself is *)
(* representable (config.go workLease: "derives the default claim lease    *)
(* from the work one claim covers").  Retries, and waits for a slot or a   *)
(* token, are not in it: a fit that needs them may be cut short.           *)
(***************************************************************************)
Windows(c) ==
  IF c.DruidMaxRange = 0 THEN 1
  ELSE c.Lookback \div c.DruidMaxRange + (IF c.Lookback % c.DruidMaxRange = 0 THEN 0 ELSE 1)

LeaseCoversWindows(c) ==
  LET n    == Normalized(c)
      work == Windows(c) * n.DruidTimeout + Minute
  IN  Accepted(c) /\ c.RetrainLease = 0 /\ 2 * c.Lookback <= MaxDuration /\ work <= MaxDuration
        => n.RetrainLease >= work

(***************************************************************************)
(* The delay is the base doubled once per further attempt and capped: the  *)
(* loop's early returns lose nothing to overflow (config.go retryDelay).   *)
(***************************************************************************)
Delay(n, attempt) == RetryDelay(n.RetrainRetry, n.RetrainRetryMax, attempt)

DelayDoublesToCap(c, attempt) ==
  LET n == Normalized(c)
  IN  Accepted(c) /\ n.RetrainRetryMax > 0
        => Delay(n, attempt) = CappedDoubling(n.RetrainRetry, n.RetrainRetryMax, attempt)

(***************************************************************************)
(* One more failure never brings the retry nearer, and until the cap is    *)
(* reached it moves it away: the backoff does not become a hot loop at any *)
(* attempt count, while twice the base is representable.                   *)
(***************************************************************************)
DelaySpacesOut(c, attempt) ==
  LET n == Normalized(c)
  IN  Accepted(c) /\ 2 * RetryBase(c) <= MaxDuration =>
        /\ Delay(n, attempt) > 0
        /\ Delay(n, attempt + 1) >= Delay(n, attempt)
        /\ Delay(n, attempt) < n.RetrainRetryMax => Delay(n, attempt + 1) > Delay(n, attempt)
=============================================================================
