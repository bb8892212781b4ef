-------------------------------- MODULE Scan --------------------------------
(***************************************************************************)
(* What a worker's tick makes of one metric: the scan of Druid and its     *)
(* cache, the liveness test, retirement and scheduling (publisher.go scan, *)
(* retire, readyKeys, alive; druid.go Hashes), under the settings Validate *)
(* accepted.                                                               *)
(*                                                                         *)
(* Time is kept as ages.  A point is visible to a scan from age 1 on: the  *)
(* scanned range excludes now.                                             *)
(***************************************************************************)
EXTENDS Settings, FiniteSets

CONSTANTS
  Configured,   \* settings an operator may give
  Watched,      \* bound: those of them whose ticks are followed
  Others,       \* whether the datasource has other metrics, which report
  Horizon,      \* bound: how old a point is told apart
  MaxFailures,  \* bound: consecutive failures a backoff is checked for
  MaxFaults     \* bound: failed scans, empty replies, failed calls, restarts

ASSUME WatchedAssumption == Watched \subseteq Configured /\ Configured \subseteq Config
ASSUME OthersAssumption == Others \in BOOLEAN
ASSUME HorizonAssumption ==
  /\ Horizon \in Nat /\ MaxFailures \in Nat /\ MaxFaults \in Nat
  /\ \A c \in Watched :
       LET n == Normalized(c)
       IN  n.ScanRange \in 1 .. Horizon /\ n.HashScanTTL <= Horizon /\ n.StaleAfter <= Horizon

VARIABLES
  cfg,          \* the operator's settings, then those the worker runs with
  up,           \* whether the worker runs
  points,       \* ages of the metric's points in Druid
  stopped,      \* the metric never reports again
  cache,        \* scanOK, scanAt and scanSpans, for the metric
  row,          \* whether forecast.retrain has the metric's row
  ready,        \* whether the last tick had the metric in readyKeys
  faults

vars == <<cfg, up, points, stopped, cache, row, ready, faults>>

-------------------------------------------------------------------------------

(* A metric reports once per Minute, which is the grid a fit demands. *)
Steady ==
  \A a \in 0 .. cfg.ScanRange - Minute : \E p \in points : a < p /\ p <= a + Minute

(***************************************************************************)
(* The cache for this metric: scanOK, the age of the scan, whether the     *)
(* metric is in scanSpans, the age of its Max there, Max - Min, whether    *)
(* scanSpans is empty and, as history, whether the metric was steady when  *)
(* scanned.                                                                *)
(***************************************************************************)
NoCache == [ok |-> FALSE, age |-> 0, found |-> FALSE, last |-> 0, length |-> 0,
            empty |-> TRUE, steady |-> FALSE]

(***************************************************************************)
(* Hashes: the windows of [now - SCAN_RANGE, now), earliest first, each    *)
(* answered with the first and last point in it, and merged.               *)
(***************************************************************************)
Width == IF cfg.DruidMaxRange = 0 THEN cfg.ScanRange ELSE cfg.DruidMaxRange

WindowsOfScan ==
  { {p \in points : p <= hi /\ p > hi - Width /\ p > 0} :
      hi \in {cfg.ScanRange - i * Width : i \in 0 .. (cfg.ScanRange - 1) \div Width} } \ {{}}

Earliest(W) == CHOOSE p \in W : \A q \in W : q <= p
Latest(W) == CHOOSE p \in W : \A q \in W : p <= q

FirstOf(windows) == Earliest({Earliest(W) : W \in windows})

LastOf(windows) == Latest({Latest(W) : W \in windows})

(* With no span at all, the set is empty. *)
Scanned ==
  LET windows == WindowsOfScan
  IN  IF windows = {}
      THEN [NoCache EXCEPT !.ok = TRUE, !.steady = Steady, !.empty = ~Others]
      ELSE [ ok |-> TRUE, age |-> 0, found |-> TRUE, last |-> LastOf(windows),
             length |-> FirstOf(windows) - LastOf(windows),
             empty |-> FALSE, steady |-> Steady ]

(* A datasource that answers nothing at all. *)
AnsweredNothing == [NoCache EXCEPT !.ok = TRUE, !.steady = Steady]

Alive(c) == c.found /\ c.length >= cfg.Lookback /\ (cfg.StaleAfter > 0 => c.last <= cfg.StaleAfter)

Fresh(c) == c.ok /\ c.age < cfg.HashScanTTL

-------------------------------------------------------------------------------

(* A Config that Validate rejects ends the process. *)
Start ==
  /\ ~up
  /\ Accepted(cfg)
  /\ cfg \in Watched
  /\ up' = TRUE
  /\ cfg' = Normalized(cfg)
  /\ UNCHANGED <<points, stopped, cache, row, ready, faults>>

(* A failed refresh keeps the last good set. *)
ScanAnswers ==
  IF Fresh(cache) THEN {cache}
  ELSE {Scanned} \cup (IF faults < MaxFaults THEN {AnsweredNothing, cache} ELSE {})

(***************************************************************************)
(* Only a fresh and non-empty scan retires, and the keys it retires are    *)
(* those it does not find alive.                                           *)
(***************************************************************************)
MutRetires(c) == cfg.StaleAfter > 0 /\ c.ok /\ ~c.empty /\ ~Alive(c)

MutRetiresSeen(c) == cfg.StaleAfter > 0 /\ Fresh(c) /\ c.found /\ ~Alive(c)

Retires(c) == cfg.StaleAfter > 0 /\ Fresh(c) /\ ~c.empty /\ ~Alive(c)

(***************************************************************************)
(* The tick's scan, retire and schedule, on one clock reading.  A worker   *)
(* that never had a scan gives the tick up; a store call may fail.         *)
(***************************************************************************)
Tick ==
  /\ up
  /\ \E c \in ScanAnswers, retireFails, scheduleFails \in BOOLEAN :
       /\ retireFails \/ scheduleFails => faults < MaxFaults
       /\ cache' = c
       /\ ready' = (c.ok /\ Alive(c))
       /\ row' = \/ row /\ (Retires(c) => retireFails)
                 \/ c.ok /\ Alive(c) /\ ~scheduleFails
       /\ faults' = IF retireFails \/ scheduleFails \/ (~Fresh(cache) /\ c # Scanned)
                    THEN faults + 1 ELSE faults
  /\ UNCHANGED <<cfg, up, points, stopped>>

Restart ==
  /\ up
  /\ faults < MaxFaults
  /\ faults' = faults + 1
  /\ cache' = NoCache
  /\ ready' = FALSE
  /\ UNCHANGED <<cfg, up, points, stopped, row>>

Capped(n, bound) == IF n < bound THEN n ELSE bound

Pass ==
  /\ up
  /\ \E report \in BOOLEAN :
       /\ stopped => ~report
       /\ points' = {p + 1 : p \in points \cap (1 .. Horizon - 1)} \cup (IF report THEN {1} ELSE {})
  /\ cache' = IF cache.ok
              THEN [cache EXCEPT !.age = Capped(@ + 1, Horizon),
                                 !.last = IF cache.found THEN Capped(@ + 1, Horizon + 1) ELSE 0]
              ELSE cache
  /\ UNCHANGED <<cfg, up, stopped, row, ready, faults>>

Stops ==
  /\ up /\ ~stopped
  /\ stopped' = TRUE
  /\ UNCHANGED <<cfg, up, points, cache, row, ready, faults>>

-------------------------------------------------------------------------------

Init ==
  /\ cfg \in Configured
  /\ up = FALSE
  /\ points = {}
  /\ stopped = FALSE
  /\ cache = NoCache
  /\ row \in BOOLEAN
  /\ ready = FALSE
  /\ faults = 0

Next == Start \/ Tick \/ Restart \/ Pass \/ Stops

Spec == Init /\ [][Next]_vars

-------------------------------------------------------------------------------
(* What a metric is promised *)

(***************************************************************************)
(* The room a steady metric needs.  Validate asks for the slack where      *)
(* SCAN_RANGE is set (config.go Validate: "Two intervals of slack keep a   *)
(* live series eligible"), not of its default, and accepts an INTERVAL     *)
(* below the metrics' minute.  The sums it compares with are representable *)
(* here.                                                                   *)
(***************************************************************************)
Roomy ==
  /\ cfg.Interval >= Minute
  /\ cfg.ScanRange >= ScanSlack(cfg)
  /\ cfg.Lookback + 2 * cfg.Interval <= MaxDuration
  /\ cfg.HashScanTTL + cfg.Interval <= MaxDuration

(* The cached scan may speak for now: its last point is at most a minute older. *)
Speaks(c) == Fresh(c) \/ cfg.StaleAfter = 0 \/ c.age + Minute <= cfg.StaleAfter

(***************************************************************************)
(* A metric that reported every minute of the range, when it was last      *)
(* scanned, is in the ready list of every tick that judges it by a fresh   *)
(* scan, or by one an outage kept until it is a minute short of            *)
(* STALE_AFTER; by any kept scan where STALE_AFTER is off.  It is so       *)
(* whatever windows the scan was cut into, given Roomy and a scan that     *)
(* was not empty.  By a scan kept longer it is not: OutageKeepsPublishing. *)
(***************************************************************************)
SteadyIsReady ==
  [][ Tick /\ Roomy /\ cache'.ok /\ cache'.steady /\ ~cache'.empty /\ Speaks(cache') => ready' ]_vars

(***************************************************************************)
(* The row of a metric that was steady when last scanned is not retired by *)
(* an old cache, an outage or an empty reply (publisher.go retire: "would  *)
(* otherwise retire the whole fleet during a Druid outage").  It takes     *)
(* Roomy: with an accepted INTERVAL below the metrics' minute and the      *)
(* least STALE_AFTER, a scan that is still fresh may retire a metric that  *)
(* reports.                                                                *)
(***************************************************************************)
SteadyIsNotRetired ==
  [][ Tick /\ Roomy /\ row /\ ~row' => ~cache'.steady ]_vars

(***************************************************************************)
(* The settings a worker starts with serve its other parts, where twice    *)
(* the backoff base is representable.                                      *)
(***************************************************************************)
SettingsServe == ~up => ServesQueueAndFleet(cfg)

(***************************************************************************)
(* A lease the worker derives lasts for one Druid timeout of every window  *)
(* one claim asks for, whatever is left unset.  That is less than          *)
(* config.go workLease says of it, "long enough for everything one claim   *)
(* does": it leaves out retries and the waits for a slot or a token.       *)
(***************************************************************************)
LeaseCoversWork == ~up => LeaseCoversWindows(cfg)

(***************************************************************************)
(* Under every setting a worker starts with, and after any number of       *)
(* failures, the retry of a row backs off as documented, and it spaces     *)
(* out (config.go retryDelay).                                             *)
(***************************************************************************)
DelayIsCappedDoubling ==
  ~up => \A attempt \in 0 .. MaxFailures : DelayDoublesToCap(cfg, attempt)

BackoffSpacesOut ==
  ~up => \A attempt \in 1 .. MaxFailures : DelaySpacesOut(cfg, attempt)

-------------------------------------------------------------------------------
(* Liveness *)

(* The worker ticks, time passes, and the failures end. *)
Fairness == WF_vars(Tick) /\ WF_vars(Pass)

FairSpec == Spec /\ Fairness

(***************************************************************************)
(* A metric that stopped reporting loses its row for good, unless          *)
(* STALE_AFTER is off: neither the cache nor a failed refresh schedules it *)
(* again for ever (publisher.go retire).  The last metric of a datasource  *)
(* keeps its row: a scan without a span retires nothing.                   *)
(***************************************************************************)
StoppedIsRetired ==
  up /\ stopped /\ Others /\ cfg.StaleAfter > 0 ~> [](~row)

-------------------------------------------------------------------------------
(* What the documentation says and the code does not do *)

(***************************************************************************)
(* A metric that is ready, and reports every minute, stays ready while the *)
(* scans fail (docs/ARCHITECTURE.md: "a Druid outage or a stalled retrain  *)
(* cannot stop publishing as long as a snapshot exists").                  *)
(***************************************************************************)
OutageKeepsPublishing ==
  [][ Tick /\ Roomy /\ Steady /\ ready /\ cache' = cache => ready' ]_vars
=============================================================================
