# Verification of timeseries-baselines

`timeseries-baselines` is a fleet of identical Go workers. Each one lists metric
hashes in Druid, shares them with its peers by rendezvous hashing, trains a
seasonal model per hash from a queue in PostgreSQL, and publishes one baseline
point per hash and minute to Kafka. The workers never talk to each other: all
coordination goes through two schemas of one database and through what each
worker believes the peer set to be.

This directory holds TLA+ modules translated from that code, TLC configurations
that model-check them on small fleets, and TLAPS proofs of theorems that hold
for every fleet.

## Inventory

| Component | State | Operations | Interacts through |
| --- | --- | --- | --- |
| Retrain queue (`publisher.go`, `store_postgres.go`) | rows of `forecast.retrain`: due time, `claimed_by`, `claimed_until`, attempts, last status and run; per process `held` and the training goroutines | retire, sweep, schedule, claim, extend, fit, put, done, release | SQL statements of all workers; the plugin's admin edits the same rows |
| Retry backoff (`config.go retryDelay`) | none | delay after n failures | called by a failed retrain |
| Cron (`schedule.go`) | none | next firing | called by a successful retrain |
| Membership and ownership (`membership.go`, `shard.go`) | last good peer set; rows of `baselines.workers` | resolve peers (list, DNS, heartbeats), heartbeat, `Owner`, `Owns` | the heartbeat table; every step of a tick reads the one peer set of that tick |
| Publish path and snapshot cache (`publisher.go`, `kafka.go`) | `fitted`, `freshAt`, `published` | prune, Fresh, Get, Restore, emit, publish | reads the models that any worker's retrain stored |
| Scan and liveness (`publisher.go`, `druid.go Hashes`) | `scanSpans`, `scanAt`, `scanOK` | windowed scan and its merge, cache, alive/ready/retired keys | feeds retire, schedule and emit |
| Snapshot store (`store_postgres.go`) | rows of `baselines.snapshots` | Put, Get, Fresh, Retire, SweepSnapshots | shared by all workers |
| Druid access (`druid.go`, `limits.go`) | a semaphore and a ticker, each with the goroutines that block on it | windowed queries, retries, cancellation | called by the scan and by every fit |
| Migrations and provisioning (`migrations.go`, `migrate_cmd.go`, `store_postgres.go ensure`) | the ledger table, the advisory lock, `ready` and its throttle | migrate, probe, ensure | before every store call, and from the `migrate` command |
| Configuration (`config.go`) | none after start | normalize, validate, work lease | fixes the relations between durations the queue relies on |
| Store DSN, snapshot codec, entry point, dependency report | none | string assembly, gzip/JSON, wiring | - |

### What is hard here

- **Interleaving.** Every step of a tick is its own statement. Another worker's
  statement, a retirement or an admin's delete may land between any two of them.
- **Claims without a fencing token.** `Done` and `Extend` name the worker that
  claimed a row, not the claim. Whether that fences a late finish depends on what a
  process remembers (`held`) when a call took effect and its answer was lost.
- **Clocks.** A tick reads its clock once. The lease, the fit's deadline, the
  backoff and the published minute are all measured from different moments.
- **Failure.** A call may fail with or without effect; a worker may be stopped
  between any two steps (and then hands claims back), or killed.
- **Stale views.** Peer sets and scans are cached. Two workers may disagree about
  both while they act.
- **Limits and boundaries.** Slots are kept through retries and handed over as
  contexts end; windows meet at their bounds; durations overflow; the room Validate
  asks for decides whether a healthy metric is seen at all.
- **Progress.** A dead worker's claims and its share of the keys must pass to a
  survivor; no row may starve behind rows that fail for ever.

### What makes each component correct

- Queue: two leased fits of one key never overlap; a lease outlives its fit;
  failure counts are exact; a row reported as trained has a model; claims are
  handed back or taken over; due rows are claimed; orphaned models are collected.
- Backoff: the delay is the capped doubling, whatever the width of a duration.
- Membership: equal views divide the keys, and views of running workers cover them.
- Publish path: no restored model passes for a newer one, and a key with a model
  keeps being published, whoever dies.
- Migrations: a file and its ledger entry appear together, once and in order, whoever
  races or dies; nobody fails because of a race; `ready` and exit code 0 mean what
  they say; every worker becomes ready.
- Druid access: no slot is lost or counted twice, no tick is banked, an answer holds
  every row of its range, every query ends.
- Configuration: what `Validate` accepts satisfies what `RetrainQueue` and `Fleet`
  assume of their constants, and a derived lease covers its work.
- Scan: a metric that reports is ready while its scan is fresh, or was kept for less
  than STALE_AFTER, however it was sliced; it keeps its row through outages and caches;
  one that stopped loses its row.

## Modules

| Module | What it is |
| --- | --- |
| `Backoff` | `retryDelay` as a recursive function over integers of a given width, overflow included, and the capped doubling it promises |
| `Arithmetic`, `BackoffProofs` | induction, recursion and division for the proofs; that `retryDelay` is the capped doubling |
| `RetrainQueue` | the store half of a tick and of a shutdown, for any number of workers and keys |
| `RetrainLedger` | the abstract specification of the queue: grants, what each worker still owes for its grant, outcomes and models per key, without processes, clocks or failing calls |
| `MCRetrainQueue` | scans, sets of failing calls and symmetry for TLC |
| `RetrainQueueProofs`, `RetrainLedgerProofs` | theorems about `RetrainQueue`; that it implements `RetrainLedger` |
| `Fleet` | the publishing half of a tick: peers, ownership, heartbeats, snapshot cache, emit |
| `MCFleet` | scores, peer lists and DNS answers for TLC |
| `FleetProofs` | theorems about `Fleet` |
| `Migrations` | lazy provisioning by workers and `baselines-migrate`, statement by statement, on one database |
| `Provisioning` | the abstract specification of `Migrations`: files applied once and in order by nobody in particular |
| `MCMigrations`, `MigrationsProofs` | its instance for TLC and its theorems |
| `Settings` | the durations of a `Config`: `Validate`, `normalized`, `workLease`, at a given width |
| `Scan` | what ticks make of one metric under those settings: scan, cache, liveness, retirement, scheduling |
| `MCScan`, `ScanProofs` | settings of a small width for TLC; the theorems about `Settings` and `Scan` |
| `DruidAccess` | concurrent queries: windows, semaphore, rate limiter, retries, cancellation |
| `MCDruidAccess`, `DruidAccessProofs` | its instance for TLC and its theorems |

`RetrainQueue` and `Settings` extend `Backoff`; `Scan` extends `Settings`.
`RetrainQueueProofs` and `ScanProofs` extend `BackoffProofs`, and that one and
`DruidAccessProofs` extend `Arithmetic`. `RetrainQueue` and `Fleet` are the two halves of `runTick`. They meet in `baselines.snapshots`: the queue says
when a model is stored, retired or swept; in `Fleet` that may happen at any time
the tick's steps allow, so whatever the queue does is among `Fleet`'s behaviours.

### RetrainQueue and the code

One SQL statement is one step. `proc[w]` is where the goroutine of `Publisher.Run`
is; `job[w][k]` is the goroutine `trainHash` of worker `w` for key `k`, several of
which run at once.

| Action | Code |
| --- | --- |
| `Start`, `Stop`, `Crash`, `Exit`, `Release` | process start; SIGTERM; SIGKILL; the end of `Run`; `releaseHeld`, one claim at a time |
| `StartTick` (`ScanAnswers`, `ScanFails`) | the clock, the scan and `BaselineKeys` (`retiredKeys`); a process without a scan yet (`starting`) gives the tick up when it fails, a later one works on the last good set |
| `Retire`, `Sweep`, `Schedule`, `Claim` | the statements of the same names; `Schedule` is `ON CONFLICT DO NOTHING`, `Claim` takes the oldest due, unleased, enabled rows up to `TRAIN_CONCURRENCY` |
| `NotStarted`, `Extend`, `FitStarts`, `FitFails`, `Put`, `FinishTrained`, `FinishFailed` | `trainHash` and `finish` |
| `EndTick` | the pool's `Wait` |
| `Tick`, `ModelAges`, `RunAges` | time: one `INTERVAL` passes; `SNAPSHOT_TTL` passes over a model or a run |
| `AdminToggles`, `AdminDeletes` | the plugin's API |

Each store call ends in one of three ways (`Answers`): ok, refused (no effect, an
error) or lost (effect, and an error). Which calls may fail is a constant of the
run; the first scan of a process is one of them. `Sweeps` says whether SNAPSHOT_TTL is on.
Time is a distance from now: `Tick` brings every due time and every lease one
unit nearer, so states repeat and liveness can be checked without a bound on time.

Two variables the code does not have: `covered` in a job records that its Extend
was applied, that no time passed before the fit started, and that the row was not
deleted since (the premise of the code's own comments about leases); `faults`
counts failures so that a run bounds them.

### Fleet and the code

| Definition | Code |
| --- | --- |
| `Peers`, `Sees`, `KeepsLast`, `View` | `peerSource.peers`, `keep`: a failed or empty DNS lookup keeps the last set, an empty heartbeat table does not |
| `Including`, `Owner`, `Owns` | `normalizePeers`, `Owner`, `Owns`; `pairHash` is the constant `Score`, ties included |
| `StartTick`, `Scan`, `Heartbeat` | the first lines of `runTick`; without a good scan the tick ends before its heartbeat |
| `Put`, `Collected` | any worker's retrain stores a model; a model is retired or swept |
| `Refresh` | `pruneFits` and `refreshSnapshots` up to its loop: the throttle, the `Fresh` query, models whose row is gone |
| `Restore` | one round of that loop: `Get` and `Restore` of a key, whose model may have changed since `Fresh` |
| `Emit` | `emit`, `emitSnapshot`, `publish`: one point per ready key with a model, for the minute the tick's clock read, when that minute is newer than the mark |
| `Tick` | half an `INTERVAL` passes; tickers fire in the half of the minute they were made in, and a firing nobody consumed is dropped |

A model is identified by the write it is of (`writes` counts them), and `fitted`
keeps two numbers apart: the write whose `updated_at` it is filed under and the
write it was decoded from. The initial state is a database that holds one model
per key and a fleet that is down.

### Migrations and the code

`at[p]` names the statement a process is about to run; a worker's attempt begins at
`ping`, a migrator's at `read`.

| Action | Code |
| --- | --- |
| `Begin`, `Ping`, `Retry` | `ensure` on a store that is not ready: the throttle, then the ping |
| `ReadLedger`, `NextFile`, `Finished` | `applyMigrations`: the ledger is read once, before any lock; a dry run ends there |
| `TakeLock`, `LedgerDDL`, `Recheck`, `ExecFile`, `InsertEntry`, `Commit` | `applyOneMigration`; the effect of a file is seen when its transaction commits |
| `NoLock`, `StatementFails`, and `Commit`'s second half | a refused statement rolls back; a commit may be applied and still report an error |
| `Probe` | `probeSchema`, after an error of `applyMigrations` |
| `Crash` | the process dies; its session, and with it transaction and lock, goes |

Initially the database is empty, legacy (tables without a ledger), partly migrated,
or written by a newer deployment whose version this binary does not embed. A user
without CREATE fails at the ledger's DDL even when the schema exists.

### Settings and Scan, and the code

`Accepted` is `Validate` restricted to durations, `Normalized` is `normalized`; both
compute at the width of a duration, overflow included. `Start` takes settings
`Validate` accepts and runs with the normalized ones.

| Definition | Code |
| --- | --- |
| `Scanned`, `WindowsOfScan`, `FirstOf`, `LastOf` | `Hashes`: one GROUP BY per window, merged |
| `ScanAnswers`, `Fresh` | `scan`: the cached set until `HASH_SCAN_TTL`, then an answer, or on an error the old set |
| `Alive`, `Retires` | `eligible` and `alive`; `retire` and `retiredKeys` |
| `Tick` | scan, retire and schedule of one tick, on its one clock reading; each store call may fail |
| `Restart`, `Pass`, `Stops` | a restart loses the cache; a unit of time passes, with or without a report; the metric is decommissioned |

One metric is followed: the spans of different metrics meet only in whether the reply
is empty. `Others` says whether the datasource has other metrics that report; without
them a metric that stopped leaves an empty set and keeps its row for ever, so
`StoppedIsRetired` speaks of a metric with others. An empty reply by mistake is
`AnsweredNothing`. `cache.steady` and `cache.empty` record what
the properties speak of.

### DruidAccess and the code

| Definition | Code |
| --- | --- |
| `WindowCount`, `TooMany`, `End`, `NextStart` | `windowCount`, `windows`: a window at a time instead of a slice of them |
| `Call`, `NextWindow`, `Acquires`, `GivesBack` | the loop of `Series`; `acquire` and its release. A slot given back is handed to the sender that waits longest, as a Go channel does |
| `Await`, `Tick`, `Buffered` | `rateLimiter.wait`; the ticker's channel of one element |
| `Answered`, `Retryable`, `Final`, `Wake` | the outcomes of `do`, and `sql`'s loop; the slot is kept while the backoff lasts |
| `Cancelled`, `Shutdown` | `ctx.Done` at each wait; where the awaited value is there too, the select takes either |

`taken`, `failed` and `query.asked` are history. The limiter is on (`DRUID_MAX_RPS`
above zero); off, `Await` would never wait.

## Runs

Sizes are distinct states. The passing runs fire every action.

| Run | Shows | Bounds | States |
| --- | --- | --- | --- |
| `queue_safety` | types; a covered fit is leased until its deadline (`LeaseCoversFit`); two covered fits never overlap (`OneCoveredFit`); a row that reports a recent success has its model (`RecentOkHasModel`); a graceful shutdown finds every claim (`ClaimsAreHeld`); a worker judges with the current count (`HeldIsCurrent`); counts are exact (`AttemptsCountFailures`); the queue implements `RetrainLedger` (`ImplementsLedger`); the inductive invariant `QueueInv` | two workers, one key, one fault: any call but a release refused, any call but a claim lost, worker 1 killed, worker 2 stopped; scans that call the key alive or dead, or prove nothing | 861 k |
| `queue_recovery` | every claim ends although its worker died (`EveryClaimEnds`); an orphaned model is collected (`OrphanModelIsCollected`) | worker 1 may die, worker 2 survives; one fault, which may be any call of either, the first scan included | 88 k |
| `queue_no_starvation` | every due row is claimed (`DueRowIsClaimed`) | two rows, one slot, rows that fail for ever, an admin who pauses and deletes | 89 k |
| `fleet_safety` | types; equal views divide the keys (`SameViewIsDisjoint`); views of running workers cover them (`RunningViewsCover`); a model filed under the store's timestamp is the store's model (`CacheIsCoherent`); the inductive invariant `FleetInv` | two workers, one key on which their scores tie, all three sources, a list that misses a worker, DNS answers that lag, scans that find the key alive, two writes, one fault | 745 k |
| `fleet_takeover` | a key that has a model is published again and again (`KeysKeepPublishing`) | one key, owned by worker 2 while it lives, heartbeat membership, worker 2 may die for ever, two faults, ticks of up to a whole INTERVAL | 828 k |
| `migrations` | the inductive invariant (`MigrationsInv`); the ledger is a prefix of the files and true (`LedgerIsTrue`); no process fails because of another (`NoRaceErrors`); `ready` and exit code 0 are right (`ReadyIsProvisioned`, `ExitZeroIsApplied`); the processes implement `Provisioning` (`ImplementsProvisioning`); every worker becomes ready (`EveryWorkerIsReady`) | a worker that may create and one that may not, a migrator, two files, one fault, every initial database | 48 k |
| `druid` | types; slots are those of the callers behind them (`SlotsAreHeld`); one request per tick (`OnePerPeriod`); answers are whole (`AnswerIsWhole`) and took the windows that were counted (`WindowsAreCounted`); every query ends (`EveryQueryEnds`) | three callers on two slots, one retry, ranges of 3 and 5 minutes in windows of 2, the longer one window too many, rows at the bounds of windows; failures are not bounded | 65 k |
| `scan` | accepted settings serve queue and fleet (`SettingsServe`); a derived lease covers its windows (`LeaseCoversWork`); the backoff is the capped doubling and spaces out (`DelayIsCappedDoubling`, `BackoffSpacesOut`); a metric that was steady when scanned is ready while the scan may speak for it (`SteadyIsReady`) and keeps its row (`SteadyIsNotRetired`); a stopped one loses it (`StoppedIsRetired`) | durations up to 31: every backoff and heartbeat setting, every derived lease under two timeouts; ticks followed for three accepted settings (a range in one slice and in two, caches of 1 and 2 units, the least STALE_AFTER allowed and none) and one that Validate rejects; other metrics report; one fault | 67 k |
| `queue_stale_scan` | **violated**: `NeverTrainedTwiceAtOnce` | no faults | - |
| `queue_lost_claim` | **violated**: `ReleaseLeavesAttempts` | two faults | - |
| `fleet_strand` | **violated**: `StrandNeedsSharedGhost` | two workers and a listed peer without a process | - |
| `scan_outage` | **violated**: `OutageKeepsPublishing` | one failed scan | - |

The bounds are chosen so that the hazards occur. Two workers are the fewest that
race, and one key suffices for what is stated per key; claims of different keys
meet only in the claim limit, which `queue_no_starvation` checks with two. A lease
of two units is the shortest on which a fit may be in flight over one Tick and
still be leased. `Past` (how long overdue a row is told apart) and `MaxAttempts`
(where the count stops growing) saturate: the order of overdue rows matters to the
claim limit only, so that run has `Past = 1`. One fault makes every single failure meet
every interleaving; the stale release, which takes two, is reached by `queue_lost_claim`,
and the theorems hold for every number. `queue_safety` leaves out a refused release and
a lost claim, because with either the properties about held claims are false
(`queue_lost_claim` shows the second), and the admin, whom `queue_no_starvation` has;
the proofs of the other properties cover all of them. In `Fleet`, ages saturate where no guard can
tell two apart any more (`NoRow`, `Never`, `NoMark`), so that cap loses nothing;
`MaxWrites = 2` is what a Put between a `Fresh` and its `Get` needs. `SlowTick = 1`
lets a tick overrun into the other half of the minute; in `fleet_takeover` it is 2, a
whole INTERVAL: the heartbeats of two such ticks are further apart than WORKER_TTL, so a
running worker drops out of its peers' views, and a point is published a minute late. Its scans always find the
key alive: a key no scan finds is not emitted at all, and the theorems about `Fleet`
hold for every set `Alive` of scans.

`migrations`, `scan` and `druid`: migrators exit and settings are rejected, so those
two runs do not check deadlock; `druid` does. A width of 31 is enough for
every product of a backoff, a lease and a heartbeat to overflow at some accepted
setting. `Horizon` is the longest scanned range in use, and no shorter than HASH_SCAN_TTL or
STALE_AFTER; no guard tells older points or caches apart. `MaxFailures = 8` doubles past every cap and every overflow of that width. Windows
of 2 over ranges of 3 and 5 give a short last window and one window too many. A dry run
only reads the ledger; the theorems about `Migrations` have it, the run does not.

### Disagreements with the documentation

The four violated runs check sentences of the documentation, quoted in the
`findings` of `PROJECT.json`, that the code does not keep:

1. **A slow fit may be trained twice at once** (`docs/INTENTIONS.md:124`). A worker
   whose cached scan still calls a key dead retires the row while another is
   training it; the next `Schedule` makes a fresh, unclaimed row.
2. **A release may write an old failure count** (`publisher.go:451`). When Extend
   answers that the claim is lost, `trainHash` returns without dropping it from `held`
   (`publisher.go:394-396`). If the worker's next Claim of that row takes effect without
   an answer, a shutdown releases the row with the old entry, and undoes a count another
   worker moved meanwhile.
3. **An outage may stop publishing** (`docs/ARCHITECTURE.md:37`, `publisher.go:214`).
   A failed refresh keeps the last good spans, but readiness judges them by
   `STALE_AFTER` and the current clock: when the outage outlasts it, no key is ready
   and nothing is published, although every model is stored.
4. **A strand does not need a peer that is missing from every view**
   (`docs/ARCHITECTURE.md:279`). One list with a ghost is enough: worker 1 leaves a
   key to worker 2, which leaves it to the ghost only it can see.

Two more are known and have no run. The backoff is added to the tick's clock, read
before the scan and the fit, so a fit that runs longer than its delay fails into a row
that is due at once (`publisher.go:418`); the next failure is spaced further out. And
the slack Validate asks of SCAN_RANGE is two INTERVALs, while the scan may lose a
minute at either end, so an INTERVAL below a minute leaves too little; the default
range is not checked for it at all. `Roomy` in `Scan` states the settings for which the slack suffices.

## Fairness

`RetrainQueue`: a process that is up keeps taking steps (weak fairness of its Run
loop and its goroutines together: Go schedules them, and every call ends under a
context or with the connection); a worker that is never restarted is started; time
passes; and `SNAPSHOT_TTL` passes over a last run (weakly) and over a model that is
fresh again and again (strongly, because a clock does not wait for a goroutine
that comes and goes between two of its readings). A first scan that fails for ever
would end every tick before its Claim; scans fail as often as other calls, that is a
bounded number of times. No fairness is assumed of
successes, of the admin, of a restart, or of any particular answer. The liveness
runs set `Prompt`: no worker spends a whole `INTERVAL` inside one store call,
so that `Tick` cannot run ahead of everybody for ever.

`Fleet`: a running worker's tick keeps moving, a worker that is not mortal and not
a ghost is started, time passes. `KeysKeepPublishing` assumes nothing of worker 2,
which may die once and for all, and nothing of the faults beyond their number.

`Migrations`: a worker keeps taking steps, as its ticks keep using the store; a
migrator that was started runs on, and one that never starts is not missed; the
database queues the waiters of an advisory lock, so taking it is strongly fair. Faults
are bounded, and one worker may create: with none, a legacy database stays legacy.

`Scan`: the worker ticks and time passes; nothing is assumed of reports, and failures
are bounded, which is what "failed refreshes end" means here.

`DruidAccess`: the ticker fires, and a caller that can go on does: a request ends by
DRUID_TIMEOUT, a timer fires. Requests may fail without bound; slots and tokens need no
fairness of their own, because channels serve their queues in order.

## Proofs

| Theorem | For every |
| --- | --- |
| `TypeCorrect` | worker and key set, lease, backoff, pool size, fault model |
| `QueueInvariant` | the same: `QueueInv` always holds |
| `FitsAreCovered`, `CoveredFitsExclude`, `TrainedRowsHaveModels` | the same: `LeaseCoversFit`, `OneCoveredFit`, `RecentOkHasModel` |
| `HeldClaimsAreCurrent`, `CountsAreExact`, `QueueImplementsLedger` | the same, where a Claim that took effect is answered: `HeldIsCurrent`, `AttemptsCountFailures`, `ImplementsLedger` |
| `ShutdownFindsClaims` | the same, where no release fails either: `ClaimsAreHeld` |
| `FleetTypeCorrect`, `FleetInvariant` | key and peer set, score, time to live, source, fault bound |
| `SameViewsDivide`, `RunningViewsOwnAll`, `RestoredModelsAreCurrent` | the same: `SameViewIsDisjoint`, `RunningViewsCover`, `CacheIsCoherent` |
| `SomePeerBeatsAll` | score and nonempty finite set of peers: some peer owns a key |
| `MigrationsInvHolds` and the theorems of its parts | set of workers, migrators, dry runs and creators, number of files, fault bound |
| `MigrationsImplementsProvisioning` | the same: every step applies one file, the next one, or changes nothing in `Provisioning` |
| `DruidTypeOK`, `DruidSlotsAreHeld`, `DruidOnePerPeriod`, `DruidAnswerIsWhole`, `DruidWindowsAreCounted` | callers, ranges, rows, window, slots, retries |
| `DelayIsCappedDoublingOf` | width, base, cap and attempt: `retryDelay` is `CappedDoubling` |
| `ScanSettingsServe`, `ScanLeaseCoversWork`, `ScanDelayDoubles`, `ScanBackoffSpacesOut` | width of a duration, defaults and settings: `SettingsServe`, `LeaseCoversWork`, `DelayIsCappedDoubling`, `BackoffSpacesOut` |
| `ScanKeepsSteadyReady`, `ScanKeepsSteadyRow` | the same, with every slicing, cache, outage and restart: `SteadyIsReady`, `SteadyIsNotRetired` |

**The queue's argument.** None of its three promises is inductive alone. That a
lease outlives a fit needs to know that it did so from the moment Extend was
applied, and that `Done` and `Extend` of other workers cannot touch the row:
`CoveredIsLeased` carries the lease from Extend to the deadline, and its exclusion
follows because one row has one `claimed_by`. That a success has its model needs
`TrainedHasModel`: between Put and Done the model is fresh, so no Sweep collects it,
and a retirement that deletes it deletes the row with it, so that Done, which names
the claimant, then writes nothing. `TrainingIsHeld` ties goroutines to the retrain
step and to `held`. `QueueInv` is the conjunction; the proof has one step per action.

**The ledger's argument.** With `ClaimsAnswer` (Claim is not among the calls that take
effect and report an error) the count a worker holds is the count of the row, in each of
the ways a row can change (`RowMoves`: it ages, is extended, claimed, judged, added or
removed): only a judge moves the count, and a judge frees the row. A judge therefore
writes the row's own count, that count plus one, or zero, which makes counts exact and
each way a row changes a move of its ledger entry. That a move is its holder's own needs
the goroutine as well: the worker a step takes `renew`, `judge` or `return` from, in
`Owes`, is the one whose name the row has (`FinishedSheds`, `ClaimAnswers`), it owes each
once per grant, and nothing but a Claim gives it anything to owe (`StepOwes`). An
overtaken finish therefore cannot pass for a move: it leaves the row alone. `ModelStays` is the same for models,
and `TrainedHasModel` gives a success its model. Without `ClaimsAnswer` these theorems
are false, as `queue_lost_claim` shows. `ShutdownFindsClaims` needs that releases do not
fail as well: a refused release is dropped from `held` with its claim still in the table.

**The fleet's argument.** Ownership is decided by `Beats`, a total order of the
peers of a key, so a finite set of them has a best one. Equal views have one best peer,
and a worker is always in its own view (`SelfInView`), so two workers cannot both be it.
If all views name running workers only, the best of all running workers is in its own
view and nobody there beats it: it owns the key, whatever the others see. The cache is
coherent because a timestamp is read before the model it files (`TimestampFirst`) and a
stored model is always the latest write (`ModelIsLatest`).

**Provisioning's argument.** Only the lock's holder is inside a transaction
(`LockIsHeld`), so between its recheck and its commit nobody changes the ledger, and a
file it writes is not there yet (`WritesOnce`). A process has left out only files that
are applied (`SkippedIsApplied`: entries are never removed), so the next file of the
holder is the first missing one, which keeps the ledger a prefix and makes each Commit
one step of `Provisioning`. `NoRaceErrors` follows because the only failures left are
faults or a missing privilege.

**The access path's argument.** `held` equals the number of callers that have a slot:
a hand-over changes who, not how many, and a caller that leaves the queue at a
cancellation never had one. The queues hold the callers that block (`SlotWaiters`,
`TokenWaiters`), as Go's channels do, which the hand-over needs. For the answer, a query has every
row before the start of its window and none after it; half-open windows make the
next part disjoint and later, so a stitch never fails. For the count (`CountInv`), a query
under way has asked for full windows only and has a rest left, and `OneMoreIsCounted`
says of the division in `windowCount` that the rest is worth exactly one window more
when the next one reaches the end, and at least one otherwise.

**The backoff's argument.** The loop returns early at the cap or at an overflow, so its
entry is the doubling of the base as long as that is below the cap, and the cap from
then on (`DoubledIsCapped`, by induction over the rounds). An overflow can only occur
above the cap: twice a delay below the cap is below twice `MaxDuration`, and wraps below
zero, which is the other half of the early return.

**Settings.** Validate checks TTL and cap against the defaults they will run with, and
`normalized` moves a cap that collides above its base; the proof follows both through
the overflow of doubling. The lease's windows are rounded up by a sum that may wrap; it
then counts one window, and the premise that LOOKBACK is at most half a duration makes
that the right number.

**The scan's argument.** The windows cover the scanned range (`WindowsCoverRange`), so the
merged extent has the earliest and the latest point of the whole range
(`MergedExtent`): slicing loses nothing. A metric that was steady has a point in the
first and in the last minute of it, and Validate's two INTERVALs of slack leave a span
of at least LOOKBACK (`SteadyScanIsLong`). `StaysAlive` is the inductive part: whatever
the cache has been through since, a cache filled while the metric was steady still has
it as long as LOOKBACK, with a last point that is at most a minute older than the scan;
while the scan is fresh, or a minute short of STALE_AFTER old, STALE_AFTER then cannot be
exceeded (`SpeakingIsAlive`). `Roomy` names what this
needs beyond Validate: an INTERVAL of at least a minute, an explicit or roomy
SCAN_RANGE, and sums that a duration can represent.

**Induction.** The library's induction theorems take a predicate as a parameter. They are
replaced by `Induction` in `Arithmetic`, which speaks of a set and follows from "less
than" being well founded; `IterationExists` and `PowerOfTwoDoubles` give recursive
functions their equations, and `SomePeerBeatsAll` uses the well-founded order of finite
sets in the same way.

**Assumptions.** All are named ASSUMEs of the modules, evaluated by TLC in every
run. They give constants their types and ranges; nothing about a computed value is
assumed. `NoRowAssumption` and `LedgerAssumption` say that the value for a missing row
is neither a row nor an entry. `HorizonAssumption` bounds the settings whose ticks are
followed, because ages saturate there.

**Model-checked only.** Liveness, which is out of the prover's reach: `EveryClaimEnds`,
`OrphanModelIsCollected`, `DueRowIsClaimed`, `KeysKeepPublishing`, `EveryWorkerIsReady`,
`EveryQueryEnds` and `StoppedIsRetired`. Every invariant, action property and refinement
that a run checks is a theorem.

## Abstractions, and what is not modelled

- `nextRun` is any distance in `1 .. MaxCronGap`, or an error: the cron grammar and
  time zones are a library's. A schedule that never fires again is not covered.
- In `RetrainQueue` and `Fleet` a scan is a member of a constant set (alive, ready, or
  nothing new). `Scan` models how it comes about, for one metric.
- SNAPSHOT_TTL, at least an hour, is assumed not to pass between a Put and the Done after
  it (`ModelAges`), and a lease is as long as `LeaseCoversWork` makes it: how long retries
  and waits for Druid take is not modelled, so a fit cut short by its deadline is a
  failed fit.
- Workers and database share one clock rate; skew between hosts is left out.
- `SKIP LOCKED` passes over rows that another statement is about to change; that
  statement is then the earlier step.
- `Fleet` covers the store path. The loop without a store (`fitForecast`, one fit
  per key and tick, no shared state) is left out, and with it membership mode `self`.
- A forecast that has no point for a minute (NaN, a model behind the horizon) does
  not appear in `Fleet`; values of points are not part of it. A rejected point is
  (`Emit`), without a property: its minute is gone with the tick, and what consumers
  saw is not part of the model.
- SHARD_IDs are distinct. DNS answers come from a constant set.
- `DruidAccess` runs `Series`; `Hashes` takes the same path through `sql` and its merge is
  in `Scan`. Status codes, bodies and timeouts are three outcomes: rows, an error that is
  retried, one that is not. A row without a readable time, which the code drops with a
  warning, and values (NaN) are left out, as is the length of the retry delay.
- `Settings` covers durations. Counts, names, membership mode, the environment and
  SNAPSHOT_TTL against the default cron's gap are left out. Each field is one unit of a small width, so
  the ratios of the deployed defaults are not kept.
- `Migrations` identifies a file with the one table it creates or adopts; the text of a
  file is one statement that succeeds or fails. DDL takes effect at commit.
- Not modelled: the DSN assembly, the gzip/JSON codec, logging, flags and the dependency
  report, which have no state of their own. In `RetrainQueue` a store that is not ready,
  a snapshot that does not decode and a query that exhausts its retries appear as
  refused calls or failed fits.

## Plan

Done, in this order: `Backoff`, `RetrainQueue` with `RetrainLedger`, the queue's
safety proofs, `Fleet` and its proofs, `Migrations` with `Provisioning` and their
proofs, `Settings` and `Scan`, `DruidAccess` and its proofs, the proofs that the queue
implements its ledger, and those about the backoff, the settings, the scan and the
windows.

Next, theorems: what a retirement by a stale scan can and cannot break (the premise under
which a fit is never trained twice at once), and that a shutdown's count is exact where
every finish is answered.

Next, model:

1. `Fleet`: how late a key that moved is restored (`docs/ARCHITECTURE.md:136`), and
   points for a model behind the horizon.
2. Gaps of single rows' crons against SNAPSHOT_TTL.
