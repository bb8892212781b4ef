----------------------------- MODULE RetrainQueue -----------------------------
(***************************************************************************)
(* The retrain queue: workers that share the table forecast.retrain and    *)
(* the table baselines.snapshots, each running the store half of a tick    *)
(* (publisher.go runTick: retire, sweep, schedule, claim, train, finish)   *)
(* and handing its claims back on shutdown (releaseHeld).                  *)
(*                                                                         *)
(* A statement of store_postgres.go is one step.  Time is kept as          *)
(* distances from now, so that a state repeats: Tick brings every due time *)
(* and every lease one unit nearer.                                        *)
(***************************************************************************)
EXTENDS Integers, FiniteSets, Backoff

CONSTANTS
  Key,               \* metric hashes
  Worker,            \* SHARD_IDs, one process each
  Nobody,            \* claimed_by IS NULL
  NoRow,             \* no row in forecast.retrain for a key
  TrainConcurrency,  \* TRAIN_CONCURRENCY: the claim limit and the pool size
  RetrainLease,      \* RETRAIN_LEASE
  RetrainRetry,      \* RETRAIN_RETRY, the backoff base
  RetrainRetryMax,   \* RETRAIN_RETRY_MAX, the backoff cap
  MaxCronGap,        \* the longest distance from a tick to the next cron firing
  ScanLag,           \* how long a tick's scan may take
  Sweeps,            \* whether SNAPSHOT_TTL is set
  Views,             \* what a tick's scan may say of the keys
  Refused,           \* calls that may fail without effect
  Lost,              \* calls that may take effect and still report an error
  Restarted,         \* workers that may be stopped
  Killable,          \* workers that may be killed
  Prompt,            \* whether store calls take less than an INTERVAL
  Operator,          \* whether the plugin's admin edits rows
  Past,              \* bound: how long overdue a row is told apart
  MaxAttempts,       \* bound: where the failure count stops growing
  MaxFaults          \* bound: failed calls, stops and crashes in a behaviour

(* Every call of a worker that may fail: the Druid scan and the store's. *)
Call == {"scan", "retire", "sweep", "schedule", "claim", "extend", "put", "done", "release"}

View == [proven : BOOLEAN, alive : SUBSET Key, ready : SUBSET Key]

ASSUME NobodyAssumption == Nobody \notin Worker
ASSUME DurationAssumption ==
  /\ RetrainLease \in Nat \ {0}
  /\ RetrainRetry \in Nat \ {0}
  /\ RetrainRetryMax \in Nat /\ RetrainRetry < RetrainRetryMax
  /\ RetrainRetryMax <= MaxDuration
  /\ MaxCronGap \in Nat \ {0}
  /\ ScanLag \in Nat
ASSUME BoundAssumption ==
  TrainConcurrency \in Nat \ {0} /\ Past \in Nat /\ MaxAttempts \in Nat \ {0} /\ MaxFaults \in Nat
ASSUME SweepsAssumption == Sweeps \in BOOLEAN
ASSUME ViewAssumption == \A v \in Views : v \in View /\ v.ready \subseteq v.alive
ASSUME FaultAssumption ==
  /\ Refused \subseteq Call /\ Lost \subseteq Call
  /\ Restarted \subseteq Worker /\ Killable \subseteq Worker

VARIABLES
  table,      \* forecast.retrain, scope 'baseline', org 0: key -> row
  snapshots,  \* baselines.snapshots: absent, or updated within SNAPSHOT_TTL or not
  proc,       \* what each worker's Run loop is about to do
  ticker,     \* workers with a firing of their ticker to consume
  stopping,   \* workers whose context is cancelled
  age,        \* time since the worker's tick read its clock
  doomed,     \* keys the tick found dead (retiredKeys)
  ready,      \* keys the tick may schedule (readyKeys)
  job,        \* the training goroutine of a worker for a key
  held,       \* Publisher.held: attempts of the claim, or NotHeld
  faults      \* failures so far

vars == <<table, snapshots, proc, ticker, stopping, age, doomed, ready, job, held, faults>>

-------------------------------------------------------------------------------
(* Rows, goroutines and time *)

NotHeld == -1
Lapsed == -1     \* claimed_until is NULL or in the past

Attempts == 0 .. MaxAttempts
MaxDelay == IF MaxCronGap > RetrainRetryMax THEN MaxCronGap ELSE RetrainRetryMax
MaxAge == MaxDelay + Past

Row == [ next     : -Past .. MaxDelay,           \* next_run_at, from now
         by       : Worker \cup {Nobody},        \* claimed_by
         until    : Lapsed .. RetrainLease,      \* claimed_until, from now
         attempts : Attempts,
         status   : {"none", "ok", "error"},     \* last_status
         recent   : BOOLEAN,                     \* last_run_at within SNAPSHOT_TTL
         enabled  : BOOLEAN ]                    \* enabled, and not superseded

ASSUME NoRowAssumption == NoRow \notin Row

Job == [ phase   : {"none", "claimed", "extended", "fitting", "trained", "failed"},
         left    : 0 .. RetrainLease,            \* until the fit's deadline
         covered : BOOLEAN ]                     \* history: see LeaseCoversFit

NoJob == [phase |-> "none", left |-> 0, covered |-> FALSE]

TypeOK ==
  /\ table \in [Key -> Row \cup {NoRow}]
  /\ snapshots \in [Key -> {"absent", "fresh", "expired"}]
  /\ proc \in [Worker -> {"down", "starting", "idle", "retire", "sweep", "schedule", "claim",
                         "train"}]
  /\ ticker \in SUBSET Worker
  /\ stopping \in SUBSET Worker
  /\ age \in [Worker -> 0 .. MaxAge]
  /\ doomed \in [Worker -> SUBSET Key]
  /\ ready \in [Worker -> SUBSET Key]
  /\ job \in [Worker -> [Key -> Job]]
  /\ held \in [Worker -> [Key -> Attempts \cup {NotHeld}]]
  /\ faults \in 0 .. MaxFaults

Clip(d) == IF d < -Past THEN -Past ELSE d
Down(d, floor) == IF d > floor THEN d - 1 ELSE floor
Capped(n, bound) == IF n < bound THEN n ELSE bound

(***************************************************************************)
(* A row retires, expires or is judged under a statement that names it by  *)
(* its key; Done and Extend also name the worker that claimed it, and no   *)
(* lease: a lapsed claim nobody took over is still its worker's.           *)
(***************************************************************************)
Exists(k) == table[k] # NoRow

MutOwnerGuard(w, k) == Exists(k)

OwnerGuard(w, k) == Exists(k) /\ table[k].by = w

FreshRow == [ next |-> 0, by |-> Nobody, until |-> Lapsed, attempts |-> 0,
              status |-> "none", recent |-> FALSE, enabled |-> TRUE ]

MutLeasable(row) == row.enabled /\ row.next <= 0

MutLeasableUnclaimed(row) == row.enabled /\ row.next <= 0 /\ row.by = Nobody

Leasable(row) == row.enabled /\ row.next <= 0 /\ row.until = Lapsed

Claimable(k) == Exists(k) /\ Leasable(table[k])

(***************************************************************************)
(* ORDER BY next_run_at LIMIT n.  A row that SKIP LOCKED passes over is    *)
(* one another statement is about to claim, finish or delete: that         *)
(* statement then counts as the earlier step.                              *)
(***************************************************************************)
MutOldest(S) ==
  /\ S \subseteq {k \in Key : Claimable(k)}
  /\ Cardinality(S) = Capped(Cardinality({k \in Key : Claimable(k)}), TrainConcurrency)

Oldest(S) ==
  /\ S \subseteq {k \in Key : Claimable(k)}
  /\ Cardinality(S) = Capped(Cardinality({k \in Key : Claimable(k)}), TrainConcurrency)
  /\ \A k \in S, other \in {k \in Key : Claimable(k)} \ S : table[k].next <= table[other].next

(***************************************************************************)
(* How a store call may end.  A cancelled context fails the call, before   *)
(* or (Lost) after the database executed it.                               *)
(***************************************************************************)
Answers(call, cancelled) ==
  (IF cancelled THEN {"refused"} ELSE {"ok"})
    \cup (IF call \in Refused /\ faults < MaxFaults THEN {"refused"} ELSE {})
    \cup (IF call \in Lost /\ faults < MaxFaults THEN {"lost"} ELSE {})

Charge(answer, cancelled) ==
  faults' = IF answer = "ok" \/ (answer = "refused" /\ cancelled)
            THEN faults ELSE Capped(faults + 1, MaxFaults)

Cancelled(w) == w \in stopping

(* A fit that may still read Druid and store its model. *)
Training(w, k) == job[w][k].phase = "fitting" /\ job[w][k].left > 0

SetJob(w, k, j) == job' = [job EXCEPT ![w][k] = j]

Uncovered(j) == [j EXCEPT !.covered = FALSE]

(***************************************************************************)
(* Rows that go away take with them whatever claim a fit was covered by.   *)
(***************************************************************************)
Remove(keys) ==
  /\ table' = [k \in Key |-> IF k \in keys THEN NoRow ELSE table[k]]
  /\ job' = [w \in Worker |-> [k \in Key |->
               IF k \in keys THEN Uncovered(job[w][k]) ELSE job[w][k]]]
-------------------------------------------------------------------------------
(* Processes *)

(* Between two ticks, before the first scan that answered or after one. *)
Idle(w) == proc[w] \in {"starting", "idle"}

(* Run ticks immediately, then on every firing of its ticker. *)
Start(w) ==
  /\ proc[w] = "down"
  /\ proc' = [proc EXCEPT ![w] = "starting"]
  /\ ticker' = ticker \cup {w}
  /\ UNCHANGED <<table, snapshots, stopping, age, doomed, ready, job, held, faults>>

(***************************************************************************)
(* SIGTERM cancels the context: fits in flight reach their deadline.       *)
(***************************************************************************)
Stop(w) ==
  /\ w \in Restarted
  /\ proc[w] # "down"
  /\ w \notin stopping
  /\ faults < MaxFaults
  /\ faults' = faults + 1
  /\ stopping' = stopping \cup {w}
  /\ job' = [job EXCEPT ![w] = [k \in Key |-> [job[w][k] EXCEPT !.left = 0]]]
  /\ UNCHANGED <<table, snapshots, proc, ticker, age, doomed, ready, held>>

(* What a process forgets when it ends. *)
Forget(w) ==
  /\ proc' = [proc EXCEPT ![w] = "down"]
  /\ ticker' = ticker \ {w}
  /\ stopping' = stopping \ {w}
  /\ age' = [age EXCEPT ![w] = 0]
  /\ doomed' = [doomed EXCEPT ![w] = {}]
  /\ ready' = [ready EXCEPT ![w] = {}]
  /\ job' = [job EXCEPT ![w] = [k \in Key |-> NoJob]]
  /\ held' = [held EXCEPT ![w] = [k \in Key |-> NotHeld]]

Crash(w) ==
  /\ w \in Killable
  /\ proc[w] # "down"
  /\ faults < MaxFaults
  /\ faults' = faults + 1
  /\ Forget(w)
  /\ UNCHANGED <<table, snapshots>>

-------------------------------------------------------------------------------
(* The tick's housekeeping *)

(***************************************************************************)
(* One clock reading for the whole tick, then the scan and, when the scan  *)
(* proves anything, the BaselineKeys query; the rows it dooms are deleted  *)
(* by the next statement, on what was read here.  A scan that fails falls  *)
(* back to the last good one; with none, the tick ends there.              *)
(***************************************************************************)
Dead(view) == {k \in Key : view.proven /\ Exists(k) /\ k \notin view.alive}

ScanAnswers(w, view, lag) ==
  /\ age' = [age EXCEPT ![w] = Capped(lag, MaxAge)]
  /\ doomed' = [doomed EXCEPT ![w] = Dead(view)]
  /\ ready' = [ready EXCEPT ![w] = view.ready]
  /\ proc' = [proc EXCEPT ![w] = IF Dead(view) = {} THEN "sweep" ELSE "retire"]
  /\ UNCHANGED faults

ScanFails(w) ==
  /\ proc[w] = "starting"
  /\ "scan" \in Refused
  /\ faults < MaxFaults
  /\ faults' = faults + 1
  /\ UNCHANGED <<age, doomed, ready, proc>>

StartTick(w) ==
  /\ Idle(w)
  /\ w \in ticker
  /\ ~Cancelled(w)
  /\ ScanFails(w) \/ \E view \in Views, lag \in 0 .. ScanLag : ScanAnswers(w, view, lag)
  /\ ticker' = ticker \ {w}
  /\ UNCHANGED <<table, snapshots, stopping, job, held>>

(***************************************************************************)
(* Model and row go in one transaction.                                    *)
(***************************************************************************)
WithoutModels(keys) == [k \in Key |-> IF k \in keys THEN "absent" ELSE snapshots[k]]

Retire(w) ==
  /\ proc[w] = "retire"
  /\ \E answer \in Answers("retire", Cancelled(w)) :
       /\ Charge(answer, Cancelled(w))
       /\ IF answer = "refused"
          THEN UNCHANGED <<table, snapshots, job>>
          ELSE Remove(doomed[w]) /\ snapshots' = WithoutModels(doomed[w])
  /\ doomed' = [doomed EXCEPT ![w] = {}]
  /\ proc' = [proc EXCEPT ![w] = "sweep"]
  /\ UNCHANGED <<ticker, stopping, age, ready, held>>

(***************************************************************************)
(* A model nothing refreshed for SNAPSHOT_TTL, whose row did not run       *)
(* within it either, or is gone.  With no SNAPSHOT_TTL nothing is swept.   *)
(***************************************************************************)
MutCollectable(k) == snapshots[k] = "expired"

MutCollectableOfRow(k) == snapshots[k] = "expired" /\ Exists(k) /\ ~table[k].recent

Collectable(k) == snapshots[k] = "expired" /\ ~(Exists(k) /\ table[k].recent)

Sweep(w) ==
  /\ proc[w] = "sweep"
  /\ \E answer \in IF Sweeps THEN Answers("sweep", Cancelled(w)) ELSE {"ok"} :
       /\ Charge(answer, Cancelled(w))
       /\ snapshots' = IF answer = "refused" \/ ~Sweeps THEN snapshots
                       ELSE WithoutModels({k \in Key : Collectable(k)})
  /\ proc' = [proc EXCEPT ![w] = "schedule"]
  /\ UNCHANGED <<table, ticker, stopping, age, doomed, ready, job, held>>

(***************************************************************************)
(* ON CONFLICT DO NOTHING: a row that exists keeps its schedule and its    *)
(* claim.  An empty key list costs no statement.                           *)
(***************************************************************************)
Inserted(k, keys) == k \in keys /\ ~Exists(k)

Schedule(w) ==
  /\ proc[w] = "schedule"
  /\ \E answer \in IF ready[w] = {} THEN {"ok"} ELSE Answers("schedule", Cancelled(w)) :
       /\ Charge(answer, Cancelled(w))
       /\ table' = IF answer = "refused" THEN table
                   ELSE [k \in Key |-> IF Inserted(k, ready[w]) THEN FreshRow ELSE table[k]]
  /\ ready' = [ready EXCEPT ![w] = {}]
  /\ proc' = [proc EXCEPT ![w] = "claim"]
  /\ UNCHANGED <<snapshots, ticker, stopping, age, doomed, job, held>>

-------------------------------------------------------------------------------
(* Claim, extend, fit *)

Leased(row, w) == [row EXCEPT !.by = w, !.until = RetrainLease]

(***************************************************************************)
(* The claims are held before any goroutine starts.  A claim whose answer  *)
(* is lost leases its rows to a worker that does not know it.  A tick with *)
(* nothing to train goes on to publish (not modelled) and ends.            *)
(***************************************************************************)
MutHoldClaims(w, keys) ==
  held' = [held EXCEPT ![w] = [k \in Key |->
             IF k \in keys /\ held[w][k] = NotHeld THEN table[k].attempts ELSE held[w][k]]]

HoldClaims(w, keys) ==
  held' = [held EXCEPT ![w] = [k \in Key |-> IF k \in keys THEN table[k].attempts ELSE held[w][k]]]

Claim(w) ==
  /\ proc[w] = "claim"
  /\ \E answer \in Answers("claim", Cancelled(w)), keys \in SUBSET Key :
       /\ Oldest(keys)
       /\ Charge(answer, Cancelled(w))
       /\ table' = IF answer = "refused" THEN table
                   ELSE [k \in Key |-> IF k \in keys THEN Leased(table[k], w) ELSE table[k]]
       /\ IF answer = "ok" /\ keys # {}
          THEN /\ job' = [job EXCEPT ![w] = [k \in Key |->
                            IF k \in keys THEN [NoJob EXCEPT !.phase = "claimed"] ELSE NoJob]]
               /\ HoldClaims(w, keys)
               /\ proc' = [proc EXCEPT ![w] = "train"]
               /\ UNCHANGED age
          ELSE /\ proc' = [proc EXCEPT ![w] = "idle"]
               /\ age' = [age EXCEPT ![w] = 0]
               /\ UNCHANGED <<job, held>>
  /\ UNCHANGED <<snapshots, ticker, stopping, doomed, ready>>

(* A cancelled context ends the loop that hands claims to the pool. *)
NotStarted(w, k) ==
  /\ job[w][k].phase = "claimed"
  /\ Cancelled(w)
  /\ SetJob(w, k, NoJob)
  /\ UNCHANGED <<table, snapshots, proc, ticker, stopping, age, doomed, ready, held, faults>>

(***************************************************************************)
(* A worker that no longer owns the row skips it (and keeps it in held); a *)
(* failed extension is logged and the fit runs.                            *)
(***************************************************************************)
Extend(w, k) ==
  /\ job[w][k].phase = "claimed"
  /\ \E answer \in Answers("extend", Cancelled(w)) :
       LET applied == answer # "refused" /\ OwnerGuard(w, k)
       IN  /\ Charge(answer, Cancelled(w))
           /\ table' = IF applied THEN [table EXCEPT ![k].until = RetrainLease] ELSE table
           /\ SetJob(w, k, IF answer = "ok" /\ ~applied THEN NoJob
                           ELSE [NoJob EXCEPT !.phase = "extended", !.covered = applied])
  /\ UNCHANGED <<snapshots, proc, ticker, stopping, age, doomed, ready, held>>

(* context.WithTimeout(ctx, RetrainLease) *)
MutFitDeadline == RetrainLease + 1

FitDeadline == RetrainLease

FitStarts(w, k) ==
  /\ job[w][k].phase = "extended"
  /\ SetJob(w, k, [job[w][k] EXCEPT !.phase = "fitting",
                                    !.left = IF Cancelled(w) THEN 0 ELSE FitDeadline])
  /\ UNCHANGED <<table, snapshots, proc, ticker, stopping, age, doomed, ready, held, faults>>

(***************************************************************************)
(* The row is below LOOKBACK, Druid or the fit failed, or the deadline     *)
(* passed: err # nil without a Put.                                        *)
(***************************************************************************)
FitFails(w, k) ==
  /\ job[w][k].phase = "fitting"
  /\ SetJob(w, k, [NoJob EXCEPT !.phase = "failed"])
  /\ UNCHANGED <<table, snapshots, proc, ticker, stopping, age, doomed, ready, held, faults>>

(***************************************************************************)
(* The model is stored whoever owns the row.  A cron or a timezone that    *)
(* does not parse fails a retrain whose model is already stored.           *)
(***************************************************************************)
Put(w, k) ==
  /\ Training(w, k)
  /\ \E answer \in Answers("put", FALSE), parses \in BOOLEAN :
       /\ Charge(answer, FALSE)
       /\ snapshots' = IF answer = "refused" THEN snapshots
                       ELSE [snapshots EXCEPT ![k] = "fresh"]
       /\ SetJob(w, k, [NoJob EXCEPT !.phase = IF answer = "ok" /\ parses
                                               THEN "trained" ELSE "failed"])
  /\ UNCHANGED <<table, proc, ticker, stopping, age, doomed, ready, held>>

-------------------------------------------------------------------------------
(* Done *)

(***************************************************************************)
(* The new due time is counted from the tick's own clock reading.          *)
(***************************************************************************)
Judged(row, delay, status, attempts) ==
  [row EXCEPT !.next = Clip(delay), !.by = Nobody, !.until = Lapsed,
              !.attempts = attempts, !.status = status, !.recent = TRUE]

MutUnhold(w, k, answer) == held' = [held EXCEPT ![w][k] = NotHeld]

(* finish drops the claim only when the store accepted the write. *)
Unhold(w, k, answer) ==
  held' = [held EXCEPT ![w][k] = IF answer = "ok" THEN NotHeld ELSE @]

(***************************************************************************)
(* Zero rows affected is not an error: the claim was lost.                 *)
(***************************************************************************)
Done(w, k, answer, delay, status, attempts) ==
  table' = IF answer # "refused" /\ OwnerGuard(w, k)
           THEN [table EXCEPT ![k] = Judged(@, delay, status, attempts)]
           ELSE table

FinishTrained(w, k) ==
  /\ job[w][k].phase = "trained"
  /\ \E answer \in Answers("done", Cancelled(w)), gap \in 1 .. MaxCronGap :
       /\ Charge(answer, Cancelled(w))
       /\ Done(w, k, answer, gap - age[w], "ok", 0)
       /\ Unhold(w, k, answer)
  /\ SetJob(w, k, NoJob)
  /\ UNCHANGED <<snapshots, proc, ticker, stopping, age, doomed, ready>>

(* The claim's count plus one; the goroutine's claim is the one in held. *)
Failures(w, k) == Capped(held[w][k] + 1, MaxAttempts)

FinishFailed(w, k) ==
  /\ job[w][k].phase = "failed"
  /\ \E answer \in Answers("done", Cancelled(w)) :
       /\ Charge(answer, Cancelled(w))
       /\ Done(w, k, answer, RetryDelay(RetrainRetry, RetrainRetryMax, Failures(w, k)) - age[w],
               "error", Failures(w, k))
       /\ Unhold(w, k, answer)
  /\ SetJob(w, k, NoJob)
  /\ UNCHANGED <<snapshots, proc, ticker, stopping, age, doomed, ready>>

EndTick(w) ==
  /\ proc[w] = "train"
  /\ \A k \in Key : job[w][k] = NoJob
  /\ proc' = [proc EXCEPT ![w] = "idle"]
  /\ age' = [age EXCEPT ![w] = 0]
  /\ UNCHANGED <<table, snapshots, ticker, stopping, doomed, ready, job, held, faults>>

(***************************************************************************)
(* releaseHeld, one held claim at a time and under a context of its own;   *)
(* an entry whose release fails is never read again.                       *)
(***************************************************************************)
Release(w, k) ==
  /\ Idle(w)
  /\ Cancelled(w)
  /\ held[w][k] # NotHeld
  /\ \E answer \in Answers("release", FALSE) :
       /\ Charge(answer, FALSE)
       /\ Done(w, k, answer, 0, "error", held[w][k])
  /\ held' = [held EXCEPT ![w][k] = NotHeld]
  /\ UNCHANGED <<snapshots, proc, ticker, stopping, age, doomed, ready, job>>

Exit(w) ==
  /\ Idle(w)
  /\ Cancelled(w)
  /\ \A k \in Key : held[w][k] = NotHeld
  /\ Forget(w)
  /\ UNCHANGED <<table, snapshots, faults>>

-------------------------------------------------------------------------------
(* The environment *)

(***************************************************************************)
(* A unit of time is one INTERVAL.  Under Prompt no worker spends one      *)
(* inside a store call or with a tick due: time passes while it waits for  *)
(* its ticker or for a fit.                                                *)
(***************************************************************************)
Waiting(w) ==
  \/ proc[w] = "down"
  \/ Idle(w) /\ w \notin ticker /\ ~Cancelled(w)
  \/ /\ proc[w] = "train"
     /\ \E k \in Key : Training(w, k)
     /\ \A k \in Key : Training(w, k) \/ job[w][k] = NoJob

Elapsed(j) ==
  CASE j.phase = "extended" -> Uncovered(j)
    [] j.phase = "fitting"  -> [j EXCEPT !.left = Down(@, 0)]
    [] OTHER                -> j

Nearer(row) == [row EXCEPT !.next = Clip(@ - 1), !.until = Down(@, Lapsed)]

Tick ==
  /\ Prompt => \A w \in Worker : Waiting(w)
  /\ table' = [k \in Key |-> IF Exists(k) THEN Nearer(table[k]) ELSE NoRow]
  /\ job' = [w \in Worker |-> [k \in Key |-> Elapsed(job[w][k])]]
  /\ age' = [w \in Worker |-> IF proc[w] = "down" \/ Idle(w) THEN age[w]
                              ELSE Capped(age[w] + 1, MaxAge)]
  /\ ticker' = {w \in Worker : proc[w] # "down"}
  /\ UNCHANGED <<snapshots, proc, stopping, doomed, ready, held, faults>>

(***************************************************************************)
(* SNAPSHOT_TTL (at least 1h) passes over a model or over a row's last     *)
(* run; it never passes between a Put and the Done that follows it.        *)
(***************************************************************************)
ModelAges(k) ==
  /\ snapshots[k] = "fresh"
  /\ \A w \in Worker : job[w][k].phase # "trained"
  /\ snapshots' = [snapshots EXCEPT ![k] = "expired"]
  /\ UNCHANGED <<table, proc, ticker, stopping, age, doomed, ready, job, held, faults>>

RunAges(k) ==
  /\ Exists(k)
  /\ table[k].recent
  /\ table' = [table EXCEPT ![k].recent = FALSE]
  /\ UNCHANGED <<snapshots, proc, ticker, stopping, age, doomed, ready, job, held, faults>>

(* The plugin's admin page: a row is paused, resumed or deleted. *)
AdminToggles(k) ==
  /\ Operator
  /\ Exists(k)
  /\ table' = [table EXCEPT ![k].enabled = ~@]
  /\ UNCHANGED <<snapshots, proc, ticker, stopping, age, doomed, ready, job, held, faults>>

AdminDeletes(k) ==
  /\ Operator
  /\ Exists(k)
  /\ Remove({k})
  /\ UNCHANGED <<snapshots, proc, ticker, stopping, age, doomed, ready, held, faults>>

-------------------------------------------------------------------------------

Init ==
  /\ table = [k \in Key |-> NoRow]
  /\ snapshots = [k \in Key |-> "absent"]
  /\ proc = [w \in Worker |-> "down"]
  /\ ticker = {}
  /\ stopping = {}
  /\ age = [w \in Worker |-> 0]
  /\ doomed = [w \in Worker |-> {}]
  /\ ready = [w \in Worker |-> {}]
  /\ job = [w \in Worker |-> [k \in Key |-> NoJob]]
  /\ held = [w \in Worker |-> [k \in Key |-> NotHeld]]
  /\ faults = 0

(* The training goroutine of a claim. *)
TrainHash(w, k) ==
  \/ NotStarted(w, k) \/ Extend(w, k) \/ FitStarts(w, k) \/ FitFails(w, k) \/ Put(w, k)
  \/ FinishTrained(w, k) \/ FinishFailed(w, k)

(* The Run loop of a worker. *)
Run(w) ==
  \/ StartTick(w) \/ Retire(w) \/ Sweep(w) \/ Schedule(w) \/ Claim(w) \/ EndTick(w) \/ Exit(w)
  \/ \E k \in Key : Release(w, k)

Environment ==
  \/ Tick
  \/ \E k \in Key : ModelAges(k) \/ RunAges(k) \/ AdminToggles(k) \/ AdminDeletes(k)
  \/ \E w \in Worker : Start(w) \/ Stop(w) \/ Crash(w)

Next ==
  \/ \E w \in Worker : Run(w) \/ \E k \in Key : TrainHash(w, k)
  \/ Environment

Spec == Init /\ [][Next]_vars
-------------------------------------------------------------------------------
(* What the queue promises *)

(***************************************************************************)
(* While a fit runs on a lease its worker extended, and whose answer came  *)
(* at once and whose row nobody deleted, the row is leased to that worker  *)
(* for at least as long as the fit may still take (publisher.go trainHash: *)
(* "it can neither outlive its claim ... nor be cut short").               *)
(***************************************************************************)
LeaseCoversFit ==
  \A w \in Worker, k \in Key :
    Training(w, k) /\ job[w][k].covered =>
      Exists(k) /\ table[k].by = w /\ table[k].until >= job[w][k].left

(***************************************************************************)
(* Two workers never train a key at once while both fits are so covered    *)
(* (store_postgres.go Extend: a fit "cannot be re-claimed and re-trained   *)
(* by a survivor at the same time").                                       *)
(***************************************************************************)
OneCoveredFit ==
  \A v, w \in Worker, k \in Key :
    /\ Training(v, k) /\ job[v][k].covered
    /\ Training(w, k) /\ job[w][k].covered
    => v = w

(***************************************************************************)
(* A row whose last run was a success within SNAPSHOT_TTL has its model:   *)
(* no order of late fits, retirements, sweeps and re-created rows leaves a *)
(* row reported as trained with nothing to publish from.                   *)
(***************************************************************************)
RecentOkHasModel ==
  \A k \in Key :
    Exists(k) /\ table[k].status = "ok" /\ table[k].recent => snapshots[k] # "absent"

(***************************************************************************)
(* A row's failure count moves only to zero by a success or up by one by a *)
(* failure, whoever judges it and whatever it read when it claimed the row *)
(* (store_postgres.go Done).                                               *)
(***************************************************************************)
AttemptsCountFailures ==
  [][ \A k \in Key :
        Exists(k) /\ Exists(k)' /\ table'[k].attempts # table[k].attempts =>
          \/ table'[k].attempts = 0 /\ table'[k].status = "ok"
          \/ table'[k].attempts = table[k].attempts + 1 /\ table'[k].status = "error" ]_vars

(***************************************************************************)
(* A row is never claimed by a worker that does not hold it for release:   *)
(* whatever fails, a shutdown finds every claim its process still has      *)
(* (publisher.go retrain: "must find every claim no goroutine took in the  *)
(* held set").  It needs a Claim that answers and a process that is not    *)
(* killed.                                                                 *)
(***************************************************************************)
ClaimsAreHeld ==
  \A w \in Worker \ Killable, k \in Key :
    Exists(k) /\ table[k].by = w => held[w][k] # NotHeld

(***************************************************************************)
(* A worker judges a row only with the failure count the row has: no       *)
(* stale entry of held survives to the worker's next claim of the row.     *)
(***************************************************************************)
HeldIsCurrent ==
  \A w \in Worker, k \in Key :
    Exists(k) /\ table[k].by = w /\ held[w][k] # NotHeld => held[w][k] = table[k].attempts

-------------------------------------------------------------------------------
(* Why the promises hold *)

(* A goroutine runs within its worker's retrain step, on a held claim. *)
TrainingIsHeld ==
  \A w \in Worker, k \in Key :
    job[w][k] # NoJob => proc[w] = "train" /\ held[w][k] # NotHeld

CoveredIsLeased ==
  \A w \in Worker, k \in Key :
    job[w][k].covered =>
      /\ job[w][k].phase \in {"extended", "fitting"}
      /\ job[w][k].phase = "extended" =>
           Exists(k) /\ table[k].by = w /\ table[k].until = RetrainLease
      /\ job[w][k].phase = "fitting" /\ job[w][k].left > 0 =>
           Exists(k) /\ table[k].by = w /\ table[k].until >= job[w][k].left

(* A success about to be recorded finds the model it stored. *)
TrainedHasModel ==
  \A w \in Worker, k \in Key :
    job[w][k].phase = "trained" /\ Exists(k) /\ table[k].by = w => snapshots[k] = "fresh"

(***************************************************************************)
(* What every step keeps: a goroutine's claim is held while it runs, a     *)
(* covered fit is leased from its Extend to its deadline, and a success is *)
(* only recorded over the model it stored.                                 *)
(***************************************************************************)
QueueInv == TrainingIsHeld /\ CoveredIsLeased /\ TrainedHasModel /\ RecentOkHasModel

-------------------------------------------------------------------------------
(* What the documentation says and the code does not do *)

(***************************************************************************)
(* A key is never trained by two workers at once, covered or not           *)
(* (docs/INTENTIONS.md v6: "a slow fit is never trained twice at once").   *)
(***************************************************************************)
NeverTrainedTwiceAtOnce ==
  \A v, w \in Worker, k \in Key : Training(v, k) /\ Training(w, k) => v = w

(***************************************************************************)
(* A shutdown that hands a row back leaves its failure count as it is      *)
(* (publisher.go releaseHeld: "The attempt count is left alone").          *)
(***************************************************************************)
ReleaseLeavesAttempts ==
  [][ \A w \in Worker, k \in Key :
        Release(w, k) /\ Exists(k) => table'[k].attempts = table[k].attempts ]_vars

-------------------------------------------------------------------------------
(***************************************************************************)
(* What a worker may still do about the grant it was last answered: Extend *)
(* before the fit, Done after it, and Done at shutdown.                    *)
(***************************************************************************)
Owes(w, k) ==
  (IF job[w][k].phase = "claimed" THEN {"renew"} ELSE {})
    \cup (IF job[w][k].phase # "none" THEN {"judge"} ELSE {})
    \cup (IF held[w][k] # NotHeld THEN {"return"} ELSE {})

(***************************************************************************)
(* The queue implements the ledger of what it promises per key, provided a *)
(* Claim that takes effect is answered: claimed_by alone, without a claim  *)
(* number, fences every late finish, so that a row is judged by the worker *)
(* it is granted to and by the goroutine of that very grant                *)
(* (store_postgres.go Done: "Only the owner of the claim may finish it").  *)
(***************************************************************************)
Ledger ==
  INSTANCE RetrainLedger WITH
    NoEntry <- NoRow,
    entry <- [k \in Key |-> IF ~Exists(k) THEN NoRow
                            ELSE [ holder   |-> table[k].by,
                                   lapsed   |-> table[k].until = Lapsed,
                                   failures |-> table[k].attempts,
                                   trained  |-> table[k].status = "ok" /\ table[k].recent ]],
    owes <- [w \in Worker |-> [k \in Key |-> Owes(w, k)]],
    model <- [k \in Key |-> snapshots[k] # "absent"]

ASSUME LedgerAssumption == NoRow \notin Ledger!Entry

ImplementsLedger == Ledger!Spec

-------------------------------------------------------------------------------
(* Liveness *)

(***************************************************************************)
(* A process that is up keeps running (a stopped one may stay down unless  *)
(* nothing ever stops it), contexts bound every fit, and time passes.      *)
(***************************************************************************)
Fairness ==
  /\ \A w \in Worker : WF_vars(Run(w) \/ \E k \in Key : TrainHash(w, k))
  /\ \A w \in Worker \ (Restarted \cup Killable) : WF_vars(Start(w))
  /\ WF_vars(Tick)
  /\ \A k \in Key : SF_vars(ModelAges(k)) /\ WF_vars(RunAges(k))

FairSpec == Spec /\ Fairness

(***************************************************************************)
(* Every due, unleased row is eventually claimed (or stops being due: an   *)
(* admin pauses it, or it is deleted): no row starves behind the claim     *)
(* limit or the failures of others.                                        *)
(***************************************************************************)
DueRowIsClaimed == \A k \in Key : Claimable(k) ~> ~Claimable(k)

(***************************************************************************)
(* Every claim of an enabled row ends, with the worker that died holding   *)
(* it replaced by a survivor (publisher.go retrain: "what lets a survivor  *)
(* pick up the rows a worker that died left behind").                      *)
(***************************************************************************)
Holds(w, k) == Exists(k) /\ table[k].by = w /\ table[k].enabled

EveryClaimEnds == \A w \in Worker, k \in Key : Holds(w, k) ~> ~Holds(w, k)

(***************************************************************************)
(* A model whose row is gone, also one a late Put re-created after the row *)
(* was retired, is eventually collected or has a row again                 *)
(* (store_postgres.go Retire: "a snapshot such a late Put re-creates is    *)
(* collected by SNAPSHOT_TTL").  It takes a SNAPSHOT_TTL: Sweeps.          *)
(***************************************************************************)
Orphan(k) == ~Exists(k) /\ snapshots[k] # "absent"

OrphanModelIsCollected == \A k \in Key : Orphan(k) ~> ~Orphan(k)
=============================================================================
