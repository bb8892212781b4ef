---------------------------------- MODULE Fleet ----------------------------------
(***************************************************************************)
(* The publishing half of a tick: workers that share a metric table by     *)
(* rendezvous hashing over the peers each of them sees (membership.go,     *)
(* shard.go), restore the models of the keys they own from                 *)
(* baselines.snapshots and publish one point per key and minute            *)
(* (publisher.go emit).  RetrainQueue models the other half; here a model  *)
(* is stored or collected at any time its steps may do so.                 *)
(*                                                                         *)
(* Time moves in halves of an INTERVAL of one minute, and is kept as       *)
(* distances from now: a worker's ticker may fire in the middle of a       *)
(* minute, and a tick that starts late is nearer to the next one.          *)
(***************************************************************************)
EXTENDS Integers, FiniteSets

CONSTANTS
  Key,               \* metric hashes
  Worker,            \* peer identities, numbered in the order of their names
  Ghost,             \* identities with no process behind them
  Score,             \* pairHash(key, peer)
  Sources,           \* where the peer set may come from (SHARD_MEMBERSHIP)
  Lists,             \* what SHARD_PEERS of a worker may name
  Endpoints,         \* what a lookup of SHARD_DNS may answer
  Alive,             \* the alive keys a scan may find
  WorkerTTL,         \* WORKER_TTL, in halves of an INTERVAL
  SnapshotCacheTTL,  \* SNAPSHOT_CACHE_TTL, in halves of an INTERVAL
  Mortal,            \* workers that may end, by a signal or a crash
  Collects,          \* whether models are retired or swept
  SlowTick,          \* bound: how long a tick may take
  MaxWrites,         \* bound: how often a model is stored
  MaxFaults          \* bound: failed calls and ended processes in a behaviour

Interval == 2

ASSUME WorkerAssumption == Worker \subseteq Nat /\ IsFiniteSet(Worker) /\ Ghost \subseteq Worker
ASSUME ScoreAssumption == Score \in [Key -> [Worker -> Nat]]
ASSUME SourceAssumption ==
  /\ Sources \subseteq {"peers", "dns", "store"}
  /\ Lists \subseteq SUBSET Worker
  /\ Endpoints \subseteq SUBSET Worker
ASSUME ScanAssumption == Alive \subseteq SUBSET Key
ASSUME TTLAssumption == WorkerTTL \in Nat /\ WorkerTTL > Interval /\ SnapshotCacheTTL \in Nat \ {0}
ASSUME FleetBoundAssumption ==
  SlowTick \in Nat /\ MaxWrites \in Nat \ {0} /\ MaxFaults \in Nat /\ Mortal \subseteq Worker

VARIABLES
  source,     \* the membership mode of the fleet
  list,       \* SHARD_PEERS of each worker
  half,       \* which half of the minute it is
  lastSeen,   \* baselines.workers: age of a worker's heartbeat
  model,      \* baselines.snapshots: the write a key's model is of
  writes,     \* history: writes of a key's model so far
  proc,       \* what each worker's tick is about to do
  ticker,     \* workers with a firing of their ticker to consume
  phase,      \* the half of the minute a worker's ticker fires in
  age,        \* time since the worker's tick read its clock
  last,       \* peerSource.last: the peers a worker last saw
  scanned,    \* workers with a good scan (scanOK)
  spans,      \* scanSpans: the alive keys of a worker's last good scan
  seen,       \* the updated_at Fresh reported for models still to restore
  fitted,     \* Publisher.fitted: the restored models
  freshAge,   \* time since Publisher.freshAt
  published,  \* Publisher.published: minutes since the last point of a key
  faults      \* failures so far

settings == <<source, list>>
store == <<lastSeen, model, writes>>
memory == <<phase, last, scanned, spans, seen, fitted, freshAge, published>>
vars == <<settings, half, store, memory, proc, ticker, age, faults>>

-------------------------------------------------------------------------------
(* Ages, models and marks *)

NoRow == WorkerTTL + 1                  \* no row in baselines.workers
Never == SnapshotCacheTTL + SlowTick    \* freshAt is zero, or as good as that
NoMark == (SlowTick + 3) \div 2         \* not published, or before any tick's minute
Write == 0 .. MaxWrites                 \* 0: no model
Fit == [at : Write, of : Write]         \* updated_at as Fresh reported it, model as Get did
NoFit == [at |-> 0, of |-> 0]

TypeOK ==
  /\ source \in Sources
  /\ list \in [Worker -> SUBSET Worker]
  /\ half \in {0, 1}
  /\ lastSeen \in [Worker -> 0 .. NoRow]
  /\ model \in [Key -> Write]
  /\ writes \in [Key -> Write]
  /\ proc \in [Worker -> {"down", "idle", "scan", "heartbeat", "retrain", "restore", "emit"}]
  /\ ticker \in SUBSET Worker
  /\ phase \in [Worker -> {0, 1}]
  /\ age \in [Worker -> 0 .. SlowTick]
  /\ last \in [Worker -> SUBSET Worker]
  /\ scanned \in SUBSET Worker
  /\ spans \in [Worker -> SUBSET Key]
  /\ seen \in [Worker -> [Key -> Write]]
  /\ fitted \in [Worker -> [Key -> Fit]]
  /\ freshAge \in [Worker -> 0 .. Never]
  /\ published \in [Worker -> [Key -> 0 .. NoMark]]
  /\ faults \in 0 .. MaxFaults

Up == {w \in Worker : proc[w] # "down"}
InTick(w) == proc[w] \notin {"down", "idle"}

Older(d, cap) == IF d < cap THEN d + 1 ELSE cap

(* A call fails at most MaxFaults times in a behaviour. *)
Fails == faults < MaxFaults /\ faults' = faults + 1

(***************************************************************************)
(* The minute a tick publishes is the one its clock read.                  *)
(***************************************************************************)
MutMinutesAgo(w) == (age[w] - half) \div 2

MinutesAgo(w) == (age[w] + 1 - half) \div 2

-------------------------------------------------------------------------------
(* Peers and ownership *)

(* The peer with the highest score owns a key, the first name on a tie. *)
Beats(k, p, q) == Score[k][p] > Score[k][q] \/ (Score[k][p] = Score[k][q] /\ p <= q)

Owner(k, peers) == CHOOSE p \in peers : \A q \in peers : Beats(k, p, q)

MutOwns(k, self, peers) == \A q \in peers : Score[k][self] >= Score[k][q]

MutOwnsStrictly(k, self, peers) == \A q \in peers \ {self} : Score[k][self] > Score[k][q]

Owns(k, self, peers) == Cardinality(peers) <= 1 \/ Owner(k, peers) = self

(* normalizePeers: a worker is in its own view. *)
Including(ids, self) == ids \cup {self}

(* With no last good set a worker runs unsharded. *)
View(w) == IF last[w] = {} THEN {w} ELSE last[w]

Ready(w) == {k \in spans[w] : Owns(k, w, View(w))}

(* last_seen > now() - WORKER_TTL *)
MutLivePeers == {v \in Worker : lastSeen[v] # NoRow}

LivePeers == {v \in Worker : lastSeen[v] < WorkerTTL}

KeepsLast == UNCHANGED last

Sees(w, ids) == last' = [last EXCEPT ![w] = Including(ids, w)]

(***************************************************************************)
(* Names that do not resolve, to nothing or at all, keep the last set; an  *)
(* empty heartbeat table is an answer.                                     *)
(***************************************************************************)
Peers(w) ==
  \/ source = "peers" /\ Sees(w, list[w]) /\ UNCHANGED faults
  \/ source = "dns" /\ \E ids \in Endpoints \ {{}} : Sees(w, ids) /\ UNCHANGED faults
  \/ source = "store" /\ Sees(w, LivePeers) /\ UNCHANGED faults
  \/ source # "peers" /\ KeepsLast /\ Fails

-------------------------------------------------------------------------------
(* Processes *)

(* Run ticks at once; its ticker fires in the half it was made in. *)
Start(w) ==
  /\ proc[w] = "down"
  /\ w \notin Ghost
  /\ proc' = [proc EXCEPT ![w] = "idle"]
  /\ ticker' = ticker \cup {w}
  /\ phase' = [phase EXCEPT ![w] = half]
  /\ UNCHANGED <<settings, half, store, age, last, scanned, spans, seen, fitted, freshAge,
                 published, faults>>

(***************************************************************************)
(* Nothing of a process outlives it, and its heartbeat stays in the table. *)
(***************************************************************************)
End(w) ==
  /\ w \in Mortal
  /\ proc[w] # "down"
  /\ Fails
  /\ proc' = [proc EXCEPT ![w] = "down"]
  /\ ticker' = ticker \ {w}
  /\ phase' = [phase EXCEPT ![w] = 0]
  /\ age' = [age EXCEPT ![w] = 0]
  /\ last' = [last EXCEPT ![w] = {}]
  /\ scanned' = scanned \ {w}
  /\ spans' = [spans EXCEPT ![w] = {}]
  /\ seen' = [seen EXCEPT ![w] = [k \in Key |-> 0]]
  /\ fitted' = [fitted EXCEPT ![w] = [k \in Key |-> NoFit]]
  /\ freshAge' = [freshAge EXCEPT ![w] = Never]
  /\ published' = [published EXCEPT ![w] = [k \in Key |-> NoMark]]
  /\ UNCHANGED <<settings, half, store>>

-------------------------------------------------------------------------------
(* The tick *)

(* The clock and the peers are read once for the tick. *)
StartTick(w) ==
  /\ proc[w] = "idle"
  /\ w \in ticker
  /\ ticker' = ticker \ {w}
  /\ proc' = [proc EXCEPT ![w] = "scan"]
  /\ Peers(w)
  /\ UNCHANGED <<settings, half, store, phase, age, scanned, spans, seen, fitted, freshAge,
                 published>>

EndTick(w) ==
  /\ proc' = [proc EXCEPT ![w] = "idle"]
  /\ age' = [age EXCEPT ![w] = 0]

(***************************************************************************)
(* A scan within HASH_SCAN_TTL, or a failed refresh, keeps the spans (a    *)
(* span that turns stale meanwhile is a scan that misses it); with none    *)
(* yet a failed scan ends the tick before its heartbeat.                   *)
(***************************************************************************)
Scan(w) ==
  /\ proc[w] = "scan"
  /\ \/ /\ \/ w \in scanned /\ UNCHANGED <<scanned, spans>>
           \/ /\ scanned' = scanned \cup {w}
              /\ \E keys \in Alive : spans' = [spans EXCEPT ![w] = keys]
        /\ proc' = [proc EXCEPT ![w] = "heartbeat"]
        /\ UNCHANGED <<age, faults>>
     \/ w \notin scanned /\ Fails /\ EndTick(w) /\ UNCHANGED <<scanned, spans>>
  /\ UNCHANGED <<settings, half, store, ticker, phase, last, seen, fitted, freshAge, published>>

Heartbeat(w) ==
  /\ proc[w] = "heartbeat"
  /\ proc' = [proc EXCEPT ![w] = "retrain"]
  /\ \/ lastSeen' = [lastSeen EXCEPT ![w] = 0] /\ UNCHANGED faults
     \/ Fails /\ UNCHANGED lastSeen
  /\ UNCHANGED <<settings, half, model, writes, memory, ticker, age>>

(***************************************************************************)
(* A retrain stores models of any keys, its own or not (RetrainQueue Put); *)
(* updated_at tells two writes of a key apart.                             *)
(***************************************************************************)
Put(w, k) ==
  /\ proc[w] = "retrain"
  /\ writes[k] < MaxWrites
  /\ writes' = [writes EXCEPT ![k] = @ + 1]
  /\ model' = [model EXCEPT ![k] = writes'[k]]
  /\ UNCHANGED <<settings, half, lastSeen, memory, proc, ticker, age, faults>>

(***************************************************************************)
(* pruneFits: a key that is not this worker's any more keeps neither its   *)
(* model nor its mark.                                                     *)
(***************************************************************************)
Pruned(w) == [k \in Key |-> IF k \in Ready(w) THEN fitted[w][k] ELSE NoFit]

PrunedMarks(w) == [k \in Key |-> IF k \in Ready(w) THEN published[w][k] ELSE NoMark]

Throttled(w) == freshAge[w] - age[w] < SnapshotCacheTTL

(* The ready keys the store has a model of. *)
Fresh(w) == {k \in Ready(w) : model[k] # 0}

(* Those whose updated_at is not the one restored. *)
Moved(w) == {k \in Fresh(w) : fitted[w][k].at # model[k]}

(***************************************************************************)
(* refreshSnapshots up to its loop: at most one Fresh query per            *)
(* SNAPSHOT_CACHE_TTL, and none without a key; a failed one keeps the      *)
(* models and the throttle as they are.                                    *)
(***************************************************************************)
Refresh(w) ==
  /\ proc[w] = "retrain"
  /\ published' = [published EXCEPT ![w] = PrunedMarks(w)]
  /\ \/ /\ \/ Ready(w) = {} \/ Throttled(w)
        /\ fitted' = [fitted EXCEPT ![w] = Pruned(w)]
        /\ proc' = [proc EXCEPT ![w] = "emit"]
        /\ UNCHANGED <<seen, freshAge, faults>>
     \/ /\ Ready(w) # {} /\ ~Throttled(w)
        /\ Fails
        /\ fitted' = [fitted EXCEPT ![w] = Pruned(w)]
        /\ proc' = [proc EXCEPT ![w] = "emit"]
        /\ UNCHANGED <<seen, freshAge>>
     \/ /\ Ready(w) # {} /\ ~Throttled(w)
        /\ freshAge' = [freshAge EXCEPT ![w] = age[w]]
        /\ fitted' = [fitted EXCEPT ![w] =
                        [k \in Key |-> IF k \in Fresh(w) THEN Pruned(w)[k] ELSE NoFit]]
        /\ seen' = [seen EXCEPT ![w] = [k \in Key |-> IF k \in Moved(w) THEN model[k] ELSE 0]]
        /\ proc' = [proc EXCEPT ![w] = IF Moved(w) = {} THEN "emit" ELSE "restore"]
        /\ UNCHANGED faults
  /\ UNCHANGED <<settings, half, store, ticker, phase, age, last, scanned, spans>>

(***************************************************************************)
(* Get and Restore of one key: the model may have been stored again or     *)
(* deleted since Fresh.  A failure leaves the old model, under its old     *)
(* timestamp, until the throttle lets the next Fresh through.              *)
(***************************************************************************)
MutRestored(w, k) == [at |-> model[k], of |-> seen[w][k]]

Restored(w, k) == IF model[k] = 0 THEN NoFit ELSE [at |-> seen[w][k], of |-> model[k]]

Restore(w, k) ==
  /\ proc[w] = "restore"
  /\ seen[w][k] # 0
  /\ seen' = [seen EXCEPT ![w][k] = 0]
  /\ proc' = [proc EXCEPT ![w] = IF \A l \in Key \ {k} : seen[w][l] = 0 THEN "emit" ELSE @]
  /\ \/ fitted' = [fitted EXCEPT ![w][k] = Restored(w, k)] /\ UNCHANGED faults
     \/ Fails /\ UNCHANGED fitted
  /\ UNCHANGED <<settings, half, store, ticker, phase, age, last, scanned, spans, freshAge,
                 published>>

(***************************************************************************)
(* One point per ready key with a restored model, for the tick's minute,   *)
(* unless the process already published it or a later one.  A point that   *)
(* is not acknowledged leaves no mark.                                     *)
(***************************************************************************)
Publishable(w) ==
  {k \in Ready(w) : fitted[w][k] # NoFit /\ MinutesAgo(w) < published[w][k]}

Emit(w) ==
  /\ proc[w] = "emit"
  /\ EndTick(w)
  /\ \E rejected \in SUBSET Publishable(w) :
       /\ published' = [published EXCEPT ![w] =
            [k \in Key |-> IF k \in Publishable(w) \ rejected THEN MinutesAgo(w) ELSE @[k]]]
       /\ IF rejected = {} THEN UNCHANGED faults ELSE Fails
  /\ UNCHANGED <<settings, half, store, ticker, phase, last, scanned, spans, seen, fitted, freshAge>>

-------------------------------------------------------------------------------
(* The environment *)

(* A model is retired with its row, or swept (RetrainQueue Retire, Sweep). *)
Collected(k) ==
  /\ Collects
  /\ model[k] # 0
  /\ model' = [model EXCEPT ![k] = 0]
  /\ UNCHANGED <<settings, half, lastSeen, writes, memory, proc, ticker, age, faults>>

(***************************************************************************)
(* Half an INTERVAL passes.  A firing that finds the last one unconsumed   *)
(* is dropped (time.Ticker).  A waiting worker starts its tick at once,    *)
(* and no tick outlasts SlowTick.                                          *)
(***************************************************************************)
Tick ==
  /\ \A w \in Worker : proc[w] = "idle" => w \notin ticker
  /\ \A w \in Worker : InTick(w) => age[w] < SlowTick
  /\ half' = 1 - half
  /\ ticker' = ticker \cup {w \in Up : phase[w] = half'}
  /\ age' = [w \in Worker |-> IF InTick(w) THEN age[w] + 1 ELSE 0]
  /\ lastSeen' = [w \in Worker |-> IF lastSeen[w] = NoRow THEN NoRow ELSE Older(lastSeen[w], WorkerTTL)]
  /\ freshAge' = [w \in Worker |-> Older(freshAge[w], Never)]
  /\ published' = IF half = 0 THEN published
                  ELSE [w \in Worker |-> [k \in Key |-> Older(published[w][k], NoMark)]]
  /\ UNCHANGED <<settings, model, writes, phase, last, scanned, spans, seen, fitted, proc, faults>>

-------------------------------------------------------------------------------

Init ==
  /\ source \in Sources
  /\ list \in IF source = "peers" THEN [Worker -> Lists] ELSE [Worker -> {{}}]
  /\ half = 0
  /\ lastSeen = [w \in Worker |-> NoRow]
  /\ writes = [k \in Key |-> 1]
  /\ model = writes
  /\ proc = [w \in Worker |-> "down"]
  /\ ticker = {}
  /\ phase = [w \in Worker |-> 0]
  /\ age = [w \in Worker |-> 0]
  /\ last = [w \in Worker |-> {}]
  /\ scanned = {}
  /\ spans = [w \in Worker |-> {}]
  /\ seen = [w \in Worker |-> [k \in Key |-> 0]]
  /\ fitted = [w \in Worker |-> [k \in Key |-> NoFit]]
  /\ freshAge = [w \in Worker |-> Never]
  /\ published = [w \in Worker |-> [k \in Key |-> NoMark]]
  /\ faults = 0

RunTick(w) ==
  \/ StartTick(w) \/ Scan(w) \/ Heartbeat(w) \/ Refresh(w) \/ Emit(w)
  \/ \E k \in Key : Restore(w, k)

Next ==
  \/ \E w \in Worker : RunTick(w) \/ Start(w) \/ End(w) \/ \E k \in Key : Put(w, k)
  \/ \E k \in Key : Collected(k)
  \/ Tick

Spec == Init /\ [][Next]_vars
-------------------------------------------------------------------------------
(* What the fleet promises *)

(***************************************************************************)
(* Two workers whose ticks see the same peers publish no key twice         *)
(* (README.md: "two workers with the same peer set publish disjoint,       *)
(* complete sets"), whatever each of them scanned.                         *)
(***************************************************************************)
SameViewIsDisjoint ==
  \A v, w \in Worker :
    v # w /\ InTick(v) /\ InTick(w) /\ View(v) = View(w) => Ready(v) \cap Ready(w) = {}

(***************************************************************************)
(* While every view names running workers only, every key has an owner,    *)
(* also while the views differ: disagreement duplicates, it never strands. *)
(***************************************************************************)
RunningViewsCover ==
  Up # {} /\ (\A w \in Up : View(w) \subseteq Up) =>
    \A k \in Key : \E w \in Up : Owns(k, w, View(w))

(***************************************************************************)
(* A restored model whose timestamp is the store's is the store's model:   *)
(* no Put between a Fresh and its Get leaves an old model that the next    *)
(* Fresh takes for the current one (publisher.go refreshSnapshots).        *)
(***************************************************************************)
CacheIsCoherent ==
  \A w \in Worker, k \in Key :
    model[k] # 0 /\ fitted[w][k].at = model[k] => fitted[w][k].of = model[k]

-------------------------------------------------------------------------------
(* Why the promises hold *)

SelfInView == \A w \in Worker : last[w] = {} \/ w \in last[w]

(* A stored model is the last one written. *)
ModelIsLatest == \A k \in Key : model[k] \in {0, writes[k]}

(* A model was read no earlier than the timestamp it is kept under. *)
TimestampFirst ==
  \A w \in Worker, k \in Key :
    /\ seen[w][k] <= writes[k]
    /\ fitted[w][k].at <= fitted[w][k].of
    /\ fitted[w][k].of <= writes[k]

(***************************************************************************)
(* What every step keeps: a worker is in its own view, and a restored      *)
(* model is at least as new as its timestamp.                              *)
(***************************************************************************)
FleetInv == SelfInView /\ ModelIsLatest /\ TimestampFirst

-------------------------------------------------------------------------------
(* What the documentation says and the code does not do *)

(***************************************************************************)
(* A key no running worker owns is explained by a peer that is in every    *)
(* running worker's view and does not run (docs/ARCHITECTURE.md: "a strand *)
(* needs a peer present in every view that is not running").               *)
(***************************************************************************)
StrandNeedsSharedGhost ==
  (\E k \in Key : Up # {} /\ \A w \in Up : ~Owns(k, w, View(w))) =>
    \E ghost \in Worker \ Up : \A w \in Up : ghost \in View(w)

-------------------------------------------------------------------------------
(* Liveness *)

(***************************************************************************)
(* Processes that are up keep running, one that never ends is started, and *)
(* time passes.                                                            *)
(***************************************************************************)
Fairness ==
  /\ \A w \in Worker : WF_vars(RunTick(w))
  /\ \A w \in Worker \ (Mortal \cup Ghost) : WF_vars(Start(w))
  /\ WF_vars(Tick)

FairSpec == Spec /\ Fairness

(***************************************************************************)
(* A key that keeps its model keeps being published, whoever dies: the     *)
(* share of a dead worker is taken over, and neither the throttle nor a    *)
(* slow tick holds a model back for ever, also one whose retrain outlasts  *)
(* its heartbeat and the minute it owes (publisher.go emit: "must publish  *)
(* that minute, not skip it").                                             *)
(***************************************************************************)
PublishedAgain(k) == \E w \in Worker : published'[w][k] < published[w][k]

KeysKeepPublishing ==
  \A k \in Key : []<>(model[k] = 0) \/ []<><<PublishedAgain(k)>>_vars
===============================================================================
