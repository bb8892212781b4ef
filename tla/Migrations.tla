----------------------------- MODULE Migrations -----------------------------
(***************************************************************************)
(* Lazy provisioning: the workers of a fleet and runs of baselines-migrate *)
(* apply the embedded migration files to one database (migrations.go,      *)
(* store_postgres.go ensure and probeSchema, migrate_cmd.go).              *)
(*                                                                         *)
(* A statement is one step.  What a transaction wrote is seen by others    *)
(* when it commits; a rollback, also that of a process that dies, undoes   *)
(* it and frees the advisory lock.  A file is known by its version and by  *)
(* the table it creates or adopts.                                         *)
(***************************************************************************)
EXTENDS Integers, FiniteSets

CONSTANTS
  Workers,      \* processes that provision lazily, at their first store use
  Migrators,    \* runs of baselines-migrate
  DryRuns,      \* those of them with --dry-run
  Creators,     \* processes whose database user may create schemas and tables
  Nobody,       \* the advisory lock is free
  Missing,      \* baselines.schema_migrations does not exist
  Files,        \* embedded files: versions 1 .. Files
  MaxFaults     \* bound: failed calls, lost answers and crashes in a behaviour

File == 1 .. Files

(* A version only a newer deployment embeds. *)
Newer == Files + 1

Process == Workers \cup Migrators

ASSUME ProcessAssumption ==
  /\ Workers \cap Migrators = {}
  /\ DryRuns \subseteq Migrators
  /\ Creators \subseteq Process
  /\ Nobody \notin Process
ASSUME FileAssumption ==
  /\ Files \in Nat
  /\ \A versions \in SUBSET (File \cup {Newer}) : Missing # versions
  /\ MaxFaults \in Nat

VARIABLES
  ledger,    \* versions baselines.schema_migrations lists, or Missing
  shape,     \* the table of each file, as the last commit left it
  lock,      \* who holds pg_advisory_xact_lock
  at,        \* where each process is
  todo,      \* the pending versions a process has still to apply
  faults     \* failures so far

vars == <<ledger, shape, lock, at, todo, faults>>

-------------------------------------------------------------------------------

(***************************************************************************)
(* Where a process is: about to run the statement of that name.  A worker  *)
(* whose attempt failed is "throttled" until ensureRetryAfter has passed;  *)
(* a migrator "exits0" or "exits1".                                        *)
(***************************************************************************)
InTransaction == {"ddl", "recheck", "exec", "insert", "commit"}

Place == InTransaction \cup
  {"idle", "ping", "read", "loop", "lock", "probe", "ready", "throttled", "exits0", "exits1"}

TypeOK ==
  /\ ledger \in {Missing} \cup SUBSET (File \cup {Newer})
  /\ shape \in [File -> {"absent", "legacy", "current"}]
  /\ lock \in Process \cup {Nobody}
  /\ at \in [Process -> Place]
  /\ todo \in [Process -> SUBSET File]
  /\ faults \in 0 .. MaxFaults

Applied == IF ledger = Missing THEN {} ELSE ledger \cap File

(***************************************************************************)
(* A database nobody provisioned, one an older deployment left behind      *)
(* (tables, legacy or not, without the ledger), or one with a ledger.      *)
(***************************************************************************)
Init ==
  /\ shape \in [File -> {"absent", "legacy", "current"}]
  /\ \/ ledger = Missing
     \/ \E n \in File, newer \in SUBSET {Newer} :
          /\ ledger = (1 .. n) \cup newer
          /\ \A f \in 1 .. n : shape[f] = "current"
  /\ lock = Nobody
  /\ at = [p \in Process |-> "idle"]
  /\ todo = [p \in Process |-> {}]
  /\ faults = 0

-------------------------------------------------------------------------------
(* Steps of a process *)

Goes(p, from, to) == at[p] = from /\ at' = [at EXCEPT ![p] = to]

(* Where an error of applyMigrations leads. *)
MutOnError(p) == IF p \in Workers THEN "probe" ELSE "exits0"

OnError(p) == IF p \in Workers THEN "probe" ELSE "exits1"

Fault == faults < MaxFaults /\ faults' = faults + 1

(***************************************************************************)
(* ensure, on a store call of a worker that is not ready; MigrateMain.     *)
(***************************************************************************)
Begin(p) ==
  /\ Goes(p, "idle", IF p \in Workers THEN "ping" ELSE "read")
  /\ UNCHANGED <<ledger, shape, lock, todo, faults>>

Ping(p) ==
  /\ \/ Goes(p, "ping", "read") /\ UNCHANGED faults
     \/ Goes(p, "ping", "throttled") /\ Fault
  /\ UNCHANGED <<ledger, shape, lock, todo>>

(***************************************************************************)
(* ledgerVersions, before any lock is held; a missing table reads as an    *)
(* empty ledger.  A dry run ends here.                                     *)
(***************************************************************************)
ReadLedger(p) ==
  /\ \/ /\ Goes(p, "read", IF p \in DryRuns THEN "exits0" ELSE "loop")
        /\ todo' = [todo EXCEPT ![p] = File \ Applied]
        /\ UNCHANGED faults
     \/ /\ Goes(p, "read", OnError(p))
        /\ Fault
        /\ UNCHANGED todo
  /\ UNCHANGED <<ledger, shape, lock>>

(* The loop over the pending files, in version order. *)
MutFirst(p, f) == f \in todo[p]

First(p, f) == f \in todo[p] /\ \A g \in todo[p] : f <= g

NextFile(p) ==
  /\ todo[p] # {}
  /\ Goes(p, "loop", "lock")
  /\ UNCHANGED <<ledger, shape, lock, todo, faults>>

Finished(p) ==
  /\ todo[p] = {}
  /\ Goes(p, "loop", IF p \in Workers THEN "ready" ELSE "exits0")
  /\ UNCHANGED <<ledger, shape, lock, todo, faults>>

(* BEGIN and pg_advisory_xact_lock, which waits for the holder. *)
MutLockGranted == TRUE

LockGranted == lock = Nobody

TakeLock(p) ==
  /\ LockGranted
  /\ Goes(p, "lock", "ddl")
  /\ lock' = p
  /\ UNCHANGED <<ledger, shape, todo, faults>>

NoLock(p) ==
  /\ Goes(p, "lock", OnError(p))
  /\ Fault
  /\ UNCHANGED <<ledger, shape, lock, todo>>

(* The lock is the transaction's: it goes with it, however it ends. *)
MutFreed == lock

Freed == Nobody

(* A rollback, whatever statement failed. *)
RollBack(p) ==
  /\ at[p] \in InTransaction
  /\ Goes(p, at[p], OnError(p))
  /\ lock' = Freed
  /\ UNCHANGED <<ledger, shape, todo>>

StatementFails(p) == Fault /\ RollBack(p)

(***************************************************************************)
(* CREATE SCHEMA IF NOT EXISTS wants the privilege even when the schema    *)
(* exists.                                                                 *)
(***************************************************************************)
LedgerDDL(p) ==
  /\ at[p] = "ddl"
  /\ \/ p \in Creators /\ Goes(p, "ddl", "recheck") /\ UNCHANGED <<ledger, shape, lock, todo>>
     \/ p \notin Creators /\ RollBack(p)
  /\ UNCHANGED faults

(* Another migrator committed the file while this one waited for the lock. *)
MutAlreadyApplied(f) == FALSE

AlreadyApplied(f) == f \in Applied

Recheck(p) ==
  /\ \E f \in File :
       /\ First(p, f)
       /\ IF AlreadyApplied(f)
          THEN /\ Goes(p, "recheck", "loop")
               /\ todo' = [todo EXCEPT ![p] = @ \ {f}]
               /\ lock' = Nobody
          ELSE Goes(p, "recheck", "exec") /\ UNCHANGED <<todo, lock>>
  /\ UNCHANGED <<ledger, shape, faults>>

(* Idempotent: it creates the table, adopts a legacy one, or finds it done. *)
MutWrites(f) == [shape EXCEPT ![f] = "current"]

Writes(f) == shape

ExecFile(p) ==
  /\ \E f \in File : First(p, f) /\ shape' = Writes(f)
  /\ Goes(p, "exec", "insert")
  /\ UNCHANGED <<ledger, lock, todo, faults>>

(***************************************************************************)
(* version is UNIQUE: an entry another transaction is about to commit is   *)
(* waited for, one that is committed is an error.                          *)
(***************************************************************************)
InsertEntry(p) ==
  /\ \E f \in File :
       /\ First(p, f)
       /\ \A q \in Process \ {p} : ~(at[q] = "commit" /\ First(q, f))
       /\ IF f \in Applied
          THEN RollBack(p)
          ELSE Goes(p, "insert", "commit") /\ UNCHANGED <<ledger, shape, lock, todo>>
  /\ at[p] = "insert"
  /\ UNCHANGED faults

(* The ledger, if the transaction created it, the file's effect and its entry. *)
Commits(f) ==
  /\ ledger' = (IF ledger = Missing THEN {} ELSE ledger) \cup {f}
  /\ shape' = [shape EXCEPT ![f] = "current"]
  /\ lock' = Nobody

Commit(p) ==
  \E f \in File :
    /\ First(p, f)
    /\ Commits(f)
    /\ \/ /\ Goes(p, "commit", "loop")
          /\ todo' = [todo EXCEPT ![p] = @ \ {f}]
          /\ UNCHANGED faults
       \/ Goes(p, "commit", OnError(p)) /\ Fault /\ UNCHANGED todo

(***************************************************************************)
(* probeSchema: a worker that could not migrate accepts a database that    *)
(* has every table it reads.                                               *)
(***************************************************************************)
MutProvisioned == \E f \in File : shape[f] = "current"

Provisioned == \A f \in File : shape[f] = "current"

Probe(p) ==
  /\ \/ Provisioned /\ Goes(p, "probe", "ready") /\ UNCHANGED faults
     \/ ~Provisioned /\ Goes(p, "probe", "throttled") /\ UNCHANGED faults
     \/ Goes(p, "probe", "throttled") /\ Fault
  /\ UNCHANGED <<ledger, shape, lock, todo>>

(* ensureRetryAfter has passed, and the worker uses its store again. *)
Retry(p) ==
  /\ Goes(p, "throttled", "ping")
  /\ UNCHANGED <<ledger, shape, lock, todo, faults>>

(* The process dies; a worker is started again. *)
Crash(p) ==
  /\ at[p] \notin {"idle", "exits0", "exits1"}
  /\ Fault
  /\ at' = [at EXCEPT ![p] = IF p \in Workers THEN "idle" ELSE "exits1"]
  /\ lock' = IF lock = p THEN Nobody ELSE lock
  /\ todo' = [todo EXCEPT ![p] = {}]
  /\ UNCHANGED <<ledger, shape>>

-------------------------------------------------------------------------------

Step(p) ==
  \/ Begin(p) \/ Ping(p) \/ ReadLedger(p) \/ NextFile(p) \/ Finished(p)
  \/ TakeLock(p) \/ NoLock(p) \/ StatementFails(p)
  \/ LedgerDDL(p) \/ Recheck(p) \/ ExecFile(p) \/ InsertEntry(p) \/ Commit(p)
  \/ Probe(p) \/ Retry(p)

Next == \E p \in Process : Step(p) \/ Crash(p)

Spec == Init /\ [][Next]_vars
-------------------------------------------------------------------------------
(* What provisioning promises *)

(***************************************************************************)
(* The ledger lists no file whose table is not there, and none before an   *)
(* earlier one, whoever wrote its entries (migrations.go applyMigrations:  *)
(* "a failing migration leaves behind neither its DDL nor its ledger       *)
(* row").                                                                  *)
(***************************************************************************)
LedgerIsTrue ==
  \A f \in Applied : shape[f] = "current" /\ \A g \in 1 .. f : g \in Applied

(***************************************************************************)
(* Processes that may create, and that met no failure, never fail because  *)
(* of each other: neither the ledger's own DDL nor a file nor its entry is *)
(* raced (migrations.go applyMigrations: "serialise instead of racing").   *)
(* A failure of anybody, or a wait that outlasts its timeout, is a fault   *)
(* and lifts the promise for all.                                          *)
(***************************************************************************)
NoRaceErrors ==
  \A p \in Creators : at[p] \in {"probe", "throttled", "exits1"} => faults > 0

(***************************************************************************)
(* A worker calls its store ready only on a database with every table of   *)
(* the embedded files in the shape it reads, whether its migrations ran,   *)
(* another's did or the probe accepted what it found (store_postgres.go    *)
(* ensure).  The plugin's forecast.retrain, which it reads too, is neither *)
(* migrated nor probed.                                                    *)
(***************************************************************************)
ReadyIsProvisioned ==
  \A p \in Workers, f \in File : at[p] = "ready" => shape[f] = "current"

(***************************************************************************)
(* baselines-migrate exits 0 only when the ledger lists every file it      *)
(* embeds (migrate_cmd.go: "0 when the schema is up to date"), or as a dry *)
(* run, which exits 0 with files pending and is left out here.             *)
(***************************************************************************)
ExitZeroIsApplied ==
  \A p \in Migrators \ DryRuns : at[p] = "exits0" => Applied = File

(***************************************************************************)
(* The processes together implement the provisioning of one database by    *)
(* nobody in particular: a file and its entry appear at once, in order and *)
(* once.                                                                   *)
(***************************************************************************)
Database ==
  INSTANCE Provisioning WITH
    applied     <- Applied,
    provisioned <- {f \in File : shape[f] = "current"}

ImplementsProvisioning == Database!Spec

-------------------------------------------------------------------------------
(* Why it is kept *)

(* Only its holder is between the lock and the commit. *)
LockIsHeld == \A p \in Process : at[p] \in InTransaction <=> lock = p

(* A process that skipped or applied a file, or found it applied, was right. *)
Applying == InTransaction \cup {"loop", "lock"}

SkippedIsApplied ==
  \A p \in Process : at[p] \in Applying => File \ todo[p] \subseteq Applied

(* A file is about to be written only where it has not been. *)
WritesOnce ==
  \A p \in Process :
    /\ at[p] \in Applying \ {"loop"} => todo[p] # {}
    /\ at[p] \in {"exec", "insert", "commit"} => \A f \in File : First(p, f) => f \notin Applied

MigrationsInv ==
  TypeOK /\ LedgerIsTrue /\ LockIsHeld /\ SkippedIsApplied /\ WritesOnce
    /\ ReadyIsProvisioned /\ ExitZeroIsApplied /\ NoRaceErrors

-------------------------------------------------------------------------------
(* Liveness *)

(***************************************************************************)
(* A worker's tick keeps using the store and a migrator that started runs  *)
(* on; the database queues the waiters of a lock, so that none is passed   *)
(* over for ever.                                                          *)
(***************************************************************************)
Fairness ==
  /\ \A p \in Workers : WF_vars(Step(p))
  /\ \A p \in Migrators : WF_vars(at[p] # "idle" /\ Step(p))
  /\ \A p \in Process : SF_vars(TakeLock(p))

FairSpec == Spec /\ Fairness

(***************************************************************************)
(* As long as one worker may create, every worker is eventually ready,     *)
(* also one whose user may not, and after every outage and crash           *)
(* (store_postgres.go ensure: "retried on later calls ... rather than      *)
(* failing the store permanently").                                        *)
(***************************************************************************)
EveryWorkerIsReady ==
  Workers \cap Creators # {} => \A p \in Workers : at[p] # "ready" ~> at[p] = "ready"
=============================================================================
