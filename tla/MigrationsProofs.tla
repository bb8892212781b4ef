-------------------------- MODULE MigrationsProofs --------------------------
(***************************************************************************)
(* Proofs about Migrations, for every fleet, every number of migration     *)
(* files and every assignment of privileges and failures.                  *)
(***************************************************************************)
EXTENDS Migrations, TLAPS

Troubled == {"probe", "throttled", "exits1"}

(***************************************************************************)
(* What a step that commits nothing has to respect: p goes to place, with  *)
(* versions left to apply, under the lock l and the failure count n.       *)
(***************************************************************************)
Respects(p, place, versions, l, n) ==
  /\ place \in Place /\ versions \in SUBSET File
  /\ n \in 0 .. MaxFaults /\ n >= faults
  /\ l \in Process \cup {Nobody}
  /\ place \in InTransaction <=> l = p
  /\ \A q \in Process \ {p} : l = q <=> lock = q
  /\ place \in Applying => File \ versions \subseteq Applied
  /\ place \in Applying \ {"loop"} => versions # {}
  /\ place \in {"exec", "insert", "commit"} =>
       \A f \in File : f \in versions /\ (\A g \in versions : f <= g) => f \notin Applied
  /\ p \in Workers /\ place = "ready" => \A f \in File : shape[f] = "current"
  /\ p \in Migrators \ DryRuns /\ place = "exits0" => Applied = File
  /\ p \in Creators /\ place \in Troubled => n > 0

(* A process that moves by the rules without touching a table keeps them. *)
LEMMA RespectfulStep ==
  ASSUME MigrationsInv, NEW p \in Process, NEW place, NEW versions, NEW l, NEW n,
         Respects(p, place, versions, l, n),
         UNCHANGED <<ledger, shape>>,
         at' = [at EXCEPT ![p] = place],
         todo' = [todo EXCEPT ![p] = versions],
         lock' = l, faults' = n
  PROVE  MigrationsInv'
<1>1. Applied' = Applied
  BY DEF Applied
<1>2. TypeOK
  BY DEF MigrationsInv
<1>3. /\ at'[p] = place /\ todo'[p] = versions
      /\ \A q \in Process \ {p} : at'[q] = at[q] /\ todo'[q] = todo[q]
  BY <1>2 DEF TypeOK
<1>4. TypeOK'
  BY <1>2 DEF TypeOK, Respects
<1>5. LedgerIsTrue'
  BY <1>1 DEF MigrationsInv, LedgerIsTrue
<1>6. LockIsHeld'
  BY <1>3 DEF MigrationsInv, LockIsHeld, Respects
<1>7. SkippedIsApplied'
  BY <1>1, <1>3 DEF MigrationsInv, SkippedIsApplied, Respects
<1>8. WritesOnce'
  <2>1. ASSUME NEW q \in Process
        PROVE  /\ at'[q] \in Applying \ {"loop"} => todo'[q] # {}
               /\ at'[q] \in {"exec", "insert", "commit"} =>
                    \A f \in File : First(q, f)' => f \notin Applied
    <3>1. CASE q = p
      BY <1>3, <3>1 DEF First, Respects
    <3>2. CASE q # p
      BY <1>3, <3>2 DEF First, MigrationsInv, WritesOnce
    <3>. QED
      BY <3>1, <3>2
  <2>. QED
    BY <1>1, <2>1 DEF WritesOnce
<1>9. ReadyIsProvisioned'
  BY <1>3 DEF MigrationsInv, ReadyIsProvisioned, Respects, Process
<1>10. ExitZeroIsApplied'
  BY <1>1, <1>3 DEF MigrationsInv, ExitZeroIsApplied, Respects, Process
<1>11. NoRaceErrors'
  <2>1. faults \in Nat /\ faults' \in Nat /\ faults' >= faults
    BY <1>2, FileAssumption DEF TypeOK, Respects
  <2>2. ASSUME NEW q \in Creators, at'[q] \in Troubled
        PROVE  faults' > 0
    <3>1. q \in Process
      BY ProcessAssumption
    <3>2. CASE q = p
      BY <1>3, <2>2, <3>2 DEF Respects
    <3>3. CASE q # p
      BY <1>3, <2>1, <2>2, <3>1, <3>3 DEF MigrationsInv, NoRaceErrors, Troubled
    <3>. QED
      BY <3>2, <3>3
  <2>. QED
    BY <2>2 DEF NoRaceErrors, Troubled
<1>. QED
  BY <1>4, <1>5, <1>6, <1>7, <1>8, <1>9, <1>10, <1>11 DEF MigrationsInv

(* What is known of the process that takes a step. *)
LEMMA Facts ==
  ASSUME MigrationsInv, NEW p \in Process
  PROVE  /\ at[p] \in Place /\ todo[p] \in SUBSET File
         /\ todo = [todo EXCEPT ![p] = todo[p]]
         /\ faults \in 0 .. MaxFaults /\ faults \in Nat /\ MaxFaults \in Nat
         /\ lock \in Process \cup {Nobody} /\ Nobody \notin Process
         /\ at[p] \in InTransaction <=> lock = p
         /\ at[p] \in Applying => File \ todo[p] \subseteq Applied
         /\ at[p] \in Applying \ {"loop"} => todo[p] # {}
         /\ at[p] \in {"exec", "insert", "commit"} => \A f \in File : First(p, f) => f \notin Applied
         /\ p \in Creators /\ at[p] \in Troubled => faults > 0
<1>1. TypeOK
  BY DEF MigrationsInv
<1>2. at[p] \in Place /\ todo[p] \in SUBSET File /\ todo = [todo EXCEPT ![p] = todo[p]]
  BY <1>1 DEF TypeOK
<1>3. faults \in 0 .. MaxFaults /\ faults \in Nat /\ MaxFaults \in Nat
  BY <1>1, FileAssumption DEF TypeOK
<1>4. lock \in Process \cup {Nobody} /\ Nobody \notin Process
  BY <1>1, ProcessAssumption DEF TypeOK
<1>5. at[p] \in InTransaction <=> lock = p
  BY DEF MigrationsInv, LockIsHeld
<1>6. /\ at[p] \in Applying => File \ todo[p] \subseteq Applied
      /\ at[p] \in Applying \ {"loop"} => todo[p] # {}
  <2>1. SkippedIsApplied
    BY DEF MigrationsInv
  <2>2. WritesOnce
    BY DEF MigrationsInv
  <2>3. at[p] \in Applying \ {"loop"} => todo[p] # {}
    BY <2>2 DEF WritesOnce
  <2>. QED
    BY <2>1, <2>3 DEF SkippedIsApplied
<1>7. at[p] \in {"exec", "insert", "commit"} => \A f \in File : First(p, f) => f \notin Applied
  BY DEF MigrationsInv, WritesOnce
<1>8. p \in Creators /\ at[p] \in Troubled => faults > 0
  BY DEF MigrationsInv, NoRaceErrors, Troubled
<1>. QED
  BY <1>2, <1>3, <1>4, <1>5, <1>6, <1>7, <1>8

(* An error sends a worker to the probe and a migrator to its exit. *)
LEMMA ErrorPlace ==
  ASSUME NEW p \in Process
  PROVE  OnError(p) \in {"probe", "exits1"}
  BY DEF OnError

(* A fault is counted, and never forgotten. *)
LEMMA FaultCounts ==
  ASSUME faults \in Nat, MaxFaults \in Nat, Fault
  PROVE  faults' \in 0 .. MaxFaults /\ faults' >= faults /\ faults' > 0
  BY DEF Fault

-------------------------------------------------------------------------------
(* Each step *)

(* Every database a deployment may find satisfies the invariant. *)
LEMMA InitEstablishes == Init => MigrationsInv
<1>. SUFFICES ASSUME Init
              PROVE  MigrationsInv
  OBVIOUS
<1>. USE DEF Init
<1>1. Files \in Nat /\ MaxFaults \in Nat /\ Nobody \notin Process
  BY FileAssumption, ProcessAssumption
<1>2. ledger \in {Missing} \cup SUBSET (File \cup {Newer})
  <2>1. CASE ledger = Missing
    BY <2>1
  <2>2. ASSUME NEW k \in File, NEW newer \in SUBSET {Newer}, ledger = (1 .. k) \cup newer
        PROVE  ledger \in SUBSET (File \cup {Newer})
    BY <1>1, <2>2 DEF File
  <2>. QED
    BY <2>1, <2>2
<1>3. TypeOK
  BY <1>1, <1>2 DEF TypeOK, Place
<1>4. LedgerIsTrue
  <2>1. CASE ledger = Missing
    BY <2>1 DEF LedgerIsTrue, Applied
  <2>2. ASSUME NEW k \in File, NEW newer \in SUBSET {Newer}, ledger = (1 .. k) \cup newer,
               \A f \in 1 .. k : shape[f] = "current"
        PROVE  LedgerIsTrue
    <3>0. \A f \in File : f \notin newer
      BY <1>1, <2>2 DEF File, Newer
    <3>1. \A f \in File : ledger # Missing => (f \in Applied <=> f \in 1 .. k)
      BY <2>2, <3>0 DEF Applied
    <3>2. CASE ledger = Missing
      BY <3>2 DEF LedgerIsTrue, Applied
    <3>3. CASE ledger # Missing
      <4>. SUFFICES ASSUME NEW f \in Applied
                    PROVE  shape[f] = "current" /\ \A g \in 1 .. f : g \in Applied
        BY DEF LedgerIsTrue
      <4>1. f \in File /\ f \in 1 .. k
        BY <3>1, <3>3 DEF Applied
      <4>2. \A g \in 1 .. f : g \in File /\ g \in 1 .. k
        BY <1>1, <4>1 DEF File
      <4>. QED
        BY <2>2, <3>1, <3>3, <4>1, <4>2
    <3>. QED
      BY <3>2, <3>3
  <2>. QED
    BY <2>1, <2>2
<1>. QED
  BY <1>1, <1>3, <1>4, ProcessAssumption
     DEF MigrationsInv, LockIsHeld, SkippedIsApplied, WritesOnce, ReadyIsProvisioned,
         ExitZeroIsApplied, NoRaceErrors, InTransaction, Applying, Process
(* A step that leaves p's versions as they were. *)
LEMMA PlainStep ==
  ASSUME MigrationsInv, NEW p \in Process, NEW place, NEW l, NEW n,
         Respects(p, place, todo[p], l, n),
         at' = [at EXCEPT ![p] = place], lock' = l, faults' = n,
         UNCHANGED <<ledger, shape, todo>>
  PROVE  MigrationsInv'
<1>1. todo' = [todo EXCEPT ![p] = todo[p]]
  BY Facts
<1>. QED
  BY <1>1, RespectfulStep

(* A process starts its attempt. *)
LEMMA BeginKeeps ==
  ASSUME MigrationsInv, NEW p \in Process, Begin(p)
  PROVE  MigrationsInv'
<1>. DEFINE place == IF p \in Workers THEN "ping" ELSE "read"
<1>1. Respects(p, place, todo[p], lock, faults)
  BY Facts DEF Begin, Goes, Respects, Place, InTransaction, Applying, Troubled
<1>. QED
  BY <1>1, PlainStep DEF Begin, Goes

(* The database answers the ping, or does not. *)
LEMMA PingKeeps ==
  ASSUME MigrationsInv, NEW p \in Process, Ping(p)
  PROVE  MigrationsInv'
<1>1. CASE Goes(p, "ping", "read") /\ UNCHANGED faults
  <2>1. Respects(p, "read", todo[p], lock, faults)
    BY <1>1, Facts DEF Goes, Respects, Place, InTransaction, Applying, Troubled
  <2>. QED
    BY <1>1, <2>1, PlainStep DEF Ping, Goes
<1>2. CASE Goes(p, "ping", "throttled") /\ Fault
  <2>1. Respects(p, "throttled", todo[p], lock, faults')
    BY <1>2, Facts, FaultCounts DEF Goes, Respects, Place, InTransaction, Applying, Troubled
  <2>. QED
    BY <1>2, <2>1, PlainStep DEF Ping, Goes
<1>. QED
  BY <1>1, <1>2 DEF Ping

(* An error outside a transaction. *)
LEMMA ErrorKeeps ==
  ASSUME MigrationsInv, NEW p \in Process, NEW from \in Place \ InTransaction,
         Goes(p, from, OnError(p)), Fault, UNCHANGED <<ledger, shape, lock, todo>>
  PROVE  MigrationsInv'
<1>1. Respects(p, OnError(p), todo[p], lock, faults')
  BY Facts, ErrorPlace, FaultCounts DEF Goes, Respects, Place, InTransaction, Applying, Troubled
<1>. QED
  BY <1>1, PlainStep DEF Goes

(* The ledger is read before any lock is held. *)
LEMMA ReadLedgerKeeps ==
  ASSUME MigrationsInv, NEW p \in Process, ReadLedger(p)
  PROVE  MigrationsInv'
<1>. DEFINE place == IF p \in DryRuns THEN "exits0" ELSE "loop"
<1>1. CASE Goes(p, "read", place) /\ todo' = [todo EXCEPT ![p] = File \ Applied] /\ UNCHANGED faults
  <2>1. Respects(p, place, File \ Applied, lock, faults)
    BY <1>1, Facts, ProcessAssumption
       DEF Goes, Respects, Place, InTransaction, Applying, Troubled
  <2>. QED
    BY <1>1, <2>1, RespectfulStep DEF ReadLedger, Goes
<1>2. CASE Goes(p, "read", OnError(p)) /\ Fault /\ UNCHANGED todo
  BY <1>2, ErrorKeeps DEF ReadLedger, Place, InTransaction
<1>. QED
  BY <1>1, <1>2 DEF ReadLedger

(* A process with files left turns to the lock for the next one. *)
LEMMA NextFileKeeps ==
  ASSUME MigrationsInv, NEW p \in Process, NextFile(p)
  PROVE  MigrationsInv'
<1>1. Respects(p, "lock", todo[p], lock, faults)
  BY Facts DEF NextFile, Goes, Respects, Place, InTransaction, Applying, Troubled
<1>. QED
  BY <1>1, PlainStep DEF NextFile, Goes

(* Nothing left to apply: the ledger lists every file, and every table is there. *)
LEMMA FinishedKeeps ==
  ASSUME MigrationsInv, NEW p \in Process, Finished(p)
  PROVE  MigrationsInv'
<1>. DEFINE place == IF p \in Workers THEN "ready" ELSE "exits0"
<1>1. Applied = File
  BY Facts DEF Finished, Goes, Applying, Applied
<1>2. \A f \in File : shape[f] = "current"
  BY <1>1 DEF MigrationsInv, LedgerIsTrue
<1>3. Respects(p, place, todo[p], lock, faults)
  BY <1>1, <1>2, Facts, ProcessAssumption
     DEF Finished, Goes, Respects, Place, InTransaction, Applying, Troubled
<1>. QED
  BY <1>3, PlainStep DEF Finished, Goes

(* The advisory lock is free and is taken. *)
LEMMA TakeLockKeeps ==
  ASSUME MigrationsInv, NEW p \in Process, TakeLock(p)
  PROVE  MigrationsInv'
<1>1. Respects(p, "ddl", todo[p], p, faults)
  BY Facts DEF TakeLock, LockGranted, Goes, Respects, Place, InTransaction, Applying, Troubled
<1>. QED
  BY <1>1, PlainStep DEF TakeLock, Goes

(* Only the holder of the lock rolls back, and so frees it. *)
LEMMA RollBackKeeps ==
  ASSUME MigrationsInv, NEW p \in Process, RollBack(p),
         faults' \in 0 .. MaxFaults, faults' >= faults, p \in Creators => faults' > 0
  PROVE  MigrationsInv'
<1>1. Respects(p, OnError(p), todo[p], Nobody, faults')
  BY Facts, ErrorPlace
     DEF RollBack, Goes, Respects, Place, InTransaction, Applying, Troubled
<1>. QED
  BY <1>1, PlainStep DEF RollBack, Goes, Freed

(* The ledger table is created, if it is missing. *)
LEMMA LedgerDDLKeeps ==
  ASSUME MigrationsInv, NEW p \in Process, LedgerDDL(p)
  PROVE  MigrationsInv'
<1>1. CASE p \in Creators /\ Goes(p, "ddl", "recheck") /\ UNCHANGED <<ledger, shape, lock, todo>>
  <2>1. Respects(p, "recheck", todo[p], lock, faults)
    BY <1>1, Facts DEF Goes, Respects, Place, InTransaction, Applying, Troubled
  <2>. QED
    BY <1>1, <2>1, PlainStep DEF LedgerDDL, Goes
<1>2. CASE p \notin Creators /\ RollBack(p)
  BY <1>2, Facts, RollBackKeeps DEF LedgerDDL
<1>. QED
  BY <1>1, <1>2 DEF LedgerDDL

(* Under the lock, a file another process applied meanwhile is left out. *)
LEMMA RecheckKeeps ==
  ASSUME MigrationsInv, NEW p \in Process, Recheck(p)
  PROVE  MigrationsInv'
<1>1. PICK f \in File :
        /\ First(p, f)
        /\ IF AlreadyApplied(f)
           THEN /\ Goes(p, "recheck", "loop")
                /\ todo' = [todo EXCEPT ![p] = @ \ {f}]
                /\ lock' = Nobody
           ELSE Goes(p, "recheck", "exec") /\ UNCHANGED <<todo, lock>>
  BY DEF Recheck
<1>2. CASE f \in Applied
  <2>1. Respects(p, "loop", todo[p] \ {f}, Nobody, faults)
    BY <1>1, <1>2, Facts
       DEF AlreadyApplied, Goes, Respects, Place, InTransaction, Applying, Troubled
  <2>. QED
    BY <1>1, <1>2, <2>1, RespectfulStep, Facts DEF Recheck, AlreadyApplied, Goes
<1>3. CASE f \notin Applied
  <2>1. \A g \in File : g \in todo[p] /\ (\A h \in todo[p] : g <= h) => g = f
    BY <1>1, Facts, FileAssumption DEF First, File
  <2>2. Respects(p, "exec", todo[p], lock, faults)
    BY <1>1, <1>3, <2>1, Facts
       DEF AlreadyApplied, Goes, Respects, Place, InTransaction, Applying, Troubled
  <2>. QED
    BY <1>1, <1>3, <2>2, PlainStep DEF Recheck, AlreadyApplied, Goes
<1>. QED
  BY <1>2, <1>3

(* The text of the file runs, uncommitted. *)
LEMMA ExecFileKeeps ==
  ASSUME MigrationsInv, NEW p \in Process, ExecFile(p)
  PROVE  MigrationsInv'
<1>1. Respects(p, "insert", todo[p], lock, faults)
  BY Facts DEF ExecFile, Goes, Respects, Place, InTransaction, Applying, Troubled, First
<1>. QED
  BY <1>1, PlainStep DEF ExecFile, Goes, Writes

(* The entry is never there already: the lock is held since it was looked for. *)
LEMMA InsertEntryKeeps ==
  ASSUME MigrationsInv, NEW p \in Process, InsertEntry(p)
  PROVE  MigrationsInv'
<1>1. PICK f \in File :
        /\ First(p, f)
        /\ IF f \in Applied
           THEN RollBack(p)
           ELSE Goes(p, "insert", "commit") /\ UNCHANGED <<ledger, shape, lock, todo>>
  BY DEF InsertEntry
<1>2. f \notin Applied
  BY <1>1, Facts DEF InsertEntry
<1>3. Respects(p, "commit", todo[p], lock, faults)
  BY <1>1, <1>2, Facts DEF Goes, Respects, Place, InTransaction, Applying, Troubled, First
<1>. QED
  BY <1>1, <1>2, <1>3, PlainStep DEF InsertEntry, Goes

(* A worker whose migration failed accepts the schema it finds, or does not. *)
LEMMA ProbeKeeps ==
  ASSUME MigrationsInv, NEW p \in Process, Probe(p)
  PROVE  MigrationsInv'
<1>0. at[p] = "probe" /\ (p \in Creators => faults > 0)
  BY Facts DEF Probe, Goes, Troubled
<1>1. CASE Provisioned /\ Goes(p, "probe", "ready") /\ UNCHANGED faults
  <2>1. Respects(p, "ready", todo[p], lock, faults)
    BY <1>1, Facts DEF Provisioned, Goes, Respects, Place, InTransaction, Applying, Troubled
  <2>. QED
    BY <1>1, <2>1, PlainStep DEF Probe, Goes
<1>2. CASE Goes(p, "probe", "throttled") /\ faults' \in 0 .. MaxFaults /\ faults' >= faults
  <2>1. faults' \in Nat
    BY <1>2, Facts
  <2>2. Respects(p, "throttled", todo[p], lock, faults')
    BY <1>0, <1>2, <2>1, Facts DEF Goes, Respects, Place, InTransaction, Applying, Troubled
  <2>. QED
    BY <1>2, <2>2, PlainStep DEF Probe, Goes
<1>. QED
  BY <1>1, <1>2, Facts, FaultCounts DEF Probe

(* A worker waits out its throttle and tries again. *)
LEMMA RetryKeeps ==
  ASSUME MigrationsInv, NEW p \in Process, Retry(p)
  PROVE  MigrationsInv'
<1>1. Respects(p, "ping", todo[p], lock, faults)
  BY Facts DEF Retry, Goes, Respects, Place, InTransaction, Applying, Troubled
<1>. QED
  BY <1>1, PlainStep DEF Retry, Goes

(* A process that dies takes its transaction and its lock with it. *)
LEMMA CrashKeeps ==
  ASSUME MigrationsInv, NEW p \in Process, Crash(p)
  PROVE  MigrationsInv'
<1>. DEFINE place == IF p \in Workers THEN "idle" ELSE "exits1"
            l     == IF lock = p THEN Nobody ELSE lock
<1>1. Respects(p, place, {}, l, faults')
  BY Facts, FaultCounts DEF Crash, Respects, Place, InTransaction, Applying, Troubled
<1>. QED
  BY <1>1, RespectfulStep DEF Crash
(* The one step that changes the database. *)
LEMMA CommitFacts ==
  ASSUME MigrationsInv, NEW p \in Process, NEW f \in File, at[p] = "commit", First(p, f), Commits(f)
  PROVE  /\ f \notin Applied
         /\ \A g \in File : g < f => g \in Applied
         /\ Applied' = Applied \cup {f}
         /\ ledger' \in SUBSET (File \cup {Newer})
         /\ shape' \in [File -> {"absent", "legacy", "current"}]
         /\ \A g \in File : shape'[g] = IF g = f THEN "current" ELSE shape[g]
<1>1. TypeOK
  BY DEF MigrationsInv
<1>2. f \notin Applied
  BY Facts
<1>3. \A g \in File : g < f => g \in Applied
  <2>1. \A g \in File : g < f => g \notin todo[p]
    BY FileAssumption DEF First, File
  <2>. QED
    BY <2>1, Facts DEF Applying, InTransaction
<1>4. ledger' \in SUBSET (File \cup {Newer}) /\ Applied' = Applied \cup {f}
  <2>1. ledger' \in SUBSET (File \cup {Newer})
    BY <1>1 DEF Commits, TypeOK
  <2>2. ledger' # Missing
    BY <2>1, FileAssumption
  <2>. QED
    BY <2>1, <2>2 DEF Commits, Applied
<1>5. /\ shape' \in [File -> {"absent", "legacy", "current"}]
      /\ \A g \in File : shape'[g] = IF g = f THEN "current" ELSE shape[g]
  BY <1>1 DEF Commits, TypeOK
<1>. QED
  BY <1>2, <1>3, <1>4, <1>5

(* A commit makes a file and its entry appear at once, answered or not. *)
LEMMA CommitKeeps ==
  ASSUME MigrationsInv, NEW p \in Process, Commit(p)
  PROVE  MigrationsInv'
<1>1. PICK f \in File :
        /\ First(p, f)
        /\ Commits(f)
        /\ \/ /\ Goes(p, "commit", "loop")
              /\ todo' = [todo EXCEPT ![p] = @ \ {f}]
              /\ UNCHANGED faults
           \/ Goes(p, "commit", OnError(p)) /\ Fault /\ UNCHANGED todo
  BY DEF Commit
<1>2. TypeOK
  BY DEF MigrationsInv
<1>3. at[p] = "commit"
  BY <1>1 DEF Goes
<1>4. /\ \A g \in File : g < f => g \in Applied
      /\ Applied' = Applied \cup {f}
      /\ ledger' \in SUBSET (File \cup {Newer})
      /\ shape' \in [File -> {"absent", "legacy", "current"}]
      /\ \A g \in File : shape'[g] = IF g = f THEN "current" ELSE shape[g]
  BY <1>1, <1>3, CommitFacts
<1>5. PICK place \in {"loop", "probe", "exits1"} :
        /\ at' = [at EXCEPT ![p] = place]
        /\ place = "loop" => todo' = [todo EXCEPT ![p] = @ \ {f}] /\ faults' = faults
        /\ place # "loop" => todo' = todo /\ faults' > 0
  BY <1>1, Facts, ErrorPlace, FaultCounts DEF Goes
<1>6. /\ at'[p] = place
      /\ \A q \in Process \ {p} : at'[q] = at[q] /\ todo'[q] = todo[q]
      /\ \A q \in Process : todo'[q] \in SUBSET File
      /\ place = "loop" => todo'[p] = todo[p] \ {f}
  BY <1>2, <1>5 DEF TypeOK
<1>7. faults \in Nat /\ faults' \in Nat /\ faults' >= faults /\ faults' \in 0 .. MaxFaults
  BY <1>1, Facts, FaultCounts
<1>8. TypeOK'
  BY <1>1, <1>2, <1>4, <1>5, <1>6, <1>7 DEF TypeOK, Place, Commits
<1>9. LedgerIsTrue'
  <2>. SUFFICES ASSUME NEW h \in Applied'
                PROVE  shape'[h] = "current" /\ \A g \in 1 .. h : g \in Applied'
    BY DEF LedgerIsTrue
  <2>1. h \in File
    BY <1>4 DEF Applied
  <2>2. \A g \in 1 .. h : g \in File
    BY <2>1, FileAssumption DEF File
  <2>3. CASE h \in Applied
    BY <1>4, <2>1, <2>3 DEF MigrationsInv, LedgerIsTrue
  <2>4. CASE h = f
    <3>1. \A g \in 1 .. f : g = f \/ g < f
      BY FileAssumption DEF File
    <3>. QED
      BY <1>4, <2>2, <2>4, <3>1
  <2>. QED
    BY <1>4, <2>3, <2>4
<1>10. lock = p /\ lock' = Nobody /\ Nobody \notin Process
  BY <1>1, <1>3, Facts DEF Commits, InTransaction
<1>11. LockIsHeld'
  BY <1>5, <1>6, <1>10 DEF MigrationsInv, LockIsHeld, InTransaction
<1>12. SkippedIsApplied'
  <2>1. ASSUME NEW q \in Process, at'[q] \in Applying
        PROVE  File \ todo'[q] \subseteq Applied'
    <3>1. CASE q = p
      <4>1. place = "loop" /\ at[p] \in Applying
        BY <1>3, <1>5, <1>6, <2>1, <3>1 DEF Applying, InTransaction
      <4>2. File \ todo[p] \subseteq Applied
        BY <4>1, Facts
      <4>. QED
        BY <1>4, <1>6, <3>1, <4>1, <4>2
    <3>2. CASE q # p
      BY <1>4, <1>6, <2>1, <3>2 DEF MigrationsInv, SkippedIsApplied
    <3>. QED
      BY <3>1, <3>2
  <2>. QED
    BY <2>1 DEF SkippedIsApplied
<1>13. WritesOnce'
  <2>1. ASSUME NEW q \in Process
        PROVE  /\ at'[q] \in Applying \ {"loop"} => todo'[q] # {}
               /\ at'[q] \notin {"exec", "insert", "commit"}
    <3>1. CASE q = p
      BY <1>5, <1>6, <3>1 DEF Applying, InTransaction
    <3>2. CASE q # p
      BY <1>6, <1>10, <3>2 DEF MigrationsInv, WritesOnce, LockIsHeld, InTransaction
    <3>. QED
      BY <3>1, <3>2
  <2>. QED
    BY <2>1 DEF WritesOnce
<1>14. ReadyIsProvisioned'
  BY <1>4, <1>5, <1>6 DEF MigrationsInv, ReadyIsProvisioned, Process
<1>15. ExitZeroIsApplied'
  BY <1>4, <1>5, <1>6 DEF MigrationsInv, ExitZeroIsApplied, Process
<1>16. NoRaceErrors'
  <2>1. ASSUME NEW q \in Creators, at'[q] \in Troubled
        PROVE  faults' > 0
    <3>1. q \in Process
      BY ProcessAssumption
    <3>2. CASE q = p
      BY <1>5, <1>6, <2>1, <3>2 DEF Troubled
    <3>3. CASE q # p
      BY <1>6, <1>7, <2>1, <3>1, <3>3 DEF MigrationsInv, NoRaceErrors, Troubled
    <3>. QED
      BY <3>2, <3>3
  <2>. QED
    BY <2>1 DEF NoRaceErrors, Troubled
<1>. QED
  BY <1>8, <1>9, <1>11, <1>12, <1>13, <1>14, <1>15, <1>16 DEF MigrationsInv

(* Where nothing changes, the invariant stays. *)
LEMMA StutterKeeps == MigrationsInv /\ UNCHANGED vars => MigrationsInv'
  BY DEF vars, MigrationsInv, TypeOK, LedgerIsTrue, LockIsHeld, SkippedIsApplied, WritesOnce,
         ReadyIsProvisioned, ExitZeroIsApplied, NoRaceErrors, Applied, First

(* Every step keeps the invariant. *)
LEMMA NextKeeps == MigrationsInv /\ [Next]_vars => MigrationsInv'
<1>. SUFFICES ASSUME MigrationsInv, [Next]_vars
              PROVE  MigrationsInv'
  OBVIOUS
<1>1. ASSUME NEW p \in Process, Step(p)
      PROVE  MigrationsInv'
  <2>1. CASE NoLock(p)
    BY <2>1, ErrorKeeps DEF NoLock, Place, InTransaction
  <2>2. CASE StatementFails(p)
    BY <2>2, Facts, FaultCounts, RollBackKeeps DEF StatementFails
  <2>. QED
    BY <1>1, <2>1, <2>2, BeginKeeps, PingKeeps, ReadLedgerKeeps, NextFileKeeps, FinishedKeeps,
       TakeLockKeeps, LedgerDDLKeeps, RecheckKeeps, ExecFileKeeps, InsertEntryKeeps, CommitKeeps,
       ProbeKeeps, RetryKeeps DEF Step
<1>2. ASSUME NEW p \in Process, Crash(p)
      PROVE  MigrationsInv'
  BY <1>2, CrashKeeps
<1>. QED
  BY <1>1, <1>2, StutterKeeps DEF Next

-------------------------------------------------------------------------------

(***************************************************************************)
(* The inductive invariant: whoever is between the lock and the commit     *)
(* holds the lock, and what it skipped is in the ledger.                   *)
(***************************************************************************)
THEOREM MigrationsInvHolds == Spec => []MigrationsInv
  BY InitEstablishes, NextKeeps, PTL DEF Spec

(* The ledger never claims a file whose table is not there. *)
THEOREM MigrationsLedgerIsTrue == Spec => []LedgerIsTrue
<1>1. MigrationsInv => LedgerIsTrue
  BY DEF MigrationsInv
<1>. QED
  BY <1>1, MigrationsInvHolds, PTL

(* Processes that may create never fail because of one another. *)
THEOREM MigrationsNoRaceErrors == Spec => []NoRaceErrors
<1>1. MigrationsInv => NoRaceErrors
  BY DEF MigrationsInv
<1>. QED
  BY <1>1, MigrationsInvHolds, PTL

(* A store that reports itself ready has every table. *)
THEOREM MigrationsReadyIsProvisioned == Spec => []ReadyIsProvisioned
<1>1. MigrationsInv => ReadyIsProvisioned
  BY DEF MigrationsInv
<1>. QED
  BY <1>1, MigrationsInvHolds, PTL

(* Exit code 0 of baselines-migrate means what it says. *)
THEOREM MigrationsExitZeroIsApplied == Spec => []ExitZeroIsApplied
<1>1. MigrationsInv => ExitZeroIsApplied
  BY DEF MigrationsInv
<1>. QED
  BY <1>1, MigrationsInvHolds, PTL

(***************************************************************************)
(* Whatever the processes do to each other, the database they share is     *)
(* provisioned file by file, in order and once.                            *)
(***************************************************************************)
THEOREM MigrationsImplementsProvisioning == Spec => ImplementsProvisioning
<1>. DEFINE provisioned == {f \in File : shape[f] = "current"}
<1>1. Init => Database!Init
  <2>. SUFFICES ASSUME Init
                PROVE  Database!Init
    OBVIOUS
  <2>1. LedgerIsTrue
    BY InitEstablishes DEF MigrationsInv
  <2>2. Applied \subseteq File
    BY DEF Applied
  <2>3. \A f \in Applied, g \in File : g < f => g \in 1 .. f
    BY <2>2, FileAssumption DEF File
  <2>. QED
    BY <2>1, <2>2, <2>3 DEF LedgerIsTrue, Database!Init, Database!File, File
<1>2. MigrationsInv /\ [Next]_vars => [Database!Next]_<<Applied, provisioned>>
  <2>. SUFFICES ASSUME MigrationsInv, [Next]_vars
                PROVE  [Database!Next]_<<Applied, provisioned>>
    OBVIOUS
  <2>1. ASSUME NEW p \in Process, Commit(p)
        PROVE  Database!Next
    <3>1. PICK f \in File : First(p, f) /\ Commits(f) /\ at[p] = "commit"
      BY <2>1 DEF Commit, Goes
    <3>2. /\ f \notin Applied
          /\ \A g \in File : g < f => g \in Applied
          /\ Applied' = Applied \cup {f}
          /\ \A g \in File : shape'[g] = IF g = f THEN "current" ELSE shape[g]
      BY <3>1, CommitFacts
    <3>3. provisioned' = provisioned \cup {f}
      BY <3>2
    <3>4. Database!Apply(f)
      BY <3>2, <3>3 DEF Database!Apply, Database!File, File
    <3>. QED
      BY <3>4 DEF Database!Next, Database!File, File
  <2>2. CASE UNCHANGED <<ledger, shape>>
    BY <2>2 DEF Applied
  <2>3. ASSUME NEW p \in Process, Step(p) \/ Crash(p), ~Commit(p)
        PROVE  UNCHANGED <<ledger, shape>>
    BY <2>3 DEF Step, Crash, Begin, Ping, ReadLedger, NextFile, Finished, TakeLock, NoLock,
                StatementFails, RollBack, LedgerDDL, Recheck, ExecFile, Writes, InsertEntry,
                Probe, Retry
  <2>. QED
    BY <2>1, <2>2, <2>3 DEF Next, vars
<1>. QED
  BY <1>1, <1>2, MigrationsInvHolds, PTL DEF Spec, ImplementsProvisioning, Database!Spec
=============================================================================
