-------------------------- MODULE RetrainQueueProofs --------------------------
(***************************************************************************)
(* Proofs about RetrainQueue, for every set of keys and workers and every  *)
(* choice of the constants its assumptions allow.                          *)
(***************************************************************************)
EXTENDS RetrainQueue, BackoffProofs, TLAPS

(***************************************************************************)
(* The few arithmetic facts about due times, leases and counts.            *)
(***************************************************************************)
LEMMA ConstantTypes ==
  /\ RetrainLease \in Nat /\ RetrainLease >= 1
  /\ Past \in Nat /\ MaxDelay \in Nat /\ MaxDelay >= 1 /\ MaxAge \in Nat
  /\ MaxAttempts \in Nat /\ MaxAttempts >= 1 /\ MaxFaults \in Nat
  /\ ScanLag \in Nat /\ MaxCronGap \in Nat
  /\ MaxCronGap <= MaxDelay /\ RetrainRetryMax <= MaxDelay /\ RetrainRetryMax \in Nat
  BY DurationAssumption, BoundAssumption DEF MaxDelay, MaxAge

(***************************************************************************)
(* A failed row is due again after a delay that is positive and within the *)
(* cap (config.go retryDelay).                                             *)
(***************************************************************************)
LEMMA DelayIsWithinCap ==
  \A n \in Attempts : RetryDelay(RetrainRetry, RetrainRetryMax, n) \in 1 .. RetrainRetryMax
<1>1. /\ RetrainRetry \in Nat /\ RetrainRetryMax \in Nat
      /\ RetrainRetry > 0 /\ RetrainRetry <= RetrainRetryMax
  BY DurationAssumption
<1>2. Attempts \subseteq Int
  BY ConstantTypes DEF Attempts
<1>. QED
  BY <1>1, <1>2, DelayIsPositive

(* A due time that lies far back is kept as the bound. *)
LEMMA ClipType == \A d \in Int : d <= MaxDelay => Clip(d) \in -Past .. MaxDelay
  BY ConstantTypes DEF Clip

(* A count saturates at its bound. *)
LEMMA CappedType ==
  \A n \in Nat, bound \in Nat : Capped(n, bound) \in 0 .. bound
  BY DEF Capped

(* Every way a statement rewrites a row leaves a row. *)
LEMMA RowUpdates ==
  ASSUME NEW row \in Row
  PROVE  /\ \A w \in Worker : Leased(row, w) \in Row
         /\ Nearer(row) \in Row
         /\ [row EXCEPT !.until = RetrainLease] \in Row
         /\ [row EXCEPT !.recent = FALSE] \in Row
         /\ [row EXCEPT !.enabled = ~@] \in Row
         /\ \A delay \in Int, status \in {"none", "ok", "error"}, attempts \in Attempts :
              delay <= MaxDelay => Judged(row, delay, status, attempts) \in Row
<1>. USE DEF Row
<1>2. \A w \in Worker : Leased(row, w) \in Row
  <2>1. RetrainLease \in Lapsed .. RetrainLease
    BY ConstantTypes DEF Lapsed
  <2>. QED
    BY <2>1 DEF Leased
<1>3. Nearer(row) \in Row
  <2>1. Clip(row.next - 1) \in -Past .. MaxDelay
    BY ClipType, ConstantTypes
  <2>2. Down(row.until, Lapsed) \in Lapsed .. RetrainLease
    BY ConstantTypes DEF Down, Lapsed
  <2>. QED
    BY <2>1, <2>2 DEF Nearer
<1>4. [row EXCEPT !.until = RetrainLease] \in Row
  BY ConstantTypes DEF Lapsed
<1>5. [row EXCEPT !.recent = FALSE] \in Row /\ [row EXCEPT !.enabled = ~@] \in Row
  OBVIOUS
<1>6. \A delay \in Int, status \in {"none", "ok", "error"}, attempts \in Attempts :
        delay <= MaxDelay => Judged(row, delay, status, attempts) \in Row
  <2>. SUFFICES ASSUME NEW delay \in Int, NEW status \in {"none", "ok", "error"},
                       NEW attempts \in Attempts, delay <= MaxDelay
                PROVE  Judged(row, delay, status, attempts) \in Row
    OBVIOUS
  <2>1. Clip(delay) \in -Past .. MaxDelay
    BY ClipType
  <2>2. Lapsed \in Lapsed .. RetrainLease
    BY ConstantTypes DEF Lapsed
  <2>. QED
    BY <2>1, <2>2 DEF Judged
<1>. QED
  BY <1>2, <1>3, <1>4, <1>5, <1>6

(* Schedule inserts a row. *)
LEMMA FreshRowType == FreshRow \in Row
  BY ConstantTypes DEF FreshRow, Row, Attempts, Lapsed

(* Every state a goroutine begins in is one of a goroutine. *)
LEMMA JobTypes ==
  /\ NoJob \in Job
  /\ \A p \in {"claimed", "failed", "trained"} : [NoJob EXCEPT !.phase = p] \in Job
  /\ \A c \in BOOLEAN : [NoJob EXCEPT !.phase = "extended", !.covered = c] \in Job
<1>1. NoJob \in Job
  BY ConstantTypes DEF NoJob, Job
<1>2. ASSUME NEW p \in {"claimed", "failed", "trained"}
      PROVE  [NoJob EXCEPT !.phase = p] \in Job
  BY <1>1 DEF Job
<1>3. ASSUME NEW c \in BOOLEAN
      PROVE  [NoJob EXCEPT !.phase = "extended", !.covered = c] \in Job
  BY <1>1 DEF Job
<1>. QED
  BY <1>1, <1>2, <1>3

(* Every way a goroutine proceeds, or time passes over it, leaves one. *)
LEMMA JobUpdates ==
  ASSUME NEW j \in Job
  PROVE  /\ Uncovered(j) \in Job
         /\ [j EXCEPT !.left = 0] \in Job
         /\ \A n \in 0 .. RetrainLease : [j EXCEPT !.phase = "fitting", !.left = n] \in Job
         /\ Elapsed(j) \in Job
<1>. USE DEF Job
<1>1. Uncovered(j) \in Job
  BY DEF Uncovered
<1>2. [j EXCEPT !.left = 0] \in Job
  BY ConstantTypes
<1>3. \A n \in 0 .. RetrainLease : [j EXCEPT !.phase = "fitting", !.left = n] \in Job
  OBVIOUS
<1>4. Elapsed(j) \in Job
  <2>1. Down(j.left, 0) \in 0 .. RetrainLease
    BY ConstantTypes DEF Down
  <2>2. [j EXCEPT !.left = Down(@, 0)] \in Job
    BY <2>1
  <2>. QED
    BY <1>1, <2>2 DEF Elapsed
<1>. QED
  BY <1>1, <1>2, <1>3, <1>4

-------------------------------------------------------------------------------
(* Type correctness *)

(* An empty queue and a fleet that is down have their types. *)
LEMMA InitTypes == Init => TypeOK
<1>. SUFFICES ASSUME Init PROVE TypeOK
  OBVIOUS
<1>1. NotHeld \in Attempts \cup {NotHeld}
  OBVIOUS
<1>2. /\ table \in [Key -> Row \cup {NoRow}]
      /\ snapshots \in [Key -> {"absent", "fresh", "expired"}]
  BY DEF Init
<1>3. job \in [Worker -> [Key -> Job]]
  BY JobTypes DEF Init
<1>4. held \in [Worker -> [Key -> Attempts \cup {NotHeld}]]
  BY <1>1 DEF Init
<1>5. age \in [Worker -> 0 .. MaxAge] /\ faults \in 0 .. MaxFaults
  BY ConstantTypes DEF Init
<1>6. /\ proc \in [Worker -> {"down", "starting", "idle", "retire", "sweep", "schedule", "claim",
                            "train"}]
      /\ ticker \in SUBSET Worker /\ stopping \in SUBSET Worker
      /\ doomed \in [Worker -> SUBSET Key] /\ ready \in [Worker -> SUBSET Key]
  BY DEF Init
<1>. QED
  BY <1>2, <1>3, <1>4, <1>5, <1>6 DEF TypeOK

(* A failed call is counted within the bound. *)
LEMMA ChargeType ==
  ASSUME TypeOK, NEW answer, NEW cancelled, Charge(answer, cancelled)
  PROVE  faults' \in 0 .. MaxFaults
  BY ConstantTypes DEF TypeOK, Charge, Capped

(***************************************************************************)
(* A judgement within the cap of a delay keeps the table well typed.       *)
(***************************************************************************)
LEMMA DoneType ==
  ASSUME TypeOK, NEW w \in Worker, NEW k \in Key, NEW answer,
         NEW delay \in Int, delay <= MaxDelay,
         NEW status \in {"none", "ok", "error"}, NEW attempts \in Attempts,
         Done(w, k, answer, delay, status, attempts)
  PROVE  table' \in [Key -> Row \cup {NoRow}]
<1>1. CASE answer # "refused" /\ OwnerGuard(w, k)
  <2>1. table[k] \in Row
    BY <1>1 DEF OwnerGuard, Exists, TypeOK
  <2>2. Judged(table[k], delay, status, attempts) \in Row
    BY <2>1, RowUpdates
  <2>3. table' = [table EXCEPT ![k] = Judged(table[k], delay, status, attempts)]
    BY <1>1 DEF Done
  <2>. QED
    BY <2>2, <2>3 DEF TypeOK
<1>2. CASE ~(answer # "refused" /\ OwnerGuard(w, k))
  BY <1>2 DEF Done, TypeOK
<1>. QED
  BY <1>1, <1>2

(* The count a worker judges with is a count. *)
LEMMA FailuresType ==
  ASSUME TypeOK, NEW w \in Worker, NEW k \in Key
  PROVE  Failures(w, k) \in Attempts
<1>1. held[w][k] \in 0 .. MaxAttempts \/ held[w][k] = -1
  BY DEF TypeOK, Attempts, NotHeld
<1>. QED
  BY <1>1, ConstantTypes DEF Failures, Capped, Attempts

(* A claim that is dropped leaves held a map of counts. *)
LEMMA HoldingTypes ==
  ASSUME TypeOK, NEW w \in Worker, NEW k \in Key, NEW answer, Unhold(w, k, answer)
  PROVE  held' \in [Worker -> [Key -> Attempts \cup {NotHeld}]]
  BY DEF TypeOK, Unhold

(* A goroutine that proceeds leaves a map of goroutines. *)
LEMMA SetJobType ==
  ASSUME TypeOK, NEW w \in Worker, NEW k \in Key, NEW j \in Job, SetJob(w, k, j)
  PROVE  job' \in [Worker -> [Key -> Job]]
  BY DEF TypeOK, SetJob

(* Rows that are removed leave a table. *)
LEMMA RemoveTypes ==
  ASSUME TypeOK, NEW keys, Remove(keys)
  PROVE  /\ table' \in [Key -> Row \cup {NoRow}]
         /\ job' \in [Worker -> [Key -> Job]]
  BY JobUpdates DEF TypeOK, Remove

(* A process that ends leaves the types as they are. *)
LEMMA ForgetTypes ==
  ASSUME TypeOK, NEW w \in Worker, Forget(w), UNCHANGED <<table, snapshots>>,
         faults' \in 0 .. MaxFaults
  PROVE  TypeOK'
<1>1. job' \in [Worker -> [Key -> Job]]
  BY JobTypes DEF TypeOK, Forget
<1>2. held' \in [Worker -> [Key -> Attempts \cup {NotHeld}]]
  BY DEF TypeOK, Forget
<1>. QED
  BY <1>1, <1>2, ConstantTypes DEF TypeOK, Forget

(***************************************************************************)
(* Every step of a Run loop keeps the types.                               *)
(***************************************************************************)
LEMMA RunTypes ==
  ASSUME TypeOK, NEW w \in Worker, Run(w)
  PROVE  TypeOK'
<1>1. CASE StartTick(w)
  <2>1. CASE ScanFails(w)
    <3>1. faults' \in 0 .. MaxFaults
      BY <2>1, ConstantTypes DEF ScanFails, TypeOK
    <3>. QED
      BY <1>1, <2>1, <3>1 DEF TypeOK, StartTick, ScanFails
  <2>2. ASSUME NEW view \in Views, NEW lag \in 0 .. ScanLag, ScanAnswers(w, view, lag)
        PROVE  TypeOK'
    <3>1. Capped(lag, MaxAge) \in 0 .. MaxAge
      BY ConstantTypes, CappedType
    <3>2. Dead(view) \subseteq Key /\ view.ready \subseteq Key
      BY ViewAssumption DEF Dead, View
    <3>. QED
      BY <1>1, <2>2, <3>1, <3>2 DEF TypeOK, StartTick, ScanAnswers
  <2>. QED
    BY <1>1, <2>1, <2>2 DEF StartTick
<1>2. CASE Retire(w)
  <2>1. PICK answer \in Answers("retire", Cancelled(w)) :
          /\ Charge(answer, Cancelled(w))
          /\ IF answer = "refused"
             THEN UNCHANGED <<table, snapshots, job>>
             ELSE Remove(doomed[w]) /\ snapshots' = WithoutModels(doomed[w])
    BY <1>2 DEF Retire
  <2>2. faults' \in 0 .. MaxFaults
    BY <2>1, ChargeType
  <2>3. /\ table' \in [Key -> Row \cup {NoRow}]
        /\ job' \in [Worker -> [Key -> Job]]
    BY <2>1, RemoveTypes DEF TypeOK
  <2>4. snapshots' \in [Key -> {"absent", "fresh", "expired"}]
    BY <2>1 DEF TypeOK, WithoutModels
  <2>. QED
    BY <1>2, <2>2, <2>3, <2>4 DEF TypeOK, Retire
<1>3. CASE Sweep(w)
  <2>1. PICK answer : /\ Charge(answer, Cancelled(w))
                      /\ snapshots' = IF answer = "refused" \/ ~Sweeps THEN snapshots
                                      ELSE WithoutModels({k \in Key : Collectable(k)})
    BY <1>3 DEF Sweep
  <2>2. faults' \in 0 .. MaxFaults
    BY <2>1, ChargeType
  <2>3. snapshots' \in [Key -> {"absent", "fresh", "expired"}]
    BY <2>1 DEF TypeOK, WithoutModels
  <2>. QED
    BY <1>3, <2>2, <2>3 DEF TypeOK, Sweep
<1>4. CASE Schedule(w)
  <2>1. PICK answer : /\ Charge(answer, Cancelled(w))
                      /\ table' = IF answer = "refused" THEN table
                                  ELSE [k \in Key |-> IF Inserted(k, ready[w])
                                                      THEN FreshRow ELSE table[k]]
    BY <1>4 DEF Schedule
  <2>2. faults' \in 0 .. MaxFaults
    BY <2>1, ChargeType
  <2>3. table' \in [Key -> Row \cup {NoRow}]
    BY <2>1, FreshRowType DEF TypeOK
  <2>. QED
    BY <1>4, <2>2, <2>3 DEF TypeOK, Schedule
<1>5. CASE Claim(w)
  <2>1. PICK answer \in Answers("claim", Cancelled(w)), keys \in SUBSET Key :
          /\ Oldest(keys)
          /\ Charge(answer, Cancelled(w))
          /\ table' = IF answer = "refused" THEN table
                      ELSE [k \in Key |-> IF k \in keys THEN Leased(table[k], w) ELSE table[k]]
          /\ IF answer = "ok" /\ keys # {}
             THEN /\ job' = [job EXCEPT ![w] = [k \in Key |->
                               IF k \in keys THEN [NoJob EXCEPT !.phase = "claimed"] ELSE NoJob]]
                  /\ HoldClaims(w, keys)
                  /\ proc' = [proc EXCEPT ![w] = "train"]
                  /\ UNCHANGED age
             ELSE /\ proc' = [proc EXCEPT ![w] = "idle"]
                  /\ age' = [age EXCEPT ![w] = 0]
                  /\ UNCHANGED <<job, held>>
    BY <1>5 DEF Claim
  <2>2. faults' \in 0 .. MaxFaults
    BY <2>1, ChargeType
  <2>3. \A k \in keys : table[k] \in Row
    BY <2>1 DEF Oldest, Claimable, Exists, TypeOK
  <2>4. table' \in [Key -> Row \cup {NoRow}]
    BY <2>1, <2>3, RowUpdates DEF TypeOK
  <2>5. job' \in [Worker -> [Key -> Job]]
    <3>1. CASE answer = "ok" /\ keys # {}
      <4>. DEFINE claimed == [k \in Key |->
                    IF k \in keys THEN [NoJob EXCEPT !.phase = "claimed"] ELSE NoJob]
      <4>1. claimed \in [Key -> Job]
        BY JobTypes
      <4>2. job' = [job EXCEPT ![w] = claimed]
        BY <2>1, <3>1
      <4>. QED
        BY <4>1, <4>2 DEF TypeOK
    <3>2. CASE ~(answer = "ok" /\ keys # {})
      BY <2>1, <3>2 DEF TypeOK
    <3>. QED
      BY <3>1, <3>2
  <2>6. \A k \in keys : table[k].attempts \in Attempts
    BY <2>3 DEF Row
  <2>7. held' \in [Worker -> [Key -> Attempts \cup {NotHeld}]]
    <3>1. CASE answer = "ok" /\ keys # {}
      <4>. DEFINE now == [k \in Key |-> IF k \in keys THEN table[k].attempts ELSE held[w][k]]
      <4>1. now \in [Key -> Attempts \cup {NotHeld}]
        BY <2>6 DEF TypeOK
      <4>2. held' = [held EXCEPT ![w] = now]
        BY <2>1, <3>1 DEF HoldClaims
      <4>. QED
        BY <4>1, <4>2 DEF TypeOK
    <3>2. CASE ~(answer = "ok" /\ keys # {})
      BY <2>1, <3>2 DEF TypeOK
    <3>. QED
      BY <3>1, <3>2
  <2>8. age' \in [Worker -> 0 .. MaxAge]
    BY <2>1, ConstantTypes DEF TypeOK
  <2>. QED
    BY <1>5, <2>1, <2>2, <2>4, <2>5, <2>7, <2>8 DEF TypeOK, Claim
<1>6. CASE EndTick(w)
  BY <1>6, ConstantTypes DEF TypeOK, EndTick
<1>7. CASE Exit(w)
  BY <1>7, ForgetTypes DEF Exit, TypeOK
<1>8. ASSUME NEW k \in Key, Release(w, k)
      PROVE  TypeOK'
  <2>1. PICK answer : /\ Charge(answer, FALSE)
                      /\ Done(w, k, answer, 0, "error", held[w][k])
    BY <1>8 DEF Release
  <2>2. faults' \in 0 .. MaxFaults
    BY <2>1, ChargeType
  <2>3. held[w][k] \in Attempts
    BY <1>8 DEF Release, TypeOK
  <2>4. table' \in [Key -> Row \cup {NoRow}]
    BY <2>1, <2>3, DoneType, ConstantTypes
  <2>5. held' \in [Worker -> [Key -> Attempts \cup {NotHeld}]]
    BY <1>8 DEF TypeOK, Release
  <2>. QED
    BY <1>8, <2>2, <2>4, <2>5 DEF TypeOK, Release
<1>. QED
  BY <1>1, <1>2, <1>3, <1>4, <1>5, <1>6, <1>7, <1>8 DEF Run

(***************************************************************************)
(* Every step of a training goroutine keeps the types.                     *)
(***************************************************************************)
LEMMA TrainHashTypes ==
  ASSUME TypeOK, NEW w \in Worker, NEW k \in Key, TrainHash(w, k)
  PROVE  TypeOK'
<1>1. CASE NotStarted(w, k)
  BY <1>1, JobTypes, SetJobType DEF TypeOK, NotStarted
<1>2. CASE Extend(w, k)
  <2>1. PICK answer \in Answers("extend", Cancelled(w)) :
          LET applied == answer # "refused" /\ OwnerGuard(w, k)
          IN  /\ Charge(answer, Cancelled(w))
              /\ table' = IF applied THEN [table EXCEPT ![k].until = RetrainLease] ELSE table
              /\ SetJob(w, k, IF answer = "ok" /\ ~applied THEN NoJob
                              ELSE [NoJob EXCEPT !.phase = "extended", !.covered = applied])
    BY <1>2 DEF Extend
  <2>. DEFINE applied == answer # "refused" /\ OwnerGuard(w, k)
  <2>2. faults' \in 0 .. MaxFaults
    BY <2>1, ChargeType
  <2>3. applied => table[k] \in Row
    BY DEF OwnerGuard, Exists, TypeOK
  <2>4. table' \in [Key -> Row \cup {NoRow}]
    BY <2>1, <2>3, RowUpdates DEF TypeOK
  <2>5. applied \in BOOLEAN
    OBVIOUS
  <2>6. PICK j \in Job : SetJob(w, k, j)
    BY <2>1, <2>5, JobTypes
  <2>7. job' \in [Worker -> [Key -> Job]]
    BY <2>6, SetJobType
  <2>. QED
    BY <1>2, <2>2, <2>4, <2>7 DEF TypeOK, Extend
<1>3. CASE FitStarts(w, k)
  <2>1. [job[w][k] EXCEPT !.phase = "fitting",
                          !.left = IF Cancelled(w) THEN 0 ELSE FitDeadline] \in Job
    <3>1. (IF Cancelled(w) THEN 0 ELSE FitDeadline) \in 0 .. RetrainLease
      BY ConstantTypes DEF FitDeadline
    <3>2. job[w][k] \in Job
      BY DEF TypeOK
    <3>. QED
      BY <3>1, <3>2, JobUpdates
  <2>2. job' \in [Worker -> [Key -> Job]]
    BY <1>3, <2>1, SetJobType DEF FitStarts
  <2>. QED
    BY <1>3, <2>2 DEF TypeOK, FitStarts
<1>4. CASE FitFails(w, k)
  <2>1. job' \in [Worker -> [Key -> Job]]
    BY <1>4, JobTypes, SetJobType DEF FitFails
  <2>. QED
    BY <1>4, <2>1 DEF TypeOK, FitFails
<1>5. CASE Put(w, k)
  <2>1. PICK answer \in Answers("put", FALSE), parses \in BOOLEAN :
          /\ Charge(answer, FALSE)
          /\ snapshots' = IF answer = "refused" THEN snapshots
                          ELSE [snapshots EXCEPT ![k] = "fresh"]
          /\ SetJob(w, k, [NoJob EXCEPT !.phase = IF answer = "ok" /\ parses
                                                  THEN "trained" ELSE "failed"])
    BY <1>5 DEF Put
  <2>2. faults' \in 0 .. MaxFaults
    BY <2>1, ChargeType
  <2>3. PICK j \in Job : SetJob(w, k, j)
    BY <2>1, JobTypes
  <2>4. job' \in [Worker -> [Key -> Job]]
    BY <2>3, SetJobType
  <2>5. snapshots' \in [Key -> {"absent", "fresh", "expired"}]
    BY <2>1 DEF TypeOK
  <2>. QED
    BY <1>5, <2>2, <2>4, <2>5 DEF TypeOK, Put
<1>6. CASE FinishTrained(w, k)
  <2>1. PICK answer \in Answers("done", Cancelled(w)), gap \in 1 .. MaxCronGap :
          /\ Charge(answer, Cancelled(w))
          /\ Done(w, k, answer, gap - age[w], "ok", 0)
          /\ Unhold(w, k, answer)
    BY <1>6 DEF FinishTrained
  <2>2. faults' \in 0 .. MaxFaults
    BY <2>1, ChargeType
  <2>3. age[w] \in Nat
    BY ConstantTypes DEF TypeOK
  <2>4. gap - age[w] \in Int /\ gap - age[w] <= MaxDelay /\ 0 \in Attempts
    BY <2>3, ConstantTypes DEF Attempts
  <2>5. table' \in [Key -> Row \cup {NoRow}]
    BY <2>1, <2>4, DoneType
  <2>6. held' \in [Worker -> [Key -> Attempts \cup {NotHeld}]]
    BY <2>1, HoldingTypes
  <2>7. job' \in [Worker -> [Key -> Job]]
    BY <1>6, JobTypes, SetJobType DEF FinishTrained
  <2>. QED
    BY <1>6, <2>2, <2>5, <2>6, <2>7 DEF TypeOK, FinishTrained
<1>7. CASE FinishFailed(w, k)
  <2>. DEFINE delay == RetryDelay(RetrainRetry, RetrainRetryMax, Failures(w, k)) - age[w]
  <2>1. PICK answer \in Answers("done", Cancelled(w)) :
          /\ Charge(answer, Cancelled(w))
          /\ Done(w, k, answer, delay, "error", Failures(w, k))
          /\ Unhold(w, k, answer)
    BY <1>7 DEF FinishFailed
  <2>2. faults' \in 0 .. MaxFaults
    BY <2>1, ChargeType
  <2>3. age[w] \in Nat
    BY ConstantTypes DEF TypeOK
  <2>4. Failures(w, k) \in Attempts
    BY FailuresType
  <2>5. delay \in Int /\ delay <= MaxDelay
    BY <2>3, <2>4, DelayIsWithinCap, ConstantTypes
  <2>. HIDE DEF delay
  <2>6. table' \in [Key -> Row \cup {NoRow}]
    BY <2>1, <2>4, <2>5, DoneType
  <2>7. held' \in [Worker -> [Key -> Attempts \cup {NotHeld}]]
    BY <2>1, HoldingTypes
  <2>8. job' \in [Worker -> [Key -> Job]]
    BY <1>7, JobTypes, SetJobType DEF FinishFailed
  <2>. QED
    BY <1>7, <2>2, <2>6, <2>7, <2>8 DEF TypeOK, FinishFailed
<1>. QED
  BY <1>1, <1>2, <1>3, <1>4, <1>5, <1>6, <1>7 DEF TrainHash

(***************************************************************************)
(* Time, the admin and the orchestrator keep the types.                    *)
(***************************************************************************)
LEMMA EnvironmentTypes ==
  ASSUME TypeOK, Environment
  PROVE  TypeOK'
<1>1. CASE Tick
  <2>1. table' \in [Key -> Row \cup {NoRow}]
    BY <1>1, RowUpdates DEF Tick, TypeOK, Exists
  <2>2. job' \in [Worker -> [Key -> Job]]
    BY <1>1, JobUpdates DEF Tick, TypeOK
  <2>3. \A w \in Worker : Capped(age[w] + 1, MaxAge) \in 0 .. MaxAge
    <3>1. ASSUME NEW w \in Worker PROVE age[w] + 1 \in Nat
      BY ConstantTypes DEF TypeOK
    <3>. QED
      BY <3>1, ConstantTypes, CappedType
  <2>4. age' \in [Worker -> 0 .. MaxAge]
    BY <1>1, <2>3 DEF Tick, TypeOK
  <2>. QED
    BY <1>1, <2>1, <2>2, <2>4 DEF TypeOK, Tick
<1>2. ASSUME NEW k \in Key, ModelAges(k)
      PROVE  TypeOK'
  BY <1>2 DEF TypeOK, ModelAges
<1>3. ASSUME NEW k \in Key, RunAges(k)
      PROVE  TypeOK'
  <2>1. [table[k] EXCEPT !.recent = FALSE] \in Row
    BY <1>3, RowUpdates DEF RunAges, Exists, TypeOK
  <2>. QED
    BY <1>3, <2>1 DEF TypeOK, RunAges
<1>4. ASSUME NEW k \in Key, AdminToggles(k)
      PROVE  TypeOK'
  <2>1. [table[k] EXCEPT !.enabled = ~@] \in Row
    BY <1>4, RowUpdates DEF AdminToggles, Exists, TypeOK
  <2>. QED
    BY <1>4, <2>1 DEF TypeOK, AdminToggles
<1>5. ASSUME NEW k \in Key, AdminDeletes(k)
      PROVE  TypeOK'
  BY <1>5, RemoveTypes DEF TypeOK, AdminDeletes
<1>6. ASSUME NEW w \in Worker, Start(w)
      PROVE  TypeOK'
  BY <1>6 DEF TypeOK, Start
<1>7. ASSUME NEW w \in Worker, Stop(w)
      PROVE  TypeOK'
  <2>1. job' \in [Worker -> [Key -> Job]]
    BY <1>7, JobUpdates DEF TypeOK, Stop
  <2>2. faults' \in 0 .. MaxFaults
    BY <1>7, ConstantTypes DEF TypeOK, Stop
  <2>. QED
    BY <1>7, <2>1, <2>2 DEF TypeOK, Stop
<1>8. ASSUME NEW w \in Worker, Crash(w)
      PROVE  TypeOK'
  <2>1. faults' \in 0 .. MaxFaults
    BY <1>8, ConstantTypes DEF TypeOK, Crash
  <2>. QED
    BY <1>8, <2>1, ForgetTypes DEF Crash
<1>. QED
  BY <1>1, <1>2, <1>3, <1>4, <1>5, <1>6, <1>7, <1>8 DEF Environment

(***************************************************************************)
(* The state of the tables and of every worker stays well typed: due times *)
(* within the cap of a delay, leases within RETRAIN_LEASE, counts and      *)
(* bookkeeping of claims within their ranges.                              *)
(***************************************************************************)
THEOREM TypeCorrect == Spec => []TypeOK
<1>1. TypeOK /\ [Next]_vars => TypeOK'
  <2>. SUFFICES ASSUME TypeOK, [Next]_vars PROVE TypeOK'
    OBVIOUS
  <2>1. CASE UNCHANGED vars
    BY <2>1 DEF vars, TypeOK
  <2>. QED
    BY <2>1, RunTypes, TrainHashTypes, EnvironmentTypes DEF Next
<1>. QED
  BY <1>1, InitTypes, PTL DEF Spec
-------------------------------------------------------------------------------
(* Claims, leases and models *)

(* A key that no goroutine trains has no fit and no lease. *)
LEMMA NoJobFields ==
  NoJob.phase = "none" /\ NoJob.left = 0 /\ NoJob.covered = FALSE
  BY DEF NoJob

(* An empty queue satisfies the invariant. *)
LEMMA InitInv == Init => QueueInv
  BY NoJobFields DEF Init, QueueInv, TrainingIsHeld, CoveredIsLeased, TrainedHasModel,
                     RecentOkHasModel, Exists

(***************************************************************************)
(* A row that is judged, leased or extended; what it leaves of the others. *)
(***************************************************************************)
LEMMA LeasedFields ==
  ASSUME NEW row \in Row, NEW w
  PROVE  LET l == Leased(row, w)
         IN  /\ l.by = w /\ l.until = RetrainLease /\ l.attempts = row.attempts
             /\ l.status = row.status /\ l.recent = row.recent
  BY DEF Leased, Row

(* Time brings the lease of a row nearer and leaves its outcome. *)
LEMMA NearerFields ==
  ASSUME NEW row \in Row
  PROVE  LET n == Nearer(row)
         IN  /\ n.by = row.by /\ n.until = Down(row.until, Lapsed)
             /\ n.attempts = row.attempts /\ n.status = row.status /\ n.recent = row.recent
  BY DEF Nearer, Row

(* Time brings the deadline of a fit nearer. *)
LEMMA ElapsedFields ==
  ASSUME NEW j \in Job
  PROVE  /\ Elapsed(j).phase = j.phase
         /\ Elapsed(j).covered = (j.covered /\ j.phase # "extended")
         /\ j.phase = "fitting" => Elapsed(j).left = Down(j.left, 0)
         /\ Elapsed(NoJob) = NoJob
<1>1. Elapsed(j).phase = j.phase
  BY DEF Elapsed, Uncovered, Job
<1>2. Elapsed(j).covered = (j.covered /\ j.phase # "extended")
  BY DEF Elapsed, Uncovered, Job
<1>3. j.phase = "fitting" => Elapsed(j).left = Down(j.left, 0)
  BY DEF Elapsed, Uncovered, Job
<1>4. Elapsed(NoJob) = NoJob
  BY NoJobFields DEF Elapsed
<1>. QED
  BY <1>1, <1>2, <1>3, <1>4

(* A row that goes takes the cover of a fit, not the fit. *)
LEMMA UncoveredFields ==
  ASSUME NEW j \in Job
  PROVE  /\ Uncovered(j).covered = FALSE /\ Uncovered(j).phase = j.phase
         /\ Uncovered(j).left = j.left
  BY DEF Uncovered, Job

(* Nothing to uncover where nothing is trained. *)
LEMMA NoJobUncovered == Uncovered(NoJob) = NoJob
  BY NoJobFields, JobTypes DEF Uncovered, Job

(***************************************************************************)
(* Deleting rows.                                                          *)
(***************************************************************************)
LEMMA RemoveKeepsModels ==
  ASSUME TypeOK, QueueInv, NEW keys, Remove(keys),
         \A k \in Key : snapshots'[k] = snapshots[k] \/ k \in keys
  PROVE  CoveredIsLeased' /\ TrainedHasModel' /\ RecentOkHasModel'
<1>. USE DEF QueueInv
<1>0. \A w \in Worker, k \in Key :
        /\ job'[w][k] = IF k \in keys THEN Uncovered(job[w][k]) ELSE job[w][k]
        /\ job[w][k] \in Job
  BY DEF Remove, TypeOK
<1>1. \A k \in Key : /\ k \notin keys => table'[k] = table[k]
                     /\ k \in keys => table'[k] = NoRow
  BY DEF Remove
<1>3. CoveredIsLeased'
  <2>1. ASSUME NEW w \in Worker, NEW k \in Key, job'[w][k].covered
        PROVE  k \notin keys /\ job'[w][k] = job[w][k] /\ table'[k] = table[k]
    BY <1>0, <1>1, <2>1, UncoveredFields
  <2>. QED
    BY <2>1 DEF CoveredIsLeased, Exists
<1>4. TrainedHasModel'
  BY <1>0, <1>1, UncoveredFields DEF TrainedHasModel, Exists
<1>5. RecentOkHasModel'
  BY <1>1 DEF RecentOkHasModel, Exists
<1>. QED
  BY <1>3, <1>4, <1>5

(***************************************************************************)
(* Forgetting a process.                                                   *)
(***************************************************************************)
LEMMA ForgetKeepsInv ==
  ASSUME TypeOK, QueueInv, NEW w \in Worker, Forget(w), UNCHANGED <<table, snapshots>>
  PROVE  QueueInv'
<1>. USE DEF QueueInv
<1>1. \A v \in Worker, k \in Key :
        /\ v = w => job'[v][k] = NoJob
        /\ v # w => job'[v][k] = job[v][k] /\ held'[v][k] = held[v][k] /\ proc'[v] = proc[v]
  BY DEF Forget, TypeOK
<1>2. TrainingIsHeld'
  BY <1>1 DEF TrainingIsHeld
<1>3. CoveredIsLeased'
  BY <1>1, NoJobFields DEF CoveredIsLeased, Exists
<1>4. TrainedHasModel'
  BY <1>1, NoJobFields DEF TrainedHasModel, Exists
<1>5. RecentOkHasModel'
  BY DEF RecentOkHasModel, Exists
<1>. QED
  BY <1>2, <1>3, <1>4, <1>5

(***************************************************************************)
(* A judgement touches only the judge's own row: whatever other workers'   *)
(* claims cover stays covered.                                             *)
(***************************************************************************)
LEMMA DoneRow ==
  ASSUME TypeOK, NEW w \in Worker, NEW k \in Key, NEW answer, NEW delay, NEW status, NEW attempts,
         Done(w, k, answer, delay, status, attempts)
  PROVE  /\ \A j \in Key : j # k => table'[j] = table[j]
         /\ \/ table'[k] = table[k]
            \/ /\ answer # "refused" /\ Exists(k) /\ table[k].by = w
               /\ table'[k].by = Nobody /\ table'[k].until = Lapsed
               /\ table'[k].status = status /\ table'[k].attempts = attempts
               /\ table'[k].recent = TRUE
<1>1. CASE answer # "refused" /\ OwnerGuard(w, k)
  <2>1. table[k] \in Row
    BY <1>1 DEF OwnerGuard, Exists, TypeOK
  <2>2. table' = [table EXCEPT ![k] = Judged(table[k], delay, status, attempts)]
    BY <1>1 DEF Done
  <2>3. table'[k] = Judged(table[k], delay, status, attempts)
    BY <2>2 DEF TypeOK
  <2>4. \A j \in Key : j # k => table'[j] = table[j]
    BY <2>2 DEF TypeOK
  <2>5. table'[k].by = Nobody /\ table'[k].until = Lapsed /\ table'[k].status = status
          /\ table'[k].attempts = attempts /\ table'[k].recent = TRUE
    <3>. DEFINE judged == Judged(table[k], delay, status, attempts)
    <3>1. /\ judged.by = Nobody /\ judged.until = Lapsed /\ judged.status = status
          /\ judged.attempts = attempts /\ judged.recent = TRUE
      BY <2>1 DEF Judged, Row
    <3>2. table'[k] = judged
      BY <2>3
    <3>. HIDE DEF judged
    <3>. QED
      BY <3>1, <3>2
  <2>. QED
    BY <1>1, <2>4, <2>5 DEF OwnerGuard
<1>2. CASE ~(answer # "refused" /\ OwnerGuard(w, k))
  BY <1>2 DEF Done
<1>. QED
  BY <1>1, <1>2

(* A finish ends its own goroutine and moves only the row it names. *)
LEMMA DoneKeepsClaims ==
  ASSUME TypeOK, QueueInv, NEW w \in Worker, NEW k \in Key, NEW answer, NEW delay, NEW status,
         NEW attempts, Done(w, k, answer, delay, status, attempts), UNCHANGED snapshots,
         job'[w][k] = NoJob,
         \A v \in Worker, j \in Key : (v # w \/ j # k) => job'[v][j] = job[v][j]
  PROVE  CoveredIsLeased' /\ TrainedHasModel'
<1>0. /\ \A j \in Key : j # k => table'[j] = table[j]
      /\ \/ table'[k] = table[k]
         \/ table[k].by = w /\ table'[k].by = Nobody
  BY DoneRow
<1>1. \A v \in Worker, j \in Key :
        job'[v][j] # NoJob => /\ job'[v][j] = job[v][j]
                              /\ Exists(j) /\ table[j].by = v => table'[j] = table[j]
  BY <1>0
<1>2. \A v \in Worker, j \in Key :
        Exists(j)' /\ table'[j].by = v => Exists(j) /\ table[j].by = v
  BY <1>0, NobodyAssumption DEF Exists
<1>3. CoveredIsLeased'
  <2>1. ASSUME NEW v \in Worker, NEW j \in Key, job'[v][j].covered
        PROVE  /\ job'[v][j] = job[v][j]
               /\ Exists(j) /\ table[j].by = v => table'[j] = table[j]
    BY <1>1, <2>1, NoJobFields
  <2>. QED
    BY <2>1 DEF QueueInv, CoveredIsLeased, Exists
<1>4. TrainedHasModel'
  <2>1. ASSUME NEW v \in Worker, NEW j \in Key, job'[v][j].phase = "trained"
        PROVE  job'[v][j] = job[v][j]
    BY <1>1, <2>1, NoJobFields
  <2>. QED
    BY <1>2, <2>1 DEF QueueInv, TrainedHasModel
<1>. QED
  BY <1>3, <1>4

(* A success is recorded only after its Put. *)
LEMMA DoneKeepsRecent ==
  ASSUME TypeOK, QueueInv, NEW w \in Worker, NEW k \in Key, NEW answer, NEW delay, NEW status,
         NEW attempts, Done(w, k, answer, delay, status, attempts), UNCHANGED snapshots,
         status = "ok" => job[w][k].phase = "trained"
  PROVE  RecentOkHasModel'
<1>1. /\ \A j \in Key : j # k => table'[j] = table[j]
      /\ \/ table'[k] = table[k]
         \/ /\ answer # "refused" /\ Exists(k) /\ table[k].by = w
            /\ table'[k].by = Nobody /\ table'[k].until = Lapsed
            /\ table'[k].status = status /\ table'[k].attempts = attempts
            /\ table'[k].recent = TRUE
  BY DoneRow
<1>. QED
  BY <1>1 DEF QueueInv, RecentOkHasModel, TrainedHasModel, Exists

(* The statements of a tick and of a shutdown keep the invariant. *)
LEMMA RunKeepsInv ==
  ASSUME TypeOK, TypeOK', QueueInv, NEW w \in Worker, Run(w)
  PROVE  QueueInv'
<1>. USE DEF QueueInv
<1>1. CASE StartTick(w)
  <2>1. /\ UNCHANGED <<table, snapshots, job, held>>
        /\ Idle(w)
        /\ \A v \in Worker : v # w => proc'[v] = proc[v]
    BY <1>1 DEF StartTick, ScanFails, ScanAnswers, TypeOK
  <2>2. TrainingIsHeld'
    BY <2>1 DEF TrainingIsHeld, Idle
  <2>. QED
    BY <2>1, <2>2 DEF CoveredIsLeased, TrainedHasModel, RecentOkHasModel, Exists
<1>2. CASE Retire(w)
  <2>1. UNCHANGED held /\ proc[w] = "retire" /\ (\A v \in Worker : v # w => proc'[v] = proc[v])
    BY <1>2 DEF Retire, TypeOK
  <2>2. \/ UNCHANGED <<table, snapshots, job>>
        \/ /\ Remove(doomed[w])
           /\ \A k \in Key : snapshots'[k] = snapshots[k] \/ k \in doomed[w]
    BY <1>2 DEF Retire, WithoutModels, TypeOK
  <2>3. \A v \in Worker, k \in Key : job'[v][k] # NoJob => job[v][k] # NoJob
    BY <2>2, NoJobUncovered DEF Remove
  <2>4. TrainingIsHeld'
    BY <2>1, <2>3 DEF TrainingIsHeld
  <2>5. CASE UNCHANGED <<table, snapshots, job>>
    BY <2>4, <2>5 DEF CoveredIsLeased, TrainedHasModel, RecentOkHasModel, Exists
  <2>6. CASE Remove(doomed[w]) /\ \A k \in Key : snapshots'[k] = snapshots[k] \/ k \in doomed[w]
    BY <2>4, <2>6, RemoveKeepsModels
  <2>. QED
    BY <2>2, <2>5, <2>6
<1>3. CASE Sweep(w)
  <2>1. /\ UNCHANGED <<table, job, held>>
        /\ proc[w] = "sweep"
        /\ \A v \in Worker : v # w => proc'[v] = proc[v]
    BY <1>3 DEF Sweep, TypeOK
  <2>2. \A k \in Key : snapshots'[k] = snapshots[k] \/ Collectable(k)
    BY <1>3 DEF Sweep, WithoutModels, TypeOK
  <2>3. TrainingIsHeld'
    BY <2>1 DEF TrainingIsHeld
  <2>4. CoveredIsLeased'
    BY <2>1 DEF CoveredIsLeased, Exists
  <2>5. TrainedHasModel'
    BY <2>1, <2>2 DEF TrainedHasModel, Exists, Collectable
  <2>6. RecentOkHasModel'
    BY <2>1, <2>2 DEF RecentOkHasModel, Exists, Collectable
  <2>. QED
    BY <2>3, <2>4, <2>5, <2>6
<1>4. CASE Schedule(w)
  <2>1. /\ UNCHANGED <<snapshots, job, held>>
        /\ proc[w] = "schedule"
        /\ \A v \in Worker : v # w => proc'[v] = proc[v]
    BY <1>4 DEF Schedule, TypeOK
  <2>2. \A k \in Key : table'[k] = table[k] \/ (~Exists(k) /\ table'[k] = FreshRow)
    BY <1>4 DEF Schedule, Inserted, TypeOK
  <2>3. FreshRow.by = Nobody /\ FreshRow.status = "none"
    BY DEF FreshRow
  <2>4. TrainingIsHeld'
    BY <2>1 DEF TrainingIsHeld
  <2>5. CoveredIsLeased'
    BY <2>1, <2>2 DEF CoveredIsLeased, Exists
  <2>6. TrainedHasModel'
    BY <2>1, <2>2, <2>3, NobodyAssumption DEF TrainedHasModel, Exists
  <2>7. RecentOkHasModel'
    BY <2>1, <2>2, <2>3 DEF RecentOkHasModel, Exists
  <2>. QED
    BY <2>4, <2>5, <2>6, <2>7
<1>5. CASE Claim(w)
  <2>1. /\ UNCHANGED snapshots
        /\ proc[w] = "claim"
        /\ \A v \in Worker : v # w => /\ proc'[v] = proc[v]
                                      /\ job'[v] = job[v]
                                      /\ held'[v] = held[v]
    BY <1>5 DEF Claim, HoldClaims, TypeOK
  <2>2. \A k \in Key : job[w][k] = NoJob
    BY <2>1 DEF TrainingIsHeld
  <2>3. \A k \in Key : \/ job'[w][k] = NoJob
                       \/ /\ job'[w][k].phase = "claimed" /\ job'[w][k].covered = FALSE
                          /\ proc'[w] = "train"
                          /\ held'[w][k] # NotHeld
    <3>1. [NoJob EXCEPT !.phase = "claimed"].phase = "claimed"
            /\ [NoJob EXCEPT !.phase = "claimed"].covered = FALSE
      BY DEF NoJob
    <3>2. PICK keys \in SUBSET Key :
            /\ Oldest(keys)
            /\ \/ /\ job' = [job EXCEPT ![w] = [k \in Key |->
                         IF k \in keys THEN [NoJob EXCEPT !.phase = "claimed"] ELSE NoJob]]
                  /\ HoldClaims(w, keys)
                  /\ proc' = [proc EXCEPT ![w] = "train"]
               \/ UNCHANGED job
      BY <1>5 DEF Claim
    <3>3. \A k \in keys : table[k] \in Row
      BY <3>2 DEF Oldest, Claimable, Exists, TypeOK
    <3>4. \A k \in keys : table[k].attempts # NotHeld
      BY <3>3, ConstantTypes DEF Row, Attempts, NotHeld
    <3>5. CASE UNCHANGED job
      BY <2>2, <3>5
    <3>6. CASE /\ job' = [job EXCEPT ![w] = [k \in Key |->
                      IF k \in keys THEN [NoJob EXCEPT !.phase = "claimed"] ELSE NoJob]]
               /\ HoldClaims(w, keys)
               /\ proc' = [proc EXCEPT ![w] = "train"]
      <4>1. proc'[w] = "train"
        BY <3>6 DEF TypeOK
      <4>2. \A k \in Key : job'[w][k] = IF k \in keys THEN [NoJob EXCEPT !.phase = "claimed"]
                                       ELSE NoJob
        BY <3>6 DEF TypeOK
      <4>3. \A k \in keys : held'[w][k] = table[k].attempts
        BY <3>6 DEF HoldClaims, TypeOK
      <4>. QED
        BY <3>1, <3>4, <4>1, <4>2, <4>3
    <3>. QED
      BY <3>2, <3>5, <3>6
  <2>4. \A k \in Key : \/ table'[k] = table[k]
                       \/ /\ Claimable(k)
                          /\ table'[k] = Leased(table[k], w)
    BY <1>5 DEF Claim, Oldest, TypeOK
  <2>5. \A k \in Key : Claimable(k) => /\ Exists(k) /\ table[k] \in Row
                                       /\ table[k].until = Lapsed
    BY DEF Claimable, Leasable, Exists, TypeOK
  <2>6. TrainingIsHeld'
    BY <2>1, <2>3 DEF TrainingIsHeld
  <2>7. CoveredIsLeased'
    <3>1. ASSUME NEW v \in Worker, NEW k \in Key, job'[v][k].covered
          PROVE  v # w /\ job'[v][k] = job[v][k]
      BY <2>1, <2>3, <3>1, NoJobFields
    <3>2. ASSUME NEW v \in Worker, NEW k \in Key, job[v][k].covered, Claimable(k)
          PROVE  job[v][k].phase = "fitting" /\ ~(job[v][k].left > 0)
      <4>1. table[k].until = -1 /\ RetrainLease >= 1 /\ RetrainLease \in Nat
        BY <2>5, <3>2, ConstantTypes DEF Lapsed
      <4>2. job[v][k].left \in Nat
        BY ConstantTypes DEF TypeOK, Job
      <4>. QED
        BY <3>2, <4>1, <4>2 DEF CoveredIsLeased
    <3>. QED
      BY <2>4, <3>1, <3>2 DEF CoveredIsLeased, Exists
  <2>8. TrainedHasModel'
    <3>1. ASSUME NEW v \in Worker, NEW k \in Key, job'[v][k].phase = "trained"
          PROVE  v # w /\ job'[v][k] = job[v][k]
      BY <2>1, <2>3, <3>1, NoJobFields
    <3>. QED
      BY <2>1, <2>4, <2>5, <3>1, LeasedFields DEF TrainedHasModel, Exists
  <2>9. RecentOkHasModel'
    BY <2>1, <2>4, <2>5, LeasedFields DEF RecentOkHasModel, Exists
  <2>. QED
    BY <2>6, <2>7, <2>8, <2>9
<1>6. CASE EndTick(w)
  <2>1. /\ UNCHANGED <<table, snapshots, job, held>>
        /\ \A k \in Key : job[w][k] = NoJob
        /\ \A v \in Worker : v # w => proc'[v] = proc[v]
    BY <1>6 DEF EndTick, TypeOK
  <2>2. TrainingIsHeld'
    BY <2>1 DEF TrainingIsHeld
  <2>. QED
    BY <2>1, <2>2 DEF CoveredIsLeased, TrainedHasModel, RecentOkHasModel, Exists
<1>7. CASE Exit(w)
  BY <1>7, ForgetKeepsInv DEF Exit
<1>8. ASSUME NEW k \in Key, Release(w, k)
      PROVE  QueueInv'
  <2>1. /\ UNCHANGED <<snapshots, proc, job>>
        /\ Idle(w)
        /\ \A v \in Worker, j \in Key : (v # w \/ j # k) => held'[v][j] = held[v][j]
    BY <1>8 DEF Release, TypeOK
  <2>2. job[w][k] = NoJob
    BY <2>1 DEF TrainingIsHeld, Idle
  <2>3. PICK answer : Done(w, k, answer, 0, "error", held[w][k])
    BY <1>8 DEF Release
  <2>4. TrainingIsHeld'
    BY <2>1, <2>2 DEF TrainingIsHeld
  <2>5. CoveredIsLeased' /\ TrainedHasModel'
    BY <2>1, <2>2, <2>3, DoneKeepsClaims
  <2>6. RecentOkHasModel'
    BY <2>1, <2>3, DoneKeepsRecent
  <2>. QED
    BY <2>4, <2>5, <2>6
<1>. QED
  BY <1>1, <1>2, <1>3, <1>4, <1>5, <1>6, <1>7, <1>8 DEF Run

(* A retrain keeps the invariant, from Extend to its finish. *)
LEMMA TrainHashKeepsInv ==
  ASSUME TypeOK, QueueInv, NEW w \in Worker, NEW k \in Key, TrainHash(w, k)
  PROVE  QueueInv'
<1>. USE DEF QueueInv
<1>1. ASSUME job[w][k] # NoJob
      PROVE  proc[w] = "train" /\ held[w][k] # NotHeld
  BY <1>1 DEF TrainingIsHeld
<1>2. ASSUME NEW j, SetJob(w, k, j)
      PROVE  /\ job'[w][k] = j
             /\ \A v \in Worker, l \in Key : (v # w \/ l # k) => job'[v][l] = job[v][l]
  BY <1>2 DEF SetJob, TypeOK
<1>3. CASE NotStarted(w, k)
  <2>1. UNCHANGED <<table, snapshots, proc, held>> /\ SetJob(w, k, NoJob)
    BY <1>3 DEF NotStarted
  <2>2. \A v \in Worker, l \in Key : job'[v][l] = job[v][l] \/ job'[v][l] = NoJob
    BY <1>2, <2>1
  <2>3. TrainingIsHeld'
    BY <2>1, <2>2 DEF TrainingIsHeld
  <2>4. CoveredIsLeased' /\ TrainedHasModel'
    BY <2>1, <2>2, NoJobFields DEF CoveredIsLeased, TrainedHasModel, Exists
  <2>. QED
    BY <2>1, <2>3, <2>4 DEF RecentOkHasModel, Exists
<1>4. CASE Extend(w, k)
  <2>0. UNCHANGED <<snapshots, proc, held>> /\ job[w][k] # NoJob
    BY <1>4, NoJobFields DEF Extend
  <2>1. PICK answer :
          /\ table' = IF answer # "refused" /\ OwnerGuard(w, k)
                      THEN [table EXCEPT ![k].until = RetrainLease] ELSE table
          /\ SetJob(w, k, IF answer = "ok" /\ ~(answer # "refused" /\ OwnerGuard(w, k)) THEN NoJob
               ELSE [NoJob EXCEPT !.phase = "extended",
                                  !.covered = (answer # "refused" /\ OwnerGuard(w, k))])
    BY <1>4 DEF Extend
  <2>. DEFINE applied == answer # "refused" /\ OwnerGuard(w, k)
  <2>2. /\ \A l \in Key : l # k => table'[l] = table[l]
        /\ ~applied => table'[k] = table[k]
        /\ applied => /\ Exists(k) /\ Exists(k)' /\ table[k].by = w
                      /\ table'[k].until = RetrainLease
        /\ Exists(k)' <=> Exists(k)
        /\ Exists(k) => /\ table'[k].by = table[k].by
                        /\ table'[k].status = table[k].status
                        /\ table'[k].recent = table[k].recent
    <3>1. CASE applied
      <4>1. table[k] \in Row /\ table[k].by = w /\ Exists(k)
        BY <3>1 DEF OwnerGuard, Exists, TypeOK
      <4>2. table' = [table EXCEPT ![k] = [table[k] EXCEPT !.until = RetrainLease]]
        BY <2>1, <3>1
      <4>3. table'[k] = [table[k] EXCEPT !.until = RetrainLease]
        BY <4>2 DEF TypeOK
      <4>4. \A l \in Key : l # k => table'[l] = table[l]
        BY <4>2 DEF TypeOK
      <4>5. RetrainLease \in Lapsed .. RetrainLease
        BY ConstantTypes DEF Lapsed
      <4>6. [table[k] EXCEPT !.until = RetrainLease] \in Row
        BY <4>1, <4>5 DEF Row
      <4>7. /\ table'[k].until = RetrainLease /\ table'[k].by = table[k].by
            /\ table'[k].status = table[k].status /\ table'[k].recent = table[k].recent
        BY <4>1, <4>3 DEF Row
      <4>8. table'[k] # NoRow
        BY <4>3, <4>6, NoRowAssumption
      <4>. QED
        BY <3>1, <4>1, <4>4, <4>7, <4>8 DEF Exists
    <3>2. CASE ~applied
      <4>1. table' = table
        BY <2>1, <3>2
      <4>. QED
        BY <3>2, <4>1 DEF Exists
    <3>. QED
      BY <3>1, <3>2
  <2>3. /\ job'[w][k] = NoJob
             \/ /\ job'[w][k].phase = "extended" /\ job'[w][k].covered = applied
        /\ \A v \in Worker, l \in Key : (v # w \/ l # k) => job'[v][l] = job[v][l]
    <3>1. \A c : LET j == [NoJob EXCEPT !.phase = "extended", !.covered = c]
                 IN  j.phase = "extended" /\ j.covered = c
      BY DEF NoJob
    <3>2. PICK j : /\ SetJob(w, k, j)
                   /\ j = NoJob \/ j = [NoJob EXCEPT !.phase = "extended", !.covered = applied]
      BY <2>1
    <3>3. j = NoJob \/ (j.phase = "extended" /\ j.covered = applied)
      BY <3>1, <3>2
    <3>. HIDE DEF applied
    <3>. QED
      BY <1>2, <3>2, <3>3
  <2>. HIDE DEF applied
  <2>4. TrainingIsHeld'
    BY <1>1, <2>0, <2>3 DEF TrainingIsHeld
  <2>5. CoveredIsLeased'
    <3>1. ASSUME NEW v \in Worker, NEW l \in Key, v # w \/ l # k, job'[v][l].covered
          PROVE  /\ job'[v][l] = job[v][l]
                 /\ Exists(l) /\ table[l].by = v => table'[l] = table[l]
      BY <2>2, <2>3, <3>1
    <3>2. ASSUME job'[w][k].covered
          PROVE  job'[w][k].phase = "extended" /\ applied
      BY <2>3, <3>2, NoJobFields
    <3>. QED
      BY <2>2, <3>1, <3>2 DEF CoveredIsLeased, Exists
  <2>6. TrainedHasModel'
    <3>1. ASSUME NEW v \in Worker, NEW l \in Key, job'[v][l].phase = "trained"
          PROVE  job'[v][l] = job[v][l]
      BY <2>3, <3>1, NoJobFields
    <3>. QED
      BY <2>0, <2>2, <3>1 DEF TrainedHasModel, Exists
  <2>7. RecentOkHasModel'
    BY <2>0, <2>2 DEF RecentOkHasModel, Exists
  <2>. QED
    BY <2>4, <2>5, <2>6, <2>7
<1>5. CASE FitStarts(w, k)
  <2>1. /\ UNCHANGED <<table, snapshots, proc, held>>
        /\ job[w][k].phase = "extended" /\ job[w][k] # NoJob
    BY <1>5, NoJobFields DEF FitStarts
  <2>2. PICK n \in {0, RetrainLease} :
          SetJob(w, k, [job[w][k] EXCEPT !.phase = "fitting", !.left = n])
    BY <1>5 DEF FitStarts, FitDeadline
  <2>3. job[w][k] \in Job
    BY DEF TypeOK
  <2>. DEFINE j == [job[w][k] EXCEPT !.phase = "fitting", !.left = n]
  <2>4. j.phase = "fitting" /\ j.left = n /\ j.covered = job[w][k].covered
    BY <2>3 DEF Job
  <2>5. /\ job'[w][k] = j
        /\ \A v \in Worker, l \in Key : (v # w \/ l # k) => job'[v][l] = job[v][l]
    BY <1>2, <2>2
  <2>. HIDE DEF j
  <2>6. TrainingIsHeld'
    BY <1>1, <2>1, <2>5 DEF TrainingIsHeld
  <2>7. CoveredIsLeased'
    <3>1. n <= RetrainLease
      BY ConstantTypes
    <3>2. job[w][k].covered => Exists(k) /\ table[k].by = w /\ table[k].until = RetrainLease
      BY <2>1 DEF CoveredIsLeased
    <3>. QED
      BY <2>1, <2>4, <2>5, <3>1, <3>2, ConstantTypes DEF CoveredIsLeased, Exists
  <2>8. TrainedHasModel' /\ RecentOkHasModel'
    BY <2>1, <2>4, <2>5 DEF TrainedHasModel, RecentOkHasModel, Exists
  <2>. QED
    BY <2>6, <2>7, <2>8
<1>6. CASE FitFails(w, k)
  <2>1. UNCHANGED <<table, snapshots, proc, held>> /\ job[w][k] # NoJob
    BY <1>6, NoJobFields DEF FitFails
  <2>2. LET j == [NoJob EXCEPT !.phase = "failed"]
        IN  SetJob(w, k, j) /\ j.phase = "failed" /\ j.covered = FALSE
    BY <1>6 DEF FitFails, NoJob
  <2>3. /\ job'[w][k].phase = "failed" /\ job'[w][k].covered = FALSE
        /\ \A v \in Worker, l \in Key : (v # w \/ l # k) => job'[v][l] = job[v][l]
    BY <1>2, <2>2
  <2>4. TrainingIsHeld'
    BY <1>1, <2>1, <2>3 DEF TrainingIsHeld
  <2>. QED
    BY <2>1, <2>3, <2>4 DEF CoveredIsLeased, TrainedHasModel, RecentOkHasModel, Exists
<1>7. CASE Put(w, k)
  <2>1. /\ UNCHANGED <<table, proc, held>>
        /\ job[w][k] # NoJob
        /\ \A l \in Key : l # k => snapshots'[l] = snapshots[l]
        /\ snapshots'[k] = snapshots[k] \/ snapshots'[k] = "fresh"
    BY <1>7, NoJobFields DEF Put, Training, TypeOK
  <2>2. PICK j : /\ SetJob(w, k, j)
                 /\ j.covered = FALSE
                 /\ j.phase = "trained" => snapshots'[k] = "fresh"
                 /\ j.phase \in {"trained", "failed"}
    <3>1. PICK answer \in Answers("put", FALSE), parses \in BOOLEAN :
            /\ snapshots' = IF answer = "refused" THEN snapshots
                            ELSE [snapshots EXCEPT ![k] = "fresh"]
            /\ SetJob(w, k, [NoJob EXCEPT !.phase = IF answer = "ok" /\ parses
                                                    THEN "trained" ELSE "failed"])
      BY <1>7 DEF Put
    <3>2. \A p : LET j == [NoJob EXCEPT !.phase = p] IN j.phase = p /\ j.covered = FALSE
      BY DEF NoJob
    <3>3. answer = "ok" => snapshots'[k] = "fresh"
      BY <3>1 DEF TypeOK
    <3>. DEFINE p == IF answer = "ok" /\ parses THEN "trained" ELSE "failed"
    <3>4. SetJob(w, k, [NoJob EXCEPT !.phase = p]) /\ p \in {"trained", "failed"}
            /\ (p = "trained" => answer = "ok")
      BY <3>1
    <3>. HIDE DEF p
    <3>. QED
      BY <3>2, <3>3, <3>4
  <2>3. /\ job'[w][k] = j
        /\ \A v \in Worker, l \in Key : (v # w \/ l # k) => job'[v][l] = job[v][l]
    BY <1>2, <2>2
  <2>4. TrainingIsHeld'
    BY <1>1, <2>1, <2>3 DEF TrainingIsHeld
  <2>5. CoveredIsLeased'
    BY <2>1, <2>2, <2>3 DEF CoveredIsLeased, Exists
  <2>6. TrainedHasModel'
    BY <2>1, <2>2, <2>3 DEF TrainedHasModel, Exists
  <2>7. RecentOkHasModel'
    BY <2>1 DEF RecentOkHasModel, Exists
  <2>. QED
    BY <2>4, <2>5, <2>6, <2>7
<1>8. ASSUME \/ FinishTrained(w, k)
             \/ FinishFailed(w, k)
      PROVE  QueueInv'
  <2>1. /\ UNCHANGED <<snapshots, proc>>
        /\ SetJob(w, k, NoJob)
        /\ \A v \in Worker, l \in Key : (v # w \/ l # k) => held'[v][l] = held[v][l]
    BY <1>8 DEF FinishTrained, FinishFailed, Unhold, TypeOK
  <2>2. PICK answer, delay, status, attempts :
          /\ Done(w, k, answer, delay, status, attempts)
          /\ status = "ok" => job[w][k].phase = "trained"
    <3>1. CASE FinishTrained(w, k)
      BY <3>1 DEF FinishTrained
    <3>2. CASE FinishFailed(w, k)
      <4>1. PICK answer, delay : Done(w, k, answer, delay, "error", Failures(w, k))
        BY <3>2 DEF FinishFailed
      <4>. QED
        BY <4>1
    <3>. QED
      BY <1>8, <3>1, <3>2
  <2>3. /\ job'[w][k] = NoJob
        /\ \A v \in Worker, l \in Key : (v # w \/ l # k) => job'[v][l] = job[v][l]
    BY <1>2, <2>1
  <2>4. TrainingIsHeld'
    BY <2>1, <2>3 DEF TrainingIsHeld
  <2>5. CoveredIsLeased' /\ TrainedHasModel'
    BY <2>1, <2>2, <2>3, DoneKeepsClaims
  <2>6. RecentOkHasModel'
    BY <2>1, <2>2, DoneKeepsRecent
  <2>. QED
    BY <2>4, <2>5, <2>6
<1>. QED
  BY <1>3, <1>4, <1>5, <1>6, <1>7, <1>8 DEF TrainHash

(* Time and the admin keep the invariant. *)
LEMMA EnvironmentKeepsInv ==
  ASSUME TypeOK, TypeOK', QueueInv, Environment
  PROVE  QueueInv'
<1>. USE DEF QueueInv
<1>1. CASE Tick
  <2>1. /\ UNCHANGED <<snapshots, proc, held>>
        /\ \A k \in Key : table'[k] = IF Exists(k) THEN Nearer(table[k]) ELSE NoRow
        /\ \A w \in Worker, k \in Key : job'[w][k] = Elapsed(job[w][k])
    BY <1>1 DEF Tick
  <2>2. /\ \A k \in Key : Exists(k) => table[k] \in Row
        /\ \A w \in Worker, k \in Key : job[w][k] \in Job
    BY DEF TypeOK, Exists
  <2>3. \A k \in Key :
          /\ Exists(k)' => Exists(k)
          /\ Exists(k) => /\ Exists(k)'
                          /\ table'[k].by = table[k].by
                          /\ table'[k].until = Down(table[k].until, Lapsed)
                          /\ table'[k].status = table[k].status
                          /\ table'[k].recent = table[k].recent
    <3>1. ASSUME NEW k \in Key, ~Exists(k)
          PROVE  ~Exists(k)'
      BY <2>1, <3>1 DEF Exists
    <3>2. ASSUME NEW k \in Key, Exists(k)
          PROVE  /\ Exists(k)'
                 /\ table'[k].by = table[k].by
                 /\ table'[k].until = Down(table[k].until, Lapsed)
                 /\ table'[k].status = table[k].status
                 /\ table'[k].recent = table[k].recent
      <4>1. table'[k] = Nearer(table[k]) /\ table[k] \in Row
        BY <2>1, <2>2, <3>2
      <4>2. Nearer(table[k]) \in Row
        BY <4>1, RowUpdates
      <4>3. Exists(k)'
        BY <4>1, <4>2, NoRowAssumption DEF Exists
      <4>. QED
        BY <4>1, <4>3, NearerFields
    <3>. QED
      BY <3>1, <3>2
  <2>4. TrainingIsHeld'
    BY <2>1, <2>2, ElapsedFields DEF TrainingIsHeld
  <2>5. CoveredIsLeased'
    <3>1. SUFFICES ASSUME NEW w \in Worker, NEW k \in Key, job'[w][k].covered
                   PROVE  /\ job'[w][k].phase = "fitting"
                          /\ job'[w][k].left > 0 =>
                               /\ Exists(k)' /\ table'[k].by = w
                               /\ table'[k].until >= job'[w][k].left
      BY DEF CoveredIsLeased, Exists
    <3>2. /\ job[w][k].covered /\ job[w][k].phase # "extended"
          /\ job'[w][k].phase = job[w][k].phase
      BY <2>1, <2>2, <3>1, ElapsedFields
    <3>3. job[w][k].phase = "fitting"
      BY <3>2 DEF CoveredIsLeased
    <3>4. job'[w][k].left = Down(job[w][k].left, 0)
      BY <2>1, <2>2, <3>3, ElapsedFields
    <3>5. job[w][k].left \in Nat
      BY <2>2, ConstantTypes DEF Job
    <3>6. ASSUME job'[w][k].left > 0
          PROVE  /\ Exists(k)' /\ table'[k].by = w
                 /\ table'[k].until >= job'[w][k].left
      <4>1. job[w][k].left > 0 /\ job'[w][k].left = job[w][k].left - 1
        BY <3>4, <3>5, <3>6 DEF Down
      <4>2. Exists(k) /\ table[k].by = w /\ table[k].until >= job[w][k].left
        BY <3>2, <3>3, <4>1 DEF CoveredIsLeased
      <4>3. table[k].until \in Int
        BY <2>2, <4>2, ConstantTypes DEF Row, Lapsed
      <4>. QED
        BY <2>3, <3>5, <4>1, <4>2, <4>3 DEF Down, Lapsed
    <3>. QED
      BY <3>2, <3>3, <3>6
  <2>6. TrainedHasModel'
    BY <2>1, <2>2, <2>3, ElapsedFields DEF TrainedHasModel
  <2>7. RecentOkHasModel'
    BY <2>1, <2>3 DEF RecentOkHasModel
  <2>. QED
    BY <2>4, <2>5, <2>6, <2>7
<1>2. ASSUME NEW k \in Key, ModelAges(k)
      PROVE  QueueInv'
  <2>1. /\ UNCHANGED <<table, proc, job, held>>
        /\ \A w \in Worker : job[w][k].phase # "trained"
        /\ snapshots[k] = "fresh" /\ snapshots'[k] = "expired"
        /\ \A l \in Key : l # k => snapshots'[l] = snapshots[l]
    BY <1>2 DEF ModelAges, TypeOK
  <2>. QED
    BY <2>1 DEF TrainingIsHeld, CoveredIsLeased, TrainedHasModel, RecentOkHasModel, Exists
<1>3. ASSUME NEW k \in Key,
             \/ RunAges(k)
             \/ AdminToggles(k)
      PROVE  QueueInv'
  <2>1. UNCHANGED <<snapshots, proc, job, held>> /\ Exists(k)
    BY <1>3 DEF RunAges, AdminToggles
  <2>2. \A l \in Key : l # k => table'[l] = table[l]
    BY <1>3 DEF RunAges, AdminToggles, TypeOK
  <2>3. /\ table'[k].by = table[k].by /\ table'[k].until = table[k].until
        /\ table'[k].status = table[k].status
        /\ table'[k].recent => table[k].recent
    <3>1. table[k] \in Row
      BY <2>1 DEF TypeOK, Exists
    <3>2. CASE RunAges(k)
      <4>1. table'[k] = [table[k] EXCEPT !.recent = FALSE]
        BY <3>2 DEF RunAges, TypeOK
      <4>. QED
        BY <3>1, <4>1 DEF Row
    <3>3. CASE AdminToggles(k)
      <4>1. table'[k] = [table[k] EXCEPT !.enabled = ~@]
        BY <3>3 DEF AdminToggles, TypeOK
      <4>. QED
        BY <3>1, <4>1 DEF Row
    <3>. QED
      BY <1>3, <3>2, <3>3
  <2>4. TrainingIsHeld'
    BY <2>1 DEF TrainingIsHeld
  <2>5. \A l \in Key : Exists(l)' => Exists(l)
    BY <2>1, <2>2 DEF Exists
  <2>6. \A l \in Key : Exists(l) => Exists(l)'
    <3>1. table'[k] \in Row
      <4>1. table[k] \in Row
        BY <2>1 DEF TypeOK, Exists
      <4>2. [table[k] EXCEPT !.recent = FALSE] \in Row
        BY <4>1 DEF Row
      <4>3. [table[k] EXCEPT !.enabled = ~@] \in Row
        BY <4>1, RowUpdates DEF Row
      <4>. QED
        BY <1>3, <4>2, <4>3 DEF RunAges, AdminToggles, TypeOK
    <3>. QED
      BY <2>2, <3>1, NoRowAssumption DEF Exists
  <2>7. CoveredIsLeased'
    BY <2>1, <2>2, <2>3, <2>6 DEF CoveredIsLeased
  <2>8. TrainedHasModel' /\ RecentOkHasModel'
    BY <2>1, <2>2, <2>3, <2>5 DEF TrainedHasModel, RecentOkHasModel
  <2>. QED
    BY <2>4, <2>7, <2>8
<1>4. ASSUME NEW k \in Key, AdminDeletes(k)
      PROVE  QueueInv'
  <2>1. Remove({k}) /\ UNCHANGED <<snapshots, proc, held>>
    BY <1>4 DEF AdminDeletes
  <2>2. \A w \in Worker, l \in Key : job'[w][l] # NoJob => job[w][l] # NoJob
    BY <2>1, NoJobUncovered DEF Remove
  <2>3. TrainingIsHeld'
    BY <2>1, <2>2 DEF TrainingIsHeld
  <2>. QED
    BY <2>1, <2>3, RemoveKeepsModels
<1>5. ASSUME NEW w \in Worker, Start(w)
      PROVE  QueueInv'
  <2>1. /\ UNCHANGED <<table, snapshots, job, held>>
        /\ proc[w] = "down"
        /\ \A v \in Worker : v # w => proc'[v] = proc[v]
    BY <1>5 DEF Start, TypeOK
  <2>. QED
    BY <2>1 DEF TrainingIsHeld, CoveredIsLeased, TrainedHasModel, RecentOkHasModel, Exists
<1>6. ASSUME NEW w \in Worker, Stop(w)
      PROVE  QueueInv'
  <2>1. UNCHANGED <<table, snapshots, proc, held>>
    BY <1>6 DEF Stop
  <2>2. \A v \in Worker, k \in Key :
          job'[v][k] = IF v = w THEN [job[v][k] EXCEPT !.left = 0] ELSE job[v][k]
    BY <1>6 DEF Stop, TypeOK
  <2>3. \A v \in Worker, k \in Key : job[v][k] \in Job
    BY DEF TypeOK
  <2>4. \A j \in Job : LET i == [j EXCEPT !.left = 0]
                       IN i.phase = j.phase /\ i.left = 0 /\ i.covered = j.covered
    BY DEF Job
  <2>5. [NoJob EXCEPT !.left = 0] = NoJob
    BY DEF NoJob
  <2>6. TrainingIsHeld'
    BY <2>1, <2>2, <2>5 DEF TrainingIsHeld
  <2>7. \A v \in Worker, k \in Key :
          /\ job'[v][k].phase = job[v][k].phase /\ job'[v][k].covered = job[v][k].covered
          /\ job'[v][k].left = job[v][k].left \/ job'[v][k].left = 0
    <3>1. SUFFICES ASSUME NEW v \in Worker, NEW k \in Key
                   PROVE  /\ job'[v][k].phase = job[v][k].phase
                          /\ job'[v][k].covered = job[v][k].covered
                          /\ job'[v][k].left = job[v][k].left \/ job'[v][k].left = 0
      OBVIOUS
    <3>2. job[v][k] \in Job /\ job'[v][k] = IF v = w THEN [job[v][k] EXCEPT !.left = 0]
                                            ELSE job[v][k]
      BY <2>2, <2>3
    <3>. QED
      BY <2>4, <3>2
  <2>. QED
    BY <2>1, <2>6, <2>7 DEF CoveredIsLeased, TrainedHasModel, RecentOkHasModel, Exists
<1>7. ASSUME NEW w \in Worker, Crash(w)
      PROVE  QueueInv'
  BY <1>7, ForgetKeepsInv DEF Crash
<1>. QED
  BY <1>1, <1>2, <1>3, <1>4, <1>5, <1>6, <1>7 DEF Environment

(***************************************************************************)
(* What every step of the queue keeps (publisher.go trainHash and          *)
(* store_postgres.go Claim, Extend, Done, Retire, SweepSnapshots), for any *)
(* number of workers and keys, any lease, any views and any faults.        *)
(***************************************************************************)
THEOREM QueueInvariant == Spec => []QueueInv
<1>1. TypeOK /\ TypeOK' /\ QueueInv /\ [Next]_vars => QueueInv'
  <2>. SUFFICES ASSUME TypeOK, TypeOK', QueueInv, [Next]_vars
                PROVE  QueueInv'
    OBVIOUS
  <2>1. CASE Next
    BY <2>1, RunKeepsInv, TrainHashKeepsInv, EnvironmentKeepsInv DEF Next
  <2>2. CASE UNCHANGED vars
    BY <2>2 DEF vars, QueueInv, TrainingIsHeld, CoveredIsLeased, TrainedHasModel,
                RecentOkHasModel, Exists
  <2>. QED
    BY <2>1, <2>2
<1>. QED
  BY <1>1, InitInv, TypeCorrect, PTL DEF Spec

(***************************************************************************)
(* A fit whose lease was extended in time is leased until its deadline     *)
(* (publisher.go trainHash).                                               *)
(***************************************************************************)
THEOREM FitsAreCovered == Spec => []LeaseCoversFit
<1>1. QueueInv => LeaseCoversFit
  BY DEF QueueInv, CoveredIsLeased, LeaseCoversFit, Training
<1>. QED
  BY <1>1, QueueInvariant, PTL

(***************************************************************************)
(* Two workers never train a key at once under such leases                 *)
(* (store_postgres.go Extend): a row has one owner.                        *)
(***************************************************************************)
THEOREM CoveredFitsExclude == Spec => []OneCoveredFit
<1>1. QueueInv => OneCoveredFit
  BY DEF QueueInv, CoveredIsLeased, OneCoveredFit, Training
<1>. QED
  BY <1>1, QueueInvariant, PTL

(***************************************************************************)
(* A row that recently trained has its model, through every interleaving   *)
(* of late fits with retirements and sweeps (store_postgres.go Retire,     *)
(* SweepSnapshots).                                                        *)
(***************************************************************************)
THEOREM TrainedRowsHaveModels == Spec => []RecentOkHasModel
<1>1. QueueInv => RecentOkHasModel
  BY DEF QueueInv
<1>. QED
  BY <1>1, QueueInvariant, PTL
=============================================================================
