------------------------- MODULE RetrainLedgerProofs -------------------------
(***************************************************************************)
(* Proofs that failure counts are exact, that a shutdown finds its claims  *)
(* and that the queue implements its ledger, where a Claim that took       *)
(* effect is answered: for every set of keys and workers and every other   *)
(* choice of failing calls, stops and crashes.                             *)
(***************************************************************************)
EXTENDS RetrainQueueProofs

(* A claim either fails without effect or is answered. *)
ClaimsAnswer == "claim" \notin Lost

-------------------------------------------------------------------------------
(* The ways a row changes, in the fields its ledger entry is read from *)

Unchanged(k, fields) == \A f \in fields : table'[k][f] = table[k][f]

(* Time passes over the lease, or the admin toggles the row. *)
Ages(k) ==
  /\ Unchanged(k, {"by", "attempts", "status", "recent"})
  /\ table'[k].until = Lapsed \/ (table[k].until # Lapsed /\ table'[k].until # Lapsed)

Fades(k) == Unchanged(k, {"by", "until", "attempts", "status"}) /\ table'[k].recent = FALSE

(* A step in which the worker has one thing less to do about its grant. *)
Sheds(w, k, duty) == duty \in Owes(w, k) \ Owes(w, k)'

IsExtended(w, k) ==
  /\ table[k].by = w /\ Sheds(w, k, "renew")
  /\ Unchanged(k, {"by", "attempts", "status", "recent"})
  /\ table'[k].until = RetrainLease

IsClaimed(w, k) ==
  /\ table[k].until = Lapsed /\ table[k].enabled
  /\ Unchanged(k, {"attempts", "status", "recent"})
  /\ table'[k].by = w /\ table'[k].until = RetrainLease
  /\ Owes(w, k)' = {"renew", "judge", "return"}

IsJudged(w, k) ==
  /\ table[k].by = w
  /\ table'[k].by = Nobody /\ table'[k].until = Lapsed /\ table'[k].recent = TRUE
  /\ \/ /\ table'[k].status = "ok" /\ table'[k].attempts = 0 /\ snapshots'[k] # "absent"
        /\ Sheds(w, k, "judge")
     \/ /\ table'[k].status = "error"
        /\ table'[k].attempts = Capped(table[k].attempts + 1, MaxAttempts)
        /\ Sheds(w, k, "judge")
     \/ /\ table'[k].status = "error"
        /\ table'[k].attempts = table[k].attempts
        /\ Sheds(w, k, "return") /\ "judge" \notin Owes(w, k)

RowMoves(k) ==
  \/ table'[k] = table[k]
  \/ Exists(k) /\ table'[k] = NoRow
  \/ ~Exists(k) /\ table'[k] = FreshRow
  \/ /\ Exists(k)
     /\ \/ Ages(k) \/ Fades(k)
        \/ \E w \in Worker : IsExtended(w, k) \/ IsClaimed(w, k) \/ IsJudged(w, k)

-------------------------------------------------------------------------------
(* Steps *)

(* A step that touches neither rows nor claims moves no count. *)
LEMMA SameRowsMove ==
  ASSUME HeldIsCurrent, UNCHANGED <<table, held>>
  PROVE  HeldIsCurrent' /\ \A k \in Key : RowMoves(k)
BY DEF HeldIsCurrent, RowMoves, Exists

(* A row that is retired or deleted takes its count with it. *)
LEMMA RemovedRowsMove ==
  ASSUME HeldIsCurrent, NEW keys, Remove(keys), UNCHANGED held
  PROVE  HeldIsCurrent' /\ \A k \in Key : RowMoves(k)
BY DEF HeldIsCurrent, RowMoves, Exists, Remove

(* A process that ends forgets its claims; the rows keep theirs. *)
LEMMA ForgottenClaims ==
  ASSUME TypeOK, HeldIsCurrent, NEW w \in Worker, Forget(w), UNCHANGED table
  PROVE  HeldIsCurrent' /\ \A k \in Key : RowMoves(k)
<1>1. \A v \in Worker, k \in Key : held'[v][k] = IF v = w THEN NotHeld ELSE held[v][k]
  BY DEF Forget, TypeOK
<1>. QED
  BY <1>1 DEF HeldIsCurrent, RowMoves, Exists

(***************************************************************************)
(* A judge writes one more than the count it holds, or zero for a success; *)
(* a release writes the count it holds.                                    *)
(***************************************************************************)
LEMMA DoneMoves ==
  ASSUME TypeOK, HeldIsCurrent, NEW w \in Worker, NEW k \in Key,
         NEW answer, NEW delay, NEW status, NEW attempts,
         Done(w, k, answer, delay, status, attempts),
         \/ /\ status = "ok" /\ attempts = 0 /\ Sheds(w, k, "judge")
            /\ table[k].by = w /\ Exists(k) => snapshots'[k] # "absent"
         \/ /\ status = "error" /\ held[w][k] # NotHeld
            /\ \/ attempts = Failures(w, k) /\ Sheds(w, k, "judge")
               \/ attempts = held[w][k] /\ Sheds(w, k, "return") /\ "judge" \notin Owes(w, k),
         \A v \in Worker, j \in Key :
           held'[v][j] = held[v][j] \/ held'[v][j] = NotHeld
  PROVE  HeldIsCurrent' /\ \A j \in Key : RowMoves(j)
<1>1. /\ \A j \in Key : j # k => table'[j] = table[j]
      /\ \/ table'[k] = table[k]
         \/ /\ answer # "refused" /\ Exists(k) /\ table[k].by = w
            /\ table'[k].by = Nobody /\ table'[k].until = Lapsed
            /\ table'[k].status = status /\ table'[k].attempts = attempts
            /\ table'[k].recent = TRUE
  BY DoneRow
<1>2. HeldIsCurrent'
  BY <1>1, NobodyAssumption DEF HeldIsCurrent, Exists
<1>3. CASE table'[k] = table[k]
  BY <1>1, <1>2, <1>3 DEF RowMoves
<1>4. CASE table'[k] # table[k]
  <2>1. held[w][k] # NotHeld => held[w][k] = table[k].attempts
    BY <1>1, <1>4 DEF HeldIsCurrent
  <2>2. IsJudged(w, k)
    BY <1>1, <1>4, <2>1 DEF IsJudged, Failures
  <2>. QED
    BY <1>1, <1>2, <1>4, <2>2 DEF RowMoves
<1>. QED
  BY <1>3, <1>4

(* The goroutines of a claim. *)
Claimed(keys) ==
  [k \in Key |-> IF k \in keys THEN [NoJob EXCEPT !.phase = "claimed"] ELSE NoJob]

(* A claim that was answered took some rows, held them and owes their training. *)
LEMMA ClaimAnswers ==
  ASSUME ClaimsAnswer, TypeOK, NEW w \in Worker, Claim(w)
  PROVE  \E keys \in SUBSET Key :
           /\ \A k \in keys : Exists(k) /\ Exists(k)' /\ IsClaimed(w, k)
           /\ \A k \in Key \ keys : table'[k] = table[k]
           /\ \A v \in Worker, k \in Key :
                held'[v][k] = IF v = w /\ k \in keys THEN table[k].attempts ELSE held[v][k]
           /\ \A v \in Worker, k \in Key :
                (v = w /\ k \in keys) \/ job'[v][k] \in {job[v][k], NoJob}
<1>1. PICK answer \in Answers("claim", Cancelled(w)), keys \in SUBSET Key :
        /\ Oldest(keys)
        /\ table' = IF answer = "refused" THEN table
                    ELSE [k \in Key |-> IF k \in keys THEN Leased(table[k], w) ELSE table[k]]
        /\ IF answer = "ok" /\ keys # {}
           THEN HoldClaims(w, keys) /\ job' = [job EXCEPT ![w] = Claimed(keys)]
           ELSE UNCHANGED <<job, held>>
  BY DEF Claim, Claimed
<1>2. answer \in {"ok", "refused"}
  BY DEF Answers, ClaimsAnswer
<1>3. CASE answer = "refused" \/ keys = {}
  <2>1. table' = table /\ job' = job /\ held' = held
    BY <1>1, <1>3 DEF TypeOK
  <2>. WITNESS {} \in SUBSET Key
  <2>. QED
    BY <2>1
<1>4. CASE answer = "ok" /\ keys # {}
  <2>1. \A k \in keys : /\ Exists(k) /\ table[k] \in Row
                        /\ table[k].until = Lapsed /\ table[k].enabled
    BY <1>1 DEF Oldest, Claimable, Leasable, Exists, TypeOK
  <2>2. \A k \in keys : /\ table'[k].by = w /\ table'[k].until = RetrainLease
                        /\ Unchanged(k, {"attempts", "status", "recent"})
    BY <1>1, <1>4, <2>1, LeasedFields DEF Unchanged
  <2>3. \A k \in keys : Exists(k)'
    <3>1. \A k \in keys : table'[k] = Leased(table[k], w)
      BY <1>1, <1>4
    <3>2. ASSUME NEW row \in Row
          PROVE  Leased(row, w) \in Row
      <4>1. RetrainLease \in Lapsed .. RetrainLease
        BY ConstantTypes DEF Lapsed
      <4>. QED
        BY <4>1 DEF Leased, Row
    <3>. QED
      BY <2>1, <3>1, <3>2, NoRowAssumption DEF Exists
  <2>4. \A v \in Worker, k \in Key :
          held'[v][k] = IF v = w /\ k \in keys THEN table[k].attempts ELSE held[v][k]
    BY <1>1, <1>4 DEF HoldClaims, TypeOK
  <2>5. \A v \in Worker, k \in Key :
          job'[v][k] = IF v = w THEN Claimed(keys)[k] ELSE job[v][k]
    BY <1>1, <1>4 DEF TypeOK
  <2>6. \A k \in keys : job'[w][k].phase = "claimed" /\ held'[w][k] # NotHeld
    <3>1. \A k \in keys : job'[w][k] = [NoJob EXCEPT !.phase = "claimed"]
      BY <2>5 DEF Claimed
    <3>2. \A k \in keys : table[k].attempts # NotHeld
      BY <2>1, ConstantTypes DEF Row, Attempts, NotHeld
    <3>. QED
      BY <2>4, <3>1, <3>2 DEF NoJob
  <2>7. \A k \in keys : Owes(w, k)' = {"renew", "judge", "return"}
    BY <2>6 DEF Owes
  <2>8. \A k \in keys : IsClaimed(w, k)
    BY <2>1, <2>2, <2>7 DEF IsClaimed
  <2>9. \A v \in Worker, k \in Key : (v = w /\ k \in keys) \/ job'[v][k] \in {job[v][k], NoJob}
    BY <2>5 DEF Claimed
  <2>. QED
    BY <1>1, <1>4, <2>1, <2>3, <2>4, <2>8, <2>9
<1>. QED
  BY <1>2, <1>3, <1>4

(* A claim that was answered holds the count the row has. *)
LEMMA ClaimMoves ==
  ASSUME ClaimsAnswer, TypeOK, HeldIsCurrent, NEW w \in Worker, Claim(w)
  PROVE  HeldIsCurrent' /\ \A k \in Key : RowMoves(k)
<1>1. PICK keys \in SUBSET Key :
        /\ \A k \in keys : Exists(k) /\ Exists(k)' /\ IsClaimed(w, k)
        /\ \A k \in Key \ keys : table'[k] = table[k]
        /\ \A v \in Worker, k \in Key :
             held'[v][k] = IF v = w /\ k \in keys THEN table[k].attempts ELSE held[v][k]
  BY ClaimAnswers
<1>2. \A k \in keys : table'[k].by = w /\ table'[k].attempts = table[k].attempts
  BY <1>1 DEF IsClaimed, Unchanged
<1>3. HeldIsCurrent'
  BY <1>1, <1>2 DEF HeldIsCurrent, Exists
<1>. QED
  BY <1>1, <1>3 DEF RowMoves

(* The statements of a tick and of a shutdown move a row as the ledger allows. *)
LEMMA RunMoves ==
  ASSUME ClaimsAnswer, TypeOK, QueueInv, HeldIsCurrent, NEW w \in Worker, Run(w)
  PROVE  HeldIsCurrent' /\ \A k \in Key : RowMoves(k)
<1>1. CASE StartTick(w) \/ Sweep(w) \/ EndTick(w)
  BY <1>1, SameRowsMove DEF StartTick, Sweep, EndTick
<1>2. CASE Retire(w)
  BY <1>2, SameRowsMove, RemovedRowsMove DEF Retire
<1>3. CASE Schedule(w)
  <2>1. \A k \in Key : table'[k] = table[k] \/ (~Exists(k) /\ table'[k] = FreshRow)
    BY <1>3 DEF Schedule, Inserted
  <2>2. FreshRow.by = Nobody
    BY DEF FreshRow
  <2>3. HeldIsCurrent'
    BY <1>3, <2>1, <2>2, NobodyAssumption DEF HeldIsCurrent, Exists, Schedule
  <2>. QED
    BY <2>1, <2>3 DEF RowMoves
<1>4. CASE Claim(w)
  BY <1>4, ClaimMoves
<1>5. CASE Exit(w)
  BY <1>5, ForgottenClaims DEF Exit
<1>6. ASSUME NEW k \in Key, Release(w, k)
      PROVE  HeldIsCurrent' /\ \A j \in Key : RowMoves(j)
  <2>1. PICK answer : Done(w, k, answer, 0, "error", held[w][k])
    BY <1>6 DEF Release
  <2>2. \A v \in Worker, j \in Key : held'[v][j] = held[v][j] \/ held'[v][j] = NotHeld
    BY <1>6 DEF Release, TypeOK
  <2>3. held[w][k] # NotHeld /\ held'[w][k] = NotHeld
    BY <1>6 DEF Release, TypeOK
  <2>4. job[w][k] = NoJob
    BY <1>6 DEF Release, Idle, QueueInv, TrainingIsHeld
  <2>5. Sheds(w, k, "return") /\ "judge" \notin Owes(w, k)
    BY <2>3, <2>4, NoJobFields DEF Sheds, Owes
  <2>. QED
    BY <2>1, <2>2, <2>3, <2>5, DoneMoves
<1>. QED
  BY <1>1, <1>2, <1>3, <1>4, <1>5, <1>6 DEF Run

(* A goroutine that finishes has judged for the last time. *)
LEMMA FinishedSheds ==
  ASSUME TypeOK, NEW w \in Worker, NEW k \in Key,
         job[w][k].phase \in {"trained", "failed"}, SetJob(w, k, NoJob)
  PROVE  Sheds(w, k, "judge")
<1>1. job'[w][k].phase = "none"
  BY NoJobFields DEF SetJob, TypeOK
<1>. QED
  BY <1>1 DEF Sheds, Owes

(* A retrain judges a row with the count it was claimed with. *)
LEMMA TrainHashMoves ==
  ASSUME TypeOK, QueueInv, HeldIsCurrent, NEW w \in Worker, NEW k \in Key, TrainHash(w, k)
  PROVE  HeldIsCurrent' /\ \A j \in Key : RowMoves(j)
<1>1. CASE NotStarted(w, k) \/ FitStarts(w, k) \/ FitFails(w, k) \/ Put(w, k)
  BY <1>1, SameRowsMove DEF NotStarted, FitStarts, FitFails, Put
<1>2. CASE Extend(w, k)
  <2>1. \/ table' = table
        \/ Exists(k) /\ table' = [table EXCEPT ![k].until = RetrainLease]
    BY <1>2 DEF Extend, OwnerGuard
  <2>2. CASE table' = table
    BY <1>2, <2>2, SameRowsMove DEF Extend
  <2>3. CASE Exists(k) /\ table' = [table EXCEPT ![k].until = RetrainLease]
    <3>1. table[k] \in Row
      BY <2>3 DEF Exists, TypeOK
    <3>2. table'[k] = [table[k] EXCEPT !.until = RetrainLease]
      BY <2>3 DEF TypeOK
    <3>3. \A j \in Key : j # k => table'[j] = table[j]
      BY <2>3 DEF TypeOK
    <3>4. /\ table'[k].by = table[k].by /\ table'[k].attempts = table[k].attempts
          /\ table'[k].status = table[k].status /\ table'[k].recent = table[k].recent
          /\ table'[k].until = RetrainLease
      BY <3>1, <3>2 DEF Row
    <3>5. HeldIsCurrent'
      BY <1>2, <2>3, <3>3, <3>4 DEF HeldIsCurrent, Exists, Extend
    <3>6. CASE table' = table
      BY <1>2, <3>6, SameRowsMove DEF Extend
    <3>7. CASE table' # table
      <4>1. table[k].by = w /\ job[w][k].phase = "claimed" /\ job'[w][k].phase = "extended"
        BY <1>2, <3>7, NoJobFields DEF Extend, OwnerGuard, SetJob, TypeOK, NoJob
      <4>2. Sheds(w, k, "renew")
        BY <4>1 DEF Sheds, Owes
      <4>. QED
        BY <2>3, <3>3, <3>4, <3>5, <4>1, <4>2 DEF RowMoves, IsExtended, Unchanged
    <3>. QED
      BY <3>6, <3>7
  <2>. QED
    BY <2>1, <2>2, <2>3
<1>3. CASE FinishTrained(w, k)
  <2>1. PICK answer, gap : Done(w, k, answer, gap - age[w], "ok", 0) /\ Unhold(w, k, answer)
    BY <1>3 DEF FinishTrained
  <2>2. \A v \in Worker, j \in Key : held'[v][j] = held[v][j] \/ held'[v][j] = NotHeld
    BY <2>1 DEF Unhold, TypeOK
  <2>3. table[k].by = w /\ Exists(k) => snapshots'[k] # "absent"
    BY <1>3 DEF FinishTrained, QueueInv, TrainedHasModel
  <2>4. Sheds(w, k, "judge")
    BY <1>3, FinishedSheds DEF FinishTrained
  <2>. QED
    BY <2>1, <2>2, <2>3, <2>4, DoneMoves
<1>4. CASE FinishFailed(w, k)
  <2>1. PICK answer, delay : /\ Done(w, k, answer, delay, "error", Failures(w, k))
                             /\ Unhold(w, k, answer)
    BY <1>4 DEF FinishFailed
  <2>2. \A v \in Worker, j \in Key : held'[v][j] = held[v][j] \/ held'[v][j] = NotHeld
    BY <2>1 DEF Unhold, TypeOK
  <2>3. held[w][k] # NotHeld
    BY <1>4, NoJobFields DEF FinishFailed, QueueInv, TrainingIsHeld
  <2>4. Sheds(w, k, "judge")
    BY <1>4, FinishedSheds DEF FinishFailed
  <2>. QED
    BY <2>1, <2>2, <2>3, <2>4, DoneMoves
<1>. QED
  BY <1>1, <1>2, <1>3, <1>4 DEF TrainHash

(* Time and the admin move no count. *)
LEMMA EnvironmentMoves ==
  ASSUME TypeOK, HeldIsCurrent, Environment
  PROVE  HeldIsCurrent' /\ \A k \in Key : RowMoves(k)
<1>1. CASE Tick
  <2>1. \A k \in Key : Exists(k) => /\ table[k] \in Row
                                    /\ table'[k] = Nearer(table[k])
    BY <1>1 DEF Tick, Exists, TypeOK
  <2>2. \A k \in Key : ~Exists(k) => table'[k] = table[k]
    BY <1>1 DEF Tick, Exists
  <2>3. \A k \in Key : Exists(k) =>
          /\ table'[k].by = table[k].by /\ table'[k].attempts = table[k].attempts
          /\ table'[k].status = table[k].status /\ table'[k].recent = table[k].recent
          /\ table'[k].until = Down(table[k].until, Lapsed)
    BY <2>1, NearerFields
  <2>4. \A k \in Key : Exists(k) => Ages(k)
    BY <2>1, <2>3 DEF Ages, Unchanged, Down, Lapsed, Row
  <2>5. HeldIsCurrent'
    BY <1>1, <2>2, <2>3 DEF HeldIsCurrent, Exists, Tick
  <2>. QED
    BY <2>2, <2>4, <2>5 DEF RowMoves
<1>2. ASSUME NEW k \in Key, ModelAges(k)
      PROVE  HeldIsCurrent' /\ \A j \in Key : RowMoves(j)
  BY <1>2, SameRowsMove DEF ModelAges
<1>3. ASSUME NEW k \in Key, RunAges(k) \/ AdminToggles(k)
      PROVE  HeldIsCurrent' /\ \A j \in Key : RowMoves(j)
  <2>1. Exists(k) /\ table[k] \in Row
    BY <1>3 DEF RunAges, AdminToggles, Exists, TypeOK
  <2>2. /\ \A j \in Key : j # k => table'[j] = table[j]
        /\ table'[k] \in {[table[k] EXCEPT !.recent = FALSE], [table[k] EXCEPT !.enabled = ~@]}
    BY <1>3 DEF RunAges, AdminToggles, TypeOK
  <2>3. /\ table'[k].by = table[k].by /\ table'[k].attempts = table[k].attempts
        /\ table'[k].status = table[k].status /\ table'[k].until = table[k].until
        /\ table'[k].recent = table[k].recent \/ table'[k].recent = FALSE
    BY <2>1, <2>2 DEF Row
  <2>4. HeldIsCurrent'
    BY <1>3, <2>1, <2>2, <2>3 DEF HeldIsCurrent, Exists, RunAges, AdminToggles
  <2>5. Ages(k) \/ Fades(k)
    BY <2>3 DEF Ages, Fades, Unchanged
  <2>. QED
    BY <2>1, <2>2, <2>4, <2>5 DEF RowMoves
<1>4. ASSUME NEW k \in Key, AdminDeletes(k)
      PROVE  HeldIsCurrent' /\ \A j \in Key : RowMoves(j)
  BY <1>4, RemovedRowsMove DEF AdminDeletes
<1>5. ASSUME NEW w \in Worker, Start(w) \/ Stop(w)
      PROVE  HeldIsCurrent' /\ \A j \in Key : RowMoves(j)
  BY <1>5, SameRowsMove DEF Start, Stop
<1>6. ASSUME NEW w \in Worker, Crash(w)
      PROVE  HeldIsCurrent' /\ \A j \in Key : RowMoves(j)
  BY <1>6, ForgottenClaims DEF Crash
<1>. QED
  BY <1>1, <1>2, <1>3, <1>4, <1>5, <1>6 DEF Environment

(* Every step moves a row as the ledger allows. *)
LEMMA StepMoves ==
  ASSUME ClaimsAnswer, TypeOK, QueueInv, HeldIsCurrent, [Next]_vars
  PROVE  HeldIsCurrent' /\ \A k \in Key : RowMoves(k)
<1>1. CASE UNCHANGED vars
  BY <1>1, SameRowsMove DEF vars
<1>2. CASE Next
  BY <1>2, RunMoves, TrainHashMoves, EnvironmentMoves DEF Next
<1>. QED
  BY <1>1, <1>2

-------------------------------------------------------------------------------
(* Counts *)

(***************************************************************************)
(* A worker judges and releases a row only with the failure count the row  *)
(* has, whatever finishes failed before, as long as a Claim that took      *)
(* effect is answered.                                                     *)
(***************************************************************************)
THEOREM HeldClaimsAreCurrent ==
  ASSUME ClaimsAnswer
  PROVE  Spec => []HeldIsCurrent
<1>1. Init => HeldIsCurrent
  BY DEF Init, HeldIsCurrent
<1>2. TypeOK /\ QueueInv /\ HeldIsCurrent /\ [Next]_vars => HeldIsCurrent'
  BY StepMoves
<1>. QED
  BY <1>1, <1>2, TypeCorrect, QueueInvariant, PTL DEF Spec

(***************************************************************************)
(* Failure counts are exact: only an outcome moves one, and by one up or   *)
(* to zero.                                                                *)
(***************************************************************************)
THEOREM CountsAreExact ==
  ASSUME ClaimsAnswer
  PROVE  Spec => AttemptsCountFailures
<1>1. ASSUME TypeOK, QueueInv, HeldIsCurrent, [Next]_vars, NEW k \in Key,
             Exists(k), Exists(k)', table'[k].attempts # table[k].attempts
      PROVE  \/ table'[k].attempts = 0 /\ table'[k].status = "ok"
             \/ table'[k].attempts = table[k].attempts + 1 /\ table'[k].status = "error"
  <2>1. RowMoves(k)
    BY <1>1, StepMoves
  <2>2. \E w \in Worker : IsJudged(w, k)
    BY <1>1, <2>1 DEF RowMoves, Exists, Ages, Fades, IsExtended, IsClaimed, Unchanged
  <2>3. table[k].attempts \in 0 .. MaxAttempts
    BY <1>1 DEF Exists, TypeOK, Row, Attempts
  <2>. QED
    BY <1>1, <2>2, <2>3, ConstantTypes DEF IsJudged, Capped
<1>2. TypeOK /\ QueueInv /\ HeldIsCurrent /\ [Next]_vars =>
        [\A k \in Key :
           Exists(k) /\ Exists(k)' /\ table'[k].attempts # table[k].attempts =>
             \/ table'[k].attempts = 0 /\ table'[k].status = "ok"
             \/ table'[k].attempts = table[k].attempts + 1 /\ table'[k].status = "error"]_vars
  BY <1>1
<1>. QED
  BY <1>2, TypeCorrect, QueueInvariant, HeldClaimsAreCurrent, PTL DEF Spec, AttemptsCountFailures

-------------------------------------------------------------------------------
(* Claims a shutdown finds *)

(* A release that fails is a claim nobody finds again. *)
ReleasesWork == "release" \notin Refused

(* A finish that is applied frees the row it drops from held. *)
LEMMA DoneFreesClaims ==
  ASSUME TypeOK, ClaimsAreHeld, NEW w \in Worker, NEW k \in Key,
         NEW answer, NEW delay, NEW status, NEW attempts,
         Done(w, k, answer, delay, status, attempts),
         \A v \in Worker, j \in Key :
           held'[v][j] = held[v][j] \/ (v = w /\ j = k /\ answer # "refused")
  PROVE  ClaimsAreHeld'
<1>1. /\ \A j \in Key : j # k => table'[j] = table[j]
      /\ table'[k] = table[k] \/ table'[k].by = Nobody
  BY DoneRow
<1>2. answer # "refused" => ~(Exists(k)' /\ table'[k].by = w)
  <2>1. CASE OwnerGuard(w, k)
    <3>. SUFFICES ASSUME answer # "refused" PROVE table'[k].by # w
      OBVIOUS
    <3>1. table[k] \in Row
      BY <2>1 DEF OwnerGuard, Exists, TypeOK
    <3>2. table'[k] = Judged(table[k], delay, status, attempts)
      BY <2>1 DEF Done, TypeOK
    <3>3. Judged(table[k], delay, status, attempts).by = Nobody
      BY <3>1 DEF Judged, Row
    <3>. QED
      BY <3>2, <3>3, NobodyAssumption
  <2>2. CASE ~OwnerGuard(w, k)
    BY <2>2 DEF Done, OwnerGuard, Exists
  <2>. QED
    BY <2>1, <2>2
<1>. QED
  BY <1>1, <1>2, NobodyAssumption DEF ClaimsAreHeld, Exists

(* Only a process that was killed, or held nothing, may forget its claims. *)
LEMMA ForgottenClaimsAreHeld ==
  ASSUME TypeOK, ClaimsAreHeld, NEW w \in Worker, Forget(w), UNCHANGED table,
         w \in Killable \/ \A k \in Key : held[w][k] = NotHeld
  PROVE  ClaimsAreHeld'
<1>1. \A v \in Worker, k \in Key : held'[v][k] = IF v = w THEN NotHeld ELSE held[v][k]
  BY DEF Forget, TypeOK
<1>. QED
  BY <1>1 DEF ClaimsAreHeld, Exists

(* A step that claims no row leaves the claims held. *)
LEMMA SameRowsAreHeld ==
  ASSUME ClaimsAreHeld, UNCHANGED held,
         \A k \in Key : Exists(k)' /\ table'[k].by \in Worker =>
                          Exists(k) /\ table'[k].by = table[k].by
  PROVE  ClaimsAreHeld'
BY DEF ClaimsAreHeld

(* A claim that was answered is in held before anything else happens. *)
LEMMA ClaimIsHeld ==
  ASSUME ClaimsAnswer, TypeOK, ClaimsAreHeld, NEW w \in Worker, Claim(w)
  PROVE  ClaimsAreHeld'
<1>1. PICK keys \in SUBSET Key :
        /\ \A k \in keys : Exists(k) /\ Exists(k)' /\ IsClaimed(w, k)
        /\ \A k \in Key \ keys : table'[k] = table[k]
        /\ \A v \in Worker, k \in Key :
             held'[v][k] = IF v = w /\ k \in keys THEN table[k].attempts ELSE held[v][k]
  BY ClaimAnswers
<1>2. \A k \in keys : table'[k].by = w /\ table[k].attempts # NotHeld
  BY <1>1, ConstantTypes DEF IsClaimed, Exists, TypeOK, Row, Attempts, NotHeld
<1>. QED
  BY <1>1, <1>2 DEF ClaimsAreHeld, Exists

(* A tick and a shutdown lose no claim while releases work. *)
LEMMA RunHoldsClaims ==
  ASSUME ClaimsAnswer, ReleasesWork, TypeOK, ClaimsAreHeld, NEW w \in Worker, Run(w)
  PROVE  ClaimsAreHeld'
<1>1. CASE StartTick(w) \/ Sweep(w) \/ EndTick(w)
  BY <1>1 DEF StartTick, Sweep, EndTick, ClaimsAreHeld, Exists
<1>2. CASE Retire(w)
  BY <1>2 DEF Retire, Remove, ClaimsAreHeld, Exists
<1>3. CASE Schedule(w)
  <2>1. \A k \in Key : table'[k] = table[k] \/ (~Exists(k) /\ table'[k] = FreshRow)
    BY <1>3 DEF Schedule, Inserted
  <2>2. FreshRow.by = Nobody
    BY DEF FreshRow
  <2>. QED
    BY <1>3, <2>1, <2>2, NobodyAssumption DEF ClaimsAreHeld, Exists, Schedule
<1>4. CASE Claim(w)
  BY <1>4, ClaimIsHeld
<1>5. CASE Exit(w)
  BY <1>5, ForgottenClaimsAreHeld DEF Exit
<1>6. ASSUME NEW k \in Key, Release(w, k)
      PROVE  ClaimsAreHeld'
  <2>1. PICK answer \in Answers("release", FALSE) : Done(w, k, answer, 0, "error", held[w][k])
    BY <1>6 DEF Release
  <2>2. answer # "refused"
    BY <2>1 DEF Answers, ReleasesWork
  <2>3. \A v \in Worker, j \in Key : held'[v][j] = held[v][j] \/ (v = w /\ j = k)
    BY <1>6 DEF Release, TypeOK
  <2>. QED
    BY <2>1, <2>2, <2>3, DoneFreesClaims
<1>. QED
  BY <1>1, <1>2, <1>3, <1>4, <1>5, <1>6 DEF Run

(* A retrain drops a claim only with the row it frees. *)
LEMMA TrainHashHoldsClaims ==
  ASSUME TypeOK, ClaimsAreHeld, NEW w \in Worker, NEW k \in Key, TrainHash(w, k)
  PROVE  ClaimsAreHeld'
<1>1. CASE NotStarted(w, k) \/ FitStarts(w, k) \/ FitFails(w, k) \/ Put(w, k)
  BY <1>1 DEF NotStarted, FitStarts, FitFails, Put, ClaimsAreHeld, Exists
<1>2. CASE Extend(w, k)
  <2>1. \/ table' = table
        \/ Exists(k) /\ table' = [table EXCEPT ![k].until = RetrainLease]
    BY <1>2 DEF Extend, OwnerGuard
  <2>2. \A j \in Key : Exists(j)' => Exists(j) /\ table'[j].by = table[j].by
    BY <2>1 DEF Exists, TypeOK, Row
  <2>. QED
    BY <1>2, <2>2, SameRowsAreHeld DEF Extend
<1>3. CASE FinishTrained(w, k)
  <2>1. PICK answer, gap : Done(w, k, answer, gap - age[w], "ok", 0) /\ Unhold(w, k, answer)
    BY <1>3 DEF FinishTrained
  <2>2. \A v \in Worker, j \in Key :
          held'[v][j] = held[v][j] \/ (v = w /\ j = k /\ answer # "refused")
    BY <2>1 DEF Unhold, TypeOK
  <2>. QED
    BY <2>1, <2>2, DoneFreesClaims
<1>4. CASE FinishFailed(w, k)
  <2>1. PICK answer, delay : /\ Done(w, k, answer, delay, "error", Failures(w, k))
                             /\ Unhold(w, k, answer)
    BY <1>4 DEF FinishFailed
  <2>2. \A v \in Worker, j \in Key :
          held'[v][j] = held[v][j] \/ (v = w /\ j = k /\ answer # "refused")
    BY <2>1 DEF Unhold, TypeOK
  <2>. QED
    BY <2>1, <2>2, DoneFreesClaims
<1>. QED
  BY <1>1, <1>2, <1>3, <1>4 DEF TrainHash

(* Time and the admin claim no row. *)
LEMMA EnvironmentHoldsClaims ==
  ASSUME TypeOK, ClaimsAreHeld, Environment
  PROVE  ClaimsAreHeld'
<1>1. CASE Tick
  <2>1. \A k \in Key : Exists(k) => table[k] \in Row /\ table'[k] = Nearer(table[k])
    BY <1>1 DEF Tick, Exists, TypeOK
  <2>2. \A k \in Key : ~Exists(k) => table'[k] = NoRow
    BY <1>1 DEF Tick
  <2>3. \A k \in Key : Exists(k)' => Exists(k) /\ table'[k].by = table[k].by
    BY <2>1, <2>2, NearerFields DEF Exists
  <2>. QED
    BY <1>1, <2>3, SameRowsAreHeld DEF Tick
<1>2. ASSUME NEW k \in Key, ModelAges(k)
      PROVE  ClaimsAreHeld'
  BY <1>2 DEF ModelAges, ClaimsAreHeld, Exists
<1>3. ASSUME NEW k \in Key, RunAges(k) \/ AdminToggles(k)
      PROVE  ClaimsAreHeld'
  <2>1. table[k] \in Row
    BY <1>3 DEF RunAges, AdminToggles, Exists, TypeOK
  <2>2. /\ \A j \in Key : j # k => table'[j] = table[j]
        /\ table'[k] \in {[table[k] EXCEPT !.recent = FALSE], [table[k] EXCEPT !.enabled = ~@]}
    BY <1>3 DEF RunAges, AdminToggles, TypeOK
  <2>3. table'[k].by = table[k].by
    BY <2>1, <2>2 DEF Row
  <2>4. \A j \in Key : Exists(j)' => Exists(j) /\ table'[j].by = table[j].by
    BY <1>3, <2>2, <2>3 DEF Exists, RunAges, AdminToggles
  <2>. QED
    BY <1>3, <2>4, SameRowsAreHeld DEF RunAges, AdminToggles
<1>4. ASSUME NEW k \in Key, AdminDeletes(k)
      PROVE  ClaimsAreHeld'
  BY <1>4 DEF AdminDeletes, Remove, ClaimsAreHeld, Exists
<1>5. ASSUME NEW w \in Worker, Start(w) \/ Stop(w)
      PROVE  ClaimsAreHeld'
  BY <1>5 DEF Start, Stop, ClaimsAreHeld, Exists
<1>6. ASSUME NEW w \in Worker, Crash(w)
      PROVE  ClaimsAreHeld'
  BY <1>6, ForgottenClaimsAreHeld DEF Crash
<1>. QED
  BY <1>1, <1>2, <1>3, <1>4, <1>5, <1>6 DEF Environment

(***************************************************************************)
(* A worker that is never killed holds every claim the table says it has,  *)
(* so its shutdown hands every one back, as long as a Claim that took      *)
(* effect is answered and a release does not fail.                         *)
(***************************************************************************)
THEOREM ShutdownFindsClaims ==
  ASSUME ClaimsAnswer, ReleasesWork
  PROVE  Spec => []ClaimsAreHeld
<1>1. Init => ClaimsAreHeld
  BY DEF Init, ClaimsAreHeld, Exists
<1>2. TypeOK /\ ClaimsAreHeld /\ [Next]_vars => ClaimsAreHeld'
  <2>. SUFFICES ASSUME TypeOK, ClaimsAreHeld, [Next]_vars PROVE ClaimsAreHeld'
    OBVIOUS
  <2>1. CASE UNCHANGED vars
    BY <2>1 DEF vars, ClaimsAreHeld, Exists
  <2>. QED
    BY <2>1, RunHoldsClaims, TrainHashHoldsClaims, EnvironmentHoldsClaims DEF Next
<1>. QED
  BY <1>1, <1>2, TypeCorrect, PTL DEF Spec

-------------------------------------------------------------------------------
(* The ledger *)

(* A model goes only with its row, or under a row without a recent run. *)
ModelStays(k) ==
  \/ snapshots'[k] # "absent" \/ snapshots'[k] = snapshots[k]
  \/ table'[k] = NoRow \/ (Exists(k) /\ ~table[k].recent)

(* A model goes only with its row, or when the row has no recent run. *)
LEMMA StepModels ==
  ASSUME TypeOK, [Next]_vars, NEW k \in Key
  PROVE  ModelStays(k)
<1>1. CASE UNCHANGED snapshots
  BY <1>1 DEF ModelStays
<1>2. ASSUME NEW w \in Worker, Retire(w)
      PROVE  ModelStays(k)
  BY <1>2 DEF Retire, Remove, WithoutModels, ModelStays
<1>3. ASSUME NEW w \in Worker, Sweep(w)
      PROVE  ModelStays(k)
  BY <1>3 DEF Sweep, WithoutModels, Collectable, Exists, ModelStays
<1>4. ASSUME NEW w \in Worker, NEW j \in Key, Put(w, j)
      PROVE  ModelStays(k)
  BY <1>4 DEF Put, ModelStays, TypeOK
<1>5. ASSUME NEW j \in Key, ModelAges(j)
      PROVE  ModelStays(k)
  BY <1>5 DEF ModelAges, ModelStays, TypeOK
<1>6. ASSUME NEW w \in Worker, Run(w)
      PROVE  ModelStays(k)
  <2>1. CASE Retire(w) \/ Sweep(w)
    BY <1>2, <1>3, <2>1
  <2>2. CASE ~(Retire(w) \/ Sweep(w))
    BY <1>1, <1>6, <2>2 DEF Run, StartTick, Schedule, Claim, EndTick, Exit, Release
  <2>. QED
    BY <2>1, <2>2
<1>7. ASSUME NEW w \in Worker, NEW j \in Key, TrainHash(w, j)
      PROVE  ModelStays(k)
  <2>1. CASE Put(w, j)
    BY <1>4, <2>1
  <2>2. CASE ~Put(w, j)
    BY <1>1, <1>7, <2>2 DEF TrainHash, NotStarted, Extend, FitStarts, FitFails,
                            FinishTrained, FinishFailed
  <2>. QED
    BY <2>1, <2>2
<1>8. CASE Environment
  BY <1>1, <1>5, <1>8 DEF Environment, Tick, RunAges, AdminToggles, AdminDeletes, Start, Stop, Crash
<1>. QED
  BY <1>1, <1>6, <1>7, <1>8 DEF Next, vars

(* A goroutine goes on or ends, and a claim is dropped from held. *)
Proceeds(w, k) ==
  /\ \/ job'[w][k].phase = job[w][k].phase
     \/ job'[w][k].phase = "none"
     \/ job'[w][k].phase # "claimed" /\ job[w][k].phase # "none"
  /\ held'[w][k] = held[w][k] \/ held'[w][k] = NotHeld

(* Going on gives a worker nothing more to do. *)
LEMMA ProceedingOwesNoMore ==
  ASSUME NEW w \in Worker, NEW k \in Key, Proceeds(w, k)
  PROVE  Owes(w, k)' \subseteq Owes(w, k)
BY DEF Proceeds, Owes

(* A process that ends owes nothing. *)
LEMMA ForgetProceeds ==
  ASSUME TypeOK, NEW w \in Worker, Forget(w), NEW v \in Worker, NEW k \in Key
  PROVE  Proceeds(v, k)
<1>1. /\ job'[v][k] = IF v = w THEN NoJob ELSE job[v][k]
      /\ held'[v][k] = IF v = w THEN NotHeld ELSE held[v][k]
  BY DEF Forget, TypeOK
<1>. QED
  BY <1>1, NoJobFields DEF Proceeds

(* Rows that go away end no goroutine. *)
LEMMA RemoveProceeds ==
  ASSUME TypeOK, NEW keys, Remove(keys), UNCHANGED held, NEW v \in Worker, NEW k \in Key
  PROVE  Proceeds(v, k)
<1>1. job[v][k] \in Job
  BY DEF TypeOK
<1>2. job'[v][k] \in {job[v][k], Uncovered(job[v][k])}
  BY DEF Remove
<1>3. Uncovered(job[v][k]).phase = job[v][k].phase
  BY <1>1 DEF Uncovered, Job
<1>. QED
  BY <1>2, <1>3 DEF Proceeds

(* A goroutine goes from its claim to its finish. *)
LEMMA TrainHashProceeds ==
  ASSUME TypeOK, NEW w \in Worker, NEW j \in Key, TrainHash(w, j),
         NEW v \in Worker, NEW k \in Key
  PROVE  Proceeds(v, k)
<1>1. held'[v][k] = held[v][k] \/ held'[v][k] = NotHeld
  <2>1. CASE FinishTrained(w, j) \/ FinishFailed(w, j)
    <3>1. PICK answer : Unhold(w, j, answer)
      BY <2>1 DEF FinishTrained, FinishFailed
    <3>. QED
      BY <3>1 DEF Unhold, TypeOK
  <2>2. CASE ~(FinishTrained(w, j) \/ FinishFailed(w, j))
    BY <2>2 DEF TrainHash, NotStarted, Extend, FitStarts, FitFails, Put
  <2>. QED
    BY <2>1, <2>2
<1>2. CASE v # w \/ k # j
  <2>1. PICK next : SetJob(w, j, next)
    BY DEF TrainHash, NotStarted, Extend, FitStarts, FitFails, Put, FinishTrained, FinishFailed
  <2>. QED
    BY <1>1, <1>2, <2>1 DEF Proceeds, SetJob, TypeOK
<1>3. CASE v = w /\ k = j
  <2>1. job[w][j] \in Job
    BY DEF TypeOK
  <2>2. ASSUME NEW next, SetJob(w, j, next)
        PROVE  job'[w][j] = next
    BY <2>2 DEF SetJob, TypeOK
  <2>3. ASSUME NEW phase, NEW left, NEW covered
        PROVE  /\ [NoJob EXCEPT !.phase = phase].phase = phase
               /\ [NoJob EXCEPT !.phase = phase, !.covered = covered].phase = phase
               /\ [job[w][j] EXCEPT !.phase = phase, !.left = left].phase = phase
    BY <2>1 DEF NoJob, Job
  <2>4. CASE NotStarted(w, j) \/ FinishTrained(w, j) \/ FinishFailed(w, j)
    <3>1. job'[w][j] = NoJob
      BY <2>2, <2>4 DEF NotStarted, FinishTrained, FinishFailed
    <3>. QED
      BY <1>1, <1>3, <3>1, NoJobFields DEF Proceeds
  <2>5. CASE Extend(w, j)
    <3>1. \/ job'[w][j] = NoJob
          \/ \E covered : job'[w][j] = [NoJob EXCEPT !.phase = "extended", !.covered = covered]
      BY <2>2, <2>5 DEF Extend
    <3>2. job'[w][j].phase \in {"none", "extended"}
      <4>1. CASE job'[w][j] = NoJob
        BY <4>1, NoJobFields
      <4>2. ASSUME NEW covered,
                   job'[w][j] = [NoJob EXCEPT !.phase = "extended", !.covered = covered]
            PROVE  job'[w][j].phase = "extended"
        BY <4>2 DEF NoJob
      <4>. QED
        BY <3>1, <4>1, <4>2
    <3>3. job[w][j].phase = "claimed"
      BY <2>5 DEF Extend
    <3>. QED
      BY <1>1, <1>3, <3>2, <3>3 DEF Proceeds
  <2>6. CASE FitStarts(w, j)
    <3>1. PICK left : job'[w][j] = [job[w][j] EXCEPT !.phase = "fitting", !.left = left]
      BY <2>2, <2>6 DEF FitStarts
    <3>2. job'[w][j].phase = "fitting" /\ job[w][j].phase = "extended"
      BY <2>3, <2>6, <3>1 DEF FitStarts
    <3>. QED
      BY <1>1, <1>3, <3>2 DEF Proceeds
  <2>7. CASE FitFails(w, j) \/ Put(w, j)
    <3>1. PICK phase \in {"trained", "failed"} : job'[w][j] = [NoJob EXCEPT !.phase = phase]
      BY <2>2, <2>7 DEF FitFails, Put
    <3>2. job'[w][j].phase = phase /\ job[w][j].phase = "fitting"
      BY <2>3, <2>7, <3>1 DEF FitFails, Put, Training
    <3>. QED
      BY <1>1, <1>3, <3>2 DEF Proceeds
  <2>. QED
    BY <2>4, <2>5, <2>6, <2>7 DEF TrainHash
<1>. QED
  BY <1>2, <1>3

(* Time and the admin give nobody anything to do. *)
LEMMA EnvironmentProceeds ==
  ASSUME TypeOK, Environment, NEW v \in Worker, NEW k \in Key
  PROVE  Proceeds(v, k)
<1>1. job[v][k] \in Job
  BY DEF TypeOK
<1>2. CASE Tick
  <2>1. job'[v][k] = Elapsed(job[v][k]) /\ held'[v][k] = held[v][k]
    BY <1>2 DEF Tick
  <2>2. Elapsed(job[v][k]).phase = job[v][k].phase
    BY <1>1 DEF Elapsed, Uncovered, Job
  <2>. QED
    BY <2>1, <2>2 DEF Proceeds
<1>3. ASSUME NEW j \in Key, ModelAges(j) \/ RunAges(j) \/ AdminToggles(j)
      PROVE  Proceeds(v, k)
  BY <1>3 DEF Proceeds, ModelAges, RunAges, AdminToggles
<1>4. ASSUME NEW j \in Key, AdminDeletes(j)
      PROVE  Proceeds(v, k)
  BY <1>4, RemoveProceeds DEF AdminDeletes
<1>5. ASSUME NEW w \in Worker, Start(w)
      PROVE  Proceeds(v, k)
  BY <1>5 DEF Proceeds, Start
<1>6. ASSUME NEW w \in Worker, Stop(w)
      PROVE  Proceeds(v, k)
  <2>1. job'[v][k] \in {job[v][k], [job[v][k] EXCEPT !.left = 0]} /\ held'[v][k] = held[v][k]
    BY <1>6 DEF Stop, TypeOK
  <2>2. [job[v][k] EXCEPT !.left = 0].phase = job[v][k].phase
    BY <1>1 DEF Job
  <2>. QED
    BY <2>1, <2>2 DEF Proceeds
<1>7. ASSUME NEW w \in Worker, Crash(w)
      PROVE  Proceeds(v, k)
  BY <1>7, ForgetProceeds DEF Crash
<1>. QED
  BY <1>2, <1>3, <1>4, <1>5, <1>6, <1>7 DEF Environment

(* An answered claim gives its worker the training of what it took. *)
LEMMA ClaimOwes ==
  ASSUME ClaimsAnswer, TypeOK, NEW w \in Worker, Claim(w), NEW v \in Worker, NEW k \in Key
  PROVE  Proceeds(v, k) \/ (Exists(k) /\ Exists(k)' /\ IsClaimed(v, k))
<1>1. PICK keys \in SUBSET Key :
        /\ \A j \in keys : Exists(j) /\ Exists(j)' /\ IsClaimed(w, j)
        /\ held'[v][k] = IF v = w /\ k \in keys THEN table[k].attempts ELSE held[v][k]
        /\ (v = w /\ k \in keys) \/ job'[v][k] \in {job[v][k], NoJob}
  BY ClaimAnswers
<1>. QED
  BY <1>1, NoJobFields DEF Proceeds

(***************************************************************************)
(* Only an answered claim gives a worker anything to do about a key.       *)
(***************************************************************************)
LEMMA StepOwes ==
  ASSUME ClaimsAnswer, TypeOK, QueueInv, [Next]_vars, NEW v \in Worker, NEW k \in Key
  PROVE  Owes(v, k)' \subseteq Owes(v, k) \/ (Exists(k) /\ Exists(k)' /\ IsClaimed(v, k))
<1>1. CASE UNCHANGED <<job, held>>
  BY <1>1, ProceedingOwesNoMore DEF Proceeds
<1>2. ASSUME NEW w \in Worker, Retire(w)
      PROVE  Proceeds(v, k)
  <2>1. CASE UNCHANGED job
    BY <1>2, <2>1 DEF Retire, Proceeds
  <2>2. CASE Remove(doomed[w])
    BY <1>2, <2>2, RemoveProceeds DEF Retire
  <2>. QED
    BY <1>2, <2>1, <2>2 DEF Retire
<1>3. ASSUME NEW w \in Worker, Claim(w)
      PROVE  Proceeds(v, k) \/ (Exists(k) /\ Exists(k)' /\ IsClaimed(v, k))
  BY <1>3, ClaimOwes
<1>4. ASSUME NEW w \in Worker, Exit(w)
      PROVE  Proceeds(v, k)
  BY <1>4, ForgetProceeds DEF Exit
<1>5. ASSUME NEW w \in Worker, NEW j \in Key, Release(w, j)
      PROVE  Proceeds(v, k)
  BY <1>5 DEF Release, Proceeds, TypeOK
<1>6. ASSUME NEW w \in Worker, StartTick(w) \/ Sweep(w) \/ Schedule(w) \/ EndTick(w)
      PROVE  Proceeds(v, k)
  BY <1>6 DEF StartTick, Sweep, Schedule, EndTick, Proceeds
<1>7. ASSUME NEW w \in Worker, Run(w)
      PROVE  Proceeds(v, k) \/ (Exists(k) /\ Exists(k)' /\ IsClaimed(v, k))
  BY <1>2, <1>3, <1>4, <1>5, <1>6, <1>7 DEF Run
<1>. QED
  BY <1>1, <1>7, TrainHashProceeds, EnvironmentProceeds, ProceedingOwesNoMore DEF Next, vars

(* The ledger's duties, as the queue's claims map to them. *)
Duties == [w \in Worker |-> [k \in Key |-> Owes(w, k)]]

(* The ledger's entries, as the queue's table maps to them. *)
Entries ==
  [k \in Key |-> IF ~Exists(k) THEN NoRow
                 ELSE [ holder   |-> table[k].by,
                        lapsed   |-> table[k].until = Lapsed,
                        failures |-> table[k].attempts,
                        trained  |-> table[k].status = "ok" /\ table[k].recent ]]

EntryOf(k) == Entries[k]

(* A row has an entry in the ledger; a missing row has none. *)
LEMMA EntryTypes ==
  ASSUME TypeOK, NEW k \in Key
  PROVE  /\ Exists(k) => EntryOf(k) \in Ledger!Entry
         /\ EntryOf(k) = NoRow <=> ~Exists(k)
<1>1. Exists(k) => table[k] \in Row
  BY DEF Exists, TypeOK
<1>2. Exists(k) => EntryOf(k) \in Ledger!Entry
  BY <1>1 DEF EntryOf, Entries, Row, Attempts, Ledger!Entry
<1>. QED
  BY <1>2, LedgerAssumption DEF EntryOf, Entries

(* A duty the worker is rid of is one the ledger's holder sheds. *)
LEMMA LedgerSheds ==
  ASSUME TypeOK, NEW k \in Key, NEW w \in Worker, NEW duty,
         Exists(k), EntryOf(k).holder = w, Sheds(w, k, duty)
  PROVE  Ledger!Sheds(w, k, duty)
<1>1. Ledger!Present(k)
  BY EntryTypes DEF Ledger!Present, EntryOf, Entries
<1>2. /\ duty \in [v \in Worker |-> [j \in Key |-> Owes(v, j)]][w][k]
      /\ duty \notin [v \in Worker |-> [j \in Key |-> Owes(v, j)']][w][k]
  BY DEF Sheds
<1>. QED
  BY Zenon, <1>1, <1>2 DEF Ledger!Sheds, EntryOf, Entries

(***************************************************************************)
(* The ledger's moves, as steps of an entry.                               *)
(***************************************************************************)
LEMMA LedgerMoves ==
  ASSUME TypeOK, NEW k \in Key
  PROVE  /\ EntryOf(k)' = EntryOf(k) => Ledger!EntryMoves(k)
         /\ ~Exists(k) /\ EntryOf(k)' = Ledger!Blank => Ledger!EntryMoves(k)
         /\ Exists(k) /\ EntryOf(k)' = NoRow => Ledger!EntryMoves(k)
         /\ Exists(k) /\ EntryOf(k)' = [EntryOf(k) EXCEPT !.lapsed = TRUE] => Ledger!EntryMoves(k)
         /\ Exists(k) /\ EntryOf(k)' = [EntryOf(k) EXCEPT !.trained = FALSE] => Ledger!EntryMoves(k)
         /\ \A w \in Worker :
              /\ Exists(k) /\ EntryOf(k).holder = w /\ Sheds(w, k, "renew")
              /\ EntryOf(k)' = [EntryOf(k) EXCEPT !.lapsed = FALSE]
              => Ledger!EntryMoves(k)
<1>1. Ledger!Present(k) <=> Exists(k)
  BY EntryTypes DEF Ledger!Present, EntryOf, Entries
<1>2. EntryOf(k)' = EntryOf(k) => Ledger!EntryMoves(k)
  BY DEF Ledger!EntryMoves, Ledger!Becomes, EntryOf, Entries
<1>3. ~Exists(k) /\ EntryOf(k)' = Ledger!Blank => Ledger!EntryMoves(k)
  BY <1>1 DEF Ledger!EntryMoves, Ledger!Add, Ledger!Becomes, EntryOf, Entries
<1>4. Exists(k) /\ EntryOf(k)' = NoRow => Ledger!EntryMoves(k)
  BY <1>1 DEF Ledger!EntryMoves, Ledger!Remove, Ledger!Becomes, EntryOf, Entries
<1>5. ASSUME Exists(k), EntryOf(k)' = [EntryOf(k) EXCEPT !.lapsed = TRUE]
      PROVE  Ledger!EntryMoves(k)
  <2>1. Ledger!Lapse(k)
    BY Zenon, <1>1, <1>5 DEF Ledger!Lapse, Ledger!Becomes, EntryOf, Entries
  <2>. QED
    BY <2>1 DEF Ledger!EntryMoves
<1>6. ASSUME NEW w \in Worker, Exists(k), EntryOf(k).holder = w, Sheds(w, k, "renew"),
             EntryOf(k)' = [EntryOf(k) EXCEPT !.lapsed = FALSE]
      PROVE  Ledger!EntryMoves(k)
  <2>1. Ledger!Sheds(w, k, "renew")
    BY <1>6, LedgerSheds
  <2>2. Ledger!Renew(w, k)
    BY Zenon, <1>6, <2>1 DEF Ledger!Renew, Ledger!Becomes, EntryOf, Entries
  <2>. QED
    BY <2>2 DEF Ledger!EntryMoves
<1>7. ASSUME Exists(k), EntryOf(k)' = [EntryOf(k) EXCEPT !.trained = FALSE]
      PROVE  Ledger!EntryMoves(k)
  <2>1. Ledger!Fade(k)
    BY Zenon, <1>1, <1>7 DEF Ledger!Fade, Ledger!Becomes, EntryOf, Entries
  <2>. QED
    BY <2>1 DEF Ledger!EntryMoves
<1>. QED
  BY <1>2, <1>3, <1>4, <1>5, <1>6, <1>7

(* A claim is a grant of the ledger. *)
LEMMA LedgerGrants ==
  ASSUME TypeOK, NEW k \in Key, NEW w \in Worker, Exists(k), EntryOf(k).lapsed,
         EntryOf(k)' = [EntryOf(k) EXCEPT !.holder = w, !.lapsed = FALSE],
         Owes(w, k)' = Ledger!Duty
  PROVE  Ledger!Grant(w, k)
<1>1. Ledger!Present(k)
  BY EntryTypes DEF Ledger!Present, EntryOf, Entries
<1>2. [v \in Worker |-> [j \in Key |-> Owes(v, j)']][w][k] = Ledger!Duty
  OBVIOUS
<1>. QED
  BY Zenon, <1>1, <1>2 DEF Ledger!Grant, Ledger!Becomes, EntryOf, Entries

Charged(failures) == IF failures < MaxAttempts THEN failures + 1 ELSE MaxAttempts

(* A finish, a failure and a release are outcomes of the ledger. *)
LEMMA JudgedMoves ==
  ASSUME TypeOK, NEW k \in Key, Exists(k), NEW w \in Worker, EntryOf(k).holder = w
  PROVE  /\ /\ EntryOf(k)' = [holder |-> Nobody, lapsed |-> TRUE, failures |-> 0, trained |-> TRUE]
            /\ snapshots'[k] # "absent"
            /\ Sheds(w, k, "judge")
            => Ledger!EntryMoves(k)
         /\ /\ EntryOf(k)' = [ holder |-> Nobody, lapsed |-> TRUE,
                                failures |-> Charged(EntryOf(k).failures), trained |-> FALSE ]
            /\ Sheds(w, k, "judge")
            => Ledger!EntryMoves(k)
         /\ /\ EntryOf(k)' = [ holder |-> Nobody, lapsed |-> TRUE,
                                failures |-> EntryOf(k).failures, trained |-> FALSE ]
            /\ Sheds(w, k, "return") /\ "judge" \notin Owes(w, k)
            => Ledger!EntryMoves(k)
<1>2. ASSUME EntryOf(k)' = [holder |-> Nobody, lapsed |-> TRUE, failures |-> 0, trained |-> TRUE],
             snapshots'[k] # "absent", Sheds(w, k, "judge")
      PROVE  Ledger!EntryMoves(k)
  <2>1. [j \in Key |-> snapshots'[j] # "absent"][k]
    BY <1>2
  <2>2. Ledger!Sheds(w, k, "judge")
    BY <1>2, LedgerSheds
  <2>3. Ledger!Succeed(w, k)
    BY Zenon, <1>2, <2>1, <2>2
       DEF Ledger!Succeed, Ledger!HandBack, Ledger!Becomes, EntryOf, Entries
  <2>. QED
    BY <2>3 DEF Ledger!EntryMoves
<1>3. ASSUME EntryOf(k)' = [ holder |-> Nobody, lapsed |-> TRUE,
                             failures |-> EntryOf(k).failures, trained |-> FALSE ],
             Sheds(w, k, "return"), "judge" \notin Owes(w, k)
      PROVE  Ledger!EntryMoves(k)
  <2>1. Ledger!Sheds(w, k, "return")
    BY <1>3, LedgerSheds
  <2>2. "judge" \notin [v \in Worker |-> [j \in Key |-> Owes(v, j)]][w][k]
    BY <1>3
  <2>3. Ledger!Return(w, k)
    BY Zenon, <1>3, <2>1, <2>2
       DEF Ledger!Return, Ledger!HandBack, Ledger!Becomes, EntryOf, Entries
  <2>. QED
    BY <2>3 DEF Ledger!EntryMoves
<1>4. ASSUME EntryOf(k)' = [ holder |-> Nobody, lapsed |-> TRUE,
                             failures |-> Charged(EntryOf(k).failures), trained |-> FALSE ],
             Sheds(w, k, "judge")
      PROVE  Ledger!EntryMoves(k)
  <2>1. Ledger!Sheds(w, k, "judge")
    BY <1>4, LedgerSheds
  <2>2. Ledger!Fail(w, k)
    BY Zenon, <1>4, <2>1
       DEF Ledger!Fail, Ledger!HandBack, Ledger!Becomes, Charged, EntryOf, Entries
  <2>. QED
    BY <2>2 DEF Ledger!EntryMoves
<1>. QED
  BY <1>2, <1>3, <1>4

(***************************************************************************)
(* Entries that differ in a field.                                         *)
(***************************************************************************)
LEMMA EntryLapsed ==
  ASSUME NEW e \in Ledger!Entry, NEW b \in BOOLEAN
  PROVE  [e EXCEPT !.lapsed = b] =
           [holder |-> e.holder, lapsed |-> b, failures |-> e.failures, trained |-> e.trained]
BY DEF Ledger!Entry

(* An entry whose last run ages out, field by field. *)
LEMMA EntryFaded ==
  ASSUME NEW e \in Ledger!Entry, NEW b \in BOOLEAN
  PROVE  [e EXCEPT !.trained = b] =
           [holder |-> e.holder, lapsed |-> e.lapsed, failures |-> e.failures, trained |-> b]
BY DEF Ledger!Entry

(* An entry that is granted, field by field. *)
LEMMA EntryGranted ==
  ASSUME NEW e \in Ledger!Entry, NEW w \in Worker
  PROVE  [e EXCEPT !.holder = w, !.lapsed = FALSE] =
           [holder |-> w, lapsed |-> FALSE, failures |-> e.failures, trained |-> e.trained]
<1>. DEFINE g == [e EXCEPT !.holder = w]
<1>1. g = [holder |-> w, lapsed |-> e.lapsed, failures |-> e.failures, trained |-> e.trained]
  BY DEF Ledger!Entry
<1>2. g \in Ledger!Entry /\ g.holder = w /\ g.failures = e.failures /\ g.trained = e.trained
  BY <1>1 DEF Ledger!Entry
<1>3. [e EXCEPT !.holder = w, !.lapsed = FALSE] = [g EXCEPT !.lapsed = FALSE]
  OBVIOUS
<1>. HIDE DEF g
<1>. QED
  BY <1>2, <1>3, EntryLapsed

(* A claimed row is granted, with all there is to do about it. *)
LEMMA ClaimGrants ==
  ASSUME TypeOK, NEW k \in Key, NEW w \in Worker, Exists(k), Exists(k)', IsClaimed(w, k)
  PROVE  Ledger!Grant(w, k)
<1>. DEFINE e == EntryOf(k)
            f == EntryOf(k)'
<1>1. /\ e = [ holder |-> table[k].by, lapsed |-> table[k].until = Lapsed,
               failures |-> table[k].attempts,
               trained |-> table[k].status = "ok" /\ table[k].recent ]
      /\ f = [ holder |-> table'[k].by, lapsed |-> table'[k].until = Lapsed,
               failures |-> table'[k].attempts,
               trained |-> table'[k].status = "ok" /\ table'[k].recent ]
  BY DEF EntryOf, Entries, Exists
<1>2. /\ table'[k].attempts = table[k].attempts
      /\ table'[k].status = table[k].status /\ table'[k].recent = table[k].recent
      /\ table'[k].by = w /\ table'[k].until # Lapsed /\ table[k].until = Lapsed
  BY ConstantTypes DEF IsClaimed, Unchanged, Lapsed
<1>3. /\ e \in Ledger!Entry
      /\ e.lapsed = (table[k].until = Lapsed) /\ e.failures = table[k].attempts
      /\ e.trained = (table[k].status = "ok" /\ table[k].recent)
  BY <1>1, EntryTypes
<1>. HIDE DEF e, f
<1>4. f = [holder |-> w, lapsed |-> FALSE, failures |-> e.failures, trained |-> e.trained]
  BY <1>1, <1>2, <1>3
<1>5. e.lapsed
  BY <1>2, <1>3
<1>6. f = [e EXCEPT !.holder = w, !.lapsed = FALSE]
  BY <1>3, <1>4, EntryGranted
<1>7. Owes(w, k)' = Ledger!Duty
  BY DEF IsClaimed, Ledger!Duty
<1>. QED
  BY <1>5, <1>6, <1>7, LedgerGrants DEF e, f

(***************************************************************************)
(* Every way a row changes is a move of its entry.                         *)
(***************************************************************************)
LEMMA RowsMoveEntries ==
  ASSUME TypeOK, TypeOK', NEW k \in Key, RowMoves(k)
  PROVE  Ledger!EntryMoves(k)
<1>. DEFINE e == EntryOf(k)
            f == EntryOf(k)'
<1>2. CASE table'[k] = table[k]
  <2>1. f = e
    BY <1>2 DEF EntryOf, Entries, Exists
  <2>. QED
    BY <2>1, LedgerMoves
<1>3. CASE Exists(k) /\ ~Exists(k)'
  <2>1. f = NoRow
    BY <1>3 DEF EntryOf, Entries
  <2>. QED
    BY <1>3, <2>1, LedgerMoves
<1>4. CASE ~Exists(k) /\ table'[k] = FreshRow
  <2>1. Exists(k)'
    BY <1>4, FreshRowType, NoRowAssumption DEF Exists
  <2>2. f = [ holder |-> FreshRow.by, lapsed |-> FreshRow.until = Lapsed,
              failures |-> FreshRow.attempts,
              trained |-> FreshRow.status = "ok" /\ FreshRow.recent ]
    BY <1>4, <2>1 DEF EntryOf, Entries
  <2>3. /\ FreshRow.by = Nobody /\ FreshRow.until = Lapsed /\ FreshRow.attempts = 0
        /\ FreshRow.recent = FALSE
    BY DEF FreshRow
  <2>4. f = Ledger!Blank
    BY <2>2, <2>3 DEF Ledger!Blank
  <2>. QED
    BY <1>4, <2>4, LedgerMoves
<1>5. CASE Exists(k) /\ Exists(k)'
  <2>1. /\ e = [ holder |-> table[k].by, lapsed |-> table[k].until = Lapsed,
                 failures |-> table[k].attempts,
                 trained |-> table[k].status = "ok" /\ table[k].recent ]
        /\ f = [ holder |-> table'[k].by, lapsed |-> table'[k].until = Lapsed,
                 failures |-> table'[k].attempts,
                 trained |-> table'[k].status = "ok" /\ table'[k].recent ]
    BY <1>5 DEF EntryOf, Entries, Exists
  <2>2. /\ e \in Ledger!Entry
        /\ e.holder = table[k].by /\ e.lapsed = (table[k].until = Lapsed)
        /\ e.failures = table[k].attempts
        /\ e.trained = (table[k].status = "ok" /\ table[k].recent)
    BY <1>5, <2>1, EntryTypes
  <2>3. RetrainLease # Lapsed
    BY ConstantTypes DEF Lapsed
  <2>. HIDE DEF e, f
  <2>4. CASE Ages(k)
    <3>1. /\ table'[k].by = table[k].by /\ table'[k].attempts = table[k].attempts
          /\ table'[k].status = table[k].status /\ table'[k].recent = table[k].recent
      BY <2>4 DEF Ages, Unchanged
    <3>2. CASE table'[k].until = Lapsed
      <4>1. f = [ holder |-> e.holder, lapsed |-> TRUE, failures |-> e.failures,
                  trained |-> e.trained ]
        BY <2>1, <2>2, <3>1, <3>2
      <4>2. f = [e EXCEPT !.lapsed = TRUE]
        BY <2>2, <4>1, EntryLapsed
      <4>. QED
        BY <1>5, <4>2, LedgerMoves DEF e, f
    <3>3. CASE table[k].until # Lapsed /\ table'[k].until # Lapsed
      <4>1. f = e
        BY <2>1, <3>1, <3>3
      <4>. QED
        BY <4>1, LedgerMoves DEF e, f
    <3>. QED
      BY <2>4, <3>2, <3>3 DEF Ages
  <2>5. CASE Fades(k)
    <3>1. /\ table'[k].by = table[k].by /\ table'[k].attempts = table[k].attempts
          /\ table'[k].until = table[k].until /\ table'[k].recent = FALSE
      BY <2>5 DEF Fades, Unchanged
    <3>2. f = [ holder |-> e.holder, lapsed |-> e.lapsed, failures |-> e.failures,
                trained |-> FALSE ]
      BY <2>1, <2>2, <3>1
    <3>3. f = [e EXCEPT !.trained = FALSE]
      BY <2>2, <3>2, EntryFaded
    <3>. QED
      BY <1>5, <3>3, LedgerMoves DEF e, f
  <2>6. ASSUME NEW w \in Worker, IsExtended(w, k)
        PROVE  Ledger!EntryMoves(k)
    <3>1. /\ table'[k].by = table[k].by /\ table'[k].attempts = table[k].attempts
          /\ table'[k].status = table[k].status /\ table'[k].recent = table[k].recent
          /\ table'[k].until # Lapsed
      BY <2>3, <2>6 DEF IsExtended, Unchanged
    <3>2. f = [ holder |-> e.holder, lapsed |-> FALSE, failures |-> e.failures,
                trained |-> e.trained ]
      BY <2>1, <2>2, <3>1
    <3>3. f = [e EXCEPT !.lapsed = FALSE]
      BY <2>2, <3>2, EntryLapsed
    <3>4. e.holder = w /\ Sheds(w, k, "renew")
      BY <2>2, <2>6 DEF IsExtended
    <3>. QED
      BY <1>5, <3>3, <3>4, LedgerMoves DEF e, f
  <2>7. ASSUME NEW w \in Worker, IsClaimed(w, k)
        PROVE  Ledger!EntryMoves(k)
    <3>1. Ledger!Grant(w, k)
      BY <1>5, <2>7, ClaimGrants
    <3>. QED
      BY <3>1 DEF Ledger!EntryMoves
  <2>8. ASSUME NEW w \in Worker, IsJudged(w, k)
        PROVE  Ledger!EntryMoves(k)
    <3>1. e.holder = w
      BY <2>2, <2>8 DEF IsJudged
    <3>2. f = [ holder |-> Nobody, lapsed |-> TRUE, failures |-> table'[k].attempts,
                trained |-> table'[k].status = "ok" ]
      BY <2>1, <2>8 DEF IsJudged
    <3>3. CASE /\ table'[k].status = "ok" /\ table'[k].attempts = 0 /\ snapshots'[k] # "absent"
               /\ Sheds(w, k, "judge")
      <4>1. f = [holder |-> Nobody, lapsed |-> TRUE, failures |-> 0, trained |-> TRUE]
        BY <3>2, <3>3
      <4>. QED
        BY <1>5, <3>1, <3>3, <4>1, JudgedMoves DEF e, f
    <3>4. CASE /\ table'[k].status = "error"
               /\ table'[k].attempts = Capped(table[k].attempts + 1, MaxAttempts)
               /\ Sheds(w, k, "judge")
      <4>1. table[k].attempts \in 0 .. MaxAttempts
        BY <1>5 DEF Exists, TypeOK, Row, Attempts
      <4>2. table'[k].attempts = Charged(e.failures)
        BY <2>2, <3>4, <4>1, ConstantTypes DEF Capped, Charged
      <4>3. f = [ holder |-> Nobody, lapsed |-> TRUE, failures |-> Charged(e.failures),
                  trained |-> FALSE ]
        BY <3>2, <3>4, <4>2
      <4>. QED
        BY <1>5, <3>1, <3>4, <4>3, JudgedMoves DEF e, f
    <3>5. CASE /\ table'[k].status = "error" /\ table'[k].attempts = table[k].attempts
               /\ Sheds(w, k, "return") /\ "judge" \notin Owes(w, k)
      <4>1. f = [holder |-> Nobody, lapsed |-> TRUE, failures |-> e.failures, trained |-> FALSE]
        BY <2>2, <3>2, <3>5
      <4>. QED
        BY <1>5, <3>1, <3>5, <4>1, JudgedMoves DEF e, f
    <3>. QED
      BY <2>8, <3>3, <3>4, <3>5 DEF IsJudged
  <2>. QED
    BY <1>2, <1>5, <2>4, <2>5, <2>6, <2>7, <2>8, NoRowAssumption DEF RowMoves, Exists
<1>. QED
  BY <1>2, <1>3, <1>4, <1>5 DEF RowMoves, Exists

(***************************************************************************)
(* The queue implements its ledger: whatever fails, stops or is killed, an *)
(* entry has one holder at a time, is renewed, judged and returned by its  *)
(* holder only and once per grant, its count is exact and a recent success *)
(* keeps its model, as long as a Claim that took effect is answered.       *)
(***************************************************************************)
THEOREM QueueImplementsLedger ==
  ASSUME ClaimsAnswer
  PROVE  Spec => ImplementsLedger
<1>1. Init => Ledger!Init
  <2>1. ASSUME Init, NEW w \in Worker, NEW k \in Key
        PROVE  Owes(w, k) = {}
    BY <2>1, NoJobFields DEF Init, Owes
  <2>2. Init => Duties = [w \in Worker |-> [k \in Key |-> {}]]
    BY <2>1 DEF Duties
  <2>3. Init => /\ Entries = [k \in Key |-> NoRow]
                /\ [k \in Key |-> snapshots[k] # "absent"] = [k \in Key |-> FALSE]
    BY DEF Init, Entries, Exists
  <2>. QED
    BY <2>2, <2>3 DEF Ledger!Init, Duties, Entries
<1>2. ASSUME TypeOK, TypeOK', QueueInv, HeldIsCurrent, [Next]_vars
      PROVE  Ledger!Next
  <2>1. \A k \in Key : Ledger!EntryMoves(k)
    BY <1>2, StepMoves, RowsMoveEntries
  <2>2. \A k \in Key : Ledger!ModelMoves(k)
    BY <1>2, StepModels DEF Ledger!ModelMoves, ModelStays, Exists
  <2>3. Entries' \in [Key -> Ledger!Entry \cup {NoRow}]
    <3>0. \A k \in Key : Exists(k)' => table'[k] \in Row
      BY <1>2 DEF Exists, TypeOK
    <3>1. \A k \in Key : EntryOf(k)' \in Ledger!Entry \cup {NoRow}
      BY <3>0 DEF EntryOf, Entries, Row, Attempts, Ledger!Entry
    <3>. QED
      BY <3>1 DEF EntryOf, Entries
  <2>4. Duties' \in [Worker -> [Key -> SUBSET Ledger!Duty]]
    BY DEF Duties, Owes, Ledger!Duty
  <2>5. ASSUME NEW w \in Worker, NEW k \in Key
        PROVE  Ledger!OwesMoves(w, k)
    <3>1. CASE Owes(w, k)' \subseteq Owes(w, k)
      BY <3>1 DEF Ledger!OwesMoves
    <3>2. CASE Exists(k) /\ Exists(k)' /\ IsClaimed(w, k)
      <4>1. Ledger!Grant(w, k)
        BY <1>2, <3>2, ClaimGrants
      <4>. QED
        BY <4>1 DEF Ledger!OwesMoves
    <3>. QED
      BY <1>2, <3>1, <3>2, StepOwes
  <2>. QED
    BY <2>1, <2>2, <2>3, <2>4, <2>5 DEF Ledger!Next, Entries, Duties
<1>. QED
  BY <1>1, <1>2, TypeCorrect, QueueInvariant, HeldClaimsAreCurrent, PTL
     DEF Spec, ImplementsLedger, Ledger!Spec
=============================================================================
