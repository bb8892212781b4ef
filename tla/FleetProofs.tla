------------------------------ MODULE FleetProofs ------------------------------
(***************************************************************************)
(* Theorems about Fleet for every set of keys and peers, every score and   *)
(* every time to live.                                                     *)
(***************************************************************************)
EXTENDS Fleet, FiniteSetTheorems, WellFoundedInduction, TLAPS

-------------------------------------------------------------------------------
(* Ownership *)

(***************************************************************************)
(* Beats orders the peers of a key: two peers that beat each other are one *)
(* (shard.go Owner: a tie goes to the smaller name).                       *)
(***************************************************************************)
LEMMA BeatsIsAntisymmetric ==
  ASSUME NEW k \in Key, NEW p \in Worker, NEW q \in Worker, Beats(k, p, q), Beats(k, q, p)
  PROVE  p = q
BY WorkerAssumption, ScoreAssumption, SMT DEF Beats

(***************************************************************************)
(* Some peer beats every other, however the scores fall: scores and names  *)
(* are totally ordered and there are finitely many peers (shard.go Owner:  *)
(* the loop ends with one).                                                *)
(***************************************************************************)
LEMMA SomePeerBeatsAll ==
  ASSUME NEW k \in Key, NEW peers \in SUBSET Worker, peers # {}
  PROVE  \E p \in peers : \A q \in peers : Beats(k, p, q)
<1> DEFINE HasBest(A) == \E p \in A : \A q \in A : Beats(k, p, q)
           Without == {A \in SUBSET Worker : A # {} /\ ~HasBest(A)}
<1>1. SUFFICES ASSUME Without # {} PROVE FALSE
  OBVIOUS
<1>2. Without \subseteq FiniteSubsetsOf(Worker)
  BY WorkerAssumption, FS_FiniteSubsetsOfFinite
<1>3. PICK A \in Without : \A B \in Without : <<B, A>> \notin StrictSubsetOrdering(Worker)
  <2> HIDE DEF Without
  <2> QED
    BY <1>1, <1>2, FS_StrictSubsetOrderingWellFounded, WFMin
<1>4. PICK a \in A : TRUE
  BY <1>3
<1> DEFINE B == A \ {a}
<1>5. <<B, A>> \in StrictSubsetOrdering(Worker)
  BY <1>3, <1>4 DEF StrictSubsetOrdering
<1>6. B = {} \/ HasBest(B)
  <2>1. B \notin Without
    BY <1>3, <1>5
  <2>2. B \in SUBSET Worker
    BY <1>3
  <2> QED
    BY <2>1, <2>2
<1>7. \A p \in Worker : Beats(k, p, p)
  BY WorkerAssumption, ScoreAssumption, SMT DEF Beats
<1>8. \A p, q, r \in Worker : Beats(k, p, q) /\ Beats(k, q, r) => Beats(k, p, r)
  BY WorkerAssumption, ScoreAssumption, SMT DEF Beats
<1>9. \A p, q \in Worker : Beats(k, p, q) \/ Beats(k, q, p)
  BY WorkerAssumption, ScoreAssumption, SMT DEF Beats
<1>10. A \subseteq Worker /\ a \in Worker /\ A = B \cup {a}
  BY <1>3, <1>4
<1>11. CASE B = {}
  <2>1. HasBest(A)
    BY <1>7, <1>10, <1>11
  <2> QED
    BY <1>3, <2>1
<1>12. CASE HasBest(B)
  <2>1. PICK p \in B : \A q \in B : Beats(k, p, q)
    BY <1>12
  <2>2. CASE Beats(k, p, a)
    BY <1>3, <1>10, <2>1, <2>2
  <2>3. CASE Beats(k, a, p)
    <3>1. \A q \in A : Beats(k, a, q)
      BY <1>7, <1>8, <1>10, <2>1, <2>3
    <3> QED
      BY <1>3, <1>4, <3>1
  <2> QED
    BY <1>9, <1>10, <2>1, <2>2, <2>3
<1> QED
  BY <1>6, <1>11, <1>12

(***************************************************************************)
(* Owner returns one of the peers, and that peer beats the others          *)
(* (shard.go Owner).                                                       *)
(***************************************************************************)
LEMMA OwnerBeatsAll ==
  ASSUME NEW k \in Key, NEW peers \in SUBSET Worker, peers # {}
  PROVE  Owner(k, peers) \in peers /\ \A q \in peers : Beats(k, Owner(k, peers), q)
BY SomePeerBeatsAll, Zenon DEF Owner

(***************************************************************************)
(* A peer that beats every peer is the owner (shard.go Owner).             *)
(***************************************************************************)
LEMMA BestIsOwner ==
  ASSUME NEW k \in Key, NEW peers \in SUBSET Worker, NEW p \in peers,
         \A q \in peers : Beats(k, p, q)
  PROVE  Owner(k, peers) = p
<1>1. Owner(k, peers) \in peers /\ Beats(k, Owner(k, peers), p)
  BY OwnerBeatsAll
<1>2. Beats(k, p, Owner(k, peers))
  BY <1>1
<1> QED
  BY <1>1, <1>2, BeatsIsAntisymmetric

(***************************************************************************)
(* Two peers of one set do not both own a key (shard.go Owns).             *)
(***************************************************************************)
LEMMA OwnersAreOne ==
  ASSUME NEW k \in Key, NEW peers \in SUBSET Worker, NEW v \in peers, NEW w \in peers,
         Owns(k, v, peers), Owns(k, w, peers)
  PROVE  v = w
<1>1. CASE Cardinality(peers) <= 1
  <2>1. IsFiniteSet(peers)
    BY WorkerAssumption, FS_Subset
  <2>2. Cardinality(peers) = 1
    BY <1>1, <2>1, FS_CardinalityType, FS_EmptySet
  <2>3. PICK x : peers = {x}
    BY <2>1, <2>2, FS_Singleton
  <2> QED
    BY <2>3
<1>2. CASE ~(Cardinality(peers) <= 1)
  BY <1>2 DEF Owns
<1> QED
  BY <1>1, <1>2

(***************************************************************************)
(* The best of a set of peers owns a key in every view that names peers of *)
(* the set only and itself (shard.go Owns).                                *)
(***************************************************************************)
LEMMA BestOwnsInSmallerViews ==
  ASSUME NEW k \in Key, NEW peers \in SUBSET Worker, NEW p \in peers,
         \A q \in peers : Beats(k, p, q),
         NEW view \in SUBSET peers, p \in view
  PROVE  Owns(k, p, view)
BY BestIsOwner DEF Owns

-------------------------------------------------------------------------------
(* Types *)

(* A view is a set of workers, whatever the source of the peers. *)
LEMMA ViewType ==
  ASSUME TypeOK, NEW w \in Worker
  PROVE  View(w) \in SUBSET Worker
BY DEF TypeOK, View

(* The saturated ages leave room for the values that matter. *)
LEMMA Bounds ==
  /\ NoRow \in Nat /\ WorkerTTL \in 0 .. NoRow
  /\ Never \in Nat /\ SlowTick \in 0 .. Never
  /\ NoMark \in Nat
  /\ 0 \in Write /\ 1 \in Write
  /\ NoFit \in Fit
BY TTLAssumption, FleetBoundAssumption, SMT DEF NoRow, Never, NoMark, Write, NoFit, Fit, Interval

(* The age of the minute a tick publishes is within its bound. *)
LEMMA MinuteType ==
  ASSUME TypeOK, NEW w \in Worker
  PROVE  MinutesAgo(w) \in 0 .. NoMark
BY FleetBoundAssumption, SMT DEF TypeOK, MinutesAgo, NoMark

(* A failed call is counted within the bound. *)
LEMMA FailsType ==
  ASSUME TypeOK, Fails \/ faults' = faults
  PROVE  faults' \in 0 .. MaxFaults
BY FleetBoundAssumption DEF TypeOK, Fails

(* A fleet that is down, on a database with models, has its types. *)
LEMMA FleetInitTypes == Init => TypeOK
<1>. SUFFICES ASSUME Init PROVE TypeOK
  OBVIOUS
<1>1. list \in [Worker -> SUBSET Worker]
  BY SourceAssumption DEF Init
<1>2. model \in [Key -> Write] /\ writes \in [Key -> Write]
  BY Bounds DEF Init
<1>3. lastSeen \in [Worker -> 0 .. NoRow] /\ freshAge \in [Worker -> 0 .. Never]
  BY Bounds DEF Init
<1>4. seen \in [Worker -> [Key -> Write]] /\ fitted \in [Worker -> [Key -> Fit]]
  BY Bounds DEF Init
<1>5. published \in [Worker -> [Key -> 0 .. NoMark]]
  BY Bounds DEF Init
<1>6. age \in [Worker -> 0 .. SlowTick] /\ faults \in 0 .. MaxFaults
  BY FleetBoundAssumption DEF Init
<1>. QED
  BY <1>1, <1>2, <1>3, <1>4, <1>5, <1>6 DEF Init, TypeOK

(* The tick's clock restarts at its end. *)
LEMMA EndTickType ==
  ASSUME TypeOK, NEW w \in Worker, EndTick(w)
  PROVE  /\ proc' \in [Worker -> {"down", "idle", "scan", "heartbeat", "retrain", "restore", "emit"}]
         /\ age' \in [Worker -> 0 .. SlowTick]
BY FleetBoundAssumption DEF TypeOK, EndTick

(* Resolving the peers leaves a set of workers (membership.go peers, keep). *)
LEMMA PeersType ==
  ASSUME TypeOK, NEW w \in Worker, Peers(w)
  PROVE  last' \in [Worker -> SUBSET Worker] /\ faults' \in 0 .. MaxFaults
<1>1. ASSUME NEW ids \in SUBSET Worker, Sees(w, ids)
      PROVE  last' \in [Worker -> SUBSET Worker]
  BY <1>1 DEF TypeOK, Sees, Including
<1>2. list[w] \in SUBSET Worker /\ LivePeers \in SUBSET Worker
  BY DEF TypeOK, LivePeers
<1>3. CASE KeepsLast /\ Fails
  BY <1>3, FailsType DEF TypeOK, KeepsLast
<1>4. CASE UNCHANGED faults
  BY <1>1, <1>2, <1>3, <1>4, SourceAssumption, FailsType DEF Peers
<1>. QED
  BY <1>3, <1>4 DEF Peers

(* Every step keeps the types. *)
LEMMA FleetStepTypes == TypeOK /\ [Next]_vars => TypeOK'
<1>. SUFFICES ASSUME TypeOK, [Next]_vars PROVE TypeOK'
  OBVIOUS
<1>. USE DEF settings, store, memory
<1>1. ASSUME NEW w \in Worker, StartTick(w) PROVE TypeOK'
  <2>1. last' \in [Worker -> SUBSET Worker] /\ faults' \in 0 .. MaxFaults
    BY <1>1, PeersType DEF StartTick
  <2>. QED
    BY <1>1, <2>1 DEF StartTick, TypeOK
<1>2. ASSUME NEW w \in Worker, Scan(w) PROVE TypeOK'
  <2>1. faults' \in 0 .. MaxFaults
    BY <1>2, FailsType DEF Scan
  <2>2. scanned' \in SUBSET Worker
    BY <1>2 DEF Scan, TypeOK
  <2>3. spans' \in [Worker -> SUBSET Key]
    <3>1. ASSUME NEW keys \in Alive, spans' = [spans EXCEPT ![w] = keys]
          PROVE  spans' \in [Worker -> SUBSET Key]
      BY <3>1, ScanAssumption DEF TypeOK
    <3>2. CASE UNCHANGED spans
      BY <3>2 DEF TypeOK
    <3>. QED
      BY <1>2, <3>1, <3>2 DEF Scan
  <2>4. /\ proc' \in [Worker -> {"down", "idle", "scan", "heartbeat", "retrain", "restore", "emit"}]
        /\ age' \in [Worker -> 0 .. SlowTick]
    <3>1. CASE EndTick(w)
      BY <3>1, EndTickType
    <3>2. CASE proc' = [proc EXCEPT ![w] = "heartbeat"] /\ UNCHANGED age
      BY <3>2 DEF TypeOK
    <3>. QED
      BY <1>2, <3>1, <3>2 DEF Scan
  <2>. QED
    BY <1>2, <2>1, <2>2, <2>3, <2>4 DEF Scan, TypeOK
<1>3. ASSUME NEW w \in Worker, Heartbeat(w) PROVE TypeOK'
  <2>1. faults' \in 0 .. MaxFaults
    BY <1>3, FailsType DEF Heartbeat
  <2>2. lastSeen' \in [Worker -> 0 .. NoRow]
    <3>1. 0 \in 0 .. NoRow
      BY Bounds
    <3>2. CASE lastSeen' = [lastSeen EXCEPT ![w] = 0]
      BY <3>1, <3>2 DEF TypeOK
    <3>3. CASE UNCHANGED lastSeen
      BY <3>3 DEF TypeOK
    <3>. QED
      BY <1>3, <3>2, <3>3 DEF Heartbeat
  <2>. QED
    BY <1>3, <2>1, <2>2 DEF Heartbeat, TypeOK
<1>4. ASSUME NEW w \in Worker, NEW k \in Key, Put(w, k) PROVE TypeOK'
  <2>1. writes' \in [Key -> Write]
    BY <1>4, FleetBoundAssumption DEF Put, TypeOK, Write
  <2>2. model' \in [Key -> Write]
    BY <1>4, <2>1 DEF Put, TypeOK
  <2>. QED
    BY <1>4, <2>1, <2>2 DEF Put, TypeOK
<1>5. ASSUME NEW w \in Worker, Refresh(w) PROVE TypeOK'
  <2>1. published' \in [Worker -> [Key -> 0 .. NoMark]]
    BY <1>5, Bounds DEF Refresh, TypeOK, PrunedMarks
  <2>2. Pruned(w) \in [Key -> Fit]
    BY Bounds DEF TypeOK, Pruned
  <2>3. fitted' \in [Worker -> [Key -> Fit]]
    <3>1. [k \in Key |-> IF k \in Fresh(w) THEN Pruned(w)[k] ELSE NoFit] \in [Key -> Fit]
      BY <2>2, Bounds
    <3>2. ASSUME NEW f \in [Key -> Fit], fitted' = [fitted EXCEPT ![w] = f]
          PROVE  fitted' \in [Worker -> [Key -> Fit]]
      BY <3>2 DEF TypeOK
    <3>. QED
      BY <1>5, <2>2, <3>1, <3>2 DEF Refresh
  <2>4. seen' \in [Worker -> [Key -> Write]]
    BY <1>5, Bounds DEF Refresh, TypeOK
  <2>5. freshAge' \in [Worker -> 0 .. Never]
    BY <1>5, Bounds DEF Refresh, TypeOK
  <2>6. faults' \in 0 .. MaxFaults
    BY <1>5, FailsType DEF Refresh
  <2>7. proc' \in [Worker -> {"down", "idle", "scan", "heartbeat", "retrain", "restore", "emit"}]
    BY <1>5 DEF Refresh, TypeOK
  <2>8. UNCHANGED <<settings, half, store, ticker, phase, age, last, scanned, spans>>
    BY <1>5 DEF Refresh
  <2>. QED
    BY <2>1, <2>3, <2>4, <2>5, <2>6, <2>7, <2>8 DEF TypeOK
<1>6. ASSUME NEW w \in Worker, NEW k \in Key, Restore(w, k) PROVE TypeOK'
  <2>1. Restored(w, k) \in Fit
    BY Bounds DEF TypeOK, Restored, Fit
  <2>2. fitted' \in [Worker -> [Key -> Fit]]
    <3>1. ASSUME NEW r \in Fit PROVE [fitted EXCEPT ![w][k] = r] \in [Worker -> [Key -> Fit]]
      BY DEF TypeOK
    <3>2. CASE UNCHANGED fitted
      BY <3>2 DEF TypeOK
    <3>. QED
      BY <1>6, <2>1, <3>1, <3>2 DEF Restore
  <2>3. seen' \in [Worker -> [Key -> Write]]
    BY <1>6, Bounds DEF Restore, TypeOK
  <2>4. faults' \in 0 .. MaxFaults
    BY <1>6, FailsType DEF Restore
  <2>. QED
    BY <1>6, <2>2, <2>3, <2>4 DEF Restore, TypeOK
<1>7. ASSUME NEW w \in Worker, Emit(w) PROVE TypeOK'
  <2>1. published' \in [Worker -> [Key -> 0 .. NoMark]]
    BY <1>7, MinuteType DEF Emit, TypeOK
  <2>2. faults' \in 0 .. MaxFaults
    BY <1>7, FailsType DEF Emit
  <2>. QED
    BY <1>7, <2>1, <2>2, EndTickType DEF Emit, TypeOK
<1>8. ASSUME NEW w \in Worker, Start(w) PROVE TypeOK'
  BY <1>8 DEF Start, TypeOK
<1>9. ASSUME NEW w \in Worker, End(w) PROVE TypeOK'
  <2>1. age' \in [Worker -> 0 .. SlowTick] /\ freshAge' \in [Worker -> 0 .. Never]
    BY <1>9, Bounds, FleetBoundAssumption DEF End, TypeOK
  <2>2. seen' \in [Worker -> [Key -> Write]] /\ fitted' \in [Worker -> [Key -> Fit]]
    BY <1>9, Bounds DEF End, TypeOK
  <2>3. published' \in [Worker -> [Key -> 0 .. NoMark]]
    BY <1>9, Bounds DEF End, TypeOK
  <2>4. faults' \in 0 .. MaxFaults
    BY <1>9, FailsType DEF End
  <2>. QED
    BY <1>9, <2>1, <2>2, <2>3, <2>4 DEF End, TypeOK
<1>10. ASSUME NEW k \in Key, Collected(k) PROVE TypeOK'
  BY <1>10, Bounds DEF Collected, TypeOK
<1>11. ASSUME Tick PROVE TypeOK'
  <2>1. ASSUME NEW cap \in Nat, NEW d \in 0 .. cap
        PROVE  Older(d, cap) \in 0 .. cap
    BY DEF Older
  <2>2. lastSeen' \in [Worker -> 0 .. NoRow]
    <3>1. ASSUME NEW w \in Worker, lastSeen[w] # NoRow
          PROVE  Older(lastSeen[w], WorkerTTL) \in 0 .. NoRow
      <4>1. lastSeen[w] \in 0 .. WorkerTTL /\ WorkerTTL \in Nat
        BY <3>1, TTLAssumption, SMT DEF TypeOK, NoRow
      <4>2. Older(lastSeen[w], WorkerTTL) \in 0 .. WorkerTTL
        BY <4>1, <2>1
      <4>. QED
        BY <4>1, <4>2, SMT DEF NoRow
    <3>. QED
      BY <1>11, <3>1, Bounds DEF Tick
  <2>3. freshAge' \in [Worker -> 0 .. Never]
    BY <1>11, <2>1, Bounds DEF Tick, TypeOK
  <2>4. published' \in [Worker -> [Key -> 0 .. NoMark]]
    BY <1>11, <2>1, Bounds DEF Tick, TypeOK
  <2>5. age' \in [Worker -> 0 .. SlowTick]
    BY <1>11, FleetBoundAssumption DEF Tick, TypeOK
  <2>6. half' \in {0, 1} /\ ticker' \in SUBSET Worker
    BY <1>11 DEF Tick, TypeOK, Up
  <2>. QED
    BY <1>11, <2>2, <2>3, <2>4, <2>5, <2>6 DEF Tick, TypeOK
<1>12. CASE UNCHANGED vars
  BY <1>12 DEF vars, TypeOK
<1>. QED
  BY <1>1, <1>2, <1>3, <1>4, <1>5, <1>6, <1>7, <1>8, <1>9, <1>10, <1>11, <1>12
     DEF Next, RunTick

(***************************************************************************)
(* Every variable of the fleet keeps its type (publisher.go Publisher,     *)
(* membership.go peerSource and the two tables they share).                *)
(***************************************************************************)
THEOREM FleetTypeCorrect == Spec => []TypeOK
<1>. QED
  BY FleetInitTypes, FleetStepTypes, PTL DEF Spec

-------------------------------------------------------------------------------
(* The invariant *)

(* A fleet that is down satisfies the invariant. *)
LEMMA FleetInitInv == Init => FleetInv
BY FleetBoundAssumption, SMT DEF Init, FleetInv, SelfInView, ModelIsLatest, TimestampFirst, NoFit

(* A worker adds itself to every view (shard.go normalizePeers). *)
LEMMA SelfInViewStep == TypeOK /\ SelfInView /\ [Next]_vars => SelfInView'
<1>. SUFFICES ASSUME TypeOK, SelfInView, [Next]_vars PROVE SelfInView'
  OBVIOUS
<1>. USE DEF SelfInView, settings, store, memory
<1>1. ASSUME NEW w \in Worker, Peers(w) PROVE SelfInView'
  <2>1. ASSUME NEW ids, Sees(w, ids) PROVE SelfInView'
    BY <2>1 DEF Sees, Including, TypeOK
  <2>. QED
    BY <1>1, <2>1 DEF Peers, KeepsLast
<1>2. ASSUME NEW w \in Worker, End(w) PROVE SelfInView'
  BY <1>2 DEF End, TypeOK
<1>3. CASE UNCHANGED last
  BY <1>3
<1>. QED
  BY <1>1, <1>2, <1>3
     DEF Next, RunTick, StartTick, Scan, Heartbeat, Put, Refresh, Restore, Emit, Start, Collected,
         Tick, vars

(* The stored model of a key is always its latest write. *)
LEMMA ModelStep ==
  TypeOK /\ ModelIsLatest /\ [Next]_vars =>
    ModelIsLatest' /\ \A k \in Key : writes[k] <= writes'[k]
<1>. SUFFICES ASSUME TypeOK, ModelIsLatest, [Next]_vars
              PROVE  ModelIsLatest' /\ \A k \in Key : writes[k] <= writes'[k]
  OBVIOUS
<1>. USE DEF ModelIsLatest, settings, store, memory
<1>1. \A k \in Key : writes[k] \in Int
  BY FleetBoundAssumption DEF TypeOK, Write
<1>2. ASSUME NEW w \in Worker, NEW k \in Key, Put(w, k)
      PROVE  ModelIsLatest' /\ \A l \in Key : writes[l] <= writes'[l]
  BY <1>1, <1>2 DEF Put, TypeOK
<1>3. ASSUME NEW k \in Key, Collected(k)
      PROVE  ModelIsLatest' /\ \A l \in Key : writes[l] <= writes'[l]
  BY <1>1, <1>3 DEF Collected, TypeOK
<1>4. CASE UNCHANGED <<model, writes>>
  BY <1>1, <1>4
<1>. QED
  BY <1>2, <1>3, <1>4
     DEF Next, RunTick, StartTick, Scan, Heartbeat, Refresh, Restore, Emit, Start, End, Tick, vars

(* Refresh reads the timestamp before Restore reads the model. *)
LEMMA TimestampFirstStep ==
  TypeOK /\ ModelIsLatest /\ TimestampFirst /\ [Next]_vars => TimestampFirst'
<1>. SUFFICES ASSUME TypeOK, ModelIsLatest, TimestampFirst, [Next]_vars
              PROVE  TimestampFirst'
  OBVIOUS
<1>. USE DEF settings, store, memory
<1>. Write \subseteq Nat
  BY FleetBoundAssumption DEF Write
<1>1. ASSUME NEW k \in Key
      PROVE  /\ writes[k] \in Nat /\ writes'[k] \in Nat /\ writes[k] <= writes'[k]
             /\ model[k] \in Nat /\ model[k] <= writes[k]
  <2>1. writes[k] \in Nat /\ model[k] \in Nat
    BY DEF TypeOK
  <2>2. writes'[k] \in Nat
    BY FleetStepTypes DEF TypeOK
  <2>3. writes[k] <= writes'[k]
    BY ModelStep
  <2>4. model[k] <= writes[k]
    BY <2>1, SMT DEF ModelIsLatest
  <2>. QED
    BY <2>1, <2>2, <2>3, <2>4
<1>2. ASSUME NEW w \in Worker, NEW k \in Key
      PROVE  seen[w][k] \in Nat /\ fitted[w][k].at \in Nat /\ fitted[w][k].of \in Nat
  BY DEF TypeOK, Fit
<1>3. ASSUME NEW w \in Worker, Refresh(w) PROVE TimestampFirst'
  <2>1. ASSUME NEW v \in Worker, NEW k \in Key
        PROVE  seen'[v][k] \in {seen[v][k], model[k], 0}
    <3>1. CASE UNCHANGED seen
      BY <3>1
    <3>2. CASE seen' = [seen EXCEPT ![w] = [l \in Key |-> IF l \in Moved(w) THEN model[l] ELSE 0]]
      BY <3>2 DEF TypeOK
    <3>. QED
      BY <1>3, <3>1, <3>2 DEF Refresh
  <2>2. ASSUME NEW v \in Worker, NEW k \in Key
        PROVE  fitted'[v][k] \in {fitted[v][k], NoFit}
    <3>1. CASE fitted' = [fitted EXCEPT ![w] = Pruned(w)]
      BY <3>1 DEF TypeOK, Pruned
    <3>2. CASE fitted' = [fitted EXCEPT ![w] =
                            [l \in Key |-> IF l \in Fresh(w) THEN Pruned(w)[l] ELSE NoFit]]
      BY <3>2 DEF TypeOK, Pruned
    <3>. QED
      BY <1>3, <3>1, <3>2 DEF Refresh
  <2>. QED
    BY <1>1, <1>2, <2>1, <2>2 DEF TimestampFirst, NoFit
<1>4. ASSUME NEW w \in Worker, NEW l \in Key, Restore(w, l) PROVE TimestampFirst'
  <2>1. /\ Restored(w, l).at <= Restored(w, l).of
        /\ Restored(w, l).of <= writes[l]
    BY <1>1, <1>2, <1>4 DEF Restored, NoFit, TimestampFirst, ModelIsLatest
  <2>2. ASSUME NEW v \in Worker, NEW k \in Key
        PROVE  /\ seen'[v][k] \in {seen[v][k], 0}
               /\ \/ fitted'[v][k] = fitted[v][k]
                  \/ k = l /\ fitted'[v][k] = Restored(w, l)
    BY <1>4 DEF Restore, TypeOK
  <2>3. UNCHANGED writes
    BY <1>4 DEF Restore
  <2>. QED
    BY <1>1, <1>2, <2>1, <2>2, <2>3 DEF TimestampFirst
<1>5. ASSUME NEW w \in Worker, End(w) PROVE TimestampFirst'
  <2>1. ASSUME NEW v \in Worker, NEW k \in Key
        PROVE  seen'[v][k] \in {seen[v][k], 0} /\ fitted'[v][k] \in {fitted[v][k], NoFit}
    BY <1>5 DEF End, TypeOK
  <2>. QED
    BY <1>1, <1>2, <2>1 DEF TimestampFirst, NoFit
<1>6. CASE UNCHANGED <<seen, fitted>>
  BY <1>1, <1>2, <1>6 DEF TimestampFirst
<1>. QED
  BY <1>3, <1>4, <1>5, <1>6
     DEF Next, RunTick, StartTick, Scan, Heartbeat, Put, Emit, Start, Collected, Tick, vars

(* Every step keeps the invariant. *)
LEMMA FleetStepInv == TypeOK /\ FleetInv /\ [Next]_vars => FleetInv'
BY SelfInViewStep, ModelStep, TimestampFirstStep DEF FleetInv

(***************************************************************************)
(* A worker is in its own view, and a restored model is at least as new as *)
(* the timestamp it is kept under (membership.go normalizePeers,           *)
(* publisher.go refreshSnapshots).                                         *)
(***************************************************************************)
THEOREM FleetInvariant == Spec => []FleetInv
<1>1. Init => TypeOK /\ FleetInv
  BY FleetInitTypes, FleetInitInv
<1>2. TypeOK /\ FleetInv /\ [Next]_vars => TypeOK' /\ FleetInv'
  BY FleetStepTypes, FleetStepInv
<1>. QED
  BY <1>1, <1>2, PTL DEF Spec

-------------------------------------------------------------------------------
(* The promises *)

(* A worker is in its own view. *)
LEMMA SelfIsSeen ==
  ASSUME TypeOK, FleetInv, NEW w \in Worker
  PROVE  w \in View(w)
BY DEF FleetInv, SelfInView, View

(***************************************************************************)
(* Workers that see the same peers publish disjoint sets of keys           *)
(* (README.md: "two workers with the same peer set publish disjoint,       *)
(* complete sets").                                                        *)
(***************************************************************************)
THEOREM SameViewsDivide == Spec => []SameViewIsDisjoint
<1>1. ASSUME TypeOK, FleetInv PROVE SameViewIsDisjoint
  <2>. SUFFICES ASSUME NEW v \in Worker, NEW w \in Worker, v # w, View(v) = View(w),
                       NEW k \in Ready(v), k \in Ready(w)
                PROVE  FALSE
    BY DEF SameViewIsDisjoint
  <2>1. k \in Key /\ Owns(k, v, View(v)) /\ Owns(k, w, View(v))
    BY <1>1 DEF Ready, TypeOK
  <2>2. v \in View(v) /\ w \in View(v) /\ View(v) \in SUBSET Worker
    BY <1>1, SelfIsSeen, ViewType
  <2>. QED
    BY <2>1, <2>2, OwnersAreOne
<1>. QED
  BY <1>1, FleetTypeCorrect, FleetInvariant, PTL

(***************************************************************************)
(* While the views name running workers only, every key has an owner: the  *)
(* running worker that scores best on it is in its own view, and no view   *)
(* holds a better one (docs/ARCHITECTURE.md: disagreement means transient  *)
(* duplicates).                                                            *)
(***************************************************************************)
THEOREM RunningViewsOwnAll == Spec => []RunningViewsCover
<1>1. ASSUME TypeOK, FleetInv PROVE RunningViewsCover
  <2>. SUFFICES ASSUME Up # {}, \A w \in Up : View(w) \subseteq Up, NEW k \in Key
                PROVE  \E w \in Up : Owns(k, w, View(w))
    BY DEF RunningViewsCover
  <2>1. Up \in (SUBSET Worker) \ {{}}
    BY DEF Up
  <2>2. PICK p \in Up : \A q \in Up : Beats(k, p, q)
    BY <2>1, SomePeerBeatsAll
  <2>3. p \in View(p) /\ View(p) \in SUBSET Up
    BY <1>1, <2>1, <2>2, SelfIsSeen
  <2>4. Owns(k, p, View(p))
    BY <2>1, <2>2, <2>3, BestOwnsInSmallerViews
  <2>. QED
    BY <2>4
<1>. QED
  BY <1>1, FleetTypeCorrect, FleetInvariant, PTL

(***************************************************************************)
(* A restored model under the store's timestamp is the store's model       *)
(* (publisher.go refreshSnapshots: Fresh before Get).                      *)
(***************************************************************************)
THEOREM RestoredModelsAreCurrent == Spec => []CacheIsCoherent
<1>1. ASSUME TypeOK, FleetInv PROVE CacheIsCoherent
  <2>1. \A w \in Worker, k \in Key :
          writes[k] \in Nat /\ fitted[w][k].at \in Nat /\ fitted[w][k].of \in Nat
    BY <1>1, FleetBoundAssumption DEF TypeOK, Write, Fit
  <2>. QED
    BY <1>1, <2>1 DEF FleetInv, ModelIsLatest, TimestampFirst, CacheIsCoherent
<1>. QED
  BY <1>1, FleetTypeCorrect, FleetInvariant, PTL
===============================================================================
