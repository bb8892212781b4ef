-------------------------- MODULE DruidAccessProofs --------------------------
(***************************************************************************)
(* Proofs about DruidAccess, for every set of callers, every range and     *)
(* every choice of the limits its assumptions allow.                       *)
(***************************************************************************)
EXTENDS DruidAccess, Arithmetic, FiniteSetTheorems, SequenceTheorems

-------------------------------------------------------------------------------
(* Queues *)

Occurs(q, c) == \E i \in 1 .. Len(q) : q[i] = c

Once(q) == \A i, j \in 1 .. Len(q) : q[i] = q[j] => i = j

(* The queue q holds exactly the members of W, once each. *)
Queued(q, W) ==
  /\ q \in Seq(Callers)
  /\ Once(q)
  /\ \A c \in Callers : Occurs(q, c) <=> c \in W

(***************************************************************************)
(* A channel's queue gains the caller that blocks on it, loses its head to *)
(* a hand-over, or any member to a cancelled select.                       *)
(***************************************************************************)
LEMMA QueueGains ==
  ASSUME NEW q, NEW W, NEW c \in Callers, Queued(q, W), c \notin W
  PROVE  Queued(Append(q, c), W \cup {c})
<1>. DEFINE r == Append(q, c)
<1>1. /\ r \in Seq(Callers)
      /\ Len(r) = Len(q) + 1
      /\ \A i \in 1 .. Len(q) : r[i] = q[i]
      /\ r[Len(q) + 1] = c
      /\ Len(q) \in Nat
  BY AppendProperties, LenProperties DEF Queued
<1>2. ~Occurs(q, c)
  BY DEF Queued
<1>3. Once(r)
  BY <1>1, <1>2 DEF Once, Occurs, Queued
<1>4. \A d \in Callers : Occurs(r, d) <=> d \in W \cup {c}
  BY <1>1, <1>2 DEF Occurs, Queued
<1>. QED
  BY <1>1, <1>3, <1>4 DEF Queued

(* The channel serves the caller that waits longest, who leaves the queue. *)
LEMMA QueueLosesHead ==
  ASSUME NEW q, NEW W, Queued(q, W), q # <<>>
  PROVE  Head(q) \in Callers /\ Head(q) \in W /\ Queued(Tail(q), W \ {Head(q)})
<1>. DEFINE r == Tail(q)
<1>1. /\ r \in Seq(Callers)
      /\ Len(r) = Len(q) - 1
      /\ \A i \in 1 .. Len(r) : r[i] = q[i + 1]
      /\ Len(q) \in Nat \ {0}
      /\ Head(q) \in Callers
      /\ Head(q) = q[1]
  BY HeadTailProperties, EmptySeq DEF Queued
<1>2. Occurs(q, Head(q))
  BY <1>1 DEF Occurs
<1>3. Once(r)
  BY <1>1 DEF Once, Queued
<1>4. \A d \in Callers : Occurs(r, d) <=> Occurs(q, d) /\ d # Head(q)
  <2>1. ASSUME NEW d \in Callers, Occurs(r, d)
        PROVE  Occurs(q, d) /\ d # Head(q)
    BY <1>1, <2>1 DEF Occurs, Once, Queued
  <2>2. ASSUME NEW d \in Callers, Occurs(q, d), d # Head(q)
        PROVE  Occurs(r, d)
    <3>1. PICK i \in 1 .. Len(q) : q[i] = d
      BY <2>2 DEF Occurs
    <3>2. i - 1 \in 1 .. Len(r) /\ r[i - 1] = d
      BY <1>1, <2>2, <3>1
    <3>. QED
      BY <3>2 DEF Occurs
  <2>. QED
    BY <2>1, <2>2
<1>. QED
  BY <1>1, <1>2, <1>3, <1>4 DEF Queued

(* A caller whose context ends leaves the queue from wherever it stands. *)
LEMMA QueueLosesAny ==
  ASSUME NEW q, NEW W, Queued(q, W), NEW i \in 1 .. Len(q)
  PROVE  q[i] \in Callers /\ q[i] \in W /\ Queued(WithoutAt(q, i), W \ {q[i]})
<1>. DEFINE r == WithoutAt(q, i)
<1>1. /\ Len(q) \in Nat
      /\ \A j \in 1 .. Len(q) : q[j] \in Callers
  BY LenProperties, ElementOfSeq DEF Queued
<1>2. /\ r \in Seq(Callers)
      /\ Len(r) = Len(q) - 1
      /\ \A j \in 1 .. Len(r) : r[j] = IF j < i THEN q[j] ELSE q[j + 1]
  <2>1. Len(q) - 1 \in Nat
    BY <1>1
  <2>2. r \in [1 .. Len(q) - 1 -> Callers]
    BY <1>1 DEF WithoutAt
  <2>3. r \in Seq(Callers)
    BY <2>1, <2>2, SeqDef
  <2>4. Len(r) = Len(q) - 1
    BY <2>1, <2>2, <2>3, LenProperties
  <2>. QED
    BY <2>3, <2>4 DEF WithoutAt
<1>3. Occurs(q, q[i])
  BY DEF Occurs
<1>4. Once(r)
  BY <1>1, <1>2 DEF Once, Queued
<1>5. \A d \in Callers : Occurs(r, d) <=> Occurs(q, d) /\ d # q[i]
  <2>1. ASSUME NEW d \in Callers, Occurs(r, d)
        PROVE  Occurs(q, d) /\ d # q[i]
    <3>1. PICK j \in 1 .. Len(r) : r[j] = d
      BY <2>1 DEF Occurs
    <3>2. PICK k \in 1 .. Len(q) : q[k] = d /\ k # i
      BY <1>1, <1>2, <3>1
    <3>. QED
      BY <3>2 DEF Occurs, Once, Queued
  <2>2. ASSUME NEW d \in Callers, Occurs(q, d), d # q[i]
        PROVE  Occurs(r, d)
    <3>1. PICK k \in 1 .. Len(q) : q[k] = d
      BY <2>2 DEF Occurs
    <3>2. CASE k < i
      <4>1. k \in 1 .. Len(r) /\ r[k] = d
        BY <1>1, <1>2, <3>1, <3>2
      <4>. QED
        BY <4>1 DEF Occurs
    <3>3. CASE k > i
      <4>1. k - 1 \in 1 .. Len(r) /\ r[k - 1] = d
        BY <1>1, <1>2, <3>1, <3>3
      <4>. QED
        BY <4>1 DEF Occurs
    <3>. QED
      BY <2>2, <3>1, <3>2, <3>3
  <2>. QED
    BY <2>1, <2>2
<1>. QED
  BY <1>1, <1>2, <1>3, <1>4, <1>5 DEF Queued
-------------------------------------------------------------------------------
(* The semaphore *)

SlotWaiters == {c \in Callers : pc[c] = "acquire"}

SemaphoreInv ==
  /\ pc \in [Callers -> Places]
  /\ held \in 0 .. Inflight
  /\ SlotsAreHeld
  /\ Queued(slotQueue, SlotWaiters)

InSlot == {"granted", "token", "request", "backoff"}

NoSlot == {"idle", "between"}

(* Only finitely many callers hold a slot. *)
LEMMA HoldingIsFinite == IsFiniteSet(Holding) /\ Cardinality(Holding) \in Nat
<1>1. IsFiniteSet(Holding)
  BY LimitAssumption, FS_Subset DEF Holding
<1>. QED
  BY <1>1, FS_CardinalityType

(* Steps within a slot, or without one, change nothing of it. *)
LEMMA MovesKeepSemaphore ==
  ASSUME SemaphoreInv, UNCHANGED semaphore,
         pc' \in [Callers -> Places],
         \A d \in Callers : \/ pc'[d] = pc[d]
                            \/ pc[d] \in InSlot /\ pc'[d] \in InSlot
                            \/ pc[d] \in NoSlot /\ pc'[d] \in NoSlot
  PROVE  SemaphoreInv'
<1>1. Holding' = Holding /\ SlotWaiters' = SlotWaiters
  BY DEF Holding, SlotWaiters, InSlot, NoSlot
<1>. QED
  BY <1>1 DEF SemaphoreInv, SlotsAreHeld, Queued, Once, Occurs, semaphore

(* A caller that moves with its slot, or without one, changes no slot. *)
LEMMA KeepsSemaphore ==
  ASSUME SemaphoreInv, NEW c \in Callers, NEW place, Keeps(c, place),
         \/ pc[c] \in InSlot /\ place \in InSlot
         \/ pc[c] \in NoSlot /\ place \in NoSlot
  PROVE  SemaphoreInv'
<1>1. pc' \in [Callers -> Places]
  BY DEF Keeps, SemaphoreInv, Places, InSlot, NoSlot
<1>2. \A d \in Callers : pc'[d] = IF d = c THEN place ELSE pc[d]
  BY DEF Keeps, SemaphoreInv
<1>. QED
  BY <1>1, <1>2, MovesKeepSemaphore DEF Keeps

(* A slot that is given back is free, or its next holder's. *)
LEMMA GivesBackKeepsSemaphore ==
  ASSUME SemaphoreInv, NEW c \in Callers, NEW place \in NoSlot, pc[c] \in InSlot,
         GivesBack(c, place)
  PROVE  SemaphoreInv'
<1>. USE DEF SemaphoreInv
<1>1. Inflight \in Nat \ {0} /\ Cardinality(Holding) \in Nat /\ IsFiniteSet(Holding)
  BY LimitAssumption, HoldingIsFinite
<1>2. c \in Holding /\ c \notin SlotWaiters
  BY DEF Holding, SlotWaiters, InSlot
<1>3. CASE slotQueue = <<>>
  <2>1. pc' = [pc EXCEPT ![c] = place] /\ held' = held - 1 /\ slotQueue' = slotQueue
    BY <1>3 DEF GivesBack
  <2>2. pc' \in [Callers -> Places]
    BY <2>1 DEF Places, NoSlot
  <2>3. Holding' = Holding \ {c} /\ SlotWaiters' = SlotWaiters
    BY <1>2, <2>1 DEF Holding, SlotWaiters, NoSlot, InSlot
  <2>4. Cardinality(Holding') = Cardinality(Holding) - 1 /\ Cardinality(Holding') \in Nat
    BY <1>1, <1>2, <2>3, FS_RemoveElement, FS_CardinalityType
  <2>5. Queued(slotQueue, SlotWaiters)'
    BY <2>1, <2>3 DEF Queued, Once, Occurs
  <2>6. held' = Cardinality(Holding') /\ held' \in 0 .. Inflight
    BY <1>1, <2>1, <2>4 DEF SlotsAreHeld
  <2>. QED
    BY <1>1, <1>3, <2>1, <2>2, <2>5, <2>6 DEF SlotsAreHeld
<1>4. CASE slotQueue # <<>>
  <2>. DEFINE next == Head(slotQueue)
  <2>1. /\ pc' = [pc EXCEPT ![c] = place, ![next] = "granted"]
        /\ held' = held /\ slotQueue' = Tail(slotQueue)
    BY <1>4 DEF GivesBack
  <2>2. next \in Callers /\ next \in SlotWaiters /\ Queued(Tail(slotQueue), SlotWaiters \ {next})
    BY <1>4, QueueLosesHead
  <2>3. pc' \in [Callers -> Places]
    BY <2>1, <2>2 DEF Places, NoSlot
  <2>4. \A d \in Callers : pc'[d] = IF d = next THEN "granted" ELSE IF d = c THEN place ELSE pc[d]
    BY <2>1, <2>2
  <2>5. next # c /\ next \notin Holding
    BY <1>2, <2>2 DEF SlotWaiters, Holding
  <2>6. Holding' = (Holding \ {c}) \cup {next} /\ SlotWaiters' = SlotWaiters \ {next}
    BY <1>2, <2>2, <2>4, <2>5 DEF Holding, SlotWaiters, NoSlot, InSlot
  <2>7. IsFiniteSet(Holding \ {c}) /\ Cardinality(Holding \ {c}) = Cardinality(Holding) - 1
    BY <1>1, <1>2, FS_RemoveElement
  <2>8. Cardinality((Holding \ {c}) \cup {next}) = Cardinality(Holding \ {c}) + 1
    BY <2>5, <2>7, FS_AddElement
  <2>9. Cardinality(Holding') = Cardinality(Holding)
    BY <1>1, <2>6, <2>7, <2>8
  <2>10. Queued(slotQueue, SlotWaiters)'
    BY <2>1, <2>2, <2>6 DEF Queued, Once, Occurs
  <2>. QED
    BY <1>4, <2>1, <2>3, <2>9, <2>10 DEF SlotsAreHeld
<1>. QED
  BY <1>3, <1>4

(* Who comes takes a free slot, or waits because there is none. *)
LEMMA AcquiresKeepsSemaphore ==
  ASSUME SemaphoreInv, NEW c \in Callers, pc[c] \in NoSlot, Acquires(c)
  PROVE  SemaphoreInv'
<1>. USE DEF SemaphoreInv
<1>1. Inflight \in Nat \ {0} /\ Cardinality(Holding) \in Nat /\ IsFiniteSet(Holding)
  BY LimitAssumption, HoldingIsFinite
<1>2. c \notin Holding /\ c \notin SlotWaiters
  BY DEF Holding, SlotWaiters, NoSlot
<1>3. CASE held < Inflight
  <2>1. pc' = [pc EXCEPT ![c] = "granted"] /\ held' = held + 1 /\ slotQueue' = slotQueue
    BY <1>3 DEF Acquires
  <2>2. pc' \in [Callers -> Places]
    BY <2>1 DEF Places
  <2>3. Holding' = Holding \cup {c} /\ SlotWaiters' = SlotWaiters
    BY <1>2, <2>1 DEF Holding, SlotWaiters
  <2>4. Cardinality(Holding') = Cardinality(Holding) + 1
    BY <1>1, <1>2, <2>3, FS_AddElement
  <2>5. Queued(slotQueue, SlotWaiters)'
    BY <2>1, <2>3 DEF Queued, Once, Occurs
  <2>6. slotQueue = <<>>
    BY <1>1, <1>3 DEF SlotsAreHeld
  <2>. QED
    BY <1>1, <1>3, <2>1, <2>2, <2>4, <2>5, <2>6 DEF SlotsAreHeld
<1>4. CASE ~(held < Inflight)
  <2>1. pc' = [pc EXCEPT ![c] = "acquire"] /\ held' = held /\ slotQueue' = Append(slotQueue, c)
    BY <1>4 DEF Acquires
  <2>2. pc' \in [Callers -> Places]
    BY <2>1 DEF Places
  <2>3. Holding' = Holding /\ SlotWaiters' = SlotWaiters \cup {c}
    BY <1>2, <2>1 DEF Holding, SlotWaiters
  <2>4. Queued(slotQueue, SlotWaiters)'
    BY <1>2, <2>1, <2>3, QueueGains DEF Queued, Once, Occurs
  <2>5. held = Inflight
    BY <1>1, <1>4
  <2>. QED
    BY <1>1, <2>1, <2>2, <2>3, <2>4, <2>5 DEF SlotsAreHeld
<1>. QED
  BY <1>3, <1>4

(* A waiter that is cancelled leaves the queue and takes no slot with it. *)
LEMMA CancelSlotKeepsSemaphore ==
  ASSUME SemaphoreInv, NEW c \in Callers, CancelSlot(c)
  PROVE  SemaphoreInv' /\ pc[c] = "acquire"
<1>. USE DEF SemaphoreInv
<1>1. PICK i \in 1 .. Len(slotQueue) :
        /\ slotQueue[i] = c
        /\ slotQueue' = WithoutAt(slotQueue, i)
        /\ pc' = [pc EXCEPT ![c] = "idle"]
        /\ held' = held
  BY DEF CancelSlot
<1>2. c \in SlotWaiters /\ Queued(WithoutAt(slotQueue, i), SlotWaiters \ {c})
  BY <1>1, QueueLosesAny
<1>3. pc' \in [Callers -> Places]
  BY <1>1 DEF Places
<1>4. Holding' = Holding /\ SlotWaiters' = SlotWaiters \ {c}
  BY <1>1, <1>2 DEF Holding, SlotWaiters
<1>5. Queued(slotQueue, SlotWaiters)'
  BY <1>1, <1>2, <1>4 DEF Queued, Once, Occurs
<1>6. slotQueue # <<>>
  BY <1>1, EmptySeq DEF Queued
<1>. QED
  BY <1>1, <1>2, <1>3, <1>4, <1>5, <1>6 DEF SlotsAreHeld, SlotWaiters
-------------------------------------------------------------------------------
(* The rate limiter and the answers *)

TokenWaiters == {c \in Callers : pc[c] = "token"}

LimiterInv ==
  /\ token \in 0 .. 1
  /\ taken \in Nat
  /\ OnePerPeriod
  /\ Queued(tokenQueue, TokenWaiters)

(* What is stitched is what lies before the window that is asked next. *)
Answering(c) ==
  /\ query[c].lo <= query[c].span
  /\ query[c].got = {m \in Points : m < query[c].lo}
  /\ pc[c] # "idle" => result[c] = "none"
  /\ result[c] = "ok" => query[c].lo = query[c].span
  /\ result[c] = "error" => failed[c] \/ TooMany(query[c].span)

QueryInv ==
  /\ query \in [Callers -> [span : Nat, lo : Nat, got : SUBSET Points, asked : Nat]]
  /\ attempt \in [Callers -> 0 .. Retries]
  /\ failed \in [Callers -> BOOLEAN]
  /\ result \in [Callers -> {"none", "ok", "error"}]
  /\ cancelled \in BOOLEAN
  /\ \A c \in Callers : Answering(c)

Inductive == SemaphoreInv /\ LimiterInv /\ QueryInv

(* c goes to one of places; the others neither end nor turn to a token. *)
Moves(c, places) ==
  /\ pc'[c] \in places
  /\ \A d \in Callers \ {c} :
       (pc'[d] = "idle" <=> pc[d] = "idle") /\ (pc'[d] = "token" <=> pc[d] = "token")

(* A caller that keeps what it has moves alone. *)
LEMMA KeepsMoves ==
  ASSUME SemaphoreInv, NEW c \in Callers, NEW place, Keeps(c, place)
  PROVE  Moves(c, {place})
  BY DEF Keeps, Moves, SemaphoreInv

(* A slot handed over wakes a waiter, who neither ends nor turns to a token. *)
LEMMA GivesBackMoves ==
  ASSUME SemaphoreInv, NEW c \in Callers, NEW place, pc[c] \in InSlot, GivesBack(c, place)
  PROVE  Moves(c, {place})
<1>1. CASE slotQueue = <<>>
  BY <1>1 DEF GivesBack, Moves, SemaphoreInv
<1>2. CASE slotQueue # <<>>
  <2>0. Queued(slotQueue, SlotWaiters)
    BY DEF SemaphoreInv
  <2>1. Head(slotQueue) \in Callers /\ Head(slotQueue) \in SlotWaiters
    BY <1>2, <2>0, QueueLosesHead
  <2>. QED
    BY <1>2, <2>1 DEF GivesBack, Moves, SemaphoreInv, InSlot, SlotWaiters
<1>. QED
  BY <1>1, <1>2

(* A caller that comes to the semaphore moves alone. *)
LEMMA AcquiresMoves ==
  ASSUME SemaphoreInv, NEW c \in Callers, Acquires(c)
  PROVE  Moves(c, {"granted", "acquire"})
  BY DEF Acquires, Moves, SemaphoreInv

(* A step that goes past the limiter leaves it as it is. *)
LEMMA LimiterStays ==
  ASSUME LimiterInv, NEW c \in Callers, NEW places, Moves(c, places),
         pc[c] # "token", "token" \notin places, UNCHANGED rateLimiter
  PROVE  LimiterInv'
<1>1. TokenWaiters' = TokenWaiters
  BY DEF TokenWaiters, Moves
<1>. QED
  BY <1>1 DEF LimiterInv, OnePerPeriod, rateLimiter, Queued, Once, Occurs

(* A step of one query leaves the answers of the others as they are. *)
LEMMA OthersAnswer ==
  ASSUME QueryInv, NEW c \in Callers, NEW places, Moves(c, places),
         \A d \in Callers \ {c} : /\ query'[d] = query[d]
                                  /\ failed'[d] = failed[d]
                                  /\ result'[d] = result[d],
         Answering(c)'
  PROVE  \A d \in Callers : Answering(d)'
<1>. SUFFICES ASSUME NEW d \in Callers, d # c
              PROVE  Answering(d)'
  OBVIOUS
<1>1. pc'[d] # "idle" => pc[d] # "idle"
  BY DEF Moves
<1>2. query'[d] = query[d] /\ failed'[d] = failed[d] /\ result'[d] = result[d]
  OBVIOUS
<1>. QED
  BY <1>1, <1>2 DEF QueryInv, Answering, TooMany

(* A query that fails, wherever it was, leaves its answer as it was. *)
LEMMA FailsAnswers ==
  ASSUME QueryInv, NEW c \in Callers, Moves(c, {"idle"}), Fails(c), UNCHANGED cancelled
  PROVE  QueryInv'
<1>1. /\ query' = query /\ attempt' = attempt
      /\ failed' = [failed EXCEPT ![c] = TRUE]
      /\ result' = [result EXCEPT ![c] = "error"]
  BY DEF Fails
<1>2. Answering(c)'
  BY <1>1 DEF QueryInv, Answering, Moves
<1>3. \A d \in Callers : Answering(d)'
  BY <1>1, <1>2, OthersAnswer DEF QueryInv
<1>. QED
  BY <1>1, <1>3 DEF QueryInv

(* A step of c that touches neither its query nor its result. *)
LEMMA MovesAnswers ==
  ASSUME QueryInv, NEW c \in Callers, NEW places, Moves(c, places),
         pc[c] # "idle", UNCHANGED <<query, result, cancelled>>,
         attempt' \in [Callers -> 0 .. Retries], failed' \in [Callers -> BOOLEAN],
         \A d \in Callers : failed[d] => failed'[d],
         \A d \in Callers \ {c} : failed'[d] = failed[d]
  PROVE  QueryInv'
<1>1. Answering(c)'
  BY DEF QueryInv, Answering, TooMany
<1>2. \A d \in Callers : Answering(d)'
  BY <1>1, OthersAnswer
<1>. QED
  BY <1>2 DEF QueryInv
-------------------------------------------------------------------------------
(* Each step *)

(* No row lies before the start of a range. *)
LEMMA NothingBeforeZero == {m \in Points : m < 0} = {}
<1>1. \A m \in Points : ~(m < 0)
  BY RangeAssumption
<1>. QED
  BY <1>1, Zenon

(* Before anything is queried, every part of the invariant holds. *)
LEMMA InitEstablishes == Init => Inductive
<1>. SUFFICES ASSUME Init
              PROVE  Inductive
  OBVIOUS
<1>. USE DEF Init
<1>1. Inflight \in Nat \ {0} /\ Retries \in Nat /\ Points \subseteq Nat
  BY LimitAssumption, RangeAssumption
<1>2. Holding = {} /\ SlotWaiters = {} /\ TokenWaiters = {}
  BY DEF Holding, SlotWaiters, TokenWaiters
<1>3. Queued(<<>>, {})
  BY EmptySeq DEF Queued, Once, Occurs
<1>4. SemaphoreInv
  BY <1>1, <1>2, <1>3, FS_EmptySet DEF SemaphoreInv, SlotsAreHeld, Places
<1>5. LimiterInv
  BY <1>2, <1>3 DEF LimiterInv, OnePerPeriod
<1>6. \A c \in Callers : Answering(c)
  <2>. SUFFICES ASSUME NEW c \in Callers
                PROVE  Answering(c)
    OBVIOUS
  <2>1. query[c].lo = 0 /\ query[c].span = 0 /\ query[c].got = {}
    OBVIOUS
  <2>2. pc[c] = "idle" /\ result[c] = "none"
    OBVIOUS
  <2>. QED
    BY <2>1, <2>2, NothingBeforeZero DEF Answering
<1>7. QueryInv
  <2>1. query \in [Callers -> [span : Nat, lo : Nat, got : SUBSET Points, asked : Nat]]
    OBVIOUS
  <2>2. attempt \in [Callers -> 0 .. Retries]
    BY <1>1
  <2>3. /\ failed \in [Callers -> BOOLEAN]
        /\ result \in [Callers -> {"none", "ok", "error"}]
        /\ cancelled \in BOOLEAN
    BY <1>1
  <2>. HIDE DEF Init
  <2>. QED
    BY <1>6, <2>1, <2>2, <2>3 DEF QueryInv
<1>. QED
  BY <1>4, <1>5, <1>7 DEF Inductive

(* A query begins, or is refused for its many windows. *)
LEMMA CallKeeps ==
  ASSUME Inductive, NEW c \in Callers, Call(c)
  PROVE  Inductive'
<1>. USE DEF Inductive
<1>1. PICK span \in Spans :
        /\ query' = [query EXCEPT ![c] = [span |-> span, lo |-> 0, got |-> {}, asked |-> 0]]
        /\ \/ /\ TooMany(span)
              /\ result' = [result EXCEPT ![c] = "error"]
              /\ Keeps(c, "idle")
           \/ /\ ~TooMany(span)
              /\ result' = [result EXCEPT ![c] = "none"]
              /\ Acquires(c)
  BY DEF Call
<1>2. /\ pc[c] = "idle"
      /\ attempt' = [attempt EXCEPT ![c] = 0]
      /\ failed' = [failed EXCEPT ![c] = FALSE]
      /\ UNCHANGED <<rateLimiter, cancelled>>
  BY DEF Call
<1>3. span \in Nat /\ Points \subseteq Nat /\ Retries \in Nat
  BY RangeAssumption, LimitAssumption
<1>4. SemaphoreInv'
  BY <1>1, <1>2, KeepsSemaphore, AcquiresKeepsSemaphore DEF NoSlot
<1>5. Moves(c, {"idle", "granted", "acquire"})
  BY <1>1, KeepsMoves, AcquiresMoves DEF Moves
<1>6. LimiterInv'
  BY <1>2, <1>5, LimiterStays
<1>7. Answering(c)'
  <2>1. /\ query'[c] = [span |-> span, lo |-> 0, got |-> {}, asked |-> 0]
        /\ failed'[c] = FALSE
    BY <1>1, <1>2 DEF QueryInv
  <2>0. /\ query'[c].lo = 0 /\ query'[c].span = span
        /\ query'[c].got = {m \in Points : m < 0}
    BY <2>1, NothingBeforeZero
  <2>2. CASE TooMany(span) /\ result' = [result EXCEPT ![c] = "error"] /\ Keeps(c, "idle")
    <3>1. pc'[c] = "idle" /\ result'[c] = "error"
      BY <2>2 DEF QueryInv, Keeps, SemaphoreInv
    <3>2. TooMany(query'[c].span)
      BY <2>0, <2>2
    <3>. QED
      BY <1>3, <2>0, <3>1, <3>2 DEF Answering, TooMany
  <2>3. CASE result' = [result EXCEPT ![c] = "none"]
    <3>1. result'[c] = "none"
      BY <2>3 DEF QueryInv
    <3>. QED
      BY <1>3, <2>0, <3>1 DEF Answering
  <2>. QED
    BY <1>1, <2>2, <2>3
<1>8. \A d \in Callers : Answering(d)'
  <2>1. \A d \in Callers \ {c} : /\ query'[d] = query[d]
                                 /\ failed'[d] = failed[d]
                                 /\ result'[d] = result[d]
    BY <1>1, <1>2 DEF QueryInv
  <2>. QED
    BY <1>5, <1>7, <2>1, OthersAnswer
<1>9. QueryInv'
  BY <1>1, <1>2, <1>3, <1>8 DEF QueryInv
<1>. QED
  BY <1>4, <1>6, <1>9

(* A query comes back to the semaphore for its next window. *)
LEMMA NextWindowKeeps ==
  ASSUME Inductive, NEW c \in Callers, NextWindow(c)
  PROVE  Inductive'
<1>. USE DEF Inductive, NextWindow
<1>1. SemaphoreInv'
  BY AcquiresKeepsSemaphore DEF NoSlot
<1>2. Moves(c, {"granted", "acquire"})
  BY AcquiresMoves
<1>3. LimiterInv'
  BY <1>2, LimiterStays
<1>4. attempt' \in [Callers -> 0 .. Retries]
  BY LimitAssumption DEF QueryInv
<1>5. QueryInv'
  BY <1>2, <1>4, MovesAnswers DEF QueryInv
<1>. QED
  BY <1>1, <1>3, <1>5

(* A caller takes the buffered tick, or blocks for the next one. *)
LEMMA AwaitKeeps ==
  ASSUME Inductive, NEW c \in Callers, Await(c)
  PROVE  Inductive'
<1>. USE DEF Inductive
<1>1. SemaphoreInv'
  BY KeepsSemaphore DEF Await, InSlot
<1>2. Moves(c, {"request", "token"})
  BY KeepsMoves DEF Await, Moves
<1>3. QueryInv'
  BY <1>2, MovesAnswers DEF Await, QueryInv
<1>4. LimiterInv'
  <2>1. CASE token > 0 /\ token' = token - 1 /\ taken' = taken + 1 /\ Keeps(c, "request")
             /\ UNCHANGED tokenQueue
    <3>1. TokenWaiters' = TokenWaiters
      BY <2>1 DEF Await, Keeps, TokenWaiters, SemaphoreInv
    <3>. QED
      BY <2>1, <3>1 DEF LimiterInv, OnePerPeriod, Queued, Once, Occurs
  <2>2. CASE token = 0 /\ tokenQueue' = Append(tokenQueue, c) /\ Keeps(c, "token")
             /\ UNCHANGED <<token, taken>>
    <3>1. c \notin TokenWaiters
      BY DEF Await, TokenWaiters
    <3>2. TokenWaiters' = TokenWaiters \cup {c}
      BY <2>2 DEF Keeps, TokenWaiters, SemaphoreInv
    <3>3. Queued(tokenQueue', TokenWaiters')
      BY <2>2, <3>1, <3>2, QueueGains DEF LimiterInv
    <3>. QED
      BY <2>2, <3>3 DEF LimiterInv, OnePerPeriod, Queued, Once, Occurs
  <2>. QED
    BY <2>1, <2>2 DEF Await
<1>. QED
  BY <1>1, <1>3, <1>4

(* A tick is handed to a waiter or buffered, and no second one is kept. *)
LEMMA TickKeeps ==
  ASSUME Inductive, Tick
  PROVE  Inductive'
<1>. USE DEF Inductive
<1>1. CASE tokenQueue = <<>> /\ token' = Buffered(token) /\ taken' = 0 /\ UNCHANGED <<pc, tokenQueue>>
  <2>1. SemaphoreInv'
    BY <1>1, MovesKeepSemaphore DEF Tick, SemaphoreInv
  <2>2. TokenWaiters' = TokenWaiters
    BY <1>1 DEF TokenWaiters
  <2>3. LimiterInv'
    BY <1>1, <2>2 DEF LimiterInv, OnePerPeriod, Buffered, Queued, Once, Occurs
  <2>4. QueryInv'
    BY <1>1 DEF Tick, QueryInv, Answering, TooMany
  <2>. QED
    BY <2>1, <2>3, <2>4
<1>2. CASE /\ tokenQueue # <<>>
           /\ pc' = [pc EXCEPT ![Head(tokenQueue)] = "request"]
           /\ tokenQueue' = Tail(tokenQueue)
           /\ taken' = 1
           /\ UNCHANGED token
  <2>. DEFINE next == Head(tokenQueue)
  <2>0. Queued(tokenQueue, TokenWaiters)
    BY DEF LimiterInv
  <2>1. next \in Callers /\ next \in TokenWaiters /\ Queued(Tail(tokenQueue), TokenWaiters \ {next})
    BY <1>2, <2>0, QueueLosesHead
  <2>2. pc' \in [Callers -> Places]
    BY <1>2, <2>1 DEF SemaphoreInv, Places
  <2>3. \A d \in Callers : pc'[d] = IF d = next THEN "request" ELSE pc[d]
    BY <1>2 DEF SemaphoreInv
  <2>4. SemaphoreInv'
    <3>1. pc[next] \in InSlot /\ "request" \in InSlot
      BY <2>1 DEF TokenWaiters, InSlot
    <3>. QED
      BY <2>2, <2>3, <3>1, MovesKeepSemaphore DEF Tick
  <2>5. TokenWaiters' = TokenWaiters \ {next}
    BY <2>3 DEF TokenWaiters
  <2>6. token = 0 /\ token' = 0
    BY <1>2 DEF LimiterInv, OnePerPeriod
  <2>7. Queued(tokenQueue, TokenWaiters)'
    BY <1>2, <2>1, <2>5 DEF Queued, Once, Occurs
  <2>8. LimiterInv'
    BY <1>2, <2>6, <2>7 DEF LimiterInv, OnePerPeriod
  <2>9. QueryInv'
    <3>1. \A d \in Callers : pc'[d] # "idle" => pc[d] # "idle"
      BY <2>1, <2>3 DEF TokenWaiters
    <3>. QED
      BY <3>1 DEF Tick, QueryInv, Answering, TooMany
  <2>. QED
    BY <2>4, <2>8, <2>9
<1>. QED
  BY <1>1, <1>2 DEF Tick

(* Rows are stitched onto those before them, and the slot is given back. *)
LEMMA AnsweredKeeps ==
  ASSUME Inductive, NEW c \in Callers, Answered(c)
  PROVE  Inductive'
<1>. DEFINE q    == query[c]
            rows == Rows(q)
            last == NextStart(q) >= q.span
<1>. USE DEF Inductive
<1>1. /\ pc[c] = "request"
      /\ UNCHANGED <<attempt, failed, rateLimiter, cancelled>>
  BY DEF Answered
<1>2. /\ q \in [span : Nat, lo : Nat, got : SUBSET Points, asked : Nat]
      /\ q.lo <= q.span /\ q.got = {m \in Points : m < q.lo}
      /\ MaxRange \in Nat /\ Points \subseteq Nat
      /\ result[c] = "none"
  BY <1>1, RangeAssumption DEF QueryInv, Answering
<1>3. /\ NextStart(q) \in Nat /\ q.lo <= NextStart(q) /\ NextStart(q) <= q.span
      /\ rows = {m \in Points : q.lo <= m /\ m < NextStart(q)}
  BY <1>2 DEF NextStart, End, Rows
<1>4. Stitches(q.got, rows)
  <2>1. \A a \in q.got, b \in rows : a \in Nat /\ b \in Nat /\ a < q.lo /\ q.lo <= b
    BY <1>2, <1>3
  <2>. QED
    BY <1>2, <2>1 DEF Stitches
<1>5. /\ query' = [query EXCEPT ![c].got = q.got \cup rows, ![c].lo = NextStart(q),
                               ![c].asked = @ + 1]
      /\ result' = [result EXCEPT ![c] = IF last THEN "ok" ELSE @]
      /\ GivesBack(c, IF last THEN "idle" ELSE "between")
  BY <1>4 DEF Answered
<1>6. SemaphoreInv'
  <2>1. pc[c] \in InSlot /\ (IF last THEN "idle" ELSE "between") \in NoSlot
    BY <1>1 DEF InSlot, NoSlot
  <2>. QED
    BY <1>5, <2>1, GivesBackKeepsSemaphore
<1>7. Moves(c, {IF last THEN "idle" ELSE "between"})
  BY <1>1, <1>5, GivesBackMoves DEF InSlot
<1>8. LimiterInv'
  BY <1>1, <1>7, LimiterStays
<1>9. query'[c] = [q EXCEPT !.got = q.got \cup rows, !.lo = NextStart(q), !.asked = @ + 1]
  BY <1>5 DEF QueryInv
<1>10. Answering(c)'
  <2>1. q.got \cup rows = {m \in Points : m < NextStart(q)}
    <3>1. q.lo \in Nat /\ NextStart(q) \in Nat
      BY <1>2, <1>3
    <3>2. \A m \in Points : m < NextStart(q) <=> m < q.lo \/ (q.lo <= m /\ m < NextStart(q))
      BY <1>2, <1>3, <3>1
    <3>. HIDE DEF q, rows
    <3>. QED
      BY <1>2, <1>3, <3>2
  <2>2. /\ query'[c].lo = NextStart(q) /\ query'[c].span = q.span
        /\ query'[c].got = {m \in Points : m < NextStart(q)}
    BY <1>2, <1>9, <2>1
  <2>3. result'[c] = IF last THEN "ok" ELSE "none"
    BY <1>2, <1>5 DEF QueryInv
  <2>4. last => NextStart(q) = q.span
    BY <1>2, <1>3
  <2>5. pc'[c] = IF last THEN "idle" ELSE "between"
    BY <1>7 DEF Moves
  <2>. QED
    BY <1>3, <2>2, <2>3, <2>4, <2>5 DEF Answering
<1>11. \A d \in Callers \ {c} : query'[d] = query[d] /\ failed'[d] = failed[d] /\ result'[d] = result[d]
  BY <1>1, <1>5 DEF QueryInv
<1>12. \A d \in Callers : Answering(d)'
  BY <1>7, <1>10, <1>11, OthersAnswer
<1>13. query' \in [Callers -> [span : Nat, lo : Nat, got : SUBSET Points, asked : Nat]]
  <2>0. q.got \cup rows \in SUBSET Points
    BY <1>2, <1>3
  <2>1. query'[c] \in [span : Nat, lo : Nat, got : SUBSET Points, asked : Nat]
    <3>. DEFINE got == q.got \cup rows
                lo  == NextStart(q)
    <3>1. q.span \in Nat /\ q.asked + 1 \in Nat /\ lo \in Nat /\ got \in SUBSET Points
      BY <1>2, <1>3, <2>0
    <3>2. query'[c] = [span |-> q.span, lo |-> lo, got |-> got, asked |-> q.asked + 1]
      BY <1>2, <1>9
    <3>. HIDE DEF q, got, lo
    <3>. QED
      BY <3>1, <3>2
  <2>. QED
    BY <1>5, <2>1 DEF QueryInv
<1>14. QueryInv'
  BY <1>1, <1>5, <1>12, <1>13 DEF QueryInv
<1>. QED
  BY <1>6, <1>8, <1>14
(* However a query fails, its slot is given back. *)
LEMMA FailingKeeps ==
  ASSUME Inductive, NEW c \in Callers, pc[c] \in InSlot \ {"token"}, Fails(c), GivesUp(c),
         UNCHANGED <<rateLimiter, cancelled>>
  PROVE  Inductive'
<1>. USE DEF Inductive
<1>1. SemaphoreInv'
  BY GivesBackKeepsSemaphore DEF GivesUp, NoSlot
<1>2. Moves(c, {"idle"})
  BY GivesBackMoves DEF GivesUp
<1>3. LimiterInv'
  BY <1>2, LimiterStays
<1>4. QueryInv'
  BY <1>2, FailsAnswers
<1>. QED
  BY <1>1, <1>3, <1>4

(* A failed request keeps its slot for a retry, or ends the query. *)
LEMMA RetryableKeeps ==
  ASSUME Inductive, NEW c \in Callers, Retryable(c)
  PROVE  Inductive'
<1>. USE DEF Inductive
<1>1. CASE /\ attempt[c] < Retries
           /\ attempt' = [attempt EXCEPT ![c] = @ + 1]
           /\ failed' = [failed EXCEPT ![c] = TRUE]
           /\ Keeps(c, "backoff")
           /\ UNCHANGED <<query, result>>
  <2>1. SemaphoreInv'
    BY <1>1, KeepsSemaphore DEF Retryable, InSlot
  <2>2. Moves(c, {"backoff"})
    BY <1>1, KeepsMoves
  <2>3. LimiterInv'
    BY <2>2, LimiterStays DEF Retryable
  <2>4. attempt' \in [Callers -> 0 .. Retries]
    BY <1>1, LimitAssumption DEF QueryInv
  <2>5. QueryInv'
    BY <1>1, <2>2, <2>4, MovesAnswers DEF Retryable, QueryInv
  <2>. QED
    BY <2>1, <2>3, <2>5
<1>2. CASE attempt[c] = Retries /\ Fails(c) /\ GivesUp(c)
  BY <1>2, FailingKeeps DEF Retryable, InSlot
<1>. QED
  BY <1>1, <1>2 DEF Retryable

(* After its backoff the query comes to the limiter again. *)
LEMMA WakeKeeps ==
  ASSUME Inductive, NEW c \in Callers, Wake(c)
  PROVE  Inductive'
<1>. USE DEF Inductive, Wake
<1>1. SemaphoreInv'
  BY KeepsSemaphore DEF InSlot
<1>2. Moves(c, {"granted"})
  BY KeepsMoves
<1>3. LimiterInv'
  BY <1>2, LimiterStays
<1>4. QueryInv'
  BY <1>2, MovesAnswers DEF QueryInv
<1>. QED
  BY <1>1, <1>3, <1>4

(* Each wait of a query may be ended by its context. *)
LEMMA CancelledKeeps ==
  ASSUME Inductive, NEW c \in Callers, Cancelled(c)
  PROVE  Inductive'
<1>. USE DEF Inductive
<1>0. Fails(c) /\ UNCHANGED cancelled
  BY DEF Cancelled
<1>1. CASE CancelAcquire(c)
  <2>1. SemaphoreInv'
    BY <1>1, KeepsSemaphore DEF CancelAcquire, NoSlot
  <2>2. Moves(c, {"idle"})
    BY <1>1, KeepsMoves DEF CancelAcquire
  <2>3. LimiterInv'
    BY <1>1, <2>2, LimiterStays DEF CancelAcquire
  <2>4. QueryInv'
    BY <1>0, <2>2, FailsAnswers
  <2>. QED
    BY <2>1, <2>3, <2>4
<1>2. CASE CancelSlot(c)
  <2>1. SemaphoreInv' /\ pc[c] = "acquire"
    BY <1>2, CancelSlotKeepsSemaphore
  <2>2. pc' = [pc EXCEPT ![c] = "idle"] /\ UNCHANGED rateLimiter
    BY <1>2 DEF CancelSlot
  <2>3. Moves(c, {"idle"})
    BY <2>2 DEF Moves, SemaphoreInv
  <2>4. LimiterInv'
    BY <2>1, <2>2, <2>3, LimiterStays
  <2>5. QueryInv'
    BY <1>0, <2>3, FailsAnswers
  <2>. QED
    BY <2>1, <2>4, <2>5
<1>3. CASE CancelToken(c)
  <2>1. PICK i \in 1 .. Len(tokenQueue) :
          /\ tokenQueue[i] = c
          /\ tokenQueue' = WithoutAt(tokenQueue, i)
          /\ GivesUp(c)
          /\ UNCHANGED <<token, taken>>
    BY <1>3 DEF CancelToken
  <2>2. Queued(tokenQueue, TokenWaiters)
    BY DEF LimiterInv
  <2>3. c \in TokenWaiters /\ Queued(WithoutAt(tokenQueue, i), TokenWaiters \ {c})
    BY <2>1, <2>2, QueueLosesAny
  <2>4. pc[c] \in InSlot
    BY <2>3 DEF TokenWaiters, InSlot
  <2>5. SemaphoreInv'
    BY <2>1, <2>4, GivesBackKeepsSemaphore DEF GivesUp, NoSlot
  <2>6. Moves(c, {"idle"})
    BY <2>1, <2>4, GivesBackMoves DEF GivesUp
  <2>7. TokenWaiters' = TokenWaiters \ {c}
    BY <2>3, <2>6 DEF TokenWaiters, Moves
  <2>8. Queued(tokenQueue, TokenWaiters)'
    BY <2>1, <2>3, <2>7 DEF Queued, Once, Occurs
  <2>9. tokenQueue # <<>>
    BY <2>1, <2>2, EmptySeq DEF Queued
  <2>10. LimiterInv'
    BY <2>1, <2>8, <2>9 DEF LimiterInv, OnePerPeriod
  <2>11. QueryInv'
    BY <1>0, <2>6, FailsAnswers
  <2>. QED
    BY <2>5, <2>10, <2>11
<1>4. CASE CancelPause(c)
  BY <1>0, <1>4, FailingKeeps DEF CancelPause, InSlot
<1>. QED
  BY <1>1, <1>2, <1>3, <1>4 DEF Cancelled

(* The context ends; nobody has moved yet. *)
LEMMA ShutdownKeeps ==
  ASSUME Inductive, cancelled' \in BOOLEAN, UNCHANGED <<caller, semaphore, rateLimiter>>
  PROVE  Inductive'
<1>. USE DEF Inductive, caller, semaphore, rateLimiter
<1>1. SemaphoreInv'
  BY MovesKeepSemaphore DEF SemaphoreInv
<1>2. TokenWaiters' = TokenWaiters
  BY DEF TokenWaiters
<1>3. LimiterInv'
  BY <1>2 DEF LimiterInv, OnePerPeriod, Queued, Once, Occurs
<1>4. QueryInv'
  BY DEF QueryInv, Answering, TooMany
<1>. QED
  BY <1>1, <1>3, <1>4

(* Every step keeps the invariant. *)
LEMMA NextKeeps == Inductive /\ [Next]_vars => Inductive'
<1>. SUFFICES ASSUME Inductive, [Next]_vars
              PROVE  Inductive'
  OBVIOUS
<1>1. ASSUME NEW c \in Callers, Call(c)
      PROVE  Inductive'
  BY <1>1, CallKeeps
<1>2. ASSUME NEW c \in Callers, Step(c)
      PROVE  Inductive'
  <2>1. CASE Final(c)
    BY <2>1, FailingKeeps DEF Final, InSlot
  <2>. QED
    BY <1>2, <2>1, NextWindowKeeps, AwaitKeeps, AnsweredKeeps, RetryableKeeps, WakeKeeps,
       CancelledKeeps DEF Step
<1>3. CASE Tick
  BY <1>3, TickKeeps
<1>4. CASE Shutdown
  BY <1>4, ShutdownKeeps DEF Shutdown
<1>5. CASE UNCHANGED vars
  BY <1>5, ShutdownKeeps DEF vars, Inductive, QueryInv
<1>. QED
  BY <1>1, <1>2, <1>3, <1>4, <1>5 DEF Next

(* The invariant always holds. *)
LEMMA AlwaysInductive == Spec => []Inductive
  BY InitEstablishes, NextKeeps, PTL DEF Spec

-------------------------------------------------------------------------------
(* The windows *)

(***************************************************************************)
(* The loop of windows cuts as many windows as windowCount divides: after  *)
(* n of them that left a rest one more is counted, and the last of them is *)
(* the one that reaches the end.                                           *)
(***************************************************************************)
LEMMA OneMoreIsCounted ==
  ASSUME MaxRange > 0, NEW span \in Nat, NEW n \in Nat, MaxRange * n < span
  PROVE  /\ WindowCount(span) \in Nat
         /\ n + 1 <= WindowCount(span)
         /\ span <= MaxRange * n + MaxRange => WindowCount(span) = n + 1
<1>. DEFINE whole == span \div MaxRange
            left  == span % MaxRange
            done  == MaxRange * n
<1>1. MaxRange \in Nat /\ done \in Nat /\ span > 0
  <2>1. MaxRange \in Nat
    BY RangeAssumption
  <2>2. done \in Nat
    BY <2>1
  <2>. HIDE DEF done
  <2>3. done < span
    BY DEF done
  <2>. QED
    BY <2>1, <2>2, <2>3
<1>2. /\ whole \in Nat /\ left \in 0 .. MaxRange - 1
      /\ span = MaxRange * whole + left
  BY <1>1, DivMod, QuotientIsNatural
<1>3. WindowCount(span) = whole + (IF left = 0 THEN 0 ELSE 1)
  BY <1>1 DEF WindowCount
<1>. HIDE DEF whole, left
<1>4. CASE span - done < MaxRange
  <2>1. span - done \in 0 .. MaxRange - 1 /\ span = MaxRange * n + (span - done) /\ span - done # 0
    <3>1. done < span /\ done = MaxRange * n
      OBVIOUS
    <3>. HIDE DEF done
    <3>. QED
      BY <1>1, <1>4, <3>1
  <2>. HIDE DEF done
  <2>2. whole = n /\ left = span - done
    BY <1>1, <2>1, DivUnique DEF whole, left
  <2>. QED
    BY <1>3, <2>1, <2>2
<1>5. CASE span - done = MaxRange
  <2>1. MaxRange * (n + 1) = done + MaxRange
    BY <1>1
  <2>. HIDE DEF done
  <2>2. span = MaxRange * (n + 1) + 0
    BY <1>1, <1>5, <2>1
  <2>3. 0 \in 0 .. MaxRange - 1 /\ n + 1 \in Int
    BY <1>1
  <2>4. whole = n + 1 /\ left = 0
    BY <1>1, <2>2, <2>3, DivUnique DEF whole, left
  <2>. QED
    BY <1>3, <2>4
<1>6. CASE span - done > MaxRange
  <2>. DEFINE cut == MaxRange * whole
  <2>1. whole >= n + 1
    <3>. SUFFICES ASSUME whole <= n
                  PROVE  FALSE
      BY <1>2
    <3>1. MaxRange * (n - whole) >= 0
      BY <1>1, <1>2
    <3>2. MaxRange * (n - whole) = done - cut /\ cut \in Int
      BY <1>1, <1>2
    <3>3. done - cut >= 0 /\ span = cut + left
      BY <1>2, <3>1, <3>2
    <3>. HIDE DEF done, cut
    <3>. QED
      BY <1>1, <1>2, <1>6, <3>2, <3>3
  <2>2. ~(span <= done + MaxRange)
    <3>. HIDE DEF done
    <3>. QED
      BY <1>1, <1>6
  <2>. QED
    BY <1>2, <1>3, <2>1, <2>2
<1>. QED
  <2>. HIDE DEF done
  <2>. QED
    BY <1>1, <1>4, <1>5, <1>6

(***************************************************************************)
(* A query under way was let in, and every window it asked for was a full  *)
(* one that left a rest.                                                   *)
(***************************************************************************)
Counted(c) ==
  /\ MaxRange > 0 => query[c].asked <= MaxWindows
  /\ result[c] = "ok" => query[c].asked = WindowCount(query[c].span)
  /\ pc[c] # "idle" =>
       /\ ~TooMany(query[c].span)
       /\ \/ /\ MaxRange = 0 \/ query[c].span = 0
             /\ query[c].asked = 0
          \/ /\ MaxRange > 0 /\ query[c].span > 0
             /\ query[c].lo = MaxRange * query[c].asked
             /\ query[c].lo < query[c].span

CountInv == \A c \in Callers : Counted(c)

(* A query that asks for no window keeps its count. *)
LEMMA AskingNothingCounts ==
  ASSUME NEW d \in Callers, Counted(d), query'[d] = query[d],
         pc'[d] # "idle" => pc[d] # "idle", result'[d] = "ok" => result[d] = "ok"
  PROVE  Counted(d)'
BY DEF Counted, TooMany, WindowCount

(* No step of one query starts another. *)
LEMMA OnlyACallStarts ==
  ASSUME Inductive,
         Tick \/ Shutdown \/ UNCHANGED vars \/ (\E c \in Callers : Step(c))
  PROVE  \A d \in Callers : pc'[d] # "idle" => pc[d] # "idle"
<1>. USE DEF Inductive
<1>1. ASSUME NEW c \in Callers, NEW places, Moves(c, places), pc[c] # "idle"
      PROVE  \A d \in Callers : pc'[d] # "idle" => pc[d] # "idle"
  BY <1>1 DEF Moves
<1>2. ASSUME NEW c \in Callers, NextWindow(c)
      PROVE  Moves(c, {"granted", "acquire"}) /\ pc[c] # "idle"
  BY <1>2, AcquiresMoves DEF NextWindow
<1>3. ASSUME NEW c \in Callers, NEW place, pc[c] # "idle", Keeps(c, place)
      PROVE  \A d \in Callers : pc'[d] # "idle" => pc[d] # "idle"
  BY <1>1, <1>3, KeepsMoves
<1>4. ASSUME NEW c \in Callers, NEW place, pc[c] \in InSlot, GivesBack(c, place)
      PROVE  \A d \in Callers : pc'[d] # "idle" => pc[d] # "idle"
  <2>1. pc[c] # "idle"
    BY <1>4 DEF InSlot
  <2>. QED
    BY <1>1, <1>4, <2>1, GivesBackMoves
<1>5. CASE Tick
  <2>1. CASE UNCHANGED pc
    BY <2>1
  <2>2. CASE tokenQueue # <<>> /\ pc' = [pc EXCEPT ![Head(tokenQueue)] = "request"]
    <3>1. Queued(tokenQueue, TokenWaiters)
      BY DEF LimiterInv
    <3>2. Head(tokenQueue) \in TokenWaiters
      BY <2>2, <3>1, QueueLosesHead
    <3>. QED
      BY <2>2, <3>2 DEF SemaphoreInv, TokenWaiters
  <2>. QED
    BY <1>5, <2>1, <2>2 DEF Tick
<1>6. ASSUME NEW c \in Callers, Answered(c) \/ Retryable(c) \/ Final(c)
      PROVE  \A d \in Callers : pc'[d] # "idle" => pc[d] # "idle"
  <2>1. pc[c] = "request"
    BY <1>6 DEF Answered, Retryable, Final
  <2>2. pc[c] # "idle" /\ pc[c] \in InSlot
    BY <2>1 DEF InSlot
  <2>3. \E place : Keeps(c, place) \/ GivesBack(c, place)
    BY <1>6 DEF Answered, Retryable, Final, GivesUp
  <2>. QED
    BY <1>3, <1>4, <2>2, <2>3
<1>7. ASSUME NEW c \in Callers, Cancelled(c)
      PROVE  \A d \in Callers : pc'[d] # "idle" => pc[d] # "idle"
  <2>1. CASE CancelAcquire(c)
    BY <1>3, <2>1 DEF CancelAcquire
  <2>2. CASE CancelSlot(c)
    BY <2>2 DEF CancelSlot, SemaphoreInv
  <2>3. CASE CancelToken(c)
    <3>1. PICK i \in 1 .. Len(tokenQueue) : tokenQueue[i] = c /\ GivesUp(c)
      BY <2>3 DEF CancelToken
    <3>2. Queued(tokenQueue, TokenWaiters)
      BY DEF LimiterInv
    <3>3. c \in TokenWaiters
      BY <3>1, <3>2, QueueLosesAny
    <3>. QED
      BY <1>4, <3>1, <3>3 DEF GivesUp, TokenWaiters, InSlot
  <2>4. CASE CancelPause(c)
    BY <1>4, <2>4 DEF CancelPause, GivesUp, InSlot
  <2>. QED
    BY <1>7, <2>1, <2>2, <2>3, <2>4 DEF Cancelled
<1>8. ASSUME NEW c \in Callers, Await(c) \/ Wake(c)
      PROVE  \A d \in Callers : pc'[d] # "idle" => pc[d] # "idle"
  BY <1>3, <1>8 DEF Await, Wake
<1>9. ASSUME NEW c \in Callers, Step(c)
      PROVE  \A d \in Callers : pc'[d] # "idle" => pc[d] # "idle"
  BY <1>1, <1>2, <1>6, <1>7, <1>8, <1>9 DEF Step
<1>10. CASE Shutdown \/ UNCHANGED vars
  BY <1>10 DEF Shutdown, vars, caller
<1>. QED
  BY <1>5, <1>9, <1>10

-------------------------------------------------------------------------------

(***************************************************************************)
(* The variables keep their types: at most one tick is buffered and at     *)
(* most Inflight slots are taken.                                          *)
(***************************************************************************)
THEOREM DruidTypeOK == Spec => []TypeOK
<1>1. Inductive => TypeOK
  BY DEF Inductive, SemaphoreInv, LimiterInv, QueryInv, Queued, TypeOK
<1>. QED
  BY <1>1, AlwaysInductive, PTL

(***************************************************************************)
(* No path of sql loses a slot, returns one twice or lets one lie idle     *)
(* before a waiter, for any number of goroutines and slots.                *)
(***************************************************************************)
THEOREM DruidSlotsAreHeld == Spec => []SlotsAreHeld
<1>1. Inductive => SlotsAreHeld
  BY DEF Inductive, SemaphoreInv
<1>. QED
  BY <1>1, AlwaysInductive, PTL

(* The rate limiter lets at most one request through between two ticks. *)
THEOREM DruidOnePerPeriod == Spec => []OnePerPeriod
<1>1. Inductive => OnePerPeriod
  BY DEF Inductive, LimiterInv
<1>. QED
  BY <1>1, AlwaysInductive, PTL

(***************************************************************************)
(* A query returns exactly the rows of its range, or an error that has a   *)
(* cause, for every range, cap and history of failures.                    *)
(***************************************************************************)
THEOREM DruidAnswerIsWhole == Spec => []AnswerIsWhole
<1>1. Inductive => AnswerIsWhole
  BY DEF Inductive, QueryInv, Answering, AnswerIsWhole
<1>. QED
  BY <1>1, AlwaysInductive, PTL

-------------------------------------------------------------------------------
(* The windows are counted *)

(* A query that is let in has asked for nothing yet. *)
LEMMA CallCounts ==
  ASSUME Inductive, CountInv, NEW c \in Callers, Call(c)
  PROVE  CountInv'
<1>1. PICK span \in Spans :
        /\ query' = [query EXCEPT ![c] = [span |-> span, lo |-> 0, got |-> {}, asked |-> 0]]
        /\ \/ /\ TooMany(span)
              /\ result' = [result EXCEPT ![c] = "error"]
              /\ Keeps(c, "idle")
           \/ /\ ~TooMany(span)
              /\ result' = [result EXCEPT ![c] = "none"]
              /\ Acquires(c)
  BY DEF Call
<1>2. span \in Nat /\ MaxRange \in Nat /\ MaxWindows \in Nat
  BY RangeAssumption
<1>3. /\ query'[c] = [span |-> span, lo |-> 0, got |-> {}, asked |-> 0]
      /\ \A d \in Callers \ {c} : query'[d] = query[d] /\ result'[d] = result[d]
      /\ result'[c] # "ok"
  BY <1>1 DEF Inductive, QueryInv
<1>4. \A d \in Callers \ {c} : pc'[d] # "idle" => pc[d] # "idle"
  BY <1>1, KeepsMoves, AcquiresMoves DEF Moves, Inductive
<1>5. Counted(c)'
  <2>1. pc'[c] # "idle" => ~TooMany(span)
    BY <1>1 DEF Keeps, Inductive, SemaphoreInv
  <2>2. query'[c].span = span /\ query'[c].lo = 0 /\ query'[c].asked = 0
    BY <1>3
  <2>3. MaxRange > 0 => MaxRange * 0 = 0
    BY <1>2
  <2>. QED
    BY <1>2, <1>3, <2>1, <2>2, <2>3 DEF Counted, TooMany, WindowCount
<1>6. ASSUME NEW d \in Callers, d # c
      PROVE  Counted(d)'
  BY <1>3, <1>4, <1>6, AskingNothingCounts DEF CountInv
<1>. QED
  BY <1>5, <1>6 DEF CountInv

(* An answered window is one of those that were counted. *)
LEMMA AnsweredCounts ==
  ASSUME Inductive, CountInv, NEW c \in Callers, Answered(c)
  PROVE  CountInv'
<1>. DEFINE q    == query[c]
            rows == Rows(q)
            last == NextStart(q) >= q.span
<1>1. /\ pc[c] = "request" /\ result[c] = "none"
      /\ q \in [span : Nat, lo : Nat, got : SUBSET Points, asked : Nat]
      /\ q.lo <= q.span
      /\ MaxRange \in Nat /\ MaxWindows \in Nat \ {0}
  BY RangeAssumption DEF Answered, Inductive, QueryInv, Answering
<1>2. \A d \in Callers : pc'[d] # "idle" => pc[d] # "idle"
  BY OnlyACallStarts DEF Step
<1>3. CASE UNCHANGED query /\ result' = [result EXCEPT ![c] = "error"]
  <2>1. \A d \in Callers : result'[d] = "ok" => result[d] = "ok"
    BY <1>3 DEF Inductive, QueryInv
  <2>. QED
    BY <1>2, <1>3, <2>1, AskingNothingCounts DEF CountInv
<1>4. CASE /\ query' = [query EXCEPT ![c].got = q.got \cup rows, ![c].lo = NextStart(q),
                                     ![c].asked = @ + 1]
           /\ result' = [result EXCEPT ![c] = IF last THEN "ok" ELSE @]
           /\ GivesBack(c, IF last THEN "idle" ELSE "between")
  <2>1. query'[c] = [q EXCEPT !.got = q.got \cup rows, !.lo = NextStart(q), !.asked = @ + 1]
    BY <1>4 DEF Inductive, QueryInv
  <2>2. /\ query'[c].span = q.span /\ query'[c].asked = q.asked + 1
        /\ query'[c].lo = NextStart(q)
    BY <1>1, <2>1
  <2>3. result'[c] = (IF last THEN "ok" ELSE "none")
    BY <1>1, <1>4 DEF Inductive, QueryInv
  <2>4. pc'[c] = (IF last THEN "idle" ELSE "between")
    <3>1. pc[c] \in InSlot
      BY <1>1 DEF InSlot
    <3>. QED
      BY <1>4, <3>1, GivesBackMoves DEF Moves, Inductive
  <2>5. q.span \in Nat /\ q.lo \in Nat /\ q.asked \in Nat
    BY <1>1
  <2>6. Counted(c)'
    <3>. DEFINE span == q.span
                n    == q.asked
                lo   == q.lo
    <3>1. /\ ~TooMany(span)
          /\ \/ (MaxRange = 0 \/ span = 0) /\ n = 0
             \/ MaxRange > 0 /\ span > 0 /\ lo = MaxRange * n /\ lo < span
      BY <1>1 DEF CountInv, Counted
    <3>2. NextStart(q) = (IF MaxRange = 0 \/ lo + MaxRange > span THEN span ELSE lo + MaxRange)
      BY DEF NextStart, End
    <3>. HIDE DEF q
    <3>. SUFFICES /\ MaxRange > 0 => n + 1 <= MaxWindows
                  /\ last => n + 1 = WindowCount(span)
                  /\ ~last => /\ MaxRange > 0 /\ span > 0
                              /\ NextStart(q) = MaxRange * (n + 1) /\ NextStart(q) < span
      <4>1. TooMany(query'[c].span) <=> TooMany(span)
        BY <2>2
      <4>. HIDE DEF last, span, n
      <4>2. query'[c].span = span /\ query'[c].asked = n + 1
        BY <2>2 DEF span, n
      <4>3. WindowCount(query'[c].span) = WindowCount(span)
        BY <4>2
      <4>4. MaxRange > 0 => query'[c].asked <= MaxWindows
        BY <4>2
      <4>5. result'[c] = "ok" => query'[c].asked = WindowCount(query'[c].span)
        BY <2>3, <4>2, <4>3
      <4>6. pc'[c] # "idle" =>
              /\ ~TooMany(query'[c].span)
              /\ MaxRange > 0 /\ query'[c].span > 0
              /\ query'[c].lo = MaxRange * query'[c].asked
              /\ query'[c].lo < query'[c].span
        BY <2>2, <2>4, <3>1, <4>1, <4>2
      <4>. QED
        BY <4>4, <4>5, <4>6 DEF Counted, TooMany, WindowCount
    <3>3. CASE (MaxRange = 0 \/ span = 0) /\ n = 0
      <4>1. NextStart(q) >= span
        BY <1>1, <2>5, <3>2, <3>3
      <4>2. WindowCount(span) = 1
        BY <3>3 DEF WindowCount
      <4>. QED
        BY <1>1, <3>3, <4>1, <4>2
    <3>4. CASE MaxRange > 0 /\ span > 0 /\ lo = MaxRange * n /\ lo < span
      <4>1. /\ WindowCount(span) \in Nat
            /\ n + 1 <= WindowCount(span)
            /\ span <= MaxRange * n + MaxRange => WindowCount(span) = n + 1
        BY <2>5, <3>4, OneMoreIsCounted
      <4>2. MaxRange * (n + 1) = MaxRange * n + MaxRange
        BY <1>1, <2>5
      <4>3. WindowCount(span) <= MaxWindows
        BY <1>1, <3>1, <3>4, <4>1 DEF TooMany
      <4>. DEFINE done == MaxRange * n
                  next == MaxRange * (n + 1)
                  count == WindowCount(span)
      <4>4. /\ lo = done /\ next = done + MaxRange /\ count \in Nat /\ n + 1 <= count
            /\ count <= MaxWindows
            /\ span <= done + MaxRange => count = n + 1
        BY <3>4, <4>1, <4>2, <4>3
      <4>. HIDE DEF done, next, count
      <4>. SUFFICES /\ n + 1 <= MaxWindows
                    /\ NextStart(q) >= span => n + 1 = count
                    /\ ~(NextStart(q) >= span) => NextStart(q) = next /\ NextStart(q) < span
        BY <3>4 DEF next, count
      <4>. QED
        BY <1>1, <2>5, <3>2, <3>4, <4>4
    <3>. QED
      BY <3>1, <3>3, <3>4
  <2>7. ASSUME NEW d \in Callers, d # c
        PROVE  Counted(d)'
    <3>1. query'[d] = query[d] /\ result'[d] = result[d]
      BY <1>4, <2>7 DEF Inductive, QueryInv
    <3>. QED
      BY <1>2, <3>1, AskingNothingCounts DEF CountInv
  <2>. QED
    BY <2>6, <2>7 DEF CountInv
<1>. QED
  BY <1>3, <1>4 DEF Answered

(* No other step asks for a window. *)
LEMMA NextCounts == Inductive /\ CountInv /\ [Next]_vars => CountInv'
<1>. SUFFICES ASSUME Inductive, CountInv, [Next]_vars
              PROVE  CountInv'
  OBVIOUS
<1>1. ASSUME UNCHANGED query, \A d \in Callers : result'[d] = "ok" => result[d] = "ok",
             \A d \in Callers : pc'[d] # "idle" => pc[d] # "idle"
      PROVE  CountInv'
  BY <1>1, AskingNothingCounts DEF CountInv
<1>2. ASSUME NEW c \in Callers, Call(c)
      PROVE  CountInv'
  BY <1>2, CallCounts
<1>3. ASSUME NEW c \in Callers, Step(c)
      PROVE  CountInv'
  <2>1. CASE Answered(c)
    BY <2>1, AnsweredCounts
  <2>2. CASE Fails(c)
    <3>1. UNCHANGED query /\ \A d \in Callers : result'[d] = "ok" => result[d] = "ok"
      BY <2>2 DEF Fails, Inductive, QueryInv
    <3>. QED
      BY <1>1, <1>3, <3>1, OnlyACallStarts
  <2>3. CASE UNCHANGED <<query, result>>
    BY <1>1, <1>3, <2>3, OnlyACallStarts
  <2>. QED
    BY <1>3, <2>1, <2>2, <2>3 DEF Step, NextWindow, Await, Retryable, Final, Wake, Cancelled
<1>4. CASE Tick \/ Shutdown \/ UNCHANGED vars
  <2>1. UNCHANGED <<query, result>>
    BY <1>4 DEF Tick, Shutdown, vars, caller
  <2>. QED
    BY <1>1, <1>4, <2>1, OnlyACallStarts
<1>. QED
  BY <1>2, <1>3, <1>4 DEF Next

(***************************************************************************)
(* A query is at most MaxWindows requests that are answered, and a whole   *)
(* answer took exactly the windows that windowCount had divided out, for   *)
(* every range and every DRUID_MAX_RANGE.                                  *)
(***************************************************************************)
THEOREM DruidWindowsAreCounted == Spec => []WindowsAreCounted
<1>1. Init => CountInv
  <2>. SUFFICES ASSUME Init, NEW c \in Callers
                PROVE  Counted(c)
    BY DEF CountInv
  <2>1. query[c].asked = 0 /\ result[c] = "none" /\ pc[c] = "idle"
    BY DEF Init
  <2>. QED
    BY <2>1, RangeAssumption DEF Counted
<1>2. CountInv => WindowsAreCounted
  BY DEF CountInv, Counted, WindowsAreCounted
<1>. QED
  BY <1>1, <1>2, NextCounts, AlwaysInductive, PTL DEF Spec
=============================================================================
