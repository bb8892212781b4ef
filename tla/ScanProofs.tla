----------------------------- MODULE ScanProofs -----------------------------
(***************************************************************************)
(* Proofs about the settings a worker starts with, and about the scan it   *)
(* runs under them, for every width of a duration, every default and every *)
(* Config that Validate accepts.                                           *)
(***************************************************************************)
EXTENDS Scan, BackoffProofs, TLAPS

(* A duration left unset, or below zero, is replaced by its positive default. *)
LEMMA OrDefaultIsPositive ==
  ASSUME NEW d \in Int, NEW default \in Int, default > 0
  PROVE  /\ OrDefault(d, default) \in Int /\ OrDefault(d, default) > 0
         /\ d > 0 => OrDefault(d, default) = d
         /\ d <= 0 => OrDefault(d, default) = default
  BY DEF OrDefault

(* The durations the queue and the membership depend on are numbers. *)
LEMMA FieldsAreIntegers ==
  ASSUME NEW c \in Config
  PROVE  /\ c.RetrainRetry \in Int /\ c.RetrainRetryMax \in Int /\ c.RetrainLease \in Int
         /\ c.WorkerTTL \in Int /\ c.Interval \in Int
         /\ MaxDuration \in Nat
         /\ DefaultRetrainRetry \in Int /\ DefaultRetrainRetry > 0
         /\ DefaultRetrainRetryMax \in Int /\ DefaultRetrainRetryMax > DefaultRetrainRetry
<1>1. Duration \subseteq Int /\ MaxDuration \in Nat
  BY MaxDurationAssumption DEF Duration, MinDuration
<1>2. /\ c.RetrainRetry \in Duration /\ c.RetrainRetryMax \in Duration
      /\ c.RetrainLease \in Duration /\ c.WorkerTTL \in Duration /\ c.Interval \in Duration
  BY DEF Config
<1>3. /\ DefaultRetrainRetry \in Int /\ DefaultRetrainRetry > 0
      /\ DefaultRetrainRetryMax \in Int /\ DefaultRetrainRetryMax > DefaultRetrainRetry
  BY <1>1, DefaultAssumption
<1>. QED
  BY <1>1, <1>2, <1>3

(* What normalized makes of the fields the queue and the membership read. *)
LEMMA NormalizedFields ==
  ASSUME NEW c \in Config
  PROVE  LET n == Normalized(c)
             filled == [c EXCEPT !.DruidTimeout = OrDefault(@, DefaultDruidTimeout),
                                 !.HashScanTTL = ScanTTLOf(c),
                                 !.ScanRange = OrDefault(@, Longer(Wrap(2 * c.Lookback), Day)),
                                 !.WorkerTTL = TTLOf(c),
                                 !.RetrainRetry = RetryBase(c),
                                 !.RetrainRetryMax = CapOf(c)]
         IN  /\ n.WorkerTTL = TTLOf(c) /\ n.Interval = c.Interval
             /\ n.RetrainRetry = RetryBase(c) /\ n.RetrainRetryMax = CapOf(c)
             /\ filled.RetrainRetry = RetryBase(c)
             /\ n.RetrainLease = OrDefault(c.RetrainLease, WorkLease(filled))
  BY DEF Normalized, Config

(* However many windows there are, the lease is a number. *)
LEMMA WorkIsInteger ==
  ASSUME NEW c, c.DruidMaxRange \in Int, c.Lookback \in Int, c.DruidTimeout \in Int
  PROVE  WrapAll(Slices(c) * c.DruidTimeout + Minute) \in Int
<1>1. MaxDuration \in Nat /\ MinDuration \in Int /\ 2 * (MaxDuration + 1) \in Nat \ {0}
  BY MaxDurationAssumption DEF MinDuration
<1>2. \A d \in Int : WrapAll(d) \in Int
  BY <1>1 DEF WrapAll
<1>3. \A a \in Int, b \in Nat \ {0} : Quotient(a, b) \in Int
  BY DEF Quotient
<1>4. Slices(c) \in Int
  <2>1. CASE c.DruidMaxRange > 0 /\ c.Lookback > 0
    <3>1. WrapAll(c.Lookback + c.DruidMaxRange - 1) \in Int /\ c.DruidMaxRange \in Nat \ {0}
      BY <1>2, <2>1
    <3>. QED
      BY <1>3, <2>1, <3>1 DEF Slices, Longer
  <2>2. CASE ~(c.DruidMaxRange > 0 /\ c.Lookback > 0)
    BY <2>2 DEF Slices
  <2>. QED
    BY <2>1, <2>2
<1>5. Minute \in Int
  BY UnitAssumption, <1>1
<1>. QED
  BY <1>2, <1>4, <1>5

(***************************************************************************)
(* What Validate accepts, normalized completes to settings on which the    *)
(* queue and the fleet can rely.                                           *)
(***************************************************************************)
LEMMA AcceptedServes == \A c \in Config : ServesQueueAndFleet(c)
<1>. SUFFICES ASSUME NEW c \in Config, Accepted(c)
              PROVE  LET n == Normalized(c)
                     IN  /\ n.RetrainLease >= 1
                         /\ n.WorkerTTL > n.Interval
                         /\ 2 * RetryBase(c) <= MaxDuration =>
                              1 <= n.RetrainRetry /\ n.RetrainRetry < n.RetrainRetryMax
  BY DEF ServesQueueAndFleet
<1>. DEFINE n == Normalized(c)
            filled == [c EXCEPT !.DruidTimeout = OrDefault(@, DefaultDruidTimeout),
                                !.HashScanTTL = ScanTTLOf(c),
                                !.ScanRange = OrDefault(@, Longer(Wrap(2 * c.Lookback), Day)),
                                !.WorkerTTL = TTLOf(c),
                                !.RetrainRetry = RetryBase(c),
                                !.RetrainRetryMax = CapOf(c)]
            base == RetryBase(c)
<1>1. base \in Int /\ base >= 1
  BY FieldsAreIntegers, OrDefaultIsPositive DEF RetryBase
<1>2. n.RetrainLease >= 1
  <2>1. filled.RetrainRetry = base /\ n.RetrainLease = OrDefault(c.RetrainLease, WorkLease(filled))
    BY NormalizedFields
  <2>2. RetryBase(filled) = base
    BY <1>1, <2>1, FieldsAreIntegers DEF RetryBase, OrDefault
  <2>3. WorkLease(filled) \in Int /\ WorkLease(filled) >= base
    <3>. DEFINE work == WrapAll(Slices(filled) * filled.DruidTimeout + Minute)
    <3>1. WorkLease(filled) = IF base > work THEN base ELSE work
      BY <2>2 DEF WorkLease, Longer
    <3>2. work \in Int
      <4>1. /\ filled.DruidMaxRange = c.DruidMaxRange /\ filled.Lookback = c.Lookback
            /\ filled.DruidTimeout = OrDefault(c.DruidTimeout, DefaultDruidTimeout)
        BY DEF Config
      <4>2. /\ c.DruidMaxRange \in Int /\ c.Lookback \in Int /\ c.DruidTimeout \in Int
            /\ DefaultDruidTimeout \in Int
        BY MaxDurationAssumption, DefaultAssumption DEF Config, Duration, MinDuration
      <4>3. filled.DruidTimeout \in Int
        BY <4>1, <4>2 DEF OrDefault
      <4>. HIDE DEF filled
      <4>. QED
        BY <4>1, <4>2, <4>3, WorkIsInteger
    <3>. HIDE DEF work, base
    <3>. QED
      BY <1>1, <3>1, <3>2
  <2>. DEFINE lease == WorkLease(filled)
  <2>4. c.RetrainLease \in Int
    BY FieldsAreIntegers
  <2>5. lease \in Int /\ lease >= 1
    <3>1. lease \in Int /\ lease >= base
      BY <2>3
    <3>. HIDE DEF lease, base
    <3>. QED
      BY <1>1, <3>1
  <2>6. n.RetrainLease = IF c.RetrainLease <= 0 THEN lease ELSE c.RetrainLease
    BY <2>1 DEF OrDefault
  <2>. HIDE DEF lease, n
  <2>. QED
    BY <2>4, <2>5, <2>6
<1>3. n.WorkerTTL > n.Interval
  BY NormalizedFields DEF Accepted
<1>4. ASSUME 2 * base <= MaxDuration
      PROVE  1 <= n.RetrainRetry /\ n.RetrainRetry < n.RetrainRetryMax
  <2>1. n.RetrainRetry = base /\ n.RetrainRetryMax = CapOf(c)
    BY NormalizedFields
  <2>2. CapOf(c) > base
    <3>. DEFINE cap == OrDefault(c.RetrainRetryMax, DefaultRetrainRetryMax)
    <3>1. cap \in Int
      BY FieldsAreIntegers, OrDefaultIsPositive
    <3>2. Wrap(2 * base) = 2 * base
      BY <1>1, <1>4, FieldsAreIntegers DEF Wrap
    <3>3. CapOf(c) = IF cap <= base THEN 2 * base ELSE cap
      BY <3>2 DEF CapOf
    <3>. HIDE DEF cap, base
    <3>. QED
      BY <1>1, <3>1, <3>3
  <2>. QED
    BY <1>1, <2>1, <2>2
<1>. QED
  BY <1>2, <1>3, <1>4

-------------------------------------------------------------------------------
(* The backoff of accepted settings *)

(***************************************************************************)
(* Whatever was left unset, the base is positive, and the cap is a         *)
(* duration above it unless twice the base is not representable (config.go *)
(* normalized).                                                            *)
(***************************************************************************)
LEMMA BackoffFields ==
  ASSUME NEW c \in Config
  PROVE  LET n == Normalized(c)
         IN  /\ n.RetrainRetry = RetryBase(c)
             /\ n.RetrainRetry \in Nat /\ n.RetrainRetry > 0
             /\ n.RetrainRetryMax \in Int /\ n.RetrainRetryMax <= MaxDuration
             /\ n.RetrainRetryMax > 0 => n.RetrainRetry < n.RetrainRetryMax
             /\ 2 * RetryBase(c) <= MaxDuration => n.RetrainRetryMax > 0
<1>. DEFINE base == RetryBase(c)
            cap == OrDefault(c.RetrainRetryMax, DefaultRetrainRetryMax)
<1>1. /\ c.RetrainRetry \in Duration /\ c.RetrainRetryMax \in Duration
      /\ MaxDuration \in Nat /\ Duration = -MaxDuration - 1 .. MaxDuration
  BY MaxDurationAssumption DEF Config, Duration, MinDuration
<1>2. /\ DefaultRetrainRetry \in 1 .. MaxDuration
      /\ DefaultRetrainRetryMax \in 1 .. MaxDuration
  BY <1>1, DefaultAssumption
<1>3. base \in 1 .. MaxDuration
  BY <1>1, <1>2 DEF RetryBase, OrDefault
<1>4. cap \in 1 .. MaxDuration
  BY <1>1, <1>2 DEF OrDefault
<1>5. CapOf(c) = IF cap <= base THEN Wrap(2 * base) ELSE cap
  BY DEF CapOf
<1>6. Normalized(c).RetrainRetry = base /\ Normalized(c).RetrainRetryMax = CapOf(c)
  BY NormalizedFields
<1>. HIDE DEF base, cap
<1>7. /\ CapOf(c) \in Int /\ CapOf(c) <= MaxDuration
      /\ CapOf(c) > 0 => base < CapOf(c)
      /\ 2 * base <= MaxDuration => CapOf(c) > 0
  BY <1>1, <1>3, <1>4, <1>5 DEF Wrap
<1>. QED
  BY <1>3, <1>6, <1>7 DEF base

(***************************************************************************)
(* The code's loop is the documented backoff, under every setting and at   *)
(* every attempt count (config.go retryDelay).                             *)
(***************************************************************************)
LEMMA AcceptedDoubles ==
  ASSUME NEW c \in Config, NEW attempt \in Int
  PROVE  DelayDoublesToCap(c, attempt)
<1>. DEFINE n == Normalized(c)
<1>1. SUFFICES ASSUME n.RetrainRetryMax > 0
               PROVE  Delay(n, attempt) = CappedDoubling(n.RetrainRetry, n.RetrainRetryMax, attempt)
  BY DEF DelayDoublesToCap
<1>2. /\ n.RetrainRetry \in Nat /\ n.RetrainRetryMax \in Nat /\ n.RetrainRetry > 0
      /\ n.RetrainRetry < n.RetrainRetryMax /\ n.RetrainRetryMax <= MaxDuration
  BY <1>1, BackoffFields
<1>. HIDE DEF n
<1>. QED
  BY <1>2, DelayIsCappedDoublingOf DEF Delay

(***************************************************************************)
(* A capped doubling never comes nearer, and moves away below the cap.     *)
(***************************************************************************)
LEMMA CappedDoublingSpacesOut ==
  ASSUME NEW base \in Nat, NEW max \in Nat, base > 0, base < max, NEW attempt \in Nat \ {0}
  PROVE  LET this == CappedDoubling(base, max, attempt)
             next == CappedDoubling(base, max, attempt + 1)
         IN  this > 0 /\ next >= this /\ (this < max => next > this)
<1>. DEFINE full == base * PowerOfTwo[attempt - 1]
            more == base * PowerOfTwo[attempt]
<1>1. PowerOfTwo[attempt - 1] \in Nat \ {0} /\ PowerOfTwo[attempt] = 2 * PowerOfTwo[attempt - 1]
  <2>1. attempt - 1 \in Nat /\ (attempt - 1) + 1 = attempt
    OBVIOUS
  <2>. QED
    BY <2>1, PowerOfTwoDoubles
<1>2. full \in Nat /\ full > 0 /\ more = 2 * full
  <2>1. \A x \in Nat \ {0} : base * x \in Nat /\ base * x > 0 /\ base * (2 * x) = 2 * (base * x)
    OBVIOUS
  <2>. QED
    BY <1>1, <2>1
<1>3. /\ CappedDoubling(base, max, attempt) = IF full < max THEN full ELSE max
      /\ CappedDoubling(base, max, attempt + 1) = IF more < max THEN more ELSE max
  <2>1. /\ (IF attempt < 1 THEN 0 ELSE attempt - 1) = attempt - 1
        /\ (IF attempt + 1 < 1 THEN 0 ELSE (attempt + 1) - 1) = attempt
    OBVIOUS
  <2>. QED
    BY <2>1 DEF CappedDoubling
<1>. HIDE DEF full, more
<1>. QED
  BY <1>2, <1>3

(* Under settings Validate accepts, a further failure never retries sooner. *)
LEMMA AcceptedSpacesOut ==
  ASSUME NEW c \in Config, NEW attempt \in Nat \ {0}
  PROVE  DelaySpacesOut(c, attempt)
<1>. DEFINE n == Normalized(c)
<1>1. SUFFICES ASSUME 2 * RetryBase(c) <= MaxDuration
               PROVE  /\ Delay(n, attempt) > 0
                      /\ Delay(n, attempt + 1) >= Delay(n, attempt)
                      /\ Delay(n, attempt) < n.RetrainRetryMax =>
                           Delay(n, attempt + 1) > Delay(n, attempt)
  BY DEF DelaySpacesOut
<1>2. /\ n.RetrainRetry \in Nat /\ n.RetrainRetryMax \in Nat /\ n.RetrainRetry > 0
      /\ n.RetrainRetry < n.RetrainRetryMax /\ n.RetrainRetryMax <= MaxDuration
  BY <1>1, BackoffFields
<1>. HIDE DEF n
<1>3. \A i \in Int : Delay(n, i) = CappedDoubling(n.RetrainRetry, n.RetrainRetryMax, i)
  BY <1>2, DelayIsCappedDoublingOf DEF Delay
<1>4. /\ Delay(n, attempt) = CappedDoubling(n.RetrainRetry, n.RetrainRetryMax, attempt)
      /\ Delay(n, attempt + 1) = CappedDoubling(n.RetrainRetry, n.RetrainRetryMax, attempt + 1)
  BY <1>3
<1>. QED
  BY <1>2, <1>4, CappedDoublingSpacesOut

-------------------------------------------------------------------------------
(* The lease that is derived from the work *)

(* Rounding a quotient up, by adding the divisor less one or by the remainder. *)
LEMMA CeilingIsRoundedSum ==
  ASSUME NEW a \in Nat, NEW b \in Nat, b > 0
  PROVE  (a + b - 1) \div b = a \div b + (IF a % b = 0 THEN 0 ELSE 1)
<1>. DEFINE q == a \div b
            r == a % b
            bq == b * q
<1>1. q \in Int /\ r \in 0 .. b - 1 /\ bq \in Int /\ a = bq + r
  BY DivMod
<1>2. CASE r = 0
  <2>1. a + b - 1 = b * q + (b - 1)
    BY <1>1, <1>2
  <2>2. b - 1 \in 0 .. b - 1 /\ a + b - 1 \in Int
    OBVIOUS
  <2>. HIDE DEF q, r
  <2>3. (a + b - 1) \div b = q
    BY <1>1, <2>1, <2>2, DivUnique
  <2>. QED
    BY <1>1, <1>2, <2>3 DEF q, r
<1>3. CASE r # 0
  <2>1. b * (q + 1) = bq + b
    BY <1>1
  <2>2. a + b - 1 = b * (q + 1) + (r - 1)
    <3>. HIDE DEF q, r, bq
    <3>. QED
      BY <1>1, <2>1
  <2>3. r - 1 \in 0 .. b - 1 /\ q + 1 \in Int /\ a + b - 1 \in Int
    <3>. HIDE DEF q, r, bq
    <3>. QED
      BY <1>1, <1>3
  <2>. HIDE DEF q, r
  <2>4. (a + b - 1) \div b = q + 1
    BY <2>2, <2>3, DivUnique
  <2>. QED
    BY <1>1, <1>3, <2>4 DEF q, r
<1>. QED
  BY <1>2, <1>3

(* A value in range is itself, one above it comes out below zero. *)
LEMMA WrapAllOfSmall ==
  ASSUME NEW d \in Nat
  PROVE  /\ d <= MaxDuration => WrapAll(d) = d
         /\ d > MaxDuration /\ d <= 2 * MaxDuration => WrapAll(d) = d - 2 * (MaxDuration + 1)
<1>. DEFINE width == 2 * (MaxDuration + 1)
            offset == d + MaxDuration + 1
<1>1. MaxDuration \in Nat /\ width \in Nat /\ width > 0 /\ offset \in Int
  BY MaxDurationAssumption
<1>2. WrapAll(d) = (offset % width) + (-MaxDuration - 1)
  BY <1>1 DEF WrapAll, MinDuration
<1>3. CASE d <= MaxDuration
  <2>1. offset \in 0 .. width - 1 /\ offset = width * 0 + offset
    BY <1>1, <1>3
  <2>. HIDE DEF offset, width
  <2>2. offset % width = offset
    BY <1>1, <2>1, DivUnique
  <2>. QED
    BY <1>1, <1>2, <1>3, <2>2 DEF offset
<1>4. CASE d > MaxDuration /\ d <= 2 * MaxDuration
  <2>1. offset - width \in 0 .. width - 1 /\ offset = width * 1 + (offset - width)
    BY <1>1, <1>4
  <2>. HIDE DEF offset, width
  <2>2. offset % width = offset - width
    BY <1>1, <2>1, DivUnique
  <2>. QED
    BY <1>1, <1>2, <1>4, <2>2 DEF offset, width
<1>. QED
  BY <1>1, <1>3, <1>4

(***************************************************************************)
(* The code's count of windows is the number a LOOKBACK is cut into: where *)
(* rounding it up overflows, one window is enough (config.go workLease).   *)
(***************************************************************************)
LEMMA SlicesAreWindows ==
  ASSUME NEW c, NEW lookback \in Nat, NEW range \in Nat,
         c.Lookback = lookback, c.DruidMaxRange = range,
         lookback > 0, 2 * lookback <= MaxDuration, range <= MaxDuration
  PROVE  Slices(c) = Windows(c) /\ Windows(c) \in Nat
<1>. DEFINE sum == lookback + range - 1
            q == lookback \div range
            r == lookback % range
            rq == range * q
<1>1. CASE range = 0
  BY <1>1 DEF Slices, Windows
<1>2. CASE range > 0
  <2>1. q \in Int /\ r \in 0 .. range - 1 /\ lookback = rq + r /\ rq \in Int
    BY <1>2, DivMod
  <2>2. q >= 0
    BY <1>2, QuotientIsNatural
  <2>3. Windows(c) = q + (IF r = 0 THEN 0 ELSE 1)
    BY <1>2 DEF Windows
  <2>4. Windows(c) >= 1 /\ Windows(c) \in Nat
    <3>1. q = 0 => r # 0
      <4>1. q = 0 => rq = 0
        OBVIOUS
      <4>. HIDE DEF q, r, rq
      <4>. QED
        BY <2>1, <4>1
    <3>. HIDE DEF q, r
    <3>. QED
      BY <2>1, <2>2, <2>3, <3>1
  <2>5. Slices(c) = Longer(1, Quotient(WrapAll(sum), range))
    BY <1>2 DEF Slices
  <2>6. sum \in Nat /\ MaxDuration \in Nat
    BY <1>2, MaxDurationAssumption
  <2>7. CASE sum <= MaxDuration
    <3>1. WrapAll(sum) = sum
      BY <2>6, <2>7, WrapAllOfSmall
    <3>2. Quotient(sum, range) = sum \div range
      BY <2>6 DEF Quotient
    <3>3. sum \div range = Windows(c)
      BY <1>2, <2>3, CeilingIsRoundedSum
    <3>. HIDE DEF sum
    <3>. QED
      BY <2>4, <2>5, <3>1, <3>2, <3>3 DEF Longer
  <2>8. CASE sum > MaxDuration
    <3>1. sum <= 2 * MaxDuration /\ range >= lookback
      BY <2>6, <2>8
    <3>2. Windows(c) = 1
      <4>1. CASE range = lookback
        <5>1. lookback = range * 1 + 0 /\ 0 \in 0 .. range - 1
          BY <1>2, <4>1
        <5>2. q = 1 /\ r = 0
          BY <1>2, <5>1, DivUnique
        <5>. HIDE DEF q, r
        <5>. QED
          BY <2>3, <5>2
      <4>2. CASE range > lookback
        <5>1. lookback = range * 0 + lookback /\ lookback \in 0 .. range - 1
          BY <1>2, <4>2
        <5>2. q = 0 /\ r = lookback
          BY <1>2, <5>1, DivUnique
        <5>. HIDE DEF q, r
        <5>. QED
          BY <2>3, <5>2
      <4>. QED
        BY <3>1, <4>1, <4>2
    <3>3. WrapAll(sum) = sum - 2 * (MaxDuration + 1)
      BY <2>6, <2>8, <3>1, WrapAllOfSmall
    <3>. DEFINE wrapped == WrapAll(sum)
                back == (-wrapped) \div range
    <3>4. wrapped \in Int /\ wrapped < 0 /\ -wrapped \in Nat
      BY <2>6, <3>1, <3>3
    <3>. HIDE DEF wrapped
    <3>5. back \in Int /\ back >= 0
      BY <1>2, <3>4, QuotientIsNatural
    <3>6. Quotient(wrapped, range) = -back
      BY <3>4 DEF Quotient
    <3>. HIDE DEF back
    <3>7. Longer(1, Quotient(wrapped, range)) = 1
      BY <3>5, <3>6 DEF Longer
    <3>. QED
      BY <2>5, <3>2, <3>7 DEF wrapped
  <2>. QED
    BY <2>4, <2>6, <2>7, <2>8
<1>. QED
  BY <1>1, <1>2

(***************************************************************************)
(* A derived lease covers a timeout for every window of a LOOKBACK         *)
(* (config.go workLease).                                                  *)
(***************************************************************************)
LEMMA AcceptedCoversWindows ==
  ASSUME NEW c \in Config
  PROVE  LeaseCoversWindows(c)
<1>. DEFINE timeout == OrDefault(c.DruidTimeout, DefaultDruidTimeout)
            work == Windows(c) * timeout + Minute
            filled == [c EXCEPT !.DruidTimeout = OrDefault(@, DefaultDruidTimeout),
                                !.HashScanTTL = ScanTTLOf(c),
                                !.ScanRange = OrDefault(@, Longer(Wrap(2 * c.Lookback), Day)),
                                !.WorkerTTL = TTLOf(c),
                                !.RetrainRetry = RetryBase(c),
                                !.RetrainRetryMax = CapOf(c)]
<1>1. Normalized(c).DruidTimeout = timeout
  BY DEF Normalized, Config
<1>2. SUFFICES ASSUME Accepted(c), c.RetrainLease = 0, 2 * c.Lookback <= MaxDuration,
                      work <= MaxDuration
               PROVE  Normalized(c).RetrainLease >= work
  BY <1>1 DEF LeaseCoversWindows
<1>3. /\ c.Lookback \in Int /\ c.DruidMaxRange \in Int /\ c.DruidTimeout \in Int
      /\ c.DruidMaxRange <= MaxDuration
      /\ MaxDuration \in Nat /\ Minute \in Nat /\ Minute > 0
      /\ DefaultDruidTimeout \in Nat /\ DefaultDruidTimeout > 0
  BY MaxDurationAssumption, UnitAssumption, DefaultAssumption DEF Config, Duration, MinDuration
<1>4. timeout \in Nat /\ timeout > 0
  BY <1>3 DEF OrDefault
<1>5. c.Lookback \in Nat /\ c.Lookback > 0 /\ c.DruidMaxRange \in Nat
  BY <1>2, <1>3 DEF Accepted
<1>6. /\ filled.Lookback = c.Lookback /\ filled.DruidMaxRange = c.DruidMaxRange
      /\ filled.DruidTimeout = timeout
  BY DEF Config
<1>7. Normalized(c).RetrainLease = OrDefault(c.RetrainLease, WorkLease(filled))
  BY NormalizedFields
<1>. HIDE DEF filled, timeout
<1>8. Slices(filled) = Windows(c) /\ Windows(c) \in Nat
  <2>1. Slices(filled) = Windows(filled) /\ Windows(filled) \in Nat
    BY <1>2, <1>3, <1>5, <1>6, SlicesAreWindows
  <2>2. Windows(filled) = Windows(c)
    BY <1>6 DEF Windows
  <2>. QED
    BY <2>1, <2>2
<1>9. work \in Nat
  <2>1. Windows(c) * timeout \in Nat
    BY <1>4, <1>8
  <2>. QED
    BY <1>3, <2>1
<1>10. WrapAll(Slices(filled) * filled.DruidTimeout + Minute) = work
  BY <1>2, <1>6, <1>8, <1>9, WrapAllOfSmall
<1>11. RetryBase(filled) \in Int
  <2>1. filled.RetrainRetry = RetryBase(c)
    BY NormalizedFields DEF filled
  <2>2. RetryBase(c) \in Int
    BY FieldsAreIntegers, OrDefaultIsPositive DEF RetryBase
  <2>3. DefaultRetrainRetry \in Int
    BY FieldsAreIntegers
  <2>. QED
    BY <2>1, <2>2, <2>3 DEF RetryBase, OrDefault
<1>. HIDE DEF work
<1>12. WorkLease(filled) \in Int /\ WorkLease(filled) >= work
  BY <1>9, <1>10, <1>11 DEF WorkLease, Longer
<1>. QED
  BY <1>2, <1>7, <1>12 DEF OrDefault

-------------------------------------------------------------------------------
(* The settings a worker starts with *)

(***************************************************************************)
(* A worker that has not started still has the settings it was given.      *)
(***************************************************************************)
LEMMA SettingsAreGiven == Spec => [](~up => cfg \in Config)
<1>. DEFINE Inv == up \in BOOLEAN /\ (~up => cfg \in Config)
<1>1. Init => Inv
  BY WatchedAssumption DEF Init
<1>2. Inv /\ [Next]_vars => Inv'
  BY DEF Next, vars, Start, Tick, Restart, Pass, Stops
<1>. QED
  BY <1>1, <1>2, PTL DEF Spec

(***************************************************************************)
(* A worker starts only on settings that serve its other parts, whatever   *)
(* was left unset.                                                         *)
(***************************************************************************)
THEOREM ScanSettingsServe == Spec => []SettingsServe
<1>1. (~up => cfg \in Config) => SettingsServe
  BY AcceptedServes DEF SettingsServe
<1>. QED
  BY <1>1, SettingsAreGiven, PTL

(***************************************************************************)
(* Under every setting a worker starts with, a row's retry is the base     *)
(* doubled once per further failure and capped, at every failure count and *)
(* every width of a duration (config.go retryDelay).                       *)
(***************************************************************************)
THEOREM ScanDelayDoubles == Spec => []DelayIsCappedDoubling
<1>1. (~up => cfg \in Config) => DelayIsCappedDoubling
  <2>1. 0 .. MaxFailures \subseteq Int
    OBVIOUS
  <2>. QED
    BY <2>1, AcceptedDoubles DEF DelayIsCappedDoubling
<1>. QED
  BY <1>1, SettingsAreGiven, PTL

(***************************************************************************)
(* The retries of a row space out until the cap: no failure count turns    *)
(* the backoff into a hot loop (config.go retryDelay).                     *)
(***************************************************************************)
THEOREM ScanBackoffSpacesOut == Spec => []BackoffSpacesOut
<1>1. (~up => cfg \in Config) => BackoffSpacesOut
  <2>1. 1 .. MaxFailures \subseteq Nat \ {0}
    OBVIOUS
  <2>. QED
    BY <2>1, AcceptedSpacesOut DEF BackoffSpacesOut
<1>. QED
  BY <1>1, SettingsAreGiven, PTL

(***************************************************************************)
(* The lease a worker derives covers the Druid timeouts of everything one  *)
(* claim does (config.go workLease).                                       *)
(***************************************************************************)
THEOREM ScanLeaseCoversWork == Spec => []LeaseCoversWork
<1>1. (~up => cfg \in Config) => LeaseCoversWork
  BY AcceptedCoversWindows DEF LeaseCoversWork
<1>. QED
  BY <1>1, SettingsAreGiven, PTL

-------------------------------------------------------------------------------
(* A scan and its windows *)

(***************************************************************************)
(* What Validate and normalized leave of the settings a tick is judged by. *)
(***************************************************************************)
SettingsFit ==
  /\ cfg.ScanRange \in 1 .. Horizon /\ cfg.HashScanTTL \in 1 .. Horizon
  /\ cfg.Lookback \in Nat /\ cfg.Interval \in Nat /\ cfg.Lookback >= Minute
  /\ cfg.DruidMaxRange \in Nat
  /\ cfg.StaleAfter \in Nat /\ cfg.StaleAfter <= Horizon
  /\ cfg.StaleAfter > 0 => cfg.StaleAfter >= Wrap(cfg.HashScanTTL + cfg.Interval)

(* Where the sums are representable, Validate has compared the true ones. *)
LEMMA RoomyAddsUp ==
  ASSUME SettingsFit, Roomy
  PROVE  /\ cfg.Interval >= Minute
         /\ cfg.ScanRange >= cfg.Lookback + 2 * cfg.Interval
         /\ cfg.StaleAfter > 0 => cfg.StaleAfter >= cfg.HashScanTTL + cfg.Interval
<1>1. MaxDuration \in Nat /\ cfg.Lookback \in Nat /\ cfg.Interval \in Nat /\ cfg.HashScanTTL \in Nat
  BY MaxDurationAssumption DEF SettingsFit
<1>2. /\ cfg.Lookback + 2 * cfg.Interval <= MaxDuration
      /\ cfg.HashScanTTL + cfg.Interval <= MaxDuration
  BY DEF Roomy
<1>3. ScanSlack(cfg) = cfg.Lookback + 2 * cfg.Interval
  <2>1. Wrap(2 * cfg.Interval) = 2 * cfg.Interval
    BY <1>1, <1>2 DEF Wrap
  <2>. QED
    BY <1>1, <1>2, <2>1 DEF ScanSlack, Wrap
<1>4. Wrap(cfg.HashScanTTL + cfg.Interval) = cfg.HashScanTTL + cfg.Interval
  BY <1>1, <1>2 DEF Wrap
<1>. QED
  BY <1>3, <1>4 DEF Roomy, SettingsFit

(* The earliest point of a window is the one of greatest age. *)
LEMMA EarliestIsGreatest ==
  ASSUME NEW W, W \subseteq 1 .. Horizon, W # {}
  PROVE  Earliest(W) \in W /\ \A q \in W : q <= Earliest(W)
<1>1. Horizon \in Nat /\ W \subseteq 0 .. Horizon
  BY HorizonAssumption
<1>2. \E p \in W : \A q \in W : q <= p
  BY <1>1, GreatestExists
<1>. QED
  BY <1>2 DEF Earliest

(* The latest point of a window is the one of least age. *)
LEMMA LatestIsLeast ==
  ASSUME NEW W, W \subseteq 1 .. Horizon, W # {}
  PROVE  Latest(W) \in W /\ \A q \in W : Latest(W) <= q
<1>1. Horizon \in Nat /\ W \subseteq Nat
  BY HorizonAssumption
<1>2. \E p \in W : \A q \in W : p <= q
  BY <1>1, LeastExists
<1>. QED
  BY <1>2 DEF Latest

(***************************************************************************)
(* The windows of a scan hold points, and every point of the scanned range *)
(* is in one of them (druid.go windows: consecutive half-open windows).    *)
(***************************************************************************)
LEMMA WindowsCoverRange ==
  ASSUME SettingsFit, points \subseteq 1 .. Horizon
  PROVE  /\ \A W \in WindowsOfScan : W # {} /\ W \subseteq points
         /\ \A p \in points : p <= cfg.ScanRange => \E W \in WindowsOfScan : p \in W
<1>1. Width \in Nat /\ Width > 0 /\ cfg.ScanRange \in Nat /\ cfg.ScanRange > 0 /\ Horizon \in Nat
  BY HorizonAssumption DEF SettingsFit, Width
<1>2. ASSUME NEW W \in WindowsOfScan PROVE W # {} /\ W \subseteq points
  BY DEF WindowsOfScan
<1>3. ASSUME NEW p \in points, p <= cfg.ScanRange PROVE \E W \in WindowsOfScan : p \in W
  <2>. DEFINE behind == cfg.ScanRange - p
              i == behind \div Width
              last == (cfg.ScanRange - 1) \div Width
              hi == cfg.ScanRange - i * Width
              W == {x \in points : x <= hi /\ x > hi - Width /\ x > 0}
  <2>1. p \in Nat /\ p >= 1 /\ behind \in Nat /\ cfg.ScanRange - 1 \in Nat
    BY <1>1, <1>3
  <2>2. i \in Nat /\ last \in Nat
    BY <1>1, <2>1, QuotientIsNatural
  <2>3. behind = Width * i + (behind % Width) /\ behind % Width \in 0 .. Width - 1
    BY <1>1, <2>1, DivMod
  <2>4. /\ cfg.ScanRange - 1 = Width * last + ((cfg.ScanRange - 1) % Width)
        /\ (cfg.ScanRange - 1) % Width \in 0 .. Width - 1
    BY <1>1, <2>1, DivMod
  <2>5. Width * i \in Nat /\ Width * last \in Nat /\ i * Width = Width * i
    <3>. HIDE DEF i, last
    <3>. QED
      BY <1>1, <2>2
  <2>6. i <= last
    <3>1. CASE i >= last + 1
      <4>1. Width * (i - last - 1) >= 0
        <5>. HIDE DEF i, last
        <5>. QED
          BY <1>1, <2>2, <3>1
      <4>2. Width * (i - last - 1) = Width * i - Width * last - Width
        <5>. HIDE DEF i, last
        <5>. QED
          BY <1>1, <2>2
      <4>. DEFINE wi == Width * i
                  wl == Width * last
      <4>3. wi - wl - Width >= 0 /\ wi \in Nat /\ wl \in Nat
        BY <2>5, <4>1, <4>2
      <4>. HIDE DEF i, last, wi, wl
      <4>4. behind >= wi /\ cfg.ScanRange - 1 < wl + Width
        BY <1>1, <2>1, <2>3, <2>4, <4>3 DEF wi, wl
      <4>. QED
        BY <1>1, <2>1, <4>3, <4>4
    <3>. HIDE DEF i, last
    <3>. QED
      BY <2>2, <3>1
  <2>7. p <= hi /\ p > hi - Width
    <3>. DEFINE wi == i * Width
    <3>1. behind = wi + (behind % Width) /\ wi \in Nat /\ behind % Width \in 0 .. Width - 1
      BY <2>3, <2>5
    <3>2. hi = cfg.ScanRange - wi
      OBVIOUS
    <3>. HIDE DEF i, wi, hi
    <3>3. wi <= behind /\ behind < wi + Width
      BY <1>1, <2>1, <3>1
    <3>. QED
      BY <1>1, <2>1, <3>1, <3>2, <3>3
  <2>8. p \in W
    BY <2>1, <2>7
  <2>9. W \in WindowsOfScan
    <3>1. i \in 0 .. last
      <4>. HIDE DEF i, last
      <4>. QED
        BY <2>2, <2>6
    <3>2. hi \in {cfg.ScanRange - j * Width : j \in 0 .. last}
      BY <3>1
    <3>. HIDE DEF i, hi
    <3>3. W \in {{x \in points : x <= h /\ x > h - Width /\ x > 0} :
                   h \in {cfg.ScanRange - j * Width : j \in 0 .. last}}
      BY <3>2
    <3>. QED
      BY <2>8, <3>3 DEF WindowsOfScan
  <2>. QED
    BY <2>8, <2>9
<1>. QED
  BY <1>2, <1>3

(***************************************************************************)
(* What Hashes merges out of the windows are the first and the last point  *)
(* of them all (druid.go Hashes).                                          *)
(***************************************************************************)
LEMMA MergedExtent ==
  ASSUME SettingsFit, points \subseteq 1 .. Horizon, WindowsOfScan # {}
  PROVE  /\ FirstOf(WindowsOfScan) \in points /\ LastOf(WindowsOfScan) \in points
         /\ \A W \in WindowsOfScan : \A p \in W :
              p <= FirstOf(WindowsOfScan) /\ LastOf(WindowsOfScan) <= p
<1>. DEFINE windows == WindowsOfScan
            firsts == {Earliest(W) : W \in windows}
            lasts == {Latest(W) : W \in windows}
<1>1. \A W \in windows : W # {} /\ W \subseteq points /\ W \subseteq 1 .. Horizon
  BY WindowsCoverRange
<1>. HIDE DEF windows
<1>2. \A W \in windows : Earliest(W) \in W /\ \A q \in W : q <= Earliest(W)
  BY <1>1, EarliestIsGreatest
<1>3. \A W \in windows : Latest(W) \in W /\ \A q \in W : Latest(W) <= q
  BY <1>1, LatestIsLeast
<1>4. firsts \subseteq points /\ lasts \subseteq points /\ firsts # {} /\ lasts # {}
  BY <1>1, <1>2, <1>3 DEF windows
<1>5. firsts \subseteq 1 .. Horizon /\ lasts \subseteq 1 .. Horizon
  BY <1>4
<1>6. FirstOf(windows) \in firsts /\ \A q \in firsts : q <= FirstOf(windows)
  <2>. HIDE DEF firsts
  <2>1. Earliest(firsts) \in firsts /\ \A q \in firsts : q <= Earliest(firsts)
    BY <1>4, <1>5, EarliestIsGreatest
  <2>. QED
    BY <2>1 DEF FirstOf, firsts
<1>7. LastOf(windows) \in lasts /\ \A q \in lasts : LastOf(windows) <= q
  <2>. HIDE DEF lasts
  <2>1. Latest(lasts) \in lasts /\ \A q \in lasts : Latest(lasts) <= q
    BY <1>4, <1>5, LatestIsLeast
  <2>. QED
    BY <2>1 DEF LastOf, lasts
<1>8. ASSUME NEW W \in windows, NEW p \in W
      PROVE  p <= FirstOf(windows) /\ LastOf(windows) <= p
  <2>1. Earliest(W) \in firsts /\ Latest(W) \in lasts
    OBVIOUS
  <2>2. p <= Earliest(W) /\ Latest(W) <= p
    BY <1>2, <1>3
  <2>3. Earliest(W) <= FirstOf(windows) /\ LastOf(windows) <= Latest(W)
    BY <1>6, <1>7, <2>1
  <2>4. /\ p \in Int /\ Earliest(W) \in Int /\ Latest(W) \in Int
        /\ FirstOf(windows) \in Int /\ LastOf(windows) \in Int
    BY <1>1, <1>5, <1>6, <1>7, <2>1
  <2>. HIDE DEF firsts, lasts
  <2>. QED
    BY <2>2, <2>3, <2>4
<1>. QED
  BY <1>4, <1>6, <1>7, <1>8 DEF windows

(***************************************************************************)
(* A scan of a metric that reported every minute of the range finds it,    *)
(* from LOOKBACK ago to the last minute (publisher.go readyKeys).          *)
(***************************************************************************)
LEMMA SteadyScanIsLong ==
  ASSUME SettingsFit, Roomy, points \subseteq 1 .. Horizon, Steady
  PROVE  /\ WindowsOfScan # {}
         /\ FirstOf(WindowsOfScan) - LastOf(WindowsOfScan) >= cfg.Lookback
         /\ LastOf(WindowsOfScan) <= Minute
<1>1. /\ Minute \in Nat /\ Minute > 0 /\ cfg.ScanRange \in Nat /\ cfg.Lookback \in Nat
      /\ cfg.Interval \in Nat /\ points \subseteq Nat
  BY UnitAssumption, MaxDurationAssumption, HorizonAssumption DEF SettingsFit
<1>2. cfg.Interval >= Minute /\ cfg.ScanRange >= cfg.Lookback + 2 * cfg.Interval
  BY RoomyAddsUp
<1>3. cfg.ScanRange - Minute \in Nat
  BY <1>1, <1>2
<1>4. PICK late \in points : 0 < late /\ late <= 0 + Minute
  BY <1>3 DEF Steady
<1>5. PICK early \in points :
        cfg.ScanRange - Minute < early /\ early <= (cfg.ScanRange - Minute) + Minute
  BY <1>3 DEF Steady
<1>6. late \in Nat /\ early \in Nat /\ late <= cfg.ScanRange /\ early <= cfg.ScanRange
  BY <1>1, <1>2, <1>4, <1>5
<1>7. /\ \E W \in WindowsOfScan : late \in W
      /\ \E W \in WindowsOfScan : early \in W
  BY <1>4, <1>5, <1>6, WindowsCoverRange
<1>8. /\ FirstOf(WindowsOfScan) \in points /\ LastOf(WindowsOfScan) \in points
      /\ early <= FirstOf(WindowsOfScan) /\ LastOf(WindowsOfScan) <= late
  BY <1>7, MergedExtent
<1>9. FirstOf(WindowsOfScan) \in Nat /\ LastOf(WindowsOfScan) \in Nat
  BY <1>1, <1>8
<1>. QED
  BY <1>1, <1>2, <1>4, <1>5, <1>6, <1>7, <1>8, <1>9

-------------------------------------------------------------------------------
(* What the cache is worth *)

Cache == [ ok : BOOLEAN, age : 0 .. Horizon, found : BOOLEAN, last : Nat, length : Int,
           empty : BOOLEAN, steady : BOOLEAN ]

(***************************************************************************)
(* A cache that was filled while the metric was steady still has it as     *)
(* long as LOOKBACK, with a last point hardly older than the scan itself.  *)
(***************************************************************************)
StaysAlive(c) ==
  c.ok /\ c.steady /\ ~c.empty /\ Roomy =>
    /\ c.found
    /\ c.length >= cfg.Lookback
    /\ c.age < Horizon => c.last <= c.age + Minute

(***************************************************************************)
(* What every step keeps.                                                  *)
(***************************************************************************)
ScanInv ==
  /\ points \subseteq 1 .. Horizon
  /\ cache \in Cache
  /\ up \in BOOLEAN
  /\ ~up => cfg \in Configured /\ cache = NoCache
  /\ up => SettingsFit
  /\ StaysAlive(cache)

(* A worker that has just started has a cache that says nothing. *)
LEMMA NoCacheIsCache == NoCache \in Cache /\ ~NoCache.ok /\ NoCache.empty /\ NoCache.age = 0
BY HorizonAssumption DEF NoCache, Cache

(***************************************************************************)
(* Whatever a tick's scan ends with is a cache of that worth: a fresh one, *)
(* a new one, one kept through a failed refresh, or an empty reply.        *)
(***************************************************************************)
LEMMA AnswersStayAlive ==
  ASSUME ScanInv, up, NEW c \in ScanAnswers
  PROVE  c \in Cache /\ StaysAlive(c)
<1>0. SettingsFit /\ points \subseteq 1 .. Horizon /\ Horizon \in Nat /\ Steady \in BOOLEAN
  BY HorizonAssumption DEF ScanInv, Steady
<1>1. c \in {cache, Scanned, AnsweredNothing}
  BY DEF ScanAnswers
<1>2. CASE c = cache
  BY <1>2 DEF ScanInv
<1>3. CASE c = AnsweredNothing
  <2>1. c = [ ok |-> TRUE, age |-> 0, found |-> FALSE, last |-> 0, length |-> 0,
              empty |-> TRUE, steady |-> Steady ]
    BY <1>3 DEF AnsweredNothing, NoCache
  <2>2. c \in Cache
    BY <1>0, <2>1 DEF Cache
  <2>. QED
    BY <2>1, <2>2 DEF StaysAlive
<1>4. CASE c = Scanned
  <2>. DEFINE windows == WindowsOfScan
  <2>1. CASE windows = {}
    <3>1. c = [ ok |-> TRUE, age |-> 0, found |-> FALSE, last |-> 0, length |-> 0,
                empty |-> ~Others, steady |-> Steady ]
      BY <1>4, <2>1 DEF Scanned, NoCache
    <3>2. c \in Cache /\ c.steady = Steady
      BY <1>0, <3>1, OthersAssumption DEF Cache
    <3>3. ~(Roomy /\ Steady)
      BY <1>0, <2>1, SteadyScanIsLong
    <3>. QED
      BY <3>2, <3>3 DEF StaysAlive
  <2>2. CASE windows # {}
    <3>1. c = [ ok |-> TRUE, age |-> 0, found |-> TRUE, last |-> LastOf(windows),
                length |-> FirstOf(windows) - LastOf(windows),
                empty |-> FALSE, steady |-> Steady ]
      BY <1>4, <2>2 DEF Scanned
    <3>2. FirstOf(windows) \in Nat /\ LastOf(windows) \in Nat
      <4>1. FirstOf(windows) \in points /\ LastOf(windows) \in points
        BY <1>0, <2>2, MergedExtent
      <4>2. \A p \in points : p \in Nat
        BY <1>0
      <4>. QED
        BY <4>1, <4>2
    <3>. HIDE DEF windows
    <3>3. c \in Cache
      BY <1>0, <3>1, <3>2 DEF Cache
    <3>4. ASSUME Roomy, Steady
          PROVE  FirstOf(windows) - LastOf(windows) >= cfg.Lookback /\ LastOf(windows) <= Minute
      BY <1>0, <3>4, SteadyScanIsLong DEF windows
    <3>5. Minute \in Nat
      BY UnitAssumption, MaxDurationAssumption
    <3>. QED
      BY <3>1, <3>2, <3>3, <3>4, <3>5 DEF StaysAlive
  <2>. QED
    BY <2>1, <2>2
<1>. QED
  BY <1>1, <1>2, <1>3, <1>4

(* Start leaves settings that fit: Validate accepted what was normalized. *)
LEMMA StartedSettingsFit ==
  ASSUME NEW c \in Watched, Accepted(c), cfg' = Normalized(c)
  PROVE  SettingsFit'
<1>. DEFINE n == Normalized(c)
<1>1. c \in Config /\ MaxDuration \in Nat /\ Minute \in Nat /\ Horizon \in Nat
  BY WatchedAssumption, HorizonAssumption, UnitAssumption, MaxDurationAssumption
<1>2. /\ n.Lookback = c.Lookback /\ n.Interval = c.Interval /\ n.DruidMaxRange = c.DruidMaxRange
      /\ n.StaleAfter = c.StaleAfter /\ n.HashScanTTL = ScanTTLOf(c)
  BY <1>1 DEF Normalized, Config
<1>3. n.ScanRange \in 1 .. Horizon /\ n.HashScanTTL <= Horizon /\ n.StaleAfter <= Horizon
  BY HorizonAssumption
<1>4. /\ c.Lookback \in Int /\ c.Interval \in Int /\ c.DruidMaxRange \in Int
      /\ c.StaleAfter \in Int /\ c.HashScanTTL \in Int /\ Second \in Nat
      /\ DefaultHashScanTTL \in Nat /\ DefaultHashScanTTL > 0
  BY <1>1, UnitAssumption, DefaultAssumption DEF Config, Duration, MinDuration
<1>5. ScanTTLOf(c) \in Nat /\ ScanTTLOf(c) > 0
  BY <1>4 DEF ScanTTLOf, OrDefault
<1>6. /\ c.Lookback >= Minute /\ c.Interval >= Second /\ c.StaleAfter >= 0
      /\ c.DruidMaxRange = 0 \/ c.DruidMaxRange >= Minute
      /\ c.StaleAfter > 0 => c.StaleAfter >= Wrap(ScanTTLOf(c) + c.Interval)
  BY DEF Accepted, StaleSlack
<1>. HIDE DEF n
<1>7. /\ n.HashScanTTL \in 1 .. Horizon /\ n.Lookback \in Nat /\ n.Interval \in Nat
      /\ n.DruidMaxRange \in Nat /\ n.StaleAfter \in Nat /\ n.Lookback >= Minute
  BY <1>1, <1>2, <1>3, <1>4, <1>5, <1>6
<1>8. n.StaleAfter > 0 => n.StaleAfter >= Wrap(n.HashScanTTL + n.Interval)
  BY <1>2, <1>6
<1>9. cfg' = n
  BY DEF n
<1>. QED
  BY <1>3, <1>7, <1>8, <1>9 DEF SettingsFit

(* The invariant holds from the start, through ticks, restarts and time. *)
LEMMA ScanInvHolds == Spec => []ScanInv
<1>1. Init => ScanInv
  BY NoCacheIsCache DEF Init, ScanInv, StaysAlive
<1>2. ScanInv /\ [Next]_vars => ScanInv'
  <2>. SUFFICES ASSUME ScanInv, [Next]_vars PROVE ScanInv'
    OBVIOUS
  <2>0. Horizon \in Nat /\ Minute \in Nat
    BY HorizonAssumption, UnitAssumption, MaxDurationAssumption
  <2>1. CASE Start
    <3>1. cfg \in Watched /\ Accepted(cfg) /\ cfg' = Normalized(cfg)
      BY <2>1 DEF Start
    <3>2. SettingsFit'
      BY <3>1, StartedSettingsFit
    <3>3. cache' = NoCache /\ up' = TRUE /\ points' = points
      BY <2>1 DEF Start, ScanInv
    <3>4. StaysAlive(cache)'
      BY <3>3, NoCacheIsCache DEF StaysAlive
    <3>. QED
      BY <3>2, <3>3, <3>4, NoCacheIsCache DEF ScanInv
  <2>2. CASE Tick
    <3>1. up /\ cache' \in ScanAnswers /\ UNCHANGED <<cfg, up, points, stopped>>
      BY <2>2 DEF Tick
    <3>2. cache' \in Cache /\ StaysAlive(cache')
      BY <3>1, AnswersStayAlive
    <3>3. StaysAlive(cache)'
      BY <3>1, <3>2 DEF StaysAlive, Roomy
    <3>. QED
      BY <3>1, <3>2, <3>3 DEF ScanInv, SettingsFit
  <2>3. CASE Restart
    <3>1. up /\ cache' = NoCache /\ UNCHANGED <<cfg, up, points>>
      BY <2>3 DEF Restart
    <3>2. StaysAlive(cache)'
      BY <3>1, NoCacheIsCache DEF StaysAlive
    <3>. QED
      BY <3>1, <3>2, NoCacheIsCache DEF ScanInv, SettingsFit
  <2>4. CASE Pass
    <3>1. PICK report \in BOOLEAN :
            points' = {p + 1 : p \in points \cap (1 .. Horizon - 1)} \cup (IF report THEN {1} ELSE {})
      BY <2>4 DEF Pass
    <3>2. points' \subseteq 1 .. Horizon
      <4>1. Horizon >= 1
        BY <2>0, <2>4 DEF Pass, ScanInv, SettingsFit
      <4>. QED
        BY <2>0, <3>1, <4>1
    <3>3. up /\ UNCHANGED <<cfg, up>>
      BY <2>4 DEF Pass
    <3>4. cache \in Cache /\ StaysAlive(cache)
      BY DEF ScanInv
    <3>5. CASE ~cache.ok
      <4>1. cache' = cache
        BY <2>4, <3>5 DEF Pass
      <4>2. StaysAlive(cache)'
        BY <3>5, <4>1 DEF StaysAlive
      <4>. QED
        BY <3>2, <3>3, <4>1, <4>2 DEF ScanInv, SettingsFit
    <3>6. CASE cache.ok
      <4>. DEFINE older == Capped(cache.age + 1, Horizon)
                  later == IF cache.found THEN Capped(cache.last + 1, Horizon + 1) ELSE 0
      <4>1. cache' = [cache EXCEPT !.age = older, !.last = later]
        BY <2>4, <3>6 DEF Pass
      <4>2. /\ older \in 0 .. Horizon /\ later \in Nat
            /\ older < Horizon => older = cache.age + 1 /\ cache.age < Horizon
            /\ later <= cache.last + 1
        BY <2>0, <3>4 DEF Capped, Cache
      <4>. HIDE DEF older, later
      <4>3. /\ cache' \in Cache
            /\ cache'.age = older /\ cache'.last = later /\ cache'.ok = cache.ok
            /\ cache'.found = cache.found /\ cache'.length = cache.length
            /\ cache'.empty = cache.empty /\ cache'.steady = cache.steady
        BY <3>4, <4>1, <4>2 DEF Cache
      <4>4. cache.age \in Nat /\ cache.last \in Nat
        BY <3>4 DEF Cache
      <4>5. StaysAlive(cache')
        BY <2>0, <3>4, <4>2, <4>3, <4>4 DEF StaysAlive
      <4>6. StaysAlive(cache)'
        BY <3>3, <4>5 DEF StaysAlive, Roomy
      <4>. QED
        BY <3>2, <3>3, <4>3, <4>6 DEF ScanInv, SettingsFit
    <3>. QED
      BY <3>5, <3>6
  <2>5. CASE Stops \/ UNCHANGED vars
    <3>1. UNCHANGED <<cfg, up, points, cache>>
      BY <2>5 DEF Stops, vars
    <3>2. StaysAlive(cache)'
      BY <3>1 DEF ScanInv, StaysAlive, Roomy
    <3>. QED
      BY <3>1, <3>2 DEF ScanInv, SettingsFit
  <2>. QED
    BY <2>1, <2>2, <2>3, <2>4, <2>5 DEF Next
<1>. QED
  BY <1>1, <1>2, PTL DEF Spec

(***************************************************************************)
(* A cache of that worth, as long as it may speak for now, has the metric  *)
(* alive (publisher.go alive): a fresh one by what Validate asks of        *)
(* STALE_AFTER, an older one by its age.                                   *)
(***************************************************************************)
LEMMA SpeakingIsAlive ==
  ASSUME SettingsFit, Roomy, NEW c \in Cache, StaysAlive(c),
         c.ok, c.steady, ~c.empty, Speaks(c)
  PROVE  Alive(c)
<1>1. c.found /\ c.length >= cfg.Lookback /\ (c.age < Horizon => c.last <= c.age + Minute)
  BY DEF StaysAlive
<1>2. /\ c.age \in Nat /\ c.last \in Nat /\ Horizon \in Nat /\ Minute \in Nat /\ Minute > 0
      /\ cfg.HashScanTTL \in Nat /\ cfg.HashScanTTL <= Horizon /\ cfg.Interval \in Nat
      /\ cfg.StaleAfter \in Nat /\ cfg.StaleAfter <= Horizon
  BY HorizonAssumption, UnitAssumption, MaxDurationAssumption DEF Cache, SettingsFit
<1>3. CASE Fresh(c)
  <2>1. c.age < cfg.HashScanTTL
    BY <1>3 DEF Fresh
  <2>2. /\ cfg.Interval >= Minute
        /\ cfg.StaleAfter > 0 => cfg.StaleAfter >= cfg.HashScanTTL + cfg.Interval
    BY RoomyAddsUp
  <2>3. cfg.StaleAfter > 0 => c.last <= cfg.StaleAfter
    BY <1>1, <1>2, <2>1, <2>2
  <2>. QED
    BY <1>1, <2>3 DEF Alive
<1>4. CASE cfg.StaleAfter = 0
  BY <1>1, <1>2, <1>4 DEF Alive
<1>5. CASE c.age + Minute <= cfg.StaleAfter
  <2>1. c.last <= cfg.StaleAfter
    BY <1>1, <1>2, <1>5
  <2>. QED
    BY <1>1, <2>1 DEF Alive
<1>. QED
  BY <1>3, <1>4, <1>5 DEF Speaks

(***************************************************************************)
(* A metric that reported every minute of the range, when it was last      *)
(* scanned, is in the ready list of every tick that judges it by a fresh   *)
(* scan, or by a kept one until it is a minute short of STALE_AFTER, for   *)
(* every width of a window and every setting with Roomy's room             *)
(* (publisher.go readyKeys).                                               *)
(***************************************************************************)
THEOREM ScanKeepsSteadyReady == Spec => SteadyIsReady
<1>1. ASSUME ScanInv,
             Tick /\ Roomy /\ cache'.ok /\ cache'.steady /\ ~cache'.empty /\ Speaks(cache')
      PROVE  ready'
  <2>1. PICK c \in ScanAnswers : cache' = c /\ ready' = (c.ok /\ Alive(c))
    BY <1>1 DEF Tick
  <2>2. up /\ SettingsFit
    BY <1>1 DEF Tick, ScanInv
  <2>3. c \in Cache /\ StaysAlive(c)
    BY <1>1, <2>2, AnswersStayAlive
  <2>. QED
    BY <1>1, <2>1, <2>2, <2>3, SpeakingIsAlive
<1>2. ScanInv =>
        [ Tick /\ Roomy /\ cache'.ok /\ cache'.steady /\ ~cache'.empty /\ Speaks(cache')
            => ready' ]_vars
  BY <1>1
<1>. QED
  BY <1>2, ScanInvHolds, PTL DEF SteadyIsReady

(***************************************************************************)
(* The row of a metric that was steady when last scanned is not retired,   *)
(* given Roomy: neither an old cache, nor an outage, nor an empty reply    *)
(* does it (publisher.go retire).                                          *)
(***************************************************************************)
THEOREM ScanKeepsSteadyRow == Spec => SteadyIsNotRetired
<1>1. ASSUME ScanInv, Tick /\ Roomy /\ row /\ ~row' PROVE ~cache'.steady
  <2>1. PICK c \in ScanAnswers : cache' = c /\ (row /\ ~Retires(c) => row')
    BY <1>1 DEF Tick
  <2>2. up /\ SettingsFit
    BY <1>1 DEF Tick, ScanInv
  <2>3. c \in Cache /\ StaysAlive(c)
    BY <1>1, <2>2, AnswersStayAlive
  <2>4. c.ok /\ Speaks(c) /\ ~c.empty /\ ~Alive(c)
    BY <1>1, <2>1 DEF Retires, Fresh, Speaks
  <2>. QED
    BY <1>1, <2>1, <2>2, <2>3, <2>4, SpeakingIsAlive
<1>2. ScanInv => [Tick /\ Roomy /\ row /\ ~row' => ~cache'.steady]_vars
  BY <1>1
<1>. QED
  BY <1>2, ScanInvHolds, PTL DEF SteadyIsNotRetired
=============================================================================
