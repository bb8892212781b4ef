----------------------------- MODULE BackoffProofs -----------------------------
(***************************************************************************)
(* Theorems about Backoff for every width, base and cap.                   *)
(*                                                                         *)
(* What the doubling loop computes is shown by induction on the number of  *)
(* doublings (Arithmetic).                                                 *)
(***************************************************************************)
EXTENDS Backoff, Arithmetic, TLAPS

(***************************************************************************)
(* PowerOfTwo satisfies the equation that defines it.                      *)
(***************************************************************************)
LEMMA PowerOfTwoDoubles ==
  /\ PowerOfTwo \in [Nat -> Nat \ {0}]
  /\ PowerOfTwo[0] = 1
  /\ \A n \in Nat : PowerOfTwo[n + 1] = 2 * PowerOfTwo[n]
<1> DEFINE Equation(g) == g = [n \in Nat |-> IF n = 0 THEN 1 ELSE 2 * g[n - 1]]
           twice == [x \in Nat \ {0} |-> 2 * x]
<1>1. twice \in [Nat \ {0} -> Nat \ {0}] /\ 1 \in Nat \ {0}
  OBVIOUS
<1>2. PICK g \in [Nat -> Nat \ {0}] : g[0] = 1 /\ \A n \in Nat : g[n + 1] = twice[g[n]]
  <2> DEFINE S == Nat \ {0}
  <2>1. \E g \in [Nat -> S] : g[0] = 1 /\ \A n \in Nat : g[n + 1] = twice[g[n]]
    <3>1. 1 \in S /\ twice \in [S -> S]
      BY <1>1
    <3>2. \A start \in S : \A step \in [S -> S] :
            \E g \in [Nat -> S] : g[0] = start /\ \A n \in Nat : g[n + 1] = step[g[n]]
      BY IterationExists
    <3> HIDE DEF twice, S
    <3> QED
      BY <3>1, <3>2
  <2> HIDE DEF twice
  <2> QED
    BY <2>1
<1>3. Equation(g)
  <2>1. ASSUME NEW n \in Nat PROVE g[n] = IF n = 0 THEN 1 ELSE 2 * g[n - 1]
    <3>1. CASE n = 0
      BY <1>2, <3>1
    <3>2. CASE n # 0
      <4>1. n - 1 \in Nat /\ (n - 1) + 1 = n
        BY <3>2
      <4>2. g[n] = twice[g[n - 1]] /\ g[n - 1] \in Nat \ {0}
        BY <1>2, <4>1
      <4> QED
        BY <3>2, <4>2
    <3> QED
      BY <3>1, <3>2
  <2> QED
    BY <2>1
<1>4. PowerOfTwo = CHOOSE f : Equation(f)
  BY Zenon DEF PowerOfTwo
<1>5. Equation(PowerOfTwo)
  <2> HIDE DEF Equation
  <2> QED
    BY <1>3, <1>4
<1> DEFINE p == PowerOfTwo
<1>6. p = [n \in Nat |-> IF n = 0 THEN 1 ELSE 2 * p[n - 1]]
  BY <1>5
<1> HIDE DEF p
<1>7. p[0] = 1 /\ \A n \in Nat : p[n + 1] = 2 * p[n]
  BY <1>6
<1>8. \A n \in Nat : p[n] \in Nat \ {0}
  <2> DEFINE S == {n \in Nat : p[n] \in Nat \ {0}}
  <2>1. 0 \in S
    BY <1>7
  <2>2. \A n \in Nat : n \in S => n + 1 \in S
    BY <1>7
  <2>3. Nat \subseteq S
    <3> HIDE DEF S
    <3> QED
      BY <2>1, <2>2, Induction
  <2> QED
    BY <2>3
<1>9. p \in [Nat -> Nat \ {0}]
  BY <1>6, <1>8
<1> QED
  BY <1>7, <1>9 DEF p

-------------------------------------------------------------------------------
(* The doubling loop *)

Doubling(d, max) == IF PastCap(Wrap(2 * d), max) THEN max ELSE Wrap(2 * d)

(* A sum that overflows is still a number (time.Duration is an int64). *)
LEMMA WrapIsInteger ==
  ASSUME NEW d \in Int
  PROVE  Wrap(d) \in Int
BY MaxDurationAssumption DEF Wrap

(***************************************************************************)
(* The loop's delay after n + 1 doublings comes of the one after n         *)
(* (config.go retryDelay).                                                 *)
(***************************************************************************)
LEMMA DoubledDoubles ==
  ASSUME NEW base \in Int, NEW max \in Int
  PROVE  LET d == Doubled(base, max)
         IN  /\ d \in [Nat -> Int]
             /\ d[0] = base
             /\ \A n \in Nat : d[n + 1] = Doubling(d[n], max)
<1> DEFINE Equation(g) ==
             g = [i \in Nat |-> IF i = 0 THEN base
                                ELSE LET twice == Wrap(2 * g[i - 1])
                                     IN  IF PastCap(twice, max) THEN max ELSE twice]
           step == [x \in Int |-> Doubling(x, max)]
<1>1. step \in [Int -> Int]
  <2>1. \A x \in Int : Doubling(x, max) \in Int
    BY WrapIsInteger DEF Doubling
  <2> QED
    BY <2>1
<1>2. PICK g \in [Nat -> Int] : g[0] = base /\ \A n \in Nat : g[n + 1] = step[g[n]]
  <2> DEFINE S == Int
  <2>1. \A x \in S : \A f \in [S -> S] :
          \E g \in [Nat -> S] : g[0] = x /\ \A n \in Nat : g[n + 1] = f[g[n]]
    <3> HIDE DEF S
    <3> QED
      BY IterationExists
  <2>2. base \in S /\ step \in [S -> S]
    BY <1>1
  <2>3. \E g \in [Nat -> S] : g[0] = base /\ \A n \in Nat : g[n + 1] = step[g[n]]
    <3> HIDE DEF S, step
    <3> QED
      BY <2>1, <2>2
  <2> HIDE DEF step
  <2> QED
    BY <2>3
<1>3. Equation(g)
  <2>1. ASSUME NEW n \in Nat
        PROVE  g[n] = IF n = 0 THEN base ELSE Doubling(g[n - 1], max)
    <3>1. CASE n = 0
      BY <1>2, <3>1
    <3>2. CASE n # 0
      <4>1. n - 1 \in Nat /\ (n - 1) + 1 = n
        BY <3>2
      <4>2. g[n] = step[g[n - 1]] /\ g[n - 1] \in Int
        BY <1>2, <4>1
      <4> QED
        BY <3>2, <4>2
    <3> QED
      BY <3>1, <3>2
  <2> QED
    BY <2>1 DEF Doubling
<1>4. Doubled(base, max) = CHOOSE f : Equation(f)
  BY Zenon DEF Doubled
<1> DEFINE d == Doubled(base, max)
<1>5. Equation(d)
  <2> HIDE DEF Equation
  <2> QED
    BY <1>3, <1>4
<1>6. d = [i \in Nat |-> IF i = 0 THEN base ELSE Doubling(d[i - 1], max)]
  BY <1>5 DEF Doubling
<1> HIDE DEF d
<1>7. d[0] = base /\ \A n \in Nat : d[n + 1] = Doubling(d[n], max)
  <2>1. d[0] = base
    BY <1>6
  <2>2. ASSUME NEW n \in Nat PROVE d[n + 1] = Doubling(d[n], max)
    <3>1. n + 1 \in Nat /\ n + 1 # 0 /\ (n + 1) - 1 = n
      OBVIOUS
    <3> QED
      BY <1>6, <3>1
  <2> QED
    BY <2>1, <2>2
<1>8. \A n \in Nat : d[n] \in Int
  <2> DEFINE S == {n \in Nat : d[n] \in Int}
  <2>1. 0 \in S
    BY <1>7
  <2>2. \A n \in Nat : n \in S => n + 1 \in S
    BY <1>7, WrapIsInteger DEF Doubling
  <2>3. Nat \subseteq S
    <3> HIDE DEF S
    <3> QED
      BY <2>1, <2>2, Induction
  <2> QED
    BY <2>3
<1>9. d \in [Nat -> Int]
  BY <1>6, <1>8
<1> QED
  BY <1>7, <1>9 DEF d

(***************************************************************************)
(* From a positive base within the cap every delay is positive and within  *)
(* the cap, wherever doubling overflows: the queue never retries at once   *)
(* (config.go retryDelay: "never a hot loop").                             *)
(***************************************************************************)
LEMMA DelayIsPositive ==
  ASSUME NEW base \in Nat, NEW max \in Nat, base > 0, base <= max, NEW attempt \in Int
  PROVE  RetryDelay(base, max, attempt) \in 1 .. max
<1> DEFINE d == Doubled(base, max)
           S == {n \in Nat : d[n] \in 1 .. max}
<1>1. d[0] = base /\ \A n \in Nat : d[n + 1] = Doubling(d[n], max)
  BY DoubledDoubles
<1> HIDE DEF d
<1>2. 0 \in S
  BY <1>1
<1>3. ASSUME NEW n \in Nat, n \in S PROVE n + 1 \in S
  <2>1. d[n] \in 1 .. max /\ Wrap(2 * d[n]) \in Int
    BY <1>3, WrapIsInteger
  <2>2. Doubling(d[n], max) \in 1 .. max
    BY <2>1 DEF Doubling, PastCap
  <2> QED
    BY <1>1, <2>2
<1>4. Nat \subseteq S
  <2> HIDE DEF S
  <2> QED
    BY <1>2, <1>3, Induction
<1>5. FirstAttempt(attempt) - 1 \in Nat
  BY DEF FirstAttempt
<1>6. d[FirstAttempt(attempt) - 1] \in 1 .. max
  BY <1>4, <1>5
<1> QED
  BY <1>6 DEF RetryDelay, d

(***************************************************************************)
(* The loop computes min(base * 2^n, max) without overflowing anywhere, as *)
(* long as max is a duration: doubling max reaches max or wraps below zero.*)
(***************************************************************************)
LEMMA DoubledIsCapped ==
  ASSUME NEW base \in Nat, NEW max \in Nat, base > 0, base < max, max <= MaxDuration,
         NEW n \in Nat
  PROVE  Doubled(base, max)[n] =
           LET full == base * PowerOfTwo[n] IN IF full < max THEN full ELSE max
<1> DEFINE d == Doubled(base, max)
           full(i) == base * PowerOfTwo[i]
           S == {i \in Nat : d[i] = IF full(i) < max THEN full(i) ELSE max}
<1>1. d[0] = base /\ \A i \in Nat : d[i + 1] = Doubling(d[i], max)
  <2>1. base \in Int /\ max \in Int
    OBVIOUS
  <2> QED
    BY <2>1, DoubledDoubles
<1> HIDE DEF d
<1>2. \A i \in Nat : full(i) \in Nat /\ full(i) > 0 /\ full(i + 1) = 2 * full(i)
  <2>1. ASSUME NEW i \in Nat
        PROVE  /\ PowerOfTwo[i] \in Nat /\ PowerOfTwo[i] > 0
               /\ PowerOfTwo[i + 1] = 2 * PowerOfTwo[i]
    BY PowerOfTwoDoubles
  <2>2. \A x \in Nat : x > 0 => base * x \in Nat /\ base * x > 0 /\ base * (2 * x) = 2 * (base * x)
    OBVIOUS
  <2> QED
    BY <2>1, <2>2
<1>3. 0 \in S
  <2>1. full(0) = base
    BY PowerOfTwoDoubles
  <2> QED
    BY <1>1, <2>1
<1>4. ASSUME NEW i \in Nat, i \in S PROVE i + 1 \in S
  <2> HIDE DEF full
  <2>1. /\ full(i) \in Nat /\ full(i) > 0 /\ full(i + 1) = 2 * full(i) /\ i + 1 \in Nat
        /\ d[i] = IF full(i) < max THEN full(i) ELSE max
    BY <1>2, <1>4
  <2>2. Doubling(d[i], max) = IF 2 * full(i) < max THEN 2 * full(i) ELSE max
    <3>1. CASE full(i) < max
      BY <2>1, <3>1, MaxDurationAssumption DEF Doubling, PastCap, Wrap
    <3>2. CASE ~(full(i) < max)
      BY <2>1, <3>2, MaxDurationAssumption DEF Doubling, PastCap, Wrap
    <3> QED
      BY <3>1, <3>2
  <2> QED
    BY <1>1, <2>1, <2>2
<1>5. Nat \subseteq S
  <2> HIDE DEF S
  <2> QED
    BY <1>3, <1>4, Induction
<1> QED
  BY <1>5 DEF d

(***************************************************************************)
(* The backoff of any attempt is the base doubled once per further attempt *)
(* and capped (config.go retryDelay).                                      *)
(***************************************************************************)
LEMMA DelayIsCappedDoublingOf ==
  ASSUME NEW base \in Nat, NEW max \in Nat, base > 0, base < max, max <= MaxDuration,
         NEW attempt \in Int
  PROVE  RetryDelay(base, max, attempt) = CappedDoubling(base, max, attempt)
<1>1. FirstAttempt(attempt) - 1 = (IF attempt < 1 THEN 0 ELSE attempt - 1)
      /\ FirstAttempt(attempt) - 1 \in Nat
  BY DEF FirstAttempt
<1> DEFINE n == FirstAttempt(attempt) - 1
           full == base * PowerOfTwo[n]
<1>2. Doubled(base, max)[n] = IF full < max THEN full ELSE max
  BY <1>1, DoubledIsCapped
<1>3. full \in Nat
  BY <1>1, PowerOfTwoDoubles
<1>4. RetryDelay(base, max, attempt) = IF full < max THEN full ELSE max
  <2>1. RetryDelay(base, max, attempt) =
          IF Doubled(base, max)[n] > max THEN max ELSE Doubled(base, max)[n]
    BY DEF RetryDelay
  <2> HIDE DEF full, n
  <2> QED
    BY <1>2, <1>3, <2>1
<1>5. CappedDoubling(base, max, attempt) = IF full < max THEN full ELSE max
  BY <1>1 DEF CappedDoubling
<1> QED
  BY <1>4, <1>5
=============================================================================
