------------------------------ MODULE Arithmetic ------------------------------
(***************************************************************************)
(* What the proofs need of numbers: induction, functions defined by        *)
(* recursion, and division.                                                *)
(*                                                                         *)
(* The library states induction for a predicate, an operator parameter no  *)
(* installed prover instantiates.  Here it is stated for a set, from the   *)
(* fact that "less than" is well founded on the naturals.                  *)
(***************************************************************************)
EXTENDS Integers, WellFoundedInduction, TLAPS

-------------------------------------------------------------------------------
(* Induction and recursion on the naturals *)

(***************************************************************************)
(* A set that has 0 and, with a number, the next one has them all: what a  *)
(* loop keeps it has kept after any number of rounds.                      *)
(***************************************************************************)
LEMMA Induction ==
  ASSUME NEW S, 0 \in S, \A n \in Nat : n \in S => n + 1 \in S
  PROVE  Nat \subseteq S
<1> DEFINE T == Nat \ S
<1>1. SUFFICES ASSUME T # {} PROVE FALSE
  OBVIOUS
<1>2. PICK n \in T : \A m \in T : <<m, n>> \notin OpToRel(<, Nat)
  <2>1. T \subseteq Nat
    OBVIOUS
  <2> HIDE DEF T
  <2> QED
    BY <1>1, <2>1, WFMin, NatLessThanWellFounded, Zenon
<1>3. n \in Nat /\ n # 0 /\ n \notin S
  OBVIOUS
<1>4. n - 1 \in Nat /\ n - 1 < n /\ (n - 1) + 1 = n
  BY <1>3
<1>5. <<n - 1, n>> \in OpToRel(<, Nat)
  BY <1>3, <1>4 DEF OpToRel
<1>6. n - 1 \notin T
  BY <1>2, <1>5
<1> QED
  BY <1>3, <1>4, <1>6

(* Every non-empty set of naturals has a least member. *)
LEMMA LeastExists ==
  ASSUME NEW S, S \subseteq Nat, S # {}
  PROVE  \E n \in S : \A m \in S : n <= m
<1>1. PICK n \in S : \A m \in S : <<m, n>> \notin OpToRel(<, Nat)
  BY WFMin, NatLessThanWellFounded, Zenon
<1>2. ASSUME NEW m \in S PROVE n <= m
  <2>1. n \in Nat /\ m \in Nat
    OBVIOUS
  <2>2. CASE m < n
    <3>1. <<m, n>> \in OpToRel(<, Nat)
      BY <2>1, <2>2 DEF OpToRel
    <3> QED
      BY <1>1, <3>1
  <2> QED
    BY <2>1, <2>2
<1> QED
  BY <1>2

(* Every non-empty bounded set of naturals has a greatest member. *)
LEMMA GreatestExists ==
  ASSUME NEW S, NEW bound \in Nat, S \subseteq 0 .. bound, S # {}
  PROVE  \E n \in S : \A m \in S : m <= n
<1> DEFINE T == {bound - n : n \in S}
<1>1. T \subseteq Nat /\ T # {}
  <2>1. \A n \in S : bound - n \in Nat
    OBVIOUS
  <2>2. T \subseteq Nat
    BY <2>1
  <2>3. PICK n \in S : TRUE
    OBVIOUS
  <2>4. bound - n \in T
    OBVIOUS
  <2> QED
    BY <2>2, <2>4
<1>2. PICK t \in T : \A u \in T : t <= u
  <2> HIDE DEF T
  <2> QED
    BY <1>1, LeastExists
<1>3. PICK n \in S : t = bound - n
  OBVIOUS
<1>4. ASSUME NEW m \in S PROVE m <= n
  <2>1. bound - m \in T /\ n \in 0 .. bound /\ m \in 0 .. bound
    OBVIOUS
  <2>2. bound - n <= bound - m
    BY <1>2, <1>3, <2>1
  <2> QED
    BY <2>1, <2>2
<1> QED
  BY <1>4

(***************************************************************************)
(* The function that starts at a value and steps by a given function       *)
(* exists: the values of a loop whose rounds do not depend on their number.*)
(***************************************************************************)
LEMMA IterationExists ==
  ASSUME NEW S
  PROVE  \A start \in S : \A step \in [S -> S] :
           \E g \in [Nat -> S] : g[0] = start /\ \A n \in Nat : g[n + 1] = step[g[n]]
<1> SUFFICES ASSUME NEW start \in S, NEW step \in [S -> S]
             PROVE  \E g \in [Nat -> S] : /\ g[0] = start
                                          /\ \A n \in Nat : g[n + 1] = step[g[n]]
  OBVIOUS
<1> DEFINE Prefix(h, n) == /\ h \in [0 .. n -> S]
                           /\ h[0] = start
                           /\ \A i \in 0 .. (n - 1) : h[i + 1] = step[h[i]]
           Long == {n \in Nat : \E h : Prefix(h, n)}
           h(n) == CHOOSE h : Prefix(h, n)
           g == [n \in Nat |-> h(n)[n]]
<1>1. Nat \subseteq Long
  <2>1. 0 \in Long
    <3>1. Prefix([i \in 0 .. 0 |-> start], 0)
      OBVIOUS
    <3> QED
      BY <3>1
  <2>2. ASSUME NEW n \in Nat, n \in Long PROVE n + 1 \in Long
    <3>1. PICK f : Prefix(f, n)
      BY <2>2
    <3> DEFINE longer == [i \in 0 .. (n + 1) |-> IF i = n + 1 THEN step[f[n]] ELSE f[i]]
    <3>2. Prefix(longer, n + 1)
      <4>1. f[n] \in S /\ step[f[n]] \in S
        BY <3>1
      <4>2. longer \in [0 .. (n + 1) -> S]
        BY <3>1, <4>1
      <4>3. longer[0] = start
        BY <3>1
      <4>4. ASSUME NEW i \in 0 .. n PROVE longer[i + 1] = step[longer[i]]
        <5>1. CASE i = n
          BY <5>1
        <5>2. CASE i # n
          BY <3>1, <5>2
        <5> QED
          BY <5>1, <5>2
      <4> QED
        BY <4>2, <4>3, <4>4
    <3>3. n + 1 \in Nat
      OBVIOUS
    <3> HIDE DEF Prefix, longer
    <3> QED
      BY <3>2, <3>3
  <2> HIDE DEF Long
  <2> QED
    BY <2>1, <2>2, Induction
<1>2. \A n \in Nat : Prefix(h(n), n)
  <2>1. \A n \in Nat : \E f : Prefix(f, n)
    BY <1>1
  <2> HIDE DEF Prefix
  <2> QED
    BY <2>1
<1>3. ASSUME NEW n \in Nat PROVE h(n + 1)[n] = h(n)[n]
  <2> DEFINE Same == {i \in Nat : i <= n => h(n + 1)[i] = h(n)[i]}
  <2>1. Prefix(h(n), n) /\ Prefix(h(n + 1), n + 1)
    <3>1. n + 1 \in Nat
      OBVIOUS
    <3> HIDE DEF h, Prefix
    <3> QED
      BY <1>2, <3>1
  <2> HIDE DEF h
  <2>2. 0 \in Same
    BY <2>1
  <2>3. \A i \in Nat : i \in Same => i + 1 \in Same
    BY <2>1
  <2>4. Nat \subseteq Same
    <3> HIDE DEF Same
    <3> QED
      BY <2>2, <2>3, Induction
  <2> QED
    BY <2>4
<1>4. g \in [Nat -> S]
  <2>1. \A n \in Nat : h(n)[n] \in S
    <3> HIDE DEF h
    <3> QED
      BY <1>2
  <2> QED
    BY <2>1
<1>5. g[0] = start
  <2>1. h(0)[0] = start
    BY <1>2
  <2> QED
    BY <2>1
<1>6. ASSUME NEW n \in Nat PROVE g[n + 1] = step[g[n]]
  <2>1. h(n + 1)[n + 1] = step[h(n + 1)[n]]
    <3> HIDE DEF h
    <3> QED
      BY <1>2
  <2>2. g[n + 1] = h(n + 1)[n + 1] /\ g[n] = h(n)[n]
    <3> HIDE DEF h
    <3> QED
      OBVIOUS
  <2> QED
    BY <1>3, <2>1, <2>2
<1> QED
  BY <1>4, <1>5, <1>6, Zenon

-------------------------------------------------------------------------------
(* Division *)

(***************************************************************************)
(* Division and remainder add up (config.go workLease and druid.go windows *)
(* divide a range by the widest query).                                    *)
(***************************************************************************)
LEMMA DivMod ==
  ASSUME NEW a \in Int, NEW b \in Nat, b > 0
  PROVE  /\ a \div b \in Int /\ a % b \in 0 .. b - 1
         /\ a = b * (a \div b) + (a % b)
OBVIOUS

(* A natural number is cut into no negative number of parts. *)
LEMMA QuotientIsNatural ==
  ASSUME NEW a \in Nat, NEW b \in Nat, b > 0
  PROVE  a \div b \in Nat
<1> DEFINE p == a \div b
           bp == b * p
<1>1. p \in Int /\ a % b \in 0 .. b - 1 /\ a = bp + (a % b) /\ bp \in Int
  BY DivMod
<1> HIDE DEF p
<1>2. CASE p <= -1
  <2>1. b * (-p - 1) >= 0
    BY <1>1, <1>2
  <2>2. b * (-p - 1) = -bp - b
    BY <1>1
  <2>3. -bp - b >= 0
    BY <2>1, <2>2
  <2> HIDE DEF bp
  <2> QED
    BY <1>1, <2>3
<1> QED
  BY <1>1, <1>2 DEF p

(***************************************************************************)
(* They are the only numbers that do.                                      *)
(***************************************************************************)
LEMMA DivUnique ==
  ASSUME NEW a \in Int, NEW b \in Nat, b > 0, NEW q \in Int, NEW r \in 0 .. b - 1, a = b * q + r
  PROVE  a \div b = q /\ a % b = r
<1> DEFINE p == a \div b
           bp == b * p
           bq == b * q
<1>1. p \in Int /\ a % b \in 0 .. b - 1 /\ a = bp + (a % b) /\ bp \in Int /\ bq \in Int
  BY DivMod
<1> HIDE DEF p
<1>2. CASE p >= q + 1
  <2>1. b * (p - q - 1) >= 0
    BY <1>1, <1>2
  <2>2. b * (p - q - 1) = bp - bq - b
    BY <1>1
  <2>3. bp - bq >= b /\ a = bq + r
    <3>1. bp - bq - b >= 0 /\ a = bq + r
      BY <2>1, <2>2
    <3> HIDE DEF bp, bq
    <3> QED
      BY <1>1, <3>1
  <2> HIDE DEF bp, bq
  <2> QED
    BY <1>1, <2>3
<1>3. CASE q >= p + 1
  <2>1. b * (q - p - 1) >= 0
    BY <1>1, <1>3
  <2>2. b * (q - p - 1) = bq - bp - b
    BY <1>1
  <2>3. bq - bp >= b /\ a = bq + r
    <3>1. bq - bp - b >= 0 /\ a = bq + r
      BY <2>1, <2>2
    <3> HIDE DEF bp, bq
    <3> QED
      BY <1>1, <3>1
  <2> HIDE DEF bp, bq
  <2> QED
    BY <1>1, <2>3
<1>4. CASE p = q
  <2>1. a % b = r
    BY <1>1, <1>4
  <2> QED
    BY <1>4, <2>1 DEF p
<1> QED
  BY <1>1, <1>2, <1>3, <1>4
=============================================================================
