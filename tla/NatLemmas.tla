----------------------------- MODULE NatLemmas ------------------------------
(***************************************************************************)
(* Facts about numbers that the components' proofs cite: least and greatest  *)
(* elements of sets of naturals (what the CHOOSE of a smallest index, a      *)
(* newest message or a longest prefix rests on), and how \div and % behave   *)
(* from one tick to the next.                                               *)
(***************************************************************************)
EXTENDS Integers, WellFoundedInduction, TLAPS

\* A nonempty set of naturals has a least element (< is well founded on Nat).
LEMMA HasMin ==
    ASSUME NEW S \in SUBSET Nat, S # {}
    PROVE  \E x \in S : \A y \in S : x <= y
<1> DEFINE R == OpToRel(<, Nat)
<1>1. IsWellFoundedOn(R, Nat)
  BY NatLessThanWellFounded
<1>2. \A x, y \in Nat : <<y, x>> \in R <=> y < x
  BY DEF OpToRel
<1> HIDE DEF R
<1>3. PICK x \in S : \A y \in S : ~(<<y, x>> \in R)
  BY <1>1, WFMin
<1>4. \A y \in S : ~(y < x)
  BY <1>2, <1>3
<1> QED BY <1>4

\* A nonempty set of naturals below a bound has a greatest element: the least
\* distance from the bound.
LEMMA HasMax ==
    ASSUME NEW S \in SUBSET Nat, S # {}, NEW b \in Nat, \A s \in S : s <= b
    PROVE  \E x \in S : \A y \in S : y <= x
<1> DEFINE T == {b - s : s \in S}
<1>1. \A s \in S : s \in Nat /\ b - s \in Nat
  OBVIOUS
<1>2. T \in SUBSET Nat
  BY <1>1
<1>3. T # {}
  <2>1. PICK s \in S : TRUE OBVIOUS
  <2>2. b - s \in T BY <2>1
  <2> QED BY <2>2
<1>4. PICK t \in T : \A u \in T : t <= u
  <2> HIDE DEF T
  <2> QED BY <1>2, <1>3, HasMin
<1>5. PICK x \in S : t = b - x
  OBVIOUS
<1>6. ASSUME NEW y \in S PROVE y <= x
  <2>1. b - x <= b - y BY <1>4, <1>5
  <2>2. x \in Nat /\ y \in Nat BY <1>1
  <2> QED BY <2>1, <2>2
<1> QED BY <1>6

\* Division with remainder.
LEMMA DivMod ==
    ASSUME NEW i \in Nat \ {0}, NEW c \in Int
    PROVE  /\ c \div i \in Int /\ c % i \in 0 .. i - 1
           /\ c = i * (c \div i) + (c % i)
<1>1. c \div i \in Int OBVIOUS
<1>2. c % i \in 0 .. i - 1 OBVIOUS
<1>3. c = i * (c \div i) + (c % i) OBVIOUS
<1> QED BY <1>1, <1>2, <1>3

\* Quotient and remainder are determined by the number.
LEMMA DivModUnique ==
    ASSUME NEW i \in Nat \ {0}, NEW c \in Int,
           NEW q \in Int, NEW r \in 0 .. i - 1, c = i * q + r
    PROVE  q = c \div i /\ r = c % i
<1> DEFINE q2 == c \div i
           r2 == c % i
<1>1. q2 \in Int /\ r2 \in 0 .. i - 1 /\ c = i * q2 + r2
  BY DivMod
<1> HIDE DEF q2, r2
<1>2. i * (q - q2) = r2 - r BY <1>1
<1>3. q - q2 >= 1 => i * (q - q2) >= i BY <1>1
<1>4. q - q2 <= -1 => i * (q - q2) <= -i BY <1>1
<1>5. q = q2 BY <1>1, <1>2, <1>3, <1>4
<1>6. r = r2 BY <1>1, <1>5
<1> QED BY <1>5, <1>6 DEF q2, r2

\* One tick later the remainder is one more, or wraps to zero.
LEMMA ModStep ==
    ASSUME NEW i \in Nat \ {0}, NEW c \in Int
    PROVE  IF (c + 1) % i = 0 THEN c % i = i - 1
           ELSE (c + 1) % i = (c % i) + 1
<1> DEFINE q == c \div i
           r == c % i
<1>1. q \in Int /\ r \in 0 .. i - 1 /\ c = i * q + r
  BY DivMod
<1> HIDE DEF q, r
<1>2. CASE r = i - 1
  <2>1. c + 1 = i * (q + 1) + 0 BY <1>1, <1>2
  <2>2. 0 \in 0 .. i - 1 OBVIOUS
  <2>3. (c + 1) % i = 0
    <3> DEFINE d == c + 1
               q1 == q + 1
    <3>1. d \in Int /\ q1 \in Int /\ d = i * q1 + 0 BY <1>1, <2>1
    <3> HIDE DEF d, q1
    <3>2. 0 = d % i BY <2>2, <3>1, DivModUnique
    <3> QED BY <3>2 DEF d
  <2> QED BY <1>2, <2>3 DEF r
<1>3. CASE r # i - 1
  <2> DEFINE d == c + 1
             r1 == r + 1
  <2>1. d \in Int /\ r1 \in 0 .. i - 1 /\ d = i * q + r1 BY <1>1, <1>3
  <2> HIDE DEF d, r1
  <2>2. r1 = d % i BY <1>1, <2>1, DivModUnique
  <2>3. (c + 1) % i = r + 1 /\ r + 1 # 0 BY <1>1, <2>2 DEF d, r1
  <2> QED BY <2>3 DEF r
<1> QED BY <1>2, <1>3

\* Division keeps the order.
LEMMA DivMonotone ==
    ASSUME NEW i \in Nat \ {0}, NEW a \in Int, NEW b \in Int, a <= b
    PROVE  a \div i <= b \div i
<1> DEFINE qa == a \div i
           qb == b \div i
           ra == a % i
           rb == b % i
<1>1. /\ qa \in Int /\ ra \in 0 .. i - 1 /\ a = i * qa + ra
      /\ qb \in Int /\ rb \in 0 .. i - 1 /\ b = i * qb + rb
  BY DivMod
<1> HIDE DEF qa, qb, ra, rb
<1>2. i * (qa - qb) <= rb - ra BY <1>1
<1>3. qa - qb >= 1 => i * (qa - qb) >= i BY <1>1
<1>4. qa <= qb BY <1>1, <1>2, <1>3
<1> QED BY <1>4 DEF qa, qb
=============================================================================
