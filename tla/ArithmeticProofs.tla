--------------------------- MODULE ArithmeticProofs ---------------------------
(***************************************************************************)
(* What the proofs need of the natural numbers: division with a remainder, *)
(* and induction.  The library's induction theorems take an operator,      *)
(* which the provers cannot instantiate; SetInduction says it of a set.    *)
(***************************************************************************)
EXTENDS Integers, TLAPS, WellFoundedInduction

\* Induction: a set with 0 in it, and with each number the next, has them all.
LEMMA SetInduction ==
  ASSUME NEW S, 0 \in S, \A n \in Nat : n \in S => n + 1 \in S
  PROVE  Nat \subseteq S
<1> DEFINE T == Nat \ S
<1> DEFINE R == {ss \in Nat \X Nat : ss[1] < ss[2]}
<1> SUFFICES ASSUME T # {} PROVE FALSE
  OBVIOUS
<1>1. IsWellFoundedOn(R, Nat)
  BY NatLessThanWellFounded DEF OpToRel
<1>2. PICK n \in T : \A m \in T : <<m, n>> \notin R
  <2>1. T \subseteq Nat
    OBVIOUS
  <2> HIDE DEF T, R
  <2> QED
    BY <1>1, <2>1, WFMin
<1>3. n - 1 \in Nat /\ n - 1 < n /\ n - 1 + 1 = n
  BY <1>2
<1>4. n - 1 \in T /\ <<n - 1, n>> \in R
  BY <1>3
<1> QED
  BY <1>2, <1>4

-----------------------------------------------------------------------------

\* Division with a remainder: \div rounds down.
LEMMA Division ==
  ASSUME NEW a \in Int, NEW b \in Nat \ {0}
  PROVE  /\ a \div b \in Int
         /\ a % b \in 0 .. b - 1
         /\ a = b * (a \div b) + (a % b)
         /\ a >= 0 => a \div b >= 0
<1>1. a \div b \in Int /\ a % b \in 0 .. b - 1 /\ (a >= 0 => a \div b >= 0)
  OBVIOUS
<1>2. a = b * (a \div b) + (a % b)
  OBVIOUS
<1> QED
  BY <1>1, <1>2

\* Division with a remainder, of a natural number, in either order of the factors.
LEMMA Dividing ==
  ASSUME NEW a \in Nat, NEW b \in Nat \ {0}
  PROVE  /\ a \div b \in Nat /\ a % b \in 0 .. b - 1
         /\ a = b * (a \div b) + (a % b)
         /\ a = (a \div b) * b + (a % b)
<1>1. a \div b \in Int /\ a % b \in 0 .. b - 1 /\ a \div b >= 0
  OBVIOUS
<1>2. a = b * (a \div b) + (a % b)
  BY Division
<1>3. b * (a \div b) = (a \div b) * b
  BY <1>1
<1> QED
  BY <1>1, <1>2, <1>3

\* A quotient is below a bound if and only if the number is below the multiple.
LEMMA QuotientBelow ==
  ASSUME NEW a \in Nat, NEW b \in Nat \ {0}, NEW q \in Nat
  PROVE  a \div b < q <=> a < b * q
<1> DEFINE d == a \div b
<1> DEFINE r == a % b
<1>1. d \in Nat /\ r \in 0 .. b - 1 /\ a = b * d + r
  BY Dividing
<1> HIDE DEF d, r
<1>2. ASSUME d < q PROVE a < b * q
  <2>1. b * (d + 1) = b * d + b
    BY <1>1
  <2>2. b * (d + 1) <= b * q
    BY <1>1, <1>2
  <2> QED
    BY <1>1, <2>1, <2>2
<1>3. ASSUME a < b * q PROVE d < q
  <2> SUFFICES ASSUME d >= q PROVE FALSE
    BY <1>1
  <2>1. b * d >= b * q
    BY <1>1
  <2> QED
    BY <1>1, <1>3, <2>1
<1> QED
  BY <1>2, <1>3 DEF d

\* The quotient and the remainder are the only numbers that are such.
LEMMA QuotientIs ==
  ASSUME NEW a \in Nat, NEW b \in Nat \ {0}, NEW q \in Nat, NEW r \in 0 .. b - 1,
         a = q * b + r
  PROVE  a \div b = q /\ a % b = r
<1>1. q * b \in Nat /\ q * b = b * q /\ b * (q + 1) = q * b + b
  OBVIOUS
<1>2. a \div b < q + 1
  BY <1>1, QuotientBelow
<1>3. ~(a \div b < q)
  BY <1>1, QuotientBelow
<1>4. a \div b = q
  BY <1>2, <1>3, Dividing
<1>5. a = (a \div b) * b + (a % b) /\ a % b \in Int
  BY Dividing
<1> QED
  BY <1>1, <1>4, <1>5
=============================================================================
