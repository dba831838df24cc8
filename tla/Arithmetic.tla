------------------------------ MODULE Arithmetic ------------------------------
(***************************************************************************)
(* Natural numbers: division with remainder by a number that is a          *)
(* parameter, such as the size of a chunk or of a machine word, and        *)
(* induction over a set of numbers.                                        *)
(***************************************************************************)
EXTENDS Integers, WellFoundedInduction, TLAPS
-----------------------------------------------------------------------------
\* Every set of natural numbers has a least element.
Less == OpToRel(<, Nat)

LEMMA LeastNumber ==
  ASSUME NEW T \in SUBSET Nat, T # {}
  PROVE  \E x \in T : \A y \in T : x <= y
<1>1. IsWellFoundedOn(Less, Nat)
  BY NatLessThanWellFounded DEF Less
<1>2. \A x, y \in Nat : <<x, y>> \in Less <=> x < y
  BY DEF Less, OpToRel
<1>3. PICK x \in T : \A y \in T : <<y, x>> \notin Less
  BY <1>1, WFMin
<1>4. ASSUME NEW y \in T
      PROVE  x <= y
  <2>1. x \in Nat /\ y \in Nat /\ ~(y < x)
    BY <1>2, <1>3
  <2> QED
    BY <2>1
<1> QED
  BY <1>3, <1>4

\* So a set of numbers with 0 that is closed under + 1 is all of them.  The
\* set takes the place of the predicate in the library's theorems.
LEMMA Induction ==
  ASSUME NEW P \in SUBSET Nat, 0 \in P, \A n \in P : n + 1 \in P
  PROVE  P = Nat
<1> SUFFICES ASSUME Nat \ P # {}
             PROVE  FALSE
  OBVIOUS
<1>1. PICK x \in Nat \ P : \A y \in Nat \ P : x <= y
  BY LeastNumber
<1>2. x # 0
  BY <1>1
<1>3. x - 1 \in Nat /\ x - 1 \in P
  BY <1>1, <1>2
<1> QED
  BY <1>1, <1>2, <1>3

LEMMA GreatestNumber ==
  ASSUME NEW n \in Nat, NEW u \in SUBSET (1 .. n), u # {}
  PROVE  \E x \in u : \A y \in u : y <= x
<1> DEFINE T == {k \in 0 .. n : n - k \in u}
<1>1. \A x \in u : n - x \in T /\ x = n - (n - x)
  OBVIOUS
<1>2. T \in SUBSET Nat
  OBVIOUS
<1> HIDE DEF T
<1>6. T # {}
  BY <1>1
<1>3. PICK k \in T : \A j \in T : k <= j
  BY <1>2, <1>6, LeastNumber
<1>4. k \in 0 .. n /\ n - k \in u
  BY <1>3 DEF T
<1>5. ASSUME NEW y \in u
      PROVE  y <= n - k
  <2>1. n - y \in T /\ y \in 1 .. n
    BY <1>1
  <2>2. k <= n - y
    BY <1>3, <2>1
  <2> QED
    BY <1>4, <2>1, <2>2
<1> QED
  BY <1>4, <1>5
-----------------------------------------------------------------------------
LEMMA DivMod ==
  ASSUME NEW a \in Nat, NEW w \in Nat \ {0}
  PROVE  /\ a \div w \in Int /\ a % w \in 0 .. w - 1
         /\ a = w * (a \div w) + (a % w)
OBVIOUS

LEMMA TimesPositive ==
  ASSUME NEW d \in Int, NEW w \in Nat \ {0}, d >= 1
  PROVE  w * d >= w
OBVIOUS

\* A number has one quotient and one remainder.
LEMMA DivModUnique ==
  ASSUME NEW w \in Nat \ {0}, NEW p \in Int, NEW q \in Int,
         NEW r \in 0 .. w - 1, NEW s \in 0 .. w - 1, w * p + r = w * q + s
  PROVE  p = q /\ r = s
<1>1. w * (p - q) = s - r /\ w * (q - p) = r - s
  OBVIOUS
<1>2. p - q >= 1 \/ q - p >= 1 \/ p = q
  OBVIOUS
<1>3. CASE p - q >= 1
  BY <1>1, <1>3, TimesPositive
<1>4. CASE q - p >= 1
  BY <1>1, <1>4, TimesPositive
<1> QED
  BY <1>1, <1>2, <1>3, <1>4

\* Whoever fits the equation is quotient and remainder.
LEMMA DivModOf ==
  ASSUME NEW w \in Nat \ {0}, NEW a \in Nat, NEW q \in Int, NEW r \in 0 .. w - 1,
         a = w * q + r
  PROVE  a \div w = q /\ a % w = r
<1> DEFINE p == a \div w
           s == a % w
<1>1. p \in Int /\ s \in 0 .. w - 1 /\ a = w * p + s
  BY DivMod
<1> HIDE DEF p, s
<1>2. p = q /\ s = r
  BY <1>1, DivModUnique
<1> QED
  BY <1>2 DEF p, s

LEMMA AddModulus ==
  ASSUME NEW a \in Nat, NEW w \in Nat \ {0}
  PROVE  (a + w) % w = a % w /\ (a + w) \div w = (a \div w) + 1
<1> DEFINE q == a \div w
           r == a % w
<1>1. q \in Int /\ r \in 0 .. w - 1 /\ a = w * q + r
  BY DivMod
<1> HIDE DEF q, r
<1>2. q + 1 \in Int /\ w * (q + 1) = w * q + w
  BY <1>1
<1>3. a + w \in Nat /\ a + w = w * (q + 1) + r
  BY <1>1, <1>2
<1>4. (a + w) \div w = q + 1 /\ (a + w) % w = r
  BY <1>1, <1>2, <1>3, DivModOf
<1> QED
  BY <1>4 DEF q, r

\* Reducing a summand changes nothing.
LEMMA RemainderOfSum ==
  ASSUME NEW a \in Nat, NEW b \in Nat, NEW w \in Nat \ {0}
  PROVE  ((a % w) + b) % w = (a + b) % w
<1> DEFINE q == a \div w
           r == a % w
           p == (r + b) \div w
           s == (r + b) % w
<1>1. q \in Int /\ r \in 0 .. w - 1 /\ a = w * q + r
  BY DivMod
<1> HIDE DEF q, r
<1>2. r + b \in Nat
  BY <1>1
<1>3. p \in Int /\ s \in 0 .. w - 1 /\ r + b = w * p + s
  BY <1>2, DivMod
<1> HIDE DEF p, s
<1>4. q + p \in Int /\ w * (q + p) = w * q + w * p
  BY <1>1, <1>3
<1>5. a + b \in Nat /\ a + b = w * (q + p) + s
  BY <1>1, <1>3, <1>4
<1>6. (a + b) % w = s
  BY <1>3, <1>4, <1>5, DivModOf
<1> QED
  BY <1>6 DEF r, s

\* The quotient of a natural number is one.
LEMMA DivNat ==
  ASSUME NEW a \in Nat, NEW w \in Nat \ {0}
  PROVE  a \div w \in Nat
OBVIOUS

\* Addition of two words: the sum of the remainders is below the second one
\* exactly when there is a carry.
LEMMA SumWithCarry ==
  ASSUME NEW w \in Nat \ {0}, NEW a \in Nat, NEW b \in Nat, NEW c \in Nat, c = a + b,
         NEW qa \in Int, NEW ra \in 0 .. w - 1, a = w * qa + ra,
         NEW qb \in Int, NEW rb \in 0 .. w - 1, b = w * qb + rb,
         NEW s, s = (ra + rb) % w
  PROVE  /\ c % w = s
         /\ c \div w = qa + qb + IF s < rb THEN 1 ELSE 0
<1> DEFINE q == qa + qb
           t == ra + rb
<1>3. q \in Int /\ t \in Nat /\ w * q = w * qa + w * qb /\ w * (q + 1) = w * qa + w * qb + w
  OBVIOUS
<1>4. c = w * q + t
  BY <1>3
<1>5. CASE t < w
  <2>1. t \in 0 .. w - 1 /\ t = w * 0 + t
    BY <1>3, <1>5
  <2>2. ~(t < rb)
    OBVIOUS
  <2> HIDE DEF t, q
  <2>3. t % w = t
    BY <1>3, <2>1, DivModOf
  <2>4. c % w = t /\ c \div w = q
    BY <1>3, <1>4, <2>1, DivModOf
  <2>5. c \div w = q /\ c % w = t % w /\ ~(t % w < rb)
    BY <2>2, <2>3, <2>4
  <2> QED
    BY <2>5 DEF q, t
<1>6. CASE t >= w
  <2> DEFINE u == t - w
  <2>1. u \in 0 .. w - 1 /\ t = w * 1 + u /\ t = w + u
    BY <1>3, <1>6
  <2>2. w * (q + 1) = w * q + w /\ q + 1 \in Int
    BY <1>3
  <2>3. u < rb
    OBVIOUS
  <2> HIDE DEF u, t, q
  <2>4. c = w * (q + 1) + u
    <3> DEFINE y == w * q
    <3>1. y \in Int /\ c = y + t /\ w * (q + 1) = y + w
      BY <1>3, <1>4, <2>2
    <3> HIDE DEF y
    <3> QED
      BY <2>1, <3>1
  <2>5. t % w = u
    BY <1>3, <2>1, DivModOf
  <2>6. c % w = u /\ c \div w = q + 1
    BY <2>1, <2>2, <2>4, DivModOf
  <2>7. c \div w = q + 1 /\ c % w = t % w /\ t % w < rb
    BY <2>3, <2>5, <2>6
  <2> QED
    BY <2>7 DEF q, t
<1> QED
  BY <1>3, <1>5, <1>6
=============================================================================
