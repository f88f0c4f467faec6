------------------------------ MODULE Numbers ------------------------------
(***************************************************************************)
(* What the proofs need to know of numbers.  The induction theorems of the *)
(* library take an operator as a parameter; here the predicate is a set    *)
(* (EveryNumber, EveryTurn), drawn from the well-founded minimum.  A loop  *)
(* of the code is a function with one value for each turn (LoopRuns), and  *)
(* a number is what its bits count up to (Counted, Counting).              *)
(***************************************************************************)
EXTENDS Integers, Sequences, FiniteSetTheorems, WellFoundedInduction, TLAPS

(* Induction, and the loops of the code.                                   *)

Below == {ss \in Nat \X Nat : ss[1] < ss[2]}

LEMMA BelowIsWellFounded == IsWellFoundedOn(Below, Nat)
<1>1. OpToRel(<, Nat) = Below
  BY DEF OpToRel, Below
<1> QED
  BY <1>1, NatLessThanWellFounded

\* Induction, of a set of numbers in place of a predicate.
LEMMA EveryNumber ==
    ASSUME NEW P, 0 \in P, \A n \in Nat : n \in P => n + 1 \in P
    PROVE  Nat \subseteq P
<1> DEFINE Missing == Nat \ P
<1> SUFFICES ASSUME Missing # {} PROVE FALSE
  OBVIOUS
<1>2. PICK least \in Missing : \A n \in Missing : <<n, least>> \notin Below
  <2>1. Missing \subseteq Nat
    OBVIOUS
  <2> HIDE DEF Missing
  <2> QED
    BY BelowIsWellFounded, <2>1, WFMin
<1>3. least - 1 \in Nat /\ <<least - 1, least>> \in Below /\ (least - 1) + 1 = least
  BY <1>2 DEF Below
<1> QED
  BY <1>2, <1>3

\* Two functions that start alike and go on alike agree.
LEMMA SameRecursion ==
    ASSUME NEW n \in Nat, NEW f, NEW g, f[0] = g[0],
           \A k \in 1 .. n : f[k - 1] = g[k - 1] => f[k] = g[k]
    PROVE  \A k \in 0 .. n : f[k] = g[k]
<1> DEFINE P == {k \in Nat : k <= n => f[k] = g[k]}
<1>1. 0 \in P
  OBVIOUS
<1>2. ASSUME NEW k \in Nat, k \in P PROVE k + 1 \in P
  <2>1. CASE k + 1 <= n
    <3>1. k + 1 \in 1 .. n /\ (k + 1) - 1 = k /\ k <= n
      BY <2>1
    <3> QED
      BY <1>2, <3>1
  <2>2. CASE ~(k + 1 <= n)
    BY <2>2
  <2> QED
    BY <2>1, <2>2
<1> HIDE DEF P
<1>3. Nat \subseteq P
  BY <1>1, <1>2, EveryNumber
<1> QED
  BY <1>3 DEF P

\* What holds before the loop and is kept by each turn holds throughout.
LEMMA EveryTurn ==
    ASSUME NEW n \in Nat, NEW P, 0 \in P, \A k \in 1 .. n : k - 1 \in P => k \in P
    PROVE  0 .. n \subseteq P
<1> DEFINE Holding == {k \in Nat : k \in P \/ k > n}
<1>1. 0 \in Holding
  OBVIOUS
<1>2. ASSUME NEW k \in Nat, k \in Holding PROVE k + 1 \in Holding
  <2>1. CASE k + 1 > n
    BY <2>1
  <2>2. CASE ~(k + 1 > n)
    <3>1. k \in P /\ k + 1 \in 1 .. n /\ (k + 1) - 1 = k
      BY <1>2, <2>2
    <3> QED
      BY <3>1
  <2> QED
    BY <2>1, <2>2
<1> HIDE DEF Holding
<1>3. Nat \subseteq Holding
  BY <1>1, <1>2, EveryNumber
<1> QED
  BY <1>3 DEF Holding

\* The states of a loop of n turns from a, turn k by F.
Runs(S, a, F, n) ==
    {h \in [0 .. n -> S] : h[0] = a /\ \A k \in 1 .. n : h[k] = F[<<k, h[k - 1]>>]}

LEMMA LoopRuns ==
    ASSUME NEW S, NEW a \in S, NEW n \in Nat, NEW F \in [(1 .. n) \X S -> S]
    PROVE  Runs(S, a, F, n) # {}
<1> DEFINE P == {k \in Nat : Runs(S, a, F, k) # {}}
<1>1. 0 \in P
  <2>1. [i \in 0 .. 0 |-> a] \in Runs(S, a, F, 0)
    BY DEF Runs
  <2> QED
    BY <2>1
<1>2. ASSUME NEW k \in 1 .. n, k - 1 \in P PROVE k \in P
  <2>1. PICK h \in Runs(S, a, F, k - 1) : TRUE
    BY <1>2
  <2> DEFINE g == [i \in 0 .. k |-> IF i <= k - 1 THEN h[i] ELSE F[<<k, h[k - 1]>>]]
  <2>2. /\ h \in [0 .. k - 1 -> S] /\ h[0] = a
        /\ \A i \in 1 .. k - 1 : h[i] = F[<<i, h[i - 1]>>]
    BY <2>1 DEF Runs
  <2>3. k - 1 \in 0 .. k - 1 /\ h[k - 1] \in S /\ <<k, h[k - 1]>> \in (1 .. n) \X S
    BY <2>2
  <2>4. F[<<k, h[k - 1]>>] \in S
    BY <2>3
  <2>5. g \in [0 .. k -> S]
    <3>1. ASSUME NEW i \in 0 .. k PROVE g[i] \in S
      <4>1. CASE i <= k - 1
        <5>1. i \in 0 .. k - 1
          BY <4>1
        <5> QED
          BY <5>1, <2>2
      <4>2. CASE ~(i <= k - 1)
        BY <4>2, <2>4
      <4> QED
        BY <4>1, <4>2
    <3> QED
      BY <3>1
  <2>6. g[0] = a
    BY <2>2
  <2>7. ASSUME NEW i \in 1 .. k PROVE g[i] = F[<<i, g[i - 1]>>]
    <3>1. i \in 0 .. k /\ i - 1 \in 0 .. k /\ i - 1 <= k - 1
      OBVIOUS
    <3>2. g[i - 1] = h[i - 1]
      BY <3>1
    <3>3. CASE i = k
      BY <3>1, <3>2, <3>3
    <3>4. CASE i # k
      <4>1. i \in 1 .. k - 1 /\ i <= k - 1
        BY <3>4
      <4>2. g[i] = h[i]
        BY <3>1, <4>1
      <4> QED
        BY <4>1, <4>2, <3>2, <2>2
    <3> QED
      BY <3>3, <3>4
  <2> HIDE DEF g
  <2>8. g \in Runs(S, a, F, k)
    BY <2>5, <2>6, <2>7 DEF Runs
  <2> QED
    BY <2>8
<1> HIDE DEF P
<1>3. n \in P
  BY <1>1, <1>2, EveryTurn
<1> QED
  BY <1>3 DEF P

-----------------------------------------------------------------------------
(* Powers of two, and quotients.                                           *)

LEMMA PowersOfTwo ==
    /\ 2 ^ 0 = 1
    /\ \A n \in Nat : 2 ^ n \in Nat \ {0} /\ 2 ^ (n + 1) = 2 * 2 ^ n
<1>1. ASSUME NEW n \in Nat PROVE 2 ^ n = Cardinality(SUBSET (1 .. n)) /\ 2 ^ n \in Nat
  <2>1. IsFiniteSet(1 .. n) /\ Cardinality(1 .. n) = n
    <3>1. 1 \in Int /\ n \in Int /\ (IF 1 > n THEN 0 ELSE (n - 1) + 1) = n
      OBVIOUS
    <3> QED
      BY <3>1, FS_Interval
  <2> QED
    BY <2>1, FS_SUBSET, FS_CardinalityType
<1>2. ASSUME NEW n \in Nat PROVE 2 ^ (n + 1) = 2 * 2 ^ n
  <2> DEFINE A == SUBSET (1 .. n)
             B == {s \in SUBSET (1 .. n + 1) : n + 1 \in s}
             m == [s \in A |-> s \cup {n + 1}]
  <2>1. SUBSET (1 .. n + 1) = A \cup B /\ A \cap B = {}
    <3>1. \A s \in SUBSET (1 .. n + 1) : n + 1 \notin s => s \in SUBSET (1 .. n)
      OBVIOUS
    <3>2. n + 1 \notin 1 .. n /\ 1 .. n \subseteq 1 .. n + 1
      OBVIOUS
    <3> QED
      BY <3>1, <3>2
  <2>2. m \in [A -> B]
    OBVIOUS
  <2>3. IsInjective(m)
    <3>1. ASSUME NEW s \in A, NEW t \in A, m[s] = m[t] PROVE s = t
      <4>1. n + 1 \notin s /\ n + 1 \notin t
        OBVIOUS
      <4>2. s \cup {n + 1} = t \cup {n + 1}
        BY <3>1
      <4> QED
        BY <4>1, <4>2
    <3> QED
      BY <3>1 DEF IsInjective
  <2>4. \A t \in B : \E s \in A : m[s] = t
    <3> TAKE t \in B
    <3>1. t \ {n + 1} \in A
      OBVIOUS
    <3>2. m[t \ {n + 1}] = t
      BY <3>1
    <3> QED
      BY <3>1, <3>2
  <2>5. m \in Bijection(A, B)
    BY <2>2, <2>3, <2>4 DEF Bijection, Injection, Surjection
  <2>6. PICK a \in Nat : a = 2 ^ n /\ a = Cardinality(A)
    BY <1>1
  <2>7. n + 1 \in Nat /\ 1 \in Int /\ n \in Int
    OBVIOUS
  <2>8. IsFiniteSet(A)
    BY <2>7, FS_Interval, FS_SUBSET
  <2>9. 2 ^ (n + 1) = Cardinality(A \cup B)
    BY <1>1, <2>1, <2>7
  <2> HIDE DEF A, B, m
  <2>10. IsFiniteSet(B) /\ Cardinality(B) = a
    BY <2>5, <2>6, <2>8, FS_Bijection DEF ExistsBijection
  <2>11. Cardinality(A \cup B) = (a + a) - 0
    <3>1. Cardinality(A \cup B) = Cardinality(A) + Cardinality(B) - Cardinality(A \cap B)
      BY <2>8, <2>10, FS_Union
    <3>2. Cardinality(A \cap B) = 0
      BY <2>1, FS_EmptySet, Zenon
    <3> QED
      BY <2>6, <2>10, <3>1, <3>2
  <2> QED
    BY <2>6, <2>9, <2>11
<1>3. ASSUME NEW n \in Nat PROVE 2 ^ n # 0
  <2>1. {} \in SUBSET (1 .. n)
    OBVIOUS
  <2>2. IsFiniteSet(SUBSET (1 .. n))
    <3>1. 1 \in Int /\ n \in Int
      OBVIOUS
    <3> QED
      BY <3>1, FS_Interval, FS_SUBSET
  <2> QED
    BY <1>1, <2>1, <2>2, FS_EmptySet
<1>4. 2 ^ 0 = 1
  OBVIOUS
<1> QED
  BY <1>1, <1>2, <1>3, <1>4

LEMMA PowersGrow ==
    ASSUME NEW n \in Nat, NEW k \in 0 .. n
    PROVE  2 ^ k <= 2 ^ n
<1> DEFINE P == {m \in Nat : \A i \in 0 .. m : 2 ^ i <= 2 ^ m}
<1>1. 0 \in P
  <2>1. ASSUME NEW i \in 0 .. 0 PROVE 2 ^ i <= 2 ^ 0
    <3>1. i = 0
      OBVIOUS
    <3>2. 2 ^ i = 1 /\ 2 ^ 0 = 1
      BY <3>1, PowersOfTwo
    <3> QED
      BY <3>2
  <2> QED
    BY <2>1
<1>2. ASSUME NEW m \in Nat, m \in P PROVE m + 1 \in P
  <2>1. ASSUME NEW i \in 0 .. m + 1 PROVE 2 ^ i <= 2 ^ (m + 1)
    <3>1. PICK a \in Nat : a = 2 ^ m /\ 2 ^ (m + 1) = 2 * a
      BY PowersOfTwo
    <3>2. CASE i = m + 1
      BY <3>1, <3>2
    <3>3. CASE i # m + 1
      <4>1. i \in 0 .. m /\ i \in Nat
        BY <3>3
      <4>2. PICK b \in Nat : b = 2 ^ i
        BY <4>1, PowersOfTwo
      <4>3. b <= a
        BY <1>2, <3>1, <4>1, <4>2
      <4> QED
        BY <3>1, <4>2, <4>3
    <3> QED
      BY <3>2, <3>3
  <2> QED
    BY <2>1
<1> HIDE DEF P
<1>3. n \in P
  BY <1>1, <1>2, EveryNumber
<1> QED
  BY <1>3 DEF P

LEMMA PowersAdd ==
    ASSUME NEW i \in Nat, NEW j \in Nat
    PROVE  2 ^ (i + j) = 2 ^ i * 2 ^ j
<1> DEFINE P == {k \in Nat : 2 ^ (i + k) = 2 ^ i * 2 ^ k}
<1>1. PICK a \in Nat : a = 2 ^ i
  BY PowersOfTwo
<1>2. 0 \in P
  <2>1. i + 0 = i /\ a * 1 = a
    OBVIOUS
  <2> QED
    BY <1>1, <2>1, PowersOfTwo
<1>3. ASSUME NEW k \in Nat, k \in P PROVE k + 1 \in P
  <2>1. PICK b \in Nat : b = 2 ^ k /\ 2 ^ (k + 1) = 2 * b
    BY PowersOfTwo
  <2>2. i + k \in Nat /\ i + (k + 1) = (i + k) + 1
    OBVIOUS
  <2>3. PICK c \in Nat : c = 2 ^ (i + k) /\ 2 ^ (i + (k + 1)) = 2 * c
    BY <2>2, PowersOfTwo
  <2>4. c = a * b
    BY <1>1, <1>3, <2>1, <2>3
  <2>5. a * (2 * b) = 2 * (a * b)
    OBVIOUS
  <2>6. 2 ^ (i + (k + 1)) = 2 ^ i * 2 ^ (k + 1)
    BY <1>1, <2>1, <2>3, <2>4, <2>5
  <2> QED
    BY <2>6
<1> HIDE DEF P
<1>4. j \in P
  BY <1>2, <1>3, EveryNumber
<1> QED
  BY <1>4 DEF P

\* A quotient is known by where its multiple lies.
LEMMA QuotientIs ==
    ASSUME NEW a \in Int, NEW d \in Nat \ {0}, NEW q \in Int, NEW r \in 0 .. d - 1,
           a = (d * q) + r
    PROVE  a \div d = q /\ a % d = r
<1>1. PICK x \in Int : x = d * q
  OBVIOUS
<1> QED
  BY <1>1

\* Halving a quotient.
LEMMA Halved ==
    ASSUME NEW a \in Nat, NEW d \in Nat \ {0}
    PROVE  (a \div d) \div 2 = a \div (2 * d)
<1>1. PICK q \in Nat : q = a \div d
  OBVIOUS
<1>2. PICK r \in 0 .. d - 1 : a = (d * q) + r
  BY <1>1
<1>3. PICK h \in Nat, b \in {0, 1} : q = (2 * h) + b /\ q \div 2 = h
  OBVIOUS
<1>4. (d * b) + r \in 0 .. (2 * d) - 1
  <2>1. CASE b = 0
    BY <2>1
  <2>2. CASE b = 1
    BY <2>2
  <2> QED
    BY <2>1, <2>2
<1>5. d * q = (2 * d) * h + (d * b)
  BY <1>3
<1>6. a = ((2 * d) * h) + ((d * b) + r)
  <2>1. PICK x \in Nat : x = (2 * d) * h
    OBVIOUS
  <2>2. PICK y \in Nat : y = d * b
    OBVIOUS
  <2> QED
    BY <1>2, <1>5, <2>1, <2>2
<1>7. a \div (2 * d) = h
  <2>1. 2 * d \in Nat \ {0}
    OBVIOUS
  <2> QED
    BY <1>4, <1>6, <2>1, QuotientIs
<1> QED
  BY <1>1, <1>3, <1>7

LEMMA DividedTwice ==
    ASSUME NEW r \in Nat, NEW i \in Nat, NEW j \in Nat, NEW t, t = i + j
    PROVE  (r \div 2 ^ i) \div 2 ^ j = r \div 2 ^ t
<1> DEFINE P == {k \in Nat : (r \div 2 ^ i) \div 2 ^ k = r \div 2 ^ (i + k)}
<1>1. PICK q \in Nat : q = r \div 2 ^ i
  BY PowersOfTwo
<1>2. 0 \in P
  <2>1. q \div 1 = q /\ i + 0 = i
    OBVIOUS
  <2> QED
    BY <1>1, <2>1, PowersOfTwo
<1>3. ASSUME NEW k \in Nat, k \in P PROVE k + 1 \in P
  <2>1. PICK a \in Nat \ {0} : a = 2 ^ k /\ 2 ^ (k + 1) = 2 * a
    BY PowersOfTwo
  <2>2. i + k \in Nat /\ i + (k + 1) = (i + k) + 1
    OBVIOUS
  <2>3. PICK b \in Nat \ {0} : b = 2 ^ (i + k) /\ 2 ^ (i + (k + 1)) = 2 * b
    BY <2>2, PowersOfTwo
  <2>4. q \div a = r \div b
    BY <1>1, <1>3, <2>1, <2>3
  <2>5. q \div (2 * a) = (q \div a) \div 2 /\ r \div (2 * b) = (r \div b) \div 2
    BY Halved
  <2>6. q \div (2 * a) = r \div (2 * b)
    BY <2>4, <2>5
  <2>7. q \div 2 ^ (k + 1) = r \div 2 ^ (i + (k + 1))
    BY <2>1, <2>3, <2>6
  <2>8. (r \div 2 ^ i) \div 2 ^ (k + 1) = r \div 2 ^ (i + (k + 1))
    BY <1>1, <2>7, Zenon
  <2>9. k + 1 \in Nat
    OBVIOUS
  <2> QED
    BY <2>8, <2>9
<1> HIDE DEF P
<1>4. j \in P
  BY <1>2, <1>3, EveryNumber
<1> QED
  BY <1>4 DEF P

\* The low bits of a number are those of its remainder.
LEMMA LowBits ==
    ASSUME NEW r \in Nat, NEW i \in Nat, NEW j \in 0 .. i - 1
    PROVE  ((r % 2 ^ i) \div 2 ^ j) % 2 = (r \div 2 ^ j) % 2
<1>1. PICK d \in Nat \ {0} : d = 2 ^ i
  BY PowersOfTwo
<1>2. PICK q \in Nat, s \in Nat : r = (d * q) + s /\ s = r % 2 ^ i
  <2>1. r \div d \in Nat /\ r % d \in Nat /\ r = (d * (r \div d)) + (r % d)
    OBVIOUS
  <2> QED
    BY <1>1, <2>1
<1> DEFINE P == {k \in 0 .. i : r \div 2 ^ k = ((2 ^ (i - k)) * q) + (s \div 2 ^ k)}
<1>3. 0 \in P
  <2>1. i - 0 = i /\ r \div 1 = r /\ s \div 1 = s
    OBVIOUS
  <2> QED
    BY <1>1, <1>2, <2>1, PowersOfTwo
<1>4. ASSUME NEW k \in 1 .. i, k - 1 \in P PROVE k \in P
  <2>1. k - 1 \in Nat /\ (k - 1) + 1 = k /\ i - k \in Nat /\ (i - k) + 1 = i - (k - 1)
        /\ k \in 0 .. i
    OBVIOUS
  <2>2. PICK a \in Nat \ {0} : a = 2 ^ (k - 1) /\ 2 ^ k = 2 * a
    BY <2>1, PowersOfTwo
  <2>3. PICK b \in Nat \ {0} : b = 2 ^ (i - k) /\ 2 ^ (i - (k - 1)) = 2 * b
    BY <2>1, PowersOfTwo
  <2>4. r \div a = ((2 * b) * q) + (s \div a)
    BY <1>4, <2>2, <2>3
  <2>5. PICK x \in Nat, y \in Nat : x = b * q /\ y = s \div a /\ (2 * b) * q = 2 * x
    <3>1. b * q \in Nat /\ s \div a \in Nat /\ (2 * b) * q = 2 * (b * q)
      OBVIOUS
    <3> QED
      BY <3>1
  <2>6. (r \div a) \div 2 = x + (y \div 2)
    BY <2>4, <2>5
  <2>7. r \div (2 * a) = (r \div a) \div 2 /\ s \div (2 * a) = (s \div a) \div 2
    BY Halved
  <2>8. r \div (2 * a) = (b * q) + (s \div (2 * a))
    BY <2>5, <2>6, <2>7
  <2> QED
    BY <2>1, <2>2, <2>3, <2>8
<1> HIDE DEF P
<1>5. 0 .. i \subseteq P
  BY <1>3, <1>4, EveryTurn
<1>6. r \div 2 ^ j = ((2 ^ (i - j)) * q) + (s \div 2 ^ j)
  <2>1. j \in 0 .. i
    OBVIOUS
  <2>2. j \in P
    BY <1>5, <2>1
  <2> QED
    BY <2>2 DEF P
<1>7. PICK b \in Nat : 2 ^ (i - j) = 2 * b
  <2>1. i - j - 1 \in Nat /\ (i - j - 1) + 1 = i - j
    OBVIOUS
  <2> QED
    BY <2>1, PowersOfTwo
<1>8. PICK x \in Nat, y \in Nat : x = b * q /\ (2 * b) * q = 2 * x /\ y = s \div 2 ^ j
  <2>1. b * q \in Nat /\ (2 * b) * q = 2 * (b * q)
    OBVIOUS
  <2>2. s \div 2 ^ j \in Nat
    <3>1. j \in Nat
      OBVIOUS
    <3>2. PICK a \in Nat \ {0} : a = 2 ^ j
      BY <3>1, PowersOfTwo
    <3> QED
      BY <3>2
  <2> QED
    BY <2>1, <2>2
<1>9. ((2 * x) + y) % 2 = y % 2
  OBVIOUS
<1> QED
  BY <1>2, <1>6, <1>7, <1>8, <1>9

-----------------------------------------------------------------------------
(* Numbers and their bits.                                                 *)

\* Bits count up to a value, the first of them first.
CountUp(v, b, w) == v[0] = 0 /\ \A k \in 1 .. w : b[k] \in {0, 1} /\ v[k] = (2 * v[k - 1]) + b[k]

LEMMA CountFits ==
    ASSUME NEW w \in Nat, NEW v, NEW b, CountUp(v, b, w)
    PROVE  \A k \in 0 .. w : v[k] \in 0 .. 2 ^ k - 1
<1> DEFINE P == {k \in 0 .. w : v[k] \in 0 .. 2 ^ k - 1}
<1>1. 0 \in P
  BY PowersOfTwo DEF CountUp
<1>2. ASSUME NEW k \in 1 .. w, k - 1 \in P PROVE k \in P
  <2>1. k - 1 \in Nat /\ (k - 1) + 1 = k
    OBVIOUS
  <2>2. PICK a \in Nat : a = 2 ^ (k - 1) /\ 2 ^ k = 2 * a
    BY <2>1, PowersOfTwo
  <2>3. PICK u \in 0 .. a - 1 : u = v[k - 1]
    BY <1>2, <2>2
  <2>4. PICK bit \in {0, 1} : bit = b[k] /\ v[k] = (2 * u) + bit
    BY <2>3 DEF CountUp
  <2>5. v[k] \in 0 .. (2 * a) - 1
    BY <2>4
  <2> QED
    BY <2>2, <2>5
<1> HIDE DEF P
<1>3. 0 .. w \subseteq P
  BY <1>1, <1>2, EveryTurn
<1> QED
  BY <1>3 DEF P

\* The last k bits taken off leave what was counted before them.
LEMMA CountBefore ==
    ASSUME NEW w \in Nat, NEW v, NEW b, CountUp(v, b, w)
    PROVE  \A k \in 0 .. w : v[w] \div 2 ^ k = v[w - k]
<1> DEFINE P == {k \in 0 .. w : v[w] \div 2 ^ k = v[w - k]}
<1>0. PICK whole \in Nat : whole = v[w]
  <2>1. w \in 0 .. w
    OBVIOUS
  <2>2. v[w] \in 0 .. 2 ^ w - 1
    BY <2>1, CountFits
  <2> QED
    BY <2>2
<1>1. 0 \in P
  <2>1. w - 0 = w /\ 0 \in 0 .. w /\ whole \div 1 = whole
    OBVIOUS
  <2> QED
    BY <1>0, <2>1, PowersOfTwo
<1>2. ASSUME NEW k \in 1 .. w, k - 1 \in P PROVE k \in P
  <2>1. k - 1 \in Nat /\ (k - 1) + 1 = k /\ w - (k - 1) \in 1 .. w /\ (w - (k - 1)) - 1 = w - k
        /\ w - k \in 0 .. w /\ k \in 0 .. w
    OBVIOUS
  <2>2. PICK a \in Nat \ {0} : a = 2 ^ (k - 1) /\ 2 ^ k = 2 * a
    BY <2>1, PowersOfTwo
  <2>3. PICK u \in Nat : u = v[w - k]
    <3>1. v[w - k] \in 0 .. 2 ^ (w - k) - 1
      BY <2>1, CountFits
    <3> QED
      BY <3>1
  <2>4. PICK bit \in {0, 1} : v[w - (k - 1)] = (2 * u) + bit
    BY <2>1, <2>3 DEF CountUp
  <2>5. whole \div a = (2 * u) + bit
    BY <1>0, <1>2, <2>2, <2>4
  <2>6. whole \div (2 * a) = ((2 * u) + bit) \div 2
    BY <2>5, Halved
  <2>7. ((2 * u) + bit) \div 2 = u
    OBVIOUS
  <2> QED
    BY <1>0, <2>1, <2>2, <2>3, <2>6, <2>7
<1> HIDE DEF P
<1>3. 0 .. w \subseteq P
  BY <1>1, <1>2, EveryTurn
<1> QED
  BY <1>3 DEF P

\* The bits of what was counted are the bits it was counted from.
LEMMA Counted ==
    ASSUME NEW w \in Nat, NEW v, NEW b, CountUp(v, b, w)
    PROVE  /\ v[w] \in 0 .. 2 ^ w - 1
           /\ \A k \in 1 .. w : (v[w] \div 2 ^ (w - k)) % 2 = b[k]
<1>1. v[w] \in 0 .. 2 ^ w - 1
  <2>1. w \in 0 .. w
    OBVIOUS
  <2> QED
    BY <2>1, CountFits
<1>2. ASSUME NEW k \in 1 .. w PROVE (v[w] \div 2 ^ (w - k)) % 2 = b[k]
  <2>1. w - k \in 0 .. w /\ w - (w - k) = k /\ k - 1 \in 0 .. w
    OBVIOUS
  <2>2. v[w] \div 2 ^ (w - k) = v[k]
    BY <2>1, CountBefore
  <2>3. PICK u \in Nat : u = v[k - 1]
    <3>1. v[k - 1] \in 0 .. 2 ^ (k - 1) - 1
      BY <2>1, CountFits
    <3> QED
      BY <3>1
  <2>4. PICK bit \in {0, 1} : bit = b[k] /\ v[k] = (2 * u) + bit
    BY <2>3 DEF CountUp
  <2>5. ((2 * u) + bit) % 2 = bit
    OBVIOUS
  <2> QED
    BY <2>2, <2>4, <2>5
<1> QED
  BY <1>1, <1>2

\* The bits of a value count up to it.
LEMMA Counting ==
    ASSUME NEW w \in Nat, NEW v, NEW b, CountUp(v, b, w), NEW r \in 0 .. 2 ^ w - 1,
           \A k \in 1 .. w : b[k] = (r \div 2 ^ (w - k)) % 2
    PROVE  v[w] = r
<1> DEFINE P == {k \in 0 .. w : v[k] = r \div 2 ^ (w - k)}
<1>0. r \in Nat /\ 2 ^ w \in Nat
  BY PowersOfTwo
<1>1. 0 \in P
  <2>1. PICK a \in Nat : a = 2 ^ w
    BY <1>0
  <2>2. r \div a = 0
    BY <2>1
  <2>3. w - 0 = w /\ v[0] = 0
    BY DEF CountUp
  <2> QED
    BY <2>1, <2>2, <2>3
<1>2. ASSUME NEW k \in 1 .. w, k - 1 \in P PROVE k \in P
  <2>1. w - k \in Nat /\ (w - k) + 1 = w - (k - 1) /\ k \in 0 .. w
    OBVIOUS
  <2>2. PICK a \in Nat \ {0} : a = 2 ^ (w - k) /\ 2 ^ (w - (k - 1)) = 2 * a
    BY <2>1, PowersOfTwo
  <2>3. PICK q \in Nat : q = r \div a
    BY <1>0
  <2>4. v[k - 1] = q \div 2
    <3>1. v[k - 1] = r \div 2 ^ (w - (k - 1))
      BY <1>2
    <3>2. r \div (2 * a) = (r \div a) \div 2
      BY <1>0, <2>2, Halved
    <3> QED
      BY <2>2, <2>3, <3>1, <3>2
  <2>5. v[k] = (2 * v[k - 1]) + (q % 2)
    BY <2>2, <2>3 DEF CountUp
  <2>6. (2 * (q \div 2)) + (q % 2) = q
    OBVIOUS
  <2> QED
    BY <2>1, <2>2, <2>3, <2>4, <2>5, <2>6
<1> HIDE DEF P
<1>3. 0 .. w \subseteq P
  BY <1>1, <1>2, EveryTurn
<1>4. w \in P
  <2>1. w \in 0 .. w
    OBVIOUS
  <2> QED
    BY <1>3, <2>1
<1>5. w - w = 0 /\ r \div 1 = r
  BY <1>0
<1> QED
  BY <1>4, <1>5, PowersOfTwo DEF P

-----------------------------------------------------------------------------
(* Sequences.                                                              *)

LEMMA SequenceOfMore ==
    ASSUME NEW S, NEW T, S \subseteq T, NEW s \in Seq(S)
    PROVE  s \in Seq(T)
<1>1. s \in [1 .. Len(s) -> T] /\ Len(s) \in Nat
  OBVIOUS
<1> QED
  BY <1>1

LEMMA Joined ==
    ASSUME NEW S, NEW a \in Seq(S), NEW b \in Seq(S)
    PROVE  a \o b \in Seq(S) /\ Len(a \o b) = Len(a) + Len(b)
OBVIOUS

LEMMA JoinedAt ==
    ASSUME NEW S, NEW a \in Seq(S), NEW b \in Seq(S), NEW k \in 1 .. Len(b)
    PROVE  (a \o b)[Len(a) + k] = b[k]
<1>1. Len(a) + k \in 1 .. Len(a) + Len(b) /\ ~(Len(a) + k <= Len(a)) /\ (Len(a) + k) - Len(a) = k
  OBVIOUS
<1> QED
  BY <1>1
=============================================================================
