-------------------------- MODULE PathThreeProofs ---------------------------
(* Path 3 for every set of experts, every prediction they make, every width *)
(* and every source: the probabilities are usable, the decoder asks for     *)
(* every bit under the probability it was encoded with, and the two passes  *)
(* are an exact-replay channel.                                             *)
EXTENDS PathThree, Numbers

Mixers == [Experts -> Weights]
-----------------------------------------------------------------------------
(* The mixer as a function of the weights it is given.                     *)

Signed(w, votes) == [e \in Experts |-> IF votes[e] = 0 THEN w[e] ELSE -w[e]]
Sizes(w) == [e \in Experts |-> Abs(w[e])]

VoteUnder(w, votes) == SumFunction(Signed(w, votes))
NormUnder(w) == SumFunction(Sizes(w))

ConfidenceUnder(w, votes) ==
    IF NormUnder(w) = 0 THEN 0 ELSE (Abs(VoteUnder(w, votes)) * Gain) \div NormUnder(w)

ConsensusUnder(w, votes) == IF VoteUnder(w, votes) >= 0 THEN 0 ELSE 1

ProbabilityUnder(w, votes) ==
    IF Even + ConfidenceUnder(w, votes) > Ceiling THEN Ceiling
    ELSE Even + ConfidenceUnder(w, votes)

LearnedUnder(w, votes, actual) ==
    [e \in Experts |-> Clamp(IF votes[e] = actual THEN w[e] + Rate ELSE w[e] - Rate)]

LEMMA MixerOfWeights ==
    ASSUME NEW votes, NEW actual
    PROVE  /\ Consensus(votes) = ConsensusUnder(weights, votes)
           /\ ZeroProbability(votes) = ProbabilityUnder(weights, votes)
           /\ Learned(votes, actual) = LearnedUnder(weights, votes, actual)
<1>1. /\ Vote(votes) = VoteUnder(weights, votes)
      /\ Normalization = NormUnder(weights)
  BY Zenon DEF Vote, VoteUnder, Signed, Normalization, NormUnder, Sizes
<1>2. Confidence(votes) = ConfidenceUnder(weights, votes)
  BY <1>1, Zenon DEF Confidence, ConfidenceUnder
<1> QED
  BY <1>1, <1>2, Zenon
     DEF Consensus, ConsensusUnder, ZeroProbability, ProbabilityUnder, Learned, LearnedUnder
-----------------------------------------------------------------------------
(* Sums over finite sets.  SumFunction adds up a set from what it chooses  *)
(* first and the sum of the rest, by a function on all subsets.            *)

First(s) == CHOOSE x \in s : TRUE
Rest(s) == s \ {First(s)}

SumsBy(f, S, sum) == [s \in SUBSET S |-> IF s = {} THEN 0 ELSE f[First(s)] + sum[Rest(s)]]

Sums(f, S) == CHOOSE sum : sum = SumsBy(f, S, sum)

LEMMA SumIsSums ==
    ASSUME NEW f
    PROVE  SumFunction(f) = Sums(f, DOMAIN f)[DOMAIN f]
BY DEF SumFunction, SumFunctionOnSet, FoldFunctionOnSet, MapThenFoldSet, Sums, SumsBy,
       First, Rest

LEMMA RestIsSmaller ==
    ASSUME NEW S, IsFiniteSet(S), NEW s \in SUBSET S, s # {}
    PROVE  /\ First(s) \in s /\ First(s) \in S
           /\ Rest(s) \in SUBSET S
           /\ Cardinality(s) \in Nat \ {0}
           /\ Cardinality(Rest(s)) = Cardinality(s) - 1
<1>1. First(s) \in s
  BY DEF First
<1>2. IsFiniteSet(s)
  BY FS_Subset
<1>3. Cardinality(s) \in Nat /\ Cardinality(s) # 0
  BY <1>2, FS_CardinalityType, FS_EmptySet
<1>4. Cardinality(Rest(s)) = Cardinality(s) - 1
  BY <1>1, <1>2, FS_RemoveElement DEF Rest
<1> QED
  BY <1>1, <1>3, <1>4 DEF Rest

\* The subsets of at most n members, and the sums over them.
Small(S, n) == {s \in SUBSET S : Cardinality(s) <= n}

SumsUpTo(f, S, n) ==
    {sum \in [Small(S, n) -> Int] :
        \A s \in Small(S, n) :
            sum[s] = IF s = {} THEN 0 ELSE f[First(s)] + sum[Rest(s)]}

LEMMA SumsUpToExist ==
    ASSUME NEW S, IsFiniteSet(S), NEW f \in [S -> Int], NEW n \in Nat
    PROVE  SumsUpTo(f, S, n) # {}
<1> DEFINE P == {k \in Nat : SumsUpTo(f, S, k) # {}}
<1>1. 0 \in P
  <2> DEFINE sum == [s \in Small(S, 0) |-> 0]
  <2>1. ASSUME NEW s \in Small(S, 0) PROVE s = {}
    BY FS_Subset, FS_EmptySet, FS_CardinalityType DEF Small
  <2>2. sum \in SumsUpTo(f, S, 0)
    BY <2>1 DEF SumsUpTo
  <2> QED
    BY <2>2
<1>2. ASSUME NEW k \in Nat, k \in P PROVE k + 1 \in P
  <2>1. PICK sum \in SumsUpTo(f, S, k) : TRUE
    BY <1>2
  <2>2. /\ sum \in [Small(S, k) -> Int]
        /\ \A s \in Small(S, k) : sum[s] = IF s = {} THEN 0 ELSE f[First(s)] + sum[Rest(s)]
    BY <2>1 DEF SumsUpTo
  <2> DEFINE more == [s \in Small(S, k + 1) |->
                         IF s = {} THEN 0 ELSE f[First(s)] + sum[Rest(s)]]
  <2>3. ASSUME NEW s \in Small(S, k + 1), s # {}
        PROVE  Rest(s) \in Small(S, k) /\ Rest(s) \in Small(S, k + 1) /\ f[First(s)] \in Int
    <3>1. s \in SUBSET S /\ Cardinality(s) <= k + 1
      BY DEF Small
    <3>2. First(s) \in S /\ Rest(s) \in SUBSET S /\ Cardinality(s) \in Nat
          /\ Cardinality(Rest(s)) = Cardinality(s) - 1
      BY <2>3, <3>1, RestIsSmaller
    <3>3. Cardinality(Rest(s)) <= k /\ Cardinality(Rest(s)) <= k + 1
      BY <3>1, <3>2
    <3> QED
      BY <3>2, <3>3 DEF Small
  <2>4. ASSUME NEW s \in Small(S, k + 1) PROVE more[s] \in Int
    <3>1. CASE s = {}
      BY <3>1
    <3>2. CASE s # {}
      <4>1. sum[Rest(s)] \in Int /\ f[First(s)] \in Int
        BY <2>2, <2>3, <3>2
      <4> QED
        BY <3>2, <4>1
    <3> QED
      BY <3>1, <3>2
  <2>5. ASSUME NEW s \in Small(S, k) PROVE more[s] = sum[s]
    <3>1. s \in SUBSET S /\ Cardinality(s) <= k /\ Cardinality(s) \in Nat
      BY FS_Subset, FS_CardinalityType DEF Small
    <3>2. s \in Small(S, k + 1)
      BY <3>1 DEF Small
    <3> QED
      BY <2>2, <3>2
  <2>6. ASSUME NEW s \in Small(S, k + 1)
        PROVE  more[s] = IF s = {} THEN 0 ELSE f[First(s)] + more[Rest(s)]
    BY <2>3, <2>5
  <2>7. more \in [Small(S, k + 1) -> Int]
    BY <2>4
  <2> HIDE DEF more
  <2>8. more \in SumsUpTo(f, S, k + 1)
    BY <2>6, <2>7 DEF SumsUpTo
  <2> QED
    BY <2>8
<1> HIDE DEF P
<1>3. n \in P
  BY <1>1, <1>2, EveryNumber
<1> QED
  BY <1>3 DEF P

LEMMA SumsAddUp ==
    ASSUME NEW S, IsFiniteSet(S), NEW f \in [S -> Int]
    PROVE  Sums(f, S) = SumsBy(f, S, Sums(f, S))
<1>1. PICK n \in Nat : n = Cardinality(S)
  BY FS_CardinalityType
<1>2. PICK sum \in SumsUpTo(f, S, n) : TRUE
  BY SumsUpToExist
<1>3. Small(S, n) = SUBSET S
  BY <1>1, FS_Subset DEF Small
<1>4. sum = SumsBy(f, S, sum)
  BY <1>2, <1>3 DEF SumsUpTo, SumsBy
<1> QED
  BY <1>4 DEF Sums

\* A sum whose terms are bounded by those of another is bounded by its sum.
LEMMA SumIsBounded ==
    ASSUME NEW S, IsFiniteSet(S), NEW f \in [S -> Int], NEW g \in [S -> Int],
           \A x \in S : -g[x] <= f[x] /\ f[x] <= g[x]
    PROVE  /\ SumFunction(f) \in Int /\ SumFunction(g) \in Nat
           /\ -SumFunction(g) <= SumFunction(f) /\ SumFunction(f) <= SumFunction(g)
<1> DEFINE F == Sums(f, S)
           G == Sums(g, S)
           Fine(s) == /\ F[s] \in Int /\ G[s] \in Nat
                      /\ -G[s] <= F[s] /\ F[s] <= G[s]
           P == {k \in Nat : \A s \in Small(S, k) : Fine(s)}
<1>1. /\ F = SumsBy(f, S, F)
      /\ G = SumsBy(g, S, G)
  BY SumsAddUp
<1> HIDE DEF F, G
<1>2. \A s \in SUBSET S :
         /\ F[s] = IF s = {} THEN 0 ELSE f[First(s)] + F[Rest(s)]
         /\ G[s] = IF s = {} THEN 0 ELSE g[First(s)] + G[Rest(s)]
  BY <1>1 DEF SumsBy
<1>3. 0 \in P
  <2>1. ASSUME NEW s \in Small(S, 0) PROVE s = {} /\ s \in SUBSET S
    BY FS_Subset, FS_EmptySet, FS_CardinalityType DEF Small
  <2> QED
    BY <2>1, <1>2
<1>4. ASSUME NEW k \in Nat, k \in P PROVE k + 1 \in P
  <2>1. ASSUME NEW s \in Small(S, k + 1) PROVE Fine(s)
    <3>1. s \in SUBSET S /\ Cardinality(s) <= k + 1
      BY DEF Small
    <3>2. CASE s = {}
      BY <1>2, <3>2
    <3>3. CASE s # {}
      <4>1. /\ First(s) \in S /\ Rest(s) \in SUBSET S /\ Cardinality(s) \in Nat
            /\ Cardinality(Rest(s)) = Cardinality(s) - 1
        BY <3>1, <3>3, RestIsSmaller
      <4>2. Rest(s) \in Small(S, k)
        BY <3>1, <4>1 DEF Small
      <4>3. Fine(Rest(s))
        BY <1>4, <4>2
      <4>4. PICK a \in Int, b \in Int, c \in Int, d \in Nat :
               /\ a = f[First(s)] /\ b = g[First(s)]
               /\ c = F[Rest(s)] /\ d = G[Rest(s)]
        BY <4>1, <4>3
      <4>5. -b <= a /\ a <= b /\ -d <= c /\ c <= d
        BY <4>1, <4>3, <4>4
      <4>6. F[s] = a + c /\ G[s] = b + d
        BY <1>2, <3>1, <3>3, <4>4
      <4> QED
        BY <4>5, <4>6
    <3> QED
      BY <3>2, <3>3
  <2> HIDE DEF Fine
  <2> QED
    BY <2>1
<1> HIDE DEF P
<1>5. PICK n \in Nat : n = Cardinality(S)
  BY FS_CardinalityType
<1>6. n \in P /\ S \in Small(S, n)
  BY <1>3, <1>4, <1>5, EveryNumber DEF Small
<1>7. Fine(S)
  BY <1>6 DEF P
<1>8. SumFunction(f) = F[S] /\ SumFunction(g) = G[S]
  BY SumIsSums DEF F, G
<1> QED
  BY <1>7, <1>8
-----------------------------------------------------------------------------
(* The probabilities.                                                      *)

Probabilities == {p \in Even .. 2 * Even - 1 : p <= Even + Gain}

LEMMA Numbers ==
    /\ IsFiniteSet(Experts)
    /\ FloorBits \in Nat /\ FloorBits >= 1
    /\ FloorBits \div 2 \in Nat /\ FloorBits \div 2 <= FloorBits
    /\ WeightLimit \in Nat /\ Rate \in Nat
    /\ Even \in Nat /\ Even >= 1 /\ Gain \in Nat
    /\ Ceiling \in Nat /\ Even <= Ceiling /\ Ceiling <= 2 * Even - 1
  BY PathThreeAssumption

LEMMA MixersLearn ==
    ASSUME NEW w \in Mixers, NEW votes, NEW actual
    PROVE  LearnedUnder(w, votes, actual) \in Mixers
<1>1. ASSUME NEW n \in Int PROVE Clamp(n) \in Weights
  BY Numbers DEF Clamp, Weights
<1>2. ASSUME NEW e \in Experts PROVE w[e] + Rate \in Int /\ w[e] - Rate \in Int
  BY Numbers DEF Mixers, Weights
<1> QED
  BY <1>1, <1>2 DEF LearnedUnder, Mixers

LEMMA NewMixerIsMixer == NewMixer \in Mixers
  BY PathThreeAssumption DEF NewMixer, Mixers

\* The vote is at most the sum of the weights, whatever the signs.
LEMMA VoteIsBounded ==
    ASSUME NEW w \in Mixers, NEW votes
    PROVE  /\ VoteUnder(w, votes) \in Int
           /\ NormUnder(w) \in Nat
           /\ Abs(VoteUnder(w, votes)) \in Nat
           /\ Abs(VoteUnder(w, votes)) <= NormUnder(w)
<1>1. ASSUME NEW e \in Experts PROVE w[e] \in Int
  BY Numbers DEF Mixers, Weights
<1>2. /\ Signed(w, votes) \in [Experts -> Int]
      /\ Sizes(w) \in [Experts -> Int]
      /\ \A e \in Experts : /\ -Sizes(w)[e] <= Signed(w, votes)[e]
                            /\ Signed(w, votes)[e] <= Sizes(w)[e]
  BY <1>1 DEF Signed, Sizes, Abs
<1>3. /\ VoteUnder(w, votes) \in Int /\ NormUnder(w) \in Nat
      /\ -NormUnder(w) <= VoteUnder(w, votes) /\ VoteUnder(w, votes) <= NormUnder(w)
  BY <1>2, Numbers, SumIsBounded DEF VoteUnder, NormUnder
<1> QED
  BY <1>3 DEF Abs

LEMMA PartOfGain ==
    ASSUME NEW a \in Nat, NEW n \in Nat, a <= n, n # 0
    PROVE  (a * Gain) \div n \in 0 .. Gain
<1>1. Gain \in Nat
  BY Numbers
<1>2. a * Gain <= n * Gain /\ a * Gain \in Nat
  BY <1>1
<1>3. PICK q \in Int : q = (a * Gain) \div n
  BY <1>2
<1>4. n * q <= a * Gain /\ a * Gain < n * (q + 1)
  BY <1>2, <1>3
<1>5. q >= 0
  BY <1>2, <1>4
<1>6. q <= Gain
  <2>1. SUFFICES ASSUME q >= Gain + 1 PROVE FALSE
    BY <1>1
  <2>2. n * q >= n * (Gain + 1)
    BY <1>1, <2>1
  <2>3. n * (Gain + 1) = n * Gain + n
    BY <1>1
  <2> QED
    BY <1>1, <1>2, <1>4, <2>2, <2>3
<1> QED
  BY <1>3, <1>5, <1>6

LEMMA ProbabilityIsUsable ==
    ASSUME NEW w \in Mixers, NEW votes
    PROVE  ProbabilityUnder(w, votes) \in Probabilities
<1>1. ConfidenceUnder(w, votes) \in 0 .. Gain
  BY VoteIsBounded, PartOfGain, Numbers DEF ConfidenceUnder
<1> QED
  BY <1>1, Numbers DEF ProbabilityUnder, Probabilities

LEMMA ConsensusIsBit ==
    ASSUME NEW w, NEW votes
    PROVE  ConsensusUnder(w, votes) \in Bits
  BY DEF ConsensusUnder, Bits

LEMMA XorTwice ==
    ASSUME NEW a \in Bits, NEW c \in Bits
    PROVE  Xor(a, c) \in Bits /\ Xor(Xor(a, c), c) = a /\ Xor(c, Xor(a, c)) = a
  BY DEF Xor, Bits
-----------------------------------------------------------------------------
(* Sequences that list a part of a function on the numbers.                *)

Part(f, start, n) == [i \in 1 .. n |-> f[start + i]]

LEMMA PartGrows ==
    ASSUME NEW f, NEW n \in Nat
    PROVE  /\ Len(Part(f, 0, n)) = n
           /\ Append(Part(f, 0, n), f[n + 1]) = Part(f, 0, n + 1)
<1> DEFINE S == {f[i] : i \in 1 .. n + 1}
<1>1. Part(f, 0, n) \in [1 .. n -> S]
  BY DEF Part
<1> HIDE DEF S
<1>2. Part(f, 0, n) \in Seq(S) /\ Len(Part(f, 0, n)) = n
  BY <1>1
<1>3. Append(Part(f, 0, n), f[n + 1])
        = [i \in 1 .. n + 1 |-> IF i <= n THEN Part(f, 0, n)[i] ELSE f[n + 1]]
  BY <1>2
<1> QED
  BY <1>2, <1>3 DEF Part

LEMMA PartShrinks ==
    ASSUME NEW f, NEW start \in Nat, NEW n \in Nat, n # 0
    PROVE  /\ Len(Part(f, start, n)) = n
           /\ Part(f, start, n) # <<>>
           /\ Head(Part(f, start, n)) = f[start + 1]
           /\ Tail(Part(f, start, n)) = Part(f, start + 1, n - 1)
<1> DEFINE S == {f[start + i] : i \in 1 .. n}
<1>1. Part(f, start, n) \in [1 .. n -> S]
  BY DEF Part
<1> HIDE DEF S
<1>2. Part(f, start, n) \in Seq(S) /\ Len(Part(f, start, n)) = n
  BY <1>1
<1>3. Part(f, start, n) # <<>> /\ Head(Part(f, start, n)) = Part(f, start, n)[1]
  BY <1>2
<1>4. Tail(Part(f, start, n)) = [i \in 1 .. n - 1 |-> Part(f, start, n)[i + 1]]
  <2>1. PICK s \in Seq(S) : s = Part(f, start, n)
    BY <1>2
  <2>2. Tail(s) \in Seq(S) /\ Len(Tail(s)) = n - 1
        /\ \A i \in 1 .. n - 1 : Tail(s)[i] = s[i + 1]
    BY <1>2, <2>1
  <2>3. Tail(s) = [i \in 1 .. n - 1 |-> Tail(s)[i]]
    <3>1. ASSUME NEW t \in Seq(S) PROVE t = [i \in 1 .. Len(t) |-> t[i]]
      OBVIOUS
    <3> QED
      BY <2>2, <3>1
  <2>4. Tail(s) = [i \in 1 .. n - 1 |-> s[i + 1]]
    BY <2>2, <2>3
  <2> QED
    BY <2>1, <2>4
<1>5. ASSUME NEW i \in 1 .. n - 1
      PROVE  Part(f, start, n)[i + 1] = f[start + 1 + i]
  BY DEF Part
<1>6. Tail(Part(f, start, n)) = Part(f, start + 1, n - 1)
  BY <1>4, <1>5 DEF Part
<1>7. Part(f, start, n)[1] = f[start + 1]
  BY DEF Part
<1> QED
  BY <1>2, <1>3, <1>6, <1>7

LEMMA PartLength ==
    ASSUME NEW f, NEW start, NEW n \in Nat
    PROVE  Len(Part(f, start, n)) = n
<1> DEFINE S == {f[start + i] : i \in 1 .. n}
<1>1. Part(f, start, n) \in [1 .. n -> S]
  BY DEF Part
<1> HIDE DEF S
<1> QED
  BY <1>1

LEMMA NoPart ==
    ASSUME NEW f, NEW start \in Nat
    PROVE  Part(f, start, 0) = <<>>
  BY DEF Part

LEMMA HalvesMeet ==
    ASSUME NEW r \in Seq(Bits), Len(r) = FloorBits
    PROVE  Quotient(r) \o Remainder(r) = r
<1>1. PICK h \in Nat : h = FloorBits \div 2
  BY Numbers
<1>2. h <= FloorBits /\ FloorBits \in Nat
  BY <1>1, Numbers
<1>3. /\ SubSeq(r, 1, h) \in Seq(Bits) /\ Len(SubSeq(r, 1, h)) = h
      /\ \A i \in 1 .. h : SubSeq(r, 1, h)[i] = r[i]
  BY <1>2
<1>4. /\ SubSeq(r, h + 1, FloorBits) \in Seq(Bits)
      /\ Len(SubSeq(r, h + 1, FloorBits)) = FloorBits - h
      /\ \A i \in 1 .. FloorBits - h : SubSeq(r, h + 1, FloorBits)[i] = r[h + i]
  BY <1>2
<1>5. PICK a \in Seq(Bits), b \in Seq(Bits) :
         a = SubSeq(r, 1, h) /\ b = SubSeq(r, h + 1, FloorBits)
  BY <1>3, <1>4
<1>6. a \o b \in Seq(Bits) /\ Len(a \o b) = FloorBits
  BY <1>2, <1>3, <1>4, <1>5
<1>7. ASSUME NEW i \in 1 .. FloorBits PROVE (a \o b)[i] = r[i]
  <2>1. CASE i <= h
    <3>1. i \in 1 .. h /\ (a \o b)[i] = a[i]
      BY <1>2, <1>3, <1>5, <2>1
    <3> QED
      BY <1>3, <1>5, <3>1
  <2>2. CASE i > h
    <3>1. i - h \in 1 .. FloorBits - h /\ Len(a) = h /\ Len(b) = FloorBits - h
      BY <1>2, <1>3, <1>4, <1>5, <2>2
    <3>3. (a \o b)[i] = b[i - h]
      BY <1>2, <2>2, <3>1
    <3>2. b[i - h] = r[h + (i - h)]
      BY <1>4, <1>5, <3>1
    <3> QED
      BY <1>2, <3>2, <3>3
  <2>3. i <= h \/ i > h
    BY <1>1, <1>2
  <2> QED
    BY <2>1, <2>2, <2>3
<1>8. a \o b = r
  BY <1>6, <1>7
<1> QED
  BY <1>1, <1>5, <1>8 DEF Quotient, Remainder

\* The bits of a symbol come after those of the symbols before it.
LEMMA SymbolsInOrder ==
    ASSUME NEW k \in Nat, NEW l \in Nat
    PROVE  /\ k * FloorBits \in Nat
           /\ (k + 1) * FloorBits = k * FloorBits + FloorBits
           /\ k < l => k * FloorBits + FloorBits <= l * FloorBits
           /\ k <= l => k * FloorBits <= l * FloorBits
<1>1. FloorBits \in Nat
  BY Numbers
<1>2. /\ k * FloorBits \in Nat /\ (k + 1) * FloorBits = k * FloorBits + FloorBits
  BY <1>1
<1>3. \A m \in Nat : m * FloorBits >= 0
  BY <1>1
<1>4. ASSUME k <= l PROVE k * FloorBits <= l * FloorBits
  <2>1. (l - k) * FloorBits >= 0
    BY <1>3, <1>4
  <2>2. l * FloorBits = k * FloorBits + (l - k) * FloorBits
    BY <1>1
  <2> QED
    BY <1>1, <2>1, <2>2
<1>5. ASSUME k < l PROVE k * FloorBits + FloorBits <= l * FloorBits
  <2>1. (l - (k + 1)) * FloorBits >= 0
    BY <1>3, <1>5
  <2>2. l * FloorBits = k * FloorBits + FloorBits + (l - (k + 1)) * FloorBits
    BY <1>1
  <2> QED
    BY <1>1, <2>1, <2>2
<1> QED
  BY <1>2, <1>4, <1>5

\* Bit and symbol are known from the place in the stream.
LEMMA SamePlace ==
    ASSUME NEW k \in Nat, NEW l \in Nat, NEW i \in 1 .. FloorBits, NEW j \in 1 .. FloorBits,
           k * FloorBits + i = l * FloorBits + j
    PROVE  k = l /\ i = j
<1>1. FloorBits \in Nat
  BY Numbers
<1>2. PICK m \in Nat, n \in Nat : m = k * FloorBits /\ n = l * FloorBits
  BY SymbolsInOrder
<1>3. /\ k < l => m + FloorBits <= n
      /\ l < k => n + FloorBits <= m
  BY <1>2, SymbolsInOrder
<1>4. ~(k < l) /\ ~(l < k)
  BY <1>1, <1>2, <1>3
<1> QED
  BY <1>1, <1>2, <1>4
-----------------------------------------------------------------------------
(* What a source makes of the experts and, with a mixer, of the coder.     *)

\* The votes on bit i of the symbol that follows the first k.
Ballot(src, k, i) == [e \in Experts |-> Expert(e, Recent(SubSeq(src, 1, k)), k)[i]]

Updates(src, k) ==
    [i \in 1 .. FloorBits |-> [votes |-> Ballot(src, k, i), actual |-> src[k + 1][i]]]

Agreed(w, src, k) == [i \in 1 .. FloorBits |-> ConsensusUnder(w, Ballot(src, k, i))]

Residues(w, src, k) == [i \in 1 .. FloorBits |-> Xor(src[k + 1][i], Agreed(w, src, k)[i])]

Entry(w, src, k, i) ==
    [z |-> Residues(w, src, k)[i], p0 |-> ProbabilityUnder(w, Ballot(src, k, i))]

\* Bits of the pass that are coded, and those its mixer has learned from.
Coded ==
    Len(retained) * FloorBits +
        (CASE pc = "symbol" -> 0 [] pc = "bit" -> Len(updates) [] pc = "learn" -> FloorBits)

Learnt ==
    Len(retained) * FloorBits + (IF pc = "learn" THEN FloorBits - Len(updates) ELSE 0)

Whole == Len(source) * FloorBits

ShapeInv ==
    /\ pass \in {"encode", "decode", "done"} /\ pc \in {"symbol", "bit", "learn"}
    /\ source \in Seq(Symbols)
    /\ Len(retained) \in 0 .. Len(source)
    /\ retained = SubSeq(source, 1, Len(retained))
    /\ pc # "symbol" => pass # "done" /\ Len(retained) < Len(source)
    /\ weights \in Mixers
    /\ channel \in Seq([z : Bits, p0 : Probabilities])
    /\ inStep = TRUE
    /\ taken = IF pass = "encode" THEN 0 ELSE Coded

SymbolInv ==
    pc = "bit" =>
        /\ predicted = [e \in Experts |-> Expert(e, Recent(retained), Len(retained))]
        /\ Len(updates) \in 0 .. FloorBits
        /\ updates = Part(Updates(source, Len(retained)), 0, Len(updates))
        /\ consensus = Part(Agreed(weights, source, Len(retained)), 0, Len(updates))
        /\ residual = Part(Residues(weights, source, Len(retained)), 0, Len(updates))

LearnInv ==
    pc = "learn" =>
        /\ Len(updates) \in 0 .. FloorBits
        /\ updates = Part(Updates(source, Len(retained)), FloorBits - Len(updates), Len(updates))
        /\ Restored = source[Len(retained) + 1]

\* M[n] is the mixer that has learned from the first n bits of the source.
\* The channel was written with the mixers of M,
ChannelInv(M) ==
    /\ Len(channel) = IF pass = "encode" THEN Coded ELSE Whole
    /\ \A k \in 0 .. Len(source) - 1, i \in 1 .. FloorBits :
          k * FloorBits + i <= Len(channel) =>
              channel[k * FloorBits + i] = Entry(M[k * FloorBits], source, k, i)

\* and the mixer at hand is one of them, in either pass.
MixerInv(M) ==
    /\ M[0] = NewMixer
    /\ weights = M[Learnt]
    /\ \A k \in 0 .. Len(source) - 1, i \in 1 .. FloorBits :
          k * FloorBits + i <= (IF pass = "encode" THEN Learnt ELSE Whole) =>
              M[k * FloorBits + i] =
                  LearnedUnder(M[k * FloorBits + i - 1], Ballot(source, k, i), source[k + 1][i])

HistoryInv == \E M \in [Nat -> Mixers] : ChannelInv(M) /\ MixerInv(M)

IInv == ShapeInv /\ SymbolInv /\ LearnInv /\ HistoryInv
-----------------------------------------------------------------------------
LEMMA InitEstablishes == Init => IInv
<1> SUFFICES ASSUME Init PROVE IInv
  OBVIOUS
<1>1. /\ pass = "encode" /\ pc = "symbol" /\ source \in Seq(Symbols)
      /\ retained = <<>> /\ weights = NewMixer /\ channel = <<>>
      /\ taken = 0 /\ inStep = TRUE
  BY PathThreeAssumption DEF Init
<1>2. Len(retained) = 0 /\ Len(channel) = 0 /\ Len(source) \in Nat
  BY <1>1
<1>3. Coded = 0 /\ Learnt = 0
  BY <1>1, <1>2, Numbers DEF Coded, Learnt
<1>4. SubSeq(source, 1, 0) = <<>>
  BY <1>1
<1>5. channel \in Seq([z : Bits, p0 : Probabilities])
  BY <1>1
<1>6. ShapeInv
  BY <1>1, <1>2, <1>4, <1>5, NewMixerIsMixer DEF ShapeInv
<1>7. SymbolInv /\ LearnInv
  BY <1>1 DEF SymbolInv, LearnInv
<1> DEFINE M == [n \in Nat |-> NewMixer]
<1>8. M \in [Nat -> Mixers] /\ M[0] = NewMixer
  BY NewMixerIsMixer
<1> HIDE DEF M
<1>9. \A k \in 0 .. Len(source) - 1, i \in 1 .. FloorBits : ~(k * FloorBits + i <= 0)
  <2>1. ASSUME NEW k \in Nat, NEW i \in 1 .. FloorBits PROVE k * FloorBits + i > 0
    BY SymbolsInOrder, Numbers
  <2> QED
    BY <1>2, <2>1, SymbolsInOrder, Numbers
<1>10. ChannelInv(M) /\ MixerInv(M)
  BY <1>1, <1>2, <1>3, <1>8, <1>9 DEF ChannelInv, MixerInv
<1> QED
  BY <1>6, <1>7, <1>8, <1>10 DEF IInv, HistoryInv

LEMMA BeginSymbolKeeps ==
    ASSUME IInv, BeginSymbol
    PROVE  IInv'
<1>1. ShapeInv /\ HistoryInv
  BY DEF IInv
<1>2. /\ pc = "symbol" /\ pc' = "bit" /\ pass # "done" /\ Len(retained) < Len(source)
      /\ predicted' = [e \in Experts |-> Expert(e, Recent(retained), Len(retained))]
      /\ consensus' = <<>> /\ residual' = <<>> /\ updates' = <<>>
  BY DEF BeginSymbol, Running
<1>3. UNCHANGED <<pass, source, retained, weights, channel, taken, inStep>>
  BY DEF BeginSymbol
<1>4. Len(updates') = 0 /\ FloorBits \in Nat
  BY <1>2, Numbers
<1>5. Coded' = Coded /\ Learnt' = Learnt
  BY <1>2, <1>3, <1>4 DEF Coded, Learnt
<1>6. ShapeInv'
  BY <1>1, <1>2, <1>3, <1>5 DEF ShapeInv
<1>7. SymbolInv' /\ LearnInv'
  BY <1>2, <1>3, <1>4, NoPart DEF SymbolInv, LearnInv
<1>8. HistoryInv'
  <2>1. PICK M \in [Nat -> Mixers] : ChannelInv(M) /\ MixerInv(M)
    BY <1>1 DEF HistoryInv
  <2>2. ChannelInv(M)' /\ MixerInv(M)'
    BY <1>3, <1>5, <2>1 DEF ChannelInv, MixerInv, Whole
  <2> QED
    BY <2>2 DEF HistoryInv
<1> QED
  BY <1>6, <1>7, <1>8 DEF IInv

\* What both passes know at a bit.
LEMMA AtBit ==
    ASSUME IInv, pc = "bit", Len(updates) < FloorBits,
           NEW k, k = Len(retained), NEW u, u = Len(updates)
    PROVE  /\ k \in 0 .. Len(source) - 1 /\ Len(source) \in Nat
           /\ u \in Nat /\ u + 1 \in 1 .. FloorBits
           /\ Votes = Ballot(source, k, u + 1)
           /\ Consensus(Votes) = Agreed(weights, source, k)[u + 1]
           /\ ZeroProbability(Votes) = ProbabilityUnder(weights, Votes)
           /\ ZeroProbability(Votes) \in Probabilities
           /\ source[k + 1] \in Symbols /\ source[k + 1][u + 1] \in Bits
           /\ Residues(weights, source, k)[u + 1] = Xor(source[k + 1][u + 1], Consensus(Votes))
           /\ Residues(weights, source, k)[u + 1] \in Bits
           /\ Xor(Residues(weights, source, k)[u + 1], Consensus(Votes)) = source[k + 1][u + 1]
           /\ Coded = k * FloorBits + u /\ Learnt = k * FloorBits
           /\ Coded + 1 <= Whole
<1>1. ShapeInv /\ SymbolInv
  BY DEF IInv
<1>2. /\ k \in 0 .. Len(source) - 1 /\ k + 1 \in 1 .. Len(source) /\ Len(source) \in Nat
      /\ u \in Nat /\ u + 1 \in 1 .. FloorBits /\ FloorBits \in Nat
  BY <1>1, Numbers DEF ShapeInv, SymbolInv
<1>3. Votes = Ballot(source, k, u + 1)
  BY <1>1 DEF ShapeInv, SymbolInv, Votes, Ballot
<1>4. source[k + 1] \in Symbols /\ source[k + 1][u + 1] \in Bits
  BY <1>1, <1>2 DEF ShapeInv, Symbols
<1>5. Consensus(Votes) = Agreed(weights, source, k)[u + 1]
  BY <1>2, <1>3, MixerOfWeights DEF Agreed
<1>6. /\ ZeroProbability(Votes) = ProbabilityUnder(weights, Votes)
      /\ ZeroProbability(Votes) \in Probabilities
  BY <1>1, MixerOfWeights, ProbabilityIsUsable DEF ShapeInv
<1>7. Residues(weights, source, k)[u + 1] = Xor(source[k + 1][u + 1], Consensus(Votes))
  BY <1>2, <1>5 DEF Residues
<1>8. Consensus(Votes) \in Bits
  BY MixerOfWeights, ConsensusIsBit
<1>9. /\ Residues(weights, source, k)[u + 1] \in Bits
      /\ Xor(Residues(weights, source, k)[u + 1], Consensus(Votes)) = source[k + 1][u + 1]
  BY <1>4, <1>7, <1>8, XorTwice
<1>10. Coded = k * FloorBits + u /\ Learnt = k * FloorBits
  <2>1. k * FloorBits \in Nat
    BY <1>2, SymbolsInOrder
  <2> QED
    BY <2>1 DEF Coded, Learnt
<1>11. Coded + 1 <= Whole
  <2>1. PICK n \in Nat, l \in Nat : n = k * FloorBits /\ l = Len(source) * FloorBits
    BY <1>2, SymbolsInOrder
  <2>2. n + FloorBits <= l
    BY <1>2, <2>1, SymbolsInOrder
  <2> QED
    BY <1>2, <1>10, <2>1, <2>2 DEF Whole
<1> QED
  BY <1>2, <1>3, <1>4, <1>5, <1>6, <1>7, <1>9, <1>10, <1>11

\* The symbol grows by the bit of the source, in either pass.
LEMMA CodeBitKeeps ==
    ASSUME IInv, pc = "bit", Len(updates) < FloorBits, NEW z, CodeBit(z),
           z = Residues(weights, source, Len(retained))[Len(updates) + 1]
    PROVE  /\ SymbolInv' /\ LearnInv'
           /\ Coded' = Coded + 1 /\ Learnt' = Learnt
<1>1. PICK k, u : k = Len(retained) /\ u = Len(updates)
  OBVIOUS
<1>2. /\ k \in Nat /\ u \in Nat /\ u + 1 \in 1 .. FloorBits /\ FloorBits \in Nat
      /\ Votes = Ballot(source, k, u + 1)
      /\ Consensus(Votes) = Agreed(weights, source, k)[u + 1]
      /\ Xor(z, Consensus(Votes)) = source[k + 1][u + 1]
      /\ Coded = k * FloorBits + u /\ Learnt = k * FloorBits
  <2>1. z = Residues(weights, source, k)[u + 1]
    BY <1>1
  <2>2. /\ k \in 0 .. Len(source) - 1 /\ u \in Nat /\ u + 1 \in 1 .. FloorBits
        /\ Votes = Ballot(source, k, u + 1)
        /\ Consensus(Votes) = Agreed(weights, source, k)[u + 1]
        /\ Xor(Residues(weights, source, k)[u + 1], Consensus(Votes)) = source[k + 1][u + 1]
        /\ Coded = k * FloorBits + u /\ Learnt = k * FloorBits
    BY <1>1, AtBit, Zenon
  <2>3. k \in Nat /\ FloorBits \in Nat
    BY <2>2, Numbers
  <2> QED
    BY <2>1, <2>2, <2>3
<1>3. /\ predicted = [e \in Experts |-> Expert(e, Recent(retained), k)]
      /\ updates = Part(Updates(source, k), 0, u)
      /\ consensus = Part(Agreed(weights, source, k), 0, u)
      /\ residual = Part(Residues(weights, source, k), 0, u)
  BY <1>1 DEF IInv, SymbolInv
<1>4. /\ consensus' = Append(consensus, Consensus(Votes))
      /\ residual' = Append(residual, z)
      /\ updates' = Append(updates, [votes |-> Votes, actual |-> Xor(z, Consensus(Votes))])
  BY DEF CodeBit
<1>5. UNCHANGED <<pass, pc, source, retained, weights, predicted>>
  BY DEF CodeBit
<1>6. [votes |-> Votes, actual |-> Xor(z, Consensus(Votes))] = Updates(source, k)[u + 1]
  BY <1>2 DEF Updates
<1>7. updates' = Part(Updates(source, k), 0, u + 1) /\ Len(updates') = u + 1
  <2>1. Append(updates, Updates(source, k)[u + 1]) = Part(Updates(source, k), 0, u + 1)
    BY <1>2, <1>3, PartGrows
  <2>2. Len(Part(Updates(source, k), 0, u + 1)) = u + 1
    BY <1>2, PartGrows
  <2> QED
    BY <1>4, <1>6, <2>1, <2>2
<1>8. /\ consensus' = Part(Agreed(weights, source, k), 0, u + 1)
      /\ residual' = Part(Residues(weights, source, k), 0, u + 1)
  BY <1>1, <1>2, <1>3, <1>4, PartGrows
<1>9. SymbolInv' /\ LearnInv'
  <2>1. pc' = "bit" /\ Len(retained') = k /\ u + 1 \in 0 .. FloorBits
    BY <1>1, <1>2, <1>5
  <2>2. LearnInv'
    BY <2>1 DEF LearnInv
  <2>3. SymbolInv'
    BY <1>3, <1>5, <1>7, <1>8, <2>1 DEF SymbolInv
  <2> QED
    BY <2>2, <2>3
<1>10. k * FloorBits \in Nat
  BY <1>2, SymbolsInOrder
<1>11. Coded' = k * FloorBits + (u + 1) /\ Learnt' = k * FloorBits
  BY <1>1, <1>5, <1>7, <1>10 DEF Coded, Learnt
<1> QED
  BY <1>2, <1>9, <1>10, <1>11

LEMMA EncodeBitKeeps ==
    ASSUME IInv, EncodeBit
    PROVE  IInv'
<1>1. PICK k, u : k = Len(retained) /\ u = Len(updates)
  OBVIOUS
<1>2. pass = "encode" /\ pc = "bit" /\ u < FloorBits
  BY <1>1 DEF EncodeBit
<1>3. PICK z : z = Residues(weights, source, k)[u + 1]
  OBVIOUS
<1>4. /\ k \in 0 .. Len(source) - 1 /\ k \in Nat /\ u \in Nat /\ u + 1 \in 1 .. FloorBits
      /\ Votes = Ballot(source, k, u + 1)
      /\ ZeroProbability(Votes) = ProbabilityUnder(weights, Votes)
      /\ ZeroProbability(Votes) \in Probabilities
      /\ z = Xor(source[k + 1][u + 1], Consensus(Votes)) /\ z \in Bits
      /\ Coded = k * FloorBits + u /\ Learnt = k * FloorBits /\ k * FloorBits \in Nat
  BY <1>1, <1>2, <1>3, AtBit, SymbolsInOrder
<1>5. CodeBit(z) /\ UNCHANGED <<taken, inStep>>
      /\ channel' = Append(channel, [z |-> z, p0 |-> ZeroProbability(Votes)])
  BY <1>1, <1>4 DEF EncodeBit
<1>6. UNCHANGED <<pass, pc, source, retained, weights, predicted>>
  BY <1>5 DEF CodeBit
<1>7. /\ SymbolInv' /\ LearnInv'
      /\ Coded' = Coded + 1 /\ Learnt' = Learnt
  BY <1>1, <1>2, <1>3, <1>5, CodeBitKeeps
<1>8. [z |-> z, p0 |-> ZeroProbability(Votes)] \in [z : Bits, p0 : Probabilities]
  BY <1>4
<1>9. ShapeInv
  BY DEF IInv
<1>10. /\ channel \in Seq([z : Bits, p0 : Probabilities])
       /\ channel' \in Seq([z : Bits, p0 : Probabilities])
       /\ Len(channel') = Len(channel) + 1
       /\ \A n \in 1 .. Len(channel) : channel'[n] = channel[n]
       /\ channel'[Len(channel) + 1] = [z |-> z, p0 |-> ZeroProbability(Votes)]
  BY <1>5, <1>8, <1>9 DEF ShapeInv
<1>11. ShapeInv'
  BY <1>2, <1>5, <1>6, <1>9, <1>10 DEF ShapeInv
<1>12. PICK M \in [Nat -> Mixers] : ChannelInv(M) /\ MixerInv(M)
  BY DEF IInv, HistoryInv
<1>13. Len(channel) = k * FloorBits + u /\ weights = M[k * FloorBits]
  BY <1>2, <1>4, <1>12 DEF ChannelInv, MixerInv
<1>14. [z |-> z, p0 |-> ZeroProbability(Votes)] = Entry(M[k * FloorBits], source, k, u + 1)
  BY <1>3, <1>4, <1>13 DEF Entry
<1>15. ASSUME NEW l \in 0 .. Len(source) - 1, NEW i \in 1 .. FloorBits,
              l * FloorBits + i <= Len(channel')
       PROVE  channel'[l * FloorBits + i] = Entry(M[l * FloorBits], source, l, i)
  <2>1. PICK n \in Nat : n = l * FloorBits + i /\ n >= 1
    BY Numbers, SymbolsInOrder
  <2>2. CASE n <= Len(channel)
    <3>1. channel[n] = Entry(M[l * FloorBits], source, l, i)
      BY <1>12, <2>1, <2>2 DEF ChannelInv
    <3>2. n \in 1 .. Len(channel)
      BY <1>10, <2>1, <2>2
    <3> QED
      BY <1>10, <2>1, <3>1, <3>2
  <2>3. CASE n > Len(channel)
    <3>1. n = Len(channel) + 1 /\ n = k * FloorBits + (u + 1)
      <4>1. Len(channel) \in Nat /\ n <= Len(channel) + 1
        BY <1>10, <1>15, <2>1
      <4>2. n = Len(channel) + 1
        BY <2>1, <2>3, <4>1
      <4>3. PICK q \in Nat : q = k * FloorBits
        BY <1>4
      <4>4. Len(channel) = q + u /\ u \in Nat
        BY <1>4, <1>13, <4>3
      <4>5. n = q + (u + 1)
        BY <4>2, <4>3, <4>4
      <4> QED
        BY <4>2, <4>3, <4>5
    <3>2. l = k /\ i = u + 1
      <4>1. l * FloorBits + i = k * FloorBits + (u + 1) /\ l \in Nat
        BY <2>1, <3>1
      <4>2. k \in Nat /\ u + 1 \in 1 .. FloorBits
        BY <1>4
      <4> QED
        BY <4>1, <4>2, SamePlace
    <3> QED
      BY <1>10, <1>14, <2>1, <3>1, <3>2
  <2> QED
    BY <1>10, <2>1, <2>2, <2>3
<1>16. ChannelInv(M)'
  BY <1>2, <1>4, <1>6, <1>7, <1>10, <1>13, <1>15 DEF ChannelInv
<1>17. MixerInv(M)'
  BY <1>6, <1>7, <1>12 DEF MixerInv, Whole
<1>18. HistoryInv'
  BY <1>16, <1>17 DEF HistoryInv
<1> QED
  BY <1>7, <1>11, <1>18 DEF IInv

\* The decoder has the encoder's mixer, so it asks under the encoder's
\* probability, and gets the encoder's bit.
LEMMA DecodeBitKeeps ==
    ASSUME IInv, DecodeBit
    PROVE  IInv'
<1>1. PICK k, u : k = Len(retained) /\ u = Len(updates)
  OBVIOUS
<1>2. pass = "decode" /\ pc = "bit" /\ u < FloorBits
  BY <1>1 DEF DecodeBit
<1>3. /\ k \in 0 .. Len(source) - 1 /\ k \in Nat /\ u \in Nat /\ u + 1 \in 1 .. FloorBits
      /\ Votes = Ballot(source, k, u + 1)
      /\ ZeroProbability(Votes) = ProbabilityUnder(weights, Votes)
      /\ Coded = k * FloorBits + u /\ Learnt = k * FloorBits /\ k * FloorBits \in Nat
      /\ Coded + 1 <= Whole
  <2>1. /\ k \in 0 .. Len(source) - 1 /\ u \in Nat /\ u + 1 \in 1 .. FloorBits
        /\ Votes = Ballot(source, k, u + 1)
        /\ ZeroProbability(Votes) = ProbabilityUnder(weights, Votes)
        /\ Coded = k * FloorBits + u /\ Learnt = k * FloorBits
        /\ Coded + 1 <= Whole
    BY <1>1, <1>2, AtBit, Zenon
  <2>2. k \in Nat
    BY <2>1
  <2> QED
    BY <2>1, <2>2, SymbolsInOrder
<1>4. ShapeInv
  BY DEF IInv
<1>5. PICK M \in [Nat -> Mixers] : ChannelInv(M) /\ MixerInv(M)
  BY DEF IInv, HistoryInv
<1>6. /\ inStep /\ taken = Coded /\ Len(channel) = Whole
      /\ weights = M[k * FloorBits]
  BY <1>2, <1>3, <1>4, <1>5 DEF ShapeInv, ChannelInv, MixerInv
<1>7. taken < Len(channel) /\ Len(channel) \in Nat /\ taken + 1 = k * FloorBits + (u + 1)
  <2>1. Len(channel) \in Nat
    BY <1>4 DEF ShapeInv
  <2>2. PICK q \in Nat : q = k * FloorBits
    BY <1>3
  <2>3. u \in Nat /\ taken = q + u /\ q + u + 1 <= Len(channel)
    BY <1>3, <1>6, <2>2
  <2> QED
    BY <2>1, <2>2, <2>3
<1>8. channel[taken + 1] = Entry(M[k * FloorBits], source, k, u + 1)
  <2>1. k * FloorBits + (u + 1) <= Len(channel)
    BY <1>3, <1>6, <1>7
  <2> QED
    BY <1>3, <1>5, <1>7, <2>1 DEF ChannelInv
<1>9. /\ channel[taken + 1].p0 = ZeroProbability(Votes)
      /\ channel[taken + 1].z = Residues(weights, source, k)[u + 1]
  BY <1>3, <1>6, <1>8 DEF Entry
<1>10. PICK z \in ChannelBits(ZeroProbability(Votes)) : CodeBit(z)
  BY DEF DecodeBit
<1>11. z = Residues(weights, source, k)[u + 1]
  BY <1>6, <1>7, <1>9, <1>10 DEF ChannelBits
<1>12. UNCHANGED <<pass, pc, source, retained, weights, predicted>>
  BY <1>10 DEF CodeBit
<1>13. /\ SymbolInv' /\ LearnInv'
       /\ Coded' = Coded + 1 /\ Learnt' = Learnt
  BY <1>1, <1>2, <1>10, <1>11, CodeBitKeeps
<1>14. taken' = taken + 1 /\ inStep' = TRUE /\ channel' = channel
  BY <1>6, <1>7, <1>9 DEF DecodeBit
<1>15. ShapeInv'
  BY <1>2, <1>4, <1>6, <1>12, <1>13, <1>14 DEF ShapeInv
<1>16. ChannelInv(M)' /\ MixerInv(M)'
  BY <1>2, <1>5, <1>12, <1>13, <1>14 DEF ChannelInv, MixerInv, Whole
<1>17. HistoryInv'
  BY <1>16 DEF HistoryInv
<1> QED
  BY <1>13, <1>15, <1>17 DEF IInv

\* The halves of the residual, put together over the consensus, are the symbol.
LEMMA SymbolIsRestored ==
    ASSUME IInv, pc = "bit", Len(updates) = FloorBits
    PROVE  Restored = source[Len(retained) + 1] /\ Actual = source[Len(retained) + 1]
<1>1. PICK k : k = Len(retained)
  OBVIOUS
<1>2. ShapeInv /\ SymbolInv
  BY DEF IInv
<1>3. /\ k \in 0 .. Len(source) - 1 /\ k + 1 \in 1 .. Len(source)
      /\ source[k + 1] \in [1 .. FloorBits -> Bits] /\ FloorBits \in Nat
  BY <1>1, <1>2, Numbers DEF ShapeInv, Symbols
<1>4. /\ updates = Part(Updates(source, k), 0, FloorBits)
      /\ consensus = Part(Agreed(weights, source, k), 0, FloorBits)
      /\ residual = Part(Residues(weights, source, k), 0, FloorBits)
  BY <1>1, <1>2 DEF SymbolInv
<1>5. ASSUME NEW i \in 1 .. FloorBits
      PROVE  /\ updates[i].actual = source[k + 1][i]
             /\ consensus[i] \in Bits /\ residual[i] \in Bits
             /\ Xor(consensus[i], residual[i]) = source[k + 1][i]
  <2>1. 0 + i = i
    OBVIOUS
  <2>2. /\ updates[i] = Updates(source, k)[i]
        /\ consensus[i] = Agreed(weights, source, k)[i]
        /\ residual[i] = Residues(weights, source, k)[i]
    BY <1>4, <2>1 DEF Part
  <2>3. updates[i].actual = source[k + 1][i]
    BY <2>2 DEF Updates
  <2>4. consensus[i] \in Bits
    BY <2>2, ConsensusIsBit DEF Agreed
  <2>5. residual[i] = Xor(source[k + 1][i], consensus[i])
    BY <2>2 DEF Residues
  <2>6. source[k + 1][i] \in Bits
    BY <1>3
  <2> QED
    BY <2>3, <2>4, <2>5, <2>6, XorTwice
<1>6. residual \in [1 .. FloorBits -> Bits]
  BY <1>4, <1>5 DEF Part
<1>7. residual \in Seq(Bits) /\ Len(residual) = FloorBits
  BY <1>3, <1>6
<1>8. Quotient(residual) \o Remainder(residual) = residual
  BY <1>7, HalvesMeet
<1>9. Restored = [i \in 1 .. FloorBits |-> Xor(consensus[i], residual[i])]
  BY <1>8 DEF Restored
<1>10. source[k + 1] = [i \in 1 .. FloorBits |-> source[k + 1][i]]
  BY <1>3
<1>11. Restored = source[k + 1]
  BY <1>5, <1>9, <1>10
<1>12. Actual = source[k + 1]
  BY <1>5, <1>10 DEF Actual
<1> QED
  BY <1>1, <1>11, <1>12

LEMMA CloseSymbolKeeps ==
    ASSUME IInv, CloseSymbol
    PROVE  IInv'
<1>1. ShapeInv /\ SymbolInv
  BY DEF IInv
<1>2. /\ pc = "bit" /\ Len(updates) = FloorBits
      /\ UNCHANGED <<source, retained, weights, predicted, consensus, residual,
                     updates, channel, taken, inStep>>
  BY DEF CloseSymbol
<1>3. Restored = source[Len(retained) + 1] /\ Restored = Actual
  BY <1>2, SymbolIsRestored
<1>4. pc' = "learn" /\ pass' = pass
  BY <1>3 DEF CloseSymbol
<1>5. FloorBits \in Nat
  BY Numbers
<1>6. Coded' = Coded /\ Learnt' = Learnt
  BY <1>2, <1>4, <1>5 DEF Coded, Learnt
<1>7. ShapeInv'
  BY <1>1, <1>2, <1>4, <1>6 DEF ShapeInv
<1>8. Restored' = Restored
  BY <1>2 DEF Restored, Quotient, Remainder
<1>9. LearnInv' /\ SymbolInv'
  <2>1. updates = Part(Updates(source, Len(retained)), 0, FloorBits)
    BY <1>1, <1>2 DEF SymbolInv
  <2>2. FloorBits - FloorBits = 0 /\ FloorBits \in 0 .. FloorBits
    BY <1>5
  <2> QED
    BY <1>2, <1>3, <1>4, <1>8, <2>1, <2>2 DEF LearnInv, SymbolInv
<1>10. HistoryInv'
  <2>1. PICK M \in [Nat -> Mixers] : ChannelInv(M) /\ MixerInv(M)
    BY DEF IInv, HistoryInv
  <2>2. ChannelInv(M)' /\ MixerInv(M)'
    BY <1>2, <1>4, <1>6, <2>1 DEF ChannelInv, MixerInv, Whole
  <2> QED
    BY <2>2 DEF HistoryInv
<1> QED
  BY <1>7, <1>9, <1>10 DEF IInv

\* A learning encoder extends the history of mixers; a learning decoder goes
\* on along it.
LEMMA LearnKeeps ==
    ASSUME IInv, Learn
    PROVE  IInv'
<1>1. ShapeInv /\ LearnInv
  BY DEF IInv
<1>2. /\ pc = "learn" /\ updates # <<>>
      /\ weights' = Learned(Head(updates).votes, Head(updates).actual)
      /\ updates' = Tail(updates)
      /\ UNCHANGED <<pass, pc, source, retained, predicted, consensus, residual,
                     channel, taken, inStep>>
  BY DEF Learn
<1>3. PICK k, u : k = Len(retained) /\ u = Len(updates)
  OBVIOUS
<1>4. PICK j : j = FloorBits - u + 1
  OBVIOUS
<1>5. /\ k \in 0 .. Len(source) - 1 /\ k \in Nat /\ Len(source) \in Nat /\ FloorBits \in Nat
      /\ u \in 0 .. FloorBits
      /\ updates = Part(Updates(source, k), FloorBits - u, u)
  BY <1>1, <1>2, <1>3, Numbers DEF ShapeInv, LearnInv
<1>6. u # 0
  BY <1>2, <1>5, NoPart
<1>7. j \in 1 .. FloorBits /\ FloorBits - u + 1 = j /\ u - 1 \in 0 .. FloorBits
  BY <1>4, <1>5, <1>6
<1>8. /\ Head(updates) = Updates(source, k)[j]
      /\ updates' = Part(Updates(source, k), j, u - 1)
      /\ Len(updates') = u - 1
  <2>1. FloorBits - u \in Nat /\ u \in Nat /\ u - 1 \in Nat /\ j \in Nat
    BY <1>5, <1>6, <1>7
  <2>2. PICK f : f = Updates(source, k)
    OBVIOUS
  <2>3. /\ Head(Part(f, FloorBits - u, u)) = f[FloorBits - u + 1]
        /\ Tail(Part(f, FloorBits - u, u)) = Part(f, FloorBits - u + 1, u - 1)
    BY <1>6, <2>1, PartShrinks
  <2>4. Len(Part(f, j, u - 1)) = u - 1
    BY <2>1, PartLength
  <2> QED
    BY <1>2, <1>5, <1>7, <2>2, <2>3, <2>4
<1>9. weights' = LearnedUnder(weights, Ballot(source, k, j), source[k + 1][j])
  BY <1>2, <1>7, <1>8, MixerOfWeights DEF Updates
<1>10. weights' \in Mixers
  BY <1>1, <1>9, MixersLearn DEF ShapeInv
<1>11. PICK q \in Nat : q = k * FloorBits
  BY <1>5, SymbolsInOrder
<1>12. /\ Coded = q + FloorBits /\ Coded' = q + FloorBits
       /\ Learnt = q + j - 1 /\ Learnt' = q + j
  <2>1. /\ Coded = q + FloorBits /\ Coded' = q + FloorBits
        /\ Learnt = q + (FloorBits - u) /\ Learnt' = q + (FloorBits - (u - 1))
    BY <1>2, <1>3, <1>8, <1>11 DEF Coded, Learnt
  <2> QED
    BY <1>4, <1>5, <2>1
<1>13. ShapeInv'
  BY <1>1, <1>2, <1>10, <1>12 DEF ShapeInv
<1>14. LearnInv' /\ SymbolInv'
  <2>1. FloorBits - (u - 1) = j
    BY <1>4, <1>5
  <2>2. Restored' = Restored
    BY <1>2 DEF Restored, Quotient, Remainder
  <2> QED
    BY <1>1, <1>2, <1>3, <1>7, <1>8, <2>1, <2>2 DEF LearnInv, SymbolInv
<1>15. PICK M \in [Nat -> Mixers] : ChannelInv(M) /\ MixerInv(M)
  BY DEF IInv, HistoryInv
<1>16. weights = M[q + j - 1]
  BY <1>12, <1>15 DEF MixerInv
<1>17. ASSUME pass = "encode" PROVE HistoryInv'
  <2>1. q + j \in Nat /\ q + j # 0 /\ q + j - 1 \in Nat
    BY <1>5, <1>7
  <2>2. PICK N \in [Nat -> Mixers] :
           /\ N[q + j] = weights'
           /\ \A n \in Nat : n # q + j => N[n] = M[n]
    <3>1. PICK learned \in Mixers : learned = weights'
      BY <1>10
    <3>2. [M EXCEPT ![q + j] = learned] \in [Nat -> Mixers]
      BY <2>1
    <3> QED
      BY <2>1, <3>1, <3>2
  <2>3. ASSUME NEW l \in 0 .. Len(source) - 1, NEW i \in 1 .. FloorBits
        PROVE  /\ l \in Nat /\ l * FloorBits \in Nat
               /\ l * FloorBits + i <= q + FloorBits => l * FloorBits <= q
               /\ l * FloorBits + i = q + j => l = k /\ i = j
    <3>1. PICK p \in Nat : p = l * FloorBits
      BY SymbolsInOrder
    <3>2. k < l => q + FloorBits <= p
      BY <1>5, <1>11, <3>1, SymbolsInOrder
    <3>3. l <= k => p <= q
      BY <1>5, <1>11, <3>1, SymbolsInOrder
    <3>4. p + i <= q + FloorBits => p <= q
      BY <1>5, <3>2, <3>3
    <3>5. p + i = q + j => l = k /\ i = j
      BY <1>5, <1>7, <1>11, <3>1, SamePlace
    <3> QED
      BY <3>1, <3>4, <3>5
  <2>4. ChannelInv(N)'
    <3>1. Len(channel) = q + FloorBits
      BY <1>12, <1>15, <1>17 DEF ChannelInv
    <3>2. ASSUME NEW l \in 0 .. Len(source) - 1, NEW i \in 1 .. FloorBits,
                 l * FloorBits + i <= Len(channel)
          PROVE  channel[l * FloorBits + i] = Entry(N[l * FloorBits], source, l, i)
      <4>1. l * FloorBits <= q /\ l * FloorBits \in Nat
        BY <2>3, <3>1, <3>2
      <4>2. l * FloorBits # q + j
        BY <1>7, <4>1
      <4>3. N[l * FloorBits] = M[l * FloorBits]
        BY <2>2, <4>1, <4>2
      <4> QED
        BY <1>15, <3>2, <4>3 DEF ChannelInv
    <3> QED
      BY <1>2, <1>12, <1>17, <3>1, <3>2 DEF ChannelInv
  <2>5. MixerInv(N)'
    <3>1. N[0] = NewMixer /\ weights' = N[Learnt']
      BY <1>12, <1>15, <2>1, <2>2 DEF MixerInv
    <3>2. ASSUME NEW l \in 0 .. Len(source) - 1, NEW i \in 1 .. FloorBits,
                 l * FloorBits + i <= q + j
          PROVE  N[l * FloorBits + i] =
                     LearnedUnder(N[l * FloorBits + i - 1], Ballot(source, l, i), source[l + 1][i])
      <4>1. PICK n \in Nat : n = l * FloorBits + i /\ n # 0 /\ n - 1 \in Nat
        BY <2>3
      <4>5. l * FloorBits + i - 1 = n - 1
        <5>1. PICK p \in Nat : p = l * FloorBits
          BY <2>3
        <5>2. n = p + i
          BY <4>1, <5>1
        <5>3. p + i - 1 = n - 1
          BY <5>2
        <5> QED
          BY <5>1, <5>3
      <4>6. l * FloorBits + i <= Learnt =>
               M[l * FloorBits + i] =
                   LearnedUnder(M[l * FloorBits + i - 1], Ballot(source, l, i), source[l + 1][i])
        BY <1>15, <1>17 DEF MixerInv
      <4>4. /\ n <= q + j - 1 =>
                  M[n] = LearnedUnder(M[n - 1], Ballot(source, l, i), source[l + 1][i])
            /\ n <= q + j
        BY <1>12, <3>2, <4>1, <4>5, <4>6
      <4>2. CASE n = q + j
        <5>1. l = k /\ i = j
          BY <2>3, <4>1, <4>2
        <5>2. n - 1 # q + j /\ n - 1 = q + j - 1
          BY <4>1, <4>2, <1>7
        <5>3. N[n - 1] = weights /\ N[n] = weights'
          BY <1>16, <2>2, <4>1, <4>2, <5>2
        <5> QED
          BY <1>9, <4>1, <4>5, <5>1, <5>3
      <4>3. CASE n # q + j
        <5>1. n <= q + j - 1 /\ n - 1 # q + j
          BY <1>7, <4>3, <4>4
        <5>2. N[n] = M[n] /\ N[n - 1] = M[n - 1]
          BY <2>2, <4>1, <4>3, <5>1
        <5> QED
          BY <4>1, <4>4, <4>5, <5>1, <5>2
      <4> QED
        BY <4>2, <4>3
    <3> QED
      BY <1>2, <1>12, <1>17, <3>1, <3>2 DEF MixerInv
  <2> QED
    BY <2>2, <2>4, <2>5 DEF HistoryInv
<1>18. ASSUME pass # "encode" PROVE HistoryInv'
  <2>1. q + j <= Whole
    <3>1. PICK p \in Nat : p = Len(source) * FloorBits
      BY <1>5, SymbolsInOrder
    <3>2. q + FloorBits <= p
      BY <1>5, <1>11, <3>1, SymbolsInOrder
    <3> QED
      BY <1>5, <1>7, <3>1, <3>2 DEF Whole
  <2>2. M[q + j] = LearnedUnder(M[q + j - 1], Ballot(source, k, j), source[k + 1][j])
    BY <1>5, <1>7, <1>11, <1>15, <1>18, <2>1 DEF MixerInv
  <2>3. weights' = M[Learnt']
    BY <1>9, <1>12, <1>16, <2>2
  <2>4. MixerInv(M)'
    BY <1>2, <1>15, <1>18, <2>3 DEF MixerInv, Whole
  <2>5. ChannelInv(M)'
    BY <1>2, <1>15, <1>18 DEF ChannelInv, Whole
  <2> QED
    BY <2>4, <2>5 DEF HistoryInv
<1>19. HistoryInv'
  BY <1>17, <1>18
<1> QED
  BY <1>13, <1>14, <1>19 DEF IInv

LEMMA PushSymbolKeeps ==
    ASSUME IInv, PushSymbol
    PROVE  IInv'
<1>1. ShapeInv /\ LearnInv
  BY DEF IInv
<1>2. /\ pc = "learn" /\ updates = <<>> /\ pc' = "symbol"
      /\ retained' = Append(retained, Restored)
      /\ UNCHANGED <<pass, source, weights, predicted, consensus, residual,
                     updates, channel, taken, inStep>>
  BY DEF PushSymbol
<1>3. PICK k : k = Len(retained)
  OBVIOUS
<1>4. /\ k \in Nat /\ Len(source) \in Nat /\ k < Len(source) /\ FloorBits \in Nat
      /\ Restored = source[k + 1] /\ retained = SubSeq(source, 1, k)
      /\ source \in Seq(Symbols) /\ Len(updates) = 0
  BY <1>1, <1>2, <1>3, Numbers DEF ShapeInv, LearnInv
<1>5. retained' = SubSeq(source, 1, k + 1) /\ Len(retained') = k + 1
  BY <1>2, <1>4
<1>6. Coded' = Coded /\ Learnt' = Learnt
  <2>1. PICK q \in Nat : q = k * FloorBits /\ (k + 1) * FloorBits = q + FloorBits
    BY <1>4, SymbolsInOrder
  <2>2. Coded = q + FloorBits /\ Learnt = q + FloorBits
    BY <1>2, <1>3, <1>4, <2>1 DEF Coded, Learnt
  <2>3. Coded' = q + FloorBits /\ Learnt' = q + FloorBits
    BY <1>2, <1>4, <1>5, <2>1 DEF Coded, Learnt
  <2> QED
    BY <2>2, <2>3
<1>7. ShapeInv'
  BY <1>1, <1>2, <1>4, <1>5, <1>6 DEF ShapeInv
<1>8. SymbolInv' /\ LearnInv'
  BY <1>2 DEF SymbolInv, LearnInv
<1>9. HistoryInv'
  <2>1. PICK M \in [Nat -> Mixers] : ChannelInv(M) /\ MixerInv(M)
    BY DEF IInv, HistoryInv
  <2>2. ChannelInv(M)' /\ MixerInv(M)'
    BY <1>2, <1>6, <2>1 DEF ChannelInv, MixerInv, Whole
  <2> QED
    BY <2>2 DEF HistoryInv
<1> QED
  BY <1>7, <1>8, <1>9 DEF IInv

\* The decoder starts where the encoder started.
LEMMA StartDecodeKeeps ==
    ASSUME IInv, StartDecode
    PROVE  IInv'
<1>1. ShapeInv
  BY DEF IInv
<1>2. /\ pass = "encode" /\ pc = "symbol" /\ Len(retained) = Len(source)
      /\ pass' = "decode" /\ retained' = <<>> /\ weights' = NewMixer
      /\ UNCHANGED <<pc, source, predicted, consensus, residual, updates,
                     channel, taken, inStep>>
  BY DEF StartDecode
<1>3. Len(source) \in Nat /\ FloorBits \in Nat /\ Whole \in Nat
  BY <1>1, Numbers DEF ShapeInv, Whole
<1>4. Coded = Whole /\ Learnt = Whole
  BY <1>2, <1>3 DEF Coded, Learnt, Whole
<1>5. Len(retained') = 0 /\ SubSeq(source, 1, 0) = <<>>
  BY <1>1, <1>2 DEF ShapeInv
<1>6. Coded' = 0 /\ Learnt' = 0
  BY <1>2, <1>3, <1>5 DEF Coded, Learnt
<1>7. ShapeInv'
  BY <1>1, <1>2, <1>3, <1>5, <1>6, NewMixerIsMixer DEF ShapeInv
<1>8. SymbolInv' /\ LearnInv'
  BY <1>2 DEF SymbolInv, LearnInv
<1>9. HistoryInv'
  <2>1. PICK M \in [Nat -> Mixers] : ChannelInv(M) /\ MixerInv(M)
    BY DEF IInv, HistoryInv
  <2>2. ChannelInv(M)'
    BY <1>2, <1>4, <2>1 DEF ChannelInv, Whole
  <2>3. MixerInv(M)'
    BY <1>2, <1>4, <1>6, <2>1 DEF MixerInv, Whole
  <2> QED
    BY <2>2, <2>3 DEF HistoryInv
<1> QED
  BY <1>7, <1>8, <1>9 DEF IInv

LEMMA EndDecodeKeeps ==
    ASSUME IInv, EndDecode
    PROVE  IInv'
<1>1. /\ pass = "decode" /\ pc = "symbol" /\ pass' = "done"
      /\ UNCHANGED <<pc, source, retained, weights, predicted, consensus,
                     residual, updates, channel, taken, inStep>>
  BY DEF EndDecode
<1>2. Coded' = Coded /\ Learnt' = Learnt
  BY <1>1 DEF Coded, Learnt
<1>3. ShapeInv'
  BY <1>1, <1>2 DEF IInv, ShapeInv
<1>4. SymbolInv' /\ LearnInv'
  BY <1>1 DEF SymbolInv, LearnInv
<1>5. HistoryInv'
  <2>1. PICK M \in [Nat -> Mixers] : ChannelInv(M) /\ MixerInv(M)
    BY DEF IInv, HistoryInv
  <2>2. ChannelInv(M)' /\ MixerInv(M)'
    BY <1>1, <1>2, <2>1 DEF ChannelInv, MixerInv, Whole
  <2> QED
    BY <2>2 DEF HistoryInv
<1> QED
  BY <1>3, <1>4, <1>5 DEF IInv

LEMMA NextPreserves == IInv /\ [Next]_vars => IInv'
<1> SUFFICES ASSUME IInv, [Next]_vars PROVE IInv'
  OBVIOUS
<1>1. CASE BeginSymbol
  BY <1>1, BeginSymbolKeeps
<1>2. CASE EncodeBit
  BY <1>2, EncodeBitKeeps
<1>3. CASE DecodeBit
  BY <1>3, DecodeBitKeeps
<1>4. CASE CloseSymbol
  BY <1>4, CloseSymbolKeeps
<1>5. CASE Learn
  BY <1>5, LearnKeeps
<1>6. CASE PushSymbol
  BY <1>6, PushSymbolKeeps
<1>7. CASE StartDecode
  BY <1>7, StartDecodeKeeps
<1>8. CASE EndDecode
  BY <1>8, EndDecodeKeeps
<1>9. CASE UNCHANGED vars
  <2>1. UNCHANGED <<pass, pc, source, retained, weights, predicted, consensus,
                    residual, updates, channel, taken, inStep>>
    BY <1>9 DEF vars
  <2>2. Coded' = Coded /\ Learnt' = Learnt /\ Restored' = Restored
    BY <2>1 DEF Coded, Learnt, Restored, Quotient, Remainder
  <2>3. ShapeInv' /\ SymbolInv' /\ LearnInv'
    BY <2>1, <2>2 DEF IInv, ShapeInv, SymbolInv, LearnInv
  <2>4. PICK M \in [Nat -> Mixers] : ChannelInv(M) /\ MixerInv(M)
    BY DEF IInv, HistoryInv
  <2>5. ChannelInv(M)' /\ MixerInv(M)'
    BY <2>1, <2>2, <2>4 DEF ChannelInv, MixerInv, Whole
  <2>6. HistoryInv'
    BY <2>5 DEF HistoryInv
  <2> QED
    BY <2>3, <2>6 DEF IInv
<1> QED
  BY <1>1, <1>2, <1>3, <1>4, <1>5, <1>6, <1>7, <1>8, <1>9 DEF Next
-----------------------------------------------------------------------------
\* The probabilities that reach the coder lie strictly between 0 and the
\* scale and are never under one half (residual_zero_probability).
THEOREM ProbabilitiesUsable == Spec => []ProbabilitiesAreUsable
<1>1. IInv => ProbabilitiesAreUsable
  <2> SUFFICES ASSUME IInv, NEW n \in 1 .. Len(channel)
               PROVE  /\ channel[n].p0 \in Even .. 2 * Even - 1
                      /\ channel[n].p0 <= Even + Gain
    BY DEF ProbabilitiesAreUsable
  <2>1. channel[n] \in [z : Bits, p0 : Probabilities]
    <3>1. channel \in Seq([z : Bits, p0 : Probabilities])
      BY DEF IInv, ShapeInv
    <3>2. ASSUME NEW S, channel \in Seq(S) PROVE channel[n] \in S
      BY <3>2
    <3> QED
      BY <3>1, <3>2
  <2> QED
    BY <2>1 DEF Probabilities
<1> QED
  BY <1>1, InitEstablishes, NextPreserves, PTL DEF Spec

\* Whatever the experts predict, the decoder asks for every bit under the
\* probability the encoder wrote it with: predictions, mixer and deferred
\* updates depend on nothing the decoder does not have.
THEOREM InStep == Spec => []DecoderInStep
<1>1. IInv => DecoderInStep
  BY DEF IInv, ShapeInv, DecoderInStep
<1> QED
  BY <1>1, InitEstablishes, NextPreserves, PTL DEF Spec

LEMMA ReplayInit == Init => Replay!Init
<1> SUFFICES ASSUME Init PROVE Replay!Init
  OBVIOUS
<1>1. pass = "encode" /\ retained = <<>> /\ source \in Seq(Symbols)
  BY PathThreeAssumption DEF Init
<1>2. SubSeq(source, 1, Len(retained)) = <<>>
  BY <1>1
<1> QED
  BY <1>1, <1>2 DEF Replay!Init

\* A pushed symbol is accepted from the source or replayed, the turn of the
\* passes seals the source, and nothing else shows.
LEMMA ReplayStep ==
    ASSUME IInv, IInv', [Next]_vars
    PROVE  [Replay!Next]_(Replay!vars)
<1> USE DEF Replay!vars
<1>1. ShapeInv /\ ShapeInv'
  BY DEF IInv
<1>2. CASE PushSymbol
  <2>1. /\ retained' = Append(retained, Restored) /\ source' = source /\ pass' = pass
        /\ pc = "learn"
    BY <1>2 DEF PushSymbol
  <2>2. PICK k : k = Len(retained)
    OBVIOUS
  <2>3. /\ k \in Nat /\ k < Len(source) /\ source \in Seq(Symbols)
        /\ retained = SubSeq(source, 1, k) /\ retained \in Seq(Symbols)
        /\ Restored = source[k + 1] /\ pass \in {"encode", "decode"}
    <3>1. /\ k \in Nat /\ k < Len(source) /\ source \in Seq(Symbols)
          /\ retained = SubSeq(source, 1, k) /\ pass \in {"encode", "decode"}
      BY <1>1, <2>1, <2>2 DEF ShapeInv
    <3>2. Restored = source[k + 1]
      BY <2>1, <2>2 DEF IInv, LearnInv
    <3>3. SubSeq(source, 1, k) \in Seq(Symbols)
      BY <3>1
    <3> QED
      BY <3>1, <3>2, <3>3
  <2>4. /\ retained' = SubSeq(source, 1, k + 1)
        /\ Len(retained') = k + 1
        /\ retained' \in Seq(Symbols)
        /\ SubSeq(retained', 1, k) = retained
        /\ k + 1 \in k + 1 .. Len(source)
    BY <2>1, <2>3
  <2>5. CASE pass = "encode"
    <3>1. Replay!Accept
      BY <2>1, <2>2, <2>3, <2>4, <2>5 DEF Replay!Accept
    <3> QED
      BY <3>1 DEF Replay!Next
  <2>6. CASE pass = "decode"
    <3>1. Replay!Replay
      BY <2>1, <2>2, <2>4, <2>6 DEF Replay!Replay
    <3> QED
      BY <3>1 DEF Replay!Next
  <2> QED
    BY <2>3, <2>5, <2>6
<1>3. CASE StartDecode
  <2>1. /\ pass = "encode" /\ pass' = "decode" /\ retained' = <<>> /\ source' = source
        /\ Len(retained) = Len(source)
    BY <1>3 DEF StartDecode
  <2>2. SubSeq(source, 1, Len(retained)) = source
    BY <1>1, <2>1 DEF ShapeInv
  <2>3. Replay!Seal
    BY <2>1, <2>2 DEF Replay!Seal
  <2> QED
    BY <2>3 DEF Replay!Next
<1>4. CASE CloseSymbol
  <2>1. pass' = pass
    <3>1. pc = "bit" /\ Len(updates) = FloorBits
      BY <1>4 DEF CloseSymbol
    <3>2. Restored = Actual
      BY <3>1, SymbolIsRestored
    <3> QED
      BY <1>4, <3>2 DEF CloseSymbol
  <2> QED
    BY <1>4, <2>1 DEF CloseSymbol
<1>5. CASE EndDecode
  BY <1>5 DEF EndDecode
<1>6. CASE BeginSymbol \/ EncodeBit \/ DecodeBit \/ Learn \/ UNCHANGED vars
  BY <1>6 DEF BeginSymbol, EncodeBit, DecodeBit, CodeBit, Learn, vars
<1> QED
  BY <1>2, <1>3, <1>4, <1>5, <1>6 DEF Next

\* Path 3 hands back the symbols it was given, in order and unchanged, and
\* never gives up on what it has encoded.
THEOREM PathThreeReplays == Spec => Replay!Spec
<1>1. IInv /\ IInv' /\ [Next]_vars => [Replay!Next]_(Replay!vars)
  BY ReplayStep
<1> QED
  BY <1>1, InitEstablishes, NextPreserves, ReplayInit, PTL DEF Spec, Replay!Spec
=============================================================================
