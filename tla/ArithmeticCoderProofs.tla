----------------------- MODULE ArithmeticCoderProofs -----------------------
(***************************************************************************)
(* For every register width, probability scale and message length the      *)
(* arithmetic coder keeps its types, reaches none of its errors, and gives *)
(* back the bits it was given, the decoder in step with the encoder.       *)
(***************************************************************************)
EXTENDS ArithmeticCoder, Numbers

\* The encoder's interval is never empty and, between two bits, wide enough.
EncoderInv ==
    /\ low <= high
    /\ pc = "encode" => Settled(low, high)

\* Until decoding starts the decoder is as created, except that the window
\* is being loaded; the bits loaded so far leave room for the unread ones.
LoadInv ==
    /\ pc \in {"encode", "emit", "load"} => dlow = 0 /\ dhigh = Top
    /\ pc \in {"encode", "emit"} => value = 0 /\ unread = Top + 1
    /\ pc = "load" => unread >= 1 /\ (value + 1) * unread <= Top + 1

\* The window stays inside the decoder's interval.
DecoderInv ==
    /\ dlow <= dhigh
    /\ pc \in {"decode", "shift"} => dlow <= value /\ value <= dhigh
    /\ pc = "decode" => Settled(dlow, dhigh)

IInv == TypeOK /\ NoCoderError /\ EncoderInv /\ LoadInv /\ DecoderInv
-----------------------------------------------------------------------------
(* Arithmetic.                                                             *)

\* Scaling a wide enough range by a probability strictly between 0 and 1
\* leaves a part for each bit value.
LEMMA ScaledRange ==
    ASSUME NEW range \in Nat, NEW T \in Nat \ {0}, NEW p \in 1 .. T - 1,
           range >= T
    PROVE  /\ (range * p) \div T \in Nat
           /\ 1 <= (range * p) \div T
           /\ (range * p) \div T < range
<1> DEFINE a == range * p
           q == a \div T
<1>1. a \in Nat /\ a >= range
  BY SMT
<1>2. a < T * range
  <2>1. range * (T - p) >= range
    BY SMT
  <2>2. range > 0
    BY SMT
  <2>3. range * (T - p) = T * range - a
    BY SMT
  <2> QED
    BY <1>1, <2>1, <2>2, <2>3, SMT
<1> HIDE DEF a
<1>3. q \in Int /\ T * q <= a /\ a < T * (q + 1)
  BY <1>1, SMT
<1> HIDE DEF q
<1>4. q >= 1
  <2>1. SUFFICES ASSUME q <= 0 PROVE FALSE
    BY <1>3, SMT
  <2>2. T * (q + 1) <= T
    BY <1>3, <2>1, SMT
  <2> QED
    BY <1>1, <1>3, <2>2, SMT
<1>5. q < range
  <2>1. SUFFICES ASSUME q >= range PROVE FALSE
    BY <1>3, SMT
  <2>2. T * q >= T * range
    BY <1>3, <2>1, SMT
  <2> QED
    BY <1>1, <1>2, <1>3, <2>2, SMT
<1> QED
  BY <1>3, <1>4, <1>5 DEF q, a

\* A settled interval holds more than a quarter of the code range, so it can
\* be split for every probability: the degenerate-interval error is dead.
LEMMA SettledSplits ==
    ASSUME NEW lo \in 0 .. Top, NEW hi \in 0 .. Top, Settled(lo, hi),
           NEW p0 \in Probabilities
    PROVE  /\ InOpenInterval(p0)
           /\ ~Degenerate(lo, hi, p0)
           /\ Split(lo, hi, p0) \in Int
           /\ lo <= Split(lo, hi, p0)
           /\ Split(lo, hi, p0) < hi
<1>1. p0 \in 1 .. Total - 1
  BY CoderAssumption
<1>2. hi - lo + 1 \in Nat /\ hi - lo + 1 >= Total
  BY CoderAssumption
  DEF Settled, InLowerHalf, InUpperHalf, Straddles, Half, ThirdQuarter, Top
<1>3. /\ ZeroRange(lo, hi, p0) \in Nat
      /\ 1 <= ZeroRange(lo, hi, p0)
      /\ ZeroRange(lo, hi, p0) < hi - lo + 1
  BY <1>1, <1>2, CoderAssumption, ScaledRange DEF ZeroRange
<1> QED
  BY <1>1, <1>3 DEF InOpenInterval, Degenerate, Split

\* Loading one more bit halves the room left for the unread ones.
LEMMA LoadRoom ==
    ASSUME NEW v \in Nat, NEW u \in Nat, u > 1, NEW b \in Bits, NEW B \in Nat,
           (v + 1) * u <= B
    PROVE  /\ u \div 2 \in Nat /\ u \div 2 >= 1
           /\ (2 * v + b + 1) * (u \div 2) <= B
<1> DEFINE h == u \div 2
<1>1. h \in Nat /\ h >= 1 /\ 2 * h <= u
  BY SMT
<1> HIDE DEF h
<1>2. (2 * v + b + 1) * h <= (2 * v + 2) * h
  BY <1>1, SMT DEF Bits
<1>3. (2 * v + 2) * h = (v + 1) * (2 * h)
  BY <1>1, SMT
<1>4. (v + 1) * (2 * h) <= (v + 1) * u
  BY <1>1, SMT
<1>5. (2 * v + b + 1) * h \in Int /\ (v + 1) * u \in Int
  BY <1>1, SMT DEF Bits
<1>6. (2 * v + b + 1) * h <= B
  BY <1>1, <1>2, <1>3, <1>4, <1>5, SMT DEF Bits
<1> QED
  BY <1>1, <1>6 DEF h

\* A window that leaves room for the unread bits fits the register.
LEMMA RoomBounds ==
    ASSUME NEW v \in Nat, NEW u \in Nat, u >= 1, NEW B \in Nat, (v + 1) * u <= B
    PROVE  v + 1 <= B
<1>1. (v + 1) * 1 <= (v + 1) * u
  BY SMT
<1>2. (v + 1) * u \in Nat
  BY SMT
<1> QED
  BY <1>1, <1>2, SMT
-----------------------------------------------------------------------------
(* The reader and the writer.                                              *)

LEMMA ElementOfSequence ==
    ASSUME NEW S, NEW s \in Seq(S), NEW i \in 1 .. Len(s)
    PROVE  s[i] \in S
  OBVIOUS

\* Whatever was written, and past its end, the reader hands out bits.
LEMMA ReaderHandsOutBits ==
    ASSUME TypeOK PROVE ReadOrZero \in Bits
  BY DEF TypeOK, ReadOrZero, BitAt, Bits

\* The writer only ever appends bits.
LEMMA WriterAppendsBits ==
    ASSUME out \in Seq(Bits), NEW b \in Bits, NEW n \in Nat
    PROVE  WithFollow(b, n) \in Seq(Bits)
<1>1. Append(out, b) \in Seq(Bits)
  OBVIOUS
<1>2. Repeat(1 - b, n) \in Seq(Bits)
  BY DEF Repeat, Bits
<1> QED
  BY <1>1, <1>2 DEF WithFollow

LEMMA PaddingIsBits ==
    ASSUME NEW n \in Nat PROVE Padding(n) \in Seq(Bits)
<1>1. (ByteBits - (n % ByteBits)) % ByteBits \in Nat
  BY CoderAssumption, SMT
<1> QED
  BY <1>1 DEF Padding, Repeat, Bits

LEMMA Registers ==
    /\ Top \in Nat /\ Half \in Nat /\ ThirdQuarter \in Nat /\ Quarter \in Nat \ {0}
    /\ 0 \in 0 .. Top /\ Top \in 0 .. Top
  BY CoderAssumption DEF Top, Half, ThirdQuarter
-----------------------------------------------------------------------------
(* The inductive invariant.                                                *)

LEMMA InitEstablishes == Init => IInv
<1> SUFFICES ASSUME Init PROVE IInv
  OBVIOUS
<1>1. Settled(0, Top)
  BY CoderAssumption
  DEF Settled, InLowerHalf, InUpperHalf, Straddles, Half, ThirdQuarter, Top
<1>2. <<>> \in Seq(Bits)
      /\ <<>> \in Seq(SentRecord)
  OBVIOUS
<1> QED
  BY <1>1, <1>2, Registers
  DEF Init, IInv, TypeOK, NoCoderError, EncoderInv, LoadInv, DecoderInv

LEMMA EncodeBitPreserves ==
    ASSUME IInv, NEW bit \in Bits, NEW p0 \in Probabilities, EncodeBit(bit, p0)
    PROVE  IInv'
<1> DEFINE split == Split(low, high, p0)
<1>1. /\ InOpenInterval(p0) /\ ~Degenerate(low, high, p0)
      /\ split \in Int /\ low <= split /\ split < high
  BY SettledSplits DEF IInv, TypeOK, EncoderInv, EncodeBit
<1>2. /\ pc' = "emit"
      /\ low' = IF bit = 0 THEN low ELSE split + 1
      /\ high' = IF bit = 0 THEN split ELSE high
      /\ UNCHANGED <<follow, out, dlow, dhigh, value, position, unread, decoded>>
  BY <1>1 DEF EncodeBit, decoder
<1>3. low' \in 0 .. Top /\ high' \in 0 .. Top /\ low' <= high'
  BY <1>1, <1>2, Registers DEF IInv, TypeOK
<1>4. sent' \in Seq(SentRecord)
  BY DEF SentRecord, EncodeBit, IInv, TypeOK
<1>5. TypeOK'
  BY <1>2, <1>3, <1>4 DEF IInv, TypeOK
<1> QED
  BY <1>2, <1>3, <1>5
  DEF IInv, NoCoderError, EncoderInv, LoadInv, DecoderInv, EncodeBit

\* The doublings of the encoder: each moves the interval down by an offset
\* that keeps it inside the code range.
LEMMA DoublingStays ==
    ASSUME NEW lo \in 0 .. Top, NEW hi \in 0 .. Top, lo <= hi, NEW offset \in Nat,
           \/ InLowerHalf(lo, hi) /\ offset = 0
           \/ InUpperHalf(lo, hi) /\ offset = Half
           \/ Straddles(lo, hi) /\ offset = Quarter
    PROVE  /\ 2 * (lo - offset) \in 0 .. Top
           /\ 2 * (hi - offset) + 1 \in 0 .. Top
           /\ 2 * (lo - offset) <= 2 * (hi - offset) + 1
           /\ \A v \in lo .. hi, b \in Bits :
                 2 * (v - offset) + b \in 2 * (lo - offset) .. 2 * (hi - offset) + 1
  BY CoderAssumption
  DEF InLowerHalf, InUpperHalf, Straddles, Half, ThirdQuarter, Top, Bits

LEMMA EmitPreserves ==
    ASSUME IInv, EmitLower \/ EmitUpper \/ HoldBack \/ EmitSettled
    PROVE  IInv'
<1> USE DEF IInv, decoder
<1>1. CASE EmitLower
  <2>1. low' \in 0 .. Top /\ high' \in 0 .. Top /\ low' <= high'
    BY <1>1, DoublingStays DEF EmitLower, TypeOK, EncoderInv
  <2>2. out' \in Seq(Bits) /\ follow' \in Nat
    BY <1>1, WriterAppendsBits DEF EmitLower, TypeOK, Bits
  <2> QED
    BY <1>1, <2>1, <2>2
    DEF EmitLower, TypeOK, NoCoderError, EncoderInv, LoadInv, DecoderInv
<1>2. CASE EmitUpper
  <2>1. low' \in 0 .. Top /\ high' \in 0 .. Top /\ low' <= high'
    BY <1>2, DoublingStays, Registers DEF EmitUpper, TypeOK, EncoderInv
  <2>2. out' \in Seq(Bits) /\ follow' \in Nat
    BY <1>2, WriterAppendsBits DEF EmitUpper, TypeOK, Bits
  <2> QED
    BY <1>2, <2>1, <2>2
    DEF EmitUpper, TypeOK, NoCoderError, EncoderInv, LoadInv, DecoderInv
<1>3. CASE HoldBack
  <2>1. low' \in 0 .. Top /\ high' \in 0 .. Top /\ low' <= high'
    BY <1>3, DoublingStays, CoderAssumption DEF HoldBack, TypeOK, EncoderInv
  <2> QED
    BY <1>3, <2>1
    DEF HoldBack, TypeOK, NoCoderError, EncoderInv, LoadInv, DecoderInv
<1>4. CASE EmitSettled
  BY <1>4
  DEF EmitSettled, encoder, TypeOK, NoCoderError, EncoderInv, LoadInv, DecoderInv
<1> QED
  BY <1>1, <1>2, <1>3, <1>4

LEMMA FinishPreserves ==
    ASSUME IInv, Finish PROVE IInv'
<1> DEFINE code == WithFollow(FinalBit(low), follow + 1)
<1>1. code \in Seq(Bits)
  <2>1. FinalBit(low) \in Bits
    BY DEF FinalBit, Bits
  <2>2. out \in Seq(Bits) /\ follow + 1 \in Nat
    BY DEF IInv, TypeOK
  <2> QED
    BY <2>1, <2>2, WriterAppendsBits
<1>2. Padding(Len(code)) \in Seq(Bits)
  BY <1>1, PaddingIsBits
<1>3. out' \in Seq(Bits)
  BY <1>1, <1>2 DEF Finish
<1> QED
  BY <1>3, Registers
  DEF IInv, Finish, decoder, TypeOK, NoCoderError, EncoderInv, LoadInv,
      DecoderInv, Top

LEMMA LoadPreserves ==
    ASSUME IInv, Load PROVE IInv'
<1>1. ReadOrZero \in Bits
  BY ReaderHandsOutBits DEF IInv
<1>2. /\ value \in Nat /\ unread \in Nat /\ unread > 1 /\ Top + 1 \in Nat
      /\ (value + 1) * unread <= Top + 1
  BY Registers DEF IInv, TypeOK, LoadInv, Load
<1> DEFINE v == 2 * value + ReadOrZero
           u == unread \div 2
<1>3. v \in Nat /\ u \in Nat /\ u >= 1 /\ (v + 1) * u <= Top + 1
  BY <1>1, <1>2, LoadRoom DEF Bits
<1>4. value' = v /\ unread' = u
  BY DEF Load
<1> HIDE DEF v, u
<1>5. value' \in 0 .. Top
  <2>1. v + 1 <= Top + 1
    BY <1>2, <1>3, RoomBounds
  <2> QED
    BY <1>2, <1>3, <1>4, <2>1, Registers
<1>6. TypeOK'
  BY <1>3, <1>4, <1>5 DEF IInv, Load, encoder, TypeOK
<1>7. LoadInv'
  BY <1>3, <1>4 DEF IInv, Load, LoadInv
<1> QED
  BY <1>6, <1>7
  DEF IInv, Load, encoder, NoCoderError, EncoderInv, DecoderInv

LEMMA LoadedPreserves ==
    ASSUME IInv, Loaded PROVE IInv'
<1>1. Settled(0, Top)
  BY CoderAssumption
  DEF Settled, InLowerHalf, InUpperHalf, Straddles, Half, ThirdQuarter, Top
<1> QED
  BY <1>1
  DEF IInv, Loaded, encoder, decoder, TypeOK, NoCoderError, EncoderInv, LoadInv,
      DecoderInv

LEMMA DecodeBitPreserves ==
    ASSUME IInv, DecodeBit PROVE IInv'
<1> DEFINE p0 == sent[Len(decoded) + 1].p0
           split == Split(dlow, dhigh, p0)
           bit == IF value <= split THEN 0 ELSE 1
<1>1. p0 \in Probabilities
  <2>1. Len(decoded) + 1 \in 1 .. Len(sent)
    BY DEF IInv, TypeOK, DecodeBit
  <2>2. sent[Len(decoded) + 1] \in SentRecord
    BY <2>1, ElementOfSequence DEF IInv, TypeOK
  <2> QED
    BY <2>2 DEF SentRecord
<1>2. /\ InOpenInterval(p0) /\ ~Degenerate(dlow, dhigh, p0)
      /\ split \in Int /\ dlow <= split /\ split < dhigh
  BY <1>1, SettledSplits DEF IInv, TypeOK, DecoderInv, DecodeBit
<1>3. ~(value < dlow \/ value > dhigh)
  BY DEF IInv, TypeOK, DecoderInv, DecodeBit
<1>4. /\ pc' = "shift"
      /\ dlow' = IF bit = 0 THEN dlow ELSE split + 1
      /\ dhigh' = IF bit = 0 THEN split ELSE dhigh
      /\ decoded' = Append(decoded, bit)
  BY <1>2, <1>3 DEF DecodeBit
<1> HIDE DEF p0
<1>5. /\ dlow' \in 0 .. Top /\ dhigh' \in 0 .. Top
      /\ dlow' <= dhigh' /\ dlow' <= value /\ value <= dhigh'
  BY <1>2, <1>3, <1>4, Registers DEF IInv, TypeOK
<1>6. decoded' \in Seq(Bits)
  BY <1>4 DEF IInv, TypeOK, Bits
<1> QED
  BY <1>4, <1>5, <1>6
  DEF IInv, DecodeBit, encoder, TypeOK, NoCoderError, EncoderInv, LoadInv,
      DecoderInv

LEMMA ShiftPreserves ==
    ASSUME IInv, ShiftLower \/ ShiftUpper \/ ShiftMiddle PROVE IInv'
<1>1. PICK offset \in Nat :
         /\ ShiftBy(offset)
         /\ \/ InLowerHalf(dlow, dhigh) /\ offset = 0
            \/ InUpperHalf(dlow, dhigh) /\ offset = Half
            \/ Straddles(dlow, dhigh) /\ offset = Quarter
  BY Registers, CoderAssumption DEF ShiftLower, ShiftUpper, ShiftMiddle
<1>2. pc = "shift" /\ value \in dlow .. dhigh /\ ReadOrZero \in Bits
  BY ReaderHandsOutBits
  DEF ShiftLower, ShiftUpper, ShiftMiddle, IInv, TypeOK, DecoderInv
<1>3. /\ dlow' \in 0 .. Top /\ dhigh' \in 0 .. Top /\ dlow' <= dhigh'
      /\ value' \in dlow' .. dhigh'
  BY <1>1, <1>2, DoublingStays DEF ShiftBy, IInv, TypeOK, DecoderInv
<1> QED
  BY <1>1, <1>2, <1>3, Registers
  DEF ShiftBy, encoder, IInv, TypeOK, NoCoderError, EncoderInv, LoadInv, DecoderInv

LEMMA NextPreserves == IInv /\ [Next]_vars => IInv'
<1> SUFFICES ASSUME IInv, [Next]_vars PROVE IInv'
  OBVIOUS
<1>1. CASE Encode
  BY <1>1, EncodeBitPreserves, EmitPreserves, FinishPreserves DEF Encode
<1>2. CASE ShiftSettled \/ Exhausted
  BY <1>2
  DEF ShiftSettled, Exhausted, encoder, decoder, IInv, TypeOK, NoCoderError,
      EncoderInv, LoadInv, DecoderInv
<1>3. CASE Decode
  BY <1>2, <1>3, LoadPreserves, LoadedPreserves, DecodeBitPreserves, ShiftPreserves
  DEF Decode
<1>4. CASE UNCHANGED vars
  BY <1>4
  DEF vars, IInv, TypeOK, NoCoderError, EncoderInv, LoadInv, DecoderInv
<1> QED
  BY <1>1, <1>3, <1>4 DEF Next
-----------------------------------------------------------------------------
\* The registers of both coders stay within the code range.
THEOREM TypeCorrect == Spec => []TypeOK
<1>1. IInv => TypeOK
  BY DEF IInv
<1> QED
  BY <1>1, InitEstablishes, NextPreserves, PTL DEF Spec

\* encode_bit and decode_bit never return an ArithmeticState error to a
\* caller whose probabilities lie in the open interval.
THEOREM CoderNeverFails == Spec => []NoCoderError
<1>1. IInv => NoCoderError
  BY DEF IInv
<1> QED
  BY <1>1, InitEstablishes, NextPreserves, PTL DEF Spec
-----------------------------------------------------------------------------
(* Induction over the numbers, with a set in place of the predicate.       *)

\* Finite beginnings of the function that starts with a and goes on by F.
Beginning(S, a, F, n) ==
    {h \in [0 .. n -> S] : h[0] = a /\ \A i \in 0 .. n - 1 : h[i + 1] = F[<<i, h[i]>>]}

LEMMA BeginningsExist ==
    ASSUME NEW S, NEW a \in S, NEW F \in [Nat \X S -> S], NEW n \in Nat
    PROVE  Beginning(S, a, F, n) # {}
<1> DEFINE P == {k \in Nat : Beginning(S, a, F, k) # {}}
<1>1. 0 \in P
  <2>1. [i \in 0 .. 0 |-> a] \in Beginning(S, a, F, 0)
    BY DEF Beginning
  <2> QED
    BY <2>1
<1>2. ASSUME NEW k \in Nat, k \in P PROVE k + 1 \in P
  <2>1. PICK h \in Beginning(S, a, F, k) : TRUE
    BY <1>2
  <2> DEFINE g == [i \in 0 .. k + 1 |-> IF i <= k THEN h[i] ELSE F[<<k, h[k]>>]]
  <2>2. h \in [0 .. k -> S] /\ h[0] = a /\ \A i \in 0 .. k - 1 : h[i + 1] = F[<<i, h[i]>>]
    BY <2>1 DEF Beginning
  <2>3. h[k] \in S /\ F[<<k, h[k]>>] \in S
    BY <2>2
  <2>4. g \in [0 .. k + 1 -> S]
    <3>1. ASSUME NEW i \in 0 .. k + 1 PROVE g[i] \in S
      <4>1. CASE i <= k
        <5>1. i \in 0 .. k
          BY <4>1
        <5> QED
          BY <5>1, <2>2
      <4>2. CASE ~(i <= k)
        BY <4>2, <2>3
      <4> QED
        BY <4>1, <4>2
    <3> QED
      BY <3>1
  <2>5. g[0] = a
    BY <2>2
  <2>6. ASSUME NEW i \in 0 .. (k + 1) - 1 PROVE g[i + 1] = F[<<i, g[i]>>]
    <3>1. i \in 0 .. k + 1 /\ i + 1 \in 0 .. k + 1 /\ i <= k
      OBVIOUS
    <3>2. g[i] = h[i]
      BY <3>1
    <3>3. CASE i = k
      BY <3>1, <3>2, <3>3
    <3>4. CASE i # k
      <4>1. i \in 0 .. k - 1 /\ i + 1 <= k
        BY <3>4
      <4> QED
        BY <4>1, <3>1, <3>2, <2>2
    <3> QED
      BY <3>3, <3>4
  <2> HIDE DEF g
  <2>7. g \in Beginning(S, a, F, k + 1)
    BY <2>4, <2>5, <2>6 DEF Beginning
  <2> QED
    BY <2>7
<1> HIDE DEF P
<1>3. n \in P
  BY <1>1, <1>2, EveryNumber
<1> QED
  BY <1>3 DEF P

LEMMA BeginningsAgree ==
    ASSUME NEW S, NEW a, NEW F, NEW n \in Nat,
           NEW g \in Beginning(S, a, F, n), NEW h \in Beginning(S, a, F, n)
    PROVE  g[n] = h[n]
<1> DEFINE P == {k \in Nat : \A p, q \in Beginning(S, a, F, k) : p[k] = q[k]}
<1>1. 0 \in P
  BY DEF Beginning
<1>2. ASSUME NEW k \in Nat, k \in P PROVE k + 1 \in P
  <2> SUFFICES ASSUME NEW p \in Beginning(S, a, F, k + 1), NEW q \in Beginning(S, a, F, k + 1)
               PROVE  p[k + 1] = q[k + 1]
    OBVIOUS
  <2>1. k \in 0 .. (k + 1) - 1 /\ k \in 0 .. k
    OBVIOUS
  <2>2. ASSUME NEW f \in Beginning(S, a, F, k + 1)
        PROVE  [i \in 0 .. k |-> f[i]] \in Beginning(S, a, F, k)
    <3>1. f \in [0 .. k + 1 -> S] /\ f[0] = a
      BY DEF Beginning
    <3>2. ASSUME NEW i \in 0 .. k - 1 PROVE f[i + 1] = F[<<i, f[i]>>]
      BY DEF Beginning
    <3>3. \A i \in 0 .. k : i \in 0 .. k + 1
      OBVIOUS
    <3>4. [i \in 0 .. k |-> f[i]] \in [0 .. k -> S]
      BY <3>1, <3>3
    <3>5. \A i \in 0 .. k - 1 : i \in 0 .. k /\ i + 1 \in 0 .. k
      OBVIOUS
    <3> QED
      BY <3>1, <3>2, <3>4, <3>5 DEF Beginning
  <2>3. p[k] = q[k]
    BY <1>2, <2>1, <2>2
  <2> QED
    BY <2>1, <2>3 DEF Beginning
<1> HIDE DEF P
<1>3. n \in P
  BY <1>1, <1>2, EveryNumber
<1> QED
  BY <1>3 DEF P

\* g starts with a and goes on by F.
Recurs(g, S, a, F) ==
    g \in [Nat -> S] /\ g[0] = a /\ \A n \in Nat : g[n + 1] = F[<<n, g[n]>>]

LEMMA RecursionTheorem ==
    ASSUME NEW S, NEW a \in S, NEW F \in [Nat \X S -> S]
    PROVE  \E g : Recurs(g, S, a, F)
<1> DEFINE b == [n \in Nat |-> CHOOSE h : h \in Beginning(S, a, F, n)]
<1> DEFINE g == [n \in Nat |-> b[n][n]]
<1>1. ASSUME NEW n \in Nat PROVE b[n] \in Beginning(S, a, F, n)
  BY BeginningsExist
<1> HIDE DEF b
<1>2. ASSUME NEW n \in Nat PROVE g[n] \in S
  BY <1>1 DEF Beginning
<1>3. g[0] = a
  BY <1>1 DEF Beginning
<1>4. ASSUME NEW n \in Nat PROVE g[n + 1] = F[<<n, g[n]>>]
  <2> DEFINE f == b[n + 1]
  <2>1. f \in [0 .. n + 1 -> S] /\ f[0] = a /\ \A i \in 0 .. n : f[i + 1] = F[<<i, f[i]>>]
    BY <1>1 DEF Beginning
  <2>2. [i \in 0 .. n |-> f[i]] \in Beginning(S, a, F, n)
    <3>1. \A i \in 0 .. n : i \in 0 .. n + 1
      OBVIOUS
    <3>2. [i \in 0 .. n |-> f[i]] \in [0 .. n -> S]
      BY <2>1, <3>1
    <3>3. \A i \in 0 .. n - 1 : i \in 0 .. n /\ i + 1 \in 0 .. n
      OBVIOUS
    <3> HIDE DEF f
    <3> QED
      BY <2>1, <3>2, <3>3 DEF Beginning
  <2>3. n \in 0 .. n
    OBVIOUS
  <2>4. f[n] = b[n][n]
    <3>1. PICK e \in Beginning(S, a, F, n) : e = [i \in 0 .. n |-> f[i]]
      BY <2>2
    <3>2. e[n] = f[n]
      BY <2>3, <3>1
    <3>3. PICK c \in Beginning(S, a, F, n) : c = b[n]
      BY <1>1
    <3>4. e[n] = c[n]
      BY BeginningsAgree
    <3> QED
      BY <3>2, <3>3, <3>4
  <2> QED
    BY <2>1, <2>3, <2>4
<1> HIDE DEF g
<1>5. g \in [Nat -> S]
  <2>1. g = [n \in Nat |-> g[n]]
    BY DEF g
  <2> QED
    BY <1>2, <2>1
<1> QED
  BY <1>3, <1>4, <1>5 DEF Recurs
-----------------------------------------------------------------------------
(* Powers of two.                                                          *)

LEMMA Powers ==
    /\ Power \in [Nat -> Nat]
    /\ Power[0] = 1 /\ \A n \in Nat : Power[n + 1] = 2 * Power[n]
<1>1. PICK g : g \in [Nat -> Nat] /\ g[0] = 1 /\ \A n \in Nat : g[n + 1] = 2 * g[n]
  <2> DEFINE F == [x \in Nat \X Nat |-> 2 * x[2]]
  <2>1. F \in [Nat \X Nat -> Nat] /\ \A n, m \in Nat : F[<<n, m>>] = 2 * m
    OBVIOUS
  <2>2. 1 \in Nat
    OBVIOUS
  <2> HIDE DEF F
  <2>3. PICK g : Recurs(g, Nat, 1, F)
    BY <2>1, <2>2, RecursionTheorem
  <2> QED
    BY <2>1, <2>3 DEF Recurs
<1>2. g = [n \in Nat |-> IF n = 0 THEN 1 ELSE 2 * g[n - 1]]
  <2>1. ASSUME NEW n \in Nat, n # 0 PROVE g[n] = 2 * g[n - 1]
    <3>1. n - 1 \in Nat /\ (n - 1) + 1 = n
      BY <2>1
    <3> QED
      BY <1>1, <3>1
  <2> QED
    BY <1>1, <2>1
<1>3. Power = [n \in Nat |-> IF n = 0 THEN 1 ELSE 2 * Power[n - 1]]
  BY <1>2 DEF Power
<1>4. Power[0] = 1
  BY <1>3
<1>5. ASSUME NEW n \in Nat PROVE Power[n + 1] = 2 * Power[n]
  <2>1. n + 1 # 0 /\ (n + 1) - 1 = n /\ n + 1 \in Nat
    OBVIOUS
  <2> QED
    BY <1>3, <2>1
<1>6. Nat \subseteq {n \in Nat : Power[n] \in Nat}
  <2> DEFINE P == {n \in Nat : Power[n] \in Nat}
  <2>1. 0 \in P
    BY <1>4
  <2>2. ASSUME NEW n \in Nat, n \in P PROVE n + 1 \in P
    BY <1>5, <2>2
  <2> HIDE DEF P
  <2>3. Nat \subseteq P
    BY <2>1, <2>2, EveryNumber
  <2> QED
    BY <2>3 DEF P
<1> QED
  BY <1>3, <1>4, <1>5, <1>6
-----------------------------------------------------------------------------
(* The round trip.  A trace is the encoder's run, one node per step: its   *)
(* interval, the index of the bit that its window starts with, the index   *)
(* of the bit after those held back, and the number of bits coded.  The    *)
(* window of a node is what the decoder's register holds when it is there. *)
(* A doubling moves the window of a node to that of the next one, so that  *)
(* windows in their intervals can be followed back from the last node,     *)
(* where Finish puts it.                                                   *)

Nodes == [low : 0 .. Top, high : 0 .. Top, first : Nat, next : Nat, coded : Nat,
          phase : {"encode", "emit"}]

Start == [low |-> 0, high |-> Top, first |-> 0, next |-> 1, coded |-> 0,
          phase |-> "encode"]

BitOf(code, i) == IF i < Len(code) THEN code[i + 1] ELSE 0

Narrows(t, u, s) ==
    /\ t.phase = "encode" /\ u.phase = "emit"
    /\ u.first = t.first /\ u.next = t.next
    /\ u.coded = t.coded + 1 /\ u.coded <= Len(s)
    /\ s[u.coded].low = t.low /\ s[u.coded].high = t.high
    /\ u.low = IF s[u.coded].bit = 0 THEN t.low ELSE Split(t.low, t.high, s[u.coded].p0) + 1
    /\ u.high = IF s[u.coded].bit = 0 THEN Split(t.low, t.high, s[u.coded].p0) ELSE t.high
    /\ t.low <= u.low /\ u.high <= t.high

Doubles(t, u, offset) ==
    /\ t.phase = "emit" /\ u.phase = "emit" /\ u.coded = t.coded
    /\ u.low = 2 * (t.low - offset) /\ u.high = 2 * (t.high - offset) + 1
    /\ u.next = t.next + 1

EmitsLower(t, u) == InLowerHalf(t.low, t.high) /\ Doubles(t, u, 0) /\ u.first = t.next
EmitsUpper(t, u) == InUpperHalf(t.low, t.high) /\ Doubles(t, u, Half) /\ u.first = t.next
HoldsBack(t, u) == Straddles(t.low, t.high) /\ Doubles(t, u, Quarter) /\ u.first = t.first

Settles(t, u) ==
    /\ t.phase = "emit" /\ u.phase = "encode" /\ Settled(t.low, t.high)
    /\ u.low = t.low /\ u.high = t.high /\ u.coded = t.coded
    /\ u.first = t.first /\ u.next = t.next

\* A step of the trace, and what the code has about it: the bit it emitted
\* or, once the bits held back are written, that the next is an opposite one.
TraceStep(t, u, s, code) ==
    \/ Narrows(t, u, s)
    \/ EmitsLower(t, u) /\ t.next <= Len(code) /\ BitOf(code, t.first) = 0
    \/ EmitsUpper(t, u) /\ t.next <= Len(code) /\ BitOf(code, t.first) = 1
    \/ /\ HoldsBack(t, u)
       /\ \/ t.first = Len(code)
          \/ t.next < Len(code) /\ BitOf(code, t.next) = 1 - BitOf(code, t.first)
    \/ Settles(t, u)

IsTrace(tr, n, s, code) ==
    /\ n \in Nat
    /\ tr[0] = Start
    /\ \A j \in 0 .. n : tr[j] \in Nodes /\ tr[j].first < tr[j].next /\ tr[j].next <= tr[n].next
    /\ \A j \in 0 .. n - 1 : TraceStep(tr[j], tr[j + 1], s, code)

\* The node the encoder is at.
Here == [low |-> low, high |-> high, first |-> Len(out), next |-> Len(out) + 1 + follow,
         coded |-> Len(sent), phase |-> pc]

EncodeTrace ==
    pc \in {"encode", "emit"} => \E tr, n : IsTrace(tr, n, sent, out) /\ tr[n] = Here

\* The whole code: the last window starts with FinalBit, goes on with the
\* opposite one, and all that follows is zero.
Complete(tr, n, s, code) ==
    /\ IsTrace(tr, n, s, code)
    /\ tr[n].phase = "encode" /\ tr[n].coded = Len(s)
    /\ Settled(tr[n].low, tr[n].high)
    /\ tr[n].next < Len(code)
    /\ BitOf(code, tr[n].first) = FinalBit(tr[n].low)
    /\ BitOf(code, tr[n].next) = 1 - FinalBit(tr[n].low)
    /\ \A i \in Nat : i > tr[n].next => BitOf(code, i) = 0

\* value[k] is the number that the first k bits of the code spell.
Spells(number, code) ==
    /\ number \in [Nat -> Nat] /\ number[0] = 0
    /\ \A k \in Nat : number[k + 1] = 2 * number[k] + BitOf(code, k)

LoadTrace ==
    pc = "load" =>
        /\ \E tr, n, number : Complete(tr, n, sent, out) /\ Spells(number, out) /\ value = number[position]
        /\ \E r \in Nat : unread = Power[r] /\ Power[r] * Power[position] = Top + 1
        /\ decoded = <<>>

\* What a register of width bits holds at node t.
Window(t, number, width, code) ==
    (Half * BitOf(code, t.first) + number[(t.next + width) - 1]) - Half * number[t.next]

DecoderAt(t, number, width) ==
    /\ dlow = t.low /\ dhigh = t.high
    /\ Len(decoded) = t.coded
    /\ t.phase = IF pc = "shift" THEN "emit" ELSE "encode"
    /\ position = (t.next + width) - 1
    /\ value = Window(t, number, width, out)

IsWidth(width) == width \in Nat /\ Power[width] = Top + 1

Following(tr, n, number, width, j) ==
    /\ Complete(tr, n, sent, out) /\ Spells(number, out) /\ IsWidth(width)
    /\ j \in 0 .. n /\ DecoderAt(tr[j], number, width)

DecodeTrace ==
    pc \in {"decode", "shift", "done"} =>
        \E tr, n, number, width, j : Following(tr, n, number, width, j)

DecodedInv ==
    /\ pc \in {"encode", "emit", "load"} => decoded = <<>>
    /\ pc \in {"encode", "emit"} => position = 0
    /\ Len(decoded) <= Len(sent)
    /\ \A i \in 1 .. Len(decoded) : decoded[i] = sent[i].bit
    /\ pc = "done" => Len(decoded) = Len(sent)

TraceInv == EncodeTrace /\ LoadTrace /\ DecodeTrace /\ DecodedInv
-----------------------------------------------------------------------------
(* The trace grows with the code.                                          *)

\* new is code, one bit, m opposite ones, and possibly more.
Continues(new, code, b, m) ==
    /\ Len(new) >= Len(code) + 1 + m
    /\ \A i \in 0 .. Len(code) - 1 : BitOf(new, i) = BitOf(code, i)
    /\ BitOf(new, Len(code)) = b
    /\ \A i \in Len(code) + 1 .. Len(code) + m : BitOf(new, i) = 1 - b

LEMMA StepSurvives ==
    ASSUME NEW t \in Nodes, NEW u \in Nodes, NEW s, NEW code \in Seq(Bits),
           NEW new \in Seq(Bits), NEW b \in Bits, NEW m \in Nat,
           t.first < t.next, TraceStep(t, u, s, code),
           Continues(new, code, b, m), u.next <= Len(code) + 1 + m
    PROVE  TraceStep(t, u, s, new)
<1>1. t.first \in Nat /\ t.next \in Nat /\ u.next \in Nat /\ Len(code) \in Nat /\ Len(new) \in Nat
  BY DEF Nodes
<1>2. Len(code) <= Len(new)
  BY <1>1 DEF Continues
<1>3. CASE Narrows(t, u, s) \/ Settles(t, u)
  BY <1>3 DEF TraceStep
<1>4. CASE t.next <= Len(code) /\ (EmitsLower(t, u) \/ EmitsUpper(t, u))
  <2>1. BitOf(new, t.first) = BitOf(code, t.first)
    BY <1>1, <1>4 DEF Continues
  <2>2. ~Narrows(t, u, s) /\ ~HoldsBack(t, u) /\ ~Settles(t, u)
    BY <1>1, <1>4, Registers
    DEF EmitsLower, EmitsUpper, HoldsBack, Doubles, Settles, Narrows, Settled,
        Straddles, InLowerHalf, InUpperHalf
  <2> QED
    BY <1>1, <1>2, <1>4, <2>1, <2>2 DEF TraceStep
<1>5. CASE HoldsBack(t, u)
  <2>1. u.next = t.next + 1
    BY <1>5 DEF HoldsBack, Doubles
  <2>2. ~Narrows(t, u, s) /\ ~EmitsLower(t, u) /\ ~EmitsUpper(t, u) /\ ~Settles(t, u)
    BY <1>1, <1>5, Registers
    DEF EmitsLower, EmitsUpper, HoldsBack, Doubles, Settles, Narrows, Settled,
        Straddles, InLowerHalf, InUpperHalf, Nodes
  <2>3. CASE t.first = Len(code)
    <3>1. t.next \in Len(code) + 1 .. Len(code) + m
      BY <1>1, <2>1, <2>3
    <3>2. BitOf(new, t.first) = b /\ BitOf(new, t.next) = 1 - b
      BY <2>3, <3>1 DEF Continues
    <3>3. t.next < Len(new)
      BY <1>1, <3>1 DEF Continues
    <3> QED
      BY <1>5, <3>2, <3>3 DEF TraceStep
  <2>4. CASE t.next < Len(code) /\ BitOf(code, t.next) = 1 - BitOf(code, t.first)
    <3>1. BitOf(new, t.first) = BitOf(code, t.first) /\ BitOf(new, t.next) = BitOf(code, t.next)
      BY <1>1, <2>4 DEF Continues
    <3> QED
      BY <1>1, <1>2, <1>5, <2>4, <3>1 DEF TraceStep
  <2> QED
    BY <1>5, <2>2, <2>3, <2>4 DEF TraceStep
<1> QED
  BY <1>3, <1>4, <1>5 DEF TraceStep

LEMMA TraceSurvives ==
    ASSUME NEW tr, NEW n, NEW s, NEW code \in Seq(Bits), IsTrace(tr, n, s, code),
           NEW new \in Seq(Bits), NEW b \in Bits, NEW m \in Nat,
           Continues(new, code, b, m), tr[n].next <= Len(code) + 1 + m
    PROVE  IsTrace(tr, n, s, new)
<1>1. n \in Nat /\ tr[0] = Start
      /\ \A j \in 0 .. n : tr[j] \in Nodes /\ tr[j].first < tr[j].next /\ tr[j].next <= tr[n].next
  BY DEF IsTrace
<1>2. ASSUME NEW j \in 0 .. n - 1 PROVE TraceStep(tr[j], tr[j + 1], s, new)
  <2>1. j \in 0 .. n /\ j + 1 \in 0 .. n /\ n \in 0 .. n
    BY <1>1
  <2>2. tr[j] \in Nodes /\ tr[j + 1] \in Nodes /\ tr[j].first < tr[j].next
    BY <1>1, <2>1
  <2>3. tr[j + 1].next <= Len(code) + 1 + m
    <3>1. tr[j + 1].next <= tr[n].next /\ tr[j + 1].next \in Nat /\ tr[n].next \in Nat
      BY <1>1, <2>1 DEF Nodes
    <3> QED
      BY <3>1
  <2>4. TraceStep(tr[j], tr[j + 1], s, code)
    BY DEF IsTrace
  <2> QED
    BY <2>2, <2>3, <2>4, StepSurvives
<1> QED
  BY <1>1, <1>2 DEF IsTrace

LEMMA TraceSent ==
    ASSUME NEW tr, NEW n, NEW s \in Seq(SentRecord), NEW code, IsTrace(tr, n, s, code),
           NEW r \in SentRecord
    PROVE  IsTrace(tr, n, Append(s, r), code)
<1>1. n \in Nat /\ tr[0] = Start
      /\ \A j \in 0 .. n : tr[j] \in Nodes /\ tr[j].first < tr[j].next /\ tr[j].next <= tr[n].next
  BY DEF IsTrace
<1>2. ASSUME NEW j \in 0 .. n - 1 PROVE TraceStep(tr[j], tr[j + 1], Append(s, r), code)
  <2>1. TraceStep(tr[j], tr[j + 1], s, code)
    BY DEF IsTrace
  <2>2. tr[j] \in Nodes /\ tr[j + 1] \in Nodes
    BY <1>1
  <2>3. CASE Narrows(tr[j], tr[j + 1], s)
    <3>1. tr[j + 1].coded \in 1 .. Len(s)
      BY <2>2, <2>3 DEF Narrows, Nodes
    <3>2. Append(s, r)[tr[j + 1].coded] = s[tr[j + 1].coded] /\ Len(Append(s, r)) = Len(s) + 1
      BY <3>1
    <3>3. Narrows(tr[j], tr[j + 1], Append(s, r))
      BY <2>3, <3>1, <3>2 DEF Narrows
    <3> QED
      BY <3>3 DEF TraceStep
  <2>4. CASE ~Narrows(tr[j], tr[j + 1], s)
    BY <2>1, <2>4 DEF TraceStep
  <2> QED
    BY <2>3, <2>4
<1> QED
  BY <1>1, <1>2 DEF IsTrace

LEMMA TraceGrows ==
    ASSUME NEW tr, NEW n, NEW s, NEW code, IsTrace(tr, n, s, code),
           NEW u \in Nodes, u.first < u.next, tr[n].next <= u.next,
           TraceStep(tr[n], u, s, code)
    PROVE  \E ext : IsTrace(ext, n + 1, s, code) /\ ext[n + 1] = u
<1>1. n \in Nat /\ tr[0] = Start
      /\ \A j \in 0 .. n : tr[j] \in Nodes /\ tr[j].first < tr[j].next /\ tr[j].next <= tr[n].next
  BY DEF IsTrace
<1>2. PICK ext : ext = [j \in 0 .. n + 1 |-> IF j <= n THEN tr[j] ELSE u]
  OBVIOUS
<1>3. (\A j \in 0 .. n : ext[j] = tr[j]) /\ ext[n + 1] = u
  BY <1>1, <1>2
<1>4. ASSUME NEW j \in 0 .. n + 1
      PROVE  ext[j] \in Nodes /\ ext[j].first < ext[j].next /\ ext[j].next <= ext[n + 1].next
  <2>1. CASE j = n + 1
    BY <1>3, <2>1 DEF Nodes
  <2>2. CASE j # n + 1
    <3>1. j \in 0 .. n /\ n \in 0 .. n
      BY <1>1, <2>2
    <3>2. ext[j] = tr[j] /\ tr[j] \in Nodes /\ tr[j].first < tr[j].next /\ tr[j].next <= tr[n].next
      BY <1>1, <1>3, <3>1
    <3>3. tr[j].next \in Nat /\ tr[n].next \in Nat /\ u.next \in Nat
      BY <1>1, <3>1 DEF Nodes
    <3> QED
      BY <1>3, <3>2, <3>3
  <2> QED
    BY <2>1, <2>2
<1>5. ASSUME NEW j \in 0 .. (n + 1) - 1 PROVE TraceStep(ext[j], ext[j + 1], s, code)
  <2>1. CASE j = n
    BY <1>1, <1>3, <2>1
  <2>2. CASE j # n
    <3>1. j \in 0 .. n - 1 /\ j \in 0 .. n /\ j + 1 \in 0 .. n
      BY <1>1, <2>2
    <3> QED
      BY <1>3, <3>1 DEF IsTrace
  <2> QED
    BY <2>1, <2>2
<1>6. ext[0] = Start /\ n + 1 \in Nat
  BY <1>1, <1>3
<1> QED
  BY <1>3, <1>4, <1>5, <1>6 DEF IsTrace
-----------------------------------------------------------------------------
(* The encoder's actions trace themselves.                                 *)

LEMMA WrittenContinues ==
    ASSUME out \in Seq(Bits), NEW b \in Bits, NEW m \in Nat, NEW rest \in Seq(Bits)
    PROVE  /\ Len(WithFollow(b, m)) = Len(out) + 1 + m
           /\ Continues(WithFollow(b, m), out, b, m)
           /\ Continues(WithFollow(b, m) \o rest, out, b, m)
<1> DEFINE w == WithFollow(b, m)
<1>1. Repeat(1 - b, m) \in Seq(Bits) /\ Len(Repeat(1 - b, m)) = m
      /\ \A i \in 1 .. m : Repeat(1 - b, m)[i] = 1 - b
  BY DEF Repeat, Bits
<1>2. Append(out, b) \in Seq(Bits) /\ Len(Append(out, b)) = Len(out) + 1
  OBVIOUS
<1>3. w \in Seq(Bits) /\ Len(w) = Len(out) + 1 + m
  BY <1>1, <1>2 DEF WithFollow
<1>4. \A i \in 1 .. Len(out) : w[i] = out[i]
  BY <1>1, <1>2 DEF WithFollow
<1>5. w[Len(out) + 1] = b
  BY <1>1, <1>2 DEF WithFollow
<1>6. ASSUME NEW i \in Len(out) + 2 .. Len(out) + 1 + m PROVE w[i] = 1 - b
  <2>1. w[i] = Repeat(1 - b, m)[i - (Len(out) + 1)]
    BY <1>1, <1>2 DEF WithFollow
  <2>2. i - (Len(out) + 1) \in 1 .. m
    OBVIOUS
  <2> QED
    BY <1>1, <2>1, <2>2
<1> HIDE DEF w
<1>7. ASSUME NEW v \in Seq(Bits), Len(v) >= Len(w), \A i \in 1 .. Len(w) : v[i] = w[i]
      PROVE  Continues(v, out, b, m)
  <2>1. ASSUME NEW i \in 0 .. Len(out) - 1 PROVE BitOf(v, i) = BitOf(out, i)
    <3>1. i + 1 \in 1 .. Len(out) /\ i + 1 \in 1 .. Len(w) /\ i < Len(v)
      BY <1>3, <1>7
    <3> QED
      BY <1>4, <1>7, <3>1 DEF BitOf
  <2>2. BitOf(v, Len(out)) = b
    <3>1. Len(out) + 1 \in 1 .. Len(w) /\ Len(out) < Len(v)
      BY <1>3, <1>7
    <3> QED
      BY <1>5, <1>7, <3>1 DEF BitOf
  <2>3. ASSUME NEW i \in Len(out) + 1 .. Len(out) + m PROVE BitOf(v, i) = 1 - b
    <3>1. i + 1 \in Len(out) + 2 .. Len(out) + 1 + m /\ i + 1 \in 1 .. Len(w) /\ i < Len(v)
      BY <1>3, <1>7
    <3> QED
      BY <1>6, <1>7, <3>1 DEF BitOf
  <2> QED
    BY <1>3, <1>7, <2>1, <2>2, <2>3 DEF Continues
<1>8. w \o rest \in Seq(Bits) /\ Len(w \o rest) >= Len(w)
      /\ \A i \in 1 .. Len(w) : (w \o rest)[i] = w[i]
  BY <1>3
<1>9. PICK v \in Seq(Bits) : v = w \o rest
  BY <1>8
<1>10. Continues(v, out, b, m)
  BY <1>7, <1>8, <1>9
<1>11. Continues(w, out, b, m)
  BY <1>3, <1>7
<1> QED
  BY <1>3, <1>9, <1>10, <1>11 DEF w

LEMMA HereIsNode ==
    ASSUME NEW l \in 0 .. Top, NEW h \in 0 .. Top, NEW k \in Nat, NEW f \in Nat,
           NEW c \in Nat, NEW p \in {"encode", "emit"}
    PROVE  LET t == [low |-> l, high |-> h, first |-> k, next |-> (k + 1) + f,
                     coded |-> c, phase |-> p]
           IN t \in Nodes /\ t.first < t.next
  BY DEF Nodes

LEMMA EncoderTypes ==
    ASSUME TypeOK
    PROVE  /\ low \in 0 .. Top /\ high \in 0 .. Top /\ low \in Int /\ high \in Int
           /\ follow \in Nat /\ out \in Seq(Bits) /\ Len(out) \in Nat
           /\ sent \in Seq(SentRecord) /\ Len(sent) \in Nat
           /\ pc \in {"encode", "emit"} => Here \in Nodes /\ Here.first < Here.next
<1>1. low \in 0 .. Top /\ high \in 0 .. Top /\ follow \in Nat /\ out \in Seq(Bits) /\ sent \in Seq(SentRecord)
  BY DEF TypeOK
<1>2. Len(out) \in Nat /\ Len(sent) \in Nat /\ low \in Int /\ high \in Int
  BY <1>1
<1>3. ASSUME pc \in {"encode", "emit"} PROVE Here \in Nodes /\ Here.first < Here.next
  BY <1>1, <1>2, <1>3, HereIsNode DEF Here
<1> QED
  BY <1>1, <1>2, <1>3

LEMMA EncoderTypesNext ==
    ASSUME TypeOK'
    PROVE  /\ out' \in Seq(Bits)
           /\ pc' \in {"encode", "emit"} => Here' \in Nodes /\ Here'.first < Here'.next
<1>1. low' \in 0 .. Top /\ high' \in 0 .. Top /\ follow' \in Nat /\ out' \in Seq(Bits) /\ sent' \in Seq(SentRecord)
  BY DEF TypeOK
<1>2. Len(out') \in Nat /\ Len(sent') \in Nat
  BY <1>1
<1>3. ASSUME pc' \in {"encode", "emit"} PROVE Here' \in Nodes /\ Here'.first < Here'.next
  BY <1>1, <1>2, <1>3, HereIsNode DEF Here
<1> QED
  BY <1>1, <1>2, <1>3

LEMMA EncodeBitTraces ==
    ASSUME IInv, IInv', EncodeTrace, NEW bit \in Bits, NEW p0 \in Probabilities,
           EncodeBit(bit, p0)
    PROVE  EncodeTrace'
<1>1. PICK tr, n : IsTrace(tr, n, sent, out) /\ tr[n] = Here
  BY DEF EncodeBit, EncodeTrace
<1> DEFINE r == [bit |-> bit, p0 |-> p0, low |-> low, high |-> high]
           split == Split(low, high, p0)
<1>2. /\ InOpenInterval(p0) /\ ~Degenerate(low, high, p0)
      /\ split \in Int /\ low <= split /\ split < high
  BY SettledSplits DEF IInv, TypeOK, EncoderInv, EncodeBit
<1>3. /\ pc = "encode" /\ pc' = "emit" /\ sent' = Append(sent, r)
      /\ low' = IF bit = 0 THEN low ELSE split + 1
      /\ high' = IF bit = 0 THEN split ELSE high
      /\ follow' = follow /\ out' = out
  BY <1>2 DEF EncodeBit
<1>4. r \in SentRecord /\ sent \in Seq(SentRecord)
  BY DEF SentRecord, IInv, TypeOK
<1>5. IsTrace(tr, n, sent', out')
  BY <1>1, <1>3, <1>4, TraceSent
<1>6. Len(sent') = Len(sent) + 1 /\ sent'[Len(sent')] = r /\ Len(sent) \in Nat
  BY <1>3, <1>4
<1>7. Narrows(Here, Here', sent')
  <2>1. /\ Here.low = low /\ Here.high = high /\ Here.first = Len(out)
        /\ Here.next = Len(out) + 1 + follow /\ Here.coded = Len(sent) /\ Here.phase = "encode"
    BY <1>3 DEF Here
  <2>2. /\ Here'.low = low' /\ Here'.high = high' /\ Here'.first = Len(out)
        /\ Here'.next = Len(out) + 1 + follow /\ Here'.coded = Len(sent')
        /\ Here'.phase = "emit"
    BY <1>3 DEF Here
  <2>3. sent'[Len(sent')].bit = bit /\ sent'[Len(sent')].p0 = p0
        /\ sent'[Len(sent')].low = low /\ sent'[Len(sent')].high = high
    BY <1>6
  <2>4. low <= low' /\ high' <= high /\ low \in Int /\ high \in Int
    BY <1>2, <1>3, EncoderTypes DEF IInv
  <2> HIDE DEF split
  <2> QED
    BY <1>3, <1>6, <2>1, <2>2, <2>3, <2>4 DEF Narrows, split
<1>8. Here' \in Nodes /\ Here'.first < Here'.next /\ Here.next <= Here'.next
  <2>1. TypeOK' /\ pc' \in {"encode", "emit"}
    BY <1>3 DEF IInv
  <2>2. Here' \in Nodes /\ Here'.first < Here'.next
    BY <2>1, EncoderTypesNext
  <2>3. Here.next = Here'.next /\ Here'.next \in Nat
    BY <1>3, <2>2 DEF Here, Nodes
  <2> QED
    BY <2>2, <2>3
<1>9. TraceStep(tr[n], Here', sent', out')
  BY <1>1, <1>7 DEF TraceStep
<1>10. tr[n].next <= Here'.next
  BY <1>1, <1>8
<1> HIDE DEF r, split
<1>11. \E ext : IsTrace(ext, n + 1, sent', out') /\ ext[n + 1] = Here'
  BY <1>5, <1>8, <1>9, <1>10, TraceGrows
<1> QED
  BY <1>11 DEF EncodeTrace

LEMMA EmitTraces ==
    ASSUME IInv, IInv', EncodeTrace, EmitLower \/ EmitUpper
    PROVE  EncodeTrace'
<1>1. PICK b \in Bits :
         /\ pc = "emit" /\ pc' = "emit" /\ out' = WithFollow(b, follow) /\ follow' = 0
         /\ sent' = sent
         /\ \/ /\ b = 0 /\ InLowerHalf(low, high)
               /\ low' = 2 * (low - 0) /\ high' = 2 * (high - 0) + 1
            \/ /\ b = 1 /\ InUpperHalf(low, high)
               /\ low' = 2 * (low - Half) /\ high' = 2 * (high - Half) + 1
  <2>1. low - 0 = low /\ high - 0 = high
    BY EncoderTypes DEF IInv
  <2>2. CASE EmitLower
    BY <2>1, <2>2 DEF EmitLower, Bits
  <2>3. CASE EmitUpper
    BY <2>3 DEF EmitUpper, Bits
  <2> QED
    BY <2>2, <2>3
<1>2. PICK tr, n : IsTrace(tr, n, sent, out) /\ tr[n] = Here
  BY <1>1 DEF EncodeTrace
<1>3. out \in Seq(Bits) /\ out' \in Seq(Bits) /\ follow \in Nat /\ Len(out) \in Nat
  BY EncoderTypes DEF IInv, TypeOK
<1>4. Continues(out', out, b, follow) /\ Len(out') = Len(out) + 1 + follow
  <2>1. <<>> \in Seq(Bits)
    OBVIOUS
  <2> QED
    BY <1>1, <1>3, <2>1, WrittenContinues
<1>5. /\ Here.low = low /\ Here.high = high /\ Here.first = Len(out)
      /\ Here.next = Len(out) + 1 + follow /\ Here.coded = Len(sent) /\ Here.phase = "emit"
  BY <1>1 DEF Here
<1>6. /\ Here'.low = low' /\ Here'.high = high' /\ Here'.first = Len(out')
      /\ Here'.next = Len(out') + 1 /\ Here'.coded = Len(sent) /\ Here'.phase = "emit"
  BY <1>1 DEF Here
<1>7. IsTrace(tr, n, sent, out')
  BY <1>2, <1>3, <1>4, <1>5, TraceSurvives
<1>8. TraceStep(Here, Here', sent, out')
  <2>1. BitOf(out', Here.first) = b
    BY <1>4, <1>5 DEF Continues
  <2>2. \/ b = 0 /\ EmitsLower(Here, Here')
        \/ b = 1 /\ EmitsUpper(Here, Here')
    BY <1>1, <1>4, <1>5, <1>6 DEF EmitsLower, EmitsUpper, Doubles
  <2>3. Here.next <= Len(out')
    BY <1>4, <1>5
  <2> QED
    BY <2>1, <2>2, <2>3 DEF TraceStep
<1>9. Here' \in Nodes /\ Here'.first < Here'.next /\ tr[n].next <= Here'.next
  <2>1. TypeOK' /\ pc' \in {"encode", "emit"}
    BY <1>1 DEF IInv
  <2>2. Here' \in Nodes /\ Here'.first < Here'.next
    BY <2>1, EncoderTypesNext
  <2> QED
    BY <1>2, <1>3, <1>4, <1>5, <1>6, <2>2
<1>10. TraceStep(tr[n], Here', sent, out')
  BY <1>2, <1>8
<1>11. \E ext : IsTrace(ext, n + 1, sent, out') /\ ext[n + 1] = Here'
  BY <1>7, <1>9, <1>10, TraceGrows
<1> QED
  BY <1>1, <1>11 DEF EncodeTrace

LEMMA StayTraces ==
    ASSUME IInv, IInv', EncodeTrace, HoldBack \/ EmitSettled
    PROVE  EncodeTrace'
<1>1. pc = "emit" /\ pc' \in {"encode", "emit"} /\ out' = out /\ sent' = sent
  BY DEF HoldBack, EmitSettled, encoder
<1>2. PICK tr, n : IsTrace(tr, n, sent, out) /\ tr[n] = Here
  BY <1>1 DEF EncodeTrace
<1>3. /\ Here.low = low /\ Here.high = high /\ Here.first = Len(out)
      /\ Here.next = Len(out) + 1 + follow /\ Here.coded = Len(sent) /\ Here.phase = "emit"
  BY <1>1 DEF Here
<1>4. /\ Here'.low = low' /\ Here'.high = high' /\ Here'.first = Len(out)
      /\ Here'.next = Len(out) + 1 + follow' /\ Here'.coded = Len(sent) /\ Here'.phase = pc'
  BY <1>1 DEF Here
<1>5. Len(out) \in Nat /\ follow \in Nat /\ low \in Int /\ high \in Int
  BY EncoderTypes DEF IInv
<1>6. TraceStep(Here, Here', sent, out)
  <2>1. CASE HoldBack
    <3>1. HoldsBack(Here, Here')
      BY <1>3, <1>4, <1>5, <2>1 DEF HoldBack, HoldsBack, Doubles
    <3> QED
      BY <1>3, <3>1 DEF TraceStep
  <2>2. CASE EmitSettled
    <3>1. Settles(Here, Here')
      BY <1>3, <1>4, <2>2 DEF EmitSettled, encoder, Settles
    <3> QED
      BY <3>1 DEF TraceStep
  <2> QED
    BY <2>1, <2>2
<1>7. follow' >= follow /\ follow' \in Nat
  BY <1>5 DEF HoldBack, EmitSettled, encoder
<1>8. Here' \in Nodes /\ Here'.first < Here'.next /\ tr[n].next <= Here'.next
  <2>1. TypeOK' /\ pc' \in {"encode", "emit"}
    BY <1>1 DEF IInv
  <2>2. Here' \in Nodes /\ Here'.first < Here'.next
    BY <2>1, EncoderTypesNext
  <2> QED
    BY <1>2, <1>3, <1>4, <1>5, <1>7, <2>2
<1>9. TraceStep(tr[n], Here', sent, out)
  BY <1>2, <1>6
<1>10. \E ext : IsTrace(ext, n + 1, sent, out) /\ ext[n + 1] = Here'
  BY <1>2, <1>8, <1>9, TraceGrows
<1> QED
  BY <1>1, <1>10 DEF EncodeTrace

LEMMA FinishCompletes ==
    ASSUME IInv, IInv', EncodeTrace, Finish
    PROVE  \E tr, n : Complete(tr, n, sent', out')
<1>1. PICK tr, n : IsTrace(tr, n, sent, out) /\ tr[n] = Here
  BY DEF Finish, EncodeTrace
<1> DEFINE b == FinalBit(low)
           code == WithFollow(b, follow + 1)
           rest == Padding(Len(code))
<1>2. b \in Bits /\ follow + 1 \in Nat /\ follow \in Nat /\ out \in Seq(Bits) /\ Len(out) \in Nat
  <2>1. follow \in Nat /\ out \in Seq(Bits) /\ Len(out) \in Nat
    BY EncoderTypes DEF IInv
  <2> QED
    BY <2>1 DEF FinalBit, Bits
<1>3. code \in Seq(Bits)
  BY <1>2, WriterAppendsBits
<1>4. rest \in Seq(Bits)
  BY <1>3, PaddingIsBits
<1>5. out' = code \o rest /\ sent' = sent /\ pc = "encode" /\ out' \in Seq(Bits)
  <2>1. out' \in Seq(Bits)
    BY EncoderTypesNext DEF IInv
  <2> QED
    BY <2>1 DEF Finish
<1> HIDE DEF b
<1>6. Len(code) = Len(out) + 1 + (follow + 1) /\ Continues(out', out, b, follow + 1)
  <2> HIDE DEF rest
  <2> QED
    BY <1>2, <1>4, <1>5, WrittenContinues
<1>7. \A i \in 1 .. Len(rest) : rest[i] = 0
  <2>1. PICK k : rest = [i \in 1 .. k |-> 0]
    BY DEF Padding, Repeat
  <2> HIDE DEF rest
  <2>2. DOMAIN rest = 1 .. Len(rest)
    BY <1>4
  <2> QED
    BY <2>1, <2>2
<1> HIDE DEF code, rest
<1>8. /\ Here.low = low /\ Here.high = high /\ Here.first = Len(out)
      /\ Here.next = Len(out) + 1 + follow /\ Here.coded = Len(sent) /\ Here.phase = "encode"
  BY <1>5 DEF Here
<1>9. IsTrace(tr, n, sent, out')
  <2>1. tr[n].next <= Len(out) + 1 + (follow + 1)
    BY <1>1, <1>2, <1>8
  <2> QED
    BY <1>1, <1>2, <1>5, <1>6, <2>1, TraceSurvives
<1>10. Settled(low, high)
  BY <1>5 DEF IInv, EncoderInv
<1>11. Here.next < Len(out')
  BY <1>2, <1>3, <1>4, <1>5, <1>6, <1>8
<1>12. BitOf(out', Here.first) = b /\ BitOf(out', Here.next) = 1 - b
  <2>1. Here.next \in Len(out) + 1 .. Len(out) + (follow + 1)
    BY <1>2, <1>8
  <2> QED
    BY <1>6, <1>8, <2>1 DEF Continues
<1>13. ASSUME NEW i \in Nat, i > Here.next PROVE BitOf(out', i) = 0
  <2>1. CASE i < Len(out')
    <3>1. (i + 1) - Len(code) \in 1 .. Len(rest)
      BY <1>2, <1>3, <1>4, <1>5, <1>6, <1>8, <1>13, <2>1
    <3>2. out'[i + 1] = rest[(i + 1) - Len(code)]
      BY <1>2, <1>3, <1>4, <1>5, <1>6, <1>8, <1>13, <2>1
    <3> QED
      BY <1>7, <2>1, <3>1, <3>2 DEF BitOf
  <2>2. CASE ~(i < Len(out'))
    BY <2>2 DEF BitOf
  <2> QED
    BY <2>1, <2>2
<1>14. Complete(tr, n, sent', out')
  BY <1>1, <1>5, <1>8, <1>9, <1>10, <1>11, <1>12, <1>13 DEF Complete, b
<1> QED
  BY <1>14
-----------------------------------------------------------------------------
(* Windows.                                                                *)

LEMMA SpellingExists ==
    ASSUME NEW code \in Seq(Bits) PROVE \E number : Spells(number, code)
<1>1. \A k \in Nat : BitOf(code, k) \in Nat
  BY DEF BitOf, Bits
<1> DEFINE F == [x \in Nat \X Nat |-> 2 * x[2] + BitOf(code, x[1])]
<1>2. ASSUME NEW k \in Nat, NEW m \in Nat PROVE F[<<k, m>>] = 2 * m + BitOf(code, k)
  OBVIOUS
<1>3. F \in [Nat \X Nat -> Nat] /\ 0 \in Nat
  <2>1. ASSUME NEW x \in Nat \X Nat PROVE 2 * x[2] + BitOf(code, x[1]) \in Nat
    <3>1. x[1] \in Nat /\ x[2] \in Nat
      OBVIOUS
    <3>2. BitOf(code, x[1]) \in Nat
      BY <1>1, <3>1
    <3> QED
      BY <3>1, <3>2
  <2> QED
    BY <2>1
<1> HIDE DEF F
<1>4. PICK number : Recurs(number, Nat, 0, F)
  BY <1>3, RecursionTheorem
<1>5. Spells(number, code)
  BY <1>2, <1>4 DEF Recurs, Spells
<1> QED
  BY <1>5

LEMMA Spelled ==
    ASSUME NEW number, NEW code \in Seq(Bits), Spells(number, code), NEW k \in Nat
    PROVE  /\ number[k] \in Nat /\ BitOf(code, k) \in Bits
           /\ number[k + 1] = 2 * number[k] + BitOf(code, k)
<1>1. BitOf(code, k) \in Bits
  BY DEF BitOf, Bits
<1> QED
  BY <1>1 DEF Spells

LEMMA DoubledWindow ==
    ASSUME NEW H \in Nat, NEW N \in Nat, NEW M \in Nat,
           NEW b \in Bits, NEW x \in Bits, NEW y \in Bits
    PROVE  /\ (H * x + (2 * M + y)) - H * (2 * N + x) = 2 * (((H * b + M) - H * N) - H * b) + y
           /\ x = 1 - b =>
                 (H * b + (2 * M + y)) - H * (2 * N + x) = (2 * ((H * b + M) - H * N) - H) + y
<1>1. H * (2 * N + x) = 2 * (H * N) + H * x
  BY SMT DEF Bits
<1>2. H * N \in Nat /\ H * x \in Nat /\ H * b \in Nat
  BY SMT DEF Bits
<1>3. x = 1 - b => H * x = H - H * b
  BY SMT DEF Bits
<1> QED
  BY <1>1, <1>2, <1>3, SMT DEF Bits

LEMMA NodeIs ==
    ASSUME NEW x \in Nodes PROVE x.first \in Nat /\ x.next \in Nat
  BY DEF Nodes

\* A doubling moves the window as it moves the interval, and takes in the
\* next bit of the code.
LEMMA WindowMoves ==
    ASSUME NEW number, NEW code \in Seq(Bits), Spells(number, code),
           NEW width \in Nat \ {0}, NEW s, NEW t \in Nodes, NEW u \in Nodes,
           TraceStep(t, u, s, code), t.first < t.next, t.next < Len(code)
    PROVE  LET w == Window(t, number, width, code)
               v == Window(u, number, width, code)
               bit == BitOf(code, (t.next + width) - 1)
           IN /\ w \in Int /\ v \in Int /\ bit \in Bits
              /\ \/ Narrows(t, u, s) /\ v = w
                 \/ EmitsLower(t, u) /\ v = 2 * (w - 0) + bit
                 \/ EmitsUpper(t, u) /\ v = 2 * (w - Half) + bit
                 \/ HoldsBack(t, u) /\ v = 2 * (w - Quarter) + bit
                 \/ Settles(t, u) /\ v = w
<1> DEFINE b == BitOf(code, t.first)
           x == BitOf(code, t.next)
           y == BitOf(code, (t.next + width) - 1)
           N == number[t.next]
           M == number[(t.next + width) - 1]
           w == Window(t, number, width, code)
           v == Window(u, number, width, code)
<1>1. t.first \in Nat /\ t.next \in Nat /\ u.first \in Nat /\ u.next \in Nat
      /\ (t.next + width) - 1 \in Nat /\ (u.next + width) - 1 \in Nat
  BY NodeIs
<1>2. b \in Bits /\ x \in Bits /\ y \in Bits /\ N \in Nat /\ M \in Nat
  BY <1>1, Spelled
<1>3. number[t.next + 1] = 2 * N + x
  BY <1>1, Spelled
<1>4. number[((t.next + width) - 1) + 1] = 2 * M + y
  BY <1>1, Spelled
<1>5. Half \in Nat /\ Quarter \in Nat /\ Half = 2 * Quarter
  BY CoderAssumption DEF Half
<1>6. w = (Half * b + M) - Half * N
  BY DEF Window
<1>7. w \in Int
  <2>1. Half * b \in Nat /\ Half * N \in Nat
    BY <1>2, <1>5 DEF Bits
  <2> HIDE DEF w, b, M, N
  <2> QED
    BY <1>2, <1>6, <2>1
<1>8. ASSUME u.next = t.next + 1
      PROVE  v = (Half * BitOf(code, u.first) + (2 * M + y)) - Half * (2 * N + x)
  <2>1. (u.next + width) - 1 = ((t.next + width) - 1) + 1
    BY <1>1, <1>8, SMTT(30)
  <2> QED
    BY <1>3, <1>4, <1>8, <2>1 DEF Window
<1> HIDE DEF b, x, y, N, M, w, v
<1>9. CASE Narrows(t, u, s) \/ Settles(t, u)
  <2>1. v = w
    BY <1>9 DEF v, w, Window, Narrows, Settles
  <2> QED
    BY <1>2, <1>7, <1>9, <2>1 DEF y, v, w
<1>10. CASE EmitsLower(t, u) /\ b = 0
  <2>1. u.next = t.next + 1 /\ u.first = t.next
    BY <1>10 DEF EmitsLower, Doubles
  <2>2. v = 2 * (w - Half * b) + y
    BY <1>2, <1>5, <1>6, <1>8, <2>1, DoubledWindow DEF x
  <2>3. Half * b = 0
    BY <1>5, <1>10
  <2>4. v \in Int /\ v = 2 * (w - 0) + y
    BY <1>2, <1>7, <2>2, <2>3 DEF Bits
  <2> QED
    BY <1>2, <1>7, <1>10, <2>4 DEF y, v, w
<1>11. CASE EmitsUpper(t, u) /\ b = 1
  <2>1. u.next = t.next + 1 /\ u.first = t.next
    BY <1>11 DEF EmitsUpper, Doubles
  <2>2. v = 2 * (w - Half * b) + y
    BY <1>2, <1>5, <1>6, <1>8, <2>1, DoubledWindow DEF x
  <2>3. Half * b = Half
    BY <1>5, <1>11
  <2>4. v \in Int /\ v = 2 * (w - Half) + y
    BY <1>2, <1>5, <1>7, <2>2, <2>3 DEF Bits
  <2> QED
    BY <1>2, <1>7, <1>11, <2>4 DEF y, v, w
<1>12. CASE HoldsBack(t, u) /\ x = 1 - b
  <2>1. u.next = t.next + 1 /\ u.first = t.first
    BY <1>12 DEF HoldsBack, Doubles
  <2>2. v = (2 * w - Half) + y
    <3>1. v = (Half * b + (2 * M + y)) - Half * (2 * N + x)
      BY <1>8, <2>1 DEF b
    <3>2. (Half * b + (2 * M + y)) - Half * (2 * N + x) = (2 * ((Half * b + M) - Half * N) - Half) + y
      BY <1>2, <1>5, <1>12, DoubledWindow
    <3> QED
      BY <1>6, <3>1, <3>2
  <2>3. v \in Int /\ v = 2 * (w - Quarter) + y
    BY <1>2, <1>5, <1>7, <2>2 DEF Bits
  <2> QED
    BY <1>2, <1>7, <1>12, <2>3 DEF y, v, w
<1>13. t.first # Len(code)
  BY <1>1
<1> QED
  BY <1>9, <1>10, <1>11, <1>12, <1>13 DEF TraceStep, b, x

LEMMA WidthFacts ==
    ASSUME NEW width, IsWidth(width)
    PROVE  width \in Nat \ {0} /\ width - 2 \in Nat /\ Power[width - 2] = Quarter
<1>1. width \in Nat /\ Power[width] = 4 * Quarter /\ Quarter \in Nat \ {0}
  BY CoderAssumption DEF IsWidth, Top
<1>2. width # 0
  BY <1>1, Powers
<1>3. width - 1 \in Nat /\ Power[(width - 1) + 1] = 2 * Power[width - 1] /\ (width - 1) + 1 = width
  BY <1>1, <1>2, Powers
<1>4. width # 1
  BY <1>1, <1>3, Powers
<1>5. width - 2 \in Nat /\ Power[(width - 2) + 1] = 2 * Power[width - 2] /\ (width - 2) + 1 = width - 1
  BY <1>1, <1>2, <1>4, Powers
<1>6. Power[width - 2] \in Nat
  BY <1>5, Powers
<1> QED
  BY <1>1, <1>2, <1>3, <1>5, <1>6

\* Where only zeros follow, every bit doubles the number spelled.
LEMMA ZerosDouble ==
    ASSUME NEW number, NEW code \in Seq(Bits), Spells(number, code), NEW from \in Nat,
           \A i \in Nat : i >= from => BitOf(code, i) = 0, NEW k \in Nat
    PROVE  number[from + k] = Power[k] * number[from]
<1> DEFINE P == {i \in Nat : number[from + i] = Power[i] * number[from]}
<1>1. 0 \in P
  <2>1. from + 0 = from /\ number[from] \in Nat
    BY Spelled
  <2>2. number[from] = 1 * number[from]
    BY <2>1
  <2> QED
    BY <2>1, <2>2, Powers
<1>2. ASSUME NEW i \in Nat, i \in P PROVE i + 1 \in P
  <2>1. number[from + i] = Power[i] * number[from] /\ number[from] \in Nat /\ Power[i] \in Nat
    BY <1>2, Powers, Spelled
  <2>2. from + i \in Nat /\ from + i >= from /\ (from + i) + 1 = from + (i + 1)
    OBVIOUS
  <2>3. number[(from + i) + 1] = 2 * number[from + i] + BitOf(code, from + i)
    BY <2>2, Spelled
  <2>4. BitOf(code, from + i) = 0
    BY <2>2
  <2>5. number[from + (i + 1)] = 2 * (Power[i] * number[from])
    BY <2>1, <2>2, <2>3, <2>4
  <2>6. Power[i + 1] * number[from] = (2 * Power[i]) * number[from]
    BY Powers
  <2>7. (2 * Power[i]) * number[from] = 2 * (Power[i] * number[from])
    BY <2>1
  <2> QED
    BY <2>5, <2>6, <2>7
<1> HIDE DEF P
<1>3. k \in P
  BY <1>1, <1>2, EveryNumber
<1> QED
  BY <1>3 DEF P

\* Finish leaves the last window in its interval.
LEMMA FinalWindow ==
    ASSUME NEW tr, NEW n, NEW s, NEW code \in Seq(Bits), Complete(tr, n, s, code),
           NEW number, Spells(number, code), NEW width, IsWidth(width)
    PROVE  Window(tr[n], number, width, code) \in tr[n].low .. tr[n].high
<1> DEFINE t == tr[n]
           b == FinalBit(t.low)
           N == number[t.next]
<1>1. n \in Nat /\ t \in Nodes /\ t.next \in Nat /\ t.low \in 0 .. Top /\ t.high \in 0 .. Top
  <2>1. n \in Nat /\ n \in 0 .. n
    BY DEF Complete, IsTrace
  <2>2. t \in Nodes
    BY <2>1 DEF Complete, IsTrace
  <2> QED
    BY <2>1, <2>2 DEF Nodes
<1>2. /\ BitOf(code, t.first) = b /\ BitOf(code, t.next) = 1 - b
      /\ \A i \in Nat : i >= t.next + 1 => BitOf(code, i) = 0
      /\ Settled(t.low, t.high)
  BY <1>1 DEF Complete
<1> HIDE DEF t
<1>3. number[t.next + 1] = 2 * N + (1 - b) /\ N \in Nat
  <2>1. number[t.next + 1] = 2 * N + BitOf(code, t.next) /\ N \in Nat
    BY <1>1, Spelled
  <2> QED
    BY <1>2, <2>1
<1>4. width \in Nat \ {0} /\ width - 2 \in Nat /\ Power[width - 2] = Quarter
  BY WidthFacts
<1>5. number[(t.next + 1) + (width - 2)] = Power[width - 2] * number[t.next + 1]
  <2>1. PICK from \in Nat : from = t.next + 1
    BY <1>1
  <2>2. \A i \in Nat : i >= from => BitOf(code, i) = 0
    BY <1>2, <2>1
  <2>3. number[from + (width - 2)] = Power[width - 2] * number[from]
    BY <1>4, <2>2, ZerosDouble
  <2> QED
    BY <2>1, <2>3
<1>6. (t.next + width) - 1 = (t.next + 1) + (width - 2)
  BY <1>1, <1>4
<1>7. Window(t, number, width, code) = (Half * b + Quarter * (2 * N + (1 - b))) - Half * N
  BY <1>2, <1>3, <1>4, <1>5, <1>6 DEF Window
<1>8. b \in Bits /\ Quarter \in Nat /\ Half = 2 * Quarter
  BY CoderAssumption DEF FinalBit, Bits, Half
<1>9. Quarter * (2 * N + (1 - b)) = Half * N + Quarter * (1 - b)
  BY <1>3, <1>8 DEF Bits
<1>10. Half * N \in Nat
  BY <1>3, <1>8
<1>11. Window(t, number, width, code) = Half * b + Quarter * (1 - b)
  <2>1. Half * b \in Nat /\ Quarter * (1 - b) \in Nat
    BY <1>8 DEF Bits
  <2> QED
    BY <1>7, <1>9, <1>10, <2>1
<1>12. CASE t.low < Quarter
  <2>1. b = 0
    BY <1>12 DEF FinalBit
  <2>2. Window(t, number, width, code) = Quarter
    BY <1>8, <1>11, <2>1
  <2> QED
    BY <1>1, <1>2, <1>8, <1>12, <2>2
    DEF t, Settled, InLowerHalf, InUpperHalf, Straddles, ThirdQuarter, Half, Top
<1>13. CASE ~(t.low < Quarter)
  <2>1. b = 1
    BY <1>13 DEF FinalBit
  <2>2. Window(t, number, width, code) = Half
    BY <1>8, <1>11, <2>1
  <2> QED
    BY <1>1, <1>2, <1>8, <1>13, <2>2
    DEF t, Settled, InLowerHalf, InUpperHalf, Straddles, ThirdQuarter, Half, Top
<1> QED
  BY <1>12, <1>13

LEMMA HalvedBack ==
    ASSUME NEW lo \in Int, NEW hi \in Int, NEW offset \in Int, NEW w \in Int, NEW y \in Bits,
           2 * (w - offset) + y \in 2 * (lo - offset) .. 2 * (hi - offset) + 1
    PROVE  w \in lo .. hi
  BY DEF Bits

LEMMA StepBack ==
    ASSUME NEW number, NEW code \in Seq(Bits), Spells(number, code),
           NEW width \in Nat \ {0}, NEW s, NEW t \in Nodes, NEW u \in Nodes,
           TraceStep(t, u, s, code), t.first < t.next, t.next < Len(code),
           Window(u, number, width, code) \in u.low .. u.high
    PROVE  Window(t, number, width, code) \in t.low .. t.high
<1> DEFINE w == Window(t, number, width, code)
           v == Window(u, number, width, code)
           bit == BitOf(code, (t.next + width) - 1)
<1>1. /\ w \in Int /\ v \in Int /\ bit \in Bits
      /\ \/ Narrows(t, u, s) /\ v = w
         \/ EmitsLower(t, u) /\ v = 2 * (w - 0) + bit
         \/ EmitsUpper(t, u) /\ v = 2 * (w - Half) + bit
         \/ HoldsBack(t, u) /\ v = 2 * (w - Quarter) + bit
         \/ Settles(t, u) /\ v = w
  BY WindowMoves
<1>2. v \in u.low .. u.high
  OBVIOUS
<1> SUFFICES w \in t.low .. t.high
  OBVIOUS
<1> HIDE DEF w, v, bit
<1>3. t.low \in Int /\ t.high \in Int /\ u.low \in Int /\ u.high \in Int
  BY DEF Nodes
<1>4. Half \in Int /\ Quarter \in Int
  BY CoderAssumption DEF Half
<1>5. ASSUME NEW offset \in Int, v = 2 * (w - offset) + bit, Doubles(t, u, offset)
      PROVE  w \in t.low .. t.high
  <2>1. 2 * (w - offset) + bit \in 2 * (t.low - offset) .. 2 * (t.high - offset) + 1
    BY <1>2, <1>5 DEF Doubles
  <2> QED
    BY <1>1, <1>3, <2>1, HalvedBack
<1>6. CASE (Narrows(t, u, s) \/ Settles(t, u)) /\ v = w
  <2>1. t.low <= u.low /\ u.high <= t.high
    BY <1>3, <1>6 DEF Narrows, Settles
  <2>2. w \in Int /\ w \in u.low .. u.high
    BY <1>1, <1>2, <1>6
  <2> QED
    BY <1>3, <2>1, <2>2
<1>7. CASE EmitsLower(t, u) /\ v = 2 * (w - 0) + bit
  BY <1>5, <1>7 DEF EmitsLower
<1>8. CASE EmitsUpper(t, u) /\ v = 2 * (w - Half) + bit
  BY <1>4, <1>5, <1>8 DEF EmitsUpper
<1>9. CASE HoldsBack(t, u) /\ v = 2 * (w - Quarter) + bit
  BY <1>4, <1>5, <1>9 DEF HoldsBack
<1> QED
  BY <1>1, <1>6, <1>7, <1>8, <1>9

\* So every window of the trace lies in its node's interval.
LEMMA WindowsInIntervals ==
    ASSUME NEW tr, NEW n, NEW s, NEW code \in Seq(Bits), Complete(tr, n, s, code),
           NEW number, Spells(number, code), NEW width, IsWidth(width), NEW j \in 0 .. n
    PROVE  Window(tr[j], number, width, code) \in tr[j].low .. tr[j].high
<1> DEFINE P == {k \in Nat : k <= n =>
                   Window(tr[n - k], number, width, code) \in tr[n - k].low .. tr[n - k].high}
<1>1. n \in Nat /\ width \in Nat \ {0}
  BY WidthFacts DEF Complete, IsTrace
<1>2. 0 \in P
  <2>1. n - 0 = n
    BY <1>1
  <2> QED
    BY <2>1, FinalWindow
<1>3. ASSUME NEW k \in Nat, k \in P PROVE k + 1 \in P
  <2>1. SUFFICES ASSUME k + 1 <= n
                 PROVE  Window(tr[n - (k + 1)], number, width, code)
                          \in tr[n - (k + 1)].low .. tr[n - (k + 1)].high
    OBVIOUS
  <2>2. Window(tr[n - k], number, width, code) \in tr[n - k].low .. tr[n - k].high
    BY <1>1, <1>3, <2>1
  <2>3. PICK i \in 0 .. n - 1 : i = n - (k + 1) /\ i + 1 = n - k
    BY <1>1, <2>1
  <2>4. i \in 0 .. n /\ i + 1 \in 0 .. n /\ n \in 0 .. n
    BY <1>1
  <2>5. /\ tr[i] \in Nodes /\ tr[i + 1] \in Nodes /\ tr[i].first < tr[i].next
        /\ tr[i].next <= tr[n].next /\ tr[n] \in Nodes /\ tr[n].next < Len(code)
        /\ TraceStep(tr[i], tr[i + 1], s, code)
    BY <2>4 DEF Complete, IsTrace
  <2>6. tr[i].next < Len(code)
    <3>1. tr[i].next \in Nat /\ tr[n].next \in Nat /\ Len(code) \in Nat
      BY <2>5, NodeIs
    <3> QED
      BY <2>5, <3>1
  <2>7. Window(tr[i + 1], number, width, code) \in tr[i + 1].low .. tr[i + 1].high
    BY <2>2, <2>3
  <2>8. Window(tr[i], number, width, code) \in tr[i].low .. tr[i].high
    <3> HIDE DEF P
    <3> QED
      BY <1>1, <2>5, <2>6, <2>7, StepBack
  <2> QED
    BY <2>3, <2>8
<1> HIDE DEF P
<1>4. n - j \in P
  BY <1>1, <1>2, <1>3, EveryNumber
<1>5. n - (n - j) = j /\ n - j <= n
  BY <1>1
<1> QED
  BY <1>4, <1>5 DEF P
-----------------------------------------------------------------------------
(* The decoder follows the trace.                                          *)

LEMMA FinishLoads ==
    ASSUME IInv, IInv', EncodeTrace, DecodedInv, Finish PROVE LoadTrace'
<1>1. PICK tr, n : Complete(tr, n, sent', out')
  BY FinishCompletes
<1>2. out' \in Seq(Bits)
  BY EncoderTypesNext DEF IInv
<1>3. PICK number : Spells(number, out')
  BY <1>2, SpellingExists
<1>4. /\ value' = 0 /\ position' = 0 /\ decoded' = <<>> /\ unread' = Top + 1
  BY DEF Finish, decoder, IInv, LoadInv, DecodedInv
<1>5. value' = number[position']
  BY <1>3, <1>4 DEF Spells
<1>6. \E r \in Nat : Power[r] = Top + 1
  <2>1. PICK k \in Nat : Quarter = Power[k]
    BY CoderAssumption
  <2>2. Power[k + 1] = 2 * Power[k] /\ Power[(k + 1) + 1] = 2 * Power[k + 1] /\ Power[k] \in Nat
    BY Powers
  <2>3. Power[(k + 1) + 1] = Top + 1
    BY <2>1, <2>2 DEF Top
  <2>4. (k + 1) + 1 \in Nat
    OBVIOUS
  <2> QED
    BY <2>3, <2>4
<1>7. PICK r \in Nat : Power[r] = Top + 1
  BY <1>6
<1>8. Power[r] * Power[position'] = Top + 1
  <2>1. Power[position'] = 1
    BY <1>4, Powers
  <2> QED
    BY <1>7, <2>1, Registers
<1> QED
  BY <1>1, <1>3, <1>4, <1>5, <1>7, <1>8 DEF LoadTrace

LEMMA LoadTraces ==
    ASSUME IInv, LoadTrace, Load PROVE LoadTrace'
<1>1. PICK tr, n, number : Complete(tr, n, sent, out) /\ Spells(number, out) /\ value = number[position]
  BY DEF Load, LoadTrace
<1>2. PICK r \in Nat : unread = Power[r] /\ Power[r] * Power[position] = Top + 1
  BY DEF Load, LoadTrace
<1>3. out \in Seq(Bits) /\ position \in Nat
  BY DEF IInv, TypeOK
<1>4. /\ unread > 1 /\ value' = 2 * value + BitOf(out, position) /\ position' = position + 1
      /\ unread' = unread \div 2 /\ out' = out /\ sent' = sent /\ decoded' = decoded
  BY DEF Load, encoder, ReadOrZero, BitAt, BitOf
<1>5. value' = number[position']
  BY <1>1, <1>3, <1>4, Spelled
<1>6. r # 0
  BY <1>2, <1>4, Powers
<1>7. PICK q \in Nat : r = q + 1
  BY <1>6
<1>8. /\ Power[r] = 2 * Power[q] /\ Power[q] \in Nat
      /\ Power[position'] = 2 * Power[position] /\ Power[position] \in Nat
  BY <1>3, <1>4, <1>7, Powers
<1>9. unread' = Power[q]
  BY <1>2, <1>4, <1>8
<1>10. Power[q] * Power[position'] = Top + 1
  <2>1. Power[q] * (2 * Power[position]) = (2 * Power[q]) * Power[position]
    BY <1>8
  <2> QED
    BY <1>2, <1>8, <2>1
<1>11. decoded' = <<>>
  BY <1>4 DEF LoadTrace, Load
<1> QED
  BY <1>1, <1>4, <1>5, <1>9, <1>10, <1>11 DEF LoadTrace

LEMMA LoadedTraces ==
    ASSUME IInv, LoadTrace, Loaded PROVE DecodeTrace'
<1>1. PICK tr, n, number : Complete(tr, n, sent, out) /\ Spells(number, out) /\ value = number[position]
  BY DEF Loaded, LoadTrace
<1>2. PICK r \in Nat : unread = Power[r] /\ Power[r] * Power[position] = Top + 1
  BY DEF Loaded, LoadTrace
<1>3. /\ dlow = 0 /\ dhigh = Top /\ decoded = <<>> /\ unread = 1 /\ pc' = "decode"
      /\ UNCHANGED <<sent, out, dlow, dhigh, value, position, decoded>>
  BY DEF IInv, TypeOK, LoadInv, LoadTrace, Loaded, encoder, decoder
<1>4. IsWidth(position)
  <2>1. position \in Nat /\ Power[position] \in Nat
    BY Powers DEF IInv, TypeOK
  <2>2. 1 * Power[position] = Power[position]
    BY <2>1
  <2> QED
    BY <1>2, <1>3, <2>1, <2>2 DEF IsWidth
<1>5. 0 \in 0 .. n /\ tr[0] = Start
  BY <1>1 DEF Complete, IsTrace
<1>6. value = Window(Start, number, position, out)
  <2>1. Start.first = 0 /\ Start.next = 1
    BY DEF Start
  <2>2. number[1] = BitOf(out, 0) /\ BitOf(out, 0) \in Bits
    <3>1. out \in Seq(Bits) /\ 0 + 1 = 1
      BY DEF IInv, TypeOK
    <3>2. number[0 + 1] = 2 * number[0] + BitOf(out, 0) /\ BitOf(out, 0) \in Bits
      BY <1>1, <3>1, Spelled
    <3>3. number[0] = 0
      BY <1>1 DEF Spells
    <3> QED
      BY <3>1, <3>2, <3>3 DEF Bits
  <2>3. (1 + position) - 1 = position /\ value \in Nat
    BY DEF IInv, TypeOK
  <2>4. Half * BitOf(out, 0) \in Nat
    BY <2>2, Registers DEF Bits
  <2>5. Window(Start, number, position, out) = (Half * BitOf(out, 0) + value) - Half * BitOf(out, 0)
    BY <1>1, <2>1, <2>2, <2>3 DEF Window
  <2> QED
    BY <2>3, <2>4, <2>5
<1>7. DecoderAt(Start, number, position)'
  <2>1. Start.low = 0 /\ Start.high = Top /\ Start.coded = 0 /\ Start.phase = "encode" /\ Start.next = 1
    BY DEF Start
  <2>2. Len(decoded') = 0 /\ position = (1 + position) - 1
    BY <1>3 DEF IInv, TypeOK
  <2> QED
    BY <1>3, <1>6, <2>1, <2>2 DEF DecoderAt
<1>8. Following(tr, n, number, position, 0)'
  BY <1>1, <1>3, <1>4, <1>5, <1>7 DEF Following
<1> QED
  BY <1>8 DEF DecodeTrace

\* Short of its last node the trace has a next one, whose window is known.
LEMMA NodeFollowed ==
    ASSUME IInv, NEW tr, NEW n, NEW number, NEW width, NEW j,
           Following(tr, n, number, width, j),
           tr[j].phase = "emit" \/ Len(decoded) < Len(sent)
    PROVE  /\ j + 1 \in 0 .. n /\ tr[j] \in Nodes /\ tr[j + 1] \in Nodes
           /\ Window(tr[j], number, width, out) = value
           /\ LET t == tr[j]
                  u == tr[j + 1]
                  v == Window(u, number, width, out)
              IN \/ Narrows(t, u, sent) /\ v = value
                 \/ EmitsLower(t, u) /\ v = 2 * (value - 0) + ReadOrZero
                 \/ EmitsUpper(t, u) /\ v = 2 * (value - Half) + ReadOrZero
                 \/ HoldsBack(t, u) /\ v = 2 * (value - Quarter) + ReadOrZero
                 \/ Settles(t, u) /\ v = value
<1>1. /\ Complete(tr, n, sent, out) /\ Spells(number, out) /\ IsWidth(width)
      /\ j \in 0 .. n /\ DecoderAt(tr[j], number, width)
  BY DEF Following
<1>2. n \in Nat /\ width \in Nat \ {0} /\ out \in Seq(Bits)
  BY <1>1, WidthFacts DEF Complete, IsTrace, IInv, TypeOK
<1>3. tr[n].phase = "encode" /\ tr[n].coded = Len(sent) /\ tr[j].coded = Len(decoded)
  BY <1>1 DEF Complete, DecoderAt
<1>4. j # n
  <2>1. Len(decoded) \in Nat /\ Len(sent) \in Nat
    BY DEF IInv, TypeOK
  <2> QED
    BY <1>3, <2>1
<1>5. j \in 0 .. n - 1 /\ j + 1 \in 0 .. n /\ n \in 0 .. n
  BY <1>1, <1>2, <1>4
<1>6. /\ tr[j] \in Nodes /\ tr[j + 1] \in Nodes /\ tr[j].first < tr[j].next
      /\ tr[j].next <= tr[n].next /\ tr[n] \in Nodes /\ tr[n].next < Len(out)
      /\ TraceStep(tr[j], tr[j + 1], sent, out)
  BY <1>1, <1>5 DEF Complete, IsTrace
<1>7. tr[j].next < Len(out)
  <2>1. tr[j].next \in Nat /\ tr[n].next \in Nat /\ Len(out) \in Nat
    BY <1>2, <1>6 DEF Nodes
  <2> QED
    BY <1>6, <2>1
<1>8. /\ Window(tr[j], number, width, out) = value /\ BitOf(out, (tr[j].next + width) - 1) = ReadOrZero
  BY <1>1 DEF DecoderAt, ReadOrZero, BitAt, BitOf
<1>9. LET t == tr[j]
          u == tr[j + 1]
          w == Window(t, number, width, out)
          v == Window(u, number, width, out)
          bit == BitOf(out, (t.next + width) - 1)
      IN \/ Narrows(t, u, sent) /\ v = w
         \/ EmitsLower(t, u) /\ v = 2 * (w - 0) + bit
         \/ EmitsUpper(t, u) /\ v = 2 * (w - Half) + bit
         \/ HoldsBack(t, u) /\ v = 2 * (w - Quarter) + bit
         \/ Settles(t, u) /\ v = w
  BY <1>1, <1>2, <1>6, <1>7, WindowMoves
<1> QED
  BY <1>5, <1>6, <1>8, <1>9

LEMMA DecodeBitTraces ==
    ASSUME IInv, IInv', DecodeTrace, DecodedInv, DecodeBit
    PROVE  DecodeTrace' /\ DecodedInv'
<1>1. PICK tr, n, number, width, j : Following(tr, n, number, width, j)
  BY DEF DecodeBit, DecodeTrace
<1>2. /\ Complete(tr, n, sent, out) /\ Spells(number, out) /\ IsWidth(width)
      /\ j \in 0 .. n /\ DecoderAt(tr[j], number, width)
  BY <1>1 DEF Following
<1> DEFINE t == tr[j]
           u == tr[j + 1]
           k == Len(decoded) + 1
           split == Split(dlow, dhigh, sent[k].p0)
           bit == IF value <= split THEN 0 ELSE 1
<1>3. pc = "decode" /\ Len(decoded) < Len(sent) /\ UNCHANGED <<sent, out, value, position>>
  BY DEF DecodeBit, encoder
<1>4. j + 1 \in 0 .. n /\ t \in Nodes /\ u \in Nodes
  BY <1>1, <1>3, NodeFollowed
<1>5. t.low = dlow /\ t.high = dhigh /\ t.coded = Len(decoded) /\ t.phase = "encode"
      /\ position = (t.next + width) - 1
  BY <1>2, <1>3 DEF DecoderAt
<1>6. Narrows(t, u, sent) /\ Window(u, number, width, out) = value
  BY <1>1, <1>3, <1>5, NodeFollowed
  DEF EmitsLower, EmitsUpper, HoldsBack, Doubles, Settles
<1>7. Window(u, number, width, out) \in u.low .. u.high
  <2>1. PICK i \in 0 .. n : i = j + 1
    BY <1>4
  <2>2. out \in Seq(Bits)
    BY DEF IInv, TypeOK
  <2> QED
    BY <1>2, <2>1, <2>2, WindowsInIntervals
<1> HIDE DEF t, u
<1>8. u.low <= value /\ value <= u.high /\ u.low \in Int /\ u.high \in Int /\ value \in Int
  BY <1>4, <1>6, <1>7 DEF Nodes, IInv, TypeOK
<1>9. /\ u.coded = k /\ u.phase = "emit" /\ u.next = t.next
      /\ u.low = IF sent[k].bit = 0 THEN dlow ELSE split + 1
      /\ u.high = IF sent[k].bit = 0 THEN split ELSE dhigh
  BY <1>5, <1>6 DEF Narrows
<1>10. k \in 1 .. Len(sent) /\ sent[k] \in SentRecord /\ decoded \in Seq(Bits)
  <2>1. sent \in Seq(SentRecord) /\ decoded \in Seq(Bits)
    BY DEF IInv, TypeOK
  <2> QED
    BY <1>3, <2>1, ElementOfSequence
<1>11. sent[k].bit \in Bits
  BY <1>10 DEF SentRecord
<1>12. split \in Int
  <2>1. sent[k].p0 \in Probabilities
    BY <1>10 DEF SentRecord
  <2> QED
    BY <1>3, <2>1, SettledSplits DEF IInv, TypeOK, DecoderInv
<1>13. /\ pc' = "shift"
       /\ dlow' = IF bit = 0 THEN dlow ELSE split + 1
       /\ dhigh' = IF bit = 0 THEN split ELSE dhigh
       /\ decoded' = Append(decoded, bit)
  BY DEF DecodeBit, IInv, NoCoderError
<1> HIDE DEF split
<1>14. bit = sent[k].bit
  BY <1>8, <1>9, <1>11, <1>12 DEF Bits
<1> HIDE DEF bit
<1>15. dlow' = u.low /\ dhigh' = u.high /\ Len(decoded') = k /\ decoded'[k] = sent[k].bit
       /\ \A i \in 1 .. Len(decoded) : decoded'[i] = decoded[i]
  BY <1>9, <1>10, <1>13, <1>14
<1>16. DecoderAt(u, number, width)'
  BY <1>3, <1>5, <1>6, <1>9, <1>13, <1>15 DEF DecoderAt
<1>17. DecodeTrace'
  <2>1. Following(tr, n, number, width, j + 1)'
    BY <1>2, <1>3, <1>4, <1>16 DEF Following, u
  <2> QED
    BY <2>1 DEF DecodeTrace
<1>18. DecodedInv'
  <2>1. Len(decoded) \in Nat
    BY <1>10
  <2>2. ASSUME NEW i \in 1 .. Len(decoded') PROVE decoded'[i] = sent'[i].bit
    <3>1. CASE i = k
      BY <1>3, <1>15, <3>1
    <3>2. CASE i # k
      <4>1. i \in 1 .. Len(decoded)
        BY <1>15, <2>1, <3>2
      <4> QED
        BY <1>3, <1>15, <4>1 DEF DecodedInv
    <3> QED
      BY <3>1, <3>2
  <2>3. Len(decoded') <= Len(sent')
    BY <1>3, <1>10, <1>15
  <2> QED
    BY <1>13, <2>2, <2>3 DEF DecodedInv
<1> QED
  BY <1>17, <1>18

LEMMA ShiftTraces ==
    ASSUME IInv, IInv', DecodeTrace, ShiftLower \/ ShiftUpper \/ ShiftMiddle \/ ShiftSettled
    PROVE  DecodeTrace'
<1>1. PICK tr, n, number, width, j : Following(tr, n, number, width, j)
  BY DEF ShiftLower, ShiftUpper, ShiftMiddle, ShiftSettled, DecodeTrace
<1>2. /\ Complete(tr, n, sent, out) /\ Spells(number, out) /\ IsWidth(width)
      /\ j \in 0 .. n /\ DecoderAt(tr[j], number, width)
  BY <1>1 DEF Following
<1> DEFINE t == tr[j]
           u == tr[j + 1]
           v == Window(u, number, width, out)
<1>3. pc = "shift" /\ UNCHANGED <<sent, out, decoded>>
  BY DEF ShiftLower, ShiftUpper, ShiftMiddle, ShiftSettled, ShiftBy, encoder, decoder
<1>4. t.low = dlow /\ t.high = dhigh /\ t.coded = Len(decoded) /\ t.phase = "emit"
      /\ position = (t.next + width) - 1
  BY <1>2, <1>3 DEF DecoderAt
<1>5. j + 1 \in 0 .. n /\ t \in Nodes /\ u \in Nodes
      /\ \/ Narrows(t, u, sent) /\ v = value
         \/ EmitsLower(t, u) /\ v = 2 * (value - 0) + ReadOrZero
         \/ EmitsUpper(t, u) /\ v = 2 * (value - Half) + ReadOrZero
         \/ HoldsBack(t, u) /\ v = 2 * (value - Quarter) + ReadOrZero
         \/ Settles(t, u) /\ v = value
  BY <1>1, <1>4, NodeFollowed
<1> HIDE DEF t, u, v
<1>6. ~Narrows(t, u, sent)
  BY <1>4 DEF Narrows
<1>7. dlow \in Int /\ dhigh \in Int /\ Half \in Int /\ Quarter \in Int /\ Half = 2 * Quarter
      /\ position \in Nat /\ t.next \in Nat /\ width \in Nat
  <2>1. dlow \in Int /\ dhigh \in Int /\ position \in Nat
    BY Registers DEF IInv, TypeOK
  <2>2. t.next \in Nat
    BY <1>5 DEF Nodes
  <2> QED
    BY <1>2, <2>1, <2>2, CoderAssumption DEF Half, IsWidth
<1>8. ASSUME NEW offset \in Int, ShiftBy(offset), Doubles(t, u, offset),
             v = 2 * (value - offset) + ReadOrZero
      PROVE  DecoderAt(u, number, width)'
  <2>1. /\ dlow' = u.low /\ dhigh' = u.high /\ value' = v /\ decoded' = decoded
        /\ position' = position + 1 /\ pc' = "shift" /\ out' = out
    BY <1>3, <1>4, <1>8 DEF ShiftBy, Doubles, encoder
  <2>2. u.coded = Len(decoded) /\ u.phase = "emit" /\ u.next = t.next + 1
    BY <1>4, <1>8 DEF Doubles
  <2>3. position' = (u.next + width) - 1
    BY <1>4, <1>7, <2>1, <2>2
  <2> QED
    BY <2>1, <2>2, <2>3 DEF DecoderAt, v
<1>9. DecoderAt(u, number, width)'
  <2>1. CASE ShiftLower
    <3>1. EmitsLower(t, u) /\ v = 2 * (value - 0) + ReadOrZero
      BY <1>4, <1>5, <1>6, <1>7, <2>1
      DEF ShiftLower, EmitsUpper, HoldsBack, Settles, Settled, Straddles, InLowerHalf, InUpperHalf
    <3> QED
      BY <1>8, <2>1, <3>1 DEF ShiftLower, EmitsLower
  <2>2. CASE ShiftUpper
    <3>1. EmitsUpper(t, u) /\ v = 2 * (value - Half) + ReadOrZero
      BY <1>4, <1>5, <1>6, <1>7, <2>2
      DEF ShiftUpper, EmitsLower, HoldsBack, Settles, Settled, Straddles, InLowerHalf, InUpperHalf
    <3> QED
      BY <1>7, <1>8, <2>2, <3>1 DEF ShiftUpper, EmitsUpper
  <2>3. CASE ShiftMiddle
    <3>1. HoldsBack(t, u) /\ v = 2 * (value - Quarter) + ReadOrZero
      BY <1>4, <1>5, <1>6, <1>7, <2>3
      DEF ShiftMiddle, EmitsLower, EmitsUpper, Settles, Settled, Straddles, InLowerHalf, InUpperHalf
    <3> QED
      BY <1>7, <1>8, <2>3, <3>1 DEF ShiftMiddle, HoldsBack
  <2>4. CASE ShiftSettled
    <3>1. Settles(t, u) /\ v = value
      BY <1>4, <1>5, <1>6, <2>4
      DEF ShiftSettled, EmitsLower, EmitsUpper, HoldsBack, Settled
    <3>2. pc' = "decode" /\ UNCHANGED <<out, dlow, dhigh, value, position, decoded>>
      BY <2>4 DEF ShiftSettled, encoder, decoder
    <3>3. /\ u.low = dlow /\ u.high = dhigh /\ u.coded = Len(decoded) /\ u.phase = "encode"
          /\ position = (u.next + width) - 1
      BY <1>4, <3>1 DEF Settles
    <3> QED
      BY <3>1, <3>2, <3>3 DEF DecoderAt, v
  <2> QED
    BY <2>1, <2>2, <2>3, <2>4
<1>10. Following(tr, n, number, width, j + 1)'
  BY <1>2, <1>3, <1>5, <1>9 DEF Following, u
<1> QED
  BY <1>10 DEF DecodeTrace

LEMMA ExhaustedTraces ==
    ASSUME IInv, DecodeTrace, DecodedInv, Exhausted PROVE DecodeTrace' /\ DecodedInv'
<1>1. PICK tr, n, number, width, j : Following(tr, n, number, width, j)
  BY DEF Exhausted, DecodeTrace
<1>2. /\ pc = "decode" /\ pc' = "done" /\ Len(decoded) = Len(sent)
      /\ UNCHANGED <<sent, out, dlow, dhigh, value, position, decoded>>
  BY DEF Exhausted, encoder, decoder
<1>3. Following(tr, n, number, width, j)'
  BY <1>1, <1>2 DEF Following, DecoderAt
<1> QED
  BY <1>2, <1>3 DEF DecodeTrace, DecodedInv
-----------------------------------------------------------------------------
LEMMA TraceInit == Init => TraceInv
<1> SUFFICES ASSUME Init PROVE TraceInv
  OBVIOUS
<1>1. IsTrace([j \in 0 .. 0 |-> Start], 0, sent, out)
  BY Registers DEF IsTrace, Start, Nodes
<1>2. Here = Start
  BY DEF Init, Here, Start
<1>3. EncodeTrace
  <2>1. PICK tr : tr = [j \in 0 .. 0 |-> Start]
    OBVIOUS
  <2>2. tr[0] = Here
    BY <1>2, <2>1
  <2> QED
    BY <1>1, <2>1, <2>2 DEF EncodeTrace
<1> QED
  BY <1>3 DEF Init, TraceInv, LoadTrace, DecodeTrace, DecodedInv

LEMMA TracePreserved == IInv /\ IInv' /\ TraceInv /\ [Next]_vars => TraceInv'
<1> SUFFICES ASSUME IInv, IInv', TraceInv, [Next]_vars PROVE TraceInv'
  OBVIOUS
<1>1. EncodeTrace /\ LoadTrace /\ DecodeTrace /\ DecodedInv
  BY DEF TraceInv
<1>2. ASSUME NEW bit \in Bits, NEW p0 \in Probabilities, EncodeBit(bit, p0) PROVE TraceInv'
  <2>1. EncodeTrace'
    BY <1>1, <1>2, EncodeBitTraces
  <2>2. /\ pc = "encode" /\ pc' = "emit" /\ decoded' = decoded /\ position' = position
    BY <1>2 DEF EncodeBit, decoder, IInv, NoCoderError
  <2>3. decoded = <<>> /\ position = 0
    BY <1>1, <2>2 DEF DecodedInv
  <2>4. Len(sent') \in Nat
    BY DEF IInv, TypeOK
  <2> QED
    BY <2>1, <2>2, <2>3, <2>4 DEF TraceInv, LoadTrace, DecodeTrace, DecodedInv
<1>3. CASE EmitLower \/ EmitUpper \/ HoldBack \/ EmitSettled
  <2>1. EncodeTrace'
    BY <1>1, <1>3, EmitTraces, StayTraces
  <2>2. /\ pc = "emit" /\ pc' \in {"encode", "emit"} /\ UNCHANGED <<sent, decoded, position>>
    BY <1>3 DEF EmitLower, EmitUpper, HoldBack, EmitSettled, encoder, decoder
  <2> QED
    BY <1>1, <2>1, <2>2 DEF TraceInv, LoadTrace, DecodeTrace, DecodedInv
<1>4. CASE Finish
  <2>1. LoadTrace'
    BY <1>1, <1>4, FinishLoads
  <2>2. pc = "encode" /\ pc' = "load" /\ UNCHANGED <<sent, decoded>>
    BY <1>4 DEF Finish, decoder
  <2> QED
    BY <1>1, <2>1, <2>2 DEF TraceInv, EncodeTrace, DecodeTrace, DecodedInv
<1>5. CASE Load
  <2>1. LoadTrace'
    BY <1>1, <1>5, LoadTraces
  <2>2. pc = "load" /\ pc' = "load" /\ UNCHANGED <<sent, decoded>>
    BY <1>5 DEF Load, encoder
  <2> QED
    BY <1>1, <2>1, <2>2 DEF TraceInv, EncodeTrace, DecodeTrace, DecodedInv
<1>6. CASE Loaded
  <2>1. DecodeTrace'
    BY <1>1, <1>6, LoadedTraces
  <2>2. pc = "load" /\ pc' = "decode" /\ UNCHANGED <<sent, decoded>>
    BY <1>6 DEF Loaded, encoder, decoder
  <2> QED
    BY <1>1, <2>1, <2>2 DEF TraceInv, EncodeTrace, LoadTrace, DecodedInv
<1>7. CASE DecodeBit
  <2>1. DecodeTrace' /\ DecodedInv'
    BY <1>1, <1>7, DecodeBitTraces
  <2>2. pc' \in {"shift", "error"}
    BY <1>7 DEF DecodeBit
  <2> QED
    BY <2>1, <2>2 DEF TraceInv, EncodeTrace, LoadTrace
<1>8. CASE ShiftLower \/ ShiftUpper \/ ShiftMiddle \/ ShiftSettled
  <2>1. DecodeTrace'
    BY <1>1, <1>8, ShiftTraces
  <2>2. pc = "shift" /\ pc' \in {"shift", "decode"} /\ UNCHANGED <<sent, decoded>>
    BY <1>8 DEF ShiftLower, ShiftUpper, ShiftMiddle, ShiftSettled, ShiftBy, encoder, decoder
  <2> QED
    BY <1>1, <2>1, <2>2 DEF TraceInv, EncodeTrace, LoadTrace, DecodedInv
<1>9. CASE Exhausted
  <2>1. DecodeTrace' /\ DecodedInv' /\ pc' = "done"
    BY <1>1, <1>9, ExhaustedTraces DEF Exhausted
  <2> QED
    BY <2>1 DEF TraceInv, EncodeTrace, LoadTrace
<1>10. CASE UNCHANGED vars
  BY <1>1, <1>10
  DEF vars, TraceInv, EncodeTrace, LoadTrace, DecodeTrace, DecodedInv, Here, Following, DecoderAt
<1> QED
  BY <1>2, <1>3, <1>4, <1>5, <1>6, <1>7, <1>8, <1>9, <1>10 DEF Next, Encode, Decode
-----------------------------------------------------------------------------
LEMMA FullInit == Init => IInv /\ TraceInv
  BY InitEstablishes, TraceInit

LEMMA FullPreserved == IInv /\ TraceInv /\ [Next]_vars => IInv' /\ TraceInv'
  BY NextPreserves, TracePreserved

\* decode_bit narrows the interval that encode_bit narrowed for the same
\* bit: the two sides of omega_path123.rs never renormalise out of step.
THEOREM DecoderMirrors == Spec => []DecoderMirrorsEncoder
<1>1. IInv /\ TraceInv => DecoderMirrorsEncoder
  <2> SUFFICES ASSUME IInv, TraceInv, pc = "decode", Len(decoded) < Len(sent)
               PROVE  /\ dlow = sent[Len(decoded) + 1].low
                      /\ dhigh = sent[Len(decoded) + 1].high
    BY DEF DecoderMirrorsEncoder
  <2>1. PICK tr, n, number, width, j : Following(tr, n, number, width, j)
    BY DEF TraceInv, DecodeTrace
  <2>2. DecoderAt(tr[j], number, width)
    BY <2>1 DEF Following
  <2>3. tr[j].low = dlow /\ tr[j].high = dhigh /\ tr[j].coded = Len(decoded) /\ tr[j].phase = "encode"
    BY <2>2 DEF DecoderAt
  <2>4. Narrows(tr[j], tr[j + 1], sent)
    BY <2>1, <2>3, NodeFollowed DEF EmitsLower, EmitsUpper, HoldsBack, Doubles, Settles
  <2> QED
    BY <2>3, <2>4 DEF Narrows
<1> QED
  BY <1>1, FullInit, FullPreserved, PTL DEF Spec

\* What has been decoded is always the front of what was encoded, and all of
\* it once the decoder stops.
RoundTrip ==
    /\ Len(decoded) <= Len(sent)
    /\ \A i \in 1 .. Len(decoded) : decoded[i] = sent[i].bit
    /\ pc = "done" => decoded = SentBits

\* The arithmetic coder gives back the bits it was given.
THEOREM CoderRoundTrips == Spec => []RoundTrip
<1>1. IInv /\ TraceInv => RoundTrip
  <2> SUFFICES ASSUME IInv, TraceInv PROVE RoundTrip
    OBVIOUS
  <2>1. DecodedInv
    BY DEF TraceInv
  <2>2. decoded \in Seq(Bits) /\ sent \in Seq(SentRecord)
    BY DEF IInv, TypeOK
  <2>3. ASSUME pc = "done" PROVE decoded = SentBits
    <3>1. Len(decoded) = Len(sent)
      BY <2>1, <2>3 DEF DecodedInv
    <3>2. decoded = [i \in 1 .. Len(decoded) |-> decoded[i]]
      BY <2>2
    <3>3. \A i \in 1 .. Len(sent) : decoded[i] = sent[i].bit
      BY <2>1, <3>1 DEF DecodedInv
    <3> QED
      BY <3>1, <3>2, <3>3 DEF SentBits
  <2> QED
    BY <2>1, <2>3 DEF RoundTrip, DecodedInv
<1> QED
  BY <1>1, FullInit, FullPreserved, PTL DEF Spec

LEMMA DecodesOrFails ==
    ASSUME IInv, IInv', DecodeBit
    PROVE  pc' = "shift" /\ (decoded' = Append(decoded, 0) \/ decoded' = Append(decoded, 1))
  BY DEF DecodeBit, IInv, NoCoderError

LEMMA ReplayInit == Init => Replay!Init
<1> SUFFICES ASSUME Init PROVE Replay!Init
  OBVIOUS
<1>1. SentBits = <<>>
  BY DEF Init, SentBits
<1> QED
  BY <1>1 DEF Init, Replay!Init

LEMMA ReplayStep == IInv /\ IInv' /\ TraceInv /\ TraceInv' /\ [Next]_vars => [Replay!Next]_(Replay!vars)
<1> SUFFICES ASSUME IInv, IInv', TraceInv, TraceInv', [Next]_vars
             PROVE  Replay!Next \/ UNCHANGED Replay!vars
  OBVIOUS
<1>1. sent \in Seq(SentRecord) /\ decoded \in Seq(Bits) /\ Len(sent) \in Nat /\ Len(decoded) \in Nat
  <2>1. TypeOK
    BY DEF IInv
  <2>2. sent \in Seq(SentRecord) /\ decoded \in Seq(Bits)
    BY <2>1 DEF TypeOK
  <2> QED
    BY <2>2
<1>2. SentBits \in Seq(Bits) /\ Len(SentBits) = Len(sent)
  <2>1. ASSUME NEW i \in 1 .. Len(sent) PROVE sent[i].bit \in Bits
    <3>1. sent[i] \in SentRecord
      BY <1>1, ElementOfSequence
    <3> QED
      BY <3>1 DEF SentRecord
  <2> QED
    BY <1>1, <2>1 DEF SentBits
<1>3. ASSUME UNCHANGED <<sent, decoded>>, (pc \in {"load", "decode", "shift", "done"})' = (pc \in {"load", "decode", "shift", "done"})
      PROVE  UNCHANGED Replay!vars
  BY <1>3 DEF Replay!vars, SentBits
<1>4. ASSUME NEW bit \in Bits, NEW p0 \in Probabilities, EncodeBit(bit, p0) PROVE Replay!Next
  <2> DEFINE r == [bit |-> bit, p0 |-> p0, low |-> low, high |-> high]
  <2>1. sent' = Append(sent, r) /\ pc = "encode" /\ pc' \in {"emit", "error"} /\ decoded' = decoded
    BY <1>4 DEF EncodeBit, decoder
  <2>2. r \in SentRecord
    BY DEF SentRecord, IInv, TypeOK
  <2>3. SentBits' = Append(SentBits, bit)
    <3>1. Len(sent') = Len(sent) + 1 /\ sent'[Len(sent) + 1] = r
          /\ \A i \in 1 .. Len(sent) : sent'[i] = sent[i]
      BY <1>1, <2>1, <2>2
    <3>2. r.bit = bit
      OBVIOUS
    <3> HIDE DEF r
    <3>3. PICK q \in Seq(Bits) : q = SentBits
      BY <1>2
    <3>4. PICK a \in Seq(Bits) : a = Append(q, bit)
      <4>1. Append(q, bit) \in Seq(Bits)
        OBVIOUS
      <4> QED
        BY <4>1
    <3>5. Len(a) = Len(sent) + 1 /\ \A i \in 1 .. Len(sent) : a[i] = sent[i].bit
      <4>1. Len(q) = Len(sent) /\ \A i \in 1 .. Len(sent) : q[i] = sent[i].bit
        BY <1>2, <3>3 DEF SentBits
      <4> QED
        BY <1>1, <3>4, <4>1
    <3>6. a[Len(sent) + 1] = bit
      BY <1>2, <3>3, <3>4
    <3>7. \A i \in 1 .. Len(sent) + 1 : a[i] = sent'[i].bit
      <4>1. ASSUME NEW i \in 1 .. Len(sent) + 1 PROVE a[i] = sent'[i].bit
        <5>1. CASE i \in 1 .. Len(sent)
          BY <3>1, <3>5, <5>1
        <5>2. CASE i = Len(sent) + 1
          BY <3>1, <3>2, <3>6, <5>2
        <5> QED
          BY <1>1, <5>1, <5>2
      <4> QED
        BY <4>1
    <3>8. a = [i \in 1 .. Len(a) |-> a[i]]
      OBVIOUS
    <3> QED
      BY <3>1, <3>3, <3>4, <3>5, <3>7, <3>8 DEF SentBits
  <2>4. SentBits' \in Seq(Bits) /\ Len(SentBits') > Len(SentBits)
        /\ SubSeq(SentBits', 1, Len(SentBits)) = SentBits
    <3>1. PICK q \in Seq(Bits) : q = SentBits
      BY <1>2
    <3>2. Append(q, bit) \in Seq(Bits) /\ Len(Append(q, bit)) > Len(q)
          /\ SubSeq(Append(q, bit), 1, Len(q)) = q
      OBVIOUS
    <3> QED
      BY <2>3, <3>1, <3>2
  <2>5. Replay!Accept
    BY <2>1, <2>4 DEF Replay!Accept
  <2> QED
    BY <2>5 DEF Replay!Next
<1>5. CASE EmitLower \/ EmitUpper \/ HoldBack \/ EmitSettled
  BY <1>3, <1>5 DEF EmitLower, EmitUpper, HoldBack, EmitSettled, encoder, decoder
<1>6. CASE Finish
  <2>1. /\ ~(pc \in {"load", "decode", "shift", "done"})
        /\ (pc \in {"load", "decode", "shift", "done"})' = TRUE
        /\ SentBits' = SentBits /\ decoded' = decoded
    BY <1>6 DEF Finish, decoder, SentBits
  <2> QED
    BY <2>1 DEF Replay!Seal, Replay!Next
<1>7. CASE Load \/ Loaded \/ ShiftLower \/ ShiftUpper \/ ShiftMiddle \/ ShiftSettled \/ Exhausted
  BY <1>3, <1>7
  DEF Load, Loaded, ShiftLower, ShiftUpper, ShiftMiddle, ShiftBy, ShiftSettled, Exhausted,
      encoder, decoder
<1>8. CASE DecodeBit
  <2>1. pc = "decode" /\ Len(decoded) < Len(sent) /\ UNCHANGED sent /\ pc' \in {"shift", "error"}
    BY <1>8 DEF DecodeBit, encoder
  <2>2. pc' = "shift" /\ \E b \in Bits : decoded' = Append(decoded, b)
    BY <1>8, DecodesOrFails DEF Bits
  <2>3. PICK b \in Bits : decoded' = Append(decoded, b)
    BY <2>2
  <2>4. Len(decoded') = Len(decoded) + 1 /\ decoded' \in Seq(Bits)
    BY <1>1, <2>3
  <2>5. \A i \in 1 .. Len(decoded') : decoded'[i] = SentBits[i]
    BY <1>1, <2>1, <2>4 DEF TraceInv, DecodedInv, SentBits
  <2>6. decoded' = SubSeq(SentBits, 1, Len(decoded) + 1)
    <3>1. PICK q \in Seq(Bits) : q = SentBits
      BY <1>2
    <3>2. PICK d \in Seq(Bits) : d = decoded'
      BY <2>4
    <3>3. Len(d) \in 0 .. Len(q) /\ \A i \in 1 .. Len(d) : d[i] = q[i]
      BY <1>1, <1>2, <2>1, <2>4, <2>5, <3>1, <3>2
    <3>4. d = SubSeq(q, 1, Len(d))
      BY <3>3
    <3> QED
      BY <2>4, <3>1, <3>2, <3>4
  <2>7. Len(decoded) + 1 \in Len(decoded) + 1 .. Len(SentBits)
    BY <1>1, <1>2, <2>1
  <2>8. SentBits' = SentBits
    BY <2>1 DEF SentBits
  <2>9. Replay!Replay
    BY <2>1, <2>2, <2>6, <2>7, <2>8 DEF Replay!Replay
  <2> QED
    BY <2>9 DEF Replay!Next
<1>9. CASE UNCHANGED vars
  BY <1>3, <1>9 DEF vars
<1> QED
  BY <1>4, <1>5, <1>6, <1>7, <1>8, <1>9 DEF Next, Encode, Decode

\* The arithmetic coder implements the safety part of the exact-replay
\* channel: it hands back nothing but the sealed source, front to back.
THEOREM CoderReplays == Spec => Replay!Spec
<1>1. IInv /\ TraceInv /\ [Next]_vars => [Replay!Next]_(Replay!vars)
  BY FullPreserved, ReplayStep
<1> QED
  BY <1>1, FullInit, FullPreserved, ReplayInit, PTL DEF Spec, Replay!Spec
=============================================================================
