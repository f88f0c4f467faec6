------------------------ MODULE StreamAndStoreProofs ------------------------
(***************************************************************************)
(* The relic tool's mask stream, and the files the tools leave on disk.    *)
(*                                                                         *)
(* The chunked mask stream, for every mask, block length and chunking: the *)
(* chunks do not show in the output, and the second pass restores it.      *)
(* Then the invariants of ArchiveStore, for any list of outputs and any    *)
(* number of commands and interruptions.                                   *)
(***************************************************************************)
EXTENDS RelicStream, ArchiveStore, TLAPS

\* How many bytes of its input the running generator has transformed.
Position == Consumed + (IF chunk = <<>> THEN 0 ELSE cursor)

\* The chunk at hand is the next part of the input.
InputInv ==
    /\ pass = "route" =>
          /\ Len(source) = Len(routed) + Len(chunk)
          /\ \A i \in 1 .. Len(chunk) : chunk[i] = source[Len(routed) + i]
          /\ restored = <<>>
    /\ pass # "route" =>
          /\ Len(source) = Len(routed)
          /\ Len(restored) + Len(chunk) <= Len(routed)
          /\ \A i \in 1 .. Len(chunk) : chunk[i] = routed[Len(restored) + i]
    /\ pass = "done" => chunk = <<>>

\* What is transformed of the chunk went under the mask of its place in the
\* whole stream.
OutputInv ==
    chunk # <<>> =>
        /\ Len(output) = cursor
        /\ \A i \in 1 .. cursor :
              output[i] = Xor(chunk[i], MaskedAt(Consumed + i))

\* The mask block and offset at hand are those of the position.
MaskInv ==
    /\ mask = -1 => blockIndex = 0 /\ maskOffset = 0 /\ Position = 0
    /\ mask # -1 =>
          /\ blockIndex = mask + 1
          /\ Position = mask * MaskBytes + maskOffset
          /\ maskOffset = 0 => chunk # <<>> /\ cursor < Len(chunk)

RestoredInv ==
    \A i \in 1 .. Len(restored) : restored[i] = Xor(routed[i], MaskedAt(i))

IInv ==
    /\ TypeOK
    /\ InputInv
    /\ OutputInv
    /\ MaskInv
    /\ ChunksDoNotMatter
    /\ RestoredInv
-----------------------------------------------------------------------------
LEMMA Constants == MaskBytes \in Nat \ {0} /\ Chunks \subseteq Seq(Bits)
  BY StreamAssumption

LEMMA DivMod ==
    ASSUME NEW b \in Nat, NEW o \in 0 .. MaskBytes - 1
    PROVE  /\ (b * MaskBytes + o) \div MaskBytes = b
           /\ (b * MaskBytes + o) % MaskBytes = o
<1>1. MaskBytes \in Nat \ {0}
  BY Constants
<1> QED
  BY <1>1, SMT

LEMMA CeilDiv ==
    ASSUME NEW b \in Nat, NEW o \in 1 .. MaskBytes
    PROVE  (b * MaskBytes + o + (MaskBytes - 1)) \div MaskBytes = b + 1
<1>1. MaskBytes \in Nat \ {0}
  BY Constants
<1>2. (b + 1) * MaskBytes = b * MaskBytes + MaskBytes
  BY <1>1, SMT
<1>3. ((b + 1) * MaskBytes + (o - 1)) \div MaskBytes = b + 1
  BY <1>1, DivMod
<1> QED
  BY <1>1, <1>2, <1>3, SMT

LEMMA ConcatFacts ==
    ASSUME NEW s \in Seq(Bits), NEW t \in Seq(Bits)
    PROVE  /\ s \o t \in Seq(Bits)
           /\ Len(s \o t) = Len(s) + Len(t)
           /\ \A i \in 1 .. Len(s) : (s \o t)[i] = s[i]
           /\ \A i \in 1 .. Len(t) : (s \o t)[Len(s) + i] = t[i]
  OBVIOUS

LEMMA PartFacts ==
    ASSUME NEW s \in Seq(Bits), NEW m \in Nat, NEW n \in Nat,
           m + n <= Len(s)
    PROVE  /\ SubSeq(s, m + 1, m + n) \in Seq(Bits)
           /\ Len(SubSeq(s, m + 1, m + n)) = n
           /\ \A i \in 1 .. n : SubSeq(s, m + 1, m + n)[i] = s[m + i]
  OBVIOUS

\* Masking keeps a bit a bit, and masking twice with the same bit undoes it.
LEMMA XorFacts ==
    ASSUME NEW bit \in Bits, NEW i
    PROVE  /\ Xor(bit, MaskedAt(i)) \in Bits
           /\ Xor(Xor(bit, MaskedAt(i)), MaskedAt(i)) = bit
  BY DEF Xor, Bits
-----------------------------------------------------------------------------
LEMMA InitIInv == Init => IInv
<1> SUFFICES ASSUME Init PROVE IInv
  OBVIOUS
<1>1. TypeOK
  BY Constants DEF Init, TypeOK
<1>2. InputInv /\ OutputInv /\ MaskInv /\ ChunksDoNotMatter /\ RestoredInv
  BY DEF Init, InputInv, OutputInv, MaskInv, ChunksDoNotMatter, RestoredInv,
     Position, Consumed
<1> QED
  BY <1>1, <1>2 DEF IInv

\* A chunk of the source arrives.
LEMMA ReceiveSourceKeeps ==
    ASSUME IInv, NEW c \in Chunks, ReceiveSource(c)
    PROVE  IInv'
<1>1. /\ TypeOK /\ InputInv /\ OutputInv /\ MaskInv
      /\ ChunksDoNotMatter /\ RestoredInv
  BY DEF IInv
<1>2. /\ chunk = <<>> /\ pass = "route" /\ pass' = pass
      /\ chunk' = c /\ cursor' = 0 /\ output' = <<>>
      /\ blockIndex' = blockIndex /\ mask' = mask /\ maskOffset' = maskOffset
      /\ routed' = routed /\ restored' = restored /\ source' = source \o c
  BY DEF ReceiveSource, Receive
<1>3. c \in Seq(Bits) /\ source \in Seq(Bits) /\ routed \in Seq(Bits)
  BY <1>1, Constants DEF TypeOK
<1>4. /\ source' \in Seq(Bits) /\ Len(source') = Len(source) + Len(c)
      /\ \A i \in 1 .. Len(source) : source'[i] = source[i]
      /\ \A i \in 1 .. Len(c) : source'[Len(source) + i] = c[i]
  BY <1>2, <1>3, ConcatFacts
<1>5. Len(source) = Len(routed)
  BY <1>1, <1>2 DEF InputInv
<1>6. TypeOK'
  BY <1>1, <1>2, <1>3, <1>4 DEF TypeOK
<1>7. InputInv'
  BY <1>1, <1>2, <1>4, <1>5 DEF InputInv
<1>8. OutputInv' /\ RestoredInv'
  BY <1>1, <1>2 DEF OutputInv, RestoredInv
<1>9. MaskInv'
  BY <1>1, <1>2, <1>3 DEF MaskInv, Position, Consumed, TypeOK
<1>10. ChunksDoNotMatter'
  BY <1>1, <1>2, <1>3, <1>4, <1>5 DEF ChunksDoNotMatter
<1> QED
  BY <1>6, <1>7, <1>8, <1>9, <1>10 DEF IInv

\* A chunk of the routed stream arrives.
LEMMA ReceiveRoutedKeeps ==
    ASSUME IInv, NEW n \in 1 .. Len(routed) - Len(restored), ReceiveRouted(n)
    PROVE  IInv'
<1>1. /\ TypeOK /\ InputInv /\ OutputInv /\ MaskInv
      /\ ChunksDoNotMatter /\ RestoredInv
  BY DEF IInv
<1> DEFINE c == SubSeq(routed, Len(restored) + 1, Len(restored) + n)
<1>2. /\ chunk = <<>> /\ pass = "restore" /\ pass' = pass
      /\ chunk' = c /\ cursor' = 0 /\ output' = <<>>
      /\ blockIndex' = blockIndex /\ mask' = mask /\ maskOffset' = maskOffset
      /\ routed' = routed /\ restored' = restored /\ source' = source
  BY DEF ReceiveRouted, Receive
<1>3. routed \in Seq(Bits) /\ Len(restored) \in Nat /\ n \in Nat
  BY <1>1 DEF TypeOK
<1>4. Len(restored) + n <= Len(routed)
  BY <1>3
<1>5. /\ c \in Seq(Bits) /\ Len(c) = n
      /\ \A i \in 1 .. n : c[i] = routed[Len(restored) + i]
  BY <1>3, <1>4, PartFacts
<1> HIDE DEF c
<1>6. TypeOK'
  BY <1>1, <1>2, <1>5 DEF TypeOK
<1>7. InputInv'
  BY <1>1, <1>2, <1>4, <1>5 DEF InputInv
<1>8. OutputInv' /\ RestoredInv' /\ ChunksDoNotMatter'
  BY <1>1, <1>2 DEF OutputInv, RestoredInv, ChunksDoNotMatter
<1>9. MaskInv'
  BY <1>1, <1>2, <1>3, <1>5 DEF MaskInv, Position, Consumed, TypeOK
<1> QED
  BY <1>6, <1>7, <1>8, <1>9 DEF IInv

\* A mask block is made.
LEMMA RefillKeeps == ASSUME IInv, Refill PROVE IInv'
<1>1. /\ TypeOK /\ InputInv /\ OutputInv /\ MaskInv
      /\ ChunksDoNotMatter /\ RestoredInv
  BY DEF IInv
<1>2. /\ cursor < Len(chunk) /\ maskOffset >= MaskLength
      /\ mask' = blockIndex /\ blockIndex' = blockIndex + 1 /\ maskOffset' = 0
      /\ pass' = pass /\ chunk' = chunk /\ cursor' = cursor /\ output' = output
      /\ source' = source /\ routed' = routed /\ restored' = restored
  BY DEF Refill
<1>3. TypeOK'
  BY <1>1, <1>2, Constants DEF TypeOK
<1>4. InputInv' /\ OutputInv' /\ RestoredInv' /\ ChunksDoNotMatter'
  BY <1>1, <1>2 DEF InputInv, OutputInv, RestoredInv, ChunksDoNotMatter,
     Consumed
<1>5. chunk # <<>> /\ Position' = Position
  BY <1>1, <1>2 DEF TypeOK, Position, Consumed
<1>6. Position = blockIndex * MaskBytes
  <2>1. CASE mask = -1
    BY <1>1, <2>1, Constants DEF MaskInv
  <2>2. CASE mask # -1
    <3>1. maskOffset = MaskBytes /\ mask \in Nat
      BY <1>1, <1>2, <2>2, Constants DEF TypeOK, MaskLength
    <3>2. Position = mask * MaskBytes + MaskBytes /\ blockIndex = mask + 1
      BY <1>1, <2>2, <3>1 DEF MaskInv
    <3> QED
      BY <3>1, <3>2, Constants, SMT
  <2> QED
    BY <2>1, <2>2
<1>7. MaskInv'
  BY <1>1, <1>2, <1>5, <1>6, <1>3, Constants DEF MaskInv, TypeOK
<1> QED
  BY <1>3, <1>4, <1>7 DEF IInv

\* The bytes of one turn lie in the mask block at hand.
LEMMA MaskedHere ==
    ASSUME TypeOK, MaskInv, chunk # <<>>, maskOffset < MaskLength,
           NEW i \in 1 .. Take
    PROVE  MaskedAt(Consumed + cursor + i) = MaskBit(mask, maskOffset + i - 1)
<1>1. mask \in Nat /\ mask # -1 /\ MaskLength = MaskBytes
  BY Constants DEF TypeOK, MaskLength
<1>2. i \in Nat \ {0} /\ maskOffset + i - 1 \in 0 .. MaskBytes - 1
  BY <1>1, Constants DEF TypeOK, Take
<1>3. Consumed + cursor = mask * MaskBytes + maskOffset
  BY <1>1 DEF MaskInv, Position
<1>4. (Consumed + cursor + i) - 1 = mask * MaskBytes + (maskOffset + i - 1)
  <2>1. mask * MaskBytes \in Nat
    BY <1>1, Constants
  <2>2. Consumed + cursor \in Nat
    BY DEF TypeOK, Consumed
  <2> HIDE DEF Consumed
  <2>3. maskOffset \in Nat
    BY DEF TypeOK
  <2> DEFINE p == Consumed + cursor
             m == mask * MaskBytes
  <2>4. p = m + maskOffset /\ p \in Nat /\ m \in Nat
    BY <1>3, <2>1, <2>2
  <2> HIDE DEF p, m
  <2>5. (p + i) - 1 = m + (maskOffset + i - 1)
    BY <1>2, <2>3, <2>4
  <2> QED
    BY <2>5 DEF p, m
<1> DEFINE x == Consumed + cursor + i
           o == maskOffset + i - 1
<1>5. /\ (mask * MaskBytes + o) \div MaskBytes = mask
      /\ (mask * MaskBytes + o) % MaskBytes = o
  BY <1>1, <1>2, DivMod
<1>6. x - 1 = mask * MaskBytes + o
  BY <1>4
<1> HIDE DEF x, o
<1>7. MaskedAt(x) = MaskBit(mask, o)
  BY <1>5, <1>6 DEF MaskedAt
<1> QED
  BY <1>7 DEF x, o

\* One turn of the copying loop.
LEMMA TransformKeeps == ASSUME IInv, Transform PROVE IInv'
<1>1. /\ TypeOK /\ InputInv /\ OutputInv /\ MaskInv
      /\ ChunksDoNotMatter /\ RestoredInv
  BY DEF IInv
<1> DEFINE part == [i \in 1 .. Take |->
                      Xor(chunk[cursor + i], MaskBit(mask, maskOffset + i - 1))]
<1>2. /\ cursor < Len(chunk) /\ maskOffset < MaskLength
      /\ output' = output \o part
      /\ cursor' = cursor + Take /\ maskOffset' = maskOffset + Take
      /\ pass' = pass /\ chunk' = chunk /\ blockIndex' = blockIndex
      /\ mask' = mask
      /\ source' = source /\ routed' = routed /\ restored' = restored
  BY DEF Transform
<1>3. /\ chunk # <<>> /\ chunk \in Seq(Bits) /\ output \in Seq(Bits)
      /\ cursor \in Nat
  BY <1>1, <1>2 DEF TypeOK
<1>4. /\ Take \in Nat \ {0} /\ cursor + Take <= Len(chunk)
      /\ maskOffset + Take <= MaskBytes
  BY <1>1, <1>2, <1>3, Constants DEF TypeOK, Take, MaskLength
<1>5. ASSUME NEW i \in 1 .. Take
      PROVE  /\ part[i] = Xor(chunk[cursor + i], MaskedAt(Consumed + cursor + i))
             /\ part[i] \in Bits
  <2>1. chunk[cursor + i] \in Bits
    BY <1>3, <1>4
  <2>2. part[i] = Xor(chunk[cursor + i], MaskedAt(Consumed + cursor + i))
    BY <1>1, <1>2, <1>3, MaskedHere
  <2> QED
    BY <2>1, <2>2, XorFacts
<1>6. part \in Seq(Bits) /\ Len(part) = Take
  <2>1. part \in [1 .. Take -> Bits]
    BY <1>5
  <2> QED
    BY <1>4, <2>1
<1> HIDE DEF part
<1>7. /\ output' \in Seq(Bits) /\ Len(output') = Len(output) + Take
      /\ \A i \in 1 .. Len(output) : output'[i] = output[i]
      /\ \A i \in 1 .. Take : output'[Len(output) + i] = part[i]
  BY <1>2, <1>3, <1>6, ConcatFacts
<1>8. TypeOK'
  BY <1>1, <1>2, <1>3, <1>4, <1>7, Constants DEF TypeOK
<1>9. InputInv' /\ RestoredInv' /\ ChunksDoNotMatter'
  BY <1>1, <1>2 DEF InputInv, RestoredInv, ChunksDoNotMatter
<1>10. Consumed' = Consumed
  BY <1>2 DEF Consumed
<1>11. OutputInv'
  <2>1. Len(output) = cursor
    BY <1>1, <1>3 DEF OutputInv
  <2>2. ASSUME NEW i \in 1 .. cursor + Take
        PROVE  output'[i] = Xor(chunk[i], MaskedAt(Consumed + i))
    <3>1. CASE i <= cursor
      BY <1>1, <1>3, <1>4, <1>7, <2>1, <3>1 DEF OutputInv
    <3>2. CASE i > cursor
      <4>1. i - cursor \in 1 .. Take /\ cursor + (i - cursor) = i
        BY <1>3, <1>4, <3>2
      <4>2. output'[i] = part[i - cursor]
        BY <1>7, <2>1, <4>1
      <4>3. Consumed + cursor + (i - cursor) = Consumed + i
        BY <1>1, <1>3, <4>1 DEF Consumed, TypeOK
      <4> QED
        BY <1>5, <4>1, <4>2, <4>3
    <3> QED
      BY <1>3, <1>4, <3>1, <3>2
  <2> QED
    BY <1>2, <1>7, <1>10, <2>1, <2>2 DEF OutputInv
<1>12. MaskInv'
  <2>1. mask # -1 /\ mask \in Nat
    BY <1>1, <1>2 DEF MaskLength, TypeOK
  <2>2. mask * MaskBytes \in Nat
    BY <2>1, Constants
  <2>3. Position' = Position + Take
    <3>1. Consumed \in Nat
      BY <1>1 DEF Consumed, TypeOK
    <3>2. Position = Consumed + cursor /\ Position' = Consumed + cursor'
      BY <1>2, <1>3, <1>10 DEF Position
    <3> QED
      BY <1>2, <1>3, <1>4, <3>1, <3>2
  <2> QED
    BY <1>1, <1>2, <1>4, <2>1, <2>2, <2>3, SMTT(30) DEF MaskInv, TypeOK
<1> QED
  BY <1>8, <1>9, <1>11, <1>12 DEF IInv

\* A transformed chunk is handed out.
LEMMA YieldKeeps == ASSUME IInv, Yield PROVE IInv'
<1>1. /\ TypeOK /\ InputInv /\ OutputInv /\ MaskInv
      /\ ChunksDoNotMatter /\ RestoredInv
  BY DEF IInv
<1>2. /\ chunk # <<>> /\ cursor = Len(chunk) /\ chunk' = <<>>
      /\ pass' = pass /\ cursor' = cursor /\ output' = output
      /\ blockIndex' = blockIndex /\ mask' = mask /\ maskOffset' = maskOffset
      /\ source' = source
  BY DEF Yield
<1>3. /\ source \in Seq(Bits) /\ routed \in Seq(Bits) /\ restored \in Seq(Bits)
      /\ chunk \in Seq(Bits) /\ output \in Seq(Bits) /\ Len(output) = Len(chunk)
      /\ cursor \in Nat
  BY <1>1, <1>2 DEF TypeOK, OutputInv
<1>4. CASE pass = "route"
  <2>1. routed' = routed \o output /\ restored' = restored
    BY <1>4 DEF Yield
  <2>2. /\ routed' \in Seq(Bits) /\ Len(routed') = Len(routed) + Len(chunk)
        /\ \A i \in 1 .. Len(routed) : routed'[i] = routed[i]
        /\ \A i \in 1 .. Len(chunk) : routed'[Len(routed) + i] = output[i]
    <3>1. /\ routed \o output \in Seq(Bits)
          /\ Len(routed \o output) = Len(routed) + Len(output)
          /\ \A i \in 1 .. Len(routed) : (routed \o output)[i] = routed[i]
          /\ \A i \in 1 .. Len(output) :
                (routed \o output)[Len(routed) + i] = output[i]
      BY <1>3, ConcatFacts
    <3> QED
      BY <1>3, <2>1, <3>1
  <2>3. Consumed = Len(routed) /\ Consumed' = Len(routed') /\ Position' = Position
    BY <1>2, <1>3, <1>4, <2>2 DEF Consumed, Position
  <2>4. TypeOK'
    BY <1>1, <1>2, <2>1, <2>2 DEF TypeOK
  <2>5. InputInv' /\ OutputInv'
    BY <1>1, <1>2, <1>3, <1>4, <2>1, <2>2 DEF InputInv, OutputInv
  <2>6. MaskInv'
    BY <1>1, <1>2, <2>3, <1>3 DEF MaskInv
  <2>7. ASSUME NEW i \in 1 .. Len(routed')
        PROVE  routed'[i] = Xor(source[i], MaskedAt(i))
    <3>1. CASE i <= Len(routed)
      BY <1>1, <1>3, <2>2, <3>1 DEF ChunksDoNotMatter
    <3>2. CASE i > Len(routed)
      <4> DEFINE k == i - Len(routed)
      <4>1. k \in 1 .. Len(chunk) /\ i = Len(routed) + k
        BY <1>3, <2>2, <3>2
      <4>2. routed'[i] = output[k]
        BY <2>2, <4>1
      <4>3. output[k] = Xor(chunk[k], MaskedAt(Consumed + k))
        BY <1>1, <1>2, <4>1 DEF OutputInv
      <4>4. chunk[k] = source[i]
        BY <1>1, <1>4, <4>1 DEF InputInv
      <4> QED
        BY <2>3, <4>1, <4>2, <4>3, <4>4
    <3> QED
      BY <1>3, <2>2, <3>1, <3>2
  <2>8. ChunksDoNotMatter'
    BY <1>2, <2>7 DEF ChunksDoNotMatter
  <2>9. RestoredInv'
    BY <1>1, <1>4, <2>1 DEF InputInv, RestoredInv
  <2> QED
    BY <2>4, <2>5, <2>6, <2>8, <2>9 DEF IInv
<1>5. CASE pass # "route"
  <2>1. restored' = restored \o output /\ routed' = routed
    BY <1>5 DEF Yield
  <2>2. /\ restored' \in Seq(Bits) /\ Len(restored') = Len(restored) + Len(chunk)
        /\ \A i \in 1 .. Len(restored) : restored'[i] = restored[i]
        /\ \A i \in 1 .. Len(chunk) : restored'[Len(restored) + i] = output[i]
    <3>1. /\ restored \o output \in Seq(Bits)
          /\ Len(restored \o output) = Len(restored) + Len(output)
          /\ \A i \in 1 .. Len(restored) : (restored \o output)[i] = restored[i]
          /\ \A i \in 1 .. Len(output) :
                (restored \o output)[Len(restored) + i] = output[i]
      BY <1>3, ConcatFacts
    <3> QED
      BY <1>3, <2>1, <3>1
  <2>3. /\ Consumed = Len(restored) /\ Consumed' = Len(restored')
        /\ Position' = Position
    BY <1>2, <1>3, <1>5, <2>2 DEF Consumed, Position
  <2>4. TypeOK'
    BY <1>1, <1>2, <2>1, <2>2 DEF TypeOK
  <2>5. InputInv' /\ OutputInv'
    BY <1>1, <1>2, <1>3, <1>5, <2>1, <2>2 DEF InputInv, OutputInv
  <2>6. MaskInv'
    BY <1>1, <1>2, <2>3, <1>3 DEF MaskInv
  <2>7. ASSUME NEW i \in 1 .. Len(restored')
        PROVE  restored'[i] = Xor(routed[i], MaskedAt(i))
    <3>1. CASE i <= Len(restored)
      BY <1>1, <1>3, <2>2, <3>1 DEF RestoredInv
    <3>2. CASE i > Len(restored)
      <4> DEFINE k == i - Len(restored)
      <4>1. k \in 1 .. Len(chunk) /\ i = Len(restored) + k
        BY <1>3, <2>2, <3>2
      <4>2. restored'[i] = output[k]
        BY <2>2, <4>1
      <4>3. output[k] = Xor(chunk[k], MaskedAt(Consumed + k))
        BY <1>1, <1>2, <4>1 DEF OutputInv
      <4>4. chunk[k] = routed[i]
        BY <1>1, <1>5, <4>1 DEF InputInv
      <4> QED
        BY <2>3, <4>1, <4>2, <4>3, <4>4
    <3> QED
      BY <1>3, <2>2, <3>1, <3>2
  <2>8. RestoredInv'
    BY <1>2, <2>1, <2>7 DEF RestoredInv
  <2>9. ChunksDoNotMatter'
    BY <1>1, <1>2, <2>1 DEF ChunksDoNotMatter
  <2> QED
    BY <2>4, <2>5, <2>6, <2>8, <2>9 DEF IInv
<1> QED
  BY <1>4, <1>5

\* The second generator starts with fresh counters; ending it changes nothing.
LEMMA PassKeeps == ASSUME IInv, StartRestore \/ EndRestore PROVE IInv'
<1>1. /\ TypeOK /\ InputInv /\ OutputInv /\ MaskInv
      /\ ChunksDoNotMatter /\ RestoredInv
  BY DEF IInv
<1>2. CASE StartRestore
  <2>1. TypeOK'
    BY <1>1, <1>2, Constants DEF StartRestore, TypeOK
  <2>2. InputInv' /\ OutputInv'
    BY <1>1, <1>2 DEF StartRestore, InputInv, OutputInv, TypeOK
  <2>3. MaskInv'
    BY <1>1, <1>2 DEF StartRestore, MaskInv, Position, Consumed, InputInv
  <2>4. ChunksDoNotMatter' /\ RestoredInv'
    BY <1>1, <1>2 DEF StartRestore, ChunksDoNotMatter, RestoredInv
  <2> QED
    BY <2>1, <2>2, <2>3, <2>4 DEF IInv
<1>3. CASE EndRestore
  <2>1. TypeOK'
    BY <1>1, <1>3 DEF EndRestore, TypeOK, generator
  <2>2. InputInv' /\ OutputInv'
    BY <1>1, <1>3 DEF EndRestore, InputInv, OutputInv, generator
  <2>3. MaskInv'
    BY <1>1, <1>3 DEF EndRestore, MaskInv, Position, Consumed, generator
  <2>4. ChunksDoNotMatter' /\ RestoredInv'
    BY <1>1, <1>3 DEF EndRestore, ChunksDoNotMatter, RestoredInv
  <2> QED
    BY <2>1, <2>2, <2>3, <2>4 DEF IInv
<1> QED
  BY <1>2, <1>3

LEMMA NextIInv == IInv /\ [Next]_vars => IInv'
<1> SUFFICES ASSUME IInv, [Next]_vars PROVE IInv'
  OBVIOUS
<1>1. CASE Next
  BY <1>1, ReceiveSourceKeeps, ReceiveRoutedKeeps, RefillKeeps, TransformKeeps,
     YieldKeeps, PassKeeps DEF Next
<1>2. CASE UNCHANGED vars
  BY <1>2 DEF vars, IInv, TypeOK, InputInv, OutputInv, MaskInv,
     ChunksDoNotMatter, RestoredInv, Position, Consumed
<1> QED
  BY <1>1, <1>2

LEMMA Inductive == Spec => []IInv
  BY InitIInv, NextIInv, PTL DEF Spec
-----------------------------------------------------------------------------
\* No cursor of transform_chunks leaves its buffer.
THEOREM TypeCorrect == Spec => []TypeOK
  BY Inductive, PTL DEF IInv

\* The routed stream does not depend on how the source was cut in chunks.
THEOREM ChunkingInvisible == Spec => []ChunksDoNotMatter
  BY Inductive, PTL DEF IInv

\* No block of the mask is made before a byte needs it.
LEMMA BlocksAreNeeded == IInv => NoBlockAhead
<1> SUFFICES ASSUME IInv, chunk = <<>>
             PROVE  blockIndex = (Consumed + MaskBytes - 1) \div MaskBytes
  BY DEF NoBlockAhead
<1>1. TypeOK /\ MaskInv
  BY DEF IInv
<1>2. Position = Consumed /\ Consumed \in Nat
  BY <1>1 DEF Position, Consumed, TypeOK
<1> HIDE DEF Consumed
<1>3. CASE mask = -1
  <2>1. blockIndex = 0 /\ Consumed = 0
    BY <1>1, <1>2, <1>3 DEF MaskInv
  <2>2. (MaskBytes - 1) \div MaskBytes = 0
    BY Constants, SMT
  <2> QED
    BY <2>1, <2>2, Constants
<1>4. CASE mask # -1
  <2>1. /\ mask \in Nat /\ maskOffset \in 1 .. MaskBytes
        /\ blockIndex = mask + 1
        /\ Consumed = mask * MaskBytes + maskOffset
    BY <1>1, <1>2, <1>4, Constants DEF MaskInv, TypeOK
  <2> QED
    BY <2>1, CeilDiv
<1> QED
  BY <1>3, <1>4

THEOREM MaskIsLazy == Spec => []NoBlockAhead
  BY Inductive, BlocksAreNeeded, PTL
-----------------------------------------------------------------------------
\* What the second generator has yielded is a prefix of the source.
Restoring ==
    /\ Len(restored) \in Nat /\ Len(restored) <= Len(source)
    /\ \A i \in 1 .. Len(restored) : restored[i] = source[i]

LEMMA RestoredIsPrefix == IInv => Restoring
<1> SUFFICES ASSUME IInv PROVE Restoring
  OBVIOUS
<1>1. /\ TypeOK /\ InputInv /\ ChunksDoNotMatter /\ RestoredInv
  BY DEF IInv
<1>2. /\ Len(restored) \in Nat /\ Len(restored) <= Len(routed)
      /\ Len(routed) <= Len(source)
  BY <1>1 DEF TypeOK, InputInv
<1>3. ASSUME NEW i \in 1 .. Len(restored) PROVE restored[i] = source[i]
  <2>1. source[i] \in Bits
    BY <1>1, <1>2 DEF TypeOK
  <2>2. i \in 1 .. Len(routed)
    BY <1>1, <1>2 DEF TypeOK
  <2>3. /\ restored[i] = Xor(routed[i], MaskedAt(i))
        /\ routed[i] = Xor(source[i], MaskedAt(i))
    BY <1>1, <2>2 DEF RestoredInv, ChunksDoNotMatter
  <2> QED
    BY <2>1, <2>3, XorFacts
<1> QED
  BY <1>1, <1>2, <1>3 DEF Restoring, TypeOK

LEMMA PrefixIsSubSeq ==
    ASSUME NEW s \in Seq(Bits), NEW t \in Seq(Bits), Len(t) <= Len(s),
           \A i \in 1 .. Len(t) : t[i] = s[i]
    PROVE  SubSeq(s, 1, Len(t)) = t
<1>1. /\ SubSeq(s, 0 + 1, 0 + Len(t)) \in Seq(Bits)
      /\ Len(SubSeq(s, 0 + 1, 0 + Len(t))) = Len(t)
      /\ \A i \in 1 .. Len(t) : SubSeq(s, 0 + 1, 0 + Len(t))[i] = s[0 + i]
  BY PartFacts
<1>2. /\ SubSeq(s, 1, Len(t)) \in Seq(Bits)
      /\ Len(SubSeq(s, 1, Len(t))) = Len(t)
      /\ \A i \in 1 .. Len(t) : SubSeq(s, 1, Len(t))[i] = t[i]
  BY <1>1
<1> QED
  BY <1>2

\* Every step of the chunked stream is a step of the exact-replay channel
\* or leaves what the channel shows alone.
LEMMA StepIsReplay ==
    ASSUME IInv, IInv', Restoring', [Next]_vars
    PROVE  [Replay!Next]_(Replay!vars)
<1> USE DEF Replay!vars
<1>1. TypeOK /\ InputInv /\ TypeOK'
  BY DEF IInv
<1>2. CASE \E c \in Chunks : ReceiveSource(c)
  <2> PICK c \in Chunks : ReceiveSource(c)
    BY <1>2
  <2>1. /\ source' = source \o c /\ pass = "route" /\ pass' = pass
        /\ restored' = restored
    BY DEF ReceiveSource, Receive
  <2>2. source \in Seq(Bits) /\ c \in Seq(Bits) /\ source' \in Seq(Bits)
    BY <1>1, Constants DEF TypeOK
  <2>3. CASE c = <<>>
    BY <2>1, <2>2, <2>3
  <2>4. CASE c # <<>>
    <3>1. /\ Len(source') = Len(source) + Len(c) /\ Len(c) > 0
          /\ \A i \in 1 .. Len(source) : source'[i] = source[i]
      BY <2>1, <2>2, <2>4, ConcatFacts
    <3>2. SubSeq(source', 1, Len(source)) = source /\ Len(source') > Len(source)
      <4>1. Len(source') > Len(source) /\ Len(source) <= Len(source')
        BY <2>2, <3>1
      <4>2. \A i \in 1 .. Len(source) : source[i] = source'[i]
        BY <3>1
      <4> QED
        BY <2>2, <4>1, <4>2, PrefixIsSubSeq
    <3>3. Replay!Accept
      BY <2>1, <2>2, <3>2 DEF Replay!Accept
    <3> QED
      BY <3>3 DEF Replay!Next
  <2> QED
    BY <2>3, <2>4
<1>3. CASE Yield
  <2>1. /\ chunk # <<>> /\ source' = source /\ pass' = pass
        /\ Len(output) = Len(chunk)
    BY <1>3 DEF Yield, IInv, OutputInv
  <2>2. CASE pass = "route"
    BY <1>3, <2>1, <2>2 DEF Yield
  <2>3. CASE pass # "route"
    <3>1. restored' = restored \o output /\ routed' = routed
      BY <1>3, <2>3 DEF Yield
    <3>2. Len(restored') > Len(restored)
      BY <1>1, <2>1, <3>1, ConcatFacts DEF TypeOK
    <3>3. Len(restored') <= Len(source)
      BY <2>1 DEF Restoring
    <3>4. \A i \in 1 .. Len(restored') : restored'[i] = source[i]
      BY <2>1 DEF Restoring
    <3>5. restored' = SubSeq(source, 1, Len(restored'))
      BY <1>1, <3>3, <3>4, PrefixIsSubSeq DEF TypeOK
    <3>6. Len(restored') \in Len(restored) + 1 .. Len(source)
      BY <1>1, <3>2, <3>3 DEF TypeOK
    <3>7. Replay!Replay
      BY <2>1, <2>3, <3>5, <3>6 DEF Replay!Replay
    <3> QED
      BY <3>7 DEF Replay!Next
  <2> QED
    BY <2>2, <2>3
<1>4. CASE StartRestore
  BY <1>4 DEF StartRestore, Replay!Seal, Replay!Next
<1>5. CASE EndRestore \/ Refill \/ Transform \/ UNCHANGED vars
  BY <1>5 DEF EndRestore, Refill, Transform, vars
<1>6. CASE \E n \in 1 .. Len(routed) - Len(restored) : ReceiveRouted(n)
  BY <1>6 DEF ReceiveRouted, Receive
<1> QED
  BY <1>2, <1>3, <1>4, <1>5, <1>6 DEF Next

\* The chunked transform and its reverse implement the exact-replay channel:
\* whatever comes back is the sealed source, in order and unchanged.
THEOREM ImplementsReplay == Spec => Replay!Spec
<1>1. Init => Replay!Init
  BY DEF Init, Replay!Init
<1>2. IInv /\ IInv' /\ Restoring' /\ [Next]_vars
        => [Replay!Next]_(Replay!vars)
  BY StepIsReplay
<1> QED
  BY <1>1, <1>2, RestoredIsPrefix, Inductive, PTL DEF Spec, Replay!Spec
-----------------------------------------------------------------------------
(* The files of ArchiveStore.                                              *)

USE DEF Absent, Partial, Contents, Complete

\* Where a running command is: what it has already put in place, and what
\* the temporary at hand holds.
ProgressInv ==
    /\ version > 0 \/ (pc = "idle" /\ ~succeeded)
    /\ pc # "idle" =>
          /\ ~succeeded
          /\ \A j \in 1 .. index - 1 :
                final[Outputs[j]] = version /\ temporary[Outputs[j]] = Absent
    /\ pc \in {"remove", "rename"} => temporary[File] = version

\* No file is newer than the running command.
AgeInv == \A f \in Files : final[f] <= version

\* Until an interruption a published file is missing only between its
\* removal and its renaming.
CopyInv ==
    interruptions = 0 =>
        \A f \in published :
            \/ Complete(final[f])
            \/ pc = "rename" /\ f = File

ModeInv == ~removesFirst => pc # "remove"

StoreInv ==
    /\ StoreTypeOK
    /\ ProgressInv
    /\ AgeInv
    /\ CopyInv
    /\ OneInterruptionKeepsACopy
    /\ ReplacedFilesStay
    /\ LaterFilesAreNotNewer
    /\ SuccessIsComplete
    /\ ModeInv

\* The list of outputs names every file exactly once.
LEMMA OutputFacts ==
    /\ Len(Outputs) \in Nat \ {0}
    /\ DOMAIN Outputs = 1 .. Len(Outputs)
    /\ \A i \in DOMAIN Outputs : Outputs[i] \in Files
    /\ \A f \in Files : \E i \in DOMAIN Outputs : Outputs[i] = f
    /\ \A i, j \in DOMAIN Outputs : Outputs[i] = Outputs[j] => i = j
  BY StoreAssumption DEF Files

LEMMA InitStoreInv == StoreInit => StoreInv
<1> SUFFICES ASSUME StoreInit PROVE StoreInv
  OBVIOUS
<1> USE OutputFacts DEF StoreInit
<1>1. StoreTypeOK
  <2>1. index \in DOMAIN Outputs
    OBVIOUS
  <2>2. final \in [Files -> Nat] /\ temporary \in [Files -> Contents]
    OBVIOUS
  <2> QED
    BY <2>1, <2>2 DEF StoreTypeOK
<1>2. ProgressInv
  BY DEF ProgressInv, File
<1>3. AgeInv
  BY DEF AgeInv
<1>4. CopyInv
  BY DEF CopyInv, File
<1>5. OneInterruptionKeepsACopy
  BY DEF OneInterruptionKeepsACopy
<1>6. ReplacedFilesStay
  BY DEF ReplacedFilesStay
<1>7. LaterFilesAreNotNewer
  BY DEF LaterFilesAreNotNewer
<1>8. SuccessIsComplete
  BY DEF SuccessIsComplete
<1>9. ModeInv
  BY DEF ModeInv
<1> QED
  BY <1>1, <1>2, <1>3, <1>4, <1>5, <1>6, <1>7, <1>8, <1>9 DEF StoreInv

\* No step of a command, and no interruption, leaves the invariant.
LEMMA NextStoreInv == StoreInv /\ [StoreNext]_storeVars => StoreInv'
<1> SUFFICES ASSUME StoreInv, [StoreNext]_storeVars PROVE StoreInv'
  OBVIOUS
<1> USE OutputFacts
<1>0. /\ StoreTypeOK /\ ProgressInv /\ AgeInv /\ CopyInv
      /\ OneInterruptionKeepsACopy /\ ReplacedFilesStay
      /\ LaterFilesAreNotNewer /\ SuccessIsComplete /\ ModeInv
  BY DEF StoreInv
<1>1. CASE Start
  <2>1. StoreTypeOK'
    <3>1. (index \in DOMAIN Outputs)'
      BY <1>1 DEF Start
    <3>2. pc' = "create" /\ ~succeeded'
      BY <1>1 DEF Start
    <3>4. version' \in Nat
      BY <1>0, <1>1 DEF Start, StoreTypeOK
    <3>5. succeeded' \in BOOLEAN
      BY <1>1 DEF Start
    <3>3. UNCHANGED <<removesFirst, final, temporary, published, interruptions>>
      BY <1>1 DEF Start
    <3> HIDE DEF Contents
    <3> QED
      BY <1>0, <3>1, <3>2, <3>3, <3>4, <3>5 DEF StoreTypeOK
  <2>2. ProgressInv'
    BY <1>0, <1>1, <2>1 DEF Start, StoreTypeOK, ProgressInv, File
  <2>3. AgeInv'
    BY <1>0, <1>1, <2>1 DEF Start, StoreTypeOK, AgeInv, ProgressInv, File
  <2>4. CopyInv'
    BY <1>0, <1>1, <2>1 DEF Start, StoreTypeOK, CopyInv, File, ProgressInv
  <2>5. OneInterruptionKeepsACopy'
    BY <1>0, <1>1, <2>1 DEF Start, StoreTypeOK, OneInterruptionKeepsACopy,
       CopyInv, ProgressInv, SuccessIsComplete, File
  <2>6. ReplacedFilesStay'
    BY <1>0, <1>1, <2>1 DEF Start, StoreTypeOK, ReplacedFilesStay, ModeInv,
       ProgressInv, File
  <2>7. LaterFilesAreNotNewer'
    BY <1>0, <1>1, <2>1 DEF Start, StoreTypeOK, LaterFilesAreNotNewer, AgeInv,
       ProgressInv, File
  <2>8. SuccessIsComplete'
    BY <1>0, <1>1, <2>1 DEF Start, StoreTypeOK, SuccessIsComplete, ProgressInv,
       File
  <2>9. ModeInv'
    BY <1>0, <1>1, <2>1 DEF Start, StoreTypeOK, ModeInv
  <2> QED
    BY <2>1, <2>2, <2>3, <2>4, <2>5, <2>6, <2>7, <2>8, <2>9 DEF StoreInv
<1>2. CASE Create
  <2>1. StoreTypeOK'
    BY <1>0, <1>2 DEF Create, StoreTypeOK, ProgressInv, File
  <2>2. ProgressInv'
    BY <1>0, <1>2, <2>1, SMTT(30) DEF Create, StoreTypeOK, ProgressInv, File
  <2>3. AgeInv'
    BY <1>0, <1>2, <2>1 DEF Create, StoreTypeOK, AgeInv, ProgressInv, File
  <2>4. CopyInv'
    BY <1>0, <1>2, <2>1 DEF Create, StoreTypeOK, CopyInv, File, ProgressInv
  <2>5. OneInterruptionKeepsACopy'
    BY <1>0, <1>2, <2>1 DEF Create, StoreTypeOK, OneInterruptionKeepsACopy,
       CopyInv, ProgressInv, SuccessIsComplete, File
  <2>6. ReplacedFilesStay'
    BY <1>0, <1>2, <2>1 DEF Create, StoreTypeOK, ReplacedFilesStay, ModeInv,
       ProgressInv, File
  <2>7. LaterFilesAreNotNewer'
    BY <1>0, <1>2, <2>1 DEF Create, StoreTypeOK, LaterFilesAreNotNewer, AgeInv,
       ProgressInv, File
  <2>8. SuccessIsComplete'
    BY <1>0, <1>2, <2>1 DEF Create, StoreTypeOK, SuccessIsComplete, ProgressInv,
       File
  <2>9. ModeInv'
    BY <1>0, <1>2, <2>1 DEF Create, StoreTypeOK, ModeInv
  <2> QED
    BY <2>1, <2>2, <2>3, <2>4, <2>5, <2>6, <2>7, <2>8, <2>9 DEF StoreInv
<1>3. CASE Write
  <2>1. StoreTypeOK'
    BY <1>0, <1>3 DEF Write, StoreTypeOK, ProgressInv, File
  <2>2. ProgressInv'
    BY <1>0, <1>3, <2>1 DEF Write, StoreTypeOK, ProgressInv, File
  <2>3. AgeInv'
    BY <1>0, <1>3, <2>1 DEF Write, StoreTypeOK, AgeInv, ProgressInv, File
  <2>4. CopyInv'
    BY <1>0, <1>3, <2>1 DEF Write, StoreTypeOK, CopyInv, File, ProgressInv
  <2>5. OneInterruptionKeepsACopy'
    BY <1>0, <1>3, <2>1 DEF Write, StoreTypeOK, OneInterruptionKeepsACopy,
       CopyInv, ProgressInv, SuccessIsComplete, File
  <2>6. ReplacedFilesStay'
    BY <1>0, <1>3, <2>1 DEF Write, StoreTypeOK, ReplacedFilesStay, ModeInv,
       ProgressInv, File
  <2>7. LaterFilesAreNotNewer'
    BY <1>0, <1>3, <2>1 DEF Write, StoreTypeOK, LaterFilesAreNotNewer, AgeInv,
       ProgressInv, File
  <2>8. SuccessIsComplete'
    BY <1>0, <1>3, <2>1 DEF Write, StoreTypeOK, SuccessIsComplete, ProgressInv,
       File
  <2>9. ModeInv'
    BY <1>0, <1>3, <2>1 DEF Write, StoreTypeOK, ModeInv
  <2> QED
    BY <2>1, <2>2, <2>3, <2>4, <2>5, <2>6, <2>7, <2>8, <2>9 DEF StoreInv
<1>4. CASE Remove
  <2>1. StoreTypeOK'
    BY <1>0, <1>4 DEF Remove, StoreTypeOK, ProgressInv, File
  <2>2. ProgressInv'
    BY <1>0, <1>4, <2>1 DEF Remove, StoreTypeOK, ProgressInv, File
  <2>3. AgeInv'
    BY <1>0, <1>4, <2>1 DEF Remove, StoreTypeOK, AgeInv, ProgressInv, File
  <2>4. CopyInv'
    BY <1>0, <1>4, <2>1 DEF Remove, StoreTypeOK, CopyInv, File, ProgressInv
  <2>5. OneInterruptionKeepsACopy'
    BY <1>0, <1>4, <2>1 DEF Remove, StoreTypeOK, OneInterruptionKeepsACopy,
       CopyInv, ProgressInv, SuccessIsComplete, File
  <2>6. ReplacedFilesStay'
    BY <1>0, <1>4, <2>1 DEF Remove, StoreTypeOK, ReplacedFilesStay, ModeInv,
       ProgressInv, File
  <2>7. LaterFilesAreNotNewer'
    BY <1>0, <1>4, <2>1 DEF Remove, StoreTypeOK, LaterFilesAreNotNewer, AgeInv,
       ProgressInv, File
  <2>8. SuccessIsComplete'
    BY <1>0, <1>4, <2>1 DEF Remove, StoreTypeOK, SuccessIsComplete, ProgressInv,
       File
  <2>9. ModeInv'
    BY <1>0, <1>4, <2>1 DEF Remove, StoreTypeOK, ModeInv
  <2> QED
    BY <2>1, <2>2, <2>3, <2>4, <2>5, <2>6, <2>7, <2>8, <2>9 DEF StoreInv
<1>5. CASE Rename
  <2>1. StoreTypeOK'
    <3>1. (index \in DOMAIN Outputs)'
      BY <1>0, <1>5 DEF Rename, StoreTypeOK
    <3>2. (final \in [Files -> Nat] /\ temporary \in [Files -> Contents])'
      BY <1>0, <1>5 DEF Rename, StoreTypeOK, ProgressInv, File
    <3>3. (published \subseteq Files)'
      BY <1>0, <1>5 DEF Rename, StoreTypeOK, File
    <3>4. (pc \in {"create", "idle"} /\ version \in Nat /\ succeeded \in BOOLEAN)'
      BY <1>0, <1>5 DEF Rename, StoreTypeOK
    <3>6. (removesFirst \in BOOLEAN)'
      BY <1>0, <1>5 DEF Rename, StoreTypeOK
    <3>5. (interruptions \in Nat)'
      BY <1>0, <1>5 DEF Rename, StoreTypeOK
    <3> HIDE DEF Contents
    <3> QED
      BY <3>1, <3>2, <3>3, <3>4, <3>5, <3>6 DEF StoreTypeOK
  <2>2. ProgressInv'
    BY <1>0, <1>5, <2>1 DEF Rename, StoreTypeOK, ProgressInv, File
  <2>3. AgeInv'
    BY <1>0, <1>5, <2>1 DEF Rename, StoreTypeOK, AgeInv, ProgressInv, File
  <2>8. SuccessIsComplete'
    BY <1>0, <1>5, <2>1 DEF Rename, StoreTypeOK, SuccessIsComplete, ProgressInv,
       File
  <2>4. CopyInv'
    <3>1. CASE index < Len(Outputs)
      BY <1>0, <1>5, <2>1, <3>1 DEF Rename, StoreTypeOK, CopyInv, File, ProgressInv
    <3>2. CASE ~(index < Len(Outputs))
      <4>1. (pc = "idle" /\ succeeded)'
        BY <1>5, <3>2 DEF Rename
      <4>2. (version \in Nat \ {0} /\ published \subseteq Files)'
        BY <1>0, <1>5, <2>1 DEF Rename, StoreTypeOK, ProgressInv
      <4> QED
        BY <2>8, <4>1, <4>2 DEF CopyInv, SuccessIsComplete
    <3> QED
      BY <3>1, <3>2
  <2>5. OneInterruptionKeepsACopy'
    <3>1. CASE index < Len(Outputs)
      BY <1>5, <3>1 DEF Rename, OneInterruptionKeepsACopy
    <3>2. CASE ~(index < Len(Outputs))
      <4>1. (interruptions = 0 /\ pc = "idle")'
        BY <1>5, <3>2 DEF Rename
      <4> QED
        BY <2>4, <4>1 DEF CopyInv, OneInterruptionKeepsACopy
    <3> QED
      BY <3>1, <3>2
  <2>6. ReplacedFilesStay'
    BY <1>0, <1>5, <2>1 DEF Rename, StoreTypeOK, ReplacedFilesStay, ModeInv,
       ProgressInv, File
  <2>7. LaterFilesAreNotNewer'
    BY <1>0, <1>5, <2>1 DEF Rename, StoreTypeOK, LaterFilesAreNotNewer, AgeInv,
       ProgressInv, File
  <2>9. ModeInv'
    BY <1>0, <1>5, <2>1 DEF Rename, StoreTypeOK, ModeInv
  <2> QED
    BY <2>1, <2>2, <2>3, <2>4, <2>5, <2>6, <2>7, <2>8, <2>9 DEF StoreInv
<1>6. CASE Interrupt
  <2>1. StoreTypeOK'
    BY <1>0, <1>6 DEF Interrupt, StoreTypeOK, ProgressInv, File
  <2>2. ProgressInv'
    BY <1>0, <1>6, <2>1 DEF Interrupt, StoreTypeOK, ProgressInv, File
  <2>3. AgeInv'
    BY <1>0, <1>6, <2>1 DEF Interrupt, StoreTypeOK, AgeInv, ProgressInv, File
  <2>4. CopyInv'
    BY <1>0, <1>6, <2>1 DEF Interrupt, StoreTypeOK, CopyInv, File, ProgressInv
  <2>5. OneInterruptionKeepsACopy'
    BY <1>0, <1>6, <2>1 DEF Interrupt, StoreTypeOK, OneInterruptionKeepsACopy,
       CopyInv, ProgressInv, SuccessIsComplete, File
  <2>6. ReplacedFilesStay'
    BY <1>0, <1>6, <2>1 DEF Interrupt, StoreTypeOK, ReplacedFilesStay, ModeInv,
       ProgressInv, File
  <2>7. LaterFilesAreNotNewer'
    BY <1>0, <1>6, <2>1 DEF Interrupt, StoreTypeOK, LaterFilesAreNotNewer, AgeInv,
       ProgressInv, File
  <2>8. SuccessIsComplete'
    BY <1>0, <1>6, <2>1 DEF Interrupt, StoreTypeOK, SuccessIsComplete,
       ProgressInv, File
  <2>9. ModeInv'
    BY <1>0, <1>6, <2>1 DEF Interrupt, StoreTypeOK, ModeInv
  <2> QED
    BY <2>1, <2>2, <2>3, <2>4, <2>5, <2>6, <2>7, <2>8, <2>9 DEF StoreInv
<1>7. CASE UNCHANGED storeVars
  BY <1>0, <1>7 DEF storeVars, StoreInv, StoreTypeOK, ProgressInv, AgeInv, CopyInv,
     OneInterruptionKeepsACopy, ReplacedFilesStay, LaterFilesAreNotNewer,
     SuccessIsComplete, ModeInv, File
<1> QED
  BY <1>1, <1>2, <1>3, <1>4, <1>5, <1>6, <1>7 DEF StoreNext, Step

LEMMA StoreInductive == StoreSpec => []StoreInv
  BY InitStoreInv, NextStoreInv, PTL DEF StoreSpec

\* The types of the files, and that no cut-off write gets a file's name.
THEOREM StoreTypeCorrect == StoreSpec => []StoreTypeOK
  BY StoreInductive, PTL DEF StoreInv

\* An interruption never costs a written file, if a command ran to its end
\* since the one before it.
THEOREM CopyKept == StoreSpec => []OneInterruptionKeepsACopy
  BY StoreInductive, PTL DEF StoreInv

\* With os.replace a file, once there, is there for good.
THEOREM ReplacedStay == StoreSpec => []ReplacedFilesStay
  BY StoreInductive, PTL DEF StoreInv

\* A sidecar never runs ahead of its archive.
THEOREM SidecarNotNewer == StoreSpec => []LaterFilesAreNotNewer
  BY StoreInductive, PTL DEF StoreInv

\* A command that succeeds leaves only its own files.
THEOREM SuccessComplete == StoreSpec => []SuccessIsComplete
  BY StoreInductive, PTL DEF StoreInv

\* Leftover temporaries never surface.
THEOREM NoStaleTemporary == StoreSpec => NoStaleTemporaryAppears
<1>1. StoreInv /\ [StoreNext]_storeVars =>
        [\A f \in Files :
            final'[f] # final[f] => final'[f] \in {Absent, version}]_storeVars
  BY OutputFacts DEF StoreInv, StoreTypeOK, ProgressInv, StoreNext, Step, Start, Create,
     Write, Remove, Rename, Interrupt, storeVars, File
<1> QED
  BY <1>1, StoreInductive, PTL DEF StoreSpec, NoStaleTemporaryAppears
=============================================================================
