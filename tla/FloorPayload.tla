---------------------------- MODULE FloorPayload ----------------------------
(***************************************************************************)
(* The arithmetic payload of one floor (omega_floor_codec_v0.rs, from      *)
(* GenericCausalLagProvider to decode_payload): directions look back into  *)
(* the history by lags, their majority predicts a byte, the residual goes  *)
(* bit by bit through adaptive cells into a 32-bit arithmetic coder.       *)
(*                                                                         *)
(* All six lanes encode the same input side by side (enc), so that they    *)
(* can be compared; one of the payloads is then decoded.  The seed, the    *)
(* number of directions and the draws of the shuffle are the same for both *)
(* sides and arbitrary: they come from the header.  A saturating addition  *)
(* of a cell never saturates, as COUNT_LIMIT is far below 2^16.            *)
(***************************************************************************)
EXTENDS Integers, Sequences, FiniteSets, Functions

CONSTANTS
    ByteBits,       \* bits of a byte (8)
    Quarter,        \* a quarter of the coder's register (2^30)
    Scale,          \* the denominator of a probability (2^16)
    CountLimit,     \* COUNT_LIMIT, where a cell's counts are halved
    Floor,          \* cells of the model (64, 256, 1024 or 4096)
    ResetInterval,  \* RESET_INTERVAL, bytes between two resets of the reset lane
    MaxDirections,  \* MAX_DIRECTIONS (64)
    Requested,      \* numbers of directions asked for
    Seeds,          \* Omega commitments, as sequences of bytes
    Hash(_),        \* mix64 over the context of a bit
    MaxBytes,       \* bound: bytes of an input
    Foreign         \* payloads that no encoder wrote, as bits

Bytes == 0 .. 2 ^ ByteBits - 1
Half == 2 * Quarter
Top == 4 * Quarter - 1
RegisterBits == CHOOSE n \in 1 .. Top : 2 ^ n = Top + 1

Lanes == {"Baseline", "DuplicateSharedState", "Unique", "Reset",
          "BookkeepingPermutation", "ShuffleDeterministicPriorHistory"}

\* What the cell of a bit depends on: seed, prediction, bits so far and their
\* number, the last four bytes.
Contexts == Seeds \X Bytes \X Bytes \X (1 .. ByteBits) \X UNION {[1 .. n -> Bytes] : n \in 0 .. 4}

ASSUME FloorAssumption ==
    /\ ByteBits \in Nat \ {0} /\ Floor \in Nat \ {0}
    /\ ResetInterval \in Nat \ {0} /\ MaxBytes \in Nat
    /\ Quarter \in Nat /\ Scale \in 1 .. Quarter /\ \E n \in 1 .. Top : 2 ^ n = Top + 1
    /\ CountLimit \in 2 .. Scale - 1
    /\ MaxDirections \in Nat \ {0} /\ Requested \subseteq 1 .. MaxDirections
    /\ Foreign \subseteq Seq({0, 1})
    /\ \A c \in Contexts : Hash(c) \in Nat

VARIABLES
    pc,         \* encode, decode, done or rejected
    seed, requested, draws,     \* what both sides find in the header
    source,     \* the bytes of the input so far
    enc,        \* per lane: coder, cells and history of the encoder
    lane,       \* the lane of the payload that is decoded
    payload,    \* its bits
    length,     \* the length of the input the header declares
    dec,        \* the decoder's coder, cells and history
    output      \* the bytes decoded

header == <<seed, requested, draws>>
vars == <<pc, header, source, enc, lane, payload, length, dec, output>>
-----------------------------------------------------------------------------
(* Bits of bytes.                                                          *)

Bit(v, k) == (v \div 2 ^ k) % 2

\* The number of that width with ones at the given places.
NumberOf(width, ones) == SumFunctionOnSet([k \in 0 .. width - 1 |-> 2 ^ k], ones)

Xor(a, b) == NumberOf(ByteBits, {k \in 0 .. ByteBits - 1 : Bit(a, k) # Bit(b, k)})

ClampTo(v, low, high) == IF v < low THEN low ELSE IF v > high THEN high ELSE v
-----------------------------------------------------------------------------
(* Directions.                                                             *)

\* Trial division by two and by odd numbers.
IsPrime(v) ==
    \/ v = 2
    \/ v > 2 /\ v % 2 = 1 /\ \A d \in 3 .. v : d % 2 = 1 /\ d * d <= v => v % d # 0

\* lag_for: one for direction 0, the k-th prime for direction k.
LagFor == [k \in 0 .. MaxDirections - 1 |->
              IF k = 0 THEN 1
              ELSE CHOOSE p \in 2 .. k * k + 1 :
                      IsPrime(p) /\ Cardinality({q \in 2 .. p : IsPrime(q)}) = k]

\* A byte of the past or, where the history is too short, one of the seed.
DirectionValue(history, d) ==
    IF Len(history) >= LagFor[d]
      THEN history[Len(history) + 1 - LagFor[d]]
      ELSE Xor(Xor(seed[(d % Len(seed)) + 1], (d * 61) % 2 ^ ByteBits),
               (LagFor[d] * 23) % 2 ^ ByteBits)

\* The directions the shuffle draws from.
Pool(l) ==
    CASE l = "Baseline" -> <<0>>
      [] l = "DuplicateSharedState" -> [i \in 1 .. requested |-> 0]
      [] l = "ShuffleDeterministicPriorHistory" ->
            [i \in 1 .. ClampTo(2 * requested, requested, MaxDirections) |-> i - 1]
      [] OTHER -> [i \in 1 .. requested |-> i - 1]

\* Fisher-Yates from the back; draws[index] stands for the xorshift modulo index + 1.
Swapped(p, i, j) == [p EXCEPT ![i] = p[j], ![j] = p[i]]
Shuffled(plan) ==
    LET After[n \in 0 .. Len(plan) - 1] ==
            IF n = 0 THEN plan
            ELSE LET p == After[n - 1]
                     index == Len(plan) - n
                 IN Swapped(p, index + 1, draws[index] + 1)
    IN After[Len(plan) - 1]

DirectionPlan(l) ==
    CASE l = "ShuffleDeterministicPriorHistory" -> SubSeq(Shuffled(Pool(l)), 1, requested)
      [] l = "BookkeepingPermutation" -> Shuffled(Pool(l))
      [] OTHER -> Pool(l)

\* Mutant: the first direction of the plan breaks a tie, not direction 0.
PredictTieByPlan(history, plan) ==
    LET Value(d) == DirectionValue(history, d)
        Ones(k) == Cardinality({i \in DOMAIN plan : Bit(Value(plan[i]), k) = 1})
        Chosen(k) == \/ 2 * Ones(k) > Len(plan)
                     \/ 2 * Ones(k) = Len(plan) /\ Bit(Value(plan[1]), k) = 1
    IN NumberOf(ByteBits, {k \in 0 .. ByteBits - 1 : Chosen(k)})

\* Bit by bit the majority of the plan; direction 0 breaks a tie.
Predict(history, plan) ==
    LET Value(d) == DirectionValue(history, d)
        Ones(k) == Cardinality({i \in DOMAIN plan : Bit(Value(plan[i]), k) = 1})
        Chosen(k) == \/ 2 * Ones(k) > Len(plan)
                     \/ 2 * Ones(k) = Len(plan) /\ Bit(Value(0), k) = 1
    IN NumberOf(ByteBits, {k \in 0 .. ByteBits - 1 : Chosen(k)})
-----------------------------------------------------------------------------
(* Cells: adaptive counts of zeros and ones.                               *)

ProbabilityOne(cell) ==
    ClampTo((cell.one * Scale) \div (cell.zero + cell.one), 1, Scale - 1)

CellUpdated(cell, bit) ==
    LET c == IF bit = 0 THEN [cell EXCEPT !.zero = @ + 1] ELSE [cell EXCEPT !.one = @ + 1]
    IN IF c.zero + c.one > CountLimit
         THEN [zero |-> (c.zero + 1) \div 2, one |-> (c.one + 1) \div 2]
         ELSE c

NewCells == [i \in 0 .. Floor - 1 |-> [zero |-> 1, one |-> 1]]

Index(history, predicted, prefix, position) ==
    LET recent == SubSeq(history, ClampTo(Len(history) - 3, 1, Len(history)), Len(history))
    IN Hash(<<seed, predicted, prefix, position, recent>>) % Floor
-----------------------------------------------------------------------------
(* The coder; both directions narrow and double the same interval.         *)

Split(c, one) ==
    LET range == c.high - c.low + 1
    IN c.low + ClampTo((range * (Scale - one)) \div Scale, 1, range - 1) - 1

Narrowed(c, one, bit) ==
    IF bit = 0 THEN [c EXCEPT !.high = Split(c, one)]
               ELSE [c EXCEPT !.low = Split(c, one) + 1]

Straddles(c) == c.low >= Quarter /\ c.low < Half /\ c.high >= Half /\ c.high < 3 * Quarter
Settled(c) == c.low < Half /\ c.high >= Half /\ ~Straddles(c)

\* What one turn of the loop subtracts before it doubles.
Offset(c) == IF c.high < Half THEN 0 ELSE IF c.low >= Half THEN Half ELSE Quarter

Doubled(c) == [c EXCEPT !.low = 2 * (@ - Offset(c)), !.high = 2 * (@ - Offset(c)) + 1]

\* ArithmeticEncoder::emit, with the bits held back.
Emit(c, bit) ==
    [c EXCEPT !.bits = Append(@, bit) \o [i \in 1 .. c.pending |-> 1 - bit],
              !.pending = 0]

EncoderTurn(c) ==
    IF Straddles(c) THEN [Doubled(c) EXCEPT !.pending = @ + 1]
                    ELSE Emit(Doubled(c), IF c.high < Half THEN 0 ELSE 1)

\* BitReader::read: zeros past the end.
ReadBit(position) == IF position <= Len(payload) THEN payload[position] ELSE 0

\* Mutant: the code is not moved down with its interval.
DecoderTurnUnmoved(c) ==
    [Doubled(c) EXCEPT !.code = 2 * (@ - (IF Straddles(c) THEN 0 ELSE Offset(c)))
                                  + ReadBit(c.position),
                       !.position = @ + 1]

DecoderTurn(c) ==
    [Doubled(c) EXCEPT !.code = 2 * (@ - Offset(c)) + ReadBit(c.position),
                       !.position = @ + 1]

\* The loop of encode, respectively decode, runs until the interval is settled;
\* as every turn doubles it, that takes no more turns than the register has bits.
EncoderSettled(c) ==
    LET After[n \in 0 .. RegisterBits] ==
            IF n = 0 THEN c
            ELSE LET d == After[n - 1] IN IF Settled(d) THEN d ELSE EncoderTurn(d)
    IN After[RegisterBits]

DecoderSettled(c) ==
    LET After[n \in 0 .. RegisterBits] ==
            IF n = 0 THEN c
            ELSE LET d == After[n - 1] IN IF Settled(d) THEN d ELSE DecoderTurn(d)
    IN After[RegisterBits]

NewEncoder == [low |-> 0, high |-> Top, pending |-> 0, bits |-> <<>>]

\* Mutant: nothing is held back for the last bit, so it does not fix the interval.
FinishedShort(c) ==
    LET bits == Emit(c, IF c.low < Quarter THEN 0 ELSE 1).bits
    IN bits \o [i \in 1 .. (-Len(bits)) % ByteBits |-> 0]

\* ArithmeticEncoder::finish, then BitWriter::finish.
Finished(c) ==
    LET bits == Emit([c EXCEPT !.pending = @ + 1], IF c.low < Quarter THEN 0 ELSE 1).bits
    IN bits \o [i \in 1 .. (-Len(bits)) % ByteBits |-> 0]

NewDecoder(bits) ==
    [low |-> 0, high |-> Top, position |-> RegisterBits + 1,
     code |-> NumberOf(RegisterBits,
                       {k \in 0 .. RegisterBits - 1 :
                           RegisterBits - k <= Len(bits) /\ bits[RegisterBits - k] = 1})]
-----------------------------------------------------------------------------
(* Payloads: a turn of the byte loop on either side.                       *)

Fresh(coder) == [coder |-> coder, cells |-> NewCells, history |-> <<>>]

\* The reset lane starts its model and its history afresh.
Reset(l, s, count) ==
    IF l = "Reset" /\ count # 0 /\ count % ResetInterval = 0
      THEN Fresh(s.coder)
      ELSE s

\* The loop over the bits of a residual, the highest first; cells learn at once.
EncodedBits(t, history, predicted, residual) ==
    LET After[n \in 0 .. ByteBits] ==
            IF n = 0 THEN t
            ELSE LET s == After[n - 1]
                     bit == Bit(residual, ByteBits - n)
                     prefix == residual \div 2 ^ (ByteBits + 1 - n)
                     i == Index(history, predicted, prefix, n)
                     narrowed == Narrowed(s.coder, ProbabilityOne(s.cells[i]), bit)
                 IN [coder |-> EncoderSettled(narrowed),
                     cells |-> [s.cells EXCEPT ![i] = CellUpdated(@, bit)]]
    IN After[ByteBits]

\* The same loop of the decoder; the residual so far is the prefix.
DecodedBits(t, history, predicted) ==
    LET After[n \in 0 .. ByteBits] ==
            IF n = 0 THEN t
            ELSE LET s == After[n - 1]
                     i == Index(history, predicted, s.residual, n)
                     one == ProbabilityOne(s.cells[i])
                     bit == IF s.coder.code <= Split(s.coder, one) THEN 0 ELSE 1
                 IN [coder |-> DecoderSettled(Narrowed(s.coder, one, bit)),
                     cells |-> [s.cells EXCEPT ![i] = CellUpdated(@, bit)],
                     residual |-> 2 * s.residual + bit]
    IN After[ByteBits]

ByteEncoded(l, s0, byte, count) ==
    LET s == Reset(l, s0, count)
        predicted == Predict(s.history, DirectionPlan(l))
        coded == EncodedBits([coder |-> s.coder, cells |-> s.cells],
                             s.history, predicted, Xor(byte, predicted))
    IN [coder |-> coded.coder, cells |-> coded.cells, history |-> Append(s.history, byte)]

ByteDecoded(l, s0, count) ==
    LET s == Reset(l, s0, count)
        predicted == Predict(s.history, DirectionPlan(l))
        coded == DecodedBits([coder |-> s.coder, cells |-> s.cells, residual |-> 0],
                             s.history, predicted)
    IN [coder |-> coded.coder, cells |-> coded.cells,
        history |-> Append(s.history, Xor(coded.residual, predicted))]
-----------------------------------------------------------------------------
Init ==
    /\ pc = "encode"
    /\ seed \in Seeds
    /\ requested \in Requested
    /\ draws \in {d \in [1 .. MaxDirections - 1 -> 0 .. MaxDirections - 1] :
                    \A i \in DOMAIN d : d[i] <= i}
    /\ source = <<>>
    /\ enc = [l \in Lanes |-> Fresh(NewEncoder)]
    /\ lane = "Unique" /\ payload = <<>> /\ length = 0
    /\ dec = Fresh(NewDecoder(<<>>))
    /\ output = <<>>

EncodeByte(byte) ==
    /\ pc = "encode"
    /\ Len(source) < MaxBytes
    /\ source' = Append(source, byte)
    /\ enc' = [l \in Lanes |-> ByteEncoded(l, enc[l], byte, Len(source))]
    /\ UNCHANGED <<pc, header, lane, payload, length, dec, output>>

\* An empty input has an empty payload.
Payload(l) == IF source = <<>> THEN <<>> ELSE Finished(enc[l].coder)

\* decode_payload is handed the bits and the length; it looks at both first.
Start(l, bits, n) ==
    /\ pc = "encode"
    /\ lane' = l /\ payload' = bits /\ length' = n
    /\ pc' = IF (n = 0) # (bits = <<>>) THEN "rejected" ELSE "decode"
    /\ dec' = Fresh(NewDecoder(bits))
    /\ UNCHANGED <<header, source, enc, output>>

Deliver == \E l \in Lanes : Start(l, Payload(l), Len(source))

\* What was encoded does not matter to the decoder of another payload.
DeliverForeign ==
    /\ source = <<>>
    /\ \E l \in Lanes, bits \in Foreign, n \in 0 .. MaxBytes : Start(l, bits, n)

DecodeByte ==
    /\ pc = "decode"
    /\ Len(output) < length
    /\ dec' = ByteDecoded(lane, dec, Len(output))
    /\ output' = Append(output, dec'.history[Len(dec'.history)])
    /\ UNCHANGED <<pc, header, source, enc, lane, payload, length>>

DecodeEnd ==
    /\ pc = "decode"
    /\ Len(output) = length
    /\ pc' = "done"
    /\ UNCHANGED <<header, source, enc, lane, payload, length, dec, output>>

Encode == \E byte \in Bytes : EncodeByte(byte)

Next == Deliver \/ DeliverForeign \/ Encode \/ DecodeByte \/ DecodeEnd

Spec == Init /\ [][Next]_vars
-----------------------------------------------------------------------------
(* Properties.                                                             *)

\* Whatever the payload, the window stays inside the decoder's interval, so
\* none of its unsigned subtractions wraps, and on both sides the interval is
\* wider than a quarter between bits, so clamp(1, range - 1) never sees an
\* empty range (it would panic) and never moves a split.
CoderStaysInRange ==
    /\ \A l \in Lanes : enc[l].coder.high - enc[l].coder.low >= Quarter
    /\ dec.coder.low <= dec.coder.code /\ dec.coder.code <= dec.coder.high
    /\ dec.coder.high <= Top /\ dec.coder.high - dec.coder.low >= Quarter

\* Repeating one direction, and permuting the directions, is bookkeeping
\* only: the payload is the baseline's, respectively the unique lane's, byte
\* for byte (the two controls the lanes are for, and what the tests assert of
\* one input).
ControlsAddNothing ==
    /\ Payload("DuplicateSharedState") = Payload("Baseline")
    /\ Payload("BookkeepingPermutation") = Payload("Unique")

Honest == payload = Payload(lane) /\ length = Len(source)

\* The payload of every lane is an exact-replay channel of bytes: what is
\* decoded is at every moment a prefix of the input, and at the end all of it.
Replay == INSTANCE ExactReplay WITH
    Symbols <- Bytes,
    sealed <- pc # "encode",
    replayed <- IF Honest THEN output ELSE <<>>

ImplementsExactReplay ==
    /\ Replay!Spec
    /\ [](Honest => pc # "rejected" /\ (pc = "done" => output = source))
=============================================================================
