-------------------------- MODULE ArithmeticCoder --------------------------
(***************************************************************************)
(* The binary arithmetic coder of Path 3 (omega_path123.rs, from           *)
(* ARITH_TOTAL to the end of ArithmeticDecoder): the encoder narrows an    *)
(* interval per bit and renormalises it one shift at a time, holding back  *)
(* "follow" bits while the interval straddles the middle; the decoder runs *)
(* the same narrowing on a window of the code.  Encoding ends (finish)     *)
(* before decoding starts.  Which bit and which probability come next is   *)
(* the caller's choice: both sides are handed the same probability for the *)
(* same bit (PathThree shows that its predictors guarantee that).          *)
(***************************************************************************)
EXTENDS Integers, Sequences

CONSTANTS
    Quarter,        \* ARITH_FIRST_QUARTER (2^30 in the code)
    Total,          \* ARITH_TOTAL, the denominator of a probability (2^15)
    Probabilities,  \* the zero probabilities the callers hand to the coder
    ByteBits,       \* bits the writer packs together (8)
    MaxBits         \* bound: bits in a message

\* 2 ^ n, for the code register: ARITH_HALF and its fractions are powers of two.
Power[n \in Nat] == IF n = 0 THEN 1 ELSE 2 * Power[n - 1]

ASSUME CoderAssumption ==
    /\ Quarter \in Nat \ {0} /\ \E n \in 0 .. Quarter : Quarter = Power[n]
    /\ Total \in Nat \ {0}
    /\ Total <= Quarter
    /\ Probabilities \subseteq 1 .. Total - 1
    /\ ByteBits \in Nat \ {0}
    /\ MaxBits \in Nat

Half == 2 * Quarter
ThirdQuarter == 3 * Quarter
Top == 4 * Quarter - 1

Bits == {0, 1}

SentRecord == [bit : Bits, p0 : Probabilities, low : 0 .. Top, high : 0 .. Top]

VARIABLES
    pc,         \* encode, emit, load, decode, shift, done or error
    sent,       \* history: bit, probability and interval of each encode_bit
    low, high,  \* the encoder's interval
    follow,     \* bits held back until the interval leaves the middle
    out,        \* the bits written
    dlow, dhigh,\* the decoder's interval
    value,      \* the decoder's window of the code
    position,   \* bits the reader has handed out
    unread,     \* 2 ^ (bits still to load into the fresh window)
    decoded     \* the bits decoded

encoder == <<sent, low, high, follow, out>>
decoder == <<dlow, dhigh, value, position, unread, decoded>>
vars == <<pc, sent, low, high, follow, out,
          dlow, dhigh, value, position, unread, decoded>>

Init ==
    /\ pc = "encode"
    /\ sent = <<>>
    /\ low = 0 /\ high = Top
    /\ follow = 0
    /\ out = <<>>
    /\ dlow = 0 /\ dhigh = Top
    /\ value = 0
    /\ position = 0
    /\ unread = Top + 1
    /\ decoded = <<>>
-----------------------------------------------------------------------------
(* Narrowing, the same expressions on both sides.                          *)

ZeroRange(lo, hi, p0) == ((hi - lo + 1) * p0) \div Total

Split(lo, hi, p0) == lo + ZeroRange(lo, hi, p0) - 1

Degenerate(lo, hi, p0) ==
    \/ ZeroRange(lo, hi, p0) = 0
    \/ ZeroRange(lo, hi, p0) >= hi - lo + 1

InOpenInterval(p0) == p0 \in 1 .. Total - 1

(* Renormalisation: the three ways an interval can be doubled.             *)

InLowerHalf(lo, hi) == hi < Half
InUpperHalf(lo, hi) == hi >= Half /\ lo >= Half
\* Mutant: the underflow case is forgotten.
StraddlesNever(lo, hi) == FALSE

Straddles(lo, hi) == hi >= Half /\ lo < Half /\ lo >= Quarter /\ hi < ThirdQuarter
Settled(lo, hi) ==
    ~InLowerHalf(lo, hi) /\ ~InUpperHalf(lo, hi) /\ ~Straddles(lo, hi)
-----------------------------------------------------------------------------
(* The encoder.                                                            *)

Repeat(bit, n) == [i \in 1 .. n |-> bit]

\* output_with_follow: the bit, then the opposite bit for each one held back.
WithFollow(bit, n) == Append(out, bit) \o Repeat(1 - bit, n)

\* BitWriter::finish pads the last byte with zero bits.
Padding(n) == Repeat(0, (ByteBits - (n % ByteBits)) % ByteBits)

EncodeBit(bit, p0) ==
    /\ pc = "encode"
    /\ Len(sent) < MaxBits
    /\ sent' = Append(sent, [bit |-> bit, p0 |-> p0, low |-> low, high |-> high])
    /\ IF ~InOpenInterval(p0) \/ Degenerate(low, high, p0)
         THEN pc' = "error" /\ UNCHANGED <<low, high>>
         ELSE /\ pc' = "emit"
              /\ low' = IF bit = 0 THEN low ELSE Split(low, high, p0) + 1
              /\ high' = IF bit = 0 THEN Split(low, high, p0) ELSE high
    /\ UNCHANGED <<follow, out, decoder>>

EmitLower ==
    /\ pc = "emit"
    /\ InLowerHalf(low, high)
    /\ out' = WithFollow(0, follow)
    /\ follow' = 0
    /\ low' = 2 * low
    /\ high' = 2 * high + 1
    /\ UNCHANGED <<pc, sent, decoder>>

EmitUpper ==
    /\ pc = "emit"
    /\ InUpperHalf(low, high)
    /\ out' = WithFollow(1, follow)
    /\ follow' = 0
    /\ low' = 2 * (low - Half)
    /\ high' = 2 * (high - Half) + 1
    /\ UNCHANGED <<pc, sent, decoder>>

HoldBack ==
    /\ pc = "emit"
    /\ Straddles(low, high)
    /\ follow' = follow + 1
    /\ low' = 2 * (low - Quarter)
    /\ high' = 2 * (high - Quarter) + 1
    /\ UNCHANGED <<pc, sent, out, decoder>>

EmitSettled ==
    /\ pc = "emit"
    /\ Settled(low, high)
    /\ pc' = "encode"
    /\ UNCHANGED <<encoder, decoder>>

\* Mutant: the code ends on the lower quarter whatever the interval.
FinalBitZero(lo) == 0

FinalBit(lo) == IF lo < Quarter THEN 0 ELSE 1

Finish ==
    /\ pc = "encode"
    /\ LET code == WithFollow(FinalBit(low), follow + 1)
       IN out' = code \o Padding(Len(code))
    /\ follow' = 0
    /\ pc' = "load"
    /\ UNCHANGED <<sent, low, high, decoder>>
-----------------------------------------------------------------------------
(* The decoder.                                                            *)

\* BitReader::read_or_zero: past the end of the code every bit is zero.
BitAt(i) == IF i < Len(out) THEN out[i + 1] ELSE 0

ReadOrZero == BitAt(position)

\* One turn of the loop in ArithmeticDecoder::new.
Load ==
    /\ pc = "load"
    /\ unread > 1
    /\ value' = 2 * value + ReadOrZero
    /\ position' = position + 1
    /\ unread' = unread \div 2
    /\ UNCHANGED <<pc, encoder, dlow, dhigh, decoded>>

Loaded ==
    /\ pc = "load"
    /\ unread <= 1
    /\ pc' = "decode"
    /\ UNCHANGED <<encoder, decoder>>

DecodeBit ==
    /\ pc = "decode"
    /\ Len(decoded) < Len(sent)
    /\ LET p0 == sent[Len(decoded) + 1].p0
           split == Split(dlow, dhigh, p0)
           bit == IF value <= split THEN 0 ELSE 1
       IN IF \/ ~InOpenInterval(p0)
             \/ value < dlow \/ value > dhigh
             \/ Degenerate(dlow, dhigh, p0)
            THEN pc' = "error" /\ UNCHANGED <<dlow, dhigh, decoded>>
            ELSE /\ pc' = "shift"
                 /\ dlow' = IF bit = 0 THEN dlow ELSE split + 1
                 /\ dhigh' = IF bit = 0 THEN split ELSE dhigh
                 /\ decoded' = Append(decoded, bit)
    /\ UNCHANGED <<encoder, value, position, unread>>

\* Mutant: the decoder's upper bound is shifted without its one bit.
ShiftByEven(offset) ==
    /\ dlow' = 2 * (dlow - offset)
    /\ dhigh' = 2 * (dhigh - offset)
    /\ value' = 2 * (value - offset) + ReadOrZero
    /\ position' = position + 1
    /\ UNCHANGED <<pc, encoder, unread, decoded>>

\* One doubling of the decoder's interval and window, moved down by offset.
ShiftBy(offset) ==
    /\ dlow' = 2 * (dlow - offset)
    /\ dhigh' = 2 * (dhigh - offset) + 1
    /\ value' = 2 * (value - offset) + ReadOrZero
    /\ position' = position + 1
    /\ UNCHANGED <<pc, encoder, unread, decoded>>

ShiftLower == pc = "shift" /\ InLowerHalf(dlow, dhigh) /\ ShiftBy(0)
ShiftUpper == pc = "shift" /\ InUpperHalf(dlow, dhigh) /\ ShiftBy(Half)
ShiftMiddle == pc = "shift" /\ Straddles(dlow, dhigh) /\ ShiftBy(Quarter)

ShiftSettled ==
    /\ pc = "shift"
    /\ Settled(dlow, dhigh)
    /\ pc' = "decode"
    /\ UNCHANGED <<encoder, decoder>>

Exhausted ==
    /\ pc = "decode"
    /\ Len(decoded) = Len(sent)
    /\ pc' = "done"
    /\ UNCHANGED <<encoder, decoder>>
-----------------------------------------------------------------------------
Encode ==
    \/ \E bit \in Bits, p0 \in Probabilities : EncodeBit(bit, p0)
    \/ EmitLower \/ EmitUpper \/ HoldBack \/ EmitSettled
    \/ Finish

Decode ==
    \/ Load \/ Loaded
    \/ DecodeBit
    \/ ShiftLower \/ ShiftUpper \/ ShiftMiddle \/ ShiftSettled
    \/ Exhausted

Next == Encode \/ Decode

Spec == Init /\ [][Next]_vars

\* A sequential program that was called runs until it returns.
FairSpec == Spec /\ WF_vars(Next)
-----------------------------------------------------------------------------
(* Properties.                                                             *)

\* Every register and history variable has its type; both intervals lie
\* inside the 32-bit code range (omega_path123.rs:898-1031).
TypeOK ==
    /\ pc \in {"encode", "emit", "load", "decode", "shift", "done", "error"}
    /\ sent \in Seq(SentRecord)
    /\ low \in 0 .. Top /\ high \in 0 .. Top
    /\ follow \in Nat
    /\ out \in Seq(Bits)
    /\ dlow \in 0 .. Top /\ dhigh \in 0 .. Top
    /\ value \in 0 .. Top
    /\ position \in Nat
    /\ unread \in Nat
    /\ decoded \in Seq(Bits)

\* None of the ArithmeticState errors can be reached by a caller whose
\* probabilities are in the open interval: neither coder's interval ever
\* becomes too narrow to split and the window never leaves the decoder's.
NoCoderError == pc # "error"

SentBits == [i \in 1 .. Len(sent) |-> sent[i].bit]

\* Between two bits the decoder's interval is the interval the encoder had
\* before the same bit: the two sides renormalise in step.
DecoderMirrorsEncoder ==
    pc = "decode" /\ Len(decoded) < Len(sent) =>
        /\ dlow = sent[Len(decoded) + 1].low
        /\ dhigh = sent[Len(decoded) + 1].high

\* The coder as an exact-replay channel of bits.
Replay == INSTANCE ExactReplay WITH
    Symbols <- Bits,
    source <- SentBits,
    sealed <- pc \in {"load", "decode", "shift", "done"},
    replayed <- decoded

ImplementsExactReplay == Replay!FairSpec
=============================================================================
