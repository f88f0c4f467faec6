----------------------------- MODULE PathThree -----------------------------
(***************************************************************************)
(* Path 3 of omega_path123.rs: operator experts predict each symbol from   *)
(* the symbols before it, an online mixer turns their votes into a         *)
(* consensus bit and the probability that the consensus is right, and the  *)
(* difference between bit and consensus goes to the arithmetic coder.  The *)
(* decoder repeats the predictions from what it has decoded.  The mixer    *)
(* learns only after the last bit of a symbol, on both sides.              *)
(*                                                                         *)
(* The coder is the channel ArithmeticCoder proves it to be: a bit comes   *)
(* out as it went in as long as every probability so far was the           *)
(* encoder's; after a different one any bit may come out.  A symbol is the *)
(* sequence of its bits, first the most significant.                       *)
(***************************************************************************)
EXTENDS Integers, Sequences, FiniteSets, Functions

CONSTANTS
    Experts,            \* the operator slots (PATH3_EXPERTS, 40)
    Expert(_, _, _),    \* what a slot predicts, from the retained window and
                        \* the number of symbols (expert_predicted_symbols)
    FloorBits,          \* bits of a symbol (6, 8, 10 or 12)
    Window,             \* PATH3_HISTORY
    InitialWeight, WeightLimit, Rate,   \* of OnlineMixer: 32, 512, 2
    Even, Gain, Ceiling,    \* probability scale: 16384, 12000, 31744
    Sources             \* the symbol streams to encode

Bits == {0, 1}
Symbols == [1 .. FloorBits -> Bits]
Weights == -WeightLimit .. WeightLimit

ASSUME PathThreeAssumption ==
    /\ IsFiniteSet(Experts)
    /\ FloorBits \in Nat \ {0} /\ FloorBits % 2 = 0
    /\ Window \in Nat \ {0}
    /\ WeightLimit \in Nat /\ InitialWeight \in Weights /\ Rate \in Nat
    /\ Even \in Nat \ {0} /\ Gain \in Nat
    /\ Ceiling \in Even .. 2 * Even - 1
    /\ Sources \subseteq Seq(Symbols)

VARIABLES
    pass,       \* encode, decode, done or error
    pc,         \* symbol, bit or learn: where the pass is in its loop
    source,     \* the encoder's input
    retained,   \* symbols coded so far in this pass
    weights,    \* the mixer
    predicted,  \* what each expert predicts for this symbol
    consensus,  \* the consensus bits of this symbol
    residual,   \* its residual bits (z)
    updates,    \* predictions and actual bit of each of its bits
    channel,    \* history: probability and bit of each encode_bit
    taken,      \* bits the decoder has taken from the coder
    inStep      \* every decode_bit so far had the encoder's probability

vars == <<pass, pc, source, retained, weights, predicted, consensus,
          residual, updates, channel, taken, inStep>>

NewMixer == [e \in Experts |-> InitialWeight]

Unpredicted == [e \in Experts |-> <<>>]

Init ==
    /\ pass = "encode" /\ pc = "symbol"
    /\ source \in Sources
    /\ retained = <<>>
    /\ weights = NewMixer
    /\ predicted = Unpredicted
    /\ consensus = <<>> /\ residual = <<>> /\ updates = <<>>
    /\ channel = <<>> /\ taken = 0 /\ inStep = TRUE
-----------------------------------------------------------------------------
(* OnlineMixer.                                                            *)

Xor(a, b) == IF a = b THEN 0 ELSE 1

Abs(n) == IF n < 0 THEN -n ELSE n

Vote(votes) ==
    SumFunction([e \in Experts |-> IF votes[e] = 0 THEN weights[e] ELSE -weights[e]])

Normalization == SumFunction([e \in Experts |-> Abs(weights[e])])

\* Mutant: the sign of the vote is kept.
ConfidenceSigned(votes) ==
    IF Normalization = 0 THEN 0 ELSE (Vote(votes) * Gain) \div Normalization

Confidence(votes) ==
    IF Normalization = 0 THEN 0 ELSE (Abs(Vote(votes)) * Gain) \div Normalization

Consensus(votes) == IF Vote(votes) >= 0 THEN 0 ELSE 1

ZeroProbability(votes) ==
    IF Even + Confidence(votes) > Ceiling THEN Ceiling ELSE Even + Confidence(votes)

Clamp(w) ==
    IF w > WeightLimit THEN WeightLimit
    ELSE IF w < -WeightLimit THEN -WeightLimit ELSE w

Learned(votes, actual) ==
    [e \in Experts |->
        Clamp(IF votes[e] = actual THEN weights[e] + Rate ELSE weights[e] - Rate)]
-----------------------------------------------------------------------------
Running == pass \in {"encode", "decode"}

\* The last Window symbols of the history.
Recent(s) == IF Len(s) <= Window THEN s ELSE SubSeq(s, Len(s) - Window + 1, Len(s))

\* The experts see the symbols coded so far and nothing else.
BeginSymbol ==
    /\ Running /\ pc = "symbol"
    /\ Len(retained) < Len(source)
    /\ predicted' = [e \in Experts |-> Expert(e, Recent(retained), Len(retained))]
    /\ consensus' = <<>> /\ residual' = <<>> /\ updates' = <<>>
    /\ pc' = "bit"
    /\ UNCHANGED <<pass, source, retained, weights, channel, taken, inStep>>

Votes == [e \in Experts |-> predicted[e][Len(updates) + 1]]

\* The part of a bit's turn both passes share: z is the residual bit.
CodeBit(z) ==
    /\ consensus' = Append(consensus, Consensus(Votes))
    /\ residual' = Append(residual, z)
    /\ updates' = Append(updates, [votes |-> Votes, actual |-> Xor(z, Consensus(Votes))])
    /\ UNCHANGED <<pass, pc, source, retained, weights, predicted>>

\* Mutant: the encoder's mixer learns within the symbol.
EncodeBitLearning ==
    /\ pass = "encode" /\ pc = "bit"
    /\ Len(updates) < FloorBits
    /\ LET actual == source[Len(retained) + 1][Len(updates) + 1]
           z == Xor(actual, Consensus(Votes))
       IN /\ channel' = Append(channel, [z |-> z, p0 |-> ZeroProbability(Votes)])
          /\ consensus' = Append(consensus, Consensus(Votes))
          /\ residual' = Append(residual, z)
          /\ updates' = Append(updates, [votes |-> Votes, actual |-> actual])
          /\ weights' = Learned(Votes, actual)
    /\ UNCHANGED <<pass, pc, source, retained, predicted, taken, inStep>>

EncodeBit ==
    /\ pass = "encode" /\ pc = "bit"
    /\ Len(updates) < FloorBits
    /\ LET actual == source[Len(retained) + 1][Len(updates) + 1]
           z == Xor(actual, Consensus(Votes))
       IN /\ channel' = Append(channel, [z |-> z, p0 |-> ZeroProbability(Votes)])
          /\ CodeBit(z)
    /\ UNCHANGED <<taken, inStep>>

\* decode_bit under the probability p0: what ArithmeticCoder promises.
ChannelBits(p0) ==
    IF inStep /\ taken < Len(channel) /\ channel[taken + 1].p0 = p0
      THEN {channel[taken + 1].z}
      ELSE Bits

DecodeBit ==
    /\ pass = "decode" /\ pc = "bit"
    /\ Len(updates) < FloorBits
    /\ \E z \in ChannelBits(ZeroProbability(Votes)) : CodeBit(z)
    /\ taken' = taken + 1
    /\ inStep' = (/\ inStep /\ taken < Len(channel)
                  /\ channel[taken + 1].p0 = ZeroProbability(Votes))
    /\ UNCHANGED channel

Actual == [i \in 1 .. FloorBits |-> updates[i].actual]

\* split_null_residual and restore_null_residual: z cut in the high half q
\* and the low half r, and put together again over the consensus.
Quotient(z) == SubSeq(z, 1, FloorBits \div 2)
Remainder(z) == SubSeq(z, FloorBits \div 2 + 1, FloorBits)
Restored == LET z == Quotient(residual) \o Remainder(residual)
            IN [i \in 1 .. FloorBits |-> Xor(consensus[i], z[i])]

CloseSymbol ==
    /\ pc = "bit"
    /\ Len(updates) = FloorBits
    /\ IF Restored = Actual
         THEN pc' = "learn" /\ UNCHANGED pass
         ELSE pass' = "error" /\ UNCHANGED pc
    /\ UNCHANGED <<source, retained, weights, predicted, consensus, residual,
                   updates, channel, taken, inStep>>

\* The deferred updates, one turn of their loop; the last pushes the symbol.
Learn ==
    /\ pc = "learn"
    /\ updates # <<>>
    /\ weights' = Learned(Head(updates).votes, Head(updates).actual)
    /\ updates' = Tail(updates)
    /\ UNCHANGED <<pass, pc, source, retained, predicted, consensus, residual,
                   channel, taken, inStep>>

\* CloseSymbol has checked that Restored is the encoder's symbol
PushSymbol ==
    /\ pc = "learn"
    /\ updates = <<>>
    /\ retained' = Append(retained, Restored)
    /\ pc' = "symbol"
    /\ UNCHANGED <<pass, source, weights, predicted, consensus, residual,
                   updates, channel, taken, inStep>>

\* The encoder returns; the decoder starts with a mixer of its own.
StartDecode ==
    /\ pass = "encode" /\ pc = "symbol"
    /\ Len(retained) = Len(source)
    /\ pass' = "decode"
    /\ retained' = <<>>
    /\ weights' = NewMixer
    /\ UNCHANGED <<pc, source, predicted, consensus, residual, updates,
                   channel, taken, inStep>>

\* Mutant: the decoder stops one symbol early.
EndDecodeShort ==
    /\ pass = "decode" /\ pc = "symbol"
    /\ Len(retained) >= Len(source) - 1
    /\ pass' = "done"
    /\ UNCHANGED <<pc, source, retained, weights, predicted, consensus,
                   residual, updates, channel, taken, inStep>>

EndDecode ==
    /\ pass = "decode" /\ pc = "symbol"
    /\ Len(retained) = Len(source)
    /\ pass' = "done"
    /\ UNCHANGED <<pc, source, retained, weights, predicted, consensus,
                   residual, updates, channel, taken, inStep>>

Next ==
    \/ BeginSymbol \/ EncodeBit \/ DecodeBit
    \/ CloseSymbol \/ Learn \/ PushSymbol
    \/ StartDecode \/ EndDecode

Spec == Init /\ [][Next]_vars

\* A called function runs until it returns.
FairSpec == Spec /\ WF_vars(Next)
-----------------------------------------------------------------------------
(* Properties.                                                             *)

\* Every probability handed to the coder lies where ArithmeticCoder needs
\* it, strictly between 0 and the scale, and the consensus is never the less
\* likely bit; the upper clamp of residual_zero_probability never bites.
ProbabilitiesAreUsable ==
    \A k \in 1 .. Len(channel) :
        /\ channel[k].p0 \in Even .. 2 * Even - 1
        /\ channel[k].p0 <= Even + Gain

\* The decoder asks for every bit under the probability it was encoded with.
DecoderInStep == inStep

\* Path 3 as an exact-replay channel of symbols.
Replay == INSTANCE ExactReplay WITH
    source <- IF pass = "encode" THEN SubSeq(source, 1, Len(retained)) ELSE source,
    sealed <- pass # "encode",
    replayed <- IF pass = "encode" THEN <<>> ELSE retained

ImplementsExactReplay == Replay!FairSpec
=============================================================================
