--------------------------- MODULE HyperPathThree ---------------------------
(***************************************************************************)
(* The Path 3 hook of the hyper codec (omega_hyper_codec_v0.rs): forty     *)
(* experts look at the last symbols through the forty catalog operators,   *)
(* vote with their weights for the next one, and what is written is the    *)
(* fixed-width residual of the vote.  Bytes have ByteBits bits and symbols *)
(* Bits, so symbols straddle bytes and the last one is filled up.          *)
(***************************************************************************)
EXTENDS OperatorCatalog

CONSTANTS
    Bits, Step,          \* the floor: 6, 2 to 12, 16
    ByteBits,            \* 8
    Window,              \* symbols the experts look at (20)
    ResetInterval,       \* symbols between resets of the reset control (256)
    MaxWeight,           \* of an expert (32767)
    Draw(_, _),          \* operator, nonce: the hash a codebook is read from
    Swap(_, _, _),       \* position, length, index: the place the shuffle swaps index with
    Controls,
    Inputs,              \* the byte strings that are encoded
    MaxBytes,            \* bound: bytes of a string
    ForeignBytes,        \* bytes of the longest foreign output
    ForeignCounts        \* symbols and body bytes foreign payloads claim

VARIABLES
    pc,         \* encode, decode, done or rejected
    control,
    input,      \* what was encoded
    payload,    \* symbol count, length and bits of the body
    length,     \* decoded length, from the stage header
    dec,        \* bank and history of the decoder
    symbols,    \* decoded so far
    output      \* the decoded bytes

vars == <<pc, control, input, payload, length, dec, symbols, output>>

Size == 2 ^ Bits
Ceiling(a, b) == (a + b - 1) \div b
-----------------------------------------------------------------------------
(* Bits, bytes and symbols.                                                *)

BitString(values, width) ==
    [p \in 1 .. width * Len(values) |->
        (values[((p - 1) \div width) + 1] \div 2 ^ (width - 1 - ((p - 1) % width))) % 2]

\* The n-th value of so many bits; zeros past the end.
ValueAt(bits, n, width) ==
    LET Bit(p) == IF p <= Len(bits) THEN bits[p] ELSE 0
        V[k \in 0 .. width] == IF k = 0 THEN 0 ELSE (2 * V[k - 1]) + Bit((n * width) + k)
    IN V[width]

BytesToSymbols(bytes) ==
    LET bits == BitString(bytes, ByteBits)
    IN [n \in 1 .. Ceiling(Len(bits), Bits) |-> ValueAt(bits, n - 1, Bits)]

SymbolsToBytes(values, n) ==
    LET bits == BitString(values, Bits)
    IN [k \in 1 .. n |-> ValueAt(bits, k - 1, ByteBits)]

\* Mutant: what fills up the last symbol is not looked at.
TailIsZeroUnread(values, n) == Len(values) * Bits - n * ByteBits < Bits

TailIsZero(values, n) ==
    /\ Len(values) * Bits - n * ByteBits < Bits
    /\ \A p \in n * ByteBits + 1 .. Len(values) * Bits : BitString(values, Bits)[p] = 0

RemainderBits == CHOOSE k \in 0 .. Bits : Step = 2 ^ k

WriteValue(value, width) == [k \in 1 .. width |-> (value \div 2 ^ (width - k)) % 2]

ResidualBits(residual) ==
    WriteValue(residual \div Step, Bits - RemainderBits)
        \o WriteValue(residual % Step, RemainderBits)

\* Every residual that can be read is below Size, and its remainder below Step.
ReadResidual(n) == ValueAt(payload.body, n, Bits)

\* FixedBitWriter::finish.
Padded(bits) == bits \o [i \in 1 .. (-Len(bits)) % ByteBits |-> 0]
-----------------------------------------------------------------------------
(* The experts.                                                            *)

Book(operator, nonce) ==
    LET draw == Draw(operator, nonce)
    IN [multiplier |-> (draw[1] - (draw[1] % 2) + 1) % Size, offset |-> draw[2] % Size]

Books == Seq([multiplier : Nat, offset : Nat])

\* derive_codebooks: draw again until the book is new.
Derived[operator \in 0 .. 40, nonce \in Nat, books \in Books] ==
    IF operator = 40 THEN books
    ELSE LET book == Book(operator, nonce)
         IN IF \E i \in DOMAIN books : books[i] = book
              THEN Derived[operator, nonce + 1, books]
              ELSE Derived[operator + 1, 0, Append(books, book)]

Codebooks == Derived[0, 0, <<>>]

\* The symbols a string can have are at these places.
Positions == 0 .. Ceiling(MaxBytes * ByteBits, Bits) - 1

ASSUME HookAssumption ==
    /\ Bits \in Nat \ {0} /\ ByteBits \in Nat \ {0} /\ \E k \in 0 .. Bits : Step = 2 ^ k
    /\ Window \in 1 .. 20 /\ ResetInterval \in Nat \ {0} /\ MaxWeight \in Nat \ {0}
    /\ MaxBytes \in Nat /\ ForeignBytes \in 0 .. MaxBytes /\ ForeignCounts \subseteq Nat
    /\ \A bytes \in Inputs : bytes \in Seq(0 .. 2 ^ ByteBits - 1) /\ Len(bytes) <= MaxBytes
    /\ \A position \in Positions, n \in 1 .. Window : \A index \in 1 .. n - 1 :
          Swap(position, n, index) \in 0 .. index
    \* forty different books are found before the nonces run out
    /\ Codebooks \in [1 .. 40 -> [multiplier : Nat, offset : Nat]]

AffineEncode(value, operator) ==
    (value * Codebooks[operator + 1].multiplier + Codebooks[operator + 1].offset) % Size

\* ExpertBank::new.
NewBank == [operator \in Operators |-> [weight |-> 1, hits |-> 0, seen |-> 0]]

Effective(c) == IF c = "DuplicateSharedState" THEN {0} ELSE Operators

\* deterministic_shuffle, from the last place down.
Shuffled(values, position) ==
    LET After[n \in 0 .. Len(values) - 1] ==
            IF n = 0 THEN values
            ELSE LET v == After[n - 1]
                     i == Len(values) - n
                     j == Swap(position, Len(values), i)
                 IN [v EXCEPT ![i + 1] = v[j + 1], ![j + 1] = v[i + 1]]
    IN After[Len(values) - 1]

Base(c, history, position) ==
    LET n == Len(history)
        base == SubSeq(history, IF n > Window THEN n - Window + 1 ELSE 1, n)
    IN IF c = "ShufflePriorHistory" THEN Shuffled(base, position) ELSE base

\* Nothing is known of the first symbol; an expert that is not asked says zero.
Candidates(c, history, position) ==
    IF history = <<>> THEN [operator \in Operators |-> 0]
    ELSE LET base == Base(c, history, position)
         IN [operator \in Operators |->
                IF operator \in Effective(c)
                  THEN AffineEncode(CanonicalWindow(operator, Bits, base)
                                        [((position + operator) % Len(base)) + 1], operator)
                  ELSE 0]

Summed(f) == LET S[n \in 0 .. 40] == IF n = 0 THEN 0 ELSE S[n - 1] + f[n - 1] IN S[40]

\* The rounded weighted mean.
Prediction(c, bank, candidates) ==
    LET weight == [operator \in Operators |->
                      IF operator \in Effective(c) THEN bank[operator].weight ELSE 0]
        sum == Summed([operator \in Operators |-> weight[operator] * candidates[operator]])
        total == Summed(weight)
    IN ((sum + (total \div 2)) \div total) % Size

Updated(c, bank, candidates, actual) ==
    [operator \in Operators |->
        LET e == bank[operator]
            up == IF e.weight + 3 > MaxWeight THEN MaxWeight ELSE e.weight + 3
            down == IF e.weight > 2 THEN e.weight - 1 ELSE 1
        IN IF operator \notin Effective(c) THEN e
           ELSE IF candidates[operator] = actual
             THEN [weight |-> up, hits |-> e.hits + 1, seen |-> e.seen + 1]
             ELSE [weight |-> down, hits |-> e.hits, seen |-> e.seen + 1]]

Fresh == [bank |-> NewBank, history |-> <<>>]

Reset(c, s, position) ==
    IF c = "Reset" /\ position # 0 /\ position % ResetInterval = 0 THEN Fresh ELSE s

\* The two halves of a turn: reset and predict, then learn the symbol.
Ask(c, s0, position) ==
    LET s == Reset(c, s0, position)
        candidates == Candidates(c, s.history, position)
    IN [bank |-> s.bank, history |-> s.history, candidates |-> candidates,
        prediction |-> IF s.history = <<>> THEN 0 ELSE Prediction(c, s.bank, candidates)]

Learn(c, asked, actual) ==
    [bank |-> Updated(c, asked.bank, asked.candidates, actual),
     history |-> Append(asked.history, actual)]
-----------------------------------------------------------------------------
(* p3_encode, and the replay of the experts that derive_floor_omega signs. *)

Encoded(c, values) ==
    LET After[n \in 0 .. Len(values)] ==
            IF n = 0 THEN [state |-> Fresh, bits |-> <<>>]
            ELSE LET s == After[n - 1]
                     asked == Ask(c, s.state, n - 1)
                 IN [state |-> Learn(c, asked, values[n]),
                     bits |-> s.bits \o ResidualBits((values[n] - asked.prediction) % Size)]
    IN After[Len(values)].bits

P3Encode(c, bytes) ==
    LET values == BytesToSymbols(bytes)
    IN [symbols |-> Len(values), bytes |-> Ceiling(Len(values) * Bits, ByteBits),
        body |-> Padded(Encoded(c, values))]

\* Mutant: the replay does not know of the control.
ReplayExpertStateOn(c, values) ==
    LET Replayed[position \in 0 .. Len(values)] ==
            IF position = 0 THEN Fresh
            ELSE LET asked == Ask("Persistent", Replayed[position - 1], position - 1)
                 IN Learn("Persistent", asked, values[position])
    IN Replayed[Len(values)].bank

ReplayExpertState(c, values) ==
    LET Replayed[position \in 0 .. Len(values)] ==
            IF position = 0 THEN Fresh
            ELSE LET asked == Ask(c, Replayed[position - 1], position - 1)
                 IN Learn(c, asked, values[position])
    IN Replayed[Len(values)].bank
-----------------------------------------------------------------------------
Init ==
    /\ pc = "encode"
    /\ control \in Controls
    /\ input \in Inputs
    /\ payload = [symbols |-> 0, bytes |-> 0, body |-> <<>>]
    /\ length = 0
    /\ dec = Fresh
    /\ symbols = <<>> /\ output = <<>>

\* p3_decode is handed a payload and the length of the decoded bytes, and looks
\* at the counts and at the length of the body first.
Start(p, n) ==
    /\ pc = "encode"
    /\ payload' = p /\ length' = n
    /\ pc' = IF /\ p.bytes * ByteBits = Len(p.body)
                /\ p.symbols = Ceiling(n * ByteBits, Bits)
                /\ p.bytes = Ceiling(p.symbols * Bits, ByteBits)
               THEN "decode" ELSE "rejected"
    /\ UNCHANGED <<control, input, dec, symbols, output>>

Deliver == Start(P3Encode(control, input), Len(input))

\* What was encoded does not matter to the decoder of another payload.
DeliverForeign ==
    /\ input = <<>>
    /\ \E n \in 0 .. ForeignBytes, count, bytes \in ForeignCounts :
          \E body \in [1 .. ByteBits * bytes -> {0, 1}] :
             Start([symbols |-> count, bytes |-> bytes, body |-> body], n)

\* Mutant: the decoder learns from its prediction.
DecodeSymbolBlind ==
    /\ pc = "decode" /\ Len(symbols) < payload.symbols
    /\ LET asked == Ask(control, dec, Len(symbols))
           actual == (asked.prediction + ReadResidual(Len(symbols))) % Size
       IN /\ dec' = Learn(control, asked, asked.prediction)
          /\ symbols' = Append(symbols, actual)
    /\ UNCHANGED <<pc, control, input, payload, length, output>>

DecodeSymbol ==
    /\ pc = "decode" /\ Len(symbols) < payload.symbols
    /\ LET asked == Ask(control, dec, Len(symbols))
           actual == (asked.prediction + ReadResidual(Len(symbols))) % Size
       IN /\ dec' = Learn(control, asked, actual)
          /\ symbols' = Append(symbols, actual)
    /\ UNCHANGED <<pc, control, input, payload, length, output>>

\* validate_zero_padding and symbols_to_bytes.
DecodeEnd ==
    /\ pc = "decode" /\ Len(symbols) = payload.symbols
    /\ IF /\ \A p \in Len(symbols) * Bits + 1 .. Len(payload.body) : payload.body[p] = 0
          /\ TailIsZero(symbols, length)
         THEN pc' = "done" /\ output' = SymbolsToBytes(symbols, length)
         ELSE pc' = "rejected" /\ output' = output
    /\ UNCHANGED <<control, input, payload, length, dec, symbols>>

Next == Deliver \/ DeliverForeign \/ DecodeSymbol \/ DecodeEnd

Spec == Init /\ [][Next]_vars
-----------------------------------------------------------------------------
(* Properties.                                                             *)

\* What was encoded is restored, under every control: the decoder votes as the
\* encoder did, across resets, windows, capped weights and straddled bytes.
HonestIsRestored ==
    payload = P3Encode(control, input) /\ length = Len(input) =>
        /\ pc # "rejected"
        /\ pc = "done" => output = input

\* No second payload decodes to the same bytes: what is accepted is what
\* encoding the output gives.
OnlyCanonicalIsAccepted == pc = "done" => payload = P3Encode(control, output)

\* The expert state a floor's Omega signs, replayed from the decoded bytes, is
\* the state the decoder finished with.
OmegaSignsTheCodersState ==
    pc = "done" => ReplayExpertState(control, BytesToSymbols(output)) = dec.bank
=============================================================================
