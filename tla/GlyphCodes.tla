----------------------------- MODULE GlyphCodes -----------------------------
(***************************************************************************)
(* glyph_program.py as functions of their arguments: LZW over an alphabet  *)
(* and a capacity, and codes packed into bytes; and what acer_glyph_codec  *)
(* makes of a residual with two levels of the one and the other.  A        *)
(* function that may raise gives a set, empty when it does.  Module Lzw    *)
(* has the LZW step by step.                                               *)
(***************************************************************************)
EXTENDS Integers, Sequences
LOCAL INSTANCE SequencesExt
LOCAL INSTANCE FiniteSetsExt

CONSTANTS
    ByteBits,           \* bits of a byte (8)
    FirstCapacity,      \* capacity of the first LZW, alphabet of the second (1024)
    SecondCapacity,     \* capacity of the second LZW (4096)
    CodeBits            \* bits of a packed code (12)

ByteValues == 2 ^ ByteBits

-----------------------------------------------------------------------------
(* LZW, of a sequence that is not empty.                                   *)

BaseEntries(alphabet) == [c \in 1 .. alphabet |-> <<c - 1>>]

Inserted(entries, phrase, capacity) ==
    IF Len(entries) < capacity THEN Append(entries, phrase) ELSE entries

CodeIn(entries, phrase) == (CHOOSE c \in DOMAIN entries : entries[c] = phrase) - 1

LzwEncode(symbols, alphabet, capacity) ==
    LET Turn(s, symbol) ==
            LET candidate == Append(s.phrase, symbol)
            IN  IF \E c \in DOMAIN s.entries : s.entries[c] = candidate
                  THEN [s EXCEPT !.phrase = candidate]
                  ELSE [phrase |-> <<symbol>>,
                        codes |-> Append(s.codes, CodeIn(s.entries, s.phrase)),
                        entries |-> Inserted(s.entries, candidate, capacity)]
        end == FoldLeft(Turn, [phrase |-> <<symbols[1]>>, codes |-> <<>>,
                               entries |-> BaseEntries(alphabet)], Tail(symbols))
    IN  [codes |-> Append(end.codes, CodeIn(end.entries, end.phrase)),
         catalog |-> end.entries]

\* Codes up to the next one are legal, the next one while there is room, and
\* no more symbols than asked for.
LzwDecode(codes, alphabet, capacity, most) ==
    LET Named(s, code) ==
            IF code < Len(s.entries) THEN s.entries[code + 1]
                                     ELSE Append(s.previous, s.previous[1])
        Legal(s, code) ==
            /\ code < Len(s.entries) \/ (code = Len(s.entries) /\ code < capacity)
            /\ Len(s.symbols) + Len(Named(s, code)) <= most
        Turn(running, code) ==
            {LET current == Named(s, code)
             IN  [previous |-> current, symbols |-> s.symbols \o current,
                  entries |-> Inserted(s.entries, Append(s.previous, current[1]), capacity)]
               : s \in {t \in running : Legal(t, code)}}
        begun == {[previous |-> <<code>>, symbols |-> <<code>>, entries |-> BaseEntries(alphabet)]
                    : code \in {codes[1]} \cap 0 .. alphabet - 1}
    IN  {[symbols |-> s.symbols, catalog |-> s.entries]
           : s \in FoldLeft(Turn, {s \in begun : most > 0}, Tail(codes))}

-----------------------------------------------------------------------------
(* Codes in bytes.                                                         *)

\* n numbers of so many bits with the bits of s, numbers of `width` bits, the
\* highest first and zeros after the last.
Regrouped(s, width, bits, n) ==
    LET Bit(i) == IF i < Len(s) * width
                    THEN (s[(i \div width) + 1] \div 2 ^ ((width - 1) - (i % width))) % 2
                    ELSE 0
        Value(k) == MapThenSumSet(LAMBDA j : Bit((k - 1) * bits + j) * 2 ^ ((bits - 1) - j),
                                  0 .. bits - 1)
    IN  [k \in 1 .. n |-> Value(k)]

BytesFor(count) == (count * CodeBits + ByteBits - 1) \div ByteBits

PackCodes(codes) == Regrouped(codes, CodeBits, ByteBits, BytesFor(Len(codes)))

\* The right length, and padding of zeros.
UnpackCodes(payload, count) ==
    {codes \in {Regrouped(payload, ByteBits, CodeBits, count)} :
        /\ Len(payload) = BytesFor(count)
        /\ payload[Len(payload)] % 2 ^ (ByteBits * Len(payload) - CodeBits * count) = 0}

-----------------------------------------------------------------------------
(* Two levels.                                                             *)

\* What encode_with_report makes of a residual
GlyphOf(residual) ==
    LET first == LzwEncode(residual, ByteValues, FirstCapacity)
        second == LzwEncode(first.codes, FirstCapacity, SecondCapacity)
    IN  [counts |-> <<Len(first.codes), Len(second.codes)>>,
         body |-> PackCodes(second.codes),
         catalogs |-> <<first.catalog, second.catalog>>]

\* What decode_with_report makes of a body under the two counts of a record
\* and the length of its block: at most one list of symbols
ResidualsOf(body, counts, rawLen) ==
    UNION {
      UNION {{[residual |-> first.symbols, catalogs |-> <<first.catalog, second.catalog>>]
                : first \in LzwDecode(second.symbols, ByteValues, FirstCapacity, rawLen)}
        : second \in {s \in LzwDecode(codes, FirstCapacity, SecondCapacity, counts[1]) :
                        Len(s.symbols) = counts[1]}}
      : codes \in UnpackCodes(body, counts[2])}
=============================================================================
