------------------------------ MODULE PathOne ------------------------------
(***************************************************************************)
(* Path 1 of omega_path123.rs: encode_path1 replaces what the retained     *)
(* output already holds by matches, the tokens are written as bytes, and   *)
(* the decoder parses them, checks them against the mode of the archive    *)
(* and copies matches byte by byte, so that a match may read what it has   *)
(* itself just written.  Parser and decoder check the same limits twice.   *)
(* The decoder is given the encoder's bytes or one of Streams;             *)
(* decode_path1, which is public, may also be handed tokens directly.      *)
(***************************************************************************)
EXTENDS Integers, Sequences

CONSTANTS
    Base,           \* number of byte values (256)
    Window,         \* PATH1_WINDOW
    MinMatch,       \* PATH1_MIN_MATCH
    MaxMatch,       \* PATH1_MAX_MATCH
    Modes,          \* the P1Mode values in use
    Sources,        \* inputs of encode_path1
    Streams,        \* byte streams a decoder may meet besides the honest one
    Probes,         \* the inputs in whose place a decoder meets them
    TokenLists,     \* tokens decode_path1 may be handed without the parser
    Lengths         \* expected_len that comes with one of either

Bytes == 0 .. Base - 1
Words == 0 .. Base * Base - 1       \* numbers of two bytes

Literal(b) == [match |-> FALSE, byte |-> b, distance |-> 0, length |-> 1]
Match(d, n) == [match |-> TRUE, byte |-> 0, distance |-> d, length |-> n]

Tokens == {Literal(b) : b \in Bytes} \cup {Match(d, n) : d, n \in Words}

\* A distance and a length are written as two bytes each.
ASSUME PathOneAssumption ==
    /\ Base \in Nat /\ Base > 1
    /\ Window \in Words \ {0}
    /\ MinMatch \in Words \ {0} /\ MaxMatch \in Words /\ MinMatch <= MaxMatch
    /\ Modes \subseteq {"auto", "literals", "require"}
    /\ Sources \subseteq Seq(Bytes) /\ Streams \subseteq Seq(Bytes)
    /\ TokenLists \subseteq Seq(Tokens) /\ Lengths \subseteq Nat

VARIABLES
    pc,         \* encode, refused, deliver, parse, validate, decode, done,
                \* and where a stream was rejected: badstream, badmode, badtoken
    mode,       \* P1Mode of the archive
    source,     \* the encoder's input
    position,   \* bytes of it that are encoded
    sent,       \* the tokens of the encoder
    wire,       \* serialize_path1 of them
    stream,     \* the bytes handed to the decoder
    expected,   \* expected_len
    cursor,     \* bytes of the stream that are parsed
    produced,   \* output the parsed tokens stand for
    tokens,     \* the parsed tokens
    decoded,    \* how many of them decode_path1 has finished
    copied,     \* bytes copied for the match at hand
    output      \* what decode_path1 has restored

encoder == <<mode, source, position, sent, wire>>
parser == <<stream, expected, cursor, produced, tokens>>
restorer == <<decoded, copied, output>>
vars == <<pc, encoder, parser, restorer>>

Init ==
    /\ pc = "encode"
    /\ mode \in Modes /\ source \in Sources
    /\ position = 0 /\ sent = <<>> /\ wire = <<>>
    /\ stream = <<>> /\ expected = 0
    /\ cursor = 0 /\ produced = 0 /\ tokens = <<>>
    /\ decoded = 0 /\ copied = 0 /\ output = <<>>
-----------------------------------------------------------------------------
(* encode_path1 and serialize_path1.                                       *)

Lesser(a, b) == IF a < b THEN a ELSE b

Distances ==
    IF mode = "literals" THEN {} ELSE 1 .. Lesser(position, Window)

\* How far the input repeats at distance d, through what it repeats itself
Repeats(d) ==
    {n \in 0 .. Lesser(MaxMatch, Len(source) - position) :
        \A j \in 1 .. n : source[position + j] = source[(position + j) - d]}

\* The longest match and, among those, the nearest
Best(d, n) ==
    \A e \in Distances : \A k \in Repeats(e) : k < n \/ (k = n /\ d <= e)

Worthwhile(d, n) == Best(d, n) /\ n >= MinMatch

Serialized(t) ==
    IF t.match
      THEN <<1, t.distance % Base, t.distance \div Base,
                t.length % Base, t.length \div Base>>
      ELSE <<0, t.byte>>

Emit(t) ==
    /\ sent' = Append(sent, t)
    /\ wire' = wire \o Serialized(t)
    /\ position' = position + t.length
    /\ UNCHANGED <<pc, mode, source, parser, restorer>>

EncodeMatch ==
    /\ pc = "encode" /\ position < Len(source)
    /\ \E d \in Distances : \E n \in Repeats(d) :
          Worthwhile(d, n) /\ Emit(Match(d, n))

EncodeLiteral ==
    /\ pc = "encode" /\ position < Len(source)
    /\ \A d \in Distances : \A n \in Repeats(d) : ~Worthwhile(d, n)
    /\ Emit(Literal(source[position + 1]))

HasMatch(s) == \E i \in 1 .. Len(s) : s[i].match

EncodeEnd ==
    /\ pc = "encode" /\ position = Len(source)
    /\ pc' = IF mode = "require" /\ ~HasMatch(sent) THEN "refused" ELSE "deliver"
    /\ UNCHANGED <<encoder, parser, restorer>>
-----------------------------------------------------------------------------
(* deserialize_path1 and validate_path1_mode.                              *)

Deliver ==
    /\ pc = "deliver"
    /\ pc' = "parse"
    /\ \/ stream' = wire /\ expected' = Len(source)
       \/ source \in Probes /\ stream' \in Streams /\ expected' \in Lengths
    /\ UNCHANGED <<encoder, cursor, produced, tokens, restorer>>

HandTokens ==
    /\ pc = "deliver"
    /\ source \in Probes
    /\ pc' = "decode"
    /\ tokens' \in TokenLists /\ expected' \in Lengths
    /\ UNCHANGED <<encoder, stream, cursor, produced, restorer>>

\* Mutant: a match may not fill the declared length
LegalBelow(t, count) ==
    /\ t.distance \in 1 .. count
    /\ t.length >= MinMatch
    /\ count + t.length < expected

\* The check both the parser and the decoder make, each on its own count
Legal(t, count) ==
    /\ t.distance \in 1 .. count
    /\ t.length >= MinMatch
    /\ count + t.length <= expected

Has(n) == cursor + n <= Len(stream)
ByteAt(n) == stream[cursor + n]
Word(n) == ByteAt(n) + Base * ByteAt(n + 1)

Parsed(t, size) ==
    /\ tokens' = Append(tokens, t)
    /\ cursor' = cursor + size
    /\ produced' = produced + t.length
    /\ UNCHANGED <<pc, encoder, stream, expected, restorer>>

Parsing == pc = "parse" /\ produced < expected

Tag(k) == Has(1) /\ ByteAt(1) = k

ParseLiteral ==
    /\ Parsing /\ Tag(0) /\ Has(2)
    /\ Parsed(Literal(ByteAt(2)), 2)

\* Mutant: the parser leaves the distance to the decoder
ParseMatchAnywhere ==
    /\ Parsing /\ Tag(1) /\ Has(5)
    /\ Word(4) >= MinMatch /\ produced + Word(4) <= expected
    /\ Parsed(Match(Word(2), Word(4)), 5)

ParseMatch ==
    /\ Parsing /\ Tag(1) /\ Has(5)
    /\ Legal(Match(Word(2), Word(4)), produced)
    /\ Parsed(Match(Word(2), Word(4)), 5)

\* Cut off, no tag, or an illegal match
ParseError ==
    /\ Parsing
    /\ \/ ~Tag(0) /\ ~Tag(1)
       \/ Tag(0) /\ ~Has(2)
       \/ Tag(1) /\ ~Has(5)
       \/ Tag(1) /\ Has(5) /\ ~Legal(Match(Word(2), Word(4)), produced)
    /\ pc' = "badstream"
    /\ UNCHANGED <<encoder, parser, restorer>>

ParseEnd ==
    /\ pc = "parse" /\ produced >= expected
    /\ pc' = IF cursor = Len(stream) THEN "validate" ELSE "badstream"
    /\ UNCHANGED <<encoder, parser, restorer>>

ModeAllows(s) ==
    /\ mode = "literals" => ~HasMatch(s)
    /\ mode = "require" => HasMatch(s)

Validate ==
    /\ pc = "validate"
    /\ pc' = IF ModeAllows(tokens) THEN "decode" ELSE "badmode"
    /\ UNCHANGED <<encoder, parser, restorer>>
-----------------------------------------------------------------------------
(* decode_path1.                                                           *)

Decoding == pc = "decode" /\ decoded < Len(tokens)

Token == tokens[decoded + 1]

DecodeLiteral ==
    /\ Decoding /\ ~Token.match /\ Len(output) < expected
    /\ output' = Append(output, Token.byte)
    /\ decoded' = decoded + 1
    /\ UNCHANGED <<pc, encoder, parser, copied>>

\* One turn of the copy loop; the source moves along with the output
CopyByte ==
    /\ Decoding /\ Token.match
    /\ copied > 0 \/ Legal(Token, Len(output))
    /\ output' = Append(output, output[(Len(output) + 1) - Token.distance])
    /\ IF copied + 1 = Token.length
         THEN copied' = 0 /\ decoded' = decoded + 1
         ELSE copied' = copied + 1 /\ decoded' = decoded
    /\ UNCHANGED <<pc, encoder, parser>>

BadToken ==
    /\ Decoding /\ copied = 0
    /\ IF Token.match THEN ~Legal(Token, Len(output)) ELSE Len(output) >= expected
    /\ pc' = "badtoken"
    /\ UNCHANGED <<encoder, parser, restorer>>

DecodeEnd ==
    /\ pc = "decode" /\ decoded = Len(tokens)
    /\ pc' = IF Len(output) = expected THEN "done" ELSE "badtoken"
    /\ UNCHANGED <<encoder, parser, restorer>>
-----------------------------------------------------------------------------
\* Any other state has a step: neither function gets stuck (deadlock check)
Returned == pc \in {"refused", "done", "badstream", "badmode", "badtoken"}

Next ==
    \/ EncodeMatch \/ EncodeLiteral \/ EncodeEnd
    \/ Deliver \/ HandTokens
    \/ ParseLiteral \/ ParseMatch \/ ParseError \/ ParseEnd \/ Validate
    \/ DecodeLiteral \/ CopyByte \/ BadToken \/ DecodeEnd
    \/ Returned /\ UNCHANGED vars

Spec == Init /\ [][Next]_vars
-----------------------------------------------------------------------------
(* Properties.                                                             *)

\* Tokens the encoder sends fit the window, the match limits and two bytes;
\* no stream makes the decoder produce more than was declared.
TypeOK ==
    /\ pc \in {"encode", "refused", "deliver", "parse", "validate", "decode",
               "done", "badstream", "badmode", "badtoken"}
    /\ mode \in Modes /\ source \in Sources
    /\ position \in 0 .. Len(source)
    /\ \A i \in 1 .. Len(sent) :
          sent[i].match => /\ sent[i].distance \in 1 .. Window
                           /\ sent[i].length \in MinMatch .. MaxMatch
    /\ wire \in Seq(Bytes) /\ stream \in Seq(Bytes)
    /\ cursor \in 0 .. Len(stream)
    /\ produced \in 0 .. expected
    /\ decoded \in 0 .. Len(tokens)
    /\ copied \in Nat
    /\ output \in Seq(Bytes) /\ Len(output) <= expected

Honest == stream = wire /\ expected = Len(source) /\ (cursor > 0 \/ tokens = <<>>)

\* What encode_path1 and serialize_path1 wrote is parsed, passes the check
\* of its own mode and is decoded.
HonestIsAccepted == Honest => pc \notin {"badstream", "badmode", "badtoken"}

\* At every point of decoding the honest stream the output is a prefix of
\* the source, through matches that overlap themselves; at the end it is the
\* source.
OutputIsSource ==
    (Honest /\ pc \in {"decode", "done"}) =>
        /\ output = SubSeq(source, 1, Len(output))
        /\ pc = "done" => output = source

\* Path 1 is reversible: its own stream is accepted and restores the source.
HonestIsRestored == HonestIsAccepted /\ OutputIsSource

\* Parser and decoder agree on every stream: tokens the parser lets through
\* under its own running count are never refused by decode_path1, and fill
\* the declared length exactly.
ParsedIsDecodable == cursor > 0 => pc # "badtoken"

=============================================================================
