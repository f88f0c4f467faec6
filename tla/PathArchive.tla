----------------------------- MODULE PathArchive -----------------------------
(***************************************************************************)
(* The archive of Path123 (omega_path123.rs, LanguageMap, encode_p123 to   *)
(* decode_p123): a forced mode chooses which of the layers a string goes   *)
(* through, language map, Path 1, packing into symbols, Path 2, Path 3,    *)
(* and a header keeps what the decoder needs to take them off again.       *)
(* Values are tagged records that know their size (bytes, or symbols).     *)
(* What a layer does is the business of PathOne, PathTwo, PathThree and    *)
(* ArithmeticCoder: here it has a key, a code is taken off by the layer of *)
(* its key and its size, and any other layer or size makes some other      *)
(* value of it.                                                            *)
(***************************************************************************)
EXTENDS Integers, Sequences

CONSTANTS
    Originals,      \* inputs, as [name, size, repeats]: whether Path 1 finds a match
    FloorBits,      \* widths callers ask for, known (6, 8, 10, 12) or not
    Seeds, Lanes, P1Modes, PipelineModes,
    Charges,        \* sums of the external charges
    MaxU64          \* the largest charge

ASSUME ArchiveAssumption ==
    /\ FloorBits \subseteq Nat \ {0}
    /\ MaxU64 \in Nat /\ Charges \subseteq 0 .. MaxU64
    /\ \A s \in Originals : s.size \in Nat /\ s.repeats \in BOOLEAN
    /\ P1Modes \subseteq {"Auto", "LiteralOnly", "RequireMatch"}
    /\ PipelineModes \subseteq {"Path1Only", "Path2Only", "Path3Only", "P123"}

VARIABLES
    stage,      \* encode, decode, done, rejected (by decode_p123) or refused (by encode_p123)
    foreign,    \* whether another program wrote the archive
    config, input,
    archive,    \* header and payload
    value,      \* the payload, then what is left when layers are taken off
    layers,     \* layers still to take off, the innermost first
    tokenStyle, \* the style of the Path 1 tokens met
    spelling    \* the spelling of the Path 3 payload met

archiveVars == <<stage, foreign, config, input, archive, value, layers, tokenStyle, spelling>>

Sha(v) == [tag |-> "sha", of |-> v]
\* The empty value, of every layer but Path 3.
Nothing == [tag |-> "nothing", size |-> 0, repeats |-> FALSE]
Plain(source) ==
    IF source.size = 0 THEN Nothing
    ELSE [tag |-> "bytes", name |-> source.name, size |-> source.size,
          repeats |-> source.repeats]
Ceiling(a, b) == (a + b - 1) \div b
FloorSymbols(bytes, bits) == Ceiling(8 * bytes.size, bits)
ValidBits == {6, 8, 10, 12}
-----------------------------------------------------------------------------
(* Layers.                                                                 *)

Layers(mode) ==
    CASE mode = "Path1Only" -> <<"map", "p1">>
      [] mode = "Path2Only" -> <<"map", "pack", "crt">>
      [] mode = "Path3Only" -> <<"map", "pack", "p3">>
      [] mode = "P123" -> <<"map", "p1", "pack", "crt", "p3">>

\* What a layer's code depends on beside the value: the seed of the language
\* map, the choice of tokens, the width, and what Path 3 is told.
Key(layer, c, style) ==
    [layer |-> layer,
     with |-> CASE layer = "map" -> <<c.seed>>
                [] layer = "p1" -> <<style>>
                [] layer \in {"pack", "crt"} -> <<c.bits>>
                [] layer = "p3" -> <<c.bits, c.seed, c.lane>>]

\* Literals take two bytes each, matches fewer.
CodeSize(layer, c, style, v) ==
    CASE layer = "p1" -> IF style = "literals" THEN 2 * v.size ELSE v.size + 1
      [] layer = "pack" -> FloorSymbols(v, c.bits)
      [] layer = "p3" -> v.size + 1
      [] OTHER -> v.size

\* A Path 3 payload has several spellings, and without symbols any payload is one.
Usual == [tag |-> "usual"]
Longer == [tag |-> "longer"]

Fold(layer, c, style, spelled, v) ==
    LET key == Key(layer, c, style)
    IN CASE v.tag = "unfolded" /\ v.key = key -> v.code
         [] v = Nothing /\ layer # "p3" -> Nothing
         [] v = Nothing /\ layer = "p3" /\ spelled \notin {Usual, Longer} -> spelled
         [] OTHER -> [tag |-> "code", key |-> IF v = Nothing THEN [layer |-> "p3"] ELSE key,
                      of |-> v, size |-> CodeSize(layer, c, style, v), repeats |-> v.repeats,
                      spelling |-> IF layer = "p3" THEN spelled ELSE Usual]

Unfold(layer, c, style, code, size) ==
    CASE size = 0 -> Nothing
      [] size > 0 /\ code.tag = "code" /\ code.key = Key(layer, c, style) /\ code.of.size = size ->
            code.of
      [] OTHER -> [tag |-> "unfolded", key |-> Key(layer, c, style), code |-> code,
                   size |-> size, repeats |-> code.repeats]

\* encode_path1: literals where nothing repeats, or nothing else is allowed.
Style(c, v) == IF c.p1 = "LiteralOnly" \/ ~v.repeats THEN "literals" ELSE "greedy"

\* The values a string passes through, from itself to the payload.
Folded(c, style, spelled, v) ==
    LET Through[k \in 0 .. Len(Layers(c.mode))] ==
            IF k = 0 THEN v ELSE Fold(Layers(c.mode)[k], c, style, spelled, Through[k - 1])
    IN [k \in 0 .. Len(Layers(c.mode)) |-> Through[k]]

\* The code a layer of the pipeline wrote, if it is part of it.
SizeAfter(c, values, layer) ==
    IF \E k \in DOMAIN Layers(c.mode) : Layers(c.mode)[k] = layer
      THEN values[CHOOSE k \in DOMAIN Layers(c.mode) : Layers(c.mode)[k] = layer].size
      ELSE 0

\* Mutant: the residues of P123 are not counted as two symbols each.
Path3SymbolsOnce(c, values) ==
    IF c.mode \in {"Path3Only", "P123"} THEN SizeAfter(c, values, "pack") ELSE 0

Path3Symbols(c, values) ==
    CASE c.mode = "P123" -> 2 * SizeAfter(c, values, "pack")
      [] c.mode = "Path3Only" -> SizeAfter(c, values, "pack")
      [] OTHER -> 0

\* The body of encode_p123.
Encoded(c, style, spelled, v) ==
    LET values == Folded(c, style, spelled, v)
        payload == values[Len(Layers(c.mode))]
    IN [mode |-> c.mode, bits |-> c.bits, lane |-> c.lane, p1 |-> c.p1, seed |-> c.seed,
        originalLen |-> v.size, path1Len |-> SizeAfter(c, values, "p1"),
        floorSymbols |-> SizeAfter(c, values, "pack"), path3Symbols |-> Path3Symbols(c, values),
        originalSha |-> Sha(v), payloadSha |-> Sha(payload), payload |-> payload]

\* The charges are added up when the archive is there: it is not handed out if
\* the sum overflows.
Encodable(c, v) ==
    /\ c.bits \in ValidBits
    /\ c.mode \in {"Path2Only", "Path3Only"} => c.p1 = "Auto"
    /\ c.p1 = "RequireMatch" => v.repeats
    /\ Encoded(c, Style(c, v), Usual, v).payload.size + c.charges <= MaxU64
-----------------------------------------------------------------------------
(* Headers.                                                                *)

\* Mutant: the length of a Path 1 stream that is not there is not looked at.
HeaderInvariantsLoose(h) ==
    CASE h.mode = "Path1Only" ->
            h.path1Len = h.payload.size /\ h.floorSymbols = 0 /\ h.path3Symbols = 0
      [] h.mode = "Path2Only" -> h.path3Symbols = 0 /\ h.p1 = "Auto"
      [] h.mode = "Path3Only" -> h.path3Symbols = h.floorSymbols /\ h.p1 = "Auto"
      [] h.mode = "P123" -> h.path3Symbols = 2 * h.floorSymbols

HeaderInvariants(h) ==
    CASE h.mode = "Path1Only" ->
            h.path1Len = h.payload.size /\ h.floorSymbols = 0 /\ h.path3Symbols = 0
      [] h.mode = "Path2Only" -> h.path1Len = 0 /\ h.path3Symbols = 0 /\ h.p1 = "Auto"
      [] h.mode = "Path3Only" ->
            h.path1Len = 0 /\ h.path3Symbols = h.floorSymbols /\ h.p1 = "Auto"
      [] h.mode = "P123" -> h.path3Symbols = 2 * h.floorSymbols

\* parse_header and the digest of the payload.
Parses(h) == h.bits \in ValidBits /\ Sha(h.payload) = h.payloadSha

\* The length a layer is taken off to.  Mapping keeps the length.
SizeBefore(h, layer) ==
    CASE layer \in {"p3", "crt"} -> h.floorSymbols
      [] layer = "pack" -> IF h.mode = "P123" THEN h.path1Len ELSE h.originalLen
      [] OTHER -> h.originalLen

\* What a layer demands of the value it is taken off: deserialize_crt of Path 2
\* alone that there are as many residues, unpack_symbols_to_bytes that the
\* length needs as many symbols, validate_path1_mode the tokens of the mode.
Demands(h, layer, v, style) ==
    /\ layer = "crt" => v.size = h.floorSymbols
    /\ layer = "pack" => v.size = Ceiling(8 * SizeBefore(h, layer), h.bits)
    /\ layer = "p1" => /\ (v = Nothing) = (h.originalLen = 0)
                       /\ h.p1 = "LiteralOnly" => style = "literals"
                       /\ h.p1 = "RequireMatch" => style # "literals"
-----------------------------------------------------------------------------
ArchiveInit ==
    /\ stage = "encode"
    /\ foreign = FALSE
    /\ config \in [mode : PipelineModes, bits : FloorBits, lane : Lanes, p1 : P1Modes,
                   seed : Seeds, charges : Charges]
    /\ \E s \in Originals : input = Plain(s)
    /\ archive = Sha(input) /\ value = input
    /\ layers = <<>>
    /\ tokenStyle = "literals" /\ spelling = Usual

HandArchive(a) ==
    /\ archive' = a /\ value' = a.payload
    /\ layers' = Layers(a.mode)
    /\ stage' = IF Parses(a) /\ HeaderInvariants(a) THEN "decode" ELSE "rejected"
    /\ UNCHANGED <<config, input, tokenStyle, spelling>>

Encode ==
    /\ stage = "encode"
    /\ Encodable(config, input)
    /\ foreign' = FALSE
    /\ HandArchive(Encoded(config, Style(config, input), Usual, input))

Refuse ==
    /\ stage = "encode"
    /\ ~Encodable(config, input)
    /\ stage' = "refused"
    /\ UNCHANGED <<foreign, config, input, archive, value, layers, tokenStyle, spelling>>

\* Another program's archive: other tokens, another spelling, or a field that
\* is not what encode_p123 writes there (its digests are taken as it is).
Edited(a) ==
    {[a EXCEPT !.mode = m] : m \in PipelineModes}
    \cup {[a EXCEPT !.bits = b] : b \in FloorBits}
    \cup {[a EXCEPT !.lane = l] : l \in Lanes}
    \cup {[a EXCEPT !.p1 = p] : p \in P1Modes}
    \cup {[a EXCEPT !.seed = s] : s \in Seeds}
    \cup {[a EXCEPT !.originalLen = @ + 1], [a EXCEPT !.path1Len = @ + 1],
          [a EXCEPT !.floorSymbols = @ + 1], [a EXCEPT !.path3Symbols = @ + 1],
          [a EXCEPT !.originalSha = Sha(a.payload)]}
    \cup {[a EXCEPT !.payload = p, !.payloadSha = Sha(p)] :
              p \in {Encoded(a, "literals", Usual, Plain(s)).payload : s \in Originals}}

EncodeForeign ==
    /\ stage = "encode"
    /\ config.bits \in ValidBits
    /\ foreign' = TRUE
    /\ \E style \in IF input.repeats THEN {"literals", "greedy", "other"} ELSE {"literals"},
          spelled \in {Usual, Longer} :
          \E a \in Edited(Encoded(config, style, spelled, input)) :
             \/ HandArchive(a)
             \/ \E b \in Edited(a) : HandArchive(b)

\* decode_p123 takes the layers off, the last one first; a stream that is not
\* the code of Path 1 is read as tokens of some kind.
StyleOf(v) ==
    CASE v = Nothing -> "literals"
      [] v.tag = "code" /\ v.key.layer = "p1" -> v.key.with[1]
      [] OTHER -> "other"

TakeOff ==
    /\ stage = "decode" /\ layers # <<>>
    /\ LET layer == layers[Len(layers)]
           style == StyleOf(value)
       IN IF Demands(archive, layer, value, style)
            THEN /\ value' = Unfold(layer, archive, style, value, SizeBefore(archive, layer))
                 /\ layers' = SubSeq(layers, 1, Len(layers) - 1)
                 /\ tokenStyle' = IF layer = "p1" THEN style ELSE tokenStyle
                 /\ spelling' = CASE layer # "p3" -> spelling
                                  [] layer = "p3" /\ archive.floorSymbols = 0 -> value
                                  [] OTHER -> IF value.tag = "code" THEN value.spelling ELSE Usual
                 /\ UNCHANGED stage
            ELSE stage' = "rejected" /\ UNCHANGED <<value, layers, tokenStyle, spelling>>
    /\ UNCHANGED <<foreign, config, input, archive>>

CheckOriginal ==
    /\ stage = "decode" /\ layers = <<>>
    /\ stage' = IF value.size = archive.originalLen /\ Sha(value) = archive.originalSha
                  THEN "done" ELSE "rejected"
    /\ UNCHANGED <<foreign, config, input, archive, value, layers, tokenStyle, spelling>>

ArchiveNext == Encode \/ Refuse \/ EncodeForeign \/ TakeOff \/ CheckOriginal

ArchiveSpec == ArchiveInit /\ [][ArchiveNext]_archiveVars
-----------------------------------------------------------------------------
(* Properties.                                                             *)

\* Whatever encode_p123 hands out, in every mode, decodes to the input.
HandedOutIsRestored ==
    ~foreign => /\ stage # "rejected"
                /\ stage = "done" => value = input

\* An archive that is accepted is, but for the choice of Path 1 tokens and the
\* spelling of the Path 3 payload, what encode_p123 makes of the output under
\* the configuration in the header: no other field can say anything else.  The
\* tokens are of a kind that a caller of the Path 1 mode in the header is given.
AcceptedAsEncoded ==
    stage = "done" =>
        /\ archive = Encoded(archive, tokenStyle, spelling, value)
        /\ archive.p1 = "LiteralOnly" => tokenStyle = "literals"
        /\ archive.p1 = "RequireMatch" => tokenStyle # "literals"
=============================================================================
