---------------------------- MODULE MCAcerGlyph ----------------------------
(***************************************************************************)
(* Two-bit bytes, lags of one and two, all eight views, blocks of one, two *)
(* or six bytes.  The two levels of LZW are those of GlyphCodes, with two  *)
(* free entries each and three-bit codes: six equal bytes of a residual    *)
(* take five bytes.                                                        *)
(***************************************************************************)
EXTENDS AcerGlyph

MCViews == <<[lag |-> 1, anti |-> FALSE, delta |-> FALSE],
             [lag |-> 1, anti |-> FALSE, delta |-> TRUE],
             [lag |-> 1, anti |-> TRUE, delta |-> FALSE],
             [lag |-> 1, anti |-> TRUE, delta |-> TRUE],
             [lag |-> 2, anti |-> FALSE, delta |-> FALSE],
             [lag |-> 2, anti |-> FALSE, delta |-> TRUE],
             [lag |-> 2, anti |-> TRUE, delta |-> FALSE],
             [lag |-> 2, anti |-> TRUE, delta |-> TRUE]>>

MCMirror(b) == 2 * (b % 2) + b \div 2

MCXor(a, b) == 2 * ((a \div 2 + b \div 2) % 2) + ((a + b) % 2)

Codes == INSTANCE GlyphCodes
           WITH ByteBits <- 2, FirstCapacity <- 6, SecondCapacity <- 8, CodeBits <- 3

MCGlyph(residual) == Codes!GlyphOf(residual)
MCUnglyph(body, counts, rawLen) == Codes!ResidualsOf(body, counts, rawLen)
MCPackedLength(count) == Codes!BytesFor(count)

\* Common beginnings, repetitions, short last blocks and the empty source
MCInputs ==
    {<<>>, <<1, 0, 1>>, <<1, 0, 1, 1>>, <<0, 0, 0, 0>>, <<0, 0, 0, 0, 0, 0, 1>>}

\* The spellings with up to three codes in the body, with what they give
MCGlyphs ==
    LET Given(top, c, m) == Codes!ResidualsOf(Codes!PackCodes(top), <<c, Len(top)>>, m)
        Tops == UNION {[1 .. n -> 0 .. 7] : n \in 1 .. 3}
    IN  UNION {{[counts |-> <<c, Len(top)>>, body |-> Codes!PackCodes(top), of |-> d.residual,
                 catalog |-> Catalog(d.catalogs)]
                  : d \in {e \in Given(top, c, m) : Len(e.residual) = m}}
                : top \in Tops, c \in 1 .. 6, m \in 1 .. 6}

Respelled(r, s) ==
    [r EXCEPT !.mode = s.mode, !.counts = s.counts, !.bodyLen = Len(s.body), !.body = s.body,
              !.bodySha = Sha(s.body), !.catalog = s.catalog]

\* The residual of one of the first two records, spelled in any way; and a
\* second record of one byte with another byte in it
MCRespelled(r) ==
    IF r.index > 1 THEN {}
    ELSE {Respelled(r, Raw(ResidualOf(r)))}
         \cup {Respelled(r, [mode |-> "glyph", counts |-> g.counts, body |-> g.body,
                              catalog |-> g.catalog])
                  : g \in {h \in MCGlyphs : h.of = ResidualOf(r)}}
         \cup (IF r.index = 1 /\ r.rawLen = 1
                  THEN {[Respelled(r, Raw(<<b>>)) EXCEPT !.decodedSha = Sha(<<c>>)] : b, c \in Bytes}
                  ELSE {})

MCAlter(r) ==
    MCRespelled(r) \cup
    {r, [r EXCEPT !.index = @ + 1], [r EXCEPT !.rawLen = @ + 1],
     [r EXCEPT !.reserved = 1], [r EXCEPT !.bodyLen = @ + 1],
     [r EXCEPT !.view = (@ % 8) + 1], [r EXCEPT !.counts = <<1, 1>>],
     [r EXCEPT !.catalog = [catalog |-> <<>>]],
     [r EXCEPT !.decodedSha = [sha |-> <<0>>]]}
    \cup {[r EXCEPT !.mode = m] : m \in {"raw", "glyph", "other"}}
    \cup {Respelled(r, [SpellingOf(r) EXCEPT !.body[Len(r.body)] = (@ + 1) % Base]),
           Respelled(r, [SpellingOf(r) EXCEPT !.mode = "glyph", !.counts = <<1, 1>>])}
=============================================================================
