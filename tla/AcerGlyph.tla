----------------------------- MODULE AcerGlyph -----------------------------
(***************************************************************************)
(* acer_glyph_codec.py: encode_with_report cuts a source into blocks,       *)
(* predicts each byte from the bytes before it under a view chosen from    *)
(* the previous block, and chains the block records by their Omega.        *)
(* decode_with_report reads records one by one and has to regenerate each  *)
(* view, prediction and Omega from what it has decoded so far.             *)
(*                                                                         *)
(* Two sources are encoded; the decoder is then given any sequence of      *)
(* records of the two archives, each as it was written or altered, with    *)
(* its old Omega or one recomputed for its new place.  A digest is         *)
(* modelled by the value it digests, tagged: equal only for equal          *)
(* contents.  A body is a sequence of bytes, read in the mode and under    *)
(* the counts its record declares.  What the two levels of LZW make of a   *)
(* residual, and of a body, is a parameter: encoding has to be undone, but *)
(* other bodies may give the same residual (module GlyphCodes).            *)
(***************************************************************************)
EXTENDS Integers, Sequences, FiniteSets

CONSTANTS
    Base,           \* number of byte values (256)
    Views,          \* ALL_VIEW_SELECTORS: a sequence of [lag, anti, delta]
    MaxLag,         \* MAX_PRIME_LAG
    Mirror(_),      \* _reverse_bits
    Xor(_, _),      \* exclusive or of two bytes
    Glyph(_),       \* of a residual: its two code counts, its body, its catalogs
    Unglyph(_, _, _),   \* of a body, two counts and a length: residuals with catalogs
    PackedLength(_),    \* bytes of so many packed codes
    SampleBytes,    \* SCORE_SAMPLE_BYTES
    BlockSizes,     \* block sizes the two calls of encode choose from
    Inputs,         \* the sources they are given
    Caps,           \* values of max_output_bytes
    Alter(_)        \* the records a record may have become on the way

Bytes == 0 .. Base - 1
Archives == 1 .. 2
ViewIds == 1 .. Len(Views)

ASSUME AcerGlyphAssumption ==
    /\ Base \in Nat \ {0} /\ MaxLag \in Nat \ {0}
    /\ Len(Views) \in Nat \ {0} /\ SampleBytes \in Nat \ {0}
    /\ \A v \in ViewIds : Views[v].lag \in 1 .. MaxLag
    /\ \A b, p \in Bytes : Mirror(b) \in Bytes /\ Xor(b, p) \in Bytes
                             /\ Xor(Xor(b, p), p) = b
    /\ \A n \in UNION {1 .. b : b \in BlockSizes} : \A r \in [1 .. n -> Bytes] :
          /\ Glyph(r).counts[1] \in 1 .. n
          /\ Glyph(r).counts[2] \in 1 .. Glyph(r).counts[1]
          /\ Glyph(r).body \in Seq(Bytes)
          /\ Len(Glyph(r).body) = PackedLength(Glyph(r).counts[2])
          /\ Unglyph(Glyph(r).body, Glyph(r).counts, n) =
                {[residual |-> r, catalogs |-> Glyph(r).catalogs]}
    /\ BlockSizes \subseteq Nat \ {0} /\ Inputs \subseteq Seq(Bytes)
    /\ Caps \subseteq Nat

VARIABLES
    phase,          \* encode, read, restore, accepted, rejected or cut
    call,           \* which source is being encoded
    sources, size,  \* arguments of the two calls
    archives,       \* what they wrote
    start,          \* encode: where the next block begins
    prior,          \* Omega of the last record (both functions)
    lastBlock, lastStart,       \* last block and its place (both functions)
    bodyTotal,      \* body bytes so far (both functions)
    cap, header,    \* decode: output limit, header it was given
    offered,        \* decode: the records it has been given
    ending,         \* decode: the footer it was given, if any
    history, block, \* restore_block: its history and what it has restored
    decoded         \* decode: the blocks restored so far

writing == <<call, start>>
reading == <<cap, header, offered, ending, history, block, decoded>>
chain == <<prior, lastBlock, lastStart, bodyTotal>>
acerVars == <<phase, sources, size, archives, writing, chain, reading>>

-----------------------------------------------------------------------------
(* Views and predictions.                                                  *)

Shorter(a, b) == IF a < b THEN a ELSE b

Recent(s) == SubSeq(s, IF Len(s) > MaxLag THEN (Len(s) - MaxLag) + 1 ELSE 1, Len(s))

Before(s, n) == SubSeq(s, IF n > MaxLag THEN (n - MaxLag) + 1 ELSE 1, n)

Predict(seen, v) ==
    LET p == IF Len(seen) >= Views[v].lag
               THEN seen[(Len(seen) - Views[v].lag) + 1] ELSE 0
    IN  IF Views[v].anti THEN Mirror(p) ELSE p

Remember(seen, b) == Recent(Append(seen, b))

Project(b, prefix, v) ==
    [j \in 1 .. Len(b) |->
        LET p == Predict(Recent(Recent(prefix) \o SubSeq(b, 1, j - 1)), v)
        IN  IF Views[v].delta THEN (b[j] - p) % Base ELSE Xor(b[j], p)]

RestoreByte(r, seen, v) ==
    IF Views[v].delta THEN (r + Predict(seen, v)) % Base
                      ELSE Xor(r, Predict(seen, v))

Score(earlier, last, v) ==
    LET r == Project(SubSeq(last, 1, Shorter(Len(last), SampleBytes)), earlier, v)
    IN  <<Glyph(r).counts[1],
          Cardinality({j \in 1 .. Len(r) : r[j] # 0}),
          Cardinality({j \in 1 .. Len(r) - 1 : r[j] # r[j + 1]}),
          v>>

Better(s, t) ==
    \E i \in 1 .. Len(s) : s[i] < t[i] /\ \A j \in 1 .. i - 1 : s[j] = t[j]

SelectView(earlier, last) ==
    IF last = <<>> THEN 1
    ELSE LET score == [v \in ViewIds |-> Score(earlier, last, v)]
         IN  CHOOSE v \in ViewIds :
                \A w \in ViewIds \ {v} : Better(score[v], score[w])

-----------------------------------------------------------------------------
(* Records and their Omega.                                                *)

Sha(x) == [sha |-> x]
Genesis(blockSize) == [genesis |-> blockSize]
RawCatalog == [catalog |-> <<>>]
Catalog(catalogs) == [catalog |-> catalogs]

\* Mutant: a record's Omega does not take up the one before
OmegaUnchained(last, r) ==
    [index |-> r.index, rawLen |-> r.rawLen, mode |-> r.mode, view |-> r.view,
     counts |-> r.counts, bodyLen |-> r.bodyLen, decodedSha |-> r.decodedSha,
     bodySha |-> r.bodySha, catalog |-> r.catalog]

Omega(last, r) ==
    [prior |-> last, index |-> r.index, rawLen |-> r.rawLen, mode |-> r.mode,
     view |-> r.view, counts |-> r.counts, bodyLen |-> r.bodyLen,
     decodedSha |-> r.decodedSha, bodySha |-> r.bodySha, catalog |-> r.catalog]

Sealed(last, r) == [r EXCEPT !.omega = Omega(last, r)]

\* How a residual is spelled: a mode, two counts, a body and a catalog digest
Raw(residual) == [mode |-> "raw", counts |-> <<0, 0>>, body |-> residual, catalog |-> RawCatalog]

Coded(residual) ==
    [mode |-> "glyph", counts |-> Glyph(residual).counts, body |-> Glyph(residual).body,
     catalog |-> Catalog(Glyph(residual).catalogs)]

Spelled(residual) ==
    IF Len(Glyph(residual).body) < Len(residual) THEN Coded(residual) ELSE Raw(residual)

Record(index, b, v, spelling, last) ==
    Sealed(last,
      [index |-> index, rawLen |-> Len(b), mode |-> spelling.mode, view |-> v,
       reserved |-> 0, counts |-> spelling.counts, bodyLen |-> Len(spelling.body),
       decodedSha |-> Sha(b), bodySha |-> Sha(spelling.body),
       catalog |-> spelling.catalog, body |-> spelling.body, omega |-> <<>>])

-----------------------------------------------------------------------------
(* encode_with_report.                                                     *)

AcerInit ==
    /\ phase = "encode" /\ call = 1
    /\ sources \in [Archives -> Inputs] /\ size \in [Archives -> BlockSizes]
    /\ archives = [i \in Archives |-> [header |-> <<>>, records |-> <<>>, footer |-> <<>>]]
    /\ start = 0 /\ prior = Genesis(size[1])
    /\ lastBlock = <<>> /\ lastStart = 0 /\ bodyTotal = 0
    /\ cap = 0 /\ header = <<>> /\ offered = <<>> /\ ending = <<>>
    /\ history = <<>> /\ block = <<>> /\ decoded = <<>>

BlockAt(s, at, n) == SubSeq(s, at + 1, Shorter(at + n, Len(s)))

EncodeBlock ==
    /\ phase = "encode" /\ start < Len(sources[call])
    /\ LET s == sources[call]
           b == BlockAt(s, start, size[call])
           v == SelectView(Before(s, lastStart), lastBlock)
           r == Record(Len(archives[call].records), b, v,
                       Spelled(Project(b, Before(s, start), v)), prior)
       IN  /\ archives' = [archives EXCEPT ![call].records = Append(@, r)]
           /\ prior' = r.omega
           /\ bodyTotal' = bodyTotal + r.bodyLen
           /\ lastBlock' = b
    /\ lastStart' = start
    /\ start' = start + size[call]
    /\ UNCHANGED <<phase, call, sources, size, reading>>

Footer(records, bytes, bodies, last) ==
    [count |-> Len(records), length |-> Len(bytes), bodyTotal |-> bodies,
     sourceSha |-> Sha(bytes), omega |-> last]

EncodeFooter ==
    /\ phase = "encode" /\ start >= Len(sources[call])
    /\ archives' = [archives EXCEPT
         ![call].header = <<[blockSize |-> size[call], genesis |-> Genesis(size[call])]>>,
         ![call].footer = <<Footer(archives[call].records, sources[call], bodyTotal, prior)>>]
    /\ phase' = IF call = 1 THEN "encode" ELSE "open"
    /\ call' = 2 /\ start' = 0 /\ prior' = Genesis(size[2])
    /\ lastBlock' = <<>> /\ lastStart' = 0 /\ bodyTotal' = 0
    /\ UNCHANGED <<sources, size, reading>>

-----------------------------------------------------------------------------
(* What the decoder is given.                                              *)

Written == UNION {{archives[i].records[n] : n \in DOMAIN archives[i].records} : i \in Archives}

Fields == {"index", "rawLen", "mode", "view", "reserved", "counts", "bodyLen",
           "decodedSha", "bodySha", "catalog", "body", "omega"}

IsRecord(q) == q = [f \in Fields |-> q[f]]

\* What the unpacking of a record leaves: every field, and a body of bytes
Readable(q) == IsRecord(q) /\ q.body \in Seq(Bytes)

Offer ==
    LET arriving == {q \in UNION {Alter(r) : r \in Written} : Readable(q)}
    IN  UNION {{q, Sealed(prior, q)} : q \in arriving}

\* A header of its own size, or of the one with the other's commitment
Headers == {[blockSize |-> size[i], genesis |-> Genesis(size[j])] : i, j \in Archives}

Footers == (UNION {{archives[i].footer[n] : n \in DOMAIN archives[i].footer} : i \in Archives})
             \cup {Footer(offered, decoded, n, prior) : n \in {bodyTotal, bodyTotal + 1}}

-----------------------------------------------------------------------------
(* decode_with_report, given records one at a time.                        *)

HeaderAccepted(h) == h.genesis = Genesis(h.blockSize)

OpenArchive ==
    /\ phase = "open"
    /\ cap' \in Caps
    /\ \E h \in Headers :
          /\ phase' = IF HeaderAccepted(h) THEN "read" ELSE "rejected"
          /\ header' = <<h>> /\ prior' = h.genesis
    /\ UNCHANGED <<sources, size, archives, writing, lastBlock, lastStart,
                   bodyTotal, offered, ending, history, block, decoded>>

BlockSize == header[1].blockSize

\* Mutant: a short block may be followed by another
FramedAnyLength(r) ==
    /\ r.index = Len(offered) /\ r.reserved = 0
    /\ r.rawLen \in 1 .. BlockSize /\ Len(decoded) + r.rawLen <= cap
    /\ r.bodyLen = Len(r.body) /\ r.bodySha = Sha(r.body)

\* The checks on place, lengths and body, before the view is looked at
Framed(r) ==
    /\ lastBlock # <<>> => Len(lastBlock) = BlockSize
    /\ r.index = Len(offered) /\ r.reserved = 0
    /\ r.rawLen \in 1 .. BlockSize /\ Len(decoded) + r.rawLen <= cap
    /\ r.bodyLen = Len(r.body) /\ r.bodySha = Sha(r.body)

\* Mutant: the prefix that scores the views ends after the previous block
RegeneratedLate(r) == r.view = SelectView(Recent(decoded), lastBlock)

Regenerated(r) == r.view = SelectView(Before(decoded, lastStart), lastBlock)

\* What a glyph body gives, if it is as long as declared and the catalogs
\* rebuilt on the way are the declared ones
Readings(r) ==
    {d \in Unglyph(r.body, r.counts, r.rawLen) :
        d.residual \in [1 .. r.rawLen -> Bytes] /\ r.catalog = Catalog(d.catalogs)}

\* The grammar of the two modes, up to the rebuilt catalogs
Decodable(r) ==
    \/ /\ r.mode = "raw"
       /\ r.counts = <<0, 0>> /\ r.bodyLen = r.rawLen /\ r.catalog = RawCatalog
    \/ /\ r.mode = "glyph"
       /\ r.counts[1] \in 1 .. r.rawLen /\ r.counts[2] \in 1 .. r.counts[1]
       /\ r.bodyLen = PackedLength(r.counts[2])
       /\ Readings(r) # {}

ResidualOf(r) ==
    IF r.mode = "raw" THEN r.body ELSE (CHOOSE d \in Readings(r) : TRUE).residual

ReadRecord ==
    /\ phase = "read"
    /\ \E r \in Offer :
          /\ offered' = Append(offered, r)
          /\ phase' = IF Framed(r) /\ Regenerated(r) /\ Decodable(r)
                        THEN "restore" ELSE "rejected"
    /\ history' = Recent(decoded) /\ block' = <<>>
    /\ UNCHANGED <<sources, size, archives, writing, chain, cap, header, ending, decoded>>

Current == offered[Len(offered)]

RestoreNext ==
    /\ phase = "restore" /\ Len(block) < Len(ResidualOf(Current))
    /\ LET b == RestoreByte(ResidualOf(Current)[Len(block) + 1], history, Current.view)
       IN  block' = Append(block, b) /\ history' = Remember(history, b)
    /\ UNCHANGED <<phase, sources, size, archives, writing, chain, cap, header,
                   offered, ending, decoded>>

\* The checks on the restored block, and the end of the loop's body
Confirmed == /\ Len(block) = Current.rawLen /\ Current.decodedSha = Sha(block)
             /\ Current.omega = Omega(prior, Current)

CloseRecord ==
    /\ phase = "restore" /\ Len(block) = Len(ResidualOf(Current))
    /\ IF Confirmed
         THEN /\ phase' = "read" /\ decoded' = decoded \o block
              /\ bodyTotal' = bodyTotal + Current.bodyLen
              /\ prior' = Current.omega /\ lastBlock' = block
              /\ lastStart' = Len(decoded)
         ELSE phase' = "rejected" /\ UNCHANGED <<chain, decoded>>
    /\ UNCHANGED <<sources, size, archives, writing, cap, header, offered, ending,
                   history, block>>

FooterAccepted(f) ==
    /\ f.count = Len(offered) /\ f.length = Len(decoded)
    /\ f.bodyTotal = bodyTotal
    /\ f.sourceSha = Sha(decoded) /\ f.omega = prior

ReadFooter ==
    /\ phase = "read"
    /\ \E f \in Footers :
          /\ ending' = <<f>>
          /\ phase' = IF FooterAccepted(f) THEN "accepted" ELSE "rejected"
    /\ UNCHANGED <<sources, size, archives, writing, chain, cap, header, offered,
                   history, block, decoded>>

\* Any read may find the archive truncated
Truncated ==
    /\ phase = "read" /\ phase' = "cut"
    /\ UNCHANGED <<sources, size, archives, writing, chain, reading>>

-----------------------------------------------------------------------------
Returned == phase \in {"accepted", "rejected", "cut"}

AcerNext ==
    \/ EncodeBlock \/ EncodeFooter
    \/ OpenArchive \/ ReadRecord \/ RestoreNext \/ CloseRecord
    \/ ReadFooter \/ Truncated
    \/ Returned /\ UNCHANGED acerVars

AcerSpec == AcerInit /\ [][AcerNext]_acerVars

-----------------------------------------------------------------------------
(* Properties.                                                             *)

SpellingOf(r) ==
    [mode |-> r.mode, counts |-> r.counts, body |-> r.body, catalog |-> r.catalog]

\* Read by the decoder, a spelling gives a residual
Spells(s, residual) ==
    \/ s = Raw(residual)
    \/ /\ s.mode = "glyph"
       /\ \E d \in Unglyph(s.body, s.counts, Len(residual)) :
             d.residual = residual /\ s.catalog = Catalog(d.catalogs)

\* The stream read so far is a first part of archive i
FirstPart(i) ==
    /\ header = archives[i].header
    /\ Len(offered) <= Len(archives[i].records)
    /\ \A n \in DOMAIN offered : offered[n] = archives[i].records[n]
    /\ ending = <<>> \/ (ending = archives[i].footer
                            /\ Len(offered) = Len(archives[i].records))

\* What encode wrote is never refused, except for the output limit
WrittenIsAccepted ==
    \A i \in Archives :
        (phase = "rejected" /\ FirstPart(i)) => Len(sources[i]) > cap

\* Equal final Omegas mean equal archives: an accepted stream that ends in
\* the Omega of an archive is that archive, byte for byte, and decodes to its
\* source, however it was spliced, altered or resealed on the way
OmegaCommits ==
    \A i \in Archives :
        (phase = "accepted" /\ ending[1].omega = archives[i].footer[1].omega)
          => /\ header = archives[i].header /\ offered = archives[i].records
             /\ ending = archives[i].footer /\ decoded = sources[i]

\* An accepted archive holds at every place the record the encoder would write
\* there for the decoded bytes, the spelling of its residual apart: blocks all
\* of the same size but the last, views and chain regenerated.  The residual
\* may be spelled raw or as any codes of the two levels that give it, and the
\* spelling gives the one residual the encoder would spell
AcceptedAsEncoded ==
    phase = "accepted" =>
        \A n \in DOMAIN offered :
            LET from == (n - 1) * BlockSize
                last == IF n = 1 THEN <<>> ELSE SubSeq(decoded, from - BlockSize + 1, from)
                earlier == IF n = 1 THEN <<>> ELSE Before(decoded, from - BlockSize)
                view == SelectView(earlier, last)
                b == BlockAt(decoded, from, BlockSize)
            IN  /\ offered[n] = Record(n - 1, b, view, SpellingOf(offered[n]),
                         IF n = 1 THEN Genesis(BlockSize) ELSE offered[n - 1].omega)
                /\ Spells(SpellingOf(offered[n]), Project(b, Before(decoded, from), view))

=============================================================================
