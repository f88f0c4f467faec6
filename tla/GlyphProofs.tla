---------------------------- MODULE GlyphProofs ----------------------------
(***************************************************************************)
(* The two codecs of glyphs.                                               *)
(*                                                                         *)
(* LZW: for every alphabet, capacity and source, lzw_decode gives back what *)
(* lzw_encode was given and rebuilds its catalog, and it accepts no stream *)
(* with a code that names nothing at its point.  Both passes together are  *)
(* an exact-replay channel.                                                *)
(*                                                                         *)
(* ACER: for every set of views, block sizes, sources and alterations on the *)
(* way, decode refuses nothing encode wrote but for its output limit, accepts *)
(* no records but those encode would make of the bytes they decode to, and *)
(* takes the final Omega of an archive for that archive only.              *)
(***************************************************************************)
EXTENDS Lzw, AcerGlyph, Numbers, TLAPS

\* p is the part of the source from index a up to, not including, index b.
IsPart(p, a, b) ==
    /\ Len(p) = b - a
    /\ \A i \in 1 .. Len(p) : p[i] = source[a + i - 1]

\* The emitted codes partition the source: code k stands for the part between
\* cuts k and k + 1, and names an entry that existed when it was emitted.
CodesInv ==
    /\ Len(cuts) = Len(codes) + 1
    /\ cuts[1] = 1
    /\ \A k \in 1 .. Len(codes) :
          /\ cuts[k] < cuts[k + 1]
          /\ codes[k] < CodeBound(k)
          /\ codes[k] < Len(entries)
          /\ IsPart(entries[codes[k] + 1], cuts[k], cuts[k + 1])

\* The catalog: the alphabet, then for each emitted code its part of the
\* source and one symbol more, until the freeze.
CatalogInv ==
    /\ \A i \in 1 .. AlphabetSize : entries[i] = <<i - 1>>
    /\ \A j \in 1 .. Len(entries) - AlphabetSize :
          /\ j < Len(cuts)
          /\ IsPart(entries[AlphabetSize + j], cuts[j], cuts[j + 1] + 1)
    /\ EntriesDistinct

\* Where the encoder is.
ProgressInv ==
    /\ pc = "start" =>
          /\ next = 1 /\ codes = <<>> /\ Len(entries) = AlphabetSize
    /\ pc = "encode" =>
          /\ source # <<>>
          /\ Len(phrase) >= 1
          /\ IsPart(phrase, cuts[Len(cuts)], next)
          /\ InCatalog(phrase)
          /\ Len(entries) = CodeBound(Len(codes) + 1)
    /\ pc \notin {"start", "encode"} =>
          /\ cuts[Len(cuts)] = Len(source) + 1
          /\ codes = <<>> => Len(entries) = AlphabetSize
          /\ codes # <<>> => Len(entries) = CodeBound(Len(codes))

\* The decoder on any stream: its catalog has grown with the codes taken,
\* each of which named an entry.
AnyStreamInv ==
    /\ pc \in {"start", "encode", "deliver"} => taken = 0
    /\ taken = 0 => output = <<>> /\ dentries = BaseCatalog
    /\ taken > 0 => Len(previous) >= 1 /\ Len(dentries) = CodeBound(taken)
    /\ \A k \in 1 .. taken : stream[k] < CodeBound(k)
    /\ \A i \in 1 .. Len(dentries) : Len(dentries[i]) >= 1
    /\ pc = "done" => taken = Len(stream)

\* The decoder on the honest stream.
HonestInv ==
    Honest =>
        /\ pc # "rejected"
        /\ Len(dentries) <= Len(entries)
        /\ \A i \in 1 .. Len(dentries) : dentries[i] = entries[i]
        /\ taken > 0 => IsPart(previous, cuts[taken], cuts[taken + 1])
        /\ IsPart(output, 1, cuts[taken + 1])

IInv ==
    TypeOK /\ CodesInv /\ CatalogInv /\ ProgressInv /\ AnyStreamInv /\ HonestInv
-----------------------------------------------------------------------------
(* Facts about the helpers.                                                *)

LEMMA Constants ==
    /\ AlphabetSize \in Nat \ {0} /\ Capacity \in Nat /\ AlphabetSize <= Capacity
    /\ MaxSymbols \in Nat
  BY LzwAssumption

\* How the number of entries after k codes goes on.
LEMMA BoundSteps ==
    ASSUME NEW k \in Nat \ {0}
    PROVE  /\ CodeBound(k) \in AlphabetSize .. Capacity
           /\ CodeBound(k) \in Nat
           /\ CodeBound(k) < Capacity =>
                 /\ CodeBound(k) = AlphabetSize + k - 1
                 /\ CodeBound(k + 1) = CodeBound(k) + 1
           /\ CodeBound(k) = Capacity => CodeBound(k + 1) = Capacity
           /\ CodeBound(1) = AlphabetSize
  BY Constants DEF CodeBound

\* Codes count from 0, sequences from 1.
LEMMA CodeNamesIndex ==
    ASSUME NEW c \in 0 .. Capacity - 1, NEW m \in Nat, c < m
    PROVE  c + 1 \in 1 .. m /\ \A l \in Nat : m <= l => c < l
  BY Constants

LEMMA BelowCatalog ==
    ASSUME NEW m \in AlphabetSize .. Capacity, NEW c \in 0 .. m - 1
    PROVE  c \in 0 .. Capacity - 1 /\ c < m
  BY Constants

LEMMA SourceIsSequence ==
    ASSUME source \in Sources
    PROVE  source \in Seq(Symbols) /\ Len(source) <= MaxSymbols
  BY LzwAssumption

LEMMA BaseCatalogFacts ==
    /\ BaseCatalog \in Seq(Seq(Symbols))
    /\ Len(BaseCatalog) = AlphabetSize
    /\ \A i \in 1 .. AlphabetSize : BaseCatalog[i] = <<i - 1>>
    /\ \A i \in 1 .. AlphabetSize : Len(BaseCatalog[i]) = 1
<1>1. \A i \in 1 .. AlphabetSize : <<i - 1>> \in Seq(Symbols)
  BY Constants DEF Symbols
<1>2. BaseCatalog \in [1 .. AlphabetSize -> Seq(Symbols)]
  BY <1>1 DEF BaseCatalog
<1>3. BaseCatalog \in Seq(Seq(Symbols)) /\ Len(BaseCatalog) = AlphabetSize
  BY <1>2, Constants
<1>4. \A i \in 1 .. AlphabetSize : BaseCatalog[i] = <<i - 1>>
  BY DEF BaseCatalog
<1>5. \A i \in 1 .. AlphabetSize : Len(BaseCatalog[i]) = 1
  BY <1>4
<1> QED
  BY <1>3, <1>4, <1>5

\* lookup finds the code of every phrase of the catalog.
LEMMA CodeOfNames ==
    ASSUME Len(entries) \in Nat, NEW p, InCatalog(p)
    PROVE  CodeOf(p) \in 0 .. Len(entries) - 1 /\ entries[CodeOf(p) + 1] = p
<1>1. PICK i \in 1 .. Len(entries) : entries[i] = p
  BY DEF InCatalog
<1>2. i - 1 \in 0 .. Len(entries) - 1 /\ entries[(i - 1) + 1] = p
  BY <1>1
<1> QED
  BY <1>2 DEF CodeOf

LEMMA AppendFacts ==
    ASSUME NEW S, NEW s \in Seq(S), NEW e \in S
    PROVE  /\ Append(s, e) \in Seq(S)
           /\ Len(Append(s, e)) = Len(s) + 1
           /\ Append(s, e)[Len(s) + 1] = e
           /\ \A i \in 1 .. Len(s) : Append(s, e)[i] = s[i]
  OBVIOUS

LEMMA ConcatFacts ==
    ASSUME NEW S, NEW s \in Seq(S), NEW t \in Seq(S)
    PROVE  /\ s \o t \in Seq(S)
           /\ Len(s \o t) = Len(s) + Len(t)
           /\ \A i \in 1 .. Len(s) : (s \o t)[i] = s[i]
           /\ \A i \in 1 .. Len(t) : (s \o t)[Len(s) + i] = t[i]
  OBVIOUS

LEMMA ElementOfSequence ==
    ASSUME NEW S, NEW s \in Seq(S), NEW i \in 1 .. Len(s)
    PROVE  s[i] \in S
  OBVIOUS

\* Insertion into a catalog with and without room.
LEMMA InsertFacts ==
    ASSUME NEW catalog \in Seq(Seq(Symbols)), Len(catalog) <= Capacity,
           NEW p \in Seq(Symbols)
    PROVE  /\ Insert(catalog, p) \in Seq(Seq(Symbols))
           /\ Len(Insert(catalog, p)) <= Capacity
           /\ \A i \in 1 .. Len(catalog) : Insert(catalog, p)[i] = catalog[i]
           /\ Len(catalog) < Capacity =>
                 /\ Len(Insert(catalog, p)) = Len(catalog) + 1
                 /\ Insert(catalog, p)[Len(catalog) + 1] = p
           /\ Len(catalog) = Capacity => Insert(catalog, p) = catalog
<1>1. CASE Len(catalog) < Capacity
  <2>1. Insert(catalog, p) = Append(catalog, p)
    BY <1>1 DEF Insert
  <2>2. /\ Append(catalog, p) \in Seq(Seq(Symbols))
        /\ Len(Append(catalog, p)) = Len(catalog) + 1
        /\ Append(catalog, p)[Len(catalog) + 1] = p
        /\ \A i \in 1 .. Len(catalog) : Append(catalog, p)[i] = catalog[i]
    BY AppendFacts
  <2> QED
    BY <1>1, <2>1, <2>2, Constants
<1>2. CASE Len(catalog) = Capacity
  BY <1>2, Constants DEF Insert
<1> QED
  BY <1>1, <1>2, Constants
-----------------------------------------------------------------------------
LEMMA InitEstablishes == Init => IInv
<1> SUFFICES ASSUME Init PROVE IInv
  OBVIOUS
<1> USE DEF Init
<1>1. TypeOK
  BY SourceIsSequence, BaseCatalogFacts, Constants DEF TypeOK
<1>2. CodesInv
  BY DEF CodesInv
<1>3. EntriesDistinct
  <2>1. SUFFICES ASSUME NEW i \in 1 .. AlphabetSize, NEW j \in 1 .. AlphabetSize,
                        entries[i] = entries[j]
                 PROVE  i = j
    BY BaseCatalogFacts DEF EntriesDistinct
  <2>2. <<i - 1>> = <<j - 1>>
    BY <2>1, BaseCatalogFacts
  <2>3. <<i - 1>>[1] = <<j - 1>>[1]
    BY <2>2
  <2> QED
    BY <2>3
<1>4. CatalogInv
  <2>1. 1 .. Len(entries) - AlphabetSize = {}
    BY BaseCatalogFacts, Constants
  <2> QED
    BY <1>3, <2>1, BaseCatalogFacts DEF CatalogInv
<1>5. ProgressInv /\ AnyStreamInv /\ HonestInv
  BY BaseCatalogFacts DEF ProgressInv, AnyStreamInv, HonestInv, Honest
<1> QED
  BY <1>1, <1>2, <1>4, <1>5 DEF IInv
-----------------------------------------------------------------------------
(* The encoder's steps.                                                    *)

LEMMA EncodeStartPreserves ==
    ASSUME IInv, EncodeEmpty \/ EncodeFirst PROVE IInv'
<1> USE DEF IInv
<1>1. CASE EncodeEmpty
  <2>1. UNCHANGED <<source, next, phrase, entries, codes, cuts, stream, taken,
                    previous, dentries, output>> /\ pc' = "deliver"
    BY <1>1 DEF EncodeEmpty, encoder, decoder
  <2>2. TypeOK' /\ CodesInv' /\ CatalogInv'
    BY <2>1 DEF TypeOK, CodesInv, CatalogInv, EntriesDistinct, IsPart, CodeBound
  <2>3. ProgressInv'
    <3>1. source = <<>> /\ codes = <<>> /\ Len(entries) = AlphabetSize
      BY <1>1 DEF EncodeEmpty, ProgressInv
    <3>2. Len(cuts) = 1 /\ cuts[1] = 1 /\ Len(source) = 0
      BY <3>1 DEF CodesInv
    <3> QED
      BY <2>1, <3>1, <3>2 DEF ProgressInv
  <2>4. AnyStreamInv' /\ HonestInv'
    BY <1>1, <2>1 DEF AnyStreamInv, HonestInv, Honest, EncodeEmpty, CodeBound
  <2> QED
    BY <2>2, <2>3, <2>4
<1>2. CASE EncodeFirst
  <2>1. /\ UNCHANGED <<source, entries, codes, cuts, stream, taken, previous,
                       dentries, output>>
        /\ pc' = "encode" /\ phrase' = <<source[1]>> /\ next' = 2
        /\ source \in Seq(Symbols) /\ Len(source) >= 1
    BY <1>2, SourceIsSequence DEF EncodeFirst, decoder, TypeOK
  <2>2. source[1] \in Symbols
    BY <2>1, ElementOfSequence
  <2>3. TypeOK'
    BY <2>1, <2>2 DEF TypeOK
  <2>4. CodesInv' /\ CatalogInv'
    BY <2>1 DEF CodesInv, CatalogInv, EntriesDistinct, IsPart, CodeBound
  <2>5. ProgressInv'
    <3>1. codes = <<>> /\ Len(cuts) = 1 /\ cuts[1] = 1 /\ Len(entries) = AlphabetSize
      BY <1>2 DEF EncodeFirst, ProgressInv, CodesInv
    <3>2. IsPart(phrase, cuts[Len(cuts)], next)'
      BY <2>1, <3>1 DEF IsPart
    <3>3. InCatalog(phrase)'
      <4>1. source[1] + 1 \in 1 .. AlphabetSize /\ source[1] + 1 \in 1 .. Len(entries)
        <5>1. source[1] \in 0 .. AlphabetSize - 1
          BY <2>2 DEF Symbols
        <5> QED
          BY <3>1, <5>1, LzwAssumption
      <4>2. entries[source[1] + 1] = <<(source[1] + 1) - 1>>
        BY <4>1 DEF CatalogInv
      <4>3. (source[1] + 1) - 1 = source[1]
        BY <2>2 DEF Symbols
      <4> QED
        BY <2>1, <4>1, <4>2, <4>3 DEF InCatalog
    <3>4. Len(entries) = CodeBound(Len(codes) + 1)
      BY <3>1, BoundSteps
    <3> QED
      BY <2>1, <3>2, <3>3, <3>4 DEF ProgressInv, CodeBound
  <2>6. AnyStreamInv' /\ HonestInv'
    BY <1>2, <2>1 DEF AnyStreamInv, HonestInv, Honest, EncodeFirst, CodeBound
  <2> QED
    BY <2>3, <2>4, <2>5, <2>6
<1> QED
  BY <1>1, <1>2

\* A part of the source, extended by the source's next symbol.
LEMMA PartExtends ==
    ASSUME NEW S, NEW p \in Seq(S), NEW a \in Nat, NEW b \in Nat,
           IsPart(p, a, b), source[b] \in S
    PROVE  IsPart(Append(p, source[b]), a, b + 1)
<1> DEFINE q == Append(p, source[b])
<1>1. /\ Len(q) = Len(p) + 1
      /\ q[Len(p) + 1] = source[b]
      /\ \A i \in 1 .. Len(p) : q[i] = p[i]
  BY AppendFacts
<1>2. Len(p) = b - a /\ Len(p) \in Nat
  BY DEF IsPart
<1> HIDE DEF q
<1>3. ASSUME NEW i \in 1 .. Len(q) PROVE q[i] = source[a + i - 1]
  <2>1. CASE i \in 1 .. Len(p)
    BY <1>1, <2>1 DEF IsPart
  <2>2. CASE i = Len(p) + 1
    <3>1. a + i - 1 = b
      BY <1>2, <2>2
    <3> QED
      BY <1>1, <2>2, <3>1
  <2> QED
    BY <1>1, <1>2, <2>1, <2>2
<1>4. Len(q) = (b + 1) - a
  BY <1>1, <1>2
<1> QED
  BY <1>3, <1>4 DEF IsPart, q

\* The next symbol of the source continues the part that the phrase covers.
LEMMA CandidateFacts ==
    ASSUME IInv, pc = "encode", next <= Len(source)
    PROVE  /\ source[next] \in Symbols
           /\ Candidate \in Seq(Symbols)
           /\ Len(Candidate) = Len(phrase) + 1
           /\ IsPart(Candidate, cuts[Len(cuts)], next + 1)
<1>1. source \in Seq(Symbols) /\ next \in 1 .. Len(source)
  BY SourceIsSequence DEF IInv, TypeOK
<1>2. source[next] \in Symbols
  BY <1>1, ElementOfSequence
<1>3. /\ phrase \in Seq(Symbols)
      /\ IsPart(phrase, cuts[Len(cuts)], next)
      /\ cuts[Len(cuts)] \in Nat
  <2>1. Len(cuts) \in 1 .. Len(cuts)
    BY DEF IInv, TypeOK, CodesInv
  <2>2. cuts[Len(cuts)] \in 1 .. Len(source) + 1
    BY <2>1, ElementOfSequence DEF IInv, TypeOK
  <2> QED
    BY SMTT(40), <1>1, <2>2 DEF IInv, TypeOK, ProgressInv
<1>4. /\ Candidate \in Seq(Symbols)
      /\ Len(Candidate) = Len(phrase) + 1
      /\ Candidate[Len(phrase) + 1] = source[next]
      /\ \A i \in 1 .. Len(phrase) : Candidate[i] = phrase[i]
  BY <1>2, <1>3, AppendFacts DEF Candidate
<1>5. IsPart(Candidate, cuts[Len(cuts)], next + 1)
  BY <1>1, <1>3, PartExtends DEF Candidate
<1> QED
  BY <1>2, <1>4, <1>5

LEMMA ExtendPhrasePreserves ==
    ASSUME IInv, ExtendPhrase PROVE IInv'
<1>1. /\ UNCHANGED <<pc, source, entries, codes, cuts, stream, taken, previous,
                     dentries, output>>
      /\ pc = "encode" /\ next <= Len(source)
      /\ phrase' = Candidate /\ next' = next + 1
      /\ InCatalog(Candidate)
  BY DEF ExtendPhrase, decoder
<1>2. /\ Candidate \in Seq(Symbols) /\ Len(Candidate) = Len(phrase) + 1
      /\ IsPart(Candidate, cuts[Len(cuts)], next + 1)
  BY <1>1, CandidateFacts
<1>3. TypeOK'
  BY <1>1, <1>2, SourceIsSequence DEF IInv, TypeOK
<1>4. CodesInv' /\ CatalogInv'
  BY <1>1 DEF IInv, CodesInv, CatalogInv, EntriesDistinct, IsPart, CodeBound
<1>5. ProgressInv'
  <2>1. IsPart(phrase, cuts[Len(cuts)], next)' /\ InCatalog(phrase)'
    BY <1>1, <1>2 DEF IsPart, InCatalog
  <2>2. Len(phrase') >= 1
    BY <1>1, <1>2 DEF IInv, TypeOK
  <2> QED
    BY <1>1, <2>1, <2>2 DEF IInv, ProgressInv, CodeBound
<1>6. AnyStreamInv' /\ HonestInv'
  BY <1>1 DEF IInv, AnyStreamInv, HonestInv, Honest, CodeBound
<1> QED
  BY <1>3, <1>4, <1>5, <1>6 DEF IInv

\* What a step that emits a code does to the partition of the source.
LEMMA EmittedCodeFacts ==
    ASSUME IInv, pc = "encode",
           NEW catalog \in Seq(Seq(Symbols)), Len(catalog) >= Len(entries),
           \A i \in 1 .. Len(entries) : catalog[i] = entries[i],
           entries' = catalog, source' = source,
           codes' = Append(codes, CodeOf(phrase)), cuts' = Append(cuts, next)
    PROVE  /\ codes' \in Seq(0 .. Capacity - 1)
           /\ cuts' \in Seq(1 .. Len(source) + 1)
           /\ Len(codes') = Len(codes) + 1
           /\ cuts'[Len(cuts')] = next
           /\ \A k \in 1 .. Len(cuts) : cuts'[k] = cuts[k]
           /\ CodesInv'
<1> DEFINE n == Len(codes)
           c == CodeOf(phrase)
<1>1. /\ Len(entries) \in AlphabetSize .. Capacity /\ Len(entries) \in Nat
      /\ codes \in Seq(0 .. Capacity - 1) /\ cuts \in Seq(1 .. Len(source) + 1)
      /\ next \in 1 .. Len(source) + 1
      /\ Len(cuts) = n + 1 /\ n \in Nat
  <2>1. /\ Len(entries) \in AlphabetSize .. Capacity /\ entries \in Seq(Seq(Symbols))
        /\ codes \in Seq(0 .. Capacity - 1) /\ cuts \in Seq(1 .. Len(source) + 1)
        /\ next \in 1 .. Len(source) + 1
    BY DEF IInv, TypeOK
  <2>2. Len(cuts) = n + 1
    BY DEF IInv, CodesInv
  <2>3. Len(entries) \in Nat /\ n \in Nat
    BY <2>1
  <2> QED
    BY <2>1, <2>2, <2>3
<1>2. c \in 0 .. Len(entries) - 1 /\ entries[c + 1] = phrase
  BY <1>1, CodeOfNames DEF IInv, ProgressInv
<1>3. c \in 0 .. Capacity - 1 /\ c < CodeBound(n + 1)
  <2>1. Len(entries) = CodeBound(n + 1)
    BY DEF IInv, ProgressInv
  <2> HIDE DEF c
  <2>2. c \in 0 .. Capacity - 1 /\ c < Len(entries)
    BY <1>1, <1>2, BelowCatalog
  <2> QED
    BY <2>1, <2>2
<1>4. /\ codes' \in Seq(0 .. Capacity - 1) /\ Len(codes') = n + 1
      /\ codes'[n + 1] = c
      /\ \A k \in 1 .. n : codes'[k] = codes[k]
  <2> HIDE DEF c
  <2> QED
    BY <1>1, <1>3, AppendFacts DEF c
<1>5. /\ cuts' \in Seq(1 .. Len(source) + 1) /\ Len(cuts') = n + 2
      /\ cuts'[n + 2] = next
      /\ \A k \in 1 .. n + 1 : cuts'[k] = cuts[k]
  BY <1>1, AppendFacts
<1> HIDE DEF c
<1>6. IsPart(phrase, cuts[n + 1], next) /\ Len(phrase) >= 1
  BY <1>1 DEF IInv, ProgressInv
<1>7. cuts[n + 1] \in Nat /\ cuts[n + 1] < next
  <2>1. cuts[n + 1] \in 1 .. Len(source) + 1
    BY <1>1, ElementOfSequence
  <2>2. cuts[n + 1] \in Nat
    BY <2>1
  <2>3. Len(phrase) = next - cuts[n + 1] /\ Len(phrase) \in Nat
    BY <1>6 DEF IsPart, IInv, TypeOK
  <2> QED
    BY <1>1, <1>6, <2>2, <2>3
<1>8. ASSUME NEW k \in 1 .. n + 1
      PROVE  /\ cuts'[k] < cuts'[k + 1]
             /\ codes'[k] < CodeBound(k)
             /\ codes'[k] < Len(catalog)
             /\ IsPart(catalog[codes'[k] + 1], cuts'[k], cuts'[k + 1])
  <2>1. CASE k = n + 1
    <3>1. cuts'[k] = cuts[n + 1] /\ cuts'[k + 1] = next /\ codes'[k] = c
      BY <1>1, <1>4, <1>5, <2>1
    <3>2. catalog[c + 1] = phrase /\ c < Len(catalog)
      <4>1. PICK l, m \in Nat : l = Len(entries) /\ m = Len(catalog) /\ l <= m
        BY <1>1
      <4>2. c \in 0 .. l - 1
        BY <1>2, <4>1
      <4>3. c + 1 \in 1 .. l /\ c < m
        BY <4>1, <4>2
      <4>4. catalog[c + 1] = entries[c + 1]
        BY <4>1, <4>3
      <4> QED
        BY <1>2, <4>1, <4>3, <4>4
    <3> QED
      BY <1>3, <1>6, <1>7, <2>1, <3>1, <3>2
  <2>2. CASE k \in 1 .. n
    <3>1. cuts'[k] = cuts[k] /\ cuts'[k + 1] = cuts[k + 1] /\ codes'[k] = codes[k]
      BY SMTT(40), <1>1, <1>4, <1>5, <2>2
    <3>2. /\ cuts[k] < cuts[k + 1] /\ codes[k] < CodeBound(k)
          /\ codes[k] < Len(entries)
          /\ IsPart(entries[codes[k] + 1], cuts[k], cuts[k + 1])
      BY <2>2 DEF IInv, CodesInv
    <3>3. codes[k] \in 0 .. Capacity - 1
      BY <1>1, <2>2, ElementOfSequence
    <3>4. codes[k] + 1 \in 1 .. Len(entries)
      <4>1. codes[k] < Len(entries) /\ Len(entries) \in Nat
        BY <1>1, <3>2
      <4> QED
        BY <3>3, <4>1, CodeNamesIndex
    <3>5. Len(catalog) \in Nat /\ Len(entries) <= Len(catalog)
      OBVIOUS
    <3>6. catalog[codes[k] + 1] = entries[codes[k] + 1] /\ codes[k] < Len(catalog)
      <4>1. catalog[codes[k] + 1] = entries[codes[k] + 1]
        BY <3>4
      <4>2. codes[k] < Len(entries) /\ Len(entries) \in Nat
        BY <1>1, <3>2
      <4> QED
        BY <3>3, <3>5, <4>1, <4>2, CodeNamesIndex
    <3> QED
      BY <3>1, <3>2, <3>6
  <2>3. n \in Nat
    BY <1>1
  <2>4. k = n + 1 \/ k \in 1 .. n
    BY <2>3
  <2> QED
    BY <2>1, <2>2, <2>4
<1>9. cuts'[1] = 1
  BY <1>1, <1>5 DEF IInv, CodesInv
<1>10. CodesInv'
  <2>1. Len(cuts') = Len(codes') + 1
    BY <1>1, <1>4, <1>5
  <2>2. ASSUME NEW k \in 1 .. Len(codes')
        PROVE  /\ cuts'[k] < cuts'[k + 1]
               /\ codes'[k] < CodeBound(k)
               /\ codes'[k] < Len(entries')
               /\ IsPart(entries[codes[k] + 1], cuts[k], cuts[k + 1])'
    <3>1. k \in 1 .. n + 1
      BY <1>4
    <3> QED
      BY <1>8, <3>1 DEF IsPart
  <2> QED
    BY <1>9, <2>1, <2>2 DEF CodesInv, CodeBound
<1> QED
  BY <1>1, <1>4, <1>5, <1>10

LEMMA EmitCodePreserves ==
    ASSUME IInv, EmitCode PROVE IInv'
<1> DEFINE n == Len(codes)
<1>1. /\ UNCHANGED <<pc, source, stream, taken, previous, dentries, output>>
      /\ pc = "encode" /\ next <= Len(source)
      /\ ~InCatalog(Candidate)
      /\ codes' = Append(codes, CodeOf(phrase))
      /\ entries' = Insert(entries, Candidate)
      /\ phrase' = <<source[next]>>
      /\ cuts' = Append(cuts, next)
      /\ next' = next + 1
  BY DEF EmitCode, decoder
<1>2. /\ source[next] \in Symbols
      /\ Candidate \in Seq(Symbols)
      /\ IsPart(Candidate, cuts[n + 1], next + 1)
      /\ Len(cuts) = n + 1
  BY <1>1, CandidateFacts DEF IInv, CodesInv
<1>3. /\ entries \in Seq(Seq(Symbols)) /\ Len(entries) \in AlphabetSize .. Capacity
      /\ Len(entries) = CodeBound(n + 1) /\ n \in Nat
      /\ next \in 1 .. Len(source)
  BY <1>1, SourceIsSequence DEF IInv, TypeOK, ProgressInv
<1>4. /\ entries' \in Seq(Seq(Symbols))
      /\ \A i \in 1 .. Len(entries) : entries'[i] = entries[i]
      /\ Len(entries) < Capacity => entries'[Len(entries) + 1] = Candidate
      /\ Len(entries') = IF Len(entries) < Capacity
                           THEN Len(entries) + 1 ELSE Len(entries)
  <2>1. Len(entries) <= Capacity /\ (Len(entries) < Capacity \/ Len(entries) = Capacity)
    BY <1>3, Constants
  <2> QED
    BY <1>1, <1>2, <1>3, <2>1, InsertFacts
<1>5. /\ Len(entries) \in AlphabetSize .. Capacity
      /\ Len(entries') \in AlphabetSize .. Capacity
      /\ Len(entries') >= Len(entries)
      /\ Len(entries') = Len(entries) \/ Len(entries') = Len(entries) + 1
      /\ Len(entries') # Len(entries) => Len(entries) < Capacity
  <2>1. Len(entries) \in AlphabetSize .. Capacity
    BY <1>3
  <2>2. Len(entries') = IF Len(entries) < Capacity
                          THEN Len(entries) + 1 ELSE Len(entries)
    BY <1>4
  <2> QED
    BY <2>1, <2>2, Constants
<1>6. /\ codes' \in Seq(0 .. Capacity - 1)
      /\ cuts' \in Seq(1 .. Len(source) + 1)
      /\ Len(codes') = n + 1
      /\ cuts'[Len(cuts')] = next
      /\ \A k \in 1 .. n + 1 : cuts'[k] = cuts[k]
      /\ CodesInv'
  BY <1>1, <1>2, <1>4, <1>5, EmittedCodeFacts
<1>7. Len(cuts') = n + 2
  BY <1>6 DEF CodesInv
<1>8. TypeOK'
  <2>1. phrase' \in Seq(Symbols)
    BY <1>1, <1>2
  <2>2. next' \in 1 .. Len(source) + 1
    BY <1>1, <1>3
  <2> QED
    BY <1>1, <1>4, <1>5, <1>6, <2>1, <2>2 DEF IInv, TypeOK
<1>9. CatalogInv'
  <2>1. ASSUME NEW i \in 1 .. AlphabetSize PROVE entries'[i] = <<i - 1>>
    <3>1. i \in 1 .. Len(entries)
      BY <1>5, Constants
    <3>2. entries[i] = <<i - 1>>
      BY DEF IInv, CatalogInv
    <3> QED
      BY <1>4, <3>1, <3>2
  <2>2. ASSUME NEW j \in 1 .. Len(entries') - AlphabetSize
        PROVE  j < Len(cuts') /\ IsPart(entries'[AlphabetSize + j], cuts'[j], cuts'[j + 1] + 1)
    <3>1. CASE j <= Len(entries) - AlphabetSize
      <4>1. /\ j < n + 1
            /\ IsPart(entries[AlphabetSize + j], cuts[j], cuts[j + 1] + 1)
        BY <1>2, <1>3, <3>1, Constants DEF IInv, CatalogInv
      <4>2. entries'[AlphabetSize + j] = entries[AlphabetSize + j]
        <5>1. AlphabetSize + j \in 1 .. Len(entries)
          BY <1>5, <3>1, Constants
        <5> QED
          BY <1>4, <5>1
      <4>3. cuts'[j] = cuts[j] /\ cuts'[j + 1] = cuts[j + 1]
        BY <1>3, <1>6, <4>1
      <4> QED
        BY <1>3, <1>7, <4>1, <4>2, <4>3
    <3>2. CASE j > Len(entries) - AlphabetSize
      <4>1. Len(entries) < Capacity /\ AlphabetSize + j = Len(entries) + 1
        BY <1>5, <3>2, Constants
      <4>2. Len(entries) = AlphabetSize + n
        <5>1. CodeBound(n + 1) = AlphabetSize + (n + 1) - 1
          BY <1>3, <4>1, BoundSteps
        <5> QED
          BY <1>3, <5>1, Constants
      <4>3. j = n + 1
        BY SMTT(40), <1>3, <4>1, <4>2, Constants
      <4>4. cuts'[j] = cuts[n + 1] /\ cuts'[j + 1] = next
        BY SMTT(30), <1>3, <1>6, <1>7, <4>3
      <4> QED
        BY <1>2, <1>3, <1>4, <1>7, <4>1, <4>3, <4>4
    <3> QED
      BY <1>3, <3>1, <3>2, Constants
  <2>3. EntriesDistinct'
    <3>1. ASSUME NEW i \in 1 .. Len(entries'), NEW j \in 1 .. Len(entries'),
                 entries'[i] = entries'[j], i < j
          PROVE  FALSE
      <4>1. i \in 1 .. Len(entries)
        BY <1>5, <3>1, Constants
      <4>2. CASE j \in 1 .. Len(entries)
        <5>1. entries[i] = entries[j]
          BY <1>4, <3>1, <4>1, <4>2
        <5>2. i = j
          BY <4>1, <4>2, <5>1 DEF IInv, CatalogInv, EntriesDistinct
        <5> QED
          BY <3>1, <5>2
      <4>3. CASE j = Len(entries) + 1
        <5>1. entries[i] = Candidate
          <6>1. Len(entries) < Capacity
            BY <1>5, <4>3, Constants
          <6> QED
            BY <1>4, <3>1, <4>1, <4>3, <6>1
        <5> QED
          BY <1>1, <4>1, <5>1 DEF InCatalog
      <4> QED
        BY <1>5, <4>2, <4>3, Constants
    <3>2. ASSUME NEW i \in 1 .. Len(entries'), NEW j \in 1 .. Len(entries'),
                 entries'[i] = entries'[j]
          PROVE  i = j
      BY <1>5, <3>1, <3>2, Constants
    <3> QED
      BY <3>2 DEF EntriesDistinct
  <2>4. \A j \in 1 .. Len(entries') - AlphabetSize :
           j < Len(cuts') /\ IsPart(entries[AlphabetSize + j], cuts[j], cuts[j + 1] + 1)'
    BY <1>1, <2>2 DEF IsPart
  <2> QED
    BY <2>1, <2>3, <2>4 DEF CatalogInv
<1>10. ProgressInv'
  <2>1. IsPart(phrase, cuts[Len(cuts)], next)'
    BY <1>1, <1>3, <1>6 DEF IsPart
  <2>2. InCatalog(phrase)'
    <3>1. source[next] + 1 \in 1 .. AlphabetSize /\ (source[next] + 1) - 1 = source[next]
      BY <1>2, LzwAssumption DEF Symbols
    <3>2. entries'[source[next] + 1] = <<source[next]>>
      BY <1>9, <3>1 DEF CatalogInv
    <3>3. source[next] + 1 \in 1 .. Len(entries')
      BY <1>5, <3>1, Constants
    <3> QED
      BY <1>1, <3>2, <3>3 DEF InCatalog
  <2>3. Len(entries') = CodeBound(n + 2)
    <3>1. CASE Len(entries) < Capacity
      BY <1>3, <1>4, <3>1, BoundSteps
    <3>2. CASE Len(entries) = Capacity
      BY <1>3, <1>4, <3>2, BoundSteps
    <3> QED
      BY <1>3, <3>1, <3>2, Constants
  <2>4. pc' = "encode" /\ source' # <<>> /\ Len(phrase') = 1
    BY <1>1 DEF IInv, ProgressInv
  <2>5. Len(codes') + 1 = n + 2
    BY <1>3, <1>6
  <2> QED
    BY <2>1, <2>2, <2>3, <2>4, <2>5 DEF ProgressInv, CodeBound
<1>11. AnyStreamInv' /\ HonestInv'
  BY <1>1 DEF IInv, AnyStreamInv, HonestInv, Honest, CodeBound
<1> QED
  BY <1>6, <1>8, <1>9, <1>10, <1>11 DEF IInv

LEMMA EmitLastPreserves ==
    ASSUME IInv, EmitLast PROVE IInv'
<1>1. /\ UNCHANGED <<source, next, phrase, entries, stream, taken, previous,
                     dentries, output>>
      /\ pc = "encode" /\ pc' = "deliver" /\ next > Len(source)
      /\ codes' = Append(codes, CodeOf(phrase)) /\ cuts' = Append(cuts, next)
  BY DEF EmitLast, decoder
<1>2. /\ entries \in Seq(Seq(Symbols)) /\ next = Len(source) + 1
      /\ Len(codes) \in Nat /\ Len(entries) \in Nat /\ Len(cuts) = Len(codes) + 1
  <2>1. /\ entries \in Seq(Seq(Symbols)) /\ codes \in Seq(0 .. Capacity - 1)
        /\ next \in 1 .. Len(source) + 1 /\ source \in Seq(Symbols)
    BY SourceIsSequence DEF IInv, TypeOK
  <2>2. Len(cuts) = Len(codes) + 1
    BY DEF IInv, CodesInv
  <2> QED
    BY <1>1, <2>1, <2>2
<1>3. /\ codes' \in Seq(0 .. Capacity - 1)
      /\ cuts' \in Seq(1 .. Len(source) + 1)
      /\ Len(codes') = Len(codes) + 1
      /\ cuts'[Len(cuts')] = next
      /\ \A k \in 1 .. Len(cuts) : cuts'[k] = cuts[k]
      /\ CodesInv'
  BY <1>1, <1>2, EmittedCodeFacts
<1>4. TypeOK'
  BY <1>1, <1>3 DEF IInv, TypeOK
<1>5. CatalogInv'
  <2>1. Len(cuts') = Len(cuts) + 1
    BY <1>2, <1>3 DEF CodesInv
  <2>2. ASSUME NEW j \in 1 .. Len(entries) - AlphabetSize
        PROVE  /\ j < Len(cuts')
               /\ IsPart(entries[AlphabetSize + j], cuts'[j], cuts'[j + 1] + 1)
    <3>1. j < Len(cuts) /\ IsPart(entries[AlphabetSize + j], cuts[j], cuts[j + 1] + 1)
      BY DEF IInv, CatalogInv
    <3>2. j \in 1 .. Len(cuts) /\ j + 1 \in 1 .. Len(cuts)
      BY <1>2, <3>1, Constants
    <3>3. cuts'[j] = cuts[j] /\ cuts'[j + 1] = cuts[j + 1]
      BY <1>3, <3>2
    <3> QED
      BY <1>2, <2>1, <3>1, <3>3
  <2> QED
    BY <1>1, <2>2 DEF IInv, CatalogInv, EntriesDistinct, IsPart
<1>6. ProgressInv'
  <2>1. codes' # <<>> /\ Len(entries) = CodeBound(Len(codes'))
    BY <1>1, <1>2, <1>3 DEF IInv, ProgressInv
  <2> QED
    BY <1>1, <1>2, <1>3, <2>1 DEF ProgressInv, CodeBound
<1>7. AnyStreamInv' /\ HonestInv'
  BY <1>1 DEF IInv, AnyStreamInv, HonestInv, Honest, CodeBound
<1> QED
  BY <1>3, <1>4, <1>5, <1>6, <1>7 DEF IInv
-----------------------------------------------------------------------------
(* The decoder's steps.  None changes the encoder's variables.             *)

LEMMA EncoderUntouched ==
    ASSUME IInv, UNCHANGED encoder,
           pc \notin {"start", "encode"}, pc' \notin {"start", "encode"}
    PROVE  CodesInv' /\ CatalogInv' /\ ProgressInv'
<1>1. UNCHANGED <<source, next, phrase, entries, codes, cuts>>
  BY DEF encoder
<1>2. CodesInv' /\ CatalogInv'
  BY <1>1 DEF IInv, CodesInv, CatalogInv, EntriesDistinct, IsPart, CodeBound
<1>3. ProgressInv'
  BY <1>1 DEF IInv, ProgressInv, CodeBound
<1> QED
  BY <1>2, <1>3

LEMMA DeliverPreserves ==
    ASSUME IInv, NEW s \in Deliverable, Deliver(s) PROVE IInv'
<1>1. /\ UNCHANGED <<source, next, phrase, entries, codes, cuts, taken, previous,
                     dentries, output>>
      /\ pc = "deliver" /\ stream' = s
      /\ pc' = IF ~InRange(s) THEN "rejected" ELSE "decode"
  BY DEF Deliver, encoder
<1>2. /\ codes \in Seq(0 .. Capacity - 1)
      /\ taken = 0 /\ output = <<>> /\ dentries = BaseCatalog
  BY <1>1 DEF IInv, TypeOK, AnyStreamInv
<1>3. s \in Seq(Nat)
  <2>1. ASSUME s = codes PROVE s \in Seq(Nat)
    BY <1>2, <2>1, Constants
  <2> QED
    BY <2>1, LzwAssumption DEF Deliverable
<1>4. s = codes => InRange(s)
  BY <1>2, Constants DEF InRange
<1>5. TypeOK'
  BY <1>1, <1>2, <1>3 DEF IInv, TypeOK
<1>6. CodesInv' /\ CatalogInv' /\ ProgressInv'
  BY <1>1, EncoderUntouched DEF Deliver
<1>7. AnyStreamInv'
  BY <1>1, <1>2 DEF IInv, AnyStreamInv
<1>8. HonestInv'
  <2>1. SUFFICES ASSUME Honest'
                 PROVE  /\ pc' # "rejected"
                        /\ Len(dentries) <= Len(entries)
                        /\ \A i \in 1 .. Len(dentries) : dentries[i] = entries[i]
                        /\ IsPart(output, 1, cuts[1])'
    BY <1>1, <1>2 DEF HonestInv, IsPart
  <2>2. pc' # "rejected"
    BY <1>1, <1>4, <2>1 DEF Honest
  <2>3. Len(dentries) = AlphabetSize /\ Len(entries) \in AlphabetSize .. Capacity
    BY <1>2, BaseCatalogFacts DEF IInv, TypeOK
  <2>4. \A i \in 1 .. AlphabetSize : dentries[i] = entries[i]
    BY <1>2, BaseCatalogFacts DEF IInv, CatalogInv
  <2>5. IsPart(output, 1, cuts[1])'
    BY <1>1, <1>2 DEF IsPart, IInv, CodesInv
  <2> QED
    BY <2>2, <2>3, <2>4, <2>5, Constants
<1> QED
  BY <1>5, <1>6, <1>7, <1>8 DEF IInv

LEMMA RejectPreserves ==
    ASSUME IInv, pc = "decode", Reject, ~Honest, UNCHANGED <<encoder, stream>>
    PROVE  IInv'
<1>1. /\ UNCHANGED <<source, next, phrase, entries, codes, cuts, stream, taken,
                     previous, dentries, output>>
      /\ pc' = "rejected"
  BY DEF Reject, encoder
<1>2. TypeOK'
  BY <1>1 DEF IInv, TypeOK
<1>3. CodesInv' /\ CatalogInv' /\ ProgressInv'
  BY <1>1, EncoderUntouched
<1>4. AnyStreamInv' /\ HonestInv'
  BY <1>1 DEF IInv, AnyStreamInv, HonestInv, Honest, CodeBound
<1> QED
  BY <1>2, <1>3, <1>4 DEF IInv

LEMMA DecodeEndPreserves ==
    ASSUME IInv, DecodeEnd PROVE IInv'
<1>1. /\ UNCHANGED <<source, next, phrase, entries, codes, cuts, stream, taken,
                     previous, dentries, output>>
      /\ pc = "decode" /\ pc' = "done" /\ taken = Len(stream)
  BY DEF DecodeEnd, encoder, decoder
<1>2. TypeOK'
  BY <1>1 DEF IInv, TypeOK
<1>3. CodesInv' /\ CatalogInv' /\ ProgressInv'
  BY <1>1, EncoderUntouched DEF DecodeEnd
<1>4. AnyStreamInv' /\ HonestInv'
  BY <1>1 DEF IInv, AnyStreamInv, HonestInv, Honest, CodeBound, IsPart
<1> QED
  BY <1>2, <1>3, <1>4 DEF IInv

(* Parts of the source.                                                    *)

\* Adjacent parts join.
LEMMA PartsJoin ==
    ASSUME NEW S, NEW p \in Seq(S), NEW q \in Seq(S), NEW a \in Nat, NEW b \in Nat,
           NEW e \in Nat, IsPart(p, a, b), IsPart(q, b, e)
    PROVE  IsPart(p \o q, a, e)
<1> DEFINE r == p \o q
<1>1. /\ Len(r) = Len(p) + Len(q)
      /\ \A i \in 1 .. Len(p) : r[i] = p[i]
      /\ \A i \in 1 .. Len(q) : r[Len(p) + i] = q[i]
  BY ConcatFacts
<1>2. Len(p) = b - a /\ Len(p) \in Nat /\ Len(q) = e - b /\ Len(q) \in Nat
  BY DEF IsPart
<1> HIDE DEF r
<1>3. ASSUME NEW i \in 1 .. Len(r) PROVE r[i] = source[a + i - 1]
  <2>1. CASE i \in 1 .. Len(p)
    BY <1>1, <2>1 DEF IsPart
  <2>2. CASE i \notin 1 .. Len(p)
    <3>1. i - Len(p) \in 1 .. Len(q) /\ i = Len(p) + (i - Len(p))
      BY <1>1, <1>2, <2>2
    <3>2. r[i] = q[i - Len(p)]
      BY <1>1, <3>1
    <3>3. q[i - Len(p)] = source[b + (i - Len(p)) - 1]
      BY <3>1 DEF IsPart
    <3>4. b + (i - Len(p)) - 1 = a + i - 1
      BY <1>2, <3>1
    <3> QED
      BY <3>2, <3>3, <3>4
  <2> QED
    BY <2>1, <2>2
<1>4. Len(r) = e - a
  BY <1>1, <1>2
<1> QED
  BY <1>3, <1>4 DEF IsPart, r

\* A part is determined by where it begins and ends.
LEMMA PartsEqual ==
    ASSUME NEW S, NEW p \in Seq(S), NEW q \in Seq(S), NEW a \in Nat, NEW b \in Nat,
           IsPart(p, a, b), IsPart(q, a, b)
    PROVE  p = q
<1>1. Len(p) = Len(q)
  BY DEF IsPart
<1>2. ASSUME NEW i \in 1 .. Len(p) PROVE p[i] = q[i]
  BY <1>1 DEF IsPart
<1> QED
  BY <1>1, <1>2

LEMMA BoundMonotone ==
    ASSUME NEW k \in Nat \ {0}, NEW l \in Nat \ {0}, k <= l
    PROVE  CodeBound(k) <= CodeBound(l)
  BY Constants DEF CodeBound

\* Where the cut after the next code lies, on the honest stream.
LEMMA CutFacts ==
    ASSUME IInv, Honest, NEW k \in 1 .. Len(codes)
    PROVE  /\ cuts[k] \in Nat /\ cuts[k + 1] \in Nat
           /\ cuts[k] < cuts[k + 1] /\ cuts[k + 1] - 1 <= Len(source)
           /\ codes[k] \in 0 .. Capacity - 1
           /\ codes[k] + 1 \in 1 .. Len(entries)
           /\ codes[k] < CodeBound(k)
           /\ IsPart(entries[codes[k] + 1], cuts[k], cuts[k + 1])
           /\ Len(entries) = CodeBound(Len(codes))
<1>1. /\ cuts \in Seq(1 .. Len(source) + 1) /\ codes \in Seq(0 .. Capacity - 1)
      /\ Len(source) \in Nat /\ Len(entries) \in Nat
  BY SourceIsSequence DEF IInv, TypeOK
<1>2. Len(cuts) = Len(codes) + 1 /\ Len(codes) \in Nat
  BY <1>1 DEF IInv, CodesInv
<1>3. k \in 1 .. Len(cuts) /\ k + 1 \in 1 .. Len(cuts)
  BY <1>2
<1>4. cuts[k] \in 1 .. Len(source) + 1 /\ cuts[k + 1] \in 1 .. Len(source) + 1
  BY <1>1, <1>3, ElementOfSequence
<1>5. codes[k] \in 0 .. Capacity - 1
  BY <1>1, ElementOfSequence
<1>6. /\ cuts[k] < cuts[k + 1] /\ codes[k] < CodeBound(k) /\ codes[k] < Len(entries)
      /\ IsPart(entries[codes[k] + 1], cuts[k], cuts[k + 1])
  BY DEF IInv, CodesInv
<1>7. codes[k] + 1 \in 1 .. Len(entries)
  <2>1. codes[k] < Len(entries) /\ Len(entries) \in Nat
    BY <1>1, <1>6
  <2> QED
    BY <1>5, <2>1, CodeNamesIndex
<1>8. Len(entries) = CodeBound(Len(codes))
  BY <1>2 DEF IInv, ProgressInv, Honest
<1>9. cuts[k] \in Nat /\ cuts[k + 1] \in Nat /\ cuts[k + 1] - 1 <= Len(source)
  BY SMTT(30), <1>1, <1>4
<1> QED
  BY <1>5, <1>6, <1>7, <1>8, <1>9

\* Consuming a code: the phrase it names is appended to the output.
LEMMA ConsumePreserves ==
    ASSUME IInv, pc = "decode", taken < Len(stream),
           UNCHANGED <<encoder, stream>>,
           NEW current \in Seq(Symbols), Len(current) >= 1,
           NEW catalog \in Seq(Seq(Symbols)), Len(catalog) = CodeBound(taken + 1),
           \A i \in 1 .. Len(catalog) : Len(catalog[i]) >= 1,
           stream[taken + 1] < CodeBound(taken + 1),
           Honest =>
              /\ Len(catalog) <= Len(entries)
              /\ \A i \in 1 .. Len(catalog) : catalog[i] = entries[i]
              /\ IsPart(current, cuts[taken + 1], cuts[taken + 2]),
           Consume(current, catalog)
    PROVE  IInv'
<1> DEFINE t == taken
<1>1. /\ stream \in Seq(Nat) /\ t \in Nat /\ t + 1 \in 1 .. Len(stream)
      /\ output \in Seq(Symbols) /\ Len(output) \in Nat /\ Len(current) \in Nat
      /\ Len(output) <= MaxSymbols
  <2>1. /\ stream \in Seq(Nat) /\ taken \in 0 .. Len(stream)
        /\ output \in Seq(Symbols) /\ Len(output) <= MaxSymbols
    BY DEF IInv, TypeOK
  <2>2. t \in Nat /\ t + 1 \in 1 .. Len(stream)
    BY <2>1
  <2>3. Len(output) \in Nat /\ Len(current) \in Nat
    BY <2>1
  <2> QED
    BY <2>1, <2>2, <2>3
<1>2. Honest =>
         /\ IsPart(output, 1, cuts[t + 1])
         /\ cuts[t + 1] \in Nat /\ cuts[t + 2] \in Nat
         /\ cuts[t + 2] - 1 <= Len(source) /\ Len(source) <= MaxSymbols
         /\ Len(source) \in Nat
  <2>1. SUFFICES ASSUME Honest PROVE cuts[t + 1] \in Nat
           /\ cuts[t + 2] \in Nat /\ cuts[t + 2] - 1 <= Len(source)
           /\ Len(source) <= MaxSymbols /\ Len(source) \in Nat
           /\ IsPart(output, 1, cuts[t + 1])
    OBVIOUS
  <2>2. t + 1 \in 1 .. Len(codes) /\ (t + 1) + 1 = t + 2
    BY <1>1, <2>1 DEF Honest
  <2>3. /\ cuts[t + 1] \in Nat /\ cuts[t + 2] \in Nat
        /\ cuts[t + 2] - 1 <= Len(source)
    BY <2>1, <2>2, CutFacts
  <2>4. Len(source) <= MaxSymbols /\ Len(source) \in Nat
    BY SourceIsSequence DEF IInv, TypeOK
  <2>5. IsPart(output, 1, cuts[t + 1])
    BY <2>1 DEF IInv, HonestInv
  <2> QED
    BY <2>3, <2>4, <2>5
<1>3. Honest => Fits(current)
  <2>1. SUFFICES ASSUME Honest PROVE Fits(current)
    OBVIOUS
  <2>2. Len(output) = cuts[t + 1] - 1 /\ Len(current) = cuts[t + 2] - cuts[t + 1]
    BY <1>2, <2>1 DEF IsPart
  <2>3. cuts[t + 2] - 1 <= MaxSymbols /\ cuts[t + 1] \in Nat /\ cuts[t + 2] \in Nat
    BY <1>2, <2>1, Constants
  <2> QED
    BY SMTT(40), <2>2, <2>3, Constants DEF Fits
<1>4. CASE ~Fits(current)
  <2>1. ~Honest /\ Reject
    BY <1>3, <1>4 DEF Consume
  <2> QED
    BY <2>1, RejectPreserves
<1>5. CASE Fits(current)
  <2>1. /\ UNCHANGED <<pc, source, next, phrase, entries, codes, cuts, stream>>
        /\ output' = output \o current /\ dentries' = catalog
        /\ previous' = current /\ taken' = t + 1
    BY <1>5 DEF Consume, encoder
  <2>2. /\ output' \in Seq(Symbols)
        /\ Len(output') = Len(output) + Len(current)
    BY <1>1, <2>1, ConcatFacts
  <2>3. Len(output') <= MaxSymbols
    BY <1>1, <1>5, <2>2, Constants DEF Fits
  <2>4. Len(dentries') \in AlphabetSize .. Capacity
    <3>1. t + 1 \in Nat \ {0}
      BY <1>1
    <3> QED
      BY <2>1, <3>1, BoundSteps
  <2>5. taken' \in 0 .. Len(stream)
    BY <1>1, <2>1
  <2>6. TypeOK'
    BY <2>1, <2>2, <2>3, <2>4, <2>5 DEF IInv, TypeOK
  <2>7. CodesInv' /\ CatalogInv' /\ ProgressInv'
    BY <2>1, EncoderUntouched
  <2>8. AnyStreamInv'
    <3>1. \A k \in 1 .. t + 1 : stream[k] < CodeBound(k)
      <4>1. ASSUME NEW k \in 1 .. t + 1 PROVE stream[k] < CodeBound(k)
        <5>1. k \in 1 .. t \/ k = t + 1
          BY <1>1
        <5> QED
          BY <5>1 DEF IInv, AnyStreamInv
      <4> QED
        BY <4>1
    <3>2. t + 1 # 0
      BY <1>1
    <3> QED
      BY <2>1, <3>1, <3>2 DEF AnyStreamInv, CodeBound
  <2>9. HonestInv'
    <3>1. SUFFICES ASSUME Honest
                   PROVE  /\ Len(catalog) <= Len(entries)
                          /\ \A i \in 1 .. Len(catalog) : catalog[i] = entries[i]
                          /\ IsPart(current, cuts[t + 1], cuts[t + 2])
                          /\ IsPart(output \o current, 1, cuts[t + 2])
      <4>1. Honest' => Honest
        BY <2>1 DEF Honest
      <4>2. cuts[(t + 1) + 1] = cuts[t + 2] /\ pc' # "rejected"
        <5>1. (t + 1) + 1 = t + 2
          BY <1>1
        <5> QED
          BY <2>1, <5>1
      <4> QED
        BY <2>1, <4>1, <4>2 DEF HonestInv, IsPart
    <3>2. IsPart(current, cuts[t + 1], cuts[t + 2])
      BY <3>1
    <3>3. IsPart(output \o current, 1, cuts[t + 2])
      BY <1>1, <1>2, <3>1, <3>2, PartsJoin
    <3> QED
      BY <3>1, <3>2, <3>3
  <2> QED
    BY <2>6, <2>7, <2>8, <2>9 DEF IInv
<1> QED
  BY <1>4, <1>5

LEMMA DecodeFirstPreserves ==
    ASSUME IInv, DecodeFirst PROVE IInv'
<1>1. /\ pc = "decode" /\ taken = 0 /\ stream # <<>>
      /\ UNCHANGED <<encoder, stream>>
      /\ dentries = BaseCatalog
      /\ stream \in Seq(Nat) /\ stream[1] \in Nat /\ taken < Len(stream)
  BY DEF DecodeFirst, IInv, TypeOK, AnyStreamInv
<1>2. CodeBound(1) = AlphabetSize
  BY BoundSteps
<1>3. Honest =>
         /\ stream[1] = codes[1] /\ codes[1] < CodeBound(1)
         /\ codes[1] + 1 \in 1 .. Len(entries)
         /\ IsPart(entries[codes[1] + 1], cuts[1], cuts[2])
  <2>1. SUFFICES ASSUME Honest
                 PROVE  /\ stream[1] = codes[1] /\ codes[1] < CodeBound(1)
                        /\ codes[1] + 1 \in 1 .. Len(entries)
                        /\ IsPart(entries[codes[1] + 1], cuts[1], cuts[2])
    OBVIOUS
  <2>2. 1 \in 1 .. Len(codes) /\ stream = codes
    BY <1>1, <2>1 DEF Honest
  <2> QED
    BY <2>1, <2>2, CutFacts
<1>4. CASE stream[1] >= AlphabetSize
  <2>1. ~Honest
    BY <1>1, <1>2, <1>3, <1>4, Constants
  <2>2. Reject
    BY <1>4 DEF DecodeFirst
  <2> QED
    BY <1>1, <2>1, <2>2, RejectPreserves
<1>5. CASE ~(stream[1] >= AlphabetSize)
  <2> DEFINE current == dentries[stream[1] + 1]
  <2>1. Consume(current, dentries)
    BY <1>5 DEF DecodeFirst
  <2>2. stream[1] + 1 \in 1 .. AlphabetSize
    BY <1>1, <1>5, Constants
  <2>3. /\ dentries \in Seq(Seq(Symbols)) /\ Len(dentries) = AlphabetSize
        /\ \A i \in 1 .. Len(dentries) : Len(dentries[i]) = 1
        /\ \A i \in 1 .. Len(dentries) : dentries[i] = <<i - 1>>
    BY <1>1, BaseCatalogFacts
  <2>4. current \in Seq(Symbols) /\ Len(current) = 1
    <3>1. stream[1] + 1 \in 1 .. Len(dentries)
      BY <2>2, <2>3
    <3> QED
      BY <2>3, <3>1, ElementOfSequence
  <2>5. ASSUME Honest
        PROVE  /\ Len(dentries) <= Len(entries)
               /\ \A i \in 1 .. Len(dentries) : dentries[i] = entries[i]
               /\ IsPart(current, cuts[1], cuts[2])
    <3>1. /\ Len(dentries) <= Len(entries)
          /\ \A i \in 1 .. Len(dentries) : dentries[i] = entries[i]
      BY <2>5 DEF IInv, HonestInv
    <3>2. current = entries[codes[1] + 1]
      BY <1>3, <2>2, <2>3, <2>5, <3>1
    <3> QED
      BY <1>3, <2>5, <3>1, <3>2
  <2> HIDE DEF current
  <2>6. taken + 1 = 1 /\ taken + 2 = 2 /\ stream[1] < CodeBound(1)
    BY <1>1, <1>2, <1>5, Constants
  <2>7. Len(current) >= 1 /\ (\A i \in 1 .. Len(dentries) : Len(dentries[i]) >= 1)
    BY SMTT(40), <2>3, <2>4
  <2>8. /\ Len(dentries) = CodeBound(taken + 1)
        /\ stream[taken + 1] < CodeBound(taken + 1)
        /\ Honest =>
              /\ Len(dentries) <= Len(entries)
              /\ \A i \in 1 .. Len(dentries) : dentries[i] = entries[i]
              /\ IsPart(current, cuts[taken + 1], cuts[taken + 2])
    BY <1>2, <2>3, <2>5, <2>6
  <2> QED
    BY <1>1, <2>1, <2>3, <2>4, <2>7, <2>8, ConsumePreserves
<1> QED
  BY <1>4, <1>5

\* The phrase named by the next code of the honest stream is the next part of
\* the source, whether the code names an entry or the one about to be made.
LEMMA NextPhraseFacts ==
    ASSUME IInv, Honest, NEW t \in 1 .. Len(stream) - 1, t = taken
    PROVE  /\ Valid(stream[t + 1])
           /\ IsPart(Named(stream[t + 1]), cuts[t + 1], cuts[t + 2])
           /\ IsPart(previous, cuts[t], cuts[t + 1])
           /\ \A j \in {AlphabetSize + t} :
                 j <= Len(entries) => IsPart(entries[j], cuts[t], cuts[t + 1] + 1)
           /\ CodeBound(t + 1) <= Len(entries)
<1> DEFINE code == codes[t + 1]
           m == Len(dentries)
<1>1. /\ stream = codes /\ t \in Nat \ {0} /\ t \in 1 .. Len(codes)
      /\ t + 1 \in 1 .. Len(codes)
      /\ t + 1 \in Nat \ {0} /\ (t + 1) + 1 = t + 2
  <2>1. stream = codes /\ stream \in Seq(Nat)
    BY DEF Honest, IInv, TypeOK
  <2> QED
    BY <2>1
<1>2. /\ cuts[t] \in Nat /\ cuts[t + 1] \in Nat /\ cuts[t + 2] \in Nat
      /\ cuts[t] < cuts[t + 1] /\ cuts[t + 1] < cuts[t + 2]
      /\ code \in 0 .. Capacity - 1 /\ code + 1 \in 1 .. Len(entries)
      /\ code < CodeBound(t + 1)
      /\ IsPart(entries[code + 1], cuts[t + 1], cuts[t + 2])
      /\ Len(entries) = CodeBound(Len(codes))
  BY <1>1, CutFacts
<1>3. /\ m = CodeBound(t) /\ Len(previous) >= 1
      /\ IsPart(previous, cuts[t], cuts[t + 1])
      /\ \A i \in 1 .. m : dentries[i] = entries[i]
  BY <1>1 DEF IInv, AnyStreamInv, HonestInv
<1>4. /\ m \in AlphabetSize .. Capacity /\ m \in Nat
      /\ m < Capacity => m = AlphabetSize + t - 1 /\ CodeBound(t + 1) = m + 1
      /\ m = Capacity => CodeBound(t + 1) = Capacity
  BY <1>1, <1>3, BoundSteps
<1>5. previous \in Seq(Symbols) /\ entries \in Seq(Seq(Symbols))
  BY DEF IInv, TypeOK
<1> HIDE DEF code, m
<1>6. code < m \/ (code = m /\ m < Capacity)
  BY <1>2, <1>4, Constants
<1>7. Valid(code)
  BY <1>6 DEF Valid, m
<1>8. ASSUME NEW j, j = AlphabetSize + t, j <= Len(entries)
      PROVE  IsPart(entries[j], cuts[t], cuts[t + 1] + 1)
  <2>1. t \in 1 .. Len(entries) - AlphabetSize
    <3>1. Len(entries) \in Nat
      BY <1>5
    <3> QED
      BY <1>1, <1>8, <3>1, Constants
  <2> QED
    BY <1>8, <2>1 DEF IInv, CatalogInv
<1>9. IsPart(Named(code), cuts[t + 1], cuts[t + 2])
  <2>1. CASE code < m
    <3>1. Named(code) = dentries[code + 1]
      BY <2>1 DEF Named, m
    <3>2. code + 1 \in 1 .. m
      BY <1>2, <1>4, <2>1, Constants
    <3> QED
      BY <1>2, <1>3, <3>1, <3>2
  <2>2. CASE code = m /\ m < Capacity
    <3> DEFINE p == entries[code + 1]
    <3>1. Named(code) = Append(previous, previous[1])
      BY <1>4, <2>2 DEF Named, m
    <3>2. code + 1 = AlphabetSize + t
      BY <1>1, <1>4, <2>2, Constants
    <3>3. code + 1 <= Len(entries) /\ p \in Seq(Symbols)
      BY <1>2, <1>5, ElementOfSequence
    <3>4. IsPart(p, cuts[t], cuts[t + 1] + 1) /\ IsPart(p, cuts[t + 1], cuts[t + 2])
      BY <1>2, <1>8, <3>2, <3>3
    <3> HIDE DEF p
    <3>5. Len(p) >= 1 /\ Len(p) \in Nat
      BY <1>2, <3>4 DEF IsPart
    <3>6. p[1] = source[cuts[t]] /\ p[1] = source[cuts[t + 1]]
      <4>1. 1 \in 1 .. Len(p)
        BY <3>5
      <4>2. p[1] = source[cuts[t] + 1 - 1] /\ p[1] = source[cuts[t + 1] + 1 - 1]
        BY <3>4, <4>1 DEF IsPart
      <4>3. cuts[t] + 1 - 1 = cuts[t] /\ cuts[t + 1] + 1 - 1 = cuts[t + 1]
        BY <1>2
      <4> QED
        BY <4>2, <4>3
    <3>7. previous[1] = source[cuts[t]] /\ previous[1] \in Symbols
      <4>1. 1 \in 1 .. Len(previous)
        BY <1>3, <1>5
      <4>2. previous[1] = source[cuts[t] + 1 - 1]
        BY <1>3, <4>1 DEF IsPart
      <4>3. cuts[t] + 1 - 1 = cuts[t]
        BY <1>2
      <4> QED
        BY <1>5, <4>1, <4>2, <4>3, ElementOfSequence
    <3>8. IsPart(Append(previous, previous[1]), cuts[t], cuts[t + 1] + 1)
      <4>1. previous[1] = source[cuts[t + 1]]
        BY <3>6, <3>7
      <4>2. source[cuts[t + 1]] \in Symbols
        BY <3>7, <4>1
      <4>3. IsPart(Append(previous, source[cuts[t + 1]]), cuts[t], cuts[t + 1] + 1)
        BY <1>2, <1>3, <1>5, <4>2, PartExtends
      <4> QED
        BY <4>1, <4>3
    <3>9. Append(previous, previous[1]) = p
      <4>1. Append(previous, previous[1]) \in Seq(Symbols)
        BY <1>5, <3>7, AppendFacts
      <4>2. cuts[t] \in Nat /\ cuts[t + 1] + 1 \in Nat
        BY <1>2
      <4>3. p \in Seq(Symbols)
        BY <3>3
      <4>4. IsPart(p, cuts[t], cuts[t + 1] + 1)
        BY <3>4
      <4> QED
        BY ZenonT(40), <3>8, <4>1, <4>2, <4>3, <4>4, PartsEqual
    <3> QED
      BY <3>1, <3>4, <3>9
  <2> QED
    BY <1>6, <2>1, <2>2
<1>10. CodeBound(t + 1) <= Len(entries)
  <2>1. Len(codes) \in Nat \ {0} /\ t + 1 <= Len(codes)
    <3>1. Len(codes) \in Nat
      BY <1>1 DEF IInv, TypeOK
    <3> QED
      BY <1>1, <3>1
  <2> QED
    BY <1>1, <1>2, <2>1, BoundMonotone
<1>11. stream[t + 1] = code
  BY <1>1 DEF code
<1> QED
  BY <1>3, <1>7, <1>8, <1>9, <1>10, <1>11

LEMMA DecodeNextPreserves ==
    ASSUME IInv, DecodeNext PROVE IInv'
<1> DEFINE t == taken
           code == stream[t + 1]
           current == Named(code)
           entry == Append(previous, current[1])
           catalog == Insert(dentries, entry)
           m == Len(dentries)
<1>1. /\ pc = "decode" /\ t \in 1 .. Len(stream) - 1
      /\ UNCHANGED <<encoder, stream>>
      /\ Valid(code) => Consume(current, catalog)
      /\ ~Valid(code) => Reject
  BY DEF DecodeNext
<1>2. /\ stream \in Seq(Nat) /\ Len(stream) \in Nat
      /\ t \in Nat /\ t # 0 /\ t < Len(stream) /\ t + 1 \in 1 .. Len(stream)
      /\ t \in Nat \ {0} /\ (t + 1) + 1 = t + 2
      /\ previous \in Seq(Symbols) /\ dentries \in Seq(Seq(Symbols))
      /\ m \in Nat
  <2>1. /\ stream \in Seq(Nat) /\ previous \in Seq(Symbols)
        /\ dentries \in Seq(Seq(Symbols))
    BY DEF IInv, TypeOK
  <2> QED
    BY <1>1, <2>1
<1>3. code \in Nat
  BY <1>2, ElementOfSequence
<1>4. /\ m = CodeBound(t) /\ Len(previous) >= 1
      /\ \A i \in 1 .. m : Len(dentries[i]) >= 1
  BY <1>2 DEF IInv, AnyStreamInv
<1>5. /\ m \in AlphabetSize .. Capacity
      /\ m < Capacity => m = AlphabetSize + t - 1 /\ CodeBound(t + 1) = m + 1
      /\ m = Capacity => CodeBound(t + 1) = Capacity
  BY <1>2, <1>4, BoundSteps
<1>6. CASE ~Valid(code)
  <2>1. ~Honest
    <3>1. SUFFICES ASSUME Honest PROVE FALSE
      OBVIOUS
    <3>2. Valid(code)
      BY <1>1, <3>1, NextPhraseFacts
    <3> QED
      BY <1>6, <3>2
  <2> QED
    BY <1>1, <1>6, <2>1, RejectPreserves
<1>7. CASE Valid(code)
  <2>1. code < m \/ (code = m /\ m < Capacity)
    BY <1>7 DEF Valid
  <2>2. previous[1] \in Symbols /\ Len(previous) \in Nat
    <3>1. 1 \in 1 .. Len(previous)
      BY <1>2, <1>4
    <3> QED
      BY <1>2, <3>1, ElementOfSequence
  <2>3. current \in Seq(Symbols) /\ Len(current) >= 1
    <3>1. CASE code < m
      <4>1. code + 1 \in 1 .. m
        BY <1>2, <1>3, <3>1
      <4>2. dentries[code + 1] \in Seq(Symbols) /\ Len(dentries[code + 1]) >= 1
        BY <1>2, <1>4, <4>1, ElementOfSequence
      <4> QED
        BY <3>1, <4>2 DEF Named
    <3>2. CASE ~(code < m)
      <4>1. current = Append(previous, previous[1])
        BY <3>2 DEF Named
      <4>2. /\ Append(previous, previous[1]) \in Seq(Symbols)
            /\ Len(Append(previous, previous[1])) = Len(previous) + 1
        BY <1>2, <2>2, AppendFacts
      <4> QED
        BY <2>2, <4>1, <4>2
    <3> QED
      BY <3>1, <3>2
  <2> HIDE DEF current
  <2>4. current[1] \in Symbols /\ 1 \in 1 .. Len(current)
    <3>1. 1 \in 1 .. Len(current)
      BY <2>3
    <3> QED
      BY <2>3, <3>1, ElementOfSequence
  <2>5. /\ entry \in Seq(Symbols) /\ Len(entry) = Len(previous) + 1
        /\ Len(entry) >= 1
    <3>1. entry \in Seq(Symbols) /\ Len(entry) = Len(previous) + 1
      BY <1>2, <2>4, AppendFacts
    <3> QED
      BY <2>2, <3>1
  <2> HIDE DEF entry
  <2>6. /\ catalog \in Seq(Seq(Symbols))
        /\ \A i \in 1 .. m : catalog[i] = dentries[i]
        /\ m < Capacity => Len(catalog) = m + 1 /\ catalog[m + 1] = entry
        /\ m = Capacity => catalog = dentries
    <3>1. m <= Capacity
      BY <1>5, Constants
    <3> QED
      BY <1>2, <2>5, <3>1, InsertFacts
  <2> HIDE DEF catalog
  <2>7. Len(catalog) = CodeBound(t + 1)
    <3>1. CASE m < Capacity
      BY <1>5, <2>6, <3>1
    <3>2. CASE m = Capacity
      BY <1>5, <2>6, <3>2
    <3> QED
      BY <1>5, <3>1, <3>2, Constants
  <2>8. \A i \in 1 .. Len(catalog) : i \in 1 .. m \/ (i = m + 1 /\ m < Capacity)
    <3>1. CASE m < Capacity
      BY SMTT(40), <1>2, <2>6, <3>1
    <3>2. CASE m = Capacity
      BY <2>6, <3>2
    <3> QED
      BY <1>5, <3>1, <3>2, Constants
  <2>9. \A i \in 1 .. Len(catalog) : Len(catalog[i]) >= 1
    BY <1>4, <2>5, <2>6, <2>8
  <2>10. code < CodeBound(t + 1)
    <3>1. CASE m < Capacity
      BY <1>2, <1>3, <1>5, <2>1, <3>1
    <3>2. CASE m = Capacity
      BY <1>2, <1>3, <1>5, <2>1, <3>2, Constants
    <3> QED
      BY <1>5, <3>1, <3>2, Constants
  <2>11. ASSUME Honest
         PROVE  /\ Len(catalog) <= Len(entries)
                /\ \A i \in 1 .. Len(catalog) : catalog[i] = entries[i]
                /\ IsPart(current, cuts[t + 1], cuts[t + 2])
    <3>1. /\ IsPart(current, cuts[t + 1], cuts[t + 2])
          /\ IsPart(previous, cuts[t], cuts[t + 1])
          /\ \A j \in {AlphabetSize + t} :
                j <= Len(entries) => IsPart(entries[j], cuts[t], cuts[t + 1] + 1)
          /\ Len(catalog) <= Len(entries)
      BY <1>1, <2>7, <2>11, NextPhraseFacts DEF current
    <3>2. \A i \in 1 .. m : catalog[i] = entries[i]
      BY <2>6, <2>11 DEF IInv, HonestInv
    <3>3. ASSUME m < Capacity PROVE catalog[m + 1] = entries[m + 1]
      <4>1. m + 1 = AlphabetSize + t /\ m + 1 <= Len(entries)
        BY <1>2, <1>5, <2>6, <3>1, <3>3, Constants
      <4>2. IsPart(entries[m + 1], cuts[t], cuts[t + 1] + 1)
        BY <3>1, <4>1
      <4>3. /\ cuts[t] \in Nat /\ cuts[t + 1] \in Nat /\ cuts[t + 1] + 1 \in Nat
        <5>1. t \in 1 .. Len(codes)
          BY <1>2, <2>11 DEF Honest
        <5>2. cuts[t] \in Nat /\ cuts[t + 1] \in Nat
          BY <2>11, <5>1, CutFacts
        <5> QED
          BY <5>2
      <4>4. current[1] = source[cuts[t + 1]]
        <5>1. current[1] = source[cuts[t + 1] + 1 - 1]
          BY <2>4, <3>1 DEF IsPart
        <5>2. cuts[t + 1] + 1 - 1 = cuts[t + 1]
          BY <4>3
        <5> QED
          BY <5>1, <5>2
      <4>5. IsPart(entry, cuts[t], cuts[t + 1] + 1)
        <5>1. source[cuts[t + 1]] \in Symbols
          BY <2>4, <4>4
        <5>2. IsPart(Append(previous, source[cuts[t + 1]]), cuts[t], cuts[t + 1] + 1)
          BY <1>2, <3>1, <4>3, <5>1, PartExtends
        <5> QED
          BY <4>4, <5>2 DEF entry
      <4>6. entries[m + 1] \in Seq(Symbols)
        <5>1. m + 1 \in 1 .. Len(entries) /\ entries \in Seq(Seq(Symbols))
          BY <1>2, <4>1 DEF IInv, TypeOK
        <5> QED
          BY <5>1, ElementOfSequence
      <4>7. entry = entries[m + 1]
        BY <2>5, <4>2, <4>3, <4>5, <4>6, PartsEqual
      <4> QED
        BY <2>6, <3>3, <4>7
    <3>4. \A i \in 1 .. Len(catalog) : catalog[i] = entries[i]
      BY <2>8, <3>2, <3>3
    <3> QED
      BY <3>1, <3>4
  <2>12. Consume(current, catalog)
    BY <1>1, <1>7 DEF current, catalog, entry
  <2> QED
    BY <1>1, <1>2, <2>3, <2>6, <2>7, <2>9, <2>10, <2>11, <2>12, ConsumePreserves
<1> QED
  BY <1>6, <1>7
-----------------------------------------------------------------------------
LEMMA NextPreserves == IInv /\ [Next]_vars => IInv'
<1> SUFFICES ASSUME IInv, [Next]_vars PROVE IInv'
  OBVIOUS
<1>1. CASE UNCHANGED vars
  <2>1. UNCHANGED <<pc, source, next, phrase, entries, codes, cuts, stream, taken,
                    previous, dentries, output>>
    BY <1>1 DEF vars
  <2>2. TypeOK'
    BY <2>1 DEF IInv, TypeOK
  <2>3. CodesInv' /\ CatalogInv' /\ EntriesDistinct'
    BY <2>1 DEF IInv, CodesInv, CatalogInv, EntriesDistinct, IsPart, CodeBound
  <2>4. ProgressInv'
    BY <2>1 DEF IInv, ProgressInv, InCatalog, IsPart, CodeBound
  <2>5. AnyStreamInv' /\ HonestInv'
    BY <2>1 DEF IInv, AnyStreamInv, HonestInv, Honest, IsPart, CodeBound
  <2> QED
    BY <2>2, <2>3, <2>4, <2>5 DEF IInv
<1> QED
  BY <1>1, EncodeStartPreserves, ExtendPhrasePreserves, EmitCodePreserves,
     EmitLastPreserves, DeliverPreserves, DecodeFirstPreserves,
     DecodeNextPreserves, DecodeEndPreserves
  DEF Next

LEMMA Invariance == Spec => []IInv
  BY InitEstablishes, NextPreserves, PTL DEF Spec

\* Types and caps of both sides, on any stream.
THEOREM TypeCorrect == Spec => []TypeOK
<1>1. IInv => TypeOK
  BY DEF IInv
<1> QED
  BY <1>1, Invariance, PTL

\* lzw_decode never rejects what lzw_encode emitted.
THEOREM HonestStreamAccepted == Spec => []HonestIsAccepted
<1>1. IInv => HonestIsAccepted
  BY DEF IInv, HonestInv, HonestIsAccepted
<1> QED
  BY <1>1, Invariance, PTL

\* The catalogs, and so their digests, agree.
THEOREM CatalogsAlwaysAgree == Spec => []CatalogsAgree
<1>1. ASSUME IInv, Honest, pc = "done" PROVE Len(dentries) = Len(entries)
  <2>1. taken = Len(codes) /\ stream = codes /\ Len(codes) \in Nat
    BY <1>1 DEF IInv, AnyStreamInv, Honest, TypeOK
  <2>2. CASE Len(codes) = 0
    <3>1. codes = <<>>
      BY <2>2 DEF IInv, TypeOK
    <3> QED
      BY <1>1, <2>1, <2>2, <3>1, BaseCatalogFacts DEF IInv, AnyStreamInv, ProgressInv
  <2>3. CASE Len(codes) > 0
    BY <1>1, <2>1, <2>3 DEF IInv, AnyStreamInv, ProgressInv
  <2> QED
    BY <2>1, <2>2, <2>3
<1>2. IInv => CatalogsAgree
  BY <1>1 DEF IInv, HonestInv, CatalogsAgree
<1> QED
  BY <1>2, Invariance, PTL

\* The honest output stops where the part of a code ends.
LEMMA OutputFacts ==
    ASSUME IInv, Honest
    PROVE  /\ Len(output) \in Nat /\ Len(source) \in Nat
           /\ Len(output) = cuts[taken + 1] - 1 /\ Len(output) <= Len(source)
           /\ \A i \in 1 .. Len(output) : output[i] = source[i]
           /\ pc = "done" => Len(output) = Len(source)
<1>1. /\ taken \in 0 .. Len(codes) /\ Len(codes) \in Nat
      /\ cuts \in Seq(1 .. Len(source) + 1)
  BY DEF IInv, TypeOK, Honest
<1>2. Len(cuts) = Len(codes) + 1
  BY DEF IInv, CodesInv
<1>3. taken + 1 \in 1 .. Len(cuts)
  BY <1>1, <1>2
<1>4. cuts[taken + 1] \in 1 .. Len(source) + 1
  BY <1>1, <1>3, ElementOfSequence
<1>5. pc = "done" => cuts[taken + 1] = Len(source) + 1
  <2>1. pc = "done" => taken + 1 = Len(cuts)
    BY <1>2 DEF IInv, AnyStreamInv, Honest
  <2>2. pc = "done" => cuts[Len(cuts)] = Len(source) + 1
    BY DEF IInv, ProgressInv
  <2> QED
    BY <2>1, <2>2
<1>6. IsPart(output, 1, cuts[taken + 1])
  BY DEF IInv, HonestInv
<1>7. Len(output) = cuts[taken + 1] - 1 /\ Len(output) \in Nat /\ Len(source) \in Nat
  BY <1>6, SourceIsSequence DEF IsPart, IInv, TypeOK
<1>8. \A i \in 1 .. Len(output) : output[i] = source[i]
  <2>1. ASSUME NEW i \in 1 .. Len(output) PROVE output[i] = source[i]
    <3>1. output[i] = source[1 + i - 1] /\ 1 + i - 1 = i
      BY <1>6, <1>7 DEF IsPart
    <3> QED
      BY <3>1
  <2> QED
    BY <2>1
<1> QED
  BY <1>4, <1>5, <1>7, <1>8

\* Decoding gives back the source, symbol for symbol.
THEOREM ExactReplayOfSource == Spec => []OutputIsSource
<1>1. IInv => OutputIsSource
  BY OutputFacts DEF OutputIsSource
<1> QED
  BY <1>1, Invariance, PTL

\* Whatever the stream, an accepted one is causal.
THEOREM OnlyCausalStreamsAccepted == Spec => []AcceptedStreamsAreCausal
<1>1. IInv => AcceptedStreamsAreCausal
  BY DEF IInv, AnyStreamInv, AcceptedStreamsAreCausal
<1> QED
  BY <1>1, Invariance, PTL

\* No phrase has two codes.
THEOREM PhrasesHaveOneCode == Spec => []EntriesDistinct
<1>1. IInv => EntriesDistinct
  BY DEF IInv, CatalogInv
<1> QED
  BY <1>1, Invariance, PTL

\* Every source survives encoding and decoding: its stream is never refused
\* and gives it back.
THEOREM HonestStreamRestored == Spec => []HonestIsRestored
  BY HonestStreamAccepted, ExactReplayOfSource, PTL DEF HonestIsRestored

-----------------------------------------------------------------------------
(* The LZW codec as a channel.                                             *)

\* The encoder has read the whole source when the codes are handed over.
EndInv == pc \notin {"start", "encode"} => next = Len(source) + 1

LEMMA EndStep == ASSUME IInv, EndInv, [Next]_vars PROVE EndInv'
<1>1. source \in Seq(Symbols) /\ Len(source) \in Nat /\ next \in 1 .. Len(source) + 1
  BY SourceIsSequence DEF IInv, TypeOK
<1>2. CASE EncodeEmpty
  <2>1. next = 1 /\ next' = next /\ source' = source /\ source = <<>>
    BY <1>2 DEF EncodeEmpty, encoder, IInv, ProgressInv
  <2> QED
    BY <2>1 DEF EndInv
<1>3. CASE EncodeFirst \/ ExtendPhrase \/ EmitCode
  BY <1>3 DEF EncodeFirst, ExtendPhrase, EmitCode, EndInv
<1>4. CASE EmitLast
  BY <1>1, <1>4 DEF EmitLast, EndInv
<1>5. CASE \E s \in Deliverable : Deliver(s)
  BY <1>5 DEF Deliver, encoder, EndInv
<1>6. CASE DecodeFirst \/ DecodeNext \/ DecodeEnd
  BY <1>6 DEF DecodeFirst, DecodeNext, DecodeEnd, encoder, EndInv
<1>7. CASE UNCHANGED vars
  BY <1>7 DEF vars, EndInv
<1> QED
  BY <1>2, <1>3, <1>4, <1>5, <1>6, <1>7 DEF Next

LEMMA ReplayInit == Init => Replay!Init
<1> SUFFICES ASSUME Init PROVE Replay!Init
  OBVIOUS
<1>1. pc = "start" /\ source \in Seq(Symbols) /\ ~Honest
  BY LzwAssumption DEF Init, Honest
<1>2. SubSeq(source, 1, 0) = <<>>
  BY <1>1
<1> QED
  BY <1>1, <1>2 DEF Replay!Init

\* One symbol more read is one accepted.
LEMMA OneRead ==
    ASSUME IInv, IInv', source' = source, pc \in {"start", "encode"}, pc' = "encode",
           NEW m \in 0 .. Len(source) - 1,
           m = IF pc = "start" THEN 0 ELSE next - 1, next' = m + 2
    PROVE  Replay!Accept
<1>1. source \in Seq(Symbols) /\ Len(source) \in Nat
  BY SourceIsSequence DEF IInv, TypeOK
<1>2. PICK s : s = SubSeq(source, 1, m)
  OBVIOUS
<1>3. PICK t : t = SubSeq(source, 1, m + 1)
  OBVIOUS
<1>4. /\ s \in Seq(Symbols) /\ t \in Seq(Symbols) /\ Len(s) = m /\ Len(t) = m + 1
      /\ SubSeq(t, 1, Len(s)) = s
  BY <1>1, <1>2, <1>3
<1>5. next' - 1 = m + 1
  OBVIOUS
<1>6. /\ SubSeq(source, 1, IF pc = "start" THEN 0 ELSE next - 1) = s
      /\ SubSeq(source', 1, IF pc' = "start" THEN 0 ELSE next' - 1) = t
  BY <1>2, <1>3, <1>5
<1>7. ~Honest /\ ~Honest'
  BY DEF Honest
<1>8. Len(t) > Len(s)
  BY <1>4
<1> QED
  BY <1>4, <1>6, <1>7, <1>8 DEF Replay!Accept

\* The part of a code is handed back at once.
LEMMA OneReplayed ==
    ASSUME IInv, IInv', EndInv, UNCHANGED <<source, next, codes, cuts, stream>>,
           pc = "decode", Honest, taken' = taken + 1, pc' = pc
    PROVE  Replay!Replay
<1>1. Honest'
  BY DEF Honest
<1>2. /\ Len(output) \in Nat /\ Len(source) \in Nat
      /\ Len(output) = cuts[taken + 1] - 1
  BY OutputFacts
<1>3. /\ Len(output') \in Nat /\ Len(output') <= Len(source)
      /\ Len(output') = cuts[taken' + 1] - 1
      /\ \A i \in 1 .. Len(output') : output'[i] = source[i]
  <2>1. (/\ Len(output) \in Nat /\ Len(output) <= Len(source)
         /\ Len(output) = cuts[taken + 1] - 1
         /\ \A i \in 1 .. Len(output) : output[i] = source[i])'
    BY <1>1, OutputFacts, PTL
  <2> QED
    BY <2>1
<1>4. Len(output') > Len(output)
  <2>1. stream = codes /\ taken' \in 0 .. Len(codes) /\ taken \in Nat /\ Len(codes) \in Nat
    <3>1. taken' \in 0 .. Len(stream') /\ stream' \in Seq(Nat) /\ codes' = codes /\ stream' = stream
      BY DEF IInv, TypeOK
    <3>2. stream = codes /\ taken \in Nat
      BY DEF IInv, TypeOK, Honest
    <3> QED
      BY <3>1, <3>2
  <2>2. PICK k \in 1 .. Len(codes) : k = taken + 1
    BY <2>1
  <2>3. cuts[k] < cuts[k + 1]
    BY <2>2 DEF IInv, CodesInv
  <2>4. Len(output) = cuts[k] - 1 /\ Len(output') = cuts[k + 1] - 1
    <3>1. cuts' = cuts /\ taken' = k
      BY <2>2
    <3> QED
      BY <1>2, <1>3, <2>2, <3>1
  <2>5. cuts[k] \in Nat /\ cuts[k + 1] \in Nat
    <3>1. cuts \in Seq(1 .. Len(source) + 1) /\ Len(cuts) = Len(codes) + 1
      BY DEF IInv, TypeOK, CodesInv
    <3>2. k \in 1 .. Len(cuts) /\ k + 1 \in 1 .. Len(cuts)
      BY <2>1, <3>1
    <3>3. cuts[k] \in 1 .. Len(source) + 1 /\ cuts[k + 1] \in 1 .. Len(source) + 1
      BY <3>1, <3>2, ElementOfSequence
    <3> QED
      BY <1>2, <3>3
  <2> QED
    BY <2>3, <2>4, <2>5
<1>5. source \in Seq(Symbols) /\ output \in Seq(Symbols) /\ output' \in Seq(Symbols)
  BY SourceIsSequence DEF IInv, TypeOK
<1>6. PICK n \in Nat : n = Len(output') /\ n \in Len(output) + 1 .. Len(source)
  BY <1>2, <1>3, <1>4
<1>7. output' = SubSeq(source, 1, n)
  <2>1. output' = [i \in 1 .. n |-> output'[i]]
    BY <1>5, <1>6
  <2>2. SubSeq(source, 1, n) = [i \in 1 .. n |-> source[i]]
    BY <1>5, <1>6
  <2> QED
    BY <1>3, <1>6, <2>1, <2>2
<1>8. /\ SubSeq(source, 1, IF pc = "start" THEN 0 ELSE next - 1) = source
      /\ SubSeq(source', 1, IF pc' = "start" THEN 0 ELSE next' - 1) = source
  <2>1. next = Len(source) + 1 /\ next' = next /\ source' = source
    BY DEF EndInv
  <2>2. SubSeq(source, 1, next - 1) = source
    BY <1>2, <1>5, <2>1
  <2> QED
    BY <2>1, <2>2
<1>9. /\ (IF Honest THEN output ELSE <<>>) = output
      /\ (IF Honest' THEN output' ELSE <<>>) = SubSeq(source, 1, n)
  BY <1>1, <1>7
<1> QED
  BY <1>6, <1>8, <1>9 DEF Replay!Replay

\* What is not accepted, sealed or handed back does not show.
LEMMA NothingShows ==
    ASSUME UNCHANGED <<source, next>>, pc # "start", pc' # "start",
           (pc \in {"deliver", "decode", "done", "rejected"})
               = (pc \in {"deliver", "decode", "done", "rejected"})',
           (IF Honest THEN output ELSE <<>>) = (IF Honest' THEN output' ELSE <<>>)
    PROVE  UNCHANGED Replay!vars
<1>1. SubSeq(source, 1, IF pc = "start" THEN 0 ELSE next - 1)
        = SubSeq(source', 1, IF pc' = "start" THEN 0 ELSE next' - 1)
  OBVIOUS
<1> QED
  BY <1>1 DEF Replay!vars

\* Reading accepts, the end of the source seals, a code hands back the phrase
\* it stands for; the codes of another stream hand back nothing.
LEMMA ReplayStep ==
    ASSUME IInv, IInv', EndInv, [Next]_vars
    PROVE  [Replay!Next]_(Replay!vars)
<1>1. source \in Seq(Symbols) /\ Len(source) \in Nat /\ next \in 1 .. Len(source) + 1
  BY SourceIsSequence DEF IInv, TypeOK
<1>2. CASE EncodeEmpty
  <2>1. /\ pc = "start" /\ pc' = "deliver" /\ next = 1 /\ next' = 1 /\ source' = source
        /\ source = <<>>
    BY <1>2 DEF EncodeEmpty, encoder, IInv, ProgressInv
  <2>2. /\ SubSeq(source, 1, IF pc = "start" THEN 0 ELSE next - 1) = <<>>
        /\ SubSeq(source', 1, IF pc' = "start" THEN 0 ELSE next' - 1) = <<>>
    BY <2>1
  <2>3. ~Honest /\ ~Honest'
    BY <2>1 DEF Honest
  <2>4. Replay!Seal
    BY <2>1, <2>2, <2>3 DEF Replay!Seal
  <2> QED
    BY <2>4 DEF Replay!Next
<1>3. CASE EncodeFirst
  <2>1. /\ pc = "start" /\ pc' = "encode" /\ source' = source /\ next' = 0 + 2
        /\ 0 \in 0 .. Len(source) - 1
    BY <1>1, <1>3 DEF EncodeFirst
  <2>2. PICK m \in 0 .. Len(source) - 1 : m = 0
    BY <2>1
  <2>3. Replay!Accept
    <3>1. m = (IF pc = "start" THEN 0 ELSE next - 1) /\ next' = m + 2
      BY <2>1, <2>2
    <3> QED
      BY <2>1, <3>1, OneRead
  <2> QED
    BY <2>3 DEF Replay!Next
<1>4. CASE ExtendPhrase \/ EmitCode
  <2>1. /\ pc = "encode" /\ pc' = "encode" /\ source' = source /\ next' = next + 1
        /\ next <= Len(source)
    BY <1>4 DEF ExtendPhrase, EmitCode
  <2>2. PICK m \in 0 .. Len(source) - 1 : m = next - 1
    BY <1>1, <2>1
  <2>3. Replay!Accept
    <3>1. m = (IF pc = "start" THEN 0 ELSE next - 1) /\ next' = m + 2
      BY <1>1, <2>1, <2>2
    <3> QED
      BY <2>1, <3>1, OneRead
  <2> QED
    BY <2>3 DEF Replay!Next
<1>5. CASE EmitLast
  <2>1. pc = "encode" /\ pc' = "deliver" /\ UNCHANGED <<source, next>>
    BY <1>5 DEF EmitLast
  <2>2. ~Honest /\ ~Honest'
    BY <2>1 DEF Honest
  <2>3. SubSeq(source, 1, IF pc = "start" THEN 0 ELSE next - 1)
          = SubSeq(source', 1, IF pc' = "start" THEN 0 ELSE next' - 1)
    BY <2>1
  <2>4. Replay!Seal
    BY <2>1, <2>2, <2>3 DEF Replay!Seal
  <2> QED
    BY <2>4 DEF Replay!Next
<1>6. CASE \E s \in Deliverable : Deliver(s)
  <2>1. /\ pc = "deliver" /\ pc' \in {"decode", "rejected"} /\ UNCHANGED <<source, next, output>>
    BY <1>6 DEF Deliver, encoder
  <2>2. output = <<>> /\ ~Honest
    BY <2>1 DEF IInv, AnyStreamInv, Honest
  <2> QED
    BY <2>1, <2>2, NothingShows
<1>7. CASE DecodeFirst \/ DecodeNext
  <2>1. /\ pc = "decode" /\ UNCHANGED <<source, next, codes, cuts, stream>>
        /\ \/ pc' = pc /\ taken' = taken + 1
           \/ pc' = "rejected" /\ output' = output
    BY <1>7 DEF DecodeFirst, DecodeNext, encoder, Consume, Reject
  <2>2. Honest' <=> Honest
    BY <2>1 DEF Honest
  <2>3. CASE pc' = "rejected" /\ output' = output
    BY <2>1, <2>2, <2>3, NothingShows
  <2>4. CASE pc' = pc /\ taken' = taken + 1 /\ ~Honest
    BY <2>1, <2>2, <2>4, NothingShows
  <2>5. CASE pc' = pc /\ taken' = taken + 1 /\ Honest
    <3>1. Replay!Replay
      BY <2>1, <2>5, OneReplayed
    <3> QED
      BY <3>1 DEF Replay!Next
  <2> QED
    BY <2>1, <2>3, <2>4, <2>5
<1>8. CASE DecodeEnd
  <2>1. /\ pc = "decode" /\ pc' = "done" /\ UNCHANGED <<source, next, codes, stream, output>>
    BY <1>8 DEF DecodeEnd, encoder, decoder
  <2>2. Honest' <=> Honest
    BY <2>1 DEF Honest
  <2> QED
    BY <2>1, <2>2, NothingShows
<1>9. CASE UNCHANGED vars
  <2>1. UNCHANGED <<pc, source, next, codes, stream, output>>
    BY <1>9 DEF vars
  <2>2. Honest' <=> Honest
    BY <2>1 DEF Honest
  <2>3. SubSeq(source, 1, IF pc = "start" THEN 0 ELSE next - 1)
          = SubSeq(source', 1, IF pc' = "start" THEN 0 ELSE next' - 1)
    BY <2>1
  <2> QED
    BY <2>1, <2>2, <2>3 DEF Replay!vars
<1> QED
  BY <1>2, <1>3, <1>4, <1>5, <1>6, <1>7, <1>8, <1>9 DEF Next

\* The LZW codec is an exact-replay channel of symbols: what comes out is a
\* prefix of what went in, and it went in before it came out.
THEOREM LzwReplays == Spec => Replay!Spec
<1>1. Init => EndInv
  BY DEF Init, EndInv
<1>2. IInv /\ EndInv /\ [Next]_vars => EndInv'
  BY EndStep
<1>3. IInv /\ IInv' /\ EndInv /\ [Next]_vars => [Replay!Next]_(Replay!vars)
  BY ReplayStep
<1> QED
  BY <1>1, <1>2, <1>3, InitEstablishes, NextPreserves, ReplayInit, PTL DEF Spec, Replay!Spec

-----------------------------------------------------------------------------
(* The ACER glyph codec: bytes, predictions and views.                     *)

LEMMA GlyphConstants ==
    /\ Base \in Nat \ {0} /\ MaxLag \in Nat \ {0}
    /\ Len(Views) \in Nat \ {0} /\ SampleBytes \in Nat \ {0}
    /\ \A v \in ViewIds : Views[v].lag \in 1 .. MaxLag
    /\ \A b, p \in Bytes : Mirror(b) \in Bytes /\ Xor(b, p) \in Bytes
                             /\ Xor(Xor(b, p), p) = b
    /\ \A n \in UNION {1 .. b : b \in BlockSizes} : \A r \in [1 .. n -> Bytes] :
          /\ Glyph(r).counts[1] \in 1 .. n
          /\ Glyph(r).counts[2] \in 1 .. Glyph(r).counts[1]
          /\ Glyph(r).body \in Seq(Bytes)
          /\ Len(Glyph(r).body) = PackedLength(Glyph(r).counts[2])
          /\ Unglyph(Glyph(r).body, Glyph(r).counts, n) =
                {[residual |-> r, catalogs |-> Glyph(r).catalogs]}
    /\ BlockSizes \subseteq Nat \ {0} /\ Inputs \subseteq Seq(Bytes)
    /\ Caps \subseteq Nat
  BY AcerGlyphAssumption

LEMMA SegmentOf ==
    ASSUME NEW S, NEW s \in Seq(S), NEW a \in Nat, NEW b \in Int, 1 <= a, b <= Len(s)
    PROVE  /\ SubSeq(s, a, b) \in Seq(S)
           /\ Len(SubSeq(s, a, b)) = (IF a <= b THEN (b - a) + 1 ELSE 0)
           /\ \A i \in 1 .. Len(SubSeq(s, a, b)) : SubSeq(s, a, b)[i] = s[(a + i) - 1]
  OBVIOUS

LEMMA SameSequence ==
    ASSUME NEW S, NEW T, NEW s \in Seq(S), NEW t \in Seq(T), Len(s) = Len(t),
           \A i \in 1 .. Len(s) : s[i] = t[i]
    PROVE  s = t
  OBVIOUS

\* Recent leaves the last MaxLag bytes.
LEMMA RecentFacts ==
    ASSUME NEW s \in Seq(Bytes)
    PROVE  /\ Recent(s) \in Seq(Bytes)
           /\ Len(Recent(s)) = (IF Len(s) > MaxLag THEN MaxLag ELSE Len(s))
           /\ \A i \in 1 .. Len(Recent(s)) : Recent(s)[i] = s[(Len(s) - Len(Recent(s))) + i]
<1>1. PICK n \in Nat : n = Len(s)
  OBVIOUS
<1>2. PICK m \in Nat \ {0} : m = MaxLag
  BY GlyphConstants
<1>3. PICK a \in Nat : a = IF n > m THEN (n - m) + 1 ELSE 1
  BY <1>1, <1>2
<1>4. Recent(s) = SubSeq(s, a, n)
  BY <1>1, <1>2, <1>3 DEF Recent
<1>5. /\ SubSeq(s, a, n) \in Seq(Bytes)
      /\ Len(SubSeq(s, a, n)) = (IF a <= n THEN (n - a) + 1 ELSE 0)
      /\ \A i \in 1 .. Len(SubSeq(s, a, n)) : SubSeq(s, a, n)[i] = s[(a + i) - 1]
  BY <1>1, <1>3, SegmentOf
<1>6. PICK l \in Nat : l = Len(Recent(s))
  <2>1. Recent(s) \in Seq(Bytes)
    BY <1>4, <1>5
  <2> QED
    BY <2>1
<1>7. l = IF n > m THEN m ELSE n
  BY <1>3, <1>4, <1>5, <1>6
<1>8. ASSUME NEW i \in 1 .. l PROVE Recent(s)[i] = s[(n - l) + i]
  <2>1. (a + i) - 1 = (n - l) + i
    BY <1>3, <1>7
  <2> QED
    BY <1>4, <1>5, <1>6, <2>1
<1> QED
  BY <1>1, <1>2, <1>4, <1>5, <1>6, <1>7, <1>8

\* Cutting before more comes makes no difference.
LEMMA RecentJoined ==
    ASSUME NEW s \in Seq(Bytes), NEW t \in Seq(Bytes)
    PROVE  Recent(Recent(s) \o t) = Recent(s \o t)
<1>1. PICK n, k, m \in Nat : n = Len(s) /\ k = Len(t) /\ m = MaxLag
  BY GlyphConstants
<1>2. PICK r \in Seq(Bytes) : r = Recent(s)
  BY RecentFacts
<1>3. PICK l \in Nat : l = Len(r)
  OBVIOUS
<1>4. l = IF n > m THEN m ELSE n
  BY <1>1, <1>2, <1>3, RecentFacts
<1>5. \A i \in 1 .. l : r[i] = s[(n - l) + i]
  BY <1>1, <1>2, <1>3, RecentFacts
<1>6. PICK x \in Seq(Bytes) : x = r \o t
  BY ConcatFacts
<1>7. PICK y \in Seq(Bytes) : y = s \o t
  BY ConcatFacts
<1>8. /\ Len(x) = l + k
      /\ \A i \in 1 .. l : x[i] = r[i]
      /\ \A i \in 1 .. k : x[l + i] = t[i]
  BY <1>1, <1>3, <1>6, ConcatFacts
<1>9. /\ Len(y) = n + k
      /\ \A i \in 1 .. n : y[i] = s[i]
      /\ \A i \in 1 .. k : y[n + i] = t[i]
  BY <1>1, <1>7, ConcatFacts
<1>10. ASSUME NEW i \in 1 .. l + k PROVE x[i] = y[(n - l) + i]
  <2>1. CASE i <= l
    <3>1. i \in 1 .. l /\ (n - l) + i \in 1 .. n
      BY <1>4, <2>1
    <3> QED
      BY <1>5, <1>8, <1>9, <3>1
  <2>2. CASE ~(i <= l)
    <3>1. PICK j \in 1 .. k : j = i - l
      BY <2>2
    <3>2. i = l + j /\ (n - l) + i = n + j
      BY <3>1
    <3> QED
      BY <1>8, <1>9, <3>2
  <2> QED
    BY <2>1, <2>2
<1>11. PICK a \in Seq(Bytes) : a = Recent(x)
  BY RecentFacts
<1>12. PICK b \in Seq(Bytes) : b = Recent(y)
  BY RecentFacts
<1>13. /\ Len(a) = IF l + k > m THEN m ELSE l + k
       /\ \A i \in 1 .. Len(a) : a[i] = x[((l + k) - Len(a)) + i]
  <2>1. PICK c \in Nat : c = l + k /\ Len(x) = c
    BY <1>1, <1>3, <1>8
  <2>2. /\ Len(a) = IF Len(x) > MaxLag THEN MaxLag ELSE Len(x)
        /\ \A i \in 1 .. Len(a) : a[i] = x[(Len(x) - Len(a)) + i]
    BY <1>6, <1>11, RecentFacts
  <2> QED
    BY <1>1, <2>1, <2>2
<1>14. /\ Len(b) = IF n + k > m THEN m ELSE n + k
       /\ \A i \in 1 .. Len(b) : b[i] = y[((n + k) - Len(b)) + i]
  <2>1. PICK c \in Nat : c = n + k /\ Len(y) = c
    BY <1>1, <1>9
  <2>2. /\ Len(b) = IF Len(y) > MaxLag THEN MaxLag ELSE Len(y)
        /\ \A i \in 1 .. Len(b) : b[i] = y[(Len(y) - Len(b)) + i]
    BY <1>7, <1>12, RecentFacts
  <2> QED
    BY <1>1, <2>1, <2>2
<1>15. PICK q \in Nat : q = Len(a)
  OBVIOUS
<1>16. Len(b) = q
  BY <1>4, <1>13, <1>14, <1>15
<1>17. ASSUME NEW i \in 1 .. q PROVE a[i] = b[i]
  <2>1. PICK j \in 1 .. l + k : j = ((l + k) - q) + i
    <3>1. q <= l + k
      BY <1>1, <1>3, <1>13, <1>15
    <3>2. ((l + k) - q) + i \in 1 .. l + k
      BY <1>1, <1>3, <1>15, <3>1
    <3> QED
      BY <3>2
  <2>2. (n - l) + j = ((n + k) - q) + i
    BY <2>1
  <2>3. a[i] = x[j] /\ b[i] = y[(n - l) + j]
    BY <1>13, <1>14, <1>15, <1>16, <2>1, <2>2
  <2> QED
    BY <1>10, <2>3
<1> QED
  BY <1>2, <1>6, <1>7, <1>11, <1>12, <1>15, <1>16, <1>17, SameSequence

\* One byte more.
LEMMA Remembered ==
    ASSUME NEW s \in Seq(Bytes), NEW b \in Bytes
    PROVE  Remember(Recent(s), b) = Recent(Append(s, b))
<1>1. Recent(s) \in Seq(Bytes) /\ <<b>> \in Seq(Bytes)
  BY RecentFacts
<1>2. Append(Recent(s), b) = Recent(s) \o <<b>> /\ Append(s, b) = s \o <<b>>
  BY <1>1
<1> QED
  BY <1>1, <1>2, RecentJoined DEF Remember

\* The prefixes that are cut from the whole source are the recent bytes.
LEMMA BeforeIsRecent ==
    ASSUME NEW s \in Seq(Bytes), NEW n \in 0 .. Len(s)
    PROVE  Before(s, n) = Recent(SubSeq(s, 1, n)) /\ Before(s, n) \in Seq(Bytes)
<1>1. PICK m \in Nat \ {0} : m = MaxLag
  BY GlyphConstants
<1>2. PICK t \in Seq(Bytes) : t = SubSeq(s, 1, n)
  <2>1. 1 \in Nat /\ n \in Int /\ n <= Len(s) /\ 1 <= 1
    OBVIOUS
  <2> QED
    BY <2>1, SegmentOf
<1>3. Len(t) = n /\ \A i \in 1 .. n : t[i] = s[i]
  BY <1>2
<1>4. PICK a \in Nat : a = IF n > m THEN (n - m) + 1 ELSE 1
  <2>1. (IF n > m THEN (n - m) + 1 ELSE 1) \in Nat
    BY <1>1
  <2> QED
    BY <2>1
<1>5. Before(s, n) = SubSeq(s, a, n) /\ Recent(t) = SubSeq(t, a, n)
  BY <1>1, <1>3, <1>4 DEF Before, Recent
<1>6. PICK x \in Seq(Bytes) : x = SubSeq(s, a, n)
  <2>1. a \in Nat /\ n \in Int /\ n <= Len(s) /\ 1 <= a
    BY <1>1, <1>4
  <2> QED
    BY <2>1, SegmentOf
<1>7. PICK y \in Seq(Bytes) : y = SubSeq(t, a, n)
  <2>1. a \in Nat /\ n \in Int /\ n <= Len(t) /\ 1 <= a
    BY <1>1, <1>3, <1>4
  <2> QED
    BY <1>2, <2>1, SegmentOf
<1>8. Len(x) = (IF a <= n THEN (n - a) + 1 ELSE 0) /\ \A i \in 1 .. Len(x) : x[i] = s[(a + i) - 1]
  BY <1>4, <1>6, SegmentOf
<1>9. Len(y) = (IF a <= n THEN (n - a) + 1 ELSE 0) /\ \A i \in 1 .. Len(y) : y[i] = t[(a + i) - 1]
  BY <1>3, <1>4, <1>7, SegmentOf
<1>10. ASSUME NEW i \in 1 .. Len(x) PROVE x[i] = y[i]
  <2>1. (a + i) - 1 \in 1 .. n
    BY <1>4, <1>8
  <2> QED
    BY <1>3, <1>8, <1>9, <2>1
<1>11. x = y
  BY <1>8, <1>9, <1>10, SameSequence
<1> QED
  BY <1>2, <1>5, <1>6, <1>7, <1>11

LEMMA PredictedByte ==
    ASSUME NEW seen \in Seq(Bytes), NEW v \in ViewIds
    PROVE  Predict(seen, v) \in Bytes
<1>1. PICK lag \in Nat : lag = Views[v].lag /\ lag >= 1
  BY GlyphConstants
<1>2. 0 \in Bytes
  BY GlyphConstants DEF Bytes
<1> DEFINE p == IF Len(seen) >= Views[v].lag
                  THEN seen[(Len(seen) - Views[v].lag) + 1] ELSE 0
<1>3. p \in Bytes
  BY <1>1, <1>2
<1>4. Predict(seen, v) = IF Views[v].anti THEN Mirror(p) ELSE p
  BY DEF Predict
<1> HIDE DEF p
<1>5. Mirror(p) \in Bytes
  BY <1>3, GlyphConstants
<1> QED
  BY <1>3, <1>4, <1>5

\* What Project leaves of byte b where p is predicted.
Residue(b, p, v) == IF Views[v].delta THEN (b - p) % Base ELSE Xor(b, p)

LEMMA Modular ==
    ASSUME NEW b \in Bytes, NEW p \in Bytes
    PROVE  /\ (b - p) % Base \in Bytes /\ (b + p) % Base \in Bytes
           /\ (((b - p) % Base) + p) % Base = b
           /\ (((b + p) % Base) - p) % Base = b
<1>1. PICK n \in Nat \ {0} : n = Base
  BY GlyphConstants
<1>2. \A x \in 0 .. n - 1 : x % n = x
  BY <1>1
<1>3. \A x \in 0 .. n - 1 : (x + n) % n = x
  BY <1>1
<1>4. \A x \in 0 .. n - 1 : (x - n) % n = x
  BY <1>1
<1>5. b \in 0 .. n - 1 /\ p \in 0 .. n - 1
  BY <1>1 DEF Bytes
<1>6. /\ (b - p) % n \in 0 .. n - 1
      /\ (((b - p) % n) + p) % n = b
  <2>1. CASE b >= p
    <3>1. b - p \in 0 .. n - 1
      BY <1>5, <2>1
    <3>2. (b - p) % n = b - p
      BY <1>2, <3>1
    <3>3. (b - p) + p = b
      BY <1>5
    <3> QED
      BY <1>2, <1>5, <3>1, <3>2, <3>3
  <2>2. CASE ~(b >= p)
    <3>1. PICK x \in 0 .. n - 1 : x = (b - p) + n
      BY <1>5, <2>2
    <3>2. b - p = x - n /\ x + p = b + n
      BY <1>5, <3>1
    <3>3. (b - p) % n = x /\ (b + n) % n = b
      BY <1>3, <1>4, <1>5, <3>2
    <3> QED
      BY <3>1, <3>2, <3>3
  <2> QED
    BY <2>1, <2>2
<1>7. /\ (b + p) % n \in 0 .. n - 1
      /\ (((b + p) % n) - p) % n = b
  <2>1. CASE b + p < n
    <3>1. b + p \in 0 .. n - 1
      BY <1>5, <2>1
    <3>2. (b + p) % n = b + p
      BY <1>2, <3>1
    <3>3. (b + p) - p = b
      BY <1>5
    <3> QED
      BY <1>2, <1>5, <3>1, <3>2, <3>3
  <2>2. CASE ~(b + p < n)
    <3>1. PICK x \in 0 .. n - 1 : x = (b + p) - n
      BY <1>5, <2>2
    <3>2. b + p = x + n /\ x - p = b - n
      BY <1>5, <3>1
    <3>3. (b + p) % n = x /\ (b - n) % n = b
      BY <1>3, <1>4, <1>5, <3>2
    <3> QED
      BY <3>1, <3>2, <3>3
  <2> QED
    BY <2>1, <2>2
<1> QED
  BY <1>1, <1>6, <1>7 DEF Bytes

\* restore_block's step undoes project_block's, and the other way round.
LEMMA ByteRestored ==
    ASSUME NEW b \in Bytes, NEW seen \in Seq(Bytes), NEW v \in ViewIds
    PROVE  /\ Residue(b, Predict(seen, v), v) \in Bytes
           /\ RestoreByte(Residue(b, Predict(seen, v), v), seen, v) = b
           /\ RestoreByte(b, seen, v) \in Bytes
           /\ Residue(RestoreByte(b, seen, v), Predict(seen, v), v) = b
<1>1. PICK p \in Bytes : p = Predict(seen, v)
  BY PredictedByte
<1>2. /\ Xor(b, p) \in Bytes /\ Xor(Xor(b, p), p) = b
  BY GlyphConstants
<1>3. CASE Views[v].delta
  BY <1>1, <1>3, Modular DEF Residue, RestoreByte
<1>4. CASE ~Views[v].delta
  BY <1>1, <1>2, <1>4 DEF Residue, RestoreByte
<1> QED
  BY <1>3, <1>4

LEMMA Projected ==
    ASSUME NEW b \in Seq(Bytes), NEW prefix \in Seq(Bytes), NEW v \in ViewIds
    PROVE  /\ Project(b, prefix, v) \in Seq(Bytes)
           /\ Len(Project(b, prefix, v)) = Len(b)
           /\ \A j \in 1 .. Len(b) :
                 LET seen == Recent(Recent(prefix) \o SubSeq(b, 1, j - 1))
                 IN  /\ seen \in Seq(Bytes)
                     /\ Project(b, prefix, v)[j] = Residue(b[j], Predict(seen, v), v)
<1> DEFINE Seen(j) == Recent(Recent(prefix) \o SubSeq(b, 1, j - 1))
           f == [j \in 1 .. Len(b) |-> Residue(b[j], Predict(Seen(j), v), v)]
<1>1. ASSUME NEW j \in 1 .. Len(b) PROVE Seen(j) \in Seq(Bytes)
  <2>1. SubSeq(b, 1, j - 1) \in Seq(Bytes)
    <3>1. 1 \in Nat /\ j - 1 \in Int /\ 1 <= 1 /\ j - 1 <= Len(b)
      OBVIOUS
    <3> QED
      BY <3>1, SegmentOf
  <2>2. Recent(prefix) \o SubSeq(b, 1, j - 1) \in Seq(Bytes)
    BY <2>1, RecentFacts, ConcatFacts
  <2> QED
    BY <2>2, RecentFacts
<1>2. Project(b, prefix, v) = f
  BY Zenon DEF Project, Residue
<1> HIDE DEF Seen
<1>3. ASSUME NEW j \in 1 .. Len(b) PROVE f[j] \in Bytes
  <2>1. b[j] \in Bytes
    OBVIOUS
  <2>2. Residue(b[j], Predict(Seen(j), v), v) \in Bytes
    BY <1>1, <2>1, ByteRestored
  <2> QED
    BY <2>2
<1>4. f \in [1 .. Len(b) -> Bytes]
  BY <1>3
<1>5. f \in Seq(Bytes) /\ Len(f) = Len(b)
  BY <1>4
<1>6. \A j \in 1 .. Len(b) : f[j] = Residue(b[j], Predict(Seen(j), v), v)
  OBVIOUS
<1> HIDE DEF f
<1> QED
  BY <1>1, <1>2, <1>5, <1>6 DEF Seen

\* One residual, one block.
LEMMA ProjectedOnce ==
    ASSUME NEW a \in Seq(Bytes), NEW b \in Seq(Bytes), NEW prefix \in Seq(Bytes),
           NEW v \in ViewIds, Project(a, prefix, v) = Project(b, prefix, v)
    PROVE  a = b
<1>1. PICK n \in Nat : n = Len(a) /\ n = Len(b)
  <2>1. Len(a) = Len(b)
    BY Projected
  <2> QED
    BY <2>1
<1> DEFINE P == {k \in 0 .. n : \A i \in 1 .. k : a[i] = b[i]}
<1>2. 0 \in P
  OBVIOUS
<1>3. ASSUME NEW k \in 1 .. n, k - 1 \in P PROVE k \in P
  <2>1. \A i \in 1 .. k - 1 : a[i] = b[i]
    BY <1>3
  <2>2. SubSeq(a, 1, k - 1) = SubSeq(b, 1, k - 1)
    BY <1>1, <2>1
  <2>3. PICK seen : seen = Recent(Recent(prefix) \o SubSeq(a, 1, k - 1))
    OBVIOUS
  <2>0. k \in 1 .. Len(a) /\ k \in 1 .. Len(b)
    BY <1>1
  <2>4. /\ seen \in Seq(Bytes)
        /\ Project(a, prefix, v)[k] = Residue(a[k], Predict(seen, v), v)
    BY <2>0, <2>3, Projected
  <2>5. Project(b, prefix, v)[k] = Residue(b[k], Predict(seen, v), v)
    <3>1. seen = Recent(Recent(prefix) \o SubSeq(b, 1, k - 1))
      BY <2>2, <2>3
    <3> QED
      BY <2>0, <3>1, Projected
  <2>6. a[k] \in Bytes /\ b[k] \in Bytes
    BY <2>0
  <2>7. a[k] = b[k]
    BY <2>4, <2>5, <2>6, ByteRestored
  <2>8. ASSUME NEW i \in 1 .. k PROVE a[i] = b[i]
    <3>1. i = k \/ i \in 1 .. k - 1
      OBVIOUS
    <3> QED
      BY <2>1, <2>7, <3>1
  <2> QED
    BY <2>8
<1> HIDE DEF P
<1>4. 0 .. n \subseteq P
  BY <1>2, <1>3, EveryTurn
<1>5. n \in P
  BY <1>4
<1>6. \A i \in 1 .. n : a[i] = b[i]
  BY <1>5 DEF P
<1> QED
  BY <1>1, <1>6, SameSequence

\* Scores are compared as tuples, and end in the view, so one of two wins.
Scores == [1 .. 4 -> Nat]

LEMMA BetterTotal ==
    ASSUME NEW s \in Scores, NEW t \in Scores, s[4] # t[4]
    PROVE  Better(s, t) \/ Better(t, s)
<1>1. Len(s) = 4 /\ Len(t) = 4
  BY DEF Scores
<1>2. s[1] \in Nat /\ s[2] \in Nat /\ s[3] \in Nat /\ s[4] \in Nat
  BY DEF Scores
<1>3. t[1] \in Nat /\ t[2] \in Nat /\ t[3] \in Nat /\ t[4] \in Nat
  BY DEF Scores
<1>4. CASE s[1] # t[1]
  <2>1. 1 \in 1 .. 4 /\ 1 .. 1 - 1 = {}
    OBVIOUS
  <2> QED
    BY <1>1, <1>2, <1>3, <1>4, <2>1 DEF Better
<1>5. CASE s[1] = t[1] /\ s[2] # t[2]
  <2>1. 2 \in 1 .. 4 /\ 1 .. 2 - 1 = {1}
    OBVIOUS
  <2> QED
    BY <1>1, <1>2, <1>3, <1>5, <2>1 DEF Better
<1>6. CASE s[1] = t[1] /\ s[2] = t[2] /\ s[3] # t[3]
  <2>1. 3 \in 1 .. 4 /\ 1 .. 3 - 1 = {1, 2}
    OBVIOUS
  <2> QED
    BY <1>1, <1>2, <1>3, <1>6, <2>1 DEF Better
<1>7. CASE s[1] = t[1] /\ s[2] = t[2] /\ s[3] = t[3]
  <2>1. 4 \in 1 .. 4 /\ 1 .. 4 - 1 = {1, 2, 3}
    OBVIOUS
  <2> QED
    BY <1>1, <1>2, <1>3, <1>7, <2>1 DEF Better
<1> QED
  BY <1>4, <1>5, <1>6, <1>7

LEMMA BetterTransitive ==
    ASSUME NEW s \in Scores, NEW t \in Scores, NEW u \in Scores, Better(s, t), Better(t, u)
    PROVE  Better(s, u)
<1>1. Len(s) = 4 /\ Len(t) = 4
  BY DEF Scores
<1>2. PICK i \in 1 .. 4 : s[i] < t[i] /\ \A j \in 1 .. i - 1 : s[j] = t[j]
  BY <1>1 DEF Better
<1>3. PICK k \in 1 .. 4 : t[k] < u[k] /\ \A j \in 1 .. k - 1 : t[j] = u[j]
  BY <1>1 DEF Better
<1>4. \A j \in 1 .. 4 : s[j] \in Nat /\ t[j] \in Nat /\ u[j] \in Nat
  BY DEF Scores
<1>5. PICK l \in 1 .. 4 : l = IF i < k THEN i ELSE k
  OBVIOUS
<1>6. s[l] < u[l]
  <2>1. CASE i < k
    <3>1. i \in 1 .. k - 1 /\ l = i
      BY <1>5, <2>1
    <3> QED
      BY <1>2, <1>3, <3>1
  <2>2. CASE i = k
    <3>1. l = i /\ s[i] \in Nat /\ t[i] \in Nat /\ u[i] \in Nat
      BY <1>4, <1>5, <2>2
    <3> QED
      BY <1>2, <1>3, <2>2, <3>1
  <2>3. CASE i > k
    <3>1. k \in 1 .. i - 1 /\ l = k
      BY <1>5, <2>3
    <3> QED
      BY <1>2, <1>3, <3>1
  <2> QED
    BY <2>1, <2>2, <2>3
<1>7. ASSUME NEW j \in 1 .. l - 1 PROVE s[j] = u[j]
  <2>1. j \in 1 .. i - 1 /\ j \in 1 .. k - 1
    BY <1>5
  <2> QED
    BY <1>2, <1>3, <2>1
<1> QED
  BY <1>1, <1>6, <1>7 DEF Better

LEMMA BestExists ==
    ASSUME NEW n \in Nat \ {0}, NEW f \in [1 .. n -> Scores], \A v \in 1 .. n : f[v][4] = v
    PROVE  \E v \in 1 .. n : \A w \in (1 .. n) \ {v} : Better(f[v], f[w])
<1> DEFINE P == {k \in Nat : k = 0 \/
                  \E v \in 1 .. k : \A w \in (1 .. k) \ {v} : Better(f[v], f[w])}
<1>1. 0 \in P
  OBVIOUS
<1>2. ASSUME NEW k \in 1 .. n, k - 1 \in P PROVE k \in P
  <2>1. CASE k = 1
    <3>1. (1 .. k) \ {1} = {} /\ 1 \in 1 .. k
      BY <2>1
    <3> QED
      BY <3>1
  <2>2. CASE k # 1
    <3>1. PICK v \in 1 .. k - 1 : \A w \in (1 .. k - 1) \ {v} : Better(f[v], f[w])
      BY <1>2, <2>2
    <3>2. v \in 1 .. k /\ v \in 1 .. n /\ v # k
      OBVIOUS
    <3>3. f[v] \in Scores /\ f[k] \in Scores /\ f[v][4] # f[k][4]
      BY <3>2
    <3>4. CASE Better(f[v], f[k])
      <4>1. ASSUME NEW w \in (1 .. k) \ {v} PROVE Better(f[v], f[w])
        <5>1. w = k \/ w \in (1 .. k - 1) \ {v}
          OBVIOUS
        <5> QED
          BY <3>1, <3>4, <5>1
      <4> QED
        BY <3>2, <4>1
    <3>5. CASE Better(f[k], f[v])
      <4>1. ASSUME NEW w \in (1 .. k) \ {k} PROVE Better(f[k], f[w])
        <5>1. w \in 1 .. k - 1 /\ w \in 1 .. n
          OBVIOUS
        <5>2. CASE w = v
          BY <3>5, <5>2
        <5>3. CASE w # v
          <6>1. Better(f[v], f[w]) /\ f[w] \in Scores
            BY <3>1, <5>1, <5>3
          <6> QED
            BY <3>3, <3>5, <6>1, BetterTransitive
        <5> QED
          BY <5>2, <5>3
      <4>2. k \in 1 .. k
        OBVIOUS
      <4> QED
        BY <4>1, <4>2
    <3> QED
      BY <3>3, <3>4, <3>5, BetterTotal
  <2> QED
    BY <2>1, <2>2
<1> HIDE DEF P
<1>3. 0 .. n \subseteq P
  BY <1>1, <1>2, EveryTurn
<1>4. n \in P /\ n # 0
  BY <1>3
<1> QED
  BY <1>4 DEF P

LEMMA ScoreIs ==
    ASSUME NEW earlier \in Seq(Bytes), NEW last \in Seq(Bytes), last # <<>>,
           NEW bs \in BlockSizes, Len(last) <= bs, NEW v \in ViewIds
    PROVE  Score(earlier, last, v) \in Scores /\ Score(earlier, last, v)[4] = v
<1>1. PICK n \in Nat \ {0} : n = Shorter(Len(last), SampleBytes) /\ n <= Len(last)
  <2>1. Len(last) \in Nat \ {0}
    OBVIOUS
  <2> QED
    BY <2>1, GlyphConstants DEF Shorter
<1>2. PICK t \in Seq(Bytes) : t = SubSeq(last, 1, n) /\ Len(t) = n
  <2>1. 1 \in Nat /\ n \in Int /\ 1 <= 1 /\ n <= Len(last) /\ (n - 1) + 1 = n /\ 1 <= n
    BY <1>1
  <2>2. SubSeq(last, 1, n) \in Seq(Bytes) /\ Len(SubSeq(last, 1, n)) = n
    BY <2>1, SegmentOf
  <2> QED
    BY <2>2
<1>3. PICK r \in Seq(Bytes) : r = Project(t, earlier, v) /\ Len(r) = n
  <2>1. Project(t, earlier, v) \in Seq(Bytes) /\ Len(Project(t, earlier, v)) = Len(t)
    BY <1>2, Projected
  <2> QED
    BY <1>2, <2>1
<1>4. n \in UNION {1 .. b : b \in BlockSizes}
  <2>1. bs \in Nat /\ n \in 1 .. bs
    BY <1>1, GlyphConstants
  <2> QED
    BY <2>1
<1>5. r \in [1 .. n -> Bytes]
  BY <1>3
<1>6. Glyph(r).counts[1] \in Nat
  <2>1. Glyph(r).counts[1] \in 1 .. n
    BY <1>4, <1>5, GlyphConstants
  <2> QED
    BY <2>1
<1>7. IsFiniteSet(1 .. n)
  <2>1. 1 \in Int /\ n \in Int
    OBVIOUS
  <2> QED
    BY <2>1, FS_Interval
<1>8. PICK x \in Nat : x = Cardinality({j \in 1 .. Len(r) : r[j] # 0})
  <2>1. {j \in 1 .. Len(r) : r[j] # 0} \subseteq 1 .. n
    BY <1>3
  <2> QED
    BY <1>7, <2>1, FS_Subset, FS_CardinalityType
<1>9. PICK y \in Nat : y = Cardinality({j \in 1 .. Len(r) - 1 : r[j] # r[j + 1]})
  <2>1. {j \in 1 .. Len(r) - 1 : r[j] # r[j + 1]} \subseteq 1 .. n
    BY <1>3
  <2> QED
    BY <1>7, <2>1, FS_Subset, FS_CardinalityType
<1>10. PICK z \in Nat : z = Glyph(r).counts[1]
  BY <1>6
<1>11. Score(earlier, last, v) = <<z, x, y, v>>
  BY <1>1, <1>2, <1>3, <1>8, <1>9, <1>10, Zenon DEF Score
<1>12. v \in Nat
  BY GlyphConstants DEF ViewIds
<1>13. <<z, x, y, v>> \in Scores /\ <<z, x, y, v>>[4] = v
  BY <1>12 DEF Scores
<1> QED
  BY <1>11, <1>13

\* select_view comes to a view.
LEMMA ViewSelected ==
    ASSUME NEW earlier \in Seq(Bytes), NEW last \in Seq(Bytes),
           NEW bs \in BlockSizes, Len(last) <= bs
    PROVE  SelectView(earlier, last) \in ViewIds
<1>1. PICK n \in Nat \ {0} : n = Len(Views)
  BY GlyphConstants
<1>2. ViewIds = 1 .. n
  BY <1>1 DEF ViewIds
<1>3. CASE last = <<>>
  BY <1>2, <1>3 DEF SelectView
<1>4. CASE last # <<>>
  <2> DEFINE f == [v \in ViewIds |-> Score(earlier, last, v)]
  <2>1. \A v \in ViewIds : Score(earlier, last, v) \in Scores /\ Score(earlier, last, v)[4] = v
    BY <1>4, ScoreIs
  <2>2. f \in [1 .. n -> Scores] /\ \A v \in 1 .. n : f[v][4] = v
    BY <1>2, <2>1
  <2>3. SelectView(earlier, last) =
          CHOOSE v \in ViewIds : \A w \in ViewIds \ {v} : Better(f[v], f[w])
    BY <1>4, Zenon DEF SelectView
  <2> HIDE DEF f
  <2>4. \E v \in ViewIds : \A w \in ViewIds \ {v} : Better(f[v], f[w])
    BY <1>2, <2>2, BestExists
  <2> QED
    BY <2>3, <2>4, Zenon
<1> QED
  BY <1>3, <1>4

-----------------------------------------------------------------------------
(* Its records.                                                            *)

\* What a record says, field by field, whatever its spelling.
Tells(r, index, b, v, last) ==
    /\ r.index = index /\ r.rawLen = Len(b) /\ r.view = v /\ r.reserved = 0
    /\ r.bodyLen = Len(r.body) /\ r.decodedSha = Sha(b) /\ r.bodySha = Sha(r.body)
    /\ r.omega = Omega(last, r)

LEMMA RecordTells ==
    ASSUME NEW index, NEW b, NEW v, NEW spelling, NEW last
    PROVE  LET r == Record(index, b, v, spelling, last)
           IN  /\ Tells(r, index, b, v, last) /\ IsRecord(r)
               /\ r.mode = spelling.mode /\ r.counts = spelling.counts
               /\ r.body = spelling.body /\ r.catalog = spelling.catalog
<1> DEFINE q == [index |-> index, rawLen |-> Len(b), mode |-> spelling.mode, view |-> v,
                 reserved |-> 0, counts |-> spelling.counts, bodyLen |-> Len(spelling.body),
                 decodedSha |-> Sha(b), bodySha |-> Sha(spelling.body),
                 catalog |-> spelling.catalog, body |-> spelling.body, omega |-> <<>>]
           r == Sealed(last, q)
<1>1. Record(index, b, v, spelling, last) = r
  BY Zenon DEF Record
<1>2. /\ r.index = index /\ r.rawLen = Len(b) /\ r.mode = spelling.mode /\ r.view = v
      /\ r.reserved = 0 /\ r.counts = spelling.counts /\ r.bodyLen = Len(spelling.body)
      /\ r.decodedSha = Sha(b) /\ r.bodySha = Sha(spelling.body)
      /\ r.catalog = spelling.catalog /\ r.body = spelling.body /\ r.omega = Omega(last, q)
  BY DEF Sealed
<1>3. Omega(last, r) = Omega(last, q)
  BY DEF Sealed, Omega
<1>4. IsRecord(r)
  BY DEF Sealed, Fields, IsRecord
<1> HIDE DEF q, r
<1>5. Tells(r, index, b, v, last)
  BY <1>2, <1>3 DEF Tells
<1> QED
  BY <1>1, <1>2, <1>4, <1>5

\* A record is what it says, as it spells it.
LEMMA TellingRecords ==
    ASSUME NEW r, IsRecord(r), NEW index, NEW b, NEW v, NEW last,
           Tells(r, index, b, v, last)
    PROVE  r = Record(index, b, v, SpellingOf(r), last)
<1>1. PICK q : q = Record(index, b, v, SpellingOf(r), last)
  OBVIOUS
<1>2. /\ Tells(q, index, b, v, last) /\ IsRecord(q)
      /\ q.mode = SpellingOf(r).mode /\ q.counts = SpellingOf(r).counts
      /\ q.body = SpellingOf(r).body /\ q.catalog = SpellingOf(r).catalog
  BY <1>1, RecordTells
<1>3. q.mode = r.mode /\ q.counts = r.counts /\ q.body = r.body /\ q.catalog = r.catalog
  BY <1>2 DEF SpellingOf
<1>4. /\ r.index = q.index /\ r.rawLen = q.rawLen /\ r.view = q.view
      /\ r.reserved = q.reserved /\ r.bodyLen = q.bodyLen
      /\ r.decodedSha = q.decodedSha /\ r.bodySha = q.bodySha
  BY <1>2, <1>3 DEF Tells
<1>5. r.omega = q.omega
  BY <1>2, <1>3, <1>4 DEF Tells, Omega
<1>6. \A f \in Fields : r[f] = q[f]
  BY <1>3, <1>4, <1>5 DEF Fields
<1>7. [f \in Fields |-> r[f]] = [f \in Fields |-> q[f]]
  BY <1>6, Zenon
<1> QED
  BY <1>1, <1>2, <1>7, Zenon DEF IsRecord

\* The decoder reads this residual in a record.
Says(r, residual) == Decodable(r) /\ ResidualOf(r) = residual

\* It reads the residual the encoder spelled.
LEMMA SpelledIsSaid ==
    ASSUME NEW n, n \in UNION {1 .. bs : bs \in BlockSizes}, NEW residual \in [1 .. n -> Bytes],
           NEW r, r.rawLen = n, r.bodyLen = Len(r.body), SpellingOf(r) = Spelled(residual)
    PROVE  Says(r, residual)
<1>0. n \in Nat /\ Len(residual) = n
  BY GlyphConstants
<1>1. /\ r.mode = Spelled(residual).mode /\ r.counts = Spelled(residual).counts
      /\ r.body = Spelled(residual).body /\ r.catalog = Spelled(residual).catalog
  BY DEF SpellingOf
<1>2. CASE Spelled(residual) = Raw(residual)
  <2>1. /\ r.mode = "raw" /\ r.counts = <<0, 0>> /\ r.body = residual
        /\ r.catalog = RawCatalog
    BY <1>1, <1>2 DEF Raw
  <2>2. r.bodyLen = r.rawLen
    BY <1>0, <2>1
  <2> QED
    BY <2>1, <2>2 DEF Says, Decodable, ResidualOf
<1>3. CASE Spelled(residual) = Coded(residual)
  <2>1. PICK g : g = Glyph(residual)
    OBVIOUS
  <2>2. /\ r.mode = "glyph" /\ r.counts = g.counts /\ r.body = g.body
        /\ r.catalog = Catalog(g.catalogs)
    BY <1>1, <1>3, <2>1 DEF Coded
  <2>3. /\ g.counts[1] \in 1 .. n /\ g.counts[2] \in 1 .. g.counts[1]
        /\ Len(g.body) = PackedLength(g.counts[2])
        /\ Unglyph(g.body, g.counts, n) = {[residual |-> residual, catalogs |-> g.catalogs]}
    BY <2>1, GlyphConstants
  <2>4. PICK d : d = [residual |-> residual, catalogs |-> g.catalogs]
    OBVIOUS
  <2>5. d.residual = residual /\ d.catalogs = g.catalogs
    BY <2>4
  <2>6. Unglyph(r.body, r.counts, r.rawLen) = {d}
    BY <2>2, <2>3, <2>4
  <2>7. Readings(r) = {d}
    BY <2>2, <2>5, <2>6 DEF Readings
  <2>8. (CHOOSE e \in Readings(r) : TRUE) = d
    BY <2>7
  <2>9. ResidualOf(r) = residual
    BY <2>2, <2>5, <2>8 DEF ResidualOf
  <2>10. Decodable(r)
    BY <2>2, <2>3, <2>7 DEF Decodable
  <2> QED
    BY <2>9, <2>10 DEF Says
<1> QED
  BY <1>2, <1>3 DEF Spelled

\* What is said is a residual as long as the block.
LEMMA SaidIsResidual ==
    ASSUME NEW r, Readable(r), Decodable(r), r.rawLen \in Nat, r.bodyLen = Len(r.body)
    PROVE  ResidualOf(r) \in Seq(Bytes) /\ Len(ResidualOf(r)) = r.rawLen
<1>1. CASE r.mode = "raw"
  <2>1. ResidualOf(r) = r.body /\ r.body \in Seq(Bytes)
    BY <1>1 DEF ResidualOf, Readable
  <2>2. r.bodyLen = r.rawLen
    BY <1>1 DEF Decodable
  <2> QED
    BY <2>1, <2>2
<1>2. CASE r.mode # "raw"
  <2>1. PICK n \in Nat : n = r.rawLen
    OBVIOUS
  <2>2. PICK d : d = CHOOSE e \in Readings(r) : TRUE
    OBVIOUS
  <2>3. d \in Readings(r) /\ ResidualOf(r) = d.residual
    BY <1>2, <2>2 DEF Decodable, ResidualOf
  <2>4. d.residual \in [1 .. n -> Bytes]
    BY <2>1, <2>3 DEF Readings
  <2>5. PICK f : f \in [1 .. n -> Bytes] /\ f = d.residual
    BY <2>4
  <2>6. f \in Seq(Bytes) /\ Len(f) = n
    BY <2>5
  <2> QED
    BY <2>1, <2>3, <2>5, <2>6
<1> QED
  BY <1>1, <1>2

\* Read by the decoder, what is said is spelled.
LEMMA SaidIsSpelled ==
    ASSUME NEW r, NEW residual, Says(r, residual), r.rawLen = Len(residual)
    PROVE  Spells(SpellingOf(r), residual)
<1> DEFINE s == SpellingOf(r)
<1>1. s.mode = r.mode /\ s.counts = r.counts /\ s.body = r.body /\ s.catalog = r.catalog
  BY DEF SpellingOf
<1>2. Decodable(r) /\ ResidualOf(r) = residual
  BY DEF Says
<1>3. CASE r.mode = "raw"
  <2>1. r.body = residual /\ r.counts = <<0, 0>> /\ r.catalog = RawCatalog
    BY <1>2, <1>3 DEF ResidualOf, Decodable
  <2>2. s = Raw(residual)
    BY <1>3, <2>1 DEF SpellingOf, Raw
  <2> QED
    BY <2>2 DEF Spells
<1>4. CASE r.mode # "raw"
  <2>1. PICK d : d = CHOOSE e \in Readings(r) : TRUE
    OBVIOUS
  <2>2. d \in Readings(r) /\ d.residual = residual /\ r.mode = "glyph"
    BY <1>2, <1>4, <2>1 DEF Decodable, ResidualOf
  <2>3. d \in Unglyph(r.body, r.counts, r.rawLen) /\ r.catalog = Catalog(d.catalogs)
    BY <2>2 DEF Readings
  <2>4. d \in Unglyph(s.body, s.counts, Len(residual))
    BY <1>1, <2>3
  <2> HIDE DEF s
  <2> QED
    BY <1>1, <2>2, <2>3, <2>4 DEF Spells, s
<1> QED
  BY <1>3, <1>4

\* An Omega is what went into it.
LEMMA OmegaHolds ==
    ASSUME NEW k, NEW l, NEW r, NEW q, Omega(k, r) = Omega(l, q)
    PROVE  /\ k = l /\ r.index = q.index /\ r.rawLen = q.rawLen /\ r.mode = q.mode
           /\ r.view = q.view /\ r.counts = q.counts /\ r.bodyLen = q.bodyLen
           /\ r.decodedSha = q.decodedSha /\ r.bodySha = q.bodySha
           /\ r.catalog = q.catalog
  BY DEF Omega

LEMMA OmegaIsNoGenesis ==
    ASSUME NEW k, NEW r, NEW b PROVE Omega(k, r) # Genesis(b)
<1>1. "genesis" \in DOMAIN Genesis(b) /\ "genesis" \notin DOMAIN Omega(k, r)
  BY DEF Genesis, Omega
<1> QED
  BY <1>1

-----------------------------------------------------------------------------
(* Its chains.                                                             *)

\* What record n of a chain takes up: the block before it, what precedes that
\* block, and the Omega before it.
LastOf(s, bs, n) == IF n = 1 THEN <<>> ELSE SubSeq(s, ((n - 1) * bs - bs) + 1, (n - 1) * bs)

EarlierOf(s, bs, n) == IF n = 1 THEN <<>> ELSE Before(s, (n - 1) * bs - bs)

PriorOf(chained, bs, n) == IF n = 1 THEN Genesis(bs) ELSE chained[n - 1].omega

ViewAt(s, bs, n) == SelectView(EarlierOf(s, bs, n), LastOf(s, bs, n))

RecordAt(chained, s, bs, n) ==
    Record(n - 1, BlockAt(s, (n - 1) * bs, bs), ViewAt(s, bs, n), SpellingOf(chained[n]),
           PriorOf(chained, bs, n))

ResidualAt(s, bs, n) ==
    Project(BlockAt(s, (n - 1) * bs, bs), Before(s, (n - 1) * bs), ViewAt(s, bs, n))

\* The first c records are those of s in blocks of bs bytes.
Chained(chained, s, bs, c) ==
    \A n \in 1 .. c :
        /\ (n - 1) * bs < Len(s)
        /\ Says(chained[n], ResidualAt(s, bs, n))
        /\ chained[n] = RecordAt(chained, s, bs, n)

LEMMA Multiples ==
    ASSUME NEW bs \in Nat \ {0}, NEW c \in Nat, NEW n \in 1 .. c
    PROVE  /\ (n - 1) * bs \in Nat /\ n * bs \in Nat /\ c * bs \in Nat
           /\ (n - 1) * bs + bs = n * bs /\ n * bs <= c * bs
           /\ n # 1 => (n - 1) * bs - bs \in Nat
<1>1. PICK d \in Nat : c = n + d
  <2>1. c - n \in Nat /\ c = n + (c - n)
    OBVIOUS
  <2> QED
    BY <2>1
<1>2. c * bs = n * bs + d * bs /\ d * bs \in Nat
  BY <1>1
<1>3. (n - 1) * bs = n * bs - bs /\ n * bs \in Nat /\ (n - 1) * bs \in Nat
  <2>1. n - 1 \in Nat /\ n \in Nat
    OBVIOUS
  <2> QED
    BY <2>1
<1>4. n # 1 => (n - 1) * bs - bs \in Nat
  <2>1. SUFFICES ASSUME n # 1 PROVE (n - 1) * bs - bs \in Nat
    OBVIOUS
  <2>2. n - 2 \in Nat
    BY <2>1
  <2>3. (n - 2) * bs \in Nat /\ (n - 2) * bs = (n - 1) * bs - bs
    BY <2>2
  <2> QED
    BY <2>3
<1>5. n * bs \in Nat /\ d * bs \in Nat
  BY <1>2, <1>3
<1> QED
  BY <1>2, <1>3, <1>4, <1>5

LEMMA SegmentKept ==
    ASSUME NEW S, NEW s \in Seq(S), NEW b \in Seq(S), NEW i \in Nat, NEW e \in Int,
           1 <= i, e <= Len(s)
    PROVE  SubSeq(s \o b, i, e) = SubSeq(s, i, e)
<1>1. PICK t \in Seq(S) : t = s \o b
  BY ConcatFacts
<1>2. Len(t) = Len(s) + Len(b) /\ \A j \in 1 .. Len(s) : t[j] = s[j]
  BY <1>1, ConcatFacts
<1>3. e <= Len(t)
  BY <1>2
<1>4. PICK x \in Seq(S) : x = SubSeq(t, i, e)
  BY <1>3, SegmentOf
<1>5. PICK y \in Seq(S) : y = SubSeq(s, i, e)
  BY SegmentOf
<1>6. /\ Len(x) = (IF i <= e THEN (e - i) + 1 ELSE 0)
      /\ \A j \in 1 .. Len(x) : x[j] = t[(i + j) - 1]
  BY <1>3, <1>4, SegmentOf
<1>7. /\ Len(y) = (IF i <= e THEN (e - i) + 1 ELSE 0)
      /\ \A j \in 1 .. Len(y) : y[j] = s[(i + j) - 1]
  BY <1>5, SegmentOf
<1>8. ASSUME NEW j \in 1 .. Len(x) PROVE x[j] = y[j]
  <2>1. (i + j) - 1 \in 1 .. Len(s)
    BY <1>6
  <2> QED
    BY <1>2, <1>6, <1>7, <2>1
<1>9. x = y
  BY <1>6, <1>7, <1>8, SameSequence
<1> QED
  BY <1>1, <1>4, <1>5, <1>9

LEMMA BlockFacts ==
    ASSUME NEW s \in Seq(Bytes), NEW at \in Nat, NEW bs \in Nat \ {0}, at < Len(s)
    PROVE  /\ BlockAt(s, at, bs) \in Seq(Bytes)
           /\ Len(BlockAt(s, at, bs)) = (IF at + bs <= Len(s) THEN bs ELSE Len(s) - at)
           /\ \A k \in 1 .. Len(BlockAt(s, at, bs)) : BlockAt(s, at, bs)[k] = s[at + k]
<1>1. PICK e \in Nat : e = Shorter(at + bs, Len(s))
  BY DEF Shorter
<1>2. e = IF at + bs <= Len(s) THEN at + bs ELSE Len(s)
  BY <1>1 DEF Shorter
<1>3. at + 1 \in Nat /\ e \in Int /\ 1 <= at + 1 /\ e <= Len(s) /\ at + 1 <= e
  BY <1>2
<1>4. BlockAt(s, at, bs) = SubSeq(s, at + 1, e)
  BY <1>1 DEF BlockAt
<1>5. /\ SubSeq(s, at + 1, e) \in Seq(Bytes)
      /\ Len(SubSeq(s, at + 1, e)) = (e - (at + 1)) + 1
      /\ \A k \in 1 .. Len(SubSeq(s, at + 1, e)) :
            SubSeq(s, at + 1, e)[k] = s[((at + 1) + k) - 1]
  BY <1>3, SegmentOf
<1>6. (e - (at + 1)) + 1 = (IF at + bs <= Len(s) THEN bs ELSE Len(s) - at)
  BY <1>2
<1>7. \A k \in 1 .. Len(SubSeq(s, at + 1, e)) : ((at + 1) + k) - 1 = at + k
  BY <1>5
<1> QED
  BY <1>4, <1>5, <1>6, <1>7

LEMMA BlockKept ==
    ASSUME NEW s \in Seq(Bytes), NEW b \in Seq(Bytes), NEW at \in Nat, NEW bs \in Nat \ {0},
           at + bs <= Len(s)
    PROVE  BlockAt(s \o b, at, bs) = BlockAt(s, at, bs)
<1>1. Len(s \o b) = Len(s) + Len(b)
  BY ConcatFacts
<1>2. Shorter(at + bs, Len(s \o b)) = at + bs /\ Shorter(at + bs, Len(s)) = at + bs
  BY <1>1 DEF Shorter
<1>3. at + 1 \in Nat /\ at + bs \in Int /\ 1 <= at + 1
  OBVIOUS
<1>4. SubSeq(s \o b, at + 1, at + bs) = SubSeq(s, at + 1, at + bs)
  BY <1>3, SegmentKept
<1> QED
  BY <1>2, <1>4 DEF BlockAt

LEMMA BlockAppended ==
    ASSUME NEW s \in Seq(Bytes), NEW b \in Seq(Bytes), NEW bs \in Nat \ {0},
           b # <<>>, Len(b) <= bs
    PROVE  BlockAt(s \o b, Len(s), bs) = b
<1>1. PICK t \in Seq(Bytes) : t = s \o b
  BY ConcatFacts
<1>2. Len(t) = Len(s) + Len(b) /\ \A k \in 1 .. Len(b) : t[Len(s) + k] = b[k]
  BY <1>1, ConcatFacts
<1>3. PICK n \in Nat : n = Len(s) /\ n < Len(t)
  BY <1>2
<1>4. PICK x \in Seq(Bytes) : x = BlockAt(t, n, bs)
  BY <1>3, BlockFacts
<1>5. Len(x) = Len(b)
  <2>1. Len(x) = (IF n + bs <= Len(t) THEN bs ELSE Len(t) - n)
    BY <1>3, <1>4, BlockFacts
  <2> QED
    BY <1>2, <1>3, <2>1
<1>6. \A k \in 1 .. Len(x) : x[k] = t[n + k]
  <2>1. \A k \in 1 .. Len(BlockAt(t, n, bs)) : BlockAt(t, n, bs)[k] = t[n + k]
    BY <1>3, BlockFacts
  <2> QED
    BY <1>4, <2>1
<1>7. \A k \in 1 .. Len(x) : x[k] = b[k]
  BY <1>2, <1>3, <1>5, <1>6
<1> QED
  BY <1>1, <1>3, <1>4, <1>5, <1>7, SameSequence

LEMMA BeforeKept ==
    ASSUME NEW s \in Seq(Bytes), NEW b \in Seq(Bytes), NEW n \in 0 .. Len(s)
    PROVE  Before(s \o b, n) = Before(s, n)
<1>1. s \o b \in Seq(Bytes) /\ Len(s \o b) = Len(s) + Len(b)
  BY ConcatFacts
<1>2. n \in 0 .. Len(s \o b)
  BY <1>1
<1>3. SubSeq(s \o b, 1, n) = SubSeq(s, 1, n)
  <2>1. 1 \in Nat /\ n \in Int /\ 1 <= 1 /\ n <= Len(s)
    OBVIOUS
  <2> QED
    BY <2>1, SegmentKept
<1>4. Before(s \o b, n) = Recent(SubSeq(s \o b, 1, n))
  BY <1>1, <1>2, BeforeIsRecent
<1> QED
  BY <1>3, <1>4, BeforeIsRecent

\* Records of full blocks stay the records of a longer source.
LEMMA ChainExtended ==
    ASSUME NEW chained, NEW s \in Seq(Bytes), NEW b \in Seq(Bytes), NEW bs \in Nat \ {0},
           NEW c \in Nat, c * bs <= Len(s), Chained(chained, s, bs, c)
    PROVE  Chained(chained, s \o b, bs, c)
<1> SUFFICES ASSUME NEW n \in 1 .. c
             PROVE  /\ (n - 1) * bs < Len(s \o b)
                    /\ Says(chained[n], ResidualAt(s \o b, bs, n))
                    /\ chained[n] = RecordAt(chained, s \o b, bs, n)
  BY DEF Chained
<1>1. /\ (n - 1) * bs < Len(s) /\ Says(chained[n], ResidualAt(s, bs, n))
      /\ chained[n] = RecordAt(chained, s, bs, n)
  BY DEF Chained
<1>2. PICK at \in Nat : at = (n - 1) * bs /\ at + bs <= Len(s) /\ (n # 1 => at - bs \in Nat)
  <2>1. PICK m, l, k \in Nat : m = n * bs /\ l = c * bs /\ k = (n - 1) * bs
    BY Multiples
  <2>2. k + bs = m /\ m <= l /\ (n # 1 => k - bs \in Nat)
    BY <2>1, Multiples
  <2> QED
    BY <2>1, <2>2
<1>3. at < Len(s \o b)
  <2>1. Len(s \o b) = Len(s) + Len(b)
    BY ConcatFacts
  <2> QED
    BY <1>2, <2>1
<1>4. BlockAt(s \o b, at, bs) = BlockAt(s, at, bs)
  BY <1>2, BlockKept
<1>5. Before(s \o b, at) = Before(s, at)
  <2>1. at \in 0 .. Len(s)
    BY <1>2
  <2> QED
    BY <2>1, BeforeKept
<1>6. LastOf(s \o b, bs, n) = LastOf(s, bs, n)
  <2>1. CASE n = 1
    BY <2>1 DEF LastOf
  <2>2. CASE n # 1
    <3>1. (at - bs) + 1 \in Nat /\ at \in Int /\ 1 <= (at - bs) + 1 /\ at <= Len(s)
      BY <1>2, <2>2
    <3>2. SubSeq(s \o b, (at - bs) + 1, at) = SubSeq(s, (at - bs) + 1, at)
      BY <3>1, SegmentKept
    <3> QED
      BY <1>2, <2>2, <3>2 DEF LastOf
  <2> QED
    BY <2>1, <2>2
<1>7. EarlierOf(s \o b, bs, n) = EarlierOf(s, bs, n)
  <2>1. CASE n = 1
    BY <2>1 DEF EarlierOf
  <2>2. CASE n # 1
    <3>1. at - bs \in 0 .. Len(s)
      BY <1>2, <2>2
    <3>2. Before(s \o b, at - bs) = Before(s, at - bs)
      BY <3>1, BeforeKept
    <3> QED
      BY <1>2, <2>2, <3>2 DEF EarlierOf
  <2> QED
    BY <2>1, <2>2
<1>8. RecordAt(chained, s \o b, bs, n) = RecordAt(chained, s, bs, n)
  BY <1>2, <1>4, <1>6, <1>7 DEF RecordAt, ViewAt
<1>9. ResidualAt(s \o b, bs, n) = ResidualAt(s, bs, n)
  BY <1>2, <1>4, <1>5, <1>6, <1>7 DEF ResidualAt, ViewAt
<1> QED
  BY <1>1, <1>2, <1>3, <1>8, <1>9

LEMMA ChainMore ==
    ASSUME NEW chained, NEW more, NEW s, NEW bs, NEW c \in Nat, Chained(chained, s, bs, c),
           \A n \in 1 .. c : more[n] = chained[n]
    PROVE  Chained(more, s, bs, c)
<1> SUFFICES ASSUME NEW n \in 1 .. c
             PROVE  /\ (n - 1) * bs < Len(s) /\ Says(more[n], ResidualAt(s, bs, n))
                    /\ more[n] = RecordAt(more, s, bs, n)
  BY DEF Chained
<1>1. /\ (n - 1) * bs < Len(s) /\ Says(chained[n], ResidualAt(s, bs, n))
      /\ chained[n] = RecordAt(chained, s, bs, n)
  BY DEF Chained
<1>2. more[n] = chained[n]
  OBVIOUS
<1>3. PriorOf(more, bs, n) = PriorOf(chained, bs, n)
  <2>1. n # 1 => n - 1 \in 1 .. c
    OBVIOUS
  <2> QED
    BY <2>1 DEF PriorOf
<1>4. RecordAt(more, s, bs, n) = RecordAt(chained, s, bs, n)
  BY <1>2, <1>3 DEF RecordAt
<1> QED
  BY <1>1, <1>2, <1>4

LEMMA ChainTells ==
    ASSUME NEW chained, NEW s, NEW bs, NEW c \in Nat, Chained(chained, s, bs, c), NEW n \in 1 .. c
    PROVE  /\ Tells(chained[n], n - 1, BlockAt(s, (n - 1) * bs, bs), ViewAt(s, bs, n),
                    PriorOf(chained, bs, n))
           /\ IsRecord(chained[n]) /\ Says(chained[n], ResidualAt(s, bs, n))
<1>1. chained[n] = RecordAt(chained, s, bs, n) /\ Says(chained[n], ResidualAt(s, bs, n))
  BY DEF Chained
<1> QED
  BY <1>1, RecordTells DEF RecordAt

LEMMA ChainSays ==
    ASSUME NEW chained, NEW s, NEW bs, NEW c \in Nat, Chained(chained, s, bs, c), NEW n \in 1 .. c
    PROVE  /\ chained[n].decodedSha = Sha(BlockAt(s, (n - 1) * bs, bs))
           /\ chained[n].omega = Omega(PriorOf(chained, bs, n), chained[n])
<1>1. Tells(chained[n], n - 1, BlockAt(s, (n - 1) * bs, bs), ViewAt(s, bs, n),
            PriorOf(chained, bs, n))
  BY ChainTells
<1> QED
  BY <1>1, Zenon DEF Tells

\* Records with the same digests have the same blocks.
LEMMA SameBlocks ==
    ASSUME NEW R1, NEW R2, NEW s \in Seq(Bytes), NEW t \in Seq(Bytes), NEW bs \in Nat \ {0},
           NEW c \in Nat, Chained(R1, s, bs, c), Chained(R2, t, bs, c),
           \A n \in 1 .. c : R1[n] = R2[n], Len(s) <= c * bs
    PROVE  Len(s) <= Len(t) /\ \A j \in 1 .. Len(s) : s[j] = t[j]
<1>1. ASSUME NEW j \in 1 .. Len(s) PROVE j <= Len(t) /\ s[j] = t[j]
  <2>1. PICK q \in Nat, k \in 0 .. bs - 1 : j - 1 = q * bs + k
    <3>1. PICK m \in Nat : m = j - 1
      BY j - 1 \in Nat
    <3>2. /\ m \div bs \in Nat /\ m % bs \in 0 .. bs - 1
          /\ m = (m \div bs) * bs + (m % bs)
      OBVIOUS
    <3> QED
      BY <3>1, <3>2
  <2>2. q + 1 \in 1 .. c
    <3>1. SUFFICES ASSUME q >= c PROVE FALSE
      BY <2>1
    <3>2. PICK d \in Nat : q = c + d
      <4>1. q - c \in Nat /\ q = c + (q - c)
        BY <2>1, <3>1
      <4> QED
        BY <4>1
    <3>3. q * bs = c * bs + d * bs /\ d * bs \in Nat /\ c * bs \in Nat
      BY <3>2
    <3>4. PICK x, y \in Nat : x = q * bs /\ y = c * bs /\ y <= x
      BY <3>3
    <3>5. PICK l \in Nat : l = Len(s) /\ l <= y
      BY <3>4
    <3>6. x + k < l /\ k \in Nat
      <4>1. j - 1 < l
        BY <3>5
      <4> QED
        BY <2>1, <3>4, <4>1
    <3> QED
      BY <3>4, <3>5, <3>6
  <2>3. PICK n \in 1 .. c : n = q + 1
    BY <2>2
  <2>4. PICK at \in Nat : at = (n - 1) * bs /\ j = at + (k + 1)
    <3>1. n - 1 = q
      BY <2>3
    <3>2. q * bs \in Nat
      OBVIOUS
    <3>3. j = q * bs + (k + 1)
      BY <2>1, <3>2
    <3> QED
      BY <3>1, <3>2, <3>3
  <2>5. at < Len(s) /\ at < Len(t)
    BY <2>4 DEF Chained
  <2>6. Sha(BlockAt(s, at, bs)) = Sha(BlockAt(t, at, bs))
    <3>1. R1[n].decodedSha = Sha(BlockAt(s, at, bs))
      BY <2>4, ChainSays
    <3>2. R2[n].decodedSha = Sha(BlockAt(t, at, bs))
      BY <2>4, ChainSays
    <3> QED
      BY <3>1, <3>2
  <2>7. PICK x \in Seq(Bytes) : x = BlockAt(s, at, bs) /\ x = BlockAt(t, at, bs)
    <3>1. BlockAt(s, at, bs) = BlockAt(t, at, bs)
      BY <2>6 DEF Sha
    <3>2. BlockAt(s, at, bs) \in Seq(Bytes)
      BY <2>5, BlockFacts
    <3> QED
      BY <3>1, <3>2
  <2>8. /\ Len(x) = (IF at + bs <= Len(s) THEN bs ELSE Len(s) - at)
        /\ \A i \in 1 .. Len(x) : x[i] = s[at + i]
    <3>1. /\ Len(BlockAt(s, at, bs)) = (IF at + bs <= Len(s) THEN bs ELSE Len(s) - at)
          /\ \A i \in 1 .. Len(BlockAt(s, at, bs)) : BlockAt(s, at, bs)[i] = s[at + i]
      BY <2>5, BlockFacts
    <3> QED
      BY <2>7, <3>1
  <2>9. /\ Len(x) = (IF at + bs <= Len(t) THEN bs ELSE Len(t) - at)
        /\ \A i \in 1 .. Len(x) : x[i] = t[at + i]
    <3>1. /\ Len(BlockAt(t, at, bs)) = (IF at + bs <= Len(t) THEN bs ELSE Len(t) - at)
          /\ \A i \in 1 .. Len(BlockAt(t, at, bs)) : BlockAt(t, at, bs)[i] = t[at + i]
      BY <2>5, BlockFacts
    <3> QED
      BY <2>7, <3>1
  <2>10. k + 1 \in 1 .. Len(x)
    BY <2>1, <2>4, <2>8
  <2>11. s[j] = x[k + 1] /\ t[j] = x[k + 1]
    BY <2>4, <2>8, <2>9, <2>10
  <2>12. j <= Len(t)
    <3>1. PICK l \in Nat : l = Len(x)
      OBVIOUS
    <3>2. k + 1 <= l
      BY <2>10, <3>1
    <3> QED
      BY <2>4, <2>9, <3>1, <3>2
  <2> QED
    BY <2>11, <2>12
<1>2. Len(s) <= Len(t)
  <2>1. CASE Len(s) = 0
    BY <2>1
  <2>2. CASE Len(s) # 0
    <3>1. Len(s) \in 1 .. Len(s)
      BY <2>2
    <3> QED
      BY <1>1, <3>1
  <2> QED
    BY <2>1, <2>2
<1> QED
  BY <1>1, <1>2

LEMMA ShaHolds ==
    ASSUME NEW x, NEW y, Sha(x) = Sha(y) PROVE x = y
  BY DEF Sha

\* A record that says of some block what is true of it.
Sound(r, index, last) ==
    IsRecord(r) /\ \E b, v : Tells(r, index, b, v, last)

\* Equal Omegas are of equal records, with equal Omegas before them.
LEMMA OmegaTells ==
    ASSUME NEW r, NEW q, NEW i, NEW j, NEW l, NEW m, Sound(r, i, l), Sound(q, j, m),
           r.omega = q.omega
    PROVE  i = j /\ l = m /\ r = q
<1>0. PICK b1, v1 : Tells(r, i, b1, v1, l)
  BY Zenon DEF Sound
<1>9. PICK b2, v2 : Tells(q, j, b2, v2, m)
  BY Zenon DEF Sound
<1>1. r.omega = Omega(l, r) /\ q.omega = Omega(m, q) /\ r.index = i /\ q.index = j
  BY <1>0, <1>9 DEF Tells
<1>2. Omega(l, r) = Omega(m, q)
  BY <1>1
<1>3. /\ l = m /\ r.index = q.index /\ r.rawLen = q.rawLen /\ r.mode = q.mode
      /\ r.view = q.view /\ r.counts = q.counts /\ r.bodyLen = q.bodyLen
      /\ r.decodedSha = q.decodedSha /\ r.bodySha = q.bodySha
      /\ r.catalog = q.catalog
  BY <1>2, OmegaHolds
<1>4. r.reserved = q.reserved
  BY <1>0, <1>9 DEF Tells
<1>5. r.body = q.body
  <2>1. r.bodySha = Sha(r.body) /\ q.bodySha = Sha(q.body)
    BY <1>0, <1>9 DEF Tells
  <2>2. Sha(r.body) = Sha(q.body)
    BY <1>3, <2>1
  <2> QED
    BY <2>2, ShaHolds
<1>6. \A f \in Fields : r[f] = q[f]
  BY <1>3, <1>4, <1>5 DEF Fields
<1>7. [f \in Fields |-> r[f]] = [f \in Fields |-> q[f]]
  BY <1>6, Zenon
<1>8. r = q
  BY <1>7, Zenon DEF IsRecord, Sound
<1> QED
  BY <1>1, <1>3, <1>8

\* Chains that end in the same Omega are one chain.
Meet(R1, R2, a, b, c, d) == c = d /\ a = b /\ \A n \in 1 .. c : R1[n] = R2[n]

LEMMA ChainsMeet ==
    ASSUME NEW R1, NEW R2, NEW s, NEW t, NEW a \in Nat \ {0}, NEW b \in Nat \ {0},
           NEW c \in Nat, NEW d \in Nat, Chained(R1, s, a, c), Chained(R2, t, b, d),
           PriorOf(R1, a, c + 1) = PriorOf(R2, b, d + 1)
    PROVE  Meet(R1, R2, a, b, c, d)
<1> SUFFICES c = d /\ a = b /\ \A n \in 1 .. c : R1[n] = R2[n]
  BY DEF Meet
<1>1. ASSUME NEW n \in 1 .. c, NEW m \in 1 .. d, R1[n].omega = R2[m].omega
      PROVE  n = m /\ R1[n] = R2[m] /\ PriorOf(R1, a, n) = PriorOf(R2, b, m)
  <2>1. Sound(R1[n], n - 1, PriorOf(R1, a, n))
    BY ChainTells DEF Sound
  <2>2. Sound(R2[m], m - 1, PriorOf(R2, b, m))
    BY ChainTells DEF Sound
  <2>3. n - 1 = m - 1 /\ PriorOf(R1, a, n) = PriorOf(R2, b, m) /\ R1[n] = R2[m]
    BY <1>1, <2>1, <2>2, OmegaTells
  <2> QED
    BY <2>3
<1>2. ASSUME NEW n \in 1 .. c PROVE \A x : R1[n].omega # Genesis(x)
  <2>1. R1[n].omega = Omega(PriorOf(R1, a, n), R1[n])
    BY ChainSays
  <2> QED
    BY <2>1, OmegaIsNoGenesis
<1>3. ASSUME NEW n \in 1 .. d PROVE \A x : R2[n].omega # Genesis(x)
  <2>1. R2[n].omega = Omega(PriorOf(R2, b, n), R2[n])
    BY ChainSays
  <2> QED
    BY <2>1, OmegaIsNoGenesis
<1>4. CASE c = 0 \/ d = 0
  <2>1. c = 0 /\ d = 0
    <3>1. CASE c # 0 /\ d = 0
      <4>1. c \in 1 .. c /\ PriorOf(R1, a, c + 1) = R1[c].omega /\ PriorOf(R2, b, d + 1) = Genesis(b)
        BY <3>1 DEF PriorOf
      <4> QED
        BY <1>2, <4>1
    <3>2. CASE c = 0 /\ d # 0
      <4>1. d \in 1 .. d /\ PriorOf(R2, b, d + 1) = R2[d].omega /\ PriorOf(R1, a, c + 1) = Genesis(a)
        BY <3>2 DEF PriorOf
      <4> QED
        BY <1>3, <4>1
    <3> QED
      BY <1>4, <3>1, <3>2
  <2>2. Genesis(a) = Genesis(b)
    BY <2>1 DEF PriorOf
  <2> QED
    BY <2>1, <2>2 DEF Genesis
<1>5. CASE c # 0 /\ d # 0
  <2>1. c \in 1 .. c /\ d \in 1 .. d /\ (c + 1) - 1 = c /\ (d + 1) - 1 = d
    BY <1>5
  <2>2. R1[c].omega = R2[d].omega
    BY <1>5, <2>1 DEF PriorOf
  <2>3. c = d
    BY <1>1, <2>1, <2>2
  <2> DEFINE P == {k \in 0 .. c : /\ PriorOf(R1, a, (c - k) + 1) = PriorOf(R2, b, (c - k) + 1)
                                  /\ \A n \in (c - k) + 1 .. c : R1[n] = R2[n]}
  <2>4. 0 \in P
    <3>1. (c - 0) + 1 = c + 1
      OBVIOUS
    <3> QED
      BY <2>3, <3>1
  <2>5. ASSUME NEW k \in 1 .. c, k - 1 \in P PROVE k \in P
    <3>1. PICK n \in 1 .. c : n = (c - k) + 1
      BY (c - k) + 1 \in 1 .. c
    <3>2. (c - (k - 1)) + 1 = n + 1 /\ n + 1 # 1 /\ (n + 1) - 1 = n
      BY <3>1
    <3>3. /\ PriorOf(R1, a, n + 1) = PriorOf(R2, b, n + 1)
          /\ \A m \in n + 1 .. c : R1[m] = R2[m]
      BY <2>5, <3>2
    <3>4. R1[n].omega = R2[n].omega
      BY <3>2, <3>3 DEF PriorOf
    <3>5. R1[n] = R2[n] /\ PriorOf(R1, a, n) = PriorOf(R2, b, n)
      BY <1>1, <2>3, <3>4
    <3>6. ASSUME NEW m \in n .. c PROVE R1[m] = R2[m]
      <4>1. m = n \/ m \in n + 1 .. c
        OBVIOUS
      <4> QED
        BY <3>3, <3>5, <4>1
    <3> QED
      BY <3>1, <3>5, <3>6
  <2> HIDE DEF P
  <2>6. 0 .. c \subseteq P
    BY <2>4, <2>5, EveryTurn
  <2>7. c \in P
    BY <2>6
  <2>8. (c - c) + 1 = 1
    OBVIOUS
  <2>9. PriorOf(R1, a, 1) = PriorOf(R2, b, 1) /\ \A n \in 1 .. c : R1[n] = R2[n]
    BY <2>7, <2>8 DEF P
  <2>10. Genesis(a) = Genesis(b)
    BY <2>9 DEF PriorOf
  <2> QED
    BY <2>3, <2>9, <2>10 DEF Genesis
<1> QED
  BY <1>4, <1>5

-----------------------------------------------------------------------------
(* The sum of the body lengths.                                            *)

BodySum(chained, c, total) ==
    \E f : /\ f[0] = 0 /\ \A k \in 1 .. c : f[k] = f[k - 1] + chained[k].bodyLen
          /\ total = f[c]

LEMMA SumOfNone ==
    ASSUME NEW chained PROVE BodySum(chained, 0, 0)
<1> DEFINE f == [k \in 0 .. 0 |-> 0]
<1>1. f[0] = 0 /\ 1 .. 0 = {}
  OBVIOUS
<1> HIDE DEF f
<1> QED
  BY <1>1 DEF BodySum

LEMMA SumOfMore ==
    ASSUME NEW chained, NEW more, NEW c \in Nat, NEW total, BodySum(chained, c, total),
           \A n \in 1 .. c : more[n] = chained[n]
    PROVE  BodySum(more, c + 1, total + more[c + 1].bodyLen)
<1>1. PICK f : /\ f[0] = 0 /\ \A k \in 1 .. c : f[k] = f[k - 1] + chained[k].bodyLen
               /\ total = f[c]
  BY DEF BodySum
<1> DEFINE g == [k \in 0 .. c + 1 |-> IF k = c + 1 THEN total + more[c + 1].bodyLen ELSE f[k]]
<1>2. g[0] = 0 /\ g[c + 1] = total + more[c + 1].bodyLen
  BY <1>1
<1>3. ASSUME NEW k \in 1 .. c + 1 PROVE g[k] = g[k - 1] + more[k].bodyLen
  <2>1. k - 1 \in 0 .. c + 1 /\ k - 1 # c + 1 /\ k \in 0 .. c + 1
    OBVIOUS
  <2>2. g[k - 1] = f[k - 1]
    BY <2>1
  <2>3. CASE k = c + 1
    <3>1. k - 1 = c
      BY <2>3
    <3> QED
      BY <1>1, <1>2, <2>2, <2>3, <3>1
  <2>4. CASE k # c + 1
    <3>1. k \in 1 .. c /\ g[k] = f[k]
      BY <2>1, <2>4
    <3> HIDE DEF g
    <3> QED
      BY <1>1, <2>2, <3>1
  <2> QED
    BY <2>3, <2>4
<1> HIDE DEF g
<1> QED
  BY <1>2, <1>3 DEF BodySum

LEMMA SumIsOne ==
    ASSUME NEW R1, NEW R2, NEW c \in Nat, NEW x, NEW y, BodySum(R1, c, x), BodySum(R2, c, y),
           \A n \in 1 .. c : R1[n] = R2[n]
    PROVE  x = y
<1>1. PICK f : /\ f[0] = 0 /\ \A k \in 1 .. c : f[k] = f[k - 1] + R1[k].bodyLen
               /\ x = f[c]
  BY DEF BodySum
<1>2. PICK g : /\ g[0] = 0 /\ \A k \in 1 .. c : g[k] = g[k - 1] + R2[k].bodyLen
               /\ y = g[c]
  BY DEF BodySum
<1>3. \A k \in 1 .. c : f[k - 1] = g[k - 1] => f[k] = g[k]
  BY <1>1, <1>2
<1>4. f[0] = g[0]
  BY <1>1, <1>2
<1>5. \A k \in 0 .. c : f[k] = g[k]
  BY <1>3, <1>4, SameRecursion
<1>6. c \in 0 .. c
  OBVIOUS
<1> QED
  BY <1>1, <1>2, <1>5, <1>6

-----------------------------------------------------------------------------
(* Its invariant.                                                          *)

IsSequence(chained) == \E S : chained \in Seq(S)

ArgumentsInv ==
    /\ phase \in {"encode", "open", "read", "restore", "accepted", "rejected", "cut"}
    /\ call \in Archives /\ sources \in [Archives -> Inputs] /\ size \in [Archives -> BlockSizes]
    /\ DOMAIN archives = Archives
    /\ \A i \in Archives : DOMAIN archives[i] = {"header", "records", "footer"}
    /\ cap \in Nat

\* The records written are the chain of their source.
EncodedInv ==
    \A i \in Archives :
        /\ IsSequence(archives[i].records)
        /\ Chained(archives[i].records, sources[i], size[i], Len(archives[i].records))

\* Archive i is complete.
Finished(i) ==
    /\ archives[i].header = <<[blockSize |-> size[i], genesis |-> Genesis(size[i])]>>
    /\ Len(sources[i]) <= Len(archives[i].records) * size[i]
    /\ \E total :
          /\ BodySum(archives[i].records, Len(archives[i].records), total)
          /\ archives[i].footer =
                <<Footer(archives[i].records, sources[i], total,
                         PriorOf(archives[i].records, size[i], Len(archives[i].records) + 1))>>

FinishedInv ==
    \A i \in Archives : phase # "encode" \/ i < call => Finished(i)

\* What the encoder carries from block to block.
CarriedInv(i, c) ==
    /\ start = c * size[i]
    /\ prior = PriorOf(archives[i].records, size[i], c + 1)
    /\ BodySum(archives[i].records, c, bodyTotal)
    /\ c = 0 => lastBlock = <<>>
    /\ c # 0 /\ start < Len(sources[i]) =>
          /\ lastStart = start - size[i]
          /\ lastBlock = LastOf(sources[i], size[i], c + 1)

EncodingInv ==
    phase = "encode" =>
        /\ CarriedInv(call, Len(archives[call].records))
        /\ \A i \in Archives : i > call => archives[i].records = <<>>

\* Nothing is decoded before the header is read.
UnreadInv ==
    phase \in {"encode", "open"} =>
        /\ offered = <<>> /\ decoded = <<>> /\ ending = <<>>
        /\ phase = "open" => lastBlock = <<>> /\ bodyTotal = 0

\* How many of the records offered are decoded.
Closed == IF phase = "restore" THEN Len(offered) - 1 ELSE Len(offered)

\* What the decoder carries after c records.
DecodedInv(c) ==
    /\ header = <<[blockSize |-> BlockSize, genesis |-> Genesis(BlockSize)]>>
    /\ BlockSize \in BlockSizes
    /\ IsSequence(offered) /\ decoded \in Seq(Bytes) /\ c \in Nat
    /\ Chained(offered, decoded, BlockSize, c)
    /\ Len(decoded) <= c * BlockSize
    /\ prior = PriorOf(offered, BlockSize, c + 1)
    /\ BodySum(offered, c, bodyTotal)
    /\ c = 0 => lastBlock = <<>>
    /\ c # 0 => /\ lastStart = (c - 1) * BlockSize
               /\ lastBlock = BlockAt(decoded, (c - 1) * BlockSize, BlockSize)

DecodingInv ==
    /\ phase \in {"read", "restore", "accepted"} => DecodedInv(Closed)
    /\ phase \in {"read", "restore"} => ending = <<>>
    /\ phase = "accepted" => ending = <<Footer(offered, decoded, bodyTotal, prior)>>

\* How of begins is the residual of b after prefix.
Residues(of, b, prefix, v) ==
    \A j \in 1 .. Len(b) :
        of[j] = Residue(b[j], Predict(Recent(Recent(prefix) \o SubSeq(b, 1, j - 1)), v), v)

\* The record at hand passed the checks, and its residual is that of the
\* block restored so far.
RestoringInv ==
    phase = "restore" =>
        /\ offered # <<>> /\ Readable(Current)
        /\ Current.index = Closed /\ Current.reserved = 0 /\ Current.rawLen \in 1 .. BlockSize
        /\ Current.bodyLen = Len(Current.body) /\ Current.bodySha = Sha(Current.body)
        /\ lastBlock # <<>> => Len(lastBlock) = BlockSize
        /\ Regenerated(Current) /\ Decodable(Current)
        /\ block \in Seq(Bytes) /\ Len(block) <= Len(ResidualOf(Current))
        /\ history = Recent(Recent(decoded) \o block)
        /\ Residues(ResidualOf(Current), block, decoded, Current.view)

AcerInv ==
    /\ ArgumentsInv /\ EncodedInv /\ FinishedInv /\ EncodingInv /\ UnreadInv
    /\ DecodingInv /\ RestoringInv /\ WrittenIsAccepted

LEMMA Arguments ==
    ASSUME ArgumentsInv, NEW i \in Archives
    PROVE  /\ sources[i] \in Seq(Bytes) /\ size[i] \in BlockSizes /\ size[i] \in Nat \ {0}
           /\ call \in 1 .. 2 /\ i \in 1 .. 2
  BY GlyphConstants DEF ArgumentsInv, Archives

LEMMA ChainOfNone ==
    ASSUME NEW chained, NEW s, NEW bs PROVE Chained(chained, s, bs, 0)
  BY DEF Chained

LEMMA InitAcerInv == AcerInit => AcerInv
<1> SUFFICES ASSUME AcerInit PROVE AcerInv
  OBVIOUS
<1>1. ArgumentsInv
  BY DEF AcerInit, ArgumentsInv, Archives
<1>2. \A i \in Archives : archives[i].records = <<>>
  BY DEF AcerInit
<1>3. Len(<<>>) = 0 /\ IsSequence(<<>>)
  <2>1. <<>> \in Seq({})
    OBVIOUS
  <2> QED
    BY <2>1 DEF IsSequence
<1>4. EncodedInv
  BY <1>2, <1>3, ChainOfNone DEF EncodedInv
<1>5. FinishedInv
  BY DEF AcerInit, FinishedInv, Archives
<1>6. EncodingInv
  <2>1. call = 1 /\ 1 \in Archives
    BY DEF AcerInit, Archives
  <2>2. size[1] \in Nat
    BY <1>1, <2>1, Arguments
  <2>3. CarriedInv(1, 0)
    BY <1>2, <2>1, <2>2, SumOfNone DEF AcerInit, CarriedInv, PriorOf
  <2> QED
    BY <1>2, <1>3, <2>1, <2>3 DEF EncodingInv
<1>7. UnreadInv
  BY DEF AcerInit, UnreadInv
<1>8. DecodingInv /\ RestoringInv /\ WrittenIsAccepted
  BY DEF AcerInit, DecodingInv, RestoringInv, WrittenIsAccepted
<1> QED
  BY <1>1, <1>4, <1>5, <1>6, <1>7, <1>8 DEF AcerInv

\* An archive the encoder is not at stays as it is.
LEMMA FinishedStays ==
    ASSUME NEW i, Finished(i), UNCHANGED <<sources, size>>, archives'[i] = archives[i]
    PROVE  Finished(i)'
  BY DEF Finished

LEMMA AppendedFacts ==
    ASSUME NEW chained, IsSequence(chained), NEW r
    PROVE  /\ IsSequence(Append(chained, r)) /\ Len(chained) \in Nat
           /\ Len(Append(chained, r)) = Len(chained) + 1
           /\ Append(chained, r)[Len(chained) + 1] = r
           /\ \A n \in 1 .. Len(chained) : Append(chained, r)[n] = chained[n]
<1>1. PICK S : chained \in Seq(S)
  BY DEF IsSequence
<1>2. chained \in Seq(S \cup {r})
  BY <1>1, SequenceOfMore
<1>3. r \in S \cup {r}
  OBVIOUS
<1>4. Append(chained, r) \in Seq(S \cup {r})
  BY <1>2, <1>3
<1>5. /\ Len(chained) \in Nat /\ Len(Append(chained, r)) = Len(chained) + 1
      /\ Append(chained, r)[Len(chained) + 1] = r
      /\ \A n \in 1 .. Len(chained) : Append(chained, r)[n] = chained[n]
  BY <1>2, <1>3
<1> QED
  BY <1>4, <1>5 DEF IsSequence

\* One record more of the same source.
LEMMA ChainStep ==
    ASSUME NEW R, NEW s, NEW bs, NEW c \in Nat, Chained(R, s, bs, c), c * bs < Len(s),
           Says(R[c + 1], ResidualAt(s, bs, c + 1)), R[c + 1] = RecordAt(R, s, bs, c + 1)
    PROVE  Chained(R, s, bs, c + 1)
<1>1. (c + 1) - 1 = c
  OBVIOUS
<1>2. ASSUME NEW n \in 1 .. c + 1
      PROVE  /\ (n - 1) * bs < Len(s) /\ Says(R[n], ResidualAt(s, bs, n))
             /\ R[n] = RecordAt(R, s, bs, n)
  <2>1. CASE n = c + 1
    BY <1>1, <2>1
  <2>2. CASE n # c + 1
    <3>1. n \in 1 .. c
      BY <2>2
    <3> QED
      BY <3>1 DEF Chained
  <2> QED
    BY <2>1, <2>2
<1> QED
  BY <1>2 DEF Chained

\* The views of a source are views.
LEMMA ViewOfSource ==
    ASSUME NEW s \in Seq(Bytes), NEW bs \in BlockSizes, NEW c \in Nat, c * bs < Len(s)
    PROVE  ViewAt(s, bs, c + 1) \in ViewIds
<1>1. bs \in Nat \ {0}
  BY GlyphConstants
<1>2. CASE c = 0
  <2>1. LastOf(s, bs, c + 1) = <<>>
    BY <1>2 DEF LastOf
  <2>2. 1 \in ViewIds
    BY GlyphConstants DEF ViewIds
  <2> QED
    BY <2>1, <2>2 DEF ViewAt, SelectView
<1>3. CASE c # 0
  <2>1. c \in 1 .. c /\ (c + 1) - 1 = c /\ c + 1 # 1
    BY <1>3
  <2>2. PICK from, to \in Nat : from = (c - 1) * bs /\ to = c * bs /\ from + bs = to
    BY <1>1, <2>1, Multiples
  <2>3. to - bs = from /\ to < Len(s) /\ from \in 0 .. Len(s)
    BY <1>1, <2>2
  <2>4. LastOf(s, bs, c + 1) = SubSeq(s, from + 1, to)
    BY <2>1, <2>2, <2>3 DEF LastOf
  <2>5. EarlierOf(s, bs, c + 1) = Before(s, from)
    BY <2>1, <2>2, <2>3 DEF EarlierOf
  <2>6. SubSeq(s, from + 1, to) \in Seq(Bytes) /\ Len(SubSeq(s, from + 1, to)) <= bs
    <3>1. from + 1 \in Nat /\ to \in Int /\ 1 <= from + 1 /\ to <= Len(s)
      BY <2>3
    <3>2. /\ SubSeq(s, from + 1, to) \in Seq(Bytes)
          /\ Len(SubSeq(s, from + 1, to)) = (IF from + 1 <= to THEN (to - (from + 1)) + 1 ELSE 0)
      BY <3>1, SegmentOf
    <3> QED
      BY <1>1, <2>2, <3>2
  <2>7. Before(s, from) \in Seq(Bytes)
    BY <2>3, BeforeIsRecent
  <2>8. SelectView(Before(s, from), SubSeq(s, from + 1, to)) \in ViewIds
    BY <2>6, <2>7, ViewSelected
  <2> QED
    BY <2>4, <2>5, <2>8 DEF ViewAt
<1> QED
  BY <1>2, <1>3

LEMMA EncodeBlockKeeps == ASSUME AcerInv, EncodeBlock PROVE AcerInv'
<1> DEFINE R == archives[call].records
           s == sources[call]
           bs == size[call]
           b == BlockAt(s, start, bs)
           v == SelectView(Before(s, lastStart), lastBlock)
           residual == Project(b, Before(s, start), v)
           r == Record(Len(R), b, v, Spelled(residual), prior)
<1>1. /\ phase = "encode" /\ start < Len(s)
      /\ archives' = [archives EXCEPT ![call].records = Append(@, r)]
      /\ prior' = r.omega /\ bodyTotal' = bodyTotal + r.bodyLen
      /\ lastBlock' = b /\ lastStart' = start /\ start' = start + bs
  BY DEF EncodeBlock
<1>2. UNCHANGED <<phase, call, sources, size, cap, header, offered, ending, history, block, decoded>>
  BY DEF EncodeBlock, reading
<1>3. /\ ArgumentsInv /\ EncodedInv /\ FinishedInv /\ EncodingInv /\ UnreadInv
      /\ CarriedInv(call, Len(R)) /\ call \in Archives
  BY <1>1 DEF AcerInv, EncodingInv, ArgumentsInv
<1>4. s \in Seq(Bytes) /\ bs \in Nat \ {0} /\ call \in 1 .. 2
  BY <1>3, Arguments
<1>5. IsSequence(R) /\ Chained(R, s, bs, Len(R))
  BY <1>3 DEF EncodedInv
<1>6. PICK c \in Nat : c = Len(R)
  BY <1>5, AppendedFacts
<1> HIDE DEF s, bs, b, v, residual, r, R
<1>7. /\ start = c * bs /\ prior = PriorOf(R, bs, c + 1) /\ BodySum(R, c, bodyTotal)
      /\ c = 0 => lastBlock = <<>>
      /\ c # 0 => lastStart = start - bs /\ lastBlock = LastOf(s, bs, c + 1)
  BY <1>1, <1>3, <1>6 DEF CarriedInv, s, bs, R
<1>8. v = ViewAt(s, bs, c + 1)
  <2>1. CASE c = 0
    <3>1. LastOf(s, bs, c + 1) = <<>>
      BY <2>1 DEF LastOf
    <3> QED
      BY <1>7, <2>1, <3>1 DEF SelectView, v, ViewAt
  <2>2. CASE c # 0
    <3>1. (c + 1) - 1 = c /\ c + 1 # 1
      BY <1>6, <2>2
    <3> QED
      BY <1>7, <2>2, <3>1 DEF EarlierOf, v, ViewAt
  <2> QED
    BY <2>1, <2>2
<1>9. residual = ResidualAt(s, bs, c + 1)
  <2>1. (c + 1) - 1 = c
    BY <1>6
  <2> QED
    BY <1>7, <1>8, <2>1 DEF residual, b, ResidualAt
<1>10. r = Record(c, b, v, Spelled(residual), PriorOf(R, bs, c + 1))
  BY <1>6, <1>7 DEF r
<1>10a. /\ Tells(r, c, b, v, PriorOf(R, bs, c + 1)) /\ IsRecord(r)
       /\ r.mode = Spelled(residual).mode /\ r.counts = Spelled(residual).counts
       /\ r.body = Spelled(residual).body /\ r.catalog = Spelled(residual).catalog
  BY <1>10, RecordTells
<1>10b. SpellingOf(r) = Spelled(residual)
  <2>1. \/ Spelled(residual) = Raw(residual)
        \/ Spelled(residual) = Coded(residual)
    BY DEF Spelled
  <2>2. CASE Spelled(residual) = Raw(residual)
    BY <1>10a, <2>2 DEF SpellingOf, Raw
  <2>3. CASE Spelled(residual) = Coded(residual)
    BY <1>10a, <2>3 DEF SpellingOf, Coded
  <2> QED
    BY <2>1, <2>2, <2>3
<1>10c. Says(r, residual)
  <2>1. PICK n \in Nat : n = start /\ n < Len(s)
    <3>1. start \in Nat /\ start < Len(s)
      BY <1>1, <1>4, <1>6, <1>7 DEF s
    <3> QED
      BY <3>1
  <2>2. b \in Seq(Bytes) /\ Len(b) = (IF n + bs <= Len(s) THEN bs ELSE Len(s) - n)
    BY <1>4, <2>1, BlockFacts DEF b
  <2>3. Len(b) \in 1 .. bs
    BY <1>4, <2>1, <2>2
  <2>4. v \in ViewIds /\ Before(s, start) \in Seq(Bytes)
    <3>1. n \in 0 .. Len(s)
      BY <2>1
    <3>2. Before(s, n) \in Seq(Bytes)
      BY <1>4, <3>1, BeforeIsRecent
    <3>3. bs \in BlockSizes /\ c * bs < Len(s)
      BY <1>3, <1>7, <2>1, Arguments DEF bs
    <3>4. v \in ViewIds
      BY <1>4, <1>8, <3>3, ViewOfSource
    <3> QED
      BY <2>1, <3>2, <3>4
  <2>5. residual \in Seq(Bytes) /\ Len(residual) = Len(b)
    BY <2>2, <2>4, Projected DEF residual
  <2>6. PICK l \in Nat : l = Len(b) /\ l \in 1 .. bs
    BY <2>3
  <2>7. l \in UNION {1 .. m : m \in BlockSizes} /\ residual \in [1 .. l -> Bytes]
    <3>1. bs \in BlockSizes
      BY <1>3, Arguments DEF bs
    <3> QED
      BY <2>5, <2>6, <3>1
  <2>8. r.rawLen = l /\ r.bodyLen = Len(r.body)
    BY <1>10a, <2>6 DEF Tells
  <2> QED
    BY <1>10b, <2>7, <2>8, SpelledIsSaid
<1>11. PICK Q : Q = Append(R, r)
  OBVIOUS
<1>12. /\ IsSequence(Q) /\ Len(Q) = c + 1 /\ Q[c + 1] = r
       /\ \A n \in 1 .. c : Q[n] = R[n]
  BY <1>5, <1>6, <1>11, AppendedFacts
<1>13. Chained(Q, s, bs, c + 1) /\ PriorOf(Q, bs, c + 2) = r.omega
  <2>1. Chained(R, s, bs, c)
    BY <1>5, <1>6
  <2>2. Chained(Q, s, bs, c)
    BY <1>12, <2>1, ChainMore
  <2>4. PriorOf(Q, bs, c + 1) = PriorOf(R, bs, c + 1)
    <3>1. c + 1 # 1 => (c + 1) - 1 \in 1 .. c
      OBVIOUS
    <3> QED
      BY <1>12, <3>1 DEF PriorOf
  <2>5. (c + 1) - 1 = c /\ c + 2 # 1 /\ (c + 2) - 1 = c + 1
    OBVIOUS
  <2>6. Q[c + 1] = RecordAt(Q, s, bs, c + 1)
    <3>1. b = BlockAt(s, c * bs, bs)
      BY <1>7 DEF b
    <3> QED
      BY <1>8, <1>10, <1>12, <1>10b, <2>4, <2>5, <3>1 DEF RecordAt
  <2>7. c * bs < Len(s) /\ Says(Q[c + 1], ResidualAt(s, bs, c + 1))
    BY <1>1, <1>7, <1>9, <1>12, <1>10c DEF s
  <2>8. PriorOf(Q, bs, c + 2) = r.omega
    BY <1>12, <2>5 DEF PriorOf
  <2> QED
    BY <2>2, <2>6, <2>7, <2>8, ChainStep
<1>14. /\ archives'[call].records = Q
       /\ \A i \in Archives \ {call} : archives'[i] = archives[i]
       /\ DOMAIN archives' = Archives
       /\ \A i \in Archives : DOMAIN archives'[i] = {"header", "records", "footer"}
  <2>1. archives' = [archives EXCEPT ![call] = [archives[call] EXCEPT !.records = Q]]
    BY <1>1, <1>11 DEF R
  <2> QED
    BY <1>3, <2>1 DEF ArgumentsInv
<1>15. ArgumentsInv'
  BY <1>2, <1>3, <1>14 DEF ArgumentsInv
<1>16. EncodedInv'
  <2>1. ASSUME NEW i \in Archives
        PROVE  /\ IsSequence(archives'[i].records)
               /\ Chained(archives'[i].records, sources'[i], size'[i], Len(archives'[i].records))
    <3>1. CASE i = call
      BY <1>2, <1>13, <1>12, <1>14, <3>1 DEF s, bs
    <3>2. CASE i # call
      BY <1>2, <1>3, <1>14, <3>2 DEF EncodedInv
    <3> QED
      BY <3>1, <3>2
  <2> QED
    BY <2>1 DEF EncodedInv, IsSequence, Chained, RecordAt,
         ResidualAt, ViewAt, PriorOf, EarlierOf, LastOf
<1>17. FinishedInv'
  <2>1. ASSUME NEW i \in Archives, phase' # "encode" \/ i < call' PROVE Finished(i)'
    <3>1. i # call /\ Finished(i)
      BY <1>1, <1>2, <1>3, <1>4, <2>1 DEF FinishedInv
    <3> QED
      BY <1>2, <1>14, <3>1, FinishedStays
  <2> QED
    BY <2>1 DEF FinishedInv
<1>18. EncodingInv'
  <2>1. CarriedInv(call, c + 1)'
    <3>1. start' = (c + 1) * bs
      <4>1. start' = start + bs /\ start = c * bs
        BY <1>1, <1>7 DEF bs
      <4> QED
        BY <1>4, <1>6, <4>1
    <3>2. prior' = PriorOf(Q, bs, (c + 1) + 1)
      <4>1. (c + 1) + 1 = c + 2
        BY <1>6
      <4> QED
        BY <1>1, <1>13, <4>1
    <3>3. BodySum(Q, c + 1, bodyTotal')
      BY <1>1, <1>7, <1>12, SumOfMore
    <3>4. ASSUME start' < Len(s)
          PROVE  lastStart' = start' - bs /\ lastBlock' = LastOf(s, bs, (c + 1) + 1)
      <4>1. PICK at, to \in Nat : at = c * bs /\ to = (c + 1) * bs
        BY <1>4, <1>6
      <4>2. to = at + bs /\ at = start /\ to <= Len(s)
        BY <1>1, <1>4, <1>7, <3>1, <3>4, <4>1 DEF bs
      <4>3. b = SubSeq(s, at + 1, to)
        <5>1. Shorter(at + bs, Len(s)) = to
          BY <4>2 DEF Shorter
        <5> QED
          BY <4>2, <5>1 DEF b, BlockAt
      <4>4. LastOf(s, bs, (c + 1) + 1) = SubSeq(s, (to - bs) + 1, to)
        <5>1. (c + 1) + 1 # 1 /\ ((c + 1) + 1) - 1 = c + 1
          BY <1>6
        <5> QED
          BY <4>1, <5>1 DEF LastOf
      <4>5. to - bs = at
        BY <1>4, <4>1, <4>2
      <4> QED
        BY <1>1, <3>1, <4>1, <4>2, <4>3, <4>4, <4>5
    <3>5. c + 1 # 0
      BY <1>6
    <3> QED
      BY <1>2, <1>14, <3>1, <3>2, <3>3, <3>4, <3>5
         DEF CarriedInv, bs, s, PriorOf, BodySum, LastOf
  <2>2. \A i \in Archives : i > call' => archives'[i].records = <<>>
    BY <1>1, <1>2, <1>3, <1>14 DEF EncodingInv
  <2> QED
    BY <1>2, <1>12, <1>14, <2>1, <2>2 DEF EncodingInv
<1>19. UnreadInv'
  BY <1>1, <1>2, <1>3 DEF UnreadInv
<1>20. DecodingInv' /\ RestoringInv' /\ WrittenIsAccepted'
  BY <1>1, <1>2 DEF DecodingInv, RestoringInv, WrittenIsAccepted
<1> QED
  BY <1>15, <1>16, <1>17, <1>18, <1>19, <1>20 DEF AcerInv

LEMMA EncodeFooterKeeps == ASSUME AcerInv, EncodeFooter PROVE AcerInv'
<1> DEFINE R == archives[call].records
           s == sources[call]
           bs == size[call]
           h == <<[blockSize |-> bs, genesis |-> Genesis(bs)]>>
           f == <<Footer(R, s, bodyTotal, prior)>>
<1>1. /\ phase = "encode" /\ start >= Len(s)
      /\ archives' = [archives EXCEPT ![call].header = h, ![call].footer = f]
      /\ phase' = (IF call = 1 THEN "encode" ELSE "open")
      /\ call' = 2 /\ start' = 0 /\ prior' = Genesis(size[2])
      /\ lastBlock' = <<>> /\ lastStart' = 0 /\ bodyTotal' = 0
  BY DEF EncodeFooter
<1>2. UNCHANGED <<sources, size, cap, header, offered, ending, history, block, decoded>>
  BY DEF EncodeFooter, reading
<1>3. /\ ArgumentsInv /\ EncodedInv /\ FinishedInv /\ EncodingInv /\ UnreadInv
      /\ CarriedInv(call, Len(R)) /\ call \in Archives
  BY <1>1 DEF AcerInv, EncodingInv, ArgumentsInv
<1>4. s \in Seq(Bytes) /\ bs \in Nat \ {0} /\ call \in {1, 2}
  <2>1. s \in Seq(Bytes) /\ bs \in Nat \ {0} /\ call \in 1 .. 2
    BY <1>3, Arguments
  <2> QED
    BY <2>1
<1> HIDE DEF h, f
<1>5. /\ archives'[call].records = R /\ archives'[call].header = h
      /\ archives'[call].footer = f
      /\ \A i \in Archives \ {call} : archives'[i] = archives[i]
      /\ DOMAIN archives' = Archives
      /\ \A i \in Archives : DOMAIN archives'[i] = {"header", "records", "footer"}
  <2> DEFINE A == [archives EXCEPT ![call] = [archives[call] EXCEPT !.header = h]]
  <2>1. archives' = [A EXCEPT ![call] = [A[call] EXCEPT !.footer = f]]
    BY <1>1
  <2>2. /\ A[call] = [archives[call] EXCEPT !.header = h] /\ DOMAIN A = Archives
        /\ \A i \in Archives \ {call} : A[i] = archives[i]
    BY <1>3 DEF ArgumentsInv
  <2> HIDE DEF A
  <2>3. archives'[call] = [A[call] EXCEPT !.footer = f]
    BY <1>3, <2>1, <2>2
  <2> QED
    BY <1>3, <2>1, <2>2, <2>3 DEF ArgumentsInv
<1>6. \A i \in Archives : archives'[i].records = archives[i].records
  BY <1>5 DEF R
<1>7. ArgumentsInv'
  <2>1. phase' \in {"encode", "open"} /\ call' \in Archives
    BY <1>1 DEF Archives
  <2> QED
    BY <1>2, <1>3, <1>5, <2>1 DEF ArgumentsInv
<1>8. EncodedInv'
  BY <1>2, <1>3, <1>6
     DEF EncodedInv, IsSequence, Chained, RecordAt,
         ResidualAt, ViewAt, PriorOf, EarlierOf, LastOf
<1>9. FinishedInv'
  <2>1. ASSUME NEW i \in Archives, phase' # "encode" \/ i < call' PROVE Finished(i)'
    <3>1. CASE i = call
      <4>1. archives'[i].header = <<[blockSize |-> size'[i], genesis |-> Genesis(size'[i])]>>
        BY <1>2, <1>5, <3>1 DEF h
      <4>2. Len(s) <= Len(R) * bs /\ prior = PriorOf(R, bs, Len(R) + 1)
            /\ BodySum(R, Len(R), bodyTotal)
        BY <1>1, <1>3, <1>4 DEF CarriedInv
      <4>3. archives'[i].footer =
               <<Footer(R, s, bodyTotal, PriorOf(R, bs, Len(R) + 1))>>
        BY <1>5, <3>1, <4>2 DEF f
      <4> QED
        BY <1>2, <1>5, <3>1, <4>1, <4>2, <4>3 DEF Finished, PriorOf, BodySum
    <3>2. CASE i # call
      <4>1. i < call
        <5>1. i \in {1, 2}
          BY DEF Archives
        <5> QED
          BY <1>1, <1>4, <2>1, <3>2, <5>1
      <4>2. Finished(i)
        BY <1>3, <4>1 DEF FinishedInv
      <4> QED
        BY <1>2, <1>5, <3>2, <4>2, FinishedStays
    <3> QED
      BY <3>1, <3>2
  <2> QED
    BY <2>1 DEF FinishedInv
<1>10. EncodingInv'
  <2>1. SUFFICES ASSUME phase' = "encode" PROVE EncodingInv'
    BY DEF EncodingInv
  <2>2. call = 1 /\ 2 \in Archives /\ 2 > 1
    BY <1>1, <2>1 DEF Archives
  <2>3. archives'[2].records = <<>> /\ Len(<<>>) = 0
    BY <1>1, <1>3, <1>6, <2>2 DEF EncodingInv
  <2>4. size[2] \in Nat \ {0}
    BY <1>3, <2>2, Arguments
  <2>5. BodySum(archives'[2].records, 0, 0)
    BY SumOfNone
  <2>6. CarriedInv(2, 0)'
    BY <1>1, <1>2, <2>4, <2>5 DEF CarriedInv, PriorOf, BodySum
  <2>7. \A i \in Archives : ~(i > 2)
    BY DEF Archives
  <2> QED
    BY <1>1, <2>3, <2>6, <2>7 DEF EncodingInv
<1>11. UnreadInv'
  BY <1>1, <1>2, <1>3 DEF UnreadInv
<1>12. DecodingInv' /\ RestoringInv' /\ WrittenIsAccepted'
  BY <1>1 DEF DecodingInv, RestoringInv, WrittenIsAccepted
<1> QED
  BY <1>7, <1>8, <1>9, <1>10, <1>11, <1>12 DEF AcerInv

\* The decoder leaves what the encoder wrote.
LEMMA WrittenStays ==
    ASSUME AcerInv, UNCHANGED <<sources, size, archives, writing>>, phase # "encode",
           cap' = cap \/ cap' \in Caps,
           phase' \in {"open", "read", "restore", "accepted", "rejected", "cut"}
    PROVE  ArgumentsInv' /\ EncodedInv' /\ FinishedInv' /\ EncodingInv'
<1>1. ArgumentsInv /\ EncodedInv /\ \A i \in Archives : Finished(i)
  BY DEF AcerInv, FinishedInv
<1>2. ArgumentsInv'
  BY <1>1, GlyphConstants DEF ArgumentsInv, writing
<1>3. EncodedInv'
  BY SMTT(30), <1>1 DEF EncodedInv, IsSequence, Chained, RecordAt,
         ResidualAt, ViewAt, PriorOf, EarlierOf, LastOf
<1>4. FinishedInv'
  <2>1. ASSUME NEW i \in Archives PROVE Finished(i)'
    BY <1>1, FinishedStays
  <2> QED
    BY <2>1 DEF FinishedInv
<1>5. EncodingInv'
  BY DEF EncodingInv
<1> QED
  BY <1>2, <1>3, <1>4, <1>5

LEMMA OpenArchiveKeeps == ASSUME AcerInv, OpenArchive PROVE AcerInv'
<1>1. PICK h \in Headers : /\ phase' = (IF HeaderAccepted(h) THEN "read" ELSE "rejected")
                           /\ header' = <<h>> /\ prior' = h.genesis
  BY DEF OpenArchive
<1>2. /\ phase = "open"
      /\ UNCHANGED <<sources, size, archives, writing, lastBlock, lastStart,
                     bodyTotal, offered, ending, history, block, decoded>>
  BY DEF OpenArchive
<1>3. ArgumentsInv' /\ EncodedInv' /\ FinishedInv' /\ EncodingInv'
  <2>1. phase' \in {"read", "rejected"} /\ cap' \in Caps
    BY <1>1 DEF OpenArchive
  <2> QED
    BY <1>2, <2>1, WrittenStays
<1>4. ArgumentsInv /\ UnreadInv /\ FinishedInv
  BY DEF AcerInv
<1>5. PICK i \in Archives, j \in Archives : h = [blockSize |-> size[i], genesis |-> Genesis(size[j])]
  BY <1>1 DEF Headers
<1>6. h.blockSize = size[i] /\ h.genesis = Genesis(size[j]) /\ size[i] \in BlockSizes
  BY <1>4, <1>5, Arguments
<1>7. /\ offered' = <<>> /\ decoded' = <<>> /\ ending' = <<>> /\ lastBlock' = <<>>
      /\ bodyTotal' = 0
  BY <1>2, <1>4 DEF UnreadInv
<1>8. UnreadInv' /\ RestoringInv'
  BY <1>1 DEF UnreadInv, RestoringInv
<1>9. CASE HeaderAccepted(h)
  <2>1. phase' = "read" /\ BlockSize' = h.blockSize /\ h.genesis = Genesis(h.blockSize)
    BY <1>1, <1>9 DEF BlockSize, HeaderAccepted
  <2>2. Len(<<>>) = 0 /\ <<>> \in Seq(Bytes) /\ IsSequence(<<>>)
    BY DEF IsSequence
  <2>3. Closed' = 0
    BY <1>7, <2>1, <2>2 DEF Closed
  <2>4. h = [blockSize |-> h.blockSize, genesis |-> Genesis(h.blockSize)]
    BY <1>5, <2>1
  <2>5. header' = <<[blockSize |-> BlockSize', genesis |-> Genesis(BlockSize')]>>
    BY <1>1, <2>1, <2>4
  <2>6. Chained(offered', decoded', BlockSize', 0)
    BY ChainOfNone
  <2>7. BodySum(offered', 0, bodyTotal')
    BY <1>7, SumOfNone
  <2>8. prior' = PriorOf(offered', BlockSize', 0 + 1)
    BY <1>1, <2>1 DEF PriorOf
  <2>9. Len(decoded') <= 0 * BlockSize' /\ BlockSize' \in BlockSizes
    <3>1. PICK bs \in Nat : bs = h.blockSize
      BY <1>6, GlyphConstants
    <3>2. 0 * bs = 0 /\ 0 <= 0
      OBVIOUS
    <3>3. Len(decoded') = 0
      BY <1>7, <2>2
    <3> QED
      BY <1>6, <2>1, <3>1, <3>2, <3>3
  <2>10. DecodedInv(0)'
    BY <1>7, <2>2, <2>5, <2>6, <2>7, <2>8, <2>9
       DEF DecodedInv, Chained, RecordAt,
           ResidualAt, ViewAt, PriorOf, EarlierOf, LastOf, BodySum, IsSequence
  <2>11. DecodingInv'
    BY <1>7, <2>1, <2>3, <2>10 DEF DecodingInv
  <2>12. WrittenIsAccepted'
    BY <2>1 DEF WrittenIsAccepted
  <2> QED
    BY <1>3, <1>8, <2>11, <2>12 DEF AcerInv
<1>10. CASE ~HeaderAccepted(h)
  <2>1. phase' = "rejected"
    BY <1>1, <1>10
  <2>2. ASSUME NEW k \in Archives PROVE header' # archives'[k].header
    <3>1. archives'[k].header = <<[blockSize |-> size[k], genesis |-> Genesis(size[k])]>>
      BY <1>2, <1>4 DEF FinishedInv, Finished
    <3>2. SUFFICES ASSUME h = [blockSize |-> size[k], genesis |-> Genesis(size[k])]
                   PROVE FALSE
      BY <1>1, <3>1
    <3> QED
      BY <1>10, <3>2 DEF HeaderAccepted
  <2>3. WrittenIsAccepted'
    BY <2>2 DEF WrittenIsAccepted, FirstPart
  <2>4. DecodingInv'
    BY <2>1 DEF DecodingInv
  <2> QED
    BY <1>3, <1>8, <2>3, <2>4 DEF AcerInv
<1> QED
  BY <1>9, <1>10

LEMMA TruncatedKeeps == ASSUME AcerInv, Truncated PROVE AcerInv'
<1>1. phase = "read" /\ phase' = "cut" /\ UNCHANGED <<sources, size, archives, writing, cap>>
  BY DEF Truncated, reading
<1>2. ArgumentsInv' /\ EncodedInv' /\ FinishedInv' /\ EncodingInv'
  BY <1>1, WrittenStays
<1>3. UnreadInv' /\ DecodingInv' /\ RestoringInv' /\ WrittenIsAccepted'
  BY <1>1 DEF UnreadInv, DecodingInv, RestoringInv, WrittenIsAccepted
<1> QED
  BY <1>2, <1>3 DEF AcerInv

\* Two sequences of which one begins with the other.
LEMMA Continued ==
    ASSUME NEW S, NEW s \in Seq(S), NEW t \in Seq(S), Len(s) <= Len(t),
           \A j \in 1 .. Len(s) : s[j] = t[j]
    PROVE  \E rest \in Seq(S) : t = s \o rest
<1>1. PICK n, m \in Nat : n = Len(s) /\ m = Len(t) /\ n <= m
  OBVIOUS
<1>2. PICK rest \in Seq(S) : rest = SubSeq(t, n + 1, m)
  <2>1. n + 1 \in Nat /\ m \in Int /\ 1 <= n + 1 /\ m <= Len(t)
    BY <1>1
  <2> QED
    BY <2>1, SegmentOf
<1>3. /\ Len(rest) = m - n
      /\ \A i \in 1 .. Len(rest) : rest[i] = t[((n + 1) + i) - 1]
  <2>1. n + 1 \in Nat /\ m \in Int /\ 1 <= n + 1 /\ m <= Len(t)
    BY <1>1
  <2>2. /\ Len(SubSeq(t, n + 1, m)) = (IF n + 1 <= m THEN (m - (n + 1)) + 1 ELSE 0)
        /\ \A i \in 1 .. Len(SubSeq(t, n + 1, m)) :
              SubSeq(t, n + 1, m)[i] = t[((n + 1) + i) - 1]
    BY <2>1, SegmentOf
  <2>3. (IF n + 1 <= m THEN (m - (n + 1)) + 1 ELSE 0) = m - n
    BY <1>1
  <2> QED
    BY <1>2, <2>2, <2>3
<1>4. PICK u \in Seq(S) : u = s \o rest
  BY Joined
<1>5. /\ Len(u) = m /\ \A i \in 1 .. n : u[i] = s[i]
      /\ \A i \in 1 .. Len(rest) : u[n + i] = rest[i]
  <2>1. /\ Len(u) = Len(s) + Len(rest) /\ \A i \in 1 .. Len(s) : u[i] = s[i]
        /\ \A i \in 1 .. Len(rest) : u[Len(s) + i] = rest[i]
    BY <1>4, ConcatFacts
  <2> QED
    BY <1>1, <1>3, <2>1
<1>6. ASSUME NEW j \in 1 .. Len(u) PROVE u[j] = t[j]
  <2>1. CASE j <= n
    BY <1>1, <1>5, <2>1
  <2>2. CASE ~(j <= n)
    <3>0. j - n \in 1 .. m - n /\ j = n + (j - n)
      BY <1>5, <2>2
    <3>1. PICK i \in 1 .. Len(rest) : j = n + i
      BY <1>3, <3>0
    <3>2. ((n + 1) + i) - 1 = j
      BY <1>1, <3>1
    <3>3. u[j] = rest[i]
      BY <1>5, <3>1
    <3>4. rest[i] = t[j]
      BY <1>3, <3>2
    <3> QED
      BY <3>3, <3>4
  <2> QED
    BY <2>1, <2>2
<1>7. u = t
  BY <1>1, <1>5, <1>6, SameSequence
<1> QED
  BY <1>4, <1>7

\* The first records of a chain.
LEMMA ChainLess ==
    ASSUME NEW R, NEW s, NEW bs, NEW c \in Nat, NEW d \in Nat, d <= c, Chained(R, s, bs, c)
    PROVE  Chained(R, s, bs, d)
<1>1. \A n \in 1 .. d : n \in 1 .. c
  OBVIOUS
<1> QED
  BY <1>1 DEF Chained

\* Where the last block was full, what is decoded ends with it, and the next
\* record takes up what the decoder carries.
LEMMA FullBlocks ==
    ASSUME NEW R, NEW s \in Seq(Bytes), NEW rest \in Seq(Bytes), NEW bs \in Nat \ {0},
           NEW c \in Nat, NEW last, NEW at, Chained(R, s, bs, c), Len(s) <= c * bs,
           c = 0 => last = <<>>,
           c # 0 => at = (c - 1) * bs /\ last = BlockAt(s, (c - 1) * bs, bs),
           last # <<>> => Len(last) = bs
    PROVE  /\ Len(s) = c * bs /\ c * bs \in Nat
           /\ SelectView(Before(s, at), last) =
                SelectView(EarlierOf(s \o rest, bs, c + 1), LastOf(s \o rest, bs, c + 1))
<1>1. CASE c = 0
  <2>1. 0 * bs = 0 /\ Len(s) \in Nat
    OBVIOUS
  <2>2. Len(s) = c * bs /\ c * bs \in Nat
    BY <1>1, <2>1
  <2>3. LastOf(s \o rest, bs, c + 1) = <<>> /\ last = <<>>
    BY <1>1 DEF LastOf
  <2> QED
    BY <2>2, <2>3 DEF SelectView
<1>2. CASE c # 0
  <2>1. c \in 1 .. c
    BY <1>2
  <2>2. PICK from, to \in Nat : from = (c - 1) * bs /\ to = c * bs /\ from + bs = to
    BY <2>1, Multiples
  <2>3. from < Len(s) /\ at = from /\ last = BlockAt(s, from, bs)
    BY <1>2, <2>1, <2>2 DEF Chained
  <2>4. Len(last) = (IF from + bs <= Len(s) THEN bs ELSE Len(s) - from)
    BY <2>3, BlockFacts
  <2>5. Len(last) = bs
    <3>1. Len(last) # 0
      BY <2>3, <2>4
    <3>2. last # <<>>
      BY <3>1
    <3> QED
      BY <3>2
  <2>6. Len(s) = to
    BY <2>2, <2>4, <2>5
  <2>7. (c + 1) - 1 = c /\ c + 1 # 1 /\ to - bs = from
    BY <1>2, <2>2
  <2>8. last = SubSeq(s, from + 1, to)
    <3>1. Shorter(from + bs, Len(s)) = to
      BY <2>2, <2>6 DEF Shorter
    <3> QED
      BY <2>3, <3>1 DEF BlockAt
  <2>9. LastOf(s \o rest, bs, c + 1) = SubSeq(s \o rest, from + 1, to)
    BY <2>2, <2>7 DEF LastOf
  <2>10. SubSeq(s \o rest, from + 1, to) = SubSeq(s, from + 1, to)
    <3>1. from + 1 \in Nat /\ to \in Int /\ 1 <= from + 1 /\ to <= Len(s)
      BY <2>6
    <3> QED
      BY <3>1, SegmentKept
  <2>11. EarlierOf(s \o rest, bs, c + 1) = Before(s \o rest, from)
    BY <2>2, <2>7 DEF EarlierOf
  <2>12. Before(s \o rest, from) = Before(s, from)
    <3>1. from \in 0 .. Len(s)
      BY <2>3
    <3> QED
      BY <3>1, BeforeKept
  <2> QED
    BY <2>2, <2>3, <2>6, <2>8, <2>9, <2>10, <2>11, <2>12
<1> QED
  BY <1>1, <1>2

LEMMA SumStays ==
    ASSUME NEW chained, NEW more, NEW c \in Nat, NEW total, BodySum(chained, c, total),
           \A n \in 1 .. c : more[n] = chained[n]
    PROVE  BodySum(more, c, total)
  BY DEF BodySum

\* While the records offered are those of an archive, what is decoded is how
\* its source begins.
LEMMA HonestSoFar ==
    ASSUME AcerInv, phase \in {"read", "restore"}, NEW i \in Archives,
           header = archives[i].header, NEW c \in Nat, c = Closed,
           c <= Len(archives[i].records),
           \A n \in 1 .. c : offered[n] = archives[i].records[n]
    PROVE  /\ BlockSize = size[i] /\ size[i] \in Nat \ {0} /\ Finished(i) /\ DecodedInv(c)
           /\ sources[i] \in Seq(Bytes)
           /\ Chained(archives[i].records, sources[i], size[i], c)
           /\ Chained(archives[i].records, sources[i], size[i], Len(archives[i].records))
           /\ IsSequence(archives[i].records)
           /\ prior = PriorOf(archives[i].records, size[i], c + 1)
           /\ Len(decoded) <= Len(sources[i])
           /\ \A j \in 1 .. Len(decoded) : decoded[j] = sources[i][j]
<1> DEFINE R == archives[i].records
<1>1. /\ ArgumentsInv /\ EncodedInv /\ Finished(i) /\ DecodedInv(c)
  BY DEF AcerInv, FinishedInv, DecodingInv
<1>2. sources[i] \in Seq(Bytes) /\ size[i] \in Nat \ {0}
  BY <1>1, Arguments
<1>3. BlockSize = size[i]
  BY <1>1 DEF Finished, BlockSize
<1>4. IsSequence(R) /\ Chained(R, sources[i], size[i], Len(R))
  BY <1>1 DEF EncodedInv
<1>5. Len(R) \in Nat
  BY <1>4, AppendedFacts
<1>6. Chained(R, sources[i], size[i], c)
  BY <1>4, <1>5, ChainLess
<1>7. Chained(offered, decoded, size[i], c) /\ decoded \in Seq(Bytes)
      /\ Len(decoded) <= c * size[i] /\ prior = PriorOf(offered, size[i], c + 1)
  BY <1>1, <1>3 DEF DecodedInv
<1>8. /\ Len(decoded) <= Len(sources[i])
      /\ \A j \in 1 .. Len(decoded) : decoded[j] = sources[i][j]
  <2>0. c \in Nat
    OBVIOUS
  <2>1. PICK t \in Seq(Bytes) : t = sources[i]
    BY <1>2
  <2>2. PICK bs \in Nat \ {0} : bs = size[i]
    BY <1>2
  <2>3. Chained(offered, decoded, bs, c) /\ Chained(R, t, bs, c) /\ Len(decoded) <= c * bs
    BY <1>6, <1>7, <2>1, <2>2
  <2>4. \A n \in 1 .. c : offered[n] = R[n]
    OBVIOUS
  <2> HIDE DEF R
  <2>5. decoded \in Seq(Bytes)
    BY <1>7
  <2>6. Len(decoded) <= Len(t) /\ \A j \in 1 .. Len(decoded) : decoded[j] = t[j]
    BY ONLY <2>0, <2>3, <2>4, <2>5, SameBlocks
  <2> QED
    BY <2>1, <2>6
<1>9. PriorOf(offered, size[i], c + 1) = PriorOf(R, size[i], c + 1)
  <2>1. c + 1 # 1 => (c + 1) - 1 \in 1 .. c
    OBVIOUS
  <2> QED
    BY <2>1 DEF PriorOf
<1> QED
  BY <1>1, <1>2, <1>3, <1>4, <1>6, <1>7, <1>8, <1>9

\* While there are more of them, every block decoded was full, and the view
\* of the next is the one the decoder regenerates.
LEMMA HonestRecord ==
    ASSUME AcerInv, phase \in {"read", "restore"}, NEW i \in Archives,
           header = archives[i].header, NEW c \in Nat, c = Closed,
           c + 1 <= Len(archives[i].records),
           \A n \in 1 .. c : offered[n] = archives[i].records[n]
    PROVE  /\ lastBlock # <<>> => Len(lastBlock) = size[i]
           /\ Len(decoded) = c * size[i] /\ c * size[i] \in Nat
           /\ c * size[i] < Len(sources[i])
           /\ \E rest \in Seq(Bytes) : sources[i] = decoded \o rest
           /\ SelectView(Before(decoded, lastStart), lastBlock) =
                SelectView(EarlierOf(sources[i], size[i], c + 1),
                           LastOf(sources[i], size[i], c + 1))
<1> DEFINE R == archives[i].records
           s == sources[i]
           bs == size[i]
<1>0. IsSequence(R) /\ Len(R) \in Nat
  <2>1. IsSequence(R)
    BY DEF AcerInv, EncodedInv
  <2> QED
    BY <2>1, AppendedFacts
<1>1. c <= Len(R)
  BY <1>0
<1>2. /\ BlockSize = bs /\ bs \in Nat \ {0} /\ DecodedInv(c)
      /\ s \in Seq(Bytes) /\ Chained(R, s, bs, c) /\ Chained(R, s, bs, Len(R))
      /\ Len(decoded) <= Len(s)
      /\ \A j \in 1 .. Len(decoded) : decoded[j] = s[j]
  BY <1>1, HonestSoFar
<1>3. /\ Chained(offered, decoded, bs, c) /\ decoded \in Seq(Bytes)
      /\ Len(decoded) <= c * bs
      /\ c = 0 => lastBlock = <<>>
      /\ c # 0 => lastStart = (c - 1) * bs /\ lastBlock = BlockAt(decoded, (c - 1) * bs, bs)
  BY <1>2 DEF DecodedInv
<1>4. c * bs < Len(s)
  <2>1. c + 1 \in 1 .. Len(R) /\ (c + 1) - 1 = c
    BY <1>0
  <2> QED
    BY <1>2, <2>1 DEF Chained
<1> HIDE DEF R, s, bs
<1>5. lastBlock # <<>> => Len(lastBlock) = bs
  <2>1. SUFFICES ASSUME c # 0 PROVE Len(lastBlock) = bs
    BY <1>3
  <2>2. c \in 1 .. c
    BY <2>1
  <2>3. PICK from, to \in Nat : from = (c - 1) * bs /\ to = c * bs /\ from + bs = to
    BY <1>2, <2>2, Multiples
  <2>4. R[c].decodedSha = Sha(BlockAt(s, from, bs))
    BY <1>2, <2>2, <2>3, ChainSays
  <2>5. offered[c].decodedSha = Sha(BlockAt(decoded, from, bs))
    BY <1>3, <2>2, <2>3, ChainSays
  <2>6. offered[c] = R[c]
    BY <2>2 DEF R
  <2>7. BlockAt(s, from, bs) = BlockAt(decoded, from, bs)
    <3>1. Sha(BlockAt(s, from, bs)) = Sha(BlockAt(decoded, from, bs))
      BY <2>4, <2>5, <2>6
    <3> QED
      BY <3>1, ShaHolds
  <2>8. from < Len(s) /\ from + bs <= Len(s)
    BY <1>2, <1>4, <2>3
  <2>9. Len(BlockAt(s, from, bs)) = bs
    BY <1>2, <2>3, <2>8, BlockFacts
  <2> QED
    BY <1>3, <2>1, <2>3, <2>7, <2>9
<1>6. PICK rest \in Seq(Bytes) : s = decoded \o rest
  BY <1>2, <1>3, Continued
<1>7. /\ Len(decoded) = c * bs /\ c * bs \in Nat
      /\ SelectView(Before(decoded, lastStart), lastBlock) =
           SelectView(EarlierOf(decoded \o rest, bs, c + 1), LastOf(decoded \o rest, bs, c + 1))
  BY <1>2, <1>3, <1>5, FullBlocks
<1> QED
  BY <1>4, <1>5, <1>6, <1>7 DEF s, bs

LEMMA ReadableSealed ==
    ASSUME NEW q, NEW last, Readable(q) PROVE Readable(Sealed(last, q))
<1>1. Sealed(last, q) = [q EXCEPT !.omega = Omega(last, q)]
  BY DEF Sealed
<1>2. q = [f \in Fields |-> q[f]]
  BY DEF Readable, IsRecord
<1>3. DOMAIN q = Fields
  BY <1>2
<1>4. Sealed(last, q) = [f \in Fields |-> Sealed(last, q)[f]]
  BY <1>1, <1>2, <1>3
<1>5. Sealed(last, q).body = q.body
  BY <1>1, <1>3 DEF Fields
<1> QED
  BY <1>4, <1>5 DEF Readable, IsRecord

LEMMA OfferIsReadable ==
    ASSUME NEW r \in Offer PROVE Readable(r)
<1>1. PICK q : Readable(q) /\ (r = q \/ r = Sealed(prior, q))
  BY DEF Offer
<1> QED
  BY <1>1, ReadableSealed

\* The view the decoder regenerates is one.
LEMMA CarriedView ==
    ASSUME NEW c, DecodedInv(c)
    PROVE  SelectView(Before(decoded, lastStart), lastBlock) \in ViewIds
<1>1. /\ BlockSize \in BlockSizes /\ decoded \in Seq(Bytes) /\ c \in Nat
      /\ Chained(offered, decoded, BlockSize, c)
      /\ c = 0 => lastBlock = <<>>
      /\ c # 0 => /\ lastStart = (c - 1) * BlockSize
                 /\ lastBlock = BlockAt(decoded, (c - 1) * BlockSize, BlockSize)
  BY DEF DecodedInv
<1>2. PICK bs \in Nat \ {0} : bs = BlockSize /\ bs \in BlockSizes
  BY <1>1, GlyphConstants
<1>3. CASE c = 0
  <2>1. 1 \in ViewIds
    BY GlyphConstants DEF ViewIds
  <2> QED
    BY <1>1, <1>3, <2>1 DEF SelectView
<1>4. CASE c # 0
  <2>1. c \in 1 .. c
    BY <1>1, <1>4
  <2>2. PICK from \in Nat : from = (c - 1) * bs
    BY <1>1, <2>1, Multiples
  <2>3. from < Len(decoded) /\ lastStart = from /\ lastBlock = BlockAt(decoded, from, bs)
    BY <1>1, <1>2, <1>4, <2>1, <2>2 DEF Chained
  <2>4. /\ lastBlock \in Seq(Bytes)
        /\ Len(lastBlock) = (IF from + bs <= Len(decoded) THEN bs ELSE Len(decoded) - from)
    BY <1>1, <2>3, BlockFacts
  <2>5. Len(lastBlock) <= bs
    BY <1>1, <2>3, <2>4
  <2>6. Before(decoded, from) \in Seq(Bytes)
    <3>1. from \in 0 .. Len(decoded)
      BY <1>1, <2>3
    <3> QED
      BY <1>1, <3>1, BeforeIsRecent
  <2>7. SelectView(Before(decoded, from), lastBlock) \in ViewIds
    BY <1>2, <2>4, <2>5, <2>6, ViewSelected
  <2> QED
    BY <2>3, <2>7
<1> QED
  BY <1>1, <1>3, <1>4

\* The next record of an archive, as the chain of its source has it.
LEMMA NextOfArchive ==
    ASSUME AcerInv, phase \in {"read", "restore"}, NEW i \in Archives,
           header = archives[i].header, NEW c \in Nat, c = Closed,
           c + 1 <= Len(archives[i].records),
           \A n \in 1 .. c : offered[n] = archives[i].records[n]
    PROVE  \E b \in Seq(Bytes), p \in Seq(Bytes), v \in ViewIds :
              /\ b = BlockAt(sources[i], c * size[i], size[i])
              /\ p = Recent(decoded)
              /\ v = SelectView(Before(decoded, lastStart), lastBlock)
              /\ Len(b) \in 1 .. size[i] /\ Len(decoded) + Len(b) <= Len(sources[i])
              /\ Says(archives[i].records[c + 1], Project(b, p, v))
              /\ Tells(archives[i].records[c + 1], c, b, v, prior)
<1>0. IsSequence(archives[i].records) /\ Len(archives[i].records) \in Nat
  <2>1. IsSequence(archives[i].records)
    BY DEF AcerInv, EncodedInv
  <2> QED
    BY <2>1, AppendedFacts
<1>1. PICK R : R = archives[i].records
  OBVIOUS
<1>2. c <= Len(R) /\ c + 1 \in 1 .. Len(R)
  BY <1>0, <1>1
<1>3. /\ BlockSize = size[i] /\ size[i] \in Nat \ {0} /\ DecodedInv(c)
      /\ sources[i] \in Seq(Bytes)
      /\ Chained(R, sources[i], size[i], Len(R))
      /\ prior = PriorOf(R, size[i], c + 1)
  BY <1>1, <1>2, HonestSoFar
<1>4. PICK s \in Seq(Bytes), bs \in Nat \ {0} : s = sources[i] /\ bs = size[i]
  BY <1>3
<1>5. /\ Len(decoded) = c * bs /\ c * bs \in Nat /\ c * bs < Len(s)
      /\ \E rest \in Seq(Bytes) : s = decoded \o rest
      /\ SelectView(Before(decoded, lastStart), lastBlock) =
           SelectView(EarlierOf(s, bs, c + 1), LastOf(s, bs, c + 1))
  BY <1>4, HonestRecord
<1>6. PICK rest \in Seq(Bytes) : s = decoded \o rest
  BY <1>5
<1>7. PICK n \in Nat : n = c * bs /\ n = Len(decoded) /\ n < Len(s)
  BY <1>5
<1>8. decoded \in Seq(Bytes)
  BY <1>3 DEF DecodedInv
<1>9. Before(s, n) = Recent(decoded) /\ Recent(decoded) \in Seq(Bytes)
  <2>1. n \in 0 .. Len(decoded)
    BY <1>7
  <2>2. Before(s, n) = Before(decoded, n)
    BY <1>6, <1>8, <2>1, BeforeKept
  <2>3. Before(decoded, n) = Recent(SubSeq(decoded, 1, n))
    BY <1>8, <2>1, BeforeIsRecent
  <2>4. SubSeq(decoded, 1, n) = decoded
    BY <1>7, <1>8
  <2> QED
    BY <1>8, <2>2, <2>3, <2>4, RecentFacts
<1>10. PICK b \in Seq(Bytes) : b = BlockAt(s, n, bs)
  BY <1>7, BlockFacts
<1>11. Len(b) = (IF n + bs <= Len(s) THEN bs ELSE Len(s) - n)
  <2>1. Len(BlockAt(s, n, bs)) = (IF n + bs <= Len(s) THEN bs ELSE Len(s) - n)
    <3>1. s \in Seq(Bytes) /\ bs \in Nat \ {0} /\ n \in Nat /\ n < Len(s)
      BY <1>4, <1>7
    <3> QED
      BY ONLY <3>1, BlockFacts
  <2> QED
    BY <1>10, <2>1
<1>12. Len(b) \in 1 .. bs /\ n + Len(b) <= Len(s)
  <2>0. s \in Seq(Bytes)
    BY <1>4
  <2>1. PICK m \in Nat : m = Len(s)
    BY <2>0
  <2>2. PICK k \in Nat : k = Len(b)
    BY <1>10
  <2>3. k = (IF n + bs <= m THEN bs ELSE m - n) /\ n < m
    BY <1>7, <1>11, <2>1, <2>2
  <2>4. k \in 1 .. bs /\ n + k <= m
    <3>1. n \in Nat /\ m \in Nat /\ k \in Nat /\ bs \in Nat \ {0}
      BY <1>4, <1>7, <2>1, <2>2
    <3> QED
      BY ONLY <2>3, <3>1
  <2> QED
    BY <1>7, <2>1, <2>2, <2>4
<1>13. PICK v \in ViewIds : v = SelectView(Before(decoded, lastStart), lastBlock)
  BY <1>3, CarriedView
<1>14. (c + 1) - 1 = c
  OBVIOUS
<1>15. v = ViewAt(s, bs, c + 1)
  BY <1>5, <1>13 DEF ViewAt
<1>16. Tells(R[c + 1], c, b, v, prior) /\ Says(R[c + 1], Project(b, Recent(decoded), v))
  <2>1. Len(R) \in Nat /\ Chained(R, s, bs, Len(R))
    BY <1>0, <1>1, <1>3, <1>4
  <2>2. /\ Tells(R[c + 1], (c + 1) - 1, BlockAt(s, ((c + 1) - 1) * bs, bs),
                 ViewAt(s, bs, c + 1), PriorOf(R, bs, c + 1))
        /\ Says(R[c + 1], ResidualAt(s, bs, c + 1))
    BY <1>2, <2>1, ChainTells
  <2>3. Tells(R[c + 1], c, BlockAt(s, n, bs), ViewAt(s, bs, c + 1), PriorOf(R, bs, c + 1))
    BY <1>7, <1>14, <2>2
  <2>4. ResidualAt(s, bs, c + 1) = Project(BlockAt(s, n, bs), Before(s, n), ViewAt(s, bs, c + 1))
    BY <1>7, <1>14 DEF ResidualAt
  <2> QED
    BY <1>3, <1>4, <1>9, <1>10, <1>15, <2>2, <2>3, <2>4
<1> QED
  BY <1>1, <1>4, <1>7, <1>9, <1>10, <1>12, <1>13, <1>16

\* What the decoder carries stays while it takes in more.
LEMMA DecodedStays ==
    ASSUME NEW c, DecodedInv(c), UNCHANGED <<chain, header, decoded>>, IsSequence(offered'),
           \A n \in 1 .. c : offered'[n] = offered[n]
    PROVE  DecodedInv(c)'
<1>1. /\ header = <<[blockSize |-> BlockSize, genesis |-> Genesis(BlockSize)]>>
      /\ BlockSize \in BlockSizes /\ decoded \in Seq(Bytes) /\ c \in Nat
      /\ Chained(offered, decoded, BlockSize, c)
      /\ Len(decoded) <= c * BlockSize
      /\ prior = PriorOf(offered, BlockSize, c + 1)
      /\ BodySum(offered, c, bodyTotal)
      /\ c = 0 => lastBlock = <<>>
      /\ c # 0 => /\ lastStart = (c - 1) * BlockSize
                 /\ lastBlock = BlockAt(decoded, (c - 1) * BlockSize, BlockSize)
  BY DEF DecodedInv
<1>2. /\ BlockSize' = BlockSize /\ header' = header /\ decoded' = decoded
      /\ prior' = prior /\ bodyTotal' = bodyTotal /\ lastBlock' = lastBlock
      /\ lastStart' = lastStart
  BY DEF BlockSize, chain
<1>3. PICK R, bs : R = offered' /\ bs = BlockSize
  OBVIOUS
<1>4. \A n \in 1 .. c : R[n] = offered[n]
  BY <1>3
<1>5. Chained(R, decoded, bs, c) /\ BodySum(R, c, bodyTotal)
  BY <1>1, <1>3, <1>4, ChainMore, SumStays
<1>6. PriorOf(R, bs, c + 1) = PriorOf(offered, bs, c + 1)
  <2>1. c + 1 # 1 => (c + 1) - 1 \in 1 .. c
    BY <1>1
  <2> QED
    BY <1>4, <2>1 DEF PriorOf
<1>7. Chained(offered', decoded', BlockSize', c) /\ BodySum(offered', c, bodyTotal')
      /\ prior' = PriorOf(offered', BlockSize', c + 1)
  BY <1>1, <1>2, <1>3, <1>5, <1>6
<1> QED
  BY <1>1, <1>2, <1>7
     DEF DecodedInv, Chained, RecordAt,
         ResidualAt, ViewAt, PriorOf, EarlierOf, LastOf, BodySum, IsSequence

LEMMA ReadRecordKeeps == ASSUME AcerInv, ReadRecord PROVE AcerInv'
<1>1. PICK r \in Offer :
         /\ offered' = Append(offered, r)
         /\ phase' = (IF Framed(r) /\ Regenerated(r) /\ Decodable(r) THEN "restore" ELSE "rejected")
  BY DEF ReadRecord
<1>2. /\ phase = "read" /\ history' = Recent(decoded) /\ block' = <<>>
      /\ UNCHANGED <<sources, size, archives, writing, chain, cap, header, ending, decoded>>
  BY DEF ReadRecord
<1>3. ArgumentsInv' /\ EncodedInv' /\ FinishedInv' /\ EncodingInv' /\ UnreadInv'
  <2>1. phase' \in {"restore", "rejected"}
    BY <1>1
  <2>2. phase # "encode" /\ phase' \in {"open", "read", "restore", "accepted", "rejected", "cut"}
    BY <1>2, <2>1
  <2>3. UnreadInv'
    BY <2>1 DEF UnreadInv
  <2> QED
    BY <1>2, <2>2, <2>3, WrittenStays
<1>4. PICK c : c = Closed /\ c = Len(offered) /\ DecodedInv(c) /\ c \in Nat /\ IsSequence(offered)
  BY <1>2 DEF AcerInv, DecodingInv, Closed, DecodedInv
<1>5. /\ IsSequence(offered') /\ Len(offered') = c + 1 /\ offered'[c + 1] = r
      /\ \A n \in 1 .. c : offered'[n] = offered[n]
  <2>1. /\ IsSequence(Append(offered, r)) /\ Len(Append(offered, r)) = Len(offered) + 1
        /\ Append(offered, r)[Len(offered) + 1] = r
        /\ \A n \in 1 .. Len(offered) : Append(offered, r)[n] = offered[n]
    BY <1>4, AppendedFacts
  <2> QED
    BY <1>1, <1>4, <2>1 DEF IsSequence
<1>6. Readable(r)
  BY OfferIsReadable
<1>7. UNCHANGED <<lastBlock, lastStart, BlockSize>>
  BY <1>2 DEF chain, BlockSize
<1>8. CASE Framed(r) /\ Regenerated(r) /\ Decodable(r)
  <2>1. phase' = "restore"
    BY <1>1, <1>8
  <2>2. Closed' = c /\ Current' = r /\ offered' # <<>>
    <3>1. (c + 1) - 1 = c /\ c + 1 # 0
      BY <1>4
    <3>2. offered' # <<>>
      BY <1>5, <3>1
    <3> QED
      BY <1>5, <2>1, <3>1, <3>2 DEF Closed, Current
  <2>3. DecodedInv(c)'
    BY <1>2, <1>4, <1>5, DecodedStays
  <2>4. DecodingInv'
    <3>1. ending = <<>>
      BY <1>2 DEF AcerInv, DecodingInv
    <3> QED
      BY <1>2, <2>1, <2>2, <2>3, <3>1 DEF DecodingInv
  <2>5. decoded \in Seq(Bytes)
    BY <1>4 DEF DecodedInv
  <2>6. Recent(decoded) = Recent(Recent(decoded) \o <<>>)
    <3>1. <<>> \in Seq(Bytes) /\ decoded \o <<>> = decoded
      BY <2>5
    <3> QED
      BY <2>5, <3>1, RecentJoined
  <2>7. Regenerated(r)'
    BY <1>2, <1>7, <1>8 DEF Regenerated
  <2>8. /\ lastBlock # <<>> => Len(lastBlock) = BlockSize
        /\ r.index = c /\ r.reserved = 0 /\ r.rawLen \in 1 .. BlockSize
        /\ r.bodyLen = Len(r.body) /\ r.bodySha = Sha(r.body)
    BY <1>4, <1>8 DEF Framed
  <2>9. <<>> \in Seq(Bytes) /\ Len(<<>>) = 0 /\ 1 .. 0 = {} /\ Len(ResidualOf(r)) \in Nat
    <3>1. r.rawLen \in Nat
      BY <2>8
    <3>2. ResidualOf(r) \in Seq(Bytes)
      BY <1>6, <1>8, <2>8, <3>1, SaidIsResidual
    <3> QED
      BY <3>2
  <2>12. /\ Decodable(Current') /\ Readable(Current') /\ Len(block') <= Len(ResidualOf(Current'))
         /\ Residues(ResidualOf(Current'), block', decoded', Current'.view)
    BY <1>2, <1>6, <1>8, <2>2, <2>9 DEF Residues
  <2>10. RestoringInv'
    BY <1>2, <1>6, <1>7, <1>8, <2>2, <2>6, <2>7, <2>8, <2>9, <2>12 DEF RestoringInv
  <2>11. WrittenIsAccepted'
    BY <2>1 DEF WrittenIsAccepted
  <2> QED
    BY <1>3, <2>4, <2>10, <2>11 DEF AcerInv
<1>9. CASE ~(Framed(r) /\ Regenerated(r) /\ Decodable(r))
  <2>1. phase' = "rejected"
    BY <1>1, <1>9
  <2>2. ASSUME NEW i \in Archives, FirstPart(i)' PROVE Len(sources[i]) > cap
    <3>1. PICK R : R = archives[i].records /\ IsSequence(R) /\ Len(R) \in Nat
      <4>1. IsSequence(archives[i].records)
        BY DEF AcerInv, EncodedInv
      <4> QED
        BY <4>1, AppendedFacts
    <3>2. /\ header = archives[i].header /\ Len(offered') <= Len(R)
          /\ \A n \in DOMAIN offered' : offered'[n] = R[n]
      BY <1>2, <2>2, <3>1 DEF FirstPart
    <3>3. DOMAIN offered' = 1 .. Len(offered')
      BY <1>5 DEF IsSequence
    <3>4. r = R[c + 1] /\ c + 1 <= Len(R) /\ \A n \in 1 .. c : offered[n] = R[n]
      <4>1. c + 1 \in 1 .. c + 1 /\ \A n \in 1 .. c : n \in 1 .. c + 1
        BY <1>4
      <4> QED
        BY <1>5, <3>2, <3>3, <4>1
    <3>5. PICK b \in Seq(Bytes), p \in Seq(Bytes), v \in ViewIds :
              /\ v = SelectView(Before(decoded, lastStart), lastBlock)
              /\ Len(b) \in 1 .. size[i] /\ Len(decoded) + Len(b) <= Len(sources[i])
              /\ Says(r, Project(b, p, v)) /\ Tells(r, c, b, v, prior)
      BY <1>2, <1>4, <3>1, <3>2, <3>4, NextOfArchive
    <3>6. /\ lastBlock # <<>> => Len(lastBlock) = size[i]
          /\ Len(decoded) = c * size[i]
      BY <1>2, <1>4, <3>1, <3>2, <3>4, HonestRecord
    <3>7. BlockSize = size[i] /\ size[i] \in BlockSizes
      <4>1. c <= Len(R)
        BY <1>4, <3>1, <3>4
      <4>2. BlockSize = size[i]
        BY <1>2, <1>4, <3>1, <3>2, <3>4, <4>1, HonestSoFar
      <4> QED
        BY <1>4, <4>2 DEF DecodedInv
    <3>8. /\ Decodable(r) /\ r.index = c /\ r.reserved = 0 /\ r.rawLen = Len(b)
          /\ r.bodyLen = Len(r.body) /\ r.bodySha = Sha(r.body) /\ r.view = v
      BY <3>5 DEF Says, Tells
    <3>9. Regenerated(r)
      BY <3>5, <3>8 DEF Regenerated
    <3>10. ~Framed(r)
      BY <1>9, <3>8, <3>9
    <3>11. ~(Len(decoded) + r.rawLen <= cap)
      BY <1>4, <3>5, <3>6, <3>7, <3>8, <3>10 DEF Framed
    <3> QED
      <4>1. cap \in Nat /\ Len(sources[i]) \in Nat /\ Len(decoded) \in Nat /\ Len(b) \in Nat
        <5>1. ArgumentsInv /\ decoded \in Seq(Bytes)
          BY <1>4 DEF AcerInv, DecodedInv
        <5>2. cap \in Nat /\ sources[i] \in Seq(Bytes)
          BY <5>1, Arguments DEF ArgumentsInv
        <5> QED
          BY <3>5, <5>1, <5>2
      <4> QED
        BY <3>5, <3>8, <3>11, <4>1
  <2>3. WrittenIsAccepted'
    BY <1>2, <2>2 DEF WrittenIsAccepted
  <2>4. DecodingInv' /\ RestoringInv'
    BY <2>1 DEF DecodingInv, RestoringInv
  <2> QED
    BY <1>3, <2>3, <2>4 DEF AcerInv
<1> QED
  BY <1>8, <1>9

LEMMA RecentTwice ==
    ASSUME NEW s \in Seq(Bytes)
    PROVE  Recent(Recent(s)) = Recent(s) /\ Recent(Recent(s) \o <<>>) = Recent(s)
<1>1. <<>> \in Seq(Bytes) /\ s \o <<>> = s
  OBVIOUS
<1>2. Recent(Recent(s) \o <<>>) = Recent(s)
  BY <1>1, RecentJoined
<1>3. PICK r \in Seq(Bytes) : r = Recent(s)
  BY RecentFacts
<1>4. r \o <<>> = r
  BY <1>3
<1> QED
  BY <1>2, <1>3, <1>4

\* A byte restored extends the residual and the history.
LEMMA PartMore ==
    ASSUME NEW of \in Seq(Bytes), NEW b \in Seq(Bytes), NEW prefix \in Seq(Bytes),
           NEW v \in ViewIds, Len(b) < Len(of), Residues(of, b, prefix, v),
           NEW seen, seen = Recent(Recent(prefix) \o b),
           NEW x, x = RestoreByte(of[Len(b) + 1], seen, v)
    PROVE  /\ x \in Bytes /\ Residues(of, Append(b, x), prefix, v)
           /\ Remember(seen, x) = Recent(Recent(prefix) \o Append(b, x))
<1>1. Recent(prefix) \in Seq(Bytes)
  BY RecentFacts
<1>2. PICK w \in Seq(Bytes) : w = Recent(prefix) \o b
  BY <1>1, ConcatFacts
<1>3. seen \in Seq(Bytes) /\ seen = Recent(w)
  BY <1>2, RecentFacts
<1>4. PICK n \in Nat : n = Len(b) /\ n + 1 \in 1 .. Len(of)
  OBVIOUS
<1>5. PICK y \in Bytes : y = of[n + 1] /\ x = RestoreByte(y, seen, v)
  BY <1>4
<1>6. x \in Bytes /\ Residue(x, Predict(seen, v), v) = y
  BY <1>3, <1>5, ByteRestored
<1>7. PICK more \in Seq(Bytes) : more = Append(b, x)
  BY <1>6, AppendFacts
<1>8. /\ Len(more) = n + 1 /\ more[n + 1] = x
      /\ \A j \in 1 .. n : more[j] = b[j]
  BY <1>4, <1>6, <1>7, AppendFacts
<1>9. ASSUME NEW j \in 1 .. n + 1
      PROVE  of[j] = Residue(more[j], Predict(Recent(Recent(prefix) \o SubSeq(more, 1, j - 1)), v), v)
  <2>1. SubSeq(more, 1, j - 1) = SubSeq(b, 1, j - 1)
    <3>1. j - 1 <= n /\ j - 1 \in Int
      BY <1>4
    <3>2. Len(more) = n + 1 /\ Len(b) = n /\ \A k \in 1 .. j - 1 : more[k] = b[k]
      BY <1>4, <1>8, <3>1
    <3> QED
      BY <1>4, <3>1, <3>2
  <2>2. CASE j = n + 1
    <3>1. SubSeq(b, 1, n) = b /\ j - 1 = n
      BY <1>4, <2>2
    <3> QED
      BY <1>5, <1>6, <1>8, <2>1, <2>2, <3>1
  <2>3. CASE j # n + 1
    <3>1. j \in 1 .. Len(b) /\ j \in 1 .. n
      BY <1>4, <2>3
    <3> QED
      BY <1>8, <2>1, <3>1 DEF Residues
  <2> QED
    BY <2>2, <2>3
<1>10. Residues(of, more, prefix, v)
  BY <1>8, <1>9 DEF Residues
<1>11. Append(w, x) = Recent(prefix) \o more
  <2>1. PICK p \in Seq(Bytes) : p = Recent(prefix)
    BY <1>1
  <2>2. w = p \o b
    BY <1>2, <2>1
  <2>3. PICK l \in Seq(Bytes) : l = Append(w, x)
    <3>1. Append(w, x) \in Seq(Bytes)
      BY <1>6
    <3> QED
      BY <3>1
  <2>4. PICK r \in Seq(Bytes) : r = p \o more
    BY Joined
  <2>5. PICK m \in Nat : m = Len(p)
    OBVIOUS
  <2>6. /\ Len(w) = m + n /\ \A i \in 1 .. m : w[i] = p[i]
        /\ \A i \in 1 .. n : w[m + i] = b[i]
    BY <1>4, <2>2, <2>5, ConcatFacts
  <2>7. /\ Len(l) = (m + n) + 1 /\ l[(m + n) + 1] = x
        /\ \A i \in 1 .. m + n : l[i] = w[i]
    BY <1>6, <2>3, <2>6
  <2>8. /\ Len(r) = m + (n + 1) /\ \A i \in 1 .. m : r[i] = p[i]
        /\ \A i \in 1 .. n + 1 : r[m + i] = more[i]
    <3>1. /\ Len(r) = Len(p) + Len(more) /\ \A i \in 1 .. Len(p) : r[i] = p[i]
          /\ \A i \in 1 .. Len(more) : r[Len(p) + i] = more[i]
      BY <1>7, <2>1, <2>4, ConcatFacts
    <3> QED
      BY <1>8, <2>5, <3>1
  <2>9. ASSUME NEW i \in 1 .. (m + n) + 1 PROVE l[i] = r[i]
    <3>1. CASE i \in 1 .. m
      BY <1>4, <2>5, <2>6, <2>7, <2>8, <3>1
    <3>2. CASE i \notin 1 .. m
      <4>0. i - m \in 1 .. n + 1 /\ i = m + (i - m)
        BY <1>4, <2>5, <3>2
      <4>1. PICK k \in 1 .. n + 1 : i = m + k
        BY <4>0
      <4>2. CASE k \in 1 .. n
        <5>1. m + k \in 1 .. m + n
          BY <1>4, <2>5, <4>2
        <5>2. l[m + k] = b[k]
          BY <2>6, <2>7, <4>2, <5>1
        <5>3. r[m + k] = b[k]
          BY <1>8, <2>8, <4>1, <4>2
        <5> QED
          BY <4>1, <5>2, <5>3
      <4>3. CASE k \notin 1 .. n
        <5>0. n \in Nat /\ m \in Nat
          BY <1>4, <2>5
        <5>1. k = n + 1
          BY <4>3, <5>0
        <5>2. i = (m + n) + 1
          BY <4>1, <5>0, <5>1
        <5> QED
          BY <1>8, <2>7, <2>8, <4>1, <5>1, <5>2
      <4> QED
        BY <4>2, <4>3
    <3> QED
      BY <3>1, <3>2
  <2>10. l = r
    <3>1. (m + n) + 1 = m + (n + 1)
      BY <1>4, <2>5
    <3> QED
      BY <2>7, <2>8, <2>9, <3>1, SameSequence
  <2> QED
    BY <2>1, <2>3, <2>4, <2>10
<1>12. Remember(seen, x) = Recent(Append(w, x))
  BY <1>2, <1>3, <1>6, Remembered
<1> QED
  BY <1>6, <1>7, <1>10, <1>11, <1>12

\* Once every byte is restored, the residual is the block's.
LEMMA PartAll ==
    ASSUME NEW of \in Seq(Bytes), NEW b \in Seq(Bytes), NEW prefix \in Seq(Bytes),
           NEW v \in ViewIds, Len(b) = Len(of), Residues(of, b, prefix, v)
    PROVE  Project(b, Recent(prefix), v) = of
<1>1. PICK p \in Seq(Bytes) : p = Recent(prefix)
  BY RecentFacts
<1>5. Recent(p) = p
  BY <1>1, RecentTwice
<1>2. PICK r \in Seq(Bytes) : r = Project(b, p, v) /\ Len(r) = Len(b)
  BY <1>1, Projected
<1>3. ASSUME NEW j \in 1 .. Len(r) PROVE r[j] = of[j]
  <2>1. j \in 1 .. Len(b)
    BY <1>2
  <2>2. PICK seen : seen = Recent(Recent(p) \o SubSeq(b, 1, j - 1))
    OBVIOUS
  <2>3. Project(b, p, v)[j] = Residue(b[j], Predict(seen, v), v)
    <3>1. p \in Seq(Bytes)
      BY <1>1
    <3> QED
      BY <2>1, <2>2, <3>1, Projected
  <2>4. of[j] = Residue(b[j], Predict(Recent(Recent(prefix) \o SubSeq(b, 1, j - 1)), v), v)
    BY <2>1 DEF Residues
  <2> QED
    BY <1>1, <1>2, <1>5, <2>2, <2>3, <2>4
<1>4. r = of
  BY <1>2, <1>3, SameSequence
<1> QED
  BY <1>1, <1>2, <1>4

\* What is known of the record at hand.
LEMMA AtHand ==
    ASSUME AcerInv, phase = "restore"
    PROVE  \E c \in Nat : 
              /\ c = Closed /\ Len(offered) = c + 1 /\ offered[c + 1] = Current
              /\ DecodedInv(c) /\ decoded \in Seq(Bytes) /\ block \in Seq(Bytes)
              /\ ResidualOf(Current) \in Seq(Bytes) /\ Current.view \in ViewIds
              /\ Len(ResidualOf(Current)) = Current.rawLen
              /\ Current.view = SelectView(Before(decoded, lastStart), lastBlock)
<1>1. PICK c : c = Closed
  OBVIOUS
<1>2. DecodedInv(c) /\ RestoringInv
  BY <1>1 DEF AcerInv, DecodingInv
<1>3. c \in Nat /\ decoded \in Seq(Bytes) /\ IsSequence(offered)
  BY <1>2 DEF DecodedInv
<1>4. Len(offered) \in Nat /\ c = Len(offered) - 1
  BY <1>1, <1>3, AppendedFacts DEF Closed
<1>5. Len(offered) = c + 1
  BY <1>3, <1>4
<1>6. offered[c + 1] = Current
  BY <1>5 DEF Current
<1>7. /\ block \in Seq(Bytes)
      /\ Current.view = SelectView(Before(decoded, lastStart), lastBlock)
  BY <1>2 DEF RestoringInv, Regenerated
<1>9. ResidualOf(Current) \in Seq(Bytes) /\ Len(ResidualOf(Current)) = Current.rawLen
  <2>1. /\ Readable(Current) /\ Decodable(Current) /\ Current.bodyLen = Len(Current.body)
        /\ Current.rawLen \in 1 .. BlockSize
    BY <1>2 DEF RestoringInv
  <2>2. Current.rawLen \in Nat
    BY <2>1
  <2> QED
    BY <2>1, <2>2, SaidIsResidual
<1>8. Current.view \in ViewIds
  BY <1>2, <1>7, CarriedView
<1> QED
  BY <1>1, <1>2, <1>3, <1>5, <1>6, <1>7, <1>8, <1>9

LEMMA RestoreNextKeeps == ASSUME AcerInv, RestoreNext PROVE AcerInv'
<1> DEFINE b == RestoreByte(ResidualOf(Current)[Len(block) + 1], history, Current.view)
<1>1. /\ phase = "restore" /\ Len(block) < Len(ResidualOf(Current))
      /\ block' = Append(block, b) /\ history' = Remember(history, b)
      /\ UNCHANGED <<phase, sources, size, archives, writing, chain, cap, header,
                     offered, ending, decoded>>
  BY DEF RestoreNext
<1>2. ArgumentsInv' /\ EncodedInv' /\ FinishedInv' /\ EncodingInv' /\ UnreadInv'
  BY <1>1, WrittenStays DEF UnreadInv
<1>3. WrittenIsAccepted'
  BY <1>1 DEF WrittenIsAccepted
<1>4. PICK c \in Nat :
         /\ c = Closed /\ DecodedInv(c) /\ decoded \in Seq(Bytes) /\ block \in Seq(Bytes)
         /\ ResidualOf(Current) \in Seq(Bytes) /\ Current.view \in ViewIds
  BY <1>1, AtHand
<1>5. UNCHANGED <<Current, Closed, BlockSize, lastBlock, lastStart>>
  BY <1>1 DEF Current, Closed, BlockSize, chain
<1>6. DecodingInv'
  <2>1. DecodedInv(c)'
    <3>1. IsSequence(offered')
      BY <1>1, <1>4 DEF DecodedInv, IsSequence
    <3> QED
      BY <1>1, <1>4, <3>1, DecodedStays
  <2> QED
    BY <1>1, <1>4, <1>5, <2>1 DEF DecodingInv, AcerInv
<1>7. RestoringInv
  BY DEF AcerInv
<1>8. PICK of \in Seq(Bytes), v \in ViewIds : of = ResidualOf(Current) /\ v = Current.view
  BY <1>4
<1> HIDE DEF b
<1>9. /\ b \in Bytes /\ Residues(of, Append(block, b), decoded, v)
      /\ Remember(history, b) = Recent(Recent(decoded) \o Append(block, b))
  <2>1. Len(block) < Len(of) /\ Residues(of, block, decoded, v)
    BY <1>1, <1>7, <1>8 DEF RestoringInv
  <2>2. history = Recent(Recent(decoded) \o block)
    BY <1>1, <1>7 DEF RestoringInv
  <2>3. b = RestoreByte(of[Len(block) + 1], history, v)
    BY <1>8 DEF b
  <2> QED
    BY <1>4, <2>1, <2>2, <2>3, PartMore
<1>10. block' \in Seq(Bytes) /\ Len(block') <= Len(of)
  BY <1>1, <1>4, <1>8, <1>9
<1>11. RestoringInv'
  <2>1. /\ offered # <<>> /\ Readable(Current)
        /\ Current.index = Closed /\ Current.reserved = 0 /\ Current.rawLen \in 1 .. BlockSize
        /\ Current.bodyLen = Len(Current.body) /\ Current.bodySha = Sha(Current.body)
        /\ lastBlock # <<>> => Len(lastBlock) = BlockSize
        /\ Regenerated(Current) /\ Decodable(Current)
    BY <1>1, <1>7 DEF RestoringInv
  <2>2. Regenerated(Current)'
    BY <1>1, <1>5, <2>1 DEF Regenerated
  <2>3. Readable(Current') /\ Decodable(Current')
    BY <1>5, <2>1
  <2>4. ResidualOf(Current') = of /\ Current'.view = v
    BY <1>5, <1>8
  <2>5. /\ history' = Recent(Recent(decoded') \o block')
        /\ Residues(of, block', decoded', v)
    BY <1>1, <1>9
  <2> QED
    BY <1>1, <1>5, <1>10, <2>1, <2>2, <2>3, <2>4, <2>5 DEF RestoringInv
<1> QED
  BY <1>2, <1>3, <1>6, <1>11 DEF AcerInv

LEMMA CloseRecordKeeps == ASSUME AcerInv, CloseRecord PROVE AcerInv'
<1>1. /\ phase = "restore" /\ Len(block) = Len(ResidualOf(Current))
      /\ UNCHANGED <<sources, size, archives, writing, cap, header, offered, ending,
                     history, block>>
  BY DEF CloseRecord
<1>2. phase' \in {"read", "rejected"}
  BY DEF CloseRecord
<1>3. ArgumentsInv' /\ EncodedInv' /\ FinishedInv' /\ EncodingInv' /\ UnreadInv' /\ RestoringInv'
  BY <1>1, <1>2, WrittenStays DEF UnreadInv, RestoringInv
<1>4. PICK c \in Nat :
         /\ c = Closed /\ Len(offered) = c + 1 /\ offered[c + 1] = Current
         /\ DecodedInv(c) /\ decoded \in Seq(Bytes) /\ block \in Seq(Bytes)
         /\ ResidualOf(Current) \in Seq(Bytes) /\ Current.view \in ViewIds
         /\ Current.view = SelectView(Before(decoded, lastStart), lastBlock)
  BY <1>1, AtHand
<1>5. /\ RestoringInv /\ Readable(Current) /\ Current.index = c /\ Current.reserved = 0
      /\ Current.rawLen \in 1 .. BlockSize
      /\ Current.bodyLen = Len(Current.body) /\ Current.bodySha = Sha(Current.body)
      /\ lastBlock # <<>> => Len(lastBlock) = BlockSize
      /\ Decodable(Current)
  BY <1>1, <1>4 DEF AcerInv, RestoringInv
<1>6. Project(block, Recent(decoded), Current.view) = ResidualOf(Current)
  <2>1. PICK of \in Seq(Bytes), v \in ViewIds : of = ResidualOf(Current) /\ v = Current.view
    BY <1>4
  <2>2. Residues(of, block, decoded, v) /\ Len(block) = Len(of)
    BY <1>1, <1>5, <2>1 DEF RestoringInv
  <2>3. Project(block, Recent(decoded), v) = of
    BY <1>4, <2>2, PartAll
  <2> QED
    BY <2>1, <2>3
<1>7. PICK r : r = Current
  OBVIOUS
<1>8. Recent(decoded) \in Seq(Bytes)
  BY <1>4, RecentFacts
<1>9. CASE Confirmed
  <2>1. /\ phase' = "read" /\ decoded' = decoded \o block
        /\ bodyTotal' = bodyTotal + r.bodyLen
        /\ prior' = r.omega /\ lastBlock' = block /\ lastStart' = Len(decoded)
    BY <1>7, <1>9 DEF CloseRecord
  <2>2. Len(block) = r.rawLen /\ r.decodedSha = Sha(block) /\ r.omega = Omega(prior, r)
    BY <1>7, <1>9 DEF Confirmed
  <2>3. PICK bs \in Nat \ {0} : bs = BlockSize
    BY <1>4, GlyphConstants DEF DecodedInv
  <2>4. block # <<>> /\ Len(block) <= bs
    BY <1>5, <1>7, <2>2, <2>3
  <2>5. /\ Chained(offered, decoded, bs, c) /\ Len(decoded) <= c * bs
        /\ prior = PriorOf(offered, bs, c + 1) /\ BodySum(offered, c, bodyTotal)
        /\ c = 0 => lastBlock = <<>>
        /\ c # 0 => lastStart = (c - 1) * bs /\ lastBlock = BlockAt(decoded, (c - 1) * bs, bs)
        /\ lastBlock # <<>> => Len(lastBlock) = bs
    BY <1>4, <1>5, <2>3 DEF DecodedInv
  <2>6. /\ Len(decoded) = c * bs /\ c * bs \in Nat
        /\ SelectView(Before(decoded, lastStart), lastBlock) =
             SelectView(EarlierOf(decoded \o block, bs, c + 1), LastOf(decoded \o block, bs, c + 1))
    BY <1>4, <2>3, <2>5, FullBlocks
  <2>7. PICK s \in Seq(Bytes) : s = decoded \o block
    BY <1>4, Joined
  <2>8. PICK n \in Nat : n = c * bs /\ n = Len(decoded)
    BY <2>6
  <2>9. BlockAt(s, n, bs) = block
    BY <1>4, <2>4, <2>7, <2>8, BlockAppended
  <2>10. Before(s, n) = Recent(decoded)
    <3>1. n \in 0 .. Len(decoded)
      BY <2>8
    <3>2. Before(s, n) = Before(decoded, n)
      BY <1>4, <2>7, <3>1, BeforeKept
    <3>3. Before(decoded, n) = Recent(SubSeq(decoded, 1, n))
      BY <1>4, <3>1, BeforeIsRecent
    <3>4. SubSeq(decoded, 1, n) = decoded
      BY <1>4, <2>8
    <3> QED
      BY <3>2, <3>3, <3>4
  <2>11. PICK v : v = r.view /\ v = ViewAt(s, bs, c + 1)
    BY <1>4, <1>7, <2>6, <2>7 DEF ViewAt
  <2>12. Tells(r, c, block, v, prior) /\ IsRecord(r)
    BY <1>5, <1>7, <2>2, <2>11 DEF Tells, Readable
  <2>13. r = RecordAt(offered, s, bs, c + 1)
    <3>1. (c + 1) - 1 = c /\ offered[c + 1] = r
      BY <1>4, <1>7
    <3>2. r = Record(c, block, v, SpellingOf(r), prior)
      BY <2>12, TellingRecords
    <3> QED
      BY <2>5, <2>8, <2>9, <2>11, <3>1, <3>2 DEF RecordAt
  <2>14. Says(r, ResidualAt(s, bs, c + 1))
    <3>1. ResidualAt(s, bs, c + 1) = Project(block, Recent(decoded), v)
      <4>1. (c + 1) - 1 = c
        OBVIOUS
      <4> QED
        BY <2>8, <2>9, <2>10, <2>11, <4>1 DEF ResidualAt
    <3> QED
      BY <1>5, <1>6, <1>7, <2>11, <3>1 DEF Says
  <2>16. Chained(offered, s, bs, c + 1)
    <3>1. Chained(offered, s, bs, c)
      BY <1>4, <2>5, <2>7, <2>8, ChainExtended
    <3>2. n < Len(s)
      <4>0. Len(block) # 0
        BY <1>4, <2>4
      <4>1. Len(s) = n + Len(block) /\ Len(block) # 0
        BY <1>4, <2>7, <2>8, <4>0, Joined
      <4> QED
        BY <2>8, <4>1, <1>4
    <3>3. offered[c + 1] = r
      BY <1>4, <1>7
    <3> QED
      BY <2>8, <2>13, <2>14, <3>1, <3>2, <3>3, ChainStep
  <2>17. Len(s) <= (c + 1) * bs
    <3>1. (c + 1) * bs = n + bs
      BY <2>8
    <3>2. Len(s) = n + Len(block)
      BY <1>4, <2>7, <2>8, Joined
    <3> QED
      BY <1>4, <2>4, <2>8, <3>1, <3>2
  <2>18. PriorOf(offered, bs, (c + 1) + 1) = r.omega
    <3>1. (c + 1) + 1 # 1 /\ ((c + 1) + 1) - 1 = c + 1
      OBVIOUS
    <3> QED
      BY <1>4, <1>7, <3>1 DEF PriorOf
  <2>19. BodySum(offered, c + 1, bodyTotal + r.bodyLen)
    <3>1. BodySum(offered, c + 1, bodyTotal + offered[c + 1].bodyLen)
      BY <2>5, SumOfMore
    <3> QED
      BY <1>4, <1>7, <3>1
  <2>20. DecodedInv(c + 1)'
    <3>1. /\ BlockSize' = bs /\ header' = header /\ offered' = offered
      BY <1>1, <2>3 DEF BlockSize
    <3>2. /\ header = <<[blockSize |-> bs, genesis |-> Genesis(bs)]>> /\ bs \in BlockSizes
          /\ IsSequence(offered)
      BY <1>4, <2>3 DEF DecodedInv
    <3>3. c + 1 # 0 /\ (c + 1) - 1 = c /\ c + 1 \in Nat
      OBVIOUS
    <3>4. /\ decoded' = s /\ prior' = PriorOf(offered, bs, (c + 1) + 1)
          /\ BodySum(offered, c + 1, bodyTotal')
          /\ lastStart' = c * bs /\ lastBlock' = BlockAt(s, c * bs, bs)
      BY <2>1, <2>7, <2>8, <2>9, <2>18, <2>19
    <3> QED
      BY <2>16, <2>17, <3>1, <3>2, <3>3, <3>4
         DEF DecodedInv, Chained, RecordAt, ResidualAt, ViewAt, PriorOf, EarlierOf, LastOf,
             BodySum, IsSequence
  <2>21. DecodingInv'
    <3>1. Closed' = c + 1
      BY <1>1, <1>4, <2>1 DEF Closed
    <3>2. ending' = <<>>
      BY <1>1 DEF AcerInv, DecodingInv
    <3> QED
      BY <2>1, <2>20, <3>1, <3>2 DEF DecodingInv
  <2>22. WrittenIsAccepted'
    BY <2>1 DEF WrittenIsAccepted
  <2> QED
    BY <1>3, <2>21, <2>22 DEF AcerInv
<1>10. CASE ~Confirmed
  <2>1. phase' = "rejected"
    BY <1>10 DEF CloseRecord
  <2>2. ASSUME NEW i \in Archives, FirstPart(i)' PROVE FALSE
    <3>1. PICK R : R = archives[i].records /\ IsSequence(R) /\ Len(R) \in Nat
      <4>1. IsSequence(archives[i].records)
        BY DEF AcerInv, EncodedInv
      <4> QED
        BY <4>1, AppendedFacts
    <3>2. /\ header = archives[i].header /\ Len(offered) <= Len(R)
          /\ \A n \in DOMAIN offered : offered[n] = R[n]
      BY <1>1, <2>2, <3>1 DEF FirstPart
    <3>3. DOMAIN offered = 1 .. Len(offered)
      BY <1>4 DEF DecodedInv, IsSequence
    <3>4. r = R[c + 1] /\ c + 1 <= Len(R) /\ \A n \in 1 .. c : offered[n] = R[n]
      <4>1. c + 1 \in 1 .. c + 1 /\ \A n \in 1 .. c : n \in 1 .. c + 1
        OBVIOUS
      <4> QED
        BY <1>4, <1>7, <3>2, <3>3, <4>1
    <3>5. PICK b \in Seq(Bytes), p \in Seq(Bytes), v \in ViewIds :
              /\ p = Recent(decoded) /\ v = SelectView(Before(decoded, lastStart), lastBlock)
              /\ Says(r, Project(b, p, v)) /\ Tells(r, c, b, v, prior)
      BY <1>1, <1>4, <3>1, <3>2, <3>4, NextOfArchive
    <3>7. /\ ResidualOf(r) = Project(b, p, v) /\ r.decodedSha = Sha(b) /\ r.rawLen = Len(b)
          /\ r.omega = Omega(prior, r)
      BY <3>5 DEF Says, Tells
    <3>8. Project(block, p, v) = Project(b, p, v)
      BY <1>4, <1>6, <1>7, <3>5, <3>7
    <3>9. block = b
      BY <1>4, <3>5, <3>8, ProjectedOnce
    <3> QED
      BY <1>7, <1>10, <3>7, <3>9 DEF Confirmed
  <2>3. DecodingInv' /\ WrittenIsAccepted'
    BY <2>1, <2>2 DEF DecodingInv, WrittenIsAccepted
  <2> QED
    BY <1>3, <2>3 DEF AcerInv
<1> QED
  BY <1>9, <1>10

\* An archive read whole decodes to its source.
LEMMA HonestWhole ==
    ASSUME AcerInv, phase \in {"read", "restore"}, NEW i \in Archives,
           header = archives[i].header, NEW c \in Nat, c = Closed,
           c = Len(archives[i].records),
           \A n \in 1 .. c : offered[n] = archives[i].records[n]
    PROVE  /\ decoded = sources[i]
           /\ archives[i].footer = <<Footer(archives[i].records, sources[i], bodyTotal, prior)>>
<1>1. PICK R : R = archives[i].records
  OBVIOUS
<1>2. c <= Len(archives[i].records)
  OBVIOUS
<1>3. /\ BlockSize = size[i] /\ size[i] \in Nat \ {0} /\ Finished(i) /\ DecodedInv(c)
      /\ sources[i] \in Seq(Bytes)
      /\ Chained(R, sources[i], size[i], c)
      /\ prior = PriorOf(R, size[i], c + 1)
      /\ Len(decoded) <= Len(sources[i])
      /\ \A j \in 1 .. Len(decoded) : decoded[j] = sources[i][j]
  BY <1>1, <1>2, HonestSoFar
<1>4. PICK t \in Seq(Bytes), bs \in Nat \ {0} : t = sources[i] /\ bs = size[i]
  BY <1>3
<1>5. /\ decoded \in Seq(Bytes) /\ Chained(offered, decoded, bs, c) /\ BodySum(offered, c, bodyTotal)
  BY <1>3, <1>4 DEF DecodedInv
<1>6. PICK total : /\ Len(t) <= c * bs /\ BodySum(R, c, total)
                   /\ archives[i].footer = <<Footer(R, t, total, PriorOf(R, bs, c + 1))>>
  BY <1>1, <1>3, <1>4 DEF Finished
<1>7. \A n \in 1 .. c : R[n] = offered[n]
  BY <1>1
<1>8. Len(t) <= Len(decoded)
  <2>1. Chained(R, t, bs, c)
    BY <1>3, <1>4
  <2>2. t \in Seq(Bytes) /\ decoded \in Seq(Bytes) /\ bs \in Nat \ {0} /\ c \in Nat
    BY <1>4, <1>5
  <2>3. Chained(offered, decoded, bs, c) /\ Len(t) <= c * bs
    BY <1>5, <1>6
  <2> QED
    BY ONLY <1>7, <2>1, <2>2, <2>3, SameBlocks
<1>9. t = decoded
  <2>1. Len(decoded) = Len(t) /\ \A j \in 1 .. Len(decoded) : decoded[j] = t[j]
    BY <1>3, <1>4, <1>5, <1>8
  <2> QED
    BY <1>4, <1>5, <2>1, SameSequence
<1>10. total = bodyTotal
  BY <1>5, <1>6, <1>7, SumIsOne
<1> QED
  BY <1>1, <1>3, <1>4, <1>6, <1>9, <1>10

LEMMA FootersAre ==
    ASSUME AcerInv, phase # "encode", NEW f \in Footers
    PROVE  \E records, bytes, bodies, last : f = Footer(records, bytes, bodies, last)
<1>1. \A i \in Archives : Finished(i)
  BY DEF AcerInv, FinishedInv
<1>2. CASE f \in UNION {{archives[i].footer[n] : n \in DOMAIN archives[i].footer} : i \in Archives}
  <2>1. PICK i \in Archives : \E n \in DOMAIN archives[i].footer : f = archives[i].footer[n]
    BY <1>2
  <2>2. PICK total : archives[i].footer =
                        <<Footer(archives[i].records, sources[i], total,
                                 PriorOf(archives[i].records, size[i],
                                         Len(archives[i].records) + 1))>>
    BY <1>1, <2>1 DEF Finished
  <2>3. f = Footer(archives[i].records, sources[i], total,
                   PriorOf(archives[i].records, size[i], Len(archives[i].records) + 1))
    BY <2>1, <2>2
  <2> QED
    BY <2>3
<1>3. CASE f \in {Footer(offered, decoded, n, prior) : n \in {bodyTotal, bodyTotal + 1}}
  BY <1>3
<1>4. \/ f \in UNION {{archives[i].footer[n] : n \in DOMAIN archives[i].footer} : i \in Archives}
      \/ f \in {Footer(offered, decoded, n, prior) : n \in {bodyTotal, bodyTotal + 1}}
  BY Zenon DEF Footers
<1> QED
  BY <1>2, <1>3, <1>4

LEMMA FooterIs ==
    ASSUME NEW f, \E records, bytes, bodies, last : f = Footer(records, bytes, bodies, last),
           FooterAccepted(f)
    PROVE  f = Footer(offered, decoded, bodyTotal, prior)
  BY DEF Footer, FooterAccepted

LEMMA ReadFooterKeeps == ASSUME AcerInv, ReadFooter PROVE AcerInv'
<1>1. PICK f \in Footers : /\ ending' = <<f>>
                           /\ phase' = (IF FooterAccepted(f) THEN "accepted" ELSE "rejected")
  BY DEF ReadFooter
<1>2. /\ phase = "read"
      /\ UNCHANGED <<sources, size, archives, writing, chain, cap, header, offered,
                     history, block, decoded>>
  BY DEF ReadFooter
<1>3. ArgumentsInv' /\ EncodedInv' /\ FinishedInv' /\ EncodingInv' /\ UnreadInv' /\ RestoringInv'
  <2>1. phase' \in {"accepted", "rejected"}
    BY <1>1
  <2> QED
    BY <1>2, <2>1, WrittenStays DEF UnreadInv, RestoringInv
<1>4. PICK c : c = Closed /\ c = Len(offered) /\ DecodedInv(c) /\ c \in Nat /\ IsSequence(offered)
  BY <1>2 DEF AcerInv, DecodingInv, Closed, DecodedInv
<1>5. CASE FooterAccepted(f)
  <2>1. phase' = "accepted"
    BY <1>1, <1>5
  <2>2. f = Footer(offered, decoded, bodyTotal, prior)
    BY <1>2, <1>5, FootersAre, FooterIs
  <2>3. DecodedInv(c)'
    <3>1. IsSequence(offered')
      BY <1>2, <1>4 DEF IsSequence
    <3> QED
      BY <1>2, <1>4, <3>1, DecodedStays
  <2>4. Closed' = c
    BY <1>2, <1>4, <2>1 DEF Closed
  <2>5. ending' = <<Footer(offered', decoded', bodyTotal', prior')>>
    BY <1>1, <1>2, <2>2 DEF chain
  <2>6. DecodingInv'
    BY <2>1, <2>3, <2>4, <2>5 DEF DecodingInv
  <2>7. WrittenIsAccepted'
    BY <2>1 DEF WrittenIsAccepted
  <2> QED
    BY <1>3, <2>6, <2>7 DEF AcerInv
<1>6. CASE ~FooterAccepted(f)
  <2>1. phase' = "rejected"
    BY <1>1, <1>6
  <2>2. ASSUME NEW i \in Archives, FirstPart(i)' PROVE FALSE
    <3>1. /\ header = archives[i].header
          /\ <<f>> = archives[i].footer /\ Len(offered) = Len(archives[i].records)
          /\ \A n \in DOMAIN offered : offered[n] = archives[i].records[n]
      BY <1>1, <1>2, <2>2 DEF FirstPart
    <3>2. DOMAIN offered = 1 .. c
      BY <1>4 DEF IsSequence
    <3>3. /\ decoded = sources[i]
          /\ archives[i].footer = <<Footer(archives[i].records, sources[i], bodyTotal, prior)>>
      BY <1>2, <1>4, <3>1, <3>2, HonestWhole
    <3>4. f = Footer(archives[i].records, decoded, bodyTotal, prior)
      BY <3>1, <3>3
    <3> QED
      BY <1>6, <3>1, <3>4 DEF FooterAccepted, Footer
  <2>3. DecodingInv' /\ WrittenIsAccepted'
    BY <2>1, <2>2 DEF DecodingInv, WrittenIsAccepted
  <2> QED
    BY <1>3, <2>3 DEF AcerInv
<1> QED
  BY <1>5, <1>6

LEMMA AcerStays == ASSUME AcerInv, UNCHANGED acerVars PROVE AcerInv'
<1>1. UNCHANGED <<phase, call, sources, size, archives, start, chain, reading>>
  BY DEF acerVars, writing
<1>2. UNCHANGED <<prior, lastBlock, lastStart, bodyTotal, cap, header, offered, ending,
                  history, block, decoded>>
  BY <1>1 DEF chain, reading
<1>3. ArgumentsInv' /\ EncodedInv' /\ UnreadInv'
  BY <1>1, <1>2
     DEF AcerInv, ArgumentsInv, EncodedInv, UnreadInv, IsSequence, Chained, RecordAt,
         ResidualAt, ViewAt, PriorOf, EarlierOf, LastOf
<1>4. FinishedInv'
  BY <1>1, FinishedStays DEF AcerInv, FinishedInv
<1>5. EncodingInv'
  BY <1>1, <1>2 DEF AcerInv, EncodingInv, CarriedInv, PriorOf, LastOf, BodySum
<1>6. DecodingInv'
  BY <1>1, <1>2
     DEF AcerInv, DecodingInv, Closed, DecodedInv, BlockSize, IsSequence, Chained, RecordAt,
         ResidualAt, ViewAt, PriorOf, EarlierOf, LastOf, BodySum
<1>7. RestoringInv'
  BY <1>1, <1>2
     DEF AcerInv, RestoringInv, Current, Closed, BlockSize, Readable, IsRecord, Regenerated,
         Decodable, ResidualOf, Residues, Readings
<1>8. WrittenIsAccepted'
  BY <1>1, <1>2 DEF AcerInv, WrittenIsAccepted, FirstPart
<1> QED
  BY <1>3, <1>4, <1>5, <1>6, <1>7, <1>8 DEF AcerInv

LEMMA AcerInvHolds == AcerSpec => []AcerInv
<1>1. AcerInv /\ [AcerNext]_acerVars => AcerInv'
  <2> SUFFICES ASSUME AcerInv, [AcerNext]_acerVars PROVE AcerInv'
    OBVIOUS
  <2>1. CASE EncodeBlock
    BY <2>1, EncodeBlockKeeps
  <2>2. CASE EncodeFooter
    BY <2>2, EncodeFooterKeeps
  <2>3. CASE OpenArchive
    BY <2>3, OpenArchiveKeeps
  <2>4. CASE ReadRecord
    BY <2>4, ReadRecordKeeps
  <2>5. CASE RestoreNext
    BY <2>5, RestoreNextKeeps
  <2>6. CASE CloseRecord
    BY <2>6, CloseRecordKeeps
  <2>7. CASE ReadFooter
    BY <2>7, ReadFooterKeeps
  <2>8. CASE Truncated
    BY <2>8, TruncatedKeeps
  <2>9. CASE UNCHANGED acerVars
    BY <2>9, AcerStays
  <2> QED
    BY <2>1, <2>2, <2>3, <2>4, <2>5, <2>6, <2>7, <2>8, <2>9 DEF AcerNext
<1> QED
  BY <1>1, InitAcerInv, PTL DEF AcerSpec

\* What encode wrote is never refused, except for the output limit: whatever
\* blocks, views and modes it chose, decode_with_report regenerates them.
THEOREM WrittenAccepted == AcerSpec => []WrittenIsAccepted
<1>1. AcerInv => WrittenIsAccepted
  BY DEF AcerInv
<1> QED
  BY <1>1, AcerInvHolds, PTL

\* An accepted stream holds the records that the encoder writes for the
\* decoded bytes.
THEOREM RecordsAsEncoded == AcerSpec => []AcceptedAsEncoded
<1>1. AcerInv => AcceptedAsEncoded
  <2> SUFFICES ASSUME AcerInv, phase = "accepted", NEW n \in DOMAIN offered
               PROVE  /\ offered[n] = RecordAt(offered, decoded, BlockSize, n)
                      /\ Spells(SpellingOf(offered[n]), ResidualAt(decoded, BlockSize, n))
    BY DEF AcceptedAsEncoded, RecordAt, ResidualAt, ViewAt, EarlierOf, LastOf, PriorOf
  <2>1. DecodedInv(Len(offered))
    BY DEF AcerInv, DecodingInv, Closed
  <2>2. /\ n \in 1 .. Len(offered) /\ Chained(offered, decoded, BlockSize, Len(offered))
        /\ decoded \in Seq(Bytes) /\ BlockSize \in BlockSizes
    BY <2>1 DEF DecodedInv, IsSequence
  <2>3. /\ offered[n] = RecordAt(offered, decoded, BlockSize, n)
        /\ Says(offered[n], ResidualAt(decoded, BlockSize, n))
        /\ (n - 1) * BlockSize < Len(decoded)
    BY <2>2 DEF Chained
  <2>4. offered[n].rawLen = Len(ResidualAt(decoded, BlockSize, n))
    <3>1. PICK bs \in Nat \ {0} : bs = BlockSize /\ bs \in BlockSizes
      BY <2>2, GlyphConstants
    <3>2. PICK m \in Nat : m = n - 1 /\ n = m + 1
      BY <2>2
    <3>3. PICK at \in Nat : at = m * bs /\ at < Len(decoded)
      BY <2>3, <3>1, <3>2
    <3>4. PICK b \in Seq(Bytes) : b = BlockAt(decoded, at, bs)
      BY <2>2, <3>3, BlockFacts
    <3>5. ViewAt(decoded, bs, n) \in ViewIds /\ Before(decoded, at) \in Seq(Bytes)
      <4>1. at \in 0 .. Len(decoded)
        BY <2>2, <3>3
      <4> QED
        BY <2>2, <3>1, <3>2, <3>3, <4>1, ViewOfSource, BeforeIsRecent
    <3>6. Len(Project(b, Before(decoded, at), ViewAt(decoded, bs, n))) = Len(b)
      BY <3>4, <3>5, Projected
    <3>7. Len(ResidualAt(decoded, BlockSize, n)) = Len(b)
      BY <3>1, <3>2, <3>3, <3>4, <3>6 DEF ResidualAt
    <3>8. offered[n].rawLen = Len(b)
      <4>1. Tells(offered[n], n - 1, BlockAt(decoded, (n - 1) * BlockSize, BlockSize),
                  ViewAt(decoded, BlockSize, n), PriorOf(offered, BlockSize, n))
        BY <2>3, RecordTells DEF RecordAt
      <4> QED
        BY <3>1, <3>2, <3>3, <3>4, <4>1 DEF Tells
    <3> QED
      BY <3>7, <3>8
  <2> QED
    BY <2>3, <2>4, SaidIsSpelled
<1> QED
  BY <1>1, AcerInvHolds, PTL

\* An accepted stream that ends in the Omega of an archive is that archive,
\* and decodes to its source.
THEOREM OmegaCommitsToAll == AcerSpec => []OmegaCommits
<1>1. AcerInv => OmegaCommits
  <2> SUFFICES ASSUME AcerInv, NEW i \in Archives, phase = "accepted",
                      ending[1].omega = archives[i].footer[1].omega
               PROVE  /\ header = archives[i].header /\ offered = archives[i].records
                      /\ ending = archives[i].footer /\ decoded = sources[i]
    BY DEF OmegaCommits
  <2>1. PICK c : c = Len(offered) /\ DecodedInv(c)
    BY DEF AcerInv, DecodingInv, Closed
  <2>2. PICK a \in Nat \ {0} : a = BlockSize
    BY <2>1, GlyphConstants DEF DecodedInv
  <2>3. /\ c \in Nat /\ decoded \in Seq(Bytes) /\ IsSequence(offered)
        /\ Chained(offered, decoded, a, c) /\ Len(decoded) <= c * a
        /\ prior = PriorOf(offered, a, c + 1) /\ BodySum(offered, c, bodyTotal)
        /\ header = <<[blockSize |-> a, genesis |-> Genesis(a)]>>
    BY <2>1, <2>2 DEF DecodedInv
  <2>4. ending = <<Footer(offered, decoded, bodyTotal, prior)>>
    BY DEF AcerInv, DecodingInv
  <2>5. ArgumentsInv /\ EncodedInv /\ Finished(i)
    BY DEF AcerInv, FinishedInv
  <2>6. PICK t \in Seq(Bytes), b \in Nat \ {0} : t = sources[i] /\ b = size[i]
    BY <2>5, Arguments
  <2>7. PICK R : R = archives[i].records /\ IsSequence(R)
    BY <2>5 DEF EncodedInv
  <2>8. PICK d \in Nat : d = Len(R) /\ Chained(R, t, b, d)
    BY <2>5, <2>6, <2>7, AppendedFacts DEF EncodedInv
  <2>9. PICK total : /\ Len(t) <= d * b /\ BodySum(R, d, total)
                     /\ archives[i].footer = <<Footer(R, t, total, PriorOf(R, b, d + 1))>>
                     /\ archives[i].header = <<[blockSize |-> b, genesis |-> Genesis(b)]>>
    BY <2>5, <2>6, <2>7, <2>8 DEF Finished
  <2>10. PriorOf(offered, a, c + 1) = PriorOf(R, b, d + 1)
    <3>1. ending[1].omega = prior /\ archives[i].footer[1].omega = PriorOf(R, b, d + 1)
      BY <2>4, <2>9 DEF Footer
    <3> QED
      BY <2>3, <3>1
  <2>11. c = d /\ a = b /\ \A n \in 1 .. c : offered[n] = R[n]
    <3>1. a \in Nat \ {0} /\ b \in Nat \ {0} /\ c \in Nat /\ d \in Nat
      BY <2>2, <2>3, <2>6, <2>8
    <3>2. Chained(offered, decoded, a, c) /\ Chained(R, t, b, d)
      BY <2>3, <2>8
    <3>3. Meet(offered, R, a, b, c, d)
      BY ONLY <2>10, <3>1, <3>2, ChainsMeet
    <3> QED
      BY <3>3 DEF Meet
  <2>12. offered = R
    <3>1. PICK S, T : offered \in Seq(S) /\ R \in Seq(T)
      BY <2>3, <2>7 DEF IsSequence
    <3> QED
      BY <2>1, <2>8, <2>11, <3>1, SameSequence
  <2>13. decoded = t
    <3>1. Chained(R, t, a, c) /\ Len(t) <= c * a /\ \A n \in 1 .. c : R[n] = offered[n]
      BY <2>8, <2>9, <2>11
    <3>0. /\ decoded \in Seq(Bytes) /\ t \in Seq(Bytes) /\ a \in Nat \ {0} /\ c \in Nat
          /\ Chained(offered, decoded, a, c) /\ Len(decoded) <= c * a
          /\ \A n \in 1 .. c : offered[n] = R[n]
      BY <2>2, <2>3, <2>6, <2>11
    <3>2. Len(decoded) <= Len(t) /\ \A j \in 1 .. Len(decoded) : decoded[j] = t[j]
      BY ONLY <3>0, <3>1, SameBlocks
    <3>3. Len(t) <= Len(decoded)
      BY ONLY <3>0, <3>1, SameBlocks
    <3>4. Len(t) = Len(decoded)
      BY <2>3, <2>6, <3>2, <3>3
    <3> QED
      BY <2>3, <2>6, <3>2, <3>4, SameSequence
  <2>14. total = bodyTotal
    BY <2>3, <2>9, <2>11, SumIsOne
  <2> QED
    BY <2>3, <2>4, <2>6, <2>7, <2>9, <2>10, <2>11, <2>12, <2>13, <2>14
<1> QED
  BY <1>1, AcerInvHolds, PTL
=============================================================================
