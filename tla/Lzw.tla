-------------------------------- MODULE Lzw --------------------------------
(***************************************************************************)
(* The bounded LZW codec of glyph_program.py: lzw_encode grows a catalog   *)
(* from the source, lzw_decode rebuilds it from the codes, one entry       *)
(* behind, and both freeze it at the same capacity.  The decoder is given  *)
(* the encoder's codes or one of the other streams in Streams, as after a  *)
(* change of the archive.                                                  *)
(***************************************************************************)
EXTENDS Integers, Sequences

CONSTANTS
    AlphabetSize,   \* alphabet_size: codes of the singleton phrases
    Capacity,       \* capacity: the catalog freezes at this many entries
    MaxSymbols,     \* MAX_STREAM_SYMBOLS, also the decoder's output limit
    Sources,        \* the symbol streams handed to the encoder
    Streams         \* code streams a decoder may meet besides the honest one

Symbols == 0 .. AlphabetSize - 1

ASSUME LzwAssumption ==
    /\ AlphabetSize \in Nat \ {0}
    /\ Capacity \in Nat
    /\ AlphabetSize <= Capacity
    /\ MaxSymbols \in Nat
    /\ Sources \subseteq {s \in Seq(Symbols) : Len(s) <= MaxSymbols}
    /\ Streams \subseteq Seq(Nat)

VARIABLES
    pc,         \* start, encode, deliver, decode, done or rejected
    source,     \* the encoder's input
    next,       \* the source index the encoder's loop is at
    phrase,     \* the phrase matched so far
    entries,    \* the encoder's catalog, code c at index c + 1
    codes,      \* the codes emitted
    cuts,       \* history: where each emitted phrase and the next one begin
    stream,     \* the codes handed to the decoder
    taken,      \* how many of them it has consumed
    previous,   \* the phrase of the last consumed code
    dentries,   \* the decoder's catalog
    output      \* the symbols decoded

encoder == <<source, next, phrase, entries, codes, cuts>>
decoder == <<stream, taken, previous, dentries, output>>
vars == <<pc, source, next, phrase, entries, codes, cuts,
          stream, taken, previous, dentries, output>>

BaseCatalog == [i \in 1 .. AlphabetSize |-> <<i - 1>>]

Init ==
    /\ pc = "start"
    /\ source \in Sources
    /\ next = 1
    /\ phrase = <<>>
    /\ entries = BaseCatalog
    /\ codes = <<>>
    /\ cuts = <<1>>
    /\ stream = <<>>
    /\ taken = 0
    /\ previous = <<>>
    /\ dentries = BaseCatalog
    /\ output = <<>>
-----------------------------------------------------------------------------
(* lzw_encode.                                                             *)

InCatalog(p) == \E i \in 1 .. Len(entries) : entries[i] = p

\* lookup: the catalog read from phrase to code.
CodeOf(p) == CHOOSE c \in 0 .. Len(entries) - 1 : entries[c + 1] = p

\* An entry is added only while the catalog has room.
Insert(catalog, p) ==
    IF Len(catalog) < Capacity THEN Append(catalog, p) ELSE catalog

EncodeEmpty ==
    /\ pc = "start"
    /\ source = <<>>
    /\ pc' = "deliver"
    /\ UNCHANGED <<encoder, decoder>>

EncodeFirst ==
    /\ pc = "start"
    /\ source # <<>>
    /\ pc' = "encode"
    /\ phrase' = <<source[1]>>
    /\ next' = 2
    /\ UNCHANGED <<source, entries, codes, cuts, decoder>>

Candidate == Append(phrase, source[next])

ExtendPhrase ==
    /\ pc = "encode"
    /\ next <= Len(source)
    /\ InCatalog(Candidate)
    /\ phrase' = Candidate
    /\ next' = next + 1
    /\ UNCHANGED <<pc, source, entries, codes, cuts, decoder>>

EmitCode ==
    /\ pc = "encode"
    /\ next <= Len(source)
    /\ ~InCatalog(Candidate)
    /\ codes' = Append(codes, CodeOf(phrase))
    /\ entries' = Insert(entries, Candidate)
    /\ phrase' = <<source[next]>>
    /\ cuts' = Append(cuts, next)
    /\ next' = next + 1
    /\ UNCHANGED <<pc, source, decoder>>

\* Mutant: the phrase at hand is lost at the end of the source.
EmitLastLost ==
    /\ pc = "encode"
    /\ next > Len(source)
    /\ pc' = "deliver"
    /\ UNCHANGED <<source, next, phrase, entries, codes, cuts, decoder>>

EmitLast ==
    /\ pc = "encode"
    /\ next > Len(source)
    /\ codes' = Append(codes, CodeOf(phrase))
    /\ cuts' = Append(cuts, next)
    /\ pc' = "deliver"
    /\ UNCHANGED <<source, next, phrase, entries, decoder>>
-----------------------------------------------------------------------------
(* lzw_decode.                                                             *)

InRange(s) == \A k \in 1 .. Len(s) : s[k] < Capacity

\* Mutant: an output that reaches the limit is refused.
FitsBelow(p) == Len(p) < MaxSymbols - Len(output)

\* _extend_bounded.
Fits(p) == Len(p) <= MaxSymbols - Len(output)

Reject == pc' = "rejected" /\ UNCHANGED <<taken, previous, dentries, output>>

\* What was encoded does not matter to the decoder of another stream.
Deliverable == {codes} \cup (IF source = <<>> THEN Streams ELSE {})

Deliver(s) ==
    /\ pc = "deliver"
    /\ stream' = s
    /\ pc' = IF ~InRange(s) THEN "rejected" ELSE "decode"
    /\ UNCHANGED <<encoder, taken, previous, dentries, output>>

Consume(current, catalog) ==
    IF Fits(current)
      THEN /\ output' = output \o current
           /\ dentries' = catalog
           /\ previous' = current
           /\ taken' = taken + 1
           /\ UNCHANGED pc
      ELSE Reject

DecodeFirst ==
    /\ pc = "decode"
    /\ taken = 0
    /\ stream # <<>>
    /\ IF stream[1] >= AlphabetSize
         THEN Reject
         ELSE Consume(dentries[stream[1] + 1], dentries)
    /\ UNCHANGED <<encoder, stream>>

\* The phrase a code names; the KwKwK code names the entry about to be made.
Named(code) ==
    IF code < Len(dentries)
      THEN dentries[code + 1]
      ELSE Append(previous, previous[1])

\* Mutant: a code may run one entry ahead of the catalog.
ValidAhead(code) == code <= Len(dentries) + 1

Valid(code) ==
    \/ code < Len(dentries)
    \/ code = Len(dentries) /\ Len(dentries) < Capacity

\* Mutant: the new entry ends on the last symbol of the phrase.
DecodeNextByLast ==
    /\ pc = "decode"
    /\ taken \in 1 .. Len(stream) - 1
    /\ LET code == stream[taken + 1]
           current == Named(code)
       IN IF Valid(code)
            THEN Consume(current,
                         Insert(dentries, Append(previous, current[Len(current)])))
            ELSE Reject
    /\ UNCHANGED <<encoder, stream>>

DecodeNext ==
    /\ pc = "decode"
    /\ taken \in 1 .. Len(stream) - 1
    /\ LET code == stream[taken + 1]
           current == Named(code)
       IN IF Valid(code)
            THEN Consume(current, Insert(dentries, Append(previous, current[1])))
            ELSE Reject
    /\ UNCHANGED <<encoder, stream>>

DecodeEnd ==
    /\ pc = "decode"
    /\ taken = Len(stream)
    /\ pc' = "done"
    /\ UNCHANGED <<encoder, decoder>>
-----------------------------------------------------------------------------
Next ==
    \/ EncodeEmpty \/ EncodeFirst
    \/ ExtendPhrase \/ EmitCode \/ EmitLast
    \/ \E s \in Deliverable : Deliver(s)
    \/ DecodeFirst \/ DecodeNext \/ DecodeEnd

Spec == Init /\ [][Next]_vars

\* A called function runs until it returns.
FairSpec == Spec /\ WF_vars(Next)
-----------------------------------------------------------------------------
(* Properties.                                                             *)

\* Catalogs and symbol streams stay within the caps of glyph_program.py.
TypeOK ==
    /\ pc \in {"start", "encode", "deliver", "decode", "done", "rejected"}
    /\ source \in Sources
    /\ next \in 1 .. Len(source) + 1
    /\ phrase \in Seq(Symbols)
    /\ entries \in Seq(Seq(Symbols)) /\ Len(entries) \in AlphabetSize .. Capacity
    /\ codes \in Seq(0 .. Capacity - 1)
    /\ cuts \in Seq(1 .. Len(source) + 1)
    /\ stream \in Seq(Nat)
    /\ taken \in 0 .. Len(stream)
    /\ previous \in Seq(Symbols)
    /\ dentries \in Seq(Seq(Symbols)) /\ Len(dentries) \in AlphabetSize .. Capacity
    /\ output \in Seq(Symbols) /\ Len(output) <= MaxSymbols

Honest == stream = codes /\ pc \in {"decode", "done", "rejected"}

\* The decoder accepts what the encoder emits: no honest stream is rejected,
\* the KwKwK code and the codes emitted after the freeze included.
HonestIsAccepted == Honest => pc # "rejected"

\* At every point of decoding the honest stream the output is a prefix of
\* the source, and at the end it is the source.
OutputIsSource ==
    Honest =>
        /\ Len(output) <= Len(source)
        /\ \A i \in 1 .. Len(output) : output[i] = source[i]
        /\ pc = "done" => Len(output) = Len(source)

\* LZW is reversible: what lzw_encode emits is accepted and restores the source.
HonestIsRestored == HonestIsAccepted /\ OutputIsSource

\* The decoder's catalog is the encoder's, cut off where the decoder is; at
\* the end they are equal, so the two catalog digests agree.
CatalogsAgree ==
    Honest =>
        /\ Len(dentries) <= Len(entries)
        /\ \A i \in 1 .. Len(dentries) : dentries[i] = entries[i]
        /\ pc = "done" => Len(dentries) = Len(entries)

\* The encoder never gives two codes to one phrase (lookup and entries stay
\* inverse to each other).
EntriesDistinct ==
    \A i, j \in 1 .. Len(entries) : entries[i] = entries[j] => i = j

\* Of any stream, only one whose every code names an entry that exists, or is
\* being made, at that point is accepted: no skipped index, no frozen-out
\* entry, no first code outside the alphabet (docstring of lzw_decode).
CodeBound(k) == IF AlphabetSize + k - 1 < Capacity
                  THEN AlphabetSize + k - 1
                  ELSE Capacity

AcceptedStreamsAreCausal ==
    pc = "done" => \A k \in 1 .. Len(stream) : stream[k] < CodeBound(k)

\* The codec as an exact-replay channel of symbols; what is decoded from other
\* streams is no replay.
Replay == INSTANCE ExactReplay WITH
    source <- SubSeq(source, 1, IF pc = "start" THEN 0 ELSE next - 1),
    sealed <- pc \in {"deliver", "decode", "done", "rejected"},
    replayed <- IF Honest THEN output ELSE <<>>

ImplementsExactReplay == Replay!FairSpec
=============================================================================
