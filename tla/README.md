# Verification of the Omega codecs

This directory holds a TLA+ model of the codecs of this repository, the TLC
runs that check it on small instances, and TLAPS proofs of what matters most for
every value of the constants. Paths are relative to the repository; the
following short names are used for its larger files.

| short | file |
|---|---|
| P123 | `reference/omega-path123-v0/omega_path123.rs` |
| FLOOR | `reference/omega-floor-codec-v0/omega_floor_codec_v0.rs` |
| HYPER | `reference/omega-hyper-codec-integration-v0/omega_hyper_codec_v0.rs` |
| OPS | `reference/omega-operator-catalog-v0/omega_operator_catalog.rs` |
| GLYPH | `src/asolaria_tournament/glyph_program.py` |
| ACER | `src/asolaria_tournament/acer_glyph_codec.py` |
| RELIC | `src/asolaria_tournament/relic_engine.py` |
| HBP | `tools/movable-flashlight/hbp.py` |

## 1. Inventory

Everything here is a deterministic, single-threaded, lossless codec or a command
around one. There are no threads, no network and no persistent server: the
actors are an encoder, a decoder that runs later and knows only the archive, the
channel between them (which may hand over an altered archive), and for the
commands the operating system, which may stop them between two file operations.
What is hard is therefore not scheduling but *lockstep*: a decoder that rebuilds
the encoder's state (intervals, catalogs, weights, masks, chosen views) one step
behind it, buffers that carry state across call boundaries, numeric edges, and
inputs nobody's encoder wrote.

| component | state it keeps | operations | what is hard | what makes it correct |
|---|---|---|---|---|
| Path 3 arithmetic coder (P123 840-1031) | interval `low`/`high`, held-back bits, bit writer; the decoder's interval, window and reader | encode_bit, finish, new, decode_bit | the interval that closes on the middle, the last bits, reading past the end | decoder and encoder renormalise in step; no interval degenerates; bits come back |
| Path 3 prediction (P123 680-838, 1033-1122) | retained symbols, expert votes, mixer weights, residual | encode/decode_path3_symbols, mixer update, null residual | learning at the wrong moment; saturated or negative weights | the decoder asks under the encoder's probabilities; probabilities are usable |
| Path 1 greedy LZ (P123 201-382) | position, tokens; parser cursor and running length; output | encode, serialize, deserialize, validate mode, decode | overlapping matches; one check written twice; declared modes | parser and decoder accept the same streams; output is the source |
| Path 2 residues (P123 384-551) | symbols, residue pairs, search candidate, output bits | pack, encode, serialize, decode, unpack | a bounded search, padding, canonical form | every pair in range has a solution; only the canonical list is accepted |
| Path123 archive (P123 1291-1616) | header, lane bytes, accounting | encode_p123, parse_header, decode_p123 | three lanes with their own lengths; charges that must add up | lanes round-trip in every mode; no fallback; the charge is the sum |
| Glyph LZW (GLYPH 85-200) | catalog, current phrase, code list | lzw_encode, lzw_decode | the code for the entry being made, the freeze | catalogs agree, only causal code streams are accepted |
| Glyph code packing (GLYPH 202-251) | bit accumulator | pack_codes, unpack_codes | padding, counts | canonical form |
| ACER glyph codec (ACER) | previous block and its start, history, Omega chain, output, body census | encode_with_report, decode_with_report, select_view, project/restore_block | a view chosen from the block before, regenerated from other buffers; spliced archives; bodies nobody's encoder wrote; output limit | what it accepts holds the records the encoder would write, the spelling of a residual apart; finished records never change |
| Relic stream (RELIC 170-235) | rest of a mask block, block number | transform_chunks | chunk boundaries | the result does not depend on the chunks |
| Relic archive (RELIC 237-461) | header, manifest, payload hashes | build, decode, verify | fail-closed decoding | nothing is returned from an archive that does not verify |
| Floor codec (FLOOR) | adaptive cells, nested floors, causal bit model, lanes | encode_nested, decode_nested, headers | counters at COUNT_LIMIT, model reset per block | model in step, lanes consumed exactly |
| Hyper codec (HYPER) | expert bank, stage chain, commitments | pack, unpack, verify | a chain of digests recomputed on both sides | stages cannot be reordered or skipped |
| Operator catalog (OPS) | none | 40 reversible operators and their inverses | permutations at odd lengths | every operator has its inverse, the reflections are involutions |
| Archive files (FLOOR 1150-1173, 1301-1337; the same in HYPER; HBP 69-135) | final files and temporaries | write_atomic, write_sha_sidecar, write_hbp_hbi | interruption between two file operations | a complete copy stays on disk; sidecars are never newer |
| commitment, tournament, flashlight, privacy, `__main__` | none | hashing, formatting, text checks | nothing that steps | tests cover them |
| movable-flashlight image tools, `scripts/` | none that steps | numeric processing, hash comparison | - | - |

Interactions. `encode_p123` runs Path 1, packs its bytes, runs Path 2 and Path 3
over the symbols and Path 3 over the arithmetic coder. The ACER codec runs the
glyph LZW twice per block and chains the blocks; the floor and hyper codecs and
the tournament commands write their archives through `write_atomic`. The relic
archive routes its payload through the relic stream. All of it is plain calls;
the only callbacks are Python generators, which run when their caller asks.

## 2. The modules

| module | models | kind |
|---|---|---|
| `ExactReplay` | what every codec promises: a source is accepted, sealed, and handed back front to back | abstract |
| `ArithmeticCoder` | P123 encoder and decoder of bits, one shift per step | detailed |
| `PathThree` | the loops around that coder: experts, mixer, residual | composes with the above |
| `PathOne` | greedy LZ, token bytes, parser, mode check, copying decoder | detailed |
| `PathTwo` | packing, residues, search, unpacking | detailed |
| `Lzw` | `lzw_encode`, `lzw_decode` | detailed |
| `PathArchive` | the Path123 archive: layers of a mode, header, charges | composes Paths 1 to 3 |
| `GlyphCodes` | the LZW and the packing of codes as functions of their arguments, and the two levels of both that make a body | pure |
| `AcerGlyph` | block codec: views, predictions, bodies, records, Omega chain | over `GlyphCodes` in its run |
| `FloorPayload` | the floor codec's payload: lanes, directions, adaptive cells, its own arithmetic coder | detailed |
| `FloorNested` | the floor codec's archive: nested stages, commitments, charges, pack and unpack | detailed |
| `FloorCodec` | the two levels of the floor codec, by turns | composes `FloorPayload`, `FloorNested` |
| `OperatorCatalog` | the forty operators and their inverses, as operators on sequences | pure |
| `OperatorReplay` | a caller that views a sequence and restores it | over `OperatorCatalog` |
| `HyperPathThree` | the hyper codec's hook: codebooks, expert bank, residuals, replayed state | over `OperatorCatalog` |
| `HyperChain` | the hyper codec's archive: stages chained by seed and Omega | detailed |
| `HyperCodec` | the two levels of the hyper codec, by turns | composes `HyperPathThree`, `HyperChain` |
| `RelicStream` | `transform_chunks`, routing and restoring | detailed |
| `ArchiveStore` | `write_atomic` and `os.replace` sequences with interruptions | detailed |
| `Numbers` | induction, loops and bits: lemmas that several of the proofs use | proofs |
| `*Proofs` | theorems of the modules they extend | proofs |
| `MC*` | constants for TLC | instances |

`ExactReplay` is the abstract specification; `ArithmeticCoder`, `Lzw`,
`RelicStream`, `PathThree` and `FloorPayload` are each shown to implement it under a refinement
mapping (`Replay == INSTANCE ExactReplay WITH ...`): the source grows, is sealed,
and what the decoder has handed back is always a prefix of it, in the end all of
it. Composition is by contract. `PathThree` uses the coder as the channel that
`ArithmeticCoder` shows it to be (a bit comes out as it went in while both sides
ask with the same probability; after a different one any bit may come out), and
`ArithmeticCoder` needs of its caller only that probabilities lie strictly inside
the scale, which `ProbabilitiesAreUsable` shows of `PathThree`. `AcerGlyph` has
as parameters what the two levels of LZW make of a residual (`Glyph`) and of a body (`Unglyph`). Its run computes both
with `GlyphCodes`; its proofs ask only that decoding undoes encoding, which is the contract `GlyphProofs` proves of one level. The archives (`PathArchive`, `FloorNested`,
`HyperChain`) take a payload as a value that only the same key and length turn
back into what was encoded, anything else into some other string; whether a
payload has one spelling or several is what the module of its layer shows
(`OnlyCanonicalIsAccepted` of `HyperPathThree` and `PathTwo`; the arithmetic
coders do not read to the end, so theirs have several).

### How state and actions correspond to the code

*ArithmeticCoder.* `low`, `high`, `follow`, `out` are the fields of
`ArithmeticEncoder`; `dlow`, `dhigh`, `value`, `position` those of the decoder and
its reader. `EncodeBit` is the narrowing of `encode_bit`; `EmitLower`,
`EmitUpper`, `HoldBack` and `EmitSettled` are the four ways through one turn of its
renormalisation loop; `Finish` writes the two final bits and the padding; `Load`
fills the decoder's window bit by bit; `DecodeBit` and the `Shift*` actions are the
same loop on the other side. Every `ArithmeticState` error is a transition to
`pc = "error"`. `sent` is a history variable: the bits with the interval they were
encoded in. The window width, scale and byte width are constants.

*PathThree.* One symbol is predicted (`BeginSymbol`), its bits are coded one by
one (`EncodeBit`/`DecodeBit`), the symbol is checked against its null residual
(`CloseSymbol`), the mixer learns bit by bit (`Learn`), and the symbol joins the
history (`PushSymbol`). What an expert predicts is a parameter (`Expert`) of the
retained window, because nothing about the loop depends on which operator it is;
the mixer's integer arithmetic is modelled exactly.

*PathOne.* `EncodeMatch`/`EncodeLiteral` are one turn of the search loop with its
longest, then nearest match; `Serialized` is the byte form of a token. The parser
takes one token per step, `CopyByte` copies one byte of a match, so that the source
of an overlapping match moves with the output. The decoder may instead be handed any
stream of `Streams`, or tokens without the parser, because `decode_path1` is public.

*PathTwo.* `PackSymbol`, `EncodeResidues`, then per pair `OpenPair`, the steps of the
search loop and its end, then `UnpackSymbol`. `HandResidues` hands over the honest list or
one of `Alter`.

*Lzw.* `Init` prepares the base catalog, `ExtendPhrase`, `EmitCode`, `EmitLast` are
the encoder's loop; `DecodeFirst`, `DecodeNext`, `Reject`, `DecodeEnd` the decoder's.
`cuts` is a history variable: where in the source each code's phrase begins.

*AcerGlyph.* `EncodeBlock` is one turn of the encoder's loop, whole: view selection
from the block before, projection, choice of mode, the sealed record. The decoder
takes a record (`ReadRecord`, every check up to the decoded residual), restores
it byte by byte (`RestoreNext`) and closes it (`CloseRecord`: length, digest, Omega).
A digest is the tagged value it digests, equal only for equal contents. A body is a
sequence of bytes, read in the mode and under the counts its record declares, whoever
wrote it and however it was meant. Two archives are encoded first,
because the interesting inputs are spliced from two. A record arrives as it was or as one of
`Alter`, with its own Omega or one made for its new place; the run alters every field, flips
body bytes, reads raw bytes as codes and codes as raw bytes, and spells the residual in every other way
that three codes allow.

One residual has several spellings in the code, and the model keeps them: `lzw_decode` takes any legal list
of codes, not just the greedy one. For the residual 0, 0, 0 the encoder makes the first-level codes 0, 256;
a resealed record with the codes 0, 0, 0, its own second level, counts and catalog digests is accepted as well, and so is a raw body
where the encoder would have written codes. `AcceptedAsEncoded` therefore leaves the spelling open
and says that everything else in the record is the encoder's, and that the spelling, read by the decoder, gives
exactly the residual the encoder would have spelled. `OmegaCommits` is not weakened by it: a
record commits to its spelling.

*GlyphCodes.* `LzwEncode` and `LzwDecode` are the loops of `lzw_encode` and `lzw_decode` as folds, `PackCodes` and
`UnpackCodes` the two regroupings of a bit string; a function that may raise gives a set that is empty when it does.
`GlyphOf` and `ResidualsOf` are the two levels as ACER calls them.

*RelicStream.* `Receive*` hands a chunk to the generator, `Refill` makes the next mask
block, `Transform` uses as much of it as the chunk has left, `Yield` returns the chunk.

*ArchiveStore.* A command writes its files in order, each with `Create`, `Write`,
(`Remove`), `Rename`; `Interrupt` ends it between any two steps and leaves the files as they
are. `removesFirst`, chosen at the start, tells the Rust function from `os.replace`.

*PathArchive.* `Encode` is `encode_p123`, `Refuse` its early returns, `TakeOff` one
layer of `decode_p123` (language map, Path 1, packing, Path 2, Path 3 as the
mode has them) with the checks made there, `CheckOriginal` the digest and the charge.
`EncodeForeign` writes an archive with one or two header fields of its own.

*FloorPayload.* `EncodeByte` is one turn of `encode_payload`: directions,
prediction, the bits of the residual through the cells, each with the whole
renormalisation loop, learning, reset. All six lanes encode side by side so that
they can be compared. `DecodeByte` is the same turn of `decode_payload`; `Start`
its early checks.

*FloorNested* and *HyperChain.* `EncodeFloor` is one turn of the nesting loop,
`ForeignFloor` a stage another program wrote (the floors outside it commit to what it
wrote, so that only the check of that one field is left), `DecodeFloor` one turn of
the decoding loop with every check in it. In `FloorNested` pack decodes before it
writes (`Encoded`, `PackEnd`), in `HyperChain` it writes first (`File`).

*OperatorCatalog.* `ApplyCube`, `ApplySector`, `ApplyLens` and their inverses, the
face order of the lenses by the search the code runs over the twenty faces, and
`CanonicalWindow`, the index map the hyper codec keeps. `OperatorReplay` grows a
sequence, validates it (`Reject`), views it and restores it.

*HyperPathThree.* `Ask` and `Learn` are the two halves of a turn of the coding loop,
used by `p3_encode` (whole, in `Deliver`), `p3_decode` (`DecodeSymbol`, one symbol a
step) and `replay_expert_state`.

## 3. Runs

Every run is exhaustive within its bounds.

| run | instance | what it shows |
|---|---|---|
| `coder` | 5-bit register, scale 8, probabilities 1/8, 1/2, 7/8, messages of up to 4 bits, 4-bit bytes | no coder error; decoder interval equals encoder interval before each bit; refines `ExactReplay` with liveness |
| `lzw` | two symbols, catalog of five; every source of up to nine symbols, every foreign stream of up to three codes, one out of range | honest streams give back the source, catalogs agree, only causal streams are accepted, refinement with liveness |
| `store` | three files, five commands, three interruptions, with and without the remove | one interruption keeps a copy and a completed command makes good for it; later files are not newer; success is complete; a replaced file never disappears |
| `relic_stream` | mask blocks of three bits, sources of up to eight bits, chunks of zero to four bits | chunks do not matter; restoring with other chunks gives the source; liveness |
| `path3` | three experts, two-bit symbols, window of two, weights to 4, sources of up to four symbols | probabilities are usable; decoder in step; refinement with liveness |
| `path1` | three byte values, window three, matches of two to four; sources and foreign streams of up to seven bytes, all modes, declared lengths 0, 3 and 4; eleven token lists | honest streams give back the source; what the parser accepts is decodable |
| `path2` | the four real floors; every pair from (0, 0) to one past each modulus in place of an encoded one | the search ends and always finds; honest lists decode; only the canonical list is accepted |
| `path_archive` | three sources, widths 6, 7 and 12, two seeds, two lanes, all modes, charges that fit and that do not; archives with one or two foreign fields | what is handed out is restored; what is accepted is the encoder's but for tokens and payload spelling, and its tokens are of the kind the header's Path 1 mode allows |
| `acer` | two-bit bytes, lags one and two with all eight views, blocks of one and six bytes, five sources, limits 2 and 7; LZW levels with two free entries each, three-bit codes; records spliced, altered, respelled in up to three codes and resealed | honest archives are accepted; Omega commits; what is accepted is what would be encoded, the spelling of a residual apart |
| `floor_codec` | payloads: two-bit bytes, 7-bit register, four cells, count limit 5, reset every 2, up to three bytes, all lanes, every foreign payload of six bits; archives: three floors, all charges around the width, one foreign stage | decoder never leaves its interval; duplicate lanes add nothing; refinement; what pack leaves on disk unpacks; what is accepted is what would be encoded |
| `operators` | all forty operators and one unknown, the four real widths and one unknown, lengths 0 to 41; every place holds its own number, one place of each lens chunk also the largest symbol | inverses restore and keep the alphabet; lenses take near faces first; cached windows are views |
| `hyper_codec` | hook: 4-bit symbols over 3-bit bytes, window and reset of three, weights to 5, strings of up to six bytes, all controls, every foreign payload of two bytes; archives: three floors, all modes, up to two foreign stages | honest payloads are restored; only the encoder's is accepted; the signed state is the coder's; what pack wrote unpacks; what is accepted is what would be encoded |

`floor_codec` and `hyper_codec` check two modules of one codec in one run, by
turns: a behaviour is one of the payload level or one of the archive level, and the
other level rests (`CodecSpec` of `FloorCodec` and `HyperCodec`). The levels do not share
state in the code either: a payload is a value to the archive.

Why the bounds are enough. Each was chosen so that the case the code treats
specially occurs, and this was checked by looking for a state that shows it:
the coder's interval straddles the middle for several shifts in a row and the
padding falls on every position of a byte; nine symbols over a catalog with three
free entries meet KwKwK before, at and after the freeze; mixer weights reach
zero and both limits; a chunk ends inside, at and across a mask block; Path 1
sources contain matches longer than their distance and a window that moves;
`acer` accepts a spliced archive, a block the encoder wrote as codes, the same residual under other codes and
other counts and as raw bytes, and its limit of two bites. In
`path2` nothing is scaled down but the number of symbols, in `operators` nothing but
the alphabet a place may hold: 41 symbols are two full lens chunks and one of one
symbol, and three full sector chunks and a short one. In `floor_codec` cells are
halved, resets fall inside a source and ties between directions occur; the charges
0, 3 and 9 under a width of 9 overflow a total, and a charged size where the total
still fits. In `hyper_codec` codebooks collide and are drawn again, weights stop at both ends,
symbols straddle bytes and leave tail bits. Three floors stand for four: an
innermost, an outermost and one that is neither. Every property also has
a mutant: a variant of one definition, as a plausible slip in that code would
make it, under which TLC finds the property violated (operators commented
`Mutant`). They are never part of the specification.

Fairness. Where a specification `FairSpec` is used, it is weak fairness of `Next`:
a function that was called runs until it returns, because nothing else runs in
between; for the generators of `RelicStream` it says that the caller reads them to the
end, as every caller in the repository does. `ArchiveStore` has no fairness: a
command may stay interrupted for good. `PathOne`, `AcerGlyph` state no liveness; their runs
check for deadlock instead, with the returned states looping, so that neither side can get
stuck in the middle of a stream. The archives, the floor codec's payload and the hyper codec are loops
over a known number of floors, bytes or symbols; that they end needs no run.

## 4. Proofs

All theorems are stated for `Spec` (`CodecSpec` of the two codecs that are checked by turns,
`ReplaySpec` of `OperatorReplay`, `StoreSpec` of `ArchiveStore`, `AcerSpec` of `AcerGlyph`, `CrtSpec` of `PathTwo`, `ArchiveSpec` of
`PathArchive`) and
hold for every value of the constants that satisfies the module's named assumption. The
`TypeOK` of a module with proofs is proved and not checked by a run again. Induction is over sets of numbers
(`EveryNumber` of *Numbers*, from the library's well-founded minimum), because the library's own induction theorems take
an operator as a parameter; a loop of the code is a function with a value for each turn (`LoopRuns`).

*ArithmeticCoderProofs* (`TypeCorrect`, `CoderNeverFails`, `DecoderMirrors`, `CoderRoundTrips`,
`CoderReplays`; from `CoderAssumption`: the scale is at most a quarter of the range, a power of
two, and probabilities lie strictly inside it). `TypeOK` alone is not
inductive: a narrow interval could be split into an empty one. `IInv` adds that
outside renormalisation the interval is wider than a quarter, hence wider than the scale, so
that both parts are nonempty (`ScaledRange`, `SettledSplits`), and that the window lies
inside the decoder's interval. The window is loaded by doubling, so while loading it is
below the power of two already reached (`LoadInv`). That the bits come back needs the whole
stream at once: held-back bits are written long after the decision they belong to. `TraceInv` therefore keeps
a trace of the encoder's run: for each step the interval, the place of the bit its window starts with, and what the step
has settled about the code (`TraceStep`). In the finished code (`Complete`) a window is a number (`Spells`, padding and
invented zeros included). At the end of the trace it lies in the interval; a doubling maps the window of one step to that
of the next, so it lies in the interval of every step, followed back. The decoder walks the trace with that window as its
register and takes the branch the number lies in, which is the encoder's.

*PathThreeProofs* (`ProbabilitiesUsable`, `InStep`, `PathThreeReplays`; from `PathThreeAssumption`, which leaves
the experts, what they predict, the width and the learning rate open). A probability is one half plus a
fraction of the gain, and that the fraction is at most one is a fact about sums over the experts: the weights a bit
gathers are at most all the weights (`SumIsBounded`), for a set of any size. With it the ceiling of
`residual_zero_probability` is seen never to bite as the code's constants are. `HistoryInv` says that one history of mixers explains both passes: the mixer after `n`
bits has learned from the first `n` bits of the source and nothing else. The encoder extends the history, the decoder
walks along it, and what is in the channel was encoded under the mixer of its place. The halves of the null
residual meet (`HalvesMeet`), so the symbol is the one encoded.

*GlyphProofs*, for the LZW (`TypeCorrect`, `HonestStreamRestored` with its two halves `HonestStreamAccepted`
and `ExactReplayOfSource`, `CatalogsAlwaysAgree`, `OnlyCausalStreamsAccepted`,
`PhrasesHaveOneCode`, `LzwReplays`; from
`LzwAssumption`). The invariant describes the encoder's catalog by `cuts`: entry number
`AlphabetSize + k` is the source from cut `k` up to and including the first symbol after
the next cut, and code `k` names the source between cut `k` and cut `k + 1`. For the decoder on
an honest stream it says that the output is the source up to the current cut and its catalog
the encoder's, one entry behind. The KwKwK case then is the case in which the named
entry is the one whose last symbol is not yet known; that its first symbol suffices is
`NextPhraseFacts`. On other streams only the bounds remain, and they suffice for causality.
`LzwReplays` is the refinement without its fairness: a symbol read by the encoder is accepted by the channel, the end
of the source seals it, and a code of the decoder hands back its whole phrase.
For the ACER block codec (`WrittenAccepted`, `RecordsAsEncoded`, `OmegaCommitsToAll`; from `AcerGlyphAssumption`, which leaves
views, block sizes, sources and what happens to a record on the way open, asks of the exclusive or
that it undoes itself, and of the two levels of LZW that the body of a residual is read as that residual with the same catalogs;
what other bodies give is open). `RecordAt` is the record the encoder makes at place `n` of a byte string, given the Omega before
it, and `Chained` says that the first records are these. The encoder keeps its own records chained (`EncodedInv`,
`EncodingInv`), the decoder those it has closed, for the bytes decoded so far (`DecodingInv`). That these bytes grow
does not disturb the chain, because a record looks at its block and at bytes before it. `RestoringInv` carries a record
from the checks to its Omega: the residual read so far is the one of the block restored so far, under the view regenerated
before the block existed and the history the decoder keeps, which holds fewer bytes than the encoder's
prefix. A record is chained with the spelling it has,
of which the invariant says that it is read as that residual (`Says`, `SpelledIsSaid`, `SaidIsResidual`).
The three properties are then read off the chain, each in its own direction. As each Omega contains the one before and the genesis the
block size, two chains with one last Omega are one chain, whose records commit to their blocks. And on written
records every check passes, because the record at hand is the next one of the chain.

*StreamAndStoreProofs*, for the mask stream (`ChunkingInvisible`, `MaskIsLazy`, `ImplementsReplay`; from
`StreamAssumption`). The invariant is the position equation: blocks made times their
length equals bytes transformed plus what is left of the current block. With it,
each transformed byte meets its own mask byte, whatever the chunk. `ImplementsReplay` is the
safety part of the refinement: the initial states map to initial states, every step
to a step or a stutter.
For the archive files (`CopyKept`, `ReplacedStay`, `SidecarNotNewer`, `SuccessComplete`,
`NoStaleTemporary`; from `StoreAssumption`). `StoreInv` relates the position in the running
command to what each file and temporary holds: files before the position carry this
command's version, later ones an older one, and a temporary is complete exactly from its
write to its rename. `CopyKept` needs to know where an earlier interruption may have
left a temporary that is the only copy. It is limited to one interruption since the last
command that ran to its end, which is what restores the tolerance: a second one, in the run that
truncates that temporary, really can leave nothing.

*PathProofs*, for Path 1 (`TypeCorrect`, `ParsedTokensDecode`, `HonestStreamRestored` with its halves
`HonestStreamAccepted` and `ExactReplayOfSource`; from `PathOneAssumption`, which says that a distance and a length
fit two bytes). Where a token starts is a sum over the tokens before it. The invariant names
these places by two functions that grow with the tokens, `at` in bytes of output and `cut` in
bytes of the stream. `SentInv` says that every token
of the encoder is true of the source where it stands and that the stream holds its
bytes; `ParsedInv` that the parser's tokens are legal one after the other, so the decoder's
own check, made at the same place, cannot fail; `FollowInv` that on the encoder's bytes the
parser has found the encoder's tokens and the decoder the source. A match that is being
copied stays legal where it began (`CopyInv`), which is why overlapping copies read
only what is written.
For Path 2 (`PairsAreSolved`, `ResiduesDecoded`, `CanonicalResidues`; from `PathTwoAssumption`, which asks of the moduli that
they are coprime and hold every symbol of the width). The search for a symbol is described by what it has passed:
`SearchInv` says that the candidate has the first residue and that no earlier number with it has the second. Going around
once with coprime moduli meets every second residue, so a search that came all the way around would be a contradiction
(`PairsAreSolved`), and a number below the product is fixed by its two residues, so what is found is what was packed. The bits
are then written back place by place; padding is what the last symbol has too many, and the decoder wants zeros there, which
is why a list that is accepted is the one the encoder makes of the bytes (`CanonicalResidues`).
For the archive (`HandedOutRestored`, `AcceptedIsEncoded`; from `ArchiveAssumption`). What the encoder hands out is a sequence of folded values,
and the decoder descends it: at each layer the value in hand is the one folded there, so each check passes and at the bottom the input
is there. For an archive of another program the same is run from below: each layer that was taken off is put on again by
its fold, because a check that passed forces sizes, style and spelling to be the encoder's.
That its tokens are of the kind the header allows (`TokensInv`) is known from the layer of Path 1 on, where the mode check read them.

*FloorCodecProofs* (`PackedRestored`, `AcceptedIsEncoded`; from `NestedAssumption`; `ControlsAreBookkeeping`,
`CoderInRange`, `PayloadReplays`, from `FloorAssumption`, which leaves the hash and the draws of the shuffle open). What pack of the floor codec
has put on disk unpacks to its input. The invariant names the stages by a function of the floor, which grows while
the archive is encoded; two walks lead back down the floors, one by pack before it writes and one
by unpack. Only the outermost floor carries charges, both walks add them up, and unpack
adds them to the size of the archive. That the sum fits is not a fact about the request; it is what pack's own walk
has found out before the file appears (`UnpackInv`). Sizes belong to the invariant because there is one empty
byte string, whatever it was decoded from. For `AcceptedIsEncoded` another program has had a hand in the
archive. All one knows of it is that each stage lies over another or over the input (`Known`). That is enough: a stage
that passes every check is the one `encode_stage` makes of its header and of what it decodes to, so on the way down
there is a tower of such stages from what is decoded now to the file (`Written`), and a sum of their charges.
Below the archive, the control lanes hold because a shuffle permutes the directions whatever is drawn (`SwapKeepsOrders`), so that as many
of them vote for a one, and as the tie goes to direction 0 and not to the first of the plan (`PermutedPredictsTheSame`).
For the range of the coders, the renormalisation of one bit is a single operator with a loop of as many turns as
the register has bits; that this is enough is itself proved, as every turn doubles an interval that cannot outgrow the
register (`EncoderSettles`, `DecoderSettles`). What then makes it inductive (`RangeInv`) is the bound on
the counts of a cell, which keeps a probability inside its scale, and a residual that has no more bits than were
decoded.
`PayloadReplays` is the whole refinement: every payload of every lane decodes, byte by byte, to the input and is never
rejected. It is about one number, the window (`WindowOf`): what the bits of the payload spell up to where the decoder
has read, less what both sides have moved their intervals down by, the bits held back included. `finish` puts the window
into the last interval of the encoder (`FinishedInside`); as narrowing and doubling only ever lead into an interval from
the one before, it was inside every earlier one (`TurnInside`, `NarrowedInside`, `BitInside`, `ByteInside`, `TraceInside`). A
decoder whose code is the window therefore finds it on the side of the split the encoder chose, takes the same turns and
reads on to the next window (`NarrowedMirrored`, `TurnMirrored`), so it finds the bits of the residual, and the prediction both make
turns the residual back into the byte (`XorBack`, `ByteMirrored`). What makes this inductive (`ReplayInv`) is a trace
of the states each lane's encoder has been in: it is built while the input grows, and later the decoder stands at
one of them.

*HyperCodecProofs* (`WrittenRestored`, `AcceptedIsEncoded`, from `ChainAssumption`; `HonestRestored`, `OnlyCanonical`,
`OmegaSigned`, from `HookAssumption`; `OperatorsRestore`, `InversesRestore`, `WindowsView`, from
`CatalogAssumption` and `ReplayAssumption`). What pack of the hyper
codec writes is never refused and decodes to the input, for every list of floors and every request. pack writes before
it checks, so this is what keeps a bad archive off the disk. Each turn of the
decoder meets the stage the encoder made there (`Chain`), and `StageDecodes` says that such a stage passes
every check. `AcceptedIsEncoded` is the argument of the floor codec with seeds in place of charges. What is special is a
payload of the input put into an outer floor (`Torn`): it decodes to what is no stage, and the next floor refuses it
(`Doomed`). A sector rotation is undone by its inverse at every length: a position keeps
its chunk, hence the length its chunk rotates by (`SameChunk`), and within a chunk it is
arithmetic modulo that length (`RotationInverts`). A lens is undone for the same reason, because the order of the faces
of a chunk of any length is a permutation (`LensSources`). R, N and Q each undo themselves and commute, N and Q because they do so on every symbol of two halves
(`SymbolReflections`), so any composition of them undoes itself (`CubeRestores`). As sectors and lenses only move positions, the
map taken from the identity shows what the operator shows (`WindowIsView`). The run shows it up to 41 symbols at
four widths, the theorem for every length and every even width.
The payload level is one invariant (`PayloadInv`) for honest and foreign payloads alike: the decoder is where a coder of the
symbols it has decoded would be, and the residuals it has read are the ones that coder would have written (`DecoderFollows`).
From that, `OnlyCanonical` and `OmegaSigned` follow at the end; on the encoder's own payload the next residual read is the one
written at that place (`ReadBack`), so the symbols are those of the input. Below it lies what a number is to its bits (`Counted`,
`Counting`), that bytes and symbols of other widths are two readings of one bit string (`SymbolsOfBytes`, `BytesOfSymbols`), and that
everything the experts see through the forty operators is made of symbols (`WindowOfNumbers`, `CandidatesAreNumbers`).
`HookAssumption` leaves the hash open, and asks of it that forty different codebooks are found (`derive_codebooks` fails
otherwise) and that a shuffle swaps a place with one not above it. That the lens orders are permutations
(`LensesArePermutations`) has no parameter; TLC decides it before each run.

Induction. The library's induction theorems take an operator as a parameter, which the backends cannot
instantiate. Where a proof needs induction it is stated with a set in place of the predicate and drawn from the
well-founded minimum (`EveryNumber`), and a recursive function is unfolded after showing that its equation has one
solution (`SameRecursion`). No module uses `RECURSIVE`.

Only model-checked: the order of a lens (`NearFacesFirst`), a fact about the one icosahedron that TLC computes; liveness
everywhere and with it the fairness part of the refinements (liveness and ENABLED are outside what TLAPS proves).

## 5. Not modelled, and why

* The relic archive (RELIC 237-461): hash comparisons and file copies around the stream
  transform, in one pass; nothing in it steps or is kept from one step to the next.
* `path3_probability_trace`, `causal_trace` and `p3_prediction_trace`: copies of the coding loops without the coder,
  which only tests and reports call.
* `usize` and `u64` overflow in length arithmetic (`checked_add`, `checked_mul`): inputs that
  long do not fit in memory. Charges are given by the caller and do overflow: `PathArchive` and `FloorNested` keep
  their width. Integer widths inside the coders are kept by the type
  invariant, which bounds every register by the code range, and by `CoderStaysInRange`.
* SHA-256 and the language map are values that are equal only for equal contents; collisions are out of scope.
* Durability against power loss: `write_atomic` does not sync, and the model's file
  system performs operations in order.
* Commands are run one after the other; nothing in the repository runs two on one path.
* The operators behind the experts of P123: the loop treats them as functions of the retained
  window. Those of the hyper codec are modelled.
* The caps of ACER on block count and record length, reports, metadata text, `scripts/`, the image
  tools and the commitment, tournament, flashlight and privacy helpers: formatting, numeric processing and text checks
  without a state machine.

## 6. Plan

Done, in the order of importance: the entropy coder and its proofs; LZW; archive files;
the chunked transform; Path 3's loop; Paths 1 and 2; the ACER block codec; the Path123 archive;
the floor codec; the operator catalog; the hyper codec; the proofs of both archive chains, against foreign
archives too; the round trip of the arithmetic coder; Path 3's lockstep; the control lanes and the range of the
floor codec's payload; the hyper codec's hook; the operators of its catalog; the ACER codec's chain of records and its bodies; Path 2, the Path123 archive and the safety part of the
LZW refinement; the round trip of the floor codec's payload.

Left: nothing the provers reach; the liveness of the refinements stays with TLC.
