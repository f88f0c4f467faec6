------------------------------ MODULE PathTwo ------------------------------
(***************************************************************************)
(* Path 2 of omega_path123.rs: pack_bytes_to_symbols cuts the bits of the  *)
(* input into symbols of the floor's width, encode_path2_crt replaces each *)
(* symbol by its residues modulo two coprime numbers, decode_path2_crt     *)
(* finds the symbol again by stepping through the numbers with the first   *)
(* residue, and unpack_symbols_to_bytes writes the bits back.  The decoder *)
(* is given the encoder's residues or an altered list of them.             *)
(***************************************************************************)
EXTENDS Integers, Sequences

CONSTANTS
    ByteBits,       \* bits of a byte (8)
    Floors,         \* [bits, first, second]: crt_moduli, one per floor
    Inputs(_),      \* the byte sequences to encode on a floor
    Alter(_, _)     \* on a floor, what a residue list may have become

ByteValues == 0 .. 2 ^ ByteBits - 1
ResidueValues == 0 .. 2 ^ (2 * ByteBits) - 1     \* u16
Limit(floor) == 2 ^ floor.bits
Product(floor) == floor.first * floor.second

ASSUME PathTwoAssumption ==
    /\ ByteBits \in Nat \ {0}
    /\ \A f \in Floors :
          /\ f.bits \in Nat \ {0} /\ f.first \in Nat \ {0} /\ f.second \in Nat \ {0}
          /\ Product(f) >= Limit(f)
          \* coprime: no multiple of both before their product
          /\ \A k \in 1 .. f.second - 1 : (k * f.first) % f.second # 0
          /\ Inputs(f) \subseteq Seq(ByteValues)

VARIABLES
    phase,      \* pack, encode, deliver, decode, search, unpack, done, or the
                \* error: residue, nosolution, outside, length, padding
    floor,      \* moduli and width in use
    original,   \* the bytes to encode
    symbols,    \* packed so far
    residues,   \* the encoder's residue pairs
    given,      \* the pairs handed to the decoder
    candidate,  \* of the search for the pair at hand
    restored,   \* symbols found so far
    unpacked    \* bits written back, and how many symbols they came from

crtVars == <<phase, floor, original, symbols, residues, given, candidate, restored, unpacked>>

CrtInit ==
    /\ phase = "pack"
    /\ floor \in Floors /\ original \in Inputs(floor)
    /\ symbols = <<>> /\ residues = <<>> /\ given = <<>>
    /\ candidate = 0 /\ restored = <<>>
    /\ unpacked = [bits |-> <<>>, symbols |-> 0]

-----------------------------------------------------------------------------
(* Packing and the residues.                                               *)

Bit(value, width, j) == (value \div 2 ^ (width - j)) % 2

\* Bit k of a byte sequence, from 0; zero past its end
BitOf(bytes, k) ==
    IF k < ByteBits * Len(bytes)
      THEN Bit(bytes[(k \div ByteBits) + 1], ByteBits, (k % ByteBits) + 1)
      ELSE 0

\* The number with the given bits, high to low
Number(bits) ==
    LET upTo[j \in 0 .. Len(bits)] == IF j = 0 THEN 0 ELSE 2 * upTo[j - 1] + bits[j]
    IN  upTo[Len(bits)]

SymbolAt(bytes, i, width) ==
    Number([j \in 1 .. width |-> BitOf(bytes, ((i - 1) * width + j) - 1)])

\* Mutant: the bits left over get no symbol
SymbolCountDown(bytes, width) == (ByteBits * bytes) \div width

SymbolCount(bytes, width) == (ByteBits * bytes + width - 1) \div width

Pair(symbol) == <<symbol % floor.first, symbol % floor.second>>

PackSymbol ==
    /\ phase = "pack"
    /\ IF Len(symbols) < SymbolCount(Len(original), floor.bits)
         THEN /\ symbols' = Append(symbols, SymbolAt(original, Len(symbols) + 1, floor.bits))
              /\ UNCHANGED phase
         ELSE phase' = "encode" /\ UNCHANGED symbols
    /\ UNCHANGED <<floor, original, residues, given, candidate, restored, unpacked>>

EncodeResidues ==
    /\ phase = "encode"
    /\ IF \A i \in 1 .. Len(symbols) : symbols[i] < Limit(floor)
         THEN /\ phase' = "deliver"
              /\ residues' = [i \in 1 .. Len(symbols) |-> Pair(symbols[i])]
         ELSE phase' = "outside" /\ UNCHANGED residues
    /\ UNCHANGED <<floor, original, symbols, given, candidate, restored, unpacked>>

\* What deserialize_crt can read: pairs of two-byte numbers
Readable(list) == list \in Seq(ResidueValues \X ResidueValues)

HandResidues ==
    /\ phase = "deliver"
    /\ phase' = "decode"
    /\ given' \in {residues} \cup {list \in Alter(floor, residues) : Readable(list)}
    /\ UNCHANGED <<floor, original, symbols, residues, candidate, restored, unpacked>>

-----------------------------------------------------------------------------
(* decode_path2_crt.                                                       *)

Current == given[Len(restored) + 1]

OpenPair ==
    /\ phase = "decode" /\ Len(restored) < Len(given)
    /\ phase' = IF Current[1] < floor.first /\ Current[2] < floor.second
               THEN "search" ELSE "residue"
    /\ candidate' = Current[1]
    /\ UNCHANGED <<floor, original, symbols, residues, given, restored, unpacked>>

Searching ==
    candidate < Product(floor) /\ candidate % floor.second # Current[2]

\* Mutant: the search steps by the other modulus
SearchOnBySecond ==
    /\ phase = "search" /\ Searching
    /\ candidate' = candidate + floor.second
    /\ UNCHANGED <<phase, floor, original, symbols, residues, given, restored, unpacked>>

\* Mutant: every step is taken from the residue
SearchOnFromResidue ==
    /\ phase = "search" /\ Searching
    /\ candidate' = Current[1] + floor.first
    /\ UNCHANGED <<phase, floor, original, symbols, residues, given, restored, unpacked>>

SearchOn ==
    /\ phase = "search" /\ Searching
    /\ candidate' = candidate + floor.first
    /\ UNCHANGED <<phase, floor, original, symbols, residues, given, restored, unpacked>>

SearchEnd ==
    /\ phase = "search" /\ ~Searching
    /\ IF candidate < Product(floor) /\ candidate < Limit(floor)
         THEN phase' = "decode" /\ restored' = Append(restored, candidate)
         ELSE /\ phase' = IF candidate < Product(floor) THEN "outside" ELSE "nosolution"
              /\ UNCHANGED restored
    /\ UNCHANGED <<floor, original, symbols, residues, given, candidate, unpacked>>

-----------------------------------------------------------------------------
(* unpack_symbols_to_bytes.                                                *)

\* The bits the declared length of the original asks for
Needed == ByteBits * Len(original)

BeginUnpack ==
    /\ phase = "decode" /\ Len(restored) = Len(given)
    /\ phase' = IF Len(restored) = SymbolCount(Len(original), floor.bits)
               THEN "unpack" ELSE "length"
    /\ UNCHANGED <<floor, original, symbols, residues, given, candidate, restored, unpacked>>

SymbolBits(symbol) == [j \in 1 .. floor.bits |-> Bit(symbol, floor.bits, j)]

Kept(written) ==
    IF Needed - Len(written) < floor.bits THEN Needed - Len(written) ELSE floor.bits

\* Mutant: the bits past the end are dropped unseen
UnpackSymbolUnpadded ==
    /\ phase = "unpack" /\ unpacked.symbols < Len(restored)
    /\ LET new == SymbolBits(restored[unpacked.symbols + 1])
           n == Kept(unpacked.bits)
       IN  unpacked' = [bits |-> unpacked.bits \o SubSeq(new, 1, n),
                      symbols |-> unpacked.symbols + 1]
    /\ UNCHANGED <<phase, floor, original, symbols, residues, given, candidate, restored>>

UnpackSymbol ==
    /\ phase = "unpack" /\ unpacked.symbols < Len(restored)
    /\ LET symbol == restored[unpacked.symbols + 1]
           new == SymbolBits(symbol)
           n == Kept(unpacked.bits)
       IN  IF symbol < Limit(floor) /\ \A j \in n + 1 .. floor.bits : new[j] = 0
             THEN /\ unpacked' = [bits |-> unpacked.bits \o SubSeq(new, 1, n),
                                symbols |-> unpacked.symbols + 1]
                  /\ UNCHANGED phase
             ELSE /\ phase' = IF symbol < Limit(floor) THEN "padding" ELSE "outside"
                  /\ UNCHANGED unpacked
    /\ UNCHANGED <<floor, original, symbols, residues, given, candidate, restored>>

UnpackEnd ==
    /\ phase = "unpack" /\ unpacked.symbols = Len(restored)
    /\ phase' = "done"
    /\ UNCHANGED <<floor, original, symbols, residues, given, candidate, restored, unpacked>>

OutputBytes ==
    [i \in 1 .. Len(unpacked.bits) \div ByteBits |->
        Number(SubSeq(unpacked.bits, (i - 1) * ByteBits + 1, i * ByteBits))]

CrtNext ==
    \/ PackSymbol \/ EncodeResidues
    \/ HandResidues
    \/ OpenPair \/ SearchOn \/ SearchEnd
    \/ BeginUnpack \/ UnpackSymbol \/ UnpackEnd

CrtSpec == CrtInit /\ [][CrtNext]_crtVars

\* A called function runs until it returns.
FairCrtSpec == CrtSpec /\ WF_crtVars(CrtNext)

-----------------------------------------------------------------------------
(* Properties.                                                             *)

\* The residues of the encoder are accepted and give back the input, the last
\* symbol filled up with zeros and all
HonestIsDecoded ==
    given = residues =>
        /\ phase \notin {"residue", "nosolution", "outside", "length", "padding"}
        /\ phase = "done" => OutputBytes = original

\* Whatever was done to the list: if it is accepted, it is the one list that
\* encodes the bytes it is decoded to.  Residues out of range, numbers outside
\* the floor, set padding bits and a wrong count are all refused.
OnlyCanonicalIsAccepted ==
    phase = "done" =>
        /\ Len(given) = SymbolCount(Len(OutputBytes), floor.bits)
        /\ \A i \in 1 .. Len(given) :
              given[i] = Pair(SymbolAt(OutputBytes, i, floor.bits))

\* The error for a pair without solution is never raised: the moduli are
\* coprime, and the step through the first residue meets every second one
EveryPairHasASolution == phase # "nosolution"

\* The search ends, on every pair of residues
Terminates ==
    <>(phase \in {"done", "residue", "nosolution", "outside", "length", "padding"})
=============================================================================
