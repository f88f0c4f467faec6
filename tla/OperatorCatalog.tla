-------------------------- MODULE OperatorCatalog --------------------------
(***************************************************************************)
(* The forty reversible operators on sequences of symbols                  *)
(* (omega_operator_catalog.rs): eight compositions of R, N and Q, twelve   *)
(* sector rotations, twenty icosahedron lenses.  Ids are those of the      *)
(* code.  Every view but R, N and Q is a rearrangement of positions, which *)
(* count from zero: the position a symbol of the view is taken from.       *)
(***************************************************************************)
EXTENDS Integers, Sequences
LOCAL INSTANCE FiniteSets
LOCAL INSTANCE TLC

CONSTANT FloorBits      \* the widths of a symbol (6, 8, 10, 12)

ASSUME CatalogAssumption == \A bits \in FloorBits : bits \in Nat /\ bits % 2 = 0

Operators == 0 .. 39
Cube == 0 .. 7
Sectors == 8 .. 19
Lenses == 20 .. 39

\* The table gives every operator its own id as inverse_id.
InverseId(id) == id

Valid(id, bits, symbols) ==
    /\ id \in Operators
    /\ bits \in FloorBits
    /\ \A i \in DOMAIN symbols : symbols[i] < 2 ^ bits

Gathered(symbols, Source(_)) == [i \in DOMAIN symbols |-> symbols[Source(i - 1) + 1]]
-----------------------------------------------------------------------------
(* R reverses the sequence, N swaps the halves of a symbol, Q reverses     *)
(* each half.                                                              *)

ReverseBits(value, width) ==
    LET Reversed[k \in 0 .. width] ==
            IF k = 0 THEN 0 ELSE (2 * Reversed[k - 1]) + ((value \div 2 ^ (k - 1)) % 2)
    IN Reversed[width]

R(symbols) == [i \in DOMAIN symbols |-> symbols[Len(symbols) + 1 - i]]

N(bits, symbols) ==
    LET h == 2 ^ (bits \div 2)
    IN [i \in DOMAIN symbols |-> ((symbols[i] % h) * h) + ((symbols[i] \div h) % h)]

Q(bits, symbols) ==
    LET half == bits \div 2
        h == 2 ^ half
    IN [i \in DOMAIN symbols |->
           ReverseBits(symbols[i] \div h, half) * h + ReverseBits(symbols[i] % h, half)]

HasBit(mask, k) == (mask \div 2 ^ k) % 2 = 1

ApplyCube(mask, bits, symbols) ==
    LET r == IF HasBit(mask, 0) THEN R(symbols) ELSE symbols
        n == IF HasBit(mask, 1) THEN N(bits, r) ELSE r
    IN IF HasBit(mask, 2) THEN Q(bits, n) ELSE n
-----------------------------------------------------------------------------
(* A sector rotates each chunk of twelve, the last one by its own length.  *)

\* The chunk of width w that position i lies in: its start and its length.
ChunkStart(i, w) == i - (i % w)
ChunkLen(i, w, length) ==
    IF length - ChunkStart(i, w) < w THEN length - ChunkStart(i, w) ELSE w

SectorSource(id, length, i) ==
    LET start == ChunkStart(i, 12)
        n == ChunkLen(i, 12, length)
    IN start + (((i - start) + (id - 8)) % n)

\* Mutant: the rotation back uses the width of a full chunk.
SectorTargetFull(id, length, i) ==
    LET start == ChunkStart(i, 12)
        n == ChunkLen(i, 12, length)
    IN start + (((i - start) + 12 - (id - 8)) % n)

SectorTarget(id, length, i) ==
    LET start == ChunkStart(i, 12)
        n == ChunkLen(i, 12, length)
    IN start + (((i - start) + n - ((id - 8) % n)) % n)

ApplySector(id, symbols) ==
    LET Source(i) == SectorSource(id, Len(symbols), i) IN Gathered(symbols, Source)

InvertSector(id, symbols) ==
    LET Source(i) == SectorTarget(id, Len(symbols), i) IN Gathered(symbols, Source)
-----------------------------------------------------------------------------
(* A lens gathers each chunk of twenty by distance from a focal face.      *)

Faces == 0 .. 19
Vertices ==
    << {0, 11, 5}, {0, 5, 1}, {0, 1, 7}, {0, 7, 10}, {0, 10, 11},
       {1, 5, 9}, {5, 11, 4}, {11, 10, 2}, {10, 7, 6}, {7, 1, 8},
       {3, 9, 4}, {3, 4, 2}, {3, 2, 6}, {3, 6, 8}, {3, 8, 9},
       {4, 9, 5}, {2, 4, 11}, {6, 2, 10}, {8, 6, 7}, {9, 8, 1} >>

Adjacent == [f, g \in Faces |-> Cardinality(Vertices[f + 1] \cap Vertices[g + 1]) = 2]

Ascending == [i \in 1 .. 20 |-> i - 1]
Unseen == 255
Distances == [Faces -> 0 .. Unseen]

\* The loop of face_bfs_order: take a face, reach its unseen neighbours in order.
Search[queue \in Seq(Faces), distance \in Distances] ==
    IF queue = <<>> THEN distance
    ELSE LET face == Head(queue)
             IsNew(g) == Adjacent[face, g] /\ distance[g] = Unseen
         IN Search[Tail(queue) \o SelectSeq(Ascending, IsNew),
                   [g \in Faces |-> IF IsNew(g) THEN distance[face] + 1 ELSE distance[g]]]

\* Mutant: the faces just reached are taken first.
SearchDeep[queue \in Seq(Faces), distance \in Distances] ==
    IF queue = <<>> THEN distance
    ELSE LET face == Head(queue)
             IsNew(g) == Adjacent[face, g] /\ distance[g] = Unseen
         IN SearchDeep[SelectSeq(Ascending, IsNew) \o Tail(queue),
                       [g \in Faces |-> IF IsNew(g) THEN distance[face] + 1 ELSE distance[g]]]
DistanceDeep ==
    [focus \in Faces |-> SearchDeep[<<focus>>, [g \in Faces |-> IF g = focus THEN 0 ELSE Unseen]]]

Distance ==
    [focus \in Faces |-> Search[<<focus>>, [g \in Faces |-> IF g = focus THEN 0 ELSE Unseen]]]

FaceOrder ==
    [focus \in Faces |->
        LET Before(f, g) == \/ Distance[focus][f] < Distance[focus][g]
                            \/ Distance[focus][f] = Distance[focus][g] /\ f < g
        IN SortSeq(Ascending, Before)]

\* The order of a chunk of n symbols: the faces that exist in it.
LensOrder(id, n) ==
    LET Exists(f) == f < n IN SelectSeq(FaceOrder[id - 20], Exists)

\* Whatever the order of distance is, a chunk of n is gathered from each of its
\* places once.  (Nothing in this is a parameter: TLC decides it.)
ASSUME LensesArePermutations ==
    \A id \in Lenses, n \in 1 .. 20 :
        /\ LensOrder(id, n) \in [1 .. n -> 0 .. n - 1]
        /\ \A place \in 0 .. n - 1 : \E k \in 1 .. n : LensOrder(id, n)[k] = place

ApplyLens(id, symbols) ==
    LET Source(i) == LET start == ChunkStart(i, 20)
                         order == LensOrder(id, ChunkLen(i, 20, Len(symbols)))
                     IN start + order[i - start + 1]
    IN Gathered(symbols, Source)

\* Scatter: the symbol for place f is where f stands in the order.
InvertLens(id, symbols) ==
    LET Source(i) == LET start == ChunkStart(i, 20)
                         order == LensOrder(id, ChunkLen(i, 20, Len(symbols)))
                     IN start + (CHOOSE k \in DOMAIN order : order[k] = i - start) - 1
    IN Gathered(symbols, Source)
-----------------------------------------------------------------------------
Apply(id, bits, symbols) ==
    CASE id \in Cube -> ApplyCube(id, bits, symbols)
      [] id \in Sectors -> ApplySector(id, symbols)
      [] id \in Lenses -> ApplyLens(id, symbols)

Invert(id, bits, symbols) ==
    CASE id \in Cube -> ApplyCube(InverseId(id), bits, symbols)
      [] id \in Sectors -> InvertSector(id, symbols)
      [] id \in Lenses -> InvertLens(id, symbols)

\* Mutant: the map is used the other way round.
CanonicalWindowScattered(id, bits, symbols) ==
    IF id \in Cube THEN Apply(id, bits, symbols)
    ELSE LET view == Invert(id, 12, [i \in DOMAIN symbols |-> i - 1])
         IN [i \in DOMAIN symbols |-> symbols[view[i] + 1]]

\* apply_canonical_window of the hyper codec: the forty experts look at windows
\* of at most twenty symbols through the views of the identity.
CanonicalWindow(id, bits, symbols) ==
    IF id \in Cube THEN Apply(id, bits, symbols)
    ELSE LET view == Apply(id, 12, [i \in DOMAIN symbols |-> i - 1])
         IN [i \in DOMAIN symbols |-> symbols[view[i] + 1]]
=============================================================================
