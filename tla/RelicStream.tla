---------------------------- MODULE RelicStream ----------------------------
(***************************************************************************)
(* transform_chunks of relic_engine.py: a generator that XORs a stream of  *)
(* chunks with a mask made one block at a time, carrying the rest of a     *)
(* mask block from chunk to chunk.  A first generator routes the source, a *)
(* second one, fed the routed stream in other chunks, restores it.         *)
(***************************************************************************)
EXTENDS Integers, Sequences

CONSTANTS
    MaskBytes,      \* length of a mask block (a SHA-256 digest: 32)
    MaskBit(_, _),  \* is the bit at an offset of mask block b set (_mask_block)
    MaxBytes,       \* bound: length of the source
    Chunks          \* the chunks the caller may hand in while routing

Bits == {0, 1}

ASSUME StreamAssumption ==
    /\ MaskBytes \in Nat \ {0}
    /\ MaxBytes \in Nat
    /\ Chunks \subseteq Seq(Bits)

VARIABLES
    pass,           \* route, restore or done: which generator is running
    chunk,          \* the chunk it works on, <<>> between two chunks
    cursor,         \* how much of the chunk is transformed
    output,         \* the transformed part
    blockIndex,     \* the mask block to make next
    mask,           \* the block at hand, -1 when there is none yet
    maskOffset,     \* how much of it is used
    source,         \* everything handed to the first generator
    routed,         \* everything it yielded
    restored        \* everything the second generator yielded

generator == <<chunk, cursor, output, blockIndex, mask, maskOffset>>
vars == <<pass, chunk, cursor, output, blockIndex, mask, maskOffset,
          source, routed, restored>>

Init ==
    /\ pass = "route"
    /\ chunk = <<>> /\ cursor = 0 /\ output = <<>>
    /\ blockIndex = 0 /\ mask = -1 /\ maskOffset = 0
    /\ source = <<>> /\ routed = <<>> /\ restored = <<>>
-----------------------------------------------------------------------------
Xor(bit, maskBit) == IF maskBit THEN 1 - bit ELSE bit

MaskLength == IF mask = -1 THEN 0 ELSE MaskBytes

\* The next chunk arrives; an empty one yields an empty chunk.
Receive(c) ==
    /\ chunk = <<>>
    /\ chunk' = c
    /\ cursor' = 0
    /\ output' = <<>>
    /\ UNCHANGED <<pass, blockIndex, mask, maskOffset, routed, restored>>

ReceiveSource(c) ==
    /\ pass = "route"
    /\ Len(source) + Len(c) <= MaxBytes
    /\ Receive(c)
    /\ source' = source \o c

ReceiveRouted(n) ==
    /\ pass = "restore"
    /\ Receive(SubSeq(routed, Len(restored) + 1, Len(restored) + n))
    /\ UNCHANGED source

\* A new mask block when the one at hand is used up.
Refill ==
    /\ cursor < Len(chunk)
    /\ maskOffset >= MaskLength
    /\ mask' = blockIndex
    /\ blockIndex' = blockIndex + 1
    /\ maskOffset' = 0
    /\ UNCHANGED <<pass, chunk, cursor, output, source, routed, restored>>

\* As many bytes as the chunk and the mask block both still have.
Take ==
    IF Len(chunk) - cursor <= MaskLength - maskOffset
      THEN Len(chunk) - cursor
      ELSE MaskLength - maskOffset

Transform ==
    /\ cursor < Len(chunk)
    /\ maskOffset < MaskLength
    /\ output' = output \o
         [i \in 1 .. Take |-> Xor(chunk[cursor + i], MaskBit(mask, maskOffset + i - 1))]
    /\ cursor' = cursor + Take
    /\ maskOffset' = maskOffset + Take
    /\ UNCHANGED <<pass, chunk, blockIndex, mask, source, routed, restored>>

\* Mutant: the rest of the mask block is dropped with the chunk.
YieldFresh ==
    /\ chunk # <<>>
    /\ cursor = Len(chunk)
    /\ IF pass = "route"
         THEN routed' = routed \o output /\ UNCHANGED restored
         ELSE restored' = restored \o output /\ UNCHANGED routed
    /\ chunk' = <<>>
    /\ maskOffset' = MaskLength
    /\ UNCHANGED <<pass, cursor, output, blockIndex, mask, source>>

Yield ==
    /\ chunk # <<>>
    /\ cursor = Len(chunk)
    /\ IF pass = "route"
         THEN routed' = routed \o output /\ UNCHANGED restored
         ELSE restored' = restored \o output /\ UNCHANGED routed
    /\ chunk' = <<>>
    /\ UNCHANGED <<pass, cursor, output, blockIndex, mask, maskOffset, source>>

\* Mutant: the second generator goes on with the first one's blocks.
StartRestoreLate ==
    /\ pass = "route"
    /\ chunk = <<>>
    /\ pass' = "restore"
    /\ mask' = -1 /\ maskOffset' = 0
    /\ UNCHANGED <<chunk, cursor, output, blockIndex, source, routed, restored>>

\* The source has ended; a new generator starts from block 0.
StartRestore ==
    /\ pass = "route"
    /\ chunk = <<>>
    /\ pass' = "restore"
    /\ blockIndex' = 0 /\ mask' = -1 /\ maskOffset' = 0
    /\ UNCHANGED <<chunk, cursor, output, source, routed, restored>>

EndRestore ==
    /\ pass = "restore"
    /\ chunk = <<>>
    /\ Len(restored) = Len(routed)
    /\ pass' = "done"
    /\ UNCHANGED <<generator, source, routed, restored>>

Next ==
    \/ \E c \in Chunks : ReceiveSource(c)
    \/ \E n \in 1 .. Len(routed) - Len(restored) : ReceiveRouted(n)
    \/ Refill \/ Transform \/ Yield
    \/ StartRestore \/ EndRestore

Spec == Init /\ [][Next]_vars

\* A generator runs to its next yield, and the caller reads to the end.
FairSpec == Spec /\ WF_vars(Next)
-----------------------------------------------------------------------------
(* Properties.                                                             *)

MaskedAt(i) == MaskBit((i - 1) \div MaskBytes, (i - 1) % MaskBytes)

Consumed == IF pass = "route" THEN Len(routed) ELSE Len(restored)

\* Counters and buffers have their types, and no cursor runs past its buffer.
TypeOK ==
    /\ pass \in {"route", "restore", "done"}
    /\ chunk \in Seq(Bits)
    /\ cursor \in Nat /\ (chunk # <<>> => cursor <= Len(chunk))
    /\ output \in Seq(Bits)
    /\ blockIndex \in Nat
    /\ mask \in Nat \cup {-1}
    /\ maskOffset \in 0 .. MaskBytes
    /\ source \in Seq(Bits) /\ routed \in Seq(Bits) /\ restored \in Seq(Bits)

\* Whatever the chunks, byte i of the routed stream is byte i of the source
\* under bit i of the one mask stream (tests: chunk-boundary independence,
\* and a later byte never changes an earlier one).
ChunksDoNotMatter ==
    \A i \in 1 .. Len(routed) : routed[i] = Xor(source[i], MaskedAt(i))

\* A mask block is made only when a byte of it is needed: between chunks
\* exactly the blocks that cover what was transformed have been made.
NoBlockAhead ==
    chunk = <<>> =>
        blockIndex = (Consumed + MaskBytes - 1) \div MaskBytes

\* The restored stream is the source, from the front and in the end whole,
\* although the second generator sees other chunks than the first.
Replay == INSTANCE ExactReplay WITH
    Symbols <- Bits,
    source <- source,
    sealed <- pass # "route",
    replayed <- restored

ImplementsExactReplay == Replay!FairSpec
=============================================================================
