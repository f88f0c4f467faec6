--------------------------- MODULE MCRelicStream ---------------------------
(* Mask blocks of three bits that differ from block to block, chunks of up *)
(* to four bits: shorter than, as long as, and across a mask block.        *)
EXTENDS RelicStream, SequencesExt

MCMaskBit(b, o) == (b + o) % 3 = 0

MCChunks == {<<>>, <<1>>, <<0, 1>>, <<1, 1, 0>>, <<0, 1, 1, 1>>}
=============================================================================
