------------------------------- MODULE MCLzw -------------------------------
(* Two symbols and a catalog that freezes after three insertions; every    *)
(* source of up to MaxSymbols symbols.                                     *)
EXTENDS Lzw, SequencesExt

MCSources == BoundedSeq({0, 1}, MaxSymbols)

\* Every stream of up to three codes, one of them out of range.
MCStreams == BoundedSeq(0 .. Capacity, 3)
=============================================================================
