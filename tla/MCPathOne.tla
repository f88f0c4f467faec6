------------------------------ MODULE MCPathOne ------------------------------
(* Bytes 0 to 2: two tags and one byte that is no tag.                     *)
EXTENDS PathOne, SequencesExt


MCSources == BoundedSeq(Bytes, 7)
\* Accepted in all three modes; what was encoded does not matter to a decoder
\* that is handed something else.
MCProbes == {<<0, 0, 0>>}

\* Matches of every kind behind one literal: zero, short, overlapping, forward
MCTokens ==
    {<<Literal(1), Match(d, n), Literal(2)>> : d \in 0 .. 2, n \in 1 .. 3}
        \cup {<<Match(0, 2)>>, <<Literal(1)>>}

MCStreams == BoundedSeq(Bytes, 7)
=============================================================================
