---------------------------- MODULE ExactReplay ----------------------------
(***************************************************************************)
(* What every codec of the repository promises (EXACT_REPLAY): symbols are *)
(* accepted one after the other, the source is sealed, and decoding hands  *)
(* back the sealed source, front to back, nothing added, lost or changed.  *)
(* Both sides may move by several symbols in one step (a chunk, or the     *)
(* phrase a dictionary code stands for).                                   *)
(***************************************************************************)
EXTENDS Naturals, Sequences

CONSTANT Symbols      \* the alphabet the codec accepts

VARIABLES source,     \* the symbols accepted so far
          sealed,     \* the encoder has been told that there are no more
          replayed    \* what the decoder has handed back

vars == <<source, sealed, replayed>>

Init ==
    /\ source = <<>>
    /\ sealed = FALSE
    /\ replayed = <<>>

Accept ==
    /\ ~sealed
    /\ source' \in Seq(Symbols)
    /\ Len(source') > Len(source)
    /\ SubSeq(source', 1, Len(source)) = source
    /\ UNCHANGED <<sealed, replayed>>

Seal ==
    /\ ~sealed
    /\ sealed' = TRUE
    /\ UNCHANGED <<source, replayed>>

Replay ==
    /\ sealed
    /\ \E n \in Len(replayed) + 1 .. Len(source) :
          replayed' = SubSeq(source, 1, n)
    /\ UNCHANGED <<source, sealed>>

Next == Accept \/ Seal \/ Replay

Spec == Init /\ [][Next]_vars

\* Once sealed, the whole source is eventually handed back.
FairSpec == Spec /\ WF_vars(Seal) /\ WF_vars(Replay)
=============================================================================
