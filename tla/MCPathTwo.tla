------------------------------ MODULE MCPathTwo ------------------------------
(***************************************************************************)
(* The four floors of crt_moduli at their real size.  The floor of six     *)
(* bits takes inputs of up to two bytes, whose last symbol is padded; on   *)
(* the others one byte is enough to meet every pair of residues, of which  *)
(* some are out of range.                                                  *)
(***************************************************************************)
EXTENDS PathTwo

MCFloors ==
    {[bits |-> 6, first |-> 7, second |-> 11], [bits |-> 8, first |-> 17, second |-> 19],
     [bits |-> 10, first |-> 31, second |-> 37], [bits |-> 12, first |-> 61, second |-> 71]}

MCInputs(f) ==
    IF f.bits = 6
      THEN UNION {[1 .. n -> {0, 1, 129, 255}] : n \in 0 .. 2}
      ELSE {<<129>>}

\* One pair replaced by any other, the last one dropped, or one more
MCAlter(f, list) ==
    {[list EXCEPT ![i] = p] : i \in 1 .. Len(list), p \in (0 .. f.first) \X (0 .. f.second)}
        \cup {SubSeq(list, 1, Len(list) - 1), Append(list, <<0, 0>>)}
=============================================================================
