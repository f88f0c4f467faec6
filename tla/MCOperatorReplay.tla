-------------------------- MODULE MCOperatorReplay --------------------------
(* The four real widths and one unknown; lengths up to two lens chunks and  *)
(* one symbol more.  Every place holds its own number; the first place, one *)
(* inside each lens chunk and the one left over also hold the largest       *)
(* symbol, and for the smallest width the first one out of range.           *)
EXTENDS OperatorReplay

MCFeed(b, place) ==
    {place} \cup (IF place \in {0, 13, 26, 40} THEN {2 ^ b - 1} ELSE {})
            \cup (IF place = 0 /\ b = 6 THEN {2 ^ b} ELSE {})
=============================================================================
