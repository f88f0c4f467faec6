---------------------------- MODULE MCFloorCodec ----------------------------
(***************************************************************************)
(* Payloads: two-bit bytes, a seven-bit register, four cells, at most      *)
(* three directions.  Archives: three floors, two sources, one of them     *)
(* empty; charges up to the width, so that totals and charged sizes        *)
(* overflow; archives of pack, and those with one stage that another       *)
(* program wrote.                                                          *)
(***************************************************************************)
EXTENDS FloorCodec, SequencesExt

\* Any function of the context will do; this one tells most contexts apart.
MCHash(c) == FoldLeft(LAMBDA v, b : 3 * v + b + 1, c[1][2] + c[2] + 2 * c[3] + c[4], c[5])

MCSeeds == {<<0, 3, 1>>, <<2, 1, 1>>}

\* Every payload of six bits (the rest reads as zeros), and the empty one.
MCForeign == {<<>>} \cup TupleOf({0, 1}, 6)

MCFloors == <<64, 256, 1024>>

MCSources == {[name |-> "a", size |-> 0], [name |-> "b", size |-> 2]}
=============================================================================
