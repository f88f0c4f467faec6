---------------------------- MODULE MCHyperCodec ----------------------------
(***************************************************************************)
(* Payloads: four-bit symbols over three-bit bytes, windows of three       *)
(* symbols, a reset every three; strings of up to six bytes (six: four and *)
(* a half symbols).                                                        *)
(* Archives: three of the floors, two sources, one of them empty; archives *)
(* of pack, and those with one stage, or two, that another program wrote.  *)
(***************************************************************************)
EXTENDS HyperCodec

\* Any hash will do; this one repeats books, so that some are drawn again.
MCDraw(operator, nonce) ==
    <<3 * operator + 6 * nonce, 7 * (operator % 8) + 11 * nonce>>

MCSwap(position, n, index) == (3 * position + n + index) % (index + 1)

MCInputs ==
    UNION {[1 .. n -> {0, 7}] : n \in 0 .. 6} \cup UNION {[1 .. n -> 0 .. 7] : n \in 1 .. 2}

MCFloors == <<64, 256, 1024>>

MCSources == {[name |-> "a", size |-> 0], [name |-> "b", size |-> 2]}
=============================================================================
