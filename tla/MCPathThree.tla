---------------------------- MODULE MCPathThree ----------------------------
(* Three experts over two-bit symbols: the last symbol, the first of the   *)
(* window, and one that depends on the number of symbols (the shuffled     *)
(* lane).  Sources of up to four symbols, long enough for the window to   *)
(* move and for weights to reach zero and both limits.                     *)
EXTENDS PathThree, SequencesExt

MCExpert(e, window, n) ==
    IF window = <<>> THEN <<e % 2, 1>>
    ELSE CASE e = 1 -> Last(window)
           [] e = 2 -> Head(window)
           [] OTHER -> window[1 + (n % Len(window))]

MCSources == BoundedSeq(Symbols, 4)
=============================================================================
