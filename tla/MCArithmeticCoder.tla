------------------------- MODULE MCArithmeticCoder -------------------------
(* A 5-bit code register (Quarter 8, Top 31), probabilities in eighths.    *)
EXTENDS ArithmeticCoder

MCProbabilities == {1, 4, 7}
=============================================================================
