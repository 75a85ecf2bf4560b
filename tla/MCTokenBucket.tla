--------------------------- MODULE MCTokenBucket ---------------------------
(* Small instances of TokenBucket for TLC: a window of five ticks that     *)
(* lets two calls through.                                                 *)
EXTENDS TokenBucket, TLC

CONSTANTS c1, c2, c3, c4

FourCalls == {c1, c2, c3, c4}

Symmetry == Permutations(Call)
=============================================================================
