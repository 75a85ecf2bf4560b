--------------------------- MODULE MCLeakyBucket ---------------------------
(* Small instances of LeakyBucket for TLC: a second of six ticks, classes  *)
(* of two or three calls a second, unlimited, or none.                     *)
EXTENDS LeakyBucket, TLC

CONSTANTS c1, c2, c3, c4

FourCalls == {c1, c2, c3, c4}
AnyClass == {-1, 0, 2, 3}

Symmetry == Permutations(Call)
=============================================================================
