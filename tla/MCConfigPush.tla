----------------------------- MODULE MCConfigPush -----------------------------
(* A small instance of ConfigPush for TLC.                                 *)
EXTENDS ConfigPush, TLC

CONSTANTS l1, l2, n1, p1, p2, g1, g2, o1

TwoLiberators == {l1, l2}
OneNode == {n1}
Profiles == {p1, p2}
Gateways == {g1, g2}
OneOut == {o1}
Second == {l2}
Symmetry == Permutations(Profiles) \cup Permutations(Gateways)
=============================================================================
