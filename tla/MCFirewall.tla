------------------------------ MODULE MCFirewall ------------------------------
(* A small instance of Firewall for TLC.                                   *)
EXTENDS Firewall, TLC

CONSTANTS w1, w2, l1, l2, a1, a2

Workers == {w1, w2}
Liberators == {l1, l2}
Addrs == {a1, a2}
Second == {l2}
OneSet == <<"BlackHole">>
Symmetry == Permutations(Workers) \cup Permutations(Addrs)
=============================================================================
