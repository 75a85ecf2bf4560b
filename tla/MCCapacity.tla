----------------------------- MODULE MCCapacity -----------------------------
(* Small instances of Capacity for TLC: two nodes, two calls at the first  *)
(* node and one at the second, or one call at each for liveness.           *)
EXTENDS Capacity, TLC

CONSTANTS n1, n2, c1, c2, c3

MCNode == {n1, n2}
MCCall == {c1, c2, c3}
MCHome == (c1 :> n1) @@ (c2 :> n1) @@ (c3 :> n2)
TwoCalls == {c1, c3}
HomeOfTwo == (c1 :> n1) @@ (c3 :> n2)
Unlimited == -1
BothNodes == {n1, n2}
FirstNode == {n1}
FullList == {{n1, n2}}

(* The two calls of the first node are interchangeable.                    *)
Symmetry == Permutations({c1, c2})
=============================================================================
