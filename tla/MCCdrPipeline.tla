--------------------------- MODULE MCCdrPipeline ---------------------------
(* Small instances of CdrPipeline for TLC: two records, two liberator      *)
(* processes, and the sets of faults the runs are about.                   *)
EXTENDS CdrPipeline, TLC

CONSTANTS u1, u2, l1, l2

TwoCdrs == {u1, u2}
TwoLiberators == {l1, l2}
OneLiberator == {l1}

(* All that can go wrong; all but what can delete or forge the only copy;  *)
(* and what liberators get over.                                           *)
EveryFault == FaultKind
NoDamage == FaultKind \ {"expiry", "ack", "refine", "disk"}
Refusals == {"http", "ack", "nordb"}

Symmetry == Permutations({u1, u2}) \cup Permutations({l1, l2})
=============================================================================
