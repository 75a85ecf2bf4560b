---------------------------- MODULE MCCallFlow ----------------------------
(* A small instance of CallFlow: two interconnections, each with a SIP     *)
(* code of its own that ends the failover.                                 *)
EXTENDS CallFlow

CONSTANTS i1, i2, s1, s2

MCIntcon == {i1, i2}
MCCode == {s1, s2}
MCStopCodes == [i \in MCIntcon |-> IF i = i1 THEN {s1} ELSE {s2}]

(* What manipulations set: every outcome stops, or only an answer does.    *)
MCStopStates == {DialStatus, {"SUCCESS"}}
===========================================================================
