---------------------------- MODULE TokenBucket ----------------------------
(***************************************************************************)
(* The calls per second of an inbound interconnection: verify_cps of       *)
(* callfunc.lua, run by the session of every inbound call, on every node.  *)
(* A node takes a time stamp from its own clock, asks Redis if the         *)
(* interconnection is blocked, and if not counts the calls of the rolling  *)
(* window in a transaction; one call too many blocks the interconnection.  *)
(*                                                                         *)
(*   now       the time, in ms                                             *)
(*   tokens    the sorted set 'realtime:token:bucket:<name>' of calls; the *)
(*             score of a call is its time stamp                           *)
(*   gone      when that key expires                                       *)
(*   blocked   when the key 'realtime:cps:violation:<name>' expires        *)
(*   pc, stamp, at   of each call: how far it is, its time stamp, and when *)
(*                   its transaction ran                                   *)
(***************************************************************************)
EXTENDS Sessions

CONSTANTS MaxCps,    \* cps of the capacity class: negative is unlimited
          Window,    \* ROLLING_WINDOW_TIME
          Block,     \* VIOLATED_BLOCK_TIME
          Delay,     \* bound on the time from the stamp to the transaction
          Skew       \* bound on the error of a node's clock

ASSUME TokenAssumption ==
    /\ MaxCps \in Int
    /\ Window \in Nat \ {0}
    /\ Block \in Nat \ {0}
    /\ Delay \in Nat
    /\ Skew \in Nat

VARIABLES tokens, gone, blocked, stamp, at

tokenVars == <<now, tokens, gone, blocked, pc, stamp, at>>

TokenState == {"new", "stamped", "extend", "count", "over", "denied", "passed", "unlimited"}

TokenTypeOK ==
    /\ now \in Nat
    /\ tokens \in SUBSET Call
    /\ gone \in Nat
    /\ blocked \in Nat
    /\ pc \in [Call -> TokenState]
    /\ stamp \in [Call -> Int]
    /\ at \in [Call -> Nat]

TokenInit ==
    /\ now = 0
    /\ tokens = {}
    /\ gone = 0
    /\ blocked = 0
    /\ pc = [c \in Call |-> "new"]
    /\ stamp = [c \in Call |-> 0]
    /\ at = [c \in Call |-> 0]

Pending(c) == pc[c] \in {"stamped", "count"}

(* Time goes on, but no call is delayed for more than Delay.               *)
TokenTick ==
    /\ now < Horizon
    /\ \A c \in Call : Pending(c) => now < at[c] + Delay
    /\ now' = now + 1
    /\ UNCHANGED <<tokens, gone, blocked, pc, stamp, at>>

(* timestamp = floor(1000*gettime()).  Until its transaction runs, at[c]   *)
(* is when the stamp was taken.                                            *)
Stamp(c) ==
    /\ pc[c] = "new"
    /\ Goto(c, "stamped")
    /\ \E t \in (now - Skew)..(now + Skew) : stamp' = [stamp EXCEPT ![c] = t]
    /\ at' = [at EXCEPT ![c] = now]
    /\ UNCHANGED <<now, tokens, gone, blocked>>

(* PTTL of the violation key: a blocked call is denied, and extends a      *)
(* block that has less than VIOLATED_BLOCK_TIME to go ...                  *)
Peek(c) ==
    /\ pc[c] = "stamped"
    /\ Goto(c, IF now < blocked
               THEN IF blocked - now < Block THEN "extend" ELSE "denied"
               ELSE IF MaxCps < 0 THEN "unlimited" ELSE "count")
    /\ UNCHANGED <<now, tokens, gone, blocked, stamp, at>>

(* ... with PSETEX, to three times that.                                   *)
Extend(c) ==
    /\ pc[c] = "extend"
    /\ blocked' = now + 3 * Block
    /\ Goto(c, "denied")
    /\ UNCHANGED <<now, tokens, gone, stamp, at>>

(* Mutant: calls older than half a window are removed.                     *)
RolledEarly(c) ==
    {d \in IF now <= gone THEN tokens ELSE {} : stamp[d] > stamp[c] - Window \div 2} \cup {c}

(* ZREMRANGEBYSCORE, ZADD: the calls in the bucket after the transaction.  *)
Rolled(c) ==
    {d \in IF now <= gone THEN tokens ELSE {} : stamp[d] > stamp[c] - Window} \cup {c}

(* Mutant: the key expires at the time before which calls are removed.     *)
CountAged(c) ==
    /\ pc[c] = "count"
    /\ tokens' = Rolled(c)
    /\ gone' = stamp[c] - Window
    /\ at' = [at EXCEPT ![c] = now]
    /\ Goto(c, IF Cardinality(tokens') > MaxCps THEN "over" ELSE "passed")
    /\ UNCHANGED <<now, blocked, stamp>>

(* ... ZCARD, PEXPIRE.                                                     *)
Count(c) ==
    /\ pc[c] = "count"
    /\ tokens' = Rolled(c)
    /\ gone' = now + 2 * Window
    /\ at' = [at EXCEPT ![c] = now]
    /\ Goto(c, IF Cardinality(tokens') > MaxCps THEN "over" ELSE "passed")
    /\ UNCHANGED <<now, blocked, stamp>>

(* PSETEX of the violation key.                                            *)
Punish(c) ==
    /\ pc[c] = "over"
    /\ blocked' = now + Block
    /\ Goto(c, "denied")
    /\ UNCHANGED <<now, tokens, gone, stamp, at>>

TokenNext ==
    \/ TokenTick
    \/ \E c \in Call : Stamp(c) \/ Peek(c) \/ Extend(c) \/ Count(c) \/ Punish(c)

TokenSpec == TokenInit /\ [][TokenNext]_tokenVars

-----------------------------------------------------------------------------
(* Properties.                                                             *)

(* The calls let through in the span of time that ends at t.               *)
PassedIn(span, t) == {c \in Call : pc[c] = "passed" /\ t - span < at[c] /\ at[c] <= t}

(* What clocks and delays leave of the rolling window.                     *)
Span == Window - Delay - 2 * Skew

(* However the sessions of all nodes interleave, no span of time sees more *)
(* than max_cps calls let through, when it is shorter than the window by   *)
(* the delay of a session and twice the error of a clock.                  *)
WithinSpan == \A t \in 0..now : MaxCps >= 0 => Cardinality(PassedIn(Span, t)) <= MaxCps
=============================================================================
