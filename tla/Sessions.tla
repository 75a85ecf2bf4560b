------------------------------ MODULE Sessions ------------------------------
(***************************************************************************)
(* What LeakyBucket and TokenBucket share: the calls whose sessions run    *)
(* the limiters of callfunc.lua, step by step, as time goes on.            *)
(*                                                                         *)
(*   now   the time, in ms                                                 *)
(*   pc    of each call: how far its session is                            *)
(***************************************************************************)
EXTENDS Integers, FiniteSets

CONSTANTS Call,     \* the calls
          Horizon   \* bound on the time

ASSUME CallAssumption ==
    /\ IsFiniteSet(Call)
    /\ Horizon \in Nat

VARIABLES now, pc

Goto(c, state) == pc' = [pc EXCEPT ![c] = state]
=============================================================================
