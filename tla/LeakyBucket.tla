---------------------------- MODULE LeakyBucket ----------------------------
(***************************************************************************)
(* The calls per second of an outbound interconnection: average_cps of     *)
(* callfunc.lua, called by main.lua for each route it tries.  A script run *)
(* by Redis as one step gives each call the time it may be dialled; the    *)
(* session sleeps until then, or gives the route up if that is too far.    *)
(*                                                                         *)
(*   now      the clock of Redis, in ms                                    *)
(*   class    the cps of the interconnection's capacity class              *)
(*   bucket   the key 'realtime:leaky:bucket:<name>': the last time given  *)
(*   expiry   when that key expires                                        *)
(*   pc, cps, slot   of each call: how far it is, the cps its session has  *)
(*                   read, and the time it was given                       *)
(***************************************************************************)
EXTENDS Sessions

CONSTANTS Cps,      \* the values the class may have: negative is unlimited
          Second    \* 1000 ms

Limit == {k \in Cps : k > 0}

(* math.ceil(1000/max_cps)                                                 *)
Leak(k) == (Second + k - 1) \div k

ASSUME LeakyAssumption ==
    /\ Cps \subseteq Int
    /\ Second \in Nat \ {0}

VARIABLES class, bucket, expiry, cps, slot

leakyVars == <<now, class, bucket, expiry, pc, cps, slot>>

LeakyState == {"new", "read", "waiting", "rejected", "sent", "failed"}

LeakyTypeOK ==
    /\ now \in Nat
    /\ class \in Cps
    /\ bucket \in Nat
    /\ expiry \in Nat
    /\ pc \in [Call -> LeakyState]
    /\ cps \in [Call -> Cps]
    /\ slot \in [Call -> Nat]

(* No key exists: it is as good as expired.                                *)
LeakyInit ==
    /\ now = 1
    /\ class \in Cps
    /\ bucket = 0
    /\ expiry = 0
    /\ pc = [c \in Call |-> "new"]
    /\ cps = [c \in Call |-> class]
    /\ slot = [c \in Call |-> 0]

LeakyTick ==
    /\ now < Horizon
    /\ now' = now + 1
    /\ UNCHANGED <<class, bucket, expiry, pc, cps, slot>>

(* An operator edits the capacity class.                                   *)
EditClass(k) ==
    /\ class' = k
    /\ UNCHANGED <<now, bucket, expiry, pc, cps, slot>>

(* get_defined_cps: HGET of the class.                                     *)
Read(c) ==
    /\ pc[c] = "new"
    /\ Goto(c, "read")
    /\ cps' = [cps EXCEPT ![c] = class]
    /\ UNCHANGED <<now, class, bucket, expiry, slot>>

(* Mutant: the values average_cps returns are taken in the wrong order.    *)
BypassSwapped(c) ==
    /\ pc[c] = "read"
    /\ cps[c] < 0
    /\ Goto(c, "sent")
    /\ slot' = [slot EXCEPT ![c] = cps[c]]
    /\ UNCHANGED <<now, class, bucket, expiry, cps>>

(* An unlimited interconnection is not shaped: the wait is 0.              *)
Bypass(c) ==
    /\ pc[c] = "read"
    /\ cps[c] < 0
    /\ Goto(c, "sent")
    /\ UNCHANGED <<now, class, bucket, expiry, cps, slot>>

(* With a cps of 0 the wait is infinite, Redis refuses it as a time to     *)
(* live, and the session dies of the error.                                *)
Fail(c) ==
    /\ pc[c] = "read"
    /\ cps[c] = 0
    /\ Goto(c, "failed")
    /\ UNCHANGED <<now, class, bucket, expiry, cps, slot>>

Later(s, t) == IF s < t THEN t ELSE s

(* Mutant: the time that has passed since the last call is taken off.      *)
NextCallDrained(k) ==
    IF now <= expiry THEN Later(bucket + Leak(k) - (now - bucket), now) ELSE now

(* nextcall of the script, for a call that shapes with a cps of k.  Redis  *)
(* lets a key expire once its time has passed.                             *)
NextCall(k) == IF now <= expiry THEN Later(bucket + Leak(k), now) ELSE now

(* math.ceil(waitms/leakyms): how many calls are ahead.                    *)
Ahead(k, wait) == (wait + Leak(k) - 1) \div Leak(k)

(* The script; main.lua gives the route up when the queue is longer than   *)
(* max_cps, and then the bucket keeps the time it gave.                    *)
Shape(c) ==
    LET k == cps[c]
        next == NextCall(k)
    IN
    /\ pc[c] = "read"
    /\ k > 0
    /\ bucket' = next
    /\ expiry' = next + Leak(k)
    /\ slot' = [slot EXCEPT ![c] = next]
    /\ Goto(c, IF Ahead(k, next - now) > k THEN "rejected" ELSE "waiting")
    /\ UNCHANGED <<now, class, cps>>

(* InLeg:sleep(waitms) is over.                                            *)
Send(c) ==
    /\ pc[c] = "waiting"
    /\ slot[c] <= now
    /\ Goto(c, "sent")
    /\ UNCHANGED <<now, class, bucket, expiry, cps, slot>>

LeakyNext ==
    \/ LeakyTick
    \/ \E k \in Cps : EditClass(k)
    \/ \E c \in Call : Read(c) \/ Bypass(c) \/ Fail(c) \/ Shape(c) \/ Send(c)

LeakySpec == LeakyInit /\ [][LeakyNext]_leakyVars

-----------------------------------------------------------------------------
(* Properties.                                                             *)

(* The calls the bucket has given a time, and those it has let through.    *)
Shaped == {c \in Call : pc[c] \in {"waiting", "rejected"} \/ (pc[c] = "sent" /\ cps[c] > 0)}
Passing == {c \in Shaped : pc[c] # "rejected"}

(* callfunc.lua:91 promises a constant rate: whatever the class was edited *)
(* to in between, and though the key expires, any two calls are given      *)
(* times at least the shortest gap of any class value apart.               *)
Spacing ==
    \A c, d \in Shaped : c # d =>
        \E k \in Limit : slot[d] >= slot[c] + Leak(k) \/ slot[c] >= slot[d] + Leak(k)

(* So the calls let through in any one second are no more than the largest *)
(* cps of the class, however many were waiting for it (average_cps,        *)
(* callfunc.lua:89-118, and the sleep of main.lua:147).                    *)
WithinCps ==
    \A t \in 0..now :
        LET calls == {c \in Passing : slot[c] \in t..(t + Second - 1)}
        IN  calls # {} => \E k \in Limit : Cardinality(calls) <= k
=============================================================================
