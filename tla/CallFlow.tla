------------------------------ MODULE CallFlow ------------------------------
(***************************************************************************)
(* What callng/main.lua does with one call: it checks the inbound leg,     *)
(* finds routes, tries them one after the other, connects the leg that is  *)
(* answered, and at last makes sure that both legs are released.  Callers, *)
(* callees and FreeSWITCH act at any time, and any command may raise an    *)
(* error, which ends the script in its pcall.                              *)
(*                                                                         *)
(*   in       the inbound leg, InLeg                                       *)
(*   leg      the outbound leg of each attempt                             *)
(*   pc       where the script is                                          *)
(*   routes   the interconnections to try                                  *)
(*   attempt  the attempt at hand, an index of routes                      *)
(*   out      the attempt whose leg OutLeg holds, or 0                     *)
(*   nsh      nshcause, the last SIP code that an attempt has told         *)
(*   stop     LIBRE_NOFAILOVER_CALL_STATE or its default                   *)
(*   hmap     the codes that LIBRE_HCAUSE_HMAP has a cause for             *)
(*   libre    LIBRE_HANGUP_CAUSE ("empty" at first, a normal clearing);    *)
(*            HANGUP_CAUSE is set together with it                         *)
(*   sent     the cause that the inbound leg was hung up with, or None     *)
(*   told     for each attempt, why it was skipped or how its dial ended,  *)
(*            and the SIP code: what the caller should hear of             *)
(***************************************************************************)
EXTENDS Integers, Sequences

CONSTANTS Intcon,      \* outbound interconnections
          MaxFound,    \* how many routes a routing table may answer
          Code,        \* SIP codes that tell why a dial failed
          StopCodes,   \* nofailover_sip_codes of each interconnection
          StopStates,  \* what stop may be set to by a manipulation
          None         \* nothing

VARIABLES in, leg, pc, routes, attempt, out, nsh, stop, hmap, libre, sent, told

legs == <<in, leg>>
loop == <<routes, attempt, out, nsh>>
causes == <<stop, hmap, libre>>
vars == <<legs, pc, loop, causes, sent, told>>

(* Outcomes of a dial: others than these are as one or the other.          *)
Failing == {"USER_BUSY", "NORMAL_TEMPORARY_FAILURE"}
DialStatus == {"SUCCESS", "ORIGINATOR_CANCEL"} \cup Failing
DefaultStop == {"SUCCESS", "USER_BUSY", "ORIGINATOR_CANCEL"}

Refusals == {"DISABLED_CONNECTION", "MAX_CONCURENT_CALL", "MAX_CPS"}
Skips == {"DISABLED_CONNECTION", "MAX_CONCURENT_CALL", "MAX_QUEUE"}
Cause == Refusals \cup Skips
         \cup {"ROUTE_NOT_FOUND", "BLOCK_CALL", "MAPPED", "empty"}

MaxRoutes == MaxFound + 1
Attempt == 1..MaxRoutes
Waiting == [status |-> "none", code |-> None]

CallAssumption ==
    /\ MaxFound \in Nat \ {0}
    /\ StopCodes \in [Intcon -> SUBSET Code]
    /\ StopStates \subseteq SUBSET DialStatus
    /\ None \notin Code \cup Cause \cup Intcon

ASSUME CallAssumption

-----------------------------------------------------------------------------
Goto(from, to) == pc = from /\ pc' = to

(* The inbound leg is hung up by the script, with its cause.               *)
HangUpIn ==
    /\ in' = "down"
    /\ sent' = IF in = "up" THEN libre ELSE sent

-----------------------------------------------------------------------------
(* The inbound leg.                                                        *)

Start ==
    /\ Goto("start", IF in = "up" THEN "inbound" ELSE "endsession")
    /\ UNCHANGED <<legs, loop, causes, sent, told>>

RefuseInbound ==
    /\ Goto("inbound", "endsession")
    /\ libre' \in Refusals
    /\ UNCHANGED <<legs, loop, stop, hmap, sent, told>>

(* The call passes, and the manipulations of the inbound interconnection   *)
(* may set what stops the failover, and which codes have a cause.          *)
Normalize ==
    /\ Goto("inbound", "routing")
    /\ stop' \in StopStates \cup {stop}
    /\ hmap' \in SUBSET Code
    /\ UNCHANGED <<legs, loop, libre, sent, told>>

NoRoute ==
    /\ Goto("routing", "endsession")
    /\ libre' \in {"ROUTE_NOT_FOUND", "BLOCK_CALL"}
    /\ UNCHANGED <<legs, loop, stop, hmap, sent, told>>

(* tosets leaves each route once; the navigator of the table comes before  *)
(* them, and may be one of them.                                           *)
Routed ==
    /\ Goto("routing", "attempt")
    /\ \E n \in 1..MaxFound, navigator \in Intcon \cup {None} :
          \E found \in [1..n -> Intcon] :
             /\ \A i, j \in 1..n : found[i] = found[j] => i = j
             /\ routes' = (IF navigator = None THEN <<>> ELSE <<navigator>>)
                          \o found
    /\ attempt' = 1
    /\ UNCHANGED <<legs, out, nsh, causes, sent, told>>

-----------------------------------------------------------------------------
(* The loop of attempts.                                                   *)

Route == routes[attempt]
LastRoute == attempt >= Len(routes)

(* Mutant: the loop goes one attempt too far.                              *)
EndFailoverLate ==
    /\ pc' = IF attempt > Len(routes) THEN "bridge" ELSE "attempt"
    /\ attempt' = attempt + 1

EndFailover ==
    /\ pc' = IF LastRoute THEN "bridge" ELSE "attempt"
    /\ attempt' = IF LastRoute THEN attempt ELSE attempt + 1

(* Mutant: the cause is set whether or not other routes follow.            *)
SkipTelling ==
    /\ pc = "attempt"
    /\ \E why \in Skips :
          /\ told' = [told EXCEPT ![attempt].status = why]
          /\ libre' = why
    /\ EndFailover
    /\ UNCHANGED <<legs, routes, out, nsh, stop, hmap, sent>>

(* A route that is disabled, has all its calls, or too many of them wait:  *)
(* in the last case the cause is set though other routes follow.           *)
Skip ==
    /\ pc = "attempt"
    /\ \E why \in Skips :
          /\ told' = [told EXCEPT ![attempt].status = why]
          /\ libre' = IF LastRoute \/ why = "MAX_QUEUE" THEN why ELSE libre
    /\ EndFailover
    /\ UNCHANGED <<legs, routes, out, nsh, stop, hmap, sent>>

(* The script sleeps until its turn, chooses a gateway, and dials; the     *)
(* manipulations of the route may set the same as those of the inbound.    *)
Dial ==
    /\ Goto("attempt", "dialing")
    /\ stop' \in StopStates \cup {stop}
    /\ hmap' \in SUBSET Code
    /\ leg' = [leg EXCEPT ![attempt] = "up"]
    /\ UNCHANGED <<in, loop, libre, sent, told>>

(* A dial is over: the answer is kept in OutLeg in place of the one before.*)
Dialled(status, code) ==
    /\ Goto("dialing", "judge")
    /\ out' = attempt
    /\ told' = [told EXCEPT ![attempt] = [status |-> status, code |-> code]]
    /\ leg' = [leg EXCEPT ![attempt] = IF status = "SUCCESS" THEN "up" ELSE "down"]
    /\ nsh' = IF code = None THEN nsh ELSE code
    /\ UNCHANGED <<in, routes, attempt, causes, sent>>

Answered == in = "up" /\ Dialled("SUCCESS", None)

Failed ==
    /\ in = "up"
    /\ \E status \in Failing, code \in Code \cup {None} : Dialled(status, code)

Cancelled == in = "down" /\ Dialled("ORIGINATOR_CANCEL", None)

(* Mutant: only the SIP code stops the failover.                           *)
JudgeByCode ==
    /\ pc = "judge"
    /\ IF nsh \in StopCodes[Route]
       THEN pc' = "bridge" /\ UNCHANGED attempt
       ELSE EndFailover
    /\ UNCHANGED <<legs, routes, out, nsh, causes, sent, told>>

(* Mutant: a dial that fails ends the failover.                            *)
JudgeOnce ==
    /\ Goto("judge", "bridge")
    /\ UNCHANGED <<legs, loop, causes, sent, told>>

Judge ==
    /\ pc = "judge"
    /\ IF told[attempt].status \in stop \/ nsh \in StopCodes[Route]
       THEN pc' = "bridge" /\ UNCHANGED attempt
       ELSE EndFailover
    /\ UNCHANGED <<legs, routes, out, nsh, causes, sent, told>>

-----------------------------------------------------------------------------
(* Both legs.                                                              *)

Held == out # 0 /\ leg[out] = "up"

Bridge ==
    /\ Goto("bridge", IF Held THEN "bridging" ELSE "overwrite")
    /\ UNCHANGED <<legs, loop, causes, sent, told>>

(* The bridge ends with one of its legs.  hangup_after_bridge makes        *)
(* FreeSWITCH hang up the inbound leg, if it was bridged; the outbound leg *)
(* is hung up by the script.                                               *)
Unbridge ==
    /\ Goto("bridging", "overwrite")
    /\ in = "down" \/ ~Held
    /\ in' \in {in, "down"}
    /\ leg' = [leg EXCEPT ![out] = "down"]
    /\ UNCHANGED <<loop, causes, sent, told>>

Overwrite ==
    /\ Goto("overwrite", "endcall")
    /\ libre' = IF nsh \in hmap THEN "MAPPED" ELSE libre
    /\ UNCHANGED <<legs, loop, stop, hmap, sent, told>>

EndCall ==
    /\ Goto("endcall", "endsession")
    /\ HangUpIn
    /\ UNCHANGED <<leg, loop, causes, told>>

(* Mutant: the inbound leg is taken to be down.                            *)
EndSessionOut ==
    /\ Goto("endsession", "done")
    /\ leg' = IF Held THEN [leg EXCEPT ![out] = "down"] ELSE leg
    /\ UNCHANGED <<in, sent, loop, causes, told>>

EndSession ==
    /\ Goto("endsession", "done")
    /\ HangUpIn
    /\ leg' = IF Held THEN [leg EXCEPT ![out] = "down"] ELSE leg
    /\ UNCHANGED <<loop, causes, told>>

(* An error: the pcall logs it, and the script ends.                       *)
Raise ==
    /\ pc \notin {"dialing", "bridging", "done", "error"}
    /\ pc' = "error"
    /\ UNCHANGED <<legs, loop, causes, sent, told>>

-----------------------------------------------------------------------------
(* FreeSWITCH hangs up what a script that failed has left behind.          *)
Collect ==
    /\ pc = "error"
    /\ in' = "down"
    /\ leg' = [i \in Attempt |-> IF leg[i] = "up" THEN "down" ELSE leg[i]]
    /\ UNCHANGED <<pc, loop, causes, sent, told>>

CallerHangsUp ==
    /\ in = "up"
    /\ in' = "down"
    /\ UNCHANGED <<leg, pc, loop, causes, sent, told>>

CalleeHangsUp ==
    /\ \E i \in Attempt : /\ leg[i] = "up"
                          /\ ~(pc = "dialing" /\ i = attempt)
                          /\ leg' = [leg EXCEPT ![i] = "down"]
    /\ UNCHANGED <<in, pc, loop, causes, sent, told>>

Script == \/ Start \/ RefuseInbound \/ Normalize \/ NoRoute \/ Routed
          \/ Skip \/ Dial \/ Judge
          \/ Bridge \/ Overwrite \/ EndCall \/ EndSession \/ Raise

Switch == Answered \/ Failed \/ Cancelled \/ Unbridge \/ Collect

Init ==
    /\ in \in {"up", "down"}
    /\ leg = [i \in Attempt |-> "none"]
    /\ pc = "start"
    /\ routes = <<>>
    /\ attempt = 1
    /\ out = 0
    /\ nsh = None
    /\ stop = DefaultStop
    /\ hmap = {}
    /\ libre = "empty"
    /\ sent = None
    /\ told = [i \in Attempt |-> Waiting]

Next == Script \/ Switch \/ CallerHangsUp \/ CalleeHangsUp

(* The script goes on, a dial ends (originate_timeout), and FreeSWITCH     *)
(* does its part; nobody has to hang up.                                   *)
Fairness == WF_vars(Script) /\ WF_vars(Switch)

Spec == Init /\ [][Next]_vars /\ Fairness

-----------------------------------------------------------------------------
TypeOK ==
    /\ in \in {"up", "down"}
    /\ leg \in [Attempt -> {"none", "up", "down"}]
    /\ pc \in {"start", "inbound", "routing", "attempt", "dialing", "judge",
               "bridge", "bridging", "overwrite", "endcall", "endsession",
               "done", "error"}
    /\ routes \in Seq(Intcon) /\ Len(routes) <= MaxRoutes
    /\ attempt \in Attempt /\ attempt <= Len(routes) + 1
    /\ out \in 0..MaxRoutes
    /\ nsh \in Code \cup {None}
    /\ stop \in SUBSET DialStatus
    /\ hmap \in SUBSET Code
    /\ libre \in Cause
    /\ sent \in Cause \cup {None}
    /\ told \in [Attempt -> [status : DialStatus \cup Skips \cup {"none"},
                             code : Code \cup {None}]]

(* The script loses no leg, if an answer stops the failover: while an      *)
(* outbound leg is up, OutLeg holds it, or it is being dialled.  Another   *)
(* attempt never replaces it.                                              *)
OneLeg ==
    \A i \in Attempt :
       leg[i] = "up" => \/ pc = "error"
                        \/ i = attempt /\ pc = "dialing"
                        \/ i = attempt /\ i = out

(* Each route is tried in its turn, after all those before it were skipped *)
(* or have failed; and unless an attempt said to stop, or an error ended   *)
(* the script, all are tried.                                              *)
InOrder ==
    /\ \A i \in Attempt :
          leg[i] # "none" => /\ i <= attempt
                             /\ \A j \in 1..(i - 1) :
                                   told[j].status \notin {"none", "SUCCESS"}
    /\ pc \in {"bridge", "bridging", "overwrite", "endcall"}
       => \/ attempt = Len(routes)
          \/ told[attempt].status \in stop
          \/ nsh \in StopCodes[Route]

(* What the caller's leg is hung up with has happened to this call: a      *)
(* refusal was the last route's, or the call's before any route; and a     *)
(* normal clearing means that the last attempt was dialled.                *)
CauseExplained ==
    /\ sent \in {"DISABLED_CONNECTION", "MAX_CONCURENT_CALL"}
       => routes = <<>> \/ told[Len(routes)].status = sent
    /\ sent = "empty" => told[attempt].status \in DialStatus

(* When the script has come to its end, all legs are down.                 *)
AllReleased ==
    pc = "done" => in = "down" /\ \A i \in Attempt : leg[i] # "up"

(* Once the caller is gone, whatever the script is at, the outbound legs   *)
(* are released in the end.                                                *)
CallerGone == in = "down" ~> \A i \in Attempt : leg[i] # "up"
=============================================================================
