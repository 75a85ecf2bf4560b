----------------------------- MODULE CallProofs -----------------------------
(* Proofs about CallFlow, for any interconnections, codes and number of    *)
(* routes.                                                                 *)
EXTENDS CallFlow, TLAPS

(* The phases of the script: before it has routes, while it tries them,    *)
(* and when it has tried them.                                             *)
Before == {"start", "inbound", "routing"}
Trying == {"attempt", "dialing", "judge"}
Tried == {"bridge", "bridging", "overwrite", "endcall"}

(* An answer stops the failover: what OneLeg needs of manipulations.       *)
Answers == \A S \in StopStates : "SUCCESS" \in S

AnswerStops == "SUCCESS" \in stop

(* The attempts so far.                                                    *)
Attempts ==
    /\ pc \in Before => /\ \A i \in Attempt : leg[i] = "none"
                        /\ routes = <<>>
    /\ pc \in Trying \cup Tried
       => /\ attempt <= Len(routes)
          /\ \A j \in 1..(attempt - 1) : told[j].status \notin {"none", "SUCCESS"}
    /\ \A i \in Attempt : leg[i] # "none" => i <= attempt
    /\ out # 0 => leg[out] # "none"
    /\ pc = "attempt" => leg[attempt] = "none"
    /\ pc = "judge" => /\ out = attempt
                       /\ told[attempt].status \in DialStatus
                       /\ leg[attempt] = "up" => told[attempt].status = "SUCCESS"

(* No leg is up in the last steps.                                         *)
Down ==
    /\ pc \in Before \cup {"overwrite", "endcall", "endsession", "done"}
       => \A i \in Attempt : leg[i] # "up"
    /\ pc = "done" => in = "down"

(* A cause tells what has happened.                                        *)
Explained(c) ==
    /\ c \in {"DISABLED_CONNECTION", "MAX_CONCURENT_CALL"}
       => routes = <<>> \/ told[Len(routes)].status = c
    /\ c = "empty" => told[attempt].status \in DialStatus

Causes ==
    /\ pc \in Before \cup Trying => libre \in {"empty", "MAX_QUEUE"}
    /\ pc \in Before => libre = "empty"
    /\ pc \in Tried => Explained(libre)
    /\ pc = "endsession" /\ in = "up" => Explained(libre)
    /\ sent # None => /\ pc \in {"endsession", "done", "error"}
                      /\ in = "down"
                      /\ Explained(sent)

Inv == /\ TypeOK /\ OneLeg /\ InOrder
       /\ AnswerStops /\ Attempts /\ Down /\ Causes

-----------------------------------------------------------------------------
(* A table answers routes, no more than there are attempts.                *)
LEMMA RoutedType ==
    ASSUME Routed PROVE routes' \in Seq(Intcon) /\ Len(routes') \in 1..MaxRoutes
<1>1. PICK n \in 1..MaxFound, navigator \in Intcon \cup {None} :
         \E found \in [1..n -> Intcon] :
            routes' = (IF navigator = None THEN <<>> ELSE <<navigator>>) \o found
  BY DEF Routed
<1>2. PICK found \in [1..n -> Intcon] :
         routes' = (IF navigator = None THEN <<>> ELSE <<navigator>>) \o found
  BY <1>1
<1>3. MaxFound \in Nat \ {0} /\ n \in Nat /\ n >= 1 /\ n <= MaxFound
  BY CallAssumption DEF CallAssumption
<1>4. found \in Seq(Intcon) /\ Len(found) = n
  BY <1>2, <1>3
<1>5. CASE navigator = None
  BY <1>2, <1>3, <1>4, <1>5 DEF MaxRoutes
<1>6. CASE navigator # None
  <2>1. routes' = <<navigator>> \o found /\ navigator \in Intcon
    BY <1>2, <1>6
  <2> QED
    BY <2>1, <1>3, <1>4 DEF MaxRoutes
<1> QED
  BY <1>5, <1>6

(* The next attempt is one of the routes.                                  *)
LEMMA EndFailoverType ==
    ASSUME TypeOK, EndFailover
    PROVE  attempt' \in Attempt /\ attempt' <= Len(routes) + 1
<1>1. MaxFound \in Nat \ {0} /\ Len(routes) \in Nat
  BY CallAssumption DEF CallAssumption, TypeOK
<1> QED
  BY <1>1 DEF TypeOK, EndFailover, LastRoute, Attempt, MaxRoutes

LEMMA InitType == Init => TypeOK
<1> SUFFICES ASSUME Init PROVE TypeOK
  OBVIOUS
<1>1. MaxFound \in Nat \ {0}
  BY CallAssumption DEF CallAssumption
<1>2. leg \in [Attempt -> {"none", "up", "down"}]
  BY DEF Init
<1>3. Waiting \in [status : DialStatus \cup Skips \cup {"none"},
                   code : Code \cup {None}]
  BY DEF Waiting
<1>4. told \in [Attempt -> [status : DialStatus \cup Skips \cup {"none"},
                            code : Code \cup {None}]]
  BY <1>3 DEF Init
<1>5. routes = <<>> /\ attempt = 1
  BY DEF Init
<1>6. Len(routes) = 0 /\ routes \in Seq(Intcon)
  BY <1>5
<1>7. attempt \in Attempt /\ attempt <= Len(routes) + 1 /\ Len(routes) <= MaxRoutes
  BY <1>1, <1>5, <1>6 DEF Attempt, MaxRoutes
<1>8. libre \in Cause /\ out \in 0..MaxRoutes
  BY <1>1 DEF Init, Cause, MaxRoutes
<1>9. stop \in SUBSET DialStatus
  BY DEF Init, DialStatus, DefaultStop, Failing
<1> QED
  BY <1>2, <1>4, <1>6, <1>7, <1>8, <1>9 DEF Init, TypeOK

LEMMA StepType == TypeOK /\ [Next]_vars => TypeOK'
<1> SUFFICES ASSUME TypeOK, [Next]_vars PROVE TypeOK'
  OBVIOUS
<1> USE DEF TypeOK, legs, loop, causes, Goto
<1>1. CASE Start \/ Bridge \/ Raise
  BY <1>1 DEF Start, Bridge, Raise
<1>2. CASE RefuseInbound \/ NoRoute
  BY <1>2 DEF RefuseInbound, NoRoute, Cause
<1>3. CASE Normalize
  BY <1>3, CallAssumption DEF CallAssumption, Normalize
<1>4. CASE Routed
  <2>1. Len(routes') \in Nat /\ 1 <= Len(routes') /\ Len(routes') <= MaxRoutes
    BY <1>4, RoutedType, CallAssumption DEF CallAssumption, MaxRoutes
  <2>2. attempt' \in Attempt /\ attempt' <= Len(routes') + 1
    BY <1>4, <2>1, CallAssumption DEF CallAssumption, Routed, Attempt, MaxRoutes
  <2> QED
    BY <1>4, <2>1, <2>2, RoutedType DEF Routed
<1>5. CASE Skip
  <2>1. attempt' \in Attempt /\ attempt' <= Len(routes) + 1
    BY <1>5, EndFailoverType DEF Skip
  <2>2. PICK why \in Skips :
           /\ told' = [told EXCEPT ![attempt].status = why]
           /\ libre' = IF LastRoute \/ why = "MAX_QUEUE" THEN why ELSE libre
    BY <1>5 DEF Skip
  <2>3. libre' \in Cause
    BY <2>2 DEF Cause
  <2>4. told' \in [Attempt -> [status : DialStatus \cup Skips \cup {"none"},
                               code : Code \cup {None}]]
    BY <2>2
  <2>5. /\ UNCHANGED <<in, leg, routes, out, nsh, stop, hmap, sent>>
        /\ pc' \in {"bridge", "attempt"}
    BY <1>5 DEF Skip, EndFailover
  <2> QED
    BY <2>1, <2>3, <2>4, <2>5
<1>6. CASE Dial
  BY <1>6, CallAssumption DEF CallAssumption, Dial
<1>7. CASE Judge
  <2>1. attempt' \in Attempt /\ attempt' <= Len(routes) + 1
    BY <1>7, EndFailoverType DEF Judge
  <2> QED
    BY <1>7, <2>1 DEF Judge, EndFailover
<1>8. ASSUME NEW status \in DialStatus, NEW code \in Code \cup {None},
             Dialled(status, code)
      PROVE  TypeOK'
  <2>1. out' \in 0..MaxRoutes
    BY <1>8, CallAssumption DEF CallAssumption, Dialled, Attempt, MaxRoutes
  <2>2. told' \in [Attempt -> [status : DialStatus \cup Skips \cup {"none"},
                               code : Code \cup {None}]]
    BY <1>8 DEF Dialled
  <2>3. leg' \in [Attempt -> {"none", "up", "down"}] /\ nsh' \in Code \cup {None}
    BY <1>8 DEF Dialled
  <2> QED
    BY <1>8, <2>1, <2>2, <2>3 DEF Dialled
<1>9. CASE Answered \/ Failed \/ Cancelled
  BY <1>8, <1>9 DEF Answered, Failed, Cancelled, DialStatus
<1>10. CASE Unbridge
  BY <1>10 DEF Unbridge
<1>11. CASE Overwrite
  BY <1>11 DEF Overwrite, Cause
<1>12. CASE EndCall \/ EndSession
  BY <1>12 DEF EndCall, EndSession, HangUpIn
<1>13. CASE Collect \/ CallerHangsUp
  BY <1>13 DEF Collect, CallerHangsUp
<1>14. CASE CalleeHangsUp
  BY <1>14 DEF CalleeHangsUp
<1>15. CASE UNCHANGED vars
  BY <1>15 DEF vars
<1> QED
  BY <1>1, <1>2, <1>3, <1>4, <1>5, <1>6, <1>7, <1>9, <1>10, <1>11, <1>12,
     <1>13, <1>14, <1>15 DEF Next, Script, Switch

(* The variables of main.lua keep their types, and the attempt stays       *)
(* within the routes that it has found.                                    *)
THEOREM TypeCorrect == Spec => []TypeOK
BY InitType, StepType, PTL DEF Spec

-----------------------------------------------------------------------------
(* The strengthened invariant: no leg is up when a call begins.            *)
LEMMA InitInv == Init => Inv
<1> SUFFICES ASSUME Init PROVE Inv
  OBVIOUS
<1>1. TypeOK
  BY InitType
<1>2. /\ pc = "start" /\ routes = <<>> /\ attempt = 1 /\ libre = "empty"
      /\ sent = None /\ stop = DefaultStop
      /\ \A i \in Attempt : leg[i] = "none"
  BY DEF Init
<1>3. OneLeg /\ InOrder /\ Down
  BY <1>2 DEF OneLeg, InOrder, Down, Before
<1>4. AnswerStops
  BY <1>2 DEF AnswerStops, DefaultStop
<1>5. Attempts /\ Causes
  BY <1>1, <1>2 DEF Init, Attempts, Causes, Before, Trying, Tried
<1> QED
  BY <1>1, <1>3, <1>4, <1>5 DEF Inv

(* Each step of the script, of FreeSWITCH and of the parties keeps it.  A  *)
(* leg that is up stops the failover (AnswerStops), so the script goes on  *)
(* to another attempt only when no leg is up.                              *)
LEMMA StepInv ==
    ASSUME Answers, Inv, [Next]_vars PROVE Inv'
<1>1. TypeOK'
  BY StepType DEF Inv
<1> USE <1>1, CallAssumption
    DEF CallAssumption, Inv, TypeOK, OneLeg, InOrder, AnswerStops, Attempts,
        Down, Causes, Explained, Before, Trying, Tried, Attempt, MaxRoutes,
        DialStatus, Failing, Skips, Refusals, legs, loop, causes, Goto, Route
<1>2. CASE Start
  BY <1>2, SMTT(20) DEF Start
<1>3. CASE RefuseInbound
  BY <1>3, SMTT(20) DEF RefuseInbound
<1>4. CASE NoRoute
  BY <1>4, SMTT(20) DEF NoRoute
<1>5. CASE Normalize
  BY <1>5, SMTT(20) DEF Normalize, Answers
<1>6. CASE Routed
  BY <1>6, SMTT(20) DEF Routed
<1>7. CASE Skip
  BY <1>7, SMTT(20) DEF Skip, EndFailover, LastRoute
<1>8. CASE Dial
  BY <1>8, SMTT(20) DEF Dial, Answers
<1>9. CASE Answered
  BY <1>9, SMTT(20) DEF Answered, Dialled
<1>10. CASE Failed
  BY <1>10, SMTT(20) DEF Failed, Dialled
<1>11. CASE Cancelled
  BY <1>11, SMTT(20) DEF Cancelled, Dialled
<1>12. CASE Judge
  <2>1. /\ told[attempt].status \in DialStatus
        /\ leg[attempt] = "up" => told[attempt].status = "SUCCESS"
        /\ \A i \in Attempt : i # attempt => leg[i] # "up"
    BY <1>12, SMTT(20) DEF Judge
  <2>2. CASE told[attempt].status \in stop \/ nsh \in StopCodes[Route]
    <3>1. /\ pc' = "bridge"
          /\ UNCHANGED <<legs, loop, causes, sent, told>>
      BY <1>12, <2>2 DEF Judge
    <3>2. OneLeg' /\ InOrder'
      BY <1>12, <2>1, <2>2, <3>1, SMTT(20) DEF Judge
    <3> QED
      BY <1>12, <2>1, <3>1, <3>2, SMTT(20) DEF Judge
  <2>3. CASE ~(told[attempt].status \in stop \/ nsh \in StopCodes[Route])
    <3>0. told[attempt].status # "SUCCESS"
      BY <2>3
    <3>1. EndFailover /\ UNCHANGED <<legs, routes, out, nsh, causes, sent, told>>
      BY <1>12, <2>3 DEF Judge
    <3>2. \A i \in Attempt : leg[i] # "up"
      BY <2>1, <3>0
    <3>3. CASE LastRoute
      BY <1>12, <2>1, <3>1, <3>2, <3>3, SMTT(30) DEF Judge, EndFailover, LastRoute
    <3>4. CASE ~LastRoute
      BY <1>12, <2>1, <3>0, <3>1, <3>2, <3>4, SMTT(30)
      DEF Judge, EndFailover, LastRoute
    <3> QED
      BY <3>3, <3>4
  <2> QED
    BY <2>2, <2>3
<1>13. CASE Bridge
  BY <1>13, SMTT(20) DEF Bridge, Held
<1>14. CASE Unbridge
  <2>1. /\ pc = "bridging" /\ pc' = "overwrite" /\ in' \in {in, "down"}
        /\ leg' = [leg EXCEPT ![out] = "down"]
        /\ UNCHANGED <<loop, causes, sent, told>>
    BY <1>14, SMTT(20) DEF Unbridge
  <2>2. \A i \in Attempt : leg[i] = "up" => i = out
    BY <2>1
  <2>3. \A i \in Attempt : /\ leg'[i] # "up"
                           /\ leg'[i] # "none" => leg[i] # "none"
    BY <2>1, <2>2
  <2> QED
    BY <2>1, <2>3, SMTT(20)
<1>15. CASE Overwrite
  BY <1>15, SMTT(20) DEF Overwrite
<1>16. CASE EndCall
  BY <1>16, SMTT(20) DEF EndCall, HangUpIn
<1>17. CASE EndSession
  BY <1>17, SMTT(20) DEF EndSession, HangUpIn, Held
<1>18. CASE Raise
  BY <1>18, SMTT(20) DEF Raise
<1>19. CASE Collect
  BY <1>19, SMTT(20) DEF Collect
<1>20. CASE CallerHangsUp
  BY <1>20, SMTT(20) DEF CallerHangsUp
<1>21. CASE CalleeHangsUp
  BY <1>21, SMTT(20) DEF CalleeHangsUp
<1>22. CASE UNCHANGED vars
  BY <1>22, SMTT(20) DEF vars
<1> QED
  BY <1>2, <1>3, <1>4, <1>5, <1>6, <1>7, <1>8, <1>9, <1>10, <1>11, <1>12,
     <1>13, <1>14, <1>15, <1>16, <1>17, <1>18, <1>19, <1>20, <1>21, <1>22
  DEF Next, Script, Switch

(* It holds in all that main.lua can reach.                                *)
LEMMA InvHolds == ASSUME Answers PROVE Spec => []Inv
BY Answers, InitInv, StepInv, PTL DEF Spec

(* Where an answer stops the failover, main.lua never dials another route  *)
(* while a leg is up, and OutLeg is that leg from then on.                 *)
THEOREM OneLegHolds == ASSUME Answers PROVE Spec => []OneLeg
<1>1. Inv => OneLeg
  BY DEF Inv
<1> QED
  BY Answers, <1>1, InvHolds, PTL

(* Where an answer stops the failover, the routes are tried in the order   *)
(* of the table, each after those before it were skipped or failed, and    *)
(* the loop ends early for the reasons of the failover only.               *)
THEOREM RoutesInOrder == ASSUME Answers PROVE Spec => []InOrder
<1>1. Inv => InOrder
  BY DEF Inv
<1> QED
  BY Answers, <1>1, InvHolds, PTL

(* What X-LIBRE-HANGUP-CAUSE says of a call that is hung up by main.lua    *)
(* has happened to the call.                                               *)
THEOREM CauseIsExplained == ASSUME Answers PROVE Spec => []CauseExplained
<1>1. Inv => CauseExplained
  <2>1. {"DISABLED_CONNECTION", "MAX_CONCURENT_CALL", "empty"} \subseteq Cause
    BY DEF Cause, Refusals
  <2>2. None \notin Cause
    BY CallAssumption DEF CallAssumption
  <2> QED
    BY <2>1, <2>2 DEF Inv, Causes, Explained, CauseExplained
<1> QED
  BY Answers, <1>1, InvHolds, PTL

(* main.lua comes to its end only with both legs down, whoever hung up     *)
(* first and whichever routes it tried.                                    *)
THEOREM LegsReleased == ASSUME Answers PROVE Spec => []AllReleased
<1>1. Inv => AllReleased
  BY DEF Inv, Down, AllReleased
<1> QED
  BY Answers, <1>1, InvHolds, PTL

-----------------------------------------------------------------------------
(* That the legs are released in the end is for TLC: it needs fairness.    *)
(* But no call can keep the script for ever: each route takes three steps  *)
(* at most, and the rest of main.lua eight.  This many steps are left, of  *)
(* the script or of FreeSWITCH that it waits for.                          *)
StepsLeft ==
    LET others == 3 * (Len(routes) - attempt) IN
    CASE pc = "start" -> 3 * MaxRoutes + 8
      [] pc = "inbound" -> 3 * MaxRoutes + 7
      [] pc = "routing" -> 3 * MaxRoutes + 6
      [] pc = "attempt" -> others + 8
      [] pc = "dialing" -> others + 7
      [] pc = "judge" -> others + 6
      [] pc = "bridge" -> 5
      [] pc = "bridging" -> 4
      [] pc = "overwrite" -> 3
      [] pc = "endcall" -> 2
      [] pc = "endsession" -> 1
      [] pc \in {"done", "error"} -> 0

Progress == Script \/ Answered \/ Failed \/ Cancelled \/ Unbridge

(* While routes are tried, the attempt is one of them.                     *)
LoopInv == pc \in Trying \cup Tried => attempt <= Len(routes)

LEMMA LoopStep == TypeOK /\ LoopInv /\ [Next]_vars => LoopInv'
<1> SUFFICES ASSUME TypeOK, LoopInv, [Next]_vars PROVE LoopInv'
  OBVIOUS
<1> USE DEF TypeOK, LoopInv, Trying, Tried, legs, loop, causes, Goto
<1>1. CASE Start \/ RefuseInbound \/ NoRoute \/ Normalize \/ Raise
  BY <1>1 DEF Start, RefuseInbound, NoRoute, Normalize, Raise
<1>2. CASE Routed
  <2>1. Len(routes') \in 1..MaxRoutes /\ attempt' = 1 /\ MaxFound \in Nat
    BY <1>2, RoutedType, CallAssumption DEF Routed, CallAssumption
  <2> QED
    BY <2>1 DEF MaxRoutes
<1>3. CASE Skip \/ Judge
  BY <1>3 DEF Skip, Judge, EndFailover, LastRoute, Attempt
<1>4. CASE Dial \/ Answered \/ Failed \/ Cancelled
  BY <1>4 DEF Dial, Answered, Failed, Cancelled, Dialled
<1>5. CASE Bridge \/ Unbridge \/ Overwrite \/ EndCall \/ EndSession
  BY <1>5 DEF Bridge, Unbridge, Overwrite, EndCall, EndSession
<1>6. CASE Collect \/ CallerHangsUp \/ CalleeHangsUp \/ UNCHANGED vars
  BY <1>6 DEF Collect, CallerHangsUp, CalleeHangsUp, vars
<1> QED
  BY <1>1, <1>2, <1>3, <1>4, <1>5, <1>6 DEF Next, Script, Switch

LEMMA StepsType ==
    TypeOK /\ LoopInv => /\ StepsLeft \in 0..(3 * MaxRoutes + 8)
                         /\ StepsLeft = 0 <=> pc \in {"done", "error"}
<1> SUFFICES ASSUME TypeOK, LoopInv
             PROVE  /\ StepsLeft \in 0..(3 * MaxRoutes + 8)
                    /\ StepsLeft = 0 <=> pc \in {"done", "error"}
  OBVIOUS
<1>1. MaxRoutes \in Nat /\ MaxRoutes >= 2
  BY CallAssumption DEF CallAssumption, MaxRoutes
<1>2. attempt \in Nat /\ attempt >= 1 /\ Len(routes) \in Nat /\ Len(routes) <= MaxRoutes
  BY <1>1 DEF TypeOK, Attempt
<1>3. pc \in Trying => attempt <= Len(routes)
  BY DEF LoopInv
<1>4. CASE pc \in Trying
  <2>1. 3 * (Len(routes) - attempt) \in 0..(3 * MaxRoutes)
    BY <1>1, <1>2, <1>3, <1>4
  <2>2. StepsLeft - 3 * (Len(routes) - attempt) \in 6..8
    BY <1>2, <1>4 DEF StepsLeft, Trying
  <2>3. StepsLeft \in Int
    BY <1>2, <1>4 DEF StepsLeft, Trying
  <2> QED
    BY <1>1, <1>2, <1>4, <2>1, <2>2, <2>3 DEF Trying
<1>5. CASE pc \in Before
  <2>1. StepsLeft \in {3 * MaxRoutes + 8, 3 * MaxRoutes + 7, 3 * MaxRoutes + 6}
    BY <1>5 DEF StepsLeft, Before
  <2> QED
    BY <1>1, <1>5, <2>1 DEF Before
<1>6. CASE pc \in Tried \cup {"endsession"}
  <2>1. StepsLeft \in 1..5
    BY <1>6 DEF StepsLeft, Tried
  <2> QED
    BY <1>1, <1>6, <2>1 DEF Tried
<1>7. CASE pc \in {"done", "error"}
  <2>1. StepsLeft = 0
    BY <1>7 DEF StepsLeft
  <2> QED
    BY <1>1, <1>7, <2>1
<1> QED
  BY <1>4, <1>5, <1>6, <1>7 DEF TypeOK, Before, Trying, Tried

LEMMA StepsShrink ==
    ASSUME TypeOK, TypeOK', LoopInv, LoopInv', Progress PROVE StepsLeft' < StepsLeft
<1>1. MaxRoutes \in Nat /\ MaxRoutes >= 2
  BY CallAssumption DEF CallAssumption, MaxRoutes
<1>2. /\ attempt \in Nat /\ attempt >= 1 /\ Len(routes) \in Nat /\ Len(routes) <= MaxRoutes
      /\ pc \in Trying => attempt <= Len(routes)
  BY <1>1 DEF TypeOK, Attempt, LoopInv
<1>0. CASE Raise
  <2>1. pc' = "error" /\ pc \notin {"done", "error"}
    BY <1>0 DEF Raise
  <2>2. StepsLeft \in Nat /\ StepsLeft # 0
    BY <2>1, StepsType
  <2>3. StepsLeft' = 0
    BY <2>1 DEF StepsLeft
  <2> QED
    BY <2>2, <2>3
<1> USE <1>1, <1>2 DEF StepsLeft, Goto, Trying, legs, loop
<1>3. CASE Start \/ RefuseInbound \/ Normalize \/ NoRoute
  BY <1>3 DEF Start, RefuseInbound, Normalize, NoRoute
<1>4. CASE Routed
  <2>1. pc = "routing" /\ pc' = "attempt" /\ attempt' = 1
    BY <1>4 DEF Routed
  <2>2. Len(routes') \in Nat /\ Len(routes') <= MaxRoutes
    BY <1>4, RoutedType
  <2> QED
    BY <2>1, <2>2
<1>5. CASE Skip
  BY <1>5 DEF Skip, EndFailover, LastRoute
<1>6. CASE Dial \/ Answered \/ Failed \/ Cancelled
  BY <1>6 DEF Dial, Answered, Failed, Cancelled, Dialled
<1>7. CASE Judge
  BY <1>7 DEF Judge, EndFailover, LastRoute
<1>8. CASE Bridge \/ Unbridge \/ Overwrite \/ EndCall \/ EndSession
  BY <1>8 DEF Bridge, Unbridge, Overwrite, EndCall, EndSession
<1> QED
  BY <1>0, <1>3, <1>4, <1>5, <1>6, <1>7, <1>8 DEF Progress, Script

(* Whoever hangs up when and whatever fails, each step of the script, and  *)
(* each of FreeSWITCH that it waits for, brings its end nearer: it comes   *)
(* to it, or to an error, in 3 * MaxRoutes + 8 of them at most.            *)
THEOREM ScriptRunsOut ==
    Spec => /\ [](StepsLeft \in 0..(3 * MaxRoutes + 8)
                  /\ (StepsLeft = 0 <=> pc \in {"done", "error"}))
            /\ [][/\ Progress => StepsLeft' < StepsLeft
                  /\ ~Progress => StepsLeft' = StepsLeft]_vars
<1> DEFINE A == /\ Progress => StepsLeft' < StepsLeft
                /\ ~Progress => StepsLeft' = StepsLeft
           B == /\ StepsLeft \in 0..(3 * MaxRoutes + 8)
                /\ StepsLeft = 0 <=> pc \in {"done", "error"}
<1>1. Init => TypeOK /\ LoopInv
  BY InitType DEF Init, LoopInv, Trying, Tried
<1>2. TypeOK /\ LoopInv /\ [Next]_vars => (TypeOK /\ LoopInv)' /\ [A]_vars
  <2> SUFFICES ASSUME TypeOK, LoopInv, [Next]_vars
               PROVE  (TypeOK /\ LoopInv)' /\ [A]_vars
    OBVIOUS
  <2>1. TypeOK' /\ LoopInv'
    BY StepType, LoopStep
  <2>2. CASE Progress
    <3>1. StepsLeft \in 0..(3 * MaxRoutes + 8)
      BY StepsType
    <3>2. (StepsLeft \in 0..(3 * MaxRoutes + 8))'
      BY <2>1, StepsType, PTL
    <3>3. StepsLeft' < StepsLeft
      BY <2>1, <2>2, StepsShrink
    <3> QED
      BY <2>1, <2>2, <3>3
  <2>3. CASE ~Progress
    <3>1. UNCHANGED <<pc, routes, attempt>>
      BY <2>3 DEF Next, Progress, Switch, Collect, CallerHangsUp, CalleeHangsUp, vars, loop
    <3>2. StepsLeft' = StepsLeft
      BY <3>1 DEF StepsLeft
    <3> QED
      BY <2>1, <2>3, <3>2
  <2> QED
    BY <2>2, <2>3
<1>3. TypeOK /\ LoopInv => B
  BY StepsType
<1> QED
  BY <1>1, <1>2, <1>3, PTL DEF Spec
===============================================================================
