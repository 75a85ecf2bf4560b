----------------------------- MODULE CdrProofs -----------------------------
(***************************************************************************)
(* Proofs about CdrPipeline, for any number of records and liberators: its *)
(* types, the single owner of a record, that details outlive the saving of *)
(* a record, that a lossless pipeline loses none, that the pipeline        *)
(* implements CdrDelivery, and that a handler makes an end of its record   *)
(* in a bounded number of steps.                                           *)
(***************************************************************************)
EXTENDS CdrPipeline, TLAPS

(* The initial state is well typed.                                        *)
LEMMA TypeInit == Init => TypeOK
<1> SUFFICES ASSUME Init
             PROVE  TypeOK
  OBVIOUS
<1>1. Idle \in MasterType
  BY DEF Idle, MasterType
<1>2. Fresh(None) \in HandlerType
  BY CdrAssumption DEF Fresh, HandlerType, HandlerState
<1>3. [Fresh(None) EXCEPT !.pc = "none"] \in HandlerType
  BY <1>2 DEF HandlerType, HandlerState
<1>4. <<>> \in Seq(Cdr)
  OBVIOUS
<1>5. QED
  BY <1>1, <1>3, <1>4 DEF TypeOK, Init, ReportState

(* What a node does keeps the types.                                       *)
LEMMA TypeReport ==
  ASSUME TypeOK, NEW u \in Cdr,
         \/ Report(u) \/ ReportUuid(u) \/ ReportDetail(u)
         \/ ReportLocal(u) \/ ReportFails(u) \/ Expire(u)
  PROVE  TypeOK'
<1>1. Append(queue, u) \in Seq(Cdr)
  BY DEF TypeOK
<1> USE <1>1 DEF TypeOK, ReportState, rdb, sinks
<1>2. CASE Report(u) \/ ReportUuid(u) \/ ReportDetail(u) \/ ReportLocal(u)
  BY <1>2 DEF Report, ReportUuid, ReportDetail, ReportLocal
<1>3. CASE ReportFails(u) \/ Expire(u)
  BY <1>3 DEF ReportFails, Expire
<1>4. QED
  BY <1>2, <1>3

(* What a CDRMaster does keeps the types.                                  *)
LEMMA TypeMaster ==
  ASSUME TypeOK, NEW l \in Liberator, Master(l) \/ MasterFault(l)
  PROVE  TypeOK'
<1>1. master[l] \in MasterType
  BY DEF TypeOK
<1>2. \A u \in Cdr : [pc |-> "popped", uuid |-> u, stop |-> master[l].stop] \in MasterType
  BY <1>1 DEF MasterType, Holding
<1>3. [pc |-> "loop", uuid |-> None, stop |-> master[l].stop] \in MasterType
  BY <1>1 DEF MasterType, Holding
<1>4. master[l].pc \in Holding =>
        /\ master[l].uuid \in Cdr
        /\ [pc |-> "marked", uuid |-> master[l].uuid, stop |-> master[l].stop] \in MasterType
        /\ [pc |-> "missing", uuid |-> master[l].uuid, stop |-> master[l].stop] \in MasterType
  BY <1>1 DEF MasterType, Holding
<1>5. Fresh(l) \in HandlerType
  BY CdrAssumption DEF Fresh, HandlerType, HandlerState
<1>6. queue # <<>> => Head(queue) \in Cdr /\ Tail(queue) \in Seq(Cdr)
  BY DEF TypeOK
<1> USE DEF TypeOK, Become, rdb, sinks
<1>14. [pc |-> "blpop", uuid |-> None, stop |-> master[l].stop] \in MasterType
  BY <1>1 DEF MasterType, Holding
<1>7. CASE Begin(l)
  BY <1>7, <1>14 DEF Begin, MasterGoto
<1>8. CASE Pop(l)
  BY <1>8, <1>2, <1>6 DEF Pop, MasterGoto
<1>9. CASE Mark(l)
  BY <1>9, <1>4 DEF Mark, MasterGoto, MasterAt, Holding
<1>10. CASE StartHandler(l)
  BY <1>10, <1>3, <1>4, <1>5 DEF StartHandler, MasterGoto, MasterAt, Holding
<1>11. CASE FindMissing(l)
  BY <1>11, <1>4 DEF FindMissing, MasterGoto, MasterAt, Holding
<1>12. CASE Timeout(l) \/ Unmark(l) \/ MasterFault(l)
  BY <1>12, <1>3 DEF Timeout, Unmark, MasterFault, MasterGoto
<1>13. QED
  BY <1>7, <1>8, <1>9, <1>10, <1>11, <1>12 DEF Master

(* What a CDRHandler does keeps the types.                                 *)
LEMMA TypeHandler ==
  ASSUME TypeOK, NEW u \in Cdr, Handler(u)
  PROVE  TypeOK'
<1>1. handler[u] \in HandlerType /\ http[u] \in Nat
  BY DEF TypeOK
<1>2. \A ok \in BOOLEAN : [handler[u] EXCEPT !.pc = "save", !.whole = ok] \in HandlerType
  BY <1>1 DEF HandlerType, HandlerState
<1>3. /\ [handler[u] EXCEPT !.pc = "disk"] \in HandlerType
      /\ [handler[u] EXCEPT !.pc = "disk", !.saved = TRUE] \in HandlerType
      /\ [handler[u] EXCEPT !.pc = "end"] \in HandlerType
  BY <1>1 DEF HandlerType, HandlerState
<1>4. [handler[u] EXCEPT !.pc = "clean", !.attempt = 0] \in HandlerType
  <2>1. 0 \in 0..MaxRetry
    BY CdrAssumption
  <2>2. QED
    BY <1>1, <2>1 DEF HandlerType, HandlerState
<1>5. Retrying(u) => handler[u].attempt + 1 \in 0..MaxRetry
  <2>1. handler[u].attempt \in 0..MaxRetry
    BY <1>1 DEF HandlerType
  <2>2. QED
    BY <2>1, CdrAssumption DEF Retrying
<1>6. Retrying(u) => /\ [handler[u] EXCEPT !.attempt = @ + 1] \in HandlerType
                     /\ [handler[u] EXCEPT !.saved = FALSE, !.attempt = @ + 1] \in HandlerType
  BY <1>1, <1>5 DEF HandlerType
<1>7. \A k \in 0..Endpoints : http[u] + k \in Nat /\ http[u] + k + 1 \in Nat
  BY <1>1, CdrAssumption
<1>8. /\ \A k \in IF "ack" \in Faults THEN 0..(Endpoints - 1) ELSE {0} : k \in 0..Endpoints
      /\ \A k \in IF "ack" \in Faults THEN 0..Endpoints ELSE {0} : k \in 0..Endpoints
  BY CdrAssumption
<1> USE DEF TypeOK, Become, rdb, sinks
<1>9. CASE Refine(u)
  BY <1>2, <1>9 DEF Refine
<1>10. CASE Saved(u)
  BY <1>3, <1>7, <1>8, <1>10 DEF Saved
<1>11. CASE NotSaved(u)
  <2>1. handler' \in [Cdr -> HandlerType]
    BY <1>6, <1>11 DEF NotSaved
  <2>2. http' \in [Cdr -> Nat]
    BY <1>7, <1>8, <1>11 DEF NotSaved
  <2>3. QED
    BY <2>1, <2>2, <1>11 DEF NotSaved
<1>12. CASE SaveOver(u) \/ Clean(u) \/ CleanOver(u)
  BY <1>3, <1>12 DEF SaveOver, Clean, CleanOver
<1>13. CASE FileSave(u)
  BY <1>4, <1>13 DEF FileSave
<1>14. CASE NotCleaned(u)
  <2>1. handler' \in [Cdr -> HandlerType]
    BY <1>6, <1>14 DEF NotCleaned
  <2>2. QED
    BY <2>1, <1>14 DEF NotCleaned
<1>15. QED
  BY <1>9, <1>10, <1>11, <1>12, <1>13, <1>14 DEF Handler

(* Stops, crashes and restarts keep the types.                             *)
LEMMA TypeProcess ==
  ASSUME TypeOK, NEW l \in Liberator, Stop(l) \/ MasterExit(l) \/ Crash(l) \/ Restart(l)
  PROVE  TypeOK'
<1>1. \A v \in Cdr : /\ handler[v] \in HandlerType
                     /\ [handler[v] EXCEPT !.stop = TRUE] \in HandlerType
                     /\ [handler[v] EXCEPT !.pc = "dead"] \in HandlerType
  BY DEF TypeOK, HandlerType, HandlerState
<1>2. /\ [master[l] EXCEPT !.stop = TRUE] \in MasterType
      /\ [pc |-> "down", uuid |-> None, stop |-> master[l].stop] \in MasterType
      /\ Idle \in MasterType
  BY DEF TypeOK, MasterType, Holding, Idle
<1> USE DEF TypeOK, Become, rdb, sinks
<1>3. CASE Stop(l)
  BY <1>1, <1>2, <1>3 DEF Stop
<1>4. CASE Crash(l)
  BY <1>1, <1>2, <1>4 DEF Crash, MasterGoto
<1>5. CASE MasterExit(l) \/ Restart(l)
  BY <1>2, <1>5 DEF MasterExit, Restart, MasterGoto
<1>6. QED
  BY <1>3, <1>4, <1>5

(* Every step keeps the types.                                             *)
LEMMA TypeStep == TypeOK /\ [Next]_vars => TypeOK'
<1> SUFFICES ASSUME TypeOK, [Next]_vars
             PROVE  TypeOK'
  OBVIOUS
<1>1. CASE UNCHANGED vars
  BY <1>1 DEF TypeOK, vars
<1>2. QED
  BY <1>1, TypeReport, TypeMaster, TypeHandler, TypeProcess DEF Next

(* Every state component stays within its type.                            *)
THEOREM TypeCorrect == Spec => []TypeOK
  BY TypeInit, TypeStep, PTL DEF Spec

-----------------------------------------------------------------------------
(* RPUSH adds one record to the queue.                                     *)
LEMMA Pushed ==
  ASSUME TypeOK, NEW u \in Cdr, queue' = Append(queue, u), ~Queued(u), QueuedOnce
  PROVE  /\ \A v \in Cdr : Queued(v)' <=> Queued(v) \/ v = u
         /\ QueuedOnce'
<1>1. /\ Len(queue) \in Nat
      /\ Len(queue') = Len(queue) + 1
      /\ \A i \in 1..Len(queue) : queue'[i] = queue[i]
      /\ queue'[Len(queue) + 1] = u
  BY DEF TypeOK
<1>2. \A v \in Cdr : Queued(v)' <=> Queued(v) \/ v = u
  BY <1>1 DEF Queued
<1>3. QueuedOnce'
  BY <1>1 DEF Queued, QueuedOnce
<1>4. QED
  BY <1>2, <1>3

(* BLPOP removes one record from the queue, for good.                      *)
LEMMA Popped ==
  ASSUME TypeOK, queue # <<>>, queue' = Tail(queue), QueuedOnce
  PROVE  /\ Head(queue) \in Cdr
         /\ Queued(Head(queue))
         /\ \A v \in Cdr : Queued(v)' <=> Queued(v) /\ v # Head(queue)
         /\ QueuedOnce'
<1>1. /\ Len(queue) \in Nat \ {0}
      /\ Len(queue') = Len(queue) - 1
      /\ \A i \in 1..(Len(queue) - 1) : queue'[i] = queue[i + 1]
      /\ Head(queue) = queue[1]
      /\ Head(queue) \in Cdr
  BY DEF TypeOK
<1>2. Queued(Head(queue))
  BY <1>1 DEF Queued
<1>3. ASSUME NEW v \in Cdr
      PROVE  Queued(v)' <=> Queued(v) /\ v # Head(queue)
  <2>1. Queued(v)' => Queued(v) /\ v # Head(queue)
    BY <1>1 DEF Queued, QueuedOnce
  <2>2. ASSUME Queued(v), v # Head(queue)
        PROVE  Queued(v)'
    <3>1. PICK i \in 1..Len(queue) : queue[i] = v
      BY <2>2 DEF Queued
    <3>2. i - 1 \in 1..Len(queue') /\ queue'[i - 1] = v
      BY <1>1, <2>2, <3>1
    <3>3. QED
      BY <3>2 DEF Queued
  <2>3. QED
    BY <2>1, <2>2
<1>4. QueuedOnce'
  BY <1>1 DEF QueuedOnce
<1>5. QED
  BY <1>1, <1>2, <1>3, <1>4

(* At first nobody owns anything.                                          *)
LEMMA OwnerInit == Init => OneOwner
<1> SUFFICES ASSUME Init
             PROVE  OneOwner
  OBVIOUS
<1>1. Len(queue) = 0
  BY DEF Init
<1>2. QueuedOnce /\ \A u \in Cdr : ~Queued(u)
  BY <1>1 DEF QueuedOnce, Queued
<1>3. \A l \in Liberator : master[l].uuid = None
  BY DEF Init, Idle
<1>4. HeldOnce /\ \A u \in Cdr : ~Held(u)
  BY <1>3, CdrAssumption DEF HeldOnce, Held
<1>5. ASSUME NEW u \in Cdr
      PROVE  OwnedOnce(u)
  BY <1>2, <1>4 DEF OwnedOnce, Init, InRedis, HandlerAt, Fresh
<1>6. QED
  BY <1>2, <1>4, <1>5 DEF OneOwner

(* A report gives the queue a record that nobody owned.                    *)
LEMMA OwnerReport ==
  ASSUME TypeOK, OneOwner, NEW u \in Cdr,
         \/ Report(u) \/ ReportUuid(u) \/ ReportDetail(u)
         \/ ReportLocal(u) \/ ReportFails(u) \/ Expire(u)
  PROVE  OneOwner'
<1>1. OwnedOnce(u) /\ HeldOnce /\ QueuedOnce
  BY DEF OneOwner
<1>2. HeldOnce' /\ \A v \in Cdr : Held(v)' <=> Held(v)
  BY <1>1 DEF HeldOnce, Held, Report, ReportUuid, ReportDetail, ReportLocal, ReportFails,
              Expire, rdb
<1>3. ASSUME reported[u] = "none", queue' = Append(queue, u),
             reported' \in [Cdr -> ReportState], reported'[u] \in {"pushed", "done", "broken"},
             \A v \in Cdr \ {u} : reported'[v] = reported[v],
             UNCHANGED <<master, handler, http, file>>
      PROVE  OneOwner'
  <2>1. ~Queued(u) /\ ~Held(u) /\ HandlerAt(u, "none")
    BY <1>1, <1>3 DEF OwnedOnce, InRedis
  <2>2. QueuedOnce' /\ \A v \in Cdr : Queued(v)' <=> Queued(v) \/ v = u
    BY <1>1, <1>3, <2>1, Pushed
  <2>3. ASSUME NEW v \in Cdr
        PROVE  OwnedOnce(v)'
    <3>1. OwnedOnce(v)
      BY DEF OneOwner
    <3>2. QED
      BY <1>2, <1>3, <2>1, <2>2, <3>1 DEF OwnedOnce, InRedis, HandlerAt
  <2>4. QED
    BY <1>2, <2>2, <2>3 DEF OneOwner
<1>4. ASSUME UNCHANGED <<queue, master, handler, http, file>>,
             \A v \in Cdr : InRedis(v)' <=> InRedis(v)
      PROVE  OneOwner'
  BY <1>4 DEF OneOwner, OwnedOnce, QueuedOnce, HeldOnce, Queued, Held, HandlerAt
<1> USE DEF TypeOK, ReportState, InRedis, rdb, sinks
<1>5. CASE Report(u) \/ ReportUuid(u)
  BY <1>3, <1>5 DEF Report, ReportUuid
<1>6. CASE ReportDetail(u) \/ ReportLocal(u) \/ Expire(u)
  BY <1>4, <1>6 DEF ReportDetail, ReportLocal, Expire
<1>7. CASE ReportFails(u)
  <2>1. CASE queue' = queue /\ reported' = [reported EXCEPT ![u] = "failed"]
    BY <1>4, <1>7, <2>1 DEF ReportFails
  <2>2. CASE queue' = Append(queue, u) /\ reported' = [reported EXCEPT ![u] = "broken"]
    BY <1>3, <1>7, <2>2 DEF ReportFails
  <2>3. QED
    BY <1>7, <2>1, <2>2 DEF ReportFails
<1>8. QED
  BY <1>5, <1>6, <1>7

(* BLPOP takes a record out of the queue into one master's hands; the      *)
(* master gives it to a new handler, or drops it.                          *)
LEMMA OwnerMaster ==
  ASSUME TypeOK, OneOwner, NEW l \in Liberator, Master(l) \/ MasterFault(l)
  PROVE  OneOwner'
<1>1. HeldOnce /\ QueuedOnce /\ \A u \in Cdr : OwnedOnce(u)
  BY DEF OneOwner
<1>2. master[l] \in MasterType /\ None \notin Cdr
  BY CdrAssumption DEF TypeOK
<1>3. ASSUME UNCHANGED <<reported, queue, http, file>>
      PROVE  /\ QueuedOnce'
             /\ \A v \in Cdr : (Queued(v)' <=> Queued(v)) /\ (InRedis(v)' <=> InRedis(v))
  BY <1>1, <1>3 DEF QueuedOnce, Queued, InRedis
<1>4. ASSUME NEW pc, MasterGoto(l, pc, master[l].uuid), UNCHANGED <<reported, queue, handler, http, file>>
      PROVE  OneOwner'
  <2>1. \A m \in Liberator : master'[m].uuid = master[m].uuid
    BY <1>4 DEF MasterGoto, TypeOK
  <2>2. QED
    BY <1>1, <1>3, <1>4, <2>1 DEF OneOwner, HeldOnce, OwnedOnce, Held, HandlerAt
<1>5. ASSUME MasterGoto(l, "loop", None), UNCHANGED <<reported, queue, http, file>>,
             \A v \in Cdr : handler'[v] = handler[v] \/ (v = master[l].uuid /\ handler'[v] = Fresh(l))
      PROVE  OneOwner'
  <2>1. \A m \in Liberator : master'[m].uuid = IF m = l THEN None ELSE master[m].uuid
    BY <1>5 DEF MasterGoto, TypeOK
  <2>2. HeldOnce' /\ \A v \in Cdr : Held(v)' <=> Held(v) /\ v # master[l].uuid
    BY <1>1, <1>2, <2>1 DEF HeldOnce, Held
  <2>3. ASSUME NEW v \in Cdr
        PROVE  OwnedOnce(v)'
    <3>1. OwnedOnce(v)
      BY <1>1
    <3>2. CASE handler'[v] = handler[v]
      BY <1>3, <1>5, <2>2, <3>1, <3>2 DEF OwnedOnce, HandlerAt
    <3>3. CASE v = master[l].uuid /\ handler'[v] = Fresh(l)
      <4>1. Held(v) /\ HandlerAt(v, "refine")'
        BY <3>3 DEF Held, HandlerAt, Fresh
      <4>2. QED
        BY <1>3, <1>5, <2>2, <3>1, <3>3, <4>1 DEF OwnedOnce, HandlerAt
    <3>4. QED
      BY <1>5, <3>2, <3>3
  <2>4. QED
    BY <1>3, <1>5, <2>2, <2>3 DEF OneOwner
<1> USE DEF rdb, sinks
<1>6. CASE Begin(l)
  <2>1. \A m \in Liberator : master'[m].uuid = master[m].uuid
    BY <1>6 DEF Begin, MasterGoto, MasterAt, TypeOK, MasterType, Holding
  <2>2. QED
    BY <1>1, <1>6, <2>1 DEF Begin, OneOwner, QueuedOnce, HeldOnce, OwnedOnce, Queued, Held, InRedis, HandlerAt
<1>7. CASE Pop(l)
  <2>1. /\ Head(queue) \in Cdr
        /\ Queued(Head(queue))
        /\ \A v \in Cdr : Queued(v)' <=> Queued(v) /\ v # Head(queue)
        /\ QueuedOnce'
    BY <1>1, <1>7, Popped DEF Pop
  <2>2. master[l].uuid = None
    BY <1>2, <1>7 DEF Pop, MasterAt, MasterType, Holding
  <2>3. \A m \in Liberator : master'[m].uuid = IF m = l THEN Head(queue) ELSE master[m].uuid
    BY <1>7 DEF Pop, MasterGoto, TypeOK
  <2>4. ~Held(Head(queue))
    BY <1>1, <2>1 DEF OwnedOnce
  <2>5. HeldOnce' /\ \A v \in Cdr : Held(v)' <=> Held(v) \/ v = Head(queue)
    BY <1>1, <1>2, <2>2, <2>3, <2>4 DEF HeldOnce, Held
  <2>6. ASSUME NEW v \in Cdr
        PROVE  OwnedOnce(v)'
    <3>1. OwnedOnce(v)
      BY <1>1
    <3>2. QED
      BY <1>7, <2>1, <2>5, <3>1 DEF Pop, OwnedOnce, InRedis, HandlerAt
  <2>7. QED
    BY <2>1, <2>5, <2>6 DEF OneOwner
<1>8. CASE Mark(l) \/ FindMissing(l)
  <2>1. UNCHANGED <<reported, queue, handler, http, file>>
    BY <1>8 DEF Mark, FindMissing
  <2>2. MasterGoto(l, "marked", master[l].uuid) \/ MasterGoto(l, "missing", master[l].uuid)
    BY <1>8 DEF Mark, FindMissing
  <2>3. QED
    BY <1>4, <2>1, <2>2
<1>9. CASE Timeout(l) \/ Unmark(l) \/ MasterFault(l)
  <2>1. UNCHANGED <<reported, queue, handler, http, file>>
    BY <1>9 DEF Timeout, Unmark, MasterFault
  <2>2. MasterGoto(l, "loop", None)
    BY <1>9 DEF Timeout, Unmark, MasterFault
  <2>3. QED
    BY <1>5, <2>1, <2>2
<1>10. CASE StartHandler(l)
  BY <1>5, <1>10 DEF StartHandler, Become, TypeOK
<1>11. QED
  BY <1>6, <1>7, <1>8, <1>9, <1>10 DEF Master

(* A handler works on its own record.                                      *)
LEMMA HandlerFrame ==
  ASSUME TypeOK, NEW u \in Cdr, Handler(u)
  PROVE  /\ UNCHANGED <<reported, queue, master>>
         /\ handler[u].pc \in {"refine", "save", "disk", "clean"}
         /\ handler'[u].pc \in {"save", "disk", "clean", "end"}
         /\ \A v \in Cdr \ {u} : /\ handler'[v] = handler[v]
                                 /\ http'[v] = http[v]
                                 /\ v \in file' <=> v \in file
<1> USE DEF TypeOK, HandlerType, HandlerAt, Become, rdb, sinks
<1>1. CASE Refine(u)
  BY <1>1 DEF Refine
<1>2. CASE Saved(u)
  BY <1>2 DEF Saved
<1>3. CASE NotSaved(u)
  BY <1>3 DEF NotSaved
<1>4. CASE SaveOver(u)
  BY <1>4 DEF SaveOver
<1>5. CASE FileSave(u)
  BY <1>5 DEF FileSave
<1>6. CASE Clean(u) \/ CleanOver(u)
  BY <1>6 DEF Clean, CleanOver
<1>7. CASE NotCleaned(u)
  BY <1>7 DEF NotCleaned
<1>8. QED
  BY <1>1, <1>2, <1>3, <1>4, <1>5, <1>6, <1>7 DEF Handler

LEMMA OwnerHandler ==
  ASSUME TypeOK, OneOwner, NEW u \in Cdr, Handler(u)
  PROVE  OneOwner'
<1>1. ASSUME NEW v \in Cdr
      PROVE  OwnedOnce(v)'
  <2>1. OwnedOnce(v)
    BY DEF OneOwner
  <2>2. /\ Queued(v)' <=> Queued(v)
        /\ Held(v)' <=> Held(v)
        /\ InRedis(v)' <=> InRedis(v)
    BY HandlerFrame DEF Queued, Held, InRedis
  <2>3. QED
    BY HandlerFrame, <2>1, <2>2 DEF OwnedOnce, HandlerAt
<1>2. QED
  BY HandlerFrame, <1>1 DEF OneOwner, QueuedOnce, HeldOnce

(* What the life of a process does to the records it works on.             *)
LEMMA ProcessFrame ==
  ASSUME TypeOK, NEW l \in Liberator, Stop(l) \/ MasterExit(l) \/ Crash(l) \/ Restart(l)
  PROVE  /\ UNCHANGED <<reported, queue, detail, http, file>>
         /\ \A m \in Liberator : master'[m].uuid = master[m].uuid \/ (m = l /\ master'[m].uuid = None)
         /\ \A v \in Cdr : /\ HandlerAt(v, "none")' <=> HandlerAt(v, "none")
                           /\ HandlerAt(v, "refine")' => HandlerAt(v, "refine")
                           /\ Running(v)' => Running(v)
                           /\ handler'[v].whole = handler[v].whole
<1> USE DEF TypeOK, HandlerType, MasterType, HandlerAt, Running, rdb, sinks
<1>1. CASE Stop(l)
  BY <1>1 DEF Stop
<1>2. CASE Crash(l)
  BY <1>2 DEF Crash, MasterGoto
<1>3. CASE MasterExit(l) \/ Restart(l)
  BY <1>3 DEF MasterExit, Restart, MasterGoto, Idle
<1>4. QED
  BY <1>1, <1>2, <1>3

(* The end of a process leaves its records to nobody.                      *)
LEMMA OwnerProcess ==
  ASSUME TypeOK, OneOwner, NEW l \in Liberator, Stop(l) \/ MasterExit(l) \/ Crash(l) \/ Restart(l)
  PROVE  OneOwner'
<1>1. HeldOnce'
  BY ProcessFrame DEF OneOwner, HeldOnce
<1>2. ASSUME NEW v \in Cdr
      PROVE  OwnedOnce(v)'
  <2>1. OwnedOnce(v)
    BY DEF OneOwner
  <2>2. /\ Queued(v)' <=> Queued(v)
        /\ Held(v)' => Held(v)
        /\ InRedis(v)' <=> InRedis(v)
    BY ProcessFrame, CdrAssumption DEF Queued, Held, InRedis
  <2>3. QED
    BY ProcessFrame, <2>1, <2>2 DEF OwnedOnce
<1>3. QED
  BY ProcessFrame, <1>1, <1>2 DEF OneOwner, QueuedOnce

(* Every step keeps the single owner.                                      *)
LEMMA OwnerStep == TypeOK /\ OneOwner /\ [Next]_vars => OneOwner'
<1> SUFFICES ASSUME TypeOK, OneOwner, [Next]_vars
             PROVE  OneOwner'
  OBVIOUS
<1>1. CASE UNCHANGED vars
  BY <1>1 DEF vars, OneOwner, QueuedOnce, HeldOnce, OwnedOnce, Queued, Held, InRedis, HandlerAt
<1>2. QED
  BY <1>1, OwnerReport, OwnerMaster, OwnerHandler, OwnerProcess DEF Next

(* Whatever fails, a record is in the queue once, or with one master, or   *)
(* with the one handler it ever gets.                                      *)
THEOREM SingleOwner == Spec => []OneOwner
<1>1. TypeOK /\ OneOwner /\ [Next]_vars => (TypeOK /\ OneOwner)'
  BY TypeStep, OwnerStep
<1>2. QED
  BY <1>1, TypeInit, OwnerInit, PTL DEF Spec

-----------------------------------------------------------------------------
(* Saving works: the CDR file can be written if it is needed, and there is *)
(* somewhere to save a whole record to.                                    *)
SavingWorks ==
    /\ "disk" \notin Faults
    /\ DiskCdr \/ (Endpoints > 0 /\ "refine" \notin Faults)

(* What the local variables of a handler say of what it has saved.         *)
SaveInv(u) ==
    /\ HandlerAt(u, "refine") => handler[u].attempt = 0
    /\ HandlerAt(u, "save") => handler[u].attempt = 0 \/ ~handler[u].saved
    /\ DiskCdr \/ handler[u].whole
    /\ HandlerAt(u, "disk") =>
           DiskCdr \/ ~handler[u].saved \/ http[u] > 0 \/ handler[u].stop
    /\ handler[u].pc \in {"clean", "end"} => Stored(u) \/ (handler[u].stop /\ ~DiskCdr)

LEMMA SaveInit == Init => \A u \in Cdr : SaveInv(u)
  BY DEF Init, SaveInv, HandlerAt, Fresh

(* A step of a handler keeps it of its own record ...                      *)
LEMMA SaveHandler ==
  ASSUME SavingWorks, TypeOK, OneOwner, NEW u \in Cdr, SaveInv(u), Handler(u)
  PROVE  SaveInv(u)'
<1>1. /\ handler[u] \in HandlerType
      /\ http[u] \in Nat
      /\ MaxRetry \in Nat \ {0}
      /\ Endpoints \in Nat
  BY CdrAssumption DEF TypeOK
<1>2. handler[u].attempt \in 0..MaxRetry /\ handler[u].stop \in BOOLEAN
  BY <1>1 DEF HandlerType
<1> USE DEF TypeOK, SavingWorks, SaveInv, HandlerAt, Become, Stored, HandlerType
<1>3. CASE Refine(u)
  <2>1. PICK ok \in IF "refine" \in Faults THEN BOOLEAN ELSE {TRUE} :
            handler'[u] = [handler[u] EXCEPT !.pc = "save", !.whole = ok]
    BY <1>3 DEF Refine
  <2>2. handler'[u].pc = "save" /\ handler'[u].attempt = handler[u].attempt
    BY <1>1, <2>1
  <2>3. DiskCdr \/ handler'[u].whole
    BY <1>1, <2>1
  <2>4. handler[u].attempt = 0
    BY <1>3 DEF Refine
  <2>5. QED
    BY <2>2, <2>3, <2>4
<1>4. CASE Saved(u)
  <2>1. http'[u] > 0 /\ http'[u] \in Nat
    <3>1. PICK k \in Nat : http'[u] = http[u] + k + 1
      <4>1. \A k \in IF "ack" \in Faults THEN 0..(Endpoints - 1) ELSE {0} : k \in Nat
        BY <1>1
      <4>2. QED
        BY <1>4, <4>1 DEF Saved
    <3>2. QED
      BY <1>1, <3>1
  <2>2. handler'[u] = [handler[u] EXCEPT !.pc = "disk", !.saved = TRUE]
    BY <1>4 DEF Saved
  <2>3. QED
    BY <1>1, <2>1, <2>2
<1>5. CASE NotSaved(u)
  <2>1. handler'[u] = [handler[u] EXCEPT !.saved = FALSE, !.attempt = @ + 1]
    BY <1>5 DEF NotSaved
  <2>2. handler[u].pc = "save"
    BY <1>5 DEF NotSaved
  <2>3. QED
    BY <1>1, <2>1, <2>2
<1>6. CASE SaveOver(u)
  <2>1. handler'[u] = [handler[u] EXCEPT !.pc = "disk"] /\ http' = http
    BY <1>6 DEF SaveOver, sinks
  <2>2. DiskCdr \/ ~handler[u].saved \/ handler[u].stop
    BY <1>1, <1>2, <1>6 DEF SaveOver, Retrying
  <2>3. QED
    BY <1>1, <2>1, <2>2
<1>7. CASE FileSave(u)
  <2>1. /\ handler'[u] = [handler[u] EXCEPT !.pc = "clean", !.attempt = 0]
        /\ http' = http
        /\ (u \in file' \/ (handler[u].saved /\ ~DiskCdr))
    BY <1>7 DEF FileSave, ToFile
  <2>2. handler[u].pc = "disk"
    BY <1>7 DEF FileSave
  <2>3. QED
    BY <1>1, <1>2, <2>1, <2>2
<1>8. CASE Clean(u) \/ CleanOver(u)
  <2>1. handler'[u] = [handler[u] EXCEPT !.pc = "end"] /\ UNCHANGED <<http, file>>
    BY <1>8 DEF Clean, CleanOver, sinks
  <2>2. handler[u].pc = "clean"
    BY <1>8 DEF Clean, CleanOver
  <2>3. QED
    BY <1>1, <2>1, <2>2
<1>9. CASE NotCleaned(u)
  <2>1. handler'[u] = [handler[u] EXCEPT !.attempt = @ + 1] /\ UNCHANGED <<http, file>>
    BY <1>9 DEF NotCleaned, sinks
  <2>2. handler[u].pc = "clean"
    BY <1>9 DEF NotCleaned
  <2>3. QED
    BY <1>1, <2>1, <2>2
<1>10. QED
  BY <1>3, <1>4, <1>5, <1>6, <1>7, <1>8, <1>9 DEF Handler

(* ... and so does every step, of every record.                            *)
LEMMA SaveStep ==
  ASSUME SavingWorks, TypeOK, OneOwner, \A u \in Cdr : SaveInv(u), [Next]_vars
  PROVE  \A u \in Cdr : SaveInv(u)'
<1> TAKE v \in Cdr
<1>1. SaveInv(v)
  OBVIOUS
<1>2. ASSUME handler'[v] = handler[v], http'[v] = http[v], v \in file' <=> v \in file
      PROVE  SaveInv(v)'
  BY <1>1, <1>2 DEF SaveInv, HandlerAt, Stored
<1> USE DEF rdb, sinks
<1>3. ASSUME NEW u \in Cdr, Report(u) \/ ReportUuid(u) \/ ReportDetail(u)
      PROVE  SaveInv(v)'
  BY <1>2, <1>3 DEF Report, ReportUuid, ReportDetail
<1>4. ASSUME NEW u \in Cdr, ReportLocal(u) \/ ReportFails(u) \/ Expire(u)
      PROVE  SaveInv(v)'
  BY <1>2, <1>4 DEF ReportLocal, ReportFails, Expire
<1>5. ASSUME NEW u \in Cdr, Handler(u)
      PROVE  SaveInv(v)'
  BY <1>2, <1>5, HandlerFrame, SaveHandler
<1>6. ASSUME NEW l \in Liberator, Master(l) \/ MasterFault(l)
      PROVE  SaveInv(v)'
  <2>1. CASE handler'[v] = Fresh(l)
    BY <2>1 DEF SaveInv, HandlerAt, Fresh
  <2>2. CASE StartHandler(l)
    BY <1>2, <2>1, <2>2 DEF StartHandler, Become, TypeOK
  <2>3. CASE ~StartHandler(l)
    BY <1>2, <1>6, <2>3 DEF Master, Begin, Pop, Timeout, Mark, FindMissing, Unmark, MasterFault
  <2>4. QED
    BY <2>2, <2>3
<1>7. ASSUME NEW l \in Liberator, Stop(l) \/ MasterExit(l) \/ Crash(l) \/ Restart(l)
      PROVE  SaveInv(v)'
  <2>1. CASE Stop(l)
    <3>1. /\ \/ handler'[v] = handler[v]
             \/ handler'[v] = [handler[v] EXCEPT !.stop = TRUE]
          /\ UNCHANGED <<http, file>>
      BY <2>1 DEF Stop
    <3>2. handler[v] \in HandlerType
      BY DEF TypeOK
    <3>3. CASE handler'[v] = [handler[v] EXCEPT !.stop = TRUE]
      BY <1>1, <3>1, <3>2, <3>3 DEF SaveInv, HandlerAt, Stored, HandlerType
    <3>4. QED
      BY <1>2, <3>1, <3>3
  <2>2. CASE Crash(l)
    <3>1. /\ \/ handler'[v] = handler[v]
             \/ handler'[v] = [handler[v] EXCEPT !.pc = "dead"]
          /\ UNCHANGED <<http, file>>
      BY <2>2 DEF Crash
    <3>2. QED
      BY <1>1, <1>2, <3>1 DEF SaveInv, HandlerAt, Stored, TypeOK, HandlerType
  <2>3. CASE MasterExit(l) \/ Restart(l)
    BY <1>2, <2>3 DEF MasterExit, Restart
  <2>4. QED
    BY <1>7, <2>1, <2>2, <2>3
<1>8. CASE UNCHANGED vars
  BY <1>2, <1>8 DEF vars
<1>9. QED
  BY <1>3, <1>4, <1>5, <1>6, <1>7, <1>8 DEF Next

(* What is stored stays stored.                                            *)
LEMMA StoredForever ==
  ASSUME TypeOK, OneOwner, [Next]_vars, NEW v \in Cdr, Stored(v)
  PROVE  Stored(v)'
<1>1. OwnedOnce(v) /\ handler[v] \in HandlerType /\ http[v] \in Nat
  BY DEF OneOwner, TypeOK
<1> USE DEF Stored
<1>2. ASSUME handler'[v].whole = handler[v].whole, http' = http, file' = file
      PROVE  Stored(v)'
  BY <1>2
<1>3. ASSUME NEW u \in Cdr,
             \/ Report(u) \/ ReportUuid(u) \/ ReportDetail(u)
             \/ ReportLocal(u) \/ ReportFails(u) \/ Expire(u)
      PROVE  Stored(v)'
  BY <1>2, <1>3 DEF Report, ReportUuid, ReportDetail, ReportLocal, ReportFails, Expire, sinks
<1>4. ASSUME NEW l \in Liberator, Master(l) \/ MasterFault(l)
      PROVE  Stored(v)'
  <2>1. CASE StartHandler(l)
    <3>1. v # master[l].uuid
      <4>1. ~HandlerAt(v, "none")
        BY <1>1 DEF OwnedOnce
      <4>2. QED
        BY <1>1, <4>1 DEF OwnedOnce, Held
    <3>2. QED
      BY <1>2, <2>1, <3>1 DEF StartHandler, Become, TypeOK, sinks
  <2>2. CASE ~StartHandler(l)
    BY <1>2, <1>4, <2>2 DEF Master, Begin, Pop, Timeout, Mark, FindMissing, Unmark, MasterFault, sinks
  <2>3. QED
    BY <2>1, <2>2
<1>5. ASSUME NEW l \in Liberator, Stop(l) \/ MasterExit(l) \/ Crash(l) \/ Restart(l)
      PROVE  Stored(v)'
  BY <1>2, <1>5, ProcessFrame
<1>6. ASSUME NEW u \in Cdr, Handler(u)
      PROVE  Stored(v)'
  <2>1. CASE u # v
    BY <1>6, <2>1, HandlerFrame
  <2>2. CASE u = v
    <3>1. ~HandlerAt(v, "refine")
      BY <1>1 DEF OwnedOnce
    <3>2. file \subseteq file' /\ http'[v] \in Nat /\ http'[v] >= http[v]
      <4> USE DEF TypeOK, sinks
      <4>1. CASE Saved(v)
        <5>1. \A k \in IF "ack" \in Faults THEN 0..(Endpoints - 1) ELSE {0} : k \in Nat
          BY CdrAssumption
        <5>2. QED
          BY <1>1, <4>1, <5>1 DEF Saved
      <4>2. CASE NotSaved(v)
        <5>1. \A k \in IF "ack" \in Faults THEN 0..Endpoints ELSE {0} : k \in Nat
          BY CdrAssumption
        <5>2. QED
          BY <1>1, <4>2, <5>1 DEF NotSaved
      <4>3. CASE FileSave(v)
        BY <1>1, <4>3 DEF FileSave
      <4>4. CASE ~Saved(v) /\ ~NotSaved(v) /\ ~FileSave(v)
        <5>1. UNCHANGED <<http, file>>
          BY <1>6, <2>2, <4>4 DEF Handler, Refine, SaveOver, Clean, NotCleaned, CleanOver
        <5>2. QED
          BY <1>1, <5>1
      <4>5. QED
        BY <4>1, <4>2, <4>3, <4>4
    <3>3. handler'[v].whole = handler[v].whole
      <4> USE <1>1, <3>1 DEF Become, HandlerAt, HandlerType, TypeOK
      <4>1. CASE Saved(v) \/ SaveOver(v) \/ FileSave(v)
        <5>1. \/ handler'[v] = [handler[v] EXCEPT !.pc = "disk"]
              \/ handler'[v] = [handler[v] EXCEPT !.pc = "disk", !.saved = TRUE]
              \/ handler'[v] = [handler[v] EXCEPT !.pc = "clean", !.attempt = 0]
          BY <4>1 DEF Saved, SaveOver, FileSave
        <5>2. QED
          BY <5>1
      <4>2. CASE NotSaved(v)
        <5>1. handler'[v] = [handler[v] EXCEPT !.saved = FALSE, !.attempt = @ + 1]
          BY <4>2 DEF NotSaved
        <5>2. QED
          BY <5>1
      <4>3. CASE Clean(v) \/ CleanOver(v)
        BY <4>3 DEF Clean, CleanOver
      <4>4. CASE NotCleaned(v)
        <5>1. handler'[v] = [handler[v] EXCEPT !.attempt = @ + 1]
          BY <4>4 DEF NotCleaned
        <5>2. QED
          BY <5>1
      <4>5. ~Refine(v)
        BY DEF Refine
      <4>6. QED
        BY <1>6, <2>2, <4>1, <4>2, <4>3, <4>4, <4>5 DEF Handler
    <3>4. QED
      BY <1>1, <3>2, <3>3
  <2>3. QED
    BY <2>1, <2>2
<1>7. CASE UNCHANGED vars
  BY <1>2, <1>7 DEF vars
<1>8. QED
  BY <1>3, <1>4, <1>5, <1>6, <1>7 DEF Next

-----------------------------------------------------------------------------
(* The details of a record are only deleted after the record is stored.    *)
LEMMA KeptStep ==
  ASSUME SavingWorks, "expiry" \notin Faults, TypeOK, OneOwner,
         \A u \in Cdr : SaveInv(u), DetailKeptUntilStored, [Next]_vars
  PROVE  DetailKeptUntilStored'
<1> SUFFICES ASSUME NEW v \in Cdr, reported'[v] = "done"
             PROVE  v \in detail' \/ Stored(v)'
  BY DEF DetailKeptUntilStored
<1>1. Stored(v) => Stored(v)'
  BY StoredForever
<1>2. ASSUME reported'[v] = reported[v], detail \subseteq detail'
      PROVE  v \in detail' \/ Stored(v)'
  BY <1>1, <1>2 DEF DetailKeptUntilStored
<1> USE DEF rdb, sinks
<1>3. ASSUME NEW u \in Cdr, Report(u) \/ ReportUuid(u) \/ ReportDetail(u)
      PROVE  v \in detail' \/ Stored(v)'
  BY <1>2, <1>3 DEF Report, ReportUuid, ReportDetail, TypeOK
<1>4. ASSUME NEW u \in Cdr, ReportLocal(u) \/ ReportFails(u) \/ Expire(u)
      PROVE  v \in detail' \/ Stored(v)'
  BY <1>2, <1>4 DEF ReportLocal, ReportFails, Expire, TypeOK
<1>5. ASSUME NEW u \in Cdr, Handler(u)
      PROVE  v \in detail' \/ Stored(v)'
  <2>1. reported'[v] = reported[v]
    BY <1>5, HandlerFrame
  <2>2. CASE Clean(u) \/ NotCleaned(u)
    <3>1. SaveInv(u) /\ detail \ {u} \subseteq detail'
      BY <2>2 DEF Clean, NotCleaned
    <3>2. Stored(u)
      BY <2>2, <3>1 DEF Clean, NotCleaned, SaveInv, HandlerAt, Retrying
    <3>3. CASE u = v
      BY <1>1, <3>2, <3>3
    <3>4. CASE u # v
      BY <1>1, <2>1, <3>1, <3>4 DEF DetailKeptUntilStored
    <3>5. QED
      BY <3>3, <3>4
  <2>3. CASE ~Clean(u) /\ ~NotCleaned(u)
    BY <1>2, <1>5, <2>1, <2>3
    DEF Handler, Refine, Saved, NotSaved, SaveOver, FileSave, CleanOver
  <2>4. QED
    BY <2>2, <2>3
<1>6. ASSUME NEW l \in Liberator, Master(l) \/ MasterFault(l)
      PROVE  v \in detail' \/ Stored(v)'
  BY <1>2, <1>6 DEF Master, Begin, Pop, Timeout, Mark, StartHandler, FindMissing, Unmark, MasterFault
<1>7. ASSUME NEW l \in Liberator, Stop(l) \/ MasterExit(l) \/ Crash(l) \/ Restart(l)
      PROVE  v \in detail' \/ Stored(v)'
  BY <1>2, <1>7, ProcessFrame
<1>8. CASE UNCHANGED vars
  BY <1>2, <1>8 DEF vars
<1>9. QED
  BY <1>3, <1>4, <1>5, <1>6, <1>7, <1>8 DEF Next

(* Unless its time to live ends, a record's details stay in Redis until    *)
(* the record is stored, through every crash, stop, retry and lost reply.  *)
THEOREM DetailsKept ==
  ASSUME SavingWorks, "expiry" \notin Faults
  PROVE  Spec => []DetailKeptUntilStored
<1> DEFINE KeptInv == /\ TypeOK
                      /\ OneOwner
                      /\ \A u \in Cdr : SaveInv(u)
                      /\ DetailKeptUntilStored
<1>1. Init => KeptInv
  <2>1. Init => DetailKeptUntilStored
    BY DEF Init, DetailKeptUntilStored
  <2>2. QED
    BY <2>1, TypeInit, OwnerInit, SaveInit
<1>2. KeptInv /\ [Next]_vars => KeptInv'
  BY TypeStep, OwnerStep, SaveStep, KeptStep
<1>3. QED
  BY <1>1, <1>2, PTL DEF Spec

-----------------------------------------------------------------------------
(* What a lossless pipeline never does: leave a report half done, find a   *)
(* record's details missing, or stop a handler that has yet to save.       *)
NoMishap ==
    /\ \A u \in Cdr : /\ reported[u] \in {"none", "done", "local"}
                      /\ ~HandlerAt(u, "dead")
                      /\ handler[u].stop => DiskCdr
    /\ \A l \in Liberator : ~MasterAt(l, "missing")

LosslessInv ==
    /\ \A u \in Cdr : SaveInv(u)
    /\ DetailKeptUntilStored
    /\ NoMishap
    /\ NoCdrLost

LEMMA LosslessInit == Init => LosslessInv
<1>1. Init => DetailKeptUntilStored /\ NoMishap /\ NoCdrLost
  BY DEF Init, DetailKeptUntilStored, NoMishap, NoCdrLost, InRedis, HandlerAt, MasterAt, Fresh, Idle
<1>2. QED
  BY <1>1, SaveInit DEF LosslessInv

LEMMA MishapStep ==
  ASSUME Lossless, TypeOK, OneOwner, DetailKeptUntilStored, NoMishap, [Next]_vars
  PROVE  NoMishap'
<1>1. ASSUME UNCHANGED <<master, handler>>,
             \A u \in Cdr : reported'[u] \in {"none", "done", "local"}
      PROVE  NoMishap'
  BY <1>1 DEF NoMishap, HandlerAt, MasterAt
<1> USE DEF rdb, sinks
<1>2. ASSUME NEW u \in Cdr, Report(u) \/ ReportUuid(u) \/ ReportDetail(u)
      PROVE  NoMishap'
  BY <1>1, <1>2 DEF Report, ReportUuid, ReportDetail, Lossless, NoMishap, TypeOK
<1>3. ASSUME NEW u \in Cdr, ReportLocal(u) \/ ReportFails(u) \/ Expire(u)
      PROVE  NoMishap'
  BY <1>1, <1>3 DEF ReportLocal, ReportFails, Expire, Lossless, NoMishap, TypeOK
<1>4. ASSUME NEW u \in Cdr, Handler(u)
      PROVE  NoMishap'
  <2>1. handler'[u].stop = handler[u].stop
    <3> USE DEF Become, HandlerType, TypeOK
    <3>1. CASE Refine(u) \/ Saved(u) \/ SaveOver(u)
      BY <3>1 DEF Refine, Saved, SaveOver
    <3>2. CASE FileSave(u)
      <4>1. handler'[u] = [handler[u] EXCEPT !.pc = "clean", !.attempt = 0]
        BY <3>2 DEF FileSave
      <4>2. QED
        BY <4>1
    <3>3. CASE NotSaved(u)
      <4>1. handler'[u] = [handler[u] EXCEPT !.saved = FALSE, !.attempt = @ + 1]
        BY <3>3 DEF NotSaved
      <4>2. QED
        BY <4>1
    <3>4. CASE Clean(u) \/ CleanOver(u)
      BY <3>4 DEF Clean, CleanOver
    <3>5. CASE NotCleaned(u)
      <4>1. handler'[u] = [handler[u] EXCEPT !.attempt = @ + 1]
        BY <3>5 DEF NotCleaned
      <4>2. QED
        BY <4>1
    <3>6. QED
      BY <1>4, <3>1, <3>2, <3>3, <3>4, <3>5 DEF Handler
  <2>2. QED
    BY <1>4, <2>1, HandlerFrame DEF NoMishap, HandlerAt, MasterAt
<1>5. ASSUME NEW l \in Liberator, Master(l) \/ MasterFault(l)
      PROVE  NoMishap'
  <2>1. CASE Begin(l) \/ Timeout(l)
    <3>1. ~MasterAt(l, "missing")' /\ reported' = reported /\ handler' = handler
      BY <2>1 DEF Begin, Timeout, MasterGoto, MasterAt, TypeOK
    <3>2. \A m \in Liberator \ {l} : master'[m] = master[m]
      BY <2>1 DEF Begin, Timeout, MasterGoto, TypeOK
    <3>3. QED
      BY <3>1, <3>2 DEF NoMishap, HandlerAt, MasterAt
  <2>2. CASE FindMissing(l)
    <3>1. master[l].uuid \in Cdr
      BY <2>2 DEF FindMissing, MasterAt, TypeOK, MasterType, Holding
    <3>2. Held(master[l].uuid) /\ OwnedOnce(master[l].uuid)
      BY <3>1 DEF Held, OneOwner
    <3>3. reported[master[l].uuid] = "done" /\ ~Stored(master[l].uuid)
      BY <3>1, <3>2 DEF OwnedOnce, InRedis, NoMishap, Stored
    <3>4. QED
      BY <2>2, <3>1, <3>3 DEF FindMissing, DetailKeptUntilStored
  <2>3. CASE Pop(l) \/ Mark(l) \/ StartHandler(l)
    <3>1. ~MasterAt(l, "missing")' /\ reported' = reported
      BY <2>3 DEF Pop, Mark, StartHandler, MasterGoto, MasterAt, TypeOK
    <3>2. \A m \in Liberator \ {l} : master'[m] = master[m]
      BY <2>3 DEF Pop, Mark, StartHandler, MasterGoto, TypeOK
    <3>3. \A u \in Cdr : handler'[u] = handler[u] \/ handler'[u] = Fresh(l)
      BY <2>3 DEF Pop, Mark, StartHandler, Become, TypeOK
    <3>4. QED
      BY <3>1, <3>2, <3>3 DEF NoMishap, HandlerAt, MasterAt, Fresh
  <2>4. CASE Unmark(l) \/ MasterFault(l)
    BY <2>4 DEF Unmark, MasterFault, NoMishap, Lossless
  <2>5. QED
    BY <1>5, <2>1, <2>2, <2>3, <2>4 DEF Master
<1>6. ASSUME NEW l \in Liberator, Stop(l) \/ MasterExit(l) \/ Crash(l) \/ Restart(l)
      PROVE  NoMishap'
  <2>1. ~Crash(l) /\ (Stop(l) => DiskCdr)
    BY DEF Crash, Stop, Lossless
  <2>2. CASE Stop(l)
    <3>1. /\ \A u \in Cdr : handler'[u].pc = handler[u].pc
          /\ \A m \in Liberator : master'[m].pc = master[m].pc
          /\ reported' = reported
      BY <2>2 DEF Stop, TypeOK, HandlerType, MasterType
    <3>2. QED
      BY <2>1, <2>2, <3>1 DEF NoMishap, HandlerAt, MasterAt
  <2>3. CASE MasterExit(l) \/ Restart(l)
    <3>1. UNCHANGED <<reported, handler>>
      BY <2>3 DEF MasterExit, Restart
    <3>2. master'[l].pc \in {"loop", "down"}
      BY <2>3 DEF MasterExit, Restart, MasterGoto, Idle, TypeOK
    <3>3. \A m \in Liberator \ {l} : master'[m] = master[m]
      BY <2>3 DEF MasterExit, Restart, MasterGoto, TypeOK
    <3>4. QED
      BY <3>1, <3>2, <3>3 DEF NoMishap, HandlerAt, MasterAt
  <2>4. QED
    BY <1>6, <2>1, <2>2, <2>3
<1>7. CASE UNCHANGED vars
  BY <1>1, <1>7 DEF vars, NoMishap
<1>8. QED
  BY <1>2, <1>3, <1>4, <1>5, <1>6, <1>7 DEF Next

(* A record on its way goes from the queue to a master, to its handler,    *)
(* and on until the handler is done with it; a report starts it.           *)
LEMMA WayStep ==
  ASSUME TypeOK, OneOwner, [Next]_vars, NEW v \in Cdr
  PROVE  /\ OnItsWay(v)' => OnItsWay(v) \/ (reported[v] = "none" /\ InRedis(v)')
         /\ Lossless /\ LosslessInv /\ OnItsWay(v) => OnItsWay(v)' \/ HandlerAt(v, "end")'
<1>1. /\ master \in [Liberator -> MasterType]
      /\ handler \in [Cdr -> HandlerType]
      /\ reported \in [Cdr -> ReportState]
      /\ OwnedOnce(v)
      /\ QueuedOnce
  BY DEF TypeOK, OneOwner
<1> DEFINE Step == /\ OnItsWay(v)' => OnItsWay(v) \/ (reported[v] = "none" /\ InRedis(v)')
                   /\ Lossless /\ LosslessInv /\ OnItsWay(v) => OnItsWay(v)' \/ HandlerAt(v, "end")'
<1>2. ASSUME UNCHANGED <<queue, master, handler>>
      PROVE  Step
  BY <1>2 DEF OnItsWay, Queued, Held, Running
<1>3. ASSUME NEW u \in Cdr, reported[u] = "none", InRedis(u)', queue' = Append(queue, u),
             UNCHANGED <<master, handler>>
      PROVE  Step
  <2>1. \A w \in Cdr : Queued(w)' <=> Queued(w) \/ w = u
    <3>1. ~Queued(u)
      BY <1>3 DEF OneOwner, OwnedOnce, InRedis
    <3>2. QED
      BY <1>1, <1>3, <3>1, Pushed
  <2>2. QED
    BY <1>3, <2>1 DEF OnItsWay, Held, Running
<1> USE DEF rdb, sinks
<1>4. ASSUME NEW u \in Cdr, Report(u) \/ ReportUuid(u) \/ ReportDetail(u)
      PROVE  Step
  BY <1>1, <1>2, <1>3, <1>4 DEF Report, ReportUuid, ReportDetail, InRedis
<1>5. ASSUME NEW u \in Cdr, ReportLocal(u) \/ Expire(u)
      PROVE  Step
  BY <1>2, <1>5 DEF ReportLocal, Expire
<1>6. ASSUME NEW u \in Cdr, ReportFails(u)
      PROVE  Step
  <2>1. CASE queue' = queue
    BY <1>2, <1>6, <2>1 DEF ReportFails
  <2>2. CASE queue' = Append(queue, u) /\ reported' = [reported EXCEPT ![u] = "broken"]
    BY <1>1, <1>3, <1>6, <2>2 DEF ReportFails, InRedis
  <2>3. QED
    BY <1>6, <2>1, <2>2 DEF ReportFails
<1>7. ASSUME NEW u \in Cdr, Handler(u)
      PROVE  Step
  <2>1. (Queued(v)' <=> Queued(v)) /\ (Held(v)' <=> Held(v))
    BY <1>7, HandlerFrame DEF Queued, Held
  <2>2. Running(v)' => Running(v)
    BY <1>7, HandlerFrame DEF Running
  <2>3. Running(v) => Running(v)' \/ HandlerAt(v, "end")'
    BY <1>7, HandlerFrame DEF Running, HandlerAt
  <2>4. QED
    BY <2>1, <2>2, <2>3 DEF OnItsWay
<1>8. ASSUME NEW l \in Liberator, Master(l) \/ MasterFault(l)
      PROVE  Step
  <2>1. CASE Begin(l) \/ Timeout(l)
    <3>1. \A m \in Liberator : master'[m].uuid = master[m].uuid
      BY <1>1, <2>1 DEF Begin, Timeout, MasterGoto, MasterAt, MasterType, Holding
    <3>2. QED
      BY <2>1, <3>1 DEF Begin, Timeout, OnItsWay, Queued, Held, Running
  <2>2. CASE Pop(l)
    <3>1. Queued(v)' <=> Queued(v) /\ v # Head(queue)
      BY <1>1, <2>2, Popped DEF Pop
    <3>2. Queued(Head(queue)) /\ Head(queue) \in Cdr
      BY <1>1, <2>2, Popped DEF Pop
    <3>3. master[l].uuid = None
      BY <1>1, <2>2 DEF Pop, MasterAt, MasterType, Holding
    <3>4. \A m \in Liberator : master'[m].uuid = IF m = l THEN Head(queue) ELSE master[m].uuid
      BY <1>1, <2>2 DEF Pop, MasterGoto
    <3>5. Held(v)' <=> Held(v) \/ v = Head(queue)
      BY <3>3, <3>4, CdrAssumption DEF Held
    <3>6. QED
      BY <2>2, <3>1, <3>2, <3>5 DEF OnItsWay, Pop, Running
  <2>3. CASE Mark(l) \/ FindMissing(l)
    <3>1. \A m \in Liberator : master'[m].uuid = master[m].uuid
      BY <1>1, <2>3 DEF Mark, FindMissing, MasterGoto
    <3>2. QED
      BY <2>3, <3>1 DEF Mark, FindMissing, OnItsWay, Queued, Held, Running
  <2>4. CASE StartHandler(l)
    <3>1. \A m \in Liberator : master'[m].uuid = IF m = l THEN None ELSE master[m].uuid
      BY <1>1, <2>4 DEF StartHandler, MasterGoto
    <3>2. CASE v = master[l].uuid
      <4>1. Held(v) /\ Running(v)'
        BY <1>1, <2>4, <3>2 DEF Held, Running, StartHandler, Become, Fresh
      <4>2. QED
        BY <4>1 DEF OnItsWay
    <3>3. CASE v # master[l].uuid
      <4>1. handler'[v] = handler[v] /\ queue' = queue
        BY <1>1, <2>4, <3>3 DEF StartHandler, Become
      <4>2. Held(v)' <=> Held(v)
        BY <3>1, <3>3, CdrAssumption DEF Held
      <4>3. QED
        BY <4>1, <4>2 DEF OnItsWay, Queued, Running
    <3>4. QED
      BY <3>2, <3>3
  <2>5. CASE Unmark(l) \/ MasterFault(l)
    <3>1. ~(Lossless /\ LosslessInv)
      BY <2>5 DEF Unmark, MasterFault, Lossless, LosslessInv, NoMishap
    <3>2. \A m \in Liberator : master'[m].uuid = master[m].uuid \/ master'[m].uuid = None
      BY <1>1, <2>5 DEF Unmark, MasterFault, MasterGoto
    <3>3. Held(v)' => Held(v)
      BY <3>2, CdrAssumption DEF Held
    <3>4. QED
      BY <2>5, <3>1, <3>3 DEF Unmark, MasterFault, OnItsWay, Queued, Running
  <2>6. QED
    BY <1>8, <2>1, <2>2, <2>3, <2>4, <2>5 DEF Master
<1>9. ASSUME NEW l \in Liberator, Stop(l) \/ MasterExit(l) \/ Crash(l) \/ Restart(l)
      PROVE  Step
  <2>1. /\ Queued(v)' <=> Queued(v)
        /\ Held(v)' => Held(v)
        /\ Running(v)' => Running(v)
    BY <1>9, ProcessFrame, CdrAssumption DEF Queued, Held
  <2>2. CASE Crash(l)
    BY <2>1, <2>2 DEF Crash, Lossless, OnItsWay
  <2>3. CASE Stop(l) \/ MasterExit(l) \/ Restart(l)
    <3>1. \A m \in Liberator : master'[m].uuid = master[m].uuid
      BY <1>1, <2>3
      DEF Stop, MasterExit, Restart, MasterGoto, MasterAt, Idle, MasterType, Holding
    <3>2. handler'[v].pc = handler[v].pc
      BY <1>1, <2>3 DEF Stop, MasterExit, Restart, HandlerType
    <3>3. QED
      BY <2>1, <3>1, <3>2 DEF OnItsWay, Held, Running
  <2>4. QED
    BY <1>9, <2>2, <2>3
<1>10. CASE UNCHANGED vars
  BY <1>2, <1>10 DEF vars
<1>11. QED
  BY <1>4, <1>5, <1>6, <1>7, <1>8, <1>9, <1>10 DEF Next

(* A record gets into Redis by way of the queue, and is reported for good. *)
LEMMA Enters ==
  ASSUME TypeOK, OneOwner, [Next]_vars, NEW v \in Cdr, InRedis(v)', ~InRedis(v)
  PROVE  Queued(v)'
<1> USE DEF rdb, sinks, InRedis, TypeOK, ReportState
<1>1. CASE Report(v) \/ ReportUuid(v) \/ ReportFails(v)
  <2>1. queue' = Append(queue, v)
    BY <1>1 DEF Report, ReportUuid, ReportFails
  <2>2. ~Queued(v) /\ QueuedOnce
    BY DEF OneOwner, OwnedOnce
  <2>3. QED
    BY <2>1, <2>2, Pushed
<1>2. CASE \E u \in Cdr \ {v} : Report(u) \/ ReportUuid(u) \/ ReportFails(u)
  BY <1>2 DEF Report, ReportUuid, ReportFails
<1>3. CASE \E u \in Cdr : ReportDetail(u) \/ ReportLocal(u) \/ Expire(u)
  BY <1>3 DEF ReportDetail, ReportLocal, Expire
<1>4. CASE \E u \in Cdr : Handler(u)
  BY <1>4, HandlerFrame
<1>5. CASE \E l \in Liberator : Master(l) \/ MasterFault(l)
  BY <1>5 DEF Master, Begin, Pop, Timeout, Mark, StartHandler, FindMissing, Unmark, MasterFault
<1>6. CASE \E l \in Liberator : Stop(l) \/ MasterExit(l) \/ Crash(l) \/ Restart(l)
  BY <1>6, ProcessFrame
<1>7. CASE UNCHANGED vars
  BY <1>7 DEF vars
<1>8. QED
  BY <1>1, <1>2, <1>3, <1>4, <1>5, <1>6, <1>7 DEF Next

LEMMA LosslessStep ==
  ASSUME Lossless, TypeOK, OneOwner, LosslessInv, [Next]_vars
  PROVE  LosslessInv'
<1>1. SavingWorks /\ "expiry" \notin Faults
  BY DEF Lossless, SavingWorks
<1>2. (\A u \in Cdr : SaveInv(u))' /\ DetailKeptUntilStored'
  BY <1>1, SaveStep, KeptStep DEF LosslessInv
<1>3. NoMishap'
  BY MishapStep DEF LosslessInv
<1>4. ASSUME NEW v \in Cdr, InRedis(v)'
      PROVE  OnItsWay(v)' \/ Stored(v)'
  <2>1. CASE ~InRedis(v)
    BY <1>4, <2>1, Enters DEF OnItsWay
  <2>2. CASE Stored(v)
    BY <2>2, StoredForever
  <2>3. CASE InRedis(v) /\ ~Stored(v)
    <3>1. OnItsWay(v)' \/ HandlerAt(v, "end")'
      BY <2>3, WayStep DEF LosslessInv, NoCdrLost
    <3>2. HandlerAt(v, "end")' => Stored(v)'
      BY <1>2, <1>3 DEF SaveInv, NoMishap, HandlerAt
    <3>3. QED
      BY <3>1, <3>2
  <2>4. QED
    BY <2>1, <2>2, <2>3
<1>5. QED
  BY <1>2, <1>3, <1>4 DEF LosslessInv, NoCdrLost

(* With a store that works, no crash and no expiry, a record that a node   *)
(* has put into Redis is on its way to being stored until it is.           *)
THEOREM NothingLost ==
  ASSUME Lossless
  PROVE  Spec => []NoCdrLost
<1>1. Init => TypeOK /\ OneOwner /\ LosslessInv
  BY TypeInit, OwnerInit, LosslessInit
<1>2. TypeOK /\ OneOwner /\ LosslessInv /\ [Next]_vars => (TypeOK /\ OneOwner /\ LosslessInv)'
  BY TypeStep, OwnerStep, LosslessStep
<1>3. LosslessInv => NoCdrLost
  BY DEF LosslessInv
<1>4. QED
  BY <1>1, <1>2, <1>3, PTL DEF Spec

-----------------------------------------------------------------------------
(* The pipeline implements CdrDelivery.                                    *)

LEMMA StatusInit == Init => Delivery!Init
  BY DEF Init, Delivery!Init, Status, StatusOf, InRedis

(* A step that at most costs records, where the pipeline may lose some.    *)
LEMMA Fading ==
  ASSUME \A v \in Cdr : \/ StatusOf(v)' = StatusOf(v)
                        \/ StatusOf(v) = "pending" /\ StatusOf(v)' = "lost",
         Lossless => \A v \in Cdr : StatusOf(v)' # "lost"
  PROVE  [Delivery!Next]_Status
<1> DEFINE gone == {v \in Cdr : StatusOf(v) = "pending" /\ StatusOf(v)' = "lost"}
<1>1. CASE Lossless
  BY <1>1 DEF Status
<1>2. CASE ~Lossless
  <2>1. \A v \in gone : Status[v] = "pending"
    BY DEF Status
  <2>2. Status' = [v \in Cdr |-> IF v \in gone THEN "lost" ELSE Status[v]]
    BY DEF Status
  <2>3. Delivery!Move(gone, "pending", "lost")
    BY <2>1, <2>2 DEF Delivery!Move
  <2>4. QED
    BY <1>2, <2>3 DEF Delivery!Next, Delivery!Lose
<1>3. QED
  BY <1>1, <1>2

(* A step that moves one record.                                           *)
LEMMA Moving ==
  ASSUME NEW u \in Cdr, NEW from, NEW to, StatusOf(u) = from, StatusOf(u)' = to,
         \A v \in Cdr \ {u} : StatusOf(v)' = StatusOf(v)
  PROVE  Delivery!Move({u}, from, to)
  BY DEF Delivery!Move, Status

LEMMA StatusReport ==
  ASSUME TypeOK, OneOwner, [Next]_vars, NEW u \in Cdr,
         \/ Report(u) \/ ReportUuid(u) \/ ReportDetail(u)
         \/ ReportLocal(u) \/ ReportFails(u) \/ Expire(u)
  PROVE  [Delivery!Next]_Status
<1>1. UNCHANGED <<master, handler, http, file>>
  BY DEF Report, ReportUuid, ReportDetail, ReportLocal, ReportFails, Expire, rdb, sinks
<1>2. \A v \in Cdr : /\ Held(v)' <=> Held(v)
                     /\ Running(v)' <=> Running(v)
                     /\ Stored(v)' <=> Stored(v)
  BY <1>1 DEF Held, Running, Stored
<1>3. ASSUME NEW v \in Cdr, reported'[v] = reported[v], Queued(v)' <=> Queued(v)
      PROVE  StatusOf(v)' = StatusOf(v)
  BY <1>2, <1>3 DEF StatusOf, OnItsWay, InRedis
<1>4. ASSUME reported[u] = "none", queue' = Append(queue, u), InRedis(u)',
             \A v \in Cdr \ {u} : reported'[v] = reported[v]
      PROVE  Delivery!Report(u)
  <2>1. ~Queued(u) /\ ~Stored(u) /\ QueuedOnce
    BY <1>4 DEF OneOwner, OwnedOnce, InRedis, Stored
  <2>2. \A v \in Cdr : Queued(v)' <=> Queued(v) \/ v = u
    BY <1>4, <2>1, Pushed
  <2>3. StatusOf(u) = "unreported"
    BY <1>4 DEF StatusOf, InRedis
  <2>4. StatusOf(u)' = "pending"
    BY <1>2, <1>4, <2>1, <2>2 DEF StatusOf, OnItsWay, InRedis
  <2>5. \A v \in Cdr \ {u} : StatusOf(v)' = StatusOf(v)
    BY <1>3, <1>4, <2>2
  <2>6. QED
    BY <2>3, <2>4, <2>5, Moving DEF Delivery!Report
<1>5. ASSUME queue' = queue
      PROVE  \A v \in Cdr : Queued(v)' <=> Queued(v)
  BY <1>5 DEF Queued
<1> USE DEF TypeOK, ReportState, rdb, sinks
<1>6. CASE Report(u) \/ ReportUuid(u)
  BY <1>4, <1>6 DEF Report, ReportUuid, InRedis, Delivery!Next
<1>7. CASE ReportDetail(u)
  <2>1. \A v \in Cdr : reported'[v] = reported[v] \/ v = u
    BY <1>7 DEF ReportDetail
  <2>2. StatusOf(u)' = StatusOf(u)
    BY <1>2, <1>5, <1>7 DEF ReportDetail, StatusOf, OnItsWay, InRedis
  <2>3. \A v \in Cdr : StatusOf(v)' = StatusOf(v)
    BY <1>3, <1>5, <1>7, <2>1, <2>2 DEF ReportDetail
  <2>4. QED
    BY <2>3 DEF Status
<1>8. CASE Expire(u)
  BY <1>3, <1>5, <1>8 DEF Expire, Status
<1>9. CASE ReportLocal(u)
  <2>1. StatusOf(u) = "unreported" /\ StatusOf(u)' = "local"
    BY <1>9 DEF ReportLocal, StatusOf, InRedis
  <2>2. \A v \in Cdr \ {u} : StatusOf(v)' = StatusOf(v)
    BY <1>3, <1>5, <1>9 DEF ReportLocal
  <2>3. QED
    BY <2>1, <2>2, Moving DEF Delivery!KeepLocal, Delivery!Next
<1>10. CASE ReportFails(u)
  <2>1. CASE queue' = queue /\ reported' = [reported EXCEPT ![u] = "failed"]
    <3>1. StatusOf(u) = "unreported" /\ StatusOf(u)' = "lost"
      BY <1>10, <2>1 DEF ReportFails, StatusOf, InRedis
    <3>2. \A v \in Cdr \ {u} : StatusOf(v)' = StatusOf(v)
      BY <1>3, <1>5, <2>1
    <3>3. ~Lossless
      BY <1>10 DEF ReportFails, Lossless
    <3>4. QED
      BY <3>1, <3>2, <3>3, Moving DEF Delivery!Drop, Delivery!Next
  <2>2. CASE queue' = Append(queue, u) /\ reported' = [reported EXCEPT ![u] = "broken"]
    BY <1>4, <1>10, <2>2 DEF ReportFails, InRedis, Delivery!Next
  <2>3. QED
    BY <1>10, <2>1, <2>2 DEF ReportFails
<1>11. QED
  BY <1>6, <1>7, <1>8, <1>9, <1>10

(* Where no report is made, a record can only be stored, or be lost.       *)
LEMMA StatusMoves ==
  ASSUME TypeOK, OneOwner, [Next]_vars, reported' = reported, NEW v \in Cdr
  PROVE  \/ StatusOf(v)' = StatusOf(v)
         \/ StatusOf(v) = "pending" /\ StatusOf(v)' = "lost"
         \/ StatusOf(v) = "pending" /\ StatusOf(v)' = "stored" /\ ~Stored(v) /\ Stored(v)'
<1>1. InRedis(v)' <=> InRedis(v)
  BY DEF InRedis
<1>2. reported[v] \in ReportState
  BY DEF TypeOK
<1>3. Stored(v) => Stored(v)'
  BY StoredForever
<1>4. ~InRedis(v) => StatusOf(v)' = StatusOf(v)
  BY <1>2 DEF StatusOf, InRedis, ReportState
<1>5. InRedis(v) /\ OnItsWay(v)' => OnItsWay(v)
  BY WayStep DEF InRedis
<1>6. InRedis(v) /\ ~Stored(v)' /\ ~OnItsWay(v) => StatusOf(v)' = StatusOf(v)
  BY <1>1, <1>3, <1>5 DEF StatusOf, InRedis
<1>7. InRedis(v) /\ Stored(v) => StatusOf(v)' = StatusOf(v)
  BY <1>1, <1>3 DEF StatusOf, InRedis
<1>8. InRedis(v) /\ ~Stored(v) /\ Stored(v)' => OnItsWay(v)
  <2>1. SUFFICES ASSUME InRedis(v), ~Stored(v), Stored(v)', ~OnItsWay(v)
                 PROVE  FALSE
    OBVIOUS
  <2>2. ASSUME handler'[v].whole = handler[v].whole, http'[v] = http[v], v \in file' <=> v \in file
        PROVE  FALSE
    BY <2>1, <2>2 DEF Stored
  <2>3. \A u \in Cdr : ~Handler(u)
    BY <2>1, <2>2, HandlerFrame DEF OnItsWay, Running
  <2>4. ASSUME NEW u \in Cdr,
               \/ Report(u) \/ ReportUuid(u) \/ ReportDetail(u)
               \/ ReportLocal(u) \/ ReportFails(u) \/ Expire(u)
        PROVE  FALSE
    BY <2>2, <2>4
    DEF Report, ReportUuid, ReportDetail, ReportLocal, ReportFails, Expire, sinks
  <2>5. ASSUME NEW l \in Liberator, Master(l) \/ MasterFault(l)
        PROVE  FALSE
    <3>1. master[l].uuid # v
      BY <2>1 DEF OnItsWay, Held
    <3>2. CASE StartHandler(l)
      BY <2>2, <3>1, <3>2 DEF StartHandler, Become, TypeOK, sinks
    <3>3. CASE ~StartHandler(l)
      BY <2>2, <2>5, <3>3 DEF Master, Begin, Pop, Timeout, Mark, FindMissing, Unmark, MasterFault, sinks
    <3>4. QED
      BY <3>2, <3>3
  <2>6. ASSUME NEW l \in Liberator, Stop(l) \/ MasterExit(l) \/ Crash(l) \/ Restart(l)
        PROVE  FALSE
    BY <2>2, <2>6, ProcessFrame
  <2>7. ~UNCHANGED vars
    BY <2>2 DEF vars
  <2>8. QED
    BY <2>3, <2>4, <2>5, <2>6, <2>7 DEF Next
<1>9. QED
  BY <1>1, <1>4, <1>6, <1>7, <1>8 DEF StatusOf, InRedis

LEMMA StatusStep ==
  ASSUME TypeOK, OneOwner, Lossless => LosslessInv', [Next]_vars
  PROVE  [Delivery!Next]_Status
<1>1. Lossless => \A v \in Cdr : reported'[v] # "failed" /\ (InRedis(v)' => OnItsWay(v)' \/ Stored(v)')
  BY DEF LosslessInv, NoMishap, NoCdrLost
<1>2. Lossless => \A v \in Cdr : StatusOf(v)' # "lost"
  <2>1. \A v \in Cdr : reported'[v] \in ReportState
    BY TypeStep DEF TypeOK
  <2>2. QED
    BY <1>1, <2>1 DEF StatusOf, InRedis, ReportState
<1>3. ASSUME NEW u \in Cdr,
             \/ Report(u) \/ ReportUuid(u) \/ ReportDetail(u)
             \/ ReportLocal(u) \/ ReportFails(u) \/ Expire(u)
      PROVE  [Delivery!Next]_Status
  BY <1>3, StatusReport
<1>4. ASSUME NEW u \in Cdr, Handler(u)
      PROVE  [Delivery!Next]_Status
  <2>1. /\ reported' = reported
        /\ \A v \in Cdr \ {u} : Stored(v)' <=> Stored(v)
    BY <1>4, HandlerFrame DEF Stored
  <2>2. \A v \in Cdr \ {u} : OnItsWay(v)' <=> OnItsWay(v)
    BY <1>4, HandlerFrame DEF OnItsWay, Queued, Held, Running
  <2>3. \A v \in Cdr \ {u} : StatusOf(v)' = StatusOf(v)
    BY <2>1, <2>2 DEF StatusOf, InRedis
  <2>4. CASE StatusOf(u) = "pending" /\ StatusOf(u)' = "stored"
    BY <2>3, <2>4, Moving DEF Delivery!Store, Delivery!Next
  <2>5. CASE ~(StatusOf(u) = "pending" /\ StatusOf(u)' = "stored")
    <3>1. \/ StatusOf(u)' = StatusOf(u)
          \/ StatusOf(u) = "pending" /\ StatusOf(u)' = "lost"
      BY <2>1, <2>5, StatusMoves
    <3>2. QED
      BY <1>2, <2>3, <3>1, Fading
  <2>6. QED
    BY <2>4, <2>5
<1>5. ASSUME reported' = reported, \A v \in Cdr : Stored(v) \/ ~Stored(v)'
      PROVE  [Delivery!Next]_Status
  BY <1>2, <1>5, StatusMoves, Fading
<1>6. ASSUME NEW l \in Liberator, Master(l) \/ MasterFault(l)
      PROVE  [Delivery!Next]_Status
  <2>1. UNCHANGED <<reported, http, file>>
    BY <1>6 DEF Master, Begin, Pop, Timeout, Mark, StartHandler, FindMissing, Unmark, MasterFault, sinks
  <2>2. ASSUME NEW v \in Cdr, ~Stored(v)
        PROVE  ~Stored(v)'
    <3>1. CASE StartHandler(l) /\ v = master[l].uuid
      <4>1. Held(v) /\ OwnedOnce(v)
        BY <3>1 DEF Held, OneOwner
      <4>2. http[v] = 0 /\ v \notin file
        BY <4>1 DEF OwnedOnce
      <4>3. QED
        BY <2>1, <4>2 DEF Stored
    <3>2. CASE StartHandler(l) /\ v # master[l].uuid
      BY <2>1, <2>2, <3>2 DEF StartHandler, Become, TypeOK, Stored
    <3>3. CASE ~StartHandler(l)
      BY <1>6, <2>1, <2>2, <3>3 DEF Master, Begin, Pop, Timeout, Mark, FindMissing, Unmark, MasterFault, Stored
    <3>4. QED
      BY <3>1, <3>2, <3>3
  <2>3. QED
    BY <1>5, <2>1, <2>2
<1>7. ASSUME NEW l \in Liberator, Stop(l) \/ MasterExit(l) \/ Crash(l) \/ Restart(l)
      PROVE  [Delivery!Next]_Status
  BY <1>5, <1>7, ProcessFrame DEF Stored
<1>8. CASE UNCHANGED vars
  BY <1>5, <1>8 DEF vars, Stored
<1>9. QED
  BY <1>3, <1>4, <1>6, <1>7, <1>8 DEF Next

(* Whatever fails, every step moves records on as CdrDelivery allows: a    *)
(* stored record stays stored, a lost one never comes back, and if the     *)
(* pipeline is lossless none is lost.                                      *)
THEOREM Implementation == Spec => Delivers
<1> DEFINE Inv == TypeOK /\ OneOwner /\ (Lossless => LosslessInv)
<1>1. Init => Inv /\ Delivery!Init
  BY TypeInit, OwnerInit, LosslessInit, StatusInit
<1>2. Inv /\ [Next]_vars => Inv'
  BY TypeStep, OwnerStep, LosslessStep
<1>3. Inv /\ Inv' /\ [Next]_vars => [Delivery!Next]_Status
  BY StatusStep
<1>4. QED
  BY <1>1, <1>2, <1>3, PTL DEF Spec, Delivers, Delivery!Spec

-----------------------------------------------------------------------------
(* What a handler knows of a record before it has saved it: it is nowhere  *)
(* yet when an attempt begins, nor on an endpoint after one that failed.   *)
OnceInv(u) ==
    /\ http[u] <= 1
    /\ HandlerAt(u, "save") => http[u] = 0 /\ u \notin file
    /\ handler[u].saved \/ http[u] = 0
    /\ u \in file /\ ~DiskCdr => http[u] = 0

LEMMA OnceInit == Init => \A u \in Cdr : OnceInv(u)
<1> SUFFICES ASSUME Init, NEW u \in Cdr
             PROVE  OnceInv(u)
  OBVIOUS
<1>1. http[u] = 0 /\ u \notin file
  BY DEF Init
<1>2. handler[u].pc = "none" /\ handler[u].saved = TRUE
  BY DEF Init, Fresh
<1>3. QED
  BY <1>1, <1>2 DEF OnceInv, HandlerAt

(* A step of a handler keeps it of its own record ...                      *)
LEMMA OnceHandler ==
  ASSUME "ack" \notin Faults, TypeOK, OneOwner, NEW u \in Cdr, OnceInv(u), Handler(u)
  PROVE  OnceInv(u)'
<1>1. handler[u] \in HandlerType /\ http[u] \in Nat
  BY DEF TypeOK
<1>2. OwnedOnce(u)
  BY DEF OneOwner
<1> USE DEF TypeOK, OnceInv, HandlerAt, Become, HandlerType
<1>3. CASE Refine(u)
  <2>1. handler'[u].pc = "save" /\ handler'[u].saved = handler[u].saved
    BY <1>1, <1>3 DEF Refine
  <2>2. http[u] = 0 /\ u \notin file /\ UNCHANGED <<http, file>>
    BY <1>2, <1>3 DEF Refine, OwnedOnce, sinks
  <2>3. QED
    BY <2>1, <2>2
<1>4. CASE Saved(u)
  <2>1. http'[u] = http[u] + 1 /\ file' = file
    BY <1>1, <1>4 DEF Saved
  <2>2. handler'[u].pc = "disk" /\ handler'[u].saved = TRUE
    BY <1>1, <1>4 DEF Saved
  <2>3. http[u] = 0 /\ u \notin file
    BY <1>4 DEF Saved
  <2>4. QED
    BY <2>1, <2>2, <2>3
<1>5. CASE NotSaved(u)
  <2>1. http'[u] = http[u] /\ file' = file
    BY <1>1, <1>5 DEF NotSaved
  <2>2. handler[u].pc = "save" /\ handler'[u].pc = "save"
    BY <1>1, <1>5 DEF NotSaved
  <2>3. QED
    BY <2>1, <2>2
<1>6. CASE FileSave(u)
  <2>1. handler'[u].pc = "clean" /\ handler'[u].saved = handler[u].saved /\ http' = http
    BY <1>1, <1>6 DEF FileSave
  <2>2. u \in file' => u \in file \/ ~handler[u].saved \/ DiskCdr
    BY <1>6 DEF FileSave, ToFile
  <2>3. QED
    BY <2>1, <2>2
<1>7. CASE SaveOver(u) \/ Clean(u) \/ NotCleaned(u) \/ CleanOver(u)
  <2>1. UNCHANGED <<http, file>>
    BY <1>7 DEF SaveOver, Clean, NotCleaned, CleanOver, sinks
  <2>2. handler'[u].pc # "save" /\ handler'[u].saved = handler[u].saved
    BY <1>1, <1>7 DEF SaveOver, Clean, NotCleaned, CleanOver
  <2>3. QED
    BY <2>1, <2>2
<1>8. QED
  BY <1>3, <1>4, <1>5, <1>6, <1>7 DEF Handler

(* ... and so does every step, of every record.                            *)
LEMMA OnceStep ==
  ASSUME "ack" \notin Faults, TypeOK, OneOwner, \A u \in Cdr : OnceInv(u), [Next]_vars
  PROVE  \A u \in Cdr : OnceInv(u)'
<1> TAKE v \in Cdr
<1>1. OnceInv(v)
  OBVIOUS
<1>2. ASSUME handler'[v].pc = handler[v].pc \/ handler'[v].pc = "dead",
             handler'[v].saved = handler[v].saved,
             http'[v] = http[v], v \in file' <=> v \in file
      PROVE  OnceInv(v)'
  BY <1>1, <1>2 DEF OnceInv, HandlerAt
<1> USE DEF rdb, sinks
<1>3. ASSUME NEW u \in Cdr, \/ Report(u) \/ ReportUuid(u) \/ ReportDetail(u)
                            \/ ReportLocal(u) \/ ReportFails(u) \/ Expire(u)
      PROVE  OnceInv(v)'
  BY <1>2, <1>3 DEF Report, ReportUuid, ReportDetail, ReportLocal, ReportFails, Expire
<1>4. ASSUME NEW u \in Cdr, Handler(u)
      PROVE  OnceInv(v)'
  BY <1>2, <1>4, HandlerFrame, OnceHandler
<1>5. ASSUME NEW l \in Liberator, Master(l) \/ MasterFault(l)
      PROVE  OnceInv(v)'
  <2>1. CASE StartHandler(l) /\ v = master[l].uuid
    <3>1. handler'[v] = Fresh(l) /\ UNCHANGED <<http, file>>
      BY <2>1 DEF StartHandler, Become, TypeOK
    <3>2. QED
      BY <1>1, <3>1 DEF OnceInv, HandlerAt, Fresh
  <2>2. CASE StartHandler(l) /\ v # master[l].uuid
    BY <1>2, <2>2 DEF StartHandler, Become, TypeOK
  <2>3. CASE ~StartHandler(l)
    BY <1>2, <1>5, <2>3 DEF Master, Begin, Pop, Timeout, Mark, FindMissing, Unmark, MasterFault
  <2>4. QED
    BY <2>1, <2>2, <2>3
<1>6. ASSUME NEW l \in Liberator, Stop(l) \/ MasterExit(l) \/ Crash(l) \/ Restart(l)
      PROVE  OnceInv(v)'
  <2>1. handler[v] \in HandlerType
    BY DEF TypeOK
  <2>2. \/ handler'[v] = handler[v]
        \/ handler'[v] = [handler[v] EXCEPT !.stop = TRUE]
        \/ handler'[v] = [handler[v] EXCEPT !.pc = "dead"]
    BY <1>6 DEF Stop, MasterExit, Crash, Restart
  <2>3. UNCHANGED <<http, file>>
    BY <1>6 DEF Stop, MasterExit, Crash, Restart
  <2>4. QED
    BY <1>2, <2>1, <2>2, <2>3 DEF HandlerType
<1>7. CASE UNCHANGED vars
  BY <1>2, <1>7 DEF vars
<1>8. QED
  BY <1>3, <1>4, <1>5, <1>6, <1>7 DEF Next

(* If an endpoint that stores a record says so, no record is stored twice: *)
(* neither by two attempts, nor by a first handler and a later one, nor by *)
(* an endpoint and by the file that is only the fallback.                  *)
THEOREM NothingStoredTwice ==
  ASSUME "ack" \notin Faults
  PROVE  Spec => []StoredOnce
<1> DEFINE Once == TypeOK /\ OneOwner /\ \A u \in Cdr : OnceInv(u)
<1>1. Init => Once
  BY TypeInit, OwnerInit, OnceInit
<1>2. Once /\ [Next]_vars => Once'
  BY TypeStep, OwnerStep, OnceStep
<1>3. Once => StoredOnce
  BY DEF OnceInv, StoredOnce
<1>4. QED
  BY <1>1, <1>2, <1>3, PTL DEF Spec

-----------------------------------------------------------------------------
(* That a record is stored in the end is for TLC: it needs fairness.  But  *)
(* a record never comes back to what has been done with it, and this many  *)
(* steps at most are left to its handler; one to come has them all.        *)
StepsOf(h) ==
    CASE h.pc = "none" -> 2 * MaxRetry + 5
      [] h.pc = "refine" -> 2 * MaxRetry + 4
      [] h.pc = "save" -> 2 * MaxRetry + 3 - h.attempt
      [] h.pc = "disk" -> MaxRetry + 2
      [] h.pc = "clean" -> MaxRetry + 1 - h.attempt
      [] h.pc \in {"end", "dead"} -> 0

HandlerLeft(u) == StepsOf(handler[u])

LEMMA StepsOfType ==
  ASSUME NEW h \in HandlerType
  PROVE  /\ StepsOf(h) \in 0..(2 * MaxRetry + 5)
         /\ StepsOf(h) = 0 <=> h.pc \in {"end", "dead"}
<1>1. h.attempt \in 0..MaxRetry /\ h.pc \in HandlerState /\ MaxRetry \in Nat
  BY CdrAssumption DEF HandlerType
<1>2. CASE h.pc \in {"save", "clean"}
  <2>1. StepsOf(h) \in {2 * MaxRetry + 3 - h.attempt, MaxRetry + 1 - h.attempt}
    BY <1>2 DEF StepsOf
  <2>2. QED
    BY <1>1, <1>2, <2>1
<1>3. CASE h.pc \in {"none", "refine", "disk"}
  <2>1. StepsOf(h) \in {2 * MaxRetry + 5, 2 * MaxRetry + 4, MaxRetry + 2}
    BY <1>3 DEF StepsOf
  <2>2. QED
    BY <1>1, <1>3, <2>1
<1>4. CASE h.pc \in {"end", "dead"}
  <2>1. StepsOf(h) = 0
    BY <1>4 DEF StepsOf
  <2>2. QED
    BY <1>1, <1>4, <2>1
<1>5. QED
  BY <1>1, <1>2, <1>3, <1>4 DEF HandlerState

(* Each step of a handler is one of them.                                  *)
LEMMA HandlerShrinks ==
  ASSUME TypeOK, NEW u \in Cdr, Handler(u)
  PROVE  HandlerLeft(u)' < HandlerLeft(u)
<1> DEFINE h == handler[u]
           g == handler'[u]
<1>1. h \in HandlerType /\ h.attempt \in 0..MaxRetry /\ MaxRetry \in Nat
  BY CdrAssumption DEF TypeOK, HandlerType
<1>2. HandlerLeft(u) = StepsOf(h) /\ HandlerLeft(u)' = StepsOf(g)
  BY DEF HandlerLeft, StepsOf
<1>3. handler \in [Cdr -> HandlerType]
  BY DEF TypeOK
<1> USE DEF HandlerAt, Become, HandlerType
<1>4. CASE Refine(u)
  <2>1. h.pc = "refine" /\ g.pc = "save" /\ g.attempt = h.attempt
    BY <1>3, <1>4 DEF Refine
  <2>2. StepsOf(h) = 2 * MaxRetry + 4 /\ StepsOf(g) = 2 * MaxRetry + 3 - h.attempt
    BY <2>1 DEF StepsOf
  <2>3. QED
    BY <1>1, <1>2, <2>2
<1>5. CASE Saved(u) \/ SaveOver(u)
  <2>1. h.pc = "save" /\ g.pc = "disk"
    BY <1>3, <1>5 DEF Saved, SaveOver
  <2>2. StepsOf(h) = 2 * MaxRetry + 3 - h.attempt /\ StepsOf(g) = MaxRetry + 2
    BY <2>1 DEF StepsOf
  <2>3. QED
    BY <1>1, <1>2, <2>2
<1>6. CASE NotSaved(u)
  <2>1. h.pc = "save" /\ g.pc = "save" /\ g.attempt = h.attempt + 1
    BY <1>3, <1>6 DEF NotSaved
  <2>2. StepsOf(h) = 2 * MaxRetry + 3 - h.attempt /\ StepsOf(g) = 2 * MaxRetry + 3 - (h.attempt + 1)
    BY <2>1 DEF StepsOf
  <2>3. QED
    BY <1>1, <1>2, <2>2
<1>7. CASE FileSave(u)
  <2>1. h.pc = "disk" /\ g.pc = "clean" /\ g.attempt = 0
    BY <1>3, <1>7 DEF FileSave
  <2>2. StepsOf(h) = MaxRetry + 2 /\ StepsOf(g) = MaxRetry + 1 - 0
    BY <2>1 DEF StepsOf
  <2>3. QED
    BY <1>1, <1>2, <2>2
<1>8. CASE NotCleaned(u)
  <2>1. h.pc = "clean" /\ g.pc = "clean" /\ g.attempt = h.attempt + 1
    BY <1>3, <1>8 DEF NotCleaned
  <2>2. StepsOf(h) = MaxRetry + 1 - h.attempt /\ StepsOf(g) = MaxRetry + 1 - (h.attempt + 1)
    BY <2>1 DEF StepsOf
  <2>3. QED
    BY <1>1, <1>2, <2>2
<1>9. CASE Clean(u) \/ CleanOver(u)
  <2>1. h.pc = "clean" /\ g.pc = "end"
    BY <1>3, <1>9 DEF Clean, CleanOver
  <2>2. StepsOf(h) = MaxRetry + 1 - h.attempt /\ StepsOf(g) = 0
    BY <2>1 DEF StepsOf
  <2>3. QED
    BY <1>1, <1>2, <2>2
<1>10. QED
  BY <1>4, <1>5, <1>6, <1>7, <1>8, <1>9 DEF Handler

(* No other step gives a handler more of them: a master starts one only    *)
(* for a record that never had one, as it was the owner.                   *)
LEMMA LeftShrinks ==
  ASSUME TypeOK, OneOwner, [Next]_vars, NEW u \in Cdr, (TypeOK)'
  PROVE  HandlerLeft(u)' <= HandlerLeft(u)
<1>1. handler \in [Cdr -> HandlerType] /\ handler' \in [Cdr -> HandlerType]
  BY DEF TypeOK
<1>2. /\ HandlerLeft(u) = StepsOf(handler[u]) /\ HandlerLeft(u)' = StepsOf(handler'[u])
      /\ StepsOf(handler[u]) \in 0..(2 * MaxRetry + 5)
      /\ StepsOf(handler'[u]) \in 0..(2 * MaxRetry + 5)
      /\ MaxRetry \in Nat
  BY <1>1, StepsOfType, CdrAssumption DEF HandlerLeft, StepsOf
<1>3. CASE handler'[u] = handler[u]
  BY <1>2, <1>3
<1>4. CASE \E v \in Cdr : Handler(v)
  <2>1. PICK v \in Cdr : Handler(v)
    BY <1>4
  <2>2. CASE v = u
    BY <1>2, <2>1, <2>2, HandlerShrinks
  <2>3. CASE v # u
    BY <1>3, <2>1, <2>3, HandlerFrame
  <2>4. QED
    BY <2>2, <2>3
<1>5. CASE \E l \in Liberator : StartHandler(l)
  <2>1. PICK l \in Liberator : StartHandler(l)
    BY <1>5
  <2>2. MasterAt(l, "marked") /\ handler' = [handler EXCEPT ![master[l].uuid] = Fresh(l)]
    BY <2>1 DEF StartHandler, Become
  <2>3. CASE master[l].uuid = u
    <3>1. handler[u].pc = "none"
      BY <2>3 DEF OneOwner, OwnedOnce, Held, HandlerAt
    <3>2. StepsOf(handler[u]) = 2 * MaxRetry + 5
      BY <3>1 DEF StepsOf
    <3>3. QED
      BY <1>2, <3>2
  <2>4. CASE master[l].uuid # u
    BY <1>1, <1>3, <2>2, <2>4
  <2>5. QED
    BY <2>3, <2>4
<1>6. CASE \E l \in Liberator : Stop(l) \/ MasterExit(l) \/ Crash(l) \/ Restart(l)
  <2>1. PICK l \in Liberator : Stop(l) \/ MasterExit(l) \/ Crash(l) \/ Restart(l)
    BY <1>6
  <2>2. \/ handler'[u] = handler[u]
        \/ handler'[u] = [handler[u] EXCEPT !.stop = TRUE]
        \/ handler'[u] = [handler[u] EXCEPT !.pc = "dead"]
    BY <2>1 DEF Stop, MasterExit, Crash, Restart
  <2>3. CASE handler'[u] = [handler[u] EXCEPT !.stop = TRUE]
    <3>1. handler'[u].pc = handler[u].pc /\ handler'[u].attempt = handler[u].attempt
      BY <1>1, <2>3 DEF HandlerType
    <3>2. StepsOf(handler'[u]) = StepsOf(handler[u])
      BY <3>1 DEF StepsOf
    <3>3. QED
      BY <1>2, <3>2
  <2>4. CASE handler'[u] = [handler[u] EXCEPT !.pc = "dead"]
    <3>1. handler'[u].pc = "dead"
      BY <1>1, <2>4 DEF HandlerType
    <3>2. StepsOf(handler'[u]) = 0
      BY <3>1 DEF StepsOf
    <3>3. QED
      BY <1>2, <3>2
  <2>5. QED
    BY <1>3, <2>2, <2>3, <2>4
<1>7. CASE \E v \in Cdr : \/ Report(v) \/ ReportUuid(v) \/ ReportDetail(v)
                          \/ ReportLocal(v) \/ ReportFails(v) \/ Expire(v)
  BY <1>3, <1>7 DEF Report, ReportUuid, ReportDetail, ReportLocal, ReportFails, Expire
<1>8. CASE \E l \in Liberator : MasterFault(l) \/ Begin(l) \/ Pop(l) \/ Timeout(l)
                                \/ Mark(l) \/ FindMissing(l) \/ Unmark(l)
  BY <1>3, <1>8 DEF MasterFault, Begin, Pop, Timeout, Mark, FindMissing, Unmark
<1>9. CASE UNCHANGED vars
  BY <1>3, <1>9 DEF vars
<1>10. QED
  BY <1>4, <1>5, <1>6, <1>7, <1>8, <1>9 DEF Next, Master

(* Whatever fails, stops, crashes and restarts, the handler of a record is *)
(* its only one, and makes an end of it in 2 * MaxRetry + 4 steps at most. *)
THEOREM HandlerRunsOut ==
  Spec => /\ [](\A u \in Cdr : /\ HandlerLeft(u) \in 0..(2 * MaxRetry + 5)
                               /\ HandlerLeft(u) = 0 <=> handler[u].pc \in {"end", "dead"})
          /\ [][\A u \in Cdr : /\ HandlerLeft(u)' <= HandlerLeft(u)
                               /\ Handler(u) => HandlerLeft(u)' < HandlerLeft(u)]_vars
<1> DEFINE A == \A u \in Cdr : /\ HandlerLeft(u)' <= HandlerLeft(u)
                               /\ Handler(u) => HandlerLeft(u)' < HandlerLeft(u)
           B == \A u \in Cdr : /\ HandlerLeft(u) \in 0..(2 * MaxRetry + 5)
                               /\ HandlerLeft(u) = 0 <=> handler[u].pc \in {"end", "dead"}
<1>1. Init => TypeOK /\ OneOwner
  BY TypeInit, OwnerInit
<1>2. TypeOK /\ OneOwner /\ [Next]_vars => (TypeOK /\ OneOwner)' /\ [A]_vars
  BY TypeStep, OwnerStep, HandlerShrinks, LeftShrinks
<1>3. TypeOK => B
  BY StepsOfType DEF TypeOK, HandlerLeft
<1>4. QED
  BY <1>1, <1>2, <1>3, PTL DEF Spec
===============================================================================
