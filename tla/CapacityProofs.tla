--------------------------- MODULE CapacityProofs ---------------------------
(***************************************************************************)
(* Proofs about Capacity: its types, the inbound limit of a cluster whose  *)
(* nodes all know each other, the accounting of the tracking entries, and  *)
(* that the events which release those of a call run out.                  *)
(***************************************************************************)
EXTENDS Capacity, FiniteSetTheorems, TLAPS

(* Every state component stays within its type.                            *)
THEOREM TypeCorrect == Spec => []TypeOK
<1>1. Init => TypeOK
  BY CapacityAssumption DEF Init, TypeOK, NodeState, SessionState
<1>2. TypeOK /\ [Next]_vars => TypeOK'
  <2> SUFFICES ASSUME TypeOK, [Next]_vars
               PROVE  TypeOK'
    OBVIOUS
  <2> USE CapacityAssumption
      DEF TypeOK, NodeState, SessionState, Direction, Event, redis, membership, watch
  <2>1. ASSUME NEW c \in Call, Arrive(c)
        PROVE  TypeOK'
    BY <2>1 DEF Arrive, Goto
  <2>2. ASSUME NEW c \in Call, Session(c)
        PROVE  TypeOK'
    <3>1. CASE CheckIn(c) \/ CheckOut(c)
      BY <3>1 DEF CheckIn, CheckOut, Goto
    <3>2. CASE AdmitIn(c)
      BY <3>2 DEF AdmitIn, Goto, TouchIn, InWatchers, Leg
    <3>3. CASE RejectIn(c)
      BY <3>3 DEF RejectIn, End, Goto, TouchIn, InWatchers, Leg
    <3>4. CASE Abort(c) \/ GiveUp(c) \/ RefuseOut(c)
      BY <3>4 DEF Abort, GiveUp, RefuseOut, End, Goto
    <3>5. CASE AllowOut(c)
      BY <3>5 DEF AllowOut, Goto
    <3>6. CASE Originate(c) \/ OriginateDead(c) \/ Release(c)
      BY <3>6 DEF Originate, OriginateDead, Release, Goto
    <3>7. QED
      BY <2>2, <3>1, <3>2, <3>3, <3>4, <3>5, <3>6 DEF Session
  <2>3. ASSUME NEW d \in Direction, NEW c \in Call, OnCreate(d, c) \/ OnDestroy(d, c)
        PROVE  TypeOK'
    BY <2>3 DEF OnCreate, OnDestroy, TouchIn, TouchOut, InWatchers, OutWatchers, Leg
  <2>4. ASSUME NEW n \in Node, Crash(n)
        PROVE  TypeOK'
    BY <2>4 DEF Crash
  <2>5. ASSUME NEW n \in Node, Join(n) \/ Snapshot(n)
        PROVE  TypeOK'
    BY <2>5 DEF Join, Snapshot
  <2>6. ASSUME NEW n \in Node, Startup(n)
        PROVE  TypeOK'
    BY <2>6 DEF Startup, InWatchers, OutWatchers
  <2>7. ASSUME NEW ms \in MemberList, UpdateCluster(ms)
        PROVE  TypeOK'
    BY <2>7 DEF UpdateCluster
  <2>8. ASSUME NEW n \in Node, NEW ms \in MemberList, SetMembers(n, ms)
        PROVE  TypeOK'
    BY <2>8 DEF SetMembers
  <2>9. CASE UNCHANGED vars
    BY <2>9 DEF vars
  <2>10. QED
    BY <2>1, <2>2, <2>3, <2>4, <2>5, <2>6, <2>7, <2>8, <2>9 DEF Next
<1>3. QED
  BY <1>1, <1>2, PTL DEF Spec

-----------------------------------------------------------------------------
(* Accounting of the tracking entries.                                     *)

(* A channel-create event that is still to be handled belongs to a leg     *)
(* that is up, or its channel-destroy event comes after it.                *)
CreateExplained ==
    \A c \in Call :
        /\ <<"create", "in", c>> \in events =>
              (c \in Live \/ <<"destroy", "in", c>> \in events)
        /\ <<"create", "out", c>> \in events =>
              (c \in Dialled \/ <<"destroy", "out", c>> \in events)

EntriesInv == EntriesAccountedFor /\ CreateExplained

LEMMA EntriesInit == Init => EntriesInv
BY DEF Init, EntriesInv, EntriesAccountedFor, CreateExplained

LEMMA EntriesStep == TypeOK /\ EntriesInv /\ [Next]_vars => EntriesInv'
<1> SUFFICES ASSUME TypeOK, EntriesInv, [Next]_vars
             PROVE  EntriesInv'
  OBVIOUS
<1> USE CapacityAssumption
    DEF TypeOK, NodeState, SessionState, Direction, Event, EntriesInv,
        EntriesAccountedFor, CreateExplained, Removable, Live, Dialled, Leg,
        redis, membership, watch
<1>1. ASSUME NEW c \in Call, Arrive(c)
      PROVE  EntriesInv'
  BY <1>1 DEF Arrive, Goto
<1>2. ASSUME NEW c \in Call, Session(c)
      PROVE  EntriesInv'
  <2>1. CASE CheckIn(c) \/ CheckOut(c) \/ AllowOut(c)
    BY <2>1 DEF CheckIn, CheckOut, AllowOut, Goto
  <2>2. CASE AdmitIn(c)
    BY <2>2 DEF AdmitIn, Goto
  <2>3. CASE RejectIn(c)
    BY <2>3 DEF RejectIn, End, Goto
  <2>4. CASE Abort(c) \/ GiveUp(c) \/ RefuseOut(c)
    BY <2>4 DEF Abort, GiveUp, RefuseOut, End, Goto
  <2>5. CASE Originate(c)
    BY <2>5 DEF Originate, Goto
  <2>6. CASE OriginateDead(c) \/ Release(c)
    BY <2>6 DEF OriginateDead, Release, Goto
  <2>7. QED
    BY <1>2, <2>1, <2>2, <2>3, <2>4, <2>5, <2>6 DEF Session
<1>3. ASSUME NEW d \in Direction, NEW c \in Call, OnCreate(d, c)
      PROVE  EntriesInv'
  <2>1. CASE d = "in"
    <3>1. /\ inset' = inset \cup {Leg(c)}
          /\ outset' = outset
          /\ events' = events \ {<<"create", "in", c>>}
          /\ <<"create", "in", c>> \in events
          /\ UNCHANGED <<pc, node>>
      BY <1>3, <2>1 DEF OnCreate
    <3>2. c \in Live \/ Removable("in", c)'
      BY <3>1
    <3>3. EntriesAccountedFor'
      BY <3>1, <3>2
    <3>4. CreateExplained'
      BY <3>1
    <3>5. QED
      BY <3>3, <3>4
  <2>2. CASE d = "out"
    <3>1. /\ outset' = outset \cup {Leg(c)}
          /\ inset' = inset
          /\ events' = events \ {<<"create", "out", c>>}
          /\ <<"create", "out", c>> \in events
          /\ UNCHANGED <<pc, node>>
      BY <1>3, <2>2 DEF OnCreate
    <3>2. c \in Dialled \/ Removable("out", c)'
      BY <3>1
    <3>3. EntriesAccountedFor'
      <4>1. ASSUME NEW x \in inset
            PROVE  x = Leg(x[2]) /\ (x[2] \in Live' \/ Removable("in", x[2])')
        BY <3>1
      <4>2. ASSUME NEW x \in outset'
            PROVE  x = Leg(x[2]) /\ (x[2] \in Dialled' \/ Removable("out", x[2])')
        <5>1. CASE x = Leg(c)
          <6>1. x[2] = c /\ x = Leg(x[2])
            BY <5>1
          <6>2. CASE c \in Dialled
            BY <3>1, <6>1, <6>2
          <6>3. CASE Removable("out", c)'
            BY <6>1, <6>3
          <6>4. QED
            BY <3>2, <6>2, <6>3
        <5>2. CASE x \in outset
          BY <3>1, <5>2
        <5>3. QED
          BY <3>1, <5>1, <5>2
      <4>3. QED
        BY <3>1, <4>1, <4>2
    <3>4. CreateExplained'
      BY <3>1
    <3>5. QED
      BY <3>3, <3>4
  <2>3. QED
    BY <2>1, <2>2
<1>4. ASSUME NEW d \in Direction, NEW c \in Call, OnDestroy(d, c)
      PROVE  EntriesInv'
  BY <1>4 DEF OnDestroy
<1>5. ASSUME NEW n \in Node, Crash(n)
      PROVE  EntriesInv'
  BY <1>5 DEF Crash, AtNode
<1>6. ASSUME NEW n \in Node, Join(n) \/ Snapshot(n)
      PROVE  EntriesInv'
  BY <1>6 DEF Join, Snapshot
<1>7. ASSUME NEW n \in Node, Startup(n)
      PROVE  EntriesInv'
  BY <1>7 DEF Startup
<1>8. ASSUME NEW ms \in MemberList, UpdateCluster(ms)
      PROVE  EntriesInv'
  BY <1>8 DEF UpdateCluster
<1>9. ASSUME NEW n \in Node, NEW ms \in MemberList, SetMembers(n, ms)
      PROVE  EntriesInv'
  BY <1>9 DEF SetMembers
<1>10. CASE UNCHANGED vars
  BY <1>10 DEF vars
<1>11. QED
  BY <1>1, <1>2, <1>3, <1>4, <1>5, <1>6, <1>7, <1>8, <1>9, <1>10 DEF Next

(* No tracking entry leaks: whatever the nodes do, each one belongs to a   *)
(* leg that is up or will be removed by an event or a startup still due.   *)
THEOREM EntriesAlwaysAccountedFor == Spec => []EntriesAccountedFor
<1>1. Init => EntriesInv
  BY EntriesInit
<1>2. TypeOK /\ EntriesInv /\ [Next]_vars => EntriesInv'
  BY EntriesStep
<1>3. EntriesInv => EntriesAccountedFor
  BY DEF EntriesInv
<1>4. QED
  BY <1>1, <1>2, <1>3, TypeCorrect, PTL DEF Spec

-----------------------------------------------------------------------------
(* The inbound limit.  It needs a settled cluster: every node is in every  *)
(* member list, and takes calls only once its cleanup is over.             *)

Settled ==
    /\ InitialNode = Node
    /\ MemberList \subseteq {Node}
    /\ QuietStartup
    /\ MaxIn >= 0

(* Every running node counts the keys of all nodes, every live call runs   *)
(* on a node that is ready, none is released before it is over, and every  *)
(* admitted call is in its set: what AdmitIn counts includes all of them.  *)
MembersKnown ==
    /\ cluster = Node
    /\ \A n \in Node : node[n] \in {"started", "ready"} => view[n] = Node
    /\ \A c \in Call : pc[c] = "watchin" => cckeys[c] = Node
LiveUndisturbed ==
    /\ \A c \in Live : node[Home[c]] = "ready"
    /\ \A c \in Call : <<"destroy", "in", c>> \in events => pc[c] \in {"hungup", "crashed"}
AdmittedTracked == \A c \in Admitted : Leg(c) \in inset

LimitInv == MembersKnown /\ LiveUndisturbed /\ AdmittedTracked /\ InboundWithinLimit

LEMMA LimitInit == Settled /\ Init => LimitInv
<1> SUFFICES ASSUME Settled, Init
             PROVE  LimitInv
  OBVIOUS
<1>1. Admitted = {}
  BY DEF Init, Admitted
<1>2. InboundWithinLimit
  BY <1>1, FS_EmptySet DEF InboundWithinLimit, Settled
<1>3. QED
  BY <1>1, <1>2
     DEF Init, LimitInv, MembersKnown, LiveUndisturbed, AdmittedTracked, Settled, Live

(* A cardinality that was within the limit stays so when no call is newly  *)
(* admitted.                                                               *)
LEMMA NoNewAdmission ==
    ASSUME InboundWithinLimit, Admitted' \subseteq Admitted
    PROVE  InboundWithinLimit'
<1>1. IsFiniteSet(Admitted)
  BY CapacityAssumption, FS_Subset DEF Admitted
<1>2. Cardinality(Admitted') <= Cardinality(Admitted)
  BY <1>1, FS_Subset
<1>3. /\ Cardinality(Admitted) \in Nat
      /\ Cardinality(Admitted') \in Nat
  BY <1>1, FS_Subset, FS_CardinalityType
<1>4. QED
  BY <1>2, <1>3, CapacityAssumption DEF InboundWithinLimit

(* One EXEC adds the call and counts it with every call admitted before.   *)
LEMMA AdmissionWithinLimit ==
    ASSUME Settled, TypeOK, LimitInv, NEW c \in Call, AdmitIn(c)
    PROVE  InboundWithinLimit'
<1> DEFINE Legs == {Leg(d) : d \in Admitted'}
           Seen == {x \in inset' : x[1] \in Node}
<1>1. Admitted' \subseteq Admitted \cup {c}
  BY DEF AdmitIn, Goto, Admitted, TypeOK
<1>2. Legs \subseteq Seen
  BY <1>1, CapacityAssumption DEF AdmitIn, LimitInv, AdmittedTracked, Leg, Admitted
<1>3. Counted(inset', cckeys[c]) = Cardinality(Seen)
  BY DEF Counted, AdmitIn, LimitInv, MembersKnown
<1>4. IsFiniteSet(Node \X Call)
  BY CapacityAssumption, FS_Product
<1>5. IsFiniteSet(Seen)
  <2>1. Seen \subseteq Node \X Call
    BY CapacityAssumption DEF AdmitIn, TypeOK, Leg
  <2>2. QED
    BY <1>4, <2>1, FS_Subset
<1>6. Cardinality(Legs) <= Cardinality(Seen) /\ IsFiniteSet(Legs)
  BY <1>2, <1>5, FS_Subset
<1>7. IsFiniteSet(Admitted')
  BY CapacityAssumption, FS_Subset DEF Admitted
<1>8. Cardinality(Legs) = Cardinality(Admitted')
  <2> DEFINE f == [d \in Admitted' |-> Leg(d)]
  <2>1. f \in Bijection(Admitted', Legs)
    BY DEF Bijection, Injection, Surjection, IsInjective, Leg
  <2>2. ExistsBijection(Admitted', Legs)
    BY <2>1 DEF ExistsBijection
  <2>3. QED
    BY <1>7, <2>2, FS_Bijection
<1>9. /\ Cardinality(Seen) \in Nat
      /\ Cardinality(Legs) \in Nat
  BY <1>5, <1>6, FS_CardinalityType
<1>10. Cardinality(Seen) <= MaxIn
  BY <1>3 DEF AdmitIn
<1>11. QED
  BY <1>6, <1>8, <1>9, <1>10, CapacityAssumption DEF InboundWithinLimit
LEMMA LimitStep == Settled /\ TypeOK /\ LimitInv /\ [Next]_vars => LimitInv'
<1> SUFFICES ASSUME Settled, TypeOK, LimitInv, [Next]_vars
             PROVE  LimitInv'
  OBVIOUS
<1> USE CapacityAssumption
    DEF Settled, TypeOK, NodeState, SessionState, Direction, Event, LimitInv,
        MembersKnown, LiveUndisturbed, AdmittedTracked, Live, Admitted, Leg,
        redis, membership, watch
<1>1. ASSUME NEW c \in Call, Arrive(c)
      PROVE  LimitInv'
  BY <1>1, NoNewAdmission DEF Arrive, Goto
<1>2. ASSUME NEW c \in Call, Session(c)
      PROVE  LimitInv'
  <2>1. CASE CheckIn(c)
    BY <2>1, NoNewAdmission DEF CheckIn, Goto
  <2>2. CASE AdmitIn(c)
    <3>1. MembersKnown' /\ LiveUndisturbed'
      BY <2>2 DEF AdmitIn, Goto
    <3>2. AdmittedTracked'
      BY <2>2 DEF AdmitIn, Goto
    <3>3. InboundWithinLimit'
      BY <2>2, AdmissionWithinLimit
    <3>4. QED
      BY <3>1, <3>2, <3>3
  <2>3. CASE RejectIn(c)
    BY <2>3, NoNewAdmission DEF RejectIn, End, Goto
  <2>4. CASE Abort(c) \/ GiveUp(c) \/ RefuseOut(c)
    BY <2>4, NoNewAdmission DEF Abort, GiveUp, RefuseOut, End, Goto
  <2>5. CASE CheckOut(c) \/ AllowOut(c)
    BY <2>5, NoNewAdmission DEF CheckOut, AllowOut, Goto
  <2>6. CASE Originate(c)
    BY <2>6, NoNewAdmission DEF Originate, Goto
  <2>7. CASE OriginateDead(c) \/ Release(c)
    BY <2>7, NoNewAdmission DEF OriginateDead, Release, Goto
  <2>8. QED
    BY <1>2, <2>1, <2>2, <2>3, <2>4, <2>5, <2>6, <2>7 DEF Session
<1>3. ASSUME NEW d \in Direction, NEW c \in Call, OnCreate(d, c)
      PROVE  LimitInv'
  BY <1>3, NoNewAdmission DEF OnCreate
<1>4. ASSUME NEW d \in Direction, NEW c \in Call, OnDestroy(d, c)
      PROVE  LimitInv'
  <2>1. CASE d = "in"
    <3>1. c \notin Admitted
      BY <1>4, <2>1 DEF OnDestroy
    <3>2. QED
      BY <1>4, <2>1, <3>1, NoNewAdmission DEF OnDestroy
  <2>2. CASE d = "out"
    BY <1>4, <2>2, NoNewAdmission DEF OnDestroy
  <2>3. QED
    BY <2>1, <2>2
<1>5. ASSUME NEW n \in Node, Crash(n)
      PROVE  LimitInv'
  BY <1>5, NoNewAdmission DEF Crash, AtNode
<1>6. ASSUME NEW n \in Node, Join(n) \/ Snapshot(n)
      PROVE  LimitInv'
  <2>1. MembersKnown'
    <3>1. cluster' = Node
      <4>1. cluster' \in {cluster \cup {n}, cluster}
        BY <1>6 DEF Join, Snapshot
      <4>2. cluster \cup {n} = Node
        OBVIOUS
      <4>3. QED
        BY <4>1, <4>2
    <3>2. ASSUME NEW m \in Node, node'[m] \in {"started", "ready"}
          PROVE  view'[m] = Node
      BY <1>6, <3>2 DEF Join, Snapshot
    <3>3. UNCHANGED <<pc, cckeys>>
      BY <1>6 DEF Join, Snapshot
    <3>4. QED
      BY <3>1, <3>2, <3>3
  <2>2. LiveUndisturbed'
    BY <1>6 DEF Join, Snapshot
  <2>3. AdmittedTracked' /\ Admitted' = Admitted
    BY <1>6 DEF Join, Snapshot
  <2>4. QED
    BY <2>1, <2>2, <2>3, NoNewAdmission
<1>7. ASSUME NEW n \in Node, Startup(n)
      PROVE  LimitInv'
  BY <1>7, NoNewAdmission DEF Startup
<1>8. ASSUME NEW ms \in MemberList, UpdateCluster(ms)
      PROVE  LimitInv'
  BY <1>8, NoNewAdmission DEF UpdateCluster
<1>9. ASSUME NEW n \in Node, NEW ms \in MemberList, SetMembers(n, ms)
      PROVE  LimitInv'
  BY <1>9, NoNewAdmission DEF SetMembers
<1>10. CASE UNCHANGED vars
  BY <1>10, NoNewAdmission DEF vars
<1>11. QED
  BY <1>1, <1>2, <1>3, <1>4, <1>5, <1>6, <1>7, <1>8, <1>9, <1>10 DEF Next

(* In a settled cluster of any size the admitted calls of an inbound       *)
(* interconnection never exceed its class, through crashes and restarts.   *)
THEOREM InboundLimit ==
    ASSUME Settled
    PROVE  Spec => []InboundWithinLimit
<1>1. Init => LimitInv
  BY LimitInit
<1>2. TypeOK /\ LimitInv /\ [Next]_vars => LimitInv'
  BY LimitStep
<1>3. LimitInv => InboundWithinLimit
  BY DEF LimitInv
<1>4. QED
  BY <1>1, <1>2, <1>3, TypeCorrect, PTL DEF Spec

-----------------------------------------------------------------------------
(* Release of the entries of a call that is over.                          *)

(* The events of a call that its node has still to handle: four at most.   *)
Due(c) == {e \in events : e[3] = c}

(* No step brings a call back that is over or fires an event for it, and   *)
(* each event that is handled is one less.                                 *)
DueShrinks ==
    \A c \in Call :
        pc[c] = "hungup" =>
            /\ pc'[c] = "hungup"
            /\ Due(c)' \subseteq Due(c)
            /\ \A d \in Direction : OnCreate(d, c) \/ OnDestroy(d, c) => Due(c)' # Due(c)

LEMMA DueStep == TypeOK /\ Next => DueShrinks
<1> SUFFICES ASSUME TypeOK, Next,
                    NEW b \in Call, pc[b] = "hungup"
             PROVE  /\ pc'[b] = "hungup"
                    /\ Due(b)' \subseteq Due(b)
                    /\ \A d \in Direction :
                          OnCreate(d, b) \/ OnDestroy(d, b) => Due(b)' # Due(b)
  BY DEF DueShrinks
<1>1. pc'[b] = "hungup" /\ Due(b)' \subseteq Due(b)
  <2> USE DEF TypeOK, Due, redis, membership, watch
  <2>1. ASSUME NEW c \in Call, Arrive(c)
        PROVE  pc'[b] = "hungup" /\ Due(b)' \subseteq Due(b)
    BY <2>1 DEF Arrive, Goto
  <2>2. ASSUME NEW c \in Call, Session(c)
        PROVE  pc'[b] = "hungup" /\ Due(b)' \subseteq Due(b)
    <3>1. c # b
      BY <2>2 DEF Session, CheckIn, Abort, AdmitIn, RejectIn, GiveUp, CheckOut,
                  AllowOut, RefuseOut, Originate, OriginateDead, Release
    <3>2. pc'[b] = pc[b]
      BY <2>2, <3>1 DEF Session, CheckIn, Abort, AdmitIn, RejectIn, GiveUp, CheckOut,
                        AllowOut, RefuseOut, Originate, OriginateDead, Release, End, Goto
    <3>3. \A e \in events' : e \in events \/ e[3] = c
      BY <2>2 DEF Session, CheckIn, Abort, AdmitIn, RejectIn, GiveUp, CheckOut,
                  AllowOut, RefuseOut, Originate, OriginateDead, Release, End
    <3>4. QED
      BY <3>1, <3>2, <3>3
  <2>3. ASSUME NEW d \in Direction, NEW c \in Call, OnCreate(d, c) \/ OnDestroy(d, c)
        PROVE  pc'[b] = "hungup" /\ Due(b)' \subseteq Due(b)
    BY <2>3 DEF OnCreate, OnDestroy
  <2>4. ASSUME NEW n \in Node, Crash(n)
        PROVE  pc'[b] = "hungup" /\ Due(b)' \subseteq Due(b)
    BY <2>4 DEF Crash, Live
  <2>5. ASSUME NEW n \in Node, Join(n) \/ Snapshot(n) \/ Startup(n)
        PROVE  pc'[b] = "hungup" /\ Due(b)' \subseteq Due(b)
    BY <2>5 DEF Join, Snapshot, Startup
  <2>6. ASSUME NEW ms \in MemberList, UpdateCluster(ms) \/ \E n \in Node : SetMembers(n, ms)
        PROVE  pc'[b] = "hungup" /\ Due(b)' \subseteq Due(b)
    BY <2>6 DEF UpdateCluster, SetMembers
  <2>7. QED
    BY <2>1, <2>2, <2>3, <2>4, <2>5, <2>6 DEF Next
<1>2. ASSUME NEW d \in Direction, OnCreate(d, b) \/ OnDestroy(d, b)
      PROVE  Due(b)' # Due(b)
  <2>1. PICK k \in {"create", "destroy"} :
           <<k, d, b>> \in events /\ events' = events \ {<<k, d, b>>}
    BY <1>2 DEF OnCreate, OnDestroy
  <2>2. <<k, d, b>> \in Due(b) /\ <<k, d, b>> \notin Due(b)'
    BY <2>1 DEF Due
  <2>3. QED
    BY <2>2
<1>3. QED
  BY <1>1, <1>2

(* Towards CapacityReleased: when the node of a call that is over runs and *)
(* has no event of it left, no entry of it is left; until then the events  *)
(* get fewer, in whatever order they are handled.                          *)
THEOREM ReleaseRunsOut ==
  Spec => /\ [](\A c \in Call :
                  pc[c] = "hungup" /\ Due(c) = {} /\ node[Home[c]] = "ready"
                      => Leg(c) \notin inset \cup outset)
          /\ [][DueShrinks]_vars
<1> DEFINE Gone == \A c \in Call :
                     pc[c] = "hungup" /\ Due(c) = {} /\ node[Home[c]] = "ready"
                         => Leg(c) \notin inset \cup outset
<1>1. EntriesAccountedFor => Gone
  <2> SUFFICES ASSUME EntriesAccountedFor,
                      NEW c \in Call, pc[c] = "hungup", Due(c) = {},
                      node[Home[c]] = "ready"
               PROVE  Leg(c) \notin inset \cup outset
    OBVIOUS
  <2>1. c \notin Live /\ c \notin Dialled
    BY DEF Live, Dialled
  <2>2. \A d \in Direction : ~Removable(d, c)
    BY DEF Removable, Due
  <2>3. Leg(c)[2] = c /\ {"in", "out"} = Direction
    BY DEF Leg, Direction
  <2>4. QED
    BY <2>1, <2>2, <2>3 DEF EntriesAccountedFor
<1>2. TypeOK /\ [Next]_vars => [DueShrinks]_vars
  BY DueStep
<1> HIDE DEF Gone
<1>3. Spec => []Gone /\ [][DueShrinks]_vars
  BY <1>1, <1>2, TypeCorrect, EntriesAlwaysAccountedFor, PTL DEF Spec
<1>4. QED
  BY <1>3 DEF Gone
===============================================================================
