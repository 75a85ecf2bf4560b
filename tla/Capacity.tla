------------------------------ MODULE Capacity ------------------------------
(***************************************************************************)
(* Concurrent-call accounting of one inbound and one outbound              *)
(* interconnection, shared by the nodes of a LibreSBC cluster.             *)
(*                                                                         *)
(* A call arrives at a node and is run by callng/main.lua in its session   *)
(* thread.  The calls in progress are kept in Redis, one set per direction *)
(* and node ('realtime:concurentcalls:<direction>:<name>:<node>'); they    *)
(* are written by the session (verify_concurentcalls), by the event        *)
(* thread of the node (event.capacity.lua) and by its startup scripts.     *)
(*                                                                         *)
(*   inset, outset  the Redis sets, as pairs <<node, call>>                *)
(*   cluster        the Redis set 'cluster:members'                        *)
(*   view           each node's CLUSTERMEMBERS global variable             *)
(*   node           how far each node has started                          *)
(*   pc             how far the session of each call is                    *)
(*   cckeys         nodes whose keys a session's transaction counts        *)
(*   dirty          calls whose WATCHed keys changed since the WATCH       *)
(*   events         channel events the node has fired and not yet handled  *)
(*   bus            CLUSTERMEMBERS values on their way to the nodes        *)
(***************************************************************************)
EXTENDS Integers, FiniteSets

CONSTANTS Node,          \* the nodes that may ever run
          Call,          \* the calls, each with one leg per direction
          Home,          \* the node each call arrives at
          MaxIn,         \* concurentcalls of the inbound capacity class
          MaxOut,        \* concurentcalls of the outbound capacity class
          InitialNode,   \* the nodes already serving in the initial state
          MemberList,    \* the member lists an operator may PUT
          QuietStartup   \* calls wait for event.startup.lua to finish

ASSUME CapacityAssumption ==
    /\ IsFiniteSet(Node)
    /\ IsFiniteSet(Call)
    /\ Home \in [Call -> Node]
    /\ MaxIn \in Int
    /\ MaxOut \in Int
    /\ InitialNode \subseteq Node
    /\ MemberList \subseteq SUBSET Node
    /\ QuietStartup \in BOOLEAN

VARIABLES inset, outset, cluster, view, node, pc, cckeys, dirty, events, bus

redis == <<inset, outset>>
watch == <<cckeys, dirty>>
membership == <<cluster, view, node, bus>>
vars == <<inset, outset, cluster, view, node, pc, cckeys, dirty, events, bus>>

NodeState == {"down", "joining", "started", "ready"}
SessionState == {"new", "check", "watchin", "admitted", "watchout",
                 "dialing", "talking", "hungup", "crashed"}
Direction == {"in", "out"}
Event == {"create", "destroy"} \X Direction \X Call

TypeOK ==
    /\ inset \in SUBSET (Node \X Call)
    /\ outset \in SUBSET (Node \X Call)
    /\ cluster \in SUBSET Node
    /\ view \in [Node -> SUBSET Node]
    /\ node \in [Node -> NodeState]
    /\ pc \in [Call -> SessionState]
    /\ cckeys \in [Call -> SUBSET Node]
    /\ dirty \in SUBSET Call
    /\ events \in SUBSET Event
    /\ bus \in SUBSET (Node \X SUBSET Node)

(* A leg on the wire: its channel exists and its session still runs.       *)
Admitted == {c \in Call : pc[c] \in {"admitted", "watchout", "dialing", "talking"}}
Dialled  == {c \in Call : pc[c] = "talking"}
Live     == {c \in Call : pc[c] \notin {"new", "hungup", "crashed"}}

Leg(c) == <<Home[c], c>>

(* The sum of SCARD over the keys of some nodes: a call is in the set of   *)
(* one node only, so the sum is one cardinality.                           *)
Counted(calls, nodes) == Cardinality({x \in calls : x[1] \in nodes})

-----------------------------------------------------------------------------
Init ==
    /\ inset = {}
    /\ outset = {}
    /\ cluster = InitialNode
    /\ view = [n \in Node |-> IF n \in InitialNode THEN InitialNode ELSE {}]
    /\ node = [n \in Node |-> IF n \in InitialNode THEN "ready" ELSE "down"]
    /\ pc = [c \in Call |-> "new"]
    /\ cckeys = [c \in Call |-> {}]
    /\ dirty = {}
    /\ events = {}
    /\ bus = {}

-----------------------------------------------------------------------------
(* The session thread: callng/main.lua.                                    *)

Goto(c, state) == pc' = [pc EXCEPT ![c] = state]

(* Redis marks a watched key only when its value really changes.           *)
InWatchers(n)  == {c \in Call : pc[c] = "watchin" /\ n \in cckeys[c]}
OutWatchers(n) == {c \in Call : pc[c] = "watchout" /\ n \in cckeys[c]}
TouchIn(n)  == dirty' = IF inset' = inset THEN dirty ELSE dirty \cup InWatchers(n)
TouchOut(n) == dirty' = IF outset' = outset THEN dirty ELSE dirty \cup OutWatchers(n)

(* FreeSWITCH creates the inbound channel, fires CHANNEL_CREATE and runs   *)
(* the dialplan.  STARTUP is fired when the node starts to take calls, and *)
(* its hook runs in the event thread.                                      *)
Arrive(c) ==
    /\ pc[c] = "new"
    /\ node[Home[c]] = "ready" \/ (node[Home[c]] = "started" /\ ~QuietStartup)
    /\ Goto(c, "check")
    /\ events' = events \cup {<<"create", "in", c>>}
    /\ UNCHANGED <<redis, membership, watch>>

(* The session ends without an outbound leg: the script hangs up, or dies  *)
(* in its pcall and FreeSWITCH hangs up.                                   *)
End(c) ==
    /\ Goto(c, "hungup")
    /\ events' = events \cup {<<"destroy", "in", c>>}

(* verify_concurentcalls, inbound: an unlimited class is not counted; else *)
(* WATCH the keys of every member this node knows of.                      *)
CheckIn(c) ==
    /\ pc[c] = "check"
    /\ Goto(c, IF MaxIn < 0 THEN "admitted" ELSE "watchin")
    /\ cckeys' = [cckeys EXCEPT ![c] = view[Home[c]]]
    /\ dirty' = dirty \ {c}
    /\ UNCHANGED <<redis, membership, events>>

(* EXEC of a transaction whose keys changed is refused; with retry=0 the   *)
(* client library raises an error and the script dies in its pcall.        *)
Abort(c) ==
    /\ pc[c] \in {"watchin", "watchout"}
    /\ c \in dirty
    /\ End(c)
    /\ UNCHANGED <<redis, membership, watch>>

(* Mutant: the sets are counted before the call is added to its own.       *)
AdmitInCountFirst(c) ==
    /\ pc[c] = "watchin"
    /\ c \notin dirty
    /\ inset' = inset \cup {Leg(c)}
    /\ Counted(inset, cckeys[c]) <= MaxIn
    /\ Goto(c, "admitted")
    /\ TouchIn(Home[c])
    /\ UNCHANGED <<outset, membership, cckeys, events>>

(* MULTI; SADD the call to this node's set; SCARD every known set; EXEC.   *)
AdmitIn(c) ==
    /\ pc[c] = "watchin"
    /\ c \notin dirty
    /\ inset' = inset \cup {Leg(c)}
    /\ Counted(inset', cckeys[c]) <= MaxIn
    /\ Goto(c, "admitted")
    /\ TouchIn(Home[c])
    /\ UNCHANGED <<outset, membership, cckeys, events>>

RejectIn(c) ==
    /\ pc[c] = "watchin"
    /\ c \notin dirty
    /\ inset' = inset \cup {Leg(c)}
    /\ Counted(inset', cckeys[c]) > MaxIn
    /\ End(c)
    /\ TouchIn(Home[c])
    /\ UNCHANGED <<outset, membership, cckeys>>

(* Any other way out of main() before a leg is dialled: interconnection    *)
(* disabled, CPS violated, no route, blocked route, CPS queue too long.    *)
GiveUp(c) ==
    /\ pc[c] \in {"check", "admitted"}
    /\ End(c)
    /\ UNCHANGED <<redis, membership, watch>>

(* verify_concurentcalls, outbound: the transaction only counts.           *)
CheckOut(c) ==
    /\ pc[c] = "admitted"
    /\ Goto(c, IF MaxOut < 0 THEN "dialing" ELSE "watchout")
    /\ cckeys' = [cckeys EXCEPT ![c] = view[Home[c]]]
    /\ dirty' = dirty \ {c}
    /\ UNCHANGED <<redis, membership, events>>

AllowOut(c) ==
    /\ pc[c] = "watchout"
    /\ c \notin dirty
    /\ Counted(outset, cckeys[c]) < MaxOut
    /\ Goto(c, "dialing")
    /\ UNCHANGED <<redis, membership, watch, events>>

RefuseOut(c) ==
    /\ pc[c] = "watchout"
    /\ c \notin dirty
    /\ Counted(outset, cckeys[c]) >= MaxOut
    /\ End(c)
    /\ UNCHANGED <<redis, membership, watch>>

(* freeswitch.Session(...) creates the outbound channel ...                *)
Originate(c) ==
    /\ pc[c] = "dialing"
    /\ Goto(c, "talking")
    /\ events' = events \cup {<<"create", "out", c>>}
    /\ UNCHANGED <<redis, membership, watch>>

(* ... or finds the gateway dead: no CHANNEL_CREATE, yet CHANNEL_DESTROY.  *)
OriginateDead(c) ==
    /\ pc[c] = "dialing"
    /\ Goto(c, "hungup")
    /\ events' = events \cup {<<"destroy", "out", c>>, <<"destroy", "in", c>>}
    /\ UNCHANGED <<redis, membership, watch>>

(* The outbound leg fails, or is bridged and ends; both legs are released. *)
Release(c) ==
    /\ pc[c] = "talking"
    /\ Goto(c, "hungup")
    /\ events' = events \cup {<<"destroy", "out", c>>, <<"destroy", "in", c>>}
    /\ UNCHANGED <<redis, membership, watch>>

Session(c) ==
    \/ CheckIn(c) \/ Abort(c) \/ AdmitIn(c) \/ RejectIn(c) \/ GiveUp(c)
    \/ CheckOut(c) \/ AllowOut(c) \/ RefuseOut(c)
    \/ Originate(c) \/ OriginateDead(c) \/ Release(c)

-----------------------------------------------------------------------------
(* The event thread of a node: event.capacity.lua, run once per event; the *)
(* events of one leg are handled in the order they were fired.             *)

OnCreate(d, c) ==
    /\ <<"create", d, c>> \in events
    /\ events' = events \ {<<"create", d, c>>}
    /\ \/ /\ d = "in"
          /\ inset' = inset \cup {Leg(c)}
          /\ outset' = outset
          /\ TouchIn(Home[c])
       \/ /\ d = "out"
          /\ outset' = outset \cup {Leg(c)}
          /\ inset' = inset
          /\ TouchOut(Home[c])
    /\ UNCHANGED <<membership, pc, cckeys>>

(* Mutant: the interconnection of an outbound leg is looked up in          *)
(* variable_user_name, which an outbound leg does not have.                *)
OnDestroyByUser(d, c) ==
    /\ <<"destroy", d, c>> \in events
    /\ <<"create", d, c>> \notin events
    /\ events' = events \ {<<"destroy", d, c>>}
    /\ inset' = IF d = "in" THEN inset \ {Leg(c)} ELSE inset
    /\ outset' = outset
    /\ dirty' = dirty
    /\ UNCHANGED <<membership, pc, cckeys>>

OnDestroy(d, c) ==
    /\ <<"destroy", d, c>> \in events
    /\ <<"create", d, c>> \notin events
    /\ events' = events \ {<<"destroy", d, c>>}
    /\ \/ /\ d = "in"
          /\ inset' = inset \ {Leg(c)}
          /\ outset' = outset
          /\ TouchIn(Home[c])
       \/ /\ d = "out"
          /\ outset' = outset \ {Leg(c)}
          /\ inset' = inset
          /\ TouchOut(Home[c])
    /\ UNCHANGED <<membership, pc, cckeys>>

-----------------------------------------------------------------------------
(* The life of a node.                                                     *)

AtNode(n) == {c \in Call : Home[c] = n}

(* A crash loses the calls and the unhandled events; Redis keeps its sets. *)
Crash(n) ==
    /\ node[n] # "down"
    /\ node' = [node EXCEPT ![n] = "down"]
    /\ pc' = [c \in Call |-> IF c \in Live \cap AtNode(n) THEN "crashed" ELSE pc[c]]
    /\ events' = {e \in events : e[3] \notin AtNode(n)}
    /\ UNCHANGED <<redis, cluster, view, watch, bus>>

(* event.initiation.lua: SADD cluster:members, ...                         *)
Join(n) ==
    /\ node[n] = "down"
    /\ node' = [node EXCEPT ![n] = "joining"]
    /\ cluster' = cluster \cup {n}
    /\ UNCHANGED <<redis, view, pc, watch, events, bus>>

(* Mutant: the joined list of members is stored as the name of one.        *)
SnapshotUnsplit(n) ==
    /\ node[n] = "joining"
    /\ node' = [node EXCEPT ![n] = "started"]
    /\ view' = [view EXCEPT ![n] = {cluster}]
    /\ UNCHANGED <<redis, cluster, pc, watch, events, bus>>

(* ... then SMEMBERS into CLUSTERMEMBERS.  Its clean_node_capacity deletes *)
(* the keys 'realtime:capacity:*:<node>', and no key has that form.        *)
Snapshot(n) ==
    /\ node[n] = "joining"
    /\ node' = [node EXCEPT ![n] = "started"]
    /\ view' = [view EXCEPT ![n] = cluster]
    /\ UNCHANGED <<redis, cluster, pc, watch, events, bus>>

(* Mutant: only the inbound keys match the pattern.                        *)
StartupInboundOnly(n) ==
    /\ node[n] = "started"
    /\ node' = [node EXCEPT ![n] = "ready"]
    /\ inset' = {x \in inset : x[1] # n}
    /\ dirty' = dirty \cup (IF inset' = inset THEN {} ELSE InWatchers(n))
    /\ UNCHANGED <<outset, cluster, view, pc, cckeys, events, bus>>

(* event.startup.lua, on STARTUP: delete every call-tracking key of the    *)
(* node.                                                                   *)
Startup(n) ==
    /\ node[n] = "started"
    /\ node' = [node EXCEPT ![n] = "ready"]
    /\ inset' = {x \in inset : x[1] # n}
    /\ outset' = {x \in outset : x[1] # n}
    /\ dirty' = dirty \cup (IF inset' = inset THEN {} ELSE InWatchers(n))
                      \cup (IF outset' = outset THEN {} ELSE OutWatchers(n))
    /\ UNCHANGED <<cluster, view, pc, cckeys, events, bus>>

(* PUT /libreapi/cluster: only members can be listed, so the set in Redis  *)
(* stays as it is; the list goes to the registered nodes, of which a       *)
(* subscriber that reconnects or a socket that fails reaches only some ... *)
UpdateCluster(ms) ==
    /\ ms # {}
    /\ ms \subseteq cluster
    /\ \E reached \in SUBSET cluster : bus' = bus \cup (reached \X {ms})
    /\ UNCHANGED <<redis, cluster, view, node, pc, watch, events>>

(* ... by one fssocket thread per message, in any order; a node that is    *)
(* down never gets it.                                                     *)
SetMembers(n, ms) ==
    /\ <<n, ms>> \in bus
    /\ bus' = bus \ {<<n, ms>>}
    /\ view' = IF node[n] \in {"started", "ready"} THEN [view EXCEPT ![n] = ms] ELSE view
    /\ UNCHANGED <<redis, cluster, node, pc, watch, events>>

-----------------------------------------------------------------------------
Next ==
    \/ \E c \in Call : Arrive(c) \/ Session(c)
    \/ \E d \in Direction, c \in Call : OnCreate(d, c) \/ OnDestroy(d, c)
    \/ \E n \in Node : Crash(n) \/ Join(n) \/ Snapshot(n) \/ Startup(n)
    \/ \E ms \in MemberList : UpdateCluster(ms)
    \/ \E n \in Node, ms \in MemberList : SetMembers(n, ms)

Spec == Init /\ [][Next]_vars

(* The event thread of a running node and a script it has started always   *)
(* go on.  Nothing makes a call arrive or end, or a node crash or restart. *)
Fairness ==
    /\ \A d \in Direction, c \in Call : WF_vars(OnCreate(d, c)) /\ WF_vars(OnDestroy(d, c))
    /\ \A n \in Node : WF_vars(Snapshot(n)) /\ WF_vars(Startup(n))

FairSpec == Spec /\ Fairness

-----------------------------------------------------------------------------
(* Properties.                                                             *)

(* However the nodes of a settled cluster interleave, with node crashes    *)
(* and restarts, the calls past verify_concurentcalls(INBOUND) never       *)
(* exceed the class: each adds itself before it counts, in one EXEC.       *)
InboundWithinLimit == MaxIn >= 0 => Cardinality(Admitted) <= MaxIn

(* A tracking entry never outlives what will remove it: its leg is up, or  *)
(* its CHANNEL_DESTROY is still to be handled, or its node has crashed and *)
(* event.startup.lua has not run since.  No entry leaks capacity for good. *)
Removable(d, c) == \/ <<"destroy", d, c>> \in events
                   \/ node[Home[c]] # "ready"
EntriesAccountedFor ==
    /\ \A x \in inset :  /\ x = Leg(x[2])
                        /\ (x[2] \in Live \/ Removable("in", x[2]))
    /\ \A x \in outset : /\ x = Leg(x[2])
                        /\ (x[2] \in Dialled \/ Removable("out", x[2]))

(* Once a call is over, its entries disappear unless its node goes down:   *)
(* capacity_handler releases both legs, in whatever order events come.     *)
CapacityReleased ==
    \A c \in Call :
        pc[c] = "hungup" ~> \/ Leg(c) \notin inset \cup outset
                           \/ node[Home[c]] = "down"
=============================================================================
