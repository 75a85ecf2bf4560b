------------------------------ MODULE ConfigPush ------------------------------
(***************************************************************************)
(* How a change of the configuration reaches FreeSWITCH.  A worker of the  *)
(* API stores it in Redis (liberator/libreapi.py) and publishes what has   *)
(* changed.  Every liberator of the cluster has subscribed: its            *)
(* BaseEventHandler (liberator/basemgr.py) turns each message into         *)
(* commands, and a thread of its own (fssocket) sends them, in order, to   *)
(* one node after the other.  A node that is told to start, restart or     *)
(* rescan a SIP profile, or to reload its XML, fetches the configuration   *)
(* as it is then (liberator/cfgapi.py).                                    *)
(*                                                                         *)
(*   profile    the settings of each SIP profile, those of its network     *)
(*              alias included, as the number of the request that made     *)
(*              them, and 0 for none                                       *)
(*   gateway    the settings of each gateway, likewise                     *)
(*   out        profile and gateways of each outbound interconnection      *)
(*   asked      how many requests have been made                           *)
(*   unsent     messages of requests that are stored, not yet published    *)
(*   listening  the liberators whose subscription stands                   *)
(*   inbox      the messages each liberator has received                   *)
(*   threads    the threads that send commands                             *)
(*   state      whether a node is down, loading its configuration, or up   *)
(*   running    the profiles that run on each node, with their gateways    *)
(*   xml, dist  the gateways of each interconnection in the XML that a     *)
(*              node has loaded, and in its distributor                    *)
(*   missed     nodes that a fault has kept a command from since they      *)
(*              started; a history, for the properties                     *)
(*   renamed    names that a gateway has given up; a history likewise      *)
(***************************************************************************)
EXTENDS Integers, Sequences, FiniteSets, Bags

CONSTANTS Liberator, Node, Profile, Gateway, Out,
          Unreliable,   \* liberators that may lose their subscription
          Faults,       \* what else may go wrong, of Fault
          MaxRequests,  \* bound on the requests
          Careful,      \* whether requests keep to Considerate
          None          \* nothing

(* die: a worker dies before it publishes.  crash: a node crashes while    *)
(* nobody talks to it.  cut: it crashes while it is sent commands.  slow:  *)
(* the tries to connect to a node end while it is loading.                 *)
Fault == {"die", "crash", "cut", "slow"}

(* The settings are as old as the request that made them.                  *)
Version == 1 .. MaxRequests
Configured == [settings : Version, gws : UNION {[G -> Version] : G \in SUBSET Gateway}]
Connection == [profile : Profile, gws : SUBSET Gateway]

Message == [kind : {"netalias", "profile", "gateway", "out"},
            new : Profile \cup {None}, old : Profile \cup {None},
            gws : SUBSET Gateway,
            inuse : UNION {[G -> 0 .. Cardinality(Out)] : G \in SUBSET Gateway},
            profiles : SUBSET Profile, gw : Gateway \cup {None}]

FsCommand == [do : {"start", "stop", "restart", "rescan", "reloadxml", "distributor"},
              profile : Profile \cup {None}, gw : {None}]
             \cup [do : {"killgw"}, profile : Profile \cup {None}, gw : Gateway \cup {None}]

ASSUME PushAssumption ==
    /\ IsFiniteSet(Node) /\ IsFiniteSet(Profile)
    /\ IsFiniteSet(Gateway) /\ IsFiniteSet(Out)
    /\ Unreliable \subseteq Liberator /\ Unreliable # Liberator
    /\ Faults \subseteq Fault
    /\ MaxRequests \in Nat \ {0}
    /\ Careful \in BOOLEAN
    /\ None \notin Profile \cup Gateway \cup Node \cup Configured \cup Connection

VARIABLES profile, gateway, out, asked, unsent, listening, inbox, threads,
          state, running, xml, dist, missed, renamed

store == <<profile, gateway, out, asked, renamed>>
bus == <<unsent, listening, inbox>>
nodes == <<state, running, xml, dist, missed>>
vars == <<profile, gateway, out, asked, unsent, listening, inbox, threads,
          state, running, xml, dist, missed, renamed>>

-----------------------------------------------------------------------------
(* What is stored, and what cfgapi.py makes of it.                         *)

Stored == {p \in Profile : profile[p] # 0}
Users(g) == {o \in Out : out[o] # None /\ g \in out[o].gws}
Engaging(p) == {o \in Out : out[o] # None /\ out[o].profile = p}
Needed(p) == UNION {out[o].gws : o \in Engaging(p)}

Sip(p) == [settings |-> profile[p], gws |-> [g \in Needed(p) |-> gateway[g]]]

Lists == [o \in Out |-> IF out[o] = None THEN {} ELSE out[o].gws]

(* Mutant: a profile that is not stored is served with its gateways.       *)
LoadedAll == [p \in Profile |-> Sip(p)]

Loaded == [p \in Profile |-> IF p \in Stored THEN Sip(p) ELSE None]

-----------------------------------------------------------------------------
(* The commands of a message.                                              *)

Command(do, p, g) == [do |-> do, profile |-> p, gw |-> g]
Reload == Command("reloadxml", None, None)

SeqOf(S) == CHOOSE s \in [1 .. Cardinality(S) -> S] :
               \A i, j \in DOMAIN s : s[i] = s[j] => i = j

(* The gateways that an interconnection leaves and that are then removed.  *)
(* inuse: how many interconnections used them, this one included.          *)
(* Mutant: after a change of profile the old one keeps them.               *)
GoneKept(m) ==
    IF m.new # None /\ m.new # m.old THEN {}
    ELSE {g \in DOMAIN m.inuse : m.inuse[g] <= 1 /\ g \notin m.gws}

Gone(m) ==
    IF m.new # None /\ m.new # m.old THEN DOMAIN m.inuse
    ELSE {g \in DOMAIN m.inuse : m.inuse[g] <= 1 /\ g \notin m.gws}

(* Mutant: the profile under the old name goes on.                         *)
ProfileCommandsNoStop(m) ==
    (CASE m.new = None -> <<Command("stop", m.old, None)>>
       [] m.new = m.old -> <<Command("restart", m.new, None)>>
       [] OTHER -> <<Command("start", m.new, None)>>)
    \o (IF m.old = None THEN <<>> ELSE <<Reload>>)

ProfileCommands(m) ==
    (IF m.old \notin {None, m.new} THEN <<Command("stop", m.old, None)>> ELSE <<>>)
    \o (CASE m.new = None -> <<>>
          [] m.new = m.old -> <<Command("restart", m.new, None)>>
          [] OTHER -> <<Command("start", m.new, None)>>)
    \o (IF m.old = None THEN <<>> ELSE <<Reload>>)

(* Mutant: a new interconnection is left to the next scan.                 *)
OutCommandsNoRescan(m) ==
    SeqOf({Command("killgw", m.old, g) : g \in IF m.old = None THEN {} ELSE Gone(m)})
    \o (IF m.new = None \/ m.old = None THEN <<>> ELSE <<Command("rescan", m.new, None)>>)
    \o <<Reload, Command("distributor", None, None)>>

(* Mutant: the distributor is reloaded before the XML it reads.            *)
OutCommandsSwapped(m) ==
    SeqOf({Command("killgw", m.old, g) : g \in IF m.old = None THEN {} ELSE Gone(m)})
    \o (IF m.new = None THEN <<>> ELSE <<Command("rescan", m.new, None)>>)
    \o <<Command("distributor", None, None), Reload>>

OutCommands(m) ==
    SeqOf({Command("killgw", m.old, g) : g \in IF m.old = None THEN {} ELSE Gone(m)})
    \o (IF m.new = None THEN <<>> ELSE <<Command("rescan", m.new, None)>>)
    \o <<Reload, Command("distributor", None, None)>>

Commands(m) ==
    CASE m.kind = "netalias" ->
            SeqOf({Command("restart", p, None) : p \in m.profiles}) \o <<Reload>>
      [] m.kind = "profile" -> ProfileCommands(m)
      [] m.kind = "gateway" ->
            <<Command("killgw", m.new, m.gw), Command("rescan", m.new, None), Reload>>
      [] m.kind = "out" -> OutCommands(m)

(* What is on its way to the nodes, as lists of commands.                  *)
Told == BagToSet(unsent) \cup UNION {{inbox[l][i] : i \in DOMAIN inbox[l]} : l \in Liberator}
InFlight == {Commands(m) : m \in {x \in Told : x.kind # "gateway"}}
            \cup {t.cmds : t \in {x \in BagToSet(threads) : x.todo # {}}}
            \cup {t.left : t \in BagToSet(threads)}

(* Commands under way take nothing away that is stored: a profile that is  *)
(* stopped has not been made again, and a gateway that is removed is not   *)
(* needed, unless the profile is scanned again after that.                 *)
Restored(cs, i) == \E j \in DOMAIN cs : /\ j > i /\ cs[j].do = "rescan"
                                        /\ cs[j].profile = cs[i].profile
Harmless ==
    \A cs \in InFlight : \A i \in DOMAIN cs :
       /\ cs[i].do = "stop" => cs[i].profile \notin Stored
       /\ cs[i].do = "killgw" => \/ cs[i].gw \notin Needed(cs[i].profile)
                                 \/ Restored(cs, i)

(* The update of a gateway is published for the profile that had it.       *)
Published ==
    \A m \in {x \in BagToSet(unsent) : x.kind = "gateway"} :
       m.profiles \subseteq {out[o].profile : o \in UNION {Users(h) : h \in m.gws}}

(* "gateway can be assigned to multiple intconnection only if they use the *)
(* same sip profile", which the code means to check.                       *)
OneProfile == \A o, q \in Out :
                 out[o] # None /\ out[q] # None /\ out[o].gws \cap out[q].gws # {}
                 => out[o].profile = out[q].profile

-----------------------------------------------------------------------------
(* Requests.  Each stores its data at once; ConfigStore has their steps.   *)

Blank == [kind |-> "netalias", new |-> None, old |-> None,
          gws |-> {}, inuse |-> [g \in {} |-> 0], profiles |-> {}, gw |-> None]

Request(ms) ==
    /\ asked < MaxRequests
    /\ asked' = asked + 1
    /\ unsent' = unsent (+) SetToBag(ms)
    /\ UNCHANGED <<listening, inbox, threads, nodes>>
    /\ Careful => (Harmless /\ Published /\ OneProfile)'

UpdateNetalias ==
    \E S \in (SUBSET Stored) \ {{}} :
       /\ profile' = [p \in Profile |-> IF p \in S THEN asked + 1 ELSE profile[p]]
       /\ UNCHANGED <<gateway, out, renamed>>
       /\ Request({[Blank EXCEPT !.profiles = S]})

CreateProfile ==
    \E p \in Profile \ Stored :
       /\ profile' = [profile EXCEPT ![p] = asked + 1]
       /\ UNCHANGED <<gateway, out, renamed>>
       /\ Request({[Blank EXCEPT !.kind = "profile", !.new = p]})

(* The update of a profile, perhaps with another name.                     *)
UpdateProfile ==
    \E p \in Stored : \E q \in (Profile \ Stored) \cup {p} :
       /\ profile' = [profile EXCEPT ![p] = 0, ![q] = asked + 1]
       /\ out' = [o \in Out |-> IF o \in Engaging(p) THEN [out[o] EXCEPT !.profile = q]
                                ELSE out[o]]
       /\ UNCHANGED <<gateway, renamed>>
       /\ Request({[Blank EXCEPT !.kind = "profile", !.new = q, !.old = p]})

DeleteProfile ==
    \E p \in Stored :
       /\ Engaging(p) = {}
       /\ profile' = [profile EXCEPT ![p] = 0]
       /\ UNCHANGED <<gateway, out, renamed>>
       /\ Request({[Blank EXCEPT !.kind = "profile", !.old = p]})

(* The update of a gateway, perhaps with another name.                     *)
UpdateGateway ==
    \E g \in Gateway, h \in Gateway :
       /\ gateway[g] # 0 /\ (h # g => gateway[h] = 0)
       /\ gateway' = [gateway EXCEPT ![g] = 0, ![h] = asked + 1]
       /\ out' = [o \in Out |-> IF o \in Users(g)
                                THEN [out[o] EXCEPT !.gws = (@ \ {g}) \cup {h}]
                                ELSE out[o]]
       /\ renamed' = renamed \cup ({g} \ {h})
       /\ UNCHANGED profile
       /\ Request({[Blank EXCEPT !.kind = "gateway", !.gws = {h}, !.gw = g,
                         !.profiles = {out[o].profile : o \in Users(g)}]})

Known == {g \in Gateway : gateway[g] # 0}
Outbound(p, G) == [profile |-> p, gws |-> G]
InUse(o) == [g \in out[o].gws |-> Cardinality(Users(g))]

CreateOutbound ==
    \E o \in Out, p \in Stored, G \in (SUBSET Known) \ {{}} :
       /\ out[o] = None
       /\ out' = [out EXCEPT ![o] = Outbound(p, G)]
       /\ UNCHANGED <<profile, gateway, renamed>>
       /\ Request({[Blank EXCEPT !.kind = "out", !.new = p]})

(* The message of an update is published on this condition: not, as its    *)
(* comment has it, if the profile or the gateways are others.              *)
Announced(o, p, G) == p # out[o].profile \/ G = out[o].gws

(* An update, perhaps with another name.                                   *)
UpdateOutbound ==
    \E o \in Out, q \in Out, p \in Stored, G \in (SUBSET Known) \ {{}} :
       /\ out[o] # None /\ (q # o => out[q] = None)
       /\ Careful => Announced(o, p, G)
       /\ out' = [out EXCEPT ![o] = None, ![q] = Outbound(p, G)]
       /\ UNCHANGED <<profile, gateway, renamed>>
       /\ Request({m \in {[Blank EXCEPT !.kind = "out", !.new = p, !.old = out[o].profile,
                                        !.gws = G, !.inuse = InUse(o)]} :
                      Announced(o, p, G)})

DeleteOutbound ==
    \E o \in Out :
       /\ out[o] # None
       /\ out' = [out EXCEPT ![o] = None]
       /\ UNCHANGED <<profile, gateway, renamed>>
       /\ Request({[Blank EXCEPT !.kind = "out", !.old = out[o].profile, !.inuse = InUse(o)]})

(* The message goes to the liberators that listen.  Of an updated gateway  *)
(* the profile of one of its users is published, if it has any.            *)
Publishable(m) ==
    IF m.kind = "gateway"
    THEN {[m EXCEPT !.new = out[o].profile] : o \in UNION {Users(h) : h \in m.gws}}
    ELSE {m}

Publish ==
    \E m \in BagToSet(unsent) :
       /\ unsent' = unsent (-) SetToBag({m})
       /\ IF Publishable(m) = {} THEN UNCHANGED inbox
          ELSE \E x \in Publishable(m) :
                  inbox' = [l \in Liberator |-> IF l \in listening
                                                THEN Append(inbox[l], x) ELSE inbox[l]]
       /\ UNCHANGED <<store, listening, threads, nodes>>

WorkerDies ==
    /\ "die" \in Faults
    /\ \E m \in BagToSet(unsent) : unsent' = unsent (-) SetToBag({m})
    /\ missed' = Node
    /\ UNCHANGED <<store, listening, inbox, threads, state, running, xml, dist>>

-----------------------------------------------------------------------------
(* The liberators.                                                         *)

(* A message becomes a thread.                                             *)
Handle(l) ==
    /\ inbox[l] # <<>>
    /\ inbox' = [inbox EXCEPT ![l] = Tail(@)]
    /\ threads' = threads (+) SetToBag({[cmds |-> Commands(Head(inbox[l])),
                                         node |-> None, left |-> <<>>, todo |-> Node]})
    /\ UNCHANGED <<store, unsent, listening, nodes>>

(* An exception ends the subscription: what was received and not handled   *)
(* is lost, and what is published until the handler subscribes again.      *)
LoseSubscription(l) ==
    /\ l \in Unreliable \cap listening
    /\ listening' = listening \ {l}
    /\ inbox' = [inbox EXCEPT ![l] = <<>>]
    /\ UNCHANGED <<store, unsent, threads, nodes>>

Subscribe(l) ==
    /\ l \notin listening
    /\ listening' = listening \cup {l}
    /\ UNCHANGED <<store, unsent, inbox, threads, nodes>>

Become(t, u) ==
    threads' = (threads (-) SetToBag({t}))
               (+) SetToBag(IF u.todo = {} /\ u.left = <<>> THEN {} ELSE {u})

Connect(t, n) ==
    /\ t.left = <<>> /\ n \in t.todo
    /\ state[n] = "up"
    /\ Become(t, [t EXCEPT !.node = n, !.left = t.cmds, !.todo = @ \ {n}])
    /\ UNCHANGED <<store, bus, nodes>>

(* Three tries to connect have failed.                                     *)
Skip(t, n) ==
    /\ t.left = <<>> /\ n \in t.todo
    /\ \/ state[n] = "down" /\ UNCHANGED missed
       \/ state[n] = "loading" /\ "slow" \in Faults /\ missed' = missed \cup {n}
    /\ Become(t, [t EXCEPT !.todo = @ \ {n}])
    /\ UNCHANGED <<store, bus, state, running, xml, dist>>

-----------------------------------------------------------------------------
(* FreeSWITCH.                                                             *)

Set(n, p, r) == running' = [running EXCEPT ![n][p] = r]

(* Gateways that run stay as they are; a profile keeps its settings.       *)
Rescanned(r, s) ==
    [r EXCEPT !.gws = [g \in DOMAIN r.gws \cup DOMAIN s.gws |->
                          IF g \in DOMAIN r.gws THEN r.gws[g] ELSE s.gws[g]]]

Perform(n, c) ==
    LET p == c.profile IN
    CASE c.do = "reloadxml" -> xml' = [xml EXCEPT ![n] = Lists] /\ UNCHANGED <<running, dist>>
      [] c.do = "distributor" -> dist' = [dist EXCEPT ![n] = xml[n]] /\ UNCHANGED <<running, xml>>
      [] OTHER ->
         /\ UNCHANGED <<xml, dist>>
         /\ CASE c.do = "start" /\ running[n][p] = None -> Set(n, p, Loaded[p])
              [] c.do = "stop" -> Set(n, p, None)
              [] c.do = "restart" /\ running[n][p] # None -> Set(n, p, Loaded[p])
              [] c.do = "rescan" /\ running[n][p] # None /\ p \in Stored ->
                    Set(n, p, Rescanned(running[n][p], Sip(p)))
              [] c.do = "killgw" /\ running[n][p] # None ->
                    Set(n, p, [running[n][p] EXCEPT
                                  !.gws = [g \in DOMAIN @ \ {c.gw} |-> @[g]]])
              [] OTHER -> UNCHANGED running

Send(t) ==
    /\ t.left # <<>>
    /\ Perform(t.node, Head(t.left))
    /\ Become(t, [t EXCEPT !.left = Tail(@)])
    /\ UNCHANGED <<store, bus, state, missed>>

Thread(t) == Send(t) \/ \E n \in Node : Connect(t, n) \/ Skip(t, n)

(* A thread that is sending to a node that crashes gets an exception, and  *)
(* ends, without the nodes it still had to do.                             *)
Talking(n) == {t \in BagToSet(threads) : t.node = n /\ t.left # <<>>}

Crash(n) ==
    /\ state[n] # "down"
    /\ IF Talking(n) = {} THEN "crash" \in Faults ELSE "cut" \in Faults
    /\ missed' = missed \cup UNION {t.todo : t \in Talking(n)}
    /\ threads' = [t \in DOMAIN threads \ Talking(n) |-> threads[t]]
    /\ state' = [state EXCEPT ![n] = "down"]
    /\ UNCHANGED <<store, bus, running, xml, dist>>

(* A node that starts loads what is stored; later it can be talked to.     *)
Load(n) ==
    /\ state[n] = "down"
    /\ state' = [state EXCEPT ![n] = "loading"]
    /\ running' = [running EXCEPT ![n] = Loaded]
    /\ xml' = [xml EXCEPT ![n] = Lists]
    /\ dist' = [dist EXCEPT ![n] = Lists]
    /\ missed' = missed \ {n}
    /\ UNCHANGED <<store, bus, threads>>

Listen(n) ==
    /\ state[n] = "loading"
    /\ state' = [state EXCEPT ![n] = "up"]
    /\ UNCHANGED <<store, bus, threads, running, xml, dist, missed>>

-----------------------------------------------------------------------------
(* At first the nodes run what is stored.                                  *)
Init ==
    /\ profile \in [Profile -> {0, 1}]
    /\ gateway \in [Gateway -> {0, 1}]
    /\ out \in [Out -> [profile : Stored, gws : (SUBSET Known) \ {{}}] \cup {None}]
    /\ OneProfile
    /\ asked = 1
    /\ unsent = EmptyBag
    /\ listening = Liberator
    /\ inbox = [l \in Liberator |-> <<>>]
    /\ threads = EmptyBag
    /\ state = [n \in Node |-> "up"]
    /\ running = [n \in Node |-> Loaded]
    /\ xml = [n \in Node |-> Lists]
    /\ dist = [n \in Node |-> Lists]
    /\ missed = {} /\ renamed = {}

Next ==
    \/ UpdateNetalias
    \/ CreateProfile \/ UpdateProfile \/ DeleteProfile
    \/ UpdateGateway
    \/ CreateOutbound \/ UpdateOutbound \/ DeleteOutbound
    \/ Publish \/ WorkerDies
    \/ \E l \in Liberator : Handle(l) \/ LoseSubscription(l) \/ Subscribe(l)
    \/ \E t \in BagToSet(threads) : Thread(t)
    \/ \E n \in Node : Crash(n) \/ Load(n) \/ Listen(n)

Spec == Init /\ [][Next]_vars

-----------------------------------------------------------------------------
Job == [cmds : Seq(FsCommand), node : Node \cup {None},
        left : Seq(FsCommand), todo : SUBSET Node]

(* The variables keep their types: what runs on a node was stored once.    *)
TypeOK ==
    /\ profile \in [Profile -> {0} \cup Version]
    /\ gateway \in [Gateway -> {0} \cup Version]
    /\ out \in [Out -> Connection \cup {None}]
    /\ asked \in Version /\ renamed \subseteq Gateway
    /\ IsABag(unsent) /\ BagToSet(unsent) \subseteq Message
    /\ listening \subseteq Liberator
    /\ inbox \in [Liberator -> Seq(Message)]
    /\ IsABag(threads) /\ BagToSet(threads) \subseteq Job
    /\ state \in [Node -> {"down", "loading", "up"}]
    /\ running \in [Node -> [Profile -> Configured \cup {None}]]
    /\ xml \in [Node -> [Out -> SUBSET Gateway]]
    /\ dist \in [Node -> [Out -> SUBSET Gateway]]
    /\ missed \subseteq Node

Quiet == unsent = EmptyBag /\ threads = EmptyBag /\ \A l \in Liberator : inbox[l] = <<>>

(* A node that is not down, and that no fault has kept a command from.     *)
Sound == {n \in Node : state[n] # "down"} \ missed

(* When nothing is under way every sound node runs the profiles that are   *)
(* stored, with the settings that are stored last, and no other: although  *)
(* each liberator sends the commands of each change, in threads that run   *)
(* side by side, and the settings are read when a command is carried out.  *)
ProfilesRun ==
    Quiet => \A n \in Sound, p \in Profile :
                IF p \in Stored
                THEN running[n][p] # None /\ running[n][p].settings = profile[p]
                ELSE running[n][p] = None

(* When nothing is under way the gateways of every outbound                *)
(* interconnection run in its profile, with their last settings: no late   *)
(* removal has taken away what a request gave back.                        *)
GatewaysLoaded ==
    Quiet => \A n \in Sound, p \in Stored : \A g \in Needed(p) :
                /\ running[n][p] # None
                /\ g \in DOMAIN running[n][p].gws
                /\ running[n][p].gws[g] = gateway[g]

(* When nothing is under way a profile runs no gateway that no             *)
(* interconnection of it has: what was deleted, renamed or moved to        *)
(* another profile does not go on registering.                             *)
NoStrayGateway ==
    Quiet => \A n \in Sound, p \in Stored :
                running[n][p] # None => DOMAIN running[n][p].gws \subseteq Needed(p)

(* When nothing is under way the distributor of a node has the gateways of *)
(* every interconnection, unless it has one that has been renamed: the     *)
(* commands for a renamed gateway do not reload the distributor.           *)
ListsCurrent ==
    Quiet => \A n \in Sound, o \in Out :
                dist[n][o] = Lists[o] \/ dist[n][o] \cap renamed # {}
=============================================================================
