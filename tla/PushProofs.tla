------------------------------ MODULE PushProofs ------------------------------
(***************************************************************************)
(* Proofs about ConfigPush, for any liberators, nodes, profiles, gateways, *)
(* interconnections and any number of requests: the types; and, of         *)
(* requests that are Careful, that the nodes end up with what is stored.   *)
(***************************************************************************)
EXTENDS ConfigPush, FiniteSetTheorems, SequenceTheorems, TLAPS

-----------------------------------------------------------------------------
(* What is still to be carried out on a node, as lists of commands: by     *)
(* way of the liberators that keep their subscription, and the threads.    *)
Reliable == Liberator \ Unreliable

Sendable(m) == IF m.kind = "gateway" THEN {[m EXCEPT !.new = p] : p \in m.profiles}
               ELSE {m}

Owed(n) == {Commands(x) : x \in UNION {Sendable(m) : m \in BagToSet(unsent)}}
           \cup (UNION {{Commands(inbox[l][i]) : i \in DOMAIN inbox[l]} : l \in Reliable})
           \cup {t.cmds : t \in {u \in BagToSet(threads) : n \in u.todo}}
           \cup {t.left : t \in {u \in BagToSet(threads) : u.node = n}}

Has(cs, c) == \E i \in DOMAIN cs : cs[i] = c
Due(n, c) == \E cs \in Owed(n) : Has(cs, c)

(* What is not as it is stored is going to be made so.                     *)
ProfileDue(n, p) ==
    IF p \in Stored
    THEN /\ running[n][p] = None => Due(n, Command("start", p, None))
         /\ running[n][p] # None /\ running[n][p].settings # profile[p]
               => Due(n, Command("restart", p, None))
    ELSE running[n][p] # None => Due(n, Command("stop", p, None))

GatewayDue(n, p, g) ==
    IF g \in Needed(p)
    THEN IF g \in DOMAIN running[n][p].gws
         THEN running[n][p].gws[g] # gateway[g] => Due(n, Command("killgw", p, g))
         ELSE Due(n, Command("rescan", p, None))
    ELSE g \in DOMAIN running[n][p].gws => Due(n, Command("killgw", p, g))

GatewaysDue(n, p) ==
    p \in Stored /\ running[n][p] # None =>
       \/ Due(n, Command("restart", p, None))
       \/ \A g \in Gateway : GatewayDue(n, p, g)

(* A list has a gateway that was renamed, or is as it is stored.           *)
Fresh(list, o) == list[o] = Lists[o] \/ list[o] \cap renamed # {}

Distribute == Command("distributor", None, None)
Refreshes(cs) == \E i, j \in DOMAIN cs : i < j /\ cs[i] = Reload /\ cs[j] = Distribute

ListDue(n, o) ==
    /\ Fresh(xml[n], o) \/ \E cs \in Owed(n) : Refreshes(cs)
    /\ \/ Fresh(dist[n], o)
       \/ \E cs \in Owed(n) : Refreshes(cs)
       \/ Fresh(xml[n], o) /\ Due(n, Distribute)

NodeDue(n) == /\ \A p \in Profile : ProfileDue(n, p) /\ GatewaysDue(n, p)
              /\ \A o \in Out : ListDue(n, o)

(* What an interconnection names is stored.                                *)
NamesStored == \A o \in Out : out[o] # None =>
                  /\ out[o].profile \in Stored
                  /\ out[o].gws \subseteq Known

(* A thread that has commands left is connected.                           *)
Talks == \A t \in BagToSet(threads) : t.left # <<>> => t.node \in Node

(* The update of a gateway is of one gateway, under its new name.          *)
OneGateway(m) == m.kind = "gateway" => \E h \in Gateway : m.gws = {h}

TypeInv == /\ TypeOK /\ NamesStored /\ Talks
           /\ \A m \in BagToSet(unsent) : OneGateway(m)

CareInv == Harmless /\ Published /\ OneProfile

DueInv == /\ Reliable \subseteq listening
          /\ \A n \in Sound : NodeDue(n)

-----------------------------------------------------------------------------
(* Bags and lists.                                                         *)
LEMMA BagPut ==
  ASSUME NEW B, NEW S, IsABag(B)
  PROVE  /\ IsABag(B (+) SetToBag(S))
         /\ BagToSet(B (+) SetToBag(S)) = BagToSet(B) \cup S
BY DEF IsABag, (+), SetToBag, BagToSet

LEMMA BagTake ==
  ASSUME NEW B, NEW S, IsABag(B)
  PROVE  /\ IsABag(B (-) SetToBag(S))
         /\ BagToSet(B (-) SetToBag(S)) \subseteq BagToSet(B)
         /\ BagToSet(B) \ S \subseteq BagToSet(B (-) SetToBag(S))
<1> DEFINE C == [e \in DOMAIN B |-> IF e \in DOMAIN SetToBag(S) THEN B[e] - SetToBag(S)[e] ELSE B[e]]
<1>1. B (-) SetToBag(S) = [e \in {d \in DOMAIN C : C[d] > 0} |-> C[e]]
  BY DEF (-)
<1>2. \A e \in DOMAIN B : C[e] \in Int /\ (e \notin S => C[e] = B[e] /\ B[e] \in Nat /\ B[e] > 0)
  BY DEF IsABag, SetToBag
<1>3. DOMAIN C = DOMAIN B
  OBVIOUS
<1> HIDE DEF C
<1>4. QED
  BY <1>1, <1>2, <1>3 DEF IsABag, BagToSet

LEMMA BagEmpty == IsABag(EmptyBag) /\ BagToSet(EmptyBag) = {}
BY DEF IsABag, EmptyBag, SetToBag, BagToSet

(* A list of the members of a finite set.                                  *)
LEMMA SeqOfIs ==
  ASSUME NEW S \in SUBSET FsCommand, IsFiniteSet(S)
  PROVE  /\ SeqOf(S) \in Seq(FsCommand)
         /\ \A x \in S : Has(SeqOf(S), x)
<1> DEFINE n == Cardinality(S)
<1>1. n \in Nat /\ ExistsBijection(1 .. n, S)
  BY FS_NatBijection, FS_CardinalityType, FS_CountingElements
<1>2. PICK s \in Bijection(1 .. n, S) : TRUE
  BY <1>1 DEF ExistsBijection
<1>3. s \in [1 .. n -> S] /\ \A i, j \in DOMAIN s : s[i] = s[j] => i = j
  BY <1>2 DEF Bijection, Injection, IsInjective
<1>4. SeqOf(S) \in [1 .. n -> S] /\ \A i, j \in 1 .. n : SeqOf(S)[i] = SeqOf(S)[j] => i = j
  BY <1>3 DEF SeqOf
<1>5. SeqOf(S) \in Injection(1 .. n, S)
  BY <1>4 DEF Injection, IsInjective
<1>6. SeqOf(S) \in Surjection(1 .. n, S)
  BY <1>1, <1>5, FS_Injection, FS_Interval
<1>7. \A x \in S : \E i \in 1 .. n : SeqOf(S)[i] = x
  BY <1>6 DEF Surjection
<1>8. QED
  BY <1>1, <1>4, <1>7 DEF Has

LEMMA HasConcat ==
  ASSUME NEW s \in Seq(FsCommand), NEW t \in Seq(FsCommand)
  PROVE  /\ s \o t \in Seq(FsCommand)
         /\ \A c : Has(s, c) \/ Has(t, c) => Has(s \o t, c)
         /\ Refreshes(t) => Refreshes(s \o t)
<1>1. s \o t \in Seq(FsCommand) /\ DOMAIN s = 1 .. Len(s) /\ DOMAIN t = 1 .. Len(t)
      /\ DOMAIN (s \o t) = 1 .. Len(s) + Len(t) /\ Len(s) \in Nat /\ Len(t) \in Nat
  OBVIOUS
<1>2. /\ \A i \in DOMAIN s : i \in DOMAIN (s \o t) /\ (s \o t)[i] = s[i]
      /\ \A i \in DOMAIN t : Len(s) + i \in DOMAIN (s \o t) /\ (s \o t)[Len(s) + i] = t[i]
  BY <1>1
<1>3. \A c : Has(s, c) \/ Has(t, c) => Has(s \o t, c)
  BY <1>2 DEF Has
<1>4. Refreshes(t) => Refreshes(s \o t)
  <2> SUFFICES ASSUME NEW i \in DOMAIN t, NEW j \in DOMAIN t,
                      i < j, t[i] = Reload, t[j] = Distribute
               PROVE  Refreshes(s \o t)
    BY DEF Refreshes
  <2>1. Len(s) + i < Len(s) + j
    BY <1>1
  <2>2. QED
    BY <1>2, <2>1 DEF Refreshes
<1>5. QED
  BY <1>1, <1>3, <1>4

(* What is left of a list when its first command has been carried out.     *)
LEMMA HasTail ==
  ASSUME NEW s \in Seq(FsCommand), s # <<>>
  PROVE  /\ Tail(s) \in Seq(FsCommand) /\ Head(s) \in FsCommand
         /\ \A c : Has(s, c) => Has(Tail(s), c) \/ c = Head(s)
         /\ Refreshes(s) => \/ Refreshes(Tail(s))
                            \/ Head(s) = Reload /\ Has(Tail(s), Distribute)
<1>1. /\ Tail(s) \in Seq(FsCommand) /\ Head(s) \in FsCommand
      /\ Head(s) = s[1] /\ 1 \in DOMAIN s
      /\ DOMAIN s \subseteq Nat \ {0}
      /\ \A i \in DOMAIN s : i # 1 => i - 1 \in DOMAIN Tail(s) /\ Tail(s)[i - 1] = s[i]
  OBVIOUS
<1>2. \A c : Has(s, c) => Has(Tail(s), c) \/ c = Head(s)
  BY <1>1 DEF Has
<1>3. ASSUME NEW i \in DOMAIN s, NEW j \in DOMAIN s, i < j, s[i] = Reload, s[j] = Distribute
      PROVE  \/ Refreshes(Tail(s))
             \/ Head(s) = Reload /\ Has(Tail(s), Distribute)
  <2>1. i \in Nat /\ j \in Nat /\ i # 0 /\ j # 1 /\ j - 1 \in DOMAIN Tail(s) /\ Tail(s)[j - 1] = s[j]
    BY <1>1, <1>3
  <2>2. CASE i = 1
    BY <1>1, <1>3, <2>1, <2>2 DEF Has
  <2>3. CASE i # 1
    <3>1. i - 1 \in DOMAIN Tail(s) /\ Tail(s)[i - 1] = Reload
      BY <1>1, <1>3, <2>3
    <3>2. i - 1 < j - 1
      BY <1>3, <2>1 DEF Reload
    <3>3. QED
      BY <1>3, <2>1, <3>1, <3>2 DEF Refreshes
  <2>4. QED
    BY <2>2, <2>3
<1>4. QED
  BY <1>1, <1>2, <1>3 DEF Refreshes

-----------------------------------------------------------------------------
(* The commands of a message.                                              *)
LEMMA CommandType ==
  ASSUME NEW do \in {"start", "stop", "restart", "rescan", "reloadxml", "distributor"},
         NEW p \in Profile \cup {None}, NEW g \in Gateway \cup {None}
  PROVE  Command(do, p, None) \in FsCommand /\ Command("killgw", p, g) \in FsCommand
BY DEF Command, FsCommand

LEMMA OfCommand ==
  ASSUME NEW c \in FsCommand
  PROVE  /\ c.do \in {"start", "stop", "restart", "rescan", "killgw", "reloadxml", "distributor"}
         /\ c.profile \in Profile \cup {None} /\ c.gw \in Gateway \cup {None}
         /\ c = Command(c.do, c.profile, c.gw)
         /\ c.do = "rescan" => c = Command("rescan", c.profile, None)
BY DEF Command, FsCommand

LEMMA CommandIs ==
  ASSUME NEW do, NEW p, NEW g
  PROVE  /\ Command(do, p, g).do = do /\ Command(do, p, g).profile = p
         /\ Command(do, p, g).gw = g
BY DEF Command

LEMMA OfMessage ==
  ASSUME NEW m \in Message
  PROVE  /\ m.kind \in {"netalias", "profile", "gateway", "out"}
         /\ m.new \in Profile \cup {None} /\ m.old \in Profile \cup {None}
         /\ m.gws \in SUBSET Gateway /\ DOMAIN m.inuse \in SUBSET Gateway
         /\ m.profiles \in SUBSET Profile /\ m.gw \in Gateway \cup {None}
BY DEF Message

LEMMA NetaliasCommands ==
  ASSUME NEW m \in Message, m.kind = "netalias"
  PROVE  /\ Commands(m) \in Seq(FsCommand)
         /\ \A p \in m.profiles : Has(Commands(m), Command("restart", p, None))
<1> DEFINE S == {Command("restart", p, None) : p \in m.profiles}
<1>1. Commands(m) = SeqOf(S) \o <<Reload>>
  BY DEF Commands
<1>2. S \subseteq FsCommand /\ Reload \in FsCommand
  BY OfMessage, CommandType DEF Reload
<1>3. IsFiniteSet(S)
  <2>1. IsFiniteSet(m.profiles)
    BY OfMessage, FS_Subset, PushAssumption DEF PushAssumption
  <2> DEFINE f == [p \in m.profiles |-> Command("restart", p, None)]
  <2>2. f \in Surjection(m.profiles, S)
    BY DEF Surjection
  <2>3. QED
    BY <2>1, <2>2, FS_Surjection
<1> HIDE DEF S
<1>4. SeqOf(S) \in Seq(FsCommand) /\ \A x \in S : Has(SeqOf(S), x)
  BY <1>2, <1>3, SeqOfIs
<1>5. <<Reload>> \in Seq(FsCommand)
  BY <1>2
<1>6. /\ Commands(m) \in Seq(FsCommand)
      /\ \A x \in S : Has(Commands(m), x)
  BY <1>1, <1>4, <1>5, HasConcat
<1>7. QED
  BY <1>6 DEF S

LEMMA GatewayCommands ==
  ASSUME NEW m \in Message, m.kind = "gateway"
  PROVE  LET cs == Commands(m) IN
         /\ cs \in Seq(FsCommand) /\ DOMAIN cs = {1, 2, 3}
         /\ cs[1] = Command("killgw", m.new, m.gw)
         /\ cs[2] = Command("rescan", m.new, None)
         /\ cs[3] = Reload
<1>1. Commands(m) = <<Command("killgw", m.new, m.gw), Command("rescan", m.new, None), Reload>>
  BY DEF Commands
<1>2. /\ Command("killgw", m.new, m.gw) \in FsCommand
      /\ Command("rescan", m.new, None) \in FsCommand
      /\ Reload \in FsCommand
  BY OfMessage, CommandType DEF Reload
<1>3. QED
  BY <1>1, <1>2

LEMMA ProfileCommandsAre ==
  ASSUME NEW m \in Message, m.kind = "profile"
  PROVE  LET cs == Commands(m) IN
         /\ cs \in Seq(FsCommand)
         /\ m.old # None /\ m.old # m.new => Has(cs, Command("stop", m.old, None))
         /\ m.new # None /\ m.old # m.new => Has(cs, Command("start", m.new, None))
         /\ m.new # None /\ m.old = m.new => Has(cs, Command("restart", m.new, None))
<1> DEFINE A == IF m.old \notin {None, m.new} THEN <<Command("stop", m.old, None)>> ELSE <<>>
           B == CASE m.new = None -> <<>>
                  [] m.new = m.old -> <<Command("restart", m.new, None)>>
                  [] OTHER -> <<Command("start", m.new, None)>>
           C == IF m.old = None THEN <<>> ELSE <<Reload>>
<1>1. Commands(m) = A \o B \o C
  BY DEF Commands, ProfileCommands
<1>2. /\ \A p \in {m.new, m.old} : /\ Command("stop", p, None) \in FsCommand
                                   /\ Command("start", p, None) \in FsCommand
                                   /\ Command("restart", p, None) \in FsCommand
      /\ Reload \in FsCommand
  BY OfMessage, CommandType DEF Reload
<1>3. A \in Seq(FsCommand) /\ C \in Seq(FsCommand)
  BY <1>2
<1>4. /\ m.new = None => B \in {<<>>, <<Command("restart", m.new, None)>>}
      /\ m.new # None /\ m.new = m.old => B = <<Command("restart", m.new, None)>>
      /\ m.new # None /\ m.new # m.old => B = <<Command("start", m.new, None)>>
  OBVIOUS
<1>5. B \in Seq(FsCommand)
  BY <1>2, <1>4
<1>6. \A c : Has(<<c>>, c)
  BY DEF Has
<1>7. /\ m.old # None /\ m.old # m.new => Has(A, Command("stop", m.old, None))
      /\ m.new # None /\ m.old # m.new => Has(B, Command("start", m.new, None))
      /\ m.new # None /\ m.old = m.new => Has(B, Command("restart", m.new, None))
  BY <1>4, <1>6
<1> HIDE DEF A, B, C
<1>8. A \o B \in Seq(FsCommand) /\ \A c : Has(A, c) \/ Has(B, c) => Has(A \o B, c)
  BY <1>3, <1>5, HasConcat
<1>9. (A \o B) \o C \in Seq(FsCommand) /\ \A c : Has(A \o B, c) => Has((A \o B) \o C, c)
  BY <1>3, <1>8, HasConcat
<1>10. QED
  BY <1>1, <1>7, <1>8, <1>9

LEMMA GoneIs ==
  ASSUME NEW m \in Message
  PROVE  Gone(m) \subseteq Gateway /\ IsFiniteSet(Gone(m))
BY OfMessage, FS_Subset, PushAssumption DEF Gone, PushAssumption

LEMMA OutCommandsAre ==
  ASSUME NEW m \in Message, m.kind = "out"
  PROVE  LET cs == Commands(m) IN
         /\ cs \in Seq(FsCommand)
         /\ m.old # None => \A g \in Gone(m) : Has(cs, Command("killgw", m.old, g))
         /\ m.new # None => Has(cs, Command("rescan", m.new, None))
         /\ Refreshes(cs)
<1> DEFINE G == IF m.old = None THEN {} ELSE Gone(m)
           S == {Command("killgw", m.old, g) : g \in G}
           B == IF m.new = None THEN <<>> ELSE <<Command("rescan", m.new, None)>>
           C == <<Reload, Distribute>>
<1>1. Commands(m) = SeqOf(S) \o B \o C
  BY DEF Commands, OutCommands, Distribute
<1>2. S \subseteq FsCommand
  BY OfMessage, GoneIs, CommandType
<1>3. IsFiniteSet(S)
  <2>1. IsFiniteSet(G)
    BY GoneIs, FS_EmptySet
  <2> DEFINE f == [g \in G |-> Command("killgw", m.old, g)]
  <2>2. f \in Surjection(G, S)
    BY DEF Surjection
  <2>3. QED
    BY <2>1, <2>2, FS_Surjection
<1>4. B \in Seq(FsCommand) /\ C \in Seq(FsCommand)
  BY OfMessage, CommandType DEF Reload, Distribute
<1>5. m.new # None => Has(B, Command("rescan", m.new, None))
  BY DEF Has
<1>6. Refreshes(C)
  <2>1. 1 \in DOMAIN C /\ 2 \in DOMAIN C /\ C[1] = Reload /\ C[2] = Distribute
    OBVIOUS
  <2>2. QED
    BY <2>1 DEF Refreshes
<1>7. m.old # None => \A g \in Gone(m) : Command("killgw", m.old, g) \in S
  OBVIOUS
<1> HIDE DEF S, B, C
<1>8. SeqOf(S) \in Seq(FsCommand) /\ \A x \in S : Has(SeqOf(S), x)
  BY <1>2, <1>3, SeqOfIs
<1>9. /\ SeqOf(S) \o B \in Seq(FsCommand)
      /\ \A c : Has(SeqOf(S), c) \/ Has(B, c) => Has(SeqOf(S) \o B, c)
  BY <1>4, <1>8, HasConcat
<1>10. /\ (SeqOf(S) \o B) \o C \in Seq(FsCommand)
       /\ \A c : Has(SeqOf(S) \o B, c) => Has((SeqOf(S) \o B) \o C, c)
       /\ Refreshes((SeqOf(S) \o B) \o C)
  BY <1>4, <1>6, <1>9, HasConcat
<1>11. QED
  BY <1>1, <1>5, <1>7, <1>8, <1>9, <1>10

LEMMA CommandsType ==
  ASSUME NEW m \in Message
  PROVE  Commands(m) \in Seq(FsCommand)
BY OfMessage, NetaliasCommands, GatewayCommands, ProfileCommandsAre, OutCommandsAre

-----------------------------------------------------------------------------
(* The types.                                                              *)

Requests == \/ UpdateNetalias \/ CreateProfile \/ UpdateProfile \/ DeleteProfile
            \/ UpdateGateway
            \/ CreateOutbound \/ UpdateOutbound \/ DeleteOutbound

LEMMA OfConnection ==
  ASSUME TypeOK, NEW o \in Out, out[o] # None
  PROVE  out[o] \in Connection /\ out[o].profile \in Profile /\ out[o].gws \in SUBSET Gateway
BY DEF TypeOK, Connection

LEMMA OutboundIs ==
  ASSUME NEW p, NEW G
  PROVE  /\ Outbound(p, G).profile = p /\ Outbound(p, G).gws = G
         /\ p \in Profile /\ G \in SUBSET Gateway
               => Outbound(p, G) \in Connection /\ Outbound(p, G) # None
<1>1. Outbound(p, G) = [profile |-> p, gws |-> G]
  BY DEF Outbound
<1>2. p \in Profile /\ G \in SUBSET Gateway => Outbound(p, G) \in Connection
  BY <1>1 DEF Connection
<1>3. QED
  BY <1>1, <1>2, PushAssumption DEF PushAssumption

LEMMA InUseType ==
  ASSUME TypeOK, NEW o \in Out, out[o] # None
  PROVE  /\ InUse(o) \in UNION {[G -> 0 .. Cardinality(Out)] : G \in SUBSET Gateway}
         /\ DOMAIN InUse(o) = out[o].gws
<1>1. \A g \in Gateway : Cardinality(Users(g)) \in 0 .. Cardinality(Out)
  <2> SUFFICES ASSUME NEW g \in Gateway
               PROVE  Cardinality(Users(g)) \in 0 .. Cardinality(Out)
    OBVIOUS
  <2>1. Users(g) \in SUBSET Out /\ IsFiniteSet(Out)
    BY PushAssumption DEF Users, PushAssumption
  <2>2. /\ IsFiniteSet(Users(g)) /\ Cardinality(Users(g)) <= Cardinality(Out)
        /\ Cardinality(Users(g)) \in Nat /\ Cardinality(Out) \in Nat
    BY <2>1, FS_Subset, FS_CardinalityType
  <2>3. QED
    BY <2>2
<1>2. out[o].gws \in SUBSET Gateway
  BY OfConnection
<1>3. InUse(o) \in [out[o].gws -> 0 .. Cardinality(Out)]
  BY <1>1, <1>2 DEF InUse
<1>4. QED
  BY <1>2, <1>3

LEMMA BlankIs ==
  /\ Blank \in Message
  /\ Blank.kind = "netalias" /\ Blank.new = None /\ Blank.old = None /\ Blank.gws = {}
  /\ Blank.profiles = {} /\ Blank.gw = None
<1> DEFINE E == [g \in {} |-> 0]
<1>1. E \in [{} -> 0 .. Cardinality(Out)]
  OBVIOUS
<1>2. E \in UNION {[G -> 0 .. Cardinality(Out)] : G \in SUBSET Gateway}
  BY <1>1
<1> HIDE DEF E
<1>3. Blank = [kind |-> "netalias", new |-> None, old |-> None,
               gws |-> {}, inuse |-> E, profiles |-> {}, gw |-> None]
  BY DEF Blank, E
<1>4. QED
  BY <1>2, <1>3 DEF Message

(* The messages of requests.                                               *)
NetaliasMessage(S) == [Blank EXCEPT !.profiles = S]
ProfileMessage(new, old) == [Blank EXCEPT !.kind = "profile", !.new = new, !.old = old]
GatewayMessage(g, h, S) == [Blank EXCEPT !.kind = "gateway", !.gws = {h}, !.gw = g, !.profiles = S]
OutMessage(new, old, G, u) == [Blank EXCEPT !.kind = "out", !.new = new, !.old = old,
                                            !.gws = G, !.inuse = u]

LEMMA NetaliasMessageIs ==
  ASSUME NEW S \in SUBSET Profile
  PROVE  /\ NetaliasMessage(S) \in Message /\ NetaliasMessage(S).kind = "netalias"
         /\ NetaliasMessage(S).profiles = S
BY BlankIs DEF Message, NetaliasMessage

LEMMA ProfileMessageIs ==
  ASSUME NEW new \in Profile \cup {None}, NEW old \in Profile \cup {None}
  PROVE  /\ ProfileMessage(new, old) \in Message /\ ProfileMessage(new, old).kind = "profile"
         /\ ProfileMessage(new, old).new = new /\ ProfileMessage(new, old).old = old
BY BlankIs DEF Message, ProfileMessage

LEMMA GatewayMessageIs ==
  ASSUME NEW g \in Gateway, NEW h \in Gateway, NEW S \in SUBSET Profile
  PROVE  /\ GatewayMessage(g, h, S) \in Message /\ GatewayMessage(g, h, S).kind = "gateway"
         /\ GatewayMessage(g, h, S).gws = {h} /\ GatewayMessage(g, h, S).gw = g
         /\ GatewayMessage(g, h, S).profiles = S
BY BlankIs DEF Message, GatewayMessage

LEMMA OutMessageIs ==
  ASSUME NEW new \in Profile \cup {None}, NEW old \in Profile \cup {None}, NEW G \in SUBSET Gateway,
         NEW u \in UNION {[D -> 0 .. Cardinality(Out)] : D \in SUBSET Gateway}
  PROVE  /\ OutMessage(new, old, G, u) \in Message /\ OutMessage(new, old, G, u).kind = "out"
         /\ OutMessage(new, old, G, u).new = new /\ OutMessage(new, old, G, u).old = old
         /\ OutMessage(new, old, G, u).gws = G /\ OutMessage(new, old, G, u).inuse = u
BY BlankIs DEF Message, OutMessage

LEMMA NextVersion ==
  ASSUME TypeOK, NEW ms, Request(ms)
  PROVE  asked + 1 \in Version /\ asked + 1 # 0
BY PushAssumption DEF TypeOK, Version, PushAssumption, Request

(* What requests make of what is stored.                                   *)
StoreKept == /\ profile' \in [Profile -> {0} \cup Version]
             /\ gateway' \in [Gateway -> {0} \cup Version]
             /\ out' \in [Out -> Connection \cup {None}]
             /\ renamed' \subseteq Gateway
             /\ NamesStored'
             /\ \E ms \in SUBSET Message : Request(ms) /\ \A m \in ms : OneGateway(m)

LEMMA RequestStores ==
  ASSUME TypeOK, NamesStored, Requests
  PROVE  StoreKept
<1> USE DEF StoreKept
<1>1. /\ profile \in [Profile -> {0} \cup Version] /\ gateway \in [Gateway -> {0} \cup Version]
      /\ out \in [Out -> Connection \cup {None}] /\ renamed \subseteq Gateway
  BY DEF TypeOK
<1>2. Stored \subseteq Profile /\ Known \subseteq Gateway
  BY DEF Stored, Known
<1>3. CASE UpdateNetalias
  <2>1. PICK S \in (SUBSET Stored) \ {{}} :
           /\ profile' = [p \in Profile |-> IF p \in S THEN asked + 1 ELSE profile[p]]
           /\ UNCHANGED <<gateway, out, renamed>>
           /\ Request({NetaliasMessage(S)})
    BY <1>3 DEF UpdateNetalias, NetaliasMessage
  <2>2. asked + 1 \in Version /\ asked + 1 # 0
    BY <2>1, NextVersion
  <2>3. NamesStored'
    BY <2>1, <2>2, OfConnection DEF NamesStored, Stored, Known
  <2>4. NetaliasMessage(S) \in Message /\ OneGateway(NetaliasMessage(S))
    BY <1>2, NetaliasMessageIs DEF OneGateway
  <2>5. QED
    BY <1>1, <2>1, <2>2, <2>3, <2>4
<1>4. CASE CreateProfile
  <2>1. PICK p \in Profile \ Stored :
           /\ profile' = [profile EXCEPT ![p] = asked + 1]
           /\ UNCHANGED <<gateway, out, renamed>>
           /\ Request({[Blank EXCEPT !.kind = "profile", !.new = p]})
    BY <1>4 DEF CreateProfile
  <2>2. asked + 1 \in Version /\ asked + 1 # 0
    BY <2>1, NextVersion
  <2>3. NamesStored'
    BY <1>1, <2>1, <2>2, OfConnection DEF NamesStored, Stored, Known
  <2>4. /\ [Blank EXCEPT !.kind = "profile", !.new = p] \in Message
        /\ OneGateway([Blank EXCEPT !.kind = "profile", !.new = p])
    BY BlankIs DEF Message, OneGateway
  <2>5. QED
    BY <1>1, <2>1, <2>2, <2>3, <2>4
<1>5. CASE UpdateProfile
  <2>1. PICK p \in Stored : \E q \in (Profile \ Stored) \cup {p} :
           /\ profile' = [profile EXCEPT ![p] = 0, ![q] = asked + 1]
           /\ out' = [o \in Out |-> IF o \in Engaging(p) THEN [out[o] EXCEPT !.profile = q]
                                    ELSE out[o]]
           /\ UNCHANGED <<gateway, renamed>>
           /\ Request({ProfileMessage(q, p)})
    BY <1>5 DEF UpdateProfile, ProfileMessage
  <2>2. PICK q \in (Profile \ Stored) \cup {p} :
           /\ profile' = [profile EXCEPT ![p] = 0, ![q] = asked + 1]
           /\ out' = [o \in Out |-> IF o \in Engaging(p) THEN [out[o] EXCEPT !.profile = q]
                                    ELSE out[o]]
           /\ UNCHANGED <<gateway, renamed>>
           /\ Request({ProfileMessage(q, p)})
    BY <2>1
  <2>3. asked + 1 \in Version /\ asked + 1 # 0 /\ p \in Profile /\ q \in Profile
    BY <1>2, <2>2, NextVersion
  <2>4. \A o \in Out : out'[o] # None =>
           /\ out[o] # None
           /\ out'[o] = IF out[o].profile = p THEN [out[o] EXCEPT !.profile = q] ELSE out[o]
    BY <2>2 DEF Engaging
  <2>5. \A c \in Connection : /\ [c EXCEPT !.profile = q] \in Connection
                              /\ [c EXCEPT !.profile = q].profile = q
                              /\ [c EXCEPT !.profile = q].gws = c.gws
    BY <2>3 DEF Connection
  <2>6. out' \in [Out -> Connection \cup {None}]
    BY <1>1, <2>2, <2>5 DEF Engaging
  <2>7. NamesStored'
    <3>1. \A o \in Out : out'[o] # None =>
             /\ out[o] # None /\ out'[o].gws = out[o].gws
             /\ out'[o].profile = IF out[o].profile = p THEN q ELSE out[o].profile
      BY <1>1, <2>4, <2>5
    <3>2. Stored' = (Stored \ {p}) \cup {q} /\ Known' = Known
      BY <1>1, <2>2, <2>3 DEF Stored, Known
    <3>3. QED
      BY <3>1, <3>2 DEF NamesStored
  <2>8. ProfileMessage(q, p) \in Message /\ OneGateway(ProfileMessage(q, p))
    BY <2>3, ProfileMessageIs DEF OneGateway
  <2>9. QED
    BY <1>1, <2>2, <2>3, <2>6, <2>7, <2>8
<1>6. CASE DeleteProfile
  <2>1. PICK p \in Stored :
           /\ Engaging(p) = {}
           /\ profile' = [profile EXCEPT ![p] = 0]
           /\ UNCHANGED <<gateway, out, renamed>>
           /\ Request({[Blank EXCEPT !.kind = "profile", !.old = p]})
    BY <1>6 DEF DeleteProfile
  <2>2. NamesStored'
    BY <1>1, <2>1, OfConnection DEF NamesStored, Stored, Known, Engaging
  <2> DEFINE m == [Blank EXCEPT !.kind = "profile", !.old = p]
  <2>3. m \in Message /\ OneGateway(m)
    BY <1>2, BlankIs DEF Message, OneGateway
  <2>4. /\ profile' = [profile EXCEPT ![p] = 0]
        /\ UNCHANGED <<gateway, out, renamed>>
        /\ Request({m})
    BY <2>1
  <2> HIDE DEF m
  <2>5. profile' \in [Profile -> {0} \cup Version]
    BY <1>1, <2>4
  <2>6. QED
    BY <1>1, <2>2, <2>3, <2>4, <2>5
<1>7. CASE UpdateGateway
  <2>1. PICK g \in Gateway, h \in Gateway :
           /\ gateway[g] # 0 /\ (h # g => gateway[h] = 0)
           /\ gateway' = [gateway EXCEPT ![g] = 0, ![h] = asked + 1]
           /\ out' = [o \in Out |-> IF o \in Users(g)
                                    THEN [out[o] EXCEPT !.gws = (@ \ {g}) \cup {h}]
                                    ELSE out[o]]
           /\ renamed' = renamed \cup ({g} \ {h})
           /\ UNCHANGED profile
           /\ Request({GatewayMessage(g, h, {out[o].profile : o \in Users(g)})})
    BY <1>7 DEF UpdateGateway, GatewayMessage
  <2>2. asked + 1 \in Version /\ asked + 1 # 0
    BY <2>1, NextVersion
  <2>3. \A o \in Out : out'[o] # None =>
           /\ out[o] # None
           /\ out'[o] = IF g \in out[o].gws THEN [out[o] EXCEPT !.gws = (@ \ {g}) \cup {h}]
                        ELSE out[o]
    BY <2>1 DEF Users
  <2>4. \A c \in Connection : LET d == [c EXCEPT !.gws = (@ \ {g}) \cup {h}] IN
           d \in Connection /\ d.profile = c.profile /\ d.gws = (c.gws \ {g}) \cup {h}
    BY DEF Connection
  <2>5. out' \in [Out -> Connection \cup {None}]
    BY <1>1, <2>1, <2>4 DEF Users
  <2>6. \A o \in Out : out'[o] # None =>
           /\ out'[o].profile = out[o].profile
           /\ out'[o].gws = IF g \in out[o].gws THEN (out[o].gws \ {g}) \cup {h} ELSE out[o].gws
    BY <1>1, <2>3, <2>4
  <2>7. NamesStored'
    <3>1. Stored' = Stored /\ Known' = (Known \ {g}) \cup {h}
      BY <1>1, <2>1, <2>2 DEF Stored, Known
    <3>2. QED
      BY <2>3, <2>6, <3>1 DEF NamesStored
  <2> DEFINE S == {out[o].profile : o \in Users(g)}
  <2>8. S \in SUBSET Profile
    <3>1. \A o \in Users(g) : out[o].profile \in Profile
      BY OfConnection DEF Users
    <3>2. QED
      BY <3>1
  <2> HIDE DEF S
  <2>9. GatewayMessage(g, h, S) \in Message /\ OneGateway(GatewayMessage(g, h, S))
    BY <2>8, GatewayMessageIs DEF OneGateway
  <2>10. QED
    BY <1>1, <2>1, <2>2, <2>5, <2>7, <2>9 DEF S
<1>8. CASE CreateOutbound
  <2>1. PICK o \in Out, p \in Stored, G \in (SUBSET Known) \ {{}} :
           /\ out[o] = None
           /\ out' = [out EXCEPT ![o] = Outbound(p, G)]
           /\ UNCHANGED <<profile, gateway, renamed>>
           /\ Request({[Blank EXCEPT !.kind = "out", !.new = p]})
    BY <1>8 DEF CreateOutbound
  <2>2. /\ [Blank EXCEPT !.kind = "out", !.new = p] \in Message
        /\ OneGateway([Blank EXCEPT !.kind = "out", !.new = p])
    BY <1>2, BlankIs DEF Message, OneGateway
  <2>3. out' \in [Out -> Connection \cup {None}]
    BY <1>1, <1>2, <2>1, OutboundIs
  <2>4. NamesStored'
    BY <1>1, <1>2, <2>1, OutboundIs DEF NamesStored, Stored, Known
  <2>5. QED
    BY <1>1, <2>1, <2>2, <2>3, <2>4
<1>9. CASE UpdateOutbound
  <2>1. PICK o \in Out, q \in Out, p \in Stored, G \in (SUBSET Known) \ {{}} :
           /\ out[o] # None /\ (q # o => out[q] = None)
           /\ Careful => Announced(o, p, G)
           /\ out' = [out EXCEPT ![o] = None, ![q] = Outbound(p, G)]
           /\ UNCHANGED <<profile, gateway, renamed>>
           /\ Request({m \in {OutMessage(p, out[o].profile, G, InUse(o))} : Announced(o, p, G)})
    BY <1>9 DEF UpdateOutbound, OutMessage
  <2> DEFINE m == OutMessage(p, out[o].profile, G, InUse(o))
  <2>2. m \in Message /\ OneGateway(m)
    BY <1>2, <2>1, OutMessageIs, InUseType, OfConnection DEF OneGateway
  <2>3. out' \in [Out -> Connection \cup {None}]
    BY <1>1, <1>2, <2>1, OutboundIs
  <2>4. NamesStored'
    BY <1>1, <1>2, <2>1, OutboundIs DEF NamesStored, Stored, Known
  <2> DEFINE ms == {x \in {m} : Announced(o, p, G)}
  <2>5. Request(ms)
    BY <2>1
  <2>6. ms \in SUBSET Message /\ \A x \in ms : OneGateway(x)
    BY <2>2
  <2> HIDE DEF m, ms
  <2>7. QED
    BY <1>1, <2>1, <2>3, <2>4, <2>5, <2>6
<1>10. CASE DeleteOutbound
  <2>1. PICK o \in Out :
           /\ out[o] # None
           /\ out' = [out EXCEPT ![o] = None]
           /\ UNCHANGED <<profile, gateway, renamed>>
           /\ Request({[Blank EXCEPT !.kind = "out", !.old = out[o].profile, !.inuse = InUse(o)]})
    BY <1>10 DEF DeleteOutbound
  <2>2. /\ [Blank EXCEPT !.kind = "out", !.old = out[o].profile, !.inuse = InUse(o)] \in Message
        /\ OneGateway([Blank EXCEPT !.kind = "out", !.old = out[o].profile, !.inuse = InUse(o)])
    BY <2>1, BlankIs, InUseType, OfConnection DEF Message, OneGateway
  <2>3. NamesStored'
    BY <1>1, <2>1 DEF NamesStored, Stored, Known
  <2>4. QED
    BY <1>1, <2>1, <2>2, <2>3
<1>11. QED
  BY <1>3, <1>4, <1>5, <1>6, <1>7, <1>8, <1>9, <1>10 DEF Requests

(* What a node loads, and what commands make of it.                        *)
LEMMA SipType ==
  ASSUME TypeOK, NamesStored, NEW p \in Stored
  PROVE  /\ Sip(p) \in Configured
         /\ Sip(p).settings = profile[p] /\ DOMAIN Sip(p).gws = Needed(p)
         /\ \A g \in Needed(p) : Sip(p).gws[g] = gateway[g]
<1>1. p \in Profile /\ profile[p] \in Version
  BY DEF TypeOK, Stored
<1>2. Needed(p) \subseteq Known
  BY DEF NamesStored, Needed, Engaging
<1>3. \A g \in Known : g \in Gateway /\ gateway[g] \in Version
  BY DEF TypeOK, Known
<1> DEFINE G == [g \in Needed(p) |-> gateway[g]]
<1>4. G \in [Needed(p) -> Version] /\ Needed(p) \in SUBSET Gateway
  BY <1>2, <1>3
<1>5. G \in UNION {[D -> Version] : D \in SUBSET Gateway}
  BY <1>4
<1>6. DOMAIN G = Needed(p) /\ \A g \in Needed(p) : G[g] = gateway[g]
  OBVIOUS
<1>7. Sip(p) = [settings |-> profile[p], gws |-> G]
  BY DEF Sip
<1> HIDE DEF G
<1>8. QED
  BY <1>1, <1>5, <1>6, <1>7 DEF Configured

LEMMA LoadedType ==
  ASSUME TypeOK, NamesStored
  PROVE  /\ Loaded \in [Profile -> Configured \cup {None}]
         /\ Lists \in [Out -> SUBSET Gateway]
<1>1. Loaded \in [Profile -> Configured \cup {None}]
  BY SipType DEF Loaded
<1>2. Lists \in [Out -> SUBSET Gateway]
  BY OfConnection DEF Lists
<1>3. QED
  BY <1>1, <1>2

LEMMA OfConfigured ==
  ASSUME NEW r \in Configured
  PROVE  /\ r # None
         /\ r.settings \in Version
         /\ r.gws \in UNION {[D -> Version] : D \in SUBSET Gateway}
         /\ DOMAIN r.gws \in SUBSET Gateway
         /\ \A g \in DOMAIN r.gws : r.gws[g] \in Version
         /\ \A G \in SUBSET Gateway : \A f \in [G -> Version] :
               /\ [r EXCEPT !.gws = f] \in Configured
               /\ [r EXCEPT !.gws = f].settings = r.settings
               /\ [r EXCEPT !.gws = f].gws = f
<1>1. /\ r.settings \in Version
      /\ r.gws \in UNION {[D -> Version] : D \in SUBSET Gateway}
      /\ r = [settings |-> r.settings, gws |-> r.gws]
  BY DEF Configured
<1>2. \A G \in SUBSET Gateway : \A f \in [G -> Version] :
         f \in UNION {[D -> Version] : D \in SUBSET Gateway}
  OBVIOUS
<1>3. \A f \in UNION {[D -> Version] : D \in SUBSET Gateway} :
         /\ [r EXCEPT !.gws = f] \in Configured
         /\ [r EXCEPT !.gws = f].settings = r.settings
         /\ [r EXCEPT !.gws = f].gws = f
  BY <1>1 DEF Configured
<1>4. DOMAIN r.gws \in SUBSET Gateway /\ \A g \in DOMAIN r.gws : r.gws[g] \in Version
  BY <1>1
<1>5. QED
  BY <1>1, <1>2, <1>3, <1>4, PushAssumption DEF PushAssumption

LEMMA RescannedIs ==
  ASSUME NEW r \in Configured, NEW s \in Configured
  PROVE  LET x == Rescanned(r, s) IN
         /\ x \in Configured /\ x.settings = r.settings
         /\ DOMAIN x.gws = DOMAIN r.gws \cup DOMAIN s.gws
         /\ \A g \in DOMAIN x.gws :
               x.gws[g] = IF g \in DOMAIN r.gws THEN r.gws[g] ELSE s.gws[g]
<1> DEFINE D == DOMAIN r.gws \cup DOMAIN s.gws
           f == [g \in D |-> IF g \in DOMAIN r.gws THEN r.gws[g] ELSE s.gws[g]]
<1>1. D \in SUBSET Gateway /\ f \in [D -> Version]
  BY OfConfigured
<1>2. Rescanned(r, s) = [r EXCEPT !.gws = f]
  BY DEF Rescanned
<1>3. \A g \in D : f[g] = IF g \in DOMAIN r.gws THEN r.gws[g] ELSE s.gws[g]
  OBVIOUS
<1> HIDE DEF f
<1>4. QED
  BY <1>1, <1>2, <1>3, OfConfigured

(* What a profile has after the removal of a gateway.                      *)
Killed(r, h) == [r EXCEPT !.gws = [g \in DOMAIN @ \ {h} |-> @[g]]]

LEMMA KilledIs ==
  ASSUME NEW r \in Configured, NEW h
  PROVE  LET x == Killed(r, h) IN
         /\ x \in Configured /\ x.settings = r.settings
         /\ DOMAIN x.gws = DOMAIN r.gws \ {h}
         /\ \A g \in DOMAIN x.gws : x.gws[g] = r.gws[g]
<1> DEFINE D == DOMAIN r.gws \ {h}
           f == [g \in D |-> r.gws[g]]
<1>1. D \in SUBSET Gateway /\ f \in [D -> Version]
  BY OfConfigured
<1>2. Killed(r, h) = [r EXCEPT !.gws = f]
  BY DEF Killed, Configured
<1>3. \A g \in D : f[g] = r.gws[g]
  OBVIOUS
<1> HIDE DEF f
<1>4. QED
  BY <1>1, <1>2, <1>3, OfConfigured

(* What is in the place of running[n][c.profile] after the command c.      *)
After(r, s, c) ==
    CASE c.do = "start" /\ r = None -> s
      [] c.do = "stop" -> None
      [] c.do = "restart" /\ r # None -> s
      [] c.do = "rescan" /\ r # None /\ s # None -> Rescanned(r, s)
      [] c.do = "killgw" /\ r # None -> Killed(r, c.gw)
      [] OTHER -> r

LEMMA AfterIs ==
  ASSUME NEW r \in Configured \cup {None}, NEW s \in Configured \cup {None},
         NEW c \in FsCommand
  PROVE  /\ After(r, s, c) \in Configured \cup {None}
         /\ c.do = "start" => After(r, s, c) = IF r = None THEN s ELSE r
         /\ c.do = "stop" => After(r, s, c) = None
         /\ c.do = "restart" => After(r, s, c) = IF r = None THEN None ELSE s
         /\ c.do = "rescan" => After(r, s, c) = IF r = None \/ s = None THEN r
                                                ELSE Rescanned(r, s)
         /\ c.do = "killgw" => After(r, s, c) = IF r = None THEN r ELSE Killed(r, c.gw)
         /\ c.do \in {"reloadxml", "distributor"} => After(r, s, c) = r
<1>1. c.do \in {"start", "stop", "restart", "rescan", "killgw", "reloadxml", "distributor"}
  BY DEF FsCommand
<1>2. /\ c.do = "start" => After(r, s, c) = IF r = None THEN s ELSE r
      /\ c.do = "stop" => After(r, s, c) = None
      /\ c.do = "restart" => After(r, s, c) = IF r = None THEN None ELSE s
      /\ c.do = "rescan" => After(r, s, c) = IF r = None \/ s = None THEN r
                                             ELSE Rescanned(r, s)
      /\ c.do = "killgw" => After(r, s, c) = IF r = None THEN r ELSE Killed(r, c.gw)
      /\ c.do \in {"reloadxml", "distributor"} => After(r, s, c) = r
  BY DEF After
<1>3. After(r, s, c) \in Configured \cup {None}
  BY <1>1, <1>2, RescannedIs, KilledIs
<1>4. QED
  BY <1>2, <1>3

LEMMA PerformIs ==
  ASSUME TypeOK, NamesStored, NEW n \in Node, NEW c \in FsCommand, Perform(n, c)
  PROVE  /\ running' \in [Node -> [Profile -> Configured \cup {None}]]
         /\ xml' \in [Node -> [Out -> SUBSET Gateway]]
         /\ dist' \in [Node -> [Out -> SUBSET Gateway]]
         /\ \A k \in Node, p \in Profile :
               running'[k][p] = IF k = n /\ p = c.profile THEN After(running[n][p], Loaded[p], c)
                                ELSE running[k][p]
         /\ \A k \in Node : xml'[k] = IF k = n /\ c.do = "reloadxml" THEN Lists ELSE xml[k]
         /\ \A k \in Node : dist'[k] = IF k = n /\ c.do = "distributor" THEN xml[n] ELSE dist[k]
<1>1. /\ running \in [Node -> [Profile -> Configured \cup {None}]]
      /\ xml \in [Node -> [Out -> SUBSET Gateway]]
      /\ dist \in [Node -> [Out -> SUBSET Gateway]]
  BY DEF TypeOK
<1>2. Loaded \in [Profile -> Configured \cup {None}] /\ Lists \in [Out -> SUBSET Gateway]
  BY LoadedType
<1>3. \A p \in Profile : Loaded[p] = IF p \in Stored THEN Sip(p) ELSE None
  BY DEF Loaded
<1>4. \A p \in Stored : Sip(p) # None
  BY SipType, OfConfigured
<1>5. c.do \in {"start", "stop", "restart", "rescan", "killgw", "reloadxml", "distributor"}
      /\ c.profile \in Profile \cup {None} /\ None \notin Profile
  BY PushAssumption DEF FsCommand, PushAssumption
<1> DEFINE p == c.profile
           r == running[n][p]
<1>6. CASE c.do \in {"reloadxml", "distributor"}
  <2>1. ASSUME NEW q \in Profile
        PROVE  After(running[n][q], Loaded[q], c) = running[n][q]
    <3>1. running[n][q] \in Configured \cup {None} /\ Loaded[q] \in Configured \cup {None}
      BY <1>1, <1>2
    <3>2. QED
      BY <1>6, <3>1, AfterIs
  <2>2. CASE c.do = "reloadxml"
    <3>1. xml' = [xml EXCEPT ![n] = Lists] /\ running' = running /\ dist' = dist
      BY <2>2 DEF Perform
    <3>2. QED
      BY <1>1, <1>2, <2>1, <2>2, <3>1
  <2>3. CASE c.do = "distributor"
    <3>1. dist' = [dist EXCEPT ![n] = xml[n]] /\ running' = running /\ xml' = xml
      BY <2>3 DEF Perform
    <3>2. QED
      BY <1>1, <1>2, <2>1, <2>3, <3>1
  <2>4. QED
    BY <1>6, <2>2, <2>3
<1>7. CASE c.do \notin {"reloadxml", "distributor"}
  <2>1. /\ UNCHANGED <<xml, dist>>
        /\ CASE c.do = "start" /\ r = None -> Set(n, p, Loaded[p])
             [] c.do = "stop" -> Set(n, p, None)
             [] c.do = "restart" /\ r # None -> Set(n, p, Loaded[p])
             [] c.do = "rescan" /\ r # None /\ p \in Stored -> Set(n, p, Rescanned(r, Sip(p)))
             [] c.do = "killgw" /\ r # None -> Set(n, p, Killed(r, c.gw))
             [] OTHER -> UNCHANGED running
    BY <1>7, Zenon DEF Perform, Killed
  <2>2. /\ c.do = "start" => IF r = None THEN Set(n, p, Loaded[p]) ELSE UNCHANGED running
        /\ c.do = "stop" => Set(n, p, None)
        /\ c.do = "restart" => IF r # None THEN Set(n, p, Loaded[p]) ELSE UNCHANGED running
        /\ c.do = "rescan" => IF r # None /\ p \in Stored THEN Set(n, p, Rescanned(r, Sip(p)))
                              ELSE UNCHANGED running
        /\ c.do = "killgw" => IF r # None THEN Set(n, p, Killed(r, c.gw)) ELSE UNCHANGED running
    BY <2>1
  <2>3. \A x : Set(n, p, x) => \A k \in Node, q \in Profile :
                running'[k][q] = IF k = n /\ q = p THEN x ELSE running[k][q]
    BY <1>1 DEF Set
  <2>4. running' \in [Node -> [Profile -> Configured \cup {None}]]
    <3>1. ASSUME NEW x, Set(n, p, x), p \in Profile => x \in Configured \cup {None}
          PROVE  running' \in [Node -> [Profile -> Configured \cup {None}]]
      <4> DEFINE f == [running[n] EXCEPT ![p] = x]
      <4>1. f \in [Profile -> Configured \cup {None}]
        <5>1. running[n] \in [Profile -> Configured \cup {None}]
          BY <1>1
        <5>2. QED
          BY <3>1, <5>1
      <4>2. running' = [running EXCEPT ![n] = f]
        BY <3>1 DEF Set
      <4> HIDE DEF f
      <4>3. QED
        BY <1>1, <4>1, <4>2
    <3>2. p \in Profile => None \in Configured \cup {None}
      OBVIOUS
    <3>3. \A q \in Stored : Sip(q) \in Configured
      BY SipType
    <3>4. p \in Profile => /\ r \in Configured \cup {None} /\ Loaded[p] \in Configured \cup {None}
                           /\ r # None => Killed(r, c.gw) \in Configured
                           /\ r # None /\ p \in Stored => Rescanned(r, Sip(p)) \in Configured
      BY <1>1, <1>2, <3>3, RescannedIs, KilledIs
    <3>5. QED
      BY <1>1, <1>5, <1>7, <2>2, <3>1, <3>2, <3>4
  <2>5. ASSUME NEW k \in Node, NEW q \in Profile
        PROVE  running'[k][q] = IF k = n /\ q = p THEN After(running[n][q], Loaded[q], c)
                                ELSE running[k][q]
    <3>1. CASE k = n /\ q = p
      <4>1. r \in Configured \cup {None} /\ Loaded[p] \in Configured \cup {None}
        BY <1>1, <1>2, <3>1
      <4>2. Loaded[p] = IF p \in Stored THEN Sip(p) ELSE None
        BY <1>3, <3>1
      <4>3. /\ c.do = "start" => running'[k][q] = IF r = None THEN Loaded[p] ELSE r
            /\ c.do = "stop" => running'[k][q] = None
            /\ c.do = "restart" => running'[k][q] = IF r = None THEN None ELSE Loaded[p]
            /\ c.do = "rescan" => running'[k][q] = IF r = None \/ Loaded[p] = None THEN r
                                                   ELSE Rescanned(r, Loaded[p])
            /\ c.do = "killgw" => running'[k][q] = IF r = None THEN r ELSE Killed(r, c.gw)
        BY <1>4, <2>2, <2>3, <3>1, <4>2
      <4> HIDE DEF r
      <4>4. running'[k][q] = After(r, Loaded[p], c)
        <5> DEFINE s == Loaded[p]
                   a == After(r, s, c)
        <5>1. s \in Configured \cup {None}
          BY <4>1
        <5> HIDE DEF s
        <5>2. /\ c.do = "start" => a = IF r = None THEN s ELSE r
              /\ c.do = "stop" => a = None
              /\ c.do = "restart" => a = IF r = None THEN None ELSE s
              /\ c.do = "rescan" => a = IF r = None \/ s = None THEN r ELSE Rescanned(r, s)
              /\ c.do = "killgw" => a = IF r = None THEN r ELSE Killed(r, c.gw)
          BY <4>1, <5>1, AfterIs
        <5> HIDE DEF a
        <5>3. c.do = "start" => running'[k][q] = a
          BY <4>3, <5>2 DEF s
        <5>4. c.do = "stop" => running'[k][q] = a
          BY <4>3, <5>2 DEF s
        <5>5. c.do = "restart" => running'[k][q] = a
          BY <4>3, <5>2 DEF s
        <5>6. c.do = "rescan" => running'[k][q] = a
          BY <4>3, <5>2 DEF s
        <5>7. c.do = "killgw" => running'[k][q] = a
          BY <4>3, <5>2 DEF s
        <5>8. QED
          BY <1>5, <1>7, <5>3, <5>4, <5>5, <5>6, <5>7 DEF a, s
      <4>5. QED
        BY <3>1, <4>4 DEF r
    <3>2. CASE ~(k = n /\ q = p)
      BY <1>5, <1>7, <2>2, <2>3, <3>2
    <3>3. QED
      BY <3>1, <3>2
  <2>6. xml' = xml /\ dist' = dist
    BY <2>1
  <2>7. QED
    BY <1>1, <1>7, <2>4, <2>5, <2>6
<1>8. QED
  BY <1>6, <1>7

LEMMA OfJob ==
  ASSUME NEW t \in Job
  PROVE  /\ t.cmds \in Seq(FsCommand) /\ t.left \in Seq(FsCommand)
         /\ t.node \in Node \cup {None} /\ t.todo \in SUBSET Node
BY DEF Job

(* The steps of a thread: to the next node, past it, to the next command.  *)
Connected(t, n) == [t EXCEPT !.node = n, !.left = t.cmds, !.todo = @ \ {n}]
Skipped(t, n) == [t EXCEPT !.todo = @ \ {n}]
Sent(t) == [t EXCEPT !.left = Tail(@)]

LEMMA JobSteps ==
  ASSUME NEW t \in Job, NEW n \in Node
  PROVE  /\ Connected(t, n) \in Job /\ Connected(t, n).cmds = t.cmds /\ Connected(t, n).node = n
         /\ Connected(t, n).left = t.cmds /\ Connected(t, n).todo = t.todo \ {n}
         /\ Skipped(t, n) \in Job /\ Skipped(t, n).cmds = t.cmds /\ Skipped(t, n).node = t.node
         /\ Skipped(t, n).left = t.left /\ Skipped(t, n).todo = t.todo \ {n}
BY DEF Job, Connected, Skipped

LEMMA SentIs ==
  ASSUME NEW t \in Job, t.left # <<>>
  PROVE  /\ Sent(t) \in Job /\ Sent(t).cmds = t.cmds /\ Sent(t).node = t.node
         /\ Sent(t).left = Tail(t.left) /\ Sent(t).todo = t.todo
<1>1. Tail(t.left) \in Seq(FsCommand)
  BY OfJob
<1>2. QED
  BY <1>1 DEF Job, Sent

LEMMA BecomeIs ==
  ASSUME TypeOK, NEW t \in BagToSet(threads), NEW u \in Job, Become(t, u)
  PROVE  /\ IsABag(threads')
         /\ BagToSet(threads') \subseteq BagToSet(threads) \cup {u}
         /\ BagToSet(threads) \ {t} \subseteq BagToSet(threads')
         /\ u.todo # {} \/ u.left # <<>> => u \in BagToSet(threads')
         /\ BagToSet(threads') \subseteq Job
<1> DEFINE B == threads (-) SetToBag({t})
           S == IF u.todo = {} /\ u.left = <<>> THEN {} ELSE {u}
<1>1. IsABag(threads) /\ BagToSet(threads) \subseteq Job
  BY DEF TypeOK
<1>2. /\ IsABag(B) /\ BagToSet(B) \subseteq BagToSet(threads)
      /\ BagToSet(threads) \ {t} \subseteq BagToSet(B)
  BY <1>1, BagTake
<1>3. threads' = B (+) SetToBag(S)
  BY DEF Become
<1> HIDE DEF B
<1>4. IsABag(threads') /\ BagToSet(threads') = BagToSet(B) \cup S
  BY <1>2, <1>3, BagPut
<1>5. QED
  BY <1>1, <1>2, <1>4

(* The invariant of the types, and the steps that are not requests.        *)
LEMMA HandleIs ==
  ASSUME TypeOK, NEW l \in Liberator, Handle(l)
  PROVE  LET m == Head(inbox[l])
             t == [cmds |-> Commands(m), node |-> None, left |-> <<>>, todo |-> Node] IN
         /\ inbox[l] \in Seq(Message) /\ inbox[l] # <<>> /\ m \in Message
         /\ inbox' \in [Liberator -> Seq(Message)]
         /\ \A k \in Liberator : inbox'[k] = IF k = l THEN Tail(inbox[l]) ELSE inbox[k]
         /\ t \in Job /\ t.cmds = Commands(m) /\ t.node = None /\ t.left = <<>> /\ t.todo = Node
         /\ IsABag(threads') /\ BagToSet(threads') = BagToSet(threads) \cup {t}
         /\ UNCHANGED <<store, unsent, listening, nodes>>
<1> DEFINE m == Head(inbox[l])
           cs == Commands(m)
           t == [cmds |-> cs, node |-> None, left |-> <<>>, todo |-> Node]
<1>1. /\ inbox[l] \in Seq(Message) /\ inbox[l] # <<>> /\ inbox \in [Liberator -> Seq(Message)]
      /\ IsABag(threads)
  BY DEF TypeOK, Handle
<1>2. m \in Message /\ Tail(inbox[l]) \in Seq(Message)
  BY <1>1
<1>3. /\ inbox' = [inbox EXCEPT ![l] = Tail(@)]
      /\ threads' = threads (+) SetToBag({t})
      /\ UNCHANGED <<store, unsent, listening, nodes>>
  BY DEF Handle
<1>4. cs \in Seq(FsCommand)
  BY <1>2, CommandsType
<1> HIDE DEF cs
<1>5. t \in Job /\ t.cmds = cs /\ t.node = None /\ t.left = <<>> /\ t.todo = Node
  BY <1>4 DEF Job
<1> HIDE DEF t
<1>6. IsABag(threads') /\ BagToSet(threads') = BagToSet(threads) \cup {t}
  BY <1>1, <1>3, BagPut
<1>7. /\ inbox' \in [Liberator -> Seq(Message)]
      /\ \A k \in Liberator : inbox'[k] = IF k = l THEN Tail(inbox[l]) ELSE inbox[k]
  BY <1>1, <1>2, <1>3
<1>8. QED
  BY <1>1, <1>2, <1>3, <1>5, <1>6, <1>7 DEF t, cs

LEMMA PublishableIs ==
  ASSUME TypeOK, NEW m \in Message
  PROVE  /\ Publishable(m) \subseteq Message
         /\ m.kind # "gateway" => Publishable(m) = {m}
         /\ m.kind = "gateway" => \A x \in Publishable(m) :
               \E o \in UNION {Users(h) : h \in m.gws} : x = [m EXCEPT !.new = out[o].profile]
<1>1. \A p \in Profile : [m EXCEPT !.new = p] \in Message
  BY DEF Message
<1>2. \A o \in UNION {Users(h) : h \in m.gws} : o \in Out /\ out[o] # None
  BY DEF Users
<1>3. \A o \in UNION {Users(h) : h \in m.gws} : out[o].profile \in Profile
  BY <1>2, OfConnection
<1>4. m.kind # "gateway" => Publishable(m) = {m}
  BY DEF Publishable
<1>5. m.kind = "gateway" =>
         Publishable(m) = {[m EXCEPT !.new = out[o].profile] : o \in UNION {Users(h) : h \in m.gws}}
  BY DEF Publishable
<1>6. QED
  BY <1>1, <1>3, <1>4, <1>5

LEMMA PublishIs ==
  ASSUME TypeOK, Publish
  PROVE  \E m \in BagToSet(unsent) :
            /\ m \in Message
            /\ IsABag(unsent') /\ BagToSet(unsent') \subseteq BagToSet(unsent)
            /\ BagToSet(unsent) \ {m} \subseteq BagToSet(unsent')
            /\ inbox' \in [Liberator -> Seq(Message)]
            /\ \/ Publishable(m) = {} /\ inbox' = inbox
               \/ \E x \in Publishable(m) :
                     \A l \in Liberator : inbox'[l] = IF l \in listening THEN Append(inbox[l], x)
                                                      ELSE inbox[l]
            /\ UNCHANGED <<store, listening, threads, nodes>>
<1>1. PICK m \in BagToSet(unsent) :
         /\ unsent' = unsent (-) SetToBag({m})
         /\ IF Publishable(m) = {} THEN UNCHANGED inbox
            ELSE \E x \in Publishable(m) :
                    inbox' = [l \in Liberator |-> IF l \in listening
                                                  THEN Append(inbox[l], x) ELSE inbox[l]]
         /\ UNCHANGED <<store, listening, threads, nodes>>
  BY DEF Publish
<1>2. m \in Message /\ IsABag(unsent) /\ inbox \in [Liberator -> Seq(Message)]
  BY DEF TypeOK
<1>3. /\ IsABag(unsent') /\ BagToSet(unsent') \subseteq BagToSet(unsent)
      /\ BagToSet(unsent) \ {m} \subseteq BagToSet(unsent')
  BY <1>1, <1>2, BagTake
<1>4. CASE Publishable(m) = {}
  BY <1>1, <1>2, <1>3, <1>4
<1>5. CASE Publishable(m) # {}
  <2>1. PICK x \in Publishable(m) :
           inbox' = [l \in Liberator |-> IF l \in listening
                                         THEN Append(inbox[l], x) ELSE inbox[l]]
    BY <1>1, <1>5
  <2>2. x \in Message
    BY <1>2, <2>1, PublishableIs
  <2>3. \A l \in Liberator : inbox'[l] = IF l \in listening THEN Append(inbox[l], x) ELSE inbox[l]
    BY <2>1
  <2>4. inbox' \in [Liberator -> Seq(Message)]
    BY <1>2, <2>1, <2>2
  <2>5. QED
    BY <1>1, <1>2, <1>3, <2>1, <2>3, <2>4
<1>6. QED
  BY <1>4, <1>5

LEMMA CrashIs ==
  ASSUME TypeOK, NEW n \in Node, Crash(n)
  PROVE  /\ IsABag(threads') /\ BagToSet(threads') = BagToSet(threads) \ Talking(n)
         /\ missed' = missed \cup UNION {t.todo : t \in Talking(n)} /\ missed' \subseteq Node
         /\ state' = [state EXCEPT ![n] = "down"]
         /\ UNCHANGED <<store, bus, running, xml, dist>>
<1>1. threads' = [t \in DOMAIN threads \ Talking(n) |-> threads[t]]
  BY DEF Crash
<1>2. IsABag(threads) /\ BagToSet(threads) \subseteq Job /\ missed \subseteq Node
  BY DEF TypeOK
<1>3. IsABag(threads') /\ BagToSet(threads') = BagToSet(threads) \ Talking(n)
  BY <1>1, <1>2 DEF IsABag, BagToSet
<1>4. \A t \in Talking(n) : t.todo \subseteq Node
  BY <1>2, OfJob DEF Talking
<1>5. QED
  BY <1>2, <1>3, <1>4 DEF Crash

LEMMA SendIs ==
  ASSUME TypeOK, NEW t \in BagToSet(threads), Send(t)
  PROVE  /\ t \in Job /\ t.left # <<>> /\ t.left \in Seq(FsCommand) /\ Head(t.left) \in FsCommand
         /\ Perform(t.node, Head(t.left)) /\ Become(t, Sent(t)) /\ Sent(t) \in Job
         /\ UNCHANGED <<store, bus, state, missed>>
<1>1. t \in Job
  BY DEF TypeOK
<1>2. /\ t.left # <<>> /\ Perform(t.node, Head(t.left)) /\ Become(t, Sent(t))
      /\ UNCHANGED <<store, bus, state, missed>>
  BY DEF Send, Sent
<1>3. t.left \in Seq(FsCommand)
  BY <1>1, OfJob
<1>4. QED
  BY <1>1, <1>2, <1>3, HasTail, SentIs

LEMMA RequestIs ==
  ASSUME TypeOK, NEW ms \in SUBSET Message, Request(ms)
  PROVE  /\ asked' \in Version
         /\ IsABag(unsent') /\ BagToSet(unsent') = BagToSet(unsent) \cup ms
         /\ BagToSet(unsent') \subseteq Message
         /\ UNCHANGED <<listening, inbox, threads, nodes>>
<1>1. IsABag(unsent) /\ BagToSet(unsent) \subseteq Message
  BY DEF TypeOK
<1>2. /\ asked' = asked + 1 /\ unsent' = unsent (+) SetToBag(ms)
      /\ UNCHANGED <<listening, inbox, threads, nodes>>
  BY DEF Request
<1>3. QED
  BY <1>1, <1>2, BagPut, NextVersion

LEMMA TypeStep ==
  ASSUME TypeInv, [Next]_vars
  PROVE  TypeInv'
<1> USE DEF TypeInv
<1>1. /\ profile \in [Profile -> {0} \cup Version]
      /\ gateway \in [Gateway -> {0} \cup Version]
      /\ out \in [Out -> Connection \cup {None}]
      /\ asked \in Version /\ renamed \subseteq Gateway
      /\ IsABag(unsent) /\ BagToSet(unsent) \subseteq Message
      /\ listening \subseteq Liberator
      /\ inbox \in [Liberator -> Seq(Message)]
      /\ IsABag(threads) /\ BagToSet(threads) \subseteq Job
      /\ state \in [Node -> {"down", "loading", "up"}]
      /\ running \in [Node -> [Profile -> Configured \cup {None}]]
      /\ xml \in [Node -> [Out -> SUBSET Gateway]]
      /\ dist \in [Node -> [Out -> SUBSET Gateway]]
      /\ missed \subseteq Node
  BY DEF TypeOK
<1>2. ASSUME Requests PROVE TypeInv'
  <2>1. /\ profile' \in [Profile -> {0} \cup Version]
        /\ gateway' \in [Gateway -> {0} \cup Version]
        /\ out' \in [Out -> Connection \cup {None}]
        /\ renamed' \subseteq Gateway
        /\ NamesStored'
        /\ \E ms \in SUBSET Message : Request(ms) /\ \A m \in ms : OneGateway(m)
    BY <1>2, RequestStores DEF StoreKept
  <2>2. PICK ms \in SUBSET Message : Request(ms) /\ \A m \in ms : OneGateway(m)
    BY <2>1
  <2>3. /\ asked' \in Version /\ IsABag(unsent') /\ BagToSet(unsent') \subseteq Message
        /\ BagToSet(unsent') = BagToSet(unsent) \cup ms
        /\ UNCHANGED <<listening, inbox, threads, nodes>>
    BY <2>2, RequestIs
  <2>4. TypeOK'
    BY <1>1, <2>1, <2>3 DEF TypeOK, nodes
  <2>5. Talks'
    BY <2>3 DEF Talks
  <2>6. \A m \in BagToSet(unsent') : OneGateway(m)
    BY <2>2, <2>3
  <2>7. QED
    BY <2>1, <2>4, <2>5, <2>6 DEF OneGateway
<1>3. ASSUME UNCHANGED store, BagToSet(unsent') \subseteq BagToSet(unsent)
      PROVE  NamesStored' /\ \A m \in BagToSet(unsent') : OneGateway(m)'
  BY <1>3 DEF NamesStored, Stored, Known, store, OneGateway
<1>4. CASE Publish
  <2>1. PICK m \in BagToSet(unsent) :
           /\ IsABag(unsent') /\ BagToSet(unsent') \subseteq BagToSet(unsent)
           /\ inbox' \in [Liberator -> Seq(Message)]
           /\ UNCHANGED <<store, listening, threads, nodes>>
    BY <1>4, PublishIs
  <2>2. TypeOK'
    BY <1>1, <2>1 DEF TypeOK, nodes, store
  <2>3. Talks'
    BY <2>1 DEF Talks
  <2>4. QED
    BY <1>3, <2>1, <2>2, <2>3
<1>5. CASE WorkerDies
  <2>1. PICK m \in BagToSet(unsent) : unsent' = unsent (-) SetToBag({m})
    BY <1>5 DEF WorkerDies
  <2>2. IsABag(unsent') /\ BagToSet(unsent') \subseteq BagToSet(unsent)
    BY <1>1, <2>1, BagTake
  <2>3. /\ missed' = Node
        /\ UNCHANGED <<store, listening, inbox, threads, state, running, xml, dist>>
    BY <1>5 DEF WorkerDies
  <2>4. TypeOK'
    BY <1>1, <2>2, <2>3 DEF TypeOK, store
  <2>5. Talks'
    BY <2>3 DEF Talks
  <2>6. QED
    BY <1>3, <2>2, <2>3, <2>4, <2>5
<1>6. ASSUME NEW l \in Liberator, Handle(l) PROVE TypeInv'
  <2>1. PICK t \in Job :
           /\ inbox' \in [Liberator -> Seq(Message)] /\ t.left = <<>>
           /\ IsABag(threads') /\ BagToSet(threads') = BagToSet(threads) \cup {t}
           /\ UNCHANGED <<store, unsent, listening, nodes>>
    BY <1>6, HandleIs
  <2>2. TypeOK'
    BY <1>1, <2>1 DEF TypeOK, nodes, store
  <2>3. Talks'
    BY <2>1 DEF Talks
  <2>4. QED
    BY <1>3, <2>1, <2>2, <2>3
<1>7. ASSUME NEW l \in Liberator, LoseSubscription(l) \/ Subscribe(l) PROVE TypeInv'
  <2>1. /\ listening' \subseteq Liberator /\ inbox' \in [Liberator -> Seq(Message)]
        /\ UNCHANGED <<store, unsent, threads, nodes>>
    <3>1. CASE LoseSubscription(l)
      <4>1. /\ listening' = listening \ {l} /\ inbox' = [inbox EXCEPT ![l] = <<>>]
            /\ UNCHANGED <<store, unsent, threads, nodes>>
        BY <3>1 DEF LoseSubscription
      <4>2. <<>> \in Seq(Message)
        OBVIOUS
      <4>3. QED
        BY <1>1, <4>1, <4>2
    <3>2. CASE Subscribe(l)
      BY <1>1, <3>2 DEF Subscribe
    <3>3. QED
      BY <1>7, <3>1, <3>2
  <2>2. TypeOK'
    BY <1>1, <2>1 DEF TypeOK, nodes, store
  <2>3. Talks'
    BY <2>1 DEF Talks
  <2>4. QED
    BY <1>3, <2>1, <2>2, <2>3
<1>8. ASSUME NEW t \in BagToSet(threads), Send(t) PROVE TypeInv'
  <2>1. /\ t \in Job /\ t.left # <<>> /\ Head(t.left) \in FsCommand /\ Perform(t.node, Head(t.left))
        /\ Become(t, Sent(t)) /\ Sent(t) \in Job /\ Sent(t).node = t.node
        /\ UNCHANGED <<store, bus, state, missed>>
    BY <1>8, SendIs, SentIs
  <2>2. t.node \in Node
    BY <2>1 DEF Talks
  <2>3. /\ running' \in [Node -> [Profile -> Configured \cup {None}]]
        /\ xml' \in [Node -> [Out -> SUBSET Gateway]]
        /\ dist' \in [Node -> [Out -> SUBSET Gateway]]
    BY <2>1, <2>2, PerformIs
  <2>4. /\ IsABag(threads') /\ BagToSet(threads') \subseteq Job
        /\ BagToSet(threads') \subseteq BagToSet(threads) \cup {Sent(t)}
    BY <2>1, BecomeIs
  <2>5. TypeOK'
    BY <1>1, <2>1, <2>3, <2>4 DEF TypeOK, bus, store
  <2>6. Talks'
    BY <2>1, <2>2, <2>4 DEF Talks
  <2>7. QED
    BY <1>3, <2>1, <2>5, <2>6 DEF bus
<1>9. ASSUME NEW t \in BagToSet(threads), NEW n \in Node, Connect(t, n) \/ Skip(t, n)
      PROVE  TypeInv'
  <2>1. t \in Job
    BY <1>1
  <2>2. /\ Become(t, Connected(t, n)) \/ (Become(t, Skipped(t, n)) /\ t.left = <<>>)
        /\ missed' \subseteq Node
        /\ UNCHANGED <<store, bus, state, running, xml, dist>>
    BY <1>1, <1>9 DEF Connect, Skip, Connected, Skipped, nodes
  <2>3. PICK u \in Job : Become(t, u) /\ (u.left # <<>> => u.node \in Node)
    BY <2>1, <2>2, JobSteps
  <2>4. /\ IsABag(threads') /\ BagToSet(threads') \subseteq Job
        /\ BagToSet(threads') \subseteq BagToSet(threads) \cup {u}
    BY <2>3, BecomeIs
  <2>5. TypeOK'
    BY <1>1, <2>2, <2>4 DEF TypeOK, bus, store
  <2>6. Talks'
    BY <2>3, <2>4 DEF Talks
  <2>7. QED
    BY <1>3, <2>2, <2>5, <2>6 DEF bus
<1>10. ASSUME NEW n \in Node, Crash(n) PROVE TypeInv'
  <2>1. /\ IsABag(threads') /\ BagToSet(threads') \subseteq BagToSet(threads)
        /\ missed' \subseteq Node /\ state' = [state EXCEPT ![n] = "down"]
        /\ UNCHANGED <<store, bus, running, xml, dist>>
    BY <1>10, CrashIs
  <2>2. TypeOK'
    BY <1>1, <2>1 DEF TypeOK, bus, store
  <2>3. Talks'
    BY <2>1 DEF Talks
  <2>4. QED
    BY <1>3, <2>1, <2>2, <2>3 DEF bus
<1>11. ASSUME NEW n \in Node, Load(n) PROVE TypeInv'
  <2>1. /\ running' = [running EXCEPT ![n] = Loaded]
        /\ xml' = [xml EXCEPT ![n] = Lists] /\ dist' = [dist EXCEPT ![n] = Lists]
        /\ missed' = missed \ {n} /\ state' = [state EXCEPT ![n] = "loading"]
        /\ UNCHANGED <<store, bus, threads>>
    BY <1>11 DEF Load
  <2>2. /\ running' \in [Node -> [Profile -> Configured \cup {None}]]
        /\ xml' \in [Node -> [Out -> SUBSET Gateway]]
        /\ dist' \in [Node -> [Out -> SUBSET Gateway]]
    BY <1>1, <2>1, LoadedType
  <2>3. TypeOK'
    BY <1>1, <2>1, <2>2 DEF TypeOK, bus, store
  <2>4. Talks'
    BY <2>1 DEF Talks
  <2>5. QED
    BY <1>3, <2>1, <2>3, <2>4 DEF bus
<1>12. ASSUME NEW n \in Node, Listen(n) PROVE TypeInv'
  <2>1. /\ state' = [state EXCEPT ![n] = "up"]
        /\ UNCHANGED <<store, bus, threads, running, xml, dist, missed>>
    BY <1>12 DEF Listen
  <2>2. TypeOK'
    BY <1>1, <2>1 DEF TypeOK, bus, store
  <2>3. Talks'
    BY <2>1 DEF Talks
  <2>4. QED
    BY <1>3, <2>1, <2>2, <2>3 DEF bus
<1>13. CASE UNCHANGED vars
  <2>1. TypeOK'
    BY <1>1, <1>13 DEF TypeOK, vars
  <2>2. Talks'
    BY <1>13 DEF Talks, vars
  <2>3. QED
    BY <1>3, <1>13, <2>1, <2>2 DEF vars, store
<1>14. QED
  BY <1>2, <1>4, <1>5, <1>6, <1>7, <1>8, <1>9, <1>10, <1>11, <1>12, <1>13
     DEF Next, Thread, Requests

LEMMA TypeInit ==
  ASSUME Init
  PROVE  TypeInv
<1>1. /\ profile \in [Profile -> {0, 1}] /\ gateway \in [Gateway -> {0, 1}]
      /\ out \in [Out -> [profile : Stored, gws : (SUBSET Known) \ {{}}] \cup {None}]
      /\ asked = 1 /\ unsent = EmptyBag /\ listening = Liberator
      /\ inbox = [l \in Liberator |-> <<>>] /\ threads = EmptyBag
      /\ state = [n \in Node |-> "up"] /\ running = [n \in Node |-> Loaded]
      /\ xml = [n \in Node |-> Lists] /\ dist = [n \in Node |-> Lists]
      /\ missed = {} /\ renamed = {}
  BY DEF Init
<1>2. 1 \in Version
  BY PushAssumption DEF Version, PushAssumption
<1>3. Stored \subseteq Profile /\ Known \subseteq Gateway
  BY DEF Stored, Known
<1>4. out \in [Out -> Connection \cup {None}]
  BY <1>1, <1>3 DEF Connection
<1>5. NamesStored
  BY <1>1 DEF NamesStored
<1>6. IsABag(unsent) /\ BagToSet(unsent) = {} /\ IsABag(threads) /\ BagToSet(threads) = {}
  BY <1>1, BagEmpty
<1>7. Talks
  BY <1>6 DEF Talks
<1>8. /\ profile \in [Profile -> {0} \cup Version] /\ gateway \in [Gateway -> {0} \cup Version]
      /\ asked \in Version /\ renamed \subseteq Gateway
      /\ listening \subseteq Liberator /\ missed \subseteq Node
      /\ state \in [Node -> {"down", "loading", "up"}]
      /\ inbox \in [Liberator -> Seq(Message)]
  BY <1>1, <1>2
<1>9. /\ Loaded \in [Profile -> Configured \cup {None}] /\ Lists \in [Out -> SUBSET Gateway]
  <2>1. ASSUME NEW p \in Stored PROVE Sip(p) \in Configured
    <3>1. Needed(p) \subseteq Known
      BY <1>5 DEF NamesStored, Needed, Engaging
    <3>2. profile[p] \in Version /\ \A g \in Known : gateway[g] \in Version
      BY <1>8 DEF Stored, Known
    <3> DEFINE G == [g \in Needed(p) |-> gateway[g]]
    <3>3. G \in [Needed(p) -> Version] /\ Needed(p) \in SUBSET Gateway
      BY <1>3, <3>1, <3>2
    <3>4. G \in UNION {[D -> Version] : D \in SUBSET Gateway}
      BY <3>3
    <3>5. Sip(p) = [settings |-> profile[p], gws |-> G]
      BY DEF Sip
    <3> HIDE DEF G
    <3>6. QED
      BY <3>2, <3>4, <3>5 DEF Configured
  <2>2. Loaded \in [Profile -> Configured \cup {None}]
    BY <2>1 DEF Loaded
  <2>3. \A o \in Out : out[o] # None => out[o].gws \in SUBSET Gateway
    BY <1>4 DEF Connection
  <2>4. QED
    BY <2>2, <2>3 DEF Lists
<1>10. /\ running \in [Node -> [Profile -> Configured \cup {None}]]
       /\ xml \in [Node -> [Out -> SUBSET Gateway]]
       /\ dist \in [Node -> [Out -> SUBSET Gateway]]
  BY <1>1, <1>9
<1>11. TypeOK
  BY <1>4, <1>6, <1>8, <1>10 DEF TypeOK
<1>12. QED
  BY <1>5, <1>6, <1>7, <1>11 DEF TypeInv

(* The types of the state: what is stored is of a request, what runs on a  *)
(* node was stored once, and no command is other than those of a message,  *)
(* whatever fails.                                                         *)
THEOREM TypeCorrect == Spec => []TypeOK
<1>1. Init => TypeInv
  BY TypeInit
<1>2. TypeInv /\ [Next]_vars => TypeInv'
  BY TypeStep
<1>3. TypeInv => TypeOK
  BY DEF TypeInv
<1>4. QED
  BY <1>1, <1>2, <1>3, PTL DEF Spec

-----------------------------------------------------------------------------
(* Careful requests: nothing that is stored is taken away.                 *)
HarmlessList(cs) ==
    \A i \in DOMAIN cs :
       /\ cs[i].do = "stop" => cs[i].profile \notin Stored
       /\ cs[i].do = "killgw" => \/ cs[i].gw \notin Needed(cs[i].profile)
                                 \/ Restored(cs, i)

LEMMA HarmlessLists == Harmless <=> \A cs \in InFlight : HarmlessList(cs)
BY DEF Harmless, HarmlessList

LEMMA HarmlessTail ==
  ASSUME NEW cs \in Seq(FsCommand), cs # <<>>, HarmlessList(cs)
  PROVE  HarmlessList(Tail(cs))
<1> DEFINE ds == Tail(cs)
<1>1. /\ \A i \in DOMAIN ds : i \in Nat /\ i + 1 \in DOMAIN cs /\ ds[i] = cs[i + 1]
      /\ \A j \in DOMAIN cs : j \in Nat /\ (j > 1 => j - 1 \in DOMAIN ds /\ ds[j - 1] = cs[j])
  OBVIOUS
<1> HIDE DEF ds
<1>2. ASSUME NEW i \in DOMAIN ds, Restored(cs, i + 1) PROVE Restored(ds, i)
  <2>1. PICK j \in DOMAIN cs : /\ j > i + 1 /\ cs[j].do = "rescan"
                               /\ cs[j].profile = cs[i + 1].profile
    BY <1>2 DEF Restored
  <2>2. j - 1 \in DOMAIN ds /\ j - 1 > i /\ ds[j - 1] = cs[j]
    BY <1>1, <2>1
  <2>3. QED
    BY <1>1, <2>1, <2>2 DEF Restored
<1>3. QED
  BY <1>1, <1>2 DEF HarmlessList, ds

LEMMA GatewayHarmless ==
  ASSUME NEW m \in Message, m.kind = "gateway"
  PROVE  HarmlessList(Commands(m))
<1> DEFINE cs == Commands(m)
<1>1. /\ DOMAIN cs = {1, 2, 3}
      /\ cs[1] = Command("killgw", m.new, m.gw)
      /\ cs[2] = Command("rescan", m.new, None)
      /\ cs[3] = Reload
  BY GatewayCommands
<1> HIDE DEF cs
<1>2. \A d, p, g : Command(d, p, g).do = d /\ Command(d, p, g).profile = p
  BY DEF Command
<1>3. /\ cs[1].profile = m.new /\ cs[2].do = "rescan" /\ cs[2].profile = m.new
      /\ cs[1].do = "killgw" /\ cs[3].do = "reloadxml"
  BY <1>1, <1>2 DEF Reload
<1>4. Restored(cs, 1)
  BY <1>1, <1>3 DEF Restored
<1>5. QED
  BY <1>1, <1>3, <1>4 DEF HarmlessList, cs

(* What may be on its way to the nodes after a step that is not a request. *)
LEMMA HarmlessKept ==
  ASSUME Harmless, UNCHANGED <<profile, out>>,
         \A cs \in InFlight' : cs \in InFlight \/ HarmlessList(cs)
  PROVE  Harmless'
<1>1. \A cs \in InFlight' : HarmlessList(cs)
  BY HarmlessLists
<1>2. ASSUME NEW cs, HarmlessList(cs) PROVE HarmlessList(cs)'
  BY <1>2 DEF HarmlessList, Stored, Needed, Engaging
<1>3. \A cs \in InFlight' : HarmlessList(cs)'
  BY <1>1, <1>2
<1>4. QED
  BY <1>3 DEF Harmless, HarmlessList

(* The messages and the threads that InFlight is made of.                  *)
LEMMA InFlightIs ==
  \A cs : cs \in InFlight <=>
     \/ \E m \in BagToSet(unsent) : m.kind # "gateway" /\ cs = Commands(m)
     \/ \E l \in Liberator : \E i \in DOMAIN inbox[l] :
           inbox[l][i].kind # "gateway" /\ cs = Commands(inbox[l][i])
     \/ \E t \in BagToSet(threads) : t.todo # {} /\ cs = t.cmds
     \/ \E t \in BagToSet(threads) : cs = t.left
BY DEF InFlight, Told

LEMMA InFlightNext ==
  \A cs : cs \in InFlight' <=>
     \/ \E m \in BagToSet(unsent') : m.kind # "gateway" /\ cs = Commands(m)
     \/ \E l \in Liberator : \E i \in DOMAIN inbox'[l] :
           inbox'[l][i].kind # "gateway" /\ cs = Commands(inbox'[l][i])
     \/ \E t \in BagToSet(threads') : t.todo # {} /\ cs = t.cmds
     \/ \E t \in BagToSet(threads') : cs = t.left
BY DEF InFlight, Told

LEMMA PublishedKept ==
  ASSUME Published, OneProfile, UNCHANGED out, BagToSet(unsent') \subseteq BagToSet(unsent)
  PROVE  Published' /\ OneProfile'
BY DEF Published, OneProfile, Users

LEMMA CareStep ==
  ASSUME Careful, TypeInv, CareInv, [Next]_vars
  PROVE  CareInv'
<1>1. Harmless /\ Published /\ OneProfile /\ TypeOK /\ Talks
  BY DEF CareInv, TypeInv
<1>2. ASSUME UNCHANGED <<profile, out>>, BagToSet(unsent') \subseteq BagToSet(unsent),
             \A cs \in InFlight' : cs \in InFlight \/ HarmlessList(cs)
      PROVE  CareInv'
  <2>1. Harmless'
    BY <1>1, <1>2, HarmlessKept
  <2>2. Published' /\ OneProfile'
    BY <1>1, <1>2, PublishedKept
  <2>3. QED
    BY <2>1, <2>2 DEF CareInv
<1>3. BagToSet(unsent) \subseteq Message /\ BagToSet(threads) \subseteq Job
      /\ inbox \in [Liberator -> Seq(Message)]
  BY <1>1 DEF TypeOK
<1>4. ASSUME Requests PROVE CareInv'
  <2>1. PICK ms \in SUBSET Message : Request(ms)
    BY <1>4, RequestStores DEF StoreKept, TypeInv
  <2>2. QED
    BY <2>1 DEF Request, CareInv
<1>5. CASE Publish
  <2>1. PICK m \in BagToSet(unsent) :
           /\ m \in Message
           /\ BagToSet(unsent') \subseteq BagToSet(unsent)
           /\ \/ Publishable(m) = {} /\ inbox' = inbox
              \/ \E x \in Publishable(m) :
                    \A l \in Liberator : inbox'[l] = IF l \in listening THEN Append(inbox[l], x)
                                                     ELSE inbox[l]
           /\ UNCHANGED <<store, listening, threads, nodes>>
    BY <1>1, <1>5, PublishIs
  <2>2. \A x \in Publishable(m) : x.kind = m.kind /\ (m.kind # "gateway" => x = m)
    <3>1. ASSUME NEW x \in Publishable(m), m.kind = "gateway" PROVE x.kind = m.kind
      <4>1. PICK o \in UNION {Users(h) : h \in m.gws} : x = [m EXCEPT !.new = out[o].profile]
        BY <1>1, <2>1, <3>1, PublishableIs
      <4>2. QED
        BY <2>1, <4>1 DEF Message
    <3>2. m.kind # "gateway" => Publishable(m) = {m}
      BY <1>1, <2>1, PublishableIs
    <3>3. QED
      BY <3>1, <3>2
  <2>3. ASSUME NEW l \in Liberator, NEW i \in DOMAIN inbox'[l], inbox'[l][i].kind # "gateway"
        PROVE  \/ inbox'[l][i] \in BagToSet(unsent)
               \/ \E j \in DOMAIN inbox[l] : inbox[l][j] = inbox'[l][i]
    <3>1. CASE inbox'[l] = inbox[l]
      BY <2>3, <3>1
    <3>2. ASSUME NEW x \in Publishable(m), inbox'[l] = Append(inbox[l], x)
          PROVE  \/ inbox'[l][i] \in BagToSet(unsent)
                 \/ \E j \in DOMAIN inbox[l] : inbox[l][j] = inbox'[l][i]
      <4> DEFINE s == inbox[l]
                 v == inbox'[l][i]
      <4>1. s \in Seq(Message)
        BY <1>3
      <4>2. i \in DOMAIN Append(s, x) /\ v = Append(s, x)[i]
        BY <3>2
      <4> HIDE DEF s, v
      <4>3. v = x \/ \E j \in DOMAIN s : s[j] = v
        BY <4>1, <4>2
      <4>4. QED
        BY <2>1, <2>2, <2>3, <4>3 DEF s, v
    <3>3. QED
      BY <2>1, <3>1, <3>2
  <2>4. \A cs \in InFlight' : cs \in InFlight
    <3>1. threads' = threads
      BY <2>1
    <3>2. ASSUME NEW l \in Liberator, NEW i \in DOMAIN inbox'[l],
                 inbox'[l][i].kind # "gateway"
          PROVE  Commands(inbox'[l][i]) \in InFlight
      BY <2>3, <3>2, InFlightIs
    <3>3. QED
      BY <2>1, <3>1, <3>2, InFlightIs, InFlightNext
  <2>5. QED
    BY <1>2, <2>1, <2>4 DEF store
<1>6. CASE WorkerDies
  <2>1. PICK m \in BagToSet(unsent) : unsent' = unsent (-) SetToBag({m})
    BY <1>6 DEF WorkerDies
  <2>2. BagToSet(unsent') \subseteq BagToSet(unsent)
    BY <1>1, <2>1, BagTake DEF TypeOK
  <2>3. UNCHANGED <<store, inbox, threads>>
    BY <1>6 DEF WorkerDies
  <2>4. \A cs \in InFlight' : cs \in InFlight
    BY <2>2, <2>3, InFlightIs, InFlightNext
  <2>5. QED
    BY <1>2, <2>2, <2>3, <2>4 DEF store
<1>7. ASSUME NEW l \in Liberator, Handle(l) PROVE CareInv'
  <2> DEFINE m == Head(inbox[l])
             t == [cmds |-> Commands(m), node |-> None, left |-> <<>>, todo |-> Node]
  <2>1. /\ inbox[l] \in Seq(Message) /\ inbox[l] # <<>> /\ m \in Message
        /\ \A k \in Liberator : inbox'[k] = IF k = l THEN Tail(inbox[l]) ELSE inbox[k]
        /\ t.cmds = Commands(m) /\ t.left = <<>>
        /\ BagToSet(threads') = BagToSet(threads) \cup {t}
        /\ UNCHANGED <<store, unsent>>
    BY <1>1, <1>7, HandleIs
  <2> HIDE DEF t
  <2>2. m = inbox[l][1] /\ 1 \in DOMAIN inbox[l]
    BY <2>1
  <2>3. \A i \in DOMAIN Tail(inbox[l]) : i + 1 \in DOMAIN inbox[l] /\ Tail(inbox[l])[i] = inbox[l][i + 1]
    BY <2>1
  <2>4. \A k \in Liberator : \A i \in DOMAIN inbox'[k] : \E j \in DOMAIN inbox[k] :
           inbox[k][j] = inbox'[k][i]
    BY <2>1, <2>3
  <2> HIDE DEF m
  <2>5. ASSUME NEW cs \in InFlight' PROVE cs \in InFlight \/ HarmlessList(cs)
    <3>1. \/ cs \in InFlight \/ cs = t.cmds \/ cs = t.left
      BY <2>1, <2>4, InFlightIs, InFlightNext
    <3>2. t.cmds \in InFlight \/ HarmlessList(t.cmds)
      BY <2>1, <2>2, InFlightIs, GatewayHarmless
    <3>3. HarmlessList(t.left)
      BY <2>1 DEF HarmlessList
    <3>4. QED
      BY <3>1, <3>2, <3>3
  <2>6. QED
    BY <1>2, <2>1, <2>5 DEF store
<1>8. ASSUME NEW l \in Liberator, LoseSubscription(l) \/ Subscribe(l) PROVE CareInv'
  <2>1. UNCHANGED <<store, unsent, threads>>
        /\ \A k \in Liberator : inbox'[k] = inbox[k] \/ inbox'[k] = <<>>
    BY <1>3, <1>8 DEF LoseSubscription, Subscribe
  <2>2. \A cs \in InFlight' : cs \in InFlight
    BY <2>1, InFlightIs, InFlightNext
  <2>3. QED
    BY <1>2, <2>1, <2>2 DEF store
<1>9. ASSUME NEW t \in BagToSet(threads), NEW u \in Job, Become(t, u),
             u.todo \subseteq t.todo, u.cmds = t.cmds,
             u.left \in InFlight \/ HarmlessList(u.left),
             UNCHANGED <<store, bus>>
      PROVE  CareInv'
  <2>1. BagToSet(threads') \subseteq BagToSet(threads) \cup {u}
    BY <1>1, <1>9, BecomeIs
  <2>2. \A cs \in InFlight' : cs \in InFlight \/ HarmlessList(cs)
    <3>1. \A cs \in InFlight' : cs \in InFlight \/ cs = u.left \/ (cs = u.cmds /\ u.todo # {})
      BY <1>9, <2>1, InFlightIs, InFlightNext DEF bus
    <3>2. u.todo # {} => u.cmds \in InFlight
      BY <1>9, InFlightIs
    <3>3. QED
      BY <1>9, <3>1, <3>2
  <2>3. QED
    BY <1>2, <1>9, <2>2 DEF store, bus
<1>10. ASSUME NEW t \in BagToSet(threads), Send(t) PROVE CareInv'
  <2>1. /\ t \in Job /\ t.left # <<>> /\ t.left \in Seq(FsCommand)
        /\ Become(t, Sent(t)) /\ Sent(t) \in Job /\ Sent(t).cmds = t.cmds
        /\ Sent(t).left = Tail(t.left) /\ Sent(t).todo = t.todo
        /\ UNCHANGED <<store, bus>>
    BY <1>1, <1>10, SendIs, SentIs
  <2>2. HarmlessList(t.left)
    BY <1>1, HarmlessLists, InFlightIs
  <2>3. HarmlessList(Tail(t.left))
    BY <2>1, <2>2, HarmlessTail
  <2>4. QED
    BY <1>9, <2>1, <2>3
<1>11. ASSUME NEW t \in BagToSet(threads), NEW n \in Node, Connect(t, n) PROVE CareInv'
  <2>1. /\ Become(t, Connected(t, n)) /\ n \in t.todo /\ UNCHANGED <<store, bus>>
    BY <1>11 DEF Connect, Connected
  <2>2. /\ Connected(t, n) \in Job /\ Connected(t, n).cmds = t.cmds
        /\ Connected(t, n).left = t.cmds /\ Connected(t, n).todo \subseteq t.todo
    BY <1>3, JobSteps
  <2>3. t.cmds \in InFlight
    BY <2>1, InFlightIs
  <2>4. QED
    BY <1>9, <2>1, <2>2, <2>3
<1>12. ASSUME NEW t \in BagToSet(threads), NEW n \in Node, Skip(t, n) PROVE CareInv'
  <2>1. /\ Become(t, Skipped(t, n)) /\ UNCHANGED <<store, bus>>
    BY <1>12 DEF Skip, Skipped
  <2>2. /\ Skipped(t, n) \in Job /\ Skipped(t, n).cmds = t.cmds
        /\ Skipped(t, n).left = t.left /\ Skipped(t, n).todo \subseteq t.todo
    BY <1>3, JobSteps
  <2>3. t.left \in InFlight
    BY InFlightIs
  <2>4. QED
    BY <1>9, <2>1, <2>2, <2>3
<1>13. ASSUME UNCHANGED <<store, bus>>, BagToSet(threads') \subseteq BagToSet(threads)
       PROVE  CareInv'
  <2>1. \A cs \in InFlight' : cs \in InFlight
    BY <1>13, InFlightIs, InFlightNext DEF bus
  <2>2. QED
    BY <1>2, <1>13, <2>1 DEF store, bus
<1>14. ASSUME NEW n \in Node, Crash(n) \/ Load(n) \/ Listen(n) PROVE CareInv'
  <2>1. UNCHANGED <<store, bus>> /\ BagToSet(threads') \subseteq BagToSet(threads)
    BY <1>1, <1>14, CrashIs DEF Load, Listen
  <2>2. QED
    BY <1>13, <2>1
<1>15. CASE UNCHANGED vars
  BY <1>13, <1>15 DEF vars, store, bus
<1>16. QED
  BY <1>4, <1>5, <1>6, <1>7, <1>8, <1>10, <1>11, <1>12, <1>14, <1>15
     DEF Next, Thread, Requests

-----------------------------------------------------------------------------
(* What is owed to a node.                                                 *)
LEMMA OwedIs ==
  ASSUME NEW n
  PROVE  \A cs : cs \in Owed(n) <=>
     \/ \E m \in BagToSet(unsent) : \E x \in Sendable(m) : cs = Commands(x)
     \/ \E l \in Reliable : \E i \in DOMAIN inbox[l] : cs = Commands(inbox[l][i])
     \/ \E t \in BagToSet(threads) : n \in t.todo /\ cs = t.cmds
     \/ \E t \in BagToSet(threads) : t.node = n /\ cs = t.left
<1> DEFINE X == UNION {Sendable(m) : m \in BagToSet(unsent)}
           A == {Commands(x) : x \in X}
           B == UNION {{Commands(inbox[l][i]) : i \in DOMAIN inbox[l]} : l \in Reliable}
           C == {t.cmds : t \in {u \in BagToSet(threads) : n \in u.todo}}
           D == {t.left : t \in {u \in BagToSet(threads) : u.node = n}}
<1>1. Owed(n) = A \cup B \cup C \cup D
  BY DEF Owed
<1>2. \A cs : cs \in A <=> \E m \in BagToSet(unsent) : \E x \in Sendable(m) : cs = Commands(x)
  <2>1. \A x : x \in X <=> \E m \in BagToSet(unsent) : x \in Sendable(m)
    OBVIOUS
  <2> HIDE DEF X
  <2>2. QED
    BY <2>1
<1>3. \A cs : cs \in B <=> \E l \in Reliable : \E i \in DOMAIN inbox[l] : cs = Commands(inbox[l][i])
  OBVIOUS
<1>4. \A cs : cs \in C <=> \E t \in BagToSet(threads) : n \in t.todo /\ cs = t.cmds
  OBVIOUS
<1>5. \A cs : cs \in D <=> \E t \in BagToSet(threads) : t.node = n /\ cs = t.left
  OBVIOUS
<1> HIDE DEF X, A, B, C, D
<1>6. QED
  BY <1>1, <1>2, <1>3, <1>4, <1>5

LEMMA OwedNext ==
  ASSUME NEW n
  PROVE  \A cs : cs \in Owed(n)' <=>
     \/ \E m \in BagToSet(unsent') : \E x \in Sendable(m) : cs = Commands(x)
     \/ \E l \in Reliable : \E i \in DOMAIN inbox'[l] : cs = Commands(inbox'[l][i])
     \/ \E t \in BagToSet(threads') : n \in t.todo /\ cs = t.cmds
     \/ \E t \in BagToSet(threads') : t.node = n /\ cs = t.left
<1> DEFINE X == UNION {Sendable(m) : m \in BagToSet(unsent')}
           A == {Commands(x) : x \in X}
           B == UNION {{Commands(inbox'[l][i]) : i \in DOMAIN inbox'[l]} : l \in Reliable}
           C == {t.cmds : t \in {u \in BagToSet(threads') : n \in u.todo}}
           D == {t.left : t \in {u \in BagToSet(threads') : u.node = n}}
<1>1. Owed(n)' = A \cup B \cup C \cup D
  BY DEF Owed
<1>2. \A cs : cs \in A <=> \E m \in BagToSet(unsent') : \E x \in Sendable(m) : cs = Commands(x)
  <2>1. \A x : x \in X <=> \E m \in BagToSet(unsent') : x \in Sendable(m)
    OBVIOUS
  <2> HIDE DEF X
  <2>2. QED
    BY <2>1
<1>3. \A cs : cs \in B <=> \E l \in Reliable : \E i \in DOMAIN inbox'[l] : cs = Commands(inbox'[l][i])
  OBVIOUS
<1>4. \A cs : cs \in C <=> \E t \in BagToSet(threads') : n \in t.todo /\ cs = t.cmds
  OBVIOUS
<1>5. \A cs : cs \in D <=> \E t \in BagToSet(threads') : t.node = n /\ cs = t.left
  OBVIOUS
<1> HIDE DEF X, A, B, C, D
<1>6. QED
  BY <1>1, <1>2, <1>3, <1>4, <1>5

LEMMA OfSendable ==
  ASSUME NEW m \in Message, NEW x \in Sendable(m)
  PROVE  x \in Message /\ x.kind = m.kind /\ (m.kind # "gateway" => x = m)
<1>1. m.kind = "gateway" => Sendable(m) = {[m EXCEPT !.new = p] : p \in m.profiles}
  BY DEF Sendable
<1>2. m.kind # "gateway" => Sendable(m) = {m}
  BY DEF Sendable
<1>3. m.profiles \subseteq Profile
  BY OfMessage
<1>4. \A p \in Profile : [m EXCEPT !.new = p] \in Message /\ [m EXCEPT !.new = p].kind = m.kind
  BY DEF Message
<1>5. CASE m.kind = "gateway"
  <2>1. PICK p \in m.profiles : x = [m EXCEPT !.new = p]
    BY <1>1, <1>5
  <2>2. QED
    BY <1>3, <1>4, <1>5, <2>1
<1>6. QED
  BY <1>2, <1>5

LEMMA OwedType ==
  ASSUME TypeOK, NEW n
  PROVE  /\ Owed(n) \subseteq Seq(FsCommand)
         /\ \A cs \in Owed(n) : \/ cs \in InFlight
                                \/ \E m \in Message : m.kind = "gateway" /\ cs = Commands(m)
<1> SUFFICES ASSUME NEW cs \in Owed(n)
             PROVE  /\ cs \in Seq(FsCommand)
                    /\ \/ cs \in InFlight
                       \/ \E m \in Message : m.kind = "gateway" /\ cs = Commands(m)
  OBVIOUS
<1>1. BagToSet(unsent) \subseteq Message /\ BagToSet(threads) \subseteq Job
      /\ inbox \in [Liberator -> Seq(Message)] /\ Reliable \subseteq Liberator
  BY DEF TypeOK, Reliable
<1>2. ASSUME NEW x \in Message, cs = Commands(x), x.kind # "gateway" => cs \in InFlight
      PROVE  /\ cs \in Seq(FsCommand)
             /\ \/ cs \in InFlight
                \/ \E m \in Message : m.kind = "gateway" /\ cs = Commands(m)
  BY <1>2, CommandsType
<1>3. ASSUME NEW m \in BagToSet(unsent), NEW x \in Sendable(m), cs = Commands(x)
      PROVE  x \in Message /\ (x.kind # "gateway" => cs \in InFlight)
  <2>1. x \in Message /\ x.kind = m.kind /\ (m.kind # "gateway" => x = m)
    BY <1>1, OfSendable
  <2>2. QED
    BY <1>3, <2>1, InFlightIs
<1>4. ASSUME NEW l \in Reliable, NEW i \in DOMAIN inbox[l], cs = Commands(inbox[l][i])
      PROVE  inbox[l][i] \in Message /\ (inbox[l][i].kind # "gateway" => cs \in InFlight)
  <2>1. inbox[l] \in Seq(Message) /\ l \in Liberator
    BY <1>1
  <2>2. inbox[l][i] \in Message
    BY <2>1
  <2>3. QED
    BY <1>4, <2>1, <2>2, InFlightIs
<1>5. ASSUME NEW t \in BagToSet(threads), (n \in t.todo /\ cs = t.cmds) \/ cs = t.left
      PROVE  cs \in Seq(FsCommand) /\ cs \in InFlight
  <2>1. t \in Job
    BY <1>1
  <2>2. QED
    BY <1>5, <2>1, OfJob, InFlightIs
<1>6. QED
  BY <1>2, <1>3, <1>4, <1>5, OwedIs

(* A step that leaves a node alone, and what is owed to it.                *)
Keeps(n) ==
    /\ running'[n] = running[n] /\ xml'[n] = xml[n] /\ dist'[n] = dist[n]
    /\ \A c : Due(n, c) => Due(n, c)'
    /\ (\E cs \in Owed(n) : Refreshes(cs)) => (\E cs \in Owed(n)' : Refreshes(cs))

LEMMA OwedKept ==
  ASSUME NEW n, \A cs \in Owed(n) : cs = <<>> \/ cs \in Owed(n)'
  PROVE  /\ \A c : Due(n, c) => Due(n, c)'
         /\ (\E cs \in Owed(n) : Refreshes(cs)) => (\E cs \in Owed(n)' : Refreshes(cs))
<1>1. \A cs : (\E c : Has(cs, c)) \/ Refreshes(cs) => cs # <<>>
  BY DEF Has, Refreshes
<1>2. QED
  BY <1>1 DEF Due

(* Parts of NodeDue that a step keeps.                                     *)
LEMMA ProfileKept ==
  ASSUME NEW n, NEW p \in Profile, ProfileDue(n, p),
         running'[n][p] = running[n][p], profile'[p] = profile[p],
         p \in Stored <=> p \in Stored',
         \A do : Due(n, Command(do, p, None)) => Due(n, Command(do, p, None))'
  PROVE  ProfileDue(n, p)'
<1>1. CASE p \in Stored
  BY <1>1 DEF ProfileDue
<1>2. CASE p \notin Stored
  BY <1>2 DEF ProfileDue
<1>3. QED
  BY <1>1, <1>2

LEMMA GatewayKept ==
  ASSUME NEW n, NEW p, NEW g \in Gateway, GatewayDue(n, p, g),
         g \in Needed(p)' => /\ g \in Needed(p) /\ gateway'[g] = gateway[g]
                             /\ g \in DOMAIN running[n][p].gws =>
                                   /\ g \in DOMAIN running'[n][p].gws
                                   /\ running'[n][p].gws[g] = running[n][p].gws[g],
         g \in Needed(p) => g \in Needed(p)',
         g \in DOMAIN running'[n][p].gws => g \in DOMAIN running[n][p].gws,
         \A do, h : Due(n, Command(do, p, h)) => Due(n, Command(do, p, h))'
  PROVE  GatewayDue(n, p, g)'
<1>1. CASE g \in Needed(p) /\ g \in DOMAIN running[n][p].gws
  BY <1>1 DEF GatewayDue
<1>2. CASE g \in Needed(p) /\ g \notin DOMAIN running[n][p].gws
  BY <1>2 DEF GatewayDue
<1>3. CASE g \notin Needed(p)
  BY <1>3 DEF GatewayDue
<1>4. QED
  BY <1>1, <1>2, <1>3

LEMMA GatewaysKept ==
  ASSUME NEW n, NEW p, GatewaysDue(n, p),
         running'[n][p] = running[n][p], p \in Stored' => p \in Stored,
         Needed(p)' = Needed(p), \A g \in Needed(p) : gateway'[g] = gateway[g],
         \A do, h : Due(n, Command(do, p, h)) => Due(n, Command(do, p, h))'
  PROVE  GatewaysDue(n, p)'
<1>1. SUFFICES ASSUME p \in Stored', running'[n][p] # None,
                      ~ Due(n, Command("restart", p, None))'
               PROVE  \A g \in Gateway : GatewayDue(n, p, g)'
  BY DEF GatewaysDue
<1>2. \A g \in Gateway : GatewayDue(n, p, g)
  BY <1>1 DEF GatewaysDue
<1>3. QED
  BY <1>2, GatewayKept

LEMMA ListKept ==
  ASSUME NEW n, NEW o \in Out, ListDue(n, o), Keeps(n),
         \A list : Fresh(list, o) => Fresh(list, o)'
  PROVE  ListDue(n, o)'
<1> DEFINE R == \E cs \in Owed(n) : Refreshes(cs)
           S == \E cs \in Owed(n)' : Refreshes(cs)
<1>1. /\ xml'[n] = xml[n] /\ dist'[n] = dist[n] /\ (R => S)
      /\ Due(n, Distribute) => Due(n, Distribute)'
  BY DEF Keeps
<1>2. /\ Fresh(xml[n], o) => Fresh(xml[n], o)'
      /\ Fresh(dist[n], o) => Fresh(dist[n], o)'
  BY <1>1 DEF Fresh
<1>3. (Fresh(xml[n], o) \/ R) /\ (Fresh(dist[n], o) \/ R \/ (Fresh(xml[n], o) /\ Due(n, Distribute)))
  BY DEF ListDue
<1> HIDE DEF R, S
<1>4. /\ Fresh(xml[n], o)' \/ S
      /\ Fresh(dist[n], o)' \/ S \/ (Fresh(xml[n], o)' /\ Due(n, Distribute)')
  BY <1>1, <1>2, <1>3
<1>5. QED
  BY <1>4 DEF ListDue, S

LEMMA NodeKept ==
  ASSUME NEW n, NodeDue(n), UNCHANGED <<profile, gateway, out, renamed>>,
         running'[n] = running[n], xml'[n] = xml[n], dist'[n] = dist[n],
         \A cs \in Owed(n) : cs = <<>> \/ cs \in Owed(n)'
  PROVE  NodeDue(n)'
<1>1. Keeps(n)
  BY OwedKept DEF Keeps
<1>2. \A c : Due(n, c) => Due(n, c)'
  BY <1>1 DEF Keeps
<1>3. /\ \A p \in Profile : ProfileDue(n, p) /\ GatewaysDue(n, p)
      /\ \A o \in Out : ListDue(n, o)
  BY DEF NodeDue
<1>4. Stored' = Stored /\ Lists' = Lists
  BY DEF Stored, Lists
<1>5. \A p : Needed(p)' = Needed(p)
  BY DEF Needed, Engaging
<1>6. ASSUME NEW p \in Profile PROVE ProfileDue(n, p)' /\ GatewaysDue(n, p)'
  <2>1. ProfileDue(n, p)'
    BY <1>2, <1>3, <1>4, ProfileKept
  <2>2. GatewaysDue(n, p)'
    BY <1>2, <1>3, <1>4, <1>5, GatewaysKept
  <2>3. QED
    BY <2>1, <2>2
<1>7. \A list, o : Fresh(list, o) => Fresh(list, o)'
  BY <1>4 DEF Fresh
<1>8. \A o \in Out : ListDue(n, o)'
  BY <1>1, <1>3, <1>7, ListKept
<1>9. QED
  BY <1>6, <1>8 DEF NodeDue

(* A node that has just loaded what is stored.                             *)
LEMMA NodeLoaded ==
  ASSUME TypeOK, NamesStored, NEW n \in Node, UNCHANGED <<profile, gateway, out, renamed>>,
         running'[n] = Loaded, xml'[n] = Lists, dist'[n] = Lists
  PROVE  NodeDue(n)'
<1>1. Stored' = Stored /\ Lists' = Lists /\ (\A p : Needed(p)' = Needed(p))
  BY DEF Stored, Lists, Needed, Engaging
<1>2. ASSUME NEW p \in Profile PROVE ProfileDue(n, p)' /\ GatewaysDue(n, p)'
  <2>1. running'[n][p] = IF p \in Stored THEN Sip(p) ELSE None
    BY DEF Loaded
  <2>2. CASE p \notin Stored
    BY <1>1, <2>1, <2>2 DEF ProfileDue, GatewaysDue
  <2>3. CASE p \in Stored
    <3>1. /\ running'[n][p] # None /\ running'[n][p].settings = profile[p]
          /\ DOMAIN running'[n][p].gws = Needed(p)
          /\ \A g \in Needed(p) : running'[n][p].gws[g] = gateway[g]
      BY <2>1, <2>3, SipType, OfConfigured
    <3>2. ProfileDue(n, p)'
      BY <1>1, <2>3, <3>1 DEF ProfileDue
    <3>3. \A g \in Gateway : GatewayDue(n, p, g)'
      BY <1>1, <3>1 DEF GatewayDue
    <3>4. QED
      BY <3>2, <3>3 DEF GatewaysDue
  <2>4. QED
    BY <2>2, <2>3
<1>3. \A o \in Out : ListDue(n, o)'
  BY <1>1 DEF ListDue, Fresh
<1>4. QED
  BY <1>2, <1>3 DEF NodeDue

(* A message that is published, and one that is handled, is owed as before.*)
LEMMA PublishOwed ==
  ASSUME TypeInv, CareInv, Reliable \subseteq listening, Publish, NEW n
  PROVE  \A cs \in Owed(n) : cs \in Owed(n)'
<1>1. TypeOK /\ Published /\ OneProfile /\ \A m \in BagToSet(unsent) : OneGateway(m)
  BY DEF TypeInv, CareInv
<1>2. PICK m \in BagToSet(unsent) :
         /\ m \in Message
         /\ BagToSet(unsent) \ {m} \subseteq BagToSet(unsent')
         /\ \/ Publishable(m) = {} /\ inbox' = inbox
            \/ \E x \in Publishable(m) :
                  \A l \in Liberator : inbox'[l] = IF l \in listening THEN Append(inbox[l], x)
                                                   ELSE inbox[l]
         /\ UNCHANGED <<store, listening, threads, nodes>>
  BY <1>1, PublishIs
<1>3. inbox \in [Liberator -> Seq(Message)] /\ Reliable \subseteq Liberator
  BY <1>1 DEF TypeOK, Reliable
<1>4. ASSUME NEW l \in Reliable, NEW i \in DOMAIN inbox[l]
      PROVE  i \in DOMAIN inbox'[l] /\ inbox'[l][i] = inbox[l][i]
  <2>1. inbox[l] \in Seq(Message) /\ l \in Liberator
    BY <1>3
  <2>2. \A x : i \in DOMAIN Append(inbox[l], x) /\ Append(inbox[l], x)[i] = inbox[l][i]
    BY <2>1
  <2>3. QED
    BY <1>2, <2>1, <2>2
(* What is published of an updated gateway is for the profile that had it. *)
<1>5. ASSUME NEW x \in Sendable(m)
      PROVE  \E l \in Reliable : \E i \in DOMAIN inbox'[l] : inbox'[l][i] = x
  <2>1. x \in Publishable(m) /\ \A y \in Publishable(m) : y = x
    <3>1. CASE m.kind # "gateway"
      BY <1>1, <1>2, <3>1, OfSendable, PublishableIs
    <3>2. CASE m.kind = "gateway"
      <4> DEFINE U == UNION {Users(h) : h \in m.gws}
      <4>1. PICK p \in m.profiles : x = [m EXCEPT !.new = p]
        BY <3>2 DEF Sendable
      <4>2. m.profiles \subseteq {out[o].profile : o \in U}
        BY <1>1, <3>2 DEF Published
      <4>3. PICK h \in Gateway : m.gws = {h}
        BY <1>1, <3>2 DEF OneGateway
      <4>4. U = Users(h)
        BY <4>3
      <4>5. \A o, q \in U : out[o].profile = out[q].profile
        BY <1>1, <4>4 DEF OneProfile, Users
      <4>6. PICK o \in U : p = out[o].profile
        BY <4>1, <4>2
      <4>7. Publishable(m) = {[m EXCEPT !.new = out[q].profile] : q \in U}
        BY <3>2 DEF Publishable
      <4> HIDE DEF U
      <4>8. x \in Publishable(m)
        BY <4>1, <4>6, <4>7
      <4>9. ASSUME NEW y \in Publishable(m) PROVE y = x
        <5>1. PICK q \in U : y = [m EXCEPT !.new = out[q].profile]
          BY <4>7
        <5>2. out[q].profile = p
          BY <4>5, <4>6
        <5>3. QED
          BY <4>1, <5>1, <5>2
      <4>10. QED
        BY <4>8, <4>9
    <3>3. QED
      BY <3>1, <3>2
  <2>2. \A l \in Liberator : inbox'[l] = IF l \in listening THEN Append(inbox[l], x)
                                         ELSE inbox[l]
    BY <1>2, <2>1
  <2>3. PICK l \in Reliable : l \in Liberator /\ l \in listening
    BY PushAssumption DEF PushAssumption, Reliable
  <2>4. inbox'[l] = Append(inbox[l], x) /\ inbox[l] \in Seq(Message)
    BY <1>3, <2>2, <2>3
  <2>5. Len(inbox[l]) + 1 \in DOMAIN inbox'[l] /\ inbox'[l][Len(inbox[l]) + 1] = x
    BY <2>4
  <2>6. QED
    BY <2>3, <2>5
<1>6. SUFFICES ASSUME NEW cs \in Owed(n) PROVE cs \in Owed(n)'
  OBVIOUS
<1>7. ASSUME NEW w \in BagToSet(unsent), NEW x \in Sendable(w), cs = Commands(x)
      PROVE  cs \in Owed(n)'
  <2>1. CASE w = m
    BY <1>5, <1>7, <2>1, OwedNext
  <2>2. CASE w # m
    BY <1>2, <1>7, <2>2, OwedNext
  <2>3. QED
    BY <2>1, <2>2
<1>8. ASSUME NEW l \in Reliable, NEW i \in DOMAIN inbox[l], cs = Commands(inbox[l][i])
      PROVE  cs \in Owed(n)'
  BY <1>4, <1>8, OwedNext
<1>9. ASSUME NEW t \in BagToSet(threads), (n \in t.todo /\ cs = t.cmds) \/ (t.node = n /\ cs = t.left)
      PROVE  cs \in Owed(n)'
  BY <1>2, <1>9, OwedNext
<1>10. QED
  BY <1>7, <1>8, <1>9, OwedIs

LEMMA HandleOwed ==
  ASSUME TypeOK, NEW l \in Liberator, Handle(l), NEW n \in Node
  PROVE  \A cs \in Owed(n) : cs \in Owed(n)'
<1> DEFINE m == Head(inbox[l])
           t == [cmds |-> Commands(m), node |-> None, left |-> <<>>, todo |-> Node]
<1>1. /\ inbox[l] \in Seq(Message) /\ inbox[l] # <<>>
      /\ \A k \in Liberator : inbox'[k] = IF k = l THEN Tail(inbox[l]) ELSE inbox[k]
      /\ t.cmds = Commands(m) /\ t.todo = Node
      /\ BagToSet(threads') = BagToSet(threads) \cup {t}
      /\ UNCHANGED <<store, unsent, listening, nodes>>
  BY HandleIs
<1> HIDE DEF t
<1>2. ASSUME NEW i \in DOMAIN inbox[l]
      PROVE  \/ inbox[l][i] = m
             \/ \E j \in DOMAIN inbox'[l] : inbox'[l][j] = inbox[l][i]
  <2> DEFINE s == inbox[l]
  <2>1. s \in Seq(Message) /\ s # <<>> /\ i \in DOMAIN s /\ inbox'[l] = Tail(s)
    BY <1>1
  <2> HIDE DEF s
  <2>2. s[i] = Head(s) \/ (i - 1 \in DOMAIN Tail(s) /\ Tail(s)[i - 1] = s[i])
    BY <2>1
  <2>3. QED
    BY <2>1, <2>2 DEF s
<1>3. Commands(m) \in Owed(n)'
  BY <1>1, OwedNext
<1>4. SUFFICES ASSUME NEW cs \in Owed(n) PROVE cs \in Owed(n)'
  OBVIOUS
<1>5. ASSUME NEW k \in Reliable, NEW i \in DOMAIN inbox[k], cs = Commands(inbox[k][i])
      PROVE  cs \in Owed(n)'
  <2>1. CASE k = l
    BY <1>2, <1>3, <1>5, <2>1, OwedNext
  <2>2. CASE k # l
    BY <1>1, <1>5, <2>2, OwedNext DEF Reliable
  <2>3. QED
    BY <2>1, <2>2
<1>6. ASSUME NEW u \in BagToSet(threads), (n \in u.todo /\ cs = u.cmds) \/ (u.node = n /\ cs = u.left)
      PROVE  cs \in Owed(n)'
  BY <1>1, <1>6, OwedNext
<1>7. ASSUME NEW w \in BagToSet(unsent), NEW x \in Sendable(w), cs = Commands(x)
      PROVE  cs \in Owed(n)'
  BY <1>1, <1>7, OwedNext
<1>8. QED
  BY <1>5, <1>6, <1>7, OwedIs

(* What is owed to a node when a thread goes on.                           *)
LEMMA BecomeOwed ==
  ASSUME TypeOK, NEW t \in BagToSet(threads), NEW u \in Job, Become(t, u), UNCHANGED bus, NEW n,
         u.cmds = t.cmds
  PROVE  /\ u.node = n /\ u.left # <<>> => u.left \in Owed(n)'
         /\ \A cs \in Owed(n) : \/ cs \in Owed(n)'
                                \/ n \in t.todo /\ n \notin u.todo /\ cs = t.cmds
                                \/ t.node = n /\ cs = t.left
<1>1. /\ BagToSet(threads) \ {t} \subseteq BagToSet(threads')
      /\ u.todo # {} \/ u.left # <<>> => u \in BagToSet(threads')
  BY BecomeIs
<1>2. unsent' = unsent /\ inbox' = inbox
  BY DEF bus
<1>3. u.node = n /\ u.left # <<>> => u.left \in Owed(n)'
  BY <1>1, OwedNext
<1>4. ASSUME NEW cs \in Owed(n)
      PROVE  \/ cs \in Owed(n)'
             \/ n \in t.todo /\ n \notin u.todo /\ cs = t.cmds
             \/ t.node = n /\ cs = t.left
  <2>1. CASE \E w \in BagToSet(unsent) : \E x \in Sendable(w) : cs = Commands(x)
    BY <1>2, <2>1, OwedNext
  <2>2. CASE \E l \in Reliable : \E i \in DOMAIN inbox[l] : cs = Commands(inbox[l][i])
    BY <1>2, <2>2, OwedNext
  <2>3. ASSUME NEW v \in BagToSet(threads), v # t,
               (n \in v.todo /\ cs = v.cmds) \/ (v.node = n /\ cs = v.left)
        PROVE  cs \in Owed(n)'
    BY <1>1, <2>3, OwedNext
  <2>4. CASE n \in t.todo /\ n \in u.todo /\ cs = t.cmds
    BY <1>1, <2>4, OwedNext
  <2>5. QED
    BY <2>1, <2>2, <2>3, <2>4, OwedIs
<1>5. QED
  BY <1>3, <1>4

(* The steps that are neither requests nor commands.                       *)
Others == \/ Publish \/ WorkerDies
          \/ \E l \in Liberator : Handle(l) \/ LoseSubscription(l) \/ Subscribe(l)
          \/ \E t \in BagToSet(threads), n \in Node : Connect(t, n) \/ Skip(t, n)
          \/ \E n \in Node : Crash(n) \/ Load(n) \/ Listen(n)
          \/ UNCHANGED vars

LEMMA OtherSteps ==
  ASSUME TypeInv, CareInv, DueInv, Others
  PROVE  DueInv'
<1>1. /\ TypeOK /\ NamesStored /\ Reliable \subseteq listening
      /\ \A n \in Sound : NodeDue(n)
  BY DEF TypeInv, DueInv
<1>2. /\ IsABag(threads) /\ BagToSet(threads) \subseteq Job
      /\ inbox \in [Liberator -> Seq(Message)]
      /\ state \in [Node -> {"down", "loading", "up"}]
      /\ running \in [Node -> [Profile -> Configured \cup {None}]]
      /\ xml \in [Node -> [Out -> SUBSET Gateway]]
      /\ dist \in [Node -> [Out -> SUBSET Gateway]]
  BY <1>1 DEF TypeOK
<1>3. ASSUME UNCHANGED <<store, running, xml, dist>>, Reliable \subseteq listening',
             \A n \in Sound' : n \in Sound /\ \A cs \in Owed(n) : cs = <<>> \/ cs \in Owed(n)'
      PROVE  DueInv'
  <2>1. \A n \in Sound' : NodeDue(n)'
    BY <1>1, <1>3, NodeKept DEF store
  <2>2. QED
    BY <1>3, <2>1 DEF DueInv, Reliable
<1>4. CASE Publish
  <2>1. UNCHANGED <<store, listening, nodes>>
    BY <1>4 DEF Publish
  <2>2. \A n \in Sound' : n \in Sound /\ \A cs \in Owed(n) : cs \in Owed(n)'
    BY <1>1, <1>4, <2>1, PublishOwed DEF Sound, nodes
  <2>3. QED
    BY <1>1, <1>3, <2>1, <2>2 DEF nodes
<1>5. CASE WorkerDies
  <2>1. missed' = Node /\ UNCHANGED <<store, listening, running, xml, dist>>
    BY <1>5 DEF WorkerDies
  <2>2. Sound' = {}
    BY <2>1 DEF Sound
  <2>3. QED
    BY <1>1, <1>3, <2>1, <2>2
<1>6. ASSUME NEW l \in Liberator, Handle(l) PROVE DueInv'
  <2>1. UNCHANGED <<store, listening, nodes>>
    BY <1>6 DEF Handle
  <2>2. \A n \in Sound' : n \in Sound /\ \A cs \in Owed(n) : cs \in Owed(n)'
    BY <1>1, <1>6, <2>1, HandleOwed DEF Sound, nodes
  <2>3. QED
    BY <1>1, <1>3, <2>1, <2>2 DEF nodes
<1>7. ASSUME NEW l \in Liberator, LoseSubscription(l) \/ Subscribe(l) PROVE DueInv'
  <2>1. /\ UNCHANGED <<store, unsent, threads, nodes>>
        /\ Reliable \subseteq listening'
        /\ \A k \in Reliable : inbox'[k] = inbox[k]
    BY <1>1, <1>2, <1>7 DEF LoseSubscription, Subscribe, Reliable
  <2>2. \A n : \A cs \in Owed(n) : cs \in Owed(n)'
    BY <2>1, OwedIs, OwedNext
  <2>3. Sound' = Sound
    BY <2>1 DEF Sound, nodes
  <2>4. QED
    BY <1>3, <2>1, <2>2, <2>3 DEF nodes
<1>8. ASSUME NEW t \in BagToSet(threads), NEW k \in Node, Connect(t, k) PROVE DueInv'
  <2> DEFINE u == Connected(t, k)
  <2>1. /\ Become(t, u) /\ UNCHANGED <<store, bus, nodes>> /\ t.left = <<>>
    BY <1>8 DEF Connect, Connected
  <2>2. /\ u \in Job /\ u.cmds = t.cmds /\ u.node = k /\ u.left = t.cmds /\ u.todo = t.todo \ {k}
    BY <1>2, JobSteps
  <2> HIDE DEF u
  <2>3. ASSUME NEW n, NEW cs \in Owed(n) PROVE cs = <<>> \/ cs \in Owed(n)'
    <3>1. \/ cs \in Owed(n)'
          \/ n \in t.todo /\ n \notin u.todo /\ cs = t.cmds
          \/ t.node = n /\ cs = t.left
      BY <1>1, <2>1, <2>2, BecomeOwed
    <3>2. u.node = n /\ u.left # <<>> => u.left \in Owed(n)'
      BY <1>1, <2>1, <2>2, BecomeOwed
    <3>3. QED
      BY <2>1, <2>2, <3>1, <3>2
  <2>4. Sound' = Sound
    BY <2>1 DEF Sound, nodes
  <2>5. QED
    BY <1>1, <1>3, <2>1, <2>3, <2>4 DEF nodes, bus
<1>9. ASSUME NEW t \in BagToSet(threads), NEW k \in Node, Skip(t, k) PROVE DueInv'
  <2> DEFINE u == Skipped(t, k)
  <2>1. /\ Become(t, u) /\ UNCHANGED <<store, bus, state, running, xml, dist>> /\ t.left = <<>>
        /\ \/ state[k] = "down" /\ missed' = missed
           \/ missed' = missed \cup {k}
    BY <1>9 DEF Skip, Skipped
  <2>2. /\ u \in Job /\ u.cmds = t.cmds /\ u.todo = t.todo \ {k}
    BY <1>2, JobSteps
  <2> HIDE DEF u
  <2>3. \A n \in Sound' : n \in Sound /\ n # k
    BY <2>1 DEF Sound
  <2>4. ASSUME NEW n \in Sound', NEW cs \in Owed(n) PROVE cs = <<>> \/ cs \in Owed(n)'
    <3>1. \/ cs \in Owed(n)'
          \/ n \in t.todo /\ n \notin u.todo /\ cs = t.cmds
          \/ t.node = n /\ cs = t.left
      BY <1>1, <2>1, <2>2, BecomeOwed
    <3>2. QED
      BY <2>1, <2>2, <2>3, <3>1
  <2>5. QED
    BY <1>1, <1>3, <2>1, <2>3, <2>4 DEF bus
<1>10. ASSUME NEW k \in Node, Crash(k) PROVE DueInv'
  <2>1. /\ BagToSet(threads') = BagToSet(threads) \ Talking(k)
        /\ missed' = missed \cup UNION {t.todo : t \in Talking(k)}
        /\ state' = [state EXCEPT ![k] = "down"]
        /\ UNCHANGED <<store, bus, running, xml, dist>>
    BY <1>1, <1>10, CrashIs
  <2>2. \A n \in Sound' : n \in Sound /\ n # k /\ \A t \in Talking(k) : n \notin t.todo
    BY <1>2, <2>1 DEF Sound
  <2>3. ASSUME NEW n \in Sound', NEW cs \in Owed(n) PROVE cs \in Owed(n)'
    <3>1. \A t \in BagToSet(threads) : n \in t.todo \/ t.node = n => t \in BagToSet(threads')
      BY <2>1, <2>2 DEF Talking
    <3>2. unsent' = unsent /\ inbox' = inbox
      BY <2>1 DEF bus
    <3>3. QED
      BY <3>1, <3>2, OwedIs, OwedNext
  <2>4. QED
    BY <1>1, <1>3, <2>1, <2>2, <2>3 DEF bus
<1>11. ASSUME NEW k \in Node, Load(k) PROVE DueInv'
  <2>1. /\ running' = [running EXCEPT ![k] = Loaded]
        /\ xml' = [xml EXCEPT ![k] = Lists] /\ dist' = [dist EXCEPT ![k] = Lists]
        /\ missed' = missed \ {k} /\ state' = [state EXCEPT ![k] = "loading"]
        /\ UNCHANGED <<store, bus, threads>>
    BY <1>11 DEF Load
  <2>2. ASSUME NEW n \in Sound' PROVE NodeDue(n)'
    <3>1. n \in Node
      BY DEF Sound
    <3>2. CASE n = k
      <4>1. running'[n] = Loaded /\ xml'[n] = Lists /\ dist'[n] = Lists
        BY <1>2, <2>1, <3>2
      <4>2. QED
        BY <1>1, <2>1, <3>1, <4>1, NodeLoaded DEF store
    <3>3. CASE n # k
      <4>1. n \in Sound
        BY <1>2, <2>1, <3>1, <3>3 DEF Sound
      <4>2. running'[n] = running[n] /\ xml'[n] = xml[n] /\ dist'[n] = dist[n]
        BY <1>2, <2>1, <3>1, <3>3
      <4>3. \A cs \in Owed(n) : cs \in Owed(n)'
        BY <2>1, OwedIs, OwedNext DEF bus
      <4>4. QED
        BY <1>1, <2>1, <4>1, <4>2, <4>3, NodeKept DEF store
    <3>4. QED
      BY <3>2, <3>3
  <2>3. QED
    BY <1>1, <2>1, <2>2 DEF DueInv, bus, Reliable
<1>12. ASSUME NEW k \in Node, Listen(k) PROVE DueInv'
  <2>1. /\ state' = [state EXCEPT ![k] = "up"] /\ state[k] = "loading"
        /\ UNCHANGED <<store, bus, threads, running, xml, dist, missed>>
    BY <1>12 DEF Listen
  <2>2. Sound' = Sound
    BY <1>2, <2>1 DEF Sound
  <2>3. \A n : \A cs \in Owed(n) : cs \in Owed(n)'
    BY <2>1, OwedIs, OwedNext DEF bus
  <2>4. QED
    BY <1>1, <1>3, <2>1, <2>2, <2>3 DEF bus
<1>13. CASE UNCHANGED vars
  <2>1. UNCHANGED <<store, bus, threads, running, xml, dist, state, missed>>
    BY <1>13 DEF vars, store, bus
  <2>2. Sound' = Sound
    BY <2>1 DEF Sound
  <2>3. \A n : \A cs \in Owed(n) : cs \in Owed(n)'
    BY <2>1, OwedIs, OwedNext DEF bus
  <2>4. QED
    BY <1>1, <1>3, <2>1, <2>2, <2>3 DEF bus
<1>14. QED
  BY <1>4, <1>5, <1>6, <1>7, <1>8, <1>9, <1>10, <1>11, <1>12, <1>13 DEF Others

-----------------------------------------------------------------------------
(* A command is carried out.                                               *)
LEMMA SendOwed ==
  ASSUME TypeOK, Harmless, NEW t \in BagToSet(threads), Send(t), NEW n, n = t.node
  PROVE  LET c == Head(t.left) IN
         /\ c \in FsCommand
         /\ \A x : Due(n, x) => Due(n, x)' \/ x = c
         /\ (\E cs \in Owed(n) : Refreshes(cs)) =>
               \/ \E cs \in Owed(n)' : Refreshes(cs)
               \/ c = Reload /\ Due(n, Distribute)'
         /\ c.do = "stop" => c.profile \notin Stored
         /\ c.do = "killgw" => \/ c.gw \notin Needed(c.profile)
                               \/ Due(n, Command("rescan", c.profile, None))'
<1> DEFINE s == t.left
           c == Head(s)
           u == Sent(t)
<1>1. /\ t \in Job /\ s # <<>> /\ s \in Seq(FsCommand) /\ c \in FsCommand
      /\ Become(t, u) /\ u \in Job /\ UNCHANGED bus
      /\ u.cmds = t.cmds /\ u.node = t.node /\ u.left = Tail(s) /\ u.todo = t.todo
  BY SendIs, SentIs
<1> HIDE DEF u
<1>2. HarmlessList(s)
  BY HarmlessLists, InFlightIs
<1> HIDE DEF s
<1>3. /\ Tail(s) # <<>> => Tail(s) \in Owed(n)'
      /\ \A cs \in Owed(n) : cs \in Owed(n)' \/ cs = s
  <2>1. /\ u.node = n /\ u.left # <<>> => u.left \in Owed(n)'
        /\ \A cs \in Owed(n) : \/ cs \in Owed(n)'
                               \/ n \in t.todo /\ n \notin u.todo /\ cs = t.cmds
                               \/ t.node = n /\ cs = t.left
    BY <1>1, BecomeOwed
  <2>2. QED
    BY <1>1, <2>1 DEF s
<1>4. /\ \A x : Has(s, x) => Has(Tail(s), x) \/ x = c
      /\ Refreshes(s) => \/ Refreshes(Tail(s))
                         \/ c = Reload /\ Has(Tail(s), Distribute)
  BY <1>1, HasTail
<1>5. (\E x : Has(Tail(s), x)) \/ Refreshes(Tail(s)) => Tail(s) \in Owed(n)'
  BY <1>3 DEF Has, Refreshes
<1>6. \A x : Has(Tail(s), x) => Due(n, x)'
  BY <1>5 DEF Due
<1>7. \A x : Due(n, x) => Due(n, x)' \/ x = c
  BY <1>3, <1>4, <1>6 DEF Due
<1>8. (\E cs \in Owed(n) : Refreshes(cs)) =>
         \/ \E cs \in Owed(n)' : Refreshes(cs)
         \/ c = Reload /\ Due(n, Distribute)'
  BY <1>3, <1>4, <1>5, <1>6
<1>9. 1 \in DOMAIN s /\ s[1] = c
  BY <1>1
<1>10. c.do = "stop" => c.profile \notin Stored
  BY <1>2, <1>9 DEF HarmlessList
<1>11. ASSUME c.do = "killgw", c.gw \in Needed(c.profile)
       PROVE  Due(n, Command("rescan", c.profile, None))'
  <2>1. Restored(s, 1)
    BY <1>2, <1>9, <1>11 DEF HarmlessList
  <2>2. PICK j \in DOMAIN s : j > 1 /\ s[j].do = "rescan" /\ s[j].profile = c.profile
    BY <1>9, <2>1 DEF Restored
  <2>3. s[j] \in FsCommand /\ j - 1 \in DOMAIN Tail(s) /\ Tail(s)[j - 1] = s[j]
    BY <1>1, <2>2
  <2>4. s[j] = Command("rescan", c.profile, None)
    BY <2>2, <2>3, OfCommand
  <2>5. QED
    BY <1>6, <2>3, <2>4 DEF Has
<1>12. QED
  BY <1>1, <1>7, <1>8, <1>10, <1>11 DEF s

LEMMA SendProfile ==
  ASSUME TypeOK, NamesStored, NEW n \in Node, NEW c \in FsCommand, NEW p \in Profile,
         UNCHANGED <<profile, gateway, out>>,
         ProfileDue(n, p), GatewaysDue(n, p),
         running'[n][p] = IF p = c.profile THEN After(running[n][p], Loaded[p], c)
                          ELSE running[n][p],
         \A x : Due(n, x) => Due(n, x)' \/ x = c,
         c.do = "stop" => c.profile \notin Stored,
         c.do = "killgw" => \/ c.gw \notin Needed(c.profile)
                            \/ Due(n, Command("rescan", c.profile, None))'
  PROVE  ProfileDue(n, p)' /\ GatewaysDue(n, p)'
<1> DEFINE r == running[n][p]
           s == Loaded[p]
           v == running'[n][p]
<1>1. /\ Stored' = Stored /\ Needed(p)' = Needed(p)
      /\ profile'[p] = profile[p] /\ gateway' = gateway
  BY DEF Stored, Needed, Engaging
<1>2. r \in Configured \cup {None} /\ s \in Configured \cup {None}
  BY LoadedType DEF TypeOK
<1>3. /\ p \in Stored => /\ s \in Configured /\ s # None /\ s.settings = profile[p]
                         /\ DOMAIN s.gws = Needed(p)
                         /\ \A g \in Needed(p) : s.gws[g] = gateway[g]
      /\ p \notin Stored => s = None
  BY SipType, OfConfigured DEF Loaded
<1>4. \A do, q, g : Due(n, Command(do, q, g)) =>
         Due(n, Command(do, q, g))' \/ (do = c.do /\ q = c.profile /\ g = c.gw)
  BY CommandIs
(* Nothing but the list of commands changes.                               *)
<1>5. ASSUME v = r,
             p = c.profile => \/ c.do \notin {"start", "stop", "restart", "rescan", "killgw"}
                              \/ c.do \in {"start"} /\ r # None
                              \/ c.do \in {"restart", "rescan", "killgw"} /\ r = None
                              \/ c.do \in {"rescan"} /\ p \notin Stored
      PROVE  ProfileDue(n, p)' /\ GatewaysDue(n, p)'
  <2>1. ProfileDue(n, p)'
    BY <1>1, <1>4, <1>5 DEF ProfileDue
  <2>2. SUFFICES ASSUME p \in Stored, r # None, ~ Due(n, Command("restart", p, None))',
                        NEW g \in Gateway
                 PROVE  GatewayDue(n, p, g)'
    BY <1>1, <1>5, <2>1 DEF GatewaysDue
  <2>3. \A do, h : Due(n, Command(do, p, h)) => Due(n, Command(do, p, h))' \/
           (p = c.profile /\ do = c.do /\ do \notin {"restart", "rescan", "killgw"})
    BY <1>4, <1>5, <2>2
  <2>4. GatewayDue(n, p, g)
    BY <2>2, <2>3 DEF GatewaysDue
  <2>5. CASE g \in Needed(p) /\ g \in DOMAIN r.gws
    BY <1>1, <1>5, <2>3, <2>4, <2>5 DEF GatewayDue
  <2>6. CASE g \in Needed(p) /\ g \notin DOMAIN r.gws
    BY <1>1, <1>5, <2>3, <2>4, <2>6 DEF GatewayDue
  <2>7. CASE g \notin Needed(p)
    BY <1>1, <1>5, <2>3, <2>4, <2>7 DEF GatewayDue
  <2>8. QED
    BY <2>5, <2>6, <2>7
(* The profile is as it is stored.                                         *)
<1>6. ASSUME v = s PROVE ProfileDue(n, p)' /\ GatewaysDue(n, p)'
  <2>1. ProfileDue(n, p)'
    BY <1>1, <1>3, <1>6 DEF ProfileDue
  <2>2. p \in Stored => \A g \in Gateway : GatewayDue(n, p, g)'
    BY <1>1, <1>3, <1>6 DEF GatewayDue
  <2>3. QED
    BY <1>1, <2>1, <2>2 DEF GatewaysDue
(* Some of its gateways change.                                            *)
<1>7. ASSUME v # None, r # None, v.settings = r.settings, p = c.profile,
             c.do \in {"rescan", "killgw"},
             p \in Stored => \A g \in Gateway :
                GatewayDue(n, p, g) => GatewayDue(n, p, g)'
      PROVE  ProfileDue(n, p)' /\ GatewaysDue(n, p)'
  <2>1. \A do : do \notin {"rescan", "killgw"} =>
           (Due(n, Command(do, p, None)) => Due(n, Command(do, p, None))')
    BY <1>4, <1>7
  <2>2. ProfileDue(n, p)'
    BY <1>1, <1>7, <2>1 DEF ProfileDue
  <2>3. GatewaysDue(n, p)'
    BY <1>1, <1>7, <2>1 DEF GatewaysDue
  <2>4. QED
    BY <2>2, <2>3
<1>8. CASE p # c.profile
  BY <1>5, <1>8
<1>9. ASSUME p = c.profile PROVE ProfileDue(n, p)' /\ GatewaysDue(n, p)'
  <2> DEFINE a == After(r, s, c)
  <2>1. v = a
    BY <1>9
  <2>2. c.do \in {"start", "stop", "restart", "rescan", "killgw", "reloadxml", "distributor"}
    BY OfCommand
  <2> HIDE DEF v, r, s
  <2>3. /\ c.do = "start" => a = IF r = None THEN s ELSE r
        /\ c.do = "stop" => a = None
        /\ c.do = "restart" => a = IF r = None THEN None ELSE s
        /\ c.do = "rescan" => a = IF r = None \/ s = None THEN r ELSE Rescanned(r, s)
        /\ c.do = "killgw" => a = IF r = None THEN r ELSE Killed(r, c.gw)
        /\ c.do \in {"reloadxml", "distributor"} => a = r
    <3>1. c.do = "start" => a = IF r = None THEN s ELSE r
      BY <1>2, AfterIs
    <3>2. c.do = "stop" => a = None
      BY <1>2, AfterIs
    <3>3. c.do = "restart" => a = IF r = None THEN None ELSE s
      BY <1>2, AfterIs
    <3>4. c.do = "rescan" => a = IF r = None \/ s = None THEN r ELSE Rescanned(r, s)
      BY <1>2, AfterIs
    <3>5. c.do = "killgw" => a = IF r = None THEN r ELSE Killed(r, c.gw)
      BY <1>2, AfterIs
    <3>6. c.do \in {"reloadxml", "distributor"} => a = r
      BY <1>2, AfterIs
    <3> HIDE DEF a
    <3>7. QED
      BY <3>1, <3>2, <3>3, <3>4, <3>5, <3>6
  <2> HIDE DEF a
  <2>4. CASE c.do \in {"start", "stop", "restart", "reloadxml", "distributor"}
    BY <1>3, <1>5, <1>6, <1>9, <2>1, <2>3, <2>4
  <2>5. CASE c.do = "rescan"
    <3>1. CASE r = None \/ s = None
      BY <1>3, <1>5, <1>9, <2>1, <2>3, <2>5, <3>1
    <3>2. CASE r # None /\ s # None
      <4>1. r \in Configured /\ s \in Configured /\ p \in Stored /\ v = Rescanned(r, s)
        BY <1>2, <1>3, <2>1, <2>3, <2>5, <3>2
      <4>2. /\ v # None /\ v.settings = r.settings
            /\ DOMAIN v.gws = DOMAIN r.gws \cup Needed(p)
            /\ \A g \in DOMAIN v.gws :
                  v.gws[g] = IF g \in DOMAIN r.gws THEN r.gws[g] ELSE gateway[g]
        BY <1>3, <4>1, RescannedIs, OfConfigured
      <4>3. \A g, h : Due(n, Command("killgw", p, g)) => Due(n, Command("killgw", p, g))'
        BY <1>4, <2>5
      <4>4. ASSUME NEW g \in Gateway, GatewayDue(n, p, g) PROVE GatewayDue(n, p, g)'
        BY <1>1, <4>2, <4>3, <4>4 DEF GatewayDue, r, v
      <4>5. QED
        BY <1>7, <1>9, <2>5, <3>2, <4>2, <4>4
    <3>3. QED
      BY <3>1, <3>2
  <2>6. CASE c.do = "killgw"
    <3>1. CASE r = None
      BY <1>5, <1>9, <2>1, <2>3, <2>6, <3>1
    <3>2. CASE r # None
      <4>1. r \in Configured /\ v = Killed(r, c.gw)
        BY <1>2, <2>1, <2>3, <2>6, <3>2
      <4>2. /\ v # None /\ v.settings = r.settings
            /\ DOMAIN v.gws = DOMAIN r.gws \ {c.gw}
            /\ \A g \in DOMAIN v.gws : v.gws[g] = r.gws[g]
        BY <4>1, KilledIs, OfConfigured
      <4>3. /\ Due(n, Command("rescan", p, None)) => Due(n, Command("rescan", p, None))'
            /\ \A g : g # c.gw =>
                  (Due(n, Command("killgw", p, g)) => Due(n, Command("killgw", p, g))')
        BY <1>4, <2>6
      <4>4. ASSUME NEW g \in Gateway, GatewayDue(n, p, g) PROVE GatewayDue(n, p, g)'
        <5>1. CASE g = c.gw
          BY <1>1, <1>9, <2>6, <4>2, <5>1 DEF GatewayDue, v
        <5>2. CASE g # c.gw
          BY <1>1, <4>2, <4>3, <4>4, <5>2 DEF GatewayDue, r, v
        <5>3. QED
          BY <5>1, <5>2
      <4>5. QED
        BY <1>7, <1>9, <2>6, <3>2, <4>2, <4>4
    <3>3. QED
      BY <3>1, <3>2
  <2>7. QED
    BY <2>2, <2>4, <2>5, <2>6
<1>10. QED
  BY <1>8, <1>9

LEMMA SendList ==
  ASSUME NEW n, NEW c, NEW o \in Out, ListDue(n, o), UNCHANGED <<out, renamed>>,
         xml'[n] = IF c.do = "reloadxml" THEN Lists ELSE xml[n],
         dist'[n] = IF c.do = "distributor" THEN xml[n] ELSE dist[n],
         \A x : Due(n, x) => Due(n, x)' \/ x = c,
         (\E cs \in Owed(n) : Refreshes(cs)) =>
            \/ \E cs \in Owed(n)' : Refreshes(cs)
            \/ c = Reload /\ Due(n, Distribute)'
  PROVE  ListDue(n, o)'
<1> DEFINE R == \E cs \in Owed(n) : Refreshes(cs)
           S == \E cs \in Owed(n)' : Refreshes(cs)
           D == Due(n, Distribute)'
<1>1. Reload.do = "reloadxml" /\ Distribute.do = "distributor"
  BY CommandIs DEF Reload, Distribute
<1>2. Lists' = Lists
  BY DEF Lists
<1>3. /\ Fresh(xml[n], o) \/ R
      /\ Fresh(dist[n], o) \/ R \/ (Fresh(xml[n], o) /\ Due(n, Distribute))
  BY DEF ListDue
<1>4. R => S \/ (c = Reload /\ D)
  OBVIOUS
<1>5. Due(n, Distribute) => D \/ c = Distribute
  OBVIOUS
<1>6. SUFFICES /\ Fresh(xml[n], o)' \/ S
               /\ Fresh(dist[n], o)' \/ S \/ (Fresh(xml[n], o)' /\ D)
  BY DEF ListDue
<1>7. CASE c.do = "reloadxml"
  <2>1. Fresh(xml[n], o)'
    BY <1>2, <1>7 DEF Fresh
  <2>2. Fresh(dist[n], o) => Fresh(dist[n], o)'
    BY <1>2, <1>7 DEF Fresh
  <2> HIDE DEF R, S, D
  <2>3. QED
    BY <1>1, <1>3, <1>4, <1>5, <1>7, <2>1, <2>2
<1>8. CASE c.do = "distributor"
  <2>1. Fresh(xml[n], o) => Fresh(xml[n], o)' /\ Fresh(dist[n], o)'
    BY <1>2, <1>8 DEF Fresh
  <2> HIDE DEF R, S, D
  <2>2. QED
    BY <1>1, <1>3, <1>4, <1>8, <2>1
<1>9. CASE c.do \notin {"reloadxml", "distributor"}
  <2>1. /\ Fresh(xml[n], o) => Fresh(xml[n], o)'
        /\ Fresh(dist[n], o) => Fresh(dist[n], o)'
    BY <1>2, <1>9 DEF Fresh
  <2> HIDE DEF R, S, D
  <2>2. QED
    BY <1>1, <1>3, <1>4, <1>5, <1>9, <2>1
<1>10. QED
  BY <1>7, <1>8, <1>9

LEMMA SendStep ==
  ASSUME TypeInv, CareInv, DueInv, NEW t \in BagToSet(threads), Send(t)
  PROVE  DueInv'
<1> DEFINE c == Head(t.left)
           u == Sent(t)
<1>1. /\ TypeOK /\ NamesStored /\ Talks /\ Harmless /\ Reliable \subseteq listening
      /\ \A n \in Sound : NodeDue(n)
  BY DEF TypeInv, CareInv, DueInv
<1>2. /\ t \in Job /\ t.left # <<>> /\ c \in FsCommand /\ Perform(t.node, c) /\ Become(t, u)
      /\ u \in Job /\ u.cmds = t.cmds /\ u.todo = t.todo
      /\ UNCHANGED <<store, bus, state, missed>>
  BY <1>1, SendIs, SentIs
<1> HIDE DEF c, u
<1>3. t.node \in Node /\ Sound' = Sound
  BY <1>1, <1>2 DEF Talks, Sound
<1>4. /\ \A k \in Node, p \in Profile :
            running'[k][p] = IF k = t.node /\ p = c.profile
                             THEN After(running[t.node][p], Loaded[p], c)
                             ELSE running[k][p]
      /\ \A k \in Node : xml'[k] = IF k = t.node /\ c.do = "reloadxml" THEN Lists ELSE xml[k]
      /\ \A k \in Node : dist'[k] = IF k = t.node /\ c.do = "distributor" THEN xml[t.node]
                                    ELSE dist[k]
      /\ running' \in [Node -> [Profile -> Configured \cup {None}]]
  BY <1>1, <1>2, <1>3, PerformIs
<1>5. ASSUME NEW n \in Sound, n # t.node PROVE NodeDue(n)'
  <2>1. n \in Node
    BY DEF Sound
  <2>2. running[n] \in [Profile -> Configured \cup {None}]
        /\ running'[n] \in [Profile -> Configured \cup {None}]
    BY <1>1, <1>4, <2>1 DEF TypeOK
  <2>3. running'[n] = running[n]
    BY <1>4, <1>5, <2>1, <2>2
  <2>4. xml'[n] = xml[n] /\ dist'[n] = dist[n]
    BY <1>4, <1>5, <2>1
  <2>5. \A cs \in Owed(n) : cs \in Owed(n)'
    BY <1>1, <1>2, <1>5, BecomeOwed
  <2>6. QED
    BY <1>1, <1>2, <2>3, <2>4, <2>5, NodeKept DEF store
<1>6. ASSUME NEW n \in Sound, n = t.node PROVE NodeDue(n)'
  <2>1. /\ \A x : Due(n, x) => Due(n, x)' \/ x = c
        /\ (\E cs \in Owed(n) : Refreshes(cs)) =>
              \/ \E cs \in Owed(n)' : Refreshes(cs)
              \/ c = Reload /\ Due(n, Distribute)'
        /\ c.do = "stop" => c.profile \notin Stored
        /\ c.do = "killgw" => \/ c.gw \notin Needed(c.profile)
                              \/ Due(n, Command("rescan", c.profile, None))'
    BY <1>1, <1>6, SendOwed DEF c
  <2>2. /\ \A p \in Profile : ProfileDue(n, p) /\ GatewaysDue(n, p)
        /\ \A o \in Out : ListDue(n, o)
    BY <1>1 DEF NodeDue
  <2>3. UNCHANGED <<profile, gateway, out, renamed>>
    BY <1>2 DEF store
  <2>4. ASSUME NEW p \in Profile PROVE ProfileDue(n, p)' /\ GatewaysDue(n, p)'
    <3>1. running'[n][p] = IF p = c.profile THEN After(running[n][p], Loaded[p], c)
                           ELSE running[n][p]
      BY <1>3, <1>4, <1>6
    <3>2. QED
      BY <1>1, <1>2, <1>3, <1>6, <2>1, <2>2, <2>3, <3>1, SendProfile
  <2>5. ASSUME NEW o \in Out PROVE ListDue(n, o)'
    <3>1. /\ xml'[n] = IF c.do = "reloadxml" THEN Lists ELSE xml[n]
          /\ dist'[n] = IF c.do = "distributor" THEN xml[n] ELSE dist[n]
      BY <1>3, <1>4, <1>6
    <3>2. QED
      BY <2>1, <2>2, <2>3, <3>1, SendList
  <2>6. QED
    BY <2>4, <2>5 DEF NodeDue
<1>7. Reliable \subseteq listening'
  BY <1>1, <1>2 DEF bus
<1>8. QED
  BY <1>3, <1>5, <1>6, <1>7 DEF DueInv, Reliable

-----------------------------------------------------------------------------
(* Requests: what they change is owed to every node.                       *)
LEMMA RequestOwed ==
  ASSUME Careful, TypeOK, NEW ms \in SUBSET Message, Request(ms), NEW n
  PROVE  /\ Keeps(n) /\ \A c : Due(n, c) => Due(n, c)'
         /\ \A m \in ms : \A x \in Sendable(m) :
               /\ \A c : Has(Commands(x), c) => Due(n, c)'
               /\ Refreshes(Commands(x)) => \E cs \in Owed(n)' : Refreshes(cs)
         /\ \A p : Due(n, Command("stop", p, None)) => p \notin Stored'
<1>1. /\ BagToSet(unsent') = BagToSet(unsent) \cup ms
      /\ UNCHANGED <<listening, inbox, threads, nodes>>
  BY RequestIs
<1>2. Harmless'
  BY DEF Request
<1>3. \A cs \in Owed(n) : cs \in Owed(n)'
  BY <1>1, OwedIs, OwedNext
<1>4. Keeps(n) /\ \A c : Due(n, c) => Due(n, c)'
  BY <1>1, <1>3, OwedKept DEF Keeps, nodes
<1>5. ASSUME NEW m \in ms, NEW x \in Sendable(m)
      PROVE  /\ \A c : Has(Commands(x), c) => Due(n, c)'
             /\ Refreshes(Commands(x)) => \E cs \in Owed(n)' : Refreshes(cs)
  <2>1. Commands(x) \in Owed(n)'
    BY <1>1, OwedNext
  <2>2. QED
    BY <2>1 DEF Due
<1>6. ASSUME NEW p, Due(n, Command("stop", p, None)) PROVE p \notin Stored'
  <2>1. PICK cs \in Owed(n) : Has(cs, Command("stop", p, None))
    BY <1>6 DEF Due
  <2>2. PICK i \in DOMAIN cs : cs[i] = Command("stop", p, None)
    BY <2>1 DEF Has
  <2>3. cs[i].do = "stop" /\ cs[i].profile = p
    BY <2>2, CommandIs
  <2>4. CASE cs \in InFlight
    <3>1. cs \in InFlight'
      BY <1>1, <2>4, InFlightIs, InFlightNext
    <3>2. QED
      BY <1>2, <2>3, <3>1 DEF Harmless
  <2>5. ASSUME NEW m \in Message, m.kind = "gateway", cs = Commands(m) PROVE FALSE
    <3>1. /\ DOMAIN cs = {1, 2, 3}
          /\ cs[1] = Command("killgw", m.new, m.gw)
          /\ cs[2] = Command("rescan", m.new, None)
          /\ cs[3] = Reload
      BY <2>5, GatewayCommands
    <3>2. cs[1].do = "killgw" /\ cs[2].do = "rescan" /\ cs[3].do = "reloadxml"
      BY <3>1, CommandIs DEF Reload
    <3>3. QED
      BY <2>3, <3>1, <3>2
  <2>6. QED
    BY <2>4, <2>5, OwedType
<1>7. QED
  BY <1>4, <1>5, <1>6

LEMMA ListsKept ==
  ASSUME NEW n, NodeDue(n), Keeps(n), UNCHANGED renamed, Lists' = Lists
  PROVE  \A o \in Out : ListDue(n, o)'
<1>1. \A list, o : Fresh(list, o) => Fresh(list, o)'
  BY DEF Fresh
<1>2. QED
  BY <1>1, ListKept DEF NodeDue

LEMMA NetaliasDue ==
  ASSUME Careful, TypeOK, UpdateNetalias, NEW n, NodeDue(n)
  PROVE  NodeDue(n)'
<1>1. PICK S \in (SUBSET Stored) \ {{}} :
         /\ profile' = [p \in Profile |-> IF p \in S THEN asked + 1 ELSE profile[p]]
         /\ UNCHANGED <<gateway, out, renamed>>
         /\ Request({NetaliasMessage(S)})
  BY DEF UpdateNetalias, NetaliasMessage
<1> DEFINE m == NetaliasMessage(S)
<1>2. m \in Message /\ m.kind = "netalias" /\ m.profiles = S
  BY <1>1, NetaliasMessageIs DEF Stored
<1>3. Request({m})
  BY <1>1
<1> HIDE DEF m
<1>4. asked + 1 # 0
  BY <1>3, NextVersion
<1>5. /\ Keeps(n) /\ \A c : Due(n, c) => Due(n, c)'
      /\ \A c : Has(Commands(m), c) => Due(n, c)'
  BY <1>2, <1>3, RequestOwed DEF Sendable
<1>6. \A p \in S : Due(n, Command("restart", p, None))'
  BY <1>2, <1>5, NetaliasCommands
<1>7. Stored' = Stored /\ Lists' = Lists /\ (\A p : Needed(p)' = Needed(p)) /\ S \subseteq Stored
  BY <1>1, <1>4 DEF Stored, Lists, Needed, Engaging
<1>8. ASSUME NEW p \in Profile PROVE ProfileDue(n, p)' /\ GatewaysDue(n, p)'
  <2>1. ProfileDue(n, p) /\ GatewaysDue(n, p) /\ running'[n] = running[n]
    BY <1>5 DEF NodeDue, Keeps
  <2>2. ProfileDue(n, p)'
    <3>1. CASE p \in S
      BY <1>5, <1>6, <1>7, <2>1, <3>1 DEF ProfileDue
    <3>2. CASE p \notin S
      <4>1. profile'[p] = profile[p]
        BY <1>1, <3>2
      <4>2. QED
        BY <1>5, <1>7, <2>1, <4>1, ProfileKept
    <3>3. QED
      BY <3>1, <3>2
  <2>3. GatewaysDue(n, p)'
    BY <1>1, <1>5, <1>7, <2>1, GatewaysKept
  <2>4. QED
    BY <2>2, <2>3
<1>9. \A o \in Out : ListDue(n, o)'
  BY <1>1, <1>5, <1>7, ListsKept
<1>10. QED
  BY <1>8, <1>9 DEF NodeDue

LEMMA CreateProfileDue ==
  ASSUME Careful, TypeOK, CreateProfile, NEW n, NodeDue(n)
  PROVE  NodeDue(n)'
<1>1. PICK q \in Profile \ Stored :
         /\ profile' = [profile EXCEPT ![q] = asked + 1]
         /\ UNCHANGED <<gateway, out, renamed>>
         /\ Request({[Blank EXCEPT !.kind = "profile", !.new = q]})
  BY DEF CreateProfile
<1> DEFINE m == [Blank EXCEPT !.kind = "profile", !.new = q]
<1>2. m \in Message /\ m.kind = "profile" /\ m.new = q /\ m.old = None
  BY <1>1, BlankIs DEF Message
<1>3. Request({m})
  BY <1>1
<1> HIDE DEF m
<1>4. asked + 1 # 0 /\ q # None
  BY <1>3, NextVersion, PushAssumption DEF PushAssumption
<1>5. /\ Keeps(n) /\ \A c : Due(n, c) => Due(n, c)'
      /\ \A c : Has(Commands(m), c) => Due(n, c)'
      /\ \A p : Due(n, Command("stop", p, None)) => p \notin Stored'
  BY <1>2, <1>3, RequestOwed DEF Sendable
<1>6. Due(n, Command("start", q, None))'
  BY <1>2, <1>4, <1>5, ProfileCommandsAre
<1>7. profile \in [Profile -> {0} \cup Version]
  BY DEF TypeOK
<1>8. /\ \A p \in Profile : p # q => (p \in Stored' <=> p \in Stored) /\ profile'[p] = profile[p]
      /\ q \in Stored' /\ q \notin Stored
      /\ Lists' = Lists /\ \A p : Needed(p)' = Needed(p)
  BY <1>1, <1>4, <1>7 DEF Stored, Lists, Needed, Engaging
<1>9. running'[n] = running[n]
  BY <1>5 DEF Keeps
<1>10. ASSUME NEW p \in Profile PROVE ProfileDue(n, p)' /\ GatewaysDue(n, p)'
  <2>1. ProfileDue(n, p) /\ GatewaysDue(n, p)
    BY DEF NodeDue
  <2>2. CASE p = q
    <3>1. running[n][q] = None
      BY <1>5, <1>8, <2>1, <2>2 DEF ProfileDue
    <3>2. QED
      BY <1>6, <1>8, <1>9, <2>2, <3>1 DEF ProfileDue, GatewaysDue
  <2>3. CASE p # q
    <3>1. ProfileDue(n, p)'
      BY <1>5, <1>8, <1>9, <2>1, <2>3, ProfileKept
    <3>2. GatewaysDue(n, p)'
      BY <1>1, <1>5, <1>8, <1>9, <2>1, <2>3, GatewaysKept
    <3>3. QED
      BY <3>1, <3>2
  <2>4. QED
    BY <2>2, <2>3
<1>11. \A o \in Out : ListDue(n, o)'
  BY <1>1, <1>5, <1>8, ListsKept
<1>12. QED
  BY <1>10, <1>11 DEF NodeDue

LEMMA DeleteProfileDue ==
  ASSUME Careful, TypeOK, DeleteProfile, NEW n, NodeDue(n)
  PROVE  NodeDue(n)'
<1>1. PICK q \in Stored :
         /\ profile' = [profile EXCEPT ![q] = 0]
         /\ UNCHANGED <<gateway, out, renamed>>
         /\ Request({[Blank EXCEPT !.kind = "profile", !.old = q]})
  BY DEF DeleteProfile
<1> DEFINE m == [Blank EXCEPT !.kind = "profile", !.old = q]
<1>2. m \in Message /\ m.kind = "profile" /\ m.new = None /\ m.old = q /\ q \in Profile
  BY <1>1, BlankIs DEF Message, Stored
<1>3. Request({m})
  BY <1>1
<1> HIDE DEF m
<1>4. q # None
  BY <1>2, PushAssumption DEF PushAssumption
<1>5. /\ Keeps(n) /\ \A c : Due(n, c) => Due(n, c)'
      /\ \A c : Has(Commands(m), c) => Due(n, c)'
  BY <1>2, <1>3, RequestOwed DEF Sendable
<1>6. Due(n, Command("stop", q, None))'
  BY <1>2, <1>4, <1>5, ProfileCommandsAre
<1>7. profile \in [Profile -> {0} \cup Version]
  BY DEF TypeOK
<1>8. /\ \A p \in Profile : p # q => (p \in Stored' <=> p \in Stored) /\ profile'[p] = profile[p]
      /\ q \notin Stored'
      /\ Lists' = Lists /\ \A p : Needed(p)' = Needed(p)
  BY <1>1, <1>2, <1>7 DEF Stored, Lists, Needed, Engaging
<1>9. running'[n] = running[n]
  BY <1>5 DEF Keeps
<1>10. ASSUME NEW p \in Profile PROVE ProfileDue(n, p)' /\ GatewaysDue(n, p)'
  <2>1. ProfileDue(n, p) /\ GatewaysDue(n, p)
    BY DEF NodeDue
  <2>2. CASE p = q
    BY <1>6, <1>8, <2>2 DEF ProfileDue, GatewaysDue
  <2>3. CASE p # q
    <3>1. ProfileDue(n, p)'
      BY <1>5, <1>8, <1>9, <2>1, <2>3, ProfileKept
    <3>2. GatewaysDue(n, p)'
      BY <1>1, <1>5, <1>8, <1>9, <2>1, <2>3, GatewaysKept
    <3>3. QED
      BY <3>1, <3>2
  <2>4. QED
    BY <2>2, <2>3
<1>11. \A o \in Out : ListDue(n, o)'
  BY <1>1, <1>5, <1>8, ListsKept
<1>12. QED
  BY <1>10, <1>11 DEF NodeDue

LEMMA UpdateProfileDue ==
  ASSUME Careful, TypeOK, NamesStored, UpdateProfile, NEW n, NodeDue(n)
  PROVE  NodeDue(n)'
<1>1. PICK p \in Stored : \E q \in (Profile \ Stored) \cup {p} :
         /\ profile' = [profile EXCEPT ![p] = 0, ![q] = asked + 1]
         /\ out' = [o \in Out |-> IF o \in Engaging(p) THEN [out[o] EXCEPT !.profile = q]
                                  ELSE out[o]]
         /\ UNCHANGED <<gateway, renamed>>
         /\ Request({ProfileMessage(q, p)})
  BY DEF UpdateProfile, ProfileMessage
<1>2. PICK q \in (Profile \ Stored) \cup {p} :
         /\ profile' = [profile EXCEPT ![p] = 0, ![q] = asked + 1]
         /\ out' = [o \in Out |-> IF o \in Engaging(p) THEN [out[o] EXCEPT !.profile = q]
                                  ELSE out[o]]
         /\ UNCHANGED <<gateway, renamed>>
         /\ Request({ProfileMessage(q, p)})
  BY <1>1
<1> DEFINE m == ProfileMessage(q, p)
<1>3. p \in Profile /\ q \in Profile /\ p # None /\ q # None
  BY PushAssumption DEF Stored, PushAssumption
<1>4. m \in Message /\ m.kind = "profile" /\ m.new = q /\ m.old = p /\ Request({m})
  BY <1>2, <1>3, ProfileMessageIs
<1> HIDE DEF m
<1>5. asked + 1 # 0 /\ profile \in [Profile -> {0} \cup Version]
  BY <1>4, NextVersion DEF TypeOK
<1>6. /\ Keeps(n) /\ \A c : Due(n, c) => Due(n, c)'
      /\ \A c : Has(Commands(m), c) => Due(n, c)'
      /\ \A r : Due(n, Command("stop", r, None)) => r \notin Stored'
  BY <1>4, RequestOwed DEF Sendable
<1>7. /\ p # q => /\ Due(n, Command("stop", p, None))'
                  /\ Due(n, Command("start", q, None))'
      /\ p = q => Due(n, Command("restart", p, None))'
  BY <1>3, <1>4, <1>6, ProfileCommandsAre
<1>8. /\ \A r \in Profile : r # p /\ r # q =>
            (r \in Stored' <=> r \in Stored) /\ profile'[r] = profile[r]
      /\ q \in Stored' /\ (p # q => p \notin Stored' /\ q \notin Stored)
  BY <1>2, <1>3, <1>5 DEF Stored
<1>9. \A c \in Connection : [c EXCEPT !.profile = q].profile = q
                            /\ [c EXCEPT !.profile = q].gws = c.gws
                            /\ [c EXCEPT !.profile = q] # None
  BY <1>3, PushAssumption DEF Connection, PushAssumption
<1>10. \A o \in Out :
          /\ out'[o] = None <=> out[o] = None
          /\ out[o] # None => /\ out'[o].gws = out[o].gws
                              /\ out'[o].profile = IF out[o].profile = p THEN q
                                                   ELSE out[o].profile
  <2>1. \A o \in Out : out[o] # None => out[o] \in Connection
    BY OfConnection
  <2>2. \A o \in Out : out'[o] = IF out[o] # None /\ out[o].profile = p
                                 THEN [out[o] EXCEPT !.profile = q] ELSE out[o]
    BY <1>2 DEF Engaging
  <2>3. QED
    BY <1>9, <2>1, <2>2
<1>11. Lists' = Lists
  BY <1>10 DEF Lists
<1>12. \A r : r # p /\ r # q => Needed(r)' = Needed(r)
  <2>1. ASSUME NEW r, r # p, r # q PROVE Engaging(r)' = Engaging(r)
    BY <1>10, <2>1 DEF Engaging
  <2>2. QED
    BY <1>10, <2>1 DEF Needed, Engaging
<1>13. p = q => Needed(p)' = Needed(p)
  <2>1. p = q => Engaging(p)' = Engaging(p)
    BY <1>10 DEF Engaging
  <2>2. QED
    BY <1>10, <2>1 DEF Needed, Engaging
<1>14. running'[n] = running[n]
  BY <1>6 DEF Keeps
<1>15. ASSUME NEW r \in Profile PROVE ProfileDue(n, r)' /\ GatewaysDue(n, r)'
  <2>1. ProfileDue(n, r) /\ GatewaysDue(n, r)
    BY DEF NodeDue
  <2>2. CASE r # p /\ r # q
    <3>1. ProfileDue(n, r)'
      BY <1>6, <1>8, <1>14, <2>1, <2>2, ProfileKept
    <3>2. GatewaysDue(n, r)'
      BY <1>2, <1>6, <1>8, <1>12, <1>14, <2>1, <2>2, GatewaysKept
    <3>3. QED
      BY <3>1, <3>2
  <2>3. CASE r = p /\ p # q
    BY <1>7, <1>8, <2>3 DEF ProfileDue, GatewaysDue
  <2>4. CASE r = q /\ p # q
    <3>1. running[n][q] = None
      BY <1>6, <1>8, <2>1, <2>4 DEF ProfileDue
    <3>2. QED
      BY <1>7, <1>8, <1>14, <2>4, <3>1 DEF ProfileDue, GatewaysDue
  <2>5. CASE r = p /\ p = q
    <3>1. ProfileDue(n, r)'
      BY <1>6, <1>7, <1>8, <1>14, <2>1, <2>5 DEF ProfileDue
    <3>2. GatewaysDue(n, r)'
      BY <1>2, <1>6, <1>8, <1>13, <1>14, <2>1, <2>5, GatewaysKept
    <3>3. QED
      BY <3>1, <3>2
  <2>6. QED
    BY <2>2, <2>3, <2>4, <2>5
<1>16. \A o \in Out : ListDue(n, o)'
  BY <1>2, <1>6, <1>11, ListsKept
<1>17. QED
  BY <1>15, <1>16 DEF NodeDue

LEMMA UpdateGatewayDue ==
  ASSUME Careful, TypeOK, NamesStored, UpdateGateway, NEW n, NodeDue(n)
  PROVE  NodeDue(n)'
<1>1. PICK g \in Gateway, h \in Gateway :
         /\ gateway[g] # 0 /\ (h # g => gateway[h] = 0)
         /\ gateway' = [gateway EXCEPT ![g] = 0, ![h] = asked + 1]
         /\ out' = [o \in Out |-> IF o \in Users(g)
                                  THEN [out[o] EXCEPT !.gws = (@ \ {g}) \cup {h}]
                                  ELSE out[o]]
         /\ renamed' = renamed \cup ({g} \ {h})
         /\ UNCHANGED profile
         /\ Request({GatewayMessage(g, h, {out[o].profile : o \in Users(g)})})
  BY DEF UpdateGateway, GatewayMessage
<1> DEFINE S == {out[o].profile : o \in Users(g)}
           m == GatewayMessage(g, h, S)
<1>2. S \subseteq Profile /\ \A o \in Users(g) : out[o].profile \in S
  <2>1. \A o \in Users(g) : out[o].profile \in Profile
    BY OfConnection DEF Users
  <2>2. QED
    BY <2>1
<1>3. Request({m})
  BY <1>1
<1> HIDE DEF S
<1>4. m \in Message /\ m.kind = "gateway" /\ m.gw = g /\ m.profiles = S
  BY <1>2, GatewayMessageIs
<1> HIDE DEF m
<1>5. /\ Keeps(n) /\ \A c : Due(n, c) => Due(n, c)'
      /\ \A x \in Sendable(m) : \A c : Has(Commands(x), c) => Due(n, c)'
  BY <1>3, <1>4, RequestOwed
<1>6. ASSUME NEW p \in S
      PROVE  Due(n, Command("killgw", p, g))' /\ Due(n, Command("rescan", p, None))'
  <2> DEFINE x == [m EXCEPT !.new = p]
  <2>1. x \in Sendable(m)
    BY <1>4 DEF Sendable
  <2>2. x \in Message /\ x.kind = "gateway" /\ x.new = p /\ x.gw = g
    BY <1>2, <1>4 DEF Message
  <2> HIDE DEF x
  <2>3. /\ Has(Commands(x), Command("killgw", p, g))
        /\ Has(Commands(x), Command("rescan", p, None))
    BY <2>2, GatewayCommands DEF Has
  <2>4. QED
    BY <1>5, <2>1, <2>3
<1>7. \A c \in Connection : LET d == [c EXCEPT !.gws = (@ \ {g}) \cup {h}] IN
         d # None /\ d.profile = c.profile /\ d.gws = (c.gws \ {g}) \cup {h}
  <2>1. \A c \in Connection : LET d == [c EXCEPT !.gws = (@ \ {g}) \cup {h}] IN
           d \in Connection /\ d.profile = c.profile /\ d.gws = (c.gws \ {g}) \cup {h}
    BY <1>1 DEF Connection
  <2>2. QED
    BY <2>1, PushAssumption DEF PushAssumption
<1>8. \A o \in Out :
         /\ out'[o] = None <=> out[o] = None
         /\ out[o] # None => /\ out'[o].profile = out[o].profile
                             /\ out'[o].gws = IF g \in out[o].gws THEN (out[o].gws \ {g}) \cup {h}
                                              ELSE out[o].gws
  <2>1. \A o \in Out : out[o] # None => out[o] \in Connection
    BY OfConnection
  <2>2. \A o \in Out : out'[o] = IF out[o] # None /\ g \in out[o].gws
                                 THEN [out[o] EXCEPT !.gws = (@ \ {g}) \cup {h}] ELSE out[o]
    BY <1>1 DEF Users
  <2>3. QED
    BY <1>7, <2>1, <2>2
<1>9. Stored' = Stored
  BY <1>1 DEF Stored
<1>10. \A p, x : /\ x \in Needed(p) <=> \E o \in Out : /\ out[o] # None /\ out[o].profile = p
                                                       /\ x \in out[o].gws
                 /\ x \in Needed(p)' <=> \E o \in Out : /\ out'[o] # None /\ out'[o].profile = p
                                                        /\ x \in out'[o].gws
  BY DEF Needed, Engaging
<1>11. \A p : Needed(p)' = IF g \in Needed(p) THEN (Needed(p) \ {g}) \cup {h} ELSE Needed(p)
  <2>1. ASSUME NEW p, NEW x
        PROVE  x \in Needed(p)' <=> \/ x \in Needed(p) /\ x # g
                                    \/ x = h /\ g \in Needed(p)
    <3>1. ASSUME NEW o \in Out
          PROVE  out'[o] # None /\ out'[o].profile = p /\ x \in out'[o].gws
                 <=> /\ out[o] # None /\ out[o].profile = p
                     /\ (x \in out[o].gws /\ x # g) \/ (x = h /\ g \in out[o].gws)
      BY <1>8
    <3>2. QED
      BY <1>10, <3>1
  <2>2. QED
    BY <2>1
<1>12. \A p : g \in Needed(p) => p \in S
  BY <1>2, <1>10 DEF Users
<1>13. \A p : Needed(p) \subseteq Known
  BY <1>10 DEF NamesStored
<1>14. /\ \A x \in Gateway : x # g /\ x # h => gateway'[x] = gateway[x]
       /\ h # g => h \notin Known
  BY <1>1 DEF TypeOK, Known
<1>15. running'[n] = running[n]
  BY <1>5 DEF Keeps
<1>16. ASSUME NEW p \in Profile PROVE ProfileDue(n, p)' /\ GatewaysDue(n, p)'
  <2>1. ProfileDue(n, p) /\ GatewaysDue(n, p)
    BY DEF NodeDue
  <2>2. ProfileDue(n, p)'
    BY <1>1, <1>5, <1>9, <1>15, <2>1, ProfileKept
  <2>3. CASE g \notin Needed(p)
    <3>1. Needed(p)' = Needed(p) /\ \A x \in Needed(p) : x # g /\ x # h /\ x \in Gateway
      BY <1>11, <1>13, <1>14, <2>3 DEF Known
    <3>2. GatewaysDue(n, p)'
      BY <1>5, <1>9, <1>14, <1>15, <2>1, <3>1, GatewaysKept
    <3>3. QED
      BY <2>2, <3>2
  <2>4. CASE g \in Needed(p)
    <3>1. SUFFICES ASSUME p \in Stored, running[n][p] # None,
                          ~ Due(n, Command("restart", p, None))', NEW x \in Gateway
                   PROVE  GatewayDue(n, p, x)'
      BY <1>9, <1>15, <2>2 DEF GatewaysDue
    <3>2. GatewayDue(n, p, x)
      BY <1>5, <2>1, <3>1 DEF GatewaysDue
    <3>3. Due(n, Command("killgw", p, g))' /\ Due(n, Command("rescan", p, None))'
      BY <1>6, <1>12, <2>4
    <3>4. Needed(p)' = (Needed(p) \ {g}) \cup {h}
      BY <1>11, <2>4
    <3>5. CASE x = g
      BY <1>15, <3>3, <3>4, <3>5 DEF GatewayDue
    <3>6. CASE x = h /\ h # g
      <4>1. x \notin Needed(p)
        BY <1>13, <1>14, <3>6
      <4>2. x \in DOMAIN running[n][p].gws => Due(n, Command("killgw", p, x))'
        BY <1>5, <3>2, <4>1 DEF GatewayDue
      <4>3. QED
        BY <1>15, <3>3, <3>4, <3>6, <4>2 DEF GatewayDue
    <3>7. CASE x # g /\ x # h
      <4>1. gateway'[x] = gateway[x] /\ (x \in Needed(p)' <=> x \in Needed(p))
        BY <1>14, <3>4, <3>7
      <4>2. QED
        BY <1>5, <1>15, <3>2, <4>1, GatewayKept
    <3>8. QED
      BY <3>5, <3>6, <3>7
  <2>5. QED
    BY <2>3, <2>4
<1>17. \A list : \A o \in Out : Fresh(list, o) => Fresh(list, o)'
  <2> SUFFICES ASSUME NEW list, NEW o \in Out, Fresh(list, o)
               PROVE  Fresh(list, o)'
    OBVIOUS
  <2>1. /\ Lists[o] = IF out[o] = None THEN {} ELSE out[o].gws
        /\ Lists'[o] = IF out'[o] = None THEN {} ELSE out'[o].gws
    BY DEF Lists
  <2>2. Lists'[o] = IF g \in Lists[o] THEN (Lists[o] \ {g}) \cup {h} ELSE Lists[o]
    BY <1>8, <2>1
  <2>3. list[o] = Lists[o] => list[o] = Lists'[o] \/ list[o] \cap renamed' # {}
    BY <1>1, <2>2
  <2>4. list[o] \cap renamed # {} => list[o] \cap renamed' # {}
    BY <1>1
  <2>5. QED
    BY <2>3, <2>4 DEF Fresh
<1>18. \A o \in Out : ListDue(n, o)'
  BY <1>5, <1>17, ListKept DEF NodeDue
<1>19. QED
  BY <1>16, <1>18 DEF NodeDue

(* A request that changes one outbound interconnection.                    *)
LEMMA OutDue ==
  ASSUME Careful, TypeOK, NEW n, NodeDue(n), NEW m \in Message, m.kind = "out", Request({m}),
         UNCHANGED <<profile, gateway, renamed>>,
         \A r, x : x \in Needed(r)' => x \in Needed(r) \/ (m.new # None /\ r = m.new),
         \A r, x : x \in Needed(r) => \/ x \in Needed(r)'
                                      \/ m.old # None /\ r = m.old /\ x \in Gone(m)
  PROVE  NodeDue(n)'
<1>1. /\ Keeps(n) /\ \A c : Due(n, c) => Due(n, c)'
      /\ \A c : Has(Commands(m), c) => Due(n, c)'
      /\ Refreshes(Commands(m)) => \E cs \in Owed(n)' : Refreshes(cs)
  BY RequestOwed DEF Sendable
<1>2. /\ m.old # None => \A g \in Gone(m) : Due(n, Command("killgw", m.old, g))'
      /\ m.new # None => Due(n, Command("rescan", m.new, None))'
      /\ \E cs \in Owed(n)' : Refreshes(cs)
  BY <1>1, OutCommandsAre
<1>3. Stored' = Stored /\ running'[n] = running[n]
  BY <1>1 DEF Stored, Keeps
<1>4. ASSUME NEW p \in Profile PROVE ProfileDue(n, p)' /\ GatewaysDue(n, p)'
  <2>1. ProfileDue(n, p) /\ GatewaysDue(n, p)
    BY DEF NodeDue
  <2>2. ProfileDue(n, p)'
    BY <1>1, <1>3, <2>1, ProfileKept
  <2>3. SUFFICES ASSUME p \in Stored, running[n][p] # None,
                        ~ Due(n, Command("restart", p, None))', NEW x \in Gateway
                 PROVE  GatewayDue(n, p, x)'
    BY <1>3, <2>2 DEF GatewaysDue
  <2>4. GatewayDue(n, p, x)
    BY <1>1, <2>1, <2>3 DEF GatewaysDue
  <2>5. CASE x \in Needed(p)' <=> x \in Needed(p)
    BY <1>1, <1>3, <2>4, <2>5, GatewayKept
  <2>6. CASE x \in Needed(p)' /\ x \notin Needed(p)
    <3>1. x \in DOMAIN running[n][p].gws => Due(n, Command("killgw", p, x))'
      BY <1>1, <2>4, <2>6 DEF GatewayDue
    <3>2. Due(n, Command("rescan", p, None))'
      BY <1>2, <2>6
    <3>3. QED
      BY <1>3, <2>6, <3>1, <3>2 DEF GatewayDue
  <2>7. CASE x \notin Needed(p)' /\ x \in Needed(p)
    <3>1. Due(n, Command("killgw", p, x))'
      BY <1>2, <2>7
    <3>2. QED
      BY <2>7, <3>1 DEF GatewayDue
  <2>8. QED
    BY <2>5, <2>6, <2>7
<1>5. \A o \in Out : ListDue(n, o)'
  BY <1>2 DEF ListDue
<1>6. QED
  BY <1>4, <1>5 DEF NodeDue

LEMMA NeededIs ==
  \A p, x : /\ x \in Needed(p) <=> \E o \in Out : /\ out[o] # None /\ out[o].profile = p
                                                  /\ x \in out[o].gws
            /\ x \in Needed(p)' <=> \E o \in Out : /\ out'[o] # None /\ out'[o].profile = p
                                                   /\ x \in out'[o].gws
BY DEF Needed, Engaging

(* Who alone has a gateway of a profile takes it away with it.             *)
LEMMA AloneGone ==
  ASSUME TypeOK, OneProfile, NEW o \in Out, out[o] # None, NEW x \in out[o].gws,
         \A k \in Out : k # o /\ out[k] # None => out'[k] = out[k],
         NEW p, p = out[o].profile, x \notin Needed(p)'
  PROVE  Cardinality(Users(x)) = 1
<1>1. o \in Users(x)
  BY DEF Users
<1>2. ASSUME NEW k \in Users(x), k # o PROVE FALSE
  <2>1. k \in Out /\ out[k] # None /\ x \in out[k].gws
    BY DEF Users
  <2>2. out[k].profile = p
    BY <2>1 DEF OneProfile
  <2>3. out'[k] = out[k]
    BY <1>2, <2>1
  <2>4. x \in Needed(p)'
    BY <2>1, <2>2, <2>3, NeededIs
  <2>5. QED
    BY <2>4
<1>3. Users(x) = {o}
  BY <1>1, <1>2
<1>4. QED
  BY <1>3, FS_Singleton

LEMMA CreateOutboundDue ==
  ASSUME Careful, TypeOK, CreateOutbound, NEW n, NodeDue(n)
  PROVE  NodeDue(n)'
<1>1. PICK o \in Out, p \in Stored, G \in (SUBSET Known) \ {{}} :
         /\ out[o] = None
         /\ out' = [out EXCEPT ![o] = Outbound(p, G)]
         /\ UNCHANGED <<profile, gateway, renamed>>
         /\ Request({[Blank EXCEPT !.kind = "out", !.new = p]})
  BY DEF CreateOutbound
<1> DEFINE m == [Blank EXCEPT !.kind = "out", !.new = p]
<1>2. p \in Profile /\ p # None
  BY PushAssumption DEF Stored, PushAssumption
<1>3. m \in Message /\ m.kind = "out" /\ m.new = p
  BY <1>2, BlankIs DEF Message
<1>4. Request({m})
  BY <1>1
<1> HIDE DEF m
<1>5. \A k \in Out : out'[k] = IF k = o THEN Outbound(p, G) ELSE out[k]
  BY <1>1 DEF TypeOK
<1>6. Outbound(p, G).profile = p
  BY OutboundIs
<1>7. \A r, x : x \in Needed(r)' => x \in Needed(r) \/ r = p
  BY <1>5, <1>6, NeededIs
<1>8. \A r, x : x \in Needed(r) => x \in Needed(r)'
  BY <1>1, <1>5, NeededIs
<1>9. QED
  BY <1>1, <1>2, <1>3, <1>4, <1>7, <1>8, OutDue

LEMMA UpdateOutboundDue ==
  ASSUME Careful, TypeOK, OneProfile, UpdateOutbound, NEW n, NodeDue(n)
  PROVE  NodeDue(n)'
<1>1. PICK o \in Out, q \in Out, p \in Stored, G \in (SUBSET Known) \ {{}} :
         /\ out[o] # None /\ (q # o => out[q] = None)
         /\ Careful => Announced(o, p, G)
         /\ out' = [out EXCEPT ![o] = None, ![q] = Outbound(p, G)]
         /\ UNCHANGED <<profile, gateway, renamed>>
         /\ Request({x \in {OutMessage(p, out[o].profile, G, InUse(o))} : Announced(o, p, G)})
  BY DEF UpdateOutbound, OutMessage
<1> DEFINE old == out[o].profile
           U == InUse(o)
           m == OutMessage(p, old, G, U)
<1>2. /\ p \in Profile /\ p # None /\ G \in SUBSET Gateway /\ old \in Profile /\ old # None
      /\ U \in UNION {[D -> 0 .. Cardinality(Out)] : D \in SUBSET Gateway}
      /\ DOMAIN U = out[o].gws /\ \A g \in out[o].gws : U[g] = Cardinality(Users(g))
  BY <1>1, OfConnection, InUseType, PushAssumption DEF Stored, Known, PushAssumption, InUse
<1>3. Request({m})
  <2>1. {x \in {m} : Announced(o, p, G)} = {m}
    BY <1>1
  <2>2. Request({x \in {m} : Announced(o, p, G)})
    BY <1>1
  <2> HIDE DEF m
  <2>3. QED
    BY <2>1, <2>2
<1> HIDE DEF U
<1>4. /\ m \in Message /\ m.kind = "out" /\ m.new = p /\ m.old = old
      /\ m.gws = G /\ m.inuse = U
  BY <1>2, OutMessageIs
<1> HIDE DEF m
<1>5. \A k \in Out : out'[k] = IF k = q THEN Outbound(p, G) ELSE IF k = o THEN None ELSE out[k]
  BY <1>1 DEF TypeOK
<1>6. Outbound(p, G).profile = p /\ Outbound(p, G).gws = G /\ Outbound(p, G) # None
  BY <1>2, OutboundIs
<1>7. \A r, x : x \in Needed(r)' => x \in Needed(r) \/ r = p
  BY <1>5, <1>6, NeededIs
<1>8. ASSUME NEW r, NEW x, x \in Needed(r), x \notin Needed(r)'
      PROVE  r = old /\ x \in Gone(m)
  <2>1. PICK k \in Out : out[k] # None /\ out[k].profile = r /\ x \in out[k].gws
    BY <1>8, NeededIs
  <2>2. k = o
    <3>1. out'[k] # out[k]
      BY <1>8, <2>1, NeededIs
    <3>2. QED
      BY <1>1, <1>5, <2>1, <3>1
  <2>3. r = old /\ x \in DOMAIN U
    BY <1>2, <2>1, <2>2
  <2>4. CASE p # old
    BY <1>2, <1>4, <2>3, <2>4 DEF Gone
  <2>5. CASE p = old
    <3>1. x \notin G
      BY <1>5, <1>6, <1>8, <2>3, <2>5, NeededIs
    <3>2. \A j \in Out : j # o /\ out[j] # None => out'[j] = out[j]
      BY <1>1, <1>5
    <3>3. Cardinality(Users(x)) = 1
      BY <1>1, <1>8, <2>1, <2>2, <3>2, AloneGone
    <3>4. QED
      BY <1>2, <1>4, <2>3, <2>5, <3>1, <3>3 DEF Gone
  <2>6. QED
    BY <2>3, <2>4, <2>5
<1> HIDE DEF old
<1>9. QED
  BY <1>1, <1>2, <1>3, <1>4, <1>7, <1>8, OutDue

LEMMA DeleteOutboundDue ==
  ASSUME Careful, TypeOK, OneProfile, DeleteOutbound, NEW n, NodeDue(n)
  PROVE  NodeDue(n)'
<1>1. PICK o \in Out :
         /\ out[o] # None
         /\ out' = [out EXCEPT ![o] = None]
         /\ UNCHANGED <<profile, gateway, renamed>>
         /\ Request({[Blank EXCEPT !.kind = "out", !.old = out[o].profile, !.inuse = InUse(o)]})
  BY DEF DeleteOutbound
<1> DEFINE old == out[o].profile
           U == InUse(o)
           m == [Blank EXCEPT !.kind = "out", !.old = old, !.inuse = U]
<1>2. /\ old \in Profile /\ old # None
      /\ U \in UNION {[D -> 0 .. Cardinality(Out)] : D \in SUBSET Gateway}
      /\ DOMAIN U = out[o].gws /\ \A g \in out[o].gws : U[g] = Cardinality(Users(g))
  BY <1>1, OfConnection, InUseType, PushAssumption DEF PushAssumption, InUse
<1>3. Request({m})
  BY <1>1
<1> HIDE DEF U
<1>4. /\ m \in Message /\ m.kind = "out" /\ m.new = None /\ m.old = old
      /\ m.gws = {} /\ m.inuse = U
  BY <1>2, BlankIs DEF Message
<1> HIDE DEF m
<1>5. \A k \in Out : out'[k] = IF k = o THEN None ELSE out[k]
  BY <1>1 DEF TypeOK
<1>6. \A r, x : x \in Needed(r)' => x \in Needed(r)
  BY <1>5, NeededIs
<1>7. ASSUME NEW r, NEW x, x \in Needed(r), x \notin Needed(r)'
      PROVE  r = old /\ x \in Gone(m)
  <2>1. PICK k \in Out : out[k] # None /\ out[k].profile = r /\ x \in out[k].gws
    BY <1>7, NeededIs
  <2>2. k = o
    BY <1>5, <1>7, <2>1, NeededIs
  <2>3. r = old /\ x \in DOMAIN U
    BY <1>2, <2>1, <2>2
  <2>4. \A j \in Out : j # o /\ out[j] # None => out'[j] = out[j]
    BY <1>5
  <2>5. Cardinality(Users(x)) = 1
    BY <1>1, <1>7, <2>1, <2>2, <2>4, AloneGone
  <2>6. QED
    BY <1>2, <1>4, <2>3, <2>5 DEF Gone
<1> HIDE DEF old
<1>8. QED
  BY <1>1, <1>2, <1>3, <1>4, <1>6, <1>7, OutDue

-----------------------------------------------------------------------------
(* What is owed to a node makes it as it is stored: always.                *)
LEMMA RequestSteps ==
  ASSUME Careful, TypeInv, CareInv, DueInv, Requests
  PROVE  DueInv'
<1>1. /\ TypeOK /\ NamesStored /\ OneProfile /\ Reliable \subseteq listening
      /\ \A n \in Sound : NodeDue(n)
  BY DEF TypeInv, CareInv, DueInv
<1>2. PICK ms \in SUBSET Message : Request(ms)
  BY <1>1, RequestStores DEF StoreKept
<1>3. UNCHANGED <<listening, inbox, threads, nodes>>
  BY <1>1, <1>2, RequestIs
<1>4. Sound' = Sound /\ Reliable \subseteq listening'
  BY <1>1, <1>3 DEF Sound, nodes
<1>5. ASSUME NEW n \in Sound PROVE NodeDue(n)'
  BY <1>1, NetaliasDue, CreateProfileDue, UpdateProfileDue, DeleteProfileDue, UpdateGatewayDue,
     CreateOutboundDue, UpdateOutboundDue, DeleteOutboundDue DEF Requests
<1>6. QED
  BY <1>4, <1>5 DEF DueInv, Reliable

LEMMA CarefulInit ==
  ASSUME Init
  PROVE  CareInv /\ DueInv
<1>1. TypeOK /\ NamesStored
  BY TypeInit DEF TypeInv
<1>2. /\ unsent = EmptyBag /\ threads = EmptyBag /\ inbox = [l \in Liberator |-> <<>>]
      /\ OneProfile /\ listening = Liberator
      /\ running = [n \in Node |-> Loaded]
      /\ xml = [n \in Node |-> Lists] /\ dist = [n \in Node |-> Lists]
  BY DEF Init
<1>3. BagToSet(unsent) = {} /\ BagToSet(threads) = {}
  BY <1>2, BagEmpty
<1>4. \A cs : cs \notin InFlight
  BY <1>2, <1>3, InFlightIs
<1>5. CareInv
  BY <1>2, <1>3, <1>4 DEF CareInv, Harmless, Published
<1>6. ASSUME NEW n \in Node PROVE NodeDue(n)
  <2>1. running[n] = Loaded /\ xml[n] = Lists /\ dist[n] = Lists
    BY <1>2
  <2>2. ASSUME NEW p \in Profile PROVE ProfileDue(n, p) /\ GatewaysDue(n, p)
    <3>1. running[n][p] = IF p \in Stored THEN Sip(p) ELSE None
      BY <2>1 DEF Loaded
    <3>2. CASE p \notin Stored
      BY <3>1, <3>2 DEF ProfileDue, GatewaysDue
    <3>3. CASE p \in Stored
      <4>1. /\ running[n][p] # None /\ running[n][p].settings = profile[p]
            /\ DOMAIN running[n][p].gws = Needed(p)
            /\ \A g \in Needed(p) : running[n][p].gws[g] = gateway[g]
        BY <1>1, <3>1, <3>3, SipType, OfConfigured
      <4>2. ProfileDue(n, p)
        BY <3>3, <4>1 DEF ProfileDue
      <4>3. \A g \in Gateway : GatewayDue(n, p, g)
        BY <4>1 DEF GatewayDue
      <4>4. QED
        BY <4>2, <4>3 DEF GatewaysDue
    <3>4. QED
      BY <3>2, <3>3
  <2>3. \A o \in Out : ListDue(n, o)
    BY <2>1 DEF ListDue, Fresh
  <2>4. QED
    BY <2>2, <2>3 DEF NodeDue
<1>7. DueInv
  BY <1>2, <1>6 DEF DueInv, Reliable, Sound
<1>8. QED
  BY <1>5, <1>7

SoundInv == TypeInv /\ CareInv /\ DueInv

LEMMA SoundStep ==
  ASSUME Careful, SoundInv, [Next]_vars
  PROVE  SoundInv'
<1>1. TypeInv /\ CareInv /\ DueInv
  BY DEF SoundInv
<1>2. TypeInv' /\ CareInv'
  BY <1>1, TypeStep, CareStep
<1>3. Requests \/ Others \/ \E t \in BagToSet(threads) : Send(t)
  BY DEF Next, Thread, Requests, Others
<1>4. DueInv'
  BY <1>1, <1>3, RequestSteps, OtherSteps, SendStep
<1>5. QED
  BY <1>2, <1>4 DEF SoundInv

LEMMA SoundAlways ==
  ASSUME Careful
  PROVE  Spec => []SoundInv
<1>1. Init => SoundInv
  BY TypeInit, CarefulInit DEF SoundInv
<1>2. SoundInv /\ [Next]_vars => SoundInv'
  BY SoundStep
<1>3. QED
  BY <1>1, <1>2, PTL DEF Spec

(* Nothing is owed when nothing is under way.                              *)
LEMMA QuietOwes ==
  ASSUME SoundInv, Quiet, NEW n \in Sound
  PROVE  /\ n \in Node /\ NodeDue(n)
         /\ \A c : ~ Due(n, c)
         /\ ~ \E cs \in Owed(n) : Refreshes(cs)
<1>1. BagToSet(unsent) = {} /\ BagToSet(threads) = {}
  BY BagEmpty DEF Quiet
<1>2. \A l \in Reliable : inbox[l] = <<>>
  BY DEF Quiet, Reliable
<1>3. \A cs : cs \notin Owed(n)
  BY <1>1, <1>2, OwedIs
<1>4. QED
  BY <1>3 DEF Due, SoundInv, DueInv, Sound

(* Every node that no fault has kept a command from runs, once nothing is  *)
(* under way, the profiles that are stored with the settings stored last,  *)
(* and no other: for any liberators, of which one keeps its subscription,  *)
(* and any interleaving of their threads.                                  *)
THEOREM ProfilesEndUp ==
  ASSUME Careful
  PROVE  Spec => []ProfilesRun
<1>1. SoundInv => ProfilesRun
  <2> SUFFICES ASSUME SoundInv, Quiet, NEW n \in Sound, NEW p \in Profile
               PROVE  IF p \in Stored
                      THEN running[n][p] # None /\ running[n][p].settings = profile[p]
                      ELSE running[n][p] = None
    BY DEF ProfilesRun
  <2>1. ProfileDue(n, p) /\ \A c : ~ Due(n, c)
    BY QuietOwes DEF NodeDue
  <2>2. QED
    BY <2>1 DEF ProfileDue
<1>2. QED
  BY <1>1, SoundAlways, PTL

LEMMA GatewaysQuiet ==
  ASSUME SoundInv, Quiet, NEW n \in Sound, NEW p \in Stored
  PROVE  /\ running[n][p] # None
         /\ DOMAIN running[n][p].gws = Needed(p)
         /\ \A g \in Needed(p) : running[n][p].gws[g] = gateway[g]
<1>1. p \in Profile /\ TypeOK /\ NamesStored
  BY DEF Stored, SoundInv, TypeInv
<1>2. /\ n \in Node /\ ProfileDue(n, p) /\ GatewaysDue(n, p) /\ \A c : ~ Due(n, c)
  BY <1>1, QuietOwes DEF NodeDue
<1>3. running[n][p] # None
  BY <1>2 DEF ProfileDue
<1>4. \A g \in Gateway : GatewayDue(n, p, g)
  BY <1>2, <1>3 DEF GatewaysDue
<1>5. Needed(p) \subseteq Gateway
  BY <1>1 DEF NamesStored, Needed, Engaging, Known
<1>6. DOMAIN running[n][p].gws \subseteq Gateway
  BY <1>1, <1>2, <1>3, OfConfigured DEF TypeOK
<1>7. QED
  BY <1>2, <1>3, <1>4, <1>5, <1>6 DEF GatewayDue

(* And in them the gateways of every outbound interconnection, with their  *)
(* last settings: a removal that comes late takes none away for good.      *)
THEOREM GatewaysEndUp ==
  ASSUME Careful
  PROVE  Spec => []GatewaysLoaded
<1>1. SoundInv => GatewaysLoaded
  BY GatewaysQuiet DEF GatewaysLoaded
<1>2. QED
  BY <1>1, SoundAlways, PTL

(* And no other gateway: what was deleted, renamed or moved is gone.       *)
THEOREM NoStrayEndsUp ==
  ASSUME Careful
  PROVE  Spec => []NoStrayGateway
<1>1. SoundInv => NoStrayGateway
  BY GatewaysQuiet DEF NoStrayGateway
<1>2. QED
  BY <1>1, SoundAlways, PTL

(* And its distributor has the gateways of every interconnection, or one   *)
(* of a name that has been given up.                                       *)
THEOREM ListsEndUp ==
  ASSUME Careful
  PROVE  Spec => []ListsCurrent
<1>1. SoundInv => ListsCurrent
  <2> SUFFICES ASSUME SoundInv, Quiet, NEW n \in Sound, NEW o \in Out
               PROVE  dist[n][o] = Lists[o] \/ dist[n][o] \cap renamed # {}
    BY DEF ListsCurrent
  <2>1. /\ ListDue(n, o) /\ \A c : ~ Due(n, c)
        /\ ~ \E cs \in Owed(n) : Refreshes(cs)
    BY QuietOwes DEF NodeDue
  <2>2. QED
    BY <2>1 DEF ListDue, Fresh
<1>2. QED
  BY <1>1, SoundAlways, PTL
===============================================================================
