----------------------------- MODULE ConfigStore -----------------------------
(***************************************************************************)
(* The configuration that the API of the liberator keeps in Redis          *)
(* (liberator/libreapi.py).  An object is a Redis key named by its kind    *)
(* and name; it refers to others by name.  Beside each object a set of     *)
(* engagements holds who refers to it: an engaged object must not be       *)
(* deleted, and when it is renamed those it is engaged by are rewritten.   *)
(* Requests are served by several workers that share nothing but Redis and *)
(* take no lock.  A request first has its body validated, then its handler *)
(* checks and reads, and at last sends its commands as one transaction.    *)
(*                                                                         *)
(*   scope   the objects that the requests are about; the others stay as   *)
(*           they are, and references to them are not recorded             *)
(*   store   what each object holds, or None                               *)
(*   eng     the objects in the set engagement:... of an object            *)
(*   farend  the addresses in the set farendsipaddrs:in:... of a profile   *)
(*   req     the request that each worker is serving, or None              *)
(*                                                                         *)
(* Of an object only the references are modelled, and the SIP addresses of *)
(* an inbound interconnection.                                             *)
(***************************************************************************)
CONSTANTS Worker,   \* the workers that serve requests
          Scopes,   \* sets of objects that the requests may be about
          TableOf,  \* the routing table of each record
          Addr,     \* SIP addresses of inbound interconnections
          Overlap,  \* the pairs of addresses that overlap
          Careful,  \* whether requests that contend (Contend) are not made
                    \* at the same time
          None      \* nothing

VARIABLES scope, store, eng, farend, req

vars == <<scope, store, eng, farend, req>>

(* The kinds of object.  A "compare" is a routing record that is kept as a *)
(* field of a hash, since it matches by eq, ne, gt or lt.                  *)
Leaves == {"netalias", "acl", "preanswer", "media", "capacity",
           "translation", "manipulation", "gateway"}
Connections == {"out", "in"}
Records == {"record", "compare"}
Kinds == Leaves \cup Connections \cup Records \cup {"sipprofile", "table"}

(* uses: the objects it names.  nav: the navigator of a routing table.     *)
(* whole: FALSE for a hash that only holds the field that HSET left.       *)
Data(S) == [uses : SUBSET S, nav : SUBSET S,
            addrs : SUBSET Addr, whole : BOOLEAN]
Blank == [uses |-> {}, nav |-> {}, addrs |-> {}, whole |-> TRUE]

Request(S) == [pc : {"valid", "ready", "put"},
               op : {"create", "update", "delete"}, obj : S, new : S,
               data : Data(S), old : Data(S), users : SUBSET S]

ConfigAssumption ==
    /\ \A S \in Scopes : /\ \A o \in S : o.kind \in Kinds
                        /\ None \notin Data(S) /\ None \notin Request(S)
    /\ \A r \in DOMAIN TableOf : TableOf[r].kind = "table"
    /\ \A S \in Scopes : {o \in S : o.kind \in Records} \subseteq DOMAIN TableOf
    /\ Careful \in BOOLEAN

ASSUME ConfigAssumption

-----------------------------------------------------------------------------
Of(k) == {o \in scope : o.kind = k}
Existent(o) == store[o] # None
Refs(d) == d.uses \cup d.nav
ProfileOf(d) == {p \in d.uses : p.kind = "sipprofile"}

Idle(w) == req[w] = None
Renames(q) == q.op = "update" /\ q.new # q.obj

(* A request after which a name that others may hold is no more.           *)
Unnames(q) == /\ q.op = "delete" \/ Renames(q)
              /\ q.obj.kind \notin Records \cup {"in"}

(* Requests that the handlers do not keep apart.  Two updates of a table   *)
(* may leave it a route whose engagement the second has removed as that of *)
(* the navigator.  Two updates of an inbound interconnection may leave an  *)
(* address in the set of a profile that it no longer names.                *)
Contend(q, r) == \/ Unnames(q) \/ Unnames(r)
                 \/ q.obj.kind = "table" /\ r.obj = q.obj
                 \/ q.obj.kind = "in" /\ r.obj = q.obj /\ Of("sipprofile") # {}

Begin(w, q) ==
    /\ Idle(w)
    /\ Careful => \A v \in Worker \ {w} : ~Idle(v) => ~Contend(q, req[v])
    /\ req' = [req EXCEPT ![w] = q]

Done(w) == req' = [req EXCEPT ![w] = None]

(* What the handler reads once its checks have passed.                     *)
(* Mutant: a create reads the object it is to make, too.                   *)
ReadAlways(q) == [q EXCEPT !.pc = "ready", !.users = eng[q.obj],
                           !.old = store[q.obj]]

Read(q) == [q EXCEPT !.pc = "ready", !.users = eng[q.obj],
                     !.old = IF q.op = "create" THEN Blank ELSE store[q.obj]]

NameFree(q) == IF q.op = "create"
               THEN ~Existent(q.new)
               ELSE Existent(q.obj) /\ (Renames(q) => ~Existent(q.new))

(* In a rename, the field of a user that names the object.  Where it can   *)
(* hold one name it is set without a look at it, by an HSET that creates   *)
(* the hash if there is none; a compare record is looked for under a key   *)
(* that it does not have.                                                  *)
Blind(k) == k \in {"acl", "preanswer", "media", "capacity", "sipprofile"}

Swap(S, o, n) == {IF x = o THEN n ELSE x : x \in S}

Rewritten(u, o, n) ==
    LET d == store[u] IN
    IF Blind(o.kind)
    THEN IF d = None
         THEN [Blank EXCEPT !.uses = {n}, !.whole = FALSE]
         ELSE [d EXCEPT !.uses = {x \in @ : x.kind # o.kind} \cup {n}]
    ELSE IF d = None \/ u.kind = "compare" THEN d
    ELSE [d EXCEPT !.uses = Swap(@, o, n), !.nav = Swap(@, o, n)]

(* Rewriting fails where the user has no such list, or no such gateway.    *)
Rewritable(u, o) ==
    CASE o.kind \in {"translation", "manipulation"} ->
            Existent(u) /\ store[u].whole
      [] o.kind = "gateway" -> Existent(u) /\ o \in store[u].uses
      [] OTHER -> TRUE

(* HMSET leaves a field that the new data lack; a handler removes it only  *)
(* if it was there when the handler read the object.                       *)
MayLack(k) == CASE k = "in" -> {"preanswer"} [] k = "table" -> {"out"}
                [] OTHER -> {}

Left(q) == {x \in store[q.new].uses :
               /\ x.kind \in MayLack(q.obj.kind)
               /\ \A y \in q.data.uses \cup q.old.uses : y.kind # x.kind}

Merged(q) ==
    IF store[q.new] = None THEN q.data
    ELSE [q.data EXCEPT !.uses = @ \cup Left(q),
                        !.nav = IF @ = {} /\ q.old.nav = {}
                                THEN store[q.new].nav ELSE @]

(* The objects after the transaction of a request.                         *)
StoreAfter(q) ==
    [o \in scope |->
        IF o = q.new /\ q.op # "delete"
        THEN IF q.op = "update" /\ o.kind \in Leaves THEN store[o] ELSE Merged(q)
        ELSE IF o = q.obj THEN None
        ELSE IF o \in q.users /\ Renames(q) THEN Rewritten(o, q.obj, q.new)
        ELSE store[o]]

(* Who engages what after it: SREM of what the object was read to name,    *)
(* SADD of what it names now, RENAME or DEL of its own engagements.        *)
(* Mutant: what the object named is removed after what it names is added.  *)
EngagedSwapped(q) ==
    [o \in scope |-> IF o \in Refs(q.old) THEN eng[o] \ {q.obj}
                     ELSE IF o \in Refs(q.data) THEN eng[o] \cup {q.new}
                     ELSE eng[o]]

Engaged(q) ==
    [o \in scope |-> (IF o \in Refs(q.old) THEN eng[o] \ {q.obj} ELSE eng[o])
                   \cup (IF o \in Refs(q.data) THEN {q.new} ELSE {})]

EngAfter(q) ==
    LET e == Engaged(q)
    IN  IF Renames(q) /\ q.users # {} /\ e[q.obj] # {}
        THEN [e EXCEPT ![q.new] = e[q.obj], ![q.obj] = {}]
        ELSE IF q.op = "delete" /\ q.obj.kind \in Leaves \cup {"sipprofile", "table"}
        THEN [e EXCEPT ![q.obj] = {}]
        ELSE e

Transact(w) ==
    LET q == req[w]
    IN  /\ store' = StoreAfter(q)
        /\ eng' = EngAfter(q)
        /\ Done(w)
        /\ UNCHANGED scope

-----------------------------------------------------------------------------
(* Objects that refer to no other: network aliases, access control lists,  *)
(* the classes and gateways.  Their handlers are the same.                 *)

AskLeaf(w, k) ==
    /\ \E op \in {"create", "update", "delete"}, o \in Of(k), n \in Of(k) :
          LET q == [pc |-> "ready", op |-> op, obj |-> o, new |-> n,
                    data |-> Blank, old |-> Blank, users |-> {}]
          IN  /\ op # "update" => n = o
              /\ NameFree(q)
              /\ op = "delete" => eng[o] = {}
              /\ Begin(w, q)
    /\ UNCHANGED <<scope, store, eng, farend>>

(* An update first stores the data under the new name, then reads who must *)
(* be rewritten.                                                           *)
PutLeaf(w, k) ==
    LET q == req[w] IN
    /\ q # None /\ q.pc = "ready" /\ q.op = "update" /\ q.obj.kind = k
    /\ store' = [store EXCEPT ![q.new] = Blank]
    /\ IF Renames(q)
       THEN req' = [req EXCEPT ![w] = [q EXCEPT !.pc = "put",
                                                !.users = eng[q.obj]]]
       ELSE Done(w)
    /\ UNCHANGED <<scope, eng, farend>>

FinishLeaf(w, k) ==
    LET q == req[w] IN
    /\ q # None /\ q.obj.kind = k
    /\ IF q.op = "update" THEN q.pc = "put" ELSE q.pc = "ready"
    /\ \A u \in q.users : Rewritable(u, q.obj)
    /\ Transact(w)
    /\ UNCHANGED farend

Leaf(w, k) == AskLeaf(w, k) \/ PutLeaf(w, k) \/ FinishLeaf(w, k)

NetAlias(w) == Leaf(w, "netalias")
Acl(w) == Leaf(w, "acl")
PreanswerClass(w) == Leaf(w, "preanswer")
MediaClass(w) == Leaf(w, "media")
CapacityClass(w) == Leaf(w, "capacity")
TranslationClass(w) == Leaf(w, "translation")
ManipulationClass(w) == Leaf(w, "manipulation")
Gateway(w) == Leaf(w, "gateway")

-----------------------------------------------------------------------------
(* Objects that refer to others: a body is accepted if what it names       *)
(* exists.  Fields in single hold one name.  The navigator of a table that *)
(* does not query is not looked up.                                        *)
Accept(w, k, kinds, single, navs, addrs) ==
    /\ \E op \in {"create", "update"}, o \in Of(k), n \in Of(k),
          U \in SUBSET {x \in scope : x.kind \in kinds},
          V \in SUBSET {x \in scope : x.kind \in navs}, A \in SUBSET addrs :
          /\ op = "create" => n = o
          /\ \A x, y \in U : x.kind = y.kind /\ x.kind \in single => x = y
          /\ \A x \in U : Existent(x)
          /\ \A x, y \in V : x = y
          /\ A # {} => \E p \in U : p.kind = "sipprofile"
          /\ Begin(w, [pc |-> "valid", op |-> op, obj |-> o, new |-> n,
                       data |-> [uses |-> U, nav |-> V, addrs |-> A,
                                 whole |-> TRUE],
                       old |-> Blank, users |-> {}])
    /\ UNCHANGED <<scope, store, eng, farend>>

(* The handler of an accepted body passes its checks.                      *)
Check(w, k) ==
    LET q == req[w] IN
    /\ q # None /\ q.pc = "valid" /\ q.obj.kind = k
    /\ NameFree(q)
    /\ req' = [req EXCEPT ![w] = Read(q)]
    /\ UNCHANGED <<scope, store, eng, farend>>

(* An object that nobody engages is to be deleted.                         *)
Remove(w, k) ==
    /\ \E o \in Of(k) :
          LET q == [pc |-> "ready", op |-> "delete", obj |-> o, new |-> o,
                    data |-> Blank, old |-> Blank, users |-> {}]
          IN  /\ Existent(o)
              /\ eng[o] = {}
              /\ Begin(w, Read(q))
    /\ UNCHANGED <<scope, store, eng, farend>>

Commit(w, k) ==
    /\ ~Idle(w)
    /\ req[w].pc = "ready" /\ req[w].obj.kind = k
    /\ Transact(w)

-----------------------------------------------------------------------------
(* SIP profiles.  The addresses of the farends move with the profile.      *)
AcceptProfile(w) ==
    Accept(w, "sipprofile", {"netalias", "acl"}, {"acl"}, {}, {})

CommitProfile(w) ==
    LET q == req[w] IN
    /\ Commit(w, "sipprofile")
    /\ farend' = IF Renames(q) /\ farend[q.obj] # {}
                 THEN [farend EXCEPT ![q.new] = farend[q.obj], ![q.obj] = {}]
                 ELSE farend

SipProfile(w) == \/ AcceptProfile(w) \/ Check(w, "sipprofile")
                 \/ Remove(w, "sipprofile") \/ CommitProfile(w)

-----------------------------------------------------------------------------
(* Outbound interconnections.  What is left of one by an HSET cannot be    *)
(* updated or deleted.                                                     *)
ConnectionUses == {"sipprofile", "media", "capacity",
                   "translation", "manipulation"}
OneOf == {"sipprofile", "media", "capacity", "preanswer", "table"}

WholeOrNew(q) == q.op # "create" => store[q.obj].whole

AcceptOutbound(w) ==
    Accept(w, "out", ConnectionUses \cup {"gateway"}, OneOf, {}, {})

CheckOutbound(w) == Check(w, "out") /\ WholeOrNew(req[w])

RemoveOutbound(w) == Remove(w, "out") /\ WholeOrNew(req'[w])

CommitOutbound(w) == Commit(w, "out") /\ UNCHANGED farend

Outbound(w) == \/ AcceptOutbound(w) \/ CheckOutbound(w)
               \/ RemoveOutbound(w) \/ CommitOutbound(w)

-----------------------------------------------------------------------------
(* Inbound interconnections.  Nothing engages one.                         *)
AcceptInbound(w) ==
    Accept(w, "in", ConnectionUses \cup {"preanswer", "table"}, OneOf, {}, Addr)

Disjoint(A, B) == \A a \in A, b \in B : <<a, b>> \notin Overlap

Farends(d) == UNION {farend[p] : p \in ProfileOf(d)}

(* The addresses that the request adds to its profile, and those it takes  *)
(* from the profile it had.                                                *)
NewAddrs(q) == IF ProfileOf(q.data) = ProfileOf(q.old)
               THEN q.data.addrs \ q.old.addrs ELSE q.data.addrs
OldAddrs(q) == IF ProfileOf(q.data) = ProfileOf(q.old)
               THEN q.old.addrs \ q.data.addrs ELSE q.old.addrs

(* New addresses must not overlap those of the profile; an update looks at *)
(* the profile that the interconnection had.                               *)
CheckInbound(w) ==
    LET q == req'[w] IN
    /\ Check(w, "in")
    /\ WholeOrNew(q)
    /\ Disjoint(NewAddrs(q), Farends(IF q.op = "create" THEN q.data ELSE q.old))

RemoveInbound(w) == Remove(w, "in") /\ WholeOrNew(req'[w])

(* Mutant: what is taken away is taken from the new profile.               *)
CommitInboundSame(w) ==
    LET q == req[w] IN
    /\ Commit(w, "in")
    /\ farend' = [p \in scope |->
                    IF p \in ProfileOf(q.data)
                    THEN (farend[p] \ OldAddrs(q)) \cup NewAddrs(q) ELSE farend[p]]

CommitInbound(w) ==
    LET q == req[w] IN
    /\ Commit(w, "in")
    /\ farend' = [p \in scope |->
                    (IF p \in ProfileOf(q.old)
                     THEN farend[p] \ OldAddrs(q) ELSE farend[p])
                    \cup (IF p \in ProfileOf(q.data) THEN NewAddrs(q) ELSE {})]

Inbound(w) == \/ AcceptInbound(w) \/ CheckInbound(w)
              \/ RemoveInbound(w) \/ CommitInbound(w)

-----------------------------------------------------------------------------
(* Routing tables.  They keep their names, and their records keep them.    *)
AcceptTable(w) == Accept(w, "table", {"out"}, {}, {"out"}, {})

CheckTable(w) == Check(w, "table") /\ ~Renames(req[w])

(* Mutant: the records of the table are not looked for.                    *)
RemoveTableUnscanned(w) == Remove(w, "table")

RemoveTable(w) ==
    /\ Remove(w, "table")
    /\ \A r \in scope : r.kind \in Records /\ TableOf[r] = req'[w].obj
                        => ~Existent(r)

CommitTable(w) == Commit(w, "table") /\ UNCHANGED farend

RoutingTable(w) == \/ AcceptTable(w) \/ CheckTable(w)
                   \/ RemoveTable(w) \/ CommitTable(w)

(* Routing records: to one or two interconnections, or a jump to one or    *)
(* two tables, not their own.                                              *)
AcceptRecord(w, k) ==
    LET q == req'[w] IN
    /\ Accept(w, k, {"out", "table"}, {}, {}, {})
    /\ ~Renames(q)
    /\ TableOf[q.obj] \in scope => Existent(TableOf[q.obj])
    /\ TableOf[q.obj] \notin q.data.uses
    /\ \A x, y \in q.data.uses : x.kind = y.kind

CommitRecord(w, k) == Commit(w, k) /\ UNCHANGED farend

RoutingRecord(w) ==
    \E k \in Records : \/ AcceptRecord(w, k) \/ Check(w, k)
                       \/ Remove(w, k) \/ CommitRecord(w, k)

-----------------------------------------------------------------------------
(* A request ends with no more effect: a check refuses it, a command       *)
(* raises an exception, or the worker dies.                                *)
Abandon(w) ==
    /\ ~Idle(w)
    /\ Done(w)
    /\ UNCHANGED <<scope, store, eng, farend>>

Init == /\ scope \in Scopes
        /\ store = [o \in scope |-> None]
        /\ eng = [o \in scope |-> {}]
        /\ farend = [o \in scope |-> {}]
        /\ req = [w \in Worker |-> None]

Next == \E w \in Worker :
           \/ NetAlias(w) \/ Acl(w)
           \/ PreanswerClass(w) \/ MediaClass(w) \/ CapacityClass(w)
           \/ TranslationClass(w) \/ ManipulationClass(w) \/ Gateway(w)
           \/ SipProfile(w) \/ Outbound(w) \/ Inbound(w)
           \/ RoutingTable(w) \/ RoutingRecord(w)
           \/ Abandon(w)

Spec == Init /\ [][Next]_vars

-----------------------------------------------------------------------------
TypeOK ==
    /\ scope \in Scopes
    /\ store \in [scope -> Data(scope) \cup {None}]
    /\ eng \in [scope -> SUBSET scope]
    /\ farend \in [scope -> SUBSET Addr]
    /\ req \in [Worker -> Request(scope) \cup {None}]

(* What an object names exists, and a record's table does: a call that is  *)
(* routed finds every object on its way.  Not said of navigators, which    *)
(* are not looked up, nor of compare records, which a rename leaves        *)
(* behind.                                                                 *)
ReferencesExist ==
    \A u \in scope : Existent(u) =>
       /\ u.kind # "compare" => \A x \in store[u].uses : Existent(x)
       /\ u.kind \in Records /\ TableOf[u] \in scope => Existent(TableOf[u])

(* Whoever names an object is in the set of its engagements, so that the   *)
(* object is not deleted and is not renamed without him.                   *)
EngagedByUsers ==
    \A u \in scope : Existent(u) =>
       \A x \in store[u].uses :
          \/ u.kind = "compare" /\ x.kind = "out"
          \/ u \in eng[x]

(* The set of addresses of a profile has those of its inbound              *)
(* interconnections and no other, though a profile is renamed and an       *)
(* interconnection moves from one to another: no address of it is free to  *)
(* be taken, and none is held by nobody.                                   *)
FarendsExact ==
    \A p \in Of("sipprofile") :
       farend[p] = UNION {store[i].addrs : i \in {u \in Of("in") :
                                                  Existent(u) /\ p \in store[u].uses}}
=============================================================================
