----------------------------- MODULE ConfigProofs -----------------------------
(***************************************************************************)
(* Proofs about ConfigStore, for any objects, workers and requests: the    *)
(* types; and, of requests that do not contend (Careful), that whoever     *)
(* names an object is engaged by it, that what is named exists, and that a *)
(* profile knows the addresses of its inbound interconnection.             *)
(***************************************************************************)
EXTENDS ConfigStore, TLAPS

-----------------------------------------------------------------------------
(* The types.                                                              *)

LEMMA NoneIsNone == scope \in Scopes => None \notin Data(scope) /\ None \notin Request(scope)
BY ConfigAssumption DEF ConfigAssumption

LEMMA BlankType == \A S : Blank \in Data(S)
BY DEF Blank, Data

(* What a request leaves of an object is data.                             *)
LEMMA MergedType ==
  ASSUME TypeOK, NEW q \in Request(scope)
  PROVE  Merged(q) \in Data(scope)
<1>1. q.data \in Data(scope) /\ q.new \in scope /\ q.old \in Data(scope)
  BY DEF Request
<1>2. CASE store[q.new] = None
  BY <1>1, <1>2 DEF Merged
<1>3. CASE store[q.new] # None
  <2>1. store[q.new] \in Data(scope)
    BY <1>1, <1>3 DEF TypeOK
  <2>2. Left(q) \subseteq scope
    BY <2>1 DEF Left, Data
  <2> DEFINE U == q.data.uses \cup Left(q)
             V == IF q.data.nav = {} /\ q.old.nav = {} THEN store[q.new].nav ELSE q.data.nav
  <2>3. U \in SUBSET scope /\ V \in SUBSET scope
    BY <1>1, <2>1, <2>2 DEF Data
  <2>4. Merged(q) = [q.data EXCEPT !.uses = U, !.nav = V]
    BY <1>1, <1>3 DEF Merged, Data
  <2> HIDE DEF U, V
  <2>5. QED
    BY <1>1, <2>3, <2>4 DEF Data
<1>4. QED
  BY <1>2, <1>3

LEMMA RewrittenType ==
  ASSUME TypeOK, NEW u \in scope, NEW o \in scope, NEW n \in scope
  PROVE  Rewritten(u, o, n) \in Data(scope) \cup {None}
<1> DEFINE d == store[u]
<1>1. d \in Data(scope) \cup {None}
  BY DEF TypeOK
<1>2. CASE d = None
  <2>1. [Blank EXCEPT !.uses = {n}, !.whole = FALSE] \in Data(scope)
    BY DEF Blank, Data
  <2>2. QED
    BY <1>2, <2>1 DEF Rewritten
<1>3. CASE d # None
  <2> DEFINE U == {x \in d.uses : x.kind # o.kind} \cup {n}
             V == Swap(d.uses, o, n)
             W == Swap(d.nav, o, n)
  <2>1. {U, V, W} \subseteq SUBSET scope
    BY <1>1, <1>3 DEF Data, Swap
  <2>2. Rewritten(u, o, n) \in {d, [d EXCEPT !.uses = U], [d EXCEPT !.uses = V, !.nav = W]}
    BY <1>1, <1>3 DEF Rewritten, Data
  <2> HIDE DEF U, V, W
  <2>3. QED
    BY <1>1, <1>3, <2>1, <2>2 DEF Data
<1>4. QED
  BY <1>2, <1>3

LEMMA TransactType ==
  ASSUME TypeOK, NEW w \in Worker, Transact(w), req[w] # None
  PROVE  /\ scope' = scope
         /\ store' \in [scope -> Data(scope) \cup {None}]
         /\ eng' \in [scope -> SUBSET scope]
         /\ req' \in [Worker -> Request(scope) \cup {None}]
<1> DEFINE q == req[w]
<1>1. q \in Request(scope)
  BY DEF TypeOK
<1>2. {q.obj, q.new} \subseteq scope /\ q.users \subseteq scope
  BY <1>1 DEF Request
<1>3. store' = StoreAfter(q) /\ eng' = EngAfter(q) /\ scope' = scope /\ req' = [req EXCEPT ![w] = None]
  BY DEF Transact, Done
<1>4. store' \in [scope -> Data(scope) \cup {None}]
  <2>1. Merged(q) \in Data(scope)
    BY <1>1, MergedType
  <2>2. \A o \in q.users : Rewritten(o, q.obj, q.new) \in Data(scope) \cup {None}
    BY <1>2, RewrittenType
  <2>3. QED
    BY <1>3, <2>1, <2>2 DEF StoreAfter, TypeOK
<1>5. eng' \in [scope -> SUBSET scope]
  <2>1. Engaged(q) \in [scope -> SUBSET scope]
    BY <1>2 DEF Engaged, TypeOK
  <2> DEFINE e == Engaged(q)
  <2>2. /\ [e EXCEPT ![q.new] = e[q.obj], ![q.obj] = {}] \in [scope -> SUBSET scope]
        /\ [e EXCEPT ![q.obj] = {}] \in [scope -> SUBSET scope]
    <3> HIDE DEF e
    <3>1. e \in [scope -> SUBSET scope]
      BY <2>1 DEF e
    <3>2. QED
      BY <1>2, <3>1
  <2>3. QED
    BY <1>3, <2>1, <2>2 DEF EngAfter
<1>6. req' \in [Worker -> Request(scope) \cup {None}]
  BY <1>3 DEF TypeOK
<1>7. QED
  BY <1>3, <1>4, <1>5, <1>6

-----------------------------------------------------------------------------
(* What may be named by what.                                              *)
UsesOf(k) ==
    CASE k = "sipprofile" -> {"netalias", "acl"}
      [] k = "out" -> ConnectionUses \cup {"gateway"}
      [] k = "in" -> ConnectionUses \cup {"preanswer", "table"}
      [] k = "table" -> {"out"}
      [] k \in Records -> {"out", "table"}
      [] k \in Leaves -> {}

Fits(k, d) == /\ \A x \in Refs(d) : x.kind \in UsesOf(k)
              /\ d.nav # {} => k = "table"

Kinded(q) == /\ q.new.kind = q.obj.kind
             /\ Fits(q.obj.kind, q.data) /\ Fits(q.obj.kind, q.old)
             /\ \A u \in q.users : q.obj.kind \in UsesOf(u.kind)

KindInv == /\ \A u \in scope : Existent(u) => Fits(u.kind, store[u])
           /\ \A o \in scope : \A u \in eng[o] : o.kind \in UsesOf(u.kind)
           /\ \A w \in Worker : ~Idle(w) => Kinded(req[w])

(* No object names one of its own kind, and none names an inbound          *)
(* interconnection or a record.                                            *)
LEMMA UsesOfIs ==
  ASSUME NEW k \in Kinds
  PROVE  /\ k \notin UsesOf(k)
         /\ UsesOf(k) \cap (Records \cup {"in"}) = {}
         /\ k \in Records => UsesOf(k) = {"out", "table"}
         /\ k \in Leaves => UsesOf(k) = {}
         /\ k = "table" => UsesOf(k) = {"out"}
         /\ k # "in" => "preanswer" \notin UsesOf(k)
BY DEF UsesOf, Kinds, Leaves, Connections, Records, ConnectionUses

LEMMA KindsOfScope ==
  ASSUME TypeOK, NEW o \in scope
  PROVE  o.kind \in Kinds
BY ConfigAssumption DEF ConfigAssumption, TypeOK

(* What is known of a request from when its body is accepted, and after    *)
(* its checks.                                                             *)
NoneUses(n) == \A u \in scope : Existent(u) /\ u.kind # "compare" => n \notin store[u].uses
NoRecordOf(t) == \A r \in scope : r.kind \in Records /\ TableOf[r] = t => ~Existent(r)

Pending(q) ==
    /\ q.op # "update" => q.new = q.obj
    /\ \A x \in q.data.uses : Existent(x)
    /\ q.op = "delete" => q.pc = "ready"
    /\ q.pc = "put" => Renames(q) /\ Existent(q.new) /\ q.obj.kind \in Leaves
    /\ q.pc = "valid" => q.obj.kind \notin Leaves
    /\ q.obj.kind \in Records =>
          /\ q.new = q.obj
          /\ q.op # "delete" /\ TableOf[q.obj] \in scope => Existent(TableOf[q.obj])
    /\ q.obj.kind = "table" /\ q.pc = "ready" =>
          /\ q.new = q.obj
          /\ q.op = "create" => ~Existent(q.obj)
          /\ q.op = "update" => q.old = store[q.obj]
    /\ Unnames(q) /\ q.op = "delete" => eng[q.obj] = {} /\ NoRecordOf(q.obj)
    /\ Unnames(q) /\ Renames(q) /\ q.pc # "valid" =>
          /\ NoneUses(q.new)
          /\ q.pc = "put" \/ q.obj.kind \notin Leaves => q.users = eng[q.obj]

(* And of one about an inbound interconnection: it names one profile, and  *)
(* what the handler has read of the object is still so.                    *)
One(d) == \A x, y \in d.uses : x.kind = "sipprofile" /\ y.kind = "sipprofile" => x = y

InPending(q) ==
    q.obj.kind = "in" =>
      /\ One(q.data)
      /\ q.pc = "ready" =>
            /\ q.op = "create" => ~Existent(q.obj) /\ q.old = Blank
            /\ q.op # "create" => Existent(q.obj) /\ q.old = store[q.obj]
            /\ q.op = "delete" => q.data = Blank

-----------------------------------------------------------------------------
(* The steps of a request, whatever it is about.                           *)
Asks(w, q) ==
    /\ q \in Request(scope) /\ q.pc \in {"valid", "ready"}
    /\ Begin(w, q)
    /\ Kinded(q)
    /\ ReferencesExist => Pending(q)
    /\ InPending(q)
    /\ UNCHANGED <<scope, store, eng, farend>>

Checks(w) ==
    LET q == req[w] IN
    /\ ~Idle(w) /\ q.pc = "valid"
    /\ NameFree(q)
    /\ q.obj.kind = "table" => ~Renames(q)
    /\ req' = [req EXCEPT ![w] = Read(q)]
    /\ UNCHANGED <<scope, store, eng, farend>>

Puts(w) == \E k \in Leaves : PutLeaf(w, k)

Commits(w) ==
    /\ ~Idle(w)
    /\ IF req[w].obj.kind \in Leaves /\ req[w].op = "update"
       THEN req[w].pc = "put" ELSE req[w].pc = "ready"
    /\ Transact(w)
    /\ farend' \in [scope -> SUBSET Addr]
    /\ CASE req[w].obj.kind = "sipprofile" -> CommitProfile(w)
         [] req[w].obj.kind = "in" -> CommitInbound(w)
         [] OTHER -> farend' = farend

LEMMA AcceptType ==
  ASSUME TypeOK, NEW w \in Worker, NEW k \in Kinds \ Leaves,
         NEW kinds, NEW single, NEW navs, NEW addrs \in SUBSET Addr,
         kinds \cup navs \subseteq UsesOf(k), navs # {} => k = "table",
         Accept(w, k, kinds, single, navs, addrs)
  PROVE  LET q == req'[w] IN
         /\ q \in Request(scope) /\ q.pc = "valid" /\ q.op \in {"create", "update"}
         /\ Begin(w, q)
         /\ UNCHANGED <<scope, store, eng, farend>>
         /\ Kinded(q) /\ q.obj.kind = k
         /\ q.op # "update" => q.new = q.obj
         /\ \A x \in q.data.uses : Existent(x)
         /\ "sipprofile" \in single => One(q.data)
<1>1. PICK op \in {"create", "update"}, o \in Of(k), n \in Of(k),
           U \in SUBSET {x \in scope : x.kind \in kinds},
           V \in SUBSET {x \in scope : x.kind \in navs}, A \in SUBSET addrs :
           /\ op = "create" => n = o
           /\ \A x, y \in U : x.kind = y.kind /\ x.kind \in single => x = y
           /\ \A x \in U : Existent(x)
           /\ \A x, y \in V : x = y
           /\ A # {} => \E p \in U : p.kind = "sipprofile"
           /\ Begin(w, [pc |-> "valid", op |-> op, obj |-> o, new |-> n,
                        data |-> [uses |-> U, nav |-> V, addrs |-> A, whole |-> TRUE],
                        old |-> Blank, users |-> {}])
  BY DEF Accept
<1> DEFINE d == [uses |-> U, nav |-> V, addrs |-> A, whole |-> TRUE]
           q == [pc |-> "valid", op |-> op, obj |-> o, new |-> n,
                 data |-> d, old |-> Blank, users |-> {}]
<1>2. req'[w] = q
  BY <1>1 DEF Begin, TypeOK
<1>3. d \in Data(scope) /\ Blank \in Data(scope)
  BY BlankType DEF Data
<1>4. q \in Request(scope)
  BY <1>1, <1>3 DEF Request, Of
<1>5. Fits(k, d) /\ Fits(k, Blank)
  BY DEF Fits, Refs, Blank
<1>6. Kinded(q)
  BY <1>5 DEF Kinded, Of
<1>7. UNCHANGED <<scope, store, eng, farend>>
  BY DEF Accept
<1>8. "sipprofile" \in single => One(d)
  BY <1>1 DEF One
<1>9. QED
  BY <1>1, <1>2, <1>4, <1>6, <1>7, <1>8 DEF Of

LEMMA AcceptAsks ==
  ASSUME TypeOK, NEW w \in Worker, NEW k \in Kinds \ Leaves,
         NEW kinds, NEW single, NEW navs, NEW addrs \in SUBSET Addr,
         kinds \cup navs \subseteq UsesOf(k), navs # {} => k = "table",
         k = "in" => "sipprofile" \in single,
         Accept(w, k, kinds, single, navs, addrs),
         k \in Records => /\ ~Renames(req'[w])
                          /\ TableOf[req'[w].obj] \in scope => Existent(TableOf[req'[w].obj])
  PROVE  \E q : Asks(w, q)
<1> DEFINE q == req'[w]
<1>1. /\ q \in Request(scope) /\ q.pc = "valid" /\ q.op \in {"create", "update"}
      /\ Begin(w, q)
      /\ UNCHANGED <<scope, store, eng, farend>>
      /\ Kinded(q) /\ q.obj.kind = k
      /\ q.op # "update" => q.new = q.obj
      /\ \A x \in q.data.uses : Existent(x)
      /\ "sipprofile" \in single => One(q.data)
  BY AcceptType
<1>2. k \in Records => q.new = q.obj
  BY <1>1 DEF Renames
<1> HIDE DEF q
<1>3. Pending(q)
  BY <1>1, <1>2 DEF Pending, q
<1>4. InPending(q)
  BY <1>1 DEF InPending
<1>5. QED
  BY <1>1, <1>3, <1>4 DEF Asks

LEMMA AskLeafAsks ==
  ASSUME TypeOK, KindInv, NEW w \in Worker, NEW k \in Leaves, AskLeaf(w, k)
  PROVE  \E q : Asks(w, q)
<1>1. PICK op \in {"create", "update", "delete"}, o \in Of(k), n \in Of(k) :
         LET q == [pc |-> "ready", op |-> op, obj |-> o, new |-> n,
                   data |-> Blank, old |-> Blank, users |-> {}]
         IN  /\ op # "update" => n = o
             /\ NameFree(q)
             /\ op = "delete" => eng[o] = {}
             /\ Begin(w, q)
  BY DEF AskLeaf
<1> DEFINE q == [pc |-> "ready", op |-> op, obj |-> o, new |-> n,
                 data |-> Blank, old |-> Blank, users |-> {}]
<1>2. q \in Request(scope)
  BY <1>1, BlankType DEF Request, Of
<1>3. Kinded(q)
  BY DEF Kinded, Fits, Refs, Blank, Of
<1>4. k # "table" /\ k \notin Records
  BY DEF Leaves, Records
<1>5. ReferencesExist /\ Renames(q) => NoneUses(q.new)
  <2> SUFFICES ASSUME ReferencesExist, Renames(q), NEW u \in scope, Existent(u), u.kind # "compare"
               PROVE  n \notin store[u].uses
    BY DEF NoneUses
  <2>1. ~Existent(n)
    BY <1>1 DEF NameFree, Renames
  <2>2. QED
    BY <2>1 DEF ReferencesExist
<1>6. NoRecordOf(q.obj)
  <2>1. \A r \in scope : r.kind \in Records => TableOf[r].kind = "table"
    BY ConfigAssumption DEF ConfigAssumption, TypeOK
  <2>2. QED
    BY <1>4, <2>1 DEF NoRecordOf, Of
<1>7. ReferencesExist => Pending(q)
  BY <1>1, <1>4, <1>5, <1>6 DEF Pending, Of, Blank
<1>8. UNCHANGED <<scope, store, eng, farend>>
  BY DEF AskLeaf
<1>9. InPending(q)
  BY DEF InPending, Of, Leaves
<1>10. QED
  BY <1>1, <1>2, <1>3, <1>7, <1>8, <1>9 DEF Asks

LEMMA ReadIs ==
  ASSUME NEW q \in Request(scope)
  PROVE  Read(q) = [pc |-> "ready", op |-> q.op, obj |-> q.obj, new |-> q.new, data |-> q.data,
                    old |-> IF q.op = "create" THEN Blank ELSE store[q.obj],
                    users |-> eng[q.obj]]
<1> DEFINE s == IF q.op = "create" THEN Blank ELSE store[q.obj]
           u == eng[q.obj]
<1>1. Read(q) = [q EXCEPT !.pc = "ready", !.users = u, !.old = s]
  BY DEF Read
<1> HIDE DEF s, u
<1>2. Read(q) = [pc |-> "ready", op |-> q.op, obj |-> q.obj, new |-> q.new, data |-> q.data,
                 old |-> s, users |-> u]
  BY <1>1 DEF Request
<1>3. QED
  BY <1>2 DEF s, u

LEMMA RemoveType ==
  ASSUME TypeOK, KindInv, NEW w \in Worker, NEW k \in Kinds \ Leaves, Remove(w, k)
  PROVE  LET q == req'[w] IN
         /\ q \in Request(scope) /\ q.pc = "ready" /\ q.op = "delete"
         /\ Begin(w, q)
         /\ UNCHANGED <<scope, store, eng, farend>>
         /\ Kinded(q) /\ q.obj.kind = k /\ q.new = q.obj /\ q.data = Blank
         /\ eng[q.obj] = {} /\ Existent(q.obj) /\ q.old = store[q.obj]
<1>1. PICK o \in Of(k) :
         LET q == [pc |-> "ready", op |-> "delete", obj |-> o, new |-> o,
                   data |-> Blank, old |-> Blank, users |-> {}]
         IN  /\ Existent(o)
             /\ eng[o] = {}
             /\ Begin(w, Read(q))
  BY DEF Remove
<1> DEFINE q == [pc |-> "ready", op |-> "delete", obj |-> o, new |-> o,
                 data |-> Blank, old |-> store[o], users |-> {}]
<1>2. Begin(w, q)
  <2> DEFINE p == [pc |-> "ready", op |-> "delete", obj |-> o, new |-> o,
                   data |-> Blank, old |-> Blank, users |-> {}]
  <2>1. o \in scope /\ eng[o] = {}
    BY <1>1 DEF Of
  <2>2. p \in Request(scope)
    BY <2>1, BlankType DEF Request
  <2>3. Read(p) = [pc |-> "ready", op |-> p.op, obj |-> p.obj, new |-> p.new, data |-> p.data,
                   old |-> store[o], users |-> {}]
    BY <2>1, <2>2, ReadIs
  <2>4. Begin(w, Read(p))
    BY <1>1
  <2>5. QED
    BY <2>3, <2>4
<1>3. req'[w] = q
  BY <1>2 DEF Begin, TypeOK
<1>4. o \in scope /\ o.kind = k /\ store[o] \in Data(scope)
  BY <1>1 DEF Of, Existent, TypeOK
<1>5. q \in Request(scope)
  BY <1>4, BlankType DEF Request
<1>6. Fits(k, store[o]) /\ Fits(k, Blank)
  BY <1>1, <1>4 DEF KindInv, Fits, Refs, Blank
<1>7. UNCHANGED <<scope, store, eng, farend>>
  BY DEF Remove
<1>8. QED
  BY <1>1, <1>2, <1>3, <1>4, <1>5, <1>6, <1>7 DEF Kinded

LEMMA RemoveAsks ==
  ASSUME TypeOK, KindInv, NEW w \in Worker, NEW k \in Kinds \ Leaves, Remove(w, k),
         k = "table" => NoRecordOf(req'[w].obj)
  PROVE  \E q : Asks(w, q)
<1>1. PICK q : q = req'[w]
  OBVIOUS
<1>2. /\ q \in Request(scope) /\ q.pc = "ready" /\ q.op = "delete"
      /\ Begin(w, q)
      /\ UNCHANGED <<scope, store, eng, farend>>
      /\ Kinded(q) /\ q.obj.kind = k /\ q.new = q.obj /\ q.data = Blank
      /\ eng[q.obj] = {} /\ Existent(q.obj) /\ q.old = store[q.obj]
  BY <1>1, RemoveType
<1>3. NoRecordOf(q.obj)
  <2>1. \A r \in scope : r.kind \in Records => TableOf[r].kind = "table"
    BY ConfigAssumption DEF ConfigAssumption, TypeOK
  <2>2. QED
    BY <1>1, <1>2, <2>1 DEF NoRecordOf
<1>4. Pending(q)
  BY <1>2, <1>3 DEF Pending, Blank, Renames
<1>5. InPending(q)
  BY <1>2 DEF InPending, One, Blank
<1>6. QED
  BY <1>2, <1>4, <1>5 DEF Asks

LEMMA CheckChecks ==
  ASSUME NEW w \in Worker, NEW k, Check(w, k), k = "table" => ~Renames(req[w])
  PROVE  Checks(w)
BY DEF Check, Checks, Idle

LEMMA FarendProfile ==
  ASSUME TypeOK, NEW w \in Worker, CommitProfile(w)
  PROVE  farend' \in [scope -> SUBSET Addr]
<1>1. req[w] \in Request(scope)
  BY DEF CommitProfile, Commit, Idle, TypeOK
<1>2. {req[w].obj, req[w].new} \subseteq scope
  BY <1>1 DEF Request
<1>3. QED
  BY <1>2 DEF CommitProfile, TypeOK

LEMMA FarendInbound ==
  ASSUME TypeOK, NEW w \in Worker, CommitInbound(w)
  PROVE  farend' \in [scope -> SUBSET Addr]
<1> DEFINE q == req[w]
<1>1. q \in Request(scope)
  BY DEF CommitInbound, Commit, Idle, TypeOK
<1>2. NewAddrs(q) \subseteq Addr
  BY <1>1 DEF NewAddrs, Request, Data
<1>3. QED
  BY <1>2 DEF CommitInbound, TypeOK

(* Each step is one of these.                                              *)
LEMMA Steps ==
  ASSUME TypeOK, KindInv, Next
  PROVE  \E w \in Worker : \/ \E q : Asks(w, q)
                           \/ Checks(w) \/ Puts(w) \/ Commits(w) \/ Abandon(w)
<1>1. PICK w \in Worker :
           \/ \E k \in Leaves : Leaf(w, k)
           \/ SipProfile(w) \/ Outbound(w) \/ Inbound(w)
           \/ RoutingTable(w) \/ RoutingRecord(w)
           \/ Abandon(w)
  BY DEF Next, Leaves, NetAlias, Acl, PreanswerClass, MediaClass, CapacityClass,
         TranslationClass, ManipulationClass, Gateway
<1> DEFINE Step == \/ \E q : Asks(w, q)
                   \/ Checks(w) \/ Puts(w) \/ Commits(w) \/ Abandon(w)
<1>2. SUFFICES Step
  OBVIOUS
<1>3. /\ {"sipprofile", "out", "in", "table"} \cup Records \subseteq Kinds \ Leaves
      /\ {} \in SUBSET Addr /\ Addr \in SUBSET Addr
  BY DEF Kinds, Leaves, Connections, Records
<1>4. ASSUME NEW k \in Kinds \ Leaves, Commit(w, k), farend' \in [scope -> SUBSET Addr],
             CASE k = "sipprofile" -> CommitProfile(w)
               [] k = "in" -> CommitInbound(w)
               [] OTHER -> farend' = farend
      PROVE  Step
  BY <1>4 DEF Commit, Commits
<1>5. CASE \E k \in Leaves : Leaf(w, k)
  <2>1. PICK k \in Leaves : Leaf(w, k)
    BY <1>5
  <2>2. CASE AskLeaf(w, k)
    BY <2>2, AskLeafAsks
  <2>3. CASE PutLeaf(w, k)
    BY <2>3 DEF Puts
  <2>4. CASE FinishLeaf(w, k)
    BY <2>4 DEF FinishLeaf, Commits, Idle, TypeOK, Leaves
  <2>5. QED
    BY <2>1, <2>2, <2>3, <2>4 DEF Leaf
<1>6. CASE SipProfile(w)
  <2>1. {"netalias", "acl"} \cup {} \subseteq UsesOf("sipprofile")
    BY DEF UsesOf, Leaves, Records
  <2>2. AcceptProfile(w) => Step
    BY <1>3, <2>1, AcceptAsks DEF AcceptProfile, Records
  <2>3. Check(w, "sipprofile") => Step
    BY CheckChecks
  <2>4. Remove(w, "sipprofile") => Step
    BY <1>3, RemoveAsks
  <2>5. CommitProfile(w) => Step
    BY <1>3, <1>4, FarendProfile DEF CommitProfile
  <2>6. QED
    BY <1>6, <2>2, <2>3, <2>4, <2>5 DEF SipProfile
<1>7. CASE Outbound(w)
  <2>1. (ConnectionUses \cup {"gateway"}) \cup {} \subseteq UsesOf("out")
    BY DEF UsesOf, Leaves, Records
  <2>2. AcceptOutbound(w) => Step
    BY <1>3, <2>1, AcceptAsks DEF AcceptOutbound, Records
  <2>3. CheckOutbound(w) => Step
    BY CheckChecks DEF CheckOutbound
  <2>4. RemoveOutbound(w) => Step
    BY <1>3, RemoveAsks DEF RemoveOutbound
  <2>5. CommitOutbound(w) => Step
    BY <1>3, <1>4 DEF CommitOutbound, TypeOK
  <2>6. QED
    BY <1>7, <2>2, <2>3, <2>4, <2>5 DEF Outbound
<1>8. CASE Inbound(w)
  <2>1. (ConnectionUses \cup {"preanswer", "table"}) \cup {} \subseteq UsesOf("in")
    BY DEF UsesOf, Leaves, Records
  <2>2. AcceptInbound(w) => Step
    BY <1>3, <2>1, AcceptAsks DEF AcceptInbound, Records, OneOf
  <2>3. CheckInbound(w) => Step
    BY CheckChecks DEF CheckInbound
  <2>4. RemoveInbound(w) => Step
    BY <1>3, RemoveAsks DEF RemoveInbound
  <2>5. CommitInbound(w) => Step
    BY <1>3, <1>4, FarendInbound DEF CommitInbound
  <2>6. QED
    BY <1>8, <2>2, <2>3, <2>4, <2>5 DEF Inbound
<1>9. CASE RoutingTable(w)
  <2>1. {"out"} \cup {"out"} \subseteq UsesOf("table")
    BY DEF UsesOf, Leaves, Records
  <2>2. AcceptTable(w) => Step
    BY <1>3, <2>1, AcceptAsks DEF AcceptTable, Records
  <2>3. CheckTable(w) => Step
    BY CheckChecks DEF CheckTable
  <2>4. RemoveTable(w) => Step
    BY <1>3, RemoveAsks DEF RemoveTable, NoRecordOf
  <2>5. CommitTable(w) => Step
    BY <1>3, <1>4 DEF CommitTable, TypeOK
  <2>6. QED
    BY <1>9, <2>2, <2>3, <2>4, <2>5 DEF RoutingTable
<1>10. CASE RoutingRecord(w)
  <2>1. PICK k \in Records : \/ AcceptRecord(w, k) \/ Check(w, k)
                             \/ Remove(w, k) \/ CommitRecord(w, k)
    BY <1>10 DEF RoutingRecord
  <2>2. {"out", "table"} \cup {} \subseteq UsesOf(k) /\ k # "table"
    BY UsesOfIs, <1>3 DEF Records
  <2>3. AcceptRecord(w, k) => Step
    BY <1>3, <2>2, AcceptAsks DEF AcceptRecord, Records
  <2>4. Check(w, k) => Step
    BY <2>2, CheckChecks
  <2>5. Remove(w, k) => Step
    BY <1>3, <2>2, RemoveAsks
  <2>6. CommitRecord(w, k) => Step
    BY <1>3, <1>4 DEF CommitRecord, TypeOK, Records
  <2>7. QED
    BY <2>1, <2>3, <2>4, <2>5, <2>6
<1>11. QED
  BY <1>1, <1>5, <1>6, <1>7, <1>8, <1>9, <1>10

-----------------------------------------------------------------------------
(* The types, and what may be named by what.                               *)
LEMMA TypeCommit ==
  ASSUME TypeOK, NEW w \in Worker, Commits(w)
  PROVE  TypeOK'
BY TransactType DEF Commits, Idle, TypeOK

LEMMA TypeStep ==
  ASSUME TypeOK, KindInv, [Next]_vars
  PROVE  TypeOK'
<1>1. ASSUME NEW w \in Worker, NEW q, Asks(w, q)
      PROVE  TypeOK'
  BY <1>1 DEF Asks, Begin, TypeOK
<1>2. ASSUME NEW w \in Worker, Checks(w)
      PROVE  TypeOK'
  <2> DEFINE q == req[w]
  <2>1. q \in Request(scope) /\ q.obj \in scope
    BY <1>2 DEF Checks, Idle, TypeOK, Request
  <2>2. q.op # "create" => store[q.obj] \in Data(scope)
    BY <1>2, <2>1 DEF Checks, NameFree, Existent, TypeOK
  <2>3. Read(q) \in Request(scope)
    BY <2>1, <2>2, ReadIs, BlankType DEF Request, TypeOK
  <2>4. QED
    BY <1>2, <2>3 DEF Checks, TypeOK
<1>3. ASSUME NEW w \in Worker, Puts(w)
      PROVE  TypeOK'
  <2> DEFINE q == req[w]
             u == eng[q.obj]
  <2>1. PICK k \in Leaves : PutLeaf(w, k)
    BY <1>3 DEF Puts
  <2>2. q \in Request(scope) /\ q.obj \in scope /\ q.new \in scope
    BY <2>1 DEF PutLeaf, TypeOK, Request
  <2>3. [q EXCEPT !.pc = "put", !.users = u] \in Request(scope)
    <3>1. u \in SUBSET scope
      BY <2>2 DEF TypeOK
    <3> HIDE DEF u
    <3>2. QED
      BY <2>2, <3>1 DEF Request
  <2>4. req' \in [Worker -> Request(scope) \cup {None}]
    BY <2>1, <2>3 DEF PutLeaf, Done, TypeOK
  <2>5. store' \in [scope -> Data(scope) \cup {None}] /\ UNCHANGED <<scope, eng, farend>>
    BY <2>1, <2>2, BlankType DEF PutLeaf, TypeOK
  <2>6. QED
    BY <2>4, <2>5 DEF TypeOK
<1>4. ASSUME NEW w \in Worker, Commits(w)
      PROVE  TypeOK'
  BY <1>4, TypeCommit
<1>5. ASSUME NEW w \in Worker, Abandon(w)
      PROVE  TypeOK'
  BY <1>5 DEF Abandon, Done, TypeOK
<1>6. CASE UNCHANGED vars
  BY <1>6 DEF vars, TypeOK
<1>7. QED
  BY <1>1, <1>2, <1>3, <1>4, <1>5, <1>6, Steps

LEMMA MergedFits ==
  ASSUME TypeOK, KindInv, NEW q \in Request(scope), Kinded(q)
  PROVE  Fits(q.new.kind, Merged(q))
<1>1. q.data \in Data(scope) /\ q.new \in scope
  BY DEF Request
<1>2. CASE store[q.new] = None
  BY <1>2 DEF Merged, Kinded
<1>3. CASE store[q.new] # None
  <2>1. Fits(q.new.kind, store[q.new]) /\ Fits(q.new.kind, q.data) /\ store[q.new] \in Data(scope)
    BY <1>1, <1>3 DEF KindInv, Kinded, Existent, TypeOK
  <2> DEFINE U == q.data.uses \cup Left(q)
             V == IF q.data.nav = {} /\ q.old.nav = {} THEN store[q.new].nav ELSE q.data.nav
  <2>2. Merged(q).uses = U /\ Merged(q).nav = V
    <3>1. Merged(q) = [q.data EXCEPT !.uses = U, !.nav = V]
      BY <1>1, <1>3 DEF Merged, Data
    <3> HIDE DEF U, V
    <3>2. QED
      BY <1>1, <3>1 DEF Data
  <2>3. \A x \in U \cup V : x \in Refs(q.data) \cup Refs(store[q.new])
    BY DEF Left, Refs
  <2>4. QED
    BY <2>1, <2>2, <2>3 DEF Fits, Refs
<1>4. QED
  BY <1>2, <1>3

LEMMA RewrittenFits ==
  ASSUME TypeOK, KindInv, NEW u \in scope, NEW o \in scope, NEW n \in scope,
         o.kind \in UsesOf(u.kind), n.kind = o.kind, Rewritten(u, o, n) # None
  PROVE  Fits(u.kind, Rewritten(u, o, n))
<1> DEFINE d == store[u]
<1>1. CASE d = None
  <2>1. Rewritten(u, o, n) = [Blank EXCEPT !.uses = {n}, !.whole = FALSE]
    BY <1>1 DEF Rewritten
  <2>2. QED
    BY <2>1 DEF Blank, Fits, Refs
<1>2. CASE d # None
  <2>1. d \in Data(scope) /\ Fits(u.kind, d)
    BY <1>2 DEF TypeOK, KindInv, Existent
  <2> DEFINE U == {x \in d.uses : x.kind # o.kind} \cup {n}
             V == Swap(d.uses, o, n)
             W == Swap(d.nav, o, n)
  <2>2. Rewritten(u, o, n) \in {d, [d EXCEPT !.uses = U], [d EXCEPT !.uses = V, !.nav = W]}
    BY <1>2, <2>1 DEF Rewritten, Data
  <2>3. /\ \A x \in U \cup V \cup W : x.kind \in UsesOf(u.kind)
        /\ W # {} => u.kind = "table"
    BY <2>1 DEF Fits, Refs, Swap
  <2> HIDE DEF U, V, W
  <2>4. QED
    BY <2>1, <2>2, <2>3 DEF Fits, Refs, Data
<1>3. QED
  BY <1>1, <1>2

LEMMA KindCommit ==
  ASSUME TypeOK, KindInv, NEW w \in Worker, Commits(w)
  PROVE  KindInv'
<1> DEFINE q == req[w]
           e == Engaged(q)
<1>1. q \in Request(scope) /\ {q.obj, q.new} \subseteq scope /\ q.users \subseteq scope /\ Kinded(q)
  BY DEF Commits, Idle, TypeOK, Request, KindInv
<1>2. store' = StoreAfter(q) /\ eng' = EngAfter(q) /\ scope' = scope
      /\ req' = [req EXCEPT ![w] = None]
  BY DEF Commits, Transact, Done
<1>3. ASSUME NEW o \in scope, store'[o] # None
      PROVE  Fits(o.kind, store'[o])
  <2>1. store'[o] \in {store[o]} \/ (o = q.new /\ store'[o] = Merged(q))
        \/ (o \in q.users /\ store'[o] = Rewritten(o, q.obj, q.new))
    BY <1>2, <1>3 DEF StoreAfter
  <2>2. CASE store'[o] = store[o]
    BY <1>3, <2>2 DEF KindInv, Existent
  <2>3. CASE o = q.new /\ store'[o] = Merged(q)
    BY <1>1, <2>3, MergedFits
  <2>4. CASE o \in q.users /\ store'[o] = Rewritten(o, q.obj, q.new)
    BY <1>1, <1>3, <2>4, RewrittenFits DEF Kinded
  <2>5. QED
    BY <2>1, <2>2, <2>3, <2>4
<1>4. \A o \in scope : \A u \in e[o] : o.kind \in UsesOf(u.kind)
  BY <1>1 DEF Engaged, KindInv, Kinded, Fits
<1>5. e \in [scope -> SUBSET scope]
  BY <1>1 DEF Engaged, TypeOK
<1>6. ASSUME NEW o \in scope
      PROVE  EngAfter(q)[o] \in {e[o], {}} \/ (o = q.new /\ EngAfter(q)[o] = e[q.obj])
  <2> HIDE DEF e
  <2>1. EngAfter(q) \in {e, [e EXCEPT ![q.new] = e[q.obj], ![q.obj] = {}], [e EXCEPT ![q.obj] = {}]}
    BY DEF EngAfter, e
  <2>2. QED
    BY <1>1, <1>5, <2>1
<1>7. \A o \in scope : \A u \in eng'[o] : o.kind \in UsesOf(u.kind)
  BY <1>1, <1>2, <1>4, <1>6 DEF Kinded
<1>8. QED
  BY <1>2, <1>3, <1>7 DEF TypeOK, KindInv, Idle, Existent

LEMMA KindStep ==
  ASSUME TypeOK, KindInv, [Next]_vars
  PROVE  KindInv'
<1>1. ASSUME NEW w \in Worker, NEW q, Asks(w, q)
      PROVE  KindInv'
  BY <1>1 DEF Asks, Begin, TypeOK, KindInv, Idle, Existent
<1>2. ASSUME NEW w \in Worker, Checks(w)
      PROVE  KindInv'
  <2> DEFINE q == req[w]
  <2>1. q \in Request(scope) /\ q.obj \in scope /\ Kinded(q)
    BY <1>2 DEF Checks, Idle, TypeOK, Request, KindInv
  <2>2. q.op # "create" => Fits(q.obj.kind, store[q.obj])
    BY <1>2, <2>1 DEF Checks, NameFree, KindInv
  <2>3. Kinded(Read(q))
    <3>1. Fits(q.obj.kind, Blank)
      BY DEF Fits, Refs, Blank
    <3>2. \A u \in eng[q.obj] : q.obj.kind \in UsesOf(u.kind)
      BY <2>1 DEF KindInv
    <3>3. QED
      BY <2>1, <2>2, <3>1, <3>2, ReadIs DEF Kinded
  <2>4. QED
    BY <1>2, <2>3 DEF Checks, TypeOK, KindInv, Idle, Existent
<1>3. ASSUME NEW w \in Worker, Puts(w)
      PROVE  KindInv'
  <2> DEFINE q == req[w]
             u == eng[q.obj]
             p == [q EXCEPT !.pc = "put", !.users = u]
  <2>1. PICK k \in Leaves : PutLeaf(w, k)
    BY <1>3 DEF Puts
  <2>2. q \in Request(scope) /\ q.obj \in scope /\ q.new \in scope /\ Kinded(q)
    BY <2>1 DEF PutLeaf, TypeOK, Request, KindInv, Idle
  <2>3. Kinded(p)
    <3>1. \A v \in u : q.obj.kind \in UsesOf(v.kind)
      BY <2>2 DEF KindInv
    <3> HIDE DEF u
    <3>2. p.obj = q.obj /\ p.new = q.new /\ p.data = q.data /\ p.old = q.old /\ p.users = u
      BY <2>2 DEF Request
    <3>3. QED
      BY <2>2, <3>1, <3>2 DEF Kinded
  <2>4. req' = [req EXCEPT ![w] = p] \/ req' = [req EXCEPT ![w] = None]
    BY <2>1 DEF PutLeaf, Done
  <2> HIDE DEF p
  <2>5. \A v \in Worker : req'[v] # None => Kinded(req'[v])
    BY <2>3, <2>4 DEF TypeOK, KindInv, Idle
  <2>6. Fits(q.new.kind, Blank) /\ store' = [store EXCEPT ![q.new] = Blank]
        /\ UNCHANGED <<scope, eng>>
    BY <2>1 DEF Fits, Refs, Blank, PutLeaf
  <2>7. QED
    BY <2>2, <2>5, <2>6 DEF TypeOK, KindInv, Idle, Existent
<1>4. ASSUME NEW w \in Worker, Commits(w)
      PROVE  KindInv'
  BY <1>4, KindCommit
<1>5. ASSUME NEW w \in Worker, Abandon(w)
      PROVE  KindInv'
  BY <1>5 DEF Abandon, Done, TypeOK, KindInv, Idle, Existent
<1>6. CASE UNCHANGED vars
  BY <1>6 DEF vars, KindInv, Idle, Existent
<1>7. QED
  BY <1>1, <1>2, <1>3, <1>4, <1>5, <1>6, Steps

(* What is stored, engaged and asked for keeps its type, whatever requests *)
(* do at the same time.                                                    *)
THEOREM TypeCorrect == Spec => []TypeOK
<1>1. Init => TypeOK
  BY NoneIsNone DEF Init, TypeOK
<1>2. Init => KindInv
  BY DEF Init, KindInv, Existent, Idle
<1>3. TypeOK /\ KindInv /\ [Next]_vars => (TypeOK /\ KindInv)'
  BY TypeStep, KindStep
<1>4. QED
  BY <1>1, <1>2, <1>3, PTL DEF Spec

-----------------------------------------------------------------------------
(* Requests that do not contend.                                           *)
Alone == \A v, w \in Worker :
            v # w /\ ~Idle(v) /\ ~Idle(w) => ~Contend(req[v], req[w])

PendInv == \A w \in Worker : ~Idle(w) => Pending(req[w])

LEMMA ContendSame ==
  ASSUME NEW p, NEW q, NEW r,
         p.op = q.op, p.obj = q.obj, p.new = q.new, ~Contend(q, r)
  PROVE  ~Contend(p, r) /\ ~Contend(r, p)
BY DEF Contend, Unnames, Renames

LEMMA AloneStep ==
  ASSUME TypeOK, KindInv, Careful, Alone, [Next]_vars
  PROVE  Alone'
<1>1. ASSUME NEW w \in Worker, NEW p, req' = [req EXCEPT ![w] = p], scope' = scope,
             p # None => \A v \in Worker \ {w} : ~Idle(v) => ~Contend(p, req[v])
      PROVE  Alone'
  <2> SUFFICES ASSUME NEW u \in Worker, NEW v \in Worker, u # v, req'[u] # None, req'[v] # None
               PROVE  ~Contend(req[u], req[v])'
    BY DEF Alone, Idle
  <2>1. ~Contend(req'[u], req'[v])
    <3>1. CASE u = w
      BY <1>1, <3>1 DEF TypeOK, Idle
    <3>2. CASE v = w
      BY <1>1, <3>2, ContendSame DEF TypeOK, Idle
    <3>3. CASE u # w /\ v # w
      BY <1>1, <3>3 DEF TypeOK, Idle, Alone
    <3>4. QED
      BY <3>1, <3>2, <3>3
  <2>2. QED
    BY <1>1, <2>1 DEF Contend, Unnames, Renames, Of
<1>2. ASSUME NEW w \in Worker, NEW q, Asks(w, q)
      PROVE  Alone'
  BY <1>1, <1>2 DEF Asks, Begin
<1>3. ASSUME NEW w \in Worker, Checks(w)
      PROVE  Alone'
  <2> DEFINE q == req[w]
  <2>1. q \in Request(scope) /\ ~Idle(w)
    BY <1>3 DEF Checks, Idle, TypeOK
  <2>2. Read(q).op = q.op /\ Read(q).obj = q.obj /\ Read(q).new = q.new
    BY <2>1, ReadIs
  <2>3. \A v \in Worker \ {w} : ~Idle(v) => ~Contend(Read(q), req[v])
    BY <2>1, <2>2, ContendSame DEF Alone
  <2>4. QED
    BY <1>1, <1>3, <2>3 DEF Checks
<1>4. ASSUME NEW w \in Worker, Puts(w)
      PROVE  Alone'
  <2> DEFINE q == req[w]
             p == [q EXCEPT !.pc = "put", !.users = eng[q.obj]]
  <2>1. PICK k \in Leaves : PutLeaf(w, k)
    BY <1>4 DEF Puts
  <2>2. q \in Request(scope) /\ ~Idle(w)
    BY <2>1 DEF PutLeaf, TypeOK, Idle
  <2>3. p.op = q.op /\ p.obj = q.obj /\ p.new = q.new
    BY <2>2 DEF Request
  <2>4. (req' = [req EXCEPT ![w] = p] \/ req' = [req EXCEPT ![w] = None]) /\ scope' = scope
    BY <2>1 DEF PutLeaf, Done
  <2> HIDE DEF p
  <2>5. \A v \in Worker \ {w} : ~Idle(v) => ~Contend(p, req[v])
    BY <2>2, <2>3, ContendSame DEF Alone
  <2>6. QED
    BY <1>1, <2>4, <2>5
<1>5. ASSUME NEW w \in Worker, Commits(w) \/ Abandon(w)
      PROVE  Alone'
  BY <1>1, <1>5 DEF Commits, Transact, Abandon, Done
<1>6. CASE UNCHANGED vars
  BY <1>6 DEF vars, Alone, Idle, Contend, Unnames, Renames, Of
<1>7. QED
  BY <1>2, <1>3, <1>4, <1>5, <1>6, Steps

-----------------------------------------------------------------------------
(* What a transaction does to an object.                                   *)
LEMMA UnnamesUsers ==
  ASSUME TypeOK, NEW q \in Request(scope), Kinded(q), NEW u \in scope,
         q.obj.kind \in UsesOf(u.kind), q.op = "delete" \/ Renames(q)
  PROVE  Unnames(q)
BY UsesOfIs, KindsOfScope DEF Unnames

LEMMA StoredAfter ==
  ASSUME TypeOK, KindInv, NEW w \in Worker, Commits(w), Pending(req[w])
  PROVE  LET q == req[w] IN
         /\ q \in Request(scope) /\ {q.obj, q.new} \subseteq scope /\ q.users \subseteq scope
         /\ Kinded(q) /\ scope' = scope /\ q.pc \in {"ready", "put"}
         /\ q.obj.kind \in Leaves /\ q.op = "update" <=> q.pc = "put"
         /\ \A o \in scope : store'[o] = StoreAfter(q)[o]
         /\ \A o \in scope : eng'[o] = EngAfter(q)[o]
         /\ \A v \in Worker : req'[v] = IF v = w THEN None ELSE req[v]
<1> DEFINE q == req[w]
<1>1. q \in Request(scope) /\ {q.obj, q.new} \subseteq scope /\ q.users \subseteq scope /\ Kinded(q)
  BY DEF Commits, Idle, TypeOK, Request, KindInv
<1>2. store' = StoreAfter(q) /\ eng' = EngAfter(q) /\ scope' = scope
      /\ req' = [req EXCEPT ![w] = None]
  BY DEF Commits, Transact, Done
<1>3. q.pc \in {"ready", "put"} /\ (q.obj.kind \in Leaves /\ q.op = "update" <=> q.pc = "put")
  BY DEF Commits, Pending, Renames
<1>4. QED
  BY <1>1, <1>2, <1>3 DEF TypeOK

(* What is there stays, but for an object that is deleted or renamed.      *)
LEMMA StillThere ==
  ASSUME TypeOK, KindInv, NEW w \in Worker, Commits(w), Pending(req[w]), NEW x \in scope,
         \/ Existent(x) /\ ~(x = req[w].obj /\ (req[w].op = "delete" \/ Renames(req[w])))
         \/ x = req[w].new /\ req[w].op # "delete"
  PROVE  store'[x] # None
<1> DEFINE q == req[w]
<1>1. q \in Request(scope) /\ {q.obj, q.new} \subseteq scope /\ q.users \subseteq scope
      /\ store'[x] = StoreAfter(q)[x]
      /\ (q.obj.kind \in Leaves /\ q.op = "update" <=> q.pc = "put")
      /\ Kinded(q)
  BY StoredAfter
<1>2. Merged(q) # None
  BY <1>1, MergedType, NoneIsNone DEF TypeOK
<1>3. CASE x = q.new /\ q.op # "delete"
  BY <1>1, <1>2, <1>3 DEF StoreAfter, Pending, Kinded, Existent
<1>4. CASE Existent(x) /\ ~(x = q.new /\ q.op # "delete")
  <2>1. x # q.obj
    BY <1>1, <1>4 DEF Pending, Renames, Request
  <2>2. CASE x \in q.users /\ Renames(q)
    <3>1. store'[x] = Rewritten(x, q.obj, q.new)
      BY <1>1, <1>4, <2>1, <2>2 DEF StoreAfter
    <3>2. store[x] # None /\ store[x] \in Data(scope)
      BY <1>4 DEF Existent, TypeOK
    <3> DEFINE d == store[x]
               U == {y \in d.uses : y.kind # q.obj.kind} \cup {q.new}
               V == Swap(d.uses, q.obj, q.new)
               W == Swap(d.nav, q.obj, q.new)
    <3>3. Rewritten(x, q.obj, q.new) \in {d, [d EXCEPT !.uses = U], [d EXCEPT !.uses = V, !.nav = W]}
      BY <3>2 DEF Rewritten, Data
    <3>4. {U, V, W} \subseteq SUBSET scope
      BY <1>1, <3>2 DEF Data, Swap
    <3> HIDE DEF U, V, W
    <3>5. Rewritten(x, q.obj, q.new) \in Data(scope)
      BY <3>2, <3>3, <3>4 DEF Data
    <3>6. QED
      BY <3>1, <3>5, NoneIsNone DEF TypeOK
  <2>3. CASE ~(x \in q.users /\ Renames(q))
    BY <1>1, <1>4, <2>1, <2>3 DEF StoreAfter, Existent
  <2>4. QED
    BY <2>2, <2>3
<1>5. QED
  BY <1>3, <1>4

-----------------------------------------------------------------------------
(* What is known of a request stays true until it is done.                 *)
LEMMA PendingSame ==
  ASSUME UNCHANGED <<scope, store, eng>>, NEW r, Pending(r)
  PROVE  Pending(r)'
BY DEF Pending, Existent, NoRecordOf, NoneUses, Unnames, Renames

LEMMA PendingChecked ==
  ASSUME TypeOK, KindInv, ReferencesExist, NEW q \in Request(scope), Pending(q),
         q.pc = "valid", NameFree(q), q.obj.kind = "table" => ~Renames(q)
  PROVE  Pending(Read(q))
<1> DEFINE p == Read(q)
<1>1. /\ p.pc = "ready" /\ p.op = q.op /\ p.obj = q.obj /\ p.new = q.new /\ p.data = q.data
      /\ p.users = eng[q.obj]
      /\ p.old = IF q.op = "create" THEN Blank ELSE store[q.obj]
  BY ReadIs
<1>2. q.op # "delete" /\ q.op \in {"create", "update"} /\ q.obj.kind \notin Leaves
  BY DEF Pending, Request
<1>3. (Unnames(p) <=> Unnames(q)) /\ (Renames(p) <=> Renames(q))
  BY <1>1 DEF Unnames, Renames
<1>4. Renames(q) => NoneUses(q.new)
  <2> SUFFICES ASSUME Renames(q), NEW u \in scope, Existent(u), u.kind # "compare"
               PROVE  q.new \notin store[u].uses
    BY DEF NoneUses
  <2>1. ~Existent(q.new)
    BY DEF NameFree, Renames
  <2>2. QED
    BY <2>1 DEF ReferencesExist
<1> HIDE DEF p
<1>5. q.obj.kind = "table" => q.new = q.obj
  BY <1>2 DEF Pending, Renames
<1>6. q.op = "create" => ~Existent(q.new)
  BY DEF NameFree
<1>7. Pending(p)
  BY <1>1, <1>2, <1>3, <1>4, <1>5, <1>6 DEF Pending
<1>8. QED
  BY <1>7 DEF p

LEMMA PutFrame ==
  ASSUME TypeOK, KindInv, NEW w \in Worker, Puts(w)
  PROVE  LET q == req[w] IN
         /\ q \in Request(scope) /\ {q.obj, q.new} \subseteq scope /\ Kinded(q)
         /\ q.obj.kind \in Leaves /\ q.op = "update" /\ q.pc = "ready"
         /\ UNCHANGED <<scope, eng, farend>>
         /\ \A x \in scope : store'[x] = IF x = q.new THEN Blank ELSE store[x]
         /\ Blank # None
         /\ \A v \in Worker \ {w} : req'[v] = req[v]
         /\ req'[w] # None =>
               /\ Renames(q)
               /\ req'[w].pc = "put" /\ req'[w].op = q.op /\ req'[w].obj = q.obj
               /\ req'[w].new = q.new /\ req'[w].data = q.data /\ req'[w].users = eng[q.obj]
<1> DEFINE q == req[w]
           u == eng[q.obj]
           p == [q EXCEPT !.pc = "put", !.users = u]
<1>1. PICK k \in Leaves : PutLeaf(w, k)
  BY DEF Puts
<1>2. /\ q \in Request(scope) /\ {q.obj, q.new} \subseteq scope /\ Kinded(q)
      /\ q.obj.kind \in Leaves /\ q.op = "update" /\ q.pc = "ready"
  BY <1>1 DEF PutLeaf, TypeOK, Request, KindInv, Idle
<1>3. UNCHANGED <<scope, eng, farend>> /\ store' = [store EXCEPT ![q.new] = Blank]
  BY <1>1 DEF PutLeaf
<1>4. \/ Renames(q) /\ req' = [req EXCEPT ![w] = p]
      \/ req' = [req EXCEPT ![w] = None]
  BY <1>1 DEF PutLeaf, Done
<1>5. p.pc = "put" /\ p.op = q.op /\ p.obj = q.obj /\ p.new = q.new /\ p.data = q.data /\ p.users = u
  <2> HIDE DEF u
  <2>1. QED
    BY <1>2 DEF Request
<1> HIDE DEF p
<1>6. Blank # None
  BY BlankType, NoneIsNone DEF TypeOK
<1>7. QED
  BY <1>2, <1>3, <1>4, <1>5, <1>6 DEF TypeOK

LEMMA PendingPut ==
  ASSUME TypeOK, KindInv, PendInv, NEW w \in Worker, Puts(w)
  PROVE  PendInv'
<1> PICK q : q = req[w]
  OBVIOUS
<1>1. /\ q \in Request(scope) /\ {q.obj, q.new} \subseteq scope /\ Kinded(q)
      /\ q.obj.kind \in Leaves /\ q.op = "update" /\ q.pc = "ready"
      /\ UNCHANGED <<scope, eng, farend>>
      /\ \A x \in scope : store'[x] = IF x = q.new THEN Blank ELSE store[x]
      /\ Blank # None
      /\ \A v \in Worker \ {w} : req'[v] = req[v]
      /\ req'[w] # None =>
            /\ Renames(q)
            /\ req'[w].pc = "put" /\ req'[w].op = q.op /\ req'[w].obj = q.obj
            /\ req'[w].new = q.new /\ req'[w].data = q.data /\ req'[w].users = eng[q.obj]
  BY PutFrame
<1>2. q.new.kind \in Leaves
  BY <1>1 DEF Kinded
<1>3. \A x \in scope : Existent(x) => Existent(x)'
  BY <1>1 DEF Existent
<1>4. \A n \in scope : NoneUses(n) => NoneUses(n)'
  BY <1>1 DEF NoneUses, Existent, Blank
<1>5. \A t \in scope : NoRecordOf(t) => NoRecordOf(t)'
  BY <1>1, <1>2 DEF NoRecordOf, Existent, Leaves, Records
<1>6. ASSUME NEW r \in Request(scope), Pending(r)
      PROVE  Pending(r)'
  <2>1. {r.obj, r.new} \subseteq scope /\ r.data.uses \subseteq scope
    BY <1>6 DEF Request, Data
  <2>2. r.obj.kind = "table" => store'[r.obj] = store[r.obj]
    BY <1>1, <1>2, <2>1 DEF Leaves
  <2>3. r.obj.kind = "table" => (Existent(r.obj)' <=> Existent(r.obj))
    BY <2>2 DEF Existent
  <2>4. QED
    BY <1>1, <1>3, <1>4, <1>5, <1>6, <2>1, <2>2, <2>3 DEF Pending, Unnames, Renames
<1>7. \A v \in Worker \ {w} : req'[v] # None => Pending(req[v])'
  BY <1>1, <1>6 DEF PendInv, Idle, TypeOK
<1>8. ASSUME req'[w] # None
      PROVE  Pending(req[w])'
  <2>1. q # None /\ Pending(q) /\ q.data.uses \subseteq scope
    BY <1>1, NoneIsNone DEF PendInv, Idle, TypeOK, Request, Data
  <2>2. q.obj.kind \notin Records \cup {"in", "table"}
    BY <1>1 DEF Leaves, Records
  <2>3. Renames(q) /\ Unnames(q)
    BY <1>1, <1>8, <2>2 DEF Unnames
  <2>4. NoneUses(q.new)'
    BY <1>1, <1>4, <2>1, <2>3 DEF Pending
  <2>5. \A x \in q.data.uses : Existent(x)'
    BY <1>3, <2>1 DEF Pending
  <2>6. Existent(q.new)'
    BY <1>1 DEF Existent
  <2>7. QED
    BY <1>1, <1>8, <2>2, <2>4, <2>5, <2>6 DEF Pending, Renames
<1>9. QED
  BY <1>7, <1>8 DEF PendInv, Idle

LEMMA PendingCommit ==
  ASSUME TypeOK, KindInv, Alone, PendInv, NEW w \in Worker, Commits(w)
  PROVE  PendInv'
<1> PICK q : q = req[w]
  OBVIOUS
<1>1. q # None /\ Pending(q)
  BY DEF Commits, Idle, PendInv
<1>2. /\ q \in Request(scope) /\ {q.obj, q.new} \subseteq scope /\ q.users \subseteq scope
      /\ Kinded(q) /\ scope' = scope /\ q.pc \in {"ready", "put"}
      /\ \A o \in scope : store'[o] = StoreAfter(q)[o]
      /\ \A v \in Worker : req'[v] = IF v = w THEN None ELSE req[v]
  BY <1>1, StoredAfter
<1>3. ASSUME NEW v \in Worker, v # w, NEW r, r = req[v], r # None
      PROVE  Pending(r)'
  <2>1. r \in Request(scope) /\ {r.obj, r.new} \subseteq scope /\ r.data \in Data(scope)
        /\ Pending(r) /\ Kinded(r) /\ req'[v] = r
    BY <1>2, <1>3 DEF TypeOK, Request, PendInv, KindInv, Idle
  <2>2. ~Contend(r, q) /\ ~Unnames(q) /\ ~Unnames(r)
    BY <1>1, <1>3 DEF Alone, Idle, Contend
  <2>3. q.op = "delete" \/ Renames(q) => q.obj.kind \in Records \cup {"in"}
    BY <2>2 DEF Unnames
  <2>4. ASSUME NEW x \in scope, Existent(x), x.kind \notin Records \cup {"in"}
        PROVE  Existent(x)'
    BY <1>1, <2>3, <2>4, StillThere DEF Existent
  <2>5. \A x \in r.data.uses : Existent(x)'
    <3>1. ASSUME NEW x \in r.data.uses
          PROVE  Existent(x) /\ x \in scope /\ x.kind \notin Records \cup {"in"}
      <4>1. x \in scope /\ Existent(x) /\ x.kind \in UsesOf(r.obj.kind)
        BY <2>1 DEF Data, Pending, Kinded, Fits, Refs
      <4>2. QED
        BY <2>1, <4>1, UsesOfIs, KindsOfScope
    <3>2. QED
      BY <2>4, <3>1
  <2>6. r.pc # "put"
    BY <2>1, <2>2 DEF Pending, Unnames, Leaves, Records
  <2>7. r.obj.kind \in Records =>
           /\ r.new = r.obj
           /\ r.op # "delete" /\ TableOf[r.obj] \in scope => Existent(TableOf[r.obj])'
    <3>1. r.obj.kind \in Records => TableOf[r.obj].kind = "table"
      BY <2>1, ConfigAssumption DEF ConfigAssumption, TypeOK
    <3>2. QED
      BY <2>1, <2>4, <3>1 DEF Pending, Records
  <2>8. ASSUME r.obj.kind = "table", r.pc = "ready"
         PROVE  store'[r.obj] = store[r.obj]
    <3>1. q.obj # r.obj
      BY <2>2, <2>8 DEF Contend
    <3>2. q.new # r.obj
      <4>1. CASE q.obj.kind = "table"
        BY <1>1, <1>2, <3>1, <4>1 DEF Pending, Leaves
      <4>2. CASE q.obj.kind # "table"
        BY <1>2, <2>8, <4>2 DEF Kinded
      <4>3. QED
        BY <4>1, <4>2
    <3>3. ~(r.obj \in q.users /\ Renames(q))
      BY <1>2, <2>1, <2>2, UnnamesUsers DEF Kinded
    <3>4. QED
      BY <1>2, <2>1, <3>1, <3>2, <3>3 DEF StoreAfter
  <2>9. r.obj.kind = "table" /\ r.pc = "ready" => (Existent(r.obj)' <=> Existent(r.obj))
    BY <2>8 DEF Existent
  <2>10. Pending(r)'
    <3>1. r.obj.kind = "table" /\ r.pc = "ready" =>
             /\ r.new = r.obj
             /\ r.op = "create" => ~Existent(r.obj)'
             /\ r.op = "update" => r.old = store'[r.obj]
      BY <2>1, <2>8, <2>9 DEF Pending
    <3>2. /\ r.op # "update" => r.new = r.obj
          /\ r.op = "delete" => r.pc = "ready"
          /\ r.pc = "valid" => r.obj.kind \notin Leaves
      BY <2>1 DEF Pending
    <3>3. QED
      BY <1>2, <2>2, <2>5, <2>6, <2>7, <3>1, <3>2 DEF Pending
  <2>11. QED
    BY <2>10
<1>4. QED
  BY <1>2, <1>3 DEF PendInv, Idle

LEMMA PendStep ==
  ASSUME TypeOK, KindInv, Alone, PendInv, ReferencesExist, [Next]_vars
  PROVE  PendInv'
<1>1. ASSUME NEW w \in Worker, NEW q, Asks(w, q)
      PROVE  PendInv'
  BY <1>1, PendingSame DEF Asks, Begin, TypeOK, PendInv, Idle
<1>2. ASSUME NEW w \in Worker, Checks(w)
      PROVE  PendInv'
  <2> DEFINE q == req[w]
  <2>1. q \in Request(scope) /\ Pending(q)
    BY <1>2 DEF Checks, Idle, TypeOK, PendInv
  <2>2. Pending(Read(q))
    BY <1>2, <2>1, PendingChecked DEF Checks
  <2>3. QED
    BY <1>2, <2>2, PendingSame DEF Checks, TypeOK, PendInv, Idle
<1>3. ASSUME NEW w \in Worker, Puts(w)
      PROVE  PendInv'
  BY <1>3, PendingPut
<1>4. ASSUME NEW w \in Worker, Commits(w)
      PROVE  PendInv'
  BY <1>4, PendingCommit
<1>5. ASSUME NEW w \in Worker, Abandon(w)
      PROVE  PendInv'
  BY <1>5, PendingSame DEF Abandon, Done, TypeOK, PendInv, Idle
<1>6. CASE UNCHANGED vars
  BY <1>6, PendingSame DEF vars, PendInv, Idle
<1>7. QED
  BY <1>1, <1>2, <1>3, <1>4, <1>5, <1>6, Steps

-----------------------------------------------------------------------------
(* What an object that is there after a transaction names: it is the       *)
(* object of the request (1), a user that has been rewritten (2), or it is *)
(* as it was (3).                                                          *)
OldUse(u, x) == Existent(u) /\ x \in store[u].uses

LEMMA NewUses ==
  ASSUME TypeOK, KindInv, NEW w \in Worker, Commits(w), NEW q, q = req[w], Pending(q),
         NEW u \in scope, store'[u] # None, NEW x \in store'[u].uses
  PROVE  /\ x \in scope /\ x.kind \in UsesOf(u.kind)
         /\ \/ /\ u = q.new /\ q.op # "delete" /\ x \notin {q.obj, q.new}
               /\ \/ x \in q.data.uses
                  \/ OldUse(u, x) /\ (q.obj = q.new => x \notin Refs(q.old))
            \/ /\ u \in q.users /\ Renames(q) /\ u \notin {q.obj, q.new}
               /\ x = q.new \/ (OldUse(u, x) /\ (x = q.obj => u.kind = "compare"))
               /\ Existent(u) \/ Blind(q.obj.kind)
            \/ /\ u \notin {q.obj, q.new} /\ ~(u \in q.users /\ Renames(q))
               /\ OldUse(u, x)
<1>1. /\ q \in Request(scope) /\ {q.obj, q.new} \subseteq scope /\ q.users \subseteq scope
      /\ Kinded(q) /\ q.pc \in {"ready", "put"}
      /\ q.obj.kind \in Leaves /\ q.op = "update" <=> q.pc = "put"
      /\ store'[u] = StoreAfter(q)[u]
      /\ q.data \in Data(scope)
  BY StoredAfter DEF Request
<1>2. TypeOK' /\ KindInv'
  BY TypeCommit, KindCommit
<1>3. x \in scope /\ x.kind \in UsesOf(u.kind)
  <2>1. scope' = scope
    BY StoredAfter
  <2>2. QED
    BY <1>2, <2>1 DEF TypeOK, KindInv, Existent, Data, Fits, Refs
<1>4. CASE u = q.new /\ q.op # "delete"
  <2>1. x \notin {q.obj, q.new}
    BY <1>1, <1>3, <1>4, UsesOfIs, KindsOfScope DEF Kinded
  <2>2. CASE q.op = "update" /\ u.kind \in Leaves
    BY <1>3, <2>2, UsesOfIs, KindsOfScope
  <2>3. CASE ~(q.op = "update" /\ u.kind \in Leaves)
    <3>1. store'[u] = Merged(q)
      BY <1>1, <1>4, <2>3 DEF StoreAfter
    <3>2. CASE store[u] = None
      BY <1>3, <1>4, <2>1, <3>1, <3>2 DEF Merged
    <3>3. CASE store[u] # None
      <4> DEFINE U == q.data.uses \cup Left(q)
                 V == IF q.data.nav = {} /\ q.old.nav = {} THEN store[q.new].nav ELSE q.data.nav
      <4>1. Merged(q).uses = U
        <5>1. Merged(q) = [q.data EXCEPT !.uses = U, !.nav = V]
          BY <1>1, <1>4, <3>3 DEF Merged, Data
        <5> HIDE DEF U, V
        <5>2. QED
          BY <1>1, <5>1 DEF Data
      <4>2. CASE x \in Left(q) /\ q.obj = q.new
        <5>1. OldUse(u, x) /\ x \notin q.old.uses /\ x.kind \in MayLack(q.obj.kind)
          BY <1>4, <3>3, <4>2 DEF Left, OldUse, Existent
        <5>2. x \notin q.old.nav
          <6>1. CASE q.obj.kind = "table"
            <7>1. q.pc = "ready" /\ q.op \in {"create", "update"} /\ Existent(q.obj)
              BY <1>1, <1>4, <3>3, <4>2, <6>1 DEF Request, Leaves, Existent
            <7>2. q.old = store[u]
              BY <1>4, <4>2, <6>1, <7>1 DEF Pending
            <7>3. QED
              BY <5>1, <7>2 DEF OldUse
          <6>2. CASE q.obj.kind # "table"
            BY <1>1, <6>2 DEF Kinded, Fits
          <6>3. QED
            BY <6>1, <6>2
        <5>3. QED
          BY <1>3, <1>4, <2>1, <5>1, <5>2 DEF Refs
      <4>3. CASE x \in Left(q) /\ q.obj # q.new
        BY <1>3, <1>4, <2>1, <3>3, <4>3 DEF Left, OldUse, Existent
      <4>4. QED
        BY <1>3, <1>4, <2>1, <3>1, <4>1, <4>2, <4>3
    <3>4. QED
      BY <3>2, <3>3
  <2>4. QED
    BY <2>2, <2>3
<1>5. CASE ~(u = q.new /\ q.op # "delete")
  <2>1. u # q.obj
    BY <1>1, <1>5 DEF StoreAfter
  <2>2. u # q.new
    BY <1>5, <2>1 DEF Pending
  <2>3. CASE u \in q.users /\ Renames(q)
    <3>1. store'[u] = Rewritten(u, q.obj, q.new)
      BY <1>1, <1>5, <2>1, <2>3 DEF StoreAfter
    <3> DEFINE d == store[u]
    <3>2. CASE d = None
      <4>1. Blind(q.obj.kind) /\ store'[u] = [Blank EXCEPT !.uses = {q.new}, !.whole = FALSE]
        BY <3>1, <3>2 DEF Rewritten
      <4>2. x = q.new
        BY <4>1 DEF Blank
      <4>3. QED
        BY <1>3, <2>1, <2>2, <2>3, <4>1, <4>2
    <3>3. CASE d # None
      <4>1. d \in Data(scope)
        BY <3>3 DEF TypeOK
      <4> DEFINE U == {y \in d.uses : y.kind # q.obj.kind} \cup {q.new}
                 V == Swap(d.uses, q.obj, q.new)
                 W == Swap(d.nav, q.obj, q.new)
      <4>2. \/ store'[u] = [d EXCEPT !.uses = U]
            \/ store'[u] = d /\ u.kind = "compare"
            \/ store'[u] = [d EXCEPT !.uses = V, !.nav = W]
        BY <3>1, <3>3, <4>1 DEF Rewritten
      <4>3. \/ store'[u].uses \in {U, V}
            \/ store'[u] = d /\ u.kind = "compare"
        <5> HIDE DEF U, V, W
        <5>1. QED
          BY <4>1, <4>2 DEF Data
      <4>4. x = q.new \/ (x \in d.uses /\ (x = q.obj => u.kind = "compare"))
        BY <4>3 DEF Swap
      <4>5. QED
        BY <1>3, <2>1, <2>2, <2>3, <3>3, <4>4 DEF OldUse, Existent
    <3>4. QED
      BY <3>2, <3>3
  <2>4. CASE ~(u \in q.users /\ Renames(q))
    <3>1. store'[u] = store[u]
      BY <1>1, <1>5, <2>1, <2>4 DEF StoreAfter
    <3>2. QED
      BY <1>3, <2>1, <2>2, <2>4, <3>1 DEF OldUse, Existent
  <2>5. QED
    BY <2>3, <2>4
<1>6. QED
  BY <1>4, <1>5

(* Who is engaged by an object after it.                                   *)
LEMMA NewEng ==
  ASSUME TypeOK, KindInv, NEW w \in Worker, Commits(w), NEW q, q = req[w], Pending(q),
         NEW x \in scope
  PROVE  /\ x \notin {q.obj, q.new} \/ (q.op # "delete" /\ ~Renames(q))
               => eng'[x] = Engaged(q)[x]
         /\ Renames(q) /\ q.users = eng[q.obj] /\ eng[q.obj] # {} => eng'[q.new] = eng[q.obj]
         /\ x \in q.data.uses => q.new \in Engaged(q)[x]
         /\ \A u \in eng[x] : u # q.obj \/ x \notin Refs(q.old) => u \in Engaged(q)[x]
<1> DEFINE e == Engaged(q)
<1>1. /\ q \in Request(scope) /\ {q.obj, q.new} \subseteq scope /\ Kinded(q)
      /\ eng'[x] = EngAfter(q)[x] /\ eng'[q.new] = EngAfter(q)[q.new]
  BY StoredAfter
<1>2. /\ x \in q.data.uses => q.new \in e[x]
      /\ \A u \in eng[x] : u # q.obj \/ x \notin Refs(q.old) => u \in e[x]
  BY DEF Engaged, Refs
<1>3. e[q.obj] = eng[q.obj]
  <2>1. q.obj \notin Refs(q.old) \cup Refs(q.data)
    BY <1>1, UsesOfIs, KindsOfScope DEF Kinded, Fits
  <2>2. QED
    BY <1>1, <2>1 DEF Engaged
<1>4. e \in [scope -> SUBSET scope]
  BY <1>1 DEF Engaged, TypeOK
<1> DEFINE f == [e EXCEPT ![q.new] = e[q.obj], ![q.obj] = {}]
           g == [e EXCEPT ![q.obj] = {}]
<1>5. EngAfter(q) = IF Renames(q) /\ q.users # {} /\ e[q.obj] # {} THEN f
                    ELSE IF q.op = "delete" /\ q.obj.kind \in Leaves \cup {"sipprofile", "table"}
                    THEN g ELSE e
  BY DEF EngAfter
<1>6. /\ x \notin {q.obj, q.new} => f[x] = e[x] /\ g[x] = e[x]
      /\ q.new # q.obj => f[q.new] = e[q.obj]
  <2> HIDE DEF e
  <2>1. QED
    BY <1>1, <1>4
<1> HIDE DEF e, f, g
<1>7. QED
  BY <1>1, <1>2, <1>3, <1>5, <1>6 DEF Renames, e

(* What is known of a request at its transaction.                          *)
LEMMA Unnaming ==
  ASSUME TypeOK, KindInv, NEW w \in Worker, Commits(w), NEW q, q = req[w], Pending(q),
         NEW u \in scope, q.obj.kind \in UsesOf(u.kind)
  PROVE  /\ q.op = "delete" => eng[q.obj] = {}
         /\ Renames(q) => /\ q.users = eng[q.obj] /\ NoneUses(q.new)
                          /\ q.obj.kind # "table"
<1>1. /\ q \in Request(scope) /\ {q.obj, q.new} \subseteq scope /\ Kinded(q)
      /\ q.pc \in {"ready", "put"}
      /\ q.obj.kind \in Leaves /\ q.op = "update" <=> q.pc = "put"
  BY StoredAfter
<1>2. q.op = "delete" \/ Renames(q) => Unnames(q)
  BY <1>1, UnnamesUsers
<1>3. Renames(q) /\ q.obj.kind = "table" => q.pc = "ready"
  BY <1>1 DEF Leaves
<1>4. QED
  BY <1>1, <1>2, <1>3 DEF Pending, Renames

LEMMA EngagedStep ==
  ASSUME TypeOK, KindInv, PendInv, EngagedByUsers, NEW w \in Worker, Commits(w)
  PROVE  EngagedByUsers'
<1> PICK q : q = req[w]
  OBVIOUS
<1>1. Pending(q) /\ scope' = scope
  BY StoredAfter DEF Commits, Idle, PendInv
<1> SUFFICES ASSUME NEW u \in scope, store'[u] # None, NEW x \in store'[u].uses,
                    ~(u.kind = "compare" /\ x.kind = "out")
             PROVE  u \in eng'[x]
  BY <1>1 DEF EngagedByUsers, Existent
<1>2. x \in scope /\ x.kind \in UsesOf(u.kind)
  BY <1>1, NewUses
<1>3. OldUse(u, x) => u \in eng[x]
  BY DEF EngagedByUsers, OldUse
<1>4. {q.obj, q.new} \subseteq scope /\ q.users \subseteq scope /\ Kinded(q) /\ q \in Request(scope)
  BY <1>1, StoredAfter
<1>5. CASE /\ u = q.new /\ q.op # "delete" /\ x \notin {q.obj, q.new}
           /\ \/ x \in q.data.uses
              \/ OldUse(u, x) /\ (q.obj = q.new => x \notin Refs(q.old))
  BY <1>1, <1>2, <1>3, <1>5, NewEng
<1>6. CASE /\ u \in q.users /\ Renames(q) /\ u \notin {q.obj, q.new}
           /\ x = q.new \/ (OldUse(u, x) /\ (x = q.obj => u.kind = "compare"))
  <2>1. q.obj.kind \in UsesOf(u.kind)
    BY <1>4, <1>6 DEF Kinded
  <2>2. q.users = eng[q.obj] /\ q.obj.kind # "table"
    BY <1>1, <1>6, <2>1, Unnaming
  <2>3. CASE x = q.new
    BY <1>1, <1>2, <1>6, <2>2, <2>3, NewEng
  <2>4. CASE x # q.new
    <3>1. x # q.obj
      BY <1>2, <1>6, <2>2, <2>4, UsesOfIs, KindsOfScope DEF Records
    <3>2. QED
      BY <1>1, <1>2, <1>3, <1>6, <2>4, <3>1, NewEng
  <2>5. QED
    BY <2>3, <2>4
<1>7. CASE /\ u \notin {q.obj, q.new} /\ ~(u \in q.users /\ Renames(q))
           /\ OldUse(u, x)
  <2>1. CASE x \notin {q.obj, q.new} \/ (q.op # "delete" /\ ~Renames(q))
    BY <1>1, <1>2, <1>3, <1>7, <2>1, NewEng
  <2>2. CASE x \in {q.obj, q.new} /\ (q.op = "delete" \/ Renames(q))
    <3>1. q.obj.kind \in UsesOf(u.kind)
      BY <1>2, <1>4, <2>2 DEF Kinded
    <3>2. CASE q.op = "delete"
      BY <1>1, <1>3, <1>7, <2>2, <3>1, <3>2, Unnaming DEF Pending
    <3>3. CASE Renames(q)
      <4>1. q.users = eng[q.obj] /\ NoneUses(q.new) /\ q.obj.kind # "table"
        BY <1>1, <3>1, <3>3, Unnaming
      <4>2. x = q.new
        BY <1>3, <1>7, <2>2, <3>3, <4>1
      <4>3. u.kind = "compare"
        BY <1>7, <4>1, <4>2 DEF NoneUses, OldUse
      <4>4. x.kind = "out"
        BY <1>2, <1>4, <4>1, <4>2, <4>3, UsesOfIs, KindsOfScope DEF Records, Kinded
      <4>5. QED
        BY <4>3, <4>4
    <3>4. QED
      BY <2>2, <3>2, <3>3
  <2>3. QED
    BY <2>1, <2>2
<1>8. QED
  BY <1>1, <1>5, <1>6, <1>7, NewUses

LEMMA ReferencesStep ==
  ASSUME TypeOK, KindInv, PendInv, EngagedByUsers, ReferencesExist,
         NEW w \in Worker, Commits(w)
  PROVE  ReferencesExist'
<1> PICK q : q = req[w]
  OBVIOUS
<1>1. Pending(q)
  BY DEF Commits, Idle, PendInv
<1>2. /\ q \in Request(scope) /\ {q.obj, q.new} \subseteq scope /\ q.users \subseteq scope
      /\ Kinded(q) /\ scope' = scope /\ q.pc \in {"ready", "put"}
      /\ q.obj.kind \in Leaves /\ q.op = "update" <=> q.pc = "put"
      /\ \A o \in scope : store'[o] = StoreAfter(q)[o]
  BY <1>1, StoredAfter
<1>3. ASSUME NEW u \in scope, store'[u] # None, u.kind # "compare", NEW x \in store'[u].uses
      PROVE  store'[x] # None
  <2>1. x \in scope /\ x.kind \in UsesOf(u.kind)
    BY <1>1, <1>3, NewUses
  <2>2. OldUse(u, x) => Existent(x) /\ u \in eng[x]
    BY <1>3 DEF OldUse, ReferencesExist, EngagedByUsers
  <2>3. CASE u = q.new /\ x \notin {q.obj, q.new} /\ (x \in q.data.uses \/ OldUse(u, x))
    BY <1>1, <2>1, <2>2, <2>3, StillThere DEF Pending
  <2>4. CASE /\ u \in q.users /\ Renames(q)
             /\ x = q.new \/ (OldUse(u, x) /\ (x = q.obj => u.kind = "compare"))
    BY <1>1, <1>3, <2>1, <2>2, <2>4, StillThere DEF Renames
  <2>5. CASE /\ u \notin {q.obj, q.new} /\ ~(u \in q.users /\ Renames(q))
             /\ OldUse(u, x)
    <3>1. ~(x = q.obj /\ (q.op = "delete" \/ Renames(q)))
      <4> SUFFICES ASSUME x = q.obj, q.op = "delete" \/ Renames(q)
                   PROVE  FALSE
        OBVIOUS
      <4>1. q.op = "delete" => eng[q.obj] = {}
        BY <1>1, <2>1, Unnaming
      <4>2. Renames(q) => q.users = eng[q.obj]
        BY <1>1, <2>1, Unnaming
      <4>3. QED
        BY <2>2, <2>5, <4>1, <4>2
    <3>2. QED
      BY <1>1, <2>1, <2>2, <2>5, <3>1, StillThere
  <2>6. QED
    BY <1>1, <1>3, <2>3, <2>4, <2>5, NewUses
<1>4. ASSUME NEW u \in scope, store'[u] # None, u.kind \in Records, TableOf[u] \in scope
      PROVE  store'[TableOf[u]] # None
  <2> DEFINE t == TableOf[u]
  <2>1. t \in scope /\ t.kind = "table"
    BY <1>4, ConfigAssumption DEF ConfigAssumption, TypeOK
  <2>2. CASE Existent(u)
    <3>1. Existent(t)
      BY <1>4, <2>2 DEF ReferencesExist
    <3>2. ~(t = q.obj /\ (q.op = "delete" \/ Renames(q)))
      <4> SUFFICES ASSUME t = q.obj, q.op = "delete" \/ Renames(q)
                   PROVE  FALSE
        OBVIOUS
      <4>1. Unnames(q) /\ q.pc = "ready"
        BY <1>2, <2>1 DEF Unnames, Records, Leaves
      <4>2. q.op # "delete"
        BY <1>1, <1>4, <2>2, <4>1 DEF Pending, NoRecordOf
      <4>3. ~Renames(q)
        BY <1>1, <2>1, <4>1 DEF Pending, Renames
      <4>4. QED
        BY <4>2, <4>3
    <3>3. QED
      BY <1>1, <2>1, <3>1, <3>2, StillThere
  <2>3. CASE ~Existent(u)
    <3>1. \/ u = q.new /\ q.op # "delete"
          \/ u \in q.users /\ Renames(q) /\ Rewritten(u, q.obj, q.new) # None
      BY <1>2, <1>4, <2>3 DEF StoreAfter, Existent
    <3>2. ~(u \in q.users /\ Renames(q) /\ Rewritten(u, q.obj, q.new) # None)
      <4> SUFFICES ASSUME u \in q.users, Rewritten(u, q.obj, q.new) # None
                   PROVE  FALSE
        OBVIOUS
      <4>1. Blind(q.obj.kind)
        BY <2>3 DEF Rewritten, Existent
      <4>2. q.obj.kind \in {"out", "table"}
        BY <1>2, <1>4, UsesOfIs, KindsOfScope DEF Kinded
      <4>3. QED
        BY <4>1, <4>2 DEF Blind
    <3>3. q.obj.kind \in Records /\ q.obj = u /\ Existent(t)
      BY <1>1, <1>2, <1>4, <3>1, <3>2 DEF Pending, Kinded
    <3>4. t # q.obj
      BY <2>1, <3>3 DEF Records
    <3>5. QED
      BY <1>1, <2>1, <3>3, <3>4, StillThere
  <2>4. QED
    BY <2>2, <2>3
<1>5. QED
  BY <1>2, <1>3, <1>4 DEF ReferencesExist, Existent

-----------------------------------------------------------------------------
(* The theorems.                                                           *)
LEMMA PutStep ==
  ASSUME TypeOK, KindInv, EngagedByUsers, ReferencesExist, NEW w \in Worker, Puts(w)
  PROVE  EngagedByUsers' /\ ReferencesExist'
<1> PICK q : q = req[w]
  OBVIOUS
<1>1. /\ q.new \in scope /\ Kinded(q) /\ q.obj.kind \in Leaves
      /\ UNCHANGED <<scope, eng>>
      /\ \A x \in scope : store'[x] = IF x = q.new THEN Blank ELSE store[x]
      /\ Blank # None
  BY PutFrame
<1>2. \A x \in scope : Existent(x) => Existent(x)'
  BY <1>1 DEF Existent
<1>3. \A u \in scope : \A x \in store'[u].uses : u # q.new /\ store'[u] = store[u]
  BY <1>1 DEF Blank
<1>4. \A u \in scope : store[u] # None => store[u].uses \subseteq scope
  BY DEF TypeOK, Data
<1>5. EngagedByUsers'
  BY <1>1, <1>3 DEF EngagedByUsers, Existent
<1>6. \A u \in scope : u.kind \in Records => store'[u] = store[u]
  BY <1>1 DEF Kinded, Leaves, Records
<1>7. ReferencesExist'
  BY <1>1, <1>2, <1>3, <1>4, <1>6 DEF ReferencesExist, Existent
<1>8. QED
  BY <1>5, <1>7

(* The inductive invariant of requests that do not contend.                *)
RefInv == EngagedByUsers /\ ReferencesExist

CarefulInv == TypeOK /\ KindInv /\ Alone /\ PendInv /\ RefInv

LEMMA CarefulInit ==
  ASSUME Init
  PROVE  CarefulInv
<1>1. TypeOK
  BY NoneIsNone DEF Init, TypeOK
<1>2. \A u \in scope : ~Existent(u)
  BY DEF Init, Existent
<1>3. \A w \in Worker : Idle(w)
  BY DEF Init, Idle
<1>4. KindInv
  BY <1>2, <1>3 DEF Init, KindInv
<1>5. Alone /\ PendInv /\ EngagedByUsers /\ ReferencesExist
  BY <1>2, <1>3 DEF Alone, PendInv, EngagedByUsers, ReferencesExist
<1>6. QED
  BY <1>1, <1>4, <1>5 DEF CarefulInv, RefInv

LEMMA CarefulStep ==
  ASSUME Careful, CarefulInv, [Next]_vars
  PROVE  CarefulInv'
<1>1. TypeOK /\ KindInv /\ Alone /\ PendInv /\ EngagedByUsers /\ ReferencesExist
  BY DEF CarefulInv, RefInv
<1>2. TypeOK' /\ KindInv' /\ Alone' /\ PendInv'
  BY <1>1, TypeStep, KindStep, AloneStep, PendStep
<1>3. UNCHANGED <<scope, store, eng>> => RefInv'
  BY <1>1 DEF RefInv, EngagedByUsers, ReferencesExist, Existent
<1>4. ASSUME NEW w \in Worker, NEW q, Asks(w, q)
      PROVE  RefInv'
  BY <1>3, <1>4 DEF Asks
<1>5. ASSUME NEW w \in Worker, Checks(w)
      PROVE  RefInv'
  BY <1>3, <1>5 DEF Checks
<1>6. ASSUME NEW w \in Worker, Puts(w)
      PROVE  RefInv'
  BY <1>1, <1>6, PutStep DEF RefInv
<1>7. ASSUME NEW w \in Worker, Commits(w)
      PROVE  RefInv'
  BY <1>1, <1>7, EngagedStep, ReferencesStep DEF RefInv
<1>8. ASSUME NEW w \in Worker, Abandon(w)
      PROVE  RefInv'
  BY <1>3, <1>8 DEF Abandon
<1>9. ASSUME UNCHANGED vars
      PROVE  RefInv'
  BY <1>3, <1>9 DEF vars
<1>10. RefInv'
  BY <1>1, <1>4, <1>5, <1>6, <1>7, <1>8, <1>9, Steps
<1>11. QED
  BY <1>2, <1>10 DEF CarefulInv

(* While requests that contend are not made at the same time, whoever      *)
(* names an object is in the set of its engagements: the sets by which the *)
(* handlers refuse a deletion and find whom a rename rewrites miss nobody. *)
THEOREM UsersEngaged == ASSUME Careful PROVE Spec => []EngagedByUsers
<1>1. Init => CarefulInv
  BY CarefulInit
<1>2. CarefulInv /\ [Next]_vars => CarefulInv'
  BY CarefulStep
<1>3. CarefulInv => EngagedByUsers
  BY DEF CarefulInv, RefInv
<1>4. QED
  BY <1>1, <1>2, <1>3, PTL DEF Spec

(* And what an object names exists: no other request deletes or renames it *)
(* between the look at it and the transaction that names it.               *)
THEOREM NoDanglingReference == ASSUME Careful PROVE Spec => []ReferencesExist
<1>1. Init => CarefulInv
  BY CarefulInit
<1>2. CarefulInv /\ [Next]_vars => CarefulInv'
  BY CarefulStep
<1>3. CarefulInv => ReferencesExist
  BY DEF CarefulInv, RefInv
<1>4. QED
  BY <1>1, <1>2, <1>3, PTL DEF Spec

-----------------------------------------------------------------------------
(* The addresses of profiles, where there is one inbound interconnection.  *)
Single == \A S \in Scopes : \A i, j \in S : i.kind = "in" /\ j.kind = "in" => i = j

(* An address in the set of a profile is one of an interconnection of it.  *)
Held(p, a) == \E i \in Of("in") : OldUse(i, p) /\ a \in store[i].addrs
FarendsHeld == \A p \in Of("sipprofile") : \A a \in Addr : a \in farend[p] <=> Held(p, a)

(* Only the interconnections of a profile are rewritten when it is renamed.*)
EngagesIn == \A p \in Of("sipprofile") : \A i \in Of("in") : i \in eng[p] => OldUse(i, p)

OneProfile == \A i \in Of("in") : Existent(i) => One(store[i])

InPend == Of("sipprofile") # {} => \A w \in Worker : ~Idle(w) => InPending(req[w])

HeldInv == FarendsHeld /\ EngagesIn /\ OneProfile

LEMMA HeldExact ==
  ASSUME TypeOK, FarendsHeld
  PROVE  FarendsExact
<1> SUFFICES ASSUME NEW p \in Of("sipprofile")
             PROVE  farend[p] = UNION {store[i].addrs : i \in {u \in Of("in") :
                                               Existent(u) /\ p \in store[u].uses}}
  BY DEF FarendsExact
<1>1. farend[p] \subseteq Addr
  BY DEF TypeOK, Of
<1>2. \A i \in Of("in") : Existent(i) => store[i].addrs \subseteq Addr
  BY DEF TypeOK, Of, Existent, Data
<1>3. \A a : a \in farend[p] <=> Held(p, a)
  BY <1>1, <1>2 DEF FarendsHeld, Held, OldUse
<1>4. QED
  BY <1>3 DEF Held, OldUse

(* A step that changes nothing of this.                                    *)
LEMMA HeldSame ==
  ASSUME TypeOK, TypeOK', HeldInv, UNCHANGED <<scope, farend>>,
         ASSUME NEW i \in Of("in"), NEW p \in Of("sipprofile")
         PROVE  /\ OldUse(i, p)' <=> OldUse(i, p)
                /\ OldUse(i, p) => store'[i].addrs = store[i].addrs
                /\ i \in eng'[p] => i \in eng[p]
  PROVE  HeldInv'
<1>1. Of("in")' = Of("in") /\ Of("sipprofile")' = Of("sipprofile")
  BY DEF Of
<1>2. FarendsHeld'
  BY <1>1 DEF HeldInv, FarendsHeld, Held
<1>3. EngagesIn'
  BY <1>1 DEF HeldInv, EngagesIn
<1>4. OneProfile'
  <2> SUFFICES ASSUME NEW i \in Of("in"), Existent(i)', NEW x \in store'[i].uses,
                      NEW y \in store'[i].uses, x.kind = "sipprofile", y.kind = "sipprofile"
               PROVE  x = y
    BY <1>1 DEF OneProfile, One
  <2>1. store'[i] \in Data(scope)
    BY DEF TypeOK, Of, Existent
  <2>2. x \in Of("sipprofile") /\ y \in Of("sipprofile")
    BY <2>1 DEF Data, Of
  <2>3. OldUse(i, x) /\ OldUse(i, y)
    BY <2>2 DEF OldUse
  <2>4. QED
    BY <2>3 DEF HeldInv, OneProfile, One, OldUse
<1>5. QED
  BY <1>2, <1>3, <1>4 DEF HeldInv

(* An interconnection in which another object than its profile is renamed. *)
LEMMA RewrittenIn ==
  ASSUME TypeOK, NEW i \in Of("in"), NEW o \in scope, NEW n \in scope,
         o.kind = n.kind, o.kind # "sipprofile", NEW p \in Of("sipprofile")
  PROVE  /\ Rewritten(i, o, n) # None /\ p \in Rewritten(i, o, n).uses <=> OldUse(i, p)
         /\ OldUse(i, p) => Rewritten(i, o, n).addrs = store[i].addrs
<1> DEFINE d == store[i]
<1>1. i.kind = "in" /\ p.kind = "sipprofile" /\ i \in scope
  BY DEF Of
<1>2. CASE d = None
  <2>1. \/ Rewritten(i, o, n) = None
        \/ Rewritten(i, o, n) = [Blank EXCEPT !.uses = {n}, !.whole = FALSE]
    BY <1>2 DEF Rewritten
  <2>2. QED
    BY <1>1, <1>2, <2>1 DEF OldUse, Existent, Blank
<1>3. CASE d # None
  <2>1. d \in Data(scope)
    BY <1>1, <1>3 DEF TypeOK
  <2> DEFINE U == {x \in d.uses : x.kind # o.kind} \cup {n}
             V == Swap(d.uses, o, n)
             W == Swap(d.nav, o, n)
  <2>2. Rewritten(i, o, n) \in {d, [d EXCEPT !.uses = U], [d EXCEPT !.uses = V, !.nav = W]}
    BY <1>3, <2>1 DEF Rewritten, Data
  <2>3. p \in U <=> p \in d.uses
    BY <1>1
  <2>4. p \in V <=> p \in d.uses
    BY <1>1 DEF Swap
  <2>5. {U, V, W} \subseteq SUBSET scope
    BY <2>1 DEF Data, Swap
  <2> HIDE DEF U, V, W
  <2>6. /\ Rewritten(i, o, n).addrs = d.addrs
        /\ Rewritten(i, o, n).uses \in {d.uses, U, V}
        /\ Rewritten(i, o, n) \in Data(scope)
    BY <2>1, <2>2, <2>5 DEF Data
  <2>7. QED
    BY <1>3, <2>3, <2>4, <2>6, NoneIsNone DEF OldUse, Existent, TypeOK
<1>4. QED
  BY <1>2, <1>3

(* What the others ask about an interconnection stays true, as they do not *)
(* contend with the request that is done.                                  *)
LEMMA InPendCommit ==
  ASSUME TypeOK, KindInv, Alone, PendInv, InPend, Single, NEW w \in Worker, Commits(w)
  PROVE  InPend'
<1> PICK q : q = req[w]
  OBVIOUS
<1>1. ~Idle(w) /\ Pending(q)
  BY DEF Commits, PendInv
<1>2. /\ q \in Request(scope) /\ {q.obj, q.new} \subseteq scope
      /\ Kinded(q) /\ scope' = scope
      /\ \A o \in scope : store'[o] = StoreAfter(q)[o]
      /\ \A v \in Worker : req'[v] = IF v = w THEN None ELSE req[v]
  BY <1>1, StoredAfter
<1> SUFFICES ASSUME Of("sipprofile") # {}, NEW v \in Worker, v # w, req[v] # None,
                    req[v].obj.kind = "in"
             PROVE  InPending(req[v])'
  BY <1>2 DEF InPend, Idle, InPending, Of
<1> DEFINE r == req[v]
<1>3. InPending(r) /\ r \in Request(scope) /\ r.obj \in scope
  BY DEF InPend, Idle, TypeOK, Request
<1>4. ~Contend(q, r)
  BY <1>1 DEF Alone, Idle
<1>5. ~Unnames(q)
  BY <1>4 DEF Contend
<1>6. r.obj \notin {q.obj, q.new}
  <2>1. \A x \in {q.obj, q.new} : x.kind = "in" => x = r.obj
    BY <1>2, <1>3 DEF Single, TypeOK
  <2>2. ~(q.obj.kind = "in" /\ r.obj = q.obj)
    BY <1>4 DEF Contend
  <2>3. QED
    BY <1>2, <2>1, <2>2 DEF Kinded
<1>7. ~(r.obj \in q.users /\ Renames(q))
  <2>1. CASE q.obj.kind \in Records \cup {"in"}
    <3>1. r.obj \in q.users => q.obj.kind \in UsesOf("in")
      BY <1>2 DEF Kinded
    <3>2. QED
      BY <2>1, <3>1, UsesOfIs DEF Kinds, Connections
  <2>2. QED
    BY <1>5, <2>1 DEF Unnames
<1>8. store'[r.obj] = store[r.obj]
  BY <1>2, <1>3, <1>6, <1>7 DEF StoreAfter
<1>9. req'[v] = r
  BY <1>2
<1> HIDE DEF r
<1>10. QED
  BY <1>3, <1>8, <1>9 DEF InPending, Existent

(* Who is in a set of engagements after the request of another.            *)
LEMMA EngOld ==
  ASSUME TypeOK, KindInv, NEW w \in Worker, Commits(w), NEW q, q = req[w], Pending(q),
         NEW i \in scope, i \notin {q.obj, q.new}, NEW x \in scope
  PROVE  i \in eng'[x] => \/ i \in eng[x] /\ ~(x = q.obj /\ Renames(q) /\ q.users = eng[x])
                          \/ Renames(q) /\ x = q.new /\ i \in eng[q.obj]
<1> DEFINE e == Engaged(q)
<1>1. /\ q \in Request(scope) /\ {q.obj, q.new} \subseteq scope /\ Kinded(q)
      /\ eng'[x] = EngAfter(q)[x]
  BY StoredAfter
<1>2. e \in [scope -> SUBSET scope]
  BY <1>1 DEF Engaged, TypeOK
<1>3. \A y \in scope : i \in e[y] => i \in eng[y]
  BY DEF Engaged
<1>4. e[q.obj] = eng[q.obj]
  <2>1. q.obj \notin Refs(q.old) \cup Refs(q.data)
    BY <1>1, UsesOfIs, KindsOfScope DEF Kinded, Fits
  <2>2. QED
    BY <1>1, <2>1 DEF Engaged
<1>5. EngAfter(q) = IF Renames(q) /\ q.users # {} /\ e[q.obj] # {}
                    THEN [e EXCEPT ![q.new] = e[q.obj], ![q.obj] = {}]
                    ELSE IF q.op = "delete" /\ q.obj.kind \in Leaves \cup {"sipprofile", "table"}
                    THEN [e EXCEPT ![q.obj] = {}] ELSE e
  BY DEF EngAfter
<1> HIDE DEF e
<1>6. CASE Renames(q) /\ q.users # {} /\ e[q.obj] # {}
  BY <1>1, <1>2, <1>3, <1>4, <1>5, <1>6 DEF Renames
<1>7. CASE ~(Renames(q) /\ q.users # {} /\ e[q.obj] # {})
  BY <1>1, <1>2, <1>3, <1>4, <1>5, <1>7
<1>8. QED
  BY <1>6, <1>7

(* The objects that a request about none of the two changes or renames.    *)
LEMMA HeldOther ==
  ASSUME TypeOK, TypeOK', KindInv, PendInv, HeldInv, NEW w \in Worker, Commits(w),
         req[w].obj.kind \notin {"sipprofile", "in"}
  PROVE  HeldInv'
<1> PICK q : q = req[w]
  OBVIOUS
<1>1. ~Idle(w) /\ Pending(q) /\ farend' = farend
  BY DEF Commits, PendInv
<1>2. /\ q \in Request(scope) /\ {q.obj, q.new} \subseteq scope
      /\ Kinded(q) /\ scope' = scope
      /\ \A o \in scope : store'[o] = StoreAfter(q)[o]
  BY <1>1, StoredAfter
<1>3. ASSUME NEW i \in Of("in"), NEW p \in Of("sipprofile")
      PROVE  /\ OldUse(i, p)' <=> OldUse(i, p)
             /\ OldUse(i, p) => store'[i].addrs = store[i].addrs
             /\ i \in eng'[p] => i \in eng[p]
  <2>1. i \in scope /\ p \in scope /\ i \notin {q.obj, q.new} /\ p \notin {q.obj, q.new}
    BY <1>2 DEF Of, Kinded
  <2>2. store'[i] \in {store[i], Rewritten(i, q.obj, q.new)}
    BY <1>2, <2>1 DEF StoreAfter
  <2>3. i \in eng'[p] => i \in eng[p]
    BY <1>1, <2>1, EngOld
  <2>4. OldUse(i, p)' <=> store'[i] # None /\ p \in store'[i].uses
    BY DEF OldUse, Existent
  <2>5. CASE store'[i] = store[i]
    BY <2>3, <2>4, <2>5 DEF OldUse, Existent
  <2>6. CASE store'[i] = Rewritten(i, q.obj, q.new)
    BY <1>2, <2>3, <2>4, <2>6, RewrittenIn DEF Kinded
  <2>7. QED
    BY <2>2, <2>5, <2>6
<1>4. QED
  BY <1>1, <1>2, <1>3, HeldSame

(* A profile, under its name or a new one.                                 *)
LEMMA HeldProfile ==
  ASSUME TypeOK, TypeOK', KindInv, PendInv, EngagedByUsers, HeldInv,
         NEW w \in Worker, Commits(w), req[w].obj.kind = "sipprofile"
  PROVE  HeldInv'
<1> PICK q : q = req[w]
  OBVIOUS
<1>1. ~Idle(w) /\ Pending(q) /\ CommitProfile(w)
  BY DEF Commits, PendInv
<1>2. /\ q \in Request(scope) /\ {q.obj, q.new} \subseteq scope
      /\ Kinded(q) /\ scope' = scope /\ q.pc \in {"ready", "put"}
      /\ \A o \in scope : store'[o] = StoreAfter(q)[o]
  BY <1>1, StoredAfter
<1> DEFINE o == q.obj
           n == q.new
<1>3. o \in Of("sipprofile") /\ n \in Of("sipprofile")
  BY <1>2 DEF Kinded, Of
<1>4. \A i \in Of("in") : i \in scope /\ i \notin {o, n} /\ i.kind = "in"
  BY <1>2 DEF Of, Kinded
<1>5. ASSUME ~Renames(q)
      PROVE  HeldInv'
  <2>1. farend' = farend
    BY <1>1, <1>5 DEF CommitProfile
  <2>2. \A i \in Of("in") : store'[i] = store[i]
    BY <1>2, <1>4, <1>5 DEF StoreAfter
  <2>3. \A i \in Of("in"), p \in Of("sipprofile") : i \in eng'[p] => i \in eng[p]
    BY <1>1, <1>4, <1>5, EngOld DEF Of
  <2>4. QED
    BY <1>2, <2>1, <2>2, <2>3, HeldSame DEF OldUse, Existent
<1>6. ASSUME Renames(q)
      PROVE  HeldInv'
  <2>1. o # n /\ NoneUses(n) /\ q.users = eng[o]
    BY <1>1, <1>2, <1>6 DEF Pending, Unnames, Renames, Records, Leaves
  <2>2. ASSUME NEW i \in Of("in")
        PROVE  i \in eng[o] <=> OldUse(i, o)
    BY <1>3, <1>4, <2>2 DEF HeldInv, EngagesIn, EngagedByUsers, OldUse
  <2>3. ASSUME NEW i \in Of("in")
        PROVE  ~OldUse(i, n)
    BY <1>4, <2>1 DEF NoneUses, OldUse
  <2>4. ASSUME NEW i \in Of("in"), OldUse(i, o)
        PROVE  /\ store'[i] # None
               /\ store'[i].addrs = store[i].addrs
               /\ store'[i].uses = {x \in store[i].uses : x.kind # "sipprofile"} \cup {n}
    <3> DEFINE d == store[i]
               U == {x \in d.uses : x.kind # "sipprofile"} \cup {n}
    <3>1. store'[i] = Rewritten(i, o, n)
      BY <1>2, <1>4, <1>6, <2>1, <2>2, <2>4 DEF StoreAfter
    <3>2. d # None /\ d \in Data(scope) /\ Blind("sipprofile") /\ o.kind = "sipprofile"
      BY <1>3, <1>4, <2>4 DEF OldUse, Existent, TypeOK, Blind, Of
    <3>3. Rewritten(i, o, n) = [d EXCEPT !.uses = U]
      BY <3>2 DEF Rewritten, Data
    <3>4. U \in SUBSET scope
      BY <1>2, <3>2 DEF Data
    <3> HIDE DEF U
    <3>5. /\ Rewritten(i, o, n).addrs = d.addrs /\ Rewritten(i, o, n).uses = U
          /\ Rewritten(i, o, n) \in Data(scope)
      BY <3>2, <3>3, <3>4 DEF Data
    <3>6. QED
      BY <3>1, <3>5, NoneIsNone DEF TypeOK, U
  <2>5. ASSUME NEW i \in Of("in"), ~OldUse(i, o)
        PROVE  store'[i] = store[i]
    BY <1>2, <1>4, <2>1, <2>2, <2>5 DEF StoreAfter
  <2>6. ASSUME NEW i \in Of("in"), NEW p \in Of("sipprofile")
        PROVE  /\ OldUse(i, p)' <=> IF p = n THEN OldUse(i, o) ELSE p # o /\ OldUse(i, p)
               /\ Existent(i) => store'[i].addrs = store[i].addrs
               /\ i \in eng'[p] => OldUse(i, p)'
    <3>1. OldUse(i, p)' <=> IF p = n THEN OldUse(i, o) ELSE p # o /\ OldUse(i, p)
      <4>1. CASE OldUse(i, o)
        <5>1. p \in store[i].uses => p = o
          BY <1>3, <4>1 DEF HeldInv, OneProfile, One, OldUse, Of
        <5>2. QED
          BY <2>1, <2>4, <4>1, <5>1 DEF OldUse, Existent, Of
      <4>2. CASE ~OldUse(i, o)
        BY <2>3, <2>5, <4>2 DEF OldUse, Existent
      <4>3. QED
        BY <4>1, <4>2
    <3>2. Existent(i) => store'[i].addrs = store[i].addrs
      BY <2>4, <2>5
    <3>3. ASSUME i \in eng'[p]
          PROVE  OldUse(i, p)'
      <4>1. p \in scope
        BY DEF Of
      <4>2. \/ i \in eng[p] /\ ~(p = o /\ q.users = eng[p])
            \/ p = n /\ i \in eng[o]
        BY <1>1, <1>4, <1>6, <3>3, <4>1, EngOld
      <4>3. i \in eng[p] => OldUse(i, p)
        BY DEF HeldInv, EngagesIn
      <4>4. QED
        BY <2>1, <2>2, <2>3, <3>1, <4>2, <4>3
    <3>4. QED
      BY <3>1, <3>2, <3>3
  <2>7. Of("in")' = Of("in") /\ Of("sipprofile")' = Of("sipprofile")
    BY <1>2 DEF Of
  <2>8. FarendsHeld'
    <3> SUFFICES ASSUME NEW p \in Of("sipprofile"), NEW a \in Addr
                 PROVE  a \in farend'[p] <=> Held(p, a)'
      BY <2>7 DEF FarendsHeld
    <3>1. \A x \in Of("sipprofile") : a \in farend[x] <=> Held(x, a)
      BY DEF HeldInv, FarendsHeld
    <3>2. Held(p, a)' <=> IF p = n THEN Held(o, a) ELSE p # o /\ Held(p, a)
      <4>1. Held(p, a)' <=> \E i \in Of("in") : OldUse(i, p)' /\ a \in store'[i].addrs
        BY <2>7 DEF Held
      <4>2. ASSUME NEW i \in Of("in")
            PROVE  OldUse(i, p)' /\ a \in store'[i].addrs <=>
                      IF p = n THEN OldUse(i, o) /\ a \in store[i].addrs
                      ELSE p # o /\ OldUse(i, p) /\ a \in store[i].addrs
        BY <2>6 DEF OldUse
      <4>3. QED
        BY <4>1, <4>2 DEF Held
    <3>3. ~Held(n, a)
      BY <2>3 DEF Held
    <3>4. farend \in [scope -> SUBSET Addr] /\ {o, n, p} \subseteq scope
      BY <1>3 DEF TypeOK, Of
    <3>5. a \in farend'[p] <=> IF p = n THEN a \in farend[o] ELSE p # o /\ a \in farend[p]
      <4>1. CASE farend[o] # {}
        <5>1. farend' = [farend EXCEPT ![n] = farend[o], ![o] = {}]
          BY <1>1, <1>6, <4>1 DEF CommitProfile
        <5>2. QED
          BY <2>1, <3>4, <5>1
      <4>2. CASE farend[o] = {}
        <5>1. farend' = farend
          BY <1>1, <4>2 DEF CommitProfile
        <5>2. QED
          BY <1>3, <3>1, <3>3, <4>2, <5>1
      <4>3. QED
        BY <4>1, <4>2
    <3>6. QED
      BY <1>3, <3>1, <3>2, <3>5
  <2>9. EngagesIn'
    BY <2>6, <2>7 DEF EngagesIn
  <2>10. OneProfile'
    <3> SUFFICES ASSUME NEW i \in Of("in"), Existent(i)'
                 PROVE  One(store'[i])
      BY <2>7 DEF OneProfile
    <3>1. CASE OldUse(i, o)
      BY <2>4, <3>1 DEF One
    <3>2. CASE ~OldUse(i, o)
      BY <2>5, <3>2 DEF HeldInv, OneProfile, Existent
    <3>3. QED
      BY <3>1, <3>2
  <2>11. QED
    BY <2>8, <2>9, <2>10 DEF HeldInv
<1>7. QED
  BY <1>5, <1>6

(* An inbound interconnection: the addresses it had go, those it has come. *)
LEMMA HeldInbound ==
  ASSUME TypeOK, TypeOK', KindInv, PendInv, HeldInv, InPend, Single,
         NEW w \in Worker, Commits(w), req[w].obj.kind = "in"
  PROVE  HeldInv'
<1> PICK q : q = req[w]
  OBVIOUS
<1> PICK i : i = q.obj
  OBVIOUS
<1>1. ~Idle(w) /\ Pending(q) /\ CommitInbound(w)
  BY DEF Commits, PendInv
<1>2. /\ q \in Request(scope) /\ {q.obj, q.new} \subseteq scope
      /\ Kinded(q) /\ scope' = scope /\ q.pc = "ready"
      /\ \A x \in scope : store'[x] = StoreAfter(q)[x] /\ eng'[x] = EngAfter(q)[x]
  <2>1. q.pc # "put"
    BY <1>1 DEF Pending, Leaves
  <2>2. QED
    BY <1>1, <2>1, StoredAfter
<1>3. Of("in") = {i} /\ q.new = i /\ i \in scope /\ ~Renames(q)
  <2>1. {i, q.new} \subseteq Of("in")
    BY <1>2 DEF Kinded, Of
  <2>2. \A x, y \in Of("in") : x = y
    BY DEF Single, TypeOK, Of
  <2>3. QED
    BY <2>1, <2>2 DEF Of, Renames
<1>4. Of("in")' = Of("in") /\ Of("sipprofile")' = Of("sipprofile")
  BY <1>2 DEF Of
<1>5. CASE Of("sipprofile") = {}
  <2>1. FarendsHeld' /\ EngagesIn'
    BY <1>4, <1>5 DEF FarendsHeld, EngagesIn
  <2>2. ASSUME Existent(i)'
        PROVE  One(store'[i])
    <3>1. store'[i] \in Data(scope)
      BY <1>2, <1>3, <2>2 DEF TypeOK, Existent
    <3>2. QED
      BY <1>5, <3>1 DEF One, Data, Of
  <2>3. OneProfile'
    BY <1>3, <1>4, <2>2 DEF OneProfile
  <2>4. QED
    BY <2>1, <2>3 DEF HeldInv
<1>6. CASE Of("sipprofile") # {}
  <2>1. /\ One(q.data)
        /\ q.op = "create" => ~Existent(i) /\ q.old = Blank
        /\ q.op # "create" => Existent(i) /\ q.old = store[i]
        /\ q.op = "delete" => q.data = Blank
    BY <1>1, <1>2, <1>6 DEF InPend, InPending
  <2>2. q.data \in Data(scope) /\ q.old \in Data(scope) /\ q.op \in {"create", "update", "delete"}
    BY <1>2 DEF Request
  <2>3. /\ q.op = "delete" => store'[i] = None
        /\ q.op # "delete" => store'[i] = Merged(q)
    BY <1>2, <1>3 DEF StoreAfter, Leaves
  <2>4. /\ Merged(q) # None
        /\ Merged(q).addrs = q.data.addrs
        /\ \A x : x.kind = "sipprofile" => (x \in Merged(q).uses <=> x \in q.data.uses)
    <3>1. Merged(q) \in Data(scope)
      BY <1>2, MergedType
    <3>2. CASE store[i] = None
      BY <1>3, <3>1, <3>2, NoneIsNone DEF Merged, TypeOK
    <3>3. CASE store[i] # None
      <4> DEFINE U == q.data.uses \cup Left(q)
                 V == IF q.data.nav = {} /\ q.old.nav = {} THEN store[q.new].nav ELSE q.data.nav
      <4>1. Merged(q) = [q.data EXCEPT !.uses = U, !.nav = V]
        BY <1>3, <2>2, <3>3 DEF Merged, Data
      <4>2. \A x \in Left(q) : x.kind # "sipprofile"
        BY DEF Left, MayLack
      <4>3. Merged(q).addrs = q.data.addrs /\ Merged(q).uses = U
        <5> HIDE DEF U, V
        <5>1. QED
          BY <2>2, <4>1 DEF Data
      <4>4. QED
        BY <3>1, <4>2, <4>3, NoneIsNone DEF TypeOK
    <3>4. QED
      BY <3>2, <3>3
  <2>5. ASSUME NEW p \in Of("sipprofile")
        PROVE  /\ OldUse(i, p)' <=> p \in q.data.uses
               /\ OldUse(i, p)' => store'[i].addrs = q.data.addrs
               /\ OldUse(i, p) <=> p \in q.old.uses
               /\ OldUse(i, p) => store[i].addrs = q.old.addrs
    <3>1. OldUse(i, p)' <=> store'[i] # None /\ p \in store'[i].uses
      BY DEF OldUse, Existent
    <3>2. p.kind = "sipprofile" /\ Blank.uses = {}
      BY DEF Of, Blank
    <3>3. QED
      BY <2>1, <2>2, <2>3, <2>4, <3>1, <3>2 DEF OldUse, Existent
  <2>6. FarendsHeld'
    <3> SUFFICES ASSUME NEW p \in Of("sipprofile"), NEW a \in Addr
                 PROVE  a \in farend'[p] <=> Held(p, a)'
      BY <1>4 DEF FarendsHeld
    <3>1. Held(p, a)' <=> p \in q.data.uses /\ a \in q.data.addrs
      BY <1>3, <1>4, <2>5 DEF Held
    <3>2. a \in farend[p] <=> p \in q.old.uses /\ a \in q.old.addrs
      BY <1>3, <2>5 DEF HeldInv, FarendsHeld, Held
    <3>3. /\ p \in ProfileOf(q.old) <=> p \in q.old.uses
          /\ p \in ProfileOf(q.data) <=> p \in q.data.uses
      BY DEF ProfileOf, Of
    <3>4. a \in farend'[p] <=> \/ a \in farend[p] /\ ~(p \in ProfileOf(q.old) /\ a \in OldAddrs(q))
                               \/ p \in ProfileOf(q.data) /\ a \in NewAddrs(q)
      BY <1>1 DEF CommitInbound, Of
    <3>5. QED
      BY <3>1, <3>2, <3>3, <3>4 DEF OldAddrs, NewAddrs
  <2>7. EngagesIn'
    <3> SUFFICES ASSUME NEW p \in Of("sipprofile"), i \in eng'[p]
                 PROVE  OldUse(i, p)'
      BY <1>3, <1>4 DEF EngagesIn
    <3>1. EngAfter(q) = Engaged(q)
      BY <1>2, <1>3 DEF EngAfter, Leaves
    <3>2. p \in scope /\ i \in Engaged(q)[p]
      BY <1>2, <3>1 DEF Of
    <3>3. p \in Refs(q.data) \/ (i \in eng[p] /\ p \notin Refs(q.old))
      BY <3>2 DEF Engaged
    <3>4. i \in eng[p] => p \in Refs(q.old)
      BY <1>3, <2>5 DEF HeldInv, EngagesIn, Refs
    <3>5. p \in q.data.uses
      BY <1>2, <3>3, <3>4 DEF Kinded, Fits, Refs
    <3>6. QED
      BY <2>5, <3>5
  <2>8. OneProfile'
    <3> SUFFICES ASSUME Existent(i)'
                 PROVE  One(store'[i])
      BY <1>3, <1>4 DEF OneProfile
    <3>1. store'[i] = Merged(q)
      BY <2>2, <2>3 DEF Existent
    <3>2. QED
      BY <2>1, <2>4, <3>1 DEF One
  <2>9. QED
    BY <2>6, <2>7, <2>8 DEF HeldInv
<1>7. QED
  BY <1>5, <1>6

FarendInv == CarefulInv /\ HeldInv /\ InPend

LEMMA FarendInit == Init => FarendInv
<1> SUFFICES ASSUME Init
             PROVE  FarendInv
  OBVIOUS
<1>1. CarefulInv
  BY CarefulInit
<1>2. (\A i \in scope : ~Existent(i)) /\ (\A w \in Worker : Idle(w))
  BY DEF Init, Existent, Idle
<1>3. HeldInv
  BY <1>2 DEF Init, HeldInv, FarendsHeld, Held, EngagesIn, OneProfile, OldUse, Of
<1>4. QED
  BY <1>1, <1>2, <1>3 DEF FarendInv, InPend

LEMMA FarendStep ==
  ASSUME Careful, Single, FarendInv, [Next]_vars
  PROVE  FarendInv'
<1>1. TypeOK /\ KindInv /\ Alone /\ PendInv /\ EngagedByUsers /\ HeldInv /\ InPend
  BY DEF FarendInv, CarefulInv, RefInv
<1>2. CarefulInv' /\ TypeOK'
  BY CarefulStep DEF FarendInv, CarefulInv
<1>3. UNCHANGED <<scope, store, eng, farend>> => HeldInv'
  BY <1>1, <1>2, HeldSame DEF OldUse, Existent
<1>4. ASSUME UNCHANGED <<scope, store>>, NEW w \in Worker,
             \A v \in Worker \ {w} : req'[v] = req[v],
             Of("sipprofile") # {} => req'[w] = None \/ InPending(req'[w])
      PROVE  InPend'
  <2> SUFFICES ASSUME Of("sipprofile") # {}, NEW v \in Worker, req'[v] # None
               PROVE  InPending(req[v])'
    BY <1>4 DEF InPend, Idle, Of
  <2>1. InPending(req'[v])
    BY <1>1, <1>4 DEF InPend, Idle
  <2>2. QED
    BY <1>4, <2>1 DEF InPending, Existent
<1>5. ASSUME NEW w \in Worker, NEW q, Asks(w, q)
      PROVE  HeldInv' /\ InPend'
  BY <1>1, <1>3, <1>4, <1>5 DEF Asks, Begin, TypeOK
<1>6. ASSUME NEW w \in Worker, Checks(w)
      PROVE  HeldInv' /\ InPend'
  <2> PICK q : q = req[w]
    OBVIOUS
  <2>1. q \in Request(scope) /\ ~Idle(w) /\ q.pc = "valid" /\ NameFree(q) /\ Pending(q)
    BY <1>1, <1>6 DEF Checks, Idle, TypeOK, PendInv
  <2>2. /\ Read(q).op = q.op /\ Read(q).obj = q.obj /\ Read(q).data = q.data
        /\ Read(q).old = IF q.op = "create" THEN Blank ELSE store[q.obj]
    BY <2>1, ReadIs
  <2>3. q.op # "delete" /\ (q.op = "create" => q.new = q.obj)
    BY <2>1 DEF Pending
  <2>4. Of("sipprofile") # {} => InPending(Read(q))
    BY <1>1, <2>1, <2>2, <2>3 DEF InPend, InPending, NameFree
  <2>5. QED
    BY <1>1, <1>3, <1>4, <1>6, <2>4 DEF Checks, TypeOK
<1>7. ASSUME NEW w \in Worker, Puts(w)
      PROVE  HeldInv' /\ InPend'
  <2> PICK q : q = req[w]
    OBVIOUS
  <2>1. /\ UNCHANGED <<scope, eng, farend>>
        /\ \A x \in scope : x # q.new => store'[x] = store[x]
        /\ Kinded(q) /\ q.obj.kind \in Leaves
        /\ \A v \in Worker \ {w} : req'[v] = req[v]
        /\ req'[w] # None => req'[w].obj = q.obj
    BY <1>1, <1>7, PutFrame
  <2>2. \A x \in scope : x.kind = "in" => store'[x] = store[x]
    BY <2>1 DEF Kinded, Leaves
  <2>3. HeldInv'
    BY <1>1, <1>2, <2>1, <2>2, HeldSame DEF OldUse, Existent, Of
  <2>4. InPend'
    <3> SUFFICES ASSUME Of("sipprofile") # {}, NEW v \in Worker, req'[v] # None,
                        req'[v].obj.kind = "in"
                 PROVE  InPending(req[v])'
      BY <2>1 DEF InPend, Idle, InPending, Of
    <3>1. v # w /\ req'[v] = req[v]
      BY <2>1 DEF Leaves
    <3>2. InPending(req[v]) /\ req[v].obj \in scope
      BY <1>1, <3>1 DEF InPend, Idle, TypeOK, Request
    <3>3. QED
      BY <2>2, <3>1, <3>2 DEF InPending, Existent
  <2>5. QED
    BY <2>3, <2>4
<1>8. ASSUME NEW w \in Worker, Commits(w)
      PROVE  HeldInv' /\ InPend'
  BY <1>1, <1>2, <1>8, HeldOther, HeldProfile, HeldInbound, InPendCommit
<1>9. ASSUME NEW w \in Worker, Abandon(w)
      PROVE  HeldInv' /\ InPend'
  BY <1>1, <1>3, <1>4, <1>9 DEF Abandon, Done, TypeOK
<1>10. ASSUME UNCHANGED vars
       PROVE  HeldInv' /\ InPend'
  BY <1>1, <1>3, <1>10 DEF vars, InPend, InPending, Idle, Existent, Of
<1>11. HeldInv' /\ InPend'
  BY <1>1, <1>5, <1>6, <1>7, <1>8, <1>9, <1>10, Steps
<1>12. QED
  BY <1>2, <1>11 DEF FarendInv

(* With one inbound interconnection, which moves between any profiles as   *)
(* they are created, renamed and deleted, the set farendsipaddrs:in:... of *)
(* a profile has its addresses exactly as long as it is in that profile.   *)
(* With two the handlers do not keep the addresses apart                   *)
(* (libreapi.py:2370).                                                     *)
THEOREM AddressesKept == ASSUME Careful, Single PROVE Spec => []FarendsExact
<1>1. Init => FarendInv
  BY FarendInit
<1>2. FarendInv /\ [Next]_vars => FarendInv'
  BY FarendStep
<1>3. FarendInv => FarendsExact
  BY HeldExact DEF FarendInv, CarefulInv, HeldInv
<1>4. QED
  BY <1>1, <1>2, <1>3, PTL DEF Spec
===============================================================================
