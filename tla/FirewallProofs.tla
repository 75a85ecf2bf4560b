--------------------------- MODULE FirewallProofs ---------------------------
(***************************************************************************)
(* Proofs about Firewall, for any workers, liberators, sets and addresses  *)
(* and any number of requests and rule files: the types; that the packet   *)
(* filter ends up with what is stored; and that it never lets go of an     *)
(* address that is stored.                                                 *)
(***************************************************************************)
EXTENDS Firewall, SequenceTheorems, TLAPS

-----------------------------------------------------------------------------
(* Bags, lists and what is on its way.                                     *)
LEMMA BagPut ==
  ASSUME NEW B, NEW S, IsABag(B)
  PROVE  /\ IsABag(B (+) SetToBag(S))
         /\ BagToSet(B (+) SetToBag(S)) = BagToSet(B) \cup S
BY DEF IsABag, (+), SetToBag, BagToSet

LEMMA BagTake ==
  ASSUME NEW B, NEW S, IsABag(B)
  PROVE  /\ IsABag(B (-) SetToBag(S))
         /\ BagToSet(B (-) SetToBag(S)) \subseteq BagToSet(B)
         /\ BagToSet(B) \ S \subseteq BagToSet(B (-) SetToBag(S))
<1> DEFINE C == [e \in DOMAIN B |-> IF e \in DOMAIN SetToBag(S) THEN B[e] - SetToBag(S)[e] ELSE B[e]]
<1>1. B (-) SetToBag(S) = [e \in {d \in DOMAIN C : C[d] > 0} |-> C[e]]
  BY DEF (-)
<1>2. \A e \in DOMAIN B : C[e] \in Int /\ (e \notin S => C[e] = B[e] /\ B[e] \in Nat /\ B[e] > 0)
  BY DEF IsABag, SetToBag
<1>3. DOMAIN C = DOMAIN B
  OBVIOUS
<1> HIDE DEF C
<1>4. QED
  BY <1>1, <1>2, <1>3 DEF IsABag, BagToSet

LEMMA BagEmpty == IsABag(EmptyBag) /\ BagToSet(EmptyBag) = {}
BY DEF IsABag, EmptyBag, SetToBag, BagToSet

(* The positions of a list that is taken from, or added to.                *)
LEMMA TailIs ==
  ASSUME NEW T, NEW q \in Seq(T), q # <<>>
  PROVE  /\ Tail(q) \in Seq(T) /\ Head(q) \in T /\ 1 \in DOMAIN q /\ Head(q) = q[1]
         /\ \A i \in DOMAIN Tail(q) : i \in Nat /\ i + 1 \in DOMAIN q /\ Tail(q)[i] = q[i + 1]
         /\ \A i \in DOMAIN q : i = 1 \/ (i - 1 \in DOMAIN Tail(q) /\ Tail(q)[i - 1] = q[i])
<1> DEFINE r == Tail(q)
<1>1. /\ Len(q) \in Nat \ {0} /\ DOMAIN q = 1 .. Len(q) /\ \A i \in 1 .. Len(q) : q[i] \in T
      /\ Head(q) = q[1]
  OBVIOUS
<1>2. r \in Seq(T) /\ Len(r) = Len(q) - 1 /\ DOMAIN r = 1 .. Len(r)
      /\ \A i \in 1 .. Len(r) : r[i] = q[i + 1]
  BY HeadTailProperties
<1> HIDE DEF r
<1>3. \A i \in DOMAIN r : i \in Nat /\ i + 1 \in DOMAIN q /\ r[i] = q[i + 1]
  BY <1>1, <1>2
<1>4. \A i \in DOMAIN q : i = 1 \/ i - 1 \in DOMAIN r
  BY <1>1, <1>2
<1>5. \A i \in DOMAIN q : i = 1 \/ r[i - 1] = q[i]
  <2>1. \A i \in DOMAIN q : i = 1 \/ (i - 1) + 1 = i
    BY <1>1
  <2>2. QED
    BY <1>3, <1>4, <2>1
<1>6. 1 \in DOMAIN q /\ Head(q) \in T
  BY <1>1
<1>7. \A i \in DOMAIN q : i = 1 \/ (i - 1 \in DOMAIN r /\ r[i - 1] = q[i])
  BY <1>4, <1>5
<1>8. r \in Seq(T) /\ Head(q) = q[1]
  BY <1>1, <1>2
<1>9. QED
  BY <1>3, <1>6, <1>7, <1>8, Zenon DEF r

LEMMA AppendIs ==
  ASSUME NEW T, NEW q \in Seq(T), NEW x \in T
  PROVE  /\ Append(q, x) \in Seq(T) /\ Len(q) + 1 \in DOMAIN Append(q, x)
         /\ Append(q, x)[Len(q) + 1] = x
         /\ \A i \in DOMAIN q : i \in DOMAIN Append(q, x) /\ Append(q, x)[i] = q[i] /\ i < Len(q) + 1
         /\ \A i \in DOMAIN Append(q, x) : i \in DOMAIN q \/ i = Len(q) + 1
OBVIOUS

(* A message on its way is in an inbox, with a thread or published.        *)
ToldParts == \A m : m \in Told <=>
                \/ \E l \in Liberator : \E i \in DOMAIN inbox[l] : m = inbox[l][i]
                \/ m \in BagToSet(threads) /\ m.op # "file"
                \/ \E i \in DOMAIN chan : m = chan[i] /\ m.op # "file"

LEMMA ToldIs == ToldParts /\ ToldParts'
BY DEF ToldParts, Told

(* An address for which nothing is under way is in no message and in no    *)
(* request.                                                                *)
LEMMA BusyIs ==
  ASSUME NEW s, NEW a
  PROVE  a \in Busy(s) <=> \/ \E m \in Told : m.set = s /\ a \in m.addrs
                           \/ \E w \in Worker : /\ req[w] # None /\ req[w].set = s
                                                /\ a \in req[w].rem \cup req[w].add
BY DEF Busy

LEMMA CmdIs ==
  ASSUME NEW op \in {"add", "delete"}, NEW s \in Name, NEW A \in SUBSET Addr
  PROVE  /\ Cmd(op, s, A).op = op /\ Cmd(op, s, A).set = s /\ Cmd(op, s, A).addrs = A
         /\ A # {} => Cmd(op, s, A) \in Change
<1>1. Cmd(op, s, A) = [op |-> op, set |-> s, addrs |-> A]
  BY DEF Cmd
<1>2. ASSUME A # {}
      PROVE  [op |-> op, set |-> s, addrs |-> A] \in Change
  BY <1>2 DEF Change
<1>3. QED
  BY <1>1, <1>2

-----------------------------------------------------------------------------
(* The types.                                                              *)
Published == Change \cup {f \in RuleFile : Len(f.got) = Len(Sets)}

LEMMA TypeInit == Init => TypeOK
<1> SUFFICES ASSUME Init
             PROVE  TypeOK
  OBVIOUS
<1>1. IsABag(threads) /\ BagToSet(threads) = {}
  BY BagEmpty DEF Init
<1>2. QED
  BY <1>1, FirewallAssumption DEF Init, TypeOK, Reading

LEMMA TypeRequest ==
  ASSUME TypeOK, NEW w \in Worker, Read(w) \/ Commit(w) \/ Fail(w)
  PROVE  TypeOK'
<1>1. /\ req' \in [Worker -> Request \cup {None}]
      /\ \A v \in Worker : req'[v] # None => req'[v].rem \cap req'[v].add = {}
      /\ store' \in [Name -> SUBSET Addr]
  <2>1. CASE Read(w)
    <3>1. PICK s \in Name, A \in SUBSET Addr : Ask(w, s, store[s] \ A, A \ store[s])
      BY <2>1 DEF Read
    <3> DEFINE q == [pc |-> "commit", set |-> s, rem |-> store[s] \ A, add |-> A \ store[s]]
    <3>2. q \in Request /\ q.rem \cap q.add = {}
      BY DEF Request, TypeOK
    <3>3. req' = [req EXCEPT ![w] = q] /\ store' = store
      BY <3>1 DEF Ask
    <3> HIDE DEF q
    <3>4. QED
      BY <3>2, <3>3 DEF TypeOK
  <2>2. CASE Commit(w)
    <3>1. req[w] \in Request /\ req[w].rem \cap req[w].add = {}
      BY <2>2 DEF TypeOK, Commit, At
    <3>2. [req[w] EXCEPT !.pc = "rem"] \in Request
      BY <3>1 DEF Request
    <3>3. /\ [req[w] EXCEPT !.pc = "rem"].rem = req[w].rem
          /\ [req[w] EXCEPT !.pc = "rem"].add = req[w].add
      BY <3>1 DEF Request
    <3>4. req' = [req EXCEPT ![w] = [req[w] EXCEPT !.pc = "rem"]]
      BY <2>2 DEF Commit, TypeOK
    <3>5. store' \in [Name -> SUBSET Addr]
      BY <2>2, <3>1 DEF Commit, TypeOK, Request
    <3>6. QED
      BY <3>1, <3>2, <3>3, <3>4, <3>5 DEF TypeOK
  <2>3. CASE Fail(w)
    BY <2>3 DEF Fail, TypeOK
  <2>4. QED
    BY <2>1, <2>2, <2>3
<1>2. /\ raced' \in [Name -> {"no", "yes", "mending"}]
      /\ asked' \in 0 .. MaxRequests
      /\ UNCHANGED <<inbox, threads, chan, nft, updates>>
  BY FirewallAssumption DEF TypeOK, Read, Ask, Commit, Fail, Races
<1>3. Reading' = Reading
  BY <1>2 DEF Reading
<1>4. QED
  BY <1>1, <1>2, <1>3 DEF TypeOK

LEMMA TypePublish ==
  ASSUME TypeOK, NEW w \in Worker, PublishRemoved(w) \/ PublishAdded(w)
  PROVE  TypeOK'
<1>1. req[w] \in Request /\ req[w].rem \cap req[w].add = {}
  BY DEF TypeOK, PublishRemoved, PublishAdded, At
<1>2. \A m : (m.addrs = {} \/ m \in Change) /\ Broadcast(m) => inbox' \in [Liberator -> Seq(Change)]
  BY DEF Broadcast, TypeOK
<1>3. CASE PublishRemoved(w)
  <2> DEFINE m == Cmd("delete", req[w].set, req[w].rem)
             q == [req[w] EXCEPT !.pc = "add"]
  <2>1. m.addrs = {} \/ m \in Change
    BY <1>1, CmdIs DEF Request
  <2>2. q \in Request /\ q.rem = req[w].rem /\ q.add = req[w].add
    BY <1>1 DEF Request
  <2>3. Broadcast(m) /\ req' = [req EXCEPT ![w] = q] /\ UNCHANGED <<store, threads, chan, nft, asked, updates, raced>>
    BY <1>3 DEF PublishRemoved, TypeOK
  <2> HIDE DEF m, q
  <2>4. inbox' \in [Liberator -> Seq(Change)]
    BY <1>2, <2>1, <2>3
  <2>5. /\ req' \in [Worker -> Request \cup {None}]
        /\ \A v \in Worker : req'[v] # None => req'[v].rem \cap req'[v].add = {}
    BY <1>1, <2>2, <2>3 DEF TypeOK
  <2>6. QED
    BY <2>3, <2>4, <2>5 DEF TypeOK, Reading
<1>4. CASE PublishAdded(w)
  <2> DEFINE m == Cmd("add", req[w].set, req[w].add)
  <2>1. m.addrs = {} \/ m \in Change
    BY <1>1, CmdIs DEF Request
  <2>3. Broadcast(m) /\ req' = [req EXCEPT ![w] = None] /\ UNCHANGED <<store, threads, chan, nft, asked, updates, raced>>
    BY <1>4 DEF PublishAdded
  <2> HIDE DEF m
  <2>4. inbox' \in [Liberator -> Seq(Change)]
    BY <1>2, <2>1, <2>3
  <2>5. /\ req' \in [Worker -> Request \cup {None}]
        /\ \A v \in Worker : req'[v] # None => req'[v].rem \cap req'[v].add = {}
    BY <2>3 DEF TypeOK
  <2>6. QED
    BY <2>3, <2>4, <2>5 DEF TypeOK, Reading
<1>5. QED
  BY <1>3, <1>4

LEMMA TypeLiberator ==
  ASSUME TypeOK, NEW l \in Liberator, Handle(l) \/ Resubscribe(l)
  PROVE  TypeOK'
<1>1. CASE Handle(l)
  <2>1. inbox[l] \in Seq(Change) /\ inbox[l] # <<>>
    BY <1>1 DEF Handle, TypeOK
  <2>2. Tail(inbox[l]) \in Seq(Change) /\ Head(inbox[l]) \in Change
    BY <2>1, TailIs
  <2>3. /\ IsABag(threads')
        /\ BagToSet(threads') = BagToSet(threads) \cup {Head(inbox[l])}
    BY <1>1, BagPut DEF Handle, TypeOK
  <2>4. Reading' = Reading
    BY <2>2, <2>3 DEF Reading, Change
  <2>5. inbox' \in [Liberator -> Seq(Change)]
    BY <1>1, <2>2 DEF Handle, TypeOK
  <2>6. QED
    BY <1>1, <2>2, <2>3, <2>4, <2>5 DEF Handle, TypeOK
<1>2. CASE Resubscribe(l)
  BY <1>2 DEF Resubscribe, TypeOK, Reading
<1>3. QED
  BY <1>1, <1>2

LEMMA TypeUpdate == TypeOK /\ Update => TypeOK'
<1> SUFFICES ASSUME TypeOK, Update
             PROVE  TypeOK'
  OBVIOUS
<1>1. /\ IsABag(threads')
      /\ BagToSet(threads') = BagToSet(threads) \cup {File(<<>>)}
  BY BagPut DEF Update, TypeOK
<1>2. File(<<>>) \in RuleFile /\ Len(File(<<>>).got) = 0
  BY DEF File, RuleFile
<1>3. Len(Sets) \in Nat
  BY FirewallAssumption
<1>4. \A t \in Reading' : Len(t.got) <= Len(Sets)
  BY <1>1, <1>2, <1>3 DEF Reading, TypeOK
<1>5. updates' \in 0 .. MaxUpdates
  BY FirewallAssumption DEF Update, TypeOK
<1>6. QED
  BY <1>1, <1>2, <1>4, <1>5 DEF Update, TypeOK

(* What a thread that reads a set has after that.                          *)
LEMMA ReadSetIs ==
  ASSUME TypeOK, NEW t \in BagToSet(threads), ReadSet(t)
  PROVE  /\ t \in RuleFile /\ Len(t.got) \in Nat /\ Len(t.got) + 1 \in DOMAIN Sets
         /\ File(Append(t.got, store[Sets[Len(t.got) + 1]])) \in RuleFile
         /\ Len(Append(t.got, store[Sets[Len(t.got) + 1]])) <= Len(Sets)
         /\ IsABag(threads')
         /\ BagToSet(threads') \subseteq
               BagToSet(threads) \cup {File(Append(t.got, store[Sets[Len(t.got) + 1]]))}
         /\ BagToSet(threads) \ {t} \subseteq BagToSet(threads')
         /\ File(Append(t.got, store[Sets[Len(t.got) + 1]])) \in BagToSet(threads')
<1> DEFINE x == store[Sets[Len(t.got) + 1]]
           u == File(Append(t.got, x))
<1>1. t \in RuleFile
  BY DEF TypeOK, ReadSet, Change
<1>2. t.got \in Seq(SUBSET Addr) /\ Len(t.got) \in Nat /\ Len(t.got) < Len(Sets) /\ Len(Sets) \in Nat
  BY <1>1, FirewallAssumption DEF RuleFile, ReadSet
<1>3. Len(t.got) + 1 \in DOMAIN Sets
  BY <1>2, FirewallAssumption
<1>4. x \in SUBSET Addr
  BY <1>3 DEF TypeOK, Name
<1>5. Append(t.got, x) \in Seq(SUBSET Addr) /\ Len(Append(t.got, x)) = Len(t.got) + 1
  BY <1>2, <1>4
<1>6. u \in RuleFile
  BY <1>5 DEF File, RuleFile
<1>7. threads' = (threads (-) SetToBag({t})) (+) SetToBag({u})
  BY DEF ReadSet
<1>8. /\ IsABag(threads (-) SetToBag({t}))
      /\ BagToSet(threads (-) SetToBag({t})) \subseteq BagToSet(threads)
      /\ BagToSet(threads) \ {t} \subseteq BagToSet(threads (-) SetToBag({t}))
  BY BagTake DEF TypeOK
<1>9. /\ IsABag(threads')
      /\ BagToSet(threads') = BagToSet(threads (-) SetToBag({t})) \cup {u}
  <2> HIDE DEF u, x
  <2>1. QED
    BY <1>7, <1>8, BagPut
<1>10. Len(Append(t.got, x)) <= Len(Sets)
  BY <1>2, <1>5
<1>11. QED
  BY <1>1, <1>2, <1>3, <1>6, <1>8, <1>9, <1>10

LEMMA TypeReadSet ==
  ASSUME TypeOK, NEW t \in BagToSet(threads), ReadSet(t)
  PROVE  TypeOK'
<1> DEFINE g == Append(t.got, store[Sets[Len(t.got) + 1]])
<1>1. /\ File(g) \in RuleFile /\ Len(g) <= Len(Sets) /\ IsABag(threads')
      /\ BagToSet(threads') \subseteq BagToSet(threads) \cup {File(g)}
  BY ReadSetIs
<1>2. \A u \in Reading' : Len(u.got) <= Len(Sets)
  <2> HIDE DEF g
  <2>1. QED
    BY <1>1 DEF Reading, TypeOK, File
<1>3. raced' \in [Name -> {"no", "yes", "mending"}]
  BY DEF ReadSet, TypeOK
<1>4. QED
  BY <1>1, <1>2, <1>3 DEF ReadSet, TypeOK

(* A thread publishes what it has: a change, or a whole rule file.         *)
LEMMA PublishIs ==
  ASSUME TypeOK, NEW t \in BagToSet(threads), Publish(t)
  PROVE  /\ t \in Published
         /\ chan' = Append(chan, t)
         /\ IsABag(threads')
         /\ BagToSet(threads') \subseteq BagToSet(threads)
         /\ BagToSet(threads) \ {t} \subseteq BagToSet(threads')
<1>1. t \in Published
  BY DEF TypeOK, Publish, Published, RuleFile
<1>2. QED
  BY <1>1, BagTake DEF TypeOK, Publish

LEMMA TypePublishThread ==
  ASSUME TypeOK, NEW t \in BagToSet(threads), Publish(t)
  PROVE  TypeOK'
<1>1. /\ t \in Published /\ chan' = Append(chan, t) /\ IsABag(threads')
      /\ BagToSet(threads') \subseteq BagToSet(threads)
  BY PublishIs
<1>2. chan' \in Seq(Published)
  BY <1>1 DEF TypeOK, Published
<1>3. QED
  BY <1>1, <1>2 DEF Publish, TypeOK, Reading, Published

(* What is published of a set, and what a change makes of it.              *)
LEMMA ContentType ==
  ASSUME NEW m \in Published, m.op = "file", NEW s \in Name
  PROVE  Content(m, s) \in SUBSET Addr
<1>1. m.got \in Seq(SUBSET Addr) /\ Len(m.got) = Len(Sets)
  BY DEF Published, Change, RuleFile
<1>2. \E i \in DOMAIN Sets : Sets[i] = s
  BY DEF Name
<1> DEFINE k == CHOOSE i \in DOMAIN Sets : Sets[i] = s
<1>3. k \in DOMAIN Sets /\ Content(m, s) = m.got[k]
  BY <1>2 DEF Content
<1> HIDE DEF k
<1>4. DOMAIN Sets = 1 .. Len(Sets)
  BY FirewallAssumption
<1>5. QED
  BY <1>1, <1>3, <1>4

LEMMA TypeApply == TypeOK /\ Apply => TypeOK'
<1> SUFFICES ASSUME TypeOK, Apply
             PROVE  TypeOK'
  OBVIOUS
<1> DEFINE m == Head(chan)
<1>1. chan \in Seq(Published) /\ chan # <<>> /\ chan' = Tail(chan) /\ nft' = Applied(m)
  BY DEF TypeOK, Published, Apply
<1>2. m \in Published /\ chan' \in Seq(Published)
  BY <1>1, TailIs
<1> HIDE DEF m
<1>3. Applied(m) \in [Name -> SUBSET Addr]
  <2>1. CASE m.op = "file"
    BY <1>2, <2>1, ContentType DEF Applied
  <2>2. CASE m.op # "file"
    <3>1. m \in Change
      BY <1>2, <2>2 DEF Published, RuleFile
    <3>2. QED
      BY <2>2, <3>1 DEF Applied, Change, TypeOK
  <2>3. QED
    BY <2>1, <2>2
<1>4. raced' \in [Name -> {"no", "yes", "mending"}]
  BY DEF Apply, TypeOK
<1>5. QED
  BY <1>1, <1>2, <1>3, <1>4 DEF Apply, TypeOK, Reading, Published

LEMMA TypeStep == TypeOK /\ [Next]_vars => TypeOK'
<1> SUFFICES ASSUME TypeOK, [Next]_vars
             PROVE  TypeOK'
  OBVIOUS
<1>1. CASE UNCHANGED vars
  BY <1>1 DEF vars, TypeOK, Reading
<1>2. QED
  BY <1>1, TypeRequest, TypePublish, TypeLiberator, TypeUpdate, TypeReadSet,
     TypePublishThread, TypeApply DEF Next

(* The variables keep their types: a message names addresses of one set,   *)
(* a rule file that is published has all of them, and no more.             *)
THEOREM TypeCorrect == Spec => []TypeOK
BY TypeInit, TypeStep, PTL DEF Spec

-----------------------------------------------------------------------------
(* What is known of a set that has not raced.                              *)

(* A message, or a published change, about an address.                     *)
About(m, s, a) == m.op # "file" /\ m.set = s /\ a \in m.addrs

(* A set of addresses has the address if the stored set has it.            *)
Same(S, s, a) == a \in S <=> a \in store[s]

(* What the packet filter finds in the channel is as the stored set is.    *)
Current(m, s, a) == IF m.op = "file" THEN Same(Content(m, s), s, a) ELSE About(m, s, a)

Reliable == Liberator \ Unreliable

Asking(w, s) == req[w] # None /\ req[w].set = s

(* A change of the address is still to come to the packet filter, by way   *)
(* of a liberator that keeps its subscription.                             *)
Coming(s, a) ==
    \/ \E w \in Worker : /\ Asking(w, s)
                         /\ \/ req[w].pc = "rem" /\ a \in req[w].rem
                            \/ req[w].pc \in {"rem", "add"} /\ a \in req[w].add
    \/ \E l \in Reliable : \E i \in DOMAIN inbox[l] : About(inbox[l][i], s, a)
    \/ \E t \in BagToSet(threads) : About(t, s, a)
    \/ \E i \in DOMAIN chan : About(chan[i], s, a)

(* Of B, which the packet filter has, and of the rule files in the         *)
(* channel: an address is as it is stored, or will be; and once it is, no  *)
(* rule file changes that.                                                 *)
AddrInv(s, B, a) ==
    /\ Same(B, s, a) \/ Coming(s, a)
    /\ Same(B, s, a) => \A i \in DOMAIN chan : chan[i].op = "file" => Same(Content(chan[i], s), s, a)
    /\ \A i, j \in DOMAIN chan :
          i < j /\ Current(chan[i], s, a) /\ chan[j].op = "file" => Same(Content(chan[j], s), s, a)

(* Addresses that go together are all there, or none is: a deletion then   *)
(* fails only when there is nothing left to do.                            *)
Alike(A, S) == A \subseteq S \/ A \cap S = {}
Together(A, s, B) ==
    Alike(A, B) /\ \A i \in DOMAIN chan : chan[i].op = "file" => Alike(A, Content(chan[i], s))

(* A message says what is stored, and no two of them are about an address. *)
True(m, s, B) == /\ m.op = "add" => m.addrs \subseteq store[s]
                 /\ m.op = "delete" => m.addrs \cap store[s] = {} /\ Together(m.addrs, s, B)

MessageInv(s, B) ==
    /\ \A m \in Told : m.set = s => True(m, s, B)
    /\ \A m, x \in Told : m.set = s /\ x.set = s /\ m.addrs \cap x.addrs # {} => m = x
    /\ \A t \in Reading : \A i \in DOMAIN t.got : Sets[i] = s => t.got[i] = store[s]

(* A request is alone with its addresses: before it has stored them they   *)
(* are as they were, and after that only its own messages are about them.  *)
Sum(w) == req[w].rem \cup req[w].add

RequestInv(w, s, B) ==
    Asking(w, s) =>
       /\ req[w].pc = "commit" =>
             /\ req[w].rem \subseteq store[s] /\ req[w].add \cap store[s] = {}
             /\ \A a \in Sum(w) : Same(B, s, a)
       /\ req[w].pc # "commit" =>
             /\ req[w].add \subseteq store[s] /\ req[w].rem \cap store[s] = {}
             /\ Together(req[w].rem, s, B)
       /\ \A m \in Told : m.set = s =>
             /\ m.addrs \cap req[w].add = {}
             /\ m.addrs \cap req[w].rem # {} =>
                   req[w].pc = "add" /\ m = Cmd("delete", s, req[w].rem)
       /\ \A v \in Worker : v # w /\ Asking(v, s) => Sum(v) \cap Sum(w) = {}

Inv(s, B) == /\ \A a \in Addr : AddrInv(s, B, a)
             /\ MessageInv(s, B)
             /\ \A w \in Worker : RequestInv(w, s, B)

(* A set that is being mended: a rule file has been read and nothing       *)
(* changed since; or it is in the channel, and counts for what the packet  *)
(* filter has.                                                             *)
Unpublished(s) ==
    /\ Stale(s)
    /\ \A m \in Told : m.set # s
    /\ \A i \in DOMAIN chan : chan[i].op # "file"
    /\ \A w \in Worker : Asking(w, s) => req[w].pc = "commit"

FirstFile(f, s) == /\ chan[f].op = "file"
                   /\ \A j \in DOMAIN chan : j < f => chan[j].op # "file" /\ chan[j].set # s

SetInv(s) ==
    /\ raced[s] = "no" => Inv(s, nft[s])
    /\ raced[s] = "mending" =>
          \/ Unpublished(s) /\ Inv(s, store[s])
          \/ \E f \in DOMAIN chan : FirstFile(f, s) /\ Inv(s, Content(chan[f], s))

FilterInv == TypeOK /\ \A s \in Name : SetInv(s)

-----------------------------------------------------------------------------
(* Steps that do not touch a set.                                          *)

(* Nothing is told, read or asked for that was not before, or that says    *)
(* otherwise; what is to come still is.                                    *)
Untouched(s) ==
    /\ store'[s] = store[s] /\ chan' = chan
    /\ \A m \in Told' : m.set = s => m \in Told
    /\ \A t \in Reading' : \/ t \in Reading
                          \/ \A i \in DOMAIN t.got : Sets[i] = s => t.got[i] = store[s]
    /\ \A w \in Worker : Asking(w, s)' => Asking(w, s) /\ req'[w] = req[w]
    /\ \A a \in Addr : Coming(s, a) => Coming(s, a)'

LEMMA InvUntouched ==
  ASSUME NEW s \in Name, NEW B, Inv(s, B), Untouched(s)
  PROVE  Inv(s, B)'
<1>1. /\ store'[s] = store[s] /\ chan' = chan
      /\ \A m \in Told' : m.set = s => m \in Told
      /\ \A t \in Reading' : \/ t \in Reading
                            \/ \A i \in DOMAIN t.got : Sets[i] = s => t.got[i] = store[s]
      /\ \A w \in Worker : Asking(w, s)' => Asking(w, s) /\ req'[w] = req[w]
      /\ \A a \in Addr : Coming(s, a) => Coming(s, a)'
  BY DEF Untouched
<1>2. ASSUME NEW a \in Addr
      PROVE  AddrInv(s, B, a)'
  <2>1. AddrInv(s, B, a)
    BY DEF Inv
  <2>2. \A m : (Content(m, s)' = Content(m, s)) /\ (About(m, s, a)' <=> About(m, s, a))
    BY DEF Content, About
  <2>3. \A S : Same(S, s, a)' <=> Same(S, s, a)
    BY <1>1 DEF Same
  <2>4. Coming(s, a) => Coming(s, a)'
    BY <1>1
  <2> HIDE DEF Coming
  <2>5. QED
    BY <1>1, <2>1, <2>4 DEF AddrInv, Same, Current, About, Content
<1>3. \A A : Together(A, s, B)' <=> Together(A, s, B)
  BY <1>1 DEF Together, Alike, Content
<1>4. MessageInv(s, B)'
  <2>1. \A m \in Told' : m.set = s => m \in Told /\ True(m, s, B)
    BY <1>1 DEF Inv, MessageInv
  <2>2. \A m : True(m, s, B) => True(m, s, B)'
    BY <1>1, <1>3 DEF True
  <2>3. QED
    BY <1>1, <2>1, <2>2 DEF Inv, MessageInv
<1>5. ASSUME NEW w \in Worker
      PROVE  RequestInv(w, s, B)'
  <2> SUFFICES ASSUME Asking(w, s)'
               PROVE  RequestInv(w, s, B)'
    BY DEF RequestInv
  <2>1. Asking(w, s) /\ req'[w] = req[w] /\ RequestInv(w, s, B)
    BY <1>1 DEF Inv
  <2>2. \A v \in Worker : v # w /\ Asking(v, s)' => Sum(v)' \cap Sum(w)' = {}
    BY <1>1, <2>1 DEF RequestInv, Sum
  <2>3. \A a : Same(B, s, a)' <=> Same(B, s, a)
    BY <1>1 DEF Same
  <2>4. Sum(w)' = Sum(w)
    BY <2>1 DEF Sum
  <2>5. QED
    BY <1>1, <1>3, <2>1, <2>2, <2>3, <2>4 DEF RequestInv
<1>6. QED
  BY <1>2, <1>4, <1>5 DEF Inv


(* A step that does not publish keeps what is known of a set if it does so *)
(* for whatever the packet filter has.                                     *)
LEMMA SetKept ==
  ASSUME NEW s \in Name, SetInv(s), chan' = chan, nft'[s] = nft[s],
         raced'[s] \in {raced[s], "yes"},
         raced'[s] # "yes" => \A B : Inv(s, B) => Inv(s, B)',
         raced'[s] # "yes" /\ Unpublished(s) => Unpublished(s)' /\ store'[s] = store[s]
  PROVE  SetInv(s)'
<1>1. ASSUME raced'[s] = "no"
      PROVE  Inv(s, nft[s])'
  <2>1. PICK B : B = nft[s]
    OBVIOUS
  <2>2. Inv(s, B)'
    BY <1>1, <2>1 DEF SetInv
  <2>3. QED
    BY <2>1, <2>2
<1>2. ASSUME raced'[s] = "mending", Unpublished(s), Inv(s, store[s])
      PROVE  Unpublished(s)' /\ Inv(s, store[s])'
  <2>1. PICK B : B = store[s]
    OBVIOUS
  <2>2. Inv(s, B)' /\ store'[s] = B /\ Unpublished(s)'
    BY <1>2, <2>1
  <2>3. QED
    BY <2>2
<1>3. ASSUME raced'[s] = "mending",
             NEW f \in DOMAIN chan, FirstFile(f, s), Inv(s, Content(chan[f], s))
      PROVE  f \in DOMAIN chan' /\ FirstFile(f, s)' /\ Inv(s, Content(chan[f], s))'
  <2>1. PICK B : B = Content(chan[f], s)
    OBVIOUS
  <2>2. Inv(s, B)' /\ Content(chan[f], s)' = B
    BY <1>3, <2>1 DEF Content
  <2>3. Inv(s, Content(chan[f], s))'
    BY <2>2
  <2>4. FirstFile(f, s)'
    BY <1>3 DEF FirstFile
  <2>5. QED
    BY <2>3, <2>4
<1>4. raced'[s] = "mending" =>
         \/ Unpublished(s) /\ Inv(s, store[s])
         \/ \E f \in DOMAIN chan : FirstFile(f, s) /\ Inv(s, Content(chan[f], s))
  BY DEF SetInv
<1>5. QED
  BY <1>1, <1>2, <1>3, <1>4 DEF SetInv

LEMMA SetUntouched ==
  ASSUME NEW s \in Name, SetInv(s), Untouched(s), nft'[s] = nft[s],
         raced'[s] \in {raced[s], "yes"}, Stale(s) => Stale(s)'
  PROVE  SetInv(s)'
<1>1. \A B : Inv(s, B) => Inv(s, B)'
  BY InvUntouched
<1>2. /\ store'[s] = store[s] /\ chan' = chan
      /\ \A m \in Told' : m.set = s => m \in Told
      /\ \A w \in Worker : Asking(w, s)' => Asking(w, s) /\ req'[w] = req[w]
  BY DEF Untouched
<1>3. Unpublished(s) => Unpublished(s)'
  BY <1>2 DEF Unpublished
<1>4. QED
  BY <1>1, <1>2, <1>3, SetKept

-----------------------------------------------------------------------------
(* The steps of a request.                                                 *)

(* Those that publish nothing leave what is told as it is.                 *)
LEMMA NothingTold ==
  ASSUME UNCHANGED <<inbox, threads, chan>>
  PROVE  /\ Told' = Told /\ Reading' = Reading
         /\ \A s : Stale(s)' <=> Stale(s)
BY DEF Told, Reading, Stale

LEMMA RequestUntouched ==
  ASSUME NEW w \in Worker, NEW s \in Name,
         UNCHANGED <<inbox, threads, chan>>, store'[s] = store[s],
         \A v \in Worker : v # w => req'[v] = req[v],
         ~Asking(w, s) \/ req[w].pc = "commit",
         ~Asking(w, s)'
  PROVE  Untouched(s)
<1>1. /\ Told' = Told /\ Reading' = Reading
  BY NothingTold
<1>2. \A v \in Worker : Asking(v, s)' => Asking(v, s) /\ req'[v] = req[v]
  BY DEF Asking
<1>3. \A a \in Addr : Coming(s, a) => Coming(s, a)'
  BY DEF Coming, Asking, About
<1>4. QED
  BY <1>1, <1>2, <1>3 DEF Untouched

(* The look at a set, and what is to be done.                              *)
LEMMA AskIs ==
  ASSUME TypeOK, NEW w \in Worker, Read(w)
  PROVE  \E s \in Name : \E q \in Request :
            /\ req[w] = None /\ req' = [req EXCEPT ![w] = q]
            /\ q.set = s /\ q.pc = "commit"
            /\ q.rem \subseteq store[s] /\ q.add \cap store[s] = {}
            /\ raced' = IF (q.rem \cup q.add) \cap Busy(s) # {}
                        THEN [raced EXCEPT ![s] = "yes"] ELSE raced
            /\ UNCHANGED <<store, inbox, threads, chan, nft>>
<1>1. PICK s \in Name, A \in SUBSET Addr : Ask(w, s, store[s] \ A, A \ store[s])
  BY DEF Read
<1> DEFINE q == [pc |-> "commit", set |-> s, rem |-> store[s] \ A, add |-> A \ store[s]]
<1>2. q \in Request /\ q.set = s /\ q.pc = "commit"
      /\ q.rem = store[s] \ A /\ q.add = A \ store[s]
  BY DEF Request, TypeOK
<1>3. /\ req[w] = None /\ req' = [req EXCEPT ![w] = q]
      /\ raced' = IF (q.rem \cup q.add) \cap Busy(s) # {}
                  THEN [raced EXCEPT ![s] = "yes"] ELSE raced
      /\ UNCHANGED <<store, inbox, threads, chan, nft>>
  BY <1>1 DEF Ask, Races
<1> HIDE DEF q
<1>4. q.rem \subseteq store[s] /\ q.add \cap store[s] = {}
  BY <1>2
<1>5. QED
  BY <1>2, <1>3, <1>4

(* An address that is not busy is as it is stored.                         *)
LEMMA CalmIs ==
  ASSUME TypeOK, NEW s \in Name, NEW a \in Addr, a \notin Busy(s), NEW B, AddrInv(s, B, a)
  PROVE  Same(B, s, a)
<1>1. /\ \A m \in Told : m.set = s => a \notin m.addrs
      /\ \A w \in Worker : Asking(w, s) => a \notin req[w].rem \cup req[w].add
  BY BusyIs DEF Asking
<1>2. \A l \in Liberator : \A i \in DOMAIN inbox[l] : inbox[l][i] \in Told
  BY ToldIs DEF ToldParts
<1>3. /\ \A t \in BagToSet(threads) : t.op # "file" => t \in Told
      /\ \A i \in DOMAIN chan : chan[i].op # "file" => chan[i] \in Told
  BY ToldIs DEF ToldParts
<1>4. ~Coming(s, a)
  BY <1>1, <1>2, <1>3 DEF Coming, About, Reliable
<1>5. QED
  BY <1>4 DEF AddrInv

(* A request that finds nothing under way keeps what is known.             *)
LEMMA AskInv ==
  ASSUME TypeOK, NEW w \in Worker, NEW s \in Name, NEW q \in Request,
         req[w] = None, req' = [req EXCEPT ![w] = q],
         q.set = s, q.pc = "commit",
         q.rem \subseteq store[s], q.add \cap store[s] = {},
         (q.rem \cup q.add) \cap Busy(s) = {},
         UNCHANGED <<store, inbox, threads, chan, nft>>,
         NEW B, Inv(s, B)
  PROVE  Inv(s, B)'
<1>1. /\ req'[w] = q /\ q # None /\ \A v \in Worker : v # w => req'[v] = req[v]
      /\ Told' = Told /\ Reading' = Reading
  BY NothingTold, FirewallAssumption DEF TypeOK
<1>2. /\ \A m \in Told : m.set = s => m.addrs \cap (q.rem \cup q.add) = {}
      /\ \A v \in Worker : Asking(v, s) => Sum(v) \cap (q.rem \cup q.add) = {}
  BY BusyIs DEF Asking, Sum
<1>3. \A a \in q.rem \cup q.add : a \in Addr /\ Same(B, s, a)
  BY CalmIs DEF Inv, Request
<1>4. \A a : (Same(B, s, a)' <=> Same(B, s, a)) /\ (Coming(s, a) => Coming(s, a)')
  <2>1. \A a : Coming(s, a) => Coming(s, a)'
    BY <1>1 DEF Coming, Asking, About
  <2>2. QED
    BY <2>1 DEF Same
<1>5. \A a \in Addr : AddrInv(s, B, a)'
  BY <1>4 DEF Inv, AddrInv, Same, Current, About, Content
<1>6. \A A : Together(A, s, B)' <=> Together(A, s, B)
  BY DEF Together, Alike, Content
<1>7. MessageInv(s, B)'
  BY <1>1, <1>6 DEF Inv, MessageInv, True
<1>8. ASSUME NEW v \in Worker, Asking(v, s)'
      PROVE  RequestInv(v, s, B)'
  <2>1. CASE v = w
    <3>1. \A u \in Worker : u # w /\ Asking(u, s)' => Sum(u)' \cap Sum(w)' = {}
      BY <1>1, <1>2 DEF Asking, Sum
    <3>2. Sum(w)' = q.rem \cup q.add
      BY <1>1 DEF Sum
    <3>3. QED
      BY <1>1, <1>2, <1>3, <1>4, <2>1, <3>1, <3>2 DEF RequestInv
  <2>2. CASE v # w
    <3>1. Asking(v, s) /\ RequestInv(v, s, B) /\ req'[v] = req[v] /\ Sum(v)' = Sum(v)
      BY <1>1, <1>8, <2>2 DEF Asking, Inv, Sum
    <3>2. \A u \in Worker : u # v /\ Asking(u, s)' => Sum(u)' \cap Sum(v)' = {}
      BY <1>1, <1>2, <3>1 DEF Asking, Sum, RequestInv
    <3>3. QED
      BY <1>1, <1>4, <1>6, <3>1, <3>2 DEF RequestInv
  <2>3. QED
    BY <2>1, <2>2
<1>9. QED
  BY <1>5, <1>7, <1>8 DEF Inv, RequestInv

LEMMA SetRead ==
  ASSUME FilterInv, NEW w \in Worker, Read(w), NEW s \in Name
  PROVE  SetInv(s)'
<1>1. PICK z \in Name, q \in Request :
            /\ req[w] = None /\ req' = [req EXCEPT ![w] = q]
            /\ q.set = z /\ q.pc = "commit"
            /\ q.rem \subseteq store[z] /\ q.add \cap store[z] = {}
            /\ raced' = IF (q.rem \cup q.add) \cap Busy(z) # {}
                        THEN [raced EXCEPT ![z] = "yes"] ELSE raced
            /\ UNCHANGED <<store, inbox, threads, chan, nft>>
  BY AskIs DEF FilterInv
<1>2. /\ TypeOK /\ SetInv(s) /\ Told' = Told /\ (Stale(s)' <=> Stale(s))
      /\ req'[w] = q /\ q # None /\ \A v \in Worker : v # w => req'[v] = req[v]
  BY <1>1, NothingTold, FirewallAssumption DEF FilterInv, TypeOK
<1>3. CASE s # z
  <2>1. ~Asking(w, s) /\ ~Asking(w, s)'
    BY <1>1, <1>2, <1>3 DEF Asking
  <2>2. Untouched(s)
    BY <1>1, <1>2, <2>1, RequestUntouched
  <2>3. raced'[s] = raced[s] /\ nft'[s] = nft[s]
    BY <1>1, <1>2, <1>3 DEF TypeOK
  <2>4. QED
    BY <1>2, <2>2, <2>3, SetUntouched
<1>4. CASE s = z
  <2>1. raced'[s] \in {raced[s], "yes"} /\ nft'[s] = nft[s] /\ chan' = chan /\ store'[s] = store[s]
    BY <1>1, <1>2, <1>4 DEF TypeOK
  <2>2. raced'[s] # "yes" => \A B : Inv(s, B) => Inv(s, B)'
    BY <1>1, <1>2, <1>4, AskInv DEF TypeOK
  <2>3. Unpublished(s) => Unpublished(s)'
    BY <1>1, <1>2, <1>4 DEF Unpublished, Asking
  <2>4. QED
    BY <1>2, <2>1, <2>2, <2>3, SetKept
<1>5. QED
  BY <1>3, <1>4

(* The transaction: what was as it was is not any more, anywhere.          *)
LEMMA CommitInv ==
  ASSUME TypeOK, NEW w \in Worker, Commit(w), NEW s \in Name, Asking(w, s), ~Stale(s),
         NEW B, Inv(s, B)
  PROVE  Inv(s, B)'
<1> DEFINE q == req[w]
<1>0. PICK rem, add : rem = q.rem /\ add = q.add
  OBVIOUS
<1>1. /\ q \in Request /\ q # None /\ q.pc = "commit" /\ q.set = s /\ rem \cap add = {}
      /\ rem \subseteq Addr /\ add \subseteq Addr
  BY <1>0 DEF TypeOK, Commit, At, Asking, Request
<1>2. /\ store' = [store EXCEPT ![s] = (@ \ rem) \cup add]
      /\ store'[s] = (store[s] \ rem) \cup add
      /\ UNCHANGED <<inbox, threads, chan, nft>>
  BY <1>0, <1>1 DEF Commit, TypeOK
<1>3. /\ req'[w] = [q EXCEPT !.pc = "rem"] /\ \A v \in Worker : v # w => req'[v] = req[v]
  BY DEF Commit, TypeOK
<1>4. /\ req'[w] # None /\ req'[w].pc = "rem" /\ req'[w].set = s
      /\ req'[w].rem = rem /\ req'[w].add = add
  <2>1. [q EXCEPT !.pc = "rem"] \in Request
    BY <1>1 DEF Request
  <2>2. QED
    BY <1>0, <1>1, <1>3, <2>1, FirewallAssumption DEF Request
<1>5. Told' = Told /\ Reading' = Reading
  BY <1>2, NothingTold
<1>6. RequestInv(w, s, B)
  BY DEF Inv
<1>7. /\ rem \subseteq store[s] /\ add \cap store[s] = {}
      /\ \A a \in rem \cup add : Same(B, s, a)
      /\ \A m \in Told : m.set = s => m.addrs \cap (rem \cup add) = {}
      /\ \A v \in Worker : v # w /\ Asking(v, s) => Sum(v) \cap (rem \cup add) = {}
  BY <1>0, <1>1, <1>6 DEF RequestInv, Sum
<1>8. \A i \in DOMAIN chan : chan[i].op # "file" => chan[i] \in Told
  BY ToldIs DEF ToldParts
<1>9. ASSUME NEW a \in rem \cup add
      PROVE  AddrInv(s, B, a)'
  <2>1. a \in Addr /\ Same(B, s, a) /\ AddrInv(s, B, a)
    BY <1>1, <1>7, <1>9 DEF Inv
  <2>2. \A S : Same(S, s, a)' <=> ~Same(S, s, a)
    BY <1>1, <1>2, <1>7, <1>9 DEF Same
  <2>3. \A i \in DOMAIN chan : IF chan[i].op = "file" THEN Same(Content(chan[i], s), s, a)
                               ELSE ~About(chan[i], s, a)
    BY <1>7, <1>8, <1>9, <2>1 DEF AddrInv, About
  <2>4. Coming(s, a)'
    BY <1>4, <1>9 DEF Coming, Asking
  <2>5. \A i \in DOMAIN chan' : /\ ~Current(chan[i], s, a)'
                                /\ chan'[i] = chan[i]
    BY <1>2, <2>2, <2>3 DEF Current, About, Content
  <2>6. QED
    BY <2>1, <2>2, <2>4, <2>5 DEF AddrInv, Current
<1>10. ASSUME NEW a \in Addr, a \notin rem \cup add
       PROVE  AddrInv(s, B, a)'
  <2>1. \A S : Same(S, s, a)' <=> Same(S, s, a)
    BY <1>2, <1>10 DEF Same
  <2>2. Coming(s, a) => Coming(s, a)'
    BY <1>1, <1>2, <1>3, <1>4 DEF Coming, Asking, About
  <2>3. AddrInv(s, B, a)
    BY DEF Inv
  <2>4. QED
    BY <1>2, <2>1, <2>2, <2>3 DEF AddrInv, Current, About, Content
<1>11. \A A : Together(A, s, B)' <=> Together(A, s, B)
  BY <1>2 DEF Together, Alike, Content
<1>12. MessageInv(s, B)'
  <2>1. \A m \in Told : m.set = s => True(m, s, B)'
    <3>1. \A m \in Told : m.set = s => True(m, s, B) /\ m.addrs \cap (rem \cup add) = {}
      BY <1>7 DEF Inv, MessageInv
    <3>2. QED
      BY <1>2, <1>11, <3>1 DEF True
  <2>2. \A t \in Reading : \A i \in DOMAIN t.got : Sets[i] # s
    BY DEF Stale
  <2>3. QED
    BY <1>5, <2>1, <2>2 DEF Inv, MessageInv
<1>13. RequestInv(w, s, B)'
  <2>1. rem \cap store'[s] = {} /\ add \subseteq store'[s]
    BY <1>1, <1>2, <1>7
  <2>2. Together(rem, s, B)'
    <3>1. rem \subseteq B
      BY <1>7 DEF Same
    <3>2. ASSUME NEW i \in DOMAIN chan, chan[i].op = "file", NEW a \in rem
          PROVE  a \in Content(chan[i], s)
      BY <1>1, <1>7, <3>2 DEF Inv, AddrInv, Same
    <3>3. Together(rem, s, B)
      BY <3>1, <3>2 DEF Together, Alike
    <3>4. QED
      BY <1>11, <3>3
  <2>3. Sum(w)' = rem \cup add
    BY <1>4 DEF Sum
  <2>4. \A v \in Worker : v # w /\ Asking(v, s)' => Sum(v)' \cap Sum(w)' = {}
    BY <1>3, <1>7, <2>3 DEF Asking, Sum
  <2>5. \A m \in Told' : m.set = s => m.addrs \cap rem = {} /\ m.addrs \cap add = {}
    BY <1>5, <1>7
  <2>6. QED
    BY <1>4, <2>1, <2>2, <2>4, <2>5 DEF RequestInv
<1>14. ASSUME NEW v \in Worker, v # w, Asking(v, s)'
       PROVE  RequestInv(v, s, B)'
  <2>1. Asking(v, s) /\ req'[v] = req[v] /\ Sum(v)' = Sum(v) /\ RequestInv(v, s, B)
    BY <1>3, <1>14 DEF Asking, Sum, Inv
  <2>2. Sum(v) \cap (rem \cup add) = {}
    BY <1>7, <1>14, <2>1
  <2>3. \A u \in Worker : u # v /\ Asking(u, s)' => Sum(u)' \cap Sum(v)' = {}
    <3>1. Sum(w)' = rem \cup add
      BY <1>4 DEF Sum
    <3>2. QED
      BY <1>3, <2>1, <2>2, <3>1 DEF Asking, Sum, RequestInv
  <2>4. \A a \in Sum(v) : Same(B, s, a)' <=> Same(B, s, a)
    BY <1>2, <2>2 DEF Same
  <2>5. /\ \A A : A \subseteq Sum(v) => (A \subseteq store'[s] <=> A \subseteq store[s])
        /\ \A A : A \subseteq Sum(v) => (A \cap store'[s] = {} <=> A \cap store[s] = {})
    BY <1>2, <2>2
  <2>6. req[v].rem \subseteq Sum(v) /\ req[v].add \subseteq Sum(v)
    BY DEF Sum
  <2>7. QED
    BY <1>5, <1>11, <2>1, <2>3, <2>4, <2>5, <2>6 DEF RequestInv
<1>15. QED
  BY <1>9, <1>10, <1>12, <1>13, <1>14 DEF Inv, RequestInv

LEMMA SetCommit ==
  ASSUME FilterInv, NEW w \in Worker, Commit(w), NEW s \in Name
  PROVE  SetInv(s)'
<1>1. /\ TypeOK /\ SetInv(s) /\ Told' = Told /\ (Stale(s)' <=> Stale(s))
      /\ req[w] \in Request /\ req[w] # None /\ req[w].pc = "commit"
      /\ chan' = chan /\ nft' = nft /\ UNCHANGED <<inbox, threads, chan>>
  BY NothingTold DEF FilterInv, TypeOK, Commit, At
<1>2. CASE ~Asking(w, s)
  <2>1. req[w].set # s
    BY <1>1, <1>2 DEF Asking
  <2>2. store'[s] = store[s] /\ raced'[s] = raced[s]
    BY <1>1, <2>1 DEF Commit, Races, TypeOK
  <2>3. /\ ~Asking(w, s)'
        /\ \A v \in Worker : v # w => req'[v] = req[v]
    <3>1. req'[w] = [req[w] EXCEPT !.pc = "rem"] /\ \A v \in Worker : v # w => req'[v] = req[v]
      BY <1>1 DEF Commit, TypeOK
    <3>2. [req[w] EXCEPT !.pc = "rem"].set = req[w].set
      BY <1>1 DEF Request
    <3>3. QED
      BY <2>1, <3>1, <3>2 DEF Asking
  <2>4. Untouched(s)
    BY <1>1, <1>2, <2>2, <2>3, RequestUntouched
  <2>5. QED
    BY <1>1, <2>2, <2>4, SetUntouched
<1>3. CASE Asking(w, s)
  <2>1. raced'[s] \in {raced[s], "yes"} /\ (Stale(s) => raced'[s] = "yes")
    BY <1>1, <1>3 DEF Commit, Races, TypeOK, Asking
  <2>2. raced'[s] # "yes" => \A B : Inv(s, B) => Inv(s, B)'
    BY <1>1, <1>3, <2>1, CommitInv
  <2>3. raced'[s] # "yes" => ~Unpublished(s)
    BY <2>1 DEF Unpublished
  <2>4. QED
    BY <1>1, <2>1, <2>2, <2>3, SetKept
<1>4. QED
  BY <1>2, <1>3

LEMMA SetFail ==
  ASSUME FilterInv, NEW w \in Worker, Fail(w), NEW s \in Name
  PROVE  SetInv(s)'
<1>1. /\ TypeOK /\ SetInv(s) /\ (Stale(s)' <=> Stale(s))
      /\ req[w] \in Request /\ req[w] # None
      /\ req'[w] = None /\ \A v \in Worker : v # w => req'[v] = req[v]
      /\ nft' = nft /\ store' = store /\ UNCHANGED <<inbox, threads, chan>>
  BY NothingTold DEF FilterInv, TypeOK, Fail
<1>2. ~Asking(w, s)'
  BY <1>1 DEF Asking
<1>3. CASE ~Asking(w, s) \/ req[w].pc = "commit"
  <2>1. Untouched(s)
    BY <1>1, <1>2, <1>3, RequestUntouched
  <2>2. raced'[s] = raced[s]
    BY <1>1, <1>3 DEF Fail, Races, Asking, TypeOK
  <2>3. QED
    BY <1>1, <2>1, <2>2, SetUntouched
<1>4. CASE Asking(w, s) /\ req[w].pc # "commit"
  <2>1. raced'[s] = "yes"
    BY <1>1, <1>4 DEF Fail, Races, Asking, TypeOK
  <2>2. QED
    BY <2>1 DEF SetInv
<1>5. QED
  BY <1>3, <1>4

-----------------------------------------------------------------------------
(* The messages of a request.                                              *)

LEMMA BroadcastIs ==
  ASSUME TypeOK, NEW m, m.addrs = {} \/ m \in Change, Broadcast(m), UNCHANGED <<threads, chan>>
  PROVE  /\ Told' \subseteq Told \cup (IF m.addrs = {} THEN {} ELSE {m})
         /\ Reading' = Reading
         /\ \A s : Stale(s)' <=> Stale(s)
         /\ \A l \in Liberator : \A i \in DOMAIN inbox[l] :
               i \in DOMAIN inbox'[l] /\ inbox'[l][i] = inbox[l][i]
         /\ m.addrs # {} => \E l \in Reliable : \E i \in DOMAIN inbox'[l] : inbox'[l][i] = m
<1>1. Reading' = Reading /\ \A s : Stale(s)' <=> Stale(s)
  BY DEF Reading, Stale
<1>2. CASE m.addrs = {}
  <2>1. inbox' = inbox
    BY <1>2 DEF Broadcast
  <2>2. QED
    BY <1>1, <1>2, <2>1 DEF Told
<1>3. CASE m.addrs # {}
  <2>1. \A l \in Liberator : inbox[l] \in Seq(Change) /\ inbox'[l] = Append(inbox[l], m)
    BY <1>3 DEF Broadcast, TypeOK
  <2>2. \A l \in Liberator :
           /\ Len(inbox[l]) + 1 \in DOMAIN inbox'[l] /\ inbox'[l][Len(inbox[l]) + 1] = m
           /\ \A i \in DOMAIN inbox[l] : i \in DOMAIN inbox'[l] /\ inbox'[l][i] = inbox[l][i]
           /\ \A i \in DOMAIN inbox'[l] : i \in DOMAIN inbox[l] \/ i = Len(inbox[l]) + 1
    BY <1>3, <2>1, AppendIs
  <2>3. \E l \in Liberator : l \in Reliable
    BY FirewallAssumption DEF Reliable
  <2>4. ASSUME NEW x \in Told'
        PROVE  x \in Told \cup {m}
    <3>1. \/ \E l \in Liberator : \E i \in DOMAIN inbox'[l] : x = inbox'[l][i]
          \/ x \in BagToSet(threads) /\ x.op # "file"
          \/ \E i \in DOMAIN chan : x = chan[i] /\ x.op # "file"
      BY <2>4, ToldIs DEF ToldParts
    <3>2. \/ x = m
          \/ \E l \in Liberator : \E i \in DOMAIN inbox[l] : x = inbox[l][i]
          \/ x \in BagToSet(threads) /\ x.op # "file"
          \/ \E i \in DOMAIN chan : x = chan[i] /\ x.op # "file"
      BY <2>2, <3>1
    <3>3. QED
      BY <3>2, ToldIs DEF ToldParts
  <2>5. QED
    BY <1>1, <1>3, <2>2, <2>3, <2>4 DEF Reliable
<1>4. QED
  BY <1>2, <1>3

(* What is the same in both messages: pc is what the request goes on with. *)
Sends(w, s, m) ==
    /\ req[w] # None /\ req[w].set = s /\ m.set = s
    /\ \/ /\ req[w].pc = "rem" /\ m = Cmd("delete", s, req[w].rem)
          /\ req' = [req EXCEPT ![w] = [req[w] EXCEPT !.pc = "add"]]
       \/ /\ req[w].pc = "add" /\ m = Cmd("add", s, req[w].add)
          /\ req' = [req EXCEPT ![w] = None]
    /\ Broadcast(m)
    /\ UNCHANGED <<store, threads, chan, nft, raced>>

LEMMA SendsIs ==
  ASSUME TypeOK, NEW w \in Worker, PublishRemoved(w) \/ PublishAdded(w)
  PROVE  \E s \in Name : \E m : Sends(w, s, m) /\ (m.addrs = {} \/ m \in Change)
<1>1. req[w] # None /\ req[w] \in Request
  BY DEF TypeOK, PublishRemoved, PublishAdded, At
<1>2. req[w].set \in Name /\ req[w].rem \in SUBSET Addr /\ req[w].add \in SUBSET Addr
  BY <1>1 DEF Request
<1>3. CASE PublishRemoved(w)
  <2>1. PICK m : m = Cmd("delete", req[w].set, req[w].rem)
    OBVIOUS
  <2>2. m.set = req[w].set /\ (m.addrs = {} \/ m \in Change)
    BY <1>2, <2>1, CmdIs
  <2>3. Sends(w, req[w].set, m)
    BY <1>1, <1>3, <2>1, <2>2 DEF Sends, PublishRemoved, At, TypeOK
  <2>4. QED
    BY <1>2, <2>2, <2>3
<1>4. CASE PublishAdded(w)
  <2>1. PICK m : m = Cmd("add", req[w].set, req[w].add)
    OBVIOUS
  <2>2. m.set = req[w].set /\ (m.addrs = {} \/ m \in Change)
    BY <1>2, <2>1, CmdIs
  <2>3. Sends(w, req[w].set, m)
    BY <1>1, <1>4, <2>1, <2>2 DEF Sends, PublishAdded, At
  <2>4. QED
    BY <1>2, <2>2, <2>3
<1>5. QED
  BY <1>3, <1>4

(* What a request stored comes to the packet filter with its messages.     *)
LEMMA SendComing ==
  ASSUME TypeOK, NEW w \in Worker, NEW s \in Name, NEW m, Sends(w, s, m),
         m.addrs = {} \/ m \in Change,
         NEW z \in Name, NEW a, Coming(z, a)
  PROVE  Coming(z, a)'
<1>1. /\ \A l \in Liberator : \A i \in DOMAIN inbox[l] :
               i \in DOMAIN inbox'[l] /\ inbox'[l][i] = inbox[l][i]
      /\ m.addrs # {} => \E l \in Reliable : \E i \in DOMAIN inbox'[l] : inbox'[l][i] = m
      /\ Broadcast(m) /\ UNCHANGED <<threads, chan>>
  BY BroadcastIs DEF Sends
<1>2. req[w] \in Request /\ req[w] # None
  BY DEF Sends, TypeOK
<1>3. CASE \E l \in Reliable : \E i \in DOMAIN inbox[l] : About(inbox[l][i], z, a)
  BY <1>1, <1>3 DEF Coming, About, Reliable
<1>4. CASE \/ \E t \in BagToSet(threads) : About(t, z, a)
           \/ \E i \in DOMAIN chan : About(chan[i], z, a)
  BY <1>1, <1>4 DEF Coming, About
<1>5. ASSUME NEW v \in Worker, Asking(v, z),
             \/ req[v].pc = "rem" /\ a \in req[v].rem
             \/ req[v].pc \in {"rem", "add"} /\ a \in req[v].add
      PROVE  Coming(z, a)'
  <2>1. CASE v # w
    <3>1. req'[v] = req[v]
      BY <2>1 DEF Sends, TypeOK
    <3>2. QED
      BY <1>5, <3>1 DEF Coming, Asking
  <2>2. CASE v = w
    <3>1. z = s
      BY <1>5, <2>2 DEF Sends, Asking
    <3>2. CASE req[w].pc = "rem" /\ a \in req[w].add
      <4>1. req'[w] = [req[w] EXCEPT !.pc = "add"]
        BY <3>2 DEF Sends, TypeOK
      <4>2. /\ [req[w] EXCEPT !.pc = "add"] \in Request
            /\ [req[w] EXCEPT !.pc = "add"].add = req[w].add
            /\ [req[w] EXCEPT !.pc = "add"].set = req[w].set
            /\ [req[w] EXCEPT !.pc = "add"].pc = "add"
        BY <1>2 DEF Request
      <4>3. Asking(w, z)' /\ req'[w].pc = "add" /\ a \in req'[w].add
        BY <1>5, <2>2, <3>2, <4>1, <4>2, FirewallAssumption DEF Asking
      <4>4. QED
        BY <4>3 DEF Coming
    <3>3. CASE \/ req[w].pc = "rem" /\ a \in req[w].rem
               \/ req[w].pc = "add" /\ a \in req[w].add
      <4>1. req[w].rem \in SUBSET Addr /\ req[w].add \in SUBSET Addr
        BY <1>2 DEF Request
      <4>2. m.op # "file" /\ m.set = s /\ a \in m.addrs
        BY <3>3, <4>1, CmdIs DEF Sends
      <4>3. \E l \in Reliable : \E i \in DOMAIN inbox'[l] : inbox'[l][i] = m
        BY <1>1, <4>2
      <4>4. QED
        BY <3>1, <4>2, <4>3 DEF Coming, About
    <3>4. QED
      BY <1>5, <2>2, <3>2, <3>3
  <2>3. QED
    BY <2>1, <2>2
<1>6. QED
  BY <1>3, <1>4, <1>5 DEF Coming

LEMMA SendInv ==
  ASSUME TypeOK, NEW w \in Worker, NEW s \in Name, NEW m, Sends(w, s, m),
         m.addrs = {} \/ m \in Change, NEW B, Inv(s, B)
  PROVE  Inv(s, B)'
<1>0. PICK rem, add : rem = req[w].rem /\ add = req[w].add
  OBVIOUS
<1>1. /\ req[w] \in Request /\ req[w] # None /\ req[w].set = s /\ rem \cap add = {}
      /\ rem \in SUBSET Addr /\ add \in SUBSET Addr /\ Asking(w, s)
  BY <1>0 DEF TypeOK, Sends, Request, Asking
<1>2. /\ Told' \subseteq Told \cup (IF m.addrs = {} THEN {} ELSE {m})
      /\ Reading' = Reading
      /\ UNCHANGED <<store, threads, chan, nft, raced>>
  BY BroadcastIs DEF Sends
<1>3. /\ rem \cap store[s] = {} /\ add \subseteq store[s]
      /\ Together(rem, s, B)
      /\ \A x \in Told : x.set = s =>
             /\ x.addrs \cap add = {}
             /\ x.addrs \cap rem # {} => req[w].pc = "add" /\ x = Cmd("delete", s, rem)
      /\ \A v \in Worker : v # w /\ Asking(v, s) => Sum(v) \cap (rem \cup add) = {}
  <2>1. RequestInv(w, s, B) /\ req[w].pc # "commit"
    BY DEF Inv, Sends
  <2>2. QED
    BY <1>0, <1>1, <2>1 DEF RequestInv, Sum
<1>4. /\ m.set = s /\ m.addrs \subseteq rem \cup add
      /\ m.op = "delete" => m.addrs = rem /\ req[w].pc = "rem"
      /\ m.op = "add" => m.addrs = add /\ req[w].pc = "add"
      /\ m.op \in {"delete", "add"}
  BY <1>0, <1>1, CmdIs DEF Sends
<1>5. \A a \in Addr : AddrInv(s, B, a)'
  <2>1. \A a : Coming(s, a) => Coming(s, a)'
    BY SendComing
  <2>2. QED
    BY <1>2, <2>1 DEF Inv, AddrInv, Same, Current, About, Content
<1>6. \A A : Together(A, s, B)' <=> Together(A, s, B)
  BY <1>2 DEF Together, Alike, Content
<1>7. \A x : True(x, s, B) => True(x, s, B)'
  BY <1>2, <1>6 DEF True
<1>8. True(m, s, B)
  BY <1>3, <1>4 DEF True
<1>9. \A x \in Told : x.set = s => x.addrs \cap m.addrs = {}
  BY <1>3, <1>4
<1>10. MessageInv(s, B)'
  <2>1. \A x \in Told' : x.set = s => True(x, s, B)'
    BY <1>2, <1>7, <1>8 DEF Inv, MessageInv
  <2>2. \A x, y \in Told' : x.set = s /\ y.set = s /\ x.addrs \cap y.addrs # {} => x = y
    BY <1>2, <1>9 DEF Inv, MessageInv
  <2>3. QED
    BY <1>2, <2>1, <2>2 DEF Inv, MessageInv
<1>11. ASSUME NEW v \in Worker, v # w, Asking(v, s)'
       PROVE  RequestInv(v, s, B)'
  <2>1. Asking(v, s) /\ req'[v] = req[v] /\ Sum(v)' = Sum(v) /\ RequestInv(v, s, B)
    BY <1>11 DEF Sends, TypeOK, Asking, Sum, Inv
  <2>2. Sum(v) \cap (rem \cup add) = {}
    BY <1>3, <1>11, <2>1
  <2>3. Asking(w, s)' => Sum(w)' \subseteq rem \cup add
    <3>1. Asking(w, s)' => req'[w] = [req[w] EXCEPT !.pc = "add"]
      BY <1>1 DEF Asking, Sends, TypeOK
    <3>2. /\ [req[w] EXCEPT !.pc = "add"].rem = rem
          /\ [req[w] EXCEPT !.pc = "add"].add = add
      BY <1>0, <1>1 DEF Request
    <3>3. QED
      BY <3>1, <3>2 DEF Sum
  <2>4. \A u \in Worker : u # w => (Asking(u, s)' <=> Asking(u, s)) /\ Sum(u)' = Sum(u)
    BY DEF Sends, TypeOK, Asking, Sum
  <2>5. \A u \in Worker : u # v /\ Asking(u, s)' => Sum(u)' \cap Sum(v)' = {}
    <3>1. \A u \in Worker : u # v /\ u # w /\ Asking(u, s)' => Sum(u)' \cap Sum(v)' = {}
      BY <2>1, <2>4 DEF RequestInv
    <3>2. QED
      BY <2>1, <2>2, <2>3, <3>1
  <2>6. \A x \in Told' : x.set = s =>
             /\ x.addrs \cap req[v].add = {}
             /\ x.addrs \cap req[v].rem # {} => req[v].pc = "add" /\ x = Cmd("delete", s, req[v].rem)
    <3>1. m.addrs \cap req[v].add = {} /\ m.addrs \cap req[v].rem = {}
      BY <1>4, <2>2 DEF Sum
    <3>2. QED
      BY <1>2, <2>1, <3>1 DEF RequestInv
  <2>7. \A a : Same(B, s, a)' <=> Same(B, s, a)
    BY <1>2 DEF Same
  <2>8. QED
    BY <1>2, <1>6, <2>1, <2>5, <2>6, <2>7 DEF RequestInv
<1>12. ASSUME Asking(w, s)'
       PROVE  RequestInv(w, s, B)'
  <2>1. req[w].pc = "rem" /\ m = Cmd("delete", s, rem) /\ req'[w] = [req[w] EXCEPT !.pc = "add"]
    BY <1>0, <1>12 DEF Asking, Sends, TypeOK
  <2>2. req'[w].pc = "add" /\ req'[w].rem = rem /\ req'[w].add = add
    BY <1>0, <1>1, <2>1 DEF Request
  <2>3. \A x \in Told' : x.set = s =>
             /\ x.addrs \cap add = {}
             /\ x.addrs \cap rem # {} => x = Cmd("delete", s, rem)
    BY <1>1, <1>2, <1>3, <1>4, <2>1
  <2>4. \A v \in Worker : v # w => (Asking(v, s)' <=> Asking(v, s)) /\ Sum(v)' = Sum(v)
    BY DEF Sends, TypeOK, Asking, Sum
  <2>5. Sum(w)' = rem \cup add
    BY <2>2 DEF Sum
  <2>6. \A v \in Worker : v # w /\ Asking(v, s)' => Sum(v)' \cap Sum(w)' = {}
    BY <1>3, <2>4, <2>5
  <2>7. Together(rem, s, B)'
    BY <1>3, <1>6
  <2>8. QED
    BY <1>2, <1>3, <2>2, <2>3, <2>6, <2>7 DEF RequestInv
<1>13. QED
  BY <1>5, <1>10, <1>11, <1>12 DEF Inv, RequestInv

LEMMA SetSend ==
  ASSUME FilterInv, NEW w \in Worker, PublishRemoved(w) \/ PublishAdded(w), NEW s \in Name
  PROVE  SetInv(s)'
<1>1. PICK z \in Name : \E x : Sends(w, z, x) /\ (x.addrs = {} \/ x \in Change)
  BY SendsIs DEF FilterInv
<1>2. PICK m : Sends(w, z, m) /\ (m.addrs = {} \/ m \in Change)
  BY <1>1
<1>3. /\ TypeOK /\ SetInv(s) /\ nft' = nft /\ chan' = chan /\ store' = store /\ raced' = raced
  BY <1>2 DEF FilterInv, Sends
<1>4. /\ Told' \subseteq Told \cup (IF m.addrs = {} THEN {} ELSE {m})
      /\ Reading' = Reading
      /\ Stale(s)' <=> Stale(s)
  BY <1>2, <1>3, BroadcastIs DEF Sends
<1>5. CASE s # z
  <2>1. \A v \in Worker : Asking(v, s)' => Asking(v, s) /\ req'[v] = req[v]
    <3>1. \A v \in Worker : v # w => req'[v] = req[v]
      BY <1>2, <1>3 DEF Sends, TypeOK
    <3>2. ~Asking(w, s)'
      <4>1. req[w] \in Request /\ req[w].set = z
        BY <1>2, <1>3 DEF Sends, TypeOK
      <4>2. [req[w] EXCEPT !.pc = "add"].set = z
        BY <4>1 DEF Request
      <4>3. req'[w] \in {None, [req[w] EXCEPT !.pc = "add"]}
        BY <1>2, <1>3 DEF Sends, TypeOK
      <4>4. QED
        BY <1>5, <4>2, <4>3 DEF Asking
    <3>3. QED
      BY <3>1, <3>2 DEF Asking
  <2>2. \A x \in Told' : x.set = s => x \in Told
    BY <1>2, <1>4, <1>5 DEF Sends
  <2>3. \A a \in Addr : Coming(s, a) => Coming(s, a)'
    BY <1>2, <1>3, SendComing
  <2>4. Untouched(s)
    BY <1>3, <1>4, <2>1, <2>2, <2>3 DEF Untouched
  <2>5. QED
    BY <1>3, <1>4, <2>4, SetUntouched
<1>6. CASE s = z
  <2>1. \A B : Inv(s, B) => Inv(s, B)'
    BY <1>2, <1>3, <1>6, SendInv
  <2>2. ~Unpublished(s)
    BY <1>2, <1>6 DEF Unpublished, Asking, Sends
  <2>3. QED
    BY <1>3, <2>1, <2>2, SetKept
<1>7. QED
  BY <1>5, <1>6

-----------------------------------------------------------------------------
(* The liberators.                                                         *)
LEMMA HandleTold ==
  ASSUME TypeOK, NEW l \in Liberator, Handle(l)
  PROVE  /\ Told' \subseteq Told /\ Reading' = Reading
         /\ \A s : \A a : Coming(s, a) => Coming(s, a)'
<1>1. PICK m : m = Head(inbox[l])
  OBVIOUS
<1>2. /\ inbox[l] \in Seq(Change) /\ inbox[l] # <<>> /\ m \in Change /\ m.op # "file"
      /\ inbox'[l] = Tail(inbox[l]) /\ \A k \in Liberator : k # l => inbox'[k] = inbox[k]
      /\ BagToSet(threads') = BagToSet(threads) \cup {m}
      /\ UNCHANGED <<req, chan>>
  <2>1. inbox[l] \in Seq(Change) /\ inbox[l] # <<>>
    BY DEF Handle, TypeOK
  <2>2. m \in Change
    BY <1>1, <2>1, TailIs
  <2>3. BagToSet(threads') = BagToSet(threads) \cup {m}
    BY <1>1, BagPut DEF Handle, TypeOK
  <2>4. m.op # "file"
    BY <2>2 DEF Change
  <2>5. QED
    BY <2>1, <2>2, <2>3, <2>4 DEF Handle, TypeOK
<1>3. /\ 1 \in DOMAIN inbox[l] /\ m = inbox[l][1]
      /\ \A i \in DOMAIN inbox'[l] : \E j \in DOMAIN inbox[l] : inbox'[l][i] = inbox[l][j]
      /\ \A j \in DOMAIN inbox[l] :
            inbox[l][j] = m \/ \E i \in DOMAIN inbox'[l] : inbox'[l][i] = inbox[l][j]
  <2>1. PICK q \in Seq(Change) : q = inbox[l]
    BY <1>2
  <2>2. /\ 1 \in DOMAIN q /\ Head(q) = q[1]
        /\ \A i \in DOMAIN Tail(q) : \E j \in DOMAIN q : Tail(q)[i] = q[j]
        /\ \A j \in DOMAIN q : j = 1 \/ \E i \in DOMAIN Tail(q) : Tail(q)[i] = q[j]
    BY <1>2, <2>1, TailIs
  <2>3. QED
    BY <1>1, <1>2, <2>1, <2>2
<1>4. ASSUME NEW x \in Told'
      PROVE  x \in Told
  <2>1. \/ \E k \in Liberator : \E i \in DOMAIN inbox'[k] : x = inbox'[k][i]
        \/ x \in BagToSet(threads') /\ x.op # "file"
        \/ \E i \in DOMAIN chan : x = chan[i] /\ x.op # "file"
    BY <1>2, <1>4, ToldIs DEF ToldParts
  <2>2. \/ \E k \in Liberator : \E i \in DOMAIN inbox[k] : x = inbox[k][i]
        \/ x \in BagToSet(threads) /\ x.op # "file"
        \/ \E i \in DOMAIN chan : x = chan[i] /\ x.op # "file"
    <3>1. ASSUME NEW k \in Liberator, NEW i \in DOMAIN inbox'[k]
          PROVE  \E j \in DOMAIN inbox[k] : inbox'[k][i] = inbox[k][j]
      <4>1. CASE k # l
        <5>1. inbox'[k] = inbox[k]
          BY <1>2, <4>1
        <5>2. QED
          BY <3>1, <5>1
      <4>2. CASE k = l
        BY <1>3, <3>1, <4>2
      <4>3. QED
        BY <4>1, <4>2
    <3>2. x \in BagToSet(threads') => x \in BagToSet(threads) \/ x = m
      BY <1>2
    <3>3. x = m => \E k \in Liberator : \E i \in DOMAIN inbox[k] : x = inbox[k][i]
      BY <1>3
    <3>4. (\E k \in Liberator : \E i \in DOMAIN inbox'[k] : x = inbox'[k][i])
             => \E k \in Liberator : \E i \in DOMAIN inbox[k] : x = inbox[k][i]
      BY <3>1
    <3>5. QED
      BY <2>1, <3>2, <3>3, <3>4, Zenon
  <2>3. QED
    BY <2>2, ToldIs DEF ToldParts
<1>5. Reading' = Reading
  BY <1>2 DEF Reading
<1>6. ASSUME NEW s, NEW a, Coming(s, a)
      PROVE  Coming(s, a)'
  <2>1. CASE \E k \in Reliable : \E i \in DOMAIN inbox[k] : About(inbox[k][i], s, a)
    <3>0. PICK k \in Reliable : \E i \in DOMAIN inbox[k] : About(inbox[k][i], s, a)
      BY <2>1
    <3>1. PICK i \in DOMAIN inbox[k] : About(inbox[k][i], s, a)
      BY <3>0
    <3>2. CASE k # l
      BY <1>2, <3>1, <3>2 DEF Coming, About, Reliable
    <3>3. CASE k = l
      <4>1. inbox[l][i] = m \/ \E j \in DOMAIN inbox'[l] : inbox'[l][j] = inbox[l][i]
        BY <1>3, <3>1, <3>3
      <4>2. About(inbox[l][i], s, a) /\ l \in Reliable
        BY <3>1, <3>3
      <4>3. CASE inbox[l][i] = m
        BY <1>2, <4>2, <4>3 DEF Coming, About
      <4>4. CASE \E j \in DOMAIN inbox'[l] : inbox'[l][j] = inbox[l][i]
        BY <4>2, <4>4 DEF Coming, About, Reliable
      <4>5. QED
        BY <4>1, <4>3, <4>4
    <3>4. QED
      BY <3>2, <3>3
  <2>2. CASE ~\E k \in Reliable : \E i \in DOMAIN inbox[k] : About(inbox[k][i], s, a)
    BY <1>2, <1>6, <2>2 DEF Coming, About, Asking
  <2>3. QED
    BY <2>1, <2>2
<1>7. QED
  BY <1>4, <1>5, <1>6

LEMMA SetHandle ==
  ASSUME FilterInv, NEW l \in Liberator, Handle(l), NEW s \in Name
  PROVE  SetInv(s)'
<1>1. /\ TypeOK /\ SetInv(s) /\ UNCHANGED <<store, req, chan, nft, raced>>
      /\ Told' \subseteq Told /\ Reading' = Reading
      /\ \A a : Coming(s, a) => Coming(s, a)'
  BY HandleTold DEF FilterInv, Handle
<1>2. Untouched(s)
  BY <1>1 DEF Untouched, Asking
<1>3. Stale(s)' <=> Stale(s)
  BY <1>1 DEF Stale
<1>4. QED
  BY <1>1, <1>2, <1>3, SetUntouched

(* A liberator that subscribes anew is not one that is relied upon.        *)
LEMMA SetResubscribe ==
  ASSUME FilterInv, NEW l \in Liberator, Resubscribe(l), NEW s \in Name
  PROVE  SetInv(s)'
<1>1. /\ TypeOK /\ SetInv(s) /\ UNCHANGED <<store, req, threads, chan, nft, raced>>
      /\ inbox'[l] = <<>> /\ \A k \in Liberator : k # l => inbox'[k] = inbox[k]
      /\ l \notin Reliable
  BY DEF FilterInv, TypeOK, Resubscribe, Reliable
<1>2. Told' \subseteq Told
  <2>1. \A x \in Told' : \/ \E k \in Liberator : \E i \in DOMAIN inbox[k] : x = inbox[k][i]
                         \/ x \in BagToSet(threads) /\ x.op # "file"
                         \/ \E i \in DOMAIN chan : x = chan[i] /\ x.op # "file"
    BY <1>1, ToldIs DEF ToldParts
  <2>2. QED
    BY <2>1, ToldIs DEF ToldParts
<1>3. Reading' = Reading /\ (Stale(s)' <=> Stale(s))
  BY <1>1 DEF Reading, Stale
<1>4. \A a : Coming(s, a) => Coming(s, a)'
  BY <1>1 DEF Coming, Asking, About, Reliable
<1>5. Untouched(s)
  BY <1>1, <1>2, <1>3, <1>4 DEF Untouched, Asking
<1>6. QED
  BY <1>1, <1>3, <1>5, SetUntouched

LEMMA SetUpdate ==
  ASSUME FilterInv, Update, NEW s \in Name
  PROVE  SetInv(s)'
<1>1. /\ TypeOK /\ SetInv(s) /\ UNCHANGED <<store, req, inbox, chan, nft, raced>>
      /\ BagToSet(threads') = BagToSet(threads) \cup {File(<<>>)}
  BY BagPut DEF FilterInv, TypeOK, Update
<1>2. File(<<>>).op = "file" /\ DOMAIN File(<<>>).got = {}
  BY DEF File
<1>3. Told' = Told
  <2>1. \A x : x \in Told' <=> x \in Told
    BY <1>1, <1>2, ToldIs DEF ToldParts
  <2>2. QED
    BY <2>1
<1>4. Reading' = Reading \cup {File(<<>>)}
  BY <1>1, <1>2 DEF Reading
<1>5. Stale(s)' <=> Stale(s)
  BY <1>2, <1>4 DEF Stale
<1>6. \A a : Coming(s, a) => Coming(s, a)'
  BY <1>1 DEF Coming, Asking, About
<1>7. Untouched(s)
  BY <1>1, <1>2, <1>3, <1>4, <1>6 DEF Untouched, Asking
<1>8. QED
  BY <1>1, <1>5, <1>7, SetUntouched

-----------------------------------------------------------------------------
(* The rule file.                                                          *)
LEMMA ReadSetGot ==
  ASSUME TypeOK, NEW t \in BagToSet(threads), ReadSet(t)
  PROVE  \E u : /\ u.op = "file" /\ t \in Reading /\ u \in Reading'
                /\ Reading' \subseteq Reading \cup {u}
                /\ Reading \ {t} \subseteq Reading'
                /\ Told' = Told
                /\ \A i \in DOMAIN t.got : i \in DOMAIN u.got /\ u.got[i] = t.got[i]
                /\ Len(t.got) + 1 \in DOMAIN u.got
                /\ u.got[Len(t.got) + 1] = store[Sets[Len(t.got) + 1]]
                /\ \A i \in DOMAIN u.got : i \in DOMAIN t.got \/ i = Len(t.got) + 1
<1>1. PICK x, g, n : n = Len(t.got) + 1 /\ x = store[Sets[n]] /\ g = Append(t.got, x)
  OBVIOUS
<1>2. PICK u : u = File(g)
  OBVIOUS
<1>3. u.op = "file" /\ u.got = g /\ t.op = "file" /\ UNCHANGED <<inbox, chan>>
  BY <1>2 DEF File, ReadSet
<1>4. /\ t.got \in Seq(SUBSET Addr) /\ x \in SUBSET Addr
      /\ BagToSet(threads') \subseteq BagToSet(threads) \cup {u}
      /\ BagToSet(threads) \ {t} \subseteq BagToSet(threads')
      /\ u \in BagToSet(threads')
  <2>1. t \in RuleFile /\ n \in DOMAIN Sets
    BY <1>1, ReadSetIs
  <2>2. t.got \in Seq(SUBSET Addr)
    BY <2>1 DEF RuleFile
  <2>3. x \in SUBSET Addr
    BY <1>1, <2>1 DEF TypeOK, Name
  <2>4. QED
    BY <1>1, <1>2, <2>2, <2>3, ReadSetIs
<1>5. /\ n \in DOMAIN g /\ g[n] = x
      /\ \A i \in DOMAIN t.got : i \in DOMAIN g /\ g[i] = t.got[i]
      /\ \A i \in DOMAIN g : i \in DOMAIN t.got \/ i = n
  <2>1. PICK q \in Seq(SUBSET Addr) : q = t.got
    BY <1>4
  <2>2. g = Append(q, x) /\ n = Len(q) + 1
    BY <1>1, <2>1
  <2>3. QED
    BY <1>4, <2>1, <2>2, AppendIs
<1>6. Told' = Told
  <2>1. \A y : y.op # "file" => (y \in BagToSet(threads') <=> y \in BagToSet(threads))
    BY <1>3, <1>4
  <2>2. \A y : y \in Told' <=> y \in Told
    BY <1>3, <2>1, ToldIs DEF ToldParts
  <2>3. QED
    BY <2>2
<1>7. /\ u \in Reading' /\ t \in Reading /\ Reading' \subseteq Reading \cup {u}
      /\ Reading \ {t} \subseteq Reading'
  BY <1>3, <1>4 DEF Reading
<1>8. QED
  BY <1>1, <1>3, <1>5, <1>6, <1>7

(* A set that is read when nothing about it is under way is known again.   *)
LEMMA SetMending ==
  ASSUME NEW s \in Name, Settled(s), Told' = Told, UNCHANGED <<store, req, chan>>, Stale(s)',
         \A t \in Reading' : \A i \in DOMAIN t.got : Sets[i] = s => t.got[i] = store[s]
  PROVE  Unpublished(s)' /\ Inv(s, store[s])'
<1>1. /\ \A w \in Worker : ~Asking(w, s) /\ ~Asking(w, s)'
      /\ \A m \in Told' : m.set # s
      /\ \A i \in DOMAIN chan' : chan'[i].op # "file"
  BY DEF Settled, Asking
<1>2. Unpublished(s)'
  BY <1>1 DEF Unpublished
<1>3. \A a \in Addr : AddrInv(s, store[s], a)'
  BY <1>1 DEF AddrInv, Same
<1>4. MessageInv(s, store[s])'
  BY <1>1 DEF MessageInv
<1>5. \A w \in Worker : RequestInv(w, s, store[s])'
  BY <1>1 DEF RequestInv
<1>6. QED
  BY <1>2, <1>3, <1>4, <1>5 DEF Inv

LEMMA SomeInv ==
  ASSUME TypeOK, NEW s \in Name, SetInv(s), raced[s] # "yes"
  PROVE  \E B : Inv(s, B)
<1>1. raced[s] \in {"no", "mending"}
  BY DEF TypeOK
<1>2. QED
  BY <1>1 DEF SetInv

LEMMA SetReadSet ==
  ASSUME FilterInv, NEW t \in BagToSet(threads), ReadSet(t), NEW s \in Name
  PROVE  SetInv(s)'
<1>0. PICK n, z : n = Len(t.got) + 1 /\ z = Sets[n]
  OBVIOUS
<1>1. PICK u : /\ u.op = "file" /\ t \in Reading /\ u \in Reading'
               /\ Reading' \subseteq Reading \cup {u}
               /\ Reading \ {t} \subseteq Reading'
               /\ Told' = Told
               /\ \A i \in DOMAIN t.got : i \in DOMAIN u.got /\ u.got[i] = t.got[i]
               /\ n \in DOMAIN u.got /\ u.got[n] = store[z]
               /\ \A i \in DOMAIN u.got : i \in DOMAIN t.got \/ i = n
  BY <1>0, ReadSetGot DEF FilterInv
<1>2. /\ TypeOK /\ SetInv(s) /\ UNCHANGED <<store, req, inbox, chan, nft>>
      /\ raced' = IF raced[z] = "yes" /\ Settled(z)
                  THEN [raced EXCEPT ![z] = "mending"] ELSE raced
  BY <1>0 DEF FilterInv, ReadSet
<1>3. Stale(s) => Stale(s)'
  <2>1. ASSUME NEW y \in Reading, NEW i \in DOMAIN y.got, Sets[i] = s
        PROVE  Stale(s)'
    <3>1. CASE y = t
      BY <1>1, <2>1, <3>1 DEF Stale
    <3>2. CASE y # t
      BY <1>1, <2>1, <3>2 DEF Stale
    <3>3. QED
      BY <3>1, <3>2
  <2>2. QED
    BY <2>1 DEF Stale
<1>4. CASE raced'[s] = "yes"
  BY <1>4 DEF SetInv
<1>5. CASE raced'[s] # "yes" /\ raced'[s] = raced[s]
  <2>1. PICK B : Inv(s, B)
    BY <1>2, <1>5, SomeInv
  <2>2. \A y \in Reading : \A i \in DOMAIN y.got : Sets[i] = s => y.got[i] = store[s]
    BY <2>1 DEF Inv, MessageInv
  <2>3. \A i \in DOMAIN u.got : Sets[i] = s => u.got[i] = store[s]
    BY <1>0, <1>1, <2>2
  <2>4. \A a : Coming(s, a) => Coming(s, a)'
    <3>1. \A y \in BagToSet(threads) : y.op # "file" => y \in BagToSet(threads')
      <4>1. \A y \in BagToSet(threads) \ {t} : y \in BagToSet(threads')
        BY <1>2, ReadSetIs
      <4>2. t.op = "file"
        BY DEF ReadSet
      <4>3. QED
        BY <4>1, <4>2
    <3>2. QED
      BY <1>2, <3>1 DEF Coming, About, Asking
  <2>5. Untouched(s)
    BY <1>1, <1>2, <2>3, <2>4 DEF Untouched, Asking
  <2>6. QED
    BY <1>2, <1>3, <1>5, <2>5, SetUntouched
<1>6. CASE raced'[s] # raced[s]
  <2>1. s = z /\ Settled(s) /\ raced'[s] = "mending"
    BY <1>2, <1>6 DEF TypeOK
  <2>2. \A y \in Reading : \A i \in DOMAIN y.got : Sets[i] # s
    BY <2>1 DEF Settled, Stale
  <2>3. \A y \in Reading' : \A i \in DOMAIN y.got : Sets[i] = s => y.got[i] = store[s]
    BY <1>0, <1>1, <2>1, <2>2
  <2>4. Stale(s)'
    BY <1>0, <1>1, <2>1 DEF Stale
  <2>5. Unpublished(s)' /\ Inv(s, store[s])'
    BY <1>1, <1>2, <2>1, <2>3, <2>4, SetMending
  <2>6. QED
    BY <2>1, <2>5 DEF SetInv
<1>7. QED
  BY <1>4, <1>5, <1>6

-----------------------------------------------------------------------------
(* A thread publishes.                                                     *)
LEMMA PublishTold ==
  ASSUME TypeOK, NEW t \in BagToSet(threads), Publish(t)
  PROVE  /\ Told' \subseteq Told /\ Reading' \subseteq Reading /\ Reading \ {t} \subseteq Reading'
         /\ \A s : \A a : Coming(s, a) => Coming(s, a)'
         /\ Len(chan) + 1 \in DOMAIN chan' /\ chan'[Len(chan) + 1] = t
         /\ \A i \in DOMAIN chan : i \in DOMAIN chan' /\ chan'[i] = chan[i] /\ i < Len(chan) + 1
         /\ \A i \in DOMAIN chan' : i \in DOMAIN chan \/ i = Len(chan) + 1
         /\ \A i \in DOMAIN chan : i \in Nat
<1>1. PICK q, n : q = chan /\ n = Len(chan) + 1 /\ q \in Seq(Published)
  BY DEF TypeOK, Published
<1>2. /\ t \in Published /\ chan' = Append(q, t)
      /\ BagToSet(threads') \subseteq BagToSet(threads)
      /\ BagToSet(threads) \ {t} \subseteq BagToSet(threads')
      /\ UNCHANGED <<store, req, inbox, nft, raced>>
  BY <1>1, PublishIs DEF Publish
<1>3. /\ n \in DOMAIN chan' /\ chan'[n] = t
      /\ \A i \in DOMAIN chan : i \in DOMAIN chan' /\ chan'[i] = chan[i] /\ i < n
      /\ \A i \in DOMAIN chan' : i \in DOMAIN chan \/ i = n
      /\ \A i \in DOMAIN chan : i \in Nat
  BY <1>1, <1>2, AppendIs
<1>4. ASSUME NEW x \in Told'
      PROVE  x \in Told
  <2>1. \/ \E k \in Liberator : \E i \in DOMAIN inbox[k] : x = inbox[k][i]
        \/ x \in BagToSet(threads') /\ x.op # "file"
        \/ \E i \in DOMAIN chan' : x = chan'[i] /\ x.op # "file"
    BY <1>2, <1>4, ToldIs DEF ToldParts
  <2>2. (\E i \in DOMAIN chan' : x = chan'[i] /\ x.op # "file")
           => (\E i \in DOMAIN chan : x = chan[i] /\ x.op # "file")
              \/ (x \in BagToSet(threads) /\ x.op # "file")
    BY <1>3
  <2>3. QED
    BY <1>2, <2>1, <2>2, ToldIs DEF ToldParts
<1>5. Reading' \subseteq Reading /\ Reading \ {t} \subseteq Reading'
  BY <1>2 DEF Reading
<1>6. ASSUME NEW s, NEW a, Coming(s, a)
      PROVE  Coming(s, a)'
  <2>1. CASE \E y \in BagToSet(threads) : About(y, s, a)
    <3>1. PICK y \in BagToSet(threads) : About(y, s, a)
      BY <2>1
    <3>2. CASE y = t
      BY <1>3, <3>1, <3>2 DEF Coming, About
    <3>3. CASE y # t
      BY <1>2, <3>1, <3>3 DEF Coming, About
    <3>4. QED
      BY <3>2, <3>3
  <2>2. CASE ~\E y \in BagToSet(threads) : About(y, s, a)
    BY <1>2, <1>3, <1>6, <2>2 DEF Coming, About, Asking
  <2>3. QED
    BY <2>1, <2>2
<1>7. QED
  BY <1>1, <1>3, <1>4, <1>5, <1>6

(* A rule file that is published says what is stored.                      *)
LEMMA PublishContent ==
  ASSUME TypeOK, NEW t \in BagToSet(threads), Publish(t), t.op = "file",
         NEW s \in Name, NEW B, Inv(s, B)
  PROVE  Content(t, s) = store[s]
<1>1. t.got \in Seq(SUBSET Addr) /\ Len(t.got) = Len(Sets) /\ t \in Reading
  BY PublishIs DEF Published, Change, RuleFile, Reading
<1>2. PICK k : k = CHOOSE i \in DOMAIN Sets : Sets[i] = s
  OBVIOUS
<1>3. k \in DOMAIN Sets /\ Sets[k] = s /\ Content(t, s) = t.got[k]
  BY <1>2 DEF Name, Content
<1>4. DOMAIN Sets = DOMAIN t.got
  BY <1>1, FirewallAssumption
<1>5. QED
  BY <1>1, <1>3, <1>4 DEF Inv, MessageInv

LEMMA PublishInv ==
  ASSUME TypeOK, NEW t \in BagToSet(threads), Publish(t), NEW s \in Name, NEW B, Inv(s, B)
  PROVE  Inv(s, B)'
<1>0. PICK n : n = Len(chan) + 1
  OBVIOUS
<1>1. /\ Told' \subseteq Told /\ Reading' \subseteq Reading
      /\ \A a : Coming(s, a) => Coming(s, a)'
      /\ n \in DOMAIN chan' /\ chan'[n] = t
      /\ \A i \in DOMAIN chan : i \in DOMAIN chan' /\ chan'[i] = chan[i] /\ i < n
      /\ \A i \in DOMAIN chan' : i \in DOMAIN chan \/ i = n
      /\ \A i \in DOMAIN chan : i \in Nat
      /\ UNCHANGED <<store, req>>
  BY <1>0, PublishTold DEF Publish
<1>2. n \in Nat
  BY <1>0 DEF TypeOK
<1>3. t.op = "file" => Content(t, s) = store[s]
  BY PublishContent
<1>4. ASSUME NEW a \in Addr
      PROVE  AddrInv(s, B, a)'
  <2>1. AddrInv(s, B, a)
    BY DEF Inv
  <2>2. \A S : Same(S, s, a)' <=> Same(S, s, a)
    BY <1>1 DEF Same
  <2>3. t.op = "file" => Same(Content(t, s), s, a)
    BY <1>3 DEF Same
  <2>4. /\ \A m : Content(m, s)' = Content(m, s)
        /\ \A m : Current(m, s, a)' <=> Current(m, s, a)
    BY <2>2 DEF Current, Content, About
  <2>5. Same(B, s, a)' \/ Coming(s, a)'
    BY <1>1, <2>1, <2>2 DEF AddrInv
  <2>6. Same(B, s, a) => \A i \in DOMAIN chan' : chan'[i].op = "file" => Same(Content(chan'[i], s), s, a)
    <3>1. Same(B, s, a) => \A i \in DOMAIN chan : chan[i].op = "file" => Same(Content(chan[i], s), s, a)
      BY <2>1 DEF AddrInv
    <3>2. QED
      BY <1>1, <2>3, <3>1
  <2>7. ASSUME NEW i \in DOMAIN chan', NEW j \in DOMAIN chan', i < j,
               Current(chan'[i], s, a), chan'[j].op = "file"
        PROVE  Same(Content(chan'[j], s), s, a)
    <3>1. CASE j = n
      BY <1>1, <2>3, <2>7, <3>1
    <3>2. CASE j # n
      <4>1. i \in DOMAIN chan /\ j \in DOMAIN chan
        BY <1>1, <1>2, <2>7, <3>2
      <4>2. chan'[i] = chan[i] /\ chan'[j] = chan[j]
        BY <1>1, <4>1
      <4>3. QED
        BY <2>1, <2>7, <4>1, <4>2 DEF AddrInv
    <3>3. QED
      BY <3>1, <3>2
  <2>8. \A m : Same(Content(m, s), s, a)' <=> Same(Content(m, s), s, a)
    BY <1>1 DEF Same, Content
  <2>9. QED
    BY <2>2, <2>5, <2>6, <2>7, <2>8 DEF AddrInv, Current, About, Same, Content
<1>5. ASSUME NEW A, A \cap store[s] = {}, Together(A, s, B)
      PROVE  Together(A, s, B)'
  <2>1. Alike(A, B) /\ \A i \in DOMAIN chan : chan[i].op = "file" => Alike(A, Content(chan[i], s))
    BY <1>5 DEF Together
  <2>2. t.op = "file" => Alike(A, Content(t, s))
    BY <1>3, <1>5 DEF Alike
  <2>3. \A i \in DOMAIN chan' : chan'[i].op = "file" => Alike(A, Content(chan'[i], s))
    BY <1>1, <2>1, <2>2
  <2>4. QED
    BY <2>1, <2>3 DEF Together, Alike, Content
<1>6. MessageInv(s, B)'
  <2>1. \A m \in Told' : m.set = s => True(m, s, B)'
    <3>1. \A m \in Told : m.set = s => True(m, s, B)
      BY DEF Inv, MessageInv
    <3>2. QED
      BY <1>1, <1>5, <3>1 DEF True
  <2>2. QED
    BY <1>1, <2>1 DEF Inv, MessageInv
<1>7. ASSUME NEW w \in Worker, Asking(w, s)'
      PROVE  RequestInv(w, s, B)'
  <2>1. Asking(w, s) /\ RequestInv(w, s, B)
    BY <1>1, <1>7 DEF Inv, Asking
  <2>2. \A a : Same(B, s, a)' <=> Same(B, s, a)
    BY <1>1 DEF Same
  <2>3. req[w].pc # "commit" => Together(req[w].rem, s, B)'
    <3>1. PICK A : A = req[w].rem
      OBVIOUS
    <3>2. req'[w].rem = A /\ (req[w].pc # "commit" => Together(A, s, B)')
      BY <1>1, <1>5, <2>1, <3>1 DEF RequestInv
    <3>3. QED
      BY <3>2
  <2>4. QED
    BY <1>1, <2>1, <2>2, <2>3 DEF RequestInv, Asking, Sum
<1>8. QED
  BY <1>4, <1>6, <1>7 DEF Inv, RequestInv

LEMMA SetPublish ==
  ASSUME FilterInv, NEW t \in BagToSet(threads), Publish(t), NEW s \in Name
  PROVE  SetInv(s)'
<1>0. PICK n : n = Len(chan) + 1
  OBVIOUS
<1>1. /\ Told' \subseteq Told /\ Reading \ {t} \subseteq Reading'
      /\ n \in DOMAIN chan' /\ chan'[n] = t /\ n \in Nat
      /\ \A i \in DOMAIN chan : i \in DOMAIN chan' /\ chan'[i] = chan[i] /\ i < n
      /\ \A i \in DOMAIN chan' : i \in DOMAIN chan \/ i = n
      /\ \A i \in DOMAIN chan : i \in Nat
      /\ UNCHANGED <<store, req, nft, raced>>
      /\ TypeOK /\ SetInv(s)
  <2>1. n \in Nat
    BY <1>0 DEF FilterInv, TypeOK
  <2>2. QED
    BY <1>0, <2>1, PublishTold DEF Publish, FilterInv
<1>2. \A B : Inv(s, B) => Inv(s, B)'
  BY <1>1, PublishInv
<1>3. ASSUME raced[s] = "no"
      PROVE  Inv(s, nft[s])'
  <2>1. PICK B : B = nft[s]
    OBVIOUS
  <2>2. Inv(s, B)' /\ nft'[s] = B
    BY <1>1, <1>2, <1>3, <2>1 DEF SetInv
  <2>3. QED
    BY <2>2
<1>4. ASSUME Unpublished(s), Inv(s, store[s]), t.op # "file"
      PROVE  Unpublished(s)' /\ Inv(s, store[s])'
  <2>1. PICK B : B = store[s]
    OBVIOUS
  <2>2. Inv(s, B)' /\ store'[s] = B
    BY <1>1, <1>2, <1>4, <2>1
  <2>3. Reading \subseteq Reading'
    BY <1>1, <1>4 DEF Reading
  <2>4. Stale(s)'
    BY <1>4, <2>3 DEF Unpublished, Stale
  <2>5. \A i \in DOMAIN chan' : chan'[i].op # "file"
    BY <1>1, <1>4 DEF Unpublished
  <2>6. Unpublished(s)'
    BY <1>1, <1>4, <2>4, <2>5 DEF Unpublished, Asking
  <2>7. QED
    BY <2>2, <2>6
<1>5. ASSUME Unpublished(s), Inv(s, store[s]), t.op = "file"
      PROVE  n \in DOMAIN chan' /\ FirstFile(n, s)' /\ Inv(s, Content(chan[n], s))'
  <2>1. PICK B : B = store[s]
    OBVIOUS
  <2>2. Inv(s, B)' /\ Content(t, s) = B
    BY <1>1, <1>2, <1>5, <2>1, PublishContent
  <2>3. Content(chan[n], s)' = B
    BY <1>1, <2>2 DEF Content
  <2>4. \A j \in DOMAIN chan : chan[j].op # "file" /\ chan[j].set # s
    <3>1. \A j \in DOMAIN chan : chan[j].op # "file"
      BY <1>5 DEF Unpublished
    <3>2. \A j \in DOMAIN chan : chan[j] \in Told
      BY <3>1, ToldIs DEF ToldParts
    <3>3. QED
      BY <1>5, <3>1, <3>2 DEF Unpublished
  <2>5. FirstFile(n, s)'
    BY <1>1, <1>5, <2>4 DEF FirstFile
  <2>6. QED
    BY <1>1, <2>2, <2>3, <2>5
<1>6. ASSUME NEW f \in DOMAIN chan, FirstFile(f, s), Inv(s, Content(chan[f], s))
      PROVE  f \in DOMAIN chan' /\ FirstFile(f, s)' /\ Inv(s, Content(chan[f], s))'
  <2>1. PICK B : B = Content(chan[f], s)
    OBVIOUS
  <2>2. f \in DOMAIN chan' /\ chan'[f] = chan[f] /\ f < n /\ f \in Nat
    BY <1>1
  <2>3. Inv(s, B)' /\ Content(chan[f], s)' = B
    BY <1>2, <1>6, <2>1, <2>2 DEF Content
  <2>4. \A j \in DOMAIN chan' : j < f => j \in DOMAIN chan /\ chan'[j] = chan[j]
    BY <1>1, <2>2
  <2>5. FirstFile(f, s)'
    BY <1>6, <2>2, <2>4 DEF FirstFile
  <2>6. QED
    BY <2>2, <2>3, <2>5
<1>7. raced'[s] = raced[s]
  BY <1>1
<1>8. raced[s] = "mending" =>
         \/ Unpublished(s) /\ Inv(s, store[s])
         \/ \E f \in DOMAIN chan : FirstFile(f, s) /\ Inv(s, Content(chan[f], s))
  BY <1>1 DEF SetInv
<1>9. QED
  BY <1>3, <1>4, <1>5, <1>6, <1>7, <1>8 DEF SetInv

-----------------------------------------------------------------------------
(* The packet filter.                                                      *)

(* What a message makes of the set S.                                      *)
After(m, s, S) ==
    CASE m.op = "file" -> Content(m, s)
      [] m.op # "file" /\ m.set # s -> S
      [] m.op = "add" /\ m.set = s -> S \cup m.addrs
      [] m.op = "delete" /\ m.set = s -> IF m.addrs \subseteq S THEN S \ m.addrs ELSE S

LEMMA AppliedIs ==
  ASSUME TypeOK, NEW m \in Published, NEW s \in Name
  PROVE  Applied(m)[s] = After(m, s, nft[s])
<1>1. CASE m.op = "file"
  BY <1>1 DEF Applied, After
<1>2. CASE m.op # "file"
  <2>1. m \in Change
    BY <1>2 DEF Published, RuleFile
  <2>2. m.op \in {"add", "delete"} /\ m.set \in Name
    BY <2>1 DEF Change
  <2>3. nft \in [Name -> SUBSET Addr]
    BY DEF TypeOK
  <2>4. CASE m.op = "add"
    <3>1. Applied(m) = [nft EXCEPT ![m.set] = @ \cup m.addrs]
      BY <2>4 DEF Applied
    <3>2. QED
      BY <2>2, <2>3, <2>4, <3>1 DEF After
  <2>5. CASE m.op = "delete"
    <3>1. Applied(m) = IF m.addrs \subseteq nft[m.set]
                       THEN [nft EXCEPT ![m.set] = @ \ m.addrs] ELSE nft
      BY <2>5 DEF Applied
    <3>2. QED
      BY <2>2, <2>3, <2>5, <3>1 DEF After
  <2>6. QED
    BY <2>2, <2>4, <2>5
<1>3. QED
  BY <1>1, <1>2

(* The head of the channel is carried out.                                 *)
Applies(m) ==
    /\ 1 \in DOMAIN chan /\ chan[1] = m
    /\ \A i \in DOMAIN chan' : i \in Nat /\ i + 1 \in DOMAIN chan /\ chan'[i] = chan[i + 1]
    /\ \A i \in DOMAIN chan : i = 1 \/ (i - 1 \in DOMAIN chan' /\ chan'[i - 1] = chan[i])
    /\ \A i \in DOMAIN chan' : i >= 1
    /\ \A s \in Name : nft'[s] = After(m, s, nft[s])
    /\ \A s \in Name : raced'[s] = IF m.op = "file" /\ raced[s] = "mending" THEN "no" ELSE raced[s]
    /\ UNCHANGED <<store, req, inbox, threads>>
    /\ Told' \subseteq Told /\ (m.op # "file" => m \in Told /\ m.op \in {"add", "delete"})
    /\ Reading' = Reading
    /\ \A s : \A a : Coming(s, a) => Coming(s, a)' \/ About(m, s, a)

LEMMA ApplyIs ==
  ASSUME TypeOK, Apply
  PROVE  \E m \in Published : Applies(m)
<1>1. PICK q : q = chan /\ q \in Seq(Published) /\ q # <<>>
  BY DEF TypeOK, Published, Apply
<1>2. PICK m \in Published : m = Head(q)
  BY <1>1, TailIs
<1>3. /\ 1 \in DOMAIN chan /\ chan[1] = m
      /\ \A i \in DOMAIN chan' : i \in Nat /\ i + 1 \in DOMAIN chan /\ chan'[i] = chan[i + 1]
      /\ \A i \in DOMAIN chan : i = 1 \/ (i - 1 \in DOMAIN chan' /\ chan'[i - 1] = chan[i])
      /\ \A i \in DOMAIN chan' : i >= 1
  <2>1. chan' = Tail(q)
    BY <1>1 DEF Apply
  <2>2. /\ 1 \in DOMAIN q /\ Head(q) = q[1]
        /\ \A i \in DOMAIN Tail(q) : i \in Nat /\ i + 1 \in DOMAIN q /\ Tail(q)[i] = q[i + 1]
        /\ \A i \in DOMAIN q : i = 1 \/ (i - 1 \in DOMAIN Tail(q) /\ Tail(q)[i - 1] = q[i])
    BY <1>1, TailIs
  <2>3. \A i \in DOMAIN Tail(q) : i >= 1
    <3>1. PICK r : r \in Seq(Published) /\ r = Tail(q)
      BY <1>1, TailIs
    <3>2. \A i \in DOMAIN r : i >= 1
      BY <3>1
    <3>3. QED
      BY <3>1, <3>2
  <2>4. QED
    BY <1>1, <1>2, <2>1, <2>2, <2>3
<1>4. \A s \in Name : nft'[s] = After(m, s, nft[s])
  BY <1>1, <1>2, AppliedIs DEF Apply
<1>5. UNCHANGED <<store, req, inbox, threads>>
  BY DEF Apply
<1>6. \A s \in Name : raced'[s] = IF m.op = "file" /\ raced[s] = "mending" THEN "no" ELSE raced[s]
  BY <1>1, <1>2 DEF Apply
<1>7. Told' \subseteq Told
  <2>1. \A x \in Told' : \/ \E k \in Liberator : \E i \in DOMAIN inbox[k] : x = inbox[k][i]
                         \/ x \in BagToSet(threads) /\ x.op # "file"
                         \/ \E i \in DOMAIN chan' : x = chan'[i] /\ x.op # "file"
    BY <1>5, ToldIs DEF ToldParts
  <2>2. \A x : (\E i \in DOMAIN chan' : x = chan'[i] /\ x.op # "file")
                  => \E i \in DOMAIN chan : x = chan[i] /\ x.op # "file"
    BY <1>3
  <2>3. QED
    BY <2>1, <2>2, ToldIs DEF ToldParts
<1>8. m.op # "file" => m \in Told /\ m.op \in {"add", "delete"}
  <2>1. m.op # "file" => m \in Told
    BY <1>3, ToldIs DEF ToldParts
  <2>2. QED
    BY <2>1 DEF Published, Change, RuleFile
<1>9. Reading' = Reading
  BY <1>5 DEF Reading
<1>10. ASSUME NEW s, NEW a, Coming(s, a), ~About(m, s, a)
       PROVE  Coming(s, a)'
  <2>1. CASE \E i \in DOMAIN chan : About(chan[i], s, a)
    <3>1. \E i \in DOMAIN chan' : About(chan'[i], s, a)
      BY <1>3, <1>10, <2>1
    <3>2. QED
      BY <3>1 DEF Coming, About
  <2>2. CASE ~\E i \in DOMAIN chan : About(chan[i], s, a)
    BY <1>5, <1>10, <2>2 DEF Coming, About, Asking
  <2>3. QED
    BY <2>1, <2>2
<1>11. QED
  BY <1>2, <1>3, <1>4, <1>5, <1>6, <1>7, <1>8, <1>9, <1>10 DEF Applies

(* An address as the packet filter has it after that: as it is stored, or  *)
(* as it was and with its change still to come.                            *)
LEMMA AfterAddr ==
  ASSUME TypeOK, NEW m \in Published, Applies(m), NEW s \in Name, NEW a \in Addr,
         NEW B, Inv(s, B)
  PROVE  /\ \/ Same(After(m, s, B), s, a) /\ Current(m, s, a)
            \/ /\ Same(After(m, s, B), s, a) => Same(B, s, a)
               /\ Coming(s, a) => Coming(s, a)'
         /\ Same(B, s, a) => Same(After(m, s, B), s, a)
<1>1. /\ AddrInv(s, B, a) /\ MessageInv(s, B)
      /\ 1 \in DOMAIN chan /\ chan[1] = m
      /\ m.op # "file" => m \in Told /\ m.op \in {"add", "delete"}
      /\ Coming(s, a) => Coming(s, a)' \/ About(m, s, a)
  BY DEF Inv, Applies
<1>2. CASE m.op = "file"
  <2>1. After(m, s, B) = Content(m, s)
    BY <1>2 DEF After
  <2>2. Same(B, s, a) => Same(Content(m, s), s, a)
    BY <1>1, <1>2 DEF AddrInv
  <2>3. ~About(m, s, a)
    BY <1>2 DEF About
  <2>4. QED
    BY <1>1, <1>2, <2>1, <2>2, <2>3 DEF Current
<1>3. CASE m.op # "file" /\ ~About(m, s, a)
  <2>1. a \in After(m, s, B) <=> a \in B
    BY <1>1, <1>3 DEF After, About
  <2>2. Same(After(m, s, B), s, a) <=> Same(B, s, a)
    BY <2>1 DEF Same
  <2>3. QED
    BY <1>1, <1>3, <2>2
<1>4. CASE m.op # "file" /\ About(m, s, a)
  <2>1. m.set = s /\ a \in m.addrs /\ m \in Told /\ m.op \in {"add", "delete"} /\ True(m, s, B)
    BY <1>1, <1>4 DEF About, MessageInv
  <2>2. CASE m.op = "add"
    <3>1. a \in store[s] /\ After(m, s, B) = B \cup m.addrs
      BY <2>1, <2>2 DEF True, After
    <3>2. QED
      BY <1>4, <2>1, <3>1 DEF Same, Current
  <2>3. CASE m.op = "delete"
    <3>1. a \notin store[s] /\ Alike(m.addrs, B)
      BY <2>1, <2>3 DEF True, Together
    <3>2. After(m, s, B) = IF m.addrs \subseteq B THEN B \ m.addrs ELSE B
      BY <2>1, <2>3 DEF After
    <3>3. a \notin After(m, s, B)
      BY <2>1, <3>1, <3>2 DEF Alike
    <3>4. QED
      BY <1>4, <3>1, <3>3 DEF Same, Current
  <2>4. QED
    BY <2>1, <2>2, <2>3
<1>5. QED
  BY <1>2, <1>3, <1>4

(* Addresses that go together still do.                                    *)
LEMMA AfterTogether ==
  ASSUME NEW m \in Published, Applies(m), NEW s \in Name, NEW B, NEW A, Together(A, s, B),
         \/ m.op = "file" \/ m.set # s \/ A \cap m.addrs = {}
         \/ A = m.addrs /\ m.op = "delete"
  PROVE  Together(A, s, After(m, s, B))'
<1>1. /\ 1 \in DOMAIN chan /\ chan[1] = m
      /\ \A i \in DOMAIN chan' : i + 1 \in DOMAIN chan /\ chan'[i] = chan[i + 1]
      /\ m.op # "file" => m.op \in {"add", "delete"}
  BY DEF Applies
<1>2. Alike(A, B) /\ \A i \in DOMAIN chan : chan[i].op = "file" => Alike(A, Content(chan[i], s))
  BY DEF Together
<1>3. Alike(A, After(m, s, B))
  <2>1. CASE m.op = "file"
    BY <1>1, <1>2, <2>1 DEF After
  <2>2. CASE m.op # "file" /\ m.set # s
    BY <1>2, <2>2 DEF After
  <2>3. CASE m.op # "file" /\ m.set = s /\ A \cap m.addrs = {}
    <3>1. /\ A \subseteq After(m, s, B) <=> A \subseteq B
          /\ A \cap After(m, s, B) = {} <=> A \cap B = {}
      BY <1>1, <2>3 DEF After
    <3>2. QED
      BY <1>2, <3>1 DEF Alike
  <2>4. CASE m.op = "delete" /\ m.set = s /\ A = m.addrs
    <3>1. After(m, s, B) = IF m.addrs \subseteq B THEN B \ m.addrs ELSE B
      BY <2>4 DEF After
    <3>2. A \cap After(m, s, B) = {}
      BY <1>2, <2>4, <3>1 DEF Alike
    <3>3. QED
      BY <3>2 DEF Alike
  <2>5. QED
    BY <2>1, <2>2, <2>3, <2>4
<1>4. \A i \in DOMAIN chan' : chan'[i].op = "file" => Alike(A, Content(chan'[i], s))
  BY <1>1, <1>2
<1>5. QED
  BY <1>3, <1>4 DEF Together, Alike, Content, After

LEMMA ApplyInv ==
  ASSUME TypeOK, NEW m \in Published, Applies(m), NEW s \in Name, NEW B, Inv(s, B)
  PROVE  Inv(s, After(m, s, B))'
<1>0. PICK C : C = After(m, s, B)
  OBVIOUS
<1>1. /\ 1 \in DOMAIN chan /\ chan[1] = m
      /\ \A i \in DOMAIN chan' : i \in Nat /\ i + 1 \in DOMAIN chan /\ chan'[i] = chan[i + 1]
      /\ \A i \in DOMAIN chan' : i >= 1
      /\ UNCHANGED <<store, req, inbox, threads>>
      /\ Told' \subseteq Told /\ (m.op # "file" => m \in Told)
      /\ Reading' = Reading
  BY DEF Applies
<1>2. ASSUME NEW a \in Addr
      PROVE  AddrInv(s, C, a)'
  <2>1. /\ Same(B, s, a) \/ Coming(s, a)
        /\ Same(B, s, a) => \A i \in DOMAIN chan : chan[i].op = "file" => Same(Content(chan[i], s), s, a)
        /\ \A i, j \in DOMAIN chan :
              i < j /\ Current(chan[i], s, a) /\ chan[j].op = "file" => Same(Content(chan[j], s), s, a)
    BY DEF Inv, AddrInv
  <2>2. /\ \/ Same(C, s, a) /\ Current(m, s, a)
           \/ (Same(C, s, a) => Same(B, s, a)) /\ (Coming(s, a) => Coming(s, a)')
        /\ Same(B, s, a) => Same(C, s, a)
    BY <1>0, AfterAddr
  <2>3. Same(C, s, a) \/ Coming(s, a)'
    BY <2>1, <2>2
  <2>4. Same(C, s, a) =>
           \A i \in DOMAIN chan' : chan'[i].op = "file" => Same(Content(chan'[i], s), s, a)
    <3>1. \A i \in DOMAIN chan' : 1 < i + 1
      BY <1>1
    <3>2. QED
      BY <1>1, <2>1, <2>2, <3>1
  <2>5. \A i, j \in DOMAIN chan' :
           i < j /\ Current(chan'[i], s, a) /\ chan'[j].op = "file" => Same(Content(chan'[j], s), s, a)
    <3>1. \A i, j \in DOMAIN chan' : i < j => i + 1 < j + 1
      BY <1>1
    <3>2. QED
      BY <1>1, <2>1, <3>1
  <2>6. /\ \A S : Same(S, s, a)' <=> Same(S, s, a)
        /\ \A x : Same(Content(x, s), s, a)' <=> Same(Content(x, s), s, a)
        /\ \A x : Current(x, s, a)' <=> Current(x, s, a)
    BY <1>1 DEF Same, Current, About, Content
  <2>7. QED
    BY <2>3, <2>4, <2>5, <2>6 DEF AddrInv, Current, About, Same, Content
<1>3. MessageInv(s, C)'
  <2>1. ASSUME NEW x \in Told', x.set = s
        PROVE  True(x, s, C)'
    <3>1. x \in Told /\ True(x, s, B)
      BY <1>1, <2>1 DEF Inv, MessageInv
    <3>2. CASE x.op = "delete"
      <4>1. PICK A : A = x.addrs
        OBVIOUS
      <4>2. \/ m.op = "file" \/ m.set # s \/ A \cap m.addrs = {}
            \/ A = m.addrs /\ m.op = "delete"
        BY <1>1, <2>1, <3>1, <3>2, <4>1 DEF Inv, MessageInv
      <4>3. Together(A, s, B) /\ A \cap store[s] = {}
        BY <3>1, <3>2, <4>1 DEF True
      <4>4. Together(A, s, After(m, s, B))'
        BY <4>2, <4>3, AfterTogether
      <4>5. Together(A, s, C)'
        BY <1>0, <4>4 DEF After, Content
      <4>6. QED
        BY <1>1, <3>2, <4>1, <4>3, <4>5 DEF True
    <3>3. CASE x.op # "delete"
      BY <1>1, <3>1, <3>3 DEF True
    <3>4. QED
      BY <3>2, <3>3
  <2>2. QED
    BY <1>1, <2>1 DEF Inv, MessageInv
<1>4. ASSUME NEW w \in Worker, Asking(w, s)'
      PROVE  RequestInv(w, s, C)'
  <2>1. Asking(w, s) /\ RequestInv(w, s, B)
    BY <1>1, <1>4 DEF Inv, Asking
  <2>2. PICK A : A = req[w].rem
    OBVIOUS
  <2>3. m.op # "file" /\ m.set = s =>
             /\ m.addrs \cap req[w].add = {}
             /\ m.addrs \cap A # {} => req[w].pc = "add" /\ m = Cmd("delete", s, A)
    BY <1>1, <2>1, <2>2 DEF RequestInv
  <2>4. /\ Sum(w) \subseteq Addr /\ A \in SUBSET Addr
        /\ Cmd("delete", s, A).op = "delete" /\ Cmd("delete", s, A).addrs = A
    <3>1. req[w] \in Request
      BY <2>1 DEF TypeOK, Asking
    <3>2. Sum(w) \subseteq Addr /\ A \in SUBSET Addr
      BY <2>2, <3>1 DEF Request, Sum
    <3>3. QED
      BY <3>2, CmdIs
  <2>5. req[w].pc = "commit" => \A a \in Sum(w) : Same(C, s, a)
    <3>1. req[w].pc = "commit" => \A a \in Sum(w) : Same(B, s, a)
      BY <2>1 DEF RequestInv
    <3>2. QED
      BY <1>0, <2>4, <3>1, AfterAddr
  <2>6. req[w].pc # "commit" => Together(A, s, C)'
    <3>1. req[w].pc # "commit" => Together(A, s, B)
      BY <2>1, <2>2 DEF RequestInv
    <3>2. \/ m.op = "file" \/ m.set # s \/ A \cap m.addrs = {}
          \/ A = m.addrs /\ m.op = "delete"
      BY <2>3, <2>4
    <3>3. req[w].pc # "commit" => Together(A, s, After(m, s, B))'
      BY <3>1, <3>2, AfterTogether
    <3>4. QED
      BY <1>0, <3>3 DEF After, Content
  <2>7. req'[w] = req[w] /\ Sum(w)' = Sum(w) /\ \A a : Same(C, s, a)' <=> Same(C, s, a)
    BY <1>1 DEF Same, Sum
  <2>8. \A v \in Worker : (Asking(v, s)' <=> Asking(v, s)) /\ Sum(v)' = Sum(v)
    BY <1>1 DEF Asking, Sum
  <2>9. req'[w].rem = A
    BY <2>2, <2>7
  <2>10. QED
    BY <1>1, <2>1, <2>2, <2>5, <2>6, <2>7, <2>8, <2>9 DEF RequestInv
<1>5. Inv(s, C)'
  BY <1>2, <1>3, <1>4 DEF Inv, RequestInv
<1>6. After(m, s, B)' = C
  BY <1>0 DEF After, Content
<1>7. QED
  BY <1>5, <1>6

LEMMA SetApply ==
  ASSUME FilterInv, Apply, NEW s \in Name
  PROVE  SetInv(s)'
<1>1. PICK m \in Published : Applies(m)
  BY ApplyIs DEF FilterInv
<1>2. /\ TypeOK /\ SetInv(s)
      /\ 1 \in DOMAIN chan /\ chan[1] = m
      /\ \A i \in DOMAIN chan' : i \in Nat /\ i + 1 \in DOMAIN chan /\ chan'[i] = chan[i + 1]
      /\ \A i \in DOMAIN chan : i = 1 \/ (i - 1 \in DOMAIN chan' /\ chan'[i - 1] = chan[i])
      /\ nft'[s] = After(m, s, nft[s])
      /\ raced'[s] = IF m.op = "file" /\ raced[s] = "mending" THEN "no" ELSE raced[s]
      /\ UNCHANGED <<store, req, inbox, threads>>
      /\ Told' \subseteq Told /\ (m.op # "file" => m \in Told)
      /\ Reading' = Reading
  BY <1>1 DEF Applies, FilterInv
<1>3. \A B : Inv(s, B) => Inv(s, After(m, s, B))'
  BY <1>1, <1>2, ApplyInv
<1>4. \A f \in DOMAIN chan : f \in Nat
  BY <1>2 DEF TypeOK
<1>5. CASE raced[s] = "no"
  <2>1. PICK B, C : B = nft[s] /\ C = After(m, s, B)
    OBVIOUS
  <2>2. Inv(s, After(m, s, B))' /\ After(m, s, B)' = C /\ nft'[s] = C
    BY <1>2, <1>3, <1>5, <2>1 DEF SetInv, After, Content
  <2>3. raced'[s] = "no"
    BY <1>2, <1>5
  <2>4. QED
    BY <2>2, <2>3 DEF SetInv
<1>6. CASE raced[s] = "yes"
  BY <1>2, <1>6 DEF SetInv
<1>7. ASSUME raced[s] = "mending", Unpublished(s), Inv(s, store[s])
      PROVE  SetInv(s)'
  <2>1. m.op # "file" /\ m.set # s
    BY <1>2, <1>7 DEF Unpublished
  <2>2. PICK B : B = store[s]
    OBVIOUS
  <2>3. Inv(s, After(m, s, B))' /\ After(m, s, B)' = B /\ store'[s] = B
    BY <1>2, <1>3, <1>7, <2>1, <2>2 DEF After
  <2>4. Stale(s)'
    BY <1>2, <1>7 DEF Unpublished, Stale
  <2>5. Unpublished(s)'
    BY <1>2, <1>7, <2>4 DEF Unpublished, Asking
  <2>6. raced'[s] = "mending"
    BY <1>2, <1>7, <2>1
  <2>7. QED
    BY <2>3, <2>5, <2>6 DEF SetInv
<1>8. ASSUME raced[s] = "mending", NEW f \in DOMAIN chan, FirstFile(f, s), Inv(s, Content(chan[f], s))
      PROVE  SetInv(s)'
  <2>1. CASE f = 1
    <3>1. PICK B : B = Content(m, s)
      OBVIOUS
    <3>2. m.op = "file" /\ After(m, s, B) = B /\ nft'[s] = B
      BY <1>2, <1>8, <2>1, <3>1 DEF FirstFile, After
    <3>3. Inv(s, After(m, s, B))' /\ After(m, s, B)' = B
      BY <1>2, <1>3, <1>8, <2>1, <3>1, <3>2 DEF After, Content
    <3>4. raced'[s] = "no"
      BY <1>2, <1>8, <3>2
    <3>5. QED
      BY <3>2, <3>3, <3>4 DEF SetInv
  <2>2. CASE f # 1
    <3>1. PICK B : B = Content(chan[f], s)
      OBVIOUS
    <3>2. f - 1 \in DOMAIN chan' /\ chan'[f - 1] = chan[f] /\ f \in Nat /\ 1 < f
      <4>1. f \in Nat /\ f >= 1
        BY <1>2 DEF TypeOK
      <4>2. QED
        BY <1>2, <2>2, <4>1
    <3>3. m.op # "file" /\ m.set # s
      BY <1>2, <1>8, <3>2 DEF FirstFile
    <3>4. Inv(s, After(m, s, B))' /\ After(m, s, B)' = B
      BY <1>2, <1>3, <1>8, <3>1, <3>3 DEF After
    <3>5. Content(chan[f - 1], s)' = B
      BY <3>1, <3>2 DEF Content
    <3>6. FirstFile(f - 1, s)'
      <4>1. \A j \in DOMAIN chan' : j < f - 1 => j + 1 \in DOMAIN chan /\ j + 1 < f /\ chan'[j] = chan[j + 1]
        BY <1>2, <3>2
      <4>2. QED
        BY <1>8, <3>2, <4>1 DEF FirstFile
    <3>7. raced'[s] = "mending"
      BY <1>2, <1>8, <3>3
    <3>8. Inv(s, Content(chan[f - 1], s))'
      BY <3>4, <3>5
    <3>9. QED
      BY <3>2, <3>6, <3>7, <3>8 DEF SetInv
  <2>3. QED
    BY <2>1, <2>2
<1>9. QED
  BY <1>2, <1>5, <1>6, <1>7, <1>8 DEF SetInv, TypeOK

-----------------------------------------------------------------------------
(* The invariant, and what follows from it.                                *)
LEMMA FilterInit == Init => FilterInv
<1> SUFFICES ASSUME Init
             PROVE  FilterInv
  OBVIOUS
<1>1. TypeOK
  BY TypeInit
<1>2. ASSUME NEW s \in Name
      PROVE  SetInv(s)
  <2>1. nft[s] = store[s] /\ raced[s] = "no" /\ chan = <<>> /\ \A w \in Worker : ~Asking(w, s)
    BY <1>2 DEF Init, Asking
  <2>2. Told = {} /\ Reading = {}
    <3>1. BagToSet(threads) = {}
      BY BagEmpty DEF Init
    <3>2. (\A m : m \notin Told) /\ Reading = {}
      BY <3>1, ToldIs DEF ToldParts, Init, Reading
    <3>3. QED
      BY <3>2
  <2>3. Inv(s, nft[s])
    BY <2>1, <2>2 DEF Inv, AddrInv, MessageInv, RequestInv, Same
  <2>4. QED
    BY <2>1, <2>3 DEF SetInv
<1>3. QED
  BY <1>1, <1>2 DEF FilterInv

LEMMA FilterStep == FilterInv /\ [Next]_vars => FilterInv'
<1> SUFFICES ASSUME FilterInv, [Next]_vars
             PROVE  FilterInv'
  OBVIOUS
<1>1. TypeOK'
  BY TypeStep DEF FilterInv
<1>2. ASSUME NEW s \in Name
      PROVE  SetInv(s)'
  <2>1. CASE UNCHANGED vars
    <3>1. /\ SetInv(s) /\ UNCHANGED <<store, req, inbox, threads, chan, nft, raced>>
      BY <1>2, <2>1 DEF FilterInv, vars
    <3>2. Told' = Told /\ Reading' = Reading /\ (Stale(s)' <=> Stale(s))
      BY <3>1, NothingTold
    <3>3. \A a : Coming(s, a) => Coming(s, a)'
      BY <3>1 DEF Coming, Asking, About
    <3>4. Untouched(s)
      BY <3>1, <3>2, <3>3 DEF Untouched, Asking
    <3>5. QED
      BY <1>2, <3>1, <3>2, <3>4, SetUntouched
  <2>2. CASE \E w \in Worker : Read(w) \/ Commit(w) \/ PublishRemoved(w) \/ PublishAdded(w) \/ Fail(w)
    BY <1>2, <2>2, SetRead, SetCommit, SetSend, SetFail
  <2>3. CASE \E l \in Liberator : Handle(l) \/ Resubscribe(l)
    BY <1>2, <2>3, SetHandle, SetResubscribe
  <2>4. CASE Update
    BY <1>2, <2>4, SetUpdate
  <2>5. CASE \E t \in BagToSet(threads) : ReadSet(t) \/ Publish(t)
    BY <1>2, <2>5, SetReadSet, SetPublish
  <2>6. CASE Apply
    BY <1>2, <2>6, SetApply
  <2>7. QED
    BY <2>1, <2>2, <2>3, <2>4, <2>5, <2>6 DEF Next
<1>3. QED
  BY <1>1, <1>2 DEF FilterInv

(* When nothing is under way, no change is to come.                        *)
LEMMA EnforcedNow == FilterInv => Enforced
<1> SUFFICES ASSUME FilterInv, Quiet, NEW s \in Name, raced[s] = "no"
             PROVE  nft[s] = store[s]
  BY DEF Enforced
<1>1. TypeOK /\ Inv(s, nft[s])
  BY DEF FilterInv, SetInv
<1>2. \A a : ~Coming(s, a)
  BY BagEmpty DEF Quiet, Coming, Asking, Reliable
<1>3. \A a \in Addr : a \in nft[s] <=> a \in store[s]
  BY <1>1, <1>2 DEF Inv, AddrInv, Same
<1>4. nft[s] \subseteq Addr /\ store[s] \subseteq Addr
  BY <1>1 DEF TypeOK
<1>5. QED
  BY <1>3, <1>4

(* When no request, message, thread or command is under way, a set of the  *)
(* packet filter that has not raced, or has been mended, is the stored     *)
(* one, whatever overtook what on the way.                                 *)
THEOREM EnforcedAlways == Spec => []Enforced
<1>1. FilterInv => Enforced
  BY EnforcedNow
<1>2. QED
  BY <1>1, FilterInit, FilterStep, PTL DEF Spec

(* What the packet filter carries out takes no stored address away.        *)
LEMMA ApplyKeeps ==
  ASSUME FilterInv, Apply, NEW s \in Name, raced[s] = "no"
  PROVE  (nft[s] \ nft'[s]) \cap store[s] = {}
<1>1. PICK m \in Published : Applies(m)
  BY ApplyIs DEF FilterInv
<1>2. PICK B : B = nft[s]
  OBVIOUS
<1>3. TypeOK /\ Inv(s, B) /\ nft'[s] = After(m, s, B)
  BY <1>1, <1>2 DEF FilterInv, SetInv, Applies
<1>4. ASSUME NEW a \in B, a \in store[s]
      PROVE  a \in After(m, s, B)
  <2>1. a \in Addr /\ Same(B, s, a)
    BY <1>3, <1>4 DEF TypeOK, Same
  <2>2. Same(After(m, s, B), s, a)
    BY <1>1, <1>3, <2>1, AfterAddr
  <2>3. QED
    BY <1>4, <2>2 DEF Same
<1>5. QED
  BY <1>2, <1>3, <1>4

(* An address that is stored and that the packet filter has, in a set that *)
(* has not raced or has been mended, is in the packet filter after each    *)
(* step: neither a late deletion nor an old rule file takes it away.       *)
THEOREM KeepsStored == Spec => NeverLetsGo
<1>1. ASSUME FilterInv, [Next]_vars, NEW s \in Name, raced[s] = "no"
      PROVE  (nft[s] \ nft'[s]) \cap store[s] = {}
  <2>1. CASE Apply
    BY <1>1, <2>1, ApplyKeeps
  <2>2. CASE ~Apply
    <3>1. nft' = nft
      BY <1>1, <2>2 DEF Next, vars, Read, Ask, Commit, PublishRemoved, PublishAdded, Fail,
         Handle, Resubscribe, Update, ReadSet, Publish
    <3>2. QED
      BY <3>1
  <2>3. QED
    BY <2>1, <2>2
<1>2. FilterInv /\ [Next]_vars =>
         [\A s \in Name : raced[s] = "no" => (nft[s] \ nft'[s]) \cap store[s] = {}]_vars
  BY <1>1
<1>3. QED
  BY <1>2, FilterInit, FilterStep, PTL DEF Spec, NeverLetsGo
===============================================================================
