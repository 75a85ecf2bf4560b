---------------------------- MODULE RoutingProofs ----------------------------
(***************************************************************************)
(* Proofs about Routing, for any tables, records, calls and requests of    *)
(* operators: the types, that a lookup follows no table twice, that it     *)
(* overlooks no record that was there all the time, and that a call gets   *)
(* what is stored if nothing is changed while it is routed.                *)
(***************************************************************************)
EXTENDS Routing, SequenceTheorems, FiniteSetTheorems, TLAPS

-----------------------------------------------------------------------------
(* Operators.                                                              *)

(* A prefix of a text is a text, and as long as asked.                     *)
LEMMA PrefixType ==
  ASSUME NEW x \in Text, NEW n \in 0 .. Len(x)
  PROVE  Prefix(x, n) \in Text /\ Len(Prefix(x, n)) = n
<1>1. n \in Int /\ Len(x) \in Nat /\ \A i \in 1 .. n : x[i] \in Nat
  BY DEF Text
<1>2. /\ SubSeq(x, 1, n) \in Seq(Nat)
      /\ Len(SubSeq(x, 1, n)) = IF 1 <= n THEN n - 1 + 1 ELSE 0
  BY <1>1, SubSeqProperties
<1>3. QED
  BY <1>1, <1>2 DEF Prefix, Text

(* A prefix is no longer than the text, and the text up to its length.     *)
LEMMA PrefixIs ==
  ASSUME NEW x \in Text, NEW y \in Text, IsPrefix(y, x)
  PROVE  Len(y) \in 0 .. Len(x) /\ y = Prefix(x, Len(y))
<1>1. Len(y) \in Nat /\ Len(x) \in Nat /\ Len(y) <= Len(x)
  BY DEF Text, IsPrefix
<1>2. SubSeq(y, 1, Len(y)) = y
  BY SubSeqFull DEF Text
<1>3. QED
  BY <1>1, <1>2 DEF IsPrefix, Prefix

(* Both orders of a choice begin with one of the two.                      *)
LEMMA OrdersFirst ==
  ASSUME NEW c, NEW r \in Orders(c)
  PROVE  r[1] \in {c.first, c.second}
  BY DEF Orders

-----------------------------------------------------------------------------
(* The types, with those of the variables that TypeOK leaves out.          *)
RuleType == [table : Table, record : KeyType \cup {None}]

DataInv ==
    /\ tables = [t \in Table |-> tables[t]]
    /\ \A t \in Table : tables[t] = None \/ SchemaOK(tables[t])
    /\ records = [k \in DOMAIN records |-> records[k]]
    /\ \A k \in DOMAIN records : k \in KeyType /\ ActionOK(records[k])
    /\ \A x \in DOMAIN data : data[x] \in Text
    /\ pc \in {"table", "compare", "em", "lpm", "done"}
    /\ table \in Table
    /\ value \in Text
    /\ rest \in Nat /\ (pc = "lpm" => rest <= Len(value))
    /\ found \in KeyType \cup {None}
    /\ still \in BOOLEAN

(* A table that is followed and a record that is found take turns in the   *)
(* list, no table is in it twice, and when a table is to be read there is  *)
(* room for two more.                                                      *)
RulesInv ==
    /\ rules \in Seq(RuleType)
    /\ Len(rules) <= MaxRules
    /\ pc = "table" => /\ Len(rules) % 2 = 0 /\ Len(rules) < MaxRules
                       /\ ~Followed(rules, table)
    /\ pc \in {"compare", "em", "lpm"} => Len(rules) % 2 = 1 /\ Len(rules) < MaxRules
    /\ \A i \in 1 .. Len(rules) : rules[i].record = None <=> i % 2 = 1
    /\ \A i, j \in 1 .. Len(rules) : rules[i].record = None /\ rules[i] = rules[j] => i = j

LEMMA DataInit == Init => DataInv
<1> SUFFICES ASSUME Init
             PROVE  DataInv
  OBVIOUS
<1>1. PICK s \in Stores : tables = s.tables /\ records = s.records
  BY DEF Init
<1>2. PICK c \in Calls : table = c.start /\ data = c.data
  BY DEF Init
<1>3. /\ tables = [t \in Table |-> tables[t]]
      /\ \A t \in Table : tables[t] = None \/ SchemaOK(tables[t])
      /\ records = [k \in DOMAIN records |-> records[k]]
      /\ \A k \in DOMAIN records : k \in KeyType /\ ActionOK(records[k])
  BY <1>1, StoresAssumption
<1>4. table \in Table /\ \A x \in DOMAIN data : data[x] \in Text
  BY <1>2, RequestsAssumption
<1>5. value \in Text /\ rest \in Nat /\ pc = "table"
  BY DEF Init, Text
<1>6. QED
  BY <1>3, <1>4, <1>5 DEF Init, DataInv

LEMMA RulesInit == Init => RulesInv
<1> SUFFICES ASSUME Init
             PROVE  RulesInv
  OBVIOUS
<1>1. rules = <<>> /\ pc = "table" /\ rules \in Seq(RuleType) /\ Len(rules) = 0
  BY DEF Init
<1>2. ~Followed(rules, table)
  BY <1>1 DEF Followed
<1>3. QED
  BY <1>1, <1>2, RoutingAssumption DEF RulesInv

-----------------------------------------------------------------------------
(* What the steps of a lookup do.                                          *)

LEMMA FollowFrame ==
  ASSUME DataInv, NEW k \in DOMAIN records, Follow(k)
  PROVE  /\ found' = k
         /\ rules' = Append(rules, Rule(table, k))
         /\ UNCHANGED <<tables, records, data, value, rest, lasting, still>>
         /\ \/ pc' = "done" /\ table' = table
            \/ pc' = "table" /\ table' \in Table /\ ~Followed(rules', table') /\ Len(rules') < MaxRules
<1>1. /\ found' = k
      /\ rules' = Append(rules, Rule(table, k))
      /\ UNCHANGED <<tables, records, data, lasting, still>>
  BY DEF Follow, store
<1>2. ActionOK(records[k])
  BY DEF DataInv
<1>3. CASE records[k].action = "jumps"
  <2>1. PICK r \in Orders(records[k].choice) : Jump(r[1], rules')
    BY <1>3 DEF Follow
  <2>2. r[1] \in Table
    BY <1>2, <1>3, OrdersFirst DEF ActionOK
  <2>3. Len(rules') \in Nat /\ MaxRules \in Nat
    BY <1>1, RoutingAssumption
  <2>4. QED
    BY <1>1, <2>1, <2>2, <2>3 DEF Jump, End
<1>4. CASE records[k].action # "jumps"
  <2>1. \E r : End(r)
    BY <1>2, <1>4 DEF Follow, ActionOK
  <2>2. QED
    BY <1>1, <2>1 DEF End
<1>5. QED
  BY <1>3, <1>4

LEMMA ReadTableFrame ==
  ASSUME DataInv, ReadTable
  PROVE  /\ pc = "table" /\ found' = None
         /\ rules' = IF tables[table] = None THEN rules ELSE Append(rules, Rule(table, None))
         /\ UNCHANGED <<tables, records, data, table, rest, still>>
         /\ \/ pc' = "done" /\ value' = value /\ lasting' = {}
            \/ /\ pc' = "compare" /\ tables[table] # None /\ lasting' = DOMAIN records
               /\ \E x \in DOMAIN data : value' = data[x]
<1> DEFINE s == tables[table]
<1>1. /\ pc = "table" /\ found' = None
      /\ rules' = IF s = None THEN rules ELSE Append(rules, Rule(table, None))
      /\ lasting' = IF pc' = "compare" THEN DOMAIN records ELSE {}
      /\ UNCHANGED <<tables, records, data, still>>
  BY DEF ReadTable, store
<1>2. s = None \/ SchemaOK(s)
  BY DEF DataInv
<1>3. CASE s # None /\ s.action = "query" /\ s.variable \in DOMAIN data
  <2>1. pc' = "compare" /\ value' = data[s.variable] /\ UNCHANGED <<table, rest>>
    BY <1>3 DEF ReadTable
  <2>2. QED
    BY <1>1, <1>3, <2>1
<1>4. CASE ~(s # None /\ s.action = "query" /\ s.variable \in DOMAIN data)
  <2>1. \E r : End(r)
    BY <1>2, <1>4 DEF ReadTable, SchemaOK
  <2>2. QED
    BY <1>1, <2>1 DEF End
<1>5. QED
  BY <1>3, <1>4

(* A read that finds nothing goes on, or is the last.                      *)
LEMMA ReadFrame ==
  ASSUME DataInv, ReadCompare \/ ReadExact \/ ReadPrefix
  PROVE  \/ \E k \in DOMAIN records : k.table = table /\ Follow(k)
         \/ /\ UNCHANGED <<tables, records, data, table, value, rules, found, lasting, still>>
            /\ rest' \in Nat /\ (pc' = "lpm" => rest' <= Len(value))
            /\ pc' \in {"em", "lpm", "done"}
<1>1. Len(value) \in Nat /\ rest \in Nat /\ (pc = "lpm" => rest <= Len(value))
  BY DEF DataInv, Text
<1>2. CASE ReadCompare
  BY <1>1, <1>2 DEF ReadCompare, Compared, Goto, store
<1>3. CASE ReadExact
  BY <1>1, <1>3 DEF ReadExact, Goto, Key, store
<1>4. CASE ReadPrefix
  <2> DEFINE k == Key(table, "lpm", Prefix(value, rest))
  <2>1. CASE k \in DOMAIN records
    BY <1>4, <2>1 DEF ReadPrefix, Key
  <2>2. CASE k \notin DOMAIN records /\ rest > 0
    <3>1. pc = "lpm" /\ Goto("lpm", rest - 1)
      <4>1. rest # 0 /\ rest > 0 /\ k \notin DOMAIN records
        BY <1>1, <2>2
      <4>2. QED
        BY <1>4, <4>1, Zenon DEF ReadPrefix
    <3>2. rest - 1 \in Nat /\ rest - 1 <= Len(value)
      BY <1>1, <2>2, <3>1
    <3>3. QED
      BY <3>1, <3>2 DEF Goto, store
  <2>3. CASE k \notin DOMAIN records /\ rest = 0
    BY <1>1, <1>4, <2>3 DEF ReadPrefix, End, store
  <2>4. QED
    BY <1>1, <2>1, <2>2, <2>3
<1>5. QED
  BY <1>2, <1>3, <1>4

-----------------------------------------------------------------------------
(* What the operators do: they never touch a lookup.                       *)
Request == \/ CreateRecord \/ UpdateRecord \/ DeleteRecord
           \/ CreateTable \/ UpdateTable \/ DeleteTable

LEMMA RequestFrame ==
  ASSUME DataInv, Request
  PROVE  /\ UNCHANGED <<data, pc, table, value, rest, rules, found, result>>
         /\ still' \in BOOLEAN
         /\ lasting' \subseteq lasting
         /\ \A k \in DOMAIN records \ DOMAIN records' : k \notin lasting'
         /\ tables' = [t \in Table |-> tables'[t]]
         /\ \A t \in Table : tables'[t] = None \/ SchemaOK(tables'[t])
         /\ records' = [k \in DOMAIN records' |-> records'[k]]
         /\ \A k \in DOMAIN records' : k \in KeyType /\ ActionOK(records'[k])
<1> USE RequestsAssumption DEF DataInv, Keys
<1>1. Edit
  BY DEF Request, CreateRecord, UpdateRecord, DeleteRecord, CreateTable, UpdateTable, DeleteTable
<1>2. /\ UNCHANGED <<data, pc, table, value, rest, rules, found, result>>
      /\ still' \in BOOLEAN
  BY <1>1 DEF Edit
<1>3. CASE CreateRecord
  <2>1. PICK k \in Keys \ DOMAIN records : \E a \in Actions[k] :
             records' = [j \in DOMAIN records \cup {k} |-> IF j = k THEN a ELSE records[j]]
    BY <1>3 DEF CreateRecord
  <2>2. PICK a \in Actions[k] :
             records' = [j \in DOMAIN records \cup {k} |-> IF j = k THEN a ELSE records[j]]
    BY <2>1
  <2>3. ActionOK(a) /\ k \in KeyType
    BY <2>1
  <2>4. QED
    BY <1>2, <1>3, <2>1, <2>2, <2>3 DEF CreateRecord
<1>4. CASE UpdateRecord
  <2>1. PICK k \in Keys \cap DOMAIN records : \E a \in Actions[k] :
             records' = [records EXCEPT ![k] = a]
    BY <1>4 DEF UpdateRecord
  <2>2. PICK a \in Actions[k] : records' = [records EXCEPT ![k] = a] /\ ActionOK(a)
    BY <2>1
  <2>3. QED
    BY <1>2, <1>4, <2>1, <2>2 DEF UpdateRecord
<1>5. CASE DeleteRecord
  <2>1. PICK k \in Keys \cap DOMAIN records :
             /\ records' = [j \in DOMAIN records \ {k} |-> records[j]]
             /\ lasting' = lasting \ {k}
    BY <1>5 DEF DeleteRecord
  <2>2. QED
    BY <1>2, <1>5, <2>1 DEF DeleteRecord
<1>6. CASE CreateTable \/ UpdateTable
  <2>1. PICK t \in DOMAIN Schemas : \E s \in Schemas[t] : tables' = [tables EXCEPT ![t] = s]
    BY <1>6 DEF CreateTable, UpdateTable
  <2>2. PICK s \in Schemas[t] : tables' = [tables EXCEPT ![t] = s] /\ SchemaOK(s)
    BY <2>1
  <2>3. UNCHANGED <<records, lasting>>
    BY <1>6 DEF CreateTable, UpdateTable
  <2>4. QED
    BY <1>2, <2>1, <2>2, <2>3
<1>7. CASE DeleteTable
  <2>1. PICK t \in DOMAIN Schemas : tables' = [tables EXCEPT ![t] = None]
    BY <1>7 DEF DeleteTable
  <2>2. UNCHANGED <<records, lasting>>
    BY <1>7 DEF DeleteTable
  <2>3. QED
    BY <1>2, <2>1, <2>2
<1>8. QED
  BY <1>3, <1>4, <1>5, <1>6, <1>7 DEF Request

-----------------------------------------------------------------------------
(* The types are kept.                                                     *)
LEMMA DataStep == DataInv /\ [Next]_vars => DataInv'
<1> SUFFICES ASSUME DataInv, [Next]_vars
             PROVE  DataInv'
  OBVIOUS
<1> USE DEF DataInv
<1>1. ASSUME NEW k \in DOMAIN records, Follow(k)
      PROVE  DataInv'
  BY <1>1, FollowFrame
<1>2. CASE ReadTable
  <2>1. value' \in Text
    BY <1>2, ReadTableFrame
  <2>2. QED
    BY <1>2, <2>1, ReadTableFrame
<1>3. CASE ReadCompare \/ ReadExact \/ ReadPrefix
  BY <1>1, <1>3, ReadFrame
<1>4. CASE Request
  BY <1>4, RequestFrame
<1>5. CASE UNCHANGED vars
  BY <1>5 DEF vars
<1>6. QED
  BY <1>2, <1>3, <1>4, <1>5 DEF Next, Lookup, Request

(* A table that is read is new in the list ...                             *)
LEMMA RulesTable ==
  ASSUME DataInv, RulesInv, ReadTable
  PROVE  RulesInv'
<1>1. /\ rules \in Seq(RuleType) /\ Len(rules) \in Nat
      /\ Len(rules) % 2 = 0 /\ Len(rules) < MaxRules /\ ~Followed(rules, table)
      /\ MaxRules \in Nat /\ MaxRules % 2 = 0
  BY ReadTableFrame, RoutingAssumption DEF RulesInv
<1>2. CASE tables[table] = None
  <2>1. pc' = "done" /\ rules' = rules
    BY <1>2, ReadTableFrame
  <2>2. QED
    BY <1>1, <2>1 DEF RulesInv
<1>3. CASE tables[table] # None
  <2> DEFINE n == Len(rules) + 1
             r == Rule(table, None)
  <2>1. rules' = Append(rules, r) /\ pc' \in {"done", "compare"}
    BY <1>3, ReadTableFrame
  <2>2. r \in RuleType /\ r.record = None
    BY DEF Rule, RuleType, DataInv
  <2>3. /\ rules' \in Seq(RuleType) /\ Len(rules') = n /\ rules'[n] = r
        /\ \A i \in 1 .. Len(rules) : rules'[i] = rules[i]
    BY <1>1, <2>1, <2>2
  <2>4. n % 2 = 1 /\ n < MaxRules
    BY <1>1
  <2>5. \A i \in 1 .. Len(rules) : rules[i] # r
    BY <1>1 DEF Followed
  <2>6. ASSUME NEW i \in 1 .. n
        PROVE  rules'[i].record = None <=> i % 2 = 1
    <3>1. CASE i = n
      BY <2>2, <2>3, <2>4, <3>1
    <3>2. CASE i # n
      <4>1. i \in 1 .. Len(rules)
        BY <1>1, <3>2
      <4>2. rules'[i] = rules[i] /\ (rules[i].record = None <=> i % 2 = 1)
        BY <2>3, <4>1 DEF RulesInv
      <4>3. QED
        BY <4>2
    <3>3. QED
      BY <3>1, <3>2
  <2>7. \A i, j \in 1 .. n : rules'[i].record = None /\ rules'[i] = rules'[j] => i = j
    BY <1>1, <2>3, <2>5 DEF RulesInv
  <2>8. QED
    BY <1>1, <2>1, <2>3, <2>4, <2>6, <2>7 DEF RulesInv
<1>4. QED
  BY <1>2, <1>3

(* ... and a record that is found leads to a table that is not in it.      *)
LEMMA RulesFollow ==
  ASSUME DataInv, RulesInv, pc \in {"compare", "em", "lpm"},
         NEW k \in DOMAIN records, Follow(k)
  PROVE  RulesInv'
<1> DEFINE n == Len(rules) + 1
           r == Rule(table, k)
<1>1. /\ rules \in Seq(RuleType) /\ Len(rules) \in Nat
      /\ Len(rules) % 2 = 1 /\ Len(rules) < MaxRules
      /\ MaxRules \in Nat /\ MaxRules % 2 = 0
  BY RoutingAssumption DEF RulesInv
<1>2. rules' = Append(rules, r)
  BY FollowFrame
<1>3. r \in RuleType /\ r.record # None
  BY RoutingAssumption DEF Rule, RuleType, DataInv
<1>4. /\ rules' \in Seq(RuleType) /\ Len(rules') = n /\ rules'[n] = r
      /\ \A i \in 1 .. Len(rules) : rules'[i] = rules[i]
  BY <1>1, <1>2, <1>3
<1>5. n % 2 = 0 /\ n <= MaxRules
  BY <1>1
<1>6. \A i \in 1 .. n : rules'[i].record = None <=> i % 2 = 1
  BY <1>1, <1>3, <1>4, <1>5 DEF RulesInv
<1>7. \A i, j \in 1 .. n : rules'[i].record = None /\ rules'[i] = rules'[j] => i = j
  BY <1>1, <1>3, <1>4 DEF RulesInv
<1>8. \/ pc' = "done"
      \/ pc' = "table" /\ ~Followed(rules', table') /\ Len(rules') < MaxRules
  BY FollowFrame
<1>9. QED
  BY <1>1, <1>4, <1>5, <1>6, <1>7, <1>8 DEF RulesInv, Followed

LEMMA RulesStep == DataInv /\ RulesInv /\ [Next]_vars => RulesInv'
<1> SUFFICES ASSUME DataInv, RulesInv, [Next]_vars
             PROVE  RulesInv'
  OBVIOUS
<1>1. ASSUME UNCHANGED <<rules, table>>,
             pc' = pc \/ pc' = "done" \/ {pc, pc'} \subseteq {"compare", "em", "lpm"}
      PROVE  RulesInv'
  BY <1>1 DEF RulesInv, Followed
<1>2. CASE ReadTable
  BY <1>2, RulesTable
<1>3. CASE ReadCompare \/ ReadExact \/ ReadPrefix
  <2>1. pc \in {"compare", "em", "lpm"}
    BY <1>3 DEF ReadCompare, ReadExact, ReadPrefix
  <2>2. QED
    BY <1>1, <1>3, <2>1, ReadFrame, RulesFollow
<1>4. CASE Request
  BY <1>1, <1>4, RequestFrame
<1>5. CASE UNCHANGED vars
  BY <1>1, <1>5 DEF vars
<1>6. QED
  BY <1>2, <1>3, <1>4, <1>5 DEF Next, Lookup, Request

(* Texts, tables, records and the list of what was followed keep their     *)
(* types, whatever operators change, and the list stays within MaxRules.   *)
THEOREM TypeCorrect == Spec => []TypeOK
<1>1. Init => DataInv /\ RulesInv
  BY DataInit, RulesInit
<1>2. DataInv /\ RulesInv /\ [Next]_vars => (DataInv /\ RulesInv)'
  BY DataStep, RulesStep
<1>3. DataInv /\ RulesInv => TypeOK
  BY DEF DataInv, RulesInv, TypeOK
<1>4. QED
  BY <1>1, <1>2, <1>3, PTL DEF Spec

-----------------------------------------------------------------------------
(* The tables in the list are no more than half of what it may hold.       *)
LEMMA HalfAreTables ==
  ASSUME RulesInv, NEW T, T = {i \in DOMAIN rules : rules[i].record = None}
  PROVE  Cardinality(T) * 2 <= MaxRules
<1> DEFINE h == MaxRules \div 2
           place == [i \in T |-> (i + 1) \div 2]
<1>1. /\ rules \in Seq(RuleType) /\ Len(rules) \in Nat /\ Len(rules) <= MaxRules
      /\ DOMAIN rules = 1 .. Len(rules)
      /\ MaxRules \in Nat \ {0} /\ MaxRules % 2 = 0
  BY RoutingAssumption DEF RulesInv
<1>2. h \in Nat /\ h * 2 = MaxRules
  BY <1>1
<1>3. \A i \in T : i \in 1 .. MaxRules /\ i % 2 = 1
  BY <1>1 DEF RulesInv
<1>4. ASSUME NEW i \in T
      PROVE  (i + 1) \div 2 \in 1 .. h /\ i = 2 * ((i + 1) \div 2) - 1
  <2>1. i \in Nat /\ 1 <= i /\ i <= h * 2 /\ i % 2 = 1 /\ h \in Nat
    BY <1>1, <1>2, <1>3
  <2> DEFINE q == (i + 1) \div 2
  <2>2. q \in Int /\ i + 1 = 2 * q
    BY <2>1
  <2> HIDE DEF q, h
  <2>3. q \in 1 .. h /\ i = 2 * q - 1
    BY <2>1, <2>2
  <2>4. QED
    BY <2>3 DEF q
<1>5. place \in Injection(T, 1 .. h)
  <2>1. place \in [T -> 1 .. h]
    BY <1>4
  <2>2. \A i, j \in T : place[i] = place[j] => i = j
    BY <1>4
  <2>3. QED
    BY <2>1, <2>2 DEF Injection, IsInjective
<1>6. Cardinality(1 .. h) = h /\ IsFiniteSet(1 .. h)
  BY <1>2, FS_Interval
<1>7. IsFiniteSet(T) /\ Cardinality(T) <= h
  BY <1>5, <1>6, FS_Injection
<1>8. Cardinality(T) \in Nat
  BY <1>7, FS_CardinalityType
<1>9. QED
  BY <1>2, <1>7, <1>8

(* However operators turn the jumps round while a call is routed, it       *)
(* follows no table twice and, with MaxRules of 10, no more than five.     *)
THEOREM NoTableTwice == Spec => []NoRevisit
<1>1. Init => DataInv /\ RulesInv
  BY DataInit, RulesInit
<1>2. DataInv /\ RulesInv /\ [Next]_vars => (DataInv /\ RulesInv)'
  BY DataStep, RulesStep
<1>3. RulesInv => NoRevisit
  <2> SUFFICES ASSUME RulesInv
               PROVE  NoRevisit
    OBVIOUS
  <2> DEFINE T == {i \in DOMAIN rules : rules[i].record = None}
  <2>1. DOMAIN rules = 1 .. Len(rules)
    BY DEF RulesInv
  <2>2. \A i, j \in T : rules[i] = rules[j] => i = j
    BY <2>1 DEF RulesInv
  <2>3. Cardinality(T) * 2 <= MaxRules
    BY HalfAreTables
  <2>4. QED
    BY <2>2, <2>3 DEF NoRevisit
<1>4. QED
  BY <1>1, <1>2, <1>3, PTL DEF Spec

-----------------------------------------------------------------------------
(* The records that match a text and were there since the table was read.  *)
Kept(t, x) == lasting \cap Matching(t, x)

(* After the comparisons none of these is a comparison; from the prefixes  *)
(* on they are prefixes no longer than the next; and once the lookup is    *)
(* over they come no earlier than what was found.                          *)
LookupInv ==
    /\ lasting \subseteq DOMAIN records
    /\ pc \in {"compare", "em", "lpm"} => found = None
    /\ pc = "em" => \A k \in Kept(table, value) : k.match \notin Compares
    /\ pc = "lpm" => \A k \in Kept(table, value) : k.match = "lpm" /\ Len(k.text) <= rest
    /\ found # None =>
          \A k \in Kept(found.table, value) : Rank(k, value) <= Rank(found, value)
    /\ pc = "done" /\ found = None => Kept(table, value) = {}

(* As long as the data of the call stay, no record joins them.             *)
LEMMA KeptShrinks ==
  ASSUME UNCHANGED data, lasting' \subseteq lasting, NEW t, NEW x
  PROVE  Kept(t, x)' \subseteq Kept(t, x)
BY DEF Kept, Matching, Holds, Against

LEMMA KeptIs ==
  ASSUME DataInv, LookupInv, NEW x \in Text, NEW t, NEW k \in Kept(t, x)
  PROVE  /\ k \in DOMAIN records /\ k \in KeyType /\ k = Key(t, k.match, k.text)
         /\ k.match \in Compares => Holds(k.match, x, Against(k.text))
         /\ k.match = "em" => k.text = x
         /\ k.match = "lpm" => Len(k.text) \in 0 .. Len(x) /\ k.text = Prefix(x, Len(k.text))
<1>1. k \in DOMAIN records /\ k \in KeyType
  BY DEF Kept, LookupInv, DataInv
<1>2. /\ k.table = t
      /\ \/ k.match \in Compares /\ Holds(k.match, x, Against(k.text))
         \/ k.match = "em" /\ k.text = x
         \/ k.match = "lpm" /\ IsPrefix(k.text, x)
  BY DEF Kept, Matching
<1>3. k = Key(t, k.match, k.text) /\ k.text \in Text
  BY <1>1, <1>2 DEF KeyType, Key
<1>4. k.match = "lpm" => IsPrefix(k.text, x)
  BY <1>2 DEF Compares
<1>5. k.match = "em" => k.text = x
  BY <1>2 DEF Compares
<1>6. k.match \in Compares => Holds(k.match, x, Against(k.text))
  BY <1>2 DEF Compares
<1>7. QED
  BY <1>1, <1>3, <1>4, <1>5, <1>6, PrefixIs

(* Where each kind of match comes.                                         *)
LEMMA RankIs ==
  ASSUME NEW x \in Text, NEW k \in KeyType
  PROVE  /\ Rank(k, x) \in Int
         /\ k.match \in Compares => Rank(k, x) = 2
         /\ k.match = "em" => Rank(k, x) = 1
         /\ k.match = "lpm" => Rank(k, x) = Len(k.text) - Len(x)
<1>1. k.match \in Compares \cup {"em", "lpm"} /\ Len(k.text) \in Nat /\ Len(x) \in Nat
  BY DEF KeyType, Matches, Text
<1>2. QED
  BY <1>1 DEF Rank, Compares

LEMMA KeptRank ==
  ASSUME DataInv, LookupInv, NEW t, NEW k \in Kept(t, value)
  PROVE  /\ Rank(k, value) \in Int /\ Rank(k, value) <= 2
         /\ k.match \notin Compares => Rank(k, value) <= 1
         /\ k.match = "lpm" => Rank(k, value) = Len(k.text) - Len(value)
<1>1. value \in Text /\ Len(value) \in Nat
  BY DEF DataInv, Text
<1>2. k \in KeyType /\ k.match \in Compares \cup {"em", "lpm"}
  BY <1>1, KeptIs DEF KeyType, Matches
<1>3. k.match = "lpm" => Len(k.text) \in 0 .. Len(value)
  BY <1>1, KeptIs
<1>4. QED
  BY <1>1, <1>2, <1>3, RankIs

(* A record is found that all others of these come after.                  *)
LEMMA LookupFollow ==
  ASSUME DataInv, LookupInv, NEW k \in DOMAIN records, k.table = table, Follow(k),
         \A j \in Kept(table, value) : Rank(j, value) <= Rank(k, value)
  PROVE  LookupInv'
<1>1. /\ found' = k /\ found' # None
      /\ UNCHANGED <<records, data, value, lasting>>
      /\ pc' \in {"done", "table"}
  BY FollowFrame, RoutingAssumption DEF DataInv
<1>2. Kept(table, value)' \subseteq Kept(table, value) \/ table' # table
  BY <1>1, KeptShrinks
<1>3. \A j \in lasting' \cap Matching(k.table, value)' : j \in Kept(table, value)
  BY <1>1 DEF Kept, Matching, Holds, Against
<1>4. \A j \in Kept(found.table, value)' : j \in Kept(table, value)
  BY <1>1, <1>3 DEF Kept
<1>5. QED
  BY <1>1, <1>4 DEF LookupInv

-----------------------------------------------------------------------------
LEMMA LookupInit == Init => LookupInv
BY DEF Init, LookupInv

LEMMA LookupStep == DataInv /\ LookupInv /\ [Next]_vars => LookupInv'
<1> SUFFICES ASSUME DataInv, LookupInv, [Next]_vars
             PROVE  LookupInv'
  OBVIOUS
<1>1. value \in Text /\ Len(value) \in Nat /\ rest \in Nat
      /\ (pc = "lpm" => rest <= Len(value))
  BY DEF DataInv, Text
<1>2. CASE ReadTable
  <2>1. \/ pc' = "done" /\ lasting' = {} /\ found' = None
        \/ pc' = "compare" /\ lasting' = DOMAIN records' /\ found' = None
    BY <1>2, ReadTableFrame
  <2>2. QED
    BY <2>1 DEF LookupInv, Kept
<1>3. CASE ReadCompare
  <2>1. CASE Compared = {} /\ Goto("em", rest)
    <3>1. UNCHANGED <<records, data, table, value, found, lasting>> /\ pc' = "em" /\ pc = "compare"
      BY <1>3, <2>1 DEF Goto, store, ReadCompare
    <3>2. \A k \in Kept(table, value) : k.match \notin Compares
      BY <1>1, <2>1, KeptIs DEF Compared, Key
    <3>3. Kept(table, value)' \subseteq Kept(table, value)
      BY <3>1, KeptShrinks
    <3>4. QED
      BY <3>1, <3>2, <3>3 DEF LookupInv
  <2>2. ASSUME NEW k \in Compared, Follow(k)
        PROVE  LookupInv'
    <3>1. k \in DOMAIN records /\ k.table = table /\ k.match \in Compares /\ k \in KeyType
      BY <2>2 DEF Compared, DataInv
    <3>2. \A j \in Kept(table, value) : Rank(j, value) <= Rank(k, value)
      BY <1>1, <3>1, KeptRank, RankIs
    <3>3. QED
      BY <2>2, <3>1, <3>2, LookupFollow
  <2>3. QED
    BY <1>3, <2>1, <2>2 DEF ReadCompare
<1>4. CASE ReadExact
  <2> DEFINE k == Key(table, "em", value)
  <2>1. pc = "em" /\ \A j \in Kept(table, value) : j.match \notin Compares
    BY <1>4 DEF ReadExact, LookupInv
  <2>2. CASE k \in DOMAIN records
    <3>1. Follow(k)
      BY <1>4, <2>2 DEF ReadExact
    <3>2. k.table = table /\ k.match = "em" /\ k \in KeyType
      BY <2>2 DEF Key, DataInv
    <3>3. \A j \in Kept(table, value) : Rank(j, value) <= Rank(k, value)
      BY <1>1, <2>1, <3>2, KeptRank, RankIs
    <3>4. QED
      BY <2>2, <3>1, <3>2, <3>3, LookupFollow
  <2>3. CASE k \notin DOMAIN records
    <3>1. /\ UNCHANGED <<records, data, table, value, found, lasting>>
          /\ pc' = "lpm" /\ rest' = Len(value)
      BY <1>4, <2>3 DEF ReadExact, Goto, store
    <3>2. \A j \in Kept(table, value) : j.match = "lpm" /\ Len(j.text) <= Len(value)
      <4> SUFFICES ASSUME NEW j \in Kept(table, value)
                   PROVE  j.match = "lpm" /\ Len(j.text) <= Len(value)
        OBVIOUS
      <4>1. j.match # "em"
        BY <1>1, <2>3, KeptIs
      <4>2. j.match = "lpm"
        BY <1>1, <2>1, <4>1, KeptIs DEF KeyType, Matches
      <4>3. QED
        BY <1>1, <4>2, KeptIs
    <3>3. Kept(table, value)' \subseteq Kept(table, value)
      BY <3>1, KeptShrinks
    <3>4. QED
      BY <2>1, <3>1, <3>2, <3>3 DEF LookupInv
  <2>4. QED
    BY <2>2, <2>3
<1>5. CASE ReadPrefix
  <2> DEFINE k == Key(table, "lpm", Prefix(value, rest))
  <2>1. /\ pc = "lpm" /\ found = None
        /\ \A j \in Kept(table, value) : j.match = "lpm" /\ Len(j.text) <= rest
    BY <1>5 DEF ReadPrefix, LookupInv
  <2>2. CASE k \in DOMAIN records
    <3>1. Follow(k)
      BY <1>5, <2>2, Zenon DEF ReadPrefix
    <3>2. k.table = table /\ k.match = "lpm" /\ k \in KeyType /\ Len(k.text) = rest
      BY <1>1, <2>1, <2>2, PrefixType DEF Key, DataInv
    <3>3. Rank(k, value) = rest - Len(value)
      BY <1>1, <3>2, RankIs
    <3>4. ASSUME NEW j \in Kept(table, value)
          PROVE  Rank(j, value) <= Rank(k, value)
      <4>1. Rank(j, value) = Len(j.text) - Len(value) /\ Len(j.text) \in Nat /\ Len(j.text) <= rest
        BY <1>1, <2>1, KeptRank, KeptIs
      <4>2. QED
        BY <1>1, <3>3, <4>1
    <3>5. QED
      BY <2>2, <3>1, <3>2, <3>4, LookupFollow
  <2>3. CASE k \notin DOMAIN records
    <3>1. ASSUME NEW j \in Kept(table, value)
          PROVE  Len(j.text) \in Nat /\ Len(j.text) < rest
      <4>1. Len(j.text) \in Nat /\ Len(j.text) <= rest /\ j.match = "lpm"
        BY <1>1, <2>1, KeptIs
      <4>2. j \in DOMAIN records /\ j = Key(table, "lpm", Prefix(value, Len(j.text)))
        BY <1>1, <4>1, KeptIs
      <4>3. Len(j.text) # rest
        BY <2>3, <4>2
      <4>4. QED
        BY <1>1, <4>1, <4>3
    <3>2. CASE rest > 0
      <4>1. rest # 0
        BY <3>2
      <4>2. Goto("lpm", rest - 1)
        BY <1>5, <2>3, <3>2, <4>1, Zenon DEF ReadPrefix
      <4>3. /\ UNCHANGED <<records, data, table, value, found, lasting>>
            /\ pc' = "lpm" /\ rest' = rest - 1
        BY <4>2 DEF Goto, store
      <4>4. Kept(table, value)' \subseteq Kept(table, value)
        BY <4>3, KeptShrinks
      <4>5. \A j \in Kept(table, value)' : j.match = "lpm" /\ Len(j.text) <= rest'
        BY <1>1, <2>1, <3>1, <4>3, <4>4
      <4>6. QED
        BY <2>1, <4>3, <4>5 DEF LookupInv
    <3>3. CASE rest = 0
      <4>1. End(<<>>) /\ UNCHANGED <<store, data, rules, found, lasting, still>>
        BY <1>1, <1>5, <2>3, <3>3 DEF ReadPrefix
      <4>2. UNCHANGED <<records, data, table, value, found, lasting>> /\ pc' = "done"
        BY <4>1 DEF End, store
      <4>3. Kept(table, value)' \subseteq Kept(table, value)
        BY <4>2, KeptShrinks
      <4>4. Kept(table, value)' = {}
        BY <3>1, <3>3, <4>3
      <4>5. QED
        BY <2>1, <4>2, <4>4 DEF LookupInv
    <3>4. QED
      BY <1>1, <3>2, <3>3
  <2>4. QED
    BY <2>2, <2>3
<1>6. ASSUME UNCHANGED <<data, pc, table, value, rest, found>>,
             lasting' \subseteq lasting, lasting' \subseteq DOMAIN records'
      PROVE  LookupInv'
  <2>1. Kept(table, value)' \subseteq Kept(table, value)
    BY <1>6, KeptShrinks
  <2>2. Kept(found.table, value)' \subseteq Kept(found.table, value)
    BY <1>6, KeptShrinks
  <2>3. QED
    BY <1>6, <2>1, <2>2 DEF LookupInv
<1>7. CASE Request
  <2>1. lasting' \subseteq DOMAIN records'
    BY <1>7, RequestFrame DEF LookupInv
  <2>2. QED
    BY <1>6, <1>7, <2>1, RequestFrame
<1>8. CASE UNCHANGED vars
  BY <1>6, <1>8 DEF vars, LookupInv
<1>9. QED
  BY <1>2, <1>3, <1>4, <1>5, <1>7, <1>8 DEF Next, Lookup, Request

(* Whatever records come and go during a lookup, one that was there all    *)
(* the time is never passed over for one that comes after it, nor for      *)
(* nothing.                                                                *)
THEOREM NoRecordOverlooked == Spec => []NoneOverlooked
<1>1. Init => DataInv /\ LookupInv
  BY DataInit, LookupInit
<1>2. DataInv /\ LookupInv /\ [Next]_vars => (DataInv /\ LookupInv)'
  BY DataStep, LookupStep
<1>3. DataInv /\ LookupInv => NoneOverlooked
  <2> SUFFICES ASSUME DataInv, LookupInv, LookupOver,
                      NEW k \in lasting \cap Matching(Looked, value)
               PROVE  found # None /\ ~(Rank(k, value) > Rank(found, value))
    BY DEF NoneOverlooked
  <2>1. found # None
    BY DEF LookupOver, Looked, LookupInv, Kept
  <2>2. k \in Kept(found.table, value)
    BY <2>1 DEF Looked, Kept
  <2>3. Rank(k, value) <= Rank(found, value)
    BY <2>1, <2>2 DEF LookupInv
  <2>4. Rank(k, value) \in Int /\ Rank(found, value) \in Int
    BY <2>1, <2>2, KeptRank, RankIs DEF DataInv
  <2>5. QED
    BY <2>1, <2>3, <2>4
<1>4. QED
  BY <1>1, <1>2, <1>3, PTL DEF Spec

-----------------------------------------------------------------------------
(* What a call gets while nothing is changed.                              *)

(* While records, tables and data stay, so does what they say.             *)
Unmoved ==
    /\ UNCHANGED <<tables, records, data>>
    /\ lasting \subseteq DOMAIN records /\ lasting' \subseteq DOMAIN records'

LEMMA SameBest ==
  ASSUME Unmoved, NEW t
  PROVE  BestOf(t)' = BestOf(t)
<1>1. ASSUME NEW x
      PROVE  Matching(t, x)' = Matching(t, x)
  <2>1. DOMAIN records \cup lasting = DOMAIN records /\ (DOMAIN records \cup lasting)' = DOMAIN records
    BY DEF Unmoved
  <2>2. QED
    BY <2>1 DEF Unmoved, Matching, Holds, Against
<1>2. ASSUME NEW x
      PROVE  Best(t, x)' = Best(t, x)
  BY <1>1 DEF Best
<1>3. QED
  BY <1>2 DEF Unmoved, BestOf, Queried

LEMMA SameLeads ==
  ASSUME Unmoved, NEW t, NEW u
  PROVE  Leads(t, u)' <=> Leads(t, u)
BY SameBest DEF Leads, Unmoved

LEMMA SameEnds ==
  ASSUME Unmoved, NEW p, NEW r
  PROVE  Ends(p, r)' <=> Ends(p, r)
<1> DEFINE t == p[Len(p)]
<1>1. BestOf(t)' = BestOf(t)
  BY SameBest
<1>2. \A u : Leads(t, u)' <=> Leads(t, u)
  BY SameLeads
<1> HIDE DEF t
<1>3. (t = p[Len(p)])' /\ t = p[Len(p)]
  BY DEF t
<1>4. QED
  BY <1>1, <1>2, <1>3 DEF Ends, Queried, Unmoved

-----------------------------------------------------------------------------
(* The path that a call has come.  The table that is to be read is the     *)
(* last of it, and is not yet in the list.                                 *)
Before(p) == IF pc = "table" THEN Len(p) - 1 ELSE Len(p)

Tracked(p) ==
    /\ IsPath(p, First)
    /\ p[Len(p)] = table
    /\ \A i \in 1 .. Len(p) : p[i] \in Visited
    /\ \A t : Followed(rules, t) <=> \E i \in 1 .. Before(p) : p[i] = t
    /\ Len(rules) = Len(p) + Before(p) - 1

(* While nothing is changed a call has come a path that is stored; a text  *)
(* is looked up that the table asks for, and all records have been there.  *)
PathInv ==
    /\ still /\ pc # "done" => \E p \in Seq(Table) : Tracked(p)
    /\ still /\ pc \in {"compare", "em", "lpm"} =>
          /\ Queried(table) /\ tables[table].variable \in DOMAIN data
          /\ value = data[tables[table].variable]
          /\ lasting = DOMAIN records
    /\ AsStored

(* A list that gets longer begins as before.                               *)
LEMMA FirstStays ==
  ASSUME RulesInv, table \in Table,
         \/ UNCHANGED <<rules, table>>
         \/ UNCHANGED table /\ rules' = Append(rules, Rule(table, None))
         \/ rules # <<>> /\ \E k : rules' = Append(rules, Rule(table, k))
  PROVE  First' = First
<1>1. rules \in Seq(RuleType) /\ Len(rules) \in Nat
  BY DEF RulesInv
<1>2. CASE UNCHANGED <<rules, table>>
  BY <1>2 DEF First
<1>3. ASSUME NEW k, rules' = Append(rules, Rule(table, k))
      PROVE  /\ rules' # <<>>
             /\ rules'[1] = IF rules = <<>> THEN Rule(table, k) ELSE rules[1]
  <2>1. rules \in Seq(RuleType \cup {Rule(table, k)}) /\ Rule(table, k) \in RuleType \cup {Rule(table, k)}
    BY <1>1
  <2>2. rules' # <<>> /\ rules'[Len(rules) + 1] = Rule(table, k)
        /\ \A i \in 1 .. Len(rules) : rules'[i] = rules[i]
    BY <1>3, <2>1
  <2>3. rules = <<>> \/ Len(rules) >= 1
    BY <1>1
  <2>4. CASE rules = <<>>
    <3>1. Len(rules) = 0
      BY <2>4
    <3>2. QED
      BY <2>2, <2>4, <3>1
  <2>5. QED
    BY <1>1, <2>2, <2>3, <2>4
<1>4. CASE UNCHANGED table /\ rules' = Append(rules, Rule(table, None))
  BY <1>3, <1>4 DEF First, Rule
<1>5. CASE rules # <<>> /\ \E k : rules' = Append(rules, Rule(table, k))
  BY <1>3, <1>5 DEF First
<1>6. QED
  BY <1>2, <1>4, <1>5

LEMMA VisitedGrows ==
  ASSUME RulesInv, table \in Table, table' \in Table,
         \/ UNCHANGED <<rules, table>>
         \/ \E k : rules' = Append(rules, Rule(table, k))
  PROVE  Visited \subseteq Visited' /\ table' \in Visited'
<1>1. rules \in Seq(RuleType) /\ Len(rules) \in Nat /\ DOMAIN rules = 1 .. Len(rules)
  BY DEF RulesInv
<1>2. CASE UNCHANGED <<rules, table>>
  BY <1>2 DEF Visited
<1>3. ASSUME NEW k, rules' = Append(rules, Rule(table, k))
      PROVE  Visited \subseteq Visited'
  <2>1. rules \in Seq(RuleType \cup {Rule(table, k)}) /\ Rule(table, k) \in RuleType \cup {Rule(table, k)}
    BY <1>1
  <2>2. /\ DOMAIN rules' = 1 .. Len(rules) + 1
        /\ rules'[Len(rules) + 1] = Rule(table, k)
        /\ \A i \in 1 .. Len(rules) : rules'[i] = rules[i]
    BY <1>3, <2>1
  <2>3. Rule(table, k).table = table
    BY DEF Rule
  <2>4. QED
    BY <1>1, <2>2, <2>3 DEF Visited
<1>4. QED
  BY <1>2, <1>3 DEF Visited

LEMMA HalfIs == MaxRules \div 2 \in Nat /\ 2 * (MaxRules \div 2) = MaxRules
BY RoutingAssumption

(* A path whose last table gives the answer shows that it is as stored.    *)
LEMMA EndOfPath ==
  ASSUME DataInv, RulesInv, Unmoved,
         NEW p \in Seq(Table), Tracked(p), 2 * Len(p) <= MaxRules,
         Visited \subseteq Visited', First' = First, Ends(p, result')
  PROVE  AsStored'
<1> DEFINE h == MaxRules \div 2
<1>1. PICK r : r = result'
  OBVIOUS
<1>2. PICK t : t = First
  OBVIOUS
<1>3. PICK V : V = Visited'
  OBVIOUS
<1>4. Len(p) \in Nat /\ DOMAIN p = 1 .. Len(p) /\ Len(p) <= h
  BY HalfIs
<1>5. p \in [1 .. Len(p) -> V]
  BY <1>3, <1>4 DEF Tracked
<1>6. p \in BoundedSeq(V, h)
  BY <1>4, <1>5, HalfIs DEF BoundedSeq, SeqOf
<1>7. IsPath(p, t)'
  <2>1. \A i \in 1 .. Len(p) - 1 : Leads(p[i], p[i + 1])'
    <3> SUFFICES ASSUME NEW i \in 1 .. Len(p) - 1
                 PROVE  Leads(p[i], p[i + 1])'
      OBVIOUS
    <3>1. PICK a, b : a = p[i] /\ b = p[i + 1]
      OBVIOUS
    <3>2. Leads(a, b)
      BY <1>2, <3>1 DEF Tracked, IsPath
    <3>3. Leads(a, b)'
      BY <3>2, SameLeads
    <3>4. QED
      BY <3>1, <3>3
  <2>2. QED
    BY <1>2, <2>1 DEF Tracked, IsPath
<1>8. Ends(p, r)'
  <2>1. Ends(p, r)
    BY <1>1
  <2>2. QED
    BY <2>1, SameEnds
<1>9. QED
  BY <1>1, <1>2, <1>3, <1>6, <1>7, <1>8 DEF AsStored

-----------------------------------------------------------------------------
(* What a table says is an answer of a path to it.                         *)
LEMMA ReadTableEnds ==
  ASSUME DataInv, ReadTable, pc' = "done", NEW p, p[Len(p)] = table
  PROVE  Ends(p, result')
<1> DEFINE s == tables[table]
<1>1. CASE s = None
  <2>1. End(<<>>)
    BY <1>1 DEF ReadTable
  <2>2. QED
    BY <1>1, <2>1 DEF End, Ends
<1>2. CASE s # None /\ s.action \in {"block", "route", "httpr"}
  <2>1. \E r \in AnswersOf(s) : End(r)
    BY <1>2 DEF ReadTable, AnswersOf
  <2>2. result' \in AnswersOf(s)
    BY <2>1 DEF End
  <2>3. QED
    BY <1>2, <2>2 DEF Ends
<1>3. CASE s # None /\ s.action = "query"
  <2>1. s.variable \notin DOMAIN data /\ End(<<>>)
    BY <1>3 DEF ReadTable
  <2>2. BestOf(table) = {} /\ Queried(table)
    BY <1>3, <2>1 DEF BestOf, Queried
  <2>3. QED
    BY <2>1, <2>2 DEF End, Ends
<1>4. QED
  BY <1>1, <1>2, <1>3 DEF DataInv, SchemaOK

LEMMA ReadTableQueries ==
  ASSUME DataInv, ReadTable, pc' # "done"
  PROVE  Queried(table) /\ tables[table].variable \in DOMAIN data
         /\ value' = data[tables[table].variable]
<1>1. tables[table] # None
  BY DEF ReadTable, End
<1>2. SchemaOK(tables[table])
  BY <1>1 DEF DataInv
<1>3. tables[table].action = "query" /\ tables[table].variable \in DOMAIN data
  BY <1>1, <1>2 DEF ReadTable, End, SchemaOK
<1>4. QED
  BY <1>1, <1>3 DEF ReadTable, Queried

(* A table that is read becomes the last of the path in the list.          *)
LEMMA PathTable ==
  ASSUME DataInv, RulesInv, LookupInv, LookupInv', PathInv, ReadTable
  PROVE  PathInv'
<1>1. /\ pc = "table"
      /\ rules' = IF tables[table] = None THEN rules ELSE Append(rules, Rule(table, None))
      /\ UNCHANGED <<tables, records, data, table, still>>
      /\ \/ pc' = "done"
         \/ pc' = "compare" /\ tables[table] # None /\ lasting' = DOMAIN records
  BY ReadTableFrame
<1>2. CASE ~still
  BY <1>1, <1>2 DEF PathInv, AsStored
<1>3. CASE still
  <2>1. PICK p \in Seq(Table) : Tracked(p)
    BY <1>1, <1>3 DEF PathInv
  <2>2. table \in Table /\ Len(p) \in Nat /\ Len(p) >= 1 /\ rules \in Seq(RuleType) /\ Len(rules) \in Nat
    <3>1. p # <<>> /\ table \in Table /\ rules \in Seq(RuleType)
      BY <2>1 DEF Tracked, IsPath, DataInv, RulesInv
    <3>2. QED
      BY <3>1
  <2>3. Len(rules) = 2 * Len(p) - 2 /\ 2 * Len(p) <= MaxRules
    <3>1. Len(rules) = 2 * Len(p) - 2
      BY <1>1, <2>1, <2>2 DEF Tracked, Before
    <3>2. Len(rules) < MaxRules /\ MaxRules \in Nat /\ MaxRules = 2 * (MaxRules \div 2)
          /\ MaxRules \div 2 \in Nat
      BY <1>1, HalfIs, RoutingAssumption DEF RulesInv
    <3> DEFINE h == MaxRules \div 2
    <3> HIDE DEF h
    <3>3. 2 * Len(p) - 2 < 2 * h /\ h \in Nat
      BY <3>1, <3>2 DEF h
    <3>4. Len(p) <= h
      BY <2>2, <3>3
    <3>5. QED
      BY <2>2, <3>1, <3>2, <3>4 DEF h
  <2>4. First' = First /\ Visited \subseteq Visited' /\ Unmoved
    <3>1. First' = First
      BY <1>1, <2>2, FirstStays
    <3>2. Visited \subseteq Visited'
      BY <1>1, <2>2, VisitedGrows
    <3>3. QED
      BY <1>1, <3>1, <3>2 DEF Unmoved, LookupInv
  <2>5. CASE pc' = "done"
    <3>1. Ends(p, result')
      BY <2>1, <2>5, ReadTableEnds DEF Tracked
    <3>2. AsStored'
      BY <2>1, <2>3, <2>4, <3>1, EndOfPath
    <3>3. QED
      BY <2>5, <3>2 DEF PathInv
  <2>6. CASE pc' = "compare"
    <3>1. rules' = Append(rules, Rule(table, None))
      BY <1>1, <2>6
    <3>2. Rule(table, None) \in RuleType
      BY <2>2 DEF Rule, RuleType
    <3>3. /\ Len(rules') = Len(rules) + 1 /\ DOMAIN rules' = 1 .. Len(rules) + 1
          /\ DOMAIN rules = 1 .. Len(rules)
          /\ rules'[Len(rules) + 1] = Rule(table, None)
          /\ \A i \in 1 .. Len(rules) : rules'[i] = rules[i]
      BY <2>2, <3>1, <3>2
    <3>4. ASSUME NEW t
          PROVE  Followed(rules', t) <=> Followed(rules, t) \/ t = table
      <4>1. Rule(table, None) = Rule(t, None) <=> t = table
        BY DEF Rule
      <4>2. QED
        BY <2>2, <3>3, <4>1 DEF Followed
    <3>5. ASSUME NEW t
          PROVE  (Followed(rules, t))' <=> \E i \in 1 .. Len(p) : p[i] = t
      <4>1. Followed(rules, t) <=> \E i \in 1 .. Len(p) - 1 : p[i] = t
        BY <1>1, <2>1 DEF Tracked, Before
      <4>2. p[Len(p)] = table
        BY <2>1 DEF Tracked
      <4>3. (Followed(rules, t))' <=> Followed(rules', t)
        BY DEF Followed, Rule
      <4>4. QED
        BY <2>2, <3>4, <4>1, <4>2, <4>3
    <3>6. Queried(table)' /\ (tables[table].variable \in DOMAIN data)'
          /\ (value = data[tables[table].variable])' /\ (lasting = DOMAIN records)'
      BY <1>1, <2>6, ReadTableQueries DEF Queried
    <3>7. IsPath(p, First)'
      <4>1. PICK t : t = First
        OBVIOUS
      <4>2. IsPath(p, t)'
        BY <2>1, <2>4, <4>1, SameLeads DEF Tracked, IsPath
      <4>3. QED
        BY <2>4, <4>1, <4>2
    <3>8. Tracked(p)'
      <4>1. (p[Len(p)] = table)' /\ \A i \in 1 .. Len(p) : p[i] \in Visited'
        BY <1>1, <2>1, <2>4 DEF Tracked
      <4>2. Before(p)' = Len(p)
        BY <2>6 DEF Before
      <4>3. Len(rules)' = Len(p) + Len(p) - 1
        BY <2>2, <2>3, <3>3
      <4>4. QED
        BY <3>5, <3>7, <4>1, <4>2, <4>3 DEF Tracked
    <3>9. AsStored'
      BY <2>6 DEF AsStored
    <3>10. QED
      BY <2>6, <3>6, <3>8, <3>9 DEF PathInv
  <2>7. QED
    BY <1>1, <2>5, <2>6
<1>4. QED
  BY <1>2, <1>3 DEF DataInv

(* A record that a lookup follows is the best.                             *)
LEMMA FoundIsBest ==
  ASSUME DataInv, LookupInv, LookupInv', PathInv, still,
         pc \in {"compare", "em", "lpm"},
         NEW k \in DOMAIN records, Follow(k), k \in Matching(table, value)
  PROVE  k \in BestOf(table)
<1>1. /\ Queried(table) /\ tables[table].variable \in DOMAIN data
      /\ value = data[tables[table].variable] /\ lasting = DOMAIN records
  BY DEF PathInv
<1>2. /\ found' = k /\ k # None /\ k.table = table
      /\ UNCHANGED <<records, data, value, lasting>>
  BY FollowFrame, RoutingAssumption DEF DataInv, Matching
<1>3. \A j \in Kept(found.table, value)' : Rank(j, value)' <= Rank(found, value)'
  BY <1>2 DEF LookupInv
<1>4. Kept(found.table, value)' = Matching(table, value)
  BY <1>1, <1>2 DEF Kept, Matching, Holds, Against
<1>5. \A j \in Matching(table, value) : Rank(j, value) <= Rank(k, value)
  BY <1>2, <1>3, <1>4 DEF Rank
<1>6. QED
  BY <1>1, <1>5 DEF BestOf, Best

(* A record that is followed has the answer, or leads on by one table.     *)
LEMMA PathFollow ==
  ASSUME DataInv, RulesInv, LookupInv, LookupInv', PathInv,
         pc \in {"compare", "em", "lpm"},
         NEW k \in DOMAIN records, Follow(k), k \in Matching(table, value)
  PROVE  PathInv'
<1> DEFINE a == records[k]
<1>1. /\ rules' = Append(rules, Rule(table, k))
      /\ UNCHANGED <<tables, records, data, lasting, still>>
      /\ pc' \in {"done", "table"} /\ table' \in Table
  BY FollowFrame DEF DataInv
<1>2. CASE ~still
  BY <1>1, <1>2 DEF PathInv, AsStored
<1>3. CASE still
  <2>1. PICK p \in Seq(Table) : Tracked(p)
    BY <1>3 DEF PathInv
  <2>2. table \in Table /\ Len(p) \in Nat /\ Len(p) >= 1 /\ rules \in Seq(RuleType) /\ Len(rules) \in Nat
    <3>1. p # <<>> /\ table \in Table /\ rules \in Seq(RuleType)
      BY <2>1 DEF Tracked, IsPath, DataInv, RulesInv
    <3>2. QED
      BY <3>1
  <2>3. Len(rules) = 2 * Len(p) - 1 /\ 2 * Len(p) <= MaxRules
    <3>1. Len(rules) = 2 * Len(p) - 1
      BY <2>1, <2>2 DEF Tracked, Before
    <3>2. Len(rules) < MaxRules /\ MaxRules \in Nat
      BY RoutingAssumption DEF RulesInv
    <3>3. QED
      BY <2>2, <3>1, <3>2
  <2>4. rules # <<>>
    BY <2>2, <2>3
  <2>5. First' = First /\ Visited \subseteq Visited' /\ table' \in Visited' /\ Unmoved
    <3>1. First' = First
      <4>1. First = rules[1].table
        BY <2>4 DEF First
      <4>2. rules' # <<>> /\ rules'[1] = rules[1]
        <5>1. Rule(table, k) \in RuleType
          BY <2>2 DEF Rule, RuleType, DataInv
        <5>2. QED
          BY <1>1, <2>2, <2>4, <5>1
      <4>3. QED
        BY <4>1, <4>2 DEF First
    <3>2. Visited \subseteq Visited' /\ table' \in Visited'
      BY <1>1, <2>2, VisitedGrows
    <3>3. QED
      BY <1>1, <3>1, <3>2 DEF Unmoved, LookupInv
  <2>6. k \in BestOf(table)
    BY <1>3, FoundIsBest
  <2>7. p[Len(p)] = table
    BY <2>1 DEF Tracked
  <2>8. ASSUME NEW t
        PROVE  Followed(rules', t) <=> \E i \in 1 .. Len(p) : p[i] = t
    <3>1. Rule(table, k) \in RuleType /\ Rule(table, k) # Rule(t, None)
      BY <2>2, RoutingAssumption DEF Rule, RuleType, DataInv
    <3>2. Followed(rules', t) <=> Followed(rules, t)
      BY <1>1, <2>2, <3>1 DEF Followed
    <3>3. QED
      BY <2>1, <3>2 DEF Tracked, Before
  <2>9. Len(rules') = 2 * Len(p)
    <3>1. Rule(table, k) \in RuleType
      BY <2>2 DEF Rule, RuleType, DataInv
    <3>2. QED
      BY <1>1, <2>2, <2>3, <3>1
  <2>10. ASSUME pc' = "done", Ends(p, result')
         PROVE  PathInv'
    <3>1. AsStored'
      BY <2>1, <2>3, <2>5, <2>10, EndOfPath
    <3>2. QED
      BY <2>10, <3>1 DEF PathInv
  <2>11. CASE a.action \in {"block", "route"}
    <3>1. \E r \in AnswersOf(a) : End(r)
      BY <2>11 DEF Follow, AnswersOf
    <3>2. result' \in AnswersOf(a) /\ pc' = "done"
      BY <3>1 DEF End
    <3>3. Ends(p, result')
      BY <2>6, <2>7, <3>2 DEF Ends
    <3>4. QED
      BY <2>10, <3>2, <3>3
  <2>12. CASE a.action = "jumps"
    <3>1. PICK q \in Orders(a.choice) : Jump(q[1], rules')
      BY <2>12 DEF Follow
    <3> DEFINE u == q[1]
    <3>2. Leads(table, u)
      BY <2>6, <2>12, <3>1 DEF Leads
    <3>3. u \in Table
      BY <2>12, <3>1, OrdersFirst DEF DataInv, ActionOK
    <3> HIDE DEF u
    <3>4. CASE Followed(rules', u) \/ Len(rules') >= MaxRules
      <4>1. pc' = "done" /\ result' = <<>>
        BY <3>1, <3>4 DEF Jump, End, u
      <4>2. 2 * Len(p) = MaxRules \/ \E i \in DOMAIN p : p[i] = u
        <5>1. DOMAIN p = 1 .. Len(p) /\ MaxRules \in Nat
          BY RoutingAssumption
        <5>2. QED
          BY <2>2, <2>3, <2>8, <2>9, <3>4, <5>1
      <4>3. Ends(p, result')
        BY <2>7, <3>2, <3>3, <4>1, <4>2 DEF Ends
      <4>4. QED
        BY <2>10, <4>1, <4>3
    <3>5. CASE ~(Followed(rules', u) \/ Len(rules') >= MaxRules)
      <4>1. pc' = "table" /\ table' = u
        BY <3>1, <3>5 DEF Jump, u
      <4> DEFINE w == Append(p, u)
                 n == Len(p) + 1
      <4>2. /\ w \in Seq(Table) /\ Len(w) = n /\ w # <<>> /\ w[n] = u
            /\ \A i \in 1 .. Len(p) : w[i] = p[i]
        BY <2>2, <3>3
      <4> HIDE DEF w
      <4>3. \A i \in 1 .. Len(p) : p[i] # u
        BY <2>8, <3>5
      <4>4. PICK t : t = First
        OBVIOUS
      <4>5. IsPath(w, t)'
        <5>1. w[1] = t
          BY <2>1, <2>2, <4>2, <4>4 DEF Tracked, IsPath
        <5>2. ASSUME NEW i \in 1 .. Len(w) - 1
              PROVE  Leads(w[i], w[i + 1])'
          <6>1. i \in 1 .. Len(p) /\ w[i] = p[i]
            BY <2>2, <4>2
          <6>2. PICK x, y : x = w[i] /\ y = w[i + 1]
            OBVIOUS
          <6>3. Leads(x, y)
            <7>1. CASE i = Len(p)
              BY <2>7, <3>2, <4>2, <6>1, <6>2, <7>1
            <7>2. CASE i # Len(p)
              <8>1. i \in 1 .. Len(p) - 1 /\ i + 1 \in 1 .. Len(p)
                BY <2>2, <6>1, <7>2
              <8>2. Leads(p[i], p[i + 1])
                BY <2>1, <8>1 DEF Tracked, IsPath
              <8>3. QED
                BY <4>2, <6>1, <6>2, <8>1, <8>2
            <7>3. QED
              BY <7>1, <7>2
          <6>4. Leads(x, y)'
            BY <2>5, <6>3, SameLeads
          <6>5. QED
            BY <6>2, <6>4
        <5>3. ASSUME NEW i \in 1 .. Len(w), NEW j \in 1 .. Len(w), w[i] = w[j]
              PROVE  i = j
          <6>1. \A x, y \in 1 .. Len(p) : p[x] = p[y] => x = y
            BY <2>1 DEF Tracked, IsPath
          <6>2. (i = n \/ i \in 1 .. Len(p)) /\ (j = n \/ j \in 1 .. Len(p))
            BY <2>2, <4>2
          <6>3. QED
            BY <4>2, <4>3, <5>3, <6>1, <6>2
        <5>4. QED
          BY <4>2, <5>1, <5>2, <5>3 DEF IsPath
      <4>6. Tracked(w)'
        <5>1. IsPath(w, First)' /\ (w[Len(w)] = table)'
          BY <2>5, <4>1, <4>2, <4>4, <4>5
        <5>2. \A i \in 1 .. Len(w) : w[i] \in Visited'
          <6>1. \A i \in 1 .. Len(p) : p[i] \in Visited'
            BY <2>1, <2>5 DEF Tracked
          <6>2. w[n] \in Visited'
            BY <2>5, <4>1, <4>2
          <6>3. QED
            BY <2>2, <4>2, <6>1, <6>2
        <5>3. Before(w)' = Len(p)
          BY <2>2, <4>1, <4>2 DEF Before
        <5>4. \A x : (Followed(rules, x))' <=> \E i \in 1 .. Len(p) : w[i] = x
          BY <2>8, <4>2 DEF Followed, Rule
        <5>5. Len(rules)' = Len(w) + Len(p) - 1
          BY <2>2, <2>9, <4>2
        <5>6. QED
          BY <5>1, <5>2, <5>3, <5>4, <5>5 DEF Tracked
      <4>7. AsStored'
        BY <4>1 DEF AsStored
      <4>8. QED
        BY <4>1, <4>2, <4>6, <4>7 DEF PathInv
    <3>6. QED
      BY <3>4, <3>5
  <2>13. QED
    BY <2>11, <2>12 DEF DataInv, ActionOK
<1>4. QED
  BY <1>2, <1>3 DEF DataInv

(* Each read finds a record that matches.                                  *)
LEMMA ReadMatches ==
  ASSUME DataInv, ReadCompare \/ ReadExact \/ ReadPrefix,
         pc' # "done" \/ rules' # rules
  PROVE  \/ \E k \in DOMAIN records : k \in Matching(table, value) /\ Follow(k)
         \/ \E next \in {"em", "lpm"}, n \in Nat : Goto(next, n)
<1>1. value \in Text /\ Len(value) \in Nat /\ rest \in Nat /\ (pc = "lpm" => rest \in 0 .. Len(value))
  BY DEF DataInv, Text
<1>2. CASE ReadCompare
  <2>1. (\E k \in Compared : Follow(k)) \/ Goto("em", rest)
    BY <1>2, Zenon DEF ReadCompare
  <2>2. \A k \in Compared : k \in DOMAIN records /\ k \in Matching(table, value)
    BY DEF Compared, Matching
  <2>3. QED
    BY <1>1, <2>1, <2>2, Zenon
<1>3. CASE ReadExact
  BY <1>1, <1>3 DEF ReadExact, Key, Matching
<1>4. CASE ReadPrefix
  <2> DEFINE k == Key(table, "lpm", Prefix(value, rest))
  <2>1. pc = "lpm"
    BY <1>4 DEF ReadPrefix
  <2>2. CASE k \in DOMAIN records
    <3>1. Follow(k)
      BY <1>4, <2>2, Zenon DEF ReadPrefix
    <3>2. Prefix(value, rest) \in Text /\ Len(Prefix(value, rest)) = rest
      BY <1>1, <2>1, PrefixType
    <3>3. IsPrefix(Prefix(value, rest), value)
      <4>1. SubSeq(Prefix(value, rest), 1, rest) = Prefix(value, rest)
        BY <3>2, SubSeqFull DEF Text
      <4>2. QED
        BY <1>1, <2>1, <3>2, <4>1 DEF IsPrefix, Prefix
    <3>4. k \in Matching(table, value)
      BY <2>2, <3>3 DEF Matching, Key
    <3>5. QED
      BY <2>2, <3>1, <3>4
  <2>3. CASE k \notin DOMAIN records /\ rest > 0
    <3>1. rest # 0
      BY <2>3
    <3>2. Goto("lpm", rest - 1)
      BY <1>4, <2>3, <3>1, Zenon DEF ReadPrefix
    <3>3. rest - 1 \in Nat
      BY <1>1, <2>3
    <3>4. QED
      BY <3>2, <3>3, Zenon
  <2>4. CASE k \notin DOMAIN records /\ rest = 0
    <3>1. End(<<>>) /\ UNCHANGED rules
      BY <1>1, <1>4, <2>4 DEF ReadPrefix
    <3>2. QED
      BY <3>1 DEF End
  <2>5. QED
    BY <1>1, <2>1, <2>2, <2>3, <2>4
<1>5. QED
  BY <1>2, <1>3, <1>4

(* When nothing is found, there is no record that is best.                 *)
LEMMA PathNothing ==
  ASSUME DataInv, RulesInv, LookupInv, LookupInv', PathInv,
         pc = "lpm", pc' = "done", result' = <<>>,
         UNCHANGED <<store, data, table, value, rules, found, lasting, still>>
  PROVE  PathInv'
<1>1. UNCHANGED <<tables, records, data, table, value, rules, found, lasting, still>>
  BY DEF store
<1>2. CASE ~still
  BY <1>1, <1>2 DEF PathInv, AsStored
<1>3. CASE still
  <2>1. PICK p \in Seq(Table) : Tracked(p)
    BY <1>3 DEF PathInv
  <2>2. /\ Queried(table) /\ tables[table].variable \in DOMAIN data
        /\ value = data[tables[table].variable] /\ lasting = DOMAIN records
    BY <1>3 DEF PathInv
  <2>3. Matching(table, value) = {}
    <3>1. found = None /\ found' = None
      BY <1>1 DEF LookupInv
    <3>2. Kept(table, value)' = {}
      BY <3>1 DEF LookupInv
    <3>3. Kept(table, value)' = Matching(table, value)
      BY <1>1, <2>2 DEF Kept, Matching, Holds, Against
    <3>4. QED
      BY <3>2, <3>3
  <2>4. BestOf(table) = {}
    BY <2>2, <2>3 DEF BestOf, Best
  <2>5. p[Len(p)] = table /\ Len(p) \in Nat /\ Len(rules) = 2 * Len(p) - 1
    BY <2>1 DEF Tracked, Before
  <2>6. Ends(p, result')
    BY <2>2, <2>4, <2>5 DEF Ends
  <2>7. 2 * Len(p) <= MaxRules
    <3>1. Len(rules) < MaxRules /\ MaxRules \in Nat
      BY RoutingAssumption DEF RulesInv
    <3>2. QED
      BY <2>5, <3>1
  <2>8. First' = First /\ Visited \subseteq Visited' /\ Unmoved
    BY <1>1 DEF First, Visited, Unmoved, LookupInv
  <2>9. AsStored'
    BY <2>1, <2>6, <2>7, <2>8, EndOfPath
  <2>10. QED
    BY <2>9 DEF PathInv
<1>4. QED
  BY <1>2, <1>3 DEF DataInv

(* A read that goes on, or one that changes nothing, leaves the path.      *)
LEMMA PathStays ==
  ASSUME LookupInv, LookupInv', PathInv,
         UNCHANGED <<tables, records, data, table, value, rules, lasting, still>>,
         \/ UNCHANGED <<pc, result>>
         \/ {pc, pc'} \subseteq {"compare", "em", "lpm"}
  PROVE  PathInv'
<1>1. CASE pc = "done"
  <2>1. AsStored'
    <3>1. Unmoved
      BY DEF Unmoved, LookupInv
    <3>2. SUFFICES ASSUME still
                   PROVE  AsStored'
      BY DEF AsStored
    <3>3. PICK p \in BoundedSeq(Visited, MaxRules \div 2) : IsPath(p, First) /\ Ends(p, result)
      BY <1>1, <3>2 DEF PathInv, AsStored
    <3>4. PICK t, r : t = First /\ r = result
      OBVIOUS
    <3>5. IsPath(p, t)'
      BY <3>1, <3>3, <3>4, SameLeads DEF IsPath
    <3>6. Ends(p, r)'
      BY <3>1, <3>3, <3>4, SameEnds
    <3>7. First' = t /\ result' = r /\ Visited' = Visited
      BY <1>1, <3>4 DEF First, Visited
    <3>8. QED
      BY <3>3, <3>5, <3>6, <3>7 DEF AsStored
  <2>2. QED
    BY <1>1, <2>1 DEF PathInv
<1>2. CASE pc # "done"
  <2>1. pc' # "done" /\ (pc = "table" <=> pc' = "table")
        /\ (pc \in {"compare", "em", "lpm"} <=> pc' \in {"compare", "em", "lpm"})
    BY <1>2
  <2>2. AsStored'
    BY <2>1 DEF AsStored
  <2>3. SUFFICES ASSUME still
                 PROVE  PathInv'
    BY <2>2 DEF PathInv
  <2>4. PICK p \in Seq(Table) : Tracked(p)
    BY <1>2, <2>3 DEF PathInv
  <2>5. PICK t : t = First
    OBVIOUS
  <2>6. First' = t /\ Visited' = Visited /\ Before(p)' = Before(p)
    BY <2>1, <2>5 DEF First, Visited, Before
  <2>7. IsPath(p, t)'
    <3>1. Unmoved
      BY DEF Unmoved, LookupInv
    <3>2. QED
      BY <2>4, <2>5, <3>1, SameLeads DEF Tracked, IsPath
  <2>8. Tracked(p)'
    <3>1. \A x : (Followed(rules, x))' <=> Followed(rules, x)
      BY DEF Followed, Rule
    <3>2. QED
      BY <2>4, <2>6, <2>7, <3>1 DEF Tracked
  <2>9. (Queried(table) /\ tables[table].variable \in DOMAIN data
         /\ value = data[tables[table].variable] /\ lasting = DOMAIN records)'
        \/ pc \notin {"compare", "em", "lpm"}
    BY <2>3 DEF PathInv, Queried
  <2>10. QED
    BY <2>1, <2>2, <2>4, <2>8, <2>9 DEF PathInv
<1>3. QED
  BY <1>1, <1>2

(* A path of one table is one whatever is stored.                          *)
LEMMA PathStarts ==
  ASSUME table \in Table, pc = "table", rules = <<>>
  PROVE  Tracked(<<table>>) /\ <<table>> \in Seq(Table)
<1>1. Len(<<table>>) = 1 /\ First = table /\ table \in Visited
  BY DEF First, Visited
<1>2. \A t : ~Followed(rules, t)
  BY DEF Followed
<1>3. IsPath(<<table>>, First)
  BY <1>1 DEF IsPath
<1>4. QED
  BY <1>1, <1>2, <1>3 DEF Tracked, Before

LEMMA PathInit == Init => PathInv
<1> SUFFICES ASSUME Init
             PROVE  PathInv
  OBVIOUS
<1>1. table \in Table /\ pc = "table" /\ rules = <<>>
  BY DataInit DEF DataInv, Init
<1>2. Tracked(<<table>>) /\ <<table>> \in Seq(Table)
  BY <1>1, PathStarts
<1>3. QED
  BY <1>1, <1>2 DEF PathInv, AsStored

LEMMA PathStep ==
  DataInv /\ RulesInv /\ LookupInv /\ LookupInv' /\ PathInv /\ [Next]_vars => PathInv'
<1> SUFFICES ASSUME DataInv, RulesInv, LookupInv, LookupInv', PathInv, [Next]_vars
             PROVE  PathInv'
  OBVIOUS
<1>1. CASE ReadTable
  BY <1>1, PathTable
<1>2. CASE ReadCompare \/ ReadExact \/ ReadPrefix
  <2>1. pc \in {"compare", "em", "lpm"}
    BY <1>2 DEF ReadCompare, ReadExact, ReadPrefix
  <2>2. CASE pc' # "done" \/ rules' # rules
    <3>1. ASSUME NEW next \in {"em", "lpm"}, NEW n, Goto(next, n)
          PROVE  PathInv'
      <4>1. UNCHANGED <<tables, records, data, table, value, rules, lasting, still>> /\ pc' = next
        BY <3>1 DEF Goto, store
      <4>2. QED
        BY <2>1, <4>1, PathStays
    <3>2. QED
      BY <1>2, <2>1, <2>2, <3>1, ReadMatches, PathFollow
  <2>3. CASE pc' = "done" /\ rules' = rules
    <3>1. ASSUME NEW k, Follow(k)
          PROVE  FALSE
      <4>1. rules' = Append(rules, Rule(table, k)) /\ rules \in Seq(RuleType)
        BY <3>1 DEF Follow, RulesInv
      <4>2. rules \in Seq(RuleType \cup {Rule(table, k)}) /\ Rule(table, k) \in RuleType \cup {Rule(table, k)}
        BY <4>1
      <4>3. Len(rules') = Len(rules) + 1 /\ Len(rules) \in Nat
        BY <4>1, <4>2
      <4>4. QED
        BY <2>3, <4>3
    <3>2. /\ pc = "lpm" /\ End(<<>>)
          /\ UNCHANGED <<store, data, rules, found, lasting, still>>
      <4>1. ~ReadCompare /\ ~ReadExact
        BY <2>3, <3>1 DEF ReadCompare, ReadExact, Goto
      <4>2. ReadPrefix
        BY <1>2, <4>1
      <4>3. ~Goto("lpm", rest - 1)
        BY <2>3 DEF Goto
      <4>4. rest \in Nat /\ pc = "lpm"
        BY <4>2 DEF DataInv, ReadPrefix
      <4>5. rest > 0 \/ rest = 0
        BY <4>4
      <4>6. QED
        BY <3>1, <4>2, <4>3, <4>4, <4>5, Zenon DEF ReadPrefix
    <3>3. QED
      BY <3>2, PathNothing DEF End
  <2>4. QED
    BY <2>2, <2>3
<1>3. CASE Request
  <2>1. UNCHANGED <<data, pc, table, value, rest, rules, found, result>>
    BY <1>3, RequestFrame
  <2>2. Edit
    BY <1>3 DEF Request, CreateRecord, UpdateRecord, DeleteRecord, CreateTable, UpdateTable, DeleteTable
  <2>3. pc' # "done" /\ AsStored'
    BY <2>1, <2>2 DEF Edit, AsStored
  <2>4. still' => pc = "table" /\ rules = <<>>
    BY <2>2 DEF Edit
  <2>5. ASSUME still'
        PROVE  PathInv'
    <3>1. (pc = "table" /\ rules = <<>> /\ table \in Table)'
      BY <2>1, <2>4, <2>5 DEF DataInv
    <3>2. (Tracked(<<table>>) /\ <<table>> \in Seq(Table))'
      BY <3>1, PathStarts, PTL
    <3>3. QED
      BY <2>3, <3>1, <3>2 DEF PathInv
  <2>6. QED
    BY <2>3, <2>5 DEF PathInv
<1>4. CASE UNCHANGED vars
  BY <1>4, PathStays DEF vars, store
<1>5. QED
  BY <1>1, <1>2, <1>3, <1>4 DEF Next, Lookup, Request

(* If nothing is changed while a call is routed, what it gets is what the  *)
(* tables lead to: for any tables, records, and data of calls.             *)
THEOREM AnswerAsStored == Spec => []AsStored
<1>1. Init => DataInv /\ RulesInv /\ LookupInv /\ PathInv
  BY DataInit, RulesInit, LookupInit, PathInit
<1>2. DataInv /\ RulesInv /\ LookupInv /\ PathInv /\ [Next]_vars
         => (DataInv /\ RulesInv /\ LookupInv /\ PathInv)'
  BY DataStep, RulesStep, LookupStep, PathStep
<1>3. PathInv => AsStored
  BY DEF PathInv
<1>4. QED
  BY <1>1, <1>2, <1>3, PTL DEF Spec

-----------------------------------------------------------------------------
(* That a call gets its answer is for TLC: it needs fairness.  But no      *)
(* lookup can go on for ever.  If no text of a call is longer than L, each *)
(* rule in the list takes at most L + 4 reads: this many are left.         *)
ReadsLeft(L) ==
    LET others == (MaxRules - Len(rules)) * (L + 4) IN
    CASE pc = "table" -> others
      [] pc = "compare" -> others + L + 2
      [] pc = "em" -> others + L + 1
      [] pc = "lpm" -> others + rest
      [] pc = "done" -> 0

TextsWithin(L) ==
    /\ \A x \in DOMAIN data : Len(data[x]) <= L
    /\ Len(value) <= L

LEMMA TextsStep ==
  ASSUME NEW L \in Nat, DataInv, TextsWithin(L), [Next]_vars
  PROVE  TextsWithin(L)'
<1>1. CASE ReadTable
  BY <1>1, ReadTableFrame DEF TextsWithin
<1>2. CASE ReadCompare \/ ReadExact \/ ReadPrefix
  BY <1>2, ReadFrame, FollowFrame DEF TextsWithin
<1>3. CASE Request
  BY <1>3, RequestFrame DEF TextsWithin
<1>4. CASE UNCHANGED vars
  BY <1>4 DEF TextsWithin, vars
<1>5. QED
  BY <1>1, <1>2, <1>3, <1>4 DEF Next, Lookup, Request

LEMMA Product ==
  ASSUME NEW n \in Nat, NEW m \in Nat
  PROVE  n * m \in Nat /\ (n + 1) * m = n * m + m
OBVIOUS

(* Another rule in the list takes its share.                               *)
LEMMA OneRuleMore ==
  ASSUME NEW L \in Nat, NEW n \in Nat, n < MaxRules
  PROVE  /\ (MaxRules - n) * (L + 4) \in Nat
         /\ (MaxRules - (n + 1)) * (L + 4) \in Nat
         /\ (MaxRules - n) * (L + 4) = (MaxRules - (n + 1)) * (L + 4) + (L + 4)
<1> DEFINE k == MaxRules - (n + 1)
<1>1. k \in Nat /\ MaxRules - n = k + 1 /\ L + 4 \in Nat
  BY RoutingAssumption
<1>2. k * (L + 4) \in Nat /\ (k + 1) * (L + 4) = k * (L + 4) + (L + 4)
  BY <1>1, Product
<1>3. QED
  BY <1>1, <1>2

LEMMA ReadsType ==
  ASSUME NEW L \in Nat, DataInv, RulesInv
  PROVE  ReadsLeft(L) \in Nat /\ (pc # "done" => ReadsLeft(L) > 0)
<1>1. rest \in Nat /\ Len(rules) \in Nat /\ pc \in {"table", "compare", "em", "lpm", "done"}
  BY DEF DataInv, RulesInv
<1>2. CASE pc = "done"
  BY <1>2 DEF ReadsLeft
<1>3. CASE pc # "done"
  <2> DEFINE m == (MaxRules - Len(rules)) * (L + 4)
  <2>1. Len(rules) < MaxRules
    BY <1>1, <1>3 DEF RulesInv
  <2>2. m \in Nat /\ m >= L + 4
    BY <1>1, <2>1, OneRuleMore
  <2> HIDE DEF m
  <2>3. ReadsLeft(L) \in {m, m + L + 2, m + L + 1, m + rest}
    BY <1>1, <1>3 DEF ReadsLeft, m
  <2>4. QED
    BY <1>1, <2>2, <2>3
<1>4. QED
  BY <1>2, <1>3

LEMMA ReadsShrink ==
  ASSUME NEW L \in Nat, DataInv, RulesInv, RulesInv', DataInv', TextsWithin(L), TextsWithin(L)',
         Lookup
  PROVE  ReadsLeft(L)' < ReadsLeft(L)
<1> DEFINE n == Len(rules)
           m == (MaxRules - n) * (L + 4)
<1>1. /\ n \in Nat /\ rest \in Nat /\ rest' \in Nat /\ Len(value) \in Nat
      /\ rules \in Seq(RuleType) /\ table \in Table
  BY DEF DataInv, RulesInv, Text
<1>2. pc # "done" /\ n < MaxRules
  BY DEF Lookup, ReadTable, ReadCompare, ReadExact, ReadPrefix, RulesInv
<1>3. ReadsLeft(L) \in Nat /\ ReadsLeft(L) > 0
  BY <1>2, ReadsType
<1>4. CASE pc' = "done"
  BY <1>3, <1>4 DEF ReadsLeft
<1>5. CASE pc' # "done"
  <2> DEFINE o == (MaxRules - (n + 1)) * (L + 4)
  <2>1. m \in Nat /\ o \in Nat /\ m = o + (L + 4)
    BY <1>1, <1>2, OneRuleMore
  <2> HIDE DEF m, o
  <2>2. ASSUME NEW k \in DOMAIN records, Follow(k)
        PROVE  ReadsLeft(L)' < ReadsLeft(L)
    <3>1. pc' = "table" /\ rules' = Append(rules, Rule(table, k))
      <4>1. rules' = Append(rules, Rule(table, k))
        BY <2>2 DEF Follow
      <4>2. pc' = "table"
        BY <1>5, <2>2, FollowFrame
      <4>3. QED
        BY <4>1, <4>2
    <3>2. rules \in Seq(RuleType \cup {Rule(table, k)}) /\ Rule(table, k) \in RuleType \cup {Rule(table, k)}
      BY <1>1
    <3>3. Len(rules') = n + 1
      BY <3>1, <3>2
    <3>4. ReadsLeft(L)' = o
      BY <3>1, <3>3 DEF ReadsLeft, o
    <3>5. pc \in {"table", "compare", "em", "lpm"}
      BY <1>2 DEF DataInv
    <3>6. ReadsLeft(L) \in {m, m + L + 2, m + L + 1, m + rest}
      BY <3>5 DEF ReadsLeft, m
    <3>7. QED
      BY <1>1, <2>1, <3>4, <3>6
  <2>3. CASE ReadTable
    <3>1. pc = "table" /\ pc' = "compare" /\ rules' = Append(rules, Rule(table, None))
      BY <1>5, <2>3, ReadTableFrame
    <3>2. Rule(table, None) \in RuleType
      BY <1>1 DEF Rule, RuleType
    <3>3. Len(rules') = n + 1
      BY <1>1, <3>1, <3>2
    <3>4. ReadsLeft(L)' = o + L + 2 /\ ReadsLeft(L) = m
      BY <3>1, <3>3 DEF ReadsLeft, m, o
    <3>5. QED
      BY <2>1, <3>4
  <2>4. CASE ReadCompare
    <3>1. CASE \E k \in Compared : Follow(k)
      BY <2>2, <3>1 DEF Compared
    <3>2. CASE Goto("em", rest)
      <4>1. pc = "compare" /\ pc' = "em" /\ rules' = rules
        BY <2>4, <3>2 DEF ReadCompare, Goto
      <4>2. ReadsLeft(L)' = m + L + 1 /\ ReadsLeft(L) = m + L + 2
        BY <4>1 DEF ReadsLeft, m
      <4>3. QED
        BY <2>1, <4>2
    <3>3. QED
      BY <2>4, <3>1, <3>2 DEF ReadCompare
  <2>5. CASE ReadExact
    <3>1. CASE Goto("lpm", Len(value))
      <4>1. pc = "em" /\ pc' = "lpm" /\ rules' = rules /\ rest' = Len(value)
        BY <2>5, <3>1 DEF ReadExact, Goto
      <4>2. ReadsLeft(L)' = m + Len(value) /\ ReadsLeft(L) = m + L + 1
        BY <4>1 DEF ReadsLeft, m
      <4>3. Len(value) <= L
        BY DEF TextsWithin
      <4>4. QED
        BY <1>1, <2>1, <4>2, <4>3
    <3>2. QED
      BY <2>2, <2>5, <3>1 DEF ReadExact
  <2>6. CASE ReadPrefix
    <3> DEFINE k == Key(table, "lpm", Prefix(value, rest))
    <3>1. CASE k \in DOMAIN records
      <4>1. Follow(k)
        BY <2>6, <3>1, Zenon DEF ReadPrefix
      <4>2. QED
        BY <2>2, <3>1, <4>1
    <3>2. CASE k \notin DOMAIN records /\ rest # 0
      <4>1. rest > 0
        BY <1>1, <3>2
      <4>2. Goto("lpm", rest - 1) /\ pc = "lpm"
        BY <2>6, <3>2, <4>1, Zenon DEF ReadPrefix
      <4>3. pc' = "lpm" /\ rules' = rules /\ rest' = rest - 1
        BY <4>2 DEF Goto
      <4>4. ReadsLeft(L)' = m + (rest - 1) /\ ReadsLeft(L) = m + rest
        BY <4>2, <4>3 DEF ReadsLeft, m
      <4>5. QED
        BY <1>1, <2>1, <4>4
    <3>3. CASE k \notin DOMAIN records /\ rest = 0
      <4>1. End(<<>>)
        BY <2>6, <3>3, SMT DEF ReadPrefix
      <4>2. QED
        BY <1>5, <4>1 DEF End
    <3>4. QED
      BY <3>1, <3>2, <3>3
  <2>7. QED
    BY <2>3, <2>4, <2>5, <2>6 DEF Lookup
<1>6. QED
  BY <1>4, <1>5

(* Whatever operators change between the reads of a call, each brings its  *)
(* answer nearer: it reads Redis MaxRules * (L + 4) times at most.         *)
THEOREM ReadsRunOut ==
  ASSUME NEW L \in Nat, \A c \in Calls : \A x \in DOMAIN c.data : Len(c.data[x]) <= L
  PROVE  Spec => /\ [](ReadsLeft(L) \in Nat /\ ReadsLeft(L) <= MaxRules * (L + 4))
                 /\ [][/\ Lookup => ReadsLeft(L)' < ReadsLeft(L)
                       /\ ~Lookup => ReadsLeft(L)' = ReadsLeft(L)]_vars
<1> DEFINE I == DataInv /\ RulesInv /\ TextsWithin(L) /\ ReadsLeft(L) <= MaxRules * (L + 4)
           A == /\ Lookup => ReadsLeft(L)' < ReadsLeft(L)
                /\ ~Lookup => ReadsLeft(L)' = ReadsLeft(L)
<1>0. DataInv /\ RulesInv => ReadsLeft(L) \in Nat
  BY ReadsType
<1>1. Init => I
  <2> SUFFICES ASSUME Init
               PROVE  I
    OBVIOUS
  <2>1. DataInv /\ RulesInv
    BY DataInit, RulesInit
  <2>2. TextsWithin(L)
    <3>1. Len(value) = 0
      BY DEF Init
    <3>2. \A x \in DOMAIN data : Len(data[x]) <= L
      BY DEF Init
    <3>3. QED
      BY <3>1, <3>2 DEF TextsWithin
  <2>3. pc = "table" /\ Len(rules) = 0
    BY DEF Init
  <2>4. ReadsLeft(L) = (MaxRules - 0) * (L + 4) /\ MaxRules - 0 = MaxRules
    BY <2>3, RoutingAssumption DEF ReadsLeft
  <2>5. ReadsLeft(L) \in Nat
    BY <2>1, ReadsType
  <2>6. QED
    BY <2>1, <2>2, <2>4, <2>5
<1>2. I /\ [Next]_vars => I' /\ [A]_vars
  <2> SUFFICES ASSUME I, [Next]_vars
               PROVE  I' /\ [A]_vars
    OBVIOUS
  <2>1. DataInv' /\ RulesInv' /\ TextsWithin(L)'
    BY DataStep, RulesStep, TextsStep
  <2>2. MaxRules * (L + 4) \in Nat /\ ReadsLeft(L) \in Nat /\ ReadsLeft(L)' \in Nat
    <3>1. ReadsLeft(L) \in Nat
      BY ReadsType
    <3>2. (ReadsLeft(L) \in Nat)'
      BY <1>0, <2>1, PTL
    <3>3. QED
      BY <3>1, <3>2, Product, RoutingAssumption
  <2>3. CASE Lookup
    <3>1. ReadsLeft(L)' < ReadsLeft(L)
      BY <2>1, <2>3, ReadsShrink
    <3>2. QED
      BY <2>1, <2>2, <2>3, <3>1
  <2>4. CASE ~Lookup
    <3>1. UNCHANGED <<pc, rules, rest>>
      BY <2>4, RequestFrame DEF Next, Request, vars
    <3>2. ReadsLeft(L)' = ReadsLeft(L)
      BY <3>1 DEF ReadsLeft
    <3>3. QED
      BY <2>1, <2>2, <2>4, <3>2
  <2>5. QED
    BY <2>3, <2>4
<1>3. I => ReadsLeft(L) \in Nat /\ ReadsLeft(L) <= MaxRules * (L + 4)
  BY ReadsType
<1>4. QED
  BY <1>1, <1>2, <1>3, PTL DEF Spec
===============================================================================
