------------------------------- MODULE Routing -------------------------------
(***************************************************************************)
(* How a call finds its routes: routing_query (callng/callfunc.lua), one   *)
(* step for each access to Redis, while operators change the tables and    *)
(* the records (liberator/libreapi.py).  ConfigStore has the steps of      *)
(* those requests; here each is one change.                                *)
(*                                                                         *)
(* A text (a number, a name) is a sequence of characters, those up to 9    *)
(* being digits.  A record is stored under its table, its kind of match    *)
(* and a text.                                                             *)
(*                                                                         *)
(*   tables   the schema of each routing table, or None                    *)
(*   records  what each stored record says is to be done                   *)
(*   data     what is known of the call: the text of each variable         *)
(*   pc       which access is next                                         *)
(*   table    the table that is looked up                                  *)
(*   value    the text that is looked up in it                             *)
(*   rest     how much of it the next prefix has                           *)
(*   rules    the tables and records that have been followed               *)
(*   found    the record that the last lookup found, or None               *)
(*   result   the routes of the call                                       *)
(*   lasting  the records that have been there since the table was read,   *)
(*   still    and whether nothing has changed since the first was: two      *)
(*            histories, for the properties                                *)
(***************************************************************************)
EXTENDS Integers, FiniteSets, SequencesExt

CONSTANTS Table,    \* names of routing tables
          Stores,   \* the tables and records there may be when a call comes
          Calls,    \* the calls: where they start, and their data
          Schemas,  \* the schemas operators give to each table they change
          Actions,  \* the actions they give to each record they change
          MaxRules, \* 10: no table is read once so many rules are listed
          None      \* nothing


VARIABLES tables, records, data, pc, table, value, rest, rules, found, result,
          lasting, still

store == <<tables, records>>
vars == <<tables, records, data, pc, table, value, rest, rules, found, result,
          lasting, still>>

Compares == {"eq", "ne", "gt", "lt"}
Matches == Compares \cup {"em", "lpm"}

-----------------------------------------------------------------------------
(* What is stored, as the validators of the API have it.                   *)

Text == Seq(Nat)
KeyType == [table : Table, match : Matches, text : Text]
SchemaOK(s) == s.action \in {"block", "route", "query", "httpr"}
ActionOK(a) ==
    /\ a.action \in {"block", "route", "jumps"}
    /\ a.action = "jumps" => {a.choice.first, a.choice.second} \subseteq Table

ASSUME RoutingAssumption ==
    /\ IsFiniteSet(Table)
    /\ MaxRules \in Nat \ {0} /\ MaxRules % 2 = 0
    /\ None \notin Table \cup KeyType

ASSUME StoresAssumption ==
    \A s \in Stores :
       /\ s.tables = [t \in Table |-> s.tables[t]]
       /\ \A t \in Table : s.tables[t] = None \/ SchemaOK(s.tables[t])
       /\ s.records = [k \in DOMAIN s.records |-> s.records[k]]
       /\ \A k \in DOMAIN s.records : k \in KeyType /\ ActionOK(s.records[k])

ASSUME RequestsAssumption ==
    /\ \A c \in Calls : c.start \in Table /\ \A x \in DOMAIN c.data : c.data[x] \in Text
    /\ \A t \in DOMAIN Schemas : t \in Table /\ \A s \in Schemas[t] : SchemaOK(s) /\ s # None
    /\ \A k \in DOMAIN Actions : k \in KeyType /\ \A a \in Actions[k] : ActionOK(a)

-----------------------------------------------------------------------------
(* What matches.                                                           *)

Key(t, m, x) == [table |-> t, match |-> m, text |-> x]

Numeric(x) == x # <<>> /\ \A i \in DOMAIN x : x[i] \in 0 .. 9
AsNumber(x) == FoldLeft(LAMBDA n, d : 10 * n + d, 0, x)
Prefix(x, n) == SubSeq(x, 1, n)

(* A comparison is with another variable, or else with a fixed text.       *)
Against(x) == IF x \in DOMAIN data THEN data[x] ELSE x

Holds(m, x, y) ==
    \/ m = "eq" /\ x = y
    \/ m = "ne" /\ x # y
    \/ /\ Numeric(x) /\ Numeric(y)
       /\ \/ m = "gt" /\ AsNumber(x) > AsNumber(y)
          \/ m = "lt" /\ AsNumber(x) < AsNumber(y)

Compared == {k \in DOMAIN records : /\ k.table = table /\ k.match \in Compares
                                    /\ Holds(k.match, value, Against(k.text))}

(* pchoice: the first of two comes first if a number drawn from 1 to 100   *)
(* is below the load, so the second always may.                            *)
Orders(c) ==
    {<<c.second, c.first>>} \cup IF c.load > 1 THEN {<<c.first, c.second>>} ELSE {}

-----------------------------------------------------------------------------
(* The lookup.                                                             *)

Rule(t, k) == [table |-> t, record |-> k]
Followed(r, t) == \E i \in DOMAIN r : r[i] = Rule(t, None)

End(r) ==
    /\ pc' = "done"
    /\ result' = r
    /\ UNCHANGED <<table, value, rest>>

(* hgetall of the schema.                                                  *)
ReadTable ==
    /\ pc = "table"
    /\ LET s == tables[table] IN
       /\ rules' = IF s = None THEN rules ELSE Append(rules, Rule(table, None))
       /\ CASE s = None -> End(<<>>)
            [] s # None /\ s.action = "block" -> End(<<"block">>)
            [] s # None /\ s.action = "route" -> \E r \in Orders(s.choice) : End(r)
            [] s # None /\ s.action = "httpr" -> \E r \in {<<>>, <<"asked">>} : End(r)
            [] s # None /\ s.action = "query" /\ s.variable \notin DOMAIN data -> End(<<>>)
            [] s # None /\ s.action = "query" /\ s.variable \in DOMAIN data ->
                 /\ pc' = "compare"
                 /\ value' = data[s.variable]
                 /\ UNCHANGED <<table, rest, result>>
       /\ lasting' = IF pc' = "compare" THEN DOMAIN records ELSE {}
    /\ found' = None
    /\ UNCHANGED <<store, data, still>>

(* Mutant: only the table that has just been read is not read again.       *)
JumpBack(t, r) ==
    IF t = table \/ Len(r) >= MaxRules THEN End(<<>>)
    ELSE pc' = "table" /\ table' = t /\ UNCHANGED <<value, rest, result>>

(* A jump is followed unless it leads back, or there were too many.        *)
Jump(t, r) ==
    IF Followed(r, t) \/ Len(r) >= MaxRules THEN End(<<>>)
    ELSE pc' = "table" /\ table' = t /\ UNCHANGED <<value, rest, result>>

(* A record is found, and what it says is done.                            *)
Follow(k) ==
    LET a == records[k] IN
    /\ found' = k
    /\ rules' = Append(rules, Rule(table, k))
    /\ CASE a.action = "block" -> End(<<"block">>)
         [] a.action = "route" -> \E r \in Orders(a.choice) : End(r)
         [] a.action = "jumps" -> \E r \in Orders(a.choice) : Jump(r[1], rules')
    /\ UNCHANGED <<store, data, lasting, still>>

Goto(next, n) ==
    /\ pc' = next
    /\ rest' = n
    /\ UNCHANGED <<store, data, table, value, rules, found, result, lasting, still>>

(* hgetall of the comparisons, which are tried in any order.               *)
ReadCompare ==
    /\ pc = "compare"
    /\ \/ \E k \in Compared : Follow(k)
       \/ Compared = {} /\ Goto("em", rest)

(* Mutant: the first prefix is longer than the text.                       *)
ReadExactLong ==
    /\ pc = "em"
    /\ LET k == Key(table, "em", value) IN
       IF k \in DOMAIN records THEN Follow(k) ELSE Goto("lpm", Len(value) + 1)

(* Mutant: the whole text is not tried as a prefix.                        *)
ReadExactShort ==
    /\ pc = "em"
    /\ LET k == Key(table, "em", value) IN
       IF k \in DOMAIN records THEN Follow(k)
       ELSE Goto("lpm", IF value = <<>> THEN 0 ELSE Len(value) - 1)

ReadExact ==
    /\ pc = "em"
    /\ LET k == Key(table, "em", value) IN
       IF k \in DOMAIN records THEN Follow(k) ELSE Goto("lpm", Len(value))

(* Mutant: the empty prefix, the default entry, is not tried.              *)
ReadPrefixNoDefault ==
    /\ pc = "lpm"
    /\ LET k == Key(table, "lpm", Prefix(value, rest)) IN
       CASE k \in DOMAIN records -> Follow(k)
         [] k \notin DOMAIN records /\ rest > 1 -> Goto("lpm", rest - 1)
         [] k \notin DOMAIN records /\ rest <= 1 ->
              End(<<>>) /\ UNCHANGED <<store, data, rules, found, lasting, still>>

(* Mutant: nothing ends the loop.                                          *)
ReadPrefixForever ==
    /\ pc = "lpm"
    /\ LET k == Key(table, "lpm", Prefix(value, rest)) IN
       IF k \in DOMAIN records THEN Follow(k)
       ELSE Goto("lpm", IF rest = 0 THEN 0 ELSE rest - 1)

(* One prefix after the other, from the whole text to none of it.          *)
ReadPrefix ==
    /\ pc = "lpm"
    /\ LET k == Key(table, "lpm", Prefix(value, rest)) IN
       CASE k \in DOMAIN records -> Follow(k)
         [] k \notin DOMAIN records /\ rest > 0 -> Goto("lpm", rest - 1)
         [] k \notin DOMAIN records /\ rest = 0 ->
              End(<<>>) /\ UNCHANGED <<store, data, rules, found, lasting, still>>

Lookup == ReadTable \/ ReadCompare \/ ReadExact \/ ReadPrefix

-----------------------------------------------------------------------------
(* The operators.  What they do after the answer is left out.              *)

Edit ==
    /\ pc # "done"
    /\ still' = (still /\ pc = "table" /\ rules = <<>>)
    /\ UNCHANGED <<data, pc, table, value, rest, rules, found, result>>

Keys == DOMAIN Actions

(* A record is of a table that exists; it jumps to others that do.         *)
Valid(k, a) ==
    /\ tables[k.table] # None
    /\ a.action = "jumps" => \A t \in {a.choice.first, a.choice.second} :
                                tables[t] # None /\ t # k.table

CreateRecord ==
    \E k \in Keys \ DOMAIN records : \E a \in Actions[k] :
       /\ Valid(k, a)
       /\ records' = [j \in DOMAIN records \cup {k} |-> IF j = k THEN a ELSE records[j]]
       /\ Edit /\ UNCHANGED <<tables, lasting>>

UpdateRecord ==
    \E k \in Keys \cap DOMAIN records : \E a \in Actions[k] :
       /\ Valid(k, a)
       /\ records' = [records EXCEPT ![k] = a]
       /\ Edit /\ UNCHANGED <<tables, lasting>>

DeleteRecord ==
    \E k \in Keys \cap DOMAIN records :
       /\ records' = [j \in DOMAIN records \ {k} |-> records[j]]
       /\ lasting' = lasting \ {k}
       /\ Edit /\ UNCHANGED tables

Jumping(t) == {k \in DOMAIN records : /\ records[k].action = "jumps"
                                      /\ t \in {records[k].choice.first,
                                                records[k].choice.second}}

CreateTable ==
    \E t \in DOMAIN Schemas : \E s \in Schemas[t] :
       /\ tables[t] = None
       /\ tables' = [tables EXCEPT ![t] = s]
       /\ Edit /\ UNCHANGED <<records, lasting>>

UpdateTable ==
    \E t \in DOMAIN Schemas : \E s \in Schemas[t] :
       /\ tables[t] # None
       /\ tables' = [tables EXCEPT ![t] = s]
       /\ Edit /\ UNCHANGED <<records, lasting>>

(* Only a table that has no records and that nothing jumps to.             *)
DeleteTable ==
    \E t \in DOMAIN Schemas :
       /\ tables[t] # None
       /\ Jumping(t) = {} /\ \A k \in DOMAIN records : k.table # t
       /\ tables' = [tables EXCEPT ![t] = None]
       /\ Edit /\ UNCHANGED <<records, lasting>>

-----------------------------------------------------------------------------
Init ==
    /\ \E s \in Stores : tables = s.tables /\ records = s.records
    /\ \E c \in Calls : table = c.start /\ data = c.data
    /\ pc = "table"
    /\ value = <<>> /\ rest = 0
    /\ rules = <<>> /\ result = <<>>
    /\ found = None
    /\ lasting = {}
    /\ still = TRUE

Next ==
    \/ Lookup
    \/ CreateRecord \/ UpdateRecord \/ DeleteRecord
    \/ CreateTable \/ UpdateTable \/ DeleteTable

Spec == Init /\ [][Next]_vars

(* The script goes on; the operators may go on for ever.                   *)
FairSpec == Spec /\ WF_vars(Lookup)

-----------------------------------------------------------------------------
(* Properties.                                                             *)

TypeOK ==
    /\ \A t \in Table : tables[t] = None \/ SchemaOK(tables[t])
    /\ \A k \in DOMAIN records : k \in KeyType /\ ActionOK(records[k])
    /\ pc \in {"table", "compare", "em", "lpm", "done"}
    /\ table \in Table
    /\ rest \in Nat /\ (pc = "lpm" => rest <= Len(value))
    /\ Len(rules) <= MaxRules
    /\ found \in KeyType \cup {None}
    /\ still \in BOOLEAN

(* The records of a table that match a text, and which come first.         *)
Matching(t, x) ==
    {k \in DOMAIN records \cup lasting :
        /\ k.table = t
        /\ \/ k.match \in Compares /\ Holds(k.match, x, Against(k.text))
           \/ k.match = "em" /\ k.text = x
           \/ k.match = "lpm" /\ IsPrefix(k.text, x)}

Rank(k, x) ==
    CASE k.match \in Compares -> 2
      [] k.match = "em" -> 1
      [] k.match = "lpm" -> Len(k.text) - Len(x)

Looked == IF found = None THEN table ELSE found.table
LookupOver == pc = "done" \/ found # None

(* Comparisons come before the exact text, that before prefixes, and a     *)
(* longer prefix before a shorter one.  Whatever operators change          *)
(* meanwhile, no record is overlooked that was there all the time and is   *)
(* to be preferred to what was found, or to finding nothing.               *)
NoneOverlooked ==
    LookupOver =>
       ~\E k \in lasting \cap Matching(Looked, value) :
            found = None \/ Rank(k, value) > Rank(found, value)

(* No table is followed twice, and no more than half of MaxRules: jumps    *)
(* that lead round, or are led round by changes, do not hold the call.     *)
NoRevisit ==
    LET T == {i \in DOMAIN rules : rules[i].record = None} IN
    /\ \A i, j \in T : rules[i] = rules[j] => i = j
    /\ Cardinality(T) * 2 <= MaxRules

(* The records of a table that is looked up which a call ought to be led   *)
(* by: none unless the variable that the table asks for is set.            *)
Best(t, x) == {k \in Matching(t, x) : \A j \in Matching(t, x) : Rank(j, x) <= Rank(k, x)}
Queried(t) == tables[t] # None /\ tables[t].action = "query"
BestOf(t) ==
    IF Queried(t) /\ tables[t].variable \in DOMAIN data
    THEN Best(t, data[tables[t].variable]) ELSE {}

Leads(t, u) ==
    \E k \in BestOf(t) : /\ records[k].action = "jumps"
                         /\ \E r \in Orders(records[k].choice) : u = r[1]

(* What is stored leads a call along a sequence of tables, none of them    *)
(* twice and half of MaxRules at most, ...                                 *)
IsPath(p, t) ==
    /\ p # <<>> /\ p[1] = t
    /\ \A i \in 1 .. Len(p) - 1 : Leads(p[i], p[i + 1])
    /\ \A i, j \in 1 .. Len(p) : p[i] = p[j] => i = j

(* ... to an answer at the last of them: what this table says itself, or   *)
(* the best record in it; nothing if it is not there, has no such record,  *)
(* or leads on and there were too many, or back.                           *)
AnswersOf(a) ==
    CASE a.action = "block" -> {<<"block">>}
      [] a.action = "route" -> Orders(a.choice)
      [] a.action = "httpr" -> {<<>>, <<"asked">>}
      [] OTHER -> {}

Ends(p, r) ==
    LET t == p[Len(p)] IN
    \/ tables[t] # None /\ r \in AnswersOf(tables[t])
    \/ \E k \in BestOf(t) : r \in AnswersOf(records[k])
    \/ r = <<>> /\ tables[t] = None
    \/ r = <<>> /\ Queried(t) /\ BestOf(t) = {}
    \/ /\ r = <<>>
       /\ \E u \in Table : Leads(t, u) /\ (2 * Len(p) = MaxRules \/ \E i \in DOMAIN p : p[i] = u)

First == IF rules = <<>> THEN table ELSE rules[1].table
Visited == {rules[i].table : i \in DOMAIN rules} \cup {table}

(* If nothing is changed while a call is routed, it gets what is stored:   *)
(* the steps of the lookup find the best record in each table, and jumps   *)
(* are followed, to five tables at most, until they lead back.             *)
AsStored ==
    pc = "done" /\ still =>
       \E p \in BoundedSeq(Visited, MaxRules \div 2) : IsPath(p, First) /\ Ends(p, result)

(* A call gets its answer, even if the operators never stop.               *)
Answered == <>(pc = "done")
=============================================================================
