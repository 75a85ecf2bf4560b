------------------------------ MODULE MCRouting ------------------------------
(* Small instances of Routing for TLC: calls to 12, with operators at work *)
(* on two tables, or along a chain of six.                                 *)
EXTENDS Routing

CONSTANTS t1, t2, t3, t4, t5, t6

MCTable == {t1, t2, t3, t4, t5, t6}

Dst == <<10>>     \* the variable dstnumber
Cid == <<11>>     \* the variable cidnumber
Unset == <<12>>   \* a variable that this call has not

ToTwelve == [start |-> t1, data |-> (Dst :> <<1, 2>>) @@ (Cid :> <<9>>)]
AlongChain == [start |-> t3, data |-> (Dst :> <<1, 2>>) @@ (Cid :> <<>>)]
MCCalls == {ToTwelve, AlongChain}

Choice(a, b, l) == [first |-> a, second |-> b, load |-> l]
Act(x, c) == [action |-> x, choice |-> c]
Schema(x, v, c) == [action |-> x, variable |-> v, choice |-> c]

Query == Schema("query", Dst, None)
Direct(l) == Schema("route", None, Choice("o1", "o2", l))
Blind == Schema("query", Unset, None)
Closed == Schema("block", None, None)
Asking == Schema("httpr", Dst, None)
Blocked == Act("block", None)
Routed == Act("route", Choice("o1", "o2", 0))
JumpTo(t, u) == Act("jumps", Choice(t, u, 50))

MCSchemas == (t1 :> {Query, Closed}) @@ (t2 :> {Blind, Asking})

MCActions ==
    (Key(t1, "gt", Cid) :> {Routed})
    @@ (Key(t1, "em", <<1, 2>>) :> {Blocked})
    @@ (Key(t1, "lpm", <<1, 2>>) :> {Routed, JumpTo(t2, t3)})
    @@ (Key(t1, "lpm", <<>>) :> {JumpTo(t2, t2)})
    @@ (Key(t2, "lpm", <<>>) :> {Routed, JumpTo(t1, t1)})

(* Each table of the chain jumps to the next; the last one has a route.    *)
NextTable(t) == CASE t = t3 -> t4 [] t = t4 -> t5 [] t = t5 -> t6 [] t = t6 -> t2
              [] t = t2 -> t1
Chain == [tables |-> [t \in MCTable |-> IF t = t1 THEN Direct(100) ELSE Query],
          records |-> [k \in {Key(t, "lpm", <<>>) : t \in MCTable \ {t1}} |->
                          JumpTo(NextTable(k.table), NextTable(k.table))]]
Small == [tables |-> [t \in MCTable |-> IF t \in {t1, t2} THEN Query ELSE None],
          records |-> [k \in {Key(t1, "lpm", <<1>>), Key(t2, "lpm", <<>>)} |->
                          IF k.table = t1 THEN JumpTo(t2, t2) ELSE Routed]]
MCStores == {Small, Chain}
=============================================================================
