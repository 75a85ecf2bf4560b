---------------------------- MODULE MCConfigStore ----------------------------
(* A small instance of ConfigStore: scopes of a few objects each.          *)
EXTENDS ConfigStore, TLC

CONSTANTS w1, w2, a1, a2

Two == {w1, w2}

O(k, n) == [kind |-> k, name |-> n]
Both(k) == {O(k, 1), O(k, 2)}

(* A leaf under two names, and who uses it.                                *)
LeafScopes ==
    {Both(k) \cup {O("sipprofile", 1)} : k \in {"netalias", "acl"}}
    \cup {Both("preanswer") \cup {O("in", 1)}}
    \cup {Both(k) \cup {O("out", 1)} :
             k \in {"capacity", "translation", "manipulation", "gateway"}}
    \cup {Both("media") \cup {O("out", 1), O("in", 1)}}

(* Profiles, interconnections, tables and records.                         *)
UserScopes ==
    {Both("sipprofile") \cup {O("acl", 1), O("out", 1)},
     Both("out") \cup {O("table", 1)}, Both("out") \cup {O("record", 1)},
     Both("out") \cup {O("compare", 1)},
     Both("table") \cup {O("in", 1)},
     Both("table") \cup {O("record", 1)},
     Both("sipprofile") \cup {O("in", 1)}}

MCScopes == LeafScopes \cup UserScopes
MCTableOf == [r \in {o \in UNION MCScopes : o.kind \in Records} |-> O("table", 1)]

Addrs == {a1, a2}
Same == {<<a, a>> : a \in Addrs}

Symmetry == Permutations(Two)
=============================================================================
