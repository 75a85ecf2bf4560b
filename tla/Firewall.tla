------------------------------- MODULE Firewall -------------------------------
(***************************************************************************)
(* How the white and black sets of the firewall get from the API to the    *)
(* packet filter: update_fwset (liberator/libreapi.py) stores a set and    *)
(* publishes what has gone and what has come; the SecurityEventHandler of  *)
(* each liberator (liberator/basemgr.py) makes each message a thread that  *)
(* publishes a command (nftsets); and whenever the configuration changes,  *)
(* a thread reads all sets and publishes the whole rule file (nftupdate).  *)
(* The program that carries out what is published is not in the            *)
(* repository: it is modelled as nft does it, in the order of publication. *)
(*                                                                         *)
(*   store    the addresses in each set in Redis                           *)
(*   req      the request that each worker of the API is at                *)
(*   inbox    the messages each liberator has received                     *)
(*   threads  the threads of the liberators that have not yet published    *)
(*   chan     what has been published for the packet filter                *)
(*   nft      the addresses in each set of the packet filter               *)
(*   asked    how many requests have been made                             *)
(*   updates  how often a rule file has been asked for                     *)
(*   raced    history: "yes" for a set of which a change has met something *)
(*            older that was still under way, or has not been announced;   *)
(*            "mending" once a rule file has been made of it since, with   *)
(*            nothing else under way; "no" when that file has been carried *)
(*            out, and before                                              *)
(***************************************************************************)
EXTENDS Integers, Sequences, FiniteSets, Bags

CONSTANTS Worker, Liberator, Addr,
          Sets,         \* the sets, in the order nftupdate reads them
          Unreliable,   \* liberators that may lose their subscription
          MaxRequests,  \* bound on the requests
          MaxUpdates,   \* bound on the rule files
          None          \* nothing

Name == {Sets[i] : i \in DOMAIN Sets}
Change == [op : {"add", "delete"}, set : Name, addrs : (SUBSET Addr) \ {{}}]
RuleFile == [op : {"file"}, got : Seq(SUBSET Addr)]
Request == [pc : {"commit", "rem", "add"}, set : Name,
            rem : SUBSET Addr, add : SUBSET Addr]

ASSUME FirewallAssumption ==
    /\ IsFiniteSet(Addr)
    /\ Sets \in Seq(Name) /\ \A i, j \in DOMAIN Sets : Sets[i] = Sets[j] => i = j
    /\ None \notin Request
    /\ Unreliable \subseteq Liberator /\ Unreliable # Liberator
    /\ MaxRequests \in Nat /\ MaxUpdates \in Nat

VARIABLES store, req, inbox, threads, chan, nft, asked, updates, raced

vars == <<store, req, inbox, threads, chan, nft, asked, updates, raced>>

Cmd(op, s, A) == [op |-> op, set |-> s, addrs |-> A]
File(got) == [op |-> "file", got |-> got]

-----------------------------------------------------------------------------
(* What is on its way to the packet filter.                                *)

Reading == {t \in BagToSet(threads) : t.op = "file"}
Told == (UNION {{inbox[l][i] : i \in DOMAIN inbox[l]} : l \in Liberator})
        \cup {t \in BagToSet(threads) : t.op # "file"}
        \cup {chan[i] : i \in {j \in DOMAIN chan : chan[j].op # "file"}}

Busy(s) == (UNION {m.addrs : m \in {x \in Told : x.set = s}})
           \cup UNION {req[w].rem \cup req[w].add :
                          w \in {x \in Worker : req[x] # None /\ req[x].set = s}}

(* A rule file is being made of what the set has been.                     *)
Stale(s) == \E t \in Reading : \E i \in DOMAIN t.got : Sets[i] = s

Races(s, yes) == raced' = IF yes THEN [raced EXCEPT ![s] = "yes"] ELSE raced

(* Nothing about the set is under way.                                     *)
Settled(s) == /\ \A w \in Worker : req[w] # None => req[w].set # s
              /\ \A m \in Told : m.set # s
              /\ \A i \in DOMAIN chan : chan[i].op # "file"
              /\ ~Stale(s)

-----------------------------------------------------------------------------
(* update_fwset.  A request races that changes an address for which        *)
(* something is still under way, or a set that a rule file is made of.     *)

Ask(w, s, rem, add) ==
    /\ req[w] = None
    /\ asked < MaxRequests
    /\ asked' = asked + 1
    /\ Races(s, (rem \cup add) \cap Busy(s) # {})
    /\ req' = [req EXCEPT ![w] = [pc |-> "commit", set |-> s, rem |-> rem, add |-> add]]
    /\ UNCHANGED <<store, inbox, threads, chan, nft, updates>>

(* Mutant: all that is there goes, and all that is wanted comes.           *)
ReadAll(w) == \E s \in Name, A \in SUBSET Addr : Ask(w, s, store[s], A)

(* smembers, and what has to go and to come.                               *)
Read(w) == \E s \in Name, A \in SUBSET Addr : Ask(w, s, store[s] \ A, A \ store[s])

At(w, pc) == req[w] # None /\ req[w].pc = pc

(* Mutant: what has to go is only announced.                               *)
CommitNoRemove(w) ==
    /\ At(w, "commit")
    /\ Races(req[w].set, Stale(req[w].set))
    /\ store' = [store EXCEPT ![req[w].set] = @ \cup req[w].add]
    /\ req' = [req EXCEPT ![w].pc = "rem"]
    /\ UNCHANGED <<inbox, threads, chan, nft, asked, updates>>

(* The pipeline, a transaction.                                            *)
Commit(w) ==
    /\ At(w, "commit")
    /\ Races(req[w].set, Stale(req[w].set))
    /\ store' = [store EXCEPT ![req[w].set] = (@ \ req[w].rem) \cup req[w].add]
    /\ req' = [req EXCEPT ![w].pc = "rem"]
    /\ UNCHANGED <<inbox, threads, chan, nft, asked, updates>>

(* Mutant: a message that names no address is sent as well.                *)
BroadcastEmpty(m) == inbox' = [l \in Liberator |-> Append(inbox[l], m)]

(* To each liberator, unless no address is named.                          *)
Broadcast(m) ==
    inbox' = IF m.addrs = {} THEN inbox ELSE [l \in Liberator |-> Append(inbox[l], m)]

PublishRemoved(w) ==
    /\ At(w, "rem")
    /\ Broadcast(Cmd("delete", req[w].set, req[w].rem))
    /\ req' = [req EXCEPT ![w].pc = "add"]
    /\ UNCHANGED <<store, threads, chan, nft, asked, updates, raced>>

PublishAdded(w) ==
    /\ At(w, "add")
    /\ Broadcast(Cmd("add", req[w].set, req[w].add))
    /\ req' = [req EXCEPT ![w] = None]
    /\ UNCHANGED <<store, threads, chan, nft, asked, updates, raced>>

(* Redis fails the request: what has been stored is not announced.         *)
Fail(w) ==
    /\ req[w] # None
    /\ Races(req[w].set, req[w].pc # "commit")
    /\ req' = [req EXCEPT ![w] = None]
    /\ UNCHANGED <<store, inbox, threads, chan, nft, asked, updates>>

-----------------------------------------------------------------------------
(* The liberators.                                                         *)

Handle(l) ==
    /\ inbox[l] # <<>>
    /\ inbox' = [inbox EXCEPT ![l] = Tail(@)]
    /\ threads' = threads (+) SetToBag({Head(inbox[l])})
    /\ UNCHANGED <<store, req, chan, nft, asked, updates, raced>>

(* An exception in the handler: it subscribes anew, without what it had.   *)
Resubscribe(l) ==
    /\ l \in Unreliable
    /\ inbox[l] # <<>>
    /\ inbox' = [inbox EXCEPT ![l] = <<>>]
    /\ UNCHANGED <<store, req, threads, chan, nft, asked, updates, raced>>

(* The configuration changes: a rule file is to be made.                   *)
Update ==
    /\ updates < MaxUpdates
    /\ updates' = updates + 1
    /\ threads' = threads (+) SetToBag({File(<<>>)})
    /\ UNCHANGED <<store, req, inbox, chan, nft, asked, raced>>

ReadSet(t) ==
    /\ t.op = "file" /\ Len(t.got) < Len(Sets)
    /\ threads' = (threads (-) SetToBag({t}))
                  (+) SetToBag({File(Append(t.got, store[Sets[Len(t.got) + 1]]))})
    /\ LET s == Sets[Len(t.got) + 1] IN
       raced' = IF raced[s] = "yes" /\ Settled(s)
                THEN [raced EXCEPT ![s] = "mending"] ELSE raced
    /\ UNCHANGED <<store, req, inbox, chan, nft, asked, updates>>

Publish(t) ==
    /\ t.op = "file" => Len(t.got) = Len(Sets)
    /\ threads' = threads (-) SetToBag({t})
    /\ chan' = Append(chan, t)
    /\ UNCHANGED <<store, req, inbox, nft, asked, updates, raced>>

-----------------------------------------------------------------------------
(* The packet filter.  A rule file flushes all; a deletion of which one    *)
(* address is not there fails as a whole.                                  *)

Content(m, s) == m.got[CHOOSE i \in DOMAIN Sets : Sets[i] = s]

Applied(m) ==
    CASE m.op = "file" -> [s \in Name |-> Content(m, s)]
      [] m.op = "add" -> [nft EXCEPT ![m.set] = @ \cup m.addrs]
      [] m.op = "delete" ->
           IF m.addrs \subseteq nft[m.set] THEN [nft EXCEPT ![m.set] = @ \ m.addrs] ELSE nft

Apply ==
    /\ chan # <<>>
    /\ chan' = Tail(chan)
    /\ nft' = Applied(Head(chan))
    /\ raced' = [s \in Name |-> IF Head(chan).op = "file" /\ raced[s] = "mending"
                                THEN "no" ELSE raced[s]]
    /\ UNCHANGED <<store, req, inbox, threads, asked, updates>>

-----------------------------------------------------------------------------
Init ==
    /\ store \in [Name -> SUBSET Addr]
    /\ req = [w \in Worker |-> None]
    /\ inbox = [l \in Liberator |-> <<>>]
    /\ threads = EmptyBag
    /\ chan = <<>>
    /\ nft = store
    /\ asked = 0 /\ updates = 0
    /\ raced = [s \in Name |-> "no"]

Next ==
    \/ \E w \in Worker : Read(w) \/ Commit(w) \/ PublishRemoved(w) \/ PublishAdded(w) \/ Fail(w)
    \/ \E l \in Liberator : Handle(l) \/ Resubscribe(l)
    \/ Update
    \/ \E t \in BagToSet(threads) : ReadSet(t) \/ Publish(t)
    \/ Apply

Spec == Init /\ [][Next]_vars

-----------------------------------------------------------------------------
(* Properties.                                                             *)

TypeOK ==
    /\ store \in [Name -> SUBSET Addr]
    /\ nft \in [Name -> SUBSET Addr]
    /\ req \in [Worker -> Request \cup {None}]
    /\ \A w \in Worker : req[w] # None => req[w].rem \cap req[w].add = {}
    /\ inbox \in [Liberator -> Seq(Change)]
    /\ IsABag(threads) /\ BagToSet(threads) \subseteq Change \cup RuleFile
    /\ \A t \in Reading : Len(t.got) <= Len(Sets)
    /\ chan \in Seq(Change \cup {f \in RuleFile : Len(f.got) = Len(Sets)})
    /\ asked \in 0 .. MaxRequests /\ updates \in 0 .. MaxUpdates
    /\ raced \in [Name -> {"no", "yes", "mending"}]

Quiet == /\ \A w \in Worker : req[w] = None
         /\ \A l \in Liberator : inbox[l] = <<>>
         /\ threads = EmptyBag /\ chan = <<>>

(* When nothing is under way, the packet filter has the sets that are      *)
(* stored, though every liberator publishes each change, in threads that   *)
(* overtake one another and the rule files; but for sets that have raced,  *)
(* and these the next rule file mends.                                     *)
Enforced == Quiet => \A s \in Name : raced[s] = "no" => nft[s] = store[s]

(* Of a set that has not raced, or has been mended, the packet filter lets *)
(* go of no address that is stored, not even for a moment: no late         *)
(* deletion and no stale rule file takes it away.                          *)
NeverLetsGo ==
    [][\A s \in Name : raced[s] = "no" => (nft[s] \ nft'[s]) \cap store[s] = {}]_vars
=============================================================================
