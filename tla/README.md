# LibreSBC: specifications, model checking and proofs

LibreSBC is a session border controller. This directory holds TLA+ models of the parts of it where
calls, nodes and processes meet in shared state, the TLC configurations that check them, and proofs of
their main properties for every size. Paths below are those of the repository, `callng/` standing for
`src/callng/` and `liberator/` for `src/liberator/`.

## 1. The system

A cluster has several **nodes**. A node runs FreeSWITCH, which runs the Lua scripts of `callng/`: the
script `main.lua` in the session thread of each inbound call, and event scripts in its event thread
(`liberator/fscfg/xml/freeswitch.xml:74-83`). All nodes share one **Redis**. The **liberator**, a Python
process on each node, serves the configuration API, sends configuration changes to FreeSWITCH, keeps the
firewall and saves the call detail records (CDR).

| component | state | operations | meets the others by |
|---|---|---|---|
| concurrent call capacity (`callfunc.lua:39-77`, `event.capacity.lua`, `event.initiation.lua`, `event.startup.lua`) | a Redis set of calls per direction, interconnection and node; `cluster:members` and its copy `CLUSTERMEMBERS` in each node | count a call and let it in, add and remove legs on channel events, clean up at startup | Redis sets written by sessions, event threads and startup scripts of all nodes |
| inbound calls per second (`callfunc.lua:121-159`) | a sorted set of calls, a blocking key | count in a rolling window, block, extend a block | sessions of all nodes, each with its own clock |
| outbound calls per second (`callfunc.lua:89-118`, `main.lua:142-147`) | the last time given | give a call the next time, sleep, reject | sessions of all nodes, the clock of Redis |
| CDR pipeline (`event.cdr.lua`, `liberator/cdr.py`, `liberator/main.py`) | Redis list `cdr:queue:new`, keys `cdr:detail:*`, set `cdr:inprogress`; threads; HTTP endpoints, files | report, pop, mark, save with retries, fall back to a file, clean; stop, crash, restart | a queue that several processes pop |
| call flow (`main.lua`) | the two legs, hangup causes, the list of routes | check, route, fail over from route to route, bridge, release | calls all of the above |
| routing (`callfunc.lua:546-698`) | routing tables and records in Redis | compare, exact and longest-prefix match, jump, choose by load, choose a gateway | reads what the API writes |
| configuration API (`liberator/libreapi.py`) | entities, and `engagement:*` sets of who uses whom | create, update, delete after checks | four worker processes, Redis; publishes changes |
| base manager and event bus (`liberator/basemgr.py`) | subscriptions, one thread per command batch | turn changes into FreeSWITCH commands and firewall sets | Redis pub/sub, ESL sockets |
| firewall sets, security events (`basemgr.py:60-172, 433-483`) | nft sets, Redis sets | render, add, ban | the event bus |
| configuration for FreeSWITCH (`cfgapi.py`), translation, normalization, manipulation, media (`callfunc.lua:165-542`), web interface, deployment | none of their own | render and rewrite | read only |

**What is hard.** Sessions of many nodes act on one Redis without locks. Counts are taken with optimistic
transactions, or checked first and acted on later. Channel events are handled in another thread than the one
that runs the call. Nodes crash with calls up, and copies of the member list grow stale. A record is in
the memory of one process between two stores. Limits depend on clocks. `PROJECT.json` lists the hazards,
each at its line, with the properties that cover it or the reason why none does yet.

**What makes each component correct.**
- *capacity*: never more calls than the class allows; no entry outlives what will remove it; entries go in the end.
- *inbound cps*: no more than max_cps calls let through in a window; a violator stays blocked.
- *outbound cps*: a constant rate, whatever is edited and however long the bucket was idle.
- *CDR*: one owner, stored once, never lost silently, in the end stored and cleaned.
- *call flow*: both legs released on every way out, one outbound leg at a time, routes tried in order, hangup causes that are true.
- *routing*: it ends, prefers comparisons to exact texts and those to prefixes, the longest first, and overlooks nothing that was there all the time.
- *configuration API*: no reference to what has been deleted, whatever workers interleave; a profile knows the addresses of its interconnections.
- *base manager*: FreeSWITCH ends up with the profiles, gateways and lists that are stored, whatever order the commands of several changes take.
- *firewall*: the packet filter ends up with the stored sets and never lets go of a stored address.

## 2. The modules

| module | models | read with |
|---|---|---|
| `Capacity` | tracking of concurrent calls of one inbound and one outbound interconnection on any set of nodes | `callfunc.lua:39-77`, `event.*.lua`, `main.lua`, `libreapi.py:117-161` |
| `CapacityProofs` | theorems about it | |
| `CdrPipeline` | the way of a record from the node to its store, with every fault as a parameter | `event.cdr.lua`, `cdr.py`, `main.py` |
| `CdrDelivery` | what the pipeline promises, record by record: the abstract specification it implements | |
| `CdrProofs` | theorems, the refinement among them | |
| `LeakyBucket` | `average_cps` | `callfunc.lua:83-118`, `main.lua:142-147` |
| `TokenBucket` | `verify_cps` | `callfunc.lua:121-159`, `configuration.lua:47-48` |
| `Sessions` | the calls and the time these two share | |
| `RateProofs` | theorems about both | |
| `ConfigStore`, `ConfigProofs` | the objects of the configuration API and who engages them | `libreapi.py:186-2993`, `main.py:41` |
| `ConfigPush`, `PushProofs` | how a stored change reaches FreeSWITCH | `libreapi.py` (what is published), `basemgr.py:216-257, 326-428`, `cfgapi.py:101-219` |
| `Firewall`, `FirewallProofs` | how the white and black sets reach the packet filter | `libreapi.py:354-377`, `basemgr.py:60-172, 433-483` |
| `Routing`, `RoutingProofs` | the lookup of the routes of a call, while operators edit | `callfunc.lua:546-678`, `libreapi.py:2583-2993` |
| `CallFlow`, `CallProofs` | what `main.lua` does with one call | `main.lua:14-331`, `callfunc.lua:453-542` |
| `MC...` | small instances | |

### Capacity
`inset` and `outset` are the Redis sets as pairs of node and call; `pc` is how far `main.lua` is for each
call. `verify_concurentcalls` is two steps, as in the code: WATCH (`CheckIn`, `CheckOut`) and EXEC (`AdmitIn`,
`RejectIn`, `AllowOut`, `RefuseOut`), which fails if a watched key has changed (`dirty`, `Abort`). The
hooks of FreeSWITCH put events into `events`, which the event thread handles one at a time, a leg's
in order (`OnCreate`, `OnDestroy`). `Crash`, `Join`, `Snapshot` and `Startup` are the life of a node: the
initiation script registers the node and takes a copy of the member list; its own cleanup matches no key
and so does nothing; `event.startup.lua` deletes the node's keys. `UpdateCluster` and `SetMembers` are a PUT
of the member list, and its delivery, which may fail for some nodes or be overtaken.
`End` covers every `goto ENDSESSION` and the error in the `pcall`, after which FreeSWITCH hangs up: with two legs (`Release`) or one.

### CdrPipeline
One action per command that a thread sends to Redis, an endpoint or the file. `master` is the loop of `CDRMaster`
in each liberator process, with the uuid it holds; `handler` is the `CDRHandler` of each record, with the local
variables of `run` that decide what it does (`saved`, `attempt`, `stop`). `Faults` says what may go wrong, so that one module
answers both what holds when everything fails and what is promised when only the foreseen fails. `http` counts what
the endpoints have stored, which the code cannot see. The contents of a record are `whole`: refined, or `{}`.
`main.py:44-48` sets `stop` on the threads there are at that moment (`Stop`); a handler started after is not told.

### LeakyBucket, TokenBucket
Both extend `Sessions`, and their names have a prefix where they would collide, as one module proves theorems about both. Time is a counter. The script of `average_cps` is one step (`Shape`), since Redis runs scripts as one; the class is read
before (`Read`) and may be edited in between (`EditClass`). `verify_cps` is a step for each access to Redis:
`Stamp`, `Peek`, then `Extend`, or `Count` and perhaps `Punish`. `Delay` and `Skew` bound how long a session takes from its
time stamp to its transaction, and how wrong the clock of a node is: without bounds, a time stamp says nothing about time.

### ConfigStore
`store` holds the objects, `eng` the sets `engagement:...` beside them, `farend` the sets `farendsipaddrs:in:...`, and `req` what each
of the four uvicorn workers (`main.py:41`) is doing. A request has up to three steps, as in the code: the validator of its body looks up what the body
names (`Accept...`); the handler checks names and engagements and reads what it needs (`Check...`, `Remove...`, `AskLeaf`); the pipeline, which redis-py
sends as MULTI/EXEC, does it all at once (`Commit...`, `FinishLeaf`). The update of a leaf, an object that names no other, has one step more, since it stores
the new data before it starts the transaction (`PutLeaf`). `Abandon` is a refusal, an exception or the death of a worker. The handlers of the eight
kinds of leaf differ only in which field of a user a rename rewrites and how (`Rewritten`, `Rewritable`). Of an object only what it refers to
is kept (`uses`, and `nav` for the navigator of a table). Requests are about a `scope` of a few objects; other references are left out, as
if what they name were always there. Abstracted: what a handler reads after its checks is read at once; names are not parts of one another; realms, nodes,
the `nameset:*` sets and the published changes (see `ConfigPush`) are left out, and so are `apply_nat_acl` and `apply_proxy_acl`, which are declared to have no protection.
`Careful` excludes that requests contend: a deletion or a rename (but of a record or an inbound interconnection) while any other request is under way, two updates of one table, and two of one inbound interconnection where addresses are kept. Nothing
in the code excludes it; it is what an administrator has to see to.

### CallFlow
`pc` is where `main.lua` is with its call, `attempt` the loop variable, `routes`, `nsh`, `stop`, `hmap` and `libre` the script's variables
`routes`, `nshcause`, `NOFAILOVER_CALL_STATE`, `LIBRE_HCAUSE_HMAP` and `LIBRE_HANGUP_CAUSE` (`HANGUP_CAUSE` is always set with it). `in` and `leg` are
the legs as FreeSWITCH has them, so that both parties can hang up between any two steps; `out` is the attempt whose session `OutLeg` holds. `told` records what each
attempt came to, for the properties. `Start` to `Routed` lead to the list of routes, one disjunct for each `goto ENDSESSION`; `Skip`, `Dial`, the outcomes
`Answered`, `Failed` and `Cancelled`, and `Judge` are an attempt, each ending in `EndFailover` or the `break`; `Bridge` to `EndSession` are the rest. `Raise` is an error that the `pcall` catches, after
which FreeSWITCH hangs up what is left (`Collect`). Choices: what the limiters, the routing and the lookup of an interconnection answer (`Capacity`, `LeakyBucket` and `TokenBucket` say when);
whether `hangup_after_bridge` has hung up the inbound leg; what a manipulation sets `stop` to (`StopStates`) and which codes it gives a cause. `tosets` leaves a list without repetition, so
found routes are injective sequences, and the navigator comes before them. Other variables that a manipulation may set, the route and the causes among them, are left out.

### ConfigPush
A request of the API is one step that stores its data (`ConfigStore` has the steps it takes) and leaves a message in `unsent`, as the handlers publish after their transaction; `Publish` sends it to the
liberators that listen, and `WorkerDies` loses it. `Commands` is the `if`-chain of `BaseEventHandler.run`: for network aliases, SIP profiles, gateways and outbound interconnections. `Handle` makes a message a thread, which
takes the nodes one by one (`Connect`, `Skip`) and sends each the commands in order (`Send`); threads are a bag, as two liberators make the same. The order of the nodes is that of the hash `DISCOVERY`, so any. An exception ends a subscription (`LoseSubscription`), and an
exception in `fs.send` the whole thread (`Crash`, for a node that is being talked to).
Settings are the number of the request that made them, so that old and new can be told apart. A node reads the configuration when it loads and when a command makes it: that is how `xml_curl` is used, and what sofia does with a command is taken to be
this (external): `start` does nothing to a profile that runs, `restart`, `rescan` and `killgw` nothing to one that does not; `start` and `restart` take the stored profile with its gateways, or none if it is not stored; `rescan` adds gateways and keeps those there are;
`distributor_ctl reload` reads the XML that `reloadxml` has fetched. `missed` notes nodes that a fault has kept a command from, since nothing in the code comes back to them; `renamed` notes the names that gateways have given up, since the distributor keeps them (section 5).
`Careful` keeps to requests for which the commands can do what they are for; nothing in the code sees to it. `Harmless`: a request does not give back what a command under way will take away for good; `Published`: an updated gateway is still announced for the profile it was in;
`OneProfile`: a gateway is in one profile, which `libreapi.py:1887-1892` means to check; and an update of an outbound interconnection is one that is announced at all (`Announced`).

### Firewall
`req` is how far a request of `update_fwset` is: `Read`, `Commit` (the pipeline, MULTI/EXEC), `PublishRemoved`, `PublishAdded`. The `SecurityEventHandler` of each liberator makes a message a thread (`Handle`), which publishes a command, in any order with other
threads; `Update` is a change of the configuration, whose thread reads the sets one by one (`ReadSet`) and publishes the whole file (`Publish`). What carries out the commands (`Apply`) is not in the repository, and is taken to do it in order, as nft does: a file
replaces all sets (the template flushes the rule set), adding what is there is no error, and deleting what is not there fails as a whole. `Fail` is an exception of
Redis in a request. The packet filter may be left wrong when a request changes an address for which something is still under way (`Busy`) or a set that a rule file is being made of (`Stale`), and when it fails before its messages: `raced`, a history variable, notes
such sets, and the properties spare them until the next rule file that is made when all else has settled has been carried out.

### Routing
One action for each read of `routing_query`: the table (`ReadTable`), the hash of comparisons (`ReadCompare`), the exact key (`ReadExact`), one prefix after the other (`ReadPrefix`); what is found is followed in the same step (`Follow`, `Jump`), as the script reads nothing in between. `rules` is `routingrules`,
`rest` the loop variable. `Orders` is the choice by load, either way. Requests of operators are one step, with the checks of their validators. Texts are sequences of small numbers, digits those up to 9. A routing service (`httpr`) answers with routes or without. The navigator
is left out: it is a field of the table that is handed on. Left out as well are tables that lack fields which the API requires.

## 3. Runs

All runs pass, and have `CHECK_DEADLOCK FALSE`: calls, records and requests are finite, and when all are over the system stops.

| run | checks | shows |
|---|---|---|
| `cap_static` | `TypeOK`, `InboundWithinLimit` | two nodes that know each other, three calls, two of them allowed in: every interleaving of sessions, events, crashes and restarts |
| `cap_release` | `EntriesAccountedFor`, `CapacityReleased` | a node joins, members are edited and calls arrive before the cleanup: no entry is left that nothing will remove, and the entries of calls that are over go |
| `cdr_kept` | `TypeOK`, `OneOwner`, `DetailKeptUntilStored`, `StoredOnce` | two records, two processes, all faults but those that destroy or forge the copy in Redis |
| `cdr_all` | `Delivers` | all faults: the pipeline implements `CdrDelivery` |
| `cdr_live` | `NoCdrLost`, `EventuallyStored`, `EventuallyCleaned` | two endpoints that may refuse or not acknowledge, nodes without Redis |
| `cfg_refs` | `TypeOK`, `ReferencesExist`, `EngagedByUsers`, `FarendsExact` | two workers, one of 15 scopes that hold an object under two names and its users: whatever is created, updated, renamed, deleted or broken off, what is named exists and knows by whom, and the set of addresses of a profile is that of its interconnections |
| `push` | `TypeOK`, `ProfilesRun`, `GatewaysLoaded`, `NoStrayGateway`, `ListsCurrent` | two requests of any kind, from any stored configuration, two liberators, of which one may lose its subscription, a node that crashes while it is sent commands or answers too late, a worker that dies: when all is sent, a node that has missed nothing runs what is stored (1.4 million states) |
| `firewall` | `TypeOK`, `Enforced`, `NeverLetsGo` | two requests of two workers, two liberators, of which one may lose its subscription, a rule file: unless requests race or fail, the packet filter ends with the stored set and never lets go of a stored address; and the next rule file mends a race |
| `routing` | `TypeOK`, `NoneOverlooked`, `NoRevisit`, `AsStored`, `Answered` | two calls while operators change two tables and their records, or along a chain of six tables: a lookup overlooks no better record, ends, and gets what the stored tables lead to (`AsStored`: a path of tables, each left by its best record) if nothing changes |
| `call_flow` | `TypeOK`, `OneLeg`, `InOrder`, `CauseExplained`, `AllReleased`, `CallerGone` | one call with up to three routes, every refusal, outcome and error, both parties hanging up at any step |
| `leaky_rate` | `LeakyTypeOK`, `Spacing`, `WithinCps` | four calls, classes of 2 and 3 calls a second, unlimited, and 0 |
| `token_rate` | `TokenTypeOK`, `WithinSpan` | four calls, two allowed, window of 5 ticks, delay and skew of a tick |

**Bounds.** Two nodes with two and one calls are enough for the races the capacity code can have: two sessions of one node, two of two nodes,
a session against the event thread, and a node that dies while another counts. Two records and two processes
give two handlers in a process, two masters at one queue, and a process that stops or dies with another alive.
A scope of `ConfigStore` has one kind of object under two names, so that it can be renamed, and a user of it, because each reference is handled alone:
the commands for it read and write no other. The scope with addresses has one inbound interconnection and two profiles between which it moves. `MaxRetry` is 1 or 2 where the code has 5: a first, a repeated and a last attempt. In `CallFlow` a table finds up to two routes, and the navigator makes a third: a first, a middle and a last attempt, with two interconnections, each with its own SIP code that stops, so that a code kept from one attempt meets the list of another. In the rate limiters a second (window) is 6 (5) ticks, so
that the gaps of the classes differ and round up, and `Horizon` (9 or 8 ticks) leaves room for the bucket to expire and
be used again. The proofs have none of these bounds.
`push` has one node, as the commands for one say nothing to another, two profiles and gateways, so that both can be renamed and an interconnection can move, and two requests, since what is hard is a late command of one against those of the next. That nodes follow
each other in a thread shows in `missed` only; and that a gateway has two users, in one interconnection more. With these, or with crashes of nodes nobody talks to (`"crash"` in `Faults`), the properties hold as well, in runs of several millions of states. `firewall` has one set, as the commands for one read and write no other, with two addresses, so that a deletion may fail because of one of them, and two requests, of which one may be late. A single address with three requests and two rule files (1.7 million states), where a mended set is changed again, passes as well.
In `routing` the texts are two digits long: the whole, a proper prefix, and the empty one; the chain of six tables is one longer than `MaxRules` lets a call go.

**Fairness.** `Capacity`: the event thread of a running node handles events, and a script that has started finishes; nothing
makes a call arrive or end, or a node crash or restart. `CdrPipeline`: the threads of a running process go on, since nothing blocks
them for ever (posts have a timeout, BLPOP too), and a command once sent to Redis is carried out. `Restart`, `Stop`, `Crash` and faults
have none. `CallFlow`: the script goes on, a dial ends (`originate_timeout`, `main.lua:196`), and FreeSWITCH ends a bridge that has lost a leg and what an ended script has left; nobody has to hang up, so a call may last for ever. `Routing`: the script goes on, while operators may edit for ever. `ConfigPush` and `Firewall` state no fairness. An endpoint need not ever accept: after `MaxRetry` attempts the record goes to the file.

**Mutants.** Every property of a passing run is broken by a mutant of the code, defined beside the definition it changes.

## 4. Proofs

For all constants that meet the assumptions named in the modules:

| theorem | states |
|---|---|
| `CapacityProofs!TypeCorrect` | `[]TypeOK` |
| `CapacityProofs!EntriesAlwaysAccountedFor` | `[]EntriesAccountedFor` for any nodes, calls and limits |
| `CapacityProofs!InboundLimit` | `[]InboundWithinLimit`, assuming `Settled`: every node serves from the start, no list of members leaves one out, and calls wait for the startup script |
| `CdrProofs!TypeCorrect` | `[]TypeOK` |
| `CdrProofs!SingleOwner` | `[]OneOwner` under every fault |
| `CdrProofs!DetailsKept` | `[]DetailKeptUntilStored` while saving works and nothing expires |
| `CdrProofs!NothingLost` | `[]NoCdrLost`, assuming `Lossless` |
| `CdrProofs!NothingStoredTwice` | `[]StoredOnce`, if no answer of an endpoint is lost (`"ack" \notin Faults`) |
| `CdrProofs!Implementation` | `Spec => Delivers`: the pipeline implements `CdrDelivery` |
| `CallProofs!TypeCorrect` | `[]TypeOK` |
| `CallProofs!OneLegHolds`, `RoutesInOrder`, `CauseIsExplained`, `LegsReleased` | `[]OneLeg`, `[]InOrder`, `[]CauseExplained`, `[]AllReleased` for any routes, codes and settings, assuming `Answers`: each list in `StopStates` has `SUCCESS` |
| `RateProofs!TypeCorrect`, `ConstantRate`, `CpsKept` | `[]LeakyTypeOK`, `[]Spacing`, `[]WithinCps` of `LeakyBucket`, for any calls, classes and edits |
| `RateProofs!WindowTypeCorrect`, `RollingWindow` | `[]TokenTypeOK`, `[]WithinSpan` of `TokenBucket`, for any delay and skew |
| `RoutingProofs!TypeCorrect` | `[]TypeOK` |
| `RoutingProofs!NoTableTwice`, `NoRecordOverlooked` | `[]NoRevisit`, `[]NoneOverlooked` for any tables, records and texts, and any requests of operators |
| `RoutingProofs!AnswerAsStored` | `[]AsStored` for any tables, records and texts |
| `RoutingProofs!ReadsRunOut` | a lookup reads Redis `MaxRules * (L + 4)` times at most, where `L` bounds the texts of a call, and each read brings its answer nearer, whatever operators change |
| `CallProofs!ScriptRunsOut` | the script ends in `3 * MaxRoutes + 8` steps at most, each nearer to it, whoever hangs up |
| `CdrProofs!HandlerRunsOut` | a handler ends in `2 * MaxRetry + 4` steps at most, under every fault, and nothing gives it back a step it has made |
| `CapacityProofs!ReleaseRunsOut` | the events of a call that is over only get fewer, and without one left on a node that is ready no entry of it is left |
| `ConfigProofs!TypeCorrect` | `[]TypeOK`, whatever requests contend |
| `ConfigProofs!UsersEngaged`, `NoDanglingReference` | `[]EngagedByUsers`, `[]ReferencesExist`, assuming `Careful` |
| `ConfigProofs!AddressesKept` | `[]FarendsExact`, assuming `Careful` and `Single`: no scope has two inbound interconnections |
| `PushProofs!TypeCorrect` | `[]TypeOK`, whatever is requested and whatever fails |
| `PushProofs!ProfilesEndUp`, `GatewaysEndUp`, `NoStrayEndsUp`, `ListsEndUp` | `[]ProfilesRun`, `[]GatewaysLoaded`, `[]NoStrayGateway`, `[]ListsCurrent`, assuming `Careful`, under every fault |
| `FirewallProofs!TypeCorrect` | `[]TypeOK`, whatever contends and whatever fails |
| `FirewallProofs!EnforcedAlways`, `KeepsStored` | `[]Enforced` and the action property `NeverLetsGo`, for any workers, liberators, sets and addresses |

*Arguments.* `InboundWithinLimit` is not inductive: a call counts the entries in Redis, not the calls. The strengthening says that
each admitted call has its entry, so that the EXEC of the last to be admitted has counted them all. `NoCdrLost` needs that
a record has one owner, and that a handler past its save has `saved` only if it has stored (`NoMishap`); then only the faults that `Lossless`
excludes can drop it. `Implementation` maps each record to a status; each step moves one record, or loses those of one process.
`CallFlow` needs to know more of the attempts (`Attempts`): those before the present one were skipped or failed, and a leg that is up when an attempt is judged was answered. As an answer stops the failover (`AnswerStops`), `Judge` goes on only with no leg up; so a leg that is up is the last one dialled and `OutLeg` holds it (`OneLeg`), and `Unbridge` or `EndSession` hang it up (`Down`). `Causes` carries what `LIBRE_HANGUP_CAUSE` may be at each step. `Spacing` follows from two facts: no call has a time after the bucket's, and the key lives a gap longer than the time it holds, so that when it is gone
a gap has passed. `WithinSpan`: while a call that was let through is within the span, it is in the bucket of every later
transaction, because its stamp is at most `Delay + Skew` older than that moment and the stamp of the later one at most `Skew` newer than its own.

`StoredOnce` needs that a handler that is about to save has stored nothing yet (`OnceInv`), which a lost answer makes false; the rest follows as a record has one handler ever (`OneOwner`).
`WithinCps` follows from `Spacing` by counting: were they `m + 1` with `m` no less than any class, `m` of the gaps between them would fill a second; so no two are in the same of the `m` parts of it, which are too few.

*Routing.* `rules` alternates between a table that is followed and the record found in it, so with an even `MaxRules` there is room for both whenever a table is read; and `Jump` looks the table up in `rules` before it is read (`RulesInv`). For `NoneOverlooked`,
`LookupInv` says at each step what has been looked at: every record of the table that matches, has been there since the table was read, and comes before what is read next, has been seen by now. Records that come, go or move meanwhile leave `lasting`, which only shrinks.
`AsStored` is not recursive: it asks for a path of tables from the first one, each leading to the next by its best record, whose last one has the answer. `PathInv` says that while nothing has changed the tables in `rules` are such a path; that the record found is the best one of all, not only of those looked at, is what `LookupInv` says when the last read is done (`FoundIsBest`).

*Bounded steps.* A liveness property under weak fairness has two halves: that a number which cannot grow falls with every step of the component, and that such a step is taken while the number is not zero. The first is proved, by invariants, for every value of the constants.
`ReadsLeft` counts the rules that `MaxRules` leaves and the prefixes that are left of the present text: a jump begins a new text, but takes a rule. `StepsLeft` counts the routes that are left, three steps for each. `HandlerLeft` counts the attempts that `MaxRetry` leaves; other records, masters and faults never raise it. `Due(c)`, the events of a call, is at most four, and only shrinks once the call is over (`DueShrinks`).
The second half speaks of ENABLED and of fairness and stays with TLC.

*ConfigStore.* `KindInv` says which kinds an object may name, and makes each request a case of its own. Under `Careful` no request meets one that contends (`Alone`); so what a request has read is still so when it commits (`PendInv`): the objects it names exist, nobody has engaged what it deletes, and the users it rewrites are
those engaged now. From that a commit keeps `EngagedByUsers` and `ReferencesExist`, which need each other: a deletion is refused because users are engaged, and a rename rewrites those who are.
For `FarendsExact` an interconnection must be engaged by no profile but the one it names (`EngagesIn`), as the rename of a profile rewrites whoever is engaged without a look at what he names; it must name one only (`OneProfile`), as the rename drops the others; and what its own request has read of it must still be so (`InPend`).

*ConfigPush.* None of the four properties is inductive: they speak of moments when nothing is under way. `DueInv` says of every other moment that whatever is not on a node as it is stored is owed: `Owed(n)` are the lists of commands of messages not yet published, of those in the inbox of a liberator that keeps its subscription, and of threads that have `n` still to do or are sending to it;
and for each difference between node and store `NodeDue` names a command in one of them that removes it (a `start` for a profile that does not run, a `killgw` for a gateway with old settings, which is rescanned after, and so on). Three kinds of steps can break it. A request makes a difference, and its message owes what removes it. A command that is sent is no longer owed, and has done what it was owed for, at once or, as `killgw`, by leaving a difference that a later command of the same list removes.
And a command that is late makes a difference of its own (`stop`, `killgw`): `CareInv` excludes it, that is, what `Careful` demands of a request still holds when everything else has moved on. A fault either leaves what is owed or puts the node among `missed`. With nothing under way nothing is owed (`QuietOwes`), so nothing differs.

*Firewall.* `Enforced` speaks of moments when nothing is under way, `NeverLetsGo` of every step; both follow from `FilterInv`, which says of a set that has not raced what the packet filter has while changes are on their way. An address is as stored, or its change is still to come in a way that
cannot fail: in a request past its transaction, a message or thread of some liberator, or the channel of commands. And once the filter is right about an address, nothing later in the channel makes it wrong: commands are carried out in order, a rule file later in it was made of sets that have not changed since (a change meanwhile would have been `Stale`), and
no two requests have the same address under way (`Busy`). The delicate part is `Apply`: deleting fails as a whole when one address is not there. The addresses of a message that removes are gone from the filter all together or not at all (`Together`), so a deletion that fails has nothing left to do. A set that raced is not spoken of until all has settled (`mending`); from then
on the rule file under way stands for what the filter has, and the same invariant holds of it, so that it holds of the filter when the file is carried out.

*What the proofs have corrected.* `TypeOK` of `Routing` bounded `rest` by the text of the call and not by what had been read of it. `StoreAfter` of `ConfigStore` had cases that overlapped. `ListsCurrent` said first that a list differs only while it has a name of a gateway that does not exist: with three gateways the name can be taken by another one, and the list is wrong for good; hence `renamed`. `Firewall` did not say that the names in `Sets` differ, which a rule file needs.

*Only model-checked:* liveness (`CapacityReleased`, `EventuallyStored`, `EventuallyCleaned`, `CallerGone`, `Answered`), as fairness and ENABLED are beyond the prover; of four of them the bounded number of steps is proved (see above).
Every other property of the runs is proved. `Single` cannot be dropped: with two profiles and two inbound interconnections `FarendsExact` does not hold, since the code is wrong there (section 5).

## 5. Divergences met while modelling

Seen in the models and the code. None of them breaks a run: the properties are stated so that they hold of the code, and say why.
- `documents/Capacity.md:3` says that the class limits concurrent calls. For outbound legs `main.lua:138` counts, and `event.capacity.lua:29` adds the leg when CHANNEL_CREATE is handled: two sessions that count in between both dial, and more than `MaxOut` legs are up.
- `cdr.py:229` calls its loop a guarantee that data are stored. `cdrsaved` is True before the first attempt (`223`), so that a handler that is told to stop before it makes one stores nothing.
- `libreapi.py:2294` guarantees that addresses do not overlap. `2370` compares the new ones with the addresses of the profile that the interconnection leaves: it may take the address of another one, after which the deletion of either takes it from the set, and it cannot keep its own. With a scope of two profiles and two inbound interconnections `FarendsExact` fails with a single worker.
- `libreapi.py:2079` has the message of an updated outbound interconnection sent only if its gateways or profile change; `2080` sends it if the gateways are the same or the profile changes. An interconnection that gets other gateways is not announced, and no node loads them. With `Careful` FALSE in `push`, `GatewaysLoaded` fails after one request.
- `basemgr.py:372` does not reload the distributor for a gateway: after a rename the lists keep the old name, which no profile has, or which another gateway has taken since: calls then go to that one. Hence the exception in `ListsCurrent`.
- `libreapi.py:1703` looks for a user of an updated gateway after the transaction: if the interconnection has moved to another profile meanwhile, that one is told, and the old one keeps the gateway under its old name (`Published`).
- `basemgr.py:390` removes every gateway from the profile that an interconnection leaves, also those that another one in that profile has.
- `basemgr.py:417`: each message gets a thread, so a deletion followed by a new creation of the same profile or gateway may end with it stopped (`Harmless`). Likewise `basemgr.py:149` for the sets of the firewall (`Busy`); and `nftupdate` publishes what it read some time before (`Stale`), so that an address that is added meanwhile is lost until the next rule file.
- `basemgr.py:254`: an exception while commands are sent ends the thread, and the nodes after that one are not told.
- `basemgr.py:427` compares an object with the names of local variables (`if pubsub in locals()`), so the subscription is never closed.
- `nftupdate` starts with a flush, and the sets of temporary bans come back empty.
- `documents/Routing.md:55` says that load 100 sends all calls to the primary route: `pchoice` (`callfunc.lua:546-550`) leaves 1 % to the secondary, and load 1 nothing to the primary.
- A record that is moved from a prefix to a longer one while a call is looked up can be missed under both: the longer is read first. `NoneOverlooked` is about records that were there all the time.
- `callfunc.lua:676` ends a lookup at ten rules, which is five tables that each found a record: a longer chain of jumps gives no route. A variable that a call does not have makes `651` raise an error.
- `callfunc.lua:63` does not retry its transaction: a call below capacity is dropped when another changes a watched key (`Abort`), where `main.lua:67` speaks of max capacity only.
- A crash of the liberator between BLPOP and the save loses the record, whatever `CDRTTL` is (`configuration.lua:44` recommends a long one against loss): nothing reads `cdr:inprogress` again. `NoCdrLost` fails with `Faults = {"crash"}`.
- `main.lua:146` sets `MAX_QUEUE` on any attempt, where `132` and `139` set their causes on the last one: the call keeps it when a later route answers. Hence `CauseExplained` does not speak of it.
- `main.lua:219` leaves `nshcause` as it was when an attempt has no SIP code, so `237` may stop the failover, and `286` choose the cause, by a code of an earlier attempt.
- A manipulation that sets `LIBRE_NOFAILOVER_CALL_STATE` to a list without `SUCCESS` (`main.lua:228`) makes the script go on from an answered leg to the next route and lose it. Hence `Answers`.
- `callfunc.lua:491, 537` call `DxLeg.hangup()` with a dot: the method gets no object and raises, so a `hangup` action ends the call by an exception (`Raise`) without the cause it has set.
- The navigator is put before the routes (`main.lua:124`) and may be one of them: it is tried twice.
- `cdr.py:389` swallows the failure of `filesave`, and `rclean` then deletes the only copy of the record.
- `libreapi.py`: a deletion and a request that names the object pass each other's checks and leave a reference to nothing; the HSET of a rename (`732`) turns a user that was deleted into a hash of one field, which `update` and `delete` then cannot read; two updates of a table that names an interconnection as route and as navigator remove an engagement that is needed (`2629`). Hence `Careful`.
- A rename that dies before its transaction leaves the object under both names.
- `libreapi.py:2064` looks for compare records in engagements that start with `:compare:`, and none does: after a rename such a record names an interconnection that is gone. `2058` and `2072` replace the old name within other names too.
- `libreapi.py:2538`: the navigator of a table that does not query is not looked up, but engaged; RENAME then overwrites the engagements that such a reference made in advance.
- `libreapi.py:1887` looks for the engagements of a gateway under the text of a dict: the check that gateways are shared within one profile never fires.
- `event.initiation.lua:14` cleans keys `realtime:capacity:*`, which nothing writes; `Snapshot` has no cleanup therefore. `mergetable` (`utilities.lua:51`) would besides lose keys of a scan of several pages.
- `event.startup.lua:27-39` runs in the event thread when calls may already be admitted, and deletes their entries too; `InboundWithinLimit` needs `QuietStartup`. The form in which it calls `scan` is taken to work; it depends on the Lua client.
- A node that joins later is not counted by those before it: `CLUSTERMEMBERS` is read at start (`event.initiation.lua:36`).
- `event.cdr.lua:111` sends RPUSH before SETEX in a pipeline, not a transaction: a master in between finds no details and logs `detail_expired`.
- `average_cps` keeps the time of a call that `main.lua:145` rejects: under lasting overload rejected calls keep the queue full.
- `verify_cps` takes its time stamp before two round trips, so the window of `callfunc.lua:142` holds only less `Delay + 2 * Skew`; and a call counted as one too many sets a block back from three times `VIOLATED_BLOCK_TIME` to once (`callfunc.lua:153`).

## 6. Not modelled yet, and the plan

| next | module | what | properties |
|---|---|---|---|
| 1 | `Capacity` | the `CHANNEL_UUID` branch of `event.capacity.lua`, and several interconnections | entries follow the leg |

Composition: `CallFlow` takes its list of routes from `Routing`, and its refusals from `Capacity`, `LeakyBucket` and `TokenBucket`: each is modelled by the choices the others leave it. `ConfigPush` and `Routing` take the requests of `ConfigStore` as one step each.

The `CHANNEL_UUID` branch (`event.capacity.lua:40-56`) moves the entry of a leg to a new uuid; it reads `X-LIBRE-INTCONNAME` for legs of both directions, which an inbound leg has from `main.lua:60` on. Of the event bus the access lists (`reloadacl`), `CLUSTERMEMBERS`
(see `Capacity`), the other variables of a cluster and those sent to a single node after it has fetched its profiles (`cfgapi.py:209`) are left out; of `cfgapi.py` the directory, access lists and switch settings, which are read in the same way. `hashchoicegw` picks one of the gateways that are up, from what FreeSWITCH says at that moment. Bans of
single addresses (`basemgr.py:460-467`) come from Kamailio, whose scripts are outside these models.

Left out for good: rewriting of numbers, headers and SDP (`callfunc.lua:165-542`), which shares no state; XML rendering (`cfgapi.py`),
the web interface and deployment, which have no control of their own; `event.unauth.lua` and `redirection.lua`, which only log; and in the models above
the wording of logs, the contents of records, and what FreeSWITCH does inside a bridge. `fsctl recover` of `event.startup.lua:14-17` is not modelled.
In `LeakyBucket` a session sleeps at least until its time, and may sleep longer: `WithinCps` is about the times given.
In `TokenBucket` the class is constant.
