---------------------------- MODULE CdrPipeline ----------------------------
(***************************************************************************)
(* The way of a call detail record: reported by a node (event.cdr.lua)     *)
(* into Redis, taken from there by the CDRMaster thread of a liberator     *)
(* process, and saved by a CDRHandler thread of that process (cdr.py).     *)
(*                                                                         *)
(*   reported    how far the node is with reporting each record            *)
(*   queue       the Redis list 'cdr:queue:new'                            *)
(*   detail      the records whose key 'cdr:detail:<uuid>' exists          *)
(*   inprogress  the members of the Redis set 'cdr:inprogress'             *)
(*   master      the CDRMaster of each process, with the uuid it holds     *)
(*   handler     the CDRHandler of each record                             *)
(*   http        how often the HTTP endpoints have stored each record      *)
(*   file        the records written to the local CDR file                 *)
(*                                                                         *)
(* What may go wrong is a parameter, the set Faults:                       *)
(*   "split"     other clients' commands run between the two of the        *)
(*               pipeline with which a node reports a record               *)
(*   "nordb"     a node finds Redis unreachable when it reports            *)
(*   "report"    the connection of a node breaks while it reports          *)
(*   "expiry"    the details of a record reach their time to live          *)
(*   "redis"     a Redis command of a CDRMaster fails                      *)
(*   "http"      an endpoint refuses a record or cannot be reached         *)
(*   "ack"       an endpoint stores a record, its answer is not a 200      *)
(*   "refine"    the record cannot be refined                              *)
(*   "disk"      the CDR file cannot be written                            *)
(*   "clean"     the Redis transaction that cleans up fails                *)
(*   "stop"      a liberator process is told to stop                       *)
(*   "crash"     a liberator process dies                                  *)
(***************************************************************************)
EXTENDS Naturals, Sequences

CONSTANTS Cdr,         \* the records, one per leg, named by the leg's uuid
          Liberator,   \* the liberator processes that share the Redis
          Endpoints,   \* the number of HTTPCDR_ENDPOINTS
          DiskCdr,     \* DISKCDR_ENABLE
          MaxRetry,    \* MAXRETRY of CDRHandler.run
          Faults       \* what may go wrong

None == "none"

FaultKind == {"split", "nordb", "report", "expiry", "redis", "http", "ack",
              "refine", "disk", "clean", "stop", "crash"}

ASSUME CdrAssumption ==
    /\ Endpoints \in Nat
    /\ DiskCdr \in BOOLEAN
    /\ MaxRetry \in Nat \ {0}
    /\ Faults \subseteq FaultKind
    /\ None \notin Cdr

VARIABLES reported, queue, detail, inprogress, master, handler, http, file

rdb == <<queue, detail, inprogress>>
sinks == <<http, file>>
vars == <<reported, queue, detail, inprogress, master, handler, http, file>>

ReportState == {"none", "pushed", "done", "local", "broken", "failed"}
Holding == {"popped", "marked", "missing"}
HandlerState == {"none", "refine", "save", "disk", "clean", "end", "dead"}

MasterType == [pc : {"loop", "blpop", "down"}, uuid : {None}, stop : BOOLEAN]
              \cup [pc : Holding, uuid : Cdr, stop : BOOLEAN]
HandlerType == [pc : HandlerState, lib : Liberator \cup {None}, stop : BOOLEAN,
                saved : BOOLEAN, attempt : 0..MaxRetry, whole : BOOLEAN]

TypeOK ==
    /\ reported \in [Cdr -> ReportState]
    /\ queue \in Seq(Cdr)
    /\ detail \in SUBSET Cdr
    /\ inprogress \in SUBSET Cdr
    /\ master \in [Liberator -> MasterType]
    /\ handler \in [Cdr -> HandlerType]
    /\ http \in [Cdr -> Nat]
    /\ file \in SUBSET Cdr

Idle == [pc |-> "loop", uuid |-> None, stop |-> FALSE]
Fresh(l) == [pc |-> "refine", lib |-> l, stop |-> FALSE,
             saved |-> TRUE, attempt |-> 0, whole |-> TRUE]

Init ==
    /\ reported = [u \in Cdr |-> "none"]
    /\ queue = <<>>
    /\ detail = {}
    /\ inprogress = {}
    /\ master = [l \in Liberator |-> Idle]
    /\ handler = [u \in Cdr |-> [Fresh(None) EXCEPT !.pc = "none"]]
    /\ http = [u \in Cdr |-> 0]
    /\ file = {}

-----------------------------------------------------------------------------
(* event.cdr.lua, on CHANNEL_HANGUP_COMPLETE: a pipeline of RPUSH of the   *)
(* uuid and SETEX of the details ...                                       *)
Report(u) ==
    /\ reported[u] = "none"
    /\ reported' = [reported EXCEPT ![u] = "done"]
    /\ queue' = Append(queue, u)
    /\ detail' = detail \cup {u}
    /\ UNCHANGED <<inprogress, master, handler, sinks>>

(* ... which Redis does not run as one ...                                 *)
ReportUuid(u) ==
    /\ "split" \in Faults
    /\ reported[u] = "none"
    /\ reported' = [reported EXCEPT ![u] = "pushed"]
    /\ queue' = Append(queue, u)
    /\ UNCHANGED <<detail, inprogress, master, handler, sinks>>

ReportDetail(u) ==
    /\ reported[u] = "pushed"
    /\ reported' = [reported EXCEPT ![u] = "done"]
    /\ detail' = detail \cup {u}
    /\ UNCHANGED <<queue, inprogress, master, handler, sinks>>

(* ... or a line in the node's own raw CDR file if it has no Redis.        *)
ReportLocal(u) ==
    /\ "nordb" \in Faults
    /\ reported[u] = "none"
    /\ reported' = [reported EXCEPT ![u] = "local"]
    /\ UNCHANGED <<rdb, master, handler, sinks>>

(* If the connection breaks, the script dies in its pcall: none or only    *)
(* the first of the two commands has reached Redis.                        *)
ReportFails(u) ==
    /\ "report" \in Faults
    /\ reported[u] = "none"
    /\ \/ reported' = [reported EXCEPT ![u] = "failed"] /\ queue' = queue
       \/ reported' = [reported EXCEPT ![u] = "broken"] /\ queue' = Append(queue, u)
    /\ UNCHANGED <<detail, inprogress, master, handler, sinks>>

(* CDRTTL seconds after the SETEX.                                         *)
Expire(u) ==
    /\ "expiry" \in Faults
    /\ u \in detail
    /\ detail' = detail \ {u}
    /\ UNCHANGED <<reported, queue, inprogress, master, handler, sinks>>

-----------------------------------------------------------------------------
(* CDRMaster.run                                                           *)

MasterAt(l, pc) == master[l].pc = pc
MasterGoto(l, pc, u) ==
    master' = [master EXCEPT ![l] = [pc |-> pc, uuid |-> u, stop |-> @.stop]]

HandlerAt(u, pc) == handler[u].pc = pc
Become(u, h) == handler' = [handler EXCEPT ![u] = h]

(* The loop sees if it is to stop.  Once per CDRTTL it then begins with a  *)
(* ZREMRANGEBYSCORE of the entries that are CDRTTL old; how old an entry   *)
(* is is not modelled.                                                     *)
Begin(l) ==
    /\ MasterAt(l, "loop")
    /\ ~master[l].stop
    /\ \E old \in SUBSET inprogress : inprogress' = inprogress \ old
    /\ MasterGoto(l, "blpop", None)
    /\ UNCHANGED <<reported, queue, detail, handler, sinks>>

(* Mutant: the master reads the head of the queue and leaves it there.     *)
PopPeek(l) ==
    /\ MasterAt(l, "blpop")
    /\ queue # <<>>
    /\ MasterGoto(l, "popped", Head(queue))
    /\ UNCHANGED <<reported, rdb, handler, sinks>>

(* BLPOP, which is told to stop only when it is over ...                   *)
Pop(l) ==
    /\ MasterAt(l, "blpop")
    /\ queue # <<>>
    /\ queue' = Tail(queue)
    /\ MasterGoto(l, "popped", Head(queue))
    /\ UNCHANGED <<reported, detail, inprogress, handler, sinks>>

(* ... REDIS_TIMEOUT later if no record has come.                          *)
Timeout(l) ==
    /\ MasterAt(l, "blpop")
    /\ queue = <<>> \/ "redis" \in Faults
    /\ MasterGoto(l, "loop", None)
    /\ UNCHANGED <<reported, rdb, handler, sinks>>

(* ZADD                                                                    *)
Mark(l) ==
    /\ MasterAt(l, "popped")
    /\ inprogress' = inprogress \cup {master[l].uuid}
    /\ MasterGoto(l, "marked", master[l].uuid)
    /\ UNCHANGED <<reported, queue, detail, handler, sinks>>

(* Mutant: the details are taken out of Redis when they are read.          *)
StartHandlerTaking(l) ==
    LET u == master[l].uuid IN
    /\ MasterAt(l, "marked")
    /\ u \in detail
    /\ Become(u, Fresh(l))
    /\ detail' = detail \ {u}
    /\ MasterGoto(l, "loop", None)
    /\ UNCHANGED <<reported, queue, inprogress, sinks>>

(* GET of the details: the record gets a handler thread ...                *)
StartHandler(l) ==
    LET u == master[l].uuid IN
    /\ MasterAt(l, "marked")
    /\ u \in detail
    /\ Become(u, Fresh(l))
    /\ MasterGoto(l, "loop", None)
    /\ UNCHANGED <<reported, rdb, sinks>>

(* ... or there are none: CDR_LOST, ZREM.                                  *)
FindMissing(l) ==
    /\ MasterAt(l, "marked")
    /\ master[l].uuid \notin detail
    /\ MasterGoto(l, "missing", master[l].uuid)
    /\ UNCHANGED <<reported, rdb, handler, sinks>>

Unmark(l) ==
    /\ MasterAt(l, "missing")
    /\ inprogress' = inprogress \ {master[l].uuid}
    /\ MasterGoto(l, "loop", None)
    /\ UNCHANGED <<reported, queue, detail, handler, sinks>>

(* A RedisError after the pop goes back to the loop: the uuid is dropped.  *)
MasterFault(l) ==
    /\ "redis" \in Faults
    /\ master[l].pc \in Holding
    /\ MasterGoto(l, "loop", None)
    /\ UNCHANGED <<reported, rdb, handler, sinks>>

Master(l) ==
    \/ Begin(l) \/ Pop(l) \/ Timeout(l) \/ Mark(l)
    \/ StartHandler(l) \/ FindMissing(l) \/ Unmark(l)

-----------------------------------------------------------------------------
(* CDRHandler.run                                                          *)

(* refine(): when it fails the record to post is {}.                       *)
Refine(u) ==
    /\ HandlerAt(u, "refine")
    /\ \E ok \in IF "refine" \in Faults THEN BOOLEAN ELSE {TRUE} :
           Become(u, [handler[u] EXCEPT !.pc = "save", !.whole = ok])
    /\ UNCHANGED <<reported, rdb, master, sinks>>

(* Mutant: one attempt too many.                                           *)
RetryingOnceMore(u) == handler[u].attempt <= MaxRetry /\ ~handler[u].stop

(* Whether the save and clean loops go round again.                        *)
Retrying(u) == handler[u].attempt < MaxRetry /\ ~handler[u].stop

(* Mutant: the loop does not end at the first 200.                         *)
SavedUnbroken(u) ==
    /\ HandlerAt(u, "save")
    /\ Retrying(u)
    /\ Endpoints > 0
    /\ http' = [http EXCEPT ![u] = @ + 1]
    /\ Become(u, [handler[u] EXCEPT !.attempt = @ + 1, !.saved = TRUE])
    /\ UNCHANGED <<reported, rdb, master, file>>

(* httpsave(): post to one endpoint after the other until one answers 200. *)
Saved(u) ==
    /\ HandlerAt(u, "save")
    /\ Retrying(u)
    /\ Endpoints > 0
    /\ \E unacked \in IF "ack" \in Faults THEN 0..(Endpoints - 1) ELSE {0} :
           http' = [http EXCEPT ![u] = @ + unacked + 1]
    /\ Become(u, [handler[u] EXCEPT !.pc = "disk", !.saved = TRUE])
    /\ UNCHANGED <<reported, rdb, master, file>>

(* None answers 200: sleep, and try again.                                 *)
NotSaved(u) ==
    /\ HandlerAt(u, "save")
    /\ Retrying(u)
    /\ Endpoints > 0
    /\ Faults \cap {"http", "ack"} # {}
    /\ \E unacked \in IF "ack" \in Faults THEN 0..Endpoints ELSE {0} :
           http' = [http EXCEPT ![u] = @ + unacked]
    /\ Become(u, [handler[u] EXCEPT !.saved = FALSE, !.attempt = @ + 1])
    /\ UNCHANGED <<reported, rdb, master, file>>

(* Mutant: what the last attempt made of 'saved' is forgotten.             *)
SaveOverSaved(u) ==
    /\ HandlerAt(u, "save")
    /\ ~Retrying(u) \/ Endpoints = 0
    /\ Become(u, [handler[u] EXCEPT !.pc = "disk", !.saved = TRUE])
    /\ UNCHANGED <<reported, rdb, master, sinks>>

(* Out of attempts, told to stop, or nowhere to post to.  'saved' is what  *)
(* the last attempt made it, and True if there was none.                   *)
SaveOver(u) ==
    /\ HandlerAt(u, "save")
    /\ ~Retrying(u) \/ Endpoints = 0
    /\ Become(u, [handler[u] EXCEPT !.pc = "disk"])
    /\ UNCHANGED <<reported, rdb, master, sinks>>

(* The file is the fallback, unless it is to hold every record.            *)
ToFile(u) == ~handler[u].saved \/ DiskCdr

(* filesave(), which logs an error and goes on when it cannot write.       *)
FileSave(u) ==
    /\ HandlerAt(u, "disk")
    /\ \/ ToFile(u) /\ file' = file \cup {u}
       \/ (ToFile(u) => "disk" \in Faults) /\ file' = file
    /\ Become(u, [handler[u] EXCEPT !.pc = "clean", !.attempt = 0])
    /\ UNCHANGED <<reported, rdb, master, http>>

(* Mutant: the details are deleted, the mark is left.                      *)
CleanDetailOnly(u) ==
    /\ HandlerAt(u, "clean")
    /\ Retrying(u)
    /\ detail' = detail \ {u}
    /\ Become(u, [handler[u] EXCEPT !.pc = "end"])
    /\ UNCHANGED <<reported, queue, inprogress, master, sinks>>

(* rclean(): ZREM and DEL in one transaction.                              *)
Clean(u) ==
    /\ HandlerAt(u, "clean")
    /\ Retrying(u)
    /\ inprogress' = inprogress \ {u}
    /\ detail' = detail \ {u}
    /\ Become(u, [handler[u] EXCEPT !.pc = "end"])
    /\ UNCHANGED <<reported, queue, master, sinks>>

NotCleaned(u) ==
    /\ "clean" \in Faults
    /\ HandlerAt(u, "clean")
    /\ Retrying(u)
    /\ \/ inprogress' = inprogress \ {u} /\ detail' = detail \ {u}
       \/ UNCHANGED <<inprogress, detail>>
    /\ Become(u, [handler[u] EXCEPT !.attempt = @ + 1])
    /\ UNCHANGED <<reported, queue, master, sinks>>

CleanOver(u) ==
    /\ HandlerAt(u, "clean")
    /\ ~Retrying(u)
    /\ Become(u, [handler[u] EXCEPT !.pc = "end"])
    /\ UNCHANGED <<reported, rdb, master, sinks>>

Handler(u) ==
    \/ Refine(u) \/ Saved(u) \/ NotSaved(u) \/ SaveOver(u) \/ FileSave(u)
    \/ Clean(u) \/ NotCleaned(u) \/ CleanOver(u)

-----------------------------------------------------------------------------
(* The life of a liberator process (main.py).                              *)

Running(u) == handler[u].pc \notin {"none", "end", "dead"}

(* Teardown sets 'stop' on every thread there is at that moment.           *)
Stop(l) ==
    /\ "stop" \in Faults
    /\ ~MasterAt(l, "down")
    /\ ~master[l].stop
    /\ master' = [master EXCEPT ![l] = [@ EXCEPT !.stop = TRUE]]
    /\ handler' = [u \in Cdr |-> IF handler[u].lib = l /\ Running(u)
                                 THEN [handler[u] EXCEPT !.stop = TRUE]
                                 ELSE handler[u]]
    /\ UNCHANGED <<reported, rdb, sinks>>

MasterExit(l) ==
    /\ MasterAt(l, "loop")
    /\ master[l].stop
    /\ MasterGoto(l, "down", None)
    /\ UNCHANGED <<reported, rdb, handler, sinks>>

Crash(l) ==
    /\ "crash" \in Faults
    /\ ~MasterAt(l, "down")
    /\ MasterGoto(l, "down", None)
    /\ handler' = [u \in Cdr |-> IF handler[u].lib = l /\ Running(u)
                                 THEN [handler[u] EXCEPT !.pc = "dead"]
                                 ELSE handler[u]]
    /\ UNCHANGED <<reported, rdb, sinks>>

(* A process that stops waits for its handler threads before it is gone.   *)
Restart(l) ==
    /\ MasterAt(l, "down")
    /\ \A u \in Cdr : handler[u].lib = l => ~Running(u)
    /\ master' = [master EXCEPT ![l] = Idle]
    /\ UNCHANGED <<reported, rdb, handler, sinks>>

-----------------------------------------------------------------------------
Next ==
    \/ \E u \in Cdr : Report(u) \/ ReportUuid(u) \/ ReportDetail(u)
    \/ \E u \in Cdr : ReportLocal(u) \/ ReportFails(u)
    \/ \E u \in Cdr : Expire(u) \/ Handler(u)
    \/ \E l \in Liberator : Master(l) \/ MasterFault(l)
    \/ \E l \in Liberator : Stop(l) \/ MasterExit(l) \/ Crash(l) \/ Restart(l)

Spec == Init /\ [][Next]_vars

(* The threads of a process go on by themselves, and a pipeline sent to    *)
(* Redis is carried out; records, faults, stops and restarts just happen.  *)
Fairness ==
    /\ \A u \in Cdr : WF_vars(Handler(u)) /\ WF_vars(ReportDetail(u))
    /\ \A l \in Liberator : /\ WF_vars(Begin(l)) /\ WF_vars(Pop(l))
                            /\ WF_vars(Mark(l) \/ StartHandler(l) \/ FindMissing(l) \/ Unmark(l))

FairSpec == Spec /\ Fairness

-----------------------------------------------------------------------------
(* Where a record is.                                                      *)

Queued(u) == \E i \in 1..Len(queue) : queue[i] = u
Held(u) == \E l \in Liberator : master[l].uuid = u
Stored(u) == u \in file \/ (http[u] > 0 /\ handler[u].whole)
InRedis(u) == reported[u] \in {"pushed", "done", "broken"}
OnItsWay(u) == Queued(u) \/ Held(u) \/ Running(u)

(* The faults and settings under which no record should get lost.          *)
Lossless ==
    /\ Faults \cap {"split", "report", "expiry", "redis", "disk", "crash"} = {}
    /\ DiskCdr \/ (Endpoints > 0 /\ Faults \cap {"refine", "stop"} = {})

-----------------------------------------------------------------------------
(* Properties.                                                             *)

QueuedOnce == \A i, j \in 1..Len(queue) : queue[i] = queue[j] => i = j
HeldOnce ==
    \A l, m \in Liberator : master[l].uuid = master[m].uuid => l = m \/ master[l].uuid = None
OwnedOnce(u) ==
    /\ Queued(u) => InRedis(u) /\ ~Held(u)
    /\ Held(u) => InRedis(u)
    /\ Queued(u) \/ Held(u) \/ ~InRedis(u) => HandlerAt(u, "none")
    /\ HandlerAt(u, "none") \/ HandlerAt(u, "refine") => http[u] = 0 /\ u \notin file

(* Whatever fails, a record is in the queue once, or with one CDRMaster,   *)
(* or with the one CDRHandler it ever gets: BLPOP hands it to one process, *)
(* and nothing pushes it again.                                            *)
OneOwner ==
    /\ QueuedOnce
    /\ HeldOnce
    /\ \A u \in Cdr : OwnedOnce(u)

(* Unless its time to live ends, a record's details stay in Redis until it *)
(* has reached an endpoint or the CDR file (cdr.py:245, rclean after the   *)
(* save): whatever else fails, it can still be recovered from there.       *)
DetailKeptUntilStored == \A u \in Cdr : reported[u] = "done" => u \in detail \/ Stored(u)

(* No record reaches the endpoints twice, or both them and a file that is  *)
(* only the fallback (httpsave stops at the first 200, run at the first    *)
(* save), however processes stop, crash, restart and retry.                *)
StoredOnce ==
    \A u \in Cdr : /\ http[u] <= 1
                   /\ u \in file /\ ~DiskCdr => http[u] = 0

(* A record that a node has put into Redis is still on its way through the *)
(* liberators, or has been stored: never silently dropped.                 *)
NoCdrLost == \A u \in Cdr : InRedis(u) => OnItsWay(u) \/ Stored(u)

(* Once reported, a record is some day stored ...                          *)
EventuallyStored == \A u \in Cdr : reported[u] = "done" ~> Stored(u)

(* ... and leaves nothing behind in Redis.                                 *)
EventuallyCleaned == \A u \in Cdr : reported[u] = "done" ~> [](u \notin detail \cup inprogress)

-----------------------------------------------------------------------------
(* What the pipeline promises: see CdrDelivery.                            *)
StatusOf(u) ==
    CASE reported[u] = "none"   -> "unreported"
      [] reported[u] = "local"  -> "local"
      [] reported[u] = "failed" -> "lost"
      [] InRedis(u) /\ Stored(u) -> "stored"
      [] InRedis(u) /\ ~Stored(u) /\ OnItsWay(u) -> "pending"
      [] InRedis(u) /\ ~Stored(u) /\ ~OnItsWay(u) -> "lost"

Status == [u \in Cdr |-> StatusOf(u)]

Delivery == INSTANCE CdrDelivery WITH MayLose <- ~Lossless, status <- Status

(* The pipeline implements it: every step moves records on as it allows,   *)
(* and a lost record never comes back.                                     *)
Delivers == Delivery!Spec
=============================================================================
