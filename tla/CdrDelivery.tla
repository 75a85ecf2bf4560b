---------------------------- MODULE CdrDelivery ----------------------------
(***************************************************************************)
(* What the CDR pipeline promises, record by record: a record that a node  *)
(* reports to Redis is pending until it is stored, once and for all.  A    *)
(* node without Redis keeps it in a local file.  Records may be lost only  *)
(* where the pipeline is run in a way that can lose them (MayLose); a lost *)
(* record is lost for good.                                                *)
(***************************************************************************)
CONSTANTS Cdr,      \* the records
          MayLose   \* whether a pending record may be lost

VARIABLE status

Init == status = [u \in Cdr |-> "unreported"]

Move(us, from, to) ==
    /\ \A u \in us : status[u] = from
    /\ status' = [u \in Cdr |-> IF u \in us THEN to ELSE status[u]]

Report(u) == Move({u}, "unreported", "pending")
KeepLocal(u) == Move({u}, "unreported", "local")
Store(u) == Move({u}, "pending", "stored")

(* The record may be lost while it is being reported.                      *)
Drop(u) == MayLose /\ Move({u}, "unreported", "lost")

(* The death of a process may cost several records.                        *)
Lose == MayLose /\ \E us \in SUBSET Cdr : Move(us, "pending", "lost")

Next == Lose \/ \E u \in Cdr : Report(u) \/ KeepLocal(u) \/ Drop(u) \/ Store(u)

Spec == Init /\ [][Next]_status
=============================================================================
