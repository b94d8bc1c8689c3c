----------------------------- MODULE ProbeReplies -----------------------------
(***************************************************************************)
(* What the probes make of the replies they get (queue_probe.py: the       *)
(* workers' answers to a broadcast and the lengths of the queues' lists,   *)
(* cleaned in the child process and once more by its parent; containers.py:*)
(* a list of the sandboxes, then their readings; service.py: health).      *)
(* Replies come one after the other, repeated, malformed or not at all.    *)
(***************************************************************************)
EXTENDS Integers, Sequences, FiniteSets, SequencesExt, FiniteSetsExt

CONSTANTS
  Hosts,         \* names of workers
  MaxWorkers,    \* MAX_WORKERS
  Queues, Steps, \* the configured queues; the number of priority steps
  Boxes,         \* identities of containers
  MaxItems,      \* MONITOR_CONTAINER_MAX_ITEMS
  MaxReplies     \* bound: replies of each kind

VARIABLES
  replies,    \* of the workers
  lengths,    \* of the lists of the queues, in the order of their keys
  listed,     \* what docker ps prints
  reading,    \* what docker stats prints of a container
  failed      \* docker stats failed

vars == <<replies, lengths, listed, reading, failed>>

None == -1
Counts == 0..1
Malformed == [host |-> "malformed"]
Reply == [host : Hosts, version : {1, 2}, active : Counts \cup {None},
          concurrency : Counts \cup {None}]
Readings == {"full", "partial", "missing"}

Init ==
  /\ replies = <<>> /\ lengths = <<>> /\ listed = <<>>
  /\ reading = [b \in Boxes |-> "missing"]
  /\ failed = FALSE

---------------------------------------------------------------------------
(* The workers. *)

(* counter: a concurrency of zero is none; another protocol has no counts. *)
Row(r) ==
  LET active == IF r.version = 1 THEN r.active ELSE None
      concurrency == IF r.version = 1 /\ r.concurrency # 0 THEN r.concurrency ELSE None
  IN [host |-> r.host, active |-> active, concurrency |-> concurrency,
      status |-> IF active # None /\ concurrency # None THEN "ok" ELSE "partial"]

Unknown(reason) == [status |-> "unknown", reason |-> reason, workers |-> {},
                    active |-> None, concurrency |-> None]
Snapshot(rows, partial) ==
  [status |-> IF partial THEN "partial" ELSE "ok",
   reason |-> IF partial THEN "incomplete_replies" ELSE "observed",
   workers |-> rows,
   active |-> IF partial THEN None ELSE MapThenSumSet(LAMBDA w : w.active, rows),
   concurrency |-> IF partial THEN None ELSE MapThenSumSet(LAMBDA w : w.concurrency, rows)]

(* worker_snapshot: the first reply of each host that is well formed.      *)
Heard == SubSeq(replies, 1, IF Len(replies) < MaxWorkers THEN Len(replies) ELSE MaxWorkers)
Kept == {i \in DOMAIN Heard : /\ Heard[i] # Malformed
                              /\ \A j \in 1..i-1 : Heard[j].host # Heard[i].host}
WorkerSnapshot ==
  LET rows == {Row(Heard[i]) : i \in Kept}
      partial == \/ Len(replies) > MaxWorkers \/ Kept # DOMAIN Heard
                 \/ \E w \in rows : w.status # "ok"
  IN IF replies = <<>> THEN Unknown("no_replies")
     ELSE IF rows = {} THEN Unknown("invalid_reply")
     ELSE Snapshot(rows, partial)

(* validated_result: the parent trusts the status no further than the rows.*)
Validated(v) ==
  IF v.status = "unknown" THEN Unknown(v.reason)
  ELSE Snapshot({[w EXCEPT !.concurrency = IF @ = 0 THEN None ELSE @] : w \in v.workers},
                v.status = "partial" \/ \E w \in v.workers : w.status # "ok")

---------------------------------------------------------------------------
(* The queues: one list per queue and priority. *)

ListCount == Cardinality(Queues) * Steps
UnknownQueue == [status |-> "unknown", waiting |-> None, queues |-> <<>>]

(* broker_queue: the lengths of a queue's lists follow one another. *)
SumOf(s) == FoldSeq(LAMBDA x, y : x + y, 0, s)
BrokerQueue ==
  IF Len(lengths) # ListCount \/ None \in {lengths[i] : i \in DOMAIN lengths} THEN UnknownQueue
  ELSE [status |-> "ok", waiting |-> SumOf(lengths),
        queues |-> [q \in 1..Cardinality(Queues) |->
                      SumOf(SubSeq(lengths, (q - 1) * Steps + 1, q * Steps))]]
ValidatedQueue(v) ==
  IF v.status # "ok" \/ v.waiting # SumOf(v.queues) THEN UnknownQueue ELSE v

---------------------------------------------------------------------------
(* The containers. *)

(* collect_containers: a sandbox may be gone when its readings are asked.  *)
Selected == SubSeq(listed, 1, IF Len(listed) < MaxItems THEN Len(listed) ELSE MaxItems)
BoxRow(b) == [box |-> b, status |-> IF reading[b] = "full" THEN "ok"
                                    ELSE IF reading[b] = "partial" THEN "partial" ELSE "unknown"]
Containers ==
  LET rows == [i \in DOMAIN Selected |-> BoxRow(Selected[i])]
      truncated == Len(listed) > MaxItems
      statsFailed == failed /\ Selected # <<>>
      partial == truncated \/ statsFailed \/ \E i \in DOMAIN rows : rows[i].status # "ok"
  IN IF ~IsInjective(listed) \/ "malformed" \in ToSet(listed)
     THEN [status |-> "unknown", rows |-> <<>>, truncated |-> FALSE]
     ELSE [status |-> IF partial THEN "partial" ELSE "ok", rows |-> rows, truncated |-> truncated]

(* health, when the database and the sandbox are well. *)
Health ==
  LET checks == {Validated(WorkerSnapshot).status, ValidatedQueue(BrokerQueue).status}
  IN IF "unknown" \in checks THEN "degraded" ELSE IF checks = {"ok"} THEN "healthy" ELSE "partial"

---------------------------------------------------------------------------
(* The two commands are independent: the lengths vary for few replies. *)
Answer(r) ==
  /\ Len(replies) < MaxReplies /\ lengths = <<>> /\ replies' = Append(replies, r)
  /\ UNCHANGED <<lengths, listed, reading, failed>>

Count(n) ==
  /\ Len(lengths) < ListCount /\ Len(replies) <= 1 /\ lengths' = Append(lengths, n)
  /\ UNCHANGED <<replies, listed, reading, failed>>

List(b) ==
  /\ replies = <<>> /\ lengths = <<>>
  /\ Len(listed) < MaxReplies /\ \A x \in Boxes : reading[x] = "missing"
  /\ listed' = Append(listed, b)
  /\ UNCHANGED <<replies, lengths, reading, failed>>

Measure(b, how) ==
  /\ b \in ToSet(Selected) /\ reading[b] = "missing" /\ how # "missing" /\ ~failed
  /\ reading' = [reading EXCEPT ![b] = how]
  /\ UNCHANGED <<replies, lengths, listed, failed>>

Fail ==
  /\ Selected # <<>> /\ ~failed
  /\ failed' = TRUE
  /\ UNCHANGED <<replies, lengths, listed, reading>>

Next ==
  \/ /\ listed = <<>>
     /\ \/ \E r \in Reply \cup {Malformed} : Answer(r)
        \/ \E n \in {None} \cup Counts : Count(n)
  \/ \E b \in Boxes \cup {"malformed"} : List(b)
  \/ \E b \in Boxes, how \in Readings : Measure(b, how)
  \/ Fail

Spec == Init /\ [][Next]_vars

TypeOK ==
  /\ \A i \in DOMAIN replies : replies[i] \in Reply \cup {Malformed}
  /\ \A i \in DOMAIN lengths : lengths[i] \in Counts \cup {None}
  /\ \A i \in DOMAIN listed : listed[i] \in Boxes \cup {"malformed"}
  /\ reading \in [Boxes -> Readings] /\ failed \in BOOLEAN

(* What the child reports passes its parent unchanged: neither loses a     *)
(* worker nor claims more than the other (worker_snapshot,                 *)
(* validated_result; broker_queue, validated_queue).                       *)
RepliesPass ==
  /\ Validated(WorkerSnapshot) = WorkerSnapshot
  /\ ValidatedQueue(BrokerQueue) = BrokerQueue

(* A total is given only when no reply was left out of it, and every reply *)
(* of a worker is in it once.                                              *)
TotalsAreWhole ==
  LET w == WorkerSnapshot
      q == BrokerQueue
  IN /\ w.active # None => /\ w.active = MapThenSumSet(LAMBDA i : replies[i].active, DOMAIN replies)
                           /\ Cardinality(w.workers) = Len(replies)
     /\ q.waiting # None => q.waiting = SumOf(q.queues) /\ Len(lengths) = ListCount
     /\ Health = "healthy" => w.active # None /\ w.concurrency > 0 /\ q.waiting # None

(* Containers are reported as observed only when every one that is listed  *)
(* was measured.                                                           *)
ContainersAreWhole ==
  Containers.status = "ok" =>
    /\ {Containers.rows[i].box : i \in DOMAIN Containers.rows} = ToSet(listed)
    /\ \A b \in ToSet(listed) : reading[b] = "full"

RepliesAreHonest == RepliesPass /\ TotalsAreWhole /\ ContainersAreWhole
=============================================================================
