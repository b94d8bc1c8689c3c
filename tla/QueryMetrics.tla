----------------------------- MODULE QueryMetrics -----------------------------
(***************************************************************************)
(* The latencies of database queries, kept in the memory of one process    *)
(* (api/monitoring/database_metrics.py): the callbacks around a cursor     *)
(* start and record a sample, whatever fails must leave the query alone    *)
(* and a trace of the gap, old and excess samples go, and a statistic says *)
(* whether its window is complete. Queries overlap, and may have begun     *)
(* before the collector was bound.                                         *)
(***************************************************************************)
EXTENDS Integers, FiniteSets

CONSTANTS
  Count,        \* bound: queries
  Kept,         \* max_rows
  Lasting,      \* retention_seconds
  Spans,        \* the windows asked for
  MaxClock,     \* bound: the clock
  MaxFailures   \* bound: callbacks that fail

VARIABLES
  clock,
  query,     \* [state, timed, at]
  records,   \* the samples, by query
  bound,     \* the collector: [state, since]
  pruned,    \* _pruned_monotonic, or None
  gap,       \* _gap_monotonic, or None
  blind,     \* _capture_unavailable, the collector's or its bridge's
  failures,
  reply      \* the last statistic: [complete, missed]

vars == <<clock, query, records, bound, pruned, gap, blind, failures, reply>>

Qs == 1..Count
None == -1
NotBegun == [state |-> "new", timed |-> FALSE, at |-> None]
Active == bound.state = "open"
Highest(a, b) == IF a > b THEN a ELSE b

TypeOK ==
  /\ clock \in 0..MaxClock /\ records \subseteq Qs
  /\ \A q \in Qs : query[q].state \in {"new", "running", "returned"} /\ query[q].at \in None..MaxClock
  /\ bound.state \in {"absent", "open", "closed"}
  /\ pruned \in None..MaxClock /\ gap \in None..MaxClock /\ blind \in BOOLEAN
  /\ reply.complete \in BOOLEAN /\ reply.missed \subseteq Qs

Init ==
  /\ clock = 0
  /\ query = [q \in Qs |-> NotBegun]
  /\ records = {}
  /\ bound = [state |-> "absent", since |-> None]
  /\ pruned = None /\ gap = None
  /\ blind = FALSE
  /\ failures = 0
  /\ reply = [complete |-> FALSE, missed |-> {}]

(* DatabaseQueryMetrics.__init__ *)
Bind ==
  /\ bound.state = "absent"
  /\ bound' = [state |-> "open", since |-> clock]
  /\ UNCHANGED <<clock, query, records, pruned, gap, blind, failures, reply>>

---------------------------------------------------------------------------
(* The callbacks. A failure is recorded as a gap; if even that fails, or   *)
(* the bridge cannot tell its collectors, nothing is complete any more.    *)

Marked == Highest(gap, clock)
Lapse ==
  /\ failures < MaxFailures /\ failures' = failures + 1
  /\ \/ gap' = (IF Active THEN Marked ELSE gap) /\ UNCHANGED blind
     \/ blind' = TRUE /\ UNCHANGED gap

(* _before_cursor_execute, _start *)
Begin(q) ==
  /\ query[q].state = "new" /\ \A r \in 1..q-1 : query[r].state # "new"
  /\ \/ query' = [query EXCEPT ![q] = [state |-> "running", timed |-> Active, at |-> None]]
        /\ UNCHANGED <<gap, blind, failures>>
     \/ Active /\ Lapse
        /\ query' = [query EXCEPT ![q] = [state |-> "running", timed |-> FALSE, at |-> None]]
  /\ UNCHANGED <<clock, records, bound, pruned, reply>>

(* _prune: the oldest first, by age and by number. *)
Older(r, s) == query'[r].at < query'[s].at \/ (query'[r].at = query'[s].at /\ r < s)
Gone(rows) ==
  {s \in rows : \/ query'[s].at < clock - Lasting
                \/ Cardinality({r \in rows : Older(s, r)}) >= Kept}
Prune(rows) ==
  /\ records' = rows \ Gone(rows)
  /\ pruned' = IF Gone(rows) = {} THEN pruned
               ELSE Highest(pruned, CHOOSE t \in {query'[s].at : s \in Gone(rows)} :
                                      \A s \in Gone(rows) : query'[s].at <= t)

(* _after_cursor_execute, _handle_error; _finish, _record. A query that    *)
(* was not timed, having begun before the collector, is a gap.             *)
Return(q) ==
  /\ query[q].state = "running"
  /\ query' = [query EXCEPT ![q].state = "returned", ![q].at = clock]
  /\ \/ Active /\ query[q].timed /\ Prune(records \cup {q}) /\ UNCHANGED <<gap, blind, failures>>
     \/ Active /\ ~query[q].timed /\ gap' = Marked /\ UNCHANGED <<records, pruned, blind, failures>>
     \/ Active /\ Lapse /\ UNCHANGED <<records, pruned>>
     \/ ~Active /\ UNCHANGED <<records, pruned, gap, blind, failures>>
  /\ UNCHANGED <<clock, bound, reply>>

---------------------------------------------------------------------------
(* stats *)
Complete(cutoff, window, seen) ==
  /\ Active /\ ~blind
  /\ bound.since <= cutoff
  /\ window <= Lasting
  /\ seen = None \/ seen < cutoff
  /\ gap = None \/ gap < cutoff

(* A query that returned when the collector was just bound is no loss. *)
Missed(cutoff, rows) ==
  {q \in Qs : /\ query[q].state = "returned" /\ query[q].at >= cutoff
              /\ q \notin rows /\ query[q].at # bound.since}

Stats(window) ==
  /\ bound.state # "absent"
  /\ UNCHANGED <<clock, query, bound, gap, blind, failures>>
  /\ Prune(records)
  /\ reply' = [complete |-> Complete(clock - window, window, pruned'),
               missed |-> Missed(clock - window, records')]

Close ==
  /\ Active
  /\ bound' = [bound EXCEPT !.state = "closed"]
  /\ UNCHANGED <<clock, query, records, pruned, gap, blind, failures, reply>>

Tick ==
  /\ clock < MaxClock
  /\ clock' = clock + 1
  /\ UNCHANGED <<query, records, bound, pruned, gap, blind, failures, reply>>

Next ==
  \/ \E q \in Qs : Begin(q) \/ Return(q)
  \/ \E window \in Spans : Stats(window)
  \/ Bind \/ Close \/ Tick

Spec == Init /\ [][Next]_vars

---------------------------------------------------------------------------
(* A statistic that says its window is complete has every query that       *)
(* returned in it, whatever was pruned, failed or began before (stats,     *)
(* _prune, _safe_gap).                                                     *)
WindowIsWhole == reply.complete => reply.missed = {}

(* A query that was lost to a failed callback in the retained time keeps   *)
(* every window that holds it incomplete (_mark_gap).                      *)
LossIsMarked ==
  Active /\ ~blind =>
    \A q \in Qs : query[q].state = "returned" /\ q \notin records /\ query[q].at > bound.since =>
      (gap >= query[q].at \/ pruned >= query[q].at)

QueriesAreCounted == WindowIsWhole /\ LossIsMarked
=============================================================================
