------------------------------ MODULE Monitoring ------------------------------
(***************************************************************************)
(* The record of requests and of model calls that the statistics are made  *)
(* from (api/monitoring/store.py, api/middleware/logging.py): a bounded    *)
(* table that every process of the API writes and prunes, with watermarks  *)
(* for what was discarded and for what could not be written. A statistic   *)
(* says whether it is complete. Each call reads the clock before it waits  *)
(* for the database.                                                       *)
(***************************************************************************)
EXTENDS Integers, FiniteSets

CONSTANTS
  Sources,      \* processes of the API
  Retention,    \* retention_seconds
  MaxRows,      \* max_rows
  Windows,      \* bound: the windows asked for
  MaxSamples,   \* bound: requests or calls
  MaxClock,     \* bound: the clock
  MaxLosses     \* bound: requests that cannot be written

VARIABLES
  stat,      \* what is recorded: "requests" or "calls"
  wall,      \* the clock
  sample,    \* requests or calls that ended: when, in which process, how far
  kept,      \* rows of the table, by sample
  mark,      \* api_monitor_meta: pruned_through and capture_gap_through
  gap,       \* _capture_gap_through of each process
  query,     \* the statistic being made
  answer     \* the last one: whether it claims to be complete, and what it missed

monitorVars == <<stat, wall, sample, kept, mark, gap, query, answer>>

Samples == 1 .. MaxSamples
NoSample == [at |-> 0, by |-> "none", state |-> "none"]
NoQuery  == [by |-> "none", at |-> 0, window |-> 0]
NoAnswer == [complete |-> FALSE, missed |-> {}]
Losses   == Cardinality({s \in Samples : sample[s].state \in {"lost", "failed", "noted"}})

Latest(S) == IF S = {} THEN 0
             ELSE CHOOSE t \in {sample[s].at : s \in S} : \A s \in S : sample[s].at <= t
Higher(a, b) == IF a > b THEN a ELSE b

---------------------------------------------------------------------------
(* Slip: rows beyond the limit leave no trace. *)
PrunedSilently(rows, expired) == Latest(expired)

(* The watermark is the time of the latest row that goes, whatever for. *)
PrunedBeyond(rows, expired) ==
  LET fresh == rows \ expired
      newer(s) == {r \in fresh : sample[r].at > sample[s].at \/ (sample[r].at = sample[s].at /\ r > s)}
  IN  Higher(Latest(expired), Latest({s \in fresh : Cardinality(newer(s)) >= MaxRows}))

(* _prune, _prune_llm_calls: first by age, then the oldest beyond max_rows. *)
Expired(rows, now) == {s \in rows : sample[s].at < now - Retention}

Pruned(rows, now) ==
  LET fresh == rows \ Expired(rows, now)
      newer(s) == {r \in fresh : sample[r].at > sample[s].at \/ (sample[r].at = sample[s].at /\ r > s)}
  IN  {s \in fresh : Cardinality(newer(s)) < MaxRows}

(* The watermarks after process p has pruned; only requests have a gap. *)
MarksOf(p, rows, now) ==
  [pruned |-> Higher(mark.pruned, PrunedBeyond(rows, Expired(rows, now))),
   gap    |-> IF stat = "requests" THEN Higher(mark.gap, gap[p]) ELSE mark.gap]

---------------------------------------------------------------------------
(* A request or a model call ends: the clock is read. *)
End(p, s) ==
  /\ sample[s].state = "none" /\ \A r \in 1 .. s - 1 : sample[r].state # "none"
  /\ sample' = [sample EXCEPT ![s] = [at |-> wall, by |-> p, state |-> "waiting"]]
  /\ UNCHANGED <<stat, wall, kept, mark, gap, query, answer>>

(* record_request, record_llm_call: one transaction adds the row and prunes. *)
Record(s) ==
  /\ sample[s].state = "waiting" /\ sample' = [sample EXCEPT ![s].state = "recorded"]
  /\ kept' = Pruned(kept \cup {s}, sample[s].at)
  /\ mark' = MarksOf(sample[s].by, kept \cup {s}, sample[s].at)
  /\ UNCHANGED <<stat, wall, gap, query, answer>>

(* The database refuses; a model call is then forgotten. *)
RecordFails(s) ==
  /\ sample[s].state = "waiting" /\ Losses < MaxLosses
  /\ sample' = [sample EXCEPT ![s].state = IF stat = "requests" THEN "failed" ELSE "lost"]
  /\ UNCHANGED <<stat, wall, kept, mark, gap, query, answer>>

(* mark_capture_gap: kept in memory, and written if the database is back. *)
MarkGap(s) ==
  /\ sample[s].state = "failed" /\ sample' = [sample EXCEPT ![s].state = "noted"]
  /\ LET p == sample[s].by IN
       /\ gap' = [gap EXCEPT ![p] = Higher(@, wall)]
       /\ \/ mark' = [mark EXCEPT !.gap = Higher(@, gap'[p])]
          \/ UNCHANGED mark
  /\ UNCHANGED <<stat, wall, kept, query, answer>>

(* The process is killed: what it had not written is lost. *)
Kill(p) ==
  /\ \E s \in Samples : sample[s].by = p /\ sample[s].state \in {"waiting", "failed", "noted"}
  /\ sample' = [s \in Samples |->
       IF sample[s].by = p /\ sample[s].state \in {"waiting", "failed", "noted"}
       THEN [sample[s] EXCEPT !.state = "lost"] ELSE sample[s]]
  /\ gap' = [gap EXCEPT ![p] = 0] /\ query' = IF query.by = p THEN NoQuery ELSE query
  /\ UNCHANGED <<stat, wall, kept, mark, answer>>

---------------------------------------------------------------------------
(* api_stats, _llm_window_stats: the clock is read, then one transaction   *)
(* prunes and counts.                                                      *)
Query(p, w) ==
  /\ query = NoQuery /\ query' = [by |-> p, at |-> wall, window |-> w]
  /\ UNCHANGED <<stat, wall, sample, kept, mark, gap, answer>>

(* What each of the two takes for a complete window; collection started    *)
(* at 0.                                                                   *)
CompleteRequests(start, marks) ==
  0 <= start /\ marks.pruned < start /\ marks.gap < start /\ query.window <= Retention
CompleteCalls(start, marks) == start >= 0 /\ start > marks.pruned

(* What a complete window has to count: all that ended in it, but what was *)
(* not yet written when it was counted, what a dead process took with it,  *)
(* and a gap that is known to another process only.                        *)
Due(start, end, p) ==
  {s \in Samples : /\ sample[s].at \in start .. end
                   /\ \/ sample[s].state = "recorded"
                      \/ sample[s].state = "noted" /\ (sample[s].by = p \/ mark.gap >= sample[s].at)}

Answer ==
  /\ query # NoQuery /\ query' = NoQuery
  /\ LET start == query.at - query.window
         rows  == Pruned(kept, query.at)
         marks == MarksOf(query.by, kept, query.at)
     IN  /\ kept' = rows /\ mark' = marks
         /\ answer' = [complete |-> IF stat = "requests" THEN CompleteRequests(start, marks)
                                    ELSE CompleteCalls(start, marks),
                       missed   |-> Due(start, query.at, query.by) \ rows]
  /\ UNCHANGED <<stat, wall, sample, gap>>

Tick ==
  /\ wall < MaxClock /\ wall' = wall + 1
  /\ UNCHANGED <<stat, sample, kept, mark, gap, query, answer>>

Init ==
  /\ stat \in {"requests", "calls"} /\ wall = 0 /\ sample = [s \in Samples |-> NoSample]
  /\ kept = {} /\ mark = [pruned |-> 0, gap |-> 0] /\ gap = [p \in Sources |-> 0]
  /\ query = NoQuery /\ answer = NoAnswer

Next ==
  \/ \E s \in Samples : Record(s) \/ RecordFails(s) \/ MarkGap(s) \/ \E p \in Sources : End(p, s)
  \/ \E p \in Sources : Kill(p) \/ \E w \in Windows : Query(p, w)
  \/ Answer \/ Tick

Spec == Init /\ [][Next]_monitorVars

---------------------------------------------------------------------------
(* Type correctness. *)
TypeOK ==
  /\ wall \in 0 .. MaxClock /\ kept \subseteq Samples /\ Cardinality(kept) <= MaxRows
  /\ \A s \in Samples :
       sample[s].state \in {"none", "waiting", "recorded", "failed", "noted", "lost"}
  /\ mark \in [pruned : 0 .. MaxClock, gap : 0 .. MaxClock] /\ gap \in [Sources -> 0 .. MaxClock]

(* "When retention or the row limit discards requests in a queried window, *)
(* totals are unavailable": a statistic that calls itself complete has     *)
(* counted everything that ended in its window, however late the writers   *)
(* came to the database and however many rows went.                        *)
CompleteIsComplete == answer.complete => answer.missed = {}
=============================================================================
