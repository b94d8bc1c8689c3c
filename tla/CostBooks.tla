----------------------------- MODULE CostBooks -----------------------------
(***************************************************************************)
(* The books of one owner (api/services/cost_service.py): what the four    *)
(* kinds of work leave on file, the rows every report is made of           *)
(* (_collect_spend_rows), the reports (summary, trends, breakdown,         *)
(* task_cost, budget_usage), the budget and its writes, the limits read     *)
(* where a unit is dispatched (execution_budget), and the import of old    *)
(* experiments (backfill_spend). There is one job of each kind. A report   *)
(* is several statements, each of which sees what is committed by then,    *)
(* while the workers go on. Amounts are in half units.                     *)
(***************************************************************************)
EXTENDS Integers, FiniteSets, FiniteSetsExt

CONSTANTS
  Units,          \* the units of the evaluation
  Levels,         \* the difficulties
  Names,          \* the strategies of the evaluation
  Amount,         \* what a call or a unit costs
  MaxRecords,     \* bound: spend records
  Caps,           \* the caps an owner sets
  MaxWrites       \* bound: commits of the workers and the owner

VARIABLES
  job,     \* per source: [status, begun, tracked, spent, level, done, unpriced];
           \* the level of each unit, the units done and those of them whose
           \* cost is not known (cost_unknown) are the evaluation's
  record,  \* the spend records
  budget,  \* the owner's budget, or NoBudget
  writes,  \* commits so far: the clock, one a day
  query    \* the report being made

vars == <<job, record, budget, writes, query>>

Works == {"evaluations", "benchmarks", "experiments", "ab_tests"}
Recorded == {"experiments", "ab_tests"}
Unknown == -1                    \* cost_usd is None
NoLevel == "none"
NoCap == -1
NoLevels == [l \in Levels |-> NoCap]
NoBudget == [set |-> FALSE, cap |-> NoCap, levels |-> NoLevels]
Queries == {"report", "usage", "dispatch"}

(* row["cost_usd"] or 0.0 *)
Known(cost) == IF cost = Unknown THEN 0 ELSE cost
Total(rows) == MapThenSumSet(LAMBDA r : Known(r.cost), rows)

---------------------------------------------------------------------------
(* The rows. *)

Row(id, source, cost, names, at, level, reason) ==
  [id |-> id, source |-> source, cost |-> cost, names |-> names, at |-> at,
   level |-> level, reason |-> reason]

(* A row has what the units of known cost spent, and no reason: units of   *)
(* unknown cost count as nothing in it, and if there are only these, there  *)
(* is no row.                                                              *)
EvaluationRows ==
  IF job["evaluations"].spent = 0 THEN {}
  ELSE {Row(<<"evaluations", 0>>, "evaluations", job["evaluations"].spent, Names, 0,
            NoLevel, "none")}

BenchmarkRows ==
  IF job["benchmarks"].status # "completed" THEN {}
  ELSE LET cost == job["benchmarks"].spent
       IN {Row(<<"benchmarks", 0>>, "benchmarks", cost, {}, 0, NoLevel,
               IF cost = Unknown THEN "missing_cost" ELSE "none")}

CallName == CHOOSE n \in Names : TRUE      \* the strategy of the calls

RecordRows ==
  {Row(<<r.source, r.n>>, r.source, r.cost, {CallName}, r.at, r.level, r.reason) : r \in record}

(* A job whose calls were not all recorded leaves a gap, unless it never   *)
(* began.                                                                  *)
GapRows ==
  {Row(<<s, 0>>, s, Unknown, {}, 0, NoLevel, "historical_gap") :
     s \in {t \in Recorded : /\ ~job[t].tracked
                             /\ ~(job[t].status = "pending" /\ ~job[t].begun)}}

Rows == EvaluationRows \cup BenchmarkRows \cup RecordRows \cup GapRows

---------------------------------------------------------------------------
(* The reports, over rows. *)

Gaps(rows) == {r \in rows : r.reason # "none"}
Complete(rows) == Gaps(rows) = {}

Of(rows, source) == {r \in rows : r.source = source}
BySource(rows) == [s \in {r.source : r \in rows} |-> Total(Of(rows, s))]

(* A day has two halves; a bound that is a date covers the day whole. *)
Day(at) == at \div 2
Since(rows, day) == {r \in rows : r.at >= 2 * day}
Until(rows, day) == {r \in rows : r.at <= 2 * day + 1}
Trends(rows) == [d \in {Day(r.at) : r \in rows} |-> Total({r \in rows : Day(r.at) = d})]

(* breakdown: the cost of a row is shared out among its strategies. *)
Shares(row) == IF row.names = {} THEN {"unknown"} ELSE row.names
ByStrategy(rows) ==
  [n \in UNION {Shares(r) : r \in rows} |->
     MapThenSumSet(LAMBDA r : Known(r.cost) \div Cardinality(Shares(r)),
                   {r \in rows : n \in Shares(r)})]

SumOf(f) == MapThenSumSet(LAMBDA x : f[x], DOMAIN f)

(* task_cost: a number, or nothing where no call has a known cost. *)
TaskCost(s) ==
  IF s \notin Recorded THEN job[s].spent
  ELSE LET rows == Of(Rows, s)
       IN IF Complete(rows) \/ \E r \in rows : r.cost # Unknown THEN Total(rows) ELSE Unknown

UnitLevel(u) == job["evaluations"].level[u]
Levelled == {u \in Units : UnitLevel(u) # NoLevel}
Priced == job["evaluations"].done \ job["evaluations"].unpriced
PricedOf(level) == {u \in Priced : UnitLevel(u) = level}

(* budget_usage: what an evaluation spent is spread over the known         *)
(* difficulties of its problems, what a call spent has its own.            *)
LevelUse(rows, level) ==
  MapThenSumSet(
    LAMBDA r :
      IF r.source = "evaluations"
      THEN IF Levelled = {} THEN 0
           ELSE (Known(r.cost) * Cardinality({u \in Levelled : UnitLevel(u) = level}))
                  \div Cardinality(Levelled)
      ELSE IF r.level = level THEN Known(r.cost) ELSE 0,
    rows)

---------------------------------------------------------------------------
(* The state. *)

NewJob == [status |-> "pending", begun |-> FALSE, tracked |-> TRUE, spent |-> 0,
           level |-> [u \in Units |-> NoLevel], done |-> {}, unpriced |-> {}]

NewQuery == [kind |-> "none", pc |-> "idle", rows |-> {}, budget |-> NoBudget,
             used |-> [l \in Levels |-> 0], floor |-> 0, gaps |-> 0,
             levels |-> [l \in Levels |-> 0]]

TypeOK ==
  /\ \A s \in Works :
       /\ job[s].status \in {"pending", "running", "completed", "failed"}
       /\ job[s].begun \in BOOLEAN /\ job[s].tracked \in BOOLEAN
       /\ job[s].spent \in {Unknown} \cup Nat
       /\ job[s].unpriced \subseteq job[s].done /\ job[s].done \subseteq Units
  /\ budget \in [set : BOOLEAN, cap : {NoCap} \cup Caps, levels : [Levels -> {NoCap} \cup Caps]]
  /\ writes \in 0..MaxWrites
  /\ \A r \in record : r.source \in Recorded /\ r.cost \in {Unknown, Amount}
  /\ query.kind \in Queries \cup {"none"}
  /\ query.pc \in {"idle", "limits", "evaluations", "benchmarks", "records", "gaps",
                   "metrics", "answered"}
  /\ query.floor \in Nat /\ query.gaps \in Nat /\ query.used \in [Levels -> Nat]

(* The jobs wait or are at work; an experiment may be from before its      *)
(* calls were recorded.                                                    *)
Init ==
  /\ \E old, begun \in BOOLEAN, level \in [Units -> Levels \cup {NoLevel}] :
       job = [s \in Works |->
                [NewJob EXCEPT !.status = IF begun THEN "running" ELSE "pending",
                               !.begun = begun,
                               !.tracked = ~(old /\ s = "experiments"),
                               !.level = IF s = "evaluations" THEN level ELSE @]]
  /\ record = {}
  /\ budget = NoBudget
  /\ writes = 0
  /\ query = NewQuery

---------------------------------------------------------------------------
(* The work, as it reaches the database. *)

Start(s) ==
  /\ job[s].status = "pending"
  /\ job' = [job EXCEPT ![s].status = "running", ![s].begun = TRUE]
  /\ UNCHANGED <<record, budget, query>>

(* Paused and resumed: in the queue again. *)
Requeue(s) ==
  /\ s \in Recorded /\ job[s].status = "running"
  /\ job' = [job EXCEPT ![s].status = "pending"]
  /\ UNCHANGED <<record, budget, query>>

(* A benchmark's cost is known, or not, when it completes. *)
Finish(s, status) ==
  /\ job[s].status = "running"
  /\ \E cost \in IF s = "benchmarks" /\ status = "completed" THEN {Unknown, Amount}
                 ELSE {job[s].spent} :
       job' = [job EXCEPT ![s].status = status, ![s].spent = cost]
  /\ UNCHANGED <<record, budget, query>>

(* A unit of the evaluation: its result and what it spent, committed       *)
(* together. Without a price or a usage its cost is 0.0 and cost_unknown.   *)
FinishUnit(u, cost) ==
  /\ job["evaluations"].status = "running" /\ u \notin job["evaluations"].done
  /\ job' = [job EXCEPT !["evaluations"].done = @ \cup {u},
                        !["evaluations"].unpriced = IF cost = Unknown THEN @ \cup {u} ELSE @,
                        !["evaluations"].spent = @ + Known(cost)]
  /\ UNCHANGED <<record, budget, query>>

Add(s, cost, at, level, reason) ==
  record' = record \cup {[source |-> s, n |-> Cardinality(record) + 1, cost |-> cost,
                          at |-> at, level |-> level, reason |-> reason]}

(* A provider call of an experiment or an A/B test. *)
Call(s, cost, level) ==
  /\ s \in Recorded /\ job[s].status = "running" /\ Cardinality(record) < MaxRecords
  /\ Add(s, cost, 2 * writes + 1, level, IF cost = Unknown THEN "missing_pricing" ELSE "none")
  /\ UNCHANGED <<job, budget, query>>

(* The record of a call could not be written: the job is marked. *)
CallUnrecorded(s) ==
  /\ s \in Recorded /\ job[s].status = "running"
  /\ job' = [job EXCEPT ![s].tracked = FALSE, ![s].status = "failed"]
  /\ UNCHANGED <<record, budget, query>>

(* backfill_spend: an experiment without recorded calls is imported from   *)
(* its files, once, and stays marked.                                      *)
Backfill(partial) ==
  /\ ~job["experiments"].tracked /\ job["experiments"].begun
  /\ \A r \in record : r.source # "experiments"
  /\ Cardinality(record) < MaxRecords
  /\ Add("experiments", Amount, 0, NoLevel,
         IF partial THEN "historical_partial" ELSE "none")
  /\ UNCHANGED <<job, budget, query>>

---------------------------------------------------------------------------
(* The budget. *)

(* A replacement says everything. *)
Replace(cap, levels) ==
  /\ budget' = [set |-> TRUE, cap |-> cap, levels |-> levels]
  /\ UNCHANGED <<job, record, query>>

(* A patch keeps what it does not name. The first one makes the row. *)
Patch(cap, levels) ==
  /\ budget' = [set |-> TRUE,
                cap |-> IF cap = NoCap THEN budget.cap ELSE cap,
                levels |-> IF levels = NoLevels THEN budget.levels ELSE levels]
  /\ UNCHANGED <<job, record, query>>

---------------------------------------------------------------------------
(* The queries: one statement at a time. What was charged before a query   *)
(* begins, and how many of its records, benchmarks and jobs have no known  *)
(* cost, is remembered as floor, levels and gaps.                          *)

Settled == IF job["benchmarks"].status = "completed" THEN Known(job["benchmarks"].spent) ELSE 0
Charged ==
  Amount * Cardinality(Priced) + Settled
    + MapThenSumSet(LAMBDA r : Known(r.cost), record)
LevelCharged(level) ==
  Amount * Cardinality(PricedOf(level))
    + MapThenSumSet(LAMBDA r : IF r.level = level THEN Known(r.cost) ELSE 0, record)
Hidden ==
  Cardinality({s \in Recorded : job[s].begun /\ ~job[s].tracked})
    + Cardinality({r \in record : r.reason # "none"})
    + (IF job["benchmarks"].status = "completed" /\ job["benchmarks"].spent = Unknown
       THEN 1 ELSE 0)

Ask(kind) ==
  /\ query.pc = "idle"
  /\ query' = [NewQuery EXCEPT
                 !.kind = kind,
                 !.pc = IF kind = "dispatch" THEN "limits" ELSE "evaluations",
                 !.floor = Charged, !.gaps = Hidden,
                 !.levels = [l \in Levels |-> LevelCharged(l)]]
  /\ UNCHANGED <<job, record, budget, writes>>

(* No budget, no limits: execution_budget says None. *)
ReadLimits ==
  /\ query.pc = "limits"
  /\ query' = [query EXCEPT
                 !.budget = budget,
                 !.pc = IF query.kind = "dispatch" /\ budget # NoBudget THEN "evaluations"
                        ELSE "answered"]
  /\ UNCHANGED <<job, record, budget, writes>>

Read(pc, rows, next) ==
  /\ query.pc = pc
  /\ query' = [query EXCEPT !.rows = @ \cup rows, !.pc = next]
  /\ UNCHANGED <<job, record, budget, writes>>

ReadEvaluations == Read("evaluations", EvaluationRows, "benchmarks")
ReadBenchmarks == Read("benchmarks", BenchmarkRows, "records")
ReadRecords == Read("records", RecordRows, "gaps")
ReadGaps ==
  Read("gaps", GapRows,
       CASE query.kind = "report" -> "answered"
         [] query.kind = "usage" -> "limits"
         [] query.kind = "dispatch" -> "metrics")

(* The difficulties with a cap: what their recorded calls and the results  *)
(* of the evaluations cost.                                                *)
ReadMetrics ==
  /\ query.pc = "metrics"
  /\ query' = [query EXCEPT
                 !.used = [l \in Levels |->
                             IF query.budget.levels[l] = NoCap THEN 0
                             ELSE Total({r \in query.rows : r.level = l})
                                    + Amount * Cardinality(PricedOf(l))],
                 !.pc = "answered"]
  /\ UNCHANGED <<job, record, budget, writes>>

GlobalReached == query.budget.cap # NoCap /\ Total(query.rows) >= query.budget.cap
Exhausted ==
  {l \in Levels : query.budget.levels[l] # NoCap /\ query.used[l] >= query.budget.levels[l]}

Write ==
  \/ \E s \in Works : Start(s) \/ Requeue(s) \/ CallUnrecorded(s)
  \/ \E s \in Works, status \in {"completed", "failed"} : Finish(s, status)
  \/ \E u \in Units, cost \in {Unknown, Amount} : FinishUnit(u, cost)
  \/ \E s \in Recorded, cost \in {Unknown, Amount}, l \in Levels \cup {NoLevel} :
       Call(s, cost, l)
  \/ \E partial \in BOOLEAN : Backfill(partial)
  \/ \E cap \in {NoCap} \cup Caps, levels \in [Levels -> {NoCap} \cup Caps] :
       Replace(cap, levels) \/ Patch(cap, levels)

Next ==
  \/ Write /\ query.pc # "answered" /\ writes < MaxWrites /\ writes' = writes + 1
  \/ \E kind \in Queries : Ask(kind)
  \/ ReadLimits \/ ReadEvaluations \/ ReadBenchmarks \/ ReadRecords \/ ReadGaps \/ ReadMetrics

Spec == Init /\ [][Next]_vars

---------------------------------------------------------------------------
(* Every report of the same rows comes to the same sum, a day belongs to   *)
(* one period, and the tasks, one by one, cost what the summary says       *)
(* (summary, trends, breakdown, task_cost, _period).                       *)
ReportsAgree ==
  /\ SumOf(BySource(query.rows)) = Total(query.rows)
  /\ SumOf(Trends(query.rows)) = Total(query.rows)
  /\ SumOf(ByStrategy(query.rows)) = Total(query.rows)
  /\ \A d \in 0..MaxWrites :
       Total(Until(query.rows, d)) + Total(Since(query.rows, d + 1)) = Total(query.rows)
  /\ MapThenSumSet(LAMBDA s : IF s = "benchmarks" /\ job[s].status # "completed" THEN 0
                              ELSE Known(TaskCost(s)), Works) = Charged

(* A report holds the known amounts on file when it was asked for, each    *)
(* once, and nothing that was not charged by the end. It is called          *)
(* complete only when before it no recorded call and no benchmark had an    *)
(* unknown cost and no job had calls without a record. Units of an          *)
(* evaluation are not among these: a report that counts one of unknown      *)
(* cost as nothing may be called complete                                   *)
(* (_collect_spend_rows, _completeness).                                   *)
ReportIsTrue ==
  query.pc = "answered" /\ (query.kind = "dispatch" => query.budget # NoBudget) =>
    /\ query.floor <= Total(query.rows) /\ Total(query.rows) <= Charged
    /\ Complete(query.rows) => query.gaps = 0

(* A limit that was reached when the unit was about to be dispatched stops *)
(* it, and the estimate per difficulty never passes what was spent         *)
(* (execution_budget, budget_usage).                                       *)
LimitIsSeen ==
  /\ query.pc = "answered" /\ query.kind = "dispatch" /\ query.budget # NoBudget =>
       /\ query.budget.cap # NoCap /\ query.floor >= query.budget.cap => GlobalReached
       /\ \A l \in Levels :
            query.budget.levels[l] # NoCap /\ query.levels[l] >= query.budget.levels[l]
              => l \in Exhausted
  /\ MapThenSumSet(LAMBDA l : LevelUse(query.rows, l), Levels) <= Total(query.rows)

BooksAreTrue == ReportsAgree /\ ReportIsTrue /\ LimitIsSeen
=============================================================================
