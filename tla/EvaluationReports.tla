------------------------- MODULE EvaluationReports -------------------------
(***************************************************************************)
(* What an evaluation stores of its units and what is read of them         *)
(* (src/tasks/evaluation.py: _resolve_execution_context, _freeze_problem,  *)
(* _make_worker, _record_unit_result; evaluation_results_service.py: the   *)
(* detail, the analytics and their filters, the charts, the comparisons;   *)
(* capability_profiler.py). There is one problem; a unit is a run and a    *)
(* strategy. The problem is edited, uploaded by the owner and removed      *)
(* while runs are paused, lose their worker, resume and are read.          *)
(***************************************************************************)
EXTENDS Integers, FiniteSets, Functions

CONSTANTS
  Units,         \* the owner's: <<evaluation, strategy>>
  Models,
  MaxEdits,      \* bound: changes of the problem
  MaxStops       \* bound: pauses and lost workers

VARIABLES
  public,   \* the problem in the shared table
  upload,   \* the owner's own version of it
  ev,       \* the evaluations: [status, model, old, problem]
  unit,     \* the checkpoint: [state, snap, outcome]
  row,      \* the stored results
  edits, stops

vars == <<public, upload, ev, unit, row, edits, stops>>

Runs == {u[1] : u \in Units}
UnitsOf(e) == {u \in Units : u[1] = e}

None == "none"
Grades == {"easy", "hard"}
Tags == {"dp", "memoization", "misc"}
(* TAG_TO_DIMENSION *)
Dimension == [t \in Tags |-> IF t \in {"dp", "memoization"} THEN "Dynamic Programming" ELSE None]

(* A version that can be run has a difficulty; a row of the table may lack *)
(* what a version needs, and still have its difficulty and tags.           *)
Version(valid, level, tags) == [valid |-> valid, level |-> level, tags |-> tags]
Absent == Version(FALSE, None, {})
Versions ==
  {Version(TRUE, "easy", {"dp", "memoization"}), Version(TRUE, "hard", {"misc"}),
   Version(FALSE, "easy", {"misc"}), Absent}

(* _freeze_problem and _problem_metadata: what a unit keeps of its problem *)
NoSnap == [kept |-> FALSE, runs |-> FALSE, level |-> None, tags |-> {}]
Freeze(v) == [kept |-> TRUE, runs |-> v.valid,
              level |-> IF v.valid THEN v.level ELSE None,
              tags |-> IF v.valid THEN v.tags ELSE {}]

(* How a unit ended: a result with a cost or without, or no result.        *)
Unknown == -1
Ended(status, cost) == [status |-> status, cost |-> cost]
Lost == Ended("lost", 0)
Outcomes == {Ended("success", 1), Ended("failed", Unknown)}
NotEnded == Ended(None, 0)

NewUnit == [state |-> "new", snap |-> NoSnap, outcome |-> NotEnded, level |-> None, tags |-> {}]
NoRow == [status |-> None, level |-> None, snap |-> NoSnap, cost |-> 0, iterations |-> 0,
          level0 |-> None, tags0 |-> {}]

TypeOK ==
  /\ public \in Versions /\ upload \in Versions
  /\ \A e \in Runs : /\ ev[e].status \in {"pending", "running", "paused", "completed", "failed"}
                            /\ ev[e].model \in Models /\ ev[e].problem \in Versions
  /\ \A u \in Units : /\ unit[u].state \in {"new", "queued", "done"}
                      /\ unit[u].outcome \in Outcomes \cup {Lost, NotEnded}
                      /\ row[u].status \in {None, "success", "failed"}
  /\ edits \in 0..MaxEdits /\ stops \in 0..MaxStops

(* An evaluation may have been paused by a version that kept no snapshots. *)
(* Models are interchangeable: that of the first evaluation is fixed.      *)
Init ==
  /\ public \in {v \in Versions : v.valid}
  /\ upload = Absent
  /\ \E model \in [Runs -> Models], old \in [Runs -> BOOLEAN] :
       /\ \A e \in Runs : old[e] => \A f \in Runs : e <= f
       /\ model[1] = CHOOSE md \in Models : TRUE
       /\ ev = [e \in Runs |-> [status |-> IF old[e] THEN "paused" ELSE "pending",
                                       model |-> model[e], problem |-> Absent]]
       /\ unit = [u \in Units |-> IF old[u[1]] THEN [NewUnit EXCEPT !.state = "queued"]
                                  ELSE NewUnit]
  /\ row = [u \in Units |-> NoRow]
  /\ edits = 0
  /\ stops = 0

---------------------------------------------------------------------------
(* The problem. *)

EditProblem(v) ==
  /\ edits < MaxEdits
  /\ edits' = edits + 1
  /\ \/ v # public /\ public' = v /\ UNCHANGED upload
     \/ v # upload /\ upload' = v /\ UNCHANGED public
  /\ UNCHANGED <<ev, unit, row, stops>>

(* _resolve_execution_context: the owner's version first, even if it       *)
(* cannot be run.                                                          *)
Resolved == IF upload # Absent THEN upload ELSE public

---------------------------------------------------------------------------
(* The worker. *)

(* _record_unit_result: a row is written over, but keeps the snapshot it   *)
(* was first given; it is inserted once.                                   *)
Recorded(u, checked, outcome) ==
  LET snap == IF row[u].snap.kept THEN row[u].snap ELSE checked
  IN [status |-> IF outcome.status = "lost" THEN "failed" ELSE outcome.status,
      snap |-> snap,
      level |-> IF snap.kept THEN snap.level
                ELSE IF outcome.status = "lost" THEN None ELSE unit[u].level,
      cost |-> outcome.cost,
      iterations |-> IF outcome.status = "lost" THEN 0 ELSE 1,
      level0 |-> unit[u].level, tags0 |-> unit[u].tags]

(* A task begins, or begins again: the problem is resolved, the units are  *)
(* made with their snapshots, or are those of the checkpoint, and the      *)
(* results of the checkpoint are stored again.                             *)
Begin(e) ==
  /\ ev[e].status \in {"pending", "paused"}
  /\ ev' = [ev EXCEPT ![e].status = "running", ![e].problem = Resolved]
  /\ unit' = [u \in Units |-> IF u[1] = e /\ unit[u].state = "new"
                              THEN [unit[u] EXCEPT !.state = "queued", !.snap = Freeze(Resolved)]
                              ELSE unit[u]]
  /\ LET done == {u \in UnitsOf(e) : unit[u].state = "done"}
     IN row' = [u \in Units |-> IF u \in done THEN Recorded(u, unit[u].snap, unit[u].outcome)
                                ELSE row[u]]
  /\ UNCHANGED <<public, upload, edits, stops>>

(* on_unit_started: an old checkpoint's unit gets its snapshot now. The    *)
(* worker runs what the snapshot holds; a unit that cannot be run fails.   *)
(* The outcome is in the checkpoint before it is in the table, and there   *)
(* before the next unit begins (max_workers=1).                            *)
Settle(u, outcome) ==
  /\ ev[u[1]].status = "running" /\ unit[u].state = "queued"
  /\ \A v \in UnitsOf(u[1]) : unit[v].state = "done" => row[v] # NoRow
  /\ LET snap == IF unit[u].snap.kept THEN unit[u].snap ELSE Freeze(ev[u[1]].problem)
     IN /\ outcome \in IF snap.runs THEN Outcomes ELSE {Lost}
        /\ unit' = [unit EXCEPT ![u] = [state |-> "done", snap |-> snap, outcome |-> outcome,
                                        level |-> snap.level, tags |-> snap.tags]]
  /\ UNCHANGED <<public, upload, ev, row, edits, stops>>

Store(u) ==
  /\ ev[u[1]].status = "running" /\ unit[u].state = "done" /\ row[u] = NoRow
  /\ row' = [row EXCEPT ![u] = Recorded(u, unit[u].snap, unit[u].outcome)]
  /\ UNCHANGED <<public, upload, ev, unit, edits, stops>>

(* A pause, or the loss of the worker. *)
Stop(e) ==
  /\ ev[e].status = "running" /\ stops < MaxStops
  /\ stops' = stops + 1
  /\ ev' = [ev EXCEPT ![e].status = "paused"]
  /\ UNCHANGED <<public, upload, unit, row, edits>>

(* A unit without a result fails the evaluation. *)
Complete(e) ==
  /\ ev[e].status = "running" /\ \A u \in UnitsOf(e) : row[u] # NoRow
  /\ ev' = [ev EXCEPT ![e].status = IF \E u \in UnitsOf(e) : unit[u].outcome = Lost
                                    THEN "failed" ELSE "completed"]
  /\ UNCHANGED <<public, upload, unit, row, edits, stops>>

---------------------------------------------------------------------------
(* The reports. *)

Stored == {u \in Units : row[u] # NoRow}
StoredOf(e) == Stored \cap UnitsOf(e)
Completed == {e \in Runs : ev[e].status = "completed"}

(* _effective_difficulty, _tag_labels: what the unit kept, then what its   *)
(* metrics say, then the table.                                            *)
Difficulty(u) ==
  IF row[u].snap.kept THEN row[u].snap.level
  ELSE IF row[u].level # None THEN row[u].level ELSE public.level
TagsOf(u) == IF row[u].snap.kept THEN row[u].snap.tags ELSE public.tags

(* _analytics_pairs: the units in scope that pass the filters. *)
Passes(u, name, level, tag) ==
  /\ name # None => u[2] = name
  /\ level # None => Difficulty(u) = level
  /\ tag # None => tag \in TagsOf(u)
Pairs(e, name, level, tag) ==
  {u \in IF e = 0 THEN UNION {StoredOf(f) : f \in Completed} ELSE StoredOf(e) :
     Passes(u, name, level, tag)}

(* _matching_unit_exists: the same in SQL, for the list of runs. A null    *)
(* matches nothing.                                                        *)
Matches(u, name, level, tag) ==
  /\ name # None => u[2] = name
  /\ level # None =>
       \/ row[u].snap.kept /\ row[u].snap.level = level
       \/ ~row[u].snap.kept /\ (row[u].level = level \/ (row[u].level = None /\ public.level = level))
  /\ tag # None => \/ row[u].snap.kept /\ tag \in row[u].snap.tags
                   \/ ~row[u].snap.kept /\ tag \in public.tags
Listed(name, level, tag) ==
  IF name = None /\ level = None /\ tag = None THEN Runs
  ELSE {e \in Runs : \E u \in StoredOf(e) : Matches(u, name, level, tag)}

(* aggregate, _rate_bucket, _known_cost, _iterations_payload. *)
Solved(S) == {u \in S : row[u].status = "success"}
Rate(S) == [solved |-> Cardinality(Solved(S)), total |-> Cardinality(S)]
Cost(S) == [usd |-> Cardinality({u \in S : row[u].cost = 1}),
            unknown |-> Cardinality({u \in S : row[u].cost = Unknown})]
Iterations(S) == [known |-> {u \in S : row[u].iterations > 0},
                  unknown |-> {u \in S : row[u].iterations = 0}]
ByDifficulty(S) == [l \in {Difficulty(u) : u \in S} \ {None} |-> Rate({u \in S : Difficulty(u) = l})]
ByTag(S) == [t \in UNION {TagsOf(u) : u \in S} |-> Rate({u \in S : t \in TagsOf(u)})]
Aggregate(S) ==
  [n \in {u[2] : u \in S} |->
     LET T == {u \in S : u[2] = n}
     IN [rate |-> Rate(T), cost |-> Cost(T), difficulty |-> ByDifficulty(T)]]

Failures(S) == {u \in S : row[u].status # "success"}

(* compare_models *)
ModelsOf(es) == [md \in {ev[e].model : e \in es} |->
                   Aggregate(UNION {StoredOf(e) : e \in {f \in es : ev[f].model = md}})]

(* capability_radar: results are joined to the version of the problem they *)
(* ran, known by its tags, and counted once per dimension.                 *)
VersionsOf(S) == {TagsOf(u) : u \in S}
Classified(tags) == {Dimension[t] : t \in tags} \ {None}
Radar(S) ==
  [md \in {ev[u[1]].model : u \in S} |->
     [d \in UNION {Classified(v) : v \in VersionsOf(S)} |->
        Rate({u \in S : ev[u[1]].model = md /\ d \in Classified(TagsOf(u))})]]
ProblemCounts(S) == [d \in UNION {Classified(v) : v \in VersionsOf(S)} |->
                       Cardinality({v \in VersionsOf(S) : d \in Classified(v)})]

Next ==
  \/ \E v \in Versions : EditProblem(v)
  \/ \E e \in Runs : Begin(e) \/ Stop(e) \/ Complete(e)
  \/ \E u \in Units, outcome \in Outcomes \cup {Lost} : Settle(u, outcome)
  \/ \E u \in Units : Store(u)

Spec == Init /\ [][Next]_vars

---------------------------------------------------------------------------
(* A unit is reported under the version of the problem it was run with,    *)
(* and a unit that could not be run under none, whatever becomes of the    *)
(* problem, however often the run stops and its results are stored again   *)
(* (_record_unit_result, _effective_difficulty, _tag_labels).              *)
ReportedAsRun ==
  \A u \in Stored : /\ Difficulty(u) = row[u].level0 /\ TagsOf(u) = row[u].tags0
                    /\ row[u].status = "success" => row[u].level0 # None

(* A run is listed under a filter exactly when its analytics have          *)
(* something to show under it (_matching_unit_exists, _analytics_pairs).   *)
FiltersAgree ==
  \A e \in Runs : LET S == StoredOf(e) IN
    \A n \in {u[2] : u \in S} \cup {None}, l \in Grades \cup {None}, t \in {"dp", "misc", None} :
      (n # None \/ l # None \/ t # None) =>
        (e \in Listed(n, l, t) <=> \E u \in S : Passes(u, n, l, t))

SumRates(f) == [solved |-> FoldFunction(LAMBDA r, x : r.solved + x, 0, f),
                total |-> FoldFunction(LAMBDA r, x : r.total + x, 0, f)]

(* The detail, the comparison of models, the radar and the analytics of    *)
(* everything completed count the same units, each once (aggregate,        *)
(* compare_models, capability_radar).                                      *)
ReportsAgree ==
  LET all == Pairs(0, None, None, None)
      models == ModelsOf(Completed)
  IN /\ \A e \in Completed : StoredOf(e) = UnitsOf(e)
     /\ SumRates([md \in DOMAIN models |->
                    SumRates([n \in DOMAIN models[md] |-> models[md][n].rate])]) = Rate(all)
     /\ \A e \in Runs :
          LET detail == Aggregate(StoredOf(e))
          IN \A n \in DOMAIN detail :
               LET T == Pairs(e, n, None, None)
               IN /\ detail[n].rate = Rate(T)
                  /\ SumRates(detail[n].difficulty) = Rate({u \in T : Difficulty(u) # None})
                  /\ detail[n].rate.solved + Cardinality(Failures(T)) = Cardinality(T)
                  /\ Failures(T) \subseteq Iterations(T).known \cup Iterations(T).unknown
     /\ \A md \in DOMAIN Radar(all), d \in DOMAIN ProblemCounts(all) :
          Radar(all)[md][d].total <= Cardinality({u \in all : ev[u[1]].model = md})

ReportsAreTrue == ReportedAsRun /\ FiltersAgree /\ ReportsAgree
=============================================================================
