----------------------------- MODULE RunReport -----------------------------
(***************************************************************************)
(* What a run of the harness reports of its units (harness.py: the rows    *)
(* collected per strategy or per problem, the reports and their costs;     *)
(* failure_classifier.py, failure_report.py: why problems failed) and what *)
(* is recommended from it (evaluation_history.py, recommender.py). Units   *)
(* end in any order while the run is cut short, cancelled or done; how     *)
(* they are executed is TaskService's and Solve's.                         *)
(***************************************************************************)
EXTENDS Integers, Sequences, FiniteSets, SequencesExt, FiniteSetsExt

CONSTANTS
  Kinds,       \* of "fixed", "selector" and "plain", the runs considered
  Limit        \* how many problems are recommended

VARIABLES
  kind,        \* with fixed strategies, one by difficulty, or without tasks
  state,       \* of the run
  unit         \* of each unit, what became of it

vars == <<kind, state, unit>>

None == "none"

(* The dataset of the run, and the larger one recommendations are from.    *)
Problems == 1..2
Dataset == 1..5
Level == <<"hard", "easy", "hard", "easy", "easy">>
Tags == <<{"dp"}, {"dp", "graph"}, {"dp"}, {"graph"}, {"dp", "graph"}>>
Formal == <<FALSE, TRUE, FALSE, FALSE, FALSE>>
Configured == {"cot", "vanilla"}
(* CostAwareSelector *)
Select(p) == IF Level[p] = "hard" THEN "cot" ELSE "vanilla"

(* One unit for each strategy and problem, or for each problem; without    *)
(* tasks the problems follow one another (one strategy is enough).         *)
Units ==
  CASE kind = "fixed" -> Configured \X Problems
    [] kind = "selector" -> {<<Select(p), p>> : p \in Problems}
    [] kind = "plain" -> {"vanilla"} \X Problems

---------------------------------------------------------------------------
(* Why a problem failed. *)

(* What is known of a failure: what was said of it, and the tests with the *)
(* size of their input, in the stage that failed.                          *)
TestRows == [passed : BOOLEAN, tiny : BOOLEAN]
Evidence(signal, tests, stage, marked) ==
  [signal |-> signal, tests |-> tests, stage |-> stage, marked |-> marked]
NoEvidence == Evidence(None, <<>>, "visible", FALSE)
Said(signal) == Evidence(signal, <<>>, "visible", FALSE)

(* _boundary_evidence: a failed test that is named so, or a tiny input     *)
(* that fails where an ordinary one passes; hidden inputs are not looked   *)
(* at, nor any where a test ran out of memory.                             *)
Boundary(e) ==
  /\ e.signal # "memory_error"
  /\ \E i \in DOMAIN e.tests : ~e.tests[i].passed
  /\ \/ e.marked
     \/ /\ e.stage = "visible"
        /\ \E i, j \in DOMAIN e.tests : /\ ~e.tests[i].passed /\ e.tests[i].tiny
                                        /\ e.tests[j].passed /\ ~e.tests[j].tiny

(* classify_failure_mode: the first of these that there is evidence for. *)
Causes == <<
  <<"model_error", "infrastructure_error">>, <<"syntax_error", "syntax_error">>,
  <<"timeout", "timeout">>, <<"sandbox_error", "infrastructure_error">>,
  <<"syntax_message", "syntax_error">>, <<"timeout_message", "timeout">>,
  <<"contract_message", "understanding_error">>, <<"type_mismatch", "understanding_error">>,
  <<"boundary", "boundary_condition">>, <<"runtime_error", "runtime_error">>,
  <<"memory_error", "runtime_error">>,
  <<"infrastructure_message", "infrastructure_error">>, <<"wrong_answer", "logic_error">> >>
Signals == {Causes[i][1] : i \in DOMAIN Causes} \ {"boundary"}
Modes == {Causes[i][2] : i \in DOMAIN Causes} \cup {"unknown"}

ClassifyFailureMode(e) ==
  LET found == {i \in DOMAIN Causes :
                  Causes[i][1] = e.signal \/ (Causes[i][1] = "boundary" /\ Boundary(e))}
  IN IF found = {} THEN "unknown" ELSE Causes[Min(found)][2]

(* _annotate_failure_mode *)
NotFailed == {"success", "budget_exhausted", "unsupported", "cancelled"}
Annotate(row) ==
  IF ~row.completed \/ row.status \in NotFailed THEN row
  ELSE [row EXCEPT !.mode = ClassifyFailureMode(row.evidence)]

---------------------------------------------------------------------------
(* The rows. A cost is that of the calls, not all of them priced, or there *)
(* was no call.                                                            *)

Free == [calls |-> FALSE, known |-> 0, all |-> TRUE]
Paid == [calls |-> TRUE, known |-> 1, all |-> TRUE]
Unpriced == [calls |-> TRUE, known |-> 1, all |-> FALSE]

Row(status, category, hidden, evidence, cost) ==
  [status |-> status, category |-> category, completed |-> TRUE, hidden |-> hidden,
   evidence |-> evidence, cost |-> cost, mode |-> None]
NoRow == [Row(None, None, None, NoEvidence, Free) EXCEPT !.completed = FALSE]

Solved(p, cost) ==
  Row("success", None, IF Formal[p] THEN "passed" ELSE None, NoEvidence, cost)
(* _execute_problem, and a budget that is spent. *)
Outcomes(p) ==
  {Solved(p, Paid), Solved(p, Unpriced),
   Row("failed", "wrong_answer", None, Said("wrong_answer"), Paid),
   Row("error", "system_error", None, Said("infrastructure_message"), Free),
   Row("failed", "model_error", None, Said("model_error"), Unpriced),
   Row("budget_exhausted", None, None, NoEvidence, Free),
   Row("unsupported", "unsupported", None, NoEvidence, Free)}
  \cup (IF Formal[p] THEN {Row("failed", "wrong_answer", "failed", Said("wrong_answer"), Paid)}
        ELSE {})
(* Bound: of two strategies one has only the outcomes whose cost is known. *)
Possible(u) == IF kind = "fixed" /\ u[1] = "vanilla"
               THEN {row \in Outcomes(u[2]) : row.cost = Paid} ELSE Outcomes(u[2])
(* Bound: the evidence varies for the first problem of a plain run, which  *)
(* has two tests, one of them failed.                                      *)
OddOutcomes ==
  {Row("failed", "wrong_answer", None, e, Paid) : e \in
     {Said(s) : s \in Signals \cup {None}} \cup
     {Evidence(signal, tests, stage, marked) :
        signal \in {None, "wrong_answer", "runtime_error", "memory_error", "timeout"},
        tests \in {<<f, t>> : f \in {r \in TestRows : ~r.passed}, t \in TestRows}, stage \in {"visible", "hidden"}, marked \in BOOLEAN}}

Queued == [status |-> "queued", row |-> NoRow]
Ended(status, row) == [status |-> status, row |-> row]

TypeOK ==
  /\ kind \in Kinds
  /\ state \in {"running", "paused", "cancelled", "completed", "failed"}
  /\ \A u \in Units : unit[u].status \in {"queued", "completed", "failed", "cancelled"}

Init ==
  /\ kind \in Kinds
  /\ state = "running"
  /\ unit = [u \in Units |-> Queued]

InOrder(u) == kind = "plain" => \A v \in Units : v[2] < u[2] => unit[v].status # "queued"

Finish(u, row) ==
  /\ state = "running" /\ unit[u] = Queued /\ InOrder(u)
  /\ unit' = [unit EXCEPT ![u] = Ended("completed", row)]
  /\ UNCHANGED <<kind, state>>

(* The worker of a unit is lost with its result. *)
Lose(u) ==
  /\ state = "running" /\ unit[u] = Queued /\ kind # "plain"
  /\ unit' = [unit EXCEPT ![u] = Ended("failed", NoRow)]
  /\ UNCHANGED <<kind, state>>

(* The budget's cap is reached, or a pause requested. *)
Pause ==
  /\ state = "running" /\ \E u \in Units : unit[u] = Queued
  /\ state' = "paused"
  /\ UNCHANGED <<kind, unit>>

Cancel ==
  /\ state = "running" /\ kind # "plain" /\ \E u \in Units : unit[u] = Queued
  /\ state' = "cancelled"
  /\ unit' = [u \in Units |-> IF unit[u] = Queued THEN Ended("cancelled", NoRow) ELSE unit[u]]
  /\ UNCHANGED kind

Complete ==
  /\ state = "running" /\ \A u \in Units : unit[u] # Queued
  /\ state' = IF \E u \in Units : unit[u].status = "failed" THEN "failed" ELSE "completed"
  /\ UNCHANGED <<kind, unit>>

Next ==
  \/ \E u \in Units, row \in Outcomes(1) \cup Outcomes(2) :
       row \in Possible(u) /\ Finish(u, row)
  \/ /\ kind = "plain" /\ unit[<<"vanilla", 1>>] = Queued
     /\ \E row \in OddOutcomes : Finish(<<"vanilla", 1>>, row)
  \/ \E u \in Units : Lose(u)
  \/ Pause \/ Cancel \/ Complete

Spec == Init /\ [][Next]_vars

---------------------------------------------------------------------------
(* The reports of a run that ended. *)

(* _collect_cost_aware_results, _run_with_task_service: a unit without a   *)
(* result has a row that says so.                                          *)
Placeholder(u) ==
  LET unrun == state = "paused" /\ unit[u].status = "queued"
  IN [NoRow EXCEPT
        !.status = IF unrun \/ unit[u].status = "cancelled" THEN "cancelled" ELSE "error",
        !.category = IF unrun THEN None ELSE "system_error"]
RowOf(u) == Annotate(IF unit[u].row # NoRow THEN unit[u].row ELSE Placeholder(u))

(* The groups of rows: a strategy's, or all of them under one name. *)
Groups == CASE kind = "fixed" -> Configured [] kind = "selector" -> {"cost_aware"}
            [] kind = "plain" -> {"vanilla"}
UnitOf(g, p) == IF kind = "selector" THEN <<Select(p), p>> ELSE <<g, p>>

(* results, in the order of the dataset: those of a plain run end where it *)
(* was cut.                                                                *)
Listed(g) ==
  IF kind = "plain" THEN SelectSeq(<<1, 2>>, LAMBDA p : unit[UnitOf(g, p)] # Queued) ELSE <<1, 2>>
(* The report of a paused run leaves out what was not run. *)
Ran(g, p) == unit[UnitOf(g, p)].status # "queued"
Reported(g) == SelectSeq(Listed(g), LAMBDA p : state = "paused" => Ran(g, p))
Denominator(g) == IF kind = "plain" THEN <<1, 2>> ELSE Reported(g)

CountIf(ps, Test(_)) == Cardinality({i \in DOMAIN ps : Test(ps[i])})
SumOf(ps, f(_)) == FoldSeq(LAMBDA p, n : n + f(p), 0, ps)

(* _estimate_cost *)
EstimateCost(g, ps) ==
  [total |-> SumOf(ps, LAMBDA p : RowOf(UnitOf(g, p)).cost.known),
   unknown |-> \E i \in DOMAIN ps : LET cost == RowOf(UnitOf(g, ps[i])).cost
                                    IN ~cost.calls \/ ~cost.all]

(* _calculate_by_difficulty *)
ByDifficulty(g, ps) ==
  [level \in {Level[ps[i]] : i \in DOMAIN ps} |->
     LET here == SelectSeq(ps, LAMBDA p : Level[p] = level)
     IN [total |-> Len(here),
         solved |-> CountIf(here, LAMBDA p : RowOf(UnitOf(g, p)).status = "success"),
         cost |-> SumOf(here, LAMBDA p : RowOf(UnitOf(g, p)).cost.known)]]

(* _generate_report: the formal verdicts are paired with the problems by   *)
(* their place.                                                            *)
Report(g) ==
  LET ps == Reported(g)
      all == Denominator(g)
      R(p) == RowOf(UnitOf(g, p))
      paired == 1..(IF Len(ps) < Len(all) THEN Len(ps) ELSE Len(all))
  IN [total |-> Len(all),
      solved |-> CountIf(ps, LAMBDA p : R(p).status = "success"),
      modelFailed |-> CountIf(ps, LAMBDA p : R(p).category = "model_error"),
      systemFailed |-> CountIf(ps, LAMBDA p : R(p).category = "system_error"),
      formal |-> Cardinality({i \in paired : Formal[all[i]] /\ R(ps[i]).hidden = "passed"}),
      cost |-> EstimateCost(g, ps),
      levels |-> ByDifficulty(g, ps)]

(* summarize_failure_modes: of all rows that are saved, those that were    *)
(* evaluated.                                                              *)
SavedUnits == UNION {{UnitOf(g, Listed(g)[i]) : i \in DOMAIN Listed(g)} : g \in Groups}
Evaluated ==
  {u \in SavedUnits : RowOf(u).completed /\ RowOf(u).status \in {"success", "failed", "error"}}
Failed == {u \in Evaluated : RowOf(u).status # "success"}
Categories ==
  LET mode == [u \in Failed |-> RowOf(u).mode]
  IN [m \in Modes |-> Cardinality({u \in DOMAIN mode : mode[u] = m})]
ByTag(tag) == [evaluated |-> Cardinality({u \in Evaluated : tag \in Tags[u[2]]}),
               failed |-> Cardinality({u \in Failed : tag \in Tags[u[2]]})]

---------------------------------------------------------------------------
(* The recommendation. *)

(* is_completed_evaluation, is_solved_evaluation *)
History ==
  {u \in SavedUnits : /\ RowOf(u).completed
                      /\ RowOf(u).status \notin {"budget_exhausted", "unsupported", "cancelled"}}
Unsolved(u) == ~(RowOf(u).status = "success" /\ RowOf(u).hidden # "failed")

(* _group_keys: difficulty, each tag, all tags, and difficulty with tags.  *)
GroupKeys(p) == {<<"level", Level[p]>>, <<"tags", Tags[p]>>, <<"both", Level[p], Tags[p]>>}
                \cup {<<"tag", t>> : t \in Tags[p]}
AllKeys == UNION {GroupKeys(p) : p \in Problems}
Worse(a, b) == \/ a.failed * b.total > b.failed * a.total
               \/ a.failed * b.total = b.failed * a.total /\ a.failed > b.failed
(* analyze: the groups of which half or more failed (min_samples is 1).    *)
Weaknesses(history) ==
  LET InGroup(k) == {u \in history : k \in GroupKeys(u[2])}
      rate == [k \in AllKeys |-> [failed |-> Cardinality({u \in InGroup(k) : Unsolved(u)}),
                               total |-> Cardinality(InGroup(k))]]
  IN [k \in {g \in AllKeys : rate[g].total > 0 /\ 2 * rate[g].failed >= rate[g].total} |-> rate[k]]

(* _recommend: of what is not known, the worst groups first, then those in *)
(* more of them, then the order of the ids; easy problems are told first.  *)
Candidates(history, weak) ==
  {p \in Dataset \ {u[2] : u \in history} : GroupKeys(p) \cap DOMAIN weak # {}}
Score(p, weak) ==
  LET keys == GroupKeys(p) \cap DOMAIN weak
  IN [rate |-> weak[CHOOSE k \in keys : \A j \in keys : ~Worse(weak[j], weak[k])],
      matches |-> Cardinality(keys)]
Before(a, b, p, q) ==
  \/ Worse(a.rate, b.rate)
  \/ /\ ~Worse(b.rate, a.rate)
     /\ a.matches > b.matches \/ (a.matches = b.matches /\ p < q)
Easier(p, q) == Level[p] = "easy" /\ Level[q] = "hard"
Recommended(candidates, score) ==
  LET Sooner(p, q) == Before(score[p], score[q], p, q)
      chosen == {p \in candidates :
                   Cardinality({q \in candidates \ {p} : Sooner(q, p)}) < Limit}
  IN SetToSortSeq(chosen, LAMBDA p, q : Easier(p, q) \/ (~Easier(q, p) /\ Sooner(p, q)))

(* _estimate_cost of the recommender: the mean of what is known. *)
Priced(level) == {u \in History : Level[u[2]] = level /\ RowOf(u).cost.calls /\ RowOf(u).cost.all}
Estimate(p) == IF Priced(Level[p]) = {} THEN None ELSE "mean"

---------------------------------------------------------------------------
Over == state # "running"

(* A report adds up: every problem it counts is counted in its difficulty  *)
(* with its cost, no failure is both the model's and the system's, the     *)
(* formal verdicts are the problems' own, and a cost that is not flagged   *)
(* has left nothing out (_generate_report, _estimate_cost).                *)
ReportsAddUp ==
  Over => \A g \in Groups :
    LET r == Report(g)
        levels == DOMAIN r.levels
    IN /\ MapThenSumSet(LAMBDA l : r.levels[l].solved, levels) = r.solved
       /\ MapThenSumSet(LAMBDA l : r.levels[l].cost, levels) = r.cost.total
       /\ MapThenSumSet(LAMBDA l : r.levels[l].total, levels) = Len(Reported(g))
       /\ r.solved + r.modelFailed + r.systemFailed <= r.total
       /\ r.formal = Cardinality({p \in Problems : /\ Formal[p] /\ p \in ToSet(Reported(g))
                                                   /\ RowOf(UnitOf(g, p)).hidden = "passed"})
       /\ r.formal <= r.solved
       /\ ~r.cost.unknown => \A p \in ToSet(Reported(g)) : RowOf(UnitOf(g, p)).cost = Paid

(* A unit that was not evaluated counts for nothing: not in the report of  *)
(* a paused run, nor in the failure modes, nor as a problem that is known; *)
(* what was evaluated is the same for all of them (Placeholder,            *)
(* summarize_failure_modes, is_completed_evaluation).                      *)
UnrunIsNothing ==
  Over =>
    /\ \A u \in Units : unit[u].row = NoRow => u \notin Evaluated \cup History
    /\ History = Evaluated
    /\ state = "paused" /\ kind # "plain" => \A g \in Groups :
         Report(g).total = Cardinality({p \in Problems : Ran(g, p)})
    /\ state # "paused" => \A g \in Groups : Len(Reported(g)) = Report(g).total

(* Every failure has one mode, a success none; the modes of the summary    *)
(* are the failures; and what happens in a hidden test tells no more than  *)
(* its name (classify_failure_mode, summarize_failure_modes).              *)
FailuresAreExplained ==
  Over =>
    /\ LET count == Categories
       IN MapThenSumSet(LAMBDA m : count[m], Modes) = Cardinality(Failed)
    /\ \A u \in SavedUnits : RowOf(u).mode # None => u \in Failed
    /\ \A t \in {"dp", "graph"} : ByTag(t).failed <= ByTag(t).evaluated
    /\ \A u \in Failed : LET e == RowOf(u).evidence
                         IN e.stage = "hidden" /\ ~e.marked => RowOf(u).mode # "boundary_condition"

(* What is recommended was never evaluated, has a group that failed, and   *)
(* left nothing worse out; easy problems come first; its cost is not made  *)
(* up (analyze, _recommend).                                               *)
RecommendationIsFair ==
  Over =>
    LET history == History
        weak == Weaknesses(history)
        candidates == Candidates(history, weak)
        score == [p \in candidates |-> Score(p, weak)]
        list == Recommended(candidates, score)
        left == candidates \ ToSet(list)
    IN /\ left = {} \/ Len(list) = Limit
       /\ \A i \in DOMAIN list :
            LET p == list[i]
            IN /\ \A u \in Evaluated : u[2] # p
               /\ \E u \in history : Unsolved(u) /\ GroupKeys(u[2]) \cap GroupKeys(p) # {}
               /\ \A q \in left : ~Worse(score[q].rate, score[p].rate)
               /\ \A j \in 1..i-1 : ~Easier(p, list[j])
               /\ Estimate(p) = None \/ \E u \in history : /\ Level[u[2]] = Level[p]
                                                           /\ RowOf(u).cost = Paid

ReportsAreTrue ==
  ReportsAddUp /\ UnrunIsNothing /\ FailuresAreExplained /\ RecommendationIsFair
=============================================================================
