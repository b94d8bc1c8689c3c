------------------------------- MODULE Advice -------------------------------
(***************************************************************************)
(* What the finished runs say about what to buy next: the analysis of cost *)
(* against accuracy (src/pareto.py), the ranking, the recommendations and  *)
(* the plan for a budget (src/cost_optimizer.py), and the advice of the    *)
(* service, which pools the runs of one combination                        *)
(* (cost_optimization_report). Runs are added one by one; the advice is a  *)
(* function of them. A finished run has one result per layer, the one      *)
(* stored last. Fractions are pairs of integers.                           *)
(***************************************************************************)
EXTENDS Integers, Sequences, FiniteSets, FiniteSetsExt

CONSTANTS
  Combos,      \* the combinations of a model and a strategy: 1..n
  Layers,      \* the difficulties, one problem each
  MaxHistory,  \* bound: runs
  Budgets,     \* what may be spent
  Bars         \* the least accuracies that are asked for, in per cent

VARIABLE history           \* the runs, in order: [combo, solved, cost, whole]

vars == <<history>>

Unknown == -1
Results ==
  {[ok |-> FALSE, cost |-> c] : c \in {Unknown, 1}}
    \cup {[ok |-> TRUE, cost |-> c] : c \in {Unknown, 0, 1}}

(* _evaluation_sample: the cost of a run is known only when that of every  *)
(* planned unit is.                                                        *)
CostOf(unit) ==
  IF \A l \in Layers : unit[l].cost # Unknown
  THEN MapThenSumSet(LAMBDA l : unit[l].cost, Layers)
  ELSE Unknown

Init == history = <<>>

(* The runs of a combination come together. *)
AddRun(combo, unit) ==
  /\ Len(history) < MaxHistory
  /\ history # <<>> => history[Len(history)].combo <= combo
  /\ history' = Append(history, [combo |-> combo,
                                 solved |-> {l \in Layers : unit[l].ok},
                                 cost |-> CostOf(unit),
                                 whole |-> \A l \in Layers : unit[l].cost # Unknown])

Next == \E c \in Combos, u \in [Layers -> Results] : AddRun(c, u)

Spec == Init /\ [][Next]_vars

TypeOK ==
  /\ Len(history) <= MaxHistory
  /\ \A i \in 1..Len(history) :
       history[i] \in [combo : Combos, solved : SUBSET Layers, cost : {Unknown} \cup Nat,
                       whole : BOOLEAN]

---------------------------------------------------------------------------
(* Fractions, and the best of a set by a strict order. *)

Less(x, y) == x[1] * y[2] < y[1] * x[2]
AtMost(x, y) == x[1] * y[2] <= y[1] * x[2]
Same(x, y) == x[1] * y[2] = y[1] * x[2]
Tops(S, Better(_, _)) == {p \in S : \A q \in S : ~Better(q, p)}

---------------------------------------------------------------------------
(* The runs. *)

Asked == Cardinality(Layers)
Runs == 1..Len(history)
RunsOf(c) == {i \in Runs : history[i].combo = c}
Known(S) == \A i \in S : history[i].cost # Unknown
CostSum(S) == MapThenSumSet(LAMBDA i : history[i].cost, S)
SolvedSum(S) == MapThenSumSet(LAMBDA i : Cardinality(history[i].solved), S)

---------------------------------------------------------------------------
(* build_pareto_analysis: one run of unknown cost excludes its             *)
(* combination; the repeats count the same.                                *)

Points == {c \in Combos : RunsOf(c) # {} /\ Known(RunsOf(c))}
Cost(c) == <<CostSum(RunsOf(c)), Cardinality(RunsOf(c))>>
Accuracy(c) == <<SolvedSum(RunsOf(c)), Asked * Cardinality(RunsOf(c))>>

Dominates(q, p) ==
  /\ AtMost(Cost(q), Cost(p)) /\ AtMost(Accuracy(p), Accuracy(q))
  /\ Less(Cost(q), Cost(p)) \/ Less(Accuracy(p), Accuracy(q))

Frontier == {p \in Points : \A q \in Points : ~Dominates(q, p)}

Positive == {p \in Frontier : SolvedSum(RunsOf(p)) > 0}
Free == {p \in Positive : CostSum(RunsOf(p)) = 0}
Value(p) == <<SolvedSum(RunsOf(p)), Asked * CostSum(RunsOf(p))>>

(* More for the money, then more accurate, then cheaper. *)
BetterValue(q, p) ==
  \/ Less(Value(p), Value(q))
  \/ Same(Value(p), Value(q)) /\ Less(Accuracy(p), Accuracy(q))
  \/ Same(Value(p), Value(q)) /\ Same(Accuracy(p), Accuracy(q)) /\ Less(Cost(q), Cost(p))

(* best_value: what costs nothing and solves something comes first. *)
BestValues ==
  IF Free # {} THEN Tops(Free, LAMBDA q, p : Less(Accuracy(p), Accuracy(q)))
  ELSE Tops(Positive, BetterValue)

(* budget_recommendations *)
Within(budget) == {p \in Frontier : AtMost(Cost(p), <<budget, 1>>)}
MoreAccurate(q, p) ==
  \/ Less(Accuracy(p), Accuracy(q))
  \/ Same(Accuracy(p), Accuracy(q)) /\ Less(Cost(q), Cost(p))
ForBudget(budget) == Tops(Within(budget), MoreAccurate)

---------------------------------------------------------------------------
(* cost_optimizer: a row per entry of a comparison, S the runs of the      *)
(* entry. A ratio needs a known cost that is not zero.                     *)

RowAccuracy(S) == <<SolvedSum(S), Asked * Cardinality(S)>>
Available(S) == Known(S) /\ CostSum(S) > 0
Ratio(S) == <<SolvedSum(S), CostSum(S)>>

(* rank_combinations; recommend under the three objectives. *)
Ranked(rows) == {S \in rows : Available(S)}
MostAccurate(rows) ==
  Tops(Ranked(rows),
       LAMBDA q, p : \/ Less(RowAccuracy(p), RowAccuracy(q))
                     \/ Same(RowAccuracy(p), RowAccuracy(q)) /\ Less(Ratio(p), Ratio(q)))
BestRatio(rows) == Tops(Ranked(rows), LAMBDA q, p : Less(Ratio(p), Ratio(q)))
Cheapest(rows, bar) ==
  Tops({S \in Ranked(rows) : AtMost(<<bar, 100>>, RowAccuracy(S))},
       LAMBDA q, p : \/ CostSum(q) < CostSum(p)
                     \/ CostSum(q) = CostSum(p) /\ Less(RowAccuracy(p), RowAccuracy(q)))

Pooled == {RunsOf(c) : c \in {d \in Combos : RunsOf(d) # {}}}
Entries == {{i} : i \in Runs}

(* optimize_budget: layer by layer, the entry of the highest ratio (then   *)
(* accuracy on the layer) whose accuracy there is enough, if what remains  *)
(* of the budget pays for it. The record of the layer is that of the first *)
(* entry of the combination, and the cost of the entry is shared out among *)
(* all the problems of all its repeats.                                    *)
First(c) == CHOOSE i \in RunsOf(c) : \A j \in RunsOf(c) : i <= j
LayerSolved(i, l) == IF l \in history[First(history[i].combo)].solved THEN 1 ELSE 0
LayerCost(i) == <<history[i].cost, Asked * Cardinality(RunsOf(history[i].combo))>>

Candidates(l, bar) ==
  {i \in Runs : Available({i}) /\ AtMost(<<bar, 100>>, <<LayerSolved(i, l), 1>>)}
Choice(l, bar) ==
  CHOOSE i \in Candidates(l, bar) :
    \A j \in Candidates(l, bar) \ {i} :
      \/ Less(Ratio({j}), Ratio({i}))
      \/ /\ Same(Ratio({j}), Ratio({i}))
         /\ \/ LayerSolved(j, l) < LayerSolved(i, l)
            \/ LayerSolved(j, l) = LayerSolved(i, l) /\ i < j

Plus(x, y) == <<x[1] * y[2] + y[1] * x[2], x[2] * y[2]>>

(* The layers paid for, one after the other, and what they cost together. *)
Pay(plan, l, budget, bar) ==
  IF Candidates(l, bar) = {} THEN plan
  ELSE LET sum == Plus(plan.cost, LayerCost(Choice(l, bar)))
       IN IF AtMost(sum, <<budget, 1>>)
          THEN [paid |-> plan.paid \cup {l}, cost |-> sum] ELSE plan
Plan(order, budget, bar) ==
  LET plan[k \in 0..Len(order)] ==
        IF k = 0 THEN [paid |-> {}, cost |-> <<0, 1>>]
        ELSE Pay(plan[k - 1], order[k], budget, bar)
  IN plan[Len(order)]

Orders == {o \in [1..Asked -> Layers] : \A l \in Layers : \E k \in 1..Asked : o[k] = l}

---------------------------------------------------------------------------
(* What is off the frontier is beaten by something on it, so looking at    *)
(* the frontier alone misses neither the best value nor the most accurate  *)
(* choice within a budget (build_pareto_analysis).                         *)
FrontierIsEnough ==
  /\ \A p \in Points \ Frontier : \E q \in Frontier : Dominates(q, p)
  /\ Free = {} =>
       \A b \in BestValues, p \in {q \in Points : SolvedSum(RunsOf(q)) > 0} :
         ~Less(Value(b), Value(p))
  /\ \A budget \in Budgets : \A b \in ForBudget(budget), p \in Points :
       AtMost(Cost(p), <<budget, 1>>) => ~MoreAccurate(p, b)

(* Nothing whose cost is not fully known is advised, by anyone             *)
(* (_observation, _combo_rows, _evaluation_sample).                        *)
AdviceIsKnown ==
  \A S \in {RunsOf(p) : p \in BestValues \cup UNION {ForBudget(b) : b \in Budgets}}
            \cup BestRatio(Pooled) \cup MostAccurate(Pooled)
            \cup UNION {Cheapest(Pooled, bar) : bar \in Bars} :
    \A i \in S : history[i].whole

(* Where nothing that is known comes free, the two advisers name the same  *)
(* best value (best_value, recommend).                                     *)
AdvisersAgree ==
  (\A p \in Points : CostSum(RunsOf(p)) > 0) /\ Positive # {} =>
    \A b \in BestValues : RunsOf(b) \in BestRatio(Pooled)

(* A plan stays within its budget, in whatever order the layers come     *)
(* (optimize_budget).                                                      *)
PlanIsPaid ==
  \A o \in Orders, bar \in Bars, budget \in Budgets :
    AtMost(Plan(o, budget, bar).cost, <<budget, 1>>)

AdviceIsSound == FrontierIsEnough /\ AdviceIsKnown /\ AdvisersAgree /\ PlanIsPaid
=============================================================================
