----------------------------- MODULE ThoughtTree ----------------------------
(***************************************************************************)
(* The search of a tree of thoughts (src/strategies/tree_of_thoughts.py):  *)
(* a node is taken from the queue or the stack, the model is asked for     *)
(* branches and then to rate each of them, the poor ones are pruned, and   *)
(* the best leaf is put to the visible tests. Every call may be refused by *)
(* the budget, fail, or answer. A score is a level in 0..Top.              *)
(***************************************************************************)
EXTENDS Integers, Sequences, FiniteSets

CONSTANTS
  Searches,    \* "bfs", "dfs"
  Branching,   \* branching_factor
  MaxDepth,    \* max_depth
  Top,         \* the level of a score of 1
  Neutral,     \* the level of a score that could not be had: 0.5
  Threshold    \* pruning_threshold

VARIABLES
  search,
  node,     \* the nodes made, the root first: [parent, depth, score, rated, kept]
  open,     \* the queue or the stack
  cur,      \* the node being expanded
  next,     \* the next branch to be rated
  pc,       \* take, branch, rate, prune, report, done
  call,     \* the records of the calls: [type, node]
  stop,     \* a call was refused
  broke,    \* a request for branches failed
  result    \* the node whose code is the answer, and how its tests ended

vars == <<search, node, open, cur, next, pc, call, stop, broke, result>>

Root == [parent |-> 0, depth |-> 0, score |-> Top, rated |-> TRUE, kept |-> TRUE]
NoResult == [node |-> 0, status |-> "none"]

Nodes == 1..Len(node)
Children(n) == {m \in Nodes : node[m].parent = n /\ node[m].kept}
Branches == {m \in Nodes : node[m].parent = cur}

TypeOK ==
  /\ search \in Searches
  /\ \A n \in Nodes : node[n] \in [parent : 0..Len(node), depth : 0..MaxDepth,
                                   score : 0..Top, rated : BOOLEAN, kept : BOOLEAN]
  /\ \A i \in DOMAIN open : open[i] \in Nodes
  /\ cur \in 0..Len(node) /\ next \in 0..Len(node) + 1
  /\ pc \in {"take", "branch", "rate", "prune", "report", "done"}
  /\ stop \in BOOLEAN /\ broke \in BOOLEAN
  /\ result \in [node : 0..Len(node),
                 status : {"none", "no_code", "passed", "failed", "untested", "raised"}]

Init ==
  /\ search \in Searches
  /\ node = <<Root>>
  /\ open = <<1>>
  /\ cur = 0
  /\ next = 0
  /\ pc = "take"
  /\ call = <<>>
  /\ stop = FALSE
  /\ broke = FALSE
  /\ result = NoResult

---------------------------------------------------------------------------
(* A call that reached the provider leaves a record (_generate_recorded). *)
Recorded(type, n) == call' = Append(call, [type |-> type, node |-> n])

Take ==
  /\ pc = "take" /\ open # <<>>
  /\ LET n == IF search = "bfs" THEN Head(open) ELSE open[Len(open)]
     IN /\ cur' = n
        /\ open' = IF search = "bfs" THEN Tail(open) ELSE SubSeq(open, 1, Len(open) - 1)
        /\ pc' = IF node[n].depth >= MaxDepth THEN "take" ELSE "branch"
  /\ UNCHANGED <<search, node, next, call, stop, broke, result>>

NothingOpen ==
  /\ pc = "take" /\ open = <<>>
  /\ pc' = "report"
  /\ UNCHANGED <<search, node, open, cur, next, call, stop, broke, result>>

(* The sections of the answer that have code, no more than were asked for  *)
(* (_parse_branches_from_response).                                        *)
Branch(n) == [parent |-> n, depth |-> node[n].depth + 1, score |-> 0, rated |-> FALSE,
              kept |-> FALSE]

BranchAnswered(k) ==
  /\ pc = "branch"
  /\ Recorded("branch_generation", cur)
  /\ node' = node \o [i \in 1..k |-> Branch(cur)]
  /\ next' = Len(node) + 1
  /\ pc' = IF k = 0 THEN "take" ELSE "rate"
  /\ UNCHANGED <<search, open, cur, stop, broke, result>>

(* Any failure ends the search. *)
BranchFailed ==
  /\ pc = "branch"
  /\ Recorded("branch_generation", cur)
  /\ broke' = TRUE /\ pc' = "report"
  /\ UNCHANGED <<search, node, open, cur, next, stop, result>>

BranchRefused ==
  /\ pc = "branch"
  /\ stop' = TRUE /\ pc' = "report"
  /\ UNCHANGED <<search, node, open, cur, next, call, broke, result>>

(* evaluate_node: a failed call and an answer that cannot be read are      *)
(* neutral; a refusal too, and it leaves the branches after it as they are.*)
Rate(score) == node' = [node EXCEPT ![next].score = score, ![next].rated = TRUE]

RateAnswered(score) ==
  /\ pc = "rate"
  /\ Recorded("node_evaluation", next)
  /\ Rate(score)
  /\ next' = next + 1
  /\ pc' = IF next = Len(node) THEN "prune" ELSE "rate"
  /\ UNCHANGED <<search, open, cur, stop, broke, result>>

RateRefused ==
  /\ pc = "rate"
  /\ Rate(Neutral)
  /\ stop' = TRUE /\ pc' = "prune"
  /\ UNCHANGED <<search, open, cur, next, call, broke, result>>

(* prune_branches; those kept are opened, on a stack the last first. *)
KeptBranches ==
  LET kept == {m \in Branches : node[m].score >= Threshold}
      Rank(m) == Cardinality({l \in kept : l <= m})
      Backward(m) == Cardinality({l \in kept : l >= m})
  IN [k \in 1..Cardinality(kept) |->
        CHOOSE m \in kept : k = IF search = "bfs" THEN Rank(m) ELSE Backward(m)]

Prune ==
  /\ pc = "prune"
  /\ node' = [m \in Nodes |-> IF m \in Branches
                              THEN [node[m] EXCEPT !.kept = node[m].score >= Threshold]
                              ELSE node[m]]
  /\ open' = open \o KeptBranches
  /\ pc' = IF stop THEN "report" ELSE "take"
  /\ UNCHANGED <<search, cur, next, call, stop, broke, result>>

(* _extract_best_solution: of the leaves that have code, the first of the  *)
(* best; its visible tests, if there are any, decide.                      *)
Leaves ==
  {n \in Nodes : n # 1 /\ node[n].kept /\ (Children(n) = {} \/ node[n].depth >= MaxDepth)}
Best ==
  CHOOSE n \in Leaves :
    \A m \in Leaves : \/ node[m].score < node[n].score
                      \/ node[m].score = node[n].score /\ n <= m

Report ==
  /\ pc = "report"
  /\ IF Leaves = {} THEN result' = [node |-> 0, status |-> "no_code"]
     ELSE \E status \in {"passed", "failed", "untested", "raised"} :
            result' = [node |-> Best, status |-> status]
  /\ pc' = "done"
  /\ UNCHANGED <<search, node, open, cur, next, call, stop, broke>>

Next ==
  \/ Take \/ NothingOpen \/ BranchFailed \/ BranchRefused
  \/ \E k \in 0..Branching : BranchAnswered(k)
  \/ \E score \in 0..Top : RateAnswered(score)
  \/ RateRefused \/ Prune \/ Report

Spec == Init /\ [][Next]_vars

---------------------------------------------------------------------------
CallsOf(type, n) == {i \in DOMAIN call : call[i].type = type /\ call[i].node = n}

(* No node is paid for twice, a refusal ends the calls, and every node is  *)
(* rated before the next is expanded: the records are the calls made       *)
(* (search_tree, _generate_recorded).                                      *)
CallsAreCounted ==
  /\ \A n \in Nodes : /\ Cardinality(CallsOf("branch_generation", n)) <= 1
                      /\ Cardinality(CallsOf("node_evaluation", n)) <= 1
  /\ stop => pc \in {"prune", "report", "done"}
  /\ pc \in {"take", "branch"} => \A n \in Nodes \ {1} : CallsOf("node_evaluation", n) # {}

(* A search that nothing cut short has expanded all it kept above the last *)
(* depth, a shallower node before a deeper one when breadth comes first    *)
(* (search_tree).                                                          *)
SearchIsWhole ==
  /\ pc \in {"report", "done"} /\ ~stop /\ ~broke =>
       \A n \in Nodes : node[n].kept /\ node[n].depth < MaxDepth
                          => CallsOf("branch_generation", n) # {}
  /\ search = "bfs" =>
       \A i, j \in DOMAIN call : i < j => node[call[i].node].depth <= node[call[j].node].depth + 1

(* The answer was reached through thoughts that were all rated and kept,   *)
(* and no leaf was rated higher, wherever the search was cut               *)
(* (prune_branches, _extract_best_solution).                               *)
AnswerWasRated ==
  result.node # 0 =>
    /\ Threshold > 0 => node[result.node].rated
    /\ LET up[n \in 0..Len(node)] ==
             n = 0 \/ (node[n].kept /\ node[n].score >= Threshold /\ up[node[n].parent])
       IN up[result.node]
    /\ \A n \in Nodes \ {1} : node[n].rated /\ node[n].score > node[result.node].score
                                => Children(n) # {} /\ node[n].depth < MaxDepth

TreeIsSearched == CallsAreCounted /\ SearchIsWhole /\ AnswerWasRated
=============================================================================
