------------------------------- MODULE Solve -------------------------------
(***************************************************************************)
(* One problem solved by one strategy: its model calls, each refused,      *)
(* failed or answered, the visible tests its code is put to, the result it *)
(* reports (src/strategies, src/strategy_base.py) and the hidden stage the *)
(* harness adds (src/harness.py). What a model answers and how a sandbox   *)
(* run ends are choices: a code may pass now and time out the next time.   *)
(* The status "failed" stands for error and unsupported too, "failure" for *)
(* every category.                                                         *)
(***************************************************************************)
EXTENDS Integers, Sequences, FiniteSets, FiniteSetsExt

CONSTANTS
  Codes,      \* programs a model may answer with
  None,       \* no code could be extracted
  Strategies, \* "single" (vanilla, chain of thought, few-shot), "rounds",
              \* "reflexion", "votes" (self-consistency), "tree" (of thoughts)
  MaxRounds   \* max_iterations, num_candidates; for a tree, bound: its calls

VARIABLES
  strategy,
  shape,   \* the stages the problem has: public, feedback, hidden tests
  pc,      \* call, reflect, pick, report, hidden, done
  rounds,  \* the iterations: code, how its visible tests ended, a failed call
  refused, \* the budget refused a call
  result   \* the ExecutionResult: status, code, category, how the hidden stage ended

solveVars == <<strategy, shape, pc, rounds, refused, result>>

(* How a code's visible tests end: passed, failed in any way, an exception *)
(* (it lacks the entry point), or none to run. Voting runs public tests    *)
(* only, and is told so when there are none.                               *)
Ends(code) ==
  CASE code = None -> {"none"}
    [] code # None /\ strategy = "votes" /\ "public" \notin shape -> {"failed"}
    [] code # None /\ strategy # "votes" /\ shape = {"hidden"} -> {"untested"}
    [] OTHER -> {"passed", "failed", "raised"}

Good(end) == end \in {"passed", "untested"}
Round(code, end, error) == [code |-> code, end |-> end, error |-> error]
Last == IF rounds = <<>> THEN Round(None, "none", FALSE) ELSE rounds[Len(rounds)]
Votes(c) == {i \in 1 .. Len(rounds) : rounds[i].code = c /\ rounds[i].end = "passed"}
Passing  == {c \in Codes : Votes(c) # {}}

(* A failed call, or an answer whose code is run. *)
Iterate ==
  \/ rounds' = Append(rounds, Round(None, "none", TRUE))
  \/ \E code \in Codes \cup {None} : \E end \in Ends(code) :
       rounds' = Append(rounds, Round(code, end, FALSE))

(* Goes on, to next, unless it is over or out of rounds. *)
Continues(over, next) == pc' = IF over \/ Len(rounds') = MaxRounds THEN "report" ELSE next

(* vanilla, chain_of_thought, few_shot_learning: one call. *)
Single == strategy = "single" /\ Iterate /\ pc' = "report"

(* multi_round_feedback: a failed call ends it, failed tests do not, nor an *)
(* exception of the sandbox.                                                *)
MultiRound ==
  strategy = "rounds" /\ Iterate /\ Continues(Last'.error \/ Good(Last'.end), "call")

(* reflexion: any exception ends it; else it reflects, and then goes on.   *)
Reflexion ==
  /\ strategy = "reflexion" /\ Iterate
  /\ Continues(Last'.error \/ Last'.end = "raised" \/ Good(Last'.end), "reflect")

(* self_consistency: every candidate is asked for, and tested. *)
Candidate == strategy = "votes" /\ Iterate /\ Continues(FALSE, "call")

(* tree_of_thoughts: a call branches (its codes are run only when picked)  *)
(* or scores; it goes on while there is a branch to follow.                *)
Think ==
  /\ strategy = "tree" /\ Len(rounds) < MaxRounds - 1
  /\ \/ rounds' = Append(rounds, Round(None, "none", TRUE))
     \/ \E code \in Codes \cup {None} : rounds' = Append(rounds, Round(code, "none", FALSE))
  /\ pc' \in {"call", "pick"}

Call ==
  /\ pc = "call" /\ (Single \/ MultiRound \/ Reflexion \/ Candidate \/ Think)
  /\ UNCHANGED <<strategy, shape, refused, result>>

(* _reflect: its failure does not matter. *)
Reflect ==
  /\ pc = "reflect" /\ pc' = "call" /\ UNCHANGED <<strategy, shape, rounds, refused, result>>

(* _extract_best_solution: the best leaf with code is tested; the run is    *)
(* noted like an iteration.                                                 *)
Pick ==
  /\ pc = "pick" \/ (pc = "call" /\ strategy = "tree" /\ Len(rounds) = MaxRounds - 1)
  /\ pc' = "report"
  /\ \/ rounds' = Append(rounds, Round(None, "none", FALSE))
     \/ \E i \in 1 .. Len(rounds) : \E end \in Ends(rounds[i].code) :
          rounds' = Append(rounds, Round(rounds[i].code, end, FALSE))
  /\ UNCHANGED <<strategy, shape, refused, result>>

(* BudgetExhausted, for a call or a reflection. A strategy of one call     *)
(* still records its iteration; a tree picks from what it has.             *)
Refuse ==
  /\ pc \in {"call", "reflect"} /\ refused' = TRUE
  /\ pc' = IF strategy = "tree" THEN "pick" ELSE "report"
  /\ rounds' = IF strategy = "single" THEN <<Round(None, "none", FALSE)>> ELSE rounds
  /\ UNCHANGED <<strategy, shape, result>>

(* _vote_on_candidates: the code that passed most often, the first of      *)
(* equals; without one, the last candidate's.                              *)
Elected ==
  IF Passing = {} THEN Last.code
  ELSE CHOOSE c \in Passing : \A d \in Passing :
         LET more == Cardinality(Votes(c)) - Cardinality(Votes(d))
         IN  more > 0 \/ (more = 0 /\ Min(Votes(c)) <= Min(Votes(d)))

(* Slip: the last iteration's code is reported, whatever the vote. *)
ReportsLast == Last.code

(* generated_code: the last iteration's, or what the vote elected. *)
Reports == IF strategy = "votes" THEN Elected ELSE Last.code

Success == IF strategy = "votes" THEN Passing # {} ELSE Good(Last.end)

(* create_execution_result, _derive_failure_category, mark_budget_exhausted. *)
Report ==
  /\ pc = "report" /\ pc' = "hidden"
  /\ result' = [status |-> CASE refused -> "budget_exhausted" [] ~refused /\ Success -> "success"
                             [] OTHER -> "failed",
                code |-> Reports, hidden |-> "none",
                category |-> IF refused \/ Success THEN "none" ELSE "failure"]
  /\ UNCHANGED <<strategy, shape, rounds, refused>>

(* _execute_problem: what the hidden stage is asked about. *)
Judges == "hidden" \in shape /\ result.code # None /\ result.status # "budget_exhausted"

Hidden ==
  /\ pc = "hidden" /\ pc' = "done"
  /\ \/ ~Judges /\ UNCHANGED result
     \/ Judges /\ result' = [result EXCEPT !.hidden = "passed"]
     \/ Judges /\ result' = [result EXCEPT !.hidden = "failed", !.status = "failed",
                                           !.category = "failure"]
  /\ UNCHANGED <<strategy, shape, rounds, refused>>

(* An exception the strategy does not catch: the harness's own result. *)
Break ==
  /\ pc = "call" /\ pc' = "done"
  /\ result' = [status |-> "failed", code |-> None, hidden |-> "none", category |-> "failure"]
  /\ UNCHANGED <<strategy, shape, rounds, refused>>

Init ==
  /\ strategy \in Strategies /\ shape \in SUBSET {"public", "feedback", "hidden"} \ {{}}
  /\ pc = "call" /\ rounds = <<>> /\ refused = FALSE
  /\ result = [status |-> "none", code |-> None, hidden |-> "none", category |-> "none"]

Next == Call \/ Reflect \/ Pick \/ Refuse \/ Report \/ Hidden \/ Break
Spec == Init /\ [][Next]_solveVars

---------------------------------------------------------------------------
(* Properties *)

TypeOK ==
  /\ Len(rounds) <= MaxRounds /\ result.code \in Codes \cup {None}
  /\ result.status \in {"none", "success", "failed", "budget_exhausted"}
  /\ pc \in {"call", "reflect", "pick", "report", "hidden", "done"}

(* A problem counts as solved only with a code that itself passed the      *)
(* visible tests its strategy ran, and the hidden ones when there are any, *)
(* whichever of several codes the strategy reports; a refused call makes   *)
(* it neither solved nor failed: exactly the results it cut short say so,  *)
(* without a category and unjudged by the hidden tests.                    *)
ResultIsEarned == pc = "done" =>
  /\ result.status = "success" =>
       /\ \E i \in 1 .. Len(rounds) : rounds[i].code = result.code /\ Good(rounds[i].end)
       /\ "hidden" \in shape => result.hidden = "passed"
  /\ refused <=> result.status = "budget_exhausted"
  /\ refused => result.hidden = "none"
  /\ result.category = "failure" <=> result.status = "failed"
=============================================================================
