----------------------------- MODULE SandboxStage -----------------------------
(***************************************************************************)
(* One stage of tests of one program (src/src/sandbox_executor.py): a      *)
(* command for each test, in a container or as a child process, what is    *)
(* left behind, the comparison of the output and the status of the stage.  *)
(* How a command is bounded is BoundedRun's; what the program does is a    *)
(* choice. An output is known by which of its items equal which expected.  *)
(***************************************************************************)
EXTENDS Naturals, Sequences

CONSTANTS
  NTests,   \* tests of the stage
  Size      \* items of an output and of what is expected

VARIABLES
  backend, order,  \* of the configuration: where it runs, and "exact" or "unordered"
  profile,   \* whether memory is profiled, which any failure ends
  stagePc,
  tests,     \* the results so far: status of each
  output,    \* what the command of the present test came to
  match,     \* the search for a matching
  left,      \* what the present and earlier commands left behind
  status,    \* of the stage
  truth      \* history: what the program really did, by test, and docker's own faults

stageVars == <<backend, order, profile, stagePc, tests, output, match, left, status, truth>>

Items == 1 .. Size
NoOutput == [kind |-> "none", equal |-> [i \in Items |-> {}], slow |-> FALSE]
NoMatch  == [at |-> 0, of |-> [i \in Items |-> 0], found |-> TRUE]

Resource == {"backend_unavailable", "timeout", "memory_error", "output_limit", "process_limit"}
(* Ends that Docker's limits bring about, and an image that is gone. *)
OnlyDocker == {"memory", "processes", "image"}

Smallest(S) == CHOOSE x \in S : \A y \in S : x <= y

---------------------------------------------------------------------------
(* The comparison *)

(* A search: the item to be placed, what it equals and was not tried with, *)
(* and the matching, the items visited and the outcome.                    *)
SearchArguments ==
  [item : Items, todo : SUBSET Items,
   s : [of : [Items -> 0 .. Size], seen : SUBSET Items, ok : BOOLEAN]]

(* Slip: an item that is taken stays taken. *)
FindMatchGreedy(equal, a, s) ==
  LET free == {e \in equal[a] : s.of[e] = 0} IN
  IF free = {} THEN s ELSE [s EXCEPT !.ok = TRUE, !.of[Smallest(free)] = a]

(* find_match: item a takes the first expected item that is free or whose  *)
(* present holder finds another.                                           *)
FindMatch(equal, a, s) ==
  LET find[x \in SearchArguments] ==
        IF x.todo \ x.s.seen = {} THEN x.s
        ELSE LET e == Smallest(x.todo \ x.s.seen)
                 t == [x.s EXCEPT !.seen = @ \cup {e}]
                 r == IF x.s.of[e] = 0 THEN [t EXCEPT !.ok = TRUE]
                      ELSE find[[item |-> x.s.of[e], todo |-> equal[x.s.of[e]], s |-> t]]
             IN IF r.ok THEN [r EXCEPT !.of[e] = x.item]
                ELSE find[[x EXCEPT !.todo = @ \ {e}, !.s = r]]
  IN find[[item |-> a, todo |-> equal[a], s |-> s]]

(* What an unordered comparison means: the items can be paired. *)
CanBePaired(equal) ==
  \E pair \in [Items -> Items] :
    /\ \A i \in Items : pair[i] \in equal[i]
    /\ \A i, j \in Items : pair[i] = pair[j] => i = j

(* _compare_outputs, position by position: exact, text and tolerant. *)
SameInOrder(equal) == \A i \in Items : i \in equal[i]

---------------------------------------------------------------------------
(* Reasons to run nothing: an entry point that is not supported, no tests, *)
(* no Docker or no image (_docker_available); or, with an exception, code  *)
(* without the entry point or with an import that is not allowed.          *)
Unavailable == IF backend = "docker" THEN {"backend_unavailable"} ELSE {}
Invalid == {"raised"}

Refuse ==
  /\ stagePc = "start" /\ stagePc' = "done"
  /\ status' \in IF profile THEN {"empty"}
                 ELSE {"unsupported", "sandbox_error"} \cup Unavailable \cup Invalid
  /\ UNCHANGED <<backend, order, profile, tests, output, match, left, truth>>

(* _run_in_subprocess, _run_in_docker: the program is written out. *)
Launch ==
  /\ stagePc \in {"start", "next"} /\ Len(tests) < NTests /\ stagePc' = "running"
  /\ left' = left \cup IF backend = "docker" THEN {"directory", "container"} ELSE {"file"}
  /\ UNCHANGED <<backend, order, profile, tests, output, match, status, truth>>

(* The command ends; one that is killed for its time or its output leaves  *)
(* its container. A program may answer late and still not be killed.       *)
CommandEnds ==
  /\ stagePc = "running" /\ stagePc' = "ended"
  /\ \E o \in [kind : {"answer"}, equal : [Items -> SUBSET Items], slow : BOOLEAN]
           \cup {[NoOutput EXCEPT !.kind = k] : k \in {"silent", "crash", "hang", "flood", "fail"}
                    \cup IF backend = "docker" THEN OnlyDocker ELSE {}} :
       /\ output' = o
       /\ left' = IF o.kind \in {"hang", "flood"} THEN left ELSE left \ {"container"}
       /\ truth' = [truth EXCEPT
            !.good = Append(@, o.kind = "answer" /\ ~o.slow /\
              IF order = "unordered" THEN CanBePaired(o.equal) ELSE SameInOrder(o.equal)),
            !.limited = @ \/ o.kind \in OnlyDocker \cup {"hang", "flood"} \/ o.slow]
  /\ UNCHANGED <<backend, order, profile, tests, match, status>>

(* The finally clauses: docker rm, which may fail, and the program's file  *)
(* or directory.                                                           *)
Clean ==
  /\ stagePc = "ended" /\ stagePc' = "judge"
  /\ \/ left' = {} /\ UNCHANGED truth
     \/ /\ backend = "docker" /\ left' = left \ {"directory"}
        /\ truth' = [truth EXCEPT !.stuck = TRUE]
  /\ UNCHANGED <<backend, order, profile, tests, output, match, status>>

(* What a test that did not answer comes to; outside Docker a program that *)
(* dies of a limit of the machine has just crashed.                        *)
Error(kind) ==
  CASE kind = "hang" -> "timeout"
    [] kind = "flood" -> "output_limit"
    [] kind = "memory" -> "memory_error"
    [] kind = "processes" -> "process_limit"
    [] kind = "image" -> "backend_unavailable"
    [] kind = "crash" /\ backend = "docker" -> "sandbox_error"
    [] OTHER -> "runtime_error"

(* Result of the present test; a profile ends with the first failure. *)
Settle(s) ==
  /\ tests' = Append(tests, s) /\ output' = NoOutput /\ match' = NoMatch
  /\ IF profile /\ s # "passed" THEN stagePc' = "done" /\ status' = "empty"
     ELSE stagePc' = "next" /\ UNCHANGED status
  /\ UNCHANGED <<backend, order, profile, left, truth>>

(* _execute_single_test: errors, the time, then the comparison. *)
Judge ==
  /\ stagePc = "judge" /\ (output.kind = "answer" /\ ~output.slow => order = "exact")
  /\ Settle(IF output.kind # "answer" THEN Error(output.kind)
            ELSE IF output.slow THEN "timeout"
            ELSE IF SameInOrder(output.equal) THEN "passed" ELSE "wrong_answer")

(* _compare_unordered: the items of the output one after the other. *)
Match ==
  /\ stagePc = "judge" /\ order = "unordered" /\ output.kind = "answer" /\ ~output.slow
  /\ match.found /\ match.at < Size
  /\ LET item == match.at + 1
         s == FindMatch(output.equal, item, [of |-> match.of, seen |-> {}, ok |-> FALSE])
     IN  match' = [at |-> item, of |-> s.of, found |-> s.ok]
  /\ UNCHANGED <<backend, order, profile, stagePc, tests, output, left, status, truth>>

Matched ==
  /\ stagePc = "judge" /\ match.at > 0 /\ (match.at = Size \/ ~match.found)
  /\ Settle(IF match.found THEN "passed" ELSE "wrong_answer")

(* execute: the first limit that was met is the status of the stage. *)
Finish ==
  /\ stagePc = "next" /\ Len(tests) = NTests /\ stagePc' = "done"
  /\ LET limits == {i \in 1 .. NTests : tests[i] \in Resource} IN
       status' = IF \A i \in 1 .. NTests : tests[i] = "passed" THEN "success"
                 ELSE IF limits # {} THEN tests[Smallest(limits)] ELSE "failed"
  /\ UNCHANGED <<backend, order, profile, tests, output, match, left, truth>>

Init ==
  /\ backend \in {"docker", "subprocess"} /\ order \in {"exact", "unordered"}
  /\ profile \in BOOLEAN /\ stagePc = "start" /\ tests = <<>> /\ output = NoOutput
  /\ match = NoMatch /\ left = {} /\ status = "none"
  /\ truth = [good |-> <<>>, limited |-> FALSE, stuck |-> FALSE]

Next == Refuse \/ Launch \/ CommandEnds \/ Clean \/ Judge \/ Match \/ Matched \/ Finish

Spec == Init /\ [][Next]_stageVars

---------------------------------------------------------------------------
(* Type correctness. *)
TypeOK ==
  /\ stagePc \in {"start", "next", "running", "ended", "judge", "done"}
  /\ Len(tests) <= Len(truth.good) /\ Len(truth.good) <= NTests
  /\ left \subseteq {"file", "directory", "container"}
  /\ status \in Resource \cup {"none", "success", "failed", "empty", "unsupported",
                               "sandbox_error", "raised"}

(* A stage succeeds if and only if every test was answered in time with an *)
(* output that can be paired with what was expected; it is a plain failure *)
(* only if no limit was met; and nothing is left behind, unless docker rm  *)
(* failed.                                                                 *)
StageIsHonest ==
  /\ stagePc = "done" /\ tests # <<>> =>
       /\ status = "success" <=>
            Len(truth.good) = NTests /\ \A i \in 1 .. NTests : truth.good[i]
       /\ status = "failed" => ~truth.limited
  /\ stagePc \in {"judge", "next", "done"} /\ ~truth.stuck => left = {}
=============================================================================
