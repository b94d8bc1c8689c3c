---------------------------- MODULE ProblemFetch ----------------------------
(***************************************************************************)
(* One importer of problems and the command that uses it (src/importers,   *)
(* run_import_command in src/main.py): it lists the problems of its        *)
(* platform, asks for each with retries, turns what it got into problems   *)
(* and reports what it could not get or could not turn. An importer serves *)
(* several rounds, a fetch each, and what a round failed to do must not be *)
(* told by the next one. The text of a statement is its nature: what can   *)
(* be made of it.                                                          *)
(***************************************************************************)
EXTENDS Naturals, FiniteSets

CONSTANTS
  Count,         \* problems listed
  FetchRetries,  \* retries of a request
  MaxRounds      \* bound: fetches of one importer

VARIABLES
  platform,
  nature,        \* what can be made of each problem listed
  limit,         \* limit of LiveCodeBenchImporter; Count where there is none
  importer

fetchVars == <<platform, nature, limit, importer>>

Platforms == {"local", "livecodebench", "question", "leetcode", "codeforces"}
Items     == 1 .. Count
Listed    == IF platform = "question" THEN {Count} ELSE Items
LeetCode  == platform \in {"question", "leetcode"}
Running   == 4     \* the exit code of a command under way

(* "poor" becomes a problem that needs manual completion, "bad" raises in  *)
(* its transformation, "other" is filtered out (an interactive problem, or *)
(* a record out of the dates) and "nameless" has no address.               *)
Natures(p) ==
  {"good", "poor", "bad"}
    \cup (IF p \in {"livecodebench", "codeforces"} THEN {"other"} ELSE {})
    \cup (IF p = "codeforces" THEN {"nameless"} ELSE {})

Unasked == [i \in Items |-> 0]
Unended == [i \in Items |-> "none"]

Init ==
  /\ platform \in Platforms
  /\ nature \in [Items -> Natures(platform)]
  /\ limit \in IF platform = "livecodebench" THEN 1 .. Count ELSE {Count}
  /\ importer = [pc |-> "new", attempt |-> 0, cursor |-> 1, fetched |-> {}, unstated |-> {},
                 fetch_failures |-> {}, transform_failures |-> {}, problems |-> {},
                 manual |-> {}, rounds |-> 0, asked |-> Unasked, ended |-> Unended,
                 code |-> Running]

(* fetch_problems begins. LeetCode drops the failures of the last round;   *)
(* the others do when they transform.                                      *)
Fetch ==
  /\ importer.pc \in {"new", "fetched", "transformed", "refused"}
  /\ importer.rounds < MaxRounds
  /\ importer' =
       [importer EXCEPT
          !.pc = CASE platform \in {"local", "livecodebench"} -> "file"
                   [] platform = "question" -> "items"
                   [] OTHER -> "list",
          !.attempt = 0, !.cursor = IF platform = "question" THEN Count ELSE 1,
          !.fetched = {}, !.unstated = {}, !.rounds = @ + 1,
          !.fetch_failures = {},
          !.transform_failures = IF LeetCode THEN {} ELSE @,
          !.asked = Unasked, !.ended = Unended, !.code = Running]
  /\ UNCHANGED <<platform, nature, limit>>

(* A file, or the static URL of a release, is read whole or not at all.    *)
Read ==
  /\ importer.pc = "file"
  /\ importer' \in {[importer EXCEPT !.pc = "fetched", !.fetched = Items],
                    [importer EXCEPT !.pc = "refused", !.code = 2]}
  /\ UNCHANGED <<platform, nature, limit>>

ReadLocal   == platform = "local" /\ Read
ReadRelease == platform = "livecodebench" /\ Read

(* One attempt ended badly, but not for good: a rate limit, a server error,*)
(* a time-out; there are attempts left.                                    *)
Retry ==
  /\ importer.attempt < FetchRetries
  /\ importer' = [importer EXCEPT
       !.attempt = @ + 1,
       !.asked = IF importer.pc = "items" THEN [@ EXCEPT ![importer.cursor] = @ + 1] ELSE @]
  /\ UNCHANGED <<platform, nature, limit>>

(* The request for the list: without it there is no round.                 *)
List ==
  /\ importer.pc = "list"
  /\ \/ importer' = [importer EXCEPT !.pc = "items", !.attempt = 0]
     \/ importer' = [importer EXCEPT !.pc = "refused", !.code = 2]
  /\ UNCHANGED <<platform, nature, limit>>

ListAgain == importer.pc = "list" /\ Retry

(* The importer is done with the problem at the cursor.                    *)
Step(im) ==
  [im EXCEPT !.attempt = 0,
             !.cursor = IF @ = Count THEN 1 ELSE @ + 1,
             !.pc = IF importer.cursor = Count THEN "fetched" ELSE @]

(* Codeforces asks for no interactive problem, and for none it cannot name.*)
PassOver ==
  LET i == importer.cursor IN
  /\ importer.pc = "items" /\ platform = "codeforces"
  /\ \/ nature[i] = "other" /\ importer' = Step(importer)
     \/ nature[i] = "nameless"
        /\ importer' = Step([importer EXCEPT !.fetched = @ \cup {i}, !.unstated = @ \cup {i}])
  /\ UNCHANGED <<platform, nature, limit>>

AskedFor == importer.pc = "items" /\ nature[importer.cursor] \notin {"other", "nameless"}

Obtain ==
  LET i == importer.cursor IN
  /\ AskedFor
  /\ importer' = Step([importer EXCEPT !.fetched = @ \cup {i}, !.asked[i] = @ + 1])
  /\ UNCHANGED <<platform, nature, limit>>

ObtainLater == AskedFor /\ Retry

(* A problem is refused for good, or the attempts are spent. A batch of    *)
(* LeetCode records it, a single question fails, and Codeforces goes on    *)
(* without the statement.                                                  *)
GiveUp(why) ==
  LET i   == importer.cursor
      End == [importer EXCEPT !.asked[i] = @ + 1, !.ended[i] = why]
  IN /\ AskedFor
     /\ why = "spent" => importer.attempt >= FetchRetries
     /\ \/ /\ platform = "question"
           /\ importer' = [End EXCEPT !.pc = "refused", !.code = 2]
        \/ /\ platform = "leetcode"
           /\ importer' = Step([End EXCEPT !.fetch_failures = @ \cup {i},
                                           !.transform_failures = @ \cup {i}])
        \/ /\ platform = "codeforces"
           /\ importer' = Step([End EXCEPT !.fetched = @ \cup {i}, !.unstated = @ \cup {i}])
     /\ UNCHANGED <<platform, nature, limit>>

Raising     == {i \in importer.fetched : nature[i] = "bad"}
Filtered    == {i \in importer.fetched : nature[i] = "other"}
FirstOf(S)  == {i \in S : Cardinality({j \in S : j <= i}) <= limit}
Made        == FirstOf(importer.fetched \ (Raising \cup Filtered))
NeedsHand   == {i \in Made : nature[i] = "poor"}
Unstated    == Made \cap importer.unstated
OfThisRound == importer.fetch_failures \cup Raising

(* transform_to_schema, of a round that may have been transformed before.  *)
(* The importer of local files only logs what it leaves out.               *)
Transform ==
  /\ importer.pc \in {"fetched", "transformed"}
  /\ importer' = [importer EXCEPT
       !.pc = "transformed",
       !.transform_failures = IF platform = "local" THEN @ ELSE OfThisRound,
       !.problems = Made,
       !.manual = NeedsHand \cup Unstated]
  /\ UNCHANGED <<platform, nature, limit>>

(* ImportResult: nothing failed, everything did, or a part.                *)
ExitCode(failed, successful, strict) ==
  CASE failed = {} -> 0
    [] failed # {} /\ successful = {} -> 2
    [] failed # {} /\ successful # {} -> IF strict THEN 3 ELSE 1

(* The command validates (a Problem that exists is valid), drops what the  *)
(* dataset has already, and ends with its code.                            *)
Report ==
  /\ importer.pc = "transformed"
  /\ \E skipped \in SUBSET importer.problems, strict \in BOOLEAN :
       importer' = [importer EXCEPT
         !.pc = "reported",
         !.code = ExitCode(importer.transform_failures, importer.problems \ skipped, strict)]
  /\ UNCHANGED <<platform, nature, limit>>

Next ==
  \/ Fetch \/ ReadLocal \/ ReadRelease \/ List \/ ListAgain \/ PassOver \/ Obtain \/ ObtainLater
  \/ \E why \in {"refused", "spent"} : GiveUp(why)
  \/ Transform \/ Report

Spec == Init /\ [][Next]_fetchVars

---------------------------------------------------------------------------
(* Properties *)

(* Types of platform, nature, limit and importer.                          *)
TypeOK ==
  /\ platform \in Platforms /\ limit \in Items
  /\ nature \in [Items -> Natures(platform)]
  /\ importer.pc \in {"new", "file", "list", "items", "fetched", "transformed", "refused", "reported"}
  /\ importer.attempt \in 0 .. FetchRetries /\ importer.cursor \in Items
  /\ importer.fetched \cup importer.unstated \cup importer.fetch_failures \subseteq Items
  /\ importer.problems \cup importer.transform_failures \subseteq Items
  /\ importer.manual \subseteq importer.problems
  /\ importer.rounds \in 0 .. MaxRounds /\ importer.code \in 0 .. Running
  /\ importer.ended \in [Items -> {"none", "refused", "spent"}]

(* A problem that was listed is imported, is told to have failed, or was   *)
(* not asked for: filtered out, or beyond the limit; local files excepted. *)
EachIsTold ==
  importer.pc = "reported" =>
    /\ importer.problems \cap importer.transform_failures = {}
    /\ platform # "local" =>
         \A i \in Listed \ (importer.problems \cup importer.transform_failures) :
           \/ nature[i] = "other"
           \/ Cardinality({j \in importer.problems : j < i}) = limit

(* What is told to have failed did so in this round, and after every       *)
(* attempt it had.                                                         *)
FailuresAreOwn ==
  /\ importer.pc = "reported" =>
       \A i \in importer.transform_failures : nature[i] = "bad" \/ importer.ended[i] # "none"
  /\ \A i \in Items :
       /\ importer.asked[i] <= FetchRetries + 1
       /\ importer.ended[i] = "spent" => importer.asked[i] = FetchRetries + 1

(* A command that ends well has every problem it asked for, those without  *)
(* a statement marked for manual completion.                               *)
GoodIsWhole ==
  importer.code = 0 =>
    \A i \in Items : importer.ended[i] # "none" => i \in importer.manual

FetchIsHonest == EachIsTold /\ FailuresAreOwn /\ GoodIsWhole
=============================================================================
