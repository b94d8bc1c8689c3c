---------------------------- MODULE BudgetedRun ----------------------------
(***************************************************************************)
(* A command-line run under a budget (src/harness.py,                      *)
(* _run_with_task_service; src/cost_strategy.py; CostAlertManager of       *)
(* src/cost_alert.py). The record of the run is TaskService's file, here   *)
(* the result of each unit. What the run has cost is only known to its     *)
(* process: a resumed run adds it up again from the file. A budget stops   *)
(* the run between two units or makes the units that are left cheap, and   *)
(* each threshold that is crossed is told to the owner.                    *)
(***************************************************************************)
EXTENDS Naturals, FiniteSets, FiniteSetsExt

CONSTANTS
  N,            \* units
  Dear,         \* units whose strategy is not the cheapest of the mapping
  Group,        \* units of the difficulty that has a budget of its own
  RunCap, GroupCap, \* the budgets
  Thresholds,   \* costs of the run that an alert is configured for
  MaxWorkers,   \* threads of a run that downgrades; one that stops has one
  MaxRuns       \* bound: executions

VARIABLES
  action,    \* "auto_stop" or "downgrade"
  file,      \* units on file: queued, running, done or failed, with the cost
  ledger,    \* RunCostMonitor, and DifficultyBudgetMonitor of the group
  fut,       \* units: where the pool has them, with the cost
  pc, cur,   \* the main thread's place, and the unit it settles
  told, onFile, tried, \* thresholds delivered: in memory, saved; tried here
  unsaved,   \* a save of the alerts failed here
  runs,
  late,      \* history: units begun at full price when the file had reached a cap
  sent, lapses \* history: deliveries, and those that no save recorded

budgetVars == <<action, file, ledger, fut, pc, cur, told, onFile, tried, unsaved, runs, late,
                sent, lapses>>
alertPart  == <<told, onFile, tried, unsaved, sent, lapses>>

Units    == 1 .. N
Books    == IF action = "auto_stop" THEN {"run"} ELSE {"run", "group"}
Of(u)    == IF u \in Group THEN Books ELSE {"run"}
CapOf(l) == IF l = "run" THEN RunCap ELSE GroupCap
Pool  == IF action = "auto_stop" THEN 1 ELSE MaxWorkers
Queue    == {u \in Units : file[u].status = "queued"}
Away     == [at |-> "none", cost |-> 0]
Pending  == {u \in Units : fut[u] # Away}
NoCost   == [l \in {"run", "group"} |-> 0]

(* The costs on file that count for a budget. *)
Recorded(l) == IF l \in Books
               THEN MapThenSumSet(LAMBDA u : file[u].cost, {u \in Units : l \in Of(u)}) ELSE 0
Over(l) == ledger[l] >= CapOf(l)

---------------------------------------------------------------------------
(* Slip: a resumed run begins with an empty ledger. *)
Forgets == NoCost

(* "Settle already-completed problems into the ledger so the remaining     *)
(* work cannot spend past the cap again."                                  *)
Replays == [l \in {"run", "group"} |-> Recorded(l)]

(* A resumed run tells what the run before it did not. *)
PlaceAtStart == IF runs = 0 THEN "loop" ELSE "alerts"

(* A new process: create, or get and PrepareResume; a new alert manager. *)
Start ==
  /\ pc = "out" /\ runs < MaxRuns /\ runs' = runs + 1
  /\ file' = [u \in Units |-> IF file[u].status = "running" THEN [file[u] EXCEPT !.status = "queued"] ELSE file[u]]
  /\ ledger' = Replays /\ pc' = PlaceAtStart
  /\ told' = onFile /\ tried' = {} /\ unsaved' = FALSE
  /\ lapses' = [t \in Thresholds |-> IF t \in told \ onFile THEN lapses[t] + 1 ELSE lapses[t]]
  /\ UNCHANGED <<action, fut, cur, onFile, late, sent>>

(* run pauses (pause_when, with nothing under way) or is over. *)
Return ==
  /\ pc = "loop" /\ Pending = {} /\ (Queue = {} \/ (action = "auto_stop" /\ Over("run")))
  /\ pc' = "out"
  /\ UNCHANGED <<action, file, ledger, fut, cur, alertPart, runs, late>>

Dispatch ==
  /\ pc = "loop" /\ Queue # {} /\ Cardinality(Pending) < Pool
  /\ ~(action = "auto_stop" /\ Over("run"))
  /\ LET u == Min(Queue) IN /\ file' = [file EXCEPT ![u].status = "running"]
                            /\ fut' = [fut EXCEPT ![u].at = "queued"]
  /\ UNCHANGED <<action, ledger, pc, cur, alertPart, runs, late>>

---------------------------------------------------------------------------
(* worker, on a thread of the pool *)

(* The budget is looked at when the unit begins. *)
Cheap(u) == action = "downgrade" /\ (u \notin Dear \/ \E l \in Of(u) : Over(l))

Begin(u) ==
  /\ fut[u].at = "queued"
  /\ fut' = [fut EXCEPT ![u].at = IF Cheap(u) THEN "cheap" ELSE "dear"]
  /\ late' = [l \in DOMAIN late |->
                 IF ~Cheap(u) /\ l \in Of(u) /\ Recorded(l) >= CapOf(l) THEN late[l] + 1 ELSE late[l]]
  /\ UNCHANGED <<action, file, ledger, pc, cur, alertPart, runs>>

(* _execute_problem returns what it cost, or raises and nothing is known. *)
End(u) ==
  /\ \/ fut[u].at = "cheap" /\ \E c \in {0, 1} : fut' = [fut EXCEPT ![u] = [at |-> "done", cost |-> c]]
     \/ fut[u].at = "dear" /\ \E c \in {1, 2} : fut' = [fut EXCEPT ![u] = [at |-> "done", cost |-> c]]
     \/ fut[u].at \in {"cheap", "dear"} /\ fut' = [fut EXCEPT ![u].at = "raised"]
  /\ UNCHANGED <<action, file, ledger, pc, cur, alertPart, runs, late>>

---------------------------------------------------------------------------
(* What the main thread does with a result *)

(* The result is saved, and then settled. *)
Collect(u) ==
  /\ pc = "loop" /\ fut[u].at \in {"done", "raised"}
  /\ file' = [file EXCEPT ![u] = [status |-> IF fut[u].at = "done" THEN "done" ELSE "failed",
                                  cost |-> fut[u].cost]]
  /\ fut' = [fut EXCEPT ![u] = Away]
  /\ IF fut[u].at = "done" THEN pc' = "settle" /\ cur' = u ELSE UNCHANGED <<pc, cur>>
  /\ UNCHANGED <<action, ledger, alertPart, runs, late>>

(* settle_unit *)
Settle ==
  /\ pc = "settle" /\ pc' = "alerts"
  /\ ledger' = [l \in DOMAIN ledger |-> ledger[l] + IF l \in Of(cur) THEN file[cur].cost ELSE 0]
  /\ UNCHANGED <<action, file, fut, cur, alertPart, runs, late>>

Crossed == {t \in Thresholds : t <= ledger["run"] /\ t \notin told /\ t \notin tried}

(* process: the next threshold is delivered, or fails for this process. *)
Tell ==
  /\ pc = "alerts" /\ Crossed # {} /\ pc' = "save"
  /\ LET t == Min(Crossed)
     IN /\ tried' = tried \cup {t}
        /\ \/ told' = told \cup {t} /\ sent' = [sent EXCEPT ![t] = @ + 1]
           \/ UNCHANGED <<told, sent>>
  /\ UNCHANGED <<action, file, ledger, fut, cur, onFile, unsaved, lapses, runs, late>>

(* _save_state, or an exception that _process_cost_alerts keeps to itself. *)
Save ==
  /\ pc = "save"
  /\ \/ onFile' = told /\ pc' = "alerts" /\ UNCHANGED unsaved
     \/ unsaved' = TRUE /\ pc' = "loop" /\ UNCHANGED onFile
  /\ UNCHANGED <<action, file, ledger, fut, cur, told, tried, sent, lapses, runs, late>>

Told ==
  /\ pc = "alerts" /\ Crossed = {} /\ pc' = "loop"
  /\ UNCHANGED <<action, file, ledger, fut, cur, alertPart, runs, late>>

(* The process dies with its threads. *)
Crash ==
  /\ pc # "out" /\ pc' = "out" /\ fut' = [u \in Units |-> Away]
  /\ UNCHANGED <<action, file, ledger, cur, alertPart, runs, late>>

Init ==
  /\ action \in {"auto_stop", "downgrade"}
  /\ file = [u \in Units |-> [status |-> "queued", cost |-> 0]] /\ ledger = NoCost
  /\ fut = [u \in Units |-> Away] /\ pc = "out" /\ cur = 1 /\ runs = 0 /\ late = NoCost
  /\ told = {} /\ onFile = {} /\ tried = {} /\ unsaved = FALSE
  /\ sent = [t \in Thresholds |-> 0] /\ lapses = sent

Next == \/ Start \/ Return \/ Dispatch \/ Settle \/ Tell \/ Save \/ Told \/ Crash
        \/ \E u \in Units : Begin(u) \/ End(u) \/ Collect(u)
Spec == Init /\ [][Next]_budgetVars

---------------------------------------------------------------------------
(* Properties *)

TypeOK ==
  /\ pc \in {"out", "loop", "settle", "alerts", "save"} /\ cur \in Units /\ onFile \subseteq Thresholds
  /\ \A u \in Units : file[u].status \in {"queued", "running", "done", "failed"}

(* The ledger that decides is the file's, in every run of the record. A run *)
(* that stops begins nothing once the cap is reached; one that downgrades  *)
(* begins at full price at most what waited on the pool while the result   *)
(* that reached the budget was settled.                                    *)
BudgetIsRespected ==
  /\ pc = "loop" => \A l \in Books : ledger[l] = Recorded(l)
  /\ \A l \in Books : late[l] < Pool

(* Every threshold that the cost has crossed was delivered or tried, by    *)
(* this run at the latest, and none is delivered again unless the process  *)
(* ended before the delivery was saved.                                    *)
AlertsAreTold ==
  /\ pc = "loop" /\ ~unsaved => Crossed = {}
  /\ \A t \in Thresholds : sent[t] <= 1 + lapses[t]
=============================================================================
