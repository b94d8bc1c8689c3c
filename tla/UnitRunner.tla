----------------------------- MODULE UnitRunner -----------------------------
(***************************************************************************)
(* One experiment, A/B test or suite benchmark, execution after execution: *)
(* its units, the results saved unit by unit (src/checkpoints.py), and the *)
(* runners that skip what is saved, poll for a stop and run the rest, an   *)
(* experiment's combinations (src/experiment.py) and an A/B test's         *)
(* problems (src/ab_testing.py) on a pool, a suite's (src/harness.py,      *)
(* src/benchmark/executor.py) one by one. The service then asks for the    *)
(* verdict (_execute in api/services); BusinessTask.tla says what becomes  *)
(* of it.                                                                  *)
(***************************************************************************)
EXTENDS Naturals, Sequences, SequencesExt, FiniteSets

CONSTANTS
  N,          \* units, in their order
  FirstGroup, \* an A/B test's first variant has the units 1 .. FirstGroup
  MaxWorkers, \* threads of the pool
  Kinds,      \* "experiment", "abtest", "suite"
  MaxRuns     \* bound: executions

VARIABLES
  kind, parallel, \* which runner, and whether on a pool
  saved,    \* units: the execution that saved it, with its spend on file or not
  listed,   \* an experiment's list of combinations on disk
  mem,      \* the results this execution holds, in its order
  fut,      \* units: where this execution has them
  pc, run,  \* the execution's place and number
  closed,   \* it submits nothing more
  paused, lost, \* runner.paused; SpendRecorder._failed
  stop, capped, \* a pause or a cancellation on the task row; the budget reached
  verdict   \* what the last execution asked for

runnerVars == <<kind, parallel, saved, listed, mem, fut, pc, run, closed, paused, lost,
                stop, capped, verdict>>

Units  == 1 .. N
Unsaved == [run |-> 0, paid |-> FALSE]
IsSaved(u) == saved[u] # Unsaved
Pooled == {u \in Units : fut[u] \in {"queued", "running", "saving"}}

(* should_stop, should_pause: the task row, or the personal budget, which  *)
(* lets the work go on when it cannot be read. A suite's row is read too.  *)
Polls(answer) == IF answer THEN stop \/ capped ELSE ~stop

(* Slip: only the list on disk says what is done. *)
RestoresListed == listed

(* Units in their order. *)
InOrder(S) == CHOOSE s \in [1 .. Cardinality(S) -> S] :
                \A i, j \in 1 .. Cardinality(S) : i < j => s[i] < s[j]

(* An experiment's list, and the saved combinations a crash kept off it. *)
Restores == listed \o InOrder({u \in Units : IsSaved(u) /\ u \notin ToSet(listed)})

(* A worker enters run: a first execution, a resume of a paused task (which *)
(* it still is when the failure came after the pause), or a redelivery.     *)
Start ==
  LET held == IF kind = "experiment" THEN Restores ELSE <<>>
  IN  /\ pc = "out" /\ run < MaxRuns
      /\ verdict \in {"none", "paused", "crashed"} \/ (verdict = "failed" /\ stop)
      /\ run' = run + 1 /\ pc' = "run" /\ mem' = held
      /\ fut' = [u \in Units |-> IF u \in ToSet(held) THEN "got" ELSE "none"]
      /\ closed' = FALSE /\ paused' = FALSE /\ lost' = FALSE /\ stop' = FALSE
      /\ verdict' = "none"
      /\ UNCHANGED <<kind, parallel, saved, listed, capped>>

Group(u) == IF kind = "abtest" THEN {v \in Units : (v <= FirstGroup) = (u <= FirstGroup)}
            ELSE Units

(* It is u's turn to be submitted: variant by variant, or one by one.      *)
Turn(u) ==
  /\ pc = "run" /\ ~closed /\ fut[u] = "none"
  /\ \A v \in 1 .. u - 1 :
       fut[v] = "got" \/ (parallel /\ v \in Group(u) /\ fut[v] # "none")

(* A suite replays what is saved; an experiment and a suite poll first,    *)
(* and submit nothing more after a stop.                                   *)
Submit(u) ==
  /\ Turn(u)
  /\ \/ /\ kind = "suite" /\ IsSaved(u)
        /\ fut' = [fut EXCEPT ![u] = "got"] /\ mem' = Append(mem, u)
        /\ UNCHANGED <<closed, paused>>
     \/ /\ kind = "abtest" \/ (Polls(FALSE) /\ ~(kind = "suite" /\ IsSaved(u)))
        /\ fut' = [fut EXCEPT ![u] = IF kind = "suite" THEN "running" ELSE "queued"]
        /\ UNCHANGED <<mem, closed, paused>>
     \/ /\ kind = "experiment" \/ (kind = "suite" /\ ~IsSaved(u))
        /\ Polls(TRUE) /\ closed' = TRUE /\ paused' = TRUE /\ UNCHANGED <<mem, fut>>
  /\ UNCHANGED <<kind, parallel, saved, listed, pc, run, lost, stop, capped, verdict>>

(* Slip: a unit skipped for a stop leaves no trace. *)
SkipsUnseen == UNCHANGED paused

(* Not every unit was run: the runner remembers. *)
Skips == paused' = TRUE

(* A thread takes the first unit queued: a saved one is returned, another  *)
(* one runs unless a stop is seen now.                                     *)
Take(u) ==
  /\ fut[u] = "queued" /\ \A v \in 1 .. u - 1 : fut[v] # "queued"
  /\ Cardinality({v \in Units : fut[v] \in {"running", "saving"}}) < MaxWorkers
  /\ \/ /\ kind = "abtest" /\ IsSaved(u)
        /\ fut' = [fut EXCEPT ![u] = "done"] /\ UNCHANGED paused
     \/ /\ ~(kind = "abtest" /\ IsSaved(u)) /\ Polls(FALSE)
        /\ fut' = [fut EXCEPT ![u] = "running"] /\ UNCHANGED paused
     \/ /\ ~(kind = "abtest" /\ IsSaved(u)) /\ Polls(TRUE)
        /\ fut' = [fut EXCEPT ![u] = "skipped"] /\ Skips
  /\ UNCHANGED <<kind, parallel, saved, listed, mem, pc, run, closed, lost, stop, capped,
                 verdict>>

(* The unit has a result, or raises (the sandbox's preflight). A spend     *)
(* record may be lost under way: the failure is a unit's result like any.  *)
Execute(u) ==
  /\ fut[u] = "running"
  /\ \/ fut' = [fut EXCEPT ![u] = "saving"] /\ lost' \in {lost, kind # "suite"}
     \/ fut' = [fut EXCEPT ![u] = "raised"] /\ UNCHANGED lost
  /\ UNCHANGED <<kind, parallel, saved, listed, mem, pc, run, closed, paused, stop, capped,
                 verdict>>

(* UnitCheckpoint.put is atomic: it is there, or it raises. *)
Put(u) ==
  /\ fut[u] = "saving"
  /\ \/ /\ saved' = [saved EXCEPT ![u] = [run |-> run, paid |-> ~lost]]
        /\ fut' = [fut EXCEPT ![u] = "done"]
     \/ fut' = [fut EXCEPT ![u] = "raised"] /\ UNCHANGED saved
  /\ UNCHANGED <<kind, parallel, listed, mem, pc, run, closed, paused, lost, stop, capped,
                 verdict>>

(* Results are taken in the order of submission, on a pool after it; an    *)
(* experiment rewrites its list each time.                                 *)
Collects(u) ==
  /\ pc = "run" /\ \A v \in 1 .. u - 1 : fut[v] = "got"
  /\ parallel => closed \/ \A v \in Group(u) : fut[v] # "none"

Collect(u) ==
  /\ Collects(u) /\ fut[u] \in {"done", "skipped"}
  /\ fut' = [fut EXCEPT ![u] = "got"]
  /\ mem' = IF fut[u] = "done" THEN Append(mem, u) ELSE mem
  /\ listed' = IF kind = "experiment" THEN mem' ELSE listed
  /\ UNCHANGED <<kind, parallel, saved, pc, run, closed, paused, lost, stop, capped, verdict>>

(* A unit's exception ends the run once its threads are through: what an   *)
(* A/B test has queued is cancelled, an experiment's still runs.           *)
Raise(u) ==
  /\ Collects(u) /\ fut[u] = "raised" /\ pc' = "raise"
  /\ fut' = [v \in Units |-> IF kind = "abtest" /\ fut[v] = "queued" THEN "none" ELSE fut[v]]
  /\ UNCHANGED <<kind, parallel, saved, listed, mem, run, closed, paused, lost, stop, capped,
                 verdict>>

Submitted == closed \/ \A u \in Units : fut[u] # "none"

(* An A/B test polls once more, and writes its report unless stopped; an   *)
(* experiment writes its list for the last time.                           *)
End ==
  /\ pc = "run" /\ Submitted /\ \A u \in Units : fut[u] \in {"none", "got"}
  /\ pc' = "verdict"
  /\ \/ kind = "abtest" /\ Polls(TRUE) /\ paused' = TRUE
     \/ (kind = "abtest" => Polls(FALSE)) /\ UNCHANGED paused
  /\ listed' = IF kind = "experiment" THEN mem ELSE listed
  /\ UNCHANGED <<kind, parallel, saved, mem, fut, run, closed, lost, stop, capped, verdict>>

(* recorder.check after the run; a benchmark has no recorder. *)
DoubtsAccount == lost

Verdict ==
  /\ pc = "verdict" \/ (pc = "raise" /\ Pooled = {})
  /\ pc' = "out"
  /\ verdict' = CASE pc = "raise" \/ DoubtsAccount -> "failed"
                  [] pc = "verdict" /\ ~DoubtsAccount /\ paused -> "paused"
                  [] OTHER -> "completed"
  /\ UNCHANGED <<kind, parallel, saved, listed, mem, fut, run, closed, paused, lost, stop, capped>>

(* The owner pauses or cancels; the budget is reached, or raised. *)
RequestStop ==
  /\ pc # "out" /\ ~stop /\ stop' = TRUE
  /\ UNCHANGED <<kind, parallel, saved, listed, mem, fut, pc, run, closed, paused, lost, capped,
                 verdict>>

Spend ==
  /\ pc # "out" /\ capped' = ~capped
  /\ UNCHANGED <<kind, parallel, saved, listed, mem, fut, pc, run, closed, paused, lost, stop,
                 verdict>>

(* The worker dies. *)
Crash ==
  /\ pc # "out" /\ pc' = "out" /\ verdict' = "crashed"
  /\ fut' = [u \in Units |-> "none"]
  /\ UNCHANGED <<kind, parallel, saved, listed, mem, run, closed, paused, lost, stop, capped>>

Init ==
  /\ kind \in Kinds /\ parallel \in BOOLEAN /\ (kind = "suite" => ~parallel)
  /\ saved = [u \in Units |-> Unsaved] /\ listed = <<>> /\ mem = <<>>
  /\ fut = [u \in Units |-> "none"] /\ pc = "out" /\ run = 0
  /\ closed = FALSE /\ paused = FALSE /\ lost = FALSE /\ stop = FALSE /\ capped = FALSE
  /\ verdict = "none"

Next ==
  \/ Start \/ End \/ Verdict \/ RequestStop \/ Spend \/ Crash
  \/ \E u \in Units : Submit(u) \/ Take(u) \/ Execute(u) \/ Put(u) \/ Collect(u) \/ Raise(u)

Spec == Init /\ [][Next]_runnerVars

---------------------------------------------------------------------------
(* Properties *)

TypeOK ==
  /\ mem \in Seq(Units) /\ listed \in Seq(Units)
  /\ \A u \in Units : saved[u].run \in 0 .. run
  /\ \A u \in Units : fut[u] \in {"none", "queued", "running", "saving", "done", "skipped",
                                  "raised", "got"}
  /\ pc \in {"out", "run", "raise", "verdict"}
  /\ verdict \in {"none", "completed", "paused", "failed", "crashed"}

(* A run that asks to be completed holds every unit's result exactly once, *)
(* on disk too, whatever stops came and went while its threads ran, and    *)
(* every unit it saved has its spend on file (run, _execute).              *)
CompletedIsWhole == verdict = "completed" =>
  /\ Len(mem) = N /\ ToSet(mem) = Units
  /\ \A u \in Units : IsSaved(u) /\ (saved[u].run = run => saved[u].paid)

(* The list on disk never names a unit twice, nor one whose result is not  *)
(* saved, whenever the worker dies (the restore in run).                   *)
ListedOnce == IsInjective(listed) /\ \A u \in ToSet(listed) : IsSaved(u)

(* A saved result is never bought again, in this execution or a later one  *)
(* (UnitCheckpoint: one immutable result per unit).                        *)
KeepsSaved   == \A u \in Units : IsSaved(u) => saved'[u] = saved[u]
SavedIsFinal == [][KeepsSaved]_runnerVars
=============================================================================
