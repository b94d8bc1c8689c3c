----------------------------- MODULE UnitLedger -----------------------------
(***************************************************************************)
(* What a persisted run promises about its units, whatever the engine does *)
(* underneath: a unit is launched only from "todo", at most MaxWorkers are *)
(* in flight, a settled unit (its outcome is on file) stays settled, and   *)
(* only work whose outcome is not known is ever made launchable again.     *)
(* TaskService.tla implements this ledger with its JSON checkpoint.        *)
(***************************************************************************)
EXTENDS Naturals, FiniteSets

CONSTANTS
  Units,       \* the units of one run
  MaxWorkers   \* the most units in flight at once

VARIABLE phase \* what the ledger says of each unit

InFlight == {u \in Units : phase[u] = "inflight"}

Init == phase = [u \in Units |-> "todo"]

(* A worker is given the unit. *)
Launch(u) ==
  /\ phase[u] = "todo"
  /\ Cardinality(InFlight) < MaxWorkers
  /\ phase' = [phase EXCEPT ![u] = "inflight"]

(* The worker's outcome is recorded: a result or an error. *)
Settle(u) ==
  /\ phase[u] = "inflight"
  /\ \E outcome \in {"done", "broken"} : phase' = [phase EXCEPT ![u] = outcome]

(* Cancellation gives up every unit in flight: its outcome is unknown. *)
GiveUp ==
  phase' = [u \in Units |-> IF phase[u] = "inflight" THEN "unknown" ELSE phase[u]]

(* A resume makes the units without a known outcome launchable again. *)
Requeue ==
  phase' = [u \in Units |-> IF phase[u] \in {"inflight", "unknown"} THEN "todo"
                            ELSE phase[u]]

(* A completed run may be forgotten as a whole. *)
Forget ==
  /\ \A u \in Units : phase[u] = "done"
  /\ phase' = [u \in Units |-> "todo"]

Next ==
  \/ \E u \in Units : Launch(u) \/ Settle(u)
  \/ GiveUp
  \/ Requeue
  \/ Forget

Spec == Init /\ [][Next]_phase
=============================================================================
