------------------------------ MODULE MCTasks ------------------------------
(***************************************************************************)
(* BusinessTask and ImportJob on small instances, the two kinds of task    *)
(* row that TaskManager keeps beside a row of another service. A behaviour *)
(* is about one of them, part, for ever; both are checked in one run, and  *)
(* each of the shared variables v1 .. v14 stands for one of its own.       *)
(***************************************************************************)
EXTENDS Naturals

CONSTANTS
  Parts,                          \* of "business", "import"
  Kinds, NUnits, BusinessFaults, MaxBusinessFaults, \* BusinessTask's own
  ImportFaults, MaxImportFaults,                    \* ImportJob's own
  Workers, Clients, MaxGens

VARIABLES part, v1, v2, v3, v4, v5, v6, v7, v8, v9, v10, v11, v12, v13, v14

Business == INSTANCE BusinessTask WITH
  FaultKinds <- BusinessFaults, MaxFaults <- MaxBusinessFaults,
  kind <- v1, row <- v2, task <- v3, gens <- v4, msgs <- v5, revoked <- v6,
  outcome <- v7, done <- v8, wk <- v9, cl <- v10, late <- v11, faults <- v12,
  recovery <- v13, overtaken <- v14

Import == INSTANCE ImportJob WITH
  FaultKinds <- ImportFaults, MaxFaults <- MaxImportFaults,
  job <- v1, tx <- v2, task <- v3, gens <- v4, msgs <- v5, revoked <- v6,
  outcome <- v7, undo <- v8, wk <- v9, cl <- v10, merged <- v11, faults <- v12

slots   == <<v1, v2, v3, v4, v5, v6, v7, v8, v9, v10, v11, v12, v13, v14>>
allVars == <<part, slots>>

(* An import has no use for the last two. *)
Spare == UNCHANGED <<v13, v14>>

Init == /\ part \in Parts
        /\ part = "business" => Business!Init
        /\ part = "import" => Import!Init /\ v13 = "none" /\ v14 = FALSE

Next == /\ \/ part = "business" /\ Business!Next
           \/ part = "import" /\ Import!Next /\ Spare
        /\ UNCHANGED part

Spec == Init /\ [][Next]_allVars

(* The two modules' own fairness, each on its part. *)
Fairness ==
  /\ WF_slots(part = "import" /\ Import!Transact /\ Spare)
  /\ \A c \in Clients : /\ WF_slots(part = "business" /\ Business!Carry(c))
                        /\ SF_slots(part = "import" /\ Import!Carry(c) /\ Spare)
  /\ \A w \in Workers : /\ WF_slots(part = "business" /\ Business!Work(w))
                        /\ SF_slots(part = "import" /\ Import!Work(w) /\ Spare)
FairSpec == Spec /\ Fairness

---------------------------------------------------------------------------
(* The properties of the two modules, each on its part. *)

(* Type correctness (BusinessTask, ImportJob). *)
TypeOK == IF part = "business" THEN Business!TypeOK ELSE Import!TypeOK

(* One executor, and a stop is a stop (confirm_stopped, claim_task). *)
OneExecutor == part = "business" => Business!OneExecutor

(* The business row says what the task row says (_sync_business). *)
RowAgrees == part = "business" => Business!RowAgrees

(* The dataset is written once, by a completed job (merge_dataset). *)
DatasetFollowsVerdict == part = "import" => Import!DatasetFollowsVerdict

(* A pause is confirmed in the end (confirm_stopped). *)
PauseIsConfirmed ==
  (part = "business" /\ Business!Pausing) ~> (part = "business" /\ Business!PauseIsOver)

(* A job's verdict reaches its task in the end (process_import_task). *)
VerdictReachesTask ==
  (part = "import" /\ Import!VerdictGiven) ~> (part = "import" /\ Import!VerdictTaken)

(* "A failed duplicate child must not stop the delivery holding the claim." *)
DuplicateIsHarmless == [][part = "business" => Business!OthersSpareTheClaim]_allVars

(* "... without touching a newer transition" (restore_task_status). *)
NewerTransitionStays == [][part = "import" => Import!RestoresItsOwn]_allVars
=============================================================================
