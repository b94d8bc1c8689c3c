--------------------------- MODULE MCTasks_proofs ---------------------------
(***************************************************************************)
(* What BusinessTask_proofs and ImportJob_proofs show of the two modules   *)
(* holds of their composition, for any values of the constants.            *)
(***************************************************************************)
EXTENDS MCTasks, FiniteSetTheorems, TLAPS

BusinessP == INSTANCE BusinessTask_proofs WITH
  FaultKinds <- BusinessFaults, MaxFaults <- MaxBusinessFaults,
  kind <- v1, row <- v2, task <- v3, gens <- v4, msgs <- v5, revoked <- v6,
  outcome <- v7, done <- v8, wk <- v9, cl <- v10, late <- v11, faults <- v12,
  recovery <- v13, overtaken <- v14

ImportP == INSTANCE ImportJob_proofs WITH
  FaultKinds <- ImportFaults, MaxFaults <- MaxImportFaults,
  job <- v1, tx <- v2, task <- v3, gens <- v4, msgs <- v5, revoked <- v6,
  outcome <- v7, undo <- v8, wk <- v9, cl <- v10, merged <- v11, faults <- v12

(* The two copies of BusinessTask are the same. *)
LEMMA SameBusiness ==
  /\ Business!Init <=> BusinessP!Init
  /\ Business!Next <=> BusinessP!Next
  /\ Business!OneExecutor <=> BusinessP!OneExecutor
  /\ Business!RowAgrees <=> BusinessP!RowAgrees
  /\ Business!TypeOK <=> BusinessP!TypeOK
  BY
     DEF Business!Init, BusinessP!Init, Business!NoTask, BusinessP!NoTask, Business!Gens,
         BusinessP!Gens, Business!Free, BusinessP!Free, Business!NoCall, BusinessP!NoCall,
         Business!Next, BusinessP!Next, Business!Request, BusinessP!Request,
         Business!Create, BusinessP!Create, Business!broker, BusinessP!broker,
         Business!unlocked, BusinessP!unlocked, Business!Start, BusinessP!Start,
         Business!Resume, BusinessP!Resume, Business!MayResume, BusinessP!MayResume,
         Business!Pause, BusinessP!Pause, Business!Ended, BusinessP!Ended, Business!Cancel,
         BusinessP!Cancel, Business!Live, BusinessP!Live, Business!Status,
         BusinessP!Status, Business!Same, BusinessP!Same, Business!Fault, BusinessP!Fault,
         Business!Cardinality, BusinessP!Cardinality, Business!GetTask, BusinessP!GetTask,
         Business!Update, BusinessP!Update, Business!Blocked, BusinessP!Blocked,
         Business!Delete, BusinessP!Delete, Business!Recover, BusinessP!Recover,
         Business!RecoverAtOnce, BusinessP!RecoverAtOnce, Business!RecoverTasks,
         BusinessP!RecoverTasks, Business!RecoverRows, BusinessP!RecoverRows,
         Business!RecoverWrite, BusinessP!RecoverWrite, Business!Failure,
         BusinessP!Failure, Business!EarlyError, BusinessP!EarlyError, Business!Claimable,
         BusinessP!Claimable, Business!Ack, BusinessP!Ack, Business!Raise, BusinessP!Raise,
         Business!Result, BusinessP!Result, Business!FinishFails, BusinessP!FinishFails,
         Business!Go, BusinessP!Go, Business!Crash, BusinessP!Crash, Business!Terminate,
         BusinessP!Terminate, Business!Repeat, BusinessP!Repeat, Business!Carry,
         BusinessP!Carry, Business!Send, BusinessP!Send, Business!PublishFailed,
         BusinessP!PublishFailed, Business!Work, BusinessP!Work, Business!Take,
         BusinessP!Take, Business!Busy, BusinessP!Busy, Business!KeptTillDone,
         BusinessP!KeptTillDone, Business!Claim, BusinessP!Claim, Business!Refuse,
         BusinessP!Refuse, Business!Read, BusinessP!Read, Business!Check, BusinessP!Check,
         Business!Stopped, BusinessP!Stopped, Business!StartUnit, BusinessP!StartUnit,
         Business!EndUnit, BusinessP!EndUnit, Business!AllDone, BusinessP!AllDone,
         Business!Finish, BusinessP!Finish, Business!FinishPaused, BusinessP!FinishPaused,
         Business!MayFinish, BusinessP!MayFinish, Business!Post, BusinessP!Post,
         Business!PostRow, BusinessP!PostRow, Business!PostTask, BusinessP!PostTask,
         Business!ErrorRow, BusinessP!ErrorRow, Business!WriteRow, BusinessP!WriteRow,
         Business!Settle, BusinessP!Settle, Business!ErrorTask, BusinessP!ErrorTask,
         Business!Confirm, BusinessP!Confirm, Business!Confirms, BusinessP!Confirms,
         Business!Settling, BusinessP!Settling, Business!Return, BusinessP!Return,
         Business!RecordLost, BusinessP!RecordLost, Business!OneExecutor,
         BusinessP!OneExecutor, Business!Executing, BusinessP!Executing, Business!Outside,
         BusinessP!Outside, Business!RowAgrees, BusinessP!RowAgrees, Business!TypeOK,
         BusinessP!TypeOK

(* The two copies of ImportJob are the same. *)
LEMMA SameImport ==
  /\ Import!Init <=> ImportP!Init
  /\ Import!Next <=> ImportP!Next
  /\ Import!DatasetFollowsVerdict <=> ImportP!DatasetFollowsVerdict
  /\ Import!TypeOK <=> ImportP!TypeOK
  BY
     DEF Import!Init, ImportP!Init, Import!NoTask, ImportP!NoTask, Import!NoTx, ImportP!NoTx,
         Import!Gens, ImportP!Gens, Import!Free, ImportP!Free, Import!NoCall, ImportP!NoCall,
         Import!Next, ImportP!Next, Import!Request, ImportP!Request, Import!Pause,
         ImportP!Pause, Import!Ended, ImportP!Ended, Import!Open, ImportP!Open, Import!broker,
         ImportP!broker, Import!Cancel, ImportP!Cancel, Import!Live, ImportP!Live,
         Import!GetTask, ImportP!GetTask, Import!TimeOut, ImportP!TimeOut, Import!Fault,
         ImportP!Fault, Import!Cardinality, ImportP!Cardinality, Import!CreateJob,
         ImportP!CreateJob, Import!Resume, ImportP!Resume, Import!Transact, ImportP!Transact,
         Import!Sync, ImportP!Sync, Import!Commit, ImportP!Commit, Import!Leave, ImportP!Leave,
         Import!Failure, ImportP!Failure, Import!CommitFails, ImportP!CommitFails,
         Import!ApiDies, ImportP!ApiDies, Import!Raise, ImportP!Raise, Import!Go, ImportP!Go,
         Import!WorkerDies, ImportP!WorkerDies, Import!Terminate, ImportP!Terminate,
         Import!Ack, ImportP!Ack, Import!Repeat, ImportP!Repeat, Import!Restore,
         ImportP!Restore, Import!Carry, ImportP!Carry, Import!Enqueue, ImportP!Enqueue,
         Import!Send, ImportP!Send, Import!PublishFailed, ImportP!PublishFailed, Import!Work,
         ImportP!Work, Import!Take, ImportP!Take, Import!Busy, ImportP!Busy, Import!Claim,
         ImportP!Claim, Import!Progress, ImportP!Progress, Import!Stopped, ImportP!Stopped,
         Import!Check, ImportP!Check, Import!Item, ImportP!Item, Import!Drain, ImportP!Drain,
         Import!Merge, ImportP!Merge, Import!MayMerge, ImportP!MayMerge, Import!FailJob,
         ImportP!FailJob, Import!ReadJob, ImportP!ReadJob, Import!Ask, ImportP!Ask,
         Import!Settle, ImportP!Settle, Import!Confirm, ImportP!Confirm, Import!Return,
         ImportP!Return, Import!DatasetFollowsVerdict, ImportP!DatasetFollowsVerdict,
         Import!TypeOK, ImportP!TypeOK

---------------------------------------------------------------------------
(* The invariants of the two modules, each on its part. *)
BusinessInv == part = "business" => BusinessP!IInv /\ BusinessP!RowInv
ImportInv   == part = "import" => ImportP!IInv

(* A step of the composition is one of the part's own module. *)
LEMMA PartSteps ==
  ASSUME [Next]_allVars
  PROVE  /\ part' = part
         /\ part = "business" => [BusinessP!Next]_(BusinessP!businessVars)
         /\ part = "import" => [ImportP!Next]_(ImportP!importVars)
<1>1. CASE Next
  BY <1>1, SameBusiness, SameImport DEF Next
<1>2. CASE UNCHANGED allVars
  BY <1>2 DEF allVars, slots, BusinessP!businessVars, ImportP!importVars
<1> QED
  BY <1>1, <1>2

(* Both invariants hold always. *)
LEMMA BusinessInvAlways ==
  ASSUME IsFiniteSet(Workers)
  PROVE  Spec => []BusinessInv
<1>1. Init => BusinessInv
  BY SameBusiness, BusinessP!InitHolds, BusinessP!RowInvInit DEF Init, BusinessInv
<1>2. BusinessInv /\ [Next]_allVars => BusinessInv'
  <2> SUFFICES ASSUME BusinessInv, [Next]_allVars, part' = "business" PROVE BusinessInv'
    BY DEF BusinessInv
  <2>1. BusinessP!IInv /\ BusinessP!RowInv /\ [BusinessP!Next]_(BusinessP!businessVars)
    BY PartSteps DEF BusinessInv
  <2>2. BusinessP!IInv'
    BY <2>1, BusinessP!StepHolds DEF BusinessP!IsFiniteSet, IsFiniteSet
  <2>3. BusinessP!RowInv'
    BY <2>1, BusinessP!RowInvStep
  <2> QED BY <2>2, <2>3 DEF BusinessInv
<1> QED
  BY <1>1, <1>2, PTL DEF Spec

LEMMA ImportInvAlways ==
  ASSUME ImportP!Sorts, IsFiniteSet(Workers)
  PROVE  Spec => []ImportInv
<1>1. Init => ImportInv
  BY SameImport, ImportP!InitHolds DEF Init, ImportInv
<1>2. ImportInv /\ [Next]_allVars => ImportInv'
  <2> SUFFICES ASSUME ImportInv, [Next]_allVars, part' = "import" PROVE ImportInv'
    BY DEF ImportInv
  <2>1. ImportP!IInv /\ [ImportP!Next]_(ImportP!importVars)
    BY PartSteps DEF ImportInv
  <2>2. ImportP!IInv'
    BY <2>1, ImportP!StepHolds DEF ImportP!IsFiniteSet, IsFiniteSet
  <2> QED BY <2>2 DEF ImportInv
<1> QED
  BY <1>1, <1>2, PTL DEF Spec

(* One executor at a time, none after a confirmed stop; at most one unit   *)
(* begins after a stop (should_stop, confirm_stopped, claim_task).         *)
THEOREM ExecutorAlone ==
  ASSUME IsFiniteSet(Workers)
  PROVE  Spec => []OneExecutor
<1>1. BusinessInv => OneExecutor
  BY SameBusiness, BusinessP!InvariantGivesOneExecutor DEF BusinessInv, OneExecutor
<1> QED
  BY <1>1, BusinessInvAlways, PTL

(* The row of a business task that has ended or is paused says the same as *)
(* its task (_sync_business), but for the failed run of a benchmark whose  *)
(* unlocked write was overtaken (_recover_interrupted, run_benchmark).     *)
THEOREM RowsAgree ==
  ASSUME IsFiniteSet(Workers)
  PROVE  Spec => []RowAgrees
<1>1. BusinessInv => RowAgrees
  BY SameBusiness DEF BusinessInv, RowAgrees, BusinessP!RowInv
<1> QED
  BY <1>1, BusinessInvAlways, PTL

(* The dataset is written once, by a job that is completed; and, as long   *)
(* as no commit was refused, never for a task that failed or was cancelled *)
(* (merge_dataset, _sync_business, _commit).                               *)
THEOREM VerdictFollowed ==
  ASSUME MaxGens \in Nat, IsFiniteSet(Workers), Workers \cap Clients = {},
         {"api", "nobody"} \cap (Workers \cup Clients) = {}
  PROVE  Spec => []DatasetFollowsVerdict
<1>1. ImportP!Sorts
  BY DEF ImportP!Sorts
<1>2. ImportInv => DatasetFollowsVerdict
  BY SameImport, ImportP!InvariantGivesTheVerdict DEF ImportInv, DatasetFollowsVerdict
<1> QED
  BY <1>1, <1>2, ImportInvAlways, PTL

(* The types: among them, that no worker holds a message that the broker   *)
(* has let go, that no unit is saved beyond those there are, and that no   *)
(* row and no transaction names a generation that was never given out      *)
(* (acks_late of src/tasks, celery_task_id of the rows).                    *)
THEOREM TypesHold ==
  ASSUME Parts \subseteq {"business", "import"},
         MaxGens \in Nat, NUnits \in Nat, IsFiniteSet(Workers), Workers \cap Clients = {},
         {"api", "nobody"} \cap (Workers \cup Clients) = {}
  PROVE  Spec => []TypeOK
<1> DEFINE BTypes == part = "business" => BusinessP!IInv /\ BusinessP!TypeInv
<1> DEFINE ITypes == part = "import" => ImportP!IInv /\ ImportP!TypeInv
<1> DEFINE PartInv == part \in {"business", "import"} /\ BTypes /\ ITypes
<1>1. BusinessP!Counts
  BY DEF BusinessP!Counts, BusinessP!IsFiniteSet, IsFiniteSet
<1>2. ImportP!Counts /\ ImportP!Sorts
  BY DEF ImportP!Counts, ImportP!Sorts, ImportP!IsFiniteSet, IsFiniteSet
<1>3. Init => PartInv
  BY <1>1, <1>2, SameBusiness, SameImport, BusinessP!InitHolds, BusinessP!TypesInit,
     ImportP!InitHolds, ImportP!TypesInit DEF Init
<1>4. PartInv /\ [Next]_allVars => PartInv'
  <2> SUFFICES ASSUME PartInv, [Next]_allVars PROVE PartInv'
    OBVIOUS
  <2>1. part' = part
    BY PartSteps
  <2>2. CASE part = "business"
    <3>1. BusinessP!IInv /\ BusinessP!TypeInv /\ [BusinessP!Next]_(BusinessP!businessVars)
      BY <2>2, PartSteps
    <3>2. BusinessP!IInv'
      BY <3>1, BusinessP!StepHolds DEF BusinessP!IsFiniteSet, IsFiniteSet
    <3>3. BusinessP!TypeInv'
      BY <1>1, <3>1, <3>2, BusinessP!TypesStep
    <3> QED BY <2>1, <2>2, <3>2, <3>3
  <2>3. CASE part = "import"
    <3>1. ImportP!IInv /\ ImportP!TypeInv /\ [ImportP!Next]_(ImportP!importVars)
      BY <2>3, PartSteps
    <3>2. ImportP!IInv'
      BY <1>2, <3>1, ImportP!StepHolds DEF ImportP!IsFiniteSet, IsFiniteSet
    <3>3. ImportP!TypeInv'
      BY <1>2, <3>1, <3>2, ImportP!TypesStep
    <3> QED BY <2>1, <2>3, <3>2, <3>3
  <2> QED BY <2>2, <2>3
<1>5. PartInv => TypeOK
  <2>1. part = "business" /\ BTypes => Business!TypeOK
    BY <1>1, SameBusiness, BusinessP!InvariantGivesTypes
  <2>2. part = "import" /\ ITypes => Import!TypeOK
    BY <1>2, SameImport, ImportP!InvariantGivesTypes
  <2> QED BY <2>1, <2>2 DEF TypeOK
<1> QED
  BY <1>3, <1>4, <1>5, PTL DEF Spec
=============================================================================
