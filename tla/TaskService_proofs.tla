------------------------- MODULE TaskService_proofs -------------------------
(***************************************************************************)
(* Theorems about TaskService for any number of units, workers, runs,      *)
(* cancellers and crashes.                                                 *)
(***************************************************************************)
EXTENDS TaskService, FiniteSetTheorems, TLAPS

(* The units of a run are finitely many, and so is every set of them. *)
LEMMA UnitSets ==
  ASSUME NEW S, S \subseteq Units
  PROVE  IsFiniteSet(S) /\ Cardinality(S) \in Nat
<1>1. IsFiniteSet(Units)
  BY FS_Interval, ConstantsAssumption DEF Units
<1> QED
  BY <1>1, FS_Subset, FS_CardinalityType

(* Appending an event to a record yields a record. *)
LEMMA LoggedType ==
  ASSUME NEW r \in Records, NEW kind \in Kinds
  PROVE  Logged(r, kind) \in Records
<1>1. r.log \in Seq(Kinds)
  BY DEF Records
<1>2. Append(r.log, kind) \in Seq(Kinds)
  BY <1>1
<1> HIDE DEF Kinds
<1> QED
  BY <1>2 DEF Logged, Records

(* Recounting the settled units of a record yields a record. *)
LEMMA RecountType ==
  ASSUME NEW r \in Records
  PROVE  Recount(r) \in Records
<1>1. Cardinality(SettledUnits(r)) \in Nat
  BY UnitSets DEF SettledUnits
<1> QED
  BY <1>1 DEF Recount, Records

(* Requeueing the interrupted units of a record yields a record. *)
LEMMA PrepareResumeType ==
  ASSUME NEW r \in Records
  PROVE  PrepareResume(r) \in Records
<1> DEFINE q == [r EXCEPT
      !.cancel = FALSE,
      !.unit   = [u \in Units |-> IF @[u] \in {"running", "cancelled", "uncertain"}
                                  THEN "queued" ELSE @[u]]]
<1>1. q \in Records
  BY DEF Records, UnitStates
<1> QED
  BY <1>1, RecountType DEF PrepareResume

(* Merging two event lists yields an event list. *)
LEMMA LongerLogType ==
  ASSUME NEW own \in Seq(Kinds), NEW other \in Seq(Kinds)
  PROVE  LongerLog(own, other) \in Seq(Kinds)
  BY DEF LongerLog

(* The record that stands for "no file" is a record. *)
LEMMA AbsentType == Absent \in Records
  BY DEF Absent, Records, UnitStates, TaskStates, Terminal

---------------------------------------------------------------------------
(* The variables and the records of TaskService have their types. *)
THEOREM TypeCorrect == Spec => []TypeOK
<1>1. Init => TypeOK
  <2> SUFFICES ASSUME Init PROVE TypeOK
    OBVIOUS
  <2>1. orphans \in [Units -> Nat] /\ work \in [Units -> WorkStates]
    BY DEF Init, WorkStates
  <2>2. cmem \in [Cancellers -> Records]
    BY AbsentType DEF Init
  <2>3. cpc \in [Cancellers -> {"idle", "loaded", "signalled", "done"}]
    BY DEF Init
  <2> QED BY <2>1, <2>2, <2>3, AbsentType DEF Init, TypeOK, PCs, Returns
<1>2. TypeOK /\ [Next]_vars => TypeOK'
  <2> SUFFICES ASSUME TypeOK, [Next]_vars PROVE TypeOK'
    OBVIOUS
  <2> USE DEF runner, pool, others, counts
  <2>1. CASE Create
    <3>1. [Absent EXCEPT !.state = "queued"] \in Records
      BY AbsentType DEF Records, TaskStates
    <3>2. disk' \in Records
      BY <2>1, <3>1, LoggedType DEF Create, Kinds
    <3> QED BY <2>1, <3>2 DEF Create, TypeOK
  <2>2. CASE Fail
    <3>1. [disk EXCEPT !.state = "failed"] \in Records
      BY DEF TypeOK, Records, TaskStates, Terminal
    <3>2. mem' \in Records
      BY <2>2, <3>1, LoggedType DEF Fail, Kinds
    <3> QED BY <2>2, <3>2 DEF Fail, TypeOK, PCs, Returns
  <2>3. CASE Run(TRUE) \/ Run(FALSE)
    <3>1. mem' \in Records
      BY <2>3, PrepareResumeType DEF Run, TypeOK
    <3> QED BY <2>3, <3>1 DEF Run, TypeOK, PCs, Returns
  <2>4. CASE ResumeSave
    BY <2>4 DEF ResumeSave, TypeOK, PCs, Returns
  <2>5. CASE Enter
    <3>1. [mem EXCEPT !.cancel = FALSE, !.state = "running"] \in Records
      BY DEF TypeOK, Records, TaskStates
    <3>2. mem' \in Records
      BY <2>5, <3>1, LoggedType DEF Enter, Kinds
    <3>3. latch' \in BOOLEAN
      BY <2>5 DEF Enter, TypeOK, Records
    <3> QED BY <2>5, <3>2, <3>3 DEF Enter, TypeOK, PCs, Returns
  <2>6. CASE MergeLoad
    <3>1. mem' \in Records
      BY <2>6, LongerLogType DEF MergeLoad, TypeOK, Records
    <3> QED BY <2>6, <3>1 DEF MergeLoad, TypeOK, PCs, Returns
  <2>7. CASE Save
    BY <2>7, AbsentType DEF Save, TypeOK, PCs, Returns
  <2>8. CASE FinishRun
    <3> DEFINE r == [mem EXCEPT !.state = Verdict(mem)]
    <3>1. r \in Records
      BY DEF Verdict, TypeOK, Records, TaskStates, Terminal
    <3>2. Recount(r) \in Records
      BY <3>1, RecountType
    <3>3. mem' \in Records
      BY <2>8, <3>2, LoggedType DEF FinishRun, Kinds
    <3> QED BY <2>8, <3>3 DEF FinishRun, SaveThen, TypeOK, PCs, Returns
  <2>9. CASE CancelRun
    <3> DEFINE n == Cardinality(Queue) + Cardinality(pending)
               marks == [i \in 1 .. n |-> "unit_cancelled"]
               log == LongerLog(mem.log, disk.log) \o marks
               unit == [u \in Units |-> IF u \in Queue THEN "cancelled"
                                        ELSE IF u \in pending THEN "uncertain"
                                        ELSE mem.unit[u]]
    <3>1. n \in Nat
      BY UnitSets DEF Queue, TypeOK
    <3>2. marks \in Seq(Kinds)
      BY <3>1 DEF Kinds
    <3>3. LongerLog(mem.log, disk.log) \in Seq(Kinds)
      BY LongerLogType DEF TypeOK, Records
    <3>4. log \in Seq(Kinds)
      BY <3>2, <3>3
    <3>5. unit \in [Units -> UnitStates]
      BY DEF TypeOK, Records, UnitStates
    <3> HIDE DEF n, marks, log, unit
    <3>6. [mem EXCEPT !.cancel = TRUE, !.state = "cancelled",
                      !.unit = unit, !.log = log] \in Records
      BY <3>4, <3>5 DEF TypeOK, Records, TaskStates, Terminal
    <3>7. mem' = Logged([mem EXCEPT !.cancel = TRUE, !.state = "cancelled",
                                    !.unit = unit, !.log = log], "task_cancelled")
      BY <2>9 DEF CancelRun, unit, log, marks, n
    <3>8. mem' \in Records
      BY <3>6, <3>7, LoggedType DEF Kinds
    <3> QED BY <2>9, <3>8 DEF CancelRun, SaveThen, TypeOK, PCs, Returns
  <2>10. CASE PauseRun
    <3>1. LongerLog(mem.log, disk.log) \in Seq(Kinds)
      BY LongerLogType DEF TypeOK, Records
    <3>2. [mem EXCEPT !.state = "paused", !.log = LongerLog(@, disk.log)] \in Records
      BY <3>1 DEF TypeOK, Records, TaskStates
    <3>3. mem' \in Records
      BY <2>10, <3>2, LoggedType DEF PauseRun, Kinds
    <3> QED BY <2>10, <3>3 DEF PauseRun, SaveThen, TypeOK, PCs, Returns
  <2>11. CASE Proceed
    <3>1. LongerLog(mem.log, disk.log) \in Seq(Kinds)
      BY LongerLogType DEF TypeOK, Records
    <3>2. mem' \in Records
      BY <2>11, <3>1 DEF Proceed, TypeOK, Records
    <3> QED BY <2>11, <3>2 DEF Proceed, TypeOK, PCs, Returns
  <2>12. CASE StartUnit
    <3>1. PICK u \in Queue : mem' = Logged([mem EXCEPT !.unit[u] = "running"], "unit_started")
      BY <2>12 DEF StartUnit
    <3>2. [mem EXCEPT !.unit[u] = "running"] \in Records
      BY DEF TypeOK, Records, Queue, UnitStates
    <3>3. mem' \in Records
      BY <3>1, <3>2, LoggedType DEF Kinds
    <3> QED BY <2>12, <3>3 DEF StartUnit, SaveThen, TypeOK, PCs, Returns
  <2>13. CASE Submit
    BY <2>13 DEF Submit, Launching, TypeOK, PCs, Returns, WorkStates
  <2>14. CASE StopDispatch
    BY <2>14 DEF StopDispatch, TypeOK, PCs, Returns
  <2>15. CASE Poll
    BY <2>15 DEF Poll, TypeOK, PCs, Returns
  <2>16. CASE Collect
    <3>1. PICK u \in batch :
            /\ mem' = Recount(Logged([mem EXCEPT !.unit[u] =
                        IF work[u] = "ok" THEN "completed" ELSE "failed"],
                        IF work[u] = "ok" THEN "unit_completed" ELSE "unit_failed"))
            /\ pending' = pending \ {u}
            /\ batch' = batch \ {u}
            /\ work' = [work EXCEPT ![u] = "none"]
      BY <2>16 DEF Collect
    <3>2. [mem EXCEPT !.unit[u] = IF work[u] = "ok" THEN "completed" ELSE "failed"] \in Records
      BY DEF TypeOK, Records, UnitStates
    <3>3. mem' \in Records
      BY <3>1, <3>2, LoggedType, RecountType DEF Kinds
    <3>4. work' \in [Units -> WorkStates]
      BY <3>1 DEF TypeOK, WorkStates
    <3> QED BY <2>16, <3>1, <3>3, <3>4 DEF Collect, SaveThen, TypeOK, PCs, Returns
  <2>17. CASE Collected
    BY <2>17 DEF Collected, TypeOK, PCs, Returns
  <2>18. CASE Raise \/ LoadMissing
    BY <2>18, AbsentType DEF LoadMissing, Raise, TypeOK, PCs, Returns
  <2>19. CASE Unwind
    BY <2>19 DEF Unwind, TypeOK, PCs, Returns, WorkStates
  <2>20. CASE Join
    BY <2>20 DEF Join, TypeOK, PCs, Returns
  <2>21. CASE Drain
    <3>1. orphans' \in [Units -> Nat]
      BY <2>21 DEF Drain, TypeOK
    <3>2. work' \in [Units -> WorkStates]
      BY <2>21 DEF Drain, WorkStates
    <3> QED BY <2>21, <3>1, <3>2, AbsentType DEF Drain, TypeOK, PCs, Returns
  <2>22. CASE \E u \in Units : PoolStep(u) \/ OrphanEnd(u)
    BY <2>22 DEF PoolStep, WorkerStart, WorkerEnd, OrphanEnd, TypeOK, WorkStates
  <2>23. CASE \E c \in Cancellers : CancelStep(c)
    <3>1. PICK c \in Cancellers : CancelLoad(c) \/ CancelSignal(c) \/ CancelSave(c)
      BY <2>23 DEF CancelStep
    <3>2. CASE CancelLoad(c)
      BY <3>2 DEF CancelLoad, TypeOK
    <3>3. CASE CancelSignal(c)
      BY <3>3 DEF CancelSignal, TypeOK
    <3>4. CASE CancelSave(c)
      <4>1. [cmem[c] EXCEPT !.cancel = TRUE] \in Records
        BY DEF TypeOK, Records
      <4>2. disk' \in Records
        BY <3>4, <4>1, LoggedType DEF CancelSave, Kinds
      <4> QED BY <3>4, <4>2, AbsentType DEF CancelSave, TypeOK
    <3> QED BY <3>1, <3>2, <3>3, <3>4
  <2>24. CASE CleanList
    BY <2>24 DEF CleanList, TypeOK
  <2>25. CASE CleanDelete
    BY <2>25, AbsentType DEF CleanDelete, TypeOK
  <2>26. CASE Crash
    <3>1. orphans' \in [Units -> Nat] /\ work' \in [Units -> WorkStates]
      BY <2>26 DEF Crash, WorkStates
    <3>2. cpc' \in [Cancellers -> {"idle", "loaded", "signalled", "done"}]
      BY <2>26 DEF Crash, TypeOK
    <3>3. cmem' \in [Cancellers -> Records]
      BY <2>26, AbsentType DEF Crash, TypeOK
    <3>4. /\ pc' = "idle" /\ cont' = "idle" /\ mem' = Absent
          /\ pending' = {} /\ batch' = {} /\ pausing' = FALSE
          /\ latch' = FALSE /\ late' = 0 /\ crashes' = crashes + 1
          /\ UNCHANGED <<disk, cleaner, runs, cleans>>
      BY <2>26 DEF Crash
    <3>5. /\ disk' \in Records /\ mem' \in Records /\ pc' \in PCs /\ cont' \in Returns
      BY <3>4, AbsentType DEF TypeOK, PCs, Returns
    <3>6. /\ pending' \in SUBSET Units /\ batch' \in SUBSET Units
      BY <3>4 
    <3>7. pausing' \in BOOLEAN /\ latch' \in BOOLEAN
      BY <3>4 
    <3>8. late' \in Nat /\ crashes' \in Nat /\ runs' \in Nat /\ cleans' \in Nat
          /\ cleaner' \in {"idle", "asking"}
      BY <3>4 DEF TypeOK
    <3> QED BY <3>1, <3>2, <3>3, <3>5, <3>6, <3>7, <3>8 DEF TypeOK
  <2>27. CASE UNCHANGED vars
    BY <2>27 DEF vars, TypeOK
  <2> QED
    BY <2>1, <2>2, <2>3, <2>4, <2>5, <2>6, <2>7, <2>8, <2>9, <2>10, <2>11, <2>12,
       <2>13, <2>14, <2>15, <2>16, <2>17, <2>18, <2>19, <2>20, <2>21, <2>22, <2>23,
       <2>24, <2>25, <2>26, <2>27 DEF Next, RunnerStep
<1> QED
  BY <1>1, <1>2, PTL DEF Spec

---------------------------------------------------------------------------
(* The inductive invariants behind the safety properties *)

RunningUnits(r) == {u \in Units : r.unit[u] = "running"}

(* The runner is about to submit the unit it marked. *)
Submitting ==
  \/ pc = "submit"
  \/ pc \in {"merge", "save"} /\ cont = "submit"

(* The runner is in the loop, or in a save it returns to the loop from. *)
Looping ==
  \/ Submitting
  \/ pc \in {"loop", "dispatch", "poll", "collect"}
  \/ pc \in {"merge", "save"} /\ cont \in {"loop", "collect"}

(* What a record says of itself agrees with its units. *)
Sound(r) ==
  /\ r.state = "completed" => \A u \in Units : r.unit[u] = "completed"
  /\ r.state \in {"queued", "cancelled"} => RunningUnits(r) = {}
  /\ r.settled = Cardinality(SettledUnits(r))

(* Every copy of the record is sound, and the units the runner's copy marks *)
(* as running are the pending ones and the one it is about to submit. *)
RecordInv ==
  /\ Sound(disk) /\ Sound(mem)
  /\ \A c \in Cancellers : Sound(cmem[c])
  /\ pc \in {"resume_save", "enter"} => RunningUnits(mem) = {}
  /\ (pc = "idle" \/ BeforeTry) => pending = {}
  /\ Looping => mem.state = "running" /\ pending \subseteq RunningUnits(mem)
  /\ (Looping /\ ~Submitting) => RunningUnits(mem) \subseteq pending
  /\ (Submitting => \E u \in Units : u \notin pending /\ RunningUnits(mem) = pending \cup {u})

Busy == {u \in Units : work[u] # "none"}

(* The pool never holds more than the runner may have pending. *)
PoolInv ==
  /\ Cardinality(Busy) <= MaxWorkers
  /\ (pc = "idle" \/ BeforeTry) => pending = {} /\ Busy = {}
  /\ Looping => Busy \subseteq pending /\ Cardinality(pending) <= MaxWorkers
  /\ Submitting => Cardinality(pending) < MaxWorkers
  /\ WaitOnCancel => \A u \in Units : orphans[u] = 0

(* A unit can be late only while it is being submitted. *)
LateInv ==
  /\ late <= 1
  /\ late > 0 => latch
  /\ Submitting => late = 0

---------------------------------------------------------------------------
(* A cancellation by a thread of the runner's process lets at most one more *)
(* unit be submitted: the loop looks at the event before it marks a unit,   *)
(* and again before the next. *)
THEOREM OneLateUnit == Spec => []AtMostOneLateUnit
<1>1. Init => LateInv
  BY DEF Init, LateInv, Submitting
<1>2. TypeOK /\ LateInv /\ [Next]_vars => LateInv'
  <2> SUFFICES ASSUME TypeOK, LateInv, [Next]_vars PROVE LateInv'
    OBVIOUS
  <2> late \in Nat
    BY DEF TypeOK
  <2> USE DEF runner, pool, others, counts, LateInv, Submitting
  <2>1. CASE Create \/ Fail \/ Run(TRUE) \/ Run(FALSE)
    BY <2>1 DEF Create, Fail, Run
  <2>2. CASE ResumeSave \/ Enter \/ MergeLoad \/ Save
    BY <2>2 DEF ResumeSave, Enter, MergeLoad, Save
  <2>3. CASE FinishRun \/ CancelRun \/ PauseRun \/ Proceed
    BY <2>3 DEF FinishRun, CancelRun, PauseRun, Proceed, SaveThen
  <2>4. CASE StartUnit
    BY <2>4 DEF StartUnit, MayDispatch, SaveThen
  <2>5. CASE Submit
    BY <2>5 DEF Submit
  <2>6. CASE StopDispatch \/ Poll \/ Collect \/ Collected
    BY <2>6 DEF StopDispatch, Poll, Collect, Collected, SaveThen
  <2>7. CASE Raise \/ LoadMissing
    BY <2>7 DEF Raise, LoadMissing
  <2>8. CASE Unwind \/ Join \/ Drain \/ Crash
    BY <2>8 DEF Unwind, Join, Drain, Crash
  <2>9. CASE \E u \in Units : PoolStep(u) \/ OrphanEnd(u)
    BY <2>9 DEF PoolStep, WorkerStart, WorkerEnd, OrphanEnd
  <2>10. CASE \E c \in Cancellers : CancelStep(c)
    <3>1. PICK c \in Cancellers : CancelLoad(c) \/ CancelSignal(c) \/ CancelSave(c)
      BY <2>10 DEF CancelStep
    <3>2. UNCHANGED <<pc, cont, late>>
      BY <3>1 DEF CancelLoad, CancelSignal, CancelSave
    <3>3. latch => latch'
      BY <3>1 DEF CancelLoad, CancelSignal, CancelSave
    <3> QED BY <3>2, <3>3
  <2>11. CASE CleanList \/ CleanDelete
    BY <2>11 DEF CleanList, CleanDelete
  <2>12. CASE UNCHANGED vars
    BY <2>12 DEF vars
  <2> QED
    BY <2>1, <2>2, <2>3, <2>4, <2>5, <2>6, <2>7, <2>8, <2>9, <2>10, <2>11, <2>12
       DEF Next, RunnerStep
<1>3. LateInv => AtMostOneLateUnit
  BY DEF LateInv, AtMostOneLateUnit
<1> QED
  BY <1>1, <1>2, <1>3, TypeCorrect, PTL DEF Spec

(* PoolInv holds throughout. *)
LEMMA PoolInvAlways == Spec => []PoolInv
<1>1. Init => PoolInv
  <2> SUFFICES ASSUME Init PROVE PoolInv
    OBVIOUS
  <2>1. Busy = {} /\ pending = {} /\ pc = "idle" /\ \A u \in Units : orphans[u] = 0
    BY DEF Init, Busy
  <2>2. Cardinality({}) = 0
    BY FS_EmptySet
  <2> QED BY <2>1, <2>2, ConstantsAssumption DEF PoolInv, Looping, Submitting
<1>2. TypeOK /\ PoolInv /\ [Next]_vars => PoolInv'
  <2> SUFFICES ASSUME TypeOK, PoolInv, [Next]_vars PROVE PoolInv'
    OBVIOUS
  <2> USE DEF runner, pool, others, counts
  <2>a. MaxWorkers \in Nat /\ MaxWorkers > 0 /\ Cardinality({}) = 0
    BY ConstantsAssumption, FS_EmptySet
  <2>b. \A S, T \in SUBSET Units : S \subseteq T => Cardinality(S) <= Cardinality(T)
    BY UnitSets, FS_Subset
  <2>c. \A S \in SUBSET Units : Cardinality(S) \in Nat
    BY UnitSets
  <2>d. Busy \in SUBSET Units /\ Busy' \in SUBSET Units /\ pending \in SUBSET Units
    BY DEF Busy, TypeOK
  <2>1. CASE Create \/ Fail \/ Run(TRUE) \/ Run(FALSE)
    BY <2>1 DEF Create, Fail, Run, PoolInv, Busy, Looping, Submitting, BeforeTry
  <2>2. CASE ResumeSave \/ Enter
    BY <2>2, <2>a DEF ResumeSave, Enter, PoolInv, Busy, Looping, Submitting, BeforeTry
  <2>3. CASE MergeLoad
    <3>1. UNCHANGED <<cont, pending, work, orphans>> /\ pc = "merge" /\ pc' = "save"
      BY <2>3 DEF MergeLoad
    <3>2. Busy' = Busy
      BY <3>1 DEF Busy
    <3> QED BY <3>1, <3>2 DEF PoolInv, Looping, Submitting, BeforeTry
  <2>4. CASE Save
    <3>1. /\ UNCHANGED <<pending, work, orphans>>
          /\ pc = "save" /\ pc' = cont /\ cont' = "idle" /\ cont \in Returns
      BY <2>4 DEF Save, TypeOK
    <3>2. Busy' = Busy
      BY <3>1 DEF Busy
    <3> QED BY <3>1, <3>2 DEF PoolInv, Looping, Submitting, BeforeTry, Returns
  <2>5. CASE FinishRun \/ CancelRun \/ PauseRun \/ Proceed
    <3>1. /\ UNCHANGED <<work, orphans>> /\ pc = "loop" /\ pending' \in {{}, pending}
          /\ \/ pc' = "merge" /\ cont' = "unwind"
             \/ pc' = "dispatch" /\ pending' = pending
      BY <2>5 DEF FinishRun, CancelRun, PauseRun, Proceed, LoopLoad, SaveThen
    <3>2. Busy' = Busy
      BY <3>1 DEF Busy
    <3> QED BY <3>1, <3>2 DEF PoolInv, Looping, Submitting, BeforeTry
  <2>6. CASE StartUnit
    BY <2>6, <2>a, <2>c, <2>d DEF StartUnit, MayDispatch, SaveThen,
                PoolInv, Busy, Looping, Submitting, BeforeTry
  <2>7. CASE Submit
    <3>1. PICK u \in Units : /\ pending' = pending \cup {u}
                             /\ work' = [work EXCEPT ![u] = "submitted"]
      BY <2>7 DEF Submit, Launching
    <3>2. Busy' \subseteq pending'
      BY <2>7, <3>1 DEF Submit, PoolInv, Busy, Looping, Submitting, TypeOK
    <3>3. Cardinality(pending') <= Cardinality(pending) + 1
      BY <3>1, <2>c, <2>d, UnitSets, FS_AddElement
    <3>4. Cardinality(pending) < MaxWorkers
      BY <2>7 DEF Submit, PoolInv, Submitting
    <3>5. pending' \in SUBSET Units
      BY <3>1, <2>d
    <3>6. Cardinality(pending') <= MaxWorkers /\ Cardinality(Busy') <= MaxWorkers
      BY <2>a, <2>b, <2>c, <2>d, <3>2, <3>3, <3>4, <3>5
    <3> QED BY <2>7, <3>2, <3>6 DEF Submit, PoolInv, Looping, Submitting, BeforeTry
  <2>8. CASE StopDispatch \/ Poll \/ Collected
    BY <2>8 DEF StopDispatch, Poll, Collected, PoolInv, Busy, Looping, Submitting, BeforeTry
  <2>9. CASE Collect
    <3>1. PICK u \in batch : /\ pending' = pending \ {u}
                             /\ work' = [work EXCEPT ![u] = "none"]
      BY <2>9 DEF Collect
    <3>2. Busy' \subseteq pending' /\ Busy' \subseteq Busy
      BY <2>9, <3>1 DEF Collect, PoolInv, Busy, Looping, TypeOK
    <3>3. pending' \in SUBSET Units /\ pending' \subseteq pending
      BY <3>1, <2>d
    <3>4. Cardinality(pending) <= MaxWorkers /\ Cardinality(Busy) <= MaxWorkers
      BY <2>9 DEF Collect, PoolInv, Looping
    <3>5. Cardinality(pending') <= MaxWorkers /\ Cardinality(Busy') <= MaxWorkers
      BY <2>a, <2>b, <2>c, <2>d, <3>2, <3>3, <3>4
    <3> QED BY <2>9, <3>2, <3>5 DEF Collect, SaveThen, PoolInv, Looping, Submitting, BeforeTry
  <2>10. CASE Raise \/ LoadMissing
    BY <2>10 DEF Raise, LoadMissing, PoolInv, Busy, Looping, Submitting, BeforeTry
  <2>11. CASE Unwind
    <3>1. Busy' \subseteq Busy
      BY <2>11 DEF Unwind, Busy, TypeOK
    <3>2. Cardinality(Busy') <= MaxWorkers
      BY <2>a, <2>b, <2>c, <2>d, <3>1 DEF PoolInv
    <3> QED BY <2>11, <3>2 DEF Unwind, PoolInv, Looping, Submitting, BeforeTry
  <2>12. CASE Join
    BY <2>12 DEF Join, PoolInv, Busy, Looping, Submitting, BeforeTry
  <2>13. CASE Drain
    <3>1. Busy' = {} /\ pending' = {} /\ pc' = "idle"
      BY <2>13 DEF Drain, Busy
    <3>2. WaitOnCancel => \A u \in Units : orphans'[u] = 0
      BY <2>13 DEF Drain, PoolInv, TypeOK
    <3> QED BY <2>a, <3>1, <3>2 DEF PoolInv, Looping, Submitting
  <2>14. CASE \E u \in Units : PoolStep(u)
    <3>1. Busy' = Busy
      BY <2>14 DEF PoolStep, WorkerStart, WorkerEnd, Busy, TypeOK
    <3>2. UNCHANGED <<pc, cont, pending, orphans>>
      BY <2>14 DEF PoolStep, WorkerStart, WorkerEnd
    <3> QED BY <3>1, <3>2 DEF PoolInv, Looping, Submitting, BeforeTry
  <2>15. CASE \E u \in Units : OrphanEnd(u)
    BY <2>15 DEF OrphanEnd, PoolInv, Busy, Looping, Submitting, BeforeTry, TypeOK
  <2>16. CASE \E c \in Cancellers : CancelStep(c)
    <3>1. UNCHANGED <<pc, cont, pending, work, orphans>>
      BY <2>16 DEF CancelStep, CancelLoad, CancelSignal, CancelSave
    <3> QED BY <3>1 DEF PoolInv, Busy, Looping, Submitting, BeforeTry
  <2>17. CASE CleanList \/ CleanDelete
    BY <2>17 DEF CleanList, CleanDelete, PoolInv, Busy, Looping, Submitting, BeforeTry
  <2>18. CASE Crash
    <3>1. Busy' = {} /\ pending' = {} /\ pc' = "idle" /\ \A u \in Units : orphans'[u] = 0
      BY <2>18 DEF Crash, Busy
    <3> QED BY <2>a, <3>1 DEF PoolInv, Looping, Submitting
  <2>19. CASE UNCHANGED vars
    BY <2>19 DEF vars, PoolInv, Busy, Looping, Submitting, BeforeTry
  <2> QED
    BY <2>1, <2>2, <2>3, <2>4, <2>5, <2>6, <2>7, <2>8, <2>9, <2>10, <2>11, <2>12,
       <2>13, <2>14, <2>15, <2>16, <2>17, <2>18, <2>19 DEF Next, RunnerStep
<1> QED
  BY <1>1, <1>2, TypeCorrect, PTL DEF Spec

(* The pool never runs more calls at once than asked for; when run waits on *)
(* cancellation it also leaves no call behind for a later run to overlap. *)
THEOREM ConcurrencyBounded == Spec => []BoundedConcurrency
<1>1. TypeOK /\ PoolInv => BoundedConcurrency
  <2> SUFFICES ASSUME TypeOK, PoolInv PROVE BoundedConcurrency
    OBVIOUS
  <2>1. Executing \subseteq Busy /\ Busy \subseteq Units
    BY DEF Executing, Busy
  <2>2. Cardinality(Executing) <= Cardinality(Busy)
    BY <2>1, UnitSets, FS_Subset
  <2>3. Cardinality(Executing) \in Nat /\ Cardinality(Busy) \in Nat
    BY <2>1, UnitSets
  <2> QED BY <2>2, <2>3, ConstantsAssumption DEF PoolInv, BoundedConcurrency
<1> QED
  BY <1>1, PoolInvAlways, TypeCorrect, PTL

---------------------------------------------------------------------------
(* Soundness of a record depends on its state, units and count alone. *)
LEMMA SoundSame ==
  ASSUME NEW r, NEW q, Sound(r),
         q.state = r.state, q.unit = r.unit, q.settled = r.settled
  PROVE  Sound(q)
<1>1. SettledUnits(q) = SettledUnits(r) /\ RunningUnits(q) = RunningUnits(r)
  BY DEF SettledUnits, RunningUnits
<1> QED
  BY <1>1 DEF Sound

(* Appending an event leaves state, units and count alone. *)
LEMMA LoggedFields ==
  ASSUME NEW r \in Records, NEW kind
  PROVE  /\ Logged(r, kind).state = r.state
         /\ Logged(r, kind).cancel = r.cancel
         /\ Logged(r, kind).unit = r.unit
         /\ Logged(r, kind).settled = r.settled
  BY DEF Logged, Records

(* Recounting leaves state and units alone and makes the count exact. *)
LEMMA RecountFields ==
  ASSUME NEW r \in Records
  PROVE  /\ Recount(r).state = r.state
         /\ Recount(r).unit = r.unit
         /\ Recount(r).settled = Cardinality(SettledUnits(Recount(r)))
<1>1. Recount(r).state = r.state /\ Recount(r).unit = r.unit
  BY DEF Recount, Records
<1>2. Recount(r).settled = Cardinality(SettledUnits(r))
  BY DEF Recount, Records
<1>3. SettledUnits(Recount(r)) = SettledUnits(r)
  BY <1>1 DEF SettledUnits
<1> QED
  BY <1>1, <1>2, <1>3

(* A resume leaves no unit running and keeps a record sound. *)
LEMMA PrepareResumeSound ==
  ASSUME NEW r \in Records, Sound(r)
  PROVE  Sound(PrepareResume(r)) /\ RunningUnits(PrepareResume(r)) = {}
<1> DEFINE q == [r EXCEPT
      !.cancel = FALSE,
      !.unit   = [u \in Units |-> IF @[u] \in {"running", "cancelled", "uncertain"}
                                  THEN "queued" ELSE @[u]]]
<1>1. q \in Records
  BY DEF Records, UnitStates
<1>2. q.state = r.state
  BY DEF Records
<1>3. \A u \in Units : q.unit[u] = IF r.unit[u] \in {"running", "cancelled", "uncertain"}
                                   THEN "queued" ELSE r.unit[u]
  BY DEF Records
<1> HIDE DEF q
<1>4. PrepareResume(r) = Recount(q)
  BY DEF PrepareResume, q
<1>5. /\ Recount(q).state = r.state /\ Recount(q).unit = q.unit
      /\ Recount(q).settled = Cardinality(SettledUnits(Recount(q)))
  BY <1>1, <1>2, RecountFields
<1>6. RunningUnits(Recount(q)) = {}
  BY <1>3, <1>5 DEF RunningUnits
<1>7. r.state = "completed" => \A u \in Units : Recount(q).unit[u] = "completed"
  BY <1>3, <1>5 DEF Sound
<1> QED
  BY <1>4, <1>5, <1>6, <1>7 DEF Sound

(* "No file" is sound. *)
LEMMA AbsentSound == Sound(Absent) /\ RunningUnits(Absent) = {}
<1>1. SettledUnits(Absent) = {} /\ RunningUnits(Absent) = {}
  BY DEF SettledUnits, RunningUnits, Absent, Confirmed
<1>2. Cardinality({}) = 0
  BY FS_EmptySet
<1> QED
  BY <1>1, <1>2 DEF Sound, Absent

(* RecordInv is kept by a step that moves neither the runner's record nor   *)
(* the runner, and leaves sound whatever copies it writes. *)
LEMMA RecordInvElsewhere ==
  ASSUME RecordInv, UNCHANGED <<pc, cont, mem, pending>>,
         Sound(disk)', \A c \in Cancellers : Sound(cmem'[c])
  PROVE  RecordInv'
  BY DEF RecordInv, Looping, Submitting, BeforeTry, RunningUnits, Sound, SettledUnits

(* No file yet. *)
LEMMA RecordInvInit == Init => RecordInv
<1> SUFFICES ASSUME Init PROVE RecordInv
  OBVIOUS
<1>1. /\ disk = Absent /\ mem = Absent /\ pc = "idle" /\ pending = {}
      /\ \A c \in Cancellers : cmem[c] = Absent
  BY DEF Init
<1> QED
  BY <1>1, AbsentSound DEF RecordInv, Looping, Submitting

(* Each writer, one after the other. *)
LEMMA RecordInvStep == TypeOK /\ RecordInv /\ [Next]_vars => RecordInv'
<1> SUFFICES ASSUME TypeOK, RecordInv, [Next]_vars PROVE RecordInv'
  OBVIOUS
<1> USE DEF runner, pool, others, counts
<1>a. disk \in Records /\ mem \in Records /\ cont \in Returns /\ pending \subseteq Units
  BY DEF TypeOK
<1>b. Sound(disk) /\ Sound(mem) /\ \A c \in Cancellers : Sound(cmem[c])
  BY DEF RecordInv
<1>1. CASE Create
  <2> DEFINE q == [Absent EXCEPT !.state = "queued"]
  <2>1. q \in Records /\ q.state = "queued" /\ q.unit = Absent.unit /\ q.settled = Absent.settled
    BY AbsentType DEF Records, TaskStates
  <2>2. Sound(q)
    <3>1. SettledUnits(q) = SettledUnits(Absent) /\ RunningUnits(q) = {}
      BY <2>1, AbsentSound DEF SettledUnits, RunningUnits
    <3> QED BY <2>1, <3>1, AbsentSound DEF Sound
  <2> HIDE DEF q
  <2>3. Sound(disk')
    <3>1. disk' = Logged(q, "task_created")
      BY <1>1 DEF Create, q
    <3> QED BY <2>1, <2>2, <3>1, LoggedFields, SoundSame
  <2>4. UNCHANGED <<pc, cont, mem, pending, cmem>>
    BY <1>1 DEF Create
  <2> QED BY <1>b, <2>3, <2>4, RecordInvElsewhere DEF Sound
<1>2. CASE Fail
  <2> DEFINE q == [disk EXCEPT !.state = "failed"]
  <2>1. q \in Records /\ q.state = "failed" /\ q.unit = disk.unit /\ q.settled = disk.settled
    BY <1>a DEF Records, TaskStates, Terminal
  <2>2. Sound(q)
    <3>1. SettledUnits(q) = SettledUnits(disk)
      BY <2>1 DEF SettledUnits
    <3> QED BY <1>b, <2>1, <3>1 DEF Sound
  <2> HIDE DEF q
  <2>3. Sound(mem')
    <3>1. mem' = Logged(q, "task_failed")
      BY <1>2 DEF Fail, q
    <3> QED BY <2>1, <2>2, <3>1, LoggedFields, SoundSame
  <2>4. pc = "idle" /\ pc' = "save" /\ cont' = "idle" /\ UNCHANGED <<disk, pending, cmem>>
    BY <1>2 DEF Fail
  <2> QED BY <1>b, <2>3, <2>4 DEF RecordInv, Looping, Submitting, BeforeTry, Sound
<1>3. CASE Run(TRUE)
  <2>1. /\ mem' = PrepareResume(disk) /\ pc = "idle" /\ pc' = "resume_save"
        /\ UNCHANGED <<disk, pending, cmem>>
    BY <1>3 DEF Run
  <2>2. Sound(mem') /\ RunningUnits(mem') = {}
    BY <1>a, <1>b, <2>1, PrepareResumeSound
  <2> QED BY <1>b, <2>1, <2>2 DEF RecordInv, Looping, Submitting, BeforeTry, Sound, RunningUnits
<1>4. CASE Run(FALSE)
  <2>1. /\ mem' = disk /\ disk.state = "queued" /\ pc = "idle" /\ pc' = "enter"
        /\ UNCHANGED <<disk, pending, cmem>>
    BY <1>4 DEF Run
  <2>2. RunningUnits(mem') = {}
    BY <1>b, <2>1 DEF Sound
  <2> QED BY <1>b, <2>1, <2>2 DEF RecordInv, Looping, Submitting, BeforeTry, Sound, RunningUnits
<1>5. CASE ResumeSave
  <2>1. /\ disk' = mem /\ pc = "resume_save" /\ pc' = "enter"
        /\ UNCHANGED <<mem, pending, cmem>>
    BY <1>5 DEF ResumeSave
  <2> QED BY <1>b, <2>1 DEF RecordInv, Looping, Submitting, BeforeTry, Sound, RunningUnits
<1>6. CASE Enter
  <2> DEFINE q == [mem EXCEPT !.cancel = FALSE, !.state = "running"]
  <2>1. q \in Records /\ q.state = "running" /\ q.unit = mem.unit /\ q.settled = mem.settled
    BY <1>a DEF Records, TaskStates
  <2>2. Sound(q)
    <3>1. SettledUnits(q) = SettledUnits(mem)
      BY <2>1 DEF SettledUnits
    <3> QED BY <1>b, <2>1, <3>1 DEF Sound
  <2> HIDE DEF q
  <2>3. Sound(mem') /\ mem'.state = "running" /\ mem'.unit = mem.unit
    <3>1. mem' = Logged(q, "task_started")
      BY <1>6 DEF Enter, q
    <3> QED BY <2>1, <2>2, <3>1, LoggedFields, SoundSame
  <2>4. /\ pc = "enter" /\ pc' = "merge" /\ cont' = "loop" /\ UNCHANGED <<disk, pending, cmem>>
    BY <1>6 DEF Enter
  <2>5. pending = {} /\ RunningUnits(mem) = {}
    BY <2>4 DEF RecordInv, BeforeTry
  <2>6. RunningUnits(mem)' = {}
    BY <2>3, <2>5 DEF RunningUnits
  <2> QED BY <1>b, <2>3, <2>4, <2>5, <2>6 DEF RecordInv, Looping, Submitting, BeforeTry, Sound
<1>7. CASE MergeLoad
  <2>1. /\ mem'.state = mem.state /\ mem'.unit = mem.unit /\ mem'.settled = mem.settled
        /\ pc = "merge" /\ pc' = "save" /\ UNCHANGED <<disk, cont, pending, cmem>>
    BY <1>7, <1>a DEF MergeLoad, Records
  <2>2. Sound(mem') /\ RunningUnits(mem)' = RunningUnits(mem)
    BY <1>b, <2>1, SoundSame DEF RunningUnits
  <2> QED BY <1>b, <2>1, <2>2 DEF RecordInv, Looping, Submitting, BeforeTry, Sound
<1>8. CASE Save
  <2>1. /\ disk' = mem /\ pc = "save" /\ pc' = cont /\ cont' = "idle"
        /\ UNCHANGED <<pending, cmem>>
        /\ mem' = IF cont = "idle" THEN Absent ELSE mem
    BY <1>8 DEF Save
  <2>2. CASE cont = "idle"
    BY <1>b, <2>1, <2>2, AbsentSound DEF RecordInv, Looping, Submitting, BeforeTry, Sound
  <2>3. CASE cont # "idle"
    <3>1. RunningUnits(mem)' = RunningUnits(mem)
      BY <2>1, <2>3
    <3> QED BY <1>a, <1>b, <2>1, <2>3, <3>1
            DEF RecordInv, Looping, Submitting, BeforeTry, Returns, Sound
  <2> QED BY <2>2, <2>3
<1>9. CASE FinishRun
  <2> DEFINE r == [mem EXCEPT !.state = Verdict(mem)]
  <2>1. /\ r \in Records /\ r.unit = mem.unit
        /\ r.state = IF \A u \in Units : mem.unit[u] = "completed" THEN "completed" ELSE "failed"
    BY <1>a DEF Verdict, Records, TaskStates, Terminal
  <2> HIDE DEF r
  <2>2. Sound(Recount(r)) /\ Recount(r) \in Records
    BY <2>1, RecountFields, RecountType DEF Sound
  <2>3. Sound(mem')
    <3>1. mem' = Logged(Recount(r), "task_finished")
      BY <1>9 DEF FinishRun, r
    <3> QED BY <2>2, <3>1, LoggedFields, SoundSame
  <2>4. pc = "loop" /\ pc' = "merge" /\ cont' = "unwind" /\ UNCHANGED <<disk, pending, cmem>>
    BY <1>9 DEF FinishRun, SaveThen
  <2> QED BY <1>b, <2>3, <2>4 DEF RecordInv, Looping, Submitting, BeforeTry, Sound
<1>10. CASE CancelRun
  <2> DEFINE n == Cardinality(Queue) + Cardinality(pending)
             log == LongerLog(mem.log, disk.log) \o [i \in 1 .. n |-> "unit_cancelled"]
             unit == [u \in Units |-> IF u \in Queue THEN "cancelled"
                                      ELSE IF u \in pending THEN "uncertain"
                                      ELSE mem.unit[u]]
             q == [mem EXCEPT !.cancel = TRUE, !.state = "cancelled", !.unit = unit, !.log = log]
  <2>1. /\ mem' = [q EXCEPT !.log = Append(@, "task_cancelled")]
        /\ pending' = {} /\ pc = "loop" /\ pc' = "merge" /\ cont' = "unwind"
        /\ UNCHANGED <<disk, cmem>>
    BY <1>10 DEF CancelRun, SaveThen, LoopLoad, Logged
  <2> HIDE DEF log, unit
  <2>2. mem'.state = "cancelled" /\ mem'.unit = unit /\ mem'.settled = mem.settled
    BY <1>a, <2>1 DEF Records
  <2>3. RunningUnits(mem) = pending
    BY <2>1 DEF RecordInv, Looping, Submitting
  <2>4. RunningUnits(mem)' = {}
    BY <2>2, <2>3 DEF RunningUnits, unit
  <2>5. SettledUnits(mem') = SettledUnits(mem)
    BY <2>2, <2>3 DEF SettledUnits, RunningUnits, Confirmed, Queue, unit
  <2>6. Sound(mem')
    BY <1>b, <2>2, <2>4, <2>5 DEF Sound, RunningUnits
  <2> QED BY <1>b, <2>1, <2>6 DEF RecordInv, Looping, Submitting, BeforeTry, Sound
<1>11. CASE PauseRun
  <2> DEFINE q == [mem EXCEPT !.state = "paused", !.log = LongerLog(@, disk.log)]
  <2>1. /\ mem' = [q EXCEPT !.log = Append(@, "task_paused")]
        /\ pc = "loop" /\ pc' = "merge" /\ cont' = "unwind" /\ UNCHANGED <<disk, pending, cmem>>
    BY <1>11 DEF PauseRun, SaveThen, LoopLoad, Logged
  <2>2. mem'.state = "paused" /\ mem'.unit = mem.unit /\ mem'.settled = mem.settled
    BY <1>a, <2>1 DEF Records
  <2>3. SettledUnits(mem') = SettledUnits(mem)
    BY <2>2 DEF SettledUnits
  <2> QED BY <1>b, <2>1, <2>2, <2>3 DEF RecordInv, Looping, Submitting, BeforeTry, Sound
<1>12. CASE Proceed
  <2>1. /\ mem'.state = mem.state /\ mem'.unit = mem.unit /\ mem'.settled = mem.settled
        /\ pc = "loop" /\ pc' = "dispatch" /\ UNCHANGED <<disk, pending, cmem>>
    BY <1>12, <1>a DEF Proceed, LoopLoad, Records
  <2>2. Sound(mem') /\ RunningUnits(mem)' = RunningUnits(mem)
    BY <1>b, <2>1, SoundSame DEF RunningUnits
  <2> QED BY <1>b, <2>1, <2>2 DEF RecordInv, Looping, Submitting, BeforeTry, Sound
<1>13. CASE StartUnit
  <2>1. PICK u \in Queue : mem' = Logged([mem EXCEPT !.unit[u] = "running"], "unit_started")
    BY <1>13 DEF StartUnit
  <2>2. /\ pc = "dispatch" /\ pc' = "merge" /\ cont' = "submit"
        /\ UNCHANGED <<disk, pending, cmem>>
    BY <1>13 DEF StartUnit, SaveThen
  <2>3. /\ mem'.state = mem.state /\ mem'.settled = mem.settled
        /\ mem'.unit = [mem.unit EXCEPT ![u] = "running"]
    BY <1>a, <2>1 DEF Logged, Records
  <2>4. mem.state = "running" /\ RunningUnits(mem) = pending
    BY <2>2 DEF RecordInv, Looping, Submitting
  <2>5. u \in Units /\ mem.unit[u] = "queued" /\ u \notin pending
    BY <2>4 DEF Queue, RunningUnits
  <2>6. RunningUnits(mem)' = pending \cup {u}
    BY <1>a, <2>3, <2>4, <2>5 DEF RunningUnits, Records
  <2>7. SettledUnits(mem') = SettledUnits(mem)
    BY <1>a, <2>3, <2>5 DEF SettledUnits, Confirmed, Records
  <2>8. Sound(mem')
    BY <1>b, <2>3, <2>4, <2>7 DEF Sound
  <2> QED BY <1>b, <2>2, <2>3, <2>4, <2>5, <2>6, <2>8
          DEF RecordInv, Looping, Submitting, BeforeTry, Sound
<1>14. CASE Submit
  <2>1. PICK u \in Launching : pending' = pending \cup {u}
    BY <1>14 DEF Submit
  <2>2. pc = "submit" /\ pc' = "dispatch" /\ UNCHANGED <<disk, mem, cont, cmem>>
    BY <1>14 DEF Submit
  <2>3. PICK v \in Units : v \notin pending /\ RunningUnits(mem) = pending \cup {v}
    BY <2>2 DEF RecordInv, Submitting
  <2>4. u = v
    BY <2>1, <2>3 DEF Launching, RunningUnits
  <2>5. mem.state = "running" /\ RunningUnits(mem)' = pending'
    BY <2>1, <2>2, <2>3, <2>4 DEF RecordInv, Looping, Submitting, RunningUnits
  <2> QED BY <1>b, <2>2, <2>5 DEF RecordInv, Looping, Submitting, BeforeTry, Sound
<1>15. CASE StopDispatch \/ Poll \/ Collected
  <2>1. /\ pc \in {"dispatch", "poll", "collect"} /\ pc' \in {"poll", "loop", "collect"}
        /\ UNCHANGED <<disk, mem, pending, cmem>>
    BY <1>15 DEF StopDispatch, Poll, Collected
  <2>2. RunningUnits(mem)' = RunningUnits(mem)
    BY <2>1
  <2> QED BY <1>b, <2>1, <2>2 DEF RecordInv, Looping, Submitting, BeforeTry, Sound
<1>16. CASE Collect
  <2>1. PICK u \in batch :
          /\ mem' = Recount(Logged([mem EXCEPT !.unit[u] =
                      IF work[u] = "ok" THEN "completed" ELSE "failed"],
                      IF work[u] = "ok" THEN "unit_completed" ELSE "unit_failed"))
          /\ pending' = pending \ {u}
    BY <1>16 DEF Collect
  <2> DEFINE outcome == IF work[u] = "ok" THEN "completed" ELSE "failed"
             q == [mem EXCEPT !.unit[u] = outcome]
             r == Logged(q, IF work[u] = "ok" THEN "unit_completed" ELSE "unit_failed")
  <2>2. /\ pc = "collect" /\ pc' = "merge" /\ cont' = "collect" /\ UNCHANGED <<disk, cmem>>
    BY <1>16 DEF Collect, SaveThen
  <2>3. /\ q \in Records /\ q.state = mem.state
        /\ q.unit = [mem.unit EXCEPT ![u] = outcome]
    BY <1>a DEF Records, UnitStates
  <2> HIDE DEF q
  <2>4. r \in Records /\ r.state = mem.state /\ r.unit = q.unit
    BY <2>3, LoggedType, LoggedFields DEF Kinds
  <2> HIDE DEF r
  <2>5. mem' = Recount(r)
    BY <2>1 DEF r, q
  <2>6. /\ mem'.state = mem.state /\ mem'.unit = [mem.unit EXCEPT ![u] = outcome]
        /\ mem'.settled = Cardinality(SettledUnits(mem'))
    BY <2>3, <2>4, <2>5, RecountFields
  <2>7. mem.state = "running" /\ RunningUnits(mem) = pending
    BY <2>2 DEF RecordInv, Looping, Submitting
  <2>8. RunningUnits(mem)' = pending'
    BY <1>a, <2>1, <2>6, <2>7 DEF RunningUnits, Records
  <2>9. Sound(mem')
    BY <2>6, <2>7 DEF Sound
  <2> QED BY <1>b, <2>2, <2>6, <2>7, <2>8, <2>9
          DEF RecordInv, Looping, Submitting, BeforeTry, Sound
<1>17. CASE Raise \/ LoadMissing
  <2>1. Raise
    BY <1>17 DEF LoadMissing
  <2>2. CASE BeforeTry
    <3>1. pending = {} /\ pc' = "idle" /\ mem' = Absent /\ UNCHANGED <<disk, pending, cmem>>
      BY <2>1, <2>2 DEF Raise, RecordInv
    <3> QED BY <1>b, <3>1, AbsentSound DEF RecordInv, Looping, Submitting, Sound
  <2>3. CASE ~BeforeTry
    <3>1. pc' \in {"join", "unwind"} /\ UNCHANGED <<disk, mem, pending, cmem>>
      BY <2>1, <2>3 DEF Raise
    <3> QED BY <1>b, <3>1 DEF RecordInv, Looping, Submitting, BeforeTry, Sound
  <2> QED BY <2>2, <2>3
<1>18. CASE Unwind \/ Join
  <2>1. pc' = "drain" /\ UNCHANGED <<disk, mem, pending, cmem>>
    BY <1>18 DEF Unwind, Join
  <2> QED BY <1>b, <2>1 DEF RecordInv, Looping, Submitting, BeforeTry, Sound
<1>19. CASE Drain
  <2>1. pc' = "idle" /\ pending' = {} /\ mem' = Absent /\ UNCHANGED <<disk, cmem>>
    BY <1>19 DEF Drain
  <2> QED BY <1>b, <2>1, AbsentSound DEF RecordInv, Looping, Submitting, Sound
<1>20. CASE \E u \in Units : PoolStep(u) \/ OrphanEnd(u)
  <2>1. UNCHANGED <<disk, cmem, pc, cont, mem, pending>>
    BY <1>20 DEF PoolStep, WorkerStart, WorkerEnd, OrphanEnd
  <2> QED BY <1>b, <2>1, RecordInvElsewhere
<1>21. CASE \E c \in Cancellers : CancelStep(c)
  <2>1. PICK c \in Cancellers : CancelLoad(c) \/ CancelSignal(c) \/ CancelSave(c)
    BY <1>21 DEF CancelStep
  <2>2. UNCHANGED <<pc, cont, mem, pending>>
    BY <2>1 DEF CancelLoad, CancelSignal, CancelSave
  <2>3. CASE CancelLoad(c)
    <3>1. disk' = disk /\ \A d \in Cancellers : cmem'[d] \in {disk, cmem[d]}
      BY <2>3 DEF CancelLoad, TypeOK
    <3>2. \A d \in Cancellers : Sound(cmem'[d])
      BY <1>b, <3>1
    <3>3. Sound(disk)'
      BY <1>b, <3>1
    <3> QED BY <2>2, <3>2, <3>3, RecordInvElsewhere
  <2>4. CASE CancelSignal(c)
    <3>1. UNCHANGED <<disk, cmem>>
      BY <2>4 DEF CancelSignal
    <3> QED BY <1>b, <2>2, <3>1, RecordInvElsewhere
  <2>5. CASE CancelSave(c)
    <3> DEFINE q == [cmem[c] EXCEPT !.cancel = TRUE]
    <3>1. /\ q \in Records /\ q.state = cmem[c].state /\ q.unit = cmem[c].unit
          /\ q.settled = cmem[c].settled
      BY DEF TypeOK, Records
    <3>2. disk' = Logged(q, "cancel_requested") /\ \A d \in Cancellers : cmem'[d] \in {Absent, cmem[d]}
      BY <2>5 DEF CancelSave, TypeOK
    <3> HIDE DEF q
    <3>3. Sound(q)
      BY <1>b, <3>1, SoundSame
    <3>4. Sound(disk')
      BY <3>1, <3>2, <3>3, LoggedFields, SoundSame
    <3>5. Sound(disk)'
      BY <3>4 DEF Sound, RunningUnits, SettledUnits
    <3>6. \A d \in Cancellers : Sound(cmem'[d])
      BY <1>b, <3>2, AbsentSound
    <3> QED BY <2>2, <3>5, <3>6, RecordInvElsewhere
  <2> QED BY <2>1, <2>3, <2>4, <2>5
<1>22. CASE CleanList \/ CleanDelete
  <2>1. /\ disk' \in {disk, Absent} /\ UNCHANGED <<cmem, pc, cont, mem, pending>>
    BY <1>22 DEF CleanList, CleanDelete
  <2>2. Sound(disk)'
    BY <1>b, <2>1, AbsentSound
  <2> QED BY <1>b, <2>1, <2>2, RecordInvElsewhere
<1>23. CASE Crash
  <2>1. /\ pc' = "idle" /\ pending' = {} /\ mem' = Absent /\ disk' = disk
        /\ \A d \in Cancellers : cmem'[d] \in {Absent, cmem[d]}
    BY <1>23 DEF Crash
  <2>2. \A d \in Cancellers : Sound(cmem'[d])
    BY <1>b, <2>1, AbsentSound
  <2> QED BY <1>b, <2>1, <2>2, AbsentSound DEF RecordInv, Looping, Submitting, Sound
<1>24. CASE UNCHANGED vars
  <2>1. UNCHANGED <<disk, cmem, pc, cont, mem, pending>>
    BY <1>24 DEF vars
  <2> QED BY <1>b, <2>1, RecordInvElsewhere
<1> QED
  BY <1>1, <1>2, <1>3, <1>4, <1>5, <1>6, <1>7, <1>8, <1>9, <1>10, <1>11, <1>12, <1>13,
     <1>14, <1>15, <1>16, <1>17, <1>18, <1>19, <1>20, <1>21, <1>22, <1>23, <1>24
     DEF Next, RunnerStep

(* RecordInv holds throughout: the two theorems below read it. *)
LEMMA RecordInvAlways == Spec => []RecordInv
  BY RecordInvInit, RecordInvStep, TypeCorrect, PTL DEF Spec

(* The verdict on file always matches the units in it, however many         *)
(* cancellers, crashes and resumes write the file in between. *)
THEOREM VerdictSound == Spec => []VerdictMatchesUnits
<1>1. RecordInv => VerdictMatchesUnits
  BY DEF RecordInv, Sound, RunningUnits, VerdictMatchesUnits
<1> QED
  BY <1>1, RecordInvAlways, PTL

(* The count of settled units on file is always that of the units it is     *)
(* stored with. *)
THEOREM ProgressExact == Spec => []ProgressIsExact
<1>1. RecordInv => ProgressIsExact
  BY DEF RecordInv, Sound, ProgressIsExact
<1> QED
  BY <1>1, RecordInvAlways, PTL

---------------------------------------------------------------------------
(***************************************************************************)
(* When nobody calls request_cancel: the record is then written by the     *)
(* runner alone, which always saves a continuation of what is on file.     *)
(***************************************************************************)

(* The runner has a record that it may still save. *)
Holding ==
  pc \in {"resume_save", "enter", "merge", "save",
          "loop", "dispatch", "submit", "poll", "collect"}

Finished(r) == \A u \in Units : r.unit[u] = "completed"

(* Record s says everything that r says: its events and its outcomes. *)
Continues(r, s) ==
  /\ Len(r.log) <= Len(s.log)
  /\ \A i \in 1 .. Len(r.log) : s.log[i] = r.log[i]
  /\ \A u \in SettledUnits(r) : s.unit[u] = r.unit[u]

(* Record r marks each unit that the pool still holds for what it is. *)
Marks(r) == \A u \in Busy : r.unit[u] \in {"running", "uncertain"}

SoloInv ==
  /\ disk.state = "absent" => disk = Absent
  /\ Marks(disk)
  /\ Holding => mem.state # "absent" /\ Marks(mem) /\ Continues(disk, mem)
  /\ (pc = "idle" \/ BeforeTry) => batch = {}
  /\ Looping => batch \subseteq pending
  /\ pc = "submit" => (disk.unit = mem.unit \/ Finished(mem))
  /\ cleaner = "asking" => disk.state # "absent" /\ Finished(disk)
  /\ (Holding /\ disk.state = "absent") => Finished(mem)

Phases(r) == [u \in Units |-> PhaseOf(r.unit[u])]

(* One step of the ledger from the phases p to the phases q. *)
LedgerStep(p, q) ==
  \/ q = p
  \/ \E u \in Units :
       /\ p[u] = "todo"
       /\ Cardinality({v \in Units : p[v] = "inflight"}) < MaxWorkers
       /\ q = [p EXCEPT ![u] = "inflight"]
  \/ \E u \in Units, outcome \in {"done", "broken"} :
       p[u] = "inflight" /\ q = [p EXCEPT ![u] = outcome]
  \/ q = [u \in Units |-> IF p[u] = "inflight" THEN "unknown" ELSE p[u]]
  \/ q = [u \in Units |-> IF p[u] \in {"inflight", "unknown"} THEN "todo" ELSE p[u]]

SyncInv ==
  /\ cleaner = "idle"
  /\ disk.state = "absent" => disk = Absent
  /\ pc \in {"enter", "loop", "dispatch", "submit", "poll", "collect"} =>
       mem.unit = disk.unit
  /\ pc \in {"resume_save", "merge", "save"} => LedgerStep(Phases(disk), Phases(mem))
---------------------------------------------------------------------------
(* Continuation of records *)

(* Continues is a preorder. *)
LEMMA ContinuesItself ==
  ASSUME NEW r \in Records
  PROVE  Continues(r, r)
  BY DEF Continues, Records

(* ... and transitive. *)
LEMMA ContinuesThrough ==
  ASSUME NEW r \in Records, NEW s \in Records, NEW t \in Records,
         Continues(r, s), Continues(s, t)
  PROVE  Continues(r, t)
<1>1. Len(r.log) \in Nat /\ Len(s.log) \in Nat /\ Len(t.log) \in Nat
  BY DEF Records
<1>2. Len(r.log) <= Len(t.log)
  BY <1>1 DEF Continues
<1>3. \A i \in 1 .. Len(r.log) : t.log[i] = r.log[i]
  <2> SUFFICES ASSUME NEW i \in 1 .. Len(r.log) PROVE t.log[i] = r.log[i]
    OBVIOUS
  <2>1. i \in 1 .. Len(s.log)
    BY <1>1 DEF Continues
  <2> QED BY <2>1 DEF Continues
<1>4. \A u \in SettledUnits(r) : u \in SettledUnits(s)
  BY DEF Continues, SettledUnits
<1> QED
  BY <1>2, <1>3, <1>4 DEF Continues

(* An event more, whatever else of the record changes but its outcomes. *)
LEMMA ContinuesLogged ==
  ASSUME NEW r \in Records, NEW s \in Records, NEW kind \in Kinds,
         s.log = r.log \/ s.log = Append(r.log, kind),
         \A u \in SettledUnits(r) : s.unit[u] = r.unit[u]
  PROVE  Continues(r, s)
<1>1. r.log \in Seq(Kinds)
  BY DEF Records
<1>2. /\ Len(r.log) <= Len(s.log)
      /\ \A i \in 1 .. Len(r.log) : s.log[i] = r.log[i]
  BY <1>1
<1> QED
  BY <1>2 DEF Continues

(* There is nothing to continue before the first save. *)
LEMMA AnythingContinuesAbsent ==
  ASSUME NEW r \in Records
  PROVE  Continues(Absent, r)
<1>1. Len(Absent.log) = 0 /\ SettledUnits(Absent) = {}
  BY DEF Absent, SettledUnits, Confirmed
<1> QED
  BY <1>1 DEF Continues, Records

(* A continuation of a finished record is finished. *)
LEMMA FinishedStays ==
  ASSUME NEW r, NEW s, Continues(r, s), Finished(r)
  PROVE  Finished(s)
<1>1. \A u \in Units : u \in SettledUnits(r)
  BY DEF Finished, SettledUnits, Confirmed
<1> QED
  BY <1>1 DEF Continues, Finished

(* A merge of the event lists finds nothing new on file. *)
LEMMA NothingToMerge ==
  ASSUME NEW r \in Records, NEW s \in Records, Continues(r, s)
  PROVE  LongerLog(s.log, r.log) = s.log
<1>1. Len(r.log) \in Nat /\ Len(s.log) \in Nat
  BY DEF Records
<1> QED
  BY <1>1 DEF Continues, LongerLog

(* A resume forgets no outcome and no event. *)
LEMMA PrepareResumeContinues ==
  ASSUME NEW r \in Records
  PROVE  /\ PrepareResume(r).state = r.state
         /\ PrepareResume(r).unit =
              [u \in Units |-> IF r.unit[u] \in {"running", "cancelled", "uncertain"}
                               THEN "queued" ELSE r.unit[u]]
         /\ Continues(r, PrepareResume(r))
<1> DEFINE q == [r EXCEPT
      !.cancel = FALSE,
      !.unit   = [u \in Units |-> IF @[u] \in {"running", "cancelled", "uncertain"}
                                  THEN "queued" ELSE @[u]]]
<1>1. q \in Records /\ q.state = r.state /\ q.log = r.log
  BY DEF Records, UnitStates
<1>2. q.unit = [u \in Units |-> IF r.unit[u] \in {"running", "cancelled", "uncertain"}
                                THEN "queued" ELSE r.unit[u]]
  BY DEF Records
<1> HIDE DEF q
<1>3. PrepareResume(r) = Recount(q)
  BY DEF PrepareResume, q
<1>4. Recount(q).log = q.log /\ Recount(q).unit = q.unit /\ Recount(q).state = q.state
  BY <1>1 DEF Recount, Records
<1>5. PrepareResume(r) \in Records
  BY PrepareResumeType
<1>6. \A u \in SettledUnits(r) : q.unit[u] = r.unit[u]
  BY <1>2 DEF SettledUnits, Confirmed
<1>7. Continues(r, PrepareResume(r))
  BY <1>1, <1>3, <1>4, <1>5, <1>6, ContinuesLogged DEF Kinds
<1> QED
  BY <1>1, <1>2, <1>3, <1>4, <1>7

---------------------------------------------------------------------------
(* A step of the runner that edits its own record, or none, and saves nothing. *)
LEMMA SoloEdit ==
  ASSUME TypeOK, TypeOK', SoloInv, Holding, Holding',
         UNCHANGED <<disk, cleaner>>,
         Continues(mem, mem'), mem'.state # "absent",
         Marks(mem)', Marks(disk)',
         pc' # "submit",
         (pc = "idle" \/ BeforeTry)' => batch' = {},
         Looping' => batch' \subseteq pending'
  PROVE  SoloInv'
<1>1. disk \in Records /\ mem \in Records /\ mem' \in Records
  BY DEF TypeOK
<1>2. Continues(disk, mem')
  BY <1>1, ContinuesThrough DEF SoloInv
<1>3. Continues(disk, mem)'
  BY <1>2 DEF Continues, SettledUnits
<1>4. Finished(mem) => Finished(mem)'
  BY FinishedStays DEF Finished
<1>5. Finished(disk) => Finished(disk)'
  BY DEF Finished
<1> QED
  BY <1>3, <1>4, <1>5 DEF SoloInv

(* Nothing has been saved yet. *)
LEMMA SoloInit == Init => SoloInv
<1> SUFFICES ASSUME Init PROVE SoloInv
  OBVIOUS
<1>1. disk = Absent /\ Busy = {} /\ pc = "idle" /\ batch = {} /\ cleaner = "idle"
  BY DEF Init, Busy
<1> QED
  BY <1>1 DEF SoloInv, Marks, Holding, Looping, Submitting

(* One step per action, as everywhere. *)
LEMMA SoloStep ==
  ASSUME Cancellers = {}, TypeOK, TypeOK', RecordInv, RecordInv', PoolInv, SoloInv, [Next]_vars
  PROVE  SoloInv'
<1> USE DEF runner, pool, others, counts
<1>a. disk \in Records /\ mem \in Records /\ disk' \in Records /\ mem' \in Records /\ cont \in Returns
  BY DEF TypeOK
<1>b. (pc = "idle" \/ BeforeTry) => Busy = {} /\ pending = {} /\ batch = {}
  BY DEF PoolInv, SoloInv
<1>c. Looping => Busy \subseteq pending /\ pending \subseteq RunningUnits(mem) /\ batch \subseteq pending
  BY DEF PoolInv, RecordInv, SoloInv
<1>1. CASE Create
  <2>1. /\ pc = "idle" /\ disk.state = "absent" /\ UNCHANGED <<runner, work, cleaner>>
        /\ disk' = Logged([Absent EXCEPT !.state = "queued"], "task_created")
    BY <1>1 DEF Create
  <2>2. disk'.state = "queued"
    BY <2>1 DEF Logged, Absent
  <2>3. Busy' = {}
    BY <1>b, <2>1 DEF Busy
  <2> QED BY <2>1, <2>2, <2>3 DEF SoloInv, Marks, Holding, Looping, Submitting, BeforeTry
<1>2. CASE Fail
  <2> DEFINE q == [disk EXCEPT !.state = "failed"]
  <2>1. /\ pc = "idle" /\ disk.state # "absent" /\ pc' = "save" /\ cont' = "idle"
        /\ UNCHANGED <<disk, pending, batch, work, cleaner>>
        /\ mem' = Logged(q, "task_failed")
    BY <1>2 DEF Fail
  <2>2. /\ mem'.state = "failed" /\ mem'.unit = disk.unit
        /\ mem'.log = Append(disk.log, "task_failed")
    BY <1>a, <2>1 DEF Logged, Records
  <2>3. Continues(disk, mem')
    BY <1>a, <2>2, ContinuesLogged DEF Kinds
  <2>4. Continues(disk, mem)'
    BY <2>1, <2>3 DEF Continues, SettledUnits
  <2>5. Busy' = {}
    BY <1>b, <2>1 DEF Busy
  <2> QED BY <1>b, <2>1, <2>2, <2>4, <2>5
          DEF SoloInv, Marks, Holding, Looping, Submitting, BeforeTry, Finished
<1>3. CASE Run(TRUE) \/ Run(FALSE)
  <2>1. /\ pc = "idle" /\ disk.state # "absent" /\ pc' \in {"resume_save", "enter"}
        /\ mem' \in {disk, PrepareResume(disk)}
        /\ UNCHANGED <<disk, pending, batch, work, cleaner>>
    BY <1>3 DEF Run
  <2>2. mem'.state = disk.state /\ Continues(disk, mem')
    BY <1>a, <2>1, ContinuesItself, PrepareResumeContinues
  <2>3. Continues(disk, mem)'
    BY <2>1, <2>2 DEF Continues, SettledUnits
  <2>4. Busy' = {}
    BY <1>b, <2>1 DEF Busy
  <2> QED BY <1>b, <2>1, <2>2, <2>3, <2>4
          DEF SoloInv, Marks, Holding, Looping, Submitting, BeforeTry, Finished
<1>4. CASE ResumeSave
  <2>1. /\ pc = "resume_save" /\ pc' = "enter" /\ disk' = mem
        /\ UNCHANGED <<mem, pending, batch, work, cleaner>>
    BY <1>4 DEF ResumeSave
  <2>2. Busy' = {} /\ batch' = {}
    BY <1>b, <2>1 DEF Busy, BeforeTry
  <2>3. Continues(disk, mem)'
    BY <1>a, <2>1, ContinuesItself DEF Continues, SettledUnits
  <2>4. Finished(disk) => Finished(disk)'
    BY <2>1, FinishedStays DEF SoloInv, Holding, Finished
  <2>5. mem.state # "absent"
    BY <2>1 DEF SoloInv, Holding
  <2> QED BY <2>1, <2>2, <2>3, <2>4, <2>5
          DEF SoloInv, Marks, Holding, Looping, Submitting, BeforeTry
<1>5. CASE Enter
  <2>1. /\ pc = "enter" /\ pc' = "merge" /\ cont' = "loop"
        /\ UNCHANGED <<disk, pending, batch, work, cleaner>>
        /\ mem' = Logged([mem EXCEPT !.cancel = FALSE, !.state = "running"], "task_started")
    BY <1>5 DEF Enter
  <2>2. /\ mem'.state = "running" /\ mem'.unit = mem.unit
        /\ mem'.log = Append(mem.log, "task_started")
    BY <1>a, <2>1 DEF Logged, Records
  <2>3. Continues(mem, mem')
    BY <1>a, <2>2, ContinuesLogged DEF Kinds
  <2>4. Busy' = {} /\ batch' = {}
    BY <1>b, <2>1 DEF Busy, BeforeTry
  <2> QED BY <2>1, <2>2, <2>3, <2>4, SoloEdit DEF Marks, Holding
<1>6. CASE MergeLoad
  <2>1. /\ pc = "merge" /\ pc' = "save" /\ UNCHANGED <<disk, cont, pending, batch, work, cleaner>>
        /\ mem' = [mem EXCEPT !.log = LongerLog(@, disk.log), !.cancel = @ \/ disk.cancel]
    BY <1>6 DEF MergeLoad
  <2>2. LongerLog(mem.log, disk.log) = mem.log
    BY <1>a, <2>1, NothingToMerge DEF SoloInv, Holding
  <2>3. mem'.state = mem.state /\ mem'.unit = mem.unit /\ mem'.log = mem.log
    BY <1>a, <2>1, <2>2 DEF Records
  <2>4. Continues(mem, mem')
    BY <1>a, <2>3, ContinuesLogged DEF Kinds
  <2>5. mem.state # "absent" /\ Marks(mem)' /\ Marks(disk)'
    BY <2>1, <2>3 DEF SoloInv, Holding, Marks, Busy
  <2>6. /\ (pc = "idle" \/ BeforeTry)' => batch' = {}
        /\ Looping' => batch' \subseteq pending'
    BY <1>b, <1>c, <2>1 DEF Looping, Submitting, BeforeTry
  <2> QED BY <2>1, <2>3, <2>4, <2>5, <2>6, SoloEdit DEF Holding
<1>7. CASE Save
  <2>1. /\ pc = "save" /\ pc' = cont /\ cont' = "idle" /\ disk' = mem
        /\ UNCHANGED <<pending, batch, work, cleaner>>
        /\ mem' = IF cont = "idle" THEN Absent ELSE mem
    BY <1>7 DEF Save
  <2>2. mem.state # "absent" /\ Marks(mem) /\ Continues(disk, mem)
    BY <2>1 DEF SoloInv, Holding
  <2>3. Marks(disk)' /\ (Finished(disk) => Finished(disk)')
    BY <2>1, <2>2, FinishedStays DEF Marks, Busy, Finished
  <2>4. CASE cont \in {"idle", "unwind"}
    BY <1>b, <2>1, <2>2, <2>3, <2>4 DEF SoloInv, Holding, Looping, Submitting, BeforeTry
  <2>5. CASE cont \in {"loop", "submit", "collect"}
    <3>1. mem' = mem /\ Marks(mem)'
      BY <2>1, <2>2, <2>5 DEF Marks, Busy
    <3>2. Continues(disk, mem)'
      BY <1>a, <2>1, <3>1, ContinuesItself DEF Continues, SettledUnits
    <3>3. Looping' => batch' \subseteq pending'
      BY <1>b, <1>c, <2>1, <2>5 DEF Looping, Submitting, BeforeTry
    <3> QED BY <2>1, <2>2, <2>3, <2>5, <3>1, <3>2, <3>3
            DEF SoloInv, Holding, BeforeTry
  <2> QED BY <1>a, <2>4, <2>5 DEF Returns
<1>8. CASE FinishRun
  <2> DEFINE q == [mem EXCEPT !.state = Verdict(mem)]
  <2>1. /\ pc = "loop" /\ pc' = "merge" /\ cont' = "unwind" /\ pending = {}
        /\ UNCHANGED <<disk, pending, batch, work, cleaner>>
        /\ mem' = Logged(Recount(q), "task_finished")
    BY <1>8 DEF FinishRun, SaveThen
  <2>2. q.state # "absent" /\ q.unit = mem.unit /\ q.log = mem.log /\ q \in Records
    BY <1>a DEF Verdict, Records, TaskStates, Terminal
  <2> HIDE DEF q
  <2>3. Recount(q).state # "absent" /\ Recount(q).unit = mem.unit /\ Recount(q).log = mem.log
        /\ Recount(q) \in Records
    BY <2>2, RecountType DEF Recount, Records
  <2>4. /\ mem'.state # "absent" /\ mem'.unit = mem.unit
        /\ mem'.log = Append(mem.log, "task_finished")
    BY <2>1, <2>3 DEF Logged, Records
  <2>5. Continues(mem, mem')
    BY <1>a, <2>4, ContinuesLogged DEF Kinds
  <2>6. Busy' = {}
    BY <1>c, <2>1 DEF Looping, Busy
  <2> QED BY <2>1, <2>4, <2>5, <2>6, SoloEdit
          DEF Holding, Marks, Looping, Submitting, BeforeTry
<1>9. CASE CancelRun
  <2> DEFINE n == Cardinality(Queue) + Cardinality(pending)
             marks == [i \in 1 .. n |-> "unit_cancelled"]
             unit == [u \in Units |-> IF u \in Queue THEN "cancelled"
                                      ELSE IF u \in pending THEN "uncertain"
                                      ELSE mem.unit[u]]
  <2>1. /\ pc = "loop" /\ pc' = "merge" /\ cont' = "unwind"
        /\ UNCHANGED <<disk, batch, work, cleaner>>
        /\ mem' = Logged([mem EXCEPT !.cancel = TRUE, !.state = "cancelled", !.unit = unit,
                            !.log = LongerLog(@, disk.log) \o marks], "task_cancelled")
    BY <1>9 DEF CancelRun, SaveThen, LoopLoad
  <2>2. LongerLog(mem.log, disk.log) = mem.log
    BY <1>a, <2>1, NothingToMerge DEF SoloInv, Holding
  <2>3. n \in Nat
    <3>1. Queue \subseteq Units /\ pending \subseteq Units
      BY DEF Queue, TypeOK
    <3>2. Cardinality(Queue) \in Nat /\ Cardinality(pending) \in Nat
      BY <3>1, UnitSets
    <3> QED BY <3>2
  <2>4. marks \in Seq(Kinds) /\ mem.log \in Seq(Kinds)
    BY <1>a, <2>3 DEF Kinds, Records
  <2> HIDE DEF n, marks, unit
  <2>5. /\ mem'.state = "cancelled" /\ mem'.unit = unit
        /\ mem'.log = Append(mem.log \o marks, "task_cancelled")
    BY <1>a, <2>1, <2>2 DEF Logged, Records
  <2>6. /\ Len(mem.log) <= Len(mem'.log)
        /\ \A i \in 1 .. Len(mem.log) : mem'.log[i] = mem.log[i]
    BY <2>4, <2>5
  <2>7. Busy \subseteq pending /\ pending \subseteq RunningUnits(mem)
    BY <1>c, <2>1 DEF Looping
  <2>8. \A u \in SettledUnits(mem) : mem'.unit[u] = mem.unit[u]
    BY <2>5, <2>7 DEF unit, SettledUnits, Confirmed, RunningUnits, Queue
  <2>9. Continues(mem, mem')
    BY <2>6, <2>8 DEF Continues
  <2>10. \A u \in Busy : mem'.unit[u] = "uncertain"
    BY <2>5, <2>7 DEF unit, RunningUnits, Queue
  <2>11. Marks(mem)' /\ Marks(disk)'
    BY <2>1, <2>10 DEF SoloInv, Marks, Busy
  <2> QED BY <2>1, <2>5, <2>9, <2>11, SoloEdit DEF Holding, Looping, Submitting, BeforeTry
<1>10. CASE PauseRun
  <2>1. /\ pc = "loop" /\ pc' = "merge" /\ cont' = "unwind" /\ pending = {}
        /\ UNCHANGED <<disk, batch, work, cleaner>>
        /\ mem' = Logged([mem EXCEPT !.state = "paused", !.log = LongerLog(@, disk.log)],
                         "task_paused")
    BY <1>10 DEF PauseRun, SaveThen, LoopLoad
  <2>2. LongerLog(mem.log, disk.log) = mem.log
    BY <1>a, <2>1, NothingToMerge DEF SoloInv, Holding
  <2>3. /\ mem'.state = "paused" /\ mem'.unit = mem.unit
        /\ mem'.log = Append(mem.log, "task_paused")
    BY <1>a, <2>1, <2>2 DEF Logged, Records
  <2>4. Continues(mem, mem')
    BY <1>a, <2>3, ContinuesLogged DEF Kinds
  <2>5. Busy' = {}
    BY <1>c, <2>1 DEF Looping, Busy
  <2> QED BY <2>1, <2>3, <2>4, <2>5, SoloEdit DEF Holding, Marks, Looping, Submitting, BeforeTry
<1>11. CASE Proceed
  <2>1. /\ pc = "loop" /\ pc' = "dispatch" /\ UNCHANGED <<disk, pending, batch, work, cleaner>>
        /\ mem' = [mem EXCEPT !.log = LongerLog(@, disk.log)]
    BY <1>11 DEF Proceed, LoopLoad
  <2>2. LongerLog(mem.log, disk.log) = mem.log
    BY <1>a, <2>1, NothingToMerge DEF SoloInv, Holding
  <2>3. mem' = mem
    BY <1>a, <2>1, <2>2 DEF Records
  <2>4. Continues(mem, mem') /\ mem.state # "absent"
    BY <1>a, <2>1, <2>3, ContinuesItself DEF SoloInv, Holding
  <2>5. Marks(mem)' /\ Marks(disk)'
    BY <2>1, <2>3 DEF SoloInv, Marks, Busy, Holding
  <2> QED BY <1>c, <2>1, <2>3, <2>4, <2>5, SoloEdit DEF Holding, Looping, Submitting, BeforeTry
<1>12. CASE StartUnit
  <2>1. PICK u \in Queue : mem' = Logged([mem EXCEPT !.unit[u] = "running"], "unit_started")
    BY <1>12 DEF StartUnit
  <2>2. /\ pc = "dispatch" /\ pc' = "merge" /\ cont' = "submit"
        /\ UNCHANGED <<disk, pending, batch, work, cleaner>>
    BY <1>12 DEF StartUnit, SaveThen
  <2>3. /\ mem'.state = mem.state /\ mem'.log = Append(mem.log, "unit_started")
        /\ mem'.unit = [mem.unit EXCEPT ![u] = "running"]
    BY <1>a, <2>1 DEF Logged, Records
  <2>4. u \in Units /\ mem.unit[u] = "queued"
    BY DEF Queue
  <2>5. \A v \in SettledUnits(mem) : mem'.unit[v] = mem.unit[v]
    BY <1>a, <2>3, <2>4 DEF SettledUnits, Confirmed, Records
  <2>6. Continues(mem, mem')
    BY <1>a, <2>3, <2>5, ContinuesLogged DEF Kinds
  <2>7. mem.state # "absent" /\ Marks(mem)' /\ Marks(disk)'
    BY <1>a, <2>2, <2>3, <2>4 DEF SoloInv, Marks, Busy, Holding, Records
  <2> QED BY <1>c, <2>2, <2>3, <2>6, <2>7, SoloEdit DEF Holding, Looping, Submitting, BeforeTry
<1>13. CASE Submit
  <2>1. PICK u \in Launching : /\ pending' = pending \cup {u}
                               /\ work' = [work EXCEPT ![u] = "submitted"]
    BY <1>13 DEF Submit
  <2>2. pc = "submit" /\ pc' = "dispatch" /\ UNCHANGED <<disk, mem, cont, batch, cleaner>>
    BY <1>13 DEF Submit
  <2>3. u \in Units /\ mem.unit[u] = "running" /\ disk.unit[u] = "running"
    BY <2>2 DEF Launching, SoloInv, Finished
  <2>4. Busy' = Busy \cup {u}
    BY <2>1, <2>3 DEF Busy, TypeOK
  <2>5. Marks(mem)' /\ Marks(disk)'
    BY <2>2, <2>3, <2>4 DEF SoloInv, Marks, Holding
  <2>6. Continues(mem, mem') /\ mem.state # "absent"
    BY <1>a, <2>2, ContinuesItself DEF SoloInv, Holding
  <2> QED BY <1>c, <2>1, <2>2, <2>5, <2>6, SoloEdit DEF Holding, Looping, Submitting, BeforeTry
<1>14. CASE StopDispatch \/ Poll \/ Collected
  <2>1. /\ pc \in {"dispatch", "poll", "collect"} /\ pc' \in {"poll", "loop", "collect"}
        /\ UNCHANGED <<disk, mem, pending, work, cleaner>>
        /\ batch' = batch \/ batch' \subseteq pending
    BY <1>14 DEF StopDispatch, Poll, Collected
  <2>2. Continues(mem, mem') /\ mem.state # "absent"
    BY <1>a, <2>1, ContinuesItself DEF SoloInv, Holding
  <2>3. Marks(mem)' /\ Marks(disk)'
    BY <2>1 DEF SoloInv, Marks, Busy, Holding
  <2> QED BY <1>c, <2>1, <2>2, <2>3, SoloEdit DEF Holding, Looping, Submitting, BeforeTry
<1>15. CASE Collect
  <2>1. PICK u \in batch :
          /\ mem' = Recount(Logged([mem EXCEPT !.unit[u] =
                      IF work[u] = "ok" THEN "completed" ELSE "failed"],
                      IF work[u] = "ok" THEN "unit_completed" ELSE "unit_failed"))
          /\ pending' = pending \ {u}
          /\ batch' = batch \ {u}
          /\ work' = [work EXCEPT ![u] = "none"]
    BY <1>15 DEF Collect
  <2> DEFINE outcome == IF work[u] = "ok" THEN "completed" ELSE "failed"
             kind == IF work[u] = "ok" THEN "unit_completed" ELSE "unit_failed"
             q == [mem EXCEPT !.unit[u] = outcome]
  <2>2. /\ pc = "collect" /\ pc' = "merge" /\ cont' = "collect" /\ UNCHANGED <<disk, cleaner>>
    BY <1>15 DEF Collect, SaveThen
  <2>3. u \in Units /\ mem.unit[u] = "running"
    BY <1>c, <2>2 DEF Looping, RunningUnits
  <2>4. /\ q \in Records /\ q.state = mem.state /\ q.log = mem.log
        /\ q.unit = [mem.unit EXCEPT ![u] = outcome]
    BY <1>a DEF Records, UnitStates
  <2>5. kind \in Kinds
    BY DEF Kinds
  <2> HIDE DEF q, kind
  <2>6. /\ Logged(q, kind) \in Records
        /\ Logged(q, kind).state = mem.state /\ Logged(q, kind).unit = q.unit
        /\ Logged(q, kind).log = Append(mem.log, kind)
    BY <2>4, <2>5, LoggedType DEF Logged, Records
  <2>7. mem' = Recount(Logged(q, kind))
    BY <2>1 DEF q, kind
  <2>8. mem'.state = mem.state /\ mem'.unit = q.unit /\ mem'.log = Append(mem.log, kind)
    BY <2>6, <2>7 DEF Recount, Records
  <2>9. \A v \in SettledUnits(mem) : mem'.unit[v] = mem.unit[v]
    BY <1>a, <2>3, <2>4, <2>8 DEF SettledUnits, Confirmed, Records
  <2>10. Continues(mem, mem')
    BY <1>a, <2>5, <2>8, <2>9, ContinuesLogged
  <2>11. Busy' = Busy \ {u}
    BY <2>1, <2>3 DEF Busy, TypeOK
  <2>12. mem.state # "absent" /\ Marks(mem)' /\ Marks(disk)'
    BY <1>a, <2>2, <2>3, <2>4, <2>8, <2>11 DEF SoloInv, Marks, Holding, Records
  <2> QED BY <1>c, <2>1, <2>2, <2>8, <2>10, <2>12, SoloEdit
          DEF Holding, Looping, Submitting, BeforeTry
<1>16. CASE Raise \/ LoadMissing
  <2>1. /\ pc' \in {"idle", "join", "unwind"} /\ UNCHANGED <<disk, batch, work, cleaner>>
        /\ pc' = "idle" => BeforeTry
    BY <1>16 DEF Raise, LoadMissing
  <2>2. Busy' = Busy
    BY <2>1 DEF Busy
  <2> QED BY <2>1, <2>2 DEF SoloInv, Marks, Holding, Looping, Submitting, BeforeTry, Finished
<1>17. CASE Unwind \/ Join \/ Drain \/ Crash
  <2>1. /\ pc' \in {"idle", "drain"} /\ UNCHANGED <<disk, cleaner>>
        /\ pc' = "idle" => batch' = {}
    BY <1>17 DEF Unwind, Join, Drain, Crash
  <2>2. Busy' \subseteq Busy
    BY <1>17 DEF Unwind, Join, Drain, Crash, Busy, TypeOK
  <2> QED BY <2>1, <2>2 DEF SoloInv, Marks, Holding, Looping, Submitting, BeforeTry, Finished
<1>18. CASE \E u \in Units : PoolStep(u) \/ OrphanEnd(u)
  <2>1. Busy' = Busy
    BY <1>18 DEF PoolStep, WorkerStart, WorkerEnd, OrphanEnd, Busy, TypeOK
  <2>2. UNCHANGED <<disk, runner, cleaner>>
    BY <1>18 DEF PoolStep, WorkerStart, WorkerEnd, OrphanEnd
  <2> QED BY <2>1, <2>2 DEF SoloInv, Marks, Holding, Looping, Submitting, BeforeTry,
             Finished, Continues, SettledUnits
<1>19. CASE \E c \in Cancellers : CancelStep(c)
  BY <1>19
<1>20. CASE CleanList
  <2>1. disk.state = "completed" /\ UNCHANGED <<disk, runner, work>>
    BY <1>20 DEF CleanList
  <2>2. Finished(disk)
    BY <2>1 DEF RecordInv, Sound, Finished
  <2> QED BY <2>1, <2>2 DEF SoloInv, Marks, Busy, Holding, Looping, Submitting, BeforeTry,
             Finished, Continues, SettledUnits
<1>21. CASE CleanDelete
  <2>1. cleaner = "asking" /\ cleaner' = "idle" /\ disk' = Absent /\ UNCHANGED <<runner, work>>
    BY <1>21 DEF CleanDelete
  <2>2. Busy' = {}
    BY <2>1 DEF SoloInv, Marks, Finished, Busy
  <2>3. Holding => Finished(mem)
    BY <2>1, FinishedStays DEF SoloInv
  <2>4. Continues(disk, mem)'
    BY <1>a, <2>1, AnythingContinuesAbsent DEF Continues, SettledUnits
  <2> QED BY <2>1, <2>2, <2>3, <2>4 DEF SoloInv, Marks, Holding, Looping, Submitting, BeforeTry,
             Finished
<1>22. CASE UNCHANGED vars
  <2>1. UNCHANGED <<disk, runner, work, cleaner>>
    BY <1>22 DEF vars
  <2> QED BY <2>1 DEF SoloInv, Marks, Busy, Holding, Looping, Submitting, BeforeTry,
             Finished, Continues, SettledUnits
<1> QED
  BY <1>1, <1>2, <1>3, <1>4, <1>5, <1>6, <1>7, <1>8, <1>9, <1>10, <1>11, <1>12, <1>13,
     <1>14, <1>15, <1>16, <1>17, <1>18, <1>19, <1>20, <1>21, <1>22 DEF Next, RunnerStep

(* SoloInv holds throughout: the theorems below read it. *)
LEMMA SoloInvAlways ==
  ASSUME Cancellers = {}
  PROVE  Spec => [](TypeOK /\ RecordInv /\ PoolInv /\ SoloInv)
<1>1. TypeOK /\ TypeOK' /\ RecordInv /\ RecordInv' /\ PoolInv /\ SoloInv /\ [Next]_vars => SoloInv'
  BY SoloStep
<1> QED
  BY <1>1, SoloInit, TypeCorrect, RecordInvAlways, PoolInvAlways, PTL DEF Spec

(* When nobody cancels from outside, a unit that the pool still works on is *)
(* on file as running or as given up, never as one to launch: whenever the  *)
(* process dies, the file marks every call that may have had an effect. *)
THEOREM LaunchHolds ==
  ASSUME Cancellers = {}
  PROVE  Spec => []LaunchedIsOnFile
<1>1. SoloInv => LaunchedIsOnFile
  BY DEF SoloInv, Marks, Busy, LaunchedIsOnFile
<1> QED
  BY <1>1, SoloInvAlways, PTL

(* What a step writes to the file continues what the file said. *)
LEMMA FileContinues ==
  ASSUME Cancellers = {}, TypeOK, TypeOK', SoloInv, [Next]_vars, disk'.state # "absent"
  PROVE  Continues(disk, disk')
<1> USE DEF runner, pool, others, counts
<1>1. CASE Create
  <2>1. disk = Absent
    BY <1>1 DEF Create, SoloInv
  <2> QED BY <2>1, AnythingContinuesAbsent DEF TypeOK
<1>2. CASE ResumeSave \/ Save
  BY <1>2 DEF ResumeSave, Save, SoloInv, Holding
<1>3. CASE CleanDelete
  BY <1>3 DEF CleanDelete, Absent
<1>4. CASE disk' = disk
  BY <1>4, ContinuesItself DEF TypeOK
<1>5. \/ Create \/ ResumeSave \/ Save \/ CleanDelete \/ disk' = disk
  BY DEF Next, RunnerStep, Fail, Run, Enter, MergeLoad, FinishRun, CancelRun, PauseRun, Proceed,
         StartUnit, Submit, StopDispatch, Poll, Collect, Collected, LoadMissing, Raise, Unwind,
         Join, Drain, Crash, PoolStep, WorkerStart, WorkerEnd, OrphanEnd, CleanList, vars
<1> QED
  BY <1>1, <1>2, <1>3, <1>4, <1>5

(* "Keep confirmed terminal units": across resumes, crashes and exceptions, *)
(* an outcome on file is never taken back or changed. *)
THEOREM OutcomesHold ==
  ASSUME Cancellers = {}
  PROVE  Spec => OutcomesAreKept
<1>1. TypeOK /\ TypeOK' /\ SoloInv /\ [Next]_vars =>
        [disk'.state # "absent" =>
           \A u \in SettledUnits(disk) : disk'.unit[u] = disk.unit[u]]_disk
  BY FileContinues DEF Continues
<1> QED
  BY <1>1, SoloInvAlways, PTL DEF Spec, OutcomesAreKept

(* The events a poller has read from the file stay at their places, through *)
(* every merge, resume and crash. *)
THEOREM EventsHold ==
  ASSUME Cancellers = {}
  PROVE  Spec => EventsAppendOnly
<1>1. TypeOK /\ TypeOK' /\ SoloInv /\ [Next]_vars =>
        [disk'.state # "absent" =>
           /\ Len(disk.log) <= Len(disk'.log)
           /\ \A i \in 1 .. Len(disk.log) : disk'.log[i] = disk.log[i]]_disk
  BY FileContinues DEF Continues
<1> QED
  BY <1>1, SoloInvAlways, PTL DEF Spec, EventsAppendOnly

---------------------------------------------------------------------------
(* The refinement of the ledger *)

(* The states of a unit in the ledger's words. *)
LEMMA PhaseTable ==
  /\ PhaseOf("queued") = "todo" /\ PhaseOf("cancelled") = "todo"
  /\ PhaseOf("running") = "inflight" /\ PhaseOf("uncertain") = "unknown"
  /\ PhaseOf("completed") = "done" /\ PhaseOf("failed") = "broken"
  BY DEF PhaseOf

(* The units in flight are those the record marks as running. *)
LEMMA InFlightIsRunning ==
  ASSUME NEW r \in Records
  PROVE  {u \in Units : Phases(r)[u] = "inflight"} = RunningUnits(r)
<1>1. \A u \in Units : r.unit[u] \in UnitStates
  BY DEF Records
<1>2. \A u \in Units : PhaseOf(r.unit[u]) = "inflight" <=> r.unit[u] = "running"
  BY <1>1, PhaseTable DEF UnitStates
<1> QED
  BY <1>2 DEF Phases, RunningUnits

(* Marking a queued unit is a launch, within the bound. *)
LEMMA StartIsLaunch ==
  ASSUME NEW r \in Records, NEW s \in Records, NEW u \in Units,
         r.unit[u] = "queued", s.unit = [r.unit EXCEPT ![u] = "running"],
         Cardinality(RunningUnits(r)) < MaxWorkers
  PROVE  LedgerStep(Phases(r), Phases(s))
<1>1. Phases(s) = [Phases(r) EXCEPT ![u] = "inflight"]
  BY PhaseTable DEF Phases, Records
<1>2. Phases(r)[u] = "todo"
  BY PhaseTable DEF Phases
<1> QED
  BY <1>1, <1>2, InFlightIsRunning DEF LedgerStep

(* Writing the outcome of a running unit settles it. *)
LEMMA CollectIsSettle ==
  ASSUME NEW r \in Records, NEW s \in Records, NEW u \in Units, NEW outcome \in Confirmed,
         r.unit[u] = "running", s.unit = [r.unit EXCEPT ![u] = outcome]
  PROVE  LedgerStep(Phases(r), Phases(s))
<1>1. Phases(s) = [Phases(r) EXCEPT ![u] = PhaseOf(outcome)]
  BY DEF Phases, Records
<1>2. Phases(r)[u] = "inflight" /\ PhaseOf(outcome) \in {"done", "broken"}
  BY PhaseTable DEF Phases, Confirmed
<1> QED
  BY <1>1, <1>2 DEF LedgerStep

(* Giving up the queued and the running units gives up those in flight. *)
LEMMA CancelIsGiveUp ==
  ASSUME NEW r \in Records, NEW s \in Records,
         s.unit = [u \in Units |-> IF r.unit[u] = "queued" THEN "cancelled"
                                   ELSE IF r.unit[u] = "running" THEN "uncertain"
                                   ELSE r.unit[u]]
  PROVE  LedgerStep(Phases(r), Phases(s))
<1>1. \A u \in Units : r.unit[u] \in UnitStates
  BY DEF Records
<1>2. \A u \in Units : PhaseOf(s.unit[u]) = IF PhaseOf(r.unit[u]) = "inflight" THEN "unknown"
                                            ELSE PhaseOf(r.unit[u])
  BY <1>1, PhaseTable DEF UnitStates
<1>3. Phases(s) = [u \in Units |-> IF Phases(r)[u] = "inflight" THEN "unknown" ELSE Phases(r)[u]]
  BY <1>2 DEF Phases
<1> QED
  BY <1>3 DEF LedgerStep

(* A resume requeues what has no known outcome. *)
LEMMA ResumeIsRequeue ==
  ASSUME NEW r \in Records
  PROVE  LedgerStep(Phases(r), Phases(PrepareResume(r)))
<1> DEFINE s == PrepareResume(r)
<1>1. \A u \in Units : r.unit[u] \in UnitStates
  BY DEF Records
<1>2. \A u \in Units : s.unit[u] = IF r.unit[u] \in {"running", "cancelled", "uncertain"}
                                   THEN "queued" ELSE r.unit[u]
  BY PrepareResumeContinues
<1> HIDE DEF s
<1>3. \A u \in Units : PhaseOf(s.unit[u]) = IF PhaseOf(r.unit[u]) \in {"inflight", "unknown"}
                                            THEN "todo" ELSE PhaseOf(r.unit[u])
  BY <1>1, <1>2, PhaseTable DEF UnitStates
<1>4. Phases(s) = [u \in Units |-> IF Phases(r)[u] \in {"inflight", "unknown"} THEN "todo"
                                   ELSE Phases(r)[u]]
  BY <1>3 DEF Phases
<1> QED
  BY <1>4 DEF LedgerStep, s

(* The ledger does not see the rest of the record. *)
LEMMA SameUnitsStutter ==
  ASSUME NEW r, NEW s, s.unit = r.unit
  PROVE  LedgerStep(Phases(r), Phases(s))
  BY DEF LedgerStep, Phases

(* A step that changes neither the file nor the runner. *)
LEMMA SyncElsewhere ==
  ASSUME SyncInv, UNCHANGED <<disk, mem, pc, cleaner>>
  PROVE  SyncInv'
  BY DEF SyncInv, LedgerStep, Phases

(* The runner is idle. *)
LEMMA SyncInit == Init => SyncInv
  BY DEF Init, SyncInv

(* Between two saves the runner is at most one step of the ledger ahead. *)
LEMMA SyncStep ==
  ASSUME Cancellers = {}, MaxCleans = 0, TypeOK, TypeOK', RecordInv, SoloInv, SyncInv, [Next]_vars
  PROVE  SyncInv'
<1> USE DEF runner, pool, others, counts
<1>a. /\ disk \in Records /\ mem \in Records /\ disk' \in Records /\ mem' \in Records
      /\ cont \in Returns /\ cleans \in Nat
  BY DEF TypeOK
<1>s. ASSUME UNCHANGED <<disk, cleaner>>,
             pc' \in {"resume_save", "merge", "save"} => LedgerStep(Phases(disk), Phases(mem')),
             pc' \in {"enter", "loop", "dispatch", "submit", "poll", "collect"} =>
               mem'.unit = disk.unit
      PROVE  SyncInv'
  BY <1>s DEF SyncInv, LedgerStep, Phases
<1>1. CASE Create
  <2>1. pc' = "idle" /\ cleaner' = cleaner
    BY <1>1 DEF Create
  <2>2. disk'.state # "absent"
    BY <1>1 DEF Create, Logged, Absent
  <2> QED BY <2>1, <2>2 DEF SyncInv
<1>2. CASE Fail
  <2>1. /\ pc' = "save" /\ UNCHANGED <<disk, cleaner>>
        /\ mem' = Logged([disk EXCEPT !.state = "failed"], "task_failed")
    BY <1>2 DEF Fail
  <2>2. mem'.unit = disk.unit
    BY <1>a, <2>1 DEF Logged, Records
  <2> QED BY <1>s, <2>1, <2>2, SameUnitsStutter
<1>3. CASE Run(TRUE)
  <2>1. pc' = "resume_save" /\ mem' = PrepareResume(disk) /\ UNCHANGED <<disk, cleaner>>
    BY <1>3 DEF Run
  <2> QED BY <1>a, <1>s, <2>1, ResumeIsRequeue
<1>4. CASE Run(FALSE)
  BY <1>4, <1>s DEF Run
<1>5. CASE ResumeSave
  <2>1. pc = "resume_save" /\ pc' = "enter" /\ disk' = mem /\ UNCHANGED <<mem, cleaner>>
    BY <1>5 DEF ResumeSave
  <2> QED BY <2>1 DEF SyncInv, SoloInv, Holding
<1>6. CASE Enter
  <2>1. /\ pc = "enter" /\ pc' = "merge" /\ UNCHANGED <<disk, cleaner>>
        /\ mem' = Logged([mem EXCEPT !.cancel = FALSE, !.state = "running"], "task_started")
    BY <1>6 DEF Enter
  <2>2. mem'.unit = mem.unit
    BY <1>a, <2>1 DEF Logged, Records
  <2>3. mem.unit = disk.unit
    BY <2>1 DEF SyncInv
  <2> QED BY <1>s, <2>1, <2>2, <2>3, SameUnitsStutter
<1>7. CASE MergeLoad
  <2>1. /\ pc = "merge" /\ pc' = "save" /\ UNCHANGED <<disk, cleaner>> /\ mem'.unit = mem.unit
    BY <1>a, <1>7 DEF MergeLoad, Records
  <2>2. LedgerStep(Phases(disk), Phases(mem)) /\ Phases(mem') = Phases(mem)
    BY <2>1 DEF SyncInv, Phases
  <2> QED BY <1>s, <2>1, <2>2
<1>8. CASE Save
  <2>1. /\ pc = "save" /\ pc' = cont /\ disk' = mem /\ cleaner' = cleaner
        /\ cont # "idle" => mem' = mem
    BY <1>8 DEF Save
  <2>2. mem.state # "absent"
    BY <2>1 DEF SoloInv, Holding
  <2> QED BY <1>a, <2>1, <2>2 DEF SyncInv, Returns
<1>9. CASE FinishRun
  <2> DEFINE q == [mem EXCEPT !.state = Verdict(mem)]
  <2>1. /\ pc = "loop" /\ pc' = "merge" /\ UNCHANGED <<disk, cleaner>>
        /\ mem' = Logged(Recount(q), "task_finished")
    BY <1>9 DEF FinishRun, SaveThen
  <2>2. q.unit = mem.unit /\ q \in Records
    BY <1>a DEF Verdict, Records, TaskStates, Terminal
  <2> HIDE DEF q
  <2>3. mem'.unit = mem.unit
    BY <2>1, <2>2, RecountFields, RecountType, LoggedFields
  <2>4. mem.unit = disk.unit
    BY <2>1 DEF SyncInv
  <2> QED BY <1>s, <2>1, <2>3, <2>4, SameUnitsStutter
<1>10. CASE CancelRun
  <2> DEFINE log == LongerLog(mem.log, disk.log) \o
                      [i \in 1 .. Cardinality(Queue) + Cardinality(pending) |-> "unit_cancelled"]
             unit == [u \in Units |-> IF u \in Queue THEN "cancelled"
                                      ELSE IF u \in pending THEN "uncertain"
                                      ELSE mem.unit[u]]
  <2>1. /\ pc = "loop" /\ pc' = "merge" /\ UNCHANGED <<disk, cleaner>>
        /\ mem' = Logged([mem EXCEPT !.cancel = TRUE, !.state = "cancelled", !.unit = unit,
                            !.log = log], "task_cancelled")
    BY <1>10 DEF CancelRun, SaveThen, LoopLoad
  <2> HIDE DEF log, unit
  <2>2. mem'.unit = unit
    BY <1>a, <2>1 DEF Logged, Records
  <2>3. RunningUnits(mem) = pending
    BY <2>1 DEF RecordInv, Looping, Submitting
  <2>4. mem.unit = disk.unit
    BY <2>1 DEF SyncInv
  <2>5. unit = [u \in Units |-> IF disk.unit[u] = "queued" THEN "cancelled"
                                ELSE IF disk.unit[u] = "running" THEN "uncertain"
                                ELSE disk.unit[u]]
    BY <2>3, <2>4 DEF unit, Queue, RunningUnits
  <2> QED BY <1>a, <1>s, <2>1, <2>2, <2>5, CancelIsGiveUp
<1>11. CASE PauseRun
  <2>1. /\ pc = "loop" /\ pc' = "merge" /\ UNCHANGED <<disk, cleaner>>
        /\ mem' = Logged([mem EXCEPT !.state = "paused", !.log = LongerLog(@, disk.log)],
                         "task_paused")
    BY <1>11 DEF PauseRun, SaveThen, LoopLoad
  <2>2. mem'.unit = mem.unit
    BY <1>a, <2>1 DEF Logged, Records
  <2>3. mem.unit = disk.unit
    BY <2>1 DEF SyncInv
  <2> QED BY <1>s, <2>1, <2>2, <2>3, SameUnitsStutter
<1>12. CASE Proceed
  <2>1. pc = "loop" /\ pc' = "dispatch" /\ UNCHANGED <<disk, cleaner>> /\ mem'.unit = mem.unit
    BY <1>a, <1>12 DEF Proceed, LoopLoad, Records
  <2> QED BY <1>s, <2>1 DEF SyncInv
<1>13. CASE StartUnit
  <2>1. PICK u \in Queue : mem' = Logged([mem EXCEPT !.unit[u] = "running"], "unit_started")
    BY <1>13 DEF StartUnit
  <2>2. /\ pc = "dispatch" /\ pc' = "merge" /\ UNCHANGED <<disk, cleaner>>
        /\ Cardinality(pending) < MaxWorkers
    BY <1>13 DEF StartUnit, SaveThen, MayDispatch
  <2>3. mem'.unit = [mem.unit EXCEPT ![u] = "running"]
    BY <1>a, <2>1 DEF Logged, Records
  <2>4. mem.unit = disk.unit /\ RunningUnits(mem) = pending
    BY <2>2 DEF SyncInv, RecordInv, Looping, Submitting
  <2>5. u \in Units /\ disk.unit[u] = "queued" /\ RunningUnits(disk) = pending
    BY <2>4 DEF Queue, RunningUnits
  <2> QED BY <1>a, <1>s, <2>2, <2>3, <2>4, <2>5, StartIsLaunch
<1>14. CASE Submit \/ StopDispatch \/ Poll \/ Collected
  <2>1. /\ pc \in {"submit", "dispatch", "poll", "collect"}
        /\ pc' \in {"dispatch", "poll", "loop", "collect"}
        /\ UNCHANGED <<disk, mem, cleaner>>
    BY <1>14 DEF Submit, StopDispatch, Poll, Collected
  <2> QED BY <1>s, <2>1 DEF SyncInv
<1>15. CASE Collect
  <2>1. PICK u \in batch :
          mem' = Recount(Logged([mem EXCEPT !.unit[u] =
                      IF work[u] = "ok" THEN "completed" ELSE "failed"],
                      IF work[u] = "ok" THEN "unit_completed" ELSE "unit_failed"))
    BY <1>15 DEF Collect
  <2> DEFINE outcome == IF work[u] = "ok" THEN "completed" ELSE "failed"
             kind == IF work[u] = "ok" THEN "unit_completed" ELSE "unit_failed"
             q == [mem EXCEPT !.unit[u] = outcome]
  <2>2. pc = "collect" /\ pc' = "merge" /\ UNCHANGED <<disk, cleaner>>
    BY <1>15 DEF Collect, SaveThen
  <2>3. u \in Units /\ mem.unit[u] = "running"
    BY <2>2 DEF SoloInv, RecordInv, Looping, RunningUnits
  <2>4. q \in Records /\ q.unit = [mem.unit EXCEPT ![u] = outcome] /\ outcome \in Confirmed
    BY <1>a DEF Records, UnitStates, Confirmed
  <2>5. kind \in Kinds
    BY DEF Kinds
  <2> HIDE DEF q, kind, outcome
  <2>6. Logged(q, kind) \in Records /\ Logged(q, kind).unit = q.unit
    BY <2>4, <2>5, LoggedType, LoggedFields
  <2>7. mem' = Recount(Logged(q, kind))
    BY <2>1 DEF q, kind, outcome
  <2>8. mem'.unit = q.unit
    BY <2>6, <2>7, RecountFields
  <2>9. mem.unit = disk.unit
    BY <2>2 DEF SyncInv
  <2> QED BY <1>a, <1>s, <2>2, <2>3, <2>4, <2>8, <2>9, CollectIsSettle
<1>16. CASE Raise \/ LoadMissing \/ Unwind \/ Join \/ Drain \/ Crash
  <2>1. pc' \in {"idle", "join", "unwind", "drain"} /\ UNCHANGED <<disk, cleaner>>
    BY <1>16 DEF Raise, LoadMissing, Unwind, Join, Drain, Crash
  <2> QED BY <1>s, <2>1
<1>17. CASE \E u \in Units : PoolStep(u) \/ OrphanEnd(u)
  BY <1>17, SyncElsewhere DEF PoolStep, WorkerStart, WorkerEnd, OrphanEnd
<1>18. CASE \E c \in Cancellers : CancelStep(c)
  BY <1>18
<1>19. CASE CleanList \/ CleanDelete
  BY <1>a, <1>19 DEF CleanList, CleanDelete, SyncInv
<1>20. CASE UNCHANGED vars
  BY <1>20, SyncElsewhere DEF vars
<1> QED
  BY <1>1, <1>2, <1>3, <1>4, <1>5, <1>6, <1>7, <1>8, <1>9, <1>10, <1>11, <1>12, <1>13,
     <1>14, <1>15, <1>16, <1>17, <1>18, <1>19, <1>20 DEF Next, RunnerStep

(* What a step writes to the file is a step of the ledger. *)
LEMMA FileStepsLedger ==
  ASSUME Cancellers = {}, MaxCleans = 0, TypeOK, SyncInv, [Next]_vars
  PROVE  LedgerStep(Phases(disk), Phases(disk'))
<1> USE DEF runner, pool, others, counts
<1>1. CASE Create
  <2>1. disk = Absent /\ disk' = Logged([Absent EXCEPT !.state = "queued"], "task_created")
    BY <1>1 DEF Create, SyncInv
  <2>2. disk'.unit = disk.unit
    BY <2>1 DEF Logged, Absent
  <2> QED BY <2>2, SameUnitsStutter
<1>2. CASE ResumeSave \/ Save
  BY <1>2 DEF ResumeSave, Save, SyncInv
<1>3. CASE CleanDelete
  BY <1>3 DEF CleanDelete, SyncInv
<1>4. CASE disk' = disk
  BY <1>4, SameUnitsStutter
<1>5. \/ Create \/ ResumeSave \/ Save \/ CleanDelete \/ disk' = disk
  BY DEF Next, RunnerStep, Fail, Run, Enter, MergeLoad, FinishRun, CancelRun, PauseRun, Proceed,
         StartUnit, Submit, StopDispatch, Poll, Collect, Collected, LoadMissing, Raise, Unwind,
         Join, Drain, Crash, PoolStep, WorkerStart, WorkerEnd, OrphanEnd, CleanList, vars
<1> QED
  BY <1>1, <1>2, <1>3, <1>4, <1>5

(* The checkpointed engine implements the ledger: with nobody else writing  *)
(* the file, every save launches one unit within the bound, settles one,    *)
(* gives up those in flight, requeues those without an outcome, or changes  *)
(* no phase at all. *)
THEOREM LedgerImplemented ==
  ASSUME Cancellers = {}, MaxCleans = 0
  PROVE  Spec => ImplementsLedger
<1> DEFINE P == [u \in Units |-> PhaseOf(disk.unit[u])]
<1>1. Init => Ledger!Init
  <2> SUFFICES ASSUME Init PROVE P = [u \in Units |-> "todo"]
    BY DEF Ledger!Init
  <2>1. \A u \in Units : disk.unit[u] = "queued"
    BY DEF Init, Absent
  <2> QED BY <2>1, PhaseTable
<1>2. TypeOK /\ SyncInv /\ [Next]_vars => [Ledger!Next]_P
  <2> SUFFICES ASSUME TypeOK, SyncInv, [Next]_vars PROVE Ledger!Next \/ P' = P
    OBVIOUS
  <2>1. LedgerStep(P, P')
    BY FileStepsLedger DEF Phases
  <2>2. ASSUME NEW u \in Units, P[u] = "todo", P' = [P EXCEPT ![u] = "inflight"],
               Cardinality({v \in Units : P[v] = "inflight"}) < MaxWorkers
        PROVE  Ledger!Launch(u)
    <3>1. Ledger!Cardinality(Ledger!InFlight) = Cardinality({v \in Units : P[v] = "inflight"})
      BY DEF Ledger!InFlight, Ledger!Cardinality, Cardinality
    <3> QED BY <2>2, <3>1 DEF Ledger!Launch
  <2>3. ASSUME NEW u \in Units, NEW outcome \in {"done", "broken"},
               P[u] = "inflight", P' = [P EXCEPT ![u] = outcome]
        PROVE  Ledger!Settle(u)
    BY <2>3 DEF Ledger!Settle
  <2>4. ASSUME P' = [u \in Units |-> IF P[u] = "inflight" THEN "unknown" ELSE P[u]]
        PROVE  Ledger!GiveUp
    BY <2>4 DEF Ledger!GiveUp
  <2>5. ASSUME P' = [u \in Units |-> IF P[u] \in {"inflight", "unknown"} THEN "todo" ELSE P[u]]
        PROVE  Ledger!Requeue
    BY <2>5 DEF Ledger!Requeue
  <2> HIDE DEF P
  <2> QED BY <2>1, <2>2, <2>3, <2>4, <2>5 DEF LedgerStep, Ledger!Next
<1>3. TypeOK /\ TypeOK' /\ RecordInv /\ SoloInv /\ SyncInv /\ [Next]_vars => SyncInv'
  BY SyncStep
<1>4. Spec => []SyncInv
  BY <1>3, SyncInit, SoloInvAlways, TypeCorrect, RecordInvAlways, PTL DEF Spec
<1> QED
  BY <1>1, <1>2, <1>4, TypeCorrect, PTL DEF Spec, ImplementsLedger, Ledger!Spec

=============================================================================
