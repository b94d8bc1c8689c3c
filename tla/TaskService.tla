---------------------------- MODULE TaskService ----------------------------
(***************************************************************************)
(* The file-checkpointed run engine of src/task_service.py for one run_id. *)
(*                                                                         *)
(* Three kinds of process share the JSON record of the run:                *)
(*   - the runner: one call at a time of TaskService.run (the Celery       *)
(*     worker holds an exclusive lock per evaluation, the command line is  *)
(*     one process), with its thread pool;                                 *)
(*   - the cancellers: calls of TaskService.request_cancel, from a thread  *)
(*     of the runner's process (they share its cancel event) or from       *)
(*     another process (they share only the file);                         *)
(*   - the cleaner: `harness runs clean`.                                  *)
(* A load reads the whole file and a save replaces it (os.replace), so     *)
(* each of them is one step; a load followed by a save is two.             *)
(***************************************************************************)
EXTENDS Naturals, Sequences, FiniteSets

CONSTANTS
  N,               \* number of units of the run
  MaxWorkers,      \* run(max_workers=...)
  WaitOnCancel,    \* run(wait_on_cancel=...)
  Cancellers,      \* the calls of request_cancel
  LocalCancellers, \* those made in the runner's process
  MaxRuns,         \* bound: calls of create, fail and run
  MaxCleans,       \* bound: calls of `harness runs clean`
  MaxCrashes       \* bound: deaths of the runner's process

ASSUME ConstantsAssumption ==
  /\ N \in Nat
  /\ MaxWorkers \in Nat \ {0}
  /\ WaitOnCancel \in BOOLEAN
  /\ LocalCancellers \subseteq Cancellers
  /\ MaxRuns \in Nat
  /\ MaxCleans \in Nat
  /\ MaxCrashes \in Nat

Units == 1 .. N

(* unit.status, where "uncertain" stands for "cancelled" with uncertain=True. *)
UnitStates == {"queued", "running", "completed", "failed", "cancelled", "uncertain"}
Terminal   == {"completed", "failed", "cancelled"}
TaskStates == Terminal \cup {"queued", "running", "paused"}

(* TaskEvent.kind; an event's sequence number is its place in the log. *)
Kinds == {"task_created", "task_started", "unit_started", "unit_completed",
          "unit_failed", "unit_cancelled", "cancel_requested", "task_cancelled",
          "task_paused", "task_finished", "task_failed"}

(* TaskRecord: the state "absent" stands for a file that does not exist. *)
Records == [state   : TaskStates \cup {"absent"},
            cancel  : BOOLEAN,               \* cancel_requested
            unit    : [Units -> UnitStates],
            settled : Nat,                   \* completed_units
            log     : Seq(Kinds)]            \* events

Absent == [state |-> "absent", cancel |-> FALSE, unit |-> [u \in Units |-> "queued"],
           settled |-> 0, log |-> << >>]

VARIABLES
  disk,     \* the record in the file
  \* ---- memory of the runner's process ----
  pc,       \* where TaskService.run is
  cont,     \* where it goes once the record is saved
  mem,      \* its record
  pending,  \* the units whose futures it waits for
  batch,    \* the futures `wait` returned and that are not handled yet
  pausing,  \* pause_requested
  work,     \* the thread pool: what each submitted unit is doing
  orphans,  \* calls left running by pools shut down without waiting
  latch,    \* the cancel event of this run_id
  late,     \* history: units submitted since the event was set
  \* ---- the other processes ----
  cpc,      \* where each request_cancel is
  cmem,     \* and the record it has loaded
  cleaner,  \* where `runs clean` is
  runs, cleans, crashes \* counters, for the bounds

runner == <<pc, cont, mem, pending, batch, pausing>>
pool   == <<work, orphans>>
others == <<cpc, cmem, cleaner>>
counts == <<runs, cleans, crashes>>
vars   == <<disk, runner, pool, latch, late, others, counts>>

PCs == {"idle", "resume_save", "enter", "merge", "save", "loop", "dispatch",
        "submit", "poll", "collect", "unwind", "join", "drain"}
Returns == {"idle", "loop", "submit", "collect", "unwind"}
WorkStates == {"none", "submitted", "executing", "ok", "err"}

---------------------------------------------------------------------------
(* Operators on records *)

Confirmed == {"completed", "failed"}

SettledUnits(r) == {u \in Units : r.unit[u] \in Confirmed}

Logged(r, kind) == [r EXCEPT !.log = Append(@, kind)]

(* Slips: counts the successes only; starts counting below zero. *)
RecountSuccesses(r) ==
  [r EXCEPT !.settled = Cardinality({u \in Units : r.unit[u] = "completed"})]
RecountFromBelow(r) == [r EXCEPT !.settled = Cardinality(SettledUnits(r)) - 1]

Recount(r) == [r EXCEPT !.settled = Cardinality(SettledUnits(r))]

(* Slip: a failed unit counts as finished. *)
VerdictOfSettled(r) == IF SettledUnits(r) = Units THEN "completed" ELSE "failed"

Verdict(r) ==
  IF \A u \in Units : r.unit[u] = "completed" THEN "completed" ELSE "failed"

(* The longer of two event lists wins; the record's own on a tie. *)
LongerLog(own, other) == IF Len(other) > Len(own) THEN other ELSE own

(* Slips: failed units run again; the record starts a new event list. *)
PrepareResumeFailed(r) ==
  Recount([r EXCEPT
    !.cancel = FALSE,
    !.unit   = [u \in Units |-> IF @[u] # "completed" THEN "queued" ELSE @[u]]])
PrepareResumeAfresh(r) ==
  Recount([r EXCEPT
    !.cancel = FALSE,
    !.unit   = [u \in Units |-> IF @[u] \in {"running", "cancelled", "uncertain"}
                                THEN "queued" ELSE @[u]],
    !.log    = << >>])

PrepareResume(r) ==
  Recount([r EXCEPT
    !.cancel = FALSE,
    !.unit   = [u \in Units |-> IF @[u] \in {"running", "cancelled", "uncertain"}
                                THEN "queued" ELSE @[u]]])

Queue     == {u \in Units : mem.unit[u] = "queued"}
Launching == {u \in Units : mem.unit[u] = "running" /\ u \notin pending}
Executing == {u \in Units : work[u] = "executing"}

---------------------------------------------------------------------------
(* The calls that come before a run *)

(* TaskService.create, refused while the file exists. *)
Create ==
  /\ pc = "idle" /\ disk.state = "absent" /\ runs < MaxRuns
  /\ disk' = Logged([Absent EXCEPT !.state = "queued"], "task_created")
  /\ runs' = runs + 1
  /\ UNCHANGED <<runner, pool, latch, late, others, cleans, crashes>>

(* TaskService.fail: AlgorithmHarness could not prepare its strategies for a *)
(* record it created or is about to resume. *)
Fail ==
  /\ pc = "idle" /\ disk.state # "absent" /\ runs < MaxRuns
  /\ mem' = Logged([disk EXCEPT !.state = "failed"], "task_failed")
  /\ pc' = "save" /\ cont' = "idle"
  /\ runs' = runs + 1
  /\ UNCHANGED <<disk, pending, batch, pausing, pool, latch, late, others, cleans, crashes>>

(* The head of run: load, refuse a terminal record unless resuming, requeue. *)
(* Both callers pass resume=False only for the record they have just created. *)
Run(resume) ==
  /\ pc = "idle" /\ disk.state # "absent" /\ runs < MaxRuns
  /\ ~resume => disk.state = "queued"
  /\ mem' = IF resume THEN PrepareResume(disk) ELSE disk
  /\ pc' = IF resume THEN "resume_save" ELSE "enter"
  /\ runs' = runs + 1
  /\ UNCHANGED <<disk, cont, pending, batch, pausing, pool, latch, late, others, cleans, crashes>>

ResumeSave ==
  /\ pc = "resume_save"
  /\ disk' = mem
  /\ pc' = "enter"
  /\ UNCHANGED <<cont, mem, pending, batch, pausing, pool, latch, late, others, counts>>

Enter ==
  /\ pc = "enter"
  /\ latch' = (latch \/ mem.cancel)
  /\ mem' = Logged([mem EXCEPT !.cancel = FALSE, !.state = "running"], "task_started")
  /\ pc' = "merge" /\ cont' = "loop"
  /\ UNCHANGED <<disk, pending, batch, pausing, pool, late, others, counts>>

---------------------------------------------------------------------------
(* _save_with_external_events: load and merge, then replace the file *)

MergeLoad ==
  /\ pc = "merge"
  /\ mem' = [mem EXCEPT !.log = LongerLog(@, disk.log), !.cancel = @ \/ disk.cancel]
  /\ pc' = "save"
  /\ UNCHANGED <<disk, cont, pending, batch, pausing, pool, latch, late, others, counts>>

Save ==
  /\ pc = "save"
  /\ disk' = mem
  /\ pc' = cont
  /\ cont' = "idle"
  /\ mem' = IF cont = "idle" THEN Absent ELSE mem
  /\ UNCHANGED <<pending, batch, pausing, pool, latch, late, others, counts>>

---------------------------------------------------------------------------
(* The loop of run *)

(* Slip: a unit is handed to the pool before the file says so. *)
SaveThenUnlessStarting(next) ==
  IF next = "submit" THEN pc' = "submit" /\ cont' = "idle"
  ELSE pc' = "merge" /\ cont' = next

SaveThen(next) == pc' = "merge" /\ cont' = next

(* Nothing is queued or pending any more. *)
FinishRun ==
  /\ pc = "loop" /\ Queue = {} /\ pending = {}
  /\ mem' = Logged(Recount([mem EXCEPT !.state = Verdict(mem)]), "task_finished")
  /\ SaveThen("unwind")
  /\ UNCHANGED <<disk, pending, batch, pausing, pool, latch, late, others, counts>>

CancelSeen == latch \/ mem.cancel \/ disk.cancel

(* The head of an iteration reads the file for events and a cancellation. *)
LoopLoad ==
  /\ pc = "loop" /\ Queue \cup pending # {}
  /\ disk.state # "absent"

CancelRun ==
  /\ LoopLoad /\ CancelSeen
  /\ LET given_up == Cardinality(Queue) + Cardinality(pending)
         marks    == [i \in 1 .. given_up |-> "unit_cancelled"]
     IN mem' = Logged([mem EXCEPT
                 !.cancel = TRUE,
                 !.state  = "cancelled",
                 !.unit   = [u \in Units |-> IF u \in Queue THEN "cancelled"
                                             ELSE IF u \in pending THEN "uncertain"
                                             ELSE @[u]],
                 !.log    = LongerLog(@, disk.log) \o marks], "task_cancelled")
  /\ pending' = {}
  /\ SaveThen("unwind")
  /\ UNCHANGED <<disk, batch, pausing, pool, latch, late, others, counts>>

(* pause_when is the caller's: a budget cap or a pause it reads elsewhere. *)
PauseRun ==
  /\ LoopLoad /\ ~CancelSeen
  /\ Queue # {} /\ pending = {}
  /\ mem' = Logged([mem EXCEPT !.state = "paused", !.log = LongerLog(@, disk.log)],
                   "task_paused")
  /\ SaveThen("unwind")
  /\ UNCHANGED <<disk, pending, batch, pausing, pool, latch, late, others, counts>>

Proceed ==
  /\ LoopLoad /\ ~CancelSeen
  /\ \E pause \in BOOLEAN :
       /\ pause => Queue # {} /\ pending # {}
       /\ pausing' = pause
  /\ mem' = [mem EXCEPT !.log = LongerLog(@, disk.log)]
  /\ pc' = "dispatch"
  /\ UNCHANGED <<disk, cont, pending, batch, pool, latch, late, others, counts>>

(* Slips: one unit too many; the cancel event is not looked at. *)
MayDispatchOneMore ==
  Queue # {} /\ Cardinality(pending) <= MaxWorkers /\ ~latch /\ ~pausing
MayDispatchUncancelled ==
  Queue # {} /\ Cardinality(pending) < MaxWorkers /\ ~pausing

MayDispatch ==
  /\ Queue # {}
  /\ Cardinality(pending) < MaxWorkers
  /\ ~latch
  /\ ~pausing

(* The first queued unit is marked running on file before it is submitted. *)
StartUnit ==
  /\ pc = "dispatch" /\ MayDispatch
  /\ disk.state # "absent" /\ ~disk.cancel
  /\ \E u \in Queue :
       /\ \A v \in Queue : u <= v
       /\ mem' = Logged([mem EXCEPT !.unit[u] = "running"], "unit_started")
  /\ SaveThen("submit")
  /\ UNCHANGED <<disk, pending, batch, pausing, pool, latch, late, others, counts>>

Submit ==
  /\ pc = "submit"
  /\ \E u \in Launching :
       /\ pending' = pending \cup {u}
       /\ work' = [work EXCEPT ![u] = "submitted"]
  /\ late' = IF latch THEN late + 1 ELSE late
  /\ pc' = "dispatch"
  /\ UNCHANGED <<disk, cont, mem, batch, pausing, orphans, latch, others, counts>>

StopDispatch ==
  /\ pc = "dispatch"
  /\ ~MayDispatch \/ disk.cancel
  /\ pc' = "poll"
  /\ UNCHANGED <<disk, cont, mem, pending, batch, pausing, pool, latch, late, others, counts>>

(* Slip: futures that ended with an exception are never collected. *)
PollSuccesses ==
  /\ pc = "poll"
  /\ batch' = {u \in pending : work[u] = "ok"}
  /\ pc' = IF batch' = {} THEN "loop" ELSE "collect"
  /\ UNCHANGED <<disk, cont, mem, pending, pausing, pool, latch, late, others, counts>>

(* concurrent.futures.wait with a short timeout. *)
Poll ==
  /\ pc = "poll"
  /\ batch' = {u \in pending : work[u] \in {"ok", "err"}}
  /\ pc' = IF batch' = {} THEN "loop" ELSE "collect"
  /\ UNCHANGED <<disk, cont, mem, pending, pausing, pool, latch, late, others, counts>>

(* One finished future: its outcome goes to the file, then to the callback. *)
Collect ==
  /\ pc = "collect" /\ batch # {}
  /\ \E u \in batch :
       LET outcome == IF work[u] = "ok" THEN "completed" ELSE "failed"
       IN /\ mem' = Recount(Logged([mem EXCEPT !.unit[u] = outcome],
                       IF work[u] = "ok" THEN "unit_completed" ELSE "unit_failed"))
          /\ pending' = pending \ {u}
          /\ batch' = batch \ {u}
          /\ work' = [work EXCEPT ![u] = "none"]
  /\ SaveThen("collect")
  /\ UNCHANGED <<disk, pausing, orphans, latch, late, others, counts>>

Collected ==
  /\ pc = "collect" /\ batch = {}
  /\ pc' = "loop"
  /\ UNCHANGED <<disk, cont, mem, pending, batch, pausing, pool, latch, late, others, counts>>

(* Before the `try` (and in fail) an exception just leaves; inside it, the *)
(* `finally` block runs. *)
BeforeTry ==
  \/ pc \in {"resume_save", "enter"}
  \/ pc \in {"merge", "save"} /\ cont \in {"loop", "idle"}

(* A callback, a load, a save or an interrupt raises. *)
Raise ==
  /\ pc \notin {"idle", "unwind", "join", "drain"}
  /\ IF BeforeTry
     THEN pc' = "idle" /\ mem' = Absent
     ELSE pc' = (IF pending = {} THEN "join" ELSE "unwind") /\ UNCHANGED mem
  /\ cont' = "idle"
  /\ UNCHANGED <<disk, pending, batch, pausing, pool, latch, late, others, counts>>

(* The file is gone where the loop loads it. *)
LoadMissing ==
  /\ disk.state = "absent"
  /\ \/ pc = "loop" /\ Queue \cup pending # {}
     \/ pc = "dispatch" /\ MayDispatch
  /\ Raise

(* executor.shutdown(wait=wait_on_cancel, cancel_futures=True): calls that *)
(* have not begun are dropped; Drain awaits those that have, or leaves them. *)
Unwind ==
  /\ pc = "unwind"
  /\ work' = [u \in Units |-> IF work[u] = "submitted" THEN "none" ELSE work[u]]
  /\ pc' = "drain"
  /\ UNCHANGED <<disk, cont, mem, pending, batch, pausing, orphans, latch, late, others, counts>>

(* executor.shutdown(wait=True): the exception came with nothing pending. *)
Join ==
  /\ pc = "join"
  /\ \A u \in Units : work[u] \notin {"submitted", "executing"}
  /\ pc' = "drain"
  /\ UNCHANGED <<disk, cont, mem, pending, batch, pausing, pool, latch, late, others, counts>>

Drain ==
  /\ pc = "drain"
  /\ WaitOnCancel => Executing = {}
  /\ orphans' = [u \in Units |-> orphans[u] + (IF u \in Executing THEN 1 ELSE 0)]
  /\ work' = [u \in Units |-> "none"]
  /\ pending' = {} /\ batch' = {} /\ pausing' = FALSE
  /\ mem' = Absent
  /\ latch' = FALSE /\ late' = 0
  /\ pc' = "idle"
  /\ UNCHANGED <<disk, cont, others, counts>>

---------------------------------------------------------------------------
(* The pool's threads. That no more than max_workers execute is left to the *)
(* dispatcher, which submits no more. *)

WorkerStart(u) ==
  /\ work[u] = "submitted"
  /\ work' = [work EXCEPT ![u] = "executing"]
  /\ UNCHANGED <<disk, runner, orphans, latch, late, others, counts>>

WorkerEnd(u) ==
  /\ work[u] = "executing"
  /\ \E outcome \in {"ok", "err"} : work' = [work EXCEPT ![u] = outcome]
  /\ UNCHANGED <<disk, runner, orphans, latch, late, others, counts>>

OrphanEnd(u) ==
  /\ orphans[u] > 0
  /\ orphans' = [orphans EXCEPT ![u] = @ - 1]
  /\ UNCHANGED <<disk, runner, work, latch, late, others, counts>>

---------------------------------------------------------------------------
(* request_cancel: load, set the event, save *)

CancelLoad(c) ==
  /\ cpc[c] = "idle"
  /\ IF disk.state \in Terminal \cup {"absent"}
     THEN cpc' = [cpc EXCEPT ![c] = "done"] /\ UNCHANGED cmem
     ELSE /\ cpc' = [cpc EXCEPT ![c] = "loaded"]
          /\ cmem' = [cmem EXCEPT ![c] = disk]
  /\ UNCHANGED <<disk, runner, pool, latch, late, cleaner, counts>>

CancelSignal(c) ==
  /\ cpc[c] = "loaded"
  /\ latch' = (latch \/ c \in LocalCancellers)
  /\ cpc' = [cpc EXCEPT ![c] = "signalled"]
  /\ UNCHANGED <<disk, runner, pool, late, cmem, cleaner, counts>>

CancelSave(c) ==
  /\ cpc[c] = "signalled"
  /\ disk' = Logged([cmem[c] EXCEPT !.cancel = TRUE], "cancel_requested")
  /\ cmem' = [cmem EXCEPT ![c] = Absent]
  /\ cpc' = [cpc EXCEPT ![c] = "done"]
  /\ UNCHANGED <<runner, pool, latch, late, cleaner, counts>>

(* `harness runs clean` lists the completed runs, asks, then unlinks. *)
CleanList ==
  /\ cleaner = "idle" /\ disk.state = "completed" /\ cleans < MaxCleans
  /\ cleaner' = "asking"
  /\ cleans' = cleans + 1
  /\ UNCHANGED <<disk, runner, pool, latch, late, cpc, cmem, runs, crashes>>

CleanDelete ==
  /\ cleaner = "asking"
  /\ disk' = Absent
  /\ cleaner' = "idle"
  /\ UNCHANGED <<runner, pool, latch, late, cpc, cmem, counts>>

(* The runner's process dies, with the threads and the calls inside it. *)
Crash ==
  /\ crashes < MaxCrashes
  /\ pc # "idle"
  /\ crashes' = crashes + 1
  /\ pc' = "idle" /\ cont' = "idle" /\ mem' = Absent
  /\ pending' = {} /\ batch' = {} /\ pausing' = FALSE
  /\ work' = [u \in Units |-> "none"]
  /\ orphans' = [u \in Units |-> 0]
  /\ latch' = FALSE /\ late' = 0
  /\ cpc' = [c \in Cancellers |-> IF c \in LocalCancellers /\ cpc[c] # "idle"
                                  THEN "done" ELSE cpc[c]]
  /\ cmem' = [c \in Cancellers |-> IF c \in LocalCancellers THEN Absent ELSE cmem[c]]
  /\ UNCHANGED <<disk, cleaner, runs, cleans>>

---------------------------------------------------------------------------
Init ==
  /\ disk = Absent
  /\ pc = "idle" /\ cont = "idle" /\ mem = Absent
  /\ pending = {} /\ batch = {} /\ pausing = FALSE
  /\ work = [u \in Units |-> "none"]
  /\ orphans = [u \in Units |-> 0]
  /\ latch = FALSE /\ late = 0
  /\ cpc = [c \in Cancellers |-> "idle"]
  /\ cmem = [c \in Cancellers |-> Absent]
  /\ cleaner = "idle"
  /\ runs = 0 /\ cleans = 0 /\ crashes = 0

(* The steps a run takes by itself once it is called. *)
RunnerStep ==
  \/ ResumeSave \/ Enter \/ MergeLoad \/ Save
  \/ FinishRun \/ CancelRun \/ PauseRun \/ Proceed
  \/ StartUnit \/ Submit \/ StopDispatch
  \/ Poll \/ Collect \/ Collected
  \/ LoadMissing \/ Unwind \/ Join \/ Drain

PoolStep(u) == WorkerStart(u) \/ WorkerEnd(u)

CancelStep(c) == CancelLoad(c) \/ CancelSignal(c) \/ CancelSave(c)

Next ==
  \/ Create \/ Fail \/ Run(TRUE) \/ Run(FALSE)
  \/ RunnerStep \/ Raise \/ Crash
  \/ \E u \in Units : PoolStep(u) \/ OrphanEnd(u)
  \/ \E c \in Cancellers : CancelStep(c)
  \/ CleanList \/ CleanDelete

Spec == Init /\ [][Next]_vars

(* A live process keeps executing run, and every unit call ends: provider *)
(* and sandbox calls are bounded by timeouts. Nobody has to call anything. *)
Fairness == WF_vars(RunnerStep) /\ \A u \in Units : WF_vars(PoolStep(u))

FairSpec == Spec /\ Fairness

---------------------------------------------------------------------------
(* Properties *)

TypeOK ==
  /\ disk \in Records /\ mem \in Records
  /\ pc \in PCs /\ cont \in Returns
  /\ pending \in SUBSET Units /\ batch \in SUBSET Units
  /\ pausing \in BOOLEAN /\ latch \in BOOLEAN
  /\ work \in [Units -> WorkStates]
  /\ orphans \in [Units -> Nat]
  /\ late \in Nat
  /\ cpc \in [Cancellers -> {"idle", "loaded", "signalled", "done"}]
  /\ cmem \in [Cancellers -> Records]
  /\ cleaner \in {"idle", "asking"}
  /\ runs \in Nat /\ cleans \in Nat /\ crashes \in Nat

(* A file that says "completed" holds a result for every unit, and one that *)
(* says "cancelled" holds no unit still marked as running, whatever stale   *)
(* records cancellers write and wherever a resume stops. *)
VerdictMatchesUnits ==
  /\ disk.state = "completed" => \A u \in Units : disk.unit[u] = "completed"
  /\ disk.state = "cancelled" => \A u \in Units : disk.unit[u] # "running"

(* completed_units, from which the command line prints progress and the API *)
(* its percentages, counts the units of the very record it is stored in. *)
ProgressIsExact == disk.settled = Cardinality(SettledUnits(disk))

(* A unit that the pool still works on is never on file as one that was not *)
(* dispatched: a crash at any moment leaves it marked for what it is. *)
LaunchedIsOnFile ==
  \A u \in Units : work[u] # "none" => disk.unit[u] \notin {"queued", "cancelled"}

(* "Run persisted units with bounded concurrency": never more worker calls  *)
(* at once than asked for, and never two for one unit, those of an earlier  *)
(* run of this process included, when run waits on cancellation. *)
BoundedConcurrency ==
  /\ Cardinality(Executing) <= MaxWorkers
  /\ WaitOnCancel => \A u \in Units : orphans[u] = 0

(* Once a thread of this process has asked to cancel, at most the one unit  *)
(* that was past its last check is still submitted. *)
AtMostOneLateUnit == late <= 1

(* "Keep confirmed terminal units": an outcome on file stays on file. *)
OutcomesAreKept ==
  [][disk'.state # "absent" =>
       \A u \in SettledUnits(disk) : disk'.unit[u] = disk.unit[u]]_disk

(* "Merge a concurrent cancel event before replacing the JSON record": no   *)
(* save of a run in progress, which goes through that merge, takes back a   *)
(* cancellation on file. A deliberate resume does, and fail, which loads    *)
(* and saves without it, is not what the sentence is about (cont "idle").   *)
CancelIsMerged ==
  [][disk.cancel /\ ~disk'.cancel =>
       pc = "resume_save" \/ cont = "idle" \/ disk'.state = "absent"]_disk

(* TaskEvent is "append-only": what a poller has read does not change. *)
EventsAppendOnly ==
  [][disk'.state # "absent" =>
       /\ Len(disk.log) <= Len(disk'.log)
       /\ \A i \in 1 .. Len(disk.log) : disk'.log[i] = disk.log[i]]_disk

(* run always comes back to its caller: no cancellation, pause, failed unit *)
(* or exception leaves it waiting for ever. *)
RunReturns == pc # "idle" ~> pc = "idle"

(* The checkpoint implements the ledger when nobody else writes the file. *)
PhaseOf(status) ==
  CASE status \in {"queued", "cancelled"} -> "todo"
    [] status = "running"   -> "inflight"
    [] status = "uncertain" -> "unknown"
    [] status = "completed" -> "done"
    [] status = "failed"    -> "broken"

Ledger == INSTANCE UnitLedger WITH phase <- [u \in Units |-> PhaseOf(disk.unit[u])]

ImplementsLedger == Ledger!Spec
=============================================================================
