------------------------ MODULE EvaluationLifecycle ------------------------
(***************************************************************************)
(* One evaluation from its draft to its end: the API processes             *)
(* (api/services/evaluation_service.py and src/task_manager.py), the Celery*)
(* broker with its result store, and the workers                           *)
(* (src/tasks/evaluation.py). They share four stores:                      *)
(*   - the database: the evaluation, its task rows, its unit results;      *)
(*   - the broker's queue, where a message names a generation of a task;   *)
(*   - the checkpoint file of src/task_service.py;                         *)
(*   - the execution lock file of the evaluation (evaluation_execution).   *)
(* A transaction that has locked the task row is one step, except the one  *)
(* of cancel_task, which works on the other stores before it commits.      *)
(* Modelled apart: the runner's own steps (TaskService.tla). The           *)
(* evaluation has one unit in flight at a time (max_workers=1).            *)
(***************************************************************************)
EXTENDS Naturals, FiniteSets, TLC

CONSTANTS
  N,             \* number of units (strategies times problems)
  Caps,          \* possible budget_cap_usd, in units: every unit costs one
  Workers,       \* Celery workers
  Clients,       \* threads of API processes, each serving one request at a time
  MaxTasks,      \* bound: task rows
  MaxGens,       \* bound: generations, i.e. messages published
  MaxCrashes,    \* bound: deaths of a worker or an API process
  MaxErrors,     \* bound: exceptions in a worker
  MaxRepeats     \* bound: messages the broker delivers once more

ASSUME ConstantsAssumption ==
  /\ N \in Nat \ {0}
  /\ Caps \subseteq Nat /\ Caps # {}
  /\ Workers \cap Clients = {}
  /\ MaxTasks \in Nat /\ MaxGens \in Nat
  /\ MaxCrashes \in Nat /\ MaxErrors \in Nat /\ MaxRepeats \in Nat

Units == 1 .. N
Tasks == 1 .. MaxTasks
Gens  == 1 .. MaxGens
None  == 0

Live  == {"pending", "running", "paused"}
Ended == {"completed", "failed", "cancelled"}

VARIABLES
  ev,      \* the evaluation row: its status, linked task and budget cap
  task,    \* the task rows: status and generation (celery_task_id)
  gens,    \* generations issued so far
  rows,    \* units with an EvaluationResult row
  spent,   \* spent_usd
  queue,   \* how many messages of each generation the broker holds
  result,  \* Celery's state of each generation
  revoked, \* generations revoked
  file,    \* the checkpoint
  wk,      \* the workers
  cl,      \* the clients
  late,    \* history: units started since the task stopped being "running"
  crashes, errors, repeats \* counters, for the bounds

db     == <<ev, task, gens, rows, spent>>
broker == <<queue, result, revoked>>
counts == <<crashes, errors, repeats>>
vars   == <<db, broker, file, wk, cl, late, counts>>

IdleWorker == [pc |-> "idle", msg |-> None, task |-> None, resume |-> FALSE,
               units |-> {}, final |-> "none"]
IdleClient == [pc |-> "idle", op |-> "none", task |-> None, gen |-> None]
NoFile     == [state |-> "absent", cancel |-> FALSE, unit |-> [u \in Units |-> "queued"]]

Settled == {u \in Units : file.unit[u] \in {"completed", "failed"}}
Queued  == {u \in Units : file.unit[u] = "queued"}

(* cancel_task has locked the row of its task and not committed yet. *)
Locked(t) == \E c \in Clients : cl[c].pc = "locked" /\ cl[c].task = t

(* Slip: a worker gives the lock up before its last transaction. *)
LockFreeEarly ==
  /\ \A w \in Workers : wk[w].pc \in {"idle", "finish"}
  /\ \A c \in Clients : cl[c].op # "resume_task"

(* Nobody owns the evaluation's execution lock. *)
LockFree ==
  /\ \A w \in Workers : wk[w].pc = "idle"
  /\ \A c \in Clients : cl[c].op # "resume_task"

(* The row of t gets status s and the evaluation mirrors it if it is linked. *)
SetTask(t, s) == task' = [task EXCEPT ![t].status = s]
Mirror(t, s)  == ev' = IF ev.task = t THEN [ev EXCEPT !.status = s] ELSE ev

---------------------------------------------------------------------------
(* Clients: submitting *)

(* enqueue_task up to its commit: a new row and generation, linked. *)
Enqueue(c) ==
  LET t == Cardinality({x \in Tasks : task[x].status # "none"}) + 1
  IN /\ t \in Tasks /\ gens < MaxGens
     /\ gens' = gens + 1
     /\ task' = [task EXCEPT ![t] = [status |-> "pending", gen |-> gens + 1]]
     /\ ev' = [ev EXCEPT !.task = t]
     /\ cl' = [cl EXCEPT ![c] = [pc |-> "send", op |-> "start", task |-> t, gen |-> gens + 1]]

EndCall(c) == cl' = [cl EXCEPT ![c] = IdleClient]

(* start_evaluation: a pending evaluation whose task, if any, has ended. *)
Start(c) ==
  /\ cl[c].pc = "idle" /\ ev.status = "pending"
  /\ ev.task # None => task[ev.task].status \notin Live
  /\ cl' = [cl EXCEPT ![c] = [pc |-> "link", op |-> "start", task |-> ev.task, gen |-> None]]
  /\ UNCHANGED <<db, broker, file, wk, late, counts>>

(* The link is made only if status and linkage are still those it read. *)
Link(c) ==
  /\ cl[c].pc = "link"
  /\ IF ev.task = cl[c].task /\ ev.status = "pending"
     THEN Enqueue(c) /\ UNCHANGED <<rows, spent>>
     ELSE EndCall(c) /\ UNCHANGED db
  /\ UNCHANGED <<broker, file, wk, late, counts>>

(* resume_task: owns the execution lock, gives the same row a generation. *)
ResumeTask(c, t) ==
  /\ cl[c].pc = "idle" /\ LockFree /\ ~Locked(t) /\ gens < MaxGens
  /\ task[t].status = "paused" /\ ev.status = "paused" /\ ev.task = t
  /\ gens' = gens + 1
  /\ task' = [task EXCEPT ![t] = [status |-> "pending", gen |-> gens + 1]]
  /\ ev' = [ev EXCEPT !.status = "pending"]
  /\ cl' = [cl EXCEPT ![c] = [pc |-> "send", op |-> "resume_task", task |-> t, gen |-> gens + 1]]
  /\ UNCHANGED <<rows, spent, broker, file, wk, late, counts>>

(* send_task returns, or raises with or without the message delivered. *)
Send(c) ==
  /\ cl[c].pc = "send"
  /\ \E delivered, answered \in BOOLEAN :
       /\ answered => delivered
       /\ queue' = IF delivered THEN [queue EXCEPT ![cl[c].gen] = @ + 1] ELSE queue
       /\ cl' = [cl EXCEPT ![c] = IF answered THEN IdleClient ELSE [@ EXCEPT !.pc = "unsent"]]
  /\ UNCHANGED <<db, result, revoked, file, wk, late, counts>>

(* The failed publication fails a task that is still pending. Only the     *)
(* resume checks the generation, and only it fails the evaluation as well. *)
PublishFailed(c) ==
  /\ cl[c].pc = "unsent" /\ ~Locked(cl[c].task)
  /\ LET t == cl[c].task
         resuming == cl[c].op = "resume_task"
     IN IF task[t].status = "pending" /\ (resuming => task[t].gen = cl[c].gen)
        THEN /\ SetTask(t, "failed")
             /\ IF resuming THEN Mirror(t, "failed") ELSE UNCHANGED ev
        ELSE UNCHANGED <<task, ev>>
  /\ EndCall(c)
  /\ UNCHANGED <<gens, rows, spent, broker, file, wk, late, counts>>

---------------------------------------------------------------------------
(* Clients: the other calls *)

(* get_task reads Celery's state of the current generation into the row, *)
(* and not into the evaluation. *)
GetTask(t) ==
  /\ ~Locked(t) /\ task[t].status \in {"pending", "running"}
  /\ \/ result[task[t].gen] = "started" /\ SetTask(t, "running")
     \/ result[task[t].gen] = "failure" /\ SetTask(t, "failed")
  /\ UNCHANGED <<ev, gens, rows, spent, broker, file, wk, cl, late, counts>>

(* Slip: the pause is not mirrored. *)
PauseTaskAlone(t) ==
  /\ ~Locked(t) /\ task[t].status = "running"
  /\ SetTask(t, "paused")
  /\ UNCHANGED <<ev, gens, rows, spent, broker, file, wk, cl, late, counts>>

PauseTask(t) ==
  /\ ~Locked(t) /\ task[t].status = "running"
  /\ SetTask(t, "paused") /\ Mirror(t, "paused")
  /\ UNCHANGED <<gens, rows, spent, broker, file, wk, cl, late, counts>>

(* cancel_task of a given row, or of the one cancel_evaluation has read; a  *)
(* cancel_evaluation that reads "cancelled" will write nothing itself. *)
Cancel(c, t, op) ==
  /\ cl[c].pc = "idle" /\ task[t].status # "none"
  /\ op = "cancel_ev" => ev.task = t /\ ev.status \notin {"cancelled", "deleted"}
  /\ cl' = [cl EXCEPT ![c] = [pc |-> "cancel", op |-> op, task |-> t, gen |-> None]]
  /\ UNCHANGED <<db, broker, file, wk, late, counts>>

(* It locks the row, revokes the message and asks the checkpoint to stop;  *)
(* a save of the runner may cross that request and lose it. *)
CancelLocked(c) ==
  /\ cl[c].pc = "cancel" /\ ~Locked(cl[c].task)
  /\ LET t == cl[c].task
     IN CASE task[t].status \in {"completed", "failed"} ->
               EndCall(c) /\ UNCHANGED <<revoked, file>>
          [] task[t].status = "cancelled" ->
               /\ cl' = [cl EXCEPT ![c] = IF @.op = "cancel_ev" THEN [@ EXCEPT !.pc = "mark"]
                                          ELSE IdleClient]
               /\ UNCHANGED <<revoked, file>>
          [] OTHER ->
               /\ cl' = [cl EXCEPT ![c].pc = "locked"]
               /\ revoked' = revoked \cup {task[t].gen}
               /\ \/ /\ file.state \in {"queued", "running", "paused"}
                     /\ file' = [file EXCEPT !.cancel = TRUE]
                  \/ /\ \/ file.state \notin {"queued", "running", "paused"}
                        \/ \E w \in Workers : wk[w].pc # "idle"
                     /\ UNCHANGED file
  /\ UNCHANGED <<db, queue, result, wk, late, counts>>

CancelCommit(c) ==
  /\ cl[c].pc = "locked"
  /\ SetTask(cl[c].task, "cancelled")
  /\ Mirror(cl[c].task, "cancelled")
  /\ IF cl[c].op = "cancel_ev" /\ ev.task # cl[c].task /\ ev.status \notin {"cancelled", "deleted"}
     THEN cl' = [cl EXCEPT ![c].pc = "mark"]
     ELSE EndCall(c)
  /\ UNCHANGED <<gens, rows, spent, broker, file, wk, late, counts>>

(* cancel_evaluation's own write, in a second transaction: it changes a     *)
(* status that cancel_task has not mirrored into the row it has in memory. *)
MarkCancelled(c) ==
  /\ cl[c].pc = "mark"
  /\ ev' = IF ev.status = "deleted" THEN ev ELSE [ev EXCEPT !.status = "cancelled"]
  /\ EndCall(c)
  /\ UNCHANGED <<task, gens, rows, spent, broker, file, wk, late, counts>>

Delete ==
  /\ ev.status \in {"pending", "completed", "cancelled"}
  /\ ev' = [ev EXCEPT !.status = "deleted", !.task = None]
  /\ rows' = {}
  /\ UNCHANGED <<task, gens, spent, broker, file, wk, cl, late, counts>>

(* _recover_interrupted, at the start of an API process: an evaluation that *)
(* was submitted and has no live task is failed. *)
Recover ==
  /\ ev.status \in {"pending", "running"}
  /\ ev.status = "running" \/ ev.task # None
  /\ \A t \in Tasks : task[t].status \notin Live
  /\ ev' = [ev EXCEPT !.status = "failed"]
  /\ UNCHANGED <<task, gens, rows, spent, broker, file, wk, cl, late, counts>>

(* The process of a client dies: its transaction and its lock are gone. *)
ClientCrash(c) ==
  /\ cl[c].pc # "idle" /\ crashes < MaxCrashes
  /\ crashes' = crashes + 1
  /\ EndCall(c)
  /\ UNCHANGED <<db, broker, file, wk, late, errors, repeats>>

---------------------------------------------------------------------------
(* Workers: taking a message *)

(* Late acknowledgement: the broker holds a message until its worker ends. *)
Held(g) == Cardinality({w \in Workers : wk[w].msg = g})

Goto(w, pc) == wk' = [wk EXCEPT ![w].pc = pc]

(* The call ends; the message is acknowledged, the execution lock released. *)
End(w, state) ==
  /\ wk' = [wk EXCEPT ![w] = IdleWorker]
  /\ queue' = [queue EXCEPT ![wk[w].msg] = @ - 1]
  /\ result' = [result EXCEPT ![wk[w].msg] = state]

(* Celery says "started" before the task asks for the execution lock... *)
Deliver(w, g) ==
  /\ wk[w].pc = "idle" /\ queue[g] > Held(g) /\ LockFree
  /\ result' = [result EXCEPT ![g] = "started"]
  /\ wk' = [wk EXCEPT ![w] = [IdleWorker EXCEPT !.pc = "load", !.msg = g]]
  /\ UNCHANGED <<db, queue, revoked, file, cl, late, counts>>

(* ... and while another call owns it the message is put back for later. *)
Busy(w, g) ==
  /\ wk[w].pc = "idle" /\ queue[g] > Held(g) /\ ~LockFree
  /\ \E state \in {"started", "retry"} : result' = [result EXCEPT ![g] = state]
  /\ UNCHANGED <<db, queue, revoked, file, wk, cl, late, counts>>

(* A worker that has heard of the revocation drops the message. *)
Drop(g) ==
  /\ g \in revoked /\ queue[g] > Held(g)
  /\ queue' = [queue EXCEPT ![g] = @ - 1]
  /\ result' = [result EXCEPT ![g] = "revoked"]
  /\ UNCHANGED <<db, revoked, file, wk, cl, late, counts>>

(* The broker thinks the worker is gone and delivers the message again. *)
Repeat(g) ==
  /\ Held(g) > 0 /\ queue[g] = Held(g) /\ repeats < MaxRepeats
  /\ repeats' = repeats + 1
  /\ queue' = [queue EXCEPT ![g] = @ + 1]
  /\ UNCHANGED <<db, result, revoked, file, wk, cl, late, crashes, errors>>

---------------------------------------------------------------------------
(* Workers: run_evaluation_task *)

(* Slip: a message that must not run is put back. *)
LoadPutBack(w) ==
  LET t == task[ev.task]
  IN /\ wk[w].pc = "load" /\ ev.status # "deleted"
     /\ wk' = IF t.gen # wk[w].msg \/ t.status \in Ended \cup {"paused"}
              THEN [wk EXCEPT ![w] = IdleWorker]
              ELSE [wk EXCEPT ![w].pc = "claim", ![w].task = ev.task]
     /\ UNCHANGED <<db, broker, file, cl, late, counts>>

(* The message's generation against the linked task: an old generation, a   *)
(* finished or a paused task is left alone. *)
Load(w) ==
  /\ wk[w].pc = "load"
  /\ IF ev.status = "deleted" THEN End(w, "failure") /\ UNCHANGED ev
     ELSE LET t == task[ev.task]
          IN IF t.gen # wk[w].msg \/ t.status \in {"completed", "failed", "paused"}
             THEN End(w, "success") /\ UNCHANGED ev
             ELSE IF t.status = "cancelled"
             THEN End(w, "success") /\ ev' = [ev EXCEPT !.status = "cancelled"]
             ELSE /\ wk' = [wk EXCEPT ![w].pc = "claim", ![w].task = ev.task]
                  /\ UNCHANGED <<ev, queue, result>>
  /\ UNCHANGED <<task, gens, rows, spent, revoked, file, cl, late, counts>>

(* The task row is locked and read again; both rows become "running". *)
Claim(w) ==
  LET t == wk[w].task
  IN /\ wk[w].pc = "claim" /\ ~Locked(t)
     /\ IF task[t].gen # wk[w].msg \/ task[t].status \in Ended \cup {"paused"}
        THEN End(w, "success") /\ UNCHANGED <<ev, task, late>>
        ELSE /\ UNCHANGED <<queue, result>>
             /\ IF ev.status = "deleted"
                THEN Goto(w, "error") /\ UNCHANGED <<ev, task, late>>
                ELSE /\ Goto(w, "file")
                     /\ SetTask(t, "running")
                     /\ ev' = [ev EXCEPT !.status = "running"]
                     /\ late' = 0
     /\ UNCHANGED <<gens, rows, spent, revoked, file, cl, counts>>

(* A checkpoint left behind is resumed, but create refuses one that says    *)
(* "queued" or "cancelled". *)
OpenFile(w) ==
  /\ wk[w].pc = "file"
  /\ CASE file.state = "absent" ->
            file' = [NoFile EXCEPT !.state = "queued"] /\ Goto(w, "run")
       [] file.state \in {"running", "paused", "failed", "completed"} ->
            /\ wk' = [wk EXCEPT ![w].pc = "replay", ![w].resume = TRUE, ![w].units = Settled]
            /\ UNCHANGED file
       [] OTHER -> Goto(w, "error") /\ UNCHANGED file
  /\ UNCHANGED <<db, broker, cl, late, counts>>

(* Slip: every replay charges the unit. *)
CommitCharging(w, u) ==
  /\ ~Locked(wk[w].task) /\ ev.status # "deleted"
  /\ IF task[wk[w].task].gen = wk[w].msg
     THEN rows' = rows \cup {u} /\ spent' = spent + 1
     ELSE UNCHANGED <<rows, spent>>

(* Slip: the previous cost is taken off and the new one forgotten. *)
CommitRefunding(w, u) ==
  /\ ~Locked(wk[w].task) /\ ev.status # "deleted"
  /\ IF task[wk[w].task].gen = wk[w].msg
     THEN rows' = rows \cup {u} /\ spent' = IF u \in rows THEN spent - 1 ELSE spent + 1
     ELSE UNCHANGED <<rows, spent>>

(* on_unit_finished: result and cost in one transaction, if the generation  *)
(* is still the row's. *)
Commit(w, u) ==
  /\ ~Locked(wk[w].task) /\ ev.status # "deleted"
  /\ IF task[wk[w].task].gen = wk[w].msg
     THEN rows' = rows \cup {u} /\ spent' = spent + (IF u \in rows THEN 0 ELSE 1)
     ELSE UNCHANGED <<rows, spent>>

(* Slip: the checkpoint is resumed without bringing the database up to it. *)
ReplayNothing(w) ==
  /\ wk[w].pc = "replay"
  /\ wk' = [wk EXCEPT ![w].pc = "run", ![w].units = {}]
  /\ UNCHANGED <<db, broker, file, cl, late, counts>>

(* The confirmed units of the checkpoint go to the database first. *)
Replay(w) ==
  /\ wk[w].pc = "replay"
  /\ \/ /\ wk[w].units = {}
        /\ Goto(w, "run")
        /\ UNCHANGED <<rows, spent>>
     \/ \E u \in wk[w].units :
          Commit(w, u) /\ wk' = [wk EXCEPT ![w].units = @ \ {u}]
  /\ UNCHANGED <<ev, task, gens, broker, file, cl, late, counts>>

(* The head of TaskService.run: a resume forgets a pending cancellation. *)
RunHead(w) ==
  /\ wk[w].pc = "run"
  /\ file' = [state  |-> "running",
              cancel |-> file.cancel /\ ~wk[w].resume,
              unit   |-> [u \in Units |-> IF u \in Settled THEN file.unit[u] ELSE "queued"]]
  /\ Goto(w, "loop")
  /\ UNCHANGED <<db, broker, cl, late, counts>>

StopRun(w, state) ==
  /\ file' = [file EXCEPT !.state = state]
  /\ wk' = [wk EXCEPT ![w].pc = "finish", ![w].final = state]

(* should_pause reads the task row afresh, then the spending, then the      *)
(* user's own budget, which other work may exhaust at any time. *)
TaskStopped(w) ==
  LET t == task[wk[w].task] IN t.status \in {"paused", "cancelled"} \/ t.gen # wk[w].msg

(* Slips: the task's row is not asked; the cap is passed by one. *)
MayGoUnasked(w) == spent < ev.cap
MayGoPastCap(w) == ~TaskStopped(w) /\ spent <= ev.cap

MayGo(w) == ~TaskStopped(w) /\ spent < ev.cap

LoopEnd(w) ==
  /\ wk[w].pc = "loop"
  /\ \/ Queued = {} /\ StopRun(w, IF \A u \in Units : file.unit[u] = "completed"
                                  THEN "completed" ELSE "failed")
     \/ Queued # {} /\ file.cancel /\ StopRun(w, "cancelled")
     \/ Queued # {} /\ ~file.cancel /\ StopRun(w, "paused")
  /\ UNCHANGED <<db, broker, cl, late, counts>>

LoopGo(w) ==
  /\ wk[w].pc = "loop" /\ Queued # {} /\ ~file.cancel /\ MayGo(w)
  /\ Goto(w, "dispatch")
  /\ UNCHANGED <<db, broker, file, cl, late, counts>>

(* The checkpoint is asked once more before the unit is marked and called. *)
Dispatch(w) ==
  /\ wk[w].pc = "dispatch"
  /\ IF file.cancel
     THEN Goto(w, "loop") /\ UNCHANGED <<file, late>>
     ELSE \E u \in Queued :
            /\ \A v \in Queued : u <= v
            /\ file' = [file EXCEPT !.unit[u] = "running"]
            /\ wk' = [wk EXCEPT ![w].pc = "call", ![w].units = {u}]
            /\ late' = IF TaskStopped(w) THEN late + 1 ELSE late
  /\ UNCHANGED <<db, broker, cl, counts>>

(* The unit's outcome goes to the checkpoint ... *)
CallEnd(w) ==
  /\ wk[w].pc = "call"
  /\ \E outcome \in {"completed", "failed"}, u \in wk[w].units :
       file' = [file EXCEPT !.unit[u] = outcome]
  /\ Goto(w, "saved")
  /\ UNCHANGED <<db, broker, cl, late, counts>>

(* ... unless a cancellation is seen meanwhile: it stays unknown, and the   *)
(* call is awaited before the run ends. *)
GiveUp(w) ==
  /\ wk[w].pc = "call" /\ file.cancel
  /\ StopRun(w, "cancelled")
  /\ UNCHANGED <<db, broker, cl, late, counts>>

(* A finished unit then goes to the database. *)
UnitCommit(w) ==
  /\ wk[w].pc = "saved"
  /\ \E u \in wk[w].units : Commit(w, u)
  /\ wk' = [wk EXCEPT ![w].pc = "loop", ![w].units = {}]
  /\ UNCHANGED <<ev, task, gens, broker, file, cl, late, counts>>

(* Slip: the run's outcome goes over whatever was decided meanwhile. *)
FinishBlindly(w) ==
  /\ wk[w].pc = "finish" /\ ~Locked(wk[w].task)
  /\ SetTask(wk[w].task, wk[w].final) /\ Mirror(wk[w].task, wk[w].final)
  /\ End(w, "success")
  /\ UNCHANGED <<gens, rows, spent, revoked, file, cl, late, counts>>

(* The run's outcome, unless somebody else has decided on the task. *)
Finish(w) ==
  LET t == wk[w].task
      final == wk[w].final
  IN /\ wk[w].pc = "finish" /\ ~Locked(t)
     /\ \/ /\ ev.status = "deleted"
           /\ Goto(w, "error")
           /\ UNCHANGED <<ev, task, queue, result>>
        \/ /\ ev.status # "deleted"
           /\ IF task[t].gen # wk[w].msg THEN UNCHANGED <<ev, task>>
              ELSE IF task[t].status \in Ended \cup {"paused"}
              THEN ev' = [ev EXCEPT !.status = task[t].status] /\ UNCHANGED task
              ELSE SetTask(t, final) /\ ev' = [ev EXCEPT !.status = final]
           /\ End(w, "success")
     /\ UNCHANGED <<gens, rows, spent, revoked, file, cl, late, counts>>

(* The exception handlers: they fail the task unless it has been decided;   *)
(* a connection error also puts the message back for a retry. *)
HandleError(w) ==
  LET t == wk[w].task
  IN /\ wk[w].pc = "error" /\ ~Locked(t)
     /\ IF task[t].gen # wk[w].msg \/ task[t].status \in Ended \cup {"paused"}
        THEN UNCHANGED <<ev, task>>
        ELSE /\ SetTask(t, "failed")
             /\ ev' = IF ev.status = "deleted" THEN ev ELSE [ev EXCEPT !.status = "failed"]
     /\ \/ End(w, "failure")
        \/ /\ wk' = [wk EXCEPT ![w] = IdleWorker]
           /\ result' = [result EXCEPT ![wk[w].msg] = "retry"]
           /\ UNCHANGED queue
     /\ UNCHANGED <<gens, rows, spent, revoked, file, cl, late, counts>>

(* A call inside run_evaluation_task raises: the database, the file, a      *)
(* callback, the sandbox. In the handler itself nothing is written. *)
Raise(w) ==
  /\ wk[w].pc \notin {"idle", "load", "call"} /\ errors < MaxErrors
  /\ errors' = errors + 1
  /\ IF wk[w].pc = "error" THEN End(w, "failure") ELSE Goto(w, "error") /\ UNCHANGED <<queue, result>>
  /\ UNCHANGED <<db, revoked, file, cl, late, crashes, repeats>>

(* on_unit_finished cannot refresh an evaluation that was deleted. *)
Refused(w) ==
  /\ \/ wk[w].pc = "replay" /\ wk[w].units # {}
     \/ wk[w].pc = "saved"
  /\ ev.status = "deleted"
  /\ Goto(w, "error")
  /\ UNCHANGED <<db, broker, file, cl, late, counts>>

(* The worker's process dies; the broker still holds its message. *)
WorkerCrash(w) ==
  /\ wk[w].pc # "idle" /\ crashes < MaxCrashes
  /\ crashes' = crashes + 1
  /\ wk' = [wk EXCEPT ![w] = IdleWorker]
  /\ UNCHANGED <<db, broker, file, cl, late, errors, repeats>>

(* The worker's process is terminated by the revocation of its message. *)
Terminate(w) ==
  /\ wk[w].pc # "idle" /\ wk[w].msg \in revoked
  /\ End(w, "revoked")
  /\ UNCHANGED <<db, revoked, file, cl, late, counts>>

---------------------------------------------------------------------------
Init ==
  /\ \E cap \in Caps : ev = [status |-> "pending", task |-> None, cap |-> cap]
  /\ task = [t \in Tasks |-> [status |-> "none", gen |-> None]]
  /\ gens = 0 /\ rows = {} /\ spent = 0
  /\ queue = [g \in Gens |-> 0]
  /\ result = [g \in Gens |-> "pending"]
  /\ revoked = {}
  /\ file = NoFile
  /\ wk = [w \in Workers |-> IdleWorker]
  /\ cl = [c \in Clients |-> IdleClient]
  /\ late = 0 /\ crashes = 0 /\ errors = 0 /\ repeats = 0

(* What a call goes on to do once it has begun. *)
ClientStep(c) ==
  Link(c) \/ Send(c) \/ PublishFailed(c) \/ CancelLocked(c) \/ CancelCommit(c)
  \/ MarkCancelled(c)

WorkerStep(w) ==
  Load(w) \/ Claim(w) \/ OpenFile(w) \/ Replay(w) \/ RunHead(w) \/ LoopEnd(w) \/ LoopGo(w)
  \/ Dispatch(w) \/ CallEnd(w) \/ GiveUp(w) \/ UnitCommit(w) \/ Finish(w) \/ HandleError(w) \/ Refused(w)

Next ==
  \/ \E c \in Clients :
       \/ Start(c) \/ ClientStep(c) \/ ClientCrash(c)
       \/ \E t \in Tasks :
            ResumeTask(c, t) \/ Cancel(c, t, "cancel_task") \/ Cancel(c, t, "cancel_ev")
  \/ \E t \in Tasks : GetTask(t) \/ PauseTask(t)
  \/ Delete \/ Recover
  \/ \E w \in Workers :
       \/ WorkerStep(w) \/ Raise(w) \/ WorkerCrash(w) \/ Terminate(w)
       \/ \E g \in Gens : Deliver(w, g) \/ Busy(w, g)
  \/ \E g \in Gens : Drop(g) \/ Repeat(g)

Spec == Init /\ [][Next]_vars

(* Calls that have begun go on, and workers take messages they can run: the *)
(* unit calls are bounded by timeouts. Nobody has to call anything. *)
Fairness ==
  /\ \A c \in Clients : WF_vars(ClientStep(c))
  /\ \A w \in Workers : WF_vars(WorkerStep(w))
  /\ \A g \in Gens : WF_vars(\E w \in Workers : Deliver(w, g))

FairSpec == Spec /\ Fairness

---------------------------------------------------------------------------
(* Properties *)

EvStates   == Live \cup Ended \cup {"deleted"}
FileStates == Ended \cup {"absent", "queued", "running", "paused"}
WorkerPCs  == {"idle", "load", "claim", "file", "replay", "run", "loop", "dispatch",
               "call", "saved", "finish", "error"}
ClientPCs  == {"idle", "link", "send", "unsent", "cancel", "locked", "mark"}
Ops        == {"none", "start", "resume_task", "cancel_task", "cancel_ev"}

EvRecords     == [status : EvStates, task : Tasks \cup {None}, cap : Caps]
TaskRecords   == [status : Live \cup Ended \cup {"none"}, gen : Gens \cup {None}]
FileRecords   == [state : FileStates, cancel : BOOLEAN,
                  unit : [Units -> {"queued", "running", "completed", "failed"}]]
WorkerRecords == [pc : WorkerPCs, msg : Gens \cup {None}, task : Tasks \cup {None},
                  resume : BOOLEAN, units : SUBSET Units, final : FileStates \cup {"none"}]
ClientRecords == [pc : ClientPCs, op : Ops, task : Tasks \cup {None}, gen : Gens \cup {None}]

TypeOK ==
  /\ ev \in EvRecords /\ task \in [Tasks -> TaskRecords] /\ gens \in Gens \cup {0}
  /\ rows \in SUBSET Units /\ spent \in Nat
  /\ queue \in [Gens -> Nat] /\ revoked \in SUBSET Gens
  /\ result \in [Gens -> {"pending", "started", "retry", "success", "failure", "revoked"}]
  /\ file \in FileRecords
  /\ wk \in [Workers -> WorkerRecords] /\ cl \in [Clients -> ClientRecords]
  /\ late \in Nat /\ crashes \in Nat /\ errors \in Nat /\ repeats \in Nat

(* Whoever has claimed the evaluation still holds the generation that the   *)
(* linked task names: no start, resume, cancellation or redelivery puts a   *)
(* second generation beside a call that has not ended. *)
ExecutorIsCurrent ==
  \A w \in Workers :
    wk[w].pc \in {"file", "replay", "run", "loop", "dispatch", "call", "saved", "finish"} =>
      /\ task[wk[w].task].gen = wk[w].msg
      /\ ev.status = "deleted" \/ ev.task = wk[w].task

(* The evaluation and its task never disagree on being paused, completed or *)
(* cancelled, and a failed evaluation has a failed task. *)
Agreed == {"paused", "completed", "cancelled"}
VerdictsAgree ==
  ev.status # "deleted" /\ ev.task # None =>
    LET s == task[ev.task].status
    IN /\ ev.status \in Agreed \/ s \in Agreed => ev.status = s
       /\ ev.status = "failed" => s = "failed"

(* However often a unit is called, replayed or redelivered, it is charged   *)
(* once, and only with a confirmed outcome in the checkpoint. *)
ChargedOnce ==
  ev.status # "deleted" => spent = Cardinality(rows) /\ rows \subseteq Settled

(* "Completed" covers every unit with a result in the database. *)
CompletedIsWhole ==
  ev.status = "completed" => rows = Units /\ \A u \in Units : file.unit[u] = "completed"

(* No unit is called once the confirmed ones have used up the cap, those a  *)
(* lost worker confirmed without committing them included. *)
CapHolds ==
  \A w \in Workers : wk[w].pc = "call" => Cardinality(Settled) < ev.cap

(* Once a task is paused or cancelled at most the one unit that was past    *)
(* the check is still called, even if the checkpoint lost the request. *)
AtMostOneLateCall == late <= 1

(* Completed, failed and cancelled are final for a task, and completed and  *)
(* cancelled for the evaluation, until it is deleted. *)
DecidedIsFinal ==
  [][/\ \A t \in Tasks : task[t].status \in Ended => task'[t].status = task[t].status
     /\ ev.status \in {"completed", "cancelled"} => ev'.status \in {ev.status, "deleted"}
    ]_<<ev, task>>

(* A message that was published is run, dropped or refused in the end, in   *)
(* spite of the execution lock, repeats and crashes. *)
MessagesAreAnswered == \A g \in Gens : queue[g] > 0 ~> queue[g] = 0

(* "Do not overwrite a task already started, stopped or completed           *)
(* elsewhere": a publication that failed fails its own generation only. *)
PublishFailureIsOwn ==
  [][\A c \in Clients :
       cl[c].pc = "unsent" /\ cl'[c].pc = "idle" /\ task' # task =>
         task[cl[c].task].gen = cl[c].gen]_<<task, cl>>

(* "A checkpoint left by a lost worker is resumed from." *)
CheckpointIsResumed ==
  [][\A w \in Workers :
       wk[w].pc = "file" /\ file.state # "absent" => wk'[w].pc # "error"]_wk

(* Workers, and clients, may take each other's part. *)
Symmetry == Permutations(Workers) \cup Permutations(Clients)
=============================================================================
