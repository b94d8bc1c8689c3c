---------------------------- MODULE BusinessTask ----------------------------
(***************************************************************************)
(* One experiment, benchmark run or A/B test over its life: the API        *)
(* processes (api/services/{experiment,benchmark,ab_test}_service.py with   *)
(* src/task_manager.py), the broker, and the Celery workers                *)
(* (src/tasks/{experiment,benchmark,ab_test}.py). Unlike an evaluation it   *)
(* has no execution lock: a worker claims the pending generation in the    *)
(* database, and a paused task may be resumed only when the worker that    *)
(* claimed it has confirmed that it stopped. A transaction that locks the  *)
(* task row, or one conditional UPDATE, is one step; startup recovery and  *)
(* the tail of a benchmark lock nothing: each read and write is a step.    *)
(***************************************************************************)
EXTENDS Naturals, FiniteSets

CONSTANTS
  Kinds,       \* the kinds of business task considered
  NUnits,      \* units of work (combinations, problems, variants)
  Workers, Clients,
  MaxGens,     \* bound: generations
  FaultKinds, MaxFaults \* bounds: which faults occur, once each, and how many

VARIABLES
  kind,        \* which of the three this behaviour is about
  row,         \* status of the business row
  task,        \* task row: status, generation, stop_confirmed, who claimed it
  gens, msgs, revoked, outcome, \* broker and result store, by generation
  done,        \* units whose result is saved
  wk, cl,      \* the workers, and the requests that clients have under way
  late,        \* history: units begun since the task stopped being running
  faults,      \* the kinds of fault that have occurred
  recovery,    \* what an API process that starts up has read of a benchmark run
  overtaken    \* history: such a write met a task that had moved on since the reading

businessVars == <<kind, row, task, gens, msgs, revoked, outcome, done, wk, cl, late, faults,
                  recovery, overtaken>>

Gens  == 1 .. MaxGens
Live  == {"pending", "running", "paused"}
Ended == {"completed", "failed", "cancelled"}
NoTask == [status |-> "none", gen |-> 0, stopped |-> FALSE, by |-> "nobody"]
Free   == [pc |-> "idle", gen |-> 0, res |-> "none"]
NoCall == [pc |-> "idle", resume |-> FALSE, gen |-> 0]

(* Where a worker executes units, or may still decide about the task. *)
Outside == {"idle", "got", "confirm", "return", "lost"}
Executing(w) == wk[w].pc \notin Outside

Busy(g)  == Cardinality({w \in Workers : wk[w].gen = g})
Go(w, pc)      == wk' = [wk EXCEPT ![w].pc = pc]
Result(w, r)   == wk' = [wk EXCEPT ![w].pc = "end", ![w].res = r]
Settling(w, s) == wk' = [wk EXCEPT ![w].pc = "settle", ![w].res = s]
Fault(f)       == /\ f \in FaultKinds \ faults /\ Cardinality(faults) < MaxFaults
                  /\ faults' = faults \cup {f}

(* The task gets status s and the business row mirrors it (_sync_business). *)
Status(s) == task' = [task EXCEPT !.status = s] /\ row' = IF row = "gone" THEN row ELSE s
Same      == UNCHANGED <<task, row>>

(* update_task_status: what ended stays, and a pause yields to cancel only. *)
Blocked(s) == task.status \in Ended \cup {"none"} \/ (task.status = "paused" /\ s # "cancelled")
Update(s)  == IF Blocked(s) THEN Same ELSE Status(s)

broker   == <<gens, msgs, revoked, outcome>>
unlocked == <<recovery, overtaken>>
---------------------------------------------------------------------------
(* Clients *)

(* create_experiment, create_test; the row that start_run commits first. *)
Create(c) ==
  /\ row = "none" /\ cl[c].pc = "idle"
  /\ row' = "pending"
  /\ cl' = IF kind = "benchmark" THEN [cl EXCEPT ![c].pc = "link"] ELSE cl
  /\ UNCHANGED <<kind, task, broker, done, wk, late, faults, unlocked>>

(* start_experiment, start_test and the second transaction of start_run. *)
Start(c) ==
  /\ gens < MaxGens
  /\ \/ kind = "benchmark" /\ cl[c].pc = "link"
     \/ kind # "benchmark" /\ cl[c].pc = "idle" /\ row = "pending" /\ task = NoTask
  /\ gens' = gens + 1
  /\ task' = [NoTask EXCEPT !.status = "pending", !.gen = gens']
  /\ cl' = [cl EXCEPT ![c] = [pc |-> "send", resume |-> FALSE, gen |-> gens']]
  /\ UNCHANGED <<kind, row, msgs, revoked, outcome, done, wk, late, faults, unlocked>>

(* Slip: resume asks only that the records are paused. *)
MayResumeUnconfirmed == task.status = "paused" /\ row = "paused"

(* _resume_task on the three business types. *)
MayResume == task.status = "paused" /\ row = "paused" /\ task.stopped

Resume(c) ==
  /\ cl[c].pc = "idle" /\ gens < MaxGens /\ MayResume
  /\ gens' = gens + 1
  /\ task' = [task EXCEPT !.status = "pending", !.gen = gens'] /\ row' = "pending"
  /\ cl' = [cl EXCEPT ![c] = [pc |-> "send", resume |-> TRUE, gen |-> gens']]
  /\ UNCHANGED <<kind, msgs, revoked, outcome, done, wk, late, faults, unlocked>>

(* send_task returns, or raises with or without the message delivered. *)
Send(c) ==
  /\ cl[c].pc = "send"
  /\ \E delivered, answered \in BOOLEAN :
       /\ answered => delivered
       /\ msgs' = IF delivered THEN [msgs EXCEPT ![cl[c].gen] = @ + 1] ELSE msgs
       /\ cl' = [cl EXCEPT ![c] = IF answered THEN NoCall ELSE [@ EXCEPT !.pc = "unsent"]]
  /\ UNCHANGED <<kind, row, task, gens, revoked, outcome, done, wk, late, faults, unlocked>>

(* A failed publication fails what is still pending; a resume looks at the *)
(* generation as well.                                                     *)
PublishFailed(c) ==
  /\ cl[c].pc = "unsent"
  /\ IF task.status = "pending" /\ (cl[c].resume => task.gen = cl[c].gen)
     THEN Status("failed") ELSE Same
  /\ cl' = [cl EXCEPT ![c] = NoCall]
  /\ UNCHANGED <<kind, broker, done, wk, late, faults, unlocked>>

(* pause_task; a finished business record refuses. *)
Pause ==
  /\ task.status = "running" /\ row \notin Ended
  /\ task' = [task EXCEPT !.status = "paused", !.stopped = FALSE]
  /\ row' = IF row = "gone" THEN row ELSE "paused"
  /\ UNCHANGED <<kind, broker, done, wk, cl, late, faults, unlocked>>

(* cancel_task revokes and terminates, then commits; its process may die   *)
(* in between.                                                             *)
Cancel ==
  /\ task.status \in Live /\ row \notin Ended
  /\ revoked' = revoked \cup {task.gen}
  /\ \/ Status("cancelled") /\ UNCHANGED faults
     \/ Same /\ Fault("crash")
  /\ UNCHANGED <<kind, gens, msgs, outcome, done, wk, cl, late, unlocked>>

(* get_task takes over Celery's failure or revocation of this generation. *)
GetTask ==
  /\ task.status \in {"pending", "running"}
  /\ \/ outcome[task.gen] = "failure" /\ Update("failed")
     \/ outcome[task.gen] = "revoked" /\ Update("cancelled")
  /\ UNCHANGED <<kind, broker, done, wk, cl, late, faults, unlocked>>

(* delete_experiment keeps the task row, delete_test deletes it. *)
Delete ==
  /\ kind # "benchmark" /\ row \in {"pending"} \cup Ended /\ task.status \notin Live
  /\ row' = "gone"
  /\ task' = IF kind = "ab_test" THEN NoTask ELSE task
  /\ UNCHANGED <<kind, broker, done, wk, cl, late, faults, unlocked>>

(* _recover_interrupted in another API process that starts up: an orphan   *)
(* fails. For experiments and A/B tests this is one conditional UPDATE, and *)
(* a configuration that was never submitted survives.                      *)
RecoverAtOnce ==
  /\ task.status \notin Live
  /\ \/ kind = "experiment" /\ (row = "running" \/ (row = "pending" /\ task # NoTask))
     \/ kind = "ab_test" /\ row = "running"
  /\ row' = "failed" /\ UNCHANGED <<faults, unlocked>>

(* For benchmark runs the live tasks are read first, then the rows, and at *)
(* the commit the rows without a live task are written by their ids.       *)
RecoverTasks ==
  /\ kind = "benchmark" /\ recovery = "none" /\ task.status \notin Live
  /\ Fault("restart") /\ recovery' = "unowned"
  /\ UNCHANGED <<row, overtaken>>

RecoverRows ==
  /\ recovery = "unowned"
  /\ recovery' = IF row \in {"pending", "running"} THEN "doomed" ELSE "none"
  /\ UNCHANGED <<row, overtaken, faults>>

RecoverWrite ==
  /\ kind = "benchmark" /\ recovery = "doomed"
  /\ recovery' = "none" /\ row' = "failed"
  /\ overtaken' = (overtaken \/ task # NoTask)
  /\ UNCHANGED faults

(* Slip: a paused task does not count as live. *)
RecoverPaused ==
  /\ \/ /\ task.status \notin {"pending", "running"} /\ row \in {"running", "paused"}
        /\ kind # "benchmark" /\ row' = "failed" /\ UNCHANGED <<faults, unlocked>>
     \/ RecoverTasks \/ RecoverRows \/ RecoverWrite
  /\ UNCHANGED <<kind, task, broker, done, wk, cl, late>>

Recover ==
  /\ RecoverAtOnce \/ RecoverTasks \/ RecoverRows \/ RecoverWrite
  /\ UNCHANGED <<kind, task, broker, done, wk, cl, late>>

---------------------------------------------------------------------------
(* Workers *)

(* Slip: a message is acknowledged when it is delivered. *)
AckedAtOnce(g) == msgs' = [msgs EXCEPT ![g] = @ - 1]

(* acks_late: the broker keeps what it has delivered. *)
KeptTillDone(g) == UNCHANGED msgs

(* A message is delivered; one whose generation was revoked is dropped. *)
Take(w, g) ==
  /\ wk[w].pc = "idle" /\ msgs[g] > Busy(g)
  /\ IF g \in revoked
     THEN /\ msgs' = [msgs EXCEPT ![g] = @ - 1]
          /\ outcome' = [outcome EXCEPT ![g] = "revoked"]
          /\ UNCHANGED wk
     ELSE /\ wk' = [wk EXCEPT ![w] = [pc |-> "got", gen |-> g, res |-> "none"]]
          /\ KeptTillDone(g) /\ UNCHANGED outcome
  /\ UNCHANGED <<kind, row, task, gens, revoked, done, cl, late, faults, unlocked>>

(* The worker has returned (or raised) and the message is acknowledged. *)
Ack(w, o) ==
  /\ wk' = [wk EXCEPT ![w] = Free]
  /\ msgs' = [msgs EXCEPT ![wk[w].gen] = @ - 1]
  /\ outcome' = [outcome EXCEPT ![wk[w].gen] = o]
  /\ UNCHANGED <<gens, revoked>>

(* claim_task: exactly one delivery of the pending generation. *)
Claimable(w) == task.status = "pending" /\ task.gen = wk[w].gen

(* The head of the three tasks up to the claim, in one transaction. An A/B *)
(* test does not look at its row and takes a foreign generation for an error. *)
Claim(w) ==
  /\ wk[w].pc = "got" /\ Claimable(w) /\ (kind = "ab_test" \/ row = "pending")
  /\ task' = [task EXCEPT !.status = "running", !.stopped = FALSE, !.by = w]
  /\ row' = IF row = "gone" THEN row ELSE "running"
  /\ Go(w, IF kind = "ab_test" THEN "loop" ELSE "read")
  /\ late' = 0
  /\ UNCHANGED <<kind, broker, done, cl, faults, unlocked>>

Refuse(w) ==
  /\ wk[w].pc = "got" /\ ~(Claimable(w) /\ (kind = "ab_test" \/ row = "pending"))
  /\ IF Claimable(w)
     THEN Update("failed") /\ Ack(w, "failure")
     ELSE Same /\ Ack(w, IF task = NoTask \/ (kind = "ab_test" /\ task.gen # wk[w].gen)
                         THEN "failure" ELSE "none")
  /\ UNCHANGED <<kind, done, cl, late, faults, unlocked>>

(* An exception before the claim, e.g. the database is out of reach. The   *)
(* failure signal of an A/B test fails a task that is still pending.       *)
EarlyError(w) ==
  /\ wk[w].pc = "got" /\ Fault("error")
  /\ IF kind = "ab_test" /\ Claimable(w) THEN Status("failed") ELSE Same
  /\ Ack(w, "failure")
  /\ UNCHANGED <<kind, done, cl, late, unlocked>>

(* _execute of experiments and benchmarks reads the records once more. *)
Read(w) ==
  /\ wk[w].pc = "read"
  /\ Go(w, IF row = "running" /\ (kind = "experiment" \/ task.status = "running")
           THEN "loop" ELSE "post")
  /\ UNCHANGED <<kind, row, task, broker, done, cl, late, faults, unlocked>>

(* _async_task_stopped, _async_task_paused, _should_stop. *)
Stopped(w) == IF task = NoTask THEN kind = "ab_test"
              ELSE task.status # "running" \/ task.gen # wk[w].gen

(* Before a unit; the user's own budget may say pause at any time. *)
Check(w) ==
  /\ wk[w].pc = "loop" /\ done < NUnits
  /\ \/ Stopped(w) /\ Result(w, "paused")
     \/ ~Stopped(w) /\ Go(w, "start")
     \/ ~Stopped(w) /\ Result(w, "paused")
  /\ UNCHANGED <<kind, row, task, broker, done, cl, late, faults, unlocked>>

StartUnit(w) ==
  /\ wk[w].pc = "start" /\ Go(w, "unit")
  /\ late' = IF task.status = "running" THEN 0 ELSE late + 1
  /\ UNCHANGED <<kind, row, task, broker, done, cl, faults, unlocked>>

(* The result is saved; the progress that is then written changes no status. *)
EndUnit(w) ==
  /\ wk[w].pc = "unit" /\ Go(w, "loop") /\ done' = done + 1
  /\ UNCHANGED <<kind, row, task, broker, cl, late, faults, unlocked>>

AllDone(w) ==
  /\ wk[w].pc = "loop" /\ done = NUnits /\ Result(w, "completed")
  /\ UNCHANGED <<kind, row, task, broker, done, cl, late, faults, unlocked>>

Raise(w) ==
  /\ wk[w].pc \in {"loop", "unit"} /\ Fault("error") /\ Result(w, "failed")
  /\ UNCHANGED <<kind, row, task, broker, done, cl, late, unlocked>>

(* _finish, _fail and the transaction that completes a benchmark. *)
MayFinish(w) ==
  /\ task.status = "running" /\ task.gen = wk[w].gen
  /\ kind = "ab_test" \/ wk[w].res = "failed" \/ row = "running"

Finish(w) ==
  /\ wk[w].pc = "end" /\ (kind = "benchmark" => wk[w].res # "paused")
  /\ IF MayFinish(w) THEN Status(wk[w].res) ELSE Same
  /\ Go(w, IF kind = "ab_test" THEN "confirm" ELSE "post")
  /\ UNCHANGED <<kind, broker, done, cl, late, faults, unlocked>>

(* A benchmark that pauses locks task and run, and looks at each by itself. *)
FinishPaused(w) ==
  /\ wk[w].pc = "end" /\ kind = "benchmark" /\ wk[w].res = "paused"
  /\ task' = IF task.status = "running" THEN [task EXCEPT !.status = "paused"] ELSE task
  /\ row' = IF row = "running" THEN "paused" ELSE row
  /\ Go(w, "post")
  /\ UNCHANGED <<kind, broker, done, cl, late, faults, unlocked>>

FinishFails(w) ==
  /\ wk[w].pc = "end" /\ kind # "ab_test" /\ Fault("error") /\ Go(w, "error")
  /\ UNCHANGED <<kind, row, task, broker, done, cl, late, unlocked>>

(* An experiment's task mirrors what the service left in the row, under    *)
(* the lock of the task.                                                   *)
Post(w) ==
  /\ wk[w].pc = "post" /\ kind = "experiment"
  /\ IF task.status \in Ended \cup {"paused"} THEN Same
     ELSE Update(IF row \in Ended \cup {"paused"} THEN row ELSE "failed")
  /\ Go(w, "confirm")
  /\ UNCHANGED <<kind, broker, done, cl, late, faults, unlocked>>

(* A benchmark's task reads its run, then the task (_is_paused) ...        *)
PostRow(w) ==
  /\ wk[w].pc = "post" /\ kind = "benchmark"
  /\ LET known == {"running", "paused", "completed", "cancelled"} IN
     wk' = [wk EXCEPT ![w].pc = "posted", ![w].res = IF row \in known THEN row ELSE "failed"]
  /\ UNCHANGED <<kind, row, task, broker, done, cl, late, faults, unlocked>>

PostTask(w) ==
  /\ wk[w].pc = "posted"
  /\ LET seen == wk[w].res IN
     \/ task.status = "cancelled" /\ Go(w, "confirm")
     \/ task.status # "cancelled" /\ seen = "cancelled" /\ Settling(w, "cancelled")
     \/ /\ "cancelled" \notin {task.status, seen} /\ "paused" \in {task.status, seen}
        /\ Go(w, IF seen = "running" THEN "keep" ELSE "confirm")
     \/ /\ {"cancelled", "paused"} \cap {task.status, seen} = {}
        /\ Settling(w, IF seen = "completed" THEN "completed" ELSE "failed")
  /\ UNCHANGED <<kind, row, task, broker, done, cl, late, faults, unlocked>>

(* ... and so does the handler of an exception that left _execute, the     *)
(* task (_is_paused) before the run.                                       *)
ErrorTask(w) ==
  /\ wk[w].pc = "error" /\ kind = "benchmark"
  /\ Go(w, IF task.status = "paused" THEN "keeping" ELSE "failing")
  /\ UNCHANGED <<kind, row, task, broker, done, cl, late, faults, unlocked>>

ErrorRow(w) ==
  /\ \/ wk[w].pc = "keeping" /\ Go(w, IF row = "running" THEN "keep" ELSE "confirm")
     \/ wk[w].pc = "failing" /\ row \notin Ended \cup {"paused"} /\ Go(w, "mark")
     \/ wk[w].pc = "failing" /\ row \in Ended \cup {"paused"} /\ Settling(w, "failed")
  /\ UNCHANGED <<kind, row, task, broker, done, cl, late, faults, unlocked>>

(* _keep_paused and the handler write the run by its id, whatever has      *)
(* become of it and of its task since the two readings.                    *)
WriteRow(w) ==
  /\ kind = "benchmark"
  /\ \/ wk[w].pc = "keep" /\ row' = "paused" /\ Go(w, "confirm")
     \/ wk[w].pc = "mark" /\ row' = "failed" /\ Settling(w, "failed")
  /\ overtaken' = (overtaken \/ task.status \in (Ended \cup {"paused"}) \ {row'})
  /\ UNCHANGED <<kind, task, broker, done, cl, late, faults, recovery>>

(* update_task_status at the end; an experiment's handler does only this.  *)
Settle(w) ==
  /\ \/ wk[w].pc = "settle" /\ Update(wk[w].res)
     \/ wk[w].pc = "error" /\ kind = "experiment" /\ Update("failed")
  /\ Go(w, "confirm")
  /\ UNCHANGED <<kind, broker, done, cl, late, faults, unlocked>>

(* Slip: only a worker that itself decided to pause confirms. *)
ConfirmsOwnPause(w) == task.status = "paused" /\ task.gen = wk[w].gen /\ wk[w].res = "paused"

(* confirm_stopped, by the worker that claimed this generation. *)
Confirms(w) == task.status = "paused" /\ task.gen = wk[w].gen

Confirm(w) ==
  /\ wk[w].pc = "confirm" /\ Go(w, "return")
  /\ task' = IF Confirms(w) THEN [task EXCEPT !.stopped = TRUE] ELSE task
  /\ UNCHANGED <<kind, row, broker, done, cl, late, faults, unlocked>>

Return(w) ==
  /\ wk[w].pc = "return" /\ Ack(w, "none")
  /\ UNCHANGED <<kind, row, task, done, cl, late, faults, unlocked>>

---------------------------------------------------------------------------
(* Faults *)

(* A worker dies: the message is delivered again. The parent of an A/B     *)
(* worker notices that its child is lost and drops the message instead.    *)
Crash(w) ==
  /\ wk[w].pc \notin {"idle", "lost"} /\ Fault("crash")
  /\ \/ wk' = [wk EXCEPT ![w] = Free]
     \/ kind = "ab_test" /\ Go(w, "lost")
  /\ UNCHANGED <<kind, row, task, broker, done, cl, late, unlocked>>

(* record_ab_test_failure: only the claimant's loss fails a running task. *)
RecordLost(w) ==
  /\ wk[w].pc = "lost"
  /\ IF task.gen = wk[w].gen
        /\ (task.status = "pending" \/ (task.status = "running" /\ task.by = w))
     THEN Status("failed") ELSE Same
  /\ Ack(w, "failure")
  /\ UNCHANGED <<kind, done, cl, late, faults, unlocked>>

(* The broker delivers once more what a worker still holds. *)
Repeat(g) ==
  /\ msgs[g] > 0 /\ Fault("repeat")
  /\ msgs' = [msgs EXCEPT ![g] = @ + 1]
  /\ UNCHANGED <<kind, row, task, gens, revoked, outcome, done, wk, cl, late, unlocked>>

(* revoke(terminate=True) reaches the worker. *)
Terminate(w) ==
  /\ wk[w].pc \notin {"idle", "lost"} /\ wk[w].gen \in revoked
  /\ Ack(w, "revoked")
  /\ UNCHANGED <<kind, row, task, done, cl, late, faults, unlocked>>

---------------------------------------------------------------------------
Init ==
  /\ kind \in Kinds /\ row = "none" /\ task = NoTask
  /\ gens = 0 /\ msgs = [g \in Gens |-> 0] /\ revoked = {} /\ outcome = [g \in Gens |-> "none"]
  /\ done = 0 /\ late = 0
  /\ wk = [w \in Workers |-> Free] /\ cl = [c \in Clients |-> NoCall]
  /\ faults = {} /\ recovery = "none" /\ overtaken = FALSE

Request == \/ \E c \in Clients : Create(c) \/ Start(c) \/ Resume(c)
           \/ Pause \/ Cancel \/ GetTask \/ Delete \/ Recover
Carry(c) == (cl[c].pc = "link" /\ Start(c)) \/ Send(c) \/ PublishFailed(c)
Work(w) ==
  \/ \E g \in Gens : Take(w, g)
  \/ Claim(w) \/ Refuse(w) \/ Read(w) \/ Check(w) \/ StartUnit(w) \/ EndUnit(w) \/ AllDone(w)
  \/ Finish(w) \/ FinishPaused(w) \/ Post(w) \/ PostRow(w) \/ PostTask(w)
  \/ ErrorTask(w) \/ ErrorRow(w) \/ WriteRow(w) \/ Settle(w)
  \/ Confirm(w) \/ Return(w) \/ RecordLost(w)
Failure == \/ \E w \in Workers : EarlyError(w) \/ Raise(w) \/ FinishFails(w) \/ Crash(w) \/ Terminate(w)
           \/ \E g \in Gens : Repeat(g)

Next == Request \/ Failure \/ (\E c \in Clients : Carry(c)) \/ (\E w \in Workers : Work(w))
Spec == Init /\ [][Next]_businessVars

(* A request that has begun goes on, a worker goes on with its message. *)
Fairness == /\ \A c \in Clients : WF_businessVars(Carry(c))
            /\ \A w \in Workers : WF_businessVars(Work(w))
FairSpec == Spec /\ Fairness

---------------------------------------------------------------------------
(* Properties *)

TypeOK ==
  /\ kind \in Kinds /\ row \in Live \cup Ended \cup {"none", "gone"}
  /\ task.status \in Live \cup Ended \cup {"none"} /\ task.gen \in 0 .. gens
  /\ gens \in 0 .. MaxGens /\ revoked \subseteq 1 .. gens
  /\ \A g \in Gens : Busy(g) <= msgs[g] /\ outcome[g] \in {"none", "failure", "revoked"}
  /\ done \in 0 .. NUnits /\ late \in Nat
  /\ recovery \in {"none", "unowned", "doomed"} /\ overtaken \in BOOLEAN

(* A stop is a stop, and a resumed task has one executor: once a pause or  *)
(* a cancellation is committed at most the one unit that had passed its    *)
(* check begins, and from a confirmed stop until the next claim no worker  *)
(* is between its claim and its last decision (should_stop,                *)
(* confirm_stopped, _resume_task, claim_task).                             *)
OneExecutor ==
  /\ late <= 1
  /\ task.stopped => \A w \in Workers : ~Executing(w)
  /\ \A v, w \in Workers : Executing(v) /\ Executing(w) => v = w

(* When a task has ended or is paused, its business row says the same,     *)
(* whichever of the services, the manager, the worker and the failure      *)
(* signal wrote last. The one exception is a benchmark whose startup       *)
(* recovery or exception handler, which read and write without a lock, was *)
(* overtaken by a start, a pause or a verdict: its run says failed then,    *)
(* and nothing else.                                                       *)
RowAgrees ==
  task.status \in Ended \cup {"paused"} /\ row # "gone" =>
    row = task.status \/ (kind = "benchmark" /\ overtaken /\ row = "failed")

(* A pause is confirmed, or overtaken, as long as no process died.         *)
Pausing == task.status = "paused" /\ "crash" \notin faults
PauseIsOver == task.stopped \/ task.status # "paused" \/ "crash" \in faults
PauseIsConfirmed == Pausing ~> PauseIsOver

(* "A failed duplicate child must not stop the delivery holding the claim." *)
OthersSpareTheClaim ==
  \A w \in Workers :
    Executing(w) /\ task.by = w /\ task.status = "running" /\ wk'[w] = wk[w]
      => task'.status # "failed"
DuplicateIsHarmless == [][OthersSpareTheClaim]_businessVars
=============================================================================
