----------------------------- MODULE ImportJob -----------------------------
(***************************************************************************)
(* One dataset import over its life. Its state is kept twice: the task in  *)
(* the business database (src/task_manager.py) and the job in the file      *)
(* database (api/files/store.py). A transition opens a business            *)
(* transaction, which holds the task row, reads the job, writes it in a    *)
(* transaction of its own and then commits; if that commit fails the job   *)
(* is restored. The worker is src/tasks/imports.py with                    *)
(* api/files/service.py.                                                   *)
(***************************************************************************)
EXTENDS Naturals, FiniteSets

CONSTANTS
  Workers, Clients,
  MaxGens,     \* bound: generations
  FaultKinds, MaxFaults \* bounds: which faults occur, once each, and how many

VARIABLES
  job,       \* status of the job row (file database)
  task,      \* task row as committed: status, generation, stop_confirmed
  tx,        \* the business transaction that holds the task row
  undo,      \* restorations that a failed commit still has to do
  gens, msgs, revoked, outcome, \* broker and result store, by generation
  wk, cl,    \* workers, and submissions or resumes that are under way
  merged,    \* how often the dataset was written
  faults     \* the kinds of fault that have occurred

importVars == <<job, task, tx, undo, gens, msgs, revoked, outcome, wk, cl, merged, faults>>

Gens  == 1 .. MaxGens
Ended == {"completed", "failed", "cancelled"}
Live  == {"pending", "running", "paused"}
NoTask == [status |-> "none", gen |-> 0, stopped |-> FALSE]
Free   == [pc |-> "idle", gen |-> 0, left |-> FALSE, res |-> "none"]
NoCall == [pc |-> "idle", resume |-> FALSE, gen |-> 0]
NoTx   == [by |-> "nobody", want |-> NoTask, prev |-> "none", synced |-> FALSE, own |-> FALSE,
           ok |-> "idle", bad |-> "idle"]

Fault(f) == /\ f \in FaultKinds \ faults /\ Cardinality(faults) < MaxFaults
            /\ faults' = faults \cup {f}
Go(w, pc) == wk' = [wk EXCEPT ![w].pc = pc]
Busy(g)   == Cardinality({w \in Workers : wk[w].gen = g})
broker    == <<gens, msgs, revoked, outcome>>

---------------------------------------------------------------------------
(* Paired transitions *)

(* a locks the task row, asks for the record t and reads the job; it goes  *)
(* on at ok, or at bad if the commit fails.                                *)
Open(a, t, ok, bad) ==
  /\ tx.by = "nobody"
  /\ tx' = [NoTx EXCEPT !.by = a, !.want = t, !.prev = job, !.ok = ok, !.bad = bad]

(* Slip: what the task asks for stands, whatever the job has come to. *)
SyncKeepsRequest ==
  /\ tx.by # "nobody" /\ ~tx.synced
  /\ job' = IF job \notin Ended /\ job = tx.prev THEN tx.want.status ELSE job
  /\ tx' = [tx EXCEPT !.synced = TRUE, !.own = job' = tx.want.status /\ job' # tx.prev]
  /\ UNCHANGED <<task, undo, broker, wk, cl, merged, faults>>

(* _sync_business: the job follows, unless it changed since it was read; a *)
(* job that has ended decides for the task.                                *)
Sync ==
  /\ tx.by # "nobody" /\ ~tx.synced
  /\ job' = IF job \notin Ended /\ job = tx.prev THEN tx.want.status ELSE job
  /\ tx' = [tx EXCEPT !.synced = TRUE, !.own = job' = tx.want.status /\ job' # tx.prev,
                      !.want.status = IF job' \in Ended THEN job' ELSE @]
  /\ UNCHANGED <<task, undo, broker, wk, cl, merged, faults>>

Leave(pc) ==
  /\ tx' = NoTx
  /\ wk' = IF tx.by \in Workers THEN [wk EXCEPT ![tx.by].pc = pc] ELSE wk
  /\ cl' = CASE tx.by \in Clients /\ pc = "idle" -> [cl EXCEPT ![tx.by] = NoCall]
             [] tx.by \in Clients /\ pc # "idle" -> [cl EXCEPT ![tx.by].pc = pc]
             [] OTHER -> cl

(* A claim whose job had ended is no claim. *)
Commit ==
  /\ tx.by # "nobody" /\ tx.synced
  /\ task' = tx.want
  /\ Leave(IF tx.ok = "progress" /\ tx.want.status # "running" THEN "refused" ELSE tx.ok)
  /\ UNCHANGED <<job, undo, broker, merged, faults>>

(* _commit when the database refuses: the row is free again before the job *)
(* is restored.                                                            *)
CommitFails ==
  /\ tx.by # "nobody" /\ tx.synced /\ Fault("commit")
  /\ undo' = IF tx.own THEN undo \cup {[expected |-> job, previous |-> tx.prev]} ELSE undo
  /\ Leave(tx.bad)
  /\ UNCHANGED <<job, task, broker, merged>>

(* restore_task_status. *)
Restore(u) ==
  /\ undo' = undo \ {u}
  /\ job' = IF job = u.expected THEN u.previous ELSE job
  /\ UNCHANGED <<task, tx, broker, wk, cl, merged, faults>>

---------------------------------------------------------------------------
(* Clients *)

(* import_uploaded: the job is created, then the task, then the message. *)
CreateJob(c) ==
  /\ job = "none" /\ job' = "pending" /\ cl' = [cl EXCEPT ![c].pc = "enqueue"]
  /\ UNCHANGED <<task, tx, undo, broker, wk, merged, faults>>

Enqueue(c) ==
  /\ cl[c].pc = "enqueue" /\ gens < MaxGens
  /\ gens' = gens + 1 /\ task' = [NoTask EXCEPT !.status = "pending", !.gen = gens']
  /\ cl' = [cl EXCEPT ![c] = [pc |-> "send", resume |-> FALSE, gen |-> gens']]
  /\ UNCHANGED <<job, tx, undo, msgs, revoked, outcome, wk, merged, faults>>

(* send_task returns, or raises with or without the message delivered. *)
Send(c) ==
  /\ cl[c].pc = "send"
  /\ \/ msgs' = [msgs EXCEPT ![cl[c].gen] = @ + 1]
        /\ cl' = [cl EXCEPT ![c] = NoCall] /\ UNCHANGED faults
     \/ /\ Fault("error") /\ cl' = [cl EXCEPT ![c].pc = "unsent"]
        /\ \E delivered \in {0, 1} : msgs' = [msgs EXCEPT ![cl[c].gen] = @ + delivered]
  /\ UNCHANGED <<job, task, tx, undo, gens, revoked, outcome, wk, merged>>

PublishFailed(c) ==
  /\ cl[c].pc = "unsent" /\ tx.by = "nobody"
  /\ IF task.status = "pending" /\ (cl[c].resume => task.gen = cl[c].gen)
     THEN /\ Open(c, [task EXCEPT !.status = "failed"], "idle", "idle")
          /\ cl' = [cl EXCEPT ![c].pc = "wait"]
     ELSE cl' = [cl EXCEPT ![c] = NoCall] /\ UNCHANGED tx
  /\ UNCHANGED <<job, task, undo, broker, wk, merged, faults>>

Pause ==
  /\ task.status = "running" /\ job \notin Ended
  /\ Open("api", [task EXCEPT !.status = "paused", !.stopped = FALSE], "idle", "idle")
  /\ UNCHANGED <<job, task, undo, broker, wk, cl, merged, faults>>

(* cancel_task revokes and terminates before it writes anything. *)
Cancel ==
  /\ task.status \in Live /\ job \notin Ended
  /\ Open("api", [task EXCEPT !.status = "cancelled"], "idle", "idle")
  /\ revoked' = revoked \cup {task.gen}
  /\ UNCHANGED <<job, task, undo, gens, msgs, outcome, wk, cl, merged, faults>>

Resume(c) ==
  /\ cl[c].pc = "idle" /\ gens < MaxGens
  /\ task.status = "paused" /\ job = "paused" /\ task.stopped
  /\ gens' = gens + 1
  /\ Open(c, [task EXCEPT !.status = "pending", !.gen = gens'], "send", "idle")
  /\ cl' = [cl EXCEPT ![c] = [pc |-> "wait", resume |-> TRUE, gen |-> gens']]
  /\ UNCHANGED <<job, task, undo, msgs, revoked, outcome, wk, merged, faults>>

(* get_task takes over Celery's verdict on this generation. *)
GetTask ==
  /\ task.status \in {"pending", "running"} /\ outcome[task.gen] # "none"
  /\ Open("api", [task EXCEPT !.status = outcome[task.gen]], "idle", "idle")
  /\ UNCHANGED <<job, task, undo, broker, wk, cl, merged, faults>>

(* FileService.cleanup, run by every request that stores or deletes a file. *)
TimeOut ==
  /\ job \in {"pending", "running"} /\ Fault("timeout") /\ job' = "failed"
  /\ UNCHANGED <<task, tx, undo, broker, wk, cl, merged>>

---------------------------------------------------------------------------
(* The worker *)

Take(w, g) ==
  /\ wk[w].pc = "idle" /\ msgs[g] > Busy(g)
  /\ IF g \in revoked
     THEN /\ msgs' = [msgs EXCEPT ![g] = @ - 1]
          /\ outcome' = [outcome EXCEPT ![g] = "cancelled"] /\ UNCHANGED wk
     ELSE /\ wk' = [wk EXCEPT ![w] = [pc |-> "got", gen |-> g, left |-> TRUE, res |-> "none"]]
          /\ UNCHANGED <<msgs, outcome>>
  /\ UNCHANGED <<job, task, tx, undo, gens, revoked, cl, merged, faults>>

Ack(w, o) ==
  /\ wk' = [wk EXCEPT ![w] = Free]
  /\ msgs' = [msgs EXCEPT ![wk[w].gen] = @ - 1]
  /\ outcome' = [outcome EXCEPT ![wk[w].gen] = o]
  /\ UNCHANGED <<gens, revoked>>

(* claim_task: exactly one delivery of the pending generation. *)
Claim(w) ==
  /\ wk[w].pc = "got" /\ tx.by = "nobody"
  /\ IF task.status = "pending" /\ task.gen = wk[w].gen
     THEN /\ Open(w, [task EXCEPT !.status = "running", !.stopped = FALSE], "progress", "raised")
          /\ Go(w, "wait")
     ELSE Go(w, "refused") /\ UNCHANGED tx
  /\ UNCHANGED <<job, task, undo, broker, cl, merged, faults>>

(* should_pause, and _experiment_transition_blocked for a live status. *)
Stopped(w) == task.status # "running" \/ task.gen # wk[w].gen

(* progress: it mirrors "running" onto the job, or the job's end back. *)
Progress(w) ==
  /\ wk[w].pc = "progress" /\ tx.by = "nobody"
  /\ IF Stopped(w) THEN Go(w, "check") /\ UNCHANGED tx
     ELSE Open(w, task, "check", "error") /\ Go(w, "wait")
  /\ UNCHANGED <<job, task, undo, broker, cl, merged, faults>>

Check(w) ==
  /\ wk[w].pc = "check"
  /\ Go(w, CASE Stopped(w) -> "drain"
             [] ~Stopped(w) /\ wk[w].left -> "item"
             [] OTHER -> "merge")
  /\ UNCHANGED <<job, task, tx, undo, broker, cl, merged, faults>>

(* The remaining items are validated and the checkpoint is written. *)
Item(w) ==
  /\ wk[w].pc = "item"
  /\ wk' = [wk EXCEPT ![w].pc = "progress", ![w].left = FALSE]
  /\ UNCHANGED <<job, task, tx, undo, broker, cl, merged, faults>>

(* pause_job, after the checkpoint. *)
Drain(w) ==
  /\ wk[w].pc = "drain" /\ Go(w, "read")
  /\ job' = IF job = "running" THEN "paused" ELSE job
  /\ UNCHANGED <<task, tx, undo, broker, cl, merged, faults>>

(* Slip: the merge trusts the check before it and does not read the job. *)
MayMergeUnread == TRUE

(* merge_dataset and its refusal, which fails only what is active. *)
MayMerge == job = "running"

Merge(w) ==
  /\ wk[w].pc = "merge"
  /\ IF MayMerge THEN job' = "completed" /\ merged' = merged + 1 /\ Go(w, "read")
     ELSE Go(w, "error") /\ UNCHANGED <<job, merged>>
  /\ UNCHANGED <<task, tx, undo, broker, cl, faults>>

Raise(w) ==
  /\ wk[w].pc \in {"item", "merge"} /\ Fault("error") /\ Go(w, "error")
  /\ UNCHANGED <<job, task, tx, undo, broker, cl, merged>>

(* fail_job. *)
FailJob(w) ==
  /\ wk[w].pc = "error" /\ Go(w, "read")
  /\ job' = IF job \in {"pending", "running"} THEN "failed" ELSE job
  /\ UNCHANGED <<task, tx, undo, broker, cl, merged, faults>>

(* execute_import returns the job, or raises. *)
ReadJob(w) ==
  /\ wk[w].pc = "read"
  /\ \/ wk' = [wk EXCEPT ![w].pc = "ask", ![w].res = job] /\ UNCHANGED faults
     \/ wk' = [wk EXCEPT ![w].pc = "ask", ![w].res = "raised"] /\ Fault("error")
  /\ UNCHANGED <<job, task, tx, undo, broker, cl, merged>>

Ask(w) ==
  /\ wk[w].pc = "ask"
  /\ Go(w, IF wk[w].res = "paused" \/ Stopped(w) THEN "confirm" ELSE "settle")
  /\ UNCHANGED <<job, task, tx, undo, broker, cl, merged, faults>>

(* update_task_status with the verdict that was read. *)
Settle(w) ==
  /\ wk[w].pc = "settle" /\ tx.by = "nobody"
  /\ IF Stopped(w) THEN Go(w, "confirm") /\ UNCHANGED tx
     ELSE /\ Open(w, [task EXCEPT !.status = IF wk[w].res = "completed" THEN @ ELSE "failed"],
                  "confirm", "confirmed_not")
          /\ Go(w, "wait")
  /\ UNCHANGED <<job, task, undo, broker, cl, merged, faults>>

(* confirm_stopped, by the worker that claimed this generation. *)
Confirm(w) ==
  /\ wk[w].pc \in {"confirm", "confirmed_not"} /\ tx.by = "nobody"
  /\ Go(w, IF wk[w].pc = "confirm" /\ wk[w].res # "raised" THEN "refused" ELSE "raised")
  /\ task' = IF task.status = "paused" /\ task.gen = wk[w].gen
             THEN [task EXCEPT !.stopped = TRUE] ELSE task
  /\ UNCHANGED <<job, tx, undo, broker, cl, merged, faults>>

Return(w) ==
  /\ \/ wk[w].pc = "refused" /\ Ack(w, "none")
     \/ wk[w].pc = "raised" /\ Ack(w, "failed")
  /\ UNCHANGED <<job, task, tx, undo, cl, merged, faults>>

---------------------------------------------------------------------------
(* Faults *)

(* A process dies, its transaction is rolled back; a message that a worker *)
(* held is delivered again.                                                *)
ApiDies ==
  /\ Fault("crash")
  /\ \/ tx.by \in Clients \cup {"api"} /\ Leave("idle") /\ UNCHANGED undo
     \/ \E u \in undo : undo' = undo \ {u} /\ UNCHANGED <<tx, wk, cl>>
     \/ \E c \in Clients : /\ cl[c].pc \notin {"idle", "wait"}
                           /\ cl' = [cl EXCEPT ![c] = NoCall] /\ UNCHANGED <<tx, wk, undo>>
  /\ UNCHANGED <<job, task, broker, merged>>

WorkerDies(w) ==
  /\ wk[w].pc # "idle" /\ Fault("crash")
  /\ wk' = [wk EXCEPT ![w] = Free] /\ tx' = IF tx.by = w THEN NoTx ELSE tx
  /\ UNCHANGED <<job, task, undo, broker, cl, merged>>

(* revoke(terminate=True) reaches the worker. *)
Terminate(w) ==
  /\ wk[w].pc # "idle" /\ wk[w].gen \in revoked
  /\ Ack(w, "cancelled") /\ tx' = IF tx.by = w THEN NoTx ELSE tx
  /\ UNCHANGED <<job, task, undo, cl, merged, faults>>

Repeat(g) ==
  /\ msgs[g] > 0 /\ Fault("repeat") /\ msgs' = [msgs EXCEPT ![g] = @ + 1]
  /\ UNCHANGED <<job, task, tx, undo, gens, revoked, outcome, wk, cl, merged>>

---------------------------------------------------------------------------
Init ==
  /\ job = "none" /\ task = NoTask /\ tx = NoTx /\ undo = {} /\ gens = 0 /\ revoked = {}
  /\ msgs = [g \in Gens |-> 0] /\ outcome = [g \in Gens |-> "none"] /\ merged = 0
  /\ wk = [w \in Workers |-> Free] /\ cl = [c \in Clients |-> NoCall] /\ faults = {}

Request == Pause \/ Cancel \/ GetTask \/ TimeOut \/ \E c \in Clients : CreateJob(c) \/ Resume(c)
Carry(c) == Enqueue(c) \/ Send(c) \/ PublishFailed(c)
Work(w) ==
  \/ \E g \in Gens : Take(w, g)
  \/ Claim(w) \/ Progress(w) \/ Check(w) \/ Item(w) \/ Drain(w) \/ Merge(w) \/ FailJob(w)
  \/ ReadJob(w) \/ Ask(w) \/ Settle(w) \/ Confirm(w) \/ Return(w)
Transact == Sync \/ Commit
Failure == \/ CommitFails \/ ApiDies
           \/ \E w \in Workers : Raise(w) \/ WorkerDies(w) \/ Terminate(w)
           \/ \E g \in Gens : Repeat(g)
Next == \/ Request \/ Transact \/ Failure \/ (\E u \in undo : Restore(u))
        \/ (\E c \in Clients : Carry(c)) \/ (\E w \in Workers : Work(w))

Spec == Init /\ [][Next]_importVars

(* A transaction ends, a request and a worker go on with what they began. *)
Fairness == /\ WF_importVars(Transact)
            /\ \A c \in Clients : SF_importVars(Carry(c))
            /\ \A w \in Workers : SF_importVars(Work(w))
FairSpec == Spec /\ Fairness

---------------------------------------------------------------------------
(* Properties *)

TypeOK ==
  /\ job \in Live \cup Ended \cup {"none"} /\ gens \in 0 .. MaxGens
  /\ task.status \in Live \cup Ended \cup {"none"} /\ task.gen \in 0 .. gens
  /\ tx.by \in Workers \cup Clients \cup {"api", "nobody"} /\ tx.want.gen \in 0 .. gens
  /\ \A g \in Gens : Busy(g) <= msgs[g] /\ outcome[g] \in {"none", "failed", "cancelled"}
  /\ merged \in Nat

(* The dataset is written once, by a job that is and stays completed; and, *)
(* unless a commit was refused (see NewerTransitionStays), never for a task *)
(* that has failed or was cancelled, whichever database was written last   *)
(* (merge_dataset, _sync_business, _commit).                               *)
DatasetFollowsVerdict ==
  /\ merged > 0 => merged = 1 /\ job = "completed"
  /\ task.status \in {"failed", "cancelled"} /\ "commit" \notin faults => merged = 0

(* The verdict of a job reaches its task, unless a process died, an        *)
(* exception was raised or a commit was refused (then the task may be left *)
(* running with nobody to end it).                                         *)
Calm == faults \cap {"crash", "error", "commit"} = {}
VerdictGiven == job \in Ended /\ Calm
VerdictTaken == task.status \in Ended \/ ~Calm
VerdictReachesTask == VerdictGiven ~> VerdictTaken

(* restore_task_status promises to "Compensate a failed business commit    *)
(* without touching a newer transition": what a later transaction of the   *)
(* task has committed is not undone.                                       *)
RestoresItsOwn == \A u \in undo : Restore(u) /\ job' # job => job # task.status
NewerTransitionStays == [][RestoresItsOwn]_importVars
=============================================================================
