--------------------- MODULE EvaluationLifecycle_proofs ---------------------
(***************************************************************************)
(* Theorems about EvaluationLifecycle for any number of units, workers,    *)
(* clients, tasks, generations, crashes, exceptions and repeats.           *)
(*                                                                         *)
(* The inductive invariant IInv joins what the runs check (TypeOK,         *)
(* VerdictsAgree, ChargedOnce, CompletedIsWhole) with what makes it hold:  *)
(* one owner of the execution lock, a task that has not failed is the one  *)
(* the evaluation is linked to, an executor's generation is current, and   *)
(* the books of the unit that is between the checkpoint and the database.  *)
(*                                                                         *)
(* The proof has four parts: the types; what a step may do to the          *)
(* evaluation and its task rows, in five kinds (RowStep), from which the   *)
(* verdicts follow; the executor and its late call; the units and their    *)
(* charges.                                                                *)
(***************************************************************************)
EXTENDS EvaluationLifecycle, FiniteSetTheorems, TLAPS

(* Whoever has claimed the evaluation. *)
Executing == {"file", "replay", "run", "loop", "dispatch", "call", "saved", "finish"}

(* The execution lock has one owner. *)
OneOwner ==
  /\ \A w, v \in Workers : wk[w].pc # "idle" /\ wk[v].pc # "idle" => w = v
  /\ \A w \in Workers, c \in Clients : wk[w].pc # "idle" => cl[c].op # "resume_task"

(* A worker that is busy holds a message; from its claim on it has a task. *)
WorkerHolds ==
  \A w \in Workers :
    /\ wk[w].pc = "idle" => wk[w].msg = None
    /\ wk[w].pc # "idle" => gens # 0 /\ wk[w].msg \in Gens /\ queue[wk[w].msg] > 0
    /\ wk[w].pc \in Executing \cup {"claim", "error"} =>
         wk[w].task \in Tasks /\ task[wk[w].task].status # "none"
    /\ wk[w].pc = "finish" => wk[w].final \in {"completed", "failed", "cancelled", "paused"}

(* A client has the row and the generation of its call. *)
ClientHolds ==
  \A c \in Clients :
    /\ cl[c].pc \in {"send", "unsent", "cancel", "locked", "mark"} =>
         cl[c].task \in Tasks /\ task[cl[c].task].status # "none" /\ gens # 0
    /\ cl[c].pc \in {"send", "unsent"} => cl[c].gen \in Gens
    /\ cl[c].pc = "link" /\ cl[c].task # None => task[cl[c].task].status \in Ended
    /\ cl[c].pc = "locked" => task[cl[c].task].status \in Live
    /\ cl[c].pc = "mark" => task[cl[c].task].status = "cancelled"
    /\ \A d \in Clients :
         cl[c].pc = "locked" /\ cl[d].pc = "locked" /\ cl[c].task = cl[d].task => c = d

(* Task rows are made in order, each with a generation. *)
RowsInOrder ==
  /\ \A t \in Tasks : task[t].status # "none" =>
       /\ gens # 0 /\ task[t].gen \in Gens
       /\ \A s \in Tasks : s < t => task[s].status # "none"
  /\ \A g \in Gens : queue[g] > 0 => gens # 0

(* The evaluation is linked to a row from its first submission on. *)
Linkage ==
  /\ ev.status = "deleted" => ev.task = None
  /\ ev.task = None /\ ev.status # "deleted" => ev.status = "pending" /\ gens = 0
  /\ ev.task # None => task[ev.task].status # "none"

(* A task that has not failed is the linked one, and its evaluation shares *)
(* what has been agreed.                                                   *)
NotFailedIsLinked ==
  \A t \in Tasks :
    task[t].status \notin {"none", "failed"} /\ ev.status # "deleted" =>
      /\ ev.task = t
      /\ task[t].status \in Agreed => ev.status = task[t].status

(* The executor's task is the linked one; nobody submits it meanwhile, and *)
(* only the executor completes it.                                         *)
ExecutorInv ==
  \A w \in Workers : wk[w].pc \in Executing =>
    /\ task[wk[w].task].gen = wk[w].msg
    /\ task[wk[w].task].status # "completed"
    /\ ev.status # "deleted" => ev.task = wk[w].task /\ ev.status # "pending"

(* What the executor knows of the units, of the database and of the cap.   *)
Paid == spent = Cardinality(Settled) /\ (ev.status # "deleted" => rows = Settled)
UnitsInv ==
  /\ file.state = "absent" => Settled = {}
  /\ Settled = {} => spent = 0
  /\ \A w \in Workers :
       /\ wk[w].pc \in Executing \ {"file"} => file.state # "absent"
       /\ wk[w].pc = "replay" =>
            /\ wk[w].units \subseteq Settled
            /\ ev.status # "deleted" => Settled \ wk[w].units \subseteq rows
            /\ wk[w].units = {} => spent = Cardinality(Settled)
       /\ wk[w].pc \in {"run", "loop", "dispatch", "call"} => Paid
       /\ wk[w].pc \in {"dispatch", "call"} => spent < ev.cap
       /\ wk[w].pc = "call" => \E u \in Units : wk[w].units = {u} /\ file.unit[u] = "running"
       /\ wk[w].pc = "saved" => \E u \in Settled :
            wk[w].units = {u} /\ (ev.status # "deleted" => rows = Settled \ {u})
                              /\ spent + 1 = Cardinality(Settled)
       /\ wk[w].pc = "finish" /\ wk[w].final = "completed" =>
            /\ \A u \in Units : file.unit[u] = "completed"
            /\ ev.status # "deleted" => rows = Units

(* A call after a stop was the executor's last.                            *)
LateInv ==
  /\ late <= 1
  /\ \A w \in Workers :
       /\ wk[w].pc = "dispatch" => late = 0
       /\ wk[w].pc \in Executing /\ late > 0 => task[wk[w].task].status \in {"paused", "cancelled"}

(* The steps of one client and of one worker. *)
CallStep(c) == Start(c) \/ ClientStep(c) \/ ClientCrash(c)
RunStep(w)  == WorkerStep(w) \/ Raise(w) \/ WorkerCrash(w) \/ Terminate(w)

(* The inductive invariant. *)
IInv ==
  /\ TypeOK /\ OneOwner /\ WorkerHolds /\ ClientHolds /\ RowsInOrder /\ Linkage
  /\ NotFailedIsLinked /\ ExecutorInv /\ UnitsInv /\ LateInv /\ VerdictsAgree /\ ChargedOnce
  /\ CompletedIsWhole

(* Next, by who acts. *)
LEMMA Steps ==
  ASSUME [Next]_vars
  PROVE  \/ \E c \in Clients : CallStep(c)
         \/ \E c \in Clients, t \in Tasks :
              ResumeTask(c, t) \/ Cancel(c, t, "cancel_task") \/ Cancel(c, t, "cancel_ev")
         \/ \E t \in Tasks : GetTask(t) \/ PauseTask(t)
         \/ Delete \/ Recover
         \/ \E w \in Workers : RunStep(w)
         \/ \E w \in Workers, g \in Gens : Deliver(w, g) \/ Busy(w, g)
         \/ \E g \in Gens : Drop(g) \/ Repeat(g)
         \/ UNCHANGED vars
  BY DEF Next, CallStep, RunStep

(* A client's call writes its own record alone, and takes no execution lock. *)
LEMMA ClientFrame ==
  ASSUME TypeOK, NEW c \in Clients, CallStep(c)
  PROVE  /\ UNCHANGED wk
         /\ \A d \in Clients : d # c => cl'[d] = cl[d]
         /\ cl'[c].op = "resume_task" => cl[c].op = "resume_task"
<1>1. cl \in [Clients -> ClientRecords]
  BY DEF TypeOK
<1>2. UNCHANGED wk
  BY DEF CallStep, ClientStep, Start, Link, Send, PublishFailed, CancelLocked, CancelCommit, MarkCancelled, ClientCrash
<1>3. ASSUME NEW r, cl' = [cl EXCEPT ![c] = r]
      PROVE  cl'[c] = r /\ \A d \in Clients : d # c => cl'[d] = cl[d]
  BY <1>1, <1>3
<1>4. \A p : [cl[c] EXCEPT !.pc = p].op = cl[c].op
  BY <1>1 DEF ClientRecords
<1> DEFINE Changes(r) == cl' = [cl EXCEPT ![c] = r]
<1>5. \/ Changes(IdleClient) \/ Changes([cl[c] EXCEPT !.pc = "unsent"])
      \/ Changes([cl[c] EXCEPT !.pc = "locked"]) \/ Changes([cl[c] EXCEPT !.pc = "mark"])
      \/ \E t \in Tasks \cup {ev.task}, g \in Nat, p \in ClientPCs :
           Changes([pc |-> p, op |-> "start", task |-> t, gen |-> g])
      \/ UNCHANGED cl
  <2> HIDE DEF Tasks
  <2>0. None \in Nat /\ gens + 1 \in Nat
    BY ConstantsAssumption DEF None, TypeOK, Gens
  <2>1. CASE Start(c)
    BY <2>0, <2>1 DEF Start, ClientPCs
  <2>2. CASE Link(c)
    BY <2>0, <2>2 DEF Link, Enqueue, EndCall, ClientPCs
  <2>3. CASE Send(c)
    BY <2>3 DEF Send
  <2>4. CASE PublishFailed(c) \/ MarkCancelled(c) \/ ClientCrash(c)
    BY <2>4 DEF PublishFailed, MarkCancelled, ClientCrash, EndCall
  <2>5. CASE CancelLocked(c)
    BY <2>5 DEF CancelLocked, EndCall
  <2>6. CASE CancelCommit(c)
    BY <2>6 DEF CancelCommit, EndCall
  <2> QED BY <2>1, <2>2, <2>3, <2>4, <2>5, <2>6 DEF CallStep, ClientStep
<1>6. CASE Changes(IdleClient)
  BY <1>2, <1>3, <1>6 DEF IdleClient
<1>7. CASE \E p \in {"unsent", "locked", "mark"} : Changes([cl[c] EXCEPT !.pc = p])
  BY <1>2, <1>3, <1>4, <1>7
<1>8. CASE \E t \in Tasks \cup {ev.task}, g \in Nat, p \in ClientPCs :
           Changes([pc |-> p, op |-> "start", task |-> t, gen |-> g])
  <2>1. PICK t \in Tasks \cup {ev.task}, g \in Nat, p \in ClientPCs :
           Changes([pc |-> p, op |-> "start", task |-> t, gen |-> g])
    BY <1>8
  <2> QED BY <1>2, <1>3, <2>1
<1> QED BY <1>2, <1>5, <1>6, <1>7, <1>8

(* A worker's step writes its own record alone. *)
LEMMA WorkerFrame ==
  ASSUME TypeOK, NEW w \in Workers, RunStep(w)
  PROVE  /\ wk[w].pc # "idle" /\ UNCHANGED <<cl, gens>>
         /\ \A v \in Workers : v # w => wk'[v] = wk[v]
<1>1. wk \in [Workers -> WorkerRecords]
  BY DEF TypeOK
<1> QED
  BY <1>1 DEF RunStep, WorkerStep, Load, Claim, OpenFile, Replay, RunHead, LoopEnd, LoopGo, Dispatch, CallEnd,
     GiveUp, UnitCommit, Finish, HandleError, Refused, Raise, WorkerCrash, Terminate, End, Goto, StopRun, db

(* The execution lock keeps one owner: it is taken only when it is free. *)
LEMMA OwnerStep ==
  ASSUME TypeOK, OneOwner, [Next]_vars
  PROVE  OneOwner'
<1>1. wk \in [Workers -> WorkerRecords] /\ cl \in [Clients -> ClientRecords]
  BY DEF TypeOK
<1>2. ASSUME NEW c \in Clients, CallStep(c)
      PROVE  OneOwner'
  BY <1>2, ClientFrame DEF OneOwner
<1>3. ASSUME NEW c \in Clients, NEW t \in Tasks, NEW op \in {"cancel_task", "cancel_ev"},
             ResumeTask(c, t) \/ Cancel(c, t, op)
      PROVE  OneOwner'
  BY <1>1, <1>3 DEF OneOwner, ResumeTask, Cancel, LockFree
<1>4. ASSUME NEW w \in Workers, RunStep(w)
      PROVE  OneOwner'
  BY <1>4, WorkerFrame DEF OneOwner
<1>5. ASSUME NEW w \in Workers, NEW g \in Gens, Deliver(w, g) \/ Busy(w, g)
      PROVE  OneOwner'
  BY <1>1, <1>5 DEF OneOwner, Deliver, Busy, LockFree
<1>6. CASE UNCHANGED <<wk, cl>>
  BY <1>6 DEF OneOwner
<1> QED
  BY <1>2, <1>3, <1>4, <1>5, <1>6, Steps DEF GetTask, PauseTask, Delete, Recover, Drop, Repeat, vars

---------------------------------------------------------------------------
(* Types *)

(* A worker whose record changes in some fields is still a worker. *)
LEMMA WorkerFields ==
  \A r \in WorkerRecords :
    /\ \A pc \in WorkerPCs : [r EXCEPT !.pc = pc] \in WorkerRecords
    /\ \A U \in SUBSET Units : [r EXCEPT !.units = U] \in WorkerRecords
    /\ \A pc \in WorkerPCs, U \in SUBSET Units : [r EXCEPT !.pc = pc, !.units = U] \in WorkerRecords
    /\ \A pc \in WorkerPCs, U \in SUBSET Units :
         [r EXCEPT !.pc = pc, !.resume = TRUE, !.units = U] \in WorkerRecords
    /\ \A pc \in WorkerPCs, t \in Tasks \cup {None} :
         [r EXCEPT !.pc = pc, !.task = t] \in WorkerRecords
    /\ \A pc \in WorkerPCs, s \in FileStates : [r EXCEPT !.pc = pc, !.final = s] \in WorkerRecords
<1> HIDE DEF WorkerPCs, Units, Tasks, FileStates
<1> QED
  BY DEF WorkerRecords

(* A worker that has ended, or begins with a message. *)
LEMMA WorkerBegins ==
  /\ IdleWorker \in WorkerRecords
  /\ \A g \in Gens : [IdleWorker EXCEPT !.pc = "load", !.msg = g] \in WorkerRecords
  BY DEF WorkerRecords, WorkerPCs, IdleWorker, None, FileStates

(* A step leaves every worker with a record of a worker. *)
LEMMA WorkerType ==
  ASSUME TypeOK, [Next]_vars
  PROVE  wk' \in [Workers -> WorkerRecords]
<1> USE DEF db, broker, counts
<1>1. wk \in [Workers -> WorkerRecords] /\ ev.task \in Tasks \cup {None} /\ Settled \subseteq Units
  BY DEF TypeOK, EvRecords, Settled
<1>2. ASSUME NEW w \in Workers, RunStep(w)
      PROVE  wk' \in [Workers -> WorkerRecords]
  <2> SUFFICES \E r \in WorkerRecords : wk' = [wk EXCEPT ![w] = r]
    BY <1>1
  <2>0. wk[w] \in WorkerRecords /\ wk[w].units \subseteq Units
    BY <1>1 DEF WorkerRecords
  <2>1. CASE Load(w)
    BY <1>1, <2>0, <2>1, WorkerFields, WorkerBegins DEF Load, End, WorkerPCs
  <2>2. CASE Claim(w)
    BY <2>0, <2>2, WorkerFields, WorkerBegins DEF Claim, End, Goto, WorkerPCs
  <2>3. CASE OpenFile(w)
    BY <1>1, <2>0, <2>3, WorkerFields DEF OpenFile, Goto, WorkerPCs
  <2>4. CASE Replay(w)
    BY <2>0, <2>4, WorkerFields DEF Replay, Goto, WorkerPCs
  <2>5. CASE RunHead(w) \/ LoopGo(w) \/ CallEnd(w) \/ Refused(w)
    BY <2>0, <2>5, WorkerFields DEF RunHead, LoopGo, CallEnd, Refused, Goto, WorkerPCs
  <2>6. CASE LoopEnd(w) \/ GiveUp(w)
    <3>1. PICK s \in FileStates : wk' = [wk EXCEPT ![w].pc = "finish", ![w].final = s]
      BY <2>6 DEF LoopEnd, GiveUp, StopRun, FileStates, Ended
    <3>2. [wk[w] EXCEPT !.pc = "finish", !.final = s] \in WorkerRecords
      BY <2>0, WorkerFields DEF WorkerPCs
    <3> QED BY <3>1, <3>2
  <2>7. CASE Dispatch(w)
    <3>1. CASE wk' = [wk EXCEPT ![w].pc = "loop"]
      BY <2>0, <3>1, WorkerFields DEF WorkerPCs
    <3>2. CASE \E u \in Queued : wk' = [wk EXCEPT ![w].pc = "call", ![w].units = {u}]
      <4>1. PICK u \in Queued : wk' = [wk EXCEPT ![w].pc = "call", ![w].units = {u}]
        BY <3>2
      <4>2. {u} \in SUBSET Units
        BY DEF Queued
      <4>3. [wk[w] EXCEPT !.pc = "call", !.units = {u}] \in WorkerRecords
        BY <2>0, <4>2, WorkerFields DEF WorkerPCs
      <4> QED BY <4>1, <4>3
    <3> QED BY <2>7, <3>1, <3>2 DEF Dispatch, Goto
  <2>8. CASE UnitCommit(w)
    <3>1. wk' = [wk EXCEPT ![w].pc = "loop", ![w].units = {}]
      BY <2>8 DEF UnitCommit
    <3>2. [wk[w] EXCEPT !.pc = "loop", !.units = {}] \in WorkerRecords
      BY <2>0, WorkerFields DEF WorkerPCs
    <3> QED BY <3>1, <3>2
  <2>9. CASE Finish(w) \/ HandleError(w)
    BY <2>0, <2>9, WorkerFields, WorkerBegins DEF Finish, HandleError, End, Goto, WorkerPCs
  <2>10. CASE Raise(w) \/ WorkerCrash(w) \/ Terminate(w)
    BY <2>0, <2>10, WorkerFields, WorkerBegins DEF Raise, WorkerCrash, Terminate, End, Goto, WorkerPCs
  <2> QED
    BY <1>2, <2>1, <2>2, <2>3, <2>4, <2>5, <2>6, <2>7, <2>8, <2>9, <2>10 DEF RunStep, WorkerStep
<1>3. ASSUME NEW w \in Workers, NEW g \in Gens, Deliver(w, g)
      PROVE  wk' \in [Workers -> WorkerRecords]
  BY <1>1, <1>3, WorkerBegins DEF Deliver
<1>4. CASE UNCHANGED wk
  BY <1>1, <1>4
<1> QED
  BY <1>2, <1>3, <1>4, Steps DEF Start, Link, Send, PublishFailed, CancelLocked, CancelCommit,
     MarkCancelled, ClientCrash, CallStep, ClientStep, ResumeTask, Cancel, GetTask, PauseTask, Delete, Recover, Busy,
     Drop, Repeat, vars

(* A client whose program counter moves, or that begins, is still a client. *)
LEMMA ClientFields ==
  /\ IdleClient \in ClientRecords
  /\ \A r \in ClientRecords, pc \in ClientPCs : [r EXCEPT !.pc = pc] \in ClientRecords
  /\ \A pc \in ClientPCs, op \in Ops, t \in Tasks \cup {None}, g \in Gens \cup {None} :
       [pc |-> pc, op |-> op, task |-> t, gen |-> g] \in ClientRecords
<1> HIDE DEF Tasks, Gens
<1> QED
  BY DEF ClientRecords, ClientPCs, Ops, IdleClient, None

(* Every call leaves its client with a record of a client. *)
LEMMA ClientType ==
  ASSUME TypeOK, [Next]_vars
  PROVE  cl' \in [Clients -> ClientRecords]
<1> USE DEF db, broker, counts
<1>1. /\ cl \in [Clients -> ClientRecords] /\ ev.task \in Tasks \cup {None}
      /\ gens \in Nat /\ MaxGens \in Nat
  BY ConstantsAssumption DEF TypeOK, EvRecords, Gens
<1>2. ASSUME NEW c \in Clients, CallStep(c)
      PROVE  cl' \in [Clients -> ClientRecords]
  <2> SUFFICES \E r \in ClientRecords : cl' = [cl EXCEPT ![c] = r]
    BY <1>1
  <2>0. cl[c] \in ClientRecords /\ cl[c].task \in Tasks \cup {None}
    BY <1>1 DEF ClientRecords
  <2>1. CASE Start(c)
    BY <1>1, <2>1, ClientFields DEF Start, ClientPCs, Ops
  <2>2. CASE Link(c)
    <3>1. CASE EndCall(c)
      BY <3>1, ClientFields DEF EndCall
    <3>2. CASE Enqueue(c)
      <4>1. gens + 1 \in Gens
        BY <1>1, <3>2 DEF Enqueue, Gens
      <4>2. PICK t \in Tasks : cl' = [cl EXCEPT ![c] = [pc |-> "send", op |-> "start", task |-> t,
                                                       gen |-> gens + 1]]
        BY <3>2 DEF Enqueue
      <4>3. [pc |-> "send", op |-> "start", task |-> t, gen |-> gens + 1] \in ClientRecords
        BY <4>1, ClientFields DEF ClientPCs, Ops
      <4> QED BY <4>2, <4>3
    <3> QED BY <2>2, <3>1, <3>2 DEF Link
  <2>3. CASE Send(c)
    BY <2>0, <2>3, ClientFields DEF Send, ClientPCs
  <2>4. CASE PublishFailed(c) \/ MarkCancelled(c) \/ ClientCrash(c)
    BY <2>4, ClientFields DEF PublishFailed, MarkCancelled, ClientCrash, EndCall
  <2>5. CASE CancelLocked(c)
    BY <2>0, <2>5, ClientFields DEF CancelLocked, EndCall, ClientPCs
  <2>6. CASE CancelCommit(c)
    BY <2>0, <2>6, ClientFields DEF CancelCommit, EndCall, ClientPCs
  <2> QED
    BY <1>2, <2>1, <2>2, <2>3, <2>4, <2>5, <2>6 DEF CallStep, ClientStep
<1>3. ASSUME NEW c \in Clients, NEW t \in Tasks, ResumeTask(c, t)
      PROVE  cl' \in [Clients -> ClientRecords]
  <2>1. gens + 1 \in Gens
    BY <1>1, <1>3 DEF ResumeTask, Gens
  <2>2. [pc |-> "send", op |-> "resume_task", task |-> t, gen |-> gens + 1] \in ClientRecords
    BY <2>1, ClientFields DEF ClientPCs, Ops
  <2> QED BY <1>1, <1>3, <2>2 DEF ResumeTask
<1>4. ASSUME NEW c \in Clients, NEW t \in Tasks, NEW op \in {"cancel_task", "cancel_ev"},
             Cancel(c, t, op)
      PROVE  cl' \in [Clients -> ClientRecords]
  <2>1. [pc |-> "cancel", op |-> op, task |-> t, gen |-> None] \in ClientRecords
    BY ClientFields DEF ClientPCs, Ops
  <2> QED BY <1>1, <1>4, <2>1 DEF Cancel
<1>5. CASE UNCHANGED cl
  BY <1>1, <1>5
<1> QED
  BY <1>2, <1>3, <1>4, <1>5, Steps DEF GetTask, PauseTask, Delete, Recover, Deliver, Busy,
     Load, Claim, OpenFile, Replay, RunHead, LoopEnd, LoopGo, Dispatch, CallEnd, GiveUp,
     UnitCommit, Finish, HandleError, Refused, Raise, WorkerCrash, Terminate, RunStep, WorkerStep,
     Drop, Repeat, vars

(* Rows with one column written, and a row with a new generation. *)
LEMMA RowFields ==
  /\ \A r \in EvRecords :
       /\ \A s \in EvStates : [r EXCEPT !.status = s] \in EvRecords
       /\ \A t \in Tasks \cup {None} : [r EXCEPT !.task = t] \in EvRecords
       /\ [r EXCEPT !.status = "deleted", !.task = None] \in EvRecords
  /\ \A r \in TaskRecords, s \in Live \cup Ended : [r EXCEPT !.status = s] \in TaskRecords
  /\ \A g \in Gens : [status |-> "pending", gen |-> g] \in TaskRecords
<1> HIDE DEF Tasks, Gens
<1> QED
  BY DEF EvRecords, TaskRecords, EvStates, Live, Ended, None

(* A row whose status is set is still a row. *)
LEMMA SetsStatus ==
  ASSUME TypeOK, NEW s \in Live \cup Ended
  PROVE  /\ [ev EXCEPT !.status = s] \in EvRecords
         /\ \A t \in Tasks : [task EXCEPT ![t].status = s] \in [Tasks -> TaskRecords]
<1>1. ev \in EvRecords /\ task \in [Tasks -> TaskRecords] /\ s \in EvStates
  BY DEF TypeOK, EvStates
<1>2. ASSUME NEW t \in Tasks PROVE [task[t] EXCEPT !.status = s] \in TaskRecords
  BY <1>1, RowFields
<1> QED BY <1>1, <1>2, RowFields

(* The rows after a call of a client. *)
LEMMA RowTypeCalls ==
  ASSUME TypeOK, ClientHolds, NEW c \in Clients, CallStep(c)
  PROVE  ev' \in EvRecords /\ task' \in [Tasks -> TaskRecords] /\ gens' \in Gens \cup {0}
<1> USE DEF db
<1>0. /\ ev \in EvRecords /\ task \in [Tasks -> TaskRecords] /\ gens \in Gens \cup {0}
      /\ gens \in Nat /\ MaxGens \in Nat
  BY ConstantsAssumption DEF TypeOK, Gens
<1>1. CASE Link(c)
  <2>1. CASE EndCall(c) /\ UNCHANGED db
    BY <1>0, <2>1
  <2>2. CASE Enqueue(c)
    <3>1. gens + 1 \in Gens /\ gens' = gens + 1
      BY <1>0, <2>2 DEF Enqueue, Gens
    <3>2. PICK t \in Tasks : /\ task' = [task EXCEPT ![t] = [status |-> "pending", gen |-> gens + 1]]
                             /\ ev' = [ev EXCEPT !.task = t]
      BY <2>2 DEF Enqueue
    <3>3. [status |-> "pending", gen |-> gens + 1] \in TaskRecords /\ [ev EXCEPT !.task = t] \in EvRecords
      BY <1>0, <3>1, RowFields
    <3> QED BY <1>0, <3>1, <3>2, <3>3
  <2> QED BY <1>1, <2>1, <2>2 DEF Link
<1>2. CASE PublishFailed(c) \/ CancelCommit(c)
  <2>0. cl[c].task \in Tasks
    BY <1>2 DEF PublishFailed, CancelCommit, ClientHolds
  <2>1. \/ UNCHANGED <<ev, task, gens>>
        \/ /\ gens' = gens
           /\ \E s \in Live \cup Ended : SetTask(cl[c].task, s) /\ (UNCHANGED ev \/ Mirror(cl[c].task, s))
    BY <1>2 DEF PublishFailed, CancelCommit, Live, Ended
  <2>2. ASSUME NEW s \in Live \cup Ended, SetTask(cl[c].task, s), UNCHANGED ev \/ Mirror(cl[c].task, s)
        PROVE  ev' \in EvRecords /\ task' \in [Tasks -> TaskRecords]
    BY <1>0, <2>0, <2>2, SetsStatus DEF SetTask, Mirror
  <2> QED BY <1>0, <2>1, <2>2
<1>3. CASE MarkCancelled(c)
  BY <1>0, <1>3, RowFields DEF MarkCancelled, EvStates, Ended
<1>4. CASE Start(c) \/ Send(c) \/ CancelLocked(c) \/ ClientCrash(c)
  BY <1>0, <1>4 DEF Start, Send, CancelLocked, ClientCrash
<1> QED
  BY <1>1, <1>2, <1>3, <1>4 DEF CallStep, ClientStep

(* The rows after a step of a worker. *)
LEMMA RowTypeRuns ==
  ASSUME TypeOK, WorkerHolds, NEW w \in Workers, RunStep(w)
  PROVE  ev' \in EvRecords /\ task' \in [Tasks -> TaskRecords] /\ gens' \in Gens \cup {0}
<1> USE DEF db
<1>0. ev \in EvRecords /\ task \in [Tasks -> TaskRecords] /\ gens \in Gens \cup {0}
  BY DEF TypeOK
<1>1. CASE Load(w)
  <2>1. UNCHANGED <<task, gens>> /\ (UNCHANGED ev \/ ev' = [ev EXCEPT !.status = "cancelled"])
    BY <1>1 DEF Load
  <2> QED BY <1>0, <2>1, RowFields DEF EvStates, Ended
<1>2. CASE Claim(w) \/ Finish(w) \/ HandleError(w)
  <2> DEFINE t == wk[w].task
  <2>0. t \in Tasks /\ task[t].status \in Live \cup Ended
    <3>1. t \in Tasks /\ task[t].status # "none"
      BY <1>2 DEF WorkerHolds, Executing, Claim, Finish, HandleError
    <3> QED BY <1>0, <3>1 DEF TaskRecords
  <2>1. \/ UNCHANGED <<ev, task, gens>>
        \/ /\ gens' = gens
           /\ \E s \in Live \cup Ended :
                /\ UNCHANGED task \/ SetTask(t, s)
                /\ UNCHANGED ev \/ ev' = [ev EXCEPT !.status = s]
    <3>1. CASE Claim(w)
      BY <3>1 DEF Claim, Live
    <3>2. CASE Finish(w)
      <4>1. wk[w].final \in Live \cup Ended
        BY <3>2 DEF Finish, WorkerHolds, Live, Ended
      <4> QED BY <2>0, <3>2, <4>1 DEF Finish
    <3>3. CASE HandleError(w)
      BY <3>3 DEF HandleError, Ended
    <3> QED BY <1>2, <3>1, <3>2, <3>3
  <2>2. ASSUME NEW s \in Live \cup Ended, UNCHANGED task \/ SetTask(t, s),
               UNCHANGED ev \/ ev' = [ev EXCEPT !.status = s]
        PROVE  ev' \in EvRecords /\ task' \in [Tasks -> TaskRecords]
    <3>1. [ev EXCEPT !.status = s] \in EvRecords /\ [task EXCEPT ![t].status = s] \in [Tasks -> TaskRecords]
      BY <2>0, SetsStatus
    <3> QED BY <1>0, <2>2, <3>1 DEF SetTask
  <2> QED BY <1>0, <2>1, <2>2
<1>3. UNCHANGED <<ev, task, gens>> \/ Load(w) \/ Claim(w) \/ Finish(w) \/ HandleError(w)
  BY DEF OpenFile, Replay, RunHead, LoopEnd, LoopGo, Dispatch, CallEnd, GiveUp, UnitCommit, Refused,
     Raise, WorkerCrash, Terminate, RunStep, WorkerStep
<1> QED
  BY <1>0, <1>1, <1>2, <1>3

(* A step leaves the evaluation and the tasks with rows of their tables. *)
LEMMA RowType ==
  ASSUME TypeOK, WorkerHolds, ClientHolds, [Next]_vars
  PROVE  ev' \in EvRecords /\ task' \in [Tasks -> TaskRecords] /\ gens' \in Gens \cup {0}
<1> USE DEF db
<1>0. /\ ev \in EvRecords /\ task \in [Tasks -> TaskRecords] /\ gens \in Gens \cup {0}
      /\ gens \in Nat /\ MaxGens \in Nat
  BY ConstantsAssumption DEF TypeOK, Gens
<1>1. ASSUME NEW c \in Clients, NEW t \in Tasks, ResumeTask(c, t)
      PROVE  ev' \in EvRecords /\ task' \in [Tasks -> TaskRecords] /\ gens' \in Gens \cup {0}
  <2>1. gens + 1 \in Gens
    BY <1>0, <1>1 DEF ResumeTask, Gens
  <2> QED BY <1>0, <1>1, <2>1, RowFields DEF ResumeTask, EvStates, Live
<1>2. ASSUME NEW t \in Tasks, GetTask(t) \/ PauseTask(t)
      PROVE  ev' \in EvRecords /\ task' \in [Tasks -> TaskRecords] /\ gens' \in Gens \cup {0}
  <2>1. \E s \in Live \cup Ended : SetTask(t, s) /\ (UNCHANGED ev \/ Mirror(t, s)) /\ UNCHANGED gens
    BY <1>2 DEF GetTask, PauseTask, Live, Ended
  <2>2. ASSUME NEW s \in Live \cup Ended, SetTask(t, s), UNCHANGED ev \/ Mirror(t, s)
        PROVE  ev' \in EvRecords /\ task' \in [Tasks -> TaskRecords]
    BY <1>0, <1>2, <2>2, SetsStatus DEF SetTask, Mirror
  <2> QED BY <1>0, <2>1, <2>2
<1>3. CASE Delete \/ Recover
  BY <1>0, <1>3, RowFields DEF Delete, Recover, EvStates, Ended
<1>4. CASE UNCHANGED <<ev, task, gens>>
  BY <1>0, <1>4
<1> QED
  BY <1>1, <1>2, <1>3, <1>4, RowTypeCalls, RowTypeRuns, Steps
     DEF Cancel, Deliver, Busy, Drop, Repeat, vars

(* Nobody but one worker holds messages, and that one holds its own. *)
LEMMA HeldIsOne ==
  ASSUME OneOwner, WorkerHolds, NEW g \in Gens
  PROVE  /\ Held(g) \in {0, 1}
         /\ Held(g) = 0 => \A w \in Workers : wk[w].msg # g
<1>1. g # None
  BY DEF Gens, None
<1>2. CASE \E w \in Workers : wk[w].msg = g
  <2>1. PICK w \in Workers : wk[w].msg = g
    BY <1>2
  <2>2. {v \in Workers : wk[v].msg = g} = {w}
    BY <1>1, <2>1 DEF OneOwner, WorkerHolds
  <2> QED BY <2>2, FS_Singleton DEF Held
<1>3. CASE ~ \E w \in Workers : wk[w].msg = g
  <2>1. {v \in Workers : wk[v].msg = g} = {}
    BY <1>3
  <2> QED BY <1>3, <2>1, FS_EmptySet DEF Held
<1> QED BY <1>2, <1>3

(* The queue counts messages: nothing is taken that is not there. *)
LEMMA BrokerType ==
  ASSUME TypeOK, OneOwner, WorkerHolds, RowsInOrder, ClientHolds, [Next]_vars
  PROVE  /\ queue' \in [Gens -> Nat] /\ revoked' \in SUBSET Gens
         /\ result' \in [Gens -> {"pending", "started", "retry", "success", "failure", "revoked"}]
<1> USE DEF db, broker, counts
<1> DEFINE States == {"pending", "started", "retry", "success", "failure", "revoked"}
<1>0. queue \in [Gens -> Nat] /\ revoked \in SUBSET Gens /\ result \in [Gens -> States]
  BY DEF TypeOK
<1>1. ASSUME NEW c \in Clients, CallStep(c)
      PROVE  queue' \in [Gens -> Nat] /\ revoked' \in SUBSET Gens /\ result' \in [Gens -> States]
  <2>1. CASE Send(c)
    <3>1. cl[c].gen \in Gens
      BY <2>1 DEF Send, ClientHolds
    <3>2. queue' = queue \/ queue' = [queue EXCEPT ![cl[c].gen] = @ + 1]
      BY <2>1 DEF Send
    <3> QED BY <1>0, <2>1, <3>1, <3>2 DEF Send
  <2>2. CASE CancelLocked(c)
    <3>1. UNCHANGED <<queue, result>> /\ (revoked' = revoked \/ revoked' = revoked \cup {task[cl[c].task].gen})
      BY <2>2 DEF CancelLocked
    <3>2. task[cl[c].task].gen \in Gens
      BY <2>2 DEF CancelLocked, ClientHolds, RowsInOrder
    <3> QED BY <1>0, <3>1, <3>2
  <2>3. UNCHANGED broker \/ Send(c) \/ CancelLocked(c)
    BY <1>1 DEF CallStep, ClientStep, Start, Link, PublishFailed, CancelCommit, MarkCancelled, ClientCrash
  <2> QED BY <1>0, <2>1, <2>2, <2>3
<1>2. ASSUME NEW w \in Workers, RunStep(w)
      PROVE  queue' \in [Gens -> Nat] /\ revoked' \in SUBSET Gens /\ result' \in [Gens -> States]
  <2>1. /\ revoked' = revoked
        /\ \/ UNCHANGED <<queue, result>>
           \/ /\ wk[w].pc # "idle"
              /\ UNCHANGED queue \/ queue' = [queue EXCEPT ![wk[w].msg] = @ - 1]
              /\ \E s \in States : result' = [result EXCEPT ![wk[w].msg] = s]
    BY <1>2 DEF RunStep, WorkerStep, Load, Claim, OpenFile, Replay, RunHead, LoopEnd, LoopGo, Dispatch,
       CallEnd, GiveUp, UnitCommit, Finish, HandleError, Refused, Raise, WorkerCrash, Terminate, End
  <2>2. wk[w].pc # "idle" => wk[w].msg \in Gens /\ queue[wk[w].msg] > 0
    BY DEF WorkerHolds
  <2> QED BY <1>0, <2>1, <2>2
<1>3. ASSUME NEW w \in Workers, NEW g \in Gens, Deliver(w, g) \/ Busy(w, g)
      PROVE  queue' \in [Gens -> Nat] /\ revoked' \in SUBSET Gens /\ result' \in [Gens -> States]
  BY <1>0, <1>3 DEF Deliver, Busy
<1>4. ASSUME NEW g \in Gens, Drop(g) \/ Repeat(g)
      PROVE  queue' \in [Gens -> Nat] /\ revoked' \in SUBSET Gens /\ result' \in [Gens -> States]
  BY <1>0, <1>4, HeldIsOne DEF Drop, Repeat
<1>5. CASE UNCHANGED broker
  BY <1>0, <1>5
<1> QED
  BY <1>1, <1>2, <1>3, <1>4, <1>5, Steps DEF ResumeTask, Cancel, GetTask, PauseTask, Delete, Recover, vars

(* A step leaves a checkpoint where one was. *)
LEMMA FileType ==
  ASSUME TypeOK, [Next]_vars
  PROVE  file' \in FileRecords
<1> USE DEF db, broker, counts
<1>0. /\ file \in FileRecords /\ NoFile \in FileRecords
      /\ \A w \in Workers : wk[w].units \subseteq Units
  BY DEF TypeOK, FileRecords, NoFile, FileStates, WorkerRecords
<1>1. ASSUME NEW r \in FileRecords
      PROVE  /\ [r EXCEPT !.cancel = TRUE] \in FileRecords
             /\ \A s \in FileStates : [r EXCEPT !.state = s] \in FileRecords
             /\ \A u \in Units, o \in {"running", "completed", "failed"} : [r EXCEPT !.unit[u] = o] \in FileRecords
  <2> HIDE DEF Units, FileStates
  <2> QED BY DEF FileRecords
<1>2. ASSUME NEW c \in Clients, CallStep(c)
      PROVE  file' = file \/ file' = [file EXCEPT !.cancel = TRUE]
  BY <1>2 DEF CallStep, ClientStep, Start, Link, Send, PublishFailed, CancelLocked, CancelCommit, MarkCancelled, ClientCrash
<1>3. ASSUME NEW w \in Workers, RunStep(w)
      PROVE  file' \in FileRecords
  <2>1. CASE OpenFile(w)
    BY <1>0, <1>1, <2>1 DEF OpenFile, FileStates
  <2>2. CASE RunHead(w)
    <3> DEFINE unit == [u \in Units |-> IF u \in Settled THEN file.unit[u] ELSE "queued"]
    <3>1. unit \in [Units -> {"queued", "running", "completed", "failed"}]
      BY <1>0 DEF FileRecords
    <3>2. (file.cancel /\ ~wk[w].resume) \in BOOLEAN
      OBVIOUS
    <3> HIDE DEF unit
    <3>3. file' = [state |-> "running", cancel |-> file.cancel /\ ~wk[w].resume, unit |-> unit]
      BY <2>2 DEF RunHead, unit
    <3> QED BY <3>1, <3>2, <3>3 DEF FileRecords, FileStates
  <2>3. CASE LoopEnd(w) \/ GiveUp(w)
    <3>1. PICK s \in FileStates : file' = [file EXCEPT !.state = s]
      BY <2>3 DEF LoopEnd, GiveUp, StopRun, FileStates, Ended
    <3> QED BY <1>0, <1>1, <3>1
  <2>4. CASE Dispatch(w)
    BY <1>0, <1>1, <2>4 DEF Dispatch, Queued
  <2>5. CASE CallEnd(w)
    <3>1. PICK o \in {"completed", "failed"}, u \in wk[w].units : file' = [file EXCEPT !.unit[u] = o]
      BY <2>5 DEF CallEnd
    <3> QED BY <1>0, <1>1, <3>1
  <2>6. \/ UNCHANGED file
        \/ OpenFile(w) \/ RunHead(w) \/ LoopEnd(w) \/ GiveUp(w) \/ Dispatch(w) \/ CallEnd(w)
    BY <1>3 DEF RunStep, WorkerStep, Load, Claim, Replay, LoopGo, UnitCommit, Finish, HandleError, Refused,
       Raise, WorkerCrash, Terminate
  <2> QED BY <1>0, <2>1, <2>2, <2>3, <2>4, <2>5, <2>6
<1> QED
  BY <1>0, <1>1, <1>2, <1>3, Steps DEF ResumeTask, Cancel, GetTask, PauseTask, Delete, Recover,
     Deliver, Busy, Drop, Repeat, vars

(* Results, spending and the counters. *)
LEMMA BooksType ==
  ASSUME TypeOK, [Next]_vars
  PROVE  /\ rows' \in SUBSET Units /\ spent' \in Nat
         /\ late' \in Nat /\ crashes' \in Nat /\ errors' \in Nat /\ repeats' \in Nat
<1> USE DEF db, broker, counts
<1>0. /\ rows \in SUBSET Units /\ spent \in Nat
      /\ late \in Nat /\ crashes \in Nat /\ errors \in Nat /\ repeats \in Nat
      /\ \A w \in Workers : wk[w].units \subseteq Units
  BY DEF TypeOK, WorkerRecords
<1>1. rows' \in SUBSET Units /\ spent' \in Nat
  <2>1. \/ UNCHANGED <<rows, spent>>
        \/ rows' = {} /\ spent' = spent
        \/ \E w \in Workers : \E u \in wk[w].units :
             rows' = rows \cup {u} /\ spent' \in {spent, spent + 1}
    <3>1. ASSUME NEW w \in Workers, NEW u \in wk[w].units, Commit(w, u)
          PROVE  UNCHANGED <<rows, spent>> \/ (rows' = rows \cup {u} /\ spent' \in {spent, spent + 1})
      BY <1>0, <3>1 DEF Commit
    <3>2. ASSUME NEW w \in Workers, RunStep(w)
          PROVE  \/ UNCHANGED <<rows, spent>>
                 \/ \E u \in wk[w].units : Commit(w, u)
      BY <3>2 DEF RunStep, WorkerStep, Load, Claim, OpenFile, Replay, RunHead, LoopEnd, LoopGo, Dispatch,
         CallEnd, GiveUp, UnitCommit, Finish, HandleError, Refused, Raise, WorkerCrash, Terminate
    <3>3. ASSUME NEW c \in Clients, CallStep(c)
          PROVE  UNCHANGED <<rows, spent>>
      BY <3>3 DEF CallStep, ClientStep, Start, Link, Send, PublishFailed, CancelLocked, CancelCommit,
         MarkCancelled, ClientCrash
    <3> QED
      BY <3>1, <3>2, <3>3, Steps DEF ResumeTask, Cancel, GetTask, PauseTask, Delete, Recover,
         Deliver, Busy, Drop, Repeat, vars
  <2> QED BY <1>0, <2>1
<1>2. late' \in {late, late + 1, 0} /\ crashes' \in {crashes, crashes + 1}
      /\ errors' \in {errors, errors + 1} /\ repeats' \in {repeats, repeats + 1}
  BY Steps DEF CallStep, ClientStep, Start, Link, Send, PublishFailed, CancelLocked, CancelCommit,
     MarkCancelled, ClientCrash, ResumeTask, Cancel, GetTask, PauseTask, Delete, Recover,
     RunStep, WorkerStep, Load, Claim, OpenFile, Replay, RunHead, LoopEnd, LoopGo, Dispatch,
     CallEnd, GiveUp, UnitCommit, Finish, HandleError, Refused, Raise, WorkerCrash, Terminate,
     Deliver, Busy, Drop, Repeat, vars
<1> QED BY <1>0, <1>1, <1>2

(* Every step keeps the types. *)
LEMMA TypeStep ==
  ASSUME TypeOK, OneOwner, WorkerHolds, ClientHolds, RowsInOrder, [Next]_vars
  PROVE  TypeOK'
  BY WorkerType, ClientType, RowType, BrokerType, FileType, BooksType DEF TypeOK

---------------------------------------------------------------------------
(* The evaluation and its task rows *)

(* The row that is made next is free, and every row before it is made. *)
LEMMA FreshRow ==
  ASSUME TypeOK, RowsInOrder, NEW t \in Tasks,
         t = Cardinality({x \in Tasks : task[x].status # "none"}) + 1
  PROVE  /\ task[t].status = "none"
         /\ \A s \in Tasks : s < t => task[s].status # "none"
<1> DEFINE S == {x \in Tasks : task[x].status # "none"}
<1>1. t \in Nat /\ MaxTasks \in Nat
  BY ConstantsAssumption DEF Tasks
<1>2. IsFiniteSet(S) /\ Cardinality(S) \in Nat
  <2>1. IsFiniteSet(Tasks) /\ S \subseteq Tasks
    BY <1>1, FS_Interval DEF Tasks
  <2> QED BY <2>1, FS_Subset, FS_CardinalityType
<1>3. \A x \in S, y \in Tasks : y < x => y \in S
  BY DEF RowsInOrder
<1>4. ASSUME t \in S
      PROVE  FALSE
  <2>1. 1 .. t \subseteq S
    <3> SUFFICES ASSUME NEW y \in 1 .. t PROVE y \in S
      OBVIOUS
    <3>1. y \in Tasks /\ (y < t \/ y = t)
      BY <1>1 DEF Tasks
    <3> QED BY <1>3, <1>4, <3>1
  <2>2. Cardinality(1 .. t) = t
    BY <1>1, FS_Interval DEF Tasks
  <2>3. Cardinality(1 .. t) <= Cardinality(S)
    BY <1>2, <2>1, FS_Subset
  <2>4. t = Cardinality(S) + 1
    OBVIOUS
  <2> HIDE DEF S
  <2> QED BY <1>1, <1>2, <2>2, <2>3, <2>4
<1>5. ASSUME NEW s \in Tasks, s < t, s \notin S
      PROVE  FALSE
  <2>0. s \in Nat /\ s >= 1
    BY DEF Tasks
  <2>1. S \subseteq 1 .. s - 1
    <3> SUFFICES ASSUME NEW x \in S PROVE x \in 1 .. s - 1
      OBVIOUS
    <3>1. x \in Nat /\ x >= 1 /\ x # s
      BY <1>5 DEF Tasks
    <3>2. ~ s < x
      BY <1>3, <1>5
    <3> QED BY <2>0, <3>1, <3>2
  <2>2. IsFiniteSet(1 .. s - 1) /\ Cardinality(1 .. s - 1) = s - 1
    BY <2>0, FS_Interval
  <2>3. Cardinality(S) <= s - 1
    BY <2>1, <2>2, FS_Subset
  <2>4. t = Cardinality(S) + 1
    OBVIOUS
  <2> HIDE DEF S
  <2> QED BY <1>1, <1>2, <1>5, <2>0, <2>3, <2>4
<1> QED
  BY <1>4, <1>5

(* What a step may do to the evaluation and to its task rows. *)
Submits(t) ==
  /\ task[t].status = "none" /\ \A s \in Tasks : s < t => task[s].status # "none"
  /\ \A s \in Tasks : task[s].status \in {"none", "failed"}
  /\ gens + 1 \in Gens /\ gens' = gens + 1
  /\ ev.status = "pending" /\ ev' = [ev EXCEPT !.task = t]
  /\ task' = [task EXCEPT ![t] = [status |-> "pending", gen |-> gens + 1]]

Resumes(t) ==
  /\ LockFree /\ task[t].status = "paused" /\ ev.status = "paused" /\ ev.task = t
  /\ gens + 1 \in Gens /\ gens' = gens + 1
  /\ ev' = [ev EXCEPT !.status = "pending"]
  /\ task' = [task EXCEPT ![t] = [status |-> "pending", gen |-> gens + 1]]

Moves(t, s) ==
  /\ task[t].status \in Live /\ (task[t].status = "paused" => s = "cancelled")
  /\ task' = [task EXCEPT ![t].status = s] /\ gens' = gens
  /\ \/ ev.status = "deleted" /\ ev' = ev
     \/ /\ ev.status # "deleted" /\ ev.task = t
        /\ \/ ev' = [ev EXCEPT !.status = s]
           \/ s \in {"running", "failed"} /\ ev' = ev
  /\ s = "completed" => \E w \in Workers :
       wk[w].pc = "finish" /\ wk[w].final = s /\ wk'[w].pc = "idle" /\ ev.status # "deleted"
  /\ \A c \in Clients : cl[c].pc = "locked" /\ cl[c].task = t => cl'[c].pc # "locked"

Follows(s) ==
  /\ ev.status # "deleted" /\ ev.task \in Tasks /\ task[ev.task].status = s
  /\ ev' = [ev EXCEPT !.status = s] /\ UNCHANGED <<task, gens>>

Vanishes == ev' = [ev EXCEPT !.status = "deleted", !.task = None] /\ UNCHANGED <<task, gens>>

Outcomes == {"running", "paused"} \cup Ended

RowStep ==
  \/ UNCHANGED <<ev, task, gens>>
  \/ \E t \in Tasks : Submits(t) \/ Resumes(t)
  \/ \E t \in Tasks, s \in Outcomes : Moves(t, s)
  \/ \E s \in Ended \cup {"paused"} : Follows(s)
  \/ Vanishes

(* A live task can be moved by whoever finds its row unlocked, and the *)
(* evaluation along with it. *)
LEMMA MayMove ==
  ASSUME TypeOK, Linkage, NotFailedIsLinked, NEW t \in Tasks, NEW s \in Outcomes, ~Locked(t),
         task[t].status \in Live, task[t].status = "paused" => s = "cancelled",
         s # "completed", SetTask(t, s), gens' = gens,
         \/ Mirror(t, s)
         \/ s \in {"running", "failed"} /\ ev' = ev
         \/ ev' = IF ev.status = "deleted" THEN ev ELSE [ev EXCEPT !.status = s]
  PROVE  Moves(t, s)
<1>1. IF ev.status = "deleted" THEN ev.task # t ELSE ev.task = t
  BY DEF NotFailedIsLinked, Linkage, Live, Tasks, None
<1>2. \A c \in Clients : ~(cl[c].pc = "locked" /\ cl[c].task = t)
  BY DEF Locked
<1>3. \/ ev.status = "deleted" /\ ev' = ev
      \/ /\ ev.status # "deleted" /\ ev.task = t
         /\ \/ ev' = [ev EXCEPT !.status = s]
            \/ s \in {"running", "failed"} /\ ev' = ev
  <2>1. CASE ev.status = "deleted"
    BY <1>1, <2>1 DEF Mirror
  <2>2. CASE ev.status # "deleted"
    BY <1>1, <2>2 DEF Mirror
  <2> QED BY <2>1, <2>2
<1> QED BY <1>2, <1>3 DEF Moves, SetTask

(* A call of a client does one of these to the rows. *)
LEMMA CallRows ==
  ASSUME TypeOK, ClientHolds, RowsInOrder, Linkage, NotFailedIsLinked, NEW c \in Clients, CallStep(c)
  PROVE  RowStep
<1> USE DEF db
<1>1. CASE Link(c) /\ Enqueue(c)
  <2>1. PICK t \in Tasks :
          /\ t = Cardinality({x \in Tasks : task[x].status # "none"}) + 1
          /\ task' = [task EXCEPT ![t] = [status |-> "pending", gen |-> gens + 1]]
          /\ ev' = [ev EXCEPT !.task = t]
    BY <1>1 DEF Enqueue
  <2>2. task[t].status = "none" /\ \A s \in Tasks : s < t => task[s].status # "none"
    BY <2>1, FreshRow
  <2>3. gens' = gens + 1 /\ gens + 1 \in Gens
    BY <1>1, ConstantsAssumption DEF Enqueue, TypeOK, Gens
  <2>4. ev.status = "pending" /\ ev.task = cl[c].task /\ cl[c].pc = "link"
    <3>1. gens' # gens
      BY <2>3 DEF Gens
    <3> QED BY <1>1, <3>1 DEF Link
  <2>5. \A s \in Tasks : task[s].status \in {"none", "failed"}
    <3> SUFFICES ASSUME NEW s \in Tasks, task[s].status \notin {"none", "failed"}
                 PROVE  FALSE
      OBVIOUS
    <3>1. ev.task = s /\ (task[s].status \in Agreed => ev.status = task[s].status)
      BY <2>4 DEF NotFailedIsLinked
    <3>2. task[s].status \in Ended
      <4>1. s # None
        BY DEF Tasks, None
      <4>2. cl[c].pc = "link" /\ cl[c].task = s
        BY <2>4, <3>1
      <4> QED BY <4>1, <4>2 DEF ClientHolds
    <3> QED BY <2>4, <3>1, <3>2 DEF Ended, Agreed
  <2>6. Submits(t)
    BY <2>1, <2>2, <2>3, <2>4, <2>5 DEF Submits
  <2> QED BY <2>6 DEF RowStep
<1>2. CASE PublishFailed(c)
  <2>1. CASE UNCHANGED <<ev, task>>
    BY <1>2, <2>1 DEF PublishFailed, RowStep
  <2>2. CASE ~UNCHANGED <<ev, task>>
    <3>1. /\ cl[c].pc = "unsent" /\ ~Locked(cl[c].task) /\ task[cl[c].task].status = "pending"
          /\ SetTask(cl[c].task, "failed") /\ gens' = gens
          /\ Mirror(cl[c].task, "failed") \/ ev' = ev
      BY <1>2, <2>2 DEF PublishFailed
    <3>2. cl[c].task \in Tasks
      BY <3>1 DEF ClientHolds
    <3>3. Moves(cl[c].task, "failed")
      BY <3>1, <3>2, MayMove DEF Outcomes, Ended, Live
    <3> QED BY <3>2, <3>3 DEF RowStep, Outcomes, Ended
  <2> QED BY <2>1, <2>2
<1>3. CASE CancelCommit(c)
  <2> DEFINE t == cl[c].task
  <2>1. t \in Tasks /\ task[t].status \in Live
    BY <1>3 DEF CancelCommit, ClientHolds
  <2>2. task' = [task EXCEPT ![t].status = "cancelled"] /\ gens' = gens
    BY <1>3 DEF CancelCommit, SetTask
  <2>3. IF ev.status = "deleted" THEN ev.task # t ELSE ev.task = t
    BY <2>1 DEF NotFailedIsLinked, Linkage, Live, Tasks, None
  <2>4. IF ev.status = "deleted" THEN ev' = ev ELSE ev' = [ev EXCEPT !.status = "cancelled"]
    BY <1>3, <2>3 DEF CancelCommit, Mirror
  <2>5. ASSUME NEW d \in Clients, cl[d].pc = "locked", cl[d].task = t
        PROVE  cl'[d].pc # "locked"
    <3>1. d = c
      BY <1>3, <2>5 DEF CancelCommit, ClientHolds
    <3>2. cl' = [cl EXCEPT ![c] = IdleClient] \/ cl' = [cl EXCEPT ![c].pc = "mark"]
      BY <1>3 DEF CancelCommit, EndCall
    <3>3. cl'[c].pc \in {"idle", "mark"}
      BY <3>2 DEF TypeOK, ClientRecords, IdleClient
    <3> QED BY <3>1, <3>3
  <2>6. Moves(t, "cancelled")
    BY <2>1, <2>2, <2>3, <2>4, <2>5 DEF Moves
  <2> QED BY <2>1, <2>6 DEF RowStep, Outcomes, Ended
<1>4. CASE MarkCancelled(c)
  <2>1. cl[c].task \in Tasks /\ task[cl[c].task].status = "cancelled"
    BY <1>4 DEF MarkCancelled, ClientHolds
  <2>2. CASE ev.status = "deleted"
    BY <1>4, <2>2 DEF MarkCancelled, RowStep
  <2>3. CASE ev.status # "deleted"
    <3>1. ev.task = cl[c].task
      BY <2>1, <2>3 DEF NotFailedIsLinked
    <3>2. Follows("cancelled")
      BY <1>4, <2>1, <2>3, <3>1 DEF MarkCancelled, Follows
    <3> QED BY <3>2 DEF RowStep, Ended
  <2> QED BY <2>2, <2>3
<1>5. \/ UNCHANGED <<ev, task, gens>>
      \/ (Link(c) /\ Enqueue(c)) \/ PublishFailed(c) \/ CancelCommit(c) \/ MarkCancelled(c)
  BY DEF CallStep, ClientStep, Start, Link, Send, CancelLocked, ClientCrash
<1> QED
  BY <1>1, <1>2, <1>3, <1>4, <1>5 DEF RowStep

(* So does a step of a worker. *)
LEMMA RunRows ==
  ASSUME TypeOK, WorkerHolds, RowsInOrder, Linkage, NotFailedIsLinked, ExecutorInv,
         NEW w \in Workers, RunStep(w)
  PROVE  RowStep
<1> USE DEF db
<1> DEFINE t == wk[w].task
<1>1. CASE Load(w)
  <2>1. CASE UNCHANGED ev
    BY <1>1, <2>1 DEF Load, RowStep
  <2>2. CASE ev' # ev
    <3>1. /\ ev.status # "deleted" /\ task[ev.task].status = "cancelled"
          /\ ev' = [ev EXCEPT !.status = "cancelled"] /\ UNCHANGED <<task, gens>>
      BY <1>1, <2>2 DEF Load
    <3>2. ev.task \in Tasks
      BY <1>1, <3>1 DEF Load, WorkerHolds, Linkage, TypeOK, EvRecords
    <3> QED BY <3>1, <3>2 DEF RowStep, Follows, Ended
  <2> QED BY <2>1, <2>2
<1>2. CASE Claim(w) \/ HandleError(w)
  <2>1. CASE UNCHANGED <<ev, task>>
    BY <1>2, <2>1 DEF Claim, HandleError, RowStep
  <2>2. CASE ~UNCHANGED <<ev, task>>
    <3>1. t \in Tasks /\ task[t].status # "none"
      BY <1>2 DEF Claim, HandleError, WorkerHolds
    <3>2. task[t].status \in {"pending", "running"}
      <4>1. task[t].status \notin Ended \cup {"paused"}
        BY <1>2, <2>2 DEF Claim, HandleError
      <4>2. task[t].status \in Live \cup Ended \cup {"none"}
        BY <3>1 DEF TypeOK, TaskRecords
      <4> QED BY <3>1, <4>1, <4>2 DEF Live
    <3>3. \E s \in {"running", "failed"} :
            /\ SetTask(t, s) /\ gens' = gens /\ ~Locked(t)
            /\ ev' = IF ev.status = "deleted" THEN ev ELSE [ev EXCEPT !.status = s]
      BY <1>2, <2>2 DEF Claim, HandleError
    <3>4. \E s \in {"running", "failed"} : Moves(t, s)
      BY <3>1, <3>2, <3>3, MayMove DEF Outcomes, Ended, Live
    <3> QED BY <3>1, <3>4 DEF RowStep, Outcomes, Ended
  <2> QED BY <2>1, <2>2
<1>3. CASE Finish(w)
  <2>1. CASE UNCHANGED <<ev, task>>
    BY <1>3, <2>1 DEF Finish, RowStep
  <2>2. CASE ~UNCHANGED <<ev, task>>
    <3>1. /\ t \in Tasks /\ task[t].status # "none"
          /\ wk[w].final \in {"completed", "failed", "cancelled", "paused"}
          /\ ev.status # "deleted" /\ ev.task = t /\ task[t].gen = wk[w].msg /\ ~Locked(t)
      BY <1>3, <2>2 DEF Finish, WorkerHolds, ExecutorInv, Executing
    <3>2. CASE task[t].status \in Ended \cup {"paused"}
      <4>1. Follows(task[t].status)
        BY <1>3, <2>2, <3>1, <3>2 DEF Finish, Follows
      <4> QED BY <3>2, <4>1 DEF RowStep
    <3>3. CASE task[t].status \notin Ended \cup {"paused"}
      <4>1. task[t].status \in {"pending", "running"}
        BY <3>1, <3>3 DEF TypeOK, TaskRecords, Live
      <4>2. /\ task' = [task EXCEPT ![t].status = wk[w].final] /\ gens' = gens
            /\ ev' = [ev EXCEPT !.status = wk[w].final] /\ wk[w].pc = "finish"
            /\ wk' = [wk EXCEPT ![w] = IdleWorker]
        BY <1>3, <2>2, <3>1, <3>3 DEF Finish, SetTask, End
      <4>3. wk'[w].pc = "idle"
        BY <4>2 DEF TypeOK, IdleWorker
      <4>4. Moves(t, wk[w].final)
        BY <3>1, <4>1, <4>2, <4>3 DEF Moves, Live, Locked
      <4> QED BY <3>1, <4>4 DEF RowStep, Outcomes, Ended
    <3> QED BY <3>2, <3>3
  <2> QED BY <2>1, <2>2
<1>4. UNCHANGED <<ev, task, gens>> \/ Load(w) \/ Claim(w) \/ HandleError(w) \/ Finish(w)
  BY DEF OpenFile, Replay, RunHead, LoopEnd, LoopGo, Dispatch, CallEnd, GiveUp, UnitCommit, Refused,
     Raise, WorkerCrash, Terminate, RunStep, WorkerStep
<1> QED
  BY <1>1, <1>2, <1>3, <1>4 DEF RowStep

(* Every step is one of the five kinds for the rows. *)
LEMMA RowSteps ==
  ASSUME IInv, [Next]_vars
  PROVE  RowStep
<1> USE DEF db
<1>0. /\ TypeOK /\ WorkerHolds /\ ClientHolds /\ RowsInOrder /\ Linkage /\ NotFailedIsLinked
      /\ ExecutorInv
  BY DEF IInv
<1>1. ASSUME NEW c \in Clients, NEW t \in Tasks, ResumeTask(c, t)
      PROVE  RowStep
  <2>1. gens + 1 \in Gens
    BY <1>0, <1>1, ConstantsAssumption DEF ResumeTask, TypeOK, Gens
  <2>2. Resumes(t)
    BY <1>1, <2>1 DEF ResumeTask, Resumes
  <2> QED BY <2>2 DEF RowStep
<1>2. ASSUME NEW t \in Tasks, GetTask(t) \/ PauseTask(t)
      PROVE  RowStep
  <2>1. \E s \in {"running", "failed", "paused"} :
          /\ SetTask(t, s) /\ gens' = gens /\ ~Locked(t) /\ task[t].status \in {"pending", "running"}
          /\ Mirror(t, s) \/ (s \in {"running", "failed"} /\ ev' = ev)
    BY <1>2 DEF GetTask, PauseTask
  <2>2. \E s \in {"running", "failed", "paused"} : Moves(t, s)
    BY <1>0, <2>1, MayMove DEF Outcomes, Ended, Live
  <2> QED BY <2>2 DEF RowStep, Outcomes, Ended
<1>3. CASE Delete
  BY <1>3 DEF Delete, RowStep, Vanishes
<1>4. CASE Recover
  <2>1. ev.task \in Tasks /\ ev.status \in {"pending", "running"}
    BY <1>0, <1>4 DEF Recover, Linkage, TypeOK, EvRecords
  <2>2. task[ev.task].status \in {"none", "completed", "failed", "cancelled"}
    BY <1>0, <1>4, <2>1 DEF Recover, TypeOK, TaskRecords, Ended
  <2>3. task[ev.task].status = "failed"
    BY <1>0, <2>1, <2>2 DEF Linkage, NotFailedIsLinked, Agreed, Tasks, None
  <2>4. Follows("failed")
    BY <1>4, <2>1, <2>3 DEF Recover, Follows
  <2> QED BY <2>4 DEF RowStep, Ended
<1> QED
  BY <1>0, <1>1, <1>2, <1>3, <1>4, CallRows, RunRows, Steps
     DEF Cancel, Deliver, Busy, Drop, Repeat, vars, RowStep

(* The rows of tasks never disappear, and one that has ended stays so. *)
LEMMA RowsStay ==
  ASSUME IInv, RowStep
  PROVE  /\ \A t \in Tasks : task[t].status # "none" => task'[t].status # "none"
         /\ \A t \in Tasks : task[t].status \in Ended => task'[t] = task[t]
         /\ gens # 0 => gens' # 0
         /\ ev'.cap = ev.cap
         /\ ev.status = "deleted" => ev' = ev
<1>0. task \in [Tasks -> TaskRecords] /\ ev \in EvRecords /\ gens \in Nat
  BY DEF IInv, TypeOK, Gens
<1>1. CASE UNCHANGED <<ev, task, gens>>
  BY <1>1
<1>2. ASSUME NEW t \in Tasks, Submits(t) \/ Resumes(t)
      PROVE  /\ \A s \in Tasks : s # t => task'[s] = task[s]
             /\ task[t].status \in {"none", "paused"} /\ task'[t].status = "pending"
             /\ gens' = gens + 1 /\ ev'.cap = ev.cap /\ ev.status # "deleted"
  BY <1>0, <1>2 DEF Submits, Resumes, EvRecords
<1>3. ASSUME NEW t \in Tasks, NEW s \in Outcomes, Moves(t, s)
      PROVE  /\ \A r \in Tasks : r # t => task'[r] = task[r]
             /\ task[t].status \in Live /\ task'[t].status = s /\ s # "none"
             /\ gens' = gens /\ ev'.cap = ev.cap /\ (ev.status = "deleted" => ev' = ev)
  BY <1>0, <1>3 DEF Moves, Outcomes, Ended, EvRecords, TaskRecords
<1>4. CASE \E s \in Ended \cup {"paused"} : Follows(s)
  BY <1>0, <1>4 DEF Follows, EvRecords
<1>5. CASE Vanishes
  <2>1. ev.status = "deleted" => ev.task = None
    BY DEF IInv, Linkage
  <2> QED BY <1>0, <1>5, <2>1 DEF Vanishes, EvRecords
<1>6. CASE \E t \in Tasks : Submits(t) \/ Resumes(t)
  BY <1>0, <1>2, <1>6 DEF Ended
<1>7. CASE \E t \in Tasks, s \in Outcomes : Moves(t, s)
  BY <1>3, <1>7 DEF Ended, Live
<1> QED
  BY <1>1, <1>4, <1>5, <1>6, <1>7 DEF RowStep

(* A busy worker's message is still in the queue. *)
LEMMA MessageStays ==
  ASSUME IInv, [Next]_vars, NEW w \in Workers, wk'[w].pc # "idle"
  PROVE  wk'[w].msg \in Gens /\ queue'[wk'[w].msg] > 0
<1> USE DEF db, broker, counts
<1>0. /\ queue \in [Gens -> Nat] /\ wk \in [Workers -> WorkerRecords] /\ OneOwner /\ WorkerHolds
      /\ ClientHolds /\ TypeOK
  BY DEF IInv, TypeOK
<1>1. ASSUME NEW c \in Clients, CallStep(c)
      PROVE  wk'[w].msg \in Gens /\ queue'[wk'[w].msg] > 0
  <2>1. wk' = wk /\ wk[w].msg \in Gens /\ queue[wk[w].msg] > 0
    BY <1>0, <1>1, ClientFrame DEF WorkerHolds
  <2>2. queue' = queue \/ (cl[c].gen \in Gens /\ queue' = [queue EXCEPT ![cl[c].gen] = @ + 1])
    BY <1>0, <1>1 DEF CallStep, ClientStep, Start, Link, Send, PublishFailed, CancelLocked, CancelCommit,
       MarkCancelled, ClientCrash, ClientHolds
  <2> QED BY <1>0, <2>1, <2>2
<1>2. ASSUME NEW v \in Workers, RunStep(v)
      PROVE  wk'[w].msg \in Gens /\ queue'[wk'[w].msg] > 0
  <2>1. w = v
    BY <1>0, <1>2, WorkerFrame DEF OneOwner
  <2>2. wk' # [wk EXCEPT ![v] = IdleWorker]
    BY <1>0, <2>1 DEF IdleWorker
  <2>3. queue' = queue
    BY <1>2, <2>2 DEF RunStep, WorkerStep, Load, Claim, OpenFile, Replay, RunHead, LoopEnd, LoopGo, Dispatch,
       CallEnd, GiveUp, UnitCommit, Finish, HandleError, Refused, Raise, WorkerCrash, Terminate, End
  <2>4. wk'[v].msg = wk[v].msg
    BY <1>0, <1>2, <2>2 DEF WorkerRecords, RunStep, WorkerStep, Load, Claim, OpenFile, Replay, RunHead, LoopEnd,
       LoopGo, Dispatch, CallEnd, GiveUp, UnitCommit, Finish, HandleError, Refused, Raise, WorkerCrash,
       Terminate, End, Goto, StopRun
  <2>5. wk[v].pc # "idle"
    BY <1>0, <1>2, WorkerFrame
  <2> QED BY <1>0, <2>1, <2>3, <2>4, <2>5 DEF WorkerHolds
<1>3. ASSUME NEW v \in Workers, NEW g \in Gens, Deliver(v, g)
      PROVE  wk'[w].msg \in Gens /\ queue'[wk'[w].msg] > 0
  <2>1. w = v /\ queue' = queue /\ wk'[w].msg = g
    BY <1>0, <1>3 DEF Deliver, LockFree, IdleWorker
  <2> QED BY <1>0, <1>3, <2>1, HeldIsOne DEF Deliver
<1>4. ASSUME NEW g \in Gens, Drop(g) \/ Repeat(g)
      PROVE  wk'[w].msg \in Gens /\ queue'[wk'[w].msg] > 0
  <2>1. wk' = wk /\ wk[w].msg \in Gens /\ queue[wk[w].msg] > 0
    BY <1>0, <1>4 DEF Drop, Repeat, WorkerHolds
  <2>2. queue' = [queue EXCEPT ![g] = @ + 1] \/ (queue[g] > Held(g) /\ queue' = [queue EXCEPT ![g] = @ - 1])
    BY <1>4 DEF Drop, Repeat
  <2>3. wk[w].msg = g => Held(g) = 1
    BY <1>0, HeldIsOne
  <2> QED BY <1>0, <2>1, <2>2, <2>3
<1>5. CASE UNCHANGED <<wk, queue>>
  BY <1>0, <1>5 DEF WorkerHolds
<1> QED
  BY <1>1, <1>2, <1>3, <1>4, <1>5, Steps DEF ResumeTask, Cancel, GetTask, PauseTask, Delete, Recover, Busy, vars

(* A worker keeps its message and its task until it ends. *)
LEMMA WorkerHoldsStep ==
  ASSUME IInv, [Next]_vars
  PROVE  WorkerHolds'
<1> USE DEF db, broker, counts
<1>0. /\ wk \in [Workers -> WorkerRecords] /\ OneOwner /\ WorkerHolds /\ Linkage /\ TypeOK
      /\ ev.task \in Tasks \cup {None}
  BY DEF IInv, TypeOK, EvRecords
<1>1. /\ \A t \in Tasks : task[t].status # "none" => task'[t].status # "none"
      /\ gens # 0 => gens' # 0
  BY RowSteps, RowsStay
<1> DEFINE P(r) == /\ r.pc = "idle" => r.msg = None
                   /\ r.pc # "idle" => gens # 0
                   /\ r.pc \in Executing \cup {"claim", "error"} => r.task \in Tasks /\ task[r.task].status # "none"
                   /\ r.pc = "finish" => r.final \in {"completed", "failed", "cancelled", "paused"}
<1>2. \A w \in Workers : P(wk[w])
  BY <1>0 DEF WorkerHolds
<1>3. ASSUME NEW w \in Workers, RunStep(w)
      PROVE  P(wk'[w])
  <2>1. CASE wk' = [wk EXCEPT ![w] = IdleWorker]
    BY <1>0, <2>1 DEF IdleWorker, Executing
  <2>2. CASE LoopEnd(w) \/ GiveUp(w)
    <3>1. /\ wk'[w].pc = "finish" /\ wk'[w].task = wk[w].task
          /\ wk'[w].final \in {"completed", "failed", "cancelled", "paused"} /\ wk[w].pc \in {"loop", "call"}
      BY <1>0, <2>2 DEF LoopEnd, GiveUp, StopRun, WorkerRecords
    <3> QED BY <1>2, <3>1 DEF Executing
  <2>3. CASE Load(w) /\ wk' # [wk EXCEPT ![w] = IdleWorker]
    <3>1. /\ wk'[w].pc = "claim" /\ wk'[w].task = ev.task /\ wk[w].pc = "load" /\ ev.status # "deleted"
      BY <1>0, <2>3 DEF Load, End, WorkerRecords
    <3> QED BY <1>0, <1>2, <3>1 DEF Linkage
  <2>4. CASE ~LoopEnd(w) /\ ~GiveUp(w) /\ ~Load(w) /\ wk' # [wk EXCEPT ![w] = IdleWorker]
    <3>1. /\ wk'[w].pc \in (Executing \ {"finish"}) \cup {"error"} /\ wk'[w].task = wk[w].task
          /\ wk[w].pc \in Executing \cup {"claim", "error"}
      BY <1>0, <1>3, <2>4 DEF WorkerRecords, WorkerPCs, Executing, RunStep, WorkerStep, Claim, OpenFile, Replay, RunHead,
         LoopGo, Dispatch, CallEnd, UnitCommit, Finish, HandleError, Refused, Raise, WorkerCrash,
         Terminate, End, Goto
    <3> QED BY <1>2, <3>1 DEF Executing
  <2> QED BY <2>1, <2>2, <2>3, <2>4
<1>4. ASSUME NEW w \in Workers, NEW g \in Gens, Deliver(w, g)
      PROVE  wk'[w].pc = "load" /\ gens # 0 /\ \A v \in Workers : v # w => wk'[v] = wk[v]
  <2>1. queue[g] > 0
    BY <1>0, <1>4, HeldIsOne DEF Deliver, TypeOK
  <2> QED BY <1>0, <1>4, <2>1 DEF Deliver, IdleWorker, IInv, RowsInOrder
<1>5. \A w \in Workers : P(wk'[w])
  <2>1. ASSUME NEW w \in Workers, RunStep(w)
        PROVE  \A v \in Workers : P(wk'[v])
    BY <1>0, <1>2, <1>3, <2>1, WorkerFrame
  <2>2. ASSUME NEW w \in Workers, NEW g \in Gens, Deliver(w, g)
        PROVE  \A v \in Workers : P(wk'[v])
    BY <1>2, <1>4, <2>2 DEF Executing
  <2>3. CASE UNCHANGED wk
    BY <1>2, <2>3
  <2>4. ASSUME NEW c \in Clients, CallStep(c)
        PROVE  UNCHANGED wk
    BY <1>0, <2>4, ClientFrame
  <2> HIDE DEF P
  <2> QED
    BY <2>1, <2>2, <2>3, <2>4, Steps DEF ResumeTask, Cancel, GetTask, PauseTask, Delete, Recover, Busy, Drop, Repeat, vars
<1> QED
  BY <1>1, <1>5, MessageStays DEF WorkerHolds

(* A client keeps its row, and one that has locked it finds it as it was. *)
LEMMA ClientHoldsStep ==
  ASSUME IInv, [Next]_vars
  PROVE  ClientHolds'
<1> USE DEF db, broker, counts
<1>0. /\ cl \in [Clients -> ClientRecords] /\ ClientHolds /\ Linkage /\ RowsInOrder /\ TypeOK
      /\ ev.task \in Tasks \cup {None} /\ task \in [Tasks -> TaskRecords]
      /\ RowStep
  BY RowSteps DEF IInv, TypeOK, EvRecords
<1>1. /\ \A t \in Tasks : task[t].status # "none" => task'[t].status # "none"
      /\ \A t \in Tasks : task[t].status \in Ended => task'[t] = task[t]
      /\ gens # 0 => gens' # 0
  BY <1>0, RowsStay
<1> DEFINE P(r, status, issued) ==
      /\ r.pc \in {"send", "unsent", "cancel", "locked", "mark"} =>
           r.task \in Tasks /\ status[r.task].status # "none" /\ issued # 0
      /\ r.pc \in {"send", "unsent"} => r.gen \in Gens
      /\ r.pc = "link" /\ r.task # None => status[r.task].status \in Ended
      /\ r.pc = "mark" => status[r.task].status = "cancelled"
<1>2. \A c \in Clients : P(cl[c], task, gens) /\ cl[c].task \in Tasks \cup {None}
  BY <1>0 DEF ClientHolds, ClientRecords
<1>3. \A c \in Clients : P(cl[c], task', gens')
  BY <1>1, <1>2 DEF Ended
<1>4. ASSUME NEW c \in Clients, CallStep(c)
      PROVE  P(cl'[c], task', gens')
  <2>1. CASE Start(c)
    <3>1. cl'[c].pc = "link" /\ cl'[c].task = ev.task /\ UNCHANGED <<task, gens>>
          /\ (ev.task # None => task[ev.task].status \notin Live)
      BY <1>0, <2>1 DEF Start
    <3>2. ev.task # None => task[ev.task].status \in Ended
      BY <1>0, <3>1 DEF Linkage, TaskRecords
    <3> QED BY <3>1, <3>2
  <2>2. CASE Link(c) /\ Enqueue(c)
    <3>1. gens' \in Gens /\ gens' # 0
      BY <1>0, <2>2, ConstantsAssumption DEF Enqueue, TypeOK, Gens
    <3>2. cl'[c].pc = "send" /\ cl'[c].task \in Tasks /\ cl'[c].gen = gens' /\ task'[cl'[c].task].status = "pending"
      BY <1>0, <2>2 DEF Enqueue
    <3> QED BY <3>1, <3>2
  <2>3. CASE cl' = [cl EXCEPT ![c] = IdleClient]
    BY <1>0, <2>3 DEF IdleClient
  <2>4. CASE Send(c) /\ cl' # [cl EXCEPT ![c] = IdleClient]
    <3>1. cl' = [cl EXCEPT ![c] = [@ EXCEPT !.pc = "unsent"]] /\ cl[c].pc = "send"
      BY <2>4 DEF Send
    <3>2. cl'[c].pc = "unsent" /\ cl'[c].task = cl[c].task /\ cl'[c].gen = cl[c].gen
      BY <1>0, <3>1 DEF ClientRecords
    <3> QED BY <1>3, <3>1, <3>2
  <2>5. CASE CancelLocked(c) /\ cl' # [cl EXCEPT ![c] = IdleClient]
    <3>1. /\ cl[c].pc = "cancel" /\ UNCHANGED <<task, gens>>
          /\ \/ cl' = [cl EXCEPT ![c].pc = "locked"]
             \/ cl' = [cl EXCEPT ![c] = [@ EXCEPT !.pc = "mark"]] /\ task[cl[c].task].status = "cancelled"
      BY <2>5 DEF CancelLocked, EndCall
    <3>2. /\ cl'[c].task = cl[c].task
          /\ cl'[c].pc = "locked" \/ (cl'[c].pc = "mark" /\ task[cl[c].task].status = "cancelled")
      BY <1>0, <3>1 DEF ClientRecords
    <3> QED BY <1>3, <3>1, <3>2
  <2>6. CASE CancelCommit(c) /\ cl' # [cl EXCEPT ![c] = IdleClient]
    <3>1. cl' = [cl EXCEPT ![c].pc = "mark"] /\ cl[c].pc = "locked" /\ task' = [task EXCEPT ![cl[c].task].status = "cancelled"]
      BY <2>6 DEF CancelCommit, EndCall, SetTask
    <3>2. cl'[c].pc = "mark" /\ cl'[c].task = cl[c].task
      BY <1>0, <3>1 DEF ClientRecords
    <3>3. task'[cl[c].task].status = "cancelled"
      BY <1>0, <1>2, <3>1 DEF TaskRecords
    <3> QED BY <1>3, <3>1, <3>2, <3>3
  <2> QED
    BY <1>4, <2>1, <2>2, <2>3, <2>4, <2>5, <2>6 DEF CallStep, ClientStep, Link, EndCall, PublishFailed,
       MarkCancelled, ClientCrash
<1>5. ASSUME NEW c \in Clients, NEW t \in Tasks, ResumeTask(c, t)
      PROVE  P(cl'[c], task', gens') /\ cl'[c].pc = "send" /\ \A d \in Clients : d # c => cl'[d] = cl[d]
  <2>1. gens' \in Gens /\ gens' # 0
    BY <1>0, <1>5, ConstantsAssumption DEF ResumeTask, TypeOK, Gens
  <2>2. /\ cl'[c].pc = "send" /\ cl'[c].task = t /\ cl'[c].gen = gens' /\ task'[t].status = "pending"
        /\ \A d \in Clients : d # c => cl'[d] = cl[d]
    BY <1>0, <1>5 DEF ResumeTask
  <2> QED BY <2>1, <2>2
<1>6. ASSUME NEW c \in Clients, NEW t \in Tasks, NEW op \in {"cancel_task", "cancel_ev"}, Cancel(c, t, op)
      PROVE  P(cl'[c], task', gens') /\ cl'[c].pc = "cancel" /\ \A d \in Clients : d # c => cl'[d] = cl[d]
  <2>1. /\ cl'[c].pc = "cancel" /\ cl'[c].task = t /\ UNCHANGED <<task, gens>> /\ task[t].status # "none"
        /\ \A d \in Clients : d # c => cl'[d] = cl[d]
    BY <1>0, <1>6 DEF Cancel
  <2> QED BY <1>0, <2>1 DEF RowsInOrder
<1> HIDE DEF P
<1>7. \/ \E c \in Clients : CallStep(c)
      \/ \E c \in Clients, t \in Tasks : ResumeTask(c, t)
      \/ \E c \in Clients, t \in Tasks, op \in {"cancel_task", "cancel_ev"} : Cancel(c, t, op)
      \/ UNCHANGED cl
  <2>1. ASSUME NEW w \in Workers, RunStep(w) PROVE UNCHANGED cl
    BY <1>0, <2>1, WorkerFrame
  <2> QED
    BY <2>1, Steps DEF GetTask, PauseTask, Delete, Recover, Deliver, Busy, Drop, Repeat, vars
<1>8. \A c \in Clients : P(cl'[c], task', gens')
  <2>1. ASSUME NEW c \in Clients, CallStep(c) PROVE \A d \in Clients : P(cl'[d], task', gens')
    BY <1>0, <1>3, <1>4, <2>1, ClientFrame
  <2> QED BY <1>3, <1>5, <1>6, <1>7, <2>1
<1> DEFINE Holding(c) == cl[c].pc = "locked"
           Q == /\ \A c \in Clients : Holding(c) => task[cl[c].task].status \in Live
                /\ \A c, d \in Clients : Holding(c) /\ Holding(d) /\ cl[c].task = cl[d].task => c = d
<1>9. Q /\ \A c \in Clients : Holding(c) => cl[c].task \in Tasks
  BY <1>0 DEF ClientHolds
<1>10. \A c \in Clients : Holding(c) /\ cl'[c] = cl[c] => task'[cl[c].task].status \in Live
  <2> SUFFICES ASSUME NEW c \in Clients, Holding(c), cl'[c] = cl[c]
               PROVE  task'[cl[c].task].status \in Live
    OBVIOUS
  <2>0. cl[c].task \in Tasks /\ task[cl[c].task].status \in Live
    BY <1>9
  <2>1. ASSUME NEW t \in Tasks, NEW s \in Outcomes, Moves(t, s) PROVE t # cl[c].task
    BY <2>1 DEF Moves
  <2>2. ASSUME NEW t \in Tasks, Submits(t) \/ Resumes(t) PROVE task'[cl[c].task].status \in Live
    BY <1>0, <2>0, <2>2 DEF Submits, Resumes, Live
  <2>3. ASSUME NEW t \in Tasks, NEW s \in Outcomes, Moves(t, s) PROVE task'[cl[c].task] = task[cl[c].task]
    BY <1>0, <2>0, <2>1, <2>3 DEF Moves
  <2> QED BY <1>0, <2>0, <2>2, <2>3 DEF RowStep, Follows, Vanishes
<1>11. Q'
  <2>1. ASSUME NEW c \in Clients, CallStep(c), cl'[c].pc = "locked"
        PROVE  /\ cl'[c].task = cl[c].task
               /\ cl'[c] = cl[c] \/ (~Locked(cl[c].task) /\ UNCHANGED task /\ task[cl[c].task].status \in Live)
    <3>1. CASE CancelLocked(c)
      <4>1. cl' # [cl EXCEPT ![c] = IdleClient] /\ cl' # [cl EXCEPT ![c] = [@ EXCEPT !.pc = "mark"]]
        BY <1>0, <2>1 DEF IdleClient, ClientRecords
      <4>2. /\ cl' = [cl EXCEPT ![c].pc = "locked"] /\ ~Locked(cl[c].task) /\ UNCHANGED task
            /\ task[cl[c].task].status \notin Ended /\ cl[c].pc = "cancel"
        BY <3>1, <4>1 DEF CancelLocked, EndCall, Ended
      <4>3. cl[c].task \in Tasks /\ task[cl[c].task].status # "none"
        BY <1>0, <4>2 DEF ClientHolds
      <4> QED BY <1>0, <4>2, <4>3 DEF ClientRecords, TaskRecords
    <3>2. CASE ~CancelLocked(c)
      <4>1. cl' # [cl EXCEPT ![c] = IdleClient]
        BY <1>0, <2>1 DEF IdleClient
      <4>2. FALSE
        BY <1>0, <2>1, <3>2, <4>1 DEF ClientRecords, CallStep, ClientStep, Start, Link, Enqueue, EndCall, Send, PublishFailed,
           CancelCommit, MarkCancelled, ClientCrash
      <4> QED BY <4>2
    <3> QED BY <3>1, <3>2
  <2>2. ASSUME NEW c \in Clients, CallStep(c) PROVE Q'
    <3>1. \A d \in Clients : d # c => cl'[d] = cl[d]
      BY <1>0, <2>2, ClientFrame
    <3> QED BY <1>9, <1>10, <2>1, <2>2, <3>1 DEF Locked
  <2>3. ASSUME NEW c \in Clients, cl'[c].pc # "locked", \A d \in Clients : d # c => cl'[d] = cl[d] PROVE Q'
    BY <1>9, <1>10, <2>3
  <2>4. CASE UNCHANGED cl
    BY <1>9, <1>10, <2>4
  <2> QED BY <1>5, <1>6, <1>7, <2>2, <2>3, <2>4
<1> QED
  BY <1>8, <1>11 DEF ClientHolds, P

(* Rows are made in order and only with a generation. *)
LEMMA RowsInOrderStep ==
  ASSUME IInv, [Next]_vars
  PROVE  RowsInOrder'
<1> USE DEF db, broker, counts
<1>0. /\ task \in [Tasks -> TaskRecords] /\ gens \in Nat /\ queue \in [Gens -> Nat]
      /\ TypeOK /\ OneOwner /\ WorkerHolds /\ ClientHolds /\ RowsInOrder /\ RowStep
  BY RowSteps DEF IInv, TypeOK, Gens
<1>1. /\ \A t \in Tasks : task[t].status # "none" => task'[t].status # "none"
      /\ gens # 0 => gens' # 0
  BY <1>0, RowsStay
<1>2. ASSUME NEW t \in Tasks, task'[t].status # "none"
      PROVE  /\ gens' # 0 /\ task'[t].gen \in Gens
             /\ \A s \in Tasks : s < t => task[s].status # "none"
  <2>1. CASE task[t].status # "none" /\ task'[t].gen = task[t].gen
    BY <1>0, <1>1, <2>1 DEF RowsInOrder
  <2>2. CASE Submits(t) \/ Resumes(t)
    BY <1>0, <2>2 DEF Submits, Resumes, RowsInOrder, Gens
  <2>3. ASSUME NEW r \in Tasks, NEW s \in Outcomes, Moves(r, s)
        PROVE  task[t].status # "none" /\ task'[t].gen = task[t].gen
    BY <1>0, <1>2, <2>3 DEF Moves, TaskRecords, Live
  <2>4. ASSUME NEW r \in Tasks, r # t, Submits(r) \/ Resumes(r)
        PROVE  task'[t] = task[t]
    BY <1>0, <2>4 DEF Submits, Resumes
  <2> QED
    BY <1>0, <1>2, <2>1, <2>2, <2>3, <2>4 DEF RowStep, Follows, Vanishes
<1>3. ASSUME NEW g \in Gens, queue'[g] > 0
      PROVE  gens # 0
  <2>1. ASSUME NEW c \in Clients, CallStep(c)
        PROVE  queue' = queue \/ gens # 0
    BY <1>0, <2>1 DEF CallStep, ClientStep, Start, Link, Send, PublishFailed, CancelLocked, CancelCommit,
       MarkCancelled, ClientCrash, ClientHolds
  <2>2. ASSUME NEW w \in Workers, RunStep(w)
        PROVE  gens # 0
    BY <1>0, <2>2, WorkerFrame DEF WorkerHolds
  <2>3. ASSUME NEW h \in Gens, Drop(h) \/ Repeat(h)
        PROVE  gens # 0
    BY <1>0, <2>3, HeldIsOne DEF Drop, Repeat, RowsInOrder
  <2> QED
    BY <1>0, <1>3, <2>1, <2>2, <2>3, Steps DEF RowsInOrder, ResumeTask, Cancel, GetTask, PauseTask, Delete,
       Recover, Deliver, Busy, vars
<1> QED
  BY <1>1, <1>2, <1>3 DEF RowsInOrder

(* The linkage and the verdicts, by the kinds of what happens to the rows. *)
LEMMA VerdictStep ==
  ASSUME IInv, [Next]_vars
  PROVE  /\ Linkage' /\ NotFailedIsLinked' /\ VerdictsAgree'
         /\ \A t \in Tasks : task[t].status \in Ended => task'[t].status = task[t].status
         /\ ev.status \in {"completed", "cancelled"} => ev'.status \in {ev.status, "deleted"}
<1>0. /\ task \in [Tasks -> TaskRecords] /\ gens \in Nat /\ ev \in EvRecords /\ RowStep
      /\ RowsInOrder /\ Linkage /\ NotFailedIsLinked /\ VerdictsAgree
  BY RowSteps DEF IInv, TypeOK, Gens
<1>1. \A t \in Tasks : task[t].status \in Ended => task'[t].status = task[t].status
  BY <1>0, RowsStay
<1> DEFINE Goal == /\ Linkage' /\ NotFailedIsLinked' /\ VerdictsAgree'
                   /\ ev.status \in {"completed", "cancelled"} => ev'.status \in {ev.status, "deleted"}
<1>2. ASSUME UNCHANGED <<ev, task, gens>>
      PROVE  Goal
  BY <1>0, <1>2 DEF Linkage, NotFailedIsLinked, VerdictsAgree
<1>3. ASSUME NEW t \in Tasks, Submits(t)
      PROVE  Goal
  <2>1. /\ ev'.status = "pending" /\ ev'.task = t /\ task'[t].status = "pending" /\ t # None
        /\ ev.status = "pending"
        /\ \A s \in Tasks : s # t => task'[s].status \in {"none", "failed"}
    BY <1>0, <1>3 DEF Submits, EvRecords, Tasks, None
  <2> QED BY <2>1 DEF Linkage, NotFailedIsLinked, VerdictsAgree, Agreed
<1>4. ASSUME NEW t \in Tasks, Resumes(t)
      PROVE  Goal
  <2>1. /\ ev'.status = "pending" /\ ev'.task = t /\ task'[t].status = "pending" /\ t # None
        /\ ev.status = "paused" /\ ev.task = t
        /\ \A s \in Tasks : s # t => task'[s].status = task[s].status
    BY <1>0, <1>4 DEF Resumes, EvRecords, Tasks, None
  <2>2. \A s \in Tasks : s # t => task[s].status \in {"none", "failed"}
    BY <1>0, <2>1 DEF NotFailedIsLinked
  <2> QED BY <2>1, <2>2 DEF Linkage, NotFailedIsLinked, VerdictsAgree, Agreed
<1>5. ASSUME NEW t \in Tasks, NEW s \in Outcomes, Moves(t, s)
      PROVE  Goal
  <2>1. /\ ev'.task = ev.task /\ task'[t].status = s /\ t # None /\ s # "none" /\ s # "pending" /\ gens' = gens
        /\ \A r \in Tasks : r # t => task'[r].status = task[r].status
        /\ task[t].status \in Live
    BY <1>0, <1>5 DEF Moves, EvRecords, TaskRecords, Tasks, None, Outcomes, Ended
  <2>2. CASE ev.status = "deleted"
    BY <1>0, <1>5, <2>1, <2>2 DEF Moves, Linkage, NotFailedIsLinked, VerdictsAgree
  <2>3. CASE ev.status # "deleted"
    <3>1. ev.task = t /\ (ev'.status = s \/ (ev'.status = ev.status /\ s \in {"running", "failed"}))
      BY <1>0, <1>5, <2>3 DEF Moves, EvRecords
    <3>2. \A r \in Tasks : r # t => task[r].status \in {"none", "failed"}
      BY <1>0, <2>3, <3>1 DEF NotFailedIsLinked
    <3>3. /\ ev.status \notin {"completed", "cancelled", "failed"}
          /\ ev.status = "paused" => s = "cancelled"
      BY <1>0, <1>5, <2>1, <2>3, <3>1 DEF VerdictsAgree, Agreed, Live, Moves
    <3>4. Linkage'
      BY <2>1, <2>3, <3>1 DEF Linkage, Outcomes, Ended
    <3>5. NotFailedIsLinked'
      BY <2>1, <3>1, <3>2 DEF NotFailedIsLinked, Agreed
    <3>6. VerdictsAgree'
      BY <2>1, <3>1, <3>3 DEF VerdictsAgree, Agreed
    <3> QED BY <3>3, <3>4, <3>5, <3>6
  <2> QED BY <2>2, <2>3
<1>6. ASSUME NEW s \in Ended \cup {"paused"}, Follows(s)
      PROVE  Goal
  <2>1. /\ ev'.task = ev.task /\ ev'.status = s /\ UNCHANGED <<task, gens>> /\ ev.task \in Tasks
        /\ ev.status # "deleted" /\ task[ev.task].status = s /\ ev.task # None
    BY <1>0, <1>6 DEF Follows, EvRecords, Tasks, None
  <2>2. ev.status \in Agreed => ev.status = s
    BY <1>0, <2>1 DEF VerdictsAgree
  <2>3. \A r \in Tasks : r # ev.task => task[r].status \in {"none", "failed"}
    BY <1>0, <2>1 DEF NotFailedIsLinked
  <2>4. Linkage' /\ NotFailedIsLinked'
    BY <2>1, <2>3 DEF Linkage, NotFailedIsLinked, Ended
  <2>5. VerdictsAgree'
    BY <2>1 DEF VerdictsAgree
  <2>6. ev.status \in {"completed", "cancelled"} => ev'.status = ev.status
    BY <2>1, <2>2 DEF Agreed
  <2> QED BY <2>4, <2>5, <2>6
<1>7. ASSUME Vanishes
      PROVE  Goal
  <2>1. ev'.status = "deleted" /\ ev'.task = None
    BY <1>0, <1>7 DEF Vanishes, EvRecords
  <2> QED BY <2>1 DEF Linkage, NotFailedIsLinked, VerdictsAgree
<1> HIDE DEF Goal
<1>8. Goal
  BY <1>0, <1>2, <1>3, <1>4, <1>5, <1>6, <1>7 DEF RowStep, Goal
<1> QED
  BY <1>1, <1>8 DEF Goal

---------------------------------------------------------------------------
(* The executor *)

(* An executor was one before, with the same message and task, or it has *)
(* just made its claim. *)
LEMMA ExecutorWas ==
  ASSUME IInv, [Next]_vars, NEW w \in Workers, wk'[w].pc \in Executing
  PROVE  /\ wk'[w].msg = wk[w].msg /\ wk'[w].task = wk[w].task
         /\ \/ wk[w].pc \in Executing
            \/ Claim(w) /\ wk'[w].pc = "file"
<1> USE DEF db, broker, counts
<1>0. wk \in [Workers -> WorkerRecords] /\ OneOwner /\ TypeOK
  BY DEF IInv, TypeOK
<1>1. ASSUME NEW v \in Workers, RunStep(v)
      PROVE  /\ wk'[w].msg = wk[w].msg /\ wk'[w].task = wk[w].task
             /\ wk[w].pc \in Executing \/ (Claim(w) /\ wk'[w].pc = "file")
  <2>1. CASE w # v
    BY <1>1, <2>1, <1>0, WorkerFrame
  <2>2. CASE w = v
    <3>1. wk' # [wk EXCEPT ![w] = IdleWorker] /\ wk'[w].pc \notin {"claim", "error"}
      BY <1>0 DEF IdleWorker, Executing
    <3> QED
      BY <1>0, <1>1, <2>2, <3>1 DEF WorkerRecords, WorkerPCs, Executing, RunStep, WorkerStep, Load, Claim, OpenFile,
         Replay, RunHead, LoopEnd, LoopGo, Dispatch, CallEnd, GiveUp, UnitCommit, Finish, HandleError, Refused,
         Raise, WorkerCrash, Terminate, End, Goto, StopRun
  <2> QED BY <2>1, <2>2
<1>2. ASSUME NEW v \in Workers, NEW g \in Gens, Deliver(v, g)
      PROVE  UNCHANGED wk[w]
  BY <1>0, <1>2 DEF Deliver, IdleWorker, Executing
<1>3. ASSUME NEW c \in Clients, CallStep(c)
      PROVE  UNCHANGED wk
  BY <1>0, <1>3, ClientFrame
<1> QED
  BY <1>1, <1>2, <1>3, Steps DEF ResumeTask, Cancel, GetTask, PauseTask, Delete, Recover, Busy, Drop, Repeat, vars

(* The claim finds its task live, and the linked one. *)
LEMMA ClaimTakes ==
  ASSUME IInv, NEW w \in Workers, Claim(w), wk'[w].pc = "file"
  PROVE  /\ wk[w].task \in Tasks /\ task[wk[w].task].gen = wk[w].msg /\ late' = 0
         /\ ev.status # "deleted" /\ ev.task = wk[w].task
         /\ ev' = [ev EXCEPT !.status = "running"]
         /\ task' = [task EXCEPT ![wk[w].task].status = "running"]
<1>0. /\ wk \in [Workers -> WorkerRecords] /\ task \in [Tasks -> TaskRecords]
      /\ WorkerHolds /\ NotFailedIsLinked
  BY DEF IInv, TypeOK
<1>1. wk[w].pc = "claim" /\ wk[w].task \in Tasks /\ task[wk[w].task].status # "none"
  BY <1>0 DEF WorkerHolds, Claim
<1>2. wk' # [wk EXCEPT ![w] = IdleWorker] /\ wk' # [wk EXCEPT ![w].pc = "error"]
  BY <1>0 DEF IdleWorker, WorkerRecords
<1>3. /\ task[wk[w].task].gen = wk[w].msg /\ task[wk[w].task].status \notin Ended \cup {"paused"}
      /\ ev.status # "deleted" /\ late' = 0
      /\ ev' = [ev EXCEPT !.status = "running"]
      /\ task' = [task EXCEPT ![wk[w].task].status = "running"]
  BY <1>2 DEF Claim, End, Goto, SetTask
<1>4. ev.task = wk[w].task
  BY <1>0, <1>1, <1>3 DEF NotFailedIsLinked, Ended
<1> QED BY <1>1, <1>3, <1>4

(* No start, resume or redelivery goes past an executor. *)
LEMMA ExecutorStep ==
  ASSUME IInv, [Next]_vars
  PROVE  ExecutorInv'
<1>0. /\ task \in [Tasks -> TaskRecords] /\ ev \in EvRecords /\ wk \in [Workers -> WorkerRecords]
      /\ ExecutorInv /\ OneOwner /\ WorkerHolds /\ RowStep
  BY RowSteps DEF IInv, TypeOK
<1> SUFFICES ASSUME NEW w \in Workers, wk'[w].pc \in Executing
             PROVE  /\ task'[wk'[w].task].gen = wk'[w].msg
                    /\ task'[wk'[w].task].status # "completed"
                    /\ ev'.status # "deleted" => ev'.task = wk'[w].task /\ ev'.status # "pending"
  BY DEF ExecutorInv
<1> DEFINE t == wk[w].task
<1>1. wk'[w].msg = wk[w].msg /\ wk'[w].task = t
  BY ExecutorWas
<1>2. CASE Claim(w) /\ wk'[w].pc = "file"
  <2>1. /\ t \in Tasks /\ task[t].gen = wk[w].msg /\ ev.task = t
        /\ ev' = [ev EXCEPT !.status = "running"] /\ task' = [task EXCEPT ![t].status = "running"]
    BY <1>2, ClaimTakes
  <2>2. task'[t].gen = task[t].gen /\ task'[t].status = "running"
    BY <1>0, <2>1 DEF TaskRecords
  <2>3. ev'.task = t /\ ev'.status = "running"
    BY <1>0, <2>1 DEF EvRecords
  <2> QED BY <1>1, <2>1, <2>2, <2>3
<1>3. CASE wk[w].pc \in Executing
  <2>0. /\ t \in Tasks /\ task[t].gen = wk[w].msg /\ task[t].status \notin {"completed", "none"}
        /\ ev.status # "deleted" => ev.task = t /\ ev.status # "pending"
        /\ ~LockFree
    BY <1>0, <1>3 DEF ExecutorInv, WorkerHolds, Executing, LockFree
  <2>1. ASSUME NEW r \in Tasks, Submits(r) \/ Resumes(r)
        PROVE  FALSE
    BY <2>0, <2>1 DEF Submits, Resumes
  <2>2. ASSUME NEW r \in Tasks, NEW s \in Outcomes, Moves(r, s)
        PROVE  /\ task'[t].gen = task[t].gen /\ task'[t].status \in {task[t].status, s} /\ s # "completed"
               /\ ev'.task = ev.task /\ ev'.status \in {ev.status, s} /\ s # "pending"
               /\ ev.status = "deleted" => ev' = ev
    <3>1. s # "completed"
      BY <1>0, <1>3, <2>2 DEF Moves, OneOwner, Executing
    <3> QED BY <1>0, <2>0, <2>2, <3>1 DEF Moves, TaskRecords, EvRecords, Outcomes, Ended
  <2>3. ASSUME NEW s \in Ended \cup {"paused"}, Follows(s)
        PROVE  task' = task /\ ev'.task = ev.task /\ ev.status # "deleted" /\ ev'.status # "pending"
    BY <1>0, <2>3 DEF Follows, EvRecords, Ended
  <2>4. Vanishes => task' = task /\ ev'.status = "deleted"
    BY <1>0 DEF Vanishes, EvRecords
  <2>5. \/ UNCHANGED <<ev, task>>
        \/ \E r \in Tasks, s \in Outcomes : Moves(r, s)
        \/ \E s \in Ended \cup {"paused"} : Follows(s)
        \/ Vanishes
    BY <1>0, <2>1 DEF RowStep
  <2> QED BY <1>1, <2>0, <2>2, <2>3, <2>4, <2>5
<1> QED BY <1>2, <1>3, ExecutorWas

(* The check before a call lets at most one unit through after a stop. *)
LEMMA LateStep ==
  ASSUME IInv, [Next]_vars
  PROVE  LateInv'
<1> USE DEF db, broker, counts
<1>0. /\ task \in [Tasks -> TaskRecords] /\ wk \in [Workers -> WorkerRecords] /\ late \in Nat
      /\ ExecutorInv /\ OneOwner /\ WorkerHolds /\ LateInv /\ RowStep /\ TypeOK
  BY RowSteps DEF IInv, TypeOK
<1>1. ASSUME NEW w \in Workers, RunStep(w)
      PROVE  \/ late' = late
             \/ late' = 0
             \/ Dispatch(w) /\ late' = late + 1 /\ TaskStopped(w) /\ wk'[w].pc = "call"
  BY <1>0, <1>1 DEF RunStep, WorkerStep, Load, Claim, OpenFile, Replay, RunHead, LoopEnd, LoopGo, Dispatch, CallEnd, GiveUp,
     UnitCommit, Finish, HandleError, Refused, Raise, WorkerCrash, Terminate, WorkerRecords
<1>2. \/ late' = late
      \/ late' = 0
      \/ \E w \in Workers : Dispatch(w) /\ late' = late + 1 /\ TaskStopped(w) /\ wk'[w].pc = "call"
  BY <1>1, Steps DEF CallStep, ClientStep, Start, Link, Send, PublishFailed, CancelLocked, CancelCommit,
     MarkCancelled, ClientCrash, ResumeTask, Cancel, GetTask, PauseTask, Delete, Recover,
     Deliver, Busy, Drop, Repeat, vars
<1>3. ASSUME NEW w \in Workers, Dispatch(w)
      PROVE  late = 0 /\ wk[w].pc = "dispatch" /\ task' = task
  BY <1>0, <1>3 DEF Dispatch, LateInv
<1>4. late' <= 1
  BY <1>0, <1>2, <1>3 DEF LateInv
<1>5. ASSUME NEW w \in Workers, wk'[w].pc = "dispatch"
      PROVE  late' = 0
  <2>1. wk[w].pc \in Executing
    BY <1>5, ExecutorWas DEF Executing
  <2>2. CASE UNCHANGED <<wk, late>>
    BY <1>0, <1>5, <2>2 DEF LateInv
  <2>3. ASSUME NEW v \in Workers, RunStep(v)
        PROVE  late' = 0
    <3>1. v = w
      BY <1>0, <2>1, <2>3, WorkerFrame DEF OneOwner, Executing
    <3>2. LoopGo(w)
      BY <1>0, <1>5, <2>3, <3>1 DEF RunStep, WorkerStep, Load, Claim, OpenFile, Replay, RunHead, LoopEnd,
         LoopGo, Dispatch, CallEnd, GiveUp, UnitCommit, Finish, HandleError, Refused, Raise, WorkerCrash, Terminate, End, Goto,
         StopRun, IdleWorker, WorkerRecords
    <3> QED BY <1>0, <3>2 DEF LoopGo, MayGo, TaskStopped, LateInv, Executing
  <2>4. ASSUME NEW v \in Workers, NEW g \in Gens, Deliver(v, g)
        PROVE  FALSE
    BY <2>1, <2>4 DEF Deliver, LockFree, Executing
  <2>5. ASSUME NEW c \in Clients, CallStep(c)
        PROVE  UNCHANGED <<wk, late>>
    BY <2>5 DEF CallStep, ClientStep, Start, Link, Send, PublishFailed, CancelLocked, CancelCommit,
       MarkCancelled, ClientCrash
  <2> QED
    BY <2>2, <2>3, <2>4, <2>5, Steps DEF ResumeTask, Cancel, GetTask, PauseTask, Delete, Recover, Busy, Drop, Repeat, vars
<1>6. ASSUME NEW w \in Workers, wk'[w].pc \in Executing, late' > 0
      PROVE  task'[wk'[w].task].status \in {"paused", "cancelled"}
  <2> DEFINE t == wk[w].task
  <2>1. wk'[w].task = t /\ wk[w].pc \in Executing
    <3>1. ~(Claim(w) /\ wk'[w].pc = "file")
      <4> SUFFICES ASSUME Claim(w), wk'[w].pc = "file" PROVE FALSE
        OBVIOUS
      <4>1. late' = 0
        BY ClaimTakes
      <4> QED BY <1>6, <4>1
    <3> QED BY <1>6, <3>1, ExecutorWas
  <2>2. t \in Tasks /\ ~LockFree /\ task[t].gen = wk[w].msg
    BY <1>0, <2>1 DEF WorkerHolds, LockFree, Executing, ExecutorInv
  <2>3. CASE late' = late
    <3>1. task[t].status \in {"paused", "cancelled"}
      BY <1>0, <1>6, <2>1, <2>3 DEF LateInv
    <3>2. ASSUME NEW r \in Tasks, Submits(r) \/ Resumes(r)
          PROVE  task'[t] = task[t]
      <4>1. Submits(r) /\ r # t
        BY <2>2, <3>1, <3>2 DEF Submits, Resumes
      <4>2. task' = [task EXCEPT ![r] = [status |-> "pending", gen |-> gens + 1]]
        BY <4>1 DEF Submits
      <4> QED BY <1>0, <2>2, <4>1, <4>2
    <3>3. ASSUME NEW r \in Tasks, NEW s \in Outcomes, Moves(r, s)
          PROVE  task'[t].status \in {"paused", "cancelled"}
      <4>1. task' = [task EXCEPT ![r].status = s] /\ (task[r].status = "paused" => s = "cancelled")
            /\ task[r].status \in Live
        BY <3>3 DEF Moves
      <4>2. CASE r = t
        BY <1>0, <2>2, <3>1, <4>1, <4>2 DEF TaskRecords, Live
      <4>3. CASE r # t
        BY <1>0, <2>2, <3>1, <4>1, <4>3
      <4> QED BY <4>2, <4>3
    <3> QED BY <1>0, <2>1, <3>1, <3>2, <3>3 DEF RowStep, Follows, Vanishes
  <2>4. ASSUME NEW v \in Workers, Dispatch(v), TaskStopped(v)
        PROVE  task'[t].status \in {"paused", "cancelled"}
    <3>1. v = w
      BY <1>0, <2>1, <2>4 DEF Dispatch, OneOwner, Executing
    <3> QED BY <1>3, <2>2, <2>4, <3>1 DEF TaskStopped
  <2> QED BY <1>2, <1>6, <2>1, <2>3, <2>4
<1> QED
  BY <1>4, <1>5, <1>6 DEF LateInv

---------------------------------------------------------------------------
(* The units and their books *)

(* Sets of units are finite; adding and removing one counts as it should. *)
LEMMA FiniteUnits ==
  ASSUME NEW S, S \subseteq Units
  PROVE  /\ IsFiniteSet(S) /\ Cardinality(S) \in Nat
         /\ \A u : Cardinality(S \cup {u}) = IF u \in S THEN Cardinality(S) ELSE Cardinality(S) + 1
         /\ \A u : Cardinality(S \ {u}) = IF u \in S THEN Cardinality(S) - 1 ELSE Cardinality(S)
<1>1. IsFiniteSet(Units)
  BY FS_Interval, ConstantsAssumption DEF Units
<1>2. IsFiniteSet(S)
  BY <1>1, FS_Subset
<1> QED
  BY <1>2, FS_CardinalityType, FS_AddElement, FS_RemoveElement

(* What the invariant says of the units in hand of one worker. *)
InHand(w) ==
  /\ wk[w].pc \in Executing \ {"file"} => file.state # "absent"
  /\ wk[w].pc = "replay" =>
       /\ wk[w].units \subseteq Settled
       /\ ev.status # "deleted" => Settled \ wk[w].units \subseteq rows
       /\ wk[w].units = {} => spent = Cardinality(Settled)
  /\ wk[w].pc \in {"run", "loop", "dispatch", "call"} => Paid
  /\ wk[w].pc \in {"dispatch", "call"} => spent < ev.cap
  /\ wk[w].pc = "call" => \E u \in Units : wk[w].units = {u} /\ file.unit[u] = "running"
  /\ wk[w].pc = "saved" => \E u \in Settled :
       wk[w].units = {u} /\ (ev.status # "deleted" => rows = Settled \ {u})
                         /\ spent + 1 = Cardinality(Settled)
  /\ wk[w].pc = "finish" /\ wk[w].final = "completed" =>
       /\ \A u \in Units : file.unit[u] = "completed"
       /\ ev.status # "deleted" => rows = Units

Outset == (file.state = "absent" => Settled = {}) /\ (Settled = {} => spent = 0)

(* The invariant, worker by worker. *)
LEMMA UnitsParts == UnitsInv <=> Outset /\ \A w \in Workers : InHand(w)
  BY DEF UnitsInv, Outset, InHand

(* A commit charges a unit that has no row yet, and no other. *)
LEMMA CommitCharges ==
  ASSUME IInv, NEW w \in Workers, wk[w].pc \in Executing, NEW u \in Settled, Commit(w, u)
  PROVE  /\ rows' = rows \cup {u} /\ ev.status # "deleted"
         /\ rows' \subseteq Settled /\ spent' = Cardinality(rows')
         /\ spent' = IF u \in rows THEN spent ELSE spent + 1
<1>1. rows' = rows \cup {u} /\ spent' = spent + (IF u \in rows THEN 0 ELSE 1) /\ ev.status # "deleted"
  BY DEF IInv, ExecutorInv, Commit
<1>2. rows \subseteq Settled /\ spent = Cardinality(rows) /\ Settled \subseteq Units /\ spent \in Nat
  BY <1>1 DEF IInv, ChargedOnce, Settled, TypeOK
<1>3. Cardinality(rows \cup {u}) = IF u \in rows THEN Cardinality(rows) ELSE Cardinality(rows) + 1
  BY <1>2, FiniteUnits
<1> QED BY <1>1, <1>2, <1>3

(* The units and their books after a step of a worker. *)
LEMMA UnitsRun ==
  ASSUME IInv, [Next]_vars, NEW w \in Workers, RunStep(w)
  PROVE  Outset' /\ ChargedOnce' /\ InHand(w)'
<1> USE DEF db, broker, counts
<1>0. /\ file \in FileRecords /\ wk \in [Workers -> WorkerRecords] /\ rows \subseteq Units /\ spent \in Nat
      /\ ev \in EvRecords /\ Settled \subseteq Units /\ Cardinality(Settled) \in Nat
      /\ Outset /\ InHand(w) /\ ChargedOnce /\ wk[w].units \subseteq Units
  BY UnitsParts, FiniteUnits DEF IInv, TypeOK, Settled, WorkerRecords
<1>1. ev'.cap = ev.cap /\ (ev.status = "deleted" => ev' = ev)
  BY RowSteps, RowsStay
<1>2. Settled' = {u \in Units : file'.unit[u] \in {"completed", "failed"}}
  BY DEF Settled
<1>3. CASE wk'[w].pc \notin Executing \ {"file"} /\ UNCHANGED <<file, rows, spent>>
  BY <1>0, <1>1, <1>2, <1>3 DEF Outset, InHand, ChargedOnce, Settled, Executing
<1>4. CASE OpenFile(w) /\ wk'[w].pc # "error"
  <2>1. CASE file.state = "absent"
    <3>1. /\ file' = [NoFile EXCEPT !.state = "queued"] /\ wk'[w].pc = "run"
          /\ UNCHANGED <<ev, rows, spent>>
      BY <1>0, <1>4, <2>1 DEF OpenFile, Goto, WorkerRecords
    <3>2. Settled' = {} /\ file'.state = "queued"
      BY <1>2, <3>1 DEF NoFile
    <3>3. Settled = {} /\ spent = 0 /\ (ev.status # "deleted" => rows = {})
      BY <1>0, <2>1 DEF Outset, ChargedOnce
    <3> QED BY <3>1, <3>2, <3>3, FS_EmptySet DEF Outset, ChargedOnce, InHand, Paid, Executing
  <2>2. CASE file.state # "absent"
    <3>1. /\ wk' = [wk EXCEPT ![w].pc = "replay", ![w].resume = TRUE, ![w].units = Settled] /\ file' = file
          /\ UNCHANGED <<ev, rows, spent>>
      <4>1. wk' # [wk EXCEPT ![w].pc = "error"]
        BY <1>0, <1>4 DEF WorkerRecords
      <4> QED BY <1>4, <2>2, <4>1 DEF OpenFile, Goto
    <3>2. wk'[w].pc = "replay" /\ wk'[w].units = Settled /\ Settled' = Settled
      BY <1>0, <3>1 DEF WorkerRecords, Settled
    <3>3. Settled = {} => spent = Cardinality(Settled)
      BY <1>0, FS_EmptySet DEF Outset
    <3> QED BY <1>0, <2>2, <3>1, <3>2, <3>3 DEF Outset, ChargedOnce, InHand
  <2> QED BY <2>1, <2>2
<1>5. CASE Replay(w)
  <2>0. /\ wk[w].pc = "replay" /\ UNCHANGED <<ev, file>> /\ Settled' = Settled /\ file.state # "absent"
        /\ wk[w].units \subseteq Settled
    BY <1>0, <1>5 DEF Replay, InHand, Settled, Executing
  <2>1. CASE wk[w].units = {} /\ Goto(w, "run") /\ UNCHANGED <<rows, spent>>
    <3>1. wk'[w].pc = "run"
      BY <1>0, <2>1 DEF Goto, WorkerRecords
    <3>2. Paid
      BY <1>0, <2>0, <2>1 DEF InHand, Paid, ChargedOnce
    <3> QED BY <1>0, <2>0, <2>1, <3>1, <3>2 DEF Outset, ChargedOnce, InHand, Paid
  <2>2. ASSUME NEW u \in wk[w].units, Commit(w, u), wk' = [wk EXCEPT ![w].units = @ \ {u}]
        PROVE  Outset' /\ ChargedOnce' /\ InHand(w)'
    <3>1. wk'[w].pc = "replay" /\ wk'[w].units = wk[w].units \ {u}
      BY <1>0, <2>0, <2>2 DEF WorkerRecords
    <3>2. rows' = rows \cup {u} /\ rows' \subseteq Settled /\ spent' = Cardinality(rows')
          /\ u \in Settled /\ ev.status # "deleted"
      BY <2>0, <2>2, CommitCharges DEF Executing
    <3>3. Settled \ (wk[w].units \ {u}) \subseteq rows'
      BY <1>0, <2>0, <3>2 DEF InHand
    <3> QED BY <2>0, <3>1, <3>2, <3>3 DEF Outset, ChargedOnce, InHand
  <2> QED BY <1>5, <2>1, <2>2 DEF Replay
<1>6. CASE RunHead(w)
  <2>1. /\ wk'[w].pc = "loop" /\ wk[w].pc = "run" /\ UNCHANGED <<ev, rows, spent>> /\ file'.state = "running"
        /\ file'.unit = [u \in Units |-> IF u \in Settled THEN file.unit[u] ELSE "queued"]
    BY <1>0, <1>6 DEF RunHead, Goto, WorkerRecords
  <2>2. Settled' = Settled
    BY <1>2, <2>1 DEF Settled
  <2> QED BY <1>0, <2>1, <2>2 DEF Outset, ChargedOnce, InHand, Paid
<1>7. CASE LoopEnd(w) \/ GiveUp(w)
  <2>1. PICK s \in FileStates \ {"absent"} :
          /\ StopRun(w, s) /\ UNCHANGED <<ev, rows, spent>> /\ wk[w].pc \in {"loop", "call"}
          /\ s = "completed" => \A u \in Units : file.unit[u] = "completed"
    BY <1>7 DEF LoopEnd, GiveUp, FileStates, Ended
  <2>2. file'.state = s /\ file'.unit = file.unit /\ wk'[w].pc = "finish" /\ wk'[w].final = s
    BY <1>0, <2>1 DEF StopRun, FileRecords, WorkerRecords
  <2>3. Settled' = Settled
    BY <2>2 DEF Settled
  <2>4. s = "completed" => Settled = Units
    BY <2>1 DEF Settled
  <2>5. Paid
    BY <1>0, <2>1 DEF InHand
  <2> QED BY <1>0, <2>1, <2>2, <2>3, <2>4, <2>5 DEF Outset, ChargedOnce, InHand, Paid
<1>8. CASE LoopGo(w)
  <2>1. wk'[w].pc = "dispatch" /\ wk[w].pc = "loop" /\ UNCHANGED <<file, ev, rows, spent>> /\ spent < ev.cap
    BY <1>0, <1>8 DEF LoopGo, Goto, MayGo, WorkerRecords
  <2>2. Settled' = Settled /\ file.state # "absent"
    BY <1>0, <2>1 DEF Settled, InHand, Executing
  <2> QED BY <1>0, <2>1, <2>2 DEF Outset, ChargedOnce, InHand, Paid
<1>9. CASE Dispatch(w)
  <2>1. wk[w].pc = "dispatch" /\ UNCHANGED <<ev, rows, spent>> /\ Paid /\ spent < ev.cap /\ file.state # "absent"
    BY <1>0, <1>9 DEF Dispatch, InHand, Executing
  <2>2. CASE Goto(w, "loop") /\ UNCHANGED file
    <3>1. wk'[w].pc = "loop" /\ Settled' = Settled
      BY <1>0, <2>2 DEF Goto, WorkerRecords, Settled
    <3> QED BY <1>0, <2>1, <2>2, <3>1 DEF Outset, ChargedOnce, InHand, Paid
  <2>3. ASSUME NEW u \in Queued, file' = [file EXCEPT !.unit[u] = "running"],
               wk' = [wk EXCEPT ![w].pc = "call", ![w].units = {u}]
        PROVE  Outset' /\ ChargedOnce' /\ InHand(w)'
    <3>1. wk'[w].pc = "call" /\ wk'[w].units = {u}
      BY <1>0, <2>3 DEF WorkerRecords
    <3>2. /\ u \in Units /\ file.unit[u] = "queued" /\ file'.state = file.state
          /\ file'.unit = [file.unit EXCEPT ![u] = "running"]
      BY <1>0, <2>3 DEF Queued, FileRecords
    <3>3. Settled' = Settled /\ file'.unit[u] = "running"
      BY <1>0, <1>2, <3>2 DEF Settled, FileRecords
    <3> QED BY <1>0, <2>1, <3>1, <3>2, <3>3 DEF Outset, ChargedOnce, InHand, Paid
  <2> QED BY <1>9, <2>2, <2>3 DEF Dispatch
<1>10. CASE CallEnd(w)
  <2>1. /\ wk[w].pc = "call" /\ wk'[w].pc = "saved" /\ wk'[w].units = wk[w].units /\ UNCHANGED <<ev, rows, spent>>
        /\ Paid /\ file.state # "absent"
    BY <1>0, <1>10 DEF CallEnd, Goto, WorkerRecords, InHand, Executing
  <2>2. PICK u \in Units : wk[w].units = {u} /\ file.unit[u] = "running"
    BY <1>0, <2>1 DEF InHand
  <2>3. PICK o \in {"completed", "failed"} : file' = [file EXCEPT !.unit[u] = o]
    BY <1>10, <2>2 DEF CallEnd
  <2>4. file'.state = file.state /\ file'.unit = [file.unit EXCEPT ![u] = o]
    BY <1>0, <2>3 DEF FileRecords
  <2>5. Settled' = Settled \cup {u} /\ u \notin Settled
    BY <1>0, <1>2, <2>2, <2>4 DEF Settled, FileRecords
  <2>6. Cardinality(Settled') = Cardinality(Settled) + 1
    BY <1>0, <2>5, FiniteUnits
  <2> QED BY <1>0, <2>1, <2>2, <2>4, <2>5, <2>6 DEF Outset, ChargedOnce, InHand, Paid
<1>11. CASE UnitCommit(w)
  <2>1. wk[w].pc = "saved" /\ wk'[w].pc = "loop" /\ UNCHANGED <<ev, file>> /\ Settled' = Settled /\ file.state # "absent"
    BY <1>0, <1>11 DEF UnitCommit, WorkerRecords, Settled, InHand, Executing
  <2>2. PICK u \in Settled : /\ wk[w].units = {u} /\ (ev.status # "deleted" => rows = Settled \ {u})
                             /\ spent + 1 = Cardinality(Settled)
    BY <1>0, <2>1 DEF InHand
  <2>3. Commit(w, u)
    BY <1>11, <2>2 DEF UnitCommit
  <2>4. /\ rows' = rows \cup {u} /\ spent' = Cardinality(rows') /\ ev.status # "deleted"
        /\ spent' = IF u \in rows THEN spent ELSE spent + 1
    BY <2>1, <2>3, CommitCharges DEF Executing
  <2>5. rows' = Settled /\ spent' = Cardinality(Settled)
    BY <2>2, <2>4
  <2> QED BY <2>1, <2>2, <2>5 DEF Outset, ChargedOnce, InHand, Paid
<1>12. \/ wk'[w].pc \notin Executing \ {"file"} /\ UNCHANGED <<file, rows, spent>>
       \/ (OpenFile(w) /\ wk'[w].pc # "error") \/ Replay(w) \/ RunHead(w) \/ LoopEnd(w) \/ GiveUp(w)
       \/ LoopGo(w) \/ Dispatch(w) \/ CallEnd(w) \/ UnitCommit(w)
  <2>1. \A p \in WorkerPCs : Goto(w, p) => wk'[w].pc = p
    BY <1>0 DEF Goto, WorkerRecords
  <2>2. wk' = [wk EXCEPT ![w] = IdleWorker] => wk'[w].pc = "idle"
    BY <1>0 DEF IdleWorker
  <2>3. ASSUME Load(w) \/ Claim(w) \/ Finish(w) \/ HandleError(w)
        PROVE  wk'[w].pc \notin Executing \ {"file"} /\ UNCHANGED <<file, rows, spent>>
    <3>1. Load(w) => wk'[w].pc \in {"idle", "claim"}
      BY <1>0, <2>2 DEF Load, End, WorkerRecords
    <3>2. Claim(w) \/ Finish(w) \/ HandleError(w) => wk'[w].pc \in {"idle", "file", "error"}
      BY <2>1, <2>2 DEF Claim, Finish, HandleError, End, WorkerPCs
    <3> QED BY <2>3, <3>1, <3>2 DEF Load, Claim, Finish, HandleError, Executing
  <2>4. ASSUME Refused(w) \/ Raise(w) \/ WorkerCrash(w) \/ Terminate(w)
        PROVE  wk'[w].pc \notin Executing \ {"file"} /\ UNCHANGED <<file, rows, spent>>
    <3>1. wk'[w].pc \in {"idle", "error"}
      BY <2>1, <2>2, <2>4 DEF Refused, Raise, WorkerCrash, Terminate, End, WorkerPCs
    <3> QED BY <2>4, <3>1 DEF Refused, Raise, WorkerCrash, Terminate, Executing
  <2>5. ASSUME OpenFile(w), wk'[w].pc = "error"
        PROVE  UNCHANGED <<file, rows, spent>>
    <3>1. file.state = "absent" => wk'[w].pc = "run"
      BY <2>1, <2>5 DEF OpenFile, WorkerPCs
    <3> QED BY <2>5, <3>1 DEF OpenFile
  <2> QED BY <2>3, <2>4, <2>5 DEF RunStep, WorkerStep, Executing
<1> QED
  BY <1>3, <1>4, <1>5, <1>6, <1>7, <1>8, <1>9, <1>10, <1>11, <1>12

(* What is not a worker's step leaves the units and their books alone. *)
LEMMA BooksKept ==
  ASSUME IInv, [Next]_vars, \A w \in Workers : ~RunStep(w)
  PROVE  /\ file'.state = file.state /\ file'.unit = file.unit /\ spent' = spent
         /\ ev'.status # "deleted" => rows' = rows
         /\ \A w \in Workers : wk'[w] = wk[w] \/ wk'[w].pc = "load"
<1> USE DEF db, broker, counts
<1>0. file \in FileRecords /\ wk \in [Workers -> WorkerRecords] /\ ev \in EvRecords /\ TypeOK
  BY DEF IInv, TypeOK
<1>1. [file EXCEPT !.cancel = TRUE].state = file.state /\ [file EXCEPT !.cancel = TRUE].unit = file.unit
  BY <1>0 DEF FileRecords
<1>2. ASSUME NEW c \in Clients, CallStep(c)
      PROVE  (file' = file \/ file' = [file EXCEPT !.cancel = TRUE]) /\ UNCHANGED <<rows, spent, wk>>
  BY <1>2 DEF CallStep, ClientStep, Start, Link, Send, PublishFailed, CancelLocked, CancelCommit, MarkCancelled, ClientCrash
<1>3. CASE Delete
  BY <1>0, <1>3 DEF Delete, EvRecords
<1>4. ASSUME NEW w \in Workers, NEW g \in Gens, Deliver(w, g)
      PROVE  UNCHANGED <<file, rows, spent>> /\ \A v \in Workers : wk'[v] = wk[v] \/ wk'[v].pc = "load"
  BY <1>0, <1>4 DEF Deliver, IdleWorker
<1> QED
  BY <1>1, <1>2, <1>3, <1>4, Steps DEF ResumeTask, Cancel, GetTask, PauseTask, Recover, Busy, Drop, Repeat, vars

(* The units and their books are kept by every step. *)
LEMMA UnitsStep ==
  ASSUME IInv, [Next]_vars
  PROVE  UnitsInv' /\ ChargedOnce'
<1>0. /\ wk \in [Workers -> WorkerRecords] /\ OneOwner /\ TypeOK /\ ChargedOnce
      /\ Outset /\ \A w \in Workers : InHand(w)
  BY UnitsParts DEF IInv, TypeOK
<1>1. ev'.cap = ev.cap /\ (ev.status = "deleted" => ev' = ev)
  BY RowSteps, RowsStay
<1>2. ASSUME NEW w \in Workers, RunStep(w)
      PROVE  UnitsInv' /\ ChargedOnce'
  <2>1. Outset' /\ ChargedOnce' /\ InHand(w)'
    BY <1>2, UnitsRun
  <2>2. ASSUME NEW v \in Workers, v # w PROVE InHand(v)'
    <3>1. wk'[v].pc = "idle"
      BY <1>0, <1>2, <2>2, WorkerFrame DEF OneOwner
    <3> QED BY <3>1 DEF InHand, Executing
  <2>3. \A v \in Workers : InHand(v)'
    BY <2>1, <2>2
  <2> QED BY <2>1, <2>3 DEF UnitsInv, Outset, InHand
<1>3. ASSUME \A w \in Workers : ~RunStep(w)
      PROVE  UnitsInv' /\ ChargedOnce'
  <2>1. /\ file'.state = file.state /\ file'.unit = file.unit /\ spent' = spent
        /\ ev'.status # "deleted" => rows' = rows
        /\ \A w \in Workers : wk'[w] = wk[w] \/ wk'[w].pc = "load"
    BY <1>3, BooksKept
  <2>2. Settled' = Settled
    BY <2>1 DEF Settled
  <2>3. ASSUME NEW w \in Workers PROVE InHand(w)'
    <3>1. CASE wk'[w].pc = "load"
      BY <3>1 DEF InHand, Executing
    <3>2. CASE wk'[w] = wk[w]
      BY <1>0, <1>1, <2>1, <2>2, <3>2 DEF InHand, Paid
    <3> QED BY <2>1, <3>1, <3>2
  <2>4. Outset' /\ ChargedOnce'
    BY <1>0, <1>1, <2>1, <2>2 DEF Outset, ChargedOnce
  <2> QED BY <2>3, <2>4 DEF UnitsInv, Outset, InHand
<1> QED BY <1>2, <1>3

(* Only a run with every unit in the database completes the evaluation. *)
LEMMA CompletedStep ==
  ASSUME IInv, [Next]_vars, TypeOK'
  PROVE  CompletedIsWhole'
<1>0. /\ wk \in [Workers -> WorkerRecords] /\ ev \in EvRecords /\ task \in [Tasks -> TaskRecords]
      /\ OneOwner /\ ExecutorInv /\ Linkage /\ VerdictsAgree /\ NotFailedIsLinked /\ CompletedIsWhole
      /\ WorkerHolds /\ RowStep
      /\ \A w \in Workers : InHand(w)
  BY UnitsParts, RowSteps DEF IInv, TypeOK
<1> SUFFICES ASSUME ev'.status = "completed"
             PROVE  rows' = Units /\ \A u \in Units : file'.unit[u] = "completed"
  BY DEF CompletedIsWhole
<1>1. \/ ev.status = "completed" /\ \A w \in Workers : wk[w].pc \notin Executing
      \/ \E w \in Workers : wk[w].pc = "finish" /\ wk[w].final = "completed" /\ ev.status # "deleted"
  <2>1. CASE ev.status = "completed"
    <3>1. ev.task # None /\ task[ev.task].status = "completed"
      BY <1>0, <2>1 DEF Linkage, VerdictsAgree, Agreed
    <3> QED BY <1>0, <2>1, <3>1 DEF ExecutorInv
  <2>2. CASE ev.status # "completed"
    <3>1. ASSUME NEW t \in Tasks, Submits(t) \/ Resumes(t) PROVE FALSE
      BY <1>0, <2>2, <3>1 DEF Submits, Resumes, EvRecords
    <3>2. ASSUME NEW t \in Tasks, NEW s \in Outcomes, Moves(t, s) PROVE s = "completed"
      BY <1>0, <2>2, <3>2 DEF Moves, EvRecords
    <3>3. ASSUME NEW s \in Ended \cup {"paused"}, Follows(s) PROVE FALSE
      BY <1>0, <2>2, <3>3 DEF Follows, EvRecords, NotFailedIsLinked, Agreed
    <3>4. ~Vanishes
      BY <1>0 DEF Vanishes, EvRecords
    <3>5. \E t \in Tasks : Moves(t, "completed")
      BY <1>0, <2>2, <3>1, <3>2, <3>3, <3>4 DEF RowStep
    <3> QED BY <3>5 DEF Moves
  <2> QED BY <2>1, <2>2
<1>2. rows = Units /\ \A u \in Units : file.unit[u] = "completed"
  BY <1>0, <1>1 DEF CompletedIsWhole, InHand
<1>3. rows' = rows /\ file'.unit = file.unit
  <2>1. CASE \A w \in Workers : ~RunStep(w)
    BY <2>1, BooksKept
  <2>2. ASSUME NEW w \in Workers, RunStep(w) PROVE rows' = rows /\ file'.unit = file.unit
    <3>1. wk[w].pc \notin Executing \ {"finish"} /\ wk[w].pc # "idle"
      BY <1>0, <1>1, <2>2, WorkerFrame DEF OneOwner, Executing, IInv
    <3> QED
      BY <2>2, <3>1 DEF Executing, RunStep, WorkerStep, Load, Claim, OpenFile, Replay, RunHead, LoopEnd,
         LoopGo, Dispatch, CallEnd, GiveUp, UnitCommit, Finish, HandleError, Refused, Raise, WorkerCrash, Terminate, db
  <2> QED BY <2>1, <2>2
<1> QED BY <1>2, <1>3

---------------------------------------------------------------------------
(* The theorems *)

(* The invariant at the outset. *)
LEMMA IInvInit == Init => IInv
<1> SUFFICES ASSUME Init PROVE IInv
  OBVIOUS
<1>1. /\ \E cap \in Caps : ev = [status |-> "pending", task |-> None, cap |-> cap]
      /\ \A w \in Workers : wk[w] = IdleWorker
      /\ \A c \in Clients : cl[c] = IdleClient
      /\ \A t \in Tasks : task[t].status = "none"
      /\ \A g \in Gens : queue[g] = 0
      /\ gens = 0 /\ rows = {} /\ spent = 0 /\ late = 0 /\ file = NoFile
  BY DEF Init
<1>2. Settled = {} /\ file.state = "absent"
  BY <1>1 DEF Settled, NoFile
<1>3. TypeOK
  <2>1. ev \in EvRecords
    BY <1>1 DEF EvRecords, EvStates, Live, None
  <2>2. task \in [Tasks -> TaskRecords]
    BY DEF Init, TaskRecords, None
  <2>3. file \in FileRecords
    BY <1>1 DEF FileRecords, NoFile, FileStates
  <2>4. wk \in [Workers -> WorkerRecords] /\ cl \in [Clients -> ClientRecords]
    BY WorkerBegins, ClientFields DEF Init
  <2>5. queue \in [Gens -> Nat] /\ revoked \in SUBSET Gens
        /\ result \in [Gens -> {"pending", "started", "retry", "success", "failure", "revoked"}]
    BY DEF Init
  <2> QED BY <1>1, <2>1, <2>2, <2>3, <2>4, <2>5 DEF Init, TypeOK
<1>4. OneOwner /\ WorkerHolds /\ ClientHolds /\ RowsInOrder /\ LateInv /\ ExecutorInv
  BY <1>1 DEF IdleWorker, IdleClient, OneOwner, WorkerHolds, ClientHolds, RowsInOrder, LateInv, ExecutorInv, Executing
<1>5. Linkage /\ NotFailedIsLinked /\ VerdictsAgree
  BY <1>1 DEF Linkage, NotFailedIsLinked, VerdictsAgree
<1>6. UnitsInv /\ ChargedOnce /\ CompletedIsWhole
  BY <1>1, <1>2, FS_EmptySet DEF IdleWorker, UnitsInv, ChargedOnce, CompletedIsWhole, Executing
<1> QED BY <1>3, <1>4, <1>5, <1>6 DEF IInv

(* Every step keeps the invariant. *)
LEMMA IInvStep == IInv /\ [Next]_vars => IInv'
<1> SUFFICES ASSUME IInv, [Next]_vars PROVE IInv'
  OBVIOUS
<1>1. TypeOK' /\ OneOwner'
  BY TypeStep, OwnerStep DEF IInv
<1>2. WorkerHolds' /\ ClientHolds' /\ RowsInOrder'
  BY WorkerHoldsStep, ClientHoldsStep, RowsInOrderStep
<1>3. Linkage' /\ NotFailedIsLinked' /\ VerdictsAgree'
  BY VerdictStep
<1>4. ExecutorInv' /\ LateInv' /\ UnitsInv' /\ ChargedOnce'
  BY ExecutorStep, LateStep, UnitsStep
<1>5. CompletedIsWhole'
  BY <1>1, CompletedStep
<1> QED BY <1>1, <1>2, <1>3, <1>4, <1>5 DEF IInv

(* Every state the evaluation service, its workers and its broker reach    *)
(* satisfies the invariant. *)
THEOREM InvariantHolds == Spec => []IInv
BY IInvInit, IInvStep, PTL DEF Spec

(* Whatever the API processes, the broker and the workers do, rows,         *)
(* messages, checkpoint and records stay well-formed; no message is taken   *)
(* off the queue that is not in it. *)
THEOREM TypeCorrect == Spec => []TypeOK
BY InvariantHolds, PTL DEF IInv

(* run_evaluation_task holds, from its claim to its last transaction, the   *)
(* generation its task row names, and its task is the linked one. *)
THEOREM ExecutorHolds == Spec => []ExecutorIsCurrent
<1>1. IInv => ExecutorIsCurrent
  BY DEF IInv, ExecutorInv, ExecutorIsCurrent, Executing
<1> QED BY <1>1, InvariantHolds, PTL

(* The statuses that _mirror_evaluation, the worker, cancel_evaluation and  *)
(* _recover_interrupted write never contradict those of the linked task. *)
THEOREM VerdictsHold == Spec => []VerdictsAgree
BY InvariantHolds, PTL DEF IInv

(* on_unit_finished and the replay of a checkpoint charge every confirmed   *)
(* unit once, whatever crashes and redeliveries come between. *)
THEOREM ChargesHold == Spec => []ChargedOnce
BY InvariantHolds, PTL DEF IInv

(* An evaluation that says "completed" has a result for every unit. *)
THEOREM CompletionHolds == Spec => []CompletedIsWhole
BY InvariantHolds, PTL DEF IInv

(* should_pause stops a run before a unit would pass budget_cap_usd, for    *)
(* any cap and any number of units. *)
THEOREM BudgetHolds == Spec => []CapHolds
<1>1. IInv => CapHolds
  BY DEF IInv, UnitsInv, Paid, CapHolds
<1> QED BY <1>1, InvariantHolds, PTL

(* A pause or a cancellation lets at most the one unit go on that was past  *)
(* should_pause. *)
THEOREM StopHolds == Spec => []AtMostOneLateCall
<1>1. IInv => AtMostOneLateCall
  BY DEF IInv, LateInv, AtMostOneLateCall
<1> QED BY <1>1, InvariantHolds, PTL

(* No handler writes over the final status of a task, nor over a completed  *)
(* or cancelled evaluation. *)
THEOREM FinalityHolds == Spec => DecidedIsFinal
<1> DEFINE A == /\ \A t \in Tasks : task[t].status \in Ended => task'[t].status = task[t].status
                /\ ev.status \in {"completed", "cancelled"} => ev'.status \in {ev.status, "deleted"}
<1>1. IInv /\ [Next]_vars => [A]_<<ev, task>>
  BY VerdictStep
<1>2. Spec => [][A]_<<ev, task>>
  BY <1>1, InvariantHolds, PTL DEF Spec
<1> QED BY <1>2 DEF DecidedIsFinal
=============================================================================
