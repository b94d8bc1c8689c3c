-------------------------- MODULE ImportJob_proofs --------------------------
(***************************************************************************)
(* A theorem about ImportJob for any workers, clients, generations and     *)
(* kinds of fault: which verdict the dataset goes with.                    *)
(***************************************************************************)
EXTENDS ImportJob, FiniteSetTheorems, TLAPS

JobStates == Live \cup Ended \cup {"none"}
PCs == {"idle", "got", "wait", "progress", "check", "item", "drain", "merge", "error", "read",
        "ask", "settle", "confirm", "confirmed_not", "refused", "raised"}
Running == {"progress", "check", "item", "drain", "merge", "error", "read", "ask", "settle"}

Tasks == [status : JobStates, gen : Nat, stopped : BOOLEAN]
WorkerRecords == [pc : PCs, gen : Nat, left : BOOLEAN, res : JobStates \cup {"raised"}]
ClientRecords == [pc : {"idle", "enqueue", "send", "unsent", "wait"}, resume : BOOLEAN, gen : Nat]
Txs == [by : Workers \cup Clients \cup {"api", "nobody"}, want : Tasks, prev : JobStates,
        synced : BOOLEAN, own : BOOLEAN, ok : {"idle", "send", "progress", "check", "confirm"},
        bad : {"idle", "raised", "error", "confirmed_not"}]

(* What the theorem asks of the constants: a process is of one sort. *)
Sorts == /\ MaxGens \in Nat /\ Workers \cap Clients = {}
         /\ {"api", "nobody"} \cap (Workers \cup Clients) = {}

Types ==
  /\ job \in JobStates /\ task \in Tasks /\ tx \in Txs /\ gens \in 0 .. MaxGens
  /\ undo \subseteq [expected : JobStates, previous : JobStates \ {"none"}]
  /\ wk \in [Workers -> WorkerRecords] /\ cl \in [Clients -> ClientRecords]
  /\ msgs \in [Gens -> Int] /\ outcome \in [Gens -> {"none", "failed", "cancelled"}]
  /\ merged \in Nat

(* Nobody holds a generation that the task has not had, and before there   *)
(* is a task only the one request that created the job is under way.       *)
GensInv ==
  /\ task.gen <= gens /\ (task.status = "none" <=> task.gen = 0)
  /\ \A w \in Workers : wk[w].pc # "idle" => wk[w].gen \in 1 .. task.gen
  /\ \A g \in Gens : msgs[g] > 0 => g <= task.gen
  /\ \A c \in Clients : cl[c].pc \in {"send", "unsent"} => cl[c].gen <= task.gen
  /\ \A c \in Clients : cl[c].pc = "enqueue" => task.status = "none" /\ job # "none"
  /\ \A c, d \in Clients : cl[c].pc = "enqueue" /\ cl[d].pc = "enqueue" => c = d
  /\ job = "none" => task.status = "none"

(* The transaction that holds the task row: who opened it, and what it may *)
(* ask of the row as it is.                                                *)
TxInv ==
  /\ \A w \in Workers : wk[w].pc = "wait" <=> tx.by = w
  /\ \A c \in Clients : tx.by = c => cl[c].pc = "wait"
  /\ tx.by # "nobody" =>
       /\ task.status \in Live /\ tx.prev # "none" /\ tx.want.status # "none"
       /\ tx.want.gen <= gens /\ (~tx.synced => tx.want.status # "completed")
       /\ tx.want.status = "running" => tx.ok \in {"progress", "check", "confirm"}
       /\ tx.want.status = "pending" => tx.ok = "send"
       /\ IF tx.ok = "send"
          THEN /\ tx.by \in Clients /\ cl[tx.by].gen = tx.want.gen
               /\ task.stopped /\ tx.want.gen > task.gen
          ELSE tx.want.gen = task.gen
       /\ tx.ok = "progress" => /\ tx.by \in Workers /\ wk[tx.by].gen = task.gen
                                /\ task.status = "pending" /\ ~tx.want.stopped
       /\ tx.ok \in {"check", "confirm"} => /\ tx.by \in Workers /\ wk[tx.by].gen = task.gen
                                            /\ task.status = "running"
       /\ tx.ok \in {"idle", "check", "confirm"} => (tx.want.stopped => task.stopped)
       /\ tx.ok = "idle" => tx.by \notin Workers
       /\ tx.bad = CASE tx.ok = "progress" -> "raised" [] tx.ok = "check" -> "error"
                     [] tx.ok = "confirm" -> "confirmed_not" [] OTHER -> "idle"

(* The worker has claimed its generation and still decides about the job. *)
Executing(w) == wk[w].pc \in Running \/ (wk[w].pc = "wait" /\ tx.ok \in {"check", "confirm"})
Claimed(w)   == Executing(w) \/ wk[w].pc \in {"confirm", "confirmed_not"}

(* Who executes has claimed the current generation, alone. *)
ClaimInv ==
  /\ \A w \in Workers : Executing(w) =>
       task.status \notin {"none", "pending"} /\ ~task.stopped /\ task.gen = wk[w].gen
  /\ \A v, w \in Workers : Claimed(v) /\ Claimed(w) /\ wk[v].gen = wk[w].gen => v = w
  /\ task.status = "pending" => \A w \in Workers : Claimed(w) => wk[w].gen # task.gen

(* As long as no commit was refused, the job runs only for a task that     *)
(* runs, or that is about to stop running.                                 *)
JobInv ==
  /\ merged > 0 => merged = 1 /\ job = "completed"
  /\ \A u \in undo : u.expected # "completed"
  /\ "commit" \notin faults =>
       /\ undo = {}
       /\ task.status \in {"failed", "cancelled"} => job # "running" /\ merged = 0
       /\ tx.by # "nobody" /\ job = "running" =>
            IF tx.synced THEN tx.want.status = "running" ELSE tx.prev = "running"
       /\ tx.by # "nobody" /\ tx.synced =>
            /\ tx.own => job # "completed"
            /\ tx.want.status \in {"failed", "cancelled"} => merged = 0

IInv == Types /\ GensInv /\ TxInv /\ ClaimInv /\ JobInv

---------------------------------------------------------------------------
(* What most steps do to the workers, to the clients and to the broker *)

(* No worker gets a generation, none begins to execute. *)
WorkersFrame ==
  /\ wk' \in [Workers -> WorkerRecords]
  /\ \A w \in Workers :
       /\ wk'[w].pc # "idle" => wk[w].pc # "idle" /\ wk'[w].gen = wk[w].gen
       /\ Executing(w)' => Executing(w)
       /\ Claimed(w)' => Claimed(w)
       /\ wk'[w].pc = "wait" <=> tx'.by = w

(* No client gets a generation, none creates the job. *)
ClientsFrame ==
  /\ cl' \in [Clients -> ClientRecords]
  /\ \A c \in Clients :
       /\ cl'[c].pc \in {"send", "unsent"} => cl[c].pc \in {"send", "unsent"} /\ cl'[c].gen = cl[c].gen
       /\ cl'[c].pc = "enqueue" => cl[c].pc = "enqueue"

(* No message that was not there. *)
BrokerFrame ==
  /\ msgs' \in [Gens -> Int] /\ outcome' \in [Gens -> {"none", "failed", "cancelled"}]
  /\ \A g \in Gens : msgs'[g] > 0 => msgs[g] > 0

(* Without a new verdict the job may be paused or may fail. *)
JobFrame ==
  /\ job' = job \/ (job \in {"pending", "running"} /\ job' \in {"failed", "paused"})
  /\ undo' \subseteq undo /\ merged' = merged /\ ("commit" \in faults => "commit" \in faults')

(* The transaction stays as it is, or it is gone. *)
TxFrame ==
  /\ tx' = tx \/ tx' = NoTx
  /\ \A c \in Clients : tx'.by = c => cl'[c] = cl[c]

Quiet == /\ WorkersFrame /\ ClientsFrame /\ BrokerFrame /\ JobFrame /\ TxFrame
         /\ UNCHANGED <<task, gens>>

(* There is no transaction. *)
LEMMA NoTxFacts ==
  ASSUME Sorts
  PROVE  /\ NoTx \in Txs /\ NoTx.by = "nobody" /\ NoTx.by \notin Workers \cup Clients
         /\ ~NoTx.synced /\ ~NoTx.own
  BY DEF NoTx, NoTask, Txs, Tasks, JobStates, Sorts

(* The types hold after a quiet step. *)
LEMMA TypesQuiet ==
  ASSUME Sorts, Types, Quiet
  PROVE  Types'
<1>1. tx' \in Txs
  BY NoTxFacts DEF Types, Quiet, TxFrame
<1>2. job' \in JobStates
  BY DEF Types, Quiet, JobFrame, JobStates, Live, Ended
<1> QED
  BY <1>1, <1>2 DEF Types, Quiet, WorkersFrame, ClientsFrame, BrokerFrame, JobFrame

(* So does what is said of the generations, ... *)
LEMMA GensKept ==
  ASSUME Types, GensInv, WorkersFrame, ClientsFrame, BrokerFrame, task' = task,
         gens' \in Nat, gens <= gens', job' = "none" <=> job = "none"
  PROVE  GensInv'
<1>1. task.gen \in Nat /\ gens \in Nat
  BY DEF Types, Tasks
<1> QED
  BY <1>1 DEF GensInv, WorkersFrame, ClientsFrame, BrokerFrame

(* ... of the claims ... *)
LEMMA ClaimKept ==
  ASSUME ClaimInv, WorkersFrame, task' = task
  PROVE  ClaimInv'
<1>1. \A w \in Workers : Claimed(w)' => Claimed(w) /\ wk'[w].gen = wk[w].gen
  BY DEF WorkersFrame, Claimed, Executing, Running
<1>2. \A w \in Workers : Executing(w)' => Executing(w) /\ wk'[w].gen = wk[w].gen
  BY DEF WorkersFrame, Executing, Running
<1> QED
  BY <1>1, <1>2 DEF ClaimInv

(* ... of the transaction ... *)
LEMMA TxQuiet ==
  ASSUME Sorts, Types, TxInv, Quiet
  PROVE  TxInv'
<1>1. CASE tx' = NoTx
  BY <1>1, NoTxFacts DEF TxInv, Quiet, WorkersFrame
<1>2. CASE tx' = tx
  <2>1. \A w \in Workers : tx.by = w => wk'[w].gen = wk[w].gen /\ wk'[w].pc = "wait"
    BY <1>2 DEF Quiet, WorkersFrame
  <2>2. \A c \in Clients : tx.by = c => cl'[c] = cl[c]
    BY <1>2 DEF Quiet, TxFrame
  <2> QED BY <1>2, <2>1, <2>2 DEF TxInv, Quiet, WorkersFrame
<1> QED
  BY <1>1, <1>2 DEF Quiet, TxFrame

(* ... and of the job, also when a transaction begins. *)
LEMMA JobKept ==
  ASSUME Types, JobInv, JobFrame, task'.status = task.status,
         \/ tx' = tx \/ tx'.by = "nobody"
         \/ ~tx'.synced /\ tx'.prev = job /\ job' = job
  PROVE  JobInv'
<1>1. "commit" \notin faults' => "commit" \notin faults
  BY DEF JobFrame
<1>2. job' \in {"running", "none", "completed"} => job' = job
  BY DEF JobFrame
<1>3. job = "completed" => job' = job
  BY DEF JobFrame
<1>4. \A u \in undo' : u \in undo
  BY DEF JobFrame
<1>5. "commit" \notin faults' => undo' = {}
  BY <1>1, <1>4 DEF JobInv
<1>6. merged' = merged
  BY DEF JobFrame
<1> QED
  BY <1>1, <1>2, <1>3, <1>4, <1>5, <1>6 DEF JobInv

(* A quiet step keeps the invariant. *)
LEMMA QuietKeeps ==
  ASSUME Sorts, IInv, Quiet
  PROVE  IInv'
<1>1. job' = "none" <=> job = "none"
  BY DEF Quiet, JobFrame
<1>2. GensInv'
  BY <1>1, GensKept DEF IInv, Quiet, Types
<1>3. ClaimInv'
  BY ClaimKept DEF IInv, Quiet
<1>4. JobInv'
  BY JobKept, NoTxFacts DEF IInv, Quiet, TxFrame
<1> QED
  BY <1>2, <1>3, <1>4, TypesQuiet, TxQuiet DEF IInv

---------------------------------------------------------------------------
(* The quiet steps *)

(* A worker moves on, outside of any transaction, and executes no more     *)
(* than before.                                                            *)
LEMMA MoveFrame ==
  ASSUME Types, TxInv, NEW w \in Workers, NEW r \in WorkerRecords,
         wk' = [wk EXCEPT ![w] = r], tx' = tx, wk[w].pc # "wait", r.pc # "wait",
         r.pc = "idle" \/ (wk[w].pc # "idle" /\ r.gen = wk[w].gen),
         r.pc \in Running => Executing(w),
         r.pc \in {"confirm", "confirmed_not"} => Claimed(w)
  PROVE  WorkersFrame
<1>1. wk' \in [Workers -> WorkerRecords] /\ wk'[w] = r
  BY DEF Types
<1>2. \A v \in Workers : v # w => wk'[v] = wk[v]
  BY DEF Types
<1>3. \A v \in Workers : wk'[v].pc = "wait" <=> tx'.by = v
  BY <1>1, <1>2 DEF TxInv
<1> QED
  BY <1>1, <1>2, <1>3 DEF WorkersFrame, Executing, Claimed

(* The same for a step that changes nothing but the place. *)
LEMMA GoFrame ==
  ASSUME Types, TxInv, NEW w \in Workers, NEW pc \in PCs, Go(w, pc), tx' = tx,
         wk[w].pc \notin {"wait", "idle"}, pc # "wait",
         pc \in Running => Executing(w),
         pc \in {"confirm", "confirmed_not"} => Claimed(w)
  PROVE  WorkersFrame
<1> DEFINE r == [wk[w] EXCEPT !.pc = pc]
<1>1. r \in WorkerRecords /\ r.pc = pc /\ r.gen = wk[w].gen
  BY DEF Types, WorkerRecords
<1>2. wk' = [wk EXCEPT ![w] = r]
  BY DEF Go
<1> HIDE DEF r
<1> QED
  BY <1>1, <1>2, MoveFrame

(* The workers stay as they are, and the transaction with them. *)
LEMMA IdleFrame == ASSUME Types, TxInv, wk' = wk, tx' = tx PROVE WorkersFrame
  BY DEF Types, TxInv, WorkersFrame, Executing, Claimed

(* A worker dies or returns; its transaction is rolled back. *)
LEMMA FreeFrame ==
  ASSUME Sorts, Types, TxInv, NEW w \in Workers, wk' = [wk EXCEPT ![w] = Free],
         tx' = IF tx.by = w THEN NoTx ELSE tx
  PROVE  WorkersFrame
<1>1. Free \in WorkerRecords /\ Free.pc = "idle"
  BY DEF Free, WorkerRecords, PCs, JobStates
<1>2. wk' \in [Workers -> WorkerRecords] /\ wk'[w] = Free
  BY <1>1 DEF Types
<1>3. \A v \in Workers : v # w => wk'[v] = wk[v]
  BY DEF Types
<1>4. \A v \in Workers : wk'[v].pc = "wait" <=> tx'.by = v
  BY <1>1, <1>2, <1>3, NoTxFacts DEF TxInv
<1>5. \A v \in Workers : v # w /\ wk[v].pc = "wait" => tx' = tx
  BY DEF TxInv
<1> QED
  BY <1>1, <1>2, <1>3, <1>4, <1>5 DEF WorkersFrame, Executing, Claimed, Running

(* The clients stay as they are. *)
LEMMA ClientsIdle == ASSUME Types, cl' = cl PROVE ClientsFrame
  BY DEF Types, ClientsFrame

(* So does the broker. *)
LEMMA BrokerIdle == ASSUME Types, UNCHANGED <<msgs, outcome>> PROVE BrokerFrame
  BY DEF Types, BrokerFrame

(* Counting a message off keeps the counts counts. *)
LEMMA CountDown ==
  ASSUME NEW f \in [Gens -> Int], NEW h
  PROVE  /\ [f EXCEPT ![h] = @ - 1] \in [Gens -> Int]
         /\ \A g \in Gens : [f EXCEPT ![h] = @ - 1][g] > 0 => f[g] > 0
<1> DEFINE q == [f EXCEPT ![h] = @ - 1]
<1>1. q = [g \in Gens |-> IF g = h THEN f[g] - 1 ELSE f[g]]
  OBVIOUS
<1>2. \A g \in Gens : f[g] \in Int /\ f[g] - 1 \in Int
  OBVIOUS
<1> HIDE DEF q
<1>3. q \in [Gens -> Int]
  BY <1>1, <1>2
<1>4. \A g \in Gens : q[g] = IF g = h THEN f[g] - 1 ELSE f[g]
  BY <1>1
<1> QED
  BY <1>2, <1>3, <1>4 DEF q

(* An acknowledgement is within the frames. *)
LEMMA AckFrame ==
  ASSUME Sorts, Types, TxInv, NEW w \in Workers, NEW o \in {"none", "failed", "cancelled"}, Ack(w, o),
         tx' = IF tx.by = w THEN NoTx ELSE tx
  PROVE  WorkersFrame /\ BrokerFrame /\ gens' = gens
<1>1. /\ wk' = [wk EXCEPT ![w] = Free] /\ msgs' = [msgs EXCEPT ![wk[w].gen] = @ - 1]
      /\ outcome' = [outcome EXCEPT ![wk[w].gen] = o] /\ gens' = gens
  BY DEF Ack
<1>2. msgs' \in [Gens -> Int] /\ \A g \in Gens : msgs'[g] > 0 => msgs[g] > 0
  BY <1>1, CountDown DEF Types
<1>3. outcome' \in [Gens -> {"none", "failed", "cancelled"}]
  BY <1>1 DEF Types
<1> QED
  BY <1>1, <1>2, <1>3, FreeFrame DEF BrokerFrame

(* A worker goes on by itself. *)
LEMMA WorkStep ==
  ASSUME Sorts, IInv, NEW w \in Workers,
         \/ Check(w) \/ Item(w) \/ Drain(w) \/ Raise(w) \/ FailJob(w) \/ ReadJob(w) \/ Ask(w)
  PROVE  IInv'
<1> USE DEF IInv
<1>1. UNCHANGED <<task, tx, undo, gens, msgs, outcome, cl, merged>> /\ faults \subseteq faults'
  BY DEF Check, Item, Drain, Raise, FailJob, ReadJob, Ask, Fault, broker
<1>2. WorkersFrame
  <2>1. CASE Check(w)
    <3> DEFINE pc == CASE Stopped(w) -> "drain" [] ~Stopped(w) /\ wk[w].left -> "item"
                       [] OTHER -> "merge"
    <3>1. pc \in {"drain", "item", "merge"} /\ Go(w, pc) /\ wk[w].pc = "check"
      BY <2>1 DEF Check
    <3> HIDE DEF pc
    <3> QED BY <1>1, <3>1, GoFrame DEF Executing, Running, PCs
  <2>2. CASE Item(w)
    <3> DEFINE r == [wk[w] EXCEPT !.pc = "progress", !.left = FALSE]
    <3>1. r \in WorkerRecords /\ r.pc = "progress" /\ r.gen = wk[w].gen
      BY DEF Types, WorkerRecords, PCs
    <3>2. wk' = [wk EXCEPT ![w] = r] /\ wk[w].pc = "item"
      BY <2>2 DEF Item, Types, WorkerRecords
    <3> HIDE DEF r
    <3> QED BY <1>1, <3>1, <3>2, MoveFrame DEF Executing, Running
  <2>3. CASE Drain(w) \/ FailJob(w) \/ Raise(w)
    BY <1>1, <2>3, GoFrame DEF Drain, FailJob, Raise, Executing, Running, PCs
  <2>4. CASE ReadJob(w)
    <3> PICK res \in JobStates \cup {"raised"} :
          wk[w].pc = "read" /\ wk' = [wk EXCEPT ![w].pc = "ask", ![w].res = res]
      BY <2>4 DEF ReadJob, Types
    <3> DEFINE r == [wk[w] EXCEPT !.pc = "ask", !.res = res]
    <3>1. r \in WorkerRecords /\ r.pc = "ask" /\ r.gen = wk[w].gen
      BY DEF Types, WorkerRecords, PCs
    <3>2. wk' = [wk EXCEPT ![w] = r]
      BY DEF Types, WorkerRecords
    <3> HIDE DEF r
    <3> QED BY <1>1, <3>1, <3>2, MoveFrame DEF Executing, Running
  <2>5. CASE Ask(w)
    <3> DEFINE pc == IF wk[w].res = "paused" \/ Stopped(w) THEN "confirm" ELSE "settle"
    <3>1. pc \in {"confirm", "settle"} /\ Go(w, pc) /\ wk[w].pc = "ask"
      BY <2>5 DEF Ask
    <3> HIDE DEF pc
    <3> QED BY <1>1, <3>1, GoFrame DEF Executing, Claimed, Running, PCs
  <2> QED BY <2>1, <2>2, <2>3, <2>4, <2>5
<1>3. job' = job \/ (job \in {"pending", "running"} /\ job' \in {"failed", "paused"})
  BY DEF Check, Item, Drain, Raise, FailJob, ReadJob, Ask
<1> QED
  BY <1>1, <1>2, <1>3, ClientsIdle, BrokerIdle, QuietKeeps DEF Quiet, JobFrame, TxFrame

(* The task does not want what the worker asks for. *)
LEMMA DeclineStep ==
  ASSUME Sorts, IInv, NEW w \in Workers, UNCHANGED tx, Claim(w) \/ Progress(w) \/ Settle(w)
  PROVE  IInv'
<1> USE DEF IInv
<1>1. UNCHANGED <<job, task, undo, gens, msgs, outcome, cl, merged, faults>> /\ tx.by = "nobody"
  BY DEF Claim, Progress, Settle, broker
<1>2. /\ ~Open(w, [task EXCEPT !.status = "running", !.stopped = FALSE], "progress", "raised")
      /\ ~Open(w, task, "check", "error")
      /\ \A t : ~Open(w, t, "confirm", "confirmed_not")
  BY <1>1, NoTxFacts DEF Open, NoTx, Sorts
<1>3. \/ wk[w].pc = "got" /\ Go(w, "refused")
      \/ wk[w].pc = "progress" /\ Go(w, "check")
      \/ wk[w].pc = "settle" /\ Go(w, "confirm")
  BY <1>2 DEF Claim, Progress, Settle
<1>4. WorkersFrame
  BY <1>3, GoFrame DEF Executing, Claimed, Running, PCs
<1> QED
  BY <1>1, <1>4, ClientsIdle, BrokerIdle, QuietKeeps DEF Quiet, JobFrame, TxFrame

(* A worker returns, is terminated or dies. *)
LEMMA ReturnStep ==
  ASSUME Sorts, IInv, NEW w \in Workers, Return(w) \/ WorkerDies(w) \/ Terminate(w)
  PROVE  IInv'
<1> USE DEF IInv
<1>1. UNCHANGED <<job, task, undo, gens, cl, merged>> /\ faults \subseteq faults'
  BY DEF Return, WorkerDies, Terminate, Ack, Fault, broker
<1>2. tx' = IF tx.by = w THEN NoTx ELSE tx
  BY DEF Return, WorkerDies, Terminate, TxInv
<1>3. WorkersFrame /\ BrokerFrame
  BY <1>2, AckFrame, FreeFrame, BrokerIdle DEF Return, WorkerDies, Terminate, broker
<1>4. TxFrame
  BY <1>1, <1>2 DEF TxFrame
<1> QED
  BY <1>1, <1>3, <1>4, ClientsIdle, QuietKeeps DEF Quiet, JobFrame

(* A revoked message is dropped, or one is delivered once more. *)
LEMMA MessageStep ==
  ASSUME Sorts, IInv, NEW g \in Gens, Repeat(g) \/ (g \in revoked /\ \E w \in Workers : Take(w, g))
  PROVE  IInv'
<1> USE DEF IInv
<1>1. UNCHANGED <<job, task, tx, undo, gens, wk, cl, merged>> /\ faults \subseteq faults'
  BY DEF Repeat, Take, Fault
<1>2. ASSUME Repeat(g) PROVE BrokerFrame
  <2>1. msgs[g] > 0 /\ msgs' = [msgs EXCEPT ![g] = @ + 1] /\ outcome' = outcome
    BY <1>2 DEF Repeat
  <2>2. \A h \in Gens : msgs'[h] \in Int /\ (msgs'[h] > 0 => msgs[h] > 0)
    BY <2>1 DEF Types
  <2> QED BY <2>1, <2>2 DEF BrokerFrame, Types
<1>3. ASSUME g \in revoked, \E w \in Workers : Take(w, g) PROVE BrokerFrame
  <2>1. msgs' = [msgs EXCEPT ![g] = @ - 1] /\ outcome' = [outcome EXCEPT ![g] = "cancelled"]
    BY <1>3 DEF Take
  <2>2. msgs' \in [Gens -> Int] /\ \A h \in Gens : msgs'[h] > 0 => msgs[h] > 0
    BY <2>1, CountDown DEF Types
  <2> QED BY <2>1, <2>2 DEF BrokerFrame, Types
<1>4. BrokerFrame
  BY <1>2, <1>3
<1> QED
  BY <1>1, <1>4, ClientsIdle, IdleFrame, QuietKeeps DEF Quiet, JobFrame, TxFrame

(* Leave ends the transaction and tells who opened it where to go on. *)
LEMMA LeaveFacts ==
  ASSUME Sorts, Types, TxInv, NEW pc \in PCs \cup {"send"}, Leave(pc), tx.by # "nobody",
         tx.by \in Workers => pc \in PCs
  PROVE  /\ tx' = NoTx
         /\ \A w \in Workers : wk'[w] = IF tx.by = w THEN [wk[w] EXCEPT !.pc = pc] ELSE wk[w]
         /\ wk' \in [Workers -> WorkerRecords]
         /\ \A c \in Clients : cl'[c] = IF tx.by # c THEN cl[c]
                                        ELSE IF pc = "idle" THEN NoCall ELSE [cl[c] EXCEPT !.pc = pc]
         /\ tx.by \notin Clients => cl' = cl
         /\ cl' = [c \in Clients |-> cl'[c]]
<1> USE DEF Types
<1>1. tx' = NoTx
  BY DEF Leave
<1>2. wk' = IF tx.by \in Workers THEN [wk EXCEPT ![tx.by].pc = pc] ELSE wk
  BY DEF Leave
<1>3. \A w \in Workers : wk'[w] = IF tx.by = w THEN [wk[w] EXCEPT !.pc = pc] ELSE wk[w]
  BY <1>2
<1>4. wk' \in [Workers -> WorkerRecords]
  <2>1. \A w \in Workers : tx.by = w => [wk[w] EXCEPT !.pc = pc] \in WorkerRecords
    BY DEF WorkerRecords
  <2>2. wk' = [w \in Workers |-> wk'[w]]
    BY <1>2
  <2>3. \A w \in Workers : wk'[w] \in WorkerRecords
    BY <1>3, <2>1
  <2> QED BY <2>2, <2>3
<1>5. cl' = CASE tx.by \in Clients /\ pc = "idle" -> [cl EXCEPT ![tx.by] = NoCall]
              [] tx.by \in Clients /\ pc # "idle" -> [cl EXCEPT ![tx.by].pc = pc]
              [] OTHER -> cl
  BY DEF Leave
<1>6. CASE tx.by \in Clients /\ pc = "idle"
  <2>1. cl' = [cl EXCEPT ![tx.by] = NoCall]
    BY <1>5, <1>6
  <2> QED BY <1>1, <1>3, <1>4, <1>6, <2>1
<1>7. CASE tx.by \in Clients /\ pc # "idle"
  <2>1. cl' = [cl EXCEPT ![tx.by].pc = pc]
    BY <1>5, <1>7
  <2> QED BY <1>1, <1>3, <1>4, <1>7, <2>1
<1>8. CASE tx.by \notin Clients
  <2>1. cl' = cl
    BY <1>5, <1>8
  <2> QED BY <1>1, <1>3, <1>4, <1>8, <2>1
<1> QED
  BY <1>6, <1>7, <1>8

(* A client's record changes, outside of any transaction. *)
LEMMA CallFrame ==
  ASSUME Types, NEW c \in Clients, NEW r \in ClientRecords, cl' = [cl EXCEPT ![c] = r],
         r.pc \in {"send", "unsent"} => cl[c].pc \in {"send", "unsent"} /\ r.gen = cl[c].gen,
         r.pc # "enqueue"
  PROVE  ClientsFrame
<1>1. cl' \in [Clients -> ClientRecords] /\ cl'[c] = r
  BY DEF Types
<1>2. \A d \in Clients : d # c => cl'[d] = cl[d]
  BY DEF Types
<1> QED
  BY <1>1, <1>2 DEF ClientsFrame

(* An API process times the job out, gives up a publication or dies. *)
LEMMA ApiStep ==
  ASSUME Sorts, IInv, \/ TimeOut \/ ApiDies \/ UNCHANGED importVars
                      \/ \E c \in Clients : PublishFailed(c) /\ UNCHANGED tx
  PROVE  IInv'
<1> USE DEF IInv
<1>c. NoCall \in ClientRecords /\ NoCall.pc = "idle"
  BY DEF NoCall, ClientRecords
<1>1. CASE TimeOut \/ UNCHANGED importVars
  BY <1>1, ClientsIdle, BrokerIdle, IdleFrame, QuietKeeps
     DEF TimeOut, Fault, importVars, broker, Quiet, JobFrame, TxFrame
<1>2. ASSUME NEW c \in Clients, PublishFailed(c), UNCHANGED tx PROVE IInv'
  <2>1. tx.by = "nobody" /\ UNCHANGED <<job, task, undo, broker, wk, merged, faults>>
    BY <1>2 DEF PublishFailed
  <2>2. ~Open(c, [task EXCEPT !.status = "failed"], "idle", "idle")
    BY <1>2, <2>1, NoTxFacts DEF Open, NoTx, Sorts
  <2>3. cl' = [cl EXCEPT ![c] = NoCall]
    BY <1>2, <2>2 DEF PublishFailed
  <2>4. ClientsFrame
    BY <1>c, <2>3, CallFrame
  <2>5. \A d \in Clients : tx.by # d
    BY <2>1, NoTxFacts DEF Sorts
  <2> QED
    BY <1>2, <2>1, <2>4, <2>5, BrokerIdle, IdleFrame, QuietKeeps DEF broker, Quiet, JobFrame, TxFrame
<1>3. ASSUME ApiDies, tx.by \in Clients \cup {"api"}, Leave("idle"), UNCHANGED undo PROVE IInv'
  <2>1. UNCHANGED <<job, task, broker, merged>> /\ faults \subseteq faults'
    BY <1>3 DEF ApiDies, Fault
  <2>2. "idle" \in PCs /\ tx.by # "nobody" /\ tx.by \notin Workers
    BY <1>3 DEF PCs, Sorts
  <2>3. /\ tx' = NoTx /\ \A w \in Workers : wk'[w] = wk[w]
        /\ wk' \in [Workers -> WorkerRecords]
        /\ \A c \in Clients : cl'[c] = IF tx.by # c THEN cl[c] ELSE NoCall
        /\ cl' = [c \in Clients |-> cl'[c]]
    BY <1>3, <2>2, LeaveFacts
  <2>4. WorkersFrame
    BY <2>2, <2>3, NoTxFacts DEF WorkersFrame, Executing, Claimed, TxInv
  <2>5. \A c \in Clients : cl'[c] \in ClientRecords
    BY <1>c, <2>3 DEF Types
  <2>6. cl' \in [Clients -> ClientRecords]
    BY <2>3, <2>5
  <2>7. ClientsFrame
    BY <1>c, <2>3, <2>6 DEF ClientsFrame
  <2>8. TxFrame
    BY <2>3, NoTxFacts DEF TxFrame
  <2>9. BrokerFrame /\ UNCHANGED <<job, task, gens, merged>>
    BY <2>1, BrokerIdle DEF broker
  <2> QED
    BY <1>3, <2>1, <2>4, <2>7, <2>8, <2>9, QuietKeeps DEF Quiet, JobFrame
<1>4. ASSUME ApiDies, undo' \subseteq undo, UNCHANGED <<tx, wk, cl>> PROVE IInv'
  BY <1>4, ClientsIdle, BrokerIdle, IdleFrame, QuietKeeps
     DEF ApiDies, Fault, broker, Quiet, JobFrame, TxFrame
<1>5. ASSUME ApiDies, NEW c \in Clients, cl[c].pc \notin {"idle", "wait"},
             cl' = [cl EXCEPT ![c] = NoCall], UNCHANGED <<tx, wk, undo>>
      PROVE  IInv'
  <2>1. ClientsFrame
    BY <1>c, <1>5, CallFrame
  <2>2. \A d \in Clients : tx.by = d => cl'[d] = cl[d]
    BY <1>5 DEF TxInv, Types
  <2> QED
    BY <1>5, <2>1, <2>2, BrokerIdle, IdleFrame, QuietKeeps
       DEF ApiDies, Fault, broker, Quiet, JobFrame, TxFrame
<1> QED
  BY <1>1, <1>2, <1>3, <1>4, <1>5 DEF ApiDies

---------------------------------------------------------------------------
(* The workers' other steps *)

(* A worker takes a message of a generation that the task has had. *)
LEMMA TakeStep ==
  ASSUME Sorts, IInv, NEW w \in Workers, NEW g \in Gens, Take(w, g), g \notin revoked, IsFiniteSet(Workers)
  PROVE  IInv'
<1> USE DEF IInv
<1>0. Busy(g) \in Nat
  BY FS_Subset, FS_CardinalityType DEF Busy
<1> DEFINE r == [pc |-> "got", gen |-> g, left |-> TRUE, res |-> "none"]
<1>1. /\ UNCHANGED <<job, task, tx, undo, gens, msgs, outcome, cl, merged, faults>>
      /\ wk' = [wk EXCEPT ![w] = r] /\ wk[w].pc = "idle" /\ msgs[g] > 0
  BY <1>0 DEF Take, Types, Gens
<1>2. r \in WorkerRecords /\ r.pc = "got" /\ r.gen = g /\ g \in 1 .. task.gen
  BY <1>1 DEF WorkerRecords, PCs, JobStates, Gens, GensInv, Types, Tasks
<1> HIDE DEF r
<1>3. /\ wk' \in [Workers -> WorkerRecords] /\ wk'[w] = r
      /\ \A v \in Workers : v # w => wk'[v] = wk[v]
  BY <1>1, <1>2 DEF Types
<1>4. Types'
  BY <1>1, <1>3 DEF Types
<1>5. GensInv'
  BY <1>1, <1>2, <1>3 DEF GensInv
<1>6. TxInv'
  <2>1. tx.by # w
    BY <1>1 DEF TxInv
  <2> QED BY <1>1, <1>2, <1>3, <2>1 DEF TxInv
<1>7. \A v \in Workers : Claimed(v)' => v # w /\ Claimed(v)
  BY <1>1, <1>2, <1>3 DEF Claimed, Executing, Running
<1>8. \A v \in Workers : Executing(v)' => v # w /\ Executing(v)
  BY <1>1, <1>2, <1>3 DEF Executing, Running
<1>9. ClaimInv'
  BY <1>1, <1>3, <1>7, <1>8 DEF ClaimInv
<1>10. JobInv'
  BY <1>1, JobKept DEF JobFrame
<1> QED
  BY <1>4, <1>5, <1>6, <1>9, <1>10

(* Only an executor merges, of which there is one; it does so while nobody *)
(* is about to set the job running.                                        *)
LEMMA MergeStep ==
  ASSUME Sorts, IInv, NEW w \in Workers, Merge(w)
  PROVE  IInv'
<1> USE DEF IInv
<1>1. UNCHANGED <<task, tx, undo, gens, msgs, outcome, cl, faults>> /\ wk[w].pc = "merge"
  BY DEF Merge, broker
<1>2. \/ job = "running" /\ job' = "completed" /\ merged' = merged + 1 /\ Go(w, "read")
      \/ Go(w, "error") /\ UNCHANGED <<job, merged>>
  BY DEF Merge, MayMerge
<1>3. WorkersFrame
  BY <1>1, <1>2, GoFrame DEF Executing, Running, PCs
<1>4. ClientsFrame /\ BrokerFrame
  BY <1>1, ClientsIdle, BrokerIdle
<1>5. job' \in JobStates /\ merged' \in Nat /\ (job' = "none" <=> job = "none")
  BY <1>2 DEF Types, JobStates, Ended
<1>6. Types'
  BY <1>1, <1>3, <1>5 DEF Types, WorkersFrame
<1>7. GensInv' /\ ClaimInv'
  BY <1>1, <1>3, <1>4, <1>5, GensKept, ClaimKept DEF Types
<1>8. TxInv'
  <2>1. \A v \in Workers : tx.by = v => wk'[v].gen = wk[v].gen
    BY <1>1, <1>3 DEF WorkersFrame
  <2> QED BY <1>1, <1>3, <2>1 DEF TxInv, WorkersFrame
<1>9. CASE UNCHANGED <<job, merged>>
  BY <1>1, <1>6, <1>7, <1>8, <1>9, JobKept DEF JobFrame
<1>10. ASSUME job = "running", job' = "completed", merged' = merged + 1 PROVE JobInv'
  <2>1. task.status # "pending" /\ Executing(w)
    BY <1>1 DEF ClaimInv, Executing, Running
  <2>2. merged = 0
    BY <1>10 DEF JobInv, Types
  <2>3. ASSUME "commit" \notin faults, tx.by # "nobody", tx.synced PROVE ~tx.own
    <3>1. tx.want.status = "running"
      BY <1>10, <2>3 DEF JobInv
    <3>2. tx.ok \in {"check", "confirm"} /\ tx.by \in Workers /\ wk[tx.by].gen = task.gen
      BY <2>1, <2>3, <3>1 DEF TxInv
    <3>3. wk[tx.by].pc = "wait"
      BY <3>2 DEF TxInv
    <3>4. Executing(tx.by)
      BY <3>2, <3>3 DEF Executing
    <3>5. wk[w].gen = wk[tx.by].gen
      BY <2>1, <3>2, <3>4 DEF ClaimInv
    <3>6. tx.by = w
      BY <2>1, <3>2, <3>4, <3>5 DEF ClaimInv, Claimed
    <3> QED BY <1>1, <3>3, <3>6
  <2>4. "commit" \notin faults => task.status \notin {"failed", "cancelled"}
    BY <1>10 DEF JobInv
  <2>5. "commit" \notin faults /\ tx.by # "nobody" /\ tx.synced => tx.want.status = "running"
    BY <1>10 DEF JobInv
  <2> QED BY <1>1, <1>10, <2>2, <2>3, <2>4, <2>5 DEF JobInv
<1> QED
  BY <1>2, <1>6, <1>7, <1>8, <1>9, <1>10

(* Who confirms has claimed the generation, so that nobody executes it. *)
LEMMA ConfirmStep ==
  ASSUME Sorts, IInv, NEW w \in Workers, Confirm(w)
  PROVE  IInv'
<1> USE DEF IInv
<1>1. /\ UNCHANGED <<job, tx, undo, gens, msgs, outcome, cl, merged, faults>>
      /\ wk[w].pc \in {"confirm", "confirmed_not"} /\ tx.by = "nobody"
  BY DEF Confirm, broker
<1>2. \E pc \in {"refused", "raised"} : Go(w, pc)
  BY DEF Confirm
<1>3. PICK pc \in {"refused", "raised"} : Go(w, pc)
  BY <1>2
<1>4. WorkersFrame
  BY <1>1, <1>3, GoFrame DEF Running, PCs
<1>5. wk'[w].pc = pc /\ \A v \in Workers : v # w => wk'[v] = wk[v]
  BY <1>3 DEF Go, Types, WorkerRecords
<1>6. /\ task' \in Tasks /\ task'.status = task.status /\ task'.gen = task.gen
      /\ task'.stopped # task.stopped => task.status = "paused" /\ task.gen = wk[w].gen
  BY DEF Confirm, Types, Tasks
<1>7. Types'
  BY <1>1, <1>4, <1>6 DEF Types, WorkersFrame
<1>8. GensInv'
  BY <1>1, <1>4, <1>6 DEF GensInv, WorkersFrame
<1>9. TxInv'
  BY <1>1, <1>4 DEF TxInv, WorkersFrame
<1>10. \A v \in Workers : Claimed(v)' => v # w /\ Claimed(v) /\ wk'[v].gen = wk[v].gen
  BY <1>1, <1>3, <1>5 DEF Claimed, Executing, Running
<1>11. \A v \in Workers : Executing(v)' => v # w /\ Executing(v) /\ wk'[v].gen = wk[v].gen
  BY <1>1, <1>3, <1>5 DEF Executing, Running
<1>12. ASSUME NEW v \in Workers, Executing(v)' PROVE task'.stopped = task.stopped
  <2>1. Executing(v) /\ v # w /\ wk[v].gen = task.gen
    BY <1>11, <1>12 DEF ClaimInv
  <2>2. Claimed(w) /\ Claimed(v)
    BY <1>1, <2>1 DEF Claimed
  <2> QED BY <1>6, <2>1, <2>2 DEF ClaimInv
<1>13. \A v \in Workers : Executing(v)' =>
         task'.status \notin {"none", "pending"} /\ ~task'.stopped /\ task'.gen = wk'[v].gen
  BY <1>6, <1>11, <1>12 DEF ClaimInv
<1>14. ClaimInv'
  BY <1>6, <1>10, <1>13 DEF ClaimInv
<1>15. JobInv'
  BY <1>1, <1>6, JobKept DEF JobFrame
<1> QED
  BY <1>7, <1>8, <1>9, <1>14, <1>15

---------------------------------------------------------------------------
(* Transactions *)

(* What Open makes of the transaction. *)
LEMMA OpenFacts ==
  ASSUME Types, NEW a \in Workers \cup Clients \cup {"api"}, NEW t \in Tasks,
         NEW ok \in {"idle", "send", "progress", "check", "confirm"},
         NEW bad \in {"idle", "raised", "error", "confirmed_not"}, Open(a, t, ok, bad)
  PROVE  /\ tx.by = "nobody" /\ tx' \in Txs
         /\ tx'.by = a /\ tx'.want = t /\ tx'.prev = job /\ tx'.ok = ok /\ tx'.bad = bad
         /\ tx'.synced = FALSE /\ tx'.own = FALSE
<1>1. tx' = [by |-> a, want |-> t, prev |-> job, synced |-> FALSE, own |-> FALSE, ok |-> ok, bad |-> bad]
  BY DEF Open, NoTx
<1>2. job \in JobStates /\ tx.by = "nobody"
  BY DEF Open, Types
<1>3. tx' \in Txs
  BY <1>1, <1>2 DEF Txs
<1> QED
  BY <1>1, <1>2, <1>3

(* A transaction begins; nothing else of the task changes. *)
LEMMA OpenKeeps ==
  ASSUME Sorts, IInv, TxInv', tx' \in Txs, ~tx'.synced, tx'.prev = job,
         WorkersFrame, ClientsFrame, BrokerFrame,
         UNCHANGED <<job, task, undo, merged, faults>>, gens' \in 0 .. MaxGens, gens <= gens'
  PROVE  IInv'
<1> USE DEF IInv
<1>1. Types'
  BY DEF Types, WorkersFrame, ClientsFrame, BrokerFrame
<1>2. gens' \in Nat
  BY DEF Types
<1> QED
  BY <1>1, <1>2, GensKept, ClaimKept, JobKept DEF JobFrame

(* A transaction of an API process that changes the status alone. *)
LEMMA ApiOpens ==
  ASSUME Sorts, IInv, NEW a \in Clients \cup {"api"}, NEW t \in Tasks,
         Open(a, t, "idle", "idle"), wk' = wk, ClientsFrame, a \in Clients => cl'[a].pc = "wait",
         task.status \in Live, t.status \in {"paused", "cancelled", "failed"}, t.gen = task.gen,
         t.stopped => task.stopped,
         UNCHANGED <<job, task, undo, gens, msgs, outcome, merged, faults>>
  PROVE  IInv'
<1> USE DEF IInv
<1>1. /\ tx.by = "nobody" /\ tx' \in Txs
      /\ tx'.by = a /\ tx'.want = t /\ tx'.prev = job /\ tx'.ok = "idle" /\ tx'.bad = "idle"
      /\ tx'.synced = FALSE /\ tx'.own = FALSE
  BY OpenFacts
<1>2. a \notin Workers /\ a # "nobody"
  BY DEF Sorts
<1>3. \A w \in Workers : wk'[w] = wk[w] /\ wk[w].pc # "wait" /\ tx'.by # w
  BY <1>1, <1>2, NoTxFacts DEF TxInv, Sorts
<1>4. WorkersFrame
  BY <1>3 DEF WorkersFrame, Executing, Claimed, Types
<1>5. job # "none" /\ task.gen <= gens
  BY DEF GensInv, Live
<1>6. TxInv'
  BY <1>1, <1>2, <1>3, <1>5 DEF TxInv
<1> QED
  BY <1>1, <1>4, <1>6, OpenKeeps, BrokerIdle DEF Types

(* A pause, a cancellation, Celery's verdict, a failed publication. *)
LEMMA ApiOpensStep ==
  ASSUME Sorts, IInv, \/ Pause \/ Cancel \/ GetTask
                      \/ \E c \in Clients : PublishFailed(c) /\ tx' # tx
  PROVE  IInv'
<1> USE DEF IInv
<1> DEFINE With(s) == [task EXCEPT !.status = s]
<1>1. \A s \in {"cancelled", "failed"} : /\ With(s) \in Tasks /\ With(s).status = s
                                         /\ With(s).gen = task.gen /\ With(s).stopped = task.stopped
  BY DEF Types, Tasks, JobStates, Ended
<1>2. CASE Pause
  <2> DEFINE t == [task EXCEPT !.status = "paused", !.stopped = FALSE]
  <2>1. t \in Tasks /\ t.status = "paused" /\ t.gen = task.gen /\ ~t.stopped
    BY DEF Types, Tasks, JobStates, Live
  <2>2. /\ Open("api", t, "idle", "idle") /\ task.status \in Live
        /\ UNCHANGED <<job, task, undo, gens, msgs, outcome, wk, cl, merged, faults>>
    BY <1>2 DEF Pause, broker, Live
  <2> HIDE DEF t
  <2> QED BY <2>1, <2>2, ApiOpens, ClientsIdle DEF Sorts
<1>3. CASE Cancel
  <2>1. /\ Open("api", With("cancelled"), "idle", "idle") /\ task.status \in Live
        /\ UNCHANGED <<job, task, undo, gens, msgs, outcome, wk, cl, merged, faults>>
    BY <1>3 DEF Cancel
  <2> HIDE DEF With
  <2> QED BY <1>1, <2>1, ApiOpens, ClientsIdle DEF Sorts
<1>4. CASE GetTask
  <2>1. task.gen \in Gens
    BY <1>4 DEF GetTask, GensInv, Types, Tasks, Gens, Sorts
  <2>2. outcome[task.gen] \in {"failed", "cancelled"}
    BY <1>4, <2>1 DEF GetTask, Types
  <2>3. /\ Open("api", With(outcome[task.gen]), "idle", "idle") /\ task.status \in Live
        /\ UNCHANGED <<job, task, undo, gens, msgs, outcome, wk, cl, merged, faults>>
    BY <1>4 DEF GetTask, broker, Live
  <2> HIDE DEF With
  <2> QED BY <1>1, <2>2, <2>3, ApiOpens, ClientsIdle DEF Sorts
<1>5. ASSUME NEW c \in Clients, PublishFailed(c), tx' # tx PROVE IInv'
  <2>1. /\ Open(c, With("failed"), "idle", "idle") /\ task.status \in Live
        /\ cl' = [cl EXCEPT ![c].pc = "wait"]
        /\ UNCHANGED <<job, task, undo, gens, msgs, outcome, wk, merged, faults>>
    BY <1>5 DEF PublishFailed, broker, Live
  <2> DEFINE r == [cl[c] EXCEPT !.pc = "wait"]
  <2>2. r \in ClientRecords /\ r.pc = "wait" /\ cl' = [cl EXCEPT ![c] = r]
    BY <2>1 DEF Types, ClientRecords
  <2> HIDE DEF With, r
  <2>3. ClientsFrame /\ cl'[c].pc = "wait"
    BY <2>2, CallFrame DEF Types
  <2> QED BY <1>1, <2>1, <2>3, ApiOpens
<1> QED
  BY <1>2, <1>3, <1>4, <1>5

(* A resume asks for a new generation of a task that has confirmed its stop. *)
LEMMA ResumeStep ==
  ASSUME Sorts, IInv, NEW c \in Clients, Resume(c)
  PROVE  IInv'
<1> USE DEF IInv
<1> DEFINE t == [task EXCEPT !.status = "pending", !.gen = gens']
           r == [pc |-> "wait", resume |-> TRUE, gen |-> gens']
<1>1. /\ cl[c].pc = "idle" /\ gens < MaxGens /\ task.status = "paused" /\ task.stopped
      /\ gens' = gens + 1 /\ Open(c, t, "send", "idle") /\ cl' = [cl EXCEPT ![c] = r]
      /\ UNCHANGED <<job, task, undo, msgs, outcome, wk, merged, faults>>
  BY DEF Resume
<1>2. gens' \in 0 .. MaxGens /\ gens <= gens' /\ gens' \in Nat /\ task.gen < gens'
  BY <1>1 DEF Types, Tasks, GensInv, Sorts
<1>3. t \in Tasks /\ t.status = "pending" /\ t.gen = gens' /\ t.stopped
  BY <1>1, <1>2 DEF Types, Tasks, JobStates, Live
<1>4. r \in ClientRecords /\ r.pc = "wait" /\ r.gen = gens'
  BY <1>2 DEF ClientRecords
<1> HIDE DEF t, r
<1>5. /\ tx.by = "nobody" /\ tx' \in Txs
      /\ tx'.by = c /\ tx'.want = t /\ tx'.prev = job /\ tx'.ok = "send" /\ tx'.bad = "idle"
      /\ tx'.synced = FALSE /\ tx'.own = FALSE
  BY <1>1, <1>3, OpenFacts
<1>6. ClientsFrame /\ cl'[c] = r
  BY <1>1, <1>4, CallFrame DEF Types
<1>7. \A w \in Workers : wk'[w] = wk[w] /\ wk[w].pc # "wait" /\ tx'.by # w
  BY <1>1, <1>5 DEF TxInv, Sorts
<1>8. WorkersFrame
  BY <1>1, <1>7 DEF WorkersFrame, Executing, Claimed, Types
<1>9. TxInv'
  <2>1. job # "none"
    BY <1>1 DEF GensInv
  <2> QED BY <1>1, <1>2, <1>3, <1>4, <1>5, <1>6, <1>7, <2>1 DEF TxInv, Live
<1> QED
  BY <1>1, <1>2, <1>5, <1>6, <1>8, <1>9, OpenKeeps, BrokerIdle

(* A worker opens a transaction: for its claim, or for what it executes. *)
LEMMA WorkerOpens ==
  ASSUME Sorts, IInv, NEW w \in Workers, NEW t \in Tasks, wk[w].pc \notin {"idle", "wait"},
         wk[w].gen = task.gen, Go(w, "wait"), t.gen = task.gen, t.stopped => task.stopped,
         \/ /\ Open(w, t, "progress", "raised") /\ task.status = "pending"
            /\ t.status = "running" /\ ~t.stopped
         \/ /\ Open(w, t, "check", "error") \/ Open(w, t, "confirm", "confirmed_not")
            /\ task.status = "running" /\ t.status \in {"running", "failed"} /\ Executing(w),
         UNCHANGED <<job, task, undo, gens, msgs, outcome, cl, merged, faults>>
  PROVE  IInv'
<1> USE DEF IInv
<1>1. /\ tx.by = "nobody" /\ tx' \in Txs /\ tx'.by = w /\ tx'.want = t /\ tx'.prev = job
      /\ tx'.synced = FALSE /\ tx'.own = FALSE
      /\ \/ /\ tx'.ok = "progress" /\ tx'.bad = "raised" /\ task.status = "pending"
            /\ t.status = "running" /\ ~t.stopped
         \/ /\ (tx'.ok = "check" /\ tx'.bad = "error") \/ (tx'.ok = "confirm" /\ tx'.bad = "confirmed_not")
            /\ task.status = "running" /\ t.status \in {"running", "failed"} /\ Executing(w)
  BY OpenFacts
<1>2. /\ wk' \in [Workers -> WorkerRecords] /\ wk'[w].pc = "wait" /\ wk'[w].gen = wk[w].gen
      /\ \A v \in Workers : v # w => wk'[v] = wk[v]
  <2> DEFINE r == [wk[w] EXCEPT !.pc = "wait"]
  <2>1. r \in WorkerRecords /\ r.pc = "wait" /\ r.gen = wk[w].gen
    BY DEF Types, WorkerRecords, PCs
  <2>2. wk' = [wk EXCEPT ![w] = r]
    BY DEF Go
  <2> HIDE DEF r
  <2> QED BY <2>1, <2>2 DEF Types
<1>3. \A v \in Workers : wk[v].pc # "wait" /\ (wk'[v].pc = "wait" <=> tx'.by = v)
  BY <1>1, <1>2 DEF TxInv, Sorts
<1>4. WorkersFrame
  BY <1>1, <1>2, <1>3 DEF WorkersFrame, Executing, Claimed, Running
<1>5. job # "none" /\ task.gen <= gens /\ w # "nobody" /\ w \notin Clients
  BY <1>1 DEF GensInv, Sorts
<1>6. TxInv'
  BY <1>1, <1>2, <1>3, <1>5 DEF TxInv, Live
<1> QED
  BY <1>1, <1>4, <1>6, OpenKeeps, BrokerIdle, ClientsIdle DEF Types

(* A claim, progress, a verdict. *)
LEMMA WorkerOpensStep ==
  ASSUME Sorts, IInv, NEW w \in Workers, tx' # tx, Claim(w) \/ Progress(w) \/ Settle(w)
  PROVE  IInv'
<1> USE DEF IInv
<1>1. UNCHANGED <<job, task, undo, gens, msgs, outcome, cl, merged, faults>> /\ Go(w, "wait")
  BY DEF Claim, Progress, Settle, broker
<1>2. CASE Claim(w)
  <2> DEFINE t == [task EXCEPT !.status = "running", !.stopped = FALSE]
  <2>1. t \in Tasks /\ t.status = "running" /\ t.gen = task.gen /\ ~t.stopped
    BY DEF Types, Tasks, JobStates, Live
  <2>2. /\ Open(w, t, "progress", "raised") /\ wk[w].pc = "got"
        /\ task.status = "pending" /\ task.gen = wk[w].gen
    BY <1>2 DEF Claim
  <2> HIDE DEF t
  <2> QED BY <1>1, <2>1, <2>2, WorkerOpens
<1>3. CASE Progress(w)
  <2>1. Open(w, task, "check", "error") /\ wk[w].pc = "progress" /\ ~Stopped(w)
    BY <1>3 DEF Progress
  <2> QED BY <1>1, <2>1, WorkerOpens DEF Stopped, Types, Executing, Running
<1>4. CASE Settle(w)
  <2> DEFINE t == [task EXCEPT !.status = IF wk[w].res = "completed" THEN @ ELSE "failed"]
  <2>1. Open(w, t, "confirm", "confirmed_not") /\ wk[w].pc = "settle" /\ ~Stopped(w)
    BY <1>4 DEF Settle
  <2>2. /\ t \in Tasks /\ t.gen = task.gen /\ t.stopped = task.stopped
        /\ t.status \in {"running", "failed"}
    BY <2>1 DEF Stopped, Types, Tasks, JobStates, Ended
  <2> HIDE DEF t
  <2> QED BY <1>1, <2>1, <2>2, WorkerOpens DEF Stopped, Executing, Running
<1> QED
  BY <1>2, <1>3, <1>4

(* The job follows what the transaction asks for, or decides for it. *)
LEMMA SyncStep ==
  ASSUME Sorts, IInv, Sync
  PROVE  IInv'
<1> USE DEF IInv
<1>1. /\ tx.by # "nobody" /\ ~tx.synced
      /\ job' = IF job \notin Ended /\ job = tx.prev THEN tx.want.status ELSE job
      /\ UNCHANGED <<task, undo, gens, msgs, outcome, wk, cl, merged, faults>>
  BY DEF Sync, broker
<1>2. /\ tx' \in Txs /\ tx'.by = tx.by /\ tx'.ok = tx.ok /\ tx'.bad = tx.bad /\ tx'.prev = tx.prev
      /\ tx'.synced = TRUE /\ tx'.own = (job' = tx.want.status /\ job' # tx.prev)
      /\ tx'.want.gen = tx.want.gen /\ tx'.want.stopped = tx.want.stopped
      /\ tx'.want.status = IF job' \in Ended THEN job' ELSE tx.want.status
  <2>1. tx' = [tx EXCEPT !.synced = TRUE, !.own = job' = tx.want.status /\ job' # tx.prev,
                         !.want.status = IF job' \in Ended THEN job' ELSE @]
    BY DEF Sync
  <2>2. tx.want \in Tasks
    BY DEF Types, Txs
  <2>3. (IF job' \in Ended THEN job' ELSE tx.want.status) \in JobStates
    BY <2>2 DEF Tasks, JobStates
  <2> QED BY <2>1, <2>2, <2>3 DEF Types, Txs, Tasks
<1>3. /\ job' \in JobStates /\ tx.want.status # "none" /\ tx.want.status # "completed"
      /\ job' = "none" <=> job = "none"
  BY <1>1 DEF TxInv, GensInv, Types, Txs, Tasks, Live
<1>4. WorkersFrame
  BY <1>1, <1>2 DEF WorkersFrame, TxInv, Executing, Claimed, Types
<1>5. ClientsFrame /\ BrokerFrame
  BY <1>1, ClientsIdle, BrokerIdle
<1>6. Types'
  BY <1>1, <1>2, <1>3 DEF Types
<1>7. GensInv' /\ ClaimInv'
  BY <1>1, <1>3, <1>4, <1>5, GensKept, ClaimKept DEF Types
<1>8. tx'.want.status \in Ended \cup {tx.want.status} /\ tx'.want.status # "none"
  BY <1>2, <1>3 DEF Ended
<1>9. TxInv'
  BY <1>1, <1>2, <1>8 DEF TxInv, Ended
<1>10. merged > 0 => job = "completed" /\ job' = job /\ tx'.want.status = "completed"
  BY <1>1, <1>2 DEF JobInv, Ended
<1>11. "commit" \notin faults /\ job' = "running" => tx.want.status = "running" /\ tx'.want.status = "running"
  BY <1>1, <1>2 DEF JobInv, Ended
<1>12. tx'.own => job' # "completed"
  BY <1>2, <1>3
<1>13. task.status \in Live
  BY <1>1 DEF TxInv
<1>14. merged = 0 \/ merged > 0
  BY DEF Types
<1>15. JobInv'
  BY <1>1, <1>2, <1>10, <1>11, <1>12, <1>13, <1>14 DEF JobInv, Live
<1> QED
  BY <1>6, <1>7, <1>9, <1>15

(* The task becomes what the transaction asks for: nobody executes when a  *)
(* generation is claimed or made, and who has claimed goes on alone.       *)
LEMMA CommitStep ==
  ASSUME Sorts, IInv, Commit
  PROVE  IInv'
<1> USE DEF IInv
<1> DEFINE next == IF tx.ok = "progress" /\ tx.want.status # "running" THEN "refused" ELSE tx.ok
<1>1. /\ tx.by # "nobody" /\ tx.synced /\ task' = tx.want /\ Leave(next)
      /\ UNCHANGED <<job, undo, gens, msgs, outcome, merged, faults>>
  BY DEF Commit, broker
<1>2. /\ tx.want \in Tasks /\ tx.ok \in {"idle", "send", "progress", "check", "confirm"}
      /\ tx.by \in Workers \cup Clients \cup {"api"} /\ task \in Tasks
  BY <1>1 DEF Types, Txs
<1>3. PICK pc \in PCs \cup {"send"} :
        /\ Leave(pc) /\ pc \notin {"wait", "enqueue", "unsent", "confirmed_not"}
        /\ tx.ok \in {"idle", "send"} => pc = tx.ok
        /\ pc = "confirm" => tx.ok = "confirm"
        /\ pc = "send" => tx.ok = "send"
        /\ pc \in Running => tx.ok \in {"progress", "check"}
        /\ pc \in Running /\ tx.ok = "progress" => tx.want.status = "running"
  <2>1. CASE tx.ok = "progress" /\ tx.want.status # "running"
    <3>1. Leave("refused") /\ "refused" \in PCs \ Running
      BY <1>1, <2>1 DEF PCs, Running
    <3> QED BY <2>1, <3>1
  <2>2. CASE ~(tx.ok = "progress" /\ tx.want.status # "running")
    <3>1. Leave(tx.ok)
      BY <1>1, <2>2
    <3>2. tx.ok \in PCs \cup {"send"} /\ (tx.ok = "progress" => tx.want.status = "running")
      BY <1>2, <2>2 DEF PCs
    <3>3. tx.ok \in Running => tx.ok \in {"progress", "check"}
      BY <1>2 DEF Running
    <3> QED BY <1>2, <3>1, <3>2, <3>3
  <2> QED BY <2>1, <2>2
<1> HIDE DEF next
<1>5. /\ tx' = NoTx
      /\ \A w \in Workers : wk'[w] = IF tx.by = w THEN [wk[w] EXCEPT !.pc = pc] ELSE wk[w]
      /\ wk' \in [Workers -> WorkerRecords]
      /\ \A c \in Clients : cl'[c] = IF tx.by # c THEN cl[c]
                                     ELSE IF pc = "idle" THEN NoCall ELSE [cl[c] EXCEPT !.pc = pc]
      /\ cl' = [c \in Clients |-> cl'[c]]
  <2>1. tx.by \in Workers => pc \in PCs
    BY <1>1, <1>3 DEF TxInv, Sorts
  <2> QED BY <1>1, <1>3, <2>1, LeaveFacts
<1>6. \A w \in Workers : /\ wk'[w].gen = wk[w].gen
                         /\ wk'[w].pc = IF tx.by = w THEN pc ELSE wk[w].pc
  BY <1>5 DEF Types, WorkerRecords
<1>7. \A c \in Clients : tx.by = c => tx.ok \in {"idle", "send"} /\ pc = tx.ok
  BY <1>1, <1>2, <1>3 DEF TxInv, Sorts
<1>8. \A c \in Clients : /\ cl'[c] \in ClientRecords
                         /\ tx.by # c => cl'[c] = cl[c]
                         /\ tx.by = c => cl'[c].pc \in {"idle", "send"}
                         /\ tx.by = c /\ cl'[c].pc = "send" => cl'[c].gen = tx.want.gen
  <2>0. \A c \in Clients : tx.by # c => cl'[c] = cl[c] /\ cl[c] \in ClientRecords
    BY <1>5 DEF Types
  <2>b. ASSUME NEW c \in Clients, tx.by = c
        PROVE  /\ cl'[c] \in ClientRecords /\ cl'[c].pc \in {"idle", "send"}
               /\ cl'[c].pc = "send" => cl'[c].gen = tx.want.gen
    <3>1. CASE pc = "idle"
      <4>1. cl'[c] = NoCall
        BY <1>5, <2>b, <3>1
      <4> QED BY <4>1 DEF NoCall, ClientRecords
    <3>2. CASE pc # "idle"
      <4>1. pc = "send" /\ tx.ok = "send" /\ cl'[c] = [cl[c] EXCEPT !.pc = "send"]
        BY <1>5, <2>b, <1>7, <3>2
      <4>2. cl[c] \in ClientRecords /\ cl[c].gen = tx.want.gen
        BY <1>1, <2>b, <4>1 DEF TxInv, Types
      <4> QED BY <2>b, <4>1, <4>2 DEF ClientRecords
    <3> QED BY <3>1, <3>2
  <2> QED BY <2>0, <2>b
<1>9. Types'
  <2>1. cl' \in [Clients -> ClientRecords]
    BY <1>5, <1>8
  <2> QED BY <1>1, <1>2, <1>5, <2>1, NoTxFacts DEF Types
<1>10. /\ task.status \in Live /\ tx.want.status # "none" /\ tx.want.gen <= gens
       /\ task.gen <= tx.want.gen /\ 0 < task.gen
  BY <1>1, <1>2 DEF TxInv, GensInv, Live, Tasks
<1>11. tx.want.gen \in Nat /\ task.gen \in Nat
  BY <1>2 DEF Tasks
<1>12. GensInv'
  <2>1. \A w \in Workers : wk'[w].pc # "idle" => wk[w].pc # "idle"
    BY <1>1, <1>6 DEF TxInv
  <2>2. \A w \in Workers : wk'[w].pc # "idle" => wk'[w].gen \in 1 .. tx.want.gen
    BY <1>6, <1>10, <1>11, <2>1 DEF GensInv
  <2>3. \A c \in Clients : cl'[c].pc \in {"send", "unsent"} => cl'[c].gen <= tx.want.gen
    BY <1>8, <1>10, <1>11 DEF GensInv, Types, ClientRecords
  <2>4. \A c \in Clients : cl'[c].pc # "enqueue"
    BY <1>8, <1>10 DEF GensInv, Live
  <2>5. \A g \in Gens : msgs[g] > 0 => g <= tx.want.gen
    BY <1>10, <1>11 DEF GensInv, Gens
  <2>6. job # "none"
    BY <1>10 DEF GensInv, Live
  <2> QED BY <1>1, <1>10, <1>11, <2>2, <2>3, <2>4, <2>5, <2>6 DEF GensInv
<1>13. TxInv'
  <2>1. \A w \in Workers : wk'[w].pc # "wait"
    BY <1>1, <1>3, <1>6 DEF TxInv
  <2> QED BY <1>5, <2>1, NoTxFacts DEF TxInv
<1>14. ClaimInv'
  <2>1. \A w \in Workers : Executing(w)' => \/ Executing(w)
                                            \/ tx.by = w /\ tx.ok = "progress" /\ tx.want.status = "running"
    BY <1>1, <1>3, <1>5, <1>6, NoTxFacts DEF Executing, Running, TxInv
  <2>2. \A w \in Workers : Claimed(w)' => Claimed(w) \/ (tx.by = w /\ tx.ok = "progress")
    BY <1>1, <1>3, <1>5, <1>6, <2>1, NoTxFacts DEF Claimed, Executing, TxInv
  <2>3. CASE tx.ok = "progress"
    <3>1. /\ tx.by \in Workers /\ wk[tx.by].gen = task.gen /\ task.status = "pending"
          /\ ~tx.want.stopped /\ tx.want.gen = task.gen /\ tx.want.status # "pending"
      BY <1>1, <2>3 DEF TxInv
    <3>2. \A w \in Workers : ~Executing(w) /\ (Claimed(w) => wk[w].gen # task.gen)
      BY <3>1 DEF ClaimInv
    <3>3. \A v, w \in Workers : Claimed(v)' /\ Claimed(w)' /\ wk'[v].gen = wk'[w].gen => v = w
      BY <1>6, <2>2, <3>1, <3>2 DEF ClaimInv
    <3>4. \A w \in Workers : Executing(w)' =>
            task'.status \notin {"none", "pending"} /\ ~task'.stopped /\ task'.gen = wk'[w].gen
      BY <1>1, <1>6, <2>1, <3>1, <3>2
    <3> QED BY <1>1, <3>1, <3>3, <3>4 DEF ClaimInv
  <2>4. CASE tx.ok = "send"
    <3>1. task.stopped /\ tx.want.gen > task.gen
      BY <1>1, <2>4 DEF TxInv
    <3>2. \A w \in Workers : ~Executing(w)'
      BY <2>1, <2>4, <3>1 DEF ClaimInv
    <3>3. \A w \in Workers : Claimed(w)' => Claimed(w) /\ wk[w].gen <= task.gen
      BY <2>2, <2>4 DEF GensInv, Claimed, Executing, Running
    <3>4. \A v, w \in Workers : Claimed(v)' /\ Claimed(w)' /\ wk'[v].gen = wk'[w].gen => v = w
      BY <1>6, <3>3 DEF ClaimInv
    <3>5. \A w \in Workers : Claimed(w)' => wk'[w].gen # tx.want.gen
      BY <1>6, <1>11, <3>1, <3>3 DEF Types, WorkerRecords
    <3> QED BY <1>1, <3>2, <3>4, <3>5 DEF ClaimInv
  <2>5. CASE tx.ok \in {"idle", "check", "confirm"}
    <3>1. /\ tx.want.gen = task.gen /\ tx.want.status # "pending"
          /\ tx.want.stopped => task.stopped
      BY <1>1, <2>5 DEF TxInv
    <3>2. \A w \in Workers : Executing(w)' => Executing(w)
      BY <2>1, <2>5
    <3>3. \A w \in Workers : Claimed(w)' => Claimed(w)
      BY <2>2, <2>5
    <3>4. \A v, w \in Workers : Claimed(v)' /\ Claimed(w)' /\ wk'[v].gen = wk'[w].gen => v = w
      BY <1>6, <3>3 DEF ClaimInv
    <3>5. \A w \in Workers : Executing(w)' =>
            task'.status \notin {"none", "pending"} /\ ~task'.stopped /\ task'.gen = wk'[w].gen
      BY <1>1, <1>6, <1>10, <3>1, <3>2 DEF ClaimInv
    <3> QED BY <1>1, <3>1, <3>4, <3>5 DEF ClaimInv
  <2> QED BY <1>2, <2>3, <2>4, <2>5
<1>15. JobInv'
  <2>1. "commit" \notin faults /\ task'.status \in {"failed", "cancelled"} => job # "running" /\ merged = 0
    BY <1>1 DEF JobInv
  <2> QED BY <1>1, <1>5, <2>1, NoTxFacts DEF JobInv
<1> QED
  BY <1>9, <1>12, <1>13, <1>14, <1>15

(* The task stays, and what is to be restored is not a completed job. *)
LEMMA CommitFailsStep ==
  ASSUME Sorts, IInv, CommitFails
  PROVE  IInv'
<1> USE DEF IInv
<1>1. /\ tx.by # "nobody" /\ tx.synced /\ Leave(tx.bad) /\ "commit" \notin faults /\ "commit" \in faults'
      /\ undo' = IF tx.own THEN undo \cup {[expected |-> job, previous |-> tx.prev]} ELSE undo
      /\ UNCHANGED <<job, task, gens, msgs, outcome, merged>>
  BY DEF CommitFails, Fault, broker
<1>2. /\ tx.by \in Workers => tx.ok \in {"progress", "check", "confirm"}
      /\ tx.bad \in {"idle", "raised", "error", "confirmed_not"}
      /\ tx.by \in Clients => tx.bad = "idle"
      /\ tx.prev \in JobStates \ {"none"}
  BY <1>1 DEF TxInv, Types, Txs, Sorts
<1>3. tx.bad \in PCs
  BY <1>2 DEF PCs
<1>4. /\ tx' = NoTx
      /\ \A w \in Workers : wk'[w] = IF tx.by = w THEN [wk[w] EXCEPT !.pc = tx.bad] ELSE wk[w]
      /\ wk' \in [Workers -> WorkerRecords]
      /\ \A c \in Clients : cl'[c] = IF tx.by # c THEN cl[c]
                                     ELSE IF tx.bad = "idle" THEN NoCall ELSE [cl[c] EXCEPT !.pc = tx.bad]
      /\ cl' = [c \in Clients |-> cl'[c]]
  BY <1>1, <1>3, LeaveFacts
<1>5. \A w \in Workers : /\ wk'[w].gen = wk[w].gen
                         /\ wk'[w].pc = IF tx.by = w THEN tx.bad ELSE wk[w].pc
  BY <1>4 DEF Types, WorkerRecords
<1>6. \A w \in Workers : tx.by = w =>
        \/ tx.bad = "raised" /\ wk[w].pc = "wait"
        \/ tx.bad \in {"error", "confirmed_not"} /\ wk[w].pc = "wait" /\ tx.ok \in {"check", "confirm"}
  BY <1>1, <1>2 DEF TxInv
<1>7. WorkersFrame
  <2>1. \A w \in Workers : wk'[w].pc # "wait" /\ tx'.by # w
    BY <1>1, <1>2, <1>4, <1>5, NoTxFacts DEF TxInv
  <2> QED BY <1>4, <1>5, <1>6, <2>1 DEF WorkersFrame, Executing, Claimed, Running
<1>8. ClientsFrame
  <2>1. \A c \in Clients : cl'[c] = IF tx.by # c THEN cl[c] ELSE NoCall
    BY <1>2, <1>4
  <2>2. NoCall \in ClientRecords /\ NoCall.pc = "idle"
    BY DEF NoCall, ClientRecords
  <2>3. \A c \in Clients : cl'[c] \in ClientRecords
    BY <2>1, <2>2 DEF Types
  <2>4. cl' \in [Clients -> ClientRecords]
    BY <1>4, <2>3
  <2> QED BY <2>1, <2>2, <2>4 DEF ClientsFrame
<1>9. \A u \in undo' : \/ u \in undo
                       \/ tx.own /\ u = [expected |-> job, previous |-> tx.prev]
  BY <1>1
<1>10. undo' \subseteq [expected : JobStates, previous : JobStates \ {"none"}]
  BY <1>2, <1>9 DEF Types
<1>11. Types'
  BY <1>1, <1>4, <1>7, <1>8, <1>10, NoTxFacts DEF Types, WorkersFrame, ClientsFrame
<1>12. GensInv' /\ ClaimInv'
  BY <1>1, <1>7, <1>8, BrokerIdle, GensKept, ClaimKept DEF Types
<1>13. TxInv'
  BY <1>4, <1>7, NoTxFacts DEF TxInv, WorkersFrame
<1>14. \A u \in undo' : u.expected # "completed"
  BY <1>1, <1>9 DEF JobInv
<1>15. JobInv'
  BY <1>1, <1>14 DEF JobInv
<1> QED
  BY <1>11, <1>12, <1>13, <1>15

(* A restoration does not undo what is completed. *)
LEMMA RestoreStep ==
  ASSUME Sorts, IInv, NEW u \in undo, Restore(u)
  PROVE  IInv'
<1> USE DEF IInv
<1>1. /\ undo' = undo \ {u} /\ job' = IF job = u.expected THEN u.previous ELSE job
      /\ UNCHANGED <<task, tx, gens, msgs, outcome, wk, cl, merged, faults>>
  BY DEF Restore, broker
<1>2. u.previous \in JobStates \ {"none"} /\ u.expected # "completed" /\ "commit" \in faults
  BY DEF Types, JobInv
<1>3. Types' /\ TxInv'
  BY <1>1, <1>2 DEF Types, TxInv
<1>4. GensInv'
  BY <1>1, <1>2 DEF GensInv
<1>5. ClaimInv'
  BY <1>1 DEF ClaimInv, Claimed, Executing
<1>6. job = "completed" => job' = "completed"
  BY <1>1, <1>2
<1>7. JobInv'
  BY <1>1, <1>2, <1>6 DEF JobInv
<1> QED
  BY <1>3, <1>4, <1>5, <1>7

---------------------------------------------------------------------------
(* The clients' other steps *)

(* The job is created: there is no task and nothing under way. *)
LEMMA CreateJobStep ==
  ASSUME Sorts, IInv, NEW c \in Clients, CreateJob(c)
  PROVE  IInv'
<1> USE DEF IInv
<1>1. /\ job = "none" /\ job' = "pending" /\ cl' = [cl EXCEPT ![c].pc = "enqueue"]
      /\ UNCHANGED <<task, tx, undo, gens, msgs, outcome, wk, merged, faults>>
  BY DEF CreateJob, broker
<1>2. /\ cl' \in [Clients -> ClientRecords] /\ cl'[c].pc = "enqueue"
      /\ \A d \in Clients : d # c => cl'[d] = cl[d]
  <2> DEFINE r == [cl[c] EXCEPT !.pc = "enqueue"]
  <2>1. r \in ClientRecords /\ r.pc = "enqueue"
    BY DEF Types, ClientRecords
  <2>2. cl' = [cl EXCEPT ![c] = r]
    BY <1>1
  <2> HIDE DEF r
  <2> QED BY <2>1, <2>2 DEF Types
<1>3. task.status = "none" /\ \A d \in Clients : cl[d].pc # "enqueue"
  BY <1>1 DEF GensInv
<1>4. tx.by = "nobody"
  BY <1>3 DEF TxInv, Live
<1>5. Types'
  BY <1>1, <1>2 DEF Types, JobStates, Live
<1>6. GensInv'
  <2>1. \A d \in Clients : cl'[d].pc = "enqueue" => d = c
    BY <1>2, <1>3
  <2>2. \A d \in Clients : cl'[d].pc \in {"send", "unsent"} => cl'[d] = cl[d]
    BY <1>2
  <2> QED BY <1>1, <1>3, <2>1, <2>2 DEF GensInv
<1>7. TxInv'
  BY <1>1, <1>4, NoTxFacts DEF TxInv, Sorts
<1>8. ClaimInv'
  BY <1>1 DEF ClaimInv, Claimed, Executing
<1>9. JobInv'
  BY <1>1, <1>4 DEF JobInv
<1> QED
  BY <1>5, <1>6, <1>7, <1>8, <1>9

(* The first generation. *)
LEMMA EnqueueStep ==
  ASSUME Sorts, IInv, NEW c \in Clients, Enqueue(c)
  PROVE  IInv'
<1> USE DEF IInv
<1> DEFINE r == [pc |-> "send", resume |-> FALSE, gen |-> gens']
<1>1. /\ cl[c].pc = "enqueue" /\ gens < MaxGens /\ gens' = gens + 1
      /\ task' = [NoTask EXCEPT !.status = "pending", !.gen = gens'] /\ cl' = [cl EXCEPT ![c] = r]
      /\ UNCHANGED <<job, tx, undo, msgs, outcome, wk, merged, faults>>
  BY DEF Enqueue
<1>2. gens' \in 0 .. MaxGens /\ gens' \in Nat /\ gens < gens' /\ 0 < gens'
  BY <1>1 DEF Types, Sorts
<1>3. task' \in Tasks /\ task'.status = "pending" /\ task'.gen = gens'
  BY <1>1, <1>2 DEF NoTask, Tasks, JobStates, Live
<1>4. r \in ClientRecords /\ r.pc = "send" /\ r.gen = gens'
  BY <1>2 DEF ClientRecords
<1> HIDE DEF r
<1>5. cl' \in [Clients -> ClientRecords] /\ cl'[c] = r /\ \A d \in Clients : d # c => cl'[d] = cl[d]
  BY <1>1, <1>4 DEF Types
<1>6. task.status = "none" /\ task.gen = 0 /\ job # "none"
  BY <1>1 DEF GensInv
<1>7. tx.by = "nobody" /\ \A w \in Workers : wk[w].pc = "idle"
  BY <1>6 DEF TxInv, GensInv, Live
<1>8. Types'
  BY <1>1, <1>2, <1>3, <1>5 DEF Types
<1>9. GensInv'
  <2>1. \A d \in Clients : cl'[d].pc # "enqueue"
    BY <1>1, <1>4, <1>5 DEF GensInv
  <2>2. \A d \in Clients : cl'[d].pc \in {"send", "unsent"} => cl'[d].gen <= gens'
    BY <1>2, <1>4, <1>5, <1>6 DEF GensInv, Types, ClientRecords
  <2>3. \A g \in Gens : msgs[g] > 0 => g <= gens'
    BY <1>2, <1>6 DEF GensInv, Gens
  <2> QED BY <1>1, <1>2, <1>3, <1>6, <1>7, <2>1, <2>2, <2>3 DEF GensInv
<1>10. TxInv'
  BY <1>1, <1>7, NoTxFacts DEF TxInv, Sorts
<1>11. ClaimInv'
  BY <1>1, <1>7 DEF ClaimInv, Claimed, Executing, Running
<1>12. JobInv'
  BY <1>1, <1>3, <1>7 DEF JobInv
<1> QED
  BY <1>8, <1>9, <1>10, <1>11, <1>12

(* A message of a generation that the task has had. *)
LEMMA SendStep ==
  ASSUME Sorts, IInv, NEW c \in Clients, Send(c)
  PROVE  IInv'
<1> USE DEF IInv
<1>1. /\ cl[c].pc = "send" /\ faults \subseteq faults'
      /\ UNCHANGED <<job, task, tx, undo, gens, outcome, wk, merged>>
      /\ cl' = [cl EXCEPT ![c] = NoCall] \/ cl' = [cl EXCEPT ![c].pc = "unsent"]
      /\ \E d \in {0, 1} : msgs' = [msgs EXCEPT ![cl[c].gen] = @ + d]
  BY DEF Send, Fault
<1>2. ClientsFrame
  <2>1. CASE cl' = [cl EXCEPT ![c] = NoCall]
    <3>1. NoCall \in ClientRecords /\ NoCall.pc = "idle"
      BY DEF NoCall, ClientRecords
    <3> QED BY <2>1, <3>1, CallFrame
  <2>2. CASE cl' = [cl EXCEPT ![c].pc = "unsent"]
    <3> DEFINE r == [cl[c] EXCEPT !.pc = "unsent"]
    <3>1. r \in ClientRecords /\ r.pc = "unsent" /\ r.gen = cl[c].gen
      BY DEF Types, ClientRecords
    <3>2. cl' = [cl EXCEPT ![c] = r]
      BY <2>2
    <3> HIDE DEF r
    <3> QED BY <1>1, <3>1, <3>2, CallFrame
  <2> QED BY <1>1, <2>1, <2>2
<1>3. \A d \in Clients : tx.by = d => cl'[d] = cl[d]
  <2>1. tx.by # c
    BY <1>1 DEF TxInv
  <2> QED BY <1>1, <2>1 DEF Types
<1>4. msgs' \in [Gens -> Int] /\ \A g \in Gens : msgs'[g] > 0 => msgs[g] > 0 \/ g = cl[c].gen
  <2> PICK d \in {0, 1} : msgs' = [msgs EXCEPT ![cl[c].gen] = @ + d]
    BY <1>1
  <2>1. \A g \in Gens : msgs'[g] = (IF g = cl[c].gen THEN msgs[g] + d ELSE msgs[g]) /\ msgs[g] \in Int
    BY DEF Types
  <2>2. \A g \in Gens : msgs'[g] \in Int
    BY <2>1
  <2>3. msgs' = [g \in Gens |-> msgs'[g]]
    BY DEF Types
  <2> QED BY <2>1, <2>2, <2>3
<1>5. WorkersFrame
  BY <1>1, IdleFrame
<1>6. Types'
  BY <1>1, <1>2, <1>4 DEF Types, ClientsFrame
<1>7. GensInv'
  <2>1. cl[c].gen <= task.gen
    BY <1>1 DEF GensInv
  <2> QED BY <1>1, <1>2, <1>4, <2>1 DEF GensInv, ClientsFrame
<1>8. TxInv'
  BY <1>1, <1>3 DEF TxInv
<1>9. ClaimInv'
  BY <1>1, <1>5, ClaimKept
<1>10. JobInv'
  BY <1>1, JobKept DEF JobFrame
<1> QED
  BY <1>6, <1>7, <1>8, <1>9, <1>10

---------------------------------------------------------------------------
(* Nothing is there yet. *)
LEMMA InitHolds == Sorts /\ Init => IInv
<1> SUFFICES ASSUME Sorts, Init PROVE IInv
  OBVIOUS
<1>1. /\ Free \in WorkerRecords /\ Free.pc = "idle" /\ NoCall \in ClientRecords /\ NoCall.pc = "idle"
      /\ NoTask \in Tasks /\ NoTask.status = "none" /\ NoTask.gen = 0
  BY DEF Free, WorkerRecords, PCs, NoCall, ClientRecords, NoTask, Tasks, JobStates
<1>2. /\ \A w \in Workers : wk[w] = Free
      /\ \A c \in Clients : cl[c] = NoCall
      /\ \A g \in Gens : msgs[g] = 0
  BY DEF Init
<1>3. Types
  BY <1>1, NoTxFacts DEF Init, Types, JobStates, Sorts
<1>4. GensInv
  BY <1>1, <1>2 DEF Init, GensInv
<1>5. TxInv
  BY <1>1, <1>2, NoTxFacts DEF Init, TxInv
<1>6. ClaimInv
  BY <1>1, <1>2 DEF Init, ClaimInv, Claimed, Executing, Running
<1>7. JobInv
  BY <1>1, NoTxFacts DEF Init, JobInv
<1> QED
  BY <1>3, <1>4, <1>5, <1>6, <1>7 DEF IInv

(* Every step preserves the invariant. *)
LEMMA StepHolds ==
  ASSUME Sorts, IsFiniteSet(Workers), IInv, [Next]_importVars
  PROVE  IInv'
<1>1. CASE Pause \/ Cancel \/ GetTask
  BY <1>1, ApiOpensStep
<1>2. CASE TimeOut \/ ApiDies \/ UNCHANGED importVars
  BY <1>2, ApiStep
<1>3. ASSUME NEW c \in Clients, CreateJob(c) \/ Resume(c) \/ Enqueue(c) \/ Send(c) \/ PublishFailed(c)
      PROVE  IInv'
  <2>1. CASE PublishFailed(c)
    BY <2>1, ApiStep, ApiOpensStep
  <2> QED BY <1>3, <2>1, CreateJobStep, ResumeStep, EnqueueStep, SendStep
<1>4. ASSUME NEW w \in Workers, NEW g \in Gens, Take(w, g) PROVE IInv'
  BY <1>4, TakeStep, MessageStep
<1>5. ASSUME NEW w \in Workers, Claim(w) \/ Progress(w) \/ Settle(w) PROVE IInv'
  BY <1>5, DeclineStep, WorkerOpensStep
<1>6. ASSUME NEW w \in Workers, \/ Check(w) \/ Item(w) \/ Drain(w) \/ Raise(w) \/ FailJob(w)
                                \/ ReadJob(w) \/ Ask(w) \/ Merge(w) \/ Confirm(w)
      PROVE  IInv'
  BY <1>6, WorkStep, MergeStep, ConfirmStep
<1>7. ASSUME NEW w \in Workers, Return(w) \/ WorkerDies(w) \/ Terminate(w) PROVE IInv'
  BY <1>7, ReturnStep
<1>8. CASE \E g \in Gens : Repeat(g)
  BY <1>8, MessageStep
<1>9. CASE Sync \/ Commit \/ CommitFails \/ \E u \in undo : Restore(u)
  BY <1>9, SyncStep, CommitStep, CommitFailsStep, RestoreStep
<1> QED
  BY <1>1, <1>2, <1>3, <1>4, <1>5, <1>6, <1>7, <1>8, <1>9
     DEF Next, Request, Transact, Failure, Carry, Work

(* What is claimed follows from the invariant. *)
LEMMA InvariantGivesTheVerdict == IInv => DatasetFollowsVerdict
  BY DEF IInv, JobInv, DatasetFollowsVerdict

(* The dataset is written once, by a job that stays completed, and, unless *)
(* a commit was refused, never for a task that failed or was cancelled.    *)
THEOREM VerdictFollowed ==
  ASSUME Sorts, IsFiniteSet(Workers)
  PROVE  Spec => []DatasetFollowsVerdict
<1>1. Init => IInv
  BY InitHolds
<1>2. IInv /\ [Next]_importVars => IInv'
  BY StepHolds
<1> QED
  BY <1>1, <1>2, InvariantGivesTheVerdict, PTL DEF Spec

---------------------------------------------------------------------------
(* The types: a worker only holds what the broker keeps for it, and a      *)
(* transaction that nobody has opened asks for nothing.                    *)

(* What the theorem asks of the constants. *)
Counts == Sorts /\ IsFiniteSet(Workers)

Held == /\ \A w \in Workers : wk[w].pc = "idle" => wk[w].gen = 0
        /\ \A g \in Gens : Busy(g) <= msgs[g]
NobodyAsks == tx.by = "nobody" => tx.want.gen = 0
TypeInv == Held /\ NobodyAsks

(* The workers keep their messages. *)
HoldersStay == \A w \in Workers : /\ wk'[w].gen = wk[w].gen
                                  /\ wk'[w].pc = "idle" => wk[w].pc = "idle"

(* Only numbers are counted. *)
LEMMA BusyCounts ==
  ASSUME Counts
  PROVE  \A g : Busy(g) \in Nat /\ Busy(g)' \in Nat
<1>1. ASSUME NEW S \in SUBSET Workers PROVE Cardinality(S) \in Nat
  BY <1>1, FS_Subset, FS_CardinalityType DEF Counts
<1> QED
  BY <1>1 DEF Busy

(* A worker that is free again holds one message less. *)
LEMMA FreedHolds ==
  ASSUME Counts, Types, NEW w \in Workers, wk' = [wk EXCEPT ![w] = Free], NEW g \in Gens
  PROVE  Busy(g)' = IF wk[w].gen = g THEN Busy(g) - 1 ELSE Busy(g)
<1> DEFINE S == {v \in Workers : wk[v].gen = g}
<1> DEFINE T == {v \in Workers : wk'[v].gen = g}
<1>1. wk'[w].gen = 0 /\ \A v \in Workers : v # w => wk'[v] = wk[v]
  BY DEF Types, Free
<1>2. g # 0
  BY DEF Gens, Counts, Sorts
<1>3. T = S \ {w}
  BY <1>1, <1>2
<1>4. IsFiniteSet(S)
  BY FS_Subset DEF Counts
<1>5. Busy(g) = Cardinality(S) /\ Busy(g)' = Cardinality(T)
  BY DEF Busy
<1>6. w \in S <=> wk[w].gen = g
  OBVIOUS
<1> HIDE DEF S, T
<1> QED
  BY <1>3, <1>4, <1>5, <1>6, FS_RemoveElement

(* A worker that takes a message holds one more. *)
LEMMA TakenHolds ==
  ASSUME Counts, Types, NEW w \in Workers, NEW r, wk' = [wk EXCEPT ![w] = r], wk[w].gen = 0,
         NEW g \in Gens
  PROVE  Busy(g)' = IF r.gen = g THEN Busy(g) + 1 ELSE Busy(g)
<1> DEFINE S == {v \in Workers : wk[v].gen = g}
<1> DEFINE T == {v \in Workers : wk'[v].gen = g}
<1>1. wk'[w] = r /\ \A v \in Workers : v # w => wk'[v] = wk[v]
  BY DEF Types
<1>2. g # 0
  BY DEF Gens, Counts, Sorts
<1>3. w \notin S /\ T = IF r.gen = g THEN S \cup {w} ELSE S
  BY <1>1, <1>2
<1>4. IsFiniteSet(S)
  BY FS_Subset DEF Counts
<1>5. Busy(g) = Cardinality(S) /\ Busy(g)' = Cardinality(T)
  BY DEF Busy
<1> HIDE DEF S, T
<1> QED
  BY <1>3, <1>4, <1>5, FS_AddElement

(* Whoever keeps what he holds, of a broker that drops nothing. *)
LEMMA StayHeld ==
  ASSUME Counts, Types, Held, HoldersStay,
         msgs' \in [Gens -> Int], \A g \in Gens : msgs[g] <= msgs'[g]
  PROVE  Held'
<1>1. \A g : Busy(g)' = Busy(g)
  <2>1. \A g : {v \in Workers : wk'[v].gen = g} = {v \in Workers : wk[v].gen = g}
    BY DEF HoldersStay
  <2> QED BY <2>1 DEF Busy
<1>2. \A g \in Gens : Busy(g) \in Int /\ msgs[g] \in Int /\ msgs'[g] \in Int
  BY BusyCounts DEF Types
<1> QED
  BY <1>1, <1>2 DEF Held, HoldersStay

(* A worker that is free again gives its message back, or leaves it. *)
LEMMA FreedHeld ==
  ASSUME Counts, Types, Held, NEW w \in Workers, wk' = [wk EXCEPT ![w] = Free],
         msgs' = msgs \/ msgs' = [msgs EXCEPT ![wk[w].gen] = @ - 1]
  PROVE  Held'
<1> DEFINE h == wk[w].gen
<1>1. wk'[w] = Free /\ \A v \in Workers : v # w => wk'[v] = wk[v]
  BY DEF Types
<1>2. \A g \in Gens : Busy(g)' = IF h = g THEN Busy(g) - 1 ELSE Busy(g)
  BY FreedHolds
<1>3. \A g \in Gens : msgs[g] \in Int /\ msgs'[g] \in {msgs[g], IF h = g THEN msgs[g] - 1 ELSE msgs[g]}
  BY DEF Types
<1>4. \A g \in Gens : Busy(g)' <= msgs'[g]
  <2> HIDE DEF h
  <2> SUFFICES ASSUME NEW g \in Gens PROVE Busy(g)' <= msgs'[g]
    OBVIOUS
  <2>1. Busy(g) \in Nat /\ Busy(g) <= msgs[g]
    BY BusyCounts DEF Held
  <2> QED BY <2>1, <1>2, <1>3
<1>5. \A v \in Workers : wk'[v].pc = "idle" => wk'[v].gen = 0
  BY <1>1 DEF Held, Free
<1> QED
  BY <1>4, <1>5 DEF Held

(* Whatever a step does to the workers, who opens a transaction is somebody. *)
LEMMA AsksKept ==
  ASSUME Counts, TypeInv, [Next]_importVars
  PROVE  NobodyAsks'
<1>1. CASE tx' = tx \/ tx' = NoTx
  BY <1>1 DEF TypeInv, NobodyAsks, NoTx, NoTask
<1>2. CASE \E a \in Workers \cup Clients \cup {"api"} : \E t, ok, bad : Open(a, t, ok, bad)
  <2>1. PICK a \in Workers \cup Clients \cup {"api"} : \E t, ok, bad : Open(a, t, ok, bad)
    BY <1>2
  <2>2. tx'.by = a
    BY <2>1 DEF Open, NoTx
  <2>3. a # "nobody"
    BY DEF Counts, Sorts
  <2> QED BY <2>2, <2>3 DEF NobodyAsks
<1>3. CASE Sync
  <2>1. tx.by # "nobody"
    BY <1>3 DEF Sync
  <2>2. tx'.by = tx.by
    BY <1>3 DEF Sync
  <2> QED BY <2>1, <2>2 DEF NobodyAsks
<1>4. ASSUME Request PROVE NobodyAsks'
  BY <1>1, <1>2, <1>4 DEF Request, Pause, Cancel, GetTask, TimeOut, CreateJob, Resume
<1>5. ASSUME NEW c \in Clients, Carry(c) PROVE NobodyAsks'
  BY <1>1, <1>2, <1>5 DEF Carry, Enqueue, Send, PublishFailed
<1>6. ASSUME NEW w \in Workers, Work(w) PROVE NobodyAsks'
  BY <1>1, <1>2, <1>6
     DEF Work, Take, Claim, Progress, Check, Item, Drain, Merge, FailJob, ReadJob, Ask, Settle,
         Confirm, Return
<1>7. ASSUME Commit \/ Failure \/ (\E u \in undo : Restore(u)) \/ UNCHANGED importVars
      PROVE  NobodyAsks'
  BY <1>1, <1>7 DEF Commit, Failure, CommitFails, ApiDies, Raise, WorkerDies, Terminate, Repeat,
                    Leave, Restore, importVars
<1> QED
  BY <1>3, <1>4, <1>5, <1>6, <1>7 DEF Next, Transact

(* A step beside the workers: the broker drops nothing. *)
LEMMA BesideHeld ==
  ASSUME Counts, IInv, IInv', Held, wk' = wk,
         msgs' = msgs \/ \E h : \E d \in {0, 1} : msgs' = [msgs EXCEPT ![h] = @ + d]
  PROVE  Held'
<1>1. \A g \in Gens : msgs[g] \in Int
  BY DEF IInv, Types
<1>2. ASSUME NEW h, NEW d \in {0, 1}, msgs' = [msgs EXCEPT ![h] = @ + d]
      PROVE  \A g \in Gens : msgs[g] <= msgs'[g]
  <2>1. \A g \in Gens : msgs'[g] = IF g = h THEN msgs[g] + d ELSE msgs[g]
    BY <1>2 DEF IInv, Types
  <2> QED BY <1>1, <2>1
<1>3. \A g \in Gens : msgs[g] <= msgs'[g]
  BY <1>1, <1>2
<1>4. HoldersStay
  BY DEF HoldersStay
<1>5. msgs' \in [Gens -> Int]
  BY DEF IInv, Types
<1> QED
  BY <1>3, <1>4, <1>5, StayHeld DEF IInv

(* A step of a worker that keeps its message. *)
LEMMA WorkerHeld ==
  ASSUME Counts, IInv, Held, HoldersStay, msgs' = msgs
  PROVE  Held'
<1>1. \A g \in Gens : msgs[g] \in Int /\ msgs'[g] = msgs[g]
  BY DEF IInv, Types
<1>2. msgs' \in [Gens -> Int] /\ \A g \in Gens : msgs[g] <= msgs'[g]
  BY <1>1 DEF IInv, Types
<1> QED
  BY <1>2, StayHeld DEF IInv

(* A worker goes on: it keeps its message. *)
LEMMA GoStays ==
  ASSUME Types, NEW w \in Workers, NEW r, wk' = [wk EXCEPT ![w] = r],
         r.gen = wk[w].gen, r.pc # "idle"
  PROVE  HoldersStay
<1>1. wk'[w] = r /\ \A v \in Workers : v # w => wk'[v] = wk[v]
  BY DEF Types
<1> QED
  BY <1>1 DEF HoldersStay

(* Requests, publications, restorations, and what happens to the broker. *)
LEMMA OthersTypes ==
  ASSUME Counts, IInv, IInv', Held,
         \/ Request \/ (\E c \in Clients : Carry(c)) \/ Sync \/ (\E u \in undo : Restore(u))
         \/ ApiDies \/ (\E g \in Gens : Repeat(g)) \/ UNCHANGED importVars
  PROVE  Held'
<1>1. CASE Request \/ (\E c \in Clients : Carry(c)) \/ Sync \/ (\E u \in undo : Restore(u))
           \/ (\E g \in Gens : Repeat(g)) \/ UNCHANGED importVars
  <2>1. wk' = wk
    BY <1>1 DEF Request, Pause, Cancel, GetTask, TimeOut, CreateJob, Resume, Carry, Enqueue, Send,
                PublishFailed, Sync, Restore, Repeat, importVars
  <2>2. msgs' = msgs \/ \E h : \E d \in {0, 1} : msgs' = [msgs EXCEPT ![h] = @ + d]
    BY <1>1 DEF Request, Pause, Cancel, GetTask, TimeOut, CreateJob, Resume, Carry, Enqueue, Send,
                PublishFailed, Sync, Restore, Repeat, importVars, broker
  <2> QED BY <2>1, <2>2, BesideHeld
<1>2. CASE ApiDies
  <2>1. wk' = wk /\ msgs' = msgs
    <3>1. tx.by \in Clients \cup {"api"} => tx.by \notin Workers
      BY DEF Counts, Sorts
    <3> QED BY <1>2, <3>1 DEF ApiDies, Leave, broker
  <2> QED BY <2>1, BesideHeld
<1> QED
  BY <1>1, <1>2

(* The end of a transaction lets the worker that opened it go on. *)
LEMMA EndTypes ==
  ASSUME Counts, IInv, Held, Commit \/ CommitFails
  PROVE  Held'
<1>1. PICK pc : Leave(pc) /\ pc \in {tx.ok, tx.bad, "refused"} /\ tx.by # "nobody" /\ msgs' = msgs
  BY DEF Commit, CommitFails, broker
<1>2. HoldersStay
  <2>1. CASE tx.by \notin Workers
    BY <1>1, <2>1 DEF Leave, HoldersStay
  <2>2. CASE tx.by \in Workers
    <3> DEFINE w == tx.by
               r == [wk[w] EXCEPT !.pc = pc]
    <3>1. wk' = [wk EXCEPT ![w] = r] /\ r.gen = wk[w].gen
      BY <1>1, <2>2 DEF Leave, IInv, Types, WorkerRecords
    <3>2. tx.ok # "idle" /\ tx.ok # "send"
      BY <1>1, <2>2 DEF IInv, TxInv, Counts, Sorts
    <3>3. tx.ok \in {"progress", "check", "confirm"}
      BY <3>2 DEF IInv, Types, Txs
    <3>4. tx.bad # "idle"
      BY <1>1, <3>3 DEF IInv, TxInv
    <3>5. r.pc # "idle"
      <4>1. r.pc = pc
        BY <2>2 DEF IInv, Types, WorkerRecords
      <4> QED BY <4>1, <1>1, <3>2, <3>4
    <3> HIDE DEF r
    <3> QED BY <2>2, <3>1, <3>5, GoStays DEF IInv
  <2> QED BY <2>1, <2>2
<1> QED
  BY <1>1, <1>2, WorkerHeld

(* A worker goes on. *)
LEMMA WorkTypes ==
  ASSUME Counts, IInv, Held, NEW w \in Workers,
         \/ Claim(w) \/ Progress(w) \/ Check(w) \/ Item(w) \/ Drain(w) \/ Merge(w) \/ FailJob(w)
         \/ ReadJob(w) \/ Ask(w) \/ Settle(w) \/ Confirm(w) \/ Raise(w)
  PROVE  Held'
<1>1. msgs' = msgs
  BY DEF Claim, Progress, Check, Item, Drain, Merge, FailJob, ReadJob, Ask, Settle, Confirm,
         Raise, broker
<1>2. HoldersStay
  <2>1. CASE Item(w) \/ ReadJob(w)
    <3>1. wk[w] = [pc |-> wk[w].pc, gen |-> wk[w].gen, left |-> wk[w].left, res |-> wk[w].res]
      BY DEF IInv, Types, WorkerRecords
    <3>2. wk = [v \in Workers |-> wk[v]]
      BY DEF IInv, Types
    <3>3. ASSUME NEW pc, NEW no, NEW s, pc # "idle",
                 \/ wk' = [wk EXCEPT ![w].pc = pc, ![w].left = no]
                 \/ wk' = [wk EXCEPT ![w].pc = pc, ![w].res = s]
          PROVE  HoldersStay
      <4>1. wk'[w].pc = pc /\ wk'[w].gen = wk[w].gen
        BY <3>1, <3>2, <3>3
      <4>2. \A v \in Workers : v # w => wk'[v] = wk[v]
        BY <3>2, <3>3
      <4> QED BY <3>3, <4>1, <4>2 DEF HoldersStay
    <3>4. CASE Item(w)
      <4>1. PICK no : no = FALSE
        OBVIOUS
      <4>2. wk' = [wk EXCEPT ![w].pc = "progress", ![w].left = no]
        BY <3>4, <4>1 DEF Item
      <4> QED BY <3>3, <4>2
    <3>5. CASE ReadJob(w)
      <4>1. \E s : wk' = [wk EXCEPT ![w].pc = "ask", ![w].res = s]
        BY <3>5 DEF ReadJob
      <4> QED BY <3>3, <4>1
    <3> QED BY <2>1, <3>4, <3>5
  <2>2. CASE ~Item(w) /\ ~ReadJob(w)
    <3>1. \E pc \in PCs \ {"idle"} : Go(w, pc)
      BY <2>2 DEF Claim, Progress, Check, Drain, Merge, FailJob, Ask, Settle, Confirm, Raise, PCs
    <3>2. PICK pc \in PCs \ {"idle"} : Go(w, pc)
      BY <3>1
    <3> DEFINE r == [wk[w] EXCEPT !.pc = pc]
    <3>3. wk' = [wk EXCEPT ![w] = r] /\ r.gen = wk[w].gen /\ r.pc = pc
      BY <3>2 DEF Go, IInv, Types, WorkerRecords
    <3> HIDE DEF r
    <3> QED BY <3>2, <3>3, GoStays DEF IInv
  <2> QED BY <2>1, <2>2
<1> QED
  BY <1>1, <1>2, WorkerHeld

(* A message is delivered, or dropped; a worker returns it, or dies. *)
LEMMA MessageTypes ==
  ASSUME Counts, IInv, Held, NEW w \in Workers,
         (\E g \in Gens : Take(w, g)) \/ Return(w) \/ WorkerDies(w) \/ Terminate(w)
  PROVE  Held'
<1>1. CASE Return(w) \/ WorkerDies(w) \/ Terminate(w)
  <2>1. /\ wk' = [wk EXCEPT ![w] = Free]
        /\ msgs' = msgs \/ msgs' = [msgs EXCEPT ![wk[w].gen] = @ - 1]
    BY <1>1 DEF Return, WorkerDies, Terminate, Ack, broker
  <2> QED BY <2>1, FreedHeld DEF IInv
<1>2. ASSUME NEW g \in Gens, Take(w, g) PROVE Held'
  <2>1. wk[w].gen = 0 /\ msgs[g] > Busy(g)
    BY <1>2 DEF Take, Held
  <2>2. \A h \in Gens : Busy(h) \in Int /\ msgs[h] \in Int /\ Busy(h) <= msgs[h]
    BY BusyCounts DEF IInv, Types, Held
  <2>3. CASE g \in revoked
    <3>1. wk' = wk /\ msgs' = [msgs EXCEPT ![g] = @ - 1]
      BY <1>2, <2>3 DEF Take
    <3>2. \A h \in Gens : Busy(h)' = Busy(h)
      BY <3>1 DEF Busy
    <3>3. \A h \in Gens : msgs'[h] = IF h = g THEN msgs[h] - 1 ELSE msgs[h]
      BY <3>1 DEF IInv, Types
    <3>4. \A h \in Gens : Busy(h)' <= msgs'[h]
      BY <2>1, <2>2, <3>2, <3>3
    <3> QED BY <3>1, <3>4 DEF Held
  <2>4. CASE g \notin revoked
    <3> DEFINE r == [pc |-> "got", gen |-> g, left |-> TRUE, res |-> "none"]
    <3>1. wk' = [wk EXCEPT ![w] = r] /\ msgs' = msgs
      BY <1>2, <2>4 DEF Take
    <3>2. r.gen = g /\ r.pc = "got"
      OBVIOUS
    <3> HIDE DEF r
    <3>3. \A h \in Gens : Busy(h)' = IF h = g THEN Busy(h) + 1 ELSE Busy(h)
      BY <2>1, <3>1, <3>2, TakenHolds DEF IInv
    <3>4. \A h \in Gens : Busy(h)' <= msgs'[h]
      BY <2>1, <2>2, <3>1, <3>3
    <3>5. wk'[w] = r /\ \A v \in Workers : v # w => wk'[v] = wk[v]
      BY <3>1 DEF IInv, Types
    <3> QED BY <3>2, <3>4, <3>5 DEF Held
  <2> QED BY <2>3, <2>4
<1> QED
  BY <1>1, <1>2

(* At first nobody holds anything. *)
LEMMA TypesInit == Counts /\ Init => TypeInv
<1> SUFFICES ASSUME Counts, Init PROVE TypeInv
  OBVIOUS
<1>1. ASSUME NEW g \in Gens PROVE Busy(g) = 0
  <2>1. {w \in Workers : wk[w].gen = g} = {}
    BY DEF Init, Free, Gens, Counts, Sorts
  <2> QED BY <2>1, FS_EmptySet DEF Busy
<1> QED
  BY <1>1 DEF Init, TypeInv, Held, NobodyAsks, Free, NoTx, NoTask

(* Every step keeps the types. *)
LEMMA TypesStep ==
  ASSUME Counts, IInv, IInv', TypeInv, [Next]_importVars
  PROVE  TypeInv'
<1>1. NobodyAsks'
  BY AsksKept
<1>2. Held'
  BY OthersTypes, EndTypes, WorkTypes, MessageTypes
     DEF TypeInv, Next, Transact, Failure, Work
<1> QED
  BY <1>1, <1>2 DEF TypeInv

(* The types follow. *)
LEMMA InvariantGivesTypes == Counts /\ IInv /\ TypeInv => TypeOK
  BY DEF Counts, Sorts, IInv, Types, Tasks, Txs, JobStates, GensInv, TxInv, TypeInv, Held,
         NobodyAsks, TypeOK
=============================================================================
