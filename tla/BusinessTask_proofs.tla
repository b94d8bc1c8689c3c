------------------------ MODULE BusinessTask_proofs ------------------------
(***************************************************************************)
(* Theorems about BusinessTask for any kinds of task, numbers of units,    *)
(* workers, clients, generations and faults.                               *)
(***************************************************************************)
EXTENDS BusinessTask, FiniteSetTheorems, TLAPS

Statuses == Live \cup Ended \cup {"none"}
PCs == Outside \cup {"read", "loop", "start", "unit", "end", "post", "posted", "error",
                      "keeping", "failing", "keep", "mark", "settle"}

Tasks == [status : Statuses, gen : Nat, stopped : BOOLEAN, by : Workers \cup {"nobody"}]
WorkerRecords == [pc : PCs, gen : Nat,
                  res : {"none", "running", "paused", "completed", "failed", "cancelled"}]
ClientRecords == [pc : {"idle", "link", "send", "unsent"}, resume : BOOLEAN, gen : Nat]

(* What a worker decides at the end, and what it asks of the task after. *)
Decided(r) == /\ r.pc = "end" => r.res \in {"paused", "completed", "failed"}
              /\ r.pc = "settle" => r.res \in Ended

Types ==
  /\ task \in Tasks /\ gens \in Nat /\ late \in Nat
  /\ wk \in [Workers -> WorkerRecords] /\ cl \in [Clients -> ClientRecords]
  /\ msgs \in [Gens -> Int]
  /\ \A w \in Workers : Decided(wk[w])

(* The worker has claimed its generation and has not returned. *)
Claimed(w) == Executing(w) \/ wk[w].pc \in {"confirm", "return"}

(* Nothing is in flight for a generation that does not exist yet, and the  *)
(* first generation belongs to the one request that created the row. *)
GensInv ==
  /\ \A w \in Workers : wk[w].pc # "idle" => wk[w].gen \in 1 .. gens
  /\ \A g \in Gens : msgs[g] > 0 => g <= gens
  /\ \A c \in Clients : cl[c].pc \in {"send", "unsent"} => cl[c].gen <= gens
  /\ \A c \in Clients : cl[c].pc = "link" => gens = 0 /\ row # "none" /\ kind = "benchmark"
  /\ \A c, d \in Clients : cl[c].pc = "link" /\ cl[d].pc = "link" => c = d
  /\ row = "none" => gens = 0
  /\ row = "gone" => kind # "benchmark"
  /\ gens = 0 => task.status = "none"
  /\ task.gen <= gens
  /\ task.status = "none" => gens = 0 \/ (row = "gone" /\ kind = "ab_test")

(* Who executes has claimed the current generation, alone. *)
ClaimInv ==
  /\ \A w \in Workers : Executing(w) =>
       /\ task.status # "pending" /\ ~task.stopped
       /\ task.status = "none" \/ task.gen = wk[w].gen
  /\ \A v, w \in Workers : Claimed(v) /\ Claimed(w) /\ wk[v].gen = wk[w].gen => v = w
  /\ \A v, w \in Workers : Executing(v) /\ Executing(w) => v = w
  /\ task.status = "pending" => \A w \in Workers : Claimed(w) => wk[w].gen # task.gen

(* The unit that begins late is the last one to begin. *)
LateInv ==
  /\ late <= 1
  /\ late = 1 => task.status # "running" /\ \A w \in Workers : wk[w].pc # "start"

IInv == Types /\ GensInv /\ ClaimInv /\ LateInv

---------------------------------------------------------------------------
(* What a step may do to the task and its row without waking anybody up *)

TaskFrame ==
  /\ task' \in Tasks /\ task'.gen \in {task.gen, 0}
  /\ task'.status = "pending" => task.status = "pending" /\ task'.gen = task.gen
  /\ task'.status = "running" => task.status = "running"
  /\ task'.stopped => task.stopped
  /\ task'.status = "none" \/ task'.gen = task.gen
  /\ task.status = "none" => task'.status = "none"
  /\ task'.status = "none" => task.status = "none" \/ (row' = "gone" /\ kind = "ab_test")
  /\ row' = "none" => row = "none"
  /\ row' = "gone" => row = "gone" \/ kind # "benchmark"
  /\ row = "gone" /\ kind = "ab_test" => row' = "gone"

(* No worker gets a generation, none begins to execute. *)
WorkersFrame ==
  /\ wk' \in [Workers -> WorkerRecords]
  /\ \A w \in Workers :
       /\ wk'[w].pc # "idle" => wk[w].pc # "idle" /\ wk'[w].gen = wk[w].gen
       /\ Executing(w)' => Executing(w)
       /\ Claimed(w)' => Claimed(w)
       /\ Decided(wk'[w])

NoneStarts == \A w \in Workers : wk'[w].pc = "start" => wk[w].pc = "start"

(* A step that touches neither task nor row is within the frame. *)
LEMMA SameFrame == ASSUME Types, Same PROVE TaskFrame
  BY DEF Types, Same, TaskFrame

(* So is a verdict or a pause of a task that exists. *)
LEMMA StatusFrame ==
  ASSUME Types, NEW s \in Ended \cup {"paused"}, task.status # "none", Status(s)
  PROVE  TaskFrame
<1>1. task' = [task EXCEPT !.status = s] /\ row' = IF row = "gone" THEN row ELSE s
  BY DEF Status
<1>2. /\ task'.status = s /\ task'.gen = task.gen /\ task'.stopped = task.stopped
      /\ task' \in Tasks
  BY <1>1 DEF Types, Tasks, Statuses, Live
<1>3. s \notin {"none", "pending", "running", "gone"}
  BY DEF Ended
<1>4. row' \in {row, s} /\ (row = "gone" => row' = "gone")
  BY <1>1
<1> QED
  BY <1>2, <1>3, <1>4 DEF TaskFrame

(* So is update_task_status, whether it yields or not. *)
LEMMA UpdateFrame ==
  ASSUME Types, NEW s \in Ended \cup {"paused"}, Update(s)
  PROVE  TaskFrame
<1>1. CASE Blocked(s)
  BY <1>1, SameFrame DEF Update
<1>2. CASE ~Blocked(s)
  BY <1>2, StatusFrame DEF Update, Blocked
<1> QED
  BY <1>1, <1>2

(* A worker moves on without beginning to execute. *)
LEMMA MoveFrame ==
  ASSUME Types, NEW w \in Workers, NEW r \in WorkerRecords,
         wk' = [wk EXCEPT ![w] = r],
         r.pc = "idle" \/ (wk[w].pc # "idle" /\ r.gen = wk[w].gen),
         r.pc \notin Outside => Executing(w),
         r.pc \in {"confirm", "return"} => Claimed(w),
         Decided(r)
  PROVE  WorkersFrame
<1>1. wk' \in [Workers -> WorkerRecords] /\ wk'[w] = r
  BY DEF Types
<1>2. \A v \in Workers : v # w => wk'[v] = wk[v]
  BY DEF Types
<1> QED
  BY <1>1, <1>2 DEF WorkersFrame, Executing, Claimed, Types, Outside

(* The same for a step that changes nothing but the place. *)
LEMMA GoFrame ==
  ASSUME Types, NEW w \in Workers, NEW pc \in PCs, Go(w, pc), wk[w].pc # "idle",
         pc \notin {"end", "settle"}, pc \notin Outside => Executing(w),
         pc \in {"confirm", "return"} => Claimed(w)
  PROVE  WorkersFrame /\ (pc # "start" => NoneStarts)
<1> DEFINE r == [wk[w] EXCEPT !.pc = pc]
<1>1. r \in WorkerRecords /\ r.pc = pc /\ r.gen = wk[w].gen /\ Decided(r)
  BY DEF Types, WorkerRecords, Decided
<1>2. wk' = [wk EXCEPT ![w] = r]
  BY DEF Go
<1> HIDE DEF r
<1>3. WorkersFrame
  BY <1>1, <1>2, MoveFrame
<1>4. wk'[w] = r /\ \A v \in Workers : v # w => wk'[v] = wk[v]
  BY <1>2 DEF Types
<1> QED
  BY <1>1, <1>3, <1>4 DEF NoneStarts

(* An executor decides: it executes no more than before. *)
LEMMA ResultFrame ==
  ASSUME Types, NEW w \in Workers, NEW s \in {"paused", "completed", "failed"}, Result(w, s),
         Executing(w)
  PROVE  WorkersFrame /\ NoneStarts
<1> DEFINE r == [wk[w] EXCEPT !.pc = "end", !.res = s]
<1>1. r \in WorkerRecords /\ r.pc = "end" /\ r.gen = wk[w].gen /\ Decided(r)
  BY DEF Types, WorkerRecords, PCs, Decided, Outside
<1>2. wk' = [wk EXCEPT ![w] = r]
  BY DEF Result, Types, WorkerRecords
<1> HIDE DEF r
<1>3. WorkersFrame
  BY <1>1, <1>2, MoveFrame DEF Executing, Outside
<1>4. wk'[w] = r /\ \A v \in Workers : v # w => wk'[v] = wk[v]
  BY <1>2 DEF Types
<1> QED
  BY <1>1, <1>3, <1>4 DEF NoneStarts

(* One that asks for an end of the task goes on to ask. *)
LEMMA SettlingFrame ==
  ASSUME Types, NEW w \in Workers, NEW s \in Ended, Settling(w, s), Executing(w)
  PROVE  WorkersFrame /\ NoneStarts
<1> DEFINE r == [wk[w] EXCEPT !.pc = "settle", !.res = s]
<1>1. r \in WorkerRecords /\ r.pc = "settle" /\ r.gen = wk[w].gen /\ Decided(r)
  BY DEF Types, WorkerRecords, PCs, Decided, Ended, Outside
<1>2. wk' = [wk EXCEPT ![w] = r]
  BY DEF Settling, Types, WorkerRecords
<1> HIDE DEF r
<1>3. WorkersFrame
  BY <1>1, <1>2, MoveFrame DEF Executing, Outside
<1>4. wk'[w] = r /\ \A v \in Workers : v # w => wk'[v] = wk[v]
  BY <1>2 DEF Types
<1> QED
  BY <1>1, <1>3, <1>4 DEF NoneStarts

(* And one that has read the run of a benchmark. *)
LEMMA PostRowFrame ==
  ASSUME Types, NEW w \in Workers, PostRow(w)
  PROVE  WorkersFrame /\ NoneStarts
<1> DEFINE known == {"running", "paused", "completed", "cancelled"}
           r == [wk[w] EXCEPT !.pc = "posted", !.res = IF row \in known THEN row ELSE "failed"]
<1>1. r \in WorkerRecords /\ r.pc = "posted" /\ r.gen = wk[w].gen /\ Decided(r)
  BY DEF Types, WorkerRecords, PCs, Decided, Outside
<1>2. wk' = [wk EXCEPT ![w] = r] /\ wk[w].pc = "post"
  BY DEF PostRow, Types, WorkerRecords
<1> HIDE DEF r
<1>3. WorkersFrame
  BY <1>1, <1>2, MoveFrame DEF Executing, Outside
<1>4. wk'[w] = r /\ \A v \in Workers : v # w => wk'[v] = wk[v]
  BY <1>2 DEF Types
<1> QED
  BY <1>1, <1>3, <1>4 DEF NoneStarts

(* A worker that is free again holds nothing. *)
LEMMA FreeFrame ==
  ASSUME Types, NEW w \in Workers, wk' = [wk EXCEPT ![w] = Free]
  PROVE  WorkersFrame /\ NoneStarts
<1>1. Free \in WorkerRecords /\ Free.pc = "idle" /\ Decided(Free)
  BY DEF Free, WorkerRecords, PCs, Outside, Decided
<1>2. WorkersFrame
  BY <1>1, MoveFrame DEF Outside
<1>3. wk'[w] = Free /\ \A v \in Workers : v # w => wk'[v] = wk[v]
  BY DEF Types
<1> QED
  BY <1>1, <1>2, <1>3 DEF NoneStarts

(* The workers stay as they are. *)
LEMMA IdleFrame == ASSUME Types, wk' = wk PROVE WorkersFrame /\ NoneStarts
  BY DEF Types, WorkersFrame, NoneStarts, Executing, Claimed, Outside

(* Clients and broker hold on to no generation that they did not hold. *)
TrafficFrame ==
  /\ cl' \in [Clients -> ClientRecords] /\ msgs' \in [Gens -> Int]
  /\ \A c \in Clients :
       /\ cl'[c].pc \in {"send", "unsent"} =>
            cl[c].pc \in {"send", "unsent"} /\ cl'[c].gen = cl[c].gen
       /\ cl'[c].pc = "link" => cl[c].pc = "link"
  /\ \A g \in Gens : msgs'[g] > 0 => msgs[g] > 0

(* Counting a message off, or one more, keeps the counts counts. *)
LEMMA CountDown ==
  ASSUME NEW f \in [Gens -> Int], NEW h
  PROVE  /\ [f EXCEPT ![h] = @ - 1] \in [Gens -> Int]
         /\ \A g \in Gens : [f EXCEPT ![h] = @ - 1][g] > 0 => f[g] > 0
<1> DEFINE q == [f EXCEPT ![h] = @ - 1]
<1>1. q = [g \in Gens |-> IF g = h THEN f[g] - 1 ELSE f[g]]
  OBVIOUS
<1>2. \A g \in Gens : f[g] \in Int /\ f[g] - 1 \in Int
  OBVIOUS
<1> HIDE DEF q
<1>3. q \in [Gens -> Int]
  BY <1>1, <1>2
<1>4. \A g \in Gens : q[g] = IF g = h THEN f[g] - 1 ELSE f[g]
  BY <1>1
<1> QED
  BY <1>2, <1>3, <1>4 DEF q

(* One more of a message that is there. *)
LEMMA CountUp ==
  ASSUME NEW f \in [Gens -> Int], NEW h
  PROVE  /\ [f EXCEPT ![h] = @ + 1] \in [Gens -> Int]
         /\ \A g \in Gens : g = h \/ [f EXCEPT ![h] = @ + 1][g] = f[g]
<1> DEFINE q == [f EXCEPT ![h] = @ + 1]
<1>1. q = [g \in Gens |-> IF g = h THEN f[g] + 1 ELSE f[g]]
  OBVIOUS
<1>2. \A g \in Gens : f[g] \in Int /\ f[g] + 1 \in Int
  OBVIOUS
<1> HIDE DEF q
<1>3. q \in [Gens -> Int]
  BY <1>1, <1>2
<1>4. \A g \in Gens : q[g] = IF g = h THEN f[g] + 1 ELSE f[g]
  BY <1>1
<1> QED
  BY <1>2, <1>3, <1>4 DEF q

(* An acknowledgement is within both frames. *)
LEMMA AckFrame ==
  ASSUME Types, NEW w \in Workers, NEW o, Ack(w, o), cl' = cl
  PROVE  WorkersFrame /\ NoneStarts /\ TrafficFrame /\ gens' = gens
<1>1. wk' = [wk EXCEPT ![w] = Free] /\ msgs' = [msgs EXCEPT ![wk[w].gen] = @ - 1] /\ gens' = gens
  BY DEF Ack
<1>2. msgs' \in [Gens -> Int] /\ \A g \in Gens : msgs'[g] > 0 => msgs[g] > 0
  BY <1>1, CountDown DEF Types
<1>3. WorkersFrame /\ NoneStarts
  BY <1>1, FreeFrame
<1>4. TrafficFrame
  BY <1>2 DEF TrafficFrame, Types
<1> QED
  BY <1>1, <1>3, <1>4

(* Clients and broker stay as they are. *)
LEMMA QuietFrame == ASSUME Types, cl' = cl, msgs' = msgs PROVE TrafficFrame
  BY DEF Types, TrafficFrame

---------------------------------------------------------------------------
(* Steps within the frames keep the invariant, each part by itself. *)

(* The types hold after a step within the frames. *)
LEMMA TypesKept ==
  ASSUME Types, TaskFrame, WorkersFrame, TrafficFrame, gens' = gens, late' = late
  PROVE  Types'
  BY DEF Types, TaskFrame, WorkersFrame, TrafficFrame

(* So does what is said of the generations ... *)
LEMMA GensKept ==
  ASSUME Types, GensInv, TaskFrame, WorkersFrame, TrafficFrame, gens' = gens, kind' = kind
  PROVE  GensInv'
<1>1. 0 <= gens
  BY DEF Types
<1> QED
  BY <1>1 DEF GensInv, TaskFrame, WorkersFrame, TrafficFrame

(* ... and of the claims ... *)
LEMMA ClaimKept ==
  ASSUME ClaimInv, TaskFrame, WorkersFrame
  PROVE  ClaimInv'
<1>1. \A w \in Workers : Claimed(w)' => Claimed(w) /\ wk'[w].gen = wk[w].gen
  BY DEF WorkersFrame, Claimed, Executing, Outside
<1>2. \A w \in Workers : Executing(w)' => Executing(w) /\ wk'[w].gen = wk[w].gen
  BY DEF WorkersFrame, Executing, Outside
<1>3. \A w \in Workers : Executing(w)' =>
        task'.status # "pending" /\ ~task'.stopped /\ (task'.status = "none" \/ task'.gen = wk'[w].gen)
  BY <1>2 DEF ClaimInv, TaskFrame
<1>4. task'.status = "pending" => \A w \in Workers : Claimed(w)' => wk'[w].gen # task'.gen
  BY <1>1 DEF ClaimInv, TaskFrame
<1>5. \A v, w \in Workers : Claimed(v)' /\ Claimed(w)' /\ wk'[v].gen = wk'[w].gen => v = w
  BY <1>1 DEF ClaimInv
<1>6. \A v, w \in Workers : Executing(v)' /\ Executing(w)' => v = w
  BY <1>2 DEF ClaimInv
<1> QED
  BY <1>3, <1>4, <1>5, <1>6 DEF ClaimInv

(* ... and of the late unit. *)
LEMMA LateKept ==
  ASSUME LateInv, TaskFrame, NoneStarts, late' = late
  PROVE  LateInv'
  BY DEF LateInv, TaskFrame, NoneStarts

(* Together: a step within all the frames. *)
LEMMA Kept ==
  ASSUME IInv, TaskFrame, WorkersFrame, NoneStarts, TrafficFrame,
         gens' = gens, late' = late, kind' = kind
  PROVE  IInv'
  BY TypesKept, GensKept, ClaimKept, LateKept DEF IInv

---------------------------------------------------------------------------
(* The steps that leave the frames *)

(* The first commit of a row: there is no generation yet. *)
LEMMA CreateStep ==
  ASSUME IInv, NEW c \in Clients, Create(c)
  PROVE  IInv'
<1>1. /\ row = "none" /\ row' = "pending" /\ cl[c].pc = "idle"
      /\ cl' = cl \/ (kind = "benchmark" /\ cl' = [cl EXCEPT ![c].pc = "link"])
      /\ UNCHANGED <<kind, task, gens, msgs, wk, late>>
  BY DEF Create, broker
<1>2. cl' \in [Clients -> ClientRecords]
  BY <1>1 DEF IInv, Types, ClientRecords
<1>3. \A d \in Clients : /\ cl'[d].pc \in {"send", "unsent"} => cl'[d] = cl[d]
                         /\ cl'[d].pc = "link" => (d = c /\ kind = "benchmark")
  BY <1>1 DEF IInv, Types, ClientRecords, GensInv
<1>4. WorkersFrame /\ NoneStarts
  BY <1>1, IdleFrame DEF IInv
<1>5. Types'
  BY <1>1, <1>2 DEF IInv, Types
<1>6. GensInv'
  BY <1>1, <1>3 DEF IInv, GensInv
<1>7. TaskFrame
  BY <1>1 DEF TaskFrame, IInv, Types
<1> QED
  BY <1>1, <1>4, <1>5, <1>6, <1>7, ClaimKept, LateKept DEF IInv

(* The message of the current generation is published. *)
LEMMA SendStep ==
  ASSUME IInv, NEW c \in Clients, Send(c)
  PROVE  IInv'
<1>1. /\ cl[c].pc = "send" /\ UNCHANGED <<kind, row, task, gens, wk, late>>
      /\ msgs' = msgs \/ msgs' = [msgs EXCEPT ![cl[c].gen] = @ + 1]
      /\ cl' = [cl EXCEPT ![c] = NoCall] \/ cl' = [cl EXCEPT ![c].pc = "unsent"]
  BY DEF Send
<1>2. cl' \in [Clients -> ClientRecords] /\ msgs' \in [Gens -> Int]
  <2>1. msgs' \in [Gens -> Int]
    BY <1>1, CountUp DEF IInv, Types
  <2>2. NoCall \in ClientRecords /\ [cl[c] EXCEPT !.pc = "unsent"] \in ClientRecords
    BY DEF IInv, Types, ClientRecords, NoCall
  <2>3. cl' \in [Clients -> ClientRecords]
    BY <1>1, <2>2 DEF IInv, Types
  <2> QED BY <2>1, <2>3
<1>3. \A d \in Clients : /\ cl'[d].pc \in {"send", "unsent"} =>
                              cl[d].pc \in {"send", "unsent"} /\ cl'[d].gen = cl[d].gen
                         /\ cl'[d].pc = "link" => cl[d].pc = "link"
  BY <1>1 DEF IInv, Types, ClientRecords, NoCall
<1>4. cl[c].gen <= gens
  BY <1>1 DEF IInv, GensInv
<1>5. \A g \in Gens : msgs'[g] > 0 => g <= gens
  BY <1>1, <1>4, CountUp DEF IInv, Types, GensInv
<1>6. WorkersFrame /\ NoneStarts /\ TaskFrame
  BY <1>1, IdleFrame, SameFrame DEF IInv, Same
<1>7. Types'
  BY <1>1, <1>2 DEF IInv, Types
<1>8. GensInv'
  BY <1>1, <1>3, <1>5 DEF IInv, GensInv
<1> QED
  BY <1>1, <1>6, <1>7, <1>8, ClaimKept, LateKept DEF IInv

(* A message reaches a worker: its generation exists. *)
LEMMA TakeStep ==
  ASSUME IsFiniteSet(Workers), IInv, NEW w \in Workers, NEW g \in Gens, Take(w, g)
  PROVE  IInv'
<1>1. /\ wk[w].pc = "idle" /\ msgs[g] > Busy(g)
      /\ UNCHANGED <<kind, row, task, gens, cl, late>>
  BY DEF Take
<1>2. Busy(g) \in Nat
  <2>1. {v \in Workers : wk[v].gen = g} \subseteq Workers
    OBVIOUS
  <2> QED BY <2>1, FS_Subset, FS_CardinalityType DEF Busy
<1>3. msgs[g] > 0 /\ g \in 1 .. gens
  BY <1>1, <1>2 DEF IInv, Types, GensInv, Gens
<1>4. TaskFrame
  BY <1>1, SameFrame DEF IInv, Same
<1>5. CASE wk' = wk
  <2>1. msgs' = [msgs EXCEPT ![g] = @ - 1]
    BY <1>5, <1>1 DEF Take, KeptTillDone, IInv, Types
  <2>2. TrafficFrame
    BY <1>1, <2>1 DEF TrafficFrame, IInv, Types
  <2> QED BY <1>1, <1>4, <1>5, <2>2, IdleFrame, Kept DEF IInv
<1>6. CASE wk' # wk
  <2> DEFINE r == [pc |-> "got", gen |-> g, res |-> "none"]
  <2>1. wk' = [wk EXCEPT ![w] = r] /\ msgs' = msgs
    BY <1>6 DEF Take, KeptTillDone
  <2>2. r \in WorkerRecords /\ r.pc = "got" /\ r.gen = g /\ Decided(r)
    BY <1>3 DEF WorkerRecords, PCs, Gens, Outside, Decided
  <2> HIDE DEF r
  <2>3. wk' \in [Workers -> WorkerRecords] /\ wk'[w] = r /\ \A v \in Workers : v # w => wk'[v] = wk[v]
    BY <2>1, <2>2 DEF IInv, Types
  <2>4. Types'
    BY <1>1, <2>1, <2>2, <2>3 DEF IInv, Types
  <2>5. GensInv'
    BY <1>1, <1>3, <2>1, <2>2, <2>3 DEF IInv, GensInv
  <2>6. /\ \A v \in Workers : Executing(v)' => v # w /\ Executing(v)
        /\ \A v \in Workers : Claimed(v)' => v # w /\ Claimed(v)
        /\ NoneStarts
    BY <2>2, <2>3 DEF Executing, Claimed, NoneStarts, Outside
  <2>7. ClaimInv'
    BY <1>1, <2>3, <2>6 DEF IInv, ClaimInv
  <2> QED BY <1>1, <1>4, <2>4, <2>5, <2>6, <2>7, LateKept DEF IInv
<1> QED
  BY <1>5, <1>6

(* A new generation: nobody executes, nobody holds it. *)
LEMMA NewGeneration ==
  ASSUME IInv, NEW c \in Clients, NEW resume \in BOOLEAN,
         \A w \in Workers : ~Executing(w),
         \A d \in Clients : cl[d].pc = "link" => d = c,
         gens' = gens + 1, task' \in Tasks, task'.status = "pending", task'.gen = gens',
         row' \notin {"none", "gone"},
         cl' = [cl EXCEPT ![c] = [pc |-> "send", resume |-> resume, gen |-> gens']],
         UNCHANGED <<kind, msgs, wk, late>>
  PROVE  IInv'
<1>1. gens \in Nat /\ gens' \in Nat
  BY DEF IInv, Types
<1> DEFINE r == [pc |-> "send", resume |-> resume, gen |-> gens']
<1>2. r \in ClientRecords /\ r.pc = "send" /\ r.gen = gens'
  BY <1>1 DEF ClientRecords
<1> HIDE DEF r
<1>3. cl' \in [Clients -> ClientRecords] /\ cl'[c] = r /\ \A d \in Clients : d # c => cl'[d] = cl[d]
  BY <1>2 DEF IInv, Types, r
<1>4. Types'
  BY <1>1, <1>3 DEF IInv, Types
<1>5. GensInv'
  <2>1. \A w \in Workers : wk[w].pc # "idle" => wk[w].gen \in 1 .. gens'
    BY <1>1 DEF IInv, GensInv
  <2>2. \A g \in Gens : msgs[g] > 0 => g <= gens'
    BY <1>1 DEF IInv, GensInv, Gens
  <2>3. \A d \in Clients : cl'[d].pc \in {"send", "unsent"} => cl'[d].gen <= gens'
    BY <1>1, <1>2, <1>3 DEF IInv, Types, ClientRecords, GensInv
  <2>4. \A d \in Clients : cl'[d].pc # "link"
    BY <1>2, <1>3
  <2> QED BY <1>1, <2>1, <2>2, <2>3, <2>4 DEF GensInv
<1>6. ClaimInv'
  <2>1. \A w \in Workers : Claimed(w) => wk[w].gen # gens'
    BY <1>1 DEF IInv, GensInv, Claimed, Executing, Outside
  <2> QED BY <2>1 DEF IInv, ClaimInv, Claimed, Executing, Outside
<1>7. LateInv'
  BY DEF IInv, LateInv
<1> QED
  BY <1>4, <1>5, <1>6, <1>7 DEF IInv

(* Start: the first generation, or the only one of a new task row. *)
LEMMA StartStep ==
  ASSUME IInv, NEW c \in Clients, Start(c)
  PROVE  IInv'
<1>1. /\ gens' = gens + 1 /\ task' = [NoTask EXCEPT !.status = "pending", !.gen = gens']
      /\ cl' = [cl EXCEPT ![c] = [pc |-> "send", resume |-> FALSE, gen |-> gens']]
      /\ UNCHANGED <<kind, row, msgs, wk, late>>
      /\ \/ kind = "benchmark" /\ cl[c].pc = "link"
         \/ kind # "benchmark" /\ row = "pending" /\ task = NoTask
  BY DEF Start
<1>2. gens = 0 /\ row \notin {"none", "gone"}
  <2>1. CASE cl[c].pc = "link"
    BY <2>1 DEF IInv, GensInv
  <2>2. CASE row = "pending" /\ task = NoTask
    BY <2>2 DEF IInv, GensInv, NoTask
  <2> QED BY <1>1, <2>1, <2>2
<1>3. \A w \in Workers : ~Executing(w)
  BY <1>2 DEF IInv, GensInv, Executing, Outside
<1>4. gens' \in Nat
  BY <1>1 DEF IInv, Types
<1>5. task' = [status |-> "pending", gen |-> gens', stopped |-> FALSE, by |-> "nobody"]
  BY <1>1 DEF NoTask
<1>6. task' \in Tasks /\ task'.status = "pending" /\ task'.gen = gens'
  BY <1>4, <1>5 DEF Tasks, Statuses, Live
<1>7. \A d \in Clients : cl[d].pc = "link" => d = c
  BY <1>1 DEF IInv, GensInv
<1> QED
  BY <1>1, <1>2, <1>3, <1>6, <1>7, NewGeneration

(* Resume: nobody executes, for the stop was confirmed. *)
LEMMA ResumeStep ==
  ASSUME IInv, NEW c \in Clients, Resume(c)
  PROVE  IInv'
<1>1. /\ gens' = gens + 1 /\ row' = "pending" /\ MayResume
      /\ task' = [task EXCEPT !.status = "pending", !.gen = gens']
      /\ cl' = [cl EXCEPT ![c] = [pc |-> "send", resume |-> TRUE, gen |-> gens']]
      /\ UNCHANGED <<kind, msgs, wk, late>>
  BY DEF Resume
<1>2. gens' \in Nat /\ task \in Tasks
  BY <1>1 DEF IInv, Types
<1>3. task' \in Tasks /\ task'.status = "pending" /\ task'.gen = gens'
  BY <1>1, <1>2 DEF Tasks, Statuses, Live
<1>4. \A w \in Workers : ~Executing(w)
  BY <1>1 DEF IInv, ClaimInv, MayResume
<1>5. \A d \in Clients : cl[d].pc # "link"
  BY <1>1, <1>2 DEF IInv, GensInv, MayResume, Tasks
<1> QED
  BY <1>1, <1>3, <1>4, <1>5, NewGeneration

(* The claim: the generation was pending, so nobody else has claimed it. *)
LEMMA ClaimStep ==
  ASSUME IInv, NEW w \in Workers, Claim(w)
  PROVE  IInv'
<1>1. /\ wk[w].pc = "got" /\ task.status = "pending" /\ task.gen = wk[w].gen
      /\ task' = [task EXCEPT !.status = "running", !.stopped = FALSE, !.by = w]
      /\ row' = IF row = "gone" THEN row ELSE "running"
      /\ late' = 0 /\ UNCHANGED <<kind, gens, msgs, cl>>
  BY DEF Claim, Claimable, broker
<1> DEFINE pc == IF kind = "ab_test" THEN "loop" ELSE "read"
           r == [wk[w] EXCEPT !.pc = pc]
<1>2. r \in WorkerRecords /\ r.pc \in {"loop", "read"} /\ r.gen = wk[w].gen /\ Decided(r)
  BY DEF IInv, Types, WorkerRecords, PCs, Outside, Decided
<1>3. wk' = [wk EXCEPT ![w] = r]
  BY DEF Claim, Go
<1> HIDE DEF pc, r
<1>4. wk' \in [Workers -> WorkerRecords] /\ wk'[w] = r /\ \A v \in Workers : v # w => wk'[v] = wk[v]
  BY <1>2, <1>3 DEF IInv, Types
<1>5. /\ task' \in Tasks /\ task'.status = "running" /\ ~task'.stopped
      /\ task'.gen = task.gen
  BY <1>1 DEF IInv, Types, Tasks, Statuses, Live
<1>6. Types'
  BY <1>1, <1>2, <1>4, <1>5 DEF IInv, Types
<1>7. GensInv'
  BY <1>1, <1>2, <1>4, <1>5 DEF IInv, GensInv
<1>8. \A v \in Workers : v # w => (Executing(v)' <=> Executing(v)) /\ (Claimed(v)' <=> Claimed(v))
  BY <1>4 DEF Executing, Claimed, Outside
<1>9. \A v \in Workers : v # w => ~Executing(v) /\ (Claimed(v) => wk[v].gen # wk[w].gen)
  BY <1>1 DEF IInv, ClaimInv
<1>10. ClaimInv'
  <2>1. \A v \in Workers : Executing(v)' => v = w
    BY <1>8, <1>9
  <2>2. \A u, v \in Workers : Claimed(u)' /\ Claimed(v)' /\ wk'[u].gen = wk'[v].gen => u = v
    BY <1>2, <1>4, <1>8, <1>9 DEF IInv, ClaimInv
  <2> QED BY <1>1, <1>2, <1>4, <1>5, <2>1, <2>2 DEF ClaimInv
<1>11. LateInv'
  BY <1>1 DEF LateInv
<1> QED
  BY <1>6, <1>7, <1>10, <1>11 DEF IInv

(* Before a unit: a worker that goes on has seen its own generation running. *)
LEMMA CheckStep ==
  ASSUME IInv, NEW w \in Workers, Check(w)
  PROVE  IInv'
<1>1. wk[w].pc = "loop" /\ UNCHANGED <<kind, row, task, gens, msgs, cl, late>>
  BY DEF Check, broker
<1>2. Executing(w) /\ TaskFrame /\ TrafficFrame
  BY <1>1, SameFrame, QuietFrame DEF Executing, IInv, Same, Outside
<1>3. CASE Result(w, "paused")
  <2>1. WorkersFrame /\ NoneStarts
    BY <1>2, <1>3, ResultFrame DEF IInv
  <2> QED BY <1>1, <1>2, <2>1, Kept
<1>4. CASE ~Stopped(w) /\ Go(w, "start")
  <2>1. WorkersFrame
    BY <1>1, <1>2, <1>4, GoFrame DEF IInv, PCs, Outside
  <2>2. task.status = "running"
    <3>1. gens # 0
      BY <1>1 DEF IInv, GensInv, Types
    <3> QED BY <1>4, <3>1 DEF Stopped, IInv, GensInv, NoTask
  <2>3. late # 1
    BY <2>2 DEF IInv, LateInv
  <2>4. LateInv'
    BY <1>1, <2>3 DEF IInv, LateInv
  <2> QED BY <1>1, <1>2, <2>1, <2>4, TypesKept, GensKept, ClaimKept DEF IInv
<1> QED
  BY <1>3, <1>4 DEF Check

(* A unit begins: late at most once, since its worker alone was about to. *)
LEMMA StartUnitStep ==
  ASSUME IInv, NEW w \in Workers, StartUnit(w)
  PROVE  IInv'
<1>1. /\ wk[w].pc = "start" /\ Go(w, "unit") /\ UNCHANGED <<kind, row, task, gens, msgs, cl>>
      /\ late' = IF task.status = "running" THEN 0 ELSE late + 1
  BY DEF StartUnit, broker
<1>2. Executing(w) /\ TaskFrame /\ TrafficFrame
  BY <1>1, SameFrame, QuietFrame DEF Executing, IInv, Same, Outside
<1>3. WorkersFrame
  BY <1>1, <1>2, GoFrame DEF IInv, PCs, Outside
<1>4. late = 0
  BY <1>1 DEF IInv, Types, LateInv
<1>5. wk'[w].pc = "unit" /\ \A v \in Workers : v # w => wk'[v] = wk[v]
  BY <1>1 DEF Go, IInv, Types, WorkerRecords
<1>6. \A v \in Workers : wk[v].pc = "start" => v = w
  BY <1>1 DEF IInv, ClaimInv, Executing, Outside
<1>7. LateInv'
  BY <1>1, <1>4, <1>5, <1>6 DEF LateInv
<1>8. Types'
  BY <1>1, <1>2, <1>3, <1>4 DEF IInv, Types, TaskFrame, WorkersFrame, TrafficFrame
<1> QED
  BY <1>1, <1>2, <1>3, <1>7, <1>8, GensKept, ClaimKept DEF IInv

(* The stop is confirmed by the one worker that had claimed the generation. *)
LEMMA ConfirmStep ==
  ASSUME IInv, NEW w \in Workers, Confirm(w)
  PROVE  IInv'
<1>1. /\ wk[w].pc = "confirm" /\ Go(w, "return") /\ UNCHANGED <<kind, row, gens, msgs, cl, late>>
      /\ task' = IF Confirms(w) THEN [task EXCEPT !.stopped = TRUE] ELSE task
  BY DEF Confirm, broker
<1>2. Claimed(w) /\ ~Executing(w) /\ TrafficFrame
  BY <1>1, QuietFrame DEF Claimed, Executing, IInv, Outside
<1>3. WorkersFrame /\ NoneStarts
  BY <1>1, <1>2, GoFrame DEF IInv, PCs, Outside
<1>4. CASE ~Confirms(w)
  <2>1. TaskFrame
    BY <1>1, <1>4, SameFrame DEF IInv, Same
  <2> QED BY <1>1, <1>2, <1>3, <2>1, Kept
<1>5. CASE Confirms(w)
  <2>1. \A v \in Workers : ~Executing(v)
    BY <1>2, <1>5 DEF Confirms, IInv, ClaimInv, Claimed
  <2>2. /\ task' \in Tasks /\ task'.status = "paused" /\ task'.gen = task.gen /\ task.status = "paused"
    BY <1>1, <1>5 DEF Confirms, IInv, Types, Tasks
  <2>3. \A v \in Workers : ~Executing(v)'
    BY <1>3, <2>1 DEF WorkersFrame
  <2>4. \A v \in Workers : Claimed(v)' => Claimed(v) /\ wk'[v].gen = wk[v].gen
    BY <1>3 DEF WorkersFrame, Claimed, Executing, Outside
  <2>5. ClaimInv'
    BY <2>2, <2>3, <2>4 DEF IInv, ClaimInv
  <2>6. LateInv'
    BY <1>1, <1>3, <2>2 DEF IInv, LateInv, NoneStarts
  <2>7. Types'
    BY <1>1, <1>3, <2>2 DEF IInv, Types, WorkersFrame
  <2>8. GensInv'
    BY <1>1, <1>3, <2>2 DEF IInv, GensInv, WorkersFrame
  <2> QED BY <2>5, <2>6, <2>7, <2>8 DEF IInv
<1> QED
  BY <1>4, <1>5

---------------------------------------------------------------------------
(* The inductive invariant *)

(* Nothing is there yet. *)
LEMMA InitHolds == Init => IInv
<1> SUFFICES ASSUME Init PROVE IInv
  OBVIOUS
<1>1. /\ task = NoTask /\ gens = 0 /\ late = 0 /\ row = "none" /\ msgs = [g \in Gens |-> 0]
      /\ wk = [w \in Workers |-> Free] /\ cl = [c \in Clients |-> NoCall]
  BY DEF Init
<1>2. Types
  BY <1>1 DEF Types, Tasks, Statuses, WorkerRecords, ClientRecords, PCs, NoTask, Free, NoCall,
              Outside, Decided
<1>3. GensInv /\ ClaimInv /\ LateInv
  BY <1>1 DEF GensInv, ClaimInv, LateInv, Executing, Claimed, NoTask, Free, NoCall, Outside
<1> QED
  BY <1>2, <1>3 DEF IInv

(* A request other than Create, Start, Resume. *)
LEMMA RequestStep ==
  ASSUME IInv, Pause \/ Cancel \/ GetTask \/ Delete \/ Recover
  PROVE  IInv'
<1>1. /\ UNCHANGED <<kind, gens, msgs, wk, cl, late>>
  BY DEF Pause, Cancel, GetTask, Delete, Recover, broker
<1>2. TaskFrame
  <2>1. CASE Pause
    BY <2>1 DEF Pause, TaskFrame, IInv, Types, Tasks, Statuses, Live
  <2>2. CASE Cancel
    <3>1. task.status # "none" /\ (Status("cancelled") \/ Same)
      BY <2>2 DEF Cancel, Live
    <3> QED BY <3>1, StatusFrame, SameFrame DEF IInv, Ended
  <2>3. CASE GetTask
    BY <2>3, UpdateFrame DEF GetTask, IInv, Ended
  <2>4. CASE Delete
    <3>1. row' = "gone" /\ row # "none" /\ kind # "benchmark" /\ task' = IF kind = "ab_test" THEN NoTask ELSE task
      BY <2>4 DEF Delete, Ended
    <3>2. NoTask \in Tasks
      BY DEF NoTask, Tasks, Statuses
    <3> QED BY <3>1, <3>2 DEF TaskFrame, NoTask, IInv, Types
  <2>5. CASE Recover
    <3>1. task' = task /\ (row' = row \/ (row' = "failed" /\ (kind = "ab_test" => row = "running")))
      BY <2>5 DEF Recover, RecoverAtOnce, RecoverTasks, RecoverRows, RecoverWrite
    <3> QED BY <3>1 DEF TaskFrame, IInv, Types
  <2> QED BY <2>1, <2>2, <2>3, <2>4, <2>5
<1> QED
  BY <1>1, <1>2, IdleFrame, QuietFrame, Kept DEF IInv

(* A failed publication fails the task or leaves it. *)
LEMMA PublishFailedStep ==
  ASSUME IInv, NEW c \in Clients, PublishFailed(c)
  PROVE  IInv'
<1>1. /\ UNCHANGED <<kind, gens, msgs, wk, late>> /\ cl' = [cl EXCEPT ![c] = NoCall]
      /\ (task.status = "pending" /\ Status("failed")) \/ Same
  BY DEF PublishFailed, broker
<1>2. TaskFrame
  BY <1>1, StatusFrame, SameFrame DEF IInv, Ended
<1>3. TrafficFrame
  BY <1>1 DEF TrafficFrame, IInv, Types, NoCall, ClientRecords
<1> QED
  BY <1>1, <1>2, <1>3, IdleFrame, Kept DEF IInv

(* The worker gives its message back: refused, returned, failed or lost. *)
LEMMA AckStep ==
  ASSUME IInv, NEW w \in Workers,
         Refuse(w) \/ EarlyError(w) \/ Return(w) \/ RecordLost(w) \/ Terminate(w)
  PROVE  IInv'
<1>1. PICK o : Ack(w, o)
  BY DEF Refuse, EarlyError, Return, RecordLost, Terminate
<1>2. UNCHANGED <<kind, cl, late>>
  BY DEF Refuse, EarlyError, Return, RecordLost, Terminate
<1>3. TaskFrame
  <2>1. \/ Same
        \/ Update("failed")
        \/ task.status # "none" /\ Status("failed")
    BY DEF Refuse, EarlyError, Return, RecordLost, Terminate, Same, Claimable
  <2> QED BY <2>1, SameFrame, UpdateFrame, StatusFrame DEF IInv, Ended
<1> QED
  BY <1>1, <1>2, <1>3, AckFrame, Kept DEF IInv

(* The worker moves on, without a decision about the task. *)
LEMMA MoveStep ==
  ASSUME IInv, NEW w \in Workers,
         \/ Read(w) \/ EndUnit(w) \/ AllDone(w) \/ Raise(w) \/ FinishFails(w) \/ Crash(w)
  PROVE  IInv'
<1>1. UNCHANGED <<kind, row, task, gens, msgs, cl, late>>
  BY DEF Read, EndUnit, AllDone, Raise, FinishFails, Crash, broker
<1>2. TaskFrame /\ TrafficFrame
  BY <1>1, SameFrame, QuietFrame DEF IInv, Same
<1>3. WorkersFrame /\ NoneStarts
  <2>1. CASE Read(w) \/ EndUnit(w) \/ FinishFails(w)
    <3>1. PICK pc \in {"loop", "post", "error"} : Go(w, pc) /\ Executing(w)
      BY <2>1 DEF Read, EndUnit, FinishFails, Executing, Outside
    <3> QED BY <3>1, GoFrame DEF IInv, PCs, Executing, Outside
  <2>2. CASE AllDone(w) \/ Raise(w)
    <3>1. PICK r \in {"paused", "completed", "failed"} : Result(w, r) /\ Executing(w)
      BY <2>2 DEF AllDone, Raise, Executing, Outside
    <3> QED BY <3>1, ResultFrame DEF IInv
  <2>3. CASE Crash(w)
    <3>1. wk[w].pc # "idle" /\ (wk' = [wk EXCEPT ![w] = Free] \/ Go(w, "lost"))
      BY <2>3 DEF Crash
    <3> QED BY <3>1, FreeFrame, GoFrame DEF IInv, PCs, Outside
  <2> QED BY <2>1, <2>2, <2>3
<1> QED
  BY <1>1, <1>2, <1>3, Kept

(* The worker of a benchmark reads, or writes, the run without the lock. *)
LEMMA UnlockedStep ==
  ASSUME IInv, NEW w \in Workers, PostRow(w) \/ PostTask(w) \/ ErrorTask(w) \/ ErrorRow(w) \/ WriteRow(w)
  PROVE  IInv'
<1>1. UNCHANGED <<kind, task, gens, msgs, cl, late>>
  BY DEF PostRow, PostTask, ErrorTask, ErrorRow, WriteRow, broker
<1>2. WorkersFrame /\ NoneStarts
  <2>1. CASE PostRow(w)
    BY <2>1, PostRowFrame DEF IInv
  <2>2. CASE ~PostRow(w)
    <3>1. /\ Executing(w)
          /\ \/ \E pc \in {"confirm", "keep", "keeping", "failing", "mark"} : Go(w, pc)
             \/ \E s \in Ended : Settling(w, s)
      BY <2>2 DEF PostTask, ErrorTask, ErrorRow, WriteRow, Executing, Outside, Ended
    <3>2. wk[w].pc # "idle" /\ Claimed(w)
      BY <3>1 DEF Executing, Outside, Claimed
    <3>3. ASSUME NEW pc \in {"confirm", "keep", "keeping", "failing", "mark"}, Go(w, pc)
          PROVE  WorkersFrame /\ NoneStarts
      <4>1. pc \in PCs \ {"start", "end", "settle"}
        BY DEF PCs, Outside
      <4> QED BY <3>1, <3>2, <3>3, <4>1, GoFrame DEF IInv
    <3> QED BY <3>1, <3>3, SettlingFrame DEF IInv
  <2> QED BY <2>1, <2>2
<1>3. TaskFrame
  <2>1. row' = row \/ (kind = "benchmark" /\ row' \in {"paused", "failed"})
    BY DEF PostRow, PostTask, ErrorTask, ErrorRow, WriteRow
  <2> QED BY <1>1, <2>1 DEF IInv, TaskFrame, Types
<1> QED
  BY <1>1, <1>2, <1>3, QuietFrame, Kept DEF IInv

(* The worker decides about the task, or its service about the row. *)
LEMMA DecideStep ==
  ASSUME IInv, NEW w \in Workers, Finish(w) \/ FinishPaused(w) \/ Post(w) \/ Settle(w)
  PROVE  IInv'
<1>1. UNCHANGED <<kind, gens, msgs, cl, late>>
  BY DEF Finish, FinishPaused, Post, Settle, broker
<1>2. WorkersFrame /\ NoneStarts
  <2>1. PICK pc \in {"confirm", "post"} : Go(w, pc) /\ Executing(w)
    BY DEF Finish, FinishPaused, Post, Settle, Executing, Outside
  <2>2. wk[w].pc # "idle" /\ Claimed(w) /\ pc \in PCs \ {"start", "end", "settle"}
    BY <2>1 DEF Executing, Outside, Claimed, PCs
  <2> QED BY <2>1, <2>2, GoFrame DEF IInv
<1>3. TaskFrame
  <2>1. CASE Finish(w)
    <3>1. wk[w].res \in {"paused", "completed", "failed"}
      BY <2>1 DEF Finish, IInv, Types, Decided
    <3>2. (task.status = "running" /\ Status(wk[w].res)) \/ Same
      BY <2>1 DEF Finish, MayFinish
    <3> QED BY <3>1, <3>2, StatusFrame, SameFrame DEF IInv, Ended
  <2>2. CASE FinishPaused(w)
    <3>1. /\ task' = task \/ (task.status = "running" /\ task' = [task EXCEPT !.status = "paused"])
          /\ row' = row \/ (row = "running" /\ row' = "paused")
      BY <2>2 DEF FinishPaused
    <3> QED BY <3>1 DEF IInv, TaskFrame, Types, Tasks, Statuses, Live
  <2>3. CASE Post(w)
    <3>1. Same \/ \E s \in Ended \cup {"paused"} : Update(s)
      BY <2>3 DEF Post, Ended
    <3> QED BY <3>1, SameFrame, UpdateFrame DEF IInv
  <2>4. CASE Settle(w)
    <3>1. \E s \in Ended : Update(s)
      BY <2>4 DEF Settle, IInv, Types, Decided, Ended
    <3> QED BY <3>1, UpdateFrame DEF IInv
  <2> QED BY <2>1, <2>2, <2>3, <2>4
<1> QED
  BY <1>1, <1>2, <1>3, QuietFrame, Kept DEF IInv

(* A repeated message is one that was there. *)
LEMMA RepeatStep ==
  ASSUME IInv, NEW g \in Gens, Repeat(g)
  PROVE  IInv'
<1>1. /\ msgs[g] > 0 /\ msgs' = [msgs EXCEPT ![g] = @ + 1]
      /\ UNCHANGED <<kind, row, task, gens, wk, cl, late>>
  BY DEF Repeat
<1>2. TrafficFrame
  BY <1>1, CountUp DEF IInv, Types, TrafficFrame
<1> QED
  BY <1>1, <1>2, SameFrame, IdleFrame, Kept DEF IInv, Same

(* Nothing changes. *)
LEMMA StutterStep == ASSUME IInv, UNCHANGED businessVars PROVE IInv'
<1>1. UNCHANGED <<kind, row, task, gens, msgs, wk, cl, late>>
  BY DEF businessVars
<1> QED
  BY <1>1, SameFrame, IdleFrame, QuietFrame, Kept DEF IInv, Same

(* Every step preserves the invariant. *)
LEMMA StepHolds ==
  ASSUME IsFiniteSet(Workers), IInv, [Next]_businessVars
  PROVE  IInv'
<1>1. CASE \E c \in Clients : Create(c) \/ Start(c) \/ Resume(c) \/ Send(c) \/ PublishFailed(c)
  BY <1>1, CreateStep, StartStep, ResumeStep, SendStep, PublishFailedStep
<1>2. CASE Pause \/ Cancel \/ GetTask \/ Delete \/ Recover
  BY <1>2, RequestStep
<1>3. CASE \E w \in Workers, g \in Gens : Take(w, g)
  BY <1>3, TakeStep
<1>4. CASE \E w \in Workers : Claim(w) \/ Check(w) \/ StartUnit(w) \/ Confirm(w)
  BY <1>4, ClaimStep, CheckStep, StartUnitStep, ConfirmStep
<1>5. CASE \E w \in Workers :
             Refuse(w) \/ EarlyError(w) \/ Return(w) \/ RecordLost(w) \/ Terminate(w)
  BY <1>5, AckStep
<1>6. CASE \E w \in Workers :
             Read(w) \/ EndUnit(w) \/ AllDone(w) \/ Raise(w) \/ FinishFails(w) \/ Crash(w)
  BY <1>6, MoveStep
<1>7. CASE \E w \in Workers :
             \/ Finish(w) \/ FinishPaused(w) \/ Post(w) \/ Settle(w)
             \/ PostRow(w) \/ PostTask(w) \/ ErrorTask(w) \/ ErrorRow(w) \/ WriteRow(w)
  BY <1>7, DecideStep, UnlockedStep
<1>8. CASE \E g \in Gens : Repeat(g)
  BY <1>8, RepeatStep
<1>9. CASE UNCHANGED businessVars
  BY <1>9, StutterStep
<1> QED
  BY <1>1, <1>2, <1>3, <1>4, <1>5, <1>6, <1>7, <1>8, <1>9
     DEF Next, Request, Failure, Carry, Work

(* What is claimed follows from the invariant. *)
LEMMA InvariantGivesOneExecutor == IInv => OneExecutor
  BY DEF IInv, ClaimInv, LateInv, OneExecutor

---------------------------------------------------------------------------
(* The row and the task agree, but for a benchmark's overtaken writes. *)

Serving == {"read", "loop", "start", "unit", "end"}

(* As long as a benchmark runs its units its row says running, unless it   *)
(* was failed behind its back; after them it does not, so that             *)
(* _keep_paused never finds anything to write.                             *)
RunFits ==
  kind = "benchmark" =>
    /\ task.status = "running" /\ (\E w \in Workers : wk[w].pc \in Serving) =>
         row = "running" \/ (overtaken /\ row = "failed")
    /\ \A w \in Workers : wk[w].pc \in {"post", "posted", "keeping"} => row # "running"
    /\ \A w \in Workers : /\ wk[w].pc = "posted" => wk[w].res # "running"
                          /\ wk[w].pc # "keep"

RowInv == RowAgrees /\ RunFits

(* There is no task yet. *)
LEMMA RowInvInit == Init => RowInv
  BY DEF Init, RowInv, RowAgrees, RunFits, NoTask, Ended, Free, Serving

(* A step that gives no worker a new place among those of RunFits. *)
NonePosts ==
  \A w \in Workers :
    /\ wk'[w].pc \in Serving => wk[w].pc \in Serving
    /\ wk'[w].pc \in {"post", "posted", "keeping"} => wk'[w] = wk[w]
    /\ wk'[w].pc = "keep" => wk[w].pc = "keep"

(* Status writes the task and its row alike. *)
LEMMA StatusAgrees ==
  ASSUME Types, NEW s, Status(s)
  PROVE  RowAgrees' /\ task'.status = s /\ row' = IF row = "gone" THEN row ELSE s
<1>1. task'.status = s /\ row' = IF row = "gone" THEN row ELSE s
  BY DEF Status, Types, Tasks
<1> QED
  BY <1>1 DEF RowAgrees

(* So does every transition that mirrors its task, whoever moves. *)
LEMMA MirrorStep ==
  ASSUME Types, RowInv, NonePosts, kind' = kind, overtaken' = overtaken,
         UNCHANGED <<task, row>> \/ \E s \in Statuses \ {"running"} : Status(s)
  PROVE  RowInv'
<1>1. CASE UNCHANGED <<task, row>>
  BY <1>1 DEF RowInv, RowAgrees, RunFits, NonePosts
<1>2. ASSUME NEW s \in Statuses \ {"running"}, Status(s) PROVE RowInv'
  <2>1. RowAgrees' /\ task'.status = s /\ row' = IF row = "gone" THEN row ELSE s
    BY <1>2, StatusAgrees
  <2>2. row' # "running" /\ task'.status # "running"
    BY <2>1
  <2>3. RunFits'
    BY <2>2 DEF RowInv, RunFits, NonePosts
  <2> QED BY <2>1, <2>3 DEF RowInv
<1> QED
  BY <1>1, <1>2

(* A worker that moves on to no place of RunFits, or to rest. *)
LEMMA GoPosts ==
  ASSUME Types, NEW w \in Workers, NEW pc, Go(w, pc),
         pc \notin {"post", "posted", "keeping", "keep"}, pc \in Serving => wk[w].pc \in Serving
  PROVE  NonePosts
<1>1. wk'[w].pc = pc /\ \A v \in Workers : v # w => wk'[v] = wk[v]
  BY DEF Go, Types, WorkerRecords
<1> QED
  BY <1>1 DEF NonePosts

LEMMA ResultPosts ==
  ASSUME Types, NEW w \in Workers, NEW s, Result(w, s) \/ Settling(w, s),
         Result(w, s) => wk[w].pc \in Serving
  PROVE  NonePosts
<1>1. wk'[w].pc \in {"end", "settle"} /\ (wk'[w].pc = "end" => wk[w].pc \in Serving)
  BY DEF Result, Settling, Types, WorkerRecords
<1>2. \A v \in Workers : v # w => wk'[v] = wk[v]
  BY DEF Result, Settling, Types
<1> QED
  BY <1>1, <1>2 DEF NonePosts, Serving

LEMMA FreePosts ==
  ASSUME Types, NEW w \in Workers, wk' = [wk EXCEPT ![w] = Free]
  PROVE  NonePosts
<1>1. wk'[w].pc = "idle" /\ \A v \in Workers : v # w => wk'[v] = wk[v]
  BY DEF Types, Free
<1> QED
  BY <1>1 DEF NonePosts, Serving

LEMMA StillPosts == ASSUME wk' = wk PROVE NonePosts
  BY DEF NonePosts

(* Update writes like Status, or not at all. *)
LEMMA UpdateMirrors ==
  ASSUME NEW s \in Statuses \ {"running"}, Update(s)
  PROVE  UNCHANGED <<task, row>> \/ \E t \in Statuses \ {"running"} : Status(t)
  BY DEF Update, Same

(* Create, start, resume: nobody executes, and the task is pending at most. *)
LEMMA BeginRows ==
  ASSUME IInv, RowInv, NEW c \in Clients, Create(c) \/ Start(c) \/ Resume(c)
  PROVE  RowInv'
<1>1. wk' = wk /\ kind' = kind /\ overtaken' = overtaken
  BY DEF Create, Start, Resume, unlocked, broker
<1>2. task'.status \notin Ended \cup {"paused", "running"}
  <2>1. CASE Create(c)
    BY <2>1 DEF Create, IInv, GensInv, Ended
  <2>2. CASE Start(c)
    BY <2>2 DEF Start, NoTask, Ended
  <2>3. CASE Resume(c)
    BY <2>3 DEF Resume, IInv, Types, Tasks, Ended
  <2> QED BY <2>1, <2>2, <2>3
<1>3. row' = row \/ row' = "pending"
  BY DEF Create, Start, Resume
<1> QED
  BY <1>1, <1>2, <1>3 DEF RowInv, RowAgrees, RunFits

(* Pause, and the paused end of a benchmark. *)
LEMMA PauseRows ==
  ASSUME IInv, RowInv, Pause
  PROVE  RowInv'
<1>1. /\ task'.status = "paused" /\ row' = IF row = "gone" THEN row ELSE "paused"
      /\ UNCHANGED <<kind, wk, overtaken>>
  BY DEF Pause, IInv, Types, Tasks, unlocked
<1> QED
  BY <1>1 DEF RowInv, RowAgrees, RunFits, Ended

LEMMA DeleteRows ==
  ASSUME IInv, RowInv, Delete
  PROVE  RowInv'
<1>1. kind' = kind /\ kind # "benchmark" /\ row' = "gone"
  BY DEF Delete
<1> QED
  BY <1>1 DEF RowInv, RowAgrees, RunFits

(* Startup recovery: the write is either of an orphan, or overtaken. *)
LEMMA RecoverRowsAgree ==
  ASSUME IInv, RowInv, Recover
  PROVE  RowInv'
<1>1. UNCHANGED <<kind, task, wk>>
  BY DEF Recover
<1>2. CASE RecoverTasks \/ RecoverRows
  <2>1. row' = row /\ overtaken' = overtaken
    BY <1>2 DEF RecoverTasks, RecoverRows
  <2> QED BY <1>1, <2>1 DEF RowInv, RowAgrees, RunFits
<1>3. CASE RecoverAtOnce
  <2>1. /\ row' = "failed" /\ overtaken' = overtaken /\ kind # "benchmark"
        /\ task.status \notin Live /\ row \in {"running", "pending"}
    BY <1>3 DEF RecoverAtOnce, unlocked
  <2> QED BY <1>1, <2>1 DEF RowInv, RowAgrees, RunFits, Live, Ended
<1>4. CASE RecoverWrite
  <2>1. row' = "failed" /\ kind = "benchmark" /\ overtaken' = (overtaken \/ task # NoTask)
    BY <1>4 DEF RecoverWrite
  <2>2. overtaken' \/ task.status = "none"
    <3>1. CASE task = NoTask
      BY <3>1 DEF NoTask
    <3> QED BY <2>1, <3>1
  <2>3. RowAgrees'
    BY <1>1, <2>1, <2>2 DEF RowAgrees, Ended
  <2>4. RunFits'
    BY <1>1, <2>1, <2>2 DEF RowInv, RunFits
  <2> QED BY <2>3, <2>4 DEF RowInv
<1> QED
  BY <1>2, <1>3, <1>4 DEF Recover

(* The claim: nobody executes yet, and both say running. *)
LEMMA ClaimRows ==
  ASSUME IInv, RowInv, NEW w \in Workers, Claim(w)
  PROVE  RowInv'
<1>1. /\ task'.status = "running" /\ row' = IF row = "gone" THEN row ELSE "running"
      /\ kind' = kind /\ task.status = "pending"
  BY DEF Claim, Claimable, IInv, Types, Tasks
<1>2. \A v \in Workers : ~Executing(v)
  BY <1>1 DEF IInv, ClaimInv
<1>3. wk'[w].pc \in {"loop", "read"} /\ \A v \in Workers : v # w => wk'[v] = wk[v]
  BY DEF Claim, Go, IInv, Types, WorkerRecords
<1>4. \A v \in Workers : wk'[v].pc \notin {"post", "posted", "keeping", "keep"}
  BY <1>2, <1>3 DEF Executing, Outside
<1>5. kind = "benchmark" => row # "gone"
  BY DEF IInv, GensInv
<1> QED
  BY <1>1, <1>4, <1>5 DEF RowInv, RowAgrees, RunFits, Ended

(* An executor that has done its units finds no running row that it has    *)
(* not written itself.                                                     *)
LEMMA DoneRows ==
  ASSUME IInv, RowInv, NEW w \in Workers, Executing(w), kind = "benchmark",
         row = "running"
  PROVE  task.status = "running" /\ task.gen = wk[w].gen
<1>1. task.status # "pending" /\ (task.status = "none" \/ task.gen = wk[w].gen)
  BY DEF IInv, ClaimInv
<1>2. task.status # "none"
  <2>1. gens # 0
    BY DEF IInv, GensInv, Types, Executing, Outside
  <2> QED BY <2>1 DEF IInv, GensInv
<1>3. task.status \notin Ended \cup {"paused"}
  BY DEF RowInv, RowAgrees, Ended
<1> QED
  BY <1>1, <1>2, <1>3 DEF IInv, Types, Tasks, Statuses, Live

(* A worker's new place, when the others keep theirs. *)
LEMMA PlaceRows ==
  ASSUME IInv, NEW w \in Workers, Executing(w), kind = "benchmark", kind' = kind,
         \A v \in Workers : v # w => wk'[v] = wk[v],
         wk'[w].pc \notin Serving \cup {"keep"},
         wk'[w].pc \in {"post", "posted", "keeping"} => row' # "running",
         wk'[w].pc = "posted" => wk'[w].res # "running"
  PROVE  RunFits'
<1>1. \A v \in Workers : v # w => ~Executing(v)
  BY DEF IInv, ClaimInv
<1>2. \A v \in Workers : v # w => wk'[v].pc \notin Serving \cup {"post", "posted", "keeping", "keep"}
  BY <1>1 DEF Executing, Outside, Serving
<1> QED
  BY <1>2 DEF RunFits

(* The service's last transaction. *)
LEMMA FinishRows ==
  ASSUME IInv, RowInv, NEW w \in Workers, Finish(w) \/ FinishPaused(w)
  PROVE  RowInv'
<1>1. /\ wk[w].pc = "end" /\ kind' = kind /\ overtaken' = overtaken
      /\ \E pc \in {"confirm", "post"} : Go(w, pc)
  BY DEF Finish, FinishPaused, unlocked
<1>2. Executing(w) /\ wk[w].res \in {"paused", "completed", "failed"}
  BY <1>1 DEF Executing, Outside, IInv, Types, Decided
<1>3. wk'[w].pc \in {"confirm", "post"} /\ \A v \in Workers : v # w => wk'[v] = wk[v]
  BY <1>1 DEF Go, IInv, Types, WorkerRecords
<1>4. CASE Finish(w)
  <2>1. (MayFinish(w) /\ Status(wk[w].res)) \/ (~MayFinish(w) /\ Same)
    BY <1>4 DEF Finish
  <2>2. RowAgrees'
    BY <1>1, <1>2, <2>1, StatusAgrees DEF Same, RowInv, RowAgrees, IInv
  <2>3. kind = "benchmark" => row' # "running"
    <3>1. CASE Status(wk[w].res)
      BY <1>2, <3>1, StatusAgrees DEF IInv
    <3>2. CASE ~MayFinish(w) /\ Same
      BY <1>2, <3>2, DoneRows DEF MayFinish, Same
    <3> QED BY <2>1, <3>1, <3>2
  <2>4. RunFits'
    BY <1>1, <1>2, <1>3, <2>3, PlaceRows DEF RunFits, Serving
  <2> QED BY <2>2, <2>4 DEF RowInv
<1>5. CASE FinishPaused(w)
  <2>1. /\ kind = "benchmark" /\ row' # "running"
        /\ row' = row \/ (row = "running" /\ row' = "paused")
        /\ task' = IF task.status = "running" THEN [task EXCEPT !.status = "paused"] ELSE task
    BY <1>5 DEF FinishPaused
  <2>2. RunFits'
    BY <1>1, <1>2, <1>3, <2>1, PlaceRows DEF Serving
  <2>3. CASE task.status = "running"
    <3>1. task'.status = "paused"
      BY <2>1, <2>3 DEF IInv, Types, Tasks
    <3>2. row = "running" \/ (overtaken /\ row = "failed")
      BY <1>1, <2>1, <2>3 DEF RowInv, RunFits, Serving
    <3>3. RowAgrees'
      BY <1>1, <2>1, <3>1, <3>2 DEF RowAgrees, Ended
    <3> QED BY <2>2, <3>3 DEF RowInv
  <2>4. CASE task.status # "running"
    <3>1. task' = task
      BY <2>1, <2>4
    <3>2. row = "running" => FALSE
      BY <1>2, <2>1, <2>4, DoneRows
    <3>3. RowAgrees'
      BY <1>1, <2>1, <3>1, <3>2 DEF RowInv, RowAgrees
    <3> QED BY <2>2, <3>3 DEF RowInv
  <2> QED BY <2>3, <2>4
<1> QED
  BY <1>4, <1>5

(* What a benchmark's worker reads after its units, and writes. *)
LEMMA UnlockedRows ==
  ASSUME IInv, RowInv, NEW w \in Workers,
         PostRow(w) \/ PostTask(w) \/ (ErrorTask(w) \/ ErrorRow(w)) \/ WriteRow(w)
  PROVE  RowInv'
<1>1. kind' = kind /\ task' = task /\ Executing(w)
  BY DEF PostRow, PostTask, ErrorTask, ErrorRow, WriteRow, Executing, Outside
<1>2. \A v \in Workers : v # w => wk'[v] = wk[v]
  BY DEF PostRow, PostTask, ErrorTask, ErrorRow, WriteRow, Go, Settling, IInv, Types
<1>3. RowAgrees'
  <2>1. CASE WriteRow(w)
    <3>1. /\ kind = "benchmark" /\ row' \in {"paused", "failed"}
          /\ overtaken' = (overtaken \/ task.status \in (Ended \cup {"paused"}) \ {row'})
          /\ wk[w].pc \in {"keep", "mark"} /\ (row' = "paused" => wk[w].pc = "keep")
      BY <2>1 DEF WriteRow
    <3>2. wk[w].pc # "keep"
      BY <3>1 DEF RowInv, RunFits
    <3> QED BY <1>1, <3>1, <3>2 DEF RowAgrees
  <2>2. CASE ~WriteRow(w)
    <3>1. row' = row /\ overtaken' = overtaken
      BY <2>2 DEF PostRow, PostTask, ErrorTask, ErrorRow, unlocked
    <3> QED BY <1>1, <3>1 DEF RowInv, RowAgrees
  <2> QED BY <2>1, <2>2
<1>4. RunFits'
  <2> SUFFICES ASSUME kind = "benchmark" PROVE RunFits'
    BY <1>1 DEF RunFits
  <2>1. CASE PostRow(w)
    <3>1. /\ wk'[w].pc = "posted" /\ (row # "running" => wk'[w].res # "running") /\ row' = row
          /\ wk[w].pc = "post"
      BY <2>1 DEF PostRow, IInv, Types, WorkerRecords
    <3> QED BY <1>1, <1>2, <3>1, PlaceRows DEF RowInv, RunFits, Serving
  <2>2. CASE PostTask(w)
    <3>1. wk[w].pc = "posted" /\ wk[w].res # "running"
      BY <2>2 DEF PostTask, RowInv, RunFits
    <3>2. wk'[w].pc \in {"confirm", "settle"}
      BY <2>2, <3>1 DEF PostTask, Go, Settling, IInv, Types, WorkerRecords
    <3> QED BY <1>1, <1>2, <3>2, PlaceRows DEF Serving
  <2>3. CASE ErrorTask(w)
    <3>1. /\ wk'[w].pc \in {"keeping", "failing"} /\ row' = row
          /\ wk'[w].pc = "keeping" => task.status = "paused"
      BY <2>3 DEF ErrorTask, Go, IInv, Types, WorkerRecords
    <3>2. task.status = "paused" => row # "running"
      BY <1>1, DoneRows
    <3> QED BY <1>1, <1>2, <3>1, <3>2, PlaceRows DEF Serving
  <2>4. CASE ErrorRow(w)
    <3>1. wk[w].pc = "keeping" => row # "running"
      BY DEF RowInv, RunFits
    <3>2. wk'[w].pc \in {"confirm", "mark", "settle"}
      BY <2>4, <3>1 DEF ErrorRow, Go, Settling, IInv, Types, WorkerRecords
    <3> QED BY <1>1, <1>2, <3>2, PlaceRows DEF Serving
  <2>5. CASE WriteRow(w)
    <3>1. wk'[w].pc \in {"confirm", "settle"}
      BY <2>5 DEF WriteRow, Go, Settling, IInv, Types, WorkerRecords
    <3> QED BY <1>1, <1>2, <3>1, PlaceRows DEF Serving
  <2> QED BY <2>1, <2>2, <2>3, <2>4, <2>5
<1> QED
  BY <1>3, <1>4 DEF RowInv

(* The other steps of a worker mirror what they write. *)
LEMMA WorkRows ==
  ASSUME IInv, RowInv, NEW w \in Workers,
         \/ \E g \in Gens : Take(w, g)
         \/ Refuse(w) \/ EarlyError(w) \/ Return(w) \/ RecordLost(w) \/ Terminate(w)
         \/ EndUnit(w) \/ AllDone(w) \/ Raise(w) \/ FinishFails(w) \/ Crash(w) \/ Check(w)
         \/ StartUnit(w) \/ Post(w) \/ Settle(w) \/ Confirm(w)
  PROVE  RowInv'
<1>1. kind' = kind /\ overtaken' = overtaken
  BY DEF Take, Refuse, EarlyError, Return, RecordLost, Terminate, EndUnit, AllDone, Raise,
         FinishFails, Crash, Check, StartUnit, Post, Settle, Confirm, unlocked
<1>2. NonePosts
  <2>1. CASE Refuse(w) \/ EarlyError(w) \/ Return(w) \/ RecordLost(w) \/ Terminate(w)
    BY <2>1, FreePosts DEF Refuse, EarlyError, Return, RecordLost, Terminate, Ack, IInv
  <2>2. CASE \E g \in Gens : Take(w, g)
    <3>1. wk' = wk \/ (wk'[w].pc = "got" /\ \A v \in Workers : v # w => wk'[v] = wk[v])
      BY <2>2 DEF Take, IInv, Types
    <3> QED BY <3>1 DEF NonePosts, Serving
  <2>3. CASE Crash(w)
    BY <2>3, FreePosts, GoPosts DEF Crash, IInv, Serving
  <2>4. CASE EndUnit(w) \/ StartUnit(w) \/ FinishFails(w) \/ Post(w) \/ Settle(w) \/ Confirm(w)
    <3>1. \E pc \in {"loop", "unit", "error", "confirm", "return"} :
            Go(w, pc) /\ (pc \in Serving => wk[w].pc \in Serving)
      BY <2>4 DEF EndUnit, StartUnit, FinishFails, Post, Settle, Confirm, Serving
    <3> QED BY <3>1, GoPosts DEF IInv
  <2>5. CASE AllDone(w) \/ Raise(w) \/ Check(w)
    <3>1. wk[w].pc \in Serving /\ (Go(w, "start") \/ \E s : Result(w, s))
      BY <2>5 DEF AllDone, Raise, Check, Serving
    <3> QED BY <3>1, GoPosts, ResultPosts DEF IInv, Serving
  <2> QED BY <2>1, <2>2, <2>3, <2>4, <2>5
<1>3. CASE Confirm(w)
  <2>1. row' = row /\ task'.status = task.status
    BY <1>3 DEF Confirm, IInv, Types, Tasks
  <2> QED BY <1>1, <1>2, <2>1 DEF RowInv, RowAgrees, RunFits, NonePosts
<1>4. CASE ~Confirm(w)
  <2>1. \/ UNCHANGED <<task, row>>
        \/ \E s \in Statuses \ {"running"} : Update(s) \/ Status(s)
    <3>1. CASE Post(w)
      BY <3>1 DEF Post, Same, Statuses, Live, Ended
    <3>2. CASE Settle(w)
      BY <3>2 DEF Settle, IInv, Types, Decided, Statuses, Ended
    <3>3. CASE ~Post(w) /\ ~Settle(w)
      BY <1>4, <3>3 DEF Take, Refuse, EarlyError, Return, RecordLost, Terminate, EndUnit, AllDone,
             Raise, FinishFails, Crash, Check, StartUnit, Same, Statuses, Ended
    <3> QED BY <3>1, <3>2, <3>3
  <2> QED BY <1>1, <1>2, <2>1, UpdateMirrors, MirrorStep DEF IInv
<1> QED
  BY <1>3, <1>4

(* The worker reads the records once more: a foreign row ends its service. *)
LEMMA ReadRows ==
  ASSUME IInv, RowInv, NEW w \in Workers, Read(w)
  PROVE  RowInv'
<1>1. /\ wk[w].pc = "read" /\ UNCHANGED <<kind, row, task, overtaken>>
      /\ Go(w, IF row = "running" /\ (kind = "experiment" \/ task.status = "running")
               THEN "loop" ELSE "post")
  BY DEF Read, unlocked
<1>2. Executing(w) /\ wk[w].pc \in Serving
  BY <1>1 DEF Executing, Outside, Serving
<1>3. wk'[w].pc \in {"loop", "post"} /\ \A v \in Workers : v # w => wk'[v] = wk[v]
  BY <1>1 DEF Go, IInv, Types, WorkerRecords
<1>4. CASE wk'[w].pc = "loop"
  <2>1. NonePosts
    BY <1>2, <1>3, <1>4 DEF NonePosts, Serving
  <2> QED BY <1>1, <2>1 DEF RowInv, RowAgrees, RunFits, NonePosts
<1>5. CASE wk'[w].pc = "post"
  <2>1. kind = "benchmark" => row # "running"
    <3> SUFFICES ASSUME kind = "benchmark", row = "running" PROVE FALSE
      OBVIOUS
    <3>1. task.status = "running"
      BY <1>2, DoneRows
    <3>2. Go(w, "loop")
      BY <1>1, <3>1
    <3>3. wk'[w].pc = "loop"
      BY <3>2 DEF Go, IInv, Types, WorkerRecords
    <3> QED BY <1>5, <3>3
  <2>2. RunFits'
    BY <1>1, <1>2, <1>3, <1>5, <2>1, PlaceRows DEF RunFits, Serving
  <2>3. RowAgrees'
    BY <1>1 DEF RowInv, RowAgrees
  <2> QED BY <2>2, <2>3 DEF RowInv
<1> QED
  BY <1>3, <1>4, <1>5

(* The requests that mirror what they write. *)
LEMMA TrafficRows ==
  ASSUME IInv, RowInv,
         \/ \E c \in Clients : Send(c) \/ PublishFailed(c)
         \/ Cancel \/ GetTask \/ (\E g \in Gens : Repeat(g)) \/ UNCHANGED businessVars
  PROVE  RowInv'
<1>1. UNCHANGED <<kind, wk, overtaken>>
  BY DEF Send, PublishFailed, Cancel, GetTask, Repeat, businessVars, unlocked
<1>2. UNCHANGED <<task, row>> \/ \E s \in Statuses \ {"running"} : Update(s) \/ Status(s)
  BY DEF Send, PublishFailed, Cancel, GetTask, Repeat, Same, Statuses, Ended, businessVars
<1> QED
  BY <1>1, <1>2, UpdateMirrors, MirrorStep, StillPosts DEF IInv

(* Each way of writing the two, one after the other. *)
LEMMA RowInvStep ==
  ASSUME IInv, RowInv, [Next]_businessVars
  PROVE  RowInv'
<1>1. CASE \E c \in Clients : Create(c) \/ Start(c) \/ Resume(c)
  BY <1>1, BeginRows
<1>2. CASE Pause \/ Delete \/ Recover
  BY <1>2, PauseRows, DeleteRows, RecoverRowsAgree
<1>3. CASE \/ \E c \in Clients : Send(c) \/ PublishFailed(c)
           \/ Cancel \/ GetTask \/ (\E g \in Gens : Repeat(g)) \/ UNCHANGED businessVars
  BY <1>3, TrafficRows
<1>4. CASE \E w \in Workers : Claim(w) \/ Read(w) \/ Finish(w) \/ FinishPaused(w)
  BY <1>4, ClaimRows, ReadRows, FinishRows
<1>5. CASE \E w \in Workers :
             PostRow(w) \/ PostTask(w) \/ ErrorTask(w) \/ ErrorRow(w) \/ WriteRow(w)
  BY <1>5, UnlockedRows
<1>6. CASE \E w \in Workers :
             \/ \E g \in Gens : Take(w, g)
             \/ Refuse(w) \/ EarlyError(w) \/ Return(w) \/ RecordLost(w) \/ Terminate(w)
             \/ EndUnit(w) \/ AllDone(w) \/ Raise(w) \/ FinishFails(w) \/ Crash(w) \/ Check(w)
             \/ StartUnit(w) \/ Post(w) \/ Settle(w) \/ Confirm(w)
  BY <1>6, WorkRows
<1> QED
  BY <1>1, <1>2, <1>3, <1>4, <1>5, <1>6 DEF Next, Request, Failure, Carry, Work

---------------------------------------------------------------------------
(* The types: a worker only holds what the broker keeps for it, and a unit *)
(* only begins while one is left. *)

(* What the theorem asks of the constants. *)
Counts == MaxGens \in Nat /\ NUnits \in Nat /\ IsFiniteSet(Workers)

Held == /\ \A w \in Workers : wk[w].pc = "idle" => wk[w].gen = 0
        /\ \A g \in Gens : Busy(g) <= msgs[g]
DoneFits == /\ done \in 0 .. NUnits
            /\ \A w \in Workers : wk[w].pc \in {"start", "unit"} => done < NUnits
RecordsTyped == /\ kind \in Kinds /\ row \in Live \cup Ended \cup {"none", "gone"}
                /\ gens <= MaxGens /\ revoked \subseteq 1 .. gens
                /\ outcome \in [Gens -> {"none", "failure", "revoked"}]
                /\ task.status # "none" => task.gen >= 1
                /\ recovery \in {"none", "unowned", "doomed"} /\ overtaken \in BOOLEAN
TypeInv == Held /\ DoneFits /\ RecordsTyped

(* The workers keep their messages, and none gets nearer to a unit. *)
HoldersStay == \A w \in Workers : /\ wk'[w].gen = wk[w].gen
                                  /\ wk'[w].pc = "idle" => wk[w].pc = "idle"
NoneNearer == \A w \in Workers : wk'[w].pc \in {"start", "unit"} => wk[w].pc \in {"start", "unit"}

(* Only numbers are counted. *)
LEMMA BusyCounts ==
  ASSUME Counts
  PROVE  \A g : Busy(g) \in Nat /\ Busy(g)' \in Nat
<1>1. ASSUME NEW S \in SUBSET Workers PROVE Cardinality(S) \in Nat
  BY <1>1, FS_Subset, FS_CardinalityType DEF Counts
<1> QED
  BY <1>1 DEF Busy

(* A worker that is free again holds one message less. *)
LEMMA FreedHolds ==
  ASSUME Counts, Types, NEW w \in Workers, wk' = [wk EXCEPT ![w] = Free], NEW g \in Gens
  PROVE  Busy(g)' = IF wk[w].gen = g THEN Busy(g) - 1 ELSE Busy(g)
<1> DEFINE S == {v \in Workers : wk[v].gen = g}
<1> DEFINE T == {v \in Workers : wk'[v].gen = g}
<1>1. wk'[w].gen = 0 /\ \A v \in Workers : v # w => wk'[v] = wk[v]
  BY DEF Types, Free
<1>2. g # 0
  BY DEF Gens, Counts
<1>3. T = S \ {w}
  BY <1>1, <1>2
<1>4. IsFiniteSet(S)
  BY FS_Subset DEF Counts
<1>5. Busy(g) = Cardinality(S) /\ Busy(g)' = Cardinality(T)
  BY DEF Busy
<1>6. w \in S <=> wk[w].gen = g
  OBVIOUS
<1> HIDE DEF S, T
<1> QED
  BY <1>3, <1>4, <1>5, <1>6, FS_RemoveElement

(* A worker that takes a message holds one more. *)
LEMMA TakenHolds ==
  ASSUME Counts, Types, NEW w \in Workers, NEW r, wk' = [wk EXCEPT ![w] = r], wk[w].gen = 0,
         NEW g \in Gens
  PROVE  Busy(g)' = IF r.gen = g THEN Busy(g) + 1 ELSE Busy(g)
<1> DEFINE S == {v \in Workers : wk[v].gen = g}
<1> DEFINE T == {v \in Workers : wk'[v].gen = g}
<1>1. wk'[w] = r /\ \A v \in Workers : v # w => wk'[v] = wk[v]
  BY DEF Types
<1>2. g # 0
  BY DEF Gens, Counts
<1>3. w \notin S /\ T = IF r.gen = g THEN S \cup {w} ELSE S
  BY <1>1, <1>2
<1>4. IsFiniteSet(S)
  BY FS_Subset DEF Counts
<1>5. Busy(g) = Cardinality(S) /\ Busy(g)' = Cardinality(T)
  BY DEF Busy
<1> HIDE DEF S, T
<1> QED
  BY <1>3, <1>4, <1>5, FS_AddElement

(* Whoever keeps what he holds, of a broker that drops nothing. *)
LEMMA StayHeld ==
  ASSUME Counts, Types, Held, HoldersStay,
         msgs' \in [Gens -> Int], \A g \in Gens : msgs[g] <= msgs'[g]
  PROVE  Held'
<1>1. \A g : Busy(g)' = Busy(g)
  <2>1. \A g : {v \in Workers : wk'[v].gen = g} = {v \in Workers : wk[v].gen = g}
    BY DEF HoldersStay
  <2> QED BY <2>1 DEF Busy
<1>2. \A g \in Gens : Busy(g) \in Int /\ msgs[g] \in Int /\ msgs'[g] \in Int
  BY BusyCounts DEF Types
<1> QED
  BY <1>1, <1>2 DEF Held, HoldersStay

(* A worker goes on: it keeps its message. *)
LEMMA GoStays ==
  ASSUME Types, NEW w \in Workers, NEW pc, pc # "idle", Go(w, pc)
  PROVE  HoldersStay /\ (pc \notin {"start", "unit"} => NoneNearer)
<1>1. wk'[w].gen = wk[w].gen /\ wk'[w].pc = pc /\ \A v \in Workers : v # w => wk'[v] = wk[v]
  BY DEF Go, Types, WorkerRecords
<1> QED
  BY <1>1 DEF HoldersStay, NoneNearer

(* So does one that has a result, that asks for an end, or that has read   *)
(* the run.                                                                *)
LEMMA PlaceStays ==
  ASSUME Types, NEW w \in Workers, NEW pc \in {"end", "settle", "posted"}, NEW s,
         wk' = [wk EXCEPT ![w].pc = pc, ![w].res = s]
  PROVE  HoldersStay /\ NoneNearer
<1> DEFINE r == [wk[w] EXCEPT !.pc = pc, !.res = s]
<1>1. wk[w] = [pc |-> wk[w].pc, gen |-> wk[w].gen, res |-> wk[w].res]
  BY DEF Types, WorkerRecords
<1>2. r.gen = wk[w].gen /\ r.pc = pc
  BY <1>1
<1>3. wk' = [wk EXCEPT ![w] = r]
  BY DEF Types, WorkerRecords
<1> HIDE DEF r
<1>4. wk'[w] = r /\ \A v \in Workers : v # w => wk'[v] = wk[v]
  BY <1>3 DEF Types
<1> QED
  BY <1>2, <1>4 DEF HoldersStay, NoneNearer

LEMMA ResultStays ==
  ASSUME Types, NEW w \in Workers, NEW s, Result(w, s) \/ Settling(w, s)
  PROVE  HoldersStay /\ NoneNearer
  BY PlaceStays DEF Result, Settling

LEMMA PostRowStays ==
  ASSUME Types, NEW w \in Workers, PostRow(w)
  PROVE  HoldersStay /\ NoneNearer
  BY PlaceStays DEF PostRow

(* An acknowledgement takes the message from worker and broker alike. *)
LEMMA AckHeld ==
  ASSUME Counts, IInv, TypeInv, NEW w \in Workers, wk[w].pc # "idle",
         NEW o \in {"none", "failure", "revoked"}, Ack(w, o)
  PROVE  /\ Held' /\ NoneNearer /\ gens' = gens /\ revoked' = revoked
         /\ outcome' \in [Gens -> {"none", "failure", "revoked"}]
<1> DEFINE h == wk[w].gen
<1>1. /\ wk' = [wk EXCEPT ![w] = Free] /\ msgs' = [msgs EXCEPT ![h] = @ - 1]
      /\ outcome' = [outcome EXCEPT ![h] = o] /\ gens' = gens /\ revoked' = revoked
  BY DEF Ack
<1>2. wk'[w] = Free /\ \A v \in Workers : v # w => wk'[v] = wk[v]
  BY <1>1 DEF IInv, Types
<1>3. \A g \in Gens : Busy(g)' = IF h = g THEN Busy(g) - 1 ELSE Busy(g)
  BY <1>1, FreedHolds DEF IInv
<1>4. \A g \in Gens : msgs[g] \in Int /\ msgs'[g] = IF h = g THEN msgs[g] - 1 ELSE msgs[g]
  BY <1>1 DEF IInv, Types
<1>5. \A g \in Gens : Busy(g)' <= msgs'[g]
  <2> HIDE DEF h
  <2> SUFFICES ASSUME NEW g \in Gens PROVE Busy(g)' <= msgs'[g]
    OBVIOUS
  <2>1. Busy(g) \in Nat /\ Busy(g) <= msgs[g]
    BY BusyCounts DEF TypeInv, Held
  <2> QED BY <2>1, <1>3, <1>4
<1>6. \A v \in Workers : wk'[v].pc = "idle" => wk'[v].gen = 0
  BY <1>2 DEF TypeInv, Held, Free
<1>7. outcome' \in [Gens -> {"none", "failure", "revoked"}]
  BY <1>1 DEF TypeInv, RecordsTyped
<1>8. NoneNearer
  BY <1>2 DEF NoneNearer, Free
<1> QED
  BY <1>1, <1>5, <1>6, <1>7, <1>8 DEF Held

(* What is said of the units, when none begins or ends. *)
LEMMA DoneKept ==
  ASSUME DoneFits, NoneNearer, done' = done
  PROVE  DoneFits'
  BY DEF DoneFits, NoneNearer

(* A step that moves the task and its row, and creates no generation. *)
RowKeeps == /\ recovery' \in {"none", "unowned", "doomed"} /\ overtaken' \in BOOLEAN
            /\ task'.status # "none" => task.status # "none" /\ task'.gen = task.gen
            /\ row' \in Live \cup Ended \cup {"none", "gone"}

LEMMA RecordsKept ==
  ASSUME RecordsTyped, RowKeeps, UNCHANGED <<kind, gens, revoked>>,
         outcome' \in [Gens -> {"none", "failure", "revoked"}]
  PROVE  RecordsTyped'
  BY DEF RecordsTyped, RowKeeps

(* Each way of writing the two. *)
LEMMA SameKeeps == ASSUME RecordsTyped, Same, UNCHANGED unlocked PROVE RowKeeps
  BY DEF RecordsTyped, Same, RowKeeps, unlocked

(* A verdict, or a pause, of a task that exists. *)
LEMMA StatusKeeps ==
  ASSUME RecordsTyped, Types, NEW s \in Live \cup Ended, task.status # "none", Status(s),
         UNCHANGED unlocked
  PROVE  RowKeeps
<1>1. task' = [task EXCEPT !.status = s] /\ row' \in {row, s}
  BY DEF Status
<1>2. task'.gen = task.gen
  BY <1>1 DEF Types, Tasks
<1> QED
  BY <1>1, <1>2 DEF RowKeeps, RecordsTyped, unlocked

(* The same, when it may yield. *)
LEMMA UpdateKeeps ==
  ASSUME RecordsTyped, Types, NEW s \in Live \cup Ended, Update(s), UNCHANGED unlocked
  PROVE  RowKeeps
<1>1. CASE Blocked(s)
  BY <1>1, SameKeeps DEF Update
<1>2. CASE ~Blocked(s)
  BY <1>2, StatusKeeps DEF Update, Blocked
<1> QED
  BY <1>1, <1>2

(* A request writes task and row, and asks the broker. *)
LEMMA RequestTypes ==
  ASSUME Counts, IInv, IInv', TypeInv,
         \/ \E c \in Clients : Create(c) \/ Start(c) \/ Resume(c) \/ Send(c) \/ PublishFailed(c)
         \/ Pause \/ Cancel \/ GetTask \/ Delete \/ Recover
         \/ (\E g \in Gens : Repeat(g)) \/ UNCHANGED businessVars
  PROVE  TypeInv'
<1>1. /\ wk' = wk /\ done' = done /\ kind' = kind /\ outcome' = outcome
      /\ msgs' = msgs \/ \E h : msgs' = [msgs EXCEPT ![h] = @ + 1]
  BY DEF Create, Start, Resume, Send, PublishFailed, Pause, Cancel, GetTask, Delete, Recover,
         Repeat, businessVars, broker, Same
<1>2. Held'
  <2>1. \A g \in Gens : msgs[g] <= msgs'[g]
    <3>1. \A g \in Gens : msgs[g] \in Int
      BY DEF IInv, Types
    <3>2. CASE msgs' = msgs
      BY <3>1, <3>2
    <3>3. ASSUME NEW h, msgs' = [msgs EXCEPT ![h] = @ + 1] PROVE \A g \in Gens : msgs[g] <= msgs'[g]
      BY <3>1, <3>3 DEF IInv, Types
    <3> QED BY <1>1, <3>2, <3>3
  <2>2. HoldersStay
    BY <1>1 DEF HoldersStay
  <2>3. msgs' \in [Gens -> Int]
    BY DEF IInv, Types
  <2> QED BY <2>1, <2>2, <2>3, StayHeld DEF IInv, TypeInv
<1>3. DoneFits'
  BY <1>1, DoneKept DEF TypeInv, NoneNearer
<1>4. RecordsTyped'
  <2> USE DEF TypeInv, IInv
  <2>1. outcome' \in [Gens -> {"none", "failure", "revoked"}]
    BY <1>1 DEF RecordsTyped
  <2>2. CASE \E c \in Clients : Start(c) \/ Resume(c)
    <3>1. PICK c \in Clients : Start(c) \/ Resume(c)
      BY <2>2
    <3>2. /\ gens < MaxGens /\ gens' = gens + 1 /\ revoked' = revoked
          /\ row' \in {row, "pending"}
      BY <3>1 DEF Start, Resume
    <3>3. task'.gen = gens'
      BY <3>1 DEF Start, Resume, NoTask, Types, Tasks
    <3>4. gens \in Nat /\ gens' <= MaxGens /\ gens' >= 1 /\ revoked' \subseteq 1 .. gens'
      BY <3>2 DEF Types, Counts, RecordsTyped
    <3>5. row' \in Live \cup Ended \cup {"none", "gone"} /\ kind' \in Kinds
      BY <3>2, <1>1 DEF RecordsTyped, Live
    <3>6. UNCHANGED unlocked
      BY <3>1 DEF Start, Resume
    <3> QED BY <2>1, <3>3, <3>4, <3>5, <3>6 DEF RecordsTyped, unlocked
  <2>3. CASE Cancel
    <3>1. task.status # "none" /\ task.gen <= gens
      BY <2>3 DEF Cancel, GensInv, Live
    <3>2. task.gen \in 1 .. gens
      BY <3>1 DEF RecordsTyped, Types, Tasks
    <3>3. revoked' \subseteq 1 .. gens
      BY <2>3, <3>2 DEF Cancel, RecordsTyped
    <3>4. RowKeeps
      BY <2>3, <3>1, StatusKeeps, SameKeeps DEF Cancel, Ended
    <3> QED BY <2>1, <2>3, <3>3, <3>4 DEF RecordsTyped, RowKeeps, Cancel
  <2>4. CASE ~Cancel /\ ~\E c \in Clients : Start(c) \/ Resume(c)
    <3>1. gens' = gens /\ revoked' = revoked
      BY <2>4 DEF Create, Send, PublishFailed, Pause, GetTask, Delete, Recover, Repeat,
                  businessVars, broker
    <3>2. RowKeeps
      <4>1. CASE \E c \in Clients : Create(c)
        BY <4>1 DEF Create, RowKeeps, RecordsTyped, Live, unlocked
      <4>2. CASE \E c \in Clients : Send(c)
        BY <4>2 DEF Send, RowKeeps, RecordsTyped, unlocked
      <4>3. CASE \E c \in Clients : PublishFailed(c)
        BY <4>3, StatusKeeps, SameKeeps DEF PublishFailed, Ended
      <4>4. CASE Pause
        <5>1. /\ task'.gen = task.gen /\ row' \in {row, "paused"} /\ task.status # "none"
              /\ UNCHANGED unlocked
          BY <4>4 DEF Pause, Types, Tasks
        <5> QED BY <5>1 DEF RowKeeps, RecordsTyped, Live, unlocked
      <4>5. CASE GetTask
        BY <4>5, UpdateKeeps DEF GetTask, Ended
      <4>6. CASE Delete
        <5>1. row' = "gone" /\ (task' = task \/ task' = NoTask) /\ UNCHANGED unlocked
          BY <4>6 DEF Delete
        <5> QED BY <5>1 DEF RowKeeps, RecordsTyped, NoTask, unlocked
      <4>8. CASE Recover
        <5>1. /\ row' \in {row, "failed"} /\ task' = task
              /\ recovery' \in {recovery, "none", "unowned", "doomed"}
              /\ overtaken' = overtaken \/ overtaken' \in BOOLEAN
          BY <4>8 DEF Recover, RecoverAtOnce, RecoverTasks, RecoverRows, RecoverWrite, unlocked
        <5> QED BY <5>1 DEF RowKeeps, RecordsTyped, Ended
      <4>7. CASE (\E g \in Gens : Repeat(g)) \/ UNCHANGED businessVars
        BY <4>7 DEF Repeat, businessVars, RowKeeps, RecordsTyped, unlocked
      <4> QED BY <2>4, <4>1, <4>2, <4>3, <4>4, <4>5, <4>6, <4>7, <4>8
    <3> QED BY <1>1, <2>1, <3>1, <3>2, RecordsKept
  <2> QED BY <2>2, <2>3, <2>4
<1> QED
  BY <1>2, <1>3, <1>4 DEF TypeInv

(* A worker returns its message. *)
LEMMA ReturnTypes ==
  ASSUME Counts, IInv, TypeInv, NEW w \in Workers,
         Refuse(w) \/ EarlyError(w) \/ Return(w) \/ RecordLost(w) \/ Terminate(w)
  PROVE  TypeInv'
<1> USE DEF TypeInv, IInv
<1>1. PICK o \in {"none", "failure", "revoked"} :
        Ack(w, o) /\ wk[w].pc # "idle" /\ kind' = kind /\ done' = done
  BY DEF Refuse, EarlyError, Return, RecordLost, Terminate
<1>2. /\ Held' /\ NoneNearer /\ gens' = gens /\ revoked' = revoked
      /\ outcome' \in [Gens -> {"none", "failure", "revoked"}]
  BY <1>1, AckHeld
<1>3. RowKeeps
  <2>1. CASE Refuse(w)
    BY <2>1, UpdateKeeps, SameKeeps DEF Refuse, Ended
  <2>2. CASE EarlyError(w)
    BY <2>2, StatusKeeps, SameKeeps DEF EarlyError, Claimable, Ended
  <2>3. CASE RecordLost(w)
    BY <2>3, StatusKeeps, SameKeeps DEF RecordLost, Ended
  <2>4. CASE Return(w) \/ Terminate(w)
    BY <2>4 DEF Return, Terminate, RowKeeps, RecordsTyped, unlocked
  <2> QED BY <2>1, <2>2, <2>3, <2>4
<1>4. DoneFits'
  BY <1>1, <1>2, DoneKept
<1>5. RecordsTyped'
  BY <1>1, <1>2, <1>3, RecordsKept
<1> QED
  BY <1>2, <1>4, <1>5

(* A message is delivered, or dropped; a worker dies and holds none. *)
LEMMA TakeTypes ==
  ASSUME Counts, IInv, IInv', TypeInv, NEW w \in Workers,
         (\E g \in Gens : Take(w, g)) \/ (Crash(w) /\ wk' = [wk EXCEPT ![w] = Free])
  PROVE  TypeInv'
<1> USE DEF TypeInv, IInv
<1>1. UNCHANGED <<kind, row, task, gens, revoked, done, recovery, overtaken>>
  BY DEF Take, Crash, broker, unlocked
<1>2. \A g \in Gens : Busy(g) \in Int /\ msgs[g] \in Int /\ Busy(g) <= msgs[g]
  BY BusyCounts DEF Types, Held
<1>3. CASE \E g \in Gens : Take(w, g)
  <2>1. PICK g \in Gens : Take(w, g)
    BY <1>3
  <2>2. wk[w].gen = 0 /\ msgs[g] > Busy(g)
    BY <2>1 DEF Take, Held
  <2>3. CASE g \in revoked
    <3>1. /\ wk' = wk /\ msgs' = [msgs EXCEPT ![g] = @ - 1]
          /\ outcome' = [outcome EXCEPT ![g] = "revoked"]
      BY <2>1, <2>3 DEF Take
    <3>2. \A h \in Gens : Busy(h)' = Busy(h)
      BY <3>1 DEF Busy
    <3>3. \A h \in Gens : msgs'[h] = IF h = g THEN msgs[h] - 1 ELSE msgs[h]
      BY <3>1 DEF Types
    <3>4. \A h \in Gens : Busy(h)' <= msgs'[h]
      BY <1>2, <2>2, <3>2, <3>3
    <3>5. Held' /\ NoneNearer
      BY <3>1, <3>4 DEF Held, NoneNearer
    <3>6. RecordsTyped'
      BY <1>1, <3>1 DEF RecordsTyped
    <3> QED BY <1>1, <3>5, <3>6, DoneKept
  <2>4. CASE g \notin revoked
    <3> DEFINE r == [pc |-> "got", gen |-> g, res |-> "none"]
    <3>1. /\ wk' = [wk EXCEPT ![w] = r] /\ msgs' = msgs /\ outcome' = outcome
      BY <2>1, <2>4 DEF Take, KeptTillDone
    <3>2. r.gen = g /\ r.pc = "got"
      OBVIOUS
    <3> HIDE DEF r
    <3>3. \A h \in Gens : Busy(h)' = IF h = g THEN Busy(h) + 1 ELSE Busy(h)
      BY <2>2, <3>1, <3>2, TakenHolds
    <3>4. \A h \in Gens : Busy(h)' <= msgs'[h]
      BY <1>2, <2>2, <3>1, <3>3
    <3>5. wk'[w] = r /\ \A v \in Workers : v # w => wk'[v] = wk[v]
      BY <3>1 DEF Types
    <3>6. Held' /\ NoneNearer
      BY <3>2, <3>4, <3>5 DEF Held, NoneNearer
    <3>7. RecordsTyped'
      BY <1>1, <3>1 DEF RecordsTyped
    <3> QED BY <1>1, <3>6, <3>7, DoneKept
  <2> QED BY <2>3, <2>4
<1>4. CASE Crash(w) /\ wk' = [wk EXCEPT ![w] = Free]
  <2>1. msgs' = msgs /\ outcome' = outcome
    BY <1>4 DEF Crash, broker
  <2>2. \A g \in Gens : Busy(g)' = IF wk[w].gen = g THEN Busy(g) - 1 ELSE Busy(g)
    BY <1>4, FreedHolds
  <2>3. \A g \in Gens : Busy(g)' <= msgs'[g]
    BY <1>2, <2>1, <2>2
  <2>4. wk'[w] = Free /\ \A v \in Workers : v # w => wk'[v] = wk[v]
    BY <1>4 DEF Types
  <2>5. Held' /\ NoneNearer
    BY <2>3, <2>4 DEF Held, NoneNearer, Free
  <2>6. RecordsTyped'
    BY <1>1, <2>1 DEF RecordsTyped
  <2> QED BY <1>1, <2>5, <2>6, DoneKept
<1> QED
  BY <1>3, <1>4

(* A worker goes on by itself: it keeps its message, and begins a unit     *)
(* after it has seen that one is left.                                     *)
LEMMA WorkTypes ==
  ASSUME Counts, IInv, TypeInv, NEW w \in Workers,
         \/ Claim(w) \/ Read(w) \/ Check(w) \/ StartUnit(w) \/ EndUnit(w) \/ AllDone(w)
         \/ Raise(w) \/ Finish(w) \/ FinishPaused(w) \/ FinishFails(w) \/ Post(w) \/ PostRow(w)
         \/ PostTask(w) \/ ErrorTask(w) \/ ErrorRow(w) \/ WriteRow(w) \/ Settle(w) \/ Confirm(w)
         \/ (Crash(w) /\ Go(w, "lost"))
  PROVE  TypeInv'
<1> USE DEF TypeInv, IInv
<1>1. UNCHANGED <<kind, gens, msgs, revoked, outcome>>
  BY DEF Claim, Read, Check, StartUnit, EndUnit, AllDone, Raise, Finish, FinishPaused,
         FinishFails, Post, PostRow, PostTask, ErrorTask, ErrorRow, WriteRow, Settle, Confirm,
         Crash, broker
<1>2. \/ \E pc \in PCs \ {"idle"} : Go(w, pc)
      \/ \E s : Result(w, s) \/ Settling(w, s)
      \/ PostRow(w)
  BY DEF Claim, Read, Check, StartUnit, EndUnit, AllDone, Raise, Finish, FinishPaused,
         FinishFails, Post, PostTask, ErrorTask, ErrorRow, WriteRow, Settle, Confirm, PCs,
         Outside
<1>3. Held'
  <2>1. HoldersStay
    BY <1>2, GoStays, ResultStays, PostRowStays
  <2>2. \A g \in Gens : msgs[g] \in Int /\ msgs'[g] = msgs[g]
    BY <1>1 DEF Types
  <2>3. msgs' \in [Gens -> Int] /\ \A g \in Gens : msgs[g] <= msgs'[g]
    BY <1>1, <2>2 DEF Types
  <2> QED BY <2>1, <2>3, StayHeld
<1>4. RowKeeps
  <2>1. CASE Claim(w) \/ Confirm(w)
    <3>1. \/ task'.gen = task.gen /\ task.status # "none" /\ row' \in {row, "running"}
          \/ UNCHANGED <<task, row>>
      BY <2>1 DEF Claim, Claimable, Confirm, Confirms, Types, Tasks
    <3>2. UNCHANGED unlocked
      BY <2>1 DEF Claim, Confirm
    <3> QED BY <3>1, <3>2 DEF RowKeeps, RecordsTyped, Live, unlocked
  <2>2. CASE Finish(w)
    <3>1. wk[w].res \in {"paused", "completed", "failed"}
      BY <2>2 DEF Finish, Types, Decided
    <3> QED BY <2>2, <3>1, StatusKeeps, SameKeeps DEF Finish, MayFinish, Ended, Live
  <2>3. CASE FinishPaused(w)
    <3>1. /\ row' \in {row, "paused"} /\ UNCHANGED unlocked
          /\ task'.gen = task.gen /\ (task'.status # "none" => task.status # "none")
      BY <2>3 DEF FinishPaused, Types, Tasks
    <3> QED BY <3>1 DEF RowKeeps, RecordsTyped, Live, unlocked
  <2>4. CASE Post(w) \/ Settle(w)
    <3>1. (Same \/ \E s \in Live \cup Ended : Update(s)) /\ UNCHANGED unlocked
      BY <2>4 DEF Post, Settle, Types, Decided, Ended, Live
    <3> QED BY <3>1, SameKeeps, UpdateKeeps
  <2>5. CASE PostRow(w) \/ PostTask(w) \/ ErrorTask(w) \/ ErrorRow(w) \/ WriteRow(w)
    <3>1. /\ row' \in {row, "paused", "failed"} /\ task' = task /\ recovery' = recovery
          /\ overtaken' = overtaken \/ overtaken' \in BOOLEAN
      BY <2>5 DEF PostRow, PostTask, ErrorTask, ErrorRow, WriteRow, unlocked
    <3> QED BY <3>1 DEF RowKeeps, RecordsTyped, Live, Ended
  <2>6. CASE \/ Read(w) \/ Check(w) \/ StartUnit(w) \/ EndUnit(w) \/ AllDone(w) \/ Raise(w)
             \/ FinishFails(w) \/ Crash(w)
    BY <2>6 DEF Read, Check, StartUnit, EndUnit, AllDone, Raise, FinishFails, Crash, RowKeeps,
                RecordsTyped, unlocked
  <2> QED BY <2>1, <2>2, <2>3, <2>4, <2>5, <2>6
<1>5. DoneFits'
  <2>1. CASE Check(w) \/ StartUnit(w)
    <3>1. done' = done /\ done < NUnits
      BY <2>1 DEF Check, StartUnit, DoneFits
    <3> QED BY <3>1 DEF DoneFits
  <2>2. CASE EndUnit(w)
    <3>1. done < NUnits /\ done' = done + 1 /\ wk[w].pc = "unit" /\ Go(w, "loop")
      BY <2>2 DEF EndUnit, DoneFits
    <3>2. \A v \in Workers : wk[v].pc \in {"start", "unit"} => v = w
      BY <3>1 DEF ClaimInv, Executing, Outside
    <3>3. wk'[w].pc = "loop" /\ NoneNearer
      <4>1. wk'[w].pc = "loop"
        BY <3>1 DEF Go, Types, WorkerRecords
      <4>2. NoneNearer
        BY <3>1, GoStays
      <4> QED BY <4>1, <4>2
    <3>4. \A v \in Workers : wk'[v].pc \notin {"start", "unit"}
      BY <3>2, <3>3 DEF NoneNearer
    <3> QED BY <3>1, <3>4 DEF DoneFits, Counts
  <2>3. CASE ~Check(w) /\ ~StartUnit(w) /\ ~EndUnit(w)
    <3>1. done' = done
      BY <2>3 DEF Claim, Read, AllDone, Raise, Finish, FinishPaused, FinishFails, Post, PostRow,
                  PostTask, ErrorTask, ErrorRow, WriteRow, Settle, Confirm, Crash
    <3>2. \/ \E pc \in PCs \ {"idle", "start", "unit"} : Go(w, pc)
          \/ \E s : Result(w, s) \/ Settling(w, s)
          \/ PostRow(w)
      BY <2>3 DEF Claim, Read, AllDone, Raise, Finish, FinishPaused, FinishFails, Post, PostTask,
                  ErrorTask, ErrorRow, WriteRow, Settle, Confirm, PCs, Outside
    <3>3. NoneNearer
      BY <3>2, GoStays, ResultStays, PostRowStays
    <3> QED BY <3>1, <3>3, DoneKept
  <2> QED BY <2>1, <2>2, <2>3
<1>6. RecordsTyped'
  BY <1>1, <1>4, RecordsKept DEF RecordsTyped
<1> QED
  BY <1>3, <1>5, <1>6

(* At first nobody holds anything. *)
LEMMA TypesInit == Counts /\ Init => TypeInv
<1> SUFFICES ASSUME Counts, Init PROVE TypeInv
  OBVIOUS
<1>1. ASSUME NEW g \in Gens PROVE Busy(g) = 0
  <2>1. {w \in Workers : wk[w].gen = g} = {}
    BY DEF Init, Free, Gens, Counts
  <2> QED BY <2>1, FS_EmptySet DEF Busy
<1>2. Held
  BY <1>1 DEF Init, Held, Free
<1>3. DoneFits
  BY DEF Init, DoneFits, Free, Counts
<1>4. overtaken \in BOOLEAN
  BY DEF Init
<1>5. RecordsTyped
  <2>1. /\ row = "none" /\ gens = 0 /\ revoked = {} /\ task.status = "none"
        /\ outcome = [g \in Gens |-> "none"] /\ kind \in Kinds /\ recovery = "none"
    BY DEF Init, NoTask
  <2> QED BY <1>4, <2>1 DEF RecordsTyped, Counts
<1> QED
  BY <1>2, <1>3, <1>5 DEF TypeInv

(* Every step keeps the types. *)
LEMMA TypesStep ==
  ASSUME Counts, IInv, IInv', TypeInv, [Next]_businessVars
  PROVE  TypeInv'
<1>1. ASSUME NEW w \in Workers, Crash(w)
      PROVE  wk' = [wk EXCEPT ![w] = Free] \/ Go(w, "lost")
  BY <1>1 DEF Crash
<1> QED
  BY <1>1, RequestTypes, ReturnTypes, TakeTypes, WorkTypes DEF Next, Request, Failure, Carry, Work

(* The types follow. *)
LEMMA InvariantGivesTypes == Counts /\ IInv /\ TypeInv => TypeOK
  BY DEF Counts, IInv, Types, Tasks, Statuses, GensInv, TypeInv, Held, DoneFits, RecordsTyped,
         TypeOK, Gens

---------------------------------------------------------------------------
(* With finitely many workers, one of them executes at a time, none after a *)
(* confirmed stop, and at most one unit begins after a stop. *)
THEOREM ExecutorAlone ==
  ASSUME IsFiniteSet(Workers)
  PROVE  Spec => []OneExecutor
<1>1. IInv /\ [Next]_businessVars => IInv'
  BY StepHolds
<1> QED
  BY <1>1, InitHolds, InvariantGivesOneExecutor, PTL DEF Spec

(* A task that has ended or is paused and its business row say the same,   *)
(* but for a benchmark whose unlocked write was overtaken.                 *)
THEOREM RowAgreesAlways ==
  ASSUME IsFiniteSet(Workers)
  PROVE  Spec => []RowAgrees
<1>1. IInv /\ [Next]_businessVars => IInv'
  BY StepHolds
<1>2. IInv /\ RowInv /\ [Next]_businessVars => RowInv'
  BY RowInvStep
<1>3. RowInv => RowAgrees
  BY DEF RowInv
<1> QED
  BY <1>1, <1>2, <1>3, InitHolds, RowInvInit, PTL DEF Spec
=============================================================================
