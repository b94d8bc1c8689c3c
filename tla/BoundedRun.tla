----------------------------- MODULE BoundedRun -----------------------------
(***************************************************************************)
(* One sandboxed command (src/utils/process_manager.py): the child and a   *)
(* process it may start share its two pipes; two threads pump them into    *)
(* buffers, the caller polls for the limit, the deadline and the end. The  *)
(* tree is killed in every case. src/sandbox_executor.py turns the outcome *)
(* into a test's status.                                                   *)
(***************************************************************************)
EXTENDS Naturals, FiniteSets

CONSTANTS
  Cap,     \* max_output_bytes, both streams together
  Chunk,   \* what a read waits for, unless the pipe ends before
  MaxBytes \* bound: bytes written to one pipe

Procs == {"child", "grandchild"}
Pipes == {"stdout", "stderr"}

VARIABLES
  tree,    \* processes: unborn, alive, dead
  holds,   \* pipes: the processes that may still write to them
  written, \* pipes: bytes written
  buffer,  \* pipes: bytes in its buffer
  pump,    \* pipes: its thread's place: read, over, kill, done
  limit,   \* limit_hit
  late,    \* the deadline has passed
  pc,      \* the caller: limit, time, exit (the checks of one round), settle, finally, ended
  result   \* none, ok, timeout, output_limit; and the status its test gets

boundedVars == <<tree, holds, written, buffer, pump, limit, late, pc, result>>

Total == buffer["stdout"] + buffer["stderr"]
Alive == {p \in Procs : tree[p] = "alive"}

(* The program in the sandbox writes, starts another process, closes a     *)
(* pipe, ends; all at any time.                                            *)
Write(p, pipe) ==
  /\ p \in Alive /\ p \in holds[pipe] /\ written[pipe] < MaxBytes
  /\ written' = [written EXCEPT ![pipe] = @ + 1]
  /\ UNCHANGED <<tree, holds, buffer, pump, limit, late, pc, result>>

Fork ==
  /\ "child" \in Alive /\ tree["grandchild"] = "unborn"
  /\ tree' = [tree EXCEPT !["grandchild"] = "alive"]
  /\ holds' = [pipe \in Pipes |-> IF "child" \in holds[pipe] THEN Procs ELSE holds[pipe]]
  /\ UNCHANGED <<written, buffer, pump, limit, late, pc, result>>

Close(p, pipe) ==
  /\ p \in Alive /\ p \in holds[pipe]
  /\ holds' = [holds EXCEPT ![pipe] = @ \ {p}]
  /\ UNCHANGED <<tree, written, buffer, pump, limit, late, pc, result>>

Ends(dying) ==
  /\ tree' = [p \in Procs |-> IF p \in dying THEN "dead" ELSE tree[p]]
  /\ holds' = [pipe \in Pipes |-> holds[pipe] \ dying]

Exit(p) ==
  /\ p \in Alive /\ Ends({p})
  /\ UNCHANGED <<written, buffer, pump, limit, late, pc, result>>

(* terminate_tree: the whole session of the child. *)
KillTree == Ends(Alive)

(* _pump: one read, added under the lock with the total of that moment.    *)
Read(pipe) ==
  LET left == written[pipe] - buffer[pipe]
      got  == IF left < Chunk THEN left ELSE Chunk
  IN  /\ pump[pipe] = "read" /\ (left >= Chunk \/ holds[pipe] = {})
      /\ buffer' = [buffer EXCEPT ![pipe] = @ + got]
      /\ pump' = [pump EXCEPT ![pipe] = CASE got = 0 -> "done"
                                          [] got > 0 /\ Total + got > Cap -> "over"
                                          [] OTHER -> "read"]
      /\ UNCHANGED <<tree, holds, written, limit, late, pc, result>>

(* Beyond the cap: first the flag, after the lock is free, then the kill.  *)
Over(pipe) ==
  /\ pump[pipe] = "over" /\ limit' = TRUE /\ pump' = [pump EXCEPT ![pipe] = "kill"]
  /\ UNCHANGED <<tree, holds, written, buffer, late, pc, result>>

Kill(pipe) ==
  /\ pump[pipe] = "kill" /\ KillTree /\ pump' = [pump EXCEPT ![pipe] = "done"]
  /\ UNCHANGED <<written, buffer, limit, late, pc, result>>

Outcome(r) == pc' = "finally" /\ result' = r

(* One round of the caller's loop: raise_if_limited, the deadline, the end. *)
SeesLimit ==
  /\ pc = "limit"
  /\ IF limit THEN Outcome("output_limit") ELSE pc' = "time" /\ UNCHANGED result
  /\ UNCHANGED <<tree, holds, written, buffer, pump, limit, late>>

SeesTime ==
  /\ pc = "time"
  /\ IF late THEN Outcome("timeout") ELSE pc' = "exit" /\ UNCHANGED result
  /\ UNCHANGED <<tree, holds, written, buffer, pump, limit, late>>

SeesExit ==
  /\ pc = "exit"
  /\ pc' = IF tree["child"] = "dead" /\ \A pipe \in Pipes : pump[pipe] = "done"
           THEN "settle" ELSE "limit"
  /\ UNCHANGED <<tree, holds, written, buffer, pump, limit, late, result>>

(* Slip: a limit hit since the round's first check goes unseen. *)
SettlesAtOnce == Outcome("ok")

(* raise_if_limited again, and the result; its status is the test's. *)
Settles == IF limit THEN Outcome("output_limit") ELSE Outcome("ok")

Settle ==
  /\ pc = "settle" /\ Settles
  /\ UNCHANGED <<tree, holds, written, buffer, pump, limit, late>>

(* The finally clause, whatever the outcome. *)
Finally ==
  /\ pc = "finally" /\ KillTree /\ pc' = "ended"
  /\ UNCHANGED <<written, buffer, pump, limit, late, result>>

Deadline ==
  /\ ~late /\ late' = TRUE
  /\ UNCHANGED <<tree, holds, written, buffer, pump, limit, pc, result>>

(* spawn, and the threads are started. *)
Init ==
  /\ tree = [p \in Procs |-> IF p = "child" THEN "alive" ELSE "unborn"]
  /\ holds = [pipe \in Pipes |-> {"child"}]
  /\ written = [pipe \in Pipes |-> 0] /\ buffer = written
  /\ pump = [pipe \in Pipes |-> "read"] /\ limit = FALSE /\ late = FALSE
  /\ pc = "limit" /\ result = "none"

Next ==
  \/ Fork \/ SeesLimit \/ SeesTime \/ SeesExit \/ Settle \/ Finally \/ Deadline
  \/ \E p \in Procs : Exit(p) \/ \E pipe \in Pipes : Write(p, pipe) \/ Close(p, pipe)
  \/ \E pipe \in Pipes : Read(pipe) \/ Over(pipe) \/ Kill(pipe)

Spec == Init /\ [][Next]_boundedVars

---------------------------------------------------------------------------
(* Properties *)

TypeOK ==
  /\ \A p \in Procs : tree[p] \in {"unborn", "alive", "dead"}
  /\ \A pipe \in Pipes : holds[pipe] \subseteq Alive /\ buffer[pipe] <= written[pipe]
  /\ result \in {"none", "ok", "timeout", "output_limit"}

(* No process of the tree outlives the run, whoever left first and whoever *)
(* still held a pipe; a run that succeeds has read every byte any of them  *)
(* wrote, within the cap; and a run blamed for its output was beyond it,   *)
(* wherever the last read falls in the caller's round (run_bounded).       *)
RunIsClean ==
  /\ pc = "ended" => Alive = {}
  /\ result = "ok" => tree["child"] = "dead" /\ buffer = written /\ Total <= Cap
  /\ result = "output_limit" => Total > Cap
=============================================================================
