------------------------------ MODULE FileStore ------------------------------
(***************************************************************************)
(* A user's uploads (api/files/service.py, store.py, api/routes/files.py). *)
(* An upload is a row of the file database and bytes on disk, and no       *)
(* transaction covers both: bytes are staged, renamed and then listed, and  *)
(* cleanup takes away what is deleted or expired, and what a crash left     *)
(* behind, beside uploads and imports that other threads and workers do.    *)
(***************************************************************************)
EXTENDS Naturals, FiniteSets

CONSTANTS
  Files,      \* the uploads that may be made
  Sweepers,   \* threads that run cleanup
  Ttl,        \* FILE_TTL_SECONDS
  Timeout,    \* FILE_IMPORT_TIMEOUT_SECONDS
  MaxTime,    \* bound: the clock
  FileFaults, MaxFileFaults  \* bounds: which faults occur, once each, and how many

VARIABLES
  clock, disk,  \* the bytes on disk: pairs of an upload and "stage" or "target"
  row,       \* api_file_objects by upload
  up,        \* the request that makes the upload
  job,       \* the latest import of the upload
  asks,      \* import requests that have read the clock
  sw, lock,  \* the cleanups, and the one that holds the write lock
  excused,   \* history: uploads whose bytes the program is known to lose
  hit        \* the kinds of fault that have occurred

fileVars == <<clock, disk, row, up, job, asks, sw, lock, excused, hit>>

Grace == Ttl                \* max(3600, FILE_TTL_SECONDS), with a TTL of more than an hour
Never == MaxTime + 1        \* expires_at IS NULL
NoRow  == [listed |-> FALSE, deleted |-> FALSE, expires |-> Never]
NoUp   == [pc |-> "new", at |-> 0, expires |-> Never]
NoJob  == [status |-> "none", updated |-> 0]
NoAsk  == MaxTime + 1
Idle   == [pc |-> "idle", at |-> 0, todo |-> {}, gone |-> {}, orphan |-> {}]

Active(f)  == job[f].status \in {"pending", "running"}
Target(f)  == <<f, "target">>
Staged(f)  == <<f, "stage">>
Unlocked   == lock = "nobody"
Strike(k)  == k \in FileFaults \ hit /\ Cardinality(hit) < MaxFileFaults /\ hit' = hit \cup {k}
Uploading(f) == up[f].pc \in {"staged", "placed", "listed", "failed"}

(* owned_file. *)
Usable(f)   == row[f].listed /\ ~row[f].deleted /\ row[f].expires > clock
(* read_file finds the bytes. *)
Stored(f)   == Target(f) \in disk

---------------------------------------------------------------------------
(* The request that uploads *)

(* upload: the body goes to a staging file; configurations never expire. *)
Stage(f) ==
  /\ up[f].pc = "new"
  /\ \E expires \in {clock + Ttl, Never} :
       up' = [up EXCEPT ![f] = [pc |-> "staged", at |-> clock, expires |-> expires]]
  /\ disk' = disk \cup {Staged(f)}
  /\ UNCHANGED <<clock, row, job, asks, sw, lock, excused, hit>>

(* Too large, or not to be parsed. *)
Refuse(f) ==
  /\ up[f].pc = "staged" /\ up' = [up EXCEPT ![f].pc = "done"]
  /\ disk' = disk \ {Staged(f)}
  /\ UNCHANGED <<clock, row, job, asks, sw, lock, excused, hit>>

(* _persist: os.replace keeps the time the bytes were written. *)
Place(f) ==
  /\ up[f].pc = "staged" /\ up' = [up EXCEPT ![f].pc = "placed"]
  /\ disk' = (disk \ {Staged(f)}) \cup {Target(f)}
  /\ UNCHANGED <<clock, row, job, asks, sw, lock, excused, hit>>

(* add_file; the user's other files may have used up the quota. *)
AddFile(f) ==
  /\ up[f].pc = "placed" /\ Unlocked
  /\ \/ /\ row' = [row EXCEPT ![f] = [NoRow EXCEPT !.listed = TRUE, !.expires = up[f].expires]]
        /\ up' = [up EXCEPT ![f].pc = "listed"]
     \/ up' = [up EXCEPT ![f].pc = "failed"] /\ UNCHANGED row
  /\ UNCHANGED <<clock, disk, job, asks, sw, lock, excused, hit>>

(* The audit record that follows may fail: the row stays. *)
Audit(f) ==
  /\ up[f].pc = "listed"
  /\ \/ up' = [up EXCEPT ![f].pc = "done"] /\ UNCHANGED <<hit, excused>>
     \/ Strike("audit") /\ up' = [up EXCEPT ![f].pc = "failed"] /\ excused' = excused \cup {f}
  /\ UNCHANGED <<clock, disk, row, job, asks, sw, lock>>

Undo(f) ==
  /\ up[f].pc = "failed" /\ up' = [up EXCEPT ![f].pc = "done"]
  /\ disk' = disk \ {Target(f)}
  /\ UNCHANGED <<clock, row, job, asks, sw, lock, excused, hit>>

(* delete_file: it found the upload a moment before; an import forbids it. *)
Delete(f) ==
  /\ row[f].listed /\ ~row[f].deleted /\ up[f].pc = "done" /\ Unlocked /\ ~Active(f)
  /\ row' = [row EXCEPT ![f].deleted = TRUE]
  /\ UNCHANGED <<clock, disk, up, job, asks, sw, lock, excused, hit>>

---------------------------------------------------------------------------
(* Imports of an upload, as far as its bytes and its row are concerned *)

(* create_job reads the clock before it waits for the database. *)
AskImport(f) ==
  /\ asks[f] = NoAsk /\ up[f].pc = "done" /\ asks' = [asks EXCEPT ![f] = clock]
  /\ UNCHANGED <<clock, disk, row, up, job, sw, lock, excused, hit>>

CreateJob(f) ==
  /\ asks[f] # NoAsk /\ Unlocked /\ asks' = [asks EXCEPT ![f] = NoAsk]
  /\ job' = IF row[f].listed /\ ~row[f].deleted /\ row[f].expires > asks[f]
                 /\ row[f].expires # Never /\ ~Active(f)
            THEN [job EXCEPT ![f] = [status |-> "pending", updated |-> asks[f]]] ELSE job
  /\ UNCHANGED <<clock, disk, row, up, sw, lock, excused, hit>>

SetJob(f, from, to) ==
  /\ Unlocked /\ job[f].status = from
  /\ job' = [job EXCEPT ![f] = [status |-> to, updated |-> clock]]
  /\ UNCHANGED <<clock, disk, row, up, asks, sw, lock, excused, hit>>

Claim(f)    == SetJob(f, "pending", "running")    \* claim_job
Progress(f) == SetJob(f, "running", "running")    \* progress
Pause(f)    == SetJob(f, "running", "paused")     \* pause_job
Resume(f)   == SetJob(f, "paused", "pending")     \* sync_task_status
Finish(f)   == SetJob(f, "running", "ended")      \* merge_dataset, fail_job

---------------------------------------------------------------------------
(* cleanup *)

Expired(f, now) == row[f].deleted \/ row[f].expires <= now
TimedOut(f, now) == Active(f) /\ job[f].updated + Timeout <= now

(* Deleted or expired rows that no live import needs. *)
Doomed(now) ==
  {f \in Files : row[f].listed /\ Expired(f, now) /\ (Active(f) => TimedOut(f, now))}

(* cleanup reads the clock first; any idle thread is as good as another. *)
Sweep(s) ==
  /\ sw[s].pc = "idle" /\ s = CHOOSE v \in Sweepers : sw[v].pc = "idle"
  /\ sw' = [sw EXCEPT ![s] = [Idle EXCEPT !.pc = "waiting", !.at = clock]]
  /\ UNCHANGED <<clock, disk, row, up, job, asks, lock, excused, hit>>

Lock(s) ==
  /\ sw[s].pc = "waiting" /\ Unlocked /\ lock' = s
  /\ sw' = [sw EXCEPT ![s].pc = "rows", ![s].todo = Doomed(sw[s].at)]
  /\ UNCHANGED <<clock, disk, row, up, job, asks, excused, hit>>

(* The file goes at once, its row with the commit; if the file cannot be    *)
(* removed, the row stays for another time.                                *)
Unlink(s, f) ==
  /\ sw[s].pc = "rows" /\ f \in sw[s].todo
  /\ \/ /\ disk' = disk \ {Target(f)}
        /\ sw' = [sw EXCEPT ![s].todo = @ \ {f}, ![s].gone = @ \cup {f}]
        /\ excused' = IF job[f].status = "paused" THEN excused \cup {f} ELSE excused
        /\ UNCHANGED hit
     \/ /\ Strike("unlink") /\ sw' = [sw EXCEPT ![s].todo = @ \ {f}]
        /\ UNCHANGED <<disk, excused>>
  /\ UNCHANGED <<clock, row, up, job, asks, lock>>

Commit(s) ==
  /\ sw[s].pc = "rows" /\ sw[s].todo = {} /\ lock' = "nobody"
  /\ job' = [f \in Files |-> IF TimedOut(f, sw[s].at)
                             THEN [status |-> "ended", updated |-> sw[s].at] ELSE job[f]]
  /\ row' = [f \in Files |-> IF f \in sw[s].gone THEN NoRow ELSE row[f]]
  /\ sw' = [sw EXCEPT ![s].pc = "orphans", ![s].todo = {}, ![s].gone = {}]
  /\ UNCHANGED <<clock, disk, up, asks, excused, hit>>

(* A file whose upload may still be under way is not touched. *)
OldEnough(f, now) == up[f].at + Grace < now

(* No row names a staging file, and none may name the target. *)
FindOrphan(s) ==
  /\ sw[s].pc = "orphans" /\ sw[s].orphan = {}
  /\ \E d \in disk :
       /\ OldEnough(d[1], sw[s].at) /\ (d = Target(d[1]) => ~row[d[1]].listed)
       /\ sw' = [sw EXCEPT ![s].orphan = {d}]
  /\ UNCHANGED <<clock, disk, row, up, job, asks, lock, excused, hit>>

RemoveOrphan(s) ==
  /\ sw[s].orphan # {} /\ disk' = disk \ sw[s].orphan /\ sw' = [sw EXCEPT ![s].orphan = {}]
  /\ UNCHANGED <<clock, row, up, job, asks, lock, excused, hit>>

Swept(s) ==
  /\ sw[s].pc = "orphans" /\ sw[s].orphan = {} /\ sw' = [sw EXCEPT ![s] = Idle]
  /\ UNCHANGED <<clock, disk, row, up, job, asks, lock, excused, hit>>

---------------------------------------------------------------------------
(* The process dies: its requests end where they are, and a transaction    *)
(* that was open is as if it had not been, but for the bytes.              *)
Crash ==
  /\ Strike("crash")
  /\ up' = [f \in Files |-> IF Uploading(f) THEN [up[f] EXCEPT !.pc = "done"] ELSE up[f]]
  /\ asks' = [f \in Files |-> NoAsk]
  /\ sw' = [s \in Sweepers |-> Idle] /\ lock' = "nobody"
  /\ excused' = excused \cup UNION {sw[s].gone : s \in Sweepers}
  /\ UNCHANGED <<clock, disk, row, job>>

(* Time passes; no upload lasts as long as the grace. *)
Tick ==
  /\ clock < MaxTime /\ \A f \in Files : Uploading(f) => clock < up[f].at + Grace
  /\ clock' = clock + 1
  /\ UNCHANGED <<disk, row, up, job, asks, sw, lock, excused, hit>>

Init ==
  /\ clock = 0 /\ disk = {} /\ row = [f \in Files |-> NoRow] /\ up = [f \in Files |-> NoUp]
  /\ job = [f \in Files |-> NoJob] /\ asks = [f \in Files |-> NoAsk]
  /\ sw = [s \in Sweepers |-> Idle] /\ lock = "nobody" /\ excused = {} /\ hit = {}

Next ==
  \/ \E f \in Files :
       \/ Stage(f) \/ Refuse(f) \/ Place(f) \/ AddFile(f) \/ Audit(f) \/ Undo(f) \/ Delete(f)
       \/ AskImport(f) \/ CreateJob(f) \/ Claim(f) \/ Progress(f) \/ Pause(f) \/ Resume(f)
       \/ Finish(f)
  \/ \E s \in Sweepers :
       \/ Sweep(s) \/ Lock(s) \/ Commit(s) \/ FindOrphan(s) \/ RemoveOrphan(s) \/ Swept(s)
       \/ \E f \in Files : Unlink(s, f)
  \/ Crash \/ Tick

Spec == Init /\ [][Next]_fileVars

---------------------------------------------------------------------------
(* Type correctness. *)
TypeOK ==
  /\ clock \in 0 .. MaxTime /\ disk \subseteq Files \X {"stage", "target"}
  /\ row \in [Files -> [listed : BOOLEAN, deleted : BOOLEAN, expires : 0 .. Never + Ttl]]
  /\ up \in [Files -> [pc : {"new", "staged", "placed", "listed", "failed", "done"},
                       at : 0 .. MaxTime, expires : 0 .. Never + Ttl]]
  /\ job \in [Files -> [status : {"none", "pending", "running", "paused", "ended"},
                        updated : 0 .. MaxTime]]
  /\ asks \in [Files -> 0 .. NoAsk] /\ lock \in Sweepers \cup {"nobody"}
  /\ \A s \in Sweepers :
       /\ sw[s].pc \in {"idle", "waiting", "rows", "orphans"}
       /\ sw[s].pc = "rows" <=> lock = s

(* What is listed can be read and what is being imported is on disk,       *)
(* whatever cleanups, crashes and refusals come between the bytes and the  *)
(* row. Excused are an upload whose audit failed after it was listed, a     *)
(* paused import, which does not protect its upload, and an import found   *)
(* too late by a cleanup that died before its commit.                      *)
ListedIsStored ==
  \A f \in Files \ excused :
    \/ Stored(f)
    \/ ~Usable(f) /\ ~Active(f)
    \/ \E s \in Sweepers : f \in sw[s].gone
=============================================================================
