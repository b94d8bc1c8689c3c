------------------------ MODULE ArtifactPublication ------------------------
(***************************************************************************)
(* The result artifact of one evaluation: a snapshot is staged with every  *)
(* commit of results or status (business database), published as an        *)
(* immutable file (file database) and activated there, and only then        *)
(* recorded as published. api/services/artifact_service.py, with           *)
(* api/files/{store,service}.py and src/tasks/artifacts.py. A transaction  *)
(* that locks the evaluation is one step, except the last one, which       *)
(* spans both databases.                                                   *)
(***************************************************************************)
EXTENDS Naturals, FiniteSets

CONSTANTS
  Workers, Clients,
  MaxRevs, MaxFiles,   \* bounds: snapshots staged, files written
  MaxTries,            \* bound: deliveries of one message by retry (max_retries)
  MaxAsks,             \* bound: requests of the owner
  FaultKinds, MaxFaults \* bounds: which faults occur, once each, and how many

VARIABLES
  src,     \* the evaluation: its results, and its execution with its status
  pub,     \* publication row: revision, what it was staged of, status, published revision
  reg,     \* api_file_runs: active file, its revision and source, and what was deleted
  files,   \* api_file_objects
  notes,   \* revisions that _commit or the evaluation's worker still publishes
  msgs,    \* messages to publish_evaluation_artifacts
  wk,      \* publications under way
  cl,      \* requests of the owner under way: delete, retry
  asks,    \* how many there have been
  lock,    \* who holds the evaluation's row across two databases
  faults   \* the kinds of fault that have occurred

artifactVars == <<src, pub, reg, files, notes, msgs, wk, cl, asks, lock, faults>>

FileIds == 1 .. MaxFiles
Nowhere == [data |-> 0, run |-> 0]
Absent  == [state |-> "none", rev |-> 0, of |-> Nowhere, readable |-> FALSE]
Idle    == [pc |-> "idle", rev |-> 0, manual |-> FALSE, tries |-> 0, of |-> Nowhere,
            found |-> 0, cand |-> 0, bad |-> 0, code |-> "none"]
NoCall  == [pc |-> "idle", rev |-> 0, file |-> 0]

Fault(f) == /\ f \in FaultKinds \ faults /\ Cardinality(faults) < MaxFaults
            /\ faults' = faults \cup {f}
Go(w, pc) == wk' = [wk EXCEPT ![w].pc = pc]
Leave(w, pc, code) ==
  wk' = [wk EXCEPT ![w] = [@ EXCEPT !.pc = pc, !.code = code, !.of = Nowhere, !.found = 0, !.bad = 0]]
Fails(w, code) == Leave(w, "fail", code)
Free == lock = "nobody"

Usable(f) == f # 0 /\ files[f].state \in {"staged", "kept"} /\ files[f].readable

(* _source_current: results alone do not make a snapshot stale. *)
SourceCurrent == pub.rev > 0 /\ pub.of.run = src.run

(* _deleted. *)
Deleted(rev, of) == (reg.deleted # 0 /\ reg.deleted >= rev) \/ reg.gone = of.data

(* _active_snapshot succeeds. *)
ActiveIsGood == /\ ~Deleted(pub.rev, pub.of) /\ reg.rev = pub.rev /\ reg.of = pub.of
                /\ Usable(reg.file)

---------------------------------------------------------------------------
(* The evaluation *)

(* stage_publication: the same snapshot keeps its revision. *)
Staged(s) == IF pub.rev > 0 /\ pub.of = s THEN pub
             ELSE [pub EXCEPT !.rev = @ + 1, !.of = s, !.status = "pending"]

(* Results or a status are committed, with the snapshot; or another        *)
(* execution is linked, or a status changes before there are results,      *)
(* which stages nothing. Bound: there are fewer links than revisions.      *)
Advance ==
  /\ Free
  /\ \/ /\ pub.rev < MaxRevs
        /\ src' \in {[src EXCEPT !.data = @ + 1], [src EXCEPT !.run = @ + 1]} /\ src'.data > 0
        /\ pub' = Staged(src') /\ notes' = notes \cup {pub'.rev}
     \/ src' = [src EXCEPT !.run = @ + 1] /\ UNCHANGED <<pub, notes>>
  /\ src'.run < MaxRevs
  /\ UNCHANGED <<reg, files, msgs, wk, cl, lock, faults, asks>>

(* _commit notifies after the commit; a transport failure is recorded      *)
(* unless the revision is published or replaced.                           *)
Notify(r) ==
  /\ notes' = notes \ {r}
  /\ \/ msgs' = msgs \cup {[rev |-> r, manual |-> FALSE, tries |-> 0]} /\ UNCHANGED <<pub, faults>>
     \/ /\ Fault("transport") /\ UNCHANGED msgs
        /\ pub' = IF pub.rev = r /\ pub.status # "published"
                  THEN [pub EXCEPT !.status = "failed"] ELSE pub
  /\ UNCHANGED <<src, reg, files, wk, cl, lock, asks>>

---------------------------------------------------------------------------
(* Publishers *)

Begin(w, m) == wk' = [wk EXCEPT ![w] = [Idle EXCEPT !.pc = "read", !.rev = m.rev,
                                          !.manual = m.manual, !.tries = m.tries]]

Holds(w, m) == wk[w].pc # "idle" /\ wk[w].rev = m.rev /\ wk[w].manual = m.manual /\ wk[w].tries = m.tries

(* A message stays until it is acknowledged (acks_late); the broker may    *)
(* deliver it to a second worker. Which of the idle ones takes it makes no *)
(* difference.                                                             *)
Take(w) ==
  /\ wk[w].pc = "idle" /\ w = CHOOSE v \in Workers : wk[v].pc = "idle"
  /\ \E m \in msgs : /\ Begin(w, m)
                     /\ IF \E v \in Workers : Holds(v, m) THEN Fault("repeat") ELSE UNCHANGED faults
  /\ UNCHANGED <<src, pub, reg, files, notes, msgs, cl, lock, asks>>

(* The first transaction of publish reads the row; then it looks at what    *)
(* the registry has: deleted, a good file, or one that cannot be read.     *)
(* (Nothing of one database depends on the other here: one step.)          *)
Read(w) ==
  /\ wk[w].pc = "read" /\ Free
  /\ LET r == wk[w].rev   of == pub.of
         mine == reg.rev = r /\ reg.of = of /\ reg.file # 0 IN
     CASE pub.rev # r \/ ~SourceCurrent -> Go(w, "done")
       [] pub.rev = r /\ SourceCurrent /\ Deleted(r, of) -> Fails(w, "deleted")
       [] pub.rev = r /\ SourceCurrent /\ ~Deleted(r, of) /\ mine /\ Usable(reg.file) ->
            wk' = [wk EXCEPT ![w].pc = "last", ![w].of = of, ![w].found = reg.file]
       [] pub.rev = r /\ SourceCurrent /\ ~Deleted(r, of) /\ mine /\ ~Usable(reg.file) ->
            IF wk[w].manual
            THEN wk' = [wk EXCEPT ![w].pc = "stage", ![w].of = of, ![w].bad = reg.file]
            ELSE Fails(w, "unavailable")
       [] OTHER -> wk' = [wk EXCEPT ![w].pc = "stage", ![w].of = of]
  /\ UNCHANGED <<src, pub, reg, files, notes, msgs, cl, lock, faults, asks>>

(* find_snapshot_candidate, which discards what it cannot read, or          *)
(* stage_snapshot; the disk may be full or fail.                           *)
Stage(w) ==
  /\ wk[w].pc = "stage"
  /\ LET same == {f \in FileIds : /\ files[f].state \in {"staged", "kept"}
                                  /\ files[f].rev = wk[w].rev /\ files[f].of = wk[w].of}
         bare == [f \in FileIds |-> IF f \in same /\ ~files[f].readable /\ f # reg.file
                                    THEN [files[f] EXCEPT !.state = "deleted"] ELSE files[f]] IN
     \/ \E f \in same :
          /\ Usable(f) /\ \A g \in same : Usable(g) => f <= g
          /\ wk' = [wk EXCEPT ![w].pc = "verify", ![w].cand = f]
          /\ UNCHANGED <<files, faults>>
     \/ /\ \A f \in same : ~Usable(f)
        /\ \E n \in FileIds :
             /\ files[n].state = "none" /\ \A f \in FileIds : f < n => files[f].state # "none"
             /\ files' = [bare EXCEPT ![n] = [state |-> "staged", rev |-> wk[w].rev,
                                              of |-> wk[w].of, readable |-> TRUE]]
             /\ wk' = [wk EXCEPT ![w].pc = "verify", ![w].cand = n]
        /\ UNCHANGED faults
     \/ Fault("storage") /\ Fails(w, "storage") /\ UNCHANGED files
  /\ UNCHANGED <<src, pub, reg, notes, msgs, cl, lock, asks>>

(* The staged bytes are read back: another worker may have discarded them. *)
Verify(w) ==
  /\ wk[w].pc = "verify"
  /\ IF Usable(wk[w].cand) THEN Go(w, "last") ELSE Fails(w, "conflict")
  /\ UNCHANGED <<src, pub, reg, files, notes, msgs, cl, lock, faults, asks>>

(* activate_snapshot: what is deleted or superseded is refused. *)
Refuses(w) ==
  \/ Deleted(wk[w].rev, wk[w].of)
  \/ reg.rev > wk[w].rev \/ (reg.rev = wk[w].rev /\ reg.of # wk[w].of)

(* The last transaction locks the evaluation and compares again; then a    *)
(* live file of this revision stays, or the candidate replaces the old.    *)
Activate(w) ==
  /\ wk[w].pc = "last" /\ Free
  /\ LET c == wk[w].cand   old == reg.file
         stale == pub.rev # wk[w].rev \/ ~SourceCurrent
         keep == /\ old # 0 /\ old # wk[w].bad /\ reg.rev = wk[w].rev
                 /\ files[old].state = "kept"
         refused == Refuses(w) \/ (~keep /\ files[c].state \notin {"staged", "kept"}) IN
     CASE stale -> Leave(w, "discard", "none") /\ UNCHANGED <<reg, files, lock>>
       [] ~stale /\ wk[w].found # 0 -> Go(w, "mark") /\ lock' = w /\ UNCHANGED <<reg, files>>
       [] ~stale /\ wk[w].found = 0 /\ refused ->
            /\ Fails(w, IF Deleted(wk[w].rev, wk[w].of) THEN "deleted" ELSE "conflict")
            /\ UNCHANGED <<reg, files, lock>>
       [] ~stale /\ wk[w].found = 0 /\ ~refused /\ keep ->
            /\ Go(w, "mark") /\ lock' = w /\ UNCHANGED reg
            /\ files' = IF c # old THEN [files EXCEPT ![c].state = "deleted"] ELSE files
       [] OTHER ->
            /\ Go(w, "mark") /\ lock' = w
            /\ reg' = [reg EXCEPT !.file = c, !.rev = wk[w].rev, !.of = wk[w].of]
            /\ files' = [f \in FileIds |->
                 CASE f = c -> [files[f] EXCEPT !.state = "kept"]
                   [] f = old /\ f # c -> [files[f] EXCEPT !.state = "deleted"]
                   [] OTHER -> files[f]]
  /\ UNCHANGED <<src, pub, notes, msgs, cl, faults, asks>>

(* _mark_published and its commit, which may be refused. *)
Mark(w) ==
  /\ wk[w].pc = "mark" /\ lock' = "nobody"
  /\ \/ pub' = [pub EXCEPT !.status = "published", !.done = pub.rev] /\ Leave(w, "discard", "none")
        /\ UNCHANGED faults
     \/ Fault("commit") /\ Fails(w, "storage") /\ UNCHANGED pub
  /\ UNCHANGED <<src, reg, files, notes, msgs, cl, asks>>

(* Slip: a failure is recorded for whatever the revision has come to. *)
FailStands(r) == pub.rev = r

(* _fail: what was published and can be read stays published. *)
FailCounts(r) == pub.rev = r /\ ~(pub.status = "published" /\ pub.done = r /\ ActiveIsGood)

Fail(w) ==
  /\ wk[w].pc = "fail" /\ Free /\ Go(w, "discard")
  /\ pub' = IF FailCounts(wk[w].rev) THEN [pub EXCEPT !.status = "failed"] ELSE pub
  /\ UNCHANGED <<src, reg, files, notes, msgs, cl, lock, faults, asks>>

(* Slip: whatever a failed delivery has staged is discarded, though another *)
(* one may have published the same candidate.                              *)
DiscardsFailed(w) == wk[w].cand # 0 /\ wk[w].code # "none"

(* discard_candidate: never the active file. *)
Discards(w) == wk[w].cand \notin {0, reg.file}

Discard(w) ==
  /\ wk[w].pc = "discard" /\ wk' = [wk EXCEPT ![w].pc = "done", ![w].cand = 0]
  /\ files' = IF Discards(w) THEN [files EXCEPT ![wk[w].cand].state = "deleted"] ELSE files
  /\ UNCHANGED <<src, pub, reg, notes, msgs, cl, lock, faults, asks>>

(* The message is acknowledged; after a storage error it is sent again. *)
Done(w) ==
  /\ wk[w].pc = "done"
  /\ LET m == [rev |-> wk[w].rev, manual |-> wk[w].manual, tries |-> wk[w].tries]
         again == pub.rev = m.rev /\ pub.status = "failed" /\ wk[w].code = "storage"
                  /\ m.tries < MaxTries IN
     msgs' = (msgs \ {m}) \cup (IF again THEN {[m EXCEPT !.tries = @ + 1]} ELSE {})
  /\ wk' = [wk EXCEPT ![w] = Idle]
  /\ UNCHANGED <<src, pub, reg, files, notes, cl, lock, faults, asks>>

---------------------------------------------------------------------------
(* The owner *)

(* delete_file looks the file up and then deletes it in a second            *)
(* transaction; the registry remembers what it pointed at.                 *)
AskDelete(c) ==
  /\ cl[c].pc = "idle" /\ asks < MaxAsks /\ asks' = asks + 1
  /\ \E f \in FileIds : /\ files[f].state = "kept"
                        /\ cl' = [cl EXCEPT ![c] = [pc |-> "delete", rev |-> 0, file |-> f]]
  /\ UNCHANGED <<src, pub, reg, files, notes, msgs, wk, lock, faults>>

Delete(c) ==
  /\ cl[c].pc = "delete" /\ cl' = [cl EXCEPT ![c] = NoCall]
  /\ files' = [files EXCEPT ![cl[c].file].state = "deleted"]
  /\ reg' = IF reg.file = cl[c].file /\ reg.deleted < reg.rev
            THEN [reg EXCEPT !.deleted = reg.rev, !.gone = reg.of.data] ELSE reg
  /\ UNCHANGED <<src, pub, notes, msgs, wk, lock, faults, asks>>

(* retry, first transaction: stage the present state, unless deleted. *)
Retry(c) ==
  /\ cl[c].pc = "idle" /\ asks < MaxAsks /\ asks' = asks + 1
  /\ Free /\ src.data > 0 /\ Staged(src).rev <= MaxRevs
  /\ pub.rev = 0 => reg.deleted = 0
  /\ pub.rev > 0 => ~Deleted(pub.rev, pub.of)
  /\ ~Deleted(Staged(src).rev, src)
  /\ pub' = Staged(src)
  /\ cl' = [cl EXCEPT ![c] = [pc |-> "retry", rev |-> pub'.rev, file |-> 0]]
  /\ UNCHANGED <<src, reg, files, notes, msgs, wk, lock, faults>>

(* Its second one: still this revision, and not already there. *)
Requeue(c) ==
  /\ cl[c].pc = "retry" /\ Free
  /\ IF pub.rev # cl[c].rev \/ ~SourceCurrent
        \/ (pub.status = "published" /\ pub.done = pub.rev /\ ActiveIsGood)
     THEN cl' = [cl EXCEPT ![c] = NoCall] /\ UNCHANGED pub
     ELSE cl' = [cl EXCEPT ![c].pc = "send"] /\ pub' = [pub EXCEPT !.status = "pending"]
  /\ UNCHANGED <<src, reg, files, notes, msgs, wk, lock, faults, asks>>

Send(c) ==
  /\ cl[c].pc = "send" /\ Free /\ cl' = [cl EXCEPT ![c] = NoCall]
  /\ \/ /\ msgs' = msgs \cup {[rev |-> cl[c].rev, manual |-> TRUE, tries |-> 0]}
        /\ UNCHANGED <<pub, faults>>
     \/ /\ Fault("transport") /\ UNCHANGED msgs
        /\ pub' = IF FailCounts(cl[c].rev) THEN [pub EXCEPT !.status = "failed"] ELSE pub
  /\ UNCHANGED <<src, reg, files, notes, wk, lock, asks>>

---------------------------------------------------------------------------
(* Faults: a worker dies, a process dies before it sends, bytes are lost. *)

WorkerDies(w) ==
  /\ wk[w].pc # "idle" /\ Fault("crash")
  /\ wk' = [wk EXCEPT ![w] = Idle] /\ lock' = IF lock = w THEN "nobody" ELSE lock
  /\ UNCHANGED <<src, pub, reg, files, notes, msgs, cl, asks>>

SenderDies ==
  /\ Fault("death")
  /\ \/ notes # {} /\ notes' = {} /\ UNCHANGED cl
     \/ \E c \in Clients : cl[c].pc # "idle" /\ cl' = [cl EXCEPT ![c] = NoCall] /\ UNCHANGED notes
  /\ UNCHANGED <<src, pub, reg, files, msgs, wk, lock, asks>>

LoseBytes(f) ==
  /\ files[f].state \in {"staged", "kept"} /\ files[f].readable /\ Fault("loss")
  /\ files' = [files EXCEPT ![f].readable = FALSE]
  /\ UNCHANGED <<src, pub, reg, notes, msgs, wk, cl, lock, asks>>

---------------------------------------------------------------------------
Init ==
  /\ src = Nowhere /\ notes = {} /\ msgs = {} /\ lock = "nobody" /\ asks = 0 /\ faults = {}
  /\ pub = [rev |-> 0, of |-> Nowhere, status |-> "none", done |-> 0]
  /\ reg = [file |-> 0, rev |-> 0, of |-> Nowhere, deleted |-> 0, gone |-> 0]
  /\ files = [f \in FileIds |-> Absent]
  /\ wk = [w \in Workers |-> Idle] /\ cl = [c \in Clients |-> NoCall]

Publish(w) == Read(w) \/ Stage(w) \/ Verify(w) \/ Activate(w)
              \/ Mark(w) \/ Fail(w) \/ Discard(w) \/ Done(w)
Handle(c)  == Delete(c) \/ Requeue(c) \/ Send(c)
Failure    == \/ SenderDies \/ (\E w \in Workers : WorkerDies(w))
              \/ (\E f \in FileIds : LoseBytes(f))
Next == \/ Advance \/ Failure \/ (\E r \in notes : Notify(r))
        \/ (\E w \in Workers : Take(w) \/ Publish(w))
        \/ (\E c \in Clients : AskDelete(c) \/ Retry(c) \/ Handle(c))
Spec == Init /\ [][Next]_artifactVars

---------------------------------------------------------------------------
(* Properties *)

TypeOK ==
  /\ pub.rev \in 0 .. MaxRevs /\ pub.done <= pub.rev
  /\ pub.status \in {"none", "pending", "published", "failed"}
  /\ reg.rev <= pub.rev /\ reg.file \in 0 .. MaxFiles /\ reg.deleted <= reg.rev
  /\ \A f \in FileIds : files[f].state \in {"none", "staged", "kept", "deleted"}
  /\ notes \subseteq 1 .. MaxRevs /\ lock \in Workers \cup {"nobody"}

(* A revision recorded as published is the one the registry serves: its    *)
(* file is there, unless the owner deleted it or its bytes were lost, and  *)
(* no later delivery of an older revision has replaced it.                 *)
PublishedIsServed ==
  pub.status = "published" =>
    /\ pub.done = pub.rev /\ reg.rev = pub.rev /\ reg.of = pub.of
    /\ files[reg.file].state = "kept" \/ Deleted(pub.rev, pub.of)

(* What the owner deleted does not come back as a newer revision with the  *)
(* same content (deleted_content_digest).                                  *)
DeletedStaysDeleted ==
  reg.file # 0 /\ files[reg.file].state = "kept" => reg.of.data # reg.gone

(* "A failure describes an earlier observation; never invalidate a         *)
(* successfully repaired/current immutable file because it arrived late."  *)
GoodStaysPublished ==
  pub.status = "published" /\ ActiveIsGood /\ pub'.rev = pub.rev => pub'.status = "published"
LateFailureIsHarmless == [][GoodStaysPublished]_artifactVars
=============================================================================
