--------------------------- MODULE CreationStore ---------------------------
(***************************************************************************)
(* The store behind the pages that create and start evaluations or         *)
(* experiments (frontend/src/evaluations/creation.ts, session.tsx,         *)
(* experiments/runCreation.ts). One operation at a time holds a lock;      *)
(* every operation is a promise that checks after each await whether it is *)
(* still the present one, of the present session. What it does between two *)
(* awaits is one step. The server executes a request before the answer     *)
(* arrives, or is lost.                                                    *)
(***************************************************************************)
EXTENDS Naturals, FiniteSets

CONSTANTS
  Stores,               \* what the store creates: "evaluation", "experiment"
  Drafts,               \* bound: 1 .. n, each begun by a reset or a login
  MaxOperations,        \* bound: operations
  MaxSessions           \* bound: logins

VARIABLES
  kind,      \* which of the two stores
  auth,      \* marker of the present session, 0: nobody
  store,     \* owner, phase, the confirmed id, whether an action is pending
  draft,     \* history: the draft being edited; what it creates has its number
  operation, \* the number of the latest operation
  active,    \* the operation that holds the lock, or 0
  task,      \* the promises of the operations
  server,    \* by draft: how many were created, and the state of the latest
  stray      \* history: requests sent under another session than the asker's

creationVars == <<kind, auth, store, draft, operation, active, task, server, stray>>
browserPart  == <<kind, auth, draft, stray>>

Operations == 1 .. MaxOperations
Absent     == [what |-> "none", owner |-> 0, pc |-> "done", of |-> 0, left |-> FALSE]
Fresh(o)   == [owner |-> o, phase |-> "editing", id |-> 0, pending |-> FALSE]

(* owns, current *)
Owns(o)    == o # 0 /\ store.owner = o /\ auth = o
Current(t) == Owns(task[t].owner) /\ operation = t
IsAct(t)   == task[t].what \in {"start", "cancel"}
Known      == {d \in Drafts : server[d].made > 0}

---------------------------------------------------------------------------
(* Asking *)

(* Reserve before publishing state: the lock is the caller's at once. *)
Reserves(o) == active' = o

(* run *)
Run(what, of) ==
  /\ Owns(store.owner) /\ active = 0 /\ operation < MaxOperations
  /\ operation' = operation + 1 /\ Reserves(operation + 1)
  /\ task' = [task EXCEPT ![operation + 1] =
                [Absent EXCEPT !.what = what, !.owner = store.owner, !.pc = "queued", !.of = of]]
  /\ UNCHANGED <<browserPart, server>>

Submit ==
  /\ store.phase = "editing" /\ Run("submit", draft)
  /\ store' = [store EXCEPT !.phase = "creating"]

RetryStart(d) ==
  /\ kind = "evaluation" /\ d \in Known /\ store.phase # "create-unknown" /\ Run("retry", d)
  /\ store' = [store EXCEPT !.phase = "created"]

(* act, of a detail page. *)
Act(d, what) ==
  /\ kind = "evaluation" /\ d \in Known /\ Run(what, d)
  /\ store' = [store EXCEPT !.pending = TRUE]

(* The page is left: the signal of its actions is aborted. *)
Leave ==
  /\ \E t \in Operations : IsAct(t) /\ task[t].pc # "done" /\ ~task[t].left
  /\ task' = [t \in Operations |-> [task[t] EXCEPT !.left = IsAct(t)]]
  /\ UNCHANGED <<browserPart, store, operation, active, server>>

(* reset: a new draft.                                                     *)
Forget(o) ==
  /\ draft + 1 \in Drafts /\ operation < MaxOperations
  /\ draft' = draft + 1 /\ operation' = operation + 1 /\ active' = 0 /\ store' = Fresh(o)
  /\ UNCHANGED <<kind, auth, task, server, stray>>

(* By an owner who has checked what a lost answer left behind, or empties  *)
(* the form of an experiment.                                              *)
Reset == \/ store.phase = "create-unknown" /\ Forget(IF kind = "evaluation" THEN store.owner ELSE auth)
         \/ kind = "experiment" /\ store.phase = "editing" /\ Forget(auth)

(* Logging in or out changes the marker at once; the provider mounts a     *)
(* store of the new session later.                                         *)
Switch ==
  /\ auth < MaxSessions /\ auth' = auth + 1
  /\ UNCHANGED <<kind, store, draft, operation, active, task, server, stray>>
Remount == store.owner # auth /\ Forget(auth)

---------------------------------------------------------------------------
(* What a promise does until its next await *)

Sends(t, pc) ==
  /\ task' = [task EXCEPT ![t].pc = pc] /\ UNCHANGED active
  /\ stray' = stray \cup {o \in {t} : auth # task[t].owner}

(* finally *)
Ends(t) ==
  /\ task' = [task EXCEPT ![t].pc = "done"] /\ UNCHANGED stray
  /\ active' = IF operation = t THEN 0 ELSE active

(* The end of act *)
NoLonger(t) == IF Current(t) THEN [store EXCEPT !.pending = FALSE] ELSE store

Begin(t) ==
  /\ task[t].pc = "queued"
  /\ IF ~Current(t)
     THEN task' = [task EXCEPT ![t].pc = "done"] /\ UNCHANGED <<active, store, stray>>
     ELSE IF task[t].left THEN Ends(t) /\ store' = NoLonger(t)
     ELSE /\ Sends(t, IF task[t].what = "submit" THEN "create" ELSE "read")
          /\ store' = IF task[t].what = "retry" THEN [store EXCEPT !.id = task[t].of] ELSE store
  /\ UNCHANGED <<kind, auth, draft, operation, server>>

(* Only a refusal, a status of 4xx but not 408, allows another try. *)
AfterFailure(answer) == IF answer = "refused" THEN "editing" ELSE "create-unknown"

(* start: "the next POST checks the owner again". *)
MayStart(t) == Current(t)

Created(t) ==
  /\ task[t].pc = "create"
  /\ \E answer \in {"ok", "refused", "lost"}, made \in BOOLEAN :
       /\ answer = "ok" => made
       /\ answer = "refused" => ~made
       /\ server' = IF ~made THEN server
                    ELSE [server EXCEPT ![task[t].of] = [made |-> @.made + 1, st |-> "created"]]
       /\ store' = IF ~Current(t) THEN store
                   ELSE IF answer # "ok" THEN [store EXCEPT !.phase = AfterFailure(answer)]
                   ELSE [store EXCEPT !.id = task[t].of,
                           !.phase = IF kind = "evaluation" THEN "starting" ELSE "created"]
       /\ IF answer = "ok" /\ kind = "evaluation" /\ MayStart(t) THEN Sends(t, "start") ELSE Ends(t)
  /\ UNCHANGED <<kind, auth, draft, operation>>

(* can_start and can_cancel, as the server says when it is asked. *)
Can(d, what) == server[d].st = IF what = "cancel" THEN "started" ELSE "created"

Executes(d, what) ==
  server' = IF ~Can(d, what) THEN server
            ELSE [server EXCEPT ![d].st = IF what = "start" THEN "started" ELSE "cancelled"]

Started(t) ==
  /\ task[t].pc = "start" /\ Ends(t)
  /\ \E ok \in BOOLEAN :
       /\ \/ Executes(task[t].of, "start")
          \/ ~ok /\ UNCHANGED server
       /\ store' = IF Current(t)
                   THEN [store EXCEPT !.phase = IF ok THEN "queued" ELSE "start-error"]
                   ELSE store
  /\ UNCHANGED <<kind, auth, draft, operation>>

(* The read of retryStart *)
Retried(t) ==
  /\ task[t].what = "retry" /\ task[t].pc = "read"
  /\ \E ok \in BOOLEAN :
       LET starts == ok /\ Can(task[t].of, "start") /\ Current(t)
       IN /\ IF starts THEN Sends(t, "start") ELSE Ends(t)
          /\ store' = IF ~Current(t) THEN store
                      ELSE [store EXCEPT !.phase = IF starts THEN "starting"
                                                   ELSE IF ok THEN "queued" ELSE "start-error"]
  /\ UNCHANGED <<kind, auth, draft, operation, server>>

(* The read of act, and its request. *)
Checked(t) ==
  /\ IsAct(t) /\ task[t].pc = "read"
  /\ \E ok \in BOOLEAN :
       IF ok /\ Current(t) /\ ~task[t].left /\ Can(task[t].of, task[t].what)
       THEN Sends(t, "act") /\ UNCHANGED store
       ELSE Ends(t) /\ store' = NoLonger(t)
  /\ UNCHANGED <<kind, auth, draft, operation, server>>

Acted(t) ==
  /\ task[t].pc = "act" /\ Ends(t) /\ store' = NoLonger(t)
  /\ \/ Executes(task[t].of, task[t].what)
     \/ UNCHANGED server
  /\ UNCHANGED <<kind, auth, draft, operation>>

---------------------------------------------------------------------------
Init ==
  /\ kind \in Stores /\ auth = 1 /\ store = Fresh(1) /\ draft = 1 /\ operation = 0 /\ active = 0
  /\ task = [t \in Operations |-> Absent] /\ stray = {}
  /\ server = [d \in Drafts |-> [made |-> 0, st |-> "none"]]

Next == \/ Submit \/ Leave \/ Reset \/ Switch \/ Remount
        \/ (\E d \in Drafts : RetryStart(d) \/ \E what \in {"start", "cancel"} : Act(d, what))
        \/ (\E t \in Operations : \/ Begin(t) \/ Created(t) \/ Started(t)
                                  \/ Retried(t) \/ Checked(t) \/ Acted(t))
Spec == Init /\ [][Next]_creationVars

---------------------------------------------------------------------------
(* Properties *)

TypeOK ==
  /\ store.phase \in {"editing", "creating", "created", "starting", "queued", "start-error",
                      "create-unknown"}
  /\ store.id \in Drafts \cup {0} /\ active \in Operations \cup {0} /\ stray \subseteq Operations

(* One draft never becomes two evaluations, whatever answers are lost and  *)
(* however often the owner submits ("a confirmed ID is never turned back   *)
(* into another create operation"); and no request of an operation is sent *)
(* under the session of another login.                                     *)
CreatedOnce == (\A d \in Drafts : server[d].made <= 1) /\ stray = {}

(* What the present draft created is on the page, or announced as unknown, *)
(* or still awaited: it is not forgotten.                                  *)
NotForgotten ==
  Owns(store.owner) /\ server[draft].made > 0 =>
    store.id # 0 \/ store.phase = "create-unknown"

(* The lock and the marks that disable the page belong to an operation     *)
(* that is still under way.                                                *)
NeverStuck ==
  Owns(store.owner) =>
    /\ active # 0 => active = operation /\ task[active].pc # "done"
    /\ store.pending \/ store.phase \in {"creating", "starting"} => active # 0
    /\ store.phase = "created" /\ kind = "evaluation" => active # 0

(* Of a step: the late answer of an overtaken operation does not change    *)
(* what the store says of the present draft.                               *)
LateIsIgnored ==
  \A t \in Operations :
    t # operation /\ task[t].pc # "done" /\ task'[t].pc # task[t].pc => UNCHANGED store
=============================================================================
