---------------------------- MODULE Notifications ----------------------------
(***************************************************************************)
(* The notices of one user: rows that transactions of tasks and alerts     *)
(* stage and commit (api/services/in_app_notification_service.py), the     *)
(* routes that list, mark and clear them (api/routes/notifications.py),    *)
(* and the store of the page that shows them (frontend/src/store/          *)
(* notifications.ts). Requests of the page overlap, and their answers come *)
(* in any order. Time advances with each notice staged: a notice is        *)
(* known by its time, and an event that has its row is not staged again.   *)
(***************************************************************************)
EXTENDS Naturals, FiniteSets

CONSTANTS
  Completions, Alerts,  \* the notices of the two kinds
  Standing,     \* of these, the notices there are when the page opens
  PageSize,
  Retention,
  Filters,      \* bound: the kinds asked for
  MaxAsked,     \* bound: requests of the page under way at once
  MaxRequests   \* bound: requests of the page

VARIABLES
  time,      \* of the server
  note,      \* in_app_notifications, by event_key
  view,      \* kind, nextCursor and serverTime of the store
  shown,     \* notes of the store
  req,       \* the requests under way
  asks,      \* how many were made
  taken      \* history: notices that a batch took, asked for before they were staged

noteVars == <<time, note, view, shown, req, asks, taken>>

Notes  == Completions \cup Alerts     \* 1, 2, ... in the order of created_at
Slots  == 1 .. MaxAsked
IsOf(e, kind) == /\ kind = "task_completed" => e \in Completions
                 /\ kind = "budget_alert" => e \in Alerts
Null   == 0
NoNote == [state |-> "none", late |-> FALSE, read |-> FALSE]
NoReq  == [op |-> "none", pc |-> "none", current |-> FALSE, kind |-> "all", cursor |-> Null,
           before |-> Null, asked |-> 0, of |-> {}, page |-> {}, next |-> Null, at |-> 0]

Oldest(S) == CHOOSE e \in S : \A f \in S : e <= f

---------------------------------------------------------------------------
(* The events *)

(* stage_notification: one row for each event; it is dated before the      *)
(* transaction writes it.                                                  *)
StageNote(e) ==
  /\ e = time + 1 /\ time' = e
  /\ note' = [note EXCEPT ![e].state = "staged"]
  /\ UNCHANGED <<view, shown, req, asks, taken>>

(* The transaction of the task commits; one that is rolled back leaves     *)
(* nothing.                                                                *)
CommitNote(e) ==
  /\ note[e].state = "staged"
  /\ note' = [note EXCEPT ![e].state = "kept", ![e].late = e < time]
  /\ UNCHANGED <<time, view, shown, req, asks, taken>>

---------------------------------------------------------------------------
(* The service *)

(* _visible *)
Visible == {e \in Notes : note[e].state = "kept" /\ e + Retention >= time}

(* The PageSize youngest of S. *)
Newest(S) == {e \in S : Cardinality({f \in S : f > e}) < PageSize}

(* list_notifications: below the cursor, newest first; a page that is not  *)
(* the last has a cursor to the next.                                      *)
Listed(r) ==
  LET found == {e \in Visible : IsOf(e, r.kind) /\ (r.cursor # Null => e < r.cursor)}
      page  == Newest(found)
  IN  [r EXCEPT !.pc = "answered", !.at = time,
                !.page = page,
                !.next = IF page # found THEN Oldest(page) ELSE Null]

(* _batch: the cutoff of the caller, unless it lies ahead. *)
Cutoff(before) == IF before = Null THEN time ELSE IF before < time THEN before ELSE time

(* mark_read, mark_all_read, clear. *)
Taken(r) ==
  CASE r.op = "mark"  -> {e \in Visible : e \in r.of /\ ~note[e].read}
    [] r.op = "all"   -> {e \in Visible : e <= Cutoff(r.before) /\ ~note[e].read}
    [] r.op = "clear" -> {e \in Visible : e <= Cutoff(r.before)}

(* The server answers the listing of the request in slot i. *)
List(i) ==
  /\ req[i].pc = "list" /\ req' = [req EXCEPT ![i] = Listed(req[i])]
  /\ UNCHANGED <<time, note, view, shown, asks, taken>>

(* The server changes the rows; the page then lists anew. *)
Post(i) ==
  /\ req[i].pc = "post" /\ req' = [req EXCEPT ![i].pc = "list", ![i].kind = view.kind]
  /\ LET done == Taken(req[i]) IN
       /\ note' = [e \in Notes |-> IF e \notin done THEN note[e]
                     ELSE IF req[i].op = "clear" THEN [note[e] EXCEPT !.state = "cleared"]
                     ELSE [note[e] EXCEPT !.read = TRUE]]
       /\ taken' = taken \cup {e \in done : req[i].before # Null /\ e > req[i].asked}
  /\ UNCHANGED <<time, view, shown, asks>>

---------------------------------------------------------------------------
(* The store: every call takes a new generation, and only the answer of    *)
(* the present one counts                                                  *)

Ask(r) ==
  /\ asks < MaxRequests /\ asks' = asks + 1
  /\ \E i \in Slots :
    /\ req[i] = NoReq /\ \A j \in 1 .. i - 1 : req[j] # NoReq
    /\ req' = [j \in Slots |-> IF j = i THEN [r EXCEPT !.current = TRUE]
                               ELSE IF req[j] = NoReq THEN NoReq
                               ELSE [req[j] EXCEPT !.current = FALSE]]

(* load: another kind starts from nothing. *)
Load(kind) ==
  /\ Ask([NoReq EXCEPT !.op = "load", !.pc = "list", !.kind = kind])
  /\ IF kind # view.kind
     THEN shown' = {} /\ view' = [view EXCEPT !.kind = kind, !.next = Null]
     ELSE UNCHANGED <<view, shown>>
  /\ UNCHANGED <<time, note, taken>>

LoadMore ==
  /\ view.next # Null
  /\ Ask([NoReq EXCEPT !.op = "more", !.pc = "list", !.kind = view.kind, !.cursor = view.next])
  /\ UNCHANGED <<time, note, view, shown, taken>>

(* markRead, markAllRead, clear: up to the time of what is shown. *)
Change(op) ==
  /\ IF op = "mark"
     THEN \E e \in shown : Ask([NoReq EXCEPT !.op = op, !.pc = "post", !.of = {e}])
     ELSE Ask([NoReq EXCEPT !.op = op, !.pc = "post", !.before = view.time, !.asked = time])
  /\ UNCHANGED <<time, note, view, shown, taken>>

(* Slip: any answer is taken. *)
AcceptsAny(r) == TRUE
Accepts(r) == r.current

(* The answer reaches the page, or never does: an error leaves what is     *)
(* shown. More of the list is put under what is shown.                     *)
Arrive(i) ==
  /\ req[i].pc = "answered" /\ req' = [req EXCEPT ![i] = NoReq]
  /\ IF Accepts(req[i])
     THEN /\ view' = [view EXCEPT !.next = req[i].next, !.time = req[i].at]
          /\ shown' = IF req[i].op = "more" THEN shown \cup req[i].page ELSE req[i].page
     ELSE UNCHANGED <<view, shown>>
  /\ UNCHANGED <<time, note, asks, taken>>

Init ==
  /\ time = Cardinality(Standing) /\ asks = 0 /\ shown = {} /\ taken = {}
  /\ note = [e \in Notes |-> IF e \in Standing THEN [NoNote EXCEPT !.state = "kept"] ELSE NoNote]
  /\ view = [kind |-> "all", next |-> Null, time |-> Null]
  /\ req = [i \in Slots |-> NoReq]

Next ==
  \/ \E e \in Notes : StageNote(e) \/ CommitNote(e)
  \/ \E i \in Slots : List(i) \/ Post(i) \/ Arrive(i)
  \/ \E kind \in Filters : Load(kind)
  \/ LoadMore
  \/ \E op \in {"mark", "all", "clear"} : Change(op)

Spec == Init /\ [][Next]_noteVars

---------------------------------------------------------------------------
(* Type correctness. *)
TypeOK ==
  /\ time \in 0 .. Cardinality(Notes) /\ taken \subseteq Notes
  /\ \A e \in Notes : note[e].state \in {"none", "staged", "kept", "cleared"}
  /\ view \in [kind : Filters \cup {"all"}, next : 0 .. Cardinality(Notes), time : 0 .. Cardinality(Notes)]
  /\ shown \subseteq Notes
  /\ \A i \in Slots : req[i].pc \in {"none", "post", "list", "answered"}

(* What is shown is of the kind asked for, and has no gap down to its end, *)
(* whichever answers overtake each other; a notice whose transaction       *)
(* outlasted the staging of a later one may be missed. And a batch leaves  *)
(* alone what happened after the user asked for it.                        *)
NotesAreTrue ==
  /\ \A e \in shown : IsOf(e, view.kind)
  /\ \A e \in Visible \ shown :
       \/ note[e].late \/ ~IsOf(e, view.kind) \/ shown = {}
       \/ \A s \in shown : e > s
       \/ e < Oldest(shown) /\ view.next # Null
  /\ taken = {}
=============================================================================
