------------------------------ MODULE Observer ------------------------------
(***************************************************************************)
(* The browser's view of one evaluation (frontend/src/evaluations/         *)
(* observer.ts): snapshots over HTTP are the truth, events over a socket   *)
(* only say that the truth changed, and polling takes over when the socket *)
(* fails. The whole closure is the record o, and what one callback does in *)
(* a row is the composition of operators on o. Settling of fetches, frames,*)
(* timers and the page's calls come in any order.                          *)
(***************************************************************************)
EXTENDS Naturals

CONSTANTS
  Evaluations,    \* identifiers the page may open
  MaxReconnects,  \* OBSERVER_TIMING.maxReconnects
  MaxRecoveries,  \* bound: sessions being recovered at once
  MaxMutations    \* bound: mutations under way at once

VARIABLE o

None == "none"

(* The flight inFlight refers to: the evaluation asked about, whether its  *)
(* epoch is the present one, whether it was aborted, and (history) whether *)
(* anything made what it will say obsolete.                                *)
NoFlight == [of |-> None, current |-> FALSE, aborted |-> FALSE, obsolete |-> FALSE]
Flying(s) == s.flight # NoFlight

Opened == [id |-> None, mode |-> "idle", visible |-> TRUE, online |-> TRUE, paused |-> FALSE,
           disposed |-> FALSE, flight |-> NoFlight, pending |-> FALSE, timers |-> {},
           limited |-> FALSE, conn |-> None, attempts |-> 0, recovering |-> 0,
           mutating |-> 0, shown |-> NoFlight]

---------------------------------------------------------------------------
(* What the callbacks are made of *)

Mode(s, m)   == IF s.disposed THEN s ELSE [s EXCEPT !.mode = m]
Arm(s, t)    == [s EXCEPT !.timers = @ \cup {t}]
Disarm(s, t) == [s EXCEPT !.timers = @ \ {t}]

(* controller.abort() *)
Abort(s) == IF Flying(s) THEN [s EXCEPT !.flight.aborted = TRUE, !.flight.obsolete = TRUE] ELSE s

(* epoch += 1, when what is known becomes obsolete. *)
NextEpoch(s) == IF Flying(s) THEN [s EXCEPT !.flight.current = FALSE, !.flight.obsolete = TRUE] ELSE s

StopObserving(s) == [Abort(s) EXCEPT !.pending = FALSE, !.timers = {}, !.conn = None]

(* requestSnapshot: one flight of an epoch at a time. *)
Request(s) ==
  IF s.disposed \/ s.paused \/ s.id = None THEN s
  ELSE IF s.flight.current THEN [s EXCEPT !.pending = TRUE]
  ELSE IF s.limited THEN Arm([s EXCEPT !.flight = NoFlight], "rate")
  ELSE [s EXCEPT !.flight = [NoFlight EXCEPT !.of = s.id, !.current = TRUE]]

(* invalidate: many events, one request. *)
Invalidate(s) == IF s.disposed \/ s.paused \/ s.id = None THEN s ELSE Arm(s, "merge")

Connect(s) ==
  IF s.disposed \/ s.paused \/ s.id = None \/ s.conn # None THEN s
  ELSE [Mode(s, IF s.mode \in {"idle", "stopped", "live"} THEN "connecting" ELSE s.mode)
          EXCEPT !.conn = "opening"]

(* 403, 404, 4403, a settled status, a session that is gone. *)
Finish(s) == Mode(StopObserving(s), "stopped")

(* handleUnauthorized, as far as the await. *)
Unauthorized(s) == [StopObserving(s) EXCEPT !.recovering = @ + 1]

Attempted(s) == [s EXCEPT !.conn = None, !.attempts = IF @ < MaxReconnects THEN @ + 1 ELSE @]

(* handleSocketFailure: polling, and a few attempts to reconnect. *)
SocketFails(s) ==
  LET d == Arm(Disarm(Mode(Attempted(s), "degraded"), "stale"), "poll")
  IN IF d.attempts >= MaxReconnects THEN d ELSE Arm(d, "reconnect")

---------------------------------------------------------------------------
(* Fetches *)

(* Slip: a result is dropped only once nobody looks. *)
DroppedLater(s) == s.disposed \/ s.paused

(* What the page no longer wants to hear of. *)
Dropped(s) == s.disposed \/ s.paused \/ ~s.flight.current \/ s.flight.aborted

(* deliverSnapshot, and the request that waited for it. *)
Deliver(s, settled) ==
  LET d == [s EXCEPT !.flight = NoFlight, !.shown = s.flight]
      k == IF settled THEN Finish(d)
           ELSE IF d.mode = "live" THEN Arm(d, "stale")
           ELSE IF d.mode = "degraded" THEN Arm(d, "poll")
           ELSE d
  IN IF k.pending /\ k.mode # "stopped" THEN Request([k EXCEPT !.pending = FALSE]) ELSE k

(* handleFetchError *)
FetchFails(s, why) ==
  LET d == [s EXCEPT !.flight = NoFlight]
  IN CASE why = "forbidden"    -> Finish(d)
       [] why = "unauthorized" -> Unauthorized(d)
       [] why = "limited"      -> Arm([d EXCEPT !.limited = TRUE], "rate")
       [] why = "other"        -> IF d.mode = "degraded" THEN Arm(d, "poll")
                                  ELSE IF d.mode = "live" THEN Arm(d, "stale")
                                  ELSE d

Settle ==
  /\ Flying(o)
  /\ \/ Dropped(o) /\ o' = [o EXCEPT !.flight = NoFlight]
     \/ ~Dropped(o) /\ \E settled \in BOOLEAN : o' = Deliver(o, settled)
     \/ /\ ~Dropped(o)
        /\ \E why \in {"forbidden", "unauthorized", "limited", "other"} :
             /\ why = "unauthorized" => o.recovering < MaxRecoveries
             /\ o' = FetchFails(o, why)

(* recoverSession answers. *)
Recovered ==
  /\ o.recovering > 0
  /\ LET d == [o EXCEPT !.recovering = @ - 1]
     IN o' \in IF d.disposed \/ d.paused THEN {d}
               ELSE {Connect(Request(Mode(d, "connecting"))), Mode(d, "stopped")}

---------------------------------------------------------------------------
(* Timers *)

(* An aborted fetch settles within the seconds that a periodic timer takes. *)
Fire(t) ==
  /\ t \in o.timers /\ (t \in {"stale", "poll"} => ~(o.flight.current /\ o.flight.aborted))
  /\ LET d == Disarm(o, t)
     IN \/ t \in {"stale", "poll", "merge"} /\ o' = Request(d)
        \/ t = "rate" /\ ~o.limited /\ o' = Request(d)
        \/ t = "reconnect" /\ o' = Connect(d)

LimitOver == o.limited /\ o' = [o EXCEPT !.limited = FALSE]

---------------------------------------------------------------------------
(* The socket *)

Open == o.conn = "opening" /\ o' = [o EXCEPT !.conn = "open"]

(* The frame "subscribed" *)
Subscribed ==
  /\ o.conn \in {"open", "subscribed"}
  /\ LET d == Disarm([o EXCEPT !.conn = "subscribed", !.attempts = 0], "poll")
     IN o' = Arm(Mode(d, "live"), "stale")

(* Any other frame only says that the truth changed. *)
Event == o.conn \in {"open", "subscribed"} /\ o' = Invalidate(o)

(* onClose, onError, and the timer that waits for "subscribed". *)
Close ==
  /\ o.conn # None
  /\ LET d == [o EXCEPT !.conn = None]
     IN \/ o' = SocketFails(o)
        \/ o' = Finish(d)
        \/ o.recovering < MaxRecoveries /\ o' = Unauthorized(d)

---------------------------------------------------------------------------
(* The page *)

Start(id) ==
  /\ ~o.disposed /\ (id # o.id \/ o.mode \in {"idle", "stopped"})
  /\ LET d == NextEpoch(StopObserving([o EXCEPT !.id = id, !.shown = NoFlight]))
     IN o' = IF d.visible /\ d.online /\ ~d.paused
             THEN Connect(Request(Mode(d, "connecting"))) ELSE Mode(d, "idle")

(* The page asks for a snapshot, or says that it changed something. *)
Refresh == o' = Request(o)
Changed == o' = Invalidate(o)

Resume(s) == IF s.disposed \/ s.id = None \/ s.mode = "stopped" THEN s
             ELSE Connect(Request([s EXCEPT !.attempts = 0]))

SetVisible ==
  LET d == [o EXCEPT !.visible = ~@, !.paused = o.visible]
  IN o' = IF o.visible THEN StopObserving(d) ELSE Resume(d)

SetOnline ==
  LET d == [o EXCEPT !.online = ~@, !.paused = o.online]
  IN o' = IF o.online THEN StopObserving(d) ELSE Resume(d)

(* runMutation, before and after the await. *)
Mutate == /\ o.mutating < MaxMutations
          /\ o' = [Abort(NextEpoch(o)) EXCEPT !.mutating = @ + 1]
Mutated == o.mutating > 0 /\ o' = [Invalidate(o) EXCEPT !.mutating = @ - 1]

Dispose == ~o.disposed /\ o' = [StopObserving(o) EXCEPT !.disposed = TRUE, !.mode = "stopped"]

Init == o = Opened
Next == \/ Settle \/ Recovered \/ LimitOver \/ Open \/ Subscribed \/ Event \/ Close
        \/ (\E t \in {"stale", "poll", "merge", "rate", "reconnect"} : Fire(t))
        \/ (\E id \in Evaluations : Start(id))
        \/ Refresh \/ Changed \/ SetVisible \/ SetOnline \/ Mutate \/ Mutated \/ Dispose
Spec == Init /\ [][Next]_o

---------------------------------------------------------------------------
(* Properties *)

TypeOK ==
  /\ o.id \in Evaluations \cup {None} /\ o.conn \in {None, "opening", "open", "subscribed"}
  /\ o.mode \in {"idle", "connecting", "live", "degraded", "stopped"}
  /\ o.attempts \in 0 .. MaxReconnects /\ o.recovering \in 0 .. MaxRecoveries

(* What the page shows is of the evaluation it is at, and was asked for    *)
(* after the last mutation, pause and change of session ("the epoch of a   *)
(* mutation voids older results").                                         *)
ShownIsCurrent == o.shown.of \in {None, o.id} /\ ~o.shown.obsolete

Watching == ~o.disposed /\ ~o.paused /\ o.id # None /\ o.mode \in {"connecting", "live", "degraded"}

(* Something that will bring the next snapshot. A recovery that a pause    *)
(* and a resume overtook may leave a subscribed socket in mode connecting, *)
(* where nothing is armed: only an event helps then.                       *)
Awaited == \/ Flying(o) \/ o.timers # {} \/ o.recovering > 0 \/ o.mutating > 0
           \/ o.conn \in {"opening", "open"}
           \/ o.conn = "subscribed" /\ o.mode = "connecting"

(* A page that watches never falls silent: lost events, failed requests,   *)
(* limits, closed sockets and interrupted pauses all leave a request or a  *)
(* timer behind, and at most one of the two periodic ones.                 *)
NeverSilent == (Watching => Awaited) /\ ~({"stale", "poll"} \subseteq o.timers)
=============================================================================
