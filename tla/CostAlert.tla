----------------------------- MODULE CostAlert -----------------------------
(***************************************************************************)
(* One alert rule of one owner, crossed while several evaluations run:     *)
(* every worker's dispatcher (api/services/cost_alert_service.py) claims   *)
(* the crossing in the database, delivers it with retries                  *)
(* (src/cost_alert.py) while no transaction is open, and settles its claim. *)
(* A claim is a lease: when it is five minutes old another worker may take *)
(* it over. Claiming also stages the in-app notification                   *)
(* (api/services/in_app_notification_service.py).                          *)
(***************************************************************************)
EXTENDS Naturals

CONSTANTS
  Workers,    \* dispatchers, one for each execution
  Lease,      \* how long a claim holds, in ticks
  Retries,    \* attempts of one delivery after the first
  MaxNow, MaxRenewals \* bounds: the clock; executions started anew

VARIABLES
  now,        \* the clock
  event,      \* the AlertEvent row of this crossing
  noted,      \* notifications with this event key
  wk,         \* dispatchers: pc, event as read, time of the claim, attempts, outcome
  attempted,  \* dispatchers that have already tried this crossing
  renewals

alertVars == <<now, event, noted, wk, attempted, renewals>>

NoEvent == [state |-> "none", at |-> 0]
Idle    == [pc |-> "idle", seen |-> NoEvent, at |-> 0, tries |-> 0, sent |-> FALSE]
Pending(t) == [state |-> "pending", at |-> t]

(* _process reads the used budget and the rules at a unit's boundary, and  *)
(* _claim its time and the event; a fresh or a delivered one ends it.      *)
Look(w) ==
  /\ wk[w].pc = "idle" /\ w \notin attempted
  /\ event.state = "none" \/ (event.state = "pending" /\ event.at + Lease <= now)
  /\ wk' = [wk EXCEPT ![w] = [Idle EXCEPT !.pc = "claim", !.seen = event, !.at = now]]
  /\ UNCHANGED <<now, event, noted, attempted, renewals>>

(* Slip: the old claim is deleted whoever has renewed it since. *)
WinsByState(w) == event.state = wk[w].seen.state

(* Compare-and-delete; with no row there, the insert itself decides. *)
Wins(w) == IF wk[w].seen.state = "none" THEN event.state = "none" ELSE event = wk[w].seen

Claim(w) ==
  /\ wk[w].pc = "claim"
  /\ IF Wins(w)
     THEN /\ event' = Pending(wk[w].at)
          /\ noted' = IF noted = 0 THEN 1 ELSE noted
          /\ attempted' = attempted \cup {w}
          /\ wk' = [wk EXCEPT ![w].pc = "send"]
     ELSE wk' = [wk EXCEPT ![w] = Idle] /\ UNCHANGED <<event, noted, attempted>>
  /\ UNCHANGED <<now, renewals>>

(* One attempt of _deliver: success, an error that is retried, or one that *)
(* is not (or an exception of the sender).                                 *)
Deliver(w) ==
  /\ wk[w].pc = "send"
  /\ \/ wk' = [wk EXCEPT ![w].pc = "finish", ![w].sent = TRUE]
     \/ wk' = [wk EXCEPT ![w].pc = "finish"]
     \/ wk[w].tries < Retries /\ wk' = [wk EXCEPT ![w].tries = @ + 1]
  /\ UNCHANGED <<now, event, noted, attempted, renewals>>

(* _finish: only the claim itself is settled. *)
Finish(w) ==
  /\ wk[w].pc = "finish" /\ wk' = [wk EXCEPT ![w] = Idle]
  /\ event' = CASE event # Pending(wk[w].at) -> event
                [] event = Pending(wk[w].at) /\ wk[w].sent -> [state |-> "sent", at |-> now]
                [] OTHER -> NoEvent
  /\ UNCHANGED <<now, noted, attempted, renewals>>

(* The worker dies, or the execution ends: another one has a dispatcher of *)
(* its own.                                                                *)
Renew(w) ==
  /\ renewals < MaxRenewals /\ renewals' = renewals + 1
  /\ wk' = [wk EXCEPT ![w] = Idle] /\ attempted' = attempted \ {w}
  /\ UNCHANGED <<now, event, noted>>

Tick == now < MaxNow /\ now' = now + 1 /\ UNCHANGED <<event, noted, wk, attempted, renewals>>

Init ==
  /\ now = 0 /\ event = NoEvent /\ noted = 0 /\ attempted = {} /\ renewals = 0
  /\ wk = [w \in Workers |-> Idle]

Next == \/ Tick
        \/ \E w \in Workers : Look(w) \/ Claim(w) \/ Deliver(w) \/ Finish(w) \/ Renew(w)
Spec == Init /\ [][Next]_alertVars

---------------------------------------------------------------------------
(* Properties *)

TypeOK ==
  /\ now \in 0 .. MaxNow /\ event.state \in {"none", "pending", "sent"} /\ event.at <= now
  /\ noted \in {0, 1} /\ attempted \subseteq Workers
  /\ \A w \in Workers : wk[w].tries <= Retries

Holds(w) == wk[w].pc \in {"send", "finish"} /\ wk[w].at + Lease > now

(* No two dispatchers deliver one alert under leases that are both still   *)
(* good, whatever their clocks, takeovers and failures, and a good lease   *)
(* stays on file: nobody settles or steals another's (compare-and-delete,  *)
(* _finish).                                                               *)
LeaseIsExclusive ==
  \A v \in Workers : Holds(v) =>
    event = Pending(wk[v].at) /\ \A w \in Workers \ {v} : ~Holds(w)
=============================================================================
