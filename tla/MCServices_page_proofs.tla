------------------------ MODULE MCServices_page_proofs ------------------------
(***************************************************************************)
(* Proofs about what the browser holds (Observer, CreationStore,           *)
(* EvaluationPage, BrowserSession), for any sets of evaluations and drafts *)
(* and any bounds: the store that creates evaluations, the page of one,    *)
(* and the observer of one keep their promises whatever the order of       *)
(* answers, timers, frames, mutations and changes of session               *)
(* (PagesAreAlive); the session stays the asker's. Each part has an        *)
(* inductive invariant of its own.                                         *)
(***************************************************************************)
EXTENDS MCServices, FiniteSetTheorems, SequenceTheorems, TLAPS

---------------------------------------------------------------------------
(* The observer of the browser *)

Timers  == {"stale", "poll", "merge", "rate", "reconnect"}
Modes   == {"idle", "connecting", "live", "degraded", "stopped"}
Flights == [of : Evaluations \cup {Page!None}, current : BOOLEAN, aborted : BOOLEAN,
            obsolete : BOOLEAN]
Views ==
  [id : Evaluations \cup {Page!None}, mode : Modes, visible : BOOLEAN, online : BOOLEAN,
   paused : BOOLEAN, disposed : BOOLEAN, flight : Flights, pending : BOOLEAN,
   timers : SUBSET Timers, limited : BOOLEAN,
   conn : {Page!None, "opening", "open", "subscribed"}, attempts : Nat, recovering : Nat,
   mutating : Nat, shown : Flights]

(* The page is to be kept informed.                                        *)
Looks(s) == /\ ~s.disposed /\ ~s.paused /\ s.id # Page!None
            /\ s.mode \in {"connecting", "live", "degraded"}

(* What brings a snapshot whatever becomes of the answer in flight.        *)
Stands(s) == \/ s.recovering > 0 \/ "stale" \in s.timers \/ "poll" \in s.timers
             \/ s.conn \in {"opening", "open"}
             \/ s.conn = "subscribed" /\ s.mode = "connecting"

(* What is in flight is of the evaluation looked at, unless it was voided. *)
FlightIsOwn(s) ==
  /\ s.flight.current => s.flight.of = s.id
  /\ s.flight.obsolete => ~s.flight.current \/ s.flight.aborted
  /\ s.shown.of \in {Page!None, s.id} /\ ~s.shown.obsolete

(* Of the two periodic timers the one that goes with the mode, and nothing *)
(* of a page that is paused or gone.                                       *)
TimersFit(s) ==
  /\ ~("stale" \in s.timers /\ "poll" \in s.timers)
  /\ "stale" \in s.timers => s.mode # "degraded"
  /\ "poll" \in s.timers => s.mode # "live"
  /\ s.disposed \/ s.paused => s.timers = {} /\ s.conn = Page!None

(* Who looks is not left to an answer that was aborted, nor to a socket    *)
(* that is not there.                                                      *)
IsHeld(s) ==
  Looks(s) =>
    /\ s.flight.current /\ s.flight.aborted => Stands(s)
    /\ s.mode = "connecting" => s.conn # Page!None \/ s.recovering > 0

(* Who looks has an answer to hear, a mutation that will end, or a timer.  *)
IsAwake(s) ==
  Looks(s) => \/ s.flight.current /\ ~s.flight.aborted
              \/ Stands(s) \/ s.mutating > 0 \/ "merge" \in s.timers \/ "rate" \in s.timers

ViewFits(s) == s \in Views /\ FlightIsOwn(s) /\ TimersFit(s)
PageFits == ViewFits(v1) /\ IsHeld(v1) /\ IsAwake(v1)
PageFine == part = "page" => PageFits

(* What one operator makes of the view: what is not named stays, but for   *)
(* what no property is about.                                              *)
Turns(s, r, mode, flight, timers, conn, recovering) ==
  /\ r \in Views /\ r.id = s.id /\ r.paused = s.paused /\ r.disposed = s.disposed
  /\ r.mutating = s.mutating /\ r.shown = s.shown
  /\ r.mode = mode /\ r.flight = flight /\ r.timers = timers /\ r.conn = conn
  /\ r.recovering = recovering

LEMMA StaysIs ==
  ASSUME NEW s \in Views
  PROVE  Turns(s, s, s.mode, s.flight, s.timers, s.conn, s.recovering)
  BY DEF Turns

LEMMA ModeIs ==
  ASSUME NEW s \in Views, NEW m \in Modes
  PROVE  Turns(s, Page!Mode(s, m), IF s.disposed THEN s.mode ELSE m, s.flight, s.timers, s.conn,
               s.recovering)
<1>1. PICK r : r = [s EXCEPT !.mode = m]
  OBVIOUS
<1>2. Turns(s, r, m, s.flight, s.timers, s.conn, s.recovering)
  BY <1>1 DEF Turns, Views
<1> QED
  BY <1>1, <1>2, StaysIs DEF Page!Mode

LEMMA ArmIs ==
  ASSUME NEW s \in Views, NEW t \in Timers
  PROVE  /\ Turns(s, Page!Arm(s, t), s.mode, s.flight, s.timers \cup {t}, s.conn, s.recovering)
         /\ Turns(s, Page!Disarm(s, t), s.mode, s.flight, s.timers \ {t}, s.conn, s.recovering)
<1>1. s.timers \cup {t} \in SUBSET Timers /\ s.timers \ {t} \in SUBSET Timers
  BY DEF Views
<1>2. PICK r : r = [s EXCEPT !.timers = @ \cup {t}]
  OBVIOUS
<1>3. Turns(s, r, s.mode, s.flight, s.timers \cup {t}, s.conn, s.recovering)
  BY <1>1, <1>2 DEF Turns, Views
<1>4. PICK q : q = [s EXCEPT !.timers = @ \ {t}]
  OBVIOUS
<1>5. Turns(s, q, s.mode, s.flight, s.timers \ {t}, s.conn, s.recovering)
  BY <1>1, <1>4 DEF Turns, Views
<1> QED
  BY <1>2, <1>3, <1>4, <1>5 DEF Page!Arm, Page!Disarm

LEMMA NoFlightIs ==
  /\ Page!NoFlight \in Flights /\ Page!NoFlight.current = FALSE /\ Page!NoFlight.aborted = FALSE
  /\ Page!NoFlight.obsolete = FALSE /\ Page!NoFlight.of = Page!None
  BY DEF Page!NoFlight, Flights

(* What is left of a flight that was given up is an aborted one.           *)
GivenUp(f, g) == g.current => g.aborted /\ f.current /\ g.of = f.of

LEMMA AbortIs ==
  ASSUME NEW s \in Views
  PROVE  \E f \in Flights :
           /\ GivenUp(s.flight, f)
           /\ Turns(s, Page!Abort(s), s.mode, f, s.timers, s.conn, s.recovering)
<1>1. CASE ~Page!Flying(s)
  <2>1. s.flight = Page!NoFlight
    BY <1>1 DEF Page!Flying
  <2>2. Page!Abort(s) = s
    BY <1>1 DEF Page!Abort
  <2> QED
    BY <2>1, <2>2, NoFlightIs, StaysIs DEF GivenUp
<1>2. CASE Page!Flying(s)
  <2>1. PICK f : f = [s.flight EXCEPT !.aborted = TRUE, !.obsolete = TRUE]
    OBVIOUS
  <2>2. f \in Flights /\ f.aborted /\ f.obsolete /\ f.of = s.flight.of /\ f.current = s.flight.current
    BY <2>1 DEF Views, Flights
  <2>3. Page!Abort(s) = [s EXCEPT !.flight = f]
    BY <1>2, <2>1 DEF Page!Abort, Views
  <2>4. PICK r : r = [s EXCEPT !.flight = f]
    OBVIOUS
  <2>5. Turns(s, r, s.mode, f, s.timers, s.conn, s.recovering)
    BY <2>2, <2>4 DEF Turns, Views
  <2> QED
    BY <2>2, <2>3, <2>4, <2>5 DEF GivenUp
<1> QED
  BY <1>1, <1>2

LEMMA NextEpochIs ==
  ASSUME NEW s \in Views
  PROVE  \E f \in Flights :
           /\ ~f.current
           /\ Turns(s, Page!NextEpoch(s), s.mode, f, s.timers, s.conn, s.recovering)
<1>1. CASE ~Page!Flying(s)
  <2>1. s.flight = Page!NoFlight
    BY <1>1 DEF Page!Flying
  <2>2. Page!NextEpoch(s) = s
    BY <1>1 DEF Page!NextEpoch
  <2> QED
    BY <2>1, <2>2, NoFlightIs, StaysIs
<1>2. CASE Page!Flying(s)
  <2>1. PICK f : f = [s.flight EXCEPT !.current = FALSE, !.obsolete = TRUE]
    OBVIOUS
  <2>2. f \in Flights /\ ~f.current
    BY <2>1 DEF Views, Flights
  <2>3. Page!NextEpoch(s) = [s EXCEPT !.flight = f]
    BY <1>2, <2>1 DEF Page!NextEpoch, Views
  <2>4. PICK r : r = [s EXCEPT !.flight = f]
    OBVIOUS
  <2>5. Turns(s, r, s.mode, f, s.timers, s.conn, s.recovering)
    BY <2>2, <2>4 DEF Turns, Views
  <2> QED
    BY <2>2, <2>3, <2>4, <2>5
<1> QED
  BY <1>1, <1>2

LEMMA StopIs ==
  ASSUME NEW s \in Views
  PROVE  \E f \in Flights :
           /\ GivenUp(s.flight, f)
           /\ Turns(s, Page!StopObserving(s), s.mode, f, {}, Page!None, s.recovering)
<1>1. PICK a : a = Page!Abort(s)
  OBVIOUS
<1>2. PICK f \in Flights : GivenUp(s.flight, f)
                           /\ Turns(s, a, s.mode, f, s.timers, s.conn, s.recovering)
  BY <1>1, AbortIs
<1>3. PICK r : r = [a EXCEPT !.pending = FALSE, !.timers = {}, !.conn = Page!None]
  OBVIOUS
<1>4. Turns(s, r, s.mode, f, {}, Page!None, s.recovering)
  BY <1>2, <1>3 DEF Turns, Views
<1> QED
  BY <1>1, <1>2, <1>3, <1>4 DEF Page!StopObserving

LEMMA FinishIs ==
  ASSUME NEW s \in Views
  PROVE  \E f \in Flights :
           /\ GivenUp(s.flight, f)
           /\ Turns(s, Page!Finish(s), IF s.disposed THEN s.mode ELSE "stopped", f, {}, Page!None,
                    s.recovering)
<1>1. PICK a : a = Page!StopObserving(s)
  OBVIOUS
<1>2. PICK f \in Flights : GivenUp(s.flight, f)
                           /\ Turns(s, a, s.mode, f, {}, Page!None, s.recovering)
  BY <1>1, StopIs
<1>3. Turns(a, Page!Mode(a, "stopped"), IF a.disposed THEN a.mode ELSE "stopped", a.flight, a.timers,
            a.conn, a.recovering)
  BY <1>2, ModeIs DEF Turns, Modes
<1> QED
  BY <1>1, <1>2, <1>3 DEF Turns, Page!Finish

LEMMA UnauthorizedIs ==
  ASSUME NEW s \in Views
  PROVE  \E f \in Flights :
           /\ GivenUp(s.flight, f)
           /\ Turns(s, Page!Unauthorized(s), s.mode, f, {}, Page!None, s.recovering + 1)
<1>1. PICK a : a = Page!StopObserving(s)
  OBVIOUS
<1>2. PICK f \in Flights : GivenUp(s.flight, f)
                           /\ Turns(s, a, s.mode, f, {}, Page!None, s.recovering)
  BY <1>1, StopIs
<1>3. PICK r : r = [a EXCEPT !.recovering = @ + 1]
  OBVIOUS
<1>4. Turns(s, r, s.mode, f, {}, Page!None, s.recovering + 1)
  BY <1>2, <1>3 DEF Turns, Views
<1> QED
  BY <1>1, <1>2, <1>3, <1>4 DEF Page!Unauthorized

(* requestSnapshot either has an answer under way, or waits for the limit, *)
(* or asks.                                                                *)
AsksFor(s, f) == f.of = s.id /\ f.current /\ ~f.aborted /\ ~f.obsolete

LEMMA RequestIs ==
  ASSUME NEW s \in Views
  PROVE  LET r == Page!Request(s)
         IN \/ Turns(s, r, s.mode, s.flight, s.timers, s.conn, s.recovering)
               /\ (s.disposed \/ s.paused \/ s.id = Page!None \/ s.flight.current)
            \/ /\ ~s.disposed /\ ~s.paused /\ s.id # Page!None /\ ~s.flight.current
               /\ \/ Turns(s, r, s.mode, Page!NoFlight, s.timers \cup {"rate"}, s.conn, s.recovering)
                  \/ \E f \in Flights :
                       AsksFor(s, f) /\ Turns(s, r, s.mode, f, s.timers, s.conn, s.recovering)
<1>1. CASE s.disposed \/ s.paused \/ s.id = Page!None
  BY <1>1, StaysIs DEF Page!Request
<1>2. CASE ~(s.disposed \/ s.paused \/ s.id = Page!None) /\ s.flight.current
  <2>1. PICK r : r = [s EXCEPT !.pending = TRUE]
    OBVIOUS
  <2>2. Turns(s, r, s.mode, s.flight, s.timers, s.conn, s.recovering)
    BY <2>1 DEF Turns, Views
  <2> QED
    BY <1>2, <2>1, <2>2 DEF Page!Request
<1>3. CASE ~(s.disposed \/ s.paused \/ s.id = Page!None) /\ ~s.flight.current /\ s.limited
  <2>1. PICK a : a = [s EXCEPT !.flight = Page!NoFlight]
    OBVIOUS
  <2>2. Turns(s, a, s.mode, Page!NoFlight, s.timers, s.conn, s.recovering)
    BY <2>1, NoFlightIs DEF Turns, Views
  <2>3. Turns(a, Page!Arm(a, "rate"), a.mode, a.flight, a.timers \cup {"rate"}, a.conn, a.recovering)
    BY <2>2, ArmIs DEF Turns, Timers
  <2>4. Turns(s, Page!Arm(a, "rate"), s.mode, Page!NoFlight, s.timers \cup {"rate"}, s.conn, s.recovering)
    BY <2>2, <2>3 DEF Turns
  <2> QED
    BY <1>3, <2>1, <2>4 DEF Page!Request
<1>4. CASE ~(s.disposed \/ s.paused \/ s.id = Page!None) /\ ~s.flight.current /\ ~s.limited
  <2>1. s.id \in Evaluations \cup {Page!None}
    BY DEF Views
  <2>2. PICK f : f = [Page!NoFlight EXCEPT !.of = s.id, !.current = TRUE]
    OBVIOUS
  <2>3. f \in Flights /\ AsksFor(s, f)
    BY <2>1, <2>2 DEF Page!NoFlight, AsksFor, Flights
  <2>4. PICK r : r = [s EXCEPT !.flight = f]
    OBVIOUS
  <2>5. Turns(s, r, s.mode, f, s.timers, s.conn, s.recovering)
    BY <2>3, <2>4 DEF Turns, Views
  <2> QED
    BY <1>4, <2>2, <2>3, <2>4, <2>5 DEF Page!Request
<1> QED
  BY <1>1, <1>2, <1>3, <1>4

LEMMA ConnectIs ==
  ASSUME NEW s \in Views
  PROVE  LET r == Page!Connect(s)
         IN \/ r = s /\ (s.disposed \/ s.paused \/ s.id = Page!None \/ s.conn # Page!None)
            \/ /\ ~s.disposed /\ ~s.paused /\ s.conn = Page!None
               /\ Turns(s, r, IF s.mode \in {"idle", "stopped", "live"} THEN "connecting" ELSE s.mode,
                        s.flight, s.timers, "opening", s.recovering)
<1>1. CASE ~(s.disposed \/ s.paused \/ s.id = Page!None \/ s.conn # Page!None)
  <2>1. PICK m : m = IF s.mode \in {"idle", "stopped", "live"} THEN "connecting" ELSE s.mode
    OBVIOUS
  <2>2. m \in Modes
    BY <2>1 DEF Views, Modes
  <2>3. PICK a : a = Page!Mode(s, m)
    OBVIOUS
  <2>4. Turns(s, a, m, s.flight, s.timers, s.conn, s.recovering)
    BY <1>1, <2>2, <2>3, ModeIs
  <2>5. PICK r : r = [a EXCEPT !.conn = "opening"]
    OBVIOUS
  <2>6. Turns(s, r, m, s.flight, s.timers, "opening", s.recovering)
    BY <2>4, <2>5 DEF Turns, Views
  <2> QED
    BY <1>1, <2>1, <2>3, <2>5, <2>6 DEF Page!Connect
<1> QED
  BY <1>1 DEF Page!Connect

LEMMA InvalidateIs ==
  ASSUME NEW s \in Views
  PROVE  \/ Page!Invalidate(s) = s /\ (s.disposed \/ s.paused \/ s.id = Page!None)
         \/ /\ ~s.disposed /\ ~s.paused
            /\ Turns(s, Page!Invalidate(s), s.mode, s.flight, s.timers \cup {"merge"}, s.conn,
                     s.recovering)
  BY ArmIs DEF Page!Invalidate, Timers

Awakes(s) == ViewFits(s) /\ IsHeld(s) /\ IsAwake(s)

(* A request leaves who was held awake.                                    *)
LEMMA RequestFits ==
  ASSUME NEW s, ViewFits(s)
  PROVE  LET r == Page!Request(s)
         IN ViewFits(r) /\ r.conn = s.conn /\ r.mode = s.mode /\ (IsHeld(s) => IsHeld(r) /\ IsAwake(r))
<1> PICK r : r = Page!Request(s)
  OBVIOUS
<1>0. s \in Views
  BY DEF ViewFits
<1>1. ASSUME Turns(s, r, s.mode, s.flight, s.timers, s.conn, s.recovering)
             /\ (s.disposed \/ s.paused \/ s.id = Page!None \/ s.flight.current)
      PROVE  ViewFits(r) /\ r.conn = s.conn /\ r.mode = s.mode /\ (IsHeld(s) => IsHeld(r) /\ IsAwake(r))
  <2>1. ViewFits(r) /\ r.conn = s.conn /\ r.mode = s.mode
    BY <1>1 DEF Turns, ViewFits, FlightIsOwn, TimersFit
  <2>2. (Looks(r) <=> Looks(s)) /\ (Stands(r) <=> Stands(s))
    BY <1>1 DEF Turns, Looks, Stands
  <2>3. IsHeld(s) => IsHeld(r)
    BY <1>1, <2>2 DEF Turns, IsHeld
  <2>4. IsHeld(s) => IsAwake(r)
    BY <1>1, <2>2 DEF Turns, IsHeld, IsAwake, Looks
  <2> QED
    BY <2>1, <2>3, <2>4
<1>2. ASSUME ~s.disposed /\ ~s.paused,
             NEW f \in Flights, ~f.obsolete, f.current => f.of = s.id /\ ~f.aborted,
             NEW t \in SUBSET Timers, t \subseteq s.timers \cup {"rate"}, s.timers \subseteq t,
             f.current \/ "rate" \in t,
             Turns(s, r, s.mode, f, t, s.conn, s.recovering)
      PROVE  ViewFits(r) /\ r.conn = s.conn /\ r.mode = s.mode /\ (IsHeld(s) => IsHeld(r) /\ IsAwake(r))
  <2>1. FlightIsOwn(r) /\ r.conn = s.conn /\ r.mode = s.mode
    BY <1>2 DEF Turns, ViewFits, FlightIsOwn
  <2>2. /\ "stale" \in t <=> "stale" \in s.timers
        /\ "poll" \in t <=> "poll" \in s.timers
    BY <1>2
  <2>3. TimersFit(r)
    BY <1>2, <2>2 DEF Turns, ViewFits, TimersFit
  <2>4. (Looks(r) <=> Looks(s))
    BY <1>2 DEF Turns, Looks
  <2>5. IsHeld(s) => IsHeld(r)
    BY <1>2, <2>4 DEF Turns, IsHeld
  <2>6. IsAwake(r)
    BY <1>2 DEF Turns, IsAwake
  <2> QED
    BY <1>2, <2>1, <2>3, <2>5, <2>6 DEF ViewFits, Turns
<1>3. ASSUME ~s.disposed /\ ~s.paused,
             Turns(s, r, s.mode, Page!NoFlight, s.timers \cup {"rate"}, s.conn, s.recovering)
      PROVE  ViewFits(r) /\ r.conn = s.conn /\ r.mode = s.mode /\ (IsHeld(s) => IsHeld(r) /\ IsAwake(r))
  <2>1. s.timers \cup {"rate"} \in SUBSET Timers
    BY <1>0 DEF Views, Timers
  <2> QED
    BY <1>2, <1>3, <2>1, NoFlightIs
<1>4. ASSUME ~s.disposed /\ ~s.paused, NEW f \in Flights, AsksFor(s, f),
             Turns(s, r, s.mode, f, s.timers, s.conn, s.recovering)
      PROVE  ViewFits(r) /\ r.conn = s.conn /\ r.mode = s.mode /\ (IsHeld(s) => IsHeld(r) /\ IsAwake(r))
  <2>1. s.timers \in SUBSET Timers
    BY <1>0 DEF Views
  <2> QED
    BY <1>2, <1>4, <2>1 DEF AsksFor
<1>5. \/ Turns(s, r, s.mode, s.flight, s.timers, s.conn, s.recovering)
         /\ (s.disposed \/ s.paused \/ s.id = Page!None \/ s.flight.current)
      \/ /\ ~s.disposed /\ ~s.paused
         /\ \/ Turns(s, r, s.mode, Page!NoFlight, s.timers \cup {"rate"}, s.conn, s.recovering)
            \/ \E f \in Flights : AsksFor(s, f) /\ Turns(s, r, s.mode, f, s.timers, s.conn, s.recovering)
  BY <1>0, RequestIs
<1> QED
  BY <1>1, <1>3, <1>4, <1>5

(* Who opens a socket is awake.                                            *)
LEMMA ConnectFits ==
  ASSUME NEW s, ViewFits(s), s.conn # Page!None => IsHeld(s) /\ IsAwake(s)
  PROVE  Awakes(Page!Connect(s))
<1> PICK r : r = Page!Connect(s)
  OBVIOUS
<1>0. s \in Views
  BY DEF ViewFits
<1>1. ASSUME r = s, s.disposed \/ s.paused \/ s.id = Page!None \/ s.conn # Page!None
      PROVE  Awakes(r)
  <2>1. CASE s.conn # Page!None
    BY <1>1, <2>1 DEF Awakes
  <2>2. CASE ~Looks(s)
    BY <1>1, <2>2 DEF Awakes, IsHeld, IsAwake
  <2> QED
    BY <1>1, <2>1, <2>2 DEF Looks
<1>2. ASSUME ~s.disposed /\ ~s.paused, s.conn = Page!None,
             NEW m, m = (IF s.mode \in {"idle", "stopped", "live"} THEN "connecting" ELSE s.mode),
             Turns(s, r, m, s.flight, s.timers, "opening", s.recovering)
      PROVE  Awakes(r)
  <2>1. FlightIsOwn(r)
    BY <1>2 DEF Turns, ViewFits, FlightIsOwn
  <2>2. m # "live" /\ (m = "degraded" => s.mode = "degraded")
    BY <1>2
  <2>3. TimersFit(r)
    BY <1>2, <2>2 DEF Turns, ViewFits, TimersFit
  <2>4. Stands(r) /\ r.conn # Page!None
    BY <1>2 DEF Turns, Stands, Page!None
  <2> QED
    BY <1>2, <2>1, <2>3, <2>4 DEF Awakes, IsHeld, IsAwake, ViewFits, Turns
<1>3. \/ r = s /\ (s.disposed \/ s.paused \/ s.id = Page!None \/ s.conn # Page!None)
      \/ /\ ~s.disposed /\ ~s.paused /\ s.conn = Page!None
         /\ Turns(s, r, IF s.mode \in {"idle", "stopped", "live"} THEN "connecting" ELSE s.mode,
                  s.flight, s.timers, "opening", s.recovering)
  BY <1>0, ConnectIs
<1> QED
  BY <1>1, <1>2, <1>3

LEMMA RenewFits ==
  ASSUME NEW s, ViewFits(s), s.conn = Page!None \/ IsHeld(s)
  PROVE  Awakes(Page!Connect(Page!Request(s)))
<1>1. PICK r : r = Page!Request(s)
  OBVIOUS
<1>2. ViewFits(r) /\ r.conn = s.conn /\ (IsHeld(s) => IsHeld(r) /\ IsAwake(r))
  BY <1>1, RequestFits
<1>3. Awakes(Page!Connect(r))
  BY <1>2, ConnectFits
<1> QED
  BY <1>1, <1>3

(* What is stopped has nothing left that would act.                        *)
LEMMA StopFits ==
  ASSUME NEW s \in Views, FlightIsOwn(s)
  PROVE  LET r == Page!StopObserving(s)
         IN /\ ViewFits(r) /\ r.conn = Page!None /\ r.timers = {}
            /\ r.id = s.id /\ r.mode = s.mode /\ r.paused = s.paused /\ r.disposed = s.disposed
            /\ r.recovering = s.recovering
<1>1. PICK r : r = Page!StopObserving(s)
  OBVIOUS
<1>2. PICK f \in Flights : GivenUp(s.flight, f)
                           /\ Turns(s, r, s.mode, f, {}, Page!None, s.recovering)
  BY <1>1, StopIs
<1>3. FlightIsOwn(r)
  BY <1>2 DEF Turns, FlightIsOwn, GivenUp
<1>4. TimersFit(r)
  BY <1>2 DEF Turns, TimersFit
<1>5. ViewFits(r)
  BY <1>2, <1>3, <1>4 DEF ViewFits, Turns
<1> QED
  BY <1>1, <1>2, <1>5 DEF Turns

LEMMA FinishFits ==
  ASSUME NEW s, ViewFits(s)
  PROVE  Awakes(Page!Finish(s)) /\ (~s.disposed => Page!Finish(s).mode = "stopped")
<1>1. PICK r : r = Page!Finish(s)
  OBVIOUS
<1>0. s \in Views /\ FlightIsOwn(s)
  BY DEF ViewFits
<1>2. PICK f \in Flights : GivenUp(s.flight, f)
                           /\ Turns(s, r, IF s.disposed THEN s.mode ELSE "stopped", f, {}, Page!None,
                                    s.recovering)
  BY <1>0, <1>1, FinishIs
<1>3. FlightIsOwn(r)
  BY <1>0, <1>2 DEF Turns, FlightIsOwn, GivenUp
<1>4. TimersFit(r)
  BY <1>2 DEF Turns, TimersFit
<1>5. ~Looks(r)
  BY <1>2 DEF Turns, Looks
<1>6. Awakes(r)
  BY <1>2, <1>3, <1>4, <1>5 DEF Awakes, ViewFits, Turns, IsHeld, IsAwake
<1> QED
  BY <1>1, <1>2, <1>6 DEF Turns

LEMMA UnauthorizedFits ==
  ASSUME NEW s, ViewFits(s)
  PROVE  Awakes(Page!Unauthorized(s))
<1>1. PICK r : r = Page!Unauthorized(s)
  OBVIOUS
<1>0. s \in Views /\ FlightIsOwn(s)
  BY DEF ViewFits
<1>2. PICK f \in Flights : GivenUp(s.flight, f)
                           /\ Turns(s, r, s.mode, f, {}, Page!None, s.recovering + 1)
  BY <1>0, <1>1, UnauthorizedIs
<1>3. FlightIsOwn(r)
  BY <1>0, <1>2 DEF Turns, FlightIsOwn, GivenUp
<1>4. TimersFit(r)
  BY <1>2 DEF Turns, TimersFit
<1>5. s.recovering \in Nat
  BY <1>0 DEF Views
<1>6. r.recovering > 0
  BY <1>2, <1>5 DEF Turns
<1>7. Stands(r)
  BY <1>6 DEF Stands
<1>8. Awakes(r)
  BY <1>2, <1>3, <1>4, <1>6, <1>7 DEF Awakes, ViewFits, Turns, IsHeld, IsAwake
<1> QED
  BY <1>1, <1>8

---------------------------------------------------------------------------
(* The steps of the observer *)

(* Timers that go with the mode, of a page that is there, keep who is      *)
(* awake awake when none that stands is taken away.                        *)
LEMMA TimedFits ==
  ASSUME NEW s, Awakes(s), NEW r, NEW t \in SUBSET Timers, NEW m \in Modes,
         Turns(s, r, m, s.flight, t, s.conn, s.recovering),
         s.timers \subseteq t, s.disposed \/ s.paused => t = {},
         ~("stale" \in t /\ "poll" \in t),
         "stale" \in t => m # "degraded", "poll" \in t => m # "live",
         m = "connecting" => s.mode = "connecting",
         m \in {"live", "degraded"} => s.mode \in {"connecting", "live", "degraded"},
         s.conn = "subscribed" /\ s.mode = "connecting" => m = "connecting"
  PROVE  Awakes(r)
<1>1. FlightIsOwn(r)
  BY DEF Turns, Awakes, ViewFits, FlightIsOwn
<1>2. TimersFit(r)
  BY DEF Turns, Awakes, ViewFits, TimersFit
<1>3. Looks(r) => Looks(s)
  BY DEF Turns, Looks
<1>4. Stands(s) => Stands(r)
  BY DEF Turns, Stands
<1>5. IsHeld(r)
  BY <1>3, <1>4 DEF Turns, Awakes, IsHeld
<1>6. IsAwake(r)
  BY <1>3, <1>4 DEF Turns, Awakes, IsAwake
<1> QED
  BY <1>1, <1>2, <1>5, <1>6 DEF Awakes, ViewFits, Turns

LEMMA InvalidateFits ==
  ASSUME NEW s, Awakes(s)
  PROVE  Awakes(Page!Invalidate(s))
<1>0. s \in Views /\ TimersFit(s)
  BY DEF Awakes, ViewFits
<1>1. PICK r : r = Page!Invalidate(s)
  OBVIOUS
<1>2. CASE r = s
  BY <1>1, <1>2
<1>3. CASE ~s.disposed /\ ~s.paused
           /\ Turns(s, r, s.mode, s.flight, s.timers \cup {"merge"}, s.conn, s.recovering)
  <2>1. PICK t : t = s.timers \cup {"merge"}
    OBVIOUS
  <2>2. t \in SUBSET Timers /\ s.mode \in Modes /\ s.timers \subseteq t
    BY <1>0, <2>1 DEF Views, Timers
  <2>3. ("stale" \in t <=> "stale" \in s.timers) /\ ("poll" \in t <=> "poll" \in s.timers)
    BY <2>1
  <2>4. ~("stale" \in t /\ "poll" \in t) /\ ("stale" \in t => s.mode # "degraded")
        /\ ("poll" \in t => s.mode # "live")
    BY <1>0, <2>3 DEF TimersFit
  <2>5. Turns(s, r, s.mode, s.flight, t, s.conn, s.recovering)
    BY <1>3, <2>1
  <2>6. Awakes(r)
    BY <1>3, <2>2, <2>4, <2>5, TimedFits
  <2> QED
    BY <1>1, <2>6
<1>4. \/ r = s
      \/ ~s.disposed /\ ~s.paused
         /\ Turns(s, r, s.mode, s.flight, s.timers \cup {"merge"}, s.conn, s.recovering)
  BY <1>0, <1>1, InvalidateIs
<1> QED
  BY <1>2, <1>3, <1>4

LEMMA AskStaysAwake ==
  ASSUME NEW s, Awakes(s)
  PROVE  Awakes(Page!Request(s))
  BY RequestFits DEF Awakes, ViewFits, Page!Request

LEMMA LimitOverFits ==
  ASSUME Awakes(v1), Page!LimitOver
  PROVE  Awakes(v1')
<1>1. PICK r : r = [v1 EXCEPT !.limited = FALSE]
  OBVIOUS
<1>2. Turns(v1, r, v1.mode, v1.flight, v1.timers, v1.conn, v1.recovering)
  BY <1>1 DEF Turns, Awakes, ViewFits, Views
<1>3. Awakes(r)
  BY <1>2 DEF Turns, Awakes, ViewFits, FlightIsOwn, TimersFit, IsHeld, IsAwake, Looks, Stands
<1> QED
  BY <1>1, <1>3 DEF Page!LimitOver

LEMMA OpenFits ==
  ASSUME Awakes(v1), Page!Open
  PROVE  Awakes(v1')
<1>1. PICK r : r = [v1 EXCEPT !.conn = "open"]
  OBVIOUS
<1>2. v1.conn = "opening"
  BY DEF Page!Open
<1>3. Turns(v1, r, v1.mode, v1.flight, v1.timers, "open", v1.recovering)
  BY <1>1 DEF Turns, Awakes, ViewFits, Views
<1>4. FlightIsOwn(r)
  BY <1>3 DEF Turns, Awakes, ViewFits, FlightIsOwn
<1>5. TimersFit(r)
  BY <1>2, <1>3 DEF Turns, Awakes, ViewFits, TimersFit, Page!None
<1>6. Stands(r) /\ r.conn # Page!None
  BY <1>3 DEF Turns, Stands, Page!None
<1>7. Awakes(r)
  BY <1>3, <1>4, <1>5, <1>6 DEF Turns, Awakes, ViewFits, IsHeld, IsAwake
<1> QED
  BY <1>1, <1>7 DEF Page!Open

LEMMA SubscribedFits ==
  ASSUME Awakes(v1), Page!Subscribed
  PROVE  Awakes(v1')
<1>0. v1 \in Views /\ v1.conn # Page!None /\ TimersFit(v1)
  BY DEF Page!Subscribed, Page!None, Awakes, ViewFits
<1>1. PICK a : a = [v1 EXCEPT !.conn = "subscribed", !.attempts = 0]
  OBVIOUS
<1>2. Turns(v1, a, v1.mode, v1.flight, v1.timers, "subscribed", v1.recovering)
  BY <1>0, <1>1 DEF Turns, Views
<1>3. PICK d : d = Page!Disarm(a, "poll")
  OBVIOUS
<1>4. Turns(v1, d, v1.mode, v1.flight, v1.timers \ {"poll"}, "subscribed", v1.recovering)
  BY <1>2, <1>3, ArmIs DEF Turns, Timers
<1>5. ~v1.disposed /\ ~v1.paused
  BY <1>0 DEF TimersFit
<1>6. PICK m : m = Page!Mode(d, "live")
  OBVIOUS
<1>7. Turns(v1, m, "live", v1.flight, v1.timers \ {"poll"}, "subscribed", v1.recovering)
  BY <1>4, <1>5, <1>6, ModeIs DEF Turns, Modes
<1>8. PICK r : r = Page!Arm(m, "stale")
  OBVIOUS
<1>9. Turns(v1, r, "live", v1.flight, (v1.timers \ {"poll"}) \cup {"stale"}, "subscribed",
            v1.recovering)
  BY <1>7, <1>8, ArmIs DEF Turns, Timers
<1>10. FlightIsOwn(r)
  BY <1>9 DEF Turns, Awakes, ViewFits, FlightIsOwn
<1>11. "stale" \in r.timers /\ "poll" \notin r.timers /\ r.mode = "live"
  BY <1>9 DEF Turns
<1>12. TimersFit(r) /\ Stands(r)
  BY <1>5, <1>9, <1>11 DEF Turns, TimersFit, Stands
<1>13. Awakes(r)
  BY <1>9, <1>10, <1>11, <1>12 DEF Turns, Awakes, ViewFits, IsHeld, IsAwake
<1> QED
  BY <1>1, <1>3, <1>6, <1>8, <1>13 DEF Page!Subscribed

LEMMA SocketFailsFits ==
  ASSUME NEW s, Awakes(s), s.conn # Page!None
  PROVE  Awakes(Page!SocketFails(s))
<1>0. s \in Views /\ FlightIsOwn(s) /\ ~s.disposed /\ ~s.paused
  BY DEF Awakes, ViewFits, TimersFit
<1>1. PICK a : a = Page!Attempted(s)
  OBVIOUS
<1>2. PICK n : n = IF s.attempts < MaxReconnects THEN s.attempts + 1 ELSE s.attempts
  OBVIOUS
<1>3. a = [s EXCEPT !.conn = Page!None, !.attempts = n] /\ n \in Nat
  BY <1>0, <1>1, <1>2 DEF Page!Attempted, Views
<1>4. Turns(s, a, s.mode, s.flight, s.timers, Page!None, s.recovering)
  BY <1>0, <1>3 DEF Turns, Views
<1>5. PICK b : b = Page!Mode(a, "degraded")
  OBVIOUS
<1>6. Turns(s, b, "degraded", s.flight, s.timers, Page!None, s.recovering)
  BY <1>0, <1>4, <1>5, ModeIs DEF Turns, Modes
<1>7. PICK c : c = Page!Disarm(b, "stale")
  OBVIOUS
<1>8. Turns(s, c, "degraded", s.flight, s.timers \ {"stale"}, Page!None, s.recovering)
  BY <1>6, <1>7, ArmIs DEF Turns, Timers
<1>9. PICK d : d = Page!Arm(c, "poll")
  OBVIOUS
<1>10. Turns(s, d, "degraded", s.flight, (s.timers \ {"stale"}) \cup {"poll"}, Page!None, s.recovering)
  BY <1>8, <1>9, ArmIs DEF Turns, Timers
<1>11. PICK e : e = Page!Arm(d, "reconnect")
  OBVIOUS
<1>12. Turns(s, e, "degraded", s.flight, (s.timers \ {"stale"}) \cup {"poll", "reconnect"}, Page!None,
             s.recovering)
  BY <1>10, <1>11, ArmIs DEF Turns, Timers
<1>13. ASSUME NEW r, NEW t, "poll" \in t, "stale" \notin t,
              Turns(s, r, "degraded", s.flight, t, Page!None, s.recovering)
       PROVE  Awakes(r)
  <2>1. FlightIsOwn(r)
    BY <1>0, <1>13 DEF Turns, FlightIsOwn
  <2>2. TimersFit(r) /\ Stands(r)
    BY <1>0, <1>13 DEF Turns, TimersFit, Stands
  <2> QED
    BY <1>13, <2>1, <2>2 DEF Turns, Awakes, ViewFits, IsHeld, IsAwake
<1>14. Awakes(d) /\ Awakes(e)
  BY <1>10, <1>12, <1>13
<1> QED
  BY <1>1, <1>5, <1>7, <1>9, <1>11, <1>14 DEF Page!SocketFails

LEMMA CloseFits ==
  ASSUME Awakes(v1), Page!Close
  PROVE  Awakes(v1')
<1>0. v1 \in Views /\ v1.conn # Page!None /\ ViewFits(v1)
  BY DEF Page!Close, Awakes, ViewFits
<1>1. PICK d : d = [v1 EXCEPT !.conn = Page!None]
  OBVIOUS
<1>2. Turns(v1, d, v1.mode, v1.flight, v1.timers, Page!None, v1.recovering)
  BY <1>0, <1>1 DEF Turns, Views
<1>3. ViewFits(d)
  BY <1>0, <1>2 DEF Turns, ViewFits, FlightIsOwn, TimersFit
<1>4. Awakes(Page!SocketFails(v1)) /\ Awakes(Page!Finish(d)) /\ Awakes(Page!Unauthorized(d))
  BY <1>0, <1>3, SocketFailsFits, FinishFits, UnauthorizedFits
<1>5. v1' = Page!SocketFails(v1) \/ v1' = Page!Finish(d) \/ v1' = Page!Unauthorized(d)
  BY <1>1 DEF Page!Close
<1> QED
  BY <1>4, <1>5

LEMMA RecoveredFits ==
  ASSUME Awakes(v1), Page!Recovered
  PROVE  Awakes(v1')
<1>0. v1 \in Views /\ v1.recovering > 0 /\ v1.recovering \in Nat /\ ViewFits(v1)
  BY DEF Page!Recovered, Awakes, ViewFits, Views
<1>1. PICK n : n = v1.recovering - 1
  OBVIOUS
<1>2. n \in Nat
  BY <1>0, <1>1
<1>3. PICK d : d = [v1 EXCEPT !.recovering = n]
  OBVIOUS
<1>4. Turns(v1, d, v1.mode, v1.flight, v1.timers, v1.conn, n)
  BY <1>0, <1>2, <1>3 DEF Turns, Views
<1>5. ViewFits(d)
  BY <1>0, <1>4 DEF Turns, ViewFits, FlightIsOwn, TimersFit
<1>6. v1' \in IF d.disposed \/ d.paused THEN {d}
              ELSE {Page!Connect(Page!Request(Page!Mode(d, "connecting"))), Page!Mode(d, "stopped")}
  BY <1>1, <1>3 DEF Page!Recovered
<1>7. CASE d.disposed \/ d.paused
  <2>1. v1' = d /\ ~Looks(d)
    BY <1>6, <1>7 DEF Looks
  <2> QED
    BY <1>5, <2>1 DEF Awakes, IsHeld, IsAwake
<1>8. CASE ~(d.disposed \/ d.paused)
  <2>0. d \in Views
    BY <1>5 DEF ViewFits
  <2>1. PICK m : m = Page!Mode(d, "connecting")
    OBVIOUS
  <2>2. Turns(d, m, "connecting", d.flight, d.timers, d.conn, d.recovering)
    BY <1>8, <2>0, <2>1, ModeIs DEF Modes
  <2>3. ViewFits(m)
    BY <1>5, <2>2 DEF Turns, ViewFits, FlightIsOwn, TimersFit
  <2>4. m.conn \in {Page!None, "opening", "open", "subscribed"} /\ m.mode = "connecting"
    BY <2>2 DEF Turns, Views
  <2>5. m.conn = Page!None \/ IsHeld(m)
    BY <2>4 DEF IsHeld, Stands
  <2>6. Awakes(Page!Connect(Page!Request(m)))
    BY <2>3, <2>5, RenewFits
  <2>7. PICK k : k = Page!Mode(d, "stopped")
    OBVIOUS
  <2>8. Turns(d, k, "stopped", d.flight, d.timers, d.conn, d.recovering)
    BY <1>8, <2>0, <2>7, ModeIs DEF Modes
  <2>9. ViewFits(k) /\ ~Looks(k)
    BY <1>5, <2>8 DEF Turns, ViewFits, FlightIsOwn, TimersFit, Looks
  <2>10. Awakes(k)
    BY <2>9 DEF Awakes, IsHeld, IsAwake
  <2> QED
    BY <1>6, <1>8, <2>1, <2>6, <2>7, <2>10
<1> QED
  BY <1>7, <1>8

LEMMA FireFits ==
  ASSUME Awakes(v1), NEW t \in Timers, Page!Fire(t)
  PROVE  Awakes(v1')
<1>0. v1 \in Views /\ ViewFits(v1) /\ IsHeld(v1) /\ IsAwake(v1)
  BY DEF Awakes, ViewFits
<1>1. PICK d : d = Page!Disarm(v1, t)
  OBVIOUS
<1>2. Turns(v1, d, v1.mode, v1.flight, v1.timers \ {t}, v1.conn, v1.recovering)
  BY <1>0, <1>1, ArmIs
<1>3. ViewFits(d)
  BY <1>0, <1>2 DEF Turns, ViewFits, FlightIsOwn, TimersFit
<1>4. Looks(d) <=> Looks(v1)
  BY <1>2 DEF Turns, Looks
<1>5. t \in {"stale", "poll"} => ~(v1.flight.current /\ v1.flight.aborted)
  BY DEF Page!Fire
<1>6. t \notin {"stale", "poll"} => (Stands(d) <=> Stands(v1))
  BY <1>2 DEF Turns, Stands
<1>7. IsHeld(d)
  BY <1>0, <1>2, <1>4, <1>5, <1>6 DEF Turns, IsHeld
<1>8. CASE v1' = Page!Request(d)
  BY <1>3, <1>7, <1>8, RequestFits DEF Awakes
<1>9. CASE t = "reconnect" /\ v1' = Page!Connect(d)
  <2>1. IsAwake(d)
    BY <1>0, <1>2, <1>4, <1>6, <1>9 DEF Turns, IsAwake
  <2> QED
    BY <1>3, <1>7, <1>9, <2>1, ConnectFits
<1>10. \/ v1' = Page!Request(d)
       \/ t = "reconnect" /\ v1' = Page!Connect(d)
  BY <1>1 DEF Page!Fire
<1> QED
  BY <1>8, <1>9, <1>10

(* Once an answer was heard, the timer of the mode brings the next.        *)
Landed(d) == IF d.mode = "live" THEN Page!Arm(d, "stale")
             ELSE IF d.mode = "degraded" THEN Page!Arm(d, "poll")
             ELSE d
LEMMA LandedFits ==
  ASSUME NEW d, ViewFits(d), IsHeld(d), ~d.disposed, ~d.paused
  PROVE  Awakes(Landed(d))
<1>0. d \in Views /\ FlightIsOwn(d) /\ TimersFit(d)
  BY DEF ViewFits
<1>1. ASSUME NEW t \in {"stale", "poll"}, NEW r, Turns(d, r, d.mode, d.flight, d.timers \cup {t}, d.conn, d.recovering),
             d.mode = IF t = "stale" THEN "live" ELSE "degraded"
      PROVE  Awakes(r)
  <2>1. FlightIsOwn(r)
    BY <1>0, <1>1 DEF Turns, FlightIsOwn
  <2>2. TimersFit(r)
    BY <1>0, <1>1 DEF Turns, TimersFit
  <2>3. Stands(r)
    BY <1>1 DEF Turns, Stands
  <2>4. r.mode # "connecting"
    BY <1>1 DEF Turns
  <2> QED
    BY <1>1, <2>1, <2>2, <2>3, <2>4 DEF Turns, Awakes, ViewFits, IsHeld, IsAwake
<1>2. CASE d.mode = "live"
  BY <1>0, <1>1, <1>2, ArmIs DEF Landed, Timers
<1>3. CASE d.mode = "degraded"
  BY <1>0, <1>1, <1>3, ArmIs DEF Landed, Timers
<1>4. CASE d.mode \notin {"live", "degraded"}
  <2>1. d.conn \in {Page!None, "opening", "open", "subscribed"}
    BY <1>0 DEF Views
  <2>2. Looks(d) => d.mode = "connecting"
    BY <1>4 DEF Looks
  <2>3. Looks(d) => Stands(d)
    BY <2>1, <2>2 DEF IsHeld, Stands
  <2>4. IsAwake(d)
    BY <2>3 DEF IsAwake
  <2> QED
    BY <1>4, <2>4 DEF Awakes, Landed
<1> QED
  BY <1>2, <1>3, <1>4

LEMMA SettleFits ==
  ASSUME Awakes(v1), Page!Settle
  PROVE  Awakes(v1')
<1>0. v1 \in Views /\ ViewFits(v1) /\ IsHeld(v1) /\ IsAwake(v1) /\ FlightIsOwn(v1) /\ TimersFit(v1)
  BY DEF Awakes, ViewFits
<1>1. CASE Page!Dropped(v1) /\ v1' = [v1 EXCEPT !.flight = Page!NoFlight]
  <2>1. PICK r : r = [v1 EXCEPT !.flight = Page!NoFlight]
    OBVIOUS
  <2>2. Turns(v1, r, v1.mode, Page!NoFlight, v1.timers, v1.conn, v1.recovering)
    BY <1>0, <2>1, NoFlightIs DEF Turns, Views
  <2>3. ViewFits(r)
    BY <1>0, <2>2, NoFlightIs DEF Turns, ViewFits, FlightIsOwn, TimersFit
  <2>4. (Looks(r) <=> Looks(v1)) /\ (Stands(r) <=> Stands(v1))
    BY <2>2 DEF Turns, Looks, Stands
  <2>5. IsHeld(r)
    BY <1>0, <2>2, <2>4, NoFlightIs DEF Turns, IsHeld
  <2>6. Looks(v1) => ~v1.flight.current \/ v1.flight.aborted
    BY <1>1 DEF Page!Dropped, Looks
  <2>7. IsAwake(r)
    BY <1>0, <2>2, <2>4, <2>6 DEF Turns, IsHeld, IsAwake
  <2> QED
    BY <1>1, <2>1, <2>3, <2>5, <2>7 DEF Awakes
<1>2. ASSUME ~Page!Dropped(v1), NEW d, NEW g \in Flights, g.of \in {Page!None, v1.id}, ~g.obsolete,
             d = [v1 EXCEPT !.flight = Page!NoFlight, !.shown = g]
      PROVE  ViewFits(d) /\ IsHeld(d) /\ ~d.disposed /\ ~d.paused
  <2>1. /\ d \in Views /\ d.flight = Page!NoFlight /\ d.shown = g
        /\ d.id = v1.id /\ d.mode = v1.mode /\ d.timers = v1.timers /\ d.conn = v1.conn
        /\ d.recovering = v1.recovering /\ d.disposed = v1.disposed /\ d.paused = v1.paused
    BY <1>0, <1>2, NoFlightIs DEF Views
  <2>2. ~d.disposed /\ ~d.paused
    BY <1>2, <2>1 DEF Page!Dropped
  <2>3. ViewFits(d)
    BY <1>0, <1>2, <2>1, NoFlightIs DEF ViewFits, FlightIsOwn, TimersFit
  <2>4. IsHeld(d)
    BY <1>0, <2>1, NoFlightIs DEF IsHeld, Looks
  <2> QED
    BY <2>2, <2>3, <2>4
<1>3. ASSUME ~Page!Dropped(v1), NEW settled \in BOOLEAN, v1' = Page!Deliver(v1, settled)
      PROVE  Awakes(v1')
  <2>1. PICK d : d = [v1 EXCEPT !.flight = Page!NoFlight, !.shown = v1.flight]
    OBVIOUS
  <2>2. v1.flight \in Flights /\ v1.flight.of = v1.id /\ ~v1.flight.obsolete
    BY <1>0, <1>3 DEF Page!Dropped, FlightIsOwn, Views
  <2>3. ViewFits(d) /\ IsHeld(d) /\ ~d.disposed /\ ~d.paused
    BY <1>2, <1>3, <2>1, <2>2
  <2>4. PICK k : k = IF settled THEN Page!Finish(d) ELSE Landed(d)
    OBVIOUS
  <2>5. Awakes(k)
    BY <2>3, <2>4, FinishFits, LandedFits
  <2>6. v1' = IF k.pending /\ k.mode # "stopped" THEN Page!Request([k EXCEPT !.pending = FALSE]) ELSE k
    BY <1>3, <2>1, <2>4 DEF Page!Deliver, Landed
  <2>7. PICK p : p = [k EXCEPT !.pending = FALSE]
    OBVIOUS
  <2>8. Turns(k, p, k.mode, k.flight, k.timers, k.conn, k.recovering)
    BY <2>5, <2>7 DEF Turns, Awakes, ViewFits, Views
  <2>9. ViewFits(p) /\ IsHeld(p)
    BY <2>5, <2>8 DEF Turns, Awakes, ViewFits, FlightIsOwn, TimersFit, IsHeld, Looks, Stands
  <2>10. Awakes(Page!Request(p))
    BY <2>9, RequestFits DEF Awakes
  <2> QED
    BY <2>5, <2>6, <2>7, <2>10
<1>4. ASSUME ~Page!Dropped(v1), NEW why \in {"forbidden", "unauthorized", "limited", "other"},
             v1' = Page!FetchFails(v1, why)
      PROVE  Awakes(v1')
  <2>1. PICK d : d = [v1 EXCEPT !.flight = Page!NoFlight]
    OBVIOUS
  <2>2. v1.shown \in Flights /\ v1.shown.of \in {Page!None, v1.id} /\ ~v1.shown.obsolete
    BY <1>0 DEF FlightIsOwn, Views
  <2>3. d = [v1 EXCEPT !.flight = Page!NoFlight, !.shown = v1.shown]
    BY <1>0, <2>1 DEF Views
  <2>4. ViewFits(d) /\ IsHeld(d) /\ ~d.disposed /\ ~d.paused
    BY <1>2, <1>4, <2>2, <2>3
  <2>5. Awakes(Page!Finish(d)) /\ Awakes(Page!Unauthorized(d)) /\ Awakes(Landed(d))
    BY <2>4, FinishFits, UnauthorizedFits, LandedFits
  <2>6. PICK l : l = [d EXCEPT !.limited = TRUE]
    OBVIOUS
  <2>7. Turns(d, l, d.mode, d.flight, d.timers, d.conn, d.recovering)
    BY <2>4, <2>6 DEF Turns, ViewFits, Views
  <2>8. PICK r : r = Page!Arm(l, "rate")
    OBVIOUS
  <2>9. Turns(d, r, d.mode, d.flight, d.timers \cup {"rate"}, d.conn, d.recovering)
    BY <2>7, <2>8, ArmIs DEF Turns, Timers
  <2>10. Awakes(r)
    <3>1. FlightIsOwn(r)
      BY <2>4, <2>9 DEF Turns, ViewFits, FlightIsOwn
    <3>2. TimersFit(r)
      BY <2>4, <2>9 DEF Turns, ViewFits, TimersFit
    <3>3. (Looks(r) <=> Looks(d)) /\ (Stands(r) <=> Stands(d)) /\ "rate" \in r.timers
      BY <2>9 DEF Turns, Looks, Stands
    <3>4. IsHeld(r) /\ IsAwake(r)
      BY <2>4, <2>9, <3>3 DEF Turns, IsHeld, IsAwake
    <3> QED
      BY <2>9, <3>1, <3>2, <3>4 DEF Turns, Awakes, ViewFits
  <2>11. v1' \in {Page!Finish(d), Page!Unauthorized(d), r, Landed(d)}
    <3>1. CASE why \in {"forbidden", "unauthorized", "limited"}
      BY <1>4, <2>1, <2>6, <2>8, <3>1 DEF Page!FetchFails
    <3>2. CASE why = "other"
      BY <1>4, <2>1, <3>2 DEF Page!FetchFails, Landed
    <3> QED
      BY <1>4, <3>1, <3>2
  <2> QED
    BY <2>5, <2>10, <2>11
<1> QED
  BY <1>1, <1>3, <1>4 DEF Page!Settle

LEMMA StartFits ==
  ASSUME Awakes(v1), NEW id \in Evaluations, Page!Start(id)
  PROVE  Awakes(v1')
<1>0. v1 \in Views /\ ~v1.disposed
  BY DEF Awakes, ViewFits, Page!Start
<1>1. PICK s : s = [v1 EXCEPT !.id = id, !.shown = Page!NoFlight]
  OBVIOUS
<1>2. s \in Views /\ ~s.disposed /\ s.shown = Page!NoFlight
  BY <1>0, <1>1, NoFlightIs DEF Views
<1>3. PICK a : a = Page!StopObserving(s)
  OBVIOUS
<1>4. PICK f \in Flights : Turns(s, a, s.mode, f, {}, Page!None, s.recovering)
  BY <1>2, <1>3, StopIs
<1>5. a \in Views
  BY <1>4 DEF Turns
<1>6. PICK d : d = Page!NextEpoch(a)
  OBVIOUS
<1>7. PICK g \in Flights : ~g.current /\ Turns(a, d, a.mode, g, a.timers, a.conn, a.recovering)
  BY <1>5, <1>6, NextEpochIs
<1>8. Turns(s, d, s.mode, g, {}, Page!None, s.recovering)
  BY <1>4, <1>7 DEF Turns
<1>9. ASSUME NEW m \in Modes
      PROVE  LET k == Page!Mode(d, m)
             IN ViewFits(k) /\ k.conn = Page!None /\ k.mode = m
  <2>1. PICK k : k = Page!Mode(d, m)
    OBVIOUS
  <2>2. d \in Views /\ ~d.disposed
    BY <1>2, <1>8 DEF Turns
  <2>3. Turns(d, k, m, d.flight, d.timers, d.conn, d.recovering)
    BY <2>1, <2>2, ModeIs
  <2>4. Turns(s, k, m, g, {}, Page!None, s.recovering)
    BY <1>8, <2>3 DEF Turns
  <2>5. FlightIsOwn(k)
    BY <1>2, <1>7, <2>4, NoFlightIs DEF Turns, FlightIsOwn
  <2>6. TimersFit(k)
    BY <2>4 DEF Turns, TimersFit
  <2> QED
    BY <2>1, <2>4, <2>5, <2>6 DEF Turns, ViewFits
<1>10. Awakes(Page!Connect(Page!Request(Page!Mode(d, "connecting"))))
  BY <1>9, RenewFits DEF Modes
<1>11. Awakes(Page!Mode(d, "idle"))
  BY <1>9 DEF Modes, Awakes, IsHeld, IsAwake, Looks
<1>12. v1' \in {Page!Connect(Page!Request(Page!Mode(d, "connecting"))), Page!Mode(d, "idle")}
  BY <1>1, <1>3, <1>6 DEF Page!Start
<1> QED
  BY <1>10, <1>11, <1>12

(* A page that is paused stops, one that is not any more starts anew.      *)
LEMMA PauseFits ==
  ASSUME Awakes(v1), NEW p \in BOOLEAN, NEW d,
         d \in Views, d.id = v1.id, d.mode = v1.mode, d.flight = v1.flight, d.timers = v1.timers,
         d.conn = v1.conn, d.recovering = v1.recovering, d.mutating = v1.mutating,
         d.shown = v1.shown, d.disposed = v1.disposed, d.paused = p
  PROVE  /\ p => Awakes(Page!StopObserving(d))
         /\ ~p => Awakes(Page!Resume(d))
<1>0. FlightIsOwn(d) /\ FlightIsOwn(v1) /\ TimersFit(v1) /\ v1 \in Views
  BY DEF Awakes, ViewFits, FlightIsOwn
<1>1. ASSUME p
      PROVE  Awakes(Page!StopObserving(d))
  <2>1. PICK a : a = Page!StopObserving(d)
    OBVIOUS
  <2>2. ViewFits(a) /\ a.paused
    BY <1>0, <1>1, <2>1, StopFits
  <2> QED
    BY <2>1, <2>2 DEF Awakes, IsHeld, IsAwake, Looks
<1>2. ASSUME ~p
      PROVE  Awakes(Page!Resume(d))
  <2>1. TimersFit(d)
    BY <1>0, <1>2 DEF TimersFit
  <2>2. ViewFits(d)
    BY <1>0, <2>1 DEF ViewFits
  <2>3. CASE d.disposed \/ d.id = Page!None \/ d.mode = "stopped"
    <3>1. Page!Resume(d) = d /\ ~Looks(d)
      BY <2>3 DEF Page!Resume, Looks
    <3> QED
      BY <2>2, <3>1 DEF Awakes, IsHeld, IsAwake
  <2>4. CASE ~(d.disposed \/ d.id = Page!None \/ d.mode = "stopped")
    <3>1. PICK e : e = [d EXCEPT !.attempts = 0]
      OBVIOUS
    <3>2. Turns(d, e, d.mode, d.flight, d.timers, d.conn, d.recovering)
      BY <3>1 DEF Turns, Views
    <3>3. ViewFits(e)
      BY <2>2, <3>2 DEF Turns, ViewFits, FlightIsOwn, TimersFit
    <3>4. CASE v1.paused
      <4>1. e.conn = Page!None
        BY <1>0, <3>2, <3>4 DEF TimersFit, Turns
      <4> QED
        BY <2>4, <3>1, <3>3, <4>1, RenewFits DEF Page!Resume
    <3>5. CASE ~v1.paused
      <4>1. (Looks(e) <=> Looks(v1)) /\ (Stands(e) <=> Stands(v1))
        BY <1>2, <3>2, <3>5 DEF Turns, Looks, Stands
      <4>2. IsHeld(e)
        BY <3>2, <4>1 DEF Turns, Awakes, IsHeld
      <4> QED
        BY <2>4, <3>1, <3>3, <4>2, RenewFits DEF Page!Resume
    <3> QED
      BY <1>0, <3>4, <3>5
  <2> QED
    BY <2>3, <2>4
<1> QED
  BY <1>1, <1>2

LEMMA SetFits ==
  ASSUME Awakes(v1), Page!SetVisible \/ Page!SetOnline
  PROVE  Awakes(v1')
<1>0. v1 \in Views
  BY DEF Awakes, ViewFits
<1>1. CASE Page!SetVisible
  <2>1. PICK p : p = v1.visible
    OBVIOUS
  <2>2. p \in BOOLEAN
    BY <1>0, <2>1 DEF Views
  <2>3. PICK d : d = [v1 EXCEPT !.visible = ~@, !.paused = p]
    OBVIOUS
  <2>4. /\ d \in Views /\ d.id = v1.id /\ d.mode = v1.mode /\ d.flight = v1.flight
        /\ d.timers = v1.timers /\ d.conn = v1.conn /\ d.recovering = v1.recovering
        /\ d.mutating = v1.mutating /\ d.shown = v1.shown /\ d.disposed = v1.disposed
        /\ d.paused = p
    BY <1>0, <2>2, <2>3 DEF Views
  <2>5. v1' = IF p THEN Page!StopObserving(d) ELSE Page!Resume(d)
    BY <1>1, <2>1, <2>3 DEF Page!SetVisible
  <2> QED
    BY <2>2, <2>4, <2>5, PauseFits
<1>2. CASE Page!SetOnline
  <2>1. PICK p : p = v1.online
    OBVIOUS
  <2>2. p \in BOOLEAN
    BY <1>0, <2>1 DEF Views
  <2>3. PICK d : d = [v1 EXCEPT !.online = ~@, !.paused = p]
    OBVIOUS
  <2>4. /\ d \in Views /\ d.id = v1.id /\ d.mode = v1.mode /\ d.flight = v1.flight
        /\ d.timers = v1.timers /\ d.conn = v1.conn /\ d.recovering = v1.recovering
        /\ d.mutating = v1.mutating /\ d.shown = v1.shown /\ d.disposed = v1.disposed
        /\ d.paused = p
    BY <1>0, <2>2, <2>3 DEF Views
  <2>5. v1' = IF p THEN Page!StopObserving(d) ELSE Page!Resume(d)
    BY <1>2, <2>1, <2>3 DEF Page!SetOnline
  <2> QED
    BY <2>2, <2>4, <2>5, PauseFits
<1> QED
  BY <1>1, <1>2

LEMMA MutateFits ==
  ASSUME Awakes(v1), Page!Mutate
  PROVE  Awakes(v1')
<1>0. v1 \in Views /\ FlightIsOwn(v1) /\ TimersFit(v1) /\ IsHeld(v1)
  BY DEF Awakes, ViewFits
<1>1. PICK a : a = Page!NextEpoch(v1)
  OBVIOUS
<1>2. PICK f \in Flights : ~f.current
                           /\ Turns(v1, a, v1.mode, f, v1.timers, v1.conn, v1.recovering)
  BY <1>0, <1>1, NextEpochIs
<1>3. PICK b : b = Page!Abort(a)
  OBVIOUS
<1>4. a \in Views /\ a.flight = f
  BY <1>2 DEF Turns
<1>5. PICK g \in Flights : GivenUp(a.flight, g)
                           /\ Turns(a, b, a.mode, g, a.timers, a.conn, a.recovering)
  BY <1>3, <1>4, AbortIs
<1>6. ~g.current
  BY <1>2, <1>4, <1>5 DEF GivenUp
<1>7. Turns(v1, b, v1.mode, g, v1.timers, v1.conn, v1.recovering)
  BY <1>2, <1>5 DEF Turns
<1>8. b.mutating \in Nat /\ b \in Views
  BY <1>7 DEF Turns, Views
<1>9. PICK n : n = b.mutating + 1
  OBVIOUS
<1>10. n \in Nat /\ n > 0
  BY <1>8, <1>9
<1>11. PICK r : r = [b EXCEPT !.mutating = n]
  OBVIOUS
<1>12. /\ r \in Views /\ r.id = b.id /\ r.mode = b.mode /\ r.flight = b.flight
       /\ r.timers = b.timers /\ r.conn = b.conn /\ r.recovering = b.recovering
       /\ r.shown = b.shown /\ r.disposed = b.disposed /\ r.paused = b.paused /\ r.mutating = n
  BY <1>8, <1>10, <1>11 DEF Views
<1>13. FlightIsOwn(r)
  BY <1>0, <1>6, <1>7, <1>12 DEF Turns, FlightIsOwn
<1>14. TimersFit(r)
  BY <1>0, <1>7, <1>12 DEF Turns, TimersFit
<1>15. Looks(r) => Looks(v1)
  BY <1>7, <1>12 DEF Turns, Looks
<1>16. IsHeld(r)
  BY <1>0, <1>6, <1>7, <1>12, <1>15 DEF Turns, IsHeld
<1>17. IsAwake(r)
  BY <1>10, <1>12 DEF IsAwake
<1>18. Awakes(r)
  BY <1>12, <1>13, <1>14, <1>16, <1>17 DEF Awakes, ViewFits
<1>19. v1' = r
  BY <1>1, <1>3, <1>9, <1>11 DEF Page!Mutate
<1> QED
  BY <1>18, <1>19

LEMMA MutatedFits ==
  ASSUME Awakes(v1), Page!Mutated
  PROVE  Awakes(v1')
<1>0. v1 \in Views /\ v1.mutating > 0 /\ v1.mutating \in Nat
  BY DEF Awakes, ViewFits, Views, Page!Mutated
<1>1. PICK a : a = Page!Invalidate(v1)
  OBVIOUS
<1>2. Awakes(a)
  BY <1>1, InvalidateFits
<1>3. \/ a = v1 /\ (v1.disposed \/ v1.paused \/ v1.id = Page!None)
      \/ Turns(v1, a, v1.mode, v1.flight, v1.timers \cup {"merge"}, v1.conn, v1.recovering)
  BY <1>0, <1>1, InvalidateIs
<1>4. (Looks(a) => "merge" \in a.timers) /\ a.mutating = v1.mutating
  BY <1>3 DEF Turns, Looks
<1>5. PICK n : n = a.mutating - 1
  OBVIOUS
<1>6. n \in Nat
  BY <1>0, <1>4, <1>5
<1>7. PICK r : r = [a EXCEPT !.mutating = n]
  OBVIOUS
<1>8. /\ r \in Views /\ r.id = a.id /\ r.mode = a.mode /\ r.flight = a.flight
      /\ r.timers = a.timers /\ r.conn = a.conn /\ r.recovering = a.recovering
      /\ r.shown = a.shown /\ r.disposed = a.disposed /\ r.paused = a.paused
  BY <1>2, <1>6, <1>7 DEF Views, Awakes, ViewFits
<1>9. (Looks(r) <=> Looks(a)) /\ (Stands(r) <=> Stands(a))
  BY <1>8 DEF Looks, Stands
<1>10. ViewFits(r) /\ IsHeld(r)
  BY <1>2, <1>8, <1>9 DEF Awakes, ViewFits, FlightIsOwn, TimersFit, IsHeld
<1>11. IsAwake(r)
  BY <1>4, <1>8, <1>9 DEF IsAwake
<1>12. v1' = r
  BY <1>1, <1>5, <1>7 DEF Page!Mutated
<1> QED
  BY <1>10, <1>11, <1>12 DEF Awakes

LEMMA DisposeFits ==
  ASSUME Awakes(v1), Page!Dispose
  PROVE  Awakes(v1')
<1>0. v1 \in Views /\ FlightIsOwn(v1)
  BY DEF Awakes, ViewFits
<1>1. PICK a : a = Page!StopObserving(v1)
  OBVIOUS
<1>2. ViewFits(a) /\ a.timers = {} /\ a.conn = Page!None
  BY <1>0, <1>1, StopFits
<1>3. PICK r : r = [a EXCEPT !.disposed = TRUE, !.mode = "stopped"]
  OBVIOUS
<1>4. /\ r \in Views /\ r.id = a.id /\ r.flight = a.flight /\ r.timers = {}
      /\ r.conn = Page!None /\ r.shown = a.shown /\ r.disposed
  BY <1>2, <1>3 DEF Views, Modes, ViewFits
<1>5. ViewFits(r) /\ ~Looks(r)
  BY <1>2, <1>4 DEF ViewFits, FlightIsOwn, TimersFit, Looks
<1>6. v1' = r
  BY <1>1, <1>3 DEF Page!Dispose
<1> QED
  BY <1>5, <1>6 DEF Awakes, IsHeld, IsAwake

---------------------------------------------------------------------------
(* The observer, whatever it does *)

LEMMA PageStepFits ==
  ASSUME PageFits, Page!Next
  PROVE  PageFits'
<1>0. Awakes(v1)
  BY DEF PageFits, Awakes
<1>1. Awakes(v1')
  <2>1. CASE Page!Settle \/ Page!Recovered \/ Page!LimitOver \/ Page!Open \/ Page!Subscribed \/ Page!Close
    BY <1>0, <2>1, SettleFits, RecoveredFits, LimitOverFits, OpenFits, SubscribedFits, CloseFits
  <2>2. CASE Page!Event \/ Page!Changed
    <3>1. v1' = Page!Invalidate(v1)
      BY <2>2 DEF Page!Event, Page!Changed
    <3> QED
      BY <1>0, <3>1, InvalidateFits
  <2>3. CASE \E t \in Timers : Page!Fire(t)
    BY <1>0, <2>3, FireFits
  <2>4. CASE \E id \in Evaluations : Page!Start(id)
    BY <1>0, <2>4, StartFits
  <2>5. CASE Page!Refresh
    BY <1>0, <2>5, AskStaysAwake DEF Page!Refresh
  <2>6. CASE Page!SetVisible \/ Page!SetOnline \/ Page!Mutate \/ Page!Mutated \/ Page!Dispose
    BY <1>0, <2>6, SetFits, MutateFits, MutatedFits, DisposeFits
  <2> QED
    BY <2>1, <2>2, <2>3, <2>4, <2>5, <2>6 DEF Page!Next, Timers
<1> QED
  BY <1>1 DEF PageFits, Awakes, ViewFits, FlightIsOwn, TimersFit, IsHeld, IsAwake, Looks, Stands

(* What the page promises follows.                                         *)
LEMMA PageGives ==
  ASSUME PageFits
  PROVE  Page!ShownIsCurrent /\ Page!NeverSilent
<1>1. Page!ShownIsCurrent
  BY DEF PageFits, ViewFits, FlightIsOwn, Page!ShownIsCurrent
<1>2. ~("stale" \in v1.timers /\ "poll" \in v1.timers)
  BY DEF PageFits, ViewFits, TimersFit
<1>3. Page!Watching => Looks(v1)
  BY DEF Page!Watching, Looks
<1>4. v1.flight.current => Page!Flying(v1)
  BY NoFlightIs DEF Page!Flying
<1>5. v1.recovering > 0 \/ v1.mutating > 0 \/ v1.conn \in {"opening", "open"} => Page!Awaited
  BY DEF Page!Awaited
<1>6. (v1.conn = "subscribed" /\ v1.mode = "connecting") \/ v1.timers # {} \/ Page!Flying(v1) => Page!Awaited
  BY DEF Page!Awaited
<1>7. IsAwake(v1)
  BY DEF PageFits
<1>8. Looks(v1) => Page!Awaited
  BY <1>4, <1>5, <1>6, <1>7 DEF IsAwake, Stands
<1> QED
  BY <1>1, <1>2, <1>3, <1>8 DEF Page!NeverSilent

LEMMA PageFineAlways == Spec => []PageFine
<1>1. Init => PageFine
  <2> SUFFICES ASSUME Init, part = "page"
               PROVE  PageFits
    BY DEF PageFine
  <2>1. v1 = Page!Opened
    BY DEF Init, Page!Init
  <2>2. v1 \in Views
    BY <2>1, NoFlightIs DEF Page!Opened, Views, Modes
  <2>3. ViewFits(v1) /\ ~Looks(v1)
    BY <2>1, <2>2, NoFlightIs DEF Page!Opened, ViewFits, FlightIsOwn, TimersFit, Looks
  <2> QED
    BY <2>3 DEF PageFits, IsHeld, IsAwake
<1>2. PageFine /\ [Next]_allVars => PageFine'
  <2> SUFFICES ASSUME PageFine, [Next]_allVars, part' = "page"
               PROVE  PageFits'
    BY DEF PageFine
  <2>1. part = "page"
    BY DEF Next, allVars
  <2>2. PageFits
    BY <2>1 DEF PageFine
  <2>3. Page!Next \/ v1' = v1
    BY <2>1 DEF Next, allVars
  <2>4. CASE Page!Next
    BY <2>2, <2>4, PageStepFits
  <2>5. CASE v1' = v1
    BY <2>2, <2>5 DEF PageFits, ViewFits, FlightIsOwn, TimersFit, IsHeld, IsAwake, Looks, Stands
  <2> QED
    BY <2>3, <2>4, <2>5
<1> QED
  BY <1>1, <1>2, PTL DEF Spec

---------------------------------------------------------------------------
(* The store that creates evaluations *)

(* A draft has a number of its own, and 0 is none.                         *)
DraftsAreGiven == MaxOperations \in Nat /\ 1 \in Drafts /\ 0 \notin Drafts

Acts     == {"start", "cancel"}
Starters == {"submit", "retry"}
Promises == [what : {"none"} \cup Starters \cup Acts, owner : Nat,
             pc : {"done", "queued", "create", "start", "read", "act"},
             of : Drafts \cup {0}, left : BOOLEAN]
Slates   == [owner : Nat, phase : {"editing", "creating", "created", "starting", "queued",
                                   "start-error", "create-unknown"},
             id : Drafts \cup {0}, pending : BOOLEAN]
Made     == [made : Nat, st : {"none", "created", "started", "cancelled"}]

CreationTyped ==
  /\ v2 \in Nat /\ v3 \in Slates /\ v3.owner <= v2 /\ v4 \in Nat /\ v4 \in Drafts
  /\ v5 \in 0 .. MaxOperations /\ v6 \in {0, v5}
  /\ v7 \in [Creating!Operations -> Promises] /\ v8 \in [Drafts -> Made]

(* What an operation can be at each of its awaits; one not yet begun is no *)
(* operation.                                                              *)
PromiseFits(p) ==
  /\ p.what = "none" => p.pc = "done"
  /\ p.pc = "create" => p.what = "submit"
  /\ p.pc = "start" => p.what \in Starters
  /\ p.pc = "read" => p.what \in {"retry"} \cup Acts
  /\ p.pc = "act" => p.what \in Acts
  /\ p.left => p.what \in Acts
  /\ p.what # "none" => p.of \in Drafts
  /\ p.what = "submit" => p.of \in 1 .. v4
PromisesFit ==
  \A t \in Creating!Operations : PromiseFits(v7[t]) /\ (t \notin 1 .. v5 => v7[t].what = "none")

(* A POST that creates is ahead.                                           *)
Posts(t) == v7[t].what = "submit" /\ v7[t].pc \in {"queued", "create"}

(* One POST is ahead for a draft, and none was heard; the present draft's  *)
(* holds the lock. A draft that is edited, or ahead, created nothing.      *)
OnePost ==
  /\ \A t, u \in Creating!Operations : Posts(t) /\ Posts(u) /\ v7[t].of = v7[u].of => t = u
  /\ \A t \in Creating!Operations :
       Posts(t) => v8[v7[t].of].made = 0
  /\ \A t \in Creating!Operations :
       Posts(t) /\ v7[t].of = v4 => v5 = t /\ v6 = t /\ v3.phase = "creating"
  /\ \A d \in Drafts : v8[d].made <= 1 /\ (d \notin 1 .. v4 => v8[d].made = 0)
  /\ v3.phase = "editing" => v8[v4].made = 0

(* The latest operation is of the owner and the draft of the store, and    *)
(* holds the lock while it is under way; one that starts what was created  *)
(* knows its number.                                                       *)
LatestFits ==
  \A t \in Creating!Operations :
    v5 = t /\ v7[t].what # "none" =>
      /\ v7[t].owner = v3.owner /\ (v7[t].pc # "done" => v6 = t)
      /\ v7[t].what = "submit" => v7[t].of = v4
      /\ v7[t].what \in Starters /\ v7[t].pc \in {"read", "start"} => v3.id # 0

(* While the owner is logged in: the lock is held by an operation that is  *)
(* under way, and each mark by an operation of its kind.                   *)
MarksFit ==
  Creating!Owns(v3.owner) =>
    /\ v6 # 0 => v7[v6].pc # "done"
    /\ v3.phase \in {"creating", "starting"} \/ (v3.phase = "created" /\ v1 = "evaluation")
       => v6 # 0 /\ v7[v6].what \in Starters
    /\ v3.pending => v6 # 0 /\ v7[v6].what \in Acts
    /\ v8[v4].made > 0 => v3.id # 0 \/ v3.phase = "create-unknown"

CreationFits ==
  CreationTyped /\ PromisesFit /\ OnePost /\ LatestFits /\ MarksFit /\ v9 = {}
CreationFine == part = "creation" => CreationFits

LEMMA CreationActs ==
  ASSUME part = "creation", [Next]_allVars
  PROVE  Creating!Next \/ UNCHANGED <<v1, v2, v3, v4, v5, v6, v7, v8, v9>>
  BY DEF Next, allVars

LEMMA CreationStarts ==
  ASSUME DraftsAreGiven, Creating!Init
  PROVE  CreationFits
<1>1. Creating!Absent \in Promises /\ Creating!Fresh(1) \in Slates
      /\ [made |-> 0, st |-> "none"] \in Made
  BY DEF Creating!Absent, Creating!Fresh, Promises, Slates, Made
<1>2. CreationTyped
  BY <1>1 DEF Creating!Init, Creating!Fresh, CreationTyped, DraftsAreGiven
<1>3. PromisesFit
  BY DEF Creating!Init, Creating!Absent, PromisesFit, PromiseFits
<1>4. OnePost
  BY DEF Creating!Init, Creating!Absent, OnePost, Posts, DraftsAreGiven
<1>5. LatestFits
  BY DEF Creating!Init, Creating!Absent, LatestFits
<1>6. MarksFit
  BY DEF Creating!Init, Creating!Fresh, MarksFit, DraftsAreGiven
<1> QED
  BY <1>2, <1>3, <1>4, <1>5, <1>6 DEF CreationFits, Creating!Init

(* An operation is asked for: of the store, its draft or one it created.   *)
Slated(s) == s \in Slates /\ s.owner = v3.owner /\ s.id = v3.id

LEMMA RunFits ==
  ASSUME DraftsAreGiven, CreationFits, NEW what \in Starters \cup Acts, NEW of \in Drafts,
         Creating!Run(what, of), Slated(v3'),
         what = "submit" => of = v4 /\ v3.phase = "editing" /\ v3'.phase = "creating",
         what = "retry" => v3.phase # "create-unknown" /\ v3'.phase = "created",
         what \in Acts => v3'.phase = v3.phase,
         v3'.pending = IF what \in Acts THEN TRUE ELSE v3.pending
  PROVE  CreationFits'
<1>1. PICK p : p = [Creating!Absent EXCEPT !.what = what, !.owner = v3.owner,
                                           !.pc = "queued", !.of = of]
  OBVIOUS
<1>2. /\ p \in Promises /\ p.what = what /\ p.owner = v3.owner /\ p.pc = "queued" /\ p.of = of
      /\ p.left = FALSE
  BY <1>1 DEF Creating!Absent, Promises, CreationFits, CreationTyped, Slates
<1>3. /\ v5 \in Nat /\ v5 + 1 \in Creating!Operations /\ v6 = 0 /\ v5' = v5 + 1 /\ v6' = v5 + 1
      /\ v5 + 1 \notin 1 .. v5 /\ v5 \in 0 .. MaxOperations
  BY DEF Creating!Run, Creating!Reserves, CreationFits, CreationTyped, DraftsAreGiven, Creating!Operations
<1>4. /\ v7' = [v7 EXCEPT ![v5 + 1] = p]
      /\ \A u \in Creating!Operations : v7'[u] = IF u = v5 + 1 THEN p ELSE v7[u]
  BY <1>1, <1>3 DEF Creating!Run, CreationFits, CreationTyped
<1>5. UNCHANGED <<v1, v2, v4, v8, v9>> /\ Creating!Owns(v3.owner)
  BY DEF Creating!Run, Creating!browserPart
<1>6. CreationTyped'
  <2>1. v7' \in [Creating!Operations -> Promises]
    BY <1>2, <1>4 DEF CreationFits, CreationTyped
  <2>2. v5' \in 0 .. MaxOperations
    BY <1>3 DEF Creating!Operations
  <2> QED
    BY <1>3, <1>5, <2>1, <2>2 DEF CreationFits, CreationTyped, Slated
<1>7. PromisesFit'
  <2> SUFFICES ASSUME NEW t \in Creating!Operations
               PROVE  PromiseFits(v7[t])' /\ (t \notin 1 .. v5' => v7'[t].what = "none")
    BY DEF PromisesFit
  <2>1. CASE t = v5 + 1
    <3>1. v7'[t] = p /\ t \in 1 .. v5'
      BY <1>3, <1>4, <2>1
    <3>2. what = "submit" => p.of \in 1 .. v4'
      BY <1>2, <1>5 DEF CreationFits, CreationTyped, DraftsAreGiven
    <3> QED
      BY <1>2, <3>1, <3>2 DEF PromiseFits, Starters, Acts
  <2>2. CASE t # v5 + 1
    <3>1. v7'[t] = v7[t] /\ (t \notin 1 .. v5' => t \notin 1 .. v5)
      BY <1>3, <1>4, <2>2
    <3> QED
      BY <1>5, <3>1 DEF CreationFits, PromisesFit, PromiseFits
  <2> QED
    BY <2>1, <2>2
<1>8. \A t \in Creating!Operations : Posts(t) => v7[t].of # v4
  BY <1>3 DEF CreationFits, OnePost, Creating!Operations
<1>9. OnePost'
  <2>1. \A t \in Creating!Operations :
          Posts(t)' => IF t = v5 + 1 THEN what = "submit" /\ v7'[t].of = v4
                       ELSE Posts(t) /\ v7'[t].of = v7[t].of
    BY <1>2, <1>4 DEF Posts
  <2>2. \A d \in Drafts : v8'[d].made <= 1 /\ (d \notin 1 .. v4' => v8'[d].made = 0)
    BY <1>5 DEF CreationFits, OnePost
  <2>3. v3'.phase = "editing" \/ what = "submit" => v8'[v4'].made = 0
    BY <1>5 DEF CreationFits, OnePost, Starters, Acts
  <2>4. \A t \in Creating!Operations :
          Posts(t)' /\ v7'[t].of = v4' => v5' = t /\ v6' = t /\ v3'.phase = "creating"
    BY <1>3, <1>5, <1>8, <2>1
  <2>5. \A t, u \in Creating!Operations : Posts(t)' /\ Posts(u)' /\ v7'[t].of = v7'[u].of => t = u
    <3>1. \A t, u \in Creating!Operations : Posts(t) /\ Posts(u) /\ v7[t].of = v7[u].of => t = u
      BY DEF CreationFits, OnePost
    <3> QED
      BY <1>8, <2>1, <3>1
  <2>6. \A t \in Creating!Operations : Posts(t)' => v8'[v7'[t].of].made = 0
    BY <1>5, <2>1, <2>3 DEF CreationFits, OnePost
  <2> QED
    BY <2>2, <2>3, <2>4, <2>5, <2>6 DEF OnePost
<1>10. LatestFits'
  BY <1>2, <1>3, <1>4, <1>5 DEF LatestFits, Slated
<1>11. MarksFit'
  <2>1. v6' # 0 /\ v7'[v6'] = p
    BY <1>3, <1>4
  <2>2. Creating!Owns(v3.owner) /\ v6 = 0 /\ MarksFit
    BY <1>3, <1>5 DEF CreationFits
  <2>3. v3'.phase \in {"creating", "starting"} \/ (v3'.phase = "created" /\ v1' = "evaluation")
        => what \in Starters
    BY <1>5, <2>2 DEF MarksFit, Starters, Acts
  <2>4. v3'.pending => what \in Acts
    BY <2>2 DEF MarksFit
  <2>5. v8'[v4'].made > 0 => v3'.id # 0 \/ v3'.phase = "create-unknown"
    <3>1. what = "submit" => v8[v4].made = 0
      BY DEF CreationFits, OnePost
    <3>2. v8[v4].made > 0 => v3.id # 0 \/ v3.phase = "create-unknown"
      BY <2>2 DEF MarksFit
    <3> QED
      BY <1>5, <3>1, <3>2 DEF Slated, Starters, Acts
  <2> QED
    BY <1>2, <2>1, <2>3, <2>4, <2>5 DEF MarksFit
<1> QED
  BY <1>5, <1>6, <1>7, <1>9, <1>10, <1>11 DEF CreationFits

LEMMA AskFits ==
  ASSUME DraftsAreGiven, CreationFits,
         \/ Creating!Submit
         \/ \E d \in Drafts : Creating!RetryStart(d) \/ \E what \in Acts : Creating!Act(d, what)
  PROVE  CreationFits'
<1>1. v3 \in Slates /\ v4 \in Drafts
  BY DEF CreationFits, CreationTyped
<1>2. CASE Creating!Submit
  <2>1. v3' = [v3 EXCEPT !.phase = "creating"]
    BY <1>2 DEF Creating!Submit
  <2>2. Slated(v3') /\ v3'.phase = "creating" /\ v3'.pending = v3.pending
    BY <1>1, <2>1 DEF Slated, Slates
  <2> QED
    BY <1>1, <1>2, <2>2, RunFits DEF Creating!Submit, Starters, Acts
<1>3. ASSUME NEW d \in Drafts, Creating!RetryStart(d) PROVE CreationFits'
  <2>1. v3' = [v3 EXCEPT !.phase = "created"]
    BY <1>3 DEF Creating!RetryStart
  <2>2. Slated(v3') /\ v3'.phase = "created" /\ v3'.pending = v3.pending
    BY <1>1, <2>1 DEF Slated, Slates
  <2> QED
    BY <1>3, <2>2, RunFits DEF Creating!RetryStart, Starters, Acts
<1>4. ASSUME NEW d \in Drafts, NEW what \in Acts, Creating!Act(d, what) PROVE CreationFits'
  <2>1. v3' = [v3 EXCEPT !.pending = TRUE]
    BY <1>4 DEF Creating!Act
  <2>2. Slated(v3') /\ v3'.phase = v3.phase /\ v3'.pending = TRUE
    BY <1>1, <2>1 DEF Slated, Slates
  <2> QED
    BY <1>4, <2>2, RunFits DEF Creating!Act, Starters, Acts
<1> QED
  BY <1>2, <1>3, <1>4

LEMMA LeaveFits ==
  ASSUME CreationFits, Creating!Leave
  PROVE  CreationFits'
<1>1. /\ v7' = [t \in Creating!Operations |-> [v7[t] EXCEPT !.left = Creating!IsAct(t)]]
      /\ UNCHANGED <<v1, v2, v3, v4, v5, v6, v8, v9>>
  BY DEF Creating!Leave, Creating!browserPart
<1>2. ASSUME NEW t \in Creating!Operations
      PROVE  /\ v7'[t] \in Promises /\ (v7'[t].left => v7'[t].what \in Acts)
             /\ v7'[t].what = v7[t].what /\ v7'[t].owner = v7[t].owner /\ v7'[t].pc = v7[t].pc
             /\ v7'[t].of = v7[t].of
  <2>1. PICK left : left = (v7[t].what \in Acts)
    OBVIOUS
  <2>2. v7'[t] = [v7[t] EXCEPT !.left = left]
    BY <1>1, <2>1 DEF Creating!IsAct, Acts
  <2>3. v7[t] \in Promises /\ left \in BOOLEAN
    BY <2>1 DEF CreationFits, CreationTyped
  <2> QED
    BY <2>1, <2>2, <2>3 DEF Promises
<1>3. v7' \in [Creating!Operations -> Promises]
  BY <1>1, <1>2
<1>4. CreationTyped'
  BY <1>1, <1>3 DEF CreationFits, CreationTyped
<1>5. PromisesFit'
  BY <1>1, <1>2 DEF CreationFits, PromisesFit, PromiseFits
<1>6. \A t \in Creating!Operations : Posts(t)' <=> Posts(t)
  BY <1>2 DEF Posts
<1>7. OnePost'
  BY <1>1, <1>2, <1>6 DEF CreationFits, OnePost
<1>8. LatestFits'
  BY <1>1, <1>2 DEF CreationFits, LatestFits
<1>9. MarksFit'
  <2>1. v6 # 0 => v6 \in Creating!Operations
    BY DEF CreationFits, CreationTyped, Creating!Operations
  <2> QED
    BY <1>1, <1>2, <2>1 DEF CreationFits, MarksFit, Creating!Owns
<1> QED
  BY <1>1, <1>4, <1>5, <1>7, <1>8, <1>9 DEF CreationFits

LEMMA ForgetFits ==
  ASSUME DraftsAreGiven, CreationFits, NEW o \in Nat, o <= v2, Creating!Forget(o)
  PROVE  CreationFits'
<1>1. /\ v4 + 1 \in Drafts /\ v4' = v4 + 1 /\ v5' = v5 + 1 /\ v6' = 0 /\ v5 < MaxOperations
      /\ v3' = Creating!Fresh(o) /\ UNCHANGED <<v1, v2, v7, v8, v9>>
      /\ v4 \in Nat /\ v5 \in 0 .. MaxOperations
  BY DEF Creating!Forget, CreationFits, CreationTyped
<1>2. /\ v3' \in Slates /\ v3'.owner = o /\ v3'.phase = "editing" /\ v3'.pending = FALSE
  BY <1>1 DEF Creating!Fresh, Slates
<1>3. CreationTyped'
  <2>1. v4' \in Nat /\ v5' \in 0 .. MaxOperations
    BY <1>1 DEF DraftsAreGiven
  <2> QED
    BY <1>1, <1>2, <2>1 DEF CreationFits, CreationTyped
<1>4. \A d : (d \in 1 .. v4 => d \in 1 .. v4') /\ (d \in 1 .. v5 => d \in 1 .. v5')
  BY <1>1
<1>5. PromisesFit'
  BY <1>1, <1>4 DEF CreationFits, PromisesFit, PromiseFits
<1>6. \A t \in Creating!Operations : (Posts(t)' <=> Posts(t)) /\ (Posts(t) => v7[t].of \in 1 .. v4)
  BY <1>1 DEF CreationFits, PromisesFit, PromiseFits, Posts
<1>7. v4' \notin 1 .. v4
  BY <1>1
<1>8. OnePost'
  <2>1. \A d \in Drafts : v8'[d].made <= 1 /\ (d \notin 1 .. v4' => v8'[d].made = 0)
    BY <1>1, <1>4 DEF CreationFits, OnePost
  <2>2. v8'[v4'].made = 0
    BY <1>1, <1>7 DEF CreationFits, OnePost
  <2>3. \A t \in Creating!Operations : Posts(t)' => v7'[t].of # v4'
    BY <1>1, <1>6, <1>7
  <2> QED
    BY <1>1, <1>6, <2>1, <2>2, <2>3 DEF CreationFits, OnePost
<1>9. LatestFits'
  <2>1. \A t \in Creating!Operations : v5' = t => v7'[t].what = "none"
    <3>1. v5 + 1 \notin 1 .. v5
      BY <1>1
    <3> QED
      BY <1>1, <3>1 DEF CreationFits, PromisesFit
  <2> QED
    BY <2>1 DEF LatestFits
<1>10. MarksFit'
  <2>1. v8'[v4'].made = 0
    BY <1>1, <1>7 DEF CreationFits, OnePost
  <2> QED
    BY <1>1, <1>2, <2>1 DEF MarksFit
<1> QED
  BY <1>1, <1>3, <1>5, <1>8, <1>9, <1>10 DEF CreationFits

LEMMA SwitchFits ==
  ASSUME CreationFits, Creating!Switch
  PROVE  CreationFits'
<1>1. v2' = v2 + 1 /\ UNCHANGED <<v1, v3, v4, v5, v6, v7, v8, v9>> /\ v2 \in Nat
      /\ v3.owner \in Nat /\ v3.owner <= v2
  BY DEF Creating!Switch, CreationFits, CreationTyped, Slates
<1>2. CreationTyped'
  BY <1>1 DEF CreationFits, CreationTyped
<1>3. PromisesFit' /\ LatestFits'
  BY <1>1 DEF CreationFits, PromisesFit, PromiseFits, LatestFits
<1>4. OnePost'
  BY <1>1 DEF CreationFits, OnePost, Posts
<1>5. v3'.owner # v2'
  BY <1>1
<1>6. MarksFit'
  BY <1>5 DEF MarksFit, Creating!Owns
<1> QED
  BY <1>1, <1>2, <1>3, <1>4, <1>6 DEF CreationFits

(* One promise goes on to an await, or ends.                               *)
GoesTo(t, pc) ==
  /\ v7' \in [Creating!Operations -> Promises]
  /\ \A u \in Creating!Operations :
       /\ v7'[u].what = v7[u].what /\ v7'[u].owner = v7[u].owner /\ v7'[u].of = v7[u].of
       /\ v7'[u].left = v7[u].left /\ v7'[u].pc = IF u = t THEN pc ELSE v7[u].pc

LEMMA GoesOn ==
  ASSUME CreationFits, NEW t \in Creating!Operations,
         NEW pc \in {"done", "queued", "create", "start", "read", "act"},
         v7' = [v7 EXCEPT ![t].pc = pc]
  PROVE  GoesTo(t, pc)
<1>1. v7 \in [Creating!Operations -> Promises]
  BY DEF CreationFits, CreationTyped
<1>2. PICK q : q = [v7[t] EXCEPT !.pc = pc]
  OBVIOUS
<1>3. /\ q \in Promises /\ q.what = v7[t].what /\ q.owner = v7[t].owner /\ q.of = v7[t].of
      /\ q.left = v7[t].left /\ q.pc = pc
  <2>1. v7[t] \in Promises
    BY <1>1
  <2> QED
    BY <1>2, <2>1 DEF Promises
<1>4. v7' = [v7 EXCEPT ![t] = q]
  BY <1>2
<1>5. \A u \in Creating!Operations : v7'[u] = IF u = t THEN q ELSE v7[u]
  BY <1>1, <1>4
<1> QED
  BY <1>1, <1>3, <1>4, <1>5 DEF GoesTo

LEMMA SendsIs ==
  ASSUME CreationFits, NEW t \in Creating!Operations, Creating!Current(t),
         NEW pc \in {"create", "start", "read", "act"}, Creating!Sends(t, pc)
  PROVE  GoesTo(t, pc) /\ v6' = v6 /\ v9' = {}
<1>1. v2 = v7[t].owner /\ v9 = {}
  BY DEF Creating!Current, Creating!Owns, CreationFits
<1> QED
  BY <1>1, GoesOn DEF Creating!Sends

LEMMA EndsIs ==
  ASSUME CreationFits, NEW t \in Creating!Operations, Creating!Ends(t)
  PROVE  GoesTo(t, "done") /\ v6' = (IF v5 = t THEN 0 ELSE v6) /\ v9' = {}
  BY GoesOn DEF Creating!Ends, CreationFits

LEMMA NoLongerIs ==
  ASSUME CreationFits, NEW t \in Creating!Operations
  PROVE  LET s == Creating!NoLonger(t)
         IN /\ Slated(s) /\ s.phase = v3.phase /\ (v5 # t => s = v3)
            /\ s.pending = IF Creating!Current(t) THEN FALSE ELSE v3.pending
<1>1. v3 \in Slates
  BY DEF CreationFits, CreationTyped
<1>2. PICK d : d = [v3 EXCEPT !.pending = FALSE]
  OBVIOUS
<1>3. Slated(d) /\ d.phase = v3.phase /\ d.pending = FALSE
  BY <1>1, <1>2 DEF Slated, Slates
<1>4. Slated(v3)
  BY <1>1 DEF Slated
<1>5. Creating!NoLonger(t) = IF Creating!Current(t) THEN d ELSE v3
  BY <1>2 DEF Creating!NoLonger
<1>6. Creating!Current(t) => v5 = t
  BY DEF Creating!Current
<1> QED
  BY <1>3, <1>4, <1>5, <1>6

LEMMA ExecutesIs ==
  ASSUME CreationFits, NEW d, NEW what \in Acts, Creating!Executes(d, what), d \in Drafts
  PROVE  v8' \in [Drafts -> Made] /\ \A e \in Drafts : v8'[e].made = v8[e].made
<1>1. v8 \in [Drafts -> Made]
  BY DEF CreationFits, CreationTyped
<1>2. PICK st : st \in {"started", "cancelled"} /\ (v8' = v8 \/ v8' = [v8 EXCEPT ![d].st = st])
  BY DEF Creating!Executes
<1>3. PICK m : m = [v8[d] EXCEPT !.st = st]
  OBVIOUS
<1>4. m \in Made /\ m.made = v8[d].made
  <2>1. v8[d] \in Made
    BY <1>1
  <2> QED
    BY <1>2, <1>3, <2>1 DEF Made
<1>5. v8' = v8 \/ v8' = [v8 EXCEPT ![d] = m]
  BY <1>2, <1>3
<1> QED
  BY <1>1, <1>4, <1>5

(* The latest operation that is no longer present leaves no mark to keep.  *)
LEMMA Overtaken ==
  ASSUME CreationFits, NEW t \in Creating!Operations, v7[t].pc # "done",
         v5 = t, ~Creating!Current(t)
  PROVE  ~Creating!Owns(v3.owner)
<1>1. v7[t].owner = v3.owner
  BY DEF CreationFits, PromisesFit, PromiseFits, LatestFits
<1> QED
  BY <1>1 DEF Creating!Current

LEMMA PromiseStepFits ==
  ASSUME DraftsAreGiven, CreationFits, NEW t \in Creating!Operations, v7[t].pc # "done",
         NEW pc \in {"done", "create", "start", "read", "act"}, GoesTo(t, pc),
         UNCHANGED <<v1, v2, v4, v5>>, v9' = {},
         v3' \in Slates, v3'.owner = v3.owner, v6' \in {0, v5}, v8' \in [Drafts -> Made],
         pc = "create" => /\ v7[t].what = "submit" /\ v7[t].pc \in {"queued", "create"}
                          /\ v5 = t /\ v6' = v6 /\ v3'.phase = v3.phase,
         pc = "start" => v7[t].what \in Starters,
         pc = "read" => v7[t].what \in {"retry"} \cup Acts,
         pc = "act" => v7[t].what \in Acts,
         \A d \in Drafts : \/ v8'[d].made = v8[d].made
                           \/ Posts(t) /\ d = v7[t].of /\ v8'[d].made = 1 /\ pc # "create",
         v5 # t => v3' = v3 /\ v6' = v6, pc # "done" => v6' = v6,
         v5 = t /\ v7[t].what \in Starters /\ pc \in {"read", "start"} => v3'.id # 0,
         v3'.phase = "editing" => v8'[v4].made = 0,
         v5 = t /\ Creating!Current(t) => MarksFit'
  PROVE  CreationFits'
<1>1. CreationTyped'
  BY DEF CreationFits, CreationTyped, GoesTo
<1>2. v7[t].what # "none"
  BY DEF CreationFits, PromisesFit, PromiseFits
<1>3. PromisesFit'
  <2> SUFFICES ASSUME NEW u \in Creating!Operations
               PROVE  PromiseFits(v7[u])' /\ (u \notin 1 .. v5' => v7'[u].what = "none")
    BY DEF PromisesFit
  <2>1. PromiseFits(v7[u]) /\ (u \notin 1 .. v5 => v7[u].what = "none")
    BY DEF CreationFits, PromisesFit
  <2>2. /\ v7'[u].what = v7[u].what /\ v7'[u].of = v7[u].of /\ v7'[u].left = v7[u].left
        /\ v7'[u].pc = IF u = t THEN pc ELSE v7[u].pc
    BY DEF GoesTo
  <2>3. CASE u = t
    BY <1>2, <2>1, <2>2, <2>3 DEF PromiseFits, Starters, Acts
  <2>4. CASE u # t
    BY <2>1, <2>2, <2>4 DEF PromiseFits
  <2> QED
    BY <2>3, <2>4
<1>4. \A u \in Creating!Operations :
        Posts(u)' => Posts(u) /\ v7'[u].of = v7[u].of /\ (u = t => pc = "create")
  BY DEF Posts, GoesTo
<1>5. OnePost'
  <2>1. \A u, w \in Creating!Operations : Posts(u)' /\ Posts(w)' /\ v7'[u].of = v7'[w].of => u = w
    BY <1>4 DEF CreationFits, OnePost
  <2>2. ASSUME NEW u \in Creating!Operations, Posts(u)' PROVE v8'[v7'[u].of].made = 0
    <3>1. Posts(u) /\ v8[v7[u].of].made = 0 /\ v7[u].of \in Drafts /\ v7'[u].of = v7[u].of
      BY <1>4, <2>2 DEF CreationFits, OnePost, PromisesFit, PromiseFits, Posts
    <3>2. Posts(t) /\ v7[u].of = v7[t].of => pc = "create"
      BY <1>4, <2>2, <3>1 DEF CreationFits, OnePost
    <3> QED
      BY <3>1, <3>2
  <2>3. ASSUME NEW u \in Creating!Operations, Posts(u)', v7'[u].of = v4'
        PROVE  v5' = u /\ v6' = u /\ v3'.phase = "creating"
    <3>1. Posts(u) /\ v5 = u /\ v6 = u /\ v3.phase = "creating"
      BY <1>4, <2>3 DEF CreationFits, OnePost
    <3> QED
      BY <1>4, <2>3, <3>1
  <2>4. ASSUME NEW d \in Drafts PROVE v8'[d].made <= 1 /\ (d \notin 1 .. v4' => v8'[d].made = 0)
    <3>1. v8[d].made <= 1 /\ (d \notin 1 .. v4 => v8[d].made = 0)
      BY DEF CreationFits, OnePost
    <3>2. Posts(t) => v7[t].of \in 1 .. v4
      BY DEF CreationFits, PromisesFit, PromiseFits, Posts
    <3> QED
      BY <3>1, <3>2
  <2> QED
    BY <2>1, <2>2, <2>3, <2>4 DEF OnePost
<1>6. LatestFits'
  <2> SUFFICES ASSUME NEW u \in Creating!Operations, v5 = u, v7[u].what # "none"
               PROVE  /\ v7'[u].owner = v3'.owner /\ (v7'[u].pc # "done" => v6' = u)
                      /\ v7'[u].what = "submit" => v7'[u].of = v4'
                      /\ v7'[u].what \in Starters /\ v7'[u].pc \in {"read", "start"} => v3'.id # 0
    BY DEF LatestFits, GoesTo
  <2>1. /\ v7[u].owner = v3.owner /\ (v7[u].pc # "done" => v6 = u)
        /\ v7[u].what = "submit" => v7[u].of = v4
        /\ v7[u].what \in Starters /\ v7[u].pc \in {"read", "start"} => v3.id # 0
    BY DEF CreationFits, LatestFits
  <2> QED
    BY <2>1 DEF GoesTo
<1>7. MarksFit'
  <2>1. CASE v5 # t
    <3>1. v6 # 0 => v6 \in Creating!Operations /\ v7'[v6].pc = v7[v6].pc /\ v7'[v6].what = v7[v6].what
      BY <2>1 DEF CreationFits, CreationTyped, GoesTo, Creating!Operations
    <3>2. v8'[v4].made = v8[v4].made
      BY <2>1 DEF CreationFits, CreationTyped, OnePost
    <3> QED
      BY <2>1, <3>1, <3>2 DEF CreationFits, MarksFit, Creating!Owns
  <2>2. CASE v5 = t /\ ~Creating!Current(t)
    BY <2>2, Overtaken DEF MarksFit, Creating!Owns
  <2> QED
    BY <2>1, <2>2
<1> QED
  BY <1>1, <1>3, <1>5, <1>6, <1>7 DEF CreationFits

(* What the lemma on one step of a promise asks for, where it is at once.  *)
LEMMA StoreStays ==
  ASSUME CreationFits
  PROVE  /\ v3 \in Slates /\ v6 \in {0, v5} /\ v8 \in [Drafts -> Made] /\ v4 \in Drafts /\ v9 = {}
         /\ v3.phase = "editing" => v8[v4].made = 0
  BY DEF CreationFits, CreationTyped, OnePost

(* The lock of the present operation is free after it ends: no mark stays. *)
LEMMA BeginFits ==
  ASSUME DraftsAreGiven, CreationFits, NEW t \in Creating!Operations, Creating!Begin(t)
  PROVE  CreationFits'
<1>1. v7[t].pc = "queued" /\ UNCHANGED <<v1, v2, v4, v5, v8>>
  BY DEF Creating!Begin
<1>2. PromiseFits(v7[t]) /\ v7[t].what \in Starters \cup Acts /\ v7[t] \in Promises
  BY <1>1 DEF CreationFits, CreationTyped, PromisesFit, PromiseFits, Promises
<1>3. CASE ~Creating!Current(t)
  <2>1. v7' = [v7 EXCEPT ![t].pc = "done"] /\ UNCHANGED <<v3, v6, v9>>
    BY <1>3 DEF Creating!Begin
  <2>2. GoesTo(t, "done")
    BY <2>1, GoesOn
  <2> QED
    BY <1>1, <1>3, <2>1, <2>2, StoreStays, PromiseStepFits
<1>4. CASE Creating!Current(t) /\ v7[t].left
  <2>1. Creating!Ends(t) /\ v3' = Creating!NoLonger(t)
    BY <1>4 DEF Creating!Begin
  <2>2. GoesTo(t, "done") /\ v5 = t /\ v6' = 0 /\ v9' = {}
    BY <1>4, <2>1, EndsIs DEF Creating!Current
  <2>3. Slated(v3') /\ v3'.phase = v3.phase /\ v3'.pending = FALSE
    BY <1>4, <2>1, NoLongerIs
  <2>4. v7[t].what \in Acts
    BY <1>2, <1>4 DEF PromiseFits
  <2>5. MarksFit'
    <3>1. Creating!Owns(v3.owner)
      BY <1>4, <1>1 DEF CreationFits, LatestFits, Creating!Current, PromisesFit, PromiseFits
    <3>2. ~(v3.phase \in {"creating", "starting"} \/ (v3.phase = "created" /\ v1 = "evaluation"))
      BY <2>2, <2>4, <3>1, <1>1 DEF CreationFits, CreationTyped, MarksFit, Acts, Starters
    <3>3. v8[v4].made > 0 => v3.id # 0 \/ v3.phase = "create-unknown"
      BY <3>1 DEF CreationFits, MarksFit
    <3> QED
      BY <1>1, <2>2, <2>3, <3>2, <3>3 DEF MarksFit, Slated
  <2> QED
    BY <1>1, <2>2, <2>3, <2>5, StoreStays, PromiseStepFits DEF Slated
<1>5. CASE Creating!Current(t) /\ ~v7[t].left
  <2> DEFINE pc == IF v7[t].what = "submit" THEN "create" ELSE "read"
  <2>1. /\ Creating!Sends(t, pc) /\ v5 = t
        /\ v3' = IF v7[t].what = "retry" THEN [v3 EXCEPT !.id = v7[t].of] ELSE v3
    BY <1>5 DEF Creating!Begin, Creating!Current
  <2>2. GoesTo(t, pc) /\ v6' = v6 /\ v9' = {}
    BY <1>5, <2>1, SendsIs
  <2>3. /\ v3' \in Slates /\ v3'.owner = v3.owner /\ v3'.phase = v3.phase
        /\ v3'.pending = v3.pending /\ v3'.id = IF v7[t].what = "retry" THEN v7[t].of ELSE v3.id
    BY <1>2, <2>1, StoreStays DEF Slates, Promises
  <2>4. v7[t].of # 0
    BY <1>2 DEF PromiseFits, DraftsAreGiven, Starters, Acts
  <2>5. MarksFit'
    <3>1. Creating!Owns(v3.owner) /\ MarksFit
      BY <1>5, <1>1 DEF CreationFits, LatestFits, Creating!Current, PromisesFit, PromiseFits
    <3>2. v6 # 0 => v6 = t
      BY <2>1 DEF CreationFits, CreationTyped
    <3>3. v7'[t].pc = pc /\ v7'[t].what = v7[t].what
      BY <2>2 DEF GoesTo
    <3> QED
      BY <1>1, <2>2, <2>3, <2>4, <3>1, <3>2, <3>3 DEF MarksFit
  <2>6. v7[t].what # "submit" => v7[t].what \in {"retry"} \cup Acts
    BY <1>2 DEF Starters
  <2>7. pc \in {"create", "read"} /\ (pc = "create" <=> v7[t].what = "submit")
    OBVIOUS
  <2>8. v5 = t /\ v7[t].what \in Starters /\ pc \in {"read", "start"} => v3'.id # 0
    BY <2>3, <2>4, <2>7 DEF Starters
  <2> HIDE DEF pc
  <2> QED
    BY <1>1, <2>1, <2>2, <2>3, <2>5, <2>6, <2>7, <2>8, StoreStays, PromiseStepFits
<1> QED
  BY <1>3, <1>4, <1>5

(* An answer to the present owner.                                         *)
LEMMA PresentOwns ==
  ASSUME CreationFits, NEW t \in Creating!Operations, v7[t].pc # "done", Creating!Current(t)
  PROVE  /\ Creating!Owns(v3.owner) /\ v5 = t /\ MarksFit /\ v6 = t
         /\ v7[t].what = "submit" => v7[t].of = v4
         /\ v7[t].what \in Starters /\ v7[t].pc \in {"read", "start"} => v3.id # 0
<1>1. v5 = t /\ v7[t].what # "none"
  BY DEF Creating!Current, CreationFits, PromisesFit, PromiseFits
<1> QED
  BY <1>1 DEF Creating!Current, CreationFits, CreationTyped, LatestFits

LEMMA CreatedFits ==
  ASSUME DraftsAreGiven, CreationFits, NEW t \in Creating!Operations, Creating!Created(t)
  PROVE  CreationFits'
<1>1. v7[t].pc = "create" /\ UNCHANGED <<v1, v2, v4, v5>>
  BY DEF Creating!Created
<1>2. /\ v7[t].what = "submit" /\ v7[t].of \in Drafts /\ Posts(t) /\ v8[v7[t].of].made = 0
      /\ v7[t].of # 0
  BY <1>1 DEF CreationFits, PromisesFit, PromiseFits, OnePost, Posts, DraftsAreGiven
<1>3. PICK answer \in {"ok", "refused", "lost"}, made \in BOOLEAN :
       /\ answer = "ok" => made
       /\ answer = "refused" => ~made
       /\ v8' = IF ~made THEN v8
                ELSE [v8 EXCEPT ![v7[t].of] = [made |-> @.made + 1, st |-> "created"]]
       /\ v3' = IF ~Creating!Current(t) THEN v3
                ELSE IF answer # "ok" THEN [v3 EXCEPT !.phase = Creating!AfterFailure(answer)]
                ELSE [v3 EXCEPT !.id = v7[t].of,
                           !.phase = IF v1 = "evaluation" THEN "starting" ELSE "created"]
       /\ IF answer = "ok" /\ v1 = "evaluation" /\ Creating!MayStart(t)
          THEN Creating!Sends(t, "start") ELSE Creating!Ends(t)
  BY DEF Creating!Created
<1>4. /\ v8' \in [Drafts -> Made]
      /\ \A d \in Drafts : v8'[d].made = IF made /\ d = v7[t].of THEN 1 ELSE v8[d].made
  <2>1. PICK m : m = [made |-> v8[v7[t].of].made + 1, st |-> "created"]
    OBVIOUS
  <2>2. m \in Made /\ m.made = 1
    BY <1>2, <2>1 DEF Made
  <2>3. v8' = IF ~made THEN v8 ELSE [v8 EXCEPT ![v7[t].of] = m]
    BY <1>3, <2>1
  <2> QED
    BY <1>2, <2>2, <2>3, StoreStays
<1>5. CASE ~Creating!Current(t)
  <2>1. Creating!Ends(t) /\ v3' = v3
    BY <1>3, <1>5 DEF Creating!MayStart
  <2>2. GoesTo(t, "done") /\ v6' = (IF v5 = t THEN 0 ELSE v6) /\ v9' = {}
    BY <2>1, EndsIs
  <2>3. v3.phase = "editing" => v8'[v4].made = 0
    BY <1>2, <1>4, StoreStays DEF CreationFits, OnePost
  <2> QED
    BY <1>1, <1>2, <1>4, <1>5, <2>1, <2>2, <2>3, StoreStays, PromiseStepFits
<1>6. CASE Creating!Current(t)
  <2>1. /\ Creating!Owns(v3.owner) /\ v5 = t /\ MarksFit /\ v6 = t /\ v7[t].of = v4
        /\ v3.phase = "creating"
    BY <1>1, <1>2, <1>6, PresentOwns DEF CreationFits, OnePost
  <2>2. v3.pending = FALSE /\ v6 # 0
    BY <2>1, <1>2, StoreStays DEF MarksFit, Acts, Creating!Operations, Slates
  <2>3. CASE answer # "ok"
    <3>1. Creating!Ends(t) /\ v3' = [v3 EXCEPT !.phase = Creating!AfterFailure(answer)]
      BY <1>3, <1>6, <2>3
    <3>2. GoesTo(t, "done") /\ v6' = 0 /\ v9' = {}
      BY <2>1, <3>1, EndsIs
    <3>3. /\ v3' \in Slates /\ v3'.owner = v3.owner /\ v3'.pending = FALSE
          /\ v3'.phase = IF answer = "refused" THEN "editing" ELSE "create-unknown"
      BY <2>2, <2>3, <3>1, StoreStays DEF Slates, Creating!AfterFailure
    <3>4. v3'.phase = "editing" => v8'[v4].made = 0
      BY <1>2, <1>3, <1>4, <2>1, <3>3
    <3>5. MarksFit'
      BY <1>1, <3>2, <3>3, <3>4, StoreStays DEF MarksFit
    <3> QED
      BY <1>1, <1>2, <1>4, <2>1, <3>2, <3>3, <3>4, <3>5, StoreStays, PromiseStepFits
  <2>4. CASE answer = "ok"
    <3>1. /\ v3' \in Slates /\ v3'.owner = v3.owner /\ v3'.pending = FALSE /\ v3'.id = v4
          /\ v3'.phase = IF v1 = "evaluation" THEN "starting" ELSE "created"
      BY <1>2, <1>3, <1>6, <2>1, <2>2, <2>4, StoreStays DEF Slates
    <3>2. CASE v1 = "evaluation"
      <4>1. Creating!Sends(t, "start")
        BY <1>3, <1>6, <2>4, <3>2 DEF Creating!MayStart
      <4>2. GoesTo(t, "start") /\ v6' = v6 /\ v9' = {}
        BY <1>6, <4>1, SendsIs
      <4>3. MarksFit'
        BY <1>2, <2>1, <3>1, <4>2 DEF MarksFit, GoesTo, Starters
      <4>4. v7[t].what \in Starters
        BY <1>2 DEF Starters
      <4> QED
        BY <1>1, <1>2, <1>4, <2>1, <2>2, <3>1, <3>2, <4>2, <4>3, <4>4, StoreStays, PromiseStepFits
    <3>3. CASE v1 # "evaluation"
      <4>1. Creating!Ends(t)
        BY <1>3, <3>3
      <4>2. GoesTo(t, "done") /\ v6' = 0 /\ v9' = {}
        BY <2>1, <4>1, EndsIs
      <4>3. MarksFit'
        BY <1>1, <1>2, <2>1, <3>1, <3>3, <4>2 DEF MarksFit
      <4> QED
        BY <1>1, <1>2, <1>4, <2>1, <3>1, <3>3, <4>2, <4>3, StoreStays, PromiseStepFits
    <3> QED
      BY <3>2, <3>3
  <2> QED
    BY <2>3, <2>4
<1> QED
  BY <1>5, <1>6

LEMMA StartedFits ==
  ASSUME DraftsAreGiven, CreationFits, NEW t \in Creating!Operations, Creating!Started(t)
  PROVE  CreationFits'
<1>1. v7[t].pc = "start" /\ UNCHANGED <<v1, v2, v4, v5>> /\ Creating!Ends(t)
  BY DEF Creating!Started
<1>2. v7[t].what \in Starters /\ v7[t].of \in Drafts
  BY <1>1 DEF CreationFits, PromisesFit, PromiseFits, Starters
<1>3. PICK phase \in {"queued", "start-error"} :
        v3' = IF Creating!Current(t) THEN [v3 EXCEPT !.phase = phase] ELSE v3
  BY DEF Creating!Started
<1>4. v8' \in [Drafts -> Made] /\ \A d \in Drafts : v8'[d].made = v8[d].made
  BY <1>2, StoreStays, ExecutesIs DEF Creating!Started, Acts
<1>5. GoesTo(t, "done") /\ v6' = (IF v5 = t THEN 0 ELSE v6) /\ v9' = {}
  BY <1>1, EndsIs
<1>6. Creating!Current(t) => v5 = t
  BY DEF Creating!Current
<1>7. /\ v3' \in Slates /\ v3'.owner = v3.owner /\ v3'.pending = v3.pending /\ v3'.id = v3.id
      /\ v3'.phase = IF Creating!Current(t) THEN phase ELSE v3.phase
      /\ v5 # t => v3' = v3
  BY <1>3, <1>6, StoreStays DEF Slates
<1>8. ASSUME Creating!Current(t) PROVE MarksFit'
  <2>1. /\ Creating!Owns(v3.owner) /\ v5 = t /\ MarksFit /\ v6 = t /\ v3.id # 0
    BY <1>1, <1>2, <1>8, PresentOwns
  <2>2. v3.pending = FALSE
    BY <2>1, <1>2, StoreStays DEF MarksFit, Acts, Starters, Slates
  <2> QED
    BY <1>1, <1>5, <1>7, <1>8, <2>1, <2>2 DEF MarksFit
<1>9. v3'.phase = "editing" => v8'[v4].made = 0
  BY <1>3, <1>4, <1>7, StoreStays
<1> QED
  BY <1>1, <1>4, <1>5, <1>7, <1>8, <1>9, StoreStays, PromiseStepFits

LEMMA RetriedFits ==
  ASSUME DraftsAreGiven, CreationFits, NEW t \in Creating!Operations, Creating!Retried(t)
  PROVE  CreationFits'
<1>1. v7[t].pc = "read" /\ v7[t].what = "retry" /\ UNCHANGED <<v1, v2, v4, v5, v8>>
  BY DEF Creating!Retried
<1>2. PICK starts \in BOOLEAN, phase \in {"queued", "start-error"} :
        /\ starts => Creating!Current(t)
        /\ IF starts THEN Creating!Sends(t, "start") ELSE Creating!Ends(t)
        /\ v3' = IF ~Creating!Current(t) THEN v3
                 ELSE [v3 EXCEPT !.phase = IF starts THEN "starting" ELSE phase]
  <2>1. PICK ok \in BOOLEAN :
        LET starts == ok /\ Creating!Can(v7[t].of, "start") /\ Creating!Current(t)
        IN /\ IF starts THEN Creating!Sends(t, "start") ELSE Creating!Ends(t)
           /\ v3' = IF ~Creating!Current(t) THEN v3
                      ELSE [v3 EXCEPT !.phase = IF starts THEN "starting"
                                                ELSE IF ok THEN "queued" ELSE "start-error"]
    BY DEF Creating!Retried
  <2>2. CASE ok /\ Creating!Can(v7[t].of, "start") /\ Creating!Current(t)
    BY <2>1, <2>2
  <2>3. CASE ~(ok /\ Creating!Can(v7[t].of, "start") /\ Creating!Current(t))
    <3>1. /\ Creating!Ends(t)
          /\ v3' = IF ~Creating!Current(t) THEN v3
                      ELSE [v3 EXCEPT !.phase = IF ok THEN "queued" ELSE "start-error"]
      BY <2>1, <2>3
    <3> QED
      BY <3>1
  <2> QED
    BY <2>2, <2>3
<1>3. Creating!Current(t) => v5 = t
  BY DEF Creating!Current
<1>4. /\ v3' \in Slates /\ v3'.owner = v3.owner /\ v3'.pending = v3.pending /\ v3'.id = v3.id
      /\ v3'.phase = IF ~Creating!Current(t) THEN v3.phase
                     ELSE IF starts THEN "starting" ELSE phase
      /\ v5 # t => v3' = v3
  BY <1>2, <1>3, StoreStays DEF Slates
<1>5. v3'.phase = "editing" => v8'[v4].made = 0
  BY <1>1, <1>2, <1>4, StoreStays
<1>6. ASSUME Creating!Current(t)
      PROVE  /\ Creating!Owns(v3.owner) /\ v5 = t /\ MarksFit /\ v6 = t
             /\ v3.id # 0 /\ v3.pending = FALSE
  <2>1. /\ Creating!Owns(v3.owner) /\ v5 = t /\ MarksFit /\ v6 = t /\ v3.id # 0
    BY <1>1, <1>6, PresentOwns DEF Starters
  <2> QED
    BY <2>1, <1>1, StoreStays DEF MarksFit, Acts, Slates
<1>7. CASE starts
  <2>1. GoesTo(t, "start") /\ v6' = v6 /\ v9' = {}
    BY <1>2, <1>7, SendsIs
  <2>2. v6 = t /\ v6 # 0
    BY <1>2, <1>6, <1>7 DEF Creating!Operations
  <2>3. MarksFit'
    BY <1>1, <1>2, <1>4, <1>6, <1>7, <2>1, <2>2 DEF MarksFit, GoesTo, Starters
  <2> QED
    BY <1>1, <1>2, <1>4, <1>5, <1>6, <1>7, <2>1, <2>3, StoreStays, PromiseStepFits DEF Starters
<1>8. CASE ~starts
  <2>1. GoesTo(t, "done") /\ v6' = (IF v5 = t THEN 0 ELSE v6) /\ v9' = {}
    BY <1>2, <1>8, EndsIs
  <2>2. Creating!Current(t) => MarksFit'
    BY <1>1, <1>2, <1>4, <1>6, <1>8, <2>1 DEF MarksFit
  <2> QED
    BY <1>1, <1>4, <1>5, <2>1, <2>2, StoreStays, PromiseStepFits
<1> QED
  BY <1>7, <1>8

(* The end of act: the mark it set is taken back, by the present operation *)
(* only.                                                                   *)
LEMMA ActEnds ==
  ASSUME DraftsAreGiven, CreationFits, NEW t \in Creating!Operations, v7[t].pc # "done",
         v7[t].what \in Acts, Creating!Ends(t), v3' = Creating!NoLonger(t),
         UNCHANGED <<v1, v2, v4, v5>>, v8' \in [Drafts -> Made],
         \A d \in Drafts : v8'[d].made = v8[d].made
  PROVE  CreationFits'
<1>1. GoesTo(t, "done") /\ v6' = (IF v5 = t THEN 0 ELSE v6) /\ v9' = {}
  BY EndsIs
<1>2. /\ Slated(v3') /\ v3'.phase = v3.phase /\ (v5 # t => v3' = v3)
      /\ v3'.pending = IF Creating!Current(t) THEN FALSE ELSE v3.pending
  BY NoLongerIs
<1>3. ASSUME Creating!Current(t) PROVE MarksFit'
  <2>1. Creating!Owns(v3.owner) /\ v5 = t /\ MarksFit /\ v6 = t
    BY <1>3, PresentOwns
  <2>2. ~(v3.phase \in {"creating", "starting"} \/ (v3.phase = "created" /\ v1 = "evaluation"))
    BY <2>1 DEF MarksFit, Acts, Starters
  <2>3. v8[v4].made > 0 => v3.id # 0 \/ v3.phase = "create-unknown"
    BY <2>1 DEF MarksFit
  <2> QED
    BY <1>1, <1>2, <1>3, <2>1, <2>2, <2>3, StoreStays DEF MarksFit, Slated
<1> QED
  BY <1>1, <1>2, <1>3, StoreStays, PromiseStepFits DEF Slated

LEMMA CheckedFits ==
  ASSUME DraftsAreGiven, CreationFits, NEW t \in Creating!Operations, Creating!Checked(t)
  PROVE  CreationFits'
<1>1. v7[t].pc = "read" /\ v7[t].what \in Acts /\ UNCHANGED <<v1, v2, v4, v5, v8>>
  BY DEF Creating!Checked, Creating!IsAct, Acts
<1>2. CASE Creating!Current(t) /\ Creating!Sends(t, "act") /\ v3' = v3
  <2>1. GoesTo(t, "act") /\ v6' = v6 /\ v9' = {}
    BY <1>2, SendsIs
  <2>2. Creating!Owns(v3.owner) /\ v5 = t /\ MarksFit /\ v6 = t /\ t # 0
    BY <1>1, <1>2, PresentOwns DEF Creating!Operations
  <2>3. MarksFit'
    BY <1>1, <1>2, <2>1, <2>2 DEF MarksFit, GoesTo
  <2> QED
    BY <1>1, <1>2, <2>1, <2>2, <2>3, StoreStays, PromiseStepFits DEF Starters, Acts
<1>3. CASE Creating!Ends(t) /\ v3' = Creating!NoLonger(t)
  BY <1>1, <1>3, StoreStays, ActEnds
<1> QED
  BY <1>2, <1>3 DEF Creating!Checked

LEMMA ActedFits ==
  ASSUME DraftsAreGiven, CreationFits, NEW t \in Creating!Operations, Creating!Acted(t)
  PROVE  CreationFits'
<1>1. v7[t].pc = "act" /\ Creating!Ends(t) /\ v3' = Creating!NoLonger(t)
      /\ UNCHANGED <<v1, v2, v4, v5>>
  BY DEF Creating!Acted
<1>2. v7[t].what \in Acts /\ v7[t].of \in Drafts
  BY <1>1 DEF CreationFits, PromisesFit, PromiseFits, Acts
<1>3. v8' \in [Drafts -> Made] /\ \A d \in Drafts : v8'[d].made = v8[d].made
  BY <1>2, StoreStays, ExecutesIs DEF Creating!Acted
<1> QED
  BY <1>1, <1>2, <1>3, ActEnds

LEMMA CreationKeepsFit ==
  ASSUME DraftsAreGiven, CreationFine, [Next]_allVars, part = "creation"
  PROVE  CreationFits'
<1>1. CreationFits
  BY DEF CreationFine
<1>2. \/ Creating!Submit \/ Creating!Leave \/ Creating!Reset \/ Creating!Switch \/ Creating!Remount
      \/ UNCHANGED <<v1, v2, v3, v4, v5, v6, v7, v8, v9>>
      \/ \E d \in Drafts : Creating!RetryStart(d) \/ \E what \in Acts : Creating!Act(d, what)
      \/ \E t \in Creating!Operations :
           \/ Creating!Begin(t) \/ Creating!Created(t) \/ Creating!Started(t)
           \/ Creating!Retried(t) \/ Creating!Checked(t) \/ Creating!Acted(t)
  BY CreationActs DEF Creating!Next, Acts
<1>3. v2 \in Nat /\ v3.owner \in Nat /\ v3.owner <= v2
  BY <1>1 DEF CreationFits, CreationTyped, Slates
<1>4. CASE Creating!Reset \/ Creating!Remount
  BY <1>1, <1>3, <1>4, ForgetFits DEF Creating!Reset, Creating!Remount
<1>5. CASE UNCHANGED <<v1, v2, v3, v4, v5, v6, v7, v8, v9>>
  <2>1. CreationTyped' /\ PromisesFit' /\ LatestFits'
    BY <1>1, <1>5 DEF CreationFits, CreationTyped, PromisesFit, PromiseFits, LatestFits
  <2>2. OnePost' /\ MarksFit'
    BY <1>1, <1>5 DEF CreationFits, OnePost, Posts, MarksFit, Creating!Owns
  <2> QED
    BY <1>1, <1>5, <2>1, <2>2 DEF CreationFits
<1>6. ASSUME NEW t \in Creating!Operations,
             \/ Creating!Begin(t) \/ Creating!Created(t) \/ Creating!Started(t)
             \/ Creating!Retried(t) \/ Creating!Checked(t) \/ Creating!Acted(t)
      PROVE  CreationFits'
  BY <1>1, <1>6, BeginFits, CreatedFits, StartedFits, RetriedFits, CheckedFits, ActedFits
<1> QED
  BY <1>1, <1>2, <1>4, <1>5, <1>6, AskFits, LeaveFits, SwitchFits

LEMMA CreationGives ==
  ASSUME DraftsAreGiven, CreationFits
  PROVE  Creating!CreatedOnce /\ Creating!NotForgotten /\ Creating!NeverStuck
<1>1. Creating!CreatedOnce
  BY DEF Creating!CreatedOnce, CreationFits, OnePost
<1>2. Creating!NotForgotten /\ Creating!NeverStuck
  BY DEF Creating!NotForgotten, Creating!NeverStuck, CreationFits, CreationTyped, MarksFit
<1> QED
  BY <1>1, <1>2

LEMMA CreationFineAlways == ASSUME DraftsAreGiven PROVE Spec => []CreationFine
<1>1. Init => CreationFine
  BY CreationStarts DEF Init, CreationFine
<1>2. CreationFine /\ [Next]_allVars => CreationFine'
  <2>1. [Next]_allVars => part' = part
    BY DEF Next, allVars
  <2> QED
    BY <2>1, CreationKeepsFit DEF CreationFine
<1> QED
  BY <1>1, <1>2, PTL DEF Spec

---------------------------------------------------------------------------
(* The page of one evaluation *)

ReadsAreGiven == MaxReads \in Nat

Loads    == [load : Nat, attempt : Nat]
Contents == Detail!Statuses \cup {Detail!Nothing}
Reads    == [load : Nat, attempt : Nat, flying : BOOLEAN, aborted : BOOLEAN, since : Nat]
DetailTyped ==
  /\ v2 \in Loads /\ v3 \in Loads /\ v4 \in 0 .. MaxReads /\ v5 \in [1 .. MaxReads -> Reads]
  /\ v6 \in [load : Nat, attempt : Nat, data : Contents, since : Nat] /\ v7 \in Loads
  /\ v8 \in [load : Nat, data : Contents, forbidden : BOOLEAN, since : Nat] /\ v9 \in Nat

(* A read that will be heard is for the render that began it last, and on  *)
(* the page of results it began after the last rejection.                  *)
WillBeHeard(r) == v5[r].flying /\ Detail!Hears(r)
ReadsFit ==
  \A r \in 1 .. MaxReads :
    /\ r > v4 => ~v5[r].flying
    /\ WillBeHeard(r) => /\ v5[r].load = v3.load /\ v5[r].attempt = v3.attempt
                         /\ v1 = "result" => v5[r].since = v9

(* The last render that began a read is answered, or that read is heard.   *)
RenderIsServed ==
  \/ v6.load = v3.load /\ v6.attempt = v3.attempt
  \/ \E r \in 1 .. MaxReads : WillBeHeard(r)

(* The observer of the page of results is for the same render.             *)
WatchFits ==
  v1 = "result" /\ v7 # Detail!NoWatch => v7.load = v3.load /\ v7.attempt = v3.attempt + 1

(* What is kept on the page of results came after the last rejection.      *)
KeptIsAllowed ==
  v1 = "result" => /\ v6.data # Detail!Nothing => v6.since = v9
                   /\ v8.data # Detail!Nothing => v8.since = v9

DetailFits == DetailTyped /\ ReadsFit /\ RenderIsServed /\ WatchFits /\ KeptIsAllowed
DetailFine == part = "detail" => DetailFits

LEMMA DetailActs ==
  ASSUME part = "detail", [Next]_allVars
  PROVE  Detail!Next \/ UNCHANGED <<v1, v2, v3, v4, v5, v6, v7, v8, v9>>
  BY DEF Next, allVars

LEMMA DetailStarts ==
  ASSUME ReadsAreGiven, Detail!Init
  PROVE  DetailFits
<1>1. DetailTyped
  BY DEF Detail!Init, Detail!Unread, Detail!NoWatch, Detail!Nothing, DetailTyped, ReadsAreGiven, Loads, Reads,
     Contents
<1>2. ReadsFit
  BY DEF Detail!Init, Detail!Unread, ReadsFit, WillBeHeard
<1>3. RenderIsServed /\ WatchFits /\ KeptIsAllowed
  BY DEF Detail!Init, RenderIsServed, WatchFits, KeptIsAllowed
<1> QED
  BY <1>1, <1>2, <1>3 DEF DetailFits

(* The page asks for another load.                                         *)
LEMMA WantFits ==
  ASSUME DetailFits, v2' \in Loads, UNCHANGED <<v1, v3, v4, v5, v6, v7, v8, v9>>
  PROVE  DetailFits'
<1>1. DetailTyped' /\ WatchFits' /\ KeptIsAllowed'
  BY DEF DetailFits, DetailTyped, WatchFits, KeptIsAllowed
<1>2. ReadsFit' /\ RenderIsServed'
  BY DEF DetailFits, ReadsFit, RenderIsServed, WillBeHeard, Detail!Hears
<1> QED
  BY <1>1, <1>2 DEF DetailFits

LEMMA AsksFit ==
  ASSUME DetailFits, Detail!Turn \/ Detail!Reload
  PROVE  DetailFits'
<1>1. v2 \in Loads
  BY DEF DetailFits, DetailTyped
<1>2. v2' = [v2 EXCEPT !.load = @ + 1] \/ v2' = [v2 EXCEPT !.attempt = @ + 1]
  BY DEF Detail!Turn, Detail!Reload
<1>3. v2' \in Loads
  BY <1>1, <1>2 DEF Loads
<1> QED
  BY <1>3, WantFits DEF Detail!Turn, Detail!Reload

LEMMA EffectsFit ==
  ASSUME ReadsAreGiven, DetailFits, Detail!Effects
  PROVE  DetailFits'
<1>1. v3' = v2 /\ v7' = Detail!WatchWanted /\ UNCHANGED <<v1, v2, v6, v8, v9>> /\ v2 \in Loads
      /\ v4 \in 0 .. MaxReads /\ v5 \in [1 .. MaxReads -> Reads] /\ v9 \in Nat
  BY DEF Detail!Effects, DetailFits, DetailTyped
<1>2. v7' \in Loads /\ (v1 = "result" /\ v7' # Detail!NoWatch => v7'.load = v2.load /\ v7'.attempt = v2.attempt + 1)
  BY <1>1 DEF Detail!WatchWanted, Detail!NoWatch, Loads
<1>3. WatchFits' /\ KeptIsAllowed'
  BY <1>1, <1>2 DEF DetailFits, WatchFits, KeptIsAllowed, Detail!NoWatch
<1>4. CASE v3 = v2
  <2>1. UNCHANGED <<v3, v4, v5>>
    BY <1>1, <1>4 DEF Detail!Effects
  <2>2. DetailTyped'
    BY <1>1, <1>2, <2>1 DEF DetailFits, DetailTyped
  <2>3. ReadsFit' /\ RenderIsServed'
    BY <1>1, <2>1 DEF DetailFits, ReadsFit, RenderIsServed, WillBeHeard, Detail!Hears
  <2> QED
    BY <1>3, <2>2, <2>3 DEF DetailFits
<1>5. CASE v3 # v2
  <2>0. PICK g : g = v4 + 1
    OBVIOUS
  <2> DEFINE q == [load |-> v2.load, attempt |-> v2.attempt, flying |-> TRUE, aborted |-> FALSE,
                   since |-> v9]
  <2>1. /\ v4' = g /\ g \in 1 .. MaxReads
        /\ v5' = [r \in 1 .. MaxReads |-> IF r = g THEN q ELSE [v5[r] EXCEPT !.aborted = TRUE]]
    BY <1>1, <1>5, <2>0 DEF Detail!Effects, ReadsAreGiven
  <2>2. q \in Reads /\ q.load = v2.load /\ q.attempt = v2.attempt /\ q.flying = TRUE
        /\ q.aborted = FALSE /\ q.since = v9
    BY <1>1 DEF Reads, Loads
  <2> HIDE DEF q
  <2>3. ASSUME NEW r \in 1 .. MaxReads, r # g
        PROVE  v5'[r] \in Reads /\ v5'[r].aborted = TRUE /\ v5'[r].flying = v5[r].flying
    <3>1. v5'[r] = [v5[r] EXCEPT !.aborted = TRUE] /\ v5[r] \in Reads
      BY <1>1, <2>1, <2>3
    <3> QED
      BY <3>1 DEF Reads
  <2>4. v5'[g] = q
    BY <2>1
  <2>5. DetailTyped'
    <3>1. v5' \in [1 .. MaxReads -> Reads]
      BY <2>1, <2>2, <2>3, <2>4
    <3>2. v4' \in 0 .. MaxReads
      BY <2>1
    <3> QED
      BY <1>1, <1>2, <3>1, <3>2 DEF DetailFits, DetailTyped
  <2>6. ReadsFit'
    <3> SUFFICES ASSUME NEW r \in 1 .. MaxReads
                 PROVE  /\ r > v4' => ~v5'[r].flying
                        /\ WillBeHeard(r)' => /\ v5'[r].load = v3'.load /\ v5'[r].attempt = v3'.attempt
                                              /\ v1' = "result" => v5'[r].since = v9'
      BY DEF ReadsFit
    <3>1. CASE r = g
      BY <1>1, <2>1, <2>2, <2>4, <3>1
    <3>2. CASE r # g
      <4>1. r > g => r > v4
        BY <1>1, <2>0
      <4>2. r > v4 => ~v5[r].flying
        BY DEF DetailFits, ReadsFit
      <4> QED
        BY <2>1, <2>3, <3>2, <4>1, <4>2 DEF WillBeHeard, Detail!Hears
    <3> QED
      BY <3>1, <3>2
  <2>7. RenderIsServed'
    <3>1. WillBeHeard(g)'
      BY <2>1, <2>2, <2>4 DEF WillBeHeard, Detail!Hears
    <3> QED
      BY <2>1, <3>1 DEF RenderIsServed
  <2> QED
    BY <1>3, <2>5, <2>6, <2>7 DEF DetailFits
<1> QED
  BY <1>4, <1>5

(* The answer of a read: what it leaves on the page is for the render, if  *)
(* it is heard.                                                            *)
LEMMA ReadFits ==
  ASSUME DetailFits, NEW r \in 1 .. MaxReads, v5[r].flying, v5' = [v5 EXCEPT ![r].flying = FALSE],
         UNCHANGED <<v1, v2, v3, v4, v7, v8, v9>>,
         v6' \in [load : Nat, attempt : Nat, data : Contents, since : Nat],
         ~Detail!Hears(r) => v6' = v6,
         Detail!Hears(r) => /\ v6'.load = v5[r].load /\ v6'.attempt = v5[r].attempt
                            /\ v6'.data # Detail!Nothing =>
                                 v6'.since = v5[r].since \/ (v6'.data = v6.data /\ v6'.since = v6.since)
  PROVE  DetailFits'
<1>1. PICK q : q = [v5[r] EXCEPT !.flying = FALSE]
  OBVIOUS
<1>2. v5 \in [1 .. MaxReads -> Reads] /\ v5' = [v5 EXCEPT ![r] = q]
  BY <1>1 DEF DetailFits, DetailTyped
<1>3. q \in Reads /\ ~q.flying
  BY <1>1, <1>2 DEF Reads
<1>4. v5' \in [1 .. MaxReads -> Reads] /\ \A s \in 1 .. MaxReads : v5'[s] = IF s = r THEN q ELSE v5[s]
  BY <1>2, <1>3
<1>5. DetailTyped'
  BY <1>4 DEF DetailFits, DetailTyped
<1>6. \A s \in 1 .. MaxReads : WillBeHeard(s)' <=> s # r /\ WillBeHeard(s)
  BY <1>3, <1>4 DEF WillBeHeard, Detail!Hears
<1>7. ReadsFit'
  BY <1>3, <1>4, <1>6 DEF DetailFits, ReadsFit
<1>8. Detail!Hears(r) => WillBeHeard(r)
  BY DEF WillBeHeard
<1>9. RenderIsServed'
  <2>1. CASE Detail!Hears(r)
    BY <1>8, <2>1 DEF DetailFits, ReadsFit, RenderIsServed
  <2>2. CASE ~Detail!Hears(r)
    BY <1>6, <2>2 DEF DetailFits, RenderIsServed, WillBeHeard
  <2> QED
    BY <2>1, <2>2
<1>10. WatchFits'
  BY DEF DetailFits, WatchFits
<1>11. KeptIsAllowed'
  BY <1>8 DEF DetailFits, KeptIsAllowed, ReadsFit
<1> QED
  BY <1>5, <1>7, <1>9, <1>10, <1>11 DEF DetailFits

LEMMA AnswersFit ==
  ASSUME DetailFits, NEW r \in 1 .. MaxReads, Detail!Answered(r) \/ Detail!Failed(r)
  PROVE  DetailFits'
<1>1. v5[r] \in Reads /\ v6 \in [load : Nat, attempt : Nat, data : Contents, since : Nat]
  BY DEF DetailFits, DetailTyped
<1>2. /\ v5[r].flying /\ v5' = [v5 EXCEPT ![r].flying = FALSE]
      /\ UNCHANGED <<v1, v2, v3, v4, v7, v8, v9>>
      /\ ~Detail!Hears(r) => v6' = v6
      /\ Detail!Hears(r) => \E data \in Contents, since \in {v5[r].since, v6.since} :
           /\ v6' = [load |-> v5[r].load, attempt |-> v5[r].attempt, data |-> data, since |-> since]
           /\ data # Detail!Nothing => since = v5[r].since \/ (data = v6.data /\ since = v6.since)
  <2>1. CASE Detail!Answered(r)
    BY <1>1, <2>1 DEF Detail!Answered, Contents
  <2>2. CASE Detail!Failed(r)
    <3>1. PICK denied \in BOOLEAN :
            v6' = IF ~Detail!Hears(r) THEN v6
               ELSE [load |-> v5[r].load, attempt |-> v5[r].attempt, since |-> v6.since,
                     data |-> IF ~denied /\ v6.load = v5[r].load THEN v6.data ELSE Detail!Nothing]
      BY <2>2 DEF Detail!Failed
    <3>2. (IF ~denied /\ v6.load = v5[r].load THEN v6.data ELSE Detail!Nothing) \in Contents
      BY <1>1 DEF Contents
    <3> QED
      BY <2>2, <3>1, <3>2 DEF Detail!Failed
  <2> QED
    BY <2>1, <2>2
<1>3. v6' \in [load : Nat, attempt : Nat, data : Contents, since : Nat]
  BY <1>1, <1>2 DEF Reads
<1>4. Detail!Hears(r) => /\ v6'.load = v5[r].load /\ v6'.attempt = v5[r].attempt
                         /\ v6'.data # Detail!Nothing =>
                              v6'.since = v5[r].since \/ (v6'.data = v6.data /\ v6'.since = v6.since)
  BY <1>2
<1> QED
  BY <1>2, <1>3, <1>4, ReadFits

(* The observer reports.                                                   *)
LEMMA SnapshotFits ==
  ASSUME DetailFits, Detail!Snapshot
  PROVE  DetailFits'
<1>1. PICK data \in Detail!Statuses :
        v8' = [load |-> v7.load, data |-> data, forbidden |-> FALSE, since |-> v9]
  BY DEF Detail!Snapshot
<1>2. UNCHANGED <<v1, v2, v3, v4, v5, v6, v7, v9>> /\ v7 \in Loads /\ v9 \in Nat
  BY DEF Detail!Snapshot, DetailFits, DetailTyped
<1>3. DetailTyped'
  BY <1>1, <1>2 DEF DetailFits, DetailTyped, Contents, Loads
<1>4. ReadsFit' /\ RenderIsServed'
  BY <1>2 DEF DetailFits, ReadsFit, RenderIsServed, WillBeHeard, Detail!Hears
<1>5. WatchFits' /\ KeptIsAllowed'
  BY <1>1, <1>2 DEF DetailFits, WatchFits, KeptIsAllowed
<1> QED
  BY <1>3, <1>4, <1>5 DEF DetailFits

LEMMA DeniedFits ==
  ASSUME ReadsAreGiven, DetailFits, Detail!Denied
  PROVE  DetailFits'
<1>1. /\ v7 # Detail!NoWatch /\ v4 < MaxReads /\ v9' = v9 + 1 /\ UNCHANGED <<v1, v2, v3, v5, v7>>
      /\ v7 \in Loads /\ v9 \in Nat /\ v3 \in Loads /\ v4 \in 0 .. MaxReads
      /\ v8 \in [load : Nat, data : Contents, forbidden : BOOLEAN, since : Nat]
  BY DEF Detail!Denied, DetailFits, DetailTyped
<1>2. v8' \in [load : Nat, data : Contents, forbidden : BOOLEAN, since : Nat] /\ v8'.data = Detail!Nothing
  <2>1. PICK l : l = Detail!LiveBefore
    OBVIOUS
  <2>2. l \in [load : Nat, data : Contents, forbidden : BOOLEAN, since : Nat]
    BY <1>1, <2>1 DEF Detail!LiveBefore, Contents, Loads
  <2>3. v8' = [l EXCEPT !.data = Detail!Nothing, !.forbidden = TRUE]
    BY <2>1 DEF Detail!Denied
  <2>4. Detail!Nothing \in Contents
    BY DEF Contents
  <2> QED
    BY <2>2, <2>3, <2>4
<1>3. CASE v1 = "result"
  <2>1. /\ v4' = v4 + 1
        /\ v6' = [load |-> v7.load, attempt |-> v7.attempt - 1, data |-> Detail!Nothing, since |-> 0]
    BY <1>3 DEF Detail!Denied, Detail!Discard, Detail!VoidsReads
  <2>2. v7.load = v3.load /\ v7.attempt - 1 = v3.attempt
    BY <1>1, <1>3 DEF DetailFits, WatchFits, Loads
  <2>3. v6' \in [load : Nat, attempt : Nat, data : Contents, since : Nat] /\ v6'.data = Detail!Nothing
        /\ v6'.load = v3.load /\ v6'.attempt = v3.attempt
    BY <1>1, <2>1, <2>2 DEF Loads, Contents
  <2>4. v4' \in 0 .. MaxReads
    BY <1>1, <2>1 DEF ReadsAreGiven
  <2>5. DetailTyped'
    BY <1>1, <1>2, <2>3, <2>4 DEF DetailFits, DetailTyped
  <2>6. ReadsFit'
    <3> SUFFICES ASSUME NEW r \in 1 .. MaxReads
                 PROVE  (r > v4' => ~v5'[r].flying) /\ ~WillBeHeard(r)'
      BY DEF ReadsFit
    <3>1. r > v4' \/ v4' = r => r > v4
      BY <1>1, <2>1
    <3>2. r > v4 => ~v5[r].flying
      BY DEF DetailFits, ReadsFit
    <3> QED
      BY <1>1, <3>1, <3>2 DEF WillBeHeard, Detail!Hears
  <2>7. RenderIsServed' /\ WatchFits' /\ KeptIsAllowed'
    BY <1>1, <1>2, <2>3 DEF DetailFits, RenderIsServed, WatchFits, KeptIsAllowed
  <2> QED
    BY <2>5, <2>6, <2>7 DEF DetailFits
<1>4. CASE v1 # "result"
  <2>1. UNCHANGED <<v4, v6>>
    BY <1>4 DEF Detail!Denied
  <2>2. DetailTyped'
    BY <1>1, <1>2, <2>1 DEF DetailFits, DetailTyped
  <2>3. ReadsFit' /\ RenderIsServed'
    BY <1>1, <1>4, <2>1 DEF DetailFits, ReadsFit, RenderIsServed, WillBeHeard, Detail!Hears
  <2>4. WatchFits' /\ KeptIsAllowed'
    BY <1>1, <1>4 DEF WatchFits, KeptIsAllowed
  <2> QED
    BY <2>2, <2>3, <2>4 DEF DetailFits
<1> QED
  BY <1>3, <1>4

LEMMA DetailKeepsFit ==
  ASSUME ReadsAreGiven, DetailFine, [Next]_allVars, part = "detail"
  PROVE  DetailFits'
<1>1. DetailFits
  BY DEF DetailFine
<1>2. CASE UNCHANGED <<v1, v2, v3, v4, v5, v6, v7, v8, v9>>
  <2>1. v2' \in Loads
    BY <1>1, <1>2 DEF DetailFits, DetailTyped
  <2> QED
    BY <1>1, <1>2, <2>1, WantFits
<1> QED
  BY <1>1, <1>2, DetailActs, AsksFit, EffectsFit, AnswersFit, SnapshotFits, DeniedFits DEF Detail!Next

LEMMA DetailGives ==
  ASSUME DetailFits
  PROVE  Detail!ShownIsAsked /\ Detail!DeniedIsGone /\ Detail!LoadingEnds
<1>1. Detail!ShownIsAsked
  BY DEF Detail!ShownIsAsked, Detail!Shown, Detail!Aligned, Detail!BootData, Detail!BootIsCurrent
<1>2. Detail!DeniedIsGone
  BY DEF Detail!DeniedIsGone, Detail!Shown, Detail!BootData, DetailFits, KeptIsAllowed
<1>3. Detail!LoadingEnds
  <2> SUFFICES ASSUME Detail!Loading, ~Detail!EffectsDue
               PROVE  v4 > 0 /\ v5[v4].flying /\ Detail!Hears(v4)
    BY DEF Detail!LoadingEnds
  <2>1. v3 = v2
    BY DEF Detail!EffectsDue
  <2>2. ~(v6.load = v3.load /\ v6.attempt = v3.attempt)
    BY <2>1 DEF Detail!Loading, Detail!BootIsCurrent
  <2>3. PICK r \in 1 .. MaxReads : WillBeHeard(r)
    BY <2>2 DEF DetailFits, RenderIsServed
  <2>4. v4 = r /\ r > 0
    BY <2>3 DEF WillBeHeard, Detail!Hears
  <2> QED
    BY <2>3, <2>4 DEF WillBeHeard
<1> QED
  BY <1>1, <1>2, <1>3

LEMMA DetailFineAlways == ASSUME ReadsAreGiven PROVE Spec => []DetailFine
<1>1. Init => DetailFine
  BY DetailStarts DEF Init, DetailFine
<1>2. DetailFine /\ [Next]_allVars => DetailFine'
  <2>1. [Next]_allVars => part' = part
    BY DEF Next, allVars
  <2> QED
    BY <2>1, DetailKeepsFit DEF DetailFine
<1> QED
  BY <1>1, <1>2, PTL DEF Spec

---------------------------------------------------------------------------
(* What the browser shows is current and allowed, what is asked for is     *)
(* heard or awaited, and a draft is created once and never forgotten, for  *)
(* any number of evaluations, drafts, calls, reads and mutations: the      *)
(* observer of observer.ts, the provider of creation.ts (Draft 1 is the    *)
(* one a session begins with, 0 is no draft) and useEvaluation.ts.         *)
THEOREM PagesAreAlive ==
  ASSUME DraftsAreGiven, ReadsAreGiven
  PROVE  Spec => []PageIsAlive
<1>1. PageFine /\ CreationFine /\ DetailFine => PageIsAlive
  BY PageGives, CreationGives, DetailGives DEF PageFine, CreationFine, DetailFine, PageIsAlive
<1> QED
  BY <1>1, PageFineAlways, CreationFineAlways, DetailFineAlways, PTL

---------------------------------------------------------------------------
(* The session of the browser *)

TabSessions == [marker : Nat, csrf : Nat, due : BOOLEAN]
TabRequests ==
  [kind : {"page", "logout", "profile"}, marker : Nat, retried : BOOLEAN,
   pc : {"idle", "gate", "sent", "through", "recover", "again", "lost"}]

(* The token on file is the one of the login on file, if there is any, and *)
(* only then a refresh can be due.                                         *)
TabIsHeld(s) == s \in TabSessions /\ s.csrf = s.marker /\ (s.marker = 0 => ~s.due)

BrowserGood ==
  /\ TabIsHeld(v1) /\ v4 \in Nat /\ v5 \in [Requests -> TabRequests] /\ v6 \in Nat
  /\ \A r \in Requests : v5[r].pc \in {"gate", "recover"} => v4 # 0
BrowserInv == part = "browser" => BrowserGood
BrowserKept == BrowserGood' /\ Browser!SessionIsOwn

LEMMA BrowserStep ==
  ASSUME part = "browser", [Next]_allVars
  PROVE  Browser!Next \/ UNCHANGED <<v1, v2, v3, v4, v5, v6>>
  BY DEF Next, allVars

LEMMA NobodyIsHeld ==
  /\ TabIsHeld(Browser!Nobody) /\ Browser!Nobody.marker = 0
  /\ Browser!Quiet \in TabRequests /\ Browser!Quiet.pc = "idle"
  /\ Browser!Quiet.kind = "page"
  BY DEF TabIsHeld, TabSessions, TabRequests, Browser!Nobody, Browser!Quiet

LEMMA WhoIsHeld ==
  ASSUME NEW s, TabIsHeld(s), s.marker = 0
  PROVE  s = Browser!Nobody
<1>1. s \in TabSessions /\ s.marker = 0 /\ s.csrf = 0 /\ s.due = FALSE
  BY DEF TabIsHeld, TabSessions
<1> QED
  BY <1>1 DEF TabSessions, Browser!Nobody

(* A step that leaves the logins.                                          *)
LEMMA SameLogins ==
  ASSUME BrowserGood, TabIsHeld(v1'), v1'.marker \in {0, v1.marker}, v6' = v6, v4' \in Nat,
         v5' \in [Requests -> TabRequests],
         \A r \in Requests : v5'[r].pc \in {"gate", "recover"} => v4' # 0,
         \A r \in Requests : v5'[r].pc = "sent" /\ v5[r].pc # "sent" => v5'[r].marker = v1'.marker
  PROVE  BrowserKept
<1>1. BrowserGood'
  BY DEF BrowserGood, TabIsHeld
<1>2. Browser!OldSessionIsOver
  BY DEF Browser!OldSessionIsOver
<1>3. Browser!TokenIsOwn'
  BY DEF Browser!TokenIsOwn, TabIsHeld
<1> QED
  BY <1>1, <1>2, <1>3 DEF BrowserKept, Browser!SessionIsOwn

(* A step about one request.                                               *)
LEMMA OneRequest ==
  ASSUME BrowserGood, NEW r \in Requests, NEW x \in TabRequests, v5' = [v5 EXCEPT ![r] = x],
         TabIsHeld(v1'), v1'.marker \in {0, v1.marker}, v6' = v6, v4' \in Nat, v4 # 0 => v4' # 0,
         x.pc \in {"gate", "recover"} => v4' # 0,
         x.pc = "sent" => x.marker = v1'.marker
  PROVE  BrowserKept
<1>1. v5' \in [Requests -> TabRequests]
  BY DEF BrowserGood
<1>2. \A o \in Requests : v5'[o] = IF o = r THEN x ELSE v5[o]
  BY DEF BrowserGood
<1>3. \A o \in Requests : v5'[o].pc \in {"gate", "recover"} => v4' # 0
  BY <1>2 DEF BrowserGood
<1>4. \A o \in Requests : v5'[o].pc = "sent" /\ v5[o].pc # "sent" => v5'[o].marker = v1'.marker
  BY <1>2
<1> QED
  BY <1>1, <1>3, <1>4, SameLogins

LEMMA JoinIs ==
  ASSUME BrowserGood, Browser!Join, v1.marker # 0 \/ v4 # 0
  PROVE  v4' \in Nat /\ v4' # 0
  BY DEF BrowserGood, Browser!Join, TabIsHeld, TabSessions

LEMMA DispatchIs ==
  ASSUME BrowserGood, NEW r \in Requests, NEW q \in TabRequests, Browser!Dispatch(r, q),
         v1' = v1, v6' = v6
  PROVE  BrowserKept
<1>1. /\ [q EXCEPT !.pc = "lost"] \in TabRequests /\ [q EXCEPT !.pc = "lost"].pc = "lost"
      /\ [q EXCEPT !.pc = "gate"] \in TabRequests /\ [q EXCEPT !.pc = "gate"].pc = "gate"
      /\ [q EXCEPT !.pc = "sent"] \in TabRequests /\ [q EXCEPT !.pc = "sent"].pc = "sent"
      /\ [q EXCEPT !.pc = "sent"].marker = q.marker
  BY DEF TabRequests
<1>2. TabIsHeld(v1') /\ v1'.marker \in {0, v1.marker} /\ v4 \in Nat
  BY DEF BrowserGood
<1>3. CASE q.marker # v1.marker
  <2>1. v5' = [v5 EXCEPT ![r] = [q EXCEPT !.pc = "lost"]] /\ v4' = v4
    BY <1>3 DEF Browser!Dispatch
  <2> QED
    BY <1>1, <1>2, <2>1, OneRequest
<1>4. CASE q.marker = v1.marker /\ v1.due
  <2>1. v5' = [v5 EXCEPT ![r] = [q EXCEPT !.pc = "gate"]] /\ Browser!Join
    BY <1>4 DEF Browser!Dispatch
  <2>2. v1.marker # 0
    BY <1>4 DEF BrowserGood, TabIsHeld
  <2>3. v4' \in Nat /\ v4' # 0
    BY <2>1, <2>2, JoinIs
  <2> QED
    BY <1>1, <1>2, <2>1, <2>3, OneRequest
<1>5. CASE q.marker = v1.marker /\ ~v1.due
  <2>1. v5' = [v5 EXCEPT ![r] = [q EXCEPT !.pc = "sent"]] /\ v4' = v4
    BY <1>5 DEF Browser!Dispatch
  <2>2. [q EXCEPT !.pc = "sent"].marker = v1'.marker
    BY <1>1, <1>5
  <2> QED
    BY <1>1, <1>2, <2>1, <2>2, OneRequest
<1> QED
  BY <1>3, <1>4, <1>5

LEMMA EndIs ==
  ASSUME BrowserGood, NEW r \in Requests, NEW given \in BOOLEAN, Browser!End(r, given)
  PROVE  /\ v5' = [v5 EXCEPT ![r] = Browser!Quiet]
         /\ TabIsHeld(v1') /\ v1'.marker \in {0, v1.marker}
<1>1. v5' = [v5 EXCEPT ![r] = Browser!Quiet]
  BY DEF Browser!End
<1>2. CASE v1' = v1 \/ v1' = Browser!Nobody
  BY <1>1, <1>2, NobodyIsHeld DEF BrowserGood
<1>3. CASE /\ Browser!Current(r) /\ v1 # Browser!Nobody
           /\ \E due \in {v1.due, TRUE} : v1' = [v1 EXCEPT !.csrf = v5[r].marker, !.due = due]
  <2>1. PICK due \in {v1.due, TRUE} : v1' = [v1 EXCEPT !.csrf = v5[r].marker, !.due = due]
    BY <1>3
  <2>2. v5[r].marker = v1.marker /\ v1 \in TabSessions /\ v1.marker # 0 /\ due \in BOOLEAN
    BY <1>3, <2>1, WhoIsHeld DEF BrowserGood, TabIsHeld, TabSessions, Browser!Current
  <2>3. PICK s : s = [v1 EXCEPT !.csrf = v5[r].marker, !.due = due]
    OBVIOUS
  <2>4. s \in TabSessions /\ s.marker = v1.marker /\ s.csrf = v1.marker
    BY <2>2, <2>3 DEF TabSessions
  <2> QED
    BY <1>1, <2>1, <2>2, <2>3, <2>4 DEF TabIsHeld
<1>4. \/ v1' = v1 \/ v1' = Browser!Nobody
      \/ /\ Browser!Current(r) /\ v1 # Browser!Nobody
         /\ \E due \in {v1.due, TRUE} : v1' = [v1 EXCEPT !.csrf = v5[r].marker, !.due = due]
  BY DEF Browser!End
<1> QED
  BY <1>2, <1>3, <1>4

LEMMA EndKeeps ==
  ASSUME BrowserGood, NEW r \in Requests, NEW given \in BOOLEAN, Browser!End(r, given),
         v4' = v4, v6' = v6
  PROVE  BrowserKept
<1>1. v4' \in Nat
  BY DEF BrowserGood
<1> QED
  BY <1>1, EndIs, NobodyIsHeld, OneRequest

LEMMA AskKeeps ==
  ASSUME BrowserGood, NEW r \in Requests, NEW kind \in {"page", "logout"}, Browser!Ask(r, kind)
  PROVE  BrowserKept
<1> DEFINE q == [Browser!Quiet EXCEPT !.kind = kind, !.marker = v1.marker]
<1>1. Browser!Dispatch(r, q) /\ v1' = v1 /\ v6' = v6
  BY DEF Browser!Ask
<1>2. v1.marker \in Nat
  BY DEF BrowserGood, TabIsHeld, TabSessions
<1>3. q \in TabRequests
  BY <1>2 DEF TabRequests, Browser!Quiet
<1> HIDE DEF q
<1> QED
  BY <1>1, <1>3, DispatchIs

LEMMA AgainKeeps ==
  ASSUME BrowserGood, NEW r \in Requests, Browser!Again(r)
  PROVE  BrowserKept
<1> DEFINE q == [v5[r] EXCEPT !.retried = TRUE]
<1>1. Browser!Dispatch(r, q) /\ v1' = v1 /\ v6' = v6
  BY DEF Browser!Again
<1>2. q \in TabRequests
  BY DEF BrowserGood, TabRequests
<1> HIDE DEF q
<1> QED
  BY <1>1, <1>2, DispatchIs

LEMMA ThroughKeeps ==
  ASSUME BrowserGood, NEW r \in Requests, Browser!Through(r)
  PROVE  BrowserKept
<1>1. PICK x : x = [v5[r] EXCEPT !.pc = IF Browser!Current(r) THEN "sent" ELSE "lost"]
  OBVIOUS
<1>2. /\ v5' = [v5 EXCEPT ![r] = x] /\ v1' = v1 /\ v4' = v4 /\ v6' = v6
  BY <1>1 DEF Browser!Through
<1>3. v5[r] \in TabRequests
  BY DEF BrowserGood
<1>4. x \in TabRequests /\ x.pc \in {"sent", "lost"} /\ x.marker = v5[r].marker
      /\ (x.pc = "sent" => Browser!Current(r))
  BY <1>1, <1>3 DEF TabRequests
<1>5. x.pc = "sent" => x.marker = v1'.marker
  BY <1>2, <1>4 DEF Browser!Current
<1>6. TabIsHeld(v1') /\ v1'.marker \in {0, v1.marker} /\ v4' \in Nat
  BY <1>2 DEF BrowserGood
<1> QED
  BY <1>2, <1>4, <1>5, <1>6, OneRequest

LEMMA AnsweredKeeps ==
  ASSUME BrowserGood, NEW r \in Requests, Browser!Answered(r)
  PROVE  BrowserKept
<1>1. v4' = v4 /\ v6' = v6
  BY DEF Browser!Answered
<1>2. CASE Browser!End(r, TRUE) \/ Browser!End(r, FALSE)
  BY <1>1, <1>2, EndKeeps
<1>3. CASE /\ Browser!Current(r) /\ v1 # Browser!Nobody
           /\ v1' = [v1 EXCEPT !.csrf = v5[r].marker] /\ v5' = [v5 EXCEPT ![r] = Browser!Quiet]
  <2>1. v1 \in TabSessions /\ v1.marker # 0 /\ v5[r].marker = v1.marker /\ v4 \in Nat
    BY <1>3, WhoIsHeld DEF BrowserGood, TabIsHeld, Browser!Current
  <2>2. TabIsHeld(v1') /\ v1'.marker = v1.marker
    BY <1>3, <2>1 DEF TabIsHeld, TabSessions
  <2> QED
    BY <1>1, <1>3, <2>1, <2>2, NobodyIsHeld, OneRequest
<1> QED
  BY <1>2, <1>3 DEF Browser!Answered

LEMMA RefusedKeeps ==
  ASSUME BrowserGood, NEW r \in Requests, Browser!Refused(r)
  PROVE  BrowserKept
<1>1. v6' = v6
  BY DEF Browser!Refused
<1>2. CASE Browser!End(r, FALSE) /\ v4' = v4
  BY <1>1, <1>2, EndKeeps
<1>3. CASE /\ v1 # Browser!Nobody \/ v4 # 0
           /\ v5' = [v5 EXCEPT ![r].pc = "recover"] /\ Browser!Join /\ v1' = v1
  <2>1. TabIsHeld(v1') /\ v1'.marker \in {0, v1.marker} /\ v5[r] \in TabRequests
    BY <1>3 DEF BrowserGood
  <2>2. v1.marker # 0 \/ v4 # 0
    BY <1>3, WhoIsHeld DEF BrowserGood
  <2>3. v4' \in Nat /\ v4' # 0
    BY <1>3, <2>2, JoinIs
  <2>4. PICK x : x = [v5[r] EXCEPT !.pc = "recover"]
    OBVIOUS
  <2>5. x \in TabRequests /\ x.pc = "recover"
    BY <2>1, <2>4 DEF TabRequests
  <2>6. v5' = [v5 EXCEPT ![r] = x]
    BY <1>3, <2>4
  <2> QED
    BY <1>1, <2>1, <2>3, <2>5, <2>6, OneRequest
<1> QED
  BY <1>2, <1>3 DEF Browser!Refused

LEMMA RefreshedKeeps ==
  ASSUME BrowserGood, NEW ok \in BOOLEAN, Browser!Refreshed(ok)
  PROVE  BrowserKept
<1>1. v4 # 0 /\ v4' = 0 /\ v6' = v6 /\ v4 \in Nat
  BY DEF Browser!Refreshed, BrowserGood
<1>2. ASSUME NEW r \in Requests
      PROVE  /\ v5'[r] \in TabRequests /\ v5'[r].pc \notin {"gate", "recover"}
             /\ v5'[r].pc = "sent" => v5[r].pc = "sent"
  <2> DEFINE given == ok /\ Browser!Writes
             pc == IF ~given THEN "lost" ELSE IF v5[r].pc = "gate" THEN "through" ELSE "again"
  <2>1. v5'[r] = IF v5[r].pc \notin {"gate", "recover"} THEN v5[r] ELSE [v5[r] EXCEPT !.pc = pc]
    BY DEF Browser!Refreshed, Browser!Wake
  <2>2. v5[r] \in TabRequests /\ pc \in {"lost", "through", "again"}
    BY DEF BrowserGood
  <2> HIDE DEF pc
  <2> QED
    BY <2>1, <2>2 DEF TabRequests
<1>3. v5' = [r \in Requests |-> v5'[r]]
  BY DEF Browser!Refreshed, Browser!Wake
<1>4. v5' \in [Requests -> TabRequests]
  BY <1>2, <1>3
<1>5. TabIsHeld(v1') /\ v1'.marker \in {0, v1.marker}
  <2>1. CASE v1' = v1 \/ v1' = Browser!Nobody
    BY <2>1, NobodyIsHeld DEF BrowserGood
  <2>2. CASE Browser!Writes /\ v1' = [marker |-> v4, csrf |-> v4, due |-> FALSE]
    BY <1>1, <2>2 DEF TabIsHeld, TabSessions, Browser!Writes
  <2> QED
    BY <2>1, <2>2 DEF Browser!Refreshed
<1> QED
  BY <1>1, <1>2, <1>4, <1>5, SameLogins

LEMMA LoginKeeps ==
  ASSUME BrowserGood, NEW r \in Requests, Browser!LoginAnswered(r)
  PROVE  BrowserKept
<1>1. v4' = v4 /\ v4 \in Nat /\ v6 \in Nat /\ TabIsHeld(v1) /\ v5 \in [Requests -> TabRequests]
  BY DEF Browser!LoginAnswered, BrowserGood
<1>2. CASE v1' = v1 /\ v5' = v5 /\ v6' = v6
  BY <1>1, <1>2, SameLogins DEF BrowserGood
<1>3. CASE /\ v6' = v6 + 1 /\ v1' = [marker |-> v6', csrf |-> v6', due |-> FALSE]
           /\ v5' = [v5 EXCEPT ![r] = [Browser!Quiet EXCEPT !.kind = "profile", !.pc = "sent",
                                                            !.marker = v6']]
  <2>1. v6' \in Nat /\ v6' > v6 /\ v6' # 0
    BY <1>1, <1>3
  <2>2. TabIsHeld(v1') /\ v1'.marker = v6'
    BY <1>3, <2>1 DEF TabIsHeld, TabSessions
  <2>3. PICK x : x = [Browser!Quiet EXCEPT !.kind = "profile", !.pc = "sent", !.marker = v6']
    OBVIOUS
  <2>4. x \in TabRequests /\ x.pc = "sent" /\ x.marker = v6'
    BY <2>1, <2>3 DEF TabRequests, Browser!Quiet
  <2>5. v5' = [v5 EXCEPT ![r] = x]
    BY <1>3, <2>3
  <2>6. \A o \in Requests : v5'[o] = IF o = r THEN x ELSE v5[o]
    BY <1>1, <2>5
  <2>7. v5' \in [Requests -> TabRequests]
    BY <1>1, <2>4, <2>5
  <2>8. \A o \in Requests : v5'[o].pc \in {"gate", "recover"} => v4' # 0
    BY <1>1, <2>4, <2>6 DEF BrowserGood
  <2>9. BrowserGood'
    BY <1>1, <2>1, <2>2, <2>7, <2>8 DEF BrowserGood, TabIsHeld
  <2>a. Browser!OldSessionIsOver
    BY <2>1, <2>2, <2>4, <2>6 DEF Browser!OldSessionIsOver
  <2>b. Browser!TokenIsOwn'
    BY <2>2, <2>8 DEF Browser!TokenIsOwn, TabIsHeld
  <2> QED
    BY <2>9, <2>a, <2>b DEF BrowserKept, Browser!SessionIsOwn
<1> QED
  BY <1>2, <1>3 DEF Browser!LoginAnswered

LEMMA OwnerKeeps ==
  ASSUME BrowserGood,
         \/ Browser!LoginPost \/ Browser!Clear \/ Browser!Age \/ Browser!Reload
         \/ UNCHANGED <<v1, v2, v3, v4, v5, v6>>
  PROVE  BrowserKept
<1>1. v4 \in Nat /\ TabIsHeld(v1) /\ v5 \in [Requests -> TabRequests]
      /\ \A r \in Requests : v5[r].pc \in {"gate", "recover"} => v4 # 0
  BY DEF BrowserGood
<1>2. CASE v1' = v1 /\ v4' = v4 /\ v5' = v5 /\ v6' = v6
  BY <1>1, <1>2, SameLogins
<1>3. CASE Browser!Clear
  <2>1. v1' = Browser!Nobody /\ v4' = v4 /\ v5' = v5 /\ v6' = v6
    BY <1>3 DEF Browser!Clear
  <2> QED
    BY <1>1, <2>1, NobodyIsHeld, SameLogins
<1>4. CASE Browser!Age
  <2>1. v1 # Browser!Nobody /\ v1' = [v1 EXCEPT !.due = TRUE] /\ v4' = v4 /\ v5' = v5 /\ v6' = v6
    BY <1>4 DEF Browser!Age
  <2>2. v1.marker # 0 /\ v1 \in TabSessions
    BY <1>1, <2>1, WhoIsHeld DEF TabIsHeld
  <2>3. TabIsHeld(v1') /\ v1'.marker = v1.marker
    BY <1>1, <2>1, <2>2 DEF TabIsHeld, TabSessions
  <2> QED
    BY <1>1, <2>1, <2>3, SameLogins
<1>5. CASE Browser!Reload
  <2>1. v1' = v1 /\ v4' = 0 /\ v5' = [r \in Requests |-> Browser!Quiet] /\ v6' = v6
    BY <1>5 DEF Browser!Reload
  <2> QED
    BY <1>1, <2>1, NobodyIsHeld, SameLogins
<1> QED
  BY <1>2, <1>3, <1>4, <1>5 DEF Browser!LoginPost

LEMMA BrowserMoves ==
  ASSUME BrowserInv, [Next]_allVars, part = "browser"
  PROVE  BrowserKept
<1>1. BrowserGood
  BY DEF BrowserInv
<1>2. \/ Browser!LoginPost \/ Browser!Clear \/ Browser!Age \/ Browser!Reload
      \/ UNCHANGED <<v1, v2, v3, v4, v5, v6>>
      \/ \E ok \in BOOLEAN : Browser!Refreshed(ok)
      \/ \E r \in Requests :
           \/ Browser!Ask(r, "page") \/ Browser!Ask(r, "logout") \/ Browser!Through(r)
           \/ Browser!Again(r) \/ Browser!Answered(r) \/ Browser!Refused(r)
           \/ Browser!LoginAnswered(r) \/ Browser!Lost(r)
  BY BrowserStep DEF Browser!Next
<1>3. ASSUME NEW r \in Requests, Browser!Lost(r) PROVE BrowserKept
  <2>1. Browser!End(r, FALSE) /\ v4' = v4 /\ v6' = v6
    BY <1>3 DEF Browser!Lost
  <2> QED
    BY <1>1, <2>1, EndKeeps
<1> QED
  BY <1>1, <1>2, <1>3, OwnerKeeps, RefreshedKeeps, AskKeeps, ThroughKeeps, AgainKeeps,
     AnsweredKeeps, RefusedKeeps, LoginKeeps

LEMMA BrowserInvAlways == Spec => []BrowserInv
<1>1. Init => BrowserInv
  <2> SUFFICES ASSUME Browser!Init PROVE BrowserGood
    BY DEF Init, BrowserInv
  <2> QED
    BY NobodyIsHeld DEF Browser!Init, BrowserGood
<1>2. BrowserInv /\ [Next]_allVars => BrowserInv'
  <2>1. [Next]_allVars => part' = part
    BY DEF Next, allVars
  <2> QED
    BY <2>1, BrowserMoves DEF BrowserInv, BrowserKept
<1> QED
  BY <1>1, <1>2, PTL DEF Spec

---------------------------------------------------------------------------
(* The promises of the creation pages *)

(* A promise has its fields, and an operation not yet begun has none that  *)
(* is under way.                                                           *)
IsPromise(p) == p = [what |-> p.what, owner |-> p.owner, pc |-> p.pc, of |-> p.of, left |-> p.left]
Begun        == \A t \in Creating!Operations : t \notin 1 .. v5 => v7[t].pc = "done"
CreationGood ==
  /\ v5 \in Nat /\ DOMAIN v7 = Creating!Operations
  /\ v7 = [t \in Creating!Operations |-> v7[t]]
  /\ \A t \in Creating!Operations : IsPromise(v7[t])
  /\ Begun
CreationInv  == part = "creation" => CreationGood
CreationKept == CreationGood' /\ Creating!LateIsIgnored

LEMMA CreationStep ==
  ASSUME part = "creation", [Next]_allVars
  PROVE  Creating!Next \/ UNCHANGED <<v1, v2, v3, v4, v5, v6, v7, v8, v9>>
  BY DEF Next, allVars

(* A step of one promise under way: only the present one writes the store. *)
LEMMA OnePromise ==
  ASSUME CreationGood, NEW t \in Creating!Operations, NEW pc,
         v7[t].pc # "done", v7' = [v7 EXCEPT ![t].pc = pc], v5' = v5,
         v5 = t \/ v3' = v3
  PROVE  CreationKept
<1>1. PICK p : p = [v7[t] EXCEPT !.pc = pc]
  OBVIOUS
<1>2. IsPromise(p)
  BY <1>1 DEF CreationGood, IsPromise
<1>3. \A o \in Creating!Operations : v7'[o] = IF o = t THEN p ELSE v7[o]
  BY <1>1 DEF CreationGood
<1>4. DOMAIN v7' = Creating!Operations /\ v7' = [o \in Creating!Operations |-> v7'[o]]
  BY DEF CreationGood
<1>5. Begun'
  BY <1>3 DEF CreationGood, Begun
<1>6. CreationGood'
  BY <1>2, <1>3, <1>4, <1>5 DEF CreationGood
<1>7. Creating!LateIsIgnored
  BY <1>3 DEF Creating!LateIsIgnored
<1> QED
  BY <1>6, <1>7 DEF CreationKept

(* A step that asks for an operation, or forgets the draft.                *)
LEMMA SamePromises ==
  ASSUME CreationGood, v7' = v7, v5' \in {v5, v5 + 1}
  PROVE  CreationKept
<1>1. Begun'
  BY DEF CreationGood, Begun
<1>2. Creating!LateIsIgnored
  BY DEF Creating!LateIsIgnored
<1> QED
  BY <1>1, <1>2 DEF CreationGood, CreationKept

LEMMA RunKeeps ==
  ASSUME CreationGood, NEW what, NEW of, Creating!Run(what, of)
  PROVE  CreationKept
<1>1. PICK p : p = [Creating!Absent EXCEPT !.what = what, !.owner = v3.owner,
                                         !.pc = "queued", !.of = of]
  OBVIOUS
<1>2. IsPromise(p)
  BY <1>1 DEF IsPromise, Creating!Absent
<1>3. v5' = v5 + 1 /\ v7' = [v7 EXCEPT ![v5 + 1] = p]
  BY <1>1 DEF Creating!Run
<1>4. \A o \in Creating!Operations : v7'[o] = IF o = v5 + 1 THEN p ELSE v7[o]
  BY <1>3 DEF CreationGood
<1>5. DOMAIN v7' = Creating!Operations /\ v7' = [o \in Creating!Operations |-> v7'[o]]
  BY <1>3 DEF CreationGood
<1>6. Begun'
  BY <1>3, <1>4 DEF CreationGood, Begun
<1>7. CreationGood'
  BY <1>2, <1>3, <1>4, <1>5, <1>6 DEF CreationGood
<1>8. \A o \in Creating!Operations : v7[o].pc # "done" => v7'[o] = v7[o]
  BY <1>4 DEF CreationGood, Begun
<1>9. Creating!LateIsIgnored
  BY <1>8 DEF Creating!LateIsIgnored
<1> QED
  BY <1>7, <1>9 DEF CreationKept

LEMMA LeaveKeeps ==
  ASSUME CreationGood, Creating!Leave
  PROVE  CreationKept
<1>1. /\ v7' = [t \in Creating!Operations |-> [v7[t] EXCEPT !.left = Creating!IsAct(t)]]
      /\ v5' = v5 /\ v3' = v3
  BY DEF Creating!Leave
<1>2. DOMAIN v7' = Creating!Operations /\ v7' = [o \in Creating!Operations |-> v7'[o]]
  BY <1>1
<1>3. ASSUME NEW o \in Creating!Operations
      PROVE  IsPromise(v7'[o]) /\ v7'[o].pc = v7[o].pc
  <2>1. PICK left : left = Creating!IsAct(o)
    OBVIOUS
  <2>2. v7'[o] = [v7[o] EXCEPT !.left = left]
    BY <1>1, <2>1
  <2>3. IsPromise(v7[o])
    BY DEF CreationGood
  <2> QED
    BY <2>2, <2>3 DEF IsPromise
<1>4. Begun'
  BY <1>1, <1>3 DEF CreationGood, Begun
<1>5. CreationGood'
  BY <1>1, <1>2, <1>3, <1>4 DEF CreationGood
<1>6. Creating!LateIsIgnored
  BY <1>1 DEF Creating!LateIsIgnored
<1> QED
  BY <1>5, <1>6 DEF CreationKept

(* Each step of a promise writes the store for the present operation only. *)
LEMMA PromiseKeeps ==
  ASSUME CreationGood, NEW t \in Creating!Operations,
         \/ Creating!Begin(t) \/ Creating!Created(t) \/ Creating!Started(t)
         \/ Creating!Retried(t) \/ Creating!Checked(t) \/ Creating!Acted(t)
  PROVE  CreationKept
<1>1. v7[t].pc # "done" /\ v5' = v5
  BY DEF Creating!Begin, Creating!Created, Creating!Started, Creating!Retried,
     Creating!Checked, Creating!Acted
<1>2. Creating!NoLonger(t) = v3 \/ v5 = t
  BY DEF Creating!NoLonger, Creating!Current
<1>3. \E pc : v7' = [v7 EXCEPT ![t].pc = pc]
  <2>1. ASSUME NEW pc, Creating!Sends(t, pc) PROVE \E p : v7' = [v7 EXCEPT ![t].pc = p]
    BY <2>1 DEF Creating!Sends
  <2>2. Creating!Ends(t) => \E p : v7' = [v7 EXCEPT ![t].pc = p]
    BY DEF Creating!Ends
  <2>3. Creating!Ends(t) \/ (\E pc : Creating!Sends(t, pc)) \/ v7' = [v7 EXCEPT ![t].pc = "done"]
    BY DEF Creating!Begin, Creating!Created, Creating!Started, Creating!Retried,
       Creating!Checked, Creating!Acted
  <2> QED
    BY <2>1, <2>2, <2>3
<1>4. v5 = t \/ v3' = v3
  <2> SUFFICES ASSUME v5 # t PROVE v3' = v3
    OBVIOUS
  <2>1. ~Creating!Current(t)
    BY DEF Creating!Current
  <2> QED
    BY <1>2, <2>1 DEF Creating!Begin, Creating!Created, Creating!Started, Creating!Retried,
       Creating!Checked, Creating!Acted
<1> QED
  BY <1>1, <1>3, <1>4, OnePromise

LEMMA CreationMoves ==
  ASSUME CreationInv, [Next]_allVars, part = "creation"
  PROVE  CreationKept
<1>1. CreationGood
  BY DEF CreationInv
<1>2. \/ Creating!Submit \/ Creating!Leave \/ Creating!Reset \/ Creating!Switch \/ Creating!Remount
      \/ UNCHANGED <<v1, v2, v3, v4, v5, v6, v7, v8, v9>>
      \/ \E d \in Drafts : \/ Creating!RetryStart(d)
                          \/ \E what \in {"start", "cancel"} : Creating!Act(d, what)
      \/ \E t \in Creating!Operations :
           \/ Creating!Begin(t) \/ Creating!Created(t) \/ Creating!Started(t)
           \/ Creating!Retried(t) \/ Creating!Checked(t) \/ Creating!Acted(t)
  BY CreationStep DEF Creating!Next
<1>3. CASE Creating!Submit
  BY <1>1, <1>3, RunKeeps DEF Creating!Submit
<1>4. ASSUME NEW d \in Drafts, Creating!RetryStart(d) PROVE CreationKept
  BY <1>1, <1>4, RunKeeps DEF Creating!RetryStart
<1>5. ASSUME NEW d \in Drafts, NEW what, Creating!Act(d, what) PROVE CreationKept
  BY <1>1, <1>5, RunKeeps DEF Creating!Act
<1>6. ASSUME NEW o, Creating!Forget(o) PROVE CreationKept
  BY <1>1, <1>6, SamePromises DEF Creating!Forget
<1>7. CASE Creating!Reset \/ Creating!Remount
  BY <1>6, <1>7 DEF Creating!Reset, Creating!Remount
<1>8. CASE Creating!Switch \/ UNCHANGED <<v1, v2, v3, v4, v5, v6, v7, v8, v9>>
  BY <1>1, <1>8, SamePromises DEF Creating!Switch
<1> QED
  BY <1>1, <1>2, <1>3, <1>4, <1>5, <1>7, <1>8, LeaveKeeps, PromiseKeeps

LEMMA CreationInvAlways == Spec => []CreationInv
<1>1. Init => CreationInv
  <2> SUFFICES ASSUME Creating!Init PROVE CreationGood
    BY DEF Init, CreationInv
  <2> QED
    BY DEF Creating!Init, Creating!Absent, CreationGood, IsPromise, Begun
<1>2. CreationInv /\ [Next]_allVars => CreationInv'
  <2>1. [Next]_allVars => part' = part
    BY DEF Next, allVars
  <2> QED
    BY <2>1, CreationMoves DEF CreationInv, CreationKept
<1> QED
  BY <1>1, <1>2, PTL DEF Spec

(* A tab never sends a request under another login than its asker's, nor   *)
(* lets a token outlive its login, and the late answer of an overtaken     *)
(* creation never writes what the page says of the present draft           *)
(* (refreshCoordinator; isCurrent in creation.ts).                         *)
THEOREM SessionIsOurs == Spec => SessionIsOwn
<1>1. BrowserInv /\ CreationInv /\ [Next]_allVars
      => [/\ part = "browser" => Browser!SessionIsOwn
          /\ part = "creation" => Creating!LateIsIgnored]_allVars
  BY BrowserMoves, CreationMoves DEF BrowserKept, CreationKept
<1> QED
  BY <1>1, BrowserInvAlways, CreationInvAlways, PTL DEF Spec, SessionIsOwn

=============================================================================
