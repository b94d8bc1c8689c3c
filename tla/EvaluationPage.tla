--------------------------- MODULE EvaluationPage ---------------------------
(***************************************************************************)
(* What a page shows of one evaluation (frontend/src/evaluations/          *)
(* useEvaluation.ts, pages EvaluationDetailPage and ResultDetailPage): the *)
(* read it began with, repeated on request, and the snapshots of the       *)
(* observer, which runs while that read says the evaluation is alive.      *)
(* React computes what is shown at once, and runs the effects, which end   *)
(* old reads and observers and begin new ones, some time later; reads may  *)
(* answer in any order, and after their signal was aborted.                *)
(***************************************************************************)
EXTENDS Naturals

CONSTANTS
  Pages,       \* "detail", "result"
  MaxTurns,    \* bound: pages of results asked for
  MaxAttempts, \* bound: reloads
  MaxReads,    \* bound: reads
  MaxDenials   \* bound: rejections the observer reports

VARIABLES
  page,       \* which of the two pages
  want,       \* the load and the attempt of the latest render
  ran,        \* the same, when the effect of the read ran last
  generation, \* the number of the latest read, or of what voided it
  read,       \* the reads
  boot,       \* snapshot of useEvaluation
  watch,      \* the observer that is not disposed, by what it was made for
  live,       \* snapshot of useEvaluationLive
  denials     \* history: rejections the observer reported

pageVars == <<page, want, ran, generation, read, boot, watch, live, denials>>

Statuses == {"alive", "ended"}
Nothing  == "none"
Unread   == [load |-> 0, attempt |-> 0, flying |-> FALSE, aborted |-> FALSE, since |-> 0]
NoWatch  == [load |-> 0, attempt |-> 0]

---------------------------------------------------------------------------
(* What is shown *)

BootIsCurrent == boot.load = want.load
BootData      == IF BootIsCurrent THEN boot.data ELSE Nothing
Loading       == ~BootIsCurrent \/ boot.attempt # want.attempt
Enabled       == BootData = "alive"

(* aligned, and enabled *)
Aligned == Enabled /\ live.load = want.load

Hidden  == Aligned /\ live.forbidden
Shown   == IF Hidden THEN [data |-> Nothing, load |-> want.load, since |-> denials]
           ELSE IF Aligned /\ live.data # Nothing
           THEN [data |-> live.data, load |-> live.load, since |-> live.since]
           ELSE [data |-> BootData, load |-> boot.load, since |-> boot.since]

---------------------------------------------------------------------------
(* The page asks *)

(* Another page of the results is another load. *)
Turn ==
  /\ page = "result" /\ want.load < MaxTurns /\ want' = [want EXCEPT !.load = @ + 1]
  /\ UNCHANGED <<page, ran, generation, read, boot, watch, live, denials>>

(* reload, of the button and after an operation. *)
Reload ==
  /\ want.attempt < MaxAttempts /\ want' = [want EXCEPT !.attempt = @ + 1]
  /\ UNCHANGED <<page, ran, generation, read, boot, watch, live, denials>>

(* Whom the observer is for: on the page of results discard, and with it   *)
(* the attempt, counted from one here, is one of its dependencies.         *)
WatchWanted ==
  IF ~Enabled THEN NoWatch
  ELSE [load |-> want.load, attempt |-> IF page = "result" THEN want.attempt + 1 ELSE 1]

EffectsDue == ran # want \/ watch # WatchWanted

Effects ==
  /\ EffectsDue /\ (ran # want => generation < MaxReads)
  /\ ran' = want /\ watch' = WatchWanted
  /\ IF ran = want THEN UNCHANGED <<generation, read>>
     ELSE /\ generation' = generation + 1
          /\ read' = [r \in 1 .. MaxReads |->
               IF r = generation + 1
               THEN [load |-> want.load, attempt |-> want.attempt, flying |-> TRUE,
                     aborted |-> FALSE, since |-> denials]
               ELSE [read[r] EXCEPT !.aborted = TRUE]]
  /\ UNCHANGED <<page, want, boot, live, denials>>

---------------------------------------------------------------------------
(* The read answers *)

Hears(r) == ~read[r].aborted /\ generation = r

Answered(r) ==
  /\ read[r].flying /\ read' = [read EXCEPT ![r].flying = FALSE]
  /\ \E data \in Statuses :
       boot' = IF ~Hears(r) THEN boot
               ELSE [load |-> read[r].load, attempt |-> read[r].attempt, data |-> data,
                     since |-> read[r].since]
  /\ UNCHANGED <<page, want, ran, generation, watch, live, denials>>

(* What an older read of the same load showed is kept, unless the failure  *)
(* is that the evaluation may not, or can no longer, be seen.              *)
Failed(r) ==
  /\ read[r].flying /\ read' = [read EXCEPT ![r].flying = FALSE]
  /\ \E denied \in BOOLEAN :
       boot' = IF ~Hears(r) THEN boot
               ELSE [load |-> read[r].load, attempt |-> read[r].attempt, since |-> boot.since,
                     data |-> IF ~denied /\ boot.load = read[r].load THEN boot.data ELSE Nothing]
  /\ UNCHANGED <<page, want, ran, generation, watch, live, denials>>

---------------------------------------------------------------------------
(* The observer reports: its own identity is stamped on what it says. *)

LiveBefore == IF live.load = watch.load THEN live
              ELSE [load |-> watch.load, data |-> Nothing, forbidden |-> FALSE, since |-> 0]

Snapshot ==
  /\ watch # NoWatch
  /\ \E data \in Statuses :
       live' = [load |-> watch.load, data |-> data, forbidden |-> FALSE, since |-> denials]
  /\ UNCHANGED <<page, want, ran, generation, read, boot, watch, denials>>

(* "Invalidate any older read so a transport ignoring AbortSignal cannot   *)
(* restore it": the generation of the read that is under way is over.      *)
VoidsReads == generation' = generation + 1

Discard ==
  /\ VoidsReads
  /\ boot' = [load |-> watch.load, attempt |-> watch.attempt - 1, data |-> Nothing, since |-> 0]

Denied ==
  /\ watch # NoWatch /\ denials < MaxDenials /\ generation < MaxReads /\ denials' = denials + 1
  /\ live' = [LiveBefore EXCEPT !.data = Nothing, !.forbidden = TRUE]
  /\ IF page = "result" THEN Discard ELSE UNCHANGED <<generation, boot>>
  /\ UNCHANGED <<page, want, ran, read, watch>>

---------------------------------------------------------------------------
Init ==
  /\ page \in Pages /\ want = [load |-> 1, attempt |-> 0] /\ ran = [load |-> 0, attempt |-> 0]
  /\ generation = 0 /\ read = [r \in 1 .. MaxReads |-> Unread] /\ watch = NoWatch /\ denials = 0
  /\ boot = [load |-> 0, attempt |-> 0, data |-> Nothing, since |-> 0]
  /\ live = [load |-> 0, data |-> Nothing, forbidden |-> FALSE, since |-> 0]

Next == \/ Turn \/ Reload \/ Effects \/ Snapshot \/ Denied
        \/ \E r \in 1 .. MaxReads : Answered(r) \/ Failed(r)
Spec == Init /\ [][Next]_pageVars

---------------------------------------------------------------------------
(* Properties *)

TypeOK ==
  /\ boot.data \in Statuses \cup {Nothing} /\ live.data \in Statuses \cup {Nothing}
  /\ generation \in 0 .. MaxReads /\ watch.load \in 0 .. MaxTurns

(* What is shown is of the page of results that is asked for, whichever    *)
(* read or observer of another page answers late.                          *)
ShownIsAsked == Shown.data # Nothing => Shown.load = want.load

(* On the page of results nothing that was asked for before the observer   *)
(* was rejected is shown after it ("a live permission rejection            *)
(* invalidates bootstrap data too").                                       *)
DeniedIsGone == page = "result" /\ Shown.data # Nothing => Shown.since = denials

(* A page that says it is loading has a read under way that it will hear,  *)
(* or is about to begin one.                                               *)
LoadingEnds ==
  Loading => EffectsDue \/ (generation > 0 /\ read[generation].flying /\ Hears(generation))
=============================================================================
