--------------------------- MODULE BrowserSession ---------------------------
(***************************************************************************)
(* The session of one tab (frontend/src/auth/http.ts, refreshCoordinator,  *)
(* tokenStore, store/auth.ts). The cookies are the browser's; what is kept *)
(* is a marker of the login, when it expires and the token against forged  *)
(* requests. Requests wait for one refresh at a time, before they are sent *)
(* or after an answer 401, while the owner logs out or in as another. What *)
(* one promise does between two awaits is one step.                        *)
(***************************************************************************)
EXTENDS Naturals

CONSTANTS
  Calls,       \* requests that may be under way at once
  MaxLogins    \* bound: logins

VARIABLES
  stored,   \* StoredSession: marker of a login, owner of the token, expires soon
  latest,   \* latestCsrf: the login whose token was seen last
  entering, \* a login was posted
  flight,   \* the coordinator's inflight: the login it refreshes, or 0
  req,      \* requests
  logins    \* logins so far

browserVars == <<stored, latest, entering, flight, req, logins>>

Nobody == [marker |-> 0, csrf |-> 0, due |-> FALSE]
Quiet  == [kind |-> "page", pc |-> "idle", marker |-> 0, retried |-> FALSE]

(* assertCurrentSession *)
Current(r) == req[r].marker = stored.marker

---------------------------------------------------------------------------
(* What a step does to request r, and to the coordinator *)

(* coordinator.refresh: joins the refresh under way, or begins one for the *)
(* session on file.                                                        *)
Join == flight' = IF flight = 0 THEN stored.marker ELSE flight

(* The request interceptor, from the first check to the await or the wire. *)
Dispatch(r, q) ==
  IF q.marker # stored.marker THEN req' = [req EXCEPT ![r] = [q EXCEPT !.pc = "lost"]] /\ UNCHANGED flight
  ELSE IF stored.due THEN req' = [req EXCEPT ![r] = [q EXCEPT !.pc = "gate"]] /\ Join
  ELSE req' = [req EXCEPT ![r] = [q EXCEPT !.pc = "sent"]] /\ UNCHANGED flight

(* The caller hears of the end of r: logout clears whatever is on file,    *)
(* login adds the name to the session it wrote, or gives it up.            *)
End(r, given) ==
  /\ req' = [req EXCEPT ![r] = Quiet]
  /\ CASE req[r].kind = "logout" -> stored' = Nobody
       [] req[r].kind = "profile" /\ Current(r) /\ stored # Nobody ->
            IF given THEN \E due \in {stored.due, TRUE} : stored' = [stored EXCEPT !.csrf = req[r].marker, !.due = due]
            ELSE stored' \in {stored, Nobody}
       [] OTHER -> UNCHANGED stored

---------------------------------------------------------------------------
(* Requests *)

Ask(r, kind) ==
  /\ req[r] = Quiet
  /\ Dispatch(r, [Quiet EXCEPT !.kind = kind, !.marker = stored.marker])
  /\ UNCHANGED <<stored, latest, entering, logins>>

(* After the await: the session is checked again. *)
Through(r) ==
  /\ req[r].pc = "through"
  /\ req' = [req EXCEPT ![r].pc = IF Current(r) THEN "sent" ELSE "lost"]
  /\ UNCHANGED <<stored, latest, entering, flight, logins>>

(* recover, after the await: once, and through the interceptor again. *)
Again(r) ==
  /\ req[r].pc = "again" /\ Dispatch(r, [req[r] EXCEPT !.retried = TRUE])
  /\ UNCHANGED <<stored, latest, entering, logins>>

Lost(r) == req[r].pc = "lost" /\ End(r, FALSE) /\ UNCHANGED <<latest, entering, flight, logins>>

(* Slip: the token is remembered before the answer's session is checked. *)
AnsweredFirst(r) ==
  /\ req[r].pc = "sent" /\ latest' = req[r].marker /\ UNCHANGED <<entering, flight, logins>>
  /\ req' = [req EXCEPT ![r] = Quiet]
  /\ stored' = IF stored # Nobody THEN [stored EXCEPT !.csrf = req[r].marker] ELSE stored

(* A good answer brings the token of its session. *)
Answered(r) ==
  /\ req[r].pc = "sent" /\ UNCHANGED <<entering, flight, logins>>
  /\ IF ~Current(r) THEN End(r, FALSE) /\ UNCHANGED latest
     ELSE /\ latest' = req[r].marker
          /\ IF req[r].kind = "page" /\ stored # Nobody
             THEN stored' = [stored EXCEPT !.csrf = req[r].marker] /\ req' = [req EXCEPT ![r] = Quiet]
             ELSE End(r, TRUE)

(* 401: a refresh and one more try; another error is the caller's. *)
Refused(r) ==
  /\ req[r].pc = "sent" /\ UNCHANGED <<latest, entering, logins>>
  /\ \/ End(r, FALSE) /\ UNCHANGED flight
     \/ /\ Current(r) /\ ~req[r].retried /\ (stored # Nobody \/ flight # 0)
        /\ req' = [req EXCEPT ![r].pc = "recover"] /\ Join /\ UNCHANGED stored

---------------------------------------------------------------------------
(* The refresh *)

(* isCurrent, after the await. *)
Writes == flight = stored.marker

Wake(ok) ==
  req' = [r \in Calls |->
            IF req[r].pc \notin {"gate", "recover"} THEN req[r]
            ELSE [req[r] EXCEPT !.pc = IF ~ok THEN "lost" ELSE IF @ = "gate" THEN "through" ELSE "again"]]

(* The answer to /auth/refresh: written if the session is still on file,   *)
(* and a refusal takes the session away.                                   *)
Refreshed(ok) ==
  /\ flight # 0 /\ flight' = 0 /\ Wake(ok /\ Writes)
  /\ IF ~Writes THEN UNCHANGED <<stored, latest>>
     ELSE IF ok THEN stored' = [marker |-> flight, csrf |-> flight, due |-> FALSE] /\ latest' = flight
     ELSE stored' = Nobody /\ UNCHANGED latest
  /\ UNCHANGED <<entering, logins>>

---------------------------------------------------------------------------
(* The owner *)

LoginPost == ~entering /\ logins < MaxLogins /\ entering' = TRUE /\ UNCHANGED <<stored, latest, flight, req, logins>>

(* login, after the await: a new marker, then the name is asked for. The   *)
(* login's answer and the login that waits for it are one step.            *)
LoginAnswered(r) ==
  /\ entering /\ entering' = FALSE /\ req[r] = Quiet
  /\ \/ /\ logins' = logins + 1 /\ latest' = logins'
        /\ stored' = [marker |-> logins', csrf |-> logins', due |-> FALSE]
        /\ req' = [req EXCEPT ![r] = [Quiet EXCEPT !.kind = "profile", !.pc = "sent", !.marker = logins']]
     \/ UNCHANGED <<stored, latest, req, logins>>
  /\ UNCHANGED flight

(* clear, for a page that meets the end of the session itself. *)
Clear == stored # Nobody /\ stored' = Nobody /\ UNCHANGED <<latest, entering, flight, req, logins>>

Age == /\ stored # Nobody /\ ~stored.due /\ stored' = [stored EXCEPT !.due = TRUE]
       /\ UNCHANGED <<latest, entering, flight, req, logins>>

(* The page is loaded again: hydrate, and a client without a past. *)
Reload == /\ entering' = FALSE /\ flight' = 0 /\ req' = [r \in Calls |-> Quiet]
          /\ latest' = stored.csrf /\ UNCHANGED <<stored, logins>>

Init == /\ stored = Nobody /\ latest = 0 /\ entering = FALSE /\ flight = 0
        /\ req = [r \in Calls |-> Quiet] /\ logins = 0

Next == \/ LoginPost \/ Clear \/ Age \/ Reload \/ (\E ok \in BOOLEAN : Refreshed(ok))
        \/ \E r \in Calls : \/ Ask(r, "page") \/ Ask(r, "logout") \/ Through(r) \/ Again(r)
                            \/ Lost(r) \/ Answered(r) \/ Refused(r) \/ LoginAnswered(r)
Spec == Init /\ [][Next]_browserVars

---------------------------------------------------------------------------
(* Properties *)

TypeOK ==
  /\ stored.marker \in 0 .. logins /\ latest \in 0 .. logins /\ flight \in 0 .. logins
  /\ \A r \in Calls : req[r].pc \in {"idle", "gate", "sent", "through", "recover", "again", "lost"}

(* The token that goes with a request is the one of the login on file, and *)
(* nobody waits for a refresh that is over.                                *)
TokenIsOwn == /\ stored.csrf = stored.marker
              /\ \A r \in Calls : req[r].pc \in {"gate", "recover"} => flight # 0

(* "Do not resurrect the old session or let its waiting requests retry":   *)
(* the session on file is replaced by a newer login only, and what is sent *)
(* is sent for the session on file.                                        *)
OldSessionIsOver ==
  /\ stored'.marker \in {0, stored.marker} \/ (stored'.marker = logins' /\ logins' > logins)
  /\ \A r \in Calls : req'[r].pc = "sent" /\ req[r].pc # "sent" => req'[r].marker = stored'.marker

(* Both, of every step. *)
SessionIsOwn == OldSessionIsOver /\ TokenIsOwn'
=============================================================================
