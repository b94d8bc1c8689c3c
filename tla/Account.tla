------------------------------ MODULE Account ------------------------------
(***************************************************************************)
(* What the API keeps for one user across its processes: the session with  *)
(* its rotating refresh token, the calendar quota of API calls and the     *)
(* window of a rate limit (api/auth/{store,service}.py), and the number of *)
(* evaluations that may be alive (src/task_manager.py,                     *)
(* _check_evaluation_capacity). Every SQL statement, and every transaction  *)
(* under BEGIN IMMEDIATE, is one step.                                     *)
(***************************************************************************)
EXTENDS Naturals, FiniteSets

CONSTANTS
  Procs,                 \* requests that may be under way at once
  DayLimit, MonthLimit,  \* settings: API calls
  RateLimit,             \* settings: requests in a window
  LiveLimit,             \* setting: MAX_CONCURRENT_EVALUATIONS_PER_USER
  MaxTokens, MaxDay, Tasks \* bounds: rotations, days, evaluations

VARIABLES
  session, \* refresh hash on file, revoked
  spent,   \* how often each refresh token was exchanged
  day,     \* the calendar (the month is all of it)
  calls,   \* auth_user_api_calls: the rows of the days, and the row of the month
  made,    \* history: the calls admitted, each with its day and number
  rate,    \* auth_rates: requests counted in the present window
  task,    \* status of each evaluation's task
  lock,    \* who holds the user's admission lock
  proc     \* requests: pc, the token shown, the evaluation asked for

accountVars == <<session, spent, day, calls, made, rate, task, lock, proc>>
sessionPart == <<session, spent>>
quotaPart   == <<day, calls, made, rate>>
livePart    == <<task, lock>>

Idle == [pc |-> "idle", token |-> 0, day |-> 0, task |-> "none"]
Go(p, pc) == proc' = [proc EXCEPT ![p].pc = pc]
Over(p)   == proc' = [proc EXCEPT ![p] = Idle]
Alive     == {t \in Tasks : task[t] \in {"pending", "running"}}

---------------------------------------------------------------------------
(* Session *)

(* refresh: any token of the session that was ever issued may be shown;    *)
(* the session is looked up first.                                         *)
ShowToken(p) ==
  /\ proc[p].pc = "idle" /\ ~session.revoked
  /\ \E t \in 0 .. session.hash : proc' = [proc EXCEPT ![p] = [Idle EXCEPT !.pc = "rotate", !.token = t]]
  /\ UNCHANGED <<sessionPart, quotaPart, livePart>>

(* Slip: the session that was read is not compared again. *)
RotatesLive(t) == ~session.revoked

(* rotate: the token on file, of a session that is still live. *)
Rotates(t) == ~session.revoked /\ session.hash = t

Rotate(p) ==
  /\ proc[p].pc = "rotate" /\ session.hash < MaxTokens /\ Over(p)
  /\ IF Rotates(proc[p].token)
     THEN /\ session' = [session EXCEPT !.hash = @ + 1]
          /\ spent' = [spent EXCEPT ![proc[p].token] = @ + 1]
     ELSE UNCHANGED sessionPart
  /\ UNCHANGED <<quotaPart, livePart>>

Logout ==
  /\ ~session.revoked /\ session' = [session EXCEPT !.revoked = TRUE]
  /\ UNCHANGED <<spent, quotaPart, livePart, proc>>

---------------------------------------------------------------------------
(* Quota and rate *)

AskCall(p) ==
  /\ proc[p].pc = "idle" /\ proc' = [proc EXCEPT ![p] = [Idle EXCEPT !.pc = "reserve", !.day = day]]
  /\ UNCHANGED <<sessionPart, quotaPart, livePart>>

(* The calendar is read under the lock. *)
Period(p) == day

(* reserve_user_api_call, for SDK attempts of the user's own evaluations. *)
Reserve(p) ==
  /\ proc[p].pc = "reserve" /\ Over(p)
  /\ IF calls.daily[Period(p)] >= DayLimit \/ calls.month >= MonthLimit
     THEN UNCHANGED <<calls, made>>
     ELSE /\ calls' = [calls EXCEPT !.daily[Period(p)] = @ + 1, !.month = @ + 1]
          /\ made' = made \cup {<<day, Cardinality(made)>>}
  /\ UNCHANGED <<day, rate, sessionPart, livePart>>

(* allow: a fixed window. *)
Allow ==
  /\ rate < RateLimit /\ rate' = rate + 1
  /\ UNCHANGED <<day, calls, made, sessionPart, livePart, proc>>

NextWindow == rate' = 0 /\ UNCHANGED <<day, calls, made, sessionPart, livePart, proc>>
Midnight   == day < MaxDay /\ day' = day + 1 /\ UNCHANGED <<calls, made, rate, sessionPart, livePart, proc>>

---------------------------------------------------------------------------
(* Evaluations alive at once *)

(* The advisory lock of the user, held until the transaction ends. *)
TakesLock(p) == lock = "nobody" /\ lock' = p

(* enqueue_task and resume_task admit a new task or one that was paused. *)
Count(p) ==
  /\ proc[p].pc = "idle"
  /\ \E t \in Tasks :
       /\ task[t] \in {"none", "paused"} /\ TakesLock(p)
       /\ proc' = [proc EXCEPT ![p] = [Idle EXCEPT !.task = t,
                     !.pc = IF Cardinality(Alive) >= LiveLimit THEN "refused" ELSE "insert"]]
  /\ UNCHANGED <<sessionPart, quotaPart, task>>

Unlock(p) == lock' = IF lock = p THEN "nobody" ELSE lock

(* The transaction commits, unless the task is no longer as it was, or is  *)
(* rolled back.                                                            *)
Insert(p) ==
  /\ proc[p].pc \in {"insert", "refused"} /\ Over(p) /\ Unlock(p)
  /\ \/ /\ proc[p].pc = "insert" /\ task[proc[p].task] \in {"none", "paused"}
        /\ task' = [task EXCEPT ![proc[p].task] = "pending"]
     \/ UNCHANGED task
  /\ UNCHANGED <<sessionPart, quotaPart>>

(* Workers and other requests change the status of a live task without the *)
(* lock: capacity needs no counter to be repaired.                         *)
Move(t) ==
  /\ \/ task[t] = "pending" /\ task' = [task EXCEPT ![t] = "running"]
     \/ task[t] = "running" /\ \E s \in {"paused", "ended"} : task' = [task EXCEPT ![t] = s]
     \/ task[t] \in {"pending", "paused"} /\ task' = [task EXCEPT ![t] = "ended"]
  /\ UNCHANGED <<sessionPart, quotaPart, lock, proc>>

---------------------------------------------------------------------------
Init ==
  /\ session = [hash |-> 0, revoked |-> FALSE] /\ spent = [t \in 0 .. MaxTokens |-> 0]
  /\ day = 0 /\ calls = [daily |-> [d \in 0 .. MaxDay |-> 0], month |-> 0] /\ made = {} /\ rate = 0
  /\ task = [t \in Tasks |-> "none"] /\ lock = "nobody" /\ proc = [p \in Procs |-> Idle]

Next == \/ Logout \/ Allow \/ NextWindow \/ Midnight \/ (\E t \in Tasks : Move(t))
        \/ \E p \in Procs : ShowToken(p) \/ Rotate(p) \/ AskCall(p) \/ Reserve(p) \/ Count(p) \/ Insert(p)
Spec == Init /\ [][Next]_accountVars

---------------------------------------------------------------------------
(* Properties *)

TypeOK ==
  /\ session.hash \in 0 .. MaxTokens /\ day \in 0 .. MaxDay /\ rate \in Nat
  /\ \A t \in Tasks : task[t] \in {"none", "pending", "running", "paused", "ended"}
  /\ lock \in Procs \cup {"nobody"}

(* A refresh token is exchanged once, however many requests show it at the *)
(* same time, while the owner logs out (rotate, revoke).                   *)
TokenIsSpentOnce ==
  \A t \in 0 .. MaxTokens : spent[t] = IF t < session.hash THEN 1 ELSE 0

(* A call that is admitted after midnight counts for the new day, the rows *)
(* of the days and of the month tell the calls that were admitted, and no  *)
(* limit is passed ("Compute the calendar after acquiring the lock so a    *)
(* wait across midnight is safe").                                         *)
QuotaIsKept ==
  /\ \A d \in 0 .. MaxDay :
       Cardinality({c \in made : c[1] = d}) = calls.daily[d] /\ calls.daily[d] <= DayLimit
  /\ Cardinality(made) = calls.month /\ calls.month <= MonthLimit /\ rate <= RateLimit

(* No more evaluations of the user are pending or running than the setting *)
(* allows, whoever starts and resumes at the same time.                    *)
CapacityIsKept == Cardinality(Alive) <= LiveLimit
=============================================================================
