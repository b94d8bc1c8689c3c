------------------------------ MODULE LLMCall ------------------------------
(***************************************************************************)
(* The model calls of one execution: every thread runs a combination of    *)
(* its own, whose strategy calls the model through the problem's budget    *)
(* gate (src/budget.py), the client with its cache and retries             *)
(* (src/llm_client.py, src/cache.py) and the spend recorder all threads    *)
(* share (api/services/spend_records.py). An attempt is paid for whatever  *)
(* comes of it, so it must be on file; once a record is lost no new call   *)
(* may go out.                                                             *)
(***************************************************************************)
EXTENDS Naturals

CONSTANTS
  Threads,    \* combinations that run side by side
  MaxCalls,   \* calls a problem's budget covers
  MaxTokens,  \* tokens a problem's budget covers
  PerCall,    \* most tokens of one response
  Attempts,   \* retry_max_attempts
  MaxProblems \* bound: problems of a combination

VARIABLES
  call,     \* threads: pc, attempt, and the event to record with its tokens
  ledger,   \* threads: the open problem's entry in the BudgetTracker
  cached,   \* threads whose prompt the cache holds an answer for
  failed,   \* SpendRecorder._failed
  reserved, attempts, rows, \* quota units taken, provider attempts, spend rows, by thread
  problems  \* problems begun

callVars == <<call, ledger, cached, failed, reserved, attempts, rows, problems>>

Fresh == [pc |-> "ready", try |-> 1, event |-> "none", tokens |-> 0]
Entry == [calls |-> 0, tokens |-> 0, stop |-> "none"]

(* begin_problem. An earlier run may have left an answer in the cache.     *)
Begin(t) ==
  /\ call[t].pc = "idle" /\ problems[t] < MaxProblems
  /\ problems' = [problems EXCEPT ![t] = @ + 1]
  /\ ledger' = [ledger EXCEPT ![t] = Entry] /\ call' = [call EXCEPT ![t] = Fresh]
  /\ cached' \in {cached, cached \cup {t}}
  /\ UNCHANGED <<failed, reserved, attempts, rows>>

(* allow_call: the limit that is reached. *)
Stops(e) == CASE e.calls >= MaxCalls -> "max_calls"
              [] e.calls < MaxCalls /\ e.tokens >= MaxTokens -> "max_tokens"
              [] OTHER -> "none"

(* _admit_call: a call counts before it is made; BudgetExhausted otherwise. *)
Admit(t) ==
  LET stop == Stops(ledger[t])
  IN  /\ call[t].pc = "ready"
      /\ ledger' = IF stop = "none" THEN [ledger EXCEPT ![t].calls = @ + 1]
                   ELSE [ledger EXCEPT ![t].stop = stop]
      /\ call' = [call EXCEPT ![t].pc = IF stop = "none" THEN "check" ELSE "end"]
      /\ UNCHANGED <<cached, failed, reserved, attempts, rows, problems>>

(* Slip: the calls of one execution do not look at each other's failures. *)
NeverBlocks == FALSE

(* SpendRecorder.check, which before_generate calls. *)
Blocks == failed

Check(t) ==
  /\ call[t].pc = "check"
  /\ call' = [call EXCEPT ![t] = IF Blocks THEN Fresh ELSE [@ EXCEPT !.pc = "lookup"]]
  /\ UNCHANGED <<ledger, cached, failed, reserved, attempts, rows, problems>>

(* A hit is recorded too, at no cost. The entry may have expired or be torn. *)
Lookup(t) ==
  /\ call[t].pc = "lookup"
  /\ \/ /\ t \in cached
        /\ \E n \in 0 .. PerCall :
             call' = [call EXCEPT ![t] = [@ EXCEPT !.pc = "save", !.event = "hit", !.tokens = n]]
     \/ call' = [call EXCEPT ![t].pc = "reserve"]
  /\ UNCHANGED <<ledger, cached, failed, reserved, attempts, rows, problems>>

(* LLMAdmissionError passes through generate unrecorded. *)
Refused(t) == call' = [call EXCEPT ![t] = Fresh]

(* _reserve_api_attempt: one unit of the user's quota before each attempt. *)
Reserve(t) ==
  /\ call[t].pc = "reserve"
  /\ \/ /\ call' = [call EXCEPT ![t].pc = "attempt"]
        /\ reserved' = [reserved EXCEPT ![t] = @ + 1]
     \/ Refused(t) /\ UNCHANGED reserved
  /\ UNCHANGED <<ledger, cached, failed, attempts, rows, problems>>

(* Slip: one attempt too many. *)
RetriesOnceMore(t) == call[t].try <= Attempts

(* The attempt was not the last one. *)
MayRetry(t) == call[t].try < Attempts

(* A provider attempt: an answer (usage may be missing: no tokens), an     *)
(* error that is retried, or one that is raised: not retryable, the last   *)
(* attempt, or no time left for another.                                   *)
Attempt(t) ==
  /\ call[t].pc = "attempt"
  /\ attempts' = [attempts EXCEPT ![t] = @ + 1]
  /\ \/ \E n \in 0 .. PerCall :
          call' = [call EXCEPT ![t] = [@ EXCEPT !.pc = "save", !.event = "answer", !.tokens = n]]
     \/ call' = [call EXCEPT ![t] = [@ EXCEPT !.pc = "save", !.event = "error"]]
     \/ /\ MayRetry(t)
        /\ call' = [call EXCEPT ![t] = [@ EXCEPT !.pc = "save", !.event = "retry"]]
  /\ UNCHANGED <<ledger, cached, failed, reserved, rows, problems>>

(* on_response: the row is committed; a retry goes on, an answer is cached *)
(* and counted by the budget (BudgetTracker.record).                       *)
Save(t) ==
  LET event == call[t].event
  IN  /\ call[t].pc = "save"
      /\ rows' = [rows EXCEPT ![t] = IF event = "hit" THEN @ ELSE @ + 1]
      /\ call' = [call EXCEPT ![t] = IF event = "retry"
                                     THEN [Fresh EXCEPT !.pc = "reserve", !.try = call[t].try + 1]
                                     ELSE Fresh]
      /\ \/ /\ event \in {"hit", "answer"}
            /\ ledger' = [ledger EXCEPT ![t].tokens = @ + call[t].tokens]
            /\ cached' = cached \cup {t}
         \/ event \notin {"hit", "answer"} /\ UNCHANGED <<ledger, cached>>
         \/ event = "answer" /\ UNCHANGED <<ledger, cached>>   \* cache.set raises
      /\ UNCHANGED <<failed, reserved, attempts, problems>>

(* The write fails; the flag is set next, and then the error is raised. *)
SaveFails(t) ==
  /\ call[t].pc = "save" /\ call' = [call EXCEPT ![t].pc = "lose"]
  /\ UNCHANGED <<ledger, cached, failed, reserved, attempts, rows, problems>>

Lose(t) ==
  /\ call[t].pc = "lose" /\ failed' = TRUE /\ call' = [call EXCEPT ![t] = Fresh]
  /\ UNCHANGED <<ledger, cached, reserved, attempts, rows, problems>>

(* The strategy is done, or the gate ended it: finalize_problem. *)
End(t) ==
  /\ call[t].pc \in {"ready", "end"} /\ call' = [call EXCEPT ![t].pc = "idle"]
  /\ ledger' = [ledger EXCEPT ![t].stop = IF @ = "none" THEN "completed" ELSE @]
  /\ cached' = cached \ {t}     \* the next problem asks other questions
  /\ UNCHANGED <<failed, reserved, attempts, rows, problems>>

Init ==
  /\ call = [t \in Threads |-> [Fresh EXCEPT !.pc = "idle"]]
  /\ ledger = [t \in Threads |-> Entry] /\ cached = {} /\ failed = FALSE
  /\ reserved = [t \in Threads |-> 0] /\ attempts = reserved /\ rows = reserved
  /\ problems = reserved

Next == \E t \in Threads :
  \/ Begin(t) \/ Admit(t) \/ Check(t) \/ Lookup(t) \/ Reserve(t) \/ Attempt(t)
  \/ Save(t) \/ SaveFails(t) \/ Lose(t) \/ End(t)

Spec == Init /\ [][Next]_callVars

---------------------------------------------------------------------------
(* Properties *)

TypeOK ==
  /\ \A t \in Threads : ledger[t].stop \in {"none", "completed", "max_calls", "max_tokens"}
  /\ \A t \in Threads : call[t].try \in 1 .. Attempts /\ problems[t] <= MaxProblems
  /\ cached \subseteq Threads /\ failed \in BOOLEAN

(* Every provider attempt has its row, retried and failed ones included,   *)
(* and nothing else has: a thread loses at most the row of one attempt     *)
(* (its last) for good, and only with the recorder marked failed. Quota is *)
(* taken for exactly the attempts (generate, _call_with_retry, check).     *)
SpendIsOnFile == \A t \in Threads :
  /\ rows[t] <= attempts[t] /\ attempts[t] <= rows[t] + 1
  /\ attempts[t] > rows[t] => call[t].pc \in {"save", "lose"} \/ failed
  /\ reserved[t] = attempts[t] + (IF call[t].pc = "attempt" THEN 1 ELSE 0)

(* No problem exceeds its calls, nor its tokens by more than the answer    *)
(* that reached the limit, and its stop reason says which limit ended it.  *)
BudgetIsKept == \A t \in Threads :
  /\ ledger[t].calls <= MaxCalls /\ ledger[t].tokens < MaxTokens + PerCall
  /\ ledger[t].stop = "max_calls" => ledger[t].calls = MaxCalls
  /\ ledger[t].stop = "max_tokens" => ledger[t].tokens >= MaxTokens
=============================================================================
