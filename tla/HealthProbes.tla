----------------------------- MODULE HealthProbes -----------------------------
(***************************************************************************)
(* The probes behind the health pages: each shares one measurement and a   *)
(* short cache among the threads of the API (queue_health.py: QueueProbes, *)
(* a child process; containers.py: ContainerProbes; probes.py: the sandbox *)
(* preflight, measured under its lock; readiness.py: ReadinessCheck, a     *)
(* thread that outlives those who wait for it). What is measured may       *)
(* change at any time, hang, or be cut short by the shutdown.              *)
(***************************************************************************)
EXTENDS Integers, FiniteSets

CONSTANTS
  Callers,    \* threads that serve a request
  Ttl,        \* MONITOR_QUEUE_CACHE_SECONDS and the like
  Limit,      \* READINESS_TIMEOUT_SECONDS
  MaxNow      \* bound: the clock

VARIABLES
  kind,       \* which of the four probes
  now,
  probe,      \* the measurement: [on, by, deadline, saw]
  cache,      \* what is served until it is too old: [till, saw]
  caller,     \* [pc, asked, told, deadline, saw]
  shut        \* "open", "closing", "closed"

vars == <<kind, now, probe, cache, caller, shut>>

ProbeKinds == {"queue", "containers", "sandbox", "ready"}

(* A measurement: what it found and when it looked. *)
Nothing == [found |-> "nothing", at |-> 0]
Bad(t)  == [found |-> "bad", at |-> t]
Found   == [found : {"ok", "bad"}, at : 0..MaxNow] \cup {Nothing}

Idle  == [on |-> FALSE, by |-> 0, deadline |-> 0, saw |-> Nothing]
Empty == [till |-> 0, saw |-> Nothing]

Sooner(S) == CHOOSE t \in S : \A s \in S : t <= s

TypeOK ==
  /\ kind \in ProbeKinds /\ now \in 0..MaxNow
  /\ probe.on \in BOOLEAN /\ probe.saw \in Found
  /\ cache.saw \in Found /\ cache.till \in 0..MaxNow + Ttl
  /\ \A c \in Callers : /\ caller[c].pc \in {"idle", "owner", "holding", "waiting", "done"}
                        /\ caller[c].saw \in Found
  /\ shut \in {"open", "closing", "closed"}

Init ==
  /\ kind \in ProbeKinds
  /\ now = 0
  /\ probe = Idle
  /\ cache = Empty
  /\ caller = [c \in Callers |-> [pc |-> "idle", asked |-> 0, told |-> 0, deadline |-> 0, saw |-> Nothing]]
  /\ shut = "open"

Fresh == now < cache.till

(* A caller is answered; "bad" stands for every status but ok. *)
Answered(c, saw) == [caller EXCEPT ![c] = [@ EXCEPT !.pc = "done", !.told = now, !.deadline = 0, !.saw = saw]]
Asks(c, pc, deadline) ==
  [caller EXCEPT ![c].pc = pc, ![c].asked = now, ![c].deadline = deadline]
AtOnce(c, saw) == caller' = [caller EXCEPT ![c] = [pc |-> "done", asked |-> now, told |-> now,
                                                   deadline |-> 0, saw |-> saw]]
Refused(c) == AtOnce(c, Bad(now))
Served(c) == AtOnce(c, cache.saw)

(* Callers are interchangeable: they ask in turn. *)
Turn(c) == caller[c].pc = "idle" /\ \A d \in Callers : d < c => caller[d].pc # "idle"

Begins(c, deadline) ==
  probe' = [on |-> TRUE, by |-> c, deadline |-> deadline, saw |-> Nothing]

---------------------------------------------------------------------------
(* QueueProbes.read, ContainerProbes.read, MonitorProbes.sandbox: under    *)
(* the lock, the cache, then the measurement under way, then a new one. A  *)
(* caller of the sandbox waits for the lock; a child may fail to start.    *)
Read(c) ==
  /\ kind # "ready" /\ Turn(c)
  /\ kind = "sandbox" => ~probe.on
  /\ \/ shut # "open" /\ kind # "sandbox" /\ Refused(c) /\ UNCHANGED probe
     \/ (shut = "open" \/ kind = "sandbox") /\ Fresh /\ Served(c) /\ UNCHANGED probe
     \/ /\ shut = "open" \/ kind = "sandbox"
        /\ ~Fresh
        /\ \/ probe.on /\ Refused(c) /\ UNCHANGED probe
           \/ ~probe.on /\ caller' = Asks(c, "owner", 0) /\ Begins(c, 0)
           \/ ~probe.on /\ kind = "queue" /\ Refused(c) /\ UNCHANGED probe
  /\ UNCHANGED <<kind, now, cache, shut>>

(* The measurement looks. *)
Look(ok) ==
  /\ probe.on /\ probe.saw = Nothing
  /\ probe' = [probe EXCEPT !.saw = [found |-> IF ok THEN "ok" ELSE "bad", at |-> now]]
  /\ UNCHANGED <<kind, now, cache, caller, shut>>

(* The child ended, with its reply or without: timeout, failure, or killed.*)
EndChild(c) ==
  /\ kind = "queue" /\ caller[c].pc = "owner"
  /\ probe' = Idle
  /\ \E saw \in {probe.saw, Bad(now)} \ {Nothing} :
       caller' = [caller EXCEPT ![c].pc = "holding", ![c].saw = saw]
  /\ UNCHANGED <<kind, now, cache, shut>>

(* The lock is taken again to store the reply. *)
StoreReply(c) ==
  /\ kind = "queue" /\ caller[c].pc = "holding"
  /\ \/ shut = "open" /\ cache' = [till |-> now + Ttl, saw |-> caller[c].saw]
                      /\ caller' = Answered(c, caller[c].saw)
     \/ shut # "open" /\ UNCHANGED cache /\ caller' = Answered(c, Bad(now))
  /\ UNCHANGED <<kind, now, probe, shut>>

(* The containers' reply is stored before the next measurement may begin;  *)
(* that of the sandbox when its lock is released.                          *)
Finish(c) ==
  /\ kind \in {"containers", "sandbox"} /\ caller[c].pc = "owner"
  /\ \E saw \in {probe.saw, Bad(now)} \ {Nothing} :
       \/ shut # "open" /\ kind = "containers" /\ UNCHANGED cache
          /\ caller' = [caller EXCEPT ![c].pc = "holding", ![c].saw = Bad(now)]
       \/ (shut = "open" \/ kind = "sandbox") /\ cache' = [till |-> now + Ttl, saw |-> saw]
          /\ caller' = IF kind = "sandbox" THEN Answered(c, saw)
                       ELSE [caller EXCEPT ![c].pc = "holding", ![c].saw = saw]
  /\ probe' = IF kind = "sandbox" THEN Idle ELSE probe
  /\ UNCHANGED <<kind, now, shut>>

Release(c) ==
  /\ kind = "containers" /\ caller[c].pc = "holding"
  /\ probe' = Idle
  /\ caller' = Answered(c, caller[c].saw)
  /\ UNCHANGED <<kind, now, cache, shut>>

---------------------------------------------------------------------------
(* ReadinessCheck. The deadline was set when the request came.             *)

InTime == now < probe.deadline

Check(c, deadline) ==
  /\ kind = "ready" /\ Turn(c)
  /\ deadline \in now .. now + Limit
  /\ \/ now >= deadline /\ Refused(c) /\ UNCHANGED <<probe, cache>>
     \/ now < deadline /\ Fresh /\ Served(c) /\ UNCHANGED <<probe, cache>>
     \/ /\ now < deadline /\ ~Fresh
        /\ \/ probe.on /\ UNCHANGED <<probe, cache>> /\ caller' = Asks(c, "waiting", deadline)
           \/ ~probe.on /\ Begins(c, Sooner({now + Limit, deadline})) /\ UNCHANGED cache
                        /\ caller' = Asks(c, "waiting", deadline)
           \/ ~probe.on /\ Refused(c) /\ UNCHANGED probe
                        /\ cache' = [till |-> now + Ttl, saw |-> Bad(now)]
  /\ UNCHANGED <<kind, now, shut>>

(* _collect *)
Collect ==
  /\ kind = "ready" /\ probe.on /\ probe.saw # Nothing
  /\ cache' = [till |-> now + Ttl, saw |-> IF InTime THEN probe.saw ELSE Bad(now)]
  /\ probe' = Idle
  /\ UNCHANGED <<kind, now, caller, shut>>

(* A waiter wakes up late: the reply it returns is the last one, unless    *)
(* another measurement has begun.                                          *)
Wake(c) ==
  /\ kind = "ready" /\ caller[c].pc = "waiting" /\ ~probe.on
  /\ caller' = Answered(c, cache.saw)
  /\ UNCHANGED <<kind, now, probe, cache, shut>>

GiveUp(c) ==
  /\ kind = "ready" /\ caller[c].pc = "waiting" /\ probe.on
  /\ now >= Sooner({probe.deadline, caller[c].deadline})
  /\ cache' = [till |-> now + Ttl, saw |-> Bad(now)]
  /\ caller' = Answered(c, Bad(now))
  /\ UNCHANGED <<kind, now, probe, shut>>

---------------------------------------------------------------------------
(* close: no new measurement, nothing more to serve; the child is killed,  *)
(* and waited for, the containers' measurement only waited for.            *)
Close ==
  /\ kind \in {"queue", "containers"} /\ shut = "open"
  /\ shut' = "closing"
  /\ cache' = Empty
  /\ UNCHANGED <<kind, now, probe, caller>>

Closed ==
  /\ shut = "closing"
  /\ kind = "containers" => ~probe.on
  /\ probe' = IF kind = "queue" /\ probe.on THEN [probe EXCEPT !.on = FALSE] ELSE probe
  /\ shut' = "closed"
  /\ UNCHANGED <<kind, now, cache, caller>>

Tick ==
  /\ now < MaxNow
  /\ now' = now + 1
  /\ UNCHANGED <<kind, probe, cache, caller, shut>>

Next ==
  \/ \E c \in Callers : \/ Read(c) \/ EndChild(c) \/ StoreReply(c) \/ Finish(c) \/ Release(c)
                        \/ Wake(c) \/ GiveUp(c)
                        \/ \E d \in 0 .. MaxNow + Limit : Check(c, d)
  \/ \E ok \in BOOLEAN : Look(ok)
  \/ Collect \/ Close \/ Closed \/ Tick

Spec == Init /\ [][Next]_vars

---------------------------------------------------------------------------
Told(c) == caller[c].pc = "done" /\ caller[c].saw.found = "ok"

(* The API is only ever called ready for what a probe saw in time: no      *)
(* longer ago than the cache and the wait allow, counted from the request  *)
(* (check, _collect).                                                      *)
ReadyIsFresh ==
  kind = "ready" => \A c \in Callers : Told(c) => caller[c].saw.at >= caller[c].asked - Ttl - Limit

(* Whoever asks after another was answered is not told of an earlier look  *)
(* than that one was: a slow measurement does not come back over a newer   *)
(* (ContainerProbes.read, sandbox, _collect). A child's reply may.         *)
NeverBack ==
  kind # "queue" =>
    \A c, d \in Callers :
      Told(c) /\ Told(d) /\ caller[d].asked > caller[c].told
        => caller[d].saw.at >= caller[c].saw.at

(* One measurement at a time, and its owner is there to clean up after it; *)
(* none is left when close returns, and nobody is served afterwards        *)
(* (_processes, _running, close).                                          *)
OneAtATime ==
  /\ kind # "ready" =>
       /\ Cardinality({c \in Callers : caller[c].pc = "owner"}) <= 1
       /\ probe.on => caller[probe.by].pc \in {"owner", "holding"}
  /\ shut = "closed" => ~probe.on
  /\ shut # "open" => cache = Empty

ProbesAreHonest == ReadyIsFresh /\ NeverBack /\ OneAtATime
=============================================================================
