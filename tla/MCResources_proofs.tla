-------------------------- MODULE MCResources_proofs --------------------------
(***************************************************************************)
(* The services of MCResources, one by one: what each of their steps       *)
(* keeps, and what follows for the properties. MCServices_run_proofs makes *)
(* theorems about all behaviours of them.                                  *)
(***************************************************************************)
EXTENDS MCResources, FiniteSetTheorems, SequenceTheorems, TLAPS

(* A finite set of numbers has an order: count those that are not greater. *)
LEMMA OrderExists ==
  ASSUME NEW S \in SUBSET Nat, IsFiniteSet(S)
  PROVE  \E s \in [1 .. Cardinality(S) -> S] :
           /\ \A i, j \in 1 .. Cardinality(S) : i < j => s[i] < s[j]
           /\ \A u \in S : \E i \in 1 .. Cardinality(S) : s[i] = u
<1> DEFINE n == Cardinality(S)
           below(u) == {v \in S : v <= u}
           rank == [u \in S |-> Cardinality(below(u))]
<1>1. n \in Nat /\ \A T \in SUBSET S : IsFiniteSet(T) /\ Cardinality(T) \in Nat /\ Cardinality(T) <= n
  BY FS_CardinalityType, FS_Subset
<1>2. \A u \in S : rank[u] \in 1 .. n
  <2> SUFFICES ASSUME NEW u \in S PROVE rank[u] \in 1 .. n
    OBVIOUS
  <2>1. below(u) \in SUBSET S /\ below(u) # {}
    OBVIOUS
  <2>2. Cardinality(below(u)) # 0
    BY <1>1, <2>1, FS_EmptySet
  <2> QED
    BY <1>1, <2>1, <2>2
<1>3. \A u, v \in S : u < v => rank[u] < rank[v]
  <2> SUFFICES ASSUME NEW u \in S, NEW v \in S, u < v PROVE rank[u] < rank[v]
    OBVIOUS
  <2>1. below(u) \in SUBSET below(v) /\ below(v) \in SUBSET S
    <3>1. \A w \in S : w <= u => w <= v
      OBVIOUS
    <3> QED
      BY <3>1
  <2>4. v \in below(v) /\ v \notin below(u)
    OBVIOUS
  <2>2. /\ Cardinality(below(u)) <= Cardinality(below(v))
        /\ Cardinality(below(u)) # Cardinality(below(v))
    BY <1>1, <2>1, <2>4, FS_Subset
  <2>3. Cardinality(below(u)) \in Nat /\ Cardinality(below(v)) \in Nat
    BY <1>1, <2>1
  <2> QED
    BY <2>2, <2>3
<1> HIDE DEF rank
<1>4. rank \in [S -> 1 .. n]
  BY <1>2 DEF rank
<1>5. \A u, v \in S : rank[u] = rank[v] => u = v
  <2> SUFFICES ASSUME NEW u \in S, NEW v \in S, rank[u] = rank[v] PROVE u = v
    OBVIOUS
  <2>1. rank[u] \in Nat /\ rank[v] \in Nat /\ u \in Nat /\ v \in Nat
    BY <1>2
  <2> QED
    BY <1>3, <2>1
<1>6. \A i \in 1 .. n : \E u \in S : rank[u] = i
  <2>1. rank \in Injection(S, 1 .. n)
    BY <1>4, <1>5 DEF Injection, IsInjective
  <2>2. IsFiniteSet(1 .. n) /\ Cardinality(1 .. n) = n
    BY <1>1, FS_Interval
  <2>3. rank \in Surjection(S, 1 .. n)
    BY <2>1, <2>2, FS_Injection
  <2> QED
    BY <2>3 DEF Surjection
<1> DEFINE s == [i \in 1 .. n |-> CHOOSE u \in S : rank[u] = i]
<1>7. \A i \in 1 .. n : s[i] \in S /\ rank[s[i]] = i
  BY <1>6
<1>8. s \in [1 .. n -> S]
  BY <1>7
<1> HIDE DEF s, n
<1>9. \A i, j \in 1 .. n : i < j => s[i] < s[j]
  <2> SUFFICES ASSUME NEW i \in 1 .. n, NEW j \in 1 .. n, i < j, ~(s[i] < s[j]) PROVE FALSE
    OBVIOUS
  <2>1. s[i] \in Nat /\ s[j] \in Nat
    BY <1>7
  <2>2. s[j] < s[i] \/ s[j] = s[i]
    BY <2>1
  <2>3. rank[s[j]] < rank[s[i]] \/ rank[s[j]] = rank[s[i]]
    BY <1>3, <1>7, <2>2
  <2> QED
    BY <1>1, <1>7, <2>3
<1>10. \A u \in S : \E i \in 1 .. n : s[i] = u
  BY <1>2, <1>5, <1>7
<1> QED
  BY <1>8, <1>9, <1>10 DEF n

(* A finite set of numbers has a least and a greatest member.              *)
LEMMA EndsExist ==
  ASSUME NEW S \in SUBSET Nat, IsFiniteSet(S), S # {}
  PROVE  \E lo, hi \in S : \A f \in S : lo <= f /\ f <= hi
<1> DEFINE n == Cardinality(S)
<1>1. PICK s \in [1 .. n -> S] :
        /\ \A i, j \in 1 .. n : i < j => s[i] < s[j]
        /\ \A u \in S : \E i \in 1 .. n : s[i] = u
  BY OrderExists
<1>2. n \in Nat /\ n # 0
  BY FS_CardinalityType, FS_EmptySet
<1> HIDE DEF n
<1>3. 1 \in 1 .. n /\ n \in 1 .. n
  BY <1>2
<1>4. \A i \in 1 .. n : s[i] \in Nat /\ s[1] <= s[i] /\ s[i] <= s[n]
  <2> SUFFICES ASSUME NEW i \in 1 .. n PROVE s[i] \in Nat /\ s[1] <= s[i] /\ s[i] <= s[n]
    OBVIOUS
  <2>1. s[i] \in Nat /\ s[1] \in Nat /\ s[n] \in Nat
    BY <1>3
  <2>2. (i = 1 \/ 1 < i) /\ (i = n \/ i < n)
    BY <1>2
  <2>3. (1 < i => s[1] < s[i]) /\ (i < n => s[i] < s[n])
    BY <1>1, <1>3
  <2> QED
    BY <2>1, <2>2, <2>3
<1>5. s[1] \in S /\ s[n] \in S
  BY <1>3
<1>6. ASSUME NEW f \in S PROVE s[1] <= f /\ f <= s[n]
  <2>1. PICK i \in 1 .. n : s[i] = f
    BY <1>1
  <2> QED
    BY <1>4, <2>1
<1> QED
  BY <1>5, <1>6

---------------------------------------------------------------------------
(* The cost alerts *)

(* The dispatchers and the event of an alert are well-formed.              *)
AlertEvents == [state : {"none", "pending", "sent"}, at : Nat]

AlertRecords == [pc : {"idle", "claim", "send", "finish"}, seen : AlertEvents,
                 at : Nat, tries : Nat, sent : BOOLEAN]

AlertTyped == v1 \in Nat /\ v2 \in AlertEvents /\ v4 \in [Dispatchers -> AlertRecords]

(* Who is about to claim has seen either no event or a claim that is older *)
(* than a lease, and dates its own claim no later than now.                *)
AlertLooksBack == \A w \in Dispatchers :
  /\ v4[w].at <= v1
  /\ v4[w].pc = "claim" =>
       \/ v4[w].seen.state = "none"
       \/ v4[w].seen.state = "pending" /\ v4[w].seen.at + Lease <= v4[w].at

AlertInv == part = "alert" => AlertTyped /\ AlertLooksBack /\ Alert!LeaseIsExclusive

(* Types and times: no step is dated ahead of the clock.                   *)
LEMMA AlertTypes ==
  ASSUME Lease \in Nat \ {0}, AlertTyped, AlertLooksBack, Alert!Next
  PROVE  AlertTyped' /\ AlertLooksBack'
<1> USE DEF AlertTyped, AlertLooksBack, AlertEvents
<1>1. CASE Alert!Tick
  BY <1>1 DEF Alert!Tick, AlertRecords
<1>2. ASSUME NEW w \in Dispatchers, Alert!Look(w) PROVE AlertTyped' /\ AlertLooksBack'
  <2> DEFINE r == [Alert!Idle EXCEPT !.pc = "claim", !.seen = v2, !.at = v1]
  <2>1. v4' = [v4 EXCEPT ![w] = r] /\ v1' = v1 /\ v2' = v2
    BY <1>2 DEF Alert!Look
  <2>2. /\ r \in AlertRecords /\ r.at = v1 /\ r.seen = v2
        /\ v2.state = "none" \/ (v2.state = "pending" /\ v2.at + Lease <= v1)
    BY <1>2 DEF Alert!Look, Alert!Idle, Alert!NoEvent, AlertRecords
  <2> HIDE DEF r, AlertRecords
  <2> QED
    BY <2>1, <2>2
<1>3. ASSUME NEW w \in Dispatchers, Alert!Claim(w) PROVE AlertTyped' /\ AlertLooksBack'
  <2>1. CASE Alert!Wins(w)
    <3>1. /\ v4' = [v4 EXCEPT ![w].pc = "send"] /\ v1' = v1
          /\ v2' = [state |-> "pending", at |-> v4[w].at]
      BY <1>3, <2>1 DEF Alert!Claim, Alert!Pending
    <3> QED
      BY <3>1 DEF AlertRecords
  <2>2. CASE ~Alert!Wins(w)
    <3>1. v4' = [v4 EXCEPT ![w] = Alert!Idle] /\ v1' = v1 /\ v2' = v2
      BY <1>3, <2>2 DEF Alert!Claim
    <3>2. Alert!Idle \in AlertRecords /\ Alert!Idle.at = 0 /\ Alert!Idle.pc = "idle"
      BY DEF Alert!Idle, Alert!NoEvent, AlertRecords
    <3> HIDE DEF AlertRecords
    <3> QED
      BY <3>1, <3>2
  <2> QED
    BY <2>1, <2>2
<1>4. ASSUME NEW w \in Dispatchers, Alert!Deliver(w) PROVE AlertTyped' /\ AlertLooksBack'
  BY <1>4 DEF Alert!Deliver, AlertRecords
<1>5. ASSUME NEW w \in Dispatchers, Alert!Finish(w) PROVE AlertTyped' /\ AlertLooksBack'
  BY <1>5 DEF Alert!Finish, Alert!Pending, Alert!Idle, Alert!NoEvent, AlertRecords
<1>6. ASSUME NEW w \in Dispatchers, Alert!Renew(w) PROVE AlertTyped' /\ AlertLooksBack'
  BY <1>6 DEF Alert!Renew, Alert!Idle, Alert!NoEvent, AlertRecords
<1> QED
  BY <1>1, <1>2, <1>3, <1>4, <1>5, <1>6 DEF Alert!Next

(* A claim is won from nobody, or from a lease that has run out; a claim   *)
(* that is settled is one's own, and no other good lease has its date.     *)
LEMMA AlertExclusive ==
  ASSUME Lease \in Nat \ {0}, AlertTyped, AlertLooksBack, Alert!LeaseIsExclusive, Alert!Next
  PROVE  Alert!LeaseIsExclusive'
<1> USE DEF AlertTyped, AlertEvents, AlertRecords, Alert!LeaseIsExclusive, Alert!Holds, Alert!Pending
<1>1. CASE Alert!Tick
  BY <1>1 DEF Alert!Tick
<1>2. ASSUME NEW w \in Dispatchers, Alert!Look(w) PROVE Alert!LeaseIsExclusive'
  BY <1>2 DEF Alert!Look, Alert!Idle
<1>3. ASSUME NEW w \in Dispatchers, Alert!Claim(w) PROVE Alert!LeaseIsExclusive'
  <2>1. CASE Alert!Wins(w)
    <3>1. \A v \in Dispatchers : ~Alert!Holds(v)
      BY <1>3, <2>1 DEF Alert!Claim, Alert!Wins, AlertLooksBack
    <3>2. \A v \in Dispatchers \ {w} : v4'[v] = v4[v] /\ v1' = v1
      BY <1>3, <2>1 DEF Alert!Claim
    <3>3. v2' = Alert!Pending(v4'[w].at)
      BY <1>3, <2>1 DEF Alert!Claim
    <3> QED
      BY <3>1, <3>2, <3>3
  <2>2. CASE ~Alert!Wins(w)
    <3>1. v4' = [v4 EXCEPT ![w] = Alert!Idle] /\ v1' = v1 /\ v2' = v2
      BY <1>3, <2>2 DEF Alert!Claim
    <3>2. Alert!Idle.pc = "idle"
      BY DEF Alert!Idle
    <3>3. \A v \in Dispatchers : Alert!Holds(v)' => Alert!Holds(v) /\ v4'[v] = v4[v]
      BY <3>1, <3>2
    <3> QED
      BY <3>1, <3>3
  <2> QED
    BY <2>1, <2>2
<1>4. ASSUME NEW w \in Dispatchers, Alert!Deliver(w) PROVE Alert!LeaseIsExclusive'
  BY <1>4 DEF Alert!Deliver
<1>5. ASSUME NEW w \in Dispatchers, Alert!Finish(w) PROVE Alert!LeaseIsExclusive'
  <2>1. \A v \in Dispatchers : v4'[v] = IF v = w THEN Alert!Idle ELSE v4[v]
    BY <1>5 DEF Alert!Finish
  <2>2. \A v \in Dispatchers \ {w} : Alert!Holds(v) => v4[v].at # v4[w].at
    BY <1>5 DEF Alert!Finish
  <2>3. ASSUME NEW v \in Dispatchers \ {w}, Alert!Holds(v) PROVE v2' = v2
    BY <1>5, <2>2, <2>3 DEF Alert!Finish
  <2> QED
    BY <1>5, <2>1, <2>3 DEF Alert!Finish, Alert!Idle
<1>6. ASSUME NEW w \in Dispatchers, Alert!Renew(w) PROVE Alert!LeaseIsExclusive'
  BY <1>6 DEF Alert!Renew, Alert!Idle
<1> QED
  BY <1>1, <1>2, <1>3, <1>4, <1>5, <1>6 DEF Alert!Next

---------------------------------------------------------------------------
(* The sandboxed commands *)

SandboxTyped ==
  /\ v1 \in [Sandbox!Procs -> {"unborn", "alive", "dead"}]
  /\ v2 \in [Sandbox!Pipes -> SUBSET Sandbox!Procs]
  /\ v3 \in [Sandbox!Pipes -> Nat] /\ v4 \in [Sandbox!Pipes -> Nat]
  /\ v5 \in [Sandbox!Pipes -> {"read", "over", "kill", "done"}]
  /\ v6 \in BOOLEAN
  /\ v8 \in {"limit", "time", "exit", "settle", "finally", "ended"}

(* Only the living hold a pipe; a pump that stopped before the limit has   *)
(* read its pipe to the end; and the cap is passed exactly when a pump has *)
(* noticed it.                                                             *)
PumpsAreTrue ==
  /\ \A q \in Sandbox!Pipes :
       /\ v2[q] \subseteq Sandbox!Alive /\ v4[q] <= v3[q]
       /\ v5[q] = "done" => v6 \/ (v2[q] = {} /\ v4[q] = v3[q])
       /\ v5[q] = "kill" => v6
       /\ v5[q] = "over" => Sandbox!Total > Cap
  /\ v6 => Sandbox!Total > Cap
  /\ Sandbox!Total > Cap => v6 \/ \E q \in Sandbox!Pipes : v5[q] = "over"

(* Before the caller settles on success it has seen the child dead and     *)
(* both pumps done, which stays so.                                        *)
SandboxDone == v1["child"] = "dead" /\ \A q \in Sandbox!Pipes : v5[q] = "done"

CallerIsTrue ==
  /\ v8 = "ended" => Sandbox!Alive = {}
  /\ v8 = "settle" => SandboxDone
  /\ v9 = "ok" => SandboxDone /\ ~v6
  /\ v9 = "output_limit" => v6

SandboxInv == part = "sandbox" => SandboxTyped /\ PumpsAreTrue /\ CallerIsTrue

LEMMA SandboxTypes ==
  ASSUME Chunk \in Nat \ {0}, SandboxTyped, PumpsAreTrue, Sandbox!Next
  PROVE  SandboxTyped'
<1> USE DEF SandboxTyped, Sandbox!Procs, Sandbox!Pipes
<1>1. CASE Sandbox!Fork
  BY <1>1 DEF Sandbox!Fork
<1>2. CASE Sandbox!SeesLimit \/ Sandbox!SeesTime \/ Sandbox!SeesExit \/ Sandbox!Settle
           \/ Sandbox!Deadline
  BY <1>2 DEF Sandbox!SeesLimit, Sandbox!SeesTime, Sandbox!SeesExit, Sandbox!Settle,
              Sandbox!Settles, Sandbox!Deadline, Sandbox!Outcome
<1>3. CASE Sandbox!Finally
  BY <1>3 DEF Sandbox!Finally, Sandbox!KillTree, Sandbox!Ends
<1>4. ASSUME NEW p \in Sandbox!Procs, Sandbox!Exit(p) PROVE SandboxTyped'
  BY <1>4 DEF Sandbox!Exit, Sandbox!Ends
<1>5. ASSUME NEW p \in Sandbox!Procs, NEW q \in Sandbox!Pipes,
             Sandbox!Write(p, q) \/ Sandbox!Close(p, q)
      PROVE  SandboxTyped'
  BY <1>5 DEF Sandbox!Write, Sandbox!Close
<1>6. ASSUME NEW q \in Sandbox!Pipes, Sandbox!Read(q) PROVE SandboxTyped'
  <2> DEFINE left == v3[q] - v4[q]
             got  == IF left < Chunk THEN left ELSE Chunk
             to   == CASE got = 0 -> "done" [] got > 0 /\ Sandbox!Total + got > Cap -> "over"
                       [] OTHER -> "read"
  <2>1. got \in Nat
    BY DEF PumpsAreTrue
  <2>2. /\ v4' = [v4 EXCEPT ![q] = @ + got] /\ v5' = [v5 EXCEPT ![q] = to]
        /\ UNCHANGED <<v1, v2, v3, v6, v8>>
    BY <1>6 DEF Sandbox!Read
  <2>3. to \in {"done", "over", "read"}
    BY <2>1
  <2> HIDE DEF got, to
  <2> QED
    BY <2>1, <2>2, <2>3
<1>7. ASSUME NEW q \in Sandbox!Pipes, Sandbox!Over(q) PROVE SandboxTyped'
  BY <1>7 DEF Sandbox!Over
<1>8. ASSUME NEW q \in Sandbox!Pipes, Sandbox!Kill(q) PROVE SandboxTyped'
  <2>1. v5' \in [Sandbox!Pipes -> {"read", "over", "kill", "done"}] /\ UNCHANGED <<v3, v4, v6, v8>>
    BY <1>8 DEF Sandbox!Kill
  <2>2. v1' \in [Sandbox!Procs -> {"unborn", "alive", "dead"}]
    BY <1>8 DEF Sandbox!Kill, Sandbox!KillTree, Sandbox!Ends
  <2>3. v2' \in [Sandbox!Pipes -> SUBSET Sandbox!Procs]
    BY <1>8 DEF Sandbox!Kill, Sandbox!KillTree, Sandbox!Ends
  <2> QED
    BY <2>1, <2>2, <2>3
<1> QED
  BY <1>1, <1>2, <1>3, <1>4, <1>5, <1>6, <1>7, <1>8 DEF Sandbox!Next

(* Dying processes let go of their pipes.                                  *)
LEMMA EndsIsClean ==
  ASSUME NEW D, SandboxTyped, Sandbox!Ends(D),
         \A q \in Sandbox!Pipes : v2[q] \subseteq Sandbox!Alive
  PROVE  /\ Sandbox!Alive' = Sandbox!Alive \ D
         /\ \A q \in Sandbox!Pipes : v2'[q] = v2[q] \ D /\ v2'[q] \subseteq Sandbox!Alive'
         /\ v1["child"] = "dead" => v1'["child"] = "dead"
<1>1. \A p \in Sandbox!Procs : v1'[p] = IF p \in D THEN "dead" ELSE v1[p]
  BY DEF Sandbox!Ends
<1>2. Sandbox!Alive' = Sandbox!Alive \ D
  BY <1>1 DEF Sandbox!Alive
<1>3. \A q \in Sandbox!Pipes : v2'[q] = v2[q] \ D
  BY DEF Sandbox!Ends
<1>4. "child" \in Sandbox!Procs
  BY DEF Sandbox!Procs
<1> QED
  BY <1>1, <1>2, <1>3, <1>4

LEMMA SandboxClean ==
  ASSUME Cap \in Nat, Chunk \in Nat \ {0}, SandboxTyped, PumpsAreTrue, CallerIsTrue, Sandbox!Next
  PROVE  PumpsAreTrue' /\ CallerIsTrue'
<1>1. CASE Sandbox!Fork
  <2>1. /\ v1' = [v1 EXCEPT !["grandchild"] = "alive"] /\ v1["child"] = "alive"
        /\ UNCHANGED <<v3, v4, v5, v6, v8, v9>>
        /\ \A q \in Sandbox!Pipes : v2'[q] = IF "child" \in v2[q] THEN Sandbox!Procs ELSE v2[q]
    BY <1>1 DEF Sandbox!Fork, Sandbox!Alive
  <2>2. Sandbox!Alive' = Sandbox!Procs
    BY <2>1 DEF Sandbox!Alive, Sandbox!Procs, SandboxTyped
  <2>3. \A q \in Sandbox!Pipes : v2'[q] \subseteq Sandbox!Alive' /\ (v2[q] = {} => v2'[q] = {})
    BY <2>1, <2>2 DEF SandboxTyped
  <2>4. Sandbox!Total' = Sandbox!Total
    BY <2>1 DEF Sandbox!Total
  <2>5. "child" \in Sandbox!Alive
    BY <2>1 DEF Sandbox!Alive, Sandbox!Procs
  <2> QED
    BY <2>1, <2>2, <2>3, <2>4, <2>5 DEF PumpsAreTrue, CallerIsTrue, SandboxDone
<1>2. CASE Sandbox!SeesLimit \/ Sandbox!SeesTime \/ Sandbox!SeesExit \/ Sandbox!Settle
           \/ Sandbox!Deadline
  <2>1. UNCHANGED <<v1, v2, v3, v4, v5, v6>>
    BY <1>2 DEF Sandbox!SeesLimit, Sandbox!SeesTime, Sandbox!SeesExit, Sandbox!Settle,
                Sandbox!Deadline
  <2>2. PumpsAreTrue'
    BY <2>1 DEF PumpsAreTrue, Sandbox!Alive, Sandbox!Total
  <2>3. v8' # "ended" \/ v8' = v8
    BY <1>2 DEF Sandbox!SeesLimit, Sandbox!SeesTime, Sandbox!SeesExit, Sandbox!Settle,
                Sandbox!Settles, Sandbox!Deadline, Sandbox!Outcome
  <2>4. v8' = "settle" => SandboxDone
    BY <1>2 DEF Sandbox!SeesLimit, Sandbox!SeesTime, Sandbox!SeesExit, Sandbox!Settle,
                Sandbox!Settles, Sandbox!Deadline, Sandbox!Outcome, CallerIsTrue, SandboxDone
  <2>5. (v9' = "ok" => SandboxDone /\ ~v6) /\ (v9' = "output_limit" => v6)
    BY <1>2 DEF Sandbox!SeesLimit, Sandbox!SeesTime, Sandbox!SeesExit, Sandbox!Settle,
                Sandbox!Settles, Sandbox!Deadline, Sandbox!Outcome, CallerIsTrue
  <2> QED
    BY <2>1, <2>2, <2>3, <2>4, <2>5 DEF CallerIsTrue, SandboxDone, Sandbox!Alive
<1>3. ASSUME NEW D, Sandbox!Ends(D), UNCHANGED <<v3, v4, v6, v9>>,
             \/ UNCHANGED <<v5, v8>>
             \/ UNCHANGED v5 /\ v8' = "ended" /\ D = Sandbox!Alive
             \/ UNCHANGED v8 /\ \E q \in Sandbox!Pipes : v5[q] = "kill" /\ v5' = [v5 EXCEPT ![q] = "done"]
      PROVE  PumpsAreTrue' /\ CallerIsTrue'
  <2>1. /\ Sandbox!Alive' = Sandbox!Alive \ D
        /\ \A q \in Sandbox!Pipes : v2'[q] = v2[q] \ D /\ v2'[q] \subseteq Sandbox!Alive'
        /\ v1["child"] = "dead" => v1'["child"] = "dead"
    BY <1>3, EndsIsClean DEF PumpsAreTrue
  <2>2. Sandbox!Total' = Sandbox!Total
    BY <1>3 DEF Sandbox!Total
  <2>3. \A q \in Sandbox!Pipes : \/ v5'[q] = v5[q]
                                 \/ v5[q] = "kill" /\ v5'[q] = "done" /\ v6
    BY <1>3 DEF SandboxTyped, PumpsAreTrue
  <2>4. PumpsAreTrue'
    BY <1>3, <2>1, <2>2, <2>3 DEF PumpsAreTrue
  <2>5. SandboxDone => SandboxDone'
    BY <2>1, <2>3 DEF SandboxDone
  <2> QED
    BY <1>3, <2>1, <2>4, <2>5 DEF CallerIsTrue
<1>4. CASE Sandbox!Finally
  <2>1. Sandbox!Ends(Sandbox!Alive) /\ v8' = "ended" /\ UNCHANGED <<v3, v4, v5, v6, v9>>
    BY <1>4 DEF Sandbox!Finally, Sandbox!KillTree
  <2> QED
    BY <2>1, <1>3
<1>5. ASSUME NEW p \in Sandbox!Procs, Sandbox!Exit(p) PROVE PumpsAreTrue' /\ CallerIsTrue'
  <2>1. Sandbox!Ends({p}) /\ UNCHANGED <<v3, v4, v5, v6, v8, v9>>
    BY <1>5 DEF Sandbox!Exit
  <2> QED
    BY <2>1, <1>3
<1>6. ASSUME NEW q \in Sandbox!Pipes, Sandbox!Kill(q) PROVE PumpsAreTrue' /\ CallerIsTrue'
  <2>1. /\ Sandbox!Ends(Sandbox!Alive) /\ UNCHANGED <<v3, v4, v6, v8, v9>>
        /\ v5[q] = "kill" /\ v5' = [v5 EXCEPT ![q] = "done"]
    BY <1>6 DEF Sandbox!Kill, Sandbox!KillTree
  <2> QED
    BY <2>1, <1>3
<1>7. ASSUME NEW p \in Sandbox!Procs, NEW q \in Sandbox!Pipes, Sandbox!Write(p, q)
      PROVE  PumpsAreTrue' /\ CallerIsTrue'
  <2>1. /\ p \in v2[q] /\ UNCHANGED <<v1, v2, v4, v5, v6, v8, v9>>
        /\ \A r \in Sandbox!Pipes : v3'[r] = IF r = q THEN v3[q] + 1 ELSE v3[r]
    BY <1>7 DEF Sandbox!Write, SandboxTyped
  <2>2. Sandbox!Total' = Sandbox!Total /\ Sandbox!Alive' = Sandbox!Alive
    BY <2>1 DEF Sandbox!Total, Sandbox!Alive
  <2>3. \A r \in Sandbox!Pipes : v4[r] <= v3'[r] /\ (v2[r] = {} => v3'[r] = v3[r])
    BY <2>1 DEF PumpsAreTrue, SandboxTyped
  <2> QED
    BY <2>1, <2>2, <2>3 DEF PumpsAreTrue, CallerIsTrue, SandboxDone
<1>8. ASSUME NEW p \in Sandbox!Procs, NEW q \in Sandbox!Pipes, Sandbox!Close(p, q)
      PROVE  PumpsAreTrue' /\ CallerIsTrue'
  <2>1. /\ UNCHANGED <<v1, v3, v4, v5, v6, v8, v9>>
        /\ \A r \in Sandbox!Pipes : v2'[r] \subseteq v2[r]
    BY <1>8 DEF Sandbox!Close, SandboxTyped
  <2>2. Sandbox!Total' = Sandbox!Total /\ Sandbox!Alive' = Sandbox!Alive
    BY <2>1 DEF Sandbox!Total, Sandbox!Alive
  <2>3. \A r \in Sandbox!Pipes : v2'[r] \subseteq Sandbox!Alive /\ (v2[r] = {} => v2'[r] = {})
    BY <2>1 DEF PumpsAreTrue
  <2> QED
    BY <2>1, <2>2, <2>3 DEF PumpsAreTrue, CallerIsTrue, SandboxDone
<1>9. ASSUME NEW q \in Sandbox!Pipes, Sandbox!Over(q) PROVE PumpsAreTrue' /\ CallerIsTrue'
  <2>1. /\ v5[q] = "over" /\ v6' /\ UNCHANGED <<v1, v2, v3, v4, v8, v9>>
        /\ \A r \in Sandbox!Pipes : v5'[r] = IF r = q THEN "kill" ELSE v5[r]
    BY <1>9 DEF Sandbox!Over, SandboxTyped
  <2>2. Sandbox!Total' = Sandbox!Total /\ Sandbox!Alive' = Sandbox!Alive
    BY <2>1 DEF Sandbox!Total, Sandbox!Alive
  <2>3. ~SandboxDone
    BY <2>1 DEF SandboxDone
  <2> QED
    BY <2>1, <2>2, <2>3 DEF PumpsAreTrue, CallerIsTrue
<1>10. ASSUME NEW q \in Sandbox!Pipes, Sandbox!Read(q) PROVE PumpsAreTrue' /\ CallerIsTrue'
  <2> DEFINE left == v3[q] - v4[q]
             got  == IF left < Chunk THEN left ELSE Chunk
             to   == CASE got = 0 -> "done" [] got > 0 /\ Sandbox!Total + got > Cap -> "over"
                       [] OTHER -> "read"
  <2>1. got \in Nat /\ got <= left /\ (got = 0 => left = 0)
    BY DEF PumpsAreTrue, SandboxTyped
  <2>2. /\ v5[q] = "read" /\ (left >= Chunk \/ v2[q] = {})
        /\ UNCHANGED <<v1, v2, v3, v6, v8, v9>>
        /\ \A r \in Sandbox!Pipes : v4'[r] = IF r = q THEN v4[q] + got ELSE v4[r]
        /\ \A r \in Sandbox!Pipes : v5'[r] = IF r = q THEN to ELSE v5[r]
    BY <1>10 DEF Sandbox!Read, SandboxTyped
  <2>3. /\ v3[q] \in Nat /\ v4[q] \in Nat /\ v4[q] <= v3[q]
    BY DEF PumpsAreTrue, SandboxTyped
  <2>4. Sandbox!Total \in Nat /\ Sandbox!Total' = Sandbox!Total + got
    BY <2>2, <2>1 DEF Sandbox!Total, Sandbox!Pipes, SandboxTyped
  <2>5. to = "done" => v2[q] = {} /\ v4'[q] = v3[q]
    <3> SUFFICES ASSUME to = "done" PROVE v2[q] = {} /\ v4'[q] = v3[q]
      OBVIOUS
    <3>1. got = 0
      OBVIOUS
    <3> HIDE DEF got, to
    <3> QED
      BY <3>1, <2>1, <2>2, <2>3
  <2>6. /\ to = "over" => Sandbox!Total + got > Cap
        /\ Sandbox!Total + got > Cap => to = "over" \/ Sandbox!Total > Cap
        /\ to \in {"done", "over", "read"}
    BY <2>1, <2>4
  <2>7. Sandbox!Alive' = Sandbox!Alive /\ ~SandboxDone
    BY <2>2 DEF Sandbox!Alive, SandboxDone
  <2>8. v4'[q] <= v3'[q]
    BY <2>1, <2>2, <2>3
  <2> HIDE DEF got, to
  <2>9. PumpsAreTrue'
    <3>1. \A r \in Sandbox!Pipes :
            /\ v2'[r] \subseteq Sandbox!Alive' /\ v4'[r] <= v3'[r]
            /\ v5'[r] = "done" => v6' \/ (v2'[r] = {} /\ v4'[r] = v3'[r])
            /\ v5'[r] = "kill" => v6'
            /\ v5'[r] = "over" => Sandbox!Total' > Cap
      BY <2>1, <2>2, <2>4, <2>5, <2>6, <2>7, <2>8 DEF PumpsAreTrue
    <3>2. v6' => Sandbox!Total' > Cap
      BY <2>1, <2>2, <2>4 DEF PumpsAreTrue
    <3>3. Sandbox!Total' > Cap => v6' \/ \E r \in Sandbox!Pipes : v5'[r] = "over"
      BY <2>1, <2>2, <2>4, <2>6 DEF PumpsAreTrue
    <3> QED
      BY <3>1, <3>2, <3>3 DEF PumpsAreTrue
  <2> QED
    BY <2>2, <2>7, <2>9 DEF CallerIsTrue
<1> QED
  BY <1>1, <1>2, <1>4, <1>5, <1>6, <1>7, <1>8, <1>9, <1>10 DEF Sandbox!Next

---------------------------------------------------------------------------
(* The publication of artifacts *)

(* A row that calls itself published names its own revision.               *)
Snapshots == [data : Nat, run : Nat]
PubRecords == [rev : Nat, of : Snapshots, done : Nat,
               status : {"none", "pending", "published", "failed"}]
PubTyped == v1 \in Snapshots /\ v2 \in PubRecords
PubInv == part = "publication" =>
  PubTyped /\ (v2.status = "published" => v2.done = v2.rev)

(* What can happen to the row: nothing, a new revision, a publication, or  *)
(* another status unless its good file is published.                       *)
NewRevision ==
  \E s \in Snapshots : v2' = [v2 EXCEPT !.rev = @ + 1, !.of = s, !.status = "pending"]
Published   == v2' = [v2 EXCEPT !.status = "published", !.done = v2.rev]
Renamed     == /\ \E s \in {"failed", "pending"} : v2' = [v2 EXCEPT !.status = s]
               /\ ~(v2.status = "published" /\ v2.done = v2.rev /\ Publication!ActiveIsGood)

PubMove == v2' = v2 \/ NewRevision \/ Published \/ Renamed

LEMMA PubMoves ==
  ASSUME PubTyped, Publication!Next
  PROVE  v1' \in Snapshots /\ PubMove
<1> USE DEF PubMove
<1>1. CASE Publication!Advance
  <2>1. v1' \in Snapshots /\ (v2' = v2 \/ v2' = Publication!Staged(v1'))
    BY <1>1 DEF Publication!Advance, PubTyped, Snapshots
  <2> QED
    BY <2>1 DEF Publication!Staged, NewRevision
<1>2. ASSUME NEW r, Publication!Notify(r) PROVE PubMove
  BY <1>2 DEF Publication!Notify, Renamed
<1>3. ASSUME Publication!Failure PROVE PubMove
  BY <1>3 DEF Publication!Failure, Publication!SenderDies, Publication!WorkerDies,
              Publication!LoseBytes
<1>4. ASSUME NEW w \in Workers, Publication!Take(w) PROVE PubMove
  BY <1>4 DEF Publication!Take
<1>5. ASSUME NEW w \in Workers, Publication!Publish(w) PROVE PubMove
  <2>1. CASE Publication!Read(w) \/ Publication!Stage(w) \/ Publication!Verify(w)
             \/ Publication!Activate(w) \/ Publication!Discard(w) \/ Publication!Done(w)
    BY <2>1 DEF Publication!Read, Publication!Stage, Publication!Verify, Publication!Activate,
                Publication!Discard, Publication!Done
  <2>2. CASE Publication!Mark(w)
    BY <2>2 DEF Publication!Mark, Published
  <2>3. CASE Publication!Fail(w)
    BY <2>3 DEF Publication!Fail, Publication!FailCounts, Renamed
  <2> QED
    BY <1>5, <2>1, <2>2, <2>3 DEF Publication!Publish
<1>6. ASSUME NEW c \in Clients, Publication!AskDelete(c) PROVE PubMove
  BY <1>6 DEF Publication!AskDelete
<1>7. ASSUME NEW c \in Clients, Publication!Retry(c) PROVE PubMove
  <2>1. v2' = Publication!Staged(v1)
    BY <1>7 DEF Publication!Retry
  <2> QED
    BY <2>1 DEF Publication!Staged, NewRevision, PubTyped
<1>8. ASSUME NEW c \in Clients, Publication!Handle(c) PROVE PubMove
  <2>1. CASE Publication!Delete(c)
    BY <2>1 DEF Publication!Delete
  <2>2. CASE Publication!Requeue(c)
    BY <2>2 DEF Publication!Requeue, Renamed
  <2>3. CASE Publication!Send(c)
    BY <2>3 DEF Publication!Send, Publication!FailCounts, Renamed
  <2> QED
    BY <1>8, <2>1, <2>2, <2>3 DEF Publication!Handle
<1>9. CASE ~Publication!Advance
  <2>1. v1' = v1
    BY <1>9 DEF Publication!Next, Publication!Notify, Publication!Failure, Publication!SenderDies,
                Publication!WorkerDies, Publication!LoseBytes, Publication!Take,
                Publication!Publish, Publication!Read, Publication!Stage, Publication!Verify,
                Publication!Activate, Publication!Discard, Publication!Done, Publication!Mark,
                Publication!Fail, Publication!AskDelete, Publication!Retry, Publication!Handle,
                Publication!Delete, Publication!Requeue, Publication!Send
  <2> QED
    BY <1>2, <1>3, <1>4, <1>5, <1>6, <1>7, <1>8, <1>9, <2>1 DEF Publication!Next, PubTyped
<1> QED
  BY <1>1, <1>9

(* What a move makes of the row.                                           *)
LEMMA PubEffect ==
  ASSUME v2 \in PubRecords, PubMove
  PROVE  /\ v2' \in PubRecords
         /\ \/ v2' = v2
            \/ v2'.rev # v2.rev /\ v2'.status = "pending"
            \/ v2'.status = "published" /\ v2'.done = v2'.rev
            \/ v2'.status # "published" /\ Renamed
<1>0. v2.rev \in Nat /\ v2.of \in Snapshots /\ v2.done \in Nat
  BY DEF PubRecords
<1>1. CASE NewRevision
  <2>1. PICK s \in Snapshots : v2' = [v2 EXCEPT !.rev = @ + 1, !.of = s, !.status = "pending"]
    BY <1>1 DEF NewRevision
  <2> HIDE DEF Snapshots
  <2>2. v2' = [rev |-> v2.rev + 1, of |-> s, status |-> "pending", done |-> v2.done]
    BY <2>1 DEF PubRecords
  <2>3. v2'.rev = v2.rev + 1 /\ v2'.status = "pending"
    BY <2>2
  <2>4. v2' \in PubRecords
    BY <1>0, <2>2 DEF PubRecords
  <2> QED
    BY <1>0, <2>3, <2>4
<1>2. CASE Published
  BY <1>2 DEF Published, PubRecords
<1>3. CASE Renamed
  BY <1>3 DEF Renamed, PubRecords
<1> QED
  BY <1>1, <1>2, <1>3 DEF PubMove

FilesAreGiven == "nobody" \notin Workers /\ MaxFiles \in Nat

(* The registry's row: the file it points at is there, unless its owner    *)
(* has deleted it, and is not of the content that was deleted; of the      *)
(* present revision it holds what was staged.                              *)
RegistryFits(reg, pub, state) ==
  /\ reg = [file |-> reg.file, rev |-> reg.rev, of |-> reg.of,
            deleted |-> reg.deleted, gone |-> reg.gone]
  /\ reg.file \in Publication!FileIds \cup {0} /\ reg.rev \in Nat /\ reg.deleted \in Nat
  /\ reg.deleted <= reg.rev /\ reg.rev <= pub.rev
  /\ reg.file # 0 <=> reg.rev > 0
  /\ reg.rev > 0 /\ reg.rev = pub.rev => reg.of = pub.of
  /\ reg.file # 0 => state = "kept" \/ reg.deleted >= reg.rev
  /\ reg.file # 0 /\ state = "kept" => reg.of.data # reg.gone
  /\ pub.status = "published" => pub.done = pub.rev /\ reg.rev = pub.rev /\ pub.rev > 0

(* A publication under way: what it has read is what was staged of its     *)
(* revision, for as long as that is the present one; who found a file that *)
(* is served, or holds the lock, finds the registry at its revision.       *)
PublisherFits(k, mine, reg, pub) ==
  /\ k = [pc |-> k.pc, rev |-> k.rev, manual |-> k.manual, tries |-> k.tries, of |-> k.of,
          found |-> k.found, cand |-> k.cand, bad |-> k.bad, code |-> k.code]
  /\ k.pc \in {"stage", "verify", "last"} =>
       k.rev \in Nat /\ k.rev <= pub.rev /\ (k.rev = pub.rev => k.of = pub.of)
  /\ k.pc \in {"read", "stage", "verify"} => k.found = 0
  /\ k.pc = "verify" \/ (k.pc = "last" /\ k.found = 0) => k.cand \in Publication!FileIds
  /\ k.pc = "last" /\ k.found # 0 /\ k.rev = pub.rev => reg.rev = pub.rev
  /\ k.pc = "mark" <=> mine
  /\ k.pc = "mark" => reg.rev = pub.rev /\ pub.rev > 0

FileTable(files) ==
  /\ files = [f \in Publication!FileIds |-> files[f]]
  /\ \A f \in Publication!FileIds :
       files[f] = [state |-> files[f].state, rev |-> files[f].rev, of |-> files[f].of,
                   readable |-> files[f].readable]
PublishersFit ==
  v7 = [w \in Workers |-> v7[w]] /\ \A w \in Workers : PublisherFits(v7[w], v10 = w, v3, v2)
PublicationFits ==
  PubTyped /\ FileTable(v4) /\ RegistryFits(v3, v2, v4[v3.file].state) /\ PublishersFit
PublicationFine == part = "publication" => PublicationFits

(* What the registry's file becomes matters only if it was, or is then,    *)
(* there.                                                                  *)
StaysSo(old, new) == old = new \/ (old # "kept" /\ new # "kept")

LEMMA RegistryStays ==
  ASSUME NEW reg, NEW pub, NEW old, NEW new, RegistryFits(reg, pub, old),
         reg.file # 0 => StaysSo(old, new)
  PROVE  RegistryFits(reg, pub, new)
  BY DEF RegistryFits, StaysSo

(* One publication takes a step.                                           *)
Turns(w, k) == v7' = [v7 EXCEPT ![w] = k]

LEMMA OneTurns ==
  ASSUME NEW w \in Workers, NEW k, PublicationFits, Turns(w, k), UNCHANGED <<v1, v2, v3>>,
         FileTable(v4'), v3.file # 0 => StaysSo(v4[v3.file].state, v4'[v3.file].state),
         PublisherFits(k, v10' = w, v3, v2),
         \A u \in Workers \ {w} : v10' = u <=> v10 = u
  PROVE  PublicationFits'
<1>1. RegistryFits(v3, v2, v4'[v3.file].state)
  BY RegistryStays DEF PublicationFits
<1>2. v7' = [u \in Workers |-> v7'[u]] /\ v7'[w] = k /\ \A u \in Workers \ {w} : v7'[u] = v7[u]
  BY DEF PublicationFits, PublishersFit, Turns
<1>3. ASSUME NEW u \in Workers PROVE PublisherFits(v7'[u], v10' = u, v3, v2)
  <2>1. CASE u = w
    BY <1>2, <2>1
  <2>2. CASE u # w
    <3>1. PublisherFits(v7[u], v10 = u, v3, v2) /\ v7'[u] = v7[u]
      BY <1>2, <2>2 DEF PublicationFits, PublishersFit
    <3>2. PICK j : j = v7[u]
      OBVIOUS
    <3>3. PublisherFits(j, v10 = u, v3, v2) /\ (v10' = u <=> v10 = u)
      BY <2>2, <3>1, <3>2
    <3>4. PublisherFits(j, v10' = u, v3, v2)
      BY <3>3 DEF PublisherFits
    <3> QED
      BY <3>1, <3>2, <3>4
  <2> QED
    BY <2>1, <2>2
<1>4. PubTyped' /\ v2' = v2 /\ v3' = v3
  BY DEF PubTyped, PublicationFits
<1>5. PublishersFit'
  BY <1>2, <1>3, <1>4 DEF PublishersFit
<1> QED
  BY <1>1, <1>4, <1>5 DEF PublicationFits

(* Nothing of one publication's own is touched: the row is another, or a   *)
(* file is.                                                                *)
LEMMA NoneTurns ==
  ASSUME PublicationFits, PubTyped', UNCHANGED <<v7, v10>>, FileTable(v4'),
         RegistryFits(v3', v2', v4'[v3'.file].state),
         \A w \in Workers : PublisherFits(v7[w], v10 = w, v3, v2)
                            => PublisherFits(v7[w], v10 = w, v3', v2')
  PROVE  PublicationFits'
<1>1. v7' = v7 /\ v10' = v10
  OBVIOUS
<1>2. PublishersFit'
  BY <1>1 DEF PublicationFits, PublishersFit
<1> QED
  BY <1>2 DEF PublicationFits

(* The row: nobody who publishes has locked it, or it gets another status. *)
Restaged ==
  /\ v10 = "nobody"
  /\ \E s \in Snapshots : v2' = [v2 EXCEPT !.rev = @ + 1, !.of = s, !.status = "pending"]
RowRenamed == \E s \in {"failed", "pending"} : v2' = [v2 EXCEPT !.status = s]

LEMMA RowChanges ==
  ASSUME FilesAreGiven, PublicationFits, v1' \in Snapshots, UNCHANGED <<v3, v4, v7, v10>>,
         v2' = v2 \/ Restaged \/ RowRenamed
  PROVE  PublicationFits'
<1>0. v2 \in PubRecords /\ v2.rev \in Nat /\ RegistryFits(v3, v2, v4[v3.file].state)
  BY DEF PublicationFits, PubTyped, PubRecords
<1>1. FileTable(v4') /\ v3' = v3 /\ v4' = v4 /\ v7' = v7 /\ v10' = v10
  BY DEF PublicationFits
<1>2. CASE v2' = v2
  <2>1. PubTyped'
    BY <1>0, <1>2 DEF PubTyped
  <2> QED
    BY <1>0, <1>1, <1>2, <2>1, NoneTurns
<1>3. CASE Restaged
  <2>1. PICK s \in Snapshots : v2' = [v2 EXCEPT !.rev = @ + 1, !.of = s, !.status = "pending"]
    BY <1>3 DEF Restaged
  <2> HIDE DEF Snapshots
  <2>2. v2' = [rev |-> v2.rev + 1, of |-> s, status |-> "pending", done |-> v2.done]
    BY <1>0, <2>1 DEF PubRecords
  <2>3. PICK p : p = v2'
    OBVIOUS
  <2>4. p.rev = v2.rev + 1 /\ p.status = "pending" /\ p.rev \in Nat
    BY <1>0, <2>2, <2>3
  <2>5. PubTyped'
    BY <1>0, <2>1, <2>2 DEF PubTyped, PubRecords
  <2>6. RegistryFits(v3, p, v4[v3.file].state)
    BY <1>0, <2>4 DEF RegistryFits
  <2>7. ASSUME NEW w \in Workers, PublisherFits(v7[w], v10 = w, v3, v2)
        PROVE  PublisherFits(v7[w], v10 = w, v3, p)
    <3>1. v10 # w
      BY <1>3 DEF Restaged, FilesAreGiven
    <3>2. PICK k : k = v7[w]
      OBVIOUS
    <3>3. PublisherFits(k, FALSE, v3, v2)
      BY <2>7, <3>1, <3>2 DEF PublisherFits
    <3>4. k.rev \in Nat /\ k.rev <= v2.rev => k.rev <= p.rev /\ k.rev # p.rev
      BY <1>0, <2>4
    <3>5. PublisherFits(k, FALSE, v3, p)
      BY <3>3, <3>4 DEF PublisherFits
    <3> QED
      BY <3>1, <3>2, <3>5 DEF PublisherFits
  <2> QED
    BY <1>1, <2>3, <2>5, <2>6, <2>7, NoneTurns
<1>4. CASE RowRenamed
  <2>1. PICK s \in {"failed", "pending"} : v2' = [v2 EXCEPT !.status = s]
    BY <1>4 DEF RowRenamed
  <2> HIDE DEF Snapshots
  <2>2. v2' = [rev |-> v2.rev, of |-> v2.of, status |-> s, done |-> v2.done]
    BY <1>0, <2>1 DEF PubRecords
  <2>3. PICK p : p = v2'
    OBVIOUS
  <2>4. p.rev = v2.rev /\ p.status = s /\ p.of = v2.of
    BY <1>0, <2>2, <2>3
  <2>5. PubTyped'
    BY <1>0, <2>2 DEF PubTyped, PubRecords
  <2>6. RegistryFits(v3, p, v4[v3.file].state)
    BY <1>0, <2>4 DEF RegistryFits
  <2>7. ASSUME NEW w \in Workers, PublisherFits(v7[w], v10 = w, v3, v2)
        PROVE  PublisherFits(v7[w], v10 = w, v3, p)
    <3>1. PICK k : k = v7[w]
      OBVIOUS
    <3>2. PublisherFits(k, v10 = w, v3, v2)
      BY <2>7, <3>1
    <3>3. PublisherFits(k, v10 = w, v3, p)
      BY <2>4, <3>2 DEF PublisherFits
    <3> QED
      BY <3>1, <3>3
  <2> QED
    BY <1>1, <2>3, <2>5, <2>6, <2>7, NoneTurns
<1> QED
  BY <1>2, <1>3, <1>4

LEMMA Restages ==
  ASSUME PubTyped, NEW s \in Snapshots, v10 = "nobody", v2' = Publication!Staged(s)
  PROVE  v2' = v2 \/ Restaged
  BY DEF Publication!Staged, Restaged, PubTyped

LEMMA AdvanceFits ==
  ASSUME FilesAreGiven, PublicationFits, Publication!Advance PROVE PublicationFits'
<1>1. v1' \in Snapshots
  BY DEF Publication!Advance, PublicationFits, PubTyped, Snapshots
<1>2. v10 = "nobody" /\ UNCHANGED <<v3, v4, v7, v10>> /\ (v2' = v2 \/ v2' = Publication!Staged(v1'))
  BY DEF Publication!Advance, Publication!Free
<1>3. PubTyped
  BY DEF PublicationFits
<1>4. v2' = v2 \/ Restaged
  BY <1>1, <1>2, <1>3, Restages
<1> QED
  BY <1>1, <1>2, <1>4, RowChanges

LEMMA NotifyFits ==
  ASSUME FilesAreGiven, PublicationFits, NEW r, Publication!Notify(r) PROVE PublicationFits'
<1>1. v1' \in Snapshots /\ UNCHANGED <<v3, v4, v7, v10>> /\ (v2' = v2 \/ RowRenamed)
  BY DEF Publication!Notify, RowRenamed, PublicationFits, PubTyped
<1> QED
  BY <1>1, RowChanges

LEMMA OwnerFits ==
  ASSUME FilesAreGiven, PublicationFits, NEW c \in Clients,
         Publication!AskDelete(c) \/ Publication!Retry(c) \/ Publication!Requeue(c)
         \/ Publication!Send(c)
  PROVE  PublicationFits'
<1>0. PubTyped /\ v1 \in Snapshots
  BY DEF PublicationFits, PubTyped
<1>1. CASE Publication!AskDelete(c)
  <2>1. v1' \in Snapshots /\ UNCHANGED <<v2, v3, v4, v7, v10>>
    BY <1>0, <1>1 DEF Publication!AskDelete
  <2> QED
    BY <2>1, RowChanges
<1>2. CASE Publication!Retry(c)
  <2>1. /\ v1' \in Snapshots /\ UNCHANGED <<v3, v4, v7, v10>>
        /\ v10 = "nobody" /\ v2' = Publication!Staged(v1)
    BY <1>0, <1>2 DEF Publication!Retry, Publication!Free
  <2>2. v2' = v2 \/ Restaged
    BY <1>0, <2>1, Restages
  <2> QED
    BY <2>1, <2>2, RowChanges
<1>3. CASE Publication!Requeue(c)
  <2>1. v1' \in Snapshots /\ UNCHANGED <<v3, v4, v7, v10>> /\ (v2' = v2 \/ RowRenamed)
    BY <1>0, <1>3 DEF Publication!Requeue, RowRenamed
  <2> QED
    BY <2>1, RowChanges
<1>4. CASE Publication!Send(c)
  <2>1. v1' \in Snapshots /\ UNCHANGED <<v3, v4, v7, v10>> /\ (v2' = v2 \/ RowRenamed)
    BY <1>0, <1>4 DEF Publication!Send, RowRenamed
  <2> QED
    BY <2>1, RowChanges
<1> QED
  BY <1>1, <1>2, <1>3, <1>4

(* A publication takes a step that changes the row, the registry or the    *)
(* lock, too.                                                              *)
LEMMA OneTurnsAll ==
  ASSUME NEW w \in Workers, NEW k, PublicationFits, Turns(w, k), PubTyped', FileTable(v4'),
         RegistryFits(v3', v2', v4'[v3'.file].state), PublisherFits(k, v10' = w, v3', v2'),
         \A u \in Workers \ {w} :
           PublisherFits(v7[u], v10 = u, v3, v2) => PublisherFits(v7[u], v10' = u, v3', v2')
  PROVE  PublicationFits'
<1>1. v7' = [u \in Workers |-> v7'[u]] /\ v7'[w] = k /\ \A u \in Workers \ {w} : v7'[u] = v7[u]
  BY DEF PublicationFits, PublishersFit, Turns
<1>2. ASSUME NEW u \in Workers PROVE PublisherFits(v7'[u], v10' = u, v3', v2')
  <2>1. CASE u = w
    BY <1>1, <2>1
  <2>2. CASE u # w
    BY <1>1, <2>2 DEF PublicationFits, PublishersFit
  <2> QED
    BY <2>1, <2>2
<1>3. PublishersFit'
  BY <1>1, <1>2 DEF PublishersFit
<1> QED
  BY <1>3 DEF PublicationFits

(* What Go and Leave make of a publication, and where it is at rest.       *)
LEMMA Goes ==
  ASSUME NEW w \in Workers, NEW pc, PublicationFits, Publication!Go(w, pc)
  PROVE  /\ Turns(w, v7'[w])
         /\ v7'[w] = [pc |-> pc, rev |-> v7[w].rev, manual |-> v7[w].manual,
                      tries |-> v7[w].tries, of |-> v7[w].of, found |-> v7[w].found,
                      cand |-> v7[w].cand, bad |-> v7[w].bad, code |-> v7[w].code]
<1>1. PICK j : j = v7[w]
  OBVIOUS
<1>2. j = [pc |-> j.pc, rev |-> j.rev, manual |-> j.manual, tries |-> j.tries, of |-> j.of,
           found |-> j.found, cand |-> j.cand, bad |-> j.bad, code |-> j.code]
  BY <1>1 DEF PublicationFits, PublishersFit, PublisherFits
<1>3. v7' = [v7 EXCEPT ![w] = [j EXCEPT !.pc = pc]] /\ v7 = [u \in Workers |-> v7[u]]
  BY <1>1 DEF Publication!Go, PublicationFits, PublishersFit
<1>4. v7'[w] = [j EXCEPT !.pc = pc]
  BY <1>3
<1>5. v7'[w] = [pc |-> pc, rev |-> j.rev, manual |-> j.manual, tries |-> j.tries, of |-> j.of,
                found |-> j.found, cand |-> j.cand, bad |-> j.bad, code |-> j.code]
  BY <1>2, <1>4
<1>6. Turns(w, v7'[w])
  BY <1>3, <1>4 DEF Turns
<1> QED
  BY <1>1, <1>5, <1>6

LEMMA Leaves ==
  ASSUME NEW w \in Workers, NEW pc, NEW code, PublicationFits, Publication!Leave(w, pc, code)
  PROVE  /\ Turns(w, v7'[w])
         /\ v7'[w] = [pc |-> pc, rev |-> v7[w].rev, manual |-> v7[w].manual,
                      tries |-> v7[w].tries, of |-> Publication!Nowhere, found |-> 0,
                      cand |-> v7[w].cand, bad |-> 0, code |-> code]
<1>1. PICK j : j = v7[w]
  OBVIOUS
<1>2. j = [pc |-> j.pc, rev |-> j.rev, manual |-> j.manual, tries |-> j.tries, of |-> j.of,
           found |-> j.found, cand |-> j.cand, bad |-> j.bad, code |-> j.code]
  BY <1>1 DEF PublicationFits, PublishersFit, PublisherFits
<1>3. PICK i : i = [j EXCEPT !.pc = pc, !.code = code, !.of = Publication!Nowhere,
                             !.found = 0, !.bad = 0]
  OBVIOUS
<1>4. i = [pc |-> pc, rev |-> j.rev, manual |-> j.manual, tries |-> j.tries,
           of |-> Publication!Nowhere, found |-> 0, cand |-> j.cand, bad |-> 0, code |-> code]
  BY <1>2, <1>3
<1>5. v7' = [v7 EXCEPT ![w] = i]
  BY <1>1, <1>3 DEF Publication!Leave
<1>6. v7'[w] = i
  BY <1>5 DEF PublicationFits, PublishersFit
<1> QED
  BY <1>1, <1>4, <1>5, <1>6 DEF Turns

Resting(k) ==
  /\ k = [pc |-> k.pc, rev |-> k.rev, manual |-> k.manual, tries |-> k.tries, of |-> k.of,
          found |-> k.found, cand |-> k.cand, bad |-> k.bad, code |-> k.code]
  /\ k.pc \in {"idle", "read", "fail", "discard", "done"}
  /\ k.pc = "read" => k.found = 0

LEMMA AtRest ==
  ASSUME NEW k, NEW reg, NEW pub, Resting(k) PROVE PublisherFits(k, FALSE, reg, pub)
  BY DEF Resting, PublisherFits

(* Who has locked nothing, and neither does now.                           *)
LEMMA OneRests ==
  ASSUME FilesAreGiven, NEW w \in Workers, PublicationFits, NEW k, Turns(w, k), Resting(k),
         v10' = v10 \/ (v10 = w /\ v10' = "nobody"), v10' # w,
         UNCHANGED <<v1, v2, v3>>, FileTable(v4'),
         v3.file # 0 => StaysSo(v4[v3.file].state, v4'[v3.file].state)
  PROVE  PublicationFits'
<1>1. PublisherFits(k, v10' = w, v3, v2)
  <2>1. PublisherFits(k, FALSE, v3, v2)
    BY AtRest
  <2> QED
    BY <2>1 DEF PublisherFits
<1>2. \A u \in Workers \ {w} : v10' = u <=> v10 = u
  BY DEF FilesAreGiven
<1> QED
  BY <1>1, <1>2, OneTurns

(* The files that a step leaves alone.                                     *)
LEMMA FilesStay ==
  ASSUME PublicationFits, v4' = v4, v3' = v3
  PROVE  FileTable(v4') /\ (v3.file # 0 => StaysSo(v4[v3.file].state, v4'[v3.file].state))
  BY DEF PublicationFits, StaysSo

(* Only who has the lock is at the mark.                                   *)
LEMMA LockIsHeld ==
  ASSUME PublicationFits, NEW w \in Workers PROVE v7[w].pc = "mark" <=> v10 = w
<1>1. PICK k : k = v7[w]
  OBVIOUS
<1>2. PublisherFits(k, v10 = w, v3, v2)
  BY <1>1 DEF PublicationFits, PublishersFit
<1>3. k.pc = "mark" <=> v10 = w
  BY <1>2 DEF PublisherFits
<1> QED
  BY <1>1, <1>3

LEMMA TakeFits ==
  ASSUME FilesAreGiven, PublicationFits, NEW w \in Workers, Publication!Take(w)
  PROVE  PublicationFits'
<1>1. PICK m \in v6 : Publication!Begin(w, m)
  BY DEF Publication!Take
<1>2. PICK k : k = [Publication!Idle EXCEPT !.pc = "read", !.rev = m.rev,
                                            !.manual = m.manual, !.tries = m.tries]
  OBVIOUS
<1>3. k = [pc |-> "read", rev |-> m.rev, manual |-> m.manual, tries |-> m.tries,
           of |-> Publication!Nowhere, found |-> 0, cand |-> 0, bad |-> 0, code |-> "none"]
  BY <1>2 DEF Publication!Idle
<1>4. Turns(w, k) /\ Resting(k)
  <2>1. Resting(k)
    BY <1>3 DEF Resting
  <2>2. Turns(w, k)
    BY <1>1, <1>2 DEF Publication!Begin, Turns
  <2> QED
    BY <2>1, <2>2
<1>5. UNCHANGED <<v1, v2, v3, v4, v10>> /\ v7[w].pc = "idle"
  BY DEF Publication!Take
<1>6. v10 # w
  BY <1>5, LockIsHeld
<1> QED
  BY <1>4, <1>5, <1>6, FilesStay, OneRests

LEMMA DoneFits ==
  ASSUME FilesAreGiven, PublicationFits, NEW w \in Workers, Publication!Done(w)
  PROVE  PublicationFits'
<1>1. Resting(Publication!Idle)
  BY DEF Resting, Publication!Idle
<1>2. UNCHANGED <<v1, v2, v3, v4, v10>> /\ v7[w].pc = "done" /\ Turns(w, Publication!Idle)
  BY DEF Publication!Done, Turns
<1>3. v10 # w
  BY <1>2, LockIsHeld
<1> QED
  BY <1>1, <1>2, <1>3, FilesStay, OneRests

LEMMA DeathFits ==
  ASSUME FilesAreGiven, PublicationFits, NEW w \in Workers, Publication!WorkerDies(w)
  PROVE  PublicationFits'
<1>1. Resting(Publication!Idle)
  BY DEF Resting, Publication!Idle
<1>2. UNCHANGED <<v1, v2, v3, v4>> /\ v10' = (IF v10 = w THEN "nobody" ELSE v10)
      /\ Turns(w, Publication!Idle)
  BY DEF Publication!WorkerDies, Turns
<1>3. (v10' = v10 \/ (v10 = w /\ v10' = "nobody")) /\ v10' # w
  BY <1>2 DEF FilesAreGiven
<1> QED
  BY <1>1, <1>2, <1>3, FilesStay, OneRests

LEMMA DiscardFits ==
  ASSUME FilesAreGiven, PublicationFits, NEW w \in Workers, Publication!Discard(w)
  PROVE  PublicationFits'
<1>1. PICK j : j = v7[w]
  OBVIOUS
<1>2. j = [pc |-> j.pc, rev |-> j.rev, manual |-> j.manual, tries |-> j.tries, of |-> j.of,
           found |-> j.found, cand |-> j.cand, bad |-> j.bad, code |-> j.code]
  BY <1>1 DEF PublicationFits, PublishersFit, PublisherFits
<1>3. PICK k : k = [j EXCEPT !.pc = "done", !.cand = 0]
  OBVIOUS
<1>4. k = [pc |-> "done", rev |-> j.rev, manual |-> j.manual, tries |-> j.tries, of |-> j.of,
           found |-> j.found, cand |-> 0, bad |-> j.bad, code |-> j.code]
  BY <1>2, <1>3
<1>5. Resting(k)
  BY <1>4 DEF Resting
<1>6. v7 = [u \in Workers |-> v7[u]]
  BY DEF PublicationFits, PublishersFit
<1>7. v7' = [v7 EXCEPT ![w].pc = "done", ![w].cand = 0]
  BY DEF Publication!Discard
<1>8. v7' = [v7 EXCEPT ![w] = k]
  BY <1>1, <1>3, <1>6, <1>7
<1>9. Turns(w, k) /\ UNCHANGED <<v1, v2, v3, v10>> /\ v7[w].pc = "discard"
  BY <1>8 DEF Publication!Discard, Turns
<1>10. v10 # w
  BY <1>9, LockIsHeld
<1>11. FileTable(v4') /\ (v3.file # 0 => StaysSo(v4[v3.file].state, v4'[v3.file].state))
  <2>1. CASE Publication!Discards(w)
    <3>1. v4' = [v4 EXCEPT ![j.cand].state = "deleted"] /\ j.cand # v3.file
      BY <1>1, <2>1 DEF Publication!Discard, Publication!Discards
    <3> QED
      BY <3>1 DEF FileTable, PublicationFits, StaysSo, RegistryFits
  <2>2. CASE ~Publication!Discards(w)
    BY <1>9, <2>2, FilesStay DEF Publication!Discard
  <2> QED
    BY <2>1, <2>2
<1> QED
  BY <1>5, <1>9, <1>10, <1>11, OneRests

LEMMA LossFits ==
  ASSUME FilesAreGiven, PublicationFits, NEW f \in Publication!FileIds, Publication!LoseBytes(f)
  PROVE  PublicationFits'
<1>1. v4' = [v4 EXCEPT ![f].readable = FALSE] /\ UNCHANGED <<v1, v2, v3, v7, v10>>
  BY DEF Publication!LoseBytes
<1>2. FileTable(v4') /\ (v3.file # 0 => v4[v3.file].state = v4'[v3.file].state)
  <2>1. PICK no : no = FALSE
    OBVIOUS
  <2>2. v4' = [v4 EXCEPT ![f].readable = no]
    BY <1>1, <2>1
  <2>3. FileTable(v4)
    BY DEF PublicationFits
  <2>4. \A g \in Publication!FileIds : v4[g].state = v4'[g].state
    BY <2>2, <2>3 DEF FileTable
  <2>5. FileTable(v4')
    BY <2>2, <2>3 DEF FileTable
  <2> QED
    BY <2>4, <2>5 DEF PublicationFits, RegistryFits
<1>3. RegistryFits(v3, v2, v4'[v3.file].state)
  BY <1>2, RegistryStays DEF PublicationFits, StaysSo
<1>4. PubTyped' /\ v3' = v3 /\ v2' = v2
  BY <1>1 DEF PublicationFits, PubTyped
<1> QED
  BY <1>1, <1>2, <1>3, <1>4, NoneTurns

LEMMA DeletionFits ==
  ASSUME FilesAreGiven, PublicationFits, NEW c \in Clients, Publication!Delete(c)
  PROVE  PublicationFits'
<1>1. PICK f : f = v8[c].file
  OBVIOUS
<1>2. /\ v4' = [v4 EXCEPT ![f].state = "deleted"] /\ UNCHANGED <<v1, v2, v7, v10>>
      /\ v3' = IF v3.file = f /\ v3.deleted < v3.rev
               THEN [v3 EXCEPT !.deleted = v3.rev, !.gone = v3.of.data] ELSE v3
  BY <1>1 DEF Publication!Delete
<1>3. FileTable(v4') /\ (v3.file # 0 => v4'[v3.file].state = v4[v3.file].state
                                         \/ (v3.file = f /\ v4'[v3.file].state = "deleted"))
  BY <1>2 DEF FileTable, PublicationFits, RegistryFits
<1>4. PubTyped' /\ v2' = v2
  BY <1>2 DEF PublicationFits, PubTyped
<1>5. PICK r : r = v3'
  OBVIOUS
<1>6. RegistryFits(v3, v2, v4[v3.file].state)
  BY DEF PublicationFits
<1>7. r.rev = v3.rev /\ RegistryFits(r, v2, v4'[r.file].state)
  <2>1. CASE v3.file = f /\ v3.deleted < v3.rev
    <3>1. r = [file |-> v3.file, rev |-> v3.rev, of |-> v3.of, deleted |-> v3.rev,
               gone |-> v3.of.data]
      BY <1>2, <1>5, <1>6, <2>1 DEF RegistryFits
    <3>2. v3.file # 0
      BY <1>6, <2>1 DEF RegistryFits
    <3>3. v4'[v3.file].state = "deleted"
      BY <1>2, <1>6, <2>1, <3>2 DEF FileTable, PublicationFits, RegistryFits
    <3>4. PICK s : s = v4'[v3.file].state
      OBVIOUS
    <3>5. RegistryFits(r, v2, s)
      BY <1>6, <3>1, <3>3, <3>4 DEF RegistryFits
    <3> QED
      BY <3>1, <3>4, <3>5
  <2>2. CASE ~(v3.file = f /\ v3.deleted < v3.rev)
    <3>1. r = v3
      BY <1>2, <1>5, <2>2
    <3>2. PICK s, t : s = v4[v3.file].state /\ t = v4'[v3.file].state
      OBVIOUS
    <3>3. v3.file # 0 => t = s \/ (v3.deleted >= v3.rev /\ t = "deleted")
      BY <1>3, <1>6, <2>2, <3>2 DEF RegistryFits
    <3>4. RegistryFits(v3, v2, s)
      BY <1>6, <3>2
    <3>5. RegistryFits(v3, v2, t)
      BY <3>3, <3>4 DEF RegistryFits
    <3> QED
      BY <3>1, <3>2, <3>5
  <2> QED
    BY <2>1, <2>2
<1>8. ASSUME NEW w \in Workers, PublisherFits(v7[w], v10 = w, v3, v2)
      PROVE  PublisherFits(v7[w], v10 = w, r, v2)
  <2>1. PICK k : k = v7[w]
    OBVIOUS
  <2>2. PublisherFits(k, v10 = w, v3, v2)
    BY <1>8, <2>1
  <2>3. PublisherFits(k, v10 = w, r, v2)
    BY <1>7, <2>2 DEF PublisherFits
  <2> QED
    BY <2>1, <2>3
<1> QED
  BY <1>2, <1>3, <1>4, <1>5, <1>7, <1>8, NoneTurns

LEMMA ReadFits ==
  ASSUME FilesAreGiven, PublicationFits, NEW w \in Workers, Publication!Read(w)
  PROVE  PublicationFits'
<1>0. v7[w].pc = "read" /\ UNCHANGED <<v1, v2, v3, v4, v10>> /\ v2.rev \in Nat
  BY DEF Publication!Read, PublicationFits, PubTyped, PubRecords
<1>1. v10 # w
  BY <1>0, LockIsHeld
<1>2. PICK j : j = v7[w]
  OBVIOUS
<1>3. /\ j = [pc |-> j.pc, rev |-> j.rev, manual |-> j.manual, tries |-> j.tries, of |-> j.of,
              found |-> j.found, cand |-> j.cand, bad |-> j.bad, code |-> j.code]
      /\ j.found = 0
  BY <1>0, <1>2 DEF PublicationFits, PublishersFit, PublisherFits
<1>4. v7 = [u \in Workers |-> v7[u]]
  BY DEF PublicationFits, PublishersFit
<1>5. PICK k : k = v7'[w]
  OBVIOUS
<1>6. \/ Publication!Go(w, "done") \/ Publication!Fails(w, "deleted")
      \/ Publication!Fails(w, "unavailable")
      \/ /\ v2.rev = j.rev /\ v3.rev = j.rev /\ v3.file # 0
         /\ v7' = [v7 EXCEPT ![w].pc = "last", ![w].of = v2.of, ![w].found = v3.file]
      \/ /\ v2.rev = j.rev
         /\ \/ v7' = [v7 EXCEPT ![w].pc = "stage", ![w].of = v2.of, ![w].bad = v3.file]
            \/ v7' = [v7 EXCEPT ![w].pc = "stage", ![w].of = v2.of]
  BY <1>2 DEF Publication!Read
<1>7. CASE Publication!Go(w, "done")
  <2>1. /\ Turns(w, k)
        /\ k = [pc |-> "done", rev |-> j.rev, manual |-> j.manual, tries |-> j.tries, of |-> j.of,
                found |-> j.found, cand |-> j.cand, bad |-> j.bad, code |-> j.code]
    BY <1>2, <1>5, <1>7, Goes
  <2>2. Resting(k)
    BY <2>1 DEF Resting
  <2> QED
    BY <1>0, <1>1, <2>1, <2>2, FilesStay, OneRests
<1>8. ASSUME NEW code, Publication!Fails(w, code) PROVE PublicationFits'
  <2>1. Publication!Leave(w, "fail", code)
    BY <1>8 DEF Publication!Fails
  <2>2. /\ Turns(w, k)
        /\ k = [pc |-> "fail", rev |-> j.rev, manual |-> j.manual, tries |-> j.tries,
                of |-> Publication!Nowhere, found |-> 0, cand |-> j.cand, bad |-> 0,
                code |-> code]
    BY <1>2, <1>5, <2>1, Leaves
  <2>3. Resting(k)
    BY <2>2 DEF Resting
  <2> QED
    BY <1>0, <1>1, <2>2, <2>3, FilesStay, OneRests
<1>9. ASSUME v2.rev = j.rev, NEW i, v7' = [v7 EXCEPT ![w] = i], PublisherFits(i, FALSE, v3, v2)
      PROVE  PublicationFits'
  <2>1. Turns(w, i)
    BY <1>9 DEF Turns
  <2>2. PublisherFits(i, v10' = w, v3, v2)
    BY <1>0, <1>1, <1>9 DEF PublisherFits
  <2>3. \A u \in Workers \ {w} : v10' = u <=> v10 = u
    BY <1>0
  <2> QED
    BY <1>0, <2>1, <2>2, <2>3, FilesStay, OneTurns
<1>10. CASE /\ v2.rev = j.rev /\ v3.rev = j.rev /\ v3.file # 0
            /\ v7' = [v7 EXCEPT ![w].pc = "last", ![w].of = v2.of, ![w].found = v3.file]
  <2>1. PICK i : i = [j EXCEPT !.pc = "last", !.of = v2.of, !.found = v3.file]
    OBVIOUS
  <2>2. v7' = [v7 EXCEPT ![w] = i]
    BY <1>2, <1>4, <1>10, <2>1
  <2>3. i = [pc |-> "last", rev |-> j.rev, manual |-> j.manual, tries |-> j.tries, of |-> v2.of,
             found |-> v3.file, cand |-> j.cand, bad |-> j.bad, code |-> j.code]
    BY <1>3, <2>1
  <2>4. PublisherFits(i, FALSE, v3, v2)
    BY <1>0, <1>10, <2>3 DEF PublisherFits
  <2> QED
    BY <1>9, <1>10, <2>2, <2>4
<1>11. CASE /\ v2.rev = j.rev
            /\ v7' = [v7 EXCEPT ![w].pc = "stage", ![w].of = v2.of, ![w].bad = v3.file]
  <2>1. PICK i : i = [j EXCEPT !.pc = "stage", !.of = v2.of, !.bad = v3.file]
    OBVIOUS
  <2>2. v7' = [v7 EXCEPT ![w] = i]
    BY <1>2, <1>4, <1>11, <2>1
  <2>3. i = [pc |-> "stage", rev |-> j.rev, manual |-> j.manual, tries |-> j.tries, of |-> v2.of,
             found |-> j.found, cand |-> j.cand, bad |-> v3.file, code |-> j.code]
    BY <1>3, <2>1
  <2>4. PublisherFits(i, FALSE, v3, v2)
    BY <1>0, <1>3, <1>11, <2>3 DEF PublisherFits
  <2> QED
    BY <1>9, <1>11, <2>2, <2>4
<1>12. CASE v2.rev = j.rev /\ v7' = [v7 EXCEPT ![w].pc = "stage", ![w].of = v2.of]
  <2>1. PICK i : i = [j EXCEPT !.pc = "stage", !.of = v2.of]
    OBVIOUS
  <2>2. v7' = [v7 EXCEPT ![w] = i]
    BY <1>2, <1>4, <1>12, <2>1
  <2>3. i = [pc |-> "stage", rev |-> j.rev, manual |-> j.manual, tries |-> j.tries, of |-> v2.of,
             found |-> j.found, cand |-> j.cand, bad |-> j.bad, code |-> j.code]
    BY <1>3, <2>1
  <2>4. PublisherFits(i, FALSE, v3, v2)
    BY <1>0, <1>3, <1>12, <2>3 DEF PublisherFits
  <2> QED
    BY <1>9, <1>12, <2>2, <2>4
<1> QED
  BY <1>6, <1>7, <1>8, <1>10, <1>11, <1>12

LEMMA VerifyFits ==
  ASSUME FilesAreGiven, PublicationFits, NEW w \in Workers, Publication!Verify(w)
  PROVE  PublicationFits'
<1>0. v7[w].pc = "verify" /\ UNCHANGED <<v1, v2, v3, v4, v10>>
  BY DEF Publication!Verify
<1>1. v10 # w
  BY <1>0, LockIsHeld
<1>2. PICK j, k : j = v7[w] /\ k = v7'[w]
  OBVIOUS
<1>3. PublisherFits(j, v10 = w, v3, v2) /\ j.pc = "verify"
  BY <1>0, <1>2 DEF PublicationFits, PublishersFit
<1>4. CASE Publication!Go(w, "last")
  <2>1. /\ Turns(w, k)
        /\ k = [pc |-> "last", rev |-> j.rev, manual |-> j.manual, tries |-> j.tries, of |-> j.of,
                found |-> j.found, cand |-> j.cand, bad |-> j.bad, code |-> j.code]
    BY <1>2, <1>4, Goes
  <2>2. PublisherFits(k, v10' = w, v3, v2)
    BY <1>0, <1>1, <1>3, <2>1 DEF PublisherFits
  <2>3. \A u \in Workers \ {w} : v10' = u <=> v10 = u
    BY <1>0
  <2> QED
    BY <1>0, <2>1, <2>2, <2>3, FilesStay, OneTurns
<1>5. CASE Publication!Fails(w, "conflict")
  <2>1. Publication!Leave(w, "fail", "conflict")
    BY <1>5 DEF Publication!Fails
  <2>2. /\ Turns(w, k)
        /\ k = [pc |-> "fail", rev |-> j.rev, manual |-> j.manual, tries |-> j.tries,
                of |-> Publication!Nowhere, found |-> 0, cand |-> j.cand, bad |-> 0,
                code |-> "conflict"]
    BY <1>2, <2>1, Leaves
  <2>3. Resting(k)
    BY <2>2 DEF Resting
  <2> QED
    BY <1>0, <1>1, <2>2, <2>3, FilesStay, OneRests
<1> QED
  BY <1>4, <1>5 DEF Publication!Verify

(* A candidate is found or written: no other file becomes what is served.  *)
LEMMA StagingFits ==
  ASSUME FilesAreGiven, PublicationFits, NEW w \in Workers, Publication!Stage(w)
  PROVE  PublicationFits'
<1>0. v7[w].pc = "stage" /\ UNCHANGED <<v1, v2, v3, v10>>
  BY DEF Publication!Stage
<1>1. v10 # w
  BY <1>0, LockIsHeld
<1>2. PICK j, k : j = v7[w] /\ k = v7'[w]
  OBVIOUS
<1>3. PublisherFits(j, v10 = w, v3, v2) /\ j.pc = "stage"
  BY <1>0, <1>2 DEF PublicationFits, PublishersFit
<1>4. v7 = [u \in Workers |-> v7[u]] /\ FileTable(v4) /\ v3.file \in Publication!FileIds \cup {0}
  BY DEF PublicationFits, PublishersFit, RegistryFits
<1>5. ASSUME NEW f \in Publication!FileIds,
             v7' = [v7 EXCEPT ![w].pc = "verify", ![w].cand = f], FileTable(v4'),
             v3.file # 0 => StaysSo(v4[v3.file].state, v4'[v3.file].state)
      PROVE  PublicationFits'
  <2>1. PICK i : i = [j EXCEPT !.pc = "verify", !.cand = f]
    OBVIOUS
  <2>2. i = [pc |-> "verify", rev |-> j.rev, manual |-> j.manual, tries |-> j.tries, of |-> j.of,
             found |-> j.found, cand |-> f, bad |-> j.bad, code |-> j.code]
    BY <1>3, <2>1 DEF PublisherFits
  <2>3. v7' = [v7 EXCEPT ![w] = i]
    BY <1>2, <1>4, <1>5, <2>1
  <2>4. Turns(w, i)
    BY <2>3 DEF Turns
  <2>5. PublisherFits(i, v10' = w, v3, v2)
    BY <1>0, <1>1, <1>3, <2>2 DEF PublisherFits
  <2>6. \A u \in Workers \ {w} : v10' = u <=> v10 = u
    BY <1>0
  <2> QED
    BY <1>0, <1>5, <2>4, <2>5, <2>6, OneTurns
<1>6. CASE Publication!Fails(w, "storage") /\ v4' = v4
  <2>1. Publication!Leave(w, "fail", "storage")
    BY <1>6 DEF Publication!Fails
  <2>2. /\ Turns(w, k)
        /\ k = [pc |-> "fail", rev |-> j.rev, manual |-> j.manual, tries |-> j.tries,
                of |-> Publication!Nowhere, found |-> 0, cand |-> j.cand, bad |-> 0,
                code |-> "storage"]
    BY <1>2, <2>1, Leaves
  <2>3. Resting(k)
    BY <2>2 DEF Resting
  <2> QED
    BY <1>0, <1>1, <1>6, <2>2, <2>3, FilesStay, OneRests
<1>7. CASE \E f \in Publication!FileIds :
             v7' = [v7 EXCEPT ![w].pc = "verify", ![w].cand = f] /\ v4' = v4
  <2>1. PICK f \in Publication!FileIds :
               v7' = [v7 EXCEPT ![w].pc = "verify", ![w].cand = f] /\ v4' = v4
    BY <1>7
  <2> QED
    BY <1>0, <1>5, <2>1, FilesStay
<1>8. ASSUME NEW same, NEW bare, NEW n \in Publication!FileIds,
             bare = [f \in Publication!FileIds |->
                       IF f \in same /\ ~v4[f].readable /\ f # v3.file
                       THEN [v4[f] EXCEPT !.state = "deleted"] ELSE v4[f]],
             v4[n].state = "none",
             v4' = [bare EXCEPT ![n] = [state |-> "staged", rev |-> v7[w].rev,
                                        of |-> v7[w].of, readable |-> TRUE]],
             v7' = [v7 EXCEPT ![w].pc = "verify", ![w].cand = n]
      PROVE  PublicationFits'
  <2>1. PICK new : new = [state |-> "staged", rev |-> v7[w].rev, of |-> v7[w].of, readable |-> TRUE]
    OBVIOUS
  <2>2. /\ new = [state |-> new.state, rev |-> new.rev, of |-> new.of, readable |-> new.readable]
        /\ new.state = "staged"
    BY <2>1
  <2>3. ASSUME NEW f \in Publication!FileIds
        PROVE  /\ bare[f] = [state |-> bare[f].state, rev |-> bare[f].rev, of |-> bare[f].of,
                             readable |-> bare[f].readable]
               /\ f = v3.file => bare[f] = v4[f]
    <3>1. PICK x : x = v4[f]
      OBVIOUS
    <3>2. x = [state |-> x.state, rev |-> x.rev, of |-> x.of, readable |-> x.readable]
      BY <1>4, <3>1 DEF FileTable
    <3>3. bare[f] = [x EXCEPT !.state = "deleted"] \/ bare[f] = x
      BY <1>8, <3>1
    <3>4. bare[f] = [state |-> "deleted", rev |-> x.rev, of |-> x.of, readable |-> x.readable]
          \/ bare[f] = x
      BY <3>2, <3>3
    <3>5. f = v3.file => bare[f] = v4[f]
      BY <1>8
    <3> QED
      BY <3>2, <3>4, <3>5
  <2>4. /\ v4' = [f \in Publication!FileIds |-> v4'[f]] /\ v4'[n] = new
        /\ \A f \in Publication!FileIds \ {n} : v4'[f] = bare[f]
    BY <1>8, <2>1
  <2>5. FileTable(v4')
    BY <2>2, <2>3, <2>4 DEF FileTable
  <2>6. v3.file # 0 => StaysSo(v4[v3.file].state, v4'[v3.file].state)
    <3>1. CASE v3.file = n
      BY <1>8, <2>2, <2>4, <3>1 DEF StaysSo
    <3>2. CASE v3.file # n /\ v3.file # 0
      BY <1>4, <2>3, <2>4, <3>2 DEF StaysSo
    <3> QED
      BY <3>1, <3>2
  <2> QED
    BY <1>5, <1>8, <2>5, <2>6
<1> DEFINE same == {f \in Publication!FileIds :
                      /\ v4[f].state \in {"staged", "kept"}
                      /\ v4[f].rev = v7[w].rev /\ v4[f].of = v7[w].of}
           bare == [f \in Publication!FileIds |->
                      IF f \in same /\ ~v4[f].readable /\ f # v3.file
                      THEN [v4[f] EXCEPT !.state = "deleted"] ELSE v4[f]]
<1>9. \/ \E f \in Publication!FileIds :
            v7' = [v7 EXCEPT ![w].pc = "verify", ![w].cand = f] /\ v4' = v4
      \/ \E n \in Publication!FileIds :
           /\ v4[n].state = "none"
           /\ v4' = [bare EXCEPT ![n] = [state |-> "staged", rev |-> v7[w].rev,
                                         of |-> v7[w].of, readable |-> TRUE]]
           /\ v7' = [v7 EXCEPT ![w].pc = "verify", ![w].cand = n]
      \/ Publication!Fails(w, "storage") /\ v4' = v4
  BY Zenon DEF Publication!Stage
<1>10. ASSUME NEW n \in Publication!FileIds, v4[n].state = "none",
              v4' = [bare EXCEPT ![n] = [state |-> "staged", rev |-> v7[w].rev,
                                         of |-> v7[w].of, readable |-> TRUE]],
              v7' = [v7 EXCEPT ![w].pc = "verify", ![w].cand = n]
       PROVE  PublicationFits'
  <2> HIDE DEF same
  <2>1. bare = [f \in Publication!FileIds |->
                  IF f \in same /\ ~v4[f].readable /\ f # v3.file
                  THEN [v4[f] EXCEPT !.state = "deleted"] ELSE v4[f]]
    OBVIOUS
  <2> HIDE DEF bare
  <2> QED
    BY <1>8, <1>10, <2>1
<1> QED
  BY <1>6, <1>7, <1>9, <1>10

(* The lock is taken by who finds the registry at the present revision.    *)
LEMMA MarkFits ==
  ASSUME FilesAreGiven, PublicationFits, NEW w \in Workers, Publication!Mark(w)
  PROVE  PublicationFits'
<1>0. v7[w].pc = "mark" /\ v10 = w /\ v10' = "nobody" /\ UNCHANGED <<v1, v3, v4>>
  BY LockIsHeld DEF Publication!Mark
<1>1. PICK j, k : j = v7[w] /\ k = v7'[w]
  OBVIOUS
<1>2. PublisherFits(j, TRUE, v3, v2) /\ j.pc = "mark"
  BY <1>0, <1>1 DEF PublicationFits, PublishersFit, PublisherFits
<1>3. FileTable(v4') /\ RegistryFits(v3, v2, v4[v3.file].state) /\ v3' = v3 /\ v4' = v4
  BY <1>0 DEF PublicationFits
<1>4. v2 \in PubRecords /\ v2.rev \in Nat /\ v1 \in Snapshots
  BY DEF PublicationFits, PubTyped, PubRecords
<1>5. ASSUME NEW pc, NEW code, pc \in {"fail", "discard"}, Publication!Leave(w, pc, code)
      PROVE  Turns(w, k) /\ Resting(k)
  <2>1. /\ Turns(w, k)
        /\ k = [pc |-> pc, rev |-> j.rev, manual |-> j.manual, tries |-> j.tries,
                of |-> Publication!Nowhere, found |-> 0, cand |-> j.cand, bad |-> 0,
                code |-> code]
    BY <1>1, <1>5, Leaves
  <2> QED
    BY <1>5, <2>1 DEF Resting
<1>6. CASE /\ v2' = [v2 EXCEPT !.status = "published", !.done = v2.rev]
           /\ Publication!Leave(w, "discard", "none")
  <2> HIDE DEF Snapshots
  <2>1. v2' = [rev |-> v2.rev, of |-> v2.of, status |-> "published", done |-> v2.rev]
    BY <1>4, <1>6 DEF PubRecords
  <2>2. PICK p : p = v2'
    OBVIOUS
  <2>3. p.rev = v2.rev /\ p.of = v2.of /\ p.status = "published" /\ p.done = v2.rev
    BY <2>1, <2>2
  <2>4. PubTyped'
    BY <1>0, <1>4, <2>1 DEF PubTyped, PubRecords
  <2>5. RegistryFits(v3, p, v4[v3.file].state)
    BY <1>2, <1>3, <2>3 DEF RegistryFits, PublisherFits
  <2>6. Turns(w, k) /\ Resting(k)
    BY <1>5, <1>6
  <2>7. PublisherFits(k, v10' = w, v3, p)
    <3>1. PublisherFits(k, FALSE, v3, p)
      BY <2>6, AtRest
    <3> QED
      BY <1>0, <3>1 DEF FilesAreGiven, PublisherFits
  <2>8. ASSUME NEW u \in Workers \ {w}, PublisherFits(v7[u], v10 = u, v3, v2)
        PROVE  PublisherFits(v7[u], v10' = u, v3, p)
    <3>1. PICK x : x = v7[u]
      OBVIOUS
    <3>2. PublisherFits(x, v10 = u, v3, v2) /\ v10 # u /\ v10' # u
      BY <1>0, <2>8, <3>1 DEF FilesAreGiven
    <3>3. PublisherFits(x, v10' = u, v3, p)
      BY <2>3, <3>2 DEF PublisherFits
    <3> QED
      BY <3>1, <3>3
  <2> QED
    BY <1>3, <2>2, <2>4, <2>5, <2>6, <2>7, <2>8, OneTurnsAll
<1>7. CASE Publication!Fails(w, "storage") /\ v2' = v2
  <2>1. Turns(w, k) /\ Resting(k)
    BY <1>5, <1>7 DEF Publication!Fails
  <2>2. v10' # w
    BY <1>0 DEF FilesAreGiven
  <2> QED
    BY <1>0, <1>7, <2>1, <2>2, FilesStay, OneRests
<1> QED
  BY <1>6, <1>7 DEF Publication!Mark

LEMMA FailureFits ==
  ASSUME FilesAreGiven, PublicationFits, NEW w \in Workers, Publication!Fail(w)
  PROVE  PublicationFits'
<1>0. v7[w].pc = "fail" /\ UNCHANGED <<v1, v3, v4, v10>> /\ Publication!Go(w, "discard")
  BY DEF Publication!Fail
<1>1. v10 # w
  BY <1>0, LockIsHeld
<1>2. PICK j, k, p : j = v7[w] /\ k = v7'[w] /\ p = v2'
  OBVIOUS
<1>3. Turns(w, k) /\ Resting(k)
  <2>1. /\ Turns(w, k)
        /\ k = [pc |-> "discard", rev |-> j.rev, manual |-> j.manual, tries |-> j.tries,
                of |-> j.of, found |-> j.found, cand |-> j.cand, bad |-> j.bad, code |-> j.code]
    BY <1>0, <1>2, Goes
  <2> QED
    BY <2>1 DEF Resting
<1>4. FileTable(v4') /\ RegistryFits(v3, v2, v4[v3.file].state) /\ v3' = v3 /\ v4' = v4
  BY <1>0 DEF PublicationFits
<1>5. v2 \in PubRecords /\ v2.rev \in Nat /\ v1 \in Snapshots
  BY DEF PublicationFits, PubTyped, PubRecords
<1>6. p = v2 \/ p = [v2 EXCEPT !.status = "failed"]
  BY <1>2 DEF Publication!Fail
<1>7. p = v2 \/ p = [rev |-> v2.rev, of |-> v2.of, status |-> "failed", done |-> v2.done]
  BY <1>5, <1>6 DEF PubRecords
<1>8. /\ p \in PubRecords /\ p.rev = v2.rev /\ p.of = v2.of
      /\ p.status = "published" => p = v2
  <2> HIDE DEF Snapshots
  <2> QED
    BY <1>5, <1>7 DEF PubRecords
<1>9. PubTyped'
  BY <1>0, <1>2, <1>5, <1>8 DEF PubTyped
<1>10. RegistryFits(v3, p, v4[v3.file].state)
  BY <1>4, <1>8 DEF RegistryFits
<1>11. PublisherFits(k, v10' = w, v3, p)
  <2>1. PublisherFits(k, FALSE, v3, p)
    BY <1>3, AtRest
  <2> QED
    BY <1>0, <1>1, <2>1 DEF PublisherFits
<1>12. ASSUME NEW u \in Workers \ {w}, PublisherFits(v7[u], v10 = u, v3, v2)
       PROVE  PublisherFits(v7[u], v10' = u, v3, p)
  <2>1. PICK x : x = v7[u]
    OBVIOUS
  <2>2. PublisherFits(x, v10' = u, v3, v2)
    BY <1>0, <1>12, <2>1
  <2>3. PublisherFits(x, v10' = u, v3, p)
    BY <1>8, <2>2 DEF PublisherFits
  <2> QED
    BY <2>1, <2>3
<1> QED
  BY <1>2, <1>3, <1>4, <1>9, <1>10, <1>11, <1>12, OneTurnsAll

(* What the last transaction decides.                                      *)
Replaces(w, j) ==
  /\ v2.rev > 0 /\ v2.rev = j.rev /\ j.found = 0
  /\ v3.rev <= j.rev /\ j.of.data # v3.gone
  /\ v3' = [v3 EXCEPT !.file = j.cand, !.rev = j.rev, !.of = j.of]
  /\ v4' = [f \in Publication!FileIds |->
              CASE f = j.cand -> [v4[f] EXCEPT !.state = "kept"]
                [] f = v3.file /\ f # j.cand -> [v4[f] EXCEPT !.state = "deleted"]
                [] OTHER -> v4[f]]
Keeps(w, j) ==
  /\ v2.rev > 0 /\ v2.rev = j.rev /\ v3.rev = j.rev /\ v3' = v3
  /\ v4' = v4 \/ (j.cand # v3.file /\ v4' = [v4 EXCEPT ![j.cand].state = "deleted"])

LEMMA Decides ==
  ASSUME NEW w \in Workers, PublicationFits, Publication!Activate(w), NEW j, j = v7[w]
  PROVE  \/ /\ Publication!Leave(w, "discard", "none") \/ \E c : Publication!Fails(w, c)
            /\ UNCHANGED <<v3, v4, v10>>
         \/ Publication!Go(w, "mark") /\ v10' = w /\ (Replaces(w, j) \/ Keeps(w, j))
<1>0. /\ v7[w].pc = "last" /\ v10 = "nobody"
  BY DEF Publication!Activate, Publication!Free
<1>1. PublisherFits(j, v10 = w, v3, v2) /\ j.pc = "last"
  BY <1>0 DEF PublicationFits, PublishersFit
<1>2. RegistryFits(v3, v2, v4[v3.file].state) /\ v2.rev \in Nat
  BY DEF PublicationFits, PubTyped, PubRecords
<1>3. j.rev \in Nat /\ (j.found # 0 /\ j.rev = v2.rev => v3.rev = v2.rev) /\ v3.rev \in Nat
  BY <1>1, <1>2 DEF PublisherFits, RegistryFits
<1> DEFINE stale == v2.rev # j.rev \/ ~Publication!SourceCurrent
           keep == /\ v3.file # 0 /\ v3.file # j.bad /\ v3.rev = j.rev
                   /\ v4[v3.file].state = "kept"
           refused == Publication!Refuses(w)
                      \/ (~keep /\ v4[j.cand].state \notin {"staged", "kept"})
<1>4. \/ stale /\ Publication!Leave(w, "discard", "none") /\ UNCHANGED <<v3, v4, v10>>
      \/ ~stale /\ j.found # 0 /\ Publication!Go(w, "mark") /\ v10' = w /\ UNCHANGED <<v3, v4>>
      \/ /\ Publication!Fails(w, IF Publication!Deleted(j.rev, j.of) THEN "deleted" ELSE "conflict")
         /\ UNCHANGED <<v3, v4, v10>>
      \/ /\ ~stale /\ keep /\ Publication!Go(w, "mark") /\ v10' = w /\ UNCHANGED v3
         /\ v4' = IF j.cand # v3.file THEN [v4 EXCEPT ![j.cand].state = "deleted"] ELSE v4
      \/ /\ ~stale /\ j.found = 0 /\ ~refused /\ Publication!Go(w, "mark") /\ v10' = w
         /\ v3' = [v3 EXCEPT !.file = j.cand, !.rev = j.rev, !.of = j.of]
         /\ v4' = [f \in Publication!FileIds |->
                     CASE f = j.cand -> [v4[f] EXCEPT !.state = "kept"]
                       [] f = v3.file /\ f # j.cand -> [v4[f] EXCEPT !.state = "deleted"]
                       [] OTHER -> v4[f]]
  BY Zenon DEF Publication!Activate
<1>5. ~stale => v2.rev > 0 /\ v2.rev = j.rev
  BY DEF Publication!SourceCurrent
<1>6. ~refused => ~(v3.rev > j.rev) /\ j.of.data # v3.gone
  BY DEF Publication!Refuses, Publication!Deleted
<1>7. ~refused => v3.rev <= j.rev /\ j.of.data # v3.gone
  BY <1>3, <1>6
<1> HIDE DEF stale, keep, refused
<1>8. keep => v3.rev = j.rev
  BY DEF keep
<1> QED
  BY <1>3, <1>4, <1>5, <1>7, <1>8 DEF Replaces, Keeps

LEMMA ActivateFits ==
  ASSUME FilesAreGiven, PublicationFits, NEW w \in Workers, Publication!Activate(w)
  PROVE  PublicationFits'
<1>0. v7[w].pc = "last" /\ v10 = "nobody" /\ UNCHANGED <<v1, v2>>
  BY DEF Publication!Activate, Publication!Free
<1>1. \A u \in Workers : v10 # u
  BY <1>0 DEF FilesAreGiven
<1>2. PICK j, k : j = v7[w] /\ k = v7'[w]
  OBVIOUS
<1>3. PublisherFits(j, v10 = w, v3, v2) /\ j.pc = "last"
  BY <1>0, <1>2 DEF PublicationFits, PublishersFit
<1>4. /\ FileTable(v4) /\ RegistryFits(v3, v2, v4[v3.file].state)
      /\ v2.rev \in Nat /\ PubTyped'
  BY <1>0 DEF PublicationFits, PubTyped, PubRecords
<1>5. ASSUME Publication!Leave(w, "discard", "none") \/ \E c : Publication!Fails(w, c),
             UNCHANGED <<v3, v4, v10>>
      PROVE  PublicationFits'
  <2>1. PICK pc, c : pc \in {"discard", "fail"} /\ Publication!Leave(w, pc, c)
    BY <1>5 DEF Publication!Fails
  <2>2. /\ Turns(w, k)
        /\ k = [pc |-> pc, rev |-> j.rev, manual |-> j.manual, tries |-> j.tries,
                of |-> Publication!Nowhere, found |-> 0, cand |-> j.cand, bad |-> 0, code |-> c]
    BY <1>2, <2>1, Leaves
  <2>3. Resting(k)
    BY <2>1, <2>2 DEF Resting
  <2> QED
    BY <1>0, <1>1, <1>5, <2>2, <2>3, FilesStay, OneRests
<1>6. ASSUME Publication!Go(w, "mark"), v10' = w, FileTable(v4'), v2.rev > 0,
             NEW r, r = v3', r.rev = v2.rev, RegistryFits(r, v2, v4'[r.file].state)
      PROVE  PublicationFits'
  <2>1. /\ Turns(w, k)
        /\ k = [pc |-> "mark", rev |-> j.rev, manual |-> j.manual, tries |-> j.tries, of |-> j.of,
                found |-> j.found, cand |-> j.cand, bad |-> j.bad, code |-> j.code]
    BY <1>2, <1>6, Goes
  <2>2. PublisherFits(k, TRUE, r, v2)
    BY <1>6, <2>1 DEF PublisherFits
  <2>3. PublisherFits(k, v10' = w, r, v2)
    BY <1>6, <2>2 DEF PublisherFits
  <2>4. ASSUME NEW u \in Workers \ {w}, PublisherFits(v7[u], v10 = u, v3, v2)
        PROVE  PublisherFits(v7[u], v10' = u, r, v2)
    <3>1. PICK x : x = v7[u]
      OBVIOUS
    <3>2. PublisherFits(x, v10 = u, v3, v2) /\ v10 # u /\ v10' # u
      BY <1>1, <1>6, <2>4, <3>1
    <3>3. PublisherFits(x, v10' = u, r, v2)
      BY <1>6, <3>2 DEF PublisherFits
    <3> QED
      BY <3>1, <3>3
  <2> QED
    BY <1>0, <1>4, <1>6, <2>1, <2>3, <2>4, OneTurnsAll
<1>7. CASE Publication!Go(w, "mark") /\ v10' = w /\ Keeps(w, j)
  <2>1. v2.rev > 0 /\ v3.rev = v2.rev /\ v3' = v3
    BY <1>7 DEF Keeps
  <2>2. v3.file \in Publication!FileIds
    BY <1>4, <2>1 DEF RegistryFits
  <2>3. FileTable(v4') /\ v4'[v3.file].state = v4[v3.file].state
    BY <1>4, <1>7, <2>2 DEF Keeps, FileTable
  <2> QED
    BY <1>4, <1>6, <1>7, <2>1, <2>3
<1>8. CASE Publication!Go(w, "mark") /\ v10' = w /\ Replaces(w, j)
  <2>1. /\ v2.rev > 0 /\ v2.rev = j.rev /\ j.found = 0 /\ v3.rev <= j.rev /\ j.of.data # v3.gone
        /\ v3' = [v3 EXCEPT !.file = j.cand, !.rev = j.rev, !.of = j.of]
        /\ v4' = [f \in Publication!FileIds |->
              CASE f = j.cand -> [v4[f] EXCEPT !.state = "kept"]
                [] f = v3.file /\ f # j.cand -> [v4[f] EXCEPT !.state = "deleted"]
                [] OTHER -> v4[f]]
    BY <1>8 DEF Replaces
  <2>2. j.of = v2.of /\ j.cand \in Publication!FileIds /\ j.cand # 0
    BY <1>3, <2>1 DEF PublisherFits, Publication!FileIds, FilesAreGiven
  <2>3. PICK r : r = v3'
    OBVIOUS
  <2>4. r = [file |-> j.cand, rev |-> j.rev, of |-> j.of, deleted |-> v3.deleted, gone |-> v3.gone]
    BY <1>4, <2>1, <2>3 DEF RegistryFits
  <2>5. ASSUME NEW f \in Publication!FileIds
        PROVE  /\ v4'[f] = [state |-> v4'[f].state, rev |-> v4'[f].rev, of |-> v4'[f].of,
                            readable |-> v4'[f].readable]
               /\ f = j.cand => v4'[f].state = "kept"
    <3>1. PICK x : x = v4[f]
      OBVIOUS
    <3>2. x = [state |-> x.state, rev |-> x.rev, of |-> x.of, readable |-> x.readable]
      BY <1>4, <3>1 DEF FileTable
    <3>3. \/ v4'[f] = [x EXCEPT !.state = "kept"]
          \/ f # j.cand /\ (v4'[f] = [x EXCEPT !.state = "deleted"] \/ v4'[f] = x)
      BY <2>1, <3>1
    <3>4. \/ v4'[f] = [state |-> "kept", rev |-> x.rev, of |-> x.of, readable |-> x.readable]
          \/ /\ f # j.cand
             /\ \/ v4'[f] = [state |-> "deleted", rev |-> x.rev, of |-> x.of, readable |-> x.readable]
                \/ v4'[f] = x
      BY <3>2, <3>3
    <3> QED
      BY <3>2, <3>4
  <2>6. v4' = [f \in Publication!FileIds |-> v4'[f]]
    BY <2>1
  <2>7. FileTable(v4') /\ v4'[j.cand].state = "kept"
    BY <2>2, <2>5, <2>6 DEF FileTable
  <2>8. RegistryFits(r, v2, "kept")
    BY <1>4, <2>1, <2>2, <2>4 DEF RegistryFits
  <2>9. r.rev = v2.rev /\ r.file = j.cand
    BY <2>1, <2>4
  <2> QED
    BY <1>6, <1>8, <2>1, <2>3, <2>7, <2>8, <2>9
<1> QED
  BY <1>2, <1>5, <1>7, <1>8, Decides

(* A behaviour of the publication begins and goes on so.                   *)
LEMMA PublicationStarts ==
  ASSUME FilesAreGiven, Publication!Init PROVE PublicationFits
<1> USE DEF Publication!Init, Publication!Nowhere
<1>1. PubTyped
  BY DEF PubTyped, PubRecords, Snapshots
<1>2. FileTable(v4)
  BY DEF FileTable, Publication!Absent
<1>3. RegistryFits(v3, v2, v4[v3.file].state)
  BY DEF RegistryFits
<1>4. PublisherFits(Publication!Idle, FALSE, v3, v2)
  BY AtRest DEF Resting, Publication!Idle
<1>5. PublishersFit
  <2>1. ASSUME NEW w \in Workers PROVE PublisherFits(v7[w], v10 = w, v3, v2)
    <3>1. v7[w] = Publication!Idle /\ v10 # w
      BY DEF FilesAreGiven
    <3> HIDE DEF Publication!Init
    <3> QED
      BY <1>4, <3>1 DEF PublisherFits
  <2> QED
    BY <2>1 DEF PublishersFit
<1> QED
  BY <1>1, <1>2, <1>3, <1>5 DEF PublicationFits

LEMMA PublicationSteps ==
  ASSUME FilesAreGiven, PublicationFits, Publication!Next PROVE PublicationFits'
<1>1. CASE Publication!Advance
  BY <1>1, AdvanceFits
<1>2. ASSUME NEW r, Publication!Notify(r) PROVE PublicationFits'
  BY <1>2, NotifyFits
<1>3. CASE Publication!Failure
  <2>1. CASE Publication!SenderDies
    <3>1. v1' \in Snapshots /\ UNCHANGED <<v2, v3, v4, v7, v10>>
      BY <2>1 DEF Publication!SenderDies, PublicationFits, PubTyped
    <3> QED
      BY <3>1, RowChanges
  <2> QED
    BY <1>3, <2>1, DeathFits, LossFits DEF Publication!Failure
<1>4. ASSUME NEW w \in Workers, Publication!Take(w) \/ Publication!Publish(w)
      PROVE  PublicationFits'
  BY <1>4, TakeFits, ReadFits, StagingFits, VerifyFits, ActivateFits, MarkFits, FailureFits,
     DiscardFits, DoneFits DEF Publication!Publish
<1>5. ASSUME NEW c \in Clients,
             Publication!AskDelete(c) \/ Publication!Retry(c) \/ Publication!Handle(c)
      PROVE  PublicationFits'
  BY <1>5, OwnerFits, DeletionFits DEF Publication!Handle
<1> QED
  BY <1>1, <1>2, <1>3, <1>4, <1>5 DEF Publication!Next

LEMMA PublicationGives ==
  ASSUME FilesAreGiven, PublicationFits
  PROVE  Publication!PublishedIsServed /\ Publication!DeletedStaysDeleted
<1>1. PICK s : s = v4[v3.file].state
  OBVIOUS
<1>2. RegistryFits(v3, v2, s)
  BY <1>1 DEF PublicationFits
<1>3. v3.file # 0 /\ s = "kept" => v3.of.data # v3.gone
  BY <1>2 DEF RegistryFits
<1>4. ASSUME v2.status = "published"
      PROVE  /\ v2.done = v2.rev /\ v3.rev = v2.rev /\ v3.of = v2.of
             /\ s = "kept" \/ (v3.deleted # 0 /\ v3.deleted >= v2.rev)
  BY <1>2, <1>4 DEF RegistryFits
<1> QED
  BY <1>1, <1>3, <1>4 DEF Publication!PublishedIsServed, Publication!DeletedStaysDeleted,
                          Publication!Deleted

---------------------------------------------------------------------------
(* The uploads *)

UploadsAreGiven ==
  Ttl \in Nat /\ Timeout \in Nat /\ MaxTime \in Nat /\ "nobody" \notin Sweepers

IsDoomed(r, j, now) ==
  /\ r.listed
  /\ r.deleted \/ r.expires <= now
  /\ j.status \in {"pending", "running"} => j.updated + Timeout <= now

(* One upload: its row, its request and its import; whether its bytes are  *)
(* in place, whether a cleanup has just taken them away, and whether it is *)
(* one the program is known to lose.                                       *)
FileFits(r, u, j, stored, out, lost, now) ==
  /\ r = [listed |-> r.listed, deleted |-> r.deleted, expires |-> r.expires]
  /\ u = [pc |-> u.pc, at |-> u.at, expires |-> u.expires] /\ u.at \in Nat
  /\ u.pc \in {"new", "staged", "placed", "listed", "failed", "done"}
  /\ j.status \in {"none", "pending", "running", "paused", "ended"}
  /\ u.pc \in {"staged", "placed", "listed", "failed"} => now <= u.at + Ttl
  /\ u.pc \in {"new", "staged", "placed"} => ~r.listed
  /\ u.pc = "placed" => stored
  /\ ~lost => /\ u.pc = "failed" => ~r.listed
              /\ r.listed => stored \/ out
              /\ ~r.listed => j.status \in {"none", "ended"}
              /\ out => j.status # "paused"

(* One cleanup: what it has found is doomed for as long as it holds the    *)
(* lock, and an orphan stays one.                                          *)
SweepFits(s, m, holder, now, rows, ups, jobs) ==
  /\ m = [pc |-> m.pc, at |-> m.at, todo |-> m.todo, gone |-> m.gone, orphan |-> m.orphan]
  /\ m.at \in Nat /\ m.at <= now
  /\ m.pc = "rows" <=> holder = s
  /\ m.pc # "rows" => m.todo = {} /\ m.gone = {}
  /\ \A f \in m.todo \cup m.gone : f \in Files /\ IsDoomed(rows[f], jobs[f], m.at)
  /\ \A d \in m.orphan : /\ d[1] \in Files /\ ups[d[1]].pc = "done"
                         /\ d = <<d[1], "target">> => ~rows[d[1]].listed

IsOut(f, sweeps) == \E s \in Sweepers : f \in sweeps[s].gone
StoreFits(disk, ups) ==
  \A d \in disk : d[1] \in Files /\ ups[d[1]].pc # "new"

UploadsFit ==
  /\ v1 \in Nat /\ v8 \in Sweepers \cup {"nobody"} /\ StoreFits(v2, v4)
  /\ v3 = [f \in Files |-> v3[f]] /\ v4 = [f \in Files |-> v4[f]] /\ v5 = [f \in Files |-> v5[f]]
  /\ v7 = [s \in Sweepers |-> v7[s]]
  /\ \A f \in Files :
       FileFits(v3[f], v4[f], v5[f], <<f, "target">> \in v2, IsOut(f, v7), f \in v9, v1)
  /\ \A s \in Sweepers : SweepFits(s, v7[s], v8, v1, v3, v4, v5)
UploadsFine == part = "uploads" => UploadsFit

(* A function that changes in one place.                                   *)
OnlyAt(S, f, old, new) ==
  new = [g \in S |-> new[g]] /\ \A g \in S \ {f} : new[g] = old[g]

LEMMA OnePlace ==
  ASSUME NEW S, NEW f \in S, NEW old, old = [g \in S |-> old[g]], NEW x,
         NEW new, new = [old EXCEPT ![f] = x]
  PROVE  OnlyAt(S, f, old, new) /\ new[f] = x
  BY DEF OnlyAt

LEMMA NoPlace ==
  ASSUME NEW S, NEW f, NEW old, old = [g \in S |-> old[g]]
  PROVE  OnlyAt(S, f, old, old)
  BY DEF OnlyAt

(* One request or import steps: the others stay as they were, and what a   *)
(* cleanup has found is safe behind its lock.                              *)
OneUploadSteps(f) ==
  /\ OnlyAt(Files, f, v3, v3') /\ OnlyAt(Files, f, v4, v4') /\ OnlyAt(Files, f, v5, v5')
  /\ \A d : d[1] # f => (d \in v2' <=> d \in v2)
  /\ \A g : g # f => (g \in v9' <=> g \in v9)
  /\ v1' = v1 /\ v7' = v7 /\ v8' = v8
  /\ v8 = "nobody" \/ (v3' = v3 /\ v5' = v5)
StaysDone(f) ==
  v4[f].pc = "done" => v4'[f].pc = "done" /\ (v3'[f].listed => v3[f].listed)

LEMMA OneUpload ==
  ASSUME UploadsAreGiven, UploadsFit, NEW f \in Files, OneUploadSteps(f), StaysDone(f),
         \A d \in v2' : d[1] = f => v4'[f].pc # "new",
         FileFits(v3'[f], v4'[f], v5'[f], <<f, "target">> \in v2', IsOut(f, v7), f \in v9', v1)
  PROVE  UploadsFit'
<1>1. StoreFits(v2', v4')
  <2> SUFFICES ASSUME NEW d \in v2' PROVE d[1] \in Files /\ v4'[d[1]].pc # "new"
    BY DEF StoreFits
  <2>1. CASE d[1] = f
    BY <2>1
  <2>2. CASE d[1] # f
    <3>1. d \in v2
      BY <2>2 DEF OneUploadSteps
    <3>2. d[1] \in Files /\ v4[d[1]].pc # "new"
      BY <3>1 DEF UploadsFit, StoreFits
    <3> QED
      BY <2>2, <3>2 DEF OneUploadSteps, OnlyAt
  <2> QED
    BY <2>1, <2>2
<1>2. ASSUME NEW g \in Files
      PROVE  FileFits(v3'[g], v4'[g], v5'[g], <<g, "target">> \in v2', IsOut(g, v7), g \in v9', v1)
  <2>1. CASE g # f
    <3>1. FileFits(v3[g], v4[g], v5[g], <<g, "target">> \in v2, IsOut(g, v7), g \in v9, v1)
      BY DEF UploadsFit
    <3>2. v3'[g] = v3[g] /\ v4'[g] = v4[g] /\ v5'[g] = v5[g]
      BY <2>1 DEF OneUploadSteps, OnlyAt
    <3>3. (<<g, "target">> \in v2') <=> (<<g, "target">> \in v2)
      BY <2>1 DEF OneUploadSteps
    <3>4. (g \in v9') <=> (g \in v9)
      BY <2>1 DEF OneUploadSteps
    <3> QED
      BY <3>1, <3>2, <3>3, <3>4 DEF FileFits
  <2> QED
    BY <2>1
<1>3. ASSUME NEW s \in Sweepers PROVE SweepFits(s, v7[s], v8, v1, v3', v4', v5')
  <2>1. SweepFits(s, v7[s], v8, v1, v3, v4, v5)
    BY DEF UploadsFit
  <2>2. ASSUME NEW d \in v7[s].orphan
        PROVE  d[1] \in Files /\ v4'[d[1]].pc = "done" /\ (d = <<d[1], "target">> => ~v3'[d[1]].listed)
    <3>1. d[1] \in Files /\ v4[d[1]].pc = "done" /\ (d = <<d[1], "target">> => ~v3[d[1]].listed)
      BY <2>1 DEF SweepFits
    <3>2. CASE d[1] = f
      BY <3>1, <3>2 DEF StaysDone
    <3>3. CASE d[1] # f
      BY <3>1, <3>3 DEF OneUploadSteps, OnlyAt
    <3> QED
      BY <3>2, <3>3
  <2>3. \A g \in v7[s].todo \cup v7[s].gone : g \in Files /\ IsDoomed(v3'[g], v5'[g], v7[s].at)
    <3>1. CASE v8 = "nobody"
      BY <2>1, <3>1 DEF SweepFits, UploadsAreGiven
    <3>2. CASE v3' = v3 /\ v5' = v5
      BY <2>1, <3>2 DEF SweepFits
    <3> QED
      BY <3>1, <3>2 DEF OneUploadSteps
  <2> QED
    BY <2>1, <2>2, <2>3 DEF SweepFits
<1>4. /\ v3' = [g \in Files |-> v3'[g]] /\ v4' = [g \in Files |-> v4'[g]]
      /\ v5' = [g \in Files |-> v5'[g]] /\ v7' = [s \in Sweepers |-> v7'[s]]
      /\ v1' \in Nat /\ v8' \in Sweepers \cup {"nobody"}
  BY DEF OneUploadSteps, OnlyAt, UploadsFit
<1>5. v1' = v1 /\ v7' = v7 /\ v8' = v8
  BY DEF OneUploadSteps
<1>6. \A g \in Files :
        FileFits(v3'[g], v4'[g], v5'[g], <<g, "target">> \in v2', IsOut(g, v7'), g \in v9', v1')
  BY <1>2, <1>5
<1>7. \A s \in Sweepers : SweepFits(s, v7'[s], v8', v1', v3', v4', v5')
  BY <1>3, <1>5
<1> QED
  BY <1>1, <1>4, <1>6, <1>7 DEF UploadsFit

(* One cleanup steps and takes nothing away.                               *)
LEMMA OneSweep ==
  ASSUME UploadsFit, NEW s \in Sweepers, OnlyAt(Sweepers, s, v7, v7'), v7'[s].gone = v7[s].gone,
         UNCHANGED <<v1, v2, v3, v4, v5, v9>>, v8' \in Sweepers \cup {"nobody"},
         \A t \in Sweepers \ {s} : v8' = t <=> v8 = t,
         SweepFits(s, v7'[s], v8', v1, v3, v4, v5)
  PROVE  UploadsFit'
<1>1. \A t \in Sweepers : v7'[t].gone = v7[t].gone
  BY DEF OnlyAt
<1>2. \A f : IsOut(f, v7') <=> IsOut(f, v7)
  BY <1>1 DEF IsOut
<1>3. \A f \in Files :
        FileFits(v3[f], v4[f], v5[f], <<f, "target">> \in v2, IsOut(f, v7'), f \in v9, v1)
  BY <1>2 DEF UploadsFit, FileFits
<1>4. ASSUME NEW t \in Sweepers PROVE SweepFits(t, v7'[t], v8', v1, v3, v4, v5)
  <2>1. CASE t # s
    <3>1. SweepFits(t, v7[t], v8, v1, v3, v4, v5)
      BY DEF UploadsFit
    <3>2. v7'[t] = v7[t] /\ (v8' = t <=> v8 = t)
      BY <2>1 DEF OnlyAt
    <3> QED
      BY <3>1, <3>2 DEF SweepFits
  <2> QED
    BY <2>1
<1>5. /\ v1' = v1 /\ v2' = v2 /\ v3' = v3 /\ v4' = v4 /\ v5' = v5 /\ v9' = v9
      /\ v7' = [t \in Sweepers |-> v7'[t]]
  BY DEF OnlyAt
<1>6. /\ \A f \in Files :
           FileFits(v3'[f], v4'[f], v5'[f], <<f, "target">> \in v2', IsOut(f, v7'), f \in v9', v1')
      /\ \A t \in Sweepers : SweepFits(t, v7'[t], v8', v1', v3', v4', v5')
      /\ StoreFits(v2', v4')
  BY <1>3, <1>4, <1>5 DEF UploadsFit
<1> QED
  BY <1>5, <1>6 DEF UploadsFit

(* The request that uploads steps, and its row and its import do not.      *)
LEMMA UpSteps ==
  ASSUME UploadsAreGiven, UploadsFit, NEW f \in Files, OnlyAt(Files, f, v4, v4'),
         UNCHANGED <<v1, v3, v5, v7, v8>>, v4[f].pc # "done", v4'[f].pc # "new",
         \A d : d[1] # f => (d \in v2' <=> d \in v2),
         \A g : g # f => (g \in v9' <=> g \in v9),
         FileFits(v3[f], v4'[f], v5[f], <<f, "target">> \in v2', IsOut(f, v7), f \in v9', v1)
  PROVE  UploadsFit'
<1>1. OnlyAt(Files, f, v3, v3') /\ OnlyAt(Files, f, v5, v5')
  BY NoPlace DEF UploadsFit
<1>2. OneUploadSteps(f)
  BY <1>1 DEF OneUploadSteps
<1>3. StaysDone(f)
  BY DEF StaysDone
<1>4. v3' = v3 /\ v5' = v5
  OBVIOUS
<1> QED
  BY <1>2, <1>3, <1>4, OneUpload

LEMMA UploadGoesOn ==
  ASSUME UploadsFit, NEW f \in Files, NEW pc, v4' = [v4 EXCEPT ![f].pc = pc]
  PROVE  /\ OnlyAt(Files, f, v4, v4')
         /\ v4'[f] = [pc |-> pc, at |-> v4[f].at, expires |-> v4[f].expires]
<1>1. v4 = [g \in Files |-> v4[g]] /\ v4[f] = [pc |-> v4[f].pc, at |-> v4[f].at, expires |-> v4[f].expires]
  BY DEF UploadsFit, FileFits
<1>2. v4'[f] = [v4[f] EXCEPT !.pc = pc]
  BY <1>1
<1>3. OnlyAt(Files, f, v4, v4')
  BY <1>1 DEF OnlyAt
<1> QED
  BY <1>1, <1>2, <1>3

LEMMA StageFits ==
  ASSUME UploadsAreGiven, UploadsFit, NEW f \in Files, Uploads!Stage(f)
  PROVE  UploadsFit'
<1>1. FileFits(v3[f], v4[f], v5[f], <<f, "target">> \in v2, IsOut(f, v7), f \in v9, v1)
  BY DEF UploadsFit
<1>2. PICK e : v4' = [v4 EXCEPT ![f] = [pc |-> "staged", at |-> v1, expires |-> e]]
  BY DEF Uploads!Stage
<1>3. v4 = [g \in Files |-> v4[g]] /\ v1 \in Nat
  BY DEF UploadsFit
<1>4. OnlyAt(Files, f, v4, v4') /\ v4'[f] = [pc |-> "staged", at |-> v1, expires |-> e]
  BY <1>2, <1>3 DEF OnlyAt
<1>5. v2' = v2 \cup {<<f, "stage">>} /\ v4[f].pc = "new" /\ UNCHANGED <<v1, v3, v5, v7, v8, v9>>
  BY DEF Uploads!Stage, Uploads!Staged
<1>6. (<<f, "target">> \in v2') <=> (<<f, "target">> \in v2)
  BY <1>5
<1>7. FileFits(v3[f], v4'[f], v5[f], <<f, "target">> \in v2', IsOut(f, v7), f \in v9', v1)
  BY <1>1, <1>3, <1>4, <1>5, <1>6 DEF FileFits, UploadsAreGiven
<1>8. \A d : d[1] # f => (d \in v2' <=> d \in v2)
  BY <1>5
<1> QED
  BY <1>4, <1>5, <1>7, <1>8, UpSteps

LEMMA RefuseFits ==
  ASSUME UploadsAreGiven, UploadsFit, NEW f \in Files, Uploads!Refuse(f)
  PROVE  UploadsFit'
<1>1. FileFits(v3[f], v4[f], v5[f], <<f, "target">> \in v2, IsOut(f, v7), f \in v9, v1)
  BY DEF UploadsFit
<1>2. v4[f].pc = "staged" /\ v2' = v2 \ {<<f, "stage">>} /\ UNCHANGED <<v1, v3, v5, v7, v8, v9>>
  BY DEF Uploads!Refuse, Uploads!Staged
<1>3. /\ OnlyAt(Files, f, v4, v4')
      /\ v4'[f] = [pc |-> "done", at |-> v4[f].at, expires |-> v4[f].expires]
  BY UploadGoesOn DEF Uploads!Refuse
<1>4. (<<f, "target">> \in v2') <=> (<<f, "target">> \in v2)
  BY <1>2
<1>5. FileFits(v3[f], v4'[f], v5[f], <<f, "target">> \in v2', IsOut(f, v7), f \in v9', v1)
  BY <1>1, <1>2, <1>3, <1>4 DEF FileFits
<1>6. \A d : d[1] # f => (d \in v2' <=> d \in v2)
  BY <1>2
<1>7. v4[f].pc # "done" /\ v4'[f].pc # "new" /\ v9' = v9
  BY <1>2, <1>3
<1> QED
  BY <1>2, <1>3, <1>5, <1>6, <1>7, UpSteps

LEMMA PlaceFits ==
  ASSUME UploadsAreGiven, UploadsFit, NEW f \in Files, Uploads!Place(f)
  PROVE  UploadsFit'
<1>1. FileFits(v3[f], v4[f], v5[f], <<f, "target">> \in v2, IsOut(f, v7), f \in v9, v1)
  BY DEF UploadsFit
<1>2. /\ v4[f].pc = "staged" /\ v2' = (v2 \ {<<f, "stage">>}) \cup {<<f, "target">>}
      /\ UNCHANGED <<v1, v3, v5, v7, v8, v9>>
  BY DEF Uploads!Place, Uploads!Staged, Uploads!Target
<1>3. /\ OnlyAt(Files, f, v4, v4')
      /\ v4'[f] = [pc |-> "placed", at |-> v4[f].at, expires |-> v4[f].expires]
  BY UploadGoesOn DEF Uploads!Place
<1>4. <<f, "target">> \in v2'
  BY <1>2
<1>5. FileFits(v3[f], v4'[f], v5[f], <<f, "target">> \in v2', IsOut(f, v7), f \in v9', v1)
  BY <1>1, <1>2, <1>3, <1>4 DEF FileFits
<1>6. \A d : d[1] # f => (d \in v2' <=> d \in v2)
  BY <1>2
<1>7. v4[f].pc # "done" /\ v4'[f].pc # "new" /\ v9' = v9
  BY <1>2, <1>3
<1> QED
  BY <1>2, <1>3, <1>5, <1>6, <1>7, UpSteps

LEMMA AddFileFits ==
  ASSUME UploadsAreGiven, UploadsFit, NEW f \in Files, Uploads!AddFile(f)
  PROVE  UploadsFit'
<1>1. FileFits(v3[f], v4[f], v5[f], <<f, "target">> \in v2, IsOut(f, v7), f \in v9, v1)
  BY DEF UploadsFit
<1>2. v4[f].pc = "placed" /\ v8 = "nobody" /\ UNCHANGED <<v1, v2, v5, v7, v8, v9>>
  BY DEF Uploads!AddFile, Uploads!Unlocked
<1>3. v2' = v2 /\ v9' = v9
  BY <1>2
<1>4. CASE /\ v3' = [v3 EXCEPT ![f] = [Uploads!NoRow EXCEPT !.listed = TRUE, !.expires = v4[f].expires]]
           /\ v4' = [v4 EXCEPT ![f].pc = "listed"]
  <2>1. /\ OnlyAt(Files, f, v4, v4')
        /\ v4'[f] = [pc |-> "listed", at |-> v4[f].at, expires |-> v4[f].expires]
    BY <1>4, UploadGoesOn
  <2>2. v3 = [g \in Files |-> v3[g]] /\ v5 = [g \in Files |-> v5[g]]
    BY DEF UploadsFit
  <2>3. /\ OnlyAt(Files, f, v3, v3')
        /\ v3'[f] = [listed |-> TRUE, deleted |-> FALSE, expires |-> v4[f].expires]
    BY <1>4, <2>2 DEF OnlyAt, Uploads!NoRow
  <2>4. OnlyAt(Files, f, v5, v5') /\ v5' = v5
    BY <1>2, <2>2 DEF OnlyAt
  <2>5. OneUploadSteps(f)
    BY <1>2, <2>1, <2>3, <2>4 DEF OneUploadSteps
  <2>6. StaysDone(f)
    BY <1>2 DEF StaysDone
  <2>7. \A d \in v2' : d[1] = f => v4'[f].pc # "new"
    BY <2>1
  <2>8. FileFits(v3'[f], v4'[f], v5[f], <<f, "target">> \in v2, IsOut(f, v7), f \in v9, v1)
    <3>1. PICK r : r = v3'[f]
      OBVIOUS
    <3>2. PICK u : u = v4'[f]
      OBVIOUS
    <3>3. r = [listed |-> r.listed, deleted |-> r.deleted, expires |-> r.expires] /\ r.listed
      BY <2>3, <3>1
    <3>4. /\ u = [pc |-> u.pc, at |-> u.at, expires |-> u.expires] /\ u.at = v4[f].at
          /\ u.pc = "listed"
      BY <2>1, <3>2
    <3>5. FileFits(r, u, v5[f], <<f, "target">> \in v2, IsOut(f, v7), f \in v9, v1)
      <4>1. ~IsOut(f, v7)
        BY <1>1, <1>2 DEF FileFits, UploadsFit, SweepFits, IsOut, UploadsAreGiven
      <4> QED
        BY <1>1, <1>2, <3>3, <3>4, <4>1 DEF FileFits
    <3> QED
      BY <3>1, <3>2, <3>5
  <2> QED
    BY <1>3, <2>4, <2>5, <2>6, <2>7, <2>8, OneUpload
<1>5. CASE v4' = [v4 EXCEPT ![f].pc = "failed"] /\ UNCHANGED v3
  <2>1. /\ OnlyAt(Files, f, v4, v4')
        /\ v4'[f] = [pc |-> "failed", at |-> v4[f].at, expires |-> v4[f].expires]
    BY <1>5, UploadGoesOn
  <2>2. FileFits(v3[f], v4'[f], v5[f], <<f, "target">> \in v2, IsOut(f, v7), f \in v9, v1)
    BY <1>1, <1>2, <2>1 DEF FileFits
  <2>3. v4[f].pc # "done" /\ v4'[f].pc # "new" /\ v3' = v3
    BY <1>2, <1>5, <2>1
  <2> QED
    BY <1>2, <1>3, <2>1, <2>2, <2>3, UpSteps
<1> QED
  BY <1>4, <1>5 DEF Uploads!AddFile

LEMMA AuditFits ==
  ASSUME UploadsAreGiven, UploadsFit, NEW f \in Files, Uploads!Audit(f)
  PROVE  UploadsFit'
<1>1. FileFits(v3[f], v4[f], v5[f], <<f, "target">> \in v2, IsOut(f, v7), f \in v9, v1)
  BY DEF UploadsFit
<1>2. v4[f].pc = "listed" /\ UNCHANGED <<v1, v2, v3, v5, v7, v8>>
  BY DEF Uploads!Audit
<1>3. v2' = v2
  BY <1>2
<1>4. CASE v4' = [v4 EXCEPT ![f].pc = "done"] /\ UNCHANGED v9
  <2>1. /\ OnlyAt(Files, f, v4, v4')
        /\ v4'[f] = [pc |-> "done", at |-> v4[f].at, expires |-> v4[f].expires]
    BY <1>4, UploadGoesOn
  <2>2. FileFits(v3[f], v4'[f], v5[f], <<f, "target">> \in v2, IsOut(f, v7), f \in v9, v1)
    BY <1>1, <1>2, <2>1 DEF FileFits
  <2>3. v9' = v9
    BY <1>4
  <2> QED
    BY <1>2, <1>3, <2>1, <2>2, <2>3, UpSteps
<1>5. CASE v4' = [v4 EXCEPT ![f].pc = "failed"] /\ v9' = v9 \cup {f}
  <2>1. /\ OnlyAt(Files, f, v4, v4')
        /\ v4'[f] = [pc |-> "failed", at |-> v4[f].at, expires |-> v4[f].expires]
    BY <1>5, UploadGoesOn
  <2>2. f \in v9' /\ \A g : g # f => (g \in v9' <=> g \in v9)
    BY <1>5
  <2>3. FileFits(v3[f], v4'[f], v5[f], <<f, "target">> \in v2, IsOut(f, v7), f \in v9', v1)
    BY <1>1, <1>2, <2>1, <2>2 DEF FileFits
  <2> QED
    BY <1>2, <1>3, <2>1, <2>2, <2>3, UpSteps
<1> QED
  BY <1>4, <1>5 DEF Uploads!Audit

LEMMA UndoFits ==
  ASSUME UploadsAreGiven, UploadsFit, NEW f \in Files, Uploads!Undo(f)
  PROVE  UploadsFit'
<1>1. FileFits(v3[f], v4[f], v5[f], <<f, "target">> \in v2, IsOut(f, v7), f \in v9, v1)
  BY DEF UploadsFit
<1>2. v4[f].pc = "failed" /\ v2' = v2 \ {<<f, "target">>} /\ UNCHANGED <<v1, v3, v5, v7, v8, v9>>
  BY DEF Uploads!Undo, Uploads!Target
<1>3. /\ OnlyAt(Files, f, v4, v4')
      /\ v4'[f] = [pc |-> "done", at |-> v4[f].at, expires |-> v4[f].expires]
  BY UploadGoesOn DEF Uploads!Undo
<1>4. <<f, "target">> \notin v2' /\ v9' = v9
  BY <1>2
<1>5. FileFits(v3[f], v4'[f], v5[f], <<f, "target">> \in v2', IsOut(f, v7), f \in v9', v1)
  BY <1>1, <1>2, <1>3, <1>4 DEF FileFits
<1>6. \A d : d[1] # f => (d \in v2' <=> d \in v2)
  BY <1>2
<1>7. v4[f].pc # "done" /\ v4'[f].pc # "new" /\ v9' = v9
  BY <1>2, <1>3
<1> QED
  BY <1>2, <1>3, <1>5, <1>6, <1>7, UpSteps

(* The row or the import of an upload steps, under the lock.               *)
LEMMA RowSteps ==
  ASSUME UploadsAreGiven, UploadsFit, NEW f \in Files, v8 = "nobody",
         OnlyAt(Files, f, v3, v3'), OnlyAt(Files, f, v5, v5'), v3'[f].listed <=> v3[f].listed,
         UNCHANGED <<v1, v2, v4, v7, v8, v9>>,
         ~IsOut(f, v7) => FileFits(v3'[f], v4[f], v5'[f], <<f, "target">> \in v2, IsOut(f, v7), f \in v9, v1)
  PROVE  UploadsFit'
<1>1. OnlyAt(Files, f, v4, v4')
  BY NoPlace DEF UploadsFit
<1>2. v2' = v2 /\ v4' = v4 /\ v9' = v9
  OBVIOUS
<1>3. OneUploadSteps(f)
  BY <1>1 DEF OneUploadSteps
<1>4. StaysDone(f)
  BY DEF StaysDone
<1>5. ~IsOut(f, v7)
  BY DEF UploadsFit, SweepFits, IsOut, UploadsAreGiven
<1>6. \A d \in v2' : d[1] = f => v4'[f].pc # "new"
  BY <1>2 DEF UploadsFit, StoreFits
<1> QED
  BY <1>2, <1>3, <1>4, <1>5, <1>6, OneUpload

LEMMA DeleteFits ==
  ASSUME UploadsAreGiven, UploadsFit, NEW f \in Files, Uploads!Delete(f)
  PROVE  UploadsFit'
<1>1. FileFits(v3[f], v4[f], v5[f], <<f, "target">> \in v2, IsOut(f, v7), f \in v9, v1)
  BY DEF UploadsFit
<1>2. /\ v3' = [v3 EXCEPT ![f].deleted = TRUE] /\ v8 = "nobody"
      /\ UNCHANGED <<v1, v2, v4, v5, v7, v8, v9>>
  BY DEF Uploads!Delete, Uploads!Unlocked
<1>3. v3 = [g \in Files |-> v3[g]] /\ v5 = [g \in Files |-> v5[g]]
  BY DEF UploadsFit
<1>4. v3[f] = [listed |-> v3[f].listed, deleted |-> v3[f].deleted, expires |-> v3[f].expires]
  BY <1>1 DEF FileFits
<1>5. OnlyAt(Files, f, v3, v3') /\ v3'[f] = [v3[f] EXCEPT !.deleted = TRUE]
  BY <1>2, <1>3 DEF OnlyAt
<1>6. v3'[f] = [listed |-> v3[f].listed, deleted |-> TRUE, expires |-> v3[f].expires]
  BY <1>4, <1>5
<1>7. OnlyAt(Files, f, v5, v5') /\ v5' = v5
  BY <1>2, <1>3 DEF OnlyAt
<1>8. PICK r : r = v3'[f]
  OBVIOUS
<1>9. r = [listed |-> r.listed, deleted |-> r.deleted, expires |-> r.expires] /\ r.listed = v3[f].listed
  BY <1>6, <1>8
<1>10. FileFits(r, v4[f], v5[f], <<f, "target">> \in v2, IsOut(f, v7), f \in v9, v1)
  BY <1>1, <1>9 DEF FileFits
<1> QED
  BY <1>2, <1>5, <1>7, <1>8, <1>9, <1>10, RowSteps

LEMMA AskImportFits ==
  ASSUME UploadsAreGiven, UploadsFit, NEW f \in Files, Uploads!AskImport(f)
  PROVE  UploadsFit'
<1>1. UNCHANGED <<v1, v2, v3, v4, v5, v7, v8, v9>>
  BY DEF Uploads!AskImport
<1> QED
  BY <1>1 DEF UploadsFit

LEMMA CreateJobFits ==
  ASSUME UploadsAreGiven, UploadsFit, NEW f \in Files, Uploads!CreateJob(f)
  PROVE  UploadsFit'
<1>1. FileFits(v3[f], v4[f], v5[f], <<f, "target">> \in v2, IsOut(f, v7), f \in v9, v1)
  BY DEF UploadsFit
<1>2. v8 = "nobody" /\ UNCHANGED <<v1, v2, v3, v4, v7, v8, v9>>
  BY DEF Uploads!CreateJob, Uploads!Unlocked
<1>3. v3 = [g \in Files |-> v3[g]] /\ v5 = [g \in Files |-> v5[g]]
  BY DEF UploadsFit
<1>4. OnlyAt(Files, f, v3, v3') /\ v3' = v3
  BY <1>2, <1>3 DEF OnlyAt
<1>5. CASE v5' = v5
  BY <1>2, <1>5 DEF UploadsFit
<1>6. CASE v5' # v5
  <2>1. /\ v3[f].listed
        /\ v5' = [v5 EXCEPT ![f] = [status |-> "pending", updated |-> v6[f]]]
    BY <1>6 DEF Uploads!CreateJob
  <2>2. OnlyAt(Files, f, v5, v5') /\ v5'[f] = [status |-> "pending", updated |-> v6[f]]
    BY <1>3, <2>1 DEF OnlyAt
  <2>3. PICK j : j = v5'[f]
    OBVIOUS
  <2>4. j.status = "pending"
    BY <2>2, <2>3
  <2>5. ASSUME ~IsOut(f, v7)
        PROVE  FileFits(v3[f], v4[f], j, <<f, "target">> \in v2, IsOut(f, v7), f \in v9, v1)
    BY <1>1, <2>1, <2>4, <2>5 DEF FileFits
  <2> QED
    BY <1>2, <1>4, <2>2, <2>3, <2>5, RowSteps
<1> QED
  BY <1>5, <1>6

LEMMA SetJobFits ==
  ASSUME UploadsAreGiven, UploadsFit, NEW f \in Files, NEW from \in {"pending", "running", "paused"},
         NEW to \in {"pending", "running", "paused", "ended"}, Uploads!SetJob(f, from, to)
  PROVE  UploadsFit'
<1>1. FileFits(v3[f], v4[f], v5[f], <<f, "target">> \in v2, IsOut(f, v7), f \in v9, v1)
  BY DEF UploadsFit
<1>2. /\ v8 = "nobody" /\ v5[f].status = from
      /\ v5' = [v5 EXCEPT ![f] = [status |-> to, updated |-> v1]]
      /\ UNCHANGED <<v1, v2, v3, v4, v7, v8, v9>>
  BY DEF Uploads!SetJob, Uploads!Unlocked
<1>3. v3 = [g \in Files |-> v3[g]] /\ v5 = [g \in Files |-> v5[g]]
  BY DEF UploadsFit
<1>4. OnlyAt(Files, f, v3, v3') /\ v3' = v3
  BY <1>2, <1>3 DEF OnlyAt
<1>5. OnlyAt(Files, f, v5, v5') /\ v5'[f] = [status |-> to, updated |-> v1]
  BY <1>2, <1>3 DEF OnlyAt
<1>6. PICK j : j = v5'[f]
  OBVIOUS
<1>7. j.status = to
  BY <1>5, <1>6
<1>8. ASSUME ~IsOut(f, v7)
      PROVE  FileFits(v3[f], v4[f], j, <<f, "target">> \in v2, IsOut(f, v7), f \in v9, v1)
  BY <1>1, <1>2, <1>7, <1>8 DEF FileFits
<1> QED
  BY <1>2, <1>4, <1>5, <1>6, <1>8, RowSteps

LEMMA SweepOf ==
  ASSUME UploadsFit, NEW s \in Sweepers
  PROVE  /\ SweepFits(s, v7[s], v8, v1, v3, v4, v5) /\ v7 = [t \in Sweepers |-> v7[t]]
         /\ v8 \in Sweepers \cup {"nobody"} /\ v1 \in Nat
         /\ v7[s] = [pc |-> v7[s].pc, at |-> v7[s].at, todo |-> v7[s].todo, gone |-> v7[s].gone,
                     orphan |-> v7[s].orphan]
  BY DEF UploadsFit, SweepFits

LEMMA SweepStarts ==
  ASSUME UploadsAreGiven, UploadsFit, NEW s \in Sweepers, Uploads!Sweep(s)
  PROVE  UploadsFit'
<1>1. /\ v7[s].pc = "idle" /\ UNCHANGED <<v1, v2, v3, v4, v5, v8, v9>>
      /\ v7' = [v7 EXCEPT ![s] = [pc |-> "waiting", at |-> v1, todo |-> {}, gone |-> {}, orphan |-> {}]]
  <2>1. PICK i : i = Uploads!Idle
    OBVIOUS
  <2>2. /\ v7[s].pc = "idle" /\ UNCHANGED <<v1, v2, v3, v4, v5, v8, v9>>
        /\ v7' = [v7 EXCEPT ![s] = [i EXCEPT !.pc = "waiting", !.at = v1]]
    BY <2>1 DEF Uploads!Sweep
  <2>3. i = [pc |-> "idle", at |-> 0, todo |-> {}, gone |-> {}, orphan |-> {}]
    BY <2>1 DEF Uploads!Idle
  <2>4. PICK j : j = [i EXCEPT !.pc = "waiting", !.at = v1]
    OBVIOUS
  <2>5. j = [pc |-> "waiting", at |-> v1, todo |-> {}, gone |-> {}, orphan |-> {}]
    BY <2>3, <2>4
  <2> QED
    BY <2>2, <2>4, <2>5
<1>2. /\ OnlyAt(Sweepers, s, v7, v7')
      /\ v7'[s] = [pc |-> "waiting", at |-> v1, todo |-> {}, gone |-> {}, orphan |-> {}]
  BY <1>1, SweepOf DEF OnlyAt
<1>3. PICK m : m = v7'[s]
  OBVIOUS
<1>4. m = [pc |-> "waiting", at |-> v1, todo |-> {}, gone |-> {}, orphan |-> {}]
  BY <1>2, <1>3
<1>5. v8 # s /\ v7[s].gone = {} /\ v1 \in Nat /\ v8 \in Sweepers \cup {"nobody"}
  BY <1>1, SweepOf DEF SweepFits
<1>6. SweepFits(s, m, v8, v1, v3, v4, v5)
  BY <1>4, <1>5 DEF SweepFits
<1>7. v8' = v8 /\ m.gone = v7[s].gone
  BY <1>1, <1>4, <1>5
<1> QED
  BY <1>1, <1>2, <1>3, <1>5, <1>6, <1>7, OneSweep

LEMMA DoomedIs ==
  ASSUME NEW now, NEW f \in Uploads!Doomed(now)
  PROVE  f \in Files /\ IsDoomed(v3[f], v5[f], now)
  BY DEF Uploads!Doomed, Uploads!Expired, Uploads!Active, Uploads!TimedOut, IsDoomed

LEMMA LockFits ==
  ASSUME UploadsAreGiven, UploadsFit, NEW s \in Sweepers, Uploads!Lock(s)
  PROVE  UploadsFit'
<1>1. /\ v7[s].pc = "waiting" /\ v8 = "nobody" /\ v8' = s /\ UNCHANGED <<v1, v2, v3, v4, v5, v9>>
      /\ v7' = [v7 EXCEPT ![s].pc = "rows", ![s].todo = Uploads!Doomed(v7[s].at)]
  BY DEF Uploads!Lock, Uploads!Unlocked
<1>2. PICK D : D = Uploads!Doomed(v7[s].at)
  OBVIOUS
<1>3. /\ OnlyAt(Sweepers, s, v7, v7')
      /\ v7'[s] = [pc |-> "rows", at |-> v7[s].at, todo |-> D, gone |-> v7[s].gone,
                   orphan |-> v7[s].orphan]
  <2>1. OnlyAt(Sweepers, s, v7, v7')
    BY <1>1, SweepOf DEF OnlyAt
  <2>2. v7'[s] = [v7[s] EXCEPT !.pc = "rows", !.todo = D]
    BY <1>1, <1>2, SweepOf
  <2> QED
    BY <2>1, <2>2, SweepOf
<1>4. PICK m : m = v7'[s]
  OBVIOUS
<1>5. m = [pc |-> "rows", at |-> v7[s].at, todo |-> D, gone |-> v7[s].gone, orphan |-> v7[s].orphan]
  BY <1>3, <1>4
<1>6. \A f \in D : f \in Files /\ IsDoomed(v3[f], v5[f], v7[s].at)
  BY <1>2, DoomedIs
<1>7. v7[s].gone = {}
  BY <1>1, SweepOf DEF SweepFits
<1>8. SweepFits(s, v7[s], v8, v1, v3, v4, v5)
  BY SweepOf
<1>9. SweepFits(s, m, s, v1, v3, v4, v5)
  BY <1>5, <1>6, <1>7, <1>8 DEF SweepFits
<1>10. \A t \in Sweepers \ {s} : v8' = t <=> v8 = t
  BY <1>1 DEF UploadsAreGiven
<1>11. m.gone = v7[s].gone
  BY <1>5
<1> QED
  BY <1>1, <1>3, <1>4, <1>9, <1>10, <1>11, OneSweep

LEMMA FindOrphanFits ==
  ASSUME UploadsAreGiven, UploadsFit, NEW s \in Sweepers, Uploads!FindOrphan(s)
  PROVE  UploadsFit'
<1>1. PICK d \in v2 : /\ v4[d[1]].at + Ttl < v7[s].at /\ (d = <<d[1], "target">> => ~v3[d[1]].listed)
                      /\ v7' = [v7 EXCEPT ![s].orphan = {d}]
  BY DEF Uploads!FindOrphan, Uploads!OldEnough, Uploads!Grace, Uploads!Target
<1>2. v7[s].pc = "orphans" /\ UNCHANGED <<v1, v2, v3, v4, v5, v8, v9>>
  BY DEF Uploads!FindOrphan
<1>3. /\ OnlyAt(Sweepers, s, v7, v7')
      /\ v7'[s] = [pc |-> v7[s].pc, at |-> v7[s].at, todo |-> v7[s].todo, gone |-> v7[s].gone,
                   orphan |-> {d}]
  <2>1. OnlyAt(Sweepers, s, v7, v7')
    BY <1>1, SweepOf DEF OnlyAt
  <2>2. v7'[s] = [v7[s] EXCEPT !.orphan = {d}]
    BY <1>1, SweepOf
  <2> QED
    BY <2>1, <2>2, SweepOf
<1>4. PICK m : m = v7'[s]
  OBVIOUS
<1>5. m = [pc |-> v7[s].pc, at |-> v7[s].at, todo |-> v7[s].todo, gone |-> v7[s].gone, orphan |-> {d}]
  BY <1>3, <1>4
<1>6. SweepFits(s, v7[s], v8, v1, v3, v4, v5)
  BY SweepOf
<1>7. d[1] \in Files /\ v4[d[1]].pc # "new"
  BY DEF UploadsFit, StoreFits
<1>8. PICK u : u = v4[d[1]]
  OBVIOUS
<1>9. /\ u.pc \in {"new", "staged", "placed", "listed", "failed", "done"} /\ u.at \in Nat
      /\ u.pc \in {"staged", "placed", "listed", "failed"} => v1 <= u.at + Ttl
  BY <1>7, <1>8 DEF UploadsFit, FileFits
<1>10. v7[s].at \in Nat /\ v7[s].at <= v1 /\ v1 \in Nat /\ Ttl \in Nat
  BY <1>6, SweepOf DEF SweepFits, UploadsAreGiven
<1>11. ~(v1 <= u.at + Ttl)
  BY <1>1, <1>8, <1>9, <1>10
<1>12. u.pc = "done"
  BY <1>7, <1>8, <1>9, <1>11
<1>13. SweepFits(s, m, v8, v1, v3, v4, v5)
  BY <1>1, <1>5, <1>6, <1>7, <1>8, <1>12 DEF SweepFits
<1>14. v8' = v8 /\ m.gone = v7[s].gone /\ v8 \in Sweepers \cup {"nobody"}
  BY <1>2, <1>5, SweepOf
<1> QED
  BY <1>2, <1>3, <1>4, <1>13, <1>14, OneSweep

LEMMA SweptFits ==
  ASSUME UploadsAreGiven, UploadsFit, NEW s \in Sweepers, Uploads!Swept(s)
  PROVE  UploadsFit'
<1>1. /\ v7[s].pc = "orphans" /\ UNCHANGED <<v1, v2, v3, v4, v5, v8, v9>>
      /\ v7' = [v7 EXCEPT ![s] = [pc |-> "idle", at |-> 0, todo |-> {}, gone |-> {}, orphan |-> {}]]
  BY DEF Uploads!Swept, Uploads!Idle
<1>2. /\ OnlyAt(Sweepers, s, v7, v7')
      /\ v7'[s] = [pc |-> "idle", at |-> 0, todo |-> {}, gone |-> {}, orphan |-> {}]
  BY <1>1, SweepOf DEF OnlyAt
<1>3. PICK m : m = v7'[s]
  OBVIOUS
<1>4. m = [pc |-> "idle", at |-> 0, todo |-> {}, gone |-> {}, orphan |-> {}]
  BY <1>2, <1>3
<1>5. v8 # s /\ v7[s].gone = {} /\ v1 \in Nat /\ v8 \in Sweepers \cup {"nobody"}
  BY <1>1, SweepOf DEF SweepFits
<1>6. SweepFits(s, m, v8, v1, v3, v4, v5)
  BY <1>4, <1>5 DEF SweepFits
<1>7. v8' = v8 /\ m.gone = v7[s].gone
  BY <1>1, <1>4, <1>5
<1> QED
  BY <1>1, <1>2, <1>3, <1>5, <1>6, <1>7, OneSweep

LEMMA RemoveOrphanFits ==
  ASSUME UploadsAreGiven, UploadsFit, NEW s \in Sweepers, Uploads!RemoveOrphan(s)
  PROVE  UploadsFit'
<1>1. /\ v2' = v2 \ v7[s].orphan /\ UNCHANGED <<v1, v3, v4, v5, v8, v9>>
      /\ v7' = [v7 EXCEPT ![s].orphan = {}]
  BY DEF Uploads!RemoveOrphan
<1>2. SweepFits(s, v7[s], v8, v1, v3, v4, v5)
  BY SweepOf
<1>3. /\ OnlyAt(Sweepers, s, v7, v7')
      /\ v7'[s] = [pc |-> v7[s].pc, at |-> v7[s].at, todo |-> v7[s].todo, gone |-> v7[s].gone,
                   orphan |-> {}]
  <2>1. OnlyAt(Sweepers, s, v7, v7')
    BY <1>1, SweepOf DEF OnlyAt
  <2>2. v7'[s] = [v7[s] EXCEPT !.orphan = {}]
    BY <1>1, SweepOf
  <2> QED
    BY <2>1, <2>2, SweepOf
<1>4. \A t \in Sweepers : v7'[t].gone = v7[t].gone
  BY <1>3 DEF OnlyAt
<1>5. \A f : IsOut(f, v7') <=> IsOut(f, v7)
  BY <1>4 DEF IsOut
<1>6. ASSUME NEW f \in Files
      PROVE  FileFits(v3[f], v4[f], v5[f], <<f, "target">> \in v2', IsOut(f, v7'), f \in v9, v1)
  <2>1. FileFits(v3[f], v4[f], v5[f], <<f, "target">> \in v2, IsOut(f, v7), f \in v9, v1)
    BY DEF UploadsFit
  <2>2. CASE <<f, "target">> \in v7[s].orphan
    <3>1. v4[f].pc = "done" /\ ~v3[f].listed
      BY <1>2, <2>2 DEF SweepFits
    <3> QED
      BY <1>5, <2>1, <3>1 DEF FileFits
  <2>3. CASE <<f, "target">> \notin v7[s].orphan
    <3>1. (<<f, "target">> \in v2') <=> (<<f, "target">> \in v2)
      BY <1>1, <2>3
    <3> QED
      BY <1>5, <2>1, <3>1 DEF FileFits
  <2> QED
    BY <2>2, <2>3
<1>7. ASSUME NEW t \in Sweepers PROVE SweepFits(t, v7'[t], v8, v1, v3, v4, v5)
  <2>1. CASE t # s
    BY <1>3, <2>1, SweepOf DEF OnlyAt
  <2>2. CASE t = s
    <3>1. PICK m : m = v7'[s]
      OBVIOUS
    <3>2. m = [pc |-> v7[s].pc, at |-> v7[s].at, todo |-> v7[s].todo, gone |-> v7[s].gone,
               orphan |-> {}]
      BY <1>3, <3>1
    <3>3. SweepFits(s, m, v8, v1, v3, v4, v5)
      BY <1>2, <3>2 DEF SweepFits
    <3> QED
      BY <2>2, <3>1, <3>3
  <2> QED
    BY <2>1, <2>2
<1>8. StoreFits(v2', v4)
  BY <1>1 DEF UploadsFit, StoreFits
<1>9. /\ v1' = v1 /\ v3' = v3 /\ v4' = v4 /\ v5' = v5 /\ v8' = v8 /\ v9' = v9
      /\ v7' = [t \in Sweepers |-> v7'[t]]
  BY <1>1, <1>3 DEF OnlyAt
<1>10. /\ \A f \in Files :
            FileFits(v3'[f], v4'[f], v5'[f], <<f, "target">> \in v2', IsOut(f, v7'), f \in v9', v1')
       /\ \A t \in Sweepers : SweepFits(t, v7'[t], v8', v1', v3', v4', v5')
       /\ StoreFits(v2', v4')
  BY <1>6, <1>7, <1>8, <1>9
<1> QED
  BY <1>9, <1>10 DEF UploadsFit

LEMMA UnlinkFits ==
  ASSUME UploadsAreGiven, UploadsFit, NEW s \in Sweepers, NEW f \in Files, Uploads!Unlink(s, f)
  PROVE  UploadsFit'
<1>1. v7[s].pc = "rows" /\ f \in v7[s].todo /\ UNCHANGED <<v1, v3, v4, v5, v8>>
  BY DEF Uploads!Unlink
<1>2. SweepFits(s, v7[s], v8, v1, v3, v4, v5)
  BY SweepOf
<1>3. CASE v7' = [v7 EXCEPT ![s].todo = @ \ {f}] /\ UNCHANGED <<v2, v9>>
  <2>1. OnlyAt(Sweepers, s, v7, v7')
    BY <1>3, SweepOf DEF OnlyAt
  <2>2. v7'[s] = [v7[s] EXCEPT !.todo = v7[s].todo \ {f}]
    BY <1>3, SweepOf
  <2>3. v7'[s] = [pc |-> v7[s].pc, at |-> v7[s].at, todo |-> v7[s].todo \ {f},
                  gone |-> v7[s].gone, orphan |-> v7[s].orphan]
    BY <2>2, SweepOf
  <2>4. PICK m : m = v7'[s]
    OBVIOUS
  <2>5. m = [pc |-> v7[s].pc, at |-> v7[s].at, todo |-> v7[s].todo \ {f},
             gone |-> v7[s].gone, orphan |-> v7[s].orphan]
    BY <2>3, <2>4
  <2>6. SweepFits(s, m, v8, v1, v3, v4, v5)
    BY <1>1, <1>2, <2>5 DEF SweepFits
  <2>7. v8' = v8 /\ m.gone = v7[s].gone /\ v8 \in Sweepers \cup {"nobody"}
    BY <1>1, <2>5, SweepOf
  <2> QED
    BY <1>1, <1>3, <2>1, <2>4, <2>6, <2>7, OneSweep
<1>4. CASE /\ v2' = v2 \ {<<f, "target">>}
           /\ v7' = [v7 EXCEPT ![s].todo = @ \ {f}, ![s].gone = @ \cup {f}]
           /\ v9' = IF v5[f].status = "paused" THEN v9 \cup {f} ELSE v9
  <2>1. OnlyAt(Sweepers, s, v7, v7')
    BY <1>4, SweepOf DEF OnlyAt
  <2>2. v7'[s] = [v7[s] EXCEPT !.todo = v7[s].todo \ {f}, !.gone = v7[s].gone \cup {f}]
    BY <1>4, SweepOf
  <2>3. v7'[s] = [pc |-> v7[s].pc, at |-> v7[s].at, todo |-> v7[s].todo \ {f},
                  gone |-> v7[s].gone \cup {f}, orphan |-> v7[s].orphan]
    BY <2>2, SweepOf
  <2>4. PICK m : m = v7'[s]
    OBVIOUS
  <2>5. m = [pc |-> v7[s].pc, at |-> v7[s].at, todo |-> v7[s].todo \ {f},
             gone |-> v7[s].gone \cup {f}, orphan |-> v7[s].orphan]
    BY <2>3, <2>4
  <2>6. SweepFits(s, m, v8, v1, v3, v4, v5)
    BY <1>1, <1>2, <2>5 DEF SweepFits
  <2>7. ASSUME NEW t \in Sweepers PROVE SweepFits(t, v7'[t], v8, v1, v3, v4, v5)
    BY <2>1, <2>4, <2>6, SweepOf DEF OnlyAt
  <2>8. \A g : g # f => (IsOut(g, v7') <=> IsOut(g, v7))
    <3>1. \A t \in Sweepers : \A g : g # f => (g \in v7'[t].gone <=> g \in v7[t].gone)
      <4>1. \A t \in Sweepers \ {s} : v7'[t] = v7[t]
        BY <2>1 DEF OnlyAt
      <4>2. v7'[s].gone = v7[s].gone \cup {f}
        BY <2>3
      <4> QED
        BY <4>1, <4>2
    <3> QED
      BY <3>1 DEF IsOut
  <2>9. IsOut(f, v7')
    <3>1. f \in v7'[s].gone
      BY <2>3
    <3> QED
      BY <3>1 DEF IsOut
  <2>10. ASSUME NEW g \in Files
         PROVE  FileFits(v3[g], v4[g], v5[g], <<g, "target">> \in v2', IsOut(g, v7'), g \in v9', v1)
    <3>1. FileFits(v3[g], v4[g], v5[g], <<g, "target">> \in v2, IsOut(g, v7), g \in v9, v1)
      BY DEF UploadsFit
    <3>2. CASE g # f
      <4>1. (<<g, "target">> \in v2') <=> (<<g, "target">> \in v2)
        BY <1>4, <3>2
      <4>2. g \in v9' <=> g \in v9
        BY <1>4, <3>2
      <4>3. IsOut(g, v7') <=> IsOut(g, v7)
        BY <2>8, <3>2
      <4> QED
        BY <3>1, <4>1, <4>2, <4>3 DEF FileFits
    <3>3. CASE g = f
      <4>1. v3[f].listed
        BY <1>1, <1>2 DEF SweepFits, IsDoomed
      <4>2. f \in v9 => f \in v9'
        BY <1>4
      <4>3. f \notin v9' => v5[f].status # "paused"
        BY <1>4
      <4> QED
        BY <2>9, <3>1, <3>3, <4>1, <4>2, <4>3 DEF FileFits
    <3> QED
      BY <3>2, <3>3
  <2>11. StoreFits(v2', v4)
    BY <1>4 DEF UploadsFit, StoreFits
  <2>12. /\ v1' = v1 /\ v3' = v3 /\ v4' = v4 /\ v5' = v5 /\ v8' = v8
         /\ v7' = [t \in Sweepers |-> v7'[t]]
    BY <1>1, <2>1 DEF OnlyAt
  <2>13. /\ \A g \in Files :
              FileFits(v3'[g], v4'[g], v5'[g], <<g, "target">> \in v2', IsOut(g, v7'), g \in v9', v1')
         /\ \A t \in Sweepers : SweepFits(t, v7'[t], v8', v1', v3', v4', v5')
         /\ StoreFits(v2', v4')
    BY <2>7, <2>10, <2>11, <2>12
  <2> QED
    BY <2>12, <2>13 DEF UploadsFit
<1> QED
  BY <1>3, <1>4 DEF Uploads!Unlink, Uploads!Target

LEMMA CommitFits ==
  ASSUME UploadsAreGiven, UploadsFit, NEW s \in Sweepers, Uploads!Commit(s)
  PROVE  UploadsFit'
<1>1. /\ v7[s].pc = "rows" /\ v8' = "nobody" /\ UNCHANGED <<v1, v2, v4, v9>>
      /\ v5' = [f \in Files |-> IF /\ v5[f].status \in {"pending", "running"}
                                   /\ v5[f].updated + Timeout <= v7[s].at
                                THEN [status |-> "ended", updated |-> v7[s].at] ELSE v5[f]]
      /\ v3' = [f \in Files |-> IF f \in v7[s].gone THEN Uploads!NoRow ELSE v3[f]]
      /\ v7' = [v7 EXCEPT ![s].pc = "orphans", ![s].todo = {}, ![s].gone = {}]
  BY DEF Uploads!Commit, Uploads!TimedOut, Uploads!Active
<1>2. SweepFits(s, v7[s], v8, v1, v3, v4, v5)
  BY SweepOf
<1>3. v8 = s
  BY <1>1, <1>2 DEF SweepFits
<1>4. OnlyAt(Sweepers, s, v7, v7')
  BY <1>1, SweepOf DEF OnlyAt
<1>5. v7'[s] = [pc |-> "orphans", at |-> v7[s].at, todo |-> {}, gone |-> {}, orphan |-> v7[s].orphan]
  <2>1. v7'[s] = [v7[s] EXCEPT !.pc = "orphans", !.todo = {}, !.gone = {}]
    BY <1>1, SweepOf
  <2> QED
    BY <2>1, SweepOf
<1>6. ASSUME NEW t \in Sweepers PROVE v7'[t].gone = {} /\ v7'[t].todo = {} /\ v7'[t].pc # "rows"
  <2>1. CASE t = s
    BY <1>5, <2>1
  <2>2. CASE t # s
    <3>1. v7'[t] = v7[t]
      BY <1>4, <2>2 DEF OnlyAt
    <3>2. SweepFits(t, v7[t], v8, v1, v3, v4, v5)
      BY SweepOf
    <3> QED
      BY <1>3, <2>2, <3>1, <3>2 DEF SweepFits
  <2> QED
    BY <2>1, <2>2
<1>7. \A f : ~IsOut(f, v7')
  BY <1>6 DEF IsOut
<1>8. \A f : IsOut(f, v7) <=> f \in v7[s].gone
  BY <1>3, SweepOf DEF IsOut, SweepFits
<1>9. ASSUME NEW f \in Files
      PROVE  FileFits(v3'[f], v4[f], v5'[f], <<f, "target">> \in v2, IsOut(f, v7'), f \in v9, v1)
  <2>1. FileFits(v3[f], v4[f], v5[f], <<f, "target">> \in v2, IsOut(f, v7), f \in v9, v1)
    BY DEF UploadsFit
  <2>2. PICK r : r = v3'[f]
    OBVIOUS
  <2>3. PICK j : j = v5'[f]
    OBVIOUS
  <2>4. /\ j.status = "ended" \/ j.status = v5[f].status
        /\ v5[f].status \in {"pending", "running"} /\ v5[f].updated + Timeout <= v7[s].at
             => j.status = "ended"
    <3>1. CASE v5[f].status \in {"pending", "running"} /\ v5[f].updated + Timeout <= v7[s].at
      <4>1. j = [status |-> "ended", updated |-> v7[s].at]
        BY <1>1, <2>3, <3>1
      <4> QED
        BY <4>1
    <3>2. CASE ~(v5[f].status \in {"pending", "running"} /\ v5[f].updated + Timeout <= v7[s].at)
      <4>1. j = v5[f]
        BY <1>1, <2>3, <3>2
      <4> QED
        BY <3>2, <4>1
    <3> QED
      BY <3>1, <3>2
  <2>5. CASE f \in v7[s].gone
    <3>1. r = Uploads!NoRow
      BY <1>1, <2>2, <2>5
    <3>2. r = [listed |-> r.listed, deleted |-> r.deleted, expires |-> r.expires] /\ ~r.listed
      BY <3>1 DEF Uploads!NoRow
    <3>3. IsDoomed(v3[f], v5[f], v7[s].at)
      BY <1>2, <2>5 DEF SweepFits
    <3>4. f \notin v9 => j.status \in {"none", "ended"}
      BY <1>8, <2>1, <2>4, <2>5, <3>3 DEF FileFits, IsDoomed
    <3>5. FileFits(r, v4[f], j, <<f, "target">> \in v2, IsOut(f, v7'), f \in v9, v1)
      <4>1. j.status \in {"none", "pending", "running", "paused", "ended"}
        BY <2>1, <2>4 DEF FileFits
      <4> QED
        BY <1>7, <2>1, <3>2, <3>4, <4>1 DEF FileFits
    <3> QED
      BY <2>2, <2>3, <3>5
  <2>6. CASE f \notin v7[s].gone
    <3>1. r = v3[f]
      BY <1>1, <2>2, <2>6
    <3>2. FileFits(r, v4[f], j, <<f, "target">> \in v2, IsOut(f, v7'), f \in v9, v1)
      BY <1>7, <1>8, <2>1, <2>4, <2>6, <3>1 DEF FileFits
    <3> QED
      BY <2>2, <2>3, <3>2
  <2> QED
    BY <2>5, <2>6
<1>10. ASSUME NEW t \in Sweepers PROVE SweepFits(t, v7'[t], "nobody", v1, v3', v4, v5')
  <2>1. SweepFits(t, v7[t], v8, v1, v3, v4, v5)
    BY SweepOf
  <2>2. v7'[t] = [pc |-> v7'[t].pc, at |-> v7[t].at, todo |-> {}, gone |-> {}, orphan |-> v7[t].orphan]
    <3>1. CASE t = s
      BY <1>5, <3>1
    <3>2. CASE t # s
      <4>1. v7'[t] = v7[t]
        BY <1>4, <3>2 DEF OnlyAt
      <4>2. v7[t].todo = {} /\ v7[t].gone = {}
        BY <1>6, <4>1
      <4> QED
        BY <2>1, <4>1, <4>2 DEF SweepFits
    <3> QED
      BY <3>1, <3>2
  <2>3. PICK m : m = v7'[t]
    OBVIOUS
  <2>4. /\ m = [pc |-> m.pc, at |-> v7[t].at, todo |-> {}, gone |-> {}, orphan |-> v7[t].orphan]
        /\ m.pc # "rows"
    BY <1>6, <2>2, <2>3
  <2>5. \A f \in Files : v3'[f].listed => v3[f].listed
    BY <1>1 DEF Uploads!NoRow
  <2>6. \A d \in m.orphan : /\ d[1] \in Files /\ v4[d[1]].pc = "done"
                            /\ d = <<d[1], "target">> => ~v3'[d[1]].listed
    BY <2>1, <2>4, <2>5 DEF SweepFits
  <2>7. SweepFits(t, m, "nobody", v1, v3', v4, v5')
    BY <2>1, <2>4, <2>6 DEF SweepFits, UploadsAreGiven
  <2> QED
    BY <2>3, <2>7
<1>11. /\ v1' = v1 /\ v2' = v2 /\ v4' = v4 /\ v9' = v9 /\ v8' = "nobody"
       /\ v7' = [t \in Sweepers |-> v7'[t]]
       /\ v3' = [f \in Files |-> v3'[f]] /\ v5' = [f \in Files |-> v5'[f]]
  BY <1>1, <1>4 DEF OnlyAt
<1>12. /\ \A g \in Files :
            FileFits(v3'[g], v4'[g], v5'[g], <<g, "target">> \in v2', IsOut(g, v7'), g \in v9', v1')
       /\ \A t \in Sweepers : SweepFits(t, v7'[t], v8', v1', v3', v4', v5')
       /\ StoreFits(v2', v4')
  BY <1>9, <1>10, <1>11 DEF UploadsFit
<1> QED
  BY <1>11, <1>12 DEF UploadsFit

LEMMA CrashFits == ASSUME UploadsAreGiven, UploadsFit, Uploads!Crash PROVE UploadsFit'
<1>1. /\ v4' = [f \in Files |-> IF v4[f].pc \in {"staged", "placed", "listed", "failed"}
                                THEN [v4[f] EXCEPT !.pc = "done"] ELSE v4[f]]
      /\ v7' = [s \in Sweepers |-> Uploads!Idle] /\ v8' = "nobody"
      /\ v9' = v9 \cup UNION {v7[s].gone : s \in Sweepers} /\ UNCHANGED <<v1, v2, v3, v5>>
  BY DEF Uploads!Crash, Uploads!Uploading
<1>2. \A f : f \in v9' <=> f \in v9 \/ IsOut(f, v7)
  BY <1>1 DEF IsOut
<1>3. \A s \in Sweepers : v7'[s].gone = {}
  BY <1>1 DEF Uploads!Idle
<1>4. \A f : ~IsOut(f, v7')
  BY <1>3 DEF IsOut
<1>5. ASSUME NEW f \in Files
      PROVE  /\ v4'[f].pc # "new" \/ v4[f].pc = "new"
             /\ FileFits(v3[f], v4'[f], v5[f], <<f, "target">> \in v2, IsOut(f, v7'), f \in v9', v1)
  <2>1. FileFits(v3[f], v4[f], v5[f], <<f, "target">> \in v2, IsOut(f, v7), f \in v9, v1)
    BY DEF UploadsFit
  <2>2. PICK u : u = v4'[f]
    OBVIOUS
  <2>3. v4[f] = [pc |-> v4[f].pc, at |-> v4[f].at, expires |-> v4[f].expires]
    BY <2>1 DEF FileFits
  <2>4. CASE v4[f].pc \in {"staged", "placed", "listed", "failed"}
    <3>1. u = [v4[f] EXCEPT !.pc = "done"]
      BY <1>1, <2>2, <2>4
    <3>2. u = [pc |-> "done", at |-> v4[f].at, expires |-> v4[f].expires]
      BY <2>3, <3>1
    <3>3. FileFits(v3[f], u, v5[f], <<f, "target">> \in v2, IsOut(f, v7'), f \in v9', v1)
      BY <1>2, <1>4, <2>1, <3>2 DEF FileFits
    <3> QED
      BY <2>2, <3>2, <3>3
  <2>5. CASE v4[f].pc \notin {"staged", "placed", "listed", "failed"}
    <3>1. u = v4[f]
      BY <1>1, <2>2, <2>5
    <3>2. FileFits(v3[f], u, v5[f], <<f, "target">> \in v2, IsOut(f, v7'), f \in v9', v1)
      BY <1>2, <1>4, <2>1, <3>1 DEF FileFits
    <3> QED
      BY <2>2, <3>1, <3>2
  <2> QED
    BY <2>4, <2>5
<1>6. ASSUME NEW s \in Sweepers PROVE SweepFits(s, v7'[s], "nobody", v1, v3, v4', v5)
  <2>1. PICK m : m = v7'[s]
    OBVIOUS
  <2>2. m = [pc |-> "idle", at |-> 0, todo |-> {}, gone |-> {}, orphan |-> {}]
    BY <1>1, <2>1 DEF Uploads!Idle
  <2>3. v1 \in Nat
    BY DEF UploadsFit
  <2>4. SweepFits(s, m, "nobody", v1, v3, v4', v5)
    BY <2>2, <2>3 DEF SweepFits, UploadsAreGiven
  <2> QED
    BY <2>1, <2>4
<1>7. StoreFits(v2, v4')
  BY <1>5 DEF StoreFits, UploadsFit
<1>8. /\ v1' = v1 /\ v2' = v2 /\ v3' = v3 /\ v5' = v5 /\ v8' = "nobody"
      /\ v7' = [t \in Sweepers |-> v7'[t]] /\ v4' = [f \in Files |-> v4'[f]]
  BY <1>1
<1>9. /\ \A g \in Files :
           FileFits(v3'[g], v4'[g], v5'[g], <<g, "target">> \in v2', IsOut(g, v7'), g \in v9', v1')
      /\ \A t \in Sweepers : SweepFits(t, v7'[t], v8', v1', v3', v4', v5')
      /\ StoreFits(v2', v4')
  BY <1>5, <1>6, <1>7, <1>8
<1> QED
  BY <1>8, <1>9 DEF UploadsFit

LEMMA TickFits == ASSUME UploadsAreGiven, UploadsFit, Uploads!Tick PROVE UploadsFit'
<1>1. /\ \A f \in Files : v4[f].pc \in {"staged", "placed", "listed", "failed"} => v1 < v4[f].at + Ttl
      /\ v1' = v1 + 1 /\ UNCHANGED <<v2, v3, v4, v5, v7, v8, v9>>
  BY DEF Uploads!Tick, Uploads!Uploading, Uploads!Grace
<1>2. v1 \in Nat /\ v1' \in Nat
  BY <1>1 DEF UploadsFit
<1>3. ASSUME NEW f \in Files
      PROVE  FileFits(v3[f], v4[f], v5[f], <<f, "target">> \in v2, IsOut(f, v7), f \in v9, v1')
  <2>1. FileFits(v3[f], v4[f], v5[f], <<f, "target">> \in v2, IsOut(f, v7), f \in v9, v1)
    BY DEF UploadsFit
  <2>2. v4[f].at \in Nat
    BY <2>1 DEF FileFits
  <2>3. v4[f].pc \in {"staged", "placed", "listed", "failed"} => v1' <= v4[f].at + Ttl
    BY <1>1, <1>2, <2>2 DEF UploadsAreGiven
  <2> QED
    BY <2>1, <2>3 DEF FileFits
<1>4. ASSUME NEW s \in Sweepers PROVE SweepFits(s, v7[s], v8, v1', v3, v4, v5)
  <2>1. SweepFits(s, v7[s], v8, v1, v3, v4, v5)
    BY SweepOf
  <2>2. v7[s].at \in Nat /\ v7[s].at <= v1
    BY <2>1 DEF SweepFits
  <2>3. v7[s].at <= v1'
    BY <1>1, <1>2, <2>2
  <2> QED
    BY <2>1, <2>3 DEF SweepFits
<1>5. v2' = v2 /\ v3' = v3 /\ v4' = v4 /\ v5' = v5 /\ v7' = v7 /\ v8' = v8 /\ v9' = v9
  BY <1>1
<1>6. /\ \A g \in Files :
           FileFits(v3'[g], v4'[g], v5'[g], <<g, "target">> \in v2', IsOut(g, v7'), g \in v9', v1')
      /\ \A t \in Sweepers : SweepFits(t, v7'[t], v8', v1', v3', v4', v5')
  BY <1>3, <1>4, <1>5
<1> QED
  BY <1>2, <1>5, <1>6 DEF UploadsFit

LEMMA UploadsStart == ASSUME UploadsAreGiven, Uploads!Init PROVE UploadsFit
<1>1. /\ v1 = 0 /\ v2 = {} /\ v3 = [f \in Files |-> Uploads!NoRow] /\ v4 = [f \in Files |-> Uploads!NoUp]
      /\ v5 = [f \in Files |-> Uploads!NoJob] /\ v7 = [s \in Sweepers |-> Uploads!Idle]
      /\ v8 = "nobody"
  BY DEF Uploads!Init
<1>2. PICK r : r = Uploads!NoRow
  OBVIOUS
<1>3. PICK u : u = Uploads!NoUp
  OBVIOUS
<1>4. PICK j : j = Uploads!NoJob
  OBVIOUS
<1>5. PICK m : m = Uploads!Idle
  OBVIOUS
<1>6. r = [listed |-> r.listed, deleted |-> r.deleted, expires |-> r.expires] /\ ~r.listed
  BY <1>2 DEF Uploads!NoRow
<1>7. u = [pc |-> "new", at |-> 0, expires |-> u.expires]
  BY <1>3 DEF Uploads!NoUp
<1>8. j = [status |-> "none", updated |-> 0]
  BY <1>4 DEF Uploads!NoJob
<1>9. m = [pc |-> "idle", at |-> 0, todo |-> {}, gone |-> {}, orphan |-> {}]
  BY <1>5 DEF Uploads!Idle
<1>10. \A f : ~IsOut(f, v7)
  <2>1. \A s \in Sweepers : v7[s] = m
    BY <1>1, <1>5
  <2> QED
    BY <1>9, <2>1 DEF IsOut
<1>11. ASSUME NEW f \in Files
       PROVE  FileFits(r, u, j, <<f, "target">> \in v2, IsOut(f, v7), f \in v9, v1)
  BY <1>6, <1>7, <1>8, <1>10 DEF FileFits
<1>12. ASSUME NEW s \in Sweepers PROVE SweepFits(s, m, v8, v1, v3, v4, v5)
  BY <1>1, <1>9 DEF SweepFits, UploadsAreGiven
<1>13. /\ \A f \in Files : v3[f] = r /\ v4[f] = u /\ v5[f] = j
       /\ \A s \in Sweepers : v7[s] = m
  BY <1>1, <1>2, <1>3, <1>4, <1>5
<1>14. /\ \A f \in Files :
            FileFits(v3[f], v4[f], v5[f], <<f, "target">> \in v2, IsOut(f, v7), f \in v9, v1)
       /\ \A s \in Sweepers : SweepFits(s, v7[s], v8, v1, v3, v4, v5)
  BY <1>11, <1>12, <1>13
<1>15. StoreFits(v2, v4)
  BY <1>1 DEF StoreFits
<1> QED
  BY <1>1, <1>14, <1>15 DEF UploadsFit

LEMMA UploadsGive == ASSUME UploadsFit PROVE Uploads!ListedIsStored
<1> SUFFICES ASSUME NEW f \in Files \ v9
             PROVE  \/ <<f, "target">> \in v2
                    \/ ~Uploads!Usable(f) /\ ~Uploads!Active(f)
                    \/ \E s \in Sweepers : f \in v7[s].gone
  BY DEF Uploads!ListedIsStored, Uploads!Stored, Uploads!Target
<1>1. FileFits(v3[f], v4[f], v5[f], <<f, "target">> \in v2, IsOut(f, v7), f \in v9, v1)
  BY DEF UploadsFit
<1> QED
  BY <1>1 DEF FileFits, IsOut, Uploads!Usable, Uploads!Active

LEMMA UploadSteps ==
  ASSUME UploadsAreGiven, UploadsFit, Uploads!Next
  PROVE  UploadsFit'
<1>1. ASSUME NEW f \in Files,
             \/ Uploads!Claim(f) \/ Uploads!Progress(f) \/ Uploads!Pause(f) \/ Uploads!Resume(f)
             \/ Uploads!Finish(f)
      PROVE  UploadsFit'
  BY <1>1, SetJobFits DEF Uploads!Claim, Uploads!Progress, Uploads!Pause, Uploads!Resume,
     Uploads!Finish
<1>2. ASSUME NEW f \in Files,
             \/ Uploads!Stage(f) \/ Uploads!Refuse(f) \/ Uploads!Place(f) \/ Uploads!AddFile(f)
             \/ Uploads!Audit(f) \/ Uploads!Undo(f) \/ Uploads!Delete(f) \/ Uploads!AskImport(f)
             \/ Uploads!CreateJob(f)
      PROVE  UploadsFit'
  BY <1>2, StageFits, RefuseFits, PlaceFits, AddFileFits, AuditFits, UndoFits, DeleteFits,
     AskImportFits, CreateJobFits
<1>3. ASSUME NEW s \in Sweepers,
             \/ Uploads!Sweep(s) \/ Uploads!Lock(s) \/ Uploads!Commit(s) \/ Uploads!FindOrphan(s)
             \/ Uploads!RemoveOrphan(s) \/ Uploads!Swept(s) \/ \E f \in Files : Uploads!Unlink(s, f)
      PROVE  UploadsFit'
  BY <1>3, SweepStarts, LockFits, CommitFits, FindOrphanFits, RemoveOrphanFits, SweptFits,
     UnlinkFits
<1> QED
  BY <1>1, <1>2, <1>3, CrashFits, TickFits DEF Uploads!Next

---------------------------------------------------------------------------
(* The file of a dataset *)

CommandsAreGiven == IsFiniteSet(DatasetCommands) /\ 0 \notin DatasetCommands

(* Problems with names of their own, none of which is said to be merged    *)
(* into another one.                                                       *)
ProblemsFit(S) ==
  /\ \A p \in S : p = [by |-> p.by, key |-> p.key, id |-> p.id, ok |-> p.ok, had |-> p.had]
  /\ \A p, q \in S : Dataset!Name(p) = Dataset!Name(q) => p = q
  /\ \A p, q \in S : Dataset!Name(q) \notin p.had
NotBy(c, S) == \A p \in S : p.by # c
IsBare(S) == \A p \in S : p.had = {}

(* An import keeps what it does not overwrite, a deduplication each        *)
(* problem in exactly one.                                                 *)
ImportKeeps(m) ==
  /\ \A o \in m.seen : o \in m.final \/ \E n \in m.over : n.key = o.key
  /\ m.successful \subseteq m.final /\ m.final \subseteq m.seen \cup m.new
  /\ Dataset!UniqueKeys(m.seen) /\ Dataset!UniqueKeys(m.new) => Dataset!UniqueKeys(m.final)
Tells(S, o) == {p \in S : Dataset!Name(p) = Dataset!Name(o) \/ Dataset!Name(o) \in p.had}
EachOnce(old, S) == \A o \in old : \E p \in S : Tells(S, o) = {p}
GroupsFit(G, S) == G \subseteq SUBSET S /\ \A g, h \in G : g = h \/ g \cap h = {}

Loading == {"idle", "unchanged", "asked", "write"}
Saving  == {"writing", "written", "replaced", "rewriting", "merged"}
CommandFits(m) ==
  /\ m = [pc |-> m.pc, kind |-> m.kind, strategy |-> m.strategy, seen |-> m.seen, new |-> m.new,
          final |-> m.final, successful |-> m.successful, over |-> m.over, groups |-> m.groups,
          inode |-> m.inode, alone |-> m.alone]
  /\ m.inode \in Dataset!Inodes \cup {0} /\ m.alone \in BOOLEAN
  /\ m.pc \in Loading => m.inode = 0
  /\ m.pc \in Saving => m.inode # 0
  /\ m.pc \in Loading \cup Saving \cup {"failed", "killed"}
  /\ m.pc = "idle" => m.kind = "import" /\ m = [Dataset!Idle EXCEPT !.alone = m.alone]
  /\ m.pc \in {"write", "writing", "written", "replaced"} => m.kind # "merge"
  /\ m.pc \in {"rewriting", "merged"} => m.kind = "merge"
  /\ ProblemsFit(m.seen) /\ ProblemsFit(m.final)
  /\ m.kind # "merge" => ImportKeeps(m)
  /\ m.kind = "merge" => GroupsFit(m.groups, m.seen)
  /\ m.pc \in {"rewriting", "merged"} => EachOnce(m.seen, m.final)

(* What a command that is alone finds on disk.                             *)
AsRead(m, ct, f) == IF f = 0 THEN m.seen = {} ELSE Dataset!Loaded(ct[f].of) = m.seen
AloneFinds(m, ct, f, t) ==
  m.alone =>
    /\ m.pc \in {"asked", "write", "writing", "written", "failed"} /\ m.kind # "merge"
         => AsRead(m, ct, f)
    /\ m.pc = "writing" => t = m.inode
    /\ m.pc = "written" => t = m.inode /\ ct[t] = Dataset!Whole(m.final)
    /\ m.pc = "rewriting" => f = m.inode
    /\ m.pc \in {"replaced", "merged"} => f # 0 /\ ct[f] = Dataset!Whole(m.final)

IsUsed(ct, i) == ct[i].state # "unused"
FilesFitIn(ct, f, t) ==
  /\ ct = [i \in Dataset!Inodes |-> [state |-> ct[i].state, of |-> ct[i].of]]
  /\ \A i \in Dataset!Inodes : ProblemsFit(ct[i].of) /\ (~IsUsed(ct, i) => ct[i] = Dataset!Unused)
  /\ f \in Dataset!Inodes \cup {0} /\ t \in Dataset!Inodes \cup {0}
  /\ f # 0 => IsUsed(ct, f)
  /\ t # 0 => IsUsed(ct, t) /\ t # f
UsesFit(ct, cm) ==
  \A i \in Dataset!Inodes : IsUsed(ct, i) => i = 1 \/ \E d \in DatasetCommands : cm[d].inode = i
Explains(m) == m.inode # 0 /\ (m.kind = "merge" \/ ~m.alone)
TornFits(ct, f, cm) ==
  f # 0 /\ ct[f].state = "torn" => \E c \in DatasetCommands : Explains(cm[c])
NamesAreNew(ct, cm) ==
  \A c \in DatasetCommands : cm[c].pc = "idle" =>
    /\ \A i \in Dataset!Inodes : NotBy(c, ct[i].of)
    /\ \A d \in DatasetCommands : NotBy(c, cm[d].seen) /\ NotBy(c, cm[d].final)

DataFits ==
  /\ FilesFitIn(v1, v2, v3) /\ UsesFit(v1, v4) /\ TornFits(v1, v2, v4) /\ NamesAreNew(v1, v4)
  /\ v4 = [c \in DatasetCommands |-> v4[c]]
  /\ \A c \in DatasetCommands : CommandFits(v4[c]) /\ AloneFinds(v4[c], v1, v2, v3)
DataFine == part = "dataset" => DataFits

LEMMA NamesTell ==
  ASSUME NEW p, NEW q
  PROVE  Dataset!Name(p) = Dataset!Name(q) <=> p.by = q.by /\ p.key = q.key /\ p.id = q.id
  BY DEF Dataset!Name

(* What a load leaves of the problems.                                     *)
LEMMA LoadedFits ==
  ASSUME NEW S, ProblemsFit(S)
  PROVE  /\ ProblemsFit(Dataset!Loaded(S)) /\ IsBare(Dataset!Loaded(S))
         /\ \A c : NotBy(c, S) => NotBy(c, Dataset!Loaded(S))
<1> DEFINE L == Dataset!Loaded(S)
<1>1. \A p \in S : [p EXCEPT !.had = {}] =
                     [by |-> p.by, key |-> p.key, id |-> p.id, ok |-> p.ok, had |-> {}]
  BY DEF ProblemsFit
<1>2. \A q \in L : \E p \in S :
        q = [by |-> p.by, key |-> p.key, id |-> p.id, ok |-> p.ok, had |-> {}]
  BY <1>1 DEF Dataset!Loaded
<1> HIDE DEF L
<1>3. \A q \in L : q = [by |-> q.by, key |-> q.key, id |-> q.id, ok |-> q.ok, had |-> q.had]
                   /\ q.had = {}
  BY <1>2
<1>4. ASSUME NEW q \in L, NEW r \in L, Dataset!Name(q) = Dataset!Name(r) PROVE q = r
  <2>1. PICK a \in S : q = [by |-> a.by, key |-> a.key, id |-> a.id, ok |-> a.ok, had |-> {}]
    BY <1>2
  <2>2. PICK b \in S : r = [by |-> b.by, key |-> b.key, id |-> b.id, ok |-> b.ok, had |-> {}]
    BY <1>2
  <2>3. Dataset!Name(a) = Dataset!Name(b)
    BY <1>4, <2>1, <2>2, NamesTell
  <2> QED
    BY <2>1, <2>2, <2>3 DEF ProblemsFit
<1>5. ASSUME NEW c, NotBy(c, S) PROVE NotBy(c, L)
  BY <1>2, <1>5 DEF NotBy
<1> QED
  BY <1>3, <1>4, <1>5 DEF ProblemsFit, IsBare, L

LEMMA PartFits ==
  ASSUME NEW S, ProblemsFit(S), NEW T \in SUBSET S
  PROVE  ProblemsFit(T) /\ (IsBare(S) => IsBare(T)) /\ \A c : NotBy(c, S) => NotBy(c, T)
  BY DEF ProblemsFit, IsBare, NotBy

LEMMA BroughtFits ==
  ASSUME NEW c, NEW batch
  PROVE  /\ ProblemsFit(Dataset!Brought(c, batch)) /\ IsBare(Dataset!Brought(c, batch))
         /\ \A p \in Dataset!Brought(c, batch) : p.by = c
<1> DEFINE B == Dataset!Brought(c, batch)
<1>1. \A q \in B : \E b \in batch :
        q = [by |-> c, key |-> b[1], id |-> b[2], ok |-> TRUE, had |-> {}]
  BY DEF Dataset!Brought, Dataset!Problem
<1> HIDE DEF B
<1>2. \A q \in B : q = [by |-> c, key |-> q.key, id |-> q.id, ok |-> TRUE, had |-> {}]
  BY <1>1
<1>3. \A q \in B : q = [by |-> q.by, key |-> q.key, id |-> q.id, ok |-> q.ok, had |-> q.had]
                   /\ q.by = c /\ q.had = {}
  BY <1>2
<1>4. ASSUME NEW q \in B, NEW r \in B, Dataset!Name(q) = Dataset!Name(r) PROVE q = r
  BY <1>2, <1>4, NamesTell
<1> QED
  BY <1>3, <1>4 DEF ProblemsFit, IsBare, B

LEMMA UnionFits ==
  ASSUME NEW S, NEW T, ProblemsFit(S), ProblemsFit(T), IsBare(S), IsBare(T),
         \A p \in S, q \in T : p.by # q.by
  PROVE  ProblemsFit(S \cup T)
<1>1. ASSUME NEW p \in S \cup T, NEW q \in S \cup T, Dataset!Name(p) = Dataset!Name(q) PROVE p = q
  BY <1>1, NamesTell DEF ProblemsFit
<1>2. \A p \in S \cup T : p.had = {}
  BY DEF IsBare
<1> QED
  BY <1>1, <1>2 DEF ProblemsFit

(* What an importer makes of what is new and what is old.                  *)
DetectKeeps(strategy, new, old, d) ==
  /\ d.kept \subseteq old /\ d.added \subseteq new
  /\ \A o \in old : \/ o \in d.kept
                    \/ strategy = "overwrite" /\ \E n \in Dataset!Duplicates(new, old) : n.key = o.key
  /\ \A n \in new : n.id \notin d.skipped => n \in d.added
  /\ Dataset!UniqueKeys(old) /\ Dataset!UniqueKeys(new)
       => Dataset!UniqueKeys(d.kept \cup d.added)

LEMMA DuplicatesAre ==
  ASSUME NEW new, NEW old
  PROVE  \A n : n \in Dataset!Duplicates(new, old)
                  <=> n \in new /\ n.key # 0 /\ \E o \in old : o.key = n.key
  BY DEF Dataset!Duplicates, Dataset!Keyed, Dataset!SameKey, Dataset!NoKey

LEMMA KeysAre ==
  ASSUME NEW S
  PROVE  Dataset!UniqueKeys(S) <=> \A p, q \in S : p.key # 0 /\ q.key # 0 /\ p.key = q.key => p = q
  BY DEF Dataset!UniqueKeys, Dataset!Keyed, Dataset!NoKey

LEMMA DetectIs ==
  ASSUME NEW strategy \in {"skip", "overwrite"}, NEW new, NEW old
  PROVE  DetectKeeps(strategy, new, old, Dataset!Detect(strategy, new, old))
<1> DEFINE D == Dataset!Duplicates(new, old)
<1>1. PICK d : d = Dataset!Detect(strategy, new, old)
  OBVIOUS
<1> HIDE DEF D
<1>2. CASE strategy = "skip"
  <2>1. d.kept = old /\ d.skipped = {n.id : n \in D}
        /\ d.added = {n \in new : n.key = 0 \/ (n \notin D /\ n.id \notin {m.id : m \in D})}
    BY <1>1, <1>2 DEF Dataset!Detect, D, Dataset!NoKey
  <2>2. \A n \in D : n.id \in d.skipped
    BY <2>1
  <2>3. \A n \in new : n.id \notin d.skipped => n \in d.added
    BY <2>1, <2>2
  <2>4. \A p \in d.added, o \in old : p.key # 0 => o.key # p.key
    BY <2>1, DuplicatesAre DEF D
  <2>5. d.added \subseteq new
    BY <2>1
  <2>6. Dataset!UniqueKeys(old) /\ Dataset!UniqueKeys(new)
          => Dataset!UniqueKeys(d.kept \cup d.added)
    BY <2>1, <2>4, <2>5, KeysAre
  <2> QED
    BY <1>1, <2>1, <2>3, <2>5, <2>6 DEF DetectKeeps
<1>3. CASE strategy = "overwrite"
  <2>1. d.kept = {o \in old : \A n \in D : o.key # n.key} /\ d.skipped = {}
        /\ d.added = {n \in new : n.key = 0 \/ (TRUE /\ n.id \notin {})}
    BY <1>1, <1>3 DEF Dataset!Detect, D, Dataset!NoKey
  <2>2. d.added = new
    BY <2>1
  <2>3. \A o \in old : o \in d.kept \/ \E n \in D : n.key = o.key
    BY <2>1
  <2>4. \A p \in new, o \in d.kept : p.key # 0 => o.key # p.key
    BY <2>1, DuplicatesAre DEF D
  <2>5. d.kept \subseteq old
    BY <2>1
  <2>6. Dataset!UniqueKeys(old) /\ Dataset!UniqueKeys(new)
          => Dataset!UniqueKeys(d.kept \cup d.added)
    BY <2>2, <2>4, <2>5, KeysAre
  <2> QED
    BY <1>1, <1>3, <2>2, <2>3, <2>5, <2>6 DEF DetectKeeps, D
<1> QED
  BY <1>2, <1>3

LEMMA DetectMockIs ==
  ASSUME NEW strategy \in {"skip", "overwrite"}, NEW new, NEW old,
         NEW d \in Dataset!DetectMock(strategy, new, old)
  PROVE  DetectKeeps(strategy, new, old, d)
<1> DEFINE D == Dataset!Duplicates(new, old)
<1>1. PICK gone \in SUBSET old :
        /\ \A o \in old :
             /\ o \in gone => strategy = "overwrite" /\ \E n \in D : n.key = o.key
             /\ strategy = "overwrite" /\ (\E n \in D : n.key = o.key)
                  => Cardinality(Dataset!SameKey(gone, o.key)) = 1
        /\ d = [kept |-> old \ gone,
                added |-> IF strategy = "skip" THEN new \ D ELSE new,
                skipped |-> IF strategy = "skip" THEN {n.id : n \in D} ELSE {}]
  <2>1. PICK gone \in SUBSET old :
          /\ \A o \in old :
               /\ o \in gone => strategy = "overwrite" /\ \E n \in D : n.key = o.key
               /\ Dataset!Cardinality(Dataset!SameKey(gone, o.key)) =
                    IF strategy = "overwrite" /\ \E n \in D : n.key = o.key THEN 1 ELSE 0
          /\ d = [kept |-> old \ gone,
                  added |-> IF strategy = "skip" THEN new \ D ELSE new,
                  skipped |-> IF strategy = "skip" THEN {n.id : n \in D} ELSE {}]
    BY DEF Dataset!DetectMock, D
  <2>2. \A T : Dataset!Cardinality(T) = Cardinality(T)
    BY DEF Dataset!Cardinality, Cardinality
  <2> HIDE DEF D
  <2>3. \A o \in old : strategy = "overwrite" /\ (\E n \in D : n.key = o.key)
          => Cardinality(Dataset!SameKey(gone, o.key)) = 1
    BY <2>1, <2>2
  <2> QED
    BY <2>1, <2>3
<1> HIDE DEF D
<1>2. CASE strategy = "skip"
  <2>1. d.kept = old /\ d.added = new \ D /\ d.skipped = {n.id : n \in D}
    BY <1>1, <1>2
  <2>2. \A n \in D : n.id \in d.skipped
    BY <2>1
  <2>3. \A p \in d.added, o \in old : p.key # 0 => o.key # p.key
    BY <2>1, DuplicatesAre DEF D
  <2>4. d.added \subseteq new
    BY <2>1
  <2>5. Dataset!UniqueKeys(old) /\ Dataset!UniqueKeys(new)
          => Dataset!UniqueKeys(d.kept \cup d.added)
    BY <2>1, <2>3, <2>4, KeysAre
  <2> QED
    BY <2>1, <2>2, <2>4, <2>5 DEF DetectKeeps
<1>3. CASE strategy = "overwrite"
  <2>1. d.kept = old \ gone /\ d.added = new /\ d.skipped = {}
    BY <1>1, <1>3
  <2>2. \A o \in old : o \in d.kept \/ \E n \in D : n.key = o.key
    BY <1>1, <2>1
  <2>3. \A o \in old : (\E n \in D : n.key = o.key) => \E g \in gone : g.key = o.key
    <3> SUFFICES ASSUME NEW o \in old, \E n \in D : n.key = o.key
                 PROVE  \E g \in gone : g.key = o.key
      OBVIOUS
    <3>1. Cardinality(Dataset!SameKey(gone, o.key)) = 1
      BY <1>1, <1>3
    <3>2. Dataset!SameKey(gone, o.key) # {}
      BY <3>1, FS_EmptySet
    <3> QED
      BY <3>2 DEF Dataset!SameKey
  <2>4. ASSUME Dataset!UniqueKeys(old) PROVE \A p \in new, o \in d.kept : p.key # 0 => o.key # p.key
    <3> SUFFICES ASSUME NEW p \in new, NEW o \in d.kept, p.key # 0, o.key = p.key PROVE FALSE
      OBVIOUS
    <3>1. o \in old /\ o \notin gone
      BY <2>1
    <3>2. p \in D
      BY <3>1, DuplicatesAre DEF D
    <3>3. PICK g \in gone : g.key = o.key
      BY <2>3, <3>1, <3>2
    <3>4. g = o
      BY <2>4, <3>1, <3>3, KeysAre
    <3> QED
      BY <3>1, <3>4
  <2>5. d.kept \subseteq old
    BY <2>1
  <2>6. Dataset!UniqueKeys(old) /\ Dataset!UniqueKeys(new)
          => Dataset!UniqueKeys(d.kept \cup d.added)
    BY <2>1, <2>4, <2>5, KeysAre
  <2> QED
    BY <1>3, <2>1, <2>2, <2>5, <2>6 DEF DetectKeeps, D
<1> QED
  BY <1>2, <1>3

(* What a deduplication makes of the problems and the groups it accepts.   *)
MergedTo(S, A, primary) ==
  (S \ UNION A) \cup {Dataset!Merged(g, primary[g]) : g \in A}

LEMMA MergeIs ==
  ASSUME NEW S, ProblemsFit(S), NEW g \in SUBSET S, NEW p \in g
  PROVE  /\ Dataset!Merged(g, p) = [by |-> p.by, key |-> p.key, id |-> p.id, ok |-> p.ok,
                                    had |-> Dataset!Merged(g, p).had]
         /\ Dataset!Name(Dataset!Merged(g, p)) = Dataset!Name(p)
         /\ \A x : x \in Dataset!Merged(g, p).had <=> \E q \in g \ {p} : x = Dataset!Name(q)
<1>1. p = [by |-> p.by, key |-> p.key, id |-> p.id, ok |-> p.ok, had |-> p.had]
  BY DEF ProblemsFit
<1>2. Dataset!Merged(g, p) = [by |-> p.by, key |-> p.key, id |-> p.id, ok |-> p.ok,
                              had |-> {Dataset!Name(q) : q \in g \ {p}}]
  BY <1>1 DEF Dataset!Merged
<1>3. PICK h : h = {Dataset!Name(q) : q \in g \ {p}}
  OBVIOUS
<1>4. Dataset!Merged(g, p).had = h
  BY <1>2, <1>3
<1>5. \A x : x \in h <=> \E q \in g \ {p} : x = Dataset!Name(q)
  BY <1>3
<1> QED
  BY <1>2, <1>4, <1>5, NamesTell

LEMMA MergeFits ==
  ASSUME NEW S, ProblemsFit(S), NEW A, GroupsFit(A, S),
         NEW primary, \A g \in A : primary[g] \in g
  PROVE  /\ ProblemsFit(MergedTo(S, A, primary)) /\ EachOnce(S, MergedTo(S, A, primary))
         /\ \A c : NotBy(c, S) => NotBy(c, MergedTo(S, A, primary))
<1> DEFINE M(g) == Dataset!Merged(g, primary[g])
           N(p) == Dataset!Name(p)
           R == S \ UNION A
           F == MergedTo(S, A, primary)
<1>1. \A g \in A : g \subseteq S /\ primary[g] \in g /\ primary[g] \in S
  BY DEF GroupsFit
<1>2. ASSUME NEW g \in A
      PROVE  /\ M(g) = [by |-> primary[g].by, key |-> primary[g].key, id |-> primary[g].id,
                        ok |-> primary[g].ok, had |-> M(g).had]
             /\ N(M(g)) = N(primary[g])
             /\ \A x : x \in M(g).had <=> \E q \in g \ {primary[g]} : x = N(q)
  <2>1. PICK p : p = primary[g]
    OBVIOUS
  <2>2. g \in SUBSET S /\ p \in g
    BY <1>1, <2>1
  <2>3. /\ Dataset!Merged(g, p) = [by |-> p.by, key |-> p.key, id |-> p.id, ok |-> p.ok,
                                   had |-> Dataset!Merged(g, p).had]
        /\ N(Dataset!Merged(g, p)) = N(p)
        /\ \A x : x \in Dataset!Merged(g, p).had <=> \E q \in g \ {p} : x = N(q)
    BY <2>2, MergeIs
  <2> QED
    BY <2>1, <2>3
<1>3. \A q \in F : q \in R \/ \E g \in A : q = M(g)
  BY DEF MergedTo
<1>4. R \subseteq F /\ \A g \in A : M(g) \in F
  BY DEF MergedTo
<1>5. \A p, q \in S : N(p) = N(q) => p = q
  BY DEF ProblemsFit
<1>6. \A p, q \in S : N(q) \notin p.had
  BY DEF ProblemsFit
<1>7. \A g, h \in A : g # h => g \cap h = {}
  BY DEF GroupsFit
<1>8. \A g \in A, o \in S : N(o) \in M(g).had => o \in g /\ o # primary[g]
  <2> SUFFICES ASSUME NEW g \in A, NEW o \in S, N(o) \in M(g).had PROVE o \in g /\ o # primary[g]
    OBVIOUS
  <2>2. PICK q \in g \ {primary[g]} : N(o) = N(q)
    BY <1>2
  <2>3. q \in S
    BY <1>1, <2>2
  <2> QED
    BY <1>5, <2>2, <2>3
<1>9. \A g \in A : \A o \in g : o # primary[g] => N(o) \in M(g).had
  BY <1>2
<1> HIDE DEF M, N, F
<1>10. ProblemsFit(F)
  <2>1. ASSUME NEW p \in F
        PROVE  p = [by |-> p.by, key |-> p.key, id |-> p.id, ok |-> p.ok, had |-> p.had]
    <3>1. CASE p \in R
      BY <3>1 DEF ProblemsFit
    <3>2. ASSUME NEW g \in A, p = M(g)
          PROVE  p = [by |-> p.by, key |-> p.key, id |-> p.id, ok |-> p.ok, had |-> p.had]
      BY <1>2, <3>2
    <3> QED
      BY <1>3, <2>1, <3>1, <3>2
  <2>2. ASSUME NEW p \in F
        PROVE  \E o \in S : N(p) = N(o) /\ (p \in R => o = p)
                            /\ (p \notin R => \E g \in A : p = M(g) /\ o = primary[g])
    BY <1>1, <1>2, <1>3
  <2>3. ASSUME NEW p \in F, NEW q \in F, N(p) = N(q) PROVE p = q
    <3>1. PICK a \in S : N(p) = N(a) /\ (p \in R => a = p)
                         /\ (p \notin R => \E g \in A : p = M(g) /\ a = primary[g])
      BY <2>2
    <3>2. PICK b \in S : N(q) = N(b) /\ (q \in R => b = q)
                         /\ (q \notin R => \E g \in A : q = M(g) /\ b = primary[g])
      BY <2>2
    <3>3. a = b
      BY <1>5, <2>3, <3>1, <3>2
    <3>4. \A g \in A : primary[g] \notin R
      BY <1>1
    <3>5. CASE p \in R
      BY <3>1, <3>2, <3>3, <3>4, <3>5
    <3>6. CASE p \notin R
      <4>1. q \notin R
        BY <3>1, <3>2, <3>3, <3>4, <3>6
      <4>2. PICK g \in A : p = M(g) /\ a = primary[g]
        BY <3>1, <3>6
      <4>3. PICK h \in A : q = M(h) /\ a = primary[h]
        BY <3>2, <3>3, <4>1
      <4>4. g = h
        BY <1>1, <1>7, <4>2, <4>3
      <4> QED
        BY <4>2, <4>3, <4>4
    <3> QED
      BY <3>5, <3>6
  <2>4. ASSUME NEW p \in F, NEW q \in F, N(q) \in p.had PROVE FALSE
    <3>1. PICK b \in S : N(q) = N(b) /\ (q \in R => b = q)
                         /\ (q \notin R => \E g \in A : q = M(g) /\ b = primary[g])
      BY <2>2
    <3>2. PICK g \in A : p = M(g)
      BY <1>3, <1>6, <2>4, <3>1
    <3>3. b \in g /\ b # primary[g]
      BY <1>8, <2>4, <3>1, <3>2
    <3>4. q \notin R
      BY <3>1, <3>3
    <3>5. PICK h \in A : b = primary[h]
      BY <3>1, <3>4
    <3> QED
      BY <1>1, <1>7, <3>3, <3>5
  <2> QED
    BY <2>1, <2>3, <2>4 DEF ProblemsFit, N
<1>11. ASSUME NEW o \in S PROVE \E p \in F : Tells(F, o) = {p}
  <2> DEFINE T(q) == N(q) = N(o) \/ N(o) \in q.had
  <2>1. Tells(F, o) = {q \in F : T(q)}
    BY DEF Tells, N
  <2>2. \A q \in R : T(q) => q = o
    BY <1>5, <1>6
  <2>3. \A g \in A : T(M(g)) => o \in g
    BY <1>1, <1>2, <1>5, <1>8
  <2>4. CASE o \notin UNION A
    <3>1. o \in F /\ T(o)
      BY <1>4, <2>4
    <3>2. \A q \in F : T(q) => q = o
      BY <1>3, <2>2, <2>3, <2>4
    <3> QED
      BY <2>1, <3>1, <3>2
  <2>5. ASSUME NEW g \in A, o \in g PROVE \E p \in F : Tells(F, o) = {p}
    <3>1. M(g) \in F /\ T(M(g))
      BY <1>2, <1>4, <1>9, <2>5
    <3>2. \A h \in A : T(M(h)) => h = g
      BY <1>7, <2>3, <2>5
    <3>3. \A q \in F : T(q) => q = M(g)
      BY <1>3, <2>2, <2>5, <3>2
    <3> QED
      BY <2>1, <3>1, <3>3
  <2> QED
    BY <2>4, <2>5
<1>12. EachOnce(S, F)
  BY <1>11 DEF EachOnce
<1>13. ASSUME NEW c, NotBy(c, S) PROVE NotBy(c, F)
  <2>1. \A g \in A : M(g).by = primary[g].by
    BY <1>2
  <2> QED
    BY <1>1, <1>3, <1>13, <2>1 DEF NotBy
<1> QED
  BY <1>10, <1>12, <1>13 DEF F

(* One command takes a step. A quiet one is not noticed by the others; a   *)
(* loud one touches the files, so that nobody else is alone.               *)
Quietly(c, m) == v4' = [v4 EXCEPT ![c] = m]
Loudly(c, m) == v4' = Dataset!Touch(c, m)

LEMMA CommandOf ==
  ASSUME DataFits, NEW c \in DatasetCommands
  PROVE  CommandFits(v4[c]) /\ AloneFinds(v4[c], v1, v2, v3)
  BY DEF DataFits

LEMMA QuietIs ==
  ASSUME DataFits, NEW c \in DatasetCommands, NEW m, Quietly(c, m)
  PROVE  /\ v4' = [d \in DatasetCommands |-> v4'[d]] /\ v4'[c] = m
         /\ \A d \in DatasetCommands \ {c} : v4'[d] = v4[d]
  BY DEF DataFits, Quietly

LEMMA LoudIs ==
  ASSUME NEW c \in DatasetCommands, NEW m, Loudly(c, m)
  PROVE  /\ v4' = [d \in DatasetCommands |-> v4'[d]] /\ v4'[c] = m
         /\ \A d \in DatasetCommands \ {c} : v4'[d] = [v4[d] EXCEPT !.alone = FALSE]
  BY DEF Loudly, Dataset!Touch

LEMMA DisturbedFits ==
  ASSUME NEW m, CommandFits(m)
  PROVE  LET n == [m EXCEPT !.alone = FALSE] IN
         /\ CommandFits(n) /\ n.pc = m.pc /\ n.inode = m.inode /\ n.kind = m.kind
         /\ n.seen = m.seen /\ n.final = m.final /\ ~n.alone
<1>1. PICK n : n = [m EXCEPT !.alone = FALSE]
  OBVIOUS
<1>2. n = [pc |-> m.pc, kind |-> m.kind, strategy |-> m.strategy, seen |-> m.seen, new |-> m.new,
           final |-> m.final, successful |-> m.successful, over |-> m.over, groups |-> m.groups,
           inode |-> m.inode, alone |-> FALSE]
  BY <1>1 DEF CommandFits
<1>3. /\ n.pc = m.pc /\ n.kind = m.kind /\ n.seen = m.seen /\ n.new = m.new /\ n.final = m.final
      /\ n.successful = m.successful /\ n.over = m.over /\ n.groups = m.groups
      /\ n.inode = m.inode /\ n.alone = FALSE
  BY <1>2
<1>4. n = [pc |-> n.pc, kind |-> n.kind, strategy |-> n.strategy, seen |-> n.seen, new |-> n.new,
           final |-> n.final, successful |-> n.successful, over |-> n.over, groups |-> n.groups,
           inode |-> n.inode, alone |-> n.alone]
  BY <1>2
<1>5. m.pc = "idle" => n = [Dataset!Idle EXCEPT !.alone = n.alone]
  <2> SUFFICES ASSUME m.pc = "idle" PROVE n = [Dataset!Idle EXCEPT !.alone = FALSE]
    BY <1>3
  <2>1. m = [Dataset!Idle EXCEPT !.alone = m.alone]
    BY DEF CommandFits
  <2> QED
    BY <1>1, <2>1 DEF Dataset!Idle
<1>6. ImportKeeps(m) => ImportKeeps(n)
  BY <1>3 DEF ImportKeeps
<1>7. CommandFits(n)
  BY <1>3, <1>4, <1>5, <1>6 DEF CommandFits
<1> QED
  BY <1>1, <1>3, <1>7

LEMMA QuietKeeps ==
  ASSUME DataFits, NEW c \in DatasetCommands, NEW m, Quietly(c, m), UNCHANGED <<v1, v2, v3>>,
         CommandFits(m), AloneFinds(m, v1, v2, v3), m.pc # "idle", m.inode = v4[c].inode,
         Explains(v4[c]) => Explains(m),
         \A d \in DatasetCommands \ {c} :
           v4[d].pc = "idle" => NotBy(d, m.seen) /\ NotBy(d, m.final)
  PROVE  DataFits'
<1>1. /\ v4' = [d \in DatasetCommands |-> v4'[d]] /\ v4'[c] = m
      /\ \A d \in DatasetCommands \ {c} : v4'[d] = v4[d]
  BY QuietIs
<1> HIDE DEF CommandFits, AloneFinds, Explains
<1>2. \A d \in DatasetCommands : CommandFits(v4'[d]) /\ AloneFinds(v4'[d], v1, v2, v3)
  BY <1>1, CommandOf
<1>3. UsesFit(v1, v4')
  <2>1. \A d \in DatasetCommands : v4'[d].inode = v4[d].inode
    BY <1>1
  <2> QED
    BY <2>1 DEF UsesFit, DataFits
<1>4. TornFits(v1, v2, v4')
  <2>1. \A d \in DatasetCommands : Explains(v4[d]) => Explains(v4'[d])
    BY <1>1
  <2> QED
    BY <2>1 DEF TornFits, DataFits
<1>5. NamesAreNew(v1, v4')
  BY <1>1 DEF NamesAreNew, DataFits
<1>6. FilesFitIn(v1, v2, v3)
  BY DEF DataFits
<1>7. v1' = v1 /\ v2' = v2 /\ v3' = v3
  OBVIOUS
<1> QED
  BY <1>1, <1>2, <1>3, <1>4, <1>5, <1>6, <1>7 DEF DataFits

LEMMA LoudKeeps ==
  ASSUME DataFits, NEW c \in DatasetCommands, NEW m, Loudly(c, m),
         CommandFits(m), AloneFinds(m, v1', v2', v3'), m.pc # "idle",
         m.inode = v4[c].inode \/ v4[c].inode = 0,
         FilesFitIn(v1', v2', v3'),
         \A i \in Dataset!Inodes : IsUsed(v1', i) => IsUsed(v1, i) \/ i = m.inode,
         v2' # 0 /\ v1'[v2'].state = "torn" =>
           Explains(m) \/ (v2 # 0 /\ v1[v2].state = "torn"),
         Explains(v4[c]) => Explains(m),
         \A d \in DatasetCommands \ {c} : v4[d].pc = "idle" =>
           /\ NotBy(d, m.seen) /\ NotBy(d, m.final)
           /\ \A i \in Dataset!Inodes : NotBy(d, v1'[i].of)
  PROVE  DataFits'
<1>1. /\ v4' = [d \in DatasetCommands |-> v4'[d]] /\ v4'[c] = m
      /\ \A d \in DatasetCommands \ {c} : v4'[d] = [v4[d] EXCEPT !.alone = FALSE]
  BY LoudIs
<1>2. \A d \in DatasetCommands : CommandFits(v4[d])
  BY CommandOf
<1>3. ASSUME NEW d \in DatasetCommands \ {c}
      PROVE  /\ CommandFits(v4'[d]) /\ v4'[d].pc = v4[d].pc /\ v4'[d].inode = v4[d].inode
             /\ v4'[d].kind = v4[d].kind /\ v4'[d].seen = v4[d].seen
             /\ v4'[d].final = v4[d].final /\ ~v4'[d].alone
  <2>1. PICK n : n = [v4[d] EXCEPT !.alone = FALSE]
    OBVIOUS
  <2>2. v4'[d] = n
    BY <1>1, <2>1
  <2>3. /\ CommandFits(n) /\ n.pc = v4[d].pc /\ n.inode = v4[d].inode /\ n.kind = v4[d].kind
        /\ n.seen = v4[d].seen /\ n.final = v4[d].final /\ ~n.alone
    BY <1>2, <2>1, DisturbedFits
  <2> QED
    BY <2>2, <2>3
<1>4. \A d \in DatasetCommands : CommandFits(v4'[d]) /\ AloneFinds(v4'[d], v1', v2', v3')
  BY <1>1, <1>3 DEF AloneFinds
<1>5. UsesFit(v1', v4')
  <2> SUFFICES ASSUME NEW i \in Dataset!Inodes, IsUsed(v1', i), i # 1
               PROVE  \E d \in DatasetCommands : v4'[d].inode = i
    BY DEF UsesFit
  <2>1. CASE i = m.inode
    BY <1>1, <2>1
  <2>2. CASE IsUsed(v1, i) /\ i # m.inode
    <3>1. PICK d \in DatasetCommands : v4[d].inode = i
      BY <2>2 DEF UsesFit, DataFits
    <3>2. i # 0
      BY DEF Dataset!Inodes
    <3>3. d # c
      BY <2>2, <3>1, <3>2
    <3> QED
      BY <1>3, <3>1, <3>3
  <2> QED
    BY <2>1, <2>2
<1>6. TornFits(v1', v2', v4')
  <2> SUFFICES ASSUME v2' # 0, v1'[v2'].state = "torn"
               PROVE  \E d \in DatasetCommands : Explains(v4'[d])
    BY DEF TornFits
  <2>1. CASE Explains(m)
    BY <1>1, <2>1
  <2>2. CASE v2 # 0 /\ v1[v2].state = "torn"
    <3>1. PICK d \in DatasetCommands : Explains(v4[d])
      BY <2>2 DEF TornFits, DataFits
    <3>2. CASE d = c
      BY <1>1, <3>1, <3>2
    <3>3. CASE d # c
      BY <1>3, <3>1, <3>3 DEF Explains
    <3> QED
      BY <3>2, <3>3
  <2> QED
    BY <2>1, <2>2
<1>7. NamesAreNew(v1', v4')
  <2> SUFFICES ASSUME NEW d \in DatasetCommands, v4'[d].pc = "idle"
               PROVE  /\ \A i \in Dataset!Inodes : NotBy(d, v1'[i].of)
                      /\ \A e \in DatasetCommands : NotBy(d, v4'[e].seen) /\ NotBy(d, v4'[e].final)
    BY DEF NamesAreNew
  <2>1. d # c /\ v4[d].pc = "idle"
    BY <1>1, <1>3
  <2>2. \A e \in DatasetCommands : NotBy(d, v4[e].seen) /\ NotBy(d, v4[e].final)
    BY <2>1 DEF NamesAreNew, DataFits
  <2>3. \A e \in DatasetCommands : NotBy(d, v4'[e].seen) /\ NotBy(d, v4'[e].final)
    BY <1>1, <1>3, <2>1, <2>2
  <2> QED
    BY <2>1, <2>3
<1> QED
  BY <1>1, <1>4, <1>5, <1>6, <1>7 DEF DataFits

(* What is put into a file.                                                *)
Puts(ct, i, w, ct2) == ct2 = [ct EXCEPT ![i] = w]

LEMMA PutFits ==
  ASSUME NEW ct, NEW f, NEW t, FilesFitIn(ct, f, t), NEW i \in Dataset!Inodes,
         NEW w, w = [state |-> w.state, of |-> w.of], w.state # "unused", ProblemsFit(w.of),
         NEW ct2, Puts(ct, i, w, ct2)
  PROVE  /\ FilesFitIn(ct2, f, t) /\ (i # f => FilesFitIn(ct2, f, i)) /\ ct2[i] = w
         /\ \A j \in Dataset!Inodes \ {i} : ct2[j] = ct[j]
<1>1. ct = [j \in Dataset!Inodes |-> [state |-> ct[j].state, of |-> ct[j].of]]
  BY DEF FilesFitIn
<1>2. ct2[i] = w /\ \A j \in Dataset!Inodes \ {i} : ct2[j] = ct[j]
  BY <1>1 DEF Puts
<1>3. ct2 = [j \in Dataset!Inodes |-> ct2[j]]
  BY <1>1 DEF Puts
<1>4. \A j \in Dataset!Inodes : ct[j] = [state |-> ct[j].state, of |-> ct[j].of]
  BY <1>1
<1>5. \A j \in Dataset!Inodes : ct2[j] = [state |-> ct2[j].state, of |-> ct2[j].of]
  BY <1>2, <1>4
<1>6. ct2 = [j \in Dataset!Inodes |-> [state |-> ct2[j].state, of |-> ct2[j].of]]
  BY <1>3, <1>5
<1>7. \A j \in Dataset!Inodes :
        ProblemsFit(ct2[j].of) /\ (~IsUsed(ct2, j) => ct2[j] = Dataset!Unused)
  BY <1>2 DEF FilesFitIn, IsUsed
<1>8. \A j \in Dataset!Inodes : IsUsed(ct, j) => IsUsed(ct2, j)
  BY <1>2 DEF IsUsed
<1>9. IsUsed(ct2, i)
  BY <1>2 DEF IsUsed
<1>10. /\ f \in Dataset!Inodes \cup {0} /\ t \in Dataset!Inodes \cup {0}
       /\ f # 0 => IsUsed(ct, f)
       /\ t # 0 => IsUsed(ct, t) /\ t # f
  BY DEF FilesFitIn
<1>11. FilesFitIn(ct2, f, t)
  BY <1>6, <1>7, <1>8, <1>10 DEF FilesFitIn
<1>12. i # f => FilesFitIn(ct2, f, i)
  BY <1>6, <1>7, <1>8, <1>9, <1>10 DEF FilesFitIn
<1> QED
  BY <1>2, <1>11, <1>12

LEMMA MarksAre ==
  /\ Dataset!Torn = [state |-> "torn", of |-> {}] /\ ProblemsFit({})
  /\ \A S : Dataset!Whole(S) = [state |-> "whole", of |-> S]
  BY DEF Dataset!Torn, Dataset!Whole, ProblemsFit

(* Somebody who has not written yet finds a file that nobody has used.     *)
LEMMA UnusedExists ==
  ASSUME CommandsAreGiven, DataFits, NEW c \in DatasetCommands, v4[c].inode = 0
  PROVE  \E i \in Dataset!Inodes : v1[i] = Dataset!Unused
<1>1. SUFFICES ASSUME \A i \in Dataset!Inodes : IsUsed(v1, i) PROVE FALSE
  BY DEF DataFits, FilesFitIn
<1> DEFINE D == DatasetCommands \ {c}
           I == {v4[d].inode : d \in D}
<1>2. IsFiniteSet(DatasetCommands) /\ Cardinality(DatasetCommands) \in Nat
  BY FS_CardinalityType DEF CommandsAreGiven
<1>3. IsFiniteSet(D) /\ Cardinality(D) = Cardinality(DatasetCommands) - 1
  BY <1>2, FS_RemoveElement
<1>4. IsFiniteSet(I) /\ Cardinality(I) <= Cardinality(D)
  <2>1. PICK f : f = [d \in D |-> v4[d].inode]
    OBVIOUS
  <2>2. f \in Surjection(D, I)
    BY <2>1 DEF Surjection
  <2> QED
    BY <1>3, <2>2, FS_Surjection
<1> HIDE DEF I
<1>5. Cardinality(I) \in Nat /\ Cardinality(D) \in Nat
  BY <1>3, <1>4, FS_CardinalityType
<1>6. IsFiniteSet(I \cup {1}) /\ Cardinality(I \cup {1}) <= Cardinality(I) + 1
  <2>1. /\ IsFiniteSet(I \cup {1})
        /\ Cardinality(I \cup {1}) = IF 1 \in I THEN Cardinality(I) ELSE Cardinality(I) + 1
    BY <1>4, FS_AddElement
  <2> QED
    BY <1>5, <2>1
<1>7. Dataset!Inodes \subseteq I \cup {1}
  <2> SUFFICES ASSUME NEW i \in Dataset!Inodes, i # 1 PROVE i \in I
    OBVIOUS
  <2>1. PICK d \in DatasetCommands : v4[d].inode = i
    BY <1>1 DEF DataFits, UsesFit
  <2>2. i # 0
    BY DEF Dataset!Inodes
  <2> QED
    BY <2>1, <2>2 DEF I
<1>8. Cardinality(Dataset!Inodes) <= Cardinality(I \cup {1})
  BY <1>6, <1>7, FS_Subset
<1>9. Dataset!Cardinality(DatasetCommands) = Cardinality(DatasetCommands)
  BY DEF Dataset!Cardinality, Cardinality
<1>10. Dataset!Inodes = 1 .. Cardinality(DatasetCommands) + 1
  BY <1>9 DEF Dataset!Inodes
<1>11. Cardinality(Dataset!Inodes) = Cardinality(DatasetCommands) + 1
  <2> DEFINE n == Cardinality(DatasetCommands) + 1
  <2>1. n \in Nat /\ 1 \in Int /\ n \in Int /\ 1 <= n
    BY <1>2
  <2>2. Cardinality(1 .. n) = n
    BY <2>1, FS_Interval
  <2> QED
    BY <1>10, <2>2
<1>12. Cardinality(I \cup {1}) \in Nat
  BY <1>6, FS_CardinalityType
<1> QED
  BY <1>2, <1>3, <1>4, <1>5, <1>6, <1>8, <1>11, <1>12

Loads(c, kind, strategy, old, new) ==
  \E d \in IF kind = "mock" THEN Dataset!DetectMock(strategy, new, old)
           ELSE {Dataset!Detect(strategy, new, old)},
     pc \in {"asked", "unchanged"} :
    v4' = [v4 EXCEPT ![c] =
            [Dataset!Idle EXCEPT !.pc = pc, !.kind = kind, !.strategy = strategy,
               !.seen = old, !.new = new, !.final = d.kept \cup d.added,
               !.successful = {n \in new : n.id \notin d.skipped},
               !.over = IF strategy = "overwrite" THEN Dataset!Duplicates(new, old) ELSE {}]]

LEMMA LoadKeeps ==
  ASSUME DataFits, NEW c \in DatasetCommands, Dataset!Load(c)
  PROVE  DataFits'
<1>21. PICK kind \in {"import", "mock"}, strategy \in {"skip", "overwrite"},
            batch \in DatasetBatches :
         LET new == Dataset!Brought(c, batch)
             old == IF v2 = Dataset!NoFile THEN {} ELSE Dataset!Loaded(v1[v2].of)
         IN /\ kind = "mock" =>
                 new = Dataset!Keyed(new) /\ \A m, n \in new : m.key = n.key => m = n
            /\ \E d \in IF kind = "mock" THEN Dataset!DetectMock(strategy, new, old)
                     ELSE {Dataset!Detect(strategy, new, old)},
                  pc \in {"asked", "unchanged"} :
                 v4' = [v4 EXCEPT ![c] =
                   [Dataset!Idle EXCEPT !.pc = pc, !.kind = kind, !.strategy = strategy,
                      !.seen = old, !.new = new, !.final = d.kept \cup d.added,
                      !.successful = {n \in new : n.id \notin d.skipped},
                      !.over = IF strategy = "overwrite" THEN Dataset!Duplicates(new, old) ELSE {}]]
  BY DEF Dataset!Load
<1>22. PICK old : old = IF v2 = Dataset!NoFile THEN {} ELSE Dataset!Loaded(v1[v2].of)
  OBVIOUS
<1>23. PICK new : new = Dataset!Brought(c, batch)
  OBVIOUS
<1>24. old = IF v2 = 0 THEN {} ELSE Dataset!Loaded(v1[v2].of)
  BY <1>22 DEF Dataset!NoFile
<1>1. PICK d \in IF kind = "mock" THEN Dataset!DetectMock(strategy, new, old)
                 ELSE {Dataset!Detect(strategy, new, old)},
           pc \in {"asked", "unchanged"} :
        Quietly(c, [Dataset!Idle EXCEPT !.pc = pc, !.kind = kind, !.strategy = strategy,
                        !.seen = old, !.new = new, !.final = d.kept \cup d.added,
                        !.successful = {n \in new : n.id \notin d.skipped},
                        !.over = IF strategy = "overwrite" THEN Dataset!Duplicates(new, old)
                                 ELSE {}])
  <2>1. Loads(c, kind, strategy, IF v2 = Dataset!NoFile THEN {} ELSE Dataset!Loaded(v1[v2].of),
              Dataset!Brought(c, batch))
    BY <1>21 DEF Loads
  <2>2. Loads(c, kind, strategy, old, new)
    BY <1>22, <1>23, <2>1
  <2> QED
    BY <2>2 DEF Loads, Quietly
<1>2. PICK m : m = [Dataset!Idle EXCEPT !.pc = pc, !.kind = kind, !.strategy = strategy,
                     !.seen = old, !.new = new, !.final = d.kept \cup d.added,
                     !.successful = {n \in new : n.id \notin d.skipped},
                     !.over = IF strategy = "overwrite" THEN Dataset!Duplicates(new, old)
                              ELSE {}]
  OBVIOUS
<1>3. Quietly(c, m)
  BY <1>1, <1>2
<1>4. m = [pc |-> pc, kind |-> kind, strategy |-> strategy, seen |-> old, new |-> new,
           final |-> d.kept \cup d.added, successful |-> {n \in new : n.id \notin d.skipped},
           over |-> IF strategy = "overwrite" THEN Dataset!Duplicates(new, old) ELSE {},
           groups |-> {}, inode |-> 0, alone |-> TRUE]
  BY <1>2 DEF Dataset!Idle, Dataset!NoFile
<1>5. /\ m.pc = pc /\ m.kind = kind /\ m.seen = old /\ m.new = new
      /\ m.final = d.kept \cup d.added /\ m.successful = {n \in new : n.id \notin d.skipped}
      /\ m.over = (IF strategy = "overwrite" THEN Dataset!Duplicates(new, old) ELSE {})
      /\ m.inode = 0 /\ m.alone = TRUE
      /\ m = [pc |-> m.pc, kind |-> m.kind, strategy |-> m.strategy, seen |-> m.seen,
              new |-> m.new, final |-> m.final, successful |-> m.successful, over |-> m.over,
              groups |-> m.groups, inode |-> m.inode, alone |-> m.alone]
  BY <1>4
<1>6. v4[c].pc = "idle"
  BY DEF Dataset!Load
<1>7. v4[c].inode = 0
  BY <1>6, CommandOf DEF CommandFits, Loading
<1>8. DetectKeeps(strategy, new, old, d)
  BY <1>21, <1>1, DetectIs, DetectMockIs
<1>9. ProblemsFit(old) /\ IsBare(old)
      /\ \A e \in DatasetCommands : v4[e].pc = "idle" => NotBy(e, old)
  <2>1. CASE v2 = 0
    BY <1>24, <2>1 DEF ProblemsFit, IsBare, NotBy
  <2>2. CASE v2 # 0
    <3>1. v2 \in Dataset!Inodes /\ ProblemsFit(v1[v2].of)
      BY <2>2 DEF DataFits, FilesFitIn
    <3>2. \A e \in DatasetCommands : v4[e].pc = "idle" => NotBy(e, v1[v2].of)
      BY <3>1 DEF DataFits, NamesAreNew
    <3>3. old = Dataset!Loaded(v1[v2].of)
      BY <1>24, <2>2
    <3> QED
      BY <3>1, <3>2, <3>3, LoadedFits
  <2> QED
    BY <2>1, <2>2
<1>10. ProblemsFit(new) /\ IsBare(new) /\ \A p \in new : p.by = c
  BY <1>23, BroughtFits
<1>11. d.kept \subseteq old /\ d.added \subseteq new
  BY <1>8 DEF DetectKeeps
<1>12. ProblemsFit(m.final)
  <2>1. ProblemsFit(d.kept) /\ IsBare(d.kept) /\ ProblemsFit(d.added) /\ IsBare(d.added)
    BY <1>9, <1>10, <1>11, PartFits
  <2>2. \A p \in d.kept, q \in d.added : p.by # q.by
    BY <1>6, <1>9, <1>10, <1>11 DEF NotBy
  <2> QED
    BY <1>5, <2>1, <2>2, UnionFits
<1>13. \A e \in DatasetCommands \ {c} :
         v4[e].pc = "idle" => NotBy(e, m.seen) /\ NotBy(e, m.final)
  BY <1>5, <1>9, <1>10, <1>11 DEF NotBy
<1>14. ImportKeeps(m)
  <2>1. \A o \in m.seen : o \in m.final \/ \E n \in m.over : n.key = o.key
    BY <1>5, <1>8 DEF DetectKeeps
  <2>2. m.successful \subseteq m.final
    BY <1>5, <1>8 DEF DetectKeeps
  <2>3. m.final \subseteq m.seen \cup m.new
    BY <1>5, <1>11
  <2>4. Dataset!UniqueKeys(m.seen) /\ Dataset!UniqueKeys(m.new) => Dataset!UniqueKeys(m.final)
    BY <1>5, <1>8 DEF DetectKeeps
  <2> QED
    BY <2>1, <2>2, <2>3, <2>4 DEF ImportKeeps
<1>15. CommandFits(m)
  BY <1>21, <1>1, <1>5, <1>9, <1>12, <1>14 DEF CommandFits, Loading, Saving
<1>16. AsRead(m, v1, v2)
  BY <1>24, <1>5 DEF AsRead
<1>17. AloneFinds(m, v1, v2, v3)
  BY <1>21, <1>1, <1>5, <1>16 DEF AloneFinds
<1>18. ~Explains(v4[c])
  BY <1>7 DEF Explains
<1>19. m.pc # "idle" /\ m.inode = v4[c].inode
  BY <1>21, <1>1, <1>5, <1>7
<1>20. UNCHANGED <<v1, v2, v3>>
  BY DEF Dataset!Load
<1> QED
  BY <1>3, <1>13, <1>15, <1>17, <1>18, <1>19, <1>20, QuietKeeps

(* A step that changes the point of a command, and nothing else of it.     *)
LEMMA PcOf ==
  ASSUME NEW m, CommandFits(m), NEW pc
  PROVE  LET n == [m EXCEPT !.pc = pc] IN
         /\ n = [pc |-> pc, kind |-> n.kind, strategy |-> n.strategy, seen |-> n.seen,
                 new |-> n.new, final |-> n.final, successful |-> n.successful,
                 over |-> n.over, groups |-> n.groups, inode |-> n.inode, alone |-> n.alone]
         /\ n.pc = pc /\ n.kind = m.kind /\ n.seen = m.seen /\ n.new = m.new
         /\ n.final = m.final /\ n.successful = m.successful /\ n.over = m.over
         /\ n.groups = m.groups /\ n.inode = m.inode /\ n.alone = m.alone
         /\ (ImportKeeps(m) <=> ImportKeeps(n)) /\ (Explains(m) <=> Explains(n))
         /\ \A ct, f : AsRead(m, ct, f) <=> AsRead(n, ct, f)
<1>1. PICK n : n = [m EXCEPT !.pc = pc]
  OBVIOUS
<1>2. n = [pc |-> pc, kind |-> m.kind, strategy |-> m.strategy, seen |-> m.seen, new |-> m.new,
           final |-> m.final, successful |-> m.successful, over |-> m.over, groups |-> m.groups,
           inode |-> m.inode, alone |-> m.alone]
  BY <1>1 DEF CommandFits
<1>3. /\ n.pc = pc /\ n.kind = m.kind /\ n.seen = m.seen /\ n.new = m.new
      /\ n.final = m.final /\ n.successful = m.successful /\ n.over = m.over
      /\ n.groups = m.groups /\ n.inode = m.inode /\ n.alone = m.alone
      /\ n = [pc |-> pc, kind |-> n.kind, strategy |-> n.strategy, seen |-> n.seen,
              new |-> n.new, final |-> n.final, successful |-> n.successful,
              over |-> n.over, groups |-> n.groups, inode |-> n.inode, alone |-> n.alone]
  BY <1>2
<1>4. (ImportKeeps(m) <=> ImportKeeps(n)) /\ (Explains(m) <=> Explains(n))
      /\ \A ct, f : AsRead(m, ct, f) <=> AsRead(n, ct, f)
  BY <1>3 DEF ImportKeeps, Explains, AsRead
<1> QED
  BY <1>1, <1>3, <1>4

LEMMA NewNames ==
  ASSUME DataFits, NEW c \in DatasetCommands
  PROVE  \A d \in DatasetCommands : v4[d].pc = "idle" =>
           /\ NotBy(d, v4[c].seen) /\ NotBy(d, v4[c].final)
           /\ \A i \in Dataset!Inodes : NotBy(d, v1[i].of)
  BY DEF DataFits, NamesAreNew

LEMMA RefusedKeeps ==
  ASSUME DataFits, NEW c \in DatasetCommands,
         Dataset!LoadRefused(c) \/ Dataset!Confirm(c) \/ Dataset!Crash(c)
  PROVE  DataFits'
<1>1. PICK pc \in {"write", "unchanged", "killed"} : Quietly(c, [v4[c] EXCEPT !.pc = pc])
        /\ (pc = "unchanged" => v4[c].pc \in {"idle", "asked"})
        /\ (pc = "write" => v4[c].pc = "asked" /\ v4[c].kind # "merge")
  <2>1. CASE Dataset!LoadRefused(c)
    BY <2>1 DEF Dataset!LoadRefused, Quietly
  <2>2. CASE Dataset!Confirm(c)
    BY <2>2 DEF Dataset!Confirm, Quietly
  <2>3. CASE Dataset!Crash(c)
    BY <2>3 DEF Dataset!Crash, Quietly
  <2> QED
    BY <2>1, <2>2, <2>3
<1>2. PICK m : m = [v4[c] EXCEPT !.pc = pc]
  OBVIOUS
<1>3. CommandFits(v4[c]) /\ AloneFinds(v4[c], v1, v2, v3)
  BY CommandOf
<1>4. /\ m = [pc |-> m.pc, kind |-> m.kind, strategy |-> m.strategy, seen |-> m.seen,
              new |-> m.new, final |-> m.final, successful |-> m.successful,
              over |-> m.over, groups |-> m.groups, inode |-> m.inode, alone |-> m.alone]
      /\ m.pc = pc /\ m.kind = v4[c].kind /\ m.seen = v4[c].seen /\ m.final = v4[c].final
      /\ m.groups = v4[c].groups /\ m.inode = v4[c].inode /\ m.alone = v4[c].alone
      /\ (ImportKeeps(v4[c]) <=> ImportKeeps(m)) /\ (Explains(v4[c]) <=> Explains(m))
      /\ (AsRead(v4[c], v1, v2) <=> AsRead(m, v1, v2))
  BY <1>2, <1>3, PcOf
<1>5. CommandFits(m)
  BY <1>1, <1>3, <1>4 DEF CommandFits, Loading, Saving
<1>6. AloneFinds(m, v1, v2, v3)
  BY <1>1, <1>3, <1>4 DEF AloneFinds
<1>7. UNCHANGED <<v1, v2, v3>>
  BY DEF Dataset!LoadRefused, Dataset!Confirm, Dataset!Crash
<1>8. Quietly(c, m)
  BY <1>1, <1>2
<1>9. m.pc # "idle"
  BY <1>4
<1> QED
  BY <1>4, <1>5, <1>6, <1>7, <1>8, <1>9, NewNames, QuietKeeps

LEMMA LoadRawKeeps ==
  ASSUME DataFits, NEW c \in DatasetCommands, Dataset!LoadRaw(c)
  PROVE  DataFits'
<1>1. v4[c].pc = "idle" /\ v2 # 0
  BY DEF Dataset!LoadRaw, Dataset!NoFile
<1>2. PICK S : S = v1[v2].of
  OBVIOUS
<1>3. PICK G \in Dataset!Groups(S), pc \in {"asked", "unchanged"} :
        Quietly(c, [Dataset!Idle EXCEPT !.pc = pc, !.kind = "merge", !.seen = S, !.groups = G])
  BY <1>2 DEF Dataset!LoadRaw, Quietly
<1>4. PICK m : m = [Dataset!Idle EXCEPT !.pc = pc, !.kind = "merge", !.seen = S, !.groups = G]
  OBVIOUS
<1>5. m = [pc |-> pc, kind |-> "merge", strategy |-> "skip", seen |-> S, new |-> {},
           final |-> {}, successful |-> {}, over |-> {}, groups |-> G, inode |-> 0, alone |-> TRUE]
  BY <1>4 DEF Dataset!Idle, Dataset!NoFile
<1>6. /\ m.pc = pc /\ m.kind = "merge" /\ m.seen = S /\ m.final = {} /\ m.groups = G
      /\ m.inode = 0 /\ m.alone = TRUE
      /\ m = [pc |-> m.pc, kind |-> m.kind, strategy |-> m.strategy, seen |-> m.seen,
              new |-> m.new, final |-> m.final, successful |-> m.successful, over |-> m.over,
              groups |-> m.groups, inode |-> m.inode, alone |-> m.alone]
  BY <1>5
<1>7. v2 \in Dataset!Inodes /\ ProblemsFit(S)
  BY <1>1, <1>2 DEF DataFits, FilesFitIn
<1>8. GroupsFit(G, S)
  <2>1. G \subseteq SUBSET S
    <3>1. PICK alike \in SUBSET {pair \in SUBSET S : Dataset!Cardinality(pair) = 2} :
            G = {Dataset!SameKey(S, p.key) :
                   p \in {q \in Dataset!Keyed(S) : Dataset!Cardinality(Dataset!SameKey(S, q.key)) > 1}}
                \cup alike
      BY DEF Dataset!Groups
    <3>2. \A k : Dataset!SameKey(S, k) \subseteq S
      BY DEF Dataset!SameKey
    <3> QED
      BY <3>1, <3>2
  <2>2. \A g, h \in G : g = h \/ g \cap h = {}
    BY DEF Dataset!Groups
  <2> QED
    BY <2>1, <2>2 DEF GroupsFit
<1>9. CommandFits(m)
  BY <1>3, <1>6, <1>7, <1>8, MarksAre DEF CommandFits, Loading, Saving
<1>10. AloneFinds(m, v1, v2, v3)
  BY <1>3, <1>6 DEF AloneFinds
<1>11. v4[c].inode = 0
  BY <1>1, CommandOf DEF CommandFits, Loading
<1>12. ~Explains(v4[c]) /\ m.pc # "idle" /\ m.inode = v4[c].inode
  BY <1>3, <1>6, <1>11 DEF Explains
<1>13. \A d \in DatasetCommands \ {c} :
         v4[d].pc = "idle" => NotBy(d, m.seen) /\ NotBy(d, m.final)
  <2>1. \A d \in DatasetCommands : v4[d].pc = "idle" => NotBy(d, S)
    BY <1>2, <1>7, NewNames
  <2> QED
    BY <1>6, <2>1 DEF NotBy
<1>14. Quietly(c, m) /\ UNCHANGED <<v1, v2, v3>>
  BY <1>3, <1>4 DEF Dataset!LoadRaw
<1> QED
  BY <1>9, <1>10, <1>12, <1>13, <1>14, QuietKeeps

LEMMA OpenTempKeeps ==
  ASSUME CommandsAreGiven, DataFits, NEW c \in DatasetCommands, Dataset!OpenTemp(c)
  PROVE  DataFits'
<1>1. PICK i : i = IF v3 = 0 THEN CHOOSE j \in Dataset!Inodes : v1[j] = Dataset!Unused ELSE v3
  OBVIOUS
<1>2. /\ v4[c].pc = "write" /\ v1' = [v1 EXCEPT ![i] = Dataset!Torn] /\ v3' = i /\ v2' = v2
      /\ Loudly(c, [v4[c] EXCEPT !.pc = "writing", !.inode = i,
                                 !.alone = @ /\ ~Dataset!Held(c, i)])
  BY <1>1 DEF Dataset!OpenTemp, Loudly, Dataset!NoFile
<1>3. CommandFits(v4[c]) /\ AloneFinds(v4[c], v1, v2, v3)
  BY CommandOf
<1>4. v4[c].inode = 0 /\ v4[c].kind # "merge"
  BY <1>2, <1>3 DEF CommandFits, Loading
<1>5. FilesFitIn(v1, v2, v3)
  BY DEF DataFits
<1>6. i \in Dataset!Inodes /\ i # v2
  <2>1. CASE v3 = 0
    <3>1. i \in Dataset!Inodes /\ v1[i] = Dataset!Unused
      BY <1>1, <1>4, <2>1, UnusedExists
    <3>2. ~IsUsed(v1, i)
      BY <3>1 DEF IsUsed, Dataset!Unused
    <3>3. i # 0
      BY <3>1 DEF Dataset!Inodes
    <3> QED
      BY <1>5, <3>1, <3>2, <3>3 DEF FilesFitIn
  <2>2. CASE v3 # 0
    BY <1>1, <1>5, <2>2 DEF FilesFitIn
  <2> QED
    BY <2>1, <2>2
<1>7. PICK w : w = Dataset!Torn
  OBVIOUS
<1>8. w = [state |-> w.state, of |-> w.of] /\ w.state = "torn" /\ w.of = {} /\ ProblemsFit(w.of)
  BY <1>7, MarksAre
<1>9. /\ FilesFitIn(v1', v2, i) /\ v1'[i] = w
      /\ \A j \in Dataset!Inodes \ {i} : v1'[j] = v1[j]
  <2>1. Puts(v1, i, w, v1') /\ w.state # "unused"
    BY <1>2, <1>7, <1>8 DEF Puts
  <2> QED
    BY <1>5, <1>6, <1>8, <2>1, PutFits
<1>10. PICK m : m = [v4[c] EXCEPT !.pc = "writing", !.inode = i,
                                  !.alone = @ /\ ~Dataset!Held(c, i)]
  OBVIOUS
<1>11. PICK a : a = (v4[c].alone /\ ~Dataset!Held(c, i))
  OBVIOUS
<1>12. a \in BOOLEAN /\ (a => v4[c].alone)
  BY <1>3, <1>11 DEF CommandFits
<1>13. m = [v4[c] EXCEPT !.pc = "writing", !.inode = i, !.alone = a]
  BY <1>10, <1>11
<1>14. m = [pc |-> "writing", kind |-> v4[c].kind, strategy |-> v4[c].strategy,
            seen |-> v4[c].seen, new |-> v4[c].new, final |-> v4[c].final,
            successful |-> v4[c].successful, over |-> v4[c].over, groups |-> v4[c].groups,
            inode |-> i, alone |-> a]
  BY <1>3, <1>13 DEF CommandFits
<1>15. /\ m.pc = "writing" /\ m.kind = v4[c].kind /\ m.seen = v4[c].seen /\ m.new = v4[c].new
       /\ m.final = v4[c].final /\ m.successful = v4[c].successful /\ m.over = v4[c].over
       /\ m.groups = v4[c].groups /\ m.inode = i /\ m.alone = a
       /\ m = [pc |-> m.pc, kind |-> m.kind, strategy |-> m.strategy, seen |-> m.seen,
               new |-> m.new, final |-> m.final, successful |-> m.successful,
               over |-> m.over, groups |-> m.groups, inode |-> m.inode, alone |-> m.alone]
  BY <1>14
<1>16. ImportKeeps(v4[c]) => ImportKeeps(m)
  BY <1>15 DEF ImportKeeps
<1>17. i # 0
  BY <1>6 DEF Dataset!Inodes
<1>18. CommandFits(m)
  BY <1>3, <1>4, <1>6, <1>12, <1>15, <1>16, <1>17 DEF CommandFits, Loading, Saving
<1>19. m.alone => AsRead(m, v1', v2)
  <2> SUFFICES ASSUME m.alone PROVE AsRead(m, v1', v2)
    OBVIOUS
  <2>1. AsRead(v4[c], v1, v2)
    BY <1>2, <1>3, <1>4, <1>12, <1>15 DEF AloneFinds
  <2>2. v2 # 0 => v2 \in Dataset!Inodes
    BY <1>5 DEF FilesFitIn
  <2>3. v2 # 0 => v1'[v2] = v1[v2]
    BY <1>6, <1>9, <2>2
  <2> QED
    BY <1>15, <2>1, <2>3 DEF AsRead
<1>20. AloneFinds(m, v1', v2', v3')
  BY <1>2, <1>15, <1>19 DEF AloneFinds
<1>21. \A j \in Dataset!Inodes : IsUsed(v1', j) => IsUsed(v1, j) \/ j = m.inode
  BY <1>9, <1>15 DEF IsUsed
<1>22. v2' # 0 /\ v1'[v2'].state = "torn" => v2 # 0 /\ v1[v2].state = "torn"
  <2>1. v2 # 0 => v2 \in Dataset!Inodes
    BY <1>5 DEF FilesFitIn
  <2> QED
    BY <1>2, <1>6, <1>9, <2>1
<1>23. ~Explains(v4[c])
  BY <1>4 DEF Explains
<1>24. \A d \in DatasetCommands \ {c} : v4[d].pc = "idle" =>
         /\ NotBy(d, m.seen) /\ NotBy(d, m.final)
         /\ \A j \in Dataset!Inodes : NotBy(d, v1'[j].of)
  <2>1. \A d : NotBy(d, {})
    BY DEF NotBy
  <2>2. \A j \in Dataset!Inodes : v1'[j].of = {} \/ v1'[j] = v1[j]
    BY <1>8, <1>9
  <2>3. \A d \in DatasetCommands : v4[d].pc = "idle" =>
          \A j \in Dataset!Inodes : NotBy(d, v1'[j].of)
    BY <2>1, <2>2, NewNames
  <2> QED
    BY <1>15, <2>3, NewNames
<1>25. Loudly(c, m) /\ FilesFitIn(v1', v2', v3') /\ m.pc # "idle"
  BY <1>2, <1>9, <1>10, <1>15
<1> QED
  BY <1>4, <1>18, <1>20, <1>21, <1>22, <1>23, <1>24, <1>25, LoudKeeps

(* A command goes on loudly with nothing but its point changed.            *)
LEMMA GoesOnLoudly ==
  ASSUME DataFits, NEW c \in DatasetCommands, NEW pc,
         Loudly(c, [v4[c] EXCEPT !.pc = pc]), pc \in Saving \cup {"failed"},
         pc # "failed" => v4[c].inode # 0,
         pc \in {"written", "replaced"} => v4[c].kind # "merge",
         pc # "rewriting", pc = "merged" => v4[c].pc = "rewriting",
         pc # "writing",
         FilesFitIn(v1', v2', v3'),
         v4[c].alone => /\ pc = "written" => v3' = v4[c].inode
                                             /\ v1'[v3'] = Dataset!Whole(v4[c].final)
                        /\ pc \in {"replaced", "merged"} =>
                             v2' # 0 /\ v1'[v2'] = Dataset!Whole(v4[c].final)
                        /\ pc \in {"written", "failed"} /\ v4[c].kind # "merge"
                             => AsRead(v4[c], v1', v2'),
         \A i \in Dataset!Inodes : IsUsed(v1', i) => IsUsed(v1, i) \/ i = v4[c].inode,
         v2' # 0 /\ v1'[v2'].state = "torn" =>
           Explains(v4[c]) \/ (v2 # 0 /\ v1[v2].state = "torn"),
         \A i \in Dataset!Inodes :
           v1'[i] = v1[i] \/ v1'[i].of = v4[c].final \/ v1'[i].of = {}
  PROVE  DataFits'
<1>1. PICK m : m = [v4[c] EXCEPT !.pc = pc]
  OBVIOUS
<1>2. CommandFits(v4[c]) /\ AloneFinds(v4[c], v1, v2, v3)
  BY CommandOf
<1>3. /\ m = [pc |-> m.pc, kind |-> m.kind, strategy |-> m.strategy, seen |-> m.seen,
              new |-> m.new, final |-> m.final, successful |-> m.successful,
              over |-> m.over, groups |-> m.groups, inode |-> m.inode, alone |-> m.alone]
      /\ m.pc = pc /\ m.kind = v4[c].kind /\ m.seen = v4[c].seen /\ m.final = v4[c].final
      /\ m.groups = v4[c].groups /\ m.inode = v4[c].inode /\ m.alone = v4[c].alone
      /\ (ImportKeeps(v4[c]) <=> ImportKeeps(m)) /\ (Explains(v4[c]) <=> Explains(m))
      /\ (AsRead(v4[c], v1', v2') <=> AsRead(m, v1', v2'))
  BY <1>1, <1>2, PcOf
<1>4. CommandFits(m)
  BY <1>2, <1>3 DEF CommandFits, Loading, Saving
<1>5. AloneFinds(m, v1', v2', v3')
  BY <1>3 DEF AloneFinds, Saving
<1>6. \A d \in DatasetCommands \ {c} : v4[d].pc = "idle" =>
        /\ NotBy(d, m.seen) /\ NotBy(d, m.final)
        /\ \A i \in Dataset!Inodes : NotBy(d, v1'[i].of)
  <2>1. \A d : NotBy(d, {})
    BY DEF NotBy
  <2>2. \A d \in DatasetCommands : v4[d].pc = "idle" =>
          \A i \in Dataset!Inodes : NotBy(d, v1'[i].of)
    BY <2>1, NewNames
  <2> QED
    BY <1>3, <2>2, NewNames
<1>7. m.pc # "idle" /\ Loudly(c, m)
  BY <1>1, <1>3 DEF Saving
<1> QED
  BY <1>3, <1>4, <1>5, <1>6, <1>7, LoudKeeps

(* What a writer leaves in its file.                                       *)
LEMMA WrittenIs ==
  ASSUME DataFits, NEW c \in DatasetCommands, Dataset!Writes(c, v4[c].final),
         v4[c].inode # 0
  PROVE  /\ v4[c].inode \in Dataset!Inodes
         /\ FilesFitIn(v1', v2, v3)
         /\ v4[c].alone => v1'[v4[c].inode] = Dataset!Whole(v4[c].final)
         /\ v1'[v4[c].inode] = Dataset!Whole(v4[c].final) \/ v1'[v4[c].inode] = Dataset!Torn
         /\ \A j \in Dataset!Inodes \ {v4[c].inode} : v1'[j] = v1[j]
<1>1. CommandFits(v4[c])
  BY CommandOf
<1>2. v4[c].inode \in Dataset!Inodes
  BY <1>1 DEF CommandFits
<1>3. PICK w : /\ v1' = [v1 EXCEPT ![v4[c].inode] = w]
               /\ w = Dataset!Whole(v4[c].final) \/ w = Dataset!Torn
               /\ v4[c].alone => w = Dataset!Whole(v4[c].final)
  BY DEF Dataset!Writes
<1>4. ProblemsFit(v4[c].final)
  BY <1>1 DEF CommandFits
<1>5. w = [state |-> w.state, of |-> w.of] /\ w.state # "unused" /\ ProblemsFit(w.of)
  BY <1>3, <1>4, MarksAre
<1>6. FilesFitIn(v1, v2, v3)
  BY DEF DataFits
<1>7. /\ FilesFitIn(v1', v2, v3) /\ v1'[v4[c].inode] = w
      /\ \A j \in Dataset!Inodes \ {v4[c].inode} : v1'[j] = v1[j]
  <2>1. Puts(v1, v4[c].inode, w, v1')
    BY <1>3 DEF Puts
  <2> QED
    BY <1>2, <1>5, <1>6, <2>1, PutFits
<1> QED
  BY <1>2, <1>3, <1>7

LEMMA WriteKeeps ==
  ASSUME DataFits, NEW c \in DatasetCommands, Dataset!WriteTemp(c) \/ Dataset!Rewrite(c)
  PROVE  DataFits'
<1>1. PICK pc \in {"written", "merged"} :
        /\ Loudly(c, [v4[c] EXCEPT !.pc = pc])
        /\ pc = "written" => v4[c].pc = "writing"
        /\ pc = "merged" => v4[c].pc = "rewriting"
        /\ Dataset!Writes(c, v4[c].final) /\ v2' = v2 /\ v3' = v3
  <2>1. CASE Dataset!WriteTemp(c)
    BY <2>1 DEF Dataset!WriteTemp, Loudly
  <2>2. CASE Dataset!Rewrite(c)
    BY <2>2 DEF Dataset!Rewrite, Loudly
  <2> QED
    BY <2>1, <2>2
<1>2. PICK m : m = v4[c]
  OBVIOUS
<1>3. CommandFits(m) /\ AloneFinds(m, v1, v2, v3)
  BY <1>2, CommandOf
<1>4. /\ m.inode # 0 /\ (pc = "written" => m.kind # "merge") /\ (pc = "merged" => m.kind = "merge")
      /\ (m.alone /\ pc = "written" => v3 = m.inode /\ (m.kind # "merge" => AsRead(m, v1, v2)))
      /\ (m.alone /\ pc = "merged" => v2 = m.inode)
  BY <1>1, <1>2, <1>3 DEF CommandFits, AloneFinds, Saving
<1>5. /\ m.inode \in Dataset!Inodes /\ FilesFitIn(v1', v2, v3)
      /\ m.alone => v1'[m.inode] = Dataset!Whole(m.final)
      /\ v1'[m.inode] = Dataset!Whole(m.final) \/ v1'[m.inode] = Dataset!Torn
      /\ \A j \in Dataset!Inodes \ {m.inode} : v1'[j] = v1[j]
  BY <1>1, <1>2, <1>4, WrittenIs
<1>6. v2 \in Dataset!Inodes \cup {0} /\ (v3 # 0 => v3 # v2)
  BY <1>5 DEF FilesFitIn
<1>7. m.alone =>
        /\ pc = "written" => v3' = m.inode /\ v1'[v3'] = Dataset!Whole(m.final)
        /\ pc \in {"replaced", "merged"} => v2' # 0 /\ v1'[v2'] = Dataset!Whole(m.final)
  BY <1>1, <1>4, <1>5
<1>8. m.alone /\ pc \in {"written", "failed"} /\ m.kind # "merge" => AsRead(m, v1', v2')
  <2> SUFFICES ASSUME m.alone, pc \in {"written", "failed"}, m.kind # "merge"
               PROVE  AsRead(m, v1', v2')
    OBVIOUS
  <2>1. v3 = m.inode /\ AsRead(m, v1, v2)
    BY <1>4
  <2>2. v2 # 0 => v1'[v2] = v1[v2]
    BY <1>4, <1>5, <1>6, <2>1
  <2> QED
    BY <1>1, <2>1, <2>2 DEF AsRead
<1>9. \A i \in Dataset!Inodes : IsUsed(v1', i) => IsUsed(v1, i) \/ i = m.inode
  BY <1>5 DEF IsUsed
<1>10. v2' # 0 /\ v1'[v2'].state = "torn" =>
         Explains(m) \/ (v2 # 0 /\ v1[v2].state = "torn")
  <2>1. CASE v2 = m.inode
    BY <1>1, <1>4, <1>5, <2>1, MarksAre DEF Explains
  <2>2. CASE v2 # m.inode
    BY <1>1, <1>5, <1>6, <2>2
  <2> QED
    BY <2>1, <2>2
<1>11. \A i \in Dataset!Inodes : v1'[i] = v1[i] \/ v1'[i].of = m.final \/ v1'[i].of = {}
  BY <1>5, MarksAre
<1>12. FilesFitIn(v1', v2', v3')
  BY <1>1, <1>5
<1>13. pc \in Saving \cup {"failed"} /\ pc # "rewriting" /\ pc # "writing"
  BY <1>1 DEF Saving
<1> QED
  BY <1>1, <1>2, <1>4, <1>7, <1>8, <1>9, <1>10, <1>11, <1>12, <1>13, GoesOnLoudly

LEMMA ReplaceKeeps ==
  ASSUME DataFits, NEW c \in DatasetCommands,
         Dataset!Replace(c) \/ Dataset!PersistFails(c) \/ Dataset!RewriteFails(c)
  PROVE  DataFits'
<1>1. PICK m : m = v4[c]
  OBVIOUS
<1>2. CommandFits(m) /\ AloneFinds(m, v1, v2, v3) /\ FilesFitIn(v1, v2, v3)
  BY <1>1, CommandOf DEF DataFits
<1>3. CASE Dataset!Replace(c)
  <2>1. /\ m.pc = "written" /\ v3 # 0 /\ v2' = v3 /\ v3' = 0 /\ v1' = v1
        /\ Loudly(c, [v4[c] EXCEPT !.pc = "replaced"])
    BY <1>1, <1>3 DEF Dataset!Replace, Dataset!NoFile, Loudly
  <2>2. /\ m.inode # 0 /\ m.kind # "merge"
        /\ m.alone => v1[v3] = Dataset!Whole(m.final)
    BY <1>2, <2>1 DEF CommandFits, AloneFinds, Saving
  <2>3. FilesFitIn(v1', v2', v3')
    BY <1>2, <2>1 DEF FilesFitIn
  <2>4. v1'[v2'].state = "torn" => Explains(m)
    BY <2>1, <2>2, MarksAre DEF Explains
  <2> QED
    BY <1>1, <2>1, <2>2, <2>3, <2>4, GoesOnLoudly DEF Saving
<1>4. CASE Dataset!PersistFails(c)
  <2>1. /\ m.pc \in {"write", "writing", "written"} /\ v2' = v2 /\ v3' = 0 /\ v1' = v1
        /\ Loudly(c, [v4[c] EXCEPT !.pc = "failed"])
    BY <1>1, <1>4 DEF Dataset!PersistFails, Dataset!NoFile, Loudly
  <2>2. m.kind # "merge" /\ (m.alone => AsRead(m, v1, v2))
    BY <1>2, <2>1 DEF CommandFits, AloneFinds
  <2>3. FilesFitIn(v1', v2', v3')
    BY <1>2, <2>1 DEF FilesFitIn
  <2> QED
    BY <1>1, <2>1, <2>2, <2>3, GoesOnLoudly DEF Saving
<1>5. CASE Dataset!RewriteFails(c)
  <2>1. /\ m.pc = "rewriting" /\ v2' = v2 /\ v3' = v3 /\ v1' = v1
        /\ Loudly(c, [v4[c] EXCEPT !.pc = "failed"])
    BY <1>1, <1>5 DEF Dataset!RewriteFails, Loudly
  <2>2. m.kind = "merge"
    BY <1>2, <2>1 DEF CommandFits
  <2>3. FilesFitIn(v1', v2', v3')
    BY <1>2, <2>1
  <2> QED
    BY <1>1, <2>1, <2>2, <2>3, GoesOnLoudly DEF Saving
<1> QED
  BY <1>3, <1>4, <1>5

LEMMA MergeKeepsAll ==
  ASSUME DataFits, NEW c \in DatasetCommands, Dataset!Merge(c)
  PROVE  DataFits'
<1>1. CommandFits(v4[c]) /\ FilesFitIn(v1, v2, v3)
  BY CommandOf DEF DataFits
<1>2. PICK accepted \in SUBSET v4[c].groups :
        \E primary \in Dataset!Primaries(accepted, v4[c].seen) :
          Loudly(c, [v4[c] EXCEPT
                  !.pc = "rewriting", !.inode = v2, !.alone = @ /\ ~Dataset!Held(c, v2),
                  !.final = MergedTo(v4[c].seen, accepted, primary)])
  BY DEF Dataset!Merge, Loudly, MergedTo
<1>3. PICK primary \in Dataset!Primaries(accepted, v4[c].seen) :
          Loudly(c, [v4[c] EXCEPT
                  !.pc = "rewriting", !.inode = v2, !.alone = @ /\ ~Dataset!Held(c, v2),
                  !.final = MergedTo(v4[c].seen, accepted, primary)])
  BY <1>2
<1>4. v4[c].pc = "asked" /\ v4[c].kind = "merge" /\ v2 # 0 /\ v2' = v2 /\ v3' = v3
      /\ v1' = [v1 EXCEPT ![v2] = Dataset!Torn]
  BY DEF Dataset!Merge, Dataset!NoFile
<1>5. ProblemsFit(v4[c].seen) /\ GroupsFit(v4[c].groups, v4[c].seen) /\ v4[c].inode = 0
  BY <1>1, <1>4 DEF CommandFits, Loading
<1>6. GroupsFit(accepted, v4[c].seen)
  BY <1>2, <1>5 DEF GroupsFit
<1>7. \A g \in accepted : primary[g] \in g
  BY <1>3 DEF Dataset!Primaries
<1>8. PICK F : F = MergedTo(v4[c].seen, accepted, primary)
  OBVIOUS
<1>9. /\ ProblemsFit(F) /\ EachOnce(v4[c].seen, F)
      /\ \A d : NotBy(d, v4[c].seen) => NotBy(d, F)
  BY <1>5, <1>6, <1>7, <1>8, MergeFits
<1>10. PICK a : a = (v4[c].alone /\ ~Dataset!Held(c, v2))
  OBVIOUS
<1>11. a \in BOOLEAN /\ (a => v4[c].alone)
  BY <1>1, <1>10 DEF CommandFits
<1>12. PICK m : m = [v4[c] EXCEPT !.pc = "rewriting", !.inode = v2, !.alone = a, !.final = F]
  OBVIOUS
<1>13. Loudly(c, m)
  BY <1>3, <1>8, <1>10, <1>12
<1>14. m = [pc |-> "rewriting", kind |-> v4[c].kind, strategy |-> v4[c].strategy,
            seen |-> v4[c].seen, new |-> v4[c].new, final |-> F,
            successful |-> v4[c].successful, over |-> v4[c].over, groups |-> v4[c].groups,
            inode |-> v2, alone |-> a]
  BY <1>1, <1>12 DEF CommandFits
<1>15. /\ m.pc = "rewriting" /\ m.kind = v4[c].kind /\ m.seen = v4[c].seen
       /\ m.final = F /\ m.groups = v4[c].groups /\ m.inode = v2 /\ m.alone = a
       /\ m = [pc |-> m.pc, kind |-> m.kind, strategy |-> m.strategy, seen |-> m.seen,
               new |-> m.new, final |-> m.final, successful |-> m.successful,
               over |-> m.over, groups |-> m.groups, inode |-> m.inode, alone |-> m.alone]
  BY <1>14
<1>16. v2 \in Dataset!Inodes /\ IsUsed(v1, v2)
  BY <1>1, <1>4 DEF FilesFitIn
<1>17. CommandFits(m)
  BY <1>4, <1>5, <1>9, <1>11, <1>15, <1>16 DEF CommandFits, Loading, Saving
<1>18. PICK w : w = Dataset!Torn
  OBVIOUS
<1>19. w = [state |-> w.state, of |-> w.of] /\ w.state = "torn" /\ w.of = {} /\ ProblemsFit(w.of)
  BY <1>18, MarksAre
<1>20. /\ FilesFitIn(v1', v2, v3) /\ v1'[v2] = w
       /\ \A j \in Dataset!Inodes \ {v2} : v1'[j] = v1[j]
  <2>1. Puts(v1, v2, w, v1') /\ w.state # "unused"
    BY <1>4, <1>18, <1>19 DEF Puts
  <2> QED
    BY <1>1, <1>16, <1>19, <2>1, PutFits
<1>21. AloneFinds(m, v1', v2', v3')
  BY <1>4, <1>15 DEF AloneFinds
<1>22. Explains(m)
  BY <1>4, <1>15 DEF Explains
<1>23. \A j \in Dataset!Inodes : IsUsed(v1', j) => IsUsed(v1, j) \/ j = m.inode
  BY <1>15, <1>20 DEF IsUsed
<1>24. \A d \in DatasetCommands \ {c} : v4[d].pc = "idle" =>
         /\ NotBy(d, m.seen) /\ NotBy(d, m.final)
         /\ \A j \in Dataset!Inodes : NotBy(d, v1'[j].of)
  <2>1. \A d : NotBy(d, {})
    BY DEF NotBy
  <2>2. \A j \in Dataset!Inodes : v1'[j].of = {} \/ v1'[j] = v1[j]
    BY <1>19, <1>20
  <2>3. \A d \in DatasetCommands : v4[d].pc = "idle" =>
          \A j \in Dataset!Inodes : NotBy(d, v1'[j].of)
    BY <2>1, <2>2, NewNames
  <2>4. \A d \in DatasetCommands : v4[d].pc = "idle" => NotBy(d, v4[c].seen)
    BY NewNames
  <2> QED
    BY <1>9, <1>15, <2>3, <2>4
<1>25. FilesFitIn(v1', v2', v3') /\ m.pc # "idle"
  BY <1>4, <1>15, <1>20
<1> QED
  BY <1>5, <1>13, <1>17, <1>21, <1>22, <1>23, <1>24, <1>25, LoudKeeps

LEMMA SeedsAreApart ==
  \A S \in DatasetSeeds : \A s, t \in S : s[1] = t[1] /\ s[2] = t[2] => s = t
<1> SUFFICES ASSUME NEW S \in DatasetSeeds, NEW s \in S, NEW t \in S, s[1] = t[1], s[2] = t[2]
             PROVE  s = t
  OBVIOUS
<1>1. CASE S = {}
  BY <1>1
<1>2. CASE S = {<<1, 1, TRUE>>}
  BY <1>2
<1>3. CASE S = {<<1, 1, TRUE>>, <<1, 2, TRUE>>, <<0, 3, TRUE>>}
  <2>1. PICK x, y, z : x = <<1, 1, TRUE>> /\ y = <<1, 2, TRUE>> /\ z = <<0, 3, TRUE>>
    OBVIOUS
  <2>2. x[2] = 1 /\ y[2] = 2 /\ z[2] = 3
    BY <2>1
  <2>3. S = {x, y, z}
    BY <1>3, <2>1
  <2> QED
    BY <2>2, <2>3
<1>4. CASE S = {<<2, 1, TRUE>>, <<1, 2, FALSE>>}
  <2>1. PICK x, y : x = <<2, 1, TRUE>> /\ y = <<1, 2, FALSE>>
    OBVIOUS
  <2>2. x[2] = 1 /\ y[2] = 2
    BY <2>1
  <2>3. S = {x, y}
    BY <1>4, <2>1
  <2> QED
    BY <2>2, <2>3
<1> QED
  BY <1>1, <1>2, <1>3, <1>4 DEF DatasetSeeds

LEMMA SeedsFit ==
  ASSUME NEW S \in DatasetSeeds
  PROVE  LET P == {Dataset!Problem(0, s[1], s[2], s[3]) : s \in S}
         IN ProblemsFit(P) /\ \A p \in P : p.by = 0
<1>1. PICK P : P = {Dataset!Problem(0, s[1], s[2], s[3]) : s \in S}
  OBVIOUS
<1>2. \A p \in P : \E s \in S :
        p = [by |-> 0, key |-> s[1], id |-> s[2], ok |-> s[3], had |-> {}]
  BY <1>1 DEF Dataset!Problem
<1>3. \A p \in P : p = [by |-> p.by, key |-> p.key, id |-> p.id, ok |-> p.ok, had |-> p.had]
                   /\ p.had = {} /\ p.by = 0
  BY <1>2
<1>4. ASSUME NEW p \in P, NEW q \in P, Dataset!Name(p) = Dataset!Name(q) PROVE p = q
  <2>1. PICK s \in S : p = [by |-> 0, key |-> s[1], id |-> s[2], ok |-> s[3], had |-> {}]
    BY <1>2
  <2>2. PICK t \in S : q = [by |-> 0, key |-> t[1], id |-> t[2], ok |-> t[3], had |-> {}]
    BY <1>2
  <2>3. p.key = q.key /\ p.id = q.id
    BY <1>4, NamesTell
  <2>4. s[1] = t[1] /\ s[2] = t[2]
    BY <2>1, <2>2, <2>3
  <2>5. s = t
    BY <2>4, SeedsAreApart
  <2> QED
    BY <2>1, <2>2, <2>5
<1>5. ProblemsFit(P)
  BY <1>3, <1>4 DEF ProblemsFit
<1> QED
  BY <1>1, <1>3, <1>5

LEMMA DataStarts == ASSUME CommandsAreGiven, Dataset!Init PROVE DataFits
<1>1. /\ v3 = 0 /\ v4 = [c \in DatasetCommands |-> Dataset!Idle]
      /\ \/ v2 = 0 /\ v1 = [i \in Dataset!Inodes |-> Dataset!Unused]
         \/ v2 = 1 /\ \E S \in DatasetSeeds :
              v1 = [i \in Dataset!Inodes |->
                      IF i = 1 THEN Dataset!Whole({Dataset!Problem(0, s[1], s[2], s[3]) : s \in S})
                               ELSE Dataset!Unused]
  BY DEF Dataset!Init, Dataset!NoFile
<1>2. PICK m : m = Dataset!Idle
  OBVIOUS
<1>3. m = [pc |-> "idle", kind |-> "import", strategy |-> "skip", seen |-> {}, new |-> {},
           final |-> {}, successful |-> {}, over |-> {}, groups |-> {}, inode |-> 0, alone |-> TRUE]
  BY <1>2 DEF Dataset!Idle, Dataset!NoFile
<1>4. m = [Dataset!Idle EXCEPT !.alone = m.alone]
  BY <1>2, <1>3 DEF Dataset!Idle
<1>5. ImportKeeps(m)
  BY <1>3 DEF ImportKeeps, Dataset!UniqueKeys, Dataset!Keyed
<1>6. CommandFits(m)
  BY <1>3, <1>4, <1>5, MarksAre DEF CommandFits, Loading, Saving
<1>7. AloneFinds(m, v1, v2, v3)
  BY <1>3 DEF AloneFinds
<1>8. \A c \in DatasetCommands : v4[c] = m
  BY <1>1, <1>2
<1>9. 1 \in Dataset!Inodes
  <2>1. Cardinality(DatasetCommands) \in Nat
    BY FS_CardinalityType DEF CommandsAreGiven
  <2>2. Dataset!Cardinality(DatasetCommands) = Cardinality(DatasetCommands)
    BY DEF Dataset!Cardinality, Cardinality
  <2> QED
    BY <2>1, <2>2 DEF Dataset!Inodes
<1>10. PICK u : u = Dataset!Unused
  OBVIOUS
<1>11. u = [state |-> "unused", of |-> {}]
  BY <1>10 DEF Dataset!Unused
<1>12. PICK w : /\ w = [state |-> w.state, of |-> w.of] /\ ProblemsFit(w.of)
                /\ w.state \in {"whole", "unused"} /\ \A p \in w.of : p.by = 0
                /\ (w.state = "unused" => w = u) /\ (w = u <=> v2 = 0)
                /\ v1 = [i \in Dataset!Inodes |-> IF i = 1 THEN w ELSE u]
  <2>1. CASE v2 = 0
    <3>1. v1 = [i \in Dataset!Inodes |-> IF i = 1 THEN u ELSE u]
      BY <1>1, <1>10, <2>1
    <3> QED
      BY <1>11, <2>1, <3>1, MarksAre
  <2>2. CASE v2 # 0
    <3>1. PICK S \in DatasetSeeds :
            v1 = [i \in Dataset!Inodes |->
                    IF i = 1 THEN Dataset!Whole({Dataset!Problem(0, s[1], s[2], s[3]) : s \in S})
                             ELSE Dataset!Unused]
      BY <1>1, <2>2
    <3>2. PICK P : P = {Dataset!Problem(0, s[1], s[2], s[3]) : s \in S}
      OBVIOUS
    <3>3. ProblemsFit(P) /\ \A p \in P : p.by = 0
      BY <3>2, SeedsFit
    <3>4. PICK w : w = Dataset!Whole(P)
      OBVIOUS
    <3>5. w = [state |-> "whole", of |-> P]
      BY <3>4, MarksAre
    <3>6. v1 = [i \in Dataset!Inodes |-> IF i = 1 THEN w ELSE u]
      BY <1>10, <3>1, <3>2, <3>4
    <3>7. /\ w = [state |-> w.state, of |-> w.of] /\ ProblemsFit(w.of) /\ w.state = "whole"
          /\ \A p \in w.of : p.by = 0
      BY <3>3, <3>5
    <3>8. w # u
      BY <1>11, <3>7
    <3> QED
      BY <2>2, <3>6, <3>7, <3>8
  <2> QED
    BY <2>1, <2>2
<1>13. \A i \in Dataset!Inodes : v1[i] = IF i = 1 THEN w ELSE u
  BY <1>12
<1>14. FilesFitIn(v1, v2, v3)
  <2>1. \A i \in Dataset!Inodes : v1[i] = [state |-> v1[i].state, of |-> v1[i].of]
    BY <1>11, <1>12, <1>13
  <2>2. v1 = [i \in Dataset!Inodes |-> v1[i]]
    BY <1>12
  <2>3. v1 = [i \in Dataset!Inodes |-> [state |-> v1[i].state, of |-> v1[i].of]]
    BY <2>1, <2>2
  <2>4. \A i \in Dataset!Inodes : ProblemsFit(v1[i].of) /\ (~IsUsed(v1, i) => v1[i] = Dataset!Unused)
    BY <1>10, <1>11, <1>12, <1>13, MarksAre DEF IsUsed
  <2>5. v2 \in {0, 1} /\ (v2 # 0 => IsUsed(v1, v2))
    BY <1>1, <1>9, <1>12, <1>13 DEF IsUsed
  <2> QED
    BY <1>1, <1>9, <2>3, <2>4, <2>5 DEF FilesFitIn
<1>15. UsesFit(v1, v4)
  BY <1>11, <1>13 DEF UsesFit, IsUsed
<1>16. TornFits(v1, v2, v4)
  BY <1>1, <1>9, <1>12, <1>13 DEF TornFits
<1>17. NamesAreNew(v1, v4)
  <2> SUFFICES ASSUME NEW c \in DatasetCommands
               PROVE  /\ \A i \in Dataset!Inodes : NotBy(c, v1[i].of)
                      /\ \A d \in DatasetCommands : NotBy(c, v4[d].seen) /\ NotBy(c, v4[d].final)
    BY DEF NamesAreNew
  <2>1. c # 0
    BY DEF CommandsAreGiven
  <2>2. \A i \in Dataset!Inodes : \A p \in v1[i].of : p.by = 0
    BY <1>11, <1>12, <1>13
  <2> QED
    BY <1>3, <1>8, <2>1, <2>2 DEF NotBy
<1> QED
  BY <1>1, <1>2, <1>6, <1>7, <1>8, <1>14, <1>15, <1>16, <1>17 DEF DataFits

LEMMA DataGives ==
  ASSUME DataFits
  PROVE  Dataset!DatasetIsKept
<1>1. \A c \in DatasetCommands : CommandFits(v4[c]) /\ AloneFinds(v4[c], v1, v2, v3)
  BY CommandOf
<1>2. Dataset!TornIsExplained
  BY DEF DataFits, TornFits, Explains, Dataset!TornIsExplained, Dataset!NoFile
<1>3. \A S : Dataset!Whole(S).state = "whole" /\ Dataset!Whole(S).of = S
  BY MarksAre
<1>4. Dataset!ImportIsKept
  <2> SUFFICES ASSUME NEW c \in DatasetCommands, NEW m, m = v4[c], m.pc = "replaced", m.alone,
                      NEW S, S = v1[v2].of
               PROVE  /\ v1[v2].state = "whole"
                      /\ \A o \in m.seen : o \in S \/ \E n \in m.over : n.key = o.key
                      /\ m.successful \subseteq S /\ S \subseteq m.seen \cup m.new
                      /\ Dataset!UniqueKeys(m.seen) /\ Dataset!UniqueKeys(m.new)
                           => Dataset!UniqueKeys(S)
    BY DEF Dataset!ImportIsKept
  <2>1. CommandFits(m) /\ AloneFinds(m, v1, v2, v3)
    BY <1>1
  <2>2. v1[v2] = Dataset!Whole(m.final)
    BY <2>1 DEF AloneFinds
  <2>3. ImportKeeps(m)
    BY <2>1 DEF CommandFits
  <2>4. S = m.final /\ v1[v2].state = "whole"
    BY <1>3, <2>2
  <2> QED
    BY <2>3, <2>4 DEF ImportKeeps
<1>5. Dataset!MergeIsKept
  <2> SUFFICES ASSUME NEW c \in DatasetCommands, NEW m, m = v4[c], m.pc = "merged", m.alone,
                      NEW S, S = v1[v2].of
               PROVE  /\ v1[v2].state = "whole"
                      /\ \A o \in m.seen : Dataset!Cardinality({p \in S :
                           Dataset!Name(p) = Dataset!Name(o) \/ Dataset!Name(o) \in p.had}) = 1
    BY DEF Dataset!MergeIsKept
  <2>1. CommandFits(m) /\ AloneFinds(m, v1, v2, v3)
    BY <1>1
  <2>2. v1[v2] = Dataset!Whole(m.final)
    BY <2>1 DEF AloneFinds
  <2>3. EachOnce(m.seen, S) /\ v1[v2].state = "whole"
    BY <1>3, <2>1, <2>2 DEF CommandFits
  <2>4. ASSUME NEW o \in m.seen
        PROVE  Dataset!Cardinality({p \in S :
                 Dataset!Name(p) = Dataset!Name(o) \/ Dataset!Name(o) \in p.had}) = 1
    <3>1. PICK p \in S : Tells(S, o) = {p}
      BY <2>3 DEF EachOnce
    <3>2. Cardinality({p}) = 1
      BY FS_Singleton
    <3>3. Cardinality(Tells(S, o)) = 1
      BY <3>1, <3>2
    <3>4. Dataset!Cardinality(Tells(S, o)) = Cardinality(Tells(S, o))
      BY DEF Dataset!Cardinality, Cardinality
    <3> QED
      BY <3>3, <3>4 DEF Tells
  <2> QED
    BY <2>3, <2>4
<1>6. Dataset!FailureIsHarmless
  <2> SUFFICES ASSUME NEW c \in DatasetCommands, v4[c].pc = "failed", v4[c].kind # "merge",
                      v4[c].alone
               PROVE  IF v2 = 0 THEN v4[c].seen = {} ELSE Dataset!Loaded(v1[v2].of) = v4[c].seen
    BY DEF Dataset!FailureIsHarmless, Dataset!NoFile
  <2>1. AsRead(v4[c], v1, v2)
    BY <1>1 DEF AloneFinds
  <2> QED
    BY <2>1 DEF AsRead
<1> QED
  BY <1>2, <1>4, <1>5, <1>6 DEF Dataset!DatasetIsKept

---------------------------------------------------------------------------
(* The account of the owner *)

Statuses == {"none", "pending", "running", "paused", "ended"}
UserProcs == [pc : {"idle", "rotate", "reserve", "insert", "refused"}, token : 0 .. MaxTokens,
              day : 0 .. MaxDay, task : Tasks \cup {"none"}]

UserTyped ==
  /\ v1 \in [hash : 0 .. MaxTokens, revoked : BOOLEAN] /\ v2 \in [0 .. MaxTokens -> Nat]
  /\ v3 \in 0 .. MaxDay /\ v4 \in [daily : [0 .. MaxDay -> Nat], month : Nat]
  /\ v6 \in Nat /\ v7 \in [Tasks -> Statuses]
  /\ v9 \in [Requests -> UserProcs]

(* The calls of a day.                                                     *)
CallsOf(made, d) == {c \in made : c[1] = d}

(* Each admitted call has a number of its own.                             *)
Numbered == /\ IsFiniteSet(v5) /\ v5 \in SUBSET ((0 .. MaxDay) \X Nat)
            /\ \A c \in v5 : c[2] < Cardinality(v5)

(* Who is about to insert has counted under the lock, and nobody has taken *)
(* it since.                                                               *)
RoomIsHeld == \A p \in Requests :
  v9[p].pc = "insert" => v8 = p /\ Cardinality(User!Alive) < LiveLimit

UserHolds == User!TokenIsSpentOnce /\ User!QuotaIsKept /\ User!CapacityIsKept

UserInv == part = "user" => UserTyped /\ Numbered /\ RoomIsHeld /\ UserHolds

LimitsAreGiven ==
  /\ DayLimit \in Nat /\ MonthLimit \in Nat /\ RateLimit \in Nat /\ LiveLimit \in Nat
  /\ MaxTokens \in Nat /\ MaxDay \in Nat /\ IsFiniteSet(Tasks) /\ "nobody" \notin Requests

(* One cardinality.                                                        *)
LEMMA UserCounts == \A S : User!Cardinality(S) = Cardinality(S)
  BY DEF User!Cardinality, Cardinality

(* A counter is raised.                                                    *)
LEMMA Raised ==
  ASSUME NEW S, NEW f \in [S -> Nat], NEW x \in S
  PROVE  [f EXCEPT ![x] = @ + 1] \in [S -> Nat]
  OBVIOUS

LEMMA UserIdle ==
  ASSUME LimitsAreGiven
  PROVE  User!Idle \in UserProcs /\ User!Idle.pc = "idle"
  BY DEF User!Idle, UserProcs, LimitsAreGiven

(* What a statement does to the request it belongs to.                     *)
Becomes(p, r) == p \in Requests /\ r \in UserProcs /\ v9' = [v9 EXCEPT ![p] = r]

LEMMA UserTurn ==
  ASSUME NEW p, NEW r, Becomes(p, r), v9 \in [Requests -> UserProcs]
  PROVE  /\ v9' \in [Requests -> UserProcs] /\ v9'[p] = r
         /\ \A q \in Requests : q # p => v9'[q] = v9[q]
  BY DEF Becomes

(* The session: a token that is shown is exchanged only while it is the    *)
(* one on file.                                                            *)
LEMMA UserSession ==
  ASSUME LimitsAreGiven, UserTyped, User!TokenIsSpentOnce,
         NEW p \in Requests, User!Rotate(p)
  PROVE  /\ v1' \in [hash : 0 .. MaxTokens, revoked : BOOLEAN] /\ v2' \in [0 .. MaxTokens -> Nat]
         /\ User!TokenIsSpentOnce'
<1>1. CASE User!Rotates(v9[p].token)
  <2>1. v1' = [v1 EXCEPT !.hash = @ + 1] /\ v1.hash < MaxTokens
        /\ v2' = [v2 EXCEPT ![v1.hash] = @ + 1]
    BY <1>1 DEF User!Rotate, User!Rotates
  <2>2. v1.hash \in 0 .. MaxTokens /\ v1.hash + 1 \in 0 .. MaxTokens /\ v1'.hash = v1.hash + 1
    BY <2>1 DEF UserTyped, LimitsAreGiven
  <2>3. v1' \in [hash : 0 .. MaxTokens, revoked : BOOLEAN]
    BY <2>1, <2>2 DEF UserTyped
  <2>4. \A t \in 0 .. MaxTokens : v2'[t] = IF t = v1.hash THEN v2[t] + 1 ELSE v2[t]
    BY <2>1 DEF UserTyped
  <2>5. v2' \in [0 .. MaxTokens -> Nat]
    BY <2>1 DEF UserTyped
  <2>6. \A t \in 0 .. MaxTokens : v2'[t] = IF t < v1'.hash THEN 1 ELSE 0
    BY <2>2, <2>4 DEF User!TokenIsSpentOnce, LimitsAreGiven
  <2> QED
    BY <2>3, <2>5, <2>6 DEF User!TokenIsSpentOnce
<1>2. CASE ~User!Rotates(v9[p].token)
  BY <1>2 DEF User!Rotate, User!sessionPart, UserTyped, User!TokenIsSpentOnce
<1> QED
  BY <1>1, <1>2

(* The quota: the row of the day and the row of the month are written with *)
(* the call they count.                                                    *)
LEMMA UserQuota ==
  ASSUME LimitsAreGiven, UserTyped, Numbered, User!QuotaIsKept,
         NEW p \in Requests, User!Reserve(p)
  PROVE  v4' \in [daily : [0 .. MaxDay -> Nat], month : Nat] /\ Numbered' /\ User!QuotaIsKept'
<1>1. CASE UNCHANGED <<v4, v5, v6>>
  BY <1>1 DEF UserTyped, Numbered, User!QuotaIsKept
<1>2. CASE ~UNCHANGED <<v4, v5, v6>>
  <2> DEFINE c == <<v3, Cardinality(v5)>>
  <2>1. /\ v4' = [v4 EXCEPT !.daily[v3] = @ + 1, !.month = @ + 1]
        /\ v5' = v5 \cup {c} /\ v6' = v6
        /\ v4.daily[v3] < DayLimit /\ v4.month < MonthLimit
    BY <1>2, UserCounts DEF User!Reserve, User!Period, UserTyped, LimitsAreGiven
  <2>2. /\ v4'.month = v4.month + 1
        /\ v4'.daily = [v4.daily EXCEPT ![v3] = @ + 1]
        /\ v4' \in [daily : [0 .. MaxDay -> Nat], month : Nat]
    <3>1. /\ v4.month \in Nat /\ v4.daily \in [0 .. MaxDay -> Nat]
          /\ v4 = [daily |-> v4.daily, month |-> v4.month]
      BY DEF UserTyped
    <3>2. v4' = [daily |-> [v4.daily EXCEPT ![v3] = @ + 1], month |-> v4.month + 1]
      <4> DEFINE daily == v4.daily
                 month == v4.month
      <4>1. v4 = [daily |-> daily, month |-> month]
        BY <3>1
      <4> HIDE DEF daily, month
      <4>2. v4' = [[daily |-> daily, month |-> month] EXCEPT !.daily[v3] = @ + 1, !.month = @ + 1]
        BY <2>1, <4>1
      <4>3. v4' = [daily |-> [daily EXCEPT ![v3] = @ + 1], month |-> month + 1]
        BY <4>2
      <4> QED
        BY <4>3 DEF daily, month
    <3>3. [v4.daily EXCEPT ![v3] = @ + 1] \in [0 .. MaxDay -> Nat]
      BY <3>1, Raised DEF UserTyped
    <3> DEFINE daily == [v4.daily EXCEPT ![v3] = @ + 1]
    <3>4. v4' = [daily |-> daily, month |-> v4.month + 1] /\ daily \in [0 .. MaxDay -> Nat]
      BY <3>2, <3>3
    <3>5. daily = [v4.daily EXCEPT ![v3] = @ + 1]
      OBVIOUS
    <3> HIDE DEF daily
    <3>6. v4'.daily = daily /\ v4'.month = v4.month + 1
      BY <3>4
    <3> QED
      BY <3>1, <3>4, <3>5, <3>6
  <2>3. \A d \in 0 .. MaxDay : v4'.daily[d] = IF d = v3 THEN v4.daily[d] + 1 ELSE v4.daily[d]
    BY <2>2 DEF UserTyped
  <2>4. Cardinality(v5) \in Nat
    BY FS_CardinalityType DEF Numbered
  <2>5. c \notin v5 /\ \A d : c \notin CallsOf(v5, d)
    BY <2>4 DEF Numbered, CallsOf
  <2>6. IsFiniteSet(v5') /\ Cardinality(v5') = Cardinality(v5) + 1
    <3> HIDE DEF c
    <3> QED
      BY <2>1, <2>5, FS_AddElement DEF Numbered
  <2>7. \A d : IsFiniteSet(CallsOf(v5, d))
    BY FS_Subset DEF Numbered, CallsOf
  <2>8. \A d \in 0 .. MaxDay : Cardinality(CallsOf(v5', d)) = IF d = v3 THEN Cardinality(CallsOf(v5, d)) + 1
                                                                       ELSE Cardinality(CallsOf(v5, d))
    <3> SUFFICES ASSUME NEW d \in 0 .. MaxDay
                 PROVE  Cardinality(CallsOf(v5', d)) = IF d = v3 THEN Cardinality(CallsOf(v5, d)) + 1
                                                                   ELSE Cardinality(CallsOf(v5, d))
      OBVIOUS
    <3>1. CallsOf(v5', d) = IF d = v3 THEN CallsOf(v5, d) \cup {c} ELSE CallsOf(v5, d)
      BY <2>1 DEF CallsOf
    <3> HIDE DEF c
    <3> QED
      BY <3>1, <2>5, <2>7, FS_AddElement
  <2>10. \A d \in 0 .. MaxDay :
           Cardinality(CallsOf(v5, d)) = v4.daily[d] /\ v4.daily[d] <= DayLimit
    BY UserCounts DEF User!QuotaIsKept, CallsOf
  <2>11. \A d \in 0 .. MaxDay :
           Cardinality(CallsOf(v5', d)) = v4'.daily[d] /\ v4'.daily[d] <= DayLimit
    <3>1. \A d \in 0 .. MaxDay : v4.daily[d] \in Nat
      BY DEF UserTyped
    <3> QED
      BY <3>1, <2>1, <2>3, <2>8, <2>10 DEF LimitsAreGiven
  <2>12. Cardinality(v5') = v4'.month /\ v4'.month <= MonthLimit
    <3>1. v4.month \in Nat
      BY DEF UserTyped
    <3> QED
      BY <3>1, <2>1, <2>2, <2>6, UserCounts DEF User!QuotaIsKept, LimitsAreGiven
  <2>13. Numbered'
    <3>1. c[2] = Cardinality(v5) /\ c \in (0 .. MaxDay) \X Nat
      BY <2>4 DEF UserTyped
    <3>2. v5' = v5 \cup {c}
      BY <2>1
    <3> HIDE DEF c
    <3>3. \A e \in v5' : e[2] = Cardinality(v5) \/ e[2] < Cardinality(v5)
      BY <3>1, <3>2 DEF Numbered
    <3>4. v5' \in SUBSET ((0 .. MaxDay) \X Nat)
      BY <3>1, <3>2 DEF Numbered
    <3>5. \A e \in v5' : e[2] \in Nat
      BY <3>4
    <3>6. \A e \in v5' : e[2] < Cardinality(v5) + 1
      BY <2>4, <3>3, <3>5
    <3> QED
      BY <2>6, <3>4, <3>6 DEF Numbered
  <2> QED
    BY <2>1, <2>2, <2>11, <2>12, <2>13, UserCounts DEF User!QuotaIsKept, CallsOf
<1> QED
  BY <1>1, <1>2

(* Capacity: a row is inserted only by who holds the lock and has seen room.*)
LEMMA UserLive ==
  ASSUME LimitsAreGiven, UserTyped, RoomIsHeld, User!CapacityIsKept,
         UserTyped', User!Alive' \subseteq User!Alive,
         \A p \in Requests : v9'[p].pc = "insert" =>
           \/ v9[p].pc = "insert" /\ v8' = v8
           \/ v8' = p /\ Cardinality(User!Alive) < LiveLimit /\ v8 = "nobody"
  PROVE  RoomIsHeld' /\ User!CapacityIsKept'
<1>1. IsFiniteSet(User!Alive)
  BY FS_Subset DEF User!Alive, LimitsAreGiven
<1>2. /\ Cardinality(User!Alive') <= Cardinality(User!Alive)
      /\ Cardinality(User!Alive) \in Nat /\ Cardinality(User!Alive') \in Nat
  BY <1>1, FS_Subset, FS_CardinalityType
<1>3. User!CapacityIsKept'
  BY <1>2, UserCounts DEF User!CapacityIsKept, LimitsAreGiven
<1>4. RoomIsHeld'
  BY <1>2 DEF RoomIsHeld, LimitsAreGiven
<1> QED
  BY <1>3, <1>4

LEMMA UserInserts ==
  ASSUME LimitsAreGiven, UserTyped, RoomIsHeld, User!CapacityIsKept, UserTyped',
         NEW p \in Requests, v9[p].pc = "insert", v9'[p].pc = "idle", NEW t \in Tasks,
         v7' = [v7 EXCEPT ![t] = "pending"],
         \A q \in Requests : q # p => v9'[q] = v9[q]
  PROVE  RoomIsHeld' /\ User!CapacityIsKept'
<1>1. IsFiniteSet(User!Alive)
  BY FS_Subset DEF User!Alive, LimitsAreGiven
<1>2. Cardinality(User!Alive) \in Nat /\ Cardinality(User!Alive) < LiveLimit /\ v8 = p
  BY <1>1, FS_CardinalityType DEF RoomIsHeld
<1>3. User!Alive' = User!Alive \cup {t}
  BY DEF User!Alive, UserTyped
<1>4. Cardinality(User!Alive') <= LiveLimit
  <2>1. Cardinality(User!Alive') = Cardinality(User!Alive)
        \/ Cardinality(User!Alive') = Cardinality(User!Alive) + 1
    BY <1>1, <1>3, FS_AddElement
  <2> QED
    BY <1>2, <2>1 DEF LimitsAreGiven
<1>5. \A q \in Requests : v9'[q].pc # "insert"
  BY <1>2 DEF RoomIsHeld
<1> QED
  BY <1>4, <1>5, UserCounts DEF RoomIsHeld, User!CapacityIsKept

(* Every statement, with what it leaves alone.                             *)
LEMMA UserNext ==
  ASSUME LimitsAreGiven, UserTyped, Numbered, RoomIsHeld, UserHolds, User!Next
  PROVE  UserTyped' /\ Numbered' /\ RoomIsHeld' /\ UserHolds'
<1> USE DEF UserHolds
<1>u. /\ UNCHANGED <<v1, v2>> => User!TokenIsSpentOnce'
      /\ UNCHANGED <<v4, v5, v6>> => Numbered' /\ User!QuotaIsKept'
  BY DEF User!TokenIsSpentOnce, User!QuotaIsKept, Numbered
<1>l. ASSUME UserTyped', UNCHANGED <<v7, v8>>,
             \A q \in Requests : v9'[q].pc = "insert" => v9[q].pc = "insert"
      PROVE  RoomIsHeld' /\ User!CapacityIsKept'
  <2>1. User!Alive' = User!Alive
    BY <1>l DEF User!Alive
  <2> QED
    BY <1>l, <2>1, UserLive
<1>1. CASE User!Logout
  <2>1. v1' \in [hash : 0 .. MaxTokens, revoked : BOOLEAN] /\ v1'.hash = v1.hash
        /\ UNCHANGED <<v2, v3, v4, v5, v6, v7, v8, v9>>
    BY <1>1 DEF User!Logout, User!quotaPart, User!livePart, UserTyped
  <2>2. UserTyped'
    BY <2>1 DEF UserTyped
  <2>3. User!TokenIsSpentOnce'
    BY <2>1 DEF User!TokenIsSpentOnce
  <2> QED
    BY <1>u, <1>l, <2>1, <2>2, <2>3
<1>2. CASE User!Allow \/ User!NextWindow \/ User!Midnight
  <2>1. UNCHANGED <<v1, v2, v4, v5, v7, v8, v9>> /\ v3' \in 0 .. MaxDay
        /\ v6' \in Nat /\ (v6' <= RateLimit \/ v6' = v6)
    BY <1>2 DEF User!Allow, User!NextWindow, User!Midnight, User!sessionPart, User!quotaPart,
                User!livePart, UserTyped, LimitsAreGiven
  <2>2. UserTyped'
    BY <2>1 DEF UserTyped
  <2>3. Numbered' /\ User!QuotaIsKept'
    BY <2>1 DEF Numbered, User!QuotaIsKept
  <2> QED
    BY <1>u, <1>l, <2>1, <2>2, <2>3
<1>3. ASSUME NEW t \in Tasks, User!Move(t)
      PROVE  UserTyped' /\ Numbered' /\ RoomIsHeld' /\ UserHolds'
  <2>1. PICK s \in {"running", "paused", "ended"} :
          /\ v7' = [v7 EXCEPT ![t] = s] /\ (s = "running" => v7[t] = "pending")
          /\ UNCHANGED <<v1, v2, v3, v4, v5, v6, v8, v9>>
    BY <1>3 DEF User!Move, User!sessionPart, User!quotaPart
  <2>2. UserTyped'
    BY <2>1 DEF UserTyped, Statuses
  <2>3. User!Alive' \subseteq User!Alive
    BY <2>1 DEF User!Alive, UserTyped
  <2>4. RoomIsHeld' /\ User!CapacityIsKept'
    BY <2>1, <2>2, <2>3, UserLive
  <2> QED
    BY <1>u, <2>1, <2>2, <2>4
<1>4. ASSUME NEW p \in Requests, User!ShowToken(p) \/ User!AskCall(p)
      PROVE  UserTyped' /\ Numbered' /\ RoomIsHeld' /\ UserHolds'
  <2>1. UNCHANGED <<v1, v2, v3, v4, v5, v6, v7, v8>>
    BY <1>4 DEF User!ShowToken, User!AskCall, User!sessionPart, User!quotaPart, User!livePart
  <2>2. PICK r \in UserProcs : Becomes(p, r) /\ r.pc # "insert"
    <3>1. CASE User!AskCall(p)
      <4>1. [User!Idle EXCEPT !.pc = "reserve", !.day = v3] \in UserProcs
        BY UserIdle DEF UserProcs, UserTyped
      <4> QED
        BY <3>1, <4>1, UserIdle DEF User!AskCall, Becomes, UserProcs
    <3>2. CASE User!ShowToken(p)
      <4>1. PICK t \in 0 .. v1.hash :
              v9' = [v9 EXCEPT ![p] = [User!Idle EXCEPT !.pc = "rotate", !.token = t]]
        BY <3>2 DEF User!ShowToken
      <4>2. t \in 0 .. MaxTokens
        BY DEF UserTyped, LimitsAreGiven
      <4>3. [User!Idle EXCEPT !.pc = "rotate", !.token = t] \in UserProcs
        BY <4>2, UserIdle DEF UserProcs
      <4> QED
        BY <4>1, <4>3, UserIdle DEF Becomes, UserProcs
    <3> QED
      BY <1>4, <3>1, <3>2
  <2>3. /\ v9' \in [Requests -> UserProcs] /\ v9'[p] = r
        /\ \A q \in Requests : q # p => v9'[q] = v9[q]
    BY <2>2, UserTurn DEF UserTyped
  <2>4. UserTyped'
    BY <2>1, <2>3 DEF UserTyped
  <2> QED
    BY <1>u, <1>l, <2>1, <2>2, <2>3, <2>4
<1>5. ASSUME NEW p \in Requests, Becomes(p, User!Idle)
      PROVE  /\ v9' \in [Requests -> UserProcs] /\ v9'[p].pc = "idle"
             /\ \A q \in Requests : q # p => v9'[q] = v9[q]
  BY <1>5, UserTurn, UserIdle DEF UserTyped
<1>6. ASSUME NEW p \in Requests, User!Rotate(p)
      PROVE  UserTyped' /\ Numbered' /\ RoomIsHeld' /\ UserHolds'
  <2>1. UNCHANGED <<v3, v4, v5, v6, v7, v8>> /\ Becomes(p, User!Idle)
    BY <1>6, UserIdle DEF User!Rotate, User!Over, User!quotaPart, User!livePart, Becomes
  <2>2. UserTyped' /\ User!TokenIsSpentOnce'
    BY <1>5, <1>6, <2>1, UserSession DEF UserTyped
  <2> QED
    BY <1>u, <1>l, <1>5, <2>1, <2>2
<1>7. ASSUME NEW p \in Requests, User!Reserve(p)
      PROVE  UserTyped' /\ Numbered' /\ RoomIsHeld' /\ UserHolds'
  <2>1. UNCHANGED <<v1, v2, v3, v6, v7, v8>> /\ Becomes(p, User!Idle)
    BY <1>7, UserIdle DEF User!Reserve, User!Over, User!sessionPart, User!livePart, Becomes
  <2>2. UserTyped' /\ Numbered' /\ User!QuotaIsKept'
    BY <1>5, <1>7, <2>1, UserQuota DEF UserTyped
  <2> QED
    BY <1>u, <1>l, <1>5, <2>1, <2>2
<1>8. ASSUME NEW p \in Requests, User!Count(p)
      PROVE  UserTyped' /\ Numbered' /\ RoomIsHeld' /\ UserHolds'
  <2>1. PICK t \in Tasks :
          /\ v8 = "nobody" /\ v8' = p
          /\ v9' = [v9 EXCEPT ![p] = [User!Idle EXCEPT !.task = t,
                     !.pc = IF Cardinality(User!Alive) >= LiveLimit THEN "refused" ELSE "insert"]]
          /\ UNCHANGED <<v1, v2, v3, v4, v5, v6, v7>>
    BY <1>8, UserCounts DEF User!Count, User!TakesLock, User!sessionPart, User!quotaPart
  <2>2. PICK r \in UserProcs :
          Becomes(p, r) /\ (r.pc = "insert" => ~(Cardinality(User!Alive) >= LiveLimit))
    <3>1. ASSUME NEW pc \in {"refused", "insert"}
          PROVE  /\ [User!Idle EXCEPT !.task = t, !.pc = pc] \in UserProcs
                 /\ [User!Idle EXCEPT !.task = t, !.pc = pc].pc = pc
      BY UserIdle DEF UserProcs
    <3> QED
      BY <2>1, <3>1 DEF Becomes
  <2>3. /\ v9' \in [Requests -> UserProcs] /\ v9'[p] = r
        /\ \A q \in Requests : q # p => v9'[q] = v9[q]
    BY <2>2, UserTurn DEF UserTyped
  <2>4. UserTyped'
    BY <2>1, <2>3 DEF UserTyped
  <2>5. User!Alive' = User!Alive
    BY <2>1 DEF User!Alive
  <2>6. Cardinality(User!Alive) \in Nat
    BY FS_Subset, FS_CardinalityType DEF User!Alive, LimitsAreGiven
  <2>7. \A q \in Requests : v9[q].pc # "insert"
    BY <2>1 DEF RoomIsHeld, LimitsAreGiven
  <2>8. RoomIsHeld' /\ User!CapacityIsKept'
    BY <2>1, <2>2, <2>3, <2>4, <2>5, <2>6, <2>7, UserLive DEF LimitsAreGiven
  <2> QED
    BY <1>u, <2>1, <2>4, <2>8
<1>9. ASSUME NEW p \in Requests, User!Insert(p)
      PROVE  UserTyped' /\ Numbered' /\ RoomIsHeld' /\ UserHolds'
  <2>1. /\ UNCHANGED <<v1, v2, v3, v4, v5, v6>> /\ Becomes(p, User!Idle)
        /\ v8' = IF v8 = p THEN "nobody" ELSE v8
        /\ \/ v7' = v7
           \/ /\ v9[p].pc = "insert" /\ v7[v9[p].task] \in {"none", "paused"}
              /\ v7' = [v7 EXCEPT ![v9[p].task] = "pending"]
    BY <1>9, UserIdle DEF User!Insert, User!Over, User!Unlock, User!sessionPart,
                          User!quotaPart, Becomes
  <2>2. /\ v9' \in [Requests -> UserProcs] /\ v9'[p].pc = "idle"
        /\ \A q \in Requests : q # p => v9'[q] = v9[q]
    BY <2>1, <1>5
  <2>3. UserTyped'
    BY <2>1, <2>2 DEF UserTyped, Statuses
  <2>4. CASE v7' = v7
    <3>1. User!Alive' = User!Alive
      BY <2>4 DEF User!Alive
    <3>2. \A q \in Requests : v9'[q].pc = "insert" => v9[q].pc = "insert" /\ v8' = v8
      BY <2>1, <2>2 DEF RoomIsHeld
    <3> QED
      BY <1>u, <2>1, <2>3, <3>1, <3>2, UserLive
  <2>5. ASSUME v7' # v7, v9[p].task \in Tasks PROVE RoomIsHeld' /\ User!CapacityIsKept'
    BY <2>1, <2>2, <2>3, <2>5, UserInserts
  <2>6. ASSUME v9[p].task \notin Tasks PROVE v7' = v7
    BY <2>1, <2>6 DEF UserTyped
  <2> QED
    BY <1>u, <2>1, <2>3, <2>4, <2>5, <2>6
<1> QED
  BY <1>1, <1>2, <1>3, <1>4, <1>6, <1>7, <1>8, <1>9 DEF User!Next

---------------------------------------------------------------------------
(* The provider keys *)

KeyAskers ==
  [pc : {"idle", "rename", "replace", "drop", "shown", "check", "record", "list", "pages",
         "recheck"},
   seen : Nat, used : Nat, ok : BOOLEAN, got : Nat, complete : BOOLEAN,
   answer : {"none", "missing", "edited", "deleted", "checked", "unavailable", "listed",
             "conflict"}]

KeysTyped ==
  /\ v1 \in [cipher : Nat, verified : BOOLEAN, checks : Nat] /\ v2 \in Nat
  /\ v4 \in [Askers -> KeyAskers] /\ v5 \in {"plain", "cursor"}
  /\ v1.cipher <= v2

(* A secret on file is never older than one that was seen or used, unless  *)
(* the key is gone for good; a check that succeeded used an accepted one;  *)
(* and a complete list is whole.                                           *)
OnFile(c) == c \in 1 .. v2 /\ (v1.cipher = 0 \/ c <= v1.cipher)

Fair(r) ==
  /\ r.pc \in {"rename", "replace", "drop", "check", "list", "record", "pages", "recheck"} =>
       OnFile(r.seen)
  /\ r.pc = "record" /\ r.ok => OnFile(r.used) /\ r.seen <= r.used /\ r.used \in v3
  /\ r.pc \in {"list", "pages", "recheck"} => r.got <= Catalog
  /\ r.pc \in {"pages", "recheck"} => OnFile(r.used) /\ r.seen <= r.used
  /\ r.pc = "recheck" /\ r.complete => r.got = Catalog
  /\ r.answer = "listed" => r.pc = "idle" /\ r.used = r.seen /\ (r.complete => r.got = Catalog)

KeysAreFair == \A p \in Askers : Fair(v4[p])

KeysInv == part = "keys" => KeysTyped /\ KeysAreFair /\ Keyring!VerifiedIsAccepted

ListsAreGiven == PageOf \in Nat /\ MaxListed \in Nat /\ Catalog \in Nat

(* What was on file for a request stays so, whatever the others do.        *)
Ages == /\ v2' \in Nat /\ v2 <= v2' /\ v3 \subseteq v3'
        /\ \/ v1'.cipher = v1.cipher
           \/ v1'.cipher = 0
           \/ v1'.cipher = v2' /\ (v1.cipher # 0 \/ v2 = 0)

LEMMA FairAges ==
  ASSUME KeysTyped, Ages, NEW r \in KeyAskers, Fair(r)
  PROVE  Fair(r)'
<1>1. \A c : OnFile(c) => OnFile(c)'
  BY DEF OnFile, Ages, KeysTyped
<1> QED
  BY <1>1 DEF Fair, Ages

LEMMA KeysTurn ==
  ASSUME KeysTyped, KeysAreFair, NEW p \in Askers, NEW r \in KeyAskers,
         v4' = [v4 EXCEPT ![p] = r], Ages, v5' = v5,
         v1' \in [cipher : Nat, verified : BOOLEAN, checks : Nat], v1'.cipher <= v2', Fair(r)'
  PROVE  KeysTyped' /\ KeysAreFair'
<1>1. \A q \in Askers : v4'[q] = IF q = p THEN r ELSE v4[q]
  BY DEF KeysTyped
<1>2. v4' \in [Askers -> KeyAskers]
  BY DEF KeysTyped
<1>3. \A q \in Askers : Fair(v4[q])'
  <2> SUFFICES ASSUME NEW q \in Askers PROVE Fair(v4[q])'
    OBVIOUS
  <2>1. CASE q = p
    BY <1>1, <2>1 DEF Fair, OnFile
  <2>2. CASE q # p
    <3>1. v4[q] \in KeyAskers /\ Fair(v4[q])
      BY DEF KeysTyped, KeysAreFair
    <3> DEFINE s == v4[q]
    <3>2. s \in KeyAskers /\ Fair(s) /\ v4'[q] = s
      BY <1>1, <2>2, <3>1
    <3> QED
      BY <3>1, <1>1, <2>2, FairAges DEF Fair, OnFile
  <2> QED
    BY <2>1, <2>2
<1> QED
  BY <1>2, <1>3 DEF KeysTyped, KeysAreFair, Ages

LEMMA KeysRest ==
  Keyring!AtRest = [pc |-> "idle", seen |-> 0, used |-> 0, ok |-> FALSE, got |-> 0,
                    answer |-> "none", complete |-> FALSE]
  BY DEF Keyring!AtRest

(* Requests that only read leave the key as it is.                         *)
LEMMA KeysRead ==
  ASSUME KeysTyped, KeysAreFair, Keyring!VerifiedIsAccepted, NEW p \in Askers,
         NEW r \in KeyAskers, v4' = [v4 EXCEPT ![p] = r], UNCHANGED <<v1, v2, v3, v5>>, Fair(r)
  PROVE  KeysTyped' /\ KeysAreFair' /\ Keyring!VerifiedIsAccepted'
<1>1. Ages /\ v1'.cipher <= v2' /\ v1' \in [cipher : Nat, verified : BOOLEAN, checks : Nat]
  BY DEF Ages, KeysTyped
<1>2. Fair(r)'
  BY <1>1, FairAges
<1> QED
  BY <1>1, <1>2, KeysTurn DEF Keyring!VerifiedIsAccepted

(* A request that is over, or shows what it edited, holds nothing.         *)
Over(r) == r \in KeyAskers /\ r.pc \in {"idle", "shown"} /\ r.answer # "listed"

LEMMA OverIsFair ==
  ASSUME NEW r, Over(r)
  PROVE  r \in KeyAskers /\ Fair(r) /\ Fair(r)'
  BY DEF Over, Fair

Replies == {"none", "missing", "edited", "deleted", "checked", "unavailable", "conflict"}

LEMMA OverIs ==
  /\ Over([Keyring!AtRest EXCEPT !.pc = "shown"])
  /\ \A a \in Replies : Over([Keyring!AtRest EXCEPT !.answer = a])
  /\ \A ok \in BOOLEAN : Over([Keyring!AtRest EXCEPT !.answer = "checked", !.ok = ok])
<1>1. Over([Keyring!AtRest EXCEPT !.pc = "shown"])
  BY KeysRest DEF Over, KeyAskers
<1>2. ASSUME NEW a \in Replies PROVE Over([Keyring!AtRest EXCEPT !.answer = a])
  BY KeysRest DEF Over, KeyAskers, Replies
<1>3. ASSUME NEW ok \in BOOLEAN
      PROVE  Over([Keyring!AtRest EXCEPT !.answer = "checked", !.ok = ok])
  BY KeysRest DEF Over, KeyAskers
<1> QED
  BY <1>1, <1>2, <1>3

LEMMA KeysNext ==
  ASSUME ListsAreGiven, KeysTyped, KeysAreFair, Keyring!VerifiedIsAccepted, Keyring!Next
  PROVE  KeysTyped' /\ KeysAreFair' /\ Keyring!VerifiedIsAccepted'
<1> DEFINE Goal == KeysTyped' /\ KeysAreFair' /\ Keyring!VerifiedIsAccepted'
<1>1. CASE Keyring!Add
  <2>1. /\ v1' = [cipher |-> 1, verified |-> FALSE, checks |-> 0] /\ v2 = 0 /\ v2' = 1
        /\ UNCHANGED <<v3, v4, v5>>
    BY <1>1 DEF Keyring!Add, Keyring!NoKey
  <2>2. Ages /\ KeysTyped' /\ ~v1'.verified
    BY <2>1 DEF Ages, KeysTyped
  <2>3. KeysAreFair'
    <3> SUFFICES ASSUME NEW q \in Askers PROVE Fair(v4[q])'
      BY DEF KeysAreFair
    <3>1. v4[q] \in KeyAskers /\ Fair(v4[q]) /\ v4' = v4
      BY <2>1 DEF KeysTyped, KeysAreFair
    <3> QED
      BY <3>1, <2>2, FairAges DEF Fair, OnFile
  <2> QED
    BY <2>2, <2>3 DEF Keyring!VerifiedIsAccepted
<1>2. ASSUME NEW p \in Askers, Keyring!Look(p) PROVE Goal
  <2>1. /\ UNCHANGED <<v1, v2, v3, v5>>
        /\ \/ v4' = [v4 EXCEPT ![p] = [Keyring!AtRest EXCEPT !.answer = "missing"]]
           \/ /\ v1.cipher # 0
              /\ \E what \in {"rename", "replace", "drop", "check", "list"} :
                   v4' = [v4 EXCEPT ![p] = [Keyring!AtRest EXCEPT !.pc = what, !.seen = v1.cipher]]
    BY <1>2 DEF Keyring!Look, Keyring!Gone, Keyring!Become
  <2>2. v1.cipher # 0 => OnFile(v1.cipher)
    BY DEF OnFile, KeysTyped
  <2>3. PICK r \in KeyAskers : v4' = [v4 EXCEPT ![p] = r] /\ Fair(r)
    <3>1. ASSUME v4' = [v4 EXCEPT ![p] = [Keyring!AtRest EXCEPT !.answer = "missing"]]
          PROVE  \E r \in KeyAskers : v4' = [v4 EXCEPT ![p] = r] /\ Fair(r)
      <4>1. PICK r : r = [Keyring!AtRest EXCEPT !.answer = "missing"]
        OBVIOUS
      <4>2. r \in KeyAskers /\ r.pc = "idle" /\ r.answer = "missing"
        BY <4>1, KeysRest DEF KeyAskers
      <4> QED
        BY <3>1, <4>1, <4>2 DEF Fair
    <3>2. ASSUME NEW what \in {"rename", "replace", "drop", "check", "list"}, v1.cipher # 0,
                 v4' = [v4 EXCEPT ![p] = [Keyring!AtRest EXCEPT !.pc = what, !.seen = v1.cipher]]
          PROVE  \E r \in KeyAskers : v4' = [v4 EXCEPT ![p] = r] /\ Fair(r)
      <4>1. PICK r : r = [Keyring!AtRest EXCEPT !.pc = what, !.seen = v1.cipher]
        OBVIOUS
      <4>2. r \in KeyAskers /\ r.pc = what /\ r.seen = v1.cipher /\ r.answer = "none"
            /\ r.got = 0
        BY <4>1, KeysRest DEF KeyAskers, KeysTyped
      <4>3. Fair(r)
        BY <2>2, <3>2, <4>2 DEF Fair, ListsAreGiven
      <4> QED
        BY <3>2, <4>1, <4>2, <4>3
    <3> QED
      BY <2>1, <3>1, <3>2
  <2> QED
    BY <2>1, <2>3, KeysRead
<1>3. ASSUME NEW p \in Askers, Keyring!Edit(p) PROVE Goal
  <2>1. PICK r : Over(r) /\ v4' = [v4 EXCEPT ![p] = r] /\ UNCHANGED <<v3, v5>>
    BY <1>3, OverIs DEF Keyring!Edit, Keyring!Become
  <2>2. v1' \in [cipher : Nat, verified : BOOLEAN, checks : Nat] /\ Ages /\ v1'.cipher <= v2'
        /\ (v1'.verified => v1' = v1)
    <3>1. CASE UNCHANGED <<v1, v2>>
      BY <2>1, <3>1 DEF Ages, KeysTyped
    <3>2. CASE ~UNCHANGED <<v1, v2>>
      <4>1. /\ v2' = v2 + 1
            /\ v1' = IF v1.cipher = 0 THEN v1 ELSE [v1 EXCEPT !.cipher = v2 + 1, !.verified = FALSE]
        BY <1>3, <3>2 DEF Keyring!Edit
      <4>2. CASE v1.cipher = 0
        BY <2>1, <4>1, <4>2 DEF Ages, KeysTyped
      <4>3. CASE v1.cipher # 0
        <5>1. /\ v1' \in [cipher : Nat, verified : BOOLEAN, checks : Nat]
              /\ v1'.cipher = v2 + 1 /\ ~v1'.verified
          <6>1. PICK c \in Nat, v \in BOOLEAN, n \in Nat :
                  v1 = [cipher |-> c, verified |-> v, checks |-> n]
            BY DEF KeysTyped
          <6>2. v1' = [cipher |-> v2 + 1, verified |-> FALSE, checks |-> n]
            BY <4>1, <4>3, <6>1
          <6> QED
            BY <6>2 DEF KeysTyped
        <5> QED
          BY <2>1, <4>1, <4>3, <5>1 DEF Ages, KeysTyped
      <4> QED
        BY <4>2, <4>3
    <3> QED
      BY <3>1, <3>2
  <2>3. r \in KeyAskers /\ Fair(r)'
    BY <2>1, OverIsFair
  <2>4. KeysTyped' /\ KeysAreFair'
    BY <2>1, <2>2, <2>3, KeysTurn
  <2> QED
    BY <2>1, <2>2, <2>4 DEF Keyring!VerifiedIsAccepted
<1>4. ASSUME NEW p \in Askers, Keyring!Show(p) PROVE Goal
  <2>1. PICK r : Over(r) /\ v4' = [v4 EXCEPT ![p] = r] /\ UNCHANGED <<v1, v2, v3, v5>>
    BY <1>4, OverIs DEF Keyring!Show, Keyring!Gone, Keyring!Become, Replies
  <2> QED
    BY <2>1, OverIsFair, KeysRead
<1>5. ASSUME NEW p \in Askers, Keyring!Drop(p) PROVE Goal
  <2>1. PICK r : /\ Over(r) /\ v4' = [v4 EXCEPT ![p] = r] /\ UNCHANGED <<v2, v3, v5>>
                 /\ v1' = [cipher |-> 0, verified |-> FALSE, checks |-> 0]
    BY <1>5, OverIs DEF Keyring!Drop, Keyring!NoKey, Keyring!Become, Replies
  <2>2. Ages /\ v1' \in [cipher : Nat, verified : BOOLEAN, checks : Nat] /\ v1'.cipher <= v2'
    BY <2>1 DEF Ages, KeysTyped
  <2>3. KeysTyped' /\ KeysAreFair'
    BY <2>1, <2>2, OverIsFair, KeysTurn
  <2> QED
    BY <2>1, <2>3 DEF Keyring!VerifiedIsAccepted
<1>6. ASSUME NEW p \in Askers, Keyring!Connect(p) PROVE Goal
  <2>0. v4[p] \in KeyAskers /\ Fair(v4[p]) /\ v4[p].pc = "check"
    BY <1>6 DEF Keyring!Connect, KeysTyped, KeysAreFair
  <2>1. PICK ok \in BOOLEAN :
          /\ ok => v1.cipher # 0
          /\ v4' = [v4 EXCEPT ![p] = [v4[p] EXCEPT !.pc = "record", !.used = v1.cipher, !.ok = ok]]
          /\ v3' = IF ok THEN v3 \cup {v1.cipher} ELSE v3
          /\ UNCHANGED <<v1, v2, v5>>
    BY <1>6 DEF Keyring!Connect, Keyring!Become
  <2>2. PICK r : r = [v4[p] EXCEPT !.pc = "record", !.used = v1.cipher, !.ok = ok]
    OBVIOUS
  <2>3. /\ r \in KeyAskers /\ r.pc = "record" /\ r.used = v1.cipher /\ r.ok = ok
        /\ r.seen = v4[p].seen /\ r.answer = v4[p].answer /\ r.complete = v4[p].complete
        /\ r.got = v4[p].got
    BY <2>0, <2>2 DEF KeyAskers, KeysTyped
  <2>4. Ages /\ v1' \in [cipher : Nat, verified : BOOLEAN, checks : Nat] /\ v1'.cipher <= v2'
    BY <2>1 DEF Ages, KeysTyped
  <2>5. Fair(r)'
    BY <2>0, <2>1, <2>3 DEF Fair, OnFile, KeysTyped
  <2>6. KeysTyped' /\ KeysAreFair'
    BY <2>1, <2>2, <2>3, <2>4, <2>5, KeysTurn
  <2> QED
    BY <2>1, <2>6 DEF Keyring!VerifiedIsAccepted
<1>7. ASSUME NEW p \in Askers, Keyring!Record(p) PROVE Goal
  <2>0. v4[p] \in KeyAskers /\ Fair(v4[p]) /\ v4[p].pc = "record"
    BY <1>7 DEF Keyring!Record, KeysTyped, KeysAreFair
  <2>1. PICK r :
          /\ Over(r) /\ v4' = [v4 EXCEPT ![p] = r] /\ UNCHANGED <<v2, v3, v5>>
          /\ \/ v1' = v1
             \/ /\ v1.cipher = v4[p].seen
                /\ v1' = [v1 EXCEPT !.verified = v4[p].ok, !.checks = Keyring!Least(@ + 1, 2)]
    <3>1. v4[p].ok \in BOOLEAN
      BY <2>0 DEF KeyAskers
    <3> QED
      BY <1>7, <3>1, OverIs DEF Keyring!Record, Keyring!Concerns, Keyring!Become
  <2>2. /\ v1' \in [cipher : Nat, verified : BOOLEAN, checks : Nat] /\ v1'.cipher = v1.cipher
        /\ v1' = v1 \/ (v1.cipher = v4[p].seen /\ v1'.verified = v4[p].ok)
    <3>1. PICK c \in Nat, v \in BOOLEAN, n \in Nat :
            v1 = [cipher |-> c, verified |-> v, checks |-> n]
      BY DEF KeysTyped
    <3>2. Keyring!Least(n + 1, 2) \in Nat
      BY DEF Keyring!Least
    <3>3. CASE v1' # v1
      <4>1. v1' = [cipher |-> c, verified |-> v4[p].ok, checks |-> Keyring!Least(n + 1, 2)]
        BY <2>1, <3>1, <3>3
      <4> QED
        BY <2>0, <2>1, <3>1, <3>2, <3>3, <4>1 DEF KeyAskers
    <3> QED
      BY <3>1, <3>3
  <2>3. Ages /\ v1'.cipher <= v2'
    BY <2>1, <2>2 DEF Ages, KeysTyped
  <2>5. KeysTyped' /\ KeysAreFair'
    BY <2>1, <2>2, <2>3, OverIsFair, KeysTurn
  <2>6. Keyring!VerifiedIsAccepted'
    <3>1. v1.cipher = v4[p].seen /\ v4[p].ok => v1.cipher \in v3
      BY <2>0 DEF Fair, OnFile, KeysTyped
    <3> QED
      BY <2>1, <2>2, <3>1 DEF Keyring!VerifiedIsAccepted
  <2> QED
    BY <2>5, <2>6
<1>8. ASSUME NEW p \in Askers, Keyring!OpenList(p) PROVE Goal
  <2>0. v4[p] \in KeyAskers /\ Fair(v4[p]) /\ v4[p].pc = "list"
    BY <1>8 DEF Keyring!OpenList, KeysTyped, KeysAreFair
  <2>1. /\ UNCHANGED <<v1, v2, v3, v5>>
        /\ \/ \E r : Over(r) /\ v4' = [v4 EXCEPT ![p] = r]
           \/ /\ v1.cipher # 0
              /\ v4' = [v4 EXCEPT ![p] = [v4[p] EXCEPT !.pc = "pages", !.used = v1.cipher]]
    BY <1>8, OverIs DEF Keyring!OpenList, Keyring!Become, Replies
  <2>2. CASE \E r : Over(r) /\ v4' = [v4 EXCEPT ![p] = r]
    BY <2>1, <2>2, OverIsFair, KeysRead
  <2>3. ASSUME v1.cipher # 0,
               v4' = [v4 EXCEPT ![p] = [v4[p] EXCEPT !.pc = "pages", !.used = v1.cipher]]
        PROVE  Goal
    <3>1. PICK r : r = [v4[p] EXCEPT !.pc = "pages", !.used = v1.cipher]
      OBVIOUS
    <3>2. /\ r \in KeyAskers /\ r.pc = "pages" /\ r.used = v1.cipher /\ r.got = v4[p].got
          /\ r.seen = v4[p].seen /\ r.answer = v4[p].answer
      BY <2>0, <3>1 DEF KeyAskers, KeysTyped
    <3>3. Fair(r)
      BY <2>0, <2>3, <3>2 DEF Fair, OnFile, KeysTyped
    <3> QED
      BY <2>1, <2>3, <3>1, <3>2, <3>3, KeysRead
  <2> QED
    BY <2>1, <2>2, <2>3
<1>9. ASSUME NEW p \in Askers, Keyring!Page(p) PROVE Goal
  <2>0. v4[p] \in KeyAskers /\ Fair(v4[p]) /\ v4[p].pc = "pages"
    BY <1>9 DEF Keyring!Page, KeysTyped, KeysAreFair
  <2> DEFINE data == Keyring!Least(PageOf, Catalog - v4[p].got)
             got  == Keyring!Least(MaxListed, v4[p].got + data)
  <2>1. /\ UNCHANGED <<v1, v2, v3, v5>>
        /\ \/ \E r : Over(r) /\ v4' = [v4 EXCEPT ![p] = r]
           \/ v4' = [v4 EXCEPT ![p] = [v4[p] EXCEPT !.got = got]]
           \/ \E more \in BOOLEAN :
                /\ v5 = "plain" => more = (v4[p].got + data < Catalog)
                /\ v4' = [v4 EXCEPT ![p] = [v4[p] EXCEPT !.pc = "recheck", !.got = got,
                            !.complete = got < MaxListed /\ Keyring!Terminal(p, data, more)]]
    <3> DEFINE rest == v4[p].got + data < Catalog
               mores == IF rest /\ v5 = "cursor" THEN BOOLEAN ELSE {rest}
               last(more) == v4' = [v4 EXCEPT ![p] = [v4[p] EXCEPT !.pc = "recheck", !.got = got,
                               !.complete = got < MaxListed /\ Keyring!Terminal(p, data, more)]]
               on == v4' = [v4 EXCEPT ![p] = [v4[p] EXCEPT !.got = got]]
               ends == v4' = [v4 EXCEPT ![p] = [Keyring!AtRest EXCEPT !.answer = "unavailable"]]
    <3>1. /\ UNCHANGED <<v1, v2, v3, v5>>
          /\ (\E more \in mores : last(more) \/ on) \/ ends
      BY <1>9 DEF Keyring!Page, Keyring!Become
    <3>2. \A more \in mores : more \in BOOLEAN /\ (v5 = "plain" => more = rest)
      <4>1. rest \in BOOLEAN
        OBVIOUS
      <4> HIDE DEF rest
      <4>2. CASE rest /\ v5 = "cursor"
        BY <4>2
      <4>3. CASE ~(rest /\ v5 = "cursor")
        BY <4>1, <4>3
      <4> QED
        BY <4>2, <4>3
    <3>3. ends => \E r : Over(r) /\ v4' = [v4 EXCEPT ![p] = r]
      BY OverIs DEF Replies
    <3> HIDE DEF mores, last, ends, data, got
    <3>4. ASSUME NEW more \in mores, last(more)
          PROVE  \E m \in BOOLEAN : (v5 = "plain" => m = rest) /\ last(m)
      BY <3>2, <3>4
    <3> QED
      BY <3>1, <3>3, <3>4 DEF last
  <2>2. /\ data \in Nat /\ got \in Nat /\ got <= Catalog
        /\ data <= MaxListed - v4[p].got => got = v4[p].got + data
        /\ data <= Catalog - v4[p].got
    BY <2>0 DEF Fair, Keyring!Least, KeyAskers, ListsAreGiven
  <2> HIDE DEF data, got
  <2>3. CASE \E r : Over(r) /\ v4' = [v4 EXCEPT ![p] = r]
    BY <2>1, <2>3, OverIsFair, KeysRead
  <2>4. ASSUME v4' = [v4 EXCEPT ![p] = [v4[p] EXCEPT !.got = got]] PROVE Goal
    <3>1. PICK r : r = [v4[p] EXCEPT !.got = got]
      OBVIOUS
    <3>2. /\ r \in KeyAskers /\ r.pc = "pages" /\ r.used = v4[p].used /\ r.got = got
          /\ r.seen = v4[p].seen /\ r.answer = v4[p].answer
      BY <2>0, <2>2, <3>1 DEF KeyAskers
    <3>3. Fair(r)
      BY <2>0, <2>2, <3>2 DEF Fair
    <3> QED
      BY <2>1, <2>4, <3>1, <3>2, <3>3, KeysRead
  <2>5. ASSUME NEW more \in BOOLEAN, v5 = "plain" => more = (v4[p].got + data < Catalog),
               v4' = [v4 EXCEPT ![p] = [v4[p] EXCEPT !.pc = "recheck", !.got = got,
                            !.complete = got < MaxListed /\ Keyring!Terminal(p, data, more)]]
        PROVE  Goal
    <3>1. PICK whole \in BOOLEAN : whole = (got < MaxListed /\ Keyring!Terminal(p, data, more))
      OBVIOUS
    <3>2. PICK r : r = [v4[p] EXCEPT !.pc = "recheck", !.got = got, !.complete = whole]
      OBVIOUS
    <3>3. /\ r \in KeyAskers /\ r.pc = "recheck" /\ r.used = v4[p].used /\ r.got = got
          /\ r.seen = v4[p].seen /\ r.answer = v4[p].answer /\ r.complete = whole
      BY <2>0, <2>2, <3>2 DEF KeyAskers
    <3>4. whole => got = Catalog
      <4>1. v4[p].got \in Nat
        BY <2>0 DEF KeyAskers
      <4>2. whole => /\ ~more /\ data <= MaxListed - v4[p].got
                     /\ v5 = "plain" \/ v4[p].got + data = Catalog
        BY <3>1 DEF Keyring!Terminal
      <4> QED
        BY <2>2, <2>5, <4>1, <4>2 DEF ListsAreGiven
    <3>5. Fair(r)
      BY <2>0, <2>2, <3>3, <3>4 DEF Fair
    <3>6. v4' = [v4 EXCEPT ![p] = r]
      BY <2>5, <3>1, <3>2
    <3> QED
      BY <2>1, <3>3, <3>5, <3>6, KeysRead
  <2> QED
    BY <2>1, <2>3, <2>4, <2>5
<1>10. ASSUME NEW p \in Askers, Keyring!Recheck(p) PROVE Goal
  <2>0. v4[p] \in KeyAskers /\ Fair(v4[p]) /\ v4[p].pc = "recheck"
    BY <1>10 DEF Keyring!Recheck, KeysTyped, KeysAreFair
  <2>1. /\ UNCHANGED <<v1, v2, v3, v5>>
        /\ \/ \E r : Over(r) /\ v4' = [v4 EXCEPT ![p] = r]
           \/ /\ v1.cipher # 0 /\ v1.cipher = v4[p].seen
              /\ v4' = [v4 EXCEPT ![p] = [v4[p] EXCEPT !.pc = "idle", !.answer = "listed"]]
    BY <1>10, OverIs DEF Keyring!Recheck, Keyring!Unchanged, Keyring!Become, Replies
  <2>2. CASE \E r : Over(r) /\ v4' = [v4 EXCEPT ![p] = r]
    BY <2>1, <2>2, OverIsFair, KeysRead
  <2>3. ASSUME v1.cipher # 0, v1.cipher = v4[p].seen,
               v4' = [v4 EXCEPT ![p] = [v4[p] EXCEPT !.pc = "idle", !.answer = "listed"]]
        PROVE  Goal
    <3>1. PICK r : r = [v4[p] EXCEPT !.pc = "idle", !.answer = "listed"]
      OBVIOUS
    <3>2. /\ r \in KeyAskers /\ r.pc = "idle" /\ r.used = v4[p].used /\ r.got = v4[p].got
          /\ r.seen = v4[p].seen /\ r.answer = "listed" /\ r.complete = v4[p].complete
      BY <2>0, <3>1 DEF KeyAskers
    <3>3. v4[p].used = v4[p].seen
      BY <2>0, <2>3 DEF Fair, OnFile, KeysTyped, KeyAskers
    <3>4. Fair(r)
      BY <2>0, <3>2, <3>3 DEF Fair
    <3> QED
      BY <2>1, <2>3, <3>1, <3>2, <3>4, KeysRead
  <2> QED
    BY <2>1, <2>2, <2>3
<1> QED
  BY <1>1, <1>2, <1>3, <1>4, <1>5, <1>6, <1>7, <1>8, <1>9, <1>10 DEF Keyring!Next

---------------------------------------------------------------------------
(* The notices *)

InboxIsGiven ==
  /\ PageSize \in Nat \ {0} /\ Retention \in Nat
  /\ Completions \cup Alerts \subseteq Nat \ {0} /\ IsFiniteSet(Completions \cup Alerts)
  /\ Standing \subseteq 1 .. Cardinality(Standing) /\ IsFiniteSet(Standing)

NoteRecords == [state : {"none", "staged", "kept", "cleared"}, late : BOOLEAN, read : BOOLEAN]
KindsAsked  == Filters \cup {"all"}
ViewRecords == [kind : KindsAsked, next : Nat, time : Nat]
Requesting  == [op : {"none", "load", "more", "mark", "all", "clear"},
                pc : {"none", "post", "list", "answered"}, current : BOOLEAN, kind : KindsAsked,
                cursor : Nat, before : Nat, asked : Nat, of : SUBSET Inbox!Notes,
                page : SUBSET Inbox!Notes, next : Nat, at : Nat]

InboxTyped ==
  /\ v1 \in Nat /\ v2 \in [Inbox!Notes -> NoteRecords] /\ v3 \in ViewRecords
  /\ v4 \in SUBSET Inbox!Notes /\ v5 \in [Inbox!Slots -> Requesting]

(* A notice that cannot be missing below what a reader has, unless its     *)
(* transaction was late: it comes after, or it is of another kind.         *)
Told(e, kind, S, next) ==
  \/ v2[e].late \/ ~Inbox!IsOf(e, kind)
  \/ \A s \in S : e > s
  \/ next # 0 /\ \A s \in S : e < s

(* An answer under way: in its order below its cursor, and without a gap.  *)
EndsAt(S, next) == next # 0 => next \in S /\ \A s \in S : next <= s
PageIsTrue(r) ==
  /\ r.at <= v1 /\ EndsAt(r.page, r.next)
  /\ \A p \in r.page : p <= v1 /\ Inbox!IsOf(p, r.kind) /\ (r.cursor # 0 => p < r.cursor)
  /\ \A e \in Inbox!Visible \ r.page :
       IF r.cursor = 0 THEN Told(e, r.kind, r.page, r.next)
       ELSE \/ e >= r.cursor \/ v2[e].late \/ ~Inbox!IsOf(e, r.kind)
            \/ r.next # 0 /\ \A p \in r.page : e < p
AskedIsTrue(r) ==
  /\ r.before <= r.asked /\ r.cursor <= v1 /\ (r.op # "more" => r.cursor = 0)
  /\ r.pc = "post" => r.op \in {"mark", "all", "clear"} /\ (r.op = "mark" => r.before = 0)
  /\ r.pc = "answered" => PageIsTrue(r)

(* The present request is about what is shown.                             *)
PresentIsTrue(r) ==
  r.current => /\ r.pc \in {"list", "answered"} => r.kind = v3.kind
               /\ r.op = "more" => r.cursor = v3.next /\ r.cursor # 0

RequestsAreTrue ==
  /\ \A i \in Inbox!Slots : AskedIsTrue(v5[i]) /\ PresentIsTrue(v5[i])
  /\ \A i, j \in Inbox!Slots : v5[i].current /\ v5[j].current => i = j

ShownIsTrue ==
  /\ v3.time <= v1 /\ EndsAt(v4, v3.next)
  /\ \A e \in v4 : e <= v1 /\ Inbox!IsOf(e, v3.kind)
  /\ \A e \in Inbox!Visible \ v4 : v4 = {} \/ Told(e, v3.kind, v4, v3.next)

DatedIsTrue == (\A e \in Inbox!Notes : v2[e].state # "none" => e <= v1) /\ v7 = {}

InboxGood == InboxTyped /\ DatedIsTrue /\ ShownIsTrue /\ RequestsAreTrue
InboxInv  == part = "inbox" => InboxGood

LEMMA NotesAreNumbers ==
  ASSUME InboxIsGiven
  PROVE  /\ Inbox!Notes \in SUBSET (Nat \ {0}) /\ IsFiniteSet(Inbox!Notes)
         /\ Inbox!Visible \in SUBSET Inbox!Notes
  BY DEF InboxIsGiven, Inbox!Notes, Inbox!Visible

LEMMA InboxCounts == \A S : Inbox!Cardinality(S) = Cardinality(S)
  BY DEF Inbox!Cardinality, Cardinality

(* The page of a set: nothing that is left out is newer than what is on    *)
(* it, and it is empty only if the set is.                                 *)
LEMMA NewestIs ==
  ASSUME PageSize \in Nat \ {0}, NEW S \in SUBSET Nat, IsFiniteSet(S)
  PROVE  LET page == Inbox!Newest(S) IN
         /\ page \in SUBSET S /\ (page = {} => S = {})
         /\ \A e \in S \ page, p \in page : e < p
         /\ page # {} => Inbox!Oldest(page) \in page /\ \A p \in page : Inbox!Oldest(page) <= p
<1> DEFINE page == Inbox!Newest(S)
           above(e) == {f \in S : f > e}
<1>1. page = {e \in S : Cardinality(above(e)) < PageSize}
  BY InboxCounts DEF Inbox!Newest
<1>2. \A T \in SUBSET S : IsFiniteSet(T) /\ Cardinality(T) \in Nat
  BY FS_CardinalityType, FS_Subset
<1> HIDE DEF page
<1>3. ASSUME page = {} PROVE S = {}
  <2> SUFFICES ASSUME S # {} PROVE FALSE
    OBVIOUS
  <2>1. PICK hi \in S : \A f \in S : f <= hi
    BY EndsExist
  <2>2. above(hi) = {}
    <3> SUFFICES ASSUME NEW f \in S, f > hi PROVE FALSE
      OBVIOUS
    <3>1. f \in Nat /\ hi \in Nat /\ f <= hi
      BY <2>1
    <3> QED
      BY <3>1
  <2>3. Cardinality(above(hi)) = 0
    BY <2>2, FS_EmptySet
  <2>4. hi \in page
    BY <1>1, <2>3
  <2> QED
    BY <1>3, <2>4
<1>4. ASSUME NEW e \in S \ page, NEW p \in page PROVE e < p
  <2> SUFFICES ASSUME ~(e < p) PROVE FALSE
    OBVIOUS
  <2>1. p \in S /\ e \in S /\ e \in Nat /\ p \in Nat /\ p < e
    BY <1>1
  <2>2. \A f \in S : f > e => f > p
    BY <2>1
  <2>3. above(e) \in SUBSET above(p) /\ above(p) \in SUBSET S
    BY <2>2
  <2>4. Cardinality(above(e)) <= Cardinality(above(p))
    BY <1>2, <2>3, FS_Subset
  <2>5. Cardinality(above(e)) \in Nat /\ Cardinality(above(p)) \in Nat
    BY <1>2, <2>3
  <2>6. Cardinality(above(p)) < PageSize /\ ~(Cardinality(above(e)) < PageSize)
    BY <1>1, <2>1
  <2> QED
    BY <2>4, <2>5, <2>6
<1>5. ASSUME page # {} PROVE Inbox!Oldest(page) \in page /\ \A p \in page : Inbox!Oldest(page) <= p
  <2>1. page \in SUBSET Nat /\ IsFiniteSet(page)
    BY <1>1, <1>2
  <2>2. \E lo \in page : \A f \in page : lo <= f
    BY <1>5, <2>1, EndsExist
  <2> QED
    BY <2>2 DEF Inbox!Oldest
<1>6. page \in SUBSET S
  BY <1>1
<1> QED
  BY <1>3, <1>4, <1>5, <1>6 DEF page

(* What a listing answers.                                                 *)
ListedPage(r, page, next) ==
  /\ \A p \in page : /\ p \in Inbox!Visible /\ Inbox!IsOf(p, r.kind)
                     /\ r.cursor # 0 => p < r.cursor
  /\ EndsAt(page, next)
  /\ \A e \in Inbox!Visible \ page :
       \/ ~Inbox!IsOf(e, r.kind) \/ (r.cursor # 0 /\ e >= r.cursor)
       \/ next # 0 /\ \A p \in page : e < p

LEMMA ListedIs ==
  ASSUME InboxIsGiven, NEW r \in Requesting
  PROVE  \E page \in SUBSET Inbox!Notes, next \in Nat :
           /\ Inbox!Listed(r) = [r EXCEPT !.pc = "answered", !.at = v1, !.page = page, !.next = next]
           /\ ListedPage(r, page, next)
<1> DEFINE found == {e \in Inbox!Visible : Inbox!IsOf(e, r.kind) /\ (r.cursor # 0 => e < r.cursor)}
           page  == Inbox!Newest(found)
           next  == IF page # found THEN Inbox!Oldest(page) ELSE 0
<1>1. found \in SUBSET Inbox!Notes /\ found \in SUBSET Nat /\ IsFiniteSet(found)
  <2>1. found \in SUBSET Inbox!Notes
    BY NotesAreNumbers
  <2> QED
    BY <2>1, NotesAreNumbers, FS_Subset
<1>2. Inbox!Listed(r) = [r EXCEPT !.pc = "answered", !.at = v1, !.page = page, !.next = next]
  BY DEF Inbox!Listed, Inbox!Null
<1>3. /\ page \in SUBSET found /\ (page = {} => found = {})
      /\ \A e \in found \ page, p \in page : e < p
      /\ page # {} => Inbox!Oldest(page) \in page /\ \A p \in page : Inbox!Oldest(page) <= p
  <2> HIDE DEF found
  <2> QED
    BY <1>1, NewestIs DEF InboxIsGiven
<1> HIDE DEF page
<1>4. page # found => page # {} /\ next \in page /\ next # 0 /\ \A p \in page : next <= p
  BY <1>1, <1>3, NotesAreNumbers
<1>5. next \in Nat /\ EndsAt(page, next)
  BY <1>1, <1>3, <1>4 DEF EndsAt
<1>6. ASSUME NEW e \in Inbox!Visible \ page
      PROVE  \/ ~Inbox!IsOf(e, r.kind) \/ (r.cursor # 0 /\ e >= r.cursor)
             \/ next # 0 /\ \A p \in page : e < p
  <2>1. e \in Nat /\ r.cursor \in Nat
    BY NotesAreNumbers DEF Requesting
  <2>2. CASE e \in found
    BY <1>3, <1>4, <2>2
  <2>3. CASE e \notin found
    BY <2>1, <2>3
  <2> QED
    BY <2>2, <2>3
<1>7. \A p \in page : /\ p \in Inbox!Visible /\ Inbox!IsOf(p, r.kind)
                      /\ r.cursor # 0 => p < r.cursor
  BY <1>3
<1> HIDE DEF next, found
<1>8. ListedPage(r, page, next)
  BY <1>5, <1>6, <1>7 DEF ListedPage
<1> QED
  BY <1>1, <1>2, <1>3, <1>5, <1>8

(* What has been answered and shown outlasts what the server does: only    *)
(* what is new becomes visible, or a notice whose transaction was late.    *)
InboxKeeps ==
  /\ v1' \in Nat /\ v1 <= v1'
  /\ \A e \in Inbox!Visible' : v2'[e].late \/ e >= v1 \/ (e \in Inbox!Visible /\ ~v2[e].late)

LEMMA AskedStays ==
  ASSUME InboxIsGiven, InboxTyped, InboxKeeps, NEW r \in Requesting, AskedIsTrue(r)
  PROVE  AskedIsTrue(r)'
<1>1. r.cursor \in Nat /\ r.at \in Nat /\ r.page \in SUBSET Nat /\ r.next \in Nat /\ v1 \in Nat
  BY NotesAreNumbers DEF Requesting, InboxTyped
<1>2. Inbox!Visible' \in SUBSET Nat
  BY NotesAreNumbers DEF Inbox!Visible
<1>3. ASSUME r.pc = "answered" PROVE PageIsTrue(r)'
  <2>1. PageIsTrue(r)
    BY <1>3 DEF AskedIsTrue
  <2>2. r.at <= v1' /\ \A p \in r.page : p <= v1'
    BY <1>1, <2>1 DEF PageIsTrue, InboxKeeps
  <2>3. ASSUME NEW e \in Inbox!Visible', e \notin r.page, ~v2'[e].late, e >= v1
        PROVE  IF r.cursor = 0 THEN \A p \in r.page : e > p ELSE e >= r.cursor
    <3>1. \A p \in r.page : p <= v1 /\ p # e
      BY <2>1, <2>3 DEF PageIsTrue
    <3>2. r.cursor <= v1
      BY DEF AskedIsTrue
    <3> QED
      BY <1>1, <1>2, <2>3, <3>1, <3>2
  <2>4. ASSUME NEW e \in Inbox!Visible', e \notin r.page
        PROVE  IF r.cursor = 0 THEN Told(e, r.kind, r.page, r.next)'
               ELSE \/ e >= r.cursor \/ v2'[e].late \/ ~Inbox!IsOf(e, r.kind)
                    \/ r.next # 0 /\ \A p \in r.page : e < p
    <3>1. CASE v2'[e].late
      BY <3>1 DEF Told
    <3>2. CASE ~v2'[e].late /\ e >= v1
      BY <2>3, <2>4, <3>2 DEF Told
    <3>3. CASE e \in Inbox!Visible /\ ~v2[e].late
      BY <2>1, <2>4, <3>3 DEF PageIsTrue, Told
    <3> QED
      BY <2>4, <3>1, <3>2, <3>3 DEF InboxKeeps
  <2> QED
    BY <2>1, <2>2, <2>4 DEF PageIsTrue
<1>4. r.cursor <= v1'
  BY <1>1 DEF AskedIsTrue, InboxKeeps
<1> QED
  BY <1>3, <1>4 DEF AskedIsTrue

LEMMA ShownStays ==
  ASSUME InboxIsGiven, InboxTyped, ShownIsTrue, InboxKeeps, UNCHANGED <<v3, v4>>
  PROVE  ShownIsTrue'
<1>1. v4 \in SUBSET Nat /\ v1 \in Nat /\ Inbox!Visible' \in SUBSET Nat /\ v3.time \in Nat
  <2>1. Inbox!Visible' \in SUBSET Inbox!Notes
    BY DEF Inbox!Visible
  <2> QED
    BY <2>1, NotesAreNumbers DEF InboxTyped, ViewRecords
<1>2. v3.time <= v1' /\ \A e \in v4 : e <= v1'
  BY <1>1 DEF ShownIsTrue, InboxKeeps
<1>3. ASSUME NEW e \in Inbox!Visible', e \notin v4 PROVE v4 = {} \/ Told(e, v3.kind, v4, v3.next)'
  <2>1. CASE v2'[e].late
    BY <2>1 DEF Told
  <2>2. CASE e >= v1
    <3>1. \A s \in v4 : e > s
      <4>1. \A s \in v4 : s <= v1 /\ s # e
        BY <1>3 DEF ShownIsTrue
      <4> QED
        BY <1>1, <2>2, <4>1
    <3> QED
      BY <3>1 DEF Told
  <2>3. CASE e \in Inbox!Visible /\ ~v2[e].late
    BY <1>3, <2>3 DEF ShownIsTrue, Told
  <2> QED
    BY <1>3, <2>1, <2>2, <2>3 DEF InboxKeeps
<1> QED
  BY <1>2, <1>3 DEF ShownIsTrue, EndsAt, Told

LEMMA RequestsStay ==
  ASSUME InboxIsGiven, InboxTyped, RequestsAreTrue, InboxKeeps, UNCHANGED <<v3, v5>>
  PROVE  RequestsAreTrue'
<1>1. ASSUME NEW i \in Inbox!Slots PROVE AskedIsTrue(v5[i])'
  <2>1. PICK r \in Requesting : r = v5[i]
    BY DEF InboxTyped
  <2>2. AskedIsTrue(r)'
    BY <2>1, AskedStays DEF RequestsAreTrue
  <2> QED
    BY <2>1, <2>2 DEF AskedIsTrue, PageIsTrue, Told
<1>2. ASSUME NEW i \in Inbox!Slots PROVE PresentIsTrue(v5[i])'
  BY DEF RequestsAreTrue, PresentIsTrue
<1> QED
  BY <1>1, <1>2 DEF RequestsAreTrue

(* The server's steps *)

LEMMA StageNoteIsTrue ==
  ASSUME InboxIsGiven, InboxGood, NEW e \in Inbox!Notes, Inbox!StageNote(e) PROVE InboxGood'
<1> USE DEF InboxGood
<1>1. /\ e = v1 + 1 /\ v1' = e /\ v1 \in Nat /\ UNCHANGED <<v3, v4, v5, v7>>
      /\ v2' = [v2 EXCEPT ![e].state = "staged"]
  BY DEF Inbox!StageNote, InboxTyped
<1>2. v2' \in [Inbox!Notes -> NoteRecords]
  BY <1>1 DEF InboxTyped, NoteRecords
<1>3. \A f \in Inbox!Notes : IF f = e THEN v2'[f].state = "staged" ELSE v2'[f] = v2[f]
  BY <1>1 DEF InboxTyped, NoteRecords
<1>4. InboxTyped'
  BY <1>1, <1>2 DEF InboxTyped
<1>5. InboxKeeps
  <2>1. ASSUME NEW f \in Inbox!Visible' PROVE f \in Inbox!Visible /\ v2'[f] = v2[f]
    <3>1. f \in Inbox!Notes /\ v2'[f].state = "kept" /\ f + Retention >= v1'
      BY <2>1 DEF Inbox!Visible
    <3>2. f # e /\ v2'[f] = v2[f] /\ f + Retention >= v1
      BY <1>1, <1>3, <3>1, NotesAreNumbers DEF InboxIsGiven
    <3> QED
      BY <3>1, <3>2 DEF Inbox!Visible
  <2> QED
    BY <1>1, <2>1 DEF InboxKeeps
<1>6. DatedIsTrue'
  <2>1. \A f \in Inbox!Notes : v2'[f].state # "none" => f <= v1'
    BY <1>1, <1>3, NotesAreNumbers DEF DatedIsTrue
  <2> QED
    BY <1>1, <2>1 DEF DatedIsTrue
<1> QED
  BY <1>1, <1>4, <1>5, <1>6, ShownStays, RequestsStay

LEMMA CommitNoteIsTrue ==
  ASSUME InboxIsGiven, InboxGood, NEW e \in Inbox!Notes, Inbox!CommitNote(e) PROVE InboxGood'
<1> USE DEF InboxGood
<1> DEFINE late == e < v1
<1>1. /\ v2[e].state = "staged" /\ v1 \in Nat /\ UNCHANGED <<v1, v3, v4, v5, v7>>
      /\ v2' = [v2 EXCEPT ![e].state = "kept", ![e].late = late]
  BY DEF Inbox!CommitNote, InboxTyped
<1>2. late \in BOOLEAN
  OBVIOUS
<1> HIDE DEF late
<1>3. PICK n \in NoteRecords : n = [v2[e] EXCEPT !.state = "kept", !.late = late]
  BY <1>2 DEF InboxTyped, NoteRecords
<1>4. n.late = late /\ v2' = [v2 EXCEPT ![e] = n]
  BY <1>1, <1>3 DEF InboxTyped, NoteRecords
<1>5. /\ v2' \in [Inbox!Notes -> NoteRecords] /\ v2'[e] = n
      /\ \A f \in Inbox!Notes : f # e => v2'[f] = v2[f]
  BY <1>4 DEF InboxTyped
<1>6. InboxTyped'
  BY <1>1, <1>5 DEF InboxTyped
<1>7. InboxKeeps
  <2>1. ASSUME NEW f \in Inbox!Visible'
        PROVE  v2'[f].late \/ f >= v1 \/ (f \in Inbox!Visible /\ ~v2[f].late)
    <3>1. f \in Inbox!Notes /\ v2'[f].state = "kept" /\ f + Retention >= v1
      BY <1>1, <2>1 DEF Inbox!Visible
    <3>2. CASE f = e
      <4>1. late \/ f >= v1
        BY <1>1, <3>1, <3>2, NotesAreNumbers DEF late
      <4> QED
        BY <1>4, <1>5, <3>2, <4>1
    <3>3. CASE f # e
      BY <1>5, <3>1, <3>3 DEF Inbox!Visible
    <3> QED
      BY <3>2, <3>3
  <2>2. v1' \in Nat /\ v1 <= v1'
    BY <1>1
  <2> QED
    BY <2>1, <2>2 DEF InboxKeeps
<1>8. DatedIsTrue'
  BY <1>1, <1>5 DEF DatedIsTrue
<1> QED
  BY <1>1, <1>6, <1>7, <1>8, ShownStays, RequestsStay

(* One request moves on.                                                   *)
LEMMA RequestMoves ==
  ASSUME InboxIsGiven, InboxTyped, RequestsAreTrue, InboxKeeps, UNCHANGED v3,
         NEW i \in Inbox!Slots, NEW q \in Requesting, v5' = [v5 EXCEPT ![i] = q],
         AskedIsTrue(q)', PresentIsTrue(q), q.current => v5[i].current
  PROVE  RequestsAreTrue' /\ v5' \in [Inbox!Slots -> Requesting]
<1>1. /\ v5' \in [Inbox!Slots -> Requesting]
      /\ v5'[i] = q /\ \A j \in Inbox!Slots : j # i => v5'[j] = v5[j]
  BY DEF InboxTyped
<1>2. ASSUME NEW j \in Inbox!Slots PROVE AskedIsTrue(v5[j])'
  <2>1. CASE j = i
    BY <1>1, <2>1 DEF AskedIsTrue, PageIsTrue, Told
  <2>2. CASE j # i
    <3>1. PICK r \in Requesting : r = v5[j]
      BY DEF InboxTyped
    <3>2. AskedIsTrue(r)'
      BY <3>1, AskedStays DEF RequestsAreTrue
    <3> QED
      BY <1>1, <2>2, <3>1, <3>2 DEF AskedIsTrue, PageIsTrue, Told
  <2> QED
    BY <2>1, <2>2
<1>3. ASSUME NEW j \in Inbox!Slots PROVE PresentIsTrue(v5[j])'
  <2>1. CASE j = i
    BY <1>1, <2>1 DEF PresentIsTrue
  <2>2. CASE j # i
    BY <1>1, <2>2 DEF RequestsAreTrue, PresentIsTrue
  <2> QED
    BY <2>1, <2>2
<1>4. \A j, k \in Inbox!Slots : v5'[j].current /\ v5'[k].current => j = k
  <2>1. \A j \in Inbox!Slots : v5'[j].current => v5[j].current
    BY <1>1
  <2> QED
    BY <2>1 DEF RequestsAreTrue
<1> QED
  BY <1>1, <1>2, <1>3, <1>4 DEF RequestsAreTrue

LEMMA ListIsTrue ==
  ASSUME InboxIsGiven, InboxGood, NEW i \in Inbox!Slots, Inbox!List(i) PROVE InboxGood'
<1> USE DEF InboxGood
<1>1. PICK r \in Requesting : r = v5[i] /\ r.pc = "list" /\ AskedIsTrue(r) /\ PresentIsTrue(r)
  BY DEF Inbox!List, InboxTyped, RequestsAreTrue
<1>2. PICK page \in SUBSET Inbox!Notes, next \in Nat :
        /\ Inbox!Listed(r) = [r EXCEPT !.pc = "answered", !.at = v1, !.page = page, !.next = next]
        /\ ListedPage(r, page, next)
  BY ListedIs
<1>3. PICK q : q = [r EXCEPT !.pc = "answered", !.at = v1, !.page = page, !.next = next]
  OBVIOUS
<1>4. /\ q \in Requesting /\ q.pc = "answered" /\ q.at = v1 /\ q.page = page /\ q.next = next
      /\ q.kind = r.kind /\ q.cursor = r.cursor /\ q.op = r.op /\ q.current = r.current
      /\ q.before = r.before /\ q.asked = r.asked
  BY <1>3 DEF Requesting, InboxTyped
<1>5. v5' = [v5 EXCEPT ![i] = q] /\ UNCHANGED <<v1, v2, v3, v4, v7>>
  BY <1>1, <1>2, <1>3 DEF Inbox!List
<1>6. InboxKeeps
  <2>1. v1' \in Nat /\ v1 <= v1' /\ Inbox!Visible' = Inbox!Visible /\ v2' = v2
    BY <1>5 DEF InboxTyped, Inbox!Visible
  <2> QED
    BY <2>1 DEF InboxKeeps
<1>7. PageIsTrue(q)
  <2>1. \A p \in page : p <= v1
    BY <1>2 DEF ListedPage, DatedIsTrue, Inbox!Visible
  <2>2. v1 <= v1
    BY DEF InboxTyped
  <2>3. ASSUME NEW e \in Inbox!Visible, e \notin page
        PROVE  IF q.cursor = 0 THEN Told(e, q.kind, page, next)
               ELSE \/ e >= q.cursor \/ v2[e].late \/ ~Inbox!IsOf(e, q.kind)
                    \/ next # 0 /\ \A p \in page : e < p
    BY <1>2, <1>4, <2>3 DEF ListedPage, Told
  <2> QED
    BY <1>2, <1>4, <2>1, <2>2, <2>3 DEF ListedPage, PageIsTrue
<1>8. AskedIsTrue(q) /\ PresentIsTrue(q)
  BY <1>1, <1>4, <1>7 DEF AskedIsTrue, PresentIsTrue
<1>9. AskedIsTrue(q)'
  BY <1>4, <1>6, <1>8, AskedStays
<1>10. RequestsAreTrue' /\ v5' \in [Inbox!Slots -> Requesting]
  BY <1>1, <1>4, <1>5, <1>6, <1>8, <1>9, RequestMoves
<1>11. InboxTyped' /\ DatedIsTrue'
  BY <1>5, <1>10 DEF InboxTyped, DatedIsTrue
<1> QED
  BY <1>5, <1>6, <1>10, <1>11, ShownStays

LEMMA PostIsTrue ==
  ASSUME InboxIsGiven, InboxGood, NEW i \in Inbox!Slots, Inbox!Post(i) PROVE InboxGood'
<1> USE DEF InboxGood
<1>1. PICK r \in Requesting : r = v5[i] /\ r.pc = "post" /\ AskedIsTrue(r)
  BY DEF Inbox!Post, InboxTyped, RequestsAreTrue
<1> DEFINE done == Inbox!Taken(r)
<1>2. /\ v5' = [v5 EXCEPT ![i].pc = "list", ![i].kind = v3.kind]
      /\ v2' = [e \in Inbox!Notes |-> IF e \notin done THEN v2[e]
                  ELSE IF r.op = "clear" THEN [v2[e] EXCEPT !.state = "cleared"]
                  ELSE [v2[e] EXCEPT !.read = TRUE]]
      /\ v7' = v7 \cup {e \in done : r.before # 0 /\ e > r.asked}
      /\ UNCHANGED <<v1, v3, v4>>
  BY <1>1 DEF Inbox!Post, Inbox!Null
<1>3. {e \in done : r.before # 0 /\ e > r.asked} = {}
  <2> SUFFICES ASSUME NEW e \in done, r.before # 0, e > r.asked PROVE FALSE
    OBVIOUS
  <2>1. r.op \in {"all", "clear"} /\ r.before <= r.asked /\ r.before \in Nat /\ r.asked \in Nat
    BY <1>1 DEF AskedIsTrue, Requesting
  <2>2. e \in Inbox!Visible /\ e <= Inbox!Cutoff(r.before)
    BY <2>1 DEF Inbox!Taken
  <2>3. e \in Nat
    BY <2>2, NotesAreNumbers
  <2>4. Inbox!Cutoff(r.before) \in Nat /\ Inbox!Cutoff(r.before) <= r.before
    BY <2>1 DEF Inbox!Cutoff, Inbox!Null, InboxTyped
  <2> QED
    BY <2>1, <2>2, <2>3, <2>4
<1> HIDE DEF done
<1>4. \A e \in Inbox!Notes : /\ v2'[e] \in NoteRecords /\ v2'[e].late = v2[e].late
                             /\ v2'[e].state \in {v2[e].state, "cleared"}
                             /\ v2[e].state = "none" => v2'[e].state = "none" \/ e \in done
  <2> SUFFICES ASSUME NEW e \in Inbox!Notes
               PROVE  /\ v2'[e] \in NoteRecords /\ v2'[e].late = v2[e].late
                      /\ v2'[e].state \in {v2[e].state, "cleared"}
                      /\ v2[e].state = "none" => v2'[e].state = "none" \/ e \in done
    OBVIOUS
  <2>1. v2[e] \in NoteRecords
    BY DEF InboxTyped
  <2>2. \/ v2'[e] = v2[e] \/ (v2'[e] = [v2[e] EXCEPT !.state = "cleared"] /\ e \in done)
        \/ v2'[e] = [v2[e] EXCEPT !.read = TRUE]
    BY <1>2
  <2> QED
    BY <2>1, <2>2 DEF NoteRecords
<1>5. \A e \in done : e \in Inbox!Visible
  BY <1>1 DEF done, Inbox!Taken, AskedIsTrue
<1>6. InboxKeeps
  <2>1. v1' \in Nat /\ v1 <= v1'
    BY <1>2 DEF InboxTyped
  <2>2. ASSUME NEW e \in Inbox!Visible' PROVE e \in Inbox!Visible /\ v2'[e].late = v2[e].late
    <3>1. e \in Inbox!Notes /\ v2'[e].state = "kept" /\ e + Retention >= v1
      BY <1>2, <2>2 DEF Inbox!Visible
    <3>2. v2[e].state = "kept"
      BY <1>4, <3>1
    <3> QED
      BY <1>4, <3>1, <3>2 DEF Inbox!Visible
  <2> QED
    BY <2>1, <2>2 DEF InboxKeeps
<1>7. DatedIsTrue'
  <2>1. ASSUME NEW e \in Inbox!Notes, v2'[e].state # "none" PROVE e <= v1
    <3>1. v2[e].state # "none"
      BY <1>4, <1>5, <2>1 DEF Inbox!Visible
    <3> QED
      BY <3>1 DEF DatedIsTrue
  <2> QED
    BY <1>2, <1>3, <2>1 DEF DatedIsTrue
<1>8. PICK q : q = [r EXCEPT !.pc = "list", !.kind = v3.kind]
  OBVIOUS
<1>9. /\ q \in Requesting /\ q.pc = "list" /\ q.kind = v3.kind /\ q.cursor = r.cursor
      /\ q.op = r.op /\ q.current = r.current /\ q.before = r.before /\ q.asked = r.asked
  BY <1>8 DEF Requesting, InboxTyped, ViewRecords
<1>10. v5' = [v5 EXCEPT ![i] = q]
  BY <1>1, <1>2, <1>8 DEF InboxTyped, Requesting
<1>11. AskedIsTrue(q)' /\ PresentIsTrue(q)
  BY <1>1, <1>2, <1>9 DEF AskedIsTrue, PresentIsTrue
<1>12. RequestsAreTrue' /\ v5' \in [Inbox!Slots -> Requesting]
  BY <1>1, <1>2, <1>6, <1>9, <1>10, <1>11, RequestMoves
<1>13. InboxTyped'
  <2>1. v2' \in [Inbox!Notes -> NoteRecords]
    BY <1>2, <1>4
  <2> QED
    BY <1>2, <1>12, <2>1 DEF InboxTyped
<1> QED
  BY <1>2, <1>6, <1>7, <1>12, <1>13, ShownStays

(* The steps of the page. A new request is the present one, and no other.  *)
LEMMA NothingAsked ==
  ASSUME InboxTyped
  PROVE  Inbox!NoReq \in Requesting /\ ~Inbox!NoReq.current /\ AskedIsTrue(Inbox!NoReq)
<1>1. Inbox!NoReq \in Requesting
  BY DEF Inbox!NoReq, Inbox!Null, Requesting, KindsAsked
<1>2. /\ Inbox!NoReq.op = "none" /\ Inbox!NoReq.pc = "none" /\ ~Inbox!NoReq.current
      /\ Inbox!NoReq.cursor = 0 /\ Inbox!NoReq.before = 0 /\ Inbox!NoReq.asked = 0
  BY DEF Inbox!NoReq, Inbox!Null
<1> QED
  BY <1>1, <1>2 DEF AskedIsTrue, InboxTyped

LEMMA OvertakenIs ==
  ASSUME NEW r \in Requesting, AskedIsTrue(r), NEW c \in BOOLEAN
  PROVE  \E q \in Requesting :
           /\ q = [r EXCEPT !.current = c] /\ q.current = c /\ AskedIsTrue(q)
           /\ q.pc = r.pc /\ q.kind = r.kind /\ q.op = r.op /\ q.cursor = r.cursor
<1>1. PICK q : q = [r EXCEPT !.current = c]
  OBVIOUS
<1>2. /\ q \in Requesting /\ q.pc = r.pc /\ q.at = r.at /\ q.page = r.page /\ q.next = r.next
      /\ q.kind = r.kind /\ q.cursor = r.cursor /\ q.op = r.op /\ q.current = c
      /\ q.before = r.before /\ q.asked = r.asked
  BY <1>1 DEF Requesting
<1>3. AskedIsTrue(q)
  BY <1>2 DEF AskedIsTrue, PageIsTrue
<1> QED
  BY <1>1, <1>2, <1>3

LEMMA AskIsTrue ==
  ASSUME InboxIsGiven, InboxGood, NEW r \in Requesting, Inbox!Ask(r), UNCHANGED <<v1, v2>>,
         AskedIsTrue(r), r.pc \in {"list", "post"}, r.pc = "list" => r.kind = v3'.kind,
         r.op = "more" => r.cursor = v3'.next /\ r.cursor # 0
  PROVE  RequestsAreTrue' /\ v5' \in [Inbox!Slots -> Requesting]
<1> USE DEF InboxGood
<1>1. PICK i \in Inbox!Slots :
        v5' = [j \in Inbox!Slots |-> IF j = i THEN [r EXCEPT !.current = TRUE]
                                     ELSE IF v5[j] = Inbox!NoReq THEN Inbox!NoReq
                                     ELSE [v5[j] EXCEPT !.current = FALSE]]
  BY DEF Inbox!Ask
<1>2. PICK q \in Requesting :
        /\ q = [r EXCEPT !.current = TRUE] /\ q.current = TRUE /\ AskedIsTrue(q)
        /\ q.pc = r.pc /\ q.kind = r.kind /\ q.op = r.op /\ q.cursor = r.cursor
  BY OvertakenIs
<1>3. v5'[i] = q
  BY <1>1, <1>2
<1>4. ASSUME NEW j \in Inbox!Slots, j # i
      PROVE  v5'[j] \in Requesting /\ ~v5'[j].current /\ AskedIsTrue(v5'[j])
  <2>1. v5[j] \in Requesting /\ AskedIsTrue(v5[j])
    BY DEF InboxTyped, RequestsAreTrue
  <2>2. CASE v5[j] = Inbox!NoReq
    <3>1. v5'[j] = Inbox!NoReq
      BY <1>1, <1>4, <2>2
    <3> QED
      BY <3>1, NothingAsked
  <2>3. CASE v5[j] # Inbox!NoReq
    <3>1. v5'[j] = [v5[j] EXCEPT !.current = FALSE]
      BY <1>1, <1>4, <2>3
    <3>2. PICK p \in Requesting : p = [v5[j] EXCEPT !.current = FALSE] /\ p.current = FALSE /\ AskedIsTrue(p)
      BY <2>1, OvertakenIs
    <3> QED
      BY <3>1, <3>2
  <2> QED
    BY <2>2, <2>3
<1>5. v5' \in [Inbox!Slots -> Requesting]
  <2>1. \A j \in Inbox!Slots : v5'[j] \in Requesting
    BY <1>3, <1>4
  <2> QED
    BY <1>1, <2>1
<1>6. ASSUME NEW j \in Inbox!Slots PROVE AskedIsTrue(v5[j])'
  <2>1. AskedIsTrue(v5'[j])
    BY <1>2, <1>3, <1>4
  <2> QED
    BY <2>1 DEF AskedIsTrue, PageIsTrue, Told, Inbox!Visible
<1>7. ASSUME NEW j \in Inbox!Slots PROVE PresentIsTrue(v5[j])' /\ (v5'[j].current => j = i)
  <2>1. CASE j = i
    BY <1>2, <1>3, <2>1 DEF PresentIsTrue
  <2>2. CASE j # i
    BY <1>4, <2>2 DEF PresentIsTrue
  <2> QED
    BY <2>1, <2>2
<1> QED
  BY <1>5, <1>6, <1>7 DEF RequestsAreTrue

LEMMA ShownIsStill ==
  ASSUME ShownIsTrue, UNCHANGED <<v1, v2, v3, v4>> PROVE ShownIsTrue'
  BY DEF ShownIsTrue, EndsAt, Told, Inbox!Visible

LEMMA LoadIsTrue ==
  ASSUME InboxIsGiven, InboxGood, NEW kind \in Filters, Inbox!Load(kind) PROVE InboxGood'
<1> USE DEF InboxGood
<1>1. PICK r : r = [Inbox!NoReq EXCEPT !.op = "load", !.pc = "list", !.kind = kind]
  OBVIOUS
<1>2. /\ r \in Requesting /\ r.op = "load" /\ r.pc = "list" /\ r.kind = kind /\ r.cursor = 0
      /\ r.before = 0 /\ r.asked = 0
  BY <1>1 DEF Inbox!NoReq, Inbox!Null, Requesting, KindsAsked
<1>3. Inbox!Ask(r) /\ UNCHANGED <<v1, v2, v7>>
  BY <1>1 DEF Inbox!Load
<1>4. AskedIsTrue(r)
  BY <1>2 DEF AskedIsTrue, InboxTyped
<1>5. v3' \in ViewRecords /\ v3'.kind = kind /\ v4' \in SUBSET Inbox!Notes /\ ShownIsTrue'
  <2>1. CASE kind # v3.kind
    <3>1. v4' = {} /\ v3' = [v3 EXCEPT !.kind = kind, !.next = 0]
      BY <2>1 DEF Inbox!Load, Inbox!Null
    <3>2. v3' \in ViewRecords /\ v3'.kind = kind /\ v3'.next = 0 /\ v3'.time = v3.time
      BY <3>1 DEF InboxTyped, ViewRecords, KindsAsked
    <3>3. ShownIsTrue'
      BY <1>3, <3>1, <3>2 DEF ShownIsTrue, EndsAt
    <3> QED
      BY <3>1, <3>2, <3>3
  <2>2. CASE kind = v3.kind
    <3>1. UNCHANGED <<v3, v4>>
      BY <2>2 DEF Inbox!Load
    <3> QED
      BY <1>3, <2>2, <3>1, ShownIsStill DEF InboxTyped
  <2> QED
    BY <2>1, <2>2
<1>6. RequestsAreTrue' /\ v5' \in [Inbox!Slots -> Requesting]
  BY <1>2, <1>3, <1>4, <1>5, AskIsTrue
<1> QED
  BY <1>3, <1>5, <1>6 DEF InboxTyped, DatedIsTrue

LEMMA LoadMoreIsTrue ==
  ASSUME InboxIsGiven, InboxGood, Inbox!LoadMore PROVE InboxGood'
<1> USE DEF InboxGood
<1>1. PICK r : r = [Inbox!NoReq EXCEPT !.op = "more", !.pc = "list", !.kind = v3.kind, !.cursor = v3.next]
  OBVIOUS
<1>2. /\ r \in Requesting /\ r.op = "more" /\ r.pc = "list" /\ r.kind = v3.kind
      /\ r.cursor = v3.next /\ r.before = 0 /\ r.asked = 0
  BY <1>1 DEF Inbox!NoReq, Inbox!Null, Requesting, KindsAsked, InboxTyped, ViewRecords
<1>3. Inbox!Ask(r) /\ v3.next # 0 /\ UNCHANGED <<v1, v2, v3, v4, v7>>
  BY <1>1 DEF Inbox!LoadMore, Inbox!Null
<1>4. AskedIsTrue(r)
  BY <1>2, <1>3 DEF AskedIsTrue, ShownIsTrue, EndsAt
<1>5. RequestsAreTrue' /\ v5' \in [Inbox!Slots -> Requesting]
  BY <1>2, <1>3, <1>4, AskIsTrue
<1> QED
  BY <1>3, <1>5, ShownIsStill DEF InboxTyped, DatedIsTrue

LEMMA ChangeIsTrue ==
  ASSUME InboxIsGiven, InboxGood, NEW op \in {"mark", "all", "clear"}, Inbox!Change(op)
  PROVE  InboxGood'
<1> USE DEF InboxGood
<1>1. UNCHANGED <<v1, v2, v3, v4, v7>>
  BY DEF Inbox!Change
<1>2. ASSUME op = "mark" PROVE RequestsAreTrue' /\ v5' \in [Inbox!Slots -> Requesting]
  <2>1. PICK e \in v4 : Inbox!Ask([Inbox!NoReq EXCEPT !.op = op, !.pc = "post", !.of = {e}])
    BY <1>2 DEF Inbox!Change
  <2>2. PICK r : r = [Inbox!NoReq EXCEPT !.op = op, !.pc = "post", !.of = {e}]
    OBVIOUS
  <2>3. e \in Inbox!Notes
    BY DEF InboxTyped
  <2>4. /\ r \in Requesting /\ r.op = op /\ r.pc = "post" /\ r.cursor = 0
        /\ r.before = 0 /\ r.asked = 0
    BY <2>2, <2>3 DEF Inbox!NoReq, Inbox!Null, Requesting, KindsAsked
  <2>5. AskedIsTrue(r)
    BY <2>4 DEF AskedIsTrue, InboxTyped
  <2> QED
    BY <1>1, <1>2, <2>1, <2>2, <2>4, <2>5, AskIsTrue
<1>3. ASSUME op # "mark" PROVE RequestsAreTrue' /\ v5' \in [Inbox!Slots -> Requesting]
  <2>1. PICK r : r = [Inbox!NoReq EXCEPT !.op = op, !.pc = "post", !.before = v3.time, !.asked = v1]
    OBVIOUS
  <2>2. Inbox!Ask(r)
    BY <1>3, <2>1 DEF Inbox!Change
  <2>3. /\ r \in Requesting /\ r.op = op /\ r.pc = "post" /\ r.cursor = 0
        /\ r.before = v3.time /\ r.asked = v1
    BY <2>1 DEF Inbox!NoReq, Inbox!Null, Requesting, KindsAsked, InboxTyped, ViewRecords
  <2>4. AskedIsTrue(r)
    BY <1>3, <2>3 DEF AskedIsTrue, InboxTyped, ShownIsTrue
  <2> QED
    BY <1>1, <1>3, <2>2, <2>3, <2>4, AskIsTrue
<1> QED
  BY <1>1, <1>2, <1>3, ShownIsStill DEF InboxTyped, DatedIsTrue

(* The present answer takes its place: under what is shown, if more of it  *)
(* was asked for.                                                          *)
LEMMA AnswerIsShown ==
  ASSUME InboxIsGiven, InboxGood, NEW i \in Inbox!Slots, NEW r \in Requesting, r = v5[i],
         r.pc = "answered", r.current, UNCHANGED <<v1, v2>>,
         v3' = [v3 EXCEPT !.next = r.next, !.time = r.at],
         v4' = IF r.op = "more" THEN v4 \cup r.page ELSE r.page
  PROVE  ShownIsTrue' /\ v3' \in ViewRecords /\ v4' \in SUBSET Inbox!Notes
<1> USE DEF InboxGood
<1>1. PageIsTrue(r) /\ r.kind = v3.kind /\ (r.op # "more" => r.cursor = 0)
      /\ (r.op = "more" => r.cursor = v3.next /\ r.cursor # 0)
  BY DEF RequestsAreTrue, AskedIsTrue, PresentIsTrue
<1>2. /\ v3' \in ViewRecords /\ v3'.kind = v3.kind /\ v3'.next = r.next /\ v3'.time = r.at
      /\ v4' \in SUBSET Inbox!Notes
  BY DEF InboxTyped, ViewRecords, Requesting
<1>3. /\ v4 \in SUBSET Nat /\ r.page \in SUBSET Nat /\ r.cursor \in Nat /\ r.next \in Nat
      /\ Inbox!Visible \in SUBSET Nat
  BY NotesAreNumbers DEF InboxTyped, Requesting
<1>4. \A e \in v4' : e <= v1 /\ Inbox!IsOf(e, v3.kind)
  BY <1>1 DEF PageIsTrue, ShownIsTrue
<1>5. CASE r.op # "more"
  <2>1. EndsAt(v4', r.next)
    BY <1>1, <1>5 DEF PageIsTrue
  <2>2. \A e \in Inbox!Visible \ v4' : Told(e, v3.kind, v4', r.next)
    BY <1>1, <1>5 DEF PageIsTrue
  <2> QED
    BY <1>1, <1>2, <1>4, <2>1, <2>2 DEF ShownIsTrue, PageIsTrue, EndsAt, Told, Inbox!Visible
<1>6. CASE r.op = "more"
  <2>1. v4' = v4 \cup r.page /\ r.cursor \in v4 /\ \A s \in v4 : r.cursor <= s
    BY <1>1, <1>6 DEF ShownIsTrue, EndsAt
  <2>2. EndsAt(v4', r.next)
    <3> SUFFICES ASSUME r.next # 0 PROVE r.next \in v4' /\ \A s \in v4' : r.next <= s
      BY DEF EndsAt
    <3>1. r.next \in r.page /\ r.next < r.cursor /\ \A s \in r.page : r.next <= s
      BY <1>1, <1>6 DEF PageIsTrue, EndsAt
    <3>2. \A s \in v4 : r.next <= s
      BY <1>3, <2>1, <3>1
    <3> QED
      BY <2>1, <3>1, <3>2
  <2>3. ASSUME NEW e \in Inbox!Visible, e \notin v4' PROVE Told(e, v3.kind, v4', r.next)
    <3>1. /\ e \in Nat /\ e \notin v4 /\ e \notin r.page /\ v4 # {}
          /\ \A p \in r.page : p < r.cursor
      BY <1>1, <1>3, <1>6, <2>1, <2>3 DEF PageIsTrue
    <3>2. Told(e, v3.kind, v4, v3.next)
      BY <3>1 DEF ShownIsTrue
    <3>3. CASE \A s \in v4 : e > s
      <4>1. \A p \in r.page : e > p
        BY <1>3, <2>1, <3>1, <3>3
      <4> QED
        BY <2>1, <3>3, <4>1 DEF Told
    <3>4. CASE \A s \in v4 : e < s
      <4>1. ~(e >= r.cursor)
        BY <1>3, <2>1, <3>1, <3>4
      <4>2. \/ v2[e].late \/ ~Inbox!IsOf(e, v3.kind)
            \/ r.next # 0 /\ \A p \in r.page : e < p
        BY <1>1, <1>6, <3>1, <4>1 DEF PageIsTrue
      <4> QED
        BY <2>1, <3>4, <4>2 DEF Told
    <3> QED
      BY <3>2, <3>3, <3>4 DEF Told
  <2> QED
    BY <1>1, <1>2, <1>4, <2>2, <2>3 DEF ShownIsTrue, PageIsTrue, EndsAt, Told, Inbox!Visible
<1> QED
  BY <1>2, <1>5, <1>6

LEMMA ArriveIsTrue ==
  ASSUME InboxIsGiven, InboxGood, NEW i \in Inbox!Slots, Inbox!Arrive(i) PROVE InboxGood'
<1> USE DEF InboxGood
<1>1. PICK r \in Requesting : r = v5[i] /\ r.pc = "answered"
  BY DEF Inbox!Arrive, InboxTyped
<1>2. v5' = [v5 EXCEPT ![i] = Inbox!NoReq] /\ UNCHANGED <<v1, v2, v7>>
  BY DEF Inbox!Arrive
<1>3. /\ v5' \in [Inbox!Slots -> Requesting] /\ v5'[i] = Inbox!NoReq
      /\ \A j \in Inbox!Slots : j # i => v5'[j] = v5[j]
  BY <1>2, NothingAsked DEF InboxTyped
<1>4. ASSUME NEW j \in Inbox!Slots PROVE AskedIsTrue(v5[j])'
  <2>1. AskedIsTrue(v5'[j])
    BY <1>3, NothingAsked DEF RequestsAreTrue
  <2> QED
    BY <1>2, <2>1 DEF AskedIsTrue, PageIsTrue, Told, Inbox!Visible
<1>5. \A j \in Inbox!Slots : v5'[j].current => j # i /\ v5[j].current
  BY <1>3, NothingAsked
<1>6. \A j, k \in Inbox!Slots : v5'[j].current /\ v5'[k].current => j = k
  BY <1>5 DEF RequestsAreTrue
<1>7. CASE r.current
  <2>1. /\ v3' = [v3 EXCEPT !.next = r.next, !.time = r.at]
        /\ v4' = (IF r.op = "more" THEN v4 \cup r.page ELSE r.page)
    BY <1>1, <1>7 DEF Inbox!Arrive, Inbox!Accepts
  <2>2. ShownIsTrue' /\ v3' \in ViewRecords /\ v4' \in SUBSET Inbox!Notes
    BY <1>1, <1>2, <1>7, <2>1, AnswerIsShown
  <2>3. \A j \in Inbox!Slots : ~v5'[j].current
    BY <1>1, <1>5, <1>7 DEF RequestsAreTrue
  <2>4. RequestsAreTrue'
    BY <1>4, <1>6, <2>3 DEF RequestsAreTrue, PresentIsTrue
  <2> QED
    BY <1>2, <1>3, <2>2, <2>4 DEF InboxTyped, DatedIsTrue
<1>8. CASE ~r.current
  <2>1. UNCHANGED <<v3, v4>>
    BY <1>1, <1>8 DEF Inbox!Arrive, Inbox!Accepts
  <2>2. ShownIsTrue'
    BY <1>2, <2>1, ShownIsStill
  <2>3. \A j \in Inbox!Slots : PresentIsTrue(v5[j])'
    BY <1>3, <1>5, <2>1 DEF RequestsAreTrue, PresentIsTrue
  <2>4. RequestsAreTrue'
    BY <1>4, <1>6, <2>3 DEF RequestsAreTrue
  <2> QED
    BY <1>2, <1>3, <2>1, <2>2, <2>4 DEF InboxTyped, DatedIsTrue
<1> QED
  BY <1>7, <1>8

---------------------------------------------------------------------------
(* The cache of responses *)

CacheIsGiven == CacheLimit \in Nat /\ IsFiniteSet(Users) /\ IsFiniteSet(Keys)

Times == [Keys -> Nat]
CacheFiles == [kind : {"torn", "entry", "log"}, at : Nat, log : Times]
Pcs   == {"idle", "read", "open", "write", "move", "log", "openlog", "writelog", "movelog",
          "list", "stat", "evict"}
Ops   == [op : {"none", "get", "set", "clear"}, pc : Pcs,
          key : Keys \cup {"none", CHOOSE k \in Keys : TRUE}, hand : Nat, log : Times,
          seen : SUBSET Keys, size : Int, at : Nat, listed : BOOLEAN, alone : BOOLEAN,
          end : {"none", "hit", "miss", "failed", "done"}]
Tallies == [hit : Nat, miss : Nat, get : Nat, over : Nat]

(* A name leads to a file of its own.                                      *)
NamesFit(nm, ct) ==
  /\ nm \in [Answers!Names -> Nat] /\ ct \in Seq(CacheFiles)
  /\ \A n \in Answers!Names : nm[n] <= Len(ct)
  /\ \A m, n \in Answers!Names : nm[m] = nm[n] /\ nm[m] # 0 => m = n

(* No log knows an access of the future.                                   *)
UpTo(log, t) == \A l \in Keys : log[l] <= t
FilesFit(ct, t) == \A i \in 1 .. Len(ct) : UpTo(ct[i].log, t)

OpFits(r, t) ==
  /\ r \in Ops /\ UpTo(r.log, t)
  /\ r.op \in {"get", "set"} => r.key \in Keys
  /\ r.pc = "idle" => r.op # "get" /\ (r.op = "set" => r.alone)
  /\ r.pc = "read" => r.op = "get"
  /\ r.pc \in {"open", "write", "move"} => r.op = "set"
  /\ r.pc = "log" => r.op \in {"get", "set"}
  /\ r.pc \in {"list", "stat", "evict"} => r.op \in {"set", "clear"}

(* What a set that is alone has made of the directory at each of its steps *)
PresentIn(nm) == {k \in Keys : nm[Answers!Entry(k)] # 0}
Small(nm) == Cardinality(PresentIn(nm)) <= CacheLimit
Younger(log, r) == \A l \in Keys : l # r.key => log[l] < r.at
IsNewest(f, r) == f.kind = "log" /\ f.log[r.key] = r.at
Opened(n, r, nm, ct) == r.hand = nm[n] /\ nm[n] # 0 /\ ct[nm[n]] = Answers!Torn
Holds(n, r, nm, ct) == nm[n] # 0 /\ ct[nm[n]] = Answers!EntryFile(r.at)
HoldsLog(n, r, nm, ct) == nm[n] # 0 /\ IsNewest(ct[nm[n]], r)

EntryFits(r, nm, ct) ==
  /\ r.pc = "write" => Opened(Answers!Temp(Answers!Entry(r.key)), r, nm, ct)
  /\ r.pc = "move" => Holds(Answers!Temp(Answers!Entry(r.key)), r, nm, ct)
  /\ r.pc \notin {"open", "write", "move"} /\ CacheLimit > 0
       => Holds(Answers!Entry(r.key), r, nm, ct)
LogFits(r, nm, ct) ==
  /\ \A i \in 1 .. Len(ct) : Younger(ct[i].log, r)
  /\ Younger(r.log, r)
  /\ r.pc \in {"openlog", "writelog"} /\ ~r.listed => r.log[r.key] = r.at
  /\ r.pc = "writelog" => Opened(Answers!Temp(Answers!LogName), r, nm, ct)
  /\ r.pc = "movelog" => nm[Answers!Temp(Answers!LogName)] # 0
  /\ r.pc = "movelog" /\ ~r.listed => HoldsLog(Answers!Temp(Answers!LogName), r, nm, ct)
  /\ r.pc \in {"list", "stat"} => HoldsLog(Answers!LogName, r, nm, ct)
SizeFits(r, nm) ==
  /\ r.pc \in {"open", "write", "move", "log"} => ~r.listed
  /\ r.pc \in {"stat", "evict"} => r.seen = PresentIn(nm)
  /\ r.pc = "evict" => r.listed /\ r.size = Cardinality(r.seen)
  /\ r.pc = "evict" /\ r.key \in r.seen => r.log[r.key] = r.at
  /\ r.pc \in {"openlog", "writelog", "movelog"} /\ r.listed => Small(nm)
LoneFits(r, nm, ct) == r.at > 0 /\ EntryFits(r, nm, ct) /\ LogFits(r, nm, ct) /\ SizeFits(r, nm)

(* What it has left when it is done                                        *)
EndFits(r, nm, ct) ==
  /\ r.end = "done" /\ (CacheLimit > 0 => Holds(Answers!Entry(r.key), r, nm, ct)) /\ Small(nm)

AloneFits(r, nm, ct, t) ==
  r.op = "set" => IF r.pc = "idle" THEN EndFits(r, nm, ct) ELSE r.at = t /\ LoneFits(r, nm, ct)

Gets(pr) == {p \in Users : pr[p].pc # "idle" /\ pr[p].op = "get"}
CountFits(pr, c) == c \in Tallies /\ c.hit + c.miss + Cardinality(Gets(pr)) = c.get

CacheFits ==
  /\ NamesFit(v1, v2) /\ v4 \in Nat /\ FilesFit(v2, v4)
  /\ v3 \in [Users -> Ops] /\ \A p \in Users : OpFits(v3[p], v4)
  /\ \A p \in Users : v3[p].pc # "idle" => v3[p].end = "none"
  /\ \A p \in Users : v3[p].alone => /\ AloneFits(v3[p], v1, v2, v4)
                                     /\ \A q \in Users \ {p} : v3[q].pc = "idle"
  /\ CountFits(v3, v5)
CacheFine == part = "cache" => CacheFits

(* The files, and the names that lead to them                              *)
LEMMA NamesApart ==
  /\ Answers!LogName \in Answers!Targets
  /\ \A k \in Keys : Answers!Entry(k) \in Answers!Targets
  /\ \A n \in Answers!Targets : n \in Answers!Names /\ Answers!Temp(n) \in Answers!Names
  /\ \A m, n \in Answers!Targets : m # Answers!Temp(n) /\ (Answers!Temp(m) = Answers!Temp(n) => m = n)
  /\ \A k \in Keys : Answers!Entry(k) # Answers!LogName
  /\ \A k, l : Answers!Entry(k) = Answers!Entry(l) => k = l
  /\ Answers!Names = Answers!Targets \cup {Answers!Temp(n) : n \in Answers!Targets}
<1>1. \A k : Answers!Entry(k) # Answers!LogName
  BY DEF Answers!Entry, Answers!LogName, Answers!Log
<1>2. \A k, l : Answers!Entry(k) = Answers!Entry(l) => k = l
  BY DEF Answers!Entry
<1>3. \A m, n : Answers!Temp(m) = Answers!Temp(n) => m = n
  BY DEF Answers!Temp
<1>4. \A k, n : Answers!Entry(k) # Answers!Temp(n)
  BY DEF Answers!Entry, Answers!Temp
<1>5. \A n : Answers!LogName # Answers!Temp(n)
  BY DEF Answers!LogName, Answers!Log, Answers!Temp
<1>6. Answers!Targets = {Answers!LogName} \cup {Answers!Entry(k) : k \in Keys}
  BY DEF Answers!Targets, Answers!LogName
<1>7. Answers!Names = Answers!Targets \cup {Answers!Temp(n) : n \in Answers!Targets}
  BY DEF Answers!Names
<1> QED
  BY <1>1, <1>2, <1>3, <1>4, <1>5, <1>6, <1>7

LEMMA FilesAre ==
  /\ Answers!NoLog \in Times /\ \A l \in Keys : Answers!NoLog[l] = 0
  /\ Answers!Torn \in CacheFiles /\ Answers!Torn.log = Answers!NoLog /\ Answers!Torn.kind = "torn"
  /\ \A at \in Nat : Answers!EntryFile(at) \in CacheFiles /\ Answers!EntryFile(at).log = Answers!NoLog
  /\ \A log \in Times : /\ Answers!LogFile(log) \in CacheFiles /\ Answers!LogFile(log).log = log
                        /\ Answers!LogFile(log).kind = "log"
BY DEF Answers!NoLog, Answers!Torn, Answers!EntryFile, Answers!LogFile, Times, CacheFiles

LEMMA NoLogIsOld ==
  /\ \A t \in Nat : UpTo(Answers!NoLog, t)
  /\ \A r : r.at \in Nat /\ r.at > 0 => Younger(Answers!NoLog, r)
BY FilesAre DEF UpTo, Younger

(* What a step leaves alone, and what it puts into the files               *)
OthersStay(nm, ct, nm2, ct2, S) ==
  \A m \in Answers!Names \ S : nm2[m] = nm[m] /\ (nm[m] # 0 => ct2[nm[m]] = ct[nm[m]])
FilesCome(ct, ct2, S) ==
  \A i \in 1 .. Len(ct2) : ct2[i] \in S \/ \E j \in 1 .. Len(ct) : ct2[i] = ct[j]

LEMMA ComingIsOld ==
  ASSUME NEW ct, NEW ct2, NEW S, NEW t, FilesCome(ct, ct2, S), FilesFit(ct, t),
         \A f \in S : UpTo(f.log, t)
  PROVE  FilesFit(ct2, t)
BY DEF FilesCome, FilesFit

LEMMA ComingIsYounger ==
  ASSUME NEW ct, NEW ct2, NEW S, NEW r, FilesCome(ct, ct2, S),
         \A i \in 1 .. Len(ct) : Younger(ct[i].log, r), \A f \in S : Younger(f.log, r)
  PROVE  \A i \in 1 .. Len(ct2) : Younger(ct2[i].log, r)
BY DEF FilesCome

(* open(temp, "w")                                                         *)
OpensTo(nm, ct, n, nm2, ct2, h) ==
  \/ /\ nm[Answers!Temp(n)] = 0 /\ h = Len(ct) + 1 /\ ct2 = Append(ct, Answers!Torn)
     /\ nm2 = [nm EXCEPT ![Answers!Temp(n)] = h]
  \/ /\ nm[Answers!Temp(n)] # 0 /\ h = nm[Answers!Temp(n)]
     /\ ct2 = [ct EXCEPT ![h] = Answers!Torn] /\ nm2 = nm

LEMMA OpeningKeeps ==
  ASSUME NEW nm, NEW ct, NEW n \in Answers!Targets, NEW nm2, NEW ct2, NEW h,
         NamesFit(nm, ct), OpensTo(nm, ct, n, nm2, ct2, h)
  PROVE  /\ NamesFit(nm2, ct2) /\ h \in Nat
         /\ nm2[Answers!Temp(n)] = h /\ h # 0 /\ ct2[h] = Answers!Torn
         /\ OthersStay(nm, ct, nm2, ct2, {Answers!Temp(n)})
         /\ FilesCome(ct, ct2, {Answers!Torn})
<1> PICK m : m = Answers!Temp(n)
  OBVIOUS
<1> PICK e : e = Answers!Torn
  OBVIOUS
<1>1. m \in Answers!Names /\ e \in CacheFiles
  BY NamesApart, FilesAre
<1>2. /\ nm \in [Answers!Names -> Nat] /\ ct \in Seq(CacheFiles)
      /\ \A x \in Answers!Names : nm[x] <= Len(ct)
      /\ \A x, y \in Answers!Names : nm[x] = nm[y] /\ nm[x] # 0 => x = y
  BY DEF NamesFit
<1>3. CASE nm[m] = 0
  <2>1. h = Len(ct) + 1 /\ ct2 = Append(ct, e) /\ nm2 = [nm EXCEPT ![m] = h]
    BY <1>3 DEF OpensTo
  <2>2. Len(ct) \in Nat /\ h \in Nat /\ h # 0 /\ Len(ct2) = h /\ ct2 \in Seq(CacheFiles)
    BY <1>1, <1>2, <2>1
  <2>3. ct2[h] = e /\ \A i \in 1 .. Len(ct) : ct2[i] = ct[i]
    BY <1>1, <1>2, <2>1
  <2>4. nm2 \in [Answers!Names -> Nat] /\ nm2[m] = h /\ \A x \in Answers!Names \ {m} : nm2[x] = nm[x]
    BY <1>1, <1>2, <2>1, <2>2
  <2>5. \A x \in Answers!Names : nm[x] \in Nat /\ nm[x] # h /\ nm2[x] <= Len(ct2)
    BY <1>2, <2>1, <2>2, <2>4
  <2>6. NamesFit(nm2, ct2)
    BY <1>2, <2>2, <2>4, <2>5 DEF NamesFit
  <2>7. \A x \in Answers!Names \ {m} : nm2[x] = nm[x] /\ (nm[x] # 0 => ct2[nm[x]] = ct[nm[x]])
    BY <1>2, <2>2, <2>3, <2>4
  <2>8. \A i \in 1 .. Len(ct2) : ct2[i] \in {e} \/ \E j \in 1 .. Len(ct) : ct2[i] = ct[j]
    BY <2>1, <2>2, <2>3
  <2> QED
    BY <2>2, <2>3, <2>4, <2>6, <2>7, <2>8 DEF OthersStay, FilesCome
<1>4. CASE nm[m] # 0
  <2>1. h = nm[m] /\ ct2 = [ct EXCEPT ![h] = e] /\ nm2 = nm
    BY <1>4 DEF OpensTo
  <2>2. h \in 1 .. Len(ct)
    BY <1>1, <1>2, <1>4, <2>1
  <2>3. ct2 \in Seq(CacheFiles) /\ Len(ct2) = Len(ct)
    BY <1>1, <1>2, <2>1, <2>2
  <2>4. ct2[h] = e /\ \A i \in 1 .. Len(ct) : i # h => ct2[i] = ct[i]
    BY <1>2, <2>1, <2>2
  <2>5. NamesFit(nm2, ct2)
    BY <1>2, <2>1, <2>3 DEF NamesFit
  <2>6. \A x \in Answers!Names \ {m} : nm2[x] = nm[x] /\ (nm[x] # 0 => ct2[nm[x]] = ct[nm[x]])
    BY <1>1, <1>2, <1>4, <2>1, <2>4
  <2>7. \A i \in 1 .. Len(ct2) : ct2[i] \in {e} \/ \E j \in 1 .. Len(ct) : ct2[i] = ct[j]
    BY <2>3, <2>4
  <2> QED
    BY <1>4, <2>1, <2>2, <2>4, <2>5, <2>6, <2>7 DEF OthersStay, FilesCome
<1> QED
  BY <1>3, <1>4

(* json.dump into the open file                                            *)
WritesTo(ct, h, f, ct2) == ct2 = [ct EXCEPT ![h] = f]
LEMMA WritingKeeps ==
  ASSUME NEW nm, NEW ct, NEW h \in Nat, NEW f \in CacheFiles, NEW ct2, NamesFit(nm, ct),
         WritesTo(ct, h, f, ct2)
  PROVE  NamesFit(nm, ct2) /\ FilesCome(ct, ct2, {f})
<1>1. /\ nm \in [Answers!Names -> Nat] /\ ct \in Seq(CacheFiles)
      /\ \A x \in Answers!Names : nm[x] <= Len(ct)
      /\ \A x, y \in Answers!Names : nm[x] = nm[y] /\ nm[x] # 0 => x = y
  BY DEF NamesFit
<1>2. ct2 \in Seq(CacheFiles) /\ Len(ct2) = Len(ct)
  <2>1. Len(ct) \in Nat /\ ct \in [1 .. Len(ct) -> CacheFiles]
    BY <1>1, LenProperties
  <2>2. ct2 \in [1 .. Len(ct) -> CacheFiles]
    BY <2>1 DEF WritesTo
  <2>3. ct2 \in Seq(CacheFiles)
    BY <2>1, <2>2
  <2> QED
    BY <2>1, <2>2, <2>3, LenProperties
<1>3. \A i \in 1 .. Len(ct) : ct2[i] = IF i = h THEN f ELSE ct[i]
  BY <1>1 DEF WritesTo
<1>4. NamesFit(nm, ct2)
  BY <1>1, <1>2 DEF NamesFit
<1>5. FilesCome(ct, ct2, {f})
  BY <1>2, <1>3 DEF FilesCome
<1> QED
  BY <1>4, <1>5

LEMMA WritingStays ==
  ASSUME NEW nm, NEW ct, NEW h \in Nat, NEW f \in CacheFiles, NEW ct2, NamesFit(nm, ct),
         WritesTo(ct, h, f, ct2), NEW n \in Answers!Names, nm[n] = h, h # 0
  PROVE  ct2[h] = f /\ OthersStay(nm, ct, nm, ct2, {n})
<1>1. /\ nm \in [Answers!Names -> Nat] /\ ct \in Seq(CacheFiles)
      /\ \A x \in Answers!Names : nm[x] <= Len(ct)
      /\ \A x, y \in Answers!Names : nm[x] = nm[y] /\ nm[x] # 0 => x = y
  BY DEF NamesFit
<1>2. h \in 1 .. Len(ct)
  BY <1>1
<1>3. \A i \in 1 .. Len(ct) : ct2[i] = IF i = h THEN f ELSE ct[i]
  BY <1>1 DEF WritesTo
<1>4. \A x \in Answers!Names \ {n} : nm[x] # 0 => nm[x] \in 1 .. Len(ct) /\ nm[x] # h
  BY <1>1
<1> QED
  BY <1>2, <1>3, <1>4 DEF OthersStay

(* temp.replace(target), and unlink                                        *)
MovesTo(nm, n, nm2) == nm2 = [nm EXCEPT ![n] = nm[Answers!Temp(n)], ![Answers!Temp(n)] = 0]
MovedNames(n) == {n, Answers!Temp(n)}
RemovesTo(nm, n, nm2) == nm2 = [nm EXCEPT ![n] = 0]
LEMMA MovingKeeps ==
  ASSUME NEW nm, NEW ct, NEW n \in Answers!Targets, NEW nm2, NamesFit(nm, ct),
         MovesTo(nm, n, nm2)
  PROVE  /\ NamesFit(nm2, ct) /\ nm2[n] = nm[Answers!Temp(n)]
         /\ OthersStay(nm, ct, nm2, ct, MovedNames(n))
<1> PICK m : m = Answers!Temp(n)
  OBVIOUS
<1>1. m \in Answers!Names /\ n \in Answers!Names /\ m # n
  BY NamesApart
<1>2. /\ nm \in [Answers!Names -> Nat] /\ ct \in Seq(CacheFiles)
      /\ \A x \in Answers!Names : nm[x] <= Len(ct)
      /\ \A x, y \in Answers!Names : nm[x] = nm[y] /\ nm[x] # 0 => x = y
  BY DEF NamesFit
<1>3. nm2 \in [Answers!Names -> Nat] /\ nm2[n] = nm[m] /\ nm2[m] = 0
  BY <1>1, <1>2 DEF MovesTo
<1>4. \A x \in Answers!Names \ {n, m} : nm2[x] = nm[x]
  BY <1>1, <1>2 DEF MovesTo
<1>5. \A x \in Answers!Names : nm2[x] <= Len(ct)
  BY <1>1, <1>2, <1>3, <1>4
<1>6. \A x, y \in Answers!Names : nm2[x] = nm2[y] /\ nm2[x] # 0 => x = y
  BY <1>1, <1>2, <1>3, <1>4
<1>7. NamesFit(nm2, ct)
  BY <1>2, <1>3, <1>5, <1>6 DEF NamesFit
<1> QED
  BY <1>3, <1>4, <1>7 DEF OthersStay, MovedNames

LEMMA RemovingKeeps ==
  ASSUME NEW nm, NEW ct, NEW n \in Answers!Names, NEW nm2, NamesFit(nm, ct), RemovesTo(nm, n, nm2)
  PROVE  NamesFit(nm2, ct) /\ nm2[n] = 0 /\ OthersStay(nm, ct, nm2, ct, {n})
<1>1. /\ nm \in [Answers!Names -> Nat] /\ ct \in Seq(CacheFiles) /\ Len(ct) \in Nat
      /\ \A x \in Answers!Names : nm[x] <= Len(ct)
      /\ \A x, y \in Answers!Names : nm[x] = nm[y] /\ nm[x] # 0 => x = y
  BY DEF NamesFit
<1>2. nm2 \in [Answers!Names -> Nat] /\ nm2[n] = 0 /\ \A x \in Answers!Names \ {n} : nm2[x] = nm[x]
  BY <1>1 DEF RemovesTo
<1>3. NamesFit(nm2, ct)
  BY <1>1, <1>2 DEF NamesFit
<1> QED
  BY <1>2, <1>3 DEF OthersStay

(* The operations: one of them goes on, or ends                            *)
OpTypes == {"none", "get", "set", "clear"}

LEMMA OpOf ==
  ASSUME CacheFits, NEW p \in Users
  PROVE  /\ v3[p] \in Ops /\ OpFits(v3[p], v4) /\ (v3[p].pc # "idle" => v3[p].end = "none")
         /\ v3[p].alone => AloneFits(v3[p], v1, v2, v4) /\ \A q \in Users \ {p} : v3[q].pc = "idle"
BY DEF CacheFits

Counted(o, r, c, d) ==
  \/ r.pc # "idle" /\ r.op = o.op /\ d = c
  \/ r.pc = "idle" /\ r.op # "get" /\ o.op # "get" /\ d = c
  \/ /\ r.pc = "idle" /\ r.op # "get" /\ o.op = "get"
     /\ d = [c EXCEPT !.hit = c.hit + 1] \/ d = [c EXCEPT !.miss = c.miss + 1]

LEMMA GetsMove ==
  ASSUME CacheIsGiven, NEW pr \in [Users -> Ops], NEW c, CountFits(pr, c),
         NEW p \in Users, pr[p].pc # "idle", NEW r \in Ops, NEW pr2, pr2 = [pr EXCEPT ![p] = r], NEW c2,
         Counted(pr[p], r, c, c2)
  PROVE  CountFits(pr2, c2)
<1>1. c \in Tallies /\ c.hit + c.miss + Cardinality(Gets(pr)) = c.get
  BY DEF CountFits
<1>2. pr2 \in [Users -> Ops] /\ pr2[p] = r /\ \A q \in Users \ {p} : pr2[q] = pr[q]
  OBVIOUS
<1>3. Gets(pr) \subseteq Users /\ IsFiniteSet(Gets(pr)) /\ Cardinality(Gets(pr)) \in Nat
  BY FS_Subset, FS_CardinalityType DEF Gets, CacheIsGiven
<1>4. CASE c2 = c /\ (\/ r.pc # "idle" /\ r.op = pr[p].op
                      \/ r.pc = "idle" /\ r.op # "get" /\ pr[p].op # "get")
  <2>1. Gets(pr2) = Gets(pr)
    BY <1>2, <1>4 DEF Gets
  <2> QED
    BY <1>1, <1>4, <2>1 DEF CountFits
<1>5. CASE /\ r.pc = "idle" /\ pr[p].op = "get"
           /\ c2 = [c EXCEPT !.hit = c.hit + 1] \/ c2 = [c EXCEPT !.miss = c.miss + 1]
  <2>1. Gets(pr2) = Gets(pr) \ {p} /\ p \in Gets(pr)
    BY <1>2, <1>5 DEF Gets
  <2>2. PICK n \in Nat : n = Cardinality(Gets(pr))
    BY <1>3
  <2>3. Cardinality(Gets(pr2)) = n - 1
    BY <1>3, <2>1, <2>2, FS_RemoveElement
  <2>4. c.hit \in Nat /\ c.miss \in Nat /\ c.get \in Nat /\ c.over \in Nat
    BY <1>1 DEF Tallies
  <2>5. c2 \in Tallies /\ c2.get = c.get /\ c2.hit + c2.miss = c.hit + c.miss + 1
    BY <1>1, <1>5, <2>4 DEF Tallies
  <2>6. c2.hit \in Nat /\ c2.miss \in Nat
    BY <2>5 DEF Tallies
  <2>7. c2.hit + c2.miss + (n - 1) = c2.get
    BY <1>1, <2>2, <2>4, <2>5, <2>6
  <2> QED
    BY <2>3, <2>5, <2>7 DEF CountFits
<1> QED
  BY <1>4, <1>5 DEF Counted

LEMMA OneMoves ==
  ASSUME CacheFits, NEW p \in Users, v3[p].pc # "idle", NEW r \in Ops, v3' = [v3 EXCEPT ![p] = r],
         v4' = v4, NamesFit(v1', v2'), FilesFit(v2', v4), OpFits(r, v4), r.pc # "idle" => r.end = "none",
         r.alone => v3[p].alone /\ AloneFits(r, v1', v2', v4), CountFits(v3', v5')
  PROVE  CacheFits'
<1>1. v3 \in [Users -> Ops] /\ v4 \in Nat
  BY DEF CacheFits
<1>2. v3' \in [Users -> Ops] /\ v3'[p] = r /\ \A q \in Users \ {p} : v3'[q] = v3[q]
  BY <1>1
<1>3. NamesFit(v1', v2') /\ v4' \in Nat /\ FilesFit(v2', v4')
  BY <1>1
<1>4. \A q \in Users : OpFits(v3'[q], v4')
  BY <1>2, OpOf
<1>5. ASSUME NEW q \in Users, v3'[q].alone
      PROVE  AloneFits(v3'[q], v1', v2', v4') /\ \A o \in Users \ {q} : v3'[o].pc = "idle"
  <2>1. q = p
    BY <1>2, <1>5, OpOf
  <2> QED
    BY <1>2, <1>5, <2>1, OpOf
<1>6. \A q \in Users : v3'[q].pc # "idle" => v3'[q].end = "none"
  BY <1>2, OpOf
<1> QED
  BY <1>2, <1>3, <1>4, <1>5, <1>6 DEF CacheFits

(* A step that goes on with the operation                                  *)
SameOp(r, o) == r.op = o.op /\ r.key = o.key /\ r.at = o.at /\ r.alone = o.alone /\ r.end = o.end
LEMMA OpGoesOn ==
  ASSUME CacheIsGiven, CacheFits, NEW p \in Users, v3[p].pc # "idle", NEW r \in Ops, r.pc # "idle",
         SameOp(r, v3[p]), OpFits(r, v4), v3' = [v3 EXCEPT ![p] = r], v4' = v4, v5' = v5,
         NamesFit(v1', v2'), FilesFit(v2', v4),
         v3[p].op = "set" /\ v3[p].at = v4 /\ LoneFits(v3[p], v1, v2) => LoneFits(r, v1', v2')
  PROVE  CacheFits'
<1>1. v3 \in [Users -> Ops] /\ CountFits(v3, v5)
  BY DEF CacheFits
<1>2. CountFits(v3', v5')
  <2>1. Counted(v3[p], r, v5, v5')
    BY DEF SameOp, Counted
  <2> QED
    BY <1>1, <2>1, GetsMove
<1>3. r.alone => v3[p].alone /\ AloneFits(r, v1', v2', v4)
  BY OpOf DEF SameOp, AloneFits
<1>4. r.end = "none"
  BY OpOf DEF SameOp
<1> QED
  BY <1>2, <1>3, <1>4, OneMoves

(* A step that ends it                                                     *)
LEMMA Ends ==
  ASSUME CacheIsGiven, CacheFits, NEW p \in Users, v3[p].pc # "idle",
         NEW end \in {"hit", "miss", "failed", "done"}, Answers!End(p, end), v4' = v4,
         NamesFit(v1', v2'), FilesFit(v2', v4),
         v3[p].op = "set" /\ LoneFits(v3[p], v1, v2) =>
           /\ end = "done" /\ Small(v1')
           /\ CacheLimit > 0 => Holds(Answers!Entry(v3[p].key), v3[p], v1', v2')
  PROVE  CacheFits'
<1> PICK o \in Ops : o = v3[p]
  BY OpOf
<1> PICK i : i = Answers!Idle
  OBVIOUS
<1>1. /\ i.op = "none" /\ i.pc = "idle" /\ i.alone = FALSE /\ i.log = Answers!NoLog
      /\ i.key = "none" /\ i.end = "none" /\ i.at = 0
  BY DEF Answers!Idle
<1>2. i \in Ops
  BY FilesAre DEF Answers!Idle, Ops, Pcs
<1>3. PICK r : r = IF o.op = "set" /\ o.alone
                   THEN [i EXCEPT !.op = "set", !.key = o.key, !.at = o.at, !.alone = TRUE, !.end = end]
                   ELSE i
  OBVIOUS
<1>4. v3' = [v3 EXCEPT ![p] = r]
  BY <1>3 DEF Answers!End, Answers!Go
<1>5. /\ o.op \in OpTypes /\ o.key \in Keys \cup {"none", CHOOSE k \in Keys : TRUE} /\ o.at \in Nat
      /\ o.alone \in BOOLEAN
  BY DEF Ops, OpTypes
<1>6. r \in Ops /\ r.pc = "idle" /\ r.log = Answers!NoLog
  BY <1>1, <1>2, <1>3, <1>5 DEF Ops
<1>7. r.op \in {"none", "set"} /\ (r.op = "set" => r.alone) /\ (r.alone => r.op = "set" /\ o.op = "set" /\ o.alone)
  BY <1>1, <1>2, <1>3, <1>5 DEF Ops
<1>8. r.alone => r.end = end /\ r.key = o.key /\ r.at = o.at
  BY <1>1, <1>2, <1>3, <1>5 DEF Ops
<1>9. OpFits(o, v4) /\ v4 \in Nat
  BY OpOf DEF CacheFits
<1>10. OpFits(r, v4)
  BY <1>6, <1>7, <1>8, <1>9, NoLogIsOld DEF OpFits
<1>11. r.alone => AloneFits(r, v1', v2', v4)
  <2>1. r.alone => LoneFits(o, v1, v2)
    BY <1>7, OpOf DEF AloneFits
  <2>2. r.alone => EndFits(r, v1', v2')
    BY <1>7, <1>8, <2>1 DEF EndFits, Holds
  <2> QED
    BY <1>6, <2>2 DEF AloneFits
<1>12. CountFits(v3', v5')
  <2>1. v3 \in [Users -> Ops] /\ CountFits(v3, v5)
    BY DEF CacheFits
  <2>2. o.op # "get" => v5' = v5
    BY DEF Answers!End
  <2>3. o.op = "get" => v5' = [v5 EXCEPT !.hit = v5.hit + 1] \/ v5' = [v5 EXCEPT !.miss = v5.miss + 1]
    BY DEF Answers!End
  <2>4. Counted(v3[p], r, v5, v5')
    BY <1>6, <1>7, <2>2, <2>3 DEF Counted
  <2> QED
    BY <1>4, <1>6, <2>1, <2>4, GetsMove
<1> QED
  BY <1>4, <1>6, <1>7, <1>9, <1>10, <1>11, <1>12, OneMoves

(* What a step leaves as it was, the set still has                         *)
LEMMA StayingHolds ==
  ASSUME NEW nm, NEW ct, NEW nm2, NEW ct2, NEW S, OthersStay(nm, ct, nm2, ct2, S),
         NEW n \in Answers!Names \ S, NEW r, NEW o, SameOp(r, o)
  PROVE  /\ Holds(n, o, nm, ct) => Holds(n, r, nm2, ct2)
         /\ HoldsLog(n, o, nm, ct) => HoldsLog(n, r, nm2, ct2)
BY DEF OthersStay, Holds, HoldsLog, IsNewest, SameOp

LEMMA StayingIsPresent ==
  ASSUME NEW nm, NEW ct, NEW nm2, NEW ct2, NEW S, OthersStay(nm, ct, nm2, ct2, S),
         \A k \in Keys : Answers!Entry(k) \notin S
  PROVE  PresentIn(nm2) = PresentIn(nm) /\ (Small(nm) => Small(nm2))
<1>1. \A k \in Keys : nm2[Answers!Entry(k)] = nm[Answers!Entry(k)]
  BY NamesApart DEF OthersStay
<1>2. PresentIn(nm2) = PresentIn(nm)
  BY <1>1 DEF PresentIn
<1> QED
  BY <1>2 DEF Small

LEMMA SameOpIsYounger ==
  ASSUME NEW r, NEW o, SameOp(r, o)
  PROVE  \A log : Younger(log, o) => Younger(log, r)
BY DEF Younger, SameOp

LEMMA PresentIsFinite ==
  ASSUME CacheIsGiven, NEW nm
  PROVE  /\ PresentIn(nm) \subseteq Keys /\ IsFiniteSet(PresentIn(nm))
         /\ Cardinality(PresentIn(nm)) \in Nat
<1>1. PresentIn(nm) \subseteq Keys
  BY DEF PresentIn
<1> QED
  BY <1>1, FS_Subset, FS_CardinalityType DEF CacheIsGiven

LEMMA OpeningFits ==
  ASSUME CacheIsGiven, CacheFits, NEW p \in Users, NEW n \in Answers!Targets, NEW pc \in {"write", "writelog"},
         Answers!OpenTemp(n, p, pc), v4' = v4, v5' = v5,
         \/ v3[p].pc = "open" /\ pc = "write" /\ n = Answers!Entry(v3[p].key)
         \/ v3[p].pc = "openlog" /\ pc = "writelog" /\ n = Answers!LogName
  PROVE  CacheFits'
<1> PICK o \in Ops : o = v3[p]
  BY OpOf
<1>1. PICK h : OpensTo(v1, v2, n, v1', v2', h) /\ v3' = [v3 EXCEPT ![p] = [v3[p] EXCEPT !.pc = pc, !.hand = h]]
  <2>1. CASE v1[Answers!Temp(n)] = 0
    <3>1. PICK h : h = Len(v2) + 1
      OBVIOUS
    <3>2. OpensTo(v1, v2, n, v1', v2', h)
      BY <2>1, <3>1 DEF Answers!OpenTemp, OpensTo
    <3>3. v3' = [v3 EXCEPT ![p] = [v3[p] EXCEPT !.pc = pc, !.hand = h]]
      BY <2>1, <3>1 DEF Answers!OpenTemp, Answers!Go
    <3> QED
      BY <3>2, <3>3
  <2>2. CASE v1[Answers!Temp(n)] # 0
    <3>1. PICK h : h = v1[Answers!Temp(n)]
      OBVIOUS
    <3>2. OpensTo(v1, v2, n, v1', v2', h)
      BY <2>2, <3>1 DEF Answers!OpenTemp, OpensTo
    <3>3. v3' = [v3 EXCEPT ![p] = [v3[p] EXCEPT !.pc = pc, !.hand = h]]
      BY <2>2, <3>1 DEF Answers!OpenTemp, Answers!Go
    <3> QED
      BY <3>2, <3>3
  <2> QED
    BY <2>1, <2>2
<1>2. NamesFit(v1, v2) /\ v4 \in Nat /\ FilesFit(v2, v4) /\ OpFits(o, v4)
  BY OpOf DEF CacheFits
<1>3. /\ NamesFit(v1', v2') /\ h \in Nat
      /\ v1'[Answers!Temp(n)] = h /\ h # 0 /\ v2'[h] = Answers!Torn
      /\ OthersStay(v1, v2, v1', v2', {Answers!Temp(n)})
      /\ FilesCome(v2, v2', {Answers!Torn})
  BY <1>1, <1>2, OpeningKeeps
<1>4. FilesFit(v2', v4)
  BY <1>2, <1>3, ComingIsOld, NoLogIsOld, FilesAre
<1>5. PICK r : r = [o EXCEPT !.pc = pc, !.hand = h]
  OBVIOUS
<1>6. /\ r \in Ops /\ r.pc = pc /\ r.hand = h /\ SameOp(r, o) /\ r.log = o.log
      /\ r.listed = o.listed /\ r.op = o.op /\ r.key = o.key
  BY <1>3, <1>5 DEF Ops, Pcs, SameOp
<1>7. OpFits(r, v4)
  BY <1>2, <1>6 DEF OpFits
<1>8. ASSUME o.op = "set", LoneFits(o, v1, v2)
      PROVE  LoneFits(r, v1', v2')
  <2>1. o.key \in Keys /\ o.at \in Nat /\ o.at > 0 /\ r.at = o.at /\ EntryFits(o, v1, v2) /\ LogFits(o, v1, v2) /\ SizeFits(o, v1)
    BY <1>2, <1>6, <1>8 DEF OpFits, LoneFits, Ops, SameOp
  <2>2. Opened(Answers!Temp(n), r, v1', v2')
    BY <1>3, <1>6 DEF Opened
  <2>3. \A k \in Keys : Answers!Entry(k) \in Answers!Names /\ Answers!Entry(k) \notin {Answers!Temp(n)}
    BY NamesApart
  <2>4. EntryFits(r, v1', v2')
    <3>1. CASE pc = "write"
      BY <1>6, <2>2, <3>1 DEF EntryFits
    <3>2. CASE pc = "writelog"
      <4>1. CacheLimit > 0 => Holds(Answers!Entry(o.key), o, v1, v2)
        BY <2>1, <3>2 DEF EntryFits
      <4>2. CacheLimit > 0 => Holds(Answers!Entry(o.key), r, v1', v2')
        BY <1>3, <1>6, <2>1, <2>3, <4>1, StayingHolds
      <4> QED
        BY <1>6, <3>2, <4>2 DEF EntryFits
    <3> QED
      BY <3>1, <3>2
  <2>5. LogFits(r, v1', v2')
    <3>1. \A i \in 1 .. Len(v2') : Younger(v2'[i].log, r)
      <4>1. \A i \in 1 .. Len(v2) : Younger(v2[i].log, r)
        BY <1>6, <2>1, SameOpIsYounger DEF LogFits
      <4>2. \A f \in {Answers!Torn} : Younger(f.log, r)
        BY <2>1, NoLogIsOld, FilesAre
      <4> QED
        BY <1>3, <4>1, <4>2, ComingIsYounger
    <3>2. Younger(r.log, r)
      BY <1>6, <2>1, SameOpIsYounger DEF LogFits
    <3>3. pc = "writelog" /\ ~r.listed => r.log[r.key] = r.at
      BY <1>6, <2>1 DEF LogFits
    <3>4. pc = "writelog" => n = Answers!LogName
      OBVIOUS
    <3> QED
      BY <1>6, <2>2, <3>1, <3>2, <3>3, <3>4 DEF LogFits
  <2>6. SizeFits(r, v1')
    <3>1. Small(v1) => Small(v1')
      BY <1>3, <2>3, StayingIsPresent
    <3> QED
      BY <1>6, <2>1, <3>1 DEF SizeFits
  <2> QED
    BY <2>1, <2>4, <2>5, <2>6 DEF LoneFits
<1>9. o.pc # "idle" /\ r.pc # "idle"
  BY <1>6
<1> QED
  BY <1>1, <1>3, <1>4, <1>5, <1>6, <1>7, <1>8, <1>9, OpGoesOn

LEMMA OpeningsFit ==
  ASSUME CacheIsGiven, CacheFits, NEW p \in Users, Answers!Open(p) \/ Answers!OpenLog(p)
  PROVE  CacheFits'
<1>1. CASE Answers!Open(p)
  <2>1. v3[p].pc = "open" /\ v3[p].key \in Keys
    BY <1>1, OpOf DEF Answers!Open, Answers!At, OpFits
  <2>2. PICK n \in Answers!Targets : n = Answers!Entry(v3[p].key)
    BY <2>1, NamesApart
  <2>3. Answers!OpenTemp(n, p, "write") /\ v4' = v4 /\ v5' = v5
    BY <1>1, <2>2 DEF Answers!Open
  <2> QED
    BY <2>1, <2>2, <2>3, OpeningFits
<1>2. CASE Answers!OpenLog(p)
  <2>1. v3[p].pc = "openlog"
    BY <1>2 DEF Answers!OpenLog, Answers!At
  <2>2. PICK n \in Answers!Targets : n = Answers!LogName
    BY NamesApart
  <2>3. Answers!OpenTemp(n, p, "writelog") /\ v4' = v4 /\ v5' = v5
    BY <1>2, <2>2 DEF Answers!OpenLog
  <2> QED
    BY <2>1, <2>2, <2>3, OpeningFits
<1> QED
  BY <1>1, <1>2

LEMMA WritingFits ==
  ASSUME CacheIsGiven, CacheFits, NEW p \in Users, NEW n \in Answers!Targets, NEW pc \in {"move", "movelog"},
         NEW value \in CacheFiles, UpTo(value.log, v4),
         Answers!WriteTemp(value, p, pc), v4' = v4, v5' = v5,
         \/ v3[p].pc = "write" /\ pc = "move" /\ n = Answers!Entry(v3[p].key) /\ value = Answers!EntryFile(v3[p].at)
         \/ v3[p].pc = "writelog" /\ pc = "movelog" /\ n = Answers!LogName /\ value = Answers!LogFile(v3[p].log)
  PROVE  CacheFits'
<1> PICK o \in Ops : o = v3[p]
  BY OpOf
<1> PICK none : none = Answers!NoLog
  OBVIOUS
<1>1. PICK f \in {Answers!Torn, value} :
        /\ v2' = [v2 EXCEPT ![o.hand] = f]
        /\ v2[o.hand] = Answers!Torn /\ (\E m \in Answers!Names : v1[m] = o.hand) => f = value
  BY DEF Answers!WriteTemp
<1>2. v1' = v1 /\ v3' = [v3 EXCEPT ![p] = [o EXCEPT !.pc = pc, !.hand = 0, !.log = none]]
  BY DEF Answers!WriteTemp, Answers!Go
<1>3. NamesFit(v1, v2) /\ v4 \in Nat /\ FilesFit(v2, v4) /\ OpFits(o, v4) /\ o.hand \in Nat
  BY OpOf DEF CacheFits, Ops
<1>4. f \in CacheFiles /\ UpTo(f.log, v4)
  BY <1>3, FilesAre, NoLogIsOld
<1>5. /\ NamesFit(v1', v2') /\ FilesCome(v2, v2', {f})
  <2>1. PICK ct : ct = v2'
    OBVIOUS
  <2>2. WritesTo(v2, o.hand, f, ct)
    BY <1>1, <2>1 DEF WritesTo
  <2>3. NamesFit(v1, ct) /\ FilesCome(v2, ct, {f})
    BY <1>3, <1>4, <2>2, WritingKeeps
  <2> QED
    BY <1>2, <2>1, <2>3
<1>6. FilesFit(v2', v4)
  BY <1>3, <1>4, <1>5, ComingIsOld
<1>7. PICK r : r = [o EXCEPT !.pc = pc, !.hand = 0, !.log = none]
  OBVIOUS
<1>8. /\ r \in Ops /\ r.pc = pc /\ SameOp(r, o) /\ r.log = none
      /\ r.listed = o.listed /\ r.op = o.op /\ r.key = o.key
  BY <1>7, FilesAre DEF Ops, Pcs, SameOp
<1>9. OpFits(r, v4)
  BY <1>3, <1>8, NoLogIsOld DEF OpFits
<1>10. ASSUME o.op = "set", LoneFits(o, v1, v2)
       PROVE  LoneFits(r, v1', v2')
  <2>1. o.key \in Keys /\ o.at \in Nat /\ o.at > 0 /\ r.at = o.at /\ EntryFits(o, v1, v2) /\ LogFits(o, v1, v2) /\ SizeFits(o, v1)
    BY <1>3, <1>8, <1>10 DEF OpFits, LoneFits, Ops, SameOp
  <2>2. Opened(Answers!Temp(n), o, v1, v2)
    BY <2>1 DEF EntryFits, LogFits
  <2>3. Answers!Temp(n) \in Answers!Names /\ v1[Answers!Temp(n)] = o.hand /\ o.hand # 0 /\ v2[o.hand] = Answers!Torn
    BY <2>2, NamesApart DEF Opened
  <2>4. f = value
    BY <1>1, <2>3
  <2>5. v1'[Answers!Temp(n)] # 0 /\ v2'[v1'[Answers!Temp(n)]] = value /\ OthersStay(v1, v2, v1', v2', {Answers!Temp(n)})
    <3>1. PICK ct : ct = v2'
      OBVIOUS
    <3>2. WritesTo(v2, o.hand, f, ct)
      BY <1>1, <3>1 DEF WritesTo
    <3>3. ct[o.hand] = f /\ OthersStay(v1, v2, v1, ct, {Answers!Temp(n)})
      BY <1>3, <1>4, <2>3, <3>2, WritingStays
    <3> QED
      BY <1>2, <2>3, <2>4, <3>1, <3>3
  <2>6. \A k \in Keys : Answers!Entry(k) \in Answers!Names /\ Answers!Entry(k) \notin {Answers!Temp(n)}
    BY NamesApart
  <2>7. EntryFits(r, v1', v2')
    <3>1. CASE pc = "move"
      BY <1>8, <2>1, <2>5, <3>1 DEF EntryFits, Holds
    <3>2. CASE pc = "movelog"
      <4>1. CacheLimit > 0 => Holds(Answers!Entry(o.key), o, v1, v2)
        BY <2>1, <3>2 DEF EntryFits
      <4>2. CacheLimit > 0 => Holds(Answers!Entry(o.key), r, v1', v2')
        BY <1>8, <2>1, <2>5, <2>6, <4>1, StayingHolds
      <4> QED
        BY <1>8, <3>2, <4>2 DEF EntryFits
    <3> QED
      BY <3>1, <3>2
  <2>8. LogFits(r, v1', v2')
    <3>1. Younger(value.log, r)
      <4>1. CASE value = Answers!EntryFile(o.at)
        BY <2>1, <4>1, FilesAre, NoLogIsOld
      <4>2. CASE value = Answers!LogFile(o.log)
        <5>1. value.log = o.log
          BY <4>2, FilesAre DEF Ops
        <5> QED
          BY <1>8, <2>1, <5>1, SameOpIsYounger DEF LogFits
      <4> QED
        BY <4>1, <4>2
    <3>2. \A i \in 1 .. Len(v2') : Younger(v2'[i].log, r)
      <4>1. \A i \in 1 .. Len(v2) : Younger(v2[i].log, r)
        BY <1>8, <2>1, SameOpIsYounger DEF LogFits
      <4>2. \A g \in {f} : Younger(g.log, r)
        BY <2>4, <3>1
      <4> QED
        BY <1>5, <4>1, <4>2, ComingIsYounger
    <3>3. Younger(r.log, r)
      BY <1>8, <2>1, NoLogIsOld
    <3>4. ASSUME pc = "movelog"
          PROVE  /\ v1'[Answers!Temp(Answers!LogName)] # 0
                 /\ ~r.listed => HoldsLog(Answers!Temp(Answers!LogName), r, v1', v2')
      <4>1. n = Answers!LogName /\ value = Answers!LogFile(o.log) /\ o.pc = "writelog"
        BY <3>4
      <4>2. value.log = o.log /\ value.kind = "log"
        BY <4>1, FilesAre DEF Ops
      <4>3. ~o.listed => o.log[o.key] = o.at
        BY <2>1, <4>1 DEF LogFits
      <4> QED
        BY <1>8, <2>1, <2>5, <4>1, <4>2, <4>3 DEF HoldsLog, IsNewest
    <3> QED
      BY <1>8, <3>2, <3>3, <3>4 DEF LogFits
  <2>9. SizeFits(r, v1')
    BY <1>2, <1>8, <2>1 DEF SizeFits
  <2> QED
    BY <2>1, <2>7, <2>8, <2>9 DEF LoneFits
<1>11. o.pc # "idle" /\ r.pc # "idle"
  BY <1>8
<1> QED
  BY <1>2, <1>5, <1>6, <1>7, <1>8, <1>9, <1>10, <1>11, OpGoesOn

LEMMA WriteFits ==
  ASSUME CacheIsGiven, CacheFits, NEW p \in Users, Answers!Write(p) \/ Answers!WriteLog(p)
  PROVE  CacheFits'
<1>1. v3[p] \in Ops /\ OpFits(v3[p], v4) /\ v4 \in Nat
  BY OpOf DEF CacheFits
<1>2. v3[p].at \in Nat /\ v3[p].log \in Times /\ UpTo(v3[p].log, v4)
  BY <1>1 DEF Ops, OpFits
<1>3. CASE Answers!Write(p)
  <2>1. v3[p].pc = "write" /\ v3[p].key \in Keys
    BY <1>1, <1>3 DEF Answers!Write, Answers!At, OpFits
  <2>2. PICK n \in Answers!Targets : n = Answers!Entry(v3[p].key)
    BY <2>1, NamesApart
  <2>3. PICK value \in CacheFiles : value = Answers!EntryFile(v3[p].at)
    BY <1>2, FilesAre
  <2>4. UpTo(value.log, v4)
    BY <1>1, <1>2, <2>3, FilesAre, NoLogIsOld
  <2>5. Answers!WriteTemp(value, p, "move") /\ v4' = v4 /\ v5' = v5
    BY <1>3, <2>3 DEF Answers!Write
  <2> QED
    BY <2>1, <2>2, <2>3, <2>4, <2>5, WritingFits
<1>4. CASE Answers!WriteLog(p)
  <2>1. v3[p].pc = "writelog"
    BY <1>4 DEF Answers!WriteLog, Answers!At
  <2>2. PICK n \in Answers!Targets : n = Answers!LogName
    BY NamesApart
  <2>3. PICK value \in CacheFiles : value = Answers!LogFile(v3[p].log)
    BY <1>2, FilesAre
  <2>4. UpTo(value.log, v4)
    BY <1>2, <2>3, FilesAre
  <2>5. Answers!WriteTemp(value, p, "movelog") /\ v4' = v4 /\ v5' = v5
    BY <1>4, <2>3 DEF Answers!WriteLog
  <2> QED
    BY <2>1, <2>2, <2>3, <2>4, <2>5, WritingFits
<1> QED
  BY <1>3, <1>4

LEMMA FailingFits ==
  ASSUME CacheIsGiven, CacheFits, NEW p \in Users, v3[p].pc # "idle", Answers!Fails(p), v2' = v2, v4' = v4,
         ~(v3[p].op = "set" /\ LoneFits(v3[p], v1, v2))
  PROVE  CacheFits'
<1>1. NamesFit(v1, v2) /\ FilesFit(v2, v4) /\ OpFits(v3[p], v4)
  BY OpOf DEF CacheFits
<1>2. NamesFit(v1', v2')
  <2>1. CASE v3[p].op = "set"
    <3>1. PICK n \in Answers!Names : n = Answers!Temp(Answers!Entry(v3[p].key))
      BY <1>1, <2>1, NamesApart DEF OpFits
    <3>2. RemovesTo(v1, n, v1')
      BY <2>1, <3>1 DEF Answers!Fails, RemovesTo
    <3> QED
      BY <1>1, <3>2, RemovingKeeps
  <2>2. CASE v3[p].op # "set"
    BY <1>1, <2>2 DEF Answers!Fails
  <2> QED
    BY <2>1, <2>2
<1>3. Answers!End(p, "failed")
  BY DEF Answers!Fails
<1> QED
  BY <1>1, <1>2, <1>3, Ends

(* temp.replace(target): the entry                                         *)
LEMMA MoveEntryFits ==
  ASSUME CacheIsGiven, CacheFits, NEW p \in Users, Answers!Move(p)
  PROVE  CacheFits'
<1> PICK o \in Ops : o = v3[p]
  BY OpOf
<1>1. o.pc = "move" /\ v2' = v2 /\ v4' = v4
  BY DEF Answers!Move, Answers!At
<1>2. NamesFit(v1, v2) /\ FilesFit(v2, v4) /\ OpFits(o, v4)
  BY OpOf DEF CacheFits
<1>3. o.op = "set" /\ o.key \in Keys
  BY <1>1, <1>2 DEF OpFits
<1>4. PICK n \in Answers!Targets : n = Answers!Entry(o.key)
  BY <1>3, NamesApart
<1>5. CASE Answers!Moved(n) /\ v5' = v5 /\ v3' = [v3 EXCEPT ![p] = [o EXCEPT !.pc = "log"]]
  <2>1. MovesTo(v1, n, v1')
    BY <1>5 DEF Answers!Moved, MovesTo
  <2>2. NamesFit(v1', v2') /\ v1'[n] = v1[Answers!Temp(n)]
    <3>1. PICK nm : nm = v1'
      OBVIOUS
    <3>2. MovesTo(v1, n, nm)
      BY <2>1, <3>1
    <3>3. NamesFit(nm, v2)
      BY <1>2, <1>4, <3>2, MovingKeeps
    <3>4. nm[n] = v1[Answers!Temp(n)]
      BY <1>2, <1>4, <3>2, NamesApart DEF MovesTo, NamesFit
    <3> QED
      BY <1>1, <3>1, <3>3, <3>4
  <2>3. PICK r : r = [o EXCEPT !.pc = "log"]
    OBVIOUS
  <2>4. /\ r \in Ops /\ r.pc = "log" /\ SameOp(r, o) /\ r.log = o.log /\ r.op = o.op /\ r.key = o.key
        /\ r.at = o.at /\ r.listed = o.listed
    BY <2>3 DEF Ops, Pcs, SameOp
  <2>5. OpFits(r, v4)
    BY <1>2, <1>3, <2>4 DEF OpFits
  <2>6. ASSUME LoneFits(o, v1, v2)
        PROVE  LoneFits(r, v1', v2')
    <3>1. o.at > 0 /\ EntryFits(o, v1, v2) /\ LogFits(o, v1, v2) /\ SizeFits(o, v1)
      BY <2>6 DEF LoneFits
    <3>2. Holds(Answers!Temp(n), o, v1, v2)
      BY <1>1, <1>4, <3>1 DEF EntryFits
    <3>3. Holds(n, r, v1', v2')
      BY <1>1, <2>2, <2>4, <3>2 DEF Holds
    <3>4. EntryFits(r, v1', v2')
      BY <1>4, <2>4, <3>3 DEF EntryFits
    <3>5. LogFits(r, v1', v2')
      BY <1>1, <2>4, <3>1, SameOpIsYounger DEF LogFits
    <3>6. SizeFits(r, v1')
      BY <1>1, <2>4, <3>1 DEF SizeFits
    <3> QED
      BY <2>4, <3>1, <3>4, <3>5, <3>6 DEF LoneFits
  <2>7. o.pc # "idle" /\ r.pc # "idle" /\ v3' = [v3 EXCEPT ![p] = r]
    BY <1>1, <1>5, <2>3, <2>4
  <2> QED
    BY <1>1, <1>2, <1>5, <2>2, <2>4, <2>5, <2>6, <2>7, OpGoesOn
<1>6. CASE v1[Answers!Temp(n)] = 0 /\ Answers!Fails(p)
  <2>1. ~(o.op = "set" /\ LoneFits(o, v1, v2))
    BY <1>1, <1>4, <1>6 DEF LoneFits, EntryFits, Holds
  <2> QED
    BY <1>1, <1>6, <2>1, FailingFits
<1> QED
  BY <1>4, <1>5, <1>6 DEF Answers!Move, Answers!Go

(* _update_access_time reads the log                                       *)
LEMMA ReadableIs ==
  ASSUME CacheFits
  PROVE  /\ Answers!ReadableLog \in Times /\ UpTo(Answers!ReadableLog, v4)
         /\ \A r : /\ r.at \in Nat /\ r.at > 0 /\ (\A i \in 1 .. Len(v2) : Younger(v2[i].log, r))
                        => Younger(Answers!ReadableLog, r)
                   /\ HoldsLog(Answers!LogName, r, v1, v2) => Answers!ReadableLog[r.key] = r.at
<1> PICK log : log = Answers!ReadableLog
  OBVIOUS
<1>1. NamesFit(v1, v2) /\ FilesFit(v2, v4) /\ v4 \in Nat
  BY DEF CacheFits
<1>2. PICK file : file = v1[Answers!LogName]
  OBVIOUS
<1>3. log = IF file # 0 /\ v2[file].kind = "log" THEN v2[file].log ELSE Answers!NoLog
  BY <1>2 DEF Answers!ReadableLog
<1>4. file \in Nat /\ file <= Len(v2) /\ v2 \in Seq(CacheFiles)
  BY <1>1, <1>2, NamesApart DEF NamesFit
<1>5. file # 0 => file \in 1 .. Len(v2) /\ v2[file] \in CacheFiles
  BY <1>4
<1>6. log \in Times /\ UpTo(log, v4)
  BY <1>1, <1>3, <1>5, FilesAre, NoLogIsOld DEF FilesFit, CacheFiles
<1>7. ASSUME NEW r, r.at \in Nat, r.at > 0, \A i \in 1 .. Len(v2) : Younger(v2[i].log, r)
      PROVE  Younger(log, r)
  BY <1>3, <1>5, <1>7, NoLogIsOld
<1>8. ASSUME NEW r, HoldsLog(Answers!LogName, r, v1, v2)
      PROVE  log[r.key] = r.at
  BY <1>2, <1>3, <1>8 DEF HoldsLog, IsNewest
<1> QED
  BY <1>6, <1>7, <1>8

LEMMA ReadLogFits ==
  ASSUME CacheIsGiven, CacheFits, NEW p \in Users, Answers!ReadLog(p)
  PROVE  CacheFits'
<1> PICK o \in Ops : o = v3[p]
  BY OpOf
<1> PICK old : old = Answers!ReadableLog
  OBVIOUS
<1>1. /\ o.pc = "log" /\ v1' = v1 /\ v2' = v2 /\ v4' = v4 /\ v5' = v5
      /\ v3' = [v3 EXCEPT ![p] = [o EXCEPT !.pc = "openlog", !.log = [old EXCEPT ![o.key] = v4]]]
  BY DEF Answers!ReadLog, Answers!At, Answers!Go
<1>2. NamesFit(v1, v2) /\ FilesFit(v2, v4) /\ OpFits(o, v4) /\ v4 \in Nat
  BY OpOf DEF CacheFits
<1>3. o.op \in {"get", "set"} /\ o.key \in Keys
  BY <1>1, <1>2 DEF OpFits
<1>4. old \in Times /\ UpTo(old, v4)
  BY ReadableIs
<1>5. PICK log : log = [old EXCEPT ![o.key] = v4]
  OBVIOUS
<1>6. log \in Times /\ log[o.key] = v4 /\ \A l \in Keys : l # o.key => log[l] = old[l]
  BY <1>2, <1>3, <1>4, <1>5 DEF Times
<1>7. UpTo(log, v4)
  BY <1>2, <1>4, <1>6 DEF UpTo
<1>8. PICK r : r = [o EXCEPT !.pc = "openlog", !.log = log]
  OBVIOUS
<1>9. /\ r \in Ops /\ r.pc = "openlog" /\ SameOp(r, o) /\ r.log = log /\ r.op = o.op /\ r.key = o.key
      /\ r.at = o.at /\ r.listed = o.listed
  BY <1>6, <1>8 DEF Ops, Pcs, SameOp
<1>10. OpFits(r, v4)
  BY <1>2, <1>3, <1>7, <1>9 DEF OpFits
<1>11. ASSUME o.op = "set", o.at = v4, LoneFits(o, v1, v2)
       PROVE  LoneFits(r, v1', v2')
  <2>1. o.at > 0 /\ EntryFits(o, v1, v2) /\ LogFits(o, v1, v2) /\ SizeFits(o, v1) /\ o.at \in Nat
    BY <1>2, <1>11 DEF LoneFits
  <2>2. Younger(old, o)
    BY <2>1, ReadableIs DEF LogFits
  <2>3. Younger(log, r) /\ r.log[r.key] = r.at
    BY <1>6, <1>9, <1>11, <2>2 DEF Younger
  <2>4. CacheLimit > 0 => Holds(Answers!Entry(o.key), o, v1, v2)
    BY <1>1, <2>1 DEF EntryFits
  <2>5. EntryFits(r, v1', v2')
    BY <1>1, <1>9, <2>4 DEF EntryFits, Holds
  <2>6. LogFits(r, v1', v2')
    BY <1>1, <1>9, <2>1, <2>3, SameOpIsYounger DEF LogFits
  <2>7. SizeFits(r, v1')
    BY <1>1, <1>9, <2>1 DEF SizeFits
  <2> QED
    BY <1>9, <2>1, <2>5, <2>6, <2>7 DEF LoneFits
<1>12. o.pc # "idle" /\ r.pc # "idle" /\ v3' = [v3 EXCEPT ![p] = r] /\ NamesFit(v1', v2') /\ FilesFit(v2', v4)
  BY <1>1, <1>2, <1>5, <1>8, <1>9
<1> QED
  BY <1>1, <1>9, <1>10, <1>11, <1>12, OpGoesOn

(* _enforce_size_limit and clear list the files                            *)
LEMMA ListFits ==
  ASSUME CacheIsGiven, CacheFits, NEW p \in Users, Answers!List(p)
  PROVE  CacheFits'
<1> PICK o \in Ops : o = v3[p]
  BY OpOf
<1> PICK seen : seen = PresentIn(v1)
  OBVIOUS
<1>1. o.pc = "list" /\ v1' = v1 /\ v2' = v2 /\ v4' = v4 /\ v5' = v5
  BY DEF Answers!List, Answers!At
<1>2. v3' = [v3 EXCEPT ![p] = [o EXCEPT !.pc = "stat", !.seen = seen]]
  BY DEF Answers!List, Answers!Go, Answers!Present, PresentIn
<1>3. NamesFit(v1, v2) /\ FilesFit(v2, v4) /\ OpFits(o, v4)
  BY OpOf DEF CacheFits
<1>4. PICK r : r = [o EXCEPT !.pc = "stat", !.seen = seen]
  OBVIOUS
<1>5. seen \in SUBSET Keys
  BY PresentIsFinite
<1>6. /\ r \in Ops /\ r.pc = "stat" /\ SameOp(r, o) /\ r.log = o.log /\ r.op = o.op /\ r.key = o.key
      /\ r.at = o.at /\ r.seen = seen
  BY <1>4, <1>5 DEF Ops, Pcs, SameOp
<1>7. OpFits(r, v4)
  BY <1>1, <1>3, <1>6 DEF OpFits
<1>8. ASSUME LoneFits(o, v1, v2)
      PROVE  LoneFits(r, v1', v2')
  <2>1. o.at > 0 /\ EntryFits(o, v1, v2) /\ LogFits(o, v1, v2)
    BY <1>8 DEF LoneFits
  <2>2. CacheLimit > 0 => Holds(Answers!Entry(o.key), o, v1, v2)
    BY <1>1, <2>1 DEF EntryFits
  <2>3. EntryFits(r, v1', v2')
    BY <1>1, <1>6, <2>2 DEF EntryFits, Holds
  <2>4. HoldsLog(Answers!LogName, r, v1', v2')
    BY <1>1, <1>6, <2>1 DEF LogFits, HoldsLog, IsNewest
  <2>5. LogFits(r, v1', v2')
    BY <1>1, <1>6, <2>1, <2>4, SameOpIsYounger DEF LogFits
  <2>6. SizeFits(r, v1')
    BY <1>1, <1>6 DEF SizeFits
  <2> QED
    BY <1>6, <2>1, <2>3, <2>5, <2>6 DEF LoneFits
<1>9. o.pc # "idle" /\ r.pc # "idle" /\ v3' = [v3 EXCEPT ![p] = r] /\ NamesFit(v1', v2') /\ FilesFit(v2', v4)
  BY <1>1, <1>2, <1>3, <1>4, <1>6
<1> QED
  BY <1>1, <1>6, <1>7, <1>8, <1>9, OpGoesOn

(* temp.replace(target): the log                                           *)
GoesToList(o, p) ==
  o.op = "set" /\ ~o.listed /\ v5' = v5 /\ v3' = [v3 EXCEPT ![p] = [o EXCEPT !.pc = "list"]]
EndsLogged(o, p) ==
  /\ o.op = "set" => o.listed
  /\ \E end \in {"hit", "done"} : Answers!End(p, end) /\ (o.op = "set" => end = "done")

LEMMA MoveLogFits ==
  ASSUME CacheIsGiven, CacheFits, NEW p \in Users, Answers!MoveLog(p)
  PROVE  CacheFits'
<1> PICK o \in Ops : o = v3[p]
  BY OpOf
<1>1. o.pc = "movelog" /\ v2' = v2 /\ v4' = v4
  BY DEF Answers!MoveLog, Answers!At
<1>2. NamesFit(v1, v2) /\ FilesFit(v2, v4) /\ OpFits(o, v4)
  BY OpOf DEF CacheFits
<1>3. PICK n \in Answers!Targets : n = Answers!LogName
  BY NamesApart
<1>4. CASE Answers!Moved(n) /\ (GoesToList(o, p) \/ EndsLogged(o, p))
  <2>1. PICK nm : nm = v1'
    OBVIOUS
  <2>2. MovesTo(v1, n, nm)
    BY <1>4, <2>1 DEF Answers!Moved, MovesTo
  <2>3. NamesFit(nm, v2) /\ OthersStay(v1, v2, nm, v2, MovedNames(n))
    BY <1>2, <1>3, <2>2, MovingKeeps
  <2>4. nm[n] = v1[Answers!Temp(n)]
    BY <1>2, <1>3, <2>2, NamesApart DEF MovesTo, NamesFit
  <2>5. \A k \in Keys : Answers!Entry(k) \in Answers!Names \ MovedNames(n)
    BY <1>3, NamesApart DEF MovedNames
  <2>6. Small(v1) => Small(nm)
    BY <2>3, <2>5, StayingIsPresent
  <2>7. ASSUME o.op = "set", LoneFits(o, v1, v2), CacheLimit > 0, NEW r, SameOp(r, o)
        PROVE  Holds(Answers!Entry(o.key), r, nm, v2)
    <3>1. Holds(Answers!Entry(o.key), o, v1, v2) /\ o.key \in Keys
      BY <1>1, <1>2, <2>7 DEF LoneFits, EntryFits, OpFits
    <3> QED
      BY <2>3, <2>5, <2>7, <3>1, StayingHolds
  <2>8. CASE GoesToList(o, p)
    <3>1. PICK r : r = [o EXCEPT !.pc = "list"]
      OBVIOUS
    <3>2. /\ r \in Ops /\ r.pc = "list" /\ SameOp(r, o) /\ r.log = o.log /\ r.op = o.op /\ r.key = o.key
          /\ r.at = o.at /\ r.listed = o.listed
      BY <3>1 DEF Ops, Pcs, SameOp
    <3>3. OpFits(r, v4)
      BY <1>2, <2>8, <3>2 DEF OpFits, GoesToList
    <3>4. ASSUME LoneFits(o, v1, v2)
          PROVE  LoneFits(r, nm, v2)
      <4>1. o.at > 0 /\ LogFits(o, v1, v2)
        BY <3>4 DEF LoneFits
      <4>2. HoldsLog(Answers!Temp(n), o, v1, v2)
        BY <1>1, <1>3, <2>8, <4>1 DEF LogFits, GoesToList
      <4>3. HoldsLog(n, r, nm, v2)
        BY <2>4, <3>2, <4>2 DEF HoldsLog, IsNewest
      <4>4. EntryFits(r, nm, v2)
        BY <2>7, <2>8, <3>2, <3>4 DEF EntryFits, GoesToList
      <4>5. LogFits(r, nm, v2)
        BY <1>3, <3>2, <4>1, <4>3, SameOpIsYounger DEF LogFits
      <4>6. SizeFits(r, nm)
        BY <3>2 DEF SizeFits
      <4> QED
        BY <3>2, <4>1, <4>4, <4>5, <4>6 DEF LoneFits
    <3>5. o.pc # "idle" /\ r.pc # "idle" /\ v3' = [v3 EXCEPT ![p] = r]
      BY <1>1, <2>8, <3>1, <3>2 DEF GoesToList
    <3>6. NamesFit(v1', v2') /\ FilesFit(v2', v4) /\ (LoneFits(o, v1, v2) => LoneFits(r, v1', v2'))
      BY <1>1, <1>2, <2>1, <2>3, <3>4
    <3> QED
      BY <1>1, <2>8, <3>2, <3>3, <3>5, <3>6, OpGoesOn DEF GoesToList
  <2>9. CASE EndsLogged(o, p)
    <3>1. PICK end \in {"hit", "done"} : Answers!End(p, end) /\ (o.op = "set" => end = "done")
      BY <2>9 DEF EndsLogged
    <3>2. ASSUME o.op = "set", LoneFits(o, v1, v2)
          PROVE  end = "done" /\ Small(v1') /\ (CacheLimit > 0 => Holds(Answers!Entry(o.key), o, v1', v2'))
      <4>1. Small(v1)
        BY <1>1, <2>9, <3>2 DEF LoneFits, SizeFits, EndsLogged
      <4>2. CacheLimit > 0 => Holds(Answers!Entry(o.key), o, nm, v2)
        BY <2>7, <3>2 DEF SameOp
      <4> QED
        BY <1>1, <2>1, <2>6, <3>1, <3>2, <4>1, <4>2
    <3>3. NamesFit(v1', v2') /\ FilesFit(v2', v4) /\ end \in {"hit", "miss", "failed", "done"}
      BY <1>1, <1>2, <2>1, <2>3
    <3> QED
      BY <1>1, <3>1, <3>2, <3>3, Ends
  <2> QED
    BY <1>4, <2>8, <2>9
<1>5. CASE v1[Answers!Temp(n)] = 0 /\ Answers!Fails(p)
  <2>1. ~(o.op = "set" /\ LoneFits(o, v1, v2))
    BY <1>1, <1>3, <1>5 DEF LoneFits, LogFits
  <2> QED
    BY <1>1, <1>5, <2>1, FailingFits
<1>6. \/ Answers!Moved(n) /\ (GoesToList(o, p) \/ EndsLogged(o, p))
      \/ v1[Answers!Temp(n)] = 0 /\ Answers!Fails(p)
  BY <1>3 DEF Answers!MoveLog, Answers!Go, GoesToList, EndsLogged
<1> QED
  BY <1>4, <1>5, <1>6

LEMMA CacheCounts == \A S : Answers!Cardinality(S) = Cardinality(S)
  BY DEF Answers!Cardinality, Cardinality

(* stat: the size of what was listed                                       *)
LEMMA StatFits ==
  ASSUME CacheIsGiven, CacheFits, NEW p \in Users, Answers!Stat(p)
  PROVE  CacheFits'
<1> PICK o \in Ops : o = v3[p]
  BY OpOf
<1> PICK log : log = IF o.op = "clear" THEN Answers!NoLog ELSE Answers!ReadableLog
  OBVIOUS
<1> PICK size : size = Cardinality(o.seen)
  OBVIOUS
<1>1. o.pc = "stat" /\ v2' = v2 /\ v4' = v4
  BY DEF Answers!Stat, Answers!At
<1>2. NamesFit(v1, v2) /\ FilesFit(v2, v4) /\ OpFits(o, v4) /\ v4 \in Nat
  BY OpOf DEF CacheFits
<1>3. /\ o.op \in {"set", "clear"} /\ o.seen \subseteq Keys /\ size \in Nat
  BY <1>1, <1>2, FS_Subset, FS_CardinalityType DEF OpFits, Ops, CacheIsGiven
<1>4. LoneFits(o, v1, v2) => o.seen = PresentIn(v1)
  BY <1>1 DEF LoneFits, SizeFits
<1>5. CASE v1' = v1 /\ o.op = "set" /\ size <= CacheLimit /\ Answers!End(p, "done")
  <2>1. ASSUME LoneFits(o, v1, v2)
        PROVE  Small(v1') /\ (CacheLimit > 0 => Holds(Answers!Entry(o.key), o, v1', v2'))
    <3>1. Small(v1')
      BY <1>4, <1>5, <2>1 DEF Small
    <3>2. CacheLimit > 0 => Holds(Answers!Entry(o.key), o, v1, v2)
      BY <1>1, <2>1 DEF LoneFits, EntryFits
    <3> QED
      BY <1>1, <1>5, <3>1, <3>2
  <2>2. NamesFit(v1', v2') /\ FilesFit(v2', v4)
    BY <1>1, <1>2, <1>5
  <2> QED
    BY <1>1, <1>5, <2>1, <2>2, Ends
<1>6. CASE /\ v1' = v1 /\ v5' = v5
           /\ v3' = [v3 EXCEPT ![p] = [o EXCEPT !.pc = "evict", !.listed = TRUE, !.log = log, !.size = size]]
  <2>1. PICK r : r = [o EXCEPT !.pc = "evict", !.listed = TRUE, !.log = log, !.size = size]
    OBVIOUS
  <2>2. log \in Times /\ UpTo(log, v4)
    BY <1>2, ReadableIs, FilesAre, NoLogIsOld
  <2>3. /\ r \in Ops /\ r.pc = "evict" /\ SameOp(r, o) /\ r.log = log /\ r.op = o.op /\ r.key = o.key
        /\ r.at = o.at /\ r.listed = TRUE /\ r.seen = o.seen /\ r.size = size
    <3>1. size \in Int
      BY <1>3
    <3>2. r \in Ops
      BY <2>1, <2>2, <3>1 DEF Ops, Pcs
    <3>3. SameOp(r, o) /\ r.op = o.op /\ r.key = o.key /\ r.at = o.at
      BY <2>1 DEF Ops, SameOp
    <3> QED
      BY <2>1, <3>2, <3>3 DEF Ops
  <2>4. OpFits(r, v4)
    BY <1>2, <1>3, <2>2, <2>3 DEF OpFits
  <2>5. ASSUME o.op = "set", LoneFits(o, v1, v2)
        PROVE  LoneFits(r, v1', v2')
    <3>1. o.at > 0 /\ o.at \in Nat /\ EntryFits(o, v1, v2) /\ LogFits(o, v1, v2)
      BY <2>5 DEF LoneFits, Ops
    <3>2. CacheLimit > 0 => Holds(Answers!Entry(o.key), o, v1, v2)
      BY <1>1, <3>1 DEF EntryFits
    <3>3. EntryFits(r, v1', v2')
      BY <1>1, <1>6, <2>3, <3>2 DEF EntryFits, Holds
    <3>4. Younger(log, r) /\ log[o.key] = o.at
      <4>1. log = Answers!ReadableLog
        BY <2>5
      <4>2. Younger(Answers!ReadableLog, o)
        BY <3>1, ReadableIs DEF LogFits
      <4>3. HoldsLog(Answers!LogName, o, v1, v2)
        BY <1>1, <3>1 DEF LogFits
      <4> QED
        BY <2>3, <4>1, <4>2, <4>3, ReadableIs, SameOpIsYounger
    <3>5. LogFits(r, v1', v2')
      BY <1>1, <1>6, <2>3, <3>1, <3>4, SameOpIsYounger DEF LogFits
    <3>6. SizeFits(r, v1')
      BY <1>4, <1>6, <2>3, <2>5, <3>4 DEF SizeFits
    <3> QED
      BY <2>3, <3>1, <3>3, <3>5, <3>6 DEF LoneFits
  <2>6. o.pc # "idle" /\ r.pc # "idle" /\ v3' = [v3 EXCEPT ![p] = r] /\ NamesFit(v1', v2') /\ FilesFit(v2', v4)
    BY <1>1, <1>2, <1>6, <2>1, <2>3
  <2> QED
    BY <1>1, <1>6, <2>3, <2>4, <2>5, <2>6, OpGoesOn
<1>7. CASE ~(o.seen \subseteq PresentIn(v1)) /\ Answers!Fails(p)
  BY <1>1, <1>4, <1>7, FailingFits
<1>8. \/ v1' = v1 /\ o.op = "set" /\ size <= CacheLimit /\ Answers!End(p, "done")
      \/ /\ v1' = v1 /\ v5' = v5
         /\ v3' = [v3 EXCEPT ![p] = [o EXCEPT !.pc = "evict", !.listed = TRUE, !.log = log, !.size = size]]
      \/ ~(o.seen \subseteq PresentIn(v1)) /\ Answers!Fails(p)
  BY CacheCounts DEF Answers!Stat, Answers!Go, Answers!Present, PresentIn
<1> QED
  BY <1>5, <1>6, <1>7, <1>8

(* The eviction: a set that is alone does not evict its own entry, which   *)
(* is the newest, unless nothing may stay.                                 *)
LEMMA OwnIsKept ==
  ASSUME CacheIsGiven, NEW o \in Ops, OpFits(o, v4), o.pc = "evict", o.op = "set", LoneFits(o, v1, v2),
         o.size > CacheLimit, NEW k \in o.seen, \A l \in o.seen : o.log[k] <= o.log[l], CacheLimit > 0
  PROVE  k # o.key
<1> SUFFICES ASSUME k = o.key
             PROVE  FALSE
  OBVIOUS
<1>1. SizeFits(o, v1) /\ LogFits(o, v1, v2) /\ o.seen \subseteq Keys /\ o.at \in Nat /\ o.log \in Times
  BY DEF LoneFits, Ops
<1>2. o.log[k] = o.at /\ o.size = Cardinality(o.seen)
  BY <1>1 DEF SizeFits
<1>3. \A l \in o.seen : l # k => o.log[l] < o.at /\ o.log[l] \in Nat
  BY <1>1 DEF LogFits, Younger, Times
<1>4. \A l \in o.seen : l = k
  BY <1>1, <1>2, <1>3
<1>5. o.seen = {k}
  BY <1>4
<1>6. o.size = 1
  BY <1>2, <1>5, FS_Singleton
<1> QED
  BY <1>6 DEF CacheIsGiven

EvictsTo(o, k, r) == r = [o EXCEPT !.seen = o.seen \ {k}, !.size = o.size - 1, !.log[k] = 0]

LEMMA EvictFits ==
  ASSUME CacheIsGiven, CacheFits, NEW p \in Users, Answers!Evict(p)
  PROVE  CacheFits'
<1> PICK o \in Ops : o = v3[p]
  BY OpOf
<1>1. o.pc = "evict" /\ v2' = v2 /\ v4' = v4 /\ o.seen # {} /\ ~(o.op = "set" /\ o.size <= CacheLimit)
  BY DEF Answers!Evict, Answers!At, Answers!Enough
<1>2. NamesFit(v1, v2) /\ FilesFit(v2, v4) /\ OpFits(o, v4) /\ v4 \in Nat
  BY OpOf DEF CacheFits
<1>3. /\ o.op \in {"set", "clear"} /\ o.seen \subseteq Keys /\ o.size \in Int /\ o.at \in Nat
      /\ o.log \in Times /\ UpTo(o.log, v4)
  BY <1>1, <1>2 DEF OpFits, Ops
<1>4. LoneFits(o, v1, v2) => o.seen = PresentIn(v1)
  BY <1>1 DEF LoneFits, SizeFits
<1>5. PICK k \in o.seen :
        /\ \A l \in o.seen : o.log[k] <= o.log[l]
        /\ \/ /\ k \in PresentIn(v1) /\ v1' = [v1 EXCEPT ![Answers!Entry(k)] = 0] /\ v5' = v5
              /\ v3' = [v3 EXCEPT ![p] = [o EXCEPT !.seen = o.seen \ {k}, !.size = o.size - 1, !.log[k] = 0]]
           \/ k \notin PresentIn(v1) /\ o.op = "clear" /\ Answers!Fails(p)
           \/ /\ k \notin PresentIn(v1) /\ v1' = v1 /\ v5' = v5
              /\ v3' = [v3 EXCEPT ![p] = [o EXCEPT !.seen = o.seen \ {k}]]
  BY DEF Answers!Evict, Answers!Oldest, Answers!Go, Answers!Present, PresentIn
<1>6. k \in Keys
  BY <1>3, <1>5
<1>7. CASE /\ k \in PresentIn(v1) /\ v1' = [v1 EXCEPT ![Answers!Entry(k)] = 0] /\ v5' = v5
           /\ v3' = [v3 EXCEPT ![p] = [o EXCEPT !.seen = o.seen \ {k}, !.size = o.size - 1, !.log[k] = 0]]
  <2>1. PICK r : EvictsTo(o, k, r)
    BY DEF EvictsTo
  <2>2. PICK log : log = [o.log EXCEPT ![k] = 0]
    OBVIOUS
  <2>3. log \in Times /\ log[k] = 0 /\ \A l \in Keys : l # k => log[l] = o.log[l]
    BY <1>3, <1>6, <2>2 DEF Times
  <2>4. r = [o EXCEPT !.seen = o.seen \ {k}, !.size = o.size - 1, !.log = log]
    BY <2>1, <2>2 DEF EvictsTo, Ops
  <2>5. o.seen \ {k} \in SUBSET Keys /\ o.size - 1 \in Int
    BY <1>3
  <2>6. /\ r \in Ops /\ r.pc = "evict" /\ SameOp(r, o) /\ r.log = log /\ r.op = o.op /\ r.key = o.key
        /\ r.at = o.at /\ r.listed = o.listed /\ r.seen = o.seen \ {k} /\ r.size = o.size - 1
    BY <1>1, <2>3, <2>4, <2>5 DEF Ops, Pcs, SameOp
  <2>7. UpTo(log, v4)
    BY <1>2, <1>3, <2>3 DEF UpTo
  <2>8. OpFits(r, v4)
    BY <1>2, <1>3, <2>6, <2>7 DEF OpFits
  <2>9. PICK n \in Answers!Names : n = Answers!Entry(k)
    BY <1>6, NamesApart
  <2>10. PICK nm : nm = v1'
    OBVIOUS
  <2>11. RemovesTo(v1, n, nm)
    BY <1>7, <2>9, <2>10 DEF RemovesTo
  <2>12. NamesFit(nm, v2) /\ nm[n] = 0 /\ OthersStay(v1, v2, nm, v2, {n})
    BY <1>2, <2>9, <2>11, RemovingKeeps
  <2>13. PresentIn(nm) = PresentIn(v1) \ {k}
    <3>1. \A l \in Keys : l # k => nm[Answers!Entry(l)] = v1[Answers!Entry(l)]
      BY <2>9, <2>12, NamesApart DEF OthersStay
    <3> QED
      BY <2>9, <2>12, <3>1 DEF PresentIn
  <2>14. ASSUME o.op = "set", LoneFits(o, v1, v2)
         PROVE  LoneFits(r, nm, v2)
    <3>1. o.at > 0 /\ EntryFits(o, v1, v2) /\ LogFits(o, v1, v2) /\ SizeFits(o, v1) /\ o.key \in Keys
      BY <1>2, <2>14 DEF LoneFits, OpFits
    <3>2. CacheLimit > 0 => Holds(Answers!Entry(o.key), r, nm, v2)
      <4> SUFFICES ASSUME CacheLimit > 0
                   PROVE  Holds(Answers!Entry(o.key), r, nm, v2)
        OBVIOUS
      <4>1. k # o.key
        BY <1>1, <1>2, <1>3, <1>5, <2>14, OwnIsKept DEF CacheIsGiven
      <4>2. Answers!Entry(o.key) \in Answers!Names \ {n}
        BY <2>9, <3>1, <4>1, NamesApart
      <4>3. Holds(Answers!Entry(o.key), o, v1, v2)
        BY <1>1, <3>1 DEF EntryFits
      <4> QED
        BY <2>6, <2>12, <4>2, <4>3, StayingHolds
    <3>3. EntryFits(r, nm, v2)
      BY <2>6, <3>2 DEF EntryFits
    <3>4. Younger(log, r)
      BY <1>3, <2>3, <2>6, <3>1 DEF LogFits, Younger
    <3>5. LogFits(r, nm, v2)
      BY <2>6, <3>1, <3>4, SameOpIsYounger DEF LogFits
    <3>6. r.seen = PresentIn(nm) /\ r.listed
      BY <1>1, <1>4, <2>6, <2>13, <2>14, <3>1 DEF SizeFits
    <3>7. r.size = Cardinality(r.seen)
      <4>1. IsFiniteSet(o.seen) /\ o.size = Cardinality(o.seen)
        BY <1>1, <1>3, <3>1, FS_Subset DEF SizeFits, CacheIsGiven
      <4> QED
        BY <2>6, <4>1, FS_RemoveElement
    <3>8. r.key \in r.seen => r.log[r.key] = r.at
      BY <1>1, <2>3, <2>6, <3>1 DEF SizeFits
    <3>9. SizeFits(r, nm)
      BY <2>6, <3>6, <3>7, <3>8 DEF SizeFits
    <3> QED
      BY <2>6, <3>1, <3>3, <3>5, <3>9 DEF LoneFits
  <2>15. o.pc # "idle" /\ r.pc # "idle" /\ v3' = [v3 EXCEPT ![p] = r]
    BY <1>1, <1>7, <2>1, <2>6 DEF EvictsTo
  <2>16. NamesFit(v1', v2') /\ FilesFit(v2', v4) /\ (o.op = "set" /\ LoneFits(o, v1, v2) => LoneFits(r, v1', v2'))
    BY <1>1, <1>2, <2>10, <2>12, <2>14
  <2> QED
    BY <1>1, <1>7, <2>6, <2>8, <2>15, <2>16, OpGoesOn
<1>8. CASE k \notin PresentIn(v1) /\ o.op = "clear" /\ Answers!Fails(p)
  BY <1>1, <1>8, FailingFits
<1>9. CASE /\ k \notin PresentIn(v1) /\ v1' = v1 /\ v5' = v5
           /\ v3' = [v3 EXCEPT ![p] = [o EXCEPT !.seen = o.seen \ {k}]]
  <2>1. PICK r : r = [o EXCEPT !.seen = o.seen \ {k}]
    OBVIOUS
  <2>2. r \in Ops /\ r.pc = o.pc /\ SameOp(r, o) /\ r.log = o.log /\ r.op = o.op /\ r.key = o.key
    BY <1>3, <2>1 DEF Ops, SameOp
  <2>3. OpFits(r, v4)
    BY <1>1, <1>2, <1>3, <2>2 DEF OpFits
  <2>4. ~LoneFits(o, v1, v2)
    BY <1>4, <1>5, <1>9
  <2>5. o.pc # "idle" /\ r.pc # "idle" /\ v3' = [v3 EXCEPT ![p] = r] /\ NamesFit(v1', v2') /\ FilesFit(v2', v4)
    BY <1>1, <1>2, <1>9, <2>1, <2>2
  <2> QED
    BY <1>1, <1>9, <2>2, <2>3, <2>4, <2>5, OpGoesOn
<1> QED
  BY <1>5, <1>7, <1>8, <1>9

LEMMA EvictedFits ==
  ASSUME CacheIsGiven, CacheFits, NEW p \in Users, Answers!Evicted(p)
  PROVE  CacheFits'
<1> PICK o \in Ops : o = v3[p]
  BY OpOf
<1>1. /\ o.pc = "evict" /\ v1' = v1 /\ v2' = v2 /\ v4' = v4 /\ v5' = v5
      /\ v3' = [v3 EXCEPT ![p] = [o EXCEPT !.pc = "openlog"]]
  BY DEF Answers!Evicted, Answers!At, Answers!Go
<1>2. o.seen = {} \/ (o.op = "set" /\ o.size <= CacheLimit)
  BY DEF Answers!Evicted, Answers!Enough
<1>3. NamesFit(v1, v2) /\ FilesFit(v2, v4) /\ OpFits(o, v4)
  BY OpOf DEF CacheFits
<1>4. PICK r : r = [o EXCEPT !.pc = "openlog"]
  OBVIOUS
<1>5. /\ r \in Ops /\ r.pc = "openlog" /\ SameOp(r, o) /\ r.log = o.log /\ r.op = o.op /\ r.key = o.key
      /\ r.at = o.at /\ r.listed = o.listed
  BY <1>4 DEF Ops, Pcs, SameOp
<1>6. OpFits(r, v4)
  BY <1>3, <1>5 DEF OpFits
<1>7. ASSUME LoneFits(o, v1, v2)
      PROVE  LoneFits(r, v1', v2')
  <2>1. o.at > 0 /\ EntryFits(o, v1, v2) /\ LogFits(o, v1, v2) /\ SizeFits(o, v1)
    BY <1>7 DEF LoneFits
  <2>2. o.seen = PresentIn(v1) /\ o.size = Cardinality(o.seen) /\ r.listed
    BY <1>1, <1>5, <2>1 DEF SizeFits
  <2>3. Small(v1)
    BY <1>2, <2>2, FS_EmptySet DEF Small, CacheIsGiven
  <2>4. CacheLimit > 0 => Holds(Answers!Entry(o.key), o, v1, v2)
    BY <1>1, <2>1 DEF EntryFits
  <2>5. EntryFits(r, v1', v2')
    BY <1>1, <1>5, <2>4 DEF EntryFits, Holds
  <2>6. LogFits(r, v1', v2')
    BY <1>1, <1>5, <2>1, <2>2, SameOpIsYounger DEF LogFits
  <2>7. SizeFits(r, v1')
    BY <1>1, <1>5, <2>2, <2>3 DEF SizeFits
  <2> QED
    BY <1>5, <2>1, <2>5, <2>6, <2>7 DEF LoneFits
<1>8. o.pc # "idle" /\ r.pc # "idle" /\ v3' = [v3 EXCEPT ![p] = r] /\ NamesFit(v1', v2') /\ FilesFit(v2', v4)
  BY <1>1, <1>3, <1>4, <1>5
<1> QED
  BY <1>1, <1>5, <1>6, <1>7, <1>8, OpGoesOn

(* get: an entry that is absent, torn or too old is a miss                 *)
LEMMA ReadEntryFits ==
  ASSUME CacheIsGiven, CacheFits, NEW p \in Users, Answers!Read(p)
  PROVE  CacheFits'
<1> PICK o \in Ops : o = v3[p]
  BY OpOf
<1>1. o.pc = "read" /\ v1' = v1 /\ v2' = v2 /\ v4' = v4
  BY DEF Answers!Read, Answers!At
<1>2. NamesFit(v1, v2) /\ FilesFit(v2, v4) /\ OpFits(o, v4)
  BY OpOf DEF CacheFits
<1>3. o.op = "get" /\ o.key \in Keys
  BY <1>1, <1>2 DEF OpFits
<1>4. NamesFit(v1', v2') /\ FilesFit(v2', v4)
  BY <1>1, <1>2
<1>5. CASE Answers!End(p, "miss")
  BY <1>1, <1>3, <1>4, <1>5, Ends
<1>6. CASE /\ v5' = v5
           /\ \E file \in 1 .. Len(v2) : v3' = [v3 EXCEPT ![p] = [o EXCEPT !.pc = "log", !.size = v2[file].at]]
  <2>1. PICK file \in 1 .. Len(v2) : v3' = [v3 EXCEPT ![p] = [o EXCEPT !.pc = "log", !.size = v2[file].at]]
    BY <1>6
  <2>2. v2[file].at \in Int
    <3>1. v2[file] \in CacheFiles
      BY <1>2, <2>1 DEF NamesFit
    <3> QED
      BY <3>1 DEF CacheFiles
  <2>3. PICK r : r = [o EXCEPT !.pc = "log", !.size = v2[file].at]
    OBVIOUS
  <2>4. r \in Ops /\ r.pc = "log" /\ SameOp(r, o) /\ r.log = o.log /\ r.op = o.op /\ r.key = o.key
    BY <2>2, <2>3 DEF Ops, Pcs, SameOp
  <2>5. OpFits(r, v4)
    BY <1>2, <1>3, <2>4 DEF OpFits
  <2>6. o.pc # "idle" /\ r.pc # "idle" /\ v3' = [v3 EXCEPT ![p] = r]
    BY <1>1, <2>1, <2>3, <2>4
  <2> QED
    BY <1>1, <1>3, <1>4, <1>6, <2>4, <2>5, <2>6, OpGoesOn
<1>7. PICK n \in Answers!Names : n = Answers!Entry(o.key)
  BY <1>3, NamesApart
<1>8. v1[n] # 0 => v1[n] \in 1 .. Len(v2)
  BY <1>2, <1>7 DEF NamesFit
<1> QED
  BY <1>5, <1>6, <1>7, <1>8 DEF Answers!Read, Answers!Go

(* Somebody begins: whoever is at work is not alone any more               *)
IdleOp == Answers!Idle

LEMMA IdleOpIs ==
  /\ IdleOp \in Ops /\ IdleOp.op = "none" /\ IdleOp.pc = "idle" /\ ~IdleOp.alone /\ ~IdleOp.listed
  /\ IdleOp.log = Answers!NoLog /\ IdleOp.end = "none" /\ \A t \in Nat : OpFits(IdleOp, t)
<1>1. IdleOp \in Ops
  BY FilesAre DEF IdleOp, Answers!Idle, Ops, Pcs
<1>2. IdleOp.op = "none" /\ IdleOp.pc = "idle" /\ IdleOp.log = Answers!NoLog /\ IdleOp.end = "none"
  BY DEF IdleOp, Answers!Idle
<1>3. ~IdleOp.alone /\ ~IdleOp.listed
  BY DEF IdleOp, Answers!Idle
<1>4. \A t \in Nat : OpFits(IdleOp, t)
  BY <1>1, <1>2, NoLogIsOld DEF OpFits
<1> QED
  BY <1>1, <1>2, <1>3, <1>4

Starts(op, k, pc) ==
  \/ op = "get" /\ pc = "read" /\ k \in Keys
  \/ op = "set" /\ pc = "open" /\ k \in Keys
  \/ op = "clear" /\ pc = "list" /\ k = CHOOSE l \in Keys : TRUE

LEMMA LaterFits ==
  ASSUME NEW t \in Nat, NEW o, OpFits(o, t)
  PROVE  OpFits(o, t + 1)
<1>1. o \in Ops /\ UpTo(o.log, t) /\ o.log \in Times
  BY DEF OpFits, Ops
<1>2. UpTo(o.log, t + 1)
  BY <1>1 DEF UpTo, Times
<1> QED
  BY <1>2 DEF OpFits

LEMMA BeginOpFits ==
  ASSUME CacheIsGiven, CacheFits, NEW p \in Users, NEW op, NEW k, NEW pc, Starts(op, k, pc), Answers!Begin(p, op, k, pc)
  PROVE  CacheFits'
<1> PICK new : new = v4 + 1
  OBVIOUS
<1> PICK alone \in BOOLEAN : alone = (\A q \in Users \ {p} : ~Answers!Working(q))
  OBVIOUS
<1>1. /\ v3[p].pc = "idle" /\ v1' = v1 /\ v2' = v2 /\ v4' = new
      /\ v3' = [q \in Users |->
                  IF q = p THEN [IdleOp EXCEPT !.op = op, !.key = k, !.pc = pc, !.at = new, !.alone = alone]
                  ELSE IF Answers!Working(q) THEN [v3[q] EXCEPT !.alone = FALSE] ELSE IdleOp]
  BY DEF Answers!Begin, Answers!Working, IdleOp
<1>2. /\ NamesFit(v1, v2) /\ FilesFit(v2, v4) /\ v4 \in Nat /\ new \in Nat /\ new > 0
      /\ v3 \in [Users -> Ops] /\ CountFits(v3, v5)
  BY DEF CacheFits
<1>3. PICK r : r = [IdleOp EXCEPT !.op = op, !.key = k, !.pc = pc, !.at = new, !.alone = alone]
  OBVIOUS
<1>4. /\ r \in Ops /\ r.op = op /\ r.key = k /\ r.pc = pc /\ r.at = new /\ r.log = Answers!NoLog
      /\ r.listed = IdleOp.listed /\ r.end = "none"
  BY <1>2, <1>3, IdleOpIs DEF Ops, Pcs, Starts
<1>5. r.alone = alone
  BY <1>3, IdleOpIs DEF Ops
<1>6. OpFits(r, new)
  BY <1>2, <1>4, NoLogIsOld DEF OpFits, Starts
<1>7. v3'[p] = r
  BY <1>1, <1>3
<1>8. ASSUME NEW q \in Users \ {p}
      PROVE  /\ v3'[q] \in Ops /\ OpFits(v3'[q], new) /\ ~v3'[q].alone
             /\ v3'[q].pc = v3[q].pc /\ (v3[q].pc # "idle" => v3'[q].op = v3[q].op)
             /\ Answers!Working(q) <=> v3[q].pc # "idle"
             /\ v3'[q].pc # "idle" => v3'[q].end = "none"
  <2>1. v3[q] \in Ops /\ OpFits(v3[q], new)
    BY <1>2, OpOf, LaterFits
  <2>2. CASE v3[q].pc = "idle"
    <3>1. v3'[q] = IdleOp /\ ~Answers!Working(q)
      BY <1>1, <2>2 DEF Answers!Working
    <3> QED
      BY <1>2, <2>2, <3>1, IdleOpIs
  <2>3. CASE v3[q].pc # "idle"
    <3>1. v3'[q] = [v3[q] EXCEPT !.alone = FALSE] /\ Answers!Working(q)
      BY <1>1, <2>3 DEF Answers!Working
    <3>2. PICK o : o = [v3[q] EXCEPT !.alone = FALSE]
      OBVIOUS
    <3>3. /\ o \in Ops /\ o.pc = v3[q].pc /\ o.op = v3[q].op /\ o.key = v3[q].key /\ o.log = v3[q].log
          /\ o.end = v3[q].end
      BY <2>1, <3>2 DEF Ops
    <3>4. ~o.alone
      BY <2>1, <3>2 DEF Ops
    <3>5. OpFits(o, new)
      BY <2>1, <2>3, <3>3 DEF OpFits
    <3> QED
      BY <2>3, <3>1, <3>2, <3>3, <3>4, <3>5, OpOf
  <2> QED
    BY <2>2, <2>3
<1>9. v3' \in [Users -> Ops]
  BY <1>1, <1>4, <1>7, <1>8
<1>10. FilesFit(v2', new)
  <2>1. \A i \in 1 .. Len(v2) : v2[i].log \in Times
    <3>1. \A i \in 1 .. Len(v2) : v2[i] \in CacheFiles
      BY <1>2 DEF NamesFit
    <3> QED
      BY <3>1 DEF CacheFiles
  <2>2. \A i \in 1 .. Len(v2) : UpTo(v2[i].log, new)
    BY <1>2, <2>1 DEF FilesFit, UpTo, Times
  <2> QED
    BY <1>1, <2>2 DEF FilesFit
<1>11. r.pc # "idle"
  BY <1>4 DEF Starts
<1>12. op = "set" => LoneFits(r, v1, v2)
  <2> SUFFICES ASSUME op = "set"
               PROVE  LoneFits(r, v1, v2)
    OBVIOUS
  <2>1. r.pc = "open" /\ ~r.listed
    BY <1>4, IdleOpIs DEF Starts
  <2>2. EntryFits(r, v1, v2) /\ SizeFits(r, v1)
    BY <2>1 DEF EntryFits, SizeFits
  <2>3. ASSUME NEW i \in 1 .. Len(v2)
        PROVE  Younger(v2[i].log, r)
    <3>1. v2[i] \in CacheFiles
      BY <1>2 DEF NamesFit
    <3>2. v2[i].log \in Times /\ UpTo(v2[i].log, v4)
      BY <1>2, <3>1 DEF FilesFit, CacheFiles
    <3> QED
      BY <1>2, <1>4, <3>2 DEF UpTo, Younger, Times
  <2>4. LogFits(r, v1, v2)
    BY <1>2, <1>4, <2>1, <2>3, NoLogIsOld DEF LogFits
  <2> QED
    BY <1>2, <1>4, <2>2, <2>4 DEF LoneFits
<1>13. AloneFits(r, v1', v2', v4')
  BY <1>1, <1>4, <1>11, <1>12 DEF AloneFits
<1>14. ASSUME NEW q \in Users, v3'[q].alone
       PROVE  AloneFits(v3'[q], v1', v2', v4') /\ \A o \in Users \ {q} : v3'[o].pc = "idle"
  <2>1. q = p
    BY <1>8, <1>14
  <2>2. alone
    BY <1>5, <1>7, <1>14, <2>1
  <2> QED
    BY <1>7, <1>8, <1>13, <2>1, <2>2
<1>15. CountFits(v3', v5')
  <2>1. PICK busy \in Nat :
          v5' = [v5 EXCEPT !.get = IF op = "get" THEN v5.get + 1 ELSE v5.get, !.over = v5.over + busy]
    <3>1. PICK busy : busy = IF \E q \in Users : Answers!Working(q) THEN 1 ELSE 0
      OBVIOUS
    <3>2. v5' = [v5 EXCEPT !.get = IF op = "get" THEN v5.get + 1 ELSE v5.get, !.over = v5.over + busy]
      BY <3>1 DEF Answers!Begin
    <3> QED
      BY <3>1, <3>2
  <2>2. v5 \in Tallies /\ v5.hit + v5.miss + Cardinality(Gets(v3)) = v5.get
    BY <1>2 DEF CountFits
  <2>3. v5.hit \in Nat /\ v5.miss \in Nat /\ v5.get \in Nat /\ v5.over \in Nat
    BY <2>2 DEF Tallies
  <2>4. /\ v5' \in Tallies /\ v5'.hit = v5.hit /\ v5'.miss = v5.miss
        /\ v5'.get = IF op = "get" THEN v5.get + 1 ELSE v5.get
    <3>1. PICK get \in Nat : get = IF op = "get" THEN v5.get + 1 ELSE v5.get
      BY <2>3
    <3>2. PICK over \in Nat : over = v5.over + busy
      BY <2>1, <2>3
    <3>3. v5' = [v5 EXCEPT !.get = get, !.over = over]
      BY <2>1, <3>1, <3>2
    <3>4. v5' \in Tallies /\ v5'.hit = v5.hit /\ v5'.miss = v5.miss /\ v5'.get = get
      BY <2>2, <3>1, <3>2, <3>3 DEF Tallies
    <3> QED
      BY <3>1, <3>4
  <2>5. Gets(v3) \subseteq Users /\ IsFiniteSet(Gets(v3)) /\ p \notin Gets(v3) /\ Cardinality(Gets(v3)) \in Nat
    BY <1>1, FS_Subset, FS_CardinalityType DEF Gets, CacheIsGiven
  <2>6. CASE op = "get"
    <3>1. Gets(v3') = Gets(v3) \cup {p}
      BY <1>4, <1>7, <1>8, <1>11, <2>6 DEF Gets
    <3>2. Cardinality(Gets(v3')) = Cardinality(Gets(v3)) + 1
      BY <2>5, <3>1, FS_AddElement
    <3> QED
      BY <2>2, <2>3, <2>4, <2>5, <2>6, <3>2 DEF CountFits
  <2>7. CASE op # "get"
    <3>1. ASSUME NEW q \in Users
          PROVE  v3'[q].pc # "idle" /\ v3'[q].op = "get" <=> v3[q].pc # "idle" /\ v3[q].op = "get"
      BY <1>1, <1>4, <1>7, <1>8, <2>7
    <3>2. Gets(v3') = Gets(v3)
      BY <3>1 DEF Gets
    <3> QED
      BY <2>2, <2>4, <2>7, <3>2 DEF CountFits
  <2> QED
    BY <2>6, <2>7
<1>16. \A q \in Users : OpFits(v3'[q], v4')
  BY <1>1, <1>6, <1>7, <1>8
<1>17. \A q \in Users : v3'[q].pc # "idle" => v3'[q].end = "none"
  BY <1>4, <1>7, <1>8
<1> QED
  BY <1>1, <1>2, <1>9, <1>10, <1>14, <1>15, <1>16, <1>17 DEF CacheFits

LEMMA CacheStarts == ASSUME CacheIsGiven, Answers!Init PROVE CacheFits
<1>1. /\ v1 = [n \in Answers!Names |-> IF n = Answers!LogName THEN 1 ELSE 0]
      /\ v2 = <<Answers!LogFile(Answers!NoLog)>> /\ v3 = [p \in Users |-> IdleOp] /\ v4 = 0
      /\ v5 = [hit |-> 0, miss |-> 0, get |-> 0, over |-> 0]
  BY DEF Answers!Init, IdleOp
<1>2. PICK f \in CacheFiles : f = Answers!LogFile(Answers!NoLog) /\ f.log = Answers!NoLog
  BY FilesAre
<1>3. v2 \in Seq(CacheFiles) /\ Len(v2) = 1 /\ v2[1] = f
  BY <1>1, <1>2
<1>4. NamesFit(v1, v2)
  BY <1>1, <1>3, NamesApart DEF NamesFit
<1>5. FilesFit(v2, 0)
  BY <1>2, <1>3, NoLogIsOld DEF FilesFit
<1>6. Gets(v3) = {}
  BY <1>1, IdleOpIs DEF Gets
<1>7. CountFits(v3, v5)
  BY <1>1, <1>6, FS_EmptySet DEF CountFits, Tallies
<1>8. v3 \in [Users -> Ops] /\ \A p \in Users : OpFits(v3[p], 0) /\ ~v3[p].alone /\ v3[p].pc = "idle"
  BY <1>1, IdleOpIs
<1> QED
  BY <1>1, <1>4, <1>5, <1>7, <1>8 DEF CacheFits

LEMMA CacheStepFits ==
  ASSUME CacheIsGiven, CacheFits, Answers!Next
  PROVE  CacheFits'
<1>1. PICK p \in Users :
        \/ \E k \in Keys : Answers!Get(p, k) \/ Answers!Set(p, k)
        \/ Answers!Clear(p) \/ Answers!Read(p) \/ Answers!Open(p) \/ Answers!Write(p) \/ Answers!Move(p)
        \/ Answers!ReadLog(p) \/ Answers!OpenLog(p) \/ Answers!WriteLog(p) \/ Answers!MoveLog(p)
        \/ Answers!List(p) \/ Answers!Stat(p) \/ Answers!Evict(p) \/ Answers!Evicted(p)
  BY DEF Answers!Next
<1>2. CASE \E k \in Keys : Answers!Get(p, k) \/ Answers!Set(p, k)
  <2>1. PICK k \in Keys : Answers!Get(p, k) \/ Answers!Set(p, k)
    BY <1>2
  <2>2. Starts("get", k, "read") /\ Starts("set", k, "open")
    BY DEF Starts
  <2> QED
    BY <2>1, <2>2, BeginOpFits DEF Answers!Get, Answers!Set
<1>3. CASE Answers!Clear(p)
  <2>1. PICK k : k = CHOOSE l \in Keys : TRUE
    OBVIOUS
  <2>2. Answers!Begin(p, "clear", k, "list")
    BY <1>3, <2>1 DEF Answers!Clear
  <2> QED
    BY <2>1, <2>2, BeginOpFits DEF Starts
<1> QED
  BY <1>1, <1>2, <1>3, ReadEntryFits, OpeningsFit, WriteFits, MoveEntryFits, ReadLogFits, MoveLogFits, ListFits,
     StatFits, EvictFits, EvictedFits

LEMMA CacheGives ==
  ASSUME CacheIsGiven, CacheFits
  PROVE  Answers!CacheIsSound
<1>1. Answers!GetsAreCounted
  <2>1. {p \in Users : Answers!Working(p) /\ v3[p].op = "get"} = Gets(v3)
    BY DEF Gets, Answers!Working
  <2>2. v5.hit + v5.miss + Cardinality(Gets(v3)) = v5.get
    BY DEF CacheFits, CountFits
  <2> QED
    BY <2>1, <2>2, CacheCounts DEF Answers!GetsAreCounted
<1>2. ASSUME NEW p \in Users, v3[p].op = "set", v3[p].end # "none"
      PROVE  EndFits(v3[p], v1, v2)
  BY <1>2, OpOf DEF OpFits, AloneFits
<1>3. Answers!LoneSetIsKept
  BY <1>2, CacheCounts DEF EndFits, Holds, Small, Answers!LoneSetIsKept, Answers!Present, PresentIn
<1> QED
  BY <1>1, <1>3 DEF Answers!CacheIsSound

---------------------------------------------------------------------------
(* The runs that reuse rows *)

RowRecords == [version : Nat, model : RunModels \cup {"", "broken"}, done : BOOLEAN,
               torn : BOOLEAN, reused : BOOLEAN]
RowFile    == [RunProblems -> RowRecords]
RowFiles   == [Incremental!StrategyNames -> RowFile]
Prints     == [RunProblems -> Nat]
Entries    == [run : Nat, strategy : Incremental!StrategyNames, model : RunModels \cup {""}, print : Prints]
Jobs == [pc : {"idle", "detected", "evaluated", "merged", "saving", "saved"}, run : Nat,
         strategies : Incremental!StrategyLists \cup {<<>>}, model : RunModels \cup {""},
         resumed : BOOLEAN, print : Prints, read : Seq(Entries), incremental : BOOLEAN,
         todo : SUBSET RunProblems, old : RowFiles, files : RowFiles, reports : RowFiles,
         cut : BOOLEAN]
PausedJobs == {x \in Jobs : x.pc \in {"idle", "evaluated"}}

IncrementalTyped ==
  /\ v1 \in Prints /\ v2 \in Seq(Entries)
  /\ v3 \in [Incremental!RunIds -> RowFiles] /\ v4 \in [Incremental!RunIds -> PausedJobs]
  /\ v5 \in [RunProcs -> Jobs] /\ v6 \in Nat

(* Whoever names a run, the job that is at it, the one that was paused, an *)
(* entry of the history, on disk or as it was read, names it alike.        *)
JobsKnown == {v5[q] : q \in RunProcs} \cup {v4[r] : r \in Incremental!RunIds}
Items(h)  == {h[i] : i \in DOMAIN h}
Holders   == {x \in JobsKnown : x.pc # "idle"} \cup Items(v2)
             \cup UNION {Items(x.read) : x \in JobsKnown}
Alike(a, b) == a.run = b.run /\ a.model = b.model /\ a.print = b.print

(* What a file has of a problem is of that run.                            *)
RowsAreOf(file, a) ==
  \A p \in RunProblems : \/ file[p] = Incremental!NoRow
                         \/ file[p].model = a.model /\ (file[p].torn \/ file[p].version = a.print[p])

HoldersAgree ==
  /\ \A a, b \in Holders : a.run = b.run => Alike(a, b)
  /\ \A a \in Holders : /\ a.run \in Incremental!RunIds /\ a.run <= v6
                        /\ \A s \in Incremental!StrategyNames :
                             v3[a.run][s] = Incremental!Broken \/ RowsAreOf(v3[a.run][s], a)
  /\ \A r \in Incremental!RunIds : r > v6 => v3[r] = Incremental!NoFiles

(* A job's own rows, and those it may reuse: of all that did not change    *)
(* and of nothing else.                                                    *)
Fresh(files) == \A s \in Incremental!StrategyNames, p \in RunProblems : ~files[s][p].reused
JobIsTrue(x) ==
  /\ \A s \in Incremental!StrategyNames : RowsAreOf(x.files[s], x) /\ RowsAreOf(x.old[s], x)
  /\ x.pc # "idle" => x.strategies # <<>>
  /\ x.pc \in {"detected", "evaluated"} => Fresh(x.files) /\ Fresh(x.reports)
  /\ x.incremental =>
       \A s \in Incremental!ToSet(x.strategies) :
         /\ Incremental!Present(x.print) \ x.todo \subseteq Incremental!Rows(x.old[s])
         /\ \A p \in x.todo : ~x.old[s][p].reused
  /\ \A s \in Incremental!ToSet(x.strategies) :
       /\ \A p \in x.todo : ~x.reports[s][p].reused
       /\ Fresh(x.reports) \/ Incremental!Present(x.print) \ x.todo \subseteq Incremental!Rows(x.reports[s])
JobsAreTrue == \A x \in JobsKnown : JobIsTrue(x)

IncrementalGood == IncrementalTyped /\ HoldersAgree /\ JobsAreTrue
IncrementalInv  == part = "incremental" => IncrementalGood

LEMMA NoFilesAre ==
  /\ Incremental!NoRow \in RowRecords /\ ~Incremental!NoRow.reused
  /\ Incremental!NoFiles \in RowFiles
  /\ \A s \in Incremental!StrategyNames, p \in RunProblems :
       Incremental!NoFiles[s][p] = Incremental!NoRow
  /\ Incremental!Broken \in RowFile
<1>1. Incremental!NoRow \in RowRecords /\ ~Incremental!NoRow.reused
  BY DEF Incremental!NoRow, Incremental!Gone, RowRecords
<1>2. /\ Incremental!NoFiles \in RowFiles
      /\ \A s \in Incremental!StrategyNames, p \in RunProblems :
           Incremental!NoFiles[s][p] = Incremental!NoRow
  BY <1>1 DEF Incremental!NoFiles, Incremental!NoRows, RowFiles, RowFile
<1>3. [Incremental!NoRow EXCEPT !.model = "broken"] \in RowRecords
  BY DEF Incremental!NoRow, Incremental!Gone, RowRecords
<1>4. Incremental!Broken \in RowFile
  BY <1>3 DEF Incremental!Broken, RowFile
<1> QED
  BY <1>1, <1>2, <1>4

LEMMA IdleIs ==
  /\ Incremental!Idle \in Jobs /\ Incremental!Idle.pc = "idle" /\ Incremental!Idle.read = <<>>
  /\ JobIsTrue(Incremental!Idle)
<1>1. Incremental!Idle \in Jobs
  BY NoFilesAre DEF Incremental!Idle, Incremental!Gone, Jobs, Prints
<1>2. /\ Incremental!Idle.pc = "idle" /\ Incremental!Idle.read = <<>>
      /\ Incremental!Idle.strategies = <<>> /\ ~Incremental!Idle.incremental
      /\ Incremental!Idle.files = Incremental!NoFiles /\ Incremental!Idle.old = Incremental!NoFiles
  BY DEF Incremental!Idle
<1>3. Incremental!ToSet(<<>>) = {}
  BY DEF Incremental!ToSet
<1> QED
  BY <1>1, <1>2, <1>3, NoFilesAre DEF JobIsTrue, RowsAreOf

LEMMA StrategiesAre ==
  ASSUME NEW x \in Jobs
  PROVE  /\ Incremental!ToSet(x.strategies) \subseteq Incremental!StrategyNames
         /\ x.strategies # <<>> => x.strategies[1] \in Incremental!ToSet(x.strategies)
<1>1. x.strategies \in {<<"s1">>, <<"s1", "s2">>, <<>>}
  BY DEF Jobs, Incremental!StrategyLists
<1>2. x.strategies # <<>> => 1 \in DOMAIN x.strategies /\ x.strategies \in Incremental!StrategyLists
  BY <1>1 DEF Incremental!StrategyLists
<1>3. x.strategies = <<>> => Incremental!ToSet(x.strategies) = {}
  BY DEF Incremental!ToSet
<1> QED
  BY <1>1, <1>2, <1>3 DEF Incremental!StrategyNames, Incremental!ToSet

(* A step names no run but as it was named, and writes of a run only what  *)
(* is true of it.                                                          *)
WritesAreTrue ==
  \A r \in Incremental!RunIds :
    \/ v3'[r] = v3[r]
    \/ \E x \in Holders : x.run = r /\ \A s \in Incremental!StrategyNames :
         v3'[r][s] = v3[r][s] \/ v3'[r][s] = Incremental!Broken \/ RowsAreOf(v3'[r][s], x)

LEMMA HoldersStay ==
  ASSUME HoldersAgree, WritesAreTrue, v6 \in Nat, v6' = v6,
         \A a \in Holders' : \E b \in Holders : Alike(a, b)
  PROVE  HoldersAgree'
<1>1. \A a, b \in Holders' : a.run = b.run => Alike(a, b)
  <2> SUFFICES ASSUME NEW a \in Holders', NEW b \in Holders', a.run = b.run PROVE Alike(a, b)
    OBVIOUS
  <2>1. PICK c \in Holders, d \in Holders : Alike(a, c) /\ Alike(b, d)
    OBVIOUS
  <2>3. c.run = d.run
    BY <2>1 DEF Alike
  <2>2. Alike(c, d)
    BY <2>3 DEF HoldersAgree
  <2> QED
    BY <2>1, <2>2 DEF Alike
<1>2. ASSUME NEW a \in Holders'
      PROVE  /\ a.run \in Incremental!RunIds /\ a.run <= v6
             /\ \A s \in Incremental!StrategyNames :
                  v3'[a.run][s] = Incremental!Broken \/ RowsAreOf(v3'[a.run][s], a)
  <2>1. PICK b \in Holders : Alike(a, b)
    OBVIOUS
  <2>2. a.run \in Incremental!RunIds /\ a.run <= v6
    BY <2>1 DEF HoldersAgree, Alike
  <2>3. \A s \in Incremental!StrategyNames :
          v3[a.run][s] = Incremental!Broken \/ RowsAreOf(v3[a.run][s], a)
    BY <2>1 DEF HoldersAgree, Alike, RowsAreOf
  <2>4. CASE v3'[a.run] = v3[a.run]
    BY <2>2, <2>3, <2>4
  <2>5. ASSUME NEW x \in Holders, x.run = a.run,
               \A s \in Incremental!StrategyNames :
                 \/ v3'[a.run][s] = v3[a.run][s] \/ v3'[a.run][s] = Incremental!Broken
                 \/ RowsAreOf(v3'[a.run][s], x)
        PROVE  \A s \in Incremental!StrategyNames :
                 v3'[a.run][s] = Incremental!Broken \/ RowsAreOf(v3'[a.run][s], a)
    <3>1. Alike(x, b)
      BY <2>1, <2>5 DEF HoldersAgree, Alike
    <3>2. \A s \in Incremental!StrategyNames :
            RowsAreOf(v3'[a.run][s], x) => RowsAreOf(v3'[a.run][s], a)
      BY <2>1, <3>1 DEF Alike, RowsAreOf
    <3> QED
      BY <2>3, <2>5, <3>2
  <2> QED
    BY <2>2, <2>4, <2>5 DEF WritesAreTrue
<1>3. \A r \in Incremental!RunIds : r > v6 => v3'[r] = Incremental!NoFiles
  <2> SUFFICES ASSUME NEW r \in Incremental!RunIds, r > v6 PROVE v3'[r] = Incremental!NoFiles
    OBVIOUS
  <2>1. \A x \in Holders : x.run # r
    <3> SUFFICES ASSUME NEW x \in Holders, x.run = r PROVE FALSE
      OBVIOUS
    <3>1. r <= v6
      BY DEF HoldersAgree
    <3> QED
      BY <3>1 DEF Incremental!RunIds
  <2> QED
    BY <2>1 DEF HoldersAgree, WritesAreTrue
<1> HIDE DEF Holders
<1> QED
  BY <1>1, <1>2, <1>3 DEF HoldersAgree, Alike, RowsAreOf

(* One process goes on with the run it is at, or lets go of it.            *)
LEMMA JobMoves ==
  ASSUME IncrementalGood, NEW q \in RunProcs, NEW y \in Jobs, v5' = [v5 EXCEPT ![q] = y],
         JobIsTrue(y),
         y = Incremental!Idle \/ \E b \in JobsKnown : b.pc # "idle" /\ Alike(y, b) /\ y.read = b.read,
         v4' \in [Incremental!RunIds -> PausedJobs],
         \A r \in Incremental!RunIds : v4'[r] \in {v4[r], y, Incremental!Idle},
         v1' \in Prints, v6' = v6, v2' \in Seq(Entries),
         \A e \in Items(v2') : \E b \in Holders : Alike(e, b),
         v3' \in [Incremental!RunIds -> RowFiles], WritesAreTrue
  PROVE  IncrementalGood'
<1> USE DEF IncrementalGood
<1>1. IncrementalTyped'
  BY DEF IncrementalTyped
<1>2. \A x \in JobsKnown' : x \in JobsKnown \/ x = y \/ x = Incremental!Idle
  <2> SUFFICES ASSUME NEW x \in JobsKnown' PROVE x \in JobsKnown \/ x = y \/ x = Incremental!Idle
    OBVIOUS
  <2>1. CASE \E p \in RunProcs : x = v5'[p]
    BY <2>1 DEF JobsKnown, IncrementalTyped
  <2>2. CASE \E r \in Incremental!RunIds : x = v4'[r]
    BY <2>2 DEF JobsKnown
  <2> QED
    BY <2>1, <2>2 DEF JobsKnown
<1>3. JobsAreTrue'
  <2>1. \A x \in JobsKnown' : JobIsTrue(x)
    BY <1>2, IdleIs DEF JobsAreTrue
  <2> QED
    BY <2>1 DEF JobsAreTrue
<1>4. ASSUME NEW a \in Holders' PROVE \E b \in Holders : Alike(a, b)
  <2>1. CASE a \in JobsKnown' /\ a.pc # "idle"
    <3>1. CASE a \in JobsKnown
      BY <2>1, <3>1 DEF Holders, Alike
    <3>2. CASE a = y /\ y # Incremental!Idle
      BY <2>1, <3>2 DEF Holders
    <3> QED
      BY <1>2, <2>1, <3>1, <3>2, IdleIs
  <2>2. CASE a \in Items(v2')
    BY <2>2
  <2>3. ASSUME NEW x \in JobsKnown', a \in Items(x.read) PROVE \E b \in Holders : Alike(a, b)
    <3>1. \E b \in JobsKnown : a \in Items(b.read)
      <4>1. CASE x \in JobsKnown
        BY <2>3, <4>1
      <4>2. CASE x = Incremental!Idle
        BY <2>3, <4>2, IdleIs DEF Items
      <4>3. CASE x = y /\ y # Incremental!Idle
        BY <2>3, <4>3
      <4> QED
        BY <1>2, <2>3, <4>1, <4>2, <4>3
    <3>2. a \in Holders
      BY <3>1 DEF Holders
    <3> QED
      BY <3>2 DEF Alike
  <2>4. Items(v2)' = Items(v2')
    BY DEF Items
  <2> QED
    BY <2>1, <2>2, <2>3, <2>4 DEF Holders, Items
<1>5. HoldersAgree'
  BY <1>4, HoldersStay DEF IncrementalTyped
<1> QED
  BY <1>1, <1>3, <1>5

(* What can be reused: rows of an earlier run of this model, of problems   *)
(* that did not change, for every strategy of this run.                    *)
RowsAreLoaded(rows, e, ids, print) ==
  /\ rows \in RowFiles
  /\ \A s \in Incremental!StrategyNames, p \in RunProblems :
       \/ rows[s][p] = Incremental!NoRow
       \/ p \in ids /\ rows[s][p].model = e.model
          /\ (rows[s][p].torn \/ rows[s][p].version = print[p])

LEMMA LoadedIs ==
  ASSUME IncrementalGood, NEW e \in Holders, NEW ids, NEW print \in Prints,
         \A p \in ids : print[p] = e.print[p]
  PROVE  RowsAreLoaded(Incremental!LoadHistorical(e.run, ids), e, ids, print)
<1> DEFINE old == Incremental!LoadHistorical(e.run, ids)
           r   == e.run
<1> USE DEF IncrementalGood
<1>1. /\ r \in Incremental!RunIds /\ v3[r] \in RowFiles
      /\ \A s \in Incremental!StrategyNames : v3[r][s] = Incremental!Broken \/ RowsAreOf(v3[r][s], e)
  BY DEF HoldersAgree, IncrementalTyped
<1>2. CASE \E s \in Incremental!StrategyNames : v3[r][s] = Incremental!Broken
  <2>1. old = Incremental!NoFiles
    BY <1>2 DEF Incremental!LoadHistorical
  <2> QED
    BY <2>1, NoFilesAre DEF RowsAreLoaded
<1>3. CASE \A s \in Incremental!StrategyNames : v3[r][s] # Incremental!Broken
  <2>1. old = [s \in Incremental!StrategyNames |-> [p \in RunProblems |->
                 IF p \in ids /\ v3[r][s][p] # Incremental!NoRow
                 THEN [v3[r][s][p] EXCEPT !.reused = TRUE] ELSE Incremental!NoRow]]
    BY <1>3 DEF Incremental!LoadHistorical
  <2> HIDE DEF old
  <2>2. ASSUME NEW s \in Incremental!StrategyNames, NEW p \in RunProblems
        PROVE  /\ old[s][p] \in RowRecords
               /\ \/ old[s][p] = Incremental!NoRow
                  \/ p \in ids /\ old[s][p].model = e.model
                     /\ (old[s][p].torn \/ old[s][p].version = print[p])
    <3>1. CASE p \in ids /\ v3[r][s][p] # Incremental!NoRow
      <4>1. old[s][p] = [v3[r][s][p] EXCEPT !.reused = TRUE]
        BY <2>1, <3>1
      <4>2. v3[r][s][p] \in RowRecords
        BY <1>1 DEF RowFiles, RowFile
      <4>3. /\ old[s][p] \in RowRecords /\ old[s][p].model = v3[r][s][p].model
            /\ old[s][p].torn = v3[r][s][p].torn /\ old[s][p].version = v3[r][s][p].version
        BY <4>1, <4>2 DEF RowRecords
      <4>4. /\ v3[r][s][p].model = e.model
            /\ v3[r][s][p].torn \/ v3[r][s][p].version = e.print[p]
        BY <1>1, <1>3, <3>1 DEF RowsAreOf
      <4> QED
        BY <3>1, <4>3, <4>4
    <3>2. CASE ~(p \in ids /\ v3[r][s][p] # Incremental!NoRow)
      BY <2>1, <3>2, NoFilesAre
    <3> QED
      BY <3>1, <3>2
  <2>3. old \in RowFiles
    BY <2>1, <2>2 DEF RowFiles, RowFile
  <2> QED
    BY <2>2, <2>3 DEF old, RowsAreLoaded
<1> QED
  BY <1>2, <1>3

LEMMA IncrementalCounts ==
  /\ \A S : Incremental!Cardinality(S) = Cardinality(S)
  BY DEF Incremental!Cardinality, Cardinality

(* The newest entry of a set of them.                                      *)
LEMMA MatchIs ==
  ASSUME IncrementalTyped, NEW l, NEW m, Incremental!Matching(l, m) # {}
  PROVE  Incremental!Match(l, m) \in Items(v2) /\ Incremental!Match(l, m).model = m
<1> DEFINE S == Incremental!Matching(l, m)
<1>1. S \in SUBSET (1 .. Len(v2)) /\ Len(v2) \in Nat /\ DOMAIN v2 = 1 .. Len(v2)
  BY DEF IncrementalTyped, Incremental!Matching
<1>2. S \in SUBSET Nat /\ IsFiniteSet(S)
  <2> HIDE DEF S
  <2>1. S \in SUBSET Nat
    BY <1>1
  <2>2. IsFiniteSet(1 .. Len(v2))
    BY <1>1, FS_Interval
  <2> QED
    BY <1>1, <2>1, <2>2, FS_Subset
<1>3. \E i \in S : \A j \in S : j <= i
  BY <1>2, EndsExist
<1>4. PICK i \in S : Incremental!Match(l, m) = v2[i]
  BY <1>3 DEF Incremental!Match
<1> QED
  BY <1>1, <1>4 DEF Incremental!Matching, Items

ReuseIsTrue(reuse, l, m, print) ==
  /\ reuse.incremental \in BOOLEAN /\ reuse.todo \in SUBSET RunProblems /\ reuse.old \in RowFiles
  /\ \A s \in Incremental!StrategyNames, p \in RunProblems :
       LET row == reuse.old[s][p] IN
       row = Incremental!NoRow \/ (row.model = m /\ (row.torn \/ row.version = print[p]))
  /\ reuse.incremental =>
       \A s \in Incremental!ToSet(l) :
         /\ Incremental!Present(print) \ reuse.todo \subseteq Incremental!Rows(reuse.old[s])
         /\ \A p \in reuse.todo : ~reuse.old[s][p].reused

LEMMA ReuseIs ==
  ASSUME IncrementalGood, NEW l \in Incremental!StrategyLists, NEW m, NEW print \in Prints
  PROVE  ReuseIsTrue(Incremental!Reuse(l, m, print), l, m, print)
<1> DEFINE match   == Incremental!Match(l, m)
           ids     == Incremental!Unchanged(print, match.print)
           changed == Incremental!Changed(print, match.print)
           old     == Incremental!LoadHistorical(match.run, ids)
           reuse   == Incremental!Reuse(l, m, print)
<1>1. Incremental!Present(print) \in SUBSET RunProblems
  BY DEF Incremental!Present
<1>2. CASE \/ Incremental!Matching(l, m) = {} \/ changed = {} \/ ids = {}
           \/ ~Incremental!Complete(old, l, ids)
  <2>1. reuse = [incremental |-> FALSE, todo |-> Incremental!Present(print), old |-> Incremental!NoFiles]
    BY <1>2 DEF Incremental!Reuse
  <2> HIDE DEF reuse
  <2>2. reuse.incremental = FALSE /\ reuse.todo = Incremental!Present(print)
        /\ reuse.old = Incremental!NoFiles
    BY <2>1
  <2>3. ReuseIsTrue(reuse, l, m, print)
    BY <1>1, <2>2, NoFilesAre DEF ReuseIsTrue
  <2> QED
    BY <2>3 DEF reuse
<1>3. CASE ~(\/ Incremental!Matching(l, m) = {} \/ changed = {} \/ ids = {}
             \/ ~Incremental!Complete(old, l, ids))
  <2>1. reuse = [incremental |-> TRUE, todo |-> changed, old |-> old]
    BY <1>3 DEF Incremental!Reuse
  <2>2. match \in Holders /\ match.model = m
    BY <1>3, MatchIs DEF Holders, IncrementalGood
  <2>3. /\ ids \in SUBSET RunProblems /\ changed \in SUBSET RunProblems /\ ids \cap changed = {}
        /\ \A p \in ids : print[p] = match.print[p]
    BY <1>1 DEF Incremental!Unchanged, Incremental!Changed
  <2>a. Incremental!Present(print) \ changed = ids
    BY DEF Incremental!Unchanged
  <2>b. PICK e \in Holders : e = match
    BY <2>2
  <2>c. old = Incremental!LoadHistorical(e.run, ids)
    BY <2>b
  <2> HIDE DEF match, ids, changed
  <2>d. \A p \in ids : print[p] = e.print[p]
    BY <2>3, <2>b
  <2>e. e.model = m
    BY <2>2, <2>b
  <2> HIDE DEF old
  <2>4. /\ old \in RowFiles
        /\ \A s \in Incremental!StrategyNames, p \in RunProblems :
             \/ old[s][p] = Incremental!NoRow
             \/ p \in ids /\ old[s][p].model = m /\ (old[s][p].torn \/ old[s][p].version = print[p])
    <3>1. RowsAreLoaded(Incremental!LoadHistorical(e.run, ids), e, ids, print)
      BY <2>b, <2>d, LoadedIs
    <3>2. RowsAreLoaded(old, e, ids, print)
      BY <3>1, <2>c
    <3> QED
      BY <3>2, <2>e DEF RowsAreLoaded
  <2>5. \A s \in Incremental!ToSet(l) : Incremental!Rows(old[s]) = ids
    BY <1>3 DEF Incremental!Complete, old
  <2>6. Incremental!ToSet(l) \subseteq Incremental!StrategyNames
    BY DEF Incremental!StrategyNames
  <2> HIDE DEF reuse
  <2>7. reuse.incremental = TRUE /\ reuse.todo = changed /\ reuse.old = old
    BY <2>1
  <2>8. \A s \in Incremental!ToSet(l), p \in changed : ~old[s][p].reused
    BY <2>3, <2>4, <2>6, NoFilesAre
  <2>9. ReuseIsTrue(reuse, l, m, print)
    <3>1. \A s \in Incremental!ToSet(l) :
            Incremental!Present(print) \ changed \subseteq Incremental!Rows(old[s])
      BY <2>a, <2>5
    <3> QED
      BY <2>3, <2>4, <2>7, <2>8, <3>1 DEF ReuseIsTrue
  <2> QED
    BY <2>9 DEF reuse
<1> QED
  BY <1>2, <1>3

(* Of a job at a run: what JobMoves asks of it.                            *)
LEMMA JobsAre ==
  ASSUME IncrementalGood, NEW q \in RunProcs
  PROVE  /\ v5[q] \in Jobs /\ v5[q] \in JobsKnown /\ JobIsTrue(v5[q])
         /\ v5[q].pc # "idle" => v5[q] \in Holders /\ v5[q].run \in Incremental!RunIds
                                 /\ v5[q].strategies # <<>>
         /\ Items(v5[q].read) \subseteq Holders /\ Items(v2) \subseteq Holders
<1>1. v5[q] \in Jobs /\ v5[q] \in JobsKnown /\ JobIsTrue(v5[q])
  BY DEF IncrementalGood, IncrementalTyped, JobsKnown, JobsAreTrue
<1>2. v5[q].pc # "idle" => v5[q] \in Holders
  BY <1>1 DEF Holders
<1>3. v5[q].pc # "idle" => v5[q].run \in Incremental!RunIds /\ v5[q].strategies # <<>>
  BY <1>1, <1>2 DEF IncrementalGood, HoldersAgree, JobIsTrue
<1>4. Items(v5[q].read) \subseteq Holders /\ Items(v2) \subseteq Holders
  BY <1>1 DEF Holders
<1> QED
  BY <1>1, <1>2, <1>3, <1>4

LEMMA SameHistory ==
  ASSUME v2' = v2 PROVE \A e \in Items(v2') : \E b \in Holders : Alike(e, b)
  BY DEF Holders, Alike

LEMMA SameFiles ==
  ASSUME v3' = v3 PROVE WritesAreTrue
  BY DEF WritesAreTrue

LEMMA EditKeeps ==
  ASSUME IncrementalGood, NEW p \in RunProblems, NEW v \in 0 .. MaxVersion, Incremental!Edit(p, v),
         MaxVersion \in Nat
  PROVE  IncrementalGood'
<1>1. v1' \in Prints /\ v2' = v2 /\ v3' = v3 /\ v4' = v4 /\ v5' = v5 /\ v6' = v6
  BY DEF Incremental!Edit, IncrementalGood, IncrementalTyped, Prints
<1>2. JobsKnown' = JobsKnown
  BY <1>1 DEF JobsKnown
<1>3. Holders' = Holders
  BY <1>1, <1>2 DEF Holders, Items
<1>4. IncrementalTyped'
  BY <1>1 DEF IncrementalGood, IncrementalTyped
<1>5. HoldersAgree'
  BY <1>1, <1>3 DEF IncrementalGood, HoldersAgree
<1>6. JobsAreTrue'
  BY <1>2 DEF IncrementalGood, JobsAreTrue
<1> QED
  BY <1>4, <1>5, <1>6 DEF IncrementalGood

LEMMA ResumeKeeps ==
  ASSUME IncrementalGood, NEW q \in RunProcs, NEW r \in Incremental!RunIds, Incremental!Resume(q, r)
  PROVE  IncrementalGood'
<1> DEFINE b == v4[r]
           y == [b EXCEPT !.pc = "detected", !.resumed = TRUE]
<1>1. b \in Jobs /\ b \in JobsKnown /\ b.pc = "evaluated" /\ ~b.incremental /\ JobIsTrue(b)
  <2>1. b \in PausedJobs /\ b \in JobsKnown /\ JobIsTrue(b)
    BY DEF IncrementalGood, IncrementalTyped, JobsKnown, JobsAreTrue
  <2>2. b.pc # "idle" /\ ~b.incremental
    BY DEF Incremental!Resume
  <2> QED
    BY <2>1, <2>2 DEF PausedJobs
<1>2. v5' = [v5 EXCEPT ![q] = y] /\ v1' = v1 /\ v2' = v2 /\ v3' = v3 /\ v4' = v4 /\ v6' = v6
  BY DEF Incremental!Resume
<1> HIDE DEF b
<1>3. PICK z : z = y
  OBVIOUS
<1>4. /\ z \in Jobs /\ z.pc = "detected" /\ z.run = b.run /\ z.strategies = b.strategies
      /\ z.model = b.model /\ z.print = b.print /\ z.read = b.read /\ z.incremental = b.incremental
      /\ z.todo = b.todo /\ z.old = b.old /\ z.files = b.files /\ z.reports = b.reports
  BY <1>1, <1>3 DEF Jobs
<1>5. JobIsTrue(z)
  BY <1>1, <1>4 DEF JobIsTrue, RowsAreOf
<1>6. Alike(z, b) /\ z.read = b.read
  BY <1>4 DEF Alike
<1>7. v5' = [v5 EXCEPT ![q] = z]
  BY <1>2, <1>3
<1>8. b.pc # "idle"
  BY <1>1
<1>9. /\ v1' \in Prints /\ v2' \in Seq(Entries) /\ v3' \in [Incremental!RunIds -> RowFiles]
      /\ v4' \in [Incremental!RunIds -> PausedJobs]
      /\ \A o \in Incremental!RunIds : v4'[o] \in {v4[o], z, Incremental!Idle}
  BY <1>2 DEF IncrementalGood, IncrementalTyped
<1>a. (\A e \in Items(v2') : \E c \in Holders : Alike(e, c)) /\ WritesAreTrue
  BY <1>2, SameHistory, SameFiles
<1> QED
  BY <1>1, <1>2, <1>4, <1>5, <1>6, <1>7, <1>8, <1>9, <1>a, JobMoves

(* A run that begins: its number is new, and so is its directory.          *)
LEMMA BeginKeeps ==
  ASSUME IncrementalGood, NEW q \in RunProcs, NEW l \in Incremental!StrategyLists,
         NEW m \in RunModels, Incremental!Begin(q, l, m), MaxRuns \in Nat
  PROVE  IncrementalGood'
<1> DEFINE reuse == Incremental!Reuse(l, m, v1)
           y == [Incremental!Idle EXCEPT !.pc = "detected", !.run = v6 + 1, !.strategies = l,
                   !.model = m, !.print = v1, !.read = v2, !.incremental = reuse.incremental,
                   !.todo = reuse.todo, !.old = reuse.old]
<1>1. /\ v5' = [v5 EXCEPT ![q] = y] /\ v6' = v6 + 1 /\ v6 < MaxRuns
      /\ v1' = v1 /\ v2' = v2 /\ v3' = v3 /\ v4' = v4
  BY DEF Incremental!Begin
<1>2. v1 \in Prints /\ v2 \in Seq(Entries) /\ v6 \in Nat
  BY DEF IncrementalGood, IncrementalTyped
<1>3. ReuseIsTrue(reuse, l, m, v1)
  BY <1>2, ReuseIs
<1> HIDE DEF reuse
<1>4. PICK z : z = y
  OBVIOUS
<1>5. /\ z.pc = "detected" /\ z.run = v6 + 1 /\ z.strategies = l /\ z.model = m /\ z.print = v1
      /\ z.read = v2 /\ z.incremental = reuse.incremental /\ z.todo = reuse.todo
      /\ z.old = reuse.old /\ z.files = Incremental!NoFiles /\ z.reports = Incremental!NoFiles
  BY <1>4 DEF Incremental!Idle
<1>6. z \in Jobs
  <2>1. reuse.incremental \in BOOLEAN /\ reuse.todo \in SUBSET RunProblems /\ reuse.old \in RowFiles
    BY <1>3 DEF ReuseIsTrue
  <2>2. v6 + 1 \in Nat
    BY <1>2
  <2>4. l \in Incremental!StrategyLists \cup {<<>>} /\ m \in RunModels \cup {""}
    OBVIOUS
  <2>3. Incremental!Idle \in Jobs
    BY IdleIs
  <2> QED
    BY <1>2, <1>4, <2>1, <2>2, <2>3, <2>4 DEF Jobs
<1>7. JobIsTrue(z)
  <2>1. Fresh(z.files) /\ Fresh(z.reports)
    BY <1>5, NoFilesAre DEF Fresh
  <2>2. z.strategies # <<>> /\ Incremental!ToSet(z.strategies) \subseteq Incremental!StrategyNames
    <3>1. l = <<"s1">> \/ l = <<"s1", "s2">>
      BY DEF Incremental!StrategyLists
    <3>2. l # <<>>
      BY <3>1
    <3> QED
      BY <1>5, <1>6, <3>2, StrategiesAre
  <2>3. z.todo \subseteq RunProblems
    BY <1>3, <1>5 DEF ReuseIsTrue
  <2>4. \A s \in Incremental!StrategyNames : RowsAreOf(z.files[s], z)
    BY <1>5, NoFilesAre DEF RowsAreOf
  <2>5. \A s \in Incremental!StrategyNames : RowsAreOf(z.old[s], z)
    BY <1>3, <1>5 DEF RowsAreOf, ReuseIsTrue
  <2>6. z.incremental =>
          \A s \in Incremental!ToSet(z.strategies) :
            /\ Incremental!Present(z.print) \ z.todo \subseteq Incremental!Rows(z.old[s])
            /\ \A p \in z.todo : ~z.old[s][p].reused
    BY <1>3, <1>5 DEF ReuseIsTrue
  <2>7. \A s \in Incremental!ToSet(z.strategies), p \in z.todo : ~z.reports[s][p].reused
    BY <2>1, <2>2, <2>3 DEF Fresh
  <2> QED
    BY <1>5, <2>1, <2>2, <2>4, <2>5, <2>6, <2>7 DEF JobIsTrue
<1>8. v5' = [v5 EXCEPT ![q] = z]
  BY <1>1, <1>4
<1>9. \A x \in JobsKnown' : x \in JobsKnown \/ x = z
  <2>1. \A p \in RunProcs : v5'[p] \in JobsKnown \/ v5'[p] = z
    BY <1>8 DEF JobsKnown, IncrementalGood, IncrementalTyped
  <2>2. \A o \in Incremental!RunIds : v4'[o] \in JobsKnown
    BY <1>1 DEF JobsKnown
  <2> QED
    BY <2>1, <2>2 DEF JobsKnown
<1>a. \A a \in Holders' : a \in Holders \/ a = z
  <2>1. \A a \in JobsKnown' : a.pc # "idle" => a \in Holders \/ a = z
    BY <1>9 DEF Holders
  <2>2. Items(v2') \subseteq Holders
    BY <1>1 DEF Holders
  <2>3. \A x \in JobsKnown' : Items(x.read) \subseteq Holders
    BY <1>5, <1>9, <2>2, <1>1 DEF Holders
  <2>4. Items(v2)' = Items(v2')
    BY DEF Items
  <2> QED
    BY <2>1, <2>2, <2>3, <2>4 DEF Holders, Items
<1>b. \A a \in Holders : a.run \in Incremental!RunIds /\ a.run <= v6
  BY DEF IncrementalGood, HoldersAgree
<1>c. \A a \in Holders : a.run # v6 + 1
  BY <1>2, <1>b DEF Incremental!RunIds
<1>d. v6 + 1 \in Incremental!RunIds
  BY <1>1, <1>2 DEF Incremental!RunIds
<1>e. v3[v6 + 1] = Incremental!NoFiles
  BY <1>2, <1>d DEF IncrementalGood, HoldersAgree
<1>f. HoldersAgree'
  <2>1. ASSUME NEW a \in Holders', NEW b \in Holders', a.run = b.run PROVE Alike(a, b)
    <3>1. CASE a \in Holders /\ b \in Holders
      BY <2>1, <3>1 DEF IncrementalGood, HoldersAgree
    <3>2. CASE a = z /\ b = z
      BY <3>2 DEF Alike
    <3> QED
      BY <1>5, <1>a, <1>c, <2>1, <3>1, <3>2
  <2>2. ASSUME NEW a \in Holders'
        PROVE  /\ a.run \in Incremental!RunIds /\ a.run <= v6'
               /\ \A s \in Incremental!StrategyNames :
                    v3'[a.run][s] = Incremental!Broken \/ RowsAreOf(v3'[a.run][s], a)
    <3>1. CASE a \in Holders
      <4>1. a.run \in Incremental!RunIds /\ a.run <= v6
        BY <1>b, <3>1
      <4>2. a.run <= v6'
        BY <1>1, <1>2, <4>1 DEF Incremental!RunIds
      <4> QED
        BY <1>1, <3>1, <4>1, <4>2 DEF IncrementalGood, HoldersAgree
    <3>2. CASE a = z
      <4>1. a.run = v6 + 1
        BY <1>5, <3>2
      <4>2. \A s \in Incremental!StrategyNames : RowsAreOf(v3'[a.run][s], a)
        BY <1>1, <1>e, <4>1, NoFilesAre DEF RowsAreOf
      <4> QED
        BY <1>1, <1>2, <1>d, <4>1, <4>2
    <3> QED
      BY <1>a, <3>1, <3>2
  <2>3. \A r \in Incremental!RunIds : r > v6' => v3'[r] = Incremental!NoFiles
    <3>1. \A r \in Incremental!RunIds : r > v6' => r > v6
      BY <1>1, <1>2 DEF Incremental!RunIds
    <3> QED
      BY <1>1, <3>1 DEF IncrementalGood, HoldersAgree
  <2> HIDE DEF Holders
  <2> QED
    BY <2>1, <2>2, <2>3 DEF HoldersAgree
<1>g. JobsAreTrue'
  <2>1. \A x \in JobsKnown' : JobIsTrue(x)
    BY <1>7, <1>9 DEF IncrementalGood, JobsAreTrue
  <2> QED
    BY <2>1 DEF JobsAreTrue
<1>h. IncrementalTyped'
  BY <1>1, <1>2, <1>6, <1>8 DEF IncrementalGood, IncrementalTyped
<1> QED
  BY <1>f, <1>g, <1>h DEF IncrementalGood

(* A process that lets go of its run.                                      *)
LEMMA LetsGo ==
  ASSUME IncrementalGood, NEW q \in RunProcs, v5' = [v5 EXCEPT ![q] = Incremental!Idle],
         v1' = v1, v6' = v6, v4' = v4, v2' \in Seq(Entries),
         \A e \in Items(v2') : \E b \in Holders : Alike(e, b),
         v3' \in [Incremental!RunIds -> RowFiles], WritesAreTrue
  PROVE  IncrementalGood'
<1>1. /\ v1' \in Prints /\ v4' \in [Incremental!RunIds -> PausedJobs]
      /\ \A r \in Incremental!RunIds : v4'[r] \in {v4[r], Incremental!Idle}
  BY DEF IncrementalGood, IncrementalTyped
<1> QED
  BY <1>1, IdleIs, JobMoves

LEMMA RefuseKeeps ==
  ASSUME IncrementalGood, NEW q \in RunProcs, Incremental!Refuse(q)
  PROVE  IncrementalGood'
<1>1. /\ v5' = [v5 EXCEPT ![q] = Incremental!Idle] /\ v1' = v1 /\ v2' = v2 /\ v3' = v3
      /\ v4' = v4 /\ v6' = v6
  BY DEF Incremental!Refuse
<1>2. v2' \in Seq(Entries) /\ v3' \in [Incremental!RunIds -> RowFiles]
  BY <1>1 DEF IncrementalGood, IncrementalTyped
<1> QED
  BY <1>1, <1>2, SameHistory, SameFiles, LetsGo

(* A step of a run that leaves what it is.                                 *)
LEMMA GoesOn ==
  ASSUME IncrementalGood, NEW q \in RunProcs, v5[q].pc # "idle",
         NEW y \in Jobs, v5' = [v5 EXCEPT ![q] = y], JobIsTrue(y),
         Alike(y, v5[q]), y.read = v5[q].read,
         v4' \in [Incremental!RunIds -> PausedJobs],
         \A r \in Incremental!RunIds : v4'[r] \in {v4[r], y, Incremental!Idle},
         v1' = v1, v2' = v2, v6' = v6, v3' \in [Incremental!RunIds -> RowFiles], WritesAreTrue
  PROVE  IncrementalGood'
<1>1. v1' \in Prints /\ v2' \in Seq(Entries)
  BY DEF IncrementalGood, IncrementalTyped
<1>2. v5[q] \in JobsKnown
  BY JobsAre
<1> QED
  BY <1>1, <1>2, SameHistory, JobMoves

LEMMA FoundIs ==
  ASSUME IncrementalGood, NEW x \in Jobs, NEW cut \in BOOLEAN
  PROVE  /\ Incremental!Found(x, v1, cut) \in RowFiles
         /\ Fresh(Incremental!Found(x, v1, cut))
         /\ \A s \in Incremental!StrategyNames : RowsAreOf(Incremental!Found(x, v1, cut)[s], x)
<1> DEFINE f == Incremental!Found(x, v1, cut)
<1>1. v1 \in Prints /\ x.model \in RunModels \cup {""} /\ x.print \in Prints
  BY DEF IncrementalGood, IncrementalTyped, Jobs
<1>2. ASSUME NEW s \in Incremental!StrategyNames, NEW p \in RunProblems
      PROVE  /\ f[s][p] \in RowRecords /\ ~f[s][p].reused
             /\ \/ f[s][p] = Incremental!NoRow
                \/ f[s][p].model = x.model /\ (f[s][p].torn \/ f[s][p].version = x.print[p])
  <2> DEFINE row == [version |-> v1[p], model |-> x.model, done |-> ~cut \/ s = x.strategies[1],
                     torn |-> v1[p] # x.print[p], reused |-> FALSE]
  <2>1. f[s][p] = row \/ f[s][p] = Incremental!NoRow
    BY DEF Incremental!Found
  <2>2. v1[p] \in Nat
    BY <1>1 DEF Prints
  <2>3. row \in RowRecords
    BY <1>1, <2>2 DEF RowRecords
  <2>4. row.model = x.model /\ ~row.reused /\ (row.torn \/ row.version = x.print[p])
    OBVIOUS
  <2> HIDE DEF f, row
  <2> QED
    BY <2>1, <2>3, <2>4, NoFilesAre
<1>3. f = [s \in Incremental!StrategyNames |-> [p \in RunProblems |-> f[s][p]]]
  BY DEF Incremental!Found
<1> HIDE DEF f
<1>4. f \in RowFiles
  BY <1>2, <1>3 DEF RowFiles, RowFile
<1>5. Fresh(f) /\ \A s \in Incremental!StrategyNames : RowsAreOf(f[s], x)
  BY <1>2 DEF Fresh, RowsAreOf
<1> QED
  BY <1>4, <1>5 DEF f

LEMMA EvaluateKeeps ==
  ASSUME IncrementalGood, NEW q \in RunProcs, NEW cut \in BOOLEAN, Incremental!Evaluate(q, cut)
  PROVE  IncrementalGood'
<1> DEFINE x == v5[q]
           files == Incremental!Found(x, v1, cut)
           y == [x EXCEPT !.pc = "evaluated", !.files = files, !.reports = files, !.cut = cut]
<1>1. /\ v5' = [v5 EXCEPT ![q] = y] /\ v1' = v1 /\ v2' = v2 /\ v3' = v3 /\ v6' = v6
      /\ v4' = [v4 EXCEPT ![x.run] = IF cut THEN y ELSE Incremental!Idle] /\ x.pc = "detected"
  BY DEF Incremental!Evaluate
<1>2. x \in Jobs /\ JobIsTrue(x) /\ x.pc # "idle" /\ x.run \in Incremental!RunIds
      /\ x.strategies # <<>>
  BY <1>1, JobsAre
<1>3. /\ files \in RowFiles /\ Fresh(files)
      /\ \A s \in Incremental!StrategyNames : RowsAreOf(files[s], x)
  BY <1>2, FoundIs
<1> HIDE DEF files, x
<1>4. PICK z : z = y
  OBVIOUS
<1>5. /\ z \in Jobs /\ z.pc = "evaluated" /\ z.run = x.run /\ z.strategies = x.strategies
      /\ z.model = x.model /\ z.print = x.print /\ z.read = x.read /\ z.incremental = x.incremental
      /\ z.todo = x.todo /\ z.old = x.old /\ z.files = files /\ z.reports = files
  BY <1>2, <1>3, <1>4 DEF Jobs
<1>6. /\ Incremental!ToSet(x.strategies) \subseteq Incremental!StrategyNames
      /\ x.todo \subseteq RunProblems
  BY <1>2, StrategiesAre DEF Jobs
<1>7. JobIsTrue(z)
  <2>1. \A s \in Incremental!ToSet(x.strategies), p \in x.todo : ~files[s][p].reused
    BY <1>3, <1>6 DEF Fresh
  <2>2. \A s \in Incremental!StrategyNames : RowsAreOf(z.files[s], z) /\ RowsAreOf(z.old[s], z)
    BY <1>2, <1>3, <1>5 DEF RowsAreOf, JobIsTrue
  <2>3. z.incremental =>
       \A s \in Incremental!ToSet(z.strategies) :
         /\ Incremental!Present(z.print) \ z.todo \subseteq Incremental!Rows(z.old[s])
         /\ \A p \in z.todo : ~z.old[s][p].reused
    BY <1>2, <1>5 DEF JobIsTrue
  <2> QED
    BY <1>2, <1>3, <1>5, <2>1, <2>2, <2>3 DEF JobIsTrue
<1>8. Alike(z, x)
  BY <1>5 DEF Alike
<1>9. v5' = [v5 EXCEPT ![q] = z]
  BY <1>1, <1>4
<1>a. z \in PausedJobs /\ Incremental!Idle \in PausedJobs
  BY <1>5, IdleIs DEF PausedJobs
<1>b. v4' = [v4 EXCEPT ![x.run] = z] \/ v4' = [v4 EXCEPT ![x.run] = Incremental!Idle]
  BY <1>1, <1>4
<1>c. v4 \in [Incremental!RunIds -> PausedJobs]
  BY DEF IncrementalGood, IncrementalTyped
<1>d. v4' \in [Incremental!RunIds -> PausedJobs]
      /\ \A r \in Incremental!RunIds : v4'[r] \in {v4[r], z, Incremental!Idle}
  BY <1>a, <1>b, <1>c
<1>e. v3' \in [Incremental!RunIds -> RowFiles] /\ WritesAreTrue
  BY <1>1, SameFiles DEF IncrementalGood, IncrementalTyped
<1> QED
  BY <1>1, <1>2, <1>5, <1>7, <1>8, <1>9, <1>d, <1>e, GoesOn DEF x

(* What a merge makes of the rows of a run.                                *)
LEMMA MergedIs ==
  ASSUME NEW x \in Jobs, JobIsTrue(x), x.incremental, Fresh(x.files)
  PROVE  /\ Incremental!MergeResults(x.files, x.old) \in RowFiles
         /\ \A s \in Incremental!StrategyNames :
              RowsAreOf(Incremental!MergeResults(x.files, x.old)[s], x)
         /\ \A s \in Incremental!ToSet(x.strategies) :
              /\ \A p \in x.todo : ~Incremental!MergeResults(x.files, x.old)[s][p].reused
              /\ Incremental!Present(x.print) \ x.todo
                   \subseteq Incremental!Rows(Incremental!MergeResults(x.files, x.old)[s])
<1> DEFINE m == Incremental!MergeResults(x.files, x.old)
<1>1. /\ x.files \in RowFiles /\ x.old \in RowFiles /\ x.todo \subseteq RunProblems
      /\ Incremental!ToSet(x.strategies) \subseteq Incremental!StrategyNames
  BY StrategiesAre DEF Jobs
<1>2. \A s \in Incremental!StrategyNames, p \in RunProblems :
        /\ x.files[s][p] # Incremental!NoRow => m[s][p] = x.files[s][p]
        /\ x.files[s][p] = Incremental!NoRow => m[s][p] = x.old[s][p]
  BY DEF Incremental!MergeResults
<1>3. m = [s \in Incremental!StrategyNames |-> [p \in RunProblems |-> m[s][p]]]
  BY DEF Incremental!MergeResults
<1> HIDE DEF m
<1>4. \A s \in Incremental!StrategyNames, p \in RunProblems : m[s][p] \in RowRecords
  BY <1>1, <1>2 DEF RowFiles, RowFile
<1>5. m \in RowFiles
  BY <1>3, <1>4 DEF RowFiles, RowFile
<1>6. \A s \in Incremental!StrategyNames : RowsAreOf(m[s], x)
  BY <1>2 DEF JobIsTrue, RowsAreOf
<1>7. ASSUME NEW s \in Incremental!ToSet(x.strategies), NEW p \in x.todo PROVE ~m[s][p].reused
  BY <1>1, <1>2, <1>7 DEF JobIsTrue, Fresh
<1>8. ASSUME NEW s \in Incremental!ToSet(x.strategies),
             NEW p \in Incremental!Present(x.print) \ x.todo
      PROVE  p \in Incremental!Rows(m[s])
  <2>1. p \in Incremental!Rows(x.old[s])
    BY <1>8 DEF JobIsTrue
  <2>2. p \in RunProblems /\ x.old[s][p] # Incremental!NoRow
    BY <2>1 DEF Incremental!Rows
  <2>3. m[s][p] # Incremental!NoRow
    BY <1>1, <1>2, <2>2
  <2> QED
    BY <2>2, <2>3 DEF Incremental!Rows
<1> QED
  BY <1>5, <1>6, <1>7, <1>8 DEF m

LEMMA MergeKeeps ==
  ASSUME IncrementalGood, NEW q \in RunProcs, NEW how, Incremental!Merge(q, how)
  PROVE  IncrementalGood'
<1> DEFINE x == v5[q]
           m == Incremental!MergeResults(x.files, x.old)
           files   == IF x.incremental /\ how # "fails" THEN m ELSE x.files
           shown   == [s \in Incremental!StrategyNames |->
                         IF s \in Incremental!ToSet(x.strategies) THEN m[s] ELSE Incremental!NoRows]
           reports == IF x.incremental /\ how = "merges" THEN shown ELSE x.reports
           y == [x EXCEPT !.pc = "merged", !.files = files, !.reports = reports]
<1>1. /\ v1' = v1 /\ v2' = v2 /\ v3' = v3 /\ v4' = v4 /\ v6' = v6 /\ x.pc = "evaluated"
  BY DEF Incremental!Merge
<1>2. /\ x \in Jobs /\ JobIsTrue(x) /\ x.pc # "idle"
      /\ Fresh(x.files) /\ Fresh(x.reports)
  BY <1>1, JobsAre DEF JobIsTrue
<1>3. v5' = [v5 EXCEPT ![q] = y]
  <2>1. CASE x.incremental
    BY <1>2, <2>1 DEF Incremental!Merge, IncrementalGood, IncrementalTyped, Jobs
  <2>2. CASE ~x.incremental
    BY <1>2, <2>2 DEF Incremental!Merge, IncrementalGood, IncrementalTyped, Jobs
  <2> QED
    BY <2>1, <2>2
<1> HIDE DEF x
<1>4. x.incremental =>
         /\ m \in RowFiles
         /\ \A s \in Incremental!StrategyNames : RowsAreOf(m[s], x)
         /\ \A s \in Incremental!ToSet(x.strategies) :
              /\ \A p \in x.todo : ~m[s][p].reused
              /\ Incremental!Present(x.print) \ x.todo \subseteq Incremental!Rows(m[s])
  BY <1>2, MergedIs
<1> HIDE DEF m
<1>5. /\ x.files \in RowFiles /\ x.reports \in RowFiles
      /\ Incremental!ToSet(x.strategies) \subseteq Incremental!StrategyNames
  BY <1>2, StrategiesAre DEF Jobs
<1>6. files \in RowFiles /\ \A s \in Incremental!StrategyNames : RowsAreOf(files[s], x)
  BY <1>2, <1>4, <1>5 DEF JobIsTrue
<1>7. /\ reports \in RowFiles
      /\ \A s \in Incremental!ToSet(x.strategies) :
           /\ \A p \in x.todo : ~reports[s][p].reused
           /\ Fresh(reports) \/ Incremental!Present(x.print) \ x.todo \subseteq Incremental!Rows(reports[s])
  <2>1. CASE x.incremental /\ how = "merges"
    <3>1. reports = shown
      BY <2>1
    <3>2. \A s \in Incremental!ToSet(x.strategies) : shown[s] = m[s]
      BY <1>5
    <3>3. Incremental!NoRows \in RowFile
      BY NoFilesAre DEF Incremental!NoRows, RowFile
    <3>4. \A s \in Incremental!StrategyNames : m[s] \in RowFile
      BY <1>4, <2>1 DEF RowFiles
    <3>5. shown \in RowFiles
      BY <3>3, <3>4 DEF RowFiles
    <3> HIDE DEF shown, reports
    <3> QED
      BY <1>4, <2>1, <3>1, <3>2, <3>5
  <2>2. CASE ~(x.incremental /\ how = "merges")
    BY <1>2, <1>5, <2>2 DEF JobIsTrue
  <2> QED
    BY <2>1, <2>2
<1> HIDE DEF files, reports
<1>8. PICK z : z = y
  OBVIOUS
<1>9. /\ z \in Jobs /\ z.pc = "merged" /\ z.run = x.run /\ z.strategies = x.strategies
      /\ z.model = x.model /\ z.print = x.print /\ z.read = x.read /\ z.incremental = x.incremental
      /\ z.todo = x.todo /\ z.old = x.old /\ z.files = files /\ z.reports = reports
  BY <1>2, <1>6, <1>7, <1>8 DEF Jobs
<1>a. JobIsTrue(z)
  <2>1. \A s \in Incremental!StrategyNames : RowsAreOf(z.files[s], z) /\ RowsAreOf(z.old[s], z)
    BY <1>2, <1>6, <1>9 DEF RowsAreOf, JobIsTrue
  <2>2. z.incremental =>
       \A s \in Incremental!ToSet(z.strategies) :
         /\ Incremental!Present(z.print) \ z.todo \subseteq Incremental!Rows(z.old[s])
         /\ \A p \in z.todo : ~z.old[s][p].reused
    BY <1>2, <1>9 DEF JobIsTrue
  <2>3. x.strategies # <<>>
    BY <1>2 DEF JobIsTrue
  <2> QED
    BY <1>7, <1>9, <2>1, <2>2, <2>3 DEF JobIsTrue
<1>b. Alike(z, x)
  BY <1>9 DEF Alike
<1>c. v5' = [v5 EXCEPT ![q] = z]
  BY <1>3, <1>8
<1>d. /\ v3' \in [Incremental!RunIds -> RowFiles] /\ WritesAreTrue
      /\ v4' \in [Incremental!RunIds -> PausedJobs]
      /\ \A r \in Incremental!RunIds : v4'[r] \in {v4[r], z, Incremental!Idle}
  BY <1>1, SameFiles DEF IncrementalGood, IncrementalTyped
<1> QED
  BY <1>1, <1>2, <1>9, <1>a, <1>b, <1>c, <1>d, GoesOn DEF x

(* A job that only goes one step on.                                       *)
LEMMA StepOn ==
  ASSUME NEW x \in Jobs, JobIsTrue(x), x.pc # "idle", NEW pc \in {"saving", "saved"}
  PROVE  /\ [x EXCEPT !.pc = pc] \in Jobs /\ JobIsTrue([x EXCEPT !.pc = pc])
         /\ Alike([x EXCEPT !.pc = pc], x) /\ [x EXCEPT !.pc = pc].read = x.read
<1>1. PICK z : z = [x EXCEPT !.pc = pc]
  OBVIOUS
<1>2. /\ z \in Jobs /\ z.pc = pc /\ z.run = x.run /\ z.strategies = x.strategies
      /\ z.model = x.model /\ z.print = x.print /\ z.read = x.read /\ z.incremental = x.incremental
      /\ z.todo = x.todo /\ z.old = x.old /\ z.files = x.files /\ z.reports = x.reports
  BY <1>1 DEF Jobs
<1>3. JobIsTrue(z)
  BY <1>2 DEF JobIsTrue, RowsAreOf
<1>4. Alike(z, x)
  BY <1>2 DEF Alike
<1> QED
  BY <1>1, <1>2, <1>3, <1>4

(* A file of a run that is at the job's rows, or that cannot be read.      *)
LEMMA FileIsWritten ==
  ASSUME IncrementalGood, NEW x \in Holders, NEW rows \in RowFiles,
         \A s \in Incremental!StrategyNames :
           \/ rows[s] = v3[x.run][s] \/ rows[s] = Incremental!Broken \/ RowsAreOf(rows[s], x),
         v3' = [v3 EXCEPT ![x.run] = rows]
  PROVE  v3' \in [Incremental!RunIds -> RowFiles] /\ WritesAreTrue
<1>1. v3 \in [Incremental!RunIds -> RowFiles] /\ x.run \in Incremental!RunIds
  BY DEF IncrementalGood, IncrementalTyped, HoldersAgree
<1>2. v3' \in [Incremental!RunIds -> RowFiles]
  BY <1>1
<1>3. ASSUME NEW r \in Incremental!RunIds
      PROVE  \/ v3'[r] = v3[r]
             \/ \E b \in Holders : b.run = r /\ \A s \in Incremental!StrategyNames :
                  v3'[r][s] = v3[r][s] \/ v3'[r][s] = Incremental!Broken \/ RowsAreOf(v3'[r][s], b)
  <2>1. CASE r # x.run
    BY <1>1, <2>1
  <2>2. CASE r = x.run
    <3>1. v3'[r] = rows
      BY <1>1, <2>2
    <3> QED
      BY <2>2, <3>1
  <2> QED
    BY <2>1, <2>2
<1> QED
  BY <1>2, <1>3 DEF WritesAreTrue

LEMMA OneFile ==
  ASSUME IncrementalGood, NEW x \in Holders, NEW s \in Incremental!StrategyNames,
         NEW file \in RowFile, file = Incremental!Broken \/ RowsAreOf(file, x),
         v3' = [v3 EXCEPT ![x.run][s] = file]
  PROVE  v3' \in [Incremental!RunIds -> RowFiles] /\ WritesAreTrue
<1> DEFINE rows == [v3[x.run] EXCEPT ![s] = file]
<1>1. x.run \in Incremental!RunIds /\ v3[x.run] \in RowFiles
  BY DEF IncrementalGood, IncrementalTyped, HoldersAgree
<1>2. rows \in RowFiles
  BY <1>1 DEF RowFiles
<1>3. \A o \in Incremental!StrategyNames : rows[o] = IF o = s THEN file ELSE v3[x.run][o]
  BY <1>1 DEF RowFiles
<1>4. v3' = [v3 EXCEPT ![x.run] = rows]
  OBVIOUS
<1> HIDE DEF rows
<1>5. \A o \in Incremental!StrategyNames :
           \/ rows[o] = v3[x.run][o] \/ rows[o] = Incremental!Broken \/ RowsAreOf(rows[o], x)
  BY <1>3
<1> QED
  BY <1>2, <1>4, <1>5, FileIsWritten

LEMMA SaveFirstKeeps ==
  ASSUME IncrementalGood, NEW q \in RunProcs, Incremental!SaveFirst(q)
  PROVE  IncrementalGood'
<1> DEFINE x == v5[q]
           s == x.strategies[1]
           y == [x EXCEPT !.pc = "saving"]
<1>1. /\ v5' = [v5 EXCEPT ![q] = y] /\ v1' = v1 /\ v2' = v2 /\ v4' = v4 /\ v6' = v6
      /\ v3' = [v3 EXCEPT ![x.run][s] = x.files[s]] /\ x.pc = "merged"
  BY DEF Incremental!SaveFirst
<1>2. x \in Jobs /\ JobIsTrue(x) /\ x.pc # "idle" /\ x \in Holders /\ x.strategies # <<>>
  BY <1>1, JobsAre
<1>3. s \in Incremental!StrategyNames
  BY <1>2, StrategiesAre
<1>4. x.files[s] \in RowFile /\ RowsAreOf(x.files[s], x)
  BY <1>2, <1>3 DEF Jobs, RowFiles, JobIsTrue
<1> HIDE DEF s
<1>5. PICK b \in Holders : b = x
  BY <1>2
<1>6. v3' \in [Incremental!RunIds -> RowFiles] /\ WritesAreTrue
  BY <1>1, <1>3, <1>4, <1>5, OneFile
<1>7. y \in Jobs /\ JobIsTrue(y) /\ Alike(y, x) /\ y.read = x.read
  BY <1>2, StepOn
<1>8. /\ v4' \in [Incremental!RunIds -> PausedJobs]
      /\ \A r \in Incremental!RunIds : v4'[r] \in {v4[r], y, Incremental!Idle}
  BY <1>1 DEF IncrementalGood, IncrementalTyped
<1> QED
  BY <1>1, <1>2, <1>6, <1>7, <1>8, GoesOn

LEMMA SaveRestKeeps ==
  ASSUME IncrementalGood, NEW q \in RunProcs, Incremental!SaveRest(q)
  PROVE  IncrementalGood'
<1> DEFINE x == v5[q]
           y == [x EXCEPT !.pc = "saved"]
<1>1. /\ v5' = [v5 EXCEPT ![q] = IF x.resumed THEN Incremental!Idle ELSE y]
      /\ v1' = v1 /\ v2' = v2 /\ v4' = v4 /\ v6' = v6
      /\ v3' = [v3 EXCEPT ![x.run] = x.files] /\ x.pc = "saving"
  BY DEF Incremental!SaveRest
<1>2. x \in Jobs /\ JobIsTrue(x) /\ x.pc # "idle" /\ x \in Holders
  BY <1>1, JobsAre
<1>3. x.files \in RowFiles /\ \A s \in Incremental!StrategyNames : RowsAreOf(x.files[s], x)
  BY <1>2 DEF Jobs, JobIsTrue
<1>4. v3' \in [Incremental!RunIds -> RowFiles] /\ WritesAreTrue
  BY <1>1, <1>2, <1>3, FileIsWritten
<1>5. y \in Jobs /\ JobIsTrue(y) /\ Alike(y, x) /\ y.read = x.read
  BY <1>2, StepOn
<1>6. /\ v4' \in [Incremental!RunIds -> PausedJobs] /\ v2' \in Seq(Entries)
      /\ \A r \in Incremental!RunIds : v4'[r] \in {v4[r], y, Incremental!Idle}
  BY <1>1 DEF IncrementalGood, IncrementalTyped
<1>7. CASE x.resumed
  <2>1. v5' = [v5 EXCEPT ![q] = Incremental!Idle]
    BY <1>1, <1>7
  <2> QED
    BY <1>1, <1>4, <1>6, <2>1, SameHistory, LetsGo
<1>8. CASE ~x.resumed
  <2>1. v5' = [v5 EXCEPT ![q] = y]
    BY <1>1, <1>8
  <2> QED
    BY <1>1, <1>2, <1>4, <1>5, <1>6, <2>1, GoesOn
<1> QED
  BY <1>7, <1>8

LEMMA RecordKeeps ==
  ASSUME IncrementalGood, NEW q \in RunProcs, Incremental!Record(q)
  PROVE  IncrementalGood'
<1> DEFINE x == v5[q]
           e == [run |-> x.run, strategy |-> x.strategies[1], model |-> x.model, print |-> x.print]
           base == Incremental!Base(x)
<1>1. /\ v5' = [v5 EXCEPT ![q] = Incremental!Idle] /\ v1' = v1 /\ v3' = v3 /\ v4' = v4
      /\ v6' = v6 /\ v2' = Append(base, e) /\ x.pc = "saved"
  BY DEF Incremental!Record
<1>2. /\ x \in Jobs /\ x \in Holders /\ x.strategies # <<>>
      /\ Items(x.read) \subseteq Holders /\ Items(v2) \subseteq Holders
  BY <1>1, JobsAre
<1>3. x.strategies[1] \in Incremental!StrategyNames
  BY <1>2, StrategiesAre
<1>4. e \in Entries /\ Alike(e, x)
  BY <1>2, <1>3 DEF Entries, Jobs, Alike
<1>5. base \in Seq(Entries) /\ Items(base) \subseteq Holders
  <2>1. v2 \in Seq(Entries) /\ x.read \in Seq(Entries)
    BY <1>2 DEF IncrementalGood, IncrementalTyped, Jobs
  <2>2. base = x.read \/ base = v2
    BY DEF Incremental!Base
  <2> HIDE DEF base
  <2> QED
    BY <1>2, <2>1, <2>2
<1> HIDE DEF base, e, x
<1>6. v2' \in Seq(Entries)
  BY <1>1, <1>4, <1>5
<1>7. \A a \in Items(v2') : \E b \in Holders : Alike(a, b)
  <2>1. \A i \in DOMAIN v2' : v2'[i] \in Items(base) \/ v2'[i] = e
    BY <1>1, <1>4, <1>5 DEF Items
  <2>2. \A a \in Items(v2') : a \in Items(base) \/ a = e
    BY <2>1 DEF Items
  <2>3. \A a \in Items(base) : \E b \in Holders : Alike(a, b)
    BY <1>5 DEF Alike
  <2> QED
    BY <1>2, <1>4, <2>2, <2>3
<1>8. v3' \in [Incremental!RunIds -> RowFiles] /\ WritesAreTrue
  BY <1>1, SameFiles DEF IncrementalGood, IncrementalTyped
<1> QED
  BY <1>1, <1>6, <1>7, <1>8, LetsGo

LEMMA CrashKeeps ==
  ASSUME IncrementalGood, NEW q \in RunProcs, Incremental!Crash(q)
  PROVE  IncrementalGood'
<1> DEFINE x == v5[q]
           s == x.strategies[1]
<1>1. /\ v5' = [v5 EXCEPT ![q] = Incremental!Idle] /\ v1' = v1 /\ v4' = v4 /\ v6' = v6
      /\ x.pc # "idle"
      /\ \/ v2' = v2 /\ v3' = v3
         \/ v2' = v2 /\ v3' = [v3 EXCEPT ![x.run][s] = Incremental!Broken]
         \/ v2' = <<>> /\ v3' = v3
  BY DEF Incremental!Crash
<1>2. x \in Jobs /\ x \in Holders /\ x.strategies # <<>>
  BY <1>1, JobsAre
<1>3. s \in Incremental!StrategyNames
  BY <1>2, StrategiesAre
<1>4. v2 \in Seq(Entries) /\ v3 \in [Incremental!RunIds -> RowFiles]
  BY DEF IncrementalGood, IncrementalTyped
<1> HIDE DEF s, x
<1>5. v2' \in Seq(Entries) /\ \A a \in Items(v2') : \E b \in Holders : Alike(a, b)
  <2>1. CASE v2' = v2
    BY <1>4, <2>1, SameHistory
  <2>2. CASE v2' = <<>>
    BY <2>2 DEF Items
  <2> QED
    BY <1>1, <2>1, <2>2
<1>6. v3' \in [Incremental!RunIds -> RowFiles] /\ WritesAreTrue
  <2>1. CASE v3' = v3
    BY <1>4, <2>1, SameFiles
  <2>2. CASE v3' = [v3 EXCEPT ![x.run][s] = Incremental!Broken]
    BY <1>2, <1>3, <2>2, NoFilesAre, OneFile
  <2> QED
    BY <1>1, <2>1, <2>2
<1> QED
  BY <1>1, <1>5, <1>6, LetsGo

LEMMA IncrementalInit == ASSUME Incremental!Init PROVE IncrementalGood
<1>1. v1 \in Prints
  BY DEF Incremental!Init, Incremental!Gone, Prints
<1>2. /\ v2 = <<>> /\ v3 = [r \in Incremental!RunIds |-> Incremental!NoFiles]
      /\ v4 = [r \in Incremental!RunIds |-> Incremental!Idle]
      /\ v5 = [q \in RunProcs |-> Incremental!Idle] /\ v6 = 0
  BY DEF Incremental!Init
<1>3. \A x \in JobsKnown : x = Incremental!Idle
  BY <1>2 DEF JobsKnown
<1>4. Holders = {}
  BY <1>2, <1>3, IdleIs DEF Holders, Items
<1>5. IncrementalTyped
  <2>1. Incremental!Idle \in PausedJobs
    BY IdleIs DEF PausedJobs
  <2> QED
    BY <1>1, <1>2, <2>1, NoFilesAre, IdleIs DEF IncrementalTyped
<1>6. HoldersAgree
  BY <1>2, <1>4 DEF HoldersAgree
<1>7. JobsAreTrue
  BY <1>3, IdleIs DEF JobsAreTrue
<1> QED
  BY <1>5, <1>6, <1>7 DEF IncrementalGood

(* How far a run may be counted, and a problem's versions.                 *)
BoundsAreGiven == MaxRuns \in Nat /\ MaxVersion \in Nat

=============================================================================
