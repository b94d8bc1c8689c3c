--------------------------- MODULE ResponseCache ---------------------------
(***************************************************************************)
(* The cache of model responses (src/cache.py), used by several threads    *)
(* and processes without a lock. An entry and the log of accesses are each *)
(* written to a temporary name, the same for every writer, and moved into  *)
(* place; a file that was opened and not yet written, or written by two,   *)
(* is torn, and reads as nothing. Entries have the size 1.                 *)
(***************************************************************************)
EXTENDS Integers, Sequences, FiniteSets

CONSTANTS
  Procs,    \* the users of the cache, numbers; they are alike
  Keys,     \* what is asked for
  Limit,    \* max_size, in entries
  Ttl,      \* ttl, in accesses
  MaxOps,   \* bound: operations
  MaxOverlaps \* bound: operations that begin while another is at work

VARIABLES
  name,     \* the directory: a name leads to a file, or to 0
  content,  \* the files: [kind, at, log]
  proc,     \* the operations
  clock,    \* time: it goes on with every operation
  count     \* hits, misses and gets; overlaps

vars == <<name, content, proc, clock, count>>

Log == "log"
Entry(k) == <<"entry", k>>
Temp(n) == <<"tmp", n>>
Targets == {<<Log>>} \cup {Entry(k) : k \in Keys}
Names == Targets \cup {Temp(n) : n \in Targets}
LogName == <<Log>>

NoLog == [k \in Keys |-> 0]
Torn == [kind |-> "torn", at |-> 0, log |-> NoLog]
EntryFile(at) == [kind |-> "entry", at |-> at, log |-> NoLog]
LogFile(log) == [kind |-> "log", at |-> 0, log |-> log]

Idle == [op |-> "none", pc |-> "idle", key |-> "none", hand |-> 0, log |-> NoLog, seen |-> {},
         size |-> 0, at |-> 0, listed |-> FALSE, alone |-> FALSE, end |-> "none"]

(* __init__ leaves an empty log. *)
Init ==
  /\ name = [n \in Names |-> IF n = LogName THEN 1 ELSE 0]
  /\ content = <<LogFile(NoLog)>>
  /\ proc = [p \in Procs |-> Idle]
  /\ clock = 0
  /\ count = [hit |-> 0, miss |-> 0, get |-> 0, over |-> 0]

Present == {k \in Keys : name[Entry(k)] # 0}
Working(p) == proc[p].pc # "idle"

TypeOK ==
  /\ \A n \in Names : name[n] \in 0..Len(content)
  /\ \A i \in 1..Len(content) : content[i].kind \in {"torn", "entry", "log"}
  /\ clock \in 0..MaxOps
  /\ \A p \in Procs : /\ proc[p].op \in {"none", "get", "set", "clear"}
                      /\ proc[p].hand \in 0..Len(content) /\ proc[p].seen \subseteq Keys

---------------------------------------------------------------------------
(* The steps. at(p, pc) is where p is, and a step moves it on. *)

At(p, pc) == proc[p].pc = pc
Go(p, record) == proc' = [proc EXCEPT ![p] = record]

(* An operation ends: a get is a hit or a miss. What a set that was alone  *)
(* did is remembered until the next operation begins.                      *)
End(p, end) ==
  /\ Go(p, IF proc[p].op = "set" /\ proc[p].alone
           THEN [Idle EXCEPT !.op = "set", !.key = proc[p].key, !.at = proc[p].at,
                             !.alone = TRUE, !.end = end]
           ELSE Idle)
  /\ count' = IF proc[p].op # "get" THEN count
              ELSE IF end = "hit" THEN [count EXCEPT !.hit = @ + 1]
              ELSE [count EXCEPT !.miss = @ + 1]

(* Somebody begins, the first that is idle: whoever is at work is not      *)
(* alone.                                                                  *)
Begin(p, op, k, pc) ==
  /\ ~Working(p) /\ (\A q \in Procs : q < p => Working(q)) /\ clock < MaxOps
  /\ clock' = clock + 1
  /\ LET alone == \A q \in Procs \ {p} : ~Working(q)
     IN proc' = [q \in Procs |->
                   IF q = p THEN [Idle EXCEPT !.op = op, !.key = k, !.pc = pc,
                                              !.at = clock + 1, !.alone = alone]
                   ELSE IF Working(q) THEN [proc[q] EXCEPT !.alone = FALSE] ELSE Idle]
  /\ LET busy == IF \E q \in Procs : Working(q) THEN 1 ELSE 0
     IN /\ count.over + busy <= MaxOverlaps
        /\ count' = [count EXCEPT !.get = IF op = "get" THEN @ + 1 ELSE @, !.over = @ + busy]
  /\ UNCHANGED <<name, content>>

Get(p, k) == Begin(p, "get", k, "read")
Set(p, k) == Begin(p, "set", k, "open")
Clear(p) == Begin(p, "clear", CHOOSE k \in Keys : TRUE, "list")

(* get: an entry that is absent, torn or too old is a miss. *)
Read(p) ==
  /\ At(p, "read")
  /\ LET file == name[Entry(proc[p].key)]
     IN IF file # 0 /\ content[file].kind = "entry" /\ clock - content[file].at < Ttl
        THEN Go(p, [proc[p] EXCEPT !.pc = "log", !.size = content[file].at]) /\ UNCHANGED count
        ELSE End(p, "miss")
  /\ UNCHANGED <<name, content, clock>>

(* open(temp, "w"): the temporary name of another writer is the same file. *)
OpenTemp(n, p, pc) ==
  LET file == name[Temp(n)]
  IN IF file = 0
     THEN /\ content' = Append(content, Torn)
          /\ name' = [name EXCEPT ![Temp(n)] = Len(content) + 1]
          /\ Go(p, [proc[p] EXCEPT !.pc = pc, !.hand = Len(content) + 1])
     ELSE /\ content' = [content EXCEPT ![file] = Torn]
          /\ Go(p, [proc[p] EXCEPT !.pc = pc, !.hand = file])
          /\ UNCHANGED name

(* What two wrote into one file may be unreadable; what no name leads to   *)
(* does not matter.                                                        *)
WriteTemp(value, p, pc) ==
  /\ LET file == proc[p].hand
     IN \E new \in IF \A n \in Names : name[n] # file THEN {Torn}
                  ELSE IF content[file] = Torn THEN {value} ELSE {value, Torn} :
          content' = [content EXCEPT ![file] = new]
  /\ Go(p, [proc[p] EXCEPT !.pc = pc, !.hand = 0, !.log = NoLog])
  /\ UNCHANGED name

(* temp.replace(target): another writer may have moved the file already.   *)
(* set removes what is left of its temporary name.                         *)
Moved(n) ==
  /\ name[Temp(n)] # 0
  /\ name' = [name EXCEPT ![n] = name[Temp(n)], ![Temp(n)] = 0]

Fails(p) ==
  /\ End(p, "failed")
  /\ name' = IF proc[p].op = "set" THEN [name EXCEPT ![Temp(Entry(proc[p].key))] = 0] ELSE name

Open(p) ==
  At(p, "open") /\ OpenTemp(Entry(proc[p].key), p, "write") /\ UNCHANGED <<clock, count>>
Write(p) ==
  At(p, "write") /\ WriteTemp(EntryFile(proc[p].at), p, "move") /\ UNCHANGED <<clock, count>>
Move(p) ==
  /\ At(p, "move")
  /\ \/ /\ Moved(Entry(proc[p].key))
        /\ Go(p, [proc[p] EXCEPT !.pc = "log"]) /\ UNCHANGED count
     \/ name[Temp(Entry(proc[p].key))] = 0 /\ Fails(p)
  /\ UNCHANGED <<content, clock>>

(* _update_access_time: the log is read, and written again with the time   *)
(* of this access. A torn log is an empty one.                             *)
ReadableLog ==
  LET file == name[LogName]
  IN IF file # 0 /\ content[file].kind = "log" THEN content[file].log ELSE NoLog

ReadLog(p) ==
  /\ At(p, "log")
  /\ Go(p, [proc[p] EXCEPT !.pc = "openlog",
                           !.log = [ReadableLog EXCEPT ![proc[p].key] = clock]])
  /\ UNCHANGED <<name, content, clock, count>>
OpenLog(p) == At(p, "openlog") /\ OpenTemp(LogName, p, "writelog") /\ UNCHANGED <<clock, count>>
WriteLog(p) ==
  At(p, "writelog") /\ WriteTemp(LogFile(proc[p].log), p, "movelog") /\ UNCHANGED <<clock, count>>

(* A get whose log cannot be moved is counted as a miss, though it has its *)
(* answer; a set goes on to the size, unless it comes from there.          *)
MoveLog(p) ==
  /\ At(p, "movelog")
  /\ \/ /\ Moved(LogName)
        /\ IF proc[p].op = "get" THEN End(p, "hit")
           ELSE IF proc[p].op = "set" /\ ~proc[p].listed
           THEN Go(p, [proc[p] EXCEPT !.pc = "list"]) /\ UNCHANGED count
           ELSE End(p, "done")
     \/ name[Temp(LogName)] = 0 /\ Fails(p)
  /\ UNCHANGED <<content, clock>>

(* _enforce_size_limit, clear: the files are listed, then looked at; one   *)
(* that is gone by then is an error.                                       *)
List(p) ==
  /\ At(p, "list")
  /\ Go(p, [proc[p] EXCEPT !.pc = "stat", !.seen = Present])
  /\ UNCHANGED <<name, content, clock, count>>

Stat(p) ==
  /\ At(p, "stat")
  /\ \/ /\ proc[p].seen \subseteq Present
        /\ IF proc[p].op = "set" /\ Cardinality(proc[p].seen) <= Limit
           THEN End(p, "done")
           ELSE /\ Go(p, [proc[p] EXCEPT !.pc = "evict", !.listed = TRUE,
                                         !.log = IF proc[p].op = "clear" THEN NoLog
                                                 ELSE ReadableLog,
                                         !.size = Cardinality(proc[p].seen)])
                /\ UNCHANGED count
        /\ UNCHANGED name
     \/ ~(proc[p].seen \subseteq Present) /\ Fails(p)
  /\ UNCHANGED <<content, clock>>

Enough(p) == proc[p].seen = {} \/ (proc[p].op = "set" /\ proc[p].size <= Limit)
Oldest(p, k) == \A l \in proc[p].seen : proc[p].log[k] <= proc[p].log[l]

(* The least recently used first, until the size is below the limit; what  *)
(* another evicted is not counted. A clear takes them all, and fails on    *)
(* one that is gone.                                                       *)
Evict(p) ==
  /\ At(p, "evict") /\ ~Enough(p)
  /\ \E k \in proc[p].seen :
       /\ Oldest(p, k)
       /\ IF k \in Present
          THEN /\ name' = [name EXCEPT ![Entry(k)] = 0]
               /\ Go(p, [proc[p] EXCEPT !.seen = @ \ {k}, !.size = @ - 1, !.log[k] = 0])
               /\ UNCHANGED count
          ELSE IF proc[p].op = "clear" THEN Fails(p)
          ELSE /\ Go(p, [proc[p] EXCEPT !.seen = @ \ {k}])
               /\ UNCHANGED <<name, count>>
  /\ UNCHANGED <<content, clock>>

Evicted(p) ==
  /\ At(p, "evict") /\ Enough(p)
  /\ Go(p, [proc[p] EXCEPT !.pc = "openlog"])
  /\ UNCHANGED <<name, content, clock, count>>

Next ==
  \E p \in Procs :
    \/ \E k \in Keys : Get(p, k) \/ Set(p, k)
    \/ Clear(p) \/ Read(p) \/ Open(p) \/ Write(p) \/ Move(p)
    \/ ReadLog(p) \/ OpenLog(p) \/ WriteLog(p) \/ MoveLog(p)
    \/ List(p) \/ Stat(p) \/ Evict(p) \/ Evicted(p)

Spec == Init /\ [][Next]_vars

---------------------------------------------------------------------------
(* Every get is counted once, whatever went wrong under it (get). *)
GetsAreCounted ==
  count.hit + count.miss + Cardinality({p \in Procs : Working(p) /\ proc[p].op = "get"})
    = count.get

(* A set that nobody disturbed leaves its entry, whole, and the cache      *)
(* within its size, whatever those before it left behind: a torn file, a   *)
(* lost log (set, _enforce_size_limit).                                    *)
LoneSetIsKept ==
  \A p \in Procs :
    proc[p].op = "set" /\ proc[p].end # "none" =>
      /\ proc[p].end = "done"
      /\ Limit > 0 => /\ name[Entry(proc[p].key)] # 0
                      /\ content[name[Entry(proc[p].key)]] = EntryFile(proc[p].at)
      /\ Cardinality(Present) <= Limit

CacheIsSound == GetsAreCounted /\ LoneSetIsKept
=============================================================================
