----------------------------- MODULE DatasetFile -----------------------------
(***************************************************************************)
(* The file of a dataset under the commands that rewrite it: an import     *)
(* (run_import_command, detect_duplicates, persist_dataset) loads it, adds *)
(* to it, asks, writes a temporary file whose name is always the same, and *)
(* renames it; a deduplication (run_problems_deduplicate_command) loads    *)
(* it, merges the problems it finds alike, and rewrites the file in place. *)
(* Nothing locks the file: commands overlap, fail and are killed.          *)
(***************************************************************************)
EXTENDS Naturals, FiniteSets

CONSTANTS
  Commands,     \* the commands, each run once
  Seeds,        \* bound: what the file may hold at first
  Batches,      \* bound: what an import may bring, <<key, id>> of each problem
  MaxCrashes    \* bound: commands killed

VARIABLES
  content,   \* of each file that was ever made
  file,      \* the one with the name of the dataset; NoFile if there is none
  temp,      \* the one with the name of the temporary file
  cmd,       \* the commands
  crashes

dataVars == <<content, file, temp, cmd, crashes>>

NoFile == 0
NoKey  == 0      \* no source_problem_id
Inodes == 1 .. Cardinality(Commands) + 1
Torn   == [state |-> "torn", of |-> {}]
Unused == [state |-> "unused", of |-> {}]
Whole(S) == [state |-> "whole", of |-> S]

(* A problem: who brought it, (source_platform, source_problem_id), its    *)
(* problem_id, whether it satisfies the schema, and merged_from.           *)
Problem(by, key, id, ok) == [by |-> by, key |-> key, id |-> id, ok |-> ok, had |-> {}]
Name(p)    == <<p.by, p.key, p.id>>
Brought(c, batch) == {Problem(c, b[1], b[2], TRUE) : b \in batch}
Keyed(S)   == {p \in S : p.key # NoKey}
SameKey(S, k) == {p \in S : p.key = k}

Idle == [pc |-> "idle", kind |-> "import", strategy |-> "skip", seen |-> {}, new |-> {},
         final |-> {}, successful |-> {}, over |-> {}, groups |-> {}, inode |-> NoFile,
         alone |-> TRUE]

Init ==
  /\ \/ file = NoFile /\ content = [i \in Inodes |-> Unused]
     \/ file = 1 /\ \E S \in Seeds :
          content = [i \in Inodes |-> IF i = 1 THEN Whole({Problem(0, s[1], s[2], s[3]) : s \in S})
                                               ELSE Unused]
  /\ temp = NoFile
  /\ cmd = [c \in Commands |-> Idle]
  /\ crashes = 0

(* Another command touched a file that the others rely on.                 *)
Touch(c, new) == [d \in Commands |-> IF d = c THEN new ELSE [cmd[d] EXCEPT !.alone = FALSE]]

(* Another command has file i open, to write it.                           *)
Held(c, i) ==
  \E d \in Commands \ {c} :
    cmd[d].inode = i /\ cmd[d].pc \in {"writing", "written", "rewriting"}

---------------------------------------------------------------------------
(* Import *)

(* ProblemLoader.load: problems that are not valid are left out with a     *)
(* warning, and fields the schema does not have, merged_from, are dropped. *)
Valid(p)  == p.ok
Loaded(S) == {[p EXCEPT !.had = {}] : p \in {q \in S : Valid(q)}}

(* An empty dataset, one without a valid problem and one that does not     *)
(* parse are refused.                                                      *)
Loadable == file # NoFile => Loaded(content[file].of) # {}

Duplicates(new, old) == {n \in Keyed(new) : SameKey(old, n.key) # {}}

(* detect_duplicates of LocalJsonImporter, that the other importers use:   *)
(* what stays, what is added, and the ids that are skipped. What is skipped*)
(* is known by problem_id.                                                 *)
Detect(strategy, new, old) ==
  LET dup == Duplicates(new, old)
      ids == IF strategy = "skip" THEN {n.id : n \in dup} ELSE {}
  IN [kept    |-> IF strategy = "skip" THEN old
                  ELSE {o \in old : \A n \in dup : o.key # n.key},
      added   |-> {n \in new : \/ n.key = NoKey
                               \/ (n \notin dup \/ strategy = "overwrite") /\ n.id \notin ids},
      skipped |-> ids]

(* MockPlatformImporter takes one of the old problems with the key away.   *)
DetectMock(strategy, new, old) ==
  LET dup == Duplicates(new, old)
      ids == IF strategy = "skip" THEN {n.id : n \in dup} ELSE {}
  IN {[kept    |-> old \ gone,
       added   |-> IF strategy = "skip" THEN new \ dup ELSE new,
       skipped |-> ids] :
      gone \in {G \in SUBSET old : \A o \in old :
                  /\ o \in G => strategy = "overwrite" /\ \E n \in dup : n.key = o.key
                  /\ Cardinality(SameKey(G, o.key)) =
                       IF strategy = "overwrite" /\ \E n \in dup : n.key = o.key THEN 1 ELSE 0}}

(* What was fetched is merged with what is on file, at this moment; a      *)
(* preview stops here. The problems of the mock platform have keys of      *)
(* their own.                                                              *)
Load(c) ==
  /\ cmd[c].pc = "idle" /\ Loadable
  /\ \E kind \in {"import", "mock"}, strategy \in {"skip", "overwrite"}, batch \in Batches :
       LET new == Brought(c, batch)
           old == IF file = NoFile THEN {} ELSE Loaded(content[file].of)
       IN /\ kind = "mock" =>
               new = Keyed(new) /\ \A m, n \in new : m.key = n.key => m = n
          /\ \E d \in IF kind = "mock" THEN DetectMock(strategy, new, old)
                                       ELSE {Detect(strategy, new, old)},
                pc \in {"asked", "unchanged"} :
               cmd' = [cmd EXCEPT ![c] =
                 [Idle EXCEPT !.pc = pc, !.kind = kind, !.strategy = strategy,
                              !.seen = old, !.new = new, !.final = d.kept \cup d.added,
                              !.successful = {n \in new : n.id \notin d.skipped},
                              !.over = IF strategy = "overwrite" THEN Duplicates(new, old) ELSE {}]]
  /\ UNCHANGED <<content, file, temp, crashes>>

LoadRefused(c) ==
  /\ cmd[c].pc = "idle" /\ ~Loadable
  /\ cmd' = [cmd EXCEPT ![c].pc = "unchanged"]
  /\ UNCHANGED <<content, file, temp, crashes>>

(* "Proceed with import? (y/N): ", or --force.                             *)
Confirm(c) ==
  /\ cmd[c].pc = "asked" /\ cmd[c].kind # "merge"
  /\ \E pc \in {"write", "unchanged"} : cmd' = [cmd EXCEPT ![c].pc = pc]
  /\ UNCHANGED <<content, file, temp, crashes>>

(* persist_dataset opens the temporary file, and empties one that is there *)
OpenTemp(c) ==
  LET fresh == CHOOSE i \in Inodes : content[i] = Unused
      i     == IF temp = NoFile THEN fresh ELSE temp
  IN /\ cmd[c].pc = "write"
     /\ content' = [content EXCEPT ![i] = Torn] /\ temp' = i
     /\ cmd' = Touch(c, [cmd[c] EXCEPT !.pc = "writing", !.inode = i, !.alone = @ /\ ~Held(c, i)])
     /\ UNCHANGED <<file, crashes>>

(* A writer that had the file for itself leaves it whole.                  *)
Writes(c, S) ==
  content' \in {[content EXCEPT ![cmd[c].inode] = new] :
                  new \in {Whole(S)} \cup (IF cmd[c].alone THEN {} ELSE {Torn})}

WriteTemp(c) ==
  /\ cmd[c].pc = "writing"
  /\ Writes(c, cmd[c].final)
  /\ cmd' = Touch(c, [cmd[c] EXCEPT !.pc = "written"])
  /\ UNCHANGED <<file, temp, crashes>>

(* os.replace renames whatever has the name of the temporary file.         *)
Replace(c) ==
  /\ cmd[c].pc = "written" /\ temp # NoFile
  /\ file' = temp /\ temp' = NoFile
  /\ cmd' = Touch(c, [cmd[c] EXCEPT !.pc = "replaced"])
  /\ UNCHANGED <<content, crashes>>

(* A step of persist_dataset fails, the rename for want of the temporary   *)
(* file among them: what has its name is removed.                          *)
PersistFails(c) ==
  /\ cmd[c].pc \in {"write", "writing", "written"}
  /\ temp' = NoFile
  /\ cmd' = Touch(c, [cmd[c] EXCEPT !.pc = "failed"])
  /\ UNCHANGED <<content, file, crashes>>

---------------------------------------------------------------------------
(* Deduplication *)

(* The groups of a deduplication: the problems of one key                  *)
(* (find_fingerprint_duplicates), and the pairs of find_similar_pairs that *)
(* meet no group yet. Which texts are similar is not known here: the pairs *)
(* that become groups may be any that do not meet.                         *)
Groups(S) ==
  LET same  == {SameKey(S, p.key) : p \in {q \in Keyed(S) : Cardinality(SameKey(S, q.key)) > 1}}
      pairs == {pair \in SUBSET S : Cardinality(pair) = 2}
  IN {G \in {same \cup alike : alike \in SUBSET pairs} :
        \A g, h \in G : g = h \/ g \cap h = {}}

LoadRaw(c) ==
  /\ cmd[c].pc = "idle" /\ file # NoFile /\ content[file].state = "whole"
  /\ LET S == content[file].of IN
       \E groups \in Groups(S) :
         cmd' = [cmd EXCEPT ![c] = [Idle EXCEPT
                   !.pc = IF groups = {} THEN "unchanged" ELSE "asked",
                   !.kind = "merge", !.seen = S, !.groups = groups]]
  /\ UNCHANGED <<content, file, temp, crashes>>

(* select_primary_problem: the one with the most fields; any may be it.     *)
Primaries(groups, S) == {f \in [groups -> S] : \A g \in groups : f[g] \in g}

(* merge_problems: the primary problem takes the fields of the others, and *)
(* merged_from names these, and only these.                                *)
Merged(group, primary) == [primary EXCEPT !.had = {Name(p) : p \in group \ {primary}}]

(* The groups that are accepted, all of them under --auto-merge, are       *)
(* merged, each into one of its problems; then the file is emptied.        *)
Merge(c) ==
  /\ cmd[c].pc = "asked" /\ cmd[c].kind = "merge" /\ file # NoFile
  /\ \E accepted \in SUBSET cmd[c].groups :
       \E primary \in Primaries(accepted, cmd[c].seen) :
         cmd' = Touch(c, [cmd[c] EXCEPT
                  !.pc = "rewriting", !.inode = file, !.alone = @ /\ ~Held(c, file),
                  !.final = (cmd[c].seen \ UNION accepted)
                               \cup {Merged(g, primary[g]) : g \in accepted}])
  /\ content' = [content EXCEPT ![file] = Torn]
  /\ UNCHANGED <<file, temp, crashes>>

Rewrite(c) ==
  /\ cmd[c].pc = "rewriting"
  /\ Writes(c, cmd[c].final)
  /\ cmd' = Touch(c, [cmd[c] EXCEPT !.pc = "merged"])
  /\ UNCHANGED <<file, temp, crashes>>

RewriteFails(c) ==
  /\ cmd[c].pc = "rewriting"
  /\ cmd' = Touch(c, [cmd[c] EXCEPT !.pc = "failed"])
  /\ UNCHANGED <<content, file, temp, crashes>>

(* A command is killed; what it wrote stays as it is.                      *)
Crash(c) ==
  /\ cmd[c].pc \in {"asked", "write", "writing", "written", "rewriting"}
  /\ crashes < MaxCrashes /\ crashes' = crashes + 1
  /\ cmd' = [cmd EXCEPT ![c].pc = "killed"]
  /\ UNCHANGED <<content, file, temp>>

Next ==
  \E c \in Commands :
    \/ Load(c) \/ LoadRefused(c) \/ Confirm(c) \/ OpenTemp(c) \/ WriteTemp(c) \/ Replace(c)
    \/ PersistFails(c) \/ LoadRaw(c) \/ Merge(c) \/ Rewrite(c) \/ RewriteFails(c) \/ Crash(c)

Spec == Init /\ [][Next]_dataVars

---------------------------------------------------------------------------
(* Properties *)

(* Types of the files and the commands.                                    *)
TypeOK ==
  /\ file \in Inodes \cup {NoFile} /\ temp \in Inodes \cup {NoFile}
  /\ \A i \in Inodes : content[i].state \in {"unused", "torn", "whole"}
  /\ file # NoFile => content[file].state # "unused"
  /\ temp # NoFile => content[temp].state # "unused" /\ temp # file
  /\ \A c \in Commands :
       /\ cmd[c].pc \in {"idle", "asked", "unchanged", "write", "writing", "written", "replaced",
                         "failed", "rewriting", "merged", "killed"}
       /\ cmd[c].kind \in {"import", "mock", "merge"}
       /\ cmd[c].inode \in Inodes \cup {NoFile}
  /\ crashes \in 0 .. MaxCrashes

UniqueKeys(S) == \A p, q \in Keyed(S) : p.key = q.key => p = q

(* "Uses temporary file + atomic rename to ensure data integrity": imports *)
(* that do not overlap leave a whole file, killed or not.                  *)
TornIsExplained ==
  file # NoFile /\ content[file].state = "torn" =>
    \E c \in Commands : cmd[c].inode # NoFile /\ (cmd[c].kind = "merge" \/ ~cmd[c].alone)

(* An import that nobody disturbed loses no problem but those it says it   *)
(* overwrote, keeps what it says it imported, and makes no key double.     *)
ImportIsKept ==
  \A c \in Commands :
    LET m == cmd[c]
        S == content[file].of
    IN m.pc = "replaced" /\ m.alone =>
         /\ content[file].state = "whole"
         /\ \A o \in m.seen : o \in S \/ \E n \in m.over : n.key = o.key
         /\ m.successful \subseteq S /\ S \subseteq m.seen \cup m.new
         /\ UniqueKeys(m.seen) /\ UniqueKeys(m.new) => UniqueKeys(S)

(* A deduplication that nobody disturbed leaves each problem in the file,  *)
(* or named by exactly one that it was merged into.                        *)
MergeIsKept ==
  \A c \in Commands :
    LET m == cmd[c]
        S == content[file].of
    IN m.pc = "merged" /\ m.alone =>
         /\ content[file].state = "whole"
         /\ \A o \in m.seen :
              Cardinality({p \in S : Name(p) = Name(o) \/ Name(o) \in p.had}) = 1

(* A failed import that nobody disturbed leaves what it had read.          *)
FailureIsHarmless ==
  \A c \in Commands :
    cmd[c].pc = "failed" /\ cmd[c].kind # "merge" /\ cmd[c].alone =>
      IF file = NoFile THEN cmd[c].seen = {} ELSE Loaded(content[file].of) = cmd[c].seen

DatasetIsKept == TornIsExplained /\ ImportIsKept /\ MergeIsKept /\ FailureIsHarmless
=============================================================================
