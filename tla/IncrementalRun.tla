--------------------------- MODULE IncrementalRun ---------------------------
(***************************************************************************)
(* Command-line runs that reuse what earlier runs found out (main.py: the  *)
(* run of an evaluation; incremental/: history.json, the changes of the    *)
(* dataset, the rows of the earlier run, the merge; save_results). Two     *)
(* processes may run at once and stop anywhere; a run that was paused by   *)
(* its budget is resumed in its own directory. Of a run's units only what  *)
(* became of them is modelled here, by TaskService how.                    *)
(***************************************************************************)
EXTENDS Naturals, Sequences, FiniteSets, SequencesExt, Functions

CONSTANTS
  Problems, Procs,
  Models,
  MaxVersion,   \* bound: versions of a problem
  MaxRuns,      \* bound: runs begun
  MaxTogether,  \* bound: later runs are alone
  MaxEvents     \* bound: changes of the dataset, cut runs, failed merges, killed processes

VARIABLES
  dataset,   \* the version of each problem, or Gone
  history,   \* history.json: the recorded runs, oldest first
  dir,       \* of each run: what its *_results.json hold
  pausedIn,  \* of each run: the configuration it was paused with, or nothing
  proc,      \* the processes
  runs, events

vars == <<dataset, history, dir, pausedIn, proc, runs, events>>

(* The strategies a run may be configured with, in their order. *)
StrategyLists == {<<"s1">>, <<"s1", "s2">>}
Gone == 0
RunIds == 1..MaxRuns
Present(d) == {p \in Problems : d[p] # Gone}
StrategyNames == UNION {ToSet(c) : c \in StrategyLists}

(* A row: the version and model it was found with, whether the problem was *)
(* evaluated at all, and whether the dataset changed under its run.        *)
NoRow == [version |-> Gone, model |-> "", done |-> FALSE, torn |-> FALSE, reused |-> FALSE]
NoRows == [p \in Problems |-> NoRow]
Rows(file) == {p \in Problems : file[p] # NoRow}
(* A results file that was being written cannot be read. *)
Broken == [p \in Problems |-> [NoRow EXCEPT !.model = "broken"]]
NoFiles == [s \in StrategyNames |-> NoRows]

Idle == [pc |-> "idle", run |-> 0, strategies |-> <<>>, model |-> "", resumed |-> FALSE,
         print |-> [p \in Problems |-> Gone], read |-> <<>>, incremental |-> FALSE,
         todo |-> {}, old |-> NoFiles, files |-> NoFiles, reports |-> NoFiles, cut |-> FALSE]

TypeOK ==
  /\ dataset \in [Problems -> 0..MaxVersion]
  /\ \A i \in DOMAIN history : history[i].run \in RunIds /\ history[i].model \in Models
  /\ \A r \in RunIds, s \in StrategyNames, p \in Problems : dir[r][s][p].version \in 0..MaxVersion
  /\ \A q \in Procs : proc[q].pc \in {"idle", "detected", "evaluated", "merged", "saving", "saved"}
  /\ runs \in 0..MaxRuns /\ events \in 0..MaxEvents

Init ==
  /\ \E later \in SUBSET {2} : dataset = [p \in Problems |-> IF p \in later THEN Gone ELSE 1]
  /\ history = <<>>
  /\ dir = [r \in RunIds |-> NoFiles]
  /\ pausedIn = [r \in RunIds |-> Idle]
  /\ proc = [q \in Procs |-> Idle]
  /\ runs = 0 /\ events = 0

(* Someone edits the dataset; a version may come back. *)
Edit(p, v) ==
  /\ events < MaxEvents /\ v # dataset[p]
  /\ dataset' = [dataset EXCEPT ![p] = v] /\ Present(dataset') # {}
  /\ events' = events + 1
  /\ UNCHANGED <<history, dir, pausedIn, proc, runs>>

---------------------------------------------------------------------------
(* Before the run: what can be reused. *)

(* find_matching_run: the newest of this model and first strategy. *)
Matching(strategies, model) ==
  {i \in DOMAIN history : history[i].strategy = strategies[1] /\ history[i].model = model}
Match(strategies, model) ==
  LET S == Matching(strategies, model) IN history[CHOOSE i \in S : \A j \in S : j <= i]

(* detect_changes *)
Changed(new, old) == {p \in Present(new) : new[p] # old[p]}
Unchanged(new, old) == Present(new) \ Changed(new, old)

(* load_historical_results: of the problems asked for, or nothing at all   *)
(* when a file of the run cannot be read.                                  *)
LoadHistorical(r, ids) ==
  IF \E s \in StrategyNames : dir[r][s] = Broken THEN NoFiles
  ELSE [s \in StrategyNames |-> [p \in Problems |->
          IF p \in ids /\ dir[r][s][p] # NoRow THEN [dir[r][s][p] EXCEPT !.reused = TRUE]
          ELSE NoRow]]

(* The rows reused must be there for every strategy of this run. *)
Complete(old, strategies, ids) == \A s \in ToSet(strategies) : Rows(old[s]) = ids

Reuse(strategies, model, print) ==
  LET full == [incremental |-> FALSE, todo |-> Present(print), old |-> NoFiles]
      match == Match(strategies, model)
      ids == Unchanged(print, match.print)
      changed == Changed(print, match.print)
      old == LoadHistorical(match.run, ids)
  IN IF \/ Matching(strategies, model) = {} \/ changed = {} \/ ids = {}
        \/ ~Complete(old, strategies, ids)
     THEN full
     ELSE [incremental |-> TRUE, todo |-> changed, old |-> old]

Begin(q, strategies, model) ==
  LET reuse == Reuse(strategies, model, dataset)
  IN /\ proc[q].pc = "idle" /\ runs < MaxRuns
     /\ \A o \in Procs : o < q => proc[o].pc # "idle"
     /\ runs < MaxTogether \/ \A o \in Procs : proc[o].pc = "idle"
     /\ runs' = runs + 1
     /\ proc' = [proc EXCEPT ![q] =
          [Idle EXCEPT !.pc = "detected", !.run = runs + 1, !.strategies = strategies,
             !.model = model, !.print = dataset, !.read = history,
             !.incremental = reuse.incremental, !.todo = reuse.todo, !.old = reuse.old]]
     /\ UNCHANGED <<dataset, history, dir, pausedIn, events>>

(* A resumed run goes on with its own units and is not incremental; one    *)
(* that had left problems out is refused: its configuration has changed.   *)
Resume(q, r) ==
  /\ proc[q].pc = "idle" /\ pausedIn[r].pc # "idle"
  /\ \A o \in Procs : proc[o].run # r /\ (o < q => proc[o].pc # "idle")
  /\ ~pausedIn[r].incremental /\ dataset = pausedIn[r].print
  /\ proc' = [proc EXCEPT ![q] = [pausedIn[r] EXCEPT !.pc = "detected", !.resumed = TRUE]]
  /\ UNCHANGED <<dataset, history, dir, pausedIn, runs, events>>

---------------------------------------------------------------------------
(* The run, and its rows. *)

(* The dataset is read again. A budget may cut the run: what was not       *)
(* evaluated has a row that says so.                                       *)
Found(x, now, cut) ==
  [s \in StrategyNames |-> [p \in Problems |->
    IF s \in ToSet(x.strategies) /\ p \in x.todo \cap Present(now)
    THEN [version |-> now[p], model |-> x.model, done |-> ~cut \/ s = x.strategies[1],
          torn |-> now[p] # x.print[p], reused |-> FALSE]
    ELSE NoRow]]

Evaluate(q, cut) ==
  LET x == proc[q]
      files == Found(x, dataset, cut)
      y == [x EXCEPT !.pc = "evaluated", !.files = files, !.reports = files, !.cut = cut]
  IN /\ x.pc = "detected"
     /\ x.todo \cap Present(dataset) # {}
     /\ cut => ~x.resumed /\ Len(x.strategies) > 1
     /\ x.resumed => dataset = x.print
     /\ IF cut THEN events < MaxEvents /\ events' = events + 1 ELSE UNCHANGED events
     /\ proc' = [proc EXCEPT ![q] = y]
     /\ pausedIn' = [pausedIn EXCEPT ![x.run] = IF cut THEN y ELSE Idle]
     /\ UNCHANGED <<dataset, history, dir, runs>>

(* Nothing to evaluate: the run ends with an error. *)
Refuse(q) ==
  /\ proc[q].pc = "detected"
  /\ \/ proc[q].todo \cap Present(dataset) = {}
     \/ proc[q].resumed /\ dataset # proc[q].print
  /\ proc' = [proc EXCEPT ![q] = Idle]
  /\ UNCHANGED <<dataset, history, dir, pausedIn, runs, events>>

(* merge_results: a new row wins; strategies that did not run keep the     *)
(* rows that were loaded, but get no report.                               *)
MergeResults(new, old) ==
  [s \in StrategyNames |-> [p \in Problems |-> IF new[s][p] # NoRow THEN new[s][p] ELSE old[s][p]]]

(* A merge that fails leaves the new rows alone, or without their reports. *)
Merge(q, how) ==
  LET x == proc[q]
      merged == MergeResults(x.files, x.old)
  IN /\ x.pc = "evaluated"
     /\ IF x.incremental
        THEN proc' = [proc EXCEPT ![q].pc = "merged",
               ![q].files = IF how = "fails" THEN @ ELSE merged,
               ![q].reports = IF how # "merges" THEN @
                              ELSE [s \in StrategyNames |->
                                      IF s \in ToSet(x.strategies) THEN merged[s] ELSE NoRows]]
        ELSE how = "merges" /\ proc' = [proc EXCEPT ![q].pc = "merged"]
     /\ IF how = "merges" THEN UNCHANGED events ELSE events < MaxEvents /\ events' = events + 1
     /\ UNCHANGED <<dataset, history, dir, pausedIn, runs>>

(* save_results: one file after the other, over those of a paused run.     *)
SaveFirst(q) ==
  LET x == proc[q]
  IN /\ x.pc = "merged"
     /\ dir' = [dir EXCEPT ![x.run][x.strategies[1]] = x.files[x.strategies[1]]]
     /\ proc' = [proc EXCEPT ![q].pc = "saving"]
     /\ UNCHANGED <<dataset, history, pausedIn, runs, events>>

SaveRest(q) ==
  LET x == proc[q]
  IN /\ x.pc = "saving"
     /\ dir' = [dir EXCEPT ![x.run] = x.files]
     /\ proc' = [proc EXCEPT ![q] = IF x.resumed THEN Idle ELSE [x EXCEPT !.pc = "saved"]]
     /\ UNCHANGED <<dataset, history, pausedIn, runs, events>>

(* update_incremental_history: added to the history that was read before   *)
(* the run if it was incremental, else to what is there now.               *)
Base(x) == IF x.incremental THEN x.read ELSE history
Record(q) ==
  LET x == proc[q]
  IN /\ x.pc = "saved"
     /\ history' = Append(Base(x), [run |-> x.run, strategy |-> x.strategies[1],
                                    model |-> x.model, print |-> x.print])
     /\ proc' = [proc EXCEPT ![q] = Idle]
     /\ UNCHANGED <<dataset, dir, pausedIn, runs, events>>

(* A process that is killed while it writes leaves a file nobody can read: *)
(* an unreadable history is taken for an empty one.                        *)
Crash(q) ==
  LET x == proc[q]
  IN /\ x.pc # "idle" /\ events < MaxEvents
     /\ events' = events + 1
     /\ proc' = [proc EXCEPT ![q] = Idle]
     /\ \/ UNCHANGED <<history, dir>>
        \/ x.pc = "merged" /\ dir' = [dir EXCEPT ![x.run][x.strategies[1]] = Broken]
           /\ UNCHANGED history
        \/ x.pc = "saved" /\ history' = <<>> /\ UNCHANGED dir
     /\ UNCHANGED <<dataset, pausedIn, runs>>

Next ==
  \/ \E p \in Problems, v \in 0..MaxVersion : Edit(p, v)
  \/ \E q \in Procs :
       \/ \E strategies \in StrategyLists, model \in Models : Begin(q, strategies, model)
       \/ \E r \in RunIds : Resume(q, r)
       \/ \E cut \in BOOLEAN : Evaluate(q, cut)
       \/ Refuse(q)
       \/ \E how \in {"merges", "unreported", "fails"} : Merge(q, how)
       \/ SaveFirst(q) \/ SaveRest(q) \/ Record(q) \/ Crash(q)

Spec == Init /\ [][Next]_vars

(* What a run reports of a problem was found with its own model and with   *)
(* the problem as the run's fingerprint has it, however often the row was  *)
(* handed on, unless the dataset changed between the two times a run read  *)
(* it (detect_changes, load_historical_results, merge_results).            *)
ReusedIsCurrent ==
  \A q \in Procs, s \in StrategyNames, p \in Problems :
    LET row == proc[q].files[s][p]
    IN row # NoRow => /\ row.model = proc[q].model
                      /\ row.torn \/ row.version = proc[q].print[p]

(* A merged report covers the whole dataset, once for every strategy of    *)
(* the run, and reuses no row but of a problem that did not change: never  *)
(* a silent subset (Complete, main.py).                                    *)
NeverASubset ==
  \A q \in Procs :
    LET x == proc[q]
    IN \A s \in ToSet(x.strategies) :
         /\ \A p \in x.todo : ~x.reports[s][p].reused
         /\ (\E t \in StrategyNames : \E p \in Rows(x.reports[t]) : x.reports[t][p].reused)
            => Present(x.print) \ x.todo \subseteq Rows(x.reports[s])

(* What history.json says of a run that can be read back is what the run's *)
(* rows were found with: a later run may rely on it.                       *)
HistoryIsTrue ==
  \A i \in DOMAIN history, s \in StrategyNames, p \in Problems :
    LET row == dir[history[i].run][s][p]
    IN row # NoRow /\ dir[history[i].run][s] # Broken =>
         /\ row.model = history[i].model
         /\ row.torn \/ row.version = history[i].print[p]

ReuseIsSound == ReusedIsCurrent /\ NeverASubset /\ HistoryIsTrue
=============================================================================
