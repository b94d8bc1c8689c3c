----------------------------- MODULE MCServices -----------------------------
(***************************************************************************)
(* The components around the tasks, each by itself, on small instances:    *)
(* the publication of artifacts, the cost alerts, the account of the owner *)
(* and its provider keys, the runner of units, the model calls, the        *)
(* sandboxed commands, one problem's strategy and one stage of its tests,  *)
(* a tree of thoughts, command-line runs under a budget or with reuse,     *)
(* their reports, the importers and the dataset they write, the requests   *)
(* and the cache, the uploads, the notices, the record the statistics are  *)
(* made of, the books and the advice made of them, the reports of          *)
(* evaluations, the probes, and the browser: its session, the store that   *)
(* creates evaluations, and its view of one. A behaviour is about one of   *)
(* them, part, for ever; all are checked in one run, and each of the       *)
(* shared variables v1 .. v14 stands for one of its own, or for nothing: 0.*)
(* The instances whose state is a resource are those of MCResources.       *)
(***************************************************************************)
EXTENDS MCResources

CONSTANTS
  Parts,                                    \* the components considered
  NUnits, FirstGroup, MaxWorkers, Kinds,
  Threads, MaxCalls, TokenBudget, PerCall, Attempts, MaxProblems,
  Codes, NoCode, Strategies, MaxRounds,
  Dear, CappedGroup, RunCap, GroupCap, Thresholds,
  MaxLogins,
  Evaluations, MaxReconnects, MaxRecoveries, MaxMutations,
  NTests, Size,
  Sources, MaxRows, Windows, MaxSamples, MaxClock, MaxLosses,
  BookUnits, Levels, Labels, Amount, MaxRecords, Caps, MaxWrites,
  Combos, Layers, MaxHistory, Budgets, Bars,
  Searches, Branching, MaxDepth, Top, Neutral, Threshold,
  Models, MaxEdits, MaxStops,
  Callers, ProbeTtl, ProbeLimit, MaxTicks,
  Hosts, MaxHeard, Queues, Steps, Boxes, MaxItems, MaxReplies,
  QueryCount, KeptRows, Lasting, Spans, QueryClock, MaxFailures,
  ModelClients, Varied,
  ReportKinds, RecommendLimit,
  Stores, Drafts, MaxOperations, MaxSessions,
  Pages, MaxTurns, MaxAttempts, MaxReads, MaxDenials,
  FetchCount, FetchRetries, FetchRounds

Runner == INSTANCE UnitRunner WITH
  N <- NUnits,
  kind <- v1, parallel <- v2, saved <- v3, listed <- v4, mem <- v5, fut <- v6, pc <- v7,
  run <- v8, closed <- v9, paused <- v10, lost <- v11, stop <- v12, capped <- v13,
  verdict <- v14

Model == INSTANCE LLMCall WITH
  MaxTokens <- TokenBudget,
  call <- v1, ledger <- v2, cached <- v3, failed <- v4, reserved <- v5, attempts <- v6,
  rows <- v7, problems <- v8

Problem == INSTANCE Solve WITH
  None <- NoCode,
  strategy <- v1, shape <- v2, pc <- v3, rounds <- v4, refused <- v5, result <- v6

Budget == INSTANCE BudgetedRun WITH
  N <- NUnits, Group <- CappedGroup,
  action <- v1, file <- v2, ledger <- v3, fut <- v4, pc <- v5, cur <- v6, told <- v7,
  onFile <- v8, tried <- v9, unsaved <- v10, runs <- v11, late <- v12, sent <- v13, lapses <- v14

Browser == INSTANCE BrowserSession WITH
  Calls <- Requests,
  stored <- v1, latest <- v2, entering <- v3, flight <- v4, req <- v5, logins <- v6

Page == INSTANCE Observer WITH o <- v1

Stage == INSTANCE SandboxStage WITH
  backend <- v1, order <- v2, profile <- v3, stagePc <- v4, tests <- v5, output <- v6,
  match <- v7, left <- v8, status <- v9, truth <- v10

Monitor == INSTANCE Monitoring WITH
  stat <- v1, wall <- v2, sample <- v3, kept <- v4, mark <- v5, gap <- v6, query <- v7,
  answer <- v8

Books == INSTANCE CostBooks WITH
  Units <- BookUnits, Names <- Labels,
  job <- v1, record <- v2, budget <- v3, writes <- v4, query <- v5

Adviser == INSTANCE Advice WITH
  history <- v1

Tree == INSTANCE ThoughtTree WITH
  search <- v1, node <- v2, open <- v3, cur <- v4, next <- v5, pc <- v6,
  call <- v7, stop <- v8, broke <- v9, result <- v10

(* Two evaluations of one problem, one of them with two strategies. *)
ReportUnits == {<<1, "cot">>, <<1, "direct">>, <<2, "cot">>}

Reported == INSTANCE EvaluationReports WITH
  Units <- ReportUnits,
  public <- v1, upload <- v2, ev <- v3, unit <- v4, row <- v5, edits <- v6,
  stops <- v7

Probes == INSTANCE HealthProbes WITH
  Ttl <- ProbeTtl, Limit <- ProbeLimit, MaxNow <- MaxTicks,
  kind <- v1, now <- v2, probe <- v3, cache <- v4, caller <- v5, shut <- v6

Replied == INSTANCE ProbeReplies WITH
  MaxWorkers <- MaxHeard,
  replies <- v1, lengths <- v2, listed <- v3, reading <- v4, failed <- v5

Queried == INSTANCE QueryMetrics WITH
  Count <- QueryCount, Kept <- KeptRows, MaxClock <- QueryClock,
  clock <- v1, query <- v2, records <- v3, bound <- v4, pruned <- v5,
  gap <- v6, blind <- v7, failures <- v8, reply <- v9

Asked == INSTANCE ModelRequest WITH
  Clients <- ModelClients,
  vary <- v1, client <- v2, file <- v3, cache <- v4, last <- v5, calls <- v6,
  edits <- v7

Results == INSTANCE RunReport WITH
  Kinds <- ReportKinds, Limit <- RecommendLimit,
  kind <- v1, state <- v2, unit <- v3

Creating == INSTANCE CreationStore WITH
  kind <- v1, auth <- v2, store <- v3, draft <- v4, operation <- v5,
  active <- v6, task <- v7, server <- v8, stray <- v9

Detail == INSTANCE EvaluationPage WITH
  page <- v1, want <- v2, ran <- v3, generation <- v4, read <- v5, boot <- v6,
  watch <- v7, live <- v8, denials <- v9

Fetching == INSTANCE ProblemFetch WITH
  Count <- FetchCount, MaxRounds <- FetchRounds,
  platform <- v1, nature <- v2, limit <- v3, importer <- v4

allVars == <<part, v1, v2, v3, v4, v5, v6, v7, v8, v9, v10, v11, v12, v13, v14>>

(* What a part with fewer variables leaves alone. *)
From12 == v12 = 0 /\ v13 = 0 /\ v14 = 0
From11 == v11 = 0 /\ From12
From10 == v10 = 0 /\ From11
From9  == v9 = 0 /\ From10
From8  == v8 = 0 /\ From9
From7  == v7 = 0 /\ From8
From6  == v6 = 0 /\ From7
From5  == v5 = 0 /\ From6
From4  == v4 = 0 /\ From5
From2  == v2 = 0 /\ v3 = 0 /\ From4

After11 == <<v12, v13, v14>>
After10 == <<v11, After11>>
After9  == <<v10, After10>>
After8  == <<v9, After9>>
After7  == <<v8, After8>>
After6  == <<v7, After7>>
After5  == <<v6, After6>>
After4  == <<v5, After5>>
After3  == <<v4, After4>>
After1  == <<v2, v3, After3>>

Init ==
  /\ part \in Parts
  /\ \/ part = "publication" /\ Publication!Init /\ From12
     \/ part = "alert" /\ Alert!Init /\ From7
     \/ part = "user" /\ User!Init /\ From10
     \/ part = "runner" /\ Runner!Init
     \/ part = "model" /\ Model!Init /\ From9
     \/ part = "sandbox" /\ Sandbox!Init /\ From10
     \/ part = "problem" /\ Problem!Init /\ From7
     \/ part = "budget" /\ Budget!Init
     \/ part = "browser" /\ Browser!Init /\ From7
     \/ part = "page" /\ Page!Init /\ From2
     \/ part = "uploads" /\ Uploads!Init /\ From11
     \/ part = "inbox" /\ Inbox!Init /\ From8
     \/ part = "stage" /\ Stage!Init /\ From11
     \/ part = "monitor" /\ Monitor!Init /\ From9
     \/ part = "books" /\ Books!Init /\ From6
     \/ part = "advice" /\ Adviser!Init /\ From2
     \/ part = "tree" /\ Tree!Init /\ From11
     \/ part = "cache" /\ Answers!Init /\ From6
     \/ part = "reports" /\ Reported!Init /\ From8
     \/ part = "probes" /\ Probes!Init /\ From7
     \/ part = "replies" /\ Replied!Init /\ From6
     \/ part = "queries" /\ Queried!Init /\ From10
     \/ part = "request" /\ Asked!Init /\ From8
     \/ part = "incremental" /\ Incremental!Init /\ From8
     \/ part = "results" /\ Results!Init /\ From4
     \/ part = "keys" /\ Keyring!Init /\ From6
     \/ part = "creation" /\ Creating!Init /\ From10
     \/ part = "detail" /\ Detail!Init /\ From10
     \/ part = "fetch" /\ Fetching!Init /\ From5
     \/ part = "dataset" /\ Dataset!Init /\ From6

Next ==
  /\ \/ part = "publication" /\ Publication!Next /\ UNCHANGED After11
     \/ part = "alert" /\ Alert!Next /\ UNCHANGED After6
     \/ part = "user" /\ User!Next /\ UNCHANGED After9
     \/ part = "runner" /\ Runner!Next
     \/ part = "model" /\ Model!Next /\ UNCHANGED After8
     \/ part = "sandbox" /\ Sandbox!Next /\ UNCHANGED After9
     \/ part = "problem" /\ Problem!Next /\ UNCHANGED After6
     \/ part = "budget" /\ Budget!Next
     \/ part = "browser" /\ Browser!Next /\ UNCHANGED After6
     \/ part = "page" /\ Page!Next /\ UNCHANGED After1
     \/ part = "uploads" /\ Uploads!Next /\ UNCHANGED After10
     \/ part = "inbox" /\ Inbox!Next /\ UNCHANGED After7
     \/ part = "stage" /\ Stage!Next /\ UNCHANGED After10
     \/ part = "monitor" /\ Monitor!Next /\ UNCHANGED After8
     \/ part = "books" /\ Books!Next /\ UNCHANGED After5
     \/ part = "advice" /\ Adviser!Next /\ UNCHANGED After1
     \/ part = "tree" /\ Tree!Next /\ UNCHANGED After10
     \/ part = "cache" /\ Answers!Next /\ UNCHANGED After5
     \/ part = "reports" /\ Reported!Next /\ UNCHANGED After7
     \/ part = "probes" /\ Probes!Next /\ UNCHANGED After6
     \/ part = "replies" /\ Replied!Next /\ UNCHANGED After5
     \/ part = "queries" /\ Queried!Next /\ UNCHANGED After9
     \/ part = "request" /\ Asked!Next /\ UNCHANGED After7
     \/ part = "incremental" /\ Incremental!Next /\ UNCHANGED After7
     \/ part = "results" /\ Results!Next /\ UNCHANGED After3
     \/ part = "keys" /\ Keyring!Next /\ UNCHANGED After5
     \/ part = "creation" /\ Creating!Next /\ UNCHANGED After9
     \/ part = "detail" /\ Detail!Next /\ UNCHANGED After9
     \/ part = "fetch" /\ Fetching!Next /\ UNCHANGED After4
     \/ part = "dataset" /\ Dataset!Next /\ UNCHANGED After5
  /\ UNCHANGED part

Spec == Init /\ [][Next]_allVars

---------------------------------------------------------------------------
(* The properties of the modules, each on its part. *)

(* Type correctness of all the components. *)
TypeOK ==
  /\ part = "publication" => Publication!TypeOK
  /\ part = "alert" => Alert!TypeOK
  /\ part = "user" => User!TypeOK
  /\ part = "runner" => Runner!TypeOK
  /\ part = "model" => Model!TypeOK
  /\ part = "sandbox" => Sandbox!TypeOK
  /\ part = "problem" => Problem!TypeOK
  /\ part = "budget" => Budget!TypeOK
  /\ part = "browser" => Browser!TypeOK
  /\ part = "page" => Page!TypeOK
  /\ part = "uploads" => Uploads!TypeOK
  /\ part = "inbox" => Inbox!TypeOK
  /\ part = "stage" => Stage!TypeOK
  /\ part = "monitor" => Monitor!TypeOK
  /\ part = "books" => Books!TypeOK
  /\ part = "advice" => Adviser!TypeOK
  /\ part = "tree" => Tree!TypeOK
  /\ part = "cache" => Answers!TypeOK
  /\ part = "reports" => Reported!TypeOK
  /\ part = "probes" => Probes!TypeOK
  /\ part = "replies" => Replied!TypeOK
  /\ part = "queries" => Queried!TypeOK
  /\ part = "request" => Asked!TypeOK
  /\ part = "incremental" => Incremental!TypeOK
  /\ part = "results" => Results!TypeOK
  /\ part = "keys" => Keyring!TypeOK
  /\ part = "creation" => Creating!TypeOK
  /\ part = "detail" => Detail!TypeOK
  /\ part = "fetch" => Fetching!TypeOK
  /\ part = "dataset" => Dataset!TypeOK

(* The registry serves what is recorded as published, what the owner       *)
(* deleted does not come back (publish, retry, mark_file_deleted), a       *)
(* listed upload has its bytes (_persist, cleanup), and the file of a      *)
(* dataset loses nothing to an import or a deduplication that nobody       *)
(* disturbed (persist_dataset, run_problems_deduplicate_command).          *)
RegistryIsTrue ==
  /\ part = "publication" => Publication!PublishedIsServed /\ Publication!DeletedStaysDeleted
  /\ part = "uploads" => Uploads!ListedIsStored
  /\ part = "dataset" => Dataset!DatasetIsKept

(* "A failure describes an earlier observation ..." (_fail). *)
LateFailureIsHarmless == [][part = "publication" => Publication!GoodStaysPublished]_allVars

(* One good lease on an alert at a time (_claim, _finish). *)
LeaseIsExclusive == part = "alert" => Alert!LeaseIsExclusive

(* A refresh token is exchanged once (rotate, revoke), and no limit on     *)
(* calls, rate or live evaluations is passed, whoever asks at once         *)
(* (reserve_user_api_call, allow, _check_evaluation_capacity); what is said *)
(* of a provider key is about the secret on file (verify_key, models).     *)
AccountHolds ==
  /\ part = "user" => User!TokenIsSpentOnce /\ User!QuotaIsKept /\ User!CapacityIsKept
  /\ part = "keys" => Keyring!VerifiedIsAccepted /\ Keyring!ListIsHonest

(* A run that asks to be completed is whole, the list on disk names saved  *)
(* units once (ExperimentRunner.run, _execute), and a run that reuses rows *)
(* covers the dataset with rows that are current (main, merge_results).    *)
RunIsWhole ==
  /\ part = "runner" => Runner!CompletedIsWhole /\ Runner!ListedOnce
  /\ part = "incremental" => Incremental!ReuseIsSound

(* A saved result is never bought again (UnitCheckpoint). *)
SavedIsFinal == [][part = "runner" => Runner!KeepsSaved]_allVars

(* Every provider attempt has its spend record, no problem exceeds its     *)
(* budget, the cache neither forgets a get nor loses the entry of a set    *)
(* that was alone (SpendRecorder, BudgetTracker, LLMResponseCache), and    *)
(* what it answers is what was asked, at the price of the evaluation       *)
(* (CacheKey.generate, generate).                                          *)
CallsAreCharged ==
  /\ part = "model" => Model!SpendIsOnFile /\ Model!BudgetIsKept
  /\ part = "cache" => Answers!CacheIsSound
  /\ part = "request" => Asked!RequestsAreOwn

(* A sandboxed command leaves no process, and its output is whole          *)
(* (run_bounded).                                                          *)
RunIsClean == part = "sandbox" => Sandbox!RunIsClean

(* A problem counts as solved with code that passed (_execute_problem), a  *)
(* stage with every test answered in time and paired with what was         *)
(* expected (SandboxExecutor.execute, _compare_unordered), and the answer  *)
(* of a tree was reached through thoughts that were rated and kept         *)
(* (search_tree); the reports of a run count what was evaluated, once      *)
(* (_generate_report, summarize_failure_modes, analyze), and the text of   *)
(* an answer is what the model said, without what it thought               *)
(* (_extract_text, _extract_reasoning).                                    *)
ResultIsEarned ==
  /\ part = "problem" => Problem!ResultIsEarned
  /\ part = "request" => Asked!TextIsAnswer
  /\ part = "stage" => Stage!StageIsHonest
  /\ part = "tree" => Tree!TreeIsSearched
  /\ part = "results" => Results!ReportsAreTrue

(* The ledger that stops or cheapens a resumed run is the file's, and an   *)
(* alert is told in time and once (_run_with_task_service,                 *)
(* CostAlertManager.process); the reports of the service hold each known   *)
(* amount once and a limit that was reached stops a dispatch               *)
(* (_collect_spend_rows, execution_budget); what is advised has a known    *)
(* cost, on the frontier (recommend, build_pareto_analysis).               *)
BudgetIsRespected ==
  /\ part = "budget" => Budget!BudgetIsRespected /\ Budget!AlertsAreTold
  /\ part = "books" => Books!BooksAreTrue
  /\ part = "advice" => Adviser!AdviceIsSound

(* A session that ended in this tab neither comes back nor lends its token *)
(* to the next one, and the late answer of an operation that was overtaken *)
(* or whose session ended changes nothing on the page (http.ts,            *)
(* refreshCoordinator, creation.ts).                                       *)
SessionIsOwn ==
  [][/\ part = "browser" => Browser!SessionIsOwn
     /\ part = "creation" => Creating!LateIsIgnored]_allVars

(* A page that watches shows no snapshot that a mutation, a pause or       *)
(* another evaluation overtook, and never falls silent (observer.ts), nor  *)
(* what is not asked for or may no longer be seen (useEvaluation.ts); one  *)
(* draft is created once, and never forgotten (creation.ts).               *)
PageIsAlive ==
  /\ part = "page" => Page!ShownIsCurrent /\ Page!NeverSilent
  /\ part = "creation" => Creating!CreatedOnce /\ Creating!NotForgotten /\ Creating!NeverStuck
  /\ part = "detail" => Detail!ShownIsAsked /\ Detail!DeniedIsGone /\ Detail!LoadingEnds

(* The notices shown are those asked for, without a gap, and a batch takes *)
(* none that came later (notifications.ts, _batch).                        *)
NotesAreTrue == part = "inbox" => Inbox!NotesAreTrue

(* A statistic that calls itself complete has missed nothing (api_stats,   *)
(* _prune, mark_capture_gap, DatabaseQueryMetrics.stats), the reports of   *)
(* evaluations are about the problem as it was run, under any filter       *)
(* (_record_unit_result, _effective_difficulty, _matching_unit_exists),    *)
(* what an importer did not get or could not turn into a problem is told   *)
(* by that round and no other (fetch_problems, transform_to_schema),       *)
(* and a probe says ok only of what it looked at in time and heard in full *)
(* (ReadinessCheck.check, worker_snapshot, collect_containers).            *)
CompleteIsComplete ==
  /\ part = "monitor" => Monitor!CompleteIsComplete
  /\ part = "reports" => Reported!ReportsAreTrue
  /\ part = "probes" => Probes!ProbesAreHonest
  /\ part = "replies" => Replied!RepliesAreHonest
  /\ part = "queries" => Queried!QueriesAreCounted
  /\ part = "fetch" => Fetching!FetchIsHonest
=============================================================================
