----------------------------- MODULE MCResources -----------------------------
(***************************************************************************)
(* The services whose state is a resource of the owner or of the host, on  *)
(* small instances: the published artifacts, the uploads and the file of a *)
(* dataset; the alert a dispatcher leases; the account of the owner and    *)
(* its provider keys; the notices; the cache of responses; the processes   *)
(* of a sandboxed command; the rows of command-line runs, which later ones *)
(* reuse. MCServices adds the other services and says how they all behave: *)
(* each by itself, on the shared variables v1 .. v14.                      *)
(***************************************************************************)
EXTENDS Naturals

CONSTANTS
  Workers, Clients, MaxRevs, MaxFiles, MaxTries, MaxAsks, FaultKinds, MaxFaults,
  Dispatchers, Lease, Retries, MaxNow, MaxRenewals,
  Requests, DayLimit, MonthLimit, RateLimit, LiveLimit, MaxTokens, MaxDay, Tasks,
  Cap, Chunk, MaxBytes,
  Files, Sweepers, Ttl, Timeout, MaxTime, FileFaults, MaxFileFaults,
  Completions, Alerts, Standing, PageSize, Filters, MaxAsked, MaxRequests, Retention,
  Users, Keys, CacheLimit, CacheTtl, MaxOps, MaxOverlaps,
  Askers, MaxSecrets, Catalog, PageOf, MaxListed,
  DatasetCommands, MaxKills,
  RunProblems, RunProcs, RunModels, MaxRuns, MaxVersion, MaxTogether, MaxEvents

VARIABLES
  part,     \* the service a behaviour is about
  v1, v2, v3, v4, v5, v6, v7, v8, v9, v10, v11, v12, v13, v14

Publication == INSTANCE ArtifactPublication WITH
  src <- v1, pub <- v2, reg <- v3, files <- v4, notes <- v5, msgs <- v6, wk <- v7,
  cl <- v8, asks <- v9, lock <- v10, faults <- v11

Alert == INSTANCE CostAlert WITH
  Workers <- Dispatchers,
  now <- v1, event <- v2, noted <- v3, wk <- v4, attempted <- v5, renewals <- v6

User == INSTANCE Account WITH
  Procs <- Requests,
  session <- v1, spent <- v2, day <- v3, calls <- v4, made <- v5, rate <- v6, task <- v7,
  lock <- v8, proc <- v9

Sandbox == INSTANCE BoundedRun WITH
  tree <- v1, holds <- v2, written <- v3, buffer <- v4, pump <- v5, limit <- v6,
  late <- v7, pc <- v8, result <- v9

Uploads == INSTANCE FileStore WITH
  clock <- v1, disk <- v2, row <- v3, up <- v4, job <- v5, asks <- v6, sw <- v7, lock <- v8,
  excused <- v9, hit <- v10

Inbox == INSTANCE Notifications WITH
  time <- v1, note <- v2, view <- v3, shown <- v4, req <- v5, asks <- v6, taken <- v7

Answers == INSTANCE ResponseCache WITH
  Procs <- Users, Limit <- CacheLimit, Ttl <- CacheTtl,
  name <- v1, content <- v2, proc <- v3, clock <- v4, count <- v5

Incremental == INSTANCE IncrementalRun WITH
  Problems <- RunProblems, Procs <- RunProcs, Models <- RunModels,
  dataset <- v1, history <- v2, dir <- v3, pausedIn <- v4, proc <- v5,
  runs <- v6, events <- v7

Keyring == INSTANCE ProviderKeys WITH
  key <- v1, issued <- v2, accepted <- v3, asker <- v4, provider <- v5

(* <<key, problem_id, valid>> of the problems a dataset holds at first:    *)
(* none at all, one with and one without a duplicate, one that is invalid; *)
(* <<key, problem_id>> of the problems an import brings.                   *)
DatasetSeeds ==
  {{}, {<<1, 1, TRUE>>}, {<<1, 1, TRUE>>, <<1, 2, TRUE>>, <<0, 3, TRUE>>},
   {<<2, 1, TRUE>>, <<1, 2, FALSE>>}}
DatasetBatches == {{<<1, 1>>}, {<<1, 1>>, <<2, 2>>}, {<<0, 1>>, <<1, 1>>}}

Dataset == INSTANCE DatasetFile WITH
  Commands <- DatasetCommands, Seeds <- DatasetSeeds, Batches <- DatasetBatches,
  MaxCrashes <- MaxKills,
  content <- v1, file <- v2, temp <- v3, cmd <- v4, crashes <- v5
==============================================================================
