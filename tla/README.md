# A TLA+ model of pg_gobench

pg_gobench is an HTTP-controlled PostgreSQL benchmark. A client starts a run with
a set of options, may alter or stop it, and polls state, results and metrics. This
directory holds a model of the program from its command line to the rows it works
on, the TLC runs that check it and the TLAPS proofs about it. File and line numbers refer to the
repository (`internal/...` is under `src/` in `PROJECT.json`).

## 1. The system

| Component | State it keeps | Operations | Hard part |
|---|---|---|---|
| Options (`internal/benchmark/options.go`) | none; values passed on | decode, validate, `ApplyAlter` | three validators and two sets of defaults that have to agree |
| Coordinator (`internal/benchmarkrun/coordinator.go`) | status, options, retained sample, current run, cancel function, run number, one mutex | `Start`, `Alter`, `Stop`, `State`, `Results`, `Metrics`; goroutine `waitForRun` | the mutex is dropped while the runner sets up and while a run is waited for; a stop and the end of a run race for it |
| Results (`results.go`, `sample.go`, `metrics.go`) | none | sample to JSON and to Prometheus text | which sample is shown, which error is blanked |
| Runner (`internal/benchrunner/runner.go`, `benchmark/scale.go`) | the `bench` schema in the database | `Start`: checks, setup statements, then an active run | setup is eleven or twelve transactions and may break off anywhere |
| Active run (`runtime.go`) | worker map, contexts, `WaitGroup`, verdict, `done`, pacing gate | `Alter`, `Wait`, `Sample`; goroutines per worker, `watchParent`, `watchDuration`, `awaitCompletion` | finish race, resize against leaving workers, alter after the end, stopped tickers |
| Statistics (`stats.go`) | counters, clients, histogram, latest error | `record`, `workerStarted/Stopped`, `finish`, `sample` | updated by all workers and read across the end of the run |
| Workloads (`workload*.go`, `operation_error.go`) | atomic operation counters | `RunOnce` of six profiles | row numbers computed from the scale, not from the tables; counted against fatal errors |
| HTTP server (`internal/httpserver/server.go`) | connections and request contexts | routing, eight handlers, status codes | a start handler stays inside the runner's setup while others act |
| Application (`internal/app/app.go`, `cmd/pg_gobench/main.go`) | listener, pool, serving goroutine, shutdown context | `ParseConfig`, `Run`, exit status | signal, serve error, shutdown deadline and deferred close in any order; nothing waits for the run |
| Configuration and pool (`internal/config`, `internal/database`) | none; a source, then a `sql.DB` | `Load`, `Open`, `CheckReadiness` | three places a credential may come from, TLS files that go into whatever the mode has become by then |

How they interact: an HTTP handler calls the coordinator; `Coordinator.Start` calls
`runner.Start` without the mutex, which executes the setup statements and returns an
active run; `waitForRun` blocks in `activeRun.Wait`; `Coordinator.Alter` calls
`activeRun.Alter` with the mutex held (lock order: coordinator, run, statistics);
`Coordinator.Stop` only cancels the run context, which `watchParent` turns into
`finish`. Workers share the database only through SQL and the plan through atomic
counters. The application owns the listener and the pool; on a signal it waits for
the handlers, but only until its deadline, then closes the pool and exits.

What makes each part correct: options that were accepted are accepted everywhere and
are what runs; one run at a time, always followed by exactly one goroutine, with
results and options of that run; a stop that reaches the run whatever its phase; a
run that ends once, with one verdict, after its last worker; no goroutine lost by a
resize; a dataset that is complete after any number of broken setups, and row
numbers that fit it; figures that are those of the operations measured; a process
that ends when it is told to, says what happened to a run, and exits with 0 only when
nothing failed or was cut off. `PROJECT.json` lists the hazards at their lines, with the
properties that cover them.

## 2. Modules

| Module | Models | State and actions |
|---|---|---|
| `BenchmarkOptions` | `options.go`, the checks of `runner.Start` and `activeRun.Alter`, the plan's effective values | operators only |
| `OptionSession` | one run's options across requests, and the plan that is made of them once | `Start`, `Alter` |
| `RunLifecycle` | abstract: what the API promises | `Begin`, `ComeUp`, `RequestStop`, `Quiesce`, `Conclude` |
| `Coordinator` | `coordinator.go`, `results.go`, with runner and run behind their interfaces | `StartAccept`, `StartInstall`, `FinishStartFailure` are the three critical sections of `Start`; `Alter`, `Stop`, `WaitForRun`; `RunnerStartSucceeds/Fails`, `RunOperates`, `RunEnds` are the other side of the interfaces |
| `ActiveRun` | `runtime.go` and the counters of `stats.go` | one action per critical section or per return from a wait: see the list of places in the module |
| `BenchSchema` | `setupStatements`, `ResolveScale`, `RunOnce` of the six profiles by the rows it needs | `Start`, `ExecStatement`, `StatementFails`, `SetupInterrupted`, one operation action per profile, `RunEnds` |
| `RunStatistics` | `stats.go`, `Sample.Stats`, `Sample.Metrics`, `WritePrometheus` | `RecordOperation`, `FinishRun`, `TakeSample`: the critical sections, each with a clock reading taken before it; `Tick` |
| `ConfigSource` | `config.go`, `database.go` | operators only: which documents are accepted, the source they give, the TLS configuration of each connection attempt it makes |
| `HttpServer` | `server.go` on `net/http` | one action per handler, `HandleStart`, `SetupSucceeds/Fails`, `Install` and `FinishStartFailure` for start; `Accept`, `ReadRequest`, `HangUp` are the clients |
| `Application` | `app.go`, `main.go`; extends `HttpServer` and `ConfigSource` | the main goroutine from `ParseConfig` to `Exit`, the serving goroutine, `Signal`, the rounds of `Shutdown` |
| `MC...` | instances for TLC | constants only |
| `CoordinatorProofs`, `CoordinatorResultsProofs`, `OptionSessionProofs`, `ActiveRunProofs`, `BenchSchemaProofs`, `RunStatisticsProofs`, `ApplicationProofs` | proofs | inductive invariants, lemmas and theorems |
| `FiniteSums` | nothing: facts the proofs share | least elements, smallest sets, what `SumFunctionOnSet` of the community modules returns |

`Coordinator` refines `RunLifecycle` with `phase <- state.status`,
`current <- runID` and `busy` the runs whose setup or workers may be using the
database. `HttpServer` uses the same `RunLifecycle` for the coordinator: a handler takes
its steps, so that what `Coordinator` is shown to implement is what the server is
checked with. `Application` composes the process with the server; `ActiveRun`,
`RunStatistics` and `BenchSchema` look into the run that is one step there.

Abstractions worth knowing:

- Timestamps name the run they were taken for. Error texts are classes: none,
  canceled, setup, workload; `compactErrorText` is left out because no class
  depends on its length limit.
- A refused request changes nothing and is a guard. A `Start` whose request context
  is already cancelled returns before it touches anything.
- In `Coordinator` the counters of a sample are `total`, `failed` and the latest
  error; an operation that completed in the warm-up may be recorded at any time, as a
  slow worker may do. In `ActiveRun` the window is the one at completion, as in the
  code.
- In `ActiveRun`, an `Alter` with both fields is two alterations one after the other,
  which is the order of the code. `sync.WaitGroup` is modelled from its use here and
  its documented panic. Operations are `RunOnce` with an error class; a context that
  is done when the operation begins makes it fail.
- In `BenchSchema` rows are their keys. A statement that is interrupted may have
  taken effect or not. `AccountsPerScale` is 100000 in the code; any number from 8
  keeps the hot set of `hotAccountID` whole, and 8 is what TLC uses. A lock that is
  held is a counted failure and changes nothing, so it needs no action. An `UPDATE`, a
  range read and an aggregation are the set of rows they match; `matched` remembers
  whether the last operation had one that was empty. A failed commit or a lost
  connection ends the run like any cause outside the data.
- In `ActiveRun`, `late` counts the operations that a worker has recorded since its
  context ended; a worker that has left is forgotten.
- In `RunStatistics` time and latencies are whole numbers, a quotient is a pair, and
  percentiles are whole percents: the rank of the code, a `float64` product rounded
  up, is the integer one for every count up to two million, which was computed for the
  four percentiles. The 320 bucket bounds of the code are built and checked to be
  increasing; TLC explores two buckets and the overflow bucket.
- In `HttpServer` a body is what it decodes to, or `Nil` when the JSON decoder refuses
  it. The branches for a missing controller or probe cannot be taken: the application
  always passes both. A handler that writes to a client that has gone logs the error
  and changes nothing else.
- In `Application` `net/http` is modelled from its use: `Shutdown` closes the listener
  if `Serve` has registered it, waits for `Serve`, then polls; idle connections and
  connections that have been silent for five seconds are closed. `sql.DB.Close` does
  not wait for queries: a setup under way may succeed or fail after it, one that
  begins after it fails. A signal before `signal.NotifyContext` kills the process and
  is not modelled.
- In `ConfigSource` a document is accepted or not; which mistake is named first is left
  out. Which hosts make a URL and which key pairs load are constants. What `pgx` makes of
  a mode is external: the attempts, and of each `tls.Config` the fields that decide
  whether a handshake can be made and which roots it consults, for a host that is a name
  and without the `PG...` variables or the files of `~/.postgresql`. `buildTLSConfig`
  changes a copy of the first one, as in the code.
- In `HttpServer` a path is one of the routes or another; the redirect of `ServeMux` to a
  cleaned path is left out.

## 3. Runs

All bounds are constants of the modules, named in the `.cfg` files.

| Run | Shows |
|---|---|
| `coordinator` | two callers, two runs, two operations per run, requests with two profiles and alterations of one and of both fields: `Ownership`, `RunsNeverOverlap`, `ResultsBelongToRun`, `StopReachesRun`, `OptionsInSync`, `ErrorsSurface`, `ResultsMonotone`, `ImplementsLifecycle`, and under fairness `Concludes`. Two runs are enough for one to follow another that was stopped, failed or never came up, so that a sample, an owner or a cancel function that is left over would show; two callers for two `Start`s to race. |
| `option_session` | every payload around the limits of every field, then any sequence of alterations: `ValidatorsAgree`, `ReportedIsEffective`, `LockKeepsContention` |
| `active_run_safety` | two workers, two alterations (pace, shrink, grow), four worker numbers: `PoolAccounting`, `PoolHasConfiguredSize`, `DoneMeansFinished`, `VerdictShowsInStatistics`, `FrozenAfterDone`, `LateOperationsBounded`. The last one is about what a worker counts after its context has ended; between `stats.finish` and `stopCancel` (`runtime.go:135-136`) the elapsed time is frozen and the contexts are live, and what is counted there has no bound. Two alterations let the pool shrink and grow again, or lose its ticker and then a worker. |
| `active_run_live` | two workers and one alteration, which paces them, shrinks the pool to one or starts a late worker: `CancelledWorkersLeave`, `RunCompletes` |
| `bench_schema` | three runs at two scales with and without reset, all profiles and mixes, eighteen operations, which is once around the sixteen accounts of the larger scale and the ten tellers of a branch: `SetupCompletesDataset`, `DataNeverFailsRun`, `StatementsFindRows`, `HistoryNamesOneBranch` |
| `run_statistics` | three operations of two kinds with latencies below zero, on each bound and past the last, completing before, at and after the end of the warm-up, recorded and sampled with any older clock reading: `FiguresMatchOperations`, `PercentilesAreRanks`, `ElapsedSettles`. Three operations put the ranks of the four percentiles in different buckets. |
| `application` | every configuration that differs from a good one in up to two parts, every combination of flags; then two clients with one request for each way through the handlers: `ExitTellsFailure`, `CutOffIsReported`, `RepliesTellOutcome`, and under fairness `SignalEndsProcess`. One benchmark run is enough here: what later runs add is about the coordinator, which `coordinator` covers with two, while the process sees a run only as under way or not. Two clients let one be in the setup while the other stops or alters the run. |

`CHECK_DEADLOCK FALSE` is set where the system comes to rest: a run that is over, a
schema after the last run, the clock at its bound, a process that has exited. The
coordinator and the option session never deadlock, because `Stop` and an alteration
are always possible.

Five runs are expected to be violated. Each states what a document of the
repository says and TLC shows how the code gets out of it:

- `paced_workers_proceed`: a worker that waits for a tick while `target_tps` is
  altered waits on the stopped ticker until its context ends (`runtime.go:255`).
- `stop_keeps_workload_error`: after a stop the latest error is blanked even when a
  workload error was counted before (`results.go:67`, `stats.go:95`).
- `alter_is_safe`: `Alter` while the last worker leaves adds to the `WaitGroup` while
  `Wait` is returning, which panics (`runtime.go:175`).
- `validation_is_400`: an alteration that is valid by itself but not for the run, one
  client for the lock profile, is answered 500 (`server.go:278`).
- `tls_files_take_effect`: combinations of `sslmode` and TLS files are accepted that do
  not go together. With `allow` the files end up in an empty `tls.Config` and no
  connection can be made; with `require`, `prefer` and `verify-ca` the `ca_cert` is read
  and then never consulted, the last one because the callback of `pgx` verifies against
  the roots of the configuration that was cloned (`database.go:72-83`).

Five more behaviours that the models show and a reader of the code should know of:

- A run that failed by itself is reported as stopped, without its error, when `Stop` gets
  the mutex before `waitForRun` (`coordinator.go:272`), while the plan of the coordinator
  (lines 106-107) has only `context.Canceled` become stopped and every failure update
  `State.Error`. `ErrorsSurface` shows that a requested stop is the only thing that does
  this.
- An empty `transaction_mix` is accepted, reported as none and run as the balanced one
  (`options.go:200`), while the plan of the options makes it an enumeration of three.
  `ReportedIsEffective` shows that this is the only difference between what is reported
  and what the plan of the workload holds.
- Only the first document of a configuration file is decoded (`config.go:66`): a second
  one is dropped, and the message of `config.go:80` for it cannot come.
- An `Alter` between the end of the run and `waitForRun` starts workers whose number
  stays in the final sample (`runtime.go:140`).
- A run without reset on a schema that was seeded at another scale works on the old rows
  (`runner.go:152`), which is how the plan of the schema has it.

### Fairness

`Coordinator`: weak fairness of the critical sections a goroutine is waiting for
(the Go scheduler and `sync.Mutex` do not starve), of the end of a run that is active
(`watchDuration` is armed for every run) and of `runner.Start` only after its context
is cancelled (`database/sql` returns then). Nothing is assumed of a setup that nobody
stops. `ActiveRun`: weak fairness of the goroutines' own steps, of a live ticker and
of an operation whose context is done; none of an operation with a live context, of
the duration or of any request. `Application`: weak fairness of the main goroutine,
whose waits are bounded by the deadline of `Shutdown`, and of the serving goroutine
once it is started or its listener is closed; none of clients, handlers, a setup or
the run, so that the process ends whatever they do.

## 4. Proofs

`CoordinatorProofs` (any set of callers, any sets of valid requests, any `MaxRuns`
and `MaxOps`; assumptions `NilAssumption`, `BoundsAssumption`, `RequestsAssumption`):

- `TypeCorrect`: `Spec => []TypeOK`.
- `OwnershipHolds`: `Spec => []Ownership`. `TypeOK /\ Ownership` is the inductive
  invariant. `RunsNeverOverlap` is not inductive: that `StartAccept` adds a run to an
  empty set needs to know that a run at rest has ended (`RestIsQuiet`), which needs
  to know that the one who set the status back was the owner of that run
  (`CallerOwns`, `WaiterOwns`), and that owner exists as long as the status is active
  (`ActiveIsOwned`). There is one lemma per action.
- `NoOverlap`, `StopDelivered`: consequences of the invariant.
- `Refinement`: `Spec => Lifecycle!Spec`. Initial states map to initial states; under
  the invariant every action maps to an abstract action or a stutter.

`CoordinatorResultsProofs` (same constants and assumptions): `OptionsAlwaysInSync`,
`ResultsAlwaysBelong`, `ErrorsAlwaysSurface` and the action property
`ResultsAlwaysMonotone`, by the invariant `Reported` on top of `Ownership`. None of
the three is inductive: each speaks of a moment (a run is up, has failed, has stopped)
and needs to know what happened before it. `TimesFollowRun` says that a run without
`started_at` has shown nothing, and one with a waiter has it; `ErrorsFollowRun` says
where the error of a run or of a failed start is kept until its owner gets the mutex.
That an error is given up for a requested stop only needs the part of `Ownership` that
ties the context of the run to the status.

`OptionSessionProofs` (all integers, any sets of payloads and alterations): by the
inductive invariant `Settled` (the options are well formed, were validated last, and
tell what the plan made at the start does), `ValidatorsAlwaysAgree`,
`ReportedAlwaysEffective` and `LockAlwaysContends`.

`ActiveRunProofs` (any `MaxWorkers`, client targets, alterations and operations;
`PoolAssumption`): `RunTypeCorrect`, `PoolAlwaysAccounted`, `PoolSizeHolds`,
`DoneAfterFinish`, `LateAlwaysBounded`, `VerdictAlwaysShows` and the action property
`AlwaysFrozenAfterDone`, by the invariant `PoolInv`. Its parts: workers are numbered
as they are started and those of the map are live (`Numbered`); a worker leaves only
when its context is done (`LeaversAreDone`), so that until `finish` the pool is never
empty (`PoolIsStaffed`) and the `WaitGroup`, which counts the goroutines, cannot have
let `awaitCompletion` pass; once it has, every worker is gone or `Harmless` (`Drained`),
also one that a late `Alter` starts. That a smaller pool has the size asked for is a
fact about the k lowest numbers of a set, proved from the least number for which it
fails (`LeastElement`). `VerdictAlwaysShows` has an invariant of its own, `ErrorsTraced`,
which follows an error from the operation to the verdict: a cancellation is dropped before
it is recorded, and until somebody has decided the verdict a worker on its way to `finish`
finds its error in the statistics.

`BenchSchemaProofs` (any scales, any `AccountsPerScale` from 8, any bounds;
`SchemaAssumption`): `SchemaTypeCorrect`, `DatasetAlwaysComplete`, `DataAlwaysSuffices`,
`StatementsAlwaysFindRows` and the action property `HistoryAlwaysNamesOneBranch`, so
that they hold of the 100000 accounts of the code and not only of the eight that TLC
uses. The invariant `SchemaInv` says that a table is empty or has exactly the rows of
one of the scales used since the last drop (`Populated`), and that a setup has the
effect of every statement before the next one (`InSetupPhase`), whoever executed it: a
setup that was broken off left some of them. What the proofs need of the order of the
statements is `WellOrdered`, shown of both lists. The row numbers rest on lemmas about
`%` and `\div`: above all `RemainderOfMultiple`, the remainder by a multiple of n has
the same remainder by n, which is why an account number computed modulo the accounts
belongs to the branch computed modulo the branches.

`FiniteSums` (any function, any finite set) has the facts about sets and sums that the
others cite. The prover has no induction over data, so they are proved by the smallest
counterexample, which exists because `<` is well founded (`LeastElement`, from the
library's `WFMin`; `SmallestSet`). `SumFunctionOnSet` is a `CHOOSE` of a function that
satisfies the recursion of the fold: `SumExists` says that there is one,
`SolutionsAgree` that it does not matter which, and `SumTakesOut` that neither does the
order in which the elements are taken. `SumGrows` and `SumAgrees` are what a step needs:
a sum grows by as much as one value, and not at all when none of its values changes.

`RunStatisticsProofs` (any bounds, latencies, warm-up and number of operations;
`StatisticsAssumption`): `StatsTypeCorrect`, `CountersAlwaysAgree` and the action
property `ElapsedAlwaysSettles`, by `StatsInv`. The last one needs `ShownIsPast`: until
`finish`, what was shown is not ahead of the clock at the last sample.
`FiguresAlwaysMatch` and `PercentilesAlwaysRanks` follow from `LogAgrees`
(`LogAlwaysAgrees`), which is inductive on top of `StatsInv`: the log is a bag, and each
counter, each cumulative bucket, the sum and the extremes are those of the measured
operations in it. What makes a step of it is `BucketOfBound`, that the binary search
puts a duration into bucket i or an earlier one exactly when bound i is not exceeded,
which needs the bounds to increase (`BoundsIncrease`); with it the two sums, over
buckets and over operations, grow together. `RankIsShare` says that a count reaches the
rank exactly when it is the share of the percentile, so the bound of the first bucket
that does is the least one that enough operations are within.

`ApplicationProofs` (any clients, requests and configurations; `ServerAssumption`):
`ApplicationTypeCorrect`, `ExitAlwaysTells`, `CutOffAlwaysReported` and the action
property `RepliesAlwaysTell`, by `ApplicationInv`.
`InPlace` and `Serves` tie what is open to the place of the main goroutine and what
the serving goroutine may be doing to both; `Accounted` follows every failure from
where it happens to the exit status, the one in the channel included (`Unheard`);
`Quiet` says what a shutdown that went through leaves behind; `OneStart`, that one
handler at most is inside `Coordinator.Start`, is what a reply to a start rests on.
`BundleAccepted` is about `loadRootCAs` alone and any sequence of PEM items: the walk is a
`FoldLeft`, and `WalkFinds` gives what it comes to in a form that does not mention the
order (`FoundIn`), again by the smallest set for which it would fail.

Each of these invariants was model-checked on the instance of its run before it was
proved.

Only model-checked are the four liveness properties (`Concludes`,
`CancelledWorkersLeave`, `RunCompletes`, `SignalEndsProcess`): the prover has neither
fairness nor `ENABLED`. Every invariant and every action property of the passing runs, and
the refinement, is a theorem.

## 5. Not modelled

- The standalone control page and packaging: no state of the server.
- JSON and YAML syntax, headers, wording and log lines: a document is what it decodes
  to.
- Row locks and balances of concurrent transactions. Every transaction locks an
  account and then at most one teller, so there is no cycle to find, and no statement
  branches on a balance.
- The overflow of `time.Duration(DurationSeconds)*time.Second` beyond 292 years, and
  the ticker that an `Alter` after `pace.Close` leaves behind: neither is read by
  anything else (both are listed as hazards, with the reason).
- `ActiveRun` is not substituted for the run inside `Coordinator`; the two meet at the
  interface `Run`, and the late `Alter`, which is the one call that crosses it at an
  awkward time, is an action of both.

## 6. Plan

1. The pacing gate of `ActiveRun` after the end of the run: a theorem that no worker is
   stranded whose `target_tps` was never altered.
