# Portfell in TLA+

Portfell is a single-user research application for exchange-traded funds. A
FastAPI process serves a Dash interface, durable analysis jobs run in the same
processes, a nightly command publishes market data to a local directory, and one
PostgreSQL database (`portfell_dash`) holds what the application decided and
computed. This directory models the parts of that system whose correctness
depends on order, interleaving, failure and restart, checks them with TLC and
proves the central safety properties with TLAPS.

Paths below are relative to the repository; Python sources are under
`src/portfell`.

## 1. The system

| Component | State it keeps | Operations | Talks to |
|---|---|---|---|
| Job executor (`app_services/analysis_executor.py`) | one worker thread, a FIFO of futures, a closed flag per process | `submit`, `_run`, `recover`, `close` | repository, application service |
| Application service (`app_services/workspace.py`) | none of its own; drives the repository | start and run the three stages, selections, projects, read views | repository, gateway, executor |
| Repository (`app_state/repository.py`) | rows of `portfell_dash`: jobs, runs, artifacts, checkpoints, universes, selections, decisions | one method per transaction | one psycopg connection per process |
| Schema and migrations (`app_state/schema.py`, `migrations/`) | triggers, unique indexes, the migration ledger | `migrate_to_head` | repository |
| Market refresh and gateway (`market_source/refresh.py`, `local_gateway.py`) | a directory of JSON-lines files and a byte index, cached per process | publish, read a snapshot | application service |
| Selections and projects (`app_services/workspace.py`) | versioned universes and activations of selections | create, activate, delete | repository |
| Workflow projection (`workspace.py`, `dash_app/state.py`) | the state a browser tab shows | read part by part, project | repository |
| Workflow commands (`portfell_workflow/repository.py`) | leased command rows | enqueue, claim, progress, recover | PostgreSQL |
| Dash application (`dash_app/`) | browser-side stores, polling | callbacks | module ports |
| Univariate page (`dash_app/pages/univariate.py`, `callbacks.py`) and the nightly `univariate_refresh.py` | the boxes drawn in a tab, the saved filter, the stored selection | draw, click, select, save, reload; compute and select everything | application service |
| Gold statistics (`univariate_statistics.py`, `bivariate_statistics.py`, `statistics_views.py`) | files per listing, per bucket of pairs, and indexes, shared by all selections | bring up to date, read back | lake runs |
| Lake run (`multivariate_statistics.py`, `portfolio.py`, `evaluation.py`) | return matrix, tables by portfolio, manifest by configuration | compute, reuse, report | Gold statistics |
| Artifact packages (`portfell_artifacts/store.py`) | bytes and manifests in a directory | publish, read | API and worker processes |
| Artifact cache and entitlements (`artifact_cache.py`, `entitlements.py`, `scoped_inputs.py`) | snapshots, grants, artifacts, references, runs | publish, delete, read inputs, create, show | hosted callers |
| Risk models, candidates, walk-forward, stress, weights, recommendation, income | none (pure functions) | computations | the multivariate stage, the lake run |

Who runs concurrently: `hosted_runtime` starts at least two uvicorn worker
processes. Each has many request threads and one executor thread. All of them
share the job, run, artifact and checkpoint rows; the threads of one process
also share its database connection. The refresh command is a separate process
that replaces the directory the workers read.

What is hard: a claim protocol that rests on heartbeats, attempts that are
reclaimed and resumed from checkpoints, run rows shared by several jobs, reads
followed by writes in different statements, transactions shared by threads, and
files replaced while they are read, statistics reused because an identifier fits,
and long chains of numerical steps whose discrete part (which listings, which days,
which window, which of several keys) decides whether a result means what its label
says. `PROJECT.json` lists every such hazard at
its line, with the properties that would notice it going wrong, or why none does.

## 2. Modules

### AnalysisJobs: the durable job engine

Variables and what they stand for:

| Variable | Code |
|---|---|
| `jobs` | `analysis_jobs` rows; `stale` abstracts `heartbeat_at < now() - 5 min` |
| `runs` | `analysis_runs` rows with the artifacts published under each, in order; an artifact is the set of snapshots its content was computed from |
| `ckpt` | `multivariate_checkpoints`, one row per input (`dataset_digest` has no nonce) |
| `market` | the snapshot id a read of the market store would yield |
| `proc`, `queue`, `exec` | a worker process, its executor's FIFO, its thread: program counter and locals |
| `lookedUp`, `toSubmit` | an HTTP request between its lookup, its insert and its submit |

One action is one transaction plus the local step after it. Where the repository
reads in one statement and writes in a later one (`create_analysis_run`,
`link_job_run`, `complete_job`) there are two actions. `run_univariate`,
`run_bivariate` and `run_multivariate` share one control path whose stage
differences are conditions (`Stage(w)`); `OutsideTry` and `InsideTry` say what an
exception at each point does: fail the job only, or fail the run first. An error
may happen at every call (`RaiseError`), also one that the fail path itself meets
(`FailRun` skips a terminal run, `LoseCompletion` loses the last write).

Data that is abstracted: artifact contents to their provenance, batches of work
to an index, the five-minute clock to `HeartbeatExpires`, the order of listings
to any order, and the market to its snapshot id. `SlowPhases` chooses whether a
phase may outlast the heartbeat.

### JobContract: what the store promises

One active job per input, attempts that only grow, a job that keeps the run it
names, success only through a succeeded run of the same input, terminal jobs and
runs that stay as they are. `AnalysisJobs!Contract` instantiates it with the job
rows without their progress and the status of the runs; the property
`ImplementsContract` is checked by TLC and proved.

`AnalysisJobs` and `Workspace` take every repository call as one transaction of
its own. Threads of one process share a connection, so that is an assumption;
`SharedConnection` is about what holds without it.

### MCAnalysisJobs

One input of each stage with the sizes that make every branch happen: two
artifacts for a univariate and a multivariate run, one for a bivariate run, one
unit of work, or two computing phases plus `artifact_persistence` and `complete`.
The constraint `OneInput` of `jobs_single` keeps the requests of one behaviour to
one input; a job of another input never touches the rows of this one.

### SharedConnection: one connection, many threads

`open` and `table` are the rows of the open transaction and the committed ones,
`began` and `aborted` the state of that transaction, `thread` where each thread
is in its write, `outcome` what each call returned. A write is a first insert,
inserts that refer to it, and a commit; a failing statement aborts the common
transaction until somebody rolls back; a read opens a transaction and leaves it
open. Statements are atomic because psycopg serialises them.

### QuoteRanges and QuoteIndex: the byte index of quotes.jsonl

`QuoteRanges` holds the pure part: where lines end, the ranges a scan finds, the
ranges as the refresh accumulates them, and what a seek to a range returns.
`QuoteIndex` accumulates over a file row by row in the order of the source query
(`WriteRow`) and states what the index promises to the two queries of the
gateway, `read_snapshot` and `read_quote_date_range`.

### MarketStore: publication and reading of the market directory

| Variable | Code |
|---|---|
| `root`, `backup`, `dir` | what `root` and `root.previous` name, by the refresh that made the directory, and which files each directory holds |
| `refresher` | where the refresh command is: staging files, removing the old backup, the two renames |
| `mount` | the directory a container saw at `root` when it started (`BindMounted`) |
| `cache` | `_quote_ranges` of a gateway, by the publication it was loaded from |
| `read` | a `read_snapshot` call: files opened one after the other by path |

A crash of the refresh may come at any point (`CrashRefresh`). A file, once
written, does not change, so opening and reading it is one step.

### Workspace: universes, selections, projects and what a tab shows

| Variable | Code |
|---|---|
| `universes`, `selections` | the versioned rows; identities are content hashes, so the content itself is the identity, with a nonce for a repeated activation |
| `runs`, `jobs`, `task` | `analysis_runs` and `analysis_jobs` in order of creation, and the one job that is executing |
| `wanted` | the metadata filter saved for all browsers |
| `market` | the quotes, the lineage of the listings and the listed members |
| `tabs` | per browser tab the callback in progress, the parts of the workflow it has read, and the identifiers and readiness it shows |

`create_metadata_universe` and `create_univariate_selection` are several
repository calls, and so are several actions: look for the content, look at the
newest row, read the history, insert. A whole callback ends with
`persisted_browser_state`, which reads universes, selection, the runs of the three
stages, the filter and the listings one after the other (`ReadPart`) and projects
the result (`Projected`). The executor's job steps are those of `AnalysisJobs` for
one process without crashes and with one artifact.

Abstracted: the limits of 500 rows and 20 runs, the objective of a multivariate
job, the previous-result maps, labels and counts, and `_select_project`, whose
list only ever holds the project already shown. The existing-row check and the
insert of one repository call are one step. `created_at` is the order of insertion.

### WorkflowCommands and CommandQueue: leased commands

`rows` is `workflow.stage_commands`; `holding` says which command, by which claim, each worker
believes to be executing; a lease is `valid` or `expired`. `Enqueue` finds an earlier command
of the same idempotency key or inserts; `Claim` takes any of the oldest waiting or run-out commands,
`Report` is a final `update_progress`, `RecoverStale` puts run-out commands back, `Crash` loses a
worker, `LeaseRunsOut` may also happen under a worker that is still busy (`overruns`). Progress in
between changes neither lease nor claimant and is left out.

`CommandQueue` is what callers are promised: a request is accepted once under its key and
gets exactly one outcome. `ImplementsQueue` is the refinement.

### ArtifactStore, ArtifactCache: what was published, and for whom

`ArtifactStore` has the two files of an artifact, the lock of one process, and the process that
may die between the two renames or race another process for the same name. `Offers` lists
what each publisher may publish; two processes offer the same bytes under one name because names
are derived from contents.

`ArtifactCache` follows a user's observations into a snapshot, the snapshot into the inputs an
analysis may read, those into artifacts shared by all users, and from there the references and
runs that let a user see them. A content hash is the content. A caller passes the key of an artifact
and what it was computed from as separate arguments, and the model compares the two where the
code does: the quotes of a returns key with the inputs, the pair of a bivariate key with the two
artifacts. The returns a univariate key names are compared with nothing; the auxiliary variable
`misnamed` remembers the identifiers that were used with others, and `EvidenceIsGranted` says that
references are closed everywhere else, so that the damage stays with these identifiers.

### GoldCache and PortfolioRun: a lake run and the files it shares

`GoldCache` is `_prepare_selection_cached_inputs`: find the stale univariate rows, write them, the
pair inputs, the dirty buckets one by one, the covariances, and read all of it back. Calls for
overlapping selections and different numbers of buckets use the same files, quotes change between
calls (`Download`), and a call may die between any two files (`GoldCrash`). What is computed is
named by what it was computed from, which is what the `*_input_id`s of the code hash.

`PortfolioRun` is the rest of `write_multivariate_statistics`: the list of files a run writes, in
order, each with the rule by which the writer keeps or replaces other rows; the manifest by which
a later run of the same identity is answered without computing; refusals and deaths in between.
The pipeline of the lake is one process; two lake runs at once are not modelled.

### UnivariateFilter: a page, its clicks and the night

`tab` is what a tab knows and shows, `edits` what the browser keeps of clicks on boxes, `asks` the
requests on their way, `newest` the newest run, `stored` the newest selection and `preference` the
saved filter. A click toggles a box and sends all checked boxes; the
request becomes predicates, the predicates become members of the newest run (`Answer`), and the
members are stored or refused. `Draw` marks the boxes whose listings are all selected, as the page
does, also those nobody clicked. `NightComputes` and `NightSelects` are the refresh.

### The calculations

Operators without state, checked by `MCAlgorithms`, which draws an input, judges the result and
puts it back. Each module states what a result must be next to the definitions that
compute it.

| Module | Code | Judged against |
|---|---|---|
| `Fractions` | what the code does in floating point, without rounding | |
| `PortfolioWeights` | `portfolio.py`: grid search, constraints, fallbacks, diagnostics, risk contributions | the best of all grid points; diagnostics recomputed |
| `RiskParityTree` | `portfolio_parts/`: linkage, leaf order, bisection, projection, gradients, CVaR, descent loops | connected groups at every height; the bracket around a shift; the exact derivative of a polynomial; convexity |
| `Backtest` | `evaluation.py`: portfolio returns, drawdowns, walk-forward, rebalancing, frontier | weights of a split do not depend on its test days; value before a rebalance is value after it plus cost; more return never costs less variance |
| `RiskModel` | `multivariate_inputs.py`, `multivariate_risk_model.py`: eligibility, common days, estimators, shrinkage, conditioning | a snapshot is the whole selection or nothing; a matrix is symmetric with no negative variance; days outside the window change nothing |
| `Candidates` | `multivariate_candidates.py`, `_performance`, `_risk_stress`, `_cluster_risk` | weights, contributions and clusters add up; a method that did not converge never gets another's weights; moving correlations towards one is never safer |
| `WalkForward` | `multivariate_risk_model_comparison.py`, `_validation`, `_refits`, `_selection_ranking`, `_structural_walk_forward` | fitted before measured; the same windows for all; nobody measured better and was eligible |
| `StressScenarios` | `stress.py` | the replayed window happened and none was worse; correlations only rise |
| `Recommendation` | `return_quality.py`, `profiles.py`, `recommendation.py`, `trading.py`, the production part of `multivariate_statistics.py` | what is handed over passed every gate; every profile asked for is answered or refused with a reason |
| `Income` | `income.py` | the order of rows does not matter; totals are sums of payments in the period |
| `PairStatistics` | `bivariate_statistics.py`, `bivariate_diagnostics.py` | exchanging left and right changes nothing; every day is in a rolling window; clusters part the listings |

### MCStores, MCWorkspace, MCMarketStore, MCSharedConnection, MCUnivariateFilter

`MCStores` puts seven machines that share no state into one run: an initial choice says which of
them moves, the others stand still. It is a union of seven state spaces, not a product, and its
temporal properties ask fairness of the machine that moves. `MCWorkspace` does the same for two
scopes of `Workspace` with different bounds and for `UnivariateFilter`.

## 3. Runs

| Run | Instance | What it shows |
|---|---|---|
| `jobs_single` | two processes, two jobs of one input of any stage, one crash, one close or market refresh, a final write may be lost | one executor per job, which owns the attempt it writes; no job fails on its own progress, also when it resumes a checkpoint; success names a succeeded run; the tables refine `JobContract` |
| `jobs_multivariate` | two processes, two multivariate jobs, two claims each, two retry nonces, one crash, one event | a succeeded run is complete, a retry computes again, ended runs keep their evidence |
| `jobs_live` | two processes, one job requested twice, one crash, one event, fair threads | a job ends unless a process crashes; a queued job is taken up after a restart |
| `workspace` | two tabs, either two selections and four clicks, or two filters, one refresh, one failing computation and one delete | a save returns the filter asked for and a current row; versions follow activations; readiness is one stored chain; selections keep their run and succeeded runs their input |
| `workspace`, filter | one tab, two clicks, two listings whose bands change overnight, one night | a click stores exactly the analysable listings counted beside its checked boxes |
| `stores`, connection | two threads, two writes of three inserts each, two failing statements | a lone writer is transactional; acknowledged writes survive while nothing fails; items always have their manifest; an error is cleared |
| `stores`, commands | four requests of three keys, two workers, one death, one overrun | the table implements a queue in which every accepted command gets one outcome; two holders only after a lease ran out |
| `stores`, files | three publishers of two processes, two names, two crashes | what was acknowledged is served with its bytes |
| `stores`, cache | two users, two observations, two snapshots, three artifacts, one run | what a user sees was granted to that user, except under a univariate key used with other returns than it names |
| `stores`, gold | four listings (two share a file, one has no quotes at first), four selections, two numbers of buckets, one download, three calls, crashes | an answer has one row for each listing and pair, computed from the quotes it read |
| `stores`, portfolio | three configurations (two share an evaluation), three runs, three revisions of quotes, one death or removed file | the files of a finished run are all of that run |
| `stores`, market | three publications, one interrupted refresh, one container restart, two reads | `root` is complete or absent and comes back; a copy always exists; a read whose ranges fit its file is exact and ends |
| `algorithms` | all inputs of the sets in `MCAlgorithms` | each calculation against what defines its result (section 2) |
| `jobs_duplicate` | one job, phases that may outlast the heartbeat | violation: two processes execute the same job |
| `market_stale` | one reader, two reads, no crash | violation: a read after a refresh uses old byte ranges on the new file |
| `connection_atomic` | two threads, one write each | violation: half of a write is committed by another thread |
| `workspace_page` | one tab, two selections | violation: the bivariate page counts the new selection beside the pairs of the old one |
| `stress_order` | one candidate, its days in every order | violation: the stress of a candidate depends on the order of a set |
| `filter_race` | one tab, two clicks | violation: the selection of the earlier click is stored last |

Each property of a passing run has a mutant: a definition with a plausible bug
(`Fault_...`, next to the definition it stands in for) under which TLC finds the
property violated.

## 4. Bounds

Two worker processes are what the runtime starts, and two jobs of one input are
enough for the old job of an input to meet its successor. One crash and one
close or refresh suffice for each of the recorded hazards; two claims per job
give a dead and a reclaiming attempt. Two retry nonces let a retry fail and be
retried. Worker symmetry is used in the safety runs only, where no property
distinguishes workers.

Deadlock checking is off in all runs of machines because a bounded number of requests, reads
and crashes lets every system here stop legitimately: every request served and
nothing left to do. The calculations run without end.

`jobs_live` has a single job because liveness is checked without symmetry; what
matters there is the meeting of one job with two processes, a crash and a close.

Market: three publications give an old, a current and a staged directory, which
is as many names as the code uses. The contents of `market` are chosen so that the
second file is longer than the first and the third shorter (an ISIN is delisted),
the two ways in which cached ranges can fail to fit. One interrupted refresh
is the bound under which `CompleteCopyExists` holds: the rerun after a crash between
the two renames removes the backup first, so a second crash before its own
renames leaves no complete copy under either name.

Connection: three inserts are the first one, a middle one and a last one; two
threads and two errors let one thread fail while the other is anywhere in its
write and again while it recovers.

Workspace: a save, a switch, a switch back and a downstream action are four
clicks; two page loads let one read overlap each tab's activity. The other scope
needs two filters, so that a delete can meet the other project's job and universe, and
one publication, so that the same filter gives another universe.

Commands: two requests with one key, another key for the same work and other work are the
cases `enqueue` distinguishes; a dead worker and an overrun one are the two ways to a
second holder. Files: two threads of one process that offer different bytes under one name and a
second process are the two kinds of race. Cache: the second user is the one nothing was
granted to; three artifacts are two inputs and what is derived from them; a provider run returns one observation or both, and one value stands
for the settings of a returns key, since inputs of two selections already give a snapshot two returns. Gold: three calls are
one that leaves files, one that dies over them and one that answers; two bucket counts
leave rows in buckets the next call does not visit. Portfolio: two configurations that share
an evaluation overwrite each other's files, the third does not. Filter: a listing that cannot be
analysed before the night and one whose frequency becomes known in it.

Calculations: weights are multiples of one sixth (halves and thirds), returns multiples of a half or of
one per cent, so that means and shares are exact. Files have up to four rows, the longest case the
accumulation of ranges distinguishes (an ISIN with two blocks of two rows); trees up to four leaves
with ties, two independent merges; studies eight days in three windows; minimum histories, gaps and
horizons are constants of two or three days instead of months.

What the calculations assume: floating-point numbers are exact fractions, so a comparison the
code makes with a tolerance is made at the exact value; volatility, Sharpe and Sortino ratios and
correlations are represented by their (signed) squares, which keep the order; the answer of an
iterative solver is any bounded weights or a refusal; a random draw is an input. A hash is its
content. The comparisons with a reference are made for portfolios that name each ISIN once.
What a rounding error can change is therefore outside the checks.

## 5. Fairness

`AnalysisJobs!Fairness` asks that an executor thread with work takes its next step
(`ThreadStep`), that a request that started is carried to its submit, that a
closing process exits once its queue is empty, that a dead process is restarted
(compose `restart: unless-stopped`) and that time passes. No client is obliged to
call, no process to crash or close, no market to change, and no error to happen.
Weak fairness is enough: none of these steps is disabled by another process once
it is enabled, other than by being taken over.

`MarketStore!Fairness` asks that the refresh goes on (`Refreshing`): the command is
run by a timer every night, so an interrupted one is followed by another. A reader
that began a read takes its steps. `SharedConnection!ConnectionFairness` asks that a
thread inside a repository call goes on. `WorkflowCommands!CommandsFairness` asks that
workers poll and report what they hold, and that the lease of a command nobody attends to
runs out, which the clock does; no lease is obliged to run out under a busy worker.
`CommandQueue` asks that an open command is finished, and `ImplementsQueue` includes it.
The other modules have safety and action properties only.

## 6. Proofs

TLAPS proves the following for every value of the constants: any number of
processes, jobs, threads, requests, users, names and snapshots, and every bound.
The assumptions on constants are the named `ASSUME`s of the modules.

**Type correctness** (`AnalysisJobs_proofs!TypeCorrect`). `TypeOK` is not
inductive: where a thread stands decides what its locals hold. `ThreadOK` adds
that a thread inside a job has a job, that one inside a run has a run of that
job's input, and so on; every other proof starts from `TypeOK /\ ThreadOK`.

**Evidence of succeeded runs** (`AnalysisJobsRuns_proofs!SucceededRunsAreComplete`).
`AttemptOK` says which artifacts must be published when a thread is past a step,
`RunsOK` that a succeeded run has them all, `ArtifactsOK` that artifacts only grow.
It holds however many attempts of however many processes write the same run, and
also when a phase outlasts the heartbeat.

**Exclusive claims** (`AnalysisJobs_proofs!ClaimsAreExclusive`, `ClaimsLast`).
Assuming that no phase outlasts the heartbeat, `Ownership` holds: an executing
thread has a running row whose attempt is its own (`Holds`) and no two threads have
the same job (`Exclusive`). Without the assumption both properties are false; the
run `jobs_duplicate` shows how.

**Success names a succeeded run** (`AnalysisJobsRuns_proofs!SucceededJobsHaveSucceededRuns`).
`complete_job` reads the run in one statement and updates the job in another.
`LinkOK` says what a thread between the two knows: the row names the run it
linked, and that run has ended and so cannot change (`RunsFinal`). A named run stays named
because only the owner writes it (`NamesKept`); the same assumption is used.

**What a working thread may rely on** (`AnalysisJobsRuns_proofs!EvidenceIsFinal`,
`RetriesCompute`, `ProgressIsAccepted`, from `JobsInvariant`). `OneWrite` sums every step up as
what it writes, at most one row or one run. It follows that an input has at most one active row
(`OneActive`), and with `Exclusive` that a run has at most one thread at work (`OneWorker`). Only then
can a thread rely on what it saw before: `Knows` says of each location that the run is still
running (`EvidenceOK`), that the row names no other run (`NameOK`), and how far the row's progress
is behind the thread's own (`CountsOK`, with `Checkpoints` for an attempt that resumes). Evidence is
then written to running runs only, a multivariate thread that is about to link has a
run that succeeded, and a refused progress write has failed for another reason than the counts.
The same assumption is used; without it two threads write the same run.

**The tables as their clients see them** (`AnalysisJobsRuns_proofs!TablesImplementContract`).
Each kind of write in `OneWrite` is one action of `JobContract` on the mapped tables
(`JobTable`, `RunTable`), or leaves them alone. An insert needs `OneActive`; a claim the
attempts of `Ownership`; a link and a success what `LinksOK` says of the run since it was read.

**Publication** (`MarketStore_proofs!RootAlwaysComplete`, `OneCrashKeepsACopy`).
`IInv` says that the names never refer to the same directory, that the refresh has
staged a prefix of the files, and that `root` is only ever given a directory with
all of them. `CopyAt` says where the copy is in each phase of the refresh, and needs
`MaxCrashes <= 1`: two interrupted refreshes in a row lose the backup.

**One connection, many threads** (`SharedConnection_proofs!PartsFollowFirsts`,
`NothingAcknowledgedIsLost`, `LoneWritersAreTransactional`). Three arguments over one
invariant. `FirstsCome`: a row of the open transaction has the first row of its write
beside it or committed. `NothingIsLost`: with no error nobody rolls back, so a write's rows stay
somewhere until some commit takes them. `OwnTransaction`: while the others only read, the open
transaction holds rows of the one writer alone; it uses that a thread that has never
written keeps its count at zero.

**Artifacts** (`Artifacts_proofs!PublishedIsServed`, `SeenIsGranted`). What a publisher of
the same process could overwrite is kept out by the lock, what another process could write is the
same bytes (`OffersAgree`), and a manifest is
written by a publisher that has written its bytes. In the cache, references are closed over what an
artifact depends on: its key tells its dependencies (`KeysTell`), which whoever obtains a reference
was required to see, so that inputs need to be granted only when they are read. Only the keys in
`misnamed` tell nothing, and they are all univariate.

**Leases** (`WorkflowCommands_proofs!HoldersAreCounted`, `CommandsRefineQueue`). The claims of a row
grow, so at most one holder is up to date; every other one cost an overrun (`Outdated` counts
them, an argument about cardinalities). With it a report of a former holder finds the row ended or
gives the first outcome, and every step of the table is a step of `CommandQueue` or none.

**Workspace** (`Workspace_proofs!SaveReturnsAnActivation`, `ReadyStagesAreOneRevision`,
`LineageAlwaysResolves`, `ActivationsAreOrdered`). The argument is one invariant, because the four
properties need each other. Its root is that a succeeded run owns artifacts (`RowsOK`): the
triggers then keep it from every deletion, so succeeded runs are final (`RunsFinal`). Hence what
a tab has read may be old but still exists (`ViewsOK`), which makes what it shows
one chain (`ProjectedRevision`). A run succeeds only while its job accepts progress, and a deletion
marks the jobs of its universe, so the input of a running job exists (`TaskOK`). For the
saves, `SelectionsOK` says that the versions in use are 1 to n: a version computed from any earlier
read is then either taken or n + 1. `SaveOK` says that the
nonce of a save in progress is its own, and that a record of its content found late is younger than
the call. `LeastNatural` and `MaxOfBounded` are proved from the well-foundedness of `<`; an
induction of this kind needs no operator parameter.

**Current statistics** (`Lake_proofs!AnswersAreCurrent`). The files are shared by all
selections, so the argument is what each phase of a call may assume of what earlier calls
left. Before it writes a file the call knows nothing but that rows are of quoted listings and
that a bucket has its own rows only, one for a pair (`FilesOK`). When it is past a file, the file
holds the current row of *a* selected listing of that path (`CurrentExcept`), not necessarily of the
listing itself: two listings may share a file. Only the complete view excludes that
(`ViewIsCurrent`), and it then follows that the files are distinct and that the universe the pairs
were computed for is the whole selection. A cached row that matches has the fresh row's pair, dates
and values, and differs in `left_id` only.

**Portfolio files** (`Lake_proofs!RunsFilesBelongTogether`). What a run should leave is defined without
the disk: the rows of its writes that none of its later writes replaces (`RowsOf`). While a
run is between two files the same holds of its first k writes (`Wrote`): their rows are on disk, the rows
there that share table and portfolio with them are theirs (`Agree`), and every table they wrote still
exists. `RowsStep` and `AgreeStep` say that a write keeps this whatever other runs left, because keeping by
portfolio and writing anew act on both alike; `RunOK` adds that the quotes and the covariances
stay as the run found them. The assumption is that a configuration's objectives are a list of names.

**Byte ranges** (`MarketStore_proofs!MatchedReadsAreExact`, `QuoteIndexesAreSound`). An index stores
where a partition starts and ends; a read cuts the file there. `EndsGrow` says that the ends of
the lines of a file grow, so a contiguous block of a listing's rows is what its range selects and no
other row fits in it (`RowInBlock`, `BlockSelects`, `RangesSelect`). `ReadsOK` relates a reader to the
publication it read from: while the indexes are those of the directory it opened,
its rows are those of the file. That two publications may differ is the
premise of the property (`market_stale` shows what happens without it). The second theorem is about the writer:
the scan of `quote_index.py` makes ranges (`RangesAt`) in which each
written row starts or extends its own partition (`OwnRow`) and leaves the others alone (`OtherRow`);
for every file in order the index is what a scan of the rows gives (`IndexIsScan`), also
for a span of dates (`DateRanges`). `Ends` and the writer are recursive functions: that
they exist and what they hold at each line follows from `LeastNatural` on the first line where it fails.

**Boxes** (`Workspace_proofs!ClicksStoreTheirBoxes`). The page and the selection name the bands of a
listing differently: two frequencies share a box. `FilterInv` says that no tab shows a
box of one of the two alone, wherever its checked boxes come from (a filter, the browser's storage,
clicks), and that a request is known by its click. `PredicatesMatch` then gives, group by group, that
a listing meets the predicates exactly when its box is checked. The assumption is that no listing's frequency is
called as the shared box.

Model-checked only, at the bounds of section 4: the properties of the calculations.
The liveness properties stay with TLC (`JobsFinish`, `QueuedJobsAreTaken`, `ErrorsClear`,
`RootReturns`, `ReadsEnd` and the fairness part of `ImplementsQueue`), because fairness and `ENABLED`
are out of the prover's reach. So does what the estimators and the other calculations compute for every
input: they are folds over sequences and sets, and the provers have no rule for the recursion inside those.

## 7. What the checks show about the code

Most of what the documents say holds. Where it does not, the statement is kept as
a definition at the end of its module, under "What docs and comments say and the
code does not keep". Six of these are runs:

- `jobs_duplicate`: `hosted_runtime.py:33` says durable claims prevent duplicate
  work. The heartbeat is only renewed by progress writes, so a phase of more than
  five minutes lets another process claim the job while its owner computes.
- `market_stale`: `local_gateway.py:4` says readers always use the last complete
  publication. The byte ranges of the first publication a process read are used on
  all later ones.
- `connection_atomic`: `repository.py:707` says a manifest and its rows are published
  atomically. A commit by another thread of the process publishes the part inserted so
  far.
- `workspace_page`: `staged-analysis-read-plane-v1.md:136` says old and current values
  are never combined and an old result is labelled. The bivariate page shows the counts of
  the newest run beside the member count of the newest selection, unlabelled.

- `stress_order`: the docstring of `validate_candidate_stress`
  (`multivariate_validation.py`) promises deterministic scenario evidence. The days of a
  candidate are walked in the order of a set of strings, which differs between processes, and
  the drawdown depends on the order.
- `filter_race`: a comment at `callbacks.py:543` says one callback for all checkboxes
  prevents a stale click from overwriting a current one. The requests of two clicks run in two
  threads, and the earlier selection may be stored last.

The others, each checked by TLC while modelling or read off the code:

- `SuccessReachesTotal`: the read-plane contract (line 111) says success reaches the
  exact total; a job that reuses a run ends at 0 (`workspace.py:504`).
- `ArtifactLineage`: a multivariate run keeps the snapshot id of its bivariate run
  while its rows come from the present store (`workspace.py:799`, `1430`).
- `EveryJobFinishes`: the contract (line 142) says queued and running jobs are durable; a
  claim refused for a young heartbeat is not tried again by that process
  (`analysis_executor.py:84`).
- `CALLBACK_CONTRACTS.md:144` says a failed job can be retried explicitly, and
  `workspace.py:831` that terminal unsuccessful runs must be retryable. Only the
  multivariate stage does so: `run_univariate` and `run_bivariate` return the failed run
  of the same identity (`workspace.py:506`), so every later job of that input and
  snapshot fails without computing. `RetryComputes` says so of the
  multivariate stage; for a univariate input the same statement fails.
- `ServesOnePublication`: `market-source-architecture.md:35` calls a snapshot
  coherent; the files are opened one after the other by path (`local_gateway.py:188`).
- `UndisturbedReadSucceeds`: `market-source-architecture.md:41` says the API reads the
  last complete publication; `compose.yaml:53` mounts the directory itself, so a running
  container keeps the old one, and loses it at the refresh after the next.
- `PreviousSnapshotIntact`: `shared-market-refresh.md:33` says a failed run leaves the
  previous snapshot intact; between the two renames it leaves none (`refresh.py:78`).
- A read whose file is shorter than its cached ranges does not end
  (`local_gateway.py:108`); `ReadsEnd` excepts exactly this case.
- `DateRangeIsExact`: `market-source-architecture.md:75` says an ISIN alone is never a key; the
  date range looks at the first and last row of an ISIN and drops them when they
  are of another exchange (`local_gateway.py:161`).
- `DurableWithoutErrors` needs its hypothesis: with a failing statement, another
  thread's acknowledged inserts can be rolled back (`hosted_api.py:77`).
- `StampsAreFresh`: `now()` is the time at which a transaction began that a read of
  another thread may have left open (`repository.py:433`).
- `EvidenceIsFound`: a comment in `state.py:182` says runs are selected by the exact
  dependency, never by being latest; readiness and the shown run ids use the latest run of each
  stage, so going back to an earlier universe is not ready although its run is there.
- `plotly-dash-ui-v1.md:236` says a new universe invalidates downstream readiness;
  `_update_metadata_filters` replaces the universe of the shown state only, and the
  `invalidate_for_new_*` functions (`state.py:360`) have no caller.
- `workspace.py:451` says a project and all dependent artifacts are deleted; the
  triggers of artifacts and selections are not disabled (`repository.py:185`), so a
  project that has any is refused as a whole (`Immutable`). Nothing in the interface
  calls the delete.
- The multivariate page says it never plots a broader selection
  (`pages/multivariate.py:107`), but its filter is empty, and so lets every row pass,
  exactly when the bivariate evidence does not match.
- `workspace.py:630` says a record is reused when it is already the active one. A
  record activated a second time has a nonce in its hash and is never found again, so
  saving it while it is active makes another row.
- Univariate page: a docstring (`callbacks.py:101`) and
  `tests/test_dash_univariate_filter_checkboxes.py:48` say no checked box means no
  restriction; the code then stores an empty selection. Checking a box marks on the next
  drawing every other box whose listings are all selected, and the next click sends
  those as filters of their group. A click commits the selection although
  `univariate-income-metrics-v1.md` says the sole commit is the button, which no layout contains.
  The nightly refresh selects everything and keeps the saved filter, so the boxes show a filter
  the selection does not have.
- Recommendation: the quality gate looks at each listing alone, so the matrix of common days may have
  fewer days than it requires; a listing without quotes passes it and is caught by `_matrix_period`
  only; the return matrix on disk is replaced before later gates refuse. Limits for drawdown
  and turnover are declared and never compared.
- Weights and returns are keyed by ISIN (`portfolio.py:387`) although `market-source-architecture.md:75`
  says an ISIN alone is never a key; with an ISIN on two exchanges one weight counts for both listings, and the
  comparisons of `OptimizerIsHonest` and `EvaluationIsHonest` leave such portfolios out.
- Stress: two listings of one ISIN are one series in the block bootstrap (`stress.py`); scenarios
  that only have a covariance report a return of zero, which enters the medians.
- Evaluation: tail-risk and rebalancing files are named by evaluation and written anew for every
  portfolio, so those of the last remain. A manifest found by its run id does not say from
  which quotes it was computed.
- Walk-forward: a bundle's end of test is taken from the default policy; one window in which no method is feasible
  stops the structural evidence as a whole; the multivariate page looks for the winner's windows by
  the id of the full sample and so never shows its drawdown.
- Income: rows known by `id` alone have no revision, so the last one wins, and coverage can exceed one.
- Univariate and pair statistics: the median number of rolling windows leaves out the appended
  last one; a cached row keeps the position of its left listing in an earlier selection.
- `AllRefsAreClosed`: the docstring of `create_univariate_artifact` (`artifact_cache.py:384`) says
  "after dependency authorization". A reference to the artifact that is passed is required, but the
  identifier comes from the key, and nothing compares the returns it names with that artifact, as
  `create_bivariate_artifact` does (line 421). A caller that mixes them up stores a result under the
  name of other returns, or is answered with one whose returns its snapshot may not see.
- Artifact store: a death between the two files leaves a name that can be neither read nor
  published again with other bytes; `AcknowledgedIsServed` is about what was acknowledged.

## 8. Not modelled

- Convergence of the numerical solvers, square roots, exponentials and rounding: real-number
  analysis. Their control (starts, loops, projections, what a failure does) is modelled.
- The estimators of a single listing (`univariate_metrics.py`), the page tables, the structure view and
  labels: no state and no choice between listings, days or keys.
- Authentication, security and architecture gates: checks of configuration and source
  text, run in CI.
- Layout, figures, wording, the cheap progress poll and the routing of `modules/*/api.py`: no state.
- The market database (`market_source/gateway.py` and the tables it reads): read-only
  SQL in one repeatable-read transaction, outside the repository's control.
- Two processes that migrate at start (`migration.py:95`): nothing excludes them, and what
  happens is decided by how PostgreSQL locks the DDL, which the repository does not contain.
- `run_locks.py`, `run_state.py`, the `shared_*` stores, `market_revision_delta.py`,
  `resolve_workflow`, the tax and cost packages: nothing but tests calls them at this commit.
- A job history longer than the 500 rows `recover` (`analysis_executor.py:69`) and the lookups
  (`workspace.py:625`) read: older queued jobs are skipped and older selections not found;
  more rows than an instance can hold.
- Crashes while a callback runs: the callback is lost and the tab reloads, which
  `RefreshState` covers; jobs and runs across crashes are in `AnalysisJobs`.
- What a tab shows between its click and the next read: `_update_metadata_filters`
  (`callbacks.py:396`) leaves the old readiness until then.

## 9. What is left

Models: the estimators of a single listing against their definitions; the previous-result maps of
`workflow_state`; incremental refresh, tax lots and run locks once something calls them.

Theorems: the calculations whose definitions need no fold, against the references their modules state.
