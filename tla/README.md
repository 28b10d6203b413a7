# Formal models of Rainstone

TLA+ specifications of [Rainstone](../src), which collects what a Galaxy server
ran on Google Cloud and Kubernetes and reports what it cost. Each module names
the code it models; `PROJECT.json` maps every definition to the lines it stands
for. Paths below are relative to the repository, and file names without a
directory are in `backend/rainstone/`.

    tlc -workers 2 -config GalaxyFeed.cfg MCGalaxyFeed      # check a run
    tlapm ReportProofs.tla                                  # check the proofs

## 1. The system

One collector process per Galaxy instance follows four sources (the Galaxy
database, Google Batch, Kubernetes, the price catalog) and commits what it reads
to PostgreSQL together with a cursor per source and a calculation of the costs.
A web process answers report requests from the same database; a dashboard in
the browser puts a page together out of several of its answers. Initialization,
upgrades and replacement of a source are commands and chart hooks that run
beside both.

| Component | State it keeps | Operations | Works with | What is hard | What makes it correct |
|---|---|---|---|---|---|
| Calculation (`costing.py`, triggers of `alembic/versions/0001_reporting_schema.py`) | fact tables, `report_generation`, `cost_revision`, `cost_line` | `calculate_tenant`, the triggers | called in the transaction of every writer; read by the report API | concurrent REPEATABLE READ writers, recurring facts, crashes between a write and its calculation | a marker that equals the generation means that the revision is of the current facts; markers and facts only advance; reports become servable again |
| Report API (`reporting.py`, `api/`, `report_query.py`) | none | revision and pin of a request, slices, executions and repeats, details, exports | the database; the dashboard retries its 409s | facts change between two requests; attempts are known in parts | cost lines are joined only to the facts they were calculated from; what is called repeated spend is what was repeated |
| Dashboard (`frontend/src`) | the page on screen, requests in flight | load, retry, further undated rows, details, downloads | the report API | late answers, answers of different revisions | all parts of a loaded page are of one revision |
| Collector loop (`collector.py`) | lease, due times, failures | passes, back-off, heartbeat, catalog refresh | adapters, ingestion, calculation | errors at each step, restarts, two processes after a lost lease | no cursor beyond the stored facts; no revision that misses some; one source's failure does not stop another |
| Ingestion (`ingestion.py`) | rows of jobs, attempts, lifetimes, gaps, source state | `apply_batch`, upserts, `record_failure`, reclassification | the loop, the adapters' batches | evidence in any order, replayed, partly missing | better evidence is never replaced by weaker; nothing observed is lost |
| Galaxy adapter (`adapters/galaxy_db.py`) | cursor: phase, watermark, ID, sweep | backfill, incremental, reconcile | Galaxy's database | late commits behind the watermark, changes without a stamp, crowded windows | every change is collected in the end |
| Batch adapter (`adapters/gcp_batch.py`) | cursor: offsets of two lists | select targets, read tasks, enrich | Batch, Compute, Cloud Logging | lists that change under offsets, a bounded budget, denied and late reads | no target is starved; a VM is charged for its life |
| Kubernetes adapter (`adapters/kubernetes.py`) | cursor: resource version, continue token, `watched_at` | list, watch, relist | the API server | expired versions and tokens, pods that vanish | what is lost is in a recorded gap |
| Enrollment (`enrollment.py`) | tenants, `source_enrollment` | enroll, verify, replace | the init Job, the loop | replaced databases, repeated initialization, running processes | one database's facts per namespace |
| Readiness and commands (`doctor.py`, `cli.py`, `chart/`) | installation markers | initialization steps, `wait-ready` | enrollment, the collector's pod | a Job that fails and starts over | waiting pods are let in |
| Price catalog (`catalog.py`) | versions, prices, which is active | validate, import, activate, refresh | the init Job, the loop, calculation, commands | concurrent importers, bad downloads | a version never changes; there always is an active one; a bad feed replaces nothing |
| Reader credential (`bootstrap.py`) | role password, published Secret | read back, try, provision, rotate, publish, verify | the init Job, the collector's mounted Secret | a crash between the two, answers that get lost, runs that overlap | what is marked as installed can collect; a healthy credential stays; the next run repairs what was interrupted |
| Baseline (`baseline.py`, `collector.reclassify`, `enrollment._seed_baseline`) | `deployment_policy`, classified links, the profile a collector started with | classify, save a period, reclassify | ingestion, calculation, enrollment | profiles that change and change back, periods that two places save | links follow the profile and the period that was saved with it |
| Discovery, identity, configuration, price publisher, presentation | none that others depend on | reads and pure transformations | | | |

`PROJECT.json` lists the components with what of each is modelled, and the
places where the code is hard to test, with the properties that cover them.

## 2. Modules

| Module | Models | State and code | Actions and code |
|---|---|---|---|
| `ReportSnapshot` | writers and calculations, `costing.calculate_tenant` | `facts` stands for the hashed tables, `generation` for `report_generation`, `revisions` for `cost_revision`, `txn` for open sessions and their snapshots | `Write` is a statement with its trigger; `Calculate` is `Reuse` (early return), `Revive` (a revision of the same digest) or `Insert`; `Commit`, `Abort` |
| `ReportContract` | what a page promises: it shows the facts of one instant | | abstract |
| `ReportPages` | `reporting._revision` and the browser's `loadReport`, `moreUndated`, over `ReportSnapshot` | `load` is a page being put together, `page` the one on screen with the rows added to it (`stray`: those asked for from the page before), `more` the request for further rows, `late` once its page is replaced | `Refresh`, `GetSummary`, `GetPart`, `AskMore`, `AnswerMore`, `AddRows`, and every step of `ReportSnapshot` |
| `BatchPaging` | `BatchCollector._select`, `_page` | `cursor` is the source's cursor, `active`/`terminal` the lists that SQL orders by Galaxy's ID; `owed` is history | `Collect` is a whole cycle, `Start` and `Finish` are Galaxy's |
| `LifetimeEvidence` | one Batch VM: `_lifetime_for`, `_enrich`, `ingestion.upsert_lifetime`, `costing._windows` | `row` and `segment` are the stored lifetime, `tasks` what a cycle has read so far; `evidence` is history | `ReadTasks`, `Collect` (enrichment, normalization and both merges), `Fail`; the VM's and the audit log's own steps |
| `LifetimeCost` | what that VM costs, over `LifetimeEvidence`: `costing.calculate_lifetime` for a dedicated VM of one job, `reporting._line_slices`, `_slice_fraction`, `catalog.import_catalog` | `imported` are the catalogs with rows in `price_version`, `active` the marked `catalog_version`; `CostLine` and `Slices` are functions of the row, the segment and the prices | `ImportCatalog`, and every step of `LifetimeEvidence` |
| `GalaxyFeed` | `GalaxyDatabaseAdapter.collect` | `feedCursor` as stored; `missing` is what Galaxy has and Rainstone has not; `open` are Galaxy's uncommitted changes | `Read` (a backfill or an incremental page with its reconciliation), `Commit`, `Abort` |
| `KubernetesWatch` | `KubernetesCollector.collect` and `apply_batch` for pods | `cursor` as stored, `known` what is recorded of a pod, `gaps`; a resource version is the clock | `List`, `ListFails`, `Watch`, `Resume`, `Apply`, `Fail` |
| `Enrollment` | namespaces, initialization, readiness, the collector's start and lease | `spaces` are tenants with their binding and the databases whose facts they hold; `installed` the markers; `pods` each collector's progress | `Open`/`Resume` are `ensure_enrollment`; `JobEnrolls` to `JobFails` the init Job; `WaitReady` to `Commit` a collector |
| `Collector` | the loop: due sources, back-off, one transaction per source | `procs` with each process's pass, transaction and delays; `facts`, `cursor`, `revision` committed | `BeginPass`, `ReadCursor`, `Collect`, `CollectFails`, `Commit`, `CommitRaises`, `EndPass`, `Crash` |
| `CollectionContract` | what the collectors leave behind: as if one process took batch after batch, without transactions, leases or crashes | `produced`, `cursor`, `facts`, `status`, `revision` as in `Collector` | abstract |
| `ReaderCredential` | `bootstrap.bootstrap` and what it calls | `role` is the password in Galaxy's database, `secret` the Kubernetes Secret, `boot` each run with what it found and decided | `ReadPublished`, `TryPublished`, `Provision`, `Publish`, `VerifyStored`, `OpenSession`, of which each can be the last |
| `Catalog` | `catalog.refresh`, `import_catalog` | `versions` is `catalog_version`, `import` each importer's transaction with its snapshot | `BeginRefresh`, `Fetch`, `FetchFails` (with the bundled catalog to fall back on), `CommitImport`, `FailImport` |
| `Installation` | releases of the chart: `source-secret.yaml`, `init-job.yaml`, the collector's pod, over `ReaderCredential` and `Catalog` | `job` is each release's Job at its step, `rendered` what helm is about to apply, `pod` the collector and the credential it mounted | `Render`, `Apply`; `StartBootstrap` to `JobMarks`; `CollectorWaits` to `ReplacePod`; faults: `Misfire`, `JobCrashes`, `LoseSecret`, `DeleteJob` |
| `Baseline` | profiles, periods and the links of Galaxy's own records: `baseline.py`, `collector.resolve_baseline_profile`, `collector.reclassify`, `ingestion.reclassify_baseline`, `enrollment._seed_baseline` | `config` is the environment, `saved` is `deployment_policy`, `collector.profile` what the running process resolved at its start, `links` the baseline rows of `lifetime_attempt` | `Configure` (a release), `Enroll`, `StartCollector`, `StopCollector`, `CollectRecord`, `Reclassify` |
| `Executions` | a job's attempts, from task events to the report, over `Baseline`: `gcp_batch.parse_task_attempts`, `ingestion.upsert_attempt`, `reporting._executions`, `_base_records` | `log` are a task's status events, `attempts` and `used` the stored rows and their links, `fresh` is history | `Read` (a log, from its start); `Submit`, `Assign`, `Run`, `Retry`, `End` are Google's and Galaxy's; every step of `Baseline` |

`ReportPages` extends `ReportSnapshot` and implements `ReportContract`; `Collector`
implements `CollectionContract`;
`LifetimeCost` extends `LifetimeEvidence`; `Installation` extends
`ReaderCredential` and `Catalog`, `Executions` extends `Baseline`. The others
meet at named borders: `Collector` treats a source as a sequence of
items, which `GalaxyFeed`, `BatchPaging` and `KubernetesWatch` detail;
`BatchPaging` says which VM is read, `LifetimeEvidence` what is made of it when a
task has one, and `Executions` which VM is whose when it has several;
`Enrollment` says which namespace an enrollment opens, `Installation` what
comes before and after it;
`Enrollment` says where a collector writes and that two can run at once, and
`Collector` what two processes do to the facts. Each `MC` module gives the
constants of its runs values.

A definition whose comment begins with "Mutation" is a wrong variant of the one
that follows. It is used by nothing: put in the place of the other, it must
break the property that `PROJECT.json` names with it, which shows that the run
would notice such a mistake in the code.

## 3. Runs

### What holds

| Run | Shows | Bounds, and why they are enough |
|---|---|---|
| `ReportSnapshot` | With a collector, a second calculator (a fixture import that takes no lease) and an importer that does not calculate: a current marker means current facts, contents have one revision each, revisions and the generation only advance, and stale reports become servable again | 3 contents, generation up to 3, 6 creation times. Two writers that meet at one generation, and a third state to part from both, are every case the marker rule tells apart; creation times are reused, so their bound cuts no order off |
| `ReportPages` | Answers never join a revision to other facts, a loaded page and the rows added to it are one revision, and pages refine `ReportContract` | one reader, two further parts, 2 contents, generation up to 3. Readers do not affect one another; three requests can have a commit before, between and after them. The two parts are alike (symmetry) |
| `BatchPaging` | The budget is kept, active work is read in every cycle in which terminal work does not lead, quiet sweeps cover the list, every target has its turn | 4 targets and every budget of 1 to 3: lists shorter than, equal to and longer than a page, and a budget of one, where the reserve is the whole budget |
| `LifetimeCost` | Best start kept, row and segment agree, a delivered deletion closes the window for good, deleted VMs are charged; every moment of the window at the price in effect, periods that add up, later prices that leave earlier work alone | evidence: no bound, one VM, one retry, seven events, each kind of access at each cycle. Prices: an undated catalog and one that takes effect in the middle, imported at any time in any order, so that the dated one is before, inside, at either end of or after a window, alone or beside the other; a minimum of 3 ticks, which some windows reach and some do not; every pair of period bounds |
| `GalaxyFeed` | Late commits stay within the replay, and everything is collected while no replay window holds a page of rows | 2 jobs, 3 ticks, pages of 1 and 2, overlaps of 0 and 1: full and partial pages, wraps of the sweep, equal stamps, a late commit behind a later stamp |
| `KubernetesWatch` | Cursor and records agree through pages, expiries and failures; losses have gaps; ends known in time are recorded | 2 pods, lists on one page and on two, 4 resource versions: a whole life of a pod, or both pods added and the second one ended or deleted between the pages |
| `Enrollment` | No mixed namespace, one collector, installations converge | 2 databases, 2 pods, 2 releases, 3 namespaces: a namespace before, during and after a replacement |
| `Collector` | Two processes that overlap, because a lease was lost, leave behind what one alone could have left: `Collector` refines `CollectionContract`, and a revision covers all that is stored. A denied source before and an unstorable one behind do not stop the one between | one process with 3 sources, 2 items of the healthy one with batches of 1, delays up to 2 ticks: every order of due sources, a source that is behind while another waits, a crash between any two steps. Two processes with 2 of the sources, which do not fail of themselves: a transaction of either source can begin before, between and after the two commits of the other process. Failures beside a second process, and more processes, are covered by the proof (section 5) |
| `Installation` | What is marked as installed can collect; running collectors keep their credentials; interrupted bootstraps are repaired; two importers never leave no active catalog and change no version; with an application credential every release finishes | 2 releases, one over the other; with a provisioned reader one fault anywhere, without one two faults and a refresh by the collector; a bundled catalog, a feed with another one and with one of the same ID and other content. A fault is an interruption, a lost answer or a lost Secret, so one reaches each step of an attempt and the attempt after it. `MaxPasswords` is more than there are holders |
| `Executions` | Reads at any moment of growing task logs leave the counts, the repeated spend and the VMs that are charged for right; baseline links follow the profile and the period saved with its version | one job; 1 or 2 submissions, Batch's IDs in either order, 1 or 2 tasks, 1 or 2 retries on 2 VMs; or two changes between four profiles (a period, none, another period of the same version, a later version that covers nothing) over 2 ticks, with and without an enrollment at each change |

Properties are promised under a condition which they name where the code does
not keep them beyond it (next section). `UncrowdedJobsAreCollected`
and `OneSourcePerNamespace` have it in their names;
`ReportsRecover` excepts facts that recur, `EveryTargetGetsATurn` a budget of
one, `KnownEndsAreRecorded` pods whose job comes late and lists of several pages,
`OneCollector` a lost connection, `HealthySourcesGoOn` processes that overlap,
`InstallsConverge` a replaced source,
`RepeatSpendIsTrue` a first attempt that is lost before it runs, if anything repeats
it that ran or that has the lower ID of two submissions which did not,
`LoadedPageIsOneSnapshot` and `ImplementsContract` rows that were asked for from a
page which has been replaced, `EveryLossHasAGap` a pod deleted without an end,
`ReplayCatchesLateCommits` an overlap of zero,
`MarkedReleasesCanCollect` and `RunningCollectorsKeepTheirs` overlapping Jobs,
Secrets that others change and trials that fail without reason. In each of the
runs both sides of the condition occur.

Type invariants (`TypeOK`, `CredentialTypeOK` and the like) say what the variables
range over. TLC has agreed with all of them on the instances above, and they are proved with
the inductive invariants; of its own variables `ExecutionsProofs` types as much as
its theorems need.

`CHECK_DEADLOCK FALSE` stands where the modelled world may come to rest: a VM
that has been deleted and collected, an installation with no release left, a
system in which only a denied source waits.

### What does not hold

| Run | The code | The documentation, or what the program says |
|---|---|---|
| `Installation_interrupted` | `bootstrap` writes the DSN file only when it has republished the credential (`bootstrap.py:305`), and the Job reads it right after (`init-job.yaml:58-62`): an attempt that finds the published credential usable, after an interruption or in an upgrade, never gets past it | `init-job.yaml:5`, "Every step is idempotent, so an interrupted run is re-run by the Job's own retries or by the next release." |
| `Executions_seeded` | every enrollment saves the configured policy version with a period that begins at that moment (`enrollment.py:356`), and a collector starts only after one, so a declared period conflicts with the saved one and nothing is classified (`collector.py:142`) | `docs/deployment.md:309`, "The first time a period is seen it is saved with the policy version, and from then on ordinary collection and reclassification both apply the saved period" |

Known exceptions of properties that hold otherwise. Each can be seen by adding the
stronger formula, which the module keeps, to the run's configuration:

| Stronger formula | The code | The documentation, or what the program says |
|---|---|---|
| `ReportSnapshot`, INVARIANT `CurrentRevisionIsServed` | facts that return to an earlier state get their old revision's marker moved (`costing.py:290`), but reports look at the newest revision only (`reporting.py:76-95`), so all are refused until a third state is calculated | the refusal, `reporting.py:94`: "refresh to recalculate costs"; `docs/reporting-contract.md:18`, "replaying identical facts reuses the existing revision" |
| `GalaxyFeed`, PROPERTY `EverythingIsCollected` | with a page of rows within the overlap the same page is read for ever, and the sweep never runs (`adapters/galaxy_db.py:666`) | `docs/collection.md:36`, "older records are eventually revisited" |
| `KubernetesWatch`, PROPERTY `EndsAreRecorded` | a pod that is gone before its job is collected is dropped, and the cursor has passed it (`ingestion.py:420`) | the comment there, "the next cycle retries once the job exists" |
| `KubernetesWatch`, INVARIANT `NoDeletedPodRuns` | a DELETED event is normalized like any other (`adapters/kubernetes.py:455`), so a pod deleted before it showed an end stays recorded as running, without a gap | `docs/collection.md:53`, where the only pods that a gap has to stand for are those "deleted while disconnected" |
| `ReportPages`, INVARIANT `AddedRowsAreOfThePage` | rows are appended to the page that is on screen when they arrive, also if it has replaced the one they were asked for from (`App.vue:195-198`) | `App.vue:192`, "Pinned to the loaded revision, so the added rows belong to the same snapshot." |
| `Executions`, INVARIANT `SplitIsTrue` | an attempt that never ran sorts behind all that did, and two submissions that never ran sort by Batch's random IDs (`reporting.py:183-186`), so the VM of a first attempt can be charged to the repeats while the split is called complete | `docs/reporting-contract.md:76`, "Parallel tasks of one submission are not repeats; a later ordinal of the same task, or a later submission of it, is." |

Further disagreements were met while modelling and are not checked by a run:

- Galaxy: with an overlap of zero a row that takes the watermark's own stamp, and an
  ID below the last one read, lies behind the next page however soon it commits
  (`adapters/galaxy_db.py:666`, `INCREMENTAL_PAGE`); only the sweep brings it.
- Batch targets: a budget of one resets the terminal list's offset in each
  cycle that reads active work, so only its first target has turns
  (`adapters/gcp_batch.py:634`). A list that shrinks below the offset moves
  targets across it, so a sweep that a finish interrupts may report itself
  complete without having read them (`:636`).
- Kubernetes: a gap ends when the cycle started, before the relist that loses
  the pods (`adapters/kubernetes.py:391`); after a list of several pages it
  starts at the last page although the watch resumes from the first (`:425`);
  an expired continue token is sent again in each later cycle (`:134`).
- Enrollment: a source is verified when a collector starts, not while it runs
  (`collector.py:371`); a Galaxy without jobs has no fingerprint until the next
  start (`enrollment.py:251`); a lease whose connection broke is not noticed
  (`collector.py:73`); a running collector goes on writing to a namespace that
  is replaced (`:235`); a failed initialization with `source_reenroll` opens one
  more namespace when it is repeated (`enrollment.py:193`); after
  `enroll --replace-source` no marker exists until another release
  (`doctor.py:746`); the self-check is recorded under the ID that the slug gives
  rather than the active one (`cli.py:259`).
- VM windows: an end from task events, once it has filled a row, keeps out the
  better one of the audit log that arrives later (`ingestion.py:174`), and the
  method that it names for the end stays when the end is replaced (`:182`);
  with task events alone a retry's window replaces the first attempt's, for a
  line that both share (`adapters/gcp_batch.py:573`).
- Collector: what `apply_batch` or the calculation raises ends the process, which
  then starts with the same source (`collector.py:273`). Two processes that overlap
  may make each other's commits fail again and again, so that nothing promises that
  a healthy source goes on.
- Executions: a log that is read between RETRIED and the event that names the next VM leaves a
  link to the VM before it for good (`adapters/gcp_batch.py:385`): the VM counts as
  shared, the repeats' spend as incomplete, the totals are right. A submission that
  is replaced before Galaxy's record of it was collected is never read
  (`collector.py:174`, stored external IDs).
- Baseline: without a declared period the one that begins with the enrollment
  governs, so work before it is never classified, although `docs/deployment.md:317`
  says that the assumptions then apply to all work. Reclassification leaves a record
  that has a link alone, also when the profile names another server now
  (`ingestion.py:576`). A job that a provider has placed keeps the link it had, and
  Galaxy's record then counts as one more execution (`ingestion.py:541`,
  `reporting.py:172`).
- Credentials: Jobs of two releases that are in bootstrap together can overwrite each
  other's credential, and helm may apply a Secret that it rendered before the Job of
  the release before published one; a Secret that was deleted cannot be created by
  the Job, whose role may only patch it (`rbac.yaml`).
- Catalog: what PostgreSQL refuses (a second row of one ID, a row that another
  importer has written) is not caught in `refresh` and ends the collector; a price's
  ID lacks its provider (`catalog.py:265`); two versions are active after two first
  imports that overlap.
- Pages: before the first calculation parts of a page are pinned to nothing, so
  they may differ; a detail is asked for without the page's revision.

## 4. Fairness

Every run with a liveness property states its fairness in `Fairness` or
`FairSpec`; safety runs do not depend on it.

- Loops are weakly fair: `run_forever` runs until it is stopped and Kubernetes
  restarts it. Nobody outside owes a step: jobs, pods, VMs, releases and
  operators act or not.
- What may fail is strongly fair where the failure is not for ever: a read that
  is possible again and again succeeds at times. In `Collector` the sources in
  `Denied` are exempt; in `LifetimeEvidence` each kind of access recurs.
- `Collector` assumes that crashes from outside stop some day; errors that the
  loop itself raises may recur for ever. `ReportSnapshot` assumes the same of
  commands: fixture imports and catalog imports are run a number of times.
- In `Installation` a Job's pod goes on and its attempts are repeated, and a
  collector's container is started again. Kubernetes gives up after a number of
  attempts (`backoffLimit`), which is left out: the properties are about what
  repeating can reach.
- PostgreSQL's sessions end (`Commit` or `Abort`), which its timeouts enforce.

## 5. Proofs

TLC checks the instances above, the theorems hold for every value of the
constants that satisfies the named assumptions of the module.

`ReportProofs`, for any writers, readers, contents, edits and parts. The database. Whether a commit
keeps `MarkerMeansCurrent` depends on what its transaction saw when it began, so
the property is not inductive alone. `IInv` adds that snapshots are not newer
than the database and see current contents if nothing was written since
(`SnapshotsAreSound`), that at most one transaction has written and began from
the current generation (`OneWriter`, PostgreSQL's first-updater rule on the
generation row), that a pending revision records its own transaction's
generation and contents, is not another's, and fits the committed ones. From it:
`TypeCorrect`, `MarkerIsTrustworthy`, `RevisionsAreUnique`, and the action
properties `RevisionsAdvance` and `FactsAdvanceTheMarker`. The pages: an answer
joins the facts of its own instant to the newest revision's lines, so by `IInv` it
is honest when it is given and stays so on the screen (`LinesAreHonest`). Parts of
one page are answers of different instants; what makes them one is that all are
described by the one committed revision that their pin names, which is never
removed and never changes its contents (`GoodLoad`). A request for further rows is
pinned to the page's revision until the page is replaced, and what is added before
is of that revision (`GoodMore`, `GoodPage`): `PagesAreSnapshots`. For the
refinement, a page opens in the contract when it appears on the screen, with the
facts that its answers show; the rows added to it show the same facts
(`AddRowsShowsNothing`), so they, every request and retry, and every step of the
database, are stutters (`PagesImplementContract`).

`PagingProofs`, of `BatchPaging` for any finite set of targets and any budget. Targets of a
list have different, increasing indexes (`IndexIncreases`), so a window of n
places holds at most n targets (`WindowFits`), and the two windows together at
most the budget: `CyclesKeepTheBudget`. `OffsetsStayInside` is type correctness,
which for offsets means that none leaves the list it was made for. The converse,
that every index below a list's length is the index of one of its targets
(`EveryPlaceIsTaken`), gives a page that starts inside its list a target to read:
`CyclesReadActiveWork`. A sweep is complete because what it still owes is never
behind its offset (`SweepIsAhead`): a new target can only push others further away,
a page ends where the next begins, and with a budget above one terminal work never
takes all the slots. From it: `SweepsAreComplete`.

`PagingProofs`, of `GalaxyFeed` for any number of jobs, ticks, open transactions and
any settings. Ordering by stamp and ID is first of all ordering by stamp, and a page
has the first rows in that order, so what a page leaves out is no older than the
row whose stamp becomes the watermark (`PagesAreFirst`, `IncrementalIsTyped`). A
change that commits late began at most a transaction's length before now, and no
watermark is ahead of the clock. The invariant has to say so twice: of the durable
cursor with what is missing, and of the cursor that the running cycle is about to
commit with what it has not read, since rows commit between a read and its commit
(`NothingIsBehind`). From it: `LateCommitsAreReplayed`, `FeedTypeCorrect`. The
property had been stated for an overlap of zero as well; there the proof failed, TLC
found the counterexample (section 3), and it now asks for an overlap.

`LifetimeProofs`, of `LifetimeEvidence`, whatever the enrichment may read. One merge is
treated for any evidence (`MergeKeepsRow`), and one for evidence that the
sources can give (`MergeKeepsClosed`). `IInv` needs, beside the properties, that
events are in the order of their times, that a cycle's task events are true and
that no evidence names a time to come; and for the deletion that a row closed by
it has its method from Compute or the audit log while the log goes on showing
it, since task events alone could otherwise open the window again. From it:
`TypeCorrect`, `StartIsTheBest`, `SegmentFollowsRow`, `DeletionIsFinal`.

`LifetimeProofs`, of `LifetimeCost`, for any catalogs with different times and any billed
minimum. Imports are stutters of the evidence, so `LifetimeCost` implements
`LifetimeEvidence` (`CostKeepsEvidence`) and its invariant carries over
(`CostIInv`). `LaterPricesNeverReprice` is about sets: a catalog that takes
effect at the end of a window or later is applicable at no moment before it and
adds no cut, so cuts, prices in effect and line are the same
(`PricesAfterTheEnd`). `NeighboursShareASlice` and `NeighboursShareACharge` say
of two neighbouring half-open periods that they share a slice, and the amount of
an allocation, without loss; an instant shows in one of them. Every moment of a
window has a nearest cut on either side, and between two neighbouring cuts no price
takes effect; so each moment is in exactly one piece, charged at the price in effect
at that moment (`MomentsAreChargedOnce`), and a line is unpriced just if some moment
has no price (`UnpricedLinesAreHonest`).

The sums. `EveryMomentAtItsPrice` and `PeriodsAddUp` add over as many pieces and
slices as a window has, with folds that are recursive functions on sets. The
library's induction cannot be used for them, so the argument goes without: such a
function is any one that unfolds as the fold does (`AddsUp`), every measure that
unfolds so is equal to it (`OneMeasure`, from a smallest set on which the two would
differ), and the number of points in an area does (`Measures`, `MeasureAddsUp`). The
charge of a window is then an area: above each moment stands a column as high as the
price in effect (`CostIsArea`). Cutting it by the pieces of the line or by periods
loses no point and counts none twice (`PartIsArea`, `AllocationsMeasureTheCost`),
which gives `TheChargeIsItsMoments` and `PeriodsLoseNothing`.

`CollectorProofs`, for any number of sources, items and processes, with leases that
are lost and processes that overlap. `CursorMeansRecorded`, which is part of what
`CollectionIsSerial` has TLC check, and `RevisionCoversFacts` say nothing about
transactions, so neither is inductive.
`IInv` adds that what an open transaction has read, its source's cursor and all
facts, is what is committed unless the row it was read by has been written since
(`ReadsAreCurrent`), and that a batch ends at an item that exists (`BatchGoesOn`). A
commit that stores something writes the source's state and the report generation, so
it fails when either is stale, and otherwise goes on from what is committed. From it:
`CursorsAreHonest`, `RevisionsAreComplete`. The same invariant makes the collectors
serial (`CollectorsAreSerial`): a batch takes place in `CollectionContract` when it
is committed, with the cursor that is then committed, which it has read since it did
not fail; a failure that is recorded only changes what is known of its source, and
every other step is a stutter. `TypeCorrect` includes that no delay exceeds the
longest one, which takes that powers of two are numbers.

`ExecutionsProofs`, for any jobs, profiles, bounds and task logs. What a
reclassification brings about lasts only if a later collection classifies as it
did, under a profile that a collector resolved earlier, with what was saved then.
`IInv` adds that a running collector's profile is what anybody would resolve now
(`ProfileIsCurrent`), which needs that a step that saves a period does not change
what the profile is resolved to (`SavingKeepsTheProfile`) and that no enrollment
comes between; and that a record has the tool's start or none (`RecordsAreTrue`),
so that one collected again is classified as before. From it:
`LinksFollowTheProfile`, `SavedPeriodIsKept`, and, as links are only to servers of
profiles, `BaselineIsTyped`. What is reported of executions has an
invariant of its own, `LogIInv`: every stored row is founded in a part of a log and
every link in a VM of the same part or one before it (`RowsAreFounded`), and a log
that was read to its end has all of its parts, each with its own VM
(`FreshIsRead`). A stale link is therefore to a VM that did work, which gives
`TotalsAreTrue`; a first attempt has no part before it, so it never has a stale
link, which gives `RepeatsAreChargedRight`, in any order of Batch's IDs that puts no two
submissions in one place (`IdsAreDistinct`); and rows are in bijection with the
parts of the logs, so their counts agree (`CountsStayTrue`). Counting needs that a
Batch job has finitely many tasks, which `ExecutionsAssumption` says.

`EnrollmentProofs`, for any databases, collectors, releases and namespaces. A
collector looks at its source once and then writes on, so what keeps a namespace to
one source depends on what may happen. Where no database is replaced, all facts are
those of the endpoint (`FactsAreTheEndpoints`). Where one is replaced between two
collectors, and each was enrolled with a job, every opened namespace has a
fingerprint and no facts but of that database (`FactsAreTheBindings`), and a
collector beyond its check has the fingerprint of its namespace and of the endpoint
(`PodsSawTheEndpoint`). What is read between two replacements is committed before
the second one (`BatchIsCurrent`). From it: `TypeCorrect`,
`NamespacesHaveOneSource`; with `LeaseIsHeld`, `CollectorsAreAlone`.

`KubernetesWatchProofs`, for any pods, versions and page limits. A version of the
cluster never changes, so what was read of it stays true while a cycle waits to be
applied. `Recorded` relates a cursor to what is recorded of each pod, at the
cursor's version and, within a list of several pages, at the snapshot's for those
listed so far; the invariant has it for the durable cursor and for the one that the
running cycle would commit (`CycleIsRecorded`): `CursorIsTrue`. For `LossesAreInGaps`
a cycle's batch has, for every deletion between the two cursors of a pod that had an
end, that end or a gap around it, and for a deletion before them never the running pod again
(`DeletionsAreSeen`). That pages cover a list rests on each beginning after the
greatest number of the one before, and on sets of numbers having a least element.
From it also `TypeCorrect`.

`InstallationProofs`, for any number of releases, passwords, artifacts, faults and
refreshes. The catalog: a row of an importer's snapshot that nobody has written
since is what is committed (`SnapshotsAreSound`), so whoever commits has checked the
row as it is; this gives `CatalogsAreImmutable` and `CatalogStaysActive`, with one
lemma for each step of an importer. The credential: neither property says anything
of a run that is under way. `CredentialsAreSound` adds what a run knows at each step
while it is alone (`RunIsSound`: what it found is what is published, a rotation has
begun only while the Secret opens nothing), that running collectors hold what is
published, and that whatever counts as finished, a Job behind its bootstrap, a marker
or a collector, was finished with a Secret that opens a session and so is never
rotated again (`Settled`). `OneRunsStepIsSound` and `EndingRunsIsSound` reduce every
step to a statement about one run. From it: `TypeCorrect`, `MarkedReleasesCollect`,
`CollectorsKeepCredentials`.

Only model-checked: every liveness property (`ReportsRecover`,
`EveryTargetGetsATurn`, `UncrowdedJobsAreCollected`, `KnownEndsAreRecorded`,
`InstallsConverge` and the others of that kind), since fairness is beyond the proof
system, and what the two runs of "What does not hold" refute.

## 6. What is abstracted or left out

- Costs: amounts are multiples of what the code divides by, so its rounding
  (28 digits, and 12 in `_line_slices`, where the last slice takes the rest) is
  left out. Catalogs have different times; with equal ones
  `_active_price` takes the first row of an order that the query leaves open
  (`costing.py:264`). A Batch VM has one segment and is dedicated, so the union
  of several segments, existing and unknown capacity and shared VMs are left out,
  as is `provider_billable`, which no source delivers.
- Contents: facts are one value per state of the fact tables, digests do not
  collide, a job or a pod is a number. Formatting and parsing
  are left out, as are filters and identities, which restrict
  rows but do not choose a revision.
- A transaction at REPEATABLE READ reads at one instant; a writer fails if a row
  it writes was written since. `Collector` and `ReportSnapshot` model both, the
  other modules treat a commit as one step.
- Details, exports and the order of two detail requests of the dashboard;
  diagnostics and heartbeat of the loop. The recorded self-check, which only the
  status page reads (`cli.py:259`).
- `Enrollment` is about installations without a provisioned reader and leaves the
  credential out; `Installation` takes an enrollment as one step that succeeds when
  its credential opens a session. `Baseline` leaves enrollments out that an operator
  repeats by hand while a collector runs.
- A VM works for one submission and has a price of its own in `Executions`, so
  amounts are sets of VMs; task logs grow and are read from their start. Batch's
  IDs, which order submissions that never ran (`reporting.py:183`), come in any order;
  starts of different submissions differ.
- Discovery, identity, configuration, the price publisher's scripts, panels and
  period arithmetic: no state that another part depends on, or none at all.

## 7. Plan

In this order; each module with a proof module where it says so. Related modules
share their runs, one safety run and one liveness run for each family.

1. Done: all modules of section 2, each with the proofs of section 5.
2. The rest of `costing.py`: several segments, existing and unknown capacity,
   shared VMs.
3. Records of several lines in `reporting.py`: undated work and completed mode, as
   operators against a reference definition.
4. Details and exports beside `ReportPages`; diagnostics in the collector's pass.
5. Proofs: of what items 2 to 4 add. Every safety invariant and action property of
   section 3 is proved, and so is every refinement.
