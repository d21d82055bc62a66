# Verification of Cachito

TLA+ models of Cachito, the TLC runs that check them on small instances, and theorems about
them that TLAPS checks for every instance. Cachito takes a *request* (a Git repository, a
commit, a list of package managers), fetches the sources and their dependencies in a chain of
Celery tasks, and keeps the result as a bundle archive, with Nexus repositories, until the
request expires. The hard part of the program is not in any of these steps. It is that an API
with several threads, several workers, a message broker that may deliver twice, a cleanup job
and a pruning script all change the same request, its files, its Nexus content and a shared
cache of source archives, with no lock anywhere.

## 1. Inventory

| Component | State it keeps | Operations | Hard behaviour |
|---|---|---|---|
| Request states (`web/models.py`) | rows of `request_state`, the row `request.state` points to, the `request_error` row | `add_state`, `to_json` | the transition is checked against what the transaction read, not against what is there at the commit |
| REST API, writes (`web/api_v1.py`) | the database, the gauges, the files it unlinks, the tasks it publishes | `create_request`, `patch_request` | overlapping transactions; a thread that dies between the commit and the deletions after it; a broker that is down after the commit |
| Task chain (`workers/tasks/*.py`) | messages, temporary directory, bundle archive, checksum, packages file | one task per step of the chain, `failed_request_callback` | delivery at least once (`task_acks_late`, `task_reject_on_worker_lost`), a state check that is made once per task, PATCHes repeated by the session |
| Nexus content (`nexus_scripts/*.groovy`, `general_js.py`) | a repository, a user and a password per request and package manager | before/after content staged, cleanup | cleanup that runs before the repository is created |
| Cleanup job (`workers/cleanup_job.py`) | nothing | list the old requests, PATCH each to `stale` | the listing is old when the PATCH arrives |
| Request logs (`workers/celery_logging.py`) | the log file of a request | opened by every task | opened again after it was removed |
| Source archive cache (`workers/scm.py`) | `<ref>[-with-submodules].tar.gz` per repository | `fetch_source`: verify, update, clone, link, unlink | check-then-use by name, workers that make or remove the same archive, damaged archives |
| Archive pruning (`workers/prune_archives.py`) | nothing | ask the API for the age, unlink | the age is old when the archive goes |
| REST API, reads (`web/api_v1.py`, `web/models.py`) | nothing | request, packages, archive, content manifest, SBOM, lists, logs, configuration files, metrics | a state is checked, files are read later, and requests expire in between |
| Nexus client (`workers/nexus.py`) | the index that searches see is behind the content | search with attempts, upload, scripts | a component is accepted once; an upload may be stored although its answer is lost |
| Downloads and uploads (`pip.py`, `rubygems.py`, `general_js.py`) | files in the bundle, repositories shared by all requests and of one request | search, download, verify, upload, search again | two requests that stage one dependency, a second execution that writes the same file, origins that change |
| JavaScript lock files (`npm.py`, `yarn.py`) | lock file and `package.json` in memory, the set of what was downloaded | read entries, convert and rewrite requirements, download | aliases, links, nested copies, keys that change with a replacement, several packages per request |
| Go modules (`gomod.py`) | source tree and its Git index, temporary cache, module cache of the bundle | vendor, compare, download, merge, list, version | what a dead worker left in tree, index and bundle; order of versions; local replacements |
| Packages data (`packages_data.py`), content manifest and purls (`content_manifest.py`, `purl.py`) | the packages files | aggregate, deduplicate, sort; image contents and SBOM | duplicates across managers, names and paths of local Go dependencies |
| Status, validation, authentication, migrations, configuration | none that another process changes | one query, pure checks, one-time scripts | data rather than order |

How they interact. The API commits a request and publishes a chain of tasks. Each task asks the
API for the state, says what it does by PATCHes, works on the shared volume and calls Nexus; its
worker publishes the next task of the chain and acknowledges the message. An exception in a task
calls `failed_request_callback`, one more PATCH. A PATCH to a final state or to `stale` makes the
API delete files and publish cleanup tasks, which any worker runs. The cleanup job is a client
like the workers. `fetch_app_source` takes the sources from the archive cache, which the pruning
script empties.

What makes each part correct:

- states: an outcome is given once; only `stale` replaces it; nothing replaces `stale`;
- API: what it deletes is justified by what is in the database, in every interleaving; the state
  shown is the state acted on; the gauges count the requests;
- chain: a complete request can be consumed (archive, checksum, packages, Nexus access), whatever
  failed and was repeated on the way; every scheduled request gets an outcome;
- expiry: what a stale request leaves behind is deleted, and stays deleted;
- archives: a request gets the sources of its own commit; sharing alone fails nobody;
- staging: Nexus holds under a locked name what was locked; a finished request has each
  dependency in its places; only an outside failure fails a request;
- Go: the module cache serves every module; vendoring is compared with the commit; versions,
  packages and local paths are those of the go command;
- JavaScript: every requirement still leads to the package it led to, now in Nexus; the bundle
  has what every lock file needs; `dev` is only what production can do without;
- reads: a GET for requests that stay complete is answered with all of what they have, and no
  answer has a part of a request; manifest and SBOM agree and their purls lead to the place.

`PROJECT.json` lists the hazards behind these, at their lines.

## 2. Modules

| Module | Content |
|---|---|
| `RequestStates` | the states and the transition table, shared by the others |
| `RequestLifecycle` | abstract: what the API promises about the state of a request |
| `RequestApi` | the writing part of the API, with the most general clients |
| `CachitoPipeline` | EXTENDS `RequestApi`: broker, workers, tasks, Nexus, user and cleanup job as its clients |
| `ScmArchive` | the archive cache, its workers and the pruning script |
| `NexusStaging` | dependencies of several requests on their way through downloads, shared repositories and the repository of the request |
| `GoNames` | names, paths and versions of Go modules and packages, for `GoModules` and `ContentManifest` |
| `GoModules` | `fetch_gomod_source`: its modules one after the other, commands that fail, a worker that dies |
| `NpmLock`, `YarnLock` | lock files as functions and sets: the tree of packages, what requirements resolve to, what is rewritten and reported |
| `JsResolve` | EXTENDS both: `fetch_npm_source` and `fetch_yarn_source` over the projects of a request |
| `ContentManifest` | EXTENDS `GoNames`: packages data, purls, image contents, SBOM |
| `RequestReads` | EXTENDS `ContentManifest`: the GETs beside the end of the task chain and the expiry |
| `RequestApiProofs` | the inductive invariant of `RequestApi` and its theorems; for one thread, the refinement of `RequestLifecycle` |
| `PipelineProofs` | the deployment implements the API, and what follows from it; types and chains of the tasks |
| `PipelineCompleteProofs` | EXTENDS `PipelineProofs`: complete requests can be consumed |
| `ScmArchiveProofs`, `NexusStagingProofs`, `GoModulesProofs`, `JsResolveProofs`, `RequestReadsProofs` | inductive invariant and theorems of the module in the name |
| `MC...` | symmetry and the constants that are expressions |

### RequestApi

`rows[r]` are the committed rows of `request_state`; the last one is `request.state` (`Current`),
the one with the newest time `request.states[-1]` (`Newest`): `CURRENT_TIMESTAMP` is the *start*
of a transaction, so the two may differ. `clock` orders the starts of transactions. A thread
(`handler[h]`) holds the call it serves and how far it is:

- `create_request`: `CreateRequest` (the commit), then `RefuseReplacements` (the 400 that is found
  only after it), `PublishChain`, or `PublishFails` and `FailUnscheduled` (the except branch);
- `patch_request`: `PatchBegin` (authentication opens the transaction), `PatchRead` or
  `PatchRefuse` (state read, gauge moved, transition checked), `Commit`, then `DeleteBundle`,
  `DeleteTemp`, `DeleteLog`, `ScheduleCleanups`. What the last four do is decided from what
  `PatchRead` read. `HandlerFails` ends a call at any step: a thread that dies or a transaction
  the database refuses.

The clients ask for any state and reason, for any request, at any time, and workers may write any
file of a published request. Whatever the real clients do is a special case: `CachitoPipeline`
refines `RequestApi` (`ImplementsApi`, which `PipelineProofs` proves).

### CachitoPipeline

A task is a sequence of steps (`JsSteps`, `PipSteps`, ...), one for every call of its function
that another process sees or that can fail, in the order of the code. A step that begins with
`say_` is a PATCH and waits for the thread that serves it. `queue` is the bag of messages;
`worker[w]` is the execution of a task; `content`, `bundle`, `nexus`, `password`, `configs`
are what is on the volume, in Nexus, and among the configuration files of a request.
`FaultKinds` says which faults a run has: a worker that dies (`crash`), a message delivered twice
(`redelivery`), a thread that fails (`api`), an answer that comes too late (`timeout`), a broker
that is down (`broker`), a Nexus script that fails (`script`); `MaxFaults` bounds their number.
A `step` of a task that raises is not counted. A worker without a message is `Free`.

Abstractions: the subpaths of a request are one; a Nexus script is one step; the files of a
package manager are one; the packages file lists all packages or none; settings have their
defaults (`cachito_gomod_ignore_missing_gomod_file` off; the prefix of repositories is the
constant `DefaultPrefix`).

### ScmArchive

Each action of a worker is one access to the shared directory: `Look` (`exists`), `Verify`, `List`
(`glob`), `Stat` (`getctime` of each), `Update` or `Clone`, `Link` (`os.link`), `Check` (the
verification after it), `Remove` (`os.unlink`), `Unpack` (`shutil.unpack_archive`). Which previous
archive is tried first is left open. What `_verify_archive` and `update_and_archive` make of a
damaged archive depends on the exception tarfile raises, so there are three kinds of damage:
`truncated` (EOFError, which nobody handles), `garbled` (zlib.error and ReadError, which only the
verification handles) and `broken` (git fsck fails). Damage that git fsck does not see, in a file
of the working tree, is not modelled, and none strikes between verification and unpacking.

### NexusStaging

A job is what a request asks of one package manager: a list of dependencies, of kinds that say
where they come from. The task goes through the list in passes, which are the loops of the code:
pip gets everything (`download_dependencies`), then pushes it to the repository of the request,
then asks for the address of what is not from PyPI; RubyGems gets, pushes, and unpacks Git
dependencies (`prepare_git_dependency`); JavaScript hosts what is not from the registry
(`process_non_registry_dependency`), then downloads all of it. `exec[e]` is the pass, the place in
the list, the step and the attempts so far. The steps are `Search`, `Fetch`, `Load`, `Upload`,
`Confirm`, `Push`, `Look`, `Address`, `Prepare` and `Download`. `stored` is what a repository
holds, `indexed` what a search in it finds: `IndexCatchesUp` runs at any time. Contents are
`locked`, what the checksum or the lock file was made of, or `altered`. Faults: `CallFails`,
`AnswerIsLost` (stored, but reported as failed), `WorkerDies`, `Redelivered` (the worker goes on),
`OriginChanges`. `missed` and `redelivered` are history variables for the properties.

### GoModules

The state is the source tree (`edited`, `vendor`, the intent-to-add entries `staged`), the
temporary cache `gopath`, the bundle (`cache` with files that are whole, partial or absent,
`listed` with the versions in the list files) and the rows reported. `Check` is
`_find_missing_gomod_files` with the refusal of replacements for several modules, `Edit` selects
the toolchain and edits `go.mod`, `Decide` is `_should_vendor_deps` with the vetting of
workspaces, `Vendor`, `Stage` and `Compare` are `_vendor_deps` and `_vendor_changed`, `Download`
and `Tidy` the go commands, `CopyBegins`, `CopyEnds` and `MergeList` are `_merge_bundle_dirs` and
`_merge_files`, file by file, `List` and `Add` take the packages and the versions
(`get_golang_version`), `Write` ends the task. `CommandFails` fails a
go command, `WorkerDies` starts the task again: the new execution clones nothing, since the
sources are unpacked, and finds what the dead one left. What `go list` prints is an input, with
its order, and the version table of go commands is reduced to supported and unsupported.

### NpmLock, YarnLock, JsResolve

An npm lock file is a function from paths to entries, a path the sequence of its parts.
`Parent`, `Child` and `Resolve` are the tree of `PackageLock` nodes (`_get_parent_node`,
`_get_fsparent_node`, `_resolve_node_dependency`), `Dependents` who requires a package,
`InNexus` the version a replaced requirement gets. The recursions of the code are recursive
functions on the nodes of the lock file; `IsLock` says what lock files are, so that they end.
`ReadNpmEntry` is one turn of `_get_deps`.
A yarn lock file is a set of entries with their keys and requirements; `ReadYarnLock` is
`_get_deps` of yarn with `_replace_deps_in_yarn_lock` and `_replace_deps_in_package_json`.
`Download` is `download_dependencies`, which skips what earlier projects of the request have
downloaded. `NpmLockAgrees` compares with a reference definition of how Node looks for a module,
`DevMeansNotNeeded` with closed sets of entries.

### ContentManifest, RequestReads

A package is a row `[type, name, version, path, deps]`; purls are records of their parts, with
placeholders for the parent as in the code. `ProcessFetchedSources`, `Complete`, `FailRequest`,
`Expire` and `DeleteFiles` change requests. A GET is `Begin`, then `CheckState` of all its
requests, then `Look` (the archive) or `Load` (`_get_packages_data`: state, then file) one
request at a time, `HashArchive`, `ReadChecksum` and `SendArchive` for a download. `get.seen` is
what the requests were at the beginning, `disturbed` which of them changed since.

## 3. Runs

Passing runs:

| Run | Instance | Shows |
|---|---|---|
| `RequestApi` | 1 request, 2 threads, npm, 4 transactions; 2.1 M states | overlapping transactions lose updates but invent no transition; files and Nexus content go only after the row that justifies it |
| `Pipeline` | npm and pip, 2 threads, 2 workers, one fault of any kind but redelivery; 1.6 M states | a complete request can be consumed |
| `PipelineSerial` | git-submodule, 1 thread, 2 workers, one fault of any kind, expiry in any state; 0.9 M states | a complete request has its packages file; the pipeline implements `RequestApi`, the API `RequestLifecycle`; the newest row is the current one |
| `PipelineLive` | gomod, npm and rubygems, 2 threads, 2 workers, any step may raise, expiry of finished requests; 56 k states | every scheduled request leaves `in_progress`; Nexus content and bundle of a stale request are deleted |
| `ScmArchive` | 2 workers, 2 commits with and without submodules, one fault of any kind; 1.9 M states | sources never mix; sharing alone fails nobody |
| `NexusStaging` | 2 executions, 2 requests, 7 dependencies of all kinds, 2 faults of any kind; 0.5 M states up to symmetry | nothing with a wrong content is stored under a checksum; finished requests have everything in place; without a fault, a late index or a competitor nothing fails, unless it unpacks a Git repository twice |
| `GoModules` | 3 nested modules, 16 repositories, 3 sets of tags, 24 requests (1152 initial states), 2 failing commands, 1 death; 148 k states | the module cache serves all modules after a restart; vendoring is compared; versions, packages, local paths are right; only bad requests fail |
| `JsResolve` | all npm lock files over 6 paths, and one with a seventh, with and without a root entry, one or two projects; all yarn lock files of 3 packages and a workspace; 65 k states | every requirement leads where it led, `dev` is right, the bundle serves all projects |
| `RequestReads` | 2 requests, packages of all package managers, one GET at a time; 0.8 M states | answers are whole whatever completes or expires meanwhile; purls lead to the place; manifest and SBOM agree |

Runs that find a disagreement of the code with what the repository says (see "findings" in
`PROJECT.json`):

| Run | Shows |
|---|---|
| `PipelinePrefix` | two swapped arguments: with another prefix no npm or yarn request completes (the same run with `DefaultPrefix = TRUE` passes) |
| `GoModPartialFile` | a worker that dies while it copies a file of the module cache leaves a part, and the next execution keeps it, although `_merge_bundle_dirs` promises to overwrite |
| `StaleManifest` | the content manifest of a stale request is empty while its packages are still there; the test for it replaces the function that decides this |

Other disagreements were seen with runs that are no longer kept. They explain why some properties
above are weaker than one would like:

- the gauges are moved before a PATCH is refused, and stay wrong (`GaugeCountsRequests` of
  `RequestApi` states what they should be);
- expiry that overlaps with completion leaves a request `complete`, without files:
  `CompleteIsUsable` leaves requests out whose transactions overlapped;
- a request that expires while a task configures Nexus leaves its repository there for ever:
  `StaleIsCleaned` is checked with expiry of finished requests;
- a task that is executed again offers a second password for the same configuration path
  (`OneFilePerPath` of `CachitoPipeline`);
- an archive that is found invalid is in the way of its replacement: it fails the request that
  meets it, once, and the next one succeeds (`SharingIsSafe` speaks of runs without damage);
- a Git repository that contains two gems of a Gemfile fails the request: its archive is removed
  after the first gem is unpacked. `UndisturbedStagingSucceeds` names this case (`GitTwice`);
- two modules of a Go workspace that list one package fail the request if they get one version,
  because `add_package` refuses the second row; with different versions both report the package.
  `OnlyBadRequestsFail` names this case (`ListedTwice`);
- a module of a Go workspace lists packages of the other modules too, with local dependencies at
  paths from itself (`resolve_gomod`: "always relative to the main module"), while the purls are
  made with the module a package belongs to by name. `LocalPackagesAreWhereTheySay` leaves such
  packages out (`ListedElsewhere`);
- a local package is located below the longest replaced module whose name begins its own
  (`_set_full_local_dep_relpaths`), although that module may lack the package and the go command
  take it from one with a shorter name: the path is then wrong. `LocalPackagesAreWhereTheySay` names
  this case (`InTheLongest`);
- the purl of a local dependency goes by names: a dependency that has the name of a module of the
  request but is replaced by another directory, or a module whose name does not end with its
  directory, gets the purl of the wrong place. `LocalPurlsLeadToThePlace` has these as conditions
  (the name is that of the directory; `NamedByPath`);
- an error that "should be impossible" (`content_manifest.py:184`) is not: a module of a Go workspace
  lists packages of a module that the request does not ask for, and if such a package has a local
  dependency of no module of the request, its manifest and SBOM raise. `RowsAssumption` supposes
  that a package with local dependencies is in a module of the request.

All but the first five were found by attempts to prove properties of this kind, which then failed
in a run with such a job, repository or packages file, until the cases were named.

Bounds. `MaxTransactions` ends behaviours of `RequestApi`: four transactions are two PATCHes that
overlap, on top of the creation, with a third that reads what they left. In the passing runs of
`CachitoPipeline` it is never reached: `clock < MaxTransactions` holds in `Pipeline`,
`PipelineSerial` and `PipelineLive`, because the chain of a request is finite. One request is
enough there: requests share only the workers and the threads, which a single request with
redelivered messages and cleanup tasks already keeps busy. Two workers and two threads are the
least that can overlap. `MaxFaults = 1` lets each fault occur at every point of the chain; two
faults are the next step when the state space allows. `MaxTries = 1` repeats a PATCH once: a
second repetition meets the same states. The package managers of a run are chosen so that every
task program occurs in some run, and the step in which they differ (Nexus proxy, hosted
repository, none) in a run with faults.

What the runs separate, and why: expiry together with two threads and crashes is beyond what TLC
finishes in minutes, so `Pipeline` has the faults, `PipelineSerial` the expiry with one thread,
and the list above says what happens when they meet. `CompleteIsUsable`
is not checked with `redelivery`: a second execution of `process_fetched_sources` truncates the
archive of a request that the first has completed, so it does not hold there.

`NexusStaging`: two requests are the least that share a dependency, and its properties speak of
one request and one competitor. A third execution is not needed: with two, one is redelivered
while another runs. Two faults let an upload be lost and its worker die, or an origin change
between a verification and a redelivery. Searches have 1 or 2 attempts instead of 5 and 3: what
matters is a first one that finds nothing, a later one that does, and giving up. Every kind of
dependency is in a job, and two jobs list a dependency twice. Executions and requests are
interchangeable: no constant or property names one of them, so their permutations are a symmetry.

`GoModules`: three nested modules are the least in which one name is a prefix of two others. The
repositories have every state of a vendor directory in the root and in a nested module, a
replacement by a version, by a directory above, below and outside, an absolute one, a workspace, a
missing `go.mod`, an unsupported Go version, a listing in which the packages a module needs
stand before and behind each other, three workspaces in which a module lists a package of
another (one that nothing needs, one that needs a package of it, one with a local dependency), and
two replaced modules of which the one with the longer name lacks the package (`NestedModule`). The
tags lie before, at and after the commit, with pre-releases and tags of nested modules. Two
failures exhaust `MaxTries = 2`.

`JsResolve`: six packages are a package, its nested copy, a link with its workspace and a copy
below that: the least in which a requirement is resolved in its own directory, above, and through
a link. A second project meets what the first has downloaded. In one more lock file a workspace
directory has the name of a Git dependency: there the tree of the code drops one of the two, and a
requirement is not rewritten (hazard at `npm.py:428`). `NpmLockAgrees` leaves such lock files out
by its condition `NamesAreApart`; without the condition that lock file violates it.

`RequestReads`: two requests, of which the first has any of the packages files in
`MCFileSets` and the second those of npm: the code looks at requests in the order of their
identifiers. Two of the packages files have Go modules whose names mislead: a dependency that has
the name of a module but lies in another directory, and a module that is not named for its place.

`CHECK_DEADLOCK FALSE` stands in the runs of `RequestApi` (the bound on transactions ends a
behaviour), of `CachitoPipeline` (all requests are finished, and none is created any more), and
of `NexusStaging`, `GoModules` and `JsResolve` (the tasks are over). `ScmArchive` and
`RequestReads` never stop.

Fairness (`FairPipelineSpec`, in `PipelineLive` and `PipelinePrefix` only). Weak fairness of what
a thread does for its call: the server runs its threads. Weak fairness of a worker's steps:
workers poll the broker, and a step of a task ends, if only by a timeout. Weak fairness of the
cleanup job: it is a cron job (`cleanup_job.py`). Faults and the user are not fair. Steps that
raise are not fair either, so a task may never fail.

## 4. Proofs

For every number of requests, threads, reasons, package managers and for behaviours of any length
(`RequestApiProofs`): `TypeOK`, `HistoryJustified`, `LegalUnlessOvertaken`, `CleanupsJustified`,
`BundleOutlivesRequest`. None of them is inductive: a commit is legal because of what the thread
read some steps before. The invariant is `IInv == TypeOK /\ CallsJustified`, where
`CallsJustified` says what each thread still knows of the history of its request: the row it read
is there, its own row is a legal successor of it, and once it has committed, a row with its state
is in the history. Rows are only ever appended, so this knowledge lasts (`KnowledgeLasts`) while
other threads commit. The action properties follow from the same invariant.

For one thread (the second part of `RequestApiProofs`, hypothesis `OneThread`): `NotOvertaken`
(what a thread has read is still the last row when it commits) and `InOrder` (rows are in the
order of their transactions, all older than the one that is open). From the first, every commit
is a step of `RequestLifecycle`, so `Spec => LifecycleSpec`: the initial state maps to its initial
state, `CreateRequest` to `Submit`, a commit to `Settle`, `Expire` or a stutter, the rest to a
stutter. From the second, `NewestIsCurrent`.

For every number of workers, commits and faults (`ScmArchiveProofs`): `ScmTypeOK`,
`SharingIsSafe`, `SourcesOfOneCommit`. The invariant `ScmIInv` adds what the archives still are to
a worker at each step (`FetchOK`): while nothing has failed nobody removes an archive, so one that
was seen is still there; a list that `fetch_source` goes through holds archives without submodules
only, so what is built from it has none of another commit. `WorkerMoves` shows once that a step
of one worker keeps what the others know.

For a deployment of any size, with any number of faults and repetitions (`PipelineProofs`):
`ImplementsApi`, that is `PipelineSpec => Spec`. The clients of `RequestApi` write files of
published requests only, so the invariant `PipelineIInv` adds to `IInv` that no message and no
execution is for another request, through every task, answer, death and redelivery (`QueueOK`,
`WorkersOK`), and that a worker waits for at most one thread (`ClientsOK`: otherwise a late answer
could move an execution that has begun another task). `ApiStep` maps each action to a step of the
API or a stutter. The theorems about the API then hold for the deployment; those that its runs
could never reach with two threads are stated again: `HistoryJustified`, `CleanupsJustified`, and
for one thread `LifecycleSpec` and `NewestIsCurrent`. The last part are the types of the deployment
itself: `PipelineTypeOK`, and `PipelineStaysInChains`, that every message is for a task of its
chain and every execution at a step of its task.

What a deployment promises (`PipelineCompleteProofs`):

- `CompleteRequestsAreUsable`: a complete request whose transactions did not overlap has its whole
  bundle, its Nexus content and the user's current password. Hypothesis `NoRedelivery`, with any
  other faults, any number of threads and workers; with it the property is false (section 3).
  The heart of `CompletesIInv` is `OneToken`: without a second delivery a request is a single token
  that is published, executed and acknowledged, so nobody undoes what earlier tasks have left.
  `Progressing` says what every task of the chain has left when the token has passed it,
  `CompletingIsUsable` what a thread that is about to commit `complete` relies on, and `NoReturn`
  that without an overlap a request that failed or expired does not become complete.
- `CompleteRequestsHavePackages`: a complete request has its packages file. Hypothesis
  `OneThread`, with any fault, second deliveries included. `finalize_request` compares the counts
  with the packages file just before it completes the request (`CountedHasPackages`), and from
  there only the expiry removes the file, after which, with one thread, nothing completes
  (`NoReturn`).

For any dependencies, requests, executions, attempts and faults (`NexusStagingProofs`):
`StagingTypeOK`, `NexusHoldsWhatWasLocked`, `FinishedIsStaged`. The last two rest on a task that
was not delivered again while it ran being the only one that writes the files of its request.
`Achieved` says what a place in a job leaves behind once an execution has passed it, `Progress`
that this holds for all places before the one it is at; nothing takes it away, because Nexus
accepts a name once and nobody else writes the files. `UndisturbedStagingAlwaysSucceeds` needs the
opposite of it, that nothing is in the way: `CalmIInv` says that, as long as no fault has occurred
and no search was late, what an execution is going to look for is there, the archives it still has
to unpack are there (`ArchivesKept`), and a name that its search found free is free, unless a
competitor asks for the same dependency (`Excused`).

For any repository, request, number of modules, failures and deaths (`GoModulesProofs`):
`GoModTypeOK`, `CacheServesEveryModule`, `VendoringIsChecked`. The invariant `GoModIInv` speaks of
the modules the current execution has passed; a restart begins with none, and what the dead
execution left is still covered: files in the cache are never removed, entries in the Git index
are compared again and reset. Four more theorems are about data:

- `VersionsAlwaysSortBetweenTags`, for any finite set of tags: that the highest tag of a finite set
  exists is shown with the well-founded order of strict subsets (the set of the tags above a tag),
  that pseudo-versions fit with an order of versions on their five numbers (`LessOrders`).
- `OnlyBadRequestsEverFail`: `FailuresOK` is the invariant that a failed task has met one of the
  causes that `OnlyBadRequestsFail` lists. It needs what the rows in memory have in common with the
  repository (`RowsOK`), that every module is visited once (`VisitedOK`), how often a command has
  failed (`TriesOK`) and what a comparison of the vendor directory has seen (`ComparedOK`). The
  attempt to prove it found two causes the property did not list: a package that two modules list,
  and a directory that has another module than the replacement names.
- `PackagesAreAlwaysReported`: the walk from the end of a listing takes the packages that no other
  one depends on, and their dependencies are all the rest (`WalkIsNeeded`, `TopPackagesAreRoots`,
  `RootsHaveTheRest`). It rests on the order of the listing and on dependencies being transitive
  (`OrderAssumption`): what is skipped would add nothing to what is skipped later. An earlier form
  of the property, by the names of modules, turned out to be false where a package of another
  module of the workspace needs a package of this one; the new form says it row by row.
- `LocalPackagesAreAlwaysWhereTheySay`: the path of a local package is that of the replacement, with
  what its name has behind the name of the module (`PackageDepPlace`); go list puts the package there
  (`DirectoriesAssumption`) as long as the module that the code takes, the longest by name, is the
  one that go list has taken (`LongestParent` is the longest, and two prefixes of one name with one
  length are the same). The invariant `ReportIInv` carries the rows of every module that is done
  until they are written (`ListedOnlyHere`: such a package was reported by this module only).

For any number of requests with any packages (`RequestReadsProofs`): `ReadsTypeOK`,
`CompleteRequestsAreServed`, `CombinedAnswersAreWhole`, `PackagesAreAggregated`. The invariant
`ReadsIInv` says how the files of a request go with its state, and that what a GET has seen of a
request that was not disturbed is still so. `ManifestAndSbomAlwaysAgree` compares the two ways the
code takes from packages to purls, type by type, and shows that each placeholder is replaced,
because the parent that is looked for by name exists (`LongestParent`: of finitely many names that
contain a package there is a longest one, shown with the well-founded order of strict subsets).

Two theorems of `RequestReadsProofs` say what a computation over data of any length results in. Its
folds are recursive functions on the subsets of a finite set (`FoldSet`, `FoldLeft`). `FoldExists`
shows that such a function exists, `OneByOne` that a fold over the positions of a sequence passes
them one after the other, and `UpTo` is the induction behind both, with a set in place of a
predicate: the numbers below the least one for which something fails would be ever fewer.

- `LocalPurlsAlwaysLeadToThePlace`: `NormpathUnder` compares the normalisation of a path with the
  one behind the name of the repository, part by part; as the result has no `..` left, no `..` is
  met while nothing is there to take away, and the name of the repository stays. The purl, found by
  the name or by the path of the dependency, has therefore always the same name in the repository
  (`LocalPurl`), and that name, taken apart at the longest module (`NamedPlace`, `Rest`) or carried
  whole (`NamePlace`), is the directory again.
- `EveryDependencyIsListedOnce`: gathering keeps every dependency (`AllAreGathered`, over subsets of
  growing size); sorting is a permutation, because the number of those before it is different for
  every element and an injection of `1..n` into itself is onto, and leaves nothing before an element
  that is less (`SortedInOrder`); dropping what equals the element before it then leaves strictly
  growing ranks (`UniqueInOrder`).

For any projects with any lock files of the shape that npm and yarn write (`JsResolveProofs`):
`JsTypeOK`, `NpmLockAgrees`, `YarnLockAgrees`, `DevMeansNotNeeded`, `BundleServesEveryProject`. The
invariant `JsIInv` says of the entries that are read what is found (`Found`: `dev` and `bundled`
are conjunctions over the copies read so far) and what requirements ask for (`Asks`), and of the
finished projects what was returned (`Resolved`) and that the bundle serves them (`Served`). Three
arguments about data come on top:

- `ReachableIsLeast`: the search for production dependencies of yarn ends with the least set that
  is closed under requirements. The search is a function on the finite set of requirements, and a
  call that would go wrong with the most requirements found is a contradiction.
- `RewrittenFollows`: a requirement stands in one key, so that the rewritten one does.
- `ResolvesToNearest` and `FindsNearest`: the search of the code up the tree of packages and the
  search of Node up the file system stop at the same place (`Offers`, `Seen`). The parent of a
  package in the tree is the nearest package above it (`ParentIs`), so both pass the same
  directories, and a shortest path on which they differ is a contradiction. This needs
  `NamesAreApart`, which the property names as a condition: if a directory of the project has the
  name of another package of the same parent, one replaces the other in the tree of the code, and
  requirements on it are not rewritten.

Assumptions, all named and evaluated by TLC in the runs: `Idle` and `Missing` are no calls, fetches
or contents; bounds and attempts are naturals; `Nobody` and `CleanupJob` are no workers; the
clients' reasons are among `Reasons`, and package managers and faults are those that the tasks and
the model know; `Kind` and `Jobs` go together and `Shared` is no request; a request for Go modules
asks for at least one, vendor directories are in one of their four states, a major version is a
natural number and tags are a finite set of versions (`TagsAssumption`); what the go commands list
is finite, every package belongs to a listed module with which its name begins, no dependency has
a path for its own version (`ListingsAssumption`), every package is listed once, after all it
depends on, directly or not (`OrderAssumption`), and a package of a module that is replaced by a
directory lies in this directory, at the rest of its name (`DirectoriesAssumption`); dependencies
have an order (`DepOrderAssumption`); request identifiers are naturals, the packages files of a package manager have no two packages with
one key, no set of packages is `NoFile`, the packages of a request are finitely many of the known
types with dependencies of that order, and a directory that replaces a Go module lies inside the
repository (`_vet_local_file_dep_paths`) and in a module of the request, which
`_fail_if_parent_replacement_not_included` checks (`RowsAssumption`); requests for npm and yarn
have a project and lock files of the shapes `IsLock` and `IsYarnLock` (`RequestsAssumption`), whose
paths are all in `PathOrder`, each once (`PathOrderAssumption`).

Only model-checked: that no state of the real clients of `CachitoPipeline` reaches the bound on
transactions, and all liveness (`EveryRequestSettles`, `StaleIsCleaned`, `StaleBundleIsDeleted`):
fairness and ENABLED are out of reach of the prover. Every other property of a passing run is
stated by a theorem.

## 5. Not modelled

- The parsers of pip (`setup.py`, `setup.cfg`, requirement files and their options), of
  `Gemfile.lock` and of `yarn.lock`: text without state. Their results are inputs.
- Go commands: what they print is an input; the table of Go versions is two classes.
- API: lists of requests, metrics, logs and configuration files (one query or one file);
  validation of payloads; authentication, of which only the start of the transaction is there.
- Service status (`web/status.py`): one GET that asks workers and services; nothing is kept.
- Migrations (run while the service is stopped), configuration and tracing (no state).
- Environment variables of a request are one quiet PATCH. Of the log only its existence is
  modelled. Pruning of archives is the question and one removal; its listing and limits are not.
- Roles and privileges in Nexus.

## 6. Plan

Done, in this order: `RequestStates`, `RequestLifecycle`, `RequestApi` with its proofs,
`CachitoPipeline`, `ScmArchive` with its proofs; then `NexusStaging`, `GoModules`, `JsResolve`,
`RequestReads` with the modules they extend, and `PipelineProofs`, `NexusStagingProofs`,
`GoModulesProofs`, `RequestReadsProofs`; then `PipelineCompleteProofs` and `JsResolveProofs`, and
the theorems on undisturbed staging, on versions, failures, packages and local paths of Go modules,
on manifests and SBOMs, on the purls of local dependencies and on the list of all dependencies.

Next:

1. `get_or_create` of configuration files and environment variables by two threads, and the logs
   and configuration files of a request, in `RequestReads`.
2. Requirement files of pip as sets of lines (hashes, options, direct references), with the
   custom requirement file that points to Nexus.
3. The listing and limits of the pruning script; service status.
4. Two faults in `PipelineSerial`, and the overlapping removal and linking of archives that lets
   sources which fail git fsck through.
