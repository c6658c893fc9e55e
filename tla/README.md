# TLA+ models of the competence parser

This directory holds the TLA+ project for the code in `src/`. The main subject is
the competence parser (`src/plugins/competence/parser/src/competenceparser.cpp`).
It walks a git history and runs one job per commit on a thread pool. Each job
blames the files the commit touched. The results are merged into a shared table
of per-(file, author) "competence" scores, which is flushed to the database at
the end. The Java language service (`src/plugins/java/service`) is a thin RPC
bridge to a Java server process. Its interesting parts are the start of that
process and the client's connect loop with a timeout.

The project has four specification modules:
- `CompetenceParser.tla` models one repository's competence pass: the walker, the pool workers, `commitWorker` and the aggregator.
- `CompetenceTable.tla` is the abstract specification of the aggregation. `CompetenceParser` is checked to refine it.
- `ParseDriver.tla` models `parse()`'s loop over the input paths: purge, sampling, the competence pass as one step, flush, e-mails and companies, with crashes and reruns.
- `JavaService.tla` models the Java service handlers, their server processes, the connect loop and the queries.

The `MC_*.tla` modules instantiate them with small histories and sets.

## 1. Inventory

### Components and their state

| Component | Code | State it keeps | Operations |
|---|---|---|---|
| parse() driver | `parse` 67-137 | input paths, repository path | purge (99-109), sampling, traversal, flush, e-mails, companies |
| CommitSampler | `commitSampling` 158-200, `sampleCommits` 836-876, `persistSampleData` 878-891 | `_commitSample` (file → count) | count commits, re-walk with stride 1, count touched files, persist |
| File LOC pass | `traverseCommits` 212-258, `collectFileLocData` 309-346, `walkDeltaHunkCb` 279-307 | static `_fileCommitLocData`, `_fileLocData` | dead scaffolding: its results are only read by commented-out code |
| Walker + pool | `traverseCommits` 260-275, pool built in ctor 39-44 | loop counter, job queue, `CommitPtr` per iteration | enqueue ≤ commit-count jobs, `_pool->wait()` |
| CommitProcessor | `commitWorker` 432-771 | per-job locals: `plagValues`, `hasModifiedFiles`, scratch dir `<ws>/<name>/competence/<k>` | validate, diff, materialise (`walkCb` 364-406), similarity (`plagiarismCommand` 408-430 + JPlag), per-delta blame, persist CommitData, merge |
| Aggregator | 684-686, 692-761, `persistFileComprehensionData` 795-819, `persistEmailAddress` 920-941 | `_fileEditions` (vector), `_emailAddresses` (set), mutex `_calculateFileData` | locked insert of e-mails, locked max-merge, flush |
| CompanyResolver | `setCompanyList` 943-960, `setUserCompany` 903-918 | `_companyList` | first substring match per UserEmail row |
| JavaServiceHandler | `javaservice.cpp` 25-49, `javaservice.h` 49-97 | child process, `_service` client (may stay null) | spawn server, connect with retry until 25 s, forward queries |

### How they interact
- The walker thread enqueues `CommitJob`s. Each job holds a raw `git_commit*` whose owning `CommitPtr` is destroyed at the end of the loop iteration.
- Pool threads run `commitWorker` concurrently. The only state they share is `_fileEditions` and `_emailAddresses`, both guarded by `_calculateFileData`. They also share the unsynchronised counters and the `basePath` member, and they write to the database (CommitData rows).
- After `_pool->wait()` returns, the walker flushes the table and the e-mails.

### What is hard
- **Concurrency.** Workers interleave. The merge order is arbitrary. Counter increments are lost. The shared `basePath` is assigned and appended to in two unlocked steps. The commit handle is freed while a job still uses it.
- **Failure.** A null author crashes the process after the purge. An unpaired similarity file aborts the whole commit. Scratch directories leak when the similarity step is skipped or aborted.
- **Ordering.** The flush must follow the barrier.
- **Data dependencies.** `walkCb` matches paths by string prefix. An ADDED file's score depends on whether the same commit also modified another file.

### What makes each part correct
- **CommitProcessor:** every CommitData row is the blame tally of a processed, unflagged (commit, file).
- **Aggregator:** each final score is the best strength any commit produced, whatever the order the workers ran in. There is one row per (file, author).
- **Pool:** the run completes, and the flush follows the drain.
- **Sampler:** each count equals the number of stride-selected commits touching the file.
- **Java service:** no query is forwarded to a missing client.

The code-level hazards are listed in `PROJECT.json` under "hazards".

## 2. Modules

### `CompetenceParser.tla`: the competence pass (walker, pool, commitWorker, aggregator)

**CONSTANTS.** The repository history is data:
- `Walk`, the revwalk order, head first;
- `Tree[c]` and `Changed[c]`;
- `Parent` and `Author`;
- `Blame[c][f]`, a sequence of `<<lines, origin>>` hunks;
- `TreeOrder`, the pre-order of blobs;
- `PrefixOf`, which string-prefix pairs exist;
- `FlatName`, the scratch file names;
- `Ext`, `Tracked`, `ToolOutputs`, `PlagThreshold` and `MaxCommitCount`;
- `ToolMayHang`, whether a similarity tool run may never return (TRUE in the pipeline run);
- the stale rows left in the database by an earlier run.

**Operators that model the code:**
- `Status` and `Diff` model the git diff.
- `WalkMatch` models `walkCb`'s prefix match.
- `NewDir` and `OldDir` model what gets materialised.
- `ScoringRuns` (line 527), `Scorable` and `Unpaired` model the similarity loop.
- `AddedZeros` and `RecordScores` model `plagValues.insert`, which never overwrites.
- `TallyHunk` and `BlameTally` model the blame loop, as a `FoldLeft`.
- `CurPlag`, `Flagged` and `Strength` model the scoring rules.
- `MergeEditions` models the critical section, with first-match lookup in the vector.

**Actions.**
- The walker: `Purge` → `EnqueueCommit`* → `PoolWait` → `PersistFileComprehension` → `PersistEmailAddress`, then `Finished` stutters. `PersistEmailAddress` first erases from `_emailAddresses` every address already in UserEmail (the member keeps only the new ones), then persists the rest.
- Each worker: `Dequeue` → either `RejectCommit` on an unprintable author name, or `AssignBasePath` → `AppendBasePath` (lines 447 and 448, two unlocked writes of the shared member) → one of:
  - `RejectCommit` → `CountFaulty`: the `++` is split into its read and its write;
  - `CrashOnNullAuthor`;
  - `PrepareScratch`, which copies `basePath` into the job's `outPath` (line 491) → (`AbortOnUnpaired` | `RunSimilarity` | `HangInTool` | `SkipSimilarity`) → (`SkipDelta` | `AttributeDelta`)* until the last delta.
- `AttributeDelta` is one action covering blame, the e-mail inserts, persistCommitData and the locked merge. It can be atomic because everything else it touches is either thread-local or guarded by `_calculateFileData`. Other threads read the shared state only after the barrier.

**Reading a freed commit.** Reading a freed `git_commit` is undefined behaviour. The model takes the outcome that libgit2's object cache still holds the commit, so the read returns the right data. The lifetime error itself is what `HandleLiveWhenRead` reports.

**The pool.** `util::ThreadPool` is not in this repository. Following the spec, it is a FIFO queue drained by the `Workers`, and `wait()` returns when the queue is empty and every thread is idle.

**Reference definitions.** These are stated from the history, not from the worker's loops: `RefCommitted` and `RefTotal` are plain sums over hunks, and `RefProcessed`, `RefAttributed`, `ExpectedAttributions` and `Contributions` build on them. Strengths are rationals `[num, den]`, compared by cross-multiplication. What the references do not check: they reuse the model's whole-commit abort (`Unpaired`), walkCb's prefix match (`WalkMatch`) and the ADDED-file plagiarism rule (`CurPlag`, `Strength`). So they check the tally and the merge order, not those three rules (hazards at lines 549, 378 and 606 list them without a property).

### `MC_CompetenceParser.tla`: an eight-commit history
The history drives every branch:
- c1 is a root commit;
- c2 modifies `src/a.c` (the tool is run) and adds `notes.md` (plagiarism value 0, strength 100);
- c3 adds `src/a`, so the new-tree walk writes `src_a` instead of `src_a.c` and scoring silently skips the file;
- c4 has an unprintable author name;
- c5 deletes `src/a`, so the old-tree walk writes `src_a`, the `.c` file is unpaired and the commit aborts;
- c6 modifies `notes.md` (an unsupported extension), giving author b a second, smaller strength for `notes.md`;
- c7 has an empty diff;
- c8 only adds `doc.txt`, so the similarity step is skipped: its strength is a ratio, and its scratch directory leaks.

Two workers are enough for every pairwise interleaving of jobs. `ToolOutputs = {30, 100}` plus "unparsable", with threshold 100, reaches all three outcomes: scored, flagged at exactly the threshold, and unscored.

`MC_NullAuthor.tla` uses the same history, but c4 has no signature.

### `CompetenceTable.tla`: what the aggregation promises
This module is the abstract specification, written from spec 3 (FileEdition).
- **State.** `best[<<f, a>>]` is the best strength of author `a` on file `f`. `stage` is `"collect"` or `"flushed"`. `rows` is the bag of FileComprehension rows written by the flush.
- **`Observe`.** It changes the entries of one file only. It keeps every entry, and every changed entry is new or strictly greater (`Less`). It states the effect of a step, not a value to pick, so TLC never enumerates strengths.
- **`Flush`.** It happens once. It writes one row per entry, and afterwards nothing changes.

`CompetenceParser` maps onto it (`Table == INSTANCE CompetenceTable WITH ...`):
- `best` is the first FileEdition of each file in the vector (`TableBest`).
- `stage` is `"flushed"` from `persistFileComprehensionData` on (`TableStage`).
- `rows` is the FileComprehension rows counted with their multiplicity, once flushed (`TableRows`). Before the flush the stale rows are hidden, so a flush onto an unpurged table is a violation.

The property `ImplementsCompetenceTable == Table!Spec` is checked in the pipeline run. It says:
- every merge under `_calculateFileData` is a legal `Observe`;
- no merge happens after the flush, which depends on the pool barrier;
- the flush writes exactly one row per entry.

### The composition: `CompetenceParser` implements `ParseDriver` on one path
`ParseDriver` treats the competence pass as one step whose result it takes from the constant `Outcomes`. `CompetenceParser` instantiates it (`Driver == INSTANCE ParseDriver WITH ...`) as `parse()` on one input path with `skip-forgetting`:
- `Outcomes` is `DriverOutcomes`: one outcome per similarity record a run can build (`PossibleRecords`, over every tool answer for every job whose tool runs), each giving the reference rows `RefRows` and the scored authors. It is a constant, computed once.
- `step` follows `phase` (`DriverStep`): the purge is `discover`, the first enqueue is the skipped sampling, `PoolWait` is `TraverseCommits`, and the two flushes are the flushes.
- `editions`, `emailAddresses` and `passResult` are empty until the barrier, then the vector's entries and the e-mail set. Strengths are compared in lowest terms (`Norm`).

`ImplementsParseDriverPath` is the safety part of the driver's specification (`setUserCompany` lies outside `CompetenceParser`). It holds only if the pool, seen at the barrier, leaves exactly one of the outcomes `ParseDriver` assumes. So the per-path result that `ParseDriver`'s properties rely on is the one the pool produces.

### `ParseDriver.tla`: parse() over several input paths, with reruns
- **State.** `run`, the invocation's `options` (`skip-forgetting`, `skip-competence`), the path index `pidx` and the loop `step`.
- **Member state.** `counter`, `commitSample`, `editions` and `emailAddresses` are members of the parser object. They carry over from one path to the next.
- **Database.** `dbSample` (a bag of SampleData rows), `dbScores` and `dbEmails` (e-mail → company).
- **Actions, one per step of the loop body** (`competenceparser.cpp` 67-137):
  - `SkipNoRepo`, `Purge`;
  - `SkipSampling`, `SampleCommit` (one commit of `sampleCommits`' walk), `PersistSampleData`;
  - `TraverseCommits`: the whole competence pass as one step. It picks one of the path's `Outcomes` (a set of `[rows, emails]` records, because the similarity tool's answers are not fixed), adds it to the members and records it in `passResult`;
  - `PersistFileComprehension`, `PersistEmailAddress`, `SetUserCompany`.
- **Crashes and reruns.** `Restart` models a crash at any point, or a new invocation: a fresh parser object with new options, and the same database.
- **Operators.** `SampleCommits` counts the tracked files a commit touches. `SampleRows` builds the persisted rows. `CompanyMatches` is the ordered, unanchored substring lookup of `setUserCompany`, written with `SelectSeq` over the `std::map` key order; the constant `Substring` says which key occurs in which address.
- **References.** `RefSample` counts the sampled touches from the histories. `RefCompany` is spec 4.5's rule stated with quantifiers: the company of the first key, in table order, contained in the address (`FirstKeyAt`).
- **Fairness.** `WF_vars(Step)`: `parse()` runs on one thread that always takes its next step. Nothing forces a crash.

`MC_ParseDriver.tla` has three inputs:
- p1 has a three-commit history with a root commit, and one change to an untracked file;
- p3 has no repository;
- p2 has two commits.

It also has four e-mails: `b@harm.com` contains the key `arm.com` without being in that domain, and `d@ibm.com.intel.com` contains two keys, so the first-match rule decides. It has the 15 company keys in the code's order. `MaxRuns = 3` lets a crash and two reruns happen, with either switch on.

### `JavaService.tla`: the Java service handlers
- **State.**
  - `hpc`: the handler's construction;
  - `child`: its Java server process;
  - `port`: the owner of the fixed port 9090;
  - `elapsed`: the connect loop's clock, in ticks;
  - `service`: whose server the client is connected to, or `None`;
  - the per-handler request and reply queues;
  - the state of each webserver thread;
  - `crashed`: the webserver died on a null client.
- **Actions.**
  - `Construct` spawns the child. Handlers are constructed one after another.
  - `Tick` advances the clock, and `Open` tries to connect. It either connects to whichever server holds the port (`OpenConnects`) or gives up after `Timeout` (`OpenTimesOut`, where the exception is swallowed and `_service` stays null).
  - The Java servers are the environment (`ChildListen`, `ChildBindFails`, `ChildExit`, `Serve`): a server binds the port if it is free, exits on a bind error, may die at any time, and answers its connections in order, if it answers at all.
  - `Call` is either `CallNull`, which crashes, or `CallSend`. It is followed by `Recv`, or by `RecvFails` on EOF.
- **Fairness.** It is weak on the clock, the constructing thread, and a thread's receive once a reply or EOF is there. Nothing is assumed of the Java servers: not when one starts or exits, and not that it answers. The client's socket has no receive timeout, so a live server that never answers keeps its caller waiting, and no completion property of queries is claimed.
- **Bounds.** `MC_JavaService`: two handlers and two threads, `Timeout = 2` ticks, one query per thread. Two handlers are the least that can share the port. Two ticks let a server come up both before and after the deadline.

### Runs

| Run | cfg | Expect | What it shows |
|---|---|---|---|
| pipeline | `MC_CompetenceParser.cfg` | pass | `AttributionsMatchBlame`, `FinalScoresAreBestObserved`, `RunCompletes` (parse() returns, or stalls on a hung tool with every other job done) and the refinements `ImplementsCompetenceTable` and `ImplementsParseDriverPath` hold under all interleavings, with a similarity tool run that may hang (21,598 states under `ControlView`, about 2 minutes) |
| null_author_no_partial_table | `MC_NullAuthor.cfg` | pass | `CrashLeavesNoPartialTable`: when a thread dies on a signature-less commit, no FileComprehension or UserEmail row of the run has been written, because `_pool->wait()` cannot pass the dying thread; deadlock checking is off because the process really dies |
| null_author_crash | `MC_NullAuthor_crash.cfg` | violation | a null author crashes instead of counting as faulty (spec 4.2 step 1) |
| commit_handle_lifetime | `..._HandleLiveWhenRead.cfg` | violation | the job's `git_commit` is freed before the worker reads it |
| scratch_leak | `..._ScratchRemoved.cfg` | violation | scratch dirs of aborted or skipped commits remain after the run |
| basepath_race | `..._ScratchUnderCompetenceDir.cfg` | violation | another worker's assign or append of `basePath` falls between a worker's own assign, append and copy, so the job's scratch directory is `<ws>/<k>` or `<ws>/<name>/competence/<name>/competence/<k>` |
| java_connect | `MC_JavaService.cfg` | pass | `ConstructorReturns`: every constructor returns by the connect deadline, whether its server binds late, never binds, or exits (about 17,000 states) |
| java_null_client | `MC_JavaService_NoNullClientCall.cfg` | violation | after a connect timeout, the next query dereferences the null `_service` |
| java_shared_port | `MC_JavaService_ServedByOwnServer.cfg` | violation | a handler whose own server failed to bind 9090 connects to another workspace's server |
| java_reply_crossing | `MC_JavaService_ReplyToOwnQuery.cfg` | violation | two threads calling one handler both send on its one Thrift connection, and the first to receive reads the other's reply (`ReplyToOwnQuery`) |
| parse_driver | `MC_ParseDriver.cfg` | pass | every finished run leaves a complete score and e-mail table, and every e-mail row has the company of the first key it contains (`CompanyIsFirstKeyMatch`), across paths, crashes and reruns |
| sample_stale_across_paths | `MC_ParseDriver_SampleCountsMatch.cfg` | violation | `_commitSample` is not reset between paths, and SampleData is never purged, so counts from several paths and runs pile up (spec 3, spec 8) |

**The view.** `basePath` and `outPath` appear in no guard and feed no other variable. Apart from two conjuncts of `TypeOK`, no property of the pipeline, null_author_no_partial_table or scratch_leak runs mentions them. So these runs fingerprint states by `ControlView`, the state without the two variables. This is sound for every other property, because two states that differ only in `basePath` and `outPath` have the same behaviours on every other variable. `TypeOK`'s conjuncts on the two variables are checked only on the states the view keeps. It cuts the pipeline from about a million states to 21,598. The basepath_race run checks the full state.

**Fairness in `CompetenceParser`.** The walker and each pool thread are weakly fair. They are OS threads that block only on the queue, the mutex or the barrier, and none of these is held across a wait. A hanging JPlag process is `HangInTool`: the worker moves to `hung`, where no action of it is enabled, so weak fairness asks nothing of it, and `Blocked` lets it stay there. `RunCompletes` then asks that the walker still enqueue every commit and the other threads drain the queue (`StalledOnHungTool`), The code takes no lock around the tool call at line 560 (`_calculateFileData` is locked only at 684 and 692, for steps the model makes atomic), so the model has no lock variable; what `RunCompletes` checks is that neither the pool's hand-out nor the walker waits for the hung thread.

**Mutants.** Each property of a passing run has one mutant:
- numbering jobs with `commitCounter++` breaks `TypeOK`;
- not adding a job's own hunks to `totalLines` breaks `AttributionsMatchBlame`;
- the same queue-only `wait()` breaks `CrashLeavesNoPartialTable` (the flush runs while the dying thread still holds its job);
- replacing the best strength even when the new one is not greater breaks `FinalScoresAreBestObserved`;
- a pool that hands out a job only when every thread is idle breaks `RunCompletes` (one hung thread then stalls the whole queue);
- a pool `wait()` that returns once the queue is empty, without waiting for the busy threads, breaks `ImplementsCompetenceTable` (a merge lands after the flush);
- a merge that keeps an author's first strength and never raises it breaks `ImplementsParseDriverPath` (the barrier state is no outcome of the driver);
- `setUserCompany`'s key loop without its `break`, so the last matching key wins, breaks `CompanyIsFirstKeyMatch`;
- a connect loop that restarts its clock on every iteration breaks `ConstructorReturns`;
- a sample that does not resolve files through `srcMgr` breaks `TypeOK` of `ParseDriver`;
- a competence pass on fresh member state breaks `FinalTableComplete`, because each path's purge would then erase the earlier paths' rows.

## 3. Not modelled, and why
- **The LOC pass.** It is dead scaffolding (spec 5 and 9). `_fileLocData` is looked up once (line 700) and the result is unused, and `persistFileLocData` persists nothing, so the pass changes no output. That includes the process-lifetime `_fileCommitLocData`, which merges counts across input paths (listed as a hazard with no property). Its undefined behaviour could only crash the process.
- **Per-row transactions of a flush.** Each flush writes a whole table in one step. A crash between two rows is not modelled: the next run's purge removes partial FileComprehension and UserEmail rows, and partial SampleData rows are a subset of the duplicates that sample_stale_across_paths already shows.
- **Plugin registration (`plugin.cpp`, the service factory).** This is glue that constructs the objects the modules start from.
- **Query completion.** The Java client's socket has no receive timeout, so whether a query returns depends on the Java server answering, which is outside this repository; `JavaService` gives the servers no fairness and claims no completion of queries.
- **Log-only counters and logging.**
- **The lost `++faultyCommits`.** The model keeps the increment's read and write as separate steps, but no property checks the count. The counter is never read (the spec calls it observability only), so a lost increment changes no output. The run slot went to the `basePath` race instead.
- **A torn `basePath` string.** Concurrent writes to the `std::string` inside the path are a data race below the model's granularity. The model keeps the race between the whole assign, the append and the copy.
- **Repository discovery and `persistNoDataFiles`.** They are directory traversal with no concurrency. `ParseDriver` takes "has a repository" as a constant.
- **The Java server (`javaservice.jar`).** It is not in this repository. It is modelled only as the environment of `JavaService`.
- **The webserver's threading.** It is decided by the webserver, outside this repository. `JavaService` lets any thread call any handler. The java_reply_crossing finding holds whenever the webserver does call one handler from two threads at once.
- **Memory growth of the connect loop's error stream.** Memory is not modelled.

## 4. Plan (next sittings)
1. **walkCb's prefix match.** When a run slot is free, add a violation run comparing the blobs materialised for a modified file with spec 4.2 step 4 (the file's own old and new content). The history already has the case (c3).
2. **Larger instances.** Use three workers in the pipeline, and three handlers sharing the port.
