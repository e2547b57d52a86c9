# Verification of the audiobook service

TLA+ models of the Go service in `src/book-text-editor`, which turns an FB2
book and a voice reference into narrated chapters with the help of stateless
Python workers (text to speech, speech to text, rewriting), and of the parts
of those workers the service depends on. The models are translated from the
source; TLC checks them on small instances and TLAPS proves the most important
facts for every value of the constants.

## 1. The system

### Components, their state and their operations

| Component | State | Operations | Module |
|---|---|---|---|
| Repository (`api/postgres_store.go`, `automatic_warning_retry_store.go`, `fragment_revisions_store.go`, `manual_reviews_store.go`, `rewrite_store.go`, `db/migrations`) | rows of jobs, fragments, revisions, attempts, reviews, rewrite tasks | one transaction per method | `FragmentStore`; rewrite tasks' own rows in `RewriteRunner`, the list of jobs in `JobListing` |
| Generation runner and scheduling handlers (`api/jobs.go`, `endpoints.go`) | a bounded channel of tasks, one goroutine, a context, a closed flag | enqueue, undo, process a task, retry automatically, close | `GenerationRunner` |
| Rewrite runner and its handler (`api/rewrite.go`, `rewrite_store.go`) | a second channel and goroutine | create, send, undo and process a rewrite task | `RewriteRunner` |
| In-memory repository (`api/store.go`) | maps under one mutex | the repository's methods again | `MemoryStore` |
| Worker clients (`api/workers.go`) and inference workers (`workers/omnivoice`, `workers/stt`) | two slots per worker | one HTTP call per inference, with timeout and checks of the answer | `WorkerCalls` |
| Rewriter worker (`workers/rewriter/runtime.py`) | a lock, a model, idle timers | load, swap, use and unload the model | `RewriterRuntime` |
| Schema migrations (`db/migrations/migrations.go`, `cmd/migrate`) | ledger, schema, advisory lock | apply missing files | `Migrations` |
| Job listing (`api/jobs_endpoint.go`, `web/app.js`) | the browser's page, filter, timer and request | list, poll, page | `JobListing` |
| Archive export (`api/archive.go`, `chapter_archive.go`) | none | join a chapter's audio, locate fragments | `ArchiveExport` |
| Book reading (`internal/fb2`, `internal/segment`) | the walker's stack | FB2 to chapters, chapters to segments | `BookReader`, `Segmenter` |
| Rewrite preservation (`api/rewrite_preservation.go`) | none | accept or refuse an answer | `RewriteGuard` |
| Seeds (`api/worker_seed.go`) | the seeds of a fragment's attempts | draw, search | `WorkerSeeds` |

### How they interact

A handler that schedules work commits a repository transaction, then sends a
task to a runner's channel, and when the channel refuses it undoes the commit
with another transaction. Nothing ties the three steps together. The
generation runner takes one task at a time; for each fragment it makes a
transaction (`startFragment`), reads the work item, calls the workers for
minutes, makes another transaction (`completeFragment` or `failFragment`), and
after a warning maybe a third (`prepareAutomaticWarningRetry`). The rewrite
runner does the like with the text model. Handlers edit, restore, approve and
retry the same fragments in between. The job row (status and counters) is
derived from the fragments and recomputed by most transactions, not by all.
Workers are processes of their own which go on computing when a client has
given up, and refuse whoever meets a busy slot. The browser polls.

### What is hard

* *Interleavings* of handlers and the two runners between two transactions;
  the window between a saved warning and its automatic retry, in which a
  rewrite task may be created.
* *Compensation*: undoing a commit with the context of a request whose client
  may be gone.
* *Crash and restart*: queues and tasks under way exist only in memory;
  programs that migrate the schema may die with the lock.
* *Partial failures*: a transaction that fails, or is committed and whose
  answer is lost; the runners log and go on.
* *Staleness*: text, warnings and statuses read before a long call and used
  after it; a callback of a timer that was cancelled too late.
* *Derived state*: counters and final statuses that must agree with children.
* *Bounds*: queues, slots, automatic retries, attempt numbers, 32-bit seeds,
  body limits, word limits.

`PROJECT.json` lists every hazard at its line with the properties that cover
it.

## 2. Modules

### The core: tables, generation, rewriting

**`FragmentStore`** models the transactions of `PostgresStore` on jobs and
fragments, one action each, atomic because each locks its rows before deciding
(`lockJob`, `lockFragmentSnapshot`, conditional `UPDATE`). A rejected
transaction is a disabled action. It is an *open* specification: `StoreSpec`
allows any caller any call at any time. Variables are columns:
`jobStatus`/`counts` the job row, `status`, `text`, `audio`, `code`, `attempt`
the fragment row, `revisions`, `log`, `approved` the history tables,
`rewriting` the fragments an active rewrite task has still to do. Texts are
members of a small set, audio is the text it speaks, and warnings keep their
codes because automatic retry and editing branch on them. Deleting a job
resets its rows to the values of a new one, which an absent job also has.

**`GenerationRunner`** extends it with the callers: `Generate`, `Retry`,
`Enqueue`, `Compensate`, `CompensateFails` are the three steps of the
scheduling handlers; `Client` and `Rewriter` are the handlers and rewrite
steps of one transaction; `TakeTask` to `EndTaskFails` are the steps of the
runner's goroutine between two transactions (`pc` is where it is: `begin`
before `startTask`, `claim` before `startFragment`, `work` during the worker
calls, `warned` between a saved warning and its automatic retry, `finish`
before `finishTask`); `Close` and `Restart` are the process. `Faults` chooses
what may go wrong: a failing database call, a client that leaves, a shutdown, a
crash. A call that fails may have been committed all the same, and its caller
goes on as if it had not been: `ScheduleFails` (`createJob`, `prepareRetry`: a
job or pending fragments nobody has sent), `DropTask` (`startTask`: a running
job without its task), `SkipFragment`, `LoseResult` and `AutoRetryRejected`
(`startFragment`, `completeFragment`, `prepareAutomaticWarningRetry`: a fragment
the runner walks past). Where a caller does the same after an error as after
success (`failFragment`, `finishTask`, the undoing calls, a person's edits), the
lost commit is the step itself.

**`RewriteRunner`** puts the real rewrite tasks in the place of
`GenerationRunner`'s abstract `Rewriter`. `row` is `rewrite_tasks` with its
`rewrite_task_fragments`, `rwQueue`, `rwPc`, `rwTask`, `rwIndex`, `rwItem`,
`rwClosed` the goroutine, `rwRequest` the handlers. `CreateTask`,
`EnqueueTask`, `UndoTask`, `UndoTaskFails` are the handler's three steps;
`TakeTask`, `BeginTask`, `ClaimFragment`, `Answer`/`Save`, `NoAnswer`,
`FailFragment`, `EndTask` and their failing forms are the loop; `Generation` is
every step of the generation side. `rewriting` is not a variable here but read
off the rows, and `ImplementsGeneration` says that the whole implements
`GenerationRunner`.

**`MemoryStore`** models `memoryStore`: maps of records that refer to each
other by id. Each method under the mutex is one action, written from
`store.go`, and `Store` at its end is the refinement mapping onto
`FragmentStore`. The tests of the service run against these maps, so the
refinement says what such tests are worth.

So three refinements tie the core together:
`RewriteRunner` ⇒ `GenerationRunner` ⇒ `FragmentStore` ⇐ `MemoryStore`.

### Beside the core

**`Migrations`** — programs of different releases apply files at once. A
process goes through `AcquireLock`, `CreateLedger`, `LastFile`, per file
`SkipFile`, `Execute`, `Commit`, then `Unlock`; script and ledger row are one
transaction (`tx`); `Interrupt` is a signal or a lost connection, `Die` a kill
(PostgreSQL rolls back and releases the lock), `StartAgain` the next run.

**`WorkerCalls`** — `SendCall`, `ReceiveResult`, `ReceiveError`, `Timeout` are
the Go side, the others a worker. Its handler takes the request slot (`slot`,
`AcquireRequestSlot`), reads the upload (`RefuseUpload`) and waits for a thread
(`StartThread`); the thread waits for the model (`FindModel`, `LoadModel`), takes
the inference slot (`inner`, `TakeInferenceSlot`) and computes (`EndInference`).
`CancelHandler` ends a handler but not a thread that runs, so one may take its
slot long after its handler has gone. `OutOfMemory` forgets the model and
leads to `WorkerExits`, which ends all handlers and threads of the process, and
`RestartWorker` (the restart policy of `deploy/compose/compose.yaml`);
meanwhile calls fail (`RefuseConnection`). `AcceptedAudio` and
`AcceptedTranscript` hold the checks of an answer: the request it names, if it
names one, its length with `readBoundedResponse`'s limit, the format of the
samples, the decoding of the JSON and the fragment it names. An answer that
names no request is the answer of its connection, as the code takes it. One
module stands for both inference workers, which have the same handler and
runtime.

**`RewriterRuntime`** — who holds the lock (`holder`) and where he is (`at`),
the model, the timers by generation: `armed` (running), `fired` (the callback
is waiting for the lock or is about to give up), `idleTimer` the current one,
`used` the generations in which the model was used since.

**`JobListing`** — the count and the rows of a page are two statements
(`CountJobs`, `ListRows`) of one snapshot, beside commits of other requests; the browser
has at most one request on its way, and every click starts the monitor again
(`StartJobsMonitor`), which begins a chain of timers with a token of its own.
`timers` are the tokens of the chains that wait for a timer, `request.chain`
that of the chain that waits for the answer, `token` the current one; the others
end when they look (`Poll`, `Ended`).

**`Segmenter`**, **`BookReader`**, **`ArchiveExport`**, **`RewriteGuard`**,
**`WorkerSeeds`** — algorithms as small machines whose steps are the
iterations of the code's loops. Their properties compare the result with a
reference definition: the words of the text, the visible pieces of a document
recorded as they are read, what a player hears that cuts an entry out of the
file, the original text, the seeds tried. `WorkerSeeds` is one call of
`processFragment` after another: each starts a series with an empty `usedSeeds`
(`ProcessFragment`), so two series of a fragment may well share a seed.
`ArchiveExport` has formats that FLAC does not (`Supported`), which an answer of
the worker may have.

**`MCGenerationRunner`**, **`MCRewriteRunner`**, **`MCMemoryStore`**,
**`MCMigrations`**, **`MCRewriterRuntime`** hold instances.
**`MCStandAlone`** joins the six parts that share no state with anything else
(the five algorithms and `JobListing`): in each of its behaviours one part
runs, chosen by `part`, and the others stay at their beginning, so that one run
explores the sum of their state spaces and not the product.

The theorems are in modules of their own: **`FragmentStoreProofs`** about the
tables; **`GenerationRunnerProofs`**, which extends it, about types and
refinement of the process, about who has which fragments to generate, and about
what comes of it; **`RewriteRunnerProofs`**, **`MemoryStoreProofs`**, **`MigrationsProofs`**,
**`WorkerCallsProofs`**, **`RewriterRuntimeProofs`** about their components;
**`StandAloneProofs`** about the segmenter, the job list, the seeds and the
book reader's stack, as parts of `MCStandAlone`.

Definitions named after an original with a suffix (`FailFragmentUnrecorded`)
are plausible slips of that code, kept to show that a property notices them.

## 3. What TLC checks

| Run | Instance | What it shows |
|---|---|---|
| `one_job` | 1 job of 2 fragments, 2 handlers, 1 automatic retry, 2 attempts, 1 revision, all faults | `TypeOK`; `RetriesFollowWarnings`: a retry budget per fragment, spent on warnings only; `KnownWorkIsPending`: no two tasks have one fragment, and what a task has still to do is pending; `AcceptedStays`: only the restore of a revision takes away what was accepted; `StoreSpec`: callers keep to the transactions |
| `edited_job` | 1 job of 2 fragments, 2 handlers, 2 attempts, 2 revisions, no automatic retry, all faults | `AttemptsAreRecorded`: the attempt log has no gap and no duplicate; `AudioSpeaksText`: stored audio speaks the current text; `ReadyIsJustified`: ready means the latest attempt passed or was itself approved; `RowsMatch`: counters equal the fragments (`CountersMatch`) and a final status says what they are (`FinalStatusIsHonest`); `CompletedIsExportable` |
| `jobs_settle` | 2 jobs, a queue of 1, no faults, fair | `NothingForgotten`: pending fragments are in a known task; `UndoneJobIsUntouched`: only jobs nobody has worked on are deleted; `RewriteMeetsGeneration`: a job has both kinds of work only in the window before an automatic retry; `JobsSettle` |
| `restart_resumes` | 1 job of 2 fragments, crash, fair | violated: see Findings |
| `rewrite_faults` | 1 job of 2 fragments, 1 task, 2 revisions of the model, 2 texts, all faults | `TaskStatusIsHonest`: a task is active while a fragment of it is to be done, and final with the status its fragments give; `OneModelPerTask`; `LateAnswersChangeNothing`: an answer never undoes an edit, restore, retry or approval; `ImplementsGeneration` |
| `rewrites_settle` | 2 jobs, 2 tasks, a queue of 1, no faults, fair | `OneActiveTask` per job; `UndoneTaskIsUntouched`; `RewritesSettle` |
| `memory_store` | 1 job of 2 fragments, 2 texts, 1 rewrite task | `MapsAgree`: no map refers to a record that is gone (`NoDanglingReferences`) and a completed job has an archive, always of all its fragments (`ArchivesAreWhole`); `ImplementsStore` |
| `migrations` | 3 programs, 5 files, one older binary, two that may be stopped or killed, fair | `LedgerIsTrue`: ledger and schema agree; `HealthyNeverFails` because of what others do; `HealthyFinishes` |
| `worker_calls` | 2 attempts, bodies of up to one byte over the limit of 2, all faults, answers that name anyone or nobody | `SlotsFollowWork`: a slot is held by running work and nothing else; `BusyMeansAbandoned`: a refusal is due to a call that was given up; `AudioIsWhole`: what is stored was not cut and names no other request; `NobodyWaitsForEver`: the runner ends although inferences hang (`RunnerEnds`), slots are freed although the runner has gone (`WorkerIsFreed`) |
| `rewriter_runtime` | 2 models, one preloaded, 7 timer generations, fair | `LateCallbackSparesModel`: a cancelled timer unloads nothing in use; `IdleRuntimeIsSound`: a loaded model nobody uses has a timer (`IdleModelIsWatched`) and readiness is told truly (`LoadedModelIsReady`); `IdleModelIsUnloaded` |
| `stand_alone` | all texts of 5 runes of 7 classes with a limit of 2 words; all texts of 4 runes of 4 kinds and their rewritings; 2-bit seeds with all used, in series after series; all documents of 6 elements, 3 texts, depth 5; all snapshots of 4 fragments in 5 formats, of which FLAC has 3; 3 jobs, pages of 2, 3 events | `SegmentsAreRight` (`NoWordLost`, `WithinLimit`, `SceneBreakSeparates`, `SentencesStayWhole`); `RewritingIsSafe` (`NoDrift`, `SpeechIsKept`); `EveryAttemptHasItsSeed` (`SeedsDiffer`, `SeedIsFound`); `BookIsRead` (`BookIsReadInOrder`, `SectionsAreOpen`); `ExportIsRight` (`ManifestLocatesSpeech`, `ChapterAloneIsTheSame`, `ErrorIsDue`); `ListIsConsistent` (`CurrentChainLives`, `PageMatchesTotal`); `ListFollowsPerson` (`OnlyAskedIsShown`, `OneChainPolls`, `ListSettles`) |
| `rewrite_order` | all texts of 4 runes of 5 kinds | violated: see Findings |

A property with names in brackets is the conjunction of those, which are
defined and explained where the component is; each is one question asked of
one state space.

Deadlock is checked in `migrations`, `worker_calls` and `rewrite_order`, where
the ends are states of their own that stutter. Elsewhere all activity ends when
nobody asks for more (or a bound is reached), which is a state without
successors that is no deadlock; there the liveness properties say that what
was asked for is done.

### Bounds, and why they are enough

`MaxRevisions` caps the revisions people and models add, `MaxAttempts` the
attempts after which a person no longer retries by hand (automatic retries may
go further). Two fragments are the least with a "next" one, two jobs the least
that share a queue, two handlers the least that race. Fragments are handled
one at a time and no step looks at more than one besides the job's totals.
`one_job` has the automatic retries and `edited_job` the longer history of
edits, because the two multiply; each theorem about what either run checks
(section 4) has no such bound.
Two attempts let a cancelled retry, a failure and a second generation follow a
first audio. In `rewrite_faults` one task and two revisions of the model let a
task's model change between its two fragments; two tasks and two jobs are in
`rewrites_settle`, where they contend for the queue. `memory_store` bounds the
edits to one fragment of a job (the other is there for the job's totals) and
the codes to one of the two the code treats alike. Migrations are a prefix of
numbers, so five files, two of them unknown to the older program, give every
relation of two programs. Two attempts at the workers are the least of which
one can meet the slots, the exit or the answer of the other. Seven timer
generations let a cancelled callback come in after two later requests. A limit of two
words on five runes has every case of the packer: a part that fits, one that
does not, a phrase over the limit, a break. Two-bit seeds wrap around as
32-bit ones do. Every mutant in `PROJECT.json` is noticed within the bounds of
the run it belongs to.

### Fairness

No client is ever obliged to act, and no fault is assumed to happen or stop.

* `GenerationRunner`, `RewriteRunner`: weak fairness of each goroutine and of
  a handler's send and undo steps. The Go scheduler runs them, and every
  worker call ends by an answer or by the timeout of `workerContext`
  (`NobodyWaitsForEver` shows this of the calls). `JobsSettle` and
  `RewritesSettle` are checked without faults: with them jobs do get stuck.
* `Migrations`: weak fairness of a program's steps, strong fairness of
  `AcquireLock`, because PostgreSQL queues those who wait for an advisory lock
  and a waiting program is served though others come and go.
* `WorkerCalls`: weak fairness of the workers' handling of a request. That the
  runner runs (`RunnerRuns`) and that inferences end (`InferencesEnd`) are
  hypotheses of the part of `NobodyWaitsForEver` that needs them: the runner
  ends although inferences hang, and slots are freed although the runner has
  gone.
* `RewriterRuntime`: weak fairness of the holder of the lock and of timers. An
  assumption on time is part of the model: a request releases the lock and a
  callback gives up sooner than `idle_unload_seconds` pass again.
* `MCStandAlone`: the loop of the seed search goes on (`Draw`, `Search`);
  timers fire and the server answers the browser (`JobListing!System`), while
  commits, clicks and errors are bounded and unfair. The other parts have no
  liveness property and no fairness.

## 4. What is proved

The proofs assume only the ASSUMEs of the modules: constants have their types,
there are finitely many fragments, a book's catalogue lists the fragments of
its job once each, and (`BookAssumption`, in
`MemoryStore` `CatalogAssumption`) no book is empty, which the parser
sees to (`internal/fb2/parser.go:73`, `ErrNoContent`). They hold for any number
of jobs, handlers, fragments, texts, retries, rewrite tasks, programs, files,
models, attempts and timers, and for any faults unless one is excluded by name.

* **Tables** (`FragmentStoreProofs`): `StoreTypes`, `RowsAlwaysMatch`,
  `AttemptsAlwaysRecorded`, `CompletedAlwaysExportable` are about `StoreSpec`,
  that is, about any callers. Types are inductive alone. With them, counters
  and final statuses are inductive together: `startFragment` may skip the
  recomputation because pending and generating fall in the same counter
  (`RowDependsOnOwnFragments`), provided the job is not final, which
  `FinalStatusIsHonest` gives. The attempt log is inductive when stated with
  the open attempt of a generating fragment. Exportability follows from the
  honest status and `ReadyHasAudio`, the strengthening that validation and
  approval both require audio.
* **Process** (`GenerationRunnerProofs`): `ProcessTypes` with the strengthening
  `RequestsFit` (what a handler will undo belongs to the job it retried).
  `ProgramImplementsStore` is the refinement `Spec => StoreSpec`: every step of
  handlers and runner is one transaction or a stutter; it carries all theorems
  about the tables over to the program (`ProgramKeepsTables`).
  `AudioAlwaysSpeaksText` uses `TextSent`: while the current fragment is
  generating, the text sent to the workers is the row's; the key lemma
  (`TextsFrozen`) is that no transaction changes the text of a generating
  fragment.
* **Ownership of work** (`GenerationRunnerProofs`): `KnownWorkAlwaysPending` and
  `UndoneJobAlwaysUntouched`. The invariant `Ownership` says of each place a
  task can be in (`QueueFits`, `HandlersFit`, `RunnerFits`) that its job exists
  and that it lists fragments of this job, at least one and none twice; of a
  handler's retry that it would give back the statuses of exactly the fragments
  in its task (`RetriesFit`); of a job just created that nothing of it
  has happened (`NewJobsUntouched`); and `KnownWorkIsPending` itself, without
  which none of the others is inductive: that a handler may delete a job or
  give fragments their old statuses back rests on nobody else having them.
  A transaction enters the proof only by what it may do to others
  (`LeavesAlone`: which pending fragments it takes, which jobs it removes,
  which it takes out of the state of a new one, whose history it touches).
* **Outcomes** (`GenerationRunnerProofs`): `ReadyAlwaysJustified` from
  `RowsFit` (a ready row is justified by its latest attempt, and what may be
  approved has its warning from that attempt) and `PreviousFits` (the same of
  the statuses an undone retry gives back). `AcceptedAlwaysStays`: an accepted
  fragment is in no task (`Ownership`), and the rows of an absent job are fresh
  (`AbsentIsFresh`). `RetriesAlwaysFollowWarnings`, whose strengthening counts
  the warned attempts on the current fragment against the spent budget.
  `ActiveJobsHaveWork`: a job that is queued or running has a fragment that is
  pending or generating. `RewritingAlwaysStaysOut`: while a task of a job is
  with a handler, queued or taken but not begun, no rewrite task works on its
  fragments. Without faults the runner neither closes nor exits, and more is
  true and proved under the hypothesis `Faults = {}`: `NothingEverForgotten`
  and `RewritingMeetsOnlyRunner`.
* **Rewriting** (`RewriteRunnerProofs`): `TaskStatusAlwaysHonest`,
  `OneModelAlwaysPerTask` and `OneTaskActive` from the invariant `RwInv`: the
  children of a task are of one job, those of two active tasks of different
  ones (`ActiveApart`), and an identifier nobody was given names no row.
  `TasksImplementGeneration` is the refinement: each step of the rewrite
  handler and runner, read through `Rewriting`, is a step of `GenerationRunner`
  or a stutter. The actions state both the update of the rows and the
  transaction of `GenerationRunner`; `RowUpdatesAgree` shows that the first
  decides the second, so no action is disabled by their conjunction.
  `LateAnswersAlwaysHarmless`: only `Save` settles a fragment, with the checks
  that make a late answer harmless. `UndoneTaskAlwaysUntouched` joins both
  sides: undoing a generate call deletes its job's rewrite tasks, so it needs
  `JobsApart` (the fragments of a job whose generate call is under way all
  wait, and no other request or task is about it) and from it `RowsHaveJobs`
  (such a job has no rewrite task, since one needs warnings); then a task not
  sent yet has its rows as they were inserted (`UnsentIsFresh`) and what was
  sent is out of its handler's hands (`SentIsDone`). `tlapm` cannot cite a
  theorem of an instantiated module, so what `GenerationRunnerProofs` shows of
  new jobs is proved here again for the handlers of `Gen`.
* **In-memory repository** (`MemoryStoreProofs`): `MapsAlwaysAgree` and
  `MemoryImplementsStore`, the refinement `Spec => Store!StoreSpec`. Every
  method of `memoryStore` does to the tables its maps stand for what the
  transaction of `FragmentStore` does, or (such as starting a task or a child,
  finishing a task, a late failure of a task whose job is gone) nothing they
  show. The invariant `MapsInv` says that the maps are linked
  (`RecordsLinked`); that a history has no attempt to come or under way
  (`HistoryFits`), which is why memory, without a UNIQUE constraint, never
  repeats an attempt number; that a ready record has audio; that a final status
  is the one the fragments give (`FinalIsHonest`); and that of the tasks of one
  job at most one has unfinished children (`RewritesFit`), which the mapping
  needs because the tables know one set per job. `recomputeJob` counts places
  in a list, the transaction counts rows: `CountByPlace` says that it is the
  same number because a catalogue has no fragment twice.
* **Worker calls** (`WorkerCallsProofs`): `SlotsAlwaysFollowWork`,
  `BusyAlwaysMeansAbandoned`, `AudioAlwaysWhole`. The invariant joins the three
  with what the runner knows of its calls: a call it has not sent has neither
  handler nor thread (`UnsentIsUntouched`), an attempt it has not ended has no
  outcome (`UnendedIsOpen`), a worker at work for a call nobody waits for was
  left by a timeout or, where handlers can be cancelled, by a broken connection
  (`LeftWorking`), a thread outlives the handler of the awaited call only in
  that last case (`ThreadsAnswer`), and the busy answer about to be read has an
  abandoned attempt as its cause (`BusyHasCause`).
* **Migrations** (`MigrationsProofs`): `LedgerAlwaysTrue`, `HealthyNeverFail`,
  `DoneIsApplied`, `NeverTwice`. The invariant says that only the holder of the
  lock is between `AcquireLock` and `Unlock`, that ledger and schema agree
  whenever no transaction is open, that applied files are a prefix, and that
  the holder's loop variable stands right behind it.
* **Segmenter** (`StandAloneProofs`): `SegmentsAlwaysRight`, for texts of any
  length and any word limit. `SplitInv` says that a piece is scanned between two
  ends of pieces (`IsPiece`) and that no phrase ends between `start` and `index`
  (`ScanFits`); that the words behind `start` are packed, each in one of
  `segments`, `current` and `parts` (`Holds`), in the order of the text
  (`InOrder`), every one of these no larger than the limit and begun by the first
  word of a phrase or inside a phrase that is over it (`Units`); and that no
  scene break lies inside a segment or behind what is still open
  (`SegmentsInScene`, `SceneIsOpen`). The order is needed for `NoWordLost`, and
  `Units` of `current` and `parts` for `SentencesStayWhole`, because the packer
  joins parts without looking at phrases. Two lemmas carry the algorithm:
  `OnlyFirstStarts`, that the words the scan cuts off belong to one phrase of the
  reference definition, and `SplitIsRight`, that cutting a phrase by the ranks of
  its words gives full parts in order. Neither needs induction: the n-th word is
  found by counting the words before it (`EveryRankIsTaken`).
* **Job list** (`StandAloneProofs`): `ListAlwaysConsistent`,
  `OnlyAskedAlwaysShown` and `OneChainAlwaysPolls`. `ListInv` says that a request that has been counted
  carries the number of jobs in its snapshot and one that is answered as many
  rows as that number leaves on its page (`PageLength`), and that the current
  chain waits either for a timer or for a request of its own.
  `OneChainAlwaysPolls`: a chain whose token is not the current one sends
  nothing, because it looks at the token whenever its timer fires or its answer
  comes.
* **Seeds** (`StandAloneProofs`): `SeedsAlwaysDiffer`, of one series, as every
  seed tried in it is recorded as used or is the one of the attempt under way
  (`SeedsInv`).
* **Book reader** (`StandAloneProofs`): `SectionsAlwaysOpen`, the half of
  `BookIsRead` about the walker's stack: sections are pushed only inside the
  first body and at the depth behind the last one (`ReaderInv`).
* **Rewriter worker** (`RewriterRuntimeProofs`): `InferenceKeepsItsModel`,
  `LateCallbacksAreHarmless`, `IdleRuntimeAlwaysSound`. The
  invariant is that a callback's generation is never newer than the current
  one and is current when the callback passes its check, that a timer of the
  current generation exists whenever the lock is free and a model is loaded,
  and that a failure is cleared by whoever loads a model.

Some of these facts have no run, because the theorem says more: `StoreTypeOK`,
`DoneMeansApplied` (a program that is done has its files in the schema),
`OnlyForward` (applied files stay) and `ModelInUse` (a model is neither
swapped nor unloaded during an inference).

**Only model-checked**: `RewritingIsSafe`, `ExportIsRight`, the other half of
`BookIsRead` (`BookIsReadInOrder`), and all liveness. The three are about what a
filter, a fold or a sort computes for every sequence (letters and controls of a
text, joined audio and the sorted manifest, flattened chapters), which needs
induction over data that the prover cannot instantiate. Liveness under fairness
(`SeedIsFound` and `ListSettles`, the second halves of
`EveryAttemptHasItsSeed` and `ListFollowsPerson`, and every other property of
section 3 that says something happens in the end) and ENABLED are out of its
reach as well.

## 5. Findings

`restart_resumes`: after a crash in the middle of a book the new process starts
with an empty queue (`newServerWithRepository`, `newJobRunner`) and no code
reads unfinished jobs back. The job stays `running` with pending fragments for
ever, and cannot be retried because `prepareRetry` refuses an active job. The
architecture report asks that "process restart mid-book resumes without
duplicate accepted attempts"
(`src/tts_audiobook_api_architecture_report_ru.md:2979`).

`rewrite_order`: `validateRewritePreservesPhrase` compares the letters of the
whole text and the list of inline controls each for itself, so an answer may
move a control past letters (`a[]` to `[]a`), although its comment
(`api/rewrite_preservation.go:16`) says the model may not reorder letters or
inline controls.

Observations the modelling gave without a run of their own: a rewrite task
that a crash leaves `queued` or `running` stays so, like a generation job, and
blocks retries and new rewrite tasks of its job. `memoryStore.deleteJob`
empties a book's `LatestJobID` when it names the deleted job though an older
job may be left, while `PostgresStore.latestJobID` then answers the older one;
the refinement of `MemoryStore` does not reach this, as `FragmentStore` knows
no books. A job may be completed although a chapter of it cannot be exported
because its fragments were made with different audio formats (`ErrorIsDue`
says exactly when).

## 6. Not modelled, and what is left

Left out for good, and why:

* Uploads of books and voices: insert-only records that no interleaving
  depends on; sizes and formats are checked at the edge.
* Generation settings: range checks of single numbers, without state. HTTP
  decoding and problem documents likewise.
* FB2 descriptions, titles' wording, namespaces and character sets; the WAV,
  FLAC and ZIP formats; prompts and model files with their downloads and
  checksums: conversions and I/O no property here distinguishes.
* The web interface beyond its polling, and the scripts: presentation and
  process management.

Left for later, in this order:

1. The prompt cache of the OmniVoice worker and the back-off of its loading.
2. The rewriter's HTTP client (`rewriter_client.go`), whose deadlines and
   checks have the shape of `WorkerCalls`.

## 7. Running

    for c in one_job edited_job jobs_settle restart_resumes; do
      tlc -workers 2 -config $c.cfg MCGenerationRunner; done
    for c in rewrite_faults rewrites_settle; do
      tlc -workers 2 -config $c.cfg MCRewriteRunner; done
    tlc -workers 2 -config memory_store.cfg MCMemoryStore
    tlc -workers 2 -config migrations.cfg MCMigrations
    tlc -workers 2 -config rewriter_runtime.cfg MCRewriterRuntime
    tlc -workers 2 -config worker_calls.cfg WorkerCalls
    tlc -workers 2 -config stand_alone.cfg MCStandAlone
    tlc -workers 2 -config rewrite_order.cfg RewriteGuard
    for m in FragmentStore GenerationRunner RewriteRunner \
             MemoryStore Migrations RewriterRuntime WorkerCalls StandAlone; do
      tlapm ${m}Proofs.tla; done

`restart_resumes` and `rewrite_order` end with a counterexample, the other runs
without an error; each takes at most three minutes.
