# TLA+ verification of the codebase understanding assistant

This directory holds TLA+ models of the program under `src/backend/app`, the TLC
configurations that check them on small instances, and theorems about them that
TLAPS checks for every value of the constants. Paths below are relative to
`src/backend/app` unless they begin with `src/`; abbreviations: `job_state_store`
is `services/indexing/job_state_store.py`, and so on.

The program imports a repository, indexes it (scan, parse, chunk, graph) and
answers questions about the index. Its hard part is what goes on at the same time:
indexing runs beside the requests, in another process (production profile) or in
threads (local profile), is retried, cancelled and paused, and publishes versions that
readers rely on while sources are imported, questions answered and repositories
deleted. The rest is algorithms on graphs and rankings, whose results are compared
with what they are meant to compute.

## 1. Inventory

`PROJECT.json` lists every component with its sources and what is modelled of it.

| component | state it keeps | operations | modelled in |
|---|---|---|---|
| job state store (`job_state_store`) | rows `index_jobs`, `index_attempts`, `index_versions`, the repository's active pointer and fence, artifact rows, audit events | submit, claim, heartbeat, complete, fail, cancel, request_cancellation, register_artifact, activate | `JobStateStore`, `IndexJobs`, `IndexActivation`, `LockOrders` |
| job delivery and worker (`job_delivery_service`, `job_queue`, `workers/`) | messages at the broker, a delivery's lease, the flag of the heartbeat thread | deliver, heartbeat thread, enqueue, redelivery | `JobDelivery` |
| indexing service, production profile (`indexing_service`) | job record, in-memory repository of API and worker | submit, execute_persisted_job, status, cancel | `JobDelivery`, `RepositoryViews` |
| indexing service, local profile | threads, registered controls, pause/resume/cancel events, the index | submit, pause, resume, cancel, status, thread, incremental re-index | `LocalIndexing`, `IncrementalIndexing` |
| production repository store | repository, version, job, evidence, conversation rows | save_indexing_job, save_repository, save evidence and turns, delete, load | `JobDelivery`, `RepositoryViews`, `AssistantTurns`, `RepositoryDeletion` |
| repository service | in-memory `RepositoryState`, loaded once per process | load, replace, delete, persist | `RepositoryViews`, `LocalIndexing`, `AssistantTurns` |
| local repository store (`repository_store`, SQLite) | job rows, repository row, index records, evidence, turns | save/get job, save metadata, save repository, mark stale evidence | `LocalIndexing`, `AssistantTurns` |
| artifact store (`artifacts/store`) | immutable files | write, verify, read | `PhasePipeline`, `IndexActivation` |
| phase pipeline (`phase_pipeline`, `phase_contracts`) | checkpoints | plan_resume, run | `PhasePipeline` |
| activation and validation (`activation_service`, `validation_service`, `artifacts/manifest`) | manifest at a fixed key | validate, publish, activate | `IndexActivation`, `CandidateValidation` |
| import sessions, uploads (`import_session_service` and its helpers) | sessions, staging directories | create, start, append, complete, preview, confirm, cancel, clone thread | `ImportSessions` |
| chat workflow, conversation (`services/chat`) | turns, traces, budget counters | answer, cite, persist, delete | `AgentWorkflow`, `AssistantTurns` |
| schema and migrations (`src/backend/migrations`) | tables and foreign keys | upgrade, downgrade, delete_repository | `ProductionSchema`, `RepositoryDeletion` |
| incremental planner, equivalence | none (pure) | plan, compare | `IncrementalPlan` |
| retrieval, ranking, selection; embeddings | none; the stored vectors | rank, fuse, select; build, load | `EvidenceRetrieval`, `DenseIndex` |
| graph projection; architecture; impact | none (pure) | views, pages, seeds; overview; analyze | `GraphViews`, `ArchitectureOverview`, `ImpactAnalysis` |
| code analysis: flow, resolution, graph | none (pure) | control and data flow, references, candidates, emission, normalization | `CodeFlow`, `CodeGraph` |
| capability readiness | none (pure) | calculate | `CapabilityReadiness` |
| legacy upgrade (`db/legacy_upgrade`) | none; one transaction | migrate | `LegacyUpgrade` |
| access service; scanning and parsing; enrichment; evaluation; API routes; frontend | see section 6 | | not modelled |

How the parts interact. The API process turns an import session into a repository,
saves a job and its version in one database and publishes a message that carries the
job's id; a worker takes the message, claims a lease, runs the indexing service with a
heartbeat thread beside it, publishes the version through the repository store, and
completes the job through the job state store. Both processes hold a copy of the
repository that they loaded when they started. In the local profile the API process
starts a thread per job instead; the thread and the requests share a `RepositoryState`,
an `IndexingJobControl` with three events, and the SQLite database. A question reads that
copy, stores the evidence it cites and then a turn of its conversation. The phase pipeline,
the activation service, the incremental planner, readiness and the dense index belong to
the next version of the worker: tests compose them, the application does not start
them yet.

The behaviours that are hard here are in `PROJECT.json`, "hazards", each at its
line: interleavings of deliveries, heartbeats and cancellation; times and rows read
before a lock and used after it; crashes between two transactions; lost,
duplicated and early messages; copies that are never refreshed, and replaced field by
field under a reader; repairs that a status request makes while a thread runs;
wake-ups of a paused thread; runs that resume from somebody else's checkpoints;
batches, confirmations and a clone thread on one session; limits that pass during the
last call; foreign keys that block a deletion; circles of row locks; and, in the
algorithms, cycles, limits met half way, and facts kept of what has changed.

What makes the parts correct: at most one attempt has authority over a job, and a
stale one changes nothing; a job ends once, and in time; what was published or failed is
not decided again, and what readers see was published by a job that says so; cancellation wins
over publication; retries stay within the budget and are not lost; a readable
index stays readable; resuming gives what a run from nothing gives; a source has one
owner; an answer is of one version; a deletion is complete; and an algorithm on a
part, a page or a limit says the truth about the whole.

## 2. Modules

```
IndexJobs <== JobStateStore  JobDelivery   RepositoryViews   LocalIndexing   PhasePipeline   ImportSessions
                  |     \
   CandidateValidation   JobStateStoreProofs   (and JobDeliveryProofs, RepositoryViewsProofs, LocalIndexingProofs,
      |           |                                  AssistantTurnsProofs, PhasePipelineProofs,
      |           |                                  ImportSessionsProofs)
      |           |
      |     IndexActivation       AgentWorkflow - AssistantTurns      ProductionSchema - RepositoryDeletion
 CapabilityReadiness

 Algorithms: IncrementalPlan, CapabilityReadiness, ImpactAnalysis, CodeGraph, LegacyUpgrade, LockOrders,
   |     \     EvidenceRetrieval, GraphViews (Ordering), DenseIndex
   |      AlgorithmInvariants - AlgorithmProofs
 MC_Algorithms: ArchitectureOverview (Ordering), CodeFlow, IncrementalIndexing
```

`MC_*` modules give TLC its constants. Each module takes the view of the database
it needs: `JobStateStore` has the rows of many jobs with real lease times,
`JobDelivery` one job with all the processes that work on it, `RepositoryViews` many
jobs one after another with the copies of API and worker.

**JobStateStore** (`job_state_store`, `db/production_models`). One action per command,
which is one transaction with its row locks. `state`, `current`, `generation`,
`cancelRequested`, `base`, `fence` are columns of `index_jobs`; `attempts[j]` is the
sequence of `index_attempts`, with `expires`; `version` and `active` are lifecycle
and pointer; `repoOpen` and `repoGeneration` are the fence. `now()` is read before
the locks are granted, so every command runs with some `now \in 0..clock`. A command
whose predicate fails raises and rolls back: it is a disabled action. Submitters and
lease holders are unrestricted: any generation of any job may be presented at any
time, which covers every stale worker. The artifacts that `activate` compares are in
`IndexActivation`. `transition_job` and `transition_version` are called by tests only.

**IndexJobs** is the promise of the store to those who submit and cancel: one pending
job, one outcome, cancellation wins, publication and success in one step, each
version built on the one it replaces. Attempts, leases and time are hidden.
`JobStateStore!Abstract` is the refinement mapping.

**JobDelivery** (`job_delivery_service`, `job_queue`, `execute_persisted_job`,
`_execute_indexing`, `save_indexing_job`, `save_repository`). Several workers and one
job. `pc[w]` is the next transaction or decision of `deliver`; `queue` counts
messages, `monitor[w]` is the flag of the heartbeat thread, `status[w]` the status
in the worker's copy of the job record. `save_repository` is two steps, as its transaction is at READ
COMMITTED: `PublishRead` takes the repository's row and looks at the lifecycle, `PublishWrite` writes it by id
and commits; between them others may write what does not need the repository's row, such as the cancellation of a queued job. `live` abstracts the lease's time to whether
it has run out. Constants switch faults on: late leases (`Timely`), a failing broker,
a failing runner, a failing database, cancellation, crashes, duplicates. Exceptions
go where the code sends them (`HandlerOf`): the handler of `_execute_indexing`, that
of `deliver`, or Dramatiq, which drops the message.

**RepositoryViews** (`repository_service`, `production_repository_store`,
`indexing_service` with the worker queue). A repository's row, its version
lifecycles, the pointer and the last job; the copy in the API and the copy in the
worker, each loaded at the start of its process. The repository was just imported;
actions: submit, the status poll with its repair, cancellation, deletion, the worker's
steps, restarts.

**LocalIndexing** (`indexing_service` with threads, `repository_store`). `row` and
`version` are the job rows, `saved` and `stored` the repository row and the versions
whose records were committed, `repo` the shared `RepositoryState`. `controls` is
`_controls`; `pause`, `resume`, `cancel` are the events. `thread[j]` and `at[c]` are
the places of the threads and handlers; a handler keeps the row it read (`seen`).
A step is one database transaction or one look at shared memory. A thread in
`waiting` is released by a `set()` even if a `clear()` follows at once, as with
`threading.Event`. The process may stop between any two steps; only the database
survives. Statuses with and without warnings are one.

**PhasePipeline** (`phase_pipeline`, `phase_contracts`, `artifacts/store`). Several runs
of the phases for one version, by different releases and from different sources.
Files are written by `os.link` and never overwritten; the write succeeds again if the
bytes are equal. An artifact is named by everything it was made from, so that equal
means equal bytes. The phases are not in the repository (its tests define some): they
are modelled as those tests use the pipeline. Files may be lost or damaged.

**ImportSessions** (`services/ingestion`). `session` is the record that all handlers and
the clone thread share; `staged` the entries of the staging directory, each whole or
partly written; `upload[u]` and `confirm[c]` the places of batch and confirm requests, with
the counters a batch read before its first await; `clone` the thread; `repo` what a
confirmation made. An archive is judged and extracted in one step, as in the code, which
does not await there. The thread may fail before its own error handling (`dead`), and a rollback's
move may fail and be swallowed. File names are abstracted to their class, addresses to the tests
that the code makes of them. `Patient` says that clients wait for an answer before they
send the next request of a session, other than a second confirmation or a cancellation.

**AgentWorkflow** and **AssistantTurns** (`agent_workflow_service`, `sufficiency`,
`citation_validation`; `chat_service`, `conversation_memory`, `provider_context`,
`trace_persistence`, both stores). `flow[r]` is the workflow of a request: its plan, calls,
observations, context and outcome. A step ends where the workflow calls a tool, the
database or the provider. `Signals` are a cancellation and the passing of the time limit.
Either may come at any step: `Raised` is a step after which the workflow looks, `Unseen` one
(selection, citation, validation) after which it does not, and whose signals are kept as `late`. The context for the provider is
built (`BuildContext`) before the provider is asked (`Generate`); a turn keeps the revisions its text was made of, and sources may be
edited at any step (`Edit`). Reading the version, the record of a file and the file is one step of `BuildContext`. `index` is the `RepositoryState` that requests read, which the
local profile overwrites in several assignments (`Overwrite`); `row` and
`conversations` are in the database. Whether a search finds something and whether that
suffices are choices.

**ProductionSchema** and **RepositoryDeletion** (`src/backend/migrations/versions/0001...`,
`delete_repository`). Every table and foreign key of the baseline in the order in which it
is created and dropped, with what the key does on deletion. A row is reduced to its
table, the rows it refers to and the repository it belongs to; the five DELETE
statements of `delete_repository` fire the keys, while other processes write. `audit_events` is append-only.

**IndexActivation** and **CandidateValidation** extend `JobStateStore` by what surrounds its
transactions: `files`, `rows` of artifacts, `manifest` at its fixed key, `recorded` in the version's row, `audits`. The
worker may stop between any two of them, and any attempt, live or stale, may write,
register, publish and call `activate`, again too.

**The algorithms.** A module states each algorithm as operators with the steps of the code
and, at its end, what the result must be in terms that do not mention those steps:
`IncrementalPlan` (a build by the plan is a full build), `IncrementalIndexing` over `CodeGraph` (an
incremental graph is a full one up to the imports it is known to lose), `EvidenceRetrieval`
(one rank per chunk and retriever, fusion respects dominance, selection uses its budget,
a stale file costs nothing), `DenseIndex` (what is loaded is of the present chunks),
`GraphViews` (a projection is the nodes within reach and says what it leaves out, pages
partition what they page), `ArchitectureOverview` (every recognised file, edge and step is
shown or cut for a stated reason), `ImpactAnalysis` (each list shows the nearest nodes with their distance in the graph), `CodeFlow` (control
flow is the set of executions, a reaching definition has been executed), `CapabilityReadiness`
(no capability better than what it rests on, the report agrees with the validator),
`LegacyUpgrade` (what is inserted satisfies the schema and keeps what readers saw) and
`LockOrders` (who can wait for whom). `Ordering` is Python's order on tuples. Texts, scores
and floating-point numbers are replaced by small integers with the same comparisons.

`Algorithms` and `MC_Algorithms` hand them their inputs: a run picks an algorithm and gives it its inputs one after the
other, from `Families` (a constant: for each algorithm, the sets that its inputs are from), and the invariants judge
the result of the complete input. `Algorithms` has those that theorems are about, and makes the databases that
an upgrade finds from histories of index runs, stops and questions; `MC_Algorithms` adds the others.

## 3. What TLC checks

Every run, with its module, configuration and properties, is in `PROJECT.json`; so is,
for each property, a mutant of the code's model that the property refutes. Several
properties are conjunctions of named parts, which are defined beside them.

| run | bounds | question |
|---|---|---|
| `job_store` | 2 jobs, 2 attempts, leases of 2 ticks, clock to 3 | is authority single and the budget kept (`Authority`), an outcome final and publication fenced (`Fencing`), pointer and lifecycles consistent (`Publication`), the history of published versions one line (`HistoryIsOneLine`), and every command a step of `IndexJobs`? |
| `delivery_faults` | 2 workers, 3 attempts, 1 crash, 1 duplicate, every fault | does a stale delivery ever change a job's state, is a published or failed version ever decided again? |
| `delivery_timely` | as above with 2 crashes, leases renewed in time, a working broker and database, no cancellation | one runner, no stranded job, and the job settles |
| `views_rows` | 4 version numbers, restarts of both processes, deletion | do pointer, lifecycles, job and the API's copy agree? |
| `phase_resume` | 2 runs of 3 phases, 2 releases, 2 sources, 1 interruption, 1 spoiled file | is a resumed result the one a fresh run gives, do equal runs agree (`ResultsAgree`)? |
| `local_threads` | 2 jobs, a submitter and a handler of the other requests, 1 restart | do threads overlap, is a live job given up, what do readers see, does a cancelled thread end? |
| `imports` | 1 session, 1 batch at a time of up to 4 kinds of files, 2 confirmations, 1 restart, room for 2 of the bytes | has a source one owner, is a repository made of whole accepted files within the quota, does a poller learn the end of a clone? |
| `assistant` | 1 request, 2 published versions, 1 turn, 1 or 3 tool calls, both profiles | does a complete answer rest on tools that kept every limit, is a turn's text of the version it names, does a request end? |
| `deletion` | every table and key, one row per table | does the migration apply in both directions, is nothing left, does a deletion succeed? |
| `activation` | 1 job, 2 attempts, 2 artifact types, candidates that differ in status, issues, readiness, artifacts and edition | is what becomes active validated, stored and registered, and audited once? |
| `algorithms` | families of up to 10^5 inputs each, see `MC_Algorithms` | does each algorithm compute what its reference definition says? |
| `stale_memory` | as `assistant`, 2 turns | see section 5 |

Why the bounds are enough to be interesting. Two jobs are what it takes for one
version to replace another and for the unique pending job to matter; two attempts
make a takeover, and the clock lets a lease run out, be taken over, and run out again.
Two workers are a holder and a late one; three attempts leave room for a crash, a
failed attempt and the last one. Four version numbers let a version be published,
superseded, failed and used again. In the local profile two jobs are one that is
running or orphaned and its successor; the second initial state stands for the rows
that older code left (a repository that says `indexing` with an active version).
Three phases are the shortest chain in which a middle phase changes and a later one
depends on an earlier one as well. Sessions of an import do not interact, so that one
will do; its two files fit one by one and not together, a third is skipped, a fourth
refused, and two confirmations race each other. Requests of the assistant interact through
the published versions and the conversation only, and both change at any step without
a second request. For a deletion one row of each table, with all its references, is the worst case: keys act on
rows one by one. For the algorithms, three or four nodes hold a cycle, a double edge, a
self-edge and something out of reach (and caps of one item make every list of an impact report overflow, as 20 to 30 do in a larger graph; the theorem takes any); three blocks, two files and a limit of two are
enough for one to be left out; three statements with nesting put a definition before,
in, beside and after a branch, a loop and a try; four index runs and questions in one
repository leave every mixture of statuses and old evidence in its database.

`CHECK_DEADLOCK FALSE` is set everywhere because each of these systems may stop: all
jobs ended, no request left, budgets of faults used up, the inputs of an algorithm complete.

**Fairness.** `delivery_timely` uses `FairSpec`: weak fairness of the
publication of the first message (the request handler goes on), of a lease running out
(time passes), of each worker's delivery and of its heartbeat thread (processes run,
and a process that died is replaced by its supervisor, which is why it is the worker
and not one delivery that is fair). Crashes, duplicates, errors and cancellation are
not fair. `local_threads`: a handler that has begun goes on, and a thread that can run
does; requests are not fair. A paused thread has no enabled step, so `CancelEnds` does
depend on `cancel()` setting the event that the thread waits for. `imports`: the clone
thread goes on, since `git` runs under a timeout. `assistant`: a request that has begun
goes on, in its server thread; tools and provider have timeouts. `deletion`: a
transaction runs to its end, and a caller whose deletion was refused sends it again.

**Assumptions.** `local_threads`: one handler submits and one serves the other requests.
Requests do run in parallel in the program, and then the properties that need the
assumption fail; see section 5. The theorems say which need it. `imports`: clients are
`Patient`; without it `RepositoryIsSnapshot` fails.

## 4. What is proved

TLAPS checks these for every value of the constants that satisfies the named
assumptions (`None` is not a job or a status, bounds are natural numbers, budgets and
leases positive, the set of workers is finite).

*JobStateStoreProofs.* The inductive invariant is `StoreInvariant`. `SingleAuthority` alone is
not inductive: a claim gives out the generation after the current one, so one must know
that generations number the attempt rows and that a running job points at the last
(`AttemptNumbering`); `CandidateOutcome` needs that the candidate of an unfinished job
is still being built (`CandidateOpen`), and `CancellationWins` that a durable request
is pending or honoured (`CancellationPending`). From it follow `Authority`, `Publication` and
`CancellationWins`, the action properties `Fencing` (of `TerminalStays`, `FenceHolds` and
`NoEarlyTakeover`) and `HistoryIsOneLine`, and the refinement: initial states map to
initial states and each command to one step of `IndexJobs` or a stutter. For `HistoryIsOneLine` (what was ever published forms
one line of versions, each built on the one before, with the active one at its end) `OneLine` adds that no
version is built on itself; a step that publishes nothing leaves the line alone, and an activation appends to it.

The same module proves the activation, which extends the store. `ActivationInvariant` adds to
`StoreInvariant` that what is stored under the manifest's key has its artifacts on disk
(`ManifestHolds`; neither is ever replaced), and that one activation was audited if the version was
ever pointed at. It gives `ActivatedIsPublished` and `OneAuditPerActivation` for any number of attempts,
candidates and artifact types, crashes and replays. The files, rows and manifest are those of one
version (`VersionAssumption`), and a declared artifact has bytes (`CandidateAssumption`).

*JobDeliveryProofs.* `TypeOK` is strengthened by a count of the messages there can be
(`MessageBound`). `LeaseOrder` says that each lease generation went to one delivery; with it
`AuthorityKept` holds under every fault; so does `VersionDecidedOnce`, since only one delivery at a time is between
the two steps of a publication, and the version it read can meanwhile be cancelled but not be published or failed (`OneWriter`). If leases are renewed in
time (`Timely`), whoever runs holds the current lease (`Held`), which gives `OneRunner`;
`PublicationOrder` gives `SuccessIsPublished`; and without broker and database faults
and cancellation `Attended` gives `JobAttended`: an unfinished job has a message or a
worker.

*RepositoryViewsProofs.* `ViewsInvariant` adds to the invariants of the run where a worker's
run stands relative to the latest job and its target version.

*LocalIndexingProofs.* `IndexingInvariant` (types, `Numbered`, `Committed`, `Requested`) gives
`ExposedIsStored` for any number of handlers that may submit at the same time.
`OneIndexerHolds` assumes `OneSubmitter`. Its invariant `Exclusion` follows a submission: it
saw the last job (`Looking`: nobody saves another meanwhile), found it finished or
without a control, and a thread keeps its control until it is gone (`LiveIsControlled`) and
its row active while it works on the last job (`WorkingIsLast`), so that from there on no
thread works (`Alone`) until the new one starts (`Preparing`); the requests that save rows
they read before do not revive or end a job behind its back (`Others`). `ReadableStaysHolds`
rests on `Retained`: what a failed or cancelled job will put back is what is there (`Restorable`), a
job of a first index is the only one (`FirstIsAlone`) and is not taken for an orphan
(`NothingFirst`), and a repository is "indexed" exactly when it has a version (`Exposed`).
It says nothing after a status request has failed a job too early (`misjudged`, section 5).

*AssistantTurnsProofs.* `AssistantInvariant` gives `AnsweredOnTimelyTools` and `TextIsOfItsVersion` for any
requests, conversations, signals, budgets and publications; assumed is that `None` is none of the
reasons and outcomes. A workflow is `Sound`: as long as no stop reason is recorded no
signal has been raised and every counted call but the one under way is observed as completed
(`OnTime`), a context that is to be answered from is strong, and in production its chunks are of the
version it searched. `EvidenceKept` and `TurnsKept` carry this to the stored evidence and turns; what was
sent to a provider is of the version that the answer cites until its turn is stored (`SentKept`), and a turn is stored only while
that is the repository's version (`PersistKeeps`).

*PhasePipelineProofs.* Artifacts nest, each in the keys of the next, so the proof goes along the phases.
`After(rel, s)[k]` is what a run from nothing has after `k` phases; `AfterEquations` gets its
recursion equations from the definition. `FreshInv` says that every run holds `After` of its
own release and source at the place it is at (`OwnPool`), and that a checkpoint which is not
damaged holds the output of the very key in it (`Honest`): whoever wrote it, a run that finds
its own key there may take the output. This gives `ResultIsFresh` for any phases, runs,
failures and damage. For `ResultsAgree`, `SharedInv` adds that without damage what a run has
behind it is in the store (`Held`, `Stored`), that a checkpoint's output is (`Backed`), and that
a refused run was refused by an artifact of another release or source (`Refused`). This also assumes
that no artifact is `None` and that each phase makes types of its own (`OutputAssumption`), as
those of the tests do, the only ones there are; the registry checks less.

*ImportSessionsProofs.* `SourceHasOneOwner` and `RepositoryIsSnapshot` hold for any sessions,
requests, restarts, quota and finite set of files under the hypothesis `Patient`, with which the
run checks them too: without it a batch may arrive behind a completion, and TLC refutes both.
`OwnerInv` follows the source of a session: once it is offered nothing acquires it any more, or will
again (`Settled`: no clone thread, no batch), what a confirmation has taken is not in staging
(`ConfirmInv`), and unless one has it a session that is ready has its source there, also
after a rollback, or the repository has it whose rollback failed (`SessionInv`). `SnapshotInv` says what is in it:
while it is uploaded, the files that are counted, complete, and those that batches are
writing (`Assembled`); a clone thread's, by the place it is at; once it is offered, a `Snapshot`, and
so is what a repository has taken (`RepoInv`). That the quota is kept needs facts about the sum of sizes,
which the community modules define by recursion: `BytesEquation` is its equation, `BytesAdd` and `BytesMonotone` what a file more or fewer does.

*AlgorithmProofs.* `AlgorithmInvariants` has the terms and invariants of these proofs. The algorithms of `Algorithms` do for every input what TLC checks on families of small
ones: `PlansAlwaysAgree`, `ReadinessIsAlwaysSound`, `ImpactIsAlwaysDistance`, `RecordsAreAlwaysWhole`,
`EvidenceIsAlwaysFair`, `ViewsAreAlwaysHonest` and `WorkersNeverWaitInCircle` say so of the specification, for all `Families` that `FamiliesAssumption` allows
(infinite ones too) and any number of open transactions. The invariant `GivenInv` says that what was given so far is of the families,
or that the transactions can be open at the same time. What remains is one theorem per algorithm, whose
hypotheses say what an input is. `IncrementalBuildIsFull`: the plan is incremental only if one step of
dependents beyond the depth limit adds nothing, so what it rebuilds is closed; then a file it reuses, and
all that file reads, however far, is unchanged and read in both snapshots (`ReusedUsesAreUnchanged`), and
as many steps as there are files reach all of it (`UsesSaturates`). A snapshot is finite (`IsSnapshot`). `AcceptedAreOrderable`, `ReadinessIsGrounded` and
`ReportsMatchValidator` take finite sets of capability specs, the last two accepted ones: a capability is
reached in a round after all it uses, and in that order its state is shown to be what its closure allows.
`WorkersNeverDeadlock` takes any set of transactions that hold a first part of their rows and wait for the
next (`UnderWay`): whoever locks a job before the repository keeps to the rows of that job, and of two that
wait in a circle one would have to wait for a row it holds. `UpgradesAreWhole` assumes finitely many
records and version numbers from 0 (`IsLegacy`). That a database of the local profile is one, keeps its index and
is refused only for old evidence rests on an invariant of the events in a repository
(`LocalInv`: completed jobs have different versions, and none is newer than the current one). `GraphsAreClosed` takes paths that are not empty and modules of
files that exist (`IsRepository`): each stage adds nodes for the edges it adds. `ReferencesAreDrawn` also
takes one module per file and one place per definition (`IsParsed`).

`ReportsAreDistances` is about a breadth-first search, over finite closed graphs (`IsGraph`). Its invariant `LevelInv`
says that the queue holds entries of two distances that follow each other, in this order, each with its true distance
(`Exact`); that everything as near as the smaller one is known; and that a neighbour may be unknown only of a node that is in the
queue, or is being visited. When no entry of the smaller distance is left, the invariant holds of the next one
(`NextLevel`). That the loop ends follows from a count: a visit adds to the queue what it adds to the
hits and takes one away (`Surplus`), and a node is a hit once (`HitsAreFew`), so that after as many rounds as there are nodes
the queue is empty; the model allows twice as many. What a report shows is a beginning of a list that is sorted by distance first
(`MeritsSort`), in which each thing is represented by its nearest node (`UniqueRepresents`), so what does not fit is not nearer than
what does (`FirstAreNearest`): for any caps.

Retrieval, fusion and selection sort by tuples of numbers. That Python's order on them is one
(`TuplesAreOrdered`) and that the places in an order are the numbers from 1, each once (`PlacesAreRanks`), makes a sorted list
have each element once, in order (`SortedIsSorted`), and a retriever's ranks distinct
(`RetrieversRankOnce`). `FusionIsFair` adds sums over finite sets, of which the equation is proved by
induction (`TotalEquation`) and from it that they do not depend on the order and grow with the set
(`TotalMonotone`): a chunk that all retrievers of another one rank higher has those voters and more, and each gives
it as much. A score is compared as the model's integer multiple of the fraction. `SelectionIsFair` follows the
admission of one block after the other with the invariant `AccountsFor`: what is selected and what is refused are
the blocks so far, each once, the tokens add up, and a block refused for its tokens still does not fit,
because the tokens used only grow. If tokens are no limit, what is taken is a beginning of the order (`AllAreTaken`),
and that begins with one block of each file (`NewComesFirst`). `StaleSourcesAreNoLoss` compares two admissions that
differ in what is refused only. `LoadedIndexIsCurrent` is about the dense index: every chunk is in one of the
batches, so that a vector in it is that of an answer of the provider. The hypotheses are finite sets of numbered chunks with natural scores
(`IsFound`), limits that are natural numbers, and a batch size that is not 0.

`ViewsAreAlwaysHonest` is about finite closed graphs with the types a normalized graph has (`IsViewGraph`) and requests
and limits as their validators leave them, without their upper bounds (`IsViewRequest`, `IsServer`). A layer of the
traversal is what walks of at most so many steps reach, by induction, so that a node's distance is that of its shortest walk,
and `OrderedNodes` puts it behind all shorter ones: `ProjectionsAreHonest`. `PagesLeadToNeighbours` follows the
offsets: as long as a page is not the last, the next offset is the number of neighbours shown so far, and it
grows, so that no more pages are asked for than there are neighbours; an offset of the ordered list
shows the places after those of the page before. `SeedPagesAreWhole` is the same of a ranking (the pages up to the
k-th are its first k pages, by induction). `SeedsSpan` takes that the order of dependency seeds begins with one node of each
region, all of them different, and that a beginning of such a list has as many regions as it can.

*Induction.* The induction theorems of the library take an operator, which the provers cannot
instantiate. Induction is therefore stated of sets, as `SetInduction` (numbers) and `FiniteInduction`
(finite sets), proved from the theorem that strict inclusion of finite sets is well-founded; a
property is given to them as the set of those numbers, or sets, that have it. A function that an algorithm
defines by recursion is a CHOOSE to the provers: the equations get a solution (`Iterate`), any solution is
that one, by induction, and so the chosen one is.

Only model-checked: liveness (`JobSettles`, `CancelEnds`, `AcquisitionEnds`, `RequestsEnd`,
`DeletionSucceeds`), which needs fairness, and `GraphsAreExact`, since `CodeFlow` uses RECURSIVE operators, of which
nothing can be proved here. So does `ProductionSchema`; but `RepositoryDeletion` has no parameter, its
run is the whole state space of one row per table, and a proof would cover no more.

## 5. Where code and documents disagree

One disagreement has a run of its own, `stale_memory`: answers of older indexes stay in the
memory of a conversation whose latest message is current (`conversation_memory:69` against its docstring, `:65`).

Others are stated as properties too. They are false of the code; TLC shows it when the
named property takes the place of those in the run's configuration, with the constants
given here:

| property | configuration, and what to change | what happens |
|---|---|---|
| `JobDelivery!CancelledNotPublished` | `MC_JobDelivery_timely`, `Cancellable = TRUE`, `Spec` | a cancelled job's version becomes active, since `save_repository` (`production_repository_store:89`) does not read the request; `src/docs/05-domain-contracts/indexing/detailed-indexing-pipeline.md:82` says "Cancellation stops at a safe boundary and never publishes." |
| `JobDelivery!FailedNotPublished` | `MC_JobDelivery_timely`, `MaxAttempts = 2`, `Spec` | a worker dies between publication and completion, and the last attempt fails: a failed job with an active version (`:97`; the same document, line 83) |
| `JobDelivery!CancellationSettles` | `MC_JobDelivery_timely`, `Cancellable = TRUE` | a cancellation followed by an indexing error leaves the job running for ever (`job_delivery_service:188`); with `RunnerFails = FALSE`, two attempts and one crash the property holds |
| `RepositoryViews!WorkerFindsRepository` | `MC_RepositoryViews_rows`, `Restarts = FALSE` | a worker does not know repositories imported after it started (`repository_service:45`) |
| `RepositoryViews!OnlyUnpublishedFails` | `MC_RepositoryViews_rows`, `Restarts = FALSE` | the first status poll after a first index marks the repository failed in the API (`indexing_service:350`, against the comment at `:348`) |
| `ImportSessions!CancelledIsClean` | `MC_ImportSessions` | a cancelled session keeps its staging directory, when a batch or the clone thread recreates it or the thread overwrites the status; `src/docs/06-api-and-integrations/specifications/detailed-rest-api-contract.md:158` says "Cancellation/expiry cleans staging idempotently." |
| `RepositoryDeletion!AuditSurvivesCleanup` | `MC_RepositoryDeletion` | the append-only trigger rejects the SET NULL of the audit row's key, so that a repository with one can never be deleted; `src/docs/04-domain-and-data/postgresql-physical-schema.md:427` says that security history survives the cleanup |

The models show more, which a property here excludes by name or an assumption excludes.

Production profile.
- A superseded worker may publish: `save_repository` has no lease predicate
  (`production_repository_store:89`).
- `save_repository` reads the lifecycle by a plain SELECT and writes it by id at READ COMMITTED
  (`production_repository_store:97`, `118`), and the cancellation of a queued job takes no lock on the repository
  (`job_state_store:406`): between the two a late worker makes a cancelled version active, although
  `VERSION_TRANSITIONS` has no such step. `VersionDecidedOnce` allows this case and no other.
- A late progress write of a superseded worker may settle a job that was queued for its
  next attempt, since the row has no current attempt then (`:647`).
- A message lost by the broker is not sent again (`job_delivery_service:198`), nor is the
  message of a delivery whose live worker lost its lease.
- A failed first index blocks the next one until the API restarts
  (`indexing_service:246`), and the next job then reuses the version number (`:261`).
- Deleting a repository during a run: `save_repository` inserts it again (`:137`). A row
  written between the statements of a deletion makes it fail (`:139`).
- `activate` and `save_repository` lock the repository before a job, the worker's commands a
  job before the repository: the two can wait for each other, and PostgreSQL then aborts one.
- The transcript shows the two messages of a production turn in the order of random ids.

Activation.
- The manifest's key is fixed and its timestamps differ between attempts: after a crash
  between publication and activation every retry is refused (`activation_service:50`).
- `register_artifact` checks neither lifecycle nor lease, and a stale worker may publish its
  manifest first; then the right one is refused.
- The validator refuses a candidate when an optional capability lacks an artifact
  (`validation_service:130-135`), although the report allows activation; compare
  `src/docs/08-reliability-and-operations/specifications/error-handling-and-fallback.md:64`.

Local profile.
- Two submissions at a time are both accepted (`indexing_service:205-215`, `273`).
- Two control requests at a time can lose a wake-up: `pause()` clears the event that
  `cancel()` just set (`49-59`).
- `pause`, `resume` and `cancel` save the row they read, over the outcome of a thread that
  ended meanwhile (`163`, `175`, `198`); a submission may retire such a row of a
  completed job.
- A status request between the save of the completed job (`579`) and the exposure of its
  version (`297`) marks job and repository failed; `ReadableStays` excepts this as
  `misjudged`.
- The process stops between the saves of job and repository (`331`, `332`): the
  repository says `indexing` and refuses every new job.
- A metadata save between the commit and `replace_repository_index` writes the old
  version number back (`274`).
- A job whose row says completed no longer keeps the next one out, although its thread has
  not committed yet; if it is slow it replaces a newer index by its older one (four jobs,
  beyond the exhaustive bound).
- An incremental re-index loses the imports between changed and unchanged files until the next
  full one (`616-620`, `633-647`), may resolve an ambiguous import within the changed files, and says
  `indexed` although an unchanged file failed to parse (`489`);
  `src/docs/05-domain-contracts/indexing.md:14` asks for the result of a full index.
  `GraphsAreExact` says exactly what is lost.
- The upgrade to the production schema refuses every database in which a question was answered
  before a re-index, because old evidence names files that are gone
  (`db/legacy_upgrade:180`, `243`), although it maps stale evidence; completed and paused jobs become failed (`251`), and a
  queued one has no message and blocks new jobs.

Imports.
- The clone thread overwrites the status of a session cancelled meanwhile
  (`import_session_service:371`, `393`).
- A rollback whose move fails says nothing (`676-677`): the source stays with a repository that was not
  stored, and the session is offered and can never be confirmed. `SourceHasOneOwner` says that the source is
  nowhere else. Directories that are removed are taken to go.
- The clone thread makes its directory before its `try` (`363`, `366`): an error there leaves the session
  "preparing" until somebody cancels it. `AcquisitionEnds` excepts this case (`dead`).
- Batches that overlap forget each other's bytes, so that the quota can be passed (`222`, `257`).
- A refused batch discards the session, though completion asks to "Retry the missing
  batch" (`282`). Staging directories are orphaned by a restart.
- `create_repository` may fail after it made the repository known in memory; the source is
  rolled back and the entry stays.

Questions.
- A request of the local profile can read the new version with the old files
  (`repository_service:89-105`); evidence is then refused.
- The limits are looked at last after the last tool call (`209`, `328`). A cancellation or the time limit that comes
  during the selection, the citation or the validation of evidence (`235`, `354`, `396`) changes nothing: an answer
  called complete may be older than `max_elapsed_ms`. `AnsweredOnTimelyTools` is about the tools.
- The service's own text of a local turn may quote chunks of the version before, when an index is being replaced
  (`repository_service:89-105`); text of the provider may not (`TextIsOfItsVersion`).
- An error of the repair other than `ValueError` escapes the workflow (`agent_workflow_service:304-361`).
- A turn is appended to a conversation deleted meanwhile.
- `provider_calls_used` counts accepted calls only (`trace_persistence:299`), and `ChatService` never passes a
  cancellation.

Algorithms.
- A node with an edge to itself: its neighbour pages never say that nothing remains; with
  `max_nodes = 1` a page has no room for a neighbour (`graph_projection_service:843-846`).
- One repeated definition drops every resolved edge of its module (`graph_candidates:209-213`).
- The control flow of `raise` inside `try` leads to the exit; `break`, `continue`, `try ... else`,
  `finally`, loop `else` and the bodies of `with` have none of their own. `GraphsAreExact` is about programs without
  them.
- A definition made in both branches is forgotten after them.
- A data model or endpoint component whose id is taken is dropped (`engine:118`), relations may
  point at components cut at the 28th, and file counts name the first owner only (`193`).
- The dense index's builder reads the provider's identity once; a model replaced by one of the
  same dimension between two batches goes unnoticed (`dense_index:148-158`).
- The lists of an impact report are cut at 20, 30 or 25 items without a flag (`impact_analysis_service:71-76`), so
  that not all that is affected is reported. `ImpactIsDistance` says that what is left out is not nearer than what is
  shown. The queue is given several targets in any order, and ties of type and label are broken by the order of the search.
- The content of a chunk is not compared with the lines it is cited from (`selection:207`).

Phase pipeline.
- A damaged checkpoint file stops every later run at the same name
  (`phase_pipeline:174`, `artifacts/store:150-161`), while
  `src/docs/16-agent-tasks/indexing/IDX-002-typed-indexing-phases-and-checkpoints.md:54`
  says that a corrupt checkpoint restarts from that phase.
- `run` returns checkpoint references only when it succeeds, so a caller that wants to
  resume has to rebuild them.

## 6. What is not modelled, and why

- The access service: its correctness is a matter of security, which this development leaves
  aside. Its tables and keys are in `ProductionSchema`.
- Scanning, parsing and chunking, enrichment, text classification and the rules that name a file's
  role: text in, records out, by regular expressions and other libraries' syntax trees,
  with no state between calls. What comes of them is any input of the modules behind them.
- Ranking scores and vectors: floating-point numbers are out of TLC's reach; only their order
  matters to what is checked.
- Evaluation is offline measurement. API routes, schemas and settings are wiring and field
  validation. The frontend keeps view state over server queries.
- Read models of the repository service (overview, reading path, staleness) compute a response and
  keep nothing; most of `build_architecture` follows a `return`.
- The synchronous index request, deletion during a local run, the migration `0002`, columns and
  checks of the schema, `transition_job` and `transition_version`.

## 7. Plan

1. The job state store composed with `JobDelivery`, so that the delivery's lease has a time.
2. `DeleteRepository` in `LocalIndexing`, beside a thread.
