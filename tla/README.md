# Causix in TLA+

Causix analyses a reported software issue: an HTTP service accepts an issue,
runs a pipeline of reasoning agents over deterministic engines (call graph,
logs, Git history, architecture diff, impact analysis), proposes a fix and
validates that fix in a sandbox. This directory models the parts of it whose
correctness depends on the order of events, on failures, on time and on what
several actors do at once.

Paths below are relative to the implementation, `src/src/` of this repository.

## 1. Inventory

| Component | State it keeps | Operations | What makes it correct |
|---|---|---|---|
| Validation run (`validation/orchestrator.py`, `docker.py`, `environment.py`, `dependencies.py`, `runner.py`, `revision.py`) | one `_Run` per validation: prepared checkout, environment, dependencies, application, recorded facts; outside the process: checkout, network, containers, image, application | preflight, prepare, start dependencies, create environment, build, start application, test, clean up, evaluate | a PASSED verdict was earned; every step is bounded; nothing it owns is lost without a trace; the container goes away whatever happens |
| Verdict (`validation/evaluator.py`, `executor.classify_exit`, `models.test_result`) | none | classify, evaluate | agrees with its documented precedence |
| Command execution (`validation/executor.py`, `logs.py`) | a process, two pump threads, two bounded buffers | run, append, text | output is bounded, its head and tail and the dropped count fit together; timeout and exit are told apart |
| Snapshot store (`architecture/store.py`, used by `analyzer.py`) | Neo4j: one header per revision, entities, relationships; `_schema_ready` | ensure_schema, save, load, revisions | a revision is written once, never mixed, and answers are true |
| Architecture comparison (`architecture/analyzer.py`, `diff.py`, `builder.py`, `snapshot.py`) | the builder and the two snapshots while it runs; the store, if one is used | resolve, load or build, save, diff, pair renamed APIs | each difference is reported once; facts that could not be read are never reported as changes |
| Architecture extractors (`architecture/extractors/`) | a snapshot being built | compose, code, manifests, declaration, in this order | what one extractor finds refers to what earlier ones found; a file that is not understood is named, never guessed |
| HTTP service (`api/`) | jobs, engines (chosen lazily), indexed locations, repository path, retriever, interim call graph | analyze, status, result, report, index, search, run_job | a job reaches one final state; a result exists exactly when COMPLETED; what an analysis reads belongs together |
| Analysis pipeline (`reasoning/orchestrator.py`, `reasoning/agents/`) | the result under construction | nine steps | a step that fails keeps what earlier steps found; claims are grounded in evidence |
| Engine integration (`reasoning/integration/`) | chosen engines, location index | build_engines, resolve, run scenario | a location resolves to one indexed item or stays as it is |
| Retrieval (`reasoning/retrieval/`) | vector store | index, search, fuse | re-indexing replaces; fusion merges one location into one item |
| Code graph (`graph/`) | Neo4j nodes and relationships | ensure constraints, MERGE nodes, MERGE relationships | ingestion is idempotent, also after a failure half-way |
| Impact analysis (`impact_analysis/`) | none (read-only over the graph) | resolve, traverse, trace services, APIs, events, tables and downstream services, find tests, assess coverage | every item has evidence in the graph, limits are respected and said, RESOLVED means all |
| Root cause analysis (`rca/`), fix localization (`fix_localization/`) | none (read-only over the graph) | traversal, scoring, ranking | traversals terminate on cycles and respect their limits |
| Parser and relationships (`parser/`) | none | parse, resolve names, calls and imports | a call leads only to a definition Python could reach |
| Repository facts (`repository.py`, `repo_ingestion/`), Git history (`git_history/`) | none | four readings of the working tree | what is read belongs to what is written |

How they interact: `api` creates a job per analysis and runs the pipeline in a
background thread; the pipeline calls agents (an LLM) and engines; the scenario
runner calls the validation orchestrator; the architecture provider calls the
comparison, which may use the snapshot store; ingestion writes the graph that
impact and root cause analysis read, and may do so while they read it; `/index`
replaces what the pipeline of a concurrent job is reading. Several processes
share one Neo4j.

The hard behaviours, each with its line in the code and the properties that
cover it, are listed under `hazards` in `PROJECT.json`. In short: calls that
fail after they had their effect, cleanup that fails half-way, a budget that
ends between two steps, a process killed at any point, check-then-create races
between processes, multi-transaction writes read in the middle, and shared
state replaced one part at a time.

## 2. Modules

| Module | Models | State |
|---|---|---|
| `ResultEvaluator` | `classify_exit`, `evaluate`, `test_result`, and the documented precedence as a separate definition | done |
| `ValidationRun` | one call of `ValidationOrchestrator.validate` and the world it drives | done |
| `ValidationRun_proofs` | two inductive invariants and eight theorems: every safety property of the run | done |
| `SnapshotRegister` | the contract of the store: a write-once register with truthful answers | done |
| `SnapshotStore` | `ArchitectureSnapshotStore` and `snapshot_of`, several clients on one database | done |
| `SnapshotStore_proofs` | inductive invariant, four theorems and the refinement of `SnapshotRegister` | done |
| `Grounding` | `ground` and `resolve_location`: what is kept of a model's answer | done |
| `Grounding_proofs` | whatever the model answers, the result is grounded | done |
| `AnalysisService` | the HTTP service, its jobs and the nine steps of the analysis pipeline | done |
| `BoundedBuffer` | `BoundedBuffer` and `truncate_text`: head, tail and dropped count | done |
| `ProcessRun` | `run_process` and the background process of the local environment: pump threads, pipes, process group, timeout, joins | done |
| `CodeFacts` | module names, import lookup, call resolution, identities, and the mapping of a repository to nodes and relationships | done |
| `GrowOnlyGraph` | the contract of ingestion: a graph that only grows, without dangling relationships, whose answers are true | done |
| `GraphIngest` | `build_repository_facts` and `ingest_repository`, several clients, a working tree that changes | done |
| `ImpactRules` | the caller graph, routes, and capped paths, as pure functions | done |
| `ImpactAnalysis` | `analyze_impact`, query by query, over a graph that grows | done |
| `ArchitectureFacts` | the snapshot builder and what each extractor adds | done |
| `ArchitectureChanges` | `detect_architecture_changes` and the diff engine, several comparisons sharing a store | done |
| `MCValidationRun`, `MCSnapshotStore`, `MCAnalysisService`, `MCProcessRun`, `MCGraphIngest`, `MCImpactAnalysis`, `MCArchitectureChanges` | the small instances TLC checks | done |
| `ProcessRun_proofs` | `OutputIsTrue` and `OutcomeIsTrue`, for every limit, pipe size and chunking | done |
| `AnalysisService_proofs` | inductive invariant and six theorems: every safety property of the service | done |
| `ArchitectureChanges_proofs` | inductive invariant and four theorems: what a snapshot is, and that the diff tells the difference, no more, and the same in both directions | done |
| `GraphIngest_proofs` | inductive invariant, three theorems and the refinement of `GrowOnlyGraph` | done |
| `ImpactAnalysis_proofs` | two inductive invariants and six theorems: every safety property of the analysis | done |

The project keeps to few runs, so that all of it can be checked in one go.
A run therefore asks everything it can of one state space: faults, where a
model has them, are part of a request (`ValidationRun`) or of a job
(`SnapshotStore`), so that the same run explores behaviours with and without.

`ValidationRun` extends `ResultEvaluator`, and `ProcessRun` that and
`BoundedBuffer`; `AnalysisService` extends `Grounding`, `GraphIngest` extends
`CodeFacts`, `ImpactAnalysis` extends `ImpactRules`, `ArchitectureChanges`
extends `ArchitectureFacts`. `SnapshotStore` instantiates `SnapshotRegister`,
and `GraphIngest` instantiates `GrowOnlyGraph`, with a refinement mapping.
Where components meet, the models use the abstract side of the other one:
`ValidationRun` takes of a command the result `ProcessRun` shows it has
(`CommandRun` of `ResultEvaluator` is shared), after its timeout and the joins
of its pumps; `ArchitectureChanges` has the three writes of the store and what a
save that broke off leaves of them, but calls one after the other, as the races
of calls are those of `SnapshotStore`; `ImpactAnalysis` reads a graph
that grows as `GrowOnlyGraph` says ingestion makes it grow. `AnalysisService` takes the verdict of a sandbox run as any of the
verdicts `ValidationRun` can reach, and the outcome of an architecture
comparison as success or failure, which is all the pipeline looks at.

## 3. How the models correspond to the code

### ValidationRun

The orchestrator is one sequential thread. `pc` names the call it is about to
make: `preflight`, `prepare`, one step per dependency, `env`, the calls inside
`DockerEnvironment.create`, `build`, `start` and the polling loop, `tests`, and
the steps of `_collect_and_cleanup`. `data` (error, overall timeout, build,
startup, tests) are the fields of `EvaluationInput`; `held` says which fields of
`_Run` are set, and with that what cleanup will touch; `live` is the outside
world. Each action is one call with every outcome its code distinguishes: the
result, the exceptions it can raise, and how long it took. `Raise` and `Return`
are the `except` and `finally` of `validate`. A fault `orphan` lets a creation
call fail although the daemon created the thing, `cleanup` lets a removal fail,
`kill` ends the process between any two calls. Which of them may occur in a run
is the field `faults` of its request (nothing of the code's: it makes a run
with an orderly world part of the same state space). Time is an integer clock that a
call advances by up to its own bound; calls the code does not bound (git,
testcontainers) advance it by up to `Slow`, and `CallsUnbounded` marks the
steps in which they may hang. A command, a Docker one included, is a call of
`run_process`: however it ends, the two pumps are joined for up to five seconds
each before it returns (`executor.py:139`). `JoinT` is what that may add, also
to a command that ran into its timeout. A probe that meets an exception
`probe_http` does not catch (`http.client.HTTPException`, for a server that does
not speak HTTP) ends the step as an unexpected error with either backend. The
startup log is read right after the startup, by a call that is not under
`_safely` and may raise (`StartupLogs`).

Left out: the log collection of cleanup (reads, guarded by `_safely`), messages,
names of failed tests. A probe over the network is taken to last no longer than
its timeout, although that is the timeout of each of its reads.

### SnapshotStore

Each client is a process with its own store object (`ready` is
`_schema_ready`). A job is `snapshot_of` for a list of revisions or a direct
`save`. `LoadHeader`, `LoadEntities`, `LoadEdges`, `EnsureSchema`,
`CheckStored`, `CreateHeader`, `CreateEntities`, `CreateEdges` are one
transaction each, in the order of the code; `Fail` is a call that raises or a
process that dies, in a job that says it may, and what was committed stays. Entities and relationships of
one save are one element each, as the code writes each of them in a single
transaction. Two snapshots are the same when their facts are: `content_hash`.

### ProcessRun and BoundedBuffer

Three kinds of actors. The calling thread (`pc`) goes through `spawn_process`,
`wait`, the kill of the group that always follows, `wait` again, two joins of
five seconds, the two texts, the result, and `LogCollector`; or, for the
background process, through `logs()` and `stop()`. Each pump reads a chunk of
any size, appends it, and ends at the end of the file, which comes when no
process holds the pipe (`holders`). The processes (the command, a child in its
group, a daemon that has left it) write, close or redirect their output, fork,
exit, die of SIGTERM or ignore it; a daemon that redirected its output runs on
after `run_process` returned, with every pump ended. A
timeout is an outcome of the wait that may occur at any time, also after the
process has exited; a join may give up at any time. A byte is numbered by its
place in its stream, so that a buffer can be compared with what was written.
Left out: a kill of the group that is refused (`PermissionError`,
`executor.py:77`), which takes a command that changed its user.

### GraphIngest, CodeFacts and GrowOnlyGraph

A client's `step` names the reading or the transaction that comes next. `tree`
is the state of the working tree, which `EditTree` replaces; `read` says which
state each of the four readings (file names, parsed files, call bodies, Git
history) found, and `BatchOf` computes the batch from these four, with the
identities, name resolution and filters of `mapper.py` and `relationships.py`.
`Merge` is one transaction of the queue, the set of queries that are left: one
per label, then one per kind of relationship, in a fixed order (`Precedes`); a
relationship is only merged when both ends are there, as its query MATCHes
them. `Fail` is an exception or the end of the process before or
after any step. A file is its definitions, imports and calls in source order;
paths are sequences of names. The refinement maps a client's batch and whether
it was told so; a merge is `Add`, a summary `Tell`, a failure or a new batch
`Take`.

### ImpactAnalysis and ImpactRules

Each action is a query of `analyze_impact` (or a group of queries whose results
only meet afterwards) with what the code makes of its rows; between any two of
them `Grow` adds a relationship, as a concurrent ingestion would. `found` is the
rows of the traversal with the level they came in; `routes` the paths to the
nodes, classes and files; `kept` the capped paths, `items` what is reported,
`notes` the unresolved items. Which of several paths a limit keeps depends on
the order of rows: the model takes one order. A caller's label, class and file
come from its node, which does not change. Two assumptions say what the ids of
the graph are: what `CodeAssumption` says of classes, files and test functions
is that none has the id of a method or a function, and `GraphAssumption` that
a node has one label and that only methods and functions call them.

### ArchitectureFacts and ArchitectureChanges

A file of a tree is a kind, whether it can be read, and its items; an
extractor's action adds to the draft what its code adds for each item, in the
order of the files, against what the draft already holds. A fact is kept with
where it was seen (file and value), as `builder.py` merges evidence. The diff is
a function of two snapshots: pairs of APIs, changes of entities, changes of
relationships, and of those the ones held back as unknown.

A call says which service the repository is and which others it knows of
(`call.context` for `service_name` and `known_services`); the store is keyed by
the revision alone, so a snapshot built for one call is used by another with
other arguments, and each snapshot has the `service` it was built for.
`writes[r]` counts the transactions of `save` made for a revision: the header
with what is unresolved, the entities, the relationships, of which the last is
left out when there are none. `SaveNextPart` is one of them; `Fail` is an
exception of the database, of Git or of an extractor between any two steps of a
call, which nobody catches. It leaves `Written(draft, n)`, and the next call
that finds the header takes it for the snapshot (`UseStored`). Calls follow one
another: two at once, and loads between two writes, are in `SnapshotStore`.
Left out: the commits attached to a change, confidence and wording.

### AnalysisService and Grounding

`request[w]` is what thread `w` is doing: the step, the engines its request was
given, and the result so far. The shared variables are the module globals of
`api/main.py` and what they hold: `engines`, `callGraph`, `locations`, `path`,
`store`, `graph`, `jobs`. `get_engines` is three steps (check, build, return of
the global), `/index` is one step per part it replaces and one per chunk where
the code adds chunk by chunk, `search` is the start and the end of an iteration
over a dictionary, and each of the nine pipeline steps has the outcomes of its
code: a result, an `AgentError` that becomes a note where it is caught, any
other exception that ends the job. A model's answer is any member of `Answers`.
The text of a function is represented by the repository it came from.

Left out: requests that only read (`status`, `result`, `report`, `search`),
requests refused before they change anything (not a directory, no LLM
configured), more than one engine fact per analysis, the content of prompts and
reports. The Milvus store has no iteration to disturb; the in-memory store is
modelled. Jobs are in memory only, so a restart loses them all, as
`api/jobs.py` says; nothing is recovered and nothing is modelled of it.

## 4. Runs

All bounds are constants of the `.cfg` files or of the MC modules.

| Run | Shows |
|---|---|
| `run_safety` | the verdict is earned and follows the documented precedence, commands start within the budget and overrun it by their joins at most, what is left behind is known and, without faults, nothing is, the container outlives its commands, cleanup masks nothing; a run ends, and its container goes away also when the process is killed |
| `store_safety` | one snapshot per revision, `True` means complete, loads never mix, the store implements the register, and a save that does not fail completes what it began |
| `service_safety` | claims are grounded, missing parts are explained, `/index` is whole when it answers and nothing overlapped it, jobs move forward |
| `service_liveness` | every job ends |
| `process_safety` | the buffers hold exactly the head and the tail of what was written, of a stream whose pump was not given up on the result has everything and nobody can write to it any more, no member of the group survives, exit code and log tell how the command ended |
| `process_liveness` | `run_process` returns, writers are never stuck, output is read to its end once nobody holds the pipe |
| `ingest` | a summary is true, calls reach what Python would reach, the graph keeps its contract |
| `impact` | paths exist, callers and their depths are right while the graph grows, RESOLVED means all, unknown categories are empty |
| `diff` | the changes are the difference, told once; none is invented because a file could not be read, because a stored snapshot was built for another call, or, beyond what was never written, because its save broke off; the comparison is symmetric |
| `store_identical`, `ingest_relative`, `diff_unknown` | see section 7 |

Why the bounds are enough:

- *Validation run.* The timeouts are small integers (budget 3, steps 2, polls 1)
  chosen so that a step can end before, at and after the deadline, and two steps
  can use up the budget together. Nine requests cover each optional part both
  present and absent, both back ends, zero to two dependencies, one and two
  tests, and each readiness kind; a third test or dependency would repeat the
  loop that two already enter, repeat and leave. `JoinT` is 1, so that
  a command clipped to the budget can overrun it. `Grace` = 4 is the least that
  suffices: a start or liveness check that begins in the last unit of the budget
  and what follows it (section 6).
- *Store.* Two clients and two revisions are what a race and a mix-up need;
  the contents differ per revision and, for one revision, per client, with and
  without relationships. A client begins jobs for ever.
- *Service.* Two threads, one analysis, `MaxIndexings` = 2 index requests. One
  analysis suffices as analyses share nothing but the job store, which is a map
  by id. Two index requests give one before or during an analysis and a second
  one of the other repository, or two that overlap. The two locations are each
  other's loose form. `Mode` is `auto`, where both choices of engines can occur
  in one behaviour, and `real` in the liveness run, where the choice can fail.
  Threads are interchangeable, so the safety run uses symmetry; the liveness
  run does not.

- *Processes.* Five bytes of stdout overflow a limit of four (head one, tail
  three) and of zero, the edge of `data[-tail:]`. stderr
  has one byte: it runs the same code and needs only to be able to block its
  writer. The pipe holds two bytes, so that a chunk can be part of it, and one
  in the liveness run, which has one and two bytes of output and looks at
  `run_process` only: that a background process ends is nobody's promise. One child and one daemon stand for any number: `Killed`
  and the pipes ask only whether any is left.
- *Ingestion.* Two clients, one edit, three trees: a package with an
  `__init__.py`, modules of one name inside and outside it, redefined
  functions, a class, each kind of import and call; a tree with fewer files,
  moved functions, a syntax error and commits; one that cannot be decoded. A
  second edit would let a reading see the first tree again, which a client
  that begins later sees too.
- *Impact.* A diamond (two routes to one caller), a cycle, a self-call, a caller
  outside the depth limit, tests called, contained and named, two owning
  services with each kind of target, a cycle of downstream services. Four
  relationships may come, each at any time: they shorten a distance, add a
  caller at the edge and a table of a database.
- *Comparison.* Sixteen trees of up to three files, every pair of them as the
  two revisions, in either order; two calls, so that the second can meet what
  the first stored, in whole or in part, for another service or with other known
  ones. Only one of the two snapshots of an answer can then be a part that was
  left behind, since a save that broke off ends its call; the proof has no such
  bound. Three ways of calling: one service alone, the same with another one
  known, another service. The two commits are
  interchangeable, and the run uses that symmetry; so does the one of ingestion
  for its clients.

Deadlock is not checked where a system may stop: a validation run, a
command, an impact analysis and the bounded number of comparisons end, and the
service waits when the bounded number of requests has been served. The store's
and the ingestion's clients never stop, and deadlock is checked there.

## 5. Fairness

- `ValidationRun!FairSpec`: the orchestrator goes on as long as its call is one
  that returns. All Docker commands and sandboxed commands run under
  `subprocess` timeouts, so they return; git and testcontainers calls have no
  timeout, and `RunEnds` therefore excludes a run stuck in one. A container's
  sleep ends by itself (`ContainerExpires`).
- `SnapshotStore!FairSpec`: a call to the database returns or raises.
- `ProcessRun!FairSpec`: the calling thread and both pumps are scheduled, and
  `wait` and `join` with a timeout return. Nothing makes a process write, let go
  of its output or exit, and nobody is obliged to stop a background process.
- `AnalysisService!FairSpec`: threads are scheduled, and calls to the LLM, the
  embedder, Neo4j and the sandbox return or raise. Nobody is obliged to send a
  request.

No strong fairness is assumed anywhere.

## 6. Proofs

Each theorem holds for all values of the constants that satisfy the ASSUMEs of
the module, which TLC evaluates in the runs. One theorem has a hypothesis of its
own, `GraceCovers`, which is named in its statement.

*Validation run.* The invariant `IInv` is `TypeOK` and three parts.
`FactsAreResults`: recorded runs are results the executors can produce, so
their status and exit code agree. `Progress`: for each value of `pc`, what must
have succeeded for the orchestrator to get there (dependencies started, build
passed, application ready, earlier tests run); it makes `PassedIsEarned`
inductive, since an early return leaves a trace that `evaluate` does not turn
into a pass. `ReasonToStop`: when cleanup begins with work left undone, one of
the facts says why. `VerdictFollowsPrecedence` follows from `FactsAreResults`,
`Progress` and `ReasonToStop` by comparing the two orders rule by rule.
`CommandsEndWithinBudget` and `CleanupNeverMasksTheResult` follow from `TypeOK`
and the single step: what is left of the budget bounds the command, and only the
joins come on top.

`LeftoversAreKnown` needs a second invariant, `LInv`, about the world. It says
of each resource who can still take it away: `EnvironmentFits` ties
`environment_status` to `pc` and to what the run holds, `ContainerFits` and
`DependenciesFit` say that a container, an image, a dependency or the network
exists only if a later step of cleanup will remove it, it was reported, or a
fault left it, and `OrderFits` that what hangs on the network goes before it. A
killed process leaves anything, so `LInv` is claimed of the others.
`ContainerOutlivesCommands` is arithmetic: whatever begins before the deadline
is over within the grace (`ClockFits`). It needs `GraceCovers`, that the grace
is at least what may run past the deadline: the start of the application or the
pause before a poll, then the liveness check and the command a probe begins
with, each with the joins of its pumps. The code's 120 seconds cover its
(60 + 10) + (15 + 10) + 15 = 110, and a pause of up to 80; the pause is the
request's own, half a second unless it says otherwise. The network part of a
probe comes after that command, needs no container of its own and is not
covered. The instance TLC checks meets the hypothesis with equality.

*Store.* `IInv` is `TypeOK`, `OneSnapshotPerRevision`, `SavedIsComplete`,
`LoadsAreFromOneSave` and, per client, `InOrder`: what a client at a given step
of `save` or `load` already has in the database or in its hands. The refinement
maps the register's content of a revision to the facts of its header: creating
the header is `Publish`, an answer is `Answer`, every other step stutters.
That a header is never changed nor a second one created is what makes the
answers of `load` true although it reads in three transactions. The uniqueness
constraint carries the proof: it exists before the first header does.

*Grounding.* `GroundedAlways` has no precondition at all: for every sequence of
evidence and every answer, the location is in the evidence or absent, and an
established cause cites an existing item.

*Service.* Two facts about who owns what make the invariant inductive.
`TasksFit`: no two threads serve one job, and a job thread never becomes an
index request. `JobsFit`: a job is exactly as far as its thread. On them rests
`WorkTold`: at each step of the pipeline, a part of the result that should be
there by now is there or its absence is in the notes, the root cause is
grounded in the evidence (from the lemmas of `Grounding_proofs`), and code was
looked up only for locations that were indexed; this is what the three
properties of results say of a completed job. `StoreFits` (under a location is
the code of a repository that has it) is what a concurrent `/index` leaves true
at any moment. `AloneFits` follows an index request that no other overlaps part
by part: what it has replaced so far stays replaced, because only index
requests write to the index. That a job only moves forward is a step property,
from `JobsFit`.

*Command execution.* `WriteKeepsEnds` is the heart of it: writing the next `k`
bytes to a buffer that holds head, tail and dropped count of the first `n`
gives one that holds those of the first `n + k`, for every limit and wherever
the chunk begins and ends; it rests on lemmas about runs of numbered bytes
(`BytesJoin`, `BytesFront`, `BytesAfter`). `IInv` adds to `TypeOK` and
`BuffersKeepBothEnds` what each actor knows. `PumpsKnowTheEnd`: a pump that
ended has seen its pipe empty and held by nobody, which nothing can undo, since a
process only inherits a pipe from one that holds it; the processes themselves may
run on.
`OutputTaken`: a stream that was not given up on has its pump ended when its
text is taken, so the text is all of it. `OwnExit`: without a timeout the
command had exited before the kill, so the kill cannot change its exit code;
from the kill on nothing of its group runs. `ResultStands`: these facts survive
in the result and the log; `TruncationKeepsTheEnd` shows that `truncate_text`
keeps the last line of a log and its limit.

*Ingestion.* The argument has two halves. The first is about one batch:
`BatchFits`, proved of the batch of any four readings of any trees
(`BatchOfFits`), says that an id has one node, that a relationship has both
ends in the batch, and that every label and kind of relationship has its query.
It is why nothing is lost when a relationship is only merged if its ends are
there. The second half is about the clients. `ClientFits`: a client that writes
has the batch of the readings it made. `IsMerged`: each record of a batch is in
the graph or its query is still in the queue; as nodes precede relationships,
the ends of a relationship whose turn has come are there, whoever else merges
or fails, because no step takes anything out of the graph. `SummaryIsTrue` is
`IsMerged` with an empty queue. For the refinement, a client's batch is its
work and `done` is told: `Merge` is `Add`, `ReturnSummary` is `Tell`, `Start`,
`MapToGraph` and `Fail` are `Take`, readings and edits stutter.
`CallsReachTheirTargets` is a property of the mapping alone: the resolver's
cases (a local name, `self`, an imported name, an attribute of an imported
module) are compared one by one with the definitions Python could reach,
through lemmas that say what the tables of the mapper return. The attempt
produced the third form of `Unusual`, which is the last row of the second table
of section 7. The assumption about trees (`TreesAssumption`) is what a
scan gives: a path occurs once, facts are lists, a plain import has no dots.

*Comparison.* `SnapshotOf` says of a snapshot, finished or half-built, that the
ends of its relationships are in it, that each of its facts is stated by a file
of its evidence, and that what a readable file states, to the service it was built for,
is in it; each extractor keeps it (`DraftFits`). What the store has of a revision
is the first `writes[r]` writes of such a snapshot (`PartOf`, `StoreFits`),
whichever call built it and wherever it broke off. `AnswerFits` ties the answer
to the diff of the two snapshots compared, which makes the rest a matter of one
function.
`ReversalMirrors` is proved of any two snapshots: each part of the diff is
mirrored by a lemma. `ChangesReplay` needs that snapshots are well formed: the
relationships that go with a paired or added API are those the diff leaves out
elsewhere. Where the relationships of the current snapshot were never written, an
API can come without its exposure, and the replay holds up to those.
`NothingInvented` needs both halves of `SnapshotOf`: a fact missing in a snapshot
whose files could all be read is not stated by them, unless the write it is part
of is missing. That excuse is only needed for facts reported as added or removed:
what is modified or moved is on both sides, so its write was made on both. The
assumption about trees says what a file can hold, that of calls that they name
services.

*Impact analysis.* Two invariants. `IInv` is about what the analysis has in its
hands: `FoundFits`, a row of the traversal leads from a caller one level nearer
to the change; `FrontierFits` and `StartFits`, what each query starts from;
`RoutesFit`, a route to a node is a path of the graph from the changed code to
it; `ReportFits`, no key has more paths than the cap, each item has a path and
each path its item. From it follow `TypeOK` and `EvidenceIsReal`.

`CInv` is about what is missing. `TraversedFits`: the callers of a node that
was expanded are among the rows, as far as the graph had them when the analysis
began, and the frontier is the whole last level. `CallersFit` and `KeptFits`:
the report has every caller in its category and at its depth, and, if it does
not say otherwise, all its routes; later queries leave both alone, because what
they offer is not code (`Further`). `KnownFits`: a category in which something
was found has relationships of its kind in the graph, which only grows. `AllFits`:
of a graph at rest, each query has reported what it had to. TLC checked both
invariants on the instance of `impact` before they were proved.

`CallersAreTrue` and `CoverageIsHonest` compare that with the graph itself,
through recursive functions: the chains of `enumerate_chains`, the callers
within a distance, the shortest chains of calls. For each of them a lemma shows
that the recursion has a value (`ChainsExist`, `ReachExists`, `CallsExist`) and
is what its equation says; the inductions, on the depth of a node or the length
of a chain, are by a least counterexample, which needs no induction theorem.
`DeepIsWithin` and `WithinIsDeep` are the two bounds on the depth of a caller:
the first is of the graph as it is now, the second of the one at the start.
`RoutesAreChains` says that where no limit was reached the routes to a caller
are its shortest chains, and `AllIsDeep` that the callers are all there are if
nobody calls the deepest. One guard of the model had been missing and was found
by the attempt: the query of `trace_validating_tests` asks for nodes labelled
`Test`, so that something else that validates is not reported.

What stays with TLC. Liveness (`RunEnds`, `ContainerEventuallyGone`,
`SavesComplete`, `JobsEnd`, `RunReturns`, `OutputMovesOn`) is out of the
prover's reach. Every other property of a passing run is proved. The properties
of the runs that find a disagreement (section 7) have only their counterexample.

## 7. Where the documents and the code disagree

Three runs each find a behaviour of the code that contradicts a docstring.
Details are in `PROJECT.json`, `findings`.

| Run | Says | Does |
|---|---|---|
| `store_identical` | `False` when the identical snapshot was already there | its header may be all there is of it |
| `ingest_relative` | one leading dot means the package containing this module | in an `__init__.py` it means the package above it |
| `diff_unknown` | facts that could not be analysed are unknown, not absent | a call of another service is found only if the service is known, and the file that names it may be the unreadable one: the call, in a file readable on both sides, is then reported as added or removed |

More of them are stated as properties in the modules, without a run of their
own. Adding the property to the `.cfg` named here shows the behaviour.

| Property, `.cfg` | Says | Does |
|---|---|---|
| `StepsStayInBudget`, `ValidationRun_safety` with `Slow = 0`, `JoinT = 0` | every step is bounded by what is left of the overall budget (`validation/orchestrator.py:7`) | the calls that create an environment are each given all that was left before the first of them (`docker.py:107`); the readiness wait of a dependency is not cut at all (`dependencies.py:174`) |
| `HandleAlwaysReturned`, `ValidationRun_safety` | "The handle is always returned so the caller can collect logs and stop the process" (`runner.py:67`) | not when the published port cannot be resolved (`runner.py:106`) or the probe meets an exception it does not catch (`runner.py:27`): `run.app` stays unset although the application runs |
| `TestResultIsDecisive`, `ValidationRun_safety` | `test_result` is "the first one that did not pass" and decisive (`models.py:311`) | an earlier failing run hides the one that could not run and decided the verdict (`evaluator.py:104`) |
| `EnginesChosenOnce`, `AnalysisService_safety` | engines are "chosen once from CAUSIX_ENGINES" (`api/main.py:50`) | two first requests choose twice, and the second choice replaces the first |
| `StopLeavesNothing`, `ProcessRun_safety` | "reap children left behind" (`environment.py:85`) | only when the leader had exited before: if it dies of SIGTERM, members of its group that ignore SIGTERM live on (`environment.py:80`) |
| `LogWithinLimit`, `ProcessRun_safety` | the collector "applies the size limit" (`validation/logs.py:86`) | with a limit of 0 a truncated section is all of its text, and the marker besides (`logs.py:29`); `log_limit_bytes` is any integer (`orchestrator.py:61`) |
| `TestsAreReportedOnce`, `ImpactAnalysis_safety` | the naming rule "skips tests already found via real edges" (`tests_impact.py:73`) | not test methods: the names compared are qualified on one side only (`analyzer.py:214`) |
| `ImportedCallsLeaveTheFile`, `GraphIngest_relative` with `Versions <- ShadowVersions`, `Tree <- ShadowTrees` | one table is for targets "that stay within one file", the other "mirrors exactly how src.parser.relationships resolves imports" (`graph/mapper.py:76`, `:82`) | a call of `run`, imported by `from plan import run`, is joined to the method `run` of a class `plan` of the calling file: both have the dotted name `plan.run`, and the file is asked first (`mapper.py:285`) |

The models also have these behaviours, to which no run is devoted:

- a checkout that cannot be removed is removed with `ignore_errors` and named in
  no warning (`validation/revision.py:31`);
- two processes that save the same facts at once: one gets the constraint error
  of the database instead of the documented no-op (`taken` in `SnapshotStore`);
- a load between the writes of a save returns a snapshot without its
  relationships, or with relationships and not the entities they connect;
- an LLM that cannot be reached during root cause reasoning ends the job, so the
  evidence is lost, although the handler next to it keeps the evidence when an
  answer does not parse (`reasoning/orchestrator.py:67`);
- after a second repository was indexed, the locations of the first are stored
  but no longer resolved (`reasoning/integration/locations.py:23`); while a
  repository is being indexed, or when embedding failed, locations are resolved
  to ids under which nothing is stored (`api/main.py:148`);
- `import a.b` followed by `a.f()` is resolved to `f` of `a.b`
  (`parser/relationships.py:179`); of `foo.py` and `foo/__init__.py` the later
  one is the module `foo`; a function defined twice is two nodes, as its line is
  part of its id, and a call joins the first; a function that moved is a new
  node, and the old one stays;
- a file that is not UTF-8 ends an ingestion (`parser/python_parser.py:151`), one
  with a syntax error does not; a file that vanishes between two readings ends
  it too (`parser/relationships.py:328`);
- `max_downstream_depth` cuts downstream services without a note;
- a stored snapshot is used whatever `service_name` and `known_services` the call
  gives, and however little of it was written (`architecture/analyzer.py:86`);
- the code to fix is looked up by a location several steps after it was found: a
  re-index in between puts other text there (`reasoning/agents/fix_agent.py:89`),
  and `FixIsGrounded` only says that it is indexed there now;
- an edit between two of the four readings of an ingestion gives relationships to
  definitions that only one of the versions has (`parser/relationships.py:328`);
- a fix made from the text of one repository is run on the repository that is
  indexed by then (`reasoning/integration/validation_runner.py:67`).

## 8. Not modelled

- Matching of source text: syntax trees, manifests, compose files, diffs
  (`ast`, `yaml`, regular expressions). What they yield (definitions, imports,
  calls, items) is the input of the models, in the order the code visits it.
- The investigators of `rca/` and `fix_localization/` other than the traversal
  and the test rule that impact analysis shares: they call their providers one
  after another, add fixed weights, and keep no state; a unit test reaches what
  can go wrong there. What they find is a parameter of `AnalysisService`.
- `validation/integration.py`: copies fields of results into a request.
- Git history, cloning, settings, read-only queries (`graph/queries.py`), and
  the content of LLM prompts and answers: inputs.
- Embedding vectors and scores: numeric; retrieval may return any hits.
- Agent tool templates (`agent/`) of an external SDK.
