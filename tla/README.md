# RegulaForge in TLA+

RegulaForge is a compliance platform: a FastAPI backend over PostgreSQL, Redis
and Neo4j (`src/backend/src/regulaforge`, all paths below are relative to it
unless they start with `src/` or `docs/`, the latter standing for `src/docs/`), a React frontend and ML tooling.
This directory holds specifications of those of its parts in which the *order* of
steps matters, model-checking configurations for them, and proofs.

## 1. Inventory

| Component | State | Operations | Interacts with | Hard behaviour | What makes it correct |
|---|---|---|---|---|---|
| **Compliance assessment workflow** (`application/use_cases/assessment_use_cases.py`, `domain/entities/compliance_assessment.py`, `infrastructure/persistence/…`, `interfaces/api/v1/assessments.py`) | the row of `compliance_assessments`, its version, the sessions of the requests, the aggregate in memory | create, start, add finding, complete, approve; commit, roll back | database session (call), event publisher (call) | requests overlap, stale copies, events before the commit, row lock | one-way lifecycle, a reviewed assessment has its score and approver, events match the changes, nobody waits for ever |
| **Assessable entities** (`application/use_cases/entity_use_cases.py`, `domain/entities/entity.py`, its repository, model and endpoints) | the rows of `assessable_entities`, the sessions | create, update, deactivate, activate, read the hierarchy | database session (call), unique index, foreign key | requests meet in several rows: names, parents, waits in a circle | names are unique, the hierarchy has no circle and its climb ends, nobody fails for a name without a rename, a PATCH stores what it answers |
| **Task scheduler** (`application/services/scheduler.py`) | dict of tasks, metrics, the loop coroutine, the coroutine of each run | schedule interval/cron/once, cancel, start, shutdown, tick, retry | asyncio tasks (spawn, cancel), task functions (callback) | start while shutdown waits, cancel of a running task, CancelledError, a bad cron field | runs are accounted for, nothing starts after a stop, shutdown drains and returns, tasks are not starved |
| **Ingestion** (`ingestion/application/crawler_service.py`, `etl_service.py`, `scheduler_service.py`) | crawl jobs, document rows, fingerprints, semaphore | crawl, download, ETL, stop | crawlers (call), repositories, APScheduler | overlapping crawls with snapshots of the known hashes, failures in the middle, cancellation, a shared path | one fingerprint per text, duplicates lead to an original, counters agree with rows, permits come back |
| **Agents** (`agents/application/orchestrator.py`, `base_agent.py`, `supervisor.py`, `human_approval.py`, `agents/interfaces/api.py`) | one state per agent, shared by all tasks; pending approvals | workflow, direct run, retry, decide, reset | language model (call), humans (approval) | states shared across awaits, resets under running tasks | a response is the task's own, approvals survive, every run ends |
| **Rate limiting** (`interfaces/api/middleware/rate_limit_middleware.py`) | a token bucket per address and path | dispatch | every request (middleware) | refill rounding, requests between refills | never more than the burst plus the rate, never less either, Retry-After is true |
| Regulations (`domain/entities/regulation.py`, its use cases) | the row, its version | create, publish, archive, supersede | database session | as assessments and entities | its lifecycle |
| User accounts (`application/use_cases/auth_use_cases.py`, `domain/entities/user.py`) | failed attempts, lock | login, lock, unlock | database session | concurrent attempts | the counter counts |
| Circuit breaker, observable, registry (`common/patterns.py`) | state, failure count, half-open slots | enter, exit, reset | nothing calls it | late results | probes an open circuit |
| Event bus and publishers (`application/services/event_bus.py`, `infrastructure/messaging/`) | handlers, metrics, dead letters | publish, subscribe | the bus: its tests; the logging publisher: use cases | background deliveries | every delivery counted once |
| Unit of work (`infrastructure/persistence/unit_of_work.py`) | session, tracked entities | track, commit, rollback | no use case is given one | commit succeeds and dispatch fails | events for committed changes |
| Caches (`infrastructure/cache/cache_service.py`, `dashboard/infrastructure/cache.py`) | Redis, local fallback | get, set, invalidate | nothing calls them | values written after an invalidation | no stale value |
| Risk engine (`risk_engine/application/risk_monitor.py`) | alerts | raise, acknowledge, escalate, resolve | nothing constructs it | acknowledge against escalate | an alert moves forward only |
| Model registry (`src/ml/models/model_registry.py`) | model stages in MLflow | promote, archive | nothing calls it | two calls, one fails | one production version |
| Audit trail, knowledge graph, graph RAG, explainability, document intelligence, AI, ML | external services | — | HTTP, Bolt, MLflow | retries | not order-dependent beyond those |
| Configuration, API glue, dashboard, frontend, deployment, migrations | — | — | — | — | — |

The components in bold are modelled. The first two are the two shapes of every write of the
product, one row under a lifecycle and several rows under constraints, along the one path of
load, change, save, publish and commit; the scheduler and the crawls are its code for background
work, which so far only tests and a command line start (section 6); the agents and the rate limiter are the parts in which requests share memory.
They meet in little: each request has its own session, no two of these components share
a row or an object, and the rate limiter decides before any of them is entered. So each has a module of its
own, and the composition is that of requests within a module.

## 2. What each module models

### `AssessmentWorkflow`, with the abstract `AssessmentLifecycle`

One assessment row and a set of HTTP requests, each of which runs one use case over
its own session. A request moves through the states its handler moves through:

| state of `pc[r]` | code |
|---|---|
| `idle` | before the session's first query |
| `dirty` | `get_by_id` has read the row (`loaded[r]`), the aggregate's method has run (`entity[r]`) |
| `merged` | `save()` has fetched the row again (`existing[r]`) and `_update_model` has put the aggregate on it |
| `flushed` | `session.flush()` has sent the UPDATE, which holds the row lock (`lock`) |
| `published` | `_publish_events` is done |
| `committed`, `rolled_back`, `refused` | how `get_session` ended |

The row carries the columns a use case changes: status, score, completion time,
approver and time of the approval, last updater and version. A request is its own clock,
so a time stamp is the request that set it; its user is `UserOf[r]`, so that two
requests can be of one user and agree in a column. Findings are in the aggregate only:
`_to_model` and `_update_model` never write them and `_to_domain` never restores them.

Two facts about SQLAlchemy are modelled from the way the adapter uses it and are
marked external. An UPDATE contains the columns whose assigned value differs from the one
that was fetched, and no UPDATE is sent when none differs (`Column`, `Changes`). And
a session refers weakly to the objects it has loaded: `get_by_id` drops the row object when it
returns, so `session.get` in `save()` fetches the row again. `Merge` therefore allows
the row of that moment; it also allows the row read first, which is what is found where
the interpreter has not collected the object yet. PostgreSQL runs the statements at its
default level, READ COMMITTED: nothing in `database.py` sets another.

`AssessmentLifecycle` is what a reader of the row is promised: SCHEDULED, IN_PROGRESS,
PENDING_REVIEW, COMPLETED, in this order, a score with the completion and an approver with
the approval (`docs/architecture/domain-model.md`).

Left out: `reject()` and `cancel()` of the aggregate, which nothing calls; the read-only
use cases; the regulation links, which no use case changes after the creation; wording
and validation of texts. A `create` is refused for reasons outside the row, so it may always be.

### `TaskScheduler`

Task objects numbered in the order of their creation, the dict (`tasks`, in its order:
a replaced name keeps its place), the coroutine of each run (`worker`, `attempt`), the
loop coroutines (`loops`; more than one may be alive, `current` is `_loop_task`), and
`shutdown()` with its two waits (`stopping`, `polls`). Code between two awaits is one
step. Time is abstracted to `due[i]`: the task's interval, delay or expression has come
round. Three kinds of task matter: `interval`, which stands for a well-formed cron
expression too; `once`; and `bad_cron`, an expression of five fields which `schedule_cron` accepts and
whose evaluation raises in the loop, ending that second's walk over the dict.

Left out: the arithmetic of intervals and the matching of cron fields; two `shutdown()`
calls awaiting at the same time.

### `EntityRegistry`, with the abstract `EntityDirectory`

The entities of one tenant and a set of requests over sessions of their own. A row is its
name, parent and activity. A request goes from `idle` to `dirty` (`get_by_id` has read the row,
or `get_by_name` has found none, and the aggregate is in memory), `merged` (`save()` has fetched the row again),
`locked` (the INSERT or UPDATE has made its new row version and has a constraint left to
pass), `flushed` and `ended`; a reader of `/hierarchy` is `climbing`, one query a step.

What is external is PostgreSQL: whom a statement waits for (`NameHolders`,
`RowHolders`, `ParentHolders`), when a new version is in the unique index (`Indexed`), and that one
of those that wait in a circle is ended (`Circle`, `Deadlocked`). An INSERT waits in the unique index first and for
the parent's row afterwards; an UPDATE for the row first and in the index afterwards;
a rename conflicts with the key share a new child takes on its parent (another create does not: nobody's parent is a row that is
not committed). `Merge` allows the row read first, too,
as in `AssessmentWorkflow`. The version is left out: `mark_updated` changes it, so that
every save of a stored entity is an UPDATE.

Of the code's own peculiarities, three carry the properties. `save()` puts the parent on a new
row only (`Saved`): a PATCH of the parent is answered with the new parent and
announced in an event, and not stored. That is why no circle can
arise although nothing looks for one, and why `while current_id` ends. `_to_domain` has no way
to say that a row is inactive (`ToDomain`). And the name is looked up before it is
inserted, without a lock: of two racing creates the second fails on the index, with a
`RepositoryError` where the look-up would have answered 409.

`EntityDirectory` is what the API promises the readers of the committed rows, without sessions: an entity is created whole, under
a name that is free and a parent that is there, is renamed to a free name, and is moved under another entity as long as that closes no circle
(`Move`; `docs/api/entities.md` has the parent among the fields of a PATCH). The refinement maps
its two variables to the name and parent columns of `db`. The code never takes a `Move`: that the documented one is lost is
a finding of its own (`PatchMovesOnly`), and what the refinement shows is that nothing else happens to names and parents.

Left out: description, tags, attributes and type (the attributes are merged into a dict
that is the row object's own where that object still lives, so that the ORM may see no change); the
other reads. Nothing deletes an entity.

### `DocumentIngestion`

Crawls of the sources as `SchedulerService` and requests start them. `phase[c]` is where
`crawl_source` is suspended: in the site's listing (`discovering`) or with its downloads under way
(`downloading`). A document row is `pending_download` while its coroutine waits at the semaphore and
`downloading` while it holds a permit. The in-memory repositories keep the objects themselves, so a
change is seen at once; what a coroutine does after its download, the whole ETL
included, awaits nothing that suspends it and is one step, one action for each way out.
A site is what it may list and serve. Two downloads of one identifier write to one path, which
`shared` remembers: such a row may be processed with any text, or find no file.
A site lists finitely many identifiers (`ExternalIds`); `NoText` is the empty string, what is left of a file without text, which
has no fingerprint.

`Stop` is the shutdown of APScheduler, which cancels the crawls it started: CancelledError passes the
`except Exception`, so that jobs stay RUNNING and rows DOWNLOADING, and only `async with` does its part.
One crawl of a source at a time is APScheduler's `max_instances`.

The model takes a crawler at the contract of `BaseCrawler`, which the crawlers of the tests follow.
The three shipped crawlers name the parameter `_since` while `crawl_source` passes `since=`, so
that with them every crawl ends in `DiscoverFails`. Left out for the same reason: `last_run`, whose only use is that argument.
Left out as well: `crawl_all` and `run_batch_etl`, which call the operations above one after the other.

### `AgentOrchestration`

The process has one orchestrator, and each of its agents has one `AgentState` through
which all tasks pass (`agent`). `run[t]` is what the coroutine of a request carries itself: where it is
suspended (`asking` the model in the supervisor, or in the `backoff` before another attempt),
the agent, the attempt. `report[t]` is what the response copies of the shared state at the end. Coroutines
are suspended at two awaits only, so everything between is one step: `Decide`
is the end of the supervisor's run, the hand-over of the decision and the first attempt of the agent.

`sound` says whether the attempts of the task's agent succeed, and is left free. What decides it is the agent together with
the input: legal, approval and knowledge graph raise at input that is no JSON object, which passes the endpoint; audit, notification,
risk prediction and clause drafting raise at every input, since their tools' parameters were renamed with an underscore and
their callers' keywords were not (`audit.py` 74 and 144, `notification.py` 78 and 136, `risk_prediction.py` 70 and 156, `clause_drafting.py` 79 and 170);
monitoring does not read its input. So the model has more behaviours than each single agent. The two in the run, legal and approval, have both. Where the attempts fail,
the fallback answers, with `passed` false, and the task is
completed all the same: no run ends FAILED. The orchestrator of the application has no
language model, in which case `asking` and the decision are adjacent; the model has one attached.

Left out: what the specialists compute and append (traces, tool calls and `fallback_used` accumulate in the shared
state); the identifiers of approvals beyond their task; the LangGraph variant.

### `RateLimitMiddleware`

One bucket for each key and a clock in ticks, `Interval` of them to a refill, so that requests come between refills.
`dispatch` decides before it awaits, so a decision is one step. `total` and `before` are history: how many requests were
let through, and how many before each tick; `refused` holds the latest refusal and what its Retry-After said. The application
uses capacity 60 and one token a second: `rate_limit_per_minute` (`config/settings.py`) sets the capacity only, so that up to twice its
value pass within the first minute of a key. At one token a second a truncated Retry-After would be true as well; the second that the header
adds matters at higher rates, which is why the run has two.

The bound is per process and per key, an address and a path. Buckets are never dropped and a restart begins with full ones. The
documentation (`docs/architecture/security.md`, `docs/api/overview.md`) speaks of a limiter over Redis with tiers
and an X-RateLimit-Reset header; the one that is installed has neither.

### Conventions

A definition `X_Variant` next to `X` (`Flush_Commits`, `Saved_WithParent`, …) is a deliberately
wrong version of `X`. No specification uses it; replacing `X` by it shows that a property
notices the mistake. The `MC…` modules and the `.cfg` files only give constants their
values.

## 3. What the runs check

| Run | Instance | Result |
|---|---|---|
| `assess_overlap` | 4 requests of 2 users, 3 open sessions, scores 40, 95 and the refused 101 | holds: `TypeOK`, `OnlyCommittedWork`, `EventsFollowWrites`, `OvertakenAlone`, `RequestsEnd` (about 240,000 states) |
| `assess_serial` | 5 requests, 1 open session | holds: `LifecycleKept`, the row implements `AssessmentLifecycle` |
| `assess_stale_status` | 4 requests, 2 sessions | violated: `StatusOnlyAdvances` |
| `assess_findings` | 4 requests, 2 sessions | violated: `FindingsRead` |
| `assess_phantom` | 4 requests, 2 sessions | violated: `NoPhantomEvent` |
| `scheduler` | 2 tasks, 2 names, 2 starts, 2 runs each, 1 retry, 2 polls | holds: `TypeOK`, `Accounted`, `NoRunAfterStop`, `DrainsListed`, `RetiredForGood`, `ShutdownEnds`, `LoopsEnd`, `EveryTaskRuns` (about 270,000 states) |
| `scheduler_drain` | the same | violated: `DrainsActive` |
| `entities` | 3 requests, 2 sessions, 1 stored entity, 2 names | holds: `TypeOK`, `NamesUnique`, `HierarchyAcyclic`, `OnlyRenamesDeadlock`, `OnlyRenamesRefused`, `DirectoryKept`, `RequestsEnd` (about 92,500 states) |
| `entity_patch` | 2 requests, 1 session, 2 stored entities, both inactive | violated: `PatchMovesOnly` |
| `ingest_crawls` | 2 crawls of 1 source, 2 identifiers, 1 file, 1 text, 2 permits | holds: `TypeOK`, `OneFingerprintPerText`, `OriginalsHeld`, `JobsCountRows`, `PermitsReturned`, `CrawlsEnd` (about 290,000 states) |
| `agents` | 3 tasks, 2 specialists, 2 decisions, 3 attempts, 1 reset | holds: `TypeOK`, `RoutedByOwnDecision`, `OwnVerdict`, `SettledReports`, `ApprovalKept`, `RunsEnd` (about 240,000 states) |
| `rate_limit` | 1 key, capacity 3, 2 tokens per interval of 3 ticks, 12 ticks | holds: `TypeOK`, `NeverOverRate`, `RefusedOnlyOverRate`, `RetryHonoured` (about 440,000 states) |

What they show:

* **Overlapping requests.** Nothing compares the version column, so a request stores
  what it made of the row it read first. `StatusOnlyAdvances` fails: a second start
  that read the row before a completion takes PENDING_REVIEW back to IN_PROGRESS (and
  the score with it). `OvertakenAlone` says that this is the only way out of the lifecycle: a step
  of the row that the lifecycle does not allow is the commit of a session for which
  the row had changed since its read. `LifecycleKept` is the consequence when sessions
  do not overlap. `OnlyCommittedWork` holds all the same: what was rolled back is never
  seen, not through another session's copy either.
* **Events.** They leave while the row lock is held, so among the requests that changed
  the row their order is that of the changes and each is published once
  (`EventsFollowWrites`). They also leave before the commit, so one may be out for
  a change that is then rolled back: `NoPhantomEvent` fails, against the outbox the documentation
  describes.
* **Findings.** `FindingsRead` fails: a committed finding is not in the assessment that is read
  back.
* **Row lock.** `RequestsEnd`: a request waiting for the lock ends, because whoever holds
  it commits or rolls back, and the lock goes with the session.
* **Scheduler.** Runs are accounted for even across cancels, replacements and a coroutine
  lost to a CancelledError (`Accounted`); no loop begins a run after `shutdown()` was called, a
  loop `shutdown()` forgot included (`NoRunAfterStop`), and all loops end (`LoopsEnd`).
  `shutdown()` returns although a task's function never does (`ShutdownEnds`), and unless its
  polls ran out no *listed* task has a coroutine left (`DrainsListed`). A
  cancelled or replaced task is not waited for: `DrainsActive` fails, against the docstring.
  A listed task the loop reaches is not left unrun under a started scheduler
  (`EveryTaskRuns`), which is why start and shutdown in any order leave a live loop behind.
  A one-shot that ends cancels by *name*, so that it may take away a task scheduled under its name meanwhile, unrun; and
  a task replaced while it runs goes on beside its successor. `RetiredForGood` says how far that goes: a task leaves
  the dict by its name in one of these ways only, never comes back and begins no other run.
* **Entities.** Names stay unique although the look-up and the insert are apart (`NamesUnique`): the index decides.
  It refuses only who creates, asks for a name, or was overtaken by a rename between its two reads (`OnlyRenamesRefused`): a deactivation that another session
  overtakes leaves the name out of its UPDATE and cannot fail because the old name has gone to another entity meanwhile. Where `save()` finds the entity renamed it does bring the old
  name back, or fails on it.
  `PatchMovesOnly` fails without any overlap, in two columns at once: a PATCH that puts an inactive entity under another is answered and announced, and the stored row
  keeps its parent, which `save()` does not assign, and becomes active, `is_active` being lost on the way into the aggregate.
  Two renames that swap names deadlock in the database, which ends one (`RequestsEnd`). `OnlyRenamesDeadlock` says who can be in such a circle:
  each creates an entity, means to rename one or found it changed when saving, and they are not creates alone. A change of anything else, on
  an entity that stands still, is never the victim. `DirectoryKept` puts names and parents together: whatever overlaps, the committed rows
  go through the steps of `EntityDirectory`.
* **Crawls.** Overlapping crawls fetch and store a document twice; what holds is that a text has one fingerprint
  (`OneFingerprintPerText`), that following `original` from a duplicate ends (`OriginalsHeld`), and that no permit leaks
  (`PermitsReturned`, `CrawlsEnd`). `JobsCountRows` is exact for downloads and duplicates but only a lower bound for
  failures: a failure in the ETL is counted twice, and a missing file is not counted beyond the download. A document whose ETL failed keeps the hash of its
  file and is skipped or found a duplicate from then on; one whose first row has no known hash is fetched again by every crawl.
* **Agents.** Whatever others do to the shared states while a task is suspended, the decision it follows, the
  verdict it answers and a settled status are its own (`RoutedByOwnDecision`, `OwnVerdict`, `SettledReports`): each is written and
  read between the same two awaits. What does get mixed: a failed run of the approval agent may report `waiting_for_input`,
  left there by another; and `_finalize` marks a task completed while its approval is open. An approval can be decided
  after a reset (`ApprovalKept`), though not after a restart.
* **Rate limiter.** `NeverOverRate` bounds every stretch of time, wherever it begins between two refills, and
  `RefusedOnlyOverRate` is its converse: nobody is refused who has not had the share of some stretch. `RetryHonoured` needs the
  second that the header adds as soon as the rate is above one.

### Bounds

Four requests over three sessions are enough for a session to be overtaken by a whole
start and completion and for two sessions to wait for the lock of a third; two of the requests
are of one user, so that an UPDATE can be empty. With one session the fifth request allows
a full lifecycle and a request that fails on the way. Two tasks and two names suffice
for replacement, for a one-shot that cancels its successor's name and for a bad
expression in front of a good task; two starts for the loop that `shutdown()` forgets;
two runs and one retry for a run overlapping a later one's due time. `MaxPolls` is 10 in the code; 2 has
the same three cases, before, at and after the last poll. `MaxTasks`, `MaxLoops` and
`MaxRuns` cap what in the code is unbounded; nothing in the code reads them.
`MaxSessions` is `pool_size + max_overflow`; production asks for `NullPool`, where it is the server's
connection limit. The runs without deadlock checking describe systems that may come to rest:
all requests served, or all tasks run and the scheduler stopped.

For entities, one stored row and up to three created ones give two children of one parent, a swap of names
between two rows, a create that takes a name being given up, and a session that is overtaken by a whole
deactivation. Two sessions make circles of two only. One of three needs three stored rows; it is left to the proof, which is for any number (section 4). With a third session over the same row the run still holds, in twice the states. For crawls, two identifiers that serve one file with one text give a
duplicate by hash, one by text and one by identifier in two crawls, scheduled or not; two permits let one path be shared
and let a crawl be cancelled with one of its downloads waiting. More texts only add cases in which
nothing collides. For agents, three tasks put two in an agent while a third routes or resolves; three attempts are the
code's `max_retries`, and one `/agents/reset` (`MaxResets`) can fall on any await. For the rate limiter keys do not interact, so one
is enough; twelve ticks are four refills, more than the two in which a capacity of three comes back, and three
ticks to an interval with two tokens make the cap, the remainder and the rounding matter. `MaxTime` and `MaxCrawls` cap what is unbounded in the
code.

### Fairness

`AssessmentWorkflow`: weak fairness of each request's `Merge`, `Flush`, `Publish` and
`Commit` together. The event loop resumes every coroutine whose await is over and the
database grants a free lock. No request is obliged to arrive or to fail.
`TaskScheduler`: weak fairness of the clock, of each loop's tick and end, and of the two waits of
`shutdown()`, all of which are timers or wake-ups of the event loop. There is none
for a task's function: it may run for ever. None is assumed for `start()`, `shutdown()` or
`cancel()`, which the application calls as it likes.

`EntityRegistry`: weak fairness of each request's next step, in which the database grants what is free, reports what is
violated and breaks a circle; no other failure is assumed. `DocumentIngestion`: of each crawl's discovery
and completion and of each row's download, since the clients have time-outs and bounded retries; none of `StartCrawl` or `Stop`.
`AgentOrchestration`: the sleeps end and the model's calls answer or raise. `RateLimitMiddleware` has no liveness property.

## 4. What is proved

TLAPS checks every proof below for all values of the constants that satisfy
`WorkflowAssumption` (requests are finitely many, scores are integers, each request has a
user, NULL is none of those, at least one session) or `SchedulerAssumption` (the bounds are
natural numbers, at least one poll), and likewise of `RegistryAssumption` (finitely many requests, the stored entities have names of
their own, at least one session), `IngestionAssumption` (finitely many identifiers, at least one permit, every file has a text or none),
`AgentsAssumption` and `LimiterAssumption`, which also give the constants their types and keep NULL apart from values.

`AssessmentWorkflow_proofs`:

* `Invariance`: `IInv` is inductive. `TypeOK` and `OnlyCommittedWork` are not so by themselves:
  what a commit stores comes from the session's aggregate. `IInv` adds, for each open
  session, that the aggregate is one method away from the row that was read (`Moves`),
  that its score is an accepted one, and that its stamps are the request's own or those
  of committed requests (`Carried`). An UPDATE takes each column from the stored row or from
  the aggregate (`UpdateMixes`), so this is enough whatever columns it carries.
* `TypeCorrect`, `NothingUncommittedShows`: `TypeOK` and `OnlyCommittedWork` follow from it.
* `OnlyOvertakenBreak`: `OvertakenAlone`. When the row is the one that was read and found,
  the UPDATE stores the aggregate itself (`UpToDateMoves`), which is one `Moves` away; and a
  `Moves` of the row is a step of `AssessmentLifecycle` (`MovesRefine`).
* `EventsLeaveInOrder`: `EventsFollowWrites`, that an order-preserving bijection leads from the changes that are announced to the
  events of the same requests. Its inductive invariant is `EventInv`: an event is sent once, by a request past its publish (`SentOnce`),
  and every such request has sent its own (`SentAll`); the writers are committed (`WritersCommitted`); whoever flushed a change and has not ended
  holds the row lock (`Locked`); and a writer's event is out before those of all later writers, the holder of the lock included (`InOrder`).
  The last is why the lock is needed: without it (`Publish_BeforeSave`) two events can be out in the order opposite to their commits.

`AssessmentSerial_proofs`:

* `VersionCheckWouldDo`: with any number of sessions, `Spec` implements the lifecycle in every behaviour in which no session commits
  after another has overtaken it (`NeverOvertaken`). This is what a comparison of the version column at the save would bring about.
* `SerialKeepsLifecycle`: assuming `MaxSessions = 1`, `Spec` implements the lifecycle,
  `LifecycleKept`. The added invariant `SerialInv` says that at most one session is open and that
  what it read and found is the stored row.

`TaskScheduler_proofs`:

* `Invariance`: the accounting of runs is inductive only together with the fact that
  a live coroutine belongs to a marked task that is not marked twice, and with the types of the counters.
* `AlwaysAccounted`, `NeverRunsAfterStop`, `AlwaysDrainsListed`: `Accounted`,
  `NoRunAfterStop` and `DrainsListed`.
* `TypeCorrect`: `TypeOK`, with the uniqueness of the listed names. It is inductive with the fact that every listed task
  exists (`ListedBorn`): a task that is being scheduled is then not in the dict yet. `WithoutIsDict` and `PutIsDict` say what taking a name
  out and putting a task in make of the dict.
* `RetiredStayRetired`: `RetiredForGood`, from the same invariant and the same two lemmas.

`EntityRegistry_proofs`:

* `Invariance`: neither unique names nor an acyclic hierarchy is inductive, because what a commit stores was decided at its flush. The
  invariant adds that a session past its statement holds its row and its name alone (`RowsHeldOnce`, `NamesHeldOnce`),
  that the name it will store is free of all committed rows but its own (`NamesFree`), that a create's row is its own and unborn, and that nothing
  stored or about to be stored refers to an unborn entity (`Parents`, `ParentKnown`, `Unborn`). So a committed create adds a row to which no row refers, and every
  other commit keeps all parents.
* `TypeCorrect`, `NamesStayUnique`, `HierarchyStaysAcyclic`.
* `RefusalsNeedRenames`: `OnlyRenamesRefused`. A session that leaves the name alone and found it as it had read it makes a version with the name of the stored row
  (`VersionName`), which by `NamesUnique` no other row has.
* `KeepsDirectory`: `DirectoryKept`, the refinement. Only a commit writes (`OnlyCommitWrites`), and the invariant makes it a `Create` or a `Rename`
  with a free name (`CommitImplements`).
* `DeadlocksNeedRenames`: `OnlyRenamesDeadlock`. A session that neither creates nor changes its row's name, on a row that is as it was read, waits for
  the row before it holds anything and for nobody once it holds it (`QuietNeverWaits`), only who holds something is waited for (`AwaitedHold`),
  and a create that holds its name waits for no other create. The proof failed
  on the model as it was first written, in which a create could wait for the uncommitted row of another: no request can name such a parent.
* `SessionsGoOn`: while a session is open, one waits for nobody or is in a circle that the database breaks (`NeverStuck`). In a finite set of sessions that all
  wait within it, the members of a smallest such subset are all waited for (`CircleForms`). It is the safety half of `RequestsEnd`, for any number of sessions.

`DocumentIngestion_proofs`:

* `Invariance`: the four invariants of the crawls are inductive together, with four facts more. A row not yet downloaded is blank (`Fresh`), so that
  the end of a download adds exactly one row to what its job counts. The fingerprints are those of the rows with a text, none of them a duplicate
  (`Fingerprinted`), so that the original found by a text is none either. Rows come with the site's answer (`Begun`), so that a job's
  counters begin with its rows at zero. And each hash that a crawl knows is that of a row before its own (`KnownHeld`), so
  that the original of a duplicate by hash comes earlier, however many crawls have stored rows since the hashes were read.
* `TypeCorrect`, `TextsFingerprintedOnce`, `OriginalsStayHeld`, `JobsAlwaysCount`, `PermitsAlwaysReturned`.

`AgentOrchestration_proofs`:

* `Invariance`: what a property says of a response is kept in what the coroutine carries itself (`Suspended`, `Reported`); of the shared states
  the invariant says nothing beyond their types, which is the argument: a step may rely only on what it wrote since its last await.
* `TypeCorrect`, `RoutingOwn`, `VerdictOwn`, `ReportsSettled`, `ApprovalsKept`.

`RateLimitMiddleware_proofs`:

* `Invariance`: the requests let through since a tick and the tokens left are bounded together (`Counted`, `Paid`),
  no token has been spilled since the bucket was last full (`Unspilled`), and a refused bucket is short of what its waiting time brings (`Owed`).
* `TypeCorrect`, `RateKept`, `RefusalJustified`, `RetryKept`.

Every invariant and action property that a passing run checks is stated by a theorem, and so are both refinements. Only model-checked are the liveness properties
(`RequestsEnd` of both modules, `ShutdownEnds`, `LoopsEnd`, `EveryTaskRuns`, `CrawlsEnd`, `RunsEnd`): they need fairness, hence ENABLED, about
which the provers cannot reason. The inductive invariants were run through TLC on the instances above before they were proved. The modules
declare no RECURSIVE operator and avoid `SelectSeq`, which is one: orders of events are bijections of positions, a task is taken out of the dict
with `SubSeq`, and the rows of a crawl are a set of numbers.

## 5. What remains

The order in which the modules were written was the assessment workflow, the scheduler, ingestion, the rate limiter,
the agents, the entities: first what stores, then what runs in the background, then what shares memory. What a next step could add:

1. Regulations and user accounts over the sessions of `EntityRegistry` and `AssessmentWorkflow`: their status machines and the
   failed-attempt counter.
2. The unit of work, the event bus, the caches and the risk monitor, once something in the application uses them:
   the order of commit and dispatch, late deliveries, values written after an invalidation, alerts changed from two copies.

## 6. Not modelled

* **Not wired.** `TaskScheduler` is modelled, but only tests construct it (`tests/unit/test_foundation.py`, `tests/conftest_foundation.py`); and the application
  creates its ingestion router without services (`interfaces/api/app.py`), so that crawls start from the command line (`ingestion/interfaces/commands.py`) and from tests. Nothing constructs
  `SchedulerService`: the crawls it would schedule, and its `stop()`, are modelled as its code has them.
  `RoutedByOwnDecision` is about orchestrators with a language model, and the application attaches none. Of what is not modelled,
  the circuit breakers of `common/patterns.py` and of the Neo4j adapter guard no call. The event bus is
  constructed by tests only; no use case is given a unit of work; `CacheService`, the Redis rate limiters of
  `infrastructure/security/rate_limiter.py`, `RiskMonitor`, `agents/infrastructure/message_bus.py` and `src/ml/models/model_registry.py` have no caller. The `dashboard` package
  is not mounted and cannot be imported (one of its models names an attribute `metadata`, which SQLAlchemy reserves).
  A model of the latter would have to invent the environment that calls them.
* **Cannot run.** `agents/application/agent_orchestrator.py` and `workflows.py` import
  names that do not exist. In `Neo4jAdapter` the methods of nodes are overridden by those of relationships of the same
  names, so that saving a node raises. The LangGraph orchestrator calls a `resume` its graph does not have.
* **No order to get wrong.** Knowledge graph queries, graph RAG, explainability, document intelligence, AI and ML are query
  construction and numeric code around external services, and sequential. The audit trail appends rows in
  the request's session. Configuration, API schemas, frontend, deployment and migrations hold no state machine.
* **Same shape as a modelled part.** Regulations (their requirements are replaced as a whole on each save, and their version is not
  written by an update) and user accounts use the sessions of the two database modules.

Much of the backend's code is of the first three kinds, so the modules cover the parts whose steps can be reordered
and not a large share of its lines.
