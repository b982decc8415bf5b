# DevGrimoire: specifications and proofs

This directory holds TLA+ specifications of the concurrent core of DevGrimoire, the TLC
configurations that model-check them on small instances, and proofs that TLAPS checks for
every value of the constants. `PROJECT.json` lists the components, the runs, the mutants that
show each property can fail, the source lines every definition models, the findings, the
hazards and the theorems. Paths below are relative to `src/backend/src/` unless they begin
with `src/`.

Specified and checked are the **workflow engine**, the **replication** between two instances, the
**LLM balancer**, the **research runs** and the two **schedulers** (recurring tasks and workflow
schedules). Every safety property a passing run checks is also proved, for every value of the constants.
The last section says what is left out and why.

## The system

DevGrimoire is one Node.js process (NestJS) over MongoDB with a React frontend. Code between
two `await`s is atomic, every `await` lets another request, event handler, cron job or worker
run, and a crash loses everything that is not in MongoDB. Several instances exchange documents
through a replication protocol. The components that carry a protocol of their own:

| Component | State it keeps | Operations | What is hard | What makes it correct |
|---|---|---|---|---|
| Workflow engine (`workflows/engine/workflow-engine.service.ts`) | WorkflowRun and WorkflowNodeRun documents, AbortControllers in memory | claim a queued run, execute a node, apply its result, park, resume, finish, fail, retry, recover | runs end while nodes execute; waiting nodes are resumed from several sides; a crash between any two writes | a node succeeds once, an end is final, success is complete, every run ends |
| Job queue and worker pool (`workflow-queue.service.ts`, `workflow-worker.pool.ts`) | job list, definition locks, N loops | enqueue, dispatch, remove a run's jobs, lock, release | all of it is in memory; delayed jobs; removal during dispatch | one job per definition at a time |
| Delay scheduler, questions (`workflow-delay-scheduler.ts`, `questions/`) | `waitingFor` of a NodeRun, Question documents | tick, answer, expire | answers and ticks race with parking, cancelling and each other | one resumption, no lost one |
| Runs API (`workflows.service.ts`) | WorkflowRun | start, cancel, list | cancellation races with everything | a cancelled run stays cancelled and closes its nodes |
| Workflow schedules (`workflow-scheduler.service.ts`, `scheduler-helpers.ts`) | `lastRunAt`, `nextRunAt` of a definition, locks in memory, the slot of a run | tick, compute missed slots, skip, start, save | overlapping ticks of one or several instances, a start that fails, a crash in the middle | a slot has one run, an instance one open run, no slot is passed over but for a named reason |
| Recurring tasks (`recurring-tasks/`) | `nextRun` of a task | find, claim, catch up, create, update, remove | an execution that takes minutes, two instances, a task changed between reading and claiming | an occurrence is executed at most once, on the present plan |
| Replication log (`replication-log-writer.service.ts`) | change stream, resume token, sequence counter, log | log a change, resume, restart without token | replay after a restart, swallowed errors, gaps | every change is logged, in order, once |
| Replication driver and apply (`replication-sync-*.ts`) | outbound and inbound cursor, dead letters, applied records | push, pull, receive, serve, apply, replay, discard, collect | lost answers, duplicates, concurrent local writes, poisoned entries, echoes | cursors pass only what was finished with; both sides converge and come to rest |
| LLM balancer (`balancer/`) | slots in use, circuits, queue jobs, relay subjects, cancel flags, timers | acquire, release, wait, stream, fail over, cancel, clean up | a timeout meets the last event, a slot is lost, nobody is free, an agent needs the slot it holds | a slot is held by one job and given back; one answer per turn; everyone ends |
| Research runs (`research/`) | the research document, its queue job, the abort controller of its run | start, pause, cancel, resume, retry, deepen, remove; check, claim, execute, interrupt, settle, shut down, restart | requests read, wait and patch while the worker does the same; job ids are reused | what runs is executed, a report stays reachable, a stop arrives, what is queued has a job |
| Authentication (`auth/`) | refresh tokens and their families | login, rotate, log out | two tabs refresh at once | one rotation per token |

How they interact: the API creates a run and emits `workflow.run.queued` in memory; the engine
claims it and enqueues its triggers; workers take jobs, execute nodes and apply results, which
enqueues successors, parks the run or ends it; questions and the delay scheduler come back into
the engine through events and a cron job; the agent and chat nodes go through the balancer;
every document write reaches the replication log through the change stream of MongoDB.

Everything else (todos, projects, customers, knowledge, RAG, chat, SSH, Kubernetes, backups and
so on) consists of single-document operations, adapters to external systems, or text; see
"components" in `PROJECT.json` for each with the reason why it is left out.

## Modules

| Module | Contents |
|---|---|
| `WorkflowEngine` | the engine with its queue, pool, handlers, crashes and recovery; its properties; the parts of the inductive invariant |
| `WorkflowRunLifecycle` | what the engine promises of a run, with no node, queue or process in it |
| `MCWorkflowEngine` | graphs, results and symmetry for TLC |
| `WorkflowRestarts`, `MCWorkflowRestarts` | the engine with a record of the runs the last restart has left alone; that every run ends |
| `WorkflowEngine_proofs` | type correctness and sound references, exclusion per definition and the node budget; the refinement of `WorkflowRunLifecycle`, final ends and single retries |
| `WorkflowNodes_proofs` | no node of a run succeeds twice |
| `WorkflowEnds_proofs` | a run that has succeeded is complete, a cancelled run closes its NodeRuns |
| `ReplicationSync` | two instances with their change streams, logs, cursors, dead letters and apply loops |
| `ReplicationSync_proofs` | types, log and cursors of `ReplicationSync` |
| `ReplicationConvergence_proofs` | both sides of `ReplicationSync` agree, and deletions hold |
| `LlmGateway` | queue jobs, agents, endpoints, circuits, the relay and its clients |
| `LlmGateway_proofs` | types, slots, load, single answers and clean-up of the balancer |
| `ResearchRuns` | requests, workers, jobs and documents of research |
| `ResearchRuns_proofs` | every property of `ResearchRuns` |
| `RecurringTasks` | the rounds of the recurring tasks |
| `WorkflowSchedules` | the ticks of the workflow schedules |
| `ScheduledWork` | both schedulers in the same instances, with one clock and common crashes |
| `ScheduledWork_proofs` | the recurring tasks and the workflow schedules within `ScheduledWork` |
| `MCReplicationSync`, `MCLlmGateway`, `MCResearchRuns`, `MCScheduledWork` | instances and symmetry for TLC |

### How `WorkflowEngine` corresponds to the code

An action is one database operation followed by the synchronous code up to the next `await`.
`runs` and `nodeRuns` are the two collections; they survive `Crash`. `queue` and `locks` are
the fields of `WorkflowQueueService`; `procs` holds the local variables of each worker loop
and of each event handler or request, with a program counter that names the next database
operation; `queuedEvents` and `questionEvents` are emitted events whose asynchronous handler
has not begun; `replies` are answers and expiries between their read of a question and
their save; `recovery` is the local state of `recoverInterruptedRuns`.

| Code | Actions |
|---|---|
| `WorkflowsService.startRun` | `StartRun` |
| `handleRunQueued` | `HandleRunQueued`, then `EnqueueNext` per trigger, or `FailRun` without one |
| `WorkflowWorkerPool.loop`, `peek`/`take`/`acquireLock` | `DispatchJob`; `Return` releases the lock |
| `runJob` | `LoadJob`, `MarkRunning`, `CountExecution`, `Execute` |
| `applyResult` | `ReadLiveStatus`, then `InterruptNodeRun`; or `SaveWaiting`, `ParkRun`; or `CompleteNodeRun`, `UpdateContext`, `EnqueueNext`, `CountOpen`, `FinishRun`; or `FailRun` |
| `handleQuestionAnswered`, `handleQuestionExpired` | `HandleQuestion`, `ResumeRun`, then `applyResult` |
| `WorkflowDelayScheduler.tick`, `resumeDelayedNode` | `ResumeDelayedNode`, `ResumeRun`, then `applyResult` |
| `QuestionsService.answer`, `escalateDueQuestions` | `OpenAnswer`, `SaveAnswer`, `OpenExpiry`, `SaveExpiry` |
| `cancelRun`, `onRunCancelled` | `CancelRun`, `CloseNodeRuns` |
| `retryRun` | `ClaimRetry`, `SpawnRetry`, `EnqueueNext` |
| `recoverInterruptedRuns` | `Restart`, `RecoverRun`, `InterruptCut`, `RecoverNode` or `FailCut`, `FinishRecovery` |
| a rejected database promise | `DatabaseError` |

What is abstracted: a node is an element of `Nodes`, its executor the set `Results[n]` of what
it may return; context, logs, secrets, redaction, accountability and audit are left out. Nodes
refused by the policy or without an executor are `Blocked`; the runtime limit on a run's
duration is the environment option `"slow"`. Time is not modelled: a timer, a backoff or an
expiry may be due at any moment. Reads that nothing can separate in effect are merged:
`LoadJob` reads the run and the NodeRun in one step, `EnqueueNode` creates the document
and pushes the job in one step, `SpawnRetry` reads the failed NodeRuns and creates the child in
one step, and the second save of `handleRunQueued` (`startedAt`) is left out.

### How `ReplicationSync` corresponds to the code

The active instance drives the exchange, the passive one answers; both have a log writer.
`changes` is the change stream of MongoDB, which survives; `writer` is the for-await loop over
it; `log`, `tags`, `cursorOut`, `cursorIn`, `letters`, `token` and `counter` are the collections
and counters of `replication/`; `driver` holds the local variables of `runCycle`, `applier` those
of each `applyEntry` loop (open receive requests, the pull phase, a replay).

| Code | Actions |
|---|---|
| `handleChange` | `LogChange` (duplicate check, number, insert), `PersistToken`, or `SwallowChange` |
| `consume`, `restartWithoutToken`, `start` | `StreamDies`, `RestartWithoutToken`, `WatchFrom` |
| `pushPhase` | `StartCycle`, `NothingToPush`, `Push`, `PushRefused`, `PushAnswered` (cursor, dead letters, blocker), `GiveUp` |
| `receiveBatch` | the applier of a handler; `AnswerUnread` when the driver is gone |
| `servePull`, `pullPhase` | `PullPage`, `PullRefused`, `PullApplied` |
| `applyEntry`, `compareLww` | `ApplySkips`, `ApplyReads`, `ApplyWrites`, `ApplyFails` |
| `replay`, `discard`, `runGc`, TTL index | `Replay`, `ReplayEnds`, `Discard`, `CollectLog`, `ExpireTag` |
| end and start of a process | `Restart` |

A version is its time and its author, time advances when users write, and a delete carries the
time of the cluster, which has seconds (`SecondLength`). Reading the timestamp of the local
document and writing are two steps, because a local change comes between them in the code too.
Time begins in second 1: second 0 is the time of a missing document, and no deletion falls into it.

### How `LlmGateway` corresponds to the code

A lessee is a chat or embedding job of the queue or an agent. `lessee` holds the position and the
local variables of `GatewayProcessor.process` or of `leaseWorkflowSlot`: the pool that was read,
the slot that is held and the endpoints that were tried. `TakeJob`, `ListPool`, `Acquire`, `Delay`,
`NoEndpointFree`, `DelayOver`, `AllFailed`, `CallSucceeds`, `Recorded`, `CallFails` and
`FailureRecorded` are the steps of the worker between its awaits; `Streams` is an event of
`ChatRunnerService` that reaches the client; `Request`, `Answer`, `GiveUp` and `Leave` are the client
in `runChat` and `runEmbed`; `PublishEnd`, `Cancel` and `CleanUp` are the relay with its two
timers; `StartAgent`, `AgentWaits`, `AgentQueryFails`, `AgentGivesUp` and `AgentEnds` are `runAgent`
with `leaseWorkflowSlot`; `CircuitCloses` is the end of a cool-down. `Change` is an administrator who
calls `LlmEndpointsService.update` or `remove`, `Restart` the end of the process: the jobs stay in
Redis and are handed out again.

### How `ResearchRuns` corresponds to the code

`run` holds the local variables of the worker of a document (`ResearchProcessor.process` and
`ResearchRunnerService.run` with `execute` and `work`), `request` those of a request
(`ResearchControlService`), each with the next database or queue operation as its step. `doc` has
the fields of the document that control its runs; `job` is the BullMQ job, whose id is the
document's, so that adding one while the old one exists has no effect; `controller` is the abort
controller in memory. Of the tasks of a document the module keeps whether some are unfinished and
whether some are done; one round stands for all later ones.

A request takes its stamp (`queuedAt`) before it awaits the write (`research-control.service.ts:67`,
`162`, `186`, `207`), so `Start` and `Requeue` write any of `Stamps`, whatever waits by then; equal
stamps are ordered by `_id` (`Rank`). What fails without a second attempt may fail in the module
too: `lastResort` (`research-runner.service.ts:156-161`), `pauseAllRunning` at a start (`73-79`),
each `enqueue` of `requeueWaiting` (`research.processor.ts:33-46`), and the answer of a claim that
was written. Two history variables tell the properties: `joined`, what was put into the queue
between the check and the claim of a document, and `stranded`, what was left running without a
worker.

### How the schedulers correspond to the code

In `RecurringTasks`, `Find`, `Claim`, `Execute`, `TaskOver` and `RoundOver` are `handleCron` and
`processDueTasks` between their awaits; `Claim` is the conditional `findOneAndUpdate`. `Create`,
`Switch` and `Remove` are the service. An `update` of the plan is two steps: `ReadForUpdate` is
`findById` with the computation of `nextRun` from the given fields and the read ones, `WriteUpdate`
the later `findByIdAndUpdate` of the given fields and that `nextRun` alone; `UpdateFails` is a task
that is gone by then. `updates` are the calls in between, and there may be several. Time counts
parts of a day; the plan of a task is an hour and a day, which is every day or one of the week. In
`WorkflowSchedules`, `Begin`, `Take`, `Check`, `Start`, `StartFails`, `Save` and `TickOver` are
`processDueSchedules` and `processDefinition`; `locks` is `definitionLocks`; `Duplicate` is the
unique index over definition and slot; `RunMoves` is what the engine does with a run (it parks,
resumes and ends it); `Switch` is `updateDefinition` of the status, which leaves `lastRunAt` and
`nextRunAt` alone. A cron trigger fires at the multiples of `Period`, an interval every `Period`
after the last check. `ScheduledWork` lets the two share the clock, the instances and their crashes.
`executed`, `passed` and other variables marked as history record what happened for the properties;
no action reads them.

## Runs

| Run | Expected | Question |
|---|---|---|
| `parallel_runs` | pass | two runs of one definition, a graph that forks and has a failure edge, two workers, two handlers, cancel and retry |
| `waits_and_answers` | pass | a question, then a delay; two handlers, one answering request and the expiry, cancel, a crash (also with an early restart) or a failing database operation |
| `crash_recovery` | pass | a trigger and a node that is retried, for two runs; up to two crashes at any point, also while recovering, with restarts sooner or later than the recovery age; fairness |
| `lost_answer` | violation | an answer earlier than the save of its NodeRun |
| `stuck_sibling` | violation | a job that comes up while its run waits |
| `lost_branch` | violation | a crash between two enqueued successors |
| `timer_race` | violation | a timer earlier than the parking of its run |
| `replication_faults` | pass | one document changed on both sides (two changes), one fault at any point: a failing write, a driver that gives up, a swallowed change, a lost token, a restart, an expired tag, a collection |
| `replication_settles` | pass | two documents, one poisoned at the peer, one not enabled there; refused and too large requests, a dying stream, replay and discard; fairness |
| `gateway` | pass | a chat, which may hang, an agent and its embedding; a shared endpoint and a second one; failures, circuits, a second attempt of a job, a change by an administrator or a restart; fairness |
| `research` | pass | two documents of one owner, two overlapping requests of any kind to one of them, both workers, stamps in any order, an error of the store (also of what answers it) or a restart |
| `schedules` | pass | a task with a daily or weekly plan and overlapping updates of its fields, a cron and an interval definition, two instances, two overlapping ticks, two changes or crashes |

What the passing runs show:

- `OneJobPerDefinition`: the locks of the queue keep two workers off one definition, across
  cancellations, failures and retries.
- `BudgetHolds`: `executedNodeCount` never exceeds the limit although it is checked on a
  document read before it is incremented. It is a consequence of the lock.
- `OneRetryPerRun`: a retried run has one child, or one handler that is about to create it.
- `SucceededIsComplete`: without crashes, a run that succeeds has nothing open, has reached its
  triggers and the unconditional successors of all that succeeded, and every failure was
  retried or handled. With a crash it is refuted, see `lost_branch`.
- `ImplementsLifecycle`: every step of the engine is a step of `WorkflowRunLifecycle` or
  leaves the lifecycle of all runs alone. The refinement maps the two ways of waiting to one.
- `EachNodeSucceedsOnce`: in a forest (each node is reached in one way) no node of a run
  succeeds twice, whatever resumes, retries or recovers it, unless a waiting node is resumed
  while the recovery is under way (`NoEarlyResume`).
- `CancelledRunsClose`: a cancelled run on which nothing works any more has no open NodeRun.
- `EndedRunsStay`: no step changes the status of an ended run.
- `RunsEnd`: every run that is queued or running ends, whenever the process is lost and comes back,
  also in the middle of a recovery, unless the last restart left it alone (`skipped`). That is not a
  rare exception: `recoverInterruptedRuns` takes up only runs that nobody has touched for
  `RECOVERY_AGE_MS` (five minutes; `workflow-engine.service.ts:76`, `1577`,
  `src/docs/workflow-runner.md:241`), and a container under `restart: unless-stopped` is usually
  back in seconds. A run that was executing then stays `running`, with nobody at work on it, until a
  later restart finds it old enough.
- `NothingSkipped`: replication is at least once. A cursor passes an entry only when the peer has
  finished with it or it is a dead letter, whatever answer is lost and wherever the peer stopped.
- `LogFollowsStream`: the resume token is never ahead of the log; a change has one entry; entries
  follow the order of the changes. The only exceptions are the two the code gives up on: an error
  that is swallowed and a token that is lost (history `dropped`).
- `SidesConverge`, `DeletionsHold`: when all is quiet both sides have the newest version, also after
  a tie, and a document whose deletions came after every version is gone, although an older version
  that was still on its way may have brought it back in between.
- `Settles`: the echo of an applied change does not travel back and forth, a poisoned entry holds up
  the others only until it is a dead letter, and refused requests are repeated until the
  cursors have reached the end of both logs.
- `SlotsAccounted`, `NeverOverloaded`: a slot is given back exactly once on every way out of
  the worker and the agent, and `acquire` never overbooks although it decides on a list it awaited.
- `NoMixedOutput`, `NothingLeaks`: no failover after the first event a client saw; the relay keeps no
  subject and no cancel flag for ever.
- `JobsEnd`, `AgentsEnd`: a job leaves the queue also if no endpoint is ever free, or if a chat turn hangs
  with the slot it needs, and an agent ends also if its embedding needs the very slot it holds. A
  chat job that is in its turn is the exception of `JobsEnd`: see fairness.
- `RunningIsExecuted`, `QueuedHasJob`: what a research document says of itself is true: a running
  one has a worker, unless the process is shutting down or the document was stranded, a queued one
  has a job or a request about to add it, unless the code has lost it (`missed`).
- `ReportStays`, `DoneIsClean`: no stop, error or restart of a deepening hides a report or
  leaves tasks that the next deepening would take for its own.
- `StopReaches`, `StartsInOrder`: a stop that comes between claim and controller is not missed;
  the documents of one owner are claimed in the order of their stamps, but for what was put into
  the queue between the check and the claim.
- `AtMostOnce`, `NextRunFollowsSchedule`: the claim on `nextRun` lets one instance have an
  occurrence, and neither a round with an outdated reading nor the update of one field brings
  another plan back. Two updates that overlap, and one whose write comes too late, are excepted.
- `SlotStartsOnce`, `OneOpenPerInstance`, `NoSlotForgotten`: see the proofs below.

**Bounds of the engine.** One definition is enough for everything but the statement of the lock,
which the proof covers for any number. Two runs and two workers are the least that can conflict; a
third worker finds the same lock. The graphs have two to four nodes: a fork with a failure edge, a
trigger with a node that is retried, and a question followed by a delay; each contains the branch the property is
about and each is a tree, so a second success is always an error. `MaxNodesPerRun` is 3 where the
budget is checked, below the number of nodes, and out of reach elsewhere. `MaxFaults` is one in the
safety runs: one crash or one failing operation. It is two in `crash_recovery`, so that the second
crash can come while the first is being recovered; the graph is then a trigger and one node (about
700 000 states, three minutes). `Handlers` bounds how many requests and events are in progress at
the same time; those that have not begun are not bounded.

**Early ticks.** `"early tick"` lets cron jobs and their handlers run while the recovery
does. `crash_recovery` includes it (runs are started and announced meanwhile); `waits_and_answers` does
not: with it, TLC finds that a delay tick may resume a node which the recovery then takes for
interrupted, and the node succeeds twice. It needs a timer to be due within the milliseconds of
the recovery and is recorded as a hazard; `EachNodeSucceedsOnce` names it as its condition
`NoEarlyResume`.

**Quick restarts.** `"quick restart"` lets a restart find any of the running runs too young to be recovered.
`crash_recovery` and `waits_and_answers` include it. `skipped` in `WorkflowRestarts` holds the runs
that the last restart has left out, and nothing else may keep a run from its end.

**Bounds of replication.** Two changes are the least that can conflict, tie or have a delete overtake an
upsert; `BatchLimit` 2 lets a batch hold an entry and its successor; `MaxAttempts` 2 (5 in the code)
lets an entry fail once and be a dead letter the second time; two handlers let a batch the
driver gave up on overlap with its repetition. `MaxFaults` is one per run. `replication_settles`
needs one handler, since its fault set has no abandoned request.

**Bounds of the balancer.** `e1` has one slot (an administrator may make it two), so the agent, its
embedding and the chat compete for it; with `Threshold` 1 every failure opens a circuit, so that
there is soon no healthy endpoint. `MaxAttempts` 2 (3 in the code) lets a job whose query failed be
tried once more and fail for good. The proofs hold for any of these numbers. About four minutes.

**Bounds of research.** One target of requests and one document it competes with; `Capacity` 1
makes one wait for the other; two overlapping requests meet in every order with each other and the
worker; two stamps let either document be the older one, or none but by its id. 4.2 million states, about
four minutes: three requests, or errors that hit both documents, multiply them beyond five minutes.

**Bounds of the schedulers.** `MaxTime` 4 is two days and two periods, with catch-up of two, so that
missed, skipped and surplus slots all occur. A week has two days, and a plan is daily or on the
second of them, at one of two hours: an update of one field alone makes a difference in both
directions. `MaxChanges` 2 allows two overlapping updates. 1.6 million states, about three minutes.
`MaxScheduled` 1 lets one task or definition be active at a time: the two schedulers meet in nothing
but crashes and the clock, and the proofs of their properties need no such bound.

**Deadlock** is not checked: when every run has ended and nobody starts another one, nothing
happens, and that is as it should be. The same holds for a quiet replication, an
idle balancer or queue, and the end of the bounded time.

**Fairness** (`Fairness` in `WorkflowEngine`) is weak fairness of what the process does on its own:
the event loop resumes every continuation (`Step`), worker loops poll, pending events are handled,
cron jobs tick and resume due nodes, requests that were begun are completed, a crashed process is
restarted by its supervisor (`restart: unless-stopped` in `src/docker-compose.yml`) and recovery
proceeds. Executors end because `withTimeout` bounds them. Nothing is assumed of users: starting,
answering, cancelling and retrying are not fair. No strong fairness is used there.

In `ReplicationSync` the log writer, each apply loop and the cycle are weakly fair: an
interval drives the cycle, and each is a loop of a running process. A log writer
whose stream died is not restarted (`Settles` says so), because nothing in the code does it.

In `LlmGateway` the worker, the agents and the clients' waits are weakly fair. Embeddings return
because `LlmClient.embed` gives every request a timeout (`balancer/llm-client.service.ts:152-161`,
`181`), agents because `chatNonStream` does (`610`). Nothing of the kind is assumed of a chat turn:
its stream gets neither a timeout nor a signal (`241-254`, `661-672`, `732-748`), so a provider that
accepts the connection and goes silent keeps the call, its slot and its job for ever, as the comment
at `588-592` says of agents before they had one. While the turn streams, nothing is assumed of its
client either: each event starts its idle timer anew. The others must get along without that slot,
and do (`JobsEnd`, `AgentsEnd`). `NoEndpointFree` and `AgentGivesUp` are strongly fair: a job or an
agent that waits alternates between looking for a slot and sleeping, its deadline is checked
whenever it has looked in vain, and time, which the module does not count, makes the deadline true
from some point on.

## Findings

Four runs show that the code departs from what its documentation says; `PROJECT.json` has the
lines. All four come from writing two documents, or enqueueing two successors, in separate steps:
a question answered before its NodeRun is saved as waiting (`lost_answer`); a job dropped because
another branch parked the run (`stuck_sibling`); a branch lost in a crash between two
successors (`lost_branch`); a timer that fires before its run is parked (`timer_race`).

## Proofs

The theorems hold for every value of the constants that satisfies `ConstantsAssumption`
(declared in `WorkflowEngine`, evaluated by TLC in every run): references are disjoint from runs,
the graph is over `Nodes`, workers and handlers are disjoint, bounds are natural numbers.

`WorkflowEngine_proofs` proves the invariant `TypeOK /\ References`: the type alone is not
inductive, because a process indexes `nodeRuns` with its own `nr`, and because a job, an event and
the recovery hold indices that must exist. `References` says so, and also that a process works on
a NodeRun of its own run. Every action is one lemma; helper operators
(`Goto`, `Return`, `SetRun`, `EnqueueNode`, ...) have lemmas of their own that the actions cite.
Results: `TypeCorrect` (`Spec => []TypeOK`) and `ReferencesHold` (`Spec => []References`).

The same module proves the exclusion. `OneJobPerDefinition` needs `LocksHeld` (a
busy worker's definition is locked) and `Roles` (only workers execute, only handlers
resume, cancel and retry: a handler takes no lock and must not release one). `BudgetHolds`
needs `BudgetLeft` (between its check and its count a worker has an execution left), which is
preserved only because no other worker counts for the same run, that is by `OneJobPerDefinition`.
Results: `OneJob` and `Budget`.

It also proves that the engine implements `WorkflowRunLifecycle`. It first shows
that every step is a move (`RunsMove`): at most one run changes its status, and only along one of the
listed arrows, or a retry is claimed, or a child is created. This needs two facts that no single
action establishes. `WorkIsStarted`: whatever works on a run, every NodeRun and everything
the recovery has in hand belongs to a run that has been claimed by `handleRunQueued` or created by a
retry; hence a write that only asks `not terminal` (`ParkRun`, `ResumeRun`, `FailRun`, `FailCut`) finds
a running or waiting run and never a queued one. `RetryClaims`: a child exists only of a claimed run and
is its only one, and a handler between its claim and the creation of the child is alone and finds
none. Both are preserved because processes and NodeRuns follow their runs (`ProcsFollow`,
`NodeRunsFollow`, `RecoveryFollows`). From the moves follow `EndedStay` (`EndedRunsStay`),
`OneRetry` (`OneRetryPerRun`) and `Implements` (`ImplementsLifecycle`).

`WorkflowNodes_proofs` proves `SucceedsOnce` (`EachNodeSucceedsOnce`), for a forest of any size.
What a node of a run can still come to is a token: a job, a process between reading the NodeRun and
applying its result, the list of the recovery, or a process about to enqueue the node. `OneHolder`
says that a NodeRun is in one hand at most; `OneAttempt` that of two NodeRuns of one node the
earlier is spent (failed or interrupted, in nobody's hand) and that a process about to enqueue a
node finds all earlier tries spent and is the only one to do so; `Downwards` that a node a process
is about to enqueue, or that is in hand, has no successor that was touched already. The last one
needs the graph to be a forest: without it two predecessors enqueue a node twice, as the code does.
The recovery keeps all this because it takes over only what no process holds (`RecoveryInv`); a
handler that resumes a node during the recovery would be such a process, hence `NoEarlyResume`.
`WaitInv` makes that condition hold for graphs that never wait.

`WorkflowEnds_proofs` proves what the ends of runs mean, as long as there was no fault (`UpInv`:
then nothing is recovered). `SucceededComplete`: `SucceededIsComplete` for graphs with one trigger
and no waiting nodes. The invariant `SoloInv` says that one process at a time works on a run that
may finish: workers exclude each other by the definition lock, and a handler works on a run only
before its first NodeRun exists (`HandlerInv`). So nobody adds anything between the count of open
NodeRuns and the update (`FinishInv`), and whatever a run must still reach is reached, about to be
enqueued, or about to be looked up by the process that completed its predecessor (`TrigInv`,
`OutInv`). `CancelledClose`: `CancelledRunsClose` for graphs with one trigger that do not wait or do
not branch (`Sequential`). `CancelInv` says that what is open of a cancelled run has a job or a
process that looks at the run once more before it lets go of the NodeRun, and that a process about
to fail the run, and to remove its jobs, finds none. The second part needs that nobody enqueues at
that moment: by `SoloInv`, or, without branches, by `TokenInv`: a run is moved by one process, has
one job or one waiting NodeRun, never two of these. The conditions are not for convenience; the
section on exceptions says what happens without them.

`LlmGateway_proofs` proves, for any clients, endpoints, priorities and limits, `TypeCorrect`,
`Slots`, `Load`, `OneAnswer` and `NoLeak`. `SlotsAccounted` is about the number of holders, so each
step that takes or gives back a slot adds or removes one element of a finite set
(`FiniteAssumption`); in between, a lessee that holds no slot names none. `NeverOverloaded` needs
that a pool that was read has no higher concurrency than `highest`, so that an outdated list does no
harm. `NoMixedOutput` needs that a lessee that may still fail over has shown nothing. `NothingLeaks`
needs which steps a job can be in when its client, its subject and its timers are what they are: the
statement itself is not inductive, because it does not say that a finished job has published its
end.

`ScheduledWork_proofs` proves `TasksTyped`, `SchedulesTyped`, `ExecutedOnce` and `FollowsSchedule`
for `SystemSpec`, for any tasks, instances, plans and bounds. `AtMostOnce` needs `OnceInv`: what was
executed or is about to be lies in the past (`Past`: not after now and, while the task exists,
before its `nextRun`), what is about to be was not executed yet, and two rounds that execute the
same task do not share an occurrence. A claim starts at a `nextRun` that is still stored, thus at
occurrences that are not past, and moves it beyond now. All this is said of the occurrences outside of
`again`: a late `WriteUpdate` puts `nextRun` back, and just what came due since is in `again`.
`NextRunFollowsSchedule` needs `PlanInv`: a round keeps the plan together with the `nextRun` it
has read, an update the `nextRun` together with the plan it will write as long as the task still
has the plan it has read, and the division facts of `NextAfter` and `NextDate`.

Of the workflow schedules the module proves `OneRunPerSlot`, `OneOpenRun` and `SlotsRemembered`. The
invariant has one part per tick (`TickInv`): between check and start there is no open run of this
instance; what the tick has read as `lastRunAt` is settled, and of what it has missed all but the
slots it still has is settled. It is preserved because nothing that is settled becomes unsettled
(`MoreSettled`) and because `LockInv` keeps a second tick of the instance off the definition. Ticks
may thus end in any order and overwrite `lastRunAt` with what they have read.

`ReplicationSync_proofs` proves `FollowsStream` for any documents, bounds and faults. That the token
is not ahead of the log (`LoggedInv`) and that a change has one entry are preserved step by step;
the order of the entries needs `TokenInv`, since after a restart the stream begins at the token and
a change may be logged behind others: what is logged beyond the token has only dropped changes
between itself and the token, and while there is no token the writer is beyond everything that is
logged. So an entry is never numbered before one of an earlier change, unless one of them was
dropped.

It also proves `TypeCorrect` and `AtLeastOnce`. The types include that a loop which reads or writes
has an entry left. `CursorInv` follows a batch through both sides: the numbers of a log are unique
and not above the counter, nor is its cursor (`LogNumbered`); what the window left out as resolved
stays settled (`ExcludedSettled`); the window up to `last` is in the batch or was left out
(`Covers`); and a loop is settled up to `through`, has its first failure recorded, or has everything
beyond `through` still to do (`Progress`). A batch the driver has given up on has no part in this:
its loop goes on under another handler and the cursor waits. The answer moves the cursor to the end
of the window only when all of it is settled, and to `through` or past a dead letter otherwise.
Nothing settled becomes unsettled: a dead letter that was resolved or is pending is never counted as
retrying again. `Listed` proves that `InSeqOrder` lists a finite set with unique numbers in order.

`ReplicationConvergence_proofs` proves `Converges` (`SidesConverge`) and `DeletionsFinal`
(`DeletionsHold`). Both say something of quiet states only; the invariants behind them,
`ConvergeInv` and `DeleteInv`, say of every state why quiet will be right, one document at a time
and as long as no accident has touched it (`Calm`). `ConvergeInv` has five parts. At each side
versions only go up in the order of last write wins (`RisingInv`), although the applier compares
times that it read a step earlier: a write in between is `clobbered`. An entry carries at least the
version of its change (`CarriesInv`): the log writer looks the document up when it logs, so it may
carry a later one, never an earlier one. An origin tag, which makes the writer skip a change as an
echo, is only of a version the peer has reached, and at the side that wins ties never the time of a
version of its own (`TagsInv`); otherwise a user's change would be skipped and lost. What was
handled has reached its receiver (`HandledInv`), and what was logged has reached the peer or is in
the log as an entry the cursor has not passed (`DeliveredInv`). In a quiet state nothing waits, so
both sides have reached all versions of both, and the order has one greatest version. Ties need the
winner: two versions of one time differ in their authors, and only the one of the winner is above
the other.

For deletions the versions do not go up. `DeletingInv` says instead why a document that is back will
not stay: at its side there is a deletion of the peer that was not handled yet, or the peer has the
document too and has one of this side to handle, and deleting it there makes a new deletion for this
side. It is kept because each deletion is later than the time of every entry's version, hence no
unhandled deletion is skipped for its time, and because an entry that brings a document back while
the peer has deleted it stands for an earlier change than that deletion, which is therefore not
handled yet.

The attempt to prove an earlier form of `DeletionsHold`, that *one* deletion later than every
version is enough, failed for a reason that TLC confirms on larger bounds. One side writes a
document and deletes it in the same second. The peer, which has got the version and not yet the
deletion, deletes it too, later; the first side handles that. Then the repetition of a batch, whose
answer was lost, brings the version back at the peer, and the first side's deletion, which should
remove it, is skipped for its time. So the property asks that *each* deletion falls in a later
second than every version; documents that are deleted, created again and deleted again are outside
of it.

`ResearchRuns_proofs` proves every property of `ResearchRuns` for any finite set of documents, any
owners, handlers and bounds. `ResearchInv` has the types of the store and the requests and one part
per document, `Sound`. A run knows its document as it is, unless a request overtook it (`Known`); a
run that works has its controller, or its document was stopped (`Controlled`, `Stopped`); a request
never goes on with a document it has seen running unless it stops or deletes it (`Steady`), so that
what runs stays executed (`RunsOnlyExecuted`). What is queued has a job in the queue, in the hands
of a request or in those of the worker (`HasJob`). The frame lemmas reduce every action of a worker or
a request to the one document it is about: it leaves the others alone. `Sure` says what is left of
a check until its claim: an older document that waits by then is in `joined`, or the document is
itself, since whatever enters the queue joins (`JoinFrame`) and nothing else makes a document
older or lets it wait (`ChecksStay`). No order of the stamps is assumed.

All assumptions on constants are named in the modules that declare them and evaluated by TLC in the
runs.

The hypotheses of `SucceededComplete` and `CancelledClose` hold in the runs that check the two
properties (`parallel_runs` forks, has one trigger, never waits and has no fault;
`waits_and_answers` waits and has no branch).

Only model-checked: liveness (`RunsEnd`, `Settles`, `JobsEnd`, `AgentsEnd`), which is out of reach
of the prover: it does not reason about fairness and `ENABLED`. No safety property of the passing
runs is left without a theorem.

## What the properties except

Several properties hold only outside of situations in which the code gives up, by design or by
neglect. The modules record those situations in history variables, which name them exactly:

- Engine, early ticks: `NoEarlyResume`, see above.
- Engine, `SucceededIsComplete`: with several triggers `handleRunQueued` enqueues them one by one,
  and a worker may finish the run between two of them. A handler that resumes a node holds no
  definition lock: while it is about to enqueue the successors, or has counted the open NodeRuns, a
  worker may be executing another branch, and the run is finished too early. A failed operation or a
  crash between two successors loses one (`lost_branch`).
- Engine, `CancelledRunsClose`: when branches meet a waiting node, a resumed handler may enqueue a
  successor after the cancellation has closed the run's NodeRuns; if another branch then fails
  without being handled, `failRun` removes the job, and the NodeRun stays queued. TLC finds these
  three (two triggers without edges; a delay with a successor beside a plain node, which succeeds in
  one case and fails in the other) within a thousand states.
- Replication, `dropped`: a change whose logging failed is swallowed, and the token of the
  next change passes it; a stream restarted without a token misses what lies in between.
- Replication, `clobbered`: an apply reads the timestamp and then writes, so a local change in between,
  or a late duplicate of a batch the driver gave up on, may be overwritten; the applied record is
  written before the write it belongs to and may outlive its failure. The document stays
  different until its next change. A delete in the same second as the last version is skipped by the peer.
- Replication, `ResolvedEarly`: a dead letter that is discarded or replayed before the cursor has
  passed its entry is sent again, fails again and never becomes pending a second time: the direction
  stands still, although the comment at `replication/replication-deadletter.service.ts:17` says that
  a dead letter never blocks. A single entry that is too large (413) blocks in the same way: it is
  never counted as a failure.
- Research, `overtaken`: resume, retry and cancel patch by id on a document they read before; two
  such requests at once, or one that overtakes the worker, may undo each other; the late end of a
  request removes the controller of the next run. Two concurrent deepenings lose one question.
- Research, `spoilt` and `missed`: errors of the store at a point where the code has no second
  attempt, an owner who is gone, a round that was not saved; an `add` that is swallowed
  because the old job of the same id has looked already and is about to complete, or that fails, also
  in `requeueWaiting` at a start; a removal that takes the job of a document that another request has
  put back into the queue.
- Research, `stranded`: a document counts as running and nobody works on it, because `lastResort`
  has failed too and the error is only logged (`research-runner.service.ts:156-161`), because
  `pauseAllRunning` has failed at a start (`73-79`), or because a claim was written although its
  call failed, so that the job drops the document when it looks again. Until a later start it takes
  room of the pool.
- Research, `joined`: the stamp of a document is taken before the awaited write, and check and claim
  are two steps (`research-runner.service.ts:92`, `95`), so a document with an older stamp may
  appear between them and be overtaken; and a document that is withdrawn and put back between its
  own check and claim is claimed with its new stamp. That is all: for any other two documents the
  order holds.
- Research, capacity: `mayStart` counts and claims later, so two workers at once may exceed
  the capacity by one. No property says otherwise.
- Recurring tasks: `AtMostOnce` is not "exactly once". The claim precedes the execution, so a crash
  loses what was claimed; `computeNextRun` starts with the next day
  (`recurring-tasks.service.ts:227`), so an occurrence later on the day of a late claim is lost, and
  so is one between the tick's time and its claim. Deactivating a task does not stop its catch-up.
- Recurring tasks, `mixed`: `update` reads the task, computes `nextRun` from the given and the read
  fields, and later writes the given fields and that `nextRun`
  (`recurring-tasks.service.ts:154-180`). Of two updates that overlap, one of the hour and one of
  the weekday, the second to write leaves a `nextRun` that fits neither the old plan nor the new
  one, until the next claim. `NextRunFollowsSchedule` is violated by three steps if the exception is
  dropped.
- Recurring tasks, `again`: an update whose write comes only after the `nextRun` it computed was due
  sets the task back behind occurrences that a round may have executed meanwhile: those are executed
  again. `UpdateFails` and `WriteUpdate` may come at any time, since nothing bounds the await.
- Schedules, the first check: `passed` has three reasons, an open run, the catch-up limit and
  `"first"`. The comment at `workflows/engine/scheduler-helpers.ts:22-25` says that a definition
  without `lastRunAt` gets "just the most recent slot up to `now` so the first cron tick fires
  once"; the code (`35-38`) asks for the slot after one millisecond before `now` and takes it if it
  is not later than `now`, which is a slot at that very millisecond and no other. So a first tick
  starts nothing but by chance, and all slots before it are passed over. Nor does it help when two
  ticks, also of two instances, have both read the definition before the first of them saved it: the
  slots between the two are lost as well. Without this exception TLC refutes `NoSlotForgotten` with
  the first tick of a definition.
- Schedules: two instances may start different slots of a definition at once (the lock is in
  memory). A tick that ends late puts `lastRunAt` back, and the repeated slots use up the catch-up
  limit. A definition that is active again runs a slot of the time it was not. A parked run that is
  resumed overlaps with a later one, which the code allows.

Hazards of the engine that no property covers: a run cancelled after its worker read it and before
the AbortController is registered (`workflow-engine.service.ts:410`) executes to its end, without
effect; a failing branch leaves NodeRuns queued (`:1329`); a crash after a delay node was saved as
waiting and before its run was parked (`:1614`); an error after the retry was claimed and before its
child exists (`:1545`); retries count against the node budget (`:984`).

## Not modelled

- Debug runs (`debugStep`, `applyDebugResult`, `recoverDebugRun`): a second interpreter of the graph
  inside the engine; its states multiply with those of the engine, whose runs are at their
  bound. `testNode` and `previewNode` touch no run. Deleting a definition removes its runs.
- Event triggers: an event is a `StartRun` by the environment; which events match is data.
- The full sync and the legacy push, pull and receive: a one-time copy, superseded by the driver. Of
  the driver: backoff, alerts, the limit of batches per cycle, changes of the opt-in, the limit of
  fresh restarts of the stream, the pruning of old letters. Clocks that differ between the
  instances.
- The lease of the research LLM, payloads, tool calls and usage figures of the balancer.
- The tasks, plan and report of a research beyond what controls its runs; moving it to another project.
- Recurring tasks started by hand (they take no part in the schedule), what their actions do, and of
  the calendar the biweekly plans and those by months (`recurring-tasks.service.ts:502-542`).
- The stall limit of BullMQ: a job that is found stalled more than once fails for good. In the
  modules a stalled job is handed out again.
- Refresh-token rotation and SSH sessions carry small protocols of their own and are not specified.
- Everything listed as `not_modelled` in `PROJECT.json`: documents that are created, read, updated
  and deleted one at a time, adapters to external systems, text, and the user interface, which keeps
  no state the backend relies on. There is no state in them that two actors could bring out of step.
