# Verification of PowerX's background protocols

PowerX is a multi-tenant platform for plugins and AI agents. Much of what it
promises is kept by processes that share Redis and PostgreSQL and may crash,
stall and be replaced at any point: durable agent runs, the sessions they answer,
the delivery of events, scheduled jobs, workflows and the draining of plugins.
This directory models these protocols in TLA+, checks them with TLC on small
instances, and proves with TLAPS, for every instance, the safety properties of
all of them, among them that the run with its workers, services and messages only
uses the store's transactions and keeps its contract, and that the delivery of an
event is a chain of retries that ends once.

Sources are relative to `backend/` unless stated otherwise.

## 1. Inventory

### 1.1 The agent run and its parts

| Part | State | Operations | Talks to |
| --- | --- | --- | --- |
| RunStore (`internal/service/agent_run/{store,plan_store,task_transition,execution_receipt,planning,cancel}.go`) | per run, in one Redis slot: snapshot (status, plan revision, version, event sequence, deadline), task records (status, owner, fence, lease, queue time, execution token and receipt), plan, outbox, event stream | `Create`, `RecoverAdmission`, `StartPlanning`, `CompletePlanning`, `ExpirePlanning`, `QueueTask`, `MarkCapacityWaiting`, `LeaseTask`, `StartTask`, `CompleteTask`, `FailTask`, `SkipTask`, `ExpireQueuedTask`, `ExpireUnstartedTask`, `RenewTaskLease`, `executionReceipt` (claim and store), `Cancel`, `Transition` | called by everybody below |
| TaskBus (`pkg/event_bus/redis_stream_task_driver.go`, `redis_lease.go`) | stream, consumer group with pending entries, delay set, dedupe keys, per-message lease and token counter | `Enqueue`, `PromoteDue`, `Dequeue` (claim or read, then `Acquire`), `Renew`, `Ack`, `Defer` | dispatchers, workers |
| Workers (`worker_service.go`, `worker.go`, `planning_worker.go`) | goroutine locals: the delivery, a version read earlier, the result to commit | `process`, `ProcessDelivery`, `ProcessPlanningDelivery` | TaskBus, RunStore, capacity, the business executor |
| Recovery (`recovery.go`, `reconcile.go`, `dispatcher.go`) | the dispatch cursor in Redis; locals | `RecoverRun`, `ReconcilePlan`, `DispatchPending` | RunStore, TaskBus; run by the scanner of every worker service and by workers after they finish |
| Sessions (`internal/service/agent_session/{service,invocation,durable_admission,durable_finalization}.go`) | SQL rows: sessions with a revision, messages, invocations with the anchor of their run | `Append`, `Mutate`, `Invoke`, `admitDurable`, `submitPlanning`, `Cancel`, `GetInvocation`, `ListUnfinishedRuns`, `FinalizeRun`, the local executor | RunStore, TaskBus |
| Execution capacity (`execution_capacity.go`) | two sorted sets of leases | `Acquire`, `Renew`, `Release`, `Execute` | workers |
| Archive and retirement (`archive.go`, `archive_lifecycle.go`, `durable_archive.go`, `redis_stream_retirement.go`) | report object, locator in Redis and SQL, expiry of the run's keys, retirement markers | `ArchiveRun`, `RecordArchivedRun`, `RetireRun`, `ExpireArchivedRun`, `RecordHotExpiry` | RunStore, TaskBus, object storage, SQL |

What is hard here:

* **Concurrency.** Every process may reconcile and dispatch every run; several
  workers may hold deliveries of the same message. Only versions, fences and
  leases keep them apart.
* **Failure.** A process can die between any two Redis calls: between commit and
  Ack, between Enqueue and cursor, between executing and storing the receipt.
* **Ordering.** A reconciler reads the version, then the tasks, then commits; a
  lease is taken in two commands.
* **Time.** Three leases per delivery, a queue-wait limit and a run deadline all
  race with results.

What makes it correct: a business call begins at most once; plan order holds;
outcomes and final statuses are decided once; no task is lost between outbox and
bus; the event stream ends with its one final event; every admitted run ends.

### 1.2 The other protocols

| Part | State | Operations | What is hard |
| --- | --- | --- | --- |
| Event Fabric delivery (`internal/service/event_fabric/delivery`, `pkg/event_bus/redis_retry.go`) | envelope and attempt rows, the Redis retry set, delivery leases and their counters, dead letters | `Publish`, `PollRetry` (`PopDueRetries`, `AcquireLease`), `Ack`, `Nack`, `pushToDLQ` | reading and removing the retry set are two commands; upserts keep the UUID of the row while the caller holds a new one; keys expire separately |
| Runtime scheduler (`internal/service/runtime_scheduler`) | job and run rows, an advisory lock per job | `CreateJob`, `UpdateJob`, `PauseJob`, `ResumeJob`, `TriggerJob`, `DeleteJob`, `DispatchDue` | several replicas dispatch; the event goes out after the commit; the session holding the lock may break |
| Workflow engine (`internal/service/workflow`) | instance, step records, human review tasks | `RunDueSteps`, `DrainDueSteps`, `ActHumanReviewTask`, `ControlInstance` | nothing runs in a transaction: joins, convergence, reviews and control actions interleave statement by statement |
| Plugin lifecycle (`internal/service/{plugin,setting}`, `internal/transport/http/admin/plugin`, `internal/infra/plugin/manager`) | registry state, tenant bindings, drain jobs, running work | enable and disable of a tenant, credential rotation, deletion of a row, drain, refresh, system enable, disable, restart, boot, install, uninstall | every handler is several commits and may stop between them; checks take no lock; a whole row read earlier is written back |

What makes them correct: an event or job is never forgotten and never handled a
second time by the machinery itself; steps come after their dependencies and
approvals; who asks while a plugin drains is refused, and no tenant is left half drained.

`PROJECT.json` lists every part of the repository with its status and reason.
IAM and RBAC, the capability registry, knowledge spaces, model routing, plugin
release governance, notifications, the admin UI and generated code are CRUD,
external I/O or presentation and are not modelled.

## 2. Modules

```
RunContract          what a run promises (abstract)
   ^ refinement (KeepsContract)
AgentRun  --EXTENDS-->  RunStore
   |  (UsesStore: AgentRun's steps are RunStore transactions)
   +--INSTANCE-------->  TaskBus

ExecutionCapacity   the slots that AgentRun's Refuse stands for
ServiceSession      the SQL side of admission and finalization
RunArchive          what happens to a run after its terminal status
RetryChain           what the delivery of an event promises (abstract)
   ^ refinement (KeepsChain)
EventDelivery
RuntimeScheduler, Workflow, PluginDrain   protocols of their own
MC<module>: the instance for TLC

<module>Proofs: theorems and proofs.  AgentRunProofs is also about RunStore,
RunContract and TaskBus: the invariant of the store holds of the whole run.
```

Where TLC has to see several deployments, definitions or schedules of a
protocol, they are elements of a constant (`Policies`, `Layouts`, `Setups`,
`Schedules`) of which the initial state chooses one; the ASSUME of the module
says which of them are legal.

**RunStore.** One action per WATCH/MULTI transaction. A transaction that would
return `ErrConflict` or `ErrInvalid` is a disabled action: it changes nothing.
The version the caller observed is the parameter `v`. `StoreSpec` lets arbitrary
clients call the transactions in any order with any owner and fence, so what
holds of it holds whatever workers and scanners do.

Correspondence of state: `run` is `Snapshot`, `task` the task hash (the planning
task, revision 0, and the steps, revision 1), `plan` the dependencies, `outbox`
the outbox stream, `events` what the properties need of the event stream (the
kind of its last entry and the number of final ones). Times are kept as the
result of the comparisons the code makes: `pastDeadline`, `live` (the task
lease), `waited` (longer than `queueWaitTimeout` in the queue). A lease lapses
and a limit passes by actions of their own. The execution token, a fresh UUID in
the code, is represented by the claiming fence, which no second claim can have.
Task statuses that no code path produces (`retry_wait`, `verifying`), pools,
result references and timestamps are left out. `InstallPlan` is called by tests
only and has no action.

**TaskBus.** A message is nowhere, in the stream, pending, in the delay set or
acknowledged. `Acquire` is split in its two commands, INCR (part of `Dequeue`)
and SETNX (`SetLease`). The lease value `owner:token` is represented by the
token. Renewal only moves times, so what is left of it is when it is accepted
(`HoldsDelivery`).

**AgentRun.** Processes run the handlers of section 1.1 one Redis call at a time
and remember in `local` what the Go locals hold. A read followed by a CAS that
the code retries on conflict (`worker.go:69-89`, `163-193`) is one action; a
version that is read once and used later (`planning_worker.go:47-70`,
`reconcile.go:23-135`) is kept in `ver`. The workers of a service share one
owner name (`worker_service.go:105`), and so they do in the model. A delivery
that is given up without Ack leaves the process idle and the entry pending.

| Model | Code |
| --- | --- |
| `Dequeue`, `AcquireLease`, `Accept`, `Refuse`, `DeferDelivery`, `AckDelivery` | `WorkerService.Run`, `process`, `RedisStreamTaskDriver` |
| `CheckDelivery`, `TakeLease`, `Start`, `Claim`, `Execute`, `KeepReceipt`, `Settle`, `Finish` | `ProcessDelivery` |
| `CheckPlanning`, `LeasePlanning`, `BeginPlanning`, `Build`, `CommitPlan`, `FailPlanning`, `CloseFailedPlanning` | `ProcessPlanningDelivery` |
| `Scan`, `RecoverStart`, `RecoverExpire`, `ReconcileRead`, `ReconcileTasks`, `ReconcileCommit`, `DispatchRead`, `DispatchEnqueue`, `DispatchAdvance` | `scan`, `RecoverRun`, `ReconcilePlan`, `DispatchPending` |
| `Admit`, `Submit`, `CancelRun` | admission and its recovery, `submitPlanning`, `Cancel` |
| `Crash`, `Stall`, `Interrupt` | process exit or Redis error, late heartbeats, a cancelled execution context |

**RunContract.** The promise, without stores, leases or messages: a plan is fixed
once, rights to execute are granted once and in order, outcomes are decided
once, only a granted step completes, and the run closes once with the status its
outcomes add up to (`blocked` as soon as one outcome is unknown). The mapping
reads it off the store: a step is granted when it has an execution token.

**ExecutionCapacity.** One action per Lua script and per step of `Execute`.
Scores and key TTLs are countdowns that `Tick` lowers: a member at 0 has lapsed
and still counts until somebody purges it. A worker that is stalled misses its
ticker; one that is punctual renews before the next tick. Two deployments may be
configured with different policies: the first publishes its policy, the other
does not start.

**ServiceSession.** What `WithSession` does under the row lock is one action;
everything the handlers and scanners do outside it is a step of its own with the
row values they read. The run is its status in Redis and moves by `RunEnds`,
which AgentRun refines. `exposed` remembers to whom a completion was shown.

**RunArchive.** The steps of the durable consumers' `FinalizeRun` after a run is
terminal, each of which may be the last of its process. Absolute times matter
here (the expiry is computed from `archived_at`), so the clock is a number.
`RetireRun` scans stream, dead letters and delay set one after the other against
dispatchers that enqueue, workers that nack and consumers that promote.

**EventDelivery.** Items of the retry set, the batches pollers hold, the
deliveries in subscribers' hands and the stages of their answers. `known` says
whether a UUID in memory is that of a row. A stream that finds an event of another
topic works in three commits, and so does the model: it puts the item back
(`PollOtherTopic`; the first attempt is due at once), then makes the row pending
(`PollRevert`), then returns the lease (`PollRelease`), and another stream may
deliver the item and be answered before the second. What may go wrong is recorded
in `faults`, so that every property names what it survives:

| Fault | Happens when |
| --- | --- |
| `republish` | the event ID is published again |
| `race` | two pollers read the same range of the retry set |
| `silence` | a subscriber never answers |
| `error` | `PollRetry` drops an item whose look-up or reschedule failed (`PollLoses`), or returns an error or dies and loses the rest of its batch and what it was to return (`PollFails`; `delivery/service.go:775`, `:811`, `:837`) |
| `overtaken` | `PollRevert` writes `pending` over an attempt that was answered meanwhile (`delivery/service.go:854`) |

A delivery is answered once: `Nack` has no guard on the status of the attempt
(`delivery/service.go:547`), so that a second call for the same delivery would add
a second dead letter, or reset the next attempt, and such a client is not in the
model.

**RetryChain.** The promise, without queues, leases, pollers or envelopes: each
subscriber has one chain of attempts; an attempt begins only after the one before
it has failed, there are at most `MaxRetry`, and the chain ends once, acknowledged
or in the dead letters. The mapping (`ChainOf`) takes the newest attempt that has
a row, which is what the lookup of `PollRetry` takes, and where it stands: due,
succeeded, failed or dead. No answer looks at the status of its attempt
(`delivery/service.go:422`, `:547`), so that an attempt is answered once, and only when it
is due, is a matter of who holds what and not of a guard.

**RuntimeScheduler.** One job; actors take the fence, read, commit, publish and
release in separate steps. Time is the time a scan began (`at`), kept while the
dispatcher waits. A cron expression is the set of times it matches.

**Workflow.** One instance. Records are numbered in the order of their ids, and
keep how often they were executed (`runs`) and whether the operator asked for them
(`manual`). An actor keeps the batch it leased, the next steps it still has to
queue and the states it is about to write. A batch is worked in the order of ids,
so that it is a set whose smallest element is the record the actor is at
(`Current`).

**PluginDrain.** A request is a process with a program counter and the values it
has read; `Abandon` ends it between any two statements. Every way to start the
runtime (enable, restart, restore at boot, installation) goes through
`mgr.Enable`, which first reads the system tenant's row for the runtime's own
credential and creates an enabled one when there is none, with no look at drain
jobs (`ReadCredential`, `WriteCredential`); an installation does so once before it
registers the plugin and again when it starts it. A rotation of a tenant's
credential reads the row (`RotateRead`), hashes the new secret and writes the whole
row back (`RotateWrite`), then enables the row if the handler had seen it enabled
(`KeepEnabled`). The variable `revived` is no state of the code: it records the
tenants for which such a write brought an earlier draining state back. Running work is of two
kinds: scheduler jobs, which are created by a request that asked for draining rows
first, and event tasks, which background producers register without asking
(`EnqueueTask`).

| Module | Actions | Code |
| --- | --- | --- |
| ExecutionCapacity | `NewExecutionCapacity`, `Acquire`, `Renew`, `RenewError`, `Return`, `Release` | `execution_capacity.go` |
| ServiceSession | `Append`, `Mutate`, `Invoke`, `AdmitDurable`, `SubmitPlanning`, `GetRow` ... `Expose`, `FinalizeRead`, `FinalizeCommit`, `Scan` ... `ScanDone`, `Executed`, `ExecuteFinish` | `service.go`, `invocation.go`, `durable_*.go` |
| RunArchive | `FinalizeRun`, `PutReport`, `Locate`, `RecordArchivedRun`, `RetireMark`, `RetireEntries`, `RetireDelayed`, `ExpireArchivedRun`, `RecordHotExpiry` | `archive.go`, `archive_lifecycle.go`, `durable_archive.go`, `redis_stream_retirement.go` |
| EventDelivery | `PublishEnvelope`, `PublishAttempt`, `PopRange`, `PopRemove`, `Poll*`, `Ack`, `AckEnvelope`, `Nack*`, `PushToDLQ` | `delivery/service.go`, `redis_retry.go` |
| RuntimeScheduler | `ListDue`, `TakeFence`, `ReadJob`, one commit action per operation, `Publish`, `ReleaseFence` | `service.go`, `mutation.go`, `cleanup.go`, `fence.go` |
| Workflow | `LeaseQueuedSteps` ... `WriteInstance`, `ActHumanReviewTask` ... `ApplyDecision`, the control actions | `runner.go`, `human_review.go`, `service_control.go` |
| PluginDrain | `ReadJob` ... `SaveJob`, `CreateDrainJob`, `Subscribe` ... `UpsertEnabled`, `Unsubscribe`, `Rotate*`, `KeepEnabled`, `DeleteInstance`, `DisableByTenant`, `ScheduleCheck`, `EnqueueTask`, `ReadCredential` ... `StartRuntime`, `SystemDisable`, `Uninstall` ... `CompleteFinalUninstall` | `drain_job_service.go`, `tenant_instance_service.go`, `plugin_instance_config_service.go`, `lifecycle.go`, `install.go`, the handlers |

## 3. Runs

| Run | Instance | Checks |
| --- | --- | --- |
| `run_store` | two steps; plans independent, chained and cyclic (refused by `validPlan`); fences 1..2 | type, plan installation, plan order, one final event, one grant, finality |
| `agent_run` | one step, two workers with one owner, one service process, one fault | at most one execution, receipts, no lost task |
| `agent_run_chain` | two dependent steps, one worker, one service, one fault | refinement of RunContract and of StoreSpec |
| `agent_run_live` | one step, one worker, one service, fences 1..4, one fault; fair | every admitted run ends |
| `agent_run_review` | as `agent_run` with one worker | the documented review rule, which the code does not keep |
| `execution_capacity` | two workers, two runs, two policies, three tokens; fair | the limits hold for workers within their lease, also when a lapsed slot could come back; a punctual worker keeps its slot, an orphaned slot becomes free |
| `service_session` | two invocations of one session or of two, both modes, a handler, a scanner, one fault; fair | one active invocation, one answer per success, no completion without its message, finality, every durable invocation is finished |
| `run_archive` | two scanners, two messages anywhere in the queue, one fault; fair | the history is always somewhere, a retired run is quiet, the expiry is confirmed and real |
| `event_delivery` | four setups of subscribers, streams and retry worker, two attempts; faults see below; fair | no attempt is forgotten, an exhausted chain has one dead letter, refinement of RetryChain, every chain settles |
| `scheduler` | two dispatchers, a caller, once/interval/cron schedules that may be exchanged, one fault; fair | a time of a recurring schedule fires once, a once run is the last, publication under the fence, a due job is handled |
| `workflow` | four instances (see below); fair | no lost step, one execution per record, the review gate, convergence |
| `plugin_drain` | all operations one at a time; two requests at once in three groups of operations; two tenants, two drain jobs | no tenant stranded in a drain, nobody admitted and nothing stopped under a drain that began before they looked, no use of a removed plugin |

The modules also state the types of their variables (`RunTypeOK`,
`CapacityTypeOK`, ...). Of these only `DeliveryTypeOK`, which
bounds a counter, is a property of a run. The others are the first conjunct of
the inductive invariants and are theorems of their own.

**Bounds.** `MaxFence` bounds the deliveries per message: two are a delivery and
a takeover, the shortest history in which a zombie, a stale token or a second
claim exists. The liveness run has four, more than a run with one fault
can use, so that the bound never stands in the way of progress. `MaxFaults`
bounds crashes, stalls, refusals of capacity, cancelled contexts and clock skew
together; one fault already separates every pair of adjacent calls, since it can
hit any process between any two. Two workers are needed for a takeover while the
first is alive; with one worker and a crash the same process takes over. Two
steps in a chain are the smallest plan in which order, skipping and the partial
outcome exist. Workers are symmetric in `agent_run`, which has no temporal
property. Deadlock is checked in the AgentRun runs (a finished run may stutter);
the store alone may stop, so its configuration turns the check off.

*The other modules.* `execution_capacity`: the limits 1 and 2 make the tenant's
set and the run's set refuse; three tokens are enough for a slot that lapsed, its
successor and a renewal. `service_session`: `MaxRevision` bounds what users
write beside the two invocations. `run_archive`: `ArchiveBy` keeps archivers from
running for ever, which the code bounds by the scan's own context; `MaxTime` is
past the expiry they compute. `event_delivery`: with two attempts there is a
retry and a last attempt. Two streams of one subscriber, the second for another
topic, meet every fault but the race, each of them in the same behaviour as the
others; two streams of which the second takes other versions, and a stream and the
retry worker, meet any one fault; two subscribers, a stream and the retry worker,
meet none. Another topic together with a race is too large for the liveness
property and is left to the theorems of section 4. Three
attempts, where a raced batch can bring an older attempt back after its
successor was followed, are out of reach with the liveness property; there the
theorems of section 4 take over, and their inductive invariant was explored by
TLC with three attempts, and with two publishers and three faults, before it was
proved.
`scheduler`: four revisions are a creation, a run, a change and a run; the cron
expression has no time after its second, so the search fails once. `workflow`:
a diamond with a decision and a rollback under two runners; a line of two steps
under two runners and every pair of control actions; stage, review, publish or
notify with a runner and two reviewers; five steps in three branches left to one
runner, which is the instance `Settles` is about (it speaks of behaviours with
one runner, no review and no disturbance). Two properties of the workflow say of
which definitions they hold. `NoStepLost` is about steps that every step they
depend on leads to (`Joined`): a dependency without an edge never queues what waits
for it, and a rejected review completes without leading to its approved route.
`ApprovedBeforePublish` is about steps that nothing but an approval leads to
(`Gated`). `plugin_drain`: every operation is run with
one request at a time, each of which may be abandoned half way. Two requests at
once would not fit with all of them, so that they are checked in three groups:
what admits and drains (with a scheduler job), what rewrites or deletes rows while
a drain goes on (with an event task), and what starts and removes the runtime
meanwhile. `DrainingHasActiveJob`, `AdmittedBeforeDrain` and `StoppedBeforeDrain`
are about any interleaving. `RemovedIsUnused` is about one request at a time: the
checks before an uninstall take no lock, a subscription may slip into the window
between them and the removal, and the property says nothing of that window. Two
drain jobs are one that has ended and its successor. In the configurations that turn deadlock checking off
the clock, the revisions or the work run out.

**Fairness.** Weak fairness of every goroutine's next step (the Go scheduler);
strong fairness of the scanner, because `WorkerService.Run` calls `scan` every
`ScanInterval` on a goroutine of its own while the model lets one service
process serve requests and scan in turn (a client that submits forever must not
be able to starve it); and weak fairness of leases and pending entries that lapse, of the promotion of due entries (every `Dequeue`
does it) and of the deadline. None of admission, cancellation, faults or the
queue-wait limit is fair. `EventuallyTerminal` says that an *admitted* run ends.

In the other modules fairness is asked of what the code repeats by itself: time
and tickers (`ExecutionCapacity`, `RunArchive`, `RuntimeScheduler`), the scan
loops of worker services, replicas and the workflow worker, deadlines and key
expiry, and the next step of a request that has begun where the property is about
undisturbed behaviour (`Workflow`, `EventDelivery`, the dispatcher). `EventDelivery`
asks in addition that a stream stalls between two commands for longer than the
lease it holds only finitely often: otherwise a stream of another topic could find
its lease gone each time it returns it, and the counter would keep the others
waiting. A poller's
`PopRange` is strongly fair for the whole queue: backoff delays end and a poller
polls again and again, although an item may be taken out and put back in between.
Nothing is asked of users, of request handlers in `ServiceSession`, which may
abandon their work anywhere, or of faults.

**Finding.** `agent_run_review` shows a disagreement between the design document
and `worker.go:149-157`. A task that was claimed under an earlier lease and left
no receipt has an unknown outcome: `specs/031-agent-runtime-durable-scheduling/
data-model.md:11` and `tasks.md:54` ask for manual review without exception.
When the run deadline passes while the new worker settles the task, the expired
context replaces `ErrExecutionUncertain` and the task is failed as
`run.deadline`; the run then ends `failed` or `partial` instead of `blocked`.

**Divergences met while modelling.** These follow from the models' actions in a
few steps; no run is kept for them, and the properties above are stated so that
they do not claim the opposite.

* *Event Fabric.* A delivery that is never answered stays `delivering`: the item
  has left the retry set and only its lease keys expire
  (`delivery/service.go:834`). A batch that `PollRetry` had removed from the retry
  set is lost to its error returns (`:775`, `:811`, `:837`), and an item to a look-up
  or a reschedule that fails (`:788`, `:794`, `:827`): the attempts stay `pending` or
  `delivering` and nothing delivers them. The late write of `pending` (`:854`) may
  follow the answer of the stream that took the rescheduled item: a succeeded or
  failed attempt is then pending, no item leads to it, and a chain that had ended is
  due again. Publishing an event ID again upserts the envelope
  back to `pending` (`envelope_repository.go:52`). Two pollers that read one batch
  are both granted the lease of its attempt (`redis_retry.go:136`). After such a
  race an older attempt may be answered a second time: `Nack` then resets its
  successor to `pending` (`delivery_repository.go:40`), and when that successor
  was itself followed already, the new item leads to the newest attempt only and
  nothing delivers the reset one. It takes three attempts; it is why
  `NothingForgotten` speaks of the newest attempt after a race.
* *Scheduler.* A process that stops between the commit of a run and its
  publication loses the event (`service.go:527`). A cron job whose next time is
  beyond the search horizon keeps `next_run_at` and fires at every scan
  (`service.go:500`); `SlotFiredOnce` excepts exactly that run and so says
  nothing of this one. The fence and the revision check of a commit each keep two
  dispatchers apart: `SlotFiredOnce` and `OnceRunsOnce` fail in a model without
  both and hold in a model without either one, so that the loss of one of them
  alone would go unnoticed.
* *Workflow.* Two runners may both queue a join (`runner.go:411`); a convergence
  may write an old verdict (`runner.go:493`); a step leased before a pause is not
  run after the resume (`runner.go:217`); a runner that is executing writes over
  `canceled` (`runner.go:388`); two reviewers may approve and reject the same
  task (`human_review.go:152`); a decision before its step waits is recorded and
  then refused (`human_review.go:191`); a manually retried step leaves its failed
  record, which the convergence still counts (`runner.go:475`).
* *Plugin drain.* A credential rotation that read a draining row and writes it
  back after the drain's refresh has marked it drained and saved the job ready
  leaves a tenant that drains under a closed job, which keeps the plugin closed to
  everyone (`plugin_instance_config_service.go:154-184`); one that read an enabled
  row makes it enabled again under a drain, and so does `tryKeepEnabled`
  (`tenant_handler.go:306`). Starting the runtime creates an enabled row for the
  system tenant although the plugin drains (`lifecycle.go:50`,
  `bootstrap/plugin.go:239`): after an installation without enable and a drain that
  is ready at once, a restart gives the plugin a tenant with one request at a time.
  An installation creates the row before the plugin is registered and leaves it
  when it fails, and a system row that was drained or disabled refuses every later
  start until an uninstall deletes it or that tenant subscribes again. A refresh
  counts the running work and marks the rows drained later
  (`drain_job_service.go:622`): a scheduler job created in between is missed, and
  event tasks are registered without any look at the plugin's state
  (`task_queue/stream_history.go:77-98`), so that "drained" does not mean that the
  work has ended, not even with one request at a time; no property claims it. A
  drain without enabled tenants is ready although work is running (`:507`), and a
  ready job lets the scheduler admit plugin jobs, since it asks for draining rows
  only; a refresh revives a completed job (`:595`); a subscription or a stop that
  passed its check before a drain acts after it, which `AdmittedBeforeDrain` and
  `StoppedBeforeDrain` allow and nothing more; a system enable completes the ready
  jobs before the runtime is up; an uninstall that stops after the registry entry is
  gone cannot be repeated; only the 20 newest drain jobs are looked at (`:146`).

**Mutants.** Definitions such as `Claim_RetriesUncertain` or
`DispatchAdvance_ToEnd` are variants of the action that follows them, each a
plausible mistake in the code. No specification uses them; replacing the action
by its variant makes the property it is paired with in `PROJECT.json` fail.

## 4. Proofs

Every theorem is about the specification of its module (`StoreSpec`, `Spec`), for
every value of the constants that satisfies the module's assumption. All
invariants of the passing runs are proved, and so are the refinements and the
action properties about safety.

| Module | Theorem | Says |
| --- | --- | --- |
| AgentRunProofs, of RunStore | `TypeCorrect` | `[]StoreTypeOK` |
| | `NothingBeforePlan` | `[]NothingBeforePlanning` |
| | `DependencyOrder` | `[]QueuedAfterDependencies` |
| | `SingleFinalEvent` | `[]OneFinalEvent` |
| | `TerminalRunsStay`, `OutcomesStay` | `TerminalIsFinal`, `OutcomeIsFinal` |
| | `ExecutionRightStays` | `ExecutionRightIsUnique` |
| AgentRunProofs, of AgentRun | `RunTypeCorrect` | `[]RunTypeOK` |
| | `ImplementsStore` | `UsesStore`: AgentRun implements StoreSpec |
| | `ExecutedOnce` | `[]AtMostOnceExecution` |
| | `CompletedKeepsReceipt` | `[]CompletedHasReceipt` |
| | `RunKeepsContract` | `KeepsContract`: AgentRun implements RunContract |
| | `NothingLost` | `[]NoLostTask` |
| ExecutionCapacityProofs | `CapacityTypeCorrect` | `[]CapacityTypeOK` |
| | `LimitsAreKept`, `HealthyIsNotCancelled` | `[]LimitsHold`, `[]HealthyKeepsSlot` |
| ServiceSessionProofs | `SessionTypeCorrect` | `[]SessionTypeOK` |
| | `OneIsActive`, `AnsweredOnce` | `[]OneActiveInvocation`, `[]OneAnswer` |
| | `ShownIsAnswered`, `FinishedStays` | `[]CompletionHasMessage`, `FinishedIsFinal` |
| RunArchiveProofs | `ArchiveTypeCorrect` | `[]ArchiveTypeOK` |
| | `NothingIsForgotten`, `RetiredStaysQuiet` | `[]HistoryIsKept`, `[]RetiredIsQuiet` |
| EventDeliveryProofs | `DeliveryTypeCorrect` | `[]DeliveryTypeOK` |
| | `NoneForgotten`, `DeadLetteredOnce` | `[]NothingForgotten`, `[]ExhaustedIsDeadLettered` |
| | `DeliveryKeepsChain` | `KeepsChain`: EventDelivery implements RetryChain |
| RuntimeSchedulerProofs | `SchedulerTypeCorrect` | `[]SchedulerTypeOK` |
| | `FiresOnce`, `OnceIsLast` | `[]SlotFiredOnce`, `[]OnceRunsOnce` |
| | `FencePublishes` | `[]PublicationIsFenced` |
| PluginDrainProofs | `DrainTypeCorrect` | `[]DrainTypeOK` |
| | `NoneStranded`, `UnusedWhenRemoved` | `[]DrainingHasActiveJob`, `[]RemovedIsUnused` |
| | `AdmissionPredatesDrain`, `StopPredatesDrain` | `[]AdmittedBeforeDrain`, `[]StoppedBeforeDrain` |
| WorkflowProofs | `WorkflowTypeCorrect` | `[]WorkflowTypeOK` |
| | `RunsOnce`, `ApprovedFirst` | `[]StepRunsOnce`, `[]ApprovedBeforePublish` |
| | `NoneLost` | `[]NoStepLost` |

**Assumptions.** Each is an ASSUME of the module whose constants it is about, and
TLC evaluates it in the runs. `StoreAssumption`: the planning task is no step,
the empty owner and the empty reason are not used as an owner or a capacity
reason, plans map steps to sets of steps. `RunAssumption`: workers are not
services and have owners. `CapacityAssumption`: legal policies, a positive lease;
finitely many tokens and workers, since the scripts count members.
`SessionAssumption`, `ArchiveAssumption`, `SchedulerAssumption`: kinds of
processes are disjoint, bounds are numbers, `MaxTime` lies past the expiry an
archiver computes, a schedule that is not a cron expression has one time.
`DeliveryAssumption`: the setups are legal, there is at least one attempt and
finitely many pollers. `DrainAssumption`: the system tenant is a tenant,
there are finitely many requests, and the deployments are well formed. `WorkflowAssumption`: the definitions are well formed (`SetupOK`: routes
and dependencies are steps, nobody is both runner and reviewer) and a batch has at
least one record. Sets of actors, steps, subscribers, publishers, sessions and dispatchers may be
infinite. The bounds (`MaxFence`, `MaxFaults`, `MaxRetry`, ...) are any numbers.

**The arguments.** Each safety property follows from an inductive invariant of
its module.

*Store.* `StoreInv` is the type invariant with `NothingBeforePlanning`,
`QueuedAfterDependencies` and `OneFinalEvent`. `QueuedAfterDependencies` is not
inductive alone: `CompletePlanning` replaces all task records at once, and only
`NothingBeforePlanning` says that it replaces nothing, because the revision is
still 0. `OneFinalEvent` needs every writer to be refused by a terminal run. Most
transactions go through `mutateTask`; lemma `MutateInv` shows once that it keeps
the invariant. The action properties about tasks need `PlannerUndone`:
`ExpirePlanning` overwrites the planning task's outcome whatever it is, which is
harmless only because a planning task never ends as completed, skipped or
cancelled while the run is open and without a plan. `TaskKept` states what a step
may make of one record, and the theorems read their halves off it.

*Run.* `RunInv` adds to `StoreInv` what a process remembers at each place
(`Shape`: the message fits the handler, a delivery has a token). With it every
step of AgentRun is one transaction of StoreSpec or none, so the store's theorems
and invariant hold of the run. `ExecInv` is the argument for at most one
execution: no two processes hold the same delivery token of a message
(`TokensFresh`), the right to execute names the token of the process that goes on
to execute, and receipts and completions follow the execution (`StepHistory`,
`ExecutorKnows`). `ContractInv` is what the refinement of RunContract needs beside
it: a step that no worker has had yet is not claimed (`Unclaimed`), and while the
version a reconciler read is still the version of the run, its decision to close
with a status is right (`DeciderKnows`). `DispatchInv` follows a task: one that
waits is in the outbox (`Outboxed`), the entries up to the cursor, and up to where
a dispatcher is, have reached the bus (`Sent`), and who acknowledges, also after
`RecoverRun`, knows that the task has ended (`AckerKnows`).

*Capacity.* `CapacityInv`: every process that started has the published policy
(`OnePolicy`), goroutines have tokens of their own (`OwnToken`), what the scripts
count is within the limits (`Counted`), and the keys outlive the leases of those
who renew in time (`KeysOutlive`). So the goroutines within their lease have live
members of their own, and are no more than what is counted.

*Sessions.* `SessInv`: what a process read of a row or of a run still holds when
it acts (`ReadsHold`), one invocation of a session is active (`OneRuns`), a
success has one message and nothing else has any (`Answered`), a message has a
number of its own (`Numbered`), and who was shown a completion was shown a
finished one (`Shown`).

*Archive.* `ArchInv`: the copy expires only when report and locator are there
(`Reached`), what each scanner has behind it at each statement (`Progress`), and
which parts of the queue `RetireRun` has emptied under the marker (`Cleared`).

*Event delivery.* `DeliveryInv` counts tokens. What leads to an attempt of the
event is an item that waits, a delivery with its subscriber, or an answer that has
still to schedule the next attempt or push the dead letter. Unless two pollers
read one range, a subscriber has at most one (`Apart`, `Alone`), at its newest
attempt (`Last`), and none once it has a dead letter (`Ended`). The items a second
Publish leaves behind lead nowhere (`Barren`), which needs that one publisher has
the UUID of the envelope's row (`Publication`). `Exhausted` and `Kept` say where a
failed last attempt and an attempt that is due are; `Kept` survives a race because
the fallback lookup finds the newest attempt (`NewestIsFound`). The late write of
`pending` makes no token: either the attempt is still active, and then whoever has
its token is responsible for it as before, or the write is the fault `overtaken`,
which `Kept` and `KeepsChain` except and `Exhausted` does not need to, since a row
that is pending is no failed one. That the row has an envelope, which each of its
tokens relies on, is `AtMade`. For the
refinement of RetryChain the tokens must also agree with the rows (`Fits`): an item
that waits and a delivery are at an attempt that is due, an answer that schedules
or buries is at one that failed. `Fits` is inductive only with the tokens, since
each action may rely on being the only one at work on its subscriber. It fails after
a race, a second `Publish` or an overtaken answer, and then so does the refinement:
`KeepsChain` excepts these three, and leaves silent subscribers, failed polls and
expired leases in. Each exception is needed: without it TLC finds a
counterexample.

*Scheduler.* `SchedInv`: who works on the job holds the fence (`Fenced`), so the
status and the times it read are those of the row until it commits
(`ReadUnderFence`), and the next time of a recurring schedule is later than all
that fired (`NextIsLater`, from lemma `NextRunIsLater` about `computeNextRun`).

*Drain.* `DrainInv`: however requests interleave, a draining row that no rotation
brought back names an active job (`Consistent`), because a refresh that is about to
close its job has marked, or seen, that no row drains under it (`Known`), and rows
begin to drain only in the transaction that creates their job. A rotation may write
an old row back at any time; `revived` takes its tenant out of these statements, and
a rotation that wrote back what it found changes nothing. From this the two theorems
about checks without a lock follow: `seen` are the jobs that existed when a request
checked, none of them had a draining row then, and none gets one later, since jobs
are created with new numbers (`Looked`, `Numbered`). For a stop the list of jobs
must be complete, hence `MaxJobs <= ListLimit`. `SerialInv` is about deployments
that serve one request at a time: nobody moves between what a request has seen and
what it does (`Sound`), so that the second count of an uninstall still holds at the
removal, and what is left of a removed plugin is at most the system tenant's row.

*Workflow.* `WorkflowInv` has a part for each property. `RunsInv`: batches are
disjoint, what is in one is not queued, and of a batch only the current record may
have been executed; so a record is leased once and executed once, also when drains
stop. `ReviewInv`: whoever is about to finish a review as approved has written
"approve" to its task, and the gated steps an actor still has to queue were
approved. `JoinInv` is why no join is lost without a transaction: while all
dependencies of a step are complete and it has no record, some actor is at one of
them (`Carries`) and will either queue the step or fail that dependency. The actor
that completes a dependency becomes its carrier; an actor that passes a step over
saw a dependency that was not complete, and whoever completes that one carries the
step. An aborted drain drops what it carries, and that is the one condition of
`NoStepLost`; the operator may queue a dependency again, and then the step waits
for that record.

*Lemmas about operators.* `Min` and `Max` of finite sets of numbers
(`SmallestOf`, `LargestOf`, by well-foundedness), the fresh number of a queue item
(`FreshIsNat`), the cardinality of sorted sets with and without a member, the
latest record of a step (`LatestIs`, `LatestAppended`).

**Only model-checked.** The liveness properties (`EventuallyTerminal`,
`EventuallySettled`, `EventuallyConfirmed` and those of the other fair runs), which
are outside this prover's reach, as are `ENABLED` and induction over data. The
finding, which is a counterexample.

## 5. Not modelled

* The 24-hour life of the dedupe key (a second entry of a message acts like a
  second redelivery), Redis data loss beyond the RPO, bounded retry counts (a
  retry loop that gives up behaves like a crash of the handler).
* Several runs sharing one stream: the messages of other runs only delay.
* Archive: the content of the report, the admission gate on the archive backlog.
* Event Fabric: replay and purge of dead letters and replay tasks, each of which
  is a new Publish; ACL, topic directory, audit.
* Event Fabric: a second answer to one delivery; a handler of Publish, Ack or Nack
  that fails between two of its writes, and a death inside
  `handleVersionIncompatible`, which leave an attempt as a silent subscriber does or
  an envelope with an old status.
* Workflow: a database error while `dependenciesCompleted` reads a dependency, which
  the runner takes for one that is not completed, so that it skips the join without
  a trace (`runner.go:453`); `NoStepLost` says nothing of it. `HandleStepFailure` and `completeCompensation`, which only tests call,
  the assignment tracker, packs, mappings, the work of the adapters.
* Plugin lifecycle: version switches and forced reinstalls; the installation from a
  URL, which with enable calls `SwitchVersion` a second time after the start
  (`install_handler.go:616-691`); the uninstall without a manager; the secrets and
  the process mutex of `ensurePluginRuntimeCredential` (two requests of the model
  may both find no row, as two processes may); topic seeding, process supervision
  and health.
* Backup jobs, snapshots and system recovery are job state machines around
  database tools; restoring the current database (`system_recovery`) has a crash
  protocol of its own and is the first candidate for another module.
* Contents: prompts, results, evidence objects, trace data, event payloads.

## 6. Plan

The restore of the current database (`system_recovery`) as a module with its crash
points.
