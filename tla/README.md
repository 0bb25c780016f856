# ArmorClaw: a TLA+ model of the workflow engine and the agent runtime

ArmorClaw runs AI agents in isolated Docker containers on behalf of users who
talk to it over Matrix.  Its core, the *bridge* (`bridge/`, Go), keeps the
secrets, asks people for consent, and executes *workflows*: templates of steps,
each run by an agent in a container of its own.  The agent inside a container is
the *runtime* under `container/openclaw-src` (TypeScript): a gateway with command
lanes, a scheduler, subagents, a queue of outbound messages and files that several
processes write.  This directory models the parts of both that have to be right
when many things happen at once, checks them with TLC and proves central
invariants with TLAPS.  Paths below are relative to `bridge/pkg` or to
`container/openclaw-src/src`.

## Inventory of the system

| Component | State it keeps | Operations | What is hard | What makes it correct |
|---|---|---|---|---|
| Workflow orchestrator (`secretary/orchestrator.go`) | `activeWorkflows` in memory, a row per workflow in SQLite | start, advance, block, unblock, complete, fail, cancel, shutdown | two copies of the state, lost writes, restarts | an outcome is final; what is announced is stored; the row is never ahead |
| Dependency validator (`orchestrator_dependencies.go`) | none between calls | `ValidateTemplate` | map iteration order | accepts exactly the acyclic templates; the order respects the successors |
| Step executor, integration (`orchestrator_integration.go`) | `executionCancels`, `runningSteps`, one goroutine per workflow | start, cancel, execute with retry and fail-over | everything beside it moves the same workflow; waiting, cancellation | completion is earned; spawns are bounded; an execution settles; no container is forgotten |
| PII approval (`pending_approval.go`) | map from step ID to channel, one for all workflows | request, respond | timeout against answer, lookup before send, two workflows of one template | an answer decides no other step and no call that came before; a waiting request is found |
| Agent factory (`studio/factory.go`, `studio/rpc.go`) | `agent_instances`, Docker containers | spawn, stop, remove, kill, status, clean-up, deletion of the definition | no lock around read, Docker call and write | the row tells the truth about the container |
| Commands, RPC, scheduler (`secretary_commands.go`, `rpc.go`, `task_scheduler.go`) | the due tasks | create, start, advance, cancel, dispatch | read-modify-write of rows, partial dispatch | a start is executed once |
| Command lanes (`process/command-queue.ts`) | a queue and a set of running tasks per lane, a generation | enqueue, complete, set a limit, clear, reset, wait for tasks | lost wake-ups, tasks that outlive a reset, nested commands | no stranded command; the books agree with what runs |
| Gateway loop (`cli/gateway-cli/run-loop.ts`, `infra/restart.ts`, `gateway/server-reload-handlers.ts`) | the wait of the loop, one request, timers and polls | signal, drain, close, restart, schedule, defer | restarts requested while another is carried out or while the gateway starts | an accepted restart happens; a drain waits for what it says |
| Outbound deliveries (`infra/outbound/delivery-queue.ts`, `deliver.ts`) | a file per delivery, `failed/` | enqueue, ack, fail, recover | crash between send and ack, recoveries that overlap with live deliveries and with each other | nothing is lost; nothing is kept for ever |
| Cron service (`cron/service/*.ts`) | jobs in memory and on disk, a timer, a tick, a lock | start, tick, add, update, remove, run, list | jobs run outside the lock, crashes, replaced services, reads and writes that fail, schedules that do not parse | the timer lives; a one-shot runs once; a due job is handled |
| Subagent registry (`agents/subagent-registry.ts`) | entries in memory and on disk, timers | register, end, announce, retry, sweep, kill, steer, restore | five ways to start an announcement | announced once, bounded attempts, no entry open for ever |
| Session write lock (`agents/session-write-lock.ts`) | lock files, `HELD_LOCKS` | acquire, share, release, watchdog, clean up | two processes and the file system between them | no update is lost; nobody waits for ever |
| Parallel steps, blockers (`orchestrator_parallel.go`, `orchestrator_integration.go`) | groups of goroutines, channels per step | run a group, deliver a response | joining, early answers | every branch ends; no answer is lost |
| Sealed keystore (`keystore/sealed_keystore.go`) | sessions, timer, failure counter | unseal, seal, touch, clean up | timer against unseal | sealed means no key; lock-out holds |
| PII requests, consent (`keystore/pii_request.go`, `pii/hitl_consent.go`) | requests and their status | request, approve, deny, fulfil, expire | expiry against approval | a value is used once and only with consent |
| Browser queue (`queue/browser_queue.go`) | bounded channel, priority slice, job map | enqueue, cancel, retry, work | full queue, cancel against completion | no job is lost or run after its cancellation |
| Agent state machine (`agent/state_machine.go`) | status and history | transition, infer | inferred transitions | only allowed transitions |
| Provisioning, claim, lockdown | one-time tokens, mode | issue, claim, bond, unlock | double claim | one owner |

The other packages (Matrix adapter, app service, voice, e-mail, enforcement,
capability, budget, license, trust, audit, event bus, push, SSO, sidecars,
`rust-vault`, `jetski`, `browser-service`, the runtime's channels, turns and
memory, applications and deployment) are I/O, decisions over configuration, or
other programs; `PROJECT.json` lists them with the reason.

How the parts meet: a command, an RPC or the scheduler creates a row and calls
`StartWorkflow`; the command and the scheduler then call
`StartWorkflowExecution`, which starts a goroutine, `runWorkflow`.  The
goroutine validates the template, asks for approval, calls `Spawn`, polls
`GetStatus` every 500 ms, calls `AdvanceWorkflow` after each step, and at the
end `CompleteWorkflow`, `FailWorkflow` or `CancelWorkflow`.  Operators call the
same orchestrator and the same factory at any time.  The store and Docker
outlive a restart of the bridge; everything else is lost.

In the runtime everything runs on one event loop: code between two awaits is one
step, and the awaits are where others run.  The gateway's loop starts a server,
which starts the cron service, the recovery of deliveries and the restore of
subagent runs; agent turns, cron jobs and subagents run as commands of the lanes.
A signal, a scheduled restart or a config change ends one server and starts the
next in the same process, and what the old one left running runs on.  Other
processes of the runtime (the command line, a second gateway being replaced) share
its files, which the session write lock is for.

## Modules

`WorkflowLifecycle` is the abstract promise about the persisted status: created,
started, live, ended for ever.

`WorkflowOrchestrator` is `WorkflowOrchestratorImpl`.  `store[w]` is the row
(status, current step, room) and `active[w]` the entry of `activeWorkflows` (a
copy of the row and `currentIndex`).  Every method runs under `o.mu`, so each is
one action.  A parameter `saved` says whether the write to SQLite succeeded, and
the action does what the code then does: `StartWorkflow` leaves nothing behind,
`Finish` (complete and fail) leaves an entry that is already terminal, `Advance`
leaves memory ahead of the row, `Cancel`, `Block` and `Shutdown` ignore the
error.  `Restart` is the loss of the process.  `announced` records the last
lifecycle event, what the user was told.

`ExecutionOrder` defines, for a successor function, the orders that Kahn's
algorithm with a FIFO queue may return when its first elements come in any order.
`DependencyValidator` is `ValidateTemplate` step by step, with one action per
iteration wherever Go iterates over a map, and is checked against it.

`AgentFactory` has the row and the container of each instance and the set of
calls in progress.  A call is split where the code waits for Docker, because the
factory has no lock.  `StopCall`, `StopContainer`, `StopSave`, `StopMark`,
`Remove` and `DeleteInstance` are the stages of `Stop`, `handleStopInstance`,
`factory.Remove` and `DeleteSecretaryAgent`; `Inspect` and `WriteObserved` those of
`GetStatus` and `CleanupStale`, `Kill` and `WriteObserved` those of `Kill`.  An
inspection fails when the container is gone and also when Docker does not answer.
Read and Docker call of one stage are one action.  `CheckRunning` and `Cascade` are
`studio.delete_agent` (`studio/rpc.go:582`): it looks for running rows of the
definition, then deletes the definition, and the foreign key
(`studio/store.go:97`) deletes the rows of its instances, whatever they say by
then.  They are modelled as one instance sees them.  `row` tells a row that
`Remove` has deleted ("deleted") from one that went by the cascade ("cascaded").

`PendingApproval` is `PendingApprovalManager`: the request registers, publishes,
waits, decides and cleans up in separate steps; a response is looked up under
the lock and sent after it.  The manager is shared and files a request under the
ID of its template step, so `StepOf` may give one step to several requests: the
later one overwrites the entry, and whichever returns first deletes it.  The
history `open` holds the calls for the step that were in progress when a call
began.  Nothing in the repository outside the tests calls
`HandleResponse`; the module has the caller that its comment describes.

`WorkflowExecution` extends the factory and composes it with the orchestrator
and the execution order (`INSTANCE`), the goroutine of each workflow (`exec`), the
handlers that start one (`launch`) and everything beside them.  `owner` and `earned` are
history variables: for which step a container was spawned, and which steps were
seen to complete or were advanced by an operator.  The approval is reduced to
its results.  `StopInstance` and `DeleteDefinition` are the operators' calls about
agents.  `Environment` selects the outside events and failures of an
instance, so that each run asks its question of the executions it is about.

`CommandQueue` is `command-queue.ts`: `queue`, `active` and `maxConcurrent` of
each lane, `generation`, and for every command where it is and in which
generation it started.  `Drain` is the pump; every operation ends with it, as in
the code, so `draining` is never seen set and is no variable.  `Outer` makes a
command wait for another one that it enqueues, as an agent turn does.
`GatewayRestart` EXTENDS it with `runGatewayLoop` (`loop`, `server`, `resolver`,
`shutdown`) and the requests: `Signal`, `ScheduleRestart`, `ConfigRestart` and the
polls of `deferGatewayRestartUntilIdle`.

`DeliveryQueue` has the file of each delivery (`queue`, `failed/`, both, none) and
its retry count, the live delivery (`live`), and a record for each recovery
(`recovery`): where it is, what it has loaded, the time it has used.  A restart
inside the process neither awaits nor cancels the recovery that is under way, so
`RestartInProcess` starts another one beside it.  `failDelivery` is two steps, since
it reads the file and renames another over it later; that two calls at once share
the name of the temporary file is left out.  An outcome of a send says whether the
message arrived and, separately, whether the sender saw an error.

`CronService` has one record per service: its copy of the jobs, its timer and its
tick.  A section under `locked` is one step; `start` and `run` keep the lock while
their jobs run (`holder`, `held`).  A section may fail to read or to write the file
(`Fault`): then memory has changed and the file has not (`NotSaved`).  In `start`
and in the calls of clients the error comes before `armTimer`, so the timer stays as
it was (`CallThrows`, `StartCannotRead`; nobody calls `start` again), while a tick
arms it in its `finally` (`AbortTick`).  An expression that does not parse
(`broken`) makes `update`, `applyJobResult` and the recomputation fail; the last
counts the error and in the end disables the job (`ScheduleError`). `failed`
remembers how the last section of a service failed, `orphans` the jobs whose marker
a failed section has left.  Left out: the write that `ensureLoaded` makes when it
migrates an old file, and an `add` of a job that does not parse, which throws before
it changes anything.  `HotReload` replaces the service and leaves the clients with
the old one, as `server.impl.ts` does; `shared` remembers it.

`SubagentRegistry` has one record per run: the fields of its entry that the
registry reads, and what the process knows besides (`resumedRuns`, the call of
`agent.wait`, flows, timers).  `Resume`, `StartFlow`, `NoteEnd`, `RetryDeferred`,
`Settle` and `Defer` are functions on that record, named for the functions of the
code; the actions apply them.

`SessionWriteLock` has the lock file, `HELD_LOCKS` of each process, the data the
lock protects, and callers that acquire, read, change, write and release.
`reentrant` distinguishes the users: the sandbox registry does not share a lock
within a process, the session store does and has its callers wait in a queue.
`data` is the set of the callers whose change the file has.

The modules `MC...` give the constants values for TLC, `...Proofs` hold the
theorems.  Definitions marked *Mutant* are plausible mistakes in the code,
listed in `PROJECT.json` with the property that finds each; no specification
uses them.  Every module has a type invariant; TLC was run with it, and it is
proved where the module has proofs that need it, but no run of `PROJECT.json`
repeats it.  The proofs about the factory are in `WorkflowExecutionProofs`, since
those about the executions rest on them.

Left out everywhere: names, texts, timestamps, variables, progress fractions,
limits and mounts of containers.

## Runs that pass

| Run | Bounds | What it shows |
|---|---|---|
| `orchestrator` | two workflows, one of three steps, one without a template | through lost writes, shutdowns and restarts an active row is live, an announced outcome is stored, the row is not ahead, one step is taken at a time, outcomes are final, and the row implements the lifecycle |
| `validator` | every template of up to 3 steps over 3 IDs, with empty, repeated and unknown IDs; every successor function over 4 steps | accepts exactly the well-formed acyclic templates, reports real cycles, sorts in a Kahn order, terminates |
| `factory` | one instance, one call of each kind at a time | a row says completed, or `Remove` has deleted it, only when the container has stopped, with the deletion of the definition beside |
| `approval` | three requests, two of them for one step; two answers | only an answer to a request, or to an earlier call for its step, decides it; a waiting request is found unless an overlapping call for its step meddled; every request returns |
| `execution` | a workflow of two chained steps with two agents for the first, and one whose only step follows itself; one retry | completion is earned, steps start in order, at most one container for each agent, no container recorded as running without its goroutine, every execution leaves an outcome, with operators advancing, cancelling and shutting down |
| `execution_faults` | one workflow, two containers, no retry | completion is earned and steps start in order while agents are stopped and deleted, or their definitions, under the executor, rows are missing, Docker fails, writes are lost, the bridge restarts and the start command writes back what it read before |
| `gateway` | a session lane and the main lane with limits 1 and 2; two turns, one with an inner command, and a command beside them; one restart in the process and then a replaced process | no command is stranded, the books agree with what runs, a drain that succeeded saw its tasks end, every command settles, an accepted restart happens |
| `delivery` | two deliveries, three retries with the code's backoffs, one crash or restart during them and any number after, up to two recoveries at once, of 750 s each | nothing that was written ahead is lost; no entry stays in the queue for ever |
| `cron` | a one-shot and a recurring job, two services, three operations and failures together (at most two failures; none after a process has replaced its service, unless it is the first of all), a clock of one tick | only a start or a call that throws leaves the scheduler without a timer, only a failed section leaves a marker, a finished one-shot does not run again, a due job is run or moved unless one of these failures prevents it |
| `subagents` | two runs, one that expects a completion message, one to be deleted; three attempts, one crash | announced at most once, at most three attempts, silence while suppressed, no entry open for ever |
| `session_lock` | three callers in one process, one of them nested, and one in another | no update is lost unless a lock in use was taken away, a shared lock is held to the last release, nobody waits for ever |

Why the bounds are enough.  No action of the orchestrator or the factory looks at
two workflows or two instances (a shutdown does, to all of them alike), so one of
each kind meets every branch; two steps are the least with a first and a last; one
retry and two agents are the least at which a bound can be missed by one, and one
more container than a correct execution needs is there to miss it.  Four nodes are
the least with two chains, or a cycle with a path into it of length two.
`Instances`, the number of containers that can be spawned, bounds the executions in
which a workflow is restarted; `launch` holds one start handler per workflow, and
`OperatorCalls` is two because two calls of operators about one agent already meet
in every order.  Three requests are the least with two for one step and one that
must not be disturbed by them; with `Responses` at two an answer can come late and
cross the one to another call.  Lanes are independent but for nested commands, and
two lanes with a waiting and a nested command each meet every branch of the pump;
`MaxGeneration` is one because a task only asks whether its generation is the
current one, and `MaxPolls` one because a second deferral beside a timer already
gives two restarts.  Two deliveries are the least in which one is in the way of
another. `MAX_RETRIES` is five in the code and in `delivery_stall`; in `delivery`,
where two recoveries overlap, it is three, the least that reaches the backoff of two
minutes at which a recovery of 60 s stops.  The fourth and the fifth retry repeat
that step with a backoff of ten minutes; 750 s leave time for it.  `MaxRecoveries`
is two since a restart adds one recovery to those under way and `MaxRestarts` is
one.  A clock of one tick lets both jobs become due, and with two services there is
one crash, reload or restart.  `MaxOps` counts operations and failures of cron
together: three are a change, a failure, and a call that meets what they left; two
failures are a call that throws and a tick that fails, or two of either;
`MaxSharedOps` is one since the properties promise least of a service that was
replaced.  The second subagent run is there to retry the first, `MaxTimers` counts
to two because a timer that fires twice does nothing new.  Two processes and a
nested caller are what the lock's two kinds of sharing need.

`UpdatesKept` has a condition, `broken`: no lock was taken from a caller that uses
it.  The code does take them: from one that has created the file and not yet
written its pid, from one whose process got a signal, and after five minutes.
Without the condition the formula is false, see below; with it the run shows that
nothing else loses an update.

Three properties say which failures they except, because the code does not survive
these:

* `SchedulerAlive`: a section of `start` or of a client's call that throws has not
  reached `armTimer` (`cron/service/ops.ts:51`, 99, 166, 187, 211), and the gateway
  only logs it (`gateway/server.impl.ts:541`).  The exception (`failed` is
  "unarmed") ends with the next section that arms the timer.  No failure of a tick is
  excepted.
* `MarkerIsOwned`: a marker may outlive the failure of a section that would have
  taken it off (`orphans`): the second section of a tick
  (`cron/service/timer.ts:297`, 326), or a call that cannot save.  Crashes, operations
  and failures of other sections are not excepted.
* `DueJobRuns`: a job may stay due if it is such an orphan, whose marker is cleared
  only after `STUCK_RUN_MS` or by the next start, or if the service is `Stalled`:
  after a failure it has no timer, or one for a later time.

`ResultIsTheAnswer` and `WaitingIsPending` say in the same way what a call for the
same step may do to another: an answer to an earlier call may decide a later one, and
a call that overlaps with another may take its place in the map or delete its entry.
`DeletedMeansStopped` is about `Remove` only.

Deadlock is not checked where the system may rest: the validator returns, all
requests are answered, every workflow has ended, the clock of `cron` is at its
bound, all callers of a lock or runs of the registry are done.

Fairness: the validator's goroutine runs; a request's timer fires; a workflow's
goroutine and its start handler are scheduled, and Docker and the store answer
the calls they wait for.  `AgentsEnd` adds that every agent ends by itself; the
code has no limit for that (see below), so `ExecutionSettles` is claimed
only under it, and only in environments in which nobody else stops the agent,
Docker answers and writes succeed.  In the runtime: some task that can end does
(agent turns have timeouts), a close returns or the force-exit timer fires; calls
of channels and of the file system return and the gateway is restarted now and
then, which is what a message in the queue waits for; cron timers fire and jobs end
(in a tick after ten minutes at the latest, under the lock by assumption); timers
of the registry fire and its sweeper comes round; a caller of the lock is
scheduled.  That a lock grows old, or that a caller times out, is not relied on.

## A run that shows a disagreement

`delivery_stall` is `delivery` with the time that the code gives a recovery by
default, 60 s.  An entry that failed twice needs a backoff of 120 s; the recovery
stops at it, at every start, so its count stays below `MAX_RETRIES`: it is neither
retried nor moved to `failed/`, and neither is any newer entry.  The comment above
`recoverPendingDeliveries` says that it retries any pending entries and moves
those that exceed `MAX_RETRIES`.  The run `delivery` uses 750 s, enough for the
longest backoff, and shows that this is the only obstacle.

The model has other behaviours that a reader of the documentation may not expect.
They are modelled as the code has them, and no property claims the contrary:

* `CancelWorkflow` ignores a failed write: the row can be started again
  (`CancelWorkflow` of `WorkflowOrchestrator`).
* Steps without `next_step_id` run in a random order (`EnqueueRoots`).
* An inspection that Docker does not answer marks a running agent as failed, and
  `Stop` then refuses it (`Observed`, `StopContainer`).
* `studio.stop_instance` marks the row cancelled and reports success even when
  `Stop` failed (`StopError`, `StopMark`), and the executor polls a cancelled row
  for ever (`Poll`).
* `Stop` writes completed whatever the exit code is (`StopSave`), and the executor
  takes the step as done.
* A container that was created and could not be started may stay (`SpawnLeaks`).
* Once its container runs a step has no timeout (`Poll`).
* The room of the start command is overwritten by the first advance
  (`CommandWrite`, `AdvanceWorkflow`).
* `secretary.start_workflow` starts a workflow that nothing executes (`RPCStart`).
* Pending approvals are keyed by step ID alone.  With two workflows of one template
  the answer to the first decides the second, the second overwrites the entry of the
  first, and the first to return deletes the entry of the other, so that a request
  waits for an answer that nothing can bring it (`Register`, `Cleanup`,
  `HandleResponse`).
* `studio.delete_agent` asks only the rows: it leaves a container running whose row
  was marked cancelled or failed, or was inserted after the check
  (`CheckRunning`, `Cascade`).
* Cancelling a workflow leaves its container running (`CancelByHand`), although
  `doc/secretary-workflow.md:196` says that it cancels the running containers; and
  with the context done, a tick that wins the `select` leaves it running, recorded
  as failed (`Poll`; line 232 there).
* The start command writes the row it has read over a cancellation that came in
  between (`CommandRead`, `CommandWrite`; line 184 there calls it terminal).

In the runtime:

* A restart requested while the gateway starts is carried out without waking the
  loop (`RestartInProcess` with the resolver `used`); two deferrals and a timer may
  restart the gateway twice (`PollFires`); a task that was started before a restart
  runs on beside the new ones (`Reset`).
* Messages may be sent twice (`Resend` beside `Send`, `Crash` before
  `AckDelivery`), and an entry may come back after it was removed (`FailWrite`).
  A best-effort delivery whose recovery fails is acknowledged: `NothingLost` fails
  for a delivery in `BestEffort` (compare `deliver.ts:247`).
* After a hot reload of cron, requests reach the stopped service, and writing its
  copy of the jobs makes a finished one-shot fire again (`HotReload`, then
  `Update`): `OneShotRunsOnce` without `shared` fails (compare
  `cron/service.issue-regressions.test.ts:496`).
* Two recoveries run beside each other after a restart inside the process, and both
  send the same entries (`RestartInProcess` of `DeliveryQueue`).
* When the file cannot be read or written, a cron service that has just started may
  have no timer until a client calls it (`CallThrows`, `StartCannotRead`), and a tick
  that cannot save its results leaves the markers of its jobs, which then do not run
  until `STUCK_RUN_MS` has passed (`TickApply`).  One job whose expression does not
  parse has the same effect on all jobs of its tick, since `applyJobResult` throws
  (`ThrowsAt`).  While writes keep failing the timer of a tick is due again at once
  (`AbortTick`, from a store in memory that is still due).
* `add`, `run` and `start` move a job that is due and not yet run to its next time
  (`RecomputeNextRuns`), which the tick takes care not to do.
* A crash during an announcement leaves the entry marked as handled; nothing
  announces it again and the sweeper removes it (`AfterCrash`, `Sweep`).  A retry
  that is postponed twice is dropped (`Resume`).
* The lock file is empty for a moment, and another caller then takes it for stale
  (`InspectLockPayload`): both hold the lock and one update is lost, that is,
  `UpdatesKept` without `broken` fails, even for two callers of one process
  (compare `agents/sandbox/registry.test.ts:174`).  A stale file is removed by
  name, whoever has created it since (`RemoveStale`, `RemoveOwn`).

## Proofs

Each theorem holds for every value of the constants that the named assumptions
allow; the bounds of the runs (restarts, crashes, retries, instances, operations)
are parameters there.  An inductive invariant that was new was first given to TLC
on the runs of its module.

* `WorkflowOrchestratorProofs`: `ActiveRowsAreLive`, `AnnouncedOutcome`,
  `OutcomesAreFinal`, `Refinement`.  The argument is one lemma per operation
  (`StartMoves`, `FinishMoves`, ...) that says which of four kinds of move the
  operation makes: the row is created, the workflow starts, stays active, or
  leaves the map.  `ActiveRowIsLive` is the invariant that carries the rest: an
  operation on an active workflow needs to know that the row is not yet an
  outcome, since it overwrites it without looking.  `RowNeverAhead` and
  `StepsAreNotSkipped` add what an operation does to the pointer (`StepMoves`):
  since the steps of a template are distinct, the successor of a step is one place
  further (`NextPosition`).  Assumed: templates are sequences of distinct steps,
  and the empty values differ from real ones.
* `ExecutionGuardProofs` has the two guards of an execution.  For the validator,
  `ValidatorTypes`, `ValidatorIsExact`, `CyclePathIsACycle`,
  `ExecutionOrderIsKahn`, for templates of any length.  The invariant
  (`ValidatorInv`) has a part for each phase:
  * `Search`: the recursion stack is a path without repetitions, and the nodes that
    have returned (`Finished`) lead only to each other or nowhere and contain no
    cycle.  A node returns only into such a set, so that a visited node off the
    stack need not be searched again; when the stack is empty and all are visited
    the graph is acyclic.
  * `Sorting`: the in-degree of a node is the number of its predecessors not yet
    sorted (`Unsorted`), the sorted and queued nodes (`Taken`) are those for which
    it is zero, and they come in the order in which their last predecessor was
    sorted (`Fifo`).  `AllSorted`: when the queue runs empty, each node left over
    would have a predecessor left over; as a node has one successor, they would
    lead only to each other (`AllPredecessorsInside`, counting them), which an
    acyclic graph excludes.

  `Acyclic` is defined by sets: in every set of steps one has its successor
  outside.  `AcyclicMeansNoCycle` shows that for a finite graph this is the absence
  of a path that ends where it began.  Assumed: templates are sequences of steps,
  and the empty ID is no ID (`ValidatorAssumption`).

  For the approvals, `AnswersReachTheirRequest` and `WaitingRequestsAreFiled`, for any
  requests and any `StepOf`.  The inductive invariant (`ApprovalInv`) follows an answer
  from the message through the send to the channel (`InFlightIsAnswered`,
  `ChannelsAreAnswered`): the request it is sent to had not overtaken the call it was
  given to.  The map holds only requests that ask for its key (`FiledUnderStep`) and,
  of two calls for a step in progress at once, one began while the other was
  (`OpenIsOverlap`); that is what makes an entry that is not one's own the trace of
  an overlapping call.  `WaitingRequestsAreFiled` also proves that no entry outlives
  its call (`ReturnedIsForgotten`).
* `WorkflowExecutionProofs` has three parts.  For the factory, `RecordedEndIsReal`
  and `DeletedAgentIsStopped`: `CompletedMeansStopped` alone is not inductive, since
  a stop that Docker has confirmed and not yet written, or a status call that has
  seen the container ended, must be known to be about a stopped container.
  `CallsFollowDocker` says so, and also that `Remove` is only called, and deletes
  the row, for a container that has stopped, and that an ID whose container was
  never started has no row.  `DeletedAgentIsStopped` holds although kills,
  inspections and the cascade come between the stages of a removal; of rows deleted
  by the cascade it says nothing, since for them the claim is false.  `UsesFactory`
  shows that the composition implements the factory's specification, which carries
  these invariants over.  For the executions:
  * `CompletedIsEarned`, in any environment.  The invariant (`IInv`) says of every
    place a completion can come from that it is backed by `earned`: the row, the
    entry in memory, the pointer (all steps before it are done), the steps the
    goroutine has left (`Remaining`), the result it is about to report, and the
    copy that the start command is about to write back.  One lemma per operation
    of the orchestrator (`StartMove`, `StatusMove`, `AdvanceMove`), one for the
    goroutine's record, combined by `Moves`.
  * `StepsStartInOrder`, if every acyclic template is chained in slice order
    (`InSliceOrder`).  `OrderOfChain` shows that then Kahn's algorithm can only
    return the slice: a predecessor comes earlier, so the order is an increasing
    bijection of `1..n`, which is the identity.
  * `RunningContainersAreWatched`, in an environment without restart and without
    failures of Docker and of the store (`Reliable`); each of these leaves a
    container behind.  A goroutine that waits for a status or a stop call no longer
    looks itself: `Holds` adds that the call is then still in progress, and a call
    that ends has stopped the container or changed its row.
  * `RetriesSpawnWithinBounds`, in an environment without restart, lost writes and
    start commands (`RunsOnce`), in which no workflow is executed twice; TLC finds
    that with any one of the three a step gets more containers.  `OrchOnce`
    says that a row is running exactly while it is in memory, so that only a
    pending workflow can be started.  `Turn` counts the agent or the attempt; the
    containers of the current step are at most as many, and those of the steps to
    come none.

  For the composition with the orchestrator: `UsesOrchestrator` shows that in any
  environment every step is an operation of the orchestrator, leaves it alone, or
  writes back the row that the start command has read (`WritesBack`).  Without that
  command (`NothingToWrite`) the composition implements the orchestrator's
  specification (`ImplementsOrchestrator`), and the theorems of
  `WorkflowOrchestratorProofs` hold in it (`ExecutionsKeepBooks`,
  `ExecutionsKeepOutcomes`).  With it some fail: the row may overwrite a
  cancellation that came in between (`OutcomeIsFinal`), or a completion that was
  announced (`AnnouncedOutcomeIsStored`).

  Assumed: templates are sequences of distinct steps, and the empty values differ
  from rows, rooms, entries, records and pairs (`TemplateAssumption`,
  `EmptyAssumption`).
* `DeliveryQueueProofs`: `TypeCorrect` and, when no delivery is best-effort,
  `NeverLost`.  `NothingLost` is not inductive: the step that removes an entry
  comes after the send that justifies it, with others in between.  `AckIsEarned`
  strengthens it: a live delivery that is about to acknowledge has seen the message
  arrive or was aborted (`LiveAckIsEarned`), and each recovery that is about to
  acknowledge has seen it arrive (`RecoveryAckIsEarned`); `CurrentOK` says that the
  recovery then has a delivery at hand.  Recoveries overlap freely: `RecoveryStepSafe`
  looks at one and needs of the others only that what they know to have arrived
  has.  A crash
  needs nothing more, since it changes no file and ends what was about to.
  Backoffs, budget, numbers of retries, of restarts and of recoveries at once are
  arbitrary.
* `GatewayRestartProofs`: `LanesAreSound` proves `NoStall` and `ActiveIsRunning` of
  the lanes alone (`LaneSpec`); `GatewayUsesLanes` shows that the gateway is one of
  their users, whence `LanesNeverStall` and `BooksAgree`.  Needed besides: a queue
  holds a command once (`QueuedOnce`), or a pump would count two slots for one
  task; and no task has started in a generation to come (`StartedBefore`), or a
  reset would count it.  `FirstEntries` is the arithmetic of the pump: `n` entries
  taken from a queue without duplicates fill `n` slots.  `DrainIsComplete` follows
  from `WaitsForTasks`: what a drain waits for was started before it and is settled
  or still counted.  Assumed: finitely many commands, positive limits.
* `SubagentRegistryProofs`: `TypeCorrect`, `ResultAnnouncedOnce`,
  `RetriesAreBounded`, `SuppressionHolds`.  The invariant is about one entry
  (`EntryOK`): a flow is the only one and has `cleanupHandled` set (`OneFlow`); a
  started flow is counted in the retries, or is the one the flag stands for, which
  a crash does not take back (`AttemptsCounted`); an announced run is settled or
  gone and has no flow (`AnnouncedIsOver`).
* `SessionWriteLockProofs`: `TypeCorrect`, `SharedLockIsKept`, `NoLostUpdate`.
  `TokensOK` and `HeldOK` say that the count of a lock is the number of its users
  (`UsersIn`), so that the release that brings it to zero is the last.  For
  `NoLostUpdate`: until a lock is taken from its users, the file belongs to the
  lock that is held (`FileIsTheirs`), users of one lock are a caller and those
  nested in it (`SharedByParent`), and what a user has read is what the file still
  has (`SnapshotIsFresh`).  Assumed: finitely many callers, nesting one deep within
  a process, and empty values that are no lock and no file.
* `CronServiceProofs`: `TypeCorrect`, `SchedulerNeverDies`, `NoMarkerLeftBehind`,
  `OneShotNeverRefires`, with any number of failing reads and writes and of jobs that do
  not parse.  `SchedulerAlive` needs the shape of a store (an enabled job without a
  next time is a one-shot that ended well or has an expression that does not parse:
  `GoodStore`) and of a tick (`Shape`, with `Unborn` for services not yet started).
  The others are about services that share a store: until a process replaces its
  service, the last one is alone at work (`Sole`), the markers in its memory and in
  the file are of jobs in its tick, under its lock or in `orphans` (`MarkersOwned`), and
  a one-shot that has ended has no next time in the file or in memory (`EndsStay`).
  `CallStep` and `TickEndStep` treat the end of a section, well or badly, for all
  operations alike.  The theorems state the exceptions of the properties, no more:
  a failed tick is covered by `SchedulerNeverDies`, and `NoMarkerLeftBehind` excepts a
  job only from the failure that left its marker until a store without it is saved.

Only model-checked: liveness (`Terminates`, `RequestReturns`, `ExecutionSettles`,
`CommandsSettle`, `RestartHappens`, `QueueEmpties`, `DueJobRuns`, `OpenRunsClose`,
`LockIsObtained`), which needs fairness.  For every other property that a run checks
there is a theorem, under the conditions given above.

## Not modelled, and the plan

In this order:

1. in the runtime: the heartbeat wake-ups, the follow-up queue of a session, exec
   approvals, the gateway lock; then the session store's maintenance;
2. parallel groups (`orchestrator_parallel.go`) and bridge-local steps in
   `WorkflowExecution`; the blocker protocol; the task scheduler; the state
   directory that two workflows with one agent share;
3. the sealed keystore, the browser queue, PII requests and consent,
   provisioning, claim and lockdown, the agent state machine.

What stays out: channels, language-model turns, memory search, user interfaces and
extensions of the runtime translate between services and hold no protocol of their
own; of the 480,000 lines of TypeScript in the repository they are by far the most.

Hazards met while reading the parts that are not modelled, or that no property is
about yet: `templateDispatch` (`secretary/task_scheduler.go:206`) returns early
without re-arming its task, and identifiers made of milliseconds may collide; two
workflows with one agent share a state directory
(`orchestrator_integration.go:315`); a blocker response may come before its channel
is registered (line 1211); the auto-seal callback of a stopped timer may seal a
fresh session (`keystore/sealed_keystore.go:973`); a job taken from a full channel
is not put back (`queue/browser_queue.go:515`); `cron/service/ops.ts:209` awaits a
job under the lock without a limit, and line 155 clears the marker of a running
job; `subagents-tool.ts:243` aborts an agent before it marks the run as killed;
`persistSubagentRuns` ignores a failed write; an update of the session store nested
in another would wait behind itself (`config/sessions/store.ts:731`); the lock of
`plugin-sdk/file-lock.ts:89` releases without comparing the owner.
