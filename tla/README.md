# A TLA+ verification project for Lion

Lion is a Rust microkernel: nine crates under `lion/` that run WebAssembly
plugins under capabilities and policies, and execute workflows (graphs of
nodes, sagas, event-driven patterns) over them. This directory models its
control: the workflow engine with its patterns and its persistence, the
capability system, the managers of the runtime, and the pools, locks, policies,
telemetry and configurations that the others are built on.

The modules are written from the code; where a comment, a test or a document
of the repository says something else, the difference is listed under
*Findings*. Paths below are relative to `lion/`.

## 1. Inventory

### 1.1 Components, their state and their operations

| component | state it keeps | operations that change it | status |
| --- | --- | --- | --- |
| workflow definition (`lion_workflow/src/model`) | nodes with in-degree, edges, start and end nodes | `add_node`, `add_edge` (reverted when it closes a cycle), `remove_node`, `remove_edge` | modelled: `WorkflowGraph`, `WorkflowBuild` |
| workflow state machine (`lion_workflow/src/state/machine.rs`) | per instance: node statuses, in-degrees, ready nodes, results, edge conditions, `is_completed`, `has_failed`; per manager: the instances | `create_instance`, `set_node_running/completed/failed`, `schedule_next_nodes`, `set_edge_condition`, `reset`, `checkpoint_instance` | modelled: `WorkflowState`, `StateMachine`, `Persistence` |
| task scheduler (`lion_workflow/src/engine/scheduler.rs`) | five queues, task registry, running tasks, policy, running flag | `schedule_task`, `next_task`, `mark_task_*`, `cancel_task`, `demote_task`, `change_policy`, `clear`, `stop`, `restart`, `update_config` | modelled, except `update_config`: `SchedulerState`, `Scheduler` |
| workflow executor (`lion_workflow/src/engine/executor.rs`) | workers, cancel channels, running flag, statistics | `start`, the worker loop, `execute_workflow`, `schedule_ready_nodes`, `schedule_node`, `cancel_task`, `stop`, the monitor | modelled, except statistics, monitor and a second `start`: `Engine` |
| sagas (`patterns/saga`) | per saga: status, step statuses; two queues | create, start, execute steps, compensate, abort, time out, clean up | one saga modelled, except the clean-up, which has no effect: `Saga` |
| event broker (`patterns/event`) | subscriptions, in-flight and processed events, retry queue, store | publish, acknowledge, retry, replay, clean up | modelled: `EventBroker` |
| checkpoints and storage (`state/checkpoint.rs`, `storage.rs`) | files or map entries by key | save (three storage steps), load, list, prune, delete | modelled: `Checkpoint`, `Persistence` |
| capability store (`lion_capability/src/store`) | capabilities by id, ids by plugin | add, remove, replace, clear, partial revocation | modelled: `CapabilityStore` |
| capability algebra (`lion_capability/src/model`, `attenuation`) | none | permits, constrain, split, join, leq, meet | modelled as operators: `Capability` and one module for each kind |
| runtime capability manager (`lion_runtime/src/capabilities`) | entries with their derivation tree, index by subject | grant, attenuate, revoke | modelled: `CapabilityManager` |
| plugin manager (`lion_runtime/src/plugin`) | registry, map of plugins, state and metadata of each | register, load, initialize, start, pause, stop, unload, remove, grant, shut down | modelled: `PluginManager` |
| runtime workflow manager (`lion_runtime/src/workflow`) | definitions, execution states | register, delete, start, pause, resume, cancel, shutdown | modelled: `Managers` |
| system shutdown (`lion_runtime/src/system`) | broadcast channel, count of components, permits, `in_progress` | register, wait, complete, request | modelled: `Managers` |
| isolation backend and instance pool (`lion_isolation/src/manager`) | modules, lifecycles, pooled instances | load, call, unload, usage | modelled: `Pools` |
| pools (`lion_concurrency/src/pool`) | idle resources, size; instances; workers and their channel | acquire, return, maintain, shut down; submit, run | modelled: `Pools`, `Executor` |
| actors, supervision, executor (`lion_concurrency/src/actor`, `scheduler`) | registry of actors, handles of tasks | submit, register, update a status, shut down | modelled, except the mailbox and the supervisor: `Executor` |
| locks and atomics (`lion_concurrency/src/sync`) | lock statistics; counter, flag, sequence, version | acquire, release, reset; the atomics' methods | modelled: `Locks` |
| policy store and evaluator (`lion_policy`) | rules, caches | add, update, remove, clear, evaluate, resolve, map, merge | modelled, except audits, parsing and the translation of constraints: `Policy` |
| core types and traits (`lion_core`) | configurations, versions | get, set, remove, merge; compare, increment | `Config`; the rest declares types |
| observability (`lion_observability`) | context of each thread, log buffers, metrics | enter and leave a context, log, flush, count, set | modelled, except output: `Observability` |
| WebAssembly layer (`lion_isolation/src/wasm`, `resource`, `interface`), command line (`lion_cli`) | wrappers of library state, output | | not modelled: nothing of their own to check |

### 1.2 How they interact

- `WorkflowExecutor` owns no workflow state. Its workers take a task from the
  scheduler (one call of `next_task` and one of `mark_task_running`), ask the
  state machine to let them run the task's node (`set_node_running`), run the
  handler, tell the scheduler (`mark_task_completed` or `_failed`), then the
  state machine (`set_node_completed` or `_failed`), and finally call
  `schedule_next_nodes`. All of these are separate awaits on separate locks.
- The scheduler knows tasks, not nodes; the state machine knows nodes, not
  tasks. Nothing makes them agree except the order of the calls.
- `schedule_node` holds the *read* lock of the instance while it awaits
  `schedule_task`; workers need the *write* lock of the same instance.
- `stop` talks to workers through a bounded channel that nobody reads.
- Sagas and the event broker are used by clients directly, not by the
  executor; each spawns background tasks that work on a clone of itself.
- `StateMachineManager` saves the workflow *definition* through its checkpoint
  manager and loads it back; node status and in-degree are not serialized.
- In the runtime, `register_plugin` and `load_plugin` grant through the
  capability manager; plugins, workflows and the shutdown share nothing else.
- The two capability systems (`lion_capability`'s store, `lion_runtime`'s
  manager) do not know each other. `lion_policy` wraps capabilities of the
  first in its own and stores them with the store's `replace_capability`.
- The executor and the actor system of `lion_concurrency` each own a thread
  pool. The other libraries do not call one another.

### 1.3 What is hard in this code

Almost every public method is `async` and takes several `RwLock`s one after
the other, giving each up before the next: state is read under one lock and
written under another. Where no lock is taken the state is in concurrent maps,
two of which have to agree. The hazards (`PROJECT.json`, `hazards`) are of six
kinds: a stale snapshot written back; check-then-act on two locks or maps; locks
taken in opposite orders, or one lock twice; a call that fails, is dropped or
crashes half way; background tasks that have left, or work on a copy, when
something must still happen; and algebra (of rights, rules, versions, paths)
whose corner cases contradict one another.

### 1.4 What makes each component correct

- definition: acyclic at every return, in-degree equals the number of incoming edges, a refused edge leaves no trace.
- state machine: a node runs at most once, after all its parents have succeeded; the counters are exact; a finished workflow is noticed.
- scheduler: no task is lost or run twice; the capacity and the priorities are respected; calls return.
- executor: it keeps to the state machine; task and node outcomes agree; what was started finishes.
- saga: a step takes effect after those it depends on and is undone at most once for each time it took effect; a saga that fails with something to undo has its compensation requested, and it is carried out.
- broker: at least once, at most once, exactly once as configured; nothing stays in flight for ever.
- checkpoints: what was saved can be loaded until it is pruned, whatever crashes; the newest is kept.
- capability store and algebra: the two maps agree; a revocation is never undone; what is derived permits no more than what it is derived from.
- capability manager: whatever a subject may do goes back to a grant that stands.
- plugin manager: calls return; registry, map and metadata agree.
- workflow manager: a cancelled workflow stays so.
- shutdown: one that reports success has stopped every component; it ends at the latest at the timeout.
- pools, executor: no resource, instance or task is lost; every accepted task is started unless its pool shuts down; handles tell the truth.
- locks: the statistics are those of what happened.
- policies: an answer was right at some time since the cache was cleared; the readers of the rules agree.
- telemetry: what a plugin did is recorded under its name, and no record is lost silently.
- configurations: what was set is got, and versions are ordered and compatible as they say.

## 2. What is modelled now

```
WorkflowGraph ── WorkflowState ──┬── StateMachine ── StateMachine_proofs
      │                          │        │ implements NodeExecution
      └── NodeExecution          └────────┼── Engine ── Engine_proofs
                                          │     │ implements StateMachine
          SchedulerState ──┬── Scheduler ─┘     │
                           └────────────────────┘
                               Scheduler_proofs

      Saga ─────────┬── Patterns_proofs
        │           │                WorkflowBuild ──┬── Persistence ── Persistence_proofs
        │      EventBroker           Checkpoint ─────┘
        │ implements SagaOutcome

      FileCapability, NetworkCapability, MemoryCapability,
      MessageCapability, PluginCallCapability ── Capability ──┬── MCAccess
                                            CapabilityStore ──┘
                                                  │
                                     CapabilityStore_proofs

      RuntimeCalls ──┬── PluginManager ──┬── Runtime ── Runtime_proofs
                     │      │            │
                     │   CapabilityManager
                     ├── Managers ───────┘
                     │
                     └── Pools, Executor, Locks, Policy,
                         Observability, Config ── Libraries ── Libraries_proofs
```

`WorkflowState` and `SchedulerState` are the two data structures: variables and
operations, each operation what the code does under *one* lock. `StateMachine`
and `Scheduler` each add the actors that call them, free to call in any order,
and are checked and proved on their own. `Engine` extends both data structures
and instantiates both specifications: each of its steps is a step of
`Scheduler`, of `StateMachine`, or of the executor itself, with the guards that
the executor's control flow and locks add. `Persistence` composes the editing of
a definition, the checkpoints and the manager between them; `Runtime` the four
managers of the runtime. `CapabilityStore` is the two maps and the calls on
them, with the `Capability` trait as parameters, which is all the store knows of
a capability; `MCAccess` gives the parameters the definitions of `Capability`. `RuntimeCalls` is what tasks and threads have in common: one call at
a time, of which a record says where it stands. `Libraries` is no composition:
its parts do not call one another, and a behaviour uses the one it names.

### WorkflowGraph, WorkflowState, StateMachine

| code | model |
| --- | --- |
| `WorkflowDefinition`: nodes, edges with ids, `in_degree` | constants `NodeId`, `EdgeId`, `Source`, `Target`; `DefinedInDegree` |
| `WorkflowState::{new, reset, set_node_running, set_node_completed, set_node_failed, check_workflow_completion, set_edge_condition}` | `NewState`, `ResetState`, `SetNodeRunning`, `SetNodeCompleted`, `SetNodeFailed`, `CheckCompletion`, `SetEdgeCondition` |
| `StateMachineManager::schedule_next_nodes`: read lock, then write lock | `ReadReadyNodes`, `WriteReadyStatus` |
| a worker's calls between two tasks | `activity[w]`: idle, executing, finished, scheduling |

`StateMachine` deliberately has no scheduler. A worker comes with a task for
any node at any time, so what holds there holds for early, late, duplicated and
reordered tasks. `edge_conditions` is stored and, as in the code, read by
nobody. Node results are abstracted to none, output or error.

### SchedulerState, Scheduler

| code | model |
| --- | --- |
| the two heaps and the three kinds of deque | `queue`, in order of arrival; the heaps by the order their `Ord` implementations give (`MoreUrgent`, `EarlierDeadline`), a tie being a choice |
| the MLFQ levels | one sequence and `mlfqLevel`; a level is `SelectSeq` of it |
| `task_registry`, `running_tasks` | `registry` (a status for each id), `runningTasks` |
| `schedule_task` | `Submit` (running flag), `CheckCapacity` (capacity and policy), `PushTask`, `Register` |
| `next_task` | `ReadPolicy`, `PopTask` or `FindNothing`, one MLFQ level at a time |
| `mark_task_running/completed/failed`, `cancel_task` | `BeginMark` (read lock), `WriteMark` (write lock, a changed copy), `EndMark` (`running_tasks`) |
| `demote_task` | `BeginDemote`, `EndDemote`: the task is in no queue in between |
| `clear` | `BeginClear` (queue locks), `EndClear` (registry lock) |
| `change_policy`, `stop`, `restart` | `Settings` |

Locks are modelled where one is held while another is awaited, and only there:
`RegistryRead` (schedule_task holds the registry's read lock while it waits for
a queue lock) and `QueueLocked` (clear holds the queue locks while it waits for
the registry's write lock). Every other lock is given up before the next is
taken, so one lock region is one action. Decisions a reader may want to check:

- `clear` takes its four queue locks in one step. Their holders wait for
  nothing, except for a `schedule_task` that waits for one of them, which the
  step's order before or after `PushTask` covers. The MLFQ levels are cleared
  in `EndClear`.
- at most one `demote_task` is in progress, and at most one `clear`.
- `demote_task` reads the policy, the registry and the level under three locks;
  by the time it takes the task the policy may be another, so `BeginDemote` does
  not ask for it: a task is at a level only if the policy once was MLFQ.
- the priority, deadline and creation time of a task are constants of its id:
  no method changes them after `Task::new`.
- `check_timeouts` and the getters only read.

### Engine

| code | model |
| --- | --- |
| the worker loop of `start_worker` | `AskForTask`, `TakeTask` or `LeaveOnEmptyQueue`, `StartTask`, `StartNode` or `RefuseNode`, `FinishTask` or `HandlerPanics`, `FinishNode`, `ScheduleNextNodes` |
| `execute_workflow`, `schedule_ready_nodes`, `schedule_node` | initial `plan`, `ReadPlan`, `ScheduleNode`, `AdmitTask`, `EnterTask` |
| `cancel_task`, `stop` | `CancelTask`, `Stop`, `StopAgain` |
| the instance's read lock held by `schedule_node` | `InstanceRead`, a guard of every write to the instance |

The executor's worker loop ends the first time `next_task` returns `None`: the
sender of the worker's cancel channel is dropped when `start_worker` returns,
so `cancel_rx.recv()` is ready at once and wins the `select!`. The model says
so in `LeaveOnEmptyQueue`. Tasks come only from `schedule_ready_nodes`;
`schedule_next_nodes` makes none. `StopAgain` is the second `stop`: it keeps
the write lock of `is_running` for ever, hence the guard `stops < 2` of
`ScheduleNode`. The first one sets both running flags in one step, because it
holds that lock until the scheduler has stopped, and only `schedule_node` reads
it. Handlers are a choice of Completed and Failed; a missing handler and a
timeout are failures; the handler of a node in `MayPanic` may take its worker
with it. `Engine` uses neither `clear`, `demote_task`
nor `change_policy`: the executor never calls them.

### Saga, SagaOutcome

| code | model |
| --- | --- |
| `SagaDefinition::{validate, get_execution_order}` | `DependsOn`, `Position` and `IsExecutionOrder`, an assumption: such a saga is refused otherwise |
| `Saga::{get_ready_steps, get_compensation_steps, is_complete}` | `ReadySteps`, `CompensationSteps`, `IsComplete` |
| `start_saga`, `execute_ready_steps`, `execute_step` | `StartSaga`, `ReadReadySteps`, `BeginStep`, `CompleteStep` or `FailStep`, `RequestAfterFailure`, `EndRound` |
| `abort_saga`, `process_abort_tasks`, `compensate_saga` | `EnqueueAbort`, `TakeAbort`, `AbortSaga`, `RequestAfterAbort`, `CompensateSaga` |
| the task of `start_task_processor` | `TakeCompensation`, `ProcessAbort`, `EndProcessor` |
| the task of `start_timeout_monitor` | `CheckTimeouts` |
| `compensate_saga_internal`, `compensate_step` | `BeginCompensation`, `CheckUndo`, `BeginUndo`, `UndoSucceeds` or `UndoFails`, `EndCompensation` |

An action is what happens under one lock; what is read under one and used under
the next (the list of ready steps, the list of steps to undo, the decision to
queue a compensation) is kept in `starter`, `aborter` and `processor`. `done`,
`undone` and `late` are history: the successes of the handlers, of the
compensations, and the steps completed while the saga was Failed. Handlers and
compensations succeed or fail (a time-out is a failure); a missing handler
leaves its step Running or Compensating.

The task processor and the timeout monitor work on a *clone* of the
orchestrator, and a clone has an empty saga map and empty queues. The constant-valued variable `processorShares`
says whether they see the sagas. FALSE is the code; the compensation methods,
which nothing else calls, are then never reached. TRUE is the orchestrator those methods are
written for; it is in the model because they would otherwise be dead text, and
every result holds for both. What is said of compensation itself is thus about
methods that run only once the clone shares its queues.

### EventBroker

| code | model |
| --- | --- |
| `publish`: checks, store and `in_flight`; the sends under the lock of the subscriptions; the clone for the waiting task | `Admit`, `Send`, `Spawn` |
| `replay_events`, `process_retry_queue` | `StartReplay`, `ReplayNext`, `StartRetries`, `RetryNext`, `RetryEnds` |
| `wait_for_acknowledgment` on the clone | `CloneFor`, `TimeOut`, `GiveUp`: the copy of the retry count, and no acknowledgement ever |
| `cleanup` of expired events | `Cleanup`, `Expire` |
| `subscribe`, which asks for the write lock of the subscriptions and then has it | `AskToSubscribe`, `Subscribe` |
| the consumers, at the other end of bounded channels | `Handle`, `Leave`: one that acknowledges into a full channel is stuck |

The lock of the subscriptions is fair, and `publish` reads it twice, the second
time with its thread blocked under the first guard: `MayRead` is a guard of
`Send` and of `Spawn`, and a `Subscribe` waits for a call between the two. Without
subscriptions `publish` answers that the event was created; it is not lost.

### WorkflowBuild, Checkpoint, Persistence

`WorkflowBuild` keeps the graph as often as the code does: edges, the lists of
each node, in-degrees, start and end nodes. The two searches, `has_cycle` and
`get_topological_order`, are modelled with their stack and their queue, and
compared with the definition of a cycle and of an order; the order in which a
hash map is read is a choice. `Checkpoint` cuts `save_checkpoint`,
`load_latest_checkpoint` and `prune_checkpoints` where they wait for the
storage; keys are the three that a checkpoint uses, and `FileStorage` puts the
temporary file of one on top of another. `Abandon` drops the future of a call,
`Crash` ends them all. `Persistence` adds the manager: `CreateInstance`,
`CheckpointInstance`, `LoadDefinition`, and a restart or a second manager.

### Capability, its five kinds, CapabilityStore

Each kind has a module with `Permits`, `Constrain`, `Split`, `Join`, `Leq` and
`Meet` under the code's names; `Capability` dispatches on the kind and adds what
is built from others: composite, combination, filter, proxy and the wrapper of
`lion_policy`. A method that may fail returns the set of what it may answer.
Globs, host masks and topic wildcards are constants: the names a pattern matches.

| code | model |
| --- | --- |
| `add_capability`: entry, then the set of the plugin, then the id | `AddCapability`, `FindSet`, `CreateSet`, `ListId` |
| `remove_capability`, `clear_plugin_capabilities` | `RemoveCapability`, `Unlist`; `ClearPluginCapabilities`, `ClearEntry`, `DropSet` |
| `replace_capability`, `partial_revoke`, `apply_policy_constraints` | `ReplaceCapability`; `PartialRevoke`, `StoreReduced`; with the capability fetched before (`GetCapability`, `Derive`) |

`DashMap` is an atomic map per access; `revoked`, `stale` and `raced` are history.
The trait's methods, the wrapper of `lion_policy` and `apply_partial_revocation`
are the operator constants `permits`, `constrain`, `split`, `join`, `meet`,
`policed` and `reduced` of `CapabilityStore`. Two more say what the algebra
promises: `refused(c)`, the requests that `c` and what is derived from it deny
for good, and `regains(by, from, r)`, the derivations for which it promises
nothing. `Refused` and `Regains` of `Capability` are read off the code: what a
filter stops, and what a file does not reach; and joins, the policy below /var,
and the meet of a filter that falls back to the test file.

### CapabilityManager, PluginManager, Managers, Runtime

The capability manager takes its one lock once per operation, so each is a step:
`grant_capability`, `attenuate_capability`, `revoke_capability`, the last with
everything `collect_descendants` collects. The plugin manager's map is behind
tokio's read-write lock, which is modelled with its queue (`waiting`, `readers`):
that is what makes a second read of one task wait behind a writer. State and
metadata of a plugin are two locks, hence `SetState` and `NoteState`; the
metadata at the registration are the caller's, with any state (`Given`). `Managers`
has the workflow manager, which finds a workflow in one map and changes the
other, and the shutdown: a broadcast (heard only by receivers that exist when it
is sent), a count, and a semaphore of permits that do not say who gave them:
`CompleteAnyTime` is `shutdown_complete` before the signal, from a clone, or again.

### Pools, Executor, Locks, Policy, Observability, Config, Libraries

| module | code | cut where |
| --- | --- | --- |
| `Pools` | `pool/resource.rs`, `pool/instance.rs`; `lion_isolation/src/manager` | resources: at each of the three locks; instances and backend: a call holds its lock to its end |
| `Executor` | `pool/thread.rs`, `scheduler/executor.rs`, `actor/system.rs` | at the flag, the channel, each status |
| `Locks` | `sync/lock.rs`, `sync/atomic.rs` | at each atomic instruction |
| `Policy` | `store/in_memory.rs`, `engine`, `integration` | at each access to the map; listing reads one rule after the other |
| `Observability` | `context.rs`, `capability.rs`, `logging.rs`, `metrics.rs` | at each map access of a flush, between own and exported value |
| `Config` | `utils/config.rs`, `utils/version.rs` | not at all: values without threads |

The atomics of `atomic.rs` have no user in the repository, and are put to the
uses they are offered for: `Increment`/`Decrement` around a region
(`CountIn`, `CountOut`), `TrySet` as a lock, `NextNumber` as an id,
`HasChangedSince` against updates. A word of `WordSize` values wraps.
Rules come from a hash map and are sorted by priority alone, so that the readers
answer with the *set* of what they may answer. The caches have the keys of the
code (`cache_key`): the request for the evaluator, the word for its type for the
resolver, which a custom request may share with another kind. In `Executor` a
worker takes a task (`Take`) and then starts it (`Start`, where the closure sets the
handle), so two workers may start two tasks in another order than they took them.

## 3. The runs

| run | instance | result |
| --- | --- | --- |
| `state_machine` | four nodes: a join entered through two parallel edges and one more, and a node on its own; two workers | 5 properties hold |
| `completion_lost` | the same | `CompletionDetected` is violated |
| `scheduler` | three tasks, limit 1, two callers, one worker, two operator calls, policies Priority and MLFQ with two levels | 4 properties hold |
| `engine` | nodes a → b, two tasks, two workers, one client, FIFO, one operator call | 4 properties hold |
| `engine_stall` | the same without operator calls | `WorkflowFinishes` is violated |
| `saga` | a chain of three steps, two rounds, two `start_saga` calls, one client request, both kinds of background task | 4 properties hold |
| `saga_compensation` | the same, one `start_saga` call, the code's task processor | `CompensationEnds` is violated |
| `events` | two events, two consumers, two callers, one retry, channels of one, two semantics, a short and a long `ack_timeout` | 3 properties hold |
| `persistence` | three nodes, five edges of which two close cycles and one is refused, two callers, two checkpoints, both backends | 4 properties hold |
| `access` | two or three capabilities of every kind and four built from others, 32 requests, two clients, three calls; one file capability, one client, six calls | 3 properties hold |
| `runtime` | three tasks, four calls; three capability ids, two subjects, one plugin, one workflow | 5 properties hold |
| `libraries` | two threads and three to six calls of each part | 8 properties hold |

A property that says several things of one component is the conjunction of named
parts, which are commented where they are defined: `CountersExact` is
`InDegreeExact` and `ReadyExact`, and so on.

**state_machine.** `DependencyOrder` is what the graph is for. `CountersExact`
relates the counters to the results: no edge is counted twice (parallel edges
are in the instance) and no ready node is forgotten. `FinishAccepted` is the
reason why the stale write of `schedule_next_nodes` does less harm than it might:
statuses go back to Ready, and `set_node_completed` accepts Ready.
`CompletionExact` says when the completion flag is right, and what is the only
way for it to be missed. `ImplementsNodeExecution` is refinement of the abstract
promise, in which a node has one worker: `phase` is computed from the results
and from the nodes the workers hold.

**completion_lost.** The comment at `machine.rs:247` says the workflow is completed
when all nodes are. Two workers: one reads the ready nodes {b}, the other runs b
to its end, the first writes Ready over b's Completed. The next completion does
not see b as done, and no later one will.

**scheduler.** `TasksAccounted`: a task is never twice in the queues, nor in a
queue and with a worker, through policy changes, demotion and clear
(`AtMostOnePlace`); and which tasks can be left behind, with every way there is
(`RunningTasksHeld`, `AcceptedTaskAccounted`). `CapacityOvershoot` is the exact
bound on how far check-then-insert exceeds `max_queued_tasks`. `PopsByPriority`
is an action property of the heap order. `CallsReturnUnlessCircularWait` is
liveness: a call returns, or it and `clear` are waiting for each other. That
exception is real, which is why deadlock is not checked here (and because a
finite set of tasks is exhausted).

**engine.** `ImplementsStateMachine` makes the results on `StateMachine` results
about the executor. `TasksFollowNodes` relates the scheduler's records to the
instance's. `SchedulingProgress` and `StartedNodeFinishes` are liveness, each
with the exceptions the code has. The system really stops when the workers have
left, so deadlock is not checked.

**engine_stall.** The test at `executor.rs:750-914` (skipped: "known to hang")
asserts that an executed workflow completes. It does not when a start node has
a child: nobody makes the child's task, and the workers have left.

**saga.** `ImplementsSagaOutcome` is the abstract promise: effects respect the
dependencies, none is undone more often than it was made, and a saga becomes
Completed only when every step has had its effect. `CompensationRequested`: no
interleaving of failures, aborts, time-outs, restarts and refused compensations
uses the last request up. Its exception (`late`) is real. `ReadyStepsAreRun`: a
`start_saga` call that returns leaves nothing to run, unless it used up its
rounds. `SagaCallsReturn` is liveness; `abort_saga` returns even when the processor
was faster and emptied the queue. The calls of a finite set end, so deadlock is
not checked; the same goes for the runs below.

**saga_compensation.** s1 completes, s2 fails, the saga is Compensating, the
request is in the orchestrator's queue and the processor looks at another one.

**events.** `CopiesBounded` bounds how often a consumer is sent an event, and
that AtMostOnce is one copy. `HandledOrGivenUp` is the liveness of delivery:
handled, or given up with an error or a log entry, or waiting in the retry
queue for a call of `process_retry_queue`, unless a `publish` hangs with a
`subscribe` (`Hung`): without that exception the property fails. `FlightEndsByExpiry` says what ends the flight of an event:
only its expiry, because the acknowledgement removes it from a clone.

**persistence.** `EditsSound`: after any sequence of edits the five copies of the
graph agree and it is acyclic, and the two searches are right, in whatever order
they go. It turns
the assumptions of `WorkflowGraph` into facts about its construction.
`RefusalChangesOnlyStatus` is what a refused edge leaves behind. `CheckpointsKept`
and `LoadSound`: what is saved can be loaded through crashes and dropped calls
until it is pruned; what is loaded is what was saved, less what is not
serialized (`LoadedIsSaved`); and what an instance of a loaded definition starts with.

**access.** `RevocationHolds`: what `partial_revoke` took away stays away, but
for the lost update that the generation is not compared for, and for what
`Regains` names. Its last case was found by the client that works alone: add,
add, revoke, apply the policy, revoke again, meet with the other, replace, and
the first revocation is gone. `MapsAgree`: the
two maps agree whenever no call is between them, but for the two races on the
set of a plugin. `AlgebraSound`: what is derived permits no more than what it is
derived from, join is an upper bound and leq an inclusion, where the kinds keep
to that (`Plain`, `Direct`, `Comparable` name where they do not); and whatever
is stored keeps its word about what it refuses (`RefusalsSound`), for every
constraint, policy, split, meet, join and revocation of it.

**runtime.** `RightsComeFromGrants`: what a subject may do. `PluginsAgree`: registry, map
and metadata, once a plugin has left Created. `SuccessMeansStopped`: a shutdown that
reports success was told by everyone, unless a component came late or told it
twice. `CancelHolds`:
a look into the other map that is old revives no workflow. `CallsReturn` is
liveness, with the read lock taken twice as its exception.

**libraries.** `PoolsAccounted`: no resource, instance or use is lost that the
statistics do not lose too. `TasksTold` and `PoolServes`: handles tell what
became of a task, and every accepted task is started unless the workers hang or
have left; tasks are taken in the order of their acceptance. `LocksTell`:
statistics gathered without a lock are those of what happened, and the atomics
do what they are for. `AnswersWereRight`: a cached answer was right at some
moment since the cache was cleared, for a request with that key. `RulesAgree`
compares the four readers of the rules over every pair of a set of
rules and some triples. `TelemetryKept`: a thread is in the context it entered or
set, inside of a scope or outside of all, no event is lost unseen, exported metrics are those of the handles.
`ConfigAnswers`: set, get, remove and contains agree on every configuration that
calls lead to, and versions are ordered and compatible as they say.

### Bounds

`MaxOperatorCalls` bounds the operator's calls, `submitted` lets each task be
submitted once (ids are fresh UUIDs), `stops` counts to two because the second
call never returns. With two callers and limit 1 two calls pass the capacity
check together and a third task meets a full registry. One worker is enough for
the scheduler run since a second one would only repeat what callers, operator
and worker already interleave; `Engine` has two, and `Scheduler_proofs` any
number. Two operator calls allow `clear` with `cancel_task` and with
`change_policy`, and `change_policy` to MLFQ with `demote_task`. Two tasks in
the engine run are one node scheduled twice, or parent and child. The four nodes of
the state machine's graph include a join, parallel edges and three nodes ready
together; proofs cover every other graph. `SchedulerFull` is reached in the
scheduler run only.

The saga's chain has a step of each kind (undoable, undoable without a handler
for it, and not undoable; failing the saga, compensating it, and ignored) and is
one longer than `MaxRounds`, so that the limit of rounds (10 in the code) is
reached. Two `start_saga` calls execute every step twice at once. One client
request is either an abort or a compensation; the proofs are for any number of
calls and requests, any steps, and any limit.

One of the broker's two events asks for an acknowledgement, expires, and may go
to both consumers, the other does none of these; with channels and batches of one, a second copy
finds a full channel; the second consumer subscribes after the first (`First`); and
`MaxCalls` (2) lets an event be published again while
it is retried. AtLeastOnce is treated by the code as ExactlyOnce is, but for a
check that refuses nothing, and is left out of the run.

In `persistence`, two checkpoints (`MaxSaves`) and keeping one (`KeepCount`) are
enough to prune the only one that is good; five edges over three nodes have a
cycle of two, one of three, and parallel ways. `access` needs three calls for a
lost update (two that fetch the same generation, one that stores between),
three ids for two capabilities and what is derived from them, and six calls
(`MCMaxCalls`) for filters around the policy around filters. `runtime` has a
grant, two derivations and a revocation; a plugin that one task registers and
starts while another removes it, with metadata that is new or says already that it
runs (`Given`); two components and a shutdown. Which managers
are used together is `Uses`. In `libraries`, `CallsOf` bounds the calls of each
part: a pool that starts larger than its maximum (`InitialSize` 2, `MaxSize` 1),
two creations that race past `MaxSize`, a return that passes a shutdown,
a queue of two that is full or is not empty when its workers leave (the two
thread pools are used by a part each, `executor` and `actors`, and meet in the
shutdown of the first), two readers
that raise a maximum, holds too short to count (0 in `HoldTimes`). `WordSize` is 4 for the 64 bits of a counter, so that it
goes below zero and comes round; `MaxInteger`, `MaxPart` and `MaxIdentifier`
stand for the limits of i64, u32 and u64. The paths of `MCPaths` lead through
keys and indices that exist or not and that fit what is there or not, two levels
deep, and some are not well-formed; two calls make a configuration in which
each kind stands where the other is looked for. A part of the policy run in which
threads call the store (`Called`) has two rules; the readers are compared on
every store of `Policies`.

### Fairness

tokio polls a spawned task and a future that is being awaited until it is done,
and the executor bounds a handler by `default_timeout`, so a worker that has a
node, and a call in progress, are weakly fair. Whether a task arrives
(`StartNode` of `StateMachine`, `ReadPlan`), whether an operator calls anything,
and when `reset` is called, are not. A handler may also panic (`HandlerPanics`, of which nothing is fair): then its
node stays started for ever, and `StartedNodeFinishes` says so. In `Engine` a worker waits for the
instance's write lock; tokio's `RwLock` is first come first served, and a client
cannot take the read lock for ever, because tasks are bounded in the model: weak
fairness of a step that is disabled now and then is enough there.
In `Scheduler` workers are not fair: no property of it needs them to be.
`engine_stall`'s counterexample respects the fairness of clients and workers.
In `Saga` the calls in progress and the spawned processor are weakly fair, and
`timeout_ms` bounds the handlers; nobody has to call anything, and the processor
may end or go on (`EndProcessor` has no fairness).
In `EventBroker` calls in progress, waiting tasks (their time-out fires) and a
`subscribe` that waits for its lock are fair; nobody need call
`process_retry_queue`, receive, leave, or let an event expire.
In `Runtime` calls in progress are fair: woken tasks are polled, the map's lock
is first come first served, and a time-out fires. In `Libraries` the workers are
(they are threads), and so is a thread that waits to put a task into the channel.
`Persistence` and `CapabilityStore` have no liveness: a call may be dropped at
any await, and clients may stop.

## 4. What is proved

All theorems are of the specifications that TLC checks, and for every value of
the constants: every finite graph, every set of callers, workers, tasks, rules
and capabilities, and every limit. They rest on the named assumptions of the
modules and on nothing else, and TLC evaluates each of these on the runs:

- the graph and the actors: `GraphAssumption`, `NoSelfLoop`, `BuildAssumption`,
  `ConditionAssumption`, `NoNodeAssumption`, `TaskAssumption`,
  `ActorAssumption`, `SagaAssumption` (finite sets, edges that join nodes,
  dependencies in an execution order, "none" values that are nobody);
- storage and delivery: `CheckpointAssumption`, `BrokerAssumption`;
- the capability store: `StoreAssumption` ("no set" is none of the sets of ids);
- the runtime: `CallersAssumption`, `NoneIsNoId`, `PluginAssumption`;
- the libraries: `PoolSizes`, `InstanceSizes`, `PoolAssumption`,
  `WorkersHavePools`, `QueuesHold` (a channel has room for a task),
  `HoldsAreTimes`, `WordsHoldCallers` (a word counts more than there are
  threads), `NewRulesAreRules`, `PoliciesAreRules`, `RequestsHaveKinds`,
  `BufferHasSize`, `AuthorsAreFinite`, `PathsAssumption` (a path is a sequence),
  `ValuesAssumption` (values hold values and no None), `VersionsAssumption`
  (numbers of a version fit its width, a prerelease is a sequence).

Some theorems state a hypothesis of their own. `SagaRunsReadySteps` wants someone
who calls `start_saga` (`Starters # {}`). `RevocationsStay` wants capabilities
that keep what they refuse (`Closed`, `Refusing`), which the run asks of all
that it stores (`RefusalsSound`). The theorems about stored definitions
want every definition to have a serialized form (`Definitions \subseteq Values`),
as in the run.

An invariant is shown in three facts: it holds initially, every action keeps it,
and it implies what the run checks. Each module has one lemma per action, or per
action and part of the invariant, in that order. What follows says what had to
be added to each property to make it inductive.

### StateMachine_proofs

`SafetyInvariant` shows that `IInv` is an invariant of `SafetySpec`. `IInv` is
needed because none of the properties is inductive on its own:
`DependencyOrder` needs `ReadyExact` (a node becomes ready when its counter
reaches zero) and `InDegreeExact` (zero means that all parents have succeeded),
`InDegreeExact` needs that a node that has a result is never executed again,
which is `OneWorkerPerNode` with `ReadyExact`. The arithmetic of "one decrement
per edge" is a lemma on cardinalities. From `IInv` follow `TypeCorrect`,
`MutualExclusion`, `CountingExact`, `DependenciesRespected`, `OutcomesAccepted`
and `CompletionReports`; `Refinement` maps every step to a step of
`NodeExecution` or a stutter.

### Scheduler_proofs

`TasksInvariant`: `TaskInv` is the types and `Placed`, which says for every task
which call, which queue, which registry entry and which worker has it, at every
point of a submission, a pop, a demotion, a mark and a clear. `TasksAreAccounted`
is then a matter of reading it; its exceptions are the task a worker took before
it was registered, and `clear`. `PopsAreByPriority` is the action property of
the heap order, priority and then deadline; it needs that a removal disturbs nothing else (`RemoveFirst`).

`CapacityBounded`: the bound on the registry is not inductive, because a call
that has passed the check will register one more task (`Promised`), and a
`mark_task_` call whose task `clear` has removed will bring it back
(`Returning`). `CapacityInvariant` bounds the sum of all three, and a step
either adds to none, or moves one from a promise to the registry, or is the
check, where the registry is below the limit.

### Engine_proofs

`EngineImplementsStateMachine` is the state part of the refinement: each step of
the executor is a step of `StateMachine` or leaves its variables alone. What has
to be shown is that a worker only starts nodes. With it the safety theorems of
`StateMachine_proofs` hold of an instance under the executor.

`RegistryFollowsInstance` relates two data structures that are never locked
together. `EngineInvariant` has the scheduler's `TaskInv`, which the executor's
own steps keep too; how far each worker is with its task on either side
(`LoopPhases`); and that a node that is no longer ready was taken by a task that
can be named (`NodesAreTaken`). The last is the one that is easy to miss: a
worker that is refused a node forgets its task, and what is left of it in
`running_tasks` must belong to a node another task has taken.

### Patterns_proofs

The saga, for any steps and calls, both kinds of processor and every limit.
`SagaInvariant`: a status says no more than the effects do
(`StatusesHaveEffects`), a list of ready steps, however old, holds only steps
whose dependencies took effect (`ListedStepsAreReady`), and a step the processor
is about to undo is owed it although others may execute it again meanwhile
(`UndoIsOwed`). What makes it inductive is that effects are never taken back
(`EffectsLast`): `undone` counts, `done` stays. `SagaImplementsOutcome` follows,
each handler's success being a `Do` and each compensation's an `Undo`.
`SagaKeepsItsRequests`, which excepts sagas with a handler that returned late, is
inductive given the types. `SagaRunsReadySteps` says
for a step that is ready who will run it, or why nobody will.

The broker. `CopiesStayBounded`: that an event was sent at most so often does not say that
the broker has at most one copy of it left to send. `OneCopy` does, wherever the
copy is: with a call of `publish`, in the queue of the retries, or with a task
that waits; `RetriesTell` that the retry count it carries bounds what was sent.
Under AtMostOnce nothing is retried (`NothingAwaited`) and the copies sent and
those about to be are no more than the calls (`CallsSendOnce`).
`FlightsEndByExpiry` is an action property, `BrokerTypeCorrect` the types.

### Persistence_proofs

`DefinitionStaysSound`: the map of edges, the lists of the nodes, the in-degrees
and the start and end nodes describe one graph through every edit, refusals
included. `EditsStaySound` adds that the two searches answer as they should, for
every graph and every order in which a hash map is read.

- What a recursion over the graph is, is a recursive function, a CHOOSE: that
  there is a function with these values is shown by a measure of its arguments
  (`Recursion`: the nodes not yet visited, the nodes and edges not yet counted),
  the least counterexample standing in for an induction, and a fold over a set
  is unrolled part by part (`FoldExists`).
- `has_cycle`: each node on the stack has an edge to another one on it or to the
  node just called (`Called`), what the search has left is closed under edges
  and every part of it has a node that no edge leaves (`Explored`), so that a
  cycle is either in what is not explored, or found (`LoopReturns`,
  `ExploreReturns`, `SearchIsRight`).
- `get_topological_order`: the degrees count the edges from nodes that are not
  done, and the queue holds the nodes that are next (`CountingGoesOn`); when the
  queue is empty, nodes that are left would each have an edge from another of
  them, and so a cycle (`BackwardIsForward`). In a definition that was loaded,
  where all degrees are 0, the first edge takes one below (`LoadedOrders`).

`CheckpointsStayKept`: `CheckpointInv` says that saves exclude one another
(`SavesExclude`), how far each has written (`SavesProgress`), that a list read by
`prune_checkpoints` or a load names what was stored then (`ListsAreStored`), that
a save that reported success can be loaded unless a prune took it
(`SavedIsLoadable`), and that a prune does not take the newest
(`PrunesSpareTheNewest`). Crashes and dropped futures end the call at whichever
of these points it is. A prune that ends so between the data and the metadata of
a checkpoint leaves the latter alone, as an unfinished save does; the theorem
therefore speaks of metadata newer than all that was deleted. `LoadsAreSound`
adds what the stored bytes are, and with it that what is loaded is what was saved
(`SavedIsDefinition`, `CacheIsDefinition`), `RefusedEditsLeaveTheGraph` is an
action property.

### CapabilityStore_proofs

`MapsStayAgreed`, for any number of clients. What is in one map and not in the
other belongs to a call that is between its two accesses, and such a call is the
only one that knows the id (`IdsOwned`): no other adds it, removes it or has it
to clear. While no set is created or dropped under another call, an entry that is
not listed is being added, and an id listed without an entry is being removed or
cleared (`MapsFollow`).

`RevocationsStay`, for any number of clients and every algebra that keeps what
it refuses. `RefusalInv`: the entry of an id refuses what was revoked of the id,
unless the id is stale, and so does what a client holds for the id, as long as
nobody replaced the entry since; a replacement makes the generations differ for
everybody else who holds it, so that what they store later makes the id stale
(`ReplaceKeepsRefusals`). The theorem thus says of the store what is its own:
that the lost update is the only way in which its calls, interleaved, give
a right back. What depends on the kinds of capability is `RefusalsKept`.

### Runtime_proofs

The invariant `RuntimeInv` has one part per manager. They share the callers
only, and a caller stands at a place of one manager, so a step of one leaves the
parts of the others alone (`Aside`).

- Capabilities: entries and their parents name each other, a derived entry is
  for the same object, with no more rights, and valid only while its parent is,
  and the index lists what is valid. To come from an entry to its root
  (`Grounding`, `RuntimeRights`) one needs that the ancestors do not run in a
  circle, which is stated without induction as: every set of entries has one
  whose parent is not in it (`Grounded`). `RuntimeKeepsCapabilities` shows that
  the whole runtime is a behaviour of the capability manager.
- Plugins: who works on an entry holds a read guard of the map that has it
  (`GuardsHeld`), so that a writer is alone; the registry is one step ahead of
  the map (`RegistryAhead`), the metadata one behind the state (`MetaFollows`).
  `PluginsStayAgreed` follows.
- Shutdown: one request (`OneRequest`), and until it reports, unless a component
  completed twice, the components counted are the permits and those that run
  (`PermitsCounted`). `ShutdownsStopComponents` follows.
- `CancelsHold` is an action property and needs types only.

### Libraries_proofs

A behaviour uses one library, and a thread stands at a step of it
(`CallersAtPart`), so there is one invariant per library.

- `TasksAreTold`: a channel holds exactly the tasks that wait, in the order of
  their acceptance (`ChannelsHoldTasks`), a task that runs is held by one worker
  (`WorkersRunTasks`), a shutdown drops what waits only when the workers of the
  pool have left (`DropsAtShutdown`).
- `PoolsStayAccounted`: the bound on living resources counts those about to be
  created too (`Underway`); the size is what waits, is used, or was closed
  uncounted (`Used`); and what a shutdown leaves counts the returns that have
  still to push (`Draining`).
- `LocksAreTold`: the maximum is the longest time held, or the thread that held
  so long is about to raise it, from below (`RaisesGoUp`); the time held is at
  most that for each guard released, counted as acquisitions less guards out
  (`StatsTell`). A hold under a microsecond counts 0.
  The counter modulo `WordSize` wraps at most once.
- `AnswersStayRight`: a listing has found what matches among the rules it has
  read, unless the rules changed meanwhile (`CallSound`); an answer put into the
  cache was right at some moment since the last clear, for a request with its
  key (`CachedSound`).
- `RulesStayAgreed`: of the deciding rules with the highest priority any may come
  first, so what a reader may answer is said without its order (`BestDecides`).
  Then a rule that one reader finds, another finds too (`MapperFindsRelevant`),
  and they decide alike where the property says so.
- `TelemetryIsKept`: at each depth a thread will find what it entered there
  (`Restores`); an accepted event is written, lost, buffered or being flushed;
  a counter is exported or about to be; and who exports a gauge carries its
  value, unless another was faster (`GaugeCall`, `LastExport`).
- `ConfigurationsAnswer`: the invariant says no more than that all of a
  configuration are values (`ConfigInv`); the rest is about what the functions
  return. A path's way down and what is rebuilt on the way up are recursive
  functions, whose equations are proved first (`LeadsExist`, `RebuildsExist`,
  `ReadsExist`), by the least counterexample. Two paths lead to the same as far
  as they agree, and on from where they are at the same (`WaysAgree`); what was
  put is found, and another path finds what it found, or a filler, or nothing
  (`PlacedHas`, `PutApart`); what is removed moves later elements up
  (`WithoutIs`). Of versions, two differ first at one place (`CmpDecides`), where
  the signs of three are in order (`PlacesOrdered`), whence the order of
  all (`CmpTransitive`).

Sums over sets are folds, whose value depends on the order a CHOOSE gives. A sum
of naturals is shown to be the cardinality of the set of its units
(`SumIsTotal`), by well-founded induction on the size of the set, and a
cardinality changes by what a step adds.

Record updates of the actions are written `[f EXCEPT ![c] = [@ EXCEPT ...]]`
with the old field spelled out, and not `[f EXCEPT ![c].a = ..., ![c].b = ...]`
or with a nested `@`: the proof system translates those two forms wrongly.

### Only model-checked

- All liveness, which is out of the proof system's reach: `CallsReturn`, `SagaCallsReturn`,
  `CallsReturnUnlessCircularWait`, `SchedulingProgress`, `StartedNodeFinishes`,
  `HandledOrGivenUp`, `PoolServes`.
- `AlgebraSound`, and with it that the capabilities of Lion satisfy the
  hypotheses of `RevocationsStay`: `Capability` is recursive over nested
  capabilities, and the proof system loses its arithmetic backend in every module
  that reaches a RECURSIVE operator.

## 5. Findings

Where the code does something else than a comment or a test of the repository
says. Two kinds of run show them: a run whose one property states the claim and
is violated (the first three), and a run that holds because its property says
what the code does or names the exception. `PROJECT.json` quotes the lines.

| finding | at | run: property |
| --- | --- | --- |
| A stale snapshot puts a completed node back to Ready, and the workflow is never marked completed | `lion_workflow/state/machine.rs:610` | `completion_lost`: `CompletionDetected` |
| Children of a node get no task, and workers leave at the first empty queue | `lion_workflow/engine/executor.rs:317` | `engine_stall`: `WorkflowFinishes` |
| Task processor and timeout monitor work on a clone: nothing is ever compensated, and no saga times out | `lion_workflow/patterns/saga/orchestrator.rs:1021` | `saga_compensation`: `CompensationEnds` |
| Of equal priorities the later deadline is served first | `lion_workflow/engine/scheduler.rs:246` | `scheduler`: `PopsByPriority` |
| `clear` and `schedule_task` can wait for each other for ever | `lion_workflow/engine/scheduler.rs:767` | `scheduler`: `CallsReturnUnlessCircularWait` |
| A task taken between its queue and the registry is accepted and dropped | `lion_workflow/engine/scheduler.rs:444` | `scheduler`: `TasksAccounted` |
| A refused task stays in the running tasks | `lion_workflow/engine/executor.rs:351` | `engine`: `TasksFollowNodes` |
| `max_queued_tasks` counts finished tasks, and is exceeded by concurrent calls | `lion_workflow/engine/scheduler.rs:406` | `scheduler`: `CapacityOvershoot` |
| Steps completed after the saga failed are not compensated | `lion_workflow/patterns/saga/orchestrator.rs:656` | `saga`: `CompensationRequested` |
| Acknowledged events are removed and marked in a clone: they stay in flight, and ExactlyOnce refuses nothing | `lion_workflow/patterns/event/broker.rs:267` | `events`: `FlightEndsByExpiry` |
| The acknowledgement is looked for on a new channel and never seen; consumers block on the old one | `lion_workflow/patterns/event/broker.rs:319` | `events`: `HandledOrGivenUp` |
| `publish` reads the subscriptions again under its own guard, and hangs with a `subscribe` | `lion_workflow/patterns/event/broker.rs:175` | `events`: `HandledOrGivenUp` |
| With files the metadata overwrites the data of the checkpoint: every save fails | `lion_workflow/state/storage.rs:80` | `persistence`: `LoadSound` |
| A loaded definition has in-degree 0 everywhere, and an instance of it starts every node | `lion_workflow/model/node.rs:71` | `persistence`: `LoadSound` |
| A refused edge into a start node leaves the node Ready | `lion_workflow/model/definition.rs:212` | `persistence`: `RefusalChangesOnlyStatus` |
| Pruning counts unfinished checkpoints and may delete the only good one | `lion_workflow/state/checkpoint.rs:344` | `persistence`: `CheckpointsKept` |
| The generation of an entry is never compared: a concurrent replacement undoes a revocation | `lion_capability/store/in_memory.rs:183` | `access`: `RevocationHolds` |
| Partial revocation denies only requests with exactly the same flags, and a join gives the right back | `lion_capability/store/partial_revocation.rs:43` | `access`: `RevocationHolds` |
| A filter whose inner meet fails falls back to a test file without the filters within: what was revoked is permitted again | `lion_capability/attenuation/filter.rs:275` | `access`: `RevocationHolds` |
| The set of a plugin's ids is not created or dropped atomically: an entry stays unlisted | `lion_capability/store/in_memory.rs:105` | `access`: `MapsAgree` |
| `leq` of files never looks at the operations | `lion_capability/model/file.rs:255` | `access`: `AlgebraSound` |
| `meet` answers with a test port and a test file, and a right taken from a port or topic uncovers the default | `lion_capability/model/network.rs:603` | `access`: `AlgebraSound` |
| `remove_plugin` takes a read lock under its own guard and blocks behind a writer | `lion_runtime/plugin/manager.rs:304` | `runtime`: `CallsReturn` |
| A component that waits after the signal is never told | `lion_runtime/system/shutdown.rs:64` | `runtime`: `CallsReturn` |
| Permits do not say who gave them: a late component's, or a second one of the same component, counts for one that still runs | `lion_runtime/system/shutdown.rs:192` | `runtime`: `SuccessMeansStopped` |
| `register` and `remove` of one plugin that overlap leave it in registry or map alone | `lion_runtime/plugin/manager.rs:156` | `runtime`: `PluginsAgree` |
| `flush_all` removes from the map it iterates over and never returns | `lion_observability/logging.rs:451` | `libraries`: `TelemetryKept` |
| A flush that is refused half way loses the rest of the events | `lion_observability/logging.rs:443` | `libraries`: `TelemetryKept` |
| A panic leaves the thread in the context it ended | `lion_observability/context.rs:242` | `libraries`: `TelemetryKept` |
| Metrics of one name have each a value of its own | `lion_observability/metrics.rs:289` | `libraries`: `TelemetryKept` |
| `set` replaces what is in the way and never fails | `lion_core/utils/config.rs:712` | `libraries`: `ConfigAnswers` |
| `set` panics on a path of separators | `lion_core/utils/config.rs:670` | `libraries`: `ConfigAnswers` |
| The next minor version of 0.x is not compatible | `lion_core/utils/version.rs:140` | `libraries`: `ConfigAnswers` |
| Numbers beyond u64 compare as 0 | `lion_core/utils/version.rs:223` | `libraries`: `ConfigAnswers` |
| The use count of an instance never passes 2, so `max_uses` limits nothing | `lion_concurrency/pool/instance.rs:279` | `libraries`: `PoolsAccounted` |
| A return that passes a shutdown leaves an open resource in the pool | `lion_concurrency/pool/resource.rs:395` | `libraries`: `PoolsAccounted` |
| Failed `try_lock`s are not counted as failures | `lion_concurrency/sync/lock.rs:157` | `libraries`: `LocksTell` |
| The time-out of a task does not end it | `lion_concurrency/scheduler/executor.rs:313` | `libraries`: `PoolServes` |
| A loaded plugin without an instance has no usage | `lion_isolation/manager/backend.rs:327` | `libraries`: `PoolsAccounted` |
| `apply_policy_constraints` evaluates no rule | `lion_policy/integration/mapper.rs:75` | `access`: `RevocationHolds` |
| The resolver answers for /tmp, /etc and /var whatever the rules say | `lion_policy/integration/resolver.rs:240` | `libraries`: `RulesAgree` |
| Cached answers outlive the rules they come from | `lion_policy/engine/evaluator.rs:68` | `libraries`: `AnswersWereRight` |
| A custom request of type `file` gets the constraints cached for a file | `lion_policy/integration/resolver.rs:73` | `libraries`: `AnswersWereRight` |

## 6. What is not modelled, and why

- Formatting, logging, output, statistics that nothing reads, argument parsing:
  no control depends on them (`lion_cli`, most of `lion_core`).
- The WebAssembly engine: its state belongs to wasmtime, which is not in the
  repository. Of `lion_isolation/src/interface/capability.rs` the host functions
  answer constants, and the rest is called from nowhere. What wasmtime answers
  to a call is a choice in `Pools`.
- Time. Time-outs, deadlines and creation times are an order or a choice.
- In the modelled components: the scheduler's `update_config` (its limits are
  constants); the executor's statistics, its monitor (it cancels what
  `check_timeouts` lists, and no caller sets a maximum time) and a second
  `start`; the saga's `stop`, its handler registration and its clean-up, which
  removes finished sagas from an empty clone; several sagas at once, which share
  nothing but two queues; the actors' mailboxes, wrappers of a channel, and the
  supervisor, whose strategies are looked up and not applied; in `lion_policy`
  audits, the parsing of constraints and their translation; in
  `lion_observability` spans, which only write.
- Copies of a pool of instances (`instance.rs:298`) and of a `TrackedMutex`
  (`lock.rs:295`), which share statistics and nothing else with the original;
  channels of size 0 in a thread pool.
- Acknowledgements that arrive in time at the broker: nobody holds the sender of
  the channel it reads.
- `src/patterns/tests/*.rs` are not compiled into the crate.

## 7. Plan

Every component with control of its own is modelled, and every safety property
of the runs but one, `AlgebraSound`, is proved. What is left, in this order:

1. `RefusalsKept` for the capabilities of Lion, with nesting as a finite tree of
   records instead of a recursion.
2. An abstract `Delivery` for the broker to implement, as `SagaOutcome` is for
   the saga.
3. `update_config` of the scheduler, with limits that shrink below what is queued,
   and two sagas over one processor.
