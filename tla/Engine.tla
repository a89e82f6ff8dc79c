------------------------------- MODULE Engine ------------------------------
(***************************************************************************)
(* WorkflowExecutor (lion_workflow/src/engine/executor.rs): the worker     *)
(* loop and the client methods, which drive a WorkflowScheduler and one    *)
(* workflow instance. The scheduler's steps are those of Scheduler and the *)
(* instance's those of StateMachine; this module says which goes with      *)
(* which, in what order, and what each waits for.                          *)
(*                                                                         *)
(* schedule_node holds the instance's read lock across schedule_task, so   *)
(* no worker writes the instance meanwhile.                                *)
(***************************************************************************)
EXTENDS WorkflowState, SchedulerState

CONSTANTS Callers, Workers, Operator, InitialPolicy, Policies, MaxOperatorCalls,
          MayPanic  \* the nodes whose handler may panic

VARIABLES call, submitted, accepted, worker, mark, demoted, clearing, cleared,
          operatorCalls, dropped

VARIABLES activity, node, snapshot

VARIABLES
  nodeOf,   \* nodeOf[t]: Task::node_id, once the task is made
  plan,     \* plan[c]: the ready nodes c has still to schedule
  outcome,  \* outcome[w]: the result of the handler w has run
  exited,   \* the workers whose loop has ended
  stops     \* calls to stop: the second never returns

S == INSTANCE Scheduler

M == INSTANCE StateMachine

(* The actors are finitely many and the two null values are no task or node. *)
ASSUME ActorAssumption ==
  /\ S!NoTask \notin TaskId /\ M!NoNode \notin NodeId
  /\ IsFiniteSet(Callers) /\ IsFiniteSet(Workers)
  /\ Operator \notin Workers
  /\ InitialPolicy \in SchedulingPolicy /\ Policies \subseteq SchedulingPolicy
  /\ MaxOperatorCalls \in Nat

actorVars == <<call, submitted, accepted, worker, mark, demoted, clearing, cleared,
               operatorCalls, dropped>>

workflowVars == <<stateVars, activity, node, snapshot>>

engineVars == <<nodeOf, plan, outcome, exited, stops>>

vars == <<schedulerVars, actorVars, workflowVars, engineVars>>

TypeOK ==
  /\ StateTypeOK
  /\ SchedulerTypeOK
  /\ nodeOf \in [TaskId -> NodeId \union {M!NoNode}]
  /\ plan \in [Callers -> SUBSET NodeId]
  /\ outcome \in [Workers -> {"none", "Completed", "Failed"}]
  /\ exited \in SUBSET Workers
  /\ stops \in 0 .. 2

(* A started executor, and execute_workflow called by some client: it has  *)
(* created the instance and read the ready nodes.                          *)
Init ==
  /\ S!Init
  /\ M!Init
  /\ nodeOf = [t \in TaskId |-> M!NoNode]
  /\ \E c \in Callers : plan = [d \in Callers |-> IF d = c THEN readyNodes ELSE {}]
  /\ outcome = [w \in Workers |-> "none"]
  /\ exited = {}
  /\ stops = 0

(* The instance's read lock, held by schedule_node. *)
InstanceRead == \E c \in Callers : call[c].step # "none"

-----------------------------------------------------------------------------
(* schedule_ready_nodes, the read of the ready nodes. Nothing in the       *)
(* executor calls it again after execute_workflow; a client may.           *)
ReadPlan(c) ==
  /\ plan[c] = {} /\ call[c].step = "none"
  /\ plan' = [plan EXCEPT ![c] = readyNodes]
  /\ UNCHANGED <<schedulerVars, actorVars, workflowVars, nodeOf, outcome, exited, stops>>

(* schedule_node: a new task for n. The first error ends the whole call,   *)
(* and what is left of the plan with it. The second stop keeps the write   *)
(* lock of is_running for ever, and schedule_node reads it first.          *)
ScheduleNode(c, n, t) ==
  /\ n \in plan[c]
  /\ stops < 2
  /\ S!Submit(c, t)
  /\ nodeOf' = [nodeOf EXCEPT ![t] = n]
  /\ plan' = [plan EXCEPT ![c] = IF isRunning THEN @ \ {n} ELSE {}]
  /\ UNCHANGED <<workflowVars, outcome, exited, stops>>

AdmitTask(c) ==
  /\ S!CheckCapacity(c)
  /\ plan' = [plan EXCEPT ![c] = IF HasRoom THEN @ ELSE {}]
  /\ UNCHANGED <<workflowVars, nodeOf, outcome, exited, stops>>

EnterTask(c) ==
  /\ S!PushTask(c) \/ S!Register(c)
  /\ UNCHANGED <<workflowVars, engineVars>>

-----------------------------------------------------------------------------
(* Mutant: the loop waits for is_running instead of its copy. *)
AskWhileRunning(w) ==
  /\ isRunning
  /\ w \notin exited /\ activity[w] = "idle"
  /\ S!ReadPolicy(w)
  /\ UNCHANGED <<workflowVars, engineVars>>

(* The top of the worker loop. *)
AskForTask(w) ==
  /\ w \notin exited /\ activity[w] = "idle"
  /\ S!ReadPolicy(w)
  /\ UNCHANGED <<workflowVars, engineVars>>

(* start_worker drops the sender of the worker's cancel channel when it    *)
(* returns, so cancel_rx.recv() is ready at once and wins the select       *)
(* against the sleep: the first empty queue ends the loop.                 *)
LeaveOnEmptyQueue(w) ==
  /\ S!FindNothing(w)
  /\ exited' = IF worker'[w] = S!Idle THEN exited \union {w} ELSE exited
  /\ UNCHANGED <<workflowVars, nodeOf, plan, outcome, stops>>

TakeTask(w) ==
  /\ \E t \in TaskId : S!PopTask(w, t)
  /\ UNCHANGED <<workflowVars, engineVars>>

(* mark_task_running, or TaskNotFound. *)
StartTask(w) ==
  /\ S!StartTask(w) \/ S!DropTask(w)
  /\ UNCHANGED <<workflowVars, engineVars>>

Marked(w) == worker[w].step = "running" /\ mark[w].step = "none"

(* Mutant: the node is taken without asking whether it is ready. *)
StartNodeUnasked(w) ==
  /\ Marked(w) /\ activity[w] = "idle"
  /\ ~InstanceRead
  /\ nodeStatus' = [nodeStatus EXCEPT ![nodeOf[worker[w].task]] = "Running"]
  /\ readyNodes' = readyNodes \ {nodeOf[worker[w].task]}
  /\ activity' = [activity EXCEPT ![w] = "executing"]
  /\ node' = [node EXCEPT ![w] = nodeOf[worker[w].task]]
  /\ UNCHANGED <<nodeInDegree, nodeResults, edgeConditions, isCompleted, hasFailed, snapshot,
                 schedulerVars, actorVars, engineVars>>

(* set_node_running *)
StartNode(w) ==
  /\ Marked(w) /\ activity[w] = "idle"
  /\ ~InstanceRead
  /\ M!StartNode(w, nodeOf[worker[w].task])
  /\ UNCHANGED <<schedulerVars, actorVars, engineVars>>

(* Refused: the worker goes on to the next task, and this one stays        *)
(* Running in the registry and in running_tasks.                           *)
RefuseNode(w) ==
  /\ Marked(w) /\ activity[w] = "idle"
  /\ ~InstanceRead
  /\ nodeOf[worker[w].task] \notin readyNodes
  /\ worker' = [worker EXCEPT ![w] = S!Idle]
  /\ UNCHANGED <<schedulerVars, call, submitted, accepted, mark, demoted, clearing, cleared,
                 operatorCalls, dropped, workflowVars, engineVars>>

(* Mutants: a failed task is not marked; it is marked completed. *)
FailUnmarked(w) ==
  /\ activity[w] = "executing" /\ outcome[w] = "none" /\ w \notin exited
  /\ \/ /\ S!FinishTask(w, "Completed")
        /\ outcome' = [outcome EXCEPT ![w] = "Completed"]
     \/ /\ worker' = [worker EXCEPT ![w] = S!Idle]
        /\ outcome' = [outcome EXCEPT ![w] = "Failed"]
        /\ UNCHANGED <<schedulerVars, call, submitted, accepted, mark, demoted, clearing, cleared,
                       operatorCalls, dropped>>
  /\ UNCHANGED <<workflowVars, nodeOf, plan, exited, stops>>

MarkedCompleted(w) ==
  /\ activity[w] = "executing" /\ outcome[w] = "none" /\ w \notin exited
  /\ \E status \in {"Completed", "Failed"} :
       /\ S!FinishTask(w, "Completed")
       /\ outcome' = [outcome EXCEPT ![w] = status]
  /\ UNCHANGED <<workflowVars, nodeOf, plan, exited, stops>>

(* The handler returns, fails, times out or is missing, and the task is    *)
(* marked accordingly, before the node is.                                 *)
FinishTask(w) ==
  /\ activity[w] = "executing" /\ outcome[w] = "none" /\ w \notin exited
  /\ \E status \in {"Completed", "Failed"} :
       /\ S!FinishTask(w, status)
       /\ outcome' = [outcome EXCEPT ![w] = status]
  /\ UNCHANGED <<workflowVars, nodeOf, plan, exited, stops>>

(* The handler panics, and the worker with it: the task and its node stay  *)
(* Running.                                                                *)
HandlerPanics(w) ==
  /\ activity[w] = "executing" /\ outcome[w] = "none" /\ w \notin exited
  /\ node[w] \in MayPanic
  /\ exited' = exited \union {w}
  /\ UNCHANGED <<schedulerVars, actorVars, workflowVars, nodeOf, plan, outcome, stops>>

(* Mutant: a failed handler's node is never told. *)
FinishSuccessOnly(w) ==
  /\ worker[w].step = "idle" /\ outcome[w] = "Completed"
  /\ ~InstanceRead
  /\ M!CompleteNode(w)
  /\ outcome' = [outcome EXCEPT ![w] = "none"]
  /\ UNCHANGED <<schedulerVars, actorVars, nodeOf, plan, exited, stops>>

(* set_node_completed or set_node_failed *)
FinishNode(w) ==
  /\ worker[w].step = "idle"
  /\ ~InstanceRead
  /\ \/ outcome[w] = "Completed" /\ M!CompleteNode(w)
     \/ outcome[w] = "Failed" /\ M!FailNode(w)
  /\ outcome' = [outcome EXCEPT ![w] = "none"]
  /\ UNCHANGED <<schedulerVars, actorVars, nodeOf, plan, exited, stops>>

(* schedule_next_nodes: it changes statuses, and makes no task. *)
ScheduleNextNodes(w) ==
  /\ \/ M!ReadReadyNodes(w)
     \/ ~InstanceRead /\ M!WriteReadyStatus(w)
  /\ UNCHANGED <<schedulerVars, actorVars, engineVars>>

-----------------------------------------------------------------------------
(* executor.cancel_task: the scheduler's record only. *)
CancelTask ==
  /\ \E t \in TaskId : S!CancelTask(t)
  /\ UNCHANGED <<workflowVars, engineVars>>

MarkStep(p) ==
  /\ S!MarkStep(p)
  /\ UNCHANGED <<workflowVars, engineVars>>

(* stop: the workers have copies of is_running and go on. The message of   *)
(* the first call fills the cancel channel, which nobody reads. Its write  *)
(* lock, held until the scheduler has stopped, makes it one step for       *)
(* schedule_node, the only reader.                                         *)
Stop ==
  /\ stops = 0
  /\ stops' = 1
  /\ S!OperatorCall
  /\ SetIsRunning(FALSE)
  /\ UNCHANGED <<call, submitted, accepted, worker, mark, demoted, clearing, cleared, dropped,
                 workflowVars, nodeOf, plan, outcome, exited>>

(* The second call takes the write lock of is_running and waits for room   *)
(* in the cancel channel for ever; it does not reach the scheduler.        *)
StopAgain ==
  /\ stops = 1
  /\ stops' = 2
  /\ UNCHANGED <<schedulerVars, actorVars, workflowVars, nodeOf, plan, outcome, exited>>

ClientStep(c) ==
  \/ \E n \in NodeId, t \in TaskId : ScheduleNode(c, n, t)
  \/ AdmitTask(c)
  \/ EnterTask(c)

WorkerStep(w) ==
  \/ AskForTask(w)
  \/ LeaveOnEmptyQueue(w)
  \/ TakeTask(w)
  \/ StartTask(w)
  \/ MarkStep(w)
  \/ StartNode(w)
  \/ RefuseNode(w)
  \/ FinishTask(w)
  \/ HandlerPanics(w)
  \/ FinishNode(w)
  \/ ScheduleNextNodes(w)

Next ==
  \/ \E c \in Callers : ReadPlan(c)
  \/ \E c \in Callers : ClientStep(c)
  \/ \E w \in Workers : WorkerStep(w)
  \/ CancelTask
  \/ MarkStep(Operator)
  \/ Stop
  \/ StopAgain

(* Spawned tasks and calls in progress are polled until they end. *)
Spec ==
  /\ Init /\ [][Next]_vars
  /\ \A c \in Callers : WF_vars(ClientStep(c))
  /\ \A w \in Workers : WF_vars(WorkerStep(w))
  /\ WF_vars(MarkStep(Operator))
-----------------------------------------------------------------------------
(* Driven by the executor, the instance behaves as StateMachine says, so   *)
(* what is proved there holds here: whatever tasks the clients duplicate,  *)
(* the handler of a node runs once and after those of its parents.         *)
ImplementsStateMachine == M!SafetySpec

(* The executor leaves a task in running_tasks only if it came second: its *)
(* node was already executed through another task.                         *)
LeaksOnlyDuplicates ==
  \A t \in runningTasks :
    \/ S!Holders(t) # {}
    \/ \E u \in TaskId \ {t} : /\ nodeOf[u] = nodeOf[t]
                               /\ nodeOf[t] \in M!Held \/ nodeResults[nodeOf[t]] # "none"

(* The outcome of a node is recorded after that of a task for it, so a     *)
(* client that sees the node finished finds a finished task, too.          *)
TaskFinishesBeforeNode ==
  \A n \in NodeId : nodeResults[n] # "none" =>
    \E t \in TaskId : /\ nodeOf[t] = n
                      /\ \/ registry[t] = "Cancelled"
                         \/ /\ nodeResults[n] = "output"
                            /\ registry[t] = "Completed"
                         \/ /\ nodeResults[n] = "error"
                            /\ registry[t] = "Failed"

(* The registry of the scheduler follows the instance of the workflow.     *)
TasksFollowNodes == LeaksOnlyDuplicates /\ TaskFinishesBeforeNode

(* A task in the queue is taken by some worker, unless every worker has    *)
(* left before: a worker leaves at the first empty queue it sees.          *)
QueuedTaskTaken ==
  \A t \in TaskId : S!Queued(t) ~> (~S!Queued(t) \/ exited = Workers)

(* A node the state machine let a worker start gets its result, although   *)
(* the worker needs the instance's write lock and clients keep taking the  *)
(* read lock, unless its handler panics and takes the worker with it.      *)
StartedNodeFinishes ==
  \A n \in NodeId :
    n \in M!Held ~> \/ nodeResults[n] # "none"
                   \/ \E w \in exited : activity[w] = "executing" /\ node[w] = n

(* execute_workflow and schedule_ready_nodes return, unless stop was       *)
(* called twice (or the model has no task left to give them).              *)
SchedulingReturns ==
  \A c \in Callers :
    (plan[c] # {} \/ call[c].step # "none")
      ~> ((plan[c] = {} /\ call[c].step = "none") \/ stops = 2 \/ submitted = TaskId)

(* Both ends of the queue go on: tasks are taken from it and put into it.  *)
SchedulingProgress == QueuedTaskTaken /\ SchedulingReturns

(* What the test at executor.rs:914 asserts of an executed workflow. The   *)
(* code makes tasks for the start nodes only, and its workers leave.       *)
WorkflowFinishes == <>(isCompleted \/ hasFailed)
=============================================================================
