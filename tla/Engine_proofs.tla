--------------------------- MODULE Engine_proofs ----------------------------
(***************************************************************************)
(* The executor drives the workflow instance as StateMachine allows: every *)
(* step of Engine is a step of StateMachine or leaves the instance alone.  *)
(* So the theorems of StateMachine_proofs hold of a workflow run by any    *)
(* number of workers, clients and tasks.                                   *)
(*                                                                         *)
(* And the two agree: what the scheduler's registry records of the tasks   *)
(* is what the instance has of their nodes. That needs where the tasks are *)
(* (TaskInv of Scheduler_proofs, which Engine's own steps keep too), how   *)
(* far each worker is with its task on either side (LoopPhases), and that  *)
(* a node that is no longer ready was taken by a task that can be named    *)
(* (NodesAreTaken): a worker forgets the task whose node it is refused.    *)
(***************************************************************************)
EXTENDS Engine, TLAPS

SP == INSTANCE Scheduler_proofs

(* The executor calls neither clear nor demote_task. RunningAreBusy of     *)
(* Scheduler_proofs does not hold here: see LeftRunning.                   *)
Undisturbed == ~cleared /\ clearing = "no" /\ demoted = S!NoTask

Typed ==
  /\ nodeOf \in [TaskId -> NodeId \union {M!NoNode}]
  /\ plan \in [Callers -> SUBSET NodeId]
  /\ outcome \in [Workers -> {"none", "Completed", "Failed"}]
  /\ activity \in [Workers -> M!Activities]
  /\ node \in [Workers -> NodeId \union {M!NoNode}]
  /\ nodeResults \in [NodeId -> {"none", "output", "error"}]
  /\ readyNodes \subseteq NodeId
  /\ \A t \in submitted : nodeOf[t] \in NodeId

(* The task is over for the scheduler: nobody has it or will have it. *)
Done(t) ==
  /\ t \in accepted
  /\ \A q \in SP!QueueName : t \notin SP!In(q)
  /\ \A w \in Workers : worker[w].task # t

Begun(n) == n \in M!Held \/ nodeResults[n] # "none"

(* Task u is the one for which node n was started. *)
Takes(u, n) ==
  /\ u \in submitted /\ nodeOf[u] = n
  /\ Done(u) \/ \E v \in Workers : activity[v] = "executing" /\ worker[v].task = u

Taken(n) == Begun(n) /\ \E u \in TaskId : Takes(u, n)

(* A node somebody has planned or made a task for was ready then, so it is *)
(* ready still or was taken by a task that can be named. Hence the refusal *)
(* of a second task implies the first.                                     *)
NodesAreTaken ==
  /\ \A t \in submitted : nodeOf[t] \in readyNodes \/ Taken(nodeOf[t])
  /\ \A c \in Callers : \A n \in plan[c] : n \in readyNodes \/ Taken(n)

(* cancel_task may overwrite the record of a task at any time, nobody else. *)
Reports(u, status) == registry[u] \in {status, "Cancelled"}

(* The worker loop: which steps of a worker with the scheduler go with     *)
(* which of its dealings with the instance.                                *)
LoopPhase(w) ==
  \/ activity[w] = "idle" /\ outcome[w] = "none" /\ worker[w].step # "finishing"
  \/ /\ activity[w] \in {"finished", "scheduling"} /\ outcome[w] = "none"
     /\ worker[w].step = "idle"
  \/ /\ activity[w] = "executing" /\ outcome[w] = "none"
     /\ worker[w].step = "running" /\ mark[w].step = "none"
     /\ nodeOf[worker[w].task] = node[w]
  \/ /\ activity[w] = "executing" /\ outcome[w] # "none"
     /\ worker[w].step = "finishing" /\ mark[w].status = outcome[w]
     /\ nodeOf[worker[w].task] = node[w]
     /\ (mark[w].step = "written" => Reports(worker[w].task, outcome[w]))
  \/ /\ activity[w] = "executing" /\ outcome[w] # "none" /\ worker[w].step = "idle"
     /\ \E u \in submitted : nodeOf[u] = node[w] /\ Done(u) /\ Reports(u, outcome[w])

LoopPhases == \A w \in Workers : LoopPhase(w)

StatusFor(result) == IF result = "output" THEN "Completed" ELSE "Failed"

(* A node with a result has a finished task recorded with it.              *)
ResultsReported ==
  \A n \in NodeId : nodeResults[n] # "none" =>
    \E u \in submitted : nodeOf[u] = n /\ Done(u) /\ Reports(u, StatusFor(nodeResults[n]))

(* Only the task of a worker, or one that was second for its node, is left *)
(* in running_tasks.                                                       *)
LeftRunning ==
  \A t \in runningTasks :
    \/ \E w \in Workers : worker[w].task = t
    \/ \E u \in submitted \ {t} : nodeOf[u] = nodeOf[t] /\ Begun(nodeOf[t])

IInv ==
  /\ SP!TaskInv /\ Undisturbed /\ Typed
  /\ NodesAreTaken /\ LoopPhases /\ ResultsReported /\ LeftRunning

(* A task is made for a node of the workflow only, as far as the instance  *)
(* lets it start.                                                          *)
ReadyAreNodes == readyNodes \subseteq NodeId

LEMMA IdleInstance ==
  ASSUME UNCHANGED workflowVars
  PROVE  UNCHANGED M!vars /\ UNCHANGED readyNodes
BY DEF workflowVars, stateVars, M!vars, M!stateVars

(* The clients, the operator and the worker's dealings with the scheduler  *)
(* do not touch the instance.                                              *)
LEMMA SchedulerSteps ==
  ASSUME \/ \E c \in Callers : ReadPlan(c) \/ ClientStep(c)
         \/ CancelTask \/ MarkStep(Operator) \/ Stop \/ StopAgain
         \/ \E w \in Workers : \/ AskForTask(w) \/ LeaveOnEmptyQueue(w) \/ TakeTask(w)
                               \/ StartTask(w) \/ MarkStep(w) \/ RefuseNode(w) \/ FinishTask(w)
                               \/ HandlerPanics(w)
  PROVE  UNCHANGED workflowVars
<1>1. ASSUME NEW c \in Callers, ReadPlan(c) \/ ClientStep(c) PROVE UNCHANGED workflowVars
  BY <1>1 DEF ReadPlan, ClientStep, ScheduleNode, AdmitTask, EnterTask
<1>2. CASE CancelTask \/ MarkStep(Operator) \/ Stop \/ StopAgain
  BY <1>2 DEF CancelTask, MarkStep, Stop, StopAgain
<1>3. ASSUME NEW w \in Workers,
             \/ AskForTask(w) \/ LeaveOnEmptyQueue(w) \/ TakeTask(w)
             \/ StartTask(w) \/ MarkStep(w) \/ RefuseNode(w) \/ FinishTask(w)
             \/ HandlerPanics(w)
      PROVE  UNCHANGED workflowVars
  BY <1>3 DEF AskForTask, LeaveOnEmptyQueue, TakeTask, StartTask, MarkStep, RefuseNode, FinishTask,
              HandlerPanics
<1> QED BY <1>1, <1>2, <1>3

(* The others are the worker's steps of StateMachine. *)
LEMMA InstanceSteps ==
  ASSUME ReadyAreNodes, NEW w \in Workers,
         StartNode(w) \/ FinishNode(w) \/ ScheduleNextNodes(w)
  PROVE  M!Next
<1>1. CASE StartNode(w)
  <2>1. M!StartNode(w, nodeOf[worker[w].task])
    BY <1>1 DEF StartNode
  <2>2. nodeOf[worker[w].task] \in NodeId
    BY <2>1 DEF M!StartNode, M!SetNodeRunning, ReadyAreNodes
  <2> QED BY <2>1, <2>2 DEF M!Next
<1>2. CASE FinishNode(w)
  BY <1>2 DEF FinishNode, M!Next, M!WorkerStep
<1>3. CASE ScheduleNextNodes(w)
  BY <1>3 DEF ScheduleNextNodes, M!Next, M!WorkerStep
<1> QED BY <1>1, <1>2, <1>3

LEMMA ReadyStayNodes ==
  ASSUME ReadyAreNodes, NEW w \in Workers,
         StartNode(w) \/ FinishNode(w) \/ ScheduleNextNodes(w)
  PROVE  ReadyAreNodes'
<1> USE DEF ReadyAreNodes
<1>1. CASE StartNode(w)
  BY <1>1 DEF StartNode, M!StartNode, M!SetNodeRunning
<1>2. CASE FinishNode(w)
  BY <1>2 DEF FinishNode, M!CompleteNode, M!FailNode, M!SetNodeCompleted, M!SetNodeFailed,
              M!NewlyReady
<1>3. CASE ScheduleNextNodes(w)
  BY <1>3 DEF ScheduleNextNodes, M!ReadReadyNodes, M!WriteReadyStatus, M!MarkReady, M!stateVars
<1> QED BY <1>1, <1>2, <1>3

LEMMA StepMaps ==
  ASSUME ReadyAreNodes, [Next]_vars
  PROVE  [M!Next]_(M!vars) /\ ReadyAreNodes'
<1>1. CASE UNCHANGED workflowVars
  BY <1>1, IdleInstance DEF ReadyAreNodes
<1>2. CASE UNCHANGED vars
  BY <1>1, <1>2 DEF vars
<1>3. CASE \E w \in Workers : StartNode(w) \/ FinishNode(w) \/ ScheduleNextNodes(w)
  BY <1>3, InstanceSteps, ReadyStayNodes
<1> QED BY <1>1, <1>2, <1>3, SchedulerSteps DEF Next, WorkerStep

(* The executor implements StateMachine: whatever the clients and the      *)
(* scheduler do, no worker changes the instance in a way its operations do *)
(* not allow, or for a node the workflow does not have.                    *)
THEOREM EngineImplementsStateMachine == Spec => ImplementsStateMachine
<1>1. Init => M!Init /\ ReadyAreNodes
  BY DEF Init, M!Init, M!NewState, ReadyAreNodes
<1>2. ReadyAreNodes /\ [Next]_vars => [M!Next]_(M!vars) /\ ReadyAreNodes'
  BY StepMaps
<1> QED BY <1>1, <1>2, PTL DEF Spec, ImplementsStateMachine, M!SafetySpec
-----------------------------------------------------------------------------
(* The steps of Scheduler are named twice here, as Engine has them and as  *)
(* Scheduler_proofs has them.                                              *)
LEMMA SameOperators ==
  /\ \A s : S!Cardinality(s) = SP!Cardinality(s)
  /\ \A s : S!ToSet(s) = SP!ToSet(s)
  /\ \A s, t : S!RemoveFirst(s, t) = SP!RemoveFirst(s, t)
BY DEF S!Cardinality, SP!Cardinality, S!ToSet, SP!ToSet, S!RemoveFirst, SP!RemoveFirst,
       S!RemoveAt, SP!RemoveAt, S!SelectInSeq, SP!SelectInSeq, S!Min, SP!Min

(* What Scheduler assumes of its constants, which Engine assumes too. *)
LEMMA SchedulerAssumptions ==
  /\ SP!IsFiniteSet(TaskId)
  /\ PriorityOf \in [TaskId -> Nat]
  /\ DeadlineOf \in [TaskId -> Nat]
  /\ CreatedAt \in [TaskId -> Nat]
  /\ MaxQueued \in Nat \ {0}
  /\ MlfqLevels \in Nat \ {0}
  /\ SP!NoTask \notin TaskId
  /\ SP!IsFiniteSet(Callers) /\ SP!IsFiniteSet(Workers)
  /\ Operator \notin Workers
  /\ InitialPolicy \in SP!SchedulingPolicy /\ Policies \subseteq SP!SchedulingPolicy
  /\ MaxOperatorCalls \in Nat
<1>1. \A T : IsFiniteSet(T) => SP!IsFiniteSet(T)
  BY DEF IsFiniteSet, SP!IsFiniteSet
<1> QED BY <1>1, TaskAssumption, ActorAssumption
        DEF S!NoTask, SP!NoTask, SchedulingPolicy, SP!SchedulingPolicy

LEMMA SameCalls ==
  ASSUME NEW c \in Callers
  PROVE  /\ \A t \in TaskId : S!Submit(c, t) => SP!Submit(c, t)
         /\ S!CheckCapacity(c) => SP!CheckCapacity(c)
         /\ S!PushTask(c) => SP!PushTask(c)
         /\ S!Register(c) => SP!Register(c)
<1> USE DEF S!schedulerVars, SP!schedulerVars, S!callVars, SP!callVars, S!workerVars, SP!workerVars,
            S!operatorVars, SP!operatorVars, S!NoTask, SP!NoTask, S!NoCall, SP!NoCall,
            S!NoMark, SP!NoMark, S!Idle, SP!Idle, S!Registered, SP!Registered,
            S!BeginMark, SP!BeginMark, S!QueueOf, SP!QueueOf, S!QueueLocked, SP!QueueLocked
<1>1. \A t \in TaskId : S!Submit(c, t) => SP!Submit(c, t)
  BY DEF S!Submit, SP!Submit
<1>2. S!CheckCapacity(c) => SP!CheckCapacity(c)
  BY SameOperators DEF S!CheckCapacity, SP!CheckCapacity, S!HasRoom, SP!HasRoom
<1>3. S!PushTask(c) => SP!PushTask(c)
  BY DEF S!PushTask, SP!PushTask, S!Push, SP!Push
<1>4. S!Register(c) => SP!Register(c)
  BY DEF S!Register, SP!Register, S!RegistryRead, SP!RegistryRead,
         S!SetRegistry, SP!SetRegistry
<1> QED BY <1>1, <1>2, <1>3, <1>4

LEMMA SameWorkerSteps ==
  ASSUME NEW w \in Workers
  PROVE  /\ S!ReadPolicy(w) => SP!ReadPolicy(w)
         /\ S!FindNothing(w) => SP!FindNothing(w)
         /\ \A t \in TaskId : S!PopTask(w, t) => SP!PopTask(w, t)
         /\ S!StartTask(w) => SP!StartTask(w)
         /\ S!DropTask(w) => SP!DropTask(w)
         /\ \A status : S!FinishTask(w, status) => SP!FinishTask(w, status)
<1> USE DEF S!schedulerVars, SP!schedulerVars, S!callVars, SP!callVars, S!workerVars, SP!workerVars,
            S!operatorVars, SP!operatorVars, S!NoTask, SP!NoTask, S!NoCall, SP!NoCall,
            S!NoMark, SP!NoMark, S!Idle, SP!Idle, S!Registered, SP!Registered,
            S!BeginMark, SP!BeginMark, S!QueueOf, SP!QueueOf, S!QueueLocked, SP!QueueLocked
<1>1. S!ReadPolicy(w) => SP!ReadPolicy(w)
  BY DEF S!ReadPolicy, SP!ReadPolicy
<1>2. S!FindNothing(w) => SP!FindNothing(w)
  BY SameOperators DEF S!FindNothing, SP!FindNothing, S!NextTasks, SP!NextTasks, S!MoreUrgent, SP!MoreUrgent,
         S!EarlierDeadline, SP!EarlierDeadline
<1>3. \A t \in TaskId : S!PopTask(w, t) => SP!PopTask(w, t)
  BY SameOperators DEF S!PopTask, SP!PopTask, S!Pop, SP!Pop, S!NextTasks, SP!NextTasks,
         S!MoreUrgent, SP!MoreUrgent, S!EarlierDeadline, SP!EarlierDeadline
<1>4. S!StartTask(w) => SP!StartTask(w)
  BY DEF S!StartTask, SP!StartTask
<1>5. S!DropTask(w) => SP!DropTask(w)
  BY DEF S!DropTask, SP!DropTask
<1>6. \A status : S!FinishTask(w, status) => SP!FinishTask(w, status)
  BY DEF S!FinishTask, SP!FinishTask
<1> QED BY <1>1, <1>2, <1>3, <1>4, <1>5, <1>6

LEMMA SameMarks ==
  /\ \A p \in SP!Markers : MarkStep(p) => SP!WriteMark(p) \/ SP!EndMark(p)
  /\ \A t \in TaskId : S!CancelTask(t) => SP!CancelTask(t)
  /\ Stop => SP!Settings
<1> USE DEF S!schedulerVars, SP!schedulerVars, S!callVars, SP!callVars, S!workerVars, SP!workerVars,
            S!operatorVars, SP!operatorVars, S!NoTask, SP!NoTask, S!NoCall, SP!NoCall,
            S!NoMark, SP!NoMark, S!Idle, SP!Idle, S!Registered, SP!Registered,
            S!BeginMark, SP!BeginMark, S!QueueOf, SP!QueueOf, S!QueueLocked, SP!QueueLocked
<1>1. \A p \in SP!Markers : S!WriteMark(p) => SP!WriteMark(p)
  BY DEF S!WriteMark, SP!WriteMark, S!RegistryRead, SP!RegistryRead,
         S!SetRegistry, SP!SetRegistry
<1>2. \A p \in SP!Markers : S!EndMark(p) => SP!EndMark(p)
  BY DEF S!EndMark, SP!EndMark, S!SetRunningTasks, SP!SetRunningTasks
<1>3. \A t \in TaskId : S!CancelTask(t) => SP!CancelTask(t)
  BY DEF S!CancelTask, SP!CancelTask, S!OperatorCall, SP!OperatorCall
<1>4. Stop => SP!Settings
  BY DEF Stop, SP!Settings, S!OperatorCall, SP!OperatorCall, SetIsRunning, SP!SetIsRunning, SP!callVars, SP!workerVars
<1> QED BY <1>1, <1>2, <1>3, <1>4 DEF MarkStep, S!MarkStep

(* A worker whose node is refused forgets its task; no other step of the   *)
(* executor is one Scheduler does not have.                                *)
LEMMA RefusePlaced ==
  ASSUME SP!TaskInv, NEW w \in Workers, RefuseNode(w)
  PROVE  SP!TaskInv'
<1> USE DEF SP!TaskInv, SP!Placed
<1>1. UNCHANGED <<queue, mlfqLevel, registry, runningTasks, policy, isRunning, call, submitted,
                  accepted, dropped, mark, demoted, clearing, cleared, operatorCalls>>
  BY DEF RefuseNode, schedulerVars
<1>2. /\ \A v \in Workers \ {w} : worker'[v] = worker[v]
      /\ worker[w].step = "running" /\ mark[w].step = "none"
      /\ worker'[w].step = "idle" /\ worker'[w].task = SP!NoTask
      /\ worker' \in [Workers -> SP!WorkerRecord]
  <2>1. S!Idle \in SP!WorkerRecord /\ S!Idle.step = "idle" /\ S!Idle.task = SP!NoTask
    BY TaskAssumption DEF S!Idle, S!NoTask, SP!NoTask, SP!WorkerRecord, SP!SchedulingPolicy
  <2>2. worker \in [Workers -> SP!WorkerRecord]
    BY DEF SP!TypeOK
  <2> QED BY <2>1, <2>2 DEF RefuseNode, Marked
<1>3. SP!TypeOK'
  BY <1>1, <1>2 DEF SP!TypeOK, SchedulerTypeOK, SP!SchedulerTypeOK
<1>4. SP!Shapes'
  BY <1>1, <1>2 DEF SP!Shapes
<1>5. SP!OnePlace'
  <2>1. \A q \in SP!QueueName : SP!In(q)' = SP!In(q)
    BY <1>1 DEF SP!In
  <2>2. submitted \subseteq TaskId /\ SP!NoTask \notin TaskId
    BY SchedulerAssumptions DEF SP!TypeOK
  <2>3. demoted # SP!NoTask => \A v \in Workers : demoted # worker'[v].task
    BY <1>2 DEF SP!OnePlace
  <2>4. \A c \in Callers : SP!InHand(c) =>
          call[c].task # SP!NoTask /\ \A v \in Workers : call[c].task # worker'[v].task
    BY <1>2 DEF SP!OnePlace, SP!InHand, SP!Shapes
  <2>5. \A v \in Workers :
          /\ worker'[v].task \in submitted \union {SP!NoTask}
          /\ \A q \in SP!QueueName : worker'[v].task \notin SP!In(q)
    BY <1>2, <2>2 DEF SP!OnePlace
  <2>6. \A u, v \in Workers :
          worker'[u].task = worker'[v].task /\ u # v => worker'[u].task = SP!NoTask
    BY <1>2 DEF SP!OnePlace
  <2> QED BY <1>1, <2>1, <2>3, <2>4, <2>5, <2>6 DEF SP!OnePlace, SP!InHand
<1>6. SP!Records'
  <2>1. worker[w].task \in TaskId /\ registry[worker[w].task] # "Pending"
    BY <1>2 DEF SP!Records, SP!Busy, SP!TypeOK, SP!Shapes
  <2>2. \A u \in TaskId \ {worker[w].task} : SP!Somewhere(u) => SP!Somewhere(u)'
    BY <1>1, <1>2 DEF SP!Somewhere, SP!In
  <2>3. ~SP!Pushed(worker[w].task)
    <3>1. worker[w].task \in accepted /\ worker[w].task # SP!NoTask
      BY <1>2 DEF SP!Records, SP!Busy, SP!Shapes
    <3> QED BY <3>1 DEF SP!Pushed, SP!OnePlace
  <2>4. \A u \in TaskId : SP!Pushed(u)' = SP!Pushed(u)
    BY <1>1 DEF SP!Pushed
  <2>5. \A v \in Workers : SP!Busy(v)' => SP!Busy(v) /\ worker'[v] = worker[v]
    BY <1>2 DEF SP!Busy
  <2> QED BY <1>1, <1>2, <2>1, <2>2, <2>3, <2>4, <2>5 DEF SP!Records, SP!Registered
<1> QED BY <1>3, <1>4, <1>5, <1>6

LEMMA TasksPlaced ==
  ASSUME SP!TaskInv, [Next]_vars
  PROVE  SP!TaskInv'
<1>1. ASSUME [SP!Next]_(SP!vars) PROVE SP!TaskInv'
  BY <1>1, SchedulerAssumptions, SP!TaskStep
<1>2. ASSUME UNCHANGED <<schedulerVars, actorVars>> PROVE SP!TaskInv'
  BY <1>1, <1>2 DEF actorVars, SP!vars, SP!callVars, SP!workerVars, SP!operatorVars,
                    schedulerVars, SP!schedulerVars
<1>3. ASSUME NEW c \in Callers, ReadPlan(c) \/ ClientStep(c) PROVE SP!TaskInv'
  <2>1. CASE ReadPlan(c)
    BY <1>2, <2>1 DEF ReadPlan
  <2>2. CASE ClientStep(c)
    BY <1>1, <2>2, SameCalls DEF ClientStep, ScheduleNode, AdmitTask, EnterTask, SP!Next, SP!CallStep
  <2> QED BY <1>3, <2>1, <2>2
<1>4. ASSUME NEW w \in Workers, WorkerStep(w) PROVE SP!TaskInv'
  <2>1. CASE AskForTask(w) \/ LeaveOnEmptyQueue(w) \/ TakeTask(w) \/ StartTask(w) \/ FinishTask(w)
    BY <1>1, <2>1, SameWorkerSteps DEF AskForTask, LeaveOnEmptyQueue, TakeTask, StartTask,
                                       FinishTask, SP!Next, SP!WorkerStep
  <2>2. CASE MarkStep(w)
    BY <1>1, <2>2, SameMarks DEF SP!Next, SP!MarkStep, SP!Markers
  <2>3. CASE RefuseNode(w)
    BY <2>3, RefusePlaced
  <2>4. CASE StartNode(w) \/ FinishNode(w) \/ ScheduleNextNodes(w) \/ HandlerPanics(w)
    BY <1>2, <2>4 DEF StartNode, FinishNode, ScheduleNextNodes, HandlerPanics
  <2> QED BY <1>4, <2>1, <2>2, <2>3, <2>4 DEF WorkerStep
<1>5. CASE CancelTask \/ MarkStep(Operator) \/ Stop
  BY <1>1, <1>5, SameMarks DEF CancelTask, SP!Next, SP!MarkStep, SP!Markers
<1>6. CASE StopAgain \/ UNCHANGED vars
  BY <1>2, <1>6 DEF StopAgain, vars
<1> QED BY <1>3, <1>4, <1>5, <1>6 DEF Next

LEMMA EngineInit == Init => IInv
<1> SUFFICES ASSUME Init PROVE IInv
  OBVIOUS
<1>1. S!Init => SP!Init
  BY DEF S!Init, SP!Init, S!NoCall, SP!NoCall, S!NoMark, SP!NoMark, S!Idle, SP!Idle,
         S!NoTask, SP!NoTask, S!Markers, SP!Markers, S!NewScheduler, SP!NewScheduler,
         S!QueueName, SP!QueueName
<1>2. SP!TaskInv
  BY <1>1, SchedulerAssumptions, SP!TaskInit DEF Init
<1>3. Undisturbed /\ submitted = {} /\ runningTasks = {} /\ \A w \in Workers : worker[w].step = "idle"
  BY DEF Init, S!Init, Undisturbed, S!NewScheduler, S!Idle
<1>4. Typed
  BY <1>3, ActorAssumption DEF Init, M!Init, NewState, M!NewState, Typed, M!Activities
<1>5. NodesAreTaken
  BY <1>3 DEF Init, NodesAreTaken
<1>6. LoopPhases
  BY <1>3 DEF Init, M!Init, LoopPhases, LoopPhase
<1>7. ResultsReported /\ LeftRunning
  BY <1>3 DEF Init, M!Init, M!NewState, ResultsReported, LeftRunning
<1> QED BY <1>2, <1>3, <1>4, <1>5, <1>6, <1>7 DEF IInv

-----------------------------------------------------------------------------
(* What a step may not undo: a task made for a node stays one, a finished  *)
(* task stays finished, and its record changes to Cancelled at most.       *)
TasksGoOn ==
  /\ submitted \subseteq submitted'
  /\ \A t \in submitted : nodeOf'[t] = nodeOf[t]
  /\ \A t \in TaskId : Done(t) => Done(t)' /\ registry'[t] \in {registry[t], "Cancelled"}

LEMMA TasksKnown ==
  ASSUME SP!TaskInv
  PROVE  /\ submitted \subseteq TaskId /\ accepted \subseteq submitted
         /\ \A w \in Workers :
              /\ worker[w].task \in submitted \union {SP!NoTask}
              /\ worker[w].step \in {"idle", "polling"} <=> worker[w].task = SP!NoTask
              /\ SP!Busy(w) => worker[w].task \in accepted
              /\ mark[w].step # "none" => mark[w].task = worker[w].task
         /\ SP!NoTask \notin TaskId
BY ActorAssumption DEF SP!TaskInv, SP!Placed, SP!TypeOK, SP!OnePlace, SP!Shapes, SP!Records,
                       S!NoTask, SP!NoTask

LEMMA DoneStays ==
  ASSUME SP!TaskInv, accepted \subseteq accepted',
         \A t \in accepted, q \in SP!QueueName : t \in SP!In(q)' => t \in SP!In(q),
         \A w \in Workers :
           \/ worker'[w].task \in {worker[w].task, SP!NoTask}
           \/ \E q \in SP!QueueName : worker'[w].task \in SP!In(q)
  PROVE  \A t \in TaskId : Done(t) => Done(t)'
BY TasksKnown DEF Done

(* A node that was taken stays taken while its worker goes on with it or   *)
(* leaves a finished task.                                                 *)
LEMMA TakenStays ==
  ASSUME IInv, TasksGoOn,
         \A n \in NodeId : Begun(n) => Begun(n)',
         \A v \in Workers, u \in submitted : activity[v] = "executing" /\ worker[v].task = u =>
           Done(u)' \/ (activity'[v] = "executing" /\ worker'[v].task = u)
  PROVE  \A n \in NodeId : Taken(n) => Taken(n)'
<1> SUFFICES ASSUME NEW n \in NodeId, Taken(n) PROVE Taken(n)'
  OBVIOUS
<1>1. PICK u \in TaskId : Takes(u, n)
  BY DEF Taken
<1>2. Takes(u, n)'
  <2>1. u \in submitted' /\ nodeOf'[u] = n
    BY <1>1 DEF Takes, TasksGoOn
  <2>2. CASE Done(u)
    BY <2>1, <2>2 DEF TasksGoOn, Takes
  <2>3. CASE ~Done(u)
    <3>1. PICK v \in Workers : activity[v] = "executing" /\ worker[v].task = u
      BY <1>1, <2>3 DEF Takes
    <3>2. Done(u)' \/ (activity'[v] = "executing" /\ worker'[v].task = u)
      BY <1>1, <3>1 DEF Takes
    <3> QED BY <2>1, <3>2 DEF Takes
  <2> QED BY <2>2, <2>3
<1> QED BY <1>2 DEF Taken

(* Results are reported, and tasks left in running_tasks explained, when   *)
(* no result is new and none is left there by this step.                   *)
LEMMA ReportsStay ==
  ASSUME IInv, TasksGoOn, UNCHANGED nodeResults
  PROVE  ResultsReported'
<1> SUFFICES ASSUME NEW n \in NodeId, nodeResults[n] # "none"
             PROVE  \E u \in submitted' : /\ nodeOf'[u] = n /\ Done(u)'
                                          /\ Reports(u, StatusFor(nodeResults[n]))'
  BY DEF ResultsReported, Reports
<1>1. PICK u \in submitted :
        nodeOf[u] = n /\ Done(u) /\ Reports(u, StatusFor(nodeResults[n]))
  BY DEF IInv, ResultsReported
<1>2. u \in TaskId
  BY TasksKnown DEF IInv
<1> QED BY <1>1, <1>2 DEF TasksGoOn, Reports

LEMMA LeftStay ==
  ASSUME IInv, TasksGoOn,
         \A n \in NodeId : Begun(n) => Begun(n)',
         \A t \in runningTasks' \ runningTasks : \E w \in Workers : worker'[w].task = t,
         \A w \in Workers :
           \/ worker'[w].task = worker[w].task
           \/ worker[w].task \notin runningTasks \/ worker[w].task \notin runningTasks'
  PROVE  LeftRunning'
<1>1. ASSUME NEW t \in runningTasks', ~ \E w \in Workers : worker'[w].task = t
      PROVE  \E u \in submitted' \ {t} : nodeOf'[u] = nodeOf'[t] /\ (\E n \in NodeId : n = nodeOf'[t] /\ Begun(n)')
  <2>1. t \in runningTasks /\ ~ \E w \in Workers : worker[w].task = t
    BY <1>1
  <2>2. t \in submitted /\ nodeOf[t] \in NodeId
    BY <2>1, TasksKnown DEF IInv, Typed, SP!TaskInv, SP!Placed, SP!Records
  <2>3. PICK u \in submitted \ {t} : nodeOf[u] = nodeOf[t] /\ Begun(nodeOf[t])
    BY <2>1 DEF IInv, LeftRunning
  <2> QED BY <2>2, <2>3 DEF TasksGoOn
<1> QED BY <1>1 DEF LeftRunning

(* The loop of a worker that a step leaves alone. *)
LEMMA PhaseStays ==
  ASSUME IInv, TasksGoOn, NEW w \in Workers,
         UNCHANGED <<worker[w], mark[w], activity[w], node[w], outcome[w]>>,
         SP!Busy(w) => registry'[worker[w].task] \in {registry[worker[w].task], "Cancelled"}
  PROVE  LoopPhase(w)'
<1>1. LoopPhase(w) /\ submitted \subseteq TaskId
  BY TasksKnown DEF IInv, LoopPhases
<1>2. CASE activity[w] = "executing" /\ outcome[w] # "none" /\ worker[w].step = "idle"
  <2>1. PICK u \in submitted : nodeOf[u] = node[w] /\ Done(u) /\ Reports(u, outcome[w])
    BY <1>1, <1>2 DEF LoopPhase
  <2> QED BY <1>1, <1>2, <2>1 DEF LoopPhase, TasksGoOn, Reports
<1>3. CASE worker[w].step \in {"running", "finishing"}
  <2>1. nodeOf'[worker[w].task] = nodeOf[worker[w].task]
    BY <1>3, TasksKnown DEF IInv, TasksGoOn, SP!Busy
  <2> QED BY <1>1, <1>3, <2>1 DEF LoopPhase, SP!Busy, Reports
<1>4. CASE /\ worker[w].step \notin {"running", "finishing"}
           /\ ~(activity[w] = "executing" /\ outcome[w] # "none" /\ worker[w].step = "idle")
  BY <1>1, <1>4 DEF LoopPhase
<1> QED BY <1>2, <1>3, <1>4

(* The calls of the clients, and what the operator does besides cancelling, *)
(* leave alone what the workers have.                                      *)
LEMMA CallEffect ==
  ASSUME SP!TaskInv, NEW c \in Callers,
         \/ \E t \in TaskId : S!Submit(c, t)
         \/ S!CheckCapacity(c) \/ S!PushTask(c) \/ S!Register(c)
  PROVE  /\ UNCHANGED <<worker, mark, runningTasks, cleared, clearing, demoted>>
         /\ submitted \subseteq submitted' /\ accepted \subseteq accepted'
         /\ \A t \in accepted :
              /\ registry'[t] = registry[t]
              /\ \A q \in SP!QueueName : t \in SP!In(q)' => t \in SP!In(q)
<1>1. ASSUME S!CheckCapacity(c) \/ \E t \in TaskId : S!Submit(c, t)
      PROVE  /\ UNCHANGED <<queue, registry, runningTasks, accepted, worker, mark, cleared,
                            clearing, demoted>>
             /\ submitted \subseteq submitted'
  BY <1>1 DEF S!Submit, S!CheckCapacity, schedulerVars, S!schedulerVars, S!workerVars,
              S!operatorVars
<1>2. CASE S!PushTask(c)
  <2>1. /\ UNCHANGED <<registry, runningTasks, submitted, accepted, worker, mark, cleared,
                       clearing, demoted>>
        /\ call[c].step = "checked" /\ SP!PushTask(c)
    BY <1>2, SameCalls DEF S!PushTask, Push, S!Push, S!workerVars, S!operatorVars
  <2>2. /\ SP!TypeOK /\ SP!NoDuplicates /\ call[c].policy \in SP!SchedulingPolicy
        /\ call[c].task \in TaskId \ accepted
        /\ \A q \in SP!QueueName : call[c].task \notin SP!In(q)
    <3>1. SP!TypeOK /\ SP!Shapes /\ SP!OnePlace
      BY DEF SP!TaskInv, SP!Placed
    <3>2. call[c] \in SP!CallRecord
      BY <3>1 DEF SP!TypeOK
    <3>3. call[c].task # SP!NoTask
      BY <2>1, <3>1 DEF SP!Shapes
    <3> QED BY <2>1, <3>1, <3>2, <3>3 DEF SP!OnePlace, SP!NoDuplicates, SP!InHand, SP!CallRecord
  <2>3. SP!QueueOf(call[c].policy) \in SP!QueueName
    BY <2>2, SchedulerAssumptions, SP!PolicyQueue
  <2>4. queue' = [queue EXCEPT ![SP!QueueOf(call[c].policy)] = Append(@, call[c].task)]
    BY <2>1 DEF SP!PushTask, SP!Push
  <2>5. \A q \in SP!QueueName :
          SP!In(q)' \subseteq SP!In(q) \union {call[c].task}
    BY <2>2, <2>3, <2>4, SchedulerAssumptions, SP!PushEffect
  <2> QED BY <2>1, <2>2, <2>5
<1>3. CASE S!Register(c)
  <2>1. /\ UNCHANGED <<queue, runningTasks, submitted, worker, mark, cleared, clearing, demoted>>
        /\ registry' = [registry EXCEPT ![call[c].task] = "Pending"]
        /\ accepted \subseteq accepted'
    BY <1>3 DEF S!Register, S!SetRegistry, SetRegistry, S!workerVars, S!operatorVars
  <2>2. call[c].task \notin accepted /\ registry \in [TaskId -> TaskStatus \union {"absent"}]
    BY TasksKnown DEF SP!TaskInv, SP!Placed, SP!OnePlace, SP!TypeOK, SchedulerTypeOK,
                      SP!SchedulerTypeOK, TaskStatus, SP!TaskStatus
  <2>3. accepted \subseteq TaskId
    BY TasksKnown
  <2> QED BY <2>1, <2>2, <2>3 DEF SP!In
<1>4. ASSUME UNCHANGED queue PROVE \A q \in SP!QueueName : SP!In(q)' = SP!In(q)
  BY <1>4 DEF SP!In
<1> QED BY <1>1, <1>2, <1>3, <1>4

(* All of it follows for such a step except that what is newly planned is  *)
(* ready.                                                                  *)
LEMMA ClientsKeep ==
  ASSUME IInv,
         UNCHANGED <<worker, mark, runningTasks, workflowVars, outcome>>,
         submitted \subseteq submitted', accepted \subseteq accepted',
         \A t \in submitted : nodeOf'[t] = nodeOf[t],
         \A t \in accepted :
              /\ registry'[t] = registry[t]
              /\ \A q \in SP!QueueName : t \in SP!In(q)' => t \in SP!In(q)
  PROVE  /\ LoopPhases' /\ ResultsReported' /\ LeftRunning'
         /\ \A n \in NodeId : n \in readyNodes \/ Taken(n) => (n \in readyNodes \/ Taken(n))'
<1>1. UNCHANGED <<activity, node, nodeResults, readyNodes>>
  BY DEF workflowVars, stateVars
<1>2. \A t \in TaskId : Done(t) => Done(t)'
  BY DoneStays DEF IInv
<1>3. TasksGoOn
  BY <1>2 DEF TasksGoOn, Done
<1>4. \A n \in NodeId : Begun(n) => Begun(n)'
  BY <1>1 DEF Begun, M!Held, M!Executing
<1>5. \A n \in NodeId : Taken(n) => Taken(n)'
  BY <1>1, <1>3, <1>4, TakenStays
<1>6. ASSUME NEW w \in Workers PROVE LoopPhase(w)'
  <2>1. SP!Busy(w) => worker[w].task \in accepted
    BY TasksKnown DEF IInv
  <2> QED BY <1>1, <1>3, <2>1, PhaseStays
<1> QED BY <1>1, <1>3, <1>4, <1>5, <1>6, ReportsStay, LeftStay DEF LoopPhases

LEMMA ClientStepKeeps ==
  ASSUME IInv, NEW c \in Callers, ReadPlan(c) \/ ClientStep(c)
  PROVE  IInv'
<1>1. SP!TaskInv' /\ [Next]_vars
  BY TasksPlaced DEF IInv, Next
<1>2. UNCHANGED <<workflowVars, outcome>>
  BY DEF ReadPlan, ClientStep, ScheduleNode, AdmitTask, EnterTask, engineVars
<1>3. /\ UNCHANGED <<worker, mark, runningTasks, cleared, clearing, demoted>>
      /\ submitted \subseteq submitted' /\ accepted \subseteq accepted'
      /\ \A t \in accepted :
           /\ registry'[t] = registry[t]
           /\ \A q \in SP!QueueName : t \in SP!In(q)' => t \in SP!In(q)
  <2>1. CASE ReadPlan(c)
    BY <2>1 DEF ReadPlan, schedulerVars, actorVars, SP!In
  <2>2. CASE ClientStep(c)
    BY <2>2, CallEffect DEF IInv, ClientStep, ScheduleNode, AdmitTask, EnterTask
  <2> QED BY <2>1, <2>2
<1>4. \/ ReadPlan(c) \/ \E n \in NodeId, t \in TaskId : ScheduleNode(c, n, t)
      \/ /\ UNCHANGED <<nodeOf, submitted>>
         /\ plan' \in [Callers -> SUBSET NodeId] /\ \A d \in Callers : plan'[d] \subseteq plan[d]
  <2>1. CASE AdmitTask(c)
    BY <2>1 DEF AdmitTask, S!CheckCapacity, IInv, Typed
  <2>2. CASE EnterTask(c)
    BY <2>2 DEF EnterTask, S!PushTask, S!Register, IInv, Typed, engineVars
  <2> QED BY <2>1, <2>2 DEF ClientStep
<1>5. \A t \in submitted : nodeOf'[t] = nodeOf[t]
  <2>1. ASSUME NEW n \in NodeId, NEW t \in TaskId, ScheduleNode(c, n, t)
        PROVE  \A u \in submitted : nodeOf'[u] = nodeOf[u]
    BY <2>1, TasksKnown DEF IInv, Typed, ScheduleNode, S!Submit
  <2>2. CASE ReadPlan(c)
    BY <2>2 DEF ReadPlan
  <2> QED BY <1>4, <2>1, <2>2
<1>6. /\ LoopPhases' /\ ResultsReported' /\ LeftRunning'
      /\ \A n \in NodeId : n \in readyNodes \/ Taken(n) => (n \in readyNodes \/ Taken(n))'
  BY <1>2, <1>3, <1>5, ClientsKeep
<1>7. UNCHANGED <<activity, node, nodeResults, readyNodes>>
  BY <1>2 DEF workflowVars, stateVars
<1>8. Typed' /\ NodesAreTaken'
  <2>1. ASSUME NEW n \in NodeId, NEW t \in TaskId, ScheduleNode(c, n, t)
        PROVE  Typed' /\ NodesAreTaken'
    <3>1. /\ submitted' = submitted \union {t} /\ nodeOf' = [nodeOf EXCEPT ![t] = n]
          /\ n \in plan[c]
          /\ plan' = [plan EXCEPT ![c] = IF isRunning THEN @ \ {n} ELSE {}]
      BY <2>1 DEF ScheduleNode, S!Submit
    <3>2. Typed'
      BY <1>2, <1>5, <1>7, <3>1 DEF IInv, Typed
    <3>3. \A d \in Callers : plan'[d] \subseteq plan[d]
      BY <3>1 DEF IInv, Typed
    <3>4. \A u \in submitted' : u \in submitted \/ nodeOf'[u] = n
      BY <3>1 DEF IInv, Typed
    <3>5. NodesAreTaken'
      BY <1>5, <1>6, <3>1, <3>2, <3>3, <3>4 DEF IInv, NodesAreTaken, Typed
    <3> QED BY <3>2, <3>5
  <2>2. CASE ReadPlan(c)
    <3>1. /\ UNCHANGED <<nodeOf, submitted>>
          /\ plan' = [plan EXCEPT ![c] = readyNodes]
      BY <2>2 DEF ReadPlan, actorVars
    <3>2. Typed'
      BY <1>2, <1>7, <3>1 DEF IInv, Typed
    <3>3. \A d \in Callers : plan'[d] \in {plan[d], readyNodes}
      BY <3>1 DEF IInv, Typed
    <3> QED BY <1>6, <1>7, <3>1, <3>2, <3>3 DEF IInv, NodesAreTaken, Typed
  <2>3. CASE /\ UNCHANGED <<nodeOf, submitted>>
             /\ plan' \in [Callers -> SUBSET NodeId] /\ \A d \in Callers : plan'[d] \subseteq plan[d]
    <3>1. Typed'
      BY <1>2, <1>7, <2>3 DEF IInv, Typed
    <3> QED BY <1>6, <2>3, <3>1 DEF IInv, NodesAreTaken, Typed
  <2> QED BY <1>4, <2>1, <2>2, <2>3
<1>9. Undisturbed'
  BY <1>3 DEF IInv, Undisturbed
<1> QED BY <1>1, <1>6, <1>8, <1>9 DEF IInv

-----------------------------------------------------------------------------
(* A step by which p, a worker or the operator, deals with the scheduler.  *)
(* What is left to show of it is where it leaves p and the tasks.          *)
LEMMA SchedulerStepKeeps ==
  ASSUME IInv, [Next]_vars, NEW p,
         UNCHANGED <<workflowVars, nodeOf, plan, submitted, accepted, cleared, clearing, demoted>>,
         outcome' \in [Workers -> {"none", "Completed", "Failed"}],
         \A v \in Workers \ {p} : UNCHANGED <<worker[v], mark[v], outcome[v]>>,
         \A q \in SP!QueueName : SP!In(q)' \subseteq SP!In(q),
         p \in Workers =>
           /\ LoopPhase(p)'
           /\ \/ worker'[p].task \in {worker[p].task, SP!NoTask}
              \/ \E q \in SP!QueueName : worker'[p].task \in SP!In(q)
           /\ activity[p] = "executing" /\ worker[p].task # SP!NoTask =>
                worker'[p].task \in {worker[p].task, SP!NoTask}
           /\ worker'[p].task # worker[p].task =>
                worker[p].task \notin runningTasks \/ worker[p].task \notin runningTasks'
                \/ \E u \in submitted \ {worker[p].task} :
                     nodeOf[u] = nodeOf[worker[p].task] /\ Begun(nodeOf[worker[p].task]),
         \A t \in TaskId :
           \/ registry'[t] = registry[t]
           \/ registry'[t] = "Cancelled"
           \/ p \in Workers /\ t = worker[p].task,
         \A t \in runningTasks' \ runningTasks : \E w \in Workers : worker'[w].task = t
  PROVE  IInv'
<1>1. /\ UNCHANGED <<activity, node, nodeResults, readyNodes>>
      /\ submitted \subseteq TaskId /\ accepted \subseteq submitted
      /\ SP!TaskInv /\ SP!TaskInv'
  BY TasksKnown, TasksPlaced DEF IInv, workflowVars, stateVars
<1>2. \A t \in TaskId : Done(t) => Done(t)'
  <2>1. \A w \in Workers :
           \/ worker'[w].task \in {worker[w].task, SP!NoTask}
           \/ \E q \in SP!QueueName : worker'[w].task \in SP!In(q)
    OBVIOUS
  <2> QED BY <1>1, <2>1, DoneStays
<1>3. TasksGoOn
  <2>1. \A t \in TaskId : Done(t) => registry'[t] \in {registry[t], "Cancelled"}
    BY DEF Done
  <2> QED BY <1>2, <2>1 DEF TasksGoOn
<1>4. \A n \in NodeId : Begun(n) => Begun(n)'
  BY <1>1 DEF Begun, M!Held, M!Executing
<1>5. ASSUME NEW v \in Workers, NEW u \in submitted, activity[v] = "executing", worker[v].task = u
      PROVE  Done(u)' \/ (activity'[v] = "executing" /\ worker'[v].task = u)
  <2>1. CASE v # p \/ worker'[v].task = u
    BY <1>1, <1>5, <2>1
  <2>2. CASE v = p /\ worker'[v].task # u
    <3>1. SP!NoTask \notin TaskId /\ u \in accepted
      <4>1. LoopPhase(v)
        BY DEF IInv, LoopPhases
      <4>2. worker[v].step \notin {"idle", "polling"}
        BY <1>1, <1>5, TasksKnown
      <4> QED BY <1>1, <1>5, <4>1, <4>2, TasksKnown DEF LoopPhase, SP!Busy
    <3>2. \A q \in SP!QueueName : u \notin SP!In(q)
      BY <1>1, <1>5 DEF SP!TaskInv, SP!Placed, SP!OnePlace
    <3>3. \A w \in Workers \ {v} : worker[w].task # u
      BY <1>1, <1>5, <3>1 DEF SP!TaskInv, SP!Placed, SP!OnePlace
    <3> QED BY <2>2, <3>1, <3>2, <3>3 DEF Done
  <2> QED BY <2>1, <2>2
<1>6. \A n \in NodeId : Taken(n) => Taken(n)'
  BY <1>3, <1>4, <1>5, TakenStays
<1>7. NodesAreTaken'
  BY <1>1, <1>6 DEF IInv, NodesAreTaken, Typed
<1>8. ResultsReported'
  BY <1>1, <1>3, ReportsStay
<1>9. LeftRunning'
  <2>1. ASSUME NEW t \in runningTasks', ~ \E w \in Workers : worker'[w].task = t
        PROVE  \E u \in submitted \ {t} : nodeOf[u] = nodeOf[t] /\ (\E n \in NodeId : n = nodeOf[t] /\ Begun(n)')
    <3>1. t \in runningTasks
      BY <2>1
    <3>2. t \in submitted /\ nodeOf[t] \in NodeId
      BY <1>1, <3>1 DEF IInv, Typed, SP!TaskInv, SP!Placed, SP!Records
    <3>3. PICK u \in submitted \ {t} : nodeOf[u] = nodeOf[t] /\ Begun(nodeOf[t])
      <4>1. CASE \E w \in Workers : worker[w].task = t
        <5>1. PICK w \in Workers : worker[w].task = t
          BY <4>1
        <5>2. w = p /\ worker'[p].task # worker[p].task
          BY <2>1, <5>1
        <5> QED BY <2>1, <3>1, <5>1, <5>2
      <4>2. CASE ~ \E w \in Workers : worker[w].task = t
        BY <3>1, <4>2 DEF IInv, LeftRunning
      <4> QED BY <4>1, <4>2
    <3> QED BY <1>4, <3>2, <3>3
  <2> QED BY <2>1 DEF LeftRunning
<1>10. LoopPhases'
  <2>1. ASSUME NEW v \in Workers \ {p} PROVE LoopPhase(v)'
    <3>1. SP!Busy(v) => registry'[worker[v].task] \in {registry[worker[v].task], "Cancelled"}
      <4>1. SP!Busy(v) => worker[v].task \in accepted /\ SP!NoTask \notin TaskId
        BY <1>1, TasksKnown
      <4>2. p \in Workers /\ SP!Busy(v) => worker[v].task # worker[p].task
        BY <1>1, <4>1 DEF SP!TaskInv, SP!Placed, SP!OnePlace
      <4> QED BY <1>1, <4>1, <4>2
    <3> QED BY <1>1, <1>3, <3>1, PhaseStays
  <2> QED BY <2>1 DEF LoopPhases
<1>11. Typed' /\ Undisturbed'
  BY <1>1 DEF IInv, Typed, Undisturbed
<1> QED BY <1>1, <1>7, <1>8, <1>9, <1>10, <1>11 DEF IInv

LEMMA AskKeeps ==
  ASSUME IInv, NEW w \in Workers, AskForTask(w) \/ LeaveOnEmptyQueue(w)
  PROVE  IInv'
<1>1. [Next]_vars /\ SP!TaskInv /\ Typed /\ LoopPhase(w) /\ SP!TypeOK
  BY DEF Next, WorkerStep, IInv, LoopPhases, SP!TaskInv
<1>2. UNCHANGED <<queue, registry, runningTasks, mark, workflowVars, nodeOf, plan, outcome, submitted,
                  accepted, cleared, clearing, demoted>>
  BY DEF AskForTask, LeaveOnEmptyQueue, S!ReadPolicy, S!FindNothing, engineVars, S!schedulerVars,
         S!callVars, S!operatorVars
<1>3. /\ \A v \in Workers \ {w} : worker'[v] = worker[v]
      /\ worker[w].step \in {"idle", "polling"} /\ worker[w].task = SP!NoTask
      /\ worker'[w].step \in {"idle", "polling"} /\ worker'[w].task = SP!NoTask
      /\ activity[w] = "idle"
  <2>1. worker \in [Workers -> SP!WorkerRecord]
    BY <1>1 DEF SP!TypeOK
  <2>2. CASE AskForTask(w)
    <3>1. /\ worker[w].step = "idle" /\ activity[w] = "idle"
          /\ worker' = [worker EXCEPT ![w] = [@ EXCEPT !.step = "polling", !.policy = policy]]
      BY <2>2 DEF AskForTask, S!ReadPolicy
    <3> QED BY <1>1, <2>1, <3>1, TasksKnown DEF SP!WorkerRecord
  <2>3. CASE LeaveOnEmptyQueue(w)
    <3>1. /\ worker[w].step = "polling" /\ \A v \in Workers \ {w} : worker'[v] = worker[v]
          /\ \/ worker'[w] = [worker[w] EXCEPT !.level = worker[w].level + 1]
             \/ worker'[w] = S!Idle
      BY <2>1, <2>3 DEF LeaveOnEmptyQueue, S!FindNothing
    <3>2. activity[w] = "idle"
      BY <1>1, <3>1 DEF LoopPhase
    <3> QED BY <1>1, <2>1, <3>1, <3>2, TasksKnown DEF SP!WorkerRecord, S!Idle, S!NoTask, SP!NoTask
  <2> QED BY <2>2, <2>3
<1>4. LoopPhase(w)'
  BY <1>1, <1>2, <1>3 DEF LoopPhase, workflowVars
<1>5. \A q \in SP!QueueName : SP!In(q)' \subseteq SP!In(q)
  BY <1>2 DEF SP!In
<1>6. outcome' \in [Workers -> {"none", "Completed", "Failed"}]
  BY <1>1, <1>2 DEF Typed
<1> QED BY <1>1, <1>2, <1>3, <1>4, <1>5, <1>6, SchedulerStepKeeps

LEMMA TakeKeeps ==
  ASSUME IInv, NEW w \in Workers, TakeTask(w)
  PROVE  IInv'
<1>1. [Next]_vars /\ SP!TaskInv /\ Typed /\ LoopPhase(w) /\ SP!TypeOK /\ SP!OnePlace
  BY DEF Next, WorkerStep, IInv, LoopPhases, SP!TaskInv, SP!Placed
<1>2. PICK t \in TaskId : S!PopTask(w, t) /\ SP!PopTask(w, t)
  BY SameWorkerSteps DEF TakeTask
<1>3. UNCHANGED <<registry, runningTasks, mark, workflowVars, nodeOf, plan, outcome, submitted,
                  accepted, cleared, clearing, demoted>>
  BY <1>2 DEF TakeTask, SP!PopTask, SP!Pop, engineVars, SP!callVars, SP!operatorVars
<1>4. /\ \A v \in Workers \ {w} : worker'[v] = worker[v]
      /\ worker[w].step = "polling" /\ worker[w].task = SP!NoTask
      /\ worker[w].policy \in SP!SchedulingPolicy
      /\ worker'[w].step = "holding" /\ worker'[w].task = t
      /\ activity[w] = "idle"
  <2>1. worker \in [Workers -> SP!WorkerRecord] /\ worker[w].step = "polling"
    BY <1>1, <1>2 DEF SP!TypeOK, SP!PopTask
  <2>2. worker' = [worker EXCEPT ![w] = [@ EXCEPT !.step = "holding", !.task = t, !.level = 0]]
    BY <1>2 DEF SP!PopTask
  <2> QED BY <1>1, <2>1, <2>2, TasksKnown DEF SP!WorkerRecord, LoopPhase
<1>5. /\ SP!QueueOf(worker[w].policy) \in SP!QueueName
      /\ t \in SP!In(SP!QueueOf(worker[w].policy))
      /\ \A q \in SP!QueueName : SP!In(q)' \subseteq SP!In(q)
  <2>1. SP!NoDuplicates /\ SP!Pop(t, worker[w].policy, worker[w].level)
    BY <1>1, <1>2 DEF SP!OnePlace, SP!NoDuplicates, SP!PopTask
  <2>2. SP!QueueOf(worker[w].policy) \in SP!QueueName
    BY <1>4, SP!PolicyQueue, SchedulerAssumptions
  <2>3. /\ t \in SP!In(SP!QueueOf(worker[w].policy))
        /\ \A q \in SP!QueueName :
             SP!In(q)' = IF q = SP!QueueOf(worker[w].policy) THEN SP!In(q) \ {t} ELSE SP!In(q)
    BY <1>1, <1>4, <2>1, SP!PopEffect, SchedulerAssumptions
  <2> QED BY <2>2, <2>3
<1>6. LoopPhase(w)'
  BY <1>1, <1>3, <1>4 DEF LoopPhase, workflowVars
<1>7. outcome' \in [Workers -> {"none", "Completed", "Failed"}]
  BY <1>1, <1>3 DEF Typed
<1>8. /\ \E q \in SP!QueueName : worker'[w].task \in SP!In(q)
      /\ worker'[w].task # worker[w].task => worker[w].task \notin runningTasks
  <2>1. SP!NoTask \notin runningTasks
    BY <1>1, SchedulerAssumptions DEF SP!TypeOK, SP!SchedulerTypeOK
  <2> QED BY <1>4, <1>5, <2>1
<1>9. \A v \in Workers \ {w} : UNCHANGED <<worker[v], mark[v], outcome[v]>>
  BY <1>3, <1>4
<1>10. \A q \in SP!QueueName : SP!In(q)' \subseteq SP!In(q)
  BY <1>5
<1> QED BY <1>1, <1>3, <1>4, <1>6, <1>7, <1>8, <1>9, <1>10, SchedulerStepKeeps

LEMMA StartKeeps ==
  ASSUME IInv, NEW w \in Workers, StartTask(w)
  PROVE  IInv'
<1>1. [Next]_vars /\ SP!TaskInv /\ Typed /\ LoopPhase(w) /\ SP!TypeOK
  BY DEF Next, WorkerStep, IInv, LoopPhases, SP!TaskInv
<1>2. /\ SP!StartTask(w) \/ SP!DropTask(w)
      /\ worker[w].step = "holding" /\ activity[w] = "idle" /\ outcome[w] = "none"
  BY <1>1, SameWorkerSteps DEF StartTask, SP!StartTask, SP!DropTask, LoopPhase
<1>3. UNCHANGED <<queue, registry, runningTasks, workflowVars, nodeOf, plan, outcome, submitted,
                  accepted, cleared, clearing, demoted>>
  BY <1>2 DEF StartTask, SP!StartTask, SP!DropTask, engineVars, SP!schedulerVars, SP!callVars,
              SP!operatorVars
<1>4. /\ \A v \in Workers \ {w} : worker'[v] = worker[v] /\ mark'[v] = mark[v]
      /\ \/ worker'[w].step = "running" /\ worker'[w].task = worker[w].task
         \/ /\ worker'[w].step = "idle" /\ worker'[w].task = SP!NoTask
            /\ worker[w].task \notin runningTasks
  <2>1. /\ worker \in [Workers -> SP!WorkerRecord] /\ mark \in [SP!Markers -> SP!MarkRecord]
        /\ \A v \in Workers : v \in SP!Markers
    BY <1>1 DEF SP!TypeOK, SP!Markers
  <2>2. CASE SP!StartTask(w)
    BY <2>1, <2>2 DEF SP!StartTask, SP!BeginMark, SP!WorkerRecord
  <2>3. CASE SP!DropTask(w)
    <3>1. runningTasks \subseteq SP!Registered
      BY <1>1 DEF SP!TaskInv, SP!Placed, SP!Records, IInv, Undisturbed
    <3> QED BY <2>1, <2>3, <3>1 DEF SP!DropTask, SP!Idle
  <2> QED BY <1>2, <2>2, <2>3
<1>5. LoopPhase(w)'
  BY <1>2, <1>3, <1>4 DEF LoopPhase, workflowVars
<1>6. \A q \in SP!QueueName : SP!In(q)' \subseteq SP!In(q)
  BY <1>3 DEF SP!In
<1>7. outcome' \in [Workers -> {"none", "Completed", "Failed"}]
  BY <1>1, <1>3 DEF Typed
<1> QED BY <1>1, <1>2, <1>3, <1>4, <1>5, <1>6, <1>7, SchedulerStepKeeps

(* Why a refused task is not the only one for its node: it is with a worker *)
(* that executes nothing, so another was there when the node was taken.    *)
LEMMA RefusedIsSecond ==
  ASSUME IInv, NEW w \in Workers, RefuseNode(w)
  PROVE  \E u \in submitted \ {worker[w].task} :
           nodeOf[u] = nodeOf[worker[w].task] /\ Begun(nodeOf[worker[w].task])
<1> DEFINE t == worker[w].task
           n == nodeOf[t]
<1>1. t \in submitted /\ n \notin readyNodes /\ activity[w] = "idle"
  <2>1. worker[w].step = "running" /\ activity[w] = "idle" /\ n \notin readyNodes
    BY DEF RefuseNode, Marked
  <2> QED BY <2>1, TasksKnown DEF IInv
<1>2. PICK u \in TaskId : Takes(u, n) /\ Begun(n)
  BY <1>1 DEF IInv, NodesAreTaken, Taken
<1>3. u # t
  <2>1. SUFFICES ASSUME u = t PROVE FALSE
    OBVIOUS
  <2>2. ~Done(t)
    BY DEF Done
  <2>3. PICK v \in Workers : activity[v] = "executing" /\ worker[v].task = t
    BY <1>2, <2>1, <2>2 DEF Takes
  <2>4. t # SP!NoTask
    BY <1>1, TasksKnown DEF IInv
  <2> QED BY <1>1, <2>3, <2>4 DEF IInv, SP!TaskInv, SP!Placed, SP!OnePlace
<1> QED BY <1>2, <1>3 DEF Takes

LEMMA RefuseKeeps ==
  ASSUME IInv, NEW w \in Workers, RefuseNode(w)
  PROVE  IInv'
<1>1. [Next]_vars /\ SP!TaskInv /\ Typed /\ SP!TypeOK
  BY DEF Next, WorkerStep, IInv, SP!TaskInv
<1>2. /\ UNCHANGED <<queue, registry, runningTasks, mark, workflowVars, nodeOf, plan, outcome,
                      submitted, accepted, cleared, clearing, demoted>>
      /\ activity[w] = "idle" /\ worker[w].step = "running"
      /\ worker' = [worker EXCEPT ![w] = S!Idle]
  BY DEF RefuseNode, engineVars, schedulerVars, Marked
<1>3. /\ \A v \in Workers \ {w} : worker'[v] = worker[v]
      /\ worker'[w].step = "idle" /\ worker'[w].task = SP!NoTask
  BY <1>1, <1>2 DEF SP!TypeOK, S!Idle, S!NoTask, SP!NoTask
<1>4. LoopPhase(w)'
  <2>1. LoopPhase(w)
    BY DEF IInv, LoopPhases
  <2> QED BY <1>2, <1>3, <2>1 DEF LoopPhase, workflowVars
<1>5. \A q \in SP!QueueName : SP!In(q)' \subseteq SP!In(q)
  BY <1>2 DEF SP!In
<1>6. outcome' \in [Workers -> {"none", "Completed", "Failed"}]
  BY <1>1, <1>2 DEF Typed
<1> QED BY <1>1, <1>2, <1>3, <1>4, <1>5, <1>6, RefusedIsSecond, SchedulerStepKeeps

LEMMA FinishTaskKeeps ==
  ASSUME IInv, NEW w \in Workers, FinishTask(w)
  PROVE  IInv'
<1>1. [Next]_vars /\ SP!TaskInv /\ Typed /\ SP!TypeOK /\ LoopPhase(w)
  BY DEF Next, WorkerStep, IInv, SP!TaskInv, LoopPhases
<1>2. PICK status \in {"Completed", "Failed"} :
        SP!FinishTask(w, status) /\ outcome' = [outcome EXCEPT ![w] = status]
  BY SameWorkerSteps DEF FinishTask
<1>3. /\ UNCHANGED <<queue, registry, runningTasks, workflowVars, nodeOf, plan,
                      submitted, accepted, cleared, clearing, demoted>>
      /\ activity[w] = "executing" /\ worker[w].step = "running"
      /\ nodeOf[worker[w].task] = node[w]
  BY <1>1, <1>2 DEF FinishTask, SP!FinishTask, SP!schedulerVars, SP!callVars, SP!operatorVars, LoopPhase
<1>4. worker[w].task \in SP!Registered
  BY <1>1, <1>3 DEF SP!TaskInv, SP!Placed, SP!Records, SP!Busy, IInv, Undisturbed
<1>5. /\ worker' = [worker EXCEPT ![w].step = "finishing"]
      /\ mark' = [mark EXCEPT ![w] = [step |-> "read", task |-> worker[w].task, status |-> status]]
  BY <1>2, <1>4 DEF SP!FinishTask, SP!BeginMark
<1>6. /\ \A v \in Workers \ {w} : worker'[v] = worker[v] /\ mark'[v] = mark[v]
      /\ worker'[w].step = "finishing" /\ worker'[w].task = worker[w].task
      /\ mark'[w].step = "read" /\ mark'[w].status = status
  BY <1>1, <1>5 DEF SP!TypeOK, SP!Markers, SP!WorkerRecord
<1>7. /\ \A v \in Workers \ {w} : outcome'[v] = outcome[v]
      /\ outcome'[w] = status /\ outcome' \in [Workers -> {"none", "Completed", "Failed"}]
  BY <1>1, <1>2 DEF Typed
<1>8. LoopPhase(w)'
  BY <1>3, <1>6, <1>7 DEF LoopPhase, workflowVars
<1>9. \A q \in SP!QueueName : SP!In(q)' \subseteq SP!In(q)
  BY <1>3 DEF SP!In
<1> QED BY <1>1, <1>3, <1>6, <1>7, <1>8, <1>9, SchedulerStepKeeps

LEMMA CancelKeeps ==
  ASSUME IInv, CancelTask
  PROVE  IInv'
<1>1. [Next]_vars /\ SP!TaskInv /\ Typed /\ SP!TypeOK
  BY DEF Next, IInv, SP!TaskInv
<1>2. PICK t \in TaskId : SP!CancelTask(t)
  BY SameMarks DEF CancelTask
<1>3. UNCHANGED <<queue, registry, runningTasks, worker, workflowVars, nodeOf, plan, outcome,
                  submitted, accepted, cleared, clearing, demoted>>
  BY <1>2 DEF CancelTask, SP!CancelTask, SP!schedulerVars, SP!callVars, SP!workerVars, engineVars
<1>4. \A v \in Workers : mark'[v] = mark[v]
  BY <1>1, <1>2, ActorAssumption DEF SP!CancelTask, SP!BeginMark, SP!TypeOK, SP!Markers
<1>5. \A q \in SP!QueueName : SP!In(q)' \subseteq SP!In(q)
  BY <1>3 DEF SP!In
<1>6. outcome' \in [Workers -> {"none", "Completed", "Failed"}]
  BY <1>1, <1>3 DEF Typed
<1> QED BY <1>1, <1>3, <1>4, <1>5, <1>6, ActorAssumption, SchedulerStepKeeps

LEMMA OtherKeeps ==
  ASSUME IInv, Stop \/ StopAgain \/ UNCHANGED vars \/ \E w \in Workers : HandlerPanics(w)
  PROVE  IInv'
<1>1. [Next]_vars /\ SP!TaskInv /\ Typed
  BY DEF Next, WorkerStep, IInv
<1>2. UNCHANGED <<queue, registry, runningTasks, worker, mark, workflowVars, nodeOf, plan, outcome,
                  submitted, accepted, cleared, clearing, demoted>>
  BY DEF Stop, StopAgain, HandlerPanics, vars, SetIsRunning, schedulerVars, actorVars, engineVars
<1>3. \A q \in SP!QueueName : SP!In(q)' \subseteq SP!In(q)
  BY <1>2 DEF SP!In
<1>4. outcome' \in [Workers -> {"none", "Completed", "Failed"}]
  BY <1>1, <1>2 DEF Typed
<1> QED BY <1>1, <1>2, <1>3, <1>4, ActorAssumption, SchedulerStepKeeps

LEMMA WriteMarkKeeps ==
  ASSUME IInv, NEW p \in SP!Markers, MarkStep(p), SP!WriteMark(p)
  PROVE  IInv'
<1>1. [Next]_vars /\ SP!TaskInv /\ Typed /\ SP!TypeOK
  BY DEF Next, IInv, SP!TaskInv, SP!Markers, WorkerStep
<1> DEFINE t == mark[p].task
<1>2. /\ UNCHANGED <<queue, runningTasks, worker, workflowVars, nodeOf, plan, outcome, submitted,
                     accepted, cleared, clearing, demoted>>
      /\ registry' = [registry EXCEPT ![t] = mark[p].status]
  BY DEF MarkStep, SP!WriteMark, SP!SetRegistry, SP!callVars, SP!workerVars, SP!operatorVars,
         engineVars
<1>3. /\ \A o \in SP!Markers \ {p} : mark'[o] = mark[o]
      /\ mark[p].step = "read" /\ mark'[p].status = mark[p].status
  BY <1>1 DEF SP!WriteMark, SP!TypeOK, SP!MarkRecord
<1>4. /\ p \in Workers => t = worker[p].task
      /\ p \notin Workers => mark[p].status = "Cancelled"
  BY <1>1, <1>3 DEF SP!TaskInv, SP!Placed, SP!Shapes, SP!Markers
<1>5. \A u \in TaskId : registry'[u] = IF u = t THEN mark[p].status ELSE registry[u]
  BY <1>1, <1>2 DEF SP!TypeOK, SP!SchedulerTypeOK
<1>6. p \in Workers => LoopPhase(p)'
  <2> SUFFICES ASSUME p \in Workers PROVE LoopPhase(p)'
    OBVIOUS
  <2>1. LoopPhase(p)
    BY DEF IInv, LoopPhases
  <2>2. worker[p].task \in TaskId /\ SP!Busy(p)
    BY <1>1, <1>3, TasksKnown DEF SP!TaskInv, SP!Placed, SP!Shapes, SP!Busy
  <2>3. registry'[worker[p].task] = mark[p].status
    BY <1>4, <1>5, <2>2
  <2> QED BY <1>2, <1>3, <2>1, <2>2, <2>3 DEF LoopPhase, workflowVars, SP!Busy, Reports
<1>7. \A q \in SP!QueueName : SP!In(q)' \subseteq SP!In(q)
  BY <1>2 DEF SP!In
<1>8. outcome' \in [Workers -> {"none", "Completed", "Failed"}]
  BY <1>1, <1>2 DEF Typed
<1>9. \A v \in Workers \ {p} : UNCHANGED <<worker[v], mark[v], outcome[v]>>
  BY <1>2, <1>3 DEF SP!Markers
<1>10. \A u \in TaskId :
           \/ registry'[u] = registry[u]
           \/ registry'[u] = "Cancelled"
           \/ p \in Workers /\ u = worker[p].task
  BY <1>4, <1>5
<1> QED BY <1>1, <1>2, <1>6, <1>7, <1>8, <1>9, <1>10, SchedulerStepKeeps

LEMMA EndMarkKeeps ==
  ASSUME IInv, NEW p \in SP!Markers, MarkStep(p), SP!EndMark(p)
  PROVE  IInv'
<1>1. [Next]_vars /\ SP!TaskInv /\ Typed /\ SP!TypeOK
  BY DEF Next, IInv, SP!TaskInv, SP!Markers, WorkerStep
<1> DEFINE t == mark[p].task
<1>2. /\ UNCHANGED <<queue, registry, workflowVars, nodeOf, plan, outcome, submitted,
                     accepted, cleared, clearing, demoted>>
      /\ runningTasks' = IF mark[p].status = "Running" THEN runningTasks \union {t}
                         ELSE runningTasks \ {t}
      /\ mark[p].step = "written"
  BY DEF MarkStep, SP!EndMark, SP!SetRunningTasks, SP!callVars, SP!operatorVars, engineVars
<1>3. /\ \A o \in SP!Markers \ {p} : mark'[o] = mark[o]
      /\ mark'[p].step = "none"
  BY <1>1 DEF SP!EndMark, SP!TypeOK, SP!NoMark
<1>4. \A v \in Workers :
        \/ worker'[v] = worker[v] /\ (v = p => worker[v].step = "running")
        \/ /\ v = p /\ worker[v].step = "finishing"
           /\ worker'[v].step = "idle" /\ worker'[v].task = SP!NoTask
  BY <1>1, <1>2 DEF SP!EndMark, SP!TypeOK, SP!Idle, SP!TaskInv, SP!Placed, SP!Shapes
<1>5. /\ p \in Workers => /\ t = worker[p].task
                          /\ worker[p].step = "running" <=> mark[p].status = "Running"
      /\ p \notin Workers => mark[p].status = "Cancelled"
  BY <1>1, <1>2 DEF SP!TaskInv, SP!Placed, SP!Shapes, SP!Markers
<1>6. p \in Workers => LoopPhase(p)'
  <2> SUFFICES ASSUME p \in Workers PROVE LoopPhase(p)'
    OBVIOUS
  <2>1. LoopPhase(p)
    BY DEF IInv, LoopPhases
  <2>2. CASE worker[p].step = "running"
    BY <1>2, <1>3, <1>4, <2>1, <2>2 DEF LoopPhase, workflowVars
  <2>3. CASE worker[p].step = "finishing"
    <3> DEFINE u == worker[p].task
    <3>1. /\ activity[p] = "executing" /\ outcome[p] # "none"
          /\ nodeOf[u] = node[p] /\ Reports(u, outcome[p])
      BY <1>2, <2>1, <2>3 DEF LoopPhase
    <3>2. u \in accepted /\ u \in submitted /\ u \in TaskId /\ u # SP!NoTask
      BY <1>1, <2>3, TasksKnown DEF SP!Busy
    <3>3. /\ \A q \in SP!QueueName : u \notin SP!In(q)
          /\ \A v \in Workers \ {p} : worker[v].task # u
      BY <1>1, <3>2 DEF SP!TaskInv, SP!Placed, SP!OnePlace
    <3>4. worker'[p].step = "idle" /\ worker'[p].task = SP!NoTask
      BY <1>4, <2>3
    <3>5. /\ u \in accepted'
          /\ \A q \in SP!QueueName : u \notin SP!In(q)'
          /\ \A v \in Workers : worker'[v].task # u
      BY <1>2, <1>4, <3>2, <3>3, <3>4 DEF SP!In
    <3>6. \E s \in submitted' : nodeOf'[s] = node'[p] /\ Done(s)' /\ Reports(s, outcome[p])'
      BY <1>2, <3>1, <3>2, <3>5 DEF Done, Reports, workflowVars
    <3> QED BY <1>2, <3>1, <3>4, <3>6 DEF LoopPhase, workflowVars
  <2> QED BY <1>4, <2>2, <2>3
<1>7. \A q \in SP!QueueName : SP!In(q)' \subseteq SP!In(q)
  BY <1>2 DEF SP!In
<1>8. outcome' \in [Workers -> {"none", "Completed", "Failed"}]
  BY <1>1, <1>2 DEF Typed
<1>9. \A v \in Workers \ {p} : UNCHANGED <<worker[v], mark[v], outcome[v]>>
  BY <1>2, <1>3, <1>4 DEF SP!Markers
<1>10. \A s \in runningTasks' \ runningTasks : \E w \in Workers : worker'[w].task = s
  BY <1>2, <1>4, <1>5
<1>11. p \in Workers =>
         /\ worker'[p].task \in {worker[p].task, SP!NoTask}
         /\ worker'[p].task # worker[p].task => worker[p].task \notin runningTasks'
  BY <1>2, <1>4, <1>5
<1> QED BY <1>1, <1>2, <1>6, <1>7, <1>8, <1>9, <1>10, <1>11, SchedulerStepKeeps

LEMMA MarkKeeps ==
  ASSUME IInv, NEW p \in SP!Markers, MarkStep(p)
  PROVE  IInv'
BY SameMarks, WriteMarkKeeps, EndMarkKeeps

-----------------------------------------------------------------------------
(* The steps of a worker with the instance. The scheduler does not see     *)
(* them.                                                                   *)
LEMMA InstanceStepKeeps ==
  ASSUME IInv, [Next]_vars, NEW w \in Workers,
         UNCHANGED <<schedulerVars, actorVars, nodeOf, plan>>,
         Typed', LoopPhase(w)',
         \A v \in Workers \ {w} : UNCHANGED <<activity[v], node[v], outcome[v]>>,
         activity[w] = "executing" => activity'[w] = "executing" \/ worker[w].task = SP!NoTask,
         \A n \in NodeId : Begun(n) => Begun(n)',
         \A n \in NodeId : n \in readyNodes => n \in readyNodes' \/ Taken(n)',
         UNCHANGED nodeResults \/ ResultsReported'
  PROVE  IInv'
<1>1. /\ UNCHANGED <<queue, registry, runningTasks, submitted, accepted, worker, mark, cleared, clearing,
                     demoted>>
      /\ SP!TaskInv /\ SP!TaskInv' /\ submitted \subseteq TaskId
  BY TasksKnown, TasksPlaced DEF IInv, schedulerVars, actorVars
<1>2. \A t \in TaskId : Done(t) => Done(t)'
  BY <1>1 DEF Done, SP!In
<1>3. TasksGoOn
  BY <1>1, <1>2 DEF TasksGoOn
<1>4. \A n \in NodeId : Taken(n) => Taken(n)'
  <2>1. ASSUME NEW v \in Workers, NEW u \in submitted, activity[v] = "executing", worker[v].task = u
        PROVE  Done(u)' \/ (activity'[v] = "executing" /\ worker'[v].task = u)
    <3>1. u # SP!NoTask
      BY <1>1, TasksKnown
    <3> QED BY <1>1, <2>1, <3>1
  <2> QED BY <1>3, <2>1, TakenStays
<1>5. NodesAreTaken'
  BY <1>1, <1>4 DEF IInv, NodesAreTaken, Typed
<1>6. LeftRunning'
  BY <1>1, <1>3, LeftStay
<1>7. LoopPhases'
  <2>1. ASSUME NEW v \in Workers \ {w} PROVE LoopPhase(v)'
    BY <1>1, <1>3, PhaseStays
  <2> QED BY <2>1 DEF LoopPhases
<1>8. Undisturbed'
  BY <1>1 DEF IInv, Undisturbed
<1>9. ResultsReported'
  BY <1>3, ReportsStay
<1> QED BY <1>1, <1>5, <1>6, <1>7, <1>8, <1>9 DEF IInv

LEMMA StartNodeKeeps ==
  ASSUME IInv, NEW w \in Workers, StartNode(w)
  PROVE  IInv'
<1> DEFINE t == worker[w].task
           n == nodeOf[t]
<1>1. [Next]_vars /\ SP!TaskInv /\ Typed
  BY DEF Next, WorkerStep, IInv
<1>2. /\ UNCHANGED <<schedulerVars, actorVars, nodeOf, plan, outcome, nodeResults>>
      /\ worker[w].step = "running" /\ mark[w].step = "none" /\ activity[w] = "idle"
      /\ n \in readyNodes /\ readyNodes' = readyNodes \ {n}
      /\ activity' = [activity EXCEPT ![w] = "executing"]
      /\ node' = [node EXCEPT ![w] = n]
  BY DEF StartNode, Marked, M!StartNode, M!SetNodeRunning, engineVars
<1>3. /\ n \in NodeId
      /\ \A v \in Workers \ {w} : activity'[v] = activity[v] /\ node'[v] = node[v]
      /\ activity'[w] = "executing" /\ node'[w] = n
      /\ UNCHANGED <<submitted, accepted, queue, worker, mark>>
  BY <1>1, <1>2 DEF Typed, schedulerVars, actorVars
<1>4. Typed'
  <2>1. /\ activity' \in [Workers -> M!Activities]
        /\ node' \in [Workers -> NodeId \union {M!NoNode}]
    BY <1>1, <1>2, <1>3 DEF Typed, M!Activities
  <2> QED BY <1>1, <1>2, <1>3, <2>1 DEF Typed
<1>5. LoopPhase(w)'
  <2>1. LoopPhase(w)
    BY DEF IInv, LoopPhases
  <2> QED BY <1>2, <1>3, <2>1 DEF LoopPhase
<1>6. \A m \in NodeId : Begun(m) => Begun(m)'
  BY <1>2, <1>3 DEF Begun, M!Held, M!Executing
<1>7. Taken(n)'
  <2>1. t \in submitted /\ t \in TaskId
    BY <1>1, <1>2, TasksKnown
  <2>2. \E u \in TaskId : u = t /\ Takes(u, n)'
    BY <1>2, <1>3, <2>1 DEF Takes
  <2>3. n \in M!Held'
    BY <1>3 DEF M!Held, M!Executing
  <2>4. \E m \in NodeId : m = n' /\ m = n
    BY <1>2, <1>3
  <2> QED BY <2>2, <2>3, <2>4 DEF Taken, Begun
<1>8. \A m \in NodeId : m \in readyNodes => m \in readyNodes' \/ Taken(m)'
  <2>1. n' = n
    BY <1>2, <1>3
  <2> QED BY <1>2, <1>7, <2>1
<1> QED BY <1>1, <1>2, <1>3, <1>4, <1>5, <1>6, <1>8, InstanceStepKeeps

LEMMA FinishNodeKeeps ==
  ASSUME IInv, NEW w \in Workers, FinishNode(w)
  PROVE  IInv'
<1> DEFINE n == node[w]
<1>1. [Next]_vars /\ SP!TaskInv /\ Typed
  BY DEF Next, WorkerStep, IInv
<1>2. /\ UNCHANGED <<schedulerVars, actorVars, nodeOf, plan>>
      /\ worker[w].step = "idle" /\ activity[w] = "executing" /\ outcome[w] # "none"
      /\ outcome' = [outcome EXCEPT ![w] = "none"]
      /\ \/ outcome[w] = "Completed" /\ M!CompleteNode(w)
         \/ outcome[w] = "Failed" /\ M!FailNode(w)
  BY DEF FinishNode, M!CompleteNode, M!FailNode
<1>3. PICK u \in submitted : nodeOf[u] = n /\ Done(u) /\ Reports(u, outcome[w])
  BY <1>2 DEF IInv, LoopPhases, LoopPhase
<1>4. n \in NodeId /\ u \in TaskId /\ worker[w].task = SP!NoTask
  BY <1>1, <1>2, <1>3, TasksKnown DEF Typed
<1>5. /\ activity'[w] \in {"idle", "finished"} /\ outcome'[w] = "none"
      /\ \A v \in Workers \ {w} : /\ activity'[v] = activity[v] /\ node'[v] = node[v]
                                   /\ outcome'[v] = outcome[v]
      /\ StatusFor(nodeResults'[n]) = outcome[w] /\ nodeResults'[n] # "none"
      /\ \A m \in NodeId \ {n} : nodeResults'[m] = nodeResults[m]
      /\ readyNodes' \subseteq NodeId /\ readyNodes \ {n} \subseteq readyNodes'
      /\ Typed'
  <2>1. CASE outcome[w] = "Completed" /\ M!CompleteNode(w)
    <3>1. /\ activity' = [activity EXCEPT ![w] = "finished"] /\ node' = node
          /\ nodeResults' = [nodeResults EXCEPT ![n] = "output"]
          /\ readyNodes' \subseteq NodeId /\ readyNodes \subseteq readyNodes'
      BY <1>1, <2>1 DEF M!CompleteNode, M!SetNodeCompleted, M!NewlyReady, Typed
    <3>2. Typed'
      BY <1>1, <1>2, <1>4, <3>1 DEF Typed, M!Activities, actorVars
    <3> QED BY <1>1, <1>2, <1>4, <2>1, <3>1, <3>2 DEF Typed, StatusFor
  <2>2. CASE outcome[w] = "Failed" /\ M!FailNode(w)
    <3>1. /\ activity' = [activity EXCEPT ![w] = "idle"]
          /\ node' = [node EXCEPT ![w] = M!NoNode]
          /\ nodeResults' = [nodeResults EXCEPT ![n] = "error"]
          /\ readyNodes' = readyNodes \ {n}
      BY <1>1, <2>2 DEF M!FailNode, M!SetNodeFailed
    <3>2. Typed'
      BY <1>1, <1>2, <1>4, <3>1 DEF Typed, M!Activities, actorVars
    <3> QED BY <1>1, <1>2, <1>4, <2>2, <3>1, <3>2 DEF Typed, StatusFor
  <2> QED BY <1>2, <2>1, <2>2
<1>6. UNCHANGED <<submitted, accepted, queue, registry, worker, mark>>
  BY <1>2 DEF schedulerVars, actorVars
<1>7. LoopPhase(w)'
  BY <1>2, <1>5, <1>6 DEF LoopPhase
<1>8. \A m \in NodeId : Begun(m) => Begun(m)'
  <2>1. ASSUME NEW m \in NodeId, m # n, m \in M!Held PROVE m \in M!Held'
    BY <1>5, <2>1 DEF M!Held, M!Executing
  <2> QED BY <1>5, <2>1 DEF Begun
<1>9. \A s : Done(s) => Done(s)'
  BY <1>6 DEF Done, SP!In
<1>10. \A m \in NodeId : m \in readyNodes => m \in readyNodes' \/ Taken(m)'
  <2>1. ASSUME NEW m \in NodeId, m = n PROVE Taken(m)'
    <3>1. Takes(u, m)'
      BY <1>2, <1>3, <1>6, <1>9, <2>1 DEF Takes
    <3> QED BY <1>4, <1>5, <2>1, <3>1 DEF Taken, Begun
  <2> QED BY <1>5, <2>1
<1>11. ResultsReported'
  <2>1. ASSUME NEW m \in NodeId, nodeResults'[m] # "none"
        PROVE  \E s \in submitted' : nodeOf'[s] = m /\ Done(s)' /\ Reports(s, StatusFor(nodeResults[m]))'
    <3>1. CASE m = n
      BY <1>2, <1>3, <1>5, <1>6, <1>9, <3>1 DEF Reports
    <3>2. CASE m # n
      <4>1. nodeResults'[m] = nodeResults[m]
        BY <1>5, <3>2
      <4>2. PICK s \in submitted : nodeOf[s] = m /\ Done(s) /\ Reports(s, StatusFor(nodeResults[m]))
        BY <2>1, <4>1 DEF IInv, ResultsReported
      <4> QED BY <1>2, <1>6, <1>9, <4>1, <4>2 DEF Reports
    <3> QED BY <3>1, <3>2
  <2> QED BY <2>1 DEF ResultsReported
<1> QED BY <1>1, <1>2, <1>4, <1>5, <1>7, <1>8, <1>10, <1>11, InstanceStepKeeps

LEMMA ScheduleNextKeeps ==
  ASSUME IInv, NEW w \in Workers, ScheduleNextNodes(w)
  PROVE  IInv'
<1>1. [Next]_vars /\ SP!TaskInv /\ Typed /\ LoopPhase(w)
  BY DEF Next, WorkerStep, IInv, LoopPhases
<1>2. /\ UNCHANGED <<schedulerVars, actorVars, engineVars, readyNodes, nodeResults>>
      /\ activity[w] \in {"finished", "scheduling"}
      /\ \/ /\ activity' = [activity EXCEPT ![w] = "scheduling"]
            /\ node' = [node EXCEPT ![w] = M!NoNode]
         \/ activity' = [activity EXCEPT ![w] = "idle"] /\ node' = node
  BY DEF ScheduleNextNodes, M!ReadReadyNodes, M!WriteReadyStatus, M!MarkReady, M!stateVars
<1>3. UNCHANGED <<nodeOf, plan, outcome, submitted, worker, mark>>
  BY <1>2 DEF engineVars, actorVars
<1>4. /\ activity'[w] \in {"idle", "scheduling"}
      /\ \A v \in Workers \ {w} : activity'[v] = activity[v] /\ node'[v] = node[v]
      /\ Typed'
  BY <1>1, <1>2, <1>3 DEF Typed, M!Activities
<1>5. LoopPhase(w)'
  BY <1>1, <1>2, <1>3, <1>4 DEF LoopPhase
<1>6. \A n \in NodeId : Begun(n) => Begun(n)'
  BY <1>2, <1>4 DEF Begun, M!Held, M!Executing
<1> QED BY <1>1, <1>2, <1>3, <1>4, <1>5, <1>6, InstanceStepKeeps

LEMMA NextKeeps ==
  ASSUME IInv, [Next]_vars
  PROVE  IInv'
<1>1. ASSUME NEW w \in Workers, WorkerStep(w) PROVE IInv'
  BY <1>1, AskKeeps, TakeKeeps, StartKeeps, MarkKeeps, StartNodeKeeps, RefuseKeeps, FinishTaskKeeps,
     FinishNodeKeeps, ScheduleNextKeeps, OtherKeeps DEF WorkerStep, SP!Markers
<1>2. CASE MarkStep(Operator)
  BY <1>2, MarkKeeps DEF SP!Markers
<1> QED BY <1>1, <1>2, ClientStepKeeps, CancelKeeps, OtherKeeps DEF Next

(* However the calls of clients, workers and the operator interleave, no   *)
(* node is lost between readiness and its task, every worker is as far with *)
(* the scheduler as with the instance, and results are recorded.           *)
THEOREM EngineInvariant == Spec => []IInv
<1>1. IInv /\ [Next]_vars => IInv'
  BY NextKeeps
<1> QED BY <1>1, EngineInit, PTL DEF Spec

(* However clients duplicate tasks and whenever they cancel them, a task   *)
(* left in running_tasks came second, and a node that has its result has a *)
(* finished task that says the same, or was cancelled.                     *)
THEOREM RegistryFollowsInstance == Spec => []TasksFollowNodes
<1>1. IInv => LeaksOnlyDuplicates
  <2> SUFFICES ASSUME IInv PROVE LeaksOnlyDuplicates
    OBVIOUS
  <2>1. submitted \subseteq TaskId
    BY TasksKnown DEF IInv
  <2> QED BY <2>1 DEF IInv, LeftRunning, LeaksOnlyDuplicates, S!Holders, Begun
<1>2. IInv => TaskFinishesBeforeNode
  <2> SUFFICES ASSUME IInv PROVE TaskFinishesBeforeNode
    OBVIOUS
  <2>1. submitted \subseteq TaskId /\ Typed
    BY TasksKnown DEF IInv
  <2> QED BY <2>1 DEF IInv, ResultsReported, TaskFinishesBeforeNode, Reports, StatusFor, Typed
<1> QED BY <1>1, <1>2, EngineInvariant, PTL DEF TasksFollowNodes

=============================================================================
