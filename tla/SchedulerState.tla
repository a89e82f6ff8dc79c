--------------------------- MODULE SchedulerState --------------------------
(***************************************************************************)
(* struct WorkflowScheduler of lion_workflow/src/engine/scheduler.rs: its  *)
(* queues, its task registry, and the operations its methods perform under *)
(* one lock each. Scheduler and Engine say who calls what, and between     *)
(* which locks.                                                            *)
(*                                                                         *)
(* A task is known by its id. Its priority, deadline and creation time     *)
(* never change after Task::new, so they are constants of the id.          *)
(***************************************************************************)
EXTENDS Integers, FiniteSets, SequencesExt

CONSTANTS
  TaskId,
  PriorityOf,   \* Task::priority, higher is more urgent
  DeadlineOf,   \* Task::deadline, 0 for None
  CreatedAt,    \* Task::created_at
  MaxQueued,    \* SchedulerConfig::max_queued_tasks
  MlfqLevels    \* SchedulerConfig::mlfq_levels

ASSUME TaskAssumption ==
  /\ IsFiniteSet(TaskId)
  /\ PriorityOf \in [TaskId -> Nat]
  /\ DeadlineOf \in [TaskId -> Nat]
  /\ CreatedAt \in [TaskId -> Nat]
  /\ MaxQueued \in Nat \ {0}
  /\ MlfqLevels \in Nat \ {0}

VARIABLES
  queue,         \* queue[q]: the tasks in each queue, in order of arrival
  mlfqLevel,     \* mlfqLevel[t]: the level of t while it is in the MLFQ queues
  registry,      \* task_registry: the status of each task it holds
  runningTasks,  \* the keys of running_tasks
  policy,        \* current_policy
  isRunning      \* is_running

schedulerVars == <<queue, mlfqLevel, registry, runningTasks, policy, isRunning>>

SchedulingPolicy == {"FIFO", "Priority", "MLFQ", "EDF", "RoundRobin", "Fair"}

QueueName == {"priority", "deadline", "fifo", "mlfq", "fair"}

TaskStatus == {"Pending", "Running", "Completed", "Failed", "Cancelled"}

SchedulerTypeOK ==
  /\ queue \in [QueueName -> Seq(TaskId)]
  /\ mlfqLevel \in [TaskId -> 0 .. MlfqLevels - 1]
  /\ registry \in [TaskId -> TaskStatus \union {"absent"}]
  /\ runningTasks \in SUBSET TaskId
  /\ policy \in SchedulingPolicy
  /\ isRunning \in BOOLEAN

(* WorkflowScheduler::new, with config.policy = p. *)
NewScheduler(p) ==
  /\ queue = [q \in QueueName |-> <<>>]
  /\ mlfqLevel = [t \in TaskId |-> 0]
  /\ registry = [t \in TaskId |-> "absent"]
  /\ runningTasks = {}
  /\ policy = p
  /\ isRunning = TRUE

QueueOf(p) ==
  CASE p = "Priority" -> "priority"
    [] p = "EDF" -> "deadline"
    [] p = "FIFO" -> "fifo"
    [] p = "MLFQ" -> "mlfq"
    [] p \in {"RoundRobin", "Fair"} -> "fair"

Registered == {t \in TaskId : registry[t] # "absent"}

(* Mutant: one task too many. *)
HasRoomForOneMore == Cardinality(Registered) <= MaxQueued

(* The capacity check counts the registry, so every task ever registered   *)
(* since the last clear, finished or not.                                  *)
HasRoom == Cardinality(Registered) < MaxQueued

-----------------------------------------------------------------------------
(* Mutant: a heap with the order reversed. *)
LessUrgent(t, u) == PriorityOf[t] < PriorityOf[u]

(* impl Ord for PriorityTask: t > u. Of two tasks with one priority and    *)
(* two deadlines, the one with the later deadline is the greater; without  *)
(* deadlines, the one created later.                                       *)
MoreUrgent(t, u) ==
  \/ PriorityOf[t] > PriorityOf[u]
  \/ /\ PriorityOf[t] = PriorityOf[u]
     /\ \/ DeadlineOf[t] > DeadlineOf[u]
        \/ DeadlineOf[t] = 0 /\ DeadlineOf[u] = 0 /\ CreatedAt[t] > CreatedAt[u]

(* impl Ord for DeadlineTask: t > u. Without deadlines, the one with the   *)
(* lower priority is the greater.                                          *)
EarlierDeadline(t, u) ==
  IF DeadlineOf[t] = 0
    THEN DeadlineOf[u] = 0 /\ PriorityOf[t] < PriorityOf[u]
    ELSE DeadlineOf[u] = 0 \/ DeadlineOf[t] < DeadlineOf[u]

(* The tasks next_task may return for policy p, once it has come to the    *)
(* given MLFQ level: a maximum of the heap, the front of the level, or the *)
(* front of the deque.                                                     *)
NextTasks(p, level) ==
  LET q == queue[QueueOf(p)]
      tasks == ToSet(q)
      AtLevel(i) == mlfqLevel[q[i]] = level
  IN CASE p = "Priority" -> {t \in tasks : \A u \in tasks : ~MoreUrgent(u, t)}
       [] p = "EDF" -> {t \in tasks : \A u \in tasks : ~EarlierDeadline(u, t)}
       [] p = "MLFQ" -> {q[i] : i \in {j \in DOMAIN q : AtLevel(j)
                                                       /\ \A k \in 1 .. j - 1 : ~AtLevel(k)}}
       [] OTHER -> IF q = <<>> THEN {} ELSE {Head(q)}

-----------------------------------------------------------------------------
(* The push of schedule_task; an MLFQ task starts at the highest level. *)
Push(t, p) ==
  /\ queue' = [queue EXCEPT ![QueueOf(p)] = Append(@, t)]
  /\ mlfqLevel' = [mlfqLevel EXCEPT ![t] = 0]
  /\ UNCHANGED <<registry, runningTasks, policy, isRunning>>

(* next_task, when it returns t. *)
Pop(t, p, level) ==
  /\ t \in NextTasks(p, level)
  /\ queue' = [queue EXCEPT ![QueueOf(p)] = RemoveFirst(@, t)]
  /\ UNCHANGED <<mlfqLevel, registry, runningTasks, policy, isRunning>>

(* The insert into task_registry of schedule_task and of the mark_task_    *)
(* methods. It asks nothing of the status it replaces.                     *)
SetRegistry(t, status) ==
  /\ registry' = [registry EXCEPT ![t] = status]
  /\ UNCHANGED <<queue, mlfqLevel, runningTasks, policy, isRunning>>

(* The last block of a mark_task_ method: into running_tasks for           *)
(* mark_task_running, out of it for the others.                            *)
SetRunningTasks(t, status) ==
  /\ runningTasks' = IF status = "Running" THEN runningTasks \union {t}
                     ELSE runningTasks \ {t}
  /\ UNCHANGED <<queue, mlfqLevel, registry, policy, isRunning>>

(* The position scan of demote_task: below the last level only. *)
MayDemote(t) == Contains(queue["mlfq"], t) /\ mlfqLevel[t] < MlfqLevels - 1

(* demote_task takes the task out of its level ... *)
TakeFromLevel(t) ==
  /\ MayDemote(t)
  /\ queue' = [queue EXCEPT !["mlfq"] = RemoveFirst(@, t)]
  /\ UNCHANGED <<mlfqLevel, registry, runningTasks, policy, isRunning>>

(* Mutant: the last level is left out twice. *)
PushAboveLast(t, level) ==
  /\ queue' = IF level < MlfqLevels - 1 THEN [queue EXCEPT !["mlfq"] = Append(@, t)] ELSE queue
  /\ mlfqLevel' = [mlfqLevel EXCEPT ![t] = level]
  /\ UNCHANGED <<registry, runningTasks, policy, isRunning>>

(* ... and pushes it to the back of the given one, under another lock.     *)
PushToLevel(t, level) ==
  /\ queue' = [queue EXCEPT !["mlfq"] = Append(@, t)]
  /\ mlfqLevel' = [mlfqLevel EXCEPT ![t] = level]
  /\ UNCHANGED <<registry, runningTasks, policy, isRunning>>

(* change_policy: what is queued stays where the old policy put it. *)
SetPolicy(p) ==
  /\ policy' = p
  /\ UNCHANGED <<queue, mlfqLevel, registry, runningTasks, isRunning>>

(* stop and restart *)
SetIsRunning(value) ==
  /\ isRunning' = value
  /\ UNCHANGED <<queue, mlfqLevel, registry, runningTasks, policy>>

(* clear, once it has all its locks. *)
ClearAll ==
  /\ queue' = [q \in QueueName |-> <<>>]
  /\ registry' = [t \in TaskId |-> "absent"]
  /\ runningTasks' = {}
  /\ UNCHANGED <<mlfqLevel, policy, isRunning>>
=============================================================================
