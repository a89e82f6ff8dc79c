----------------------------- MODULE Scheduler -----------------------------
(***************************************************************************)
(* A WorkflowScheduler under concurrent use: callers schedule tasks,       *)
(* workers take and finish them, and an operator cancels, demotes, clears, *)
(* stops, restarts and changes the policy. Every method is cut where it    *)
(* gives up one lock before it takes the next.                             *)
(*                                                                         *)
(* schedule_task holds task_registry.read() from the capacity check to the *)
(* push, and takes task_registry.write() afterwards to register the task.  *)
(* clear takes the queue locks first and task_registry.write() after them. *)
(***************************************************************************)
EXTENDS SchedulerState

CONSTANTS
  Callers,   \* the tasks that call schedule_task
  Workers,   \* the executor's workers
  Operator,  \* who calls cancel_task, demote_task, clear, stop, ...
  InitialPolicy,  \* SchedulerConfig::policy
  Policies,  \* the policies change_policy is called with
  MaxOperatorCalls  \* bound on the operator's calls

(* Option::None where a task may stand. *)
NoTask == "NoTask"

ASSUME ActorAssumption ==
  /\ NoTask \notin TaskId
  /\ IsFiniteSet(Callers) /\ IsFiniteSet(Workers)
  /\ Operator \notin Workers
  /\ InitialPolicy \in SchedulingPolicy /\ Policies \subseteq SchedulingPolicy
  /\ MaxOperatorCalls \in Nat

VARIABLES
  call,       \* call[c]: the schedule_task call of c
  submitted,  \* the tasks handed to schedule_task so far
  accepted,   \* the tasks schedule_task has returned Ok for
  worker,     \* worker[w]: where worker w is, and with which task
  mark,       \* mark[p]: the mark_task_ or cancel_task call of p
  demoted,    \* the task demote_task holds in its hand, if any
  clearing,   \* "no", or "locked": clear has the queues, not the registry
  cleared,    \* clear has been called
  operatorCalls,  \* the number of the operator's calls so far
  dropped     \* the tasks a worker gave up because they were not registered

callVars == <<call, submitted, accepted>>

workerVars == <<worker, dropped>>

operatorVars == <<demoted, clearing, cleared, operatorCalls>>

vars == <<schedulerVars, callVars, workerVars, mark, operatorVars>>

Markers == Workers \union {Operator}

NoCall == [step |-> "none", task |-> NoTask, policy |-> "FIFO"]

NoMark == [step |-> "none", task |-> NoTask, status |-> "Pending"]

Idle == [step |-> "idle", task |-> NoTask, policy |-> "FIFO", level |-> 0]

CallRecord == [step : {"none", "admitted", "checked", "pushed"},
               task : TaskId \union {NoTask}, policy : SchedulingPolicy]

WorkerRecord == [step : {"idle", "polling", "holding", "running", "finishing"},
                 task : TaskId \union {NoTask}, policy : SchedulingPolicy,
                 level : 0 .. MlfqLevels - 1]

MarkRecord == [step : {"none", "read", "written"},
               task : TaskId \union {NoTask}, status : TaskStatus]

TypeOK ==
  /\ SchedulerTypeOK
  /\ call \in [Callers -> CallRecord]
  /\ submitted \in SUBSET TaskId
  /\ accepted \in SUBSET submitted
  /\ worker \in [Workers -> WorkerRecord]
  /\ mark \in [Markers -> MarkRecord]
  /\ demoted \in TaskId \union {NoTask}
  /\ clearing \in {"no", "locked"}
  /\ cleared \in BOOLEAN
  /\ operatorCalls \in 0 .. MaxOperatorCalls
  /\ dropped \in SUBSET TaskId

Init ==
  /\ NewScheduler(InitialPolicy)
  /\ call = [c \in Callers |-> NoCall]
  /\ submitted = {}
  /\ accepted = {}
  /\ worker = [w \in Workers |-> Idle]
  /\ mark = [p \in Markers |-> NoMark]
  /\ demoted = NoTask
  /\ clearing = "no"
  /\ cleared = FALSE
  /\ operatorCalls = 0
  /\ dropped = {}

QueueLocked(q) == clearing = "locked" /\ q # "mlfq"

(* Mutant: schedule_task keeps its read lock until it returns. *)
RegistryReadTooLong == \E c \in Callers : call[c].step \in {"checked", "pushed"}

RegistryRead == \E c \in Callers : call[c].step = "checked"

(* The bound on what the operator does. *)
OperatorCall ==
  /\ operatorCalls < MaxOperatorCalls
  /\ operatorCalls' = operatorCalls + 1

-----------------------------------------------------------------------------
(* schedule_task, the check of is_running. The lock on it is given up      *)
(* before the capacity check.                                              *)
Submit(c, t) ==
  /\ call[c].step = "none" /\ t \notin submitted
  /\ submitted' = submitted \union {t}
  /\ call' = IF isRunning THEN [call EXCEPT ![c] = [NoCall EXCEPT !.step = "admitted", !.task = t]]
             ELSE call
  /\ UNCHANGED <<schedulerVars, accepted, workerVars, mark, operatorVars>>

(* The capacity check, and the read of current_policy under the same       *)
(* registry lock. SchedulerFull ends the call.                             *)
CheckCapacity(c) ==
  /\ call[c].step = "admitted"
  /\ call' = [call EXCEPT ![c] = IF HasRoom THEN [@ EXCEPT !.step = "checked", !.policy = policy]
                                 ELSE NoCall]
  /\ UNCHANGED <<schedulerVars, submitted, accepted, workerVars, mark, operatorVars>>

PushTask(c) ==
  /\ call[c].step = "checked"
  /\ ~QueueLocked(QueueOf(call[c].policy))
  /\ Push(call[c].task, call[c].policy)
  /\ call' = [call EXCEPT ![c].step = "pushed"]
  /\ UNCHANGED <<submitted, accepted, workerVars, mark, operatorVars>>

Register(c) ==
  /\ call[c].step = "pushed"
  /\ ~RegistryRead
  /\ SetRegistry(call[c].task, "Pending")
  /\ accepted' = accepted \union {call[c].task}
  /\ call' = [call EXCEPT ![c] = NoCall]
  /\ UNCHANGED <<submitted, workerVars, mark, operatorVars>>

-----------------------------------------------------------------------------
(* next_task reads current_policy, then takes the lock of that queue; the  *)
(* MLFQ levels have a lock each, taken in turn until one has a task.       *)
ReadPolicy(w) ==
  /\ worker[w].step = "idle"
  /\ worker' = [worker EXCEPT ![w] = [@ EXCEPT !.step = "polling", !.policy = policy]]
  /\ UNCHANGED <<schedulerVars, callVars, dropped, mark, operatorVars>>

PopTask(w, t) ==
  /\ worker[w].step = "polling"
  /\ ~QueueLocked(QueueOf(worker[w].policy))
  /\ Pop(t, worker[w].policy, worker[w].level)
  /\ worker' = [worker EXCEPT ![w] = [@ EXCEPT !.step = "holding", !.task = t, !.level = 0]]
  /\ UNCHANGED <<callVars, dropped, mark, operatorVars>>

FindNothing(w) ==
  /\ worker[w].step = "polling"
  /\ ~QueueLocked(QueueOf(worker[w].policy))
  /\ NextTasks(worker[w].policy, worker[w].level) = {}
  /\ worker' = [worker EXCEPT ![w] = IF @.policy = "MLFQ" /\ @.level < MlfqLevels - 1
                                     THEN [@ EXCEPT !.level = worker[w].level + 1] ELSE Idle]
  /\ UNCHANGED <<schedulerVars, callVars, dropped, mark, operatorVars>>

(* The read block of the mark_task_ methods and cancel_task, found. *)
BeginMark(p, t, status) ==
  /\ mark[p].step = "none"
  /\ t \in Registered
  /\ mark' = [mark EXCEPT ![p] = [step |-> "read", task |-> t, status |-> status]]

(* executor.rs:337. TaskNotFound: the worker forgets the task and goes on. *)
StartTask(w) ==
  /\ worker[w].step = "holding"
  /\ BeginMark(w, worker[w].task, "Running")
  /\ worker' = [worker EXCEPT ![w].step = "running"]
  /\ UNCHANGED <<schedulerVars, callVars, dropped, operatorVars>>

DropTask(w) ==
  /\ worker[w].step = "holding"
  /\ worker[w].task \notin Registered
  /\ dropped' = dropped \union {worker[w].task}
  /\ worker' = [worker EXCEPT ![w] = Idle]
  /\ UNCHANGED <<schedulerVars, callVars, mark, operatorVars>>

(* executor.rs:423 and :445. TaskNotFound is logged. *)
FinishTask(w, status) ==
  /\ worker[w].step = "running" /\ mark[w].step = "none"
  /\ \/ /\ BeginMark(w, worker[w].task, status)
        /\ worker' = [worker EXCEPT ![w].step = "finishing"]
     \/ /\ worker[w].task \notin Registered
        /\ worker' = [worker EXCEPT ![w] = Idle]
        /\ UNCHANGED mark
  /\ UNCHANGED <<schedulerVars, callVars, dropped, operatorVars>>

CancelTask(t) ==
  /\ OperatorCall
  /\ BeginMark(Operator, t, "Cancelled")
  /\ UNCHANGED <<schedulerVars, callVars, workerVars, demoted, clearing, cleared>>

(* The write block: a copy of the task read before, with the new status.   *)
WriteMark(p) ==
  /\ mark[p].step = "read"
  /\ ~RegistryRead
  /\ SetRegistry(mark[p].task, mark[p].status)
  /\ mark' = [mark EXCEPT ![p].step = "written"]
  /\ UNCHANGED <<callVars, workerVars, operatorVars>>

(* The running_tasks block, and the return. *)
EndMark(p) ==
  /\ mark[p].step = "written"
  /\ SetRunningTasks(mark[p].task, mark[p].status)
  /\ mark' = [mark EXCEPT ![p] = NoMark]
  /\ worker' = IF p \in Workers /\ worker[p].step = "finishing"
               THEN [worker EXCEPT ![p] = Idle] ELSE worker
  /\ UNCHANGED <<callVars, dropped, operatorVars>>

-----------------------------------------------------------------------------
(* demote_task, between its two queue locks. It reads the policy and the    *)
(* registry under locks of their own before: the policy may have changed   *)
(* since, and a task is at a level only if it once was MLFQ.               *)
BeginDemote(t) ==
  /\ OperatorCall
  /\ demoted = NoTask
  /\ t \in Registered
  /\ TakeFromLevel(t)
  /\ demoted' = t
  /\ UNCHANGED <<callVars, workerVars, mark, clearing, cleared>>

EndDemote ==
  /\ demoted # NoTask
  /\ PushToLevel(demoted, mlfqLevel[demoted] + 1)
  /\ demoted' = NoTask
  /\ UNCHANGED <<callVars, workerVars, mark, clearing, cleared, operatorCalls>>

(* clear takes the four queue locks; a holder of one of them never waits   *)
(* for another lock, so taking them is one step.                           *)
BeginClear ==
  /\ OperatorCall
  /\ clearing = "no"
  /\ clearing' = "locked"
  /\ cleared' = TRUE
  /\ UNCHANGED <<schedulerVars, callVars, workerVars, mark, demoted>>

EndClear ==
  /\ clearing = "locked"
  /\ ~RegistryRead
  /\ ClearAll
  /\ clearing' = "no"
  /\ UNCHANGED <<callVars, workerVars, mark, demoted, cleared, operatorCalls>>

(* change_policy, stop and restart. *)
Settings ==
  /\ OperatorCall
  /\ \/ \E p \in Policies : SetPolicy(p)
     \/ SetIsRunning(FALSE)
     \/ SetIsRunning(TRUE)
  /\ UNCHANGED <<callVars, workerVars, mark, demoted, clearing, cleared>>

CallStep(c) == CheckCapacity(c) \/ PushTask(c) \/ Register(c)

WorkerStep(w) ==
  \/ ReadPolicy(w)
  \/ \E t \in TaskId : PopTask(w, t)
  \/ FindNothing(w)
  \/ StartTask(w)
  \/ DropTask(w)
  \/ \E status \in {"Completed", "Failed"} : FinishTask(w, status)

MarkStep(p) == WriteMark(p) \/ EndMark(p)

Next ==
  \/ \E c \in Callers, t \in TaskId : Submit(c, t)
  \/ \E c \in Callers : CallStep(c)
  \/ \E w \in Workers : WorkerStep(w)
  \/ \E p \in Markers : MarkStep(p)
  \/ \E t \in TaskId : CancelTask(t)
  \/ \E t \in TaskId : BeginDemote(t)
  \/ EndDemote
  \/ BeginClear
  \/ EndClear
  \/ Settings

(* A method that has begun is polled until it returns; the callers of the  *)
(* operator's methods are under no obligation to call them.                *)
Spec ==
  /\ Init /\ [][Next]_vars
  /\ \A c \in Callers : WF_vars(CallStep(c))
  /\ \A p \in Markers : WF_vars(MarkStep(p))
  /\ WF_vars(EndDemote)
  /\ WF_vars(EndClear)
-----------------------------------------------------------------------------
Count(q, t) == Cardinality({i \in DOMAIN q : q[i] = t})

Holders(t) == {w \in Workers : worker[w].task = t}

Queued(t) == \E q \in QueueName : Contains(queue[q], t)

(* A task is never in two places: twice in the queues, with two workers,   *)
(* or in a queue while a worker or demote_task has it. So it is run once,  *)
(* whatever policy changes, demotions and clears happen meanwhile.         *)
AtMostOnePlace ==
  \A t \in TaskId :
    /\ \A q \in QueueName : Count(queue[q], t) <= 1
    /\ Cardinality({q \in QueueName : Contains(queue[q], t)}) + Cardinality(Holders(t))
         + (IF demoted = t THEN 1 ELSE 0) <= 1

(* max_queued_tasks is checked under a read lock and the task inserted     *)
(* under a write lock: each concurrent call may exceed the limit by one,   *)
(* and after a clear so may each mark_task_ call it overtook. No more.     *)
CapacityOvershoot ==
  Cardinality(Registered)
    <= MaxQueued - 1 + Cardinality(Callers) + (IF ~cleared THEN 0 ELSE Cardinality(Markers))

(* running_tasks holds only tasks a worker still has, with one exception:  *)
(* a task that clear took out of the registry under a mark_task_running.   *)
(* Its worker's mark_task_completed is refused (TaskNotFound) and leaves   *)
(* it in running_tasks; unless a cancel_task that overtook the clear too   *)
(* removes it, it stays.                                                   *)
RunningTasksHeld ==
  \A t \in runningTasks :
    Holders(t) # {} \/ (cleared /\ (t \in Registered => mark[Operator].task = t))

(* A task schedule_task accepted and nobody started or cancelled is in a   *)
(* queue, with a worker or with demote_task, unless clear was called or a  *)
(* worker took it before it was registered and gave it up.                 *)
AcceptedTaskAccounted ==
  \A t \in accepted :
    (registry[t] = "Pending" /\ ~cleared)
      => Queued(t) \/ Holders(t) # {} \/ demoted = t \/ t \in dropped

(* Every task is where its status says, once.                              *)
TasksAccounted == AtMostOnePlace /\ RunningTasksHeld /\ AcceptedTaskAccounted

(* What lion_workflow/README.md:14 promises: under the Priority            *)
(* policy no more urgent task is left behind. Among tasks of one priority  *)
(* the later deadline goes first, where scheduler.rs:244 says earlier.     *)
PopsByPriority ==
  [][\A w \in Workers, t \in TaskId :
       PopTask(w, t) /\ worker[w].policy = "Priority" =>
         \A u \in ToSet(queue'["priority"]) :
           /\ PriorityOf[u] <= PriorityOf[t]
           /\ PriorityOf[u] = PriorityOf[t] => DeadlineOf[u] <= DeadlineOf[t]]_vars

CircularWait ==
  /\ clearing = "locked"
  /\ \E c \in Callers : call[c].step = "checked" /\ QueueLocked(QueueOf(call[c].policy))

(* Every call of schedule_task returns, unless it and clear wait for each  *)
(* other: the call for a queue lock, clear for the registry lock.          *)
CallsReturnUnlessCircularWait ==
  \A c \in Callers : call[c].step # "none" ~> (call[c].step = "none" \/ CircularWait)
=============================================================================
